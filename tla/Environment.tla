---------------------------- MODULE Environment ----------------------------
(***************************************************************************)
(* What `jdk setup` writes outside the store and `jdk setup --undo` takes  *)
(* back: JAVA_HOME and Path in HKCU\Environment (jdk-core/src/env.rs), and *)
(* config.toml, where the JAVA_HOME that setup displaces is kept beside    *)
(* the user's settings (jdk-core/src/config.rs).  The steps are those of   *)
(* apply and write_java_home (jdk/src/setup.rs) and of apply and           *)
(* restore_java_home (jdk/src/undo.rs).  Every value is read in one call   *)
(* and written in another, without a lock; any call may be refused, which  *)
(* ends the command, and the process may die between two.  The files that  *)
(* the same commands place are in ExeSwap, the junction is in Current.     *)
(***************************************************************************)
EXTENDS Naturals, Sequences, FiniteSets

CONSTANTS
    Procs,       \* the processes running one of Commands
    Commands,    \* the commands of a run: see AllCommands
    Values,      \* the values, with their registry type, a user gives JAVA_HOME
    Unwritable,  \* those that config.toml cannot hold
    Settings,    \* what a user can say in config.toml
    Defaults,    \* what a missing config.toml says
    Dirs,        \* the directories of other programs in Path
    UserWaits    \* whether the user changes something between commands only

(* `purge` is an undo with --purge.                                        *)
AllCommands == {"setup", "undo", "purge"}

ASSUME EnvironmentAssumption ==
    /\ Commands \subseteq AllCommands
    /\ Values \cap {"absent", "junction"} = {}
    /\ Unwritable \subseteq Values
    /\ Defaults \in Settings
    /\ Dirs \cap {"bin", "shims"} = {}
    /\ UserWaits \in BOOLEAN

VARIABLES
    home,      \* JAVA_HOME: not set, the junction, or a value of the user's
    users,     \* what the user last made of JAVA_HOME
    path,      \* the entries of Path
    settings,  \* the user's part of config.toml
    backup,    \* its java-home-before; `absent` when there is none
    pc, cmd,   \* what each process does next, of which command
    loaded,    \* the settings it read
    kept,      \* the backup that an undo read
    seen,      \* the JAVA_HOME that a setup read
    raw        \* the Path it read

registry == <<home, users, path>>
config   == <<settings, backup>>
own      == <<cmd, loaded, kept, seen, raw>>
vars     == <<home, users, path, settings, backup,
              pc, cmd, loaded, kept, seen, raw>>

Ours     == {"bin", "shims"}
Entries  == Dirs \cup Ours
Backups  == Values \cup {"absent"}
PCs == {"idle", "load", "see", "backup", "home", "bin", "binSet", "shims",
        "shimsSet", "kept", "restore", "give", "clear", "unpath", "unpathSet",
        "purge", "done"}

TypeOK ==
    /\ home \in Backups \cup {"junction"}
    /\ users \in Backups
    /\ path \in Seq(Entries)
    /\ settings \in Settings
    /\ backup \in Backups
    /\ pc \in [Procs -> PCs]
    /\ cmd \in [Procs -> AllCommands]
    /\ loaded \in [Procs -> Settings]
    /\ kept \in [Procs -> Backups]
    /\ seen \in [Procs -> Backups \cup {"junction"}]
    /\ raw \in [Procs -> Seq(Entries)]

Init ==
    /\ home \in Backups
    /\ users = home
    /\ path \in {<<>>} \cup {<<d>> : d \in Dirs}
    /\ settings = Defaults
    /\ backup = "absent"
    /\ pc = [p \in Procs |-> "idle"]
    /\ cmd = [p \in Procs |-> "setup"]
    /\ loaded = [p \in Procs |-> Defaults]
    /\ kept = [p \in Procs |-> "absent"]
    /\ seen = [p \in Procs |-> "absent"]
    /\ raw = [p \in Procs |-> <<>>]

-----------------------------------------------------------------------------

Goto(p, l) == pc' = [pc EXCEPT ![p] = l]

(* No command is under way.                                                *)
Quiet == \A p \in Procs : pc[p] \in {"idle", "done"}

Listed(e, s) == \E i \in DOMAIN s : s[i] = e

(* path_count.                                                             *)
Copies(e, s) == Cardinality({i \in DOMAIN s : s[i] = e})

(* The entries of s that are not in E, in their order.                     *)
Without(s, E) ==
    LET upTo[i \in 0 .. Len(s)] ==
          IF i = 0 THEN <<>>
          ELSE IF s[i] \in E THEN upTo[i - 1] ELSE Append(upTo[i - 1], s[i])
    IN  upTo[Len(s)]

(* A process that has ended remembers nothing.                             *)
Forget(p) ==
    /\ loaded' = [loaded EXCEPT ![p] = Defaults]
    /\ kept' = [kept EXCEPT ![p] = "absent"]
    /\ seen' = [seen EXCEPT ![p] = "absent"]
    /\ raw' = [raw EXCEPT ![p] = <<>>]

Begin(p, c) ==
    /\ pc[p] \in {"idle", "done"}
    /\ Goto(p, "load")
    /\ cmd' = [cmd EXCEPT ![p] = c]
    /\ Forget(p)
    /\ UNCHANGED <<registry, config>>

(* crate::config, which both commands read before anything else.           *)
Load(p) ==
    /\ pc[p] = "load"
    /\ loaded' = [loaded EXCEPT ![p] = settings]
    /\ Goto(p, IF cmd[p] = "setup" THEN "see" ELSE "kept")
    /\ UNCHANGED <<registry, config, cmd, kept, seen, raw>>

(* Mutant: the rewrite of config.toml starts from the defaults.            *)
EmitDefaults(p, b) ==
    /\ settings' = Defaults
    /\ backup' = b

(* The rewrite of config.toml, with the settings that were read before.    *)
Emit(p, b) ==
    /\ settings' = loaded[p]
    /\ backup' = b

(* A refused call or consent, whose error ends the command, or its death.  *)
Stop(p) ==
    /\ pc[p] \notin {"idle", "done"}
    /\ Goto(p, "idle")
    /\ Forget(p)
    /\ UNCHANGED <<registry, config, cmd>>

-----------------------------------------------------------------------------
(* Setup.                                                                  *)

(* The look at JAVA_HOME that consent is asked for.  The shims and the CLI *)
(* are placed after it, before JAVA_HOME is written.                       *)
See(p) ==
    /\ pc[p] = "see"
    /\ seen' = [seen EXCEPT ![p] = home]
    /\ Goto(p, "backup")
    /\ UNCHANGED <<registry, config, cmd, loaded, kept, raw>>

(* Mutant: a setup that displaces nothing leaves an old backup in place.   *)
BackUpForeign(p) ==
    /\ pc[p] = "backup"
    /\ \/ seen[p] = "junction" /\ Goto(p, "bin") /\ UNCHANGED config
       \/ seen[p] = "absent" /\ Goto(p, "home") /\ UNCHANGED config
       \/ seen[p] \in Values \ Unwritable /\ Emit(p, seen[p]) /\ Goto(p, "home")
    /\ UNCHANGED <<registry, own>>

(* What is displaced is recorded first: the value, or that there was none. *)
BackUp(p) ==
    /\ pc[p] = "backup"
    /\ \/ /\ seen[p] = "junction"
          /\ Goto(p, "bin")
          /\ UNCHANGED config
       \/ /\ seen[p] = "absent"
          /\ \/ backup # "absent" /\ Emit(p, "absent")
             \/ backup = "absent" /\ UNCHANGED config
          /\ Goto(p, "home")
       \/ /\ seen[p] \in Values \ Unwritable
          /\ Emit(p, seen[p])
          /\ Goto(p, "home")
    /\ UNCHANGED <<registry, own>>

SetHome(p) ==
    /\ pc[p] = "home"
    /\ home' = "junction"
    /\ Goto(p, "bin")
    /\ UNCHANGED <<users, path, config, own>>

(* prepend_path of bin, then of shims: the read,                           *)
PrependRead(p) ==
    /\ pc[p] \in Ours
    /\ raw' = [raw EXCEPT ![p] = path]
    /\ \/ ~Listed(pc[p], path) /\ Goto(p, IF pc[p] = "bin" THEN "binSet" ELSE "shimsSet")
       \/ Listed(pc[p], path) /\ Goto(p, IF pc[p] = "bin" THEN "shims" ELSE "done")
    /\ UNCHANGED <<registry, config, cmd, loaded, kept, seen>>

(* Mutant: the write puts its entry in the place of the others.            *)
PrependAlone(p) ==
    /\ \/ pc[p] = "binSet" /\ path' = <<"bin">> /\ Goto(p, "shims")
       \/ pc[p] = "shimsSet" /\ path' = <<"shims", "bin">> /\ Goto(p, "done")
    /\ UNCHANGED <<home, users, config, own>>

(* and the write.                                                          *)
PrependWrite(p) ==
    /\ \/ pc[p] = "binSet" /\ path' = <<"bin">> \o raw[p] /\ Goto(p, "shims")
       \/ pc[p] = "shimsSet" /\ path' = <<"shims">> \o raw[p] /\ Goto(p, "done")
    /\ UNCHANGED <<home, users, config, own>>

-----------------------------------------------------------------------------
(* Undo.                                                                   *)

(* The backup is read before any consent is asked for.                     *)
Keep(p) ==
    /\ pc[p] = "kept"
    /\ kept' = [kept EXCEPT ![p] = backup]
    /\ Goto(p, "restore")
    /\ UNCHANGED <<registry, config, cmd, loaded, seen, raw>>

(* Mutant: undo takes whatever JAVA_HOME says for setup's.                 *)
RestoreAny(p) ==
    /\ pc[p] = "restore"
    /\ Goto(p, IF home # "absent" THEN "give" ELSE "unpath")
    /\ UNCHANGED <<registry, config, own>>

RestoreRead(p) ==
    /\ pc[p] = "restore"
    /\ Goto(p, IF home = "junction" THEN "give" ELSE "unpath")
    /\ UNCHANGED <<registry, config, own>>

(* The backup goes back, or JAVA_HOME goes when there is none.             *)
GiveBack(p) ==
    /\ pc[p] = "give"
    /\ home' = kept[p]
    /\ Goto(p, IF kept[p] = "absent" THEN "unpath" ELSE "clear")
    /\ UNCHANGED <<users, path, config, own>>

Clear(p) ==
    /\ pc[p] = "clear"
    /\ Emit(p, "absent")
    /\ Goto(p, "unpath")
    /\ UNCHANGED <<registry, own>>

(* What follows in an undo: only --purge touches config.toml.              *)
AfterPath(p) == IF cmd[p] = "purge" THEN "purge" ELSE "done"

(* remove_path_entries: the read and the write.                            *)
UnpathRead(p) ==
    /\ pc[p] = "unpath"
    /\ raw' = [raw EXCEPT ![p] = path]
    /\ Goto(p, IF \E e \in Ours : Listed(e, path) THEN "unpathSet" ELSE AfterPath(p))
    /\ UNCHANGED <<registry, config, cmd, loaded, kept, seen>>

(* Mutant: of the two entries only the shims' is removed.                  *)
UnpathShims(p) ==
    /\ pc[p] = "unpathSet"
    /\ path' = Without(raw[p], {"shims"})
    /\ Goto(p, AfterPath(p))
    /\ UNCHANGED <<home, users, config, own>>

UnpathWrite(p) ==
    /\ pc[p] = "unpathSet"
    /\ path' = Without(raw[p], Ours)
    /\ Goto(p, AfterPath(p))
    /\ UNCHANGED <<home, users, config, own>>

(* config.toml goes with the store; a file in use is left and reported.    *)
Purge(p) ==
    /\ pc[p] = "purge"
    /\ \/ settings' = Defaults /\ backup' = "absent"
       \/ UNCHANGED config
    /\ Goto(p, "done")
    /\ UNCHANGED <<registry, own>>

-----------------------------------------------------------------------------
(* The user, and the installers of other programs.                         *)

MayChange == UserWaits => Quiet

UserHome(v) ==
    /\ MayChange
    /\ home' = v
    /\ users' = v
    /\ UNCHANGED <<path, config, pc, own>>

(* An entry is taken out of Path, or put or moved to one of its ends; one  *)
(* of jdk's may be pasted once more, within MaxPath.                       *)
MaxPath == Cardinality(Entries)

UserPath(e) ==
    /\ MayChange
    /\ LET others == Without(path, {e})
       IN  path' \in {others}
             \cup {s \in {<<e>> \o others, Append(others, e)} : e \in Dirs}
             \cup {s \in {Append(path, e)} : e \in Ours /\ Copies(e, path) = 1 /\ Len(path) < MaxPath}
    /\ UNCHANGED <<home, users, config, pc, own>>

UserSettings(s) ==
    /\ MayChange
    /\ settings' = s
    /\ UNCHANGED <<registry, backup, pc, own>>

-----------------------------------------------------------------------------

Step(p) ==
    \/ Load(p) \/ See(p) \/ BackUp(p) \/ SetHome(p)
    \/ PrependRead(p) \/ PrependWrite(p)
    \/ Keep(p) \/ RestoreRead(p) \/ GiveBack(p) \/ Clear(p)
    \/ UnpathRead(p) \/ UnpathWrite(p) \/ Purge(p)

Next ==
    \/ \E p \in Procs :
         \/ \E c \in Commands : Begin(p, c)
         \/ Step(p)
         \/ Stop(p)
    \/ \E v \in Backups : UserHome(v)
    \/ \E e \in Entries : UserPath(e)
    \/ \E s \in Settings : UserSettings(s)

Spec == Init /\ [][Next]_vars

-----------------------------------------------------------------------------
(* doctor.                                                                 *)

(* What the checks JAVA_HOME, PATH and PATH bin tell the user to do.       *)
HomeRemedy ==
    CASE home = "junction" -> {}
      [] home = "absent"   -> {<<"jdk setup">>}
      [] home \in Values   -> {<<"jdk setup", "--yes">>}

PathRemedy(e) ==
    CASE Copies(e, path) = 0 -> {<<"jdk setup">>}
      [] Copies(e, path) = 1 -> {}
      [] OTHER               -> {<<"keep a single", e>>}

Remedies == HomeRemedy \cup PathRemedy("shims") \cup PathRemedy("bin")

-----------------------------------------------------------------------------
(* Properties.                                                             *)

(* While JAVA_HOME is the junction, what the user had there is on record:  *)
(* the value, or that there was none.  No refusal and no death between the *)
(* backup and the overwrite loses it (setup.rs:222-226, 252-256).          *)
JavaHomeIsOnRecord == home = "junction" => backup = users

(* An undo puts back what the user had, never a value that an earlier      *)
(* setup displaced and that was given back or changed since; a JAVA_HOME   *)
(* that is not the junction it leaves alone (undo.rs:74-78, 244-253).      *)
UndoGivesBack == home # "junction" => home = users

(* A rewrite of config.toml for the backup's sake keeps the settings: only *)
(* a purge resets them (config.rs:57-60, 114-118).                         *)
SettingsAreKept ==
    [][settings' # settings
         => \/ \E s \in Settings : UserSettings(s)
            \/ \E p \in Procs : pc[p] = "purge"]_vars

(* The entries of other programs stay in Path, in their order              *)
(* (env.rs:164-168, 215-225).                                              *)
Theirs(s) == Without(s, Ours)
OthersAreKept ==
    [][Theirs(path') # Theirs(path) => \E e \in Entries : UserPath(e)]_vars

(* `jdk setup` is the remedy it is said to be: one that ends well leaves   *)
(* nothing for which doctor names it, and no setup makes doctor ask for    *)
(* what it did not ask for before; an undo that ends well leaves none of   *)
(* jdk's values (setup.rs:58-75, undo.rs:69-105, doctor.rs:250-363).       *)
SuccessIsComplete ==
    [][\A p \in Procs :
         pc[p] # "idle" /\ pc'[p] # pc[p] =>
           /\ cmd[p] = "setup" /\ pc'[p] = "done"
                => \A r \in Remedies' : r[1] # "jdk setup"
           /\ cmd[p] = "setup" => Remedies' \subseteq Remedies
           /\ cmd[p] # "setup" /\ pc'[p] = "done"
                => home' # "junction" /\ \A e \in Ours : ~Listed(e, path')]_vars

=============================================================================
