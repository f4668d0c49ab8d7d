------------------------------ MODULE Current ------------------------------
(***************************************************************************)
(* The `current` junction, the fixed path JAVA_HOME points at              *)
(* (jdk-core/src/current.rs), and the commands that move it: `jdk use`,    *)
(* the first install's election of a global (jdk/src/install.rs), setup's  *)
(* ensure_junction (jdk/src/setup.rs) and undo's unlink (jdk/src/undo.rs). *)
(* No lock is taken: every process stages its junction at the same path,   *)
(* current.new, and may die between any two calls.                         *)
(***************************************************************************)
EXTENDS Naturals

CONSTANTS
    Procs,     \* the processes running one of these commands
    Targets,   \* the candidate directories a junction can point at
    Settled    \* whether candidates come and go between commands only

(* What sits at a path: nothing, an empty real directory (what the         *)
(* junction crate leaves half-way), a directory of somebody else's, or a   *)
(* junction, represented by its target.                                    *)
NotJunction == {"dir", "foreign"}
ASSUME TargetsAssumption == Targets \cap ({"absent"} \cup NotJunction) = {}
ASSUME SettledAssumption == Settled \in BOOLEAN

Entries == Targets \cup {"absent"} \cup NotJunction
Paths   == {"current", "staging"}

VARIABLES
    entry,     \* what sits at each path
    alive,     \* the targets that exist
    jdks,      \* those that have a bin\java.exe
    pc, op,    \* what each process is doing, for which command
    phase,     \* why it is unlinking
    target,    \* where it wants the junction to point
    result     \* how its last command ended

candidates == <<alive, jdks>>
vars == <<entry, candidates, pc, op, phase, target, result>>

Commands == {"use", "install", "setup", "undo"}
PCs == {"idle", "inspect", "classify", "delete", "rmdir", "mkdir", "set", "swap"}

TypeOK ==
    /\ entry \in [Paths -> Entries]
    /\ alive \subseteq Targets
    /\ jdks \subseteq alive
    /\ pc \in [Procs -> PCs]
    /\ op \in [Procs -> Commands]
    /\ phase \in [Procs -> {"clear", "cleanup", "undo"}]
    /\ target \in [Procs -> Targets]
    /\ result \in [Procs -> {"none", "ok", "error"}]

Init ==
    /\ entry \in {[q \in Paths |-> IF q = "current" THEN e ELSE "absent"] :
                    e \in {"absent", "foreign"}}
    /\ alive = {}
    /\ jdks = {}
    /\ pc = [p \in Procs |-> "idle"]
    /\ op = [p \in Procs |-> "use"]
    /\ phase = [p \in Procs |-> "clear"]
    /\ \E t \in Targets : target = [p \in Procs |-> t]
    /\ result = [p \in Procs |-> "none"]

-----------------------------------------------------------------------------
(* The commands.                                                           *)

(* Mutant: a retarget makes room by unlinking `current` itself.            *)
UnlinksCurrent(p) == "current"

Unlinks(p) == IF phase[p] = "undo" THEN "current" ELSE "staging"

Goto(p, l) == pc' = [pc EXCEPT ![p] = l]

End(p, r) ==
    /\ Goto(p, "idle")
    /\ result' = [result EXCEPT ![p] = r]

(* use, install and setup each found or made the candidate they point at;  *)
(* none of them looks for its java.exe.                                    *)
Begin(p, c, t) ==
    /\ pc[p] = "idle"
    /\ c # "undo" => t \in alive
    /\ Goto(p, IF c \in {"install", "setup"} THEN "inspect" ELSE "classify")
    /\ op' = [op EXCEPT ![p] = c]
    /\ phase' = [phase EXCEPT ![p] = IF c = "undo" THEN "undo" ELSE "clear"]
    /\ target' = [target EXCEPT ![p] = t]
    /\ result' = [result EXCEPT ![p] = "none"]
    /\ UNCHANGED <<entry, candidates>>

(* Mutant: install elects over a junction whose target is still there.     *)
UnsetAnyJunction(c) ==
    \/ entry["current"] = "absent"
    \/ c = "install" /\ entry["current"] \in Targets

(* No valid global: install re-elects over a dead junction, setup only     *)
(* where there is nothing.                                                 *)
Unset(c) ==
    \/ entry["current"] = "absent"
    \/ c = "install" /\ entry["current"] \in Targets \ alive

Inspect(p) ==
    /\ pc[p] = "inspect"
    /\ \/ Unset(op[p]) /\ Goto(p, "classify") /\ UNCHANGED result
       \/ ~Unset(op[p]) /\ End(p, "ok")
    /\ UNCHANGED <<entry, candidates, op, phase, target>>

-----------------------------------------------------------------------------
(* unlink(path): of staging before and after a swap, of current for undo.  *)
(* Its errors end a retarget and an undo, and are ignored in a cleanup,    *)
(* which ends in the swap's error anyway.                                  *)

Unlinked(p) ==
    CASE phase[p] = "clear"   -> Goto(p, "mkdir") /\ UNCHANGED result
      [] phase[p] = "cleanup" -> End(p, "error")
      [] phase[p] = "undo"    -> End(p, "ok")

ClassifyAbsent(p) ==
    /\ pc[p] = "classify"
    /\ entry[Unlinks(p)] = "absent"
    /\ Unlinked(p)
    /\ UNCHANGED <<entry, candidates, op, phase, target>>

ClassifyJunction(p) ==
    /\ pc[p] = "classify"
    /\ entry[Unlinks(p)] \in Targets
    /\ Goto(p, "delete")
    /\ UNCHANGED <<entry, candidates, op, phase, target, result>>

(* "exists and is not a junction".                                         *)
ClassifyRefuses(p) ==
    /\ pc[p] = "classify"
    /\ entry[Unlinks(p)] \in NotJunction
    /\ End(p, "error")
    /\ UNCHANGED <<entry, candidates, op, phase, target>>

(* Mutant: the empty directory stays.                                      *)
DeleteJunctionOnly(p) ==
    /\ pc[p] = "delete"
    /\ entry[Unlinks(p)] \in Targets
    /\ entry' = [entry EXCEPT ![Unlinks(p)] = "dir"]
    /\ Unlinked(p)
    /\ UNCHANGED <<candidates, op, phase, target>>

(* junction::delete takes the reparse point and leaves an empty directory. *)
DeleteJunction(p) ==
    /\ pc[p] = "delete"
    /\ entry[Unlinks(p)] \in Targets
    /\ entry' = [entry EXCEPT ![Unlinks(p)] = "dir"]
    /\ Goto(p, "rmdir")
    /\ UNCHANGED <<candidates, op, phase, target, result>>

DeleteJunctionFails(p) ==
    /\ pc[p] = "delete"
    /\ End(p, "error")
    /\ UNCHANGED <<entry, candidates, op, phase, target>>

(* RemoveDirectory takes an empty directory, or a junction made there      *)
(* meanwhile.                                                              *)
RemoveDir(p) ==
    /\ pc[p] = "rmdir"
    /\ entry[Unlinks(p)] \in Targets \cup {"dir"}
    /\ entry' = [entry EXCEPT ![Unlinks(p)] = "absent"]
    /\ Unlinked(p)
    /\ UNCHANGED <<candidates, op, phase, target>>

RemoveDirFails(p) ==
    /\ pc[p] = "rmdir"
    /\ End(p, "error")
    /\ UNCHANGED <<entry, candidates, op, phase, target>>

-----------------------------------------------------------------------------
(* retarget: junction::create is a create_dir, which fails on a name that  *)
(* exists, and the setting of the reparse point.                           *)

MakeDir(p) ==
    /\ pc[p] = "mkdir"
    /\ entry["staging"] = "absent"
    /\ entry' = [entry EXCEPT !["staging"] = "dir"]
    /\ Goto(p, "set")
    /\ UNCHANGED <<candidates, op, phase, target, result>>

MakeDirFails(p) ==
    /\ pc[p] = "mkdir"
    /\ End(p, "error")
    /\ UNCHANGED <<entry, candidates, op, phase, target>>

SetReparsePoint(p) ==
    /\ pc[p] = "set"
    /\ entry["staging"] \in Targets \cup {"dir"}
    /\ entry' = [entry EXCEPT !["staging"] = target[p]]
    /\ Goto(p, "swap")
    /\ UNCHANGED <<candidates, op, phase, target, result>>

(* Mutant: the failure of junction::create is dropped.                     *)
SetReparsePointUnchecked(p) ==
    /\ pc[p] = "set"
    /\ Goto(p, "swap")
    /\ UNCHANGED <<entry, candidates, op, phase, target, result>>

(* Whether the crate takes its directory back is not the caller's to say.  *)
SetReparsePointFails(p) ==
    /\ pc[p] = "set"
    /\ entry' \in {entry, [entry EXCEPT !["staging"] =
                               IF @ = "dir" THEN "absent" ELSE @]}
    /\ End(p, "error")
    /\ UNCHANGED <<candidates, op, phase, target>>

(* Mutant: whatever is at `current` is removed to make room.               *)
SwapForces(p) ==
    /\ pc[p] = "swap"
    /\ entry["staging"] # "absent"
    /\ entry' = [entry EXCEPT !["current"] = entry["staging"], !["staging"] = "absent"]
    /\ End(p, "ok")
    /\ UNCHANGED <<candidates, op, phase, target>>

(* atomic_rename(staging, current).  Whether an empty directory replaces a *)
(* junction, or a junction an empty directory, is the file system's choice.*)
Swap(p) ==
    /\ pc[p] = "swap"
    /\ entry["staging"] # "absent"
    /\ entry["current"] # "foreign"
    /\ entry' = [entry EXCEPT !["current"] = entry["staging"], !["staging"] = "absent"]
    /\ End(p, "ok")
    /\ UNCHANGED <<candidates, op, phase, target>>

(* Refused, for good or because something has `current` open.              *)
SwapFails(p) ==
    /\ pc[p] = "swap"
    /\ Goto(p, "classify")
    /\ phase' = [phase EXCEPT ![p] = "cleanup"]
    /\ UNCHANGED <<entry, candidates, op, target, result>>

-----------------------------------------------------------------------------
(* The environment: candidates come, lose files and go, processes die.     *)

MayMove == Settled => \A p \in Procs : pc[p] = "idle"

(* Installed, or renamed aside half deleted.  An install has seen that     *)
(* there is a javac.exe (layout.rs).                                       *)
Appear(t) ==
    /\ MayMove
    /\ t \notin alive
    /\ alive' = alive \cup {t}
    /\ jdks' \in {jdks, jdks \cup {t}}
    /\ UNCHANGED <<entry, pc, op, phase, target, result>>

Disappear(t) ==
    /\ MayMove
    /\ t \in alive
    /\ alive' = alive \ {t}
    /\ jdks' = jdks \ {t}
    /\ UNCHANGED <<entry, pc, op, phase, target, result>>

(* A deletion that got no further, or somebody else, takes its java.exe.   *)
Spoil(t) ==
    /\ t \in jdks
    /\ jdks' = jdks \ {t}
    /\ UNCHANGED <<entry, alive, pc, op, phase, target, result>>

Crash(p) ==
    /\ pc[p] # "idle"
    /\ Goto(p, "idle")
    /\ UNCHANGED <<entry, candidates, op, phase, target, result>>

-----------------------------------------------------------------------------

Step(p) ==
    \/ Inspect(p)
    \/ ClassifyAbsent(p) \/ ClassifyJunction(p) \/ ClassifyRefuses(p)
    \/ DeleteJunction(p) \/ DeleteJunctionFails(p)
    \/ RemoveDir(p) \/ RemoveDirFails(p)
    \/ MakeDir(p) \/ MakeDirFails(p)
    \/ SetReparsePoint(p) \/ SetReparsePointFails(p)
    \/ Swap(p) \/ SwapFails(p)

Next ==
    \/ \E p \in Procs :
         \/ \E c \in Commands, t \in Targets : Begin(p, c, t)
         \/ Step(p)
         \/ Crash(p)
    \/ \E t \in Targets : Appear(t) \/ Disappear(t) \/ Spoil(t)

Spec == Init /\ [][Next]_vars

-----------------------------------------------------------------------------
(* doctor's junction check.  What it calls broken it has a remedy for:     *)
(* `jdk use`, after moving away what is in the way.  inspect has no error  *)
(* to report (current.rs:30-32), so that the arm for one is never taken.   *)
JunctionCheck ==
    CASE entry["current"] = "absent"          -> "note"
      [] entry["current"] \in NotJunction     -> "in the way"
      [] entry["current"] \in Targets \ alive -> "no target"
      [] entry["current"] \in alive \ jdks    -> "no java.exe"
      [] entry["current"] \in jdks            -> "pass"

-----------------------------------------------------------------------------
(* Properties.                                                             *)

(* The step is p's, taking `current` away for undo.                        *)
Undoes(p) ==
    /\ phase[p] = "undo"
    /\ pc[p] \in {"delete", "rmdir"}
    /\ pc'[p] # pc[p]

(* The step is p's, swapping its staging junction in.                      *)
Swaps(p) == pc[p] = "swap" /\ pc'[p] = "idle" /\ result'[p] = "ok"

(* Once `current` is a junction it stays one, to the old target or to the  *)
(* new one, through every retarget and every crash of one; only undo takes *)
(* it away (current.rs:47-50).                                             *)
NeverToNothing ==
    [][entry["current"] \in Targets /\ entry'["current"] \notin Targets
         => \E p \in Procs : Undoes(p)]_vars

(* A retarget that reports success left `current` on its own target        *)
(* (current.rs:47), which has not gone meanwhile: doctor passes it, unless *)
(* the target has no java.exe, of which only doctor takes notice           *)
(* (doctor.rs:209-248).                                                    *)
SuccessIsOnTarget ==
    [][\A p \in Procs :
         Swaps(p) =>
           /\ entry'["current"] = target[p]
           /\ JunctionCheck' = IF target[p] \in jdks THEN "pass" ELSE "no java.exe"]_vars

(* "Leftovers of a crashed swap" are cleared by the next one: whatever a   *)
(* retarget fails or dies at, what it leaves at the staging path is what   *)
(* unlink clears, nothing or a junction, unless that is what it stopped    *)
(* at, or it got no further than half of unlink or of junction::create     *)
(* (current.rs:55, 79-88).                                                 *)
LeftoversAreCleared ==
    [][\A p \in Procs :
         /\ pc[p] \notin {"idle", "rmdir", "set"} /\ phase[p] # "undo" /\ pc'[p] = "idle"
         /\ entry'["staging"] \in NotJunction
         => phase[p] = "clear" /\ pc[p] \in {"inspect", "classify"}]_vars

(* Whatever somebody else put at `current` is never touched, by no command *)
(* and no race of two (current.rs:25-26, 165-176).                         *)
ForeignIsKept ==
    [][\A q \in Paths : entry[q] = "foreign" => entry'[q] = "foreign"]_vars

(* A global that resolves is moved by `jdk use` and taken by undo; neither *)
(* an install nor a setup disturbs it (install.rs:73-75, setup.rs:290-292).*)
HealthyGlobalIsKept ==
    [][entry["current"] \in alive /\ entry'["current"] # entry["current"]
         => \E p \in Procs : \/ Undoes(p)
                             \/ Swaps(p) /\ op[p] = "use"]_vars

=============================================================================
