------------------------------ MODULE ExeSwap ------------------------------
(***************************************************************************)
(* One executable that is replaced while it may be running: bin\jdk.exe or *)
(* a shim of shims\.  Its name `dest` is surrounded by three more: the     *)
(* staging <name>.exe.new, the aside <name>.exe.old and the `source` that  *)
(* an update extracts under cache\update.  The steps are those of          *)
(* replace_running and remove_running (jdk-core/src/file_ops.rs),          *)
(* materialize (jdk-core/src/shims.rs), `jdk update` (jdk/src/update.rs),  *)
(* setup's place_beside (jdk/src/setup.rs), undo's remove_files            *)
(* (jdk/src/undo.rs) and the shim's restore_aside (jdk-shim/src/main.rs).  *)
(* No lock is taken, and a process may die between any two calls.          *)
(***************************************************************************)
EXTENDS Naturals

CONSTANTS
    Procs,      \* the processes running one of Commands
    Files,      \* the files, whatever name they have
    NoFile,     \* no file
    Commands,   \* the commands of a run: see AllCommands
    Together,   \* those of them that run beside one another, or themselves
    MayScan     \* whether an antivirus looks at what was just staged

(* `loose` is a `jdk update` of a jdk.exe that is not the store's; `setup` *)
(* copies its own jdk.exe to bin; `materialize` writes a shim, for setup   *)
(* or for update; `shim` is an auto-install that looks for jdk.exe.        *)
AllCommands == {"update", "loose", "setup", "materialize", "shim", "undo"}

ASSUME ExeSwapAssumption ==
    /\ NoFile \notin Files
    /\ Commands \subseteq AllCommands
    /\ Together \subseteq AllCommands
    /\ MayScan \in BOOLEAN

Paths == {"dest", "new", "old", "source"}

VARIABLES
    at,        \* the file of each name
    partial,   \* the files that are not completely written
    images,    \* the files that other programs are executing
    scanned,   \* the files an antivirus has open, sharing them with nobody
    died,      \* whether some process has died
    met,       \* whether two that write have run beside one another
    undone,    \* whether an undo has run
    image,     \* the file that each process is itself executing
    handle,    \* the file it is writing
    failing,   \* whether its sweep follows a failed copy
    cmd, pc    \* its command and what it does next

others == <<images, scanned, died, met, undone>>
own    == <<image, handle, failing, cmd>>
vars   == <<at, partial, images, scanned, died, met, undone, image, handle,
            failing, cmd, pc>>

PCs ==
    {"idle", "sweep", "check", "sweepOld", "guard", "wipe", "compare", "create",
     "write", "stage", "rename", "swap", "exists", "clear", "aside", "place",
     "retry", "rollback", "fail", "finish", "look", "restore", "undo",
     "remove", "undoClear", "undoAside", "undoDrop"}

TypeOK ==
    /\ at \in [Paths -> Files \cup {NoFile}]
    /\ partial \subseteq Files
    /\ images \subseteq Files
    /\ scanned \subseteq Files
    /\ died \in BOOLEAN
    /\ met \in BOOLEAN
    /\ undone \in BOOLEAN
    /\ image \in [Procs -> Files \cup {NoFile}]
    /\ handle \in [Procs -> Files \cup {NoFile}]
    /\ failing \in [Procs -> BOOLEAN]
    /\ cmd \in [Procs -> AllCommands]
    /\ pc \in [Procs -> PCs]

Init ==
    /\ \E f \in Files :
         at = [x \in Paths |-> IF x = "dest" THEN f ELSE NoFile]
    /\ partial = {}
    /\ images = {}
    /\ scanned = {}
    /\ died = FALSE
    /\ met = FALSE
    /\ undone = FALSE
    /\ image = [p \in Procs |-> NoFile]
    /\ handle = [p \in Procs |-> NoFile]
    /\ failing = [p \in Procs |-> FALSE]
    /\ cmd = [p \in Procs |-> "update"]
    /\ pc = [p \in Procs |-> "idle"]

-----------------------------------------------------------------------------
(* What Windows allows.  An image that executes can be renamed, not        *)
(* deleted or replaced; a file opened without sharing, none of these; one  *)
(* that fs::write or the extraction has open, all of them.                 *)

There(x) == at[x] # NoFile

Executing(f) == f \in images \/ \E p \in Procs : image[p] = f

(* fs::copy, unlike File::create, shares its destination with nobody.      *)
Locked(f) ==
    \/ f \in scanned
    \/ \E p \in Procs : handle[p] = f /\ cmd[p] = "materialize"

Unused(f) ==
    /\ \A x \in Paths : at[x] # f
    /\ ~Executing(f)
    /\ f \notin scanned
    /\ \A p \in Procs : handle[p] # f

Deletable(x) == There(x) /\ ~Executing(at[x]) /\ ~Locked(at[x])

(* A rename, which replaces what is at the name it gives.                  *)
CanRename(x, y) ==
    /\ There(x) /\ ~Locked(at[x])
    /\ There(y) => Deletable(y)

Renamed(x, y) == at' = [at EXCEPT ![y] = at[x], ![x] = NoFile]

(* remove_file with its error ignored.                                     *)
Dropped(x) == at' = [at EXCEPT ![x] = IF Deletable(x) THEN NoFile ELSE @]

Goto(p, l) == pc' = [pc EXCEPT ![p] = l]

(* The process ends, and no longer executes its image.                     *)
End(p) ==
    /\ Goto(p, "idle")
    /\ image' = [image EXCEPT ![p] = NoFile]
    /\ UNCHANGED <<handle, failing, cmd>>

-----------------------------------------------------------------------------
(* Commands.                                                               *)

FirstStep(c) ==
    CASE c \in {"update", "loose", "materialize"} -> "sweep"
      [] c = "setup" -> "compare"
      [] c = "shim"  -> "look"
      [] c = "undo"  -> "undo"

(* The other processes that are running a command.                         *)
Beside(p) == {q \in Procs \ {p} : pc[q] # "idle"}

(* The store's own jdk.exe runs an update, and an undo as a rule.          *)
Begin(p, c) ==
    /\ pc[p] = "idle"
    /\ \A q \in Beside(p) : {c, cmd[q]} \subseteq Together
    /\ met' = (met \/ \E q \in Beside(p) : "shim" \notin {c, cmd[q]})
    /\ undone' = (undone \/ c = "undo")
    /\ cmd' = [cmd EXCEPT ![p] = c]
    /\ \/ /\ c # "update"
          /\ image' = image
       \/ /\ c \in {"update", "undo"}
          /\ There("dest") /\ at["dest"] \notin partial
          /\ image' = [image EXCEPT ![p] = at["dest"]]
    /\ failing' = [failing EXCEPT ![p] = FALSE]
    /\ Goto(p, FirstStep(c))
    /\ UNCHANGED <<at, partial, handle, images, scanned, died>>

-----------------------------------------------------------------------------
(* sweep_leftovers, of update and of shims: a staging goes in any case, an *)
(* aside when its executable is found back in place.                       *)

Swept(p) ==
    \/ failing[p] /\ End(p)
    \/ ~failing[p] /\ cmd[p] = "materialize" /\ Goto(p, "compare") /\ UNCHANGED own
    \/ ~failing[p] /\ cmd[p] # "materialize" /\ Goto(p, "guard") /\ UNCHANGED own

SweepStaging(p) ==
    /\ pc[p] = "sweep"
    /\ Dropped("new")
    /\ Goto(p, "check")
    /\ UNCHANGED <<partial, others, own>>

(* Mutant: an aside is garbage, whether its executable is back or not.     *)
SweepCheckForgets(p) ==
    /\ pc[p] = "check"
    /\ Goto(p, "sweepOld")
    /\ UNCHANGED <<at, partial, others, own>>

SweepCheck(p) ==
    /\ pc[p] = "check"
    /\ \/ There("old") /\ There("dest") /\ Goto(p, "sweepOld") /\ UNCHANGED own
       \/ ~(There("old") /\ There("dest")) /\ Swept(p)
    /\ UNCHANGED <<at, partial, others>>

SweepAside(p) ==
    /\ pc[p] = "sweepOld"
    /\ Dropped("old")
    /\ Swept(p)
    /\ UNCHANGED <<partial, others>>

-----------------------------------------------------------------------------
(* The new executable is written: by update to `source`, which a rename    *)
(* then stages; by setup and by materialize to the staging name itself.    *)

(* Mutant: setup writes jdk.exe where it belongs, without a staging.       *)
WrittenInPlace(p) ==
    CASE cmd[p] = "update" -> "source"
      [] cmd[p] = "setup"  -> "dest"
      [] OTHER             -> "new"

WrittenTo(p) == IF cmd[p] = "update" THEN "source" ELSE "new"

(* guard_store_copy and decide: a loose jdk.exe is refused, a store copy   *)
(* may be up to date, or its release out of reach.                         *)
Guard(p) ==
    /\ pc[p] = "guard"
    /\ \/ cmd[p] = "update" /\ There("dest") /\ Goto(p, "wipe") /\ UNCHANGED own
       \/ End(p)
    /\ UNCHANGED <<at, partial, others>>

Wipe(p) ==
    /\ pc[p] = "wipe"
    /\ Dropped("source")
    /\ Goto(p, "create")
    /\ UNCHANGED <<partial, others, own>>

(* The payload may be in place already.                                    *)
Compare(p) ==
    /\ pc[p] = "compare"
    /\ \/ There("dest") /\ at["dest"] \notin partial /\ End(p)
       \/ Goto(p, "create") /\ UNCHANGED own
    /\ UNCHANGED <<at, partial, others>>

Create(p) ==
    /\ pc[p] = "create"
    /\ LET x == WrittenTo(p) IN
       \E f \in Files :
         /\ \/ at[x] = f /\ Deletable(x)
            \/ ~There(x) /\ Unused(f)
         /\ at' = [at EXCEPT ![x] = f]
         /\ partial' = partial \cup {f}
         /\ handle' = [handle EXCEPT ![p] = f]
    /\ Goto(p, "write")
    /\ UNCHANGED <<others, image, failing, cmd>>

Write(p) ==
    /\ pc[p] = "write"
    /\ handle' = [handle EXCEPT ![p] = NoFile]
    /\ partial' = IF \E q \in Procs \ {p} : handle[q] = handle[p]
                  THEN partial ELSE partial \ {handle[p]}
    /\ Goto(p, CASE cmd[p] = "update" -> "stage"
                 [] cmd[p] = "setup"  -> "rename"
                 [] OTHER             -> "swap")
    /\ UNCHANGED <<at, others, image, failing, cmd>>

(* No room, or no access.  An update leaves its source to the next one.    *)
WriteFails(p) ==
    /\ pc[p] \in {"create", "write"}
    /\ \/ /\ cmd[p] = "update"
          /\ Goto(p, "idle")
          /\ image' = [image EXCEPT ![p] = NoFile]
          /\ failing' = failing
       \/ /\ cmd[p] = "setup"
          /\ Goto(p, "fail")
          /\ UNCHANGED <<image, failing>>
       \/ /\ cmd[p] = "materialize"
          /\ Goto(p, "sweep")
          /\ failing' = [failing EXCEPT ![p] = TRUE]
          /\ image' = image
    /\ handle' = [handle EXCEPT ![p] = NoFile]
    /\ UNCHANGED <<at, partial, others, cmd>>

Stage(p) ==
    /\ pc[p] = "stage"
    /\ CanRename("source", "new")
    /\ Renamed("source", "new")
    /\ Goto(p, "swap")
    /\ UNCHANGED <<partial, others, own>>

StageFails(p) ==
    /\ pc[p] = "stage"
    /\ ~CanRename("source", "new")
    /\ End(p)
    /\ UNCHANGED <<at, partial, others>>

(* place_beside swaps with a plain rename, and gives up on a refusal.      *)
PlaceBeside(p) ==
    /\ pc[p] = "rename"
    /\ \/ CanRename("new", "dest") /\ Renamed("new", "dest") /\ End(p)
       \/ ~CanRename("new", "dest") /\ Goto(p, "fail") /\ UNCHANGED <<at, own>>
    /\ UNCHANGED <<partial, others>>

-----------------------------------------------------------------------------
(* replace_running.                                                        *)

Placed(p) ==
    \/ cmd[p] = "update" /\ Goto(p, "finish") /\ UNCHANGED own
    \/ cmd[p] # "update" /\ End(p)

Swap(p) ==
    /\ pc[p] = "swap"
    /\ CanRename("new", "dest")
    /\ Renamed("new", "dest")
    /\ Placed(p)
    /\ UNCHANGED <<partial, others>>

(* In use, or gone from the staging name.                                  *)
SwapRefused(p) ==
    /\ pc[p] = "swap"
    /\ ~CanRename("new", "dest")
    /\ Goto(p, IF There("new") THEN "exists" ELSE "fail")
    /\ UNCHANGED <<at, partial, others, own>>

DestExists(p) ==
    /\ pc[p] = "exists"
    /\ Goto(p, IF There("dest") THEN "clear" ELSE "retry")
    /\ UNCHANGED <<at, partial, others, own>>

ClearAside(p) ==
    /\ pc[p] = "clear"
    /\ Dropped("old")
    /\ Goto(p, "aside")
    /\ UNCHANGED <<partial, others, own>>

MoveAside(p) ==
    /\ pc[p] = "aside"
    /\ CanRename("dest", "old")
    /\ Renamed("dest", "old")
    /\ Goto(p, "place")
    /\ UNCHANGED <<partial, others, own>>

(* A retried rename ends when it succeeds, when its source is gone, or on  *)
(* a refusal that outlasts RETRY_BUDGET: when it cannot be done, in short. *)
MoveAsideFails(p) ==
    /\ pc[p] = "aside"
    /\ ~CanRename("dest", "old")
    /\ Goto(p, "fail")
    /\ UNCHANGED <<at, partial, others, own>>

Place(p) ==
    /\ pc[p] \in {"place", "retry"}
    /\ CanRename("new", "dest")
    /\ Renamed("new", "dest")
    /\ Placed(p)
    /\ UNCHANGED <<partial, others>>

PlaceFails(p) ==
    /\ pc[p] \in {"place", "retry"}
    /\ ~CanRename("new", "dest")
    /\ Goto(p, IF pc[p] = "place" THEN "rollback" ELSE "fail")
    /\ UNCHANGED <<at, partial, others, own>>

(* Mutant: the placement's error is returned as it is.                     *)
RollBackForgotten(p) ==
    /\ pc[p] = "rollback"
    /\ Goto(p, "fail")
    /\ UNCHANGED <<at, partial, others, own>>

RollBack(p) ==
    /\ pc[p] = "rollback"
    /\ IF CanRename("old", "dest") THEN Renamed("old", "dest") ELSE at' = at
    /\ Goto(p, "fail")
    /\ UNCHANGED <<partial, others, own>>

(* The staging does not outlive a failed swap.                             *)
Fail(p) ==
    /\ pc[p] = "fail"
    /\ Dropped("new")
    /\ End(p)
    /\ UNCHANGED <<partial, others>>

Finish(p) ==
    /\ pc[p] = "finish"
    /\ Dropped("source")
    /\ End(p)
    /\ UNCHANGED <<partial, others>>

-----------------------------------------------------------------------------
(* The shim looks for jdk.exe and restores it from its aside.              *)

Look(p) ==
    /\ pc[p] = "look"
    /\ \/ There("dest") /\ End(p)
       \/ ~There("dest") /\ Goto(p, "restore") /\ UNCHANGED own
    /\ UNCHANGED <<at, partial, others>>

RestoreAside(p) ==
    /\ pc[p] = "restore"
    /\ IF CanRename("old", "dest") THEN Renamed("old", "dest") ELSE at' = at
    /\ End(p)
    /\ UNCHANGED <<partial, others>>

(* undo: the aside of an earlier one, then remove_running.                 *)
UndoAside(p) ==
    /\ pc[p] = "undo"
    /\ Dropped("old")
    /\ Goto(p, "remove")
    /\ UNCHANGED <<partial, others, own>>

Remove(p) ==
    /\ pc[p] = "remove"
    /\ Dropped("dest")
    /\ \/ ~(There("dest") /\ ~Deletable("dest")) /\ End(p)
       \/ There("dest") /\ ~Deletable("dest") /\ Goto(p, "undoClear") /\ UNCHANGED own
    /\ UNCHANGED <<partial, others>>

RemoveClear(p) ==
    /\ pc[p] = "undoClear"
    /\ Dropped("old")
    /\ Goto(p, "undoAside")
    /\ UNCHANGED <<partial, others, own>>

RemoveAside(p) ==
    /\ pc[p] = "undoAside"
    /\ \/ /\ CanRename("dest", "old")
          /\ Renamed("dest", "old")
          /\ Goto(p, "undoDrop")
          /\ UNCHANGED own
       \/ /\ ~CanRename("dest", "old")
          /\ End(p)
          /\ at' = at
    /\ UNCHANGED <<partial, others>>

RemoveDrop(p) ==
    /\ pc[p] = "undoDrop"
    /\ Dropped("old")
    /\ End(p)
    /\ UNCHANGED <<partial, others>>

-----------------------------------------------------------------------------
(* The environment.                                                        *)

Launch ==
    /\ There("dest") /\ at["dest"] \notin partial
    /\ images' = images \cup {at["dest"]}
    /\ UNCHANGED <<at, partial, scanned, died, met, undone, own, pc>>

Quit(f) ==
    /\ f \in images
    /\ images' = images \ {f}
    /\ UNCHANGED <<at, partial, scanned, died, met, undone, own, pc>>

Scan ==
    /\ MayScan
    /\ There("new")
    /\ scanned' = scanned \cup {at["new"]}
    /\ UNCHANGED <<at, partial, images, died, met, undone, own, pc>>

Scanned(f) ==
    /\ f \in scanned
    /\ scanned' = scanned \ {f}
    /\ UNCHANGED <<at, partial, images, died, met, undone, own, pc>>

Crash(p) ==
    /\ pc[p] # "idle"
    /\ Goto(p, "idle")
    /\ image' = [image EXCEPT ![p] = NoFile]
    /\ handle' = [handle EXCEPT ![p] = NoFile]
    /\ died' = TRUE
    /\ UNCHANGED <<at, partial, images, scanned, met, undone, failing, cmd>>

-----------------------------------------------------------------------------

Step(p) ==
    \/ SweepStaging(p) \/ SweepCheck(p) \/ SweepAside(p)
    \/ Guard(p) \/ Wipe(p) \/ Compare(p)
    \/ Create(p) \/ Write(p) \/ WriteFails(p)
    \/ Stage(p) \/ StageFails(p) \/ PlaceBeside(p)
    \/ Swap(p) \/ SwapRefused(p) \/ DestExists(p)
    \/ ClearAside(p) \/ MoveAside(p) \/ MoveAsideFails(p)
    \/ Place(p) \/ PlaceFails(p) \/ RollBack(p) \/ Fail(p) \/ Finish(p)
    \/ Look(p) \/ RestoreAside(p)
    \/ UndoAside(p) \/ Remove(p) \/ RemoveClear(p) \/ RemoveAside(p)
    \/ RemoveDrop(p)

Next ==
    \/ \E p \in Procs :
         \/ \E c \in Commands : Begin(p, c)
         \/ Step(p)
         \/ Crash(p)
    \/ Launch \/ Scan
    \/ \E f \in Files : Quit(f) \/ Scanned(f)

Spec == Init /\ [][Next]_vars

-----------------------------------------------------------------------------
(* Properties.                                                             *)

(* Nobody can run an executable that is only partly there: what lands on   *)
(* the name was complete before (setup.rs:172-173, shims.rs:83-86), unless *)
(* two that write share the staging, then or before.                       *)
DestIsWhole == met \/ at["dest"] \notin partial

(* An executable is left, at the name or aside of it.                      *)
Kept == There("dest") \/ There("old")

(* No step of an update, a setup, a shim or a sweep, and no death of one,  *)
(* takes the last copy of the executable; undo means to                    *)
(* (file_ops.rs:96-98, update.rs:188-195, undo.rs:321-325).                *)
LastCopyIsKept ==
    [][Kept /\ ~Kept'
         => \E p \in Procs : cmd[p] = "undo" /\ pc[p] # "idle"]_vars

(* When all have ended, with an error or not, and nobody died, the         *)
(* executable is at its name, unless it was undone (file_ops.rs:100-102).  *)
NeverVanishes ==
    ~died /\ ~undone /\ (\A p \in Procs : pc[p] = "idle") => There("dest")

=============================================================================
