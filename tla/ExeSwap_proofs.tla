--------------------------- MODULE ExeSwap_proofs ---------------------------
(***************************************************************************)
(* For any number of processes and files: ExeSwap is well typed; what is   *)
(* at the name is whole unless two that write have met (WholeInv); and the *)
(* last copy is kept, and back at its name in the end, as long as those    *)
(* that run beside others are updates from the store, setups and shims     *)
(* (StoreInv).                                                             *)
(***************************************************************************)
EXTENDS ExeSwap, TLAPS

USE ExeSwapAssumption

(* Case lists for the actions, by what they change.                        *)
Idles(p) ==
    \/ SweepCheck(p) \/ Guard(p) \/ Compare(p) \/ WriteFails(p)
    \/ StageFails(p) \/ SwapRefused(p) \/ DestExists(p) \/ MoveAsideFails(p)
    \/ PlaceFails(p) \/ Look(p)

Drops(p) ==
    \/ SweepStaging(p) \/ SweepAside(p) \/ Wipe(p) \/ ClearAside(p)
    \/ Fail(p) \/ Finish(p) \/ UndoAside(p) \/ Remove(p) \/ RemoveClear(p)
    \/ RemoveDrop(p)

Moves(p) ==
    \/ Stage(p) \/ PlaceBeside(p) \/ Swap(p) \/ MoveAside(p) \/ Place(p)
    \/ RollBack(p) \/ RestoreAside(p) \/ RemoveAside(p)

-----------------------------------------------------------------------------
(* Typing.                                                                 *)

LEMMA TypeStep == TypeOK /\ [Next]_vars => TypeOK'
<1> SUFFICES ASSUME TypeOK, [Next]_vars
             PROVE  TypeOK'
  OBVIOUS
<1> USE DEF TypeOK, Paths, PCs, AllCommands
<1>1. CASE UNCHANGED vars
  BY <1>1 DEF vars
<1>2. ASSUME NEW p \in Procs, NEW c \in Commands, Begin(p, c)
      PROVE  TypeOK'
  BY <1>2 DEF Begin, FirstStep, Goto, There, others
<1>3. ASSUME NEW p \in Procs, Idles(p)
      PROVE  TypeOK'
  <2>1. CASE SweepCheck(p) \/ Guard(p) \/ Compare(p) \/ Look(p)
    BY <2>1 DEF SweepCheck, Guard, Compare, Look, Swept, Goto, End, own, others
  <2>2. CASE WriteFails(p)
    BY <2>2 DEF WriteFails, Goto, others
  <2>3. CASE StageFails(p) \/ SwapRefused(p) \/ DestExists(p)
             \/ MoveAsideFails(p) \/ PlaceFails(p)
    BY <2>3 DEF StageFails, SwapRefused, DestExists, MoveAsideFails,
       PlaceFails, Goto, End, own, others
  <2> QED  BY <1>3, <2>1, <2>2, <2>3 DEF Idles
<1>4. ASSUME NEW p \in Procs, Drops(p)
      PROVE  TypeOK'
  <2>1. CASE SweepStaging(p) \/ SweepAside(p) \/ Wipe(p) \/ ClearAside(p)
    BY <2>1 DEF SweepStaging, SweepAside, Wipe, ClearAside, Swept, Dropped,
       Goto, End, own, others
  <2>2. CASE Fail(p) \/ Finish(p) \/ UndoAside(p) \/ Remove(p)
             \/ RemoveClear(p) \/ RemoveDrop(p)
    BY <2>2 DEF Fail, Finish, UndoAside, Remove, RemoveClear, RemoveDrop,
       Dropped, Goto, End, own, others
  <2> QED  BY <1>4, <2>1, <2>2 DEF Drops
<1>5. ASSUME NEW p \in Procs, Create(p) \/ Write(p)
      PROVE  TypeOK'
  BY <1>5 DEF Create, Write, WrittenTo, Goto, others
<1>6. ASSUME NEW p \in Procs, Moves(p)
      PROVE  TypeOK'
  <2>1. CASE Stage(p) \/ PlaceBeside(p) \/ MoveAside(p) \/ RollBack(p)
    BY <2>1 DEF Stage, PlaceBeside, MoveAside, RollBack, Renamed, Goto, End,
       own, others
  <2>2. CASE Swap(p) \/ Place(p) \/ RestoreAside(p) \/ RemoveAside(p)
    BY <2>2 DEF Swap, Place, Placed, RestoreAside, RemoveAside, Renamed, Goto,
       End, own, others
  <2> QED  BY <1>6, <2>1, <2>2 DEF Moves
<1>7. ASSUME NEW p \in Procs, Crash(p)
      PROVE  TypeOK'
  BY <1>7 DEF Crash, Goto, others
<1>8. CASE Launch \/ Scan \/ \E f \in Files : Quit(f) \/ Scanned(f)
  BY <1>8 DEF Launch, Scan, Quit, Scanned, There, own
<1> QED
  BY <1>1, <1>2, <1>3, <1>4, <1>5, <1>6, <1>7, <1>8
  DEF Next, Step, Idles, Drops, Moves

LEMMA TypeInit == Init => TypeOK
<1>1. Init => died \in BOOLEAN /\ met \in BOOLEAN /\ undone \in BOOLEAN
  BY Zenon DEF Init
<1> QED  BY <1>1 DEF Init, TypeOK, Paths, PCs, AllCommands

(* Every variable of the swap keeps its type.                              *)
THEOREM Typing == Spec => []TypeOK
BY TypeInit, TypeStep, PTL DEF Spec

-----------------------------------------------------------------------------
(* What every step keeps to.                                               *)

Active(p) == pc[p] # "idle"

(* The steps of each command.                                              *)
Sweeps   == {"sweep", "check", "sweepOld"}
Swaps    == {"swap", "exists", "clear", "aside", "place", "retry", "rollback", "fail"}

Steps(c) ==
    CASE c = "update"      -> Sweeps \cup {"guard", "wipe", "create", "write", "stage"}
                                     \cup Swaps \cup {"finish"}
      [] c = "loose"       -> Sweeps \cup {"guard"}
      [] c = "setup"       -> {"compare", "create", "write", "rename", "fail"}
      [] c = "materialize" -> Sweeps \cup {"compare", "create", "write"} \cup Swaps
      [] c = "shim"        -> {"look", "restore"}
      [] c = "undo"        -> {"undo", "remove", "undoClear", "undoAside", "undoDrop"}

(* Each process is at a step of its own command, and only one that writes  *)
(* has a file open.                                                        *)
Control(p) ==
    /\ Active(p) => pc[p] \in Steps(cmd[p]) /\ cmd[p] \in Commands
    /\ handle[p] # NoFile => pc[p] = "write"
    /\ Active(p) /\ cmd[p] = "undo" => undone

(* No file has two names.                                                  *)
Apart == \A x, y \in Paths : x # y /\ There(x) => at[x] # at[y]

BaseInv == TypeOK /\ Apart /\ \A p \in Procs : Control(p)


(* A step is taken by a command that runs, and changes its own process.    *)
LEMMA StepIsOwn ==
    ASSUME TypeOK, NEW p \in Procs, Step(p)
    PROVE  /\ Active(p) /\ cmd' = cmd /\ UNCHANGED others
           /\ \A q \in Procs \ {p} :
                pc'[q] = pc[q] /\ handle'[q] = handle[q] /\ image'[q] = image[q]
<1> USE DEF TypeOK, Active, Goto, End, own, others
<1>1. CASE Idles(p)
  BY <1>1 DEF Idles, SweepCheck, Guard, Compare, WriteFails, StageFails,
     SwapRefused, DestExists, MoveAsideFails, PlaceFails, Look, Swept
<1>2. CASE Drops(p)
  BY <1>2 DEF Drops, SweepStaging, SweepAside, Wipe, ClearAside, Fail, Finish,
     UndoAside, Remove, RemoveClear, RemoveDrop, Swept
<1>3. CASE Moves(p)
  BY <1>3 DEF Moves, Stage, PlaceBeside, Swap, MoveAside, Place, RollBack,
     RestoreAside, RemoveAside, Placed
<1>4. CASE Create(p) \/ Write(p)
  BY <1>4 DEF Create, Write
<1> QED  BY <1>1, <1>2, <1>3, <1>4 DEF Step, Idles, Drops, Moves

(* The program of each command.                                            *)
LEMMA StepGoesOn ==
    ASSUME BaseInv, NEW p \in Procs, Step(p)
    PROVE  /\ Active(p)' => pc'[p] \in Steps(cmd[p])
           /\ handle'[p] # NoFile => pc'[p] = "write"
           /\ image'[p] # NoFile => image'[p] = image[p]
           /\ image'[p] = image[p] \/ ~Active(p)'
<1> USE DEF BaseInv, TypeOK, Control, Active, Steps, Sweeps, Swaps, AllCommands,
        Goto, End, own
<1>1. pc[p] \in Steps(cmd[p])
  BY StepIsOwn
<1>2. CASE SweepCheck(p) \/ Guard(p) \/ Compare(p) \/ Look(p)
  BY <1>1, <1>2 DEF SweepCheck, Guard, Compare, Look, Swept
<1>3. CASE WriteFails(p)
  BY <1>1, <1>3 DEF WriteFails
<1>4. CASE StageFails(p) \/ SwapRefused(p) \/ DestExists(p)
           \/ MoveAsideFails(p) \/ PlaceFails(p)
  BY <1>1, <1>4 DEF StageFails, SwapRefused, DestExists, MoveAsideFails, PlaceFails
<1>5. CASE SweepStaging(p) \/ SweepAside(p) \/ Wipe(p) \/ ClearAside(p)
  BY <1>1, <1>5 DEF SweepStaging, SweepAside, Wipe, ClearAside, Swept
<1>6. CASE Fail(p) \/ Finish(p) \/ UndoAside(p) \/ Remove(p)
           \/ RemoveClear(p) \/ RemoveDrop(p)
  BY <1>1, <1>6 DEF Fail, Finish, UndoAside, Remove, RemoveClear, RemoveDrop
<1>7. CASE Stage(p) \/ PlaceBeside(p) \/ MoveAside(p) \/ RollBack(p)
  BY <1>1, <1>7 DEF Stage, PlaceBeside, MoveAside, RollBack
<1>8. CASE Swap(p) \/ Place(p) \/ RestoreAside(p) \/ RemoveAside(p)
  BY <1>1, <1>8 DEF Swap, Place, Placed, RestoreAside, RemoveAside
<1>9. CASE Create(p) \/ Write(p)
  BY <1>1, <1>9 DEF Create, Write
<1> QED
  BY <1>2, <1>3, <1>4, <1>5, <1>6, <1>7, <1>8, <1>9 DEF Step

(* What a step does to the names.                                          *)
Moved(x, y) == CanRename(x, y) /\ Renamed(x, y)

Undoes(p) == cmd[p] = "undo"

LEMMA StepOnNames ==
    ASSUME BaseInv, NEW p \in Procs, Step(p)
    PROVE  \/ at' = at
           \/ Create(p)
           \/ \E x \in {"new", "source"} : Dropped(x)
           \/ Dropped("old") /\ (pc[p] \in {"sweepOld", "clear"} \/ Undoes(p))
           \/ Dropped("dest") /\ Undoes(p)
           \/ Moved("source", "new") /\ pc[p] = "stage"
           \/ Moved("new", "dest") /\ pc[p] \in {"rename", "swap", "place", "retry"}
           \/ Moved("old", "dest")
           \/ Moved("dest", "old") /\ (pc'[p] = "place" \/ Undoes(p))
<1> USE DEF BaseInv, TypeOK, Control, Active, Steps, Sweeps, Swaps, AllCommands,
        Moved, Undoes
<1>1. pc[p] \in Steps(cmd[p])
  BY StepIsOwn
<1>2. CASE Idles(p) \/ Write(p)
  BY <1>2 DEF Idles, SweepCheck, Guard, Compare, WriteFails, StageFails,
     SwapRefused, DestExists, MoveAsideFails, PlaceFails, Look, Write
<1>3. CASE SweepStaging(p) \/ SweepAside(p) \/ Wipe(p) \/ ClearAside(p)
           \/ Fail(p) \/ Finish(p)
  BY <1>3 DEF SweepStaging, SweepAside, Wipe, ClearAside, Fail, Finish
<1>4. CASE UndoAside(p) \/ Remove(p) \/ RemoveClear(p) \/ RemoveDrop(p)
  BY <1>1, <1>4 DEF UndoAside, Remove, RemoveClear, RemoveDrop
<1>5. CASE Stage(p) \/ PlaceBeside(p) \/ MoveAside(p) \/ RollBack(p)
  BY <1>5 DEF Stage, PlaceBeside, MoveAside, RollBack, Goto
<1>6. CASE Swap(p) \/ Place(p) \/ RestoreAside(p)
  BY <1>6 DEF Swap, Place, RestoreAside
<1>7. CASE RemoveAside(p)
  BY <1>1, <1>7 DEF RemoveAside
<1> QED
  BY <1>2, <1>3, <1>4, <1>5, <1>6, <1>7 DEF Step, Idles

(* Those outside touch no name, and a death only frees what was held.      *)
LEMMA OutsideSteps ==
    ASSUME TypeOK, Launch \/ Scan \/ \E f \in Files : Quit(f) \/ Scanned(f)
    PROVE  /\ UNCHANGED <<at, partial, died, met, undone, image, handle, cmd, pc>>
           /\ scanned' \subseteq scanned \cup {at["new"]}
BY DEF Launch, Scan, Quit, Scanned, own

-----------------------------------------------------------------------------

(* The names stay apart.                                                   *)
LEMMA ApartStep ==
    ASSUME BaseInv, NEW p \in Procs, Step(p)
    PROVE  Apart'
<1> USE DEF BaseInv, TypeOK, Apart, There
<1>1. CASE Create(p)
  <2>1. PICK f \in Files :
          /\ \/ at[WrittenTo(p)] = f /\ Deletable(WrittenTo(p))
             \/ ~There(WrittenTo(p)) /\ Unused(f)
          /\ at' = [at EXCEPT ![WrittenTo(p)] = f]
    BY <1>1 DEF Create
  <2>2. WrittenTo(p) \in Paths
    BY DEF WrittenTo, Paths
  <2>3. CASE at[WrittenTo(p)] = f
    BY <2>1, <2>2, <2>3
  <2>4. CASE Unused(f)
    BY <2>1, <2>2, <2>4 DEF Unused
  <2> QED  BY <2>1, <2>3, <2>4
<1>2. ASSUME NEW x \in Paths, Dropped(x)
      PROVE  Apart'
  BY <1>2 DEF Dropped
<1>3. ASSUME NEW x \in Paths, NEW y \in Paths, x # y, Moved(x, y)
      PROVE  Apart'
  BY <1>3 DEF Moved, Renamed
<1>4. CASE at' = at
  BY <1>4
<1> QED  BY <1>1, <1>2, <1>3, <1>4, StepOnNames DEF Paths

LEMMA BaseStep == BaseInv /\ [Next]_vars => BaseInv'
<1> SUFFICES ASSUME BaseInv, [Next]_vars
             PROVE  BaseInv'
  OBVIOUS
<1>1. TypeOK /\ TypeOK'
  BY TypeStep DEF BaseInv
<1>2. CASE UNCHANGED vars
  BY <1>1, <1>2 DEF BaseInv, Apart, There, Control, Active, vars, own, others
<1>3. ASSUME NEW p \in Procs, Step(p)
      PROVE  BaseInv'
  <2>1. \A q \in Procs \ {p} : Control(q)'
    BY <1>3, StepIsOwn DEF BaseInv, Control, Active, others
  <2>2. Control(p)'
    BY <1>3, StepIsOwn, StepGoesOn DEF BaseInv, Control, others
  <2> QED  BY <1>1, <1>3, <2>1, <2>2, ApartStep DEF BaseInv
<1>4. ASSUME NEW p \in Procs, NEW c \in Commands, Begin(p, c)
      PROVE  BaseInv'
  <2>1. Apart'
    BY <1>4 DEF BaseInv, Begin, Apart, There
  <2>2. \A q \in Procs \ {p} : Control(q)'
    BY <1>1, <1>4 DEF BaseInv, TypeOK, Control, Active, Begin, Goto
  <2>3. Control(p)'
    <3>1. /\ pc[p] = "idle" /\ pc'[p] = FirstStep(c) /\ cmd'[p] = c
          /\ handle'[p] = handle[p] /\ (c = "undo" => undone')
      BY <1>1, <1>4 DEF TypeOK, Begin, Goto
    <3>2. handle[p] = NoFile
      BY <1>4, <3>1 DEF BaseInv, Control
    <3>3. c \in AllCommands
      BY <1>4
    <3>4. FirstStep(c) \in Steps(c)
      BY <3>3 DEF FirstStep, Steps, Sweeps, AllCommands
    <3> QED  BY <1>4, <3>1, <3>2, <3>4 DEF Control
  <2> QED  BY <1>1, <2>1, <2>2, <2>3 DEF BaseInv
<1>5. ASSUME NEW p \in Procs, Crash(p)
      PROVE  BaseInv'
  BY <1>1, <1>5 DEF BaseInv, TypeOK, Apart, There, Control, Active, Crash, Goto
<1>6. CASE Launch \/ Scan \/ \E f \in Files : Quit(f) \/ Scanned(f)
  BY <1>1, <1>6, OutsideSteps DEF BaseInv, Apart, There, Control, Active
<1> QED  BY <1>2, <1>3, <1>4, <1>5, <1>6 DEF Next

LEMMA BaseInit == Init => BaseInv
BY TypeInit DEF Init, BaseInv, Apart, There, Control, Active, Paths

-----------------------------------------------------------------------------
(* What is at the name is whole.  As long as no two that write have met, a *)
(* process that writes finds its file where it put it, and what it moves   *)
(* to the name was complete before.                                        *)

Solitary ==
    \A p, q \in Procs :
      p # q /\ Active(p) /\ Active(q) => "shim" \in {cmd[p], cmd[q]}

Writes(p) ==
    /\ pc[p] = "write" => handle[p] = at[WrittenTo(p)]
    /\ pc[p] = "stage" => at["source"] \notin partial
    /\ pc[p] \in {"rename", "swap", "exists", "clear", "aside", "place", "retry"}
         => at["new"] \notin partial

WholeInv ==
    met \/ (/\ Solitary
            /\ at["dest"] \notin partial /\ at["old"] \notin partial
            /\ \A p \in Procs : Writes(p))

(* One that does not write has nothing to lose by the steps of another.    *)
LEMMA NothingToWrite ==
    ASSUME BaseInv, NEW q \in Procs, ~Active(q) \/ cmd[q] = "shim"
    PROVE  /\ handle[q] = NoFile
           /\ pc[q] \notin {"write", "stage", "rename", "swap", "exists", "clear",
                            "aside", "place", "retry"}
BY DEF BaseInv, TypeOK, Control, Active, Steps

(* A shim moves nothing but the aside.                                     *)
LEMMA ShimStep ==
    ASSUME BaseInv, NEW p \in Procs, Step(p), cmd[p] = "shim"
    PROVE  partial' = partial /\ (at' = at \/ Moved("old", "dest"))
<1>1. pc[p] \in {"look", "restore"}
  BY StepIsOwn DEF BaseInv, Control, Active, Steps
<1> QED
  BY <1>1 DEF Moved, Step, SweepStaging, SweepCheck, SweepAside, Guard, Wipe, Compare,
     Create, Write, WriteFails, Stage, StageFails, PlaceBeside, Swap, SwapRefused,
     DestExists, ClearAside, MoveAside, MoveAsideFails, Place, PlaceFails, RollBack,
     Fail, Finish, Look, RestoreAside, UndoAside, Remove, RemoveClear, RemoveAside,
     RemoveDrop

(* From the write to the swap nothing happens to the staging.              *)
LEMMA StagingKept ==
    ASSUME BaseInv, NEW p \in Procs, Step(p), ~Create(p), ~Write(p)
    PROVE  /\ partial' = partial
           /\ pc'[p] \notin {"write", "stage", "rename"}
           /\ pc'[p] = "swap" => Stage(p)
           /\ pc'[p] \in {"exists", "clear", "aside", "place", "retry"}
                => /\ pc[p] \in {"swap", "exists", "clear", "aside"}
                   /\ at'["new"] = at["new"]
<1> USE DEF BaseInv, TypeOK, Goto, End, own, Paths
<1>1. CASE Idles(p)
  BY <1>1 DEF Idles, SweepCheck, Guard, Compare, WriteFails, StageFails,
     SwapRefused, DestExists, MoveAsideFails, PlaceFails, Look, Swept
<1>2. CASE Drops(p)
  BY <1>2 DEF Drops, SweepStaging, SweepAside, Wipe, ClearAside, Fail, Finish,
     UndoAside, Remove, RemoveClear, RemoveDrop, Swept, Dropped
<1>3. CASE Moves(p)
  BY <1>3 DEF Moves, Stage, PlaceBeside, Swap, MoveAside, Place, RollBack,
     RestoreAside, RemoveAside, Placed, Renamed
<1> QED  BY <1>1, <1>2, <1>3 DEF Step, Idles, Drops, Moves

LEMMA WholeStep ==
    ASSUME BaseInv, WholeInv, NEW p \in Procs, Step(p)
    PROVE  WholeInv'
<1>0. /\ Active(p) /\ cmd' = cmd /\ met' = met
      /\ \A q \in Procs \ {p} : pc'[q] = pc[q] /\ handle'[q] = handle[q]
  BY StepIsOwn DEF BaseInv, others
<1> SUFFICES ASSUME ~met
             PROVE  WholeInv'
  BY <1>0 DEF WholeInv
<1>1. /\ Solitary /\ at["dest"] \notin partial /\ at["old"] \notin partial
      /\ \A q \in Procs : Writes(q)
  BY DEF WholeInv
<1>2. TypeOK /\ NoFile \notin partial
  BY DEF BaseInv, TypeOK
<1>3. Solitary'
  BY <1>0, <1>1 DEF Solitary, Active
<1>4. CASE cmd[p] = "shim"
  <2>1. partial' = partial /\ (at' = at \/ Moved("old", "dest"))
    BY <1>4, ShimStep
  <2>2. at'["dest"] \notin partial /\ at'["old"] \notin partial
    BY <1>1, <1>2, <2>1 DEF TypeOK, Paths, Moved, Renamed
  <2>3. at'["new"] = at["new"] /\ at'["source"] = at["source"]
    BY <1>2, <2>1 DEF TypeOK, Paths, Moved, Renamed
  <2>4. \A q \in Procs \ {p} : Writes(q)'
    BY <1>0, <1>1, <2>1, <2>3 DEF Writes, WrittenTo
  <2>5. Writes(p)'
    BY <1>4, StepGoesOn DEF Writes, Active, Steps
  <2> QED  BY <1>3, <2>1, <2>2, <2>4, <2>5 DEF WholeInv
<1>5. CASE cmd[p] # "shim"
  <2>1. \A q \in Procs \ {p} :
          /\ handle[q] = NoFile
          /\ pc[q] \notin {"write", "stage", "rename", "swap", "exists", "clear",
                           "aside", "place", "retry"}
    BY <1>0, <1>1, <1>5, NothingToWrite DEF Solitary
  <2>2. \A q \in Procs \ {p} : Writes(q)'
    BY <1>0, <2>1 DEF Writes
  <2>3. CASE Create(p)
    <3>1. PICK f \in Files :
            /\ \/ at[WrittenTo(p)] = f /\ Deletable(WrittenTo(p))
               \/ ~There(WrittenTo(p)) /\ Unused(f)
            /\ at' = [at EXCEPT ![WrittenTo(p)] = f]
            /\ partial' = partial \cup {f}
            /\ handle' = [handle EXCEPT ![p] = f]
      BY <2>3 DEF Create
    <3>2. WrittenTo(p) \in {"new", "source"} /\ WrittenTo(p)' = WrittenTo(p)
      BY <1>0 DEF WrittenTo
    <3>3. f # at["dest"] /\ f # at["old"]
      <4>1. CASE at[WrittenTo(p)] = f
        BY <3>2, <4>1 DEF BaseInv, Apart, There, Paths
      <4>2. CASE Unused(f)
        BY <4>2 DEF Unused, Paths
      <4> QED  BY <3>1, <4>1, <4>2
    <3>4. at'["dest"] \notin partial' /\ at'["old"] \notin partial'
      BY <1>1, <1>2, <3>1, <3>2, <3>3 DEF TypeOK, Paths
    <3>5. pc'[p] = "write" /\ handle'[p] = at'[WrittenTo(p)]
      BY <1>2, <2>3, <3>1, <3>2 DEF Create, Goto, TypeOK, Paths
    <3>6. Writes(p)'
      BY <3>2, <3>5 DEF Writes
    <3> QED  BY <1>3, <2>2, <3>4, <3>6 DEF WholeInv
  <2>4. CASE Write(p)
    <3>1. /\ at' = at /\ pc[p] = "write" /\ handle[p] = at[WrittenTo(p)]
          /\ partial' \subseteq partial
      BY <1>1, <2>4 DEF Write, Writes
    <3>2. handle[p] \notin partial'
      BY <1>2, <2>1, <2>4 DEF Write
    <3>3. pc'[p] = CASE cmd[p] = "update" -> "stage"
                     [] cmd[p] = "setup"  -> "rename"
                     [] OTHER             -> "swap"
      BY <1>2, <2>4 DEF Write, Goto, TypeOK
    <3>4. pc'[p] = IF cmd[p] = "update" THEN "stage"
                   ELSE IF cmd[p] = "setup" THEN "rename" ELSE "swap"
      BY <3>3
    <3>5. Writes(p)'
      BY <1>0, <3>1, <3>2, <3>4 DEF Writes, WrittenTo
    <3> QED  BY <1>1, <1>3, <2>2, <3>1, <3>5 DEF WholeInv
  <2>5. CASE ~Create(p) /\ ~Write(p)
    <3>1. partial' = partial
      BY <2>5, StagingKept
    <3>2. \/ at' = at
          \/ \E x \in Paths : Dropped(x)
          \/ Moved("source", "new")
          \/ Moved("new", "dest") /\ at["new"] \notin partial
          \/ Moved("old", "dest") \/ Moved("dest", "old")
      BY <1>1, <2>5, StepOnNames DEF Writes, Paths
    <3>3. at'["dest"] \notin partial /\ at'["old"] \notin partial
      BY <1>1, <1>2, <3>2 DEF TypeOK, Paths, Dropped, Moved, Renamed
    <3>4. pc'[p] = "swap" => at'["new"] \notin partial
      BY <1>1, <1>2, <2>5, StagingKept DEF Writes, Stage, Renamed, TypeOK, Paths
    <3>5. pc'[p] \in {"exists", "clear", "aside", "place", "retry"}
            => at'["new"] \notin partial
      BY <1>1, <2>5, StagingKept DEF Writes
    <3>6. Writes(p)'
      BY <2>5, <3>1, <3>4, <3>5, StagingKept DEF Writes
    <3> QED  BY <1>3, <2>2, <3>1, <3>3, <3>6 DEF WholeInv
  <2> QED  BY <2>3, <2>4, <2>5
<1> QED  BY <1>4, <1>5

LEMMA WholeInvariant == Spec => [](BaseInv /\ WholeInv)
<1>1. Init => WholeInv
  BY DEF Init, WholeInv, Solitary, Writes, Active
<1>2. BaseInv /\ WholeInv /\ [Next]_vars => WholeInv'
  <2> SUFFICES ASSUME BaseInv, WholeInv, [Next]_vars
               PROVE  WholeInv'
    OBVIOUS
  <2>1. CASE UNCHANGED vars
    BY <2>1 DEF WholeInv, Solitary, Writes, WrittenTo, Active, vars, own, others
  <2>2. ASSUME NEW p \in Procs, NEW c \in Commands, Begin(p, c), ~met'
        PROVE  WholeInv'
    <3>1. /\ ~met /\ ~Active(p) /\ UNCHANGED <<at, partial, handle>>
          /\ \A q \in Procs \ {p} : pc'[q] = pc[q] /\ cmd'[q] = cmd[q]
          /\ cmd'[p] = c /\ pc'[p] = FirstStep(c)
      BY <2>2 DEF Begin, Active, Goto, BaseInv, TypeOK
    <3>2. \A q \in Procs \ {p} : Active(q) => "shim" \in {c, cmd[q]}
      BY <2>2 DEF Begin, Beside, Active
    <3>3. Solitary'
      BY <3>1, <3>2 DEF WholeInv, Solitary, Active
    <3>4. \A q \in Procs \ {p} : Writes(q)'
      BY <3>1 DEF WholeInv, Writes, WrittenTo
    <3>5. Writes(p)'
      BY <3>1 DEF Writes, FirstStep, AllCommands
    <3> QED  BY <3>1, <3>3, <3>4, <3>5 DEF WholeInv
  <2>3. ASSUME NEW p \in Procs, Crash(p)
        PROVE  WholeInv'
    <3>1. UNCHANGED <<met, at, partial, cmd>> /\ pc'[p] = "idle"
          /\ \A q \in Procs \ {p} : pc'[q] = pc[q] /\ handle'[q] = handle[q]
      BY <2>3 DEF Crash, Goto, BaseInv, TypeOK
    <3>2. Writes(p)'
      BY <3>1 DEF Writes
    <3>3. met \/ \A q \in Procs \ {p} : Writes(q)'
      BY <3>1 DEF WholeInv, Writes, WrittenTo
    <3>4. met \/ Solitary'
      BY <3>1 DEF WholeInv, Solitary, Active
    <3> QED  BY <3>1, <3>2, <3>3, <3>4 DEF WholeInv
  <2>4. CASE Launch \/ Scan \/ \E f \in Files : Quit(f) \/ Scanned(f)
    BY <2>4, OutsideSteps DEF BaseInv, WholeInv, Solitary, Writes, WrittenTo, Active
  <2>5. ASSUME NEW p \in Procs, NEW c \in Commands, Begin(p, c), met'
        PROVE  WholeInv'
    BY <2>5 DEF WholeInv
  <2> QED  BY <2>1, <2>2, <2>3, <2>4, <2>5, WholeStep DEF Next
<1> QED  BY <1>1, <1>2, BaseInit, BaseStep, PTL DEF Spec

(* Whatever dies or is refused, nobody can run an executable that is only  *)
(* partly there, unless two that write have met (setup.rs:172-173,         *)
(* shims.rs:83-86).                                                        *)
THEOREM NameIsWhole == Spec => []DestIsWhole
<1>1. WholeInv => DestIsWhole
  BY DEF WholeInv, DestIsWhole
<1> QED  BY <1>1, WholeInvariant, PTL

-----------------------------------------------------------------------------
(* The last copy.  An update executes the store's own jdk.exe, which can   *)
(* be moved aside but not deleted; so when it may delete the aside, the    *)
(* image is at the name.  What sweeps without such an image has seen the   *)
(* executable in place, and nobody beside it takes it away.                *)

StoreCommands == {"update", "setup", "shim"}

(* Two invocations of anything else do not run at the same time.           *)
OthersRunAlone == Together \cap Commands \subseteq StoreCommands

Beware(p) ==
    /\ cmd[p] = "update" /\ Active(p) => image[p] # NoFile
    /\ image[p] # NoFile => image[p] \in {at["dest"], at["old"]}
    /\ pc[p] \in {"sweepOld", "clear"} /\ cmd[p] # "update" => There("dest")
    /\ cmd[p] = "materialize" /\ handle[p] # NoFile => handle[p] = at["new"]

Orderly ==
    \A p, q \in Procs : p # q /\ Active(p) /\ Active(q) => cmd[p] \in StoreCommands

(* What is locked is at the staging name.                                  *)
LocksTheStaging == \A f \in scanned : f = at["new"]

(* The name is empty only while somebody is about to fill it.              *)
ToBePlaced ==
    ~died /\ ~undone /\ ~There("dest")
      => \E p \in Procs : pc[p] \in {"place", "rollback"}

StoreInv ==
    /\ Orderly
    /\ \A p \in Procs : Beware(p)
    /\ LocksTheStaging
    /\ ~undone => Kept
    /\ ToBePlaced

(* No file at the name or aside is open.                                   *)
LEMMA OnlyTheStagingIsLocked ==
    ASSUME BaseInv, StoreInv, NEW x \in {"dest", "old", "source"}, There(x)
    PROVE  ~Locked(at[x])
<1>1. at[x] # at["new"]
  BY DEF BaseInv, Apart, Paths
<1>2. at[x] \notin scanned
  BY <1>1 DEF StoreInv, LocksTheStaging
<1>3. \A p \in Procs : ~(handle[p] = at[x] /\ cmd[p] = "materialize")
  BY <1>1 DEF StoreInv, Beware, There
<1> QED  BY <1>2, <1>3 DEF Locked

(* An image that a process executes stays at the name or aside of it.      *)
LEMMA ImageIsKept ==
    ASSUME BaseInv, StoreInv, NEW p \in Procs, Step(p),
           NEW q \in Procs, image[q] # NoFile
    PROVE  image[q] \in {at'["dest"], at'["old"]}
<1> USE DEF BaseInv, TypeOK, Paths, There
<1>1. Executing(image[q]) /\ image[q] \in {at["dest"], at["old"]}
  BY DEF Executing, StoreInv, Beware
<1>2. CASE at' = at
  BY <1>1, <1>2
<1>3. ASSUME NEW x \in Paths, Dropped(x)
      PROVE  image[q] \in {at'["dest"], at'["old"]}
  BY <1>1, <1>3 DEF Dropped, Deletable
<1>4. CASE Create(p)
  BY <1>1, <1>4 DEF Create, WrittenTo
<1>5. CASE Moved("source", "new")
  BY <1>1, <1>5 DEF Moved, Renamed
<1>6. ASSUME NEW x \in {"new", "old"}, Moved(x, "dest")
      PROVE  image[q] \in {at'["dest"], at'["old"]}
  BY <1>1, <1>6 DEF Moved, Renamed, CanRename, Deletable
<1>7. CASE Moved("dest", "old")
  BY <1>1, <1>7 DEF Moved, Renamed, CanRename, Deletable
<1> QED  BY <1>2, <1>3, <1>4, <1>5, <1>6, <1>7, StepOnNames

(* Only undo takes the last copy, or leaves the name empty but to fill it. *)
LEMMA StepKeepsACopy ==
    ASSUME BaseInv, StoreInv, NEW p \in Procs, Step(p), ~Undoes(p)
    PROVE  /\ Kept => Kept'
           /\ There("dest") => There("dest")' \/ pc'[p] = "place"
<1> USE DEF BaseInv, TypeOK, Paths, There, Kept
<1>1. CASE at' = at
  BY <1>1
<1>2. CASE Create(p)
  BY <1>2 DEF Create, WrittenTo
<1>3. ASSUME NEW x \in {"new", "source"}, Dropped(x)
      PROVE  UNCHANGED <<at["dest"], at["old"]>>
  BY <1>3 DEF Dropped
<1>4. ASSUME Dropped("old"), pc[p] \in {"sweepOld", "clear"}
      PROVE  /\ at'["dest"] = at["dest"]
             /\ Kept'
  <2>1. at'["dest"] = at["dest"]
    BY <1>4 DEF Dropped
  <2>2. CASE cmd[p] = "update"
    <3>1. image[p] # NoFile
      BY <2>2, StepIsOwn DEF StoreInv, Beware
    <3>2. image[p] \in {at'["dest"], at'["old"]}
      BY <3>1, ImageIsKept
    <3> QED  BY <2>1, <3>1, <3>2
  <2>3. CASE cmd[p] # "update"
    BY <1>4, <2>1, <2>3 DEF StoreInv, Beware
  <2> QED  BY <2>1, <2>2, <2>3
<1>5. CASE Moved("source", "new")
  BY <1>5 DEF Moved, Renamed
<1>6. ASSUME NEW x \in {"new", "old"}, Moved(x, "dest")
      PROVE  There("dest")'
  BY <1>6 DEF Moved, Renamed, CanRename
<1>7. ASSUME Moved("dest", "old"), pc'[p] = "place"
      PROVE  There("old")'
  BY <1>7 DEF Moved, Renamed, CanRename
<1> QED  BY <1>1, <1>2, <1>3, <1>4, <1>5, <1>6, <1>7, StepOnNames

(* One that places fills the name, or goes back; one that goes back fills  *)
(* it, for nothing at the aside can be refused.                            *)
LEMMA PlacesOrGoesBack ==
    ASSUME BaseInv, StoreInv, NEW p \in Procs, Step(p), pc[p] \in {"place", "rollback"},
           ~undone
    PROVE  There("dest")' \/ pc'[p] = "rollback"
<1> USE DEF BaseInv, TypeOK, Paths, There
<1>1. Place(p) \/ PlaceFails(p) \/ RollBack(p)
  BY DEF Step, SweepStaging, SweepCheck, SweepAside, Guard, Wipe, Compare, Create, Write,
     WriteFails, Stage, StageFails, PlaceBeside, Swap, SwapRefused, DestExists, ClearAside,
     MoveAside, MoveAsideFails, Fail, Finish, Look, RestoreAside, UndoAside, Remove,
     RemoveClear, RemoveAside, RemoveDrop
<1>2. CASE Place(p)
  BY <1>2 DEF Place, Renamed, CanRename
<1>3. CASE PlaceFails(p)
  BY <1>3 DEF PlaceFails, Goto
<1>4. CASE RollBack(p)
  <2>1. CASE CanRename("old", "dest")
    BY <1>4, <2>1 DEF RollBack, Renamed, CanRename
  <2>2. CASE ~CanRename("old", "dest")
    <3>1. at' = at
      BY <1>4, <2>2 DEF RollBack
    <3>2. SUFFICES ASSUME ~There("dest") PROVE FALSE
      BY <3>1
    <3>3. There("old")
      BY <3>2 DEF StoreInv, Kept
    <3>4. ~Locked(at["old"])
      BY <3>3, OnlyTheStagingIsLocked
    <3> QED  BY <2>2, <3>2, <3>3, <3>4 DEF CanRename
  <2> QED  BY <2>1, <2>2
<1> QED  BY <1>1, <1>2, <1>3, <1>4

(* Whoever sweeps or clears an aside without executing it has just seen    *)
(* the executable in place.                                                *)
LEMMA SeesItInPlace ==
    ASSUME BaseInv, NEW p \in Procs, Step(p), pc'[p] \in {"sweepOld", "clear"}
    PROVE  There("dest") /\ at' = at
<1> USE DEF BaseInv, TypeOK, Goto, End, own
<1>1. CASE Idles(p)
  BY <1>1 DEF Idles, SweepCheck, Guard, Compare, WriteFails, StageFails,
     SwapRefused, DestExists, MoveAsideFails, PlaceFails, Look, Swept
<1>2. CASE Drops(p)
  BY <1>2 DEF Drops, SweepStaging, SweepAside, Wipe, ClearAside, Fail, Finish,
     UndoAside, Remove, RemoveClear, RemoveDrop, Swept
<1>3. CASE Moves(p)
  BY <1>3 DEF Moves, Stage, PlaceBeside, Swap, MoveAside, Place, RollBack,
     RestoreAside, RemoveAside, Placed
<1>4. CASE Create(p) \/ Write(p)
  BY <1>4 DEF Create, Write
<1> QED  BY <1>1, <1>2, <1>3, <1>4 DEF Step, Idles, Drops, Moves

(* What is locked at the staging name stays there.                         *)
LEMMA StagingIsStuck ==
    ASSUME BaseInv, NEW p \in Procs, Step(p), There("new"), at["new"] \in scanned
    PROVE  at'["new"] = at["new"]
<1> USE DEF BaseInv, TypeOK, Paths, There
<1>1. Locked(at["new"])
  BY DEF Locked
<1>2. CASE Create(p)
  BY <1>1, <1>2 DEF Create, WrittenTo, Deletable
<1>3. ASSUME NEW x \in Paths, Dropped(x)
      PROVE  at'["new"] = at["new"]
  BY <1>1, <1>3 DEF Dropped, Deletable
<1>4. ASSUME NEW x \in Paths, NEW y \in Paths, x # y, Moved(x, y)
      PROVE  at'["new"] = at["new"]
  BY <1>1, <1>4 DEF Moved, Renamed, CanRename, Deletable
<1> QED  BY <1>2, <1>3, <1>4, StepOnNames DEF Paths

LEMMA StoreStep ==
    ASSUME BaseInv, StoreInv, NEW p \in Procs, Step(p)
    PROVE  StoreInv'
<1>0. /\ Active(p) /\ cmd' = cmd /\ scanned' = scanned
      /\ died' = died /\ undone' = undone
      /\ \A q \in Procs \ {p} :
           pc'[q] = pc[q] /\ handle'[q] = handle[q] /\ image'[q] = image[q]
  BY StepIsOwn DEF BaseInv, others
<1>1. Orderly'
  BY <1>0 DEF StoreInv, Orderly, Active
<1>2. \A q \in Procs : image'[q] # NoFile => image'[q] = image[q]
  BY <1>0, StepGoesOn
<1>3. ASSUME NEW q \in Procs, image'[q] # NoFile
      PROVE  image'[q] \in {at["dest"], at["old"]}'
  BY <1>2, <1>3, ImageIsKept
<1>4. \A q \in Procs \ {p} : Beware(q)'
  <2> SUFFICES ASSUME NEW q \in Procs \ {p}
               PROVE  Beware(q)'
    OBVIOUS
  <2>1. cmd[q] = "update" /\ Active(q)' => image'[q] # NoFile
    BY <1>0 DEF StoreInv, Beware, Active
  <2>2. Active(q) => cmd[q] \in StoreCommands
    BY <1>0 DEF StoreInv, Orderly
  <2>3. pc[q] \in {"sweepOld", "clear"} => cmd[q] = "update"
    BY <2>2 DEF BaseInv, Control, Active, Steps, StoreCommands
  <2>4. cmd[q] = "materialize" => handle[q] = NoFile
    BY <2>2 DEF BaseInv, Control, Active, StoreCommands
  <2> QED  BY <1>0, <1>3, <2>1, <2>3, <2>4 DEF Beware
<1>5. Beware(p)'
  <2>1. cmd[p] = "update" /\ Active(p)' => image'[p] # NoFile
    BY <1>0, StepGoesOn DEF StoreInv, Beware
  <2>2. pc'[p] \in {"sweepOld", "clear"} => There("dest")'
    BY SeesItInPlace DEF There
  <2>3. cmd[p] = "materialize" /\ handle'[p] # NoFile => handle'[p] = at'["new"]
    <3> SUFFICES ASSUME cmd[p] = "materialize", handle'[p] # NoFile
                 PROVE  handle'[p] = at'["new"]
      OBVIOUS
    <3>1. pc'[p] = "write"
      BY StepGoesOn
    <3>2. CASE Create(p)
      BY <3>2 DEF Create, WrittenTo, BaseInv, TypeOK, Paths
    <3>3. CASE Write(p)
      BY <3>3 DEF Write, BaseInv, TypeOK
    <3> QED  BY <3>1, <3>2, <3>3, StagingKept
  <2> QED  BY <1>0, <1>3, <2>1, <2>2, <2>3 DEF Beware
<1>6. LocksTheStaging'
  <2> SUFFICES ASSUME NEW f \in scanned
               PROVE  f = at'["new"]
    BY <1>0 DEF LocksTheStaging
  <2>1. f = at["new"] /\ There("new")
    BY DEF StoreInv, LocksTheStaging, There, BaseInv, TypeOK
  <2> QED  BY <2>1, StagingIsStuck
<1>7. ~undone => ~Undoes(p)
  BY <1>0 DEF BaseInv, Control, Undoes
<1>8. ~undone' => Kept'
  BY <1>0, <1>7, StepKeepsACopy DEF StoreInv
<1>9. ToBePlaced'
  <2> SUFFICES ASSUME ~died, ~undone, ~There("dest")'
               PROVE  \E q \in Procs : pc'[q] \in {"place", "rollback"}
    BY <1>0 DEF ToBePlaced
  <2>1. CASE There("dest")
    BY <1>7, <2>1, StepKeepsACopy
  <2>2. CASE ~There("dest")
    <3>1. PICK q \in Procs : pc[q] \in {"place", "rollback"}
      BY <2>2 DEF StoreInv, ToBePlaced
    <3>2. CASE q = p
      BY <3>1, <3>2, PlacesOrGoesBack
    <3>3. CASE q # p
      BY <1>0, <3>1, <3>3
    <3> QED  BY <3>2, <3>3
  <2> QED  BY <2>1, <2>2
<1> QED  BY <1>1, <1>4, <1>5, <1>6, <1>8, <1>9 DEF StoreInv

LEMMA StoreBegin ==
    ASSUME OthersRunAlone, BaseInv, StoreInv,
           NEW p \in Procs, NEW c \in Commands, Begin(p, c)
    PROVE  StoreInv'
<1>1. /\ ~Active(p) /\ UNCHANGED <<at, handle, scanned, died>>
      /\ \A q \in Procs \ {p} : pc'[q] = pc[q] /\ cmd'[q] = cmd[q] /\ image'[q] = image[q]
      /\ cmd'[p] = c /\ pc'[p] = FirstStep(c) /\ (~undone' => ~undone)
  BY DEF Begin, Active, Goto, BaseInv, TypeOK
<1>2. ASSUME NEW q \in Procs \ {p}, Active(q)
      PROVE  c \in StoreCommands /\ cmd[q] \in StoreCommands
  BY <1>2 DEF Begin, Beside, Active, OthersRunAlone, BaseInv, Control
<1>3. Orderly'
  BY <1>1, <1>2 DEF StoreInv, Orderly, Active
<1>4. \A q \in Procs \ {p} : Beware(q)'
  BY <1>1 DEF StoreInv, Beware, There, Active
<1>5. Beware(p)'
  <2>1. pc'[p] \notin {"sweepOld", "clear"}
    BY <1>1 DEF FirstStep, AllCommands
  <2>2. handle[p] = NoFile
    BY <1>1 DEF BaseInv, Control, Active
  <2>3. c = "update" => image'[p] # NoFile
    BY DEF Begin, There, BaseInv, TypeOK
  <2>4. image'[p] # NoFile => image'[p] \in {at["dest"], at["old"]}
    BY DEF Begin, There, BaseInv, TypeOK, StoreInv, Beware
  <2> QED  BY <1>1, <2>1, <2>2, <2>3, <2>4 DEF Beware
<1>6. LocksTheStaging' /\ (~undone' => Kept')
  BY <1>1 DEF StoreInv, LocksTheStaging, Kept, There
<1>7. ToBePlaced'
  BY <1>1 DEF StoreInv, ToBePlaced, There, Active
<1> QED  BY <1>3, <1>4, <1>5, <1>6, <1>7 DEF StoreInv

LEMMA StoreInvariant ==
    ASSUME OthersRunAlone
    PROVE  Spec => [](BaseInv /\ StoreInv)
<1>1. Init => StoreInv
  <2> SUFFICES ASSUME Init PROVE StoreInv
    OBVIOUS
  <2>1. There("dest")
    BY DEF Init, There, Paths
  <2> QED  BY <2>1 DEF Init, StoreInv, Orderly, Beware, LocksTheStaging, Kept,
              ToBePlaced, Active
<1>2. BaseInv /\ StoreInv /\ [Next]_vars => StoreInv'
  <2> SUFFICES ASSUME BaseInv, StoreInv, [Next]_vars
               PROVE  StoreInv'
    OBVIOUS
  <2>1. CASE UNCHANGED vars
    BY <2>1 DEF StoreInv, Orderly, Beware, LocksTheStaging, Kept, There, ToBePlaced,
       Active, vars, own, others
  <2>2. ASSUME NEW p \in Procs, Crash(p)
        PROVE  StoreInv'
    <3>1. /\ UNCHANGED <<at, cmd, scanned, undone>> /\ pc'[p] = "idle" /\ died'
          /\ image'[p] = NoFile /\ handle'[p] = NoFile
          /\ \A q \in Procs \ {p} :
               pc'[q] = pc[q] /\ handle'[q] = handle[q] /\ image'[q] = image[q]
      BY <2>2 DEF Crash, Goto, BaseInv, TypeOK
    <3>2. Orderly'
      BY <3>1 DEF StoreInv, Orderly, Active
    <3>3. \A q \in Procs : Beware(q)'
      BY <3>1 DEF StoreInv, Beware, There, Active
    <3>4. LocksTheStaging' /\ (~undone' => Kept') /\ ToBePlaced'
      BY <3>1 DEF StoreInv, LocksTheStaging, Kept, There, ToBePlaced
    <3> QED  BY <3>2, <3>3, <3>4 DEF StoreInv
  <2>3. CASE Launch \/ Scan \/ \E f \in Files : Quit(f) \/ Scanned(f)
    <3>1. /\ UNCHANGED <<at, died, undone, image, handle, cmd, pc>>
          /\ scanned' \subseteq scanned \cup {at["new"]}
      BY <2>3, OutsideSteps DEF BaseInv
    <3> QED  BY <3>1 DEF StoreInv, Orderly, Beware, LocksTheStaging, Kept, There,
                ToBePlaced, Active
  <2> QED  BY <2>1, <2>2, <2>3, StoreStep, StoreBegin DEF Next
<1> QED  BY <1>1, <1>2, BaseInit, BaseStep, PTL DEF Spec

(* Any number of updates from the store, setups and shims, dying where     *)
(* they may, and anything else on its own, leave an executable at the name *)
(* or aside of it; only undo takes the last one (file_ops.rs:96-98,        *)
(* update.rs:188-195).                                                     *)
THEOREM LastCopyStays ==
    ASSUME OthersRunAlone
    PROVE  Spec => LastCopyIsKept
<1>1. BaseInv /\ StoreInv /\ [Next]_vars
        => [Kept /\ ~Kept' => \E p \in Procs : cmd[p] = "undo" /\ pc[p] # "idle"]_vars
  <2> SUFFICES ASSUME BaseInv, StoreInv, Next, Kept, ~Kept'
               PROVE  \E p \in Procs : cmd[p] = "undo" /\ pc[p] # "idle"
    OBVIOUS
  <2>1. at' # at
    BY DEF Kept, There
  <2>2. PICK p \in Procs : Step(p)
    BY <2>1, OutsideSteps DEF Next, Begin, Crash, BaseInv
  <2>3. Undoes(p) /\ Active(p)
    BY <2>2, StepKeepsACopy, StepIsOwn DEF BaseInv
  <2> QED  BY <2>3 DEF Undoes, Active
<1> QED  BY <1>1, StoreInvariant, PTL DEF Spec, LastCopyIsKept

(* When all of them have ended, with an error or not, and none has died,   *)
(* the executable is at its name, unless it was undone                     *)
(* (file_ops.rs:100-102).                                                  *)
THEOREM ComesBack ==
    ASSUME OthersRunAlone
    PROVE  Spec => []NeverVanishes
<1>1. StoreInv => NeverVanishes
  BY DEF StoreInv, ToBePlaced, NeverVanishes
<1> QED  BY <1>1, StoreInvariant, PTL

=============================================================================
