--------------------------- MODULE Current_proofs ---------------------------
(***************************************************************************)
(* For any number of processes and any targets: Current is well typed, and *)
(* what somebody else put at `current` survives every command and every    *)
(* race of two.  Of a process that no other one joins, and that may die at *)
(* any step: `current` never becomes nothing, a success leaves it on the   *)
(* target it was for, what else it leaves the next one clears, and neither *)
(* an install nor a setup moves a global that resolves.                    *)
(***************************************************************************)
EXTENDS Current, TLAPS

-----------------------------------------------------------------------------
(* The staging path is part of the induction: a swap moves whatever sits   *)
(* there, so a foreign directory at `current` is safe only if the swap is  *)
(* the one step that could bring another one in.                           *)

(* No command makes anything but a junction or an empty directory at the   *)
(* staging path, so that a swap brings nothing else to `current`.          *)
StagingIsOurs == entry["staging"] # "foreign"

CurrentInv == TypeOK /\ StagingIsOurs

(* Every step, of a process or of its environment, keeps the types and     *)
(* what each process may put at the staging path (current.rs:51-91).       *)
LEMMA CurrentStep ==
    ASSUME CurrentInv, Next
    PROVE  CurrentInv'
<1> USE TargetsAssumption DEF CurrentInv, TypeOK, candidates,
        StagingIsOurs, Entries, NotJunction, Paths, PCs, Commands
<1>1. ASSUME NEW p \in Procs, NEW c \in Commands, NEW t \in Targets,
             Begin(p, c, t)
      PROVE  CurrentInv'
  BY <1>1 DEF Begin, Goto
<1>2. ASSUME NEW p \in Procs, Inspect(p)
      PROVE  CurrentInv'
  BY <1>2 DEF Inspect, Goto, End
<1>3. ASSUME NEW p \in Procs,
             ClassifyAbsent(p) \/ ClassifyJunction(p) \/ ClassifyRefuses(p)
      PROVE  CurrentInv'
  <2>1. CASE ClassifyAbsent(p)
    BY <2>1 DEF ClassifyAbsent, Unlinked, Goto, End
  <2>2. CASE ClassifyJunction(p)
    BY <2>2, SMTT(30) DEF ClassifyJunction, Goto
  <2>3. CASE ClassifyRefuses(p)
    BY <2>3 DEF ClassifyRefuses, Goto, End
  <2> QED  BY <1>3, <2>1, <2>2, <2>3
<1>4. ASSUME NEW p \in Procs, DeleteJunction(p) \/ DeleteJunctionFails(p)
      PROVE  CurrentInv'
  BY <1>4 DEF DeleteJunction, DeleteJunctionFails, Unlinks, Goto, End
<1>5. ASSUME NEW p \in Procs, RemoveDir(p) \/ RemoveDirFails(p)
      PROVE  CurrentInv'
  <2>1. CASE RemoveDir(p)
    BY <2>1 DEF RemoveDir, Unlinks, Unlinked, Goto, End
  <2>2. CASE RemoveDirFails(p)
    BY <2>2 DEF RemoveDirFails, Goto, End
  <2> QED  BY <1>5, <2>1, <2>2
<1>6. ASSUME NEW p \in Procs, MakeDir(p) \/ MakeDirFails(p)
      PROVE  CurrentInv'
  BY <1>6 DEF MakeDir, MakeDirFails, Goto, End
<1>7. ASSUME NEW p \in Procs, SetReparsePoint(p) \/ SetReparsePointFails(p)
      PROVE  CurrentInv'
  <2>1. CASE SetReparsePoint(p)
    BY <2>1 DEF SetReparsePoint, Goto
  <2>2. CASE SetReparsePointFails(p)
    BY <2>2 DEF SetReparsePointFails, Goto, End
  <2> QED  BY <1>7, <2>1, <2>2
<1>8. ASSUME NEW p \in Procs, Swap(p) \/ SwapFails(p)
      PROVE  CurrentInv'
  <2>1. CASE Swap(p)
    BY <2>1 DEF Swap, Goto, End
  <2>2. CASE SwapFails(p)
    BY <2>2 DEF SwapFails, Goto
  <2> QED  BY <1>8, <2>1, <2>2
<1>9. ASSUME NEW p \in Procs, Crash(p)
      PROVE  CurrentInv'
  BY <1>9 DEF Crash, Goto
<1>10. ASSUME NEW t \in Targets, Appear(t) \/ Disappear(t) \/ Spoil(t)
       PROVE  CurrentInv'
  BY <1>10 DEF Appear, Disappear, Spoil
<1> QED
  BY <1>1, <1>2, <1>3, <1>4, <1>5, <1>6, <1>7, <1>8, <1>9, <1>10
  DEF Next, Step

(* From the first state on, whatever `current` holds there.                *)
LEMMA CurrentInvariant == Spec => []CurrentInv
<1>1. Init => CurrentInv
  BY TargetsAssumption DEF Init, CurrentInv, TypeOK, StagingIsOurs, Entries,
     NotJunction, Paths, PCs, Commands
<1>2. CurrentInv /\ [Next]_vars => CurrentInv'
  <2>1. CurrentInv /\ UNCHANGED vars => CurrentInv'
    BY DEF CurrentInv, TypeOK, StagingIsOurs, vars, candidates
  <2> QED  BY <2>1, CurrentStep
<1> QED  BY <1>1, <1>2, PTL DEF Spec

(* Every variable of the junction's protocol keeps its type.               *)
THEOREM Typing == Spec => []TypeOK
<1>1. CurrentInv => TypeOK
  BY DEF CurrentInv
<1> QED  BY <1>1, CurrentInvariant, PTL

(* No command, crash or race of commands touches what somebody else put at *)
(* `current` (current.rs:25-26).                                           *)
THEOREM ForeignSurvives == Spec => ForeignIsKept
<1>1. ASSUME CurrentInv, [Next]_vars
      PROVE  [\A q \in Paths : entry[q] = "foreign"
                => entry'[q] = "foreign"]_vars
  <2>1. CASE UNCHANGED vars
    BY <2>1 DEF vars, candidates
  <2>2. ASSUME Next
        PROVE  \A q \in Paths : entry[q] = "foreign" => entry'[q] = "foreign"
    <3> USE <1>1, TargetsAssumption DEF CurrentInv, TypeOK, StagingIsOurs,
            Entries, NotJunction, Paths
    <3>1. ASSUME NEW p \in Procs, DeleteJunction(p) \/ RemoveDir(p)
          PROVE  \A q \in Paths : entry[q] = "foreign" => entry'[q] = "foreign"
      BY <3>1 DEF DeleteJunction, RemoveDir, Unlinks
    <3>2. ASSUME NEW p \in Procs, MakeDir(p) \/ SetReparsePoint(p)
          PROVE  \A q \in Paths : entry[q] = "foreign" => entry'[q] = "foreign"
      BY <3>2 DEF MakeDir, SetReparsePoint
    <3>3. ASSUME NEW p \in Procs, SetReparsePointFails(p)
          PROVE  \A q \in Paths : entry[q] = "foreign" => entry'[q] = "foreign"
      BY <3>3 DEF SetReparsePointFails
    <3>4. ASSUME NEW p \in Procs, Swap(p)
          PROVE  \A q \in Paths : entry[q] = "foreign" => entry'[q] = "foreign"
      BY <3>4 DEF Swap
    <3>5. (\E p \in Procs :
             \/ DeleteJunction(p) \/ RemoveDir(p) \/ MakeDir(p)
             \/ SetReparsePoint(p) \/ SetReparsePointFails(p) \/ Swap(p))
          \/ UNCHANGED entry
      BY <2>2 DEF Next, Step, Begin, Inspect, ClassifyAbsent,
         ClassifyJunction, ClassifyRefuses, DeleteJunctionFails,
         RemoveDirFails, MakeDirFails, SwapFails, Crash, Appear, Disappear, Spoil
    <3> QED  BY <3>1, <3>2, <3>3, <3>4, <3>5
  <2> QED  BY <1>1, <2>1, <2>2
<1> QED  BY <1>1, CurrentInvariant, PTL DEF Spec, ForeignIsKept

-----------------------------------------------------------------------------
(* One process at a time.  Two would share the staging path without a      *)
(* lock, and one's swap may then move what the other has half made.        *)

OneProcess == \A p, q \in Procs : p = q

(* Between its two calls junction::create leaves an empty directory, and   *)
(* what a swap moves is the junction it was asked for; before, and after a *)
(* swap that was refused, what is cleared is a junction (current.rs:51-65, *)
(* 75-91).                                                                 *)
StagingIsMine(p) ==
    /\ pc[p] = "mkdir" => entry["staging"] = "absent"
    /\ pc[p] = "set"   => entry["staging"] = "dir"
    /\ pc[p] = "swap"  => entry["staging"] = target[p]
    /\ pc[p] = "delete" /\ phase[p] # "undo" => entry["staging"] \in Targets
    /\ pc[p] = "rmdir" /\ phase[p] # "undo" => entry["staging"] = "dir"
    /\ pc[p] = "classify" /\ phase[p] = "cleanup" => entry["staging"] \in Targets

(* What a process unlinks and why, by its command: only undo unlinks       *)
(* `current`, and nobody who still makes a junction is cleaning one up.    *)
PhaseIsOfCommand(p) ==
    /\ pc[p] # "idle" => (phase[p] = "undo" <=> op[p] = "undo")
    /\ pc[p] \in {"inspect", "mkdir", "set", "swap"} => phase[p] = "clear"

(* A command under way has reported nothing.                               *)
NothingReported(p) == pc[p] # "idle" => result[p] = "none"

SoloInv ==
    \A p \in Procs :
      StagingIsMine(p) /\ PhaseIsOfCommand(p) /\ NothingReported(p)

(* The two facts that hold while candidates come and go between commands   *)
(* only: the target was found or made by this command, and an election has *)
(* seen that no global resolves (install.rs:73-75, setup.rs:290-292).      *)
TargetIsThere(p) == pc[p] # "idle" /\ op[p] # "undo" => target[p] \in alive

GlobalIsUnset(p) ==
    op[p] \in {"install", "setup"} /\ pc[p] \notin {"idle", "inspect"}
      => entry["current"] \notin alive

SettledInv == \A p \in Procs : TargetIsThere(p) /\ GlobalIsUnset(p)

(* With one process, the facts about it are inductive.                     *)
LEMMA SoloStep ==
    ASSUME OneProcess, CurrentInv, SoloInv, Next
    PROVE  SoloInv'
<1> USE TargetsAssumption DEF OneProcess, CurrentInv, TypeOK, candidates, Entries,
        NotJunction, Paths, PCs, Commands, SoloInv, StagingIsMine,
        PhaseIsOfCommand, NothingReported
<1>1. ASSUME NEW p \in Procs, NEW c \in Commands, NEW t \in Targets,
             Begin(p, c, t)
      PROVE  SoloInv'
  BY <1>1 DEF Begin, Goto
<1>2. ASSUME NEW p \in Procs, Inspect(p)
      PROVE  SoloInv'
  BY <1>2 DEF Inspect, Unset, Goto, End
<1>3. ASSUME NEW p \in Procs, ClassifyAbsent(p)
      PROVE  SoloInv'
  <2>1. CASE phase[p] = "clear"
    BY <1>3, <2>1 DEF ClassifyAbsent, Unlinks, Unlinked, Goto, End
  <2>2. CASE phase[p] = "cleanup"
    BY <1>3, <2>2 DEF ClassifyAbsent, Unlinks, Unlinked, Goto, End
  <2>3. CASE phase[p] = "undo"
    BY <1>3, <2>3 DEF ClassifyAbsent, Unlinks, Unlinked, Goto, End
  <2> QED  BY <2>1, <2>2, <2>3
<1>4. ASSUME NEW p \in Procs, ClassifyJunction(p)
      PROVE  SoloInv'
  BY <1>4 DEF ClassifyJunction, Unlinks, Goto
<1>5. ASSUME NEW p \in Procs, ClassifyRefuses(p)
      PROVE  SoloInv'
  BY <1>5 DEF ClassifyRefuses, Goto, End
<1>6. ASSUME NEW p \in Procs, DeleteJunction(p)
      PROVE  SoloInv'
  BY <1>6 DEF DeleteJunction, Unlinks, Goto
<1>7. ASSUME NEW p \in Procs, DeleteJunctionFails(p)
      PROVE  SoloInv'
  BY <1>7 DEF DeleteJunctionFails, Goto, End
<1>8. ASSUME NEW p \in Procs, RemoveDir(p)
      PROVE  SoloInv'
  <2>1. CASE phase[p] = "clear"
    BY <1>8, <2>1 DEF RemoveDir, Unlinks, Unlinked, Goto, End
  <2>2. CASE phase[p] = "cleanup"
    BY <1>8, <2>2 DEF RemoveDir, Unlinks, Unlinked, Goto, End
  <2>3. CASE phase[p] = "undo"
    BY <1>8, <2>3 DEF RemoveDir, Unlinks, Unlinked, Goto, End
  <2> QED  BY <2>1, <2>2, <2>3
<1>9. ASSUME NEW p \in Procs, RemoveDirFails(p)
      PROVE  SoloInv'
  BY <1>9 DEF RemoveDirFails, Goto, End
<1>10. ASSUME NEW p \in Procs, MakeDir(p)
      PROVE  SoloInv'
  BY <1>10 DEF MakeDir, Goto
<1>11. ASSUME NEW p \in Procs, MakeDirFails(p)
      PROVE  SoloInv'
  BY <1>11 DEF MakeDirFails, Goto, End
<1>12. ASSUME NEW p \in Procs, SetReparsePoint(p)
      PROVE  SoloInv'
  BY <1>12 DEF SetReparsePoint, Goto
<1>13. ASSUME NEW p \in Procs, SetReparsePointFails(p)
      PROVE  SoloInv'
  BY <1>13 DEF SetReparsePointFails, Goto, End
<1>14. ASSUME NEW p \in Procs, Swap(p)
      PROVE  SoloInv'
  BY <1>14 DEF Swap, Goto, End
<1>15. ASSUME NEW p \in Procs, SwapFails(p)
      PROVE  SoloInv'
  BY <1>15 DEF SwapFails, Goto
<1>16. ASSUME NEW p \in Procs, Crash(p)
      PROVE  SoloInv'
  BY <1>16 DEF Crash, Goto
<1>17. ASSUME NEW t \in Targets, Appear(t) \/ Disappear(t) \/ Spoil(t)
      PROVE  SoloInv'
  BY <1>17 DEF Appear, Disappear, Spoil, MayMove
<1> QED
  BY <1>1, <1>2, <1>3, <1>4, <1>5, <1>6, <1>7, <1>8, <1>9, <1>10, <1>11,
     <1>12, <1>13, <1>14, <1>15, <1>16, <1>17 DEF Next, Step

(* And so are the two that need the candidates to keep still.              *)
LEMMA SettledStep ==
    ASSUME OneProcess, Settled, CurrentInv, SoloInv, SettledInv, Next
    PROVE  SettledInv'
<1> USE TargetsAssumption DEF OneProcess, CurrentInv, TypeOK, candidates, Entries,
        NotJunction, Paths, PCs, Commands, SoloInv, StagingIsMine,
        PhaseIsOfCommand, SettledInv, TargetIsThere, GlobalIsUnset
<1>1. ASSUME NEW p \in Procs, NEW c \in Commands, NEW t \in Targets,
             Begin(p, c, t)
      PROVE  SettledInv'
  BY <1>1 DEF Begin, Goto
<1>2. ASSUME NEW p \in Procs, Inspect(p)
      PROVE  SettledInv'
  BY <1>2 DEF Inspect, Unset, Goto, End
<1>3. ASSUME NEW p \in Procs, ClassifyAbsent(p)
      PROVE  SettledInv'
  BY <1>3 DEF ClassifyAbsent, Unlinked, Goto, End
<1>4. ASSUME NEW p \in Procs, ClassifyJunction(p)
      PROVE  SettledInv'
  BY <1>4 DEF ClassifyJunction, Goto
<1>5. ASSUME NEW p \in Procs, ClassifyRefuses(p)
      PROVE  SettledInv'
  BY <1>5 DEF ClassifyRefuses, Goto, End
<1>6. ASSUME NEW p \in Procs, DeleteJunction(p)
      PROVE  SettledInv'
  BY <1>6 DEF DeleteJunction, Unlinks, Goto
<1>7. ASSUME NEW p \in Procs, DeleteJunctionFails(p)
      PROVE  SettledInv'
  BY <1>7 DEF DeleteJunctionFails, Goto, End
<1>8. ASSUME NEW p \in Procs, RemoveDir(p)
      PROVE  SettledInv'
  BY <1>8 DEF RemoveDir, Unlinks, Unlinked, Goto, End
<1>9. ASSUME NEW p \in Procs, RemoveDirFails(p)
      PROVE  SettledInv'
  BY <1>9 DEF RemoveDirFails, Goto, End
<1>10. ASSUME NEW p \in Procs, MakeDir(p)
      PROVE  SettledInv'
  BY <1>10 DEF MakeDir, Goto
<1>11. ASSUME NEW p \in Procs, MakeDirFails(p)
      PROVE  SettledInv'
  BY <1>11 DEF MakeDirFails, Goto, End
<1>12. ASSUME NEW p \in Procs, SetReparsePoint(p)
      PROVE  SettledInv'
  BY <1>12 DEF SetReparsePoint, Goto
<1>13. ASSUME NEW p \in Procs, SetReparsePointFails(p)
      PROVE  SettledInv'
  BY <1>13 DEF SetReparsePointFails, Goto, End
<1>14. ASSUME NEW p \in Procs, Swap(p)
      PROVE  SettledInv'
  BY <1>14 DEF Swap, Goto, End
<1>15. ASSUME NEW p \in Procs, SwapFails(p)
      PROVE  SettledInv'
  BY <1>15 DEF SwapFails, Goto
<1>16. ASSUME NEW p \in Procs, Crash(p)
      PROVE  SettledInv'
  BY <1>16 DEF Crash, Goto
<1>17. ASSUME NEW t \in Targets, Appear(t) \/ Disappear(t) \/ Spoil(t)
      PROVE  SettledInv'
  BY <1>17 DEF Appear, Disappear, Spoil, MayMove
<1> QED
  BY <1>1, <1>2, <1>3, <1>4, <1>5, <1>6, <1>7, <1>8, <1>9, <1>10, <1>11,
     <1>12, <1>13, <1>14, <1>15, <1>16, <1>17 DEF Next, Step

LEMMA SoloInvariant ==
    ASSUME OneProcess
    PROVE  Spec => []SoloInv
<1>1. Init => SoloInv
  BY DEF Init, SoloInv, StagingIsMine, PhaseIsOfCommand, NothingReported
<1>2. CurrentInv /\ SoloInv /\ [Next]_vars => SoloInv'
  <2>1. SoloInv /\ UNCHANGED vars => SoloInv'
    BY DEF SoloInv, StagingIsMine, PhaseIsOfCommand, NothingReported, vars, candidates
  <2> QED  BY <2>1, SoloStep, OneProcess
<1> QED  BY <1>1, <1>2, CurrentInvariant, PTL DEF Spec

LEMMA SettledInvariant ==
    ASSUME OneProcess, Settled
    PROVE  Spec => []SettledInv
<1>1. Init => SettledInv
  BY DEF Init, SettledInv, TargetIsThere, GlobalIsUnset
<1>2. CurrentInv /\ SoloInv /\ SettledInv /\ [Next]_vars => SettledInv'
  <2>1. SettledInv /\ UNCHANGED vars => SettledInv'
    BY DEF SettledInv, TargetIsThere, GlobalIsUnset, vars, candidates
  <2> QED  BY <2>1, SettledStep, OneProcess, Settled
<1> QED  BY <1>1, <1>2, CurrentInvariant, SoloInvariant, OneProcess, PTL
        DEF Spec

-----------------------------------------------------------------------------
(* Only two steps move `current`, and a success is one of them.            *)

(* Unlinking staging leaves `current` alone, so that what changes it is    *)
(* undo's unlink or a swap (current.rs:67-90).                             *)
LEMMA WhoMovesCurrent ==
    ASSUME CurrentInv, Next, entry'["current"] # entry["current"]
    PROVE  \E p \in Procs : Undoes(p) \/ Swap(p)
<1> USE DEF CurrentInv, TypeOK, Entries, Paths
<1>1. ASSUME NEW p \in Procs, DeleteJunction(p)
      PROVE  Undoes(p)
  BY <1>1 DEF DeleteJunction, Unlinks, Undoes, Goto
<1>2. ASSUME NEW p \in Procs, RemoveDir(p)
      PROVE  Undoes(p)
  BY <1>2 DEF RemoveDir, Unlinks, Unlinked, Undoes, Goto, End
<1>3. \E p \in Procs : DeleteJunction(p) \/ RemoveDir(p) \/ Swap(p)
  BY DEF Next, Step, Begin, Inspect, ClassifyAbsent, ClassifyJunction,
     ClassifyRefuses, DeleteJunctionFails, RemoveDirFails, MakeDir,
     MakeDirFails, SetReparsePoint, SetReparsePointFails, SwapFails, Crash,
     Appear, Disappear, Spoil
<1> QED  BY <1>1, <1>2, <1>3

(* Nothing but its own swap ends a process in `ok` from there: not its     *)
(* death, which leaves its report as it was.                               *)
LEMMA SuccessIsASwap ==
    ASSUME OneProcess, CurrentInv, SoloInv, Next, NEW p \in Procs, Swaps(p)
    PROVE  Swap(p)
<1> USE DEF OneProcess, CurrentInv, TypeOK, SoloInv, NothingReported, Swaps
<1>1. ASSUME NEW q \in Procs, NEW c \in Commands, NEW t \in Targets
      PROVE  ~Begin(q, c, t)
  BY DEF Begin
<1>2. ASSUME NEW q \in Procs, Step(q)
      PROVE  Swap(p)
  BY <1>2 DEF Step, Inspect, ClassifyAbsent, ClassifyJunction,
     ClassifyRefuses, DeleteJunction, DeleteJunctionFails, RemoveDir,
     RemoveDirFails, MakeDir, MakeDirFails, SetReparsePoint,
     SetReparsePointFails, SwapFails, Goto
<1>3. ASSUME NEW q \in Procs
      PROVE  ~Crash(q)
  BY DEF Crash
<1>4. ASSUME NEW t \in Targets
      PROVE  ~Appear(t) /\ ~Disappear(t) /\ ~Spoil(t)
  BY DEF Appear, Disappear, Spoil
<1> QED  BY <1>1, <1>2, <1>3, <1>4 DEF Next

(* A swap puts its own target there and says so.                           *)
LEMMA SwapIsOnTarget ==
    ASSUME CurrentInv, SoloInv, NEW p \in Procs, Swap(p)
    PROVE  /\ Swaps(p)
           /\ entry'["current"] = target[p]
           /\ op[p] # "undo"
  BY DEF CurrentInv, TypeOK, Paths, SoloInv, StagingIsMine,
     PhaseIsOfCommand, Swap, Swaps, Goto, End

(* Through every retarget of a process alone, and its death at any step of *)
(* one, `current` is a junction to the old target or to the new one        *)
(* (current.rs:47-50).                                                     *)
THEOREM JunctionStays ==
    ASSUME OneProcess
    PROVE  Spec => NeverToNothing
<1>1. ASSUME CurrentInv, SoloInv, [Next]_vars
      PROVE  [entry["current"] \in Targets /\ entry'["current"] \notin Targets
                => \E p \in Procs : Undoes(p)]_vars
  <2>1. CASE UNCHANGED vars
    BY <2>1 DEF vars, candidates
  <2>2. ASSUME Next, entry["current"] \in Targets,
               entry'["current"] \notin Targets
        PROVE  \E p \in Procs : Undoes(p)
    <3>1. PICK p \in Procs : Undoes(p) \/ Swap(p)
      BY <1>1, <2>2, WhoMovesCurrent
    <3>2. ~Swap(p)
      BY <1>1, <2>2, SwapIsOnTarget DEF CurrentInv, TypeOK
    <3> QED  BY <3>1, <3>2
  <2> QED  BY <1>1, <2>1, <2>2
<1> QED  BY <1>1, CurrentInvariant, SoloInvariant, OneProcess, PTL
        DEF Spec, NeverToNothing

(* What a retarget of a process alone leaves at the staging path, dead or  *)
(* refused, the next one clears, unless it was cut off inside of unlink or *)
(* of junction::create, or had met what it could not clear itself          *)
(* (current.rs:55, 79-88).                                                 *)
THEOREM LeftoversGo ==
    ASSUME OneProcess
    PROVE  Spec => LeftoversAreCleared
<1>1. ASSUME CurrentInv, SoloInv, Next, NEW p \in Procs,
             pc[p] \notin {"idle", "rmdir", "set"}, phase[p] # "undo", pc'[p] = "idle",
             entry'["staging"] \in NotJunction
      PROVE  phase[p] = "clear" /\ pc[p] \in {"inspect", "classify"}
  <2> USE <1>1, OneProcess, TargetsAssumption
      DEF OneProcess, CurrentInv, TypeOK, Entries, Paths, PCs, NotJunction, SoloInv,
          StagingIsMine, PhaseIsOfCommand
  <2>1. entry'["staging"] = entry["staging"] \/ Swap(p) \/ RemoveDir(p) \/ DeleteJunction(p)
        \/ MakeDir(p) \/ SetReparsePoint(p) \/ SetReparsePointFails(p)
    BY DEF Next, Step, Begin, Inspect, ClassifyAbsent, ClassifyJunction, ClassifyRefuses,
       DeleteJunctionFails, RemoveDirFails, MakeDirFails, SwapFails, Crash, Appear,
       Disappear, Spoil
  <2>2. entry'["staging"] = entry["staging"] \/ entry'["staging"] = "absent"
    BY <2>1 DEF Swap, RemoveDir, DeleteJunction, MakeDir, SetReparsePoint,
       SetReparsePointFails, Goto
  <2>3. entry["staging"] \in NotJunction
    BY <2>2
  <2>4. pc[p] \in {"inspect", "classify"}
    BY <2>3
  <2>5. phase[p] = "clear"
    BY <2>3, <2>4
  <2> QED  BY <2>4, <2>5
<1>2. CurrentInv /\ SoloInv /\ [Next]_vars
      => [\A p \in Procs :
            /\ pc[p] \notin {"idle", "rmdir", "set"} /\ phase[p] # "undo" /\ pc'[p] = "idle"
            /\ entry'["staging"] \in NotJunction
            => phase[p] = "clear" /\ pc[p] \in {"inspect", "classify"}]_vars
  BY <1>1
<1> QED  BY <1>2, CurrentInvariant, SoloInvariant, OneProcess, PTL
        DEF Spec, LeftoversAreCleared

(* A retarget that reports success is on its own target (current.rs:47),   *)
(* and what doctor has to say of it is whether that target has a java.exe  *)
(* (doctor.rs:209-248), when no candidate goes under the command that      *)
(* points at it.  Files may go from it at any time.                        *)
THEOREM SuccessPointsThere ==
    ASSUME OneProcess, Settled
    PROVE  Spec => SuccessIsOnTarget
<1>1. ASSUME CurrentInv, SoloInv, SettledInv, Next, NEW p \in Procs, Swaps(p)
      PROVE  /\ entry'["current"] = target[p]
             /\ JunctionCheck' = IF target[p] \in jdks THEN "pass" ELSE "no java.exe"
  <2>1. Swap(p)
    BY <1>1, OneProcess, SuccessIsASwap
  <2>2. entry'["current"] = target[p] /\ op[p] # "undo"
    BY <1>1, <2>1, SwapIsOnTarget
  <2>3. target[p] \in alive /\ target[p] \in Targets /\ jdks \subseteq alive
    BY <1>1, <2>1, <2>2 DEF CurrentInv, TypeOK, SettledInv, TargetIsThere, Swap
  <2>4. alive' = alive /\ jdks' = jdks
    BY <2>1 DEF Swap, candidates
  <2>5. target[p] # "absent" /\ target[p] \notin NotJunction
    BY <2>3, TargetsAssumption
  <2> QED  BY <2>2, <2>3, <2>4, <2>5 DEF JunctionCheck
<1>2. CurrentInv /\ SoloInv /\ SettledInv /\ [Next]_vars
      => [\A p \in Procs :
            Swaps(p) =>
              /\ entry'["current"] = target[p]
              /\ JunctionCheck' = IF target[p] \in jdks THEN "pass" ELSE "no java.exe"]_vars
  BY <1>1
<1> QED  BY <1>2, CurrentInvariant, SoloInvariant, SettledInvariant,
            OneProcess, Settled, PTL
        DEF Spec, SuccessIsOnTarget

(* Neither an install nor a setup disturbs a global that resolves          *)
(* (install.rs:73-75, setup.rs:290-292): the election saw none, and none   *)
(* came back before its swap.                                              *)
THEOREM HealthyGlobalStays ==
    ASSUME OneProcess, Settled
    PROVE  Spec => HealthyGlobalIsKept
<1>1. ASSUME CurrentInv, SoloInv, SettledInv, [Next]_vars
      PROVE  [entry["current"] \in alive
              /\ entry'["current"] # entry["current"]
                => \E p \in Procs : \/ Undoes(p)
                                    \/ Swaps(p) /\ op[p] = "use"]_vars
  <2>1. CASE UNCHANGED vars
    BY <2>1
  <2>2. ASSUME Next, entry["current"] \in alive,
               entry'["current"] # entry["current"]
        PROVE  \E p \in Procs : Undoes(p) \/ (Swaps(p) /\ op[p] = "use")
    <3>1. PICK p \in Procs : Undoes(p) \/ Swap(p)
      BY <1>1, <2>2, WhoMovesCurrent
    <3>2. ASSUME Swap(p)
          PROVE  Swaps(p) /\ op[p] = "use"
      <4>1. Swaps(p) /\ op[p] # "undo"
        BY <1>1, <3>2, SwapIsOnTarget
      <4>2. op[p] \notin {"install", "setup"}
        BY <1>1, <2>2, <3>2 DEF SettledInv, GlobalIsUnset, Swap
      <4>3. op[p] \in Commands
        BY <1>1 DEF CurrentInv, TypeOK
      <4>4. op[p] = "use"
        BY <4>1, <4>2, <4>3 DEF Commands
      <4> QED  BY <4>1, <4>4
    <3> QED  BY <3>1, <3>2
  <2> QED  BY <1>1, <2>1, <2>2
<1> QED  BY <1>1, CurrentInvariant, SoloInvariant, SettledInvariant,
            OneProcess, Settled, PTL
        DEF Spec, HealthyGlobalIsKept

=============================================================================
