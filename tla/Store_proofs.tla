---------------------------- MODULE Store_proofs ----------------------------
(***************************************************************************)
(* The store never holds a partial candidate, and never takes one from     *)
(* under a process that uses it, for any processes, names, version kinds   *)
(* and selectors, with crashes anywhere.                                   *)
(***************************************************************************)
EXTENDS Store, TLAPS

(* The levels of a directory, and the aside of one below the bound.        *)
LEMMA Directories ==
  /\ \A d \in Dirs : d[1] \in Names /\ d[2] \in Levels /\ d[2] \in Nat
  /\ \A n \in Names : <<n, 0>> \in Dirs
  /\ \A d \in Dirs : d[2] < MaxLevel => Aside(d) \in Dirs /\ Aside(d)[2] > 0
BY StoreAssumption DEF Dirs, Levels, Aside

(* Every variable of the store keeps its type (install.rs, uninstall.rs).  *)
THEOREM Typing == Spec => []TypeOK
<1> USE DEF TypeOK, Trees, Commands, PCs, LockedPCs
<1>1. Init => TypeOK
  BY Directories DEF Init, Lock!Init
<1>2. TypeOK /\ [Next]_vars => TypeOK'
  <2> SUFFICES ASSUME TypeOK, [Next]_vars PROVE TypeOK'
    OBVIOUS
  <2>1. ASSUME NEW p \in Procs, NEW n \in Names, BeginInstall(p, n) PROVE TypeOK'
    BY <2>1 DEF BeginInstall, Orphans
  <2>2. ASSUME NEW p \in Procs, NEW s \in Selectors,
               BeginUninstall(p, s) \/ BeginLaunch(p, s)
        PROVE TypeOK'
    <3>1. s \in SUBSET Names
      BY StoreAssumption
    <3>2. Orphans \in SUBSET Dirs
      BY DEF Orphans
    <3>3. QED
      BY <2>2, <3>1, <3>2 DEF BeginUninstall, BeginLaunch
  <2>3. ASSUME NEW p \in Procs, DeleteSome(p) \/ DeleteEnds(p) \/ DeleteStops(p)
        PROVE TypeOK'
    BY <2>3 DEF DeleteSome, DeleteEnds, DeleteStops, AfterDelete
  <2>4. ASSUME NEW p \in Procs, NEW d \in Dirs, SweepOne(p, d) PROVE TypeOK'
    BY <2>4 DEF SweepOne
  <2>5. ASSUME NEW p \in Procs, SweepDone(p) \/ CheckDest(p) \/ LockFails(p)
                                \/ RecheckDest(p) \/ FetchFails(p)
                                \/ InstallFails(p) \/ RenameRefused(p)
        PROVE TypeOK'
    BY <2>5 DEF SweepDone, CheckDest, LockFails, RecheckDest, FetchFails,
       InstallFails, RenameRefused
  <2>6. ASSUME NEW p \in Procs, TakeLock(p) \/ ReleaseLock(p) PROVE TypeOK'
    BY <2>6 DEF TakeLock, ReleaseLock, Lock!Enter, Lock!Leave
  <2>7. ASSUME NEW p \in Procs, Fetch(p) \/ RemoveArchive(p) PROVE TypeOK'
    BY <2>7 DEF Fetch, RemoveArchive
  <2>8. ASSUME NEW p \in Procs, CreateStaging(p) \/ CreateStagingFails(p)
                                \/ ExtractSome(p) \/ ExtractRest(p)
                                \/ DropStaging(p)
        PROVE TypeOK'
    BY <2>8 DEF CreateStaging, CreateStagingFails, ExtractSome, ExtractRest,
       DropStaging
  <2>9. ASSUME NEW p \in Procs, MoveIn(p) PROVE TypeOK'
    <3>1. Dest(p) \in Dirs /\ want[p] \in Names
      BY Directories DEF Dest
    <3>2. QED
      BY <2>9, <3>1 DEF MoveIn
  <2>10. ASSUME NEW p \in Procs, Resolve(p) PROVE TypeOK'
    BY <2>10 DEF Resolve, Best, Matching, Installed
  <2>11. ASSUME NEW p \in Procs, RenameAside(p) PROVE TypeOK'
    BY <2>11, Directories DEF RenameAside
  <2>12. ASSUME NEW p \in Procs, Start(p) PROVE TypeOK'
    BY <2>12 DEF Start
  <2>13. ASSUME NEW d \in Dirs, Exit(d) PROVE TypeOK'
    BY <2>13 DEF Exit
  <2>14. ASSUME NEW n \in Names, OutOfBand(n) PROVE TypeOK'
    BY <2>14, Directories DEF OutOfBand
  <2>15. ASSUME NEW p \in Procs, Crash(p) PROVE TypeOK'
    BY <2>15 DEF Crash
  <2>16. CASE UNCHANGED vars
    BY <2>16 DEF vars
  <2>17. QED
    BY <2>1, <2>2, <2>3, <2>4, <2>5, <2>6, <2>7, <2>8, <2>9, <2>10, <2>11,
       <2>12, <2>13, <2>14, <2>15, <2>16 DEF Next, InstallStep, RemoveStep
<1>3. QED
  BY <1>1, <1>2, PTL DEF Spec

-----------------------------------------------------------------------------
(* The lock: the process between TakeLock and ReleaseLock is alone inside  *)
(* its name (install.rs:60).                                               *)
LEMMA LockStep ==
  TypeOK /\ LockHeldInside /\ [Next]_vars => LockHeldInside'
<1> SUFFICES ASSUME TypeOK, LockHeldInside, [Next]_vars PROVE LockHeldInside'
  OBVIOUS
<1> USE DEF TypeOK, LockHeldInside, LockedPCs
<1>1. ASSUME NEW p \in Procs, TakeLock(p) PROVE LockHeldInside'
  <2>1. inside' = [inside EXCEPT ![want[p]] = {p}] /\ inside[want[p]] = {}
    BY <1>1 DEF TakeLock, Lock!Enter
  <2>2. pc' = [pc EXCEPT ![p] = "recheck"] /\ pc[p] = "lock" /\ want' = want
    BY <1>1 DEF TakeLock
  <2>3. ASSUME NEW q \in Procs, pc[q] \in LockedPCs PROVE want[q] # want[p]
    <3>1. inside[want[q]] = {q}
      BY <2>3
    <3>2. QED
      BY <2>1, <3>1
  <2>4. QED
    BY <2>1, <2>2, <2>3
<1>2. ASSUME NEW p \in Procs, ReleaseLock(p) PROVE LockHeldInside'
  BY <1>2 DEF ReleaseLock, Lock!Leave
<1>3. ASSUME NEW p \in Procs, Crash(p) PROVE LockHeldInside'
  BY <1>3 DEF Crash
<1>4. ASSUME NEW p \in Procs, UNCHANGED inside,
             \A q \in Procs : q # p => pc'[q] = pc[q] /\ want'[q] = want[q],
             pc'[p] \in LockedPCs <=> pc[p] \in LockedPCs,
             pc[p] \in LockedPCs => want'[p] = want[p]
      PROVE LockHeldInside'
  BY <1>4
<1>5. ASSUME NEW p \in Procs, NEW n \in Names, BeginInstall(p, n)
      PROVE LockHeldInside'
  BY <1>4, <1>5 DEF BeginInstall
<1>6. ASSUME NEW p \in Procs, NEW s \in Selectors,
             BeginUninstall(p, s) \/ BeginLaunch(p, s)
      PROVE LockHeldInside'
  BY <1>4, <1>6 DEF BeginUninstall, BeginLaunch
<1>7. ASSUME NEW p \in Procs, InstallStep(p) PROVE LockHeldInside'
  <2>1. ASSUME CheckDest(p) \/ LockFails(p) \/ RecheckDest(p) \/ FetchFails(p)
                 \/ InstallFails(p) \/ Fetch(p) \/ RemoveArchive(p)
        PROVE LockHeldInside'
    BY <1>4, <2>1 DEF CheckDest, LockFails, RecheckDest, FetchFails,
       InstallFails, Fetch, RemoveArchive
  <2>2. ASSUME CreateStaging(p) \/ CreateStagingFails(p) \/ ExtractSome(p)
                 \/ ExtractRest(p) \/ MoveIn(p) \/ DropStaging(p)
        PROVE LockHeldInside'
    BY <1>4, <2>2 DEF CreateStaging, CreateStagingFails, ExtractSome,
       ExtractRest, MoveIn, DropStaging
  <2>3. QED
    BY <1>1, <1>2, <1>7, <2>1, <2>2 DEF InstallStep
<1>8. ASSUME NEW p \in Procs, RemoveStep(p) PROVE LockHeldInside'
  BY <1>4, <1>8 DEF RemoveStep, DeleteSome, DeleteEnds, DeleteStops,
     AfterDelete, SweepOne, SweepDone, Resolve, RenameAside, RenameRefused,
     Start
<1>9. ASSUME NEW d \in Dirs, Exit(d) PROVE LockHeldInside'
  BY <1>9 DEF Exit
<1>10. ASSUME NEW n \in Names, OutOfBand(n) PROVE LockHeldInside'
  BY <1>10 DEF OutOfBand
<1>11. CASE UNCHANGED vars
  BY <1>11 DEF vars
<1>12. QED
  BY <1>3, <1>5, <1>6, <1>7, <1>8, <1>9, <1>10, <1>11 DEF Next

(* Two processes that hold a lock hold those of two names.                 *)
LEMMA Alone ==
  ASSUME LockHeldInside,
         NEW p \in Procs, pc[p] \in LockedPCs,
         NEW q \in Procs, pc[q] \in LockedPCs,
         p # q
  PROVE  want[q] # want[p]
<1>1. inside[want[p]] = {p} /\ inside[want[q]] = {q}
  BY DEF LockHeldInside
<1>2. QED
  BY <1>1

-----------------------------------------------------------------------------
(* The four other parts of the invariant, given the lock: the holder finds *)
(* its staging as it left it, and deletes only what carries the suffix     *)
(* (install.rs:70-82, uninstall.rs:78, 113-126).                           *)
LEMMA StoreStep ==
  TypeOK /\ StoreInv /\ [Next]_vars
    => /\ StagingIsTheHolders'
       /\ OnlyAsidesAreDeleted'
       /\ CandidatesAreWhole'
       /\ RunningIsWhole'
<1> DEFINE Rest == /\ StagingIsTheHolders
                   /\ OnlyAsidesAreDeleted
                   /\ CandidatesAreWhole
                   /\ RunningIsWhole
<1> SUFFICES ASSUME TypeOK, LockHeldInside, Rest, [Next]_vars PROVE Rest'
  BY DEF StoreInv
<1> USE DEF TypeOK, StagingIsTheHolders, OnlyAsidesAreDeleted,
            CandidatesAreWhole, RunningIsWhole
<1>1. ASSUME NEW p \in Procs, NEW n \in Names, BeginInstall(p, n) PROVE Rest'
  BY <1>1 DEF BeginInstall, Orphans
<1>2. ASSUME NEW p \in Procs, NEW s \in Selectors,
             BeginUninstall(p, s) \/ BeginLaunch(p, s)
      PROVE Rest'
  BY <1>2 DEF BeginUninstall, BeginLaunch, Orphans
<1>3. ASSUME NEW p \in Procs, DeleteSome(p) \/ DeleteEnds(p) PROVE Rest'
  <2>1. dir[p][2] > 0
    BY <1>3 DEF DeleteSome, DeleteEnds
  <2>2. \A n \in Names : dir[p] # <<n, 0>>
    BY <2>1
  <2>3. \A n \in Names : tree'[<<n, 0>>] = tree[<<n, 0>>]
    BY <1>3, <2>2, Directories DEF DeleteSome, DeleteEnds
  <2>4. QED
    BY <1>3, <2>3 DEF DeleteSome, DeleteEnds, AfterDelete
<1>4. ASSUME NEW p \in Procs, DeleteStops(p) \/ SweepDone(p) PROVE Rest'
  BY <1>4 DEF DeleteStops, SweepDone, AfterDelete
<1>5. ASSUME NEW p \in Procs, NEW d \in Dirs, SweepOne(p, d) PROVE Rest'
  BY <1>5 DEF SweepOne
<1>6. ASSUME NEW p \in Procs,
             \/ CheckDest(p) \/ LockFails(p) \/ TakeLock(p) \/ RecheckDest(p)
             \/ Fetch(p) \/ FetchFails(p) \/ InstallFails(p)
             \/ RemoveArchive(p) \/ ReleaseLock(p)
      PROVE Rest'
  BY <1>6 DEF CheckDest, LockFails, TakeLock, RecheckDest, Fetch, FetchFails,
     InstallFails, RemoveArchive, ReleaseLock
<1>7. ASSUME NEW p \in Procs,
             \/ CreateStaging(p) \/ CreateStagingFails(p) \/ ExtractSome(p)
             \/ ExtractRest(p) \/ DropStaging(p)
      PROVE Rest'
  <2>1. pc[p] \in LockedPCs
    BY <1>7 DEF LockedPCs, CreateStaging, CreateStagingFails, ExtractSome,
       ExtractRest, DropStaging
  <2>2. ASSUME NEW q \in Procs, q # p, pc[q] \in LockedPCs
        PROVE want[q] # want[p]
    BY <2>1, <2>2, Alone
  <2>3. QED
    BY <1>7, <2>2 DEF LockedPCs, CreateStaging, CreateStagingFails,
       ExtractSome, ExtractRest, DropStaging
<1>8. ASSUME NEW p \in Procs, MoveIn(p) PROVE Rest'
  <2>1. pc[p] = "move" /\ staging[want[p]] = "whole"
    BY <1>8 DEF MoveIn
  <2>2. ASSUME NEW q \in Procs, q # p, pc[q] \in LockedPCs
        PROVE want[q] # want[p]
    BY <2>1, <2>2, Alone DEF LockedPCs
  <2>3. Dest(p) \in Dirs /\ Dest(p) = <<want[p], 0>>
    BY Directories DEF Dest
  <2>4. CASE tree[Dest(p)] # "none"
    BY <1>8, <2>4 DEF MoveIn
  <2>5. CASE tree[Dest(p)] = "none"
    <3>1. tree' = [tree EXCEPT ![Dest(p)] = "whole"]
      BY <1>8, <2>1, <2>5 DEF MoveIn
    <3>2. \A n \in Names : tree'[<<n, 0>>] \in {tree[<<n, 0>>], "whole"}
      BY <3>1, <2>3, Directories
    <3>3. CandidatesAreWhole' /\ RunningIsWhole'
      BY <1>8, <3>2 DEF MoveIn
    <3>4. StagingIsTheHolders' /\ OnlyAsidesAreDeleted'
      BY <1>8, <2>2, <2>5 DEF MoveIn, LockedPCs
    <3>5. QED
      BY <3>3, <3>4
  <2>6. QED
    BY <2>4, <2>5
<1>9. ASSUME NEW p \in Procs, Resolve(p) \/ RenameRefused(p) PROVE Rest'
  BY <1>9 DEF Resolve, RenameRefused
<1>10. ASSUME NEW p \in Procs, RenameAside(p) PROVE Rest'
  <2>1. /\ dir[p] \in Dirs
        /\ Aside(dir[p]) \in Dirs
        /\ Aside(dir[p])[2] > 0
        /\ dir[p] \notin running
    BY <1>10, Directories DEF RenameAside
  <2>2. \A n \in Names : Aside(dir[p]) # <<n, 0>>
    BY <2>1
  <2>3. \A n \in Names :
          tree'[<<n, 0>>] = IF <<n, 0>> = dir[p] THEN "none" ELSE tree[<<n, 0>>]
    BY <1>10, <2>1, <2>2, Directories DEF RenameAside
  <2>4. CandidatesAreWhole' /\ RunningIsWhole'
    BY <1>10, <2>1, <2>3 DEF RenameAside
  <2>5. StagingIsTheHolders' /\ OnlyAsidesAreDeleted'
    BY <1>10, <2>1 DEF RenameAside
  <2>6. QED
    BY <2>4, <2>5
<1>11. ASSUME NEW p \in Procs, Start(p) PROVE Rest'
  BY <1>11 DEF Start
<1>12. ASSUME NEW d \in Dirs, Exit(d) PROVE Rest'
  BY <1>12 DEF Exit
<1>13. ASSUME NEW n \in Names, OutOfBand(n) PROVE Rest'
  <2>1. \A m \in Names : tree'[<<m, 0>>] \in {tree[<<m, 0>>], "whole"}
    BY <1>13, Directories DEF OutOfBand
  <2>2. QED
    BY <1>13, <2>1 DEF OutOfBand
<1>14. ASSUME NEW p \in Procs, Crash(p) PROVE Rest'
  BY <1>14 DEF Crash
<1>15. CASE UNCHANGED vars
  BY <1>15 DEF vars
<1>16. QED
  BY <1>1, <1>2, <1>3, <1>4, <1>5, <1>6, <1>7, <1>8, <1>9, <1>10, <1>11,
     <1>12, <1>13, <1>14, <1>15 DEF Next, InstallStep, RemoveStep

(* The invariant of the whole store holds throughout.                      *)
THEOREM StoreInvariant == Spec => []StoreInv
<1>1. Init => StoreInv
  BY Directories DEF Init, Lock!Init, StoreInv, LockHeldInside,
     StagingIsTheHolders, OnlyAsidesAreDeleted, CandidatesAreWhole,
     RunningIsWhole, LockedPCs
<1>2. TypeOK /\ StoreInv /\ [Next]_vars => StoreInv'
  BY LockStep, StoreStep DEF StoreInv
<1>3. QED
  BY <1>1, <1>2, Typing, PTL DEF Spec

(* A candidate is whole or absent in every state, whatever commands and    *)
(* crashes interleave, and stays whole under a process that runs out of it *)
(* (uninstall.rs:3-9).                                                     *)
THEOREM CandidatesAreNeverPartial ==
  Spec => [](CandidatesAreWhole /\ RunningIsWhole)
<1>1. StoreInv => CandidatesAreWhole /\ RunningIsWhole
  BY DEF StoreInv
<1>2. QED
  BY <1>1, StoreInvariant, PTL

-----------------------------------------------------------------------------
(* The store implements the atomic one: only the move of a staged JDK, the *)
(* rename-probe, a start and an exit are visible (install.rs:76,           *)
(* uninstall.rs:78).                                                       *)
THEOREM Refinement == Spec => ImplementsAtomicStore
<1> DEFINE present == {n \in Names : tree[<<n, 0>>] = "whole"}
           used    == {n \in Names : <<n, 0>> \in running}
<1>1. Init => Atomic!Init
  BY Directories DEF Init, Atomic!Init
<1>2. TypeOK /\ StoreInv /\ [Next]_vars => [Atomic!Next]_<<present, used>>
  <2> SUFFICES ASSUME TypeOK, StoreInv, [Next]_vars
               PROVE [Atomic!Next]_<<present, used>>
    OBVIOUS
  <2> USE DEF TypeOK
  <2> DEFINE Hidden == UNCHANGED <<present, used>>
  <2>1. ASSUME \A n \in Names : tree'[<<n, 0>>] = tree[<<n, 0>>],
               \A n \in Names : <<n, 0>> \in running' <=> <<n, 0>> \in running
        PROVE Hidden
    BY <2>1
  <2>2. ASSUME NEW n \in Names, tree[<<n, 0>>] # "whole",
               tree' = [tree EXCEPT ![<<n, 0>>] = "whole"], UNCHANGED running
        PROVE Atomic!Next
    <3>1. present' = present \cup {n} /\ n \notin present /\ used' = used
      BY <2>2, Directories
    <3>2. Atomic!Add(n)
      BY <3>1 DEF Atomic!Add
    <3>3. QED
      BY <3>2 DEF Atomic!Next
  <2>3. ASSUME NEW p \in Procs, NEW n \in Names, BeginInstall(p, n) PROVE Hidden
    BY <2>1, <2>3 DEF BeginInstall
  <2>4. ASSUME NEW p \in Procs, NEW s \in Selectors,
               BeginUninstall(p, s) \/ BeginLaunch(p, s)
        PROVE Hidden
    BY <2>1, <2>4 DEF BeginUninstall, BeginLaunch
  <2>5. ASSUME NEW p \in Procs, DeleteSome(p) \/ DeleteEnds(p) PROVE Hidden
    <3>1. \A n \in Names : dir[p] # <<n, 0>>
      BY <2>5 DEF StoreInv, OnlyAsidesAreDeleted, DeleteSome, DeleteEnds
    <3>2. QED
      BY <2>1, <2>5, <3>1, Directories DEF DeleteSome, DeleteEnds
  <2>6. ASSUME NEW p \in Procs, MoveIn(p) PROVE Atomic!Next \/ Hidden
    <3>1. staging[want[p]] = "whole" /\ want[p] \in Names
      BY <2>6 DEF MoveIn, StoreInv, StagingIsTheHolders
    <3>2. CASE tree[Dest(p)] = "none"
      BY <2>2, <2>6, <3>1, <3>2 DEF MoveIn, Dest
    <3>3. CASE tree[Dest(p)] # "none"
      BY <2>1, <2>6, <3>3 DEF MoveIn
    <3>4. QED
      BY <3>2, <3>3
  <2>7. ASSUME NEW p \in Procs,
               \/ CheckDest(p) \/ LockFails(p) \/ TakeLock(p) \/ RecheckDest(p)
               \/ Fetch(p) \/ FetchFails(p) \/ InstallFails(p)
               \/ RemoveArchive(p) \/ ReleaseLock(p)
        PROVE Hidden
    BY <2>1, <2>7 DEF CheckDest, LockFails, TakeLock, RecheckDest, Fetch,
       FetchFails, InstallFails, RemoveArchive, ReleaseLock
  <2>8. ASSUME NEW p \in Procs,
               \/ CreateStaging(p) \/ CreateStagingFails(p) \/ ExtractSome(p)
               \/ ExtractRest(p) \/ DropStaging(p)
        PROVE Hidden
    BY <2>1, <2>8 DEF CreateStaging, CreateStagingFails, ExtractSome,
       ExtractRest, DropStaging
  <2>9. ASSUME NEW p \in Procs,
               DeleteStops(p) \/ SweepDone(p) \/ Resolve(p) \/ RenameRefused(p)
        PROVE Hidden
    BY <2>1, <2>9 DEF DeleteStops, SweepDone, Resolve, RenameRefused
  <2>10. ASSUME NEW p \in Procs, NEW d \in Dirs, SweepOne(p, d) PROVE Hidden
    BY <2>1, <2>10 DEF SweepOne
  <2>11. ASSUME NEW p \in Procs, RenameAside(p) PROVE Atomic!Next \/ Hidden
    <3>1. /\ dir[p] \in Dirs /\ Aside(dir[p]) \in Dirs /\ Aside(dir[p])[2] > 0
          /\ dir[p] \notin running /\ tree[dir[p]] # "none"
          /\ UNCHANGED running
      BY <2>11, Directories DEF RenameAside
    <3>2. \A n \in Names : Aside(dir[p]) # <<n, 0>>
      BY <3>1
    <3>3. \A n \in Names :
            tree'[<<n, 0>>] = IF <<n, 0>> = dir[p] THEN "none" ELSE tree[<<n, 0>>]
      BY <2>11, <3>1, <3>2, Directories DEF RenameAside
    <3>4. CASE \A n \in Names : dir[p] # <<n, 0>>
      BY <2>1, <3>1, <3>3, <3>4
    <3>5. ASSUME NEW n \in Names, dir[p] = <<n, 0>> PROVE Atomic!Next
      <4>1. tree[<<n, 0>>] = "whole"
        BY <3>1, <3>5 DEF StoreInv, CandidatesAreWhole
      <4>2. present' = present \ {n} /\ n \in present \ used /\ used' = used
        BY <3>1, <3>3, <3>5, <4>1
      <4>3. Atomic!Remove(n)
        BY <4>2 DEF Atomic!Remove
      <4>4. QED
        BY <4>3 DEF Atomic!Next
    <3>6. QED
      BY <3>4, <3>5
  <2>12. ASSUME NEW p \in Procs, Start(p) PROVE Atomic!Next \/ Hidden
    <3>1. CASE running' = running \/ \A n \in Names : dir[p] # <<n, 0>>
      BY <2>1, <2>12, <3>1 DEF Start
    <3>2. ASSUME NEW n \in Names, dir[p] = <<n, 0>>, running' # running
          PROVE Atomic!Next
      <4>1. tree[<<n, 0>>] = "whole"
        BY <2>12, <3>2 DEF Start, StoreInv, CandidatesAreWhole
      <4>2. used' = used \cup {n} /\ n \in present /\ present' = present
        BY <2>12, <3>2, <4>1 DEF Start
      <4>3. Atomic!Use(n)
        BY <4>2 DEF Atomic!Use
      <4>4. QED
        BY <4>3 DEF Atomic!Next
    <3>3. QED
      BY <3>1, <3>2
  <2>13. ASSUME NEW d \in Dirs, Exit(d) PROVE Atomic!Next \/ Hidden
    <3>1. CASE \A n \in Names : d # <<n, 0>>
      BY <2>1, <2>13, <3>1 DEF Exit
    <3>2. ASSUME NEW n \in Names, d = <<n, 0>> PROVE Atomic!Next
      <4>1. used' = used \ {n} /\ n \in used /\ present' = present
        BY <2>13, <3>2 DEF Exit
      <4>2. Atomic!Unuse(n)
        BY <4>1 DEF Atomic!Unuse
      <4>3. QED
        BY <4>2 DEF Atomic!Next
    <3>3. QED
      BY <3>1, <3>2
  <2>14. ASSUME NEW n \in Names, OutOfBand(n) PROVE Atomic!Next
    BY <2>2, <2>14 DEF OutOfBand
  <2>15. ASSUME NEW p \in Procs, Crash(p) PROVE Hidden
    BY <2>1, <2>15 DEF Crash
  <2>16. CASE UNCHANGED vars
    BY <2>1, <2>16 DEF vars
  <2>17. QED
    BY <2>3, <2>4, <2>5, <2>6, <2>7, <2>8, <2>9, <2>10, <2>11, <2>12, <2>13,
       <2>14, <2>15, <2>16 DEF Next, InstallStep, RemoveStep
<1>3. QED
  BY <1>1, <1>2, Typing, StoreInvariant, PTL DEF Spec, ImplementsAtomicStore, Atomic!Spec

=============================================================================
