------------------------- MODULE InstallLock_proofs -------------------------
(***************************************************************************)
(* Mutual exclusion of the install lock, for any number of processes and   *)
(* names.  The invariant is LockInv: an open lock file is the one its name *)
(* denotes, and no delete is in progress on it.                            *)
(***************************************************************************)
EXTENDS InstallLock, TLAPS

(* Every variable of the lock keeps its type (install.rs:96-138).          *)
THEOREM Typing == Spec => []TypeOK
<1>1. Init => TypeOK
  BY DEF Init, TypeOK, PCs
<1>2. TypeOK /\ [Next]_vars => TypeOK'
  <2> SUFFICES ASSUME TypeOK, [Next]_vars PROVE TypeOK'
    OBVIOUS
  <2> USE DEF TypeOK, PCs, Opened
  <2>1. ASSUME NEW p \in Procs, NEW n \in Names, Begin(p, n) PROVE TypeOK'
    BY <2>1 DEF Begin
  <2>2. ASSUME NEW p \in Procs, NEW n \in Names, SweepOpen(p, n) PROVE TypeOK'
    BY <2>2 DEF SweepOpen, OpenFile
  <2>3. ASSUME NEW p \in Procs, NEW n \in Names, SweepOpenRefused(p, n)
        PROVE TypeOK'
    BY <2>3 DEF SweepOpenRefused
  <2>4. ASSUME NEW p \in Procs, TryLock(p) \/ TryLockRefused(p) PROVE TypeOK'
    BY <2>4 DEF TryLock, TryLockRefused
  <2>5. ASSUME NEW p \in Procs, DropProbe(p) \/ SweepDone(p) PROVE TypeOK'
    BY <2>5 DEF DropProbe, SweepDone
  <2>6. ASSUME NEW p \in Procs, StartDelete(p) \/ DeleteRefused(p) PROVE TypeOK'
    BY <2>6 DEF StartDelete, DeleteRefused
  <2>7. ASSUME NEW p \in Procs, FinishDelete(p) PROVE TypeOK'
    BY <2>7 DEF FinishDelete, Unlinked
  <2>8. ASSUME NEW p \in Procs, AcquireOpen(p) PROVE TypeOK'
    BY <2>8 DEF AcquireOpen, OpenFile
  <2>9. ASSUME NEW p \in Procs, AcquireOpenRefused(p) \/ AcquireLock(p)
        PROVE TypeOK'
    BY <2>9 DEF AcquireOpenRefused, AcquireLock
  <2>10. ASSUME NEW p \in Procs, Release(p) PROVE TypeOK'
    BY <2>10 DEF Release
  <2>11. ASSUME NEW p \in Procs, Crash(p) PROVE TypeOK'
    BY <2>11 DEF Crash, Unlinked
  <2>12. CASE UNCHANGED vars
    BY <2>12 DEF vars
  <2>13. QED
    BY <2>1, <2>2, <2>3, <2>4, <2>5, <2>6, <2>7, <2>8, <2>9, <2>10, <2>11,
       <2>12 DEF Next, Step
<1>3. QED
  BY <1>1, <1>2, PTL DEF Spec

-----------------------------------------------------------------------------
(* Opening a name gives the file the name then denotes, which is nobody's  *)
(* to delete, and leaves every other name and handle alone.                *)
LEMMA Opening ==
  ASSUME TypeOK, LockInv, NEW p \in Procs, NEW n \in Names, OpenFile(p, n)
  PROVE  /\ path'[n] \in Files
         /\ handle' = [handle EXCEPT ![p] = path'[n]]
         /\ \A m \in Names : path[m] \in Files => path'[m] = path[m]
         /\ \A m \in Names : m # n => path'[m] = path[m]
         /\ \A m \in Names : m # n => path'[m] # path'[n]
         /\ \A q \in Procs : pc[q] = "deleting" => handle[q] # path'[n]
         /\ \A q \in Procs : pc[q] \in Opened /\ handle[q] = path'[n]
                => path' = path
BY NoFileAssumption
   DEF OpenFile, Unused, BeingDeleted, TypeOK, LockInv, NamesDistinctFiles

(* The invariant that rules out a lock on a deleted file is preserved by   *)
(* every step of every process (install.rs:104-138).                       *)
LEMMA LockInvInductive == TypeOK /\ LockInv /\ [Next]_vars => LockInv'
<1> SUFFICES ASSUME TypeOK, LockInv, [Next]_vars PROVE LockInv'
  OBVIOUS
<1> USE NoFileAssumption
<1>1. ASSUME NEW p \in Procs, NEW n \in Names, Begin(p, n) PROVE LockInv'
  BY <1>1 DEF Begin, TypeOK, Opened, Holding, LockInv, NamesDistinctFiles,
     HandlesNameTheirFile, NobodyDeletesAnOpenFile, OneHolderPerFile
<1>2. ASSUME NEW p \in Procs, NEW n \in Names, SweepOpen(p, n) PROVE LockInv'
  <2> USE <1>2 DEF SweepOpen, Opened, Holding, TypeOK
  <2>1. OpenFile(p, n)
    OBVIOUS
  <2>2. NamesDistinctFiles'
    BY <2>1, Opening DEF LockInv, NamesDistinctFiles
  <2>3. HandlesNameTheirFile'
    BY <2>1, Opening DEF LockInv, HandlesNameTheirFile
  <2>4. NobodyDeletesAnOpenFile'
    BY <2>1, Opening DEF LockInv, NobodyDeletesAnOpenFile
  <2>5. OneHolderPerFile'
    BY <2>1, Opening DEF LockInv, OneHolderPerFile
  <2>6. QED
    BY <2>2, <2>3, <2>4, <2>5 DEF LockInv
<1>3. ASSUME NEW p \in Procs, NEW n \in Names, SweepOpenRefused(p, n)
      PROVE LockInv'
  BY <1>3 DEF SweepOpenRefused, LockInv, NamesDistinctFiles,
     HandlesNameTheirFile, NobodyDeletesAnOpenFile, OneHolderPerFile
<1>4. ASSUME NEW p \in Procs,
             TryLock(p) \/ TryLockRefused(p) \/ DropProbe(p) \/ SweepDone(p)
      PROVE LockInv'
  BY <1>4 DEF TryLock, TryLockRefused, DropProbe, SweepDone, Free, TypeOK,
     Opened, Holding, LockInv, NamesDistinctFiles, HandlesNameTheirFile,
     NobodyDeletesAnOpenFile, OneHolderPerFile
<1>5. ASSUME NEW p \in Procs, StartDelete(p) \/ DeleteRefused(p)
      PROVE LockInv'
  BY <1>5 DEF StartDelete, DeleteRefused, Deletable, OpenedOn, TypeOK,
     Opened, Holding, LockInv, NamesDistinctFiles, HandlesNameTheirFile,
     NobodyDeletesAnOpenFile, OneHolderPerFile
<1>6. ASSUME NEW p \in Procs, pc[p] = "deleting", path' = Unlinked(handle[p]),
             pc'[p] \notin Opened \cup {"deleting"},
             \A q \in Procs : q # p => pc'[q] = pc[q] /\ handle'[q] = handle[q],
             UNCHANGED <<want, at>>
      PROVE LockInv'
  BY <1>6 DEF Unlinked, TypeOK, Opened, Holding, LockInv, NamesDistinctFiles,
     HandlesNameTheirFile, NobodyDeletesAnOpenFile, OneHolderPerFile
<1>7. ASSUME NEW p \in Procs, FinishDelete(p) PROVE LockInv'
  BY <1>6, <1>7 DEF FinishDelete, TypeOK, Opened
<1>8. ASSUME NEW p \in Procs, AcquireOpen(p) PROVE LockInv'
  <2> USE <1>8 DEF AcquireOpen, Opened, Holding, TypeOK
  <2>1. OpenFile(p, want[p]) /\ want[p] \in Names
    OBVIOUS
  <2>2. NamesDistinctFiles'
    BY <2>1, Opening DEF LockInv, NamesDistinctFiles
  <2>3. HandlesNameTheirFile'
    BY <2>1, Opening DEF LockInv, HandlesNameTheirFile
  <2>4. NobodyDeletesAnOpenFile'
    BY <2>1, Opening DEF LockInv, NobodyDeletesAnOpenFile
  <2>5. OneHolderPerFile'
    BY <2>1, Opening DEF LockInv, OneHolderPerFile
  <2>6. QED
    BY <2>2, <2>3, <2>4, <2>5 DEF LockInv
<1>9. ASSUME NEW p \in Procs,
             AcquireOpenRefused(p) \/ AcquireLock(p) \/ Release(p)
      PROVE LockInv'
  BY <1>9 DEF AcquireOpenRefused, AcquireLock, Release, Free, TypeOK, Opened,
     Holding, LockInv, NamesDistinctFiles, HandlesNameTheirFile,
     NobodyDeletesAnOpenFile, OneHolderPerFile
<1>10. ASSUME NEW p \in Procs, Crash(p) PROVE LockInv'
  <2>1. CASE path' = path
    BY <1>10, <2>1 DEF Crash, TypeOK, Opened, Holding, LockInv,
       NamesDistinctFiles, HandlesNameTheirFile, NobodyDeletesAnOpenFile,
       OneHolderPerFile
  <2>2. CASE pc[p] = "deleting" /\ path' = Unlinked(handle[p])
    BY <1>6, <1>10, <2>2 DEF Crash, TypeOK, Opened
  <2>3. QED
    BY <1>10, <2>1, <2>2 DEF Crash
<1>11. CASE UNCHANGED vars
  BY <1>11 DEF vars, LockInv, NamesDistinctFiles, HandlesNameTheirFile,
     NobodyDeletesAnOpenFile, OneHolderPerFile
<1>12. QED
  BY <1>1, <1>2, <1>3, <1>4, <1>5, <1>7, <1>8, <1>9, <1>10, <1>11
     DEF Next, Step

(* LockInv holds throughout (install.rs:88-138).                           *)
THEOREM LockInvariant == Spec => []LockInv
<1>1. Init => LockInv
  BY NoFileAssumption DEF Init, Opened, Holding, LockInv, NamesDistinctFiles,
     HandlesNameTheirFile, NobodyDeletesAnOpenFile, OneHolderPerFile
<1>2. QED
  BY <1>1, LockInvInductive, Typing, PTL DEF Spec

(* The lock the sweep cannot break: for any processes and names, the file  *)
(* waited on is the named one, and two installs of one name are never both *)
(* inside (install.rs:88-91, 118-120).                                     *)
THEOREM MutualExclusionHolds == Spec => [](MutualExclusion /\ WaitsOnTheNamedFile)
<1>1. LockInv => MutualExclusion /\ WaitsOnTheNamedFile
  BY DEF LockInv, HandlesNameTheirFile, OneHolderPerFile, Opened, Holding,
     MutualExclusion, WaitsOnTheNamedFile
<1>2. QED
  BY <1>1, LockInvariant, PTL

-----------------------------------------------------------------------------
(* Seen from outside, the lock file protocol is a mutex per name: a step   *)
(* that obtains the lock enters a free name, a step that ends an install   *)
(* leaves it, and sweeping, opening and waiting are stutters.              *)
THEOREM Refinement == Spec => ImplementsNameMutex
<1> DEFINE in == [n \in Names |-> Inside(n)]
<1> USE DEF Inside
<1>1. Init => Mutex!Init
  BY DEF Init, Mutex!Init
<1>2. TypeOK /\ MutualExclusion /\ MutualExclusion' /\ [Next]_vars
        => [Mutex!Next]_in
  <2> SUFFICES ASSUME TypeOK, MutualExclusion, MutualExclusion', [Next]_vars
               PROVE [Mutex!Next]_in
    OBVIOUS
  <2> USE DEF TypeOK
  <2>1. ASSUME NEW p \in Procs,
               pc[p] # "locked", pc'[p] # "locked",
               \A q \in Procs : q # p => /\ pc'[q] = pc[q]
                                        /\ want'[q] = want[q]
        PROVE UNCHANGED in
    BY <2>1
  <2>2. ASSUME NEW p \in Procs, AcquireLock(p) PROVE Mutex!Next
    <3>1. PICK n \in Names : n = want[p]
      OBVIOUS
    <3>2. ASSUME NEW m \in Names PROVE in'[m] = IF m = n THEN {p} ELSE in[m]
      <4>1. CASE m = n
        BY <2>2, <3>1, <4>1 DEF AcquireLock, MutualExclusion
      <4>2. CASE m # n
        BY <2>2, <3>1, <4>2 DEF AcquireLock
      <4>3. QED
        BY <4>1, <4>2
    <3>3. in' = [in EXCEPT ![n] = {p}]
      BY <3>2
    <3>4. in[n] = {}
      BY <2>2, <3>1 DEF AcquireLock, MutualExclusion
    <3>5. \A m \in Names : p \notin in[m]
      BY <2>2 DEF AcquireLock
    <3>6. Mutex!Enter(p, n)
      BY <3>3, <3>4, <3>5 DEF Mutex!Enter
    <3>7. QED
      BY <3>6 DEF Mutex!Next
  <2>3. ASSUME NEW p \in Procs, pc[p] = "locked", pc'[p] = "idle",
               \A q \in Procs : q # p => pc'[q] = pc[q],
               UNCHANGED want
        PROVE Mutex!Next
    <3>1. PICK n \in Names : n = want[p]
      OBVIOUS
    <3>2. ASSUME NEW m \in Names PROVE in'[m] = IF m = n THEN {} ELSE in[m]
      <4>1. CASE m = n
        BY <2>3, <3>1, <4>1 DEF MutualExclusion
      <4>2. CASE m # n
        BY <2>3, <3>1, <4>2
      <4>3. QED
        BY <4>1, <4>2
    <3>3. in' = [in EXCEPT ![n] = {}]
      BY <3>2
    <3>4. p \in in[n]
      BY <2>3, <3>1
    <3>5. Mutex!Leave(p, n)
      BY <3>3, <3>4 DEF Mutex!Leave
    <3>6. QED
      BY <3>5 DEF Mutex!Next
  <2>4. ASSUME NEW p \in Procs, NEW n \in Names,
               Begin(p, n) \/ SweepOpen(p, n) \/ SweepOpenRefused(p, n)
        PROVE UNCHANGED in
    BY <2>1, <2>4 DEF Begin, SweepOpen, SweepOpenRefused
  <2>5. ASSUME NEW p \in Procs,
               \/ TryLock(p) \/ TryLockRefused(p) \/ DropProbe(p)
               \/ StartDelete(p) \/ DeleteRefused(p) \/ FinishDelete(p)
               \/ SweepDone(p) \/ AcquireOpen(p) \/ AcquireOpenRefused(p)
        PROVE UNCHANGED in
    BY <2>1, <2>5 DEF TryLock, TryLockRefused, DropProbe, StartDelete,
       DeleteRefused, FinishDelete, SweepDone, AcquireOpen,
       AcquireOpenRefused
  <2>6. ASSUME NEW p \in Procs, Release(p) PROVE Mutex!Next
    BY <2>3, <2>6 DEF Release
  <2>7. ASSUME NEW p \in Procs, Crash(p) PROVE Mutex!Next \/ UNCHANGED in
    BY <2>1, <2>3, <2>7 DEF Crash
  <2>8. CASE UNCHANGED vars
    BY <2>8 DEF vars
  <2>9. QED
    BY <2>2, <2>4, <2>5, <2>6, <2>7, <2>8 DEF Next, Step
<1>3. QED
  BY <1>1, <1>2, Typing, MutualExclusionHolds, PTL DEF Spec, ImplementsNameMutex, Mutex!Spec

=============================================================================
