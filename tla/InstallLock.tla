---------------------------- MODULE InstallLock ----------------------------
(***************************************************************************)
(* The per-JDK install lock of jdk-core/src/install.rs: one lock file per  *)
(* vendor@version under cache\locks, held for the whole install, plus the  *)
(* sweep that every install runs first and that deletes the lock files     *)
(* nobody holds.                                                           *)
(*                                                                         *)
(* A lock file is an object with an identity (a member of Files): a name   *)
(* denotes a file until the file is deleted, and opening the name again    *)
(* makes another file.  Two processes that hold the locks of two different *)
(* files believe they hold the same name: that is the hazard, and the      *)
(* share mode of open_lock_file is what the code opposes to it.            *)
(***************************************************************************)
EXTENDS Naturals

CONSTANTS
    Procs,   \* the processes running `jdk install` (a CLI or a shim's child)
    Names,   \* the vendor@version names they install
    Files,   \* identities of lock files, enough that one is always unused
    NoFile   \* no file: a name without entry, a process without handle

ASSUME NoFileAssumption == NoFile \notin Files

VARIABLES
    pc,      \* where each process is in install()
    want,    \* the name each process installs
    path,    \* the file each name's `<name>.lock` denotes
    handle,  \* the one file handle a process has open in cache\locks
    todo,    \* the entries its sweep has still to visit
    at       \* the entry its sweep is visiting

vars == <<pc, want, path, handle, todo, at>>

(* Where a process holds a handle opened by open_lock_file, and where the  *)
(* lock of that handle is its own.                                         *)
Opened  == {"trying", "probed", "waiting", "locked"}
Holding == {"probed", "locked"}
PCs     == Opened \cup {"idle", "sweep", "removing", "deleting", "opening"}

TypeOK ==
    /\ pc \in [Procs -> PCs]
    /\ want \in [Procs -> Names]
    /\ path \in [Names -> Files \cup {NoFile}]
    /\ handle \in [Procs -> Files \cup {NoFile}]
    /\ todo \in [Procs -> SUBSET Names]
    /\ at \in [Procs -> Names]

Init ==
    /\ pc = [p \in Procs |-> "idle"]
    /\ want \in [Procs -> Names]
    /\ path = [n \in Names |-> NoFile]
    /\ handle = [p \in Procs |-> NoFile]
    /\ todo = [p \in Procs |-> {}]
    /\ at = want

-----------------------------------------------------------------------------
(* The file system, as open_lock_file and remove_file use it.              *)

OpenedOn(f) == \E q \in Procs : pc[q] \in Opened /\ handle[q] = f
Free(f)     == \A q \in Procs : pc[q] \in Holding => handle[q] # f
Unused(f)   == /\ \A n \in Names : path[n] # f
               /\ \A q \in Procs : handle[q] # f

(* DeleteFile holds a handle of its own, with DELETE access, from its open *)
(* to its close; an open without FILE_SHARE_DELETE is refused meanwhile.   *)
NeverBeingDeleted(f) == FALSE      \* mutant: opens share DELETE too
BeingDeleted(f) == \E q \in Procs : pc[q] = "deleting" /\ handle[q] = f

(* open_lock_file: create(true) makes the file when the name has none.     *)
OpenFile(p, n) ==
    \/ /\ path[n] \in Files
       /\ ~BeingDeleted(path[n])
       /\ handle' = [handle EXCEPT ![p] = path[n]]
       /\ path' = path
    \/ /\ path[n] = NoFile
       /\ \E f \in Files :
            /\ Unused(f)
            /\ path' = [path EXCEPT ![n] = f]
            /\ handle' = [handle EXCEPT ![p] = f]

(* DeleteFile's open: refused while somebody has the file open without     *)
(* FILE_SHARE_DELETE, which is how open_lock_file opens it.                *)
Deletable(f) == f \in Files /\ ~OpenedOn(f)

-----------------------------------------------------------------------------
(* sweep_orphan_locks, entry by entry.                                     *)

Begin(p, n) ==
    /\ pc[p] = "idle"
    /\ pc' = [pc EXCEPT ![p] = "sweep"]
    /\ want' = [want EXCEPT ![p] = n]
    /\ todo' = [todo EXCEPT ![p] = {m \in Names : path[m] # NoFile}]
    /\ UNCHANGED <<path, handle, at>>

(* Mutant: a sweep that re-reads the directory finds again what opening    *)
(* the entry put there.                                                    *)
SweepOpenRereads(p, n) ==
    /\ pc[p] = "sweep"
    /\ n \in todo[p]
    /\ OpenFile(p, n)
    /\ pc' = [pc EXCEPT ![p] = "trying"]
    /\ todo' = [todo EXCEPT ![p] = {m \in Names : path'[m] # NoFile}]
    /\ at' = [at EXCEPT ![p] = n]
    /\ UNCHANGED want

(* The entry may be gone by now: opening it makes it again.                *)
SweepOpen(p, n) ==
    /\ pc[p] = "sweep"
    /\ n \in todo[p]
    /\ OpenFile(p, n)
    /\ pc' = [pc EXCEPT ![p] = "trying"]
    /\ todo' = [todo EXCEPT ![p] = @ \ {n}]
    /\ at' = [at EXCEPT ![p] = n]
    /\ UNCHANGED want

SweepOpenRefused(p, n) ==
    /\ pc[p] = "sweep"
    /\ n \in todo[p]
    /\ path[n] \in Files
    /\ BeingDeleted(path[n])
    /\ todo' = [todo EXCEPT ![p] = @ \ {n}]
    /\ UNCHANGED <<pc, want, path, handle, at>>

TryLock(p) ==
    /\ pc[p] = "trying"
    /\ Free(handle[p])
    /\ pc' = [pc EXCEPT ![p] = "probed"]
    /\ UNCHANGED <<want, path, handle, todo, at>>

TryLockRefused(p) ==
    /\ pc[p] = "trying"
    /\ ~Free(handle[p])
    /\ pc' = [pc EXCEPT ![p] = "sweep"]
    /\ handle' = [handle EXCEPT ![p] = NoFile]
    /\ UNCHANGED <<want, path, todo, at>>

(* drop(file): the probe's lock goes with its handle, before the delete.   *)
DropProbe(p) ==
    /\ pc[p] = "probed"
    /\ pc' = [pc EXCEPT ![p] = "removing"]
    /\ handle' = [handle EXCEPT ![p] = NoFile]
    /\ UNCHANGED <<want, path, todo, at>>

StartDelete(p) ==
    /\ pc[p] = "removing"
    /\ Deletable(path[at[p]])
    /\ pc' = [pc EXCEPT ![p] = "deleting"]
    /\ handle' = [handle EXCEPT ![p] = path[at[p]]]
    /\ UNCHANGED <<want, path, todo, at>>

DeleteRefused(p) ==
    /\ pc[p] = "removing"
    /\ ~Deletable(path[at[p]])
    /\ pc' = [pc EXCEPT ![p] = "sweep"]
    /\ UNCHANGED <<want, path, handle, todo, at>>

(* The delete handle closes and takes the directory entry with it.         *)
Unlinked(f) == [n \in Names |-> IF path[n] = f THEN NoFile ELSE path[n]]

FinishDelete(p) ==
    /\ pc[p] = "deleting"
    /\ path' = Unlinked(handle[p])
    /\ pc' = [pc EXCEPT ![p] = "sweep"]
    /\ handle' = [handle EXCEPT ![p] = NoFile]
    /\ UNCHANGED <<want, todo, at>>

SweepDone(p) ==
    /\ pc[p] = "sweep"
    /\ todo[p] = {}
    /\ pc' = [pc EXCEPT ![p] = "opening"]
    /\ UNCHANGED <<want, path, handle, todo, at>>

-----------------------------------------------------------------------------
(* InstallLock::acquire, the install it protects, and its release.         *)

AcquireOpen(p) ==
    /\ pc[p] = "opening"
    /\ OpenFile(p, want[p])
    /\ pc' = [pc EXCEPT ![p] = "waiting"]
    /\ UNCHANGED <<want, todo, at>>

(* A sharing violation against another sweep's delete fails the install.   *)
AcquireOpenRefused(p) ==
    /\ pc[p] = "opening"
    /\ path[want[p]] \in Files
    /\ BeingDeleted(path[want[p]])
    /\ pc' = [pc EXCEPT ![p] = "idle"]
    /\ UNCHANGED <<want, path, handle, todo, at>>

(* Mutant: acquire goes on whether or not the lock was granted.            *)
AcquireUnlocked(p) ==
    /\ pc[p] = "waiting"
    /\ pc' = [pc EXCEPT ![p] = "locked"]
    /\ UNCHANGED <<want, path, handle, todo, at>>

AcquireLock(p) ==
    /\ pc[p] = "waiting"
    /\ Free(handle[p])
    /\ pc' = [pc EXCEPT ![p] = "locked"]
    /\ UNCHANGED <<want, path, handle, todo, at>>

Release(p) ==
    /\ pc[p] = "locked"
    /\ pc' = [pc EXCEPT ![p] = "idle"]
    /\ handle' = [handle EXCEPT ![p] = NoFile]
    /\ UNCHANGED <<want, path, todo, at>>

(* The process dies: Windows closes its handles, which releases its lock   *)
(* and, if the delete's disposition was already set, completes the delete. *)
Crash(p) ==
    /\ pc[p] # "idle"
    /\ pc' = [pc EXCEPT ![p] = "idle"]
    /\ handle' = [handle EXCEPT ![p] = NoFile]
    /\ \/ path' = path
       \/ pc[p] = "deleting" /\ path' = Unlinked(handle[p])
    /\ UNCHANGED <<want, todo, at>>

-----------------------------------------------------------------------------

Step(p) ==
    \/ \E n \in Names : SweepOpen(p, n) \/ SweepOpenRefused(p, n)
    \/ TryLock(p) \/ TryLockRefused(p) \/ DropProbe(p)
    \/ StartDelete(p) \/ DeleteRefused(p) \/ FinishDelete(p)
    \/ SweepDone(p)
    \/ AcquireOpen(p) \/ AcquireOpenRefused(p)
    \/ AcquireLock(p)
    \/ Release(p)

Next ==
    \E p \in Procs :
        \/ \E n \in Names : Begin(p, n)
        \/ Step(p)
        \/ Crash(p)

Spec == Init /\ [][Next]_vars

(* A process that is alive keeps running; LockFileEx queues its waiters,   *)
(* so a waiter is not overtaken for ever (strong fairness of AcquireLock). *)
(* Nobody is obliged to start an install, and nobody to crash.             *)
Fairness == \A p \in Procs : WF_vars(Step(p)) /\ SF_vars(AcquireLock(p))

FairSpec == Spec /\ Fairness

-----------------------------------------------------------------------------
(* Properties.                                                             *)

Inside(n) == {p \in Procs : pc[p] = "locked" /\ want[p] = n}

(* Two installs of one vendor@version are never both past the lock,        *)
(* whatever sweeps and crashes run beside them (install.rs:88-91).         *)
MutualExclusion ==
    \A p, q \in Procs :
        (/\ pc[p] = "locked"
         /\ pc[q] = "locked"
         /\ want[p] = want[q]) => p = q

(* A process that waits for or holds the lock of a name has open the very  *)
(* file the name denotes: no sweep deletes a lock file in use, and nobody  *)
(* waits on a file no later comer will open (install.rs:118-120).          *)
WaitsOnTheNamedFile ==
    \A p \in Procs :
        pc[p] \in {"waiting", "locked"} => handle[p] = path[want[p]]

(* The inductive invariant behind the two: who has which file open.        *)
NamesDistinctFiles ==
    \A m, n \in Names : path[m] \in Files /\ path[m] = path[n] => m = n

HandlesNameTheirFile ==
    \A p \in Procs :
        /\ pc[p] \in Opened \cup {"deleting"} => handle[p] \in Files
        /\ pc[p] \in {"trying", "probed"} => handle[p] = path[at[p]]
        /\ pc[p] \in {"waiting", "locked"} => handle[p] = path[want[p]]

NobodyDeletesAnOpenFile ==
    \A p, q \in Procs :
        pc[p] \in Opened /\ pc[q] = "deleting" => handle[p] # handle[q]

OneHolderPerFile ==
    \A p, q \in Procs :
        (/\ pc[p] \in Holding
         /\ pc[q] \in Holding
         /\ handle[p] = handle[q]) => p = q

LockInv ==
    /\ NamesDistinctFiles
    /\ HandlesNameTheirFile
    /\ NobodyDeletesAnOpenFile
    /\ OneHolderPerFile

(* Every install that begins comes to an end, with the lock or refused:    *)
(* no sweep, waiter or crashed holder blocks the others for ever.          *)
EveryInstallEnds ==
    \A p \in Procs : pc[p] # "idle" ~> pc[p] = "idle"

(* What the rest of the install relies on: a mutex per name.               *)
Mutex == INSTANCE NameMutex
            WITH inside <- [n \in Names |-> Inside(n)]
ImplementsNameMutex == Mutex!Spec

=============================================================================
