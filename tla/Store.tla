------------------------------- MODULE Store -------------------------------
(***************************************************************************)
(* The store of installed JDKs, candidates\java, under concurrent commands *)
(* that may die at any step: `jdk install` (jdk-core/src/install.rs),      *)
(* `jdk uninstall` with its rename-probe and its orphan sweep              *)
(* (jdk/src/uninstall.rs), and the shim that resolves a selector against   *)
(* the directory listing (jdk-resolve/src/store.rs) and launches java.     *)
(*                                                                         *)
(* A directory of candidates\java is <<n, k>>: the name n = vendor@version *)
(* with `.removing` appended k times.  <<n, 0>> is the candidate itself.   *)
(* The lock of install() is the mutex per name that InstallLock implements.*)
(***************************************************************************)
EXTENDS Naturals, FiniteSets

CONSTANTS
    Procs,      \* the processes running a command
    Names,      \* vendor@version names
    Kind,       \* what each name's version looks like: see Kinds
    Rank,       \* the order of the names' versions (Version::cmp)
    Selectors,  \* the selectors typed: the set of names each one covers
    MaxLevel    \* a bound: how often `.removing` is appended

(* A version is plain (21.0.4), carries a build (21.0.5+11) or is an early *)
(* access pre-release (24-ea+2).                                           *)
Kinds == {"plain", "build", "ea"}

ASSUME StoreAssumption ==
    /\ Kind \in [Names -> Kinds]
    /\ Rank \in [Names -> Nat]
    /\ \A m, n \in Names : Rank[m] = Rank[n] => m = n
    /\ Selectors \subseteq SUBSET Names
    /\ MaxLevel \in Nat

VARIABLES
    tree,       \* what each directory of candidates\java holds
    staging,    \* what cache\staging\<name> holds
    archive,    \* the names whose archive is in cache\downloads, verified
    running,    \* the directories a live process has a handle in
    inside,     \* the holders of each name's install lock
    pc, op,     \* what each process is doing, for which command
    want,       \* the name an install is about
    sel,        \* the selector of an uninstall or a launch
    dir,        \* the directory an uninstall, a sweep or a launch works on
    todo        \* the orphans a sweep has still to visit

vars == <<tree, staging, archive, running, inside, pc, op, want, sel, dir, todo>>

Levels == 0 .. MaxLevel
Dirs   == Names \X Levels

(* A JDK's files: none; an empty directory; some of them; all of them; or  *)
(* those of two extractions over one another.                              *)
Trees == {"none", "empty", "partial", "whole", "mixed"}

Commands == {"install", "uninstall", "launch"}

(* The steps of install() that hold the lock.                              *)
LockedPCs ==
    {"recheck", "fetch", "clear", "extract", "extracting", "move", "unstage",
     "tidy", "abort", "leave"}
PCs == LockedPCs \cup
    {"idle", "sweep", "sweeping", "check", "lock", "resolve", "rename",
     "removing", "start"}

Lock == INSTANCE NameMutex

TypeOK ==
    /\ tree \in [Dirs -> Trees]
    /\ staging \in [Names -> Trees]
    /\ archive \subseteq Names
    /\ running \subseteq Dirs
    /\ inside \in [Names -> SUBSET Procs]
    /\ pc \in [Procs -> PCs]
    /\ op \in [Procs -> Commands]
    /\ want \in [Procs -> Names]
    /\ sel \in [Procs -> SUBSET Names]
    /\ dir \in [Procs -> Dirs]
    /\ todo \in [Procs -> SUBSET Dirs]

Init ==
    /\ tree = [d \in Dirs |-> "none"]
    /\ staging = [n \in Names |-> "none"]
    /\ archive = {}
    /\ running = {}
    /\ Lock!Init
    /\ pc = [p \in Procs |-> "idle"]
    /\ op = [p \in Procs |-> "install"]
    /\ \E n \in Names :
         /\ want = [p \in Procs |-> n]
         /\ dir = [p \in Procs |-> <<n, 0>>]
    /\ sel = [p \in Procs |-> {}]
    /\ todo = [p \in Procs |-> {}]

-----------------------------------------------------------------------------
(* Resolution: store::installed and best_candidate.                        *)

(* A directory name counts when what follows the @ parses as a version.    *)
(* `21.0.4.removing` does not parse, since its last component is no number;*)
(* `21.0.5+11.removing` and `24-ea+2.removing` do, as pre-releases.        *)
Parses(d) == d[2] = 0 \/ Kind[d[1]] # "plain"

Installed == {d \in Dirs : tree[d] # "none" /\ Parses(d)}

Stable(d) == d[2] = 0 /\ Kind[d[1]] # "ea"

(* rank: stable beats pre-release, then the higher version.  Of two        *)
(* pre-releases of one release the longer text is the higher.              *)
RanksAbove(d, e) ==
    \/ Stable(d) /\ ~Stable(e)
    \/ /\ Stable(d) = Stable(e)
       /\ \/ Rank[d[1]] > Rank[e[1]]
          \/ d[1] = e[1] /\ d[2] > e[2]

Matching(names) == {d \in Installed : d[1] \in names}

Best(names) ==
    {d \in Matching(names) :
        \A e \in Matching(names) : e # d => RanksAbove(d, e)}

-----------------------------------------------------------------------------
(* A command begins.  Every command of the CLI sweeps first; the shim does *)
(* not.                                                                    *)

(* Mutant: the sweep does not look at the directory's suffix.              *)
AllDirectories == {d \in Dirs : tree[d] # "none"}

Orphans == {d \in Dirs : d[2] > 0 /\ tree[d] # "none"}

BeginInstall(p, n) ==
    /\ pc[p] = "idle"
    /\ pc' = [pc EXCEPT ![p] = "sweep"]
    /\ op' = [op EXCEPT ![p] = "install"]
    /\ want' = [want EXCEPT ![p] = n]
    /\ todo' = [todo EXCEPT ![p] = Orphans]
    /\ UNCHANGED <<tree, staging, archive, running, inside, sel, dir>>

BeginUninstall(p, s) ==
    /\ pc[p] = "idle"
    /\ pc' = [pc EXCEPT ![p] = "sweep"]
    /\ op' = [op EXCEPT ![p] = "uninstall"]
    /\ sel' = [sel EXCEPT ![p] = s]
    /\ todo' = [todo EXCEPT ![p] = Orphans]
    /\ UNCHANGED <<tree, staging, archive, running, inside, want, dir>>

BeginLaunch(p, s) ==
    /\ pc[p] = "idle"
    /\ pc' = [pc EXCEPT ![p] = "resolve"]
    /\ op' = [op EXCEPT ![p] = "launch"]
    /\ sel' = [sel EXCEPT ![p] = s]
    /\ UNCHANGED <<tree, staging, archive, running, inside, want, dir, todo>>

-----------------------------------------------------------------------------
(* remove_dir_all of dir[p], from a sweep or from an uninstall: file after *)
(* file, up to the first one a process holds.  Files nobody has mapped go, *)
(* whether or not a process runs in the directory.                         *)

AfterDelete(p) == IF pc[p] = "sweeping" THEN "sweep" ELSE "idle"

DeleteSome(p) ==
    /\ pc[p] \in {"sweeping", "removing"}
    /\ tree[dir[p]] # "none"
    /\ tree' = [tree EXCEPT ![dir[p]] = "partial"]
    /\ UNCHANGED <<staging, archive, running, inside, pc, op, want, sel, dir, todo>>

DeleteEnds(p) ==
    /\ pc[p] \in {"sweeping", "removing"}
    /\ dir[p] \notin running
    /\ tree' = [tree EXCEPT ![dir[p]] = "none"]
    /\ pc' = [pc EXCEPT ![p] = AfterDelete(p)]
    /\ UNCHANGED <<staging, archive, running, inside, op, want, sel, dir, todo>>

(* In use, or another error: the sweep ignores it, the uninstall reports   *)
(* Deferred or fails.                                                      *)
DeleteStops(p) ==
    /\ pc[p] \in {"sweeping", "removing"}
    /\ pc' = [pc EXCEPT ![p] = AfterDelete(p)]
    /\ UNCHANGED <<tree, staging, archive, running, inside, op, want, sel, dir, todo>>

(* sweep_orphans, entry by entry.                                          *)
SweepOne(p, d) ==
    /\ pc[p] = "sweep"
    /\ d \in todo[p]
    /\ pc' = [pc EXCEPT ![p] = "sweeping"]
    /\ dir' = [dir EXCEPT ![p] = d]
    /\ todo' = [todo EXCEPT ![p] = @ \ {d}]
    /\ UNCHANGED <<tree, staging, archive, running, inside, op, want, sel>>

SweepDone(p) ==
    /\ pc[p] = "sweep"
    /\ todo[p] = {}
    /\ pc' = [pc EXCEPT ![p] = IF op[p] = "install" THEN "check" ELSE "resolve"]
    /\ UNCHANGED <<tree, staging, archive, running, inside, op, want, sel, dir, todo>>

-----------------------------------------------------------------------------
(* install().                                                              *)

Dest(p) == <<want[p], 0>>

CheckDest(p) ==
    /\ pc[p] = "check"
    /\ pc' = [pc EXCEPT ![p] = IF tree[Dest(p)] # "none" THEN "idle" ELSE "lock"]
    /\ UNCHANGED <<tree, staging, archive, running, inside, op, want, sel, dir, todo>>

(* The lock file cannot be opened: the install fails.                      *)
LockFails(p) ==
    /\ pc[p] = "lock"
    /\ pc' = [pc EXCEPT ![p] = "idle"]
    /\ UNCHANGED <<tree, staging, archive, running, inside, op, want, sel, dir, todo>>

TakeLock(p) ==
    /\ pc[p] = "lock"
    /\ Lock!Enter(p, want[p])
    /\ pc' = [pc EXCEPT ![p] = "recheck"]
    /\ UNCHANGED <<tree, staging, archive, running, op, want, sel, dir, todo>>

RecheckDest(p) ==
    /\ pc[p] = "recheck"
    /\ pc' = [pc EXCEPT ![p] = IF tree[Dest(p)] # "none" THEN "leave" ELSE "fetch"]
    /\ UNCHANGED <<tree, staging, archive, running, inside, op, want, sel, dir, todo>>

(* fetch_archive returns with the verified archive in place.               *)
Fetch(p) ==
    /\ pc[p] = "fetch"
    /\ archive' = archive \cup {want[p]}
    /\ pc' = [pc EXCEPT ![p] = "clear"]
    /\ UNCHANGED <<tree, staging, running, inside, op, want, sel, dir, todo>>

FetchFails(p) ==
    /\ pc[p] = "fetch"
    /\ pc' = [pc EXCEPT ![p] = "leave"]
    /\ UNCHANGED <<tree, staging, archive, running, inside, op, want, sel, dir, todo>>

(* Staging::create: leftovers of a crashed run are removed first.          *)
CreateStaging(p) ==
    /\ pc[p] = "clear"
    /\ staging' = [staging EXCEPT ![want[p]] = "empty"]
    /\ pc' = [pc EXCEPT ![p] = "extract"]
    /\ UNCHANGED <<tree, archive, running, inside, op, want, sel, dir, todo>>

(* The leftovers cannot be removed, all or some: no guard exists yet.      *)
CreateStagingFails(p) ==
    /\ pc[p] = "clear"
    /\ staging' = [staging EXCEPT ![want[p]] = IF @ = "none" THEN @ ELSE "partial"]
    /\ pc' = [pc EXCEPT ![p] = "leave"]
    /\ UNCHANGED <<tree, archive, running, inside, op, want, sel, dir, todo>>

ExtractSome(p) ==
    /\ pc[p] = "extract"
    /\ staging' = [staging EXCEPT
                      ![want[p]] = IF @ = "empty" THEN "partial" ELSE "mixed"]
    /\ pc' = [pc EXCEPT ![p] = "extracting"]
    /\ UNCHANGED <<tree, archive, running, inside, op, want, sel, dir, todo>>

ExtractRest(p) ==
    /\ pc[p] = "extracting"
    /\ staging' = [staging EXCEPT
                      ![want[p]] = IF @ = "partial" THEN "whole" ELSE "mixed"]
    /\ pc' = [pc EXCEPT ![p] = "move"]
    /\ UNCHANGED <<tree, archive, running, inside, op, want, sel, dir, todo>>

(* extract_zip, find_jdk_root or the rename fails: the guard is dropped.   *)
InstallFails(p) ==
    /\ pc[p] \in {"extract", "extracting", "move"}
    /\ pc' = [pc EXCEPT ![p] = "abort"]
    /\ UNCHANGED <<tree, staging, archive, running, inside, op, want, sel, dir, todo>>

(* fs::rename refuses to move a directory over one that exists: an         *)
(* out-of-band install won, and the guard is dropped.                      *)
MoveIn(p) ==
    /\ pc[p] = "move"
    /\ \/ /\ tree[Dest(p)] = "none"
          /\ tree' = [tree EXCEPT ![Dest(p)] = staging[want[p]]]
          /\ staging' = [staging EXCEPT ![want[p]] = "empty"]
          /\ pc' = [pc EXCEPT ![p] = "unstage"]
       \/ /\ tree[Dest(p)] # "none"
          /\ pc' = [pc EXCEPT ![p] = "abort"]
          /\ UNCHANGED <<tree, staging>>
    /\ UNCHANGED <<archive, running, inside, op, want, sel, dir, todo>>

(* drop(staging): remove_dir_all, whose errors are ignored.                *)
DropStaging(p) ==
    /\ pc[p] \in {"unstage", "abort"}
    /\ \/ staging' = [staging EXCEPT ![want[p]] = "none"]
       \/ staging' = [staging EXCEPT ![want[p]] = "partial"]
    /\ pc' = [pc EXCEPT ![p] = IF pc[p] = "unstage" THEN "tidy" ELSE "leave"]
    /\ UNCHANGED <<tree, archive, running, inside, op, want, sel, dir, todo>>

RemoveArchive(p) ==
    /\ pc[p] = "tidy"
    /\ \/ archive' = archive \ {want[p]}
       \/ archive' = archive
    /\ pc' = [pc EXCEPT ![p] = "leave"]
    /\ UNCHANGED <<tree, staging, running, inside, op, want, sel, dir, todo>>

ReleaseLock(p) ==
    /\ pc[p] = "leave"
    /\ Lock!Leave(p, want[p])
    /\ pc' = [pc EXCEPT ![p] = "idle"]
    /\ UNCHANGED <<tree, staging, archive, running, op, want, sel, dir, todo>>

-----------------------------------------------------------------------------
(* uninstall, and the shim's launch.                                       *)

Resolve(p) ==
    /\ pc[p] = "resolve"
    /\ \/ \E d \in Best(sel[p]) :
            /\ dir' = [dir EXCEPT ![p] = d]
            /\ pc' = [pc EXCEPT ![p] = IF op[p] = "launch" THEN "start" ELSE "rename"]
       \/ /\ Best(sel[p]) = {}
          /\ pc' = [pc EXCEPT ![p] = "idle"]
          /\ UNCHANGED dir
    /\ UNCHANGED <<tree, staging, archive, running, inside, op, want, sel, todo>>

Aside(d) == <<d[1], d[2] + 1>>

(* The rename-probe succeeds: nothing has a handle inside.                 *)
RenameAside(p) ==
    /\ pc[p] = "rename"
    /\ dir[p][2] < MaxLevel
    /\ tree[dir[p]] # "none"
    /\ tree[Aside(dir[p])] = "none"
    /\ dir[p] \notin running
    /\ tree' = [tree EXCEPT ![dir[p]] = "none", ![Aside(dir[p])] = tree[dir[p]]]
    /\ dir' = [dir EXCEPT ![p] = Aside(dir[p])]
    /\ pc' = [pc EXCEPT ![p] = "removing"]
    /\ UNCHANGED <<staging, archive, running, inside, op, want, sel, todo>>

(* AlreadyGone, in use, or an aside of that name still there: untouched.   *)
RenameRefused(p) ==
    /\ pc[p] = "rename"
    /\ pc' = [pc EXCEPT ![p] = "idle"]
    /\ UNCHANGED <<tree, staging, archive, running, inside, op, want, sel, dir, todo>>

(* Windows starts java.exe out of the directory that was resolved, if it   *)
(* is still there.                                                         *)
Start(p) ==
    /\ pc[p] = "start"
    /\ pc' = [pc EXCEPT ![p] = "idle"]
    /\ \/ tree[dir[p]] # "none" /\ running' = running \cup {dir[p]}
       \/ tree[dir[p]] # "whole" /\ UNCHANGED running
    /\ UNCHANGED <<tree, staging, archive, inside, op, want, sel, dir, todo>>

-----------------------------------------------------------------------------
(* The environment.                                                        *)

Exit(d) ==
    /\ d \in running
    /\ running' = running \ {d}
    /\ UNCHANGED <<tree, staging, archive, inside, pc, op, want, sel, dir, todo>>

(* Somebody moves a JDK into the store without this program.               *)
OutOfBand(n) ==
    /\ tree[<<n, 0>>] = "none"
    /\ tree' = [tree EXCEPT ![<<n, 0>>] = "whole"]
    /\ UNCHANGED <<staging, archive, running, inside, pc, op, want, sel, dir, todo>>

(* A process dies: its lock goes, its files stay.                          *)
Crash(p) ==
    /\ pc[p] # "idle"
    /\ pc' = [pc EXCEPT ![p] = "idle"]
    /\ inside' = [n \in Names |-> inside[n] \ {p}]
    /\ UNCHANGED <<tree, staging, archive, running, op, want, sel, dir, todo>>

-----------------------------------------------------------------------------

InstallStep(p) ==
    \/ CheckDest(p) \/ LockFails(p) \/ TakeLock(p) \/ RecheckDest(p)
    \/ Fetch(p) \/ FetchFails(p) \/ CreateStaging(p) \/ CreateStagingFails(p)
    \/ ExtractSome(p) \/ ExtractRest(p) \/ InstallFails(p) \/ MoveIn(p)
    \/ DropStaging(p) \/ RemoveArchive(p) \/ ReleaseLock(p)

RemoveStep(p) ==
    \/ DeleteSome(p) \/ DeleteEnds(p) \/ DeleteStops(p)
    \/ \E d \in Dirs : SweepOne(p, d)
    \/ SweepDone(p)
    \/ Resolve(p) \/ RenameAside(p) \/ RenameRefused(p) \/ Start(p)

Next ==
    \/ \E p \in Procs :
         \/ \E n \in Names : BeginInstall(p, n)
         \/ \E s \in Selectors : BeginUninstall(p, s) \/ BeginLaunch(p, s)
         \/ InstallStep(p) \/ RemoveStep(p) \/ Crash(p)
    \/ \E d \in Dirs : Exit(d)
    \/ \E n \in Names : OutOfBand(n)

Spec == Init /\ [][Next]_vars

-----------------------------------------------------------------------------
(* Properties.                                                             *)

(* A candidate is there with all its files or not at all: no crash, failed *)
(* extraction or concurrent command leaves a half-installed or             *)
(* half-deleted one (uninstall.rs:3-9, install.rs:166-186).                *)
CandidatesAreWhole ==
    \A n \in Names : tree[<<n, 0>>] \in {"none", "whole"}

(* A process running out of a candidate keeps the whole of it while it     *)
(* runs: the rename-probe never takes a JDK in use (uninstall.rs:4-5).     *)
RunningIsWhole ==
    \A n \in Names : <<n, 0>> \in running => tree[<<n, 0>>] = "whole"

(* The inductive invariant behind the two.                                 *)
LockHeldInside ==
    /\ \A p \in Procs : pc[p] \in LockedPCs => inside[want[p]] = {p}
    /\ \A n \in Names : \A p \in inside[n] : pc[p] \in LockedPCs /\ want[p] = n

StagingIsTheHolders ==
    \A p \in Procs :
        /\ pc[p] = "extract" => staging[want[p]] = "empty"
        /\ pc[p] = "extracting" => staging[want[p]] = "partial"
        /\ pc[p] = "move" => staging[want[p]] = "whole"

OnlyAsidesAreDeleted ==
    \A p \in Procs :
        /\ \A d \in todo[p] : d[2] > 0
        /\ pc[p] \in {"sweeping", "removing"} => dir[p][2] > 0

StoreInv ==
    /\ LockHeldInside
    /\ StagingIsTheHolders
    /\ OnlyAsidesAreDeleted
    /\ CandidatesAreWhole
    /\ RunningIsWhole

(* Seen through its candidates, the store changes by atomic additions and  *)
(* by atomic removals of JDKs nobody uses.                                 *)
Atomic == INSTANCE AtomicStore WITH
    present <- {n \in Names : tree[<<n, 0>>] = "whole"},
    used    <- {n \in Names : <<n, 0>> \in running}
ImplementsAtomicStore == Atomic!Spec

(* What uninstall.rs:33 says of a candidate renamed away: resolution can   *)
(* no longer pick it.                                                      *)
ResolutionSkipsAsides ==
    \A s \in Selectors : \A d \in Best(s) : d[2] = 0

=============================================================================
