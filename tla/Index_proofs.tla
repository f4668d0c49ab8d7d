---------------------------- MODULE Index_proofs ----------------------------
(***************************************************************************)
(* The index, from the generator that publishes it to the cache it is read *)
(* from.  The names of the two components are their own, so that both can  *)
(* be extended here.                                                       *)
(*                                                                         *)
(* The generator: whatever foojay and the vendors do, and wherever a run   *)
(* fails, an index that is published has passed both gates against the one *)
(* it replaces.  GeneratorInv says what the gates have let through, and    *)
(* that the baseline of a run is still the published index when the run    *)
(* ends.  RunInv says what a run in progress has found so far: where each  *)
(* hash comes from, and that what it owes to the index is staged or in     *)
(* queue.                                                                  *)
(*                                                                         *)
(* The cache: whoever dies where, and however slow a request is, it moves  *)
(* forward only and a 304 speaks of the body it is taken for.  The         *)
(* invariant orders, for each entry, its ETag, its body, and what the site *)
(* has; the lock keeps the order while a read is between its request and   *)
(* its writes.                                                             *)
(***************************************************************************)
EXTENDS Generator, Catalog, FiniteSetTheorems, TLAPS

-----------------------------------------------------------------------------
(* The generator.                                                          *)

(* An index, whatever its entries.                                         *)
WellFormed(index) ==
    /\ index = [updated |-> index.updated, files |-> index.files]
    /\ index.files = [f \in Platforms |-> index.files[f]]
    /\ \A f \in Platforms : IsFiniteSet(index.files[f])

Shapes == WellFormed(published) /\ WellFormed(base) /\ WellFormed(staged)

(* The stamp of the staged index is new only if its files are.             *)
Stamped ==
    phase \in {"tree", "guard", "publish"} /\ base # NoIndex /\ base.files = staged.files
      => staged.updated = base.updated

GeneratorInv ==
    /\ Shapes
    /\ base \in {NoIndex, published}
    /\ RequiredFloor
    /\ phase \in {"guard", "publish"} => HasRequired(staged.files)
    /\ Stamped
    /\ phase = "publish" => ~Refused(base.files, staged.files)

-----------------------------------------------------------------------------

LEMMA EmptyIndex == WellFormed(NoIndex)
BY FS_EmptySet DEF WellFormed, NoIndex

(* A package with its hash is added to a platform of the staged index.     *)
LEMMA KeepShape ==
    ASSUME WellFormed(staged), NEW k, NEW sha, Keep(k, sha)
    PROVE  WellFormed(staged')
<1> DEFINE new == [pack |-> k, sha |-> sha]
<1>1. /\ staged'.updated = staged.updated
      /\ staged'.files = [staged.files EXCEPT ![At] = @ \cup {new}]
      /\ staged' = [updated |-> staged'.updated, files |-> staged'.files]
  BY DEF Keep, WellFormed
<1>2. ASSUME NEW f \in Platforms
      PROVE  IsFiniteSet(staged'.files[f])
  <2>1. IsFiniteSet(staged.files[f]) /\ IsFiniteSet(staged.files[f] \cup {new})
    BY FS_AddElement DEF WellFormed
  <2>2. staged'.files[f] \in {staged.files[f], staged.files[f] \cup {new}}
    BY <1>1 DEF WellFormed
  <2> QED  BY <2>1, <2>2
<1>3. staged'.files = [f \in Platforms |-> staged'.files[f]]
  BY <1>1 DEF WellFormed
<1> QED  BY <1>1, <1>2, <1>3 DEF WellFormed

(* The run ends: what was published is published still.                    *)
LEMMA FailStep ==
    ASSUME GeneratorInv, Fail
    PROVE  GeneratorInv'
BY EmptyIndex DEF GeneratorInv, Shapes, RequiredFloor, Stamped, Fail

(* The steps in which nothing is staged and nothing published.             *)
LEMMA QuietStep ==
    ASSUME GeneratorInv, UNCHANGED <<published, base, staged>>,
           phase' \notin {"tree", "guard", "publish"}
    PROVE  GeneratorInv'
BY DEF GeneratorInv, Shapes, RequiredFloor, Stamped

LEMMA BeginStep ==
    ASSUME GeneratorInv, BeginRun
    PROVE  GeneratorInv'
BY EmptyIndex DEF BeginRun, GeneratorInv, Shapes, RequiredFloor, Stamped

(* The steps that find a hash, and keep the package with it or pass it by. *)
LEMMA HashStep ==
    ASSUME GeneratorInv, HashIsAnnounced \/ HashIsKnown \/ HashOnFirstUse \/ OverBudget
    PROVE  GeneratorInv'
<1>1. /\ phase' = "hash" /\ UNCHANGED <<published, base>>
      /\ UNCHANGED staged \/ \E k, sha : Keep(k, sha)
  BY DEF HashIsAnnounced, HashIsKnown, HashOnFirstUse, OverBudget
<1>2. WellFormed(staged')
  BY <1>1, KeepShape DEF GeneratorInv, Shapes
<1> QED  BY <1>1, <1>2 DEF GeneratorInv, Shapes, RequiredFloor, Stamped

LEMMA StageStep ==
    ASSUME GeneratorInv, Stage
    PROVE  GeneratorInv'
<1>1. PICK today : staged' = [staged EXCEPT !.updated = Stamp(today)]
  BY DEF Stage
<1>2. /\ phase' = "tree" /\ UNCHANGED <<published, base>>
      /\ staged' = [updated |-> Stamp(today), files |-> staged.files]
  BY <1>1 DEF Stage, GeneratorInv, Shapes, WellFormed
<1>3. WellFormed(staged')
  BY <1>2 DEF GeneratorInv, Shapes, WellFormed
<1>4. Stamped'
  BY <1>2 DEF Stamped, Stamp
<1> QED  BY <1>2, <1>3, <1>4 DEF GeneratorInv, Shapes, RequiredFloor

LEMMA GateStep ==
    ASSUME GeneratorInv, Tree \/ Guard
    PROVE  GeneratorInv'
<1>1. CASE Fail
  BY <1>1, FailStep
<1>2. CASE Tree /\ ~Fail
  BY <1>2 DEF Tree, GeneratorInv, Shapes, RequiredFloor, Stamped
<1>3. CASE Guard /\ ~Fail
  BY <1>3 DEF Guard, GeneratorInv, Shapes, RequiredFloor, Stamped
<1> QED  BY <1>1, <1>2, <1>3

LEMMA PublishStep ==
    ASSUME GeneratorInv, PublishIndex
    PROVE  GeneratorInv'
BY EmptyIndex DEF PublishIndex, GeneratorInv, Shapes, RequiredFloor, HasRequired, Stamped

LEMMA GeneratorStep == GeneratorInv /\ [GeneratorNext]_generatorVars => GeneratorInv'
<1> SUFFICES ASSUME GeneratorInv, [GeneratorNext]_generatorVars
             PROVE  GeneratorInv'
  OBVIOUS
<1>1. CASE UNCHANGED generatorVars
  BY <1>1 DEF generatorVars, GeneratorInv, Shapes, RequiredFloor, Stamped
<1>2. CASE List \/ Hashed
  BY <1>2, QuietStep DEF List, Hashed
<1>3. CASE ListFails
  BY <1>3, QuietStep, FailStep DEF ListFails
<1>4. CASE Abort
  BY <1>4, FailStep DEF Abort
<1>5. CASE \/ \E k \in Packages : Appear(k) \/ Withdraw(k)
           \/ \E u \in Rebuilt : Rebuild(u) \/ Announce(u)
  BY <1>5, QuietStep DEF Appear, Withdraw, Rebuild, Announce, Still
<1> QED  BY <1>1, <1>2, <1>3, <1>4, <1>5, BeginStep, HashStep, StageStep, GateStep,
           PublishStep DEF GeneratorNext

LEMMA GeneratorInvariant == GeneratorSpec => []GeneratorInv
<1>1. GeneratorInit => GeneratorInv
  BY EmptyIndex DEF GeneratorInit, Idle, GeneratorInv, Shapes, RequiredFloor, Stamped
<1> QED  BY <1>1, GeneratorStep, PTL DEF GeneratorSpec

-----------------------------------------------------------------------------

(* For any vendors, packages and failures, an index has every required     *)
(* vendor for x64.                                                         *)
THEOREM RequiredAreThere == GeneratorSpec => []RequiredFloor
<1>1. GeneratorInv => RequiredFloor
  BY DEF GeneratorInv
<1> QED  BY <1>1, GeneratorInvariant, PTL

(* Only Publish changes the index; its baseline, if any, is the index.     *)
LEMMA OnlyPublish ==
    ASSUME GeneratorInv, GeneratorNext, Publishes
    PROVE  /\ PublishIndex
           /\ base = published
BY DEF GeneratorNext, BeginRun, List, ListFails, HashIsAnnounced, HashIsKnown, HashOnFirstUse,
       OverBudget, Hashed, Stage, Tree, Guard, Abort, Fail, Appear, Withdraw, Rebuild,
       Announce, Still, Publishes, GeneratorInv

(* A stamp is new only with a new catalogue, beside one that could be read.*)
THEOREM StampsAreKept == GeneratorSpec => UnchangedKeepsStamp
<1>1. GeneratorInv /\ [GeneratorNext]_generatorVars
        => [Publishes => published'.files # published.files]_generatorVars
  <2> SUFFICES ASSUME GeneratorInv, GeneratorNext, Publishes, published'.files = published.files
               PROVE  FALSE
    BY DEF generatorVars
  <2>1. PublishIndex /\ base = published
    BY OnlyPublish
  <2>2. published' = staged /\ base.files = staged.files /\ base # NoIndex /\ phase = "publish"
    BY <2>1 DEF PublishIndex, Publishes
  <2>3. staged.updated = base.updated
    BY <2>2 DEF GeneratorInv, Stamped
  <2>4. staged = published
    BY <2>1, <2>2, <2>3 DEF GeneratorInv, Shapes, WellFormed
  <2> QED  BY <2>2, <2>4 DEF Publishes
<1> QED  BY <1>1, GeneratorInvariant, PTL DEF GeneratorSpec, UnchangedKeepsStamp

-----------------------------------------------------------------------------

(* What the guard lets pass is within MaxShrink.                           *)
LEMMA ShrinksBound ==
    ASSUME NEW old \in Nat, NEW new \in Nat, ~Shrinks(old, new)
    PROVE  new * 100 >= (100 - MaxShrink) * old
<1>1. MaxShrink \in Int /\ 0 <= MaxShrink
  BY GeneratorAssumption
<1>2. /\ MaxShrink * old \in Int /\ 0 <= MaxShrink * old
      /\ (100 - MaxShrink) * old = 100 * old - MaxShrink * old
  BY <1>1
<1>3. CASE new >= old
  BY <1>2, <1>3
<1>4. CASE new < old
  BY <1>2, <1>4 DEF Shrinks
<1> QED  BY <1>3, <1>4

(* The counts are numbers.                                                 *)
LEMMA Counts ==
    ASSUME NEW index, WellFormed(index)
    PROVE  /\ Total(index.files) \in Nat
           /\ \A f \in Platforms : Cardinality(index.files[f]) \in Nat
<1> DEFINE sets == {index.files[f] : f \in Platforms}
           nth == [i \in 1 .. Len(Order) |-> index.files[Order[i]]]
<1>1. Len(Order) \in Nat
  BY GeneratorAssumption
<1>2. IsFiniteSet(1 .. Len(Order))
  BY <1>1, FS_Interval
<1>3. nth \in Surjection(1 .. Len(Order), sets)
  BY DEF Surjection, Platforms
<1>4. IsFiniteSet(sets)
  BY <1>2, <1>3, FS_Surjection
<1>5. \A s \in sets : IsFiniteSet(s)
  BY DEF WellFormed
<1>6. IsFiniteSet(UNION sets)
  BY <1>4, <1>5, FS_UNION
<1> QED  BY <1>5, <1>6, FS_CardinalityType DEF Total

(* From one index to the next neither the whole nor a required file        *)
(* shrinks by more than MaxShrink, however many runs it takes, if the      *)
(* former could be read (validate.rs:127-133, 233).                        *)
THEOREM ShrinkBound == GeneratorSpec => ShrinkIsBounded
<1> DEFINE Bounded ==
        \A f \in {g \in Platforms : Hard(g)} :
          /\ Cardinality(published'.files[f]) * 100
               >= (100 - MaxShrink) * Cardinality(published.files[f])
          /\ Total(published'.files) * 100
               >= (100 - MaxShrink) * Total(published.files)
<1>1. GeneratorInv /\ [GeneratorNext]_generatorVars => [Publishes => Bounded]_generatorVars
  <2> SUFFICES ASSUME GeneratorInv, GeneratorNext, Publishes,
                      NEW f \in Platforms, Hard(f)
               PROVE  /\ Cardinality(published'.files[f]) * 100
                           >= (100 - MaxShrink) * Cardinality(published.files[f])
                      /\ Total(published'.files) * 100
                           >= (100 - MaxShrink) * Total(published.files)
    BY DEF generatorVars
  <2>1. /\ published' = staged /\ base = published
        /\ ~Refused(published.files, staged.files)
    BY OnlyPublish DEF PublishIndex, GeneratorInv
  <2>2. /\ ~Shrinks(Total(published.files), Total(staged.files))
        /\ ~Shrinks(Cardinality(published.files[f]), Cardinality(staged.files[f]))
    BY <2>1 DEF Refused
  <2>3. /\ Total(published.files) \in Nat /\ Total(staged.files) \in Nat
        /\ Cardinality(published.files[f]) \in Nat /\ Cardinality(staged.files[f]) \in Nat
    BY Counts DEF GeneratorInv, Shapes
  <2> QED  BY <2>1, <2>2, <2>3, ShrinksBound
<1> QED  BY <1>1, GeneratorInvariant, PTL DEF GeneratorSpec, ShrinkIsBounded

-----------------------------------------------------------------------------
(* The run in progress.                                                    *)

Stable(f) == {k \in Survivors({l \in listed : l.platform = f}) : ~k.ea}
Packs(files, f) == {e.pack : e \in files[f]}

(* What the next index must have again.                                    *)
Owed(f) == Packs(base.files, f) \cap Stable(f)

(* A run that is over leaves nothing behind; one that hashes is at a       *)
(* platform; one that validates has been at all of them.                   *)
RunShape ==
    /\ GeneratorTypeOK
    /\ phase = "idle" => Idle
    /\ phase = "hash" => next <= Len(Order)
    /\ phase \in {"tree", "guard", "publish"} => next > Len(Order)

(* No hash of a download stands beside a known one.                        *)
Sourced ==
    \A f \in Platforms : \A e \in staged.files[f] :
      Known(e.pack) # {} => e.sha \in Known(e.pack) \cup Cheap(e.pack)

(* The platforms that are done have what they owe; the one being hashed    *)
(* has it or still has it in queue.                                        *)
Paid ==
    \A i \in 1 .. Len(Order) :
      Order[i].vendor \in Required =>
        /\ i < next => Owed(Order[i]) \subseteq Packs(staged.files, Order[i])
        /\ phase = "hash" /\ i = next =>
             Owed(Order[i]) \subseteq queue \cup Packs(staged.files, Order[i])

RunInv == RunShape /\ Sourced /\ Paid

LEMMA OrderFacts ==
    /\ Len(Order) \in Nat
    /\ \A i \in 1 .. Len(Order) : Order[i] \in Platforms
BY GeneratorAssumption DEF Platforms

LEMMA NoIndexType == NoIndex \in Index
BY DEF NoIndex, Index

(* Whatever is known of a package is one of the builds.                    *)
LEMMA SourcesType ==
    ASSUME GeneratorTypeOK, NEW k \in Packages
    PROVE  Known(k) \subseteq Builds /\ Cheap(k) \subseteq Builds /\ Downloaded(k) \subseteq Builds
<1>1. Known(k) \subseteq Builds
  BY DEF GeneratorTypeOK, Known, Hashes, Index, Entry
<1>2. k.url \in URLs
  BY DEF URLs
<1> QED  BY <1>1, <1>2 DEF GeneratorTypeOK, Cheap, Downloaded

(* A package of the queue is staged with its hash.                         *)
LEMMA KeepType ==
    ASSUME GeneratorTypeOK, next <= Len(Order), NEW k \in Packages, NEW sha \in Builds, Keep(k, sha)
    PROVE  /\ staged' \in Index /\ queue' \subseteq Packages
           /\ staged'.updated = staged.updated
           /\ staged'.files = [staged.files EXCEPT ![At] = @ \cup {[pack |-> k, sha |-> sha]}]
           /\ \A f \in Platforms : staged.files[f] \subseteq staged'.files[f]
<1>1. [pack |-> k, sha |-> sha] \in Entry
  BY DEF Entry
<1>2. staged' = [staged EXCEPT !.files = [staged.files EXCEPT ![At] = @ \cup {[pack |-> k, sha |-> sha]}]]
  BY DEF Keep
<1>3. staged.files \in [Platforms -> SUBSET Entry]
  BY DEF GeneratorTypeOK, Index
<1>4. [staged.files EXCEPT ![At] = @ \cup {[pack |-> k, sha |-> sha]}] \in [Platforms -> SUBSET Entry]
  BY <1>1, <1>3
<1>5. \A f \in Platforms :
        staged.files[f] \subseteq [staged.files EXCEPT ![At] = @ \cup {[pack |-> k, sha |-> sha]}][f]
  BY <1>3
<1> QED  BY <1>2, <1>4, <1>5 DEF GeneratorTypeOK, Index, Keep

-----------------------------------------------------------------------------
(* Each step keeps the run in shape.                                       *)

(* A run that ended, well or not, left nothing behind.                     *)
LEMMA RunOver ==
    ASSUME GeneratorTypeOK, UNCHANGED upstream, published' \in Index,
           phase' = "idle" /\ base' = NoIndex /\ next' = 1 /\ queue' = {},
           budget' = Budget /\ staged' = NoIndex
    PROVE  RunInv'
<1>1. RunShape'
  BY NoIndexType, OrderFacts, GeneratorAssumption DEF RunShape, GeneratorTypeOK, Idle, upstream
<1>2. Sourced'
  BY DEF Sourced, NoIndex
<1>3. Paid'
  BY OrderFacts DEF Paid
<1> QED  BY <1>1, <1>2, <1>3 DEF RunInv

(* The steps in which the run does nothing but move on.                    *)
LEMMA MovesOn ==
    ASSUME RunInv, UNCHANGED <<upstream, base, staged>>
    PROVE  Sourced'
BY DEF RunInv, Sourced, Known, Hashes, Cheap, upstream

LEMMA RunBegins ==
    ASSUME RunInv, BeginRun
    PROVE  RunInv'
<1>1. RunShape'
  BY NoIndexType DEF RunInv, RunShape, GeneratorTypeOK, BeginRun, upstream
<1>2. Sourced'
  BY DEF RunInv, RunShape, Idle, BeginRun, Sourced, NoIndex
<1>3. Paid'
  BY OrderFacts DEF RunInv, RunShape, Idle, BeginRun, Paid
<1> QED  BY <1>1, <1>2, <1>3 DEF RunInv

(* The queue holds all that is stable, even if early access is missing.    *)
LEMMA StableIsListed ==
    ASSUME NEW here, NEW items \in {here, {k \in here : ~k.ea}}
    PROVE  {k \in Survivors(here) : ~k.ea} \subseteq Survivors(items)
BY DEF Survivors, First

LEMMA RunLists ==
    ASSUME RunInv, List
    PROVE  RunInv'
<1> DEFINE here == {k \in listed : k.platform = At}
<1>1. PICK items \in {here, {k \in here : ~k.ea}} : queue' = Survivors(items)
  BY DEF List
<1>2. queue' \subseteq Packages
  BY <1>1 DEF Survivors, First, RunInv, RunShape, GeneratorTypeOK
<1>3. RunShape'
  BY <1>2, GeneratorAssumption DEF RunInv, RunShape, GeneratorTypeOK, List, upstream
<1>4. Sourced'
  BY MovesOn DEF List
<1>5. Paid'
  <2> SUFFICES ASSUME NEW i \in 1 .. Len(Order), Order[i].vendor \in Required
               PROVE  /\ i < next => Owed(Order[i])' \subseteq Packs(staged.files, Order[i])
                      /\ i = next => Owed(Order[i])' \subseteq queue'
    BY DEF Paid, List, Packs
  <2>1. Owed(Order[i])' = Owed(Order[i])
    BY DEF List, upstream, Owed, Stable, Packs
  <2>2. i < next => Owed(Order[i]) \subseteq Packs(staged.files, Order[i])
    BY DEF RunInv, Paid
  <2>3. Stable(At) = {k \in Survivors(here) : ~k.ea}
    BY DEF Stable
  <2>4. Stable(At) \subseteq queue'
    BY <1>1, <2>3, StableIsListed
  <2>5. i = next => Owed(Order[i]) \subseteq queue'
    BY <2>4 DEF Owed, At
  <2> QED  BY <2>1, <2>2, <2>5
<1> QED  BY <1>3, <1>4, <1>5 DEF RunInv

LEMMA RunSkips ==
    ASSUME RunInv, ListFails
    PROVE  RunInv'
<1>1. CASE Fail
  BY <1>1, RunOver DEF ListFails, Fail, RunInv, RunShape, GeneratorTypeOK
<1>2. CASE ~Fail
  <2>1. /\ MayBeMissing(At.vendor) /\ next' = next + 1 /\ phase = "fetch" /\ next <= Len(Order)
        /\ UNCHANGED <<upstream, published, phase, base, queue, budget, staged>>
    BY <1>2 DEF ListFails
  <2>2. RunShape'
    BY <2>1, OrderFacts DEF RunInv, RunShape, GeneratorTypeOK, upstream
  <2>3. Sourced'
    BY <2>1, MovesOn
  <2>4. Paid'
    <3> SUFFICES ASSUME NEW i \in 1 .. Len(Order), Order[i].vendor \in Required, i < next + 1
                 PROVE  Owed(Order[i])' \subseteq Packs(staged.files, Order[i])
      BY <2>1 DEF Paid, Packs
    <3>1. i # next
      BY <2>1 DEF MayBeMissing, At
    <3>2. i < next
      BY <3>1, OrderFacts DEF RunInv, RunShape, GeneratorTypeOK
    <3>3. Owed(Order[i])' = Owed(Order[i])
      BY <2>1 DEF upstream, Owed, Stable, Packs
    <3> QED  BY <3>2, <3>3 DEF RunInv, Paid
  <2> QED  BY <2>2, <2>3, <2>4 DEF RunInv
<1> QED  BY <1>1, <1>2

(* A package with its hash, announced or known or of one not known, is     *)
(* kept.                                                                   *)
LEMMA RunKeeps ==
    ASSUME RunInv, phase = "hash", phase' = "hash", UNCHANGED <<upstream, published, base, next>>,
           budget' \in 0 .. Budget,
           NEW k \in queue, NEW sha \in Builds, Keep(k, sha),
           sha \in Known(k) \/ sha \in Cheap(k) \/ Known(k) = {}
    PROVE  RunInv'
<1> DEFINE entry == [pack |-> k, sha |-> sha]
<1>1. GeneratorTypeOK /\ next <= Len(Order) /\ k \in Packages
  BY DEF RunInv, RunShape, GeneratorTypeOK
<1>3. /\ staged' \in Index /\ queue' \subseteq Packages
      /\ staged'.files = [staged.files EXCEPT ![At] = @ \cup {entry}]
      /\ \A f \in Platforms : staged.files[f] \subseteq staged'.files[f]
  BY <1>1, KeepType
<1>4. At \in Platforms
  BY <1>1, OrderFacts DEF GeneratorTypeOK, At
<1>5. staged.files \in [Platforms -> SUBSET Entry]
  BY <1>1 DEF GeneratorTypeOK, Index
<1>6. \A f \in Platforms : staged'.files[f] \subseteq staged.files[f] \cup {entry}
  BY <1>3, <1>5
<1>7. entry \in staged'.files[At]
  BY <1>3, <1>4, <1>5
<1>8. RunShape'
  BY <1>1, <1>3 DEF RunShape, GeneratorTypeOK, upstream
<1>9. Sourced'
  <2> SUFFICES ASSUME NEW f \in Platforms, NEW e \in staged'.files[f], Known(e.pack)' # {}
               PROVE  e.sha \in Known(e.pack)' \cup Cheap(e.pack)'
    BY DEF Sourced
  <2>1. Known(e.pack)' = Known(e.pack) /\ Cheap(e.pack)' = Cheap(e.pack)
    BY DEF Known, Hashes, Cheap, upstream
  <2>2. CASE e \in staged.files[f]
    BY <2>1, <2>2 DEF RunInv, Sourced
  <2>3. CASE e = entry
    BY <2>1, <2>3
  <2> QED  BY <1>6, <2>2, <2>3
<1>10. Paid'
  <2> SUFFICES ASSUME NEW i \in 1 .. Len(Order), Order[i].vendor \in Required
               PROVE  /\ i < next => Owed(Order[i])' \subseteq Packs(staged'.files, Order[i])
                      /\ i = next => Owed(Order[i])'
                                       \subseteq queue' \cup Packs(staged'.files, Order[i])
    BY DEF Paid, Packs
  <2>1. Owed(Order[i])' = Owed(Order[i])
    BY DEF upstream, Owed, Stable, Packs
  <2>2. Packs(staged.files, Order[i]) \subseteq Packs(staged'.files, Order[i])
    BY <1>3, OrderFacts DEF Packs
  <2>3. i < next => Owed(Order[i]) \subseteq Packs(staged.files, Order[i])
    BY DEF RunInv, Paid
  <2>4. i = next => Owed(Order[i]) \subseteq queue \cup Packs(staged.files, Order[i])
    BY DEF RunInv, Paid
  <2>5. i = next => k \in Packs(staged'.files, Order[i])
    BY <1>7 DEF Packs, At
  <2>6. queue' = queue \ {k}
    BY DEF Keep
  <2>7. i = next => Owed(Order[i]) \subseteq queue' \cup Packs(staged'.files, Order[i])
    BY <2>2, <2>4, <2>5, <2>6
  <2> QED  BY <2>1, <2>2, <2>3, <2>7
<1> QED  BY <1>8, <1>9, <1>10 DEF RunInv

(* What has no hash is left out, which no package of the index is.         *)
LEMMA RunLeavesOut ==
    ASSUME RunInv, phase = "hash", phase' = "hash",
           UNCHANGED <<upstream, published, base, next, staged>>, budget' \in 0 .. Budget,
           NEW k \in queue, Known(k) = {}, queue' = queue \ {k}
    PROVE  RunInv'
<1>1. RunShape'
  BY DEF RunInv, RunShape, GeneratorTypeOK, upstream
<1>2. Sourced'
  BY MovesOn
<1>3. Paid'
  <2> SUFFICES ASSUME NEW i \in 1 .. Len(Order), Order[i].vendor \in Required
               PROVE  /\ i < next => Owed(Order[i])' \subseteq Packs(staged.files, Order[i])
                      /\ i = next => Owed(Order[i])'
                                       \subseteq queue' \cup Packs(staged.files, Order[i])
    BY DEF Paid, Packs
  <2>1. Owed(Order[i])' = Owed(Order[i])
    BY DEF upstream, Owed, Stable, Packs
  <2>2. Order[i] \in Platforms
    BY OrderFacts
  <2>3. k \notin Packs(base.files, Order[i])
    BY <2>2 DEF Packs, Known, Hashes
  <2>4. k \notin Owed(Order[i])
    BY <2>3 DEF Owed
  <2>5. /\ i < next => Owed(Order[i]) \subseteq Packs(staged.files, Order[i])
        /\ i = next => Owed(Order[i]) \subseteq queue \cup Packs(staged.files, Order[i])
    BY DEF RunInv, Paid
  <2> QED  BY <2>1, <2>4, <2>5
<1> QED  BY <1>1, <1>2, <1>3 DEF RunInv

LEMMA RunHashes ==
    ASSUME RunInv, HashIsAnnounced \/ HashIsKnown \/ HashOnFirstUse \/ OverBudget
    PROVE  RunInv'
<1>1. budget \in 0 .. Budget /\ Budget \in Nat
  BY GeneratorAssumption DEF RunInv, RunShape, GeneratorTypeOK
<1>0. \A k \in queue : Known(k) \subseteq Builds /\ Cheap(k) \subseteq Builds
                             /\ Downloaded(k) \subseteq Builds
  BY SourcesType DEF RunInv, RunShape, GeneratorTypeOK
<1>2. CASE HashIsAnnounced
  <2>1. PICK k \in queue : \E sha \in Cheap(k) : Keep(k, sha)
    BY <1>2 DEF HashIsAnnounced, Heads
  <2> QED  BY <1>0, <1>1, <1>2, <2>1, RunKeeps DEF HashIsAnnounced
<1>3. CASE HashIsKnown
  <2>1. PICK k \in queue : \E sha \in Known(k) : Keep(k, sha)
    BY <1>3 DEF HashIsKnown, Heads
  <2> QED  BY <1>0, <1>1, <1>3, <2>1, RunKeeps DEF HashIsKnown
<1>4. CASE HashOnFirstUse
  <2>1. PICK k \in Heads :
          /\ Downloads(k)
          /\ \/ \E sha \in Downloaded(k) : Keep(k, sha)
             \/ queue' = queue \ {k} /\ UNCHANGED staged
    BY <1>4 DEF HashOnFirstUse
  <2>2. k \in queue /\ Known(k) = {}
    BY <2>1 DEF Heads, Downloads
  <2>3. budget' \in 0 .. Budget
    BY <1>1, <1>4 DEF HashOnFirstUse, Left
  <2>4. CASE \E sha \in Downloaded(k) : Keep(k, sha)
    BY <1>0, <1>4, <2>2, <2>3, <2>4, RunKeeps DEF HashOnFirstUse
  <2>5. CASE queue' = queue \ {k} /\ UNCHANGED staged
    BY <1>4, <2>2, <2>3, <2>5, RunLeavesOut DEF HashOnFirstUse
  <2> QED  BY <2>1, <2>4, <2>5
<1>5. CASE OverBudget
  <2>1. PICK k \in Heads : Downloads(k) /\ queue' = queue \ {k}
    BY <1>5 DEF OverBudget
  <2>2. k \in queue /\ Known(k) = {}
    BY <2>1 DEF Heads, Downloads
  <2> QED  BY <1>1, <1>5, <2>1, <2>2, RunLeavesOut DEF OverBudget
<1> QED  BY <1>2, <1>3, <1>4, <1>5

LEMMA RunMovesOn ==
    ASSUME RunInv, Hashed
    PROVE  RunInv'
<1>1. RunShape'
  BY OrderFacts DEF Hashed, RunInv, RunShape, GeneratorTypeOK, upstream
<1>2. Sourced'
  BY MovesOn DEF Hashed
<1>3. Paid'
  <2> SUFFICES ASSUME NEW i \in 1 .. Len(Order), Order[i].vendor \in Required, i < next + 1
               PROVE  Owed(Order[i])' \subseteq Packs(staged.files, Order[i])
    BY DEF Hashed, Paid, Packs
  <2>1. Owed(Order[i])' = Owed(Order[i])
    BY DEF Hashed, upstream, Owed, Stable, Packs
  <2>2. i < next \/ i = next
    BY OrderFacts DEF RunInv, RunShape, GeneratorTypeOK
  <2>3. /\ i < next => Owed(Order[i]) \subseteq Packs(staged.files, Order[i])
        /\ i = next => Owed(Order[i]) \subseteq queue \cup Packs(staged.files, Order[i])
    BY DEF RunInv, Paid, Hashed
  <2> QED  BY <2>1, <2>2, <2>3 DEF Hashed
<1> QED  BY <1>1, <1>2, <1>3 DEF RunInv

LEMMA RunStages ==
    ASSUME RunInv, Stage
    PROVE  RunInv'
<1>1. PICK today \in Stamps : staged' = [staged EXCEPT !.updated = Stamp(today)]
  BY DEF Stage
<1>2. /\ GeneratorTypeOK /\ staged \in Index /\ base \in Index
      /\ phase' = "tree" /\ next > Len(Order)
      /\ UNCHANGED <<upstream, published, base, next, queue, budget>>
  BY DEF Stage, RunInv, RunShape, GeneratorTypeOK
<1>3. Stamp(today) \in Stamps \cup {"never"}
  BY <1>2 DEF Stamp, Index
<1>4. staged' \in Index /\ staged'.files = staged.files
  BY <1>1, <1>2, <1>3 DEF Index
<1>5. RunShape'
  BY <1>2, <1>4 DEF RunShape, GeneratorTypeOK, upstream
<1>6. Sourced'
  BY <1>2, <1>4 DEF RunInv, Sourced, Known, Hashes, Cheap, upstream
<1>7. Paid'
  BY <1>2, <1>4 DEF RunInv, Paid, Owed, Stable, Packs, upstream
<1> QED  BY <1>5, <1>6, <1>7 DEF RunInv

LEMMA RunValidates ==
    ASSUME RunInv, Tree \/ Guard
    PROVE  RunInv'
<1>1. CASE Fail
  BY <1>1, RunOver DEF Tree, Guard, Fail, RunInv, RunShape, GeneratorTypeOK
<1>2. CASE ~Fail
  <2>1. /\ phase \in {"tree", "guard"} /\ phase' \in {"guard", "publish"}
        /\ UNCHANGED <<upstream, published, base, next, queue, budget, staged>>
    BY <1>2 DEF Tree, Guard
  <2>2. RunShape'
    BY <2>1 DEF RunInv, RunShape, GeneratorTypeOK, upstream
  <2>3. Sourced'
    BY <2>1, MovesOn
  <2>4. Paid'
    BY <2>1 DEF RunInv, Paid, Owed, Stable, Packs, upstream
  <2> QED  BY <2>2, <2>3, <2>4 DEF RunInv
<1> QED  BY <1>1, <1>2

(* Between two runs nothing is staged: whatever changes, nothing is owed.  *)
LEMMA WorldMoves ==
    ASSUME RunInv, UNCHANGED <<published, phase, base, next, queue, budget, staged>>,
           phase = "idle", listed' \subseteq Packages,
           served' \in [URLs -> Builds], announced' \in [URLs -> Builds]
    PROVE  RunInv'
<1>1. RunShape'
  BY DEF RunInv, RunShape, GeneratorTypeOK, Idle
<1>2. Sourced'
  BY DEF RunInv, RunShape, Idle, Sourced, NoIndex
<1>3. Paid'
  BY OrderFacts DEF RunInv, RunShape, Idle, Paid
<1> QED  BY <1>1, <1>2, <1>3 DEF RunInv

LEMMA RunStep == RunInv /\ [GeneratorNext]_generatorVars => RunInv'
<1> SUFFICES ASSUME RunInv, [GeneratorNext]_generatorVars
             PROVE  RunInv'
  OBVIOUS
<1>1. GeneratorTypeOK
  BY DEF RunInv, RunShape
<1>2. CASE UNCHANGED generatorVars
  <2>1. RunShape'
    BY <1>2 DEF generatorVars, upstream, RunInv, RunShape, GeneratorTypeOK, Idle
  <2>2. Sourced'
    BY <1>2 DEF generatorVars, upstream, RunInv, Sourced, Known, Hashes, Cheap
  <2>3. Paid'
    BY <1>2 DEF generatorVars, upstream, RunInv, Paid, Owed, Stable, Packs
  <2> QED  BY <2>1, <2>2, <2>3 DEF RunInv
<1>3. CASE PublishIndex
  BY <1>1, <1>3, RunOver DEF PublishIndex, GeneratorTypeOK
<1>4. CASE Abort
  BY <1>1, <1>4, RunOver DEF Abort, Fail, GeneratorTypeOK
<1>5. CASE \E k \in Packages : Appear(k) \/ Withdraw(k)
  BY <1>1, <1>5, WorldMoves DEF Appear, Withdraw, Still, GeneratorTypeOK
<1>6. ASSUME NEW u \in Rebuilt, Rebuild(u) \/ Announce(u)
      PROVE  RunInv'
  <2>1. served' \in [URLs -> Builds]
    BY <1>1, <1>6 DEF Rebuild, Announce, GeneratorTypeOK, Builds
  <2>2. announced' \in [URLs -> Builds]
    BY <1>1, <1>6 DEF Rebuild, Announce, GeneratorTypeOK
  <2> QED  BY <1>1, <1>6, <2>1, <2>2, WorldMoves DEF Rebuild, Announce, Still, GeneratorTypeOK
<1> QED  BY <1>2, <1>3, <1>4, <1>5, <1>6, RunBegins, RunLists, RunSkips, RunHashes,
           RunMovesOn, RunStages, RunValidates DEF GeneratorNext

LEMMA RunInvariant == GeneratorSpec => []RunInv
<1>1. GeneratorInit => RunInv
  <2> SUFFICES ASSUME GeneratorInit PROVE RunInv
    OBVIOUS
  <2>1. RunShape
    BY NoIndexType, OrderFacts, GeneratorAssumption DEF GeneratorInit, Idle, RunShape, GeneratorTypeOK, Builds
  <2>2. Sourced
    BY DEF GeneratorInit, Idle, Sourced, NoIndex
  <2>3. Paid
    BY OrderFacts DEF GeneratorInit, Idle, Paid
  <2> QED  BY <2>1, <2>2, <2>3 DEF RunInv
<1> QED  BY <1>1, RunStep, PTL DEF GeneratorSpec

-----------------------------------------------------------------------------

(* A run stays within its budget of downloads, and at the platforms there  *)
(* are (main.rs:124-164, fetch.rs:220-241).                                *)
THEOREM GeneratorTypes == GeneratorSpec => []GeneratorTypeOK
<1>1. RunInv => GeneratorTypeOK
  BY DEF RunInv, RunShape
<1> QED  BY <1>1, RunInvariant, PTL

(* However many runs come after it, a hash that was trusted on first use   *)
(* is not replaced by that of another download, if the index that has it   *)
(* could be read (fetch.rs:23-25, validate.rs:233).                        *)
THEOREM HashesAreTrustedOnce == GeneratorSpec => TrustedOnce
<1> DEFINE Kept ==
        \A f \in Platforms : \A e \in published'.files[f] :
          Hashes(published, e.pack.url) # {} =>
            e.sha \in Hashes(published, e.pack.url) \cup Cheap(e.pack)
<1>1. GeneratorInv /\ RunInv /\ [GeneratorNext]_generatorVars => [Publishes => Kept]_generatorVars
  <2> SUFFICES ASSUME GeneratorInv, RunInv, GeneratorNext, Publishes
               PROVE  Kept
    BY DEF generatorVars
  <2>1. published' = staged /\ base = published
    BY OnlyPublish DEF PublishIndex
  <2> QED  BY <2>1 DEF RunInv, Sourced, Known
<1> QED  BY <1>1, GeneratorInvariant, RunInvariant, PTL DEF GeneratorSpec, TrustedOnce

(* Whatever fails but the reading of the index itself (validate.rs:233),   *)
(* what a required vendor has in it and still lists as stable is in the    *)
(* next one (fetch.rs:40-44).                                              *)
THEOREM NothingForgotten == GeneratorSpec => NothingIsForgotten
<1> DEFINE Kept ==
        \A f \in {g \in Platforms : g.vendor \in Required} :
          LET here   == {k \in listed : k.platform = f}
              stable == {k \in Survivors(here) : ~k.ea}
          IN  {e.pack : e \in published.files[f]} \cap stable
                \subseteq {e.pack : e \in published'.files[f]}
<1>1. GeneratorInv /\ RunInv /\ [GeneratorNext]_generatorVars => [Publishes => Kept]_generatorVars
  <2> SUFFICES ASSUME GeneratorInv, RunInv, GeneratorNext, Publishes,
                      NEW f \in Platforms, f.vendor \in Required
               PROVE  Packs(published.files, f) \cap Stable(f) \subseteq Packs(published'.files, f)
    BY DEF generatorVars, Packs, Stable
  <2>1. published' = staged /\ base = published /\ phase = "publish"
    BY OnlyPublish DEF PublishIndex
  <2>2. PICK i \in 1 .. Len(Order) : f = Order[i]
    BY DEF Platforms
  <2>3. i < next
    BY <2>1, OrderFacts DEF RunInv, RunShape, GeneratorTypeOK
  <2>4. Owed(f) \subseteq Packs(staged.files, f)
    BY <2>2, <2>3 DEF RunInv, Paid
  <2> QED  BY <2>1, <2>4 DEF Owed
<1> QED  BY <1>1, GeneratorInvariant, RunInvariant, PTL DEF GeneratorSpec, NothingIsForgotten

-----------------------------------------------------------------------------
(* The cache.                                                              *)

(* What the generator published is never older than what the site has.     *)
SiteInv ==
    /\ says \in Seq(Nat) /\ Len(says) >= 1
    /\ site \in [Keys -> Nat]
    /\ \A k \in Keys : site[k] <= Latest[k]

CacheInv ==
    /\ body \in [Keys -> Nat \cup {None}]
    /\ meta \in [Keys -> [etag : Nat, fetched : Nat] \cup {NoMeta}]
    /\ \A k \in Keys : body[k] <= site[k]
    /\ \A k \in Keys : meta[k] # NoMeta => meta[k].etag <= site[k]
    /\ MetaIsNeverAhead

(* The process is past its request, or half through an eviction.           *)
Inside(p) ==
    \/ pc[p] \in Reads /\ sub[p] \in {"ask", "body", "meta"}
    \/ pc[p] = "evict" /\ sub[p] = "drop"

(* What a read brings is as new as the entry and no newer than the site.   *)
Brings(p) ==
    LET k == Key(p)
    IN  /\ pc[p] \in Reads /\ sub[p] = "body"
             => /\ hand[p] = tag[p]
                /\ body[k] <= hand[p] /\ hand[p] <= site[k]
                /\ meta[k] # NoMeta => meta[k].etag <= hand[p]
        /\ pc[p] \in Reads /\ sub[p] = "meta"
             => body[k] = hand[p] /\ tag[p] <= hand[p]

ReadInv ==
    /\ now \in Nat
    /\ pc \in [Procs -> Reads \cup {"idle", "evict", "hit", "miss"}]
    /\ sub \in [Procs -> {"wait", "ask", "body", "meta", "drop"}]
    /\ idx \in [Procs -> Nat]
    /\ hand \in [Procs -> Nat]
    /\ tag \in [Procs -> Nat]
    /\ lock \in Procs \cup {Nobody}
    /\ \A p \in Procs : Inside(p) => lock = p
    /\ \A p \in Procs : pc[p] = "evict" => sub[p] \in {"wait", "drop"}
    /\ \A p \in Procs : Brings(p)

CatalogInv == SiteInv /\ CacheInv /\ ReadInv

-----------------------------------------------------------------------------

LEMMA KeyIsOne == \A p \in Procs : Key(p) \in Keys
BY DEF Key, Keys

(* The reads that change no file: they end, or wait, or take the lock.     *)
LEMMA LookStep ==
    ASSUME CatalogInv, NEW p \in Procs,
           \/ Begin(p) \/ GetFresh(p) \/ GetStale(p) \/ Unreachable(p)
           \/ GetFails(p) \/ Crash(p)
    PROVE  CatalogInv'
<1> USE CatalogAssumption, KeyIsOne DEF CatalogInv, CacheInv, ReadInv, Inside, Brings,
        Reads, Ended, Goto, GoSub, world, cache, reply
<1>1. SiteInv' /\ CacheInv'
  BY DEF Begin, GetFresh, GetStale, Unreachable, GetFails, Crash, SiteInv,
     Latest, MetaIsNeverAhead, Cached
<1>2. CASE Begin(p)
  BY <1>1, <1>2 DEF Begin, Key
<1>3. CASE GetFresh(p)
  BY <1>1, <1>3 DEF GetFresh, Return, Fresh, Cached, Free, Key, Keys
<1>4. CASE GetStale(p)
  BY <1>1, <1>4 DEF GetStale, Free, Key
<1>5. CASE Unreachable(p)
  BY <1>1, <1>5 DEF Unreachable, Return, Error, Cached, Unlock, Key, Keys
<1>6. CASE GetFails(p)
  BY <1>1, <1>6 DEF GetFails, Error, Unlock, Key
<1>7. CASE Crash(p)
  BY <1>1, <1>7 DEF Crash, Unlock, Key
<1> QED  BY <1>2, <1>3, <1>4, <1>5, <1>6, <1>7

(* The site's answer.                                                      *)
LEMMA AskStep ==
    ASSUME CatalogInv, NEW p \in Procs, NotModified(p) \/ Modified(p)
    PROVE  /\ CatalogInv'
           /\ hand'[p] = site[Key(p)]
<1> USE CatalogAssumption DEF CatalogInv, CacheInv, ReadInv, Inside, Brings,
        Reads, Ended, Goto, GoSub, world, cache, reply
<1>1. SiteInv' /\ CacheInv'
  BY DEF NotModified, Modified, SiteInv, Latest, MetaIsNeverAhead, Cached
<1>2. Key(p) \in Keys
  BY DEF Key, Keys
<1>3. /\ site[Key(p)] \in Nat
      /\ body[Key(p)] \in Nat \cup {-1} /\ body[Key(p)] <= site[Key(p)]
      /\ meta[Key(p)] # NoMeta
           => meta[Key(p)].etag \in Nat /\ meta[Key(p)].etag <= site[Key(p)]
  BY <1>2 DEF SiteInv, None
<1>4. CASE NotModified(p)
  <2>1. body[Key(p)] = site[Key(p)] /\ meta[Key(p)].etag = site[Key(p)]
    <3>1. Cached(Key(p)) /\ meta[Key(p)].etag = site[Key(p)]
      BY <1>4 DEF NotModified
    <3>2. meta[Key(p)].etag <= body[Key(p)]
      BY <1>2, <3>1 DEF MetaIsNeverAhead
    <3>3. /\ site[Key(p)] \in Nat /\ body[Key(p)] \in Int
          /\ body[Key(p)] <= site[Key(p)]
      BY <1>3
    <3> QED  BY <3>1, <3>2, <3>3
  <2>2. body[Key(p)] \in Nat
    BY <1>3, <2>1, <1>2 DEF SiteInv
  <2>3. meta[Key(p)].etag \in Nat
    BY <1>3, <1>4 DEF NotModified, Cached
  <2> QED
    BY <1>1, <1>2, <1>4, <2>1, <2>2, <2>3 DEF NotModified, Return, Unlock, Key
<1>5. CASE Modified(p)
  BY <1>1, <1>3, <1>5 DEF Modified, Key
<1> QED  BY <1>4, <1>5

(* The writes and the removals, each under the lock.                       *)
LEMMA WriteStep ==
    ASSUME CatalogInv, NEW p \in Procs, Write(p) \/ Evict(p)
    PROVE  CatalogInv'
<1> USE CatalogAssumption DEF CatalogInv, CacheInv, ReadInv, Inside, Brings,
        Reads, Ended, Goto, GoSub, world, cache, reply
<1>1. SiteInv'
  BY DEF Write, Evict, SiteInv, Latest
<1>2. Key(p) \in Keys
  BY DEF Key, Keys
<1>3. /\ site[Key(p)] \in Nat
      /\ body[Key(p)] \in Nat \cup {-1} /\ body[Key(p)] <= site[Key(p)]
      /\ meta[Key(p)] # NoMeta
           => meta[Key(p)].etag \in Nat /\ meta[Key(p)].etag <= site[Key(p)]
  BY <1>2 DEF SiteInv, None
<1>4. CASE Write(p) /\ sub[p] = "body"
  <2>1. /\ body' = [body EXCEPT ![Key(p)] = hand[p]]
        /\ GoSub(p, "meta")
        /\ UNCHANGED <<meta, pc, idx, lock, says, site, now, hand, tag>>
    BY <1>4 DEF Write
  <2>2. hand[p] = tag[p] /\ hand[p] <= site[Key(p)] /\ hand[p] \in Nat
    BY <1>4 DEF Write
  <2>3. meta[Key(p)] # NoMeta => meta[Key(p)].etag <= hand[p]
    BY <1>4 DEF Write
  <2>4. body' \in [Keys -> Nat \cup {None}]
    BY <1>2, <2>1, <2>2
  <2>5. \A k \in Keys : body'[k] <= site'[k]
    BY <1>2, <2>1, <2>2
  <2>6. MetaIsNeverAhead'
    BY <1>2, <2>1, <2>2, <2>3 DEF MetaIsNeverAhead, Cached
  <2>7. CacheInv'
    BY <2>1, <2>4, <2>5, <2>6
  <2>8. ReadInv'
    <3>1. Key(p)' = Key(p)
      BY <2>1 DEF Key
    <3>2. Brings(p)'
      BY <1>2, <2>1, <2>2, <3>1
    <3>3. \A q \in Procs : q # p => Brings(q)'
      BY <1>4, <2>1 DEF Write, Key
    <3> QED  BY <1>4, <2>1, <3>2, <3>3 DEF Write
  <2> QED  BY <1>1, <2>7, <2>8
<1>5. CASE Write(p) /\ sub[p] = "meta"
  <2>1. /\ meta' = [meta EXCEPT ![Key(p)] = Sidecar(p)]
        /\ UNCHANGED <<body, says, site, now, hand, tag>>
    BY <1>5 DEF Write
  <2>2. body[Key(p)] = hand[p] /\ tag[p] <= hand[p] /\ pc[p] \in Reads
    BY <1>5 DEF Write
  <2>3. Sidecar(p) \in [etag : Nat, fetched : Nat] /\ Sidecar(p).etag = tag[p]
    BY DEF Sidecar
  <2>4. meta' \in [Keys -> [etag : Nat, fetched : Nat] \cup {NoMeta}]
    BY <2>1, <2>3
  <2>5. \A k \in Keys : meta'[k] # NoMeta => meta'[k].etag <= site'[k]
    <3>1. tag[p] <= site[Key(p)]
      BY <1>3, <2>2
    <3> QED  BY <1>2, <2>1, <2>3, <3>1
  <2>6. MetaIsNeverAhead'
    BY <1>2, <2>1, <2>2, <2>3 DEF MetaIsNeverAhead, Cached
  <2>7. CacheInv'
    BY <2>1, <2>4, <2>5, <2>6
  <2>8. ReadInv'
    <3>1. \A q \in Procs : q # p => ~Inside(q) /\ ~Inside(q)'
      BY <1>5 DEF Write, Return, Unlock
    <3>2. pc'[p] \notin {"index", "again"} /\ sub'[p] = "wait"
      BY <1>5 DEF Write, Return
    <3> QED  BY <1>5, <2>1, <3>1, <3>2 DEF Write, Return, Unlock
  <2> QED  BY <1>1, <2>7, <2>8
<1>6. CASE Evict(p)
  <2>1. CacheInv'
    <3>1. body' = body \/ body' = [body EXCEPT !["file"] = None]
      BY <1>6 DEF Evict
    <3>2. meta' = meta \/ meta' = [meta EXCEPT !["file"] = NoMeta]
      BY <1>6 DEF Evict
    <3>3. \A k \in Keys : (body'[k] = body[k] \/ body'[k] = None)
                        /\ (meta'[k] = meta[k] \/ meta'[k] = NoMeta)
      BY <3>1, <3>2
    <3>4. /\ body' \in [Keys -> Nat \cup {None}]
          /\ meta' \in [Keys -> [etag : Nat, fetched : Nat] \cup {NoMeta}]
      BY <3>1, <3>2
    <3>5. site' = site
      BY <1>6 DEF Evict
    <3>6. \A k \in Keys : body'[k] <= site'[k]
      <4> TAKE k \in Keys
      <4>1. site[k] \in Nat /\ body[k] <= site[k]
        BY DEF SiteInv
      <4> QED  BY <3>3, <3>5, <4>1 DEF None
    <3>7. MetaIsNeverAhead'
      BY <3>3 DEF MetaIsNeverAhead, Cached
    <3> QED  BY <3>3, <3>4, <3>5, <3>6, <3>7
  <2> QED  BY <1>1, <1>6, <2>1 DEF Evict, Free, Unlock, Key
<1> QED  BY <1>4, <1>5, <1>6 DEF Write

(* What is published later is no older.                                    *)
LEMMA LatestGrows ==
    ASSUME SiteInv, Publish
    PROVE  SiteInv' /\ site' = site
<1>1. PICK g \in {Latest.file, Latest.file + 1} : says' = Append(says, g)
  BY DEF Publish
<1>2. says[Len(says)] \in Nat
  BY DEF SiteInv
<1>3. g \in Nat /\ g >= says[Len(says)]
  BY <1>1, <1>2 DEF Latest
<1>4. /\ says' \in Seq(Nat) /\ Len(says') = Len(says) + 1
      /\ says'[Len(says')] = g
  BY <1>1, <1>3 DEF SiteInv
<1>5. site' = site
  BY DEF Publish
<1>6. site["index"] <= Len(says) - 1 /\ site["file"] <= says[Len(says)]
  BY DEF SiteInv, Latest, Keys
<1>7. site["index"] <= Len(says') - 1 /\ site["file"] <= says'[Len(says')]
  BY <1>2, <1>3, <1>4, <1>6 DEF SiteInv, Keys
<1> QED  BY <1>4, <1>5, <1>7 DEF SiteInv, Latest, Keys

(* Time passes and the site moves on, forward.                             *)
LEMMA WorldStep ==
    ASSUME CatalogInv, Tick \/ Publish \/ \E k \in Keys : CatchUp(k)
    PROVE  CatalogInv'
<1> USE CatalogAssumption DEF CatalogInv, CacheInv, ReadInv, Inside, Brings,
        MetaIsNeverAhead, Cached, cache, reply, Key
<1>1. CASE Tick
  <2>1. UNCHANGED <<says, site, body, meta, lock, pc, sub, idx, tag, hand>> /\ now' \in Nat
    BY <1>1 DEF Tick
  <2>2. SiteInv' /\ CacheInv'
    BY <2>1 DEF SiteInv, Latest
  <2>3. ReadInv'
    BY <2>1
  <2> QED  BY <2>2, <2>3
<1>2. CASE Publish
  BY <1>2, LatestGrows DEF Publish
<1>3. ASSUME NEW k \in Keys, CatchUp(k)
      PROVE  CatalogInv'
  <2>1. Latest[k] \in Nat /\ site[k] <= Latest[k]
    BY DEF SiteInv, Latest, Keys
  <2>2. site' = [site EXCEPT ![k] = Latest[k]] /\ says' = says
    BY <1>3 DEF CatchUp
  <2>3. site' \in [Keys -> Nat] /\ \A j \in Keys : site'[j] >= site[j]
    BY <2>1, <2>2 DEF SiteInv
  <2>4. SiteInv'
    BY <2>1, <2>2, <2>3 DEF SiteInv, Latest
  <2>5. CacheInv'
    <3>1. body' = body /\ meta' = meta
      BY <1>3 DEF CatchUp
    <3>2. \A j \in Keys : body[j] <= site'[j]
      <4> TAKE j \in Keys
      <4>1. /\ site[j] \in Nat /\ site'[j] \in Nat /\ site'[j] >= site[j]
            /\ body[j] \in Nat \cup {-1} /\ body[j] <= site[j]
        BY <2>3 DEF SiteInv, None
      <4> QED  BY <4>1
    <3>3. \A j \in Keys : meta[j] # NoMeta => meta[j].etag <= site'[j]
      <4> SUFFICES ASSUME NEW j \in Keys, meta[j] # NoMeta
                   PROVE  meta[j].etag <= site'[j]
        OBVIOUS
      <4>1. /\ site[j] \in Nat /\ site'[j] \in Nat /\ site'[j] >= site[j]
            /\ meta[j].etag \in Nat /\ meta[j].etag <= site[j]
        BY <2>3 DEF SiteInv
      <4> QED  BY <4>1
    <3> QED  BY <3>1, <3>2, <3>3
  <2>6. ReadInv'
    <3>1. \A q \in Procs : Key(q) \in Keys
      BY DEF Keys
    <3>2. \A q \in Procs : site'[Key(q)] >= site[Key(q)]
                            /\ site'[Key(q)] \in Nat /\ site[Key(q)] \in Nat
      BY <2>3, <3>1 DEF SiteInv
    <3> HIDE DEF Key
    <3>3. \A q \in Procs : Key(q)' = Key(q)
      BY <1>3 DEF CatchUp, Key
    <3>4. \A q \in Procs : Brings(q)'
      BY <1>3, <3>2, <3>3 DEF CatchUp
    <3> QED  BY <1>3, <3>4 DEF CatchUp
  <2> QED  BY <2>4, <2>5, <2>6
<1> QED  BY <1>1, <1>2, <1>3

LEMMA CatalogStep == CatalogInv /\ [Next]_vars => CatalogInv'
<1> SUFFICES ASSUME CatalogInv, [Next]_vars
             PROVE  CatalogInv'
  OBVIOUS
<1>1. CASE UNCHANGED vars
  BY <1>1 DEF vars, CatalogInv, SiteInv, CacheInv, ReadInv, Inside, Brings,
     MetaIsNeverAhead, Cached, Latest, Key
<1>2. CASE Next
  BY <1>2, LookStep, AskStep, WriteStep, WorldStep DEF Next, Work
<1> QED  BY <1>1, <1>2

LEMMA CatalogInvariant == Spec => []CatalogInv
<1>1. Init => CatalogInv
  BY CatalogAssumption DEF Init, CatalogInv, SiteInv, CacheInv, ReadInv, Inside,
     Brings, MetaIsNeverAhead, Cached, Latest, Key, Keys, None, NoMeta, Reads
<1> QED  BY <1>1, CatalogStep, PTL DEF Spec

(* For any number of lookups and generations, the state has its type.      *)
THEOREM Typing == Spec => []TypeOK
<1>1. CatalogInv => TypeOK
  BY DEF CatalogInv, SiteInv, CacheInv, ReadInv, TypeOK
<1> QED  BY <1>1, CatalogInvariant, PTL

(* And a sidecar is never ahead of the body it describes, wherever a       *)
(* process died.                                                           *)
THEOREM SidecarsAreBehind == Spec => []MetaIsNeverAhead
<1>1. CatalogInv => MetaIsNeverAhead
  BY DEF CatalogInv, CacheInv
<1> QED  BY <1>1, CatalogInvariant, PTL

(* So a lookup that the site answers goes by what the site has now.        *)
THEOREM CurrentAnswers == Spec => AnswersAreCurrent
<1>1. CatalogInv
        => \A p \in Procs :
             NotModified(p) \/ Modified(p) => hand'[p] = site[Key(p)]
  BY AskStep
<1> QED  BY <1>1, CatalogInvariant, PTL DEF Spec, AnswersAreCurrent

(* And no body in the cache gives way to an older one.                     *)
THEOREM ForwardOnly == Spec => NeverBackwards
<1>1. CatalogInv /\ [Next]_vars
        => [\A k \in Keys : body'[k] # None => body'[k] >= body[k]]_vars
  <2> SUFFICES ASSUME CatalogInv, Next, NEW k \in Keys, body'[k] # None
               PROVE  body'[k] >= body[k]
    BY DEF vars
  <2>1. CASE body' = body
    BY <2>1 DEF CatalogInv, CacheInv, None
  <2>2. ASSUME NEW p \in Procs, Write(p)
        PROVE  body'[k] >= body[k]
    BY <2>2, KeyIsOne DEF Write, CatalogInv, CacheInv, ReadInv, Brings, None
  <2>3. ASSUME NEW p \in Procs, Evict(p)
        PROVE  body'[k] >= body[k]
    BY <2>3 DEF Evict, CatalogInv, CacheInv, None, Keys
  <2> QED
    BY <2>1, <2>2, <2>3 DEF Next, Work, Begin, GetFresh, GetStale, NotModified,
       Modified, Unreachable, GetFails, Crash, Tick, Publish, CatchUp, cache
<1> QED  BY <1>1, CatalogInvariant, PTL DEF Spec, NeverBackwards

(* The step in which a lookup finds its file is the end of its read, with  *)
(* the file that the cache then has.                                       *)
LEMMA HitStep ==
    ASSUME CatalogInv, Next, NEW p \in Procs, pc[p] # "hit", pc'[p] = "hit"
    PROVE  /\ body'["file"] = says[idx[p] + 1]
           /\ body'["index"] = body["index"] /\ says' = says
<1> USE DEF CatalogInv, ReadInv
<1>1. ASSUME NEW v, NEW q \in Procs, Return(q, v)
      PROVE  q = p /\ Key(p) = "file" /\ v = says[idx[p] + 1]
  BY <1>1 DEF Return, Goto, Key
<1>2. ASSUME NEW q \in Procs, GetFresh(q) \/ NotModified(q)
      PROVE  body["file"] = says[idx[p] + 1] /\ UNCHANGED <<body, says>>
  <2>1. Return(q, body[Key(q)]) /\ UNCHANGED <<body, says>>
    BY <1>2 DEF GetFresh, NotModified, world, cache
  <2> QED  BY <1>1, <2>1
<1>3. ASSUME NEW q \in Procs, Unreachable(q)
      PROVE  body["file"] = says[idx[p] + 1] /\ UNCHANGED <<body, says>>
  <2>1. UNCHANGED <<body, says>> /\ (Return(q, body[Key(q)]) \/ Error(q))
    BY <1>3 DEF Unreachable, world, cache
  <2>2. ~Error(q)
    BY DEF Error, Goto
  <2> QED  BY <1>1, <2>1, <2>2
<1>4. ASSUME NEW q \in Procs, Write(q)
      PROVE  /\ body'["file"] = says[idx[p] + 1]
             /\ body'["index"] = body["index"] /\ says' = says
  <2>1. pc[q] \in Reads /\ sub[q] = "meta" /\ Return(q, hand[q]) /\ UNCHANGED <<body, says>>
    BY <1>4 DEF Write, world
  <2>2. body[Key(q)] = hand[q]
    BY <2>1 DEF Brings
  <2> QED  BY <1>1, <2>1, <2>2
<1>5. ASSUME NEW q \in Procs,
             Begin(q) \/ GetStale(q) \/ Modified(q) \/ GetFails(q) \/ Evict(q) \/ Crash(q)
      PROVE  FALSE
  BY <1>5 DEF Begin, GetStale, Modified, GetFails, Error, Evict, Crash, Goto
<1>6. ASSUME Tick \/ Publish \/ \E k \in Keys : CatchUp(k)
      PROVE  FALSE
  BY <1>6 DEF Tick, Publish, CatchUp
<1> QED  BY <1>2, <1>3, <1>4, <1>5, <1>6 DEF Next, Work

(* So a lookup that finds its file leaves a cache that doctor accepts.     *)
THEOREM HitsHeal == Spec => HitsHealTheCache
<1>1. CatalogInv /\ [Next]_vars
        => [\A p \in Procs :
              pc[p] # "hit" /\ pc'[p] = "hit" /\ idx[p] = body["index"]
                => CacheIntegrity']_vars
  <2> SUFFICES ASSUME CatalogInv, Next, NEW p \in Procs, pc[p] # "hit", pc'[p] = "hit",
                      idx[p] = body["index"]
               PROVE  CacheIntegrity'
    BY DEF vars
  <2> QED  BY HitStep DEF CacheIntegrity
<1> QED  BY <1>1, CatalogInvariant, PTL DEF Spec, HitsHealTheCache

=============================================================================
