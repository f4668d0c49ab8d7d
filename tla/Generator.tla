------------------------------ MODULE Generator ------------------------------
(***************************************************************************)
(* jdk-index-gen, run every day by .github/workflows/index.yml: it lists   *)
(* the packages of every vendor and architecture at foojay, finds a sha256 *)
(* for each, stages the index, and refuses to have it published if a       *)
(* required vendor is missing or the index has shrunk too much.  The index *)
(* published before is the baseline of that comparison and the table of    *)
(* the hashes already known.                                               *)
(*                                                                         *)
(* Runs come one at a time.  Foojay and the vendors change between them: a *)
(* run asks for everything once, so a change during a run is one before or *)
(* after it.                                                               *)
(***************************************************************************)
EXTENDS Integers, Sequences, FiniteSets

CONSTANTS
    Packages,   \* what vendors have, by platform, version and URL
    Order,      \* the platforms, in the order in which they are fetched
    Required,   \* the vendors that must be there for x64
    Direct,     \* the URLs that may be published
    Rebuilt,    \* the URLs whose archive a vendor may replace
    Budget,     \* how many archives may be downloaded per platform
    MaxShrink,  \* the percentage by which a count may fall
    Stamps      \* the times at which runs begin

Platforms == {Order[i] : i \in 1 .. Len(Order)}
URLs      == {k.url : k \in Packages}
Checksums == {"inline", "uri", "sha1", "none"}

ASSUME GeneratorAssumption ==
    /\ Packages \subseteq [platform : Platforms, version : Nat, ea : BOOLEAN,
                           url : Nat, checksum : Checksums]
    /\ \A k, l \in Packages :
         k.platform = l.platform /\ k.version = l.version /\ k.url = l.url => k = l
    /\ Order \in Seq(Platforms)
    /\ \A v \in Required : [vendor |-> v, arch |-> "x64"] \in Platforms
    /\ Budget \in Nat /\ MaxShrink \in 0 .. 100
    /\ "never" \notin Stamps /\ \A s \in Stamps : Stamps # {s}
    /\ IsFiniteSet(Packages)

(* An archive is the one first built or the one that replaced it, and so is*)
(* the hash of it.                                                         *)
Builds == {0, 1}
Entry  == [pack : Packages, sha : Builds]

NoIndex == [updated |-> "never", files |-> [f \in Platforms |-> {}]]
Index   == [updated : Stamps \cup {"never"}, files : [Platforms -> SUBSET Entry]]

VARIABLES
    listed,     \* the packages foojay lists
    served,     \* what is behind each URL
    announced,  \* what foojay says is behind it
    published,  \* the index
    phase,      \* where the run is
    base,       \* the published index, if it could be read
    next,       \* the platform it is at
    queue,      \* the packages of the platform still to be hashed
    budget,     \* how many more it may download
    staged      \* what it has found

upstream == <<listed, served, announced>>
generatorVars ==
    <<listed, served, announced, published, phase, base, next, queue, budget, staged>>

GeneratorTypeOK ==
    /\ listed \subseteq Packages
    /\ served \in [URLs -> Builds] /\ announced \in [URLs -> Builds]
    /\ published \in Index /\ base \in Index
    /\ phase \in {"idle", "fetch", "hash", "tree", "guard", "publish"}
    /\ next \in 1 .. Len(Order) + 1
    /\ queue \subseteq Packages
    /\ budget \in 0 .. Budget
    /\ staged \in Index

Idle ==
    /\ phase = "idle" /\ base = NoIndex /\ next = 1 /\ queue = {}
    /\ budget = Budget /\ staged = NoIndex

GeneratorInit ==
    /\ listed = Packages
    /\ served = [u \in URLs |-> 0]
    /\ announced = [u \in URLs |-> 0]
    /\ published = NoIndex
    /\ Idle

-----------------------------------------------------------------------------

(* The run is over, with nothing published.                                *)
Fail ==
    /\ phase' = "idle" /\ base' = NoIndex /\ next' = 1 /\ queue' = {}
    /\ budget' = Budget /\ staged' = NoIndex
    /\ UNCHANGED published

(* validate::published: whatever keeps index.json from being read is taken *)
(* for the first run ever, but a file of it that cannot be read is not.    *)
BeginRun ==
    /\ phase = "idle"
    /\ base' \in {published, NoIndex}
    /\ phase' = "fetch"
    /\ UNCHANGED <<upstream, published, next, queue, budget, staged>>

At == Order[next]

(* One package per version: the one of the first URL.                      *)
First(S) == {k \in S : \A l \in S : l.version = k.version => k.url <= l.url}

Survivors(items) == First({k \in items : k.url \in Direct})

(* The listings and the details: early access may be missing.              *)
List ==
    /\ phase = "fetch" /\ next <= Len(Order)
    /\ LET here == {k \in listed : k.platform = At}
       IN  \E items \in {here, {k \in here : ~k.ea}} :
             queue' = Survivors(items)
    /\ budget' = Budget
    /\ phase' = "hash"
    /\ UNCHANGED <<upstream, published, base, next, staged>>

(* Mutant: a vendor that cannot be listed is left out, whoever it is.      *)
MayBeMissingAny(vendor) == TRUE

MayBeMissing(vendor) == vendor \notin Required

(* The stable listing or one of the details fails.                         *)
ListFails ==
    /\ phase = "fetch" /\ next <= Len(Order)
    /\ \/ /\ MayBeMissing(At.vendor)
          /\ next' = next + 1
          /\ UNCHANGED <<published, phase, base, queue, budget, staged>>
       \/ ~MayBeMissing(At.vendor) /\ Fail
    /\ UNCHANGED upstream

-----------------------------------------------------------------------------
(* The sha256 of a package.                                                *)

(* What an index says is behind a URL.                                     *)
Hashes(index, url) ==
    {e.sha : e \in {x \in UNION {index.files[f] : f \in Platforms} : x.pack.url = url}}

Known(k) == Hashes(base, k.url)

(* The vendor's: inline, or in the file of a URI, which may not answer.    *)
Cheap(k) == IF k.checksum \in {"inline", "uri"} THEN {announced[k.url]} ELSE {}

MayMiss(k) == k.checksum # "inline"

(* The archive, against the sha1 if that is what is announced.             *)
Downloaded(k) ==
    IF k.checksum = "sha1" /\ announced[k.url] # served[k.url] THEN {} ELSE {served[k.url]}

Keep(k, sha) ==
    /\ staged' = [staged EXCEPT !.files[At] = @ \cup {[pack |-> k, sha |-> sha]}]
    /\ queue' = queue \ {k}

(* The newest first.                                                       *)
Heads == {k \in queue : \A l \in queue : l.version <= k.version}

HashIsAnnounced ==
    /\ phase = "hash"
    /\ \E k \in Heads : \E sha \in Cheap(k) : Keep(k, sha)
    /\ UNCHANGED <<upstream, published, phase, base, next, budget>>

(* Mutant: an archive is downloaded again although its hash is known.      *)
DownloadsAgain(k) == MayMiss(k)

Downloads(k) == MayMiss(k) /\ Known(k) = {}

HashIsKnown ==
    /\ phase = "hash"
    /\ \E k \in Heads :
         /\ MayMiss(k)
         /\ \E sha \in Known(k) : Keep(k, sha)
    /\ UNCHANGED <<upstream, published, phase, base, next, budget>>

(* Mutant: the budget is not looked at.                                    *)
LeftUnlimited == TRUE

Left == budget > 0

(* tofu_sha256: trusted on first use, if the budget lasts.                 *)
HashOnFirstUse ==
    /\ phase = "hash"
    /\ Left
    /\ budget' = budget - 1
    /\ \E k \in Heads :
         /\ Downloads(k)
         /\ \/ \E sha \in Downloaded(k) : Keep(k, sha)
            \/ queue' = queue \ {k} /\ UNCHANGED staged
    /\ UNCHANGED <<upstream, published, phase, base, next>>

(* A later run will backfill it.                                           *)
OverBudget ==
    /\ phase = "hash"
    /\ ~Left
    /\ \E k \in Heads : Downloads(k) /\ queue' = queue \ {k}
    /\ UNCHANGED <<upstream, published, phase, base, next, budget, staged>>

Hashed ==
    /\ phase = "hash" /\ queue = {}
    /\ phase' = "fetch"
    /\ next' = next + 1
    /\ UNCHANGED <<upstream, published, base, queue, budget, staged>>

-----------------------------------------------------------------------------
(* The index: staged, validated, published.                                *)

(* An unchanged catalogue keeps its stamp.                                 *)
Stamp(today) ==
    IF base # NoIndex /\ base.files = staged.files THEN base.updated ELSE today

Stage ==
    /\ phase = "fetch" /\ next > Len(Order)
    /\ \E today \in Stamps \ {published.updated} :
         staged' = [staged EXCEPT !.updated = Stamp(today)]
    /\ phase' = "tree"
    /\ UNCHANGED <<upstream, published, base, next, queue, budget>>

HasRequired(files) ==
    \A v \in Required : files[[vendor |-> v, arch |-> "x64"]] # {}

Tree ==
    /\ phase = "tree"
    /\ \/ /\ HasRequired(staged.files)
          /\ phase' = "guard"
          /\ UNCHANGED <<published, base, next, queue, budget, staged>>
       \/ ~HasRequired(staged.files) /\ Fail
    /\ UNCHANGED upstream

Total(files) == Cardinality(UNION {files[f] : f \in Platforms})

(* Mutant: a count may fall to what MaxShrink says.                        *)
ShrinksBelow(old, new) == new < old /\ new * 100 < MaxShrink * old

Shrinks(old, new) == new < old /\ (old - new) * 100 > MaxShrink * old

Hard(f) == f.vendor \in Required /\ f.arch = "x64"

(* The whole, and the file of each required vendor for x64, against the    *)
(* baseline.                                                               *)
Refused(old, new) ==
    \/ Shrinks(Total(old), Total(new))
    \/ \E f \in Platforms : Hard(f) /\ Shrinks(Cardinality(old[f]), Cardinality(new[f]))

Guard ==
    /\ phase = "guard"
    /\ \/ Refused(base.files, staged.files) /\ Fail
       \/ /\ ~Refused(base.files, staged.files)
          /\ phase' = "publish"
          /\ UNCHANGED <<published, base, next, queue, budget, staged>>
    /\ UNCHANGED upstream

(* The workflow pushes what is staged, or nothing if that is the same.     *)
PublishIndex ==
    /\ phase = "publish"
    /\ published' = staged
    /\ phase' = "idle" /\ base' = NoIndex /\ next' = 1 /\ queue' = {}
    /\ budget' = Budget /\ staged' = NoIndex
    /\ UNCHANGED upstream

(* A write or the push fails, or the job runs out of time.                 *)
Abort ==
    /\ phase # "idle"
    /\ Fail
    /\ UNCHANGED upstream

-----------------------------------------------------------------------------
(* Foojay and the vendors.                                                 *)

Still == UNCHANGED <<published, phase, base, next, queue, budget, staged>>

Appear(k) ==
    /\ phase = "idle" /\ k \notin listed
    /\ listed' = listed \cup {k}
    /\ UNCHANGED <<served, announced>> /\ Still

Withdraw(k) ==
    /\ phase = "idle" /\ k \in listed
    /\ listed' = listed \ {k}
    /\ UNCHANGED <<served, announced>> /\ Still

Rebuild(u) ==
    /\ phase = "idle" /\ served[u] = 0
    /\ served' = [served EXCEPT ![u] = 1]
    /\ UNCHANGED <<listed, announced>> /\ Still

Announce(u) ==
    /\ phase = "idle" /\ announced[u] # served[u]
    /\ announced' = [announced EXCEPT ![u] = served[u]]
    /\ UNCHANGED <<listed, served>> /\ Still

GeneratorNext ==
    \/ BeginRun \/ List \/ ListFails
    \/ HashIsAnnounced \/ HashIsKnown \/ HashOnFirstUse \/ OverBudget \/ Hashed
    \/ Stage \/ Tree \/ Guard \/ PublishIndex \/ Abort
    \/ \E k \in Packages : Appear(k) \/ Withdraw(k)
    \/ \E u \in Rebuilt : Rebuild(u) \/ Announce(u)

GeneratorSpec == GeneratorInit /\ [][GeneratorNext]_generatorVars

-----------------------------------------------------------------------------
(* Properties.                                                             *)

(* Whatever fails at foojay, the index has every required vendor for x64   *)
(* (main.rs:40-44).                                                        *)
RequiredFloor ==
    published # NoIndex =>
      \A v \in Required : published.files[[vendor |-> v, arch |-> "x64"]] # {}

(* A run that could read the index (validate.rs:233) replaces it.          *)
Publishes == published' # published /\ base # NoIndex

(* From one index to the next neither the whole nor the x64 file of a      *)
(* required vendor shrinks by more than MaxShrink, if the former could be  *)
(* read (validate.rs:127-133).                                             *)
ShrinkIsBounded ==
    [][Publishes =>
         \A f \in {g \in Platforms : Hard(g)} :
           /\ Cardinality(published'.files[f]) * 100
                >= (100 - MaxShrink) * Cardinality(published.files[f])
           /\ Total(published'.files) * 100
                >= (100 - MaxShrink) * Total(published.files)]_generatorVars

(* A URL that the index has a hash for keeps one it has, or takes the      *)
(* vendor's own, never that of another download, if the index could be     *)
(* read (fetch.rs:23-25).                                                  *)
TrustedOnce ==
    [][Publishes =>
         \A f \in Platforms : \A e \in published'.files[f] :
           Hashes(published, e.pack.url) # {} =>
             e.sha \in Hashes(published, e.pack.url) \cup Cheap(e.pack)]_generatorVars

(* A new index has something new, if the former could be read: the stamp   *)
(* of an unchanged catalogue is not renewed (main.rs:165-167).             *)
UnchangedKeepsStamp == [][Publishes => published'.files # published.files]_generatorVars

(* What a required vendor has in the index, and foojay lists as stable     *)
(* still, is in the next index, whatever fails but the reading of the      *)
(* index itself (validate.rs:233): the run ends rather than leave it out   *)
(* (fetch.rs:40-44).                                                       *)
NothingIsForgotten ==
    [][Publishes =>
         \A f \in {g \in Platforms : g.vendor \in Required} :
           LET here   == {k \in listed : k.platform = f}
               stable == {k \in Survivors(here) : ~k.ea}
           IN  {e.pack : e \in published.files[f]} \cap stable
                 \subseteq {e.pack : e \in published'.files[f]}]_generatorVars

=============================================================================
