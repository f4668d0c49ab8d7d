------------------------------ MODULE Catalog ------------------------------
(***************************************************************************)
(* The catalogue and its cache: index.json, which names the checksum of a  *)
(* platform file, and that file (jdk-core/src/catalog.rs), each cached     *)
(* with the ETag and the time of its fetch (jdk-core/src/cache.rs).        *)
(* A lookup reads the index, then the file, evicts and reads it again when *)
(* it is not the one the index names, and gives up for the live API when   *)
(* that fails too.  One inter-process lock is held over each read, its     *)
(* HTTP request included; between two reads other lookups run, and a       *)
(* process may die at any point.                                           *)
(***************************************************************************)
EXTENDS Integers, Sequences

CONSTANTS
    Procs,    \* the processes looking something up
    Nobody,   \* no process
    MaxGen,   \* bound: how often the site is published
    MaxTime,  \* bound: when the clock stops
    TTL       \* how long an entry is used without asking

ASSUME CatalogAssumption ==
    /\ Nobody \notin Procs
    /\ MaxGen \in Nat /\ MaxTime \in Nat /\ TTL \in Nat \ {0}

Keys == {"index", "file"}

(* No body and no meta.                                                    *)
None == -1
NoMeta == [etag |-> None, fetched |-> None]

VARIABLES
    says,     \* which file the index of each generation names
    site,     \* the generation of each file that the site answers with
    now,      \* the time
    body,     \* what is in the cache: the generation of each body,
    meta,     \* its ETag and the time of its fetch
    lock,     \* who holds cache\index.lock
    pc, sub,  \* where each lookup is, and where in its read of the cache
    idx,      \* the generation of the index it goes by
    hand, tag \* the body that its read will return, and its ETag

world == <<says, site, now>>
cache == <<body, meta>>
reply == <<hand, tag>>
vars  == <<says, site, now, body, meta, lock, pc, sub, idx, hand, tag>>

(* The read of the cache that is under way: of the index or of the file.   *)
Reads  == {"index", "file", "again"}
Key(p) == IF pc[p] = "index" THEN "index" ELSE "file"

TypeOK ==
    /\ says \in Seq(Nat)
    /\ site \in [Keys -> Nat]
    /\ now \in Nat
    /\ body \in [Keys -> Nat \cup {None}]
    /\ meta \in [Keys -> [etag : Nat, fetched : Nat] \cup {NoMeta}]
    /\ lock \in Procs \cup {Nobody}
    /\ pc \in [Procs -> Reads \cup {"idle", "evict", "hit", "miss"}]
    /\ sub \in [Procs -> {"wait", "ask", "body", "meta", "drop"}]
    /\ idx \in [Procs -> Nat]
    /\ hand \in [Procs -> Nat]
    /\ tag \in [Procs -> Nat]

Init ==
    /\ says = <<0>>
    /\ site = [k \in Keys |-> 0]
    /\ now = 0
    /\ body = [k \in Keys |-> None]
    /\ meta = [k \in Keys |-> NoMeta]
    /\ lock = Nobody
    /\ pc = [p \in Procs |-> "idle"]
    /\ sub = [p \in Procs |-> "wait"]
    /\ idx = [p \in Procs |-> 0]
    /\ hand = [p \in Procs |-> 0]
    /\ tag = [p \in Procs |-> 0]

-----------------------------------------------------------------------------

Ended == {"idle", "hit", "miss"}

Goto(p, l) == pc' = [pc EXCEPT ![p] = l]
GoSub(p, l) == sub' = [sub EXCEPT ![p] = l]

Begin(p) ==
    /\ pc[p] \in Ended
    /\ Goto(p, "index")
    /\ GoSub(p, "wait")
    /\ idx' = [idx EXCEPT ![p] = 0]
    /\ hand' = [hand EXCEPT ![p] = 0]
    /\ tag' = [tag EXCEPT ![p] = 0]
    /\ UNCHANGED <<world, cache, lock>>

(* Mutant: a file is used whatever its checksum.                           *)
ReturnUnchecked(p, v) ==
    /\ \/ /\ pc[p] = "index"
          /\ idx' = [idx EXCEPT ![p] = v]
          /\ pc' \in {[pc EXCEPT ![p] = l] : l \in {"file", "miss"}}
       \/ /\ pc[p] \in {"file", "again"}
          /\ Goto(p, "hit")
          /\ UNCHANGED idx
    /\ GoSub(p, "wait")

(* The read ends with the body v: the index is gone by, unless it does not *)
(* cover the vendor; the file is held against its checksum.                *)
Return(p, v) ==
    /\ \/ /\ pc[p] = "index"
          /\ idx' = [idx EXCEPT ![p] = v]
          /\ pc' \in {[pc EXCEPT ![p] = l] : l \in {"file", "miss"}}
       \/ /\ pc[p] \in {"file", "again"} /\ v = says[idx[p] + 1]
          /\ Goto(p, "hit")
          /\ UNCHANGED idx
       \/ /\ pc[p] \in {"file", "again"} /\ v # says[idx[p] + 1]
          /\ Goto(p, IF pc[p] = "file" THEN "evict" ELSE "miss")
          /\ UNCHANGED idx
    /\ GoSub(p, "wait")

(* The read ends with an error, and the lookup with it.                    *)
Error(p) ==
    /\ Goto(p, "miss")
    /\ GoSub(p, "wait")
    /\ UNCHANGED idx

(* read_entry: the body and the meta, or nothing when one is missing.      *)
Cached(k) == body[k] # None /\ meta[k] # NoMeta
Fresh(k)  == Cached(k) /\ now - meta[k].fetched < TTL

(* Mutant: reads take no lock.                                             *)
NeverHeld == TRUE

Free == lock = Nobody

(* Under the lock a fresh entry is returned as it is.                      *)
GetFresh(p) ==
    /\ pc[p] \in Reads /\ sub[p] = "wait"
    /\ Free
    /\ Fresh(Key(p))
    /\ Return(p, body[Key(p)])
    /\ UNCHANGED <<world, cache, lock, reply>>

(* For any other, the lock is kept and the site asked.                     *)
GetStale(p) ==
    /\ pc[p] \in Reads /\ sub[p] = "wait"
    /\ Free
    /\ ~Fresh(Key(p))
    /\ lock' = p
    /\ GoSub(p, "ask")
    /\ UNCHANGED <<world, cache, pc, idx, reply>>

(* Mutant: the lock outlives the read.                                     *)
StaysLocked(p) == lock' = lock

Unlock(p) == lock' = IF lock = p THEN Nobody ELSE lock

(* 304, against the cached ETag.  It never comes to the arm of Cache::get  *)
(* that would write the sidecar: the client takes it for a redirect, one   *)
(* without a Location, and the cache takes that error for an absent site.  *)
NotModified(p) ==
    /\ pc[p] \in Reads /\ sub[p] = "ask"
    /\ Cached(Key(p)) /\ meta[Key(p)].etag = site[Key(p)]
    /\ hand' = [hand EXCEPT ![p] = body[Key(p)]]
    /\ tag' = [tag EXCEPT ![p] = meta[Key(p)].etag]
    /\ Return(p, body[Key(p)])
    /\ Unlock(p)
    /\ UNCHANGED <<world, cache>>

(* 200, with a body.                                                       *)
Modified(p) ==
    /\ pc[p] \in Reads /\ sub[p] = "ask"
    /\ ~(Cached(Key(p)) /\ meta[Key(p)].etag = site[Key(p)])
    /\ hand' = [hand EXCEPT ![p] = site[Key(p)]]
    /\ tag' = [tag EXCEPT ![p] = site[Key(p)]]
    /\ GoSub(p, "body")
    /\ UNCHANGED <<world, cache, lock, pc, idx>>

(* No answer: the stale copy will do, when there is one.                   *)
Unreachable(p) ==
    /\ pc[p] \in Reads /\ sub[p] = "ask"
    /\ \/ Cached(Key(p)) /\ Return(p, body[Key(p)])
       \/ ~Cached(Key(p)) /\ Error(p)
    /\ Unlock(p)
    /\ UNCHANGED <<world, cache, reply>>

(* Any other status, or a write of the entry that is refused.              *)
GetFails(p) ==
    /\ pc[p] \in Reads /\ sub[p] \in {"ask", "body", "meta"}
    /\ Error(p)
    /\ Unlock(p)
    /\ UNCHANGED <<world, cache, reply>>

Sidecar(p) == [etag |-> tag[p], fetched |-> now]

(* Mutant: the sidecar is written before the body it describes.            *)
WriteMetaFirst(p) ==
    /\ pc[p] \in Reads
    /\ \/ /\ sub[p] = "body"
          /\ meta' = [meta EXCEPT ![Key(p)] = Sidecar(p)]
          /\ GoSub(p, "meta")
          /\ UNCHANGED <<body, pc, idx, lock>>
       \/ /\ sub[p] = "meta"
          /\ body' = [body EXCEPT ![Key(p)] = hand[p]]
          /\ Return(p, hand[p])
          /\ Unlock(p)
          /\ UNCHANGED meta
    /\ UNCHANGED <<world, reply>>

(* The body, after a 200, and then its sidecar; each is replaced whole.    *)
Write(p) ==
    /\ pc[p] \in Reads
    /\ \/ /\ sub[p] = "body"
          /\ body' = [body EXCEPT ![Key(p)] = hand[p]]
          /\ GoSub(p, "meta")
          /\ UNCHANGED <<meta, pc, idx, lock>>
       \/ /\ sub[p] = "meta"
          /\ meta' = [meta EXCEPT ![Key(p)] = Sidecar(p)]
          /\ Return(p, hand[p])
          /\ Unlock(p)
          /\ UNCHANGED body
    /\ UNCHANGED <<world, reply>>

(* evict: both files are removed under the lock, or left when in use.      *)
Evict(p) ==
    /\ pc[p] = "evict"
    /\ \/ /\ sub[p] = "wait"
          /\ Free
          /\ lock' = p
          /\ body' \in {body, [body EXCEPT !["file"] = None]}
          /\ GoSub(p, "drop")
          /\ UNCHANGED <<meta, pc>>
       \/ /\ sub[p] = "drop"
          /\ meta' \in {meta, [meta EXCEPT !["file"] = NoMeta]}
          /\ Goto(p, "again")
          /\ GoSub(p, "wait")
          /\ Unlock(p)
          /\ UNCHANGED body
    /\ UNCHANGED <<world, idx, reply>>

Crash(p) ==
    /\ pc[p] \notin Ended
    /\ Goto(p, "idle")
    /\ Unlock(p)
    /\ UNCHANGED <<world, cache, sub, idx, reply>>

-----------------------------------------------------------------------------
(* The world: time, and a generator that publishes an index and the file   *)
(* it names, which reach the servers that answer at different times.       *)

Tick ==
    /\ now < MaxTime
    /\ now' = now + 1
    /\ UNCHANGED <<says, site, cache, lock, pc, sub, idx, reply>>

Latest == [index |-> Len(says) - 1, file |-> says[Len(says)]]

Publish ==
    /\ Len(says) <= MaxGen
    /\ says' \in {Append(says, Latest.file), Append(says, Latest.file + 1)}
    /\ UNCHANGED <<site, now, cache, lock, pc, sub, idx, reply>>

CatchUp(k) ==
    /\ site[k] # Latest[k]
    /\ site' = [site EXCEPT ![k] = Latest[k]]
    /\ UNCHANGED <<says, now, cache, lock, pc, sub, idx, reply>>

-----------------------------------------------------------------------------

Work(p) ==
    \/ GetFresh(p) \/ GetStale(p) \/ NotModified(p) \/ Modified(p)
    \/ Unreachable(p) \/ GetFails(p) \/ Write(p) \/ Evict(p)

Next ==
    \/ \E p \in Procs : Begin(p) \/ Work(p) \/ Crash(p)
    \/ Tick \/ Publish
    \/ \E k \in Keys : CatchUp(k)

Spec == Init /\ [][Next]_vars

(* A request ends, answered or timed out (http.rs), and Windows passes the *)
(* lock on to those that wait for it.                                      *)
FairSpec == Spec /\ \A p \in Procs : SF_vars(Work(p))

-----------------------------------------------------------------------------
(* doctor's cache_integrity: the file in the cache is the one whose        *)
(* checksum the index in the cache names.  It goes by what is there,       *)
(* however old and without its sidecar.                                    *)
CacheIntegrity ==
    body["index"] # None /\ body["file"] # None
        => body["file"] = says[body["index"] + 1]

-----------------------------------------------------------------------------
(* Properties.                                                             *)

(* A sidecar never describes a body newer than the one beside it, whoever  *)
(* dies between the two writes: a 304 would keep the old one for good.     *)
MetaIsNeverAhead ==
    \A k \in Keys : Cached(k) => meta[k].etag <= body[k]

(* When the site answers, what the read returns is what the site has, by   *)
(* 200 or by 304 (cache.rs:52-55).                                         *)
AnswersAreCurrent ==
    [][\A p \in Procs :
         NotModified(p) \/ Modified(p) => hand'[p] = site[Key(p)]]_vars

(* A lookup that finds its file leaves a cache that doctor accepts, unless *)
(* others have meanwhile got a newer index: a file of another index, which *)
(* doctor calls corrupt, is evicted by whoever comes for it                *)
(* (catalog.rs:249-261, doctor.rs:529-580).                                *)
HitsHealTheCache ==
    [][\A p \in Procs :
         pc[p] # "hit" /\ pc'[p] = "hit" /\ idx[p] = body["index"]
           => CacheIntegrity']_vars

(* What the site has just confirmed is not asked for again before it       *)
(* expires: "a 304 refreshes the clock" (cache.rs:54).                     *)
ConfirmedIsFresh ==
    [][\A p \in Procs : NotModified(p) => now' - meta'[Key(p)].fetched < TTL]_vars

(* No lookup puts an older body in the cache over a newer one, however     *)
(* slow its request was (cache.rs:4-7, 155-158).                           *)
NeverBackwards ==
    [][\A k \in Keys : body'[k] # None => body'[k] >= body[k]]_vars

(* Every lookup ends, though each waits for the requests of the others.    *)
EveryLookupEnds == \A p \in Procs : pc[p] \notin Ended ~> pc[p] \in Ended

=============================================================================
