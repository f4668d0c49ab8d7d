---------------------------- MODULE Fetch_proofs ----------------------------
(***************************************************************************)
(* What comes over the network and stays: the releases of jdk itself       *)
(* (Update), and the archives of JDKs (Download).  Requests of an update   *)
(* go where their source says, for any redirects; the copies of a release  *)
(* are in step unless something went wrong, for any number of tools; what  *)
(* is installed is what was signed, and never older, if what is signed is  *)
(* true; and what a download renames in is the archive it wanted, for any  *)
(* archives, answers and history of broken runs.                           *)
(***************************************************************************)
EXTENDS Update, Download, SequenceTheorems, WellFoundedInduction, NaturalsInduction,
        TLAPS

-----------------------------------------------------------------------------
(* Where an update asks.                                                   *)

(* The two sources there are: this repository's, and what JDK_RELEASES     *)
(* says, which may be this repository again.                               *)
Pinning  == source.policy = "strict" /\ source.base = Own /\ source.key = Pinned[me]
Override == source.policy = "loopbackOnly"

(* A request goes by the policy of its source; of this repository nothing  *)
(* is asked under the policy for local servers.                            *)
SideInv ==
    /\ phase \in {"none", "check", "send", "over"}
    /\ pc \in Requests \cup {"wipe"} => Pinning \/ Override
    /\ phase # "none" => pc \in Requests
    /\ phase \in {"check", "send"} => asked.policy = source.policy
    /\ phase = "send" => Allowed(asked.policy, url)
    /\ phase # "none" /\ Override /\ source.base = Own =>
         /\ phase = "check" /\ hops = 0 => url.host = Own.host
         /\ phase = "check" => hops = 0
         /\ phase # "send"

(* Whoever ends, or does not ask, has no request.                          *)
LEMMA EndsQuietly == ASSUME NEW r, End(r) PROVE SideInv'
BY DEF End, Goto, HangUp, SideInv, Requests

LEMMA GoesOnQuietly ==
    ASSUME SideInv, pc \notin Requests, pc' \notin Requests \cup {"wipe"},
           UNCHANGED httpVars
    PROVE  SideInv'
BY DEF SideInv, httpVars

(* The first hop of every request: of this repository's own releases it    *)
(* is to their host.                                                       *)
LEMMA Asks ==
    ASSUME NEW segments, NEW attempts, Ask(segments, attempts),
           (Pinning \/ Override)', pc' \in Requests
    PROVE  SideInv'
<1>1. source'.base = Own => At(source'.base, segments).host = Own.host
  BY UpdateAssumption DEF At
<1>2. /\ phase' = "check" /\ hops' = 0
      /\ asked'.policy = source'.policy
      /\ source'.base = Own => url'.host = Own.host
  BY <1>1 DEF Ask, Get
<1> HIDE DEF Ask
<1> QED  BY <1>2 DEF SideInv, Override, Pinning

(* A request that is under way.                                            *)
LEMMA RequestStaysOnSide == SideInv /\ Request => SideInv'
<1> SUFFICES ASSUME SideInv, Request
             PROVE  SideInv'
  OBVIOUS
<1>1. UNCHANGED <<source, me, pc>>
  BY DEF Request, command, asking
<1>2. /\ pc \in Requests \cup {"wipe"} => Pinning \/ Override
      /\ phase # "none" => pc \in Requests
  BY DEF SideInv
<1>3. CASE Check
  <2>1. CASE Allowed(asked.policy, url) /\ phase' = "send" /\ UNCHANGED <<asked, url, hops>>
    <3>1. ~(Override /\ source.base = Own)
      BY <1>3, <2>1, UpdateAssumption DEF Check, SideInv, Override, Allowed
    <3> QED  BY <1>1, <1>2, <1>3, <2>1, <3>1 DEF SideInv, Check, Pinning, Override
  <2>2. CASE phase' = "over"
    BY <1>1, <1>2, <1>3, <2>2 DEF SideInv, Check, Pinning, Override
  <2> QED  BY <1>3, <2>1, <2>2 DEF Check, Over
<1>4. ASSUME phase = "send",
             \/ phase' = "over"
             \/ phase' = "check" /\ UNCHANGED asked
             \/ UNCHANGED <<phase, asked, url, hops>>
      PROVE  SideInv'
  BY <1>1, <1>2, <1>4 DEF SideInv, Pinning, Override
<1>5. CASE TransportFails
  BY <1>4, <1>5 DEF TransportFails, Retry, Over
<1>6. CASE Answer
  BY <1>4, <1>6 DEF Answer, Answered, Retry, Over, Follow
<1> QED  BY <1>3, <1>5, <1>6 DEF Request

(* Every step keeps requests on their side.                                *)
LEMMA SideStep == SideInv /\ [Next]_vars => SideInv'
<1> SUFFICES ASSUME SideInv, [Next]_vars
             PROVE  SideInv'
  OBVIOUS
<1>1. ASSUME NEW r, NEW k, StartAsking(r, k)
      PROVE  SideInv'
  <2>1. source' = Resolve(r, k, Pinned[me], None) /\ me' = me
    BY <1>1 DEF StartAsking, Keep, command
  <2>2. (Pinning \/ Override)'
    BY <2>1 DEF Pinning, Override, Resolve
  <2> QED  BY <1>1, <2>2, Asks DEF StartAsking, Goto, Requests
<1>2. CASE Wipe \/ LearnSums \/ LearnSignature
  <2>1. (Pinning \/ Override)'
    BY <1>2 DEF Wipe, LearnSums, LearnSignature, Replied, Keep, command,
       SideInv, Requests, Pinning, Override
  <2> QED  BY <1>2, <2>1, Asks DEF Wipe, LearnSums, LearnSignature, Goto, Requests
<1>3. CASE LearnLatest
  <2>1. ASSUME HangUp, pc' = "wipe", UNCHANGED <<source, me>>
        PROVE  SideInv'
    BY <1>3, <2>1 DEF LearnLatest, Replied, HangUp, SideInv, Requests, Pinning, Override
  <2> QED  BY <1>3, <2>1, EndsQuietly DEF LearnLatest, Goto, Keep, command
<1>4. CASE LearnBundle
  BY <1>4 DEF LearnBundle, Goto, HangUp, SideInv, Requests
<1>5. CASE Request
  BY <1>5, RequestStaysOnSide
<1>6. CASE CannotAsk \/ LatestFails \/ AnchorFails \/ BundleFails \/ SwapFails
             \/ SetupFails \/ CopyFails \/ SomeRefused
             \/ Tidy \/ PlaceShim \/ Diagnose \/ Crash
  BY <1>6, EndsQuietly DEF CannotAsk, LatestFails, AnchorFails, BundleFails,
     SwapFails, SetupFails, CopyFails, SomeRefused, Fails, Tidy, PlaceShim, Diagnose, Crash
<1>7. ASSUME NEW left, ExtractBundle(left) \/ ExtractFails(left)
      PROVE  SideInv'
  BY <1>7, EndsQuietly, GoesOnQuietly DEF ExtractBundle, ExtractFails, Fails, Goto, Requests
<1>8. CASE \/ \E c \in {"update", "setup", "doctor"}, f \in {"store", "package", "cargo"},
                m \in Releases, forced \in BOOLEAN : Begin(c, f, m, forced)
           \/ \E g \in Releases \cup {None} : StartSetup(g)
           \/ SwapCli \/ SwapShim \/ AllCopied \/ Materialized \/ PlaceCli
  BY <1>8, GoesOnQuietly DEF Begin, StartSetup, SwapCli, SwapShim, AllCopied,
     Materialized, PlaceCli, Goto, Requests
<1>9. CASE Copy \/ Swap \/ LoseBin \/ \E t \in Tools : LoseShim(t)
  BY <1>9, GoesOnQuietly DEF Copy, Swap, LoseBin, LoseShim, Requests
<1>10. CASE UNCHANGED vars
  BY <1>10 DEF vars, httpVars, command, asking, SideInv, Pinning, Override
<1> QED  BY <1>1, <1>2, <1>3, <1>4, <1>5, <1>6, <1>7, <1>8, <1>9, <1>10 DEF Next, Step

(* Wherever a server redirects to, a request of an update or of doctor     *)
(* goes where its source says (release.rs:93-104, http.rs:45-50).          *)
THEOREM StaysOnSide == Spec => []RequestsStayOnSide
<1>1. Init => SideInv
  BY DEF Init, HttpInit, SideInv, Requests
<1>2. SideInv => RequestsStayOnSide
  BY DEF SideInv, RequestsStayOnSide, Requests, Pinning, Override, Allowed
<1> QED  BY <1>1, <1>2, SideStep, PTL DEF Spec

-----------------------------------------------------------------------------

(* What is copied is a build.                                              *)
Built(fs) == \A f \in fs : f[2] \in Releases

(* Set-form induction on the naturals.                                     *)
LEMMA NatSetInduction ==
    ASSUME NEW S, 0 \in S, \A i \in Nat : i \in S => i + 1 \in S
    PROVE  Nat \subseteq S
<1> DEFINE T == Nat \ S
<1>1. SUFFICES ASSUME T # {} PROVE FALSE
  OBVIOUS
<1>2. PICK i \in T : \A j \in T : <<j, i>> \notin OpToRel(<, Nat)
  BY <1>1, NatLessThanWellFounded, WFMin
<1>3. i \in Nat \ {0} /\ i - 1 \in Nat
  OBVIOUS
<1>4. <<i - 1, i>> \in OpToRel(<, Nat)
  BY <1>3 DEF OpToRel
<1>5. i - 1 \notin T
  BY <1>2, <1>4
<1> QED  BY <1>3, <1>5

(* f is the function that Extract is read off, up to the entry m.          *)
Extracts(f, archive, start, m) ==
    f = [i \in 0..m |->
           IF i = 0 \/ ~start.ok THEN start
           ELSE IF f[i - 1].ok
                THEN Unpack(f[i - 1], archive.entries[i], MaxUnpacked)
                ELSE f[i - 1]]

(* There is one: that of m + 1 is that of m, and one entry more.           *)
LEMMA ExtractsExists ==
    ASSUME NEW archive, NEW start
    PROVE  \A m \in Nat : \E f : Extracts(f, archive, start, m)
<1> DEFINE S == {m \in Nat : \E f : Extracts(f, archive, start, m)}
           Next1(s, i) == IF s.ok THEN Unpack(s, archive.entries[i], MaxUnpacked) ELSE s
<1>1. 0 \in S
  <2>1. Extracts([i \in 0..0 |-> start], archive, start, 0)
    BY DEF Extracts
  <2> QED  BY <2>1
<1>2. ASSUME NEW m \in Nat, m \in S
      PROVE  m + 1 \in S
  <2>1. PICK f : Extracts(f, archive, start, m)
    BY <1>2
  <2> DEFINE g == [i \in 0..(m + 1) |->
                     IF i = m + 1 THEN IF ~start.ok THEN start ELSE Next1(f[m], m + 1)
                     ELSE f[i]]
  <2> HIDE DEF Next1
  <2>2. \A i \in 0..m : g[i] = f[i]
    OBVIOUS
  <2>3. g[m + 1] = IF ~start.ok THEN start ELSE Next1(f[m], m + 1)
    OBVIOUS
  <2>4. ASSUME NEW i \in 0..(m + 1)
        PROVE  g[i] = IF i = 0 \/ ~start.ok THEN start ELSE Next1(g[i - 1], i)
    <3>1. CASE i = m + 1
      <4> HIDE DEF g
      <4> QED  BY <2>2, <2>3, <3>1
    <3>2. CASE i \in 0..m
      <4> HIDE DEF g
      <4>1. f[i] = IF i = 0 \/ ~start.ok THEN start ELSE Next1(f[i - 1], i)
        BY <2>1, <3>2 DEF Extracts, Next1
      <4>2. i # 0 => i - 1 \in 0..m
        BY <3>2
      <4> QED  BY <2>2, <3>2, <4>1, <4>2
    <3> QED  BY <3>1, <3>2
  <2>5. g = [i \in 0..(m + 1) |->
               IF i = 0 \/ ~start.ok THEN start ELSE Next1(g[i - 1], i)]
    <3>1. g = [i \in 0..(m + 1) |-> g[i]]
      OBVIOUS
    <3> HIDE DEF g
    <3> QED  BY <2>4, <3>1
  <2> HIDE DEF g
  <2>6. Extracts(g, archive, start, m + 1)
    BY <2>5 DEF Extracts, Next1
  <2> QED  BY <2>6
<1> HIDE DEF S
<1>3. Nat \subseteq S
  BY <1>1, <1>2, NatSetInduction
<1> QED  BY <1>3 DEF S

(* What one entry leaves where builds were.                                *)
Unpacking(s) == /\ s = [ok |-> s.ok, written |-> s.written, files |-> s.files]
                /\ Built(s.files)

LEMMA UnpackBuilt ==
    ASSUME NEW s, Unpacking(s), NEW entry,
           \/ entry.kind \in {"dir", "link"}
           \/ entry.kind = "file" /\ entry.content \in Releases
    PROVE  Unpacking(Unpack(s, entry, MaxUnpacked))
<1>1. \A fs, path : Built(fs) => Built(Lacking(fs, path))
  BY DEF Built, Lacking
<1>2. \A fs, path, v : Built(fs) /\ v \in Releases => Built(Placed(fs, path, v))
  BY <1>1 DEF Built, Placed
<1> USE DEF Unpacking
<1>3. Unpacking(Linked(s, entry))
  <2> DEFINE found == {f \in s.files : f[1] = SymlinkSource(entry)}
             v == (CHOOSE f \in found : TRUE)[2]
  <2>1. found # {} => v \in Releases
    BY DEF Built
  <2>2. Linked(s, entry) = IF found = {} THEN s
          ELSE [s EXCEPT !.files = Placed(@, Plain(entry.name), v)]
    BY DEF Linked
  <2> HIDE DEF found, v
  <2> QED  BY <1>2, <2>1, <2>2
<1>4. entry.kind = "file" => Unpacking(Written(s, entry))
  BY <1>1, <1>2 DEF Written
<1>5. Unpacking([s EXCEPT !.ok = FALSE])
  <2>1. \A v : Unpacking([s EXCEPT !.ok = v])
    OBVIOUS
  <2> QED  BY <2>1
<1> HIDE DEF Unpacking
<1> DEFINE rejected == \/ ~SafeName(entry)
                       \/ entry.kind # "dir" /\ s.written + entry.declared > MaxUnpacked
<1>6. CASE rejected
  <2>1. Unpack(s, entry, MaxUnpacked) = [s EXCEPT !.ok = FALSE]
    BY <1>6 DEF Unpack
  <2> QED  BY <1>5, <2>1
<1>7. CASE ~rejected
  <2>1. \/ entry.kind = "dir" /\ Unpack(s, entry, MaxUnpacked) = s
        \/ entry.kind = "link" /\ Unpack(s, entry, MaxUnpacked) = Linked(s, entry)
        \/ entry.kind = "file" /\ Unpack(s, entry, MaxUnpacked) = Written(s, entry)
    BY <1>7 DEF Unpack
  <2> QED  BY <1>3, <1>4, <2>1
<1> QED  BY <1>6, <1>7

LEMMA ExtractBuilt ==
    ASSUME NEW z \in Bundles, NEW left, Built(left)
    PROVE  Built(Extract(z, left, MaxUnpacked, MaxFiles).files)
<1> DEFINE m == Len(z.entries)
           start == [ok |-> z.zip /\ m \in 1..MaxFiles, written |-> 0, files |-> left]
           F == CHOOSE f : Extracts(f, z, start, m)
<1>1. m \in Nat
  BY UpdateAssumption
<1>2. Extracts(F, z, start, m)
  BY <1>1, ExtractsExists
<1>3. Extract(z, left, MaxUnpacked, MaxFiles) = F[m]
  BY DEF Extract, Extracts
<1>4. Unpacking(start)
  BY DEF Unpacking
<1>5. \A i \in 1..m : \/ z.entries[i].kind \in {"dir", "link"}
                      \/ z.entries[i].kind = "file" /\ z.entries[i].content \in Releases
  BY UpdateAssumption
<1> HIDE DEF m, start, F
<1> DEFINE S == {i \in Nat : i <= m => Unpacking(F[i])}
<1>6. 0 \in S
  BY <1>1, <1>2, <1>4 DEF Extracts
<1>7. ASSUME NEW i \in Nat, i \in S
      PROVE  i + 1 \in S
  <2>1. SUFFICES ASSUME i + 1 <= m PROVE Unpacking(F[i + 1])
    OBVIOUS
  <2>2. i + 1 \in 0..m /\ i + 1 \in 1..m /\ (i + 1) - 1 = i /\ Unpacking(F[i])
    BY <1>1, <1>7, <2>1
  <2>3. F[i + 1] = IF i + 1 = 0 \/ ~start.ok THEN start
                   ELSE IF F[(i + 1) - 1].ok
                        THEN Unpack(F[(i + 1) - 1], z.entries[i + 1], MaxUnpacked)
                        ELSE F[(i + 1) - 1]
    BY <1>2, <2>2 DEF Extracts
  <2>4. F[i + 1] \in {start, F[i], Unpack(F[i], z.entries[i + 1], MaxUnpacked)}
    BY <2>2, <2>3
  <2>5. Unpacking(Unpack(F[i], z.entries[i + 1], MaxUnpacked))
    BY <1>5, <2>2, UnpackBuilt
  <2> QED  BY <1>4, <2>2, <2>4, <2>5
<1> HIDE DEF S
<1>8. m \in S
  BY <1>1, <1>6, <1>7, NatSetInduction
<1> QED  BY <1>1, <1>3, <1>8 DEF S, Unpacking

Same   == \A t \in Tools : \A u \in Tools : shims[t] = shims[u]
InStep == bin.shim # Missing /\ \A t \in Tools : shims[t] = bin.shim

(* Where the shims are of one release unless something went wrong.         *)
Settled ==
    /\ torn \/ Same
    /\ torn \/ lag \/ InStep

Early == {"idle", "start", "wipe", "extract", "swapCli", "swapShim"} \cup Requests

(* An archive that came is one of those there are, and what is unpacked or *)
(* copied of it is an executable.                                          *)
CopyInv ==
    /\ bin = [cli |-> bin.cli, shim |-> bin.shim]
    /\ shims = [t \in Tools |-> shims[t]]
    /\ torn \in BOOLEAN /\ lag \in BOOLEAN
    /\ pc \in PCs
    /\ pc = "zip" /\ phase = "over" /\ reply.status = 200 =>
         reply.body = None \/ reply.body.bundle \in Bundles
    /\ pc \in {"wipe", "sums", "sig", "zip", "extract", "swapCli", "swapShim"} => op = "update"
    /\ pc \in {"copy", "swap"} => op \in {"update", "setup"}
    /\ pc = "extract" => bundle \in Bundles
    /\ pc \in {"swapCli", "swapShim"} => Built(stage)
    /\ pc # "swap" => Settled
    /\ pc = "idle" /\ result = "broken" => torn \/ lag
    /\ pc \in Early => n = 1 /\ staged = {} /\ refused = {}
    /\ pc = "copy" =>
         /\ n \in Nat \ {0} /\ payload # Missing /\ refused = {}
         /\ op = "update" => payload = bin.shim
         /\ \A t \in Tools : t < n => shims[t] = payload \/ t \in staged
    /\ pc = "swap" =>
         /\ n \in Nat \ {0} /\ payload # Missing
         /\ op = "update" => payload = bin.shim
         /\ refused # {} => torn
         /\ \A t \in Tools : t >= n => shims[t] = payload \/ t \in staged
         /\ \A t \in Tools : t < n => shims[t] = payload \/ t \in refused
    /\ pc \in {"placeCli", "placeShim"} =>
         /\ payload # Missing
         /\ \A t \in Tools : shims[t] = payload

(* A command that ends where the shims are settled, or torn.               *)
LEMMA EndsSettled ==
    ASSUME NEW r, End(r), Settled', torn' \in BOOLEAN, lag' \in BOOLEAN,
           (bin = [cli |-> bin.cli, shim |-> bin.shim])',
           (shims = [t \in Tools |-> shims[t]])',
           r = "broken" => torn' \/ lag'
    PROVE  CopyInv'
BY DEF End, Goto, CopyInv, PCs, Early, Requests

(* A command that goes on before it has touched the shims.                 *)
LEMMA GoesOnEarly ==
    ASSUME CopyInv, pc \in Early, pc' \in {"start", "wipe"} \cup Requests,
           UNCHANGED <<files, history, copying>>, phase' # "over",
           pc' \in {"wipe", "sums", "sig", "zip"} => op' = "update"
    PROVE  CopyInv'
BY DEF CopyInv, Early, Requests, PCs, files, history, copying, Settled, Same, InStep

(* It fails, outside of the swap of the shims or after it.                 *)
LEMMA FailsSettled ==
    ASSUME CopyInv, Fails, pc # "swap" \/ refused # {}
    PROVE  CopyInv'
<1>1. End("failed") /\ UNCHANGED <<bin, shims, torn, lag>>
  BY DEF Fails, files, history
<1>2. Settled
  BY DEF CopyInv, Settled
<1>3. Settled'
  BY <1>1, <1>2 DEF Settled, Same, InStep
<1> QED  BY <1>1, <1>3, EndsSettled DEF CopyInv

(* A request that is under way.                                            *)
LEMMA RequestSettled == CopyInv /\ Request => CopyInv'
<1> SUFFICES ASSUME CopyInv, Request
             PROVE  CopyInv'
  OBVIOUS
<1>1. UNCHANGED <<bin, shims, pc, op, bundle, stage, payload, n, staged, refused,
                  result, torn, lag>>
  BY DEF Request, files, command, asking, copying, history
<1>2. pc = "zip" /\ phase' = "over" /\ reply'.status = 200 =>
        reply'.body = None \/ reply'.body.bundle \in Bundles
  <2> SUFFICES ASSUME pc = "zip", phase' = "over", reply'.status = 200
               PROVE  reply'.body = None \/ reply'.body.bundle \in Bundles
    OBVIOUS
  <2>1. CASE Check
    BY <2>1 DEF Check, Over, Failure
  <2>2. CASE TransportFails
    BY <2>2 DEF TransportFails, Retry, Over, Failure
  <2>3. CASE Answer
    BY <2>3 DEF Answer, Answered, Retry, Over, Failure, Follow, Bodies
  <2> QED  BY <2>1, <2>2, <2>3 DEF Request
<1>3. Settled => Settled'
  BY <1>1 DEF Settled, Same, InStep
<1> QED  BY <1>1, <1>2, <1>3 DEF CopyInv

(* The files of an update, up to the swap of the shims.                    *)
LEMMA BundleSettled ==
    ASSUME CopyInv,
           \/ LearnBundle \/ SwapCli \/ SwapShim
           \/ \E left \in Leftovers : ExtractBundle(left)
    PROVE  CopyInv'
<1>1. CASE LearnBundle
  BY <1>1 DEF LearnBundle, Replied, Fetched, Text, Keep, Goto, CopyInv, PCs, Early,
     Requests, files, command, copying, history, Settled, Same, InStep
<1>2. ASSUME NEW left \in Leftovers, ExtractBundle(left)
      PROVE  CopyInv'
  <2>1. bundle \in Bundles /\ Built(left)
    BY <1>2 DEF CopyInv, ExtractBundle, Leftovers, Built
  <2>2. Built(stage')
    BY <1>2, <2>1, ExtractBuilt DEF ExtractBundle, Unpacked
  <2> QED  BY <1>2, <2>2 DEF ExtractBundle, Keep, Goto, CopyInv, PCs, Early,
     Requests, httpVars, files, command, copying, history, Settled, Same, InStep
<1>3. CASE SwapCli
  <2>1. bin'.shim = bin.shim /\ bin' = [cli |-> bin'.cli, shim |-> bin'.shim]
    BY <1>3 DEF SwapCli, CopyInv
  <2> QED  BY <1>3, <2>1 DEF SwapCli, Keep, Goto, CopyInv, PCs, Early,
     Requests, httpVars, asking, command, copying, history, Settled, Same, InStep
<1>4. CASE SwapShim
  <2>1. /\ bin'.shim = payload' /\ bin' = [cli |-> bin'.cli, shim |-> bin'.shim]
        /\ payload' \in Releases
    BY <1>4 DEF SwapShim, CopyInv, Staged, Built
  <2> QED  BY <1>4, <2>1, UpdateAssumption DEF SwapShim, Keep, Goto, CopyInv, PCs, Early,
     Requests, httpVars, asking, command, Settled, Same, InStep, Missing, Tools
<1> QED  BY <1>1, <1>2, <1>3, <1>4

(* materialize, which setup begins.                                        *)
LEMMA MaterializeSettled ==
    ASSUME CopyInv,
           \/ \E g \in Releases \cup {None} : StartSetup(g)
           \/ Copy \/ AllCopied \/ Swap \/ Materialized
    PROVE  CopyInv'
<1> USE DEF CopyInv, PCs, Early, Requests, Keep, Goto
<1>1. ASSUME NEW g, StartSetup(g)
      PROVE  CopyInv'
  BY <1>1 DEF StartSetup, Settled, Same, InStep, httpVars, files, asking, command, history, Tools
<1>2. CASE Copy
  BY <1>2 DEF Copy, Settled, Same, InStep, httpVars, files, asking, command, history, Tools
<1>3. CASE AllCopied
  BY <1>3, UpdateAssumption DEF AllCopied, httpVars, files, asking, command, history, Tools
<1>4. CASE Swap
  <2>1. n \in Nat \ {0} /\ n' = n + 1 /\ \A t \in Tools : t \in Nat
    BY <1>4, UpdateAssumption DEF Swap, Tools
  <2>2. /\ n \in staged \/ shims[n] = payload
        /\ \/ refused' = refused /\ torn' = torn /\ shims'[n] = payload
              /\ \A t \in Tools : t # n => shims'[t] = shims[t]
           \/ refused' = refused \cup {n} /\ torn' = TRUE /\ shims' = shims
    BY <1>4, <2>1, UpdateAssumption DEF Swap, Tools
  <2>3. /\ \A t \in Tools : t >= n' => shims'[t] = payload \/ t \in staged
        /\ \A t \in Tools : t < n' => shims'[t] = payload \/ t \in refused'
    BY <1>4, <2>1, <2>2 DEF Swap
  <2>4. shims' = [t \in Tools |-> shims'[t]]
    BY <1>4 DEF Swap
  <2>5. pc = "swap" /\ UNCHANGED <<bin, pc, op, payload, staged, lag>>
    BY <1>4 DEF Swap, command
  <2>6. /\ n' \in Nat \ {0} /\ torn' \in BOOLEAN
        /\ refused' # {} => torn'
        /\ payload # Missing /\ (op = "update" => payload = bin.shim)
        /\ op \in {"update", "setup"}
        /\ bin = [cli |-> bin.cli, shim |-> bin.shim]
        /\ lag \in BOOLEAN
    <3>1. torn' \in BOOLEAN
      BY <2>2, Zenon DEF CopyInv
    <3>2. refused' # {} => torn'
      <4>1. refused # {} => torn
        BY <2>5 DEF CopyInv
      <4>2. CASE refused' = refused /\ torn' = torn
        <5>1. refused' # {} => torn
          BY <4>1, <4>2
        <5> QED  BY <4>2, <5>1, Zenon
      <4>3. CASE torn' = TRUE
        BY <4>3
      <4> QED  BY <2>2, <4>2, <4>3
    <3> QED  BY <2>1, <2>5, <3>1, <3>2
  <2> QED  BY <2>3, <2>4, <2>5, <2>6
<1>5. CASE Materialized
  <2>1. \A t \in Tools : shims[t] = payload
    BY <1>5, UpdateAssumption DEF Materialized, Tools
  <2>2. op = "update" => InStep
    BY <1>5, <2>1 DEF Materialized, InStep
  <2>3. UNCHANGED <<bin, shims, payload, op>> /\ lag' = (op = "setup") /\ torn' = FALSE
    BY <1>5 DEF Materialized, files, copying, command
  <2>4. Settled'
    <3>1. Same'
      BY <2>1, <2>3 DEF Same
    <3>2. op = "update" => InStep'
      BY <2>2, <2>3 DEF InStep
    <3>3. op = "update" \/ lag'
      BY <1>5, <2>3 DEF Materialized
    <3> HIDE DEF CopyInv
    <3> QED  BY <3>1, <3>2, <3>3 DEF Settled
  <2> QED  BY <1>5, <2>1, <2>3, <2>4 DEF Materialized
<1> QED  BY <1>1, <1>2, <1>3, <1>4, <1>5

(* place_cli, and how a command ends.                                      *)
LEMMA EndSettled ==
    ASSUME CopyInv, Tidy \/ PlaceCli \/ PlaceShim \/ Diagnose
    PROVE  CopyInv'
<1>1. CASE Tidy
  <2>1. End("ok") /\ UNCHANGED <<bin, shims, torn, lag>> /\ Settled
    BY <1>1 DEF Tidy, history, CopyInv
  <2> QED  BY <2>1, EndsSettled DEF CopyInv, Settled, Same, InStep
<1>2. CASE PlaceCli
  <2>1. bin'.shim = bin.shim /\ bin' = [cli |-> bin'.cli, shim |-> bin'.shim]
    BY <1>2 DEF PlaceCli, CopyInv
  <2> QED  BY <1>2, <2>1 DEF PlaceCli, Keep, Goto, CopyInv, PCs, Early,
     Requests, httpVars, asking, command, copying, history, Settled, Same, InStep
<1>3. CASE PlaceShim
  <2>1. /\ payload # Missing /\ \A t \in Tools : shims[t] = payload
        /\ Settled /\ UNCHANGED <<shims, torn>> /\ End("ok") /\ lag' \in BOOLEAN
        /\ bin' = [cli |-> bin'.cli, shim |-> bin'.shim]
    BY <1>3 DEF PlaceShim, CopyInv
  <2>2. lag' \/ bin'.shim = payload
    BY <1>3 DEF PlaceShim, CopyInv
  <2>3. Settled'
    BY <2>1, <2>2 DEF Settled, Same, InStep
  <2> QED  BY <2>1, <2>3, EndsSettled DEF CopyInv
<1>4. CASE Diagnose
  <2>1. PICK r : End(r) /\ (Broken \/ r # "broken")
    <3>1. \/ Broken
          \/ ~Broken /\ (CliNoted \/ UpdateNoted \/ pc = "start")
          \/ ~Broken /\ ~(CliNoted \/ UpdateNoted \/ pc = "start")
      OBVIOUS
    <3> QED  BY <1>4, <3>1 DEF Diagnose
  <2>2. UNCHANGED <<bin, shims, torn, lag>>
    BY <1>4 DEF Diagnose, files, history
  <2>3. Settled
    BY <1>4 DEF Diagnose, Replied, CopyInv
  <2>4. InStep => ~Broken
    BY DEF InStep, Broken, ShimsPresent, NoWayBack, ShimsDiffer
  <2>5. Settled'
    BY <2>2, <2>3 DEF Settled, Same, InStep
  <2> QED  BY <2>1, <2>2, <2>3, <2>4, <2>5, EndsSettled DEF CopyInv, Settled
<1> QED  BY <1>1, <1>2, <1>3, <1>4

(* A death, which may catch a swap half way, and losses.                   *)
LEMMA MishapSettled ==
    ASSUME CopyInv, Crash \/ LoseBin \/ \E t \in Tools : LoseShim(t)
    PROVE  CopyInv'
<1>1. CASE Crash
  <2>1. /\ bin' = [cli |-> bin'.cli, shim |-> bin'.shim]
        /\ shims' = [t \in Tools |-> shims'[t]]
        /\ pc # "swap" => UNCHANGED shims
    BY <1>1 DEF Crash, HalfSwapped, CopyInv
  <2>2. /\ End("died") /\ torn' = (torn \/ pc = "swap")
        /\ lag' = (lag \/ bin'.shim # bin.shim)
    BY <1>1 DEF Crash
  <2>3. Settled'
    BY <2>1, <2>2 DEF CopyInv, Settled, Same, InStep
  <2> QED  BY <2>1, <2>2, <2>3, EndsSettled DEF CopyInv
<1>2. CASE LoseBin
  <2>1. bin' = [cli |-> bin'.cli, shim |-> bin'.shim]
    BY <1>2 DEF LoseBin, CopyInv
  <2> QED  BY <1>2, <2>1 DEF LoseBin, CopyInv, Settled, Same, InStep, Early, Requests,
     httpVars, command, asking, copying
<1>3. ASSUME NEW t \in Tools, LoseShim(t)
      PROVE  CopyInv'
  BY <1>3 DEF LoseShim, CopyInv, Settled, Early, Requests,
     httpVars, command, asking, copying
<1> QED  BY <1>1, <1>2, <1>3

(* Every step keeps the copies settled.                                    *)
LEMMA CopyStep == CopyInv /\ [Next]_vars => CopyInv'
<1> SUFFICES ASSUME CopyInv, [Next]_vars
             PROVE  CopyInv'
  OBVIOUS
<1>1. CASE \/ \E c \in {"update", "setup", "doctor"}, f \in {"store", "package", "cargo"},
                m \in Releases, forced \in BOOLEAN : Begin(c, f, m, forced)
  BY <1>1 DEF Begin, Goto, Keep, CopyInv, PCs, Early, Requests, httpVars, files, asking,
     copying, history, Settled, Same, InStep
<1>2. ASSUME NEW r, NEW k, StartAsking(r, k)
      PROVE  CopyInv'
  BY <1>2, GoesOnEarly DEF StartAsking, Ask, Get, Goto, Early, Requests, files, history, copying, Keep, command
<1>3. CASE Wipe \/ LearnSums \/ LearnSignature
  BY <1>3, GoesOnEarly DEF Wipe, LearnSums, LearnSignature, Replied, Ask, Get, Goto,
     Early, Requests, files, history, copying, Keep, command, CopyInv
<1>4. CASE LearnLatest
  <2>1. CASE End("skipped") /\ UNCHANGED <<bin, shims, torn, lag>>
    <3>1. Settled
      BY <1>4 DEF LearnLatest, Replied, CopyInv
    <3>2. Settled'
      BY <2>1, <3>1 DEF Settled, Same, InStep
    <3> QED  BY <2>1, <3>2, EndsSettled DEF CopyInv
  <2>2. CASE HangUp /\ Goto("wipe") /\ Keep /\ UNCHANGED <<files, history, copying>>
    BY <1>4, <2>2, GoesOnEarly DEF LearnLatest, Replied, HangUp, Goto, Early, Requests, Keep, command
  <2> QED  BY <1>4, <2>1, <2>2 DEF LearnLatest, files, history, copying
<1>5. CASE CannotAsk \/ LatestFails \/ AnchorFails \/ BundleFails \/ SwapFails
             \/ SetupFails \/ CopyFails \/ SomeRefused
             \/ \E left \in Leftovers : ExtractFails(left)
  BY <1>5, FailsSettled DEF CannotAsk, LatestFails, AnchorFails, BundleFails,
     SwapFails, SetupFails, CopyFails, SomeRefused, ExtractFails, Replied
<1>6. CASE UNCHANGED vars
  BY <1>6 DEF vars, httpVars, files, history, asking, copying, command, CopyInv,
     Settled, Same, InStep
<1> QED  BY <1>1, <1>2, <1>3, <1>4, <1>5, <1>6, RequestSettled, BundleSettled,
            MaterializeSettled, EndSettled, MishapSettled DEF Next, Step

LEMMA CopyHolds == Spec => []CopyInv
<1>1. Init => CopyInv
  <2> SUFFICES ASSUME Init PROVE CopyInv
    OBVIOUS
  <2>1. PICK v \in Releases \cup {Missing} :
           /\ bin = [cli |-> v, shim |-> v]
           /\ shims = [t \in Tools |-> v]
           /\ torn = (v = Missing)
           /\ lag = (v = Missing)
    BY DEF Init
  <2>2. torn \in BOOLEAN /\ lag \in BOOLEAN /\ Settled
    BY <2>1 DEF Settled, Same, InStep
  <2> QED  BY <2>1, <2>2 DEF Init, HttpInit, CopyInv, PCs, Early, Requests
<1> QED  BY <1>1, CopyStep, PTL DEF Spec

(* The copies of a release are in step unless something went wrong         *)
(* (shims.rs:75-91, setup.rs:158-163), and only then does doctor fail      *)
(* (doctor.rs:624-632).                                                    *)
THEOREM CopiesAgree == Spec => []ShimsAgree
<1>1. CopyInv => ShimsAgree
  BY DEF CopyInv, ShimsAgree, Settled, Same, InStep
<1> QED  BY <1>1, CopyHolds, PTL

-----------------------------------------------------------------------------
(* What is signed.                                                         *)

(* The keys that an update may go by.                                      *)
Keys == {KeyOf(Pinned[v]) : v \in Releases} \cup {KeyOf(k) : k \in Pubkeys}

(* An archive with a jdk.exe, and with none but that of one release.       *)
HoldsCli(z, v) ==
    LET Clis == {i \in 1..Len(z.entries) : Plain(z.entries[i].name) = CliPath}
    IN  /\ Clis # {}
        /\ \A i \in Clis : z.entries[i].kind = "file" /\ z.entries[i].content = v

(* The SHA256SUMS that these keys sign name for a release an archive of it.*)
SignedIsTrue ==
    \A key \in Keys, file \in SigFiles, lines \in SumsFiles :
      Verifies(file, lines, key, Namespace) =>
        \A v : SumFor(lines, Asset(v)) \in Bundles => HoldsCli(SumFor(lines, Asset(v)), v)

(* What an update has learnt so far.                                       *)
Chosen ==
    /\ op = "update" /\ from = "store" /\ me \in Releases /\ bin.cli = me
    /\ Decide(me, remote)

Vouched ==
    /\ sums \in SumsFiles /\ signature \in SigFiles
    /\ Verifies(signature, sums, KeyOf(source.key), Namespace)

Matched == bundle \in Bundles /\ SumFor(sums, Asset(remote)) = bundle

(* Each request is answered with what was asked for.                       *)
RightAnswer ==
    phase = "over" /\ reply.status = 200 /\ reply.body # None =>
      /\ pc = "sums" => reply.body \in SumsFiles
      /\ pc = "sig"  => reply.body \in SigFiles
      /\ pc = "zip"  => reply.body.bundle \in Bundles

SignedInv ==
    /\ RightAnswer
    /\ pc # "idle" => me \in Releases
    /\ pc \in {"start"} \cup Requests /\ op = "update" /\ from = "store" => bin.cli = me
    /\ pc \in Requests => op = "doctor" \/ (op = "update" /\ from = "store")
    /\ pc \in Requests \cup {"wipe", "extract", "swapCli"} => KeyOf(source.key) \in Keys
    /\ pc \in {"wipe", "sums", "sig", "zip", "extract", "swapCli"} => Chosen
    /\ pc = "sig" => sums \in SumsFiles
    /\ pc \in {"zip", "extract", "swapCli"} => Vouched
    /\ pc \in {"extract", "swapCli"} => Matched
    /\ pc = "swapCli" /\ SignedIsTrue => \A f \in Staged(CliPath) : f[2] = remote

(* The one jdk.exe is of release v.                                        *)
CliIs(s, v) == \A f \in s.files : f[1] = CliPath => f[2] = v

(* What an entry does to it.                                               *)
LEMMA UnpackCli ==
    ASSUME NEW s, s = [ok |-> s.ok, written |-> s.written, files |-> s.files],
           NEW v, NEW entry, entry.kind \in {"dir", "link", "file"},
           Plain(entry.name) = CliPath => entry.kind = "file" /\ entry.content = v,
           CliIs(s, v) \/ Plain(entry.name) = CliPath,
           Unpack(s, entry, MaxUnpacked).ok
    PROVE  CliIs(Unpack(s, entry, MaxUnpacked), v)
<1> DEFINE path == Plain(entry.name)
<1>1. ASSUME NEW c, path = CliPath => c = v
      PROVE  \A f \in Placed(s.files, path, c) : f[1] = CliPath => f[2] = v
  BY <1>1 DEF CliIs, Placed, Lacking
<1> DEFINE rejected == \/ ~SafeName(entry)
                       \/ entry.kind # "dir" /\ s.written + entry.declared > MaxUnpacked
<1>2. ~rejected
  <2> SUFFICES ASSUME rejected PROVE FALSE
    OBVIOUS
  <2>1. Unpack(s, entry, MaxUnpacked) = [s EXCEPT !.ok = FALSE]
    BY DEF Unpack
  <2>2. [s EXCEPT !.ok = FALSE].ok = FALSE
    OBVIOUS
  <2> QED  BY <2>1, <2>2
<1>3. CASE entry.kind = "dir"
  BY <1>2, <1>3 DEF Unpack
<1>4. CASE entry.kind = "link"
  <2> DEFINE found == {f \in s.files : f[1] = SymlinkSource(entry)}
             c == (CHOOSE f \in found : TRUE)[2]
  <2>1. Unpack(s, entry, MaxUnpacked) = IF found = {} THEN s
          ELSE [s EXCEPT !.files = Placed(@, path, c)]
    BY <1>2, <1>4 DEF Unpack, Linked
  <2>2. path # CliPath
    BY <1>4
  <2> HIDE DEF found, c, path
  <2> QED  BY <1>1, <2>1, <2>2 DEF CliIs, path
<1>5. CASE entry.kind = "file"
  <2>1. Unpack(s, entry, MaxUnpacked) = Written(s, entry)
    BY <1>2, <1>5 DEF Unpack
  <2>2. entry.size > entry.declared => Written(s, entry).ok = FALSE
    BY DEF Written
  <2>3. Written(s, entry).files = Placed(s.files, path, entry.content)
    BY <2>1, <2>2 DEF Written
  <2> HIDE DEF path
  <2>4. path = CliPath => entry.content = v
    BY DEF path
  <2> QED  BY <1>1, <2>1, <2>3, <2>4 DEF CliIs
<1> QED  BY <1>3, <1>4, <1>5

(* An archive that holds one, unpacked to its end, onto whatever was there.*)
LEMMA ExtractCli ==
    ASSUME NEW z \in Bundles, NEW v, HoldsCli(z, v), NEW left,
           Extract(z, left, MaxUnpacked, MaxFiles).ok
    PROVE  CliIs(Extract(z, left, MaxUnpacked, MaxFiles), v)
<1> DEFINE m == Len(z.entries)
           start == [ok |-> z.zip /\ m \in 1..MaxFiles, written |-> 0, files |-> left]
           F == CHOOSE f : Extracts(f, z, start, m)
           named(i) == Plain(z.entries[i].name) = CliPath
           shaped(s) == s = [ok |-> s.ok, written |-> s.written, files |-> s.files]
<1>1. m \in Nat
  BY UpdateAssumption
<1>2. Extracts(F, z, start, m)
  BY <1>1, ExtractsExists
<1>3. Extract(z, left, MaxUnpacked, MaxFiles) = F[m]
  BY DEF Extract, Extracts
<1>4. shaped(start)
  OBVIOUS
<1>5. start.ok
  <2> HIDE DEF start, F, m
  <2>1. F[m] = IF m = 0 \/ ~start.ok THEN start
               ELSE IF F[m - 1].ok
                    THEN Unpack(F[m - 1], z.entries[m], MaxUnpacked)
                    ELSE F[m - 1]
    BY <1>1, <1>2 DEF Extracts
  <2> QED  BY <1>3, <2>1
<1>6. \A i \in 1..m :
        /\ z.entries[i].kind \in {"dir", "link", "file"}
        /\ named(i) => z.entries[i].kind = "file" /\ z.entries[i].content = v
  BY UpdateAssumption DEF HoldsCli
<1>7. \E i \in 1..m : named(i)
  BY DEF HoldsCli
<1> HIDE DEF m, start, F
<1> DEFINE S == {i \in Nat : i <= m =>
                   /\ shaped(F[i])
                   /\ F[i].ok /\ (\E j \in 1..i : named(j)) => CliIs(F[i], v)}
<1>8. 0 \in S
  BY <1>1, <1>2, <1>4 DEF Extracts
<1>9. ASSUME NEW i \in Nat, i \in S
      PROVE  i + 1 \in S
  <2> DEFINE e == z.entries[i + 1]
             s == F[i]
  <2>1. SUFFICES ASSUME i + 1 <= m
                 PROVE  /\ shaped(F[i + 1])
                        /\ F[i + 1].ok /\ (\E j \in 1..(i + 1) : named(j)) => CliIs(F[i + 1], v)
    OBVIOUS
  <2>2. i + 1 \in 0..m /\ i + 1 \in 1..m /\ (i + 1) - 1 = i /\ shaped(s)
        /\ (s.ok /\ (\E j \in 1..i : named(j)) => CliIs(s, v))
    BY <1>1, <1>9, <2>1
  <2>3. F[i + 1] = IF s.ok THEN Unpack(s, e, MaxUnpacked) ELSE s
    <3>1. F[i + 1] = IF i + 1 = 0 \/ ~start.ok THEN start
                     ELSE IF F[(i + 1) - 1].ok
                          THEN Unpack(F[(i + 1) - 1], z.entries[i + 1], MaxUnpacked)
                          ELSE F[(i + 1) - 1]
      BY <1>2, <2>2 DEF Extracts
    <3> QED  BY <1>5, <2>2, <3>1
  <2>4. /\ e.kind \in {"dir", "link", "file"}
        /\ named(i + 1) => e.kind = "file" /\ e.content = v
    BY <1>6, <2>2
  <2>5. CASE ~s.ok
    BY <2>2, <2>3, <2>5
  <2>6. CASE s.ok
    <3>1. F[i + 1] = Unpack(s, e, MaxUnpacked)
      BY <2>3, <2>6
    <3>2. shaped(F[i + 1])
      BY <2>2, <2>4, <3>1 DEF Unpack, Linked, Written
    <3>3. ASSUME F[i + 1].ok, NEW j \in 1..(i + 1), named(j)
          PROVE  CliIs(F[i + 1], v)
      <4>1. CliIs(s, v) \/ named(i + 1)
        <5>1. CASE j = i + 1
          BY <3>3, <5>1
        <5>2. CASE j # i + 1
          BY <2>2, <2>6, <3>3, <5>2
        <5> QED  BY <5>1, <5>2
      <4> QED  BY <2>2, <2>4, <3>1, <3>3, <4>1, UnpackCli
    <3> QED  BY <3>2, <3>3
  <2> QED  BY <2>5, <2>6
<1> HIDE DEF S
<1>10. m \in S
  BY <1>1, <1>8, <1>9, NatSetInduction
<1> QED  BY <1>1, <1>3, <1>7, <1>10 DEF S

(* The line that a sum is read off.                                        *)
LEMMA SumNamed ==
    ASSUME NEW lines, DOMAIN lines \subseteq Nat, NEW asset, SumFor(lines, asset) # None
    PROVE  \E i \in DOMAIN lines : lines[i].names = <<asset>>
                                     /\ lines[i].hash = SumFor(lines, asset)
<1> DEFINE named == {i \in DOMAIN lines : lines[i].names = <<asset>> /\ lines[i].hash # None}
           first == CHOOSE i \in named : \A j \in named : i <= j
<1>1. named # {} /\ SumFor(lines, asset) = lines[first].hash
  BY DEF SumFor
<1>2. named \subseteq Nat
  OBVIOUS
<1> HIDE DEF named
<1>3. PICK i \in named : \A j \in named : <<j, i>> \notin OpToRel(<, Nat)
  BY <1>1, <1>2, NatLessThanWellFounded, WFMin
<1>4. ASSUME NEW j \in named
      PROVE  i <= j
  <2>1. i \in Nat /\ j \in Nat
    BY <1>2
  <2>2. j < i => <<j, i>> \in OpToRel(<, Nat)
    BY <2>1 DEF OpToRel
  <2>3. ~(j < i)
    BY <1>3, <2>2
  <2> QED  BY <2>1, <2>3
<1>5. first \in named
  BY <1>3, <1>4
<1> QED  BY <1>1, <1>5 DEF named

(* Whoever ends knows nothing.                                             *)
LEMMA EndsSigned == ASSUME NEW r, End(r) PROVE SignedInv'
BY DEF End, Goto, SignedInv, RightAnswer, Requests

(* From the swap on nothing of it is needed.                               *)
LEMMA LaterSigned ==
    ASSUME SignedInv, pc # "idle", me' = me,
           pc' \notin {"start", "wipe", "extract", "swapCli"} \cup Requests
    PROVE  SignedInv'
BY DEF SignedInv, RightAnswer, Requests

(* A request that is under way gets what was asked for.                    *)
LEMMA RequestSigned == SignedInv /\ Request => SignedInv'
<1> SUFFICES ASSUME SignedInv, Request
             PROVE  SignedInv'
  OBVIOUS
<1>1. UNCHANGED <<bin, pc, op, from, me, force, source, remote, sums, signature, bundle, stage>>
  BY DEF Request, files, command, asking
<1>2. RightAnswer'
  <2>1. CASE Check
    BY <2>1, <1>1 DEF Check, Over, Failure, RightAnswer
  <2>2. CASE TransportFails
    BY <2>2, <1>1 DEF TransportFails, Retry, Over, Failure, RightAnswer
  <2>3. CASE Answer
    BY <2>3, <1>1 DEF Answer, Answered, Retry, Over, Failure, Follow, Bodies, RightAnswer
  <2> QED  BY <2>1, <2>2, <2>3 DEF Request
<1>3. (Chosen => Chosen') /\ (Vouched => Vouched') /\ (Matched => Matched')
      /\ Staged(CliPath)' = Staged(CliPath)
  BY <1>1 DEF Chosen, Decide, Vouched, Matched, Staged
<1> QED  BY <1>1, <1>2, <1>3 DEF SignedInv

(* What is learnt, one reply after the other.                              *)
LEMMA AskSigned ==
    ASSUME SignedInv, NEW r \in Overrides \cup {None}, NEW k \in Pubkeys \cup {None},
           StartAsking(r, k)
    PROVE  SignedInv'
<1>1. /\ pc = "start" /\ pc' = "latest" /\ phase' = "check" /\ me' = me /\ op' = op
      /\ from' = from /\ bin' = bin /\ op \in {"update", "doctor"}
      /\ op = "update" => from = "store"
      /\ source' = Resolve(r, k, Pinned[me], None)
  BY DEF StartAsking, Ask, Get, Goto, Keep, command, files
<1>2. me \in Releases
  BY <1>1 DEF SignedInv
<1>3. source'.key = Pinned[me] \/ source'.key \in Pubkeys
  BY <1>1 DEF Resolve
<1>4. KeyOf(source'.key) \in Keys
  BY <1>2, <1>3 DEF Keys
<1> QED  BY <1>1, <1>2, <1>4 DEF SignedInv, RightAnswer, Requests

LEMMA LearnSigned ==
    ASSUME SignedInv, LearnLatest \/ Wipe \/ LearnSums \/ LearnSignature \/ LearnBundle
    PROVE  SignedInv'
<1>1. CASE LearnLatest
  <2>1. CASE End("skipped")
    BY <2>1, EndsSigned
  <2>2. CASE Decide(me, Latest) /\ remote' = Latest /\ HangUp /\ Goto("wipe") /\ Keep
             /\ UNCHANGED <<files, source>>
    <3>1. /\ pc = "latest" /\ op = "update" /\ pc' = "wipe" /\ phase' = "none"
          /\ UNCHANGED <<bin, op, from, me, force, source>>
      BY <1>1, <2>2 DEF LearnLatest, Replied, HangUp, Goto, Keep, command, files
    <3>2. Chosen'
      <4>1. from = "store" /\ me \in Releases /\ bin.cli = me
        BY <3>1 DEF SignedInv, Requests
      <4> QED  BY <2>2, <3>1, <4>1 DEF Chosen, Decide
    <3> QED  BY <3>1, <3>2 DEF SignedInv, RightAnswer, Requests
  <2> QED  BY <1>1, <2>1, <2>2 DEF LearnLatest
<1>2. CASE Wipe
  <2>1. /\ pc = "wipe" /\ pc' = "sums" /\ phase' = "check"
        /\ UNCHANGED <<bin, op, from, me, force, source, remote>>
    BY <1>2 DEF Wipe, Ask, Get, Goto, Keep, command, files
  <2>2. Chosen /\ Chosen'
    BY <2>1 DEF SignedInv, Chosen, Decide
  <2> QED  BY <2>1, <2>2 DEF SignedInv, RightAnswer, Requests, Chosen
<1>3. CASE LearnSums
  <2>1. /\ pc = "sums" /\ pc' = "sig" /\ phase' = "check" /\ sums' = reply.body
        /\ UNCHANGED <<bin, op, from, me, force, source, remote>>
    BY <1>3 DEF LearnSums, Replied, Ask, Get, Goto, Keep, command, files
  <2>2. Chosen /\ Chosen'
    BY <2>1 DEF SignedInv, Chosen, Decide
  <2>3. sums' \in SumsFiles
    BY <1>3, <2>1 DEF LearnSums, Replied, Text, SignedInv, RightAnswer
  <2> QED  BY <2>1, <2>2, <2>3 DEF SignedInv, RightAnswer, Requests, Chosen
<1>4. CASE LearnSignature
  <2>1. /\ pc = "sig" /\ pc' = "zip" /\ phase' = "check" /\ signature' = reply.body
        /\ UNCHANGED <<bin, op, from, me, force, source, remote, sums>>
    BY <1>4 DEF LearnSignature, Replied, Ask, Get, Goto, Keep, command, files
  <2>2. Chosen /\ Chosen'
    BY <2>1 DEF SignedInv, Chosen, Decide
  <2>3. Vouched'
    <3>1. signature' \in SigFiles /\ sums' \in SumsFiles
      BY <1>4, <2>1 DEF LearnSignature, Replied, Text, SignedInv, RightAnswer
    <3> QED  BY <1>4, <2>1, <3>1 DEF LearnSignature, Anchored, Vouched
  <2> QED  BY <2>1, <2>2, <2>3 DEF SignedInv, RightAnswer, Requests, Chosen
<1>5. CASE LearnBundle
  <2>1. /\ pc = "zip" /\ pc' = "extract" /\ phase' = "none" /\ bundle' = reply.body.bundle
        /\ UNCHANGED <<bin, op, from, me, force, source, remote, sums, signature>>
    BY <1>5 DEF LearnBundle, Replied, HangUp, Goto, Keep, command, files
  <2>2. Chosen /\ Chosen' /\ Vouched /\ Vouched'
    BY <2>1 DEF SignedInv, Chosen, Decide, Vouched
  <2>3. Matched'
    <3>1. bundle' \in Bundles
      BY <1>5, <2>1 DEF LearnBundle, Replied, Fetched, Text, SignedInv, RightAnswer
    <3> QED  BY <1>5, <2>1, <3>1 DEF LearnBundle, Fetched, Matched
  <2> QED  BY <2>1, <2>2, <2>3 DEF SignedInv, RightAnswer, Requests, Chosen
<1> QED  BY <1>1, <1>2, <1>3, <1>4, <1>5

LEMMA ExtractSigned ==
    ASSUME SignedInv, NEW left \in Leftovers, ExtractBundle(left)
    PROVE  SignedInv'
<1>1. /\ pc = "extract" /\ pc' = "swapCli"
      /\ Complete(Unpacked(left)) /\ stage' = Unpacked(left).files
      /\ UNCHANGED <<bin, op, from, me, force, source, remote, sums, signature, bundle>>
  BY DEF ExtractBundle, Goto, Keep, command, files
<1>2. Chosen /\ Vouched /\ Matched
  BY <1>1 DEF SignedInv
<1>3. Chosen' /\ Vouched' /\ Matched'
  BY <1>1, <1>2 DEF Chosen, Decide, Vouched, Matched
<1>4. ASSUME SignedIsTrue, NEW f \in Staged(CliPath)'
      PROVE  f[2] = remote
  <2>1. KeyOf(source.key) \in Keys
    BY <1>1 DEF SignedInv
  <2>2. HoldsCli(bundle, remote)
    BY <1>2, <1>4, <2>1 DEF SignedIsTrue, Vouched, Matched
  <2>3. CliIs(Unpacked(left), remote)
    BY <1>1, <1>2, <2>2, ExtractCli DEF Unpacked, Complete, Matched
  <2> QED  BY <1>1, <1>4, <2>3 DEF CliIs, Staged
<1> QED  BY <1>1, <1>3, <1>4 DEF SignedInv, RightAnswer, Requests, Chosen

LEMMA SignedStep == SignedInv /\ [Next]_vars => SignedInv'
<1> SUFFICES ASSUME SignedInv, [Next]_vars
             PROVE  SignedInv'
  OBVIOUS
<1>1. ASSUME NEW c, NEW f, NEW m \in Releases, NEW forced, Begin(c, f, m, forced)
      PROVE  SignedInv'
  BY <1>1 DEF Begin, Goto, SignedInv, RightAnswer, Requests, files
<1>2. CASE \/ CannotAsk \/ LatestFails \/ AnchorFails \/ BundleFails \/ SwapFails
           \/ SetupFails \/ CopyFails \/ SomeRefused \/ Tidy \/ PlaceShim \/ Diagnose \/ Crash
           \/ \E left \in Leftovers : ExtractFails(left)
  BY <1>2, EndsSigned DEF CannotAsk, LatestFails, AnchorFails, BundleFails, SwapFails,
     SetupFails, CopyFails, SomeRefused, Tidy, PlaceShim, Diagnose, Crash, ExtractFails, Fails
<1>3. CASE \/ SwapCli \/ SwapShim \/ \E g \in Releases \cup {None} : StartSetup(g)
           \/ Copy \/ AllCopied \/ Swap \/ Materialized \/ PlaceCli
  BY <1>3, LaterSigned DEF SwapCli, SwapShim, StartSetup, Copy, AllCopied, Swap,
     Materialized, PlaceCli, Keep, command, Goto, Requests
<1>4. CASE LoseBin \/ \E t \in Tools : LoseShim(t)
  BY <1>4 DEF LoseBin, LoseShim, SignedInv, RightAnswer, Requests
<1>5. CASE UNCHANGED vars
  BY <1>5 DEF vars, httpVars, files, asking, command, SignedInv, RightAnswer, Requests,
     Chosen, Decide, Vouched, Matched, Staged
<1> QED  BY <1>1, <1>2, <1>3, <1>4, <1>5, RequestSigned, AskSigned, LearnSigned,
            ExtractSigned DEF Next, Step

LEMMA SignedHolds == Spec => [](SignedInv /\ CopyInv)
<1>1. Init => SignedInv
  BY DEF Init, HttpInit, SignedInv, RightAnswer, Requests
<1> QED  BY <1>1, SignedStep, CopyHolds, PTL DEF Spec

(* Only one step of an update brings another jdk.exe.                      *)
LEMMA OnlySwapCli ==
    ASSUME CopyInv, [Next]_vars, pc = "swapCli", bin'.cli # bin.cli, bin'.cli # Missing
    PROVE  SwapCli /\ bin'.cli \in {f[2] : f \in Staged(CliPath)}
<1>1. ~Crash
  BY DEF Crash, HalfSwapped, CopyInv
<1>2. SwapCli
  BY <1>1 DEF Next, Step, vars, files, Begin, StartAsking, CannotAsk, Request, LearnLatest,
     LatestFails, Wipe, LearnSums, LearnSignature, AnchorFails, LearnBundle, BundleFails,
     ExtractBundle, ExtractFails, SwapShim, SwapFails, StartSetup, SetupFails, Copy,
     CopyFails, AllCopied, Swap, Materialized, SomeRefused, Tidy, PlaceCli, PlaceShim,
     Diagnose, LoseShim, LoseBin, Replied, Fails
<1> QED  BY <1>2 DEF SwapCli, CopyInv

(* What an update installs is the release that was announced, out of an    *)
(* archive that a trusted key signed, whatever servers answer and whatever *)
(* an earlier update has left in the staging (release.rs:185-192).         *)
THEOREM OnlyTheSigned == SignedIsTrue => (Spec => InstalledIsSigned)
<1> SUFFICES ASSUME SignedIsTrue
             PROVE  Spec => InstalledIsSigned
  OBVIOUS
<1>1. SignedInv /\ CopyInv /\ [Next]_vars =>
        [pc = "swapCli" /\ bin'.cli \notin {bin.cli, Missing}
         => /\ bin'.cli = remote
            /\ signature.wire[7][2].key = KeyOf(source.key)
            /\ signature.wire[7][2].namespace = Namespace
            /\ signature.wire[7][2].message = sums
            /\ \E i \in DOMAIN sums :
                 sums[i].names = <<Asset(remote)>> /\ sums[i].hash = bundle]_vars
  <2> SUFFICES ASSUME SignedInv, CopyInv, [Next]_vars,
                      pc = "swapCli", bin'.cli # bin.cli, bin'.cli # Missing
               PROVE  /\ bin'.cli = remote
                      /\ signature.wire[7][2].key = KeyOf(source.key)
                      /\ signature.wire[7][2].namespace = Namespace
                      /\ signature.wire[7][2].message = sums
                      /\ \E i \in DOMAIN sums :
                           sums[i].names = <<Asset(remote)>> /\ sums[i].hash = bundle
    OBVIOUS
  <2>1. bin'.cli = remote /\ Vouched /\ Matched
    BY OnlySwapCli DEF SignedInv
  <2>2. signature.wire[7][2] = Signed(KeyOf(source.key), Namespace, signature.wire[6], sums)
    BY <2>1 DEF Vouched, Verifies
  <2>3. \E i \in DOMAIN sums : sums[i].names = <<Asset(remote)>> /\ sums[i].hash = bundle
    BY <2>1, SumNamed, UpdateAssumption DEF Vouched, Matched
  <2>4. ASSUME NEW made, made = Signed(KeyOf(source.key), Namespace, signature.wire[6], sums)
        PROVE  made.key = KeyOf(source.key) /\ made.namespace = Namespace /\ made.message = sums
    BY <2>4 DEF Signed
  <2> QED  BY <2>1, <2>2, <2>3, <2>4
<1> QED  BY <1>1, SignedHolds, PTL DEF Spec, InstalledIsSigned

(* No update installs an older release, however servers mix the files of   *)
(* several, unless --force says so (update.rs:149-151).                    *)
THEOREM NeverOlder == SignedIsTrue => (Spec => NoDowngrade)
<1> SUFFICES ASSUME SignedIsTrue
             PROVE  Spec => NoDowngrade
  OBVIOUS
<1>1. SignedInv /\ CopyInv /\ [Next]_vars =>
        [pc = "swapCli" /\ bin'.cli < bin.cli /\ bin'.cli # Missing => force]_vars
  <2> SUFFICES ASSUME SignedInv, CopyInv, [Next]_vars,
                      pc = "swapCli", bin'.cli < bin.cli, bin'.cli # Missing
               PROVE  force
    OBVIOUS
  <2>1. Chosen /\ bin.cli \in Nat
    BY UpdateAssumption DEF SignedInv, Chosen
  <2>2. CASE bin'.cli = bin.cli
    BY <2>1, <2>2
  <2>3. CASE bin'.cli # bin.cli
    <3>1. bin'.cli = remote /\ bin'.cli \in Releases
      BY <2>3, OnlySwapCli DEF SignedInv, CopyInv, Built, Staged
    <3> QED  BY <2>1, <3>1, UpdateAssumption DEF Chosen, Decide
  <2> QED  BY <2>2, <2>3
<1> QED  BY <1>1, SignedHolds, PTL DEF Spec, NoDowngrade

-----------------------------------------------------------------------------
(* The download of one archive.                                            *)

(* From the hashing of the part on, the hasher was fed what the part has.  *)
DownloadInv ==
    /\ TypeOK
    /\ HashIsOfPart
    /\ VerifiedOnly
    /\ step = "ask" => part = {hashed} \/ hashed = <<>>
    /\ step = "rename" => hashed = wanted

(* The empty file.                                                         *)
LEMMA NoBytes == <<>> \in Seq(Blocks) /\ AFile({}) /\ AFile({<<>>})
BY EmptySeq DEF AFile

(* What begins, ends or leaves a run, and the site.                        *)
LEMMA AroundStep ==
    ASSUME DownloadInv,
           \/ \E a \in Archives : BeginRun(a)
           \/ BreakOff \/ InstallArchive \/ Stop
           \/ \E a \in Vendors : Publish(a)
           \/ Settle
    PROVE  DownloadInv'
<1> USE DownloadAssumption DEF DownloadInv, TypeOK, AFile, HashIsOfPart, VerifiedOnly, site
<1>1. CASE \E a \in Archives : BeginRun(a)
  BY <1>1 DEF BeginRun
<1>2. CASE BreakOff
  BY <1>2 DEF BreakOff
<1>3. CASE InstallArchive
  BY <1>3 DEF InstallArchive
<1>4. CASE Stop
  BY <1>4 DEF Stop
<1>5. CASE \E a \in Vendors : Publish(a)
  BY <1>5 DEF Publish
<1>6. CASE Settle
  BY <1>6 DEF Settle
<1> QED  BY <1>1, <1>2, <1>3, <1>4, <1>5, <1>6

(* The reply: the part starts over, goes on as it was hashed, or goes.     *)
LEMMA AskStep ==
    ASSUME DownloadInv, NEW a \in Archives,
           Whole(a) \/ Remainder(a) \/ Beyond(a)
    PROVE  DownloadInv'
<1> USE DEF DownloadInv, TypeOK, HashIsOfPart, VerifiedOnly, site
<1>1. a \in Seq(Blocks)
  BY DownloadAssumption
<1>2. CASE Whole(a)
  BY <1>1, <1>2, NoBytes DEF Whole, LetIn
<1>3. CASE Remainder(a)
  <2>1. Len(hashed) \in 1..(Len(a) - 1)
    BY <1>3 DEF Remainder
  <2>2. part = {hashed}
    BY <1>3, <2>1 DEF Remainder
  <2>3. rest' \in Seq(Blocks)
    <3>1. Len(hashed) + 1 \in 1..Len(a)
      BY <1>1, <2>1
    <3> QED  BY <1>1, <1>3, <3>1 DEF Remainder
  <2> QED  BY <1>3, <2>2, <2>3 DEF Remainder, LetIn
<1>4. CASE Beyond(a)
  BY <1>4 DEF Beyond, Discarded, AFile
<1> QED  BY <1>2, <1>3, <1>4

(* The other steps of a run.                                               *)
LEMMA RunStep ==
    ASSUME DownloadInv, Reuse \/ HashPart \/ Receive \/ Verify \/ Finalize
    PROVE  DownloadInv'
<1> USE DEF DownloadInv, TypeOK, HashIsOfPart, VerifiedOnly, site
<1>1. CASE Reuse
  BY <1>1 DEF Reuse, AFile
<1>2. CASE HashPart
  <2>1. CASE part = {}
    BY <1>2, <2>1, NoBytes DEF HashPart
  <2>2. ASSUME NEW b \in Seq(Blocks), part = {b}
        PROVE  DownloadInv'
    <3>1. hashed' = b
      BY <1>2, <2>2 DEF HashPart
    <3> QED  BY <1>2, <2>2, <3>1 DEF HashPart
  <2> QED  BY <2>1, <2>2 DEF AFile
<1>3. CASE Receive
  <2>1. /\ part = {hashed}
        /\ hashed' = Append(hashed, Head(rest)) /\ rest' = Tail(rest)
        /\ hashed' \in Seq(Blocks) /\ rest' \in Seq(Blocks)
    BY <1>3 DEF Receive
  <2>2. {Append(b, Head(rest)) : b \in part} = {hashed'}
    BY <2>1
  <2> HIDE DEF AFile
  <2>3. AFile({}) /\ AFile({hashed'})
    BY <2>1 DEF AFile
  <2> QED  BY <1>3, <2>1, <2>2, <2>3 DEF Receive
<1>4. CASE Verify
  BY <1>4 DEF Verify, Discarded, AFile
<1>5. CASE Finalize
  BY <1>5 DEF Finalize, AFile
<1> QED  BY <1>1, <1>2, <1>3, <1>4, <1>5

(* Every step keeps the invariant.                                         *)
LEMMA DownloadStep == DownloadInv /\ [DownloadNext]_downloadVars => DownloadInv'
<1> SUFFICES ASSUME DownloadInv, [DownloadNext]_downloadVars
             PROVE  DownloadInv'
  OBVIOUS
<1>1. CASE UNCHANGED downloadVars
  BY <1>1 DEF downloadVars, DownloadInv, TypeOK, AFile, HashIsOfPart, VerifiedOnly
<1>2. CASE DownloadNext
  BY <1>2, AroundStep, AskStep, RunStep DEF DownloadNext, Run, Reply
<1> QED  BY <1>1, <1>2

LEMMA DownloadInvariant == DownloadSpec => []DownloadInv
<1>1. DownloadInit => DownloadInv
  <2>1. DownloadInit => TypeOK
    BY NoBytes, Zenon DEF DownloadInit, TypeOK
  <2> QED  BY <2>1 DEF DownloadInit, DownloadInv, HashIsOfPart, VerifiedOnly
<1> QED  BY <1>1, DownloadStep, PTL DEF DownloadSpec

-----------------------------------------------------------------------------

(* For any archives the download is well typed.                            *)
THEOREM DownloadTypes == DownloadSpec => []TypeOK
<1>1. DownloadInv => TypeOK
  BY DEF DownloadInv
<1> QED  BY <1>1, DownloadInvariant, PTL

(* Whatever of the part an earlier run wrote, and whichever build of the   *)
(* archive follows in it, the hash is of the part as it is.                *)
THEOREM HashCoversThePart == DownloadSpec => []HashIsOfPart
<1>1. DownloadInv => HashIsOfPart
  BY DEF DownloadInv
<1> QED  BY <1>1, DownloadInvariant, PTL

(* So only an archive of the catalogue's, whole, is ever at `dest`, and a  *)
(* run that ends well leaves the one it wanted there.                      *)
THEOREM OnlyVerified == DownloadSpec => []VerifiedOnly
<1>1. DownloadInv => VerifiedOnly
  BY DEF DownloadInv
<1> QED  BY <1>1, DownloadInvariant, PTL

=============================================================================
