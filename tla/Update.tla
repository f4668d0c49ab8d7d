------------------------------- MODULE Update -------------------------------
(***************************************************************************)
(* `jdk update` (jdk/src/update.rs, jdk-core/src/release.rs), with the     *)
(* files of `jdk setup` (jdk/src/setup.rs) and the checks that `jdk doctor`*)
(* makes of them (jdk/src/doctor.rs).  They keep three copies of a release *)
(* in step: bin\jdk.exe, bin\jdk-shim.exe, and the shims, one per tool,    *)
(* that are copies of jdk-shim.exe (jdk-core/src/shims.rs).  An executable *)
(* is the number of the release it was built for.                          *)
(*                                                                         *)
(* One command runs at a time.  It may die at any step, and any file may   *)
(* be refused; the releases are asked for over Http, and the server may    *)
(* answer anything.  How one executable is swapped is ExeSwap's subject:   *)
(* here a swap is done, refused, or caught half way by a death.            *)
(***************************************************************************)
EXTENDS Http, Sshsig, Archive

CONSTANTS
    Releases,    \* the releases, by their numbers
    NTools,      \* how many shims there are
    Pinned,      \* the key line that the build of each release trusts
    Overrides,   \* what JDK_RELEASES may hold
    Pubkeys,     \* what JDK_RELEASE_PUBKEY may hold
    Locations,   \* where a server may redirect to
    SumsFiles,   \* the SHA256SUMS it may serve
    SigFiles,    \* the SHA256SUMS.sig
    Bundles,     \* the archives
    MaxUnpacked, \* MAX_UNPACKED
    MaxFiles,    \* MAX_FILES
    Attempts,    \* Retry::default
    None         \* nothing: unset, missing, not known

(* The releases are on a host of their own; what an archive holds are      *)
(* executables; a SHA256SUMS is a sequence of lines.                       *)
ASSUME UpdateAssumption ==
    /\ Own = [scheme |-> "https", host |-> Own.host, path |-> Own.path]
    /\ ~IsLoopback(Own.host)
    /\ \A z \in Bundles :
         /\ Len(z.entries) \in Nat
         /\ \A i \in 1..Len(z.entries) :
              \/ z.entries[i].kind \in {"dir", "link"}
              \/ z.entries[i].kind = "file" /\ z.entries[i].content \in Releases
    /\ None \notin Bundles
    /\ \A m \in SumsFiles : DOMAIN m \subseteq Nat
    /\ Releases \subseteq Nat \ {0}
    /\ NTools \in Nat \ {0}
    /\ Attempts \in Nat \ {0}

Missing == 0
Tools == 1..NTools
Namespace == "jdk-release"

VARIABLES
    bin,       \* bin\jdk.exe (cli) and bin\jdk-shim.exe (shim)
    shims,     \* the shim of each tool
    pc, op,    \* what the process does next, of which command
    from, me,  \* where its own jdk.exe is, and the release that was built for
    force,     \* --force
    source,    \* the release source
    remote,    \* the newest release
    sums,      \* its SHA256SUMS
    signature, \* and the signature of that
    bundle,    \* the archive that matched it
    stage,     \* the files in cache\update\stage, as pairs of path and build
    payload,   \* the jdk-shim.exe that the shims are copied from
    n,         \* the tool that is looked at
    staged,    \* the tools whose shim is staged
    refused,   \* those whose swap was refused
    result,    \* how the last command ended
    torn,      \* a swap of a shim was refused or cut off, or a shim lost
    lag        \* bin\jdk-shim.exe and the shims were not both written

files    == <<bin, shims>>
history  == <<torn, lag>>
asking   == <<source, remote, sums, signature, bundle, stage>>
copying  == <<payload, n, staged, refused>>
command  == <<op, from, me, force>>
vars     == <<httpVars, files, pc, command, asking, copying, result, history>>

NoSource == [base |-> Own, policy |-> "strict", key |-> None]

Requests == {"latest", "sums", "sig", "zip"}
PCs == {"idle", "start", "wipe", "extract", "swapCli", "swapShim", "source",
        "copy", "swap", "placeCli", "placeShim", "tidy"} \cup Requests

(* Nothing is set up, or all of one release is.                            *)
Init ==
    /\ HttpInit
    /\ \E v \in Releases \cup {Missing} :
         /\ bin = [cli |-> v, shim |-> v]
         /\ shims = [t \in Tools |-> v]
         /\ torn = (v = Missing)
         /\ lag = (v = Missing)
    /\ stage = {}
    /\ pc = "idle" /\ op = "none" /\ from = "none" /\ me = Missing /\ force = FALSE
    /\ source = NoSource /\ remote = 0
    /\ sums = None /\ signature = None /\ bundle = None
    /\ payload = Missing /\ n = 1 /\ staged = {} /\ refused = {}
    /\ result = "none"

-----------------------------------------------------------------------------

Goto(l) == pc' = l

(* The command ends and is forgotten.                                      *)
End(r) ==
    /\ Goto("idle")
    /\ result' = r
    /\ op' = "none" /\ from' = "none" /\ me' = Missing /\ force' = FALSE
    /\ source' = NoSource /\ remote' = 0 /\ stage' = {}
    /\ sums' = None /\ signature' = None /\ bundle' = None
    /\ payload' = Missing /\ n' = 1 /\ staged' = {} /\ refused' = {}
    /\ HangUp

Fails == End("failed") /\ UNCHANGED <<files, history>>

Keep == UNCHANGED <<command, result>>

(* A jdk.exe runs from the store, from an unpacked release with its        *)
(* jdk-shim.exe beside it, or from elsewhere (~\.cargo\bin) without one.   *)
Begin(c, f, m, forced) ==
    /\ pc = "idle"
    /\ f = "store" => bin.cli = m
    /\ forced => c = "update"
    /\ Goto("start")
    /\ op' = c /\ from' = f /\ me' = m /\ force' = forced
    /\ result' = "none"
    /\ UNCHANGED <<httpVars, files, asking, copying, history>>

-----------------------------------------------------------------------------
(* The release source and the newest release.                              *)

Ask(segments, attempts) ==
    Get(At(source'.base, segments), source'.policy, attempts)

(* update and doctor: guard_store_copy, Source::resolve and Http::new,     *)
(* which may find no trust roots, then latest.                             *)
StartAsking(releases, pubkey) ==
    /\ pc = "start" /\ op \in {"update", "doctor"}
    /\ op = "update" => from = "store"
    /\ LET s == Resolve(releases, pubkey, Pinned[me], None) IN
       /\ ParsesKey(s.key) /\ Vetted(s)
       /\ source' = s
    /\ Ask(<<<<"latest", 0>>>>, IF op = "doctor" THEN 1 ELSE Attempts)
    /\ Goto("latest")
    /\ Keep
    /\ UNCHANGED <<files, remote, sums, signature, bundle, stage, copying, history>>

(* From elsewhere, of a source or a key that is refused, without roots.    *)
CannotAsk == pc = "start" /\ op = "update" /\ Fails

(* What the reply to the release check says; 0 for an error.               *)
Latest ==
    IF reply.status = 200 /\ reply.url.host = source.base.host
    THEN TagVersion(reply.url) ELSE 0

(* Mutant: any other release will do.                                      *)
DecideOther(local, newest) == force \/ newest # local

Decide(local, newest) == force \/ newest > local

Replied(l) == pc = l /\ phase = "over"

LearnLatest ==
    /\ Replied("latest") /\ op = "update"
    /\ Latest # 0
    /\ \/ /\ Decide(me, Latest)
          /\ remote' = Latest
          /\ HangUp
          /\ Goto("wipe")
          /\ Keep
          /\ UNCHANGED <<files, source, sums, signature, bundle, stage,
                         copying, history>>
       \/ /\ ~Decide(me, Latest)
          /\ End("skipped")
          /\ UNCHANGED <<files, history>>

LatestFails == Replied("latest") /\ op = "update" /\ Latest = 0 /\ Fails

-----------------------------------------------------------------------------
(* fetch_bundle.                                                           *)

(* The staging is removed; what stays, for it may, counts at ExtractBundle.*)
Wipe ==
    /\ pc = "wipe"
    /\ source' = source
    /\ Ask(<<<<"download", 0>>, <<"v", remote>>, <<"SHA256SUMS", 0>>>>, Attempts)
    /\ Goto("sums")
    /\ Keep
    /\ UNCHANGED <<files, remote, sums, signature, bundle, stage, copying, history>>

(* A body that is text within its limit.                                   *)
Text == reply.status = 200 /\ reply.body # None

LearnSums ==
    /\ Replied("sums") /\ Text
    /\ sums' = reply.body
    /\ source' = source
    /\ Ask(<<<<"download", 0>>, <<"v", remote>>, <<"SHA256SUMS.sig", 0>>>>, Attempts)
    /\ Goto("sig")
    /\ Keep
    /\ UNCHANGED <<files, remote, signature, bundle, stage, copying, history>>

KeyOf(line) == line[2][2]

Anchored == Verifies(reply.body, sums, KeyOf(source.key), Namespace)

LearnSignature ==
    /\ Replied("sig") /\ Text /\ Anchored
    /\ signature' = reply.body
    /\ source' = source
    /\ Ask(<<<<"download", 0>>, <<"v", remote>>, <<"zip", remote>>>>, Attempts)
    /\ Goto("zip")
    /\ Keep
    /\ UNCHANGED <<files, remote, sums, bundle, stage, copying, history>>

AnchorFails ==
    /\ \/ Replied("sums") /\ ~Text
       \/ Replied("sig") /\ ~(Text /\ Anchored)
    /\ Fails

(* sum_for: the first line that is a hash and this name, and nothing else. *)
SumFor(lines, asset) ==
    LET named == {i \in DOMAIN lines : lines[i].names = <<asset>>
                                         /\ lines[i].hash # None} IN
    IF named = {} THEN None
    ELSE lines[CHOOSE i \in named : \A j \in named : i <= j].hash

Asset(v) == <<"x64", v>>

(* The archive that came whole, within the ceiling, and has that hash; a   *)
(* body may end early, cut off or at the ceiling.                          *)
Fetched ==
    /\ Text
    /\ reply.body.ends = "whole"
    /\ SumFor(sums, Asset(remote)) = reply.body.bundle

LearnBundle ==
    /\ Replied("zip") /\ Fetched
    /\ bundle' = reply.body.bundle
    /\ HangUp
    /\ Goto("extract")
    /\ Keep
    /\ UNCHANGED <<files, source, remote, sums, signature, stage,
                   copying, history>>

BundleFails == Replied("zip") /\ ~Fetched /\ Fails

-----------------------------------------------------------------------------
(* The swap of the two executables.                                        *)

CliPath == <<"jdk.exe">>
ShimPath == <<"jdk-shim.exe">>
Staged(path) == {f \in stage : f[1] = path}

(* What an earlier run may have extracted there, and no Wipe removed.      *)
Leftovers ==
    {left \in SUBSET ({CliPath, ShimPath} \X Releases) :
       \A f, g \in left : f[1] = g[1] => f = g}

Unpacked(left) == Extract(bundle, left, MaxUnpacked, MaxFiles)

Complete(unpacked) ==
    /\ unpacked.ok
    /\ \A path \in {CliPath, ShimPath} : \E f \in unpacked.files : f[1] = path

ExtractBundle(left) ==
    /\ pc = "extract"
    /\ Complete(Unpacked(left))
    /\ stage' = Unpacked(left).files
    /\ Goto("swapCli")
    /\ Keep
    /\ UNCHANGED <<httpVars, files, source, remote, sums, signature, bundle,
                   copying, history>>

ExtractFails(left) ==
    /\ pc = "extract"
    /\ ~Complete(Unpacked(left))
    /\ Fails

(* swap_in, which moves the file out of the staging.                       *)
SwapCli ==
    /\ pc = "swapCli"
    /\ \E f \in Staged(CliPath) :
         /\ bin' = [bin EXCEPT !.cli = f[2]]
    /\ Goto("swapShim")
    /\ Keep
    /\ UNCHANGED <<httpVars, shims, asking, copying, history>>

SwapShim ==
    /\ pc = "swapShim"
    /\ \E f \in Staged(ShimPath) :
         /\ bin' = [bin EXCEPT !.shim = f[2]]
         /\ payload' = f[2]
    /\ lag' = TRUE
    /\ Goto("copy")
    /\ Keep
    /\ UNCHANGED <<httpVars, shims, asking, n, staged, refused, torn>>

SwapFails == pc \in {"swapCli", "swapShim"} /\ Fails

-----------------------------------------------------------------------------
(* materialize.                                                            *)

(* materialize_shims: --shim-source, or what is beside the jdk.exe.        *)
BesideMe ==
    CASE from = "store"   -> bin.shim
      [] from = "package" -> me
      [] OTHER            -> Missing

StartSetup(given) ==
    /\ pc = "start" /\ op = "setup"
    /\ LET build == IF given = None THEN BesideMe ELSE given IN
       /\ build # Missing
       /\ payload' = build
    /\ Goto("copy")
    /\ Keep
    /\ UNCHANGED <<httpVars, files, asking, n, staged, refused, history>>

(* No consent, no source, or one that cannot be read.                      *)
SetupFails == pc = "start" /\ op = "setup" /\ Fails

(* Mutant: each shim is swapped as soon as it is copied.                   *)
CopyAndSwap ==
    /\ pc = "copy" /\ n <= NTools
    /\ shims' = [shims EXCEPT ![n] = payload]
    /\ n' = n + 1
    /\ Keep
    /\ UNCHANGED <<httpVars, bin, pc, asking, payload, staged, refused, history>>

Copy ==
    /\ pc = "copy" /\ n <= NTools
    /\ staged' = IF shims[n] = payload THEN staged ELSE staged \cup {n}
    /\ n' = n + 1
    /\ Keep
    /\ UNCHANGED <<httpVars, files, pc, asking, payload, refused, history>>

CopyFails ==
    /\ pc = "copy" /\ n <= NTools
    /\ shims[n] # payload
    /\ Fails

AllCopied ==
    /\ pc = "copy" /\ n > NTools
    /\ Goto("swap")
    /\ n' = 1
    /\ Keep
    /\ UNCHANGED <<httpVars, files, asking, payload, staged, refused, history>>

Swap ==
    /\ pc = "swap" /\ n <= NTools
    /\ \/ /\ n \in staged
          /\ shims' = [shims EXCEPT ![n] = payload]
          /\ UNCHANGED <<refused, torn>>
       \/ /\ n \in staged
          /\ refused' = refused \cup {n}
          /\ torn' = TRUE
          /\ UNCHANGED shims
       \/ n \notin staged /\ UNCHANGED <<shims, refused, torn>>
    /\ n' = n + 1
    /\ Keep
    /\ UNCHANGED <<httpVars, bin, pc, asking, payload, staged, lag>>

Materialized ==
    /\ pc = "swap" /\ n > NTools /\ refused = {}
    /\ torn' = FALSE
    /\ lag' = (op = "setup")
    /\ Goto(IF op = "update" THEN "tidy" ELSE "placeCli")
    /\ Keep
    /\ UNCHANGED <<httpVars, files, asking, copying>>

SomeRefused == pc = "swap" /\ n > NTools /\ refused # {} /\ Fails

Tidy ==
    /\ pc = "tidy"
    /\ End("ok")
    /\ UNCHANGED <<bin, shims, history>>

(* place_cli: two copies, each of which may be refused with a warning.     *)
PlaceCli ==
    /\ pc = "placeCli"
    /\ \/ bin' = [bin EXCEPT !.cli = me]
       \/ bin' = bin
    /\ Goto("placeShim")
    /\ Keep
    /\ UNCHANGED <<httpVars, shims, asking, copying, history>>

PlaceShim ==
    /\ pc = "placeShim"
    /\ \/ bin' = [bin EXCEPT !.shim = payload] /\ lag' = FALSE
       \/ bin.shim # payload /\ bin' = bin /\ lag' = TRUE
    /\ End("ok")
    /\ UNCHANGED <<shims, torn>>

-----------------------------------------------------------------------------
(* doctor.                                                                 *)

(* shims_present.                                                          *)
ShimsPresent == \A t \in Tools : shims[t] # Missing

(* cli_copy notes a bin\jdk.exe that is missing or another.                *)
CliNoted == from # "store" /\ bin.cli # me

(* absent_shim_source.                                                     *)
NoWayBack == bin.shim = Missing /\ BesideMe = Missing

(* shim_source: a shim that differs; one that is missing is not counted.   *)
ShimsDiffer ==
    bin.shim # Missing /\ \E t \in Tools : shims[t] \notin {Missing, bin.shim}

Broken == ~ShimsPresent \/ NoWayBack \/ ShimsDiffer

(* index_reachable and update_available only add notes.                    *)
UpdateNoted == phase = "over" /\ (Latest = 0 \/ Latest > me)

Diagnose ==
    /\ op = "doctor"
    /\ Replied("latest") \/ pc = "start"
    /\ End(CASE Broken -> "broken"
             [] ~Broken /\ (CliNoted \/ UpdateNoted \/ pc = "start") -> "noted"
             [] ~Broken /\ ~(CliNoted \/ UpdateNoted \/ pc = "start") -> "ok")
    /\ UNCHANGED <<files, history>>

-----------------------------------------------------------------------------
(* The surroundings.                                                       *)

(* What a server may answer to what is asked of it.                        *)
Bodies ==
    CASE pc = "sums" -> SumsFiles \cup {None}
      [] pc = "sig"  -> SigFiles \cup {None}
      [] pc = "zip"  -> [bundle : Bundles, ends : {"whole", "early"}]
      [] OTHER       -> {None}

Answer ==
    \/ \E s \in {304, 503} :
         Answered([status |-> s, location |-> NoReply, body |-> None])
    \/ \E l \in Locations :
         Answered([status |-> 302, location |-> l, body |-> None])
    \/ \E b \in Bodies :
         Answered([status |-> 200, location |-> NoReply, body |-> b])

Request ==
    /\ Check \/ TransportFails \/ Answer
    /\ UNCHANGED <<files, pc, command, asking, copying, result, history>>

(* A death in the middle of a swap may leave its name empty.               *)
HalfSwapped ==
    CASE pc \in {"swapCli", "placeCli"} ->
           /\ bin' \in {bin, [bin EXCEPT !.cli = Missing]}
           /\ UNCHANGED shims
      [] pc \in {"swapShim", "placeShim"} ->
           /\ bin' \in {bin, [bin EXCEPT !.shim = Missing]}
           /\ UNCHANGED shims
      [] pc = "swap" /\ n \in staged ->
           /\ shims' \in {shims, [shims EXCEPT ![n] = Missing]}
           /\ UNCHANGED bin
      [] OTHER -> UNCHANGED <<bin, shims>>

Crash ==
    /\ pc # "idle"
    /\ HalfSwapped
    /\ torn' = (torn \/ pc = "swap")
    /\ lag' = (lag \/ bin'.shim # bin.shim)
    /\ End("died")

(* A file is taken away, by an antivirus or by hand.                       *)
LoseShim(t) ==
    /\ pc = "idle"
    /\ shims' = [shims EXCEPT ![t] = Missing]
    /\ torn' = TRUE
    /\ UNCHANGED <<httpVars, bin, pc, command, asking, copying, result, lag>>

LoseBin ==
    /\ pc = "idle"
    /\ \E x \in {"cli", "shim"} : bin' = [bin EXCEPT ![x] = Missing]
    /\ lag' = (lag \/ bin'.shim # bin.shim)
    /\ UNCHANGED <<httpVars, shims, pc, command, asking, copying, result, torn>>

Step ==
    \/ \E r \in Overrides \cup {None}, k \in Pubkeys \cup {None} :
         StartAsking(r, k)
    \/ CannotAsk \/ Request
    \/ LearnLatest \/ LatestFails \/ Wipe
    \/ LearnSums \/ LearnSignature \/ AnchorFails \/ LearnBundle \/ BundleFails
    \/ \E left \in Leftovers : ExtractBundle(left) \/ ExtractFails(left)
    \/ SwapCli \/ SwapShim \/ SwapFails
    \/ \E g \in Releases \cup {None} : StartSetup(g)
    \/ SetupFails
    \/ Copy \/ CopyFails \/ AllCopied \/ Swap \/ Materialized \/ SomeRefused
    \/ Tidy \/ PlaceCli \/ PlaceShim \/ Diagnose

Next ==
    \/ \E c \in {"update", "setup", "doctor"}, f \in {"store", "package", "cargo"},
          m \in Releases, forced \in BOOLEAN : Begin(c, f, m, forced)
    \/ Step
    \/ Crash
    \/ \E t \in Tools : LoseShim(t)
    \/ LoseBin

Spec == Init /\ [][Next]_vars

(* What is asked is answered, or the time is up; a body that stalls is     *)
(* ended by the user.                                                      *)
FairSpec == Spec /\ WF_vars(Step)

-----------------------------------------------------------------------------
(* Properties.                                                             *)

(* What an update installs is the release that was announced, out of an    *)
(* archive that the SHA256SUMS names for it, which the key of the source   *)
(* signed for this purpose (release.rs:185-192, sshsig.rs:90-95).          *)
InstalledIsSigned ==
    [][pc = "swapCli" /\ bin'.cli \notin {bin.cli, Missing}
         => /\ bin'.cli = remote
            /\ signature.wire[7][2].key = KeyOf(source.key)
            /\ signature.wire[7][2].namespace = Namespace
            /\ signature.wire[7][2].message = sums
            /\ \E i \in DOMAIN sums :
                 sums[i].names = <<Asset(remote)>> /\ sums[i].hash = bundle]_vars

(* Wherever a server redirects to, a request goes out over https and       *)
(* leaves the machine, or JDK_RELEASES is set and it does not; and a key   *)
(* other than the pinned one vouches for local servers only                *)
(* (release.rs:93-104, http.rs:45-50).                                     *)
RequestsStayOnSide ==
    phase = "send" =>
      /\ ~StepsUp(url)
      /\ IF source.base = Own
         THEN url.scheme = "https" /\ ~IsLoopback(url.host) /\ source.key = Pinned[me]
         ELSE IsLoopback(url.host)

(* No update installs an older release unless --force says so              *)
(* (update.rs:149-151).                                                    *)
NoDowngrade ==
    [][pc = "swapCli" /\ bin'.cli < bin.cli /\ bin'.cli # Missing => force]_vars

(* Between commands the shims are all of one release, unless a swap was    *)
(* refused or cut off, or one was lost, since they last were               *)
(* (shims.rs:75-91); they are of the release of bin\jdk-shim.exe, unless   *)
(* that was written without them or they without it (setup.rs:158-163);    *)
(* and only such a mishap makes doctor fail (doctor.rs:624-632).           *)
ShimsAgree ==
    pc = "idle" =>
      /\ torn \/ \A t, u \in Tools : shims[t] = shims[u]
      /\ torn \/ lag \/ \A t \in Tools : shims[t] = bin.shim /\ bin.shim # Missing
      /\ result = "broken" => torn \/ lag

(* Every command ends, whatever the servers answer (http.rs:202-265).      *)
EveryCommandEnds == pc # "idle" ~> pc = "idle"

=============================================================================
