------------------------------ MODULE Download ------------------------------
(***************************************************************************)
(* The download of one archive (jdk-core/src/download.rs), run after run:  *)
(* an archive that is there and verifies is reused; otherwise `dest.part`, *)
(* hashed first, is resumed by a range request or started over, hashed as  *)
(* it grows, and renamed to `dest` when its hash is the one wanted.  One   *)
(* run goes at a time, under the install lock (InstallLock).  The site     *)
(* may rebuild the archive at any time, ignore the range, send a body of   *)
(* undeclared length or another body, and break off; any file call may be  *)
(* refused, and the process may die.  Archives are sequences of blocks, a  *)
(* block standing for what one read returns, and hashes do not collide.    *)
(***************************************************************************)
EXTENDS Integers, Sequences

CONSTANTS
    Blocks,    \* the blocks of archives
    Archives,  \* the bodies that a request may be answered with
    Vendors,   \* those at a trusted host, with a checksum in the catalogue
    Cap        \* MAX_ARCHIVE, in blocks

ASSUME DownloadAssumption ==
    /\ Archives \subseteq Seq(Blocks)
    /\ <<>> \notin Archives
    /\ Vendors \subseteq Archives
    /\ Cap \in Nat

VARIABLES
    served,    \* what the site has
    calm,      \* whether troubles are over: an assumption of RetriesSucceed
    dest,      \* the archive's file: its content, or nothing when missing
    part,      \* the staging file beside it, likewise
    step,      \* where the run is
    wanted,    \* the archive whose checksum the run goes by
    hashed,    \* what the hasher was fed
    rest       \* the body still to come

site == <<served, calm>>
downloadVars == <<served, calm, dest, part, step, wanted, hashed, rest>>

(* A file that exists has one content.                                     *)
AFile(f) == f \subseteq Seq(Blocks) /\ \A b, c \in f : b = c

TypeOK ==
    /\ served \in Vendors
    /\ calm \in BOOLEAN
    /\ AFile(dest)
    /\ AFile(part)
    /\ step \in {"idle", "dest", "part", "ask", "stream", "rename", "done"}
    /\ wanted \in Vendors
    /\ hashed \in Seq(Blocks)
    /\ rest \in Seq(Blocks)

DownloadInit ==
    /\ served \in Vendors
    /\ calm = FALSE
    /\ dest = {}
    /\ part = {}
    /\ step = "idle"
    /\ wanted \in Vendors
    /\ hashed = <<>>
    /\ rest = <<>>

-----------------------------------------------------------------------------

(* A run for an archive of the catalogue's, which may be out of date.      *)
BeginRun(a) ==
    /\ step = "idle"
    /\ a \in Vendors
    /\ a # served => ~calm
    /\ wanted' = a
    /\ step' = "dest"
    /\ UNCHANGED <<site, dest, part, hashed, rest>>

(* Mutant: an archive that is there is taken unverified.                   *)
ReuseAny ==
    /\ step = "dest"
    /\ step' = IF dest # {} THEN "done" ELSE "part"
    /\ UNCHANGED <<site, dest, part, wanted, hashed, rest>>

Reuse ==
    /\ step = "dest"
    /\ \/ dest = {wanted} /\ step' = "done" /\ UNCHANGED dest
       \/ dest # {wanted} /\ step' = "part" /\ dest' = {}
    /\ UNCHANGED <<site, part, wanted, hashed, rest>>

HashPart ==
    /\ step = "part"
    /\ hashed' \in IF part = {} THEN {<<>>} ELSE part
    /\ step' = "ask"
    /\ UNCHANGED <<site, dest, part, wanted, rest>>

(* Whether a body is let in: undeclared, or within the ceiling.            *)
LetIn(a) ==
    \/ Len(a) <= Cap /\ step' = "stream"
    \/ Len(a) > Cap /\ step' \in {"stream", "idle"}

(* 200, to a request without a range, or by a server that ignores it.      *)
Whole(a) ==
    /\ step = "ask"
    /\ hashed' = <<>>
    /\ part' = {<<>>}
    /\ rest' = a
    /\ LetIn(a)
    /\ UNCHANGED <<site, dest, wanted>>

(* 206: what follows the part, of whatever is there now.                   *)
Remainder(a) ==
    /\ step = "ask"
    /\ Len(hashed) \in 1..(Len(a) - 1)
    /\ rest' = SubSeq(a, Len(hashed) + 1, Len(a))
    /\ LetIn(a)
    /\ UNCHANGED <<site, dest, part, wanted, hashed>>

(* A removal whose failure is ignored.                                     *)
Discarded == part' = {} \/ (~calm /\ part' = part)

(* Mutant: 416 is an error as any other status is.                         *)
BeyondEnds(a) ==
    /\ step = "ask"
    /\ Len(hashed) > 0 /\ Len(hashed) >= Len(a)
    /\ step' = "idle"
    /\ UNCHANGED <<site, dest, part, wanted, hashed, rest>>

(* 416: the part is removed, and all starts over.                          *)
Beyond(a) ==
    /\ step = "ask"
    /\ Len(hashed) > 0 /\ Len(hashed) >= Len(a)
    /\ Discarded
    /\ step' = "dest"
    /\ UNCHANGED <<site, dest, wanted, hashed, rest>>

(* The reply to the request for `wanted`: of what the site has, or not.    *)
Reply ==
    \E a \in Archives :
       /\ a # served => ~calm
       /\ Whole(a) \/ Remainder(a) \/ Beyond(a)

(* The next block is hashed and written, and may be one too many.          *)
Receive ==
    /\ step = "stream" /\ rest # <<>>
    /\ hashed' = Append(hashed, Head(rest))
    /\ rest' = Tail(rest)
    /\ \/ /\ Len(hashed) < Cap
          /\ part' = {Append(b, Head(rest)) : b \in part}
          /\ UNCHANGED step
       \/ /\ Len(hashed) >= Cap
          /\ \/ part' = {}
             \/ ~calm /\ part' = {Append(b, Head(rest)) : b \in part}
          /\ step' = "idle"
    /\ UNCHANGED <<site, dest, wanted>>

(* A body of undeclared length that breaks off seems to end.               *)
BreakOff ==
    /\ step = "stream" /\ rest # <<>>
    /\ ~calm
    /\ rest' = <<>>
    /\ UNCHANGED <<site, dest, part, step, wanted, hashed>>

Verify ==
    /\ step = "stream" /\ rest = <<>>
    /\ \/ hashed = wanted /\ step' = "rename" /\ UNCHANGED part
       \/ hashed # wanted /\ step' = "idle" /\ Discarded
    /\ UNCHANGED <<site, dest, wanted, hashed, rest>>

Finalize ==
    /\ step = "rename"
    /\ dest' = part
    /\ part' = {}
    /\ step' = "done"
    /\ UNCHANGED <<site, wanted, hashed, rest>>

(* The install extracts the archive, and removes it when that succeeds.    *)
InstallArchive ==
    /\ step = "done"
    /\ dest' \in {{}, dest}
    /\ step' = "idle"
    /\ UNCHANGED <<site, part, wanted, hashed, rest>>

(* A refused file call, an error of the connection or any other status,    *)
(* which end the run with an error, or the death of the process.           *)
Stop ==
    /\ step \notin {"idle", "done"}
    /\ ~calm
    /\ step' = "idle"
    /\ UNCHANGED <<site, dest, part, wanted, hashed, rest>>

-----------------------------------------------------------------------------
(* The site.                                                               *)

Publish(a) ==
    /\ ~calm
    /\ served' = a
    /\ UNCHANGED <<calm, dest, part, step, wanted, hashed, rest>>

(* From here on nothing more goes wrong.                                   *)
Settle ==
    /\ ~calm
    /\ Len(served) <= Cap
    /\ calm' = TRUE
    /\ UNCHANGED <<served, dest, part, step, wanted, hashed, rest>>

-----------------------------------------------------------------------------

Run == Reuse \/ HashPart \/ Reply \/ Receive \/ Verify \/ Finalize

DownloadNext ==
    \/ \E a \in Archives : BeginRun(a)
    \/ Run \/ BreakOff \/ InstallArchive \/ Stop
    \/ \E a \in Vendors : Publish(a)
    \/ Settle

DownloadSpec == DownloadInit /\ [][DownloadNext]_downloadVars

(* A run goes on, and the user tries again.                                *)
FairDownloads == DownloadSpec /\ WF_downloadVars(Run \/ BeginRun(served))

-----------------------------------------------------------------------------
(* Properties.                                                             *)

(* The hash is of the bytes that would be renamed in: of all the part has, *)
(* whatever of it an earlier run wrote (download.rs:72-101, 130-162).      *)
HashIsOfPart == step \in {"stream", "rename"} => part = {hashed}

(* What is at `dest` was verified whole, and a run that ends well leaves   *)
(* the archive that it wanted there, not that of an earlier run            *)
(* (download.rs:1-4, 63-69).                                               *)
VerifiedOnly ==
    /\ dest \subseteq Vendors
    /\ step = "done" => dest = {wanted}

(* Whatever part earlier runs left, of whichever build of the archive,     *)
(* trying again gets it once nothing more goes wrong: no part is resumed   *)
(* for ever (download.rs:102-106, 163-165).                                *)
RetriesSucceed == calm /\ step = "idle" ~> step = "done" /\ dest = {served}

=============================================================================
