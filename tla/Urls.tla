-------------------------------- MODULE Urls --------------------------------
(***************************************************************************)
(* The URLs that jdk-core/src/http.rs looks into.  A URL is a scheme, a    *)
(* host and a path of segments, each a kind and a number: <<"v", 2>> is    *)
(* the segment v2 of a release, <<"..", 0>> a step up.                     *)
(***************************************************************************)
EXTENDS Naturals, Sequences

CONSTANTS
    Loopback,   \* localhost, 127.0.0.1 and ::1
    Own         \* the URL of this repository's releases

Policies == {"strict", "allowInsecureLoopback", "loopbackOnly"}

IsLoopback(host) == host \in Loopback

StepsUp(url) == \E i \in DOMAIN url.path : url.path[i][1] = ".."

(* UrlPolicy::check.                                                       *)
Allowed(policy, url) ==
    /\ ~StepsUp(url)
    /\ policy = "loopbackOnly" => IsLoopback(url.host)
    /\ \/ url.scheme = "https" /\ ~(policy = "strict" /\ IsLoopback(url.host))
       \/ url.scheme = "http" /\ policy # "strict" /\ IsLoopback(url.host)

At(url, segments) == [url EXCEPT !.path = @ \o segments]

Up(path) == IF path = <<>> THEN <<>> ELSE SubSeq(path, 1, Len(path) - 1)

(* absolutize: a Location is a URL, a path from the root of the host, or   *)
(* one from beside the URL that answered; of the last two `url` has only   *)
(* the path.                                                               *)
Absolutize(base, location) ==
    CASE location.form = "absolute" -> location.url
      [] location.form = "rooted"   -> [base EXCEPT !.path = location.url.path]
      [] location.form = "relative" ->
           [base EXCEPT !.path = Up(@) \o location.url.path]

(* The version that a release's tag URL ends with, 0 for none.             *)
TagVersion(url) ==
    LET n == Len(url.path) IN
    IF n > 1 /\ url.path[n - 1][1] = "tag" /\ url.path[n][1] = "v"
    THEN url.path[n][2] ELSE 0

-----------------------------------------------------------------------------
(* Where updates come from: release::Source.                               *)

(* Source::resolve, of JDK_RELEASES and JDK_RELEASE_PUBKEY.                *)
Resolve(releases, pubkey, pinned, none) ==
    IF releases = none
    THEN [base |-> Own, policy |-> "strict", key |-> pinned]
    ELSE [base |-> releases, policy |-> "loopbackOnly",
          key |-> IF pubkey = none THEN pinned ELSE pubkey]

(* Source::check.                                                          *)
Vetted(source) == source.base = Own \/ IsLoopback(source.base.host)

=============================================================================
