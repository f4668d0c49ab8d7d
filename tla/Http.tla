-------------------------------- MODULE Http --------------------------------
(***************************************************************************)
(* One GET of jdk-core/src/http.rs: the policy before every hop, the       *)
(* redirects followed by hand, and at each hop a few attempts.  Who asks   *)
(* starts it with Get and reads `reply` when it is over; the server is     *)
(* whoever gives the answers.                                              *)
(***************************************************************************)
EXTENDS Urls

CONSTANTS
    MaxRedirects,  \* MAX_REDIRECTS
    NoReply        \* the request is not over

ASSUME HttpAssumption == MaxRedirects \in Nat

VARIABLES
    phase,    \* of the request: "none", "check", "send" or "over"
    asked,    \* the policy it is under and how many attempts a hop has
    url,      \* where the hop goes
    hops,     \* the redirects that were followed
    attempt,  \* the attempt at this hop
    reply     \* what the request came to

httpVars == <<phase, asked, url, hops, attempt, reply>>

(* retryable_status, and is_redirection, which a 304 is as well.           *)
Retryable(status) == status \in {429, 502, 503, 504}
IsRedirection(status) == status \in 300..399

Failure == [status |-> 0, url |-> Own, body |-> NoReply]

NoPolicy == [policy |-> "strict", attempts |-> 1]

HttpInit ==
    /\ phase = "none"
    /\ asked = NoPolicy
    /\ url = Own
    /\ hops = 0
    /\ attempt = 1
    /\ reply = NoReply

(* Its caller is gone, or done with the reply.                             *)
HangUp ==
    /\ phase' = "none"
    /\ asked' = NoPolicy
    /\ url' = Own
    /\ hops' = 0
    /\ attempt' = 1
    /\ reply' = NoReply

Get(to, policy, attempts) ==
    /\ phase' = "check"
    /\ asked' = [policy |-> policy, attempts |-> attempts]
    /\ url' = to
    /\ hops' = 0
    /\ attempt' = 1
    /\ reply' = NoReply

Over(r) ==
    /\ phase' = "over"
    /\ reply' = r
    /\ UNCHANGED <<asked, url, hops, attempt>>

(* Mutant: only the URL that was asked for is checked.                     *)
CheckFirst ==
    /\ phase = "check"
    /\ \/ /\ hops > 0 \/ Allowed(asked.policy, url)
          /\ phase' = "send"
          /\ attempt' = 1
          /\ UNCHANGED <<asked, url, hops, reply>>
       \/ /\ hops = 0 /\ ~Allowed(asked.policy, url)
          /\ Over(Failure)

(* The policy vets the hop, before anything is sent.                       *)
Check ==
    /\ phase = "check"
    /\ \/ /\ Allowed(asked.policy, url)
          /\ phase' = "send"
          /\ attempt' = 1
          /\ UNCHANGED <<asked, url, hops, reply>>
       \/ /\ ~Allowed(asked.policy, url)
          /\ Over(Failure)

Retry ==
    /\ attempt < asked.attempts
    /\ attempt' = attempt + 1
    /\ UNCHANGED <<phase, asked, url, hops, reply>>

(* No connection, or the time is up.                                       *)
TransportFails ==
    /\ phase = "send"
    /\ Retry \/ (attempt = asked.attempts /\ Over(Failure))

(* Mutant: a redirect is not counted.                                      *)
FollowUncounted(location) ==
    /\ url' = Absolutize(url, location)
    /\ phase' = "check"
    /\ UNCHANGED <<asked, hops, attempt, reply>>

(* The loop of get_with ends after MaxRedirects + 1 hops.                  *)
Follow(location) ==
    \/ /\ hops < MaxRedirects
       /\ hops' = hops + 1
       /\ url' = Absolutize(url, location)
       /\ phase' = "check"
       /\ UNCHANGED <<asked, attempt, reply>>
    \/ hops = MaxRedirects /\ Over(Failure)

(* An answer has a status and, where the status means one, a location (or  *)
(* NoReply for none) or a body.                                            *)
Answered(a) ==
    /\ phase = "send"
    /\ \/ Retryable(a.status) /\ Retry
       \/ /\ Retryable(a.status) => attempt = asked.attempts
          /\ ~IsRedirection(a.status)
          /\ Over([status |-> a.status, url |-> url, body |-> a.body])
       \/ IsRedirection(a.status) /\ a.location # NoReply /\ Follow(a.location)
       \/ IsRedirection(a.status) /\ a.location = NoReply /\ Over(Failure)

=============================================================================
