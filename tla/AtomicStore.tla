---------------------------- MODULE AtomicStore ----------------------------
(***************************************************************************)
(* What the store promises its users: JDKs appear and disappear in one     *)
(* step each, and none disappears under a process that runs out of it.     *)
(***************************************************************************)
CONSTANTS Names

VARIABLES present,   \* the JDKs in the store
          used       \* those a process runs out of

Init == present = {} /\ used = {}

Add(n) ==
    /\ n \notin present
    /\ present' = present \cup {n}
    /\ UNCHANGED used

Remove(n) ==
    /\ n \in present \ used
    /\ present' = present \ {n}
    /\ UNCHANGED used

Use(n) ==
    /\ n \in present
    /\ used' = used \cup {n}
    /\ UNCHANGED present

Unuse(n) ==
    /\ n \in used
    /\ used' = used \ {n}
    /\ UNCHANGED present

Next == \E n \in Names : Add(n) \/ Remove(n) \/ Use(n) \/ Unuse(n)

Spec == Init /\ [][Next]_<<present, used>>

=============================================================================
