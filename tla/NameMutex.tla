----------------------------- MODULE NameMutex -----------------------------
(***************************************************************************)
(* What InstallLock promises to install(): at most one process at a time   *)
(* is inside the install of a name, and a process is inside at most one.   *)
(* A process leaves when it finishes, fails or dies.                       *)
(***************************************************************************)
CONSTANTS Procs, Names

VARIABLE inside    \* the processes inside the install of each name

Init == inside = [n \in Names |-> {}]

Enter(p, n) ==
    /\ inside[n] = {}
    /\ \A m \in Names : p \notin inside[m]
    /\ inside' = [inside EXCEPT ![n] = {p}]

Leave(p, n) ==
    /\ p \in inside[n]
    /\ inside' = [inside EXCEPT ![n] = {}]

Next == \E p \in Procs, n \in Names : Enter(p, n) \/ Leave(p, n)

Spec == Init /\ [][Next]_inside

=============================================================================
