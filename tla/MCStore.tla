------------------------------ MODULE MCStore ------------------------------
(* Two processes over one or two names, asides appended up to MaxLevel.    *)
EXTENDS Store, TLC

CONSTANTS n1, n2

OneBuild     == [n \in {n1} |-> "build"]
BuildAndEa   == [n \in {n1, n2} |-> IF n = n1 THEN "build" ELSE "ea"]
Ranking      == [n \in Names |-> IF n = n1 THEN 1 ELSE 2]
AnyName      == {Names}
EachName     == {{n} : n \in Names}

Symmetry == Permutations(Procs)

=============================================================================
