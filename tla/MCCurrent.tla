----------------------------- MODULE MCCurrent -----------------------------
(* One process at a time, dying at any step, over two targets.             *)
EXTENDS Current, TLC

Symmetry == Permutations(Targets)

=============================================================================
