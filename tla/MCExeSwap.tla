----------------------------- MODULE MCExeSwap -----------------------------
(* A file for each name; a fifth would be open without one, while all of   *)
(* them are taken.                                                         *)
EXTENDS ExeSwap, TLC

Symmetry == Permutations(Procs) \cup Permutations(Files)

=============================================================================
