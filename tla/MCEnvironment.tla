--------------------------- MODULE MCEnvironment ---------------------------
(* One setup or undo at a time, the user waiting for its end.              *)
(* One of the user's values of JAVA_HOME cannot be recorded.               *)
EXTENDS Environment, TLC

=============================================================================
