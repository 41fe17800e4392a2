-------------------------- MODULE MCCommandServer --------------------------
(* Model-checking instances of CommandServer.                              *)
EXTENDS CommandServer, TLC

Steering == {"status", "start", "stop", "threshold"}   \* what a recording depends on
Replies  == {"start", "source", "query"}    \* accepted, refused, unconditional

Symmetry == Permutations(Conns)
=============================================================================
