----------------------------- MODULE MCQueries -----------------------------
(* Model-checking instance of Queries.                                     *)
EXTENDS Queries
=============================================================================
