--------------------------- MODULE MCIndexStream ---------------------------
(* Model-checking instance of IndexStream.                                 *)
EXTENDS IndexStream
=============================================================================
