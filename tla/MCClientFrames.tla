--------------------------- MODULE MCClientFrames ---------------------------
(* Model-checking instance of ClientFrames: payloads that come whole, in two  *)
(* parts or in three, payloads at and over the limit, and abandoned frames.   *)
EXTENDS ClientFrames
=============================================================================
