--------------------------- MODULE MCHttpExchange ---------------------------
(* Model-checking instance of HttpExchange: bodies and values of up to two    *)
(* units, read and written in one piece, in two, or failing in between.       *)
EXTENDS HttpExchange
=============================================================================
