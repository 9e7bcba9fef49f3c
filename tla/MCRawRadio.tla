----------------------------- MODULE MCRawRadio -----------------------------
(* Model-checking instance of RawRadio: a ring that wraps and fills, and a   *)
(* second session after a Stop that may cut into either task; with stamps    *)
(* that wrap every 8 microseconds, for five turns from before the clock's 0. *)
EXTENDS RawRadio

FiveTurns == -8 .. 32
=============================================================================
