------------------------------- MODULE MCEvent -------------------------------
(***************************************************************************)
(* Event for TLC: three threads, two of which wait with a timeout.         *)
(***************************************************************************)
EXTENDS Event
=============================================================================
