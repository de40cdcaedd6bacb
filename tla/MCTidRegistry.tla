---------------------------- MODULE MCTidRegistry -----------------------------
(***************************************************************************)
(* The registry for TLC: three threads compete for two names.              *)
(***************************************************************************)
EXTENDS TidRegistry
=============================================================================
