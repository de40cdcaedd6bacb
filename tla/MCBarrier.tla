------------------------------ MODULE MCBarrier ------------------------------
(***************************************************************************)
(* Barrier for TLC: more threads than the limit, so that groups overlap.   *)
(***************************************************************************)
EXTENDS Barrier
=============================================================================
