------------------------------ MODULE MCRWMutex ------------------------------
(***************************************************************************)
(* ReadWriteMutex for TLC: four threads, two of which may use timeouts.   *)
(***************************************************************************)
EXTENDS RWMutex
=============================================================================
