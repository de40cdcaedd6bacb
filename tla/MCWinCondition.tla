---------------------------- MODULE MCWinCondition ----------------------------
(***************************************************************************)
(* The Windows condition variable for TLC.  GoneLimit is small, so that    *)
(* the branch for int.max / 2 timeouts is reached.                         *)
(***************************************************************************)
EXTENDS WinCondition
=============================================================================
