----------------------------- MODULE MCTaskPool -----------------------------
(* Bounded instance of TaskPool. *)
EXTENDS TaskPool
CONSTANTS w1, w2, c1, c2
=============================================================================
