-------------------------- MODULE MCCleanupScopes --------------------------
(* Bounded instance of CleanupScopes: one label, because two that are both *)
(* used take four simple statements.                                       *)
EXTENDS CleanupScopes
CONSTANT la
============================================================================
