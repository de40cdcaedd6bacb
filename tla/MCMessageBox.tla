----------------------------- MODULE MCMessageBox -----------------------------
(***************************************************************************)
(* MessageBox for TLC: s1, which the receiver started with spawn, and s2,  *)
(* its owner.                                                              *)
(***************************************************************************)
EXTENDS MessageBox

CONSTANTS s1, s2

\* s1 sends one kind, s2 another one and priority messages.
MixedKinds == [s \in Senders |-> IF s = s1 THEN {"a"} ELSE {"b", "priority"}]

\* s1 sends two messages, s2 one.
ThreeSends == [s \in Senders |-> IF s = s1 THEN 2 ELSE 1]
=============================================================================
