---------------------------- MODULE GroupBarrier -----------------------------
(***************************************************************************)
(* What core.sync.barrier promises: "a barrier across which threads may    *)
(* only travel in groups of a specific size".  Threads gather; the arrival *)
(* that completes a group lets the whole group through at once, and each   *)
(* released thread then leaves in its own time.                            *)
(***************************************************************************)
EXTENDS Naturals, FiniteSets

CONSTANTS Threads, Limit

VARIABLES gathering,   \* threads of the group that is not complete yet
          leaving      \* released threads that have not returned yet

vars == <<gathering, leaving>>

Init == gathering = {} /\ leaving = {}

Outside == Threads \ (gathering \union leaving)

Join(t) ==
  /\ t \in Outside
  /\ Cardinality(gathering) + 1 < Limit
  /\ gathering' = gathering \union {t}
  /\ UNCHANGED leaving

\* The completing thread does not block at all.
Complete(t) ==
  /\ t \in Outside
  /\ Cardinality(gathering) + 1 = Limit
  /\ gathering' = {}
  /\ leaving' = leaving \union gathering

Leave(t) ==
  /\ t \in leaving
  /\ leaving' = leaving \ {t}
  /\ UNCHANGED gathering

Next == \E t \in Threads : Join(t) \/ Complete(t) \/ Leave(t)

Spec == Init /\ [][Next]_vars

FairSpec == Spec /\ \A t \in Threads : WF_vars(Leave(t))
=============================================================================
