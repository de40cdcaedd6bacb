------------------------------- MODULE Barrier -------------------------------
(***************************************************************************)
(* core.sync.barrier.Barrier.  wait() holds m_lock except while it sleeps  *)
(* in m_cond.wait, so it is two actions: from the call to the return or    *)
(* the first sleep, and from a wakeup to the return or the next sleep.     *)
(***************************************************************************)
EXTENDS Naturals, FiniteSets, CondVar

CONSTANTS Threads,
          Limit,      \* the constructor's limit
          MaxGroup    \* bound on m_group; in the code it is uint.max, and
                      \* what happens when m_group wraps is not modelled

ASSUME BarrierAssumption ==
  /\ IsFiniteSet(Threads)
  /\ Limit \in Nat \ {0}      \* the constructor's contract: limit > 0
  /\ MaxGroup \in Nat

VARIABLES m_group, m_count,
          m_cond,     \* threads asleep in m_cond.wait
          waiting,    \* threads inside wait()
          group       \* each thread's local copy of m_group

vars == <<m_group, m_count, m_cond, waiting, group>>

Init ==
  /\ m_group = 0
  /\ m_count = Limit
  /\ m_cond = {}
  /\ waiting = {}
  /\ group = [t \in Threads |-> 0]

\* Mutant: the last arrival forgets to wake the others.
ArriveSilently(t) ==
  /\ t \notin waiting
  /\ m_group < MaxGroup
  /\ group' = [group EXCEPT ![t] = m_group]
  /\ IF m_count - 1 = 0
       THEN /\ m_group' = m_group + 1
            /\ m_count' = Limit
            /\ UNCHANGED <<m_cond, waiting>>
       ELSE /\ m_count' = m_count - 1
            /\ m_cond' = wait(m_cond, t)
            /\ waiting' = waiting \union {t}
            /\ UNCHANGED m_group

\* Mutant: the last arrival forgets to reset the count for the next group.
ArriveNoReset(t) ==
  /\ t \notin waiting
  /\ m_group < MaxGroup
  /\ group' = [group EXCEPT ![t] = m_group]
  /\ IF m_count - 1 = 0
       THEN /\ m_group' = m_group + 1
            /\ m_count' = 1
            /\ m_cond' = notifyAll(m_cond)
            /\ UNCHANGED waiting
       ELSE /\ m_count' = m_count - 1
            /\ m_cond' = wait(m_cond, t)
            /\ waiting' = waiting \union {t}
            /\ UNCHANGED m_group

\* wait(), up to its return (the arrival that completes the group finds
\* group # m_group) or its first m_cond.wait.
Arrive(t) ==
  /\ t \notin waiting
  /\ m_group < MaxGroup
  /\ group' = [group EXCEPT ![t] = m_group]
  /\ IF m_count - 1 = 0
       THEN /\ m_group' = m_group + 1
            /\ m_count' = Limit
            /\ m_cond' = notifyAll(m_cond)
            /\ UNCHANGED waiting
       ELSE /\ m_count' = m_count - 1
            /\ m_cond' = wait(m_cond, t)
            /\ waiting' = waiting \union {t}
            /\ UNCHANGED m_group

\* Mutant: an if instead of a while around m_cond.wait.
WakeUnchecked(t) ==
  /\ t \in waiting \ m_cond
  /\ waiting' = waiting \ {t}
  /\ UNCHANGED <<m_group, m_count, m_cond, group>>

\* m_cond.wait returned: the loop compares the groups again.
Wake(t) ==
  /\ t \in waiting \ m_cond
  /\ IF group[t] = m_group
       THEN m_cond' = wait(m_cond, t) /\ UNCHANGED waiting
       ELSE waiting' = waiting \ {t} /\ UNCHANGED m_cond
  /\ UNCHANGED <<m_group, m_count, group>>

SpuriousWakeup(t) ==
  /\ t \in m_cond
  /\ m_cond' = wakeUp(m_cond, t)
  /\ UNCHANGED <<m_group, m_count, waiting, group>>

Next == \E t \in Threads : Arrive(t) \/ Wake(t) \/ SpuriousWakeup(t)

Spec == Init /\ [][Next]_vars

\* A thread that is awake inside wait() eventually runs.
FairSpec == Spec /\ \A t \in Threads : WF_vars(Wake(t))
-----------------------------------------------------------------------------
Gathering == {t \in waiting : group[t] = m_group}
Leaving   == {t \in waiting : group[t] # m_group}

TypeOK ==
  /\ m_group \in 0..MaxGroup
  /\ m_count \in 1..Limit
  /\ waiting \subseteq Threads
  /\ m_cond \subseteq waiting
  /\ group \in [Threads -> 0..MaxGroup]

\* m_count is what the current group still lacks: a thread of an earlier
\* group that is slow to leave is never counted again.
CountExact == m_count = Limit - Cardinality(Gathering)

\* notifyAll reached everybody: no released thread is still asleep.
NoReleasedSleeper == m_cond \subseteq Gathering

Abstract == INSTANCE GroupBarrier WITH gathering <- Gathering,
                                       leaving <- Leaving

\* Barrier.wait keeps the promise of GroupBarrier, the return of every
\* released thread included.
ImplementsGroupBarrier == Abstract!FairSpec
=============================================================================
