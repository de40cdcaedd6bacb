---------------------------- MODULE BarrierProofs ----------------------------
(***************************************************************************)
(* Barrier implements GroupBarrier, for any finite set of threads, any     *)
(* limit and any bound on the number of groups.                            *)
(***************************************************************************)
EXTENDS Barrier, FiniteSetTheorems, TLAPS

\* A thread inside wait() read m_group when it arrived, and m_group only
\* grows: nobody is ahead of the current group.
NobodyAhead == \A t \in waiting : group[t] <= m_group

IInv == TypeOK /\ NobodyAhead /\ CountExact /\ NoReleasedSleeper

\* The current group is finite, so that its size is a number.
LEMMA GatheringFinite ==
  ASSUME TypeOK
  PROVE  IsFiniteSet(Gathering) /\ Cardinality(Gathering) \in Nat
<1>1. Gathering \subseteq Threads
  BY DEF TypeOK, Gathering
<1>2. IsFiniteSet(Gathering)
  BY <1>1, BarrierAssumption, FS_Subset
<1>3. QED
  BY <1>2, FS_CardinalityType

\* The inductive invariant holds in the initial state.
LEMMA InitIInv == Init => IInv
<1> SUFFICES ASSUME Init PROVE IInv
  OBVIOUS
<1>1. TypeOK
  BY BarrierAssumption DEF Init, TypeOK
<1>2. Gathering = {} /\ Cardinality({}) = 0
  BY FS_EmptySet DEF Init, Gathering
<1>3. CountExact /\ NoReleasedSleeper /\ NobodyAhead
  BY <1>2, BarrierAssumption
  DEF Init, CountExact, NoReleasedSleeper, NobodyAhead
<1>4. QED
  BY <1>1, <1>3 DEF IInv

\* What an arrival does to the two groups.
LEMMA ArriveGroups ==
  ASSUME IInv, NEW t \in Threads, Arrive(t)
  PROVE  /\ t \notin Gathering \union Leaving
         /\ m_count = 1 => /\ Gathering' = {}
                           /\ Leaving' = Leaving \union Gathering
                           /\ waiting' = waiting
                           /\ m_group' = m_group + 1
         /\ m_count # 1 => /\ Gathering' = Gathering \union {t}
                           /\ Leaving' = Leaving
                           /\ waiting' = waiting \union {t}
                           /\ m_group' = m_group
<1>1. TypeOK /\ NobodyAhead
  BY DEF IInv
<1>2. t \notin waiting
  BY DEF Arrive
<1>3. /\ group'[t] = m_group
      /\ \A u \in waiting : group'[u] = group[u]
  BY <1>1, <1>2 DEF Arrive, TypeOK
<1>4. CASE m_count = 1
  <2>1. m_group' = m_group + 1 /\ waiting' = waiting
    BY <1>4 DEF Arrive
  <2>2. \A u \in waiting : group'[u] # m_group'
    BY <1>1, <1>3, <2>1 DEF NobodyAhead, TypeOK
  <2>3. QED
    BY <1>2, <1>4, <2>1, <2>2 DEF Gathering, Leaving
<1>5. CASE m_count # 1
  <2>1. m_group' = m_group /\ waiting' = waiting \union {t}
    BY <1>1, <1>5 DEF Arrive, TypeOK
  <2>2. QED
    BY <1>2, <1>3, <1>5, <2>1 DEF Gathering, Leaving
<1>6. QED
  BY <1>4, <1>5

\* What a wakeup that finds a new group, or the same one, does to them.
LEMMA WakeGroups ==
  ASSUME NEW t \in Threads, Wake(t)
  PROVE  /\ Gathering' = Gathering
         /\ \/ t \in Leaving /\ Leaving' = Leaving \ {t} /\ m_cond' = m_cond
            \/ t \in Gathering /\ Leaving' = Leaving /\ m_cond' = m_cond \union {t}
  BY DEF Wake, wait, Gathering, Leaving

\* Every step, one case per action, preserves the inductive invariant.
LEMMA NextIInv == IInv /\ [Next]_vars => IInv'
<1> SUFFICES ASSUME IInv, [Next]_vars
             PROVE  IInv'
  OBVIOUS
<1>inv. TypeOK /\ NobodyAhead /\ CountExact /\ NoReleasedSleeper
  BY DEF IInv
<1>1. ASSUME NEW t \in Threads, Arrive(t)
      PROVE  IInv'
  <2>1. TypeOK'
    BY <1>inv, <1>1, BarrierAssumption DEF Arrive, TypeOK, wait, notifyAll
  <2>2. NobodyAhead'
    BY <1>inv, <1>1 DEF Arrive, TypeOK, NobodyAhead
  <2>3. CASE m_count = 1
    <3>1. Gathering' = {} /\ m_count' = Limit /\ m_cond' = {}
      BY <1>1, <2>3, ArriveGroups DEF Arrive, notifyAll
    <3>2. CountExact' /\ NoReleasedSleeper'
      BY <3>1, FS_EmptySet, BarrierAssumption DEF CountExact, NoReleasedSleeper
    <3>3. QED
      BY <2>1, <2>2, <3>2 DEF IInv
  <2>4. CASE m_count # 1
    <3>1. /\ Gathering' = Gathering \union {t}
          /\ t \notin Gathering
      BY <1>1, <2>4, ArriveGroups
    <3>2. m_count' = m_count - 1 /\ m_cond' = m_cond \union {t}
      BY <1>inv, <1>1, <2>4 DEF Arrive, TypeOK, wait
    <3>3. Cardinality(Gathering') = Cardinality(Gathering) + 1
      BY <1>inv, <3>1, GatheringFinite, FS_AddElement
    <3>4. CountExact'
      BY <1>inv, <3>2, <3>3, GatheringFinite, BarrierAssumption
      DEF CountExact, TypeOK
    <3>5. NoReleasedSleeper'
      BY <1>inv, <3>1, <3>2 DEF NoReleasedSleeper
    <3>6. QED
      BY <2>1, <2>2, <3>4, <3>5 DEF IInv
  <2>5. QED
    BY <2>3, <2>4
<1>2. ASSUME NEW t \in Threads, Wake(t)
      PROVE  IInv'
  <2>1. TypeOK'
    BY <1>inv, <1>2 DEF Wake, TypeOK, wait
  <2>2. NobodyAhead'
    BY <1>inv, <1>2 DEF Wake, NobodyAhead
  <2>3. Gathering' = Gathering /\ m_count' = m_count
    BY <1>2, WakeGroups DEF Wake
  <2>4. CountExact'
    BY <1>inv, <2>3 DEF CountExact
  <2>5. NoReleasedSleeper'
    BY <1>inv, <1>2, <2>3, WakeGroups DEF NoReleasedSleeper
  <2>6. QED
    BY <2>1, <2>2, <2>4, <2>5 DEF IInv
<1>3. ASSUME NEW t \in Threads, SpuriousWakeup(t)
      PROVE  IInv'
  BY <1>inv, <1>3
  DEF SpuriousWakeup, wakeUp, IInv, TypeOK, NobodyAhead, CountExact,
      NoReleasedSleeper, Gathering
<1>4. CASE UNCHANGED vars
  BY <1>inv, <1>4
  DEF vars, IInv, TypeOK, NobodyAhead, CountExact, NoReleasedSleeper, Gathering
<1>5. QED
  BY <1>1, <1>2, <1>3, <1>4 DEF Next

\* m_count is at every moment what the current group lacks, for any number of
\* threads and any limit.
THEOREM CountExactHolds == Spec => []CountExact
<1>1. IInv => CountExact
  BY DEF IInv
<1>2. QED
  BY <1>1, InitIInv, NextIInv, PTL DEF Spec

\* The notifyAll of the thread that completes a group leaves no thread of that
\* group asleep, however many groups follow before the others have left wait.
THEOREM NoReleasedSleeperHolds == Spec => []NoReleasedSleeper
<1>1. IInv => NoReleasedSleeper
  BY DEF IInv
<1>2. QED
  BY <1>1, InitIInv, NextIInv, PTL DEF Spec

\* The INSTANCE has its own copy of Cardinality.
LEMMA SameCardinality == \A S : Abstract!Cardinality(S) = Cardinality(S)
  BY DEF Abstract!Cardinality, Cardinality, Abstract!IsFiniteSet, IsFiniteSet

\* Nobody has arrived yet, in either specification.
LEMMA InitAbstract == Init => Abstract!Init
  BY DEF Init, Abstract!Init, Gathering, Leaving

\* An arrival joins or completes a group, a wakeup leaves or stutters.
LEMMA NextAbstract == IInv /\ [Next]_vars => [Abstract!Next]_(Abstract!vars)
<1> SUFFICES ASSUME IInv, [Next]_vars
             PROVE  [Abstract!Next]_(Abstract!vars)
  OBVIOUS
<1>inv. TypeOK /\ CountExact
  BY DEF IInv
<1>1. ASSUME NEW t \in Threads, Arrive(t)
      PROVE  Abstract!Next
  <2>1. t \in Abstract!Outside
    BY <1>1, ArriveGroups DEF Abstract!Outside
  <2>2. CASE m_count = 1
    <3>1. Cardinality(Gathering) + 1 = Limit
      BY <1>inv, <2>2, GatheringFinite, BarrierAssumption DEF CountExact
    <3>2. Abstract!Complete(t)
      BY <1>1, <2>1, <2>2, <3>1, ArriveGroups, SameCardinality DEF Abstract!Complete
    <3>3. QED
      BY <3>2 DEF Abstract!Next
  <2>3. CASE m_count # 1
    <3>1. Cardinality(Gathering) + 1 < Limit
      BY <1>inv, <2>3, GatheringFinite, BarrierAssumption
      DEF CountExact, TypeOK
    <3>2. Abstract!Join(t)
      BY <1>1, <2>1, <2>3, <3>1, ArriveGroups, SameCardinality DEF Abstract!Join
    <3>3. QED
      BY <3>2 DEF Abstract!Next
  <2>4. QED
    BY <2>2, <2>3
<1>2. ASSUME NEW t \in Threads, Wake(t)
      PROVE  [Abstract!Next]_(Abstract!vars)
  <2>1. CASE t \in Leaving /\ Leaving' = Leaving \ {t}
    <3>1. Abstract!Leave(t)
      BY <1>2, <2>1, WakeGroups DEF Abstract!Leave
    <3>2. QED
      BY <3>1 DEF Abstract!Next
  <2>2. CASE Leaving' = Leaving
    BY <1>2, <2>2, WakeGroups DEF Abstract!vars
  <2>3. QED
    BY <1>2, <2>1, <2>2, WakeGroups
<1>3. ASSUME NEW t \in Threads, SpuriousWakeup(t)
      PROVE  UNCHANGED Abstract!vars
  BY <1>3 DEF SpuriousWakeup, Abstract!vars, Gathering, Leaving
<1>4. CASE UNCHANGED vars
  BY <1>4 DEF vars, Abstract!vars, Gathering, Leaving
<1>5. QED
  BY <1>1, <1>2, <1>3, <1>4 DEF Next

\* Barrier.wait lets threads through in groups of exactly Limit: every step
\* of it is a step of GroupBarrier or changes nothing there.
THEOREM BarrierImplementsGroupBarrier == Spec => Abstract!Spec
<1>1. QED
  BY InitIInv, NextIInv, InitAbstract, NextAbstract, PTL
  DEF Spec, Abstract!Spec
=============================================================================
