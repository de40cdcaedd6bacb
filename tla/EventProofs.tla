----------------------------- MODULE EventProofs -----------------------------
(***************************************************************************)
(* For any set of threads: a wait of Event answers true only if the event  *)
(* was signaled during the call, spurious wakeups apart; nobody sleeps     *)
(* beside a signaled event, and a thread that set has woken returns true.  *)
(***************************************************************************)
EXTENDS Event, TLAPS

TypeInv ==
  /\ m_state \in BOOLEAN /\ m_manualReset \in BOOLEAN
  /\ result \in [Threads -> BOOLEAN]

\* A thread is at one place inside wait.
OnePlace ==
  /\ m_cond \intersect woken = {} /\ m_cond \intersect timedOut = {}
  /\ woken \intersect timedOut = {}

\* Whoever came back from pthread_cond_wait with result 0 was signaled, or
\* woke up spuriously.
WokenWasSignaled == woken \subseteq signaled \union spurious

IInv == TypeInv /\ OnePlace /\ WokenWasSignaled /\ TrueMeansSignaled

\* Nobody has called wait yet.
LEMMA InitIInv == Init => IInv
BY DEF Init, IInv, TypeInv, OnePlace, WokenWasSignaled, TrueMeansSignaled, Inside

\* Every method, and every way out of pthread_cond_wait, preserves IInv.
LEMMA NextIInv == IInv /\ [Next]_vars => IInv'
<1> SUFFICES ASSUME IInv, [Next]_vars PROVE IInv'
  OBVIOUS
<1> USE DEF IInv, TypeInv, OnePlace, WokenWasSignaled, TrueMeansSignaled, Inside
<1>1. CASE UNCHANGED vars
  BY <1>1 DEF vars, flags
<1>2. ASSUME NEW manual \in BOOLEAN, NEW initial \in BOOLEAN, initialize(manual, initial)
      PROVE  IInv'
  BY <1>2 DEF initialize
<1>3. CASE terminate \/ reset
  BY <1>3 DEF terminate, reset
<1>4. CASE setIfInitialized
  BY <1>4 DEF setIfInitialized, notifyAll
<1>5. ASSUME NEW t \in Threads, waitCall(t)
      PROVE  IInv'
  BY <1>5 DEF waitCall, Return, wait, flags
<1>6. ASSUME NEW t \in Threads, waitReturn(t)
      PROVE  IInv'
  <2>1. TypeInv'
    <3>1. m_state' \in BOOLEAN /\ m_manualReset' \in BOOLEAN
      BY <1>6 DEF waitReturn, Return
    <3>2. result' \in [Threads -> BOOLEAN]
      <4>1. PICK zero \in BOOLEAN : result' = [result EXCEPT ![t] = zero]
        <5>1. (t \in woken) \in BOOLEAN
          OBVIOUS
        <5>2. result' = [result EXCEPT ![t] = t \in woken]
          BY <1>6, Zenon DEF waitReturn, Return
        <5>3. QED
          BY <5>1, <5>2, Zenon
      <4>2. QED
        BY <4>1
    <3>3. QED
      BY <3>1, <3>2
  <2>2. OnePlace' /\ WokenWasSignaled'
    BY <1>6 DEF waitReturn
  <2>3. TrueMeansSignaled'
    <3>1. \A u \in Threads : result'[u] = IF u = t THEN t \in woken ELSE result[u]
      BY <1>6, Zenon DEF waitReturn, Return
    <3>2. \A u \in Threads : u # t /\ u \notin Inside' => u \notin Inside
      BY <1>6 DEF waitReturn
    <3>3. signaled' = signaled /\ spurious' = spurious
      BY <1>6 DEF waitReturn
    <3>4. QED
      BY <3>1, <3>2, <3>3, Zenon
  <2>4. QED
    BY <2>1, <2>2, <2>3
<1>7. ASSUME NEW t \in Threads, Timeout(t) \/ SpuriousWakeup(t)
      PROVE  IInv'
  BY <1>7 DEF Timeout, SpuriousWakeup, wakeUp, flags
<1>8. QED
  BY <1>1, <1>2, <1>3, <1>4, <1>5, <1>6, <1>7 DEF Next

\* Event.wait answers true only to a thread that saw the event signaled since
\* it called wait, or that pthread_cond_wait woke spuriously: not to one that
\* timed out, whatever set, reset and the other waiters do in the meantime.
THEOREM TrueMeansSignaledHolds == Spec => []TrueMeansSignaled
<1>1. IInv => TrueMeansSignaled
  BY DEF IInv
<1>2. QED
  BY <1>1, InitIInv, NextIInv, PTL DEF Spec
-----------------------------------------------------------------------------
\* Threads sleep only for an event that can be set and is not, and none that
\* has seen a signal since it called wait.
SleepersUnsignaled ==
  /\ m_cond # {} => m_initalized /\ ~m_state
  /\ signaled \intersect m_cond = {}

\* Every method, and every way out of pthread_cond_wait, preserves
\* SleepersUnsignaled.
LEMMA NextSleepers == IInv /\ SleepersUnsignaled /\ [Next]_vars => SleepersUnsignaled'
<1> SUFFICES ASSUME IInv, SleepersUnsignaled, [Next]_vars PROVE SleepersUnsignaled'
  OBVIOUS
<1> USE DEF SleepersUnsignaled, Inside
<1>1. CASE UNCHANGED vars
  BY <1>1 DEF vars, flags
<1>2. ASSUME NEW manual \in BOOLEAN, NEW initial \in BOOLEAN, initialize(manual, initial)
      PROVE  SleepersUnsignaled'
  BY <1>2 DEF initialize
<1>3. CASE terminate \/ reset
  BY <1>3 DEF terminate, reset
<1>4. CASE setIfInitialized
  BY <1>4 DEF setIfInitialized, notifyAll
<1>5. ASSUME NEW t \in Threads, waitCall(t)
      PROVE  SleepersUnsignaled'
  BY <1>5 DEF waitCall, Return, wait, flags
<1>6. ASSUME NEW t \in Threads, waitReturn(t)
      PROVE  SleepersUnsignaled'
  <2>1. UNCHANGED <<m_cond, signaled, m_initalized>> /\ (~m_state => ~m_state')
    BY <1>6, Zenon DEF waitReturn, Return
  <2>2. QED
    BY <2>1
<1>7. ASSUME NEW t \in Threads, Timeout(t) \/ SpuriousWakeup(t)
      PROVE  SleepersUnsignaled'
  BY <1>7 DEF Timeout, SpuriousWakeup, wakeUp, flags
<1>8. QED
  BY <1>1, <1>2, <1>3, <1>4, <1>5, <1>6, <1>7 DEF Next

\* Nobody sleeps beside a signaled event: in wait a thread looks at the flag
\* and falls asleep in one critical section, and set wakes everybody, so no
\* signal falls between the two.
THEOREM NobodySleepsBesideSignal == Spec => []SleepersUnsignaled
<1>1. Init => SleepersUnsignaled
  BY DEF Init, SleepersUnsignaled
<1>2. QED
  BY <1>1, InitIInv, NextIInv, NextSleepers, PTL DEF Spec

\* A thread that set has woken keeps its signal until wait answers true to
\* it: neither reset nor another waiter that consumes the event first, nor a
\* timeout, takes it back.  This is the safety part of SetResumesSleepers.
THEOREM WokenReturnsTrue ==
  Spec => [][\A t \in woken : t \in woken' \/ (t \notin Inside' /\ result'[t])]_vars
<1> DEFINE Kept(t) == t \in woken' \/ (t \notin Inside' /\ result'[t])
<1>1. IInv /\ [Next]_vars => [\A t \in woken : Kept(t)]_vars
  <2> SUFFICES ASSUME IInv, Next, NEW t \in woken PROVE Kept(t)
    OBVIOUS
  <2> HIDE DEF Kept
  <2>0. IInv'
    BY NextIInv
  <2>1. woken \subseteq woken' => Kept(t)
    BY DEF Kept
  <2>2. ASSUME NEW u \in Threads, waitReturn(u) PROVE Kept(t)
    <3>1. woken' = woken \ {u} /\ timedOut' = timedOut \ {u} /\ m_cond' = m_cond
      BY <2>2 DEF waitReturn
    <3>2. CASE t = u
      <4>1. t \notin Inside'
        BY <3>1, <3>2 DEF IInv, OnePlace, Inside
      <4>2. result' = [result EXCEPT ![u] = u \in woken] /\ u \in woken
        BY <2>2, <3>2, Zenon DEF waitReturn, Return
      <4>3. result'[u]
        BY <4>2, Zenon DEF IInv, TypeInv
      <4>4. QED
        BY <3>2, <4>1, <4>3 DEF Kept
    <3>3. QED
      BY <3>1, <3>2 DEF Kept
  <2>3. CASE ~\E u \in Threads : waitReturn(u)
    BY <2>1, <2>3
    DEF Next, initialize, terminate, setIfInitialized, reset, waitCall, Timeout, SpuriousWakeup
  <2>4. QED
    BY <2>2, <2>3
<1>2. QED
  BY <1>1, InitIInv, NextIInv, PTL DEF Spec
=============================================================================
