------------------------- MODULE WinConditionProofs -------------------------
(***************************************************************************)
(* Theorems about the Windows Condition for any finite set of threads, any *)
(* of which may use timeouts: the gate is shut while a notification is     *)
(* handed out and never released twice.  For as long as no wait times out, *)
(* the counters are exact, one token is about at a time, and a gate that   *)
(* is shut has somebody who is able to bring its opening nearer.           *)
(***************************************************************************)
EXTENDS WinCondition, FiniteSetTheorems, TLAPS

\* The critical section is held by whoever closes the gate inside it.
Holder ==
  \A t \in Threads : m_unblockLock = t <=> pc[t] \in Signals \union {"purge"}

\* What its holder found when it entered still holds.
HolderReady ==
  \A t \in Threads :
    /\ pc[t] \in Signals \union {"purge"} => m_numWaitersToUnblock = 0
    /\ pc[t] \in Signals => m_numWaitersBlocked > m_numWaitersGone

\* Whoever brings the count of the threads that are gone to its limit settles
\* it before it leaves the critical section, unless an assert has failed there;
\* and m_numWaitersBlocked is a number of threads while it counts.
CountsReady ==
  /\ m_numWaitersGone = GoneLimit => m_unblockLock # NoThread \/ "purge" \in failed
  /\ m_numWaitersToUnblock # 0 => m_numWaitersBlocked >= 0

\* The gate is at one place: open, with a thread that passes through it or is
\* about to open it, or with the notification that is being handed out.
OneGate ==
  /\ m_blockLock = 1 =>
       m_numWaitersToUnblock = 0 /\ \A t \in Threads : pc[t] \notin {"register", "drain"}
  /\ m_numWaitersToUnblock # 0 => \A t \in Threads : pc[t] \notin {"register", "drain"}
  /\ \A t, u \in Threads :
       pc[t] \in {"register", "drain"} /\ pc[u] \in {"register", "drain"} => t = u

IInv == TypeOK /\ Holder /\ HolderReady /\ CountsReady /\ OneGate /\ "gate" \notin failed

\* Nobody is inside a method, and the gate is open.
LEMMA InitIInv == Init => IInv
<1> SUFFICES ASSUME Init PROVE IInv
  OBVIOUS
<1>1. TypeOK
  <2>1. /\ m_numWaitersGone \in Nat /\ m_numWaitersGone <= GoneLimit
        /\ m_numWaitersBlocked \in Int
        /\ numWaitersGone \in [Threads -> Nat] /\ m_blockLock \in 0..1
    BY WinConditionAssumption DEF Init
  <2>2. pc \in [Threads -> Locations]
    BY DEF Init, Locations
  <2>3. ~(m_numWaitersGone > GoneLimit) /\ "purge" \notin failed
    BY WinConditionAssumption DEF Init
  <2>4. QED
    BY <2>1, <2>2, <2>3 DEF Init, TypeOK
<1>2. Holder /\ HolderReady /\ OneGate
  BY WinConditionAssumption DEF Init, Holder, HolderReady, OneGate, Signals
<1>3. CountsReady /\ "gate" \notin failed
  BY WinConditionAssumption DEF Init, CountsReady
<1>4. QED
  BY <1>1, <1>2, <1>3 DEF IInv

\* OpenGate opens a gate that is shut.
LEMMA OpenGateOpens ==
  ASSUME TypeOK, m_blockLock # 1, OpenGate
  PROVE  m_blockLock' = 1 /\ failed' = failed
BY DEF TypeOK, OpenGate

\* Every step of every thread preserves IInv.
LEMMA NextIInv == IInv /\ [Next]_vars => IInv'
<1> SUFFICES ASSUME IInv, [Next]_vars PROVE IInv'
  OBVIOUS
<1>a. WinConditionAssumption
  BY WinConditionAssumption
<1> USE DEF IInv, Locations, Waiting, Notifies, Signals
<1>1. CASE UNCHANGED vars
  BY <1>1 DEF vars, numbers, TypeOK, Holder, HolderReady, CountsReady, OneGate
<1>2. ASSUME NEW t \in Threads, Lock(t) \/ Unlock(t)
      PROVE  IInv'
  BY <1>2 DEF Lock, Unlock, numbers, TypeOK, Holder, HolderReady, CountsReady, OneGate
<1>3. ASSUME NEW t \in Threads, CallWait(t) \/ CallNotify(t)
      PROVE  IInv'
  <2>1. CASE CallWait(t)
    BY <2>1 DEF CallWait, Goto, numbers, TypeOK, Holder, HolderReady, CountsReady, OneGate
  <2>2. CASE CallNotify(t)
    BY <2>2 DEF CallNotify, Goto, numbers, TypeOK, Holder, HolderReady, CountsReady, OneGate
  <2>3. QED
    BY <1>3, <2>1, <2>2
<1>4. ASSUME NEW t \in Threads, EnterGate(t)
      PROVE  IInv'
  BY <1>4 DEF EnterGate, Goto, numbers, TypeOK, Holder, HolderReady, CountsReady, OneGate
<1>5. ASSUME NEW t \in Threads, Register(t)
      PROVE  IInv'
  <2>1. m_blockLock' = 1 /\ failed' = failed
    BY <1>5, OpenGateOpens DEF Register, OneGate
  <2>2. TypeOK'
    BY <1>5, <2>1 DEF Register, OpenGate, Goto, TypeOK
  <2>3. Holder' /\ HolderReady' /\ CountsReady'
    BY <1>5, <2>1 DEF Register, Goto, TypeOK, Holder, HolderReady, CountsReady
  <2>4. OneGate'
    BY <1>5, <2>1 DEF Register, Goto, TypeOK, OneGate
  <2>5. QED
    BY <2>1, <2>2, <2>3, <2>4
<1>6. ASSUME NEW t \in Threads, LeaveQueue(t)
      PROVE  IInv'
  BY <1>6 DEF LeaveQueue, Goto, numbers, TypeOK, Holder, HolderReady, CountsReady, OneGate
<1>7. ASSUME NEW t \in Threads, Unblock(t)
      PROVE  IInv'
  <2> DEFINE absorbed == pc[t] = "timedOut" /\ m_numWaitersBlocked # 0
             blocked == IF absorbed THEN m_numWaitersBlocked - 1 ELSE m_numWaitersBlocked
             gone == IF pc[t] = "timedOut" /\ ~absorbed THEN 1 ELSE m_numWaitersGone
             left == IF absorbed THEN 0 ELSE m_numWaitersToUnblock
             last == m_numWaitersToUnblock - 1 = 0
             opens == last /\ blocked # 0
  <2>1. /\ pc[t] \in {"woken", "timedOut"} /\ m_unblockLock = NoThread
        /\ m_numWaitersToUnblock \in Nat \ {0} /\ m_blockLock # 1
        /\ m_numWaitersToUnblock' = m_numWaitersToUnblock - 1
        /\ m_numWaitersBlocked' = blocked
        /\ UNCHANGED <<m_blockQueue, m_assocMutex, m_unblockLock>>
    BY <1>7 DEF Unblock, TypeOK, OneGate
  <2>2. blocked \in Nat /\ gone \in Nat /\ (gone >= GoneLimit => "purge" \in failed)
    BY <1>a, <2>1 DEF TypeOK, CountsReady
  <2>3. opens => /\ m_blockLock' = 1 /\ failed' = failed /\ Goto(t, "relock")
                 /\ m_numWaitersGone' = gone /\ UNCHANGED numWaitersGone
    BY <1>7, <2>1, OpenGateOpens DEF Unblock
  <2>4. ~opens => /\ UNCHANGED <<m_blockLock, failed>> /\ Goto(t, AfterUnblock(left))
                  /\ m_numWaitersGone' = IF last THEN 0 ELSE gone
                  /\ numWaitersGone' = [numWaitersGone EXCEPT ![t] = IF last THEN gone ELSE 0]
    BY <1>7 DEF Unblock
  <2>5. \E loc \in {"relock", "drain", "passOn"} :
          Goto(t, loc) /\ (loc = "drain" => last /\ ~opens)
    <3>1. AfterUnblock(left) \in {"relock", "drain", "passOn"}
      BY DEF AfterUnblock
    <3>2. AfterUnblock(left) = "drain" => last
      BY <2>1 DEF AfterUnblock
    <3>3. CASE opens
      BY <2>3, <3>3
    <3>4. CASE ~opens
      BY <2>4, <3>1, <3>2, <3>4
    <3>5. QED
      BY <3>3, <3>4
  <2>6. PICK loc \in {"relock", "drain", "passOn"} :
          Goto(t, loc) /\ (loc = "drain" => last /\ ~opens)
    BY <2>5
  <2>7. /\ m_numWaitersGone' \in Nat /\ (m_numWaitersGone' >= GoneLimit => "purge" \in failed')
        /\ numWaitersGone' \in [Threads -> Nat] /\ failed' = failed
        /\ m_blockLock' = IF opens THEN 1 ELSE m_blockLock
    <3>1. CASE opens
      BY <2>2, <2>3, <3>1 DEF TypeOK
    <3>2. CASE ~opens
      BY <1>a, <2>2, <2>4, <3>2 DEF TypeOK
    <3>3. QED
      BY <3>1, <3>2
  <2> HIDE DEF absorbed, blocked, gone, left
  <2>8. TypeOK'
    <3>1. pc' \in [Threads -> Locations]
      BY <2>6 DEF Goto, TypeOK
    <3>2. m_blockLock' \in 0..1 /\ failed' \in SUBSET {"gate", "purge"}
      BY <2>7 DEF TypeOK
    <3>3. m_numWaitersToUnblock' \in Nat /\ m_numWaitersBlocked' \in Int
      BY <2>1, <2>2
    <3>4. m_numWaitersGone' > GoneLimit => "purge" \in failed'
      BY <1>a, <2>1, <2>7 DEF TypeOK
    <3>5. QED
      BY <2>1, <2>7, <3>1, <3>2, <3>3, <3>4 DEF TypeOK
  <2>9. Holder' /\ HolderReady'
    BY <1>a, <2>1, <2>6 DEF Goto, TypeOK, Holder, HolderReady
  <2>10. CountsReady'
    BY <2>1, <2>2, <2>7 DEF CountsReady
  <2>11. OneGate'
    BY <2>1, <2>6, <2>7 DEF Goto, TypeOK, OneGate
  <2>12. QED
    BY <2>7, <2>8, <2>9, <2>10, <2>11
<1>8. ASSUME NEW t \in Threads, Gone(t)
      PROVE  IInv'
  <2>1. TypeOK'
    BY <1>8, <1>a DEF Gone, Goto, TypeOK, CountsReady
  <2>2. Holder' /\ HolderReady'
    BY <1>8, <1>a DEF Gone, Goto, TypeOK, Holder, HolderReady
  <2>3. CountsReady' /\ "gate" \notin failed'
    BY <1>8, <1>a DEF Gone, TypeOK, CountsReady
  <2>4. OneGate'
    BY <1>8 DEF Gone, Goto, TypeOK, OneGate
  <2>5. QED
    BY <2>1, <2>2, <2>3, <2>4
<1>9. ASSUME NEW t \in Threads, Purge(t)
      PROVE  IInv'
  <2>0. /\ m_unblockLock' = NoThread /\ Goto(t, "relock")
        /\ m_numWaitersBlocked' = m_numWaitersBlocked - m_numWaitersGone
        /\ UNCHANGED <<m_blockLock, m_blockQueue, m_assocMutex, m_numWaitersToUnblock,
                       numWaitersGone>>
        /\ \/ failed' = failed \union {"purge"} /\ UNCHANGED m_numWaitersGone
           \/ m_numWaitersGone' = 0 /\ UNCHANGED failed
    BY <1>9, Zenon DEF Purge
  <2>1. TypeOK'
    <3>1. /\ m_numWaitersGone' \in Nat
          /\ m_numWaitersGone' > GoneLimit => "purge" \in failed'
          /\ m_numWaitersBlocked' \in Int /\ failed' \in SUBSET {"gate", "purge"}
      <4>1. CASE failed' = failed \union {"purge"} /\ UNCHANGED m_numWaitersGone
        BY <2>0, <4>1 DEF TypeOK
      <4>2. CASE m_numWaitersGone' = 0 /\ UNCHANGED failed
        BY <1>a, <2>0, <4>2 DEF TypeOK
      <4>3. QED
        BY <2>0, <4>1, <4>2
    <3>2. pc' \in [Threads -> Locations]
      BY <2>0 DEF Goto, TypeOK
    <3>3. QED
      BY <2>0, <3>1, <3>2 DEF TypeOK
  <2>2. Holder' /\ HolderReady'
    BY <1>9, <1>a DEF Purge, Goto, TypeOK, Holder, HolderReady
  <2>3. CountsReady' /\ "gate" \notin failed'
    BY <1>9, <1>a DEF Purge, TypeOK, CountsReady, HolderReady
  <2>4. OneGate'
    BY <1>9 DEF Purge, Goto, TypeOK, OneGate
  <2>5. QED
    BY <2>1, <2>2, <2>3, <2>4
<1>10. ASSUME NEW t \in Threads, Drain(t)
       PROVE  IInv'
  <2>1. CASE numWaitersGone[t] > 0
    <3>1. TypeOK'
      <4>1. /\ m_blockQueue' \in Nat /\ numWaitersGone' \in [Threads -> Nat]
            /\ UNCHANGED <<m_blockLock, m_assocMutex, m_unblockLock, numbers, pc, failed>>
        BY <1>10, <2>1 DEF Drain, TypeOK
      <4>2. QED
        BY <4>1 DEF numbers, TypeOK
    <3>2. Holder' /\ HolderReady'
      BY <1>10, <2>1 DEF Drain, numbers, TypeOK, Holder, HolderReady
    <3>3. CountsReady' /\ OneGate' /\ "gate" \notin failed'
      BY <1>10, <2>1 DEF Drain, numbers, TypeOK, CountsReady, OneGate
    <3>4. QED
      BY <3>1, <3>2, <3>3
  <2>2. CASE ~(numWaitersGone[t] > 0)
    <3>1. m_blockLock' = 1 /\ failed' = failed
      BY <1>10, <2>2, OpenGateOpens DEF Drain, OneGate
    <3>2. TypeOK'
      BY <1>10, <2>2, <3>1 DEF Drain, Goto, numbers, TypeOK
    <3>3. Holder' /\ HolderReady' /\ CountsReady'
      BY <1>10, <2>2, <3>1 DEF Drain, Goto, numbers, TypeOK, Holder, HolderReady, CountsReady
    <3>4. OneGate'
      BY <1>10, <2>2, <3>1 DEF Drain, Goto, numbers, TypeOK, OneGate
    <3>5. QED
      BY <3>1, <3>2, <3>3, <3>4
  <2>3. QED
    BY <2>1, <2>2
<1>11. ASSUME NEW t \in Threads, PassOn(t) \/ Post(t)
       PROVE  IInv'
  <2>1. CASE PassOn(t)
    BY <2>1 DEF PassOn, Goto, numbers, TypeOK, Holder, HolderReady, CountsReady, OneGate
  <2>2. CASE Post(t)
    BY <2>2 DEF Post, Goto, numbers, TypeOK, Holder, HolderReady, CountsReady, OneGate
  <2>3. QED
    BY <1>11, <2>1, <2>2
<1>12. ASSUME NEW t \in Threads, Relock(t)
       PROVE  IInv'
  BY <1>12 DEF Relock, Goto, numbers, TypeOK, Holder, HolderReady, CountsReady, OneGate
<1>13. ASSUME NEW t \in Threads, Notify(t)
       PROVE  IInv'
  <2>0. /\ pc[t] \in Notifies /\ m_unblockLock = NoThread
        /\ UNCHANGED <<m_blockLock, m_blockQueue, m_assocMutex, m_numWaitersGone,
                       numWaitersGone, failed>>
    BY <1>13 DEF Notify
  <2>1. CASE NotifyJoin(t)
    <3>1. /\ m_numWaitersToUnblock # 0 /\ m_numWaitersToUnblock' \in Nat
          /\ m_numWaitersBlocked' \in Nat /\ UNCHANGED m_unblockLock
      BY <2>1 DEF NotifyJoin, Release, TypeOK, CountsReady
    <3>2. TypeOK'
      BY <2>0, <2>1, <3>1 DEF NotifyJoin, Goto, TypeOK
    <3>3. Holder' /\ HolderReady'
      BY <2>0, <2>1, <3>1 DEF NotifyJoin, Goto, TypeOK, Holder, HolderReady
    <3>4. CountsReady' /\ OneGate'
      BY <2>0, <2>1, <3>1 DEF NotifyJoin, Goto, TypeOK, CountsReady, OneGate
    <3>5. QED
      BY <2>0, <3>2, <3>3, <3>4
  <2>2. CASE NotifyBegin(t)
    <3>1. TypeOK'
      BY <2>0, <2>2 DEF NotifyBegin, Goto, TypeOK
    <3>2. Holder'
      BY <2>0, <2>2, <1>a DEF NotifyBegin, Goto, TypeOK, Holder
    <3>3. HolderReady'
      BY <2>0, <2>2, <1>a DEF NotifyBegin, Goto, TypeOK, HolderReady
    <3>4. CountsReady' /\ OneGate'
      BY <2>0, <2>2, <1>a DEF NotifyBegin, Goto, TypeOK, CountsReady, OneGate
    <3>5. QED
      BY <2>0, <3>1, <3>2, <3>3, <3>4
  <2>3. CASE NotifyNobody(t)
    BY <2>0, <2>3 DEF NotifyNobody, Goto, TypeOK, Holder, HolderReady, CountsReady, OneGate
  <2>4. QED
    BY <1>13, <2>1, <2>2, <2>3 DEF Notify
<1>14. ASSUME NEW t \in Threads, Signal(t)
       PROVE  IInv'
  <2>1. /\ m_blockLock = 1 /\ m_blockLock' = 0 /\ m_numWaitersToUnblock = 0
        /\ m_numWaitersGone' = 0 /\ m_unblockLock = t /\ m_unblockLock' = NoThread
        /\ UNCHANGED <<m_blockQueue, m_assocMutex, numWaitersGone, failed>>
    BY <1>14 DEF Signal, TypeOK, Holder, OneGate
  <2>2. m_numWaitersToUnblock' \in Nat /\ m_numWaitersBlocked' \in Nat
    BY <1>14 DEF Signal, Release, TypeOK, HolderReady
  <2>3. TypeOK'
    BY <1>14, <1>a, <2>1, <2>2 DEF Signal, Goto, TypeOK
  <2>4. Holder' /\ HolderReady'
    BY <1>14, <1>a, <2>1 DEF Signal, Goto, TypeOK, Holder, HolderReady
  <2>5. CountsReady'
    BY <1>a, <2>1, <2>2 DEF CountsReady
  <2>6. OneGate'
    BY <1>14, <2>1 DEF Signal, Goto, TypeOK, OneGate
  <2>7. QED
    BY <2>1, <2>3, <2>4, <2>5, <2>6
<1>15. QED
  BY <1>1, <1>2, <1>3, <1>4, <1>5, <1>6, <1>7, <1>8, <1>9, <1>10, <1>11, <1>12, <1>13, <1>14
  DEF Next, LetGo, Acquire, Step

\* The types of the fields of Condition, for any threads and timeouts: in
\* particular m_numWaitersToUnblock never goes below zero, although
\* m_numWaitersBlocked may, and m_numWaitersGone passes its limit only after
\* the assert in front of its reset has failed, which only a build with asserts does.
THEOREM TypeOKHolds == Spec => []TypeOK
<1>1. IInv => TypeOK
  BY DEF IInv
<1>2. QED
  BY <1>1, InitIInv, NextIInv, PTL DEF Spec

\* notify_ and the waiters it unblocks keep the gate m_blockLock shut until
\* the last of them opens it, and no ReleaseSemaphore finds it open, also when
\* timeouts, other notifications and new waiters come in between.
THEOREM GateClosedWhileUnblockingHolds == Spec => []GateClosedWhileUnblocking
<1>1. IInv => GateClosedWhileUnblocking
  BY DEF IInv, OneGate, TypeOK, GateClosedWhileUnblocking, At
<1>2. QED
  BY <1>1, InitIInv, NextIInv, PTL DEF Spec

-----------------------------------------------------------------------------
(* As long as no wait times out. *)

\* What a thread at loc adds to the number of threads at locs.
Adds(loc, locs) == IF loc \in locs THEN 1 ELSE 0

\* The number of threads at some locations is a number.
LEMMA AtFinite ==
  ASSUME NEW L
  PROVE  IsFiniteSet(At(L)) /\ Cardinality(At(L)) \in Nat
<1>1. At(L) \in SUBSET Threads
  BY DEF At
<1>2. QED
  BY <1>1, FS_Subset, FS_CardinalityType, WinConditionAssumption

\* Where a thread is, there is at least one.
LEMMA AtCounts ==
  ASSUME NEW L, NEW t \in Threads, pc[t] \in L
  PROVE  Cardinality(At(L)) \in Nat \ {0}
BY AtFinite, FS_EmptySet DEF At

\* A thread that moves is counted where it goes and not where it was.
LEMMA GotoCounts ==
  ASSUME pc \in [Threads -> Locations], NEW t \in Threads, NEW loc, Goto(t, loc), NEW L
  PROVE  Cardinality(At(L)') = Cardinality(At(L)) + Adds(loc, L) - Adds(pc[t], L)
<1>0. IsFiniteSet(At(L)) /\ Cardinality(At(L)) \in Nat
  BY AtFinite
<1>1. CASE loc \in L /\ pc[t] \in L
  <2>1. At(L)' = At(L)
    BY <1>1 DEF At, Goto
  <2>2. QED
    BY <1>0, <1>1, <2>1 DEF Adds
<1>2. CASE loc \in L /\ pc[t] \notin L
  <2>1. At(L)' = At(L) \union {t} /\ t \notin At(L)
    BY <1>2 DEF At, Goto
  <2>2. Cardinality(At(L)') = Cardinality(At(L)) + 1
    BY <1>0, <2>1, FS_AddElement
  <2>3. QED
    BY <1>0, <1>2, <2>2 DEF Adds
<1>3. CASE loc \notin L /\ pc[t] \in L
  <2>1. At(L)' = At(L) \ {t} /\ t \in At(L)
    BY <1>3 DEF At, Goto
  <2>2. Cardinality(At(L)') = Cardinality(At(L)) - 1
    BY <1>0, <2>1, FS_RemoveElement
  <2>3. QED
    BY <1>0, <1>3, <2>2 DEF Adds
<1>4. CASE loc \notin L /\ pc[t] \notin L
  <2>1. At(L)' = At(L)
    BY <1>4 DEF At, Goto
  <2>2. QED
    BY <1>0, <1>4, <2>1 DEF Adds
<1>5. QED
  BY <1>1, <1>2, <1>3, <1>4

Quiet == At({"timedOut"}) = {}

Asleep == {"queue", "woken"}
Carrying == {"post", "passOn", "woken"}

\* Without timeouts nobody is gone, the counters add up to the sleepers, and
\* there is a token exactly while a notification is handed out.
Counted ==
  /\ m_numWaitersGone = 0
  /\ \A t \in Threads : numWaitersGone[t] = 0
  /\ Cardinality(At(Asleep)) = m_numWaitersBlocked + m_numWaitersToUnblock
  /\ m_blockQueue + Cardinality(At(Carrying)) = IF m_numWaitersToUnblock # 0 THEN 1 ELSE 0

\* At first nobody sleeps and there is no token.
LEMMA InitCounted == Init => Counted
<1> SUFFICES ASSUME Init PROVE Counted
  OBVIOUS
<1>1. At(Asleep) = {} /\ At(Carrying) = {}
  BY DEF Init, At, Asleep, Carrying
<1>2. QED
  BY <1>1, FS_EmptySet DEF Init, Counted

\* A step that starts and ends without a thread that has timed out keeps the
\* accounts right.
LEMMA NextCounted == IInv /\ Counted /\ Quiet /\ Quiet' /\ [Next]_vars => Counted'
<1> SUFFICES ASSUME IInv, Counted, Quiet, Quiet', [Next]_vars PROVE Counted'
  OBVIOUS
<1>0. TypeOK
  BY DEF IInv
<1>a. WinConditionAssumption
  BY WinConditionAssumption
<1>q. \A t \in Threads : pc[t] # "timedOut" /\ pc'[t] # "timedOut"
  BY DEF Quiet, At
<1>n. Cardinality(At(Asleep)) \in Nat /\ Cardinality(At(Carrying)) \in Nat
  BY AtFinite
<1>m. ASSUME NEW t \in Threads, NEW loc, Goto(t, loc)
      PROVE  /\ Cardinality(At(Asleep)') =
                  Cardinality(At(Asleep)) + Adds(loc, Asleep) - Adds(pc[t], Asleep)
             /\ Cardinality(At(Carrying)') =
                  Cardinality(At(Carrying)) + Adds(loc, Carrying) - Adds(pc[t], Carrying)
  BY <1>0, <1>m, GotoCounts DEF TypeOK
<1>s. UNCHANGED pc => At(Asleep)' = At(Asleep) /\ At(Carrying)' = At(Carrying)
  BY DEF At
<1> USE DEF Adds, Asleep, Carrying
<1>1. CASE UNCHANGED vars
  BY <1>1, <1>s DEF vars, numbers, Counted
<1>2. ASSUME NEW t \in Threads, Lock(t) \/ Unlock(t)
      PROVE  Counted'
  BY <1>2, <1>s DEF Lock, Unlock, numbers, Counted
<1>3. ASSUME NEW t \in Threads, CallWait(t) \/ CallNotify(t)
      PROVE  Counted'
  BY <1>3, <1>m, <1>n DEF CallWait, CallNotify, numbers, Counted
<1>4. ASSUME NEW t \in Threads, EnterGate(t)
      PROVE  Counted'
  BY <1>4, <1>m, <1>n DEF EnterGate, numbers, Counted
<1>5. ASSUME NEW t \in Threads, Register(t)
      PROVE  Counted'
  BY <1>0, <1>5, <1>m, <1>n DEF Register, TypeOK, Counted
<1>6. ASSUME NEW t \in Threads, LeaveQueue(t)
      PROVE  Counted'
  <2>1. m_blockQueue > 0 /\ m_blockQueue' = m_blockQueue - 1 /\ Goto(t, "woken")
    BY <1>0, <1>6, <1>q DEF LeaveQueue, Goto, TypeOK
  <2>2. QED
    BY <1>0, <1>6, <1>m, <1>n, <2>1 DEF LeaveQueue, numbers, TypeOK, Counted
<1>7. ASSUME NEW t \in Threads, Unblock(t)
      PROVE  Counted'
  <2> DEFINE n == m_numWaitersToUnblock
  <2>1. /\ pc[t] = "woken" /\ n \in Nat \ {0} /\ n' = n - 1
        /\ m_numWaitersBlocked' = m_numWaitersBlocked
        /\ UNCHANGED m_blockQueue
    BY <1>0, <1>7, <1>q DEF Unblock, TypeOK
  <2>2. CASE n - 1 = 0 /\ m_numWaitersBlocked # 0
    <3>1. Goto(t, "relock") /\ m_numWaitersGone' = m_numWaitersGone /\ UNCHANGED numWaitersGone
      BY <1>7, <2>1, <2>2 DEF Unblock
    <3>2. QED
      BY <1>0, <1>m, <1>n, <2>1, <2>2, <3>1 DEF TypeOK, Counted
  <2>3. CASE ~(n - 1 = 0 /\ m_numWaitersBlocked # 0)
    <3>1. /\ Goto(t, AfterUnblock(n))
          /\ m_numWaitersGone' = IF n - 1 = 0 THEN 0 ELSE m_numWaitersGone
          /\ numWaitersGone' = [numWaitersGone EXCEPT
                                  ![t] = IF n - 1 = 0 THEN m_numWaitersGone ELSE 0]
      BY <1>7, <2>1, <2>3 DEF Unblock
    <3>2. AfterUnblock(n) = IF n = 1 THEN "drain" ELSE "passOn"
      BY <2>1 DEF AfterUnblock
    <3>3. m_numWaitersGone' = 0 /\ \A u \in Threads : numWaitersGone'[u] = 0
      BY <1>0, <3>1 DEF TypeOK, Counted
    <3>4. Goto(t, IF n = 1 THEN "drain" ELSE "passOn")
      BY <3>1, <3>2
    <3>5. QED
      BY <1>0, <1>m, <1>n, <2>1, <3>3, <3>4 DEF TypeOK, Counted
  <2>4. QED
    BY <2>2, <2>3
<1>8. ASSUME NEW t \in Threads, Gone(t)
      PROVE  FALSE
  <2>1. pc[t] = "woken" /\ m_numWaitersToUnblock = 0
    BY <1>8, <1>q DEF Gone
  <2>2. Cardinality(At(Carrying)) \in Nat \ {0}
    BY <2>1, AtCounts
  <2>3. QED
    BY <1>0, <2>1, <2>2 DEF TypeOK, Counted
<1>9. ASSUME NEW t \in Threads, Purge(t)
      PROVE  Counted'
  <2>1. /\ pc[t] = "purge" /\ Goto(t, "relock")
        /\ m_numWaitersGone' \in {m_numWaitersGone, 0}
        /\ m_numWaitersBlocked' = m_numWaitersBlocked - m_numWaitersGone
        /\ UNCHANGED <<m_blockQueue, m_numWaitersToUnblock, numWaitersGone>>
    BY <1>9 DEF Purge
  <2>2. m_numWaitersBlocked' = m_numWaitersBlocked /\ m_numWaitersGone' = m_numWaitersGone
    BY <1>0, <2>1 DEF TypeOK, Counted
  <2>3. pc[t] = "purge" /\ Goto(t, "relock")
        /\ UNCHANGED <<m_blockQueue, numbers, numWaitersGone>>
    BY <2>1, <2>2 DEF numbers
  <2>4. /\ Cardinality(At(Asleep)') = Cardinality(At(Asleep))
        /\ Cardinality(At(Carrying)') = Cardinality(At(Carrying))
    BY <1>m, <1>n, <2>3
  <2>5. /\ m_blockQueue' = m_blockQueue /\ numWaitersGone' = numWaitersGone
        /\ m_numWaitersBlocked' = m_numWaitersBlocked
        /\ m_numWaitersGone' = m_numWaitersGone
        /\ m_numWaitersToUnblock' = m_numWaitersToUnblock
    BY <2>3 DEF numbers
  <2>6. QED
    BY <2>4, <2>5 DEF Counted
<1>10. ASSUME NEW t \in Threads, Drain(t)
       PROVE  Counted'
  BY <1>0, <1>10, <1>m, <1>n DEF Drain, numbers, TypeOK, Counted
<1>11. ASSUME NEW t \in Threads, PassOn(t) \/ Post(t)
       PROVE  Counted'
  BY <1>0, <1>11, <1>m, <1>n DEF PassOn, Post, numbers, TypeOK, Counted
<1>12. ASSUME NEW t \in Threads, Relock(t)
       PROVE  Counted'
  BY <1>12, <1>m, <1>n DEF Relock, numbers, Counted
<1>13. ASSUME NEW t \in Threads, Notify(t)
       PROVE  Counted'
  <2>0. pc[t] \in Notifies /\ UNCHANGED <<m_blockQueue, m_numWaitersGone, numWaitersGone>>
    BY <1>13 DEF Notify
  <2>1. PICK loc \in {"run", "signal", "signalAll"} : Goto(t, loc)
    BY <1>13 DEF Notify, NotifyJoin, NotifyBegin, NotifyNobody
  <2>2. /\ m_numWaitersBlocked' + m_numWaitersToUnblock'
             = m_numWaitersBlocked + m_numWaitersToUnblock
        /\ m_numWaitersToUnblock' # 0 <=> m_numWaitersToUnblock # 0
    BY <1>0, <1>13
    DEF Notify, NotifyJoin, NotifyBegin, NotifyNobody, Release, TypeOK, IInv, CountsReady
  <2>3. QED
    BY <1>0, <1>m, <1>n, <2>0, <2>1, <2>2 DEF Notifies, TypeOK, Counted
<1>14. ASSUME NEW t \in Threads, Signal(t)
       PROVE  Counted'
  <2>1. /\ pc[t] \in Signals /\ Goto(t, "post") /\ m_numWaitersGone' = 0
        /\ UNCHANGED <<m_blockQueue, numWaitersGone>>
    BY <1>14 DEF Signal
  <2>2. m_numWaitersToUnblock = 0 /\ m_numWaitersBlocked > m_numWaitersGone
    BY <2>1 DEF IInv, HolderReady, Signals
  <2>3. /\ m_numWaitersBlocked' + m_numWaitersToUnblock'
             = m_numWaitersBlocked + m_numWaitersToUnblock
        /\ m_numWaitersToUnblock' # 0
    BY <1>0, <1>14, <2>2 DEF Signal, Release, TypeOK, Counted
  <2>4. QED
    BY <1>0, <1>m, <1>n, <2>1, <2>2, <2>3 DEF Signals, TypeOK, Counted
<1>15. QED
  BY <1>1, <1>2, <1>3, <1>4, <1>5, <1>6, <1>7, <1>8, <1>9, <1>10, <1>11, <1>12, <1>13, <1>14
  DEF Next, LetGo, Acquire, Step

\* A behaviour without timeouts keeps the accounts right for ever.
LEMMA CountedHolds == Spec /\ []Quiet => []Counted
<1>1. Spec => []IInv
  BY InitIInv, NextIInv, PTL DEF Spec
<1>2. QED
  BY <1>1, InitCounted, NextCounted, PTL DEF Spec

\* As long as no wait times out, the counters of Condition account for every
\* thread that sleeps in wait or has just been woken there.
THEOREM WaitersAccountedHolds == Spec => WaitersAccounted
<1>1. IInv /\ Counted =>
        Cardinality(At({"queue", "woken"})) =
          m_numWaitersBlocked - m_numWaitersGone + m_numWaitersToUnblock
  BY DEF IInv, TypeOK, Counted, Asleep
<1>2. Spec => []IInv
  BY InitIInv, NextIInv, PTL DEF Spec
<1>3. QED
  BY <1>1, <1>2, CountedHolds, PTL DEF WaitersAccounted, NoTimeouts, Quiet

\* As long as no wait times out, there is one token for m_blockQueue while a
\* notification is handed out, and else none: in the semaphore, on its way
\* there, or taken by a thread just woken.
THEOREM OneTokenAtATimeHolds == Spec => OneTokenAtATime
<1>1. Counted => m_blockQueue + Cardinality(At({"post", "passOn", "woken"}))
                   = IF m_numWaitersToUnblock # 0 THEN 1 ELSE 0
  BY DEF Counted, Carrying
<1>2. QED
  BY <1>1, CountedHolds, PTL DEF OneTokenAtATime, NoTimeouts, Quiet
-----------------------------------------------------------------------------
(* The gate and the critical section do not block each other. *)

\* Somebody passes through the gate that is shut, or will open it.
GateHeld ==
  m_blockLock # 1 =>
    m_numWaitersToUnblock # 0 \/ \E t \in Threads : pc[t] \in {"register", "drain"}

\* A thread that is able to run, and whose step brings the opening of the
\* gate nearer: it opens the gate, or it has the token and the critical section
\* is free, or it can take the token.
CanGoOn(t) ==
  \/ pc[t] = "register"
  \/ pc[t] = "drain" /\ numWaitersGone[t] = 0
  \/ pc[t] \in {"post", "passOn"}
  \/ pc[t] = "woken" /\ m_unblockLock = NoThread
  \/ pc[t] = "queue" /\ m_blockQueue > 0

\* At first the gate is open.
LEMMA InitGateHeld == Init => GateHeld
BY DEF Init, GateHeld

\* Every step without a timeout that shuts the gate holds it, and whoever
\* holds it lets go only to open it or to leave it to the waiters.
LEMMA NextGateHeld ==
  IInv /\ Counted /\ Counted' /\ Quiet /\ GateHeld /\ [Next]_vars => GateHeld'
<1> SUFFICES ASSUME IInv, Counted, Counted', Quiet, GateHeld, [Next]_vars PROVE GateHeld'
  OBVIOUS
<1>0. TypeOK
  BY DEF IInv
<1>q. \A t \in Threads : pc[t] # "timedOut"
  BY DEF Quiet, At
<1>1. CASE UNCHANGED vars
  BY <1>1 DEF vars, numbers, GateHeld
<1>2. ASSUME NEW t \in Threads, NEW loc, pc[t] \notin {"register", "drain"}, Goto(t, loc),
             UNCHANGED <<m_blockLock, m_numWaitersToUnblock>>
      PROVE  GateHeld'
  BY <1>0, <1>2 DEF Goto, TypeOK, GateHeld
<1>3. ASSUME NEW t \in Threads, Lock(t) \/ Unlock(t)
      PROVE  GateHeld'
  BY <1>3 DEF Lock, Unlock, numbers, GateHeld
<1>4. ASSUME NEW t \in Threads, CallWait(t) \/ CallNotify(t) \/ LeaveQueue(t) \/ Gone(t)
                                \/ Purge(t) \/ PassOn(t) \/ Relock(t) \/ Post(t)
      PROVE  GateHeld'
  BY <1>2, <1>4 DEF CallWait, CallNotify, LeaveQueue, Gone, Purge, PassOn, Relock, Post, numbers
<1>5. ASSUME NEW t \in Threads, EnterGate(t)
      PROVE  GateHeld'
  BY <1>0, <1>5 DEF EnterGate, Goto, TypeOK, GateHeld
<1>6. ASSUME NEW t \in Threads, Register(t)
      PROVE  GateHeld'
  BY <1>6, OpenGateOpens DEF Register, IInv, OneGate, GateHeld
<1>7. ASSUME NEW t \in Threads, Drain(t)
      PROVE  GateHeld'
  BY <1>7, OpenGateOpens DEF Drain, IInv, OneGate, Counted, GateHeld
<1>8. ASSUME NEW t \in Threads, Unblock(t)
      PROVE  GateHeld'
  <2>1. /\ pc[t] = "woken" /\ m_numWaitersToUnblock' = m_numWaitersToUnblock - 1
        /\ m_numWaitersToUnblock # 0 /\ m_blockLock # 1
    BY <1>0, <1>8, <1>q DEF Unblock, IInv, OneGate
  <2>2. CASE m_numWaitersToUnblock - 1 # 0
    BY <2>1, <2>2 DEF GateHeld
  <2>3. CASE m_numWaitersToUnblock - 1 = 0 /\ m_numWaitersBlocked # 0
    BY <1>0, <1>8, <2>1, <2>3, OpenGateOpens DEF Unblock, GateHeld
  <2>4. CASE m_numWaitersToUnblock - 1 = 0 /\ m_numWaitersBlocked = 0
    <3>1. Goto(t, "drain")
      BY <1>0, <1>8, <2>1, <2>4 DEF Unblock, AfterUnblock, TypeOK
    <3>2. QED
      BY <1>0, <3>1 DEF Goto, TypeOK, GateHeld
  <2>5. QED
    BY <2>2, <2>3, <2>4
<1>9. ASSUME NEW t \in Threads, Notify(t)
      PROVE  GateHeld'
  <2>1. \E loc : Goto(t, loc)
    BY <1>9 DEF Notify, NotifyJoin, NotifyBegin, NotifyNobody
  <2>2. UNCHANGED m_numWaitersToUnblock \/ m_numWaitersToUnblock' # 0
    BY <1>0, <1>9 DEF Notify, NotifyJoin, NotifyBegin, NotifyNobody, Release, TypeOK, IInv,
                      CountsReady
  <2>3. pc[t] \notin {"register", "drain"} /\ UNCHANGED m_blockLock
    BY <1>9 DEF Notify, Notifies
  <2>4. QED
    BY <1>2, <2>1, <2>2, <2>3 DEF GateHeld
<1>10. ASSUME NEW t \in Threads, Signal(t)
       PROVE  GateHeld'
  <2>1. m_numWaitersBlocked > m_numWaitersGone /\ m_numWaitersToUnblock = 0
    BY <1>10 DEF Signal, IInv, HolderReady
  <2>2. m_numWaitersToUnblock' # 0
    BY <1>0, <1>10, <2>1 DEF Signal, Release, TypeOK
  <2>3. QED
    BY <2>2 DEF GateHeld
<1>11. QED
  BY <1>1, <1>3, <1>4, <1>5, <1>6, <1>7, <1>8, <1>9, <1>10 DEF Next, LetGo, Acquire, Step

\* While the gate is shut somebody can go on; so a thread that waits for the
\* gate inside the critical section cannot be what the holder of the gate
\* waits for.
LEMMA HeldGateOpens == IInv /\ Counted /\ GateHeld /\ m_blockLock # 1 => \E t \in Threads : CanGoOn(t)
<1> SUFFICES ASSUME IInv, Counted, GateHeld, m_blockLock # 1
             PROVE  \E t \in Threads : CanGoOn(t)
  OBVIOUS
<1>1. CASE \E t \in Threads : pc[t] \in {"register", "drain"}
  BY <1>1 DEF Counted, CanGoOn
<1>2. CASE m_numWaitersToUnblock # 0
  <2>1. m_unblockLock = NoThread
    BY <1>2 DEF IInv, TypeOK, Holder, HolderReady
  <2>2. m_blockQueue + Cardinality(At(Carrying)) = 1
    BY <1>2 DEF Counted
  <2>3. CASE At(Carrying) # {}
    BY <2>1, <2>3 DEF At, Carrying, CanGoOn
  <2>4. CASE At(Carrying) = {}
    <3>1. m_blockQueue > 0
      BY <2>2, <2>4, FS_EmptySet DEF IInv, TypeOK
    <3>2. Cardinality(At(Asleep)) # 0
      BY <1>2 DEF IInv, TypeOK, CountsReady, Counted
    <3>3. At(Asleep) # {}
      BY <3>2, FS_EmptySet
    <3>4. QED
      BY <2>4, <3>1, <3>3 DEF At, Asleep, Carrying, CanGoOn
  <2>5. QED
    BY <2>3, <2>4
<1>3. QED
  BY <1>1, <1>2 DEF GateHeld

\* As long as no wait times out, a gate that is shut is never left behind:
\* somebody can take the next step that leads to its opening.  So wait never
\* blocks at the gate for want of a thread that would open it, and notify,
\* which waits for the gate inside the critical section, cannot deadlock with
\* the threads it notifies.
THEOREM ShutGateOpens ==
  Spec => (NoTimeouts => [](m_blockLock # 1 => \E t \in Threads : CanGoOn(t)))
<1>1. Spec => []IInv
  BY InitIInv, NextIInv, PTL DEF Spec
<1>2. Spec /\ []Quiet => []GateHeld
  BY <1>1, CountedHolds, InitGateHeld, NextGateHeld, PTL DEF Spec
<1>3. QED
  BY <1>1, <1>2, CountedHolds, HeldGateOpens, PTL DEF NoTimeouts, Quiet
=============================================================================
