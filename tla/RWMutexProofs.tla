---------------------------- MODULE RWMutexProofs ----------------------------
(***************************************************************************)
(* Theorems about ReadWriteMutex for any finite set of threads, any of     *)
(* which may use timeouts, and both policies: a writer is alone, the       *)
(* counters are exact and, until a timeout, no wakeup is lost.             *)
(***************************************************************************)
EXTENDS RWMutex, FiniteSetTheorems, TLAPS

\* 1 when location loc is one of locs, else 0: what a thread at loc adds to
\* the counter of locs.
Adds(loc, locs) == IF loc \in locs THEN 1 ELSE 0

\* The threads at some locations form a finite set, so their number is a
\* natural, and it is zero only when no thread is there.
LEMMA AtFinite ==
  ASSUME NEW L
  PROVE  /\ IsFiniteSet(At(L))
         /\ Cardinality(At(L)) \in Nat
         /\ Cardinality(At(L)) = 0 => \A t \in Threads : pc[t] \notin L
<1>1. At(L) \in SUBSET Threads
  BY DEF At
<1>2. IsFiniteSet(At(L))
  BY <1>1, FS_Subset, ThreadsAssumption
<1>3. Cardinality(At(L)) \in Nat
  BY <1>2, FS_CardinalityType
<1>4. Cardinality(At(L)) = 0 => At(L) = {}
  BY <1>2, FS_EmptySet
<1>5. QED
  BY <1>2, <1>3, <1>4 DEF At

\* A thread that moves leaves the locations it was at and joins the ones it
\* goes to; nobody else moves.
LEMMA GotoCounts ==
  ASSUME pc \in [Threads -> Locations],
         NEW t \in Threads, NEW loc, Goto(t, loc), NEW L
  PROVE  Cardinality(At(L)') =
           Cardinality(At(L)) + Adds(loc, L) - Adds(pc[t], L)
<1>0. /\ IsFiniteSet(At(L))
      /\ Cardinality(At(L)) \in Nat
  BY AtFinite
<1>1. CASE loc \in L /\ pc[t] \in L
  <2>1. At(L)' = At(L)
    BY <1>1 DEF At, Goto
  <2>2. QED
    BY <1>0, <1>1, <2>1 DEF Adds
<1>2. CASE loc \in L /\ pc[t] \notin L
  <2>1. At(L)' = At(L) \union {t} /\ t \notin At(L)
    BY <1>2 DEF At, Goto
  <2>2. Cardinality(At(L)') = Cardinality(At(L)) + 1
    BY <1>0, <2>1, FS_AddElement
  <2>3. QED
    BY <1>0, <1>2, <2>2 DEF Adds
<1>3. CASE loc \notin L /\ pc[t] \in L
  <2>1. At(L)' = At(L) \ {t} /\ t \in At(L)
    BY <1>3 DEF At, Goto
  <2>2. Cardinality(At(L)') = Cardinality(At(L)) - 1
    BY <1>0, <2>1, FS_RemoveElement
  <2>3. QED
    BY <1>0, <1>3, <2>2 DEF Adds
<1>4. CASE loc \notin L /\ pc[t] \notin L
  <2>1. At(L)' = At(L)
    BY <1>4 DEF At, Goto
  <2>2. QED
    BY <1>0, <1>4, <2>1 DEF Adds
<1>5. QED
  BY <1>1, <1>2, <1>3, <1>4

\* The inductive invariant: mutual exclusion follows from the guards only
\* because the counters the guards read are exact.
IInv == TypeOK /\ CountersExact /\ MutualExclusion

\* The inductive invariant holds in the initial state.
LEMMA InitIInv == Init => IInv
<1> SUFFICES ASSUME Init PROVE IInv
  OBVIOUS
<1>1. TypeOK
  BY DEF Init, TypeOK, Locations, At
<1>2. ASSUME NEW L, "outside" \notin L
      PROVE  Cardinality(At(L)) = 0
  <2>1. At(L) = {}
    BY <1>2 DEF Init, At
  <2>2. QED
    BY <2>1, FS_EmptySet
<1>3. CountersExact
  BY <1>2 DEF Init, CountersExact, ReaderWaits, WriterWaits
<1>4. MutualExclusion
  BY DEF Init, MutualExclusion
<1>5. QED
  BY <1>1, <1>3, <1>4 DEF IInv

\* How a move changes each of the four counted sets of threads.
LEMMA GotoAllCounts ==
  ASSUME TypeOK, NEW t \in Threads, NEW loc, Goto(t, loc)
  PROVE  /\ Cardinality(At(ReaderWaits)') = Cardinality(At(ReaderWaits))
              + Adds(loc, ReaderWaits) - Adds(pc[t], ReaderWaits)
         /\ Cardinality(At({"reading"})') = Cardinality(At({"reading"}))
              + Adds(loc, {"reading"}) - Adds(pc[t], {"reading"})
         /\ Cardinality(At(WriterWaits)') = Cardinality(At(WriterWaits))
              + Adds(loc, WriterWaits) - Adds(pc[t], WriterWaits)
         /\ Cardinality(At({"writing"})') = Cardinality(At({"writing"}))
              + Adds(loc, {"writing"}) - Adds(pc[t], {"writing"})
<1>1. pc \in [Threads -> Locations]
  BY DEF TypeOK
<1>2. QED
  BY <1>1, GotoCounts

\* A thread is let in as a reader only while nobody is writing, and as a
\* writer only while nobody holds a lock.
LEMMA GuardsExclude ==
  ASSUME TypeOK, CountersExact
  PROVE  /\ ~shouldQueueReader =>
              \A u \in Threads : pc[u] # "writing"
         /\ ~shouldQueueWriter =>
              \A u \in Threads : pc[u] \notin {"reading", "writing"}
<1>1. ~shouldQueueReader => Cardinality(At({"writing"})) = 0
  BY DEF shouldQueueReader, TypeOK, CountersExact
<1>2. ~shouldQueueWriter => /\ Cardinality(At({"writing"})) = 0
                            /\ Cardinality(At({"reading"})) = 0
  BY DEF shouldQueueWriter, TypeOK, CountersExact
<1>3. Cardinality(At({"writing"})) = 0 =>
        \A u \in Threads : pc[u] # "writing"
  BY AtFinite
<1>4. Cardinality(At({"reading"})) = 0 =>
        \A u \in Threads : pc[u] # "reading"
  BY AtFinite
<1>5. QED
  BY <1>1, <1>2, <1>3, <1>4

\* Every step, one case per action, preserves the inductive invariant.
LEMMA NextIInv == IInv /\ [Next]_vars => IInv'
<1> SUFFICES ASSUME IInv, [Next]_vars
             PROVE  IInv'
  OBVIOUS
<1>inv. TypeOK /\ CountersExact /\ MutualExclusion
  BY DEF IInv
<1> USE DEF Locations, ReaderWaits, WriterWaits
<1>a. ASSUME NEW t \in Threads, pc[t] = "outside", AdmitReader(t)
      PROVE  IInv'
  <2>1. TypeOK'
    BY <1>inv, <1>a DEF AdmitReader, Goto, TypeOK, At
  <2>2. CountersExact'
    BY <1>inv, <1>a, GotoAllCounts DEF AdmitReader, CountersExact, TypeOK, Adds
  <2>3. MutualExclusion'
    BY <1>inv, <1>a, GuardsExclude
    DEF AdmitReader, Goto, MutualExclusion, TypeOK
  <2>4. QED
    BY <2>1, <2>2, <2>3 DEF IInv
<1>b. ASSUME NEW t \in Threads, NEW loc \in ReaderWaits,
             pc[t] = "outside", QueueReader(t, loc)
      PROVE  IInv'
  <2>1. TypeOK'
    BY <1>inv, <1>b DEF QueueReader, Goto, TypeOK, At, wait
  <2>2. CountersExact'
    BY <1>inv, <1>b, GotoAllCounts DEF QueueReader, CountersExact, TypeOK, Adds
  <2>3. MutualExclusion'
    BY <1>inv, <1>b DEF QueueReader, Goto, MutualExclusion, TypeOK
  <2>4. QED
    BY <2>1, <2>2, <2>3 DEF IInv
<1>c. ASSUME NEW t \in Threads, pc[t] = "outside", AdmitWriter(t)
      PROVE  IInv'
  <2>1. TypeOK'
    BY <1>inv, <1>c DEF AdmitWriter, Goto, TypeOK, At
  <2>2. CountersExact'
    BY <1>inv, <1>c, GotoAllCounts DEF AdmitWriter, CountersExact, TypeOK, Adds
  <2>3. MutualExclusion'
    BY <1>inv, <1>c, GuardsExclude
    DEF AdmitWriter, Goto, MutualExclusion, TypeOK
  <2>4. QED
    BY <2>1, <2>2, <2>3 DEF IInv
<1>d. ASSUME NEW t \in Threads, NEW loc \in WriterWaits,
             pc[t] = "outside", QueueWriter(t, loc)
      PROVE  IInv'
  <2>1. TypeOK'
    BY <1>inv, <1>d DEF QueueWriter, Goto, TypeOK, At, wait
  <2>2. CountersExact'
    BY <1>inv, <1>d, GotoAllCounts DEF QueueWriter, CountersExact, TypeOK, Adds
  <2>3. MutualExclusion'
    BY <1>inv, <1>d DEF QueueWriter, Goto, MutualExclusion, TypeOK
  <2>4. QED
    BY <2>1, <2>2, <2>3 DEF IInv
<1>e. CASE UNCHANGED vars
  <2>1. TypeOK'
    BY <1>inv, <1>e DEF TypeOK, At, vars, counters
  <2>2. CountersExact'
    BY <1>inv, <1>e DEF CountersExact, At, vars, counters
  <2>3. MutualExclusion'
    BY <1>inv, <1>e DEF MutualExclusion, vars
  <2>4. QED
    BY <2>1, <2>2, <2>3 DEF IInv
<1>f. ASSUME NEW t \in Threads, Calls(t)
      PROVE  IInv'
  BY <1>a, <1>b, <1>c, <1>d, <1>e, <1>f
  DEF Calls, ReaderLock, ReaderTryLock, ReaderTryLockFor,
      WriterLock, WriterTryLock, WriterTryLockFor
<1>g. ASSUME NEW t \in Threads, ReaderWakes(t)
      PROVE  IInv'
  <2>0. m_numQueuedReaders \in Nat \ {0}
    BY <1>inv, <1>g, AtFinite DEF ReaderWakes, TypeOK, CountersExact
  <2>1. CASE ~shouldQueueReader
    <3>1. TypeOK'
      BY <1>inv, <1>g, <2>0, <2>1 DEF ReaderWakes, ReaderLetIn, ReaderSleepsAgain, ReaderTimesOut, Goto, TypeOK, At
    <3>2. CountersExact'
      BY <1>inv, <1>g, <2>1, GotoAllCounts
      DEF ReaderWakes, ReaderLetIn, ReaderSleepsAgain, ReaderTimesOut, CountersExact, TypeOK, Adds
    <3>3. MutualExclusion'
      BY <1>inv, <1>g, <2>1, GuardsExclude
      DEF ReaderWakes, ReaderLetIn, ReaderSleepsAgain, ReaderTimesOut, Goto, MutualExclusion, TypeOK
    <3>4. QED
      BY <3>1, <3>2, <3>3 DEF IInv
  <2>2. CASE shouldQueueReader /\ t \notin expired
    <3>1. TypeOK'
      BY <1>inv, <1>g, <2>2 DEF ReaderWakes, ReaderLetIn, ReaderSleepsAgain, ReaderTimesOut, TypeOK, At, wait
    <3>2. CountersExact'
      BY <1>inv, <1>g, <2>2 DEF ReaderWakes, ReaderLetIn, ReaderSleepsAgain, ReaderTimesOut, CountersExact, At
    <3>3. MutualExclusion'
      BY <1>inv, <1>g, <2>2 DEF ReaderWakes, ReaderLetIn, ReaderSleepsAgain, ReaderTimesOut, MutualExclusion
    <3>4. QED
      BY <3>1, <3>2, <3>3 DEF IInv
  <2>3. CASE shouldQueueReader /\ t \in expired
    <3>1. TypeOK'
      BY <1>inv, <1>g, <2>0, <2>3 DEF ReaderWakes, ReaderLetIn, ReaderSleepsAgain, ReaderTimesOut, Goto, TypeOK, At
    <3>2. CountersExact'
      BY <1>inv, <1>g, <2>3, GotoAllCounts
      DEF ReaderWakes, ReaderLetIn, ReaderSleepsAgain, ReaderTimesOut, CountersExact, TypeOK, Adds
    <3>3. MutualExclusion'
      BY <1>inv, <1>g, <2>3 DEF ReaderWakes, ReaderLetIn, ReaderSleepsAgain, ReaderTimesOut, Goto, MutualExclusion, TypeOK
    <3>4. QED
      BY <3>1, <3>2, <3>3 DEF IInv
  <2>4. QED
    BY <2>1, <2>2, <2>3
<1>h. ASSUME NEW t \in Threads, WriterWakes(t)
      PROVE  IInv'
  <2>0. m_numQueuedWriters \in Nat \ {0}
    BY <1>inv, <1>h, AtFinite DEF WriterWakes, TypeOK, CountersExact
  <2>1. CASE ~shouldQueueWriter
    <3>1. TypeOK'
      BY <1>inv, <1>h, <2>0, <2>1 DEF WriterWakes, WriterLetIn, WriterSleepsAgain, WriterTimesOut, Goto, TypeOK, At
    <3>2. CountersExact'
      BY <1>inv, <1>h, <2>1, GotoAllCounts
      DEF WriterWakes, WriterLetIn, WriterSleepsAgain, WriterTimesOut, CountersExact, TypeOK, Adds
    <3>3. MutualExclusion'
      BY <1>inv, <1>h, <2>1, GuardsExclude
      DEF WriterWakes, WriterLetIn, WriterSleepsAgain, WriterTimesOut, Goto, MutualExclusion, TypeOK
    <3>4. QED
      BY <3>1, <3>2, <3>3 DEF IInv
  <2>2. CASE shouldQueueWriter /\ t \notin expired
    <3>1. TypeOK'
      BY <1>inv, <1>h, <2>2 DEF WriterWakes, WriterLetIn, WriterSleepsAgain, WriterTimesOut, TypeOK, At, wait
    <3>2. CountersExact'
      BY <1>inv, <1>h, <2>2 DEF WriterWakes, WriterLetIn, WriterSleepsAgain, WriterTimesOut, CountersExact, At
    <3>3. MutualExclusion'
      BY <1>inv, <1>h, <2>2 DEF WriterWakes, WriterLetIn, WriterSleepsAgain, WriterTimesOut, MutualExclusion
    <3>4. QED
      BY <3>1, <3>2, <3>3 DEF IInv
  <2>3. CASE shouldQueueWriter /\ t \in expired
    <3>1. TypeOK'
      BY <1>inv, <1>h, <2>0, <2>3 DEF WriterWakes, WriterLetIn, WriterSleepsAgain, WriterTimesOut, Goto, TypeOK, At
    <3>2. CountersExact'
      BY <1>inv, <1>h, <2>3, GotoAllCounts
      DEF WriterWakes, WriterLetIn, WriterSleepsAgain, WriterTimesOut, CountersExact, TypeOK, Adds
    <3>3. MutualExclusion'
      BY <1>inv, <1>h, <2>3 DEF WriterWakes, WriterLetIn, WriterSleepsAgain, WriterTimesOut, Goto, MutualExclusion, TypeOK
    <3>4. QED
      BY <3>1, <3>2, <3>3 DEF IInv
  <2>4. QED
    BY <2>1, <2>2, <2>3
<1>i. ASSUME NEW t \in Threads, ReaderUnlock(t)
      PROVE  IInv'
  <2>0. m_numActiveReaders \in Nat \ {0}
    BY <1>inv, <1>i, AtFinite DEF ReaderUnlock, TypeOK, CountersExact
  <2>q. /\ m_readerQueue' \subseteq m_readerQueue
        /\ m_writerQueue' \subseteq m_writerQueue
    BY <1>i DEF ReaderUnlock, notify, notifyAll
  <2>1. TypeOK'
    BY <1>inv, <1>i, <2>0, <2>q DEF ReaderUnlock, Goto, TypeOK, At
  <2>2. CountersExact'
    BY <1>inv, <1>i, GotoAllCounts
    DEF ReaderUnlock, CountersExact, TypeOK, Adds
  <2>3. MutualExclusion'
    BY <1>inv, <1>i DEF ReaderUnlock, Goto, MutualExclusion, TypeOK
  <2>4. QED
    BY <2>1, <2>2, <2>3 DEF IInv
<1>j. ASSUME NEW t \in Threads, WriterUnlock(t)
      PROVE  IInv'
  <2>0. m_numActiveWriters \in Nat \ {0}
    BY <1>inv, <1>j, AtFinite DEF WriterUnlock, TypeOK, CountersExact
  <2>q. /\ m_readerQueue' \subseteq m_readerQueue
        /\ m_writerQueue' \subseteq m_writerQueue
    BY <1>j DEF WriterUnlock, notify, notifyAll
  <2>1. TypeOK'
    BY <1>inv, <1>j, <2>0, <2>q DEF WriterUnlock, Goto, TypeOK, At
  <2>2. CountersExact'
    BY <1>inv, <1>j, GotoAllCounts
    DEF WriterUnlock, CountersExact, TypeOK, Adds
  <2>3. MutualExclusion'
    BY <1>inv, <1>j DEF WriterUnlock, Goto, MutualExclusion, TypeOK
  <2>4. QED
    BY <2>1, <2>2, <2>3 DEF IInv
<1>k. ASSUME NEW t \in Threads, Expire(t) \/ SpuriousWakeup(t)
      PROVE  IInv'
  <2>1. TypeOK'
    BY <1>inv, <1>k
    DEF Expire, SpuriousWakeup, TypeOK, At, wakeUp, counters
  <2>2. CountersExact'
    BY <1>inv, <1>k DEF Expire, SpuriousWakeup, CountersExact, At, counters
  <2>3. MutualExclusion'
    BY <1>inv, <1>k DEF Expire, SpuriousWakeup, MutualExclusion
  <2>4. QED
    BY <2>1, <2>2, <2>3 DEF IInv
<1>l. QED
  BY <1>e, <1>f, <1>g, <1>h, <1>i, <1>j, <1>k DEF Next, Progress

\* ReadWriteMutex excludes a writer from everybody else, for any number of
\* threads, both policies, and with any mix of lock, tryLock, timeouts and
\* spurious wakeups.
THEOREM MutualExclusionHolds == Spec => []MutualExclusion
<1>1. IInv => MutualExclusion
  BY DEF IInv
<1>2. QED
  BY <1>1, InitIInv, NextIInv, PTL DEF Spec

\* The counters that shouldQueueReader, shouldQueueWriter and the unlocks
\* read always agree with the threads; in particular none goes negative.
THEOREM CountersExactHolds == Spec => [](TypeOK /\ CountersExact)
<1>1. IInv => TypeOK /\ CountersExact
  BY DEF IInv
<1>2. QED
  BY <1>1, InitIInv, NextIInv, PTL DEF Spec
-----------------------------------------------------------------------------
(* As long as no Writer.tryLock(Duration) times out under PREFER_WRITERS. *)

Quiet == ~WriterGivesUp

\* Readers sleep only for a reason that holds.
ReadersHaveReason == m_readerQueue # {} => shouldQueueReader

\* When writers sleep and nobody holds a lock, one of them is awake and will
\* be let in, or readers are queued that go first.
WritersHaveReason ==
  m_writerQueue # {} /\ m_numActiveReaders = 0 /\ m_numActiveWriters = 0 =>
    \/ \E t \in Threads : pc[t] \in WriterWaits /\ t \notin m_writerQueue
    \/ m_policy = "PREFER_READERS" /\ m_numQueuedReaders > 0

WakeInv == ReadersHaveReason /\ WritersHaveReason

\* Nobody sleeps in a queue that has just been created.
LEMMA InitWakeInv == Init => WakeInv
BY DEF Init, WakeInv, ReadersHaveReason, WritersHaveReason

\* Every step but the timeout of a preferred writer preserves WakeInv.
LEMMA NextWakeInv == IInv /\ IInv' /\ Quiet /\ Quiet' /\ WakeInv /\ [Next]_vars => WakeInv'
<1> SUFFICES ASSUME IInv, IInv', Quiet, Quiet', WakeInv, [Next]_vars
             PROVE  WakeInv'
  OBVIOUS
<1>0. TypeOK /\ TypeOK' /\ CountersExact
  BY DEF IInv
<1>q. \A t \in Threads : (pc[t] \in WriterWaits => m_numQueuedWriters > 0)
                         /\ (pc[t] \in ReaderWaits => m_numQueuedReaders > 0)
  BY <1>0, AtFinite DEF TypeOK, CountersExact
<1> USE DEF WakeInv, ReadersHaveReason, WritersHaveReason, shouldQueueReader, shouldQueueWriter
<1>1. CASE UNCHANGED vars
  BY <1>1 DEF vars, counters
<1>2. ASSUME NEW t \in Threads, AdmitReader(t) \/ AdmitWriter(t)
      PROVE  WakeInv'
  BY <1>0, <1>2 DEF AdmitReader, AdmitWriter, TypeOK
<1>3. ASSUME NEW t \in Threads, NEW loc, pc[t] = "outside", QueueReader(t, loc)
      PROVE  WakeInv'
  <2>1. \A u \in Threads : pc[u] \in WriterWaits => pc'[u] \in WriterWaits
    BY <1>0, <1>3 DEF QueueReader, Goto, TypeOK, WriterWaits
  <2>2. QED
    BY <1>0, <1>3, <2>1 DEF QueueReader, TypeOK
<1>4. ASSUME NEW t \in Threads, NEW loc, QueueWriter(t, loc)
      PROVE  WakeInv'
  BY <1>0, <1>4 DEF QueueWriter, TypeOK
<1>5. ASSUME NEW t \in Threads, Calls(t)
      PROVE  WakeInv'
  BY <1>1, <1>2, <1>3, <1>4, <1>5
  DEF Calls, ReaderLock, ReaderTryLock, ReaderTryLockFor,
      WriterLock, WriterTryLock, WriterTryLockFor
<1>6. ASSUME NEW t \in Threads, ReaderWakes(t)
      PROVE  WakeInv'
  <2>0. /\ pc[t] \in ReaderWaits
        /\ UNCHANGED <<m_policy, m_numQueuedWriters, m_numActiveWriters, m_writerQueue>>
    BY <1>6 DEF ReaderWakes
  <2>1. CASE ReaderLetIn(t)
    BY <1>0, <2>0, <2>1 DEF ReaderLetIn, TypeOK
  <2>2. CASE ReaderSleepsAgain(t)
    BY <1>0, <2>0, <2>2 DEF ReaderSleepsAgain, TypeOK
  <2>3. CASE ReaderTimesOut(t)
    <3>1. UNCHANGED <<m_numActiveReaders, m_readerQueue>>
      BY <2>3 DEF ReaderTimesOut
    <3>2. \A u \in Threads : pc[u] \in WriterWaits => pc'[u] \in WriterWaits
      BY <1>0, <2>0, <2>3
      DEF ReaderTimesOut, Goto, TypeOK, ReaderWaits, WriterWaits
    <3>3. m_policy = "PREFER_READERS" => m_numActiveWriters # 0
      BY <1>0, <2>3 DEF ReaderTimesOut, TypeOK
    <3>4. QED
      BY <2>0, <3>1, <3>2, <3>3
  <2>4. QED
    BY <1>6, <2>1, <2>2, <2>3 DEF ReaderWakes
<1>7. ASSUME NEW t \in Threads, WriterWakes(t)
      PROVE  WakeInv'
  <2>0. /\ pc[t] \in WriterWaits
        /\ UNCHANGED <<m_policy, m_numQueuedReaders, m_numActiveReaders, m_readerQueue>>
    BY <1>7 DEF WriterWakes
  <2>1. CASE WriterLetIn(t)
    BY <1>0, <2>0, <2>1 DEF WriterLetIn, TypeOK
  <2>2. CASE WriterSleepsAgain(t)
    BY <1>0, <2>0, <2>2 DEF WriterSleepsAgain, TypeOK
  <2>3. CASE WriterTimesOut(t)
    <3>1. UNCHANGED <<m_numActiveWriters, m_writerQueue>> /\ shouldQueueWriter
      BY <2>3 DEF WriterTimesOut
    <3>2. t \in expired /\ pc[t] = "writerTryLock"
      BY <1>0, <2>0, <2>3 DEF WriterTimesOut, TypeOK, At, WriterWaits
    <3>3. m_policy # "PREFER_WRITERS"
      BY <3>2 DEF Quiet, WriterGivesUp
    <3>4. QED
      BY <1>0, <2>0, <3>1, <3>3 DEF TypeOK
  <2>4. QED
    BY <1>7, <2>1, <2>2, <2>3 DEF WriterWakes
<1>8. ASSUME NEW q, NEW r \in notify(q), q # {}
      PROVE  \E u \in q : u \notin r
  BY <1>8 DEF notify
<1>9. ASSUME NEW t \in Threads, ReaderUnlock(t)
      PROVE  WakeInv'
  <2>1. m_writerQueue' \subseteq m_writerQueue
    BY <1>9 DEF ReaderUnlock, notify
  <2>2. \A u \in m_writerQueue : u \in Threads /\ pc'[u] \in WriterWaits
    BY <1>0, <1>9 DEF ReaderUnlock, Goto, TypeOK, At, WriterWaits
  <2>3. m_writerQueue # {} => m_numQueuedWriters > 0
    BY <1>0, <1>q DEF TypeOK, At
  <2>4. ReadersHaveReason'
    BY <1>0, <1>9 DEF ReaderUnlock, TypeOK
  <2>5. m_writerQueue # {} /\ m_numActiveReaders' = 0 => \E u \in m_writerQueue : u \notin m_writerQueue'
    BY <1>0, <1>8, <1>9, <2>3 DEF ReaderUnlock, TypeOK
  <2>6. QED
    BY <2>1, <2>2, <2>4, <2>5
<1>10. ASSUME NEW t \in Threads, WriterUnlock(t)
       PROVE  WakeInv'
  <2>1. m_writerQueue' \subseteq m_writerQueue /\ m_readerQueue' \subseteq m_readerQueue
    BY <1>10 DEF WriterUnlock, notify, notifyAll
  <2>2. \A u \in m_writerQueue : u \in Threads /\ pc'[u] \in WriterWaits
    BY <1>0, <1>10 DEF WriterUnlock, Goto, TypeOK, At, WriterWaits
  <2>3. /\ m_writerQueue # {} => m_numQueuedWriters > 0
        /\ m_readerQueue # {} => m_numQueuedReaders > 0
    BY <1>0, <1>q DEF TypeOK, At
  <2>4. ReadersHaveReason'
    BY <1>0, <1>10, <2>1, <2>3
    DEF WriterUnlock, alertReaders, notifyAll, TypeOK, Policy
  <2>5. m_writerQueue # {} /\ m_numActiveWriters' = 0 =>
          \/ \E u \in m_writerQueue : u \notin m_writerQueue'
          \/ m_policy = "PREFER_READERS" /\ m_numQueuedReaders > 0
    BY <1>0, <1>8, <1>10, <2>3 DEF WriterUnlock, alertWriter, TypeOK
  <2>6. UNCHANGED <<m_policy, m_numQueuedReaders>>
    BY <1>10 DEF WriterUnlock
  <2>7. QED
    BY <2>1, <2>2, <2>4, <2>5, <2>6
<1>11. ASSUME NEW t \in Threads, Expire(t)
       PROVE  WakeInv'
  BY <1>0, <1>11 DEF Expire, wakeUp, counters, TypeOK, At
<1>12. ASSUME NEW t \in Threads, SpuriousWakeup(t)
       PROVE  WakeInv'
  BY <1>0, <1>12 DEF SpuriousWakeup, wakeUp, counters, TypeOK, At
<1>13. QED
  BY <1>1, <1>5, <1>6, <1>7, <1>9, <1>10, <1>11, <1>12 DEF Next, Progress

\* With the reasons of the sleepers, somebody is always awake to go on: the
\* writers that readers sleep for, or the readers that go first.
LEMMA WakeInvSuffices == IInv /\ WakeInv => ~AllAsleep
<1> SUFFICES ASSUME IInv, WakeInv, AllAsleep PROVE FALSE
  OBVIOUS
<1>0. TypeOK /\ CountersExact
  BY DEF IInv
<1>1. At({"reading"}) = {} /\ At({"writing"}) = {}
  BY <1>0 DEF AllAsleep, TypeOK, At, ReaderWaits, WriterWaits
<1>2. m_numActiveReaders = 0 /\ m_numActiveWriters = 0
  BY <1>0, <1>1, FS_EmptySet DEF CountersExact
<1>3. m_readerQueue = At(ReaderWaits) /\ m_writerQueue = At(WriterWaits)
  BY <1>0 DEF AllAsleep, TypeOK, At, ReaderWaits, WriterWaits
<1>4. /\ m_numQueuedReaders > 0 => m_readerQueue # {}
      /\ m_numQueuedWriters > 0 => m_writerQueue # {}
  BY <1>0, <1>3, FS_EmptySet DEF CountersExact
<1>5. m_writerQueue # {} => m_policy = "PREFER_READERS" /\ m_numQueuedReaders > 0
  BY <1>2, <1>3 DEF WakeInv, WritersHaveReason, At
<1>6. m_readerQueue # {} => m_policy = "PREFER_WRITERS" /\ m_numQueuedWriters > 0
  BY <1>2 DEF WakeInv, ReadersHaveReason, shouldQueueReader
<1>7. QED
  BY <1>4, <1>5, <1>6 DEF AllAsleep

\* No lost wakeup: as long as no Writer.tryLock(Duration) times out under
\* PREFER_WRITERS, the unlocks notify so that nobody is left asleep on a free
\* mutex, for any number of threads and either policy.
THEOREM NobodySleepsOnFreeMutexHolds == Spec => NobodySleepsOnFreeMutex
<1>1. Spec => []IInv
  BY InitIInv, NextIInv, PTL DEF Spec
<1>2. Spec /\ []Quiet => []WakeInv
  BY <1>1, InitWakeInv, NextWakeInv, PTL DEF Spec
<1>3. QED
  BY <1>1, <1>2, WakeInvSuffices, PTL DEF NobodySleepsOnFreeMutex, Quiet
=============================================================================
