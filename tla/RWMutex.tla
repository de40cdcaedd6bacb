------------------------------- MODULE RWMutex -------------------------------
(***************************************************************************)
(* core.sync.rwmutex.ReadWriteMutex.  Every method runs inside             *)
(* synchronized(m_commonMutex), which is given up only inside              *)
(* Condition.wait; so one action is one stretch of a method between two    *)
(* such points: from the call to its return or to its first wait, and from *)
(* the return of a wait to the next wait or to the return of the method.   *)
(*                                                                         *)
(* The shared overloads run the same statements as the unshared ones and   *)
(* share their actions.                                                    *)
(***************************************************************************)
EXTENDS Integers, FiniteSets, CondVar

CONSTANTS Threads,       \* the threads that use the mutex
          TimedThreads   \* those that may call tryLock(Duration)

ASSUME ThreadsAssumption ==
  /\ IsFiniteSet(Threads)
  /\ TimedThreads \subseteq Threads

VARIABLES
  m_policy,
  m_numQueuedReaders, m_numActiveReaders,
  m_numQueuedWriters, m_numActiveWriters,
  m_readerQueue,         \* threads asleep in m_readerQueue.wait
  m_writerQueue,         \* threads asleep in m_writerQueue.wait
  pc,                    \* where each thread is, see Locations
  expired                \* threads in tryLock(Duration) whose time is up

counters == <<m_numQueuedReaders, m_numActiveReaders,
              m_numQueuedWriters, m_numActiveWriters>>
vars == <<m_policy, counters, m_readerQueue, m_writerQueue, pc, expired>>

Policy == {"PREFER_READERS", "PREFER_WRITERS"}

\* A thread is outside, holds a lock, or is in the wait loop of Reader.lock,
\* Reader.tryLock(Duration), Writer.lock or Writer.tryLock(Duration).
ReaderWaits == {"readerLock", "readerTryLock"}
WriterWaits == {"writerLock", "writerTryLock"}
Locations   == {"outside", "reading", "writing"} \union ReaderWaits
                                                 \union WriterWaits
-----------------------------------------------------------------------------
Init ==
  /\ m_policy \in Policy
  /\ m_numQueuedReaders = 0
  /\ m_numActiveReaders = 0
  /\ m_numQueuedWriters = 0
  /\ m_numActiveWriters = 0
  /\ m_readerQueue = {}
  /\ m_writerQueue = {}
  /\ pc = [t \in Threads |-> "outside"]
  /\ expired = {}

\* Mutant: only the policy is looked at.
shouldQueueReaderByPolicy ==
  m_policy = "PREFER_WRITERS" /\ m_numQueuedWriters > 0

\* Mutant: the policy is not looked at.
shouldQueueReaderAnyPolicy == m_numActiveWriters > 0

shouldQueueReader ==
  \/ m_numActiveWriters > 0
  \/ m_policy = "PREFER_WRITERS" /\ m_numQueuedWriters > 0

shouldQueueWriter ==
  \/ m_numActiveWriters > 0
  \/ m_numActiveReaders > 0
  \/ m_policy = "PREFER_READERS" /\ m_numQueuedReaders > 0

Goto(t, loc) == pc' = [pc EXCEPT ![t] = loc]
-----------------------------------------------------------------------------
(***************************************************************************)
(* Reader                                                                  *)
(***************************************************************************)

\* The lock is granted at once: the increment of m_numQueuedReaders and its
\* scope(exit) decrement cancel out under m_commonMutex.
AdmitReader(t) ==
  /\ ~shouldQueueReader
  /\ m_numActiveReaders' = m_numActiveReaders + 1
  /\ Goto(t, "reading")
  /\ UNCHANGED <<m_policy, m_numQueuedReaders, m_numQueuedWriters,
                 m_numActiveWriters, m_readerQueue, m_writerQueue, expired>>

QueueReader(t, loc) ==
  /\ shouldQueueReader
  /\ m_numQueuedReaders' = m_numQueuedReaders + 1
  /\ m_readerQueue' = wait(m_readerQueue, t)
  /\ Goto(t, loc)
  /\ UNCHANGED <<m_policy, m_numActiveReaders, m_numQueuedWriters,
                 m_numActiveWriters, m_writerQueue, expired>>

ReaderLock(t) ==
  /\ pc[t] = "outside"
  /\ AdmitReader(t) \/ QueueReader(t, "readerLock")

\* tryLock(), and tryLock(Duration) with no time to wait, give up at once.
ReaderTryLock(t) ==
  /\ pc[t] = "outside"
  /\ AdmitReader(t) \/ (shouldQueueReader /\ UNCHANGED vars)

ReaderTryLockFor(t) ==
  /\ t \in TimedThreads
  /\ pc[t] = "outside"
  /\ AdmitReader(t) \/ QueueReader(t, "readerTryLock")

ReaderLetIn(t) ==
  /\ ~shouldQueueReader
  /\ m_numQueuedReaders' = m_numQueuedReaders - 1
  /\ m_numActiveReaders' = m_numActiveReaders + 1
  /\ Goto(t, "reading")
  /\ expired' = expired \ {t}
  /\ UNCHANGED m_readerQueue

ReaderSleepsAgain(t) ==
  /\ shouldQueueReader
  /\ t \notin expired
  /\ m_readerQueue' = wait(m_readerQueue, t)
  /\ UNCHANGED <<m_numQueuedReaders, m_numActiveReaders, pc, expired>>

ReaderTimesOut(t) ==
  /\ shouldQueueReader
  /\ t \in expired
  /\ m_numQueuedReaders' = m_numQueuedReaders - 1
  /\ Goto(t, "outside")
  /\ expired' = expired \ {t}
  /\ UNCHANGED <<m_numActiveReaders, m_readerQueue>>

\* m_readerQueue.wait returned: the loop looks at the state again.
ReaderWakes(t) ==
  /\ pc[t] \in ReaderWaits
  /\ t \notin m_readerQueue
  /\ UNCHANGED <<m_policy, m_numQueuedWriters, m_numActiveWriters,
                 m_writerQueue>>
  /\ ReaderLetIn(t) \/ ReaderSleepsAgain(t) \/ ReaderTimesOut(t)

ReaderUnlock(t) ==
  /\ pc[t] = "reading"
  /\ m_numActiveReaders' = m_numActiveReaders - 1
  /\ IF m_numActiveReaders' < 1 /\ m_numQueuedWriters > 0
       THEN m_writerQueue' \in notify(m_writerQueue)
       ELSE UNCHANGED m_writerQueue
  /\ Goto(t, "outside")
  /\ UNCHANGED <<m_policy, m_numQueuedReaders, m_numQueuedWriters,
                 m_numActiveWriters, m_readerQueue, expired>>
-----------------------------------------------------------------------------
(***************************************************************************)
(* Writer                                                                  *)
(***************************************************************************)

AdmitWriter(t) ==
  /\ ~shouldQueueWriter
  /\ m_numActiveWriters' = m_numActiveWriters + 1
  /\ Goto(t, "writing")
  /\ UNCHANGED <<m_policy, m_numQueuedReaders, m_numActiveReaders,
                 m_numQueuedWriters, m_readerQueue, m_writerQueue, expired>>

QueueWriter(t, loc) ==
  /\ shouldQueueWriter
  /\ m_numQueuedWriters' = m_numQueuedWriters + 1
  /\ m_writerQueue' = wait(m_writerQueue, t)
  /\ Goto(t, loc)
  /\ UNCHANGED <<m_policy, m_numQueuedReaders, m_numActiveReaders,
                 m_numActiveWriters, m_readerQueue, expired>>

WriterLock(t) ==
  /\ pc[t] = "outside"
  /\ AdmitWriter(t) \/ QueueWriter(t, "writerLock")

WriterTryLock(t) ==
  /\ pc[t] = "outside"
  /\ AdmitWriter(t) \/ (shouldQueueWriter /\ UNCHANGED vars)

WriterTryLockFor(t) ==
  /\ t \in TimedThreads
  /\ pc[t] = "outside"
  /\ AdmitWriter(t) \/ QueueWriter(t, "writerTryLock")

WriterLetIn(t) ==
  /\ ~shouldQueueWriter
  /\ m_numQueuedWriters' = m_numQueuedWriters - 1
  /\ m_numActiveWriters' = m_numActiveWriters + 1
  /\ Goto(t, "writing")
  /\ expired' = expired \ {t}
  /\ UNCHANGED m_writerQueue

WriterSleepsAgain(t) ==
  /\ shouldQueueWriter
  /\ t \notin expired
  /\ m_writerQueue' = wait(m_writerQueue, t)
  /\ UNCHANGED <<m_numQueuedWriters, m_numActiveWriters, pc, expired>>

\* Mutant: the early return without the scope(exit).
WriterTimesOutLeaky(t) ==
  /\ shouldQueueWriter
  /\ t \in expired
  /\ Goto(t, "outside")
  /\ expired' = expired \ {t}
  /\ UNCHANGED <<m_numQueuedWriters, m_numActiveWriters, m_writerQueue>>

WriterTimesOut(t) ==
  /\ shouldQueueWriter
  /\ t \in expired
  /\ m_numQueuedWriters' = m_numQueuedWriters - 1
  /\ Goto(t, "outside")
  /\ expired' = expired \ {t}
  /\ UNCHANGED <<m_numActiveWriters, m_writerQueue>>

WriterWakes(t) ==
  /\ pc[t] \in WriterWaits
  /\ t \notin m_writerQueue
  /\ UNCHANGED <<m_policy, m_numQueuedReaders, m_numActiveReaders,
                 m_readerQueue>>
  /\ WriterLetIn(t) \/ WriterSleepsAgain(t) \/ WriterTimesOut(t)

\* Mutant: PREFER_WRITERS without the else branch.
alertReadersIfPreferred ==
  m_numQueuedReaders > 0 /\ m_policy = "PREFER_READERS"

\* The preferred side is alerted if it has anyone queued, else the other.
alertReaders ==
  /\ m_numQueuedReaders > 0
  /\ m_policy = "PREFER_WRITERS" => ~(m_numQueuedWriters > 0)

alertWriter ==
  /\ m_numQueuedWriters > 0
  /\ m_policy = "PREFER_READERS" => ~(m_numQueuedReaders > 0)

WriterUnlock(t) ==
  /\ pc[t] = "writing"
  /\ m_numActiveWriters' = m_numActiveWriters - 1
  /\ IF m_numActiveWriters' < 1 /\ alertReaders
       THEN m_readerQueue' = notifyAll(m_readerQueue)
       ELSE UNCHANGED m_readerQueue
  /\ IF m_numActiveWriters' < 1 /\ alertWriter
       THEN m_writerQueue' \in notify(m_writerQueue)
       ELSE UNCHANGED m_writerQueue
  /\ Goto(t, "outside")
  /\ UNCHANGED <<m_policy, m_numQueuedReaders, m_numActiveReaders,
                 m_numQueuedWriters, expired>>
-----------------------------------------------------------------------------
(***************************************************************************)
(* The clock and the operating system                                      *)
(***************************************************************************)

\* The deadline of a tryLock(Duration) passes while it is in its wait loop;
\* a sleeper also wakes.
Expire(t) ==
  /\ pc[t] \in {"readerTryLock", "writerTryLock"}
  /\ t \notin expired
  /\ expired' = expired \union {t}
  /\ m_readerQueue' = wakeUp(m_readerQueue, t)
  /\ m_writerQueue' = wakeUp(m_writerQueue, t)
  /\ UNCHANGED <<m_policy, counters, pc>>

SpuriousWakeup(t) ==
  /\ t \in m_readerQueue \union m_writerQueue
  /\ m_readerQueue' = wakeUp(m_readerQueue, t)
  /\ m_writerQueue' = wakeUp(m_writerQueue, t)
  /\ UNCHANGED <<m_policy, counters, pc, expired>>
-----------------------------------------------------------------------------
Calls(t) ==
  \/ ReaderLock(t) \/ ReaderTryLock(t) \/ ReaderTryLockFor(t)
  \/ WriterLock(t) \/ WriterTryLock(t) \/ WriterTryLockFor(t)

Progress(t) ==
  \/ ReaderWakes(t) \/ WriterWakes(t)
  \/ ReaderUnlock(t) \/ WriterUnlock(t)
  \/ Expire(t)

Next == \E t \in Threads : Calls(t) \/ Progress(t) \/ SpuriousWakeup(t)

Spec == Init /\ [][Next]_vars

\* A runnable thread runs, a holder releases its lock and time passes; no
\* thread has to call, and nothing makes a spurious wakeup happen.
Fairness == \A t \in Threads : WF_vars(Progress(t))

FairSpec == Spec /\ Fairness
-----------------------------------------------------------------------------
At(locs) == {t \in Threads : pc[t] \in locs}

TypeOK ==
  /\ m_policy \in Policy
  /\ m_numQueuedReaders \in Nat
  /\ m_numActiveReaders \in Nat
  /\ m_numQueuedWriters \in Nat
  /\ m_numActiveWriters \in Nat
  /\ pc \in [Threads -> Locations]
  /\ m_readerQueue \subseteq At(ReaderWaits)
  /\ m_writerQueue \subseteq At(WriterWaits)
  /\ expired \subseteq At({"readerTryLock", "writerTryLock"})

\* What the lock is for: a thread that Writer.lock or tryLock let in shares
\* the mutex with no other writer and with no reader.
MutualExclusion ==
  \A t, u \in Threads :
     t # u /\ pc[t] = "writing" => pc[u] \notin {"reading", "writing"}

\* The four counters never drift from the threads they count, whatever mix
\* of grants, timeouts and unlocks has happened.
CountersExact ==
  /\ m_numQueuedReaders = Cardinality(At(ReaderWaits))
  /\ m_numActiveReaders = Cardinality(At({"reading"}))
  /\ m_numQueuedWriters = Cardinality(At(WriterWaits))
  /\ m_numActiveWriters = Cardinality(At({"writing"}))

\* Somebody sleeps in a queue of a free mutex, and no thread is awake in a
\* wait loop to take it.
AllAsleep ==
  /\ m_readerQueue \union m_writerQueue # {}
  /\ At({"reading", "writing"} \union ReaderWaits \union WriterWaits)
       = m_readerQueue \union m_writerQueue

\* The time of a Writer.tryLock(Duration) is up under PREFER_WRITERS: when it
\* gives up, readers stay asleep that only its place in the queue kept out.
WriterGivesUp ==
  m_policy = "PREFER_WRITERS" /\ \E t \in expired : pc[t] = "writerTryLock"

\* No lost wakeup: unlock chooses whom to notify so that nobody is left asleep
\* on a free mutex, also when readers time out, and writers that are not
\* preferred.
NobodySleepsOnFreeMutex == []~WriterGivesUp => []~AllAsleep

\* The policy names say who gets preference: with PREFER_WRITERS a queued
\* writer leads to an active writer, whatever the readers do, their timeouts
\* included, and symmetrically; as long as nobody on the preferred side gives up.
PreferredSideServed ==
  /\ m_policy = "PREFER_WRITERS" /\ []~WriterGivesUp =>
       (m_numQueuedWriters > 0 ~> m_numActiveWriters > 0)
  /\ m_policy = "PREFER_READERS"
     /\ [](\A t \in expired : pc[t] # "readerTryLock") =>
       (m_numQueuedReaders > 0 ~> m_numActiveReaders > 0)
=============================================================================
