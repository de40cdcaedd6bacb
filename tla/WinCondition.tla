----------------------------- MODULE WinCondition -----------------------------
(***************************************************************************)
(* core.sync.condition.Condition on Windows.  The runtime builds the       *)
(* condition variable itself, from a gate (the semaphore m_blockLock), a   *)
(* queue that is released one waiter at a time (the semaphore              *)
(* m_blockQueue) and three counters kept under the critical section        *)
(* m_unblockLock.  One action runs from one blocking call to the next; the *)
(* releases that end it belong to it.                                      *)
(*                                                                         *)
(* The system's objects are external: a semaphore is its count, a mutex or *)
(* critical section is its owner.                                          *)
(***************************************************************************)
EXTENDS Integers, FiniteSets

CONSTANTS Threads,
          TimedThreads,  \* threads whose waits have a finite timeout
          NoThread,      \* the owner of a free mutex
          GoneLimit,     \* int.max / 2 in the code
          MaxTokens,     \* bound: no notification starts while this many
                         \* tokens are in m_blockQueue or on their way
          MaxGone        \* bound: no wait starts that could bring
                         \* m_numWaitersGone to this number

ASSUME WinConditionAssumption ==
  /\ IsFiniteSet(Threads)
  /\ TimedThreads \subseteq Threads
  /\ NoThread \notin Threads
  /\ GoneLimit \in Nat \ {0, 1}
  /\ MaxTokens \in Nat
  /\ MaxGone \in Nat

VARIABLES
  m_blockLock, m_blockQueue, m_assocMutex, m_unblockLock,
  m_numWaitersGone, m_numWaitersBlocked, m_numWaitersToUnblock,
  pc,                \* the blocking call each thread is about to make
  numWaitersGone,    \* the local of timedWait
  failed             \* the asserts on a release of the gate that failed

numbers == <<m_numWaitersGone, m_numWaitersBlocked, m_numWaitersToUnblock>>
vars == <<m_blockLock, m_blockQueue, m_assocMutex, m_unblockLock, numbers,
          pc, numWaitersGone, failed>>

\* "run" is outside the methods of Condition.  The others are named for what
\* the thread does next.
Waiting  == {"gate", "register", "queue", "woken", "timedOut", "purge",
             "drain", "passOn", "relock"}
Notifies == {"notify", "notifyAll"}
Signals  == {"signal", "signalAll"}
Locations == {"run", "post"} \union Waiting \union Notifies \union Signals

Init ==
  /\ m_blockLock = 1
  /\ m_blockQueue = 0
  /\ m_assocMutex = NoThread
  /\ m_unblockLock = NoThread
  /\ m_numWaitersGone = 0
  /\ m_numWaitersBlocked = 0
  /\ m_numWaitersToUnblock = 0
  /\ pc = [t \in Threads |-> "run"]
  /\ numWaitersGone = [t \in Threads |-> 0]
  /\ failed = {}

Goto(t, loc) == pc' = [pc EXCEPT ![t] = loc]

At(locs) == {t \in Threads : pc[t] \in locs}

Tokens == m_blockQueue
            + Cardinality(At(Notifies \union Signals \union {"post", "passOn"}))

\* ReleaseSemaphore(m_blockLock, 1, null); assert(rc): the semaphore was made
\* with a maximum of one, so the call fails when the gate is open.
OpenGate ==
  IF m_blockLock = 0
    THEN m_blockLock' = 1 /\ UNCHANGED failed
    ELSE failed' = failed \union {"gate"} /\ UNCHANGED m_blockLock
-----------------------------------------------------------------------------
(***************************************************************************)
(* The client                                                              *)
(***************************************************************************)

Lock(t) ==
  /\ pc[t] = "run"
  /\ m_assocMutex = NoThread
  /\ m_assocMutex' = t
  /\ UNCHANGED <<m_blockLock, m_blockQueue, m_unblockLock, numbers, pc,
                 numWaitersGone, failed>>

Unlock(t) ==
  /\ pc[t] = "run"
  /\ m_assocMutex = t
  /\ m_assocMutex' = NoThread
  /\ UNCHANGED <<m_blockLock, m_blockQueue, m_unblockLock, numbers, pc,
                 numWaitersGone, failed>>

CallWait(t) ==
  /\ pc[t] = "run"
  /\ m_assocMutex = t
  /\ m_numWaitersGone + Cardinality(At(Waiting)) < MaxGone
  /\ Goto(t, "gate")
  /\ UNCHANGED <<m_blockLock, m_blockQueue, m_assocMutex, m_unblockLock,
                 numbers, numWaitersGone, failed>>

\* notify() and notifyAll() may be called without the mutex.
CallNotify(t) ==
  /\ pc[t] = "run"
  /\ Tokens < MaxTokens
  /\ Goto(t, "notify") \/ Goto(t, "notifyAll")
  /\ UNCHANGED <<m_blockLock, m_blockQueue, m_assocMutex, m_unblockLock,
                 numbers, numWaitersGone, failed>>
-----------------------------------------------------------------------------
(***************************************************************************)
(* timedWait                                                               *)
(***************************************************************************)

EnterGate(t) ==
  /\ pc[t] = "gate"
  /\ m_blockLock > 0
  /\ m_blockLock' = m_blockLock - 1
  /\ Goto(t, "register")
  /\ UNCHANGED <<m_blockQueue, m_assocMutex, m_unblockLock, numbers,
                 numWaitersGone, failed>>

Register(t) ==
  /\ pc[t] = "register"
  /\ m_numWaitersBlocked' = m_numWaitersBlocked + 1
  /\ OpenGate
  /\ m_assocMutex' = NoThread
  /\ Goto(t, "queue")
  /\ UNCHANGED <<m_blockQueue, m_unblockLock, m_numWaitersGone,
                 m_numWaitersToUnblock, numWaitersGone>>

\* WaitForSingleObject(m_blockQueue, timeout) returns.
LeaveQueue(t) ==
  /\ pc[t] = "queue"
  /\ \/ /\ m_blockQueue > 0
        /\ m_blockQueue' = m_blockQueue - 1
        /\ Goto(t, "woken")
     \/ /\ t \in TimedThreads
        /\ Goto(t, "timedOut")
        /\ UNCHANGED m_blockQueue
  /\ UNCHANGED <<m_blockLock, m_assocMutex, m_unblockLock, numbers,
                 numWaitersGone, failed>>

\* Mutant: the next waiter is not unblocked.
AfterUnblockAlone(numSignalsLeft) ==
  IF numSignalsLeft = 1 THEN "drain" ELSE "relock"

\* Mutant: the last thread does not open the gate.
AfterUnblockShut(numSignalsLeft) ==
  IF numSignalsLeft \in {0, 1} THEN "relock" ELSE "passOn"

\* What a thread does after it has left the critical section.
AfterUnblock(numSignalsLeft) ==
  CASE numSignalsLeft = 0 -> "relock"
    [] numSignalsLeft = 1 -> "drain"
    [] OTHER -> "passOn"

\* The critical section when a notification is under way.  left is
\* numSignalsLeft before the gate is looked at.
Unblock(t) ==
  LET timedOut == pc[t] = "timedOut"
      absorbed == timedOut /\ m_numWaitersBlocked # 0
      left     == IF absorbed THEN 0 ELSE m_numWaitersToUnblock
      blocked  == IF absorbed THEN m_numWaitersBlocked - 1
                              ELSE m_numWaitersBlocked
      gone     == IF timedOut /\ ~absorbed THEN 1 ELSE m_numWaitersGone
      last     == m_numWaitersToUnblock - 1 = 0
  IN /\ pc[t] \in {"woken", "timedOut"}
     /\ m_unblockLock = NoThread
     /\ m_numWaitersToUnblock # 0
     /\ m_numWaitersToUnblock' = m_numWaitersToUnblock - 1
     /\ m_numWaitersBlocked' = blocked
     /\ IF last /\ blocked # 0
          THEN /\ OpenGate
               /\ Goto(t, "relock")
               /\ m_numWaitersGone' = gone
               /\ UNCHANGED numWaitersGone
          ELSE /\ Goto(t, AfterUnblock(left))
               /\ m_numWaitersGone' = IF last THEN 0 ELSE gone
               /\ numWaitersGone' = [numWaitersGone EXCEPT
                                       ![t] = IF last THEN gone ELSE 0]
               /\ UNCHANGED <<m_blockLock, failed>>
     /\ UNCHANGED <<m_blockQueue, m_assocMutex, m_unblockLock>>

\* The critical section when no notification is under way: a timeout, or a
\* token that nobody was waiting for.
Gone(t) ==
  /\ pc[t] \in {"woken", "timedOut"}
  /\ m_unblockLock = NoThread
  /\ m_numWaitersToUnblock = 0
  /\ m_numWaitersGone' = m_numWaitersGone + 1
  /\ IF m_numWaitersGone' = GoneLimit
       THEN Goto(t, "purge") /\ m_unblockLock' = t
       ELSE Goto(t, "relock") /\ UNCHANGED m_unblockLock
  /\ UNCHANGED <<m_blockLock, m_blockQueue, m_assocMutex,
                 m_numWaitersBlocked, m_numWaitersToUnblock, numWaitersGone,
                 failed>>

\* Mutant: m_numWaitersGone keeps its value in every build.
PurgeNoReset(t) ==
  /\ pc[t] = "purge"
  /\ m_blockLock > 0
  /\ m_numWaitersBlocked' = m_numWaitersBlocked - m_numWaitersGone
  /\ m_unblockLock' = NoThread
  /\ Goto(t, "relock")
  /\ UNCHANGED <<m_blockLock, m_blockQueue, m_assocMutex, m_numWaitersGone,
                 m_numWaitersToUnblock, numWaitersGone, failed>>

\* Takes the gate, settles the count of waiters and opens the gate again,
\* all inside the critical section.  The assert( rc == WAIT_OBJECT_0 ) after
\* ReleaseSemaphore compares its nonzero answer with zero: in a build with
\* asserts it fails, the two scope(failure) leave the critical section and lock
\* the mutex, and the reset of m_numWaitersGone is not reached (the first
\* alternative); in a release build there is no assert (the second).
Purge(t) ==
  /\ pc[t] = "purge"
  /\ m_blockLock > 0
  /\ m_numWaitersBlocked' = m_numWaitersBlocked - m_numWaitersGone
  /\ \/ failed' = failed \union {"purge"} /\ UNCHANGED m_numWaitersGone
     \/ m_numWaitersGone' = 0 /\ UNCHANGED failed
  /\ m_unblockLock' = NoThread
  /\ Goto(t, "relock")
  /\ UNCHANGED <<m_blockLock, m_blockQueue, m_assocMutex,
                 m_numWaitersToUnblock, numWaitersGone>>

\* The last thread of a notification swallows the tokens left over for
\* waiters that have timed out, then opens the gate.
Drain(t) ==
  /\ pc[t] = "drain"
  /\ IF numWaitersGone[t] > 0
       THEN /\ m_blockQueue > 0
            /\ m_blockQueue' = m_blockQueue - 1
            /\ numWaitersGone' = [numWaitersGone EXCEPT ![t] = @ - 1]
            /\ UNCHANGED <<m_blockLock, failed, pc>>
       ELSE /\ OpenGate
            /\ Goto(t, "relock")
            /\ UNCHANGED <<m_blockQueue, numWaitersGone>>
  /\ UNCHANGED <<m_assocMutex, m_unblockLock, numbers>>

\* The other threads of a notification release the next one.
PassOn(t) ==
  /\ pc[t] = "passOn"
  /\ m_blockQueue' = m_blockQueue + 1
  /\ Goto(t, "relock")
  /\ UNCHANGED <<m_blockLock, m_assocMutex, m_unblockLock, numbers,
                 numWaitersGone, failed>>

Relock(t) ==
  /\ pc[t] = "relock"
  /\ m_assocMutex = NoThread
  /\ m_assocMutex' = t
  /\ Goto(t, "run")
  /\ UNCHANGED <<m_blockLock, m_blockQueue, m_unblockLock, numbers,
                 numWaitersGone, failed>>
-----------------------------------------------------------------------------
(***************************************************************************)
(* notify_                                                                 *)
(***************************************************************************)

\* Mutant: notify, too, leaves no waiter counted as blocked.
ReleaseForgets(all, blocked) ==
  LET n == IF all THEN blocked ELSE 1
  IN /\ m_numWaitersToUnblock' = m_numWaitersToUnblock + n
     /\ m_numWaitersBlocked' = 0

\* One more waiter, or all of them, pass from blocked to being unblocked.
Release(all, blocked) ==
  LET n == IF all THEN blocked ELSE 1
  IN /\ m_numWaitersToUnblock' = m_numWaitersToUnblock + n
     /\ m_numWaitersBlocked' = blocked - n

\* Mutant: every notification posts a token of its own.
NotifyJoinPosts(t) ==
  /\ m_numWaitersToUnblock # 0
  /\ IF m_numWaitersBlocked = 0
       THEN UNCHANGED <<m_numWaitersToUnblock, m_numWaitersBlocked>>
       ELSE Release(pc[t] = "notifyAll", m_numWaitersBlocked)
  /\ Goto(t, "post")
  /\ UNCHANGED m_unblockLock

\* Another notification is under way: this one adds its waiters to it.
NotifyJoin(t) ==
  /\ m_numWaitersToUnblock # 0
  /\ IF m_numWaitersBlocked = 0
       THEN UNCHANGED <<m_numWaitersToUnblock, m_numWaitersBlocked>>
       ELSE Release(pc[t] = "notifyAll", m_numWaitersBlocked)
  /\ Goto(t, "run")
  /\ UNCHANGED m_unblockLock

\* There is somebody to notify: close the gate, inside the critical section.
NotifyBegin(t) ==
  /\ m_numWaitersToUnblock = 0
  /\ m_numWaitersBlocked > m_numWaitersGone
  /\ m_unblockLock' = t
  /\ Goto(t, IF pc[t] = "notifyAll" THEN "signalAll" ELSE "signal")
  /\ UNCHANGED <<m_numWaitersToUnblock, m_numWaitersBlocked>>

NotifyNobody(t) ==
  /\ m_numWaitersToUnblock = 0
  /\ ~(m_numWaitersBlocked > m_numWaitersGone)
  /\ Goto(t, "run")
  /\ UNCHANGED <<m_numWaitersToUnblock, m_numWaitersBlocked, m_unblockLock>>

\* Entry of the critical section.
Notify(t) ==
  /\ pc[t] \in Notifies
  /\ m_unblockLock = NoThread
  /\ NotifyJoin(t) \/ NotifyBegin(t) \/ NotifyNobody(t)
  /\ UNCHANGED <<m_blockLock, m_blockQueue, m_assocMutex, m_numWaitersGone,
                 numWaitersGone, failed>>

\* Mutant: the gate is left open.
SignalGateOpen(t) ==
  /\ pc[t] \in Signals
  /\ m_blockLock > 0
  /\ m_numWaitersGone' = 0
  /\ Release(pc[t] = "signalAll", m_numWaitersBlocked - m_numWaitersGone)
  /\ m_unblockLock' = NoThread
  /\ Goto(t, "post")
  /\ UNCHANGED <<m_blockLock, m_blockQueue, m_assocMutex, numWaitersGone,
                 failed>>

\* The gate is closed from here until the last waiter has been unblocked.
Signal(t) ==
  /\ pc[t] \in Signals
  /\ m_blockLock > 0
  /\ m_blockLock' = m_blockLock - 1
  /\ m_numWaitersGone' = 0
  /\ Release(pc[t] = "signalAll", m_numWaitersBlocked - m_numWaitersGone)
  /\ m_unblockLock' = NoThread
  /\ Goto(t, "post")
  /\ UNCHANGED <<m_blockQueue, m_assocMutex, numWaitersGone, failed>>

Post(t) ==
  /\ pc[t] = "post"
  /\ m_blockQueue' = m_blockQueue + 1
  /\ Goto(t, "run")
  /\ UNCHANGED <<m_blockLock, m_assocMutex, m_unblockLock, numbers,
                 numWaitersGone, failed>>
-----------------------------------------------------------------------------
\* The steps that need a semaphore, a mutex or a critical section that other
\* threads may take first.
Acquire(t) ==
  \/ EnterGate(t) \/ LeaveQueue(t) \/ Unblock(t) \/ Gone(t) \/ Purge(t)
  \/ Drain(t) \/ Relock(t) \/ Notify(t) \/ Signal(t)

Step(t) == Register(t) \/ PassOn(t) \/ Post(t)

\* Whoever has the mutex outside the methods lets go of it like this.
LetGo(t) == Unlock(t) \/ CallWait(t)

Next ==
  \E t \in Threads :
    Lock(t) \/ LetGo(t) \/ CallNotify(t) \/ Acquire(t) \/ Step(t)

Spec == Init /\ [][Next]_vars

\* Windows serves the threads that wait for an object in turn, so a thread
\* whose object keeps becoming available gets it.  A client that has locked
\* the mutex unlocks it or waits, however often it notifies before.
Fairness ==
  \A t \in Threads :
    SF_vars(Acquire(t)) /\ WF_vars(Step(t)) /\ SF_vars(LetGo(t))

FairSpec == Spec /\ Fairness
-----------------------------------------------------------------------------
\* m_numWaitersBlocked is an int: with two timed waiters, a timeout that meets a
\* notification is subtracted twice, and the count may go below zero.
\* m_numWaitersGone is settled when it reaches its limit, unless the assert in
\* front of the reset has failed: then it goes on counting.
TypeOK ==
  /\ m_blockLock \in 0..1
  /\ m_blockQueue \in Nat
  /\ m_assocMutex \in Threads \union {NoThread}
  /\ m_unblockLock \in Threads \union {NoThread}
  /\ m_numWaitersGone \in Nat
  /\ m_numWaitersGone > GoneLimit => "purge" \in failed
  /\ m_numWaitersBlocked \in Int
  /\ m_numWaitersToUnblock \in Nat
  /\ pc \in [Threads -> Locations]
  /\ numWaitersGone \in [Threads -> Nat]
  /\ failed \in SUBSET {"gate", "purge"}

\* The gate is shut for as long as a notification is being handed out, so a
\* thread that starts to wait afterwards cannot take it from a thread that
\* was waiting before; and it is never released twice.
GateClosedWhileUnblocking ==
  /\ m_numWaitersToUnblock # 0 =>
       m_blockLock = 0 /\ At({"register", "drain"}) = {}
  /\ "gate" \notin failed

\* No wait has timed out, ever.
NoTimeouts == [](At({"timedOut"}) = {})

\* As long as no wait times out, the counters account for every thread that
\* sleeps or has just been woken.
WaitersAccounted ==
  NoTimeouts =>
    [](Cardinality(At({"queue", "woken"})) =
         m_numWaitersBlocked - m_numWaitersGone + m_numWaitersToUnblock)

\* As long as no wait times out, one token wakes the waiters one by one:
\* m_blockQueue is still the "auto-reset event" it has replaced.  The token
\* is there as long as a notification is handed out, and no longer.
OneTokenAtATime ==
  NoTimeouts =>
    [](m_blockQueue + Cardinality(At({"post", "passOn", "woken"}))
         = IF m_numWaitersToUnblock # 0 THEN 1 ELSE 0)

\* "Notifies all waiting threads": a thread that is asleep when notifyAll
\* claims every waiter wakes up, as long as no wait times out.
NotifyAllWakesAll ==
  NoTimeouts =>
    \A t \in Threads :
      pc[t] = "queue" /\ m_numWaitersToUnblock # 0 /\ m_numWaitersBlocked = 0
        ~> pc[t] # "queue"

\* A notification is handed out completely and the gate opens again, as long
\* as no wait times out.
GateReopens == NoTimeouts => (m_numWaitersToUnblock # 0 ~> m_blockLock = 1)

\* "Suspends the calling thread until a notification occurs or until the
\* supplied time period has elapsed": a wait with a timeout ends.
WaitEnds == \A t \in TimedThreads : pc[t] \in Waiting ~> pc[t] = "run"
=============================================================================
