------------------------------- MODULE CondVar -------------------------------
(***************************************************************************)
(* core.sync.condition.Condition as its clients see it on Posix: a Mesa    *)
(* style condition variable.  Its state is the set of the threads that are *)
(* asleep in wait().  A thread leaves the set because it is notified, its  *)
(* period elapses, or pthread_cond_wait wakes up by itself; it then        *)
(* competes again for the associated mutex, and only the loop around       *)
(* wait() tells it why it woke.                                            *)
(*                                                                         *)
(* The Win32 implementation of the same interface, which the runtime       *)
(* builds itself from semaphores, is module WinCondition.                  *)
(***************************************************************************)

\* wait() and wait(Duration) release the mutex and fall asleep in one step.
wait(queue, t) == queue \union {t}

\* What notify() may leave asleep: one sleeper fewer, whichever the system
\* picks, or nothing changed when nobody sleeps.  The EAGAIN retry loop has
\* no effect a client can see.
notify(queue) ==
  IF queue = {} THEN {queue} ELSE {queue \ {t} : t \in queue}

\* notifyAll() wakes every sleeper.
notifyAll(queue) == {}

\* A sleeper returns from wait without being notified: the period of a timed
\* wait has elapsed, or the wakeup is one of those pthread_cond_wait allows.
wakeUp(queue, t) == queue \ {t}

=============================================================================
