-------------------------------- MODULE Event --------------------------------
(***************************************************************************)
(* core.sync.event.Event on Posix.  Each method is one critical section of *)
(* m_mutex; wait leaves it only inside pthread_cond_wait, around which     *)
(* there is no loop.  wait() is wait(Duration.max).                        *)
(***************************************************************************)
EXTENDS CondVar

CONSTANTS Threads,
          TimedThreads     \* threads whose waits have a finite timeout

ASSUME EventAssumption == TimedThreads \subseteq Threads

VARIABLES
  m_initalized, m_state, m_manualReset,
  m_cond,     \* threads asleep in pthread_cond_wait or _timedwait
  woken,      \* threads back from it with result 0, without m_mutex yet
  timedOut,   \* threads back from it with ETIMEDOUT
  result,     \* what the last wait of each thread returned
  signaled,   \* history: threads that have seen the event signaled since
              \* they called wait
  spurious    \* history: threads that woke up spuriously since then

flags == <<m_initalized, m_state, m_manualReset>>
vars  == <<flags, m_cond, woken, timedOut, result, signaled, spurious>>

Inside == m_cond \union woken \union timedOut

Init ==
  /\ m_initalized = FALSE
  /\ m_state = FALSE
  /\ m_manualReset = FALSE
  /\ m_cond = {}
  /\ woken = {}
  /\ timedOut = {}
  /\ result = [t \in Threads |-> FALSE]
  /\ signaled = {}
  /\ spurious = {}

\* Does nothing if the event is already initialized.
initialize(manualReset, initialState) ==
  /\ ~m_initalized
  /\ m_initalized' = TRUE
  /\ m_state' = initialState
  /\ m_manualReset' = manualReset
  /\ UNCHANGED <<m_cond, woken, timedOut, result, signaled, spurious>>

\* "There must not be threads currently waiting": the destructor's contract.
terminate ==
  /\ m_initalized
  /\ Inside = {}
  /\ m_initalized' = FALSE
  /\ UNCHANGED <<m_state, m_manualReset, m_cond, woken, timedOut, result,
                 signaled, spurious>>

\* Mutant: pthread_cond_signal instead of pthread_cond_broadcast.
setSignalsOne ==
  /\ m_initalized
  /\ m_state' = TRUE
  /\ m_cond' \in notify(m_cond)
  /\ woken' = woken \union (m_cond \ m_cond')
  /\ signaled' = signaled \union Inside
  /\ UNCHANGED <<m_initalized, m_manualReset, timedOut, result, spurious>>

setIfInitialized ==
  /\ m_initalized
  /\ m_state' = TRUE
  /\ m_cond' = notifyAll(m_cond)
  /\ woken' = woken \union m_cond
  /\ signaled' = signaled \union Inside
  /\ UNCHANGED <<m_initalized, m_manualReset, timedOut, result, spurious>>

reset ==
  /\ m_initalized
  /\ m_state' = FALSE
  /\ UNCHANGED <<m_initalized, m_manualReset, m_cond, woken, timedOut,
                 result, signaled, spurious>>

\* The end of wait: an automatic event is reset by whoever got through.
Return(t, zero) ==
  /\ result' = [result EXCEPT ![t] = zero]
  /\ m_state' = (m_state /\ (zero => m_manualReset))
  /\ UNCHANGED <<m_initalized, m_manualReset>>

\* wait, up to its return or to the call of pthread_cond_wait.
waitCall(t) ==
  /\ t \notin Inside
  /\ spurious' = spurious \ {t}
  /\ UNCHANGED <<woken, timedOut>>
  /\ \/ /\ ~m_initalized
        /\ result' = [result EXCEPT ![t] = FALSE]
        /\ signaled' = signaled \ {t}
        /\ UNCHANGED <<flags, m_cond>>
     \/ /\ m_initalized /\ m_state
        /\ Return(t, TRUE)
        /\ signaled' = signaled \union {t}
        /\ UNCHANGED m_cond
     \/ /\ m_initalized /\ ~m_state
        /\ m_cond' = wait(m_cond, t)
        /\ signaled' = signaled \ {t}
        /\ UNCHANGED <<flags, result>>

\* pthread_cond_wait comes back without having been signaled.
Timeout(t) ==
  /\ t \in m_cond \intersect TimedThreads
  /\ m_cond' = wakeUp(m_cond, t)
  /\ timedOut' = timedOut \union {t}
  /\ UNCHANGED <<flags, woken, result, signaled, spurious>>

SpuriousWakeup(t) ==
  /\ t \in m_cond
  /\ m_cond' = wakeUp(m_cond, t)
  /\ woken' = woken \union {t}
  /\ spurious' = spurious \union {t}
  /\ UNCHANGED <<flags, timedOut, result, signaled>>

\* wait, from the return of pthread_cond_wait with the mutex to its end.
waitReturn(t) ==
  /\ t \in woken \union timedOut
  /\ Return(t, t \in woken)
  /\ woken' = woken \ {t}
  /\ timedOut' = timedOut \ {t}
  /\ UNCHANGED <<m_cond, signaled, spurious>>

Next ==
  \/ \E manual, initial \in BOOLEAN : initialize(manual, initial)
  \/ terminate
  \/ setIfInitialized
  \/ reset
  \/ \E t \in Threads : \/ waitCall(t) \/ waitReturn(t)
                        \/ Timeout(t) \/ SpuriousWakeup(t)

Spec == Init /\ [][Next]_vars

\* A thread that has woken up runs; nobody has to call set, and no timeout
\* is needed for what is promised to the threads that set wakes.
FairSpec == Spec /\ \A t \in Threads : WF_vars(waitReturn(t))
-----------------------------------------------------------------------------
\* A wait that has returned true saw the event signaled at some time during
\* the call, or pthread_cond_wait woke up spuriously.  The documentation
\* knows only the first: "true if the event is in signaled state".
TrueMeansSignaled ==
  \A t \in Threads :
    t \notin Inside /\ result[t] => t \in signaled \union spurious

\* "Set the event to signaled, so that waiting clients are resumed": a
\* thread that sleeps when the event is set returns true, even if the event
\* is reset, or taken by another waiter, before that thread runs again.
SetResumesSleepers ==
  \A t \in Threads :
    t \in signaled \intersect (m_cond \union woken)
      ~> t \notin Inside /\ result[t]

=============================================================================
