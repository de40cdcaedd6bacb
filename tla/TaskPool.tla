------------------------------ MODULE TaskPool ------------------------------
(***************************************************************************)
(* std.parallelism.TaskPool and the ways to wait for a Task: spinForce,    *)
(* yieldForce, workForce and submitAndExecute, which runs the parallel     *)
(* foreach loops.  The queue is a doubly linked list of the tasks          *)
(* themselves, protected by queueMutex; waiterMutex only protects the      *)
(* condition on which forcing threads sleep.                               *)
(*                                                                         *)
(* One action is one critical section, or one access of an atomic          *)
(* variable.  A job runs from the action that takes its task to the one    *)
(* that stores what came of it.  Jobs end; they do not use the pool.  A    *)
(* task is put in the pool once.                                           *)
(***************************************************************************)
EXTENDS Naturals, Sequences, FiniteSets, CondVar

CONSTANTS
  Workers,     \* the threads of the pool
  Clients,     \* the other threads that use it
  MaxTasks,    \* bound: tasks that are made, numbered in this order
  MaxCalls     \* bound: calls of the clients

Tasks == 1..MaxTasks
Null == 0

Threads == Workers \cup Clients

ASSUME PoolAssumption ==
  /\ IsFiniteSet(Workers) /\ Workers # {}
  /\ Workers \cap Clients = {} /\ Null \notin Threads
  /\ MaxTasks \in Nat /\ MaxCalls \in Nat

VARIABLES
  status,      \* of the pool: "running", "finishing" or "stopNow"
  list,        \* head and tail of the queue, prev and next of every task
  taskStatus,  \* of every task: "notStarted", "inProgress" or "done"
  made,        \* how many tasks there are
  use,         \* of every task: "new", "put", "refused" by put, "group" or "dropped"
  workerCondition, waiterCondition,  \* the threads asleep on them
  pc,
  job,         \* the task that a thread executes
  forced,      \* the task that a client waits for
  op,          \* "spin", "yield", "work", "parallel" or "finish": its call
  group, todo, \* submitAndExecute: its tasks, and the rest of its loop
  calls,       \* how many calls were made
  runs,        \* history: how often each task was executed
  inlined,     \* history: which client took a task out of the queue itself
  stopped      \* history: stop was called

conditions == <<workerCondition, waiterCondition>>
client == <<forced, op, group, todo, calls>>
history == <<runs, inlined, stopped>>
tasks == <<list, taskStatus, made, use>>
vars == <<status, tasks, conditions, pc, job, client, history>>

Goto(t, label) == pc' = [pc EXCEPT ![t] = label]

-----------------------------------------------------------------------------
(* The list *)

Set(f, x, y) == IF x = Null THEN f ELSE [f EXCEPT ![x] = y]

Detach(l, x) == [l EXCEPT !.prev[x] = Null, !.next[x] = Null]

popNoSync(l) ==
  LET h == l.next[l.head]
  IN  Detach([l EXCEPT !.head = h, !.prev = Set(@, h, Null)], l.head)

\* Mutant: the tail is treated like the tasks in the middle.
deleteItemNoSyncAnywhere(l, item) ==
  IF item = l.head THEN popNoSync(l)
  ELSE Detach([l EXCEPT !.prev = Set(@, l.next[item], l.prev[item]),
                        !.next = Set(@, l.prev[item], l.next[item])], item)

deleteItemNoSync(l, item) ==
  IF item = l.head THEN popNoSync(l)
  ELSE IF item = l.tail
  THEN Detach([l EXCEPT !.tail = l.prev[item], !.next = Set(@, l.prev[item], Null)], item)
  ELSE Detach([l EXCEPT !.prev = Set(@, l.next[item], l.prev[item]),
                        !.next = Set(@, l.prev[item], l.next[item])], item)

abstractPutNoSync(l, task) ==
  LET l1 == [l EXCEPT !.next[task] = Null]
  IN  IF l.head = Null
      THEN [l1 EXCEPT !.head = task, !.tail = task, !.prev[task] = Null]
      ELSE [l1 EXCEPT !.prev[task] = l.tail, !.next[l.tail] = task, !.tail = task]

(* The tasks h..t of a group are linked among themselves before. *)
LinkGroup(l, h, t) ==
  [l EXCEPT !.next = [x \in Tasks |-> IF x \in h..(t - 1) THEN x + 1 ELSE l.next[x]],
            !.prev = [x \in Tasks |-> IF x \in (h + 1)..t THEN x - 1 ELSE l.prev[x]]]

abstractPutGroupNoSync(l, h, t) ==
  IF l.head = Null THEN [l EXCEPT !.head = h, !.tail = t]
  ELSE [l EXCEPT !.prev[h] = l.tail, !.next[l.tail] = h, !.tail = t]

-----------------------------------------------------------------------------
(* The work loop, for workers and for a client in finish(true).            *)

Take(t, task, l) ==
  /\ list' = l
  /\ taskStatus' = [taskStatus EXCEPT ![task] = "inProgress"]
  /\ job' = [job EXCEPT ![t] = task]

Leave(t) == Goto(t, IF t \in Workers THEN "ended" ELSE "join")

executeWorkLoop(t) ==
  /\ pc[t] = "loop"
  /\ IF status = "stopNow" THEN Leave(t) ELSE Goto(t, "pop")
  /\ UNCHANGED <<status, tasks, conditions, job, client, history>>

\* Mutant: the first worker to come by ends the pool.
popWhileRunning(t) ==
  /\ pc[t] = "pop" \/ (pc[t] = "sleep" /\ t \notin workerCondition)
  /\ \/ /\ list.head # Null /\ status = "running"
        /\ Take(t, list.head, popNoSync(list))
        /\ Goto(t, "run")
        /\ UNCHANGED workerCondition
     \/ /\ list.head = Null /\ status = "running"
        /\ workerCondition' = wait(workerCondition, t)
        /\ Goto(t, "sleep")
        /\ UNCHANGED <<list, taskStatus, job>>
     \/ /\ status # "running"
        /\ Goto(t, "null")
        /\ UNCHANGED <<list, taskStatus, job, workerCondition>>
  /\ UNCHANGED <<status, made, use, waiterCondition, client, history>>

pop(t) ==
  /\ pc[t] = "pop" \/ (pc[t] = "sleep" /\ t \notin workerCondition)
  /\ \/ /\ list.head # Null
        /\ Take(t, list.head, popNoSync(list))
        /\ Goto(t, "run")
        /\ UNCHANGED workerCondition
     \/ /\ list.head = Null /\ status = "running"
        /\ workerCondition' = wait(workerCondition, t)
        /\ Goto(t, "sleep")
        /\ UNCHANGED <<list, taskStatus, job>>
     \/ /\ list.head = Null /\ status # "running"
        /\ Goto(t, "null")
        /\ UNCHANGED <<list, taskStatus, job, workerCondition>>
  /\ UNCHANGED <<status, made, use, waiterCondition, client, history>>

NoTask(t) ==
  /\ pc[t] = "null"
  /\ IF status = "finishing" THEN status' = "stopNow" /\ Leave(t)
     ELSE Goto(t, "loop") /\ UNCHANGED status
  /\ UNCHANGED <<tasks, conditions, job, client, history>>

(* doJob: whatever the job throws is stored in the task. *)
doJob(t) ==
  /\ pc[t] = "run"
  /\ taskStatus' = [taskStatus EXCEPT ![job[t]] = "done"]
  /\ runs' = [runs EXCEPT ![job[t]] = @ + 1]
  /\ job' = [job EXCEPT ![t] = Null]
  /\ Goto(t, "notify")
  /\ UNCHANGED <<status, list, made, use, conditions, client, inlined, stopped>>

\* Mutant: one of the waiting threads is woken, whatever it waits for.
notifyOneWaiter(t) ==
  /\ pc[t] = "notify"
  /\ waiterCondition' \in notify(waiterCondition)
  /\ Goto(t, IF t \in Clients /\ op[t] # "finish" THEN "check" ELSE "loop")
  /\ UNCHANGED <<status, tasks, workerCondition, job, client, history>>

notifyWaiters(t) ==
  /\ pc[t] = "notify"
  /\ waiterCondition' = notifyAll(waiterCondition)
  /\ Goto(t, IF t \in Clients /\ op[t] # "finish" THEN "check" ELSE "loop")
  /\ UNCHANGED <<status, tasks, workerCondition, job, client, history>>

-----------------------------------------------------------------------------
(* Calls of the clients *)

Call(c) == pc[c] = "idle" /\ calls < MaxCalls /\ calls' = calls + 1

Perform(c, name, label) == op' = [op EXCEPT ![c] = name] /\ Goto(c, label)

\* Mutant: nobody hears of a task that joins others.
putQuietly(c, task) ==
  /\ Call(c) /\ task = made + 1
  /\ made' = task
  /\ use' = [use EXCEPT ![task] = IF status = "running" THEN "put" ELSE "refused"]
  /\ IF status # "running" THEN UNCHANGED <<list, workerCondition>>
     ELSE /\ list' = abstractPutNoSync(list, task)
          /\ workerCondition' \in IF list.head = Null THEN notify(workerCondition)
                                 ELSE {workerCondition}
  /\ UNCHANGED <<status, taskStatus, waiterCondition, pc, job, op, forced, group,
                 todo, history>>

(* It throws an Error when the pool is no longer running. *)
put(c, task) ==
  /\ Call(c) /\ task = made + 1
  /\ made' = task
  /\ use' = [use EXCEPT ![task] = IF status = "running" THEN "put" ELSE "refused"]
  /\ IF status # "running" THEN UNCHANGED <<list, workerCondition>>
     ELSE /\ list' = abstractPutNoSync(list, task)
          /\ workerCondition' \in notify(workerCondition)
  /\ UNCHANGED <<status, taskStatus, waiterCondition, pc, job, op, forced, group,
                 todo, history>>

stop(c) ==
  /\ Call(c)
  /\ status' = "stopNow" /\ stopped' = TRUE
  /\ workerCondition' = notifyAll(workerCondition)
  /\ UNCHANGED <<tasks, waiterCondition, pc, job, op, forced, group, todo, runs,
                 inlined>>

\* Mutant: only one worker hears of it.
finishNotifiesOne(c, blocking) ==
  /\ Call(c)
  /\ status' = IF status = "running" THEN "finishing" ELSE status
  /\ workerCondition' \in notify(workerCondition)
  /\ IF blocking THEN Perform(c, "finish", "loop") ELSE UNCHANGED <<op, pc>>
  /\ UNCHANGED <<tasks, waiterCondition, job, forced, group, todo, history>>

finish(c, blocking) ==
  /\ Call(c)
  /\ status' = IF status = "running" THEN "finishing" ELSE status
  /\ workerCondition' = notifyAll(workerCondition)
  /\ IF blocking THEN Perform(c, "finish", "loop") ELSE UNCHANGED <<op, pc>>
  /\ UNCHANGED <<tasks, waiterCondition, job, forced, group, todo, history>>

\* Mutant: the work loop of the caller is over, so it must be finished.
joinNobody(c) ==
  /\ pc[c] = "join"
  /\ Goto(c, "idle")
  /\ UNCHANGED <<status, tasks, conditions, job, client, history>>

join(c) ==
  /\ pc[c] = "join"
  /\ \A w \in Workers : pc[w] = "ended"
  /\ Goto(c, "idle")
  /\ UNCHANGED <<status, tasks, conditions, job, client, history>>

ForceTask(c, task, kind) ==
  /\ Call(c) /\ use[task] \in {"put", "refused"}
  /\ forced' = [forced EXCEPT ![c] = task]
  /\ Perform(c, kind, "delete")
  /\ UNCHANGED <<status, tasks, conditions, job, group, todo, history>>

-----------------------------------------------------------------------------
(* submitAndExecute: one task for every worker, linked to a group before   *)
(* it is queued, and one that the caller runs itself.                      *)

(* abstractPutGroupNoSync throws when the pool is no longer running. *)
submitAndExecute(c) ==
  LET h == made + 1
      t == made + Cardinality(Workers)
      l == LinkGroup(list, h, t)
  IN  /\ Call(c) /\ t <= MaxTasks
      /\ made' = t
      /\ use' = [x \in Tasks |-> IF x \notin h..t THEN use[x]
                                 ELSE IF status = "running" THEN "group" ELSE "dropped"]
      /\ IF status # "running"
         THEN list' = l /\ UNCHANGED <<workerCondition, pc, op, group>>
         ELSE /\ list' = abstractPutGroupNoSync(l, h, t)
              /\ group' = [group EXCEPT ![c] = [i \in 1..Cardinality(Workers) |-> made + i]]
              /\ workerCondition' = notifyAll(workerCondition)
              /\ Perform(c, "parallel", "direct")
      /\ UNCHANGED <<status, taskStatus, waiterCondition, job, forced, todo,
                     history>>

(* The caller's own task; whatever it throws is stored. *)
DirectJob(c) ==
  /\ pc[c] = "direct"
  /\ forced' = [forced EXCEPT ![c] = Head(group[c])]
  /\ todo' = [todo EXCEPT ![c] = Tail(group[c])]
  /\ Goto(c, "delete")
  /\ UNCHANGED <<status, tasks, conditions, job, op, group, calls, history>>

-----------------------------------------------------------------------------
(* tryDeleteExecute, then what the caller does: a force waits for the      *)
(* task; submitAndExecute tries all its tasks before it waits for any, so  *)
(* that the second try, in yieldForce, finds every one of them started.    *)

Tried(c) ==
  IF op[c] # "parallel" THEN Goto(c, "check") /\ UNCHANGED <<forced, todo>>
  ELSE LET s == IF todo[c] = <<>> THEN group[c] ELSE todo[c] IN
       /\ forced' = [forced EXCEPT ![c] = Head(s)]
       /\ todo' = [todo EXCEPT ![c] = Tail(s)]
       /\ Goto(c, IF todo[c] = <<>> THEN "check" ELSE "delete")

\* Mutant: the status is not looked at.
tryDeleteExecuteAnyway(c) ==
  /\ pc[c] = "delete"
  /\ Take(c, forced[c], deleteItemNoSync(list, forced[c]))
  /\ inlined' = [inlined EXCEPT ![forced[c]] = c]
  /\ Goto(c, "inline")
  /\ UNCHANGED <<status, made, use, conditions, client, runs, stopped>>

tryDeleteExecute(c) ==
  /\ pc[c] = "delete"
  /\ IF taskStatus[forced[c]] = "notStarted"
     THEN /\ Take(c, forced[c], deleteItemNoSync(list, forced[c]))
          /\ inlined' = [inlined EXCEPT ![forced[c]] = c]
          /\ Goto(c, "inline")
          /\ UNCHANGED <<forced, todo>>
     ELSE Tried(c) /\ UNCHANGED <<list, taskStatus, job, inlined>>
  /\ UNCHANGED <<status, made, use, conditions, op, group, calls, runs, stopped>>

InlineJob(c) ==
  /\ pc[c] = "inline"
  /\ taskStatus' = [taskStatus EXCEPT ![job[c]] = "done"]
  /\ runs' = [runs EXCEPT ![job[c]] = @ + 1]
  /\ job' = [job EXCEPT ![c] = Null]
  /\ Tried(c)
  /\ UNCHANGED <<status, list, made, use, conditions, op, group, calls, inlined,
                 stopped>>

(* An Error is not caught: it leaves the force, or submitAndExecute, and   *)
(* the task stays in progress.                                             *)
InlineJobThrowsError(c) ==
  /\ pc[c] = "inline"
  /\ runs' = [runs EXCEPT ![job[c]] = @ + 1]
  /\ job' = [job EXCEPT ![c] = Null]
  /\ Goto(c, "idle")
  /\ UNCHANGED <<status, tasks, conditions, client, inlined, stopped>>

-----------------------------------------------------------------------------
(* Waiting for a task that somebody has started.                           *)

Done(c) == taskStatus[forced[c]] = "done"

(* The force is over; submitAndExecute goes on to its next task.           *)
Return(c) ==
  IF op[c] = "parallel" /\ todo[c] # <<>>
  THEN /\ forced' = [forced EXCEPT ![c] = Head(todo[c])]
       /\ todo' = [todo EXCEPT ![c] = Tail(@)]
       /\ Goto(c, "check")
  ELSE /\ forced' = [forced EXCEPT ![c] = Null]
       /\ Goto(c, "idle")
       /\ UNCHANGED todo

spinForce(c) ==
  /\ pc[c] = "check" /\ op[c] = "spin" /\ Done(c)
  /\ Return(c)
  /\ UNCHANGED <<status, tasks, conditions, job, op, group, calls, history>>

\* Mutant: the status is not read again after a wake-up.
yieldForceOnce(c) ==
  /\ op[c] \in {"yield", "parallel"}
  /\ \/ /\ pc[c] = "check" /\ ~Done(c)
        /\ waiterCondition' = wait(waiterCondition, c)
        /\ Goto(c, "waiting")
        /\ UNCHANGED <<forced, todo>>
     \/ /\ \/ pc[c] = "check" /\ Done(c)
           \/ pc[c] = "waiting" /\ c \notin waiterCondition
        /\ Return(c) /\ UNCHANGED waiterCondition
  /\ UNCHANGED <<status, tasks, workerCondition, job, op, group, calls, history>>

(* The status is read, and the caller falls asleep, under waiterMutex.     *)
yieldForce(c) ==
  /\ op[c] \in {"yield", "parallel"}
  /\ pc[c] = "check" \/ (pc[c] = "waiting" /\ c \notin waiterCondition)
  /\ IF Done(c) THEN Return(c) /\ UNCHANGED waiterCondition
     ELSE /\ waiterCondition' = wait(waiterCondition, c)
          /\ Goto(c, "waiting")
          /\ UNCHANGED <<forced, todo>>
  /\ UNCHANGED <<status, tasks, workerCondition, job, op, group, calls, history>>

(* done is read without a lock, then the next task is popped; with nothing *)
(* to pop it becomes yieldForce, which tries to take the task again.       *)
workForce(c) ==
  /\ pc[c] = "check" /\ op[c] = "work"
  /\ IF Done(c) THEN Return(c) ELSE Goto(c, "steal") /\ UNCHANGED <<forced, todo>>
  /\ UNCHANGED <<status, tasks, conditions, job, op, group, calls, history>>

workForcePop(c) ==
  /\ pc[c] = "steal"
  /\ IF list.head # Null
     THEN Take(c, list.head, popNoSync(list)) /\ Goto(c, "run") /\ UNCHANGED op
     ELSE /\ op' = [op EXCEPT ![c] = "yield"]
          /\ Goto(c, "delete")
          /\ UNCHANGED <<list, taskStatus, job>>
  /\ UNCHANGED <<status, made, use, conditions, forced, group, todo, calls,
                 history>>

-----------------------------------------------------------------------------
SpuriousWakeup(t) ==
  /\ \/ t \in workerCondition \/ t \in waiterCondition
  /\ workerCondition' = wakeUp(workerCondition, t)
  /\ waiterCondition' = wakeUp(waiterCondition, t)
  /\ UNCHANGED <<status, tasks, pc, job, client, history>>

Init ==
  /\ status = "running"
  /\ list = [head |-> Null, tail |-> Null, prev |-> [t \in Tasks |-> Null],
             next |-> [t \in Tasks |-> Null]]
  /\ taskStatus = [t \in Tasks |-> "notStarted"]
  /\ made = 0
  /\ use = [t \in Tasks |-> "new"]
  /\ workerCondition = {} /\ waiterCondition = {}
  /\ pc = [t \in Threads |-> IF t \in Workers THEN "loop" ELSE "idle"]
  /\ job = [t \in Threads |-> Null]
  /\ forced = [c \in Clients |-> Null]
  /\ op = [c \in Clients |-> "none"]
  /\ group = [c \in Clients |-> <<>>] /\ todo = [c \in Clients |-> <<>>]
  /\ calls = 0
  /\ runs = [t \in Tasks |-> 0]
  /\ inlined = [t \in Tasks |-> Null]
  /\ stopped = FALSE

Calls(c) ==
  \/ \E task \in Tasks :
       put(c, task) \/ \E kind \in {"spin", "yield", "work"} : ForceTask(c, task, kind)
  \/ submitAndExecute(c)
  \/ stop(c) \/ \E blocking \in BOOLEAN : finish(c, blocking)

Loop(t) == executeWorkLoop(t) \/ pop(t) \/ NoTask(t) \/ doJob(t) \/ notifyWaiters(t)

Proceed(c) ==
  \/ Loop(c) \/ join(c) \/ DirectJob(c) \/ tryDeleteExecute(c)
  \/ InlineJob(c) \/ InlineJobThrowsError(c)
  \/ spinForce(c) \/ yieldForce(c) \/ workForce(c) \/ workForcePop(c)

Next ==
  \/ \E w \in Workers : Loop(w)
  \/ \E c \in Clients : Calls(c) \/ Proceed(c)
  \/ \E t \in Threads : SpuriousWakeup(t)

Spec == Init /\ [][Next]_vars

(* Threads that can run are scheduled, mutexes are granted, jobs end.      *)
FairSpec ==
  /\ Spec
  /\ \A w \in Workers : WF_vars(Loop(w))
  /\ \A c \in Clients : WF_vars(Proceed(c))

-----------------------------------------------------------------------------
Queued == {t \in Tasks : use[t] \in {"put", "group"} /\ taskStatus[t] = "notStarted"}

(* The list holds exactly the tasks that were put and not taken, in the    *)
(* order they were put, which is that of their numbers, whoever took tasks *)
(* from its head, its tail or its middle; and a task that was taken is     *)
(* linked to nothing, as the contract of popNoSync and the assertions of   *)
(* doJob want it (a second deletion would corrupt the list).               *)
QueueLinked ==
  /\ list.head = Null <=> Queued = {}
  /\ \A x \in Queued :
       /\ list.head \in Queued /\ list.head <= x
       /\ list.tail \in Queued /\ x <= list.tail
       /\ list.prev[x] = Null <=> x = list.head
       /\ list.next[x] = Null <=> x = list.tail
       /\ list.prev[x] # Null => list.prev[x] \in Queued /\ list.next[list.prev[x]] = x
       /\ list.next[x] # Null => /\ list.next[x] \in Queued /\ list.next[x] > x
                                 /\ list.prev[list.next[x]] = x
       /\ \A y \in Queued : y > x => list.next[x] # Null /\ list.next[x] <= y
  /\ \A x \in Tasks :
       taskStatus[x] # "notStarted" => list.prev[x] = Null /\ list.next[x] = Null

(* A task runs once, though workers, workForce, tryDeleteExecute and a     *)
(* blocking finish compete for it; and done is only seen after it ran.     *)
RunsOnce ==
  \A t \in Tasks : runs[t] <= 1 /\ (taskStatus[t] = "done" => runs[t] = 1)

(* No task waits beside an idle worker: while a worker sleeps, every       *)
(* queued task has one that is awake and about to pop.  Each put notifies  *)
(* one worker, a group all, and a notification is never lost on the way to *)
(* sleep, because pop looks at the queue and sleeps under queueMutex.      *)
NoTaskBesideSleeper ==
  status = "running" /\ workerCondition # {} =>
    Cardinality(Queued) <=
      Cardinality({w \in Workers \ workerCondition : pc[w] \in {"loop", "pop", "sleep"}})

(* finish() lets the pool stop only with an empty queue: stopNow is set by *)
(* the first thread that pops nothing, and put refuses from then on.       *)
NothingLeftBehind ==
  status = "stopNow" /\ ~stopped => Queued = {}

(* Code that still runs when everything was finished: a client may have    *)
(* taken the task from the queue, which finish does not wait for.          *)
WithClient(t) ==
  \/ inlined[t] # Null
  \/ \E c \in Clients : pc[c] = "run" /\ job[c] = t

(* finish(true) returns when every task the pool accepted is done, or in   *)
(* the hands of a client that forces it, and the workers have ended.       *)
FinishIsComplete ==
  [][\A c \in Clients :
       pc[c] = "join" /\ pc'[c] = "idle" /\ ~stopped =>
         /\ \A w \in Workers : pc[w] = "ended"
         /\ \A t \in Tasks : use[t] = "put" => taskStatus[t] = "done" \/ WithClient(t)]_vars

(* A force that returns found the task done, and submitAndExecute all its  *)
(* tasks, which live on its stack: whatever woke the caller.               *)
ReturnsWhenDone ==
  [][\A c \in Clients :
       pc[c] \in {"check", "waiting"} /\ pc'[c] = "idle" =>
         IF op[c] = "parallel" THEN \A i \in DOMAIN group[c] : taskStatus[group[c][i]] = "done"
         ELSE Done(c)]_vars

(* tryDeleteExecute ran the task and let an Error pass: it stays started.  *)
Abandoned(t) == runs[t] = 1 /\ taskStatus[t] = "inProgress"

(* Every force ends: the caller runs the task itself, or is told of its    *)
(* end, or spins until it sees it.  Not so for a thread that sleeps until  *)
(* the end of a task that another client has taken from the queue, because *)
(* tryDeleteExecute sets done without a notification; and no force ends if *)
(* an Error has left tryDeleteExecute, which sets nothing then.            *)
ForceReturns ==
  \A c \in Clients :
    pc[c] \in {"delete", "check", "waiting"} ~>
      \/ pc[c] = "idle"
      \/ c \in waiterCondition /\ inlined[forced[c]] \notin {Null, c}
      \/ forced[c] # Null /\ Abandoned(forced[c])

(* After stop or finish all workers end, asleep or not when it was called. *)
PoolEnds == status # "running" ~> \A w \in Workers : pc[w] = "ended"

=============================================================================
