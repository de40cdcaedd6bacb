# TLA+ models of the OpenD runtime, standard library and compiler

OpenD is a compiler for the D language with its runtime (`druntime`) and
standard library (`phobos`). This project models the parts of it whose
correctness depends on an order nobody chooses: the blocking synchronisation
objects of `core.sync`, the mailboxes and name registry of `std.concurrency`, the
task pool of `std.parallelism`, and in the LLVM based compiler the object file
cache that several compilers share and the code generated for cleanups, catches
and the jumps out of them, where the order is that of the statements of the
compiled program. Each is modelled in TLA+ and checked by TLC on small instances;
for all but the last, every safety property is also proved with TLAPS for any
number of threads, messages, tasks or compilers.

## The system

| Part | State | Operations | Interacts with |
|---|---|---|---|
| `core.sync.mutex`, `semaphore` | one OS object | lock, unlock, wait, notify | everything below |
| `core.sync.condition` | Posix: one `pthread_cond_t`; Windows: two semaphores, a critical section and three counters | wait, wait(Duration), notify, notifyAll | rwmutex, barrier, MessageBox, TaskPool |
| `core.sync.rwmutex` | four counters, two conditions, a policy | lock, tryLock, tryLock(Duration), unlock for reader and writer | clients |
| `core.sync.barrier` | group number, remaining count, a condition | wait | clients |
| `core.sync.event` | signaled flag, manual flag, condition | initialize, set, reset, wait, terminate | GC scan threads, clients |
| `std.concurrency` MessageBox | shared and local message lists, limit, two conditions, closed flag | put, get, setMaxMsgs, close | senders, the receiver, thread termination |
| `std.concurrency` registry | name → tid, tid → names | register, unregister, locate, unregisterMe | thread termination, MessageBox.isClosed |
| `std.concurrency` schedulers | fibers, ready index, FiberCondition | spawn, yield, newCondition | core.thread.Fiber, MessageBox |
| `std.parallelism` TaskPool | task list, pool and task status, two conditions | put, stop, finish, spinForce, yieldForce, workForce, submitAndExecute | worker threads, parallel foreach |
| `core.thread` | thread list, about-to-start list, suspend depth, fiber states | start, join, suspendAll, resumeAll, call, yield | GC |
| `rt.monitor_`, `rt.critical_` | lazily created monitors, list of critical sections | enter, exit, ensureMonitor | `synchronized` |
| GC | pools, bins, mark bits, scan stack | malloc, collect, parallel mark | core.thread, Event |
| `ldc` object cache | cache directory, temporary files, object files | lookup, store, retrieve (copy or link), prune | other compilers on the same directory |
| `ldc` cleanup code generation | stacks of cleanups, catches, landing pads and unresolved gotos; the code emitted so far | try, finally, catch, destructors, calls, return, break, continue, goto, label | front end's legality checks |
| rest of the compilers and of `phobos` | per compilation or call | sequential translation, library algorithms | – |

What is hard here, and hard to test: wakeups that get lost or arrive without a
cause; timeouts that race a notification; counters changed on many early-return
paths; a value read under a lock and used after it; a thread or a process that
ends while others depend on it; a file that vanishes between two calls; a branch
target that is only known after the code that leads to it. `hazards` in
PROJECT.json lists them line by line, with the properties that cover each.

What makes each part correct:

* ReadWriteMutex: a writer is alone; the counters that decide who gets in are
  exact; nobody sleeps beside a free mutex; the preferred side is served.
* Barrier: threads pass in groups of exactly `limit`, whatever the speed of the
  threads that are leaving.
* Event: set resumes everyone who was waiting; wait answers true only for a
  signal (which the code does not keep, see the observations).
* Windows Condition: notify wakes a waiter and not a latecomer; the gate that
  ensures this is opened again, once, by somebody; a timed wait ends.
* MessageBox: no message is lost, duplicated or reordered among those of its
  kind; nothing overtakes a priority message; the end of an owner is noticed
  after what it sent; blocked senders and the receiver wake each other; the limit
  is kept (which it is not always, see the observations).
* Registry: the tables agree; no name leads to a terminated thread; a name stays
  with its thread.
* TaskPool: a task runs once, whoever takes it; none waits beside an idle worker;
  a force returns when, and only when, the task is done; finish leaves nothing
  behind; the workers end.
* Object cache: an entry is complete and of its own module; a compiler that ends
  leaves its own object code; compilers disturb each other only by pruning.
* Cleanup code: the end of a scope, break, continue, goto, return and an exception
  run exactly the cleanups in between, innermost first, and arrive where they
  should. So should goto case and goto default, which do not (see the observations).

## Modules

| Module | Models | Extended by |
|---|---|---|
| CondVar | the condition variable as the set of its sleepers | RWMutex, Barrier, Event, MessageBox, TaskPool |
| RWMutex | `core/sync/rwmutex.d` | MCRWMutex, RWMutexProofs |
| GroupBarrier | what a barrier promises (abstract) | instantiated by Barrier |
| Barrier | `core/sync/barrier.d` | MCBarrier, BarrierProofs |
| Event | `core/sync/event.d`, Posix branch | MCEvent, EventProofs |
| WinCondition | `core/sync/condition.d`, Windows branch | MCWinCondition, WinConditionProofs |
| Mailbox | what a mailbox promises (abstract) | instantiated by MessageBox |
| MessageBox | class MessageBox of `std/concurrency.d` with send, receive and cleanup | MCMessageBox, MessageBoxProofs |
| TidRegistry | the registry functions of `std/concurrency.d` | MCTidRegistry, TidRegistryProofs |
| TaskPool | class TaskPool and the forces of Task, `std/parallelism.d` | MCTaskPool, TaskPoolProofs |
| ObjCache | `ldc/driver/cache.cpp`, `cache_pruning.d`, writeModule of `toobj.cpp` | MCObjCache, ObjCacheProofs |
| CleanupScopes | `ldc/gen/trycatchfinally.cpp`, JumpTargets of `funcgenstate.cpp`, the visitors of `statements.cpp` that use them | MCCleanupScopes |

Variables have the names of the fields they stand for, actions the names of the
methods or, where a method has several blocking points, of its stretches. The
definitions whose comment starts with `Mutant` are slips a programmer could make; each is
used to see that the property it is meant for notices it.

**Grain.** A method that holds a mutex from its first to its last statement is
one action. A wait on a condition gives the mutex up, so the method is split
there: an action runs from the call to the return or the first wait, another from
the return of a wait to the next wait or the return. In WinCondition, which builds
a condition variable from lower-level objects, an action runs from one blocking
call to the next; in TaskPool an access of an atomic variable outside a lock is an
action of its own; in ObjCache an action is one call of the file system. Steps that
read or write what others read without a lock are never merged.

**Condition variables.** `wait` puts the thread into the sleepers' set, `notify`
takes out one (any) sleeper, `notifyAll` all; spurious wakeups are an action of
each module. A woken thread needs the mutex again, and others may run first.

**Time.** A timeout may happen at any moment while a timed wait lasts; durations
are not modelled. Nor are the ages and sizes of cache entries: the pruner may
choose any entry to expire or to make room.

**RWMutex.** `pc` says whether a thread is outside, holds a lock or is in one of
the four wait loops. `expired` are the threads whose deadline has passed; the
loops test the state before the deadline, as the code does. The increments and
the `scope(exit)` decrements of the queue counters that cancel within one
critical section are merged.

**Barrier.** `waiting` and `group` are the threads inside `wait` and their local
copies of `m_group`. `Gathering` and `Leaving`, computed from them, are the
refinement mapping to GroupBarrier.

**Event.** `woken` and `timedOut` separate the two results of
`pthread_cond_timedwait`. `signaled` and `spurious` are history.

**WinCondition.** `pc` names the blocking call a thread makes next. Semaphores are
counts, the mutex and the critical section are owners; these are external.
`failed` are the asserts on a release of the gate that have failed. The one in the
purge always does in a build that has asserts; which build it is, is left open at
each purge.

**MessageBox.** A message is a kind, a sender and a number. A receive names the
kinds its delegates accept. `accepted` and `received` are history. `links` and
`owner` are the `thisInfo` of the receiver. Mailbox has one box instead of the four
lists; the refinement mapping is their union, with `accepted` and `received` as the
order of entry and what was taken, and a receive is under way while `get` searches
or sleeps. The time of a sleeping receive may be up (`TimeIsUp`) before it has the
lock again (`GetTimesOut`); what is put in between waits for the next receive. An
exception thrown out of `get` ends it like a return; a delegate called with a
priority message may throw, and the message stays, while `scan` removes a standard
message whose delegate throws. The fiber conditions of FiberScheduler are not
modelled: the box is
that of a program with real threads.

**TidRegistry.** Both associative arrays are total functions, with NoTid and the
empty sequence for an absent key. `unregister` calls `remove` on the array and
drops the shorter slice it returns, so the array keeps its length: that is what
`removeUnstable` does.

**TaskPool.** `list` is the intrusive list: `head`, `tail` and the `prev` and `next` of
every task; `tail` is left alone when the list runs empty, as in the code. Tasks
are numbered in the order in which they are made, and a task is put once. A worker
is in its loop, about to pop, asleep, or executing; a client calls put, a force,
submitAndExecute, stop or finish. A blocking finish runs the work loop in the
client and then joins the workers. Jobs end and do not use the pool themselves.
`runs`, `inlined` and `stopped` are history.

**ObjCache.** A file is an inode with a content: the hash it holds, or partial. A
cache entry, a temporary name and an output name each lead to an inode; an output
may also be a symbolic link to an entry. A compiler may be killed before any call;
its files stay as they are. Since the key of an entry is a hash of everything that
determines the object code, the hash stands for the object code. Two running
compilers do not have the same output: that would be a race of the build that
uses them.

**CleanupScopes.** A behaviour is the compilation of one function body: an action
is the beginning or the end of a statement, a call, a jump or a label, in any
order the grammar and the front end allow: in finally blocks no catch, no return
and no jump out of them. `gen` is the TryCatchFinallyScopes
object together with the emitted blocks. `nest` and `sites` are history: what
surrounds the insertion point, and every point at which control leaves. When the
function is complete, the properties run the generated code from each site and
compare the cleanups it passes with those of the source. A class is Exception,
Error or, in a catch, Throwable; destructors may throw, too. There are no conditions,
so a goto back inside a finally block is left out: it would never end.

## Runs

| Run | Instance | Shows |
|---|---|---|
| rw | 4 threads, 2 with timeouts, both policies | mutual exclusion, exact counters; no lost wakeup and no starvation of the preferred side, but for timeouts on that side |
| barrier | 4 threads, limit 2, 4 groups | the barrier implements GroupBarrier with its fairness |
| event | 3 threads, 2 with timeouts | set resumes sleepers, whatever resets and consumers do before they run |
| win | 4 threads, 1 with timeouts, builds with and without asserts | the gate protocol and the count of timeouts at its limit; without timeouts notifyAll wakes all and the gate opens again |
| mbox | 2 senders, one started with spawn that sends two messages, one the owner that sends one, both free to terminate; no limit or limit 1, changed at any time, blocking or refusing; two kinds and priority messages; a receiver that is sometimes selective, may time out, throw and close | order, nothing overtakes a priority message, the box implements Mailbox, m_putQueue; the mailbox empties, and sends end but for two cases |
| registry | 3 threads, 2 names, arrays of up to 3 names | the tables agree, no name for a defunct thread |
| taskpool | 2 workers, 2 clients, 3 tasks, 3 calls | the list is well linked, tasks run once, none beside an idle worker, finish is complete, forces return, the pool ends |
| objcache | 3 compilers, 2 modules, 2 outputs, the 3 retrieval modes | with copies, entries and outputs are right; in all modes a stored entry stays until somebody prunes, and only pruning makes a compiler fail |
| cleanup | 1 label, catches of Exception and Throwable, up to 2 compound statements or temporaries, up to 3 calls, jumps, labels, cases or further catches | jumps, gotos, returns and throws run exactly the cleanups in between (goto case where there are none); no legal goto stops the compiler |

Three runs show that the code does not do what its documentation says; the
findings in PROJECT.json quote the lines.

* **win_waitends** – on Windows, a waiter whose timeout meets a notification for
  another waiter takes both itself and that waiter out of the counts. If the
  count of blocked waiters reaches zero so, nobody opens the gate, and the next
  `wait` blocks in it for ever, holding the mutex. Three timed waiters suffice; the
  clients of the run always let go of the mutex, and with the numbers subtracted
  once the property holds. With two timed waiters and four
  threads the same double subtraction drives `m_numWaitersBlocked` below zero.
* **registry_kept** – `unregister` leaves the name in `namesByTid`. When another
  thread takes the name and the first one terminates, the second loses it.
* **objcache_link** – with `-cache-retrieval=hardlink` the output of an earlier
  compilation is the cache entry itself. Compiling a changed module opens it in
  place and writes the new object code into the entry of the old one.

Observations, places where the code does not do what a reader of its
documentation expects and which no run states as a violation. Where a property has
an exception, it is one of these:

* With PREFER_WRITERS, readers queue behind a queued writer. When that writer's
  `tryLock(Duration)` times out it tells nobody (`rwmutex.d:575`), and the readers sleep
  on although no writer is present, against the comment at `rwmutex.d:62`.
  `NobodySleepsOnFreeMutex` has the premise that no preferred writer gives up; the
  timeouts of readers and of writers under PREFER_READERS are covered.
* `Event.wait` takes a spurious wakeup for a signal: `event.d:289` has no loop. It then
  answers true, which the documentation reserves for an event that was signaled
  (`event.d:229` and `255`). No property excludes this; `TrueMeansSignaledHolds` proves that it
  is the only such case.
* The limit of a mailbox may be exceeded, although `setMaxMailboxSize` promises it
  (`concurrency.d:1055` and `2050`): `concurrency.d:2395` uses a stale count. With limit 1, a
  message that the last `get` moved and did not take does not count, and a second
  one enters. `TwiceTheLimitHolds` proves the bound that holds, for a limit that is set
  before messages are sent and only raised; with a limit that is set or lowered
  later there is none.
* `onLinkDeadMsg` refuses the `linkDead` message of a thread started with `spawn`
  (`concurrency.d:2248`); it stays in the local list and counts against the limit of
  "user messages". Once such messages fill the mailbox, a sender waits for ever
  although the receiver takes everything it can, against "this call will block
  until the owner has made space available" (`concurrency.d:2073`). This is the first
  exception of `SendsEnd` (`OnlyUnwanted`); it happens in the mbox run.
* `close` empties the mailbox but does not notify `m_notFull` (`concurrency.d:2384`): a
  sender that waits for room sleeps on. This is the second exception of `SendsEnd`.
* `setMaxMsgs` notifies nobody either (`concurrency.d:2060`): senders that wait when the
  limit is raised or removed go on only when the receiver takes something.
  `BothSleepOnlyWhenFull` is therefore stated for limits that stay.
* A delegate that throws when it is called with a priority message leaves it in the
  list, and the next receive calls it again (`concurrency.d:2271`); one called with a
  standard message does not. The liveness properties of the mailbox are for
  delegates that do not throw every time.
* A standard message in the local list is received before a priority message in
  the shared one (`concurrency.d:2298`), although prioritySend says "at the front"
  (`concurrency.d:696`): Mailbox promises only that a priority message is not passed over for a younger one;
  `get` throws OwnerTerminated although a later message would match
  (`concurrency.d:2205`).
* The assert at `condition.d:520` compares the nonzero result of ReleaseSemaphore
  with zero. In a build with asserts it fails whenever the purge is reached: the
  waiter throws with the mutex held, `m_numWaitersBlocked` has been reduced, and
  `m_numWaitersGone` is not reset and goes on counting past its limit. `TypeOK` allows
  for that and for nothing else.
* `tryDeleteExecute` marks a task done without notifying `waiterCondition`
  (`parallelism.d:1371`): a second client that forces the same task sleeps until some
  other task ends. It catches Exception only: an Error leaves the task in progress
  for ever, and leaves submitAndExecute while workers may still use the tasks on
  its stack (`parallelism.d:3761`), which `ReturnsWhenDone` does not cover. `ForceReturns`
  exempts the client that sleeps for a task another client took, and tasks an Error
  abandoned; no other.
* A compiler ends with an error when another one prunes the entry it has found, the
  temporary file it is about to rename, or an entry whose times it reads
  (`cache_pruning.d:150`). `FailsOnlyByPruning` permits these and shows that there is no
  other way to fail.
* `goto case` and `goto default` branch to the case without running cleanups
  (`statements.cpp:1610` and `1636`), and the front end has no check against it
  (`statementsem.d:2625-2673`): inside a try statement inside the switch, the finally block
  is skipped. The model generates this code and marks such exits `skip`;
  `ExitsRunCleanups` covers a goto case that leaves no cleanup. With the marked
  exits included TLC finds it violated by a switch, a try/finally in it, and in
  that a goto case.
* `finish(true)` does not wait for a task that a client has taken from the queue to
  execute it itself; `FinishIsComplete` says so.
* A nothrow callee that throws an Error outside every catch is called without a
  landing pad (`funcgenstate.cpp:116`), so the cleanups around the call are skipped.

### Bounds

* Threads: three or four. Every protocol here distinguishes at most the roles
  holder or notifier, one waiter about to run, one waiter asleep and a latecomer.
* `MaxGroup` (Barrier): how many groups may complete. Four groups of two among
  four threads let a leaving thread be overtaken twice. The code's counter wraps
  after 2^32 groups; that is outside the model.
* `GoneLimit` (WinCondition) is 3 instead of `int.max / 2`, so that the branch at
  the limit is taken; the code and the proofs need it to be at least 2. `MaxTokens`
  keeps notifiers from filling the semaphore without end; no notification starts
  while two tokens are about. `MaxGone`, 5, bounds how far `m_numWaitersGone` counts on
  after its assert has failed. In win_waitends both are 20: the limit plays no part
  in it.
* `MaxSends` (MessageBox): three messages in all, and the two linkDead messages, with
  no limit or limit 1: one can block another, and two kinds suffice for a message
  to be skipped. The limit may be set, removed and set again while messages are
  there (`LateLimits`). With s1 started by `spawn` its linkDead message is one that
  nobody handles, and that of the owner one that is handled; a thread started with
  `spawnLinked` differs from the owner only in what is forgotten, and is covered by
  the proofs. The run has some 183 000 states.
* `MaxNames` (TidRegistry) bounds the never-shrinking arrays.
* `MaxTasks`, `MaxCalls` (TaskPool): three tasks give the list a head, a middle and a
  tail; three calls let a put, a force and a finish or stop overlap. The run has
  some 370 000 states.
* Three compilers (ObjCache): one that stores, one that recovers and one that
  prunes or is killed, with two modules to be mixed up.
* `MaxScopes`, `MaxSimple` (CleanupScopes): two nested or consecutive scopes and
  three simple statements suffice for a cleanup that gets two exits before and
  after its landing pad is made, and for a goto and its label on either side of it.
  A variadic function adds a third cleanup. Further catches and cases count as
  simple statements. There is one label: two that are both used need four simple
  statements. `Caught` are the classes in catches: Exception, which does not make a
  nothrow call an invoke, and Throwable, which does and takes everything. The run
  has some 1.1 million states, that of ObjCache 1.3 million, where compilers,
  modules and outputs are symmetric.

### Fairness

* A thread that is awake and not blocked eventually runs (weak fairness of the
  wakeup actions); a thread that holds a lock eventually releases it. These are
  what an OS scheduler and a correct client guarantee.
* WinCondition has strong fairness for steps that need a semaphore, a mutex or a
  critical section: Windows queues the threads that wait for an object, so a
  thread whose object becomes available again and again is served. A client that
  has locked the mutex unlocks it or waits, however often it notifies in between
  (strong fairness of `LetGo`): without it a client that keeps the mutex would be
  reason enough for a wait not to end.
* MessageBox: the receiver calls `receive` again and again; `KeepsReceiving`, the
  premise of the two liveness properties, adds that again and again such a call
  accepts everything. Strong fairness of `GetTakes` says that delegates do not throw
  every time they are called with a priority message. No fairness is assumed for
  senders' calls, timeouts of receives, spurious wakeups or termination.
* TaskPool: threads that can run are scheduled, mutexes are granted, jobs end. No
  fairness is assumed for the calls of clients.
* CleanupScopes, ObjCache and TidRegistry are checked for safety only.
* Deadlock is not checked where the system may come to rest: a barrier whose
  group is never completed, waiters behind a gate that stays shut, senders that have
  sent all they may, a pool that has ended, a function that is compiled, compilers
  that are done.

## Proofs

All theorems are for arbitrary constants under the modules' ASSUMEs: finite sets
of threads, a positive limit, an invalid tid that is no tid, workers that are not
clients and a null task that is no thread, file names that are neither hashes nor
contents, a receiver that is not among the senders. `GoneLimit`, which is `int.max / 2`
in the code, is assumed to be at least 2: `m_numWaitersGone` may be set to 1 where the
limit is not looked at. TLC evaluates these assumptions in every run.

* **RWMutexProofs.** `MutualExclusionHolds`, `CountersExactHolds` and, for behaviours
  in which no preferred writer times out, `NobodySleepsOnFreeMutexHolds`. The guards
  read counters, so mutual exclusion is inductive only together with the exactness
  of the counters: `IInv == TypeOK /\ CountersExact /\ MutualExclusion`. `GotoCounts`
  says how one thread's move changes the number of threads at a set of locations;
  `GuardsExclude` turns a counter that is zero into the absence of threads. That
  nobody sleeps on a free mutex rests on `WakeInv`: readers sleep only while
  `shouldQueueReader` holds, and when writers sleep and nobody holds a lock, one of
  them is awake or queued readers go first. A reader that times out under
  PREFER_READERS does so while a writer is active, and a writer that times out under
  PREFER_READERS beside a lock or beside queued readers, so both keep it; a writer
  that times out under PREFER_WRITERS falsifies the first part, which is the
  observation about `rwmutex.d:575` above.
* **BarrierProofs.** `CountExactHolds`, `NoReleasedSleeperHolds` and
  `BarrierImplementsGroupBarrier` (`Spec => Abstract!Spec`). The extra conjunct is
  `NobodyAhead`: no thread in wait has a group number larger than `m_group`; without
  it an increment of `m_group` could turn a leaving thread into a gathering one.
* **TidRegistryProofs.** `NameIsListedHolds` and `NoNameForDefunctHolds`.
  `unregisterMe` clears only the names listed for its thread, so the second needs the
  first; it also needs that a thread that is gone has closed its mailbox.
* **EventProofs.** `TrueMeansSignaledHolds`: the spurious wakeup is the only way to
  true without a signal. The result is read off the return value
  of `pthread_cond_wait`, so the invariant says of every thread that came back with 0
  that it was signaled or woke spuriously, and that a thread is at one place only:
  asleep, woken or timed out. `NobodySleepsBesideSignal` and, as an action property,
  `WokenReturnsTrue` are the two facts `SetResumesSleepers` needs besides fairness.
* **WinConditionProofs.** `TypeOKHolds` and `GateClosedWhileUnblockingHolds` with any
  timeouts, `WaitersAccountedHolds` and `OneTokenAtATimeHolds` for behaviours
  without. `OneGate` says where the gate is: open, with one thread that passes
  through or is about to open it, or with the notification that is being handed out;
  `Holder` and `HolderReady` that the thread inside the critical section still finds
  what it tested on the way in; `CountsReady` that the count of gone threads is
  settled before it passes its limit, unless the assert in front of the reset has
  failed, and that `m_numWaitersBlocked`, which may
  go below zero after timeouts, does not while a notification is out. The two theorems
  about counters rest on `Counted`, which adds up the threads at each blocking call
  and holds until the first timeout. It fails after one: that is the finding of
  win_waitends. With it the token is not only unique but there for as long as a
  notification is handed out, which gives `ShutGateOpens`: a gate that is shut has a
  thread that opens it next, or (`GateHeld`) waiters are being unblocked; then the
  token is in `m_blockQueue`, where a waiter can take it, or in the hands of a thread
  that can pass it on, as nobody holds the critical section while it waits for
  the gate during a notification.
* **MessageBoxProofs.** `PutQueueExactHolds`, `TwiceTheLimitHolds`, `InOrderHolds`,
  `NotOvertakenHolds`, `BoxImplementsMailbox`, `NobodySleepsBesideMail`,
  `BothSleepOnlyWhenFull`. Lists are described by three operators:
  the messages in them, that none occurs twice, and which comes before which; the
  first lemmas say what appending, concatenating, taking the first and removing
  from the middle do to these. `BasicInv` numbers the messages of each sender, so
  that a message that enters is new. `LimitInv` bounds the local list by the stale
  `m_localMsgs` plus one limit, and both lists together by two; a bound on the sum
  alone would not survive the move of the shared list to the local one. It, and
  `TwiceTheLimitHolds`, need that the limit is only raised once messages were sent
  (`OnlyRaised`); every other theorem is for limits that change at will, unless
  `LateLimits` is in its statement. `OrderInv`
  says that every message is in one place (`Contents`), that the lists are
  in order of entry, that what `get` has moved entered before what it has not
  (`LocalFirst`), that `get` goes to the shared lists only when it found nothing in the
  local ones (`Searched`), and that a thread is not forgotten before its `linkDead`
  message is handled (`DeathNews`). Without `Searched` a message moved later could
  overtake an earlier one of its kind; without `DeathNews`, a receive could pass
  over the end of the owner. `OrderInv` is also what the refinement rests on: each
  step of MessageBox maps to one of Mailbox or to a stutter, and the message that a
  search finds is the oldest acceptable one because the lists are in order of entry
  and everything in the local ones entered before everything in the shared ones. A
  receive that is late took a look at empty shared lists when its time was up
  (`LateIsTimed` and `SleepInv`); what enters before it returns is not for it, in
  Mailbox as in the code.
  `SleepInv` says who sleeps where: the receiver only beside empty shared lists,
  and beside sleeping senders only while the mailbox is full.
* **TaskPoolProofs.** `QueueLinkedHolds`, `RunsOnceHolds`, `NothingLeftBehindHolds`,
  and on top of them `NoTaskBesideSleeperHolds`, `FinishIsCompleteHolds` and
  `ReturnsWhenDoneHolds`.
  `IInv` adds to them: `Outside`, that a task outside the queue is linked to nothing
  and cannot be taken for its head (`tail` may be stale, but only when the queue is
  empty); `Jobs`, that a task in progress belongs to one thread that has not run it
  yet; `Finishing`, that a thread that popped nothing saw a queue that stays empty;
  and `Control`, what a client keeps during a call. `RemoveLinked`, `AppendLinked` and
  `GroupLinked` do the work on the list: deletion at the head, the tail or in the middle
  and appending one task or a group keep it linked and ordered. Three more
  invariants rest on `IInv`: `SleepInv` compares the number of queued tasks with that
  of workers awake, given that only workers sleep on `workerCondition` and that no
  client is in the work loop while the pool runs; `FinishInv` says that a task in
  progress is in somebody's hands and that the work loop is left only after stopNow;
  `GroupInv` follows submitAndExecute through its group: the tasks before the one it
  waits for are done, and what is done stays done. `NobodySleepsThroughStop`:
  once the pool was told to end, no worker sleeps. `SleepersServedHolds`: the task that a
  client sleeps for will be announced, with the exceptions of `ForceReturns`; this needs
  that a client sleeps only for a task that somebody has started (`TryInv`: it has
  tried to take it, or the whole group, itself), that a task a client took is done, in
  its hands or abandoned by an Error (`Taken`), and that the end of a task is announced to
  its sleepers after it is set (`WaiterInv`).
* **ObjCacheProofs.** `TypeOKHolds` for every retrieval mode; `CopiedEntriesGoodHolds`
  and `OutputCorrectHolds` for copies. That an entry is good is not inductive: a
  compiler could still write to its file. `EntriesSealed` says that the inode of an
  entry is a temporary file whose writer has renamed it and will not write again;
  `SourceSealed` the same of an entry that is being copied, which survives even if
  the entry is pruned or replaced; `OwnObjects`, `OwnTemps` and `Descriptors` say whose
  file is whose; `Produced` and `TempReady` what is in it. `FinishedIsCachedHolds` and
  `FailsOnlyByPruningHolds` are for every mode: `UnprunedInv` says that, until the first
  prune, every compiler still has the files that its next call needs – the entry it
  found, its temporary file, what its output leads to – whatever the others do.

Only model-checked: all liveness (fairness and ENABLED are outside the prover's
reach): `PreferredSideServed`, `ImplementsGroupBarrier` with its fairness,
`SetResumesSleepers`, `NotifyAllWakesAll`, `GateReopens`, `SendsEnd`, `MailboxDrained`,
`ForceReturns`, `PoolEnds`; and everything about CleanupScopes, whose
properties evaluate the generated code, a recursion over it whose result would have
to be proved by induction over the code.

The core of the argument for each is proved: no wakeup is lost, and nobody waits for
something that nobody is going to do.

| Liveness, model-checked | Safety behind it, proved |
|---|---|
| `PreferredSideServed` | `NobodySleepsOnFreeMutexHolds` |
| `ImplementsGroupBarrier`, fairness | `NoReleasedSleeperHolds`, `BarrierImplementsGroupBarrier` |
| `SetResumesSleepers` | `NobodySleepsBesideSignal`, `WokenReturnsTrue` |
| `NotifyAllWakesAll`, `GateReopens` | `WaitersAccountedHolds`, `OneTokenAtATimeHolds`, `ShutGateOpens` |
| `MailboxDrained`, `SendsEnd` | `NobodySleepsBesideMail`, `BothSleepOnlyWhenFull` (for limits that do not change once messages were sent) |
| `ForceReturns`, `PoolEnds` | `SleepersServedHolds`, `NoTaskBesideSleeperHolds`, `NobodySleepsThroughStop` |

## Not modelled

* `core.sync.mutex` and `semaphore`: each method is one OS call.
* Of TaskPool: tasks run in a thread of their own, pools without workers, the
  asynchronous ranges, `reduce` and `fold`, priorities and daemon status.
* Of the cleanup code: the variant for MSVC, which copies a cleanup into every
  funclet, catches of C++ classes, function tracing, temporaries of conditional
  expressions, conditions in general, and in finally blocks gotos back (endless
  without conditions) and a goto case to a switch outside, which the front end lets
  pass.
* The GC's handling of raw memory and the context switches of fibers.
* The rest of the compilers, the driver and the sequential parts of the libraries:
  there is nothing to interleave, and their correctness is about the meaning of D
  programs. This is most of the C and C++ in the repository: the vendored zlib and
  Valgrind headers, the copies of LLVM's profiling tools, `frontend.h` (generated from
  the D sources), tables of inline assembly, and the translation of expressions,
  types and ABIs to LLVM, for which a model would have to contain the semantics of
  both languages.
* The parts listed in the plan below.

## Plan

1. Extend the model along the concurrent code that is left:
   * `core.thread`: `start` against `thread_suspendAll` (the about-to-start list),
     `suspendDepth`, `join`; the state machine of `Fiber`.
   * FiberScheduler and FiberCondition, and MessageBox over them.
   * `rt.monitor_` (ensureMonitor) and `rt.critical_`: lazily published locks.
   * The free list of `std.concurrency.List`, guarded by a spin lock.
2. Prove more. Every invariant and every action property that the runs check outside
   CleanupScopes is a theorem, and so is the safety core of each liveness property.
   What is left is CleanupScopes, which needs an induction over the generated code,
   and the liveness properties themselves.
