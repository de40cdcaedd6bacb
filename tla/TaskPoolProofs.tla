--------------------------- MODULE TaskPoolProofs ---------------------------
(***************************************************************************)
(* For any number of workers, clients, tasks and calls: the linked list is *)
(* the queue, a task runs at most once, no task waits beside a sleeping    *)
(* worker, finish() strands none and returns only when all is done, and a  *)
(* force returns only when what it forces is done.  Also what a state can  *)
(* say of the two liveness properties: no worker sleeps through the end of *)
(* the pool, and no client sleeps with nobody left to wake it.             *)
(***************************************************************************)
EXTENDS TaskPool, TLAPS, FiniteSetTheorems

T0 == Tasks \cup {Null}

TypeInv ==
  /\ status \in {"running", "finishing", "stopNow"}
  /\ list \in [head : T0, tail : T0, prev : [Tasks -> T0], next : [Tasks -> T0]]
  /\ taskStatus \in [Tasks -> {"notStarted", "inProgress", "done"}]
  /\ made \in Nat
  /\ use \in [Tasks -> {"new", "put", "refused", "group", "dropped"}]
  /\ pc \in [Threads -> {"loop", "pop", "sleep", "null", "run", "notify", "ended", "join",
                         "idle", "direct", "delete", "inline", "check", "waiting", "steal"}]
  /\ job \in [Threads -> T0]
  /\ forced \in [Clients -> T0]
  /\ op \in [Clients -> {"none", "finish", "spin", "yield", "work", "parallel"}]
  /\ group \in [Clients -> Seq(Tasks)] /\ todo \in [Clients -> Seq(Tasks)]
  /\ runs \in [Tasks -> Nat]

(* A client that is on its way to a task, or comes back to it. *)
Forcing(c) ==
  \/ pc[c] \in {"delete", "inline", "check", "waiting", "steal"}
  \/ pc[c] \in {"run", "notify"} /\ op[c] # "finish"

(* What is forced was given to the pool; what a call keeps until it ends.  *)
Control ==
  \A c \in Clients :
    /\ Forcing(c) => forced[c] \in Tasks /\ use[forced[c]] \in {"put", "refused", "group"}
    /\ pc[c] \in {"loop", "pop", "sleep", "null"} => op[c] = "finish"
    /\ pc[c] = "steal" => op[c] = "work"
    /\ \/ pc[c] = "direct"
       \/ pc[c] \in {"delete", "inline"} /\ op[c] = "parallel"
       => group[c] # <<>>
    /\ \A i \in 1..Len(group[c]) : use[group[c][i]] = "group"
    /\ \A i \in 1..Len(todo[c]) : use[todo[c][i]] = "group"

(* Tasks that are not in the queue cannot be mistaken for its ends.        *)
Outside ==
  /\ \A x \in Tasks : use[x] = "new" <=> x > made
  /\ \A x \in Tasks : use[x] = "new" => taskStatus[x] = "notStarted"
  /\ \A x \in Tasks : x \notin Queued /\ use[x] # "dropped" =>
                        list.prev[x] = Null /\ list.next[x] = Null
  /\ list.head \in Queued \cup {Null}
  /\ list.tail # Null => use[list.tail] \in {"put", "group"}

(* A task in progress belongs to one thread, which has not run it yet. *)
Jobs ==
  /\ \A t \in Threads :
       pc[t] \in {"run", "inline"} =>
         job[t] \in Tasks /\ taskStatus[job[t]] = "inProgress" /\ runs[job[t]] = 0
  /\ \A t, u \in Threads :
       pc[t] \in {"run", "inline"} /\ pc[u] \in {"run", "inline"} /\ job[t] = job[u] => t = u
  /\ \A x \in Tasks : taskStatus[x] = "notStarted" => runs[x] = 0

(* A thread that has popped nothing saw an empty queue that stays empty.   *)
Finishing ==
  \A t \in Threads : pc[t] = "null" => Queued = {} /\ status # "running"

Core == QueueLinked /\ Outside /\ Jobs /\ RunsOnce /\ Finishing /\ NothingLeftBehind

IInv == TypeInv /\ Control /\ Core

-----------------------------------------------------------------------------
(* Taking a task out of the list, at its head, its tail or in its middle.  *)
LEMMA RemoveLinked ==
  ASSUME TypeInv, QueueLinked, Outside, NEW x \in Tasks,
         taskStatus[x] = "notStarted", use[x] \in {"put", "refused", "group"},
         list' = deleteItemNoSync(list, x),
         taskStatus' = [taskStatus EXCEPT ![x] = "inProgress"],
         use' = use, made' = made
  PROVE  /\ QueueLinked' /\ Outside' /\ Queued' = Queued \ {x}
         /\ list' \in [head : T0, tail : T0, prev : [Tasks -> T0], next : [Tasks -> T0]]
<1> DEFINE p == list.prev[x]
           n == list.next[x]
<1>0. Null \notin Tasks /\ Tasks \subseteq Nat
  BY DEF Tasks, Null
<1>1. Queued' = Queued \ {x}
  BY DEF Queued, TypeInv
<1>2. /\ x \in Queued => /\ x = list.head <=> p = Null
                         /\ x = list.tail <=> n = Null
                         /\ p # Null => p \in Queued /\ p # x
                         /\ n # Null => n \in Queued /\ n # x /\ n > x
      /\ x \notin Queued => x # list.head /\ x # list.tail /\ p = Null /\ n = Null
      /\ p \in T0 /\ n \in T0
  <2>1. ASSUME x \in Queued, p # Null PROVE p \in Queued /\ p # x
    BY <2>1, <1>0 DEF QueueLinked, Queued
  <2>2. ASSUME x \in Queued, n # Null PROVE n \in Queued /\ n # x /\ n > x
    BY <2>2, <1>0 DEF QueueLinked, Queued
  <2>3. x \in Queued => (x = list.head <=> p = Null) /\ (x = list.tail <=> n = Null)
    BY DEF QueueLinked
  <2>4. x \notin Queued => x # list.head /\ x # list.tail /\ p = Null /\ n = Null
    BY <1>0 DEF Outside, Queued
  <2>5. p \in T0 /\ n \in T0
    BY DEF TypeInv
  <2>6. QED
    BY <2>1, <2>2, <2>3, <2>4, <2>5
<1>3. /\ list'.head = IF x = list.head THEN n ELSE list.head
      /\ list'.tail = IF x = list.tail /\ x # list.head THEN p ELSE list.tail
      /\ list' \in [head : T0, tail : T0, prev : [Tasks -> T0], next : [Tasks -> T0]]
      /\ \A y \in Tasks :
           /\ list'.prev[y] = IF y = x THEN Null ELSE IF y = n THEN p ELSE list.prev[y]
           /\ list'.next[y] = IF y = x THEN Null ELSE IF y = p THEN n ELSE list.next[y]
  <2> USE DEF TypeInv, T0, Detach, Set
  <2>1. CASE x = list.head
    BY <1>0, <1>2, <2>1 DEF deleteItemNoSync, popNoSync
  <2>2. CASE x # list.head /\ x = list.tail
    BY <1>0, <1>2, <2>2 DEF deleteItemNoSync
  <2>3. CASE x # list.head /\ x # list.tail
    BY <1>0, <1>2, <2>3 DEF deleteItemNoSync
  <2>4. QED
    BY <2>1, <2>2, <2>3
<1>4. Queued \subseteq Tasks /\ \A y \in Queued : y \in Nat
  BY <1>0 DEF Queued
<1>5. CASE x \notin Queued
  <2>1. /\ list'.head = list.head /\ list'.tail = list.tail /\ Queued' = Queued
        /\ \A y \in Tasks : list'.prev[y] = list.prev[y] /\ list'.next[y] = list.next[y]
        /\ list'.prev[x] = Null /\ list'.next[x] = Null
    BY <1>0, <1>1, <1>2, <1>3, <1>5
  <2>2. \A y \in Tasks : y # x => taskStatus'[y] = taskStatus[y]
    BY DEF TypeInv
  <2>3. Outside'
    BY <1>4, <2>1, <2>2 DEF Outside
  <2>4. QueueLinked'
    BY <1>4, <2>1, <2>2 DEF QueueLinked
  <2>5. QED
    BY <1>1, <1>3, <2>3, <2>4
<1>6. CASE x \in Queued
  <2>0. /\ \A y \in Tasks : y # x => taskStatus'[y] = taskStatus[y]
        /\ taskStatus'[x] = "inProgress"
    BY DEF TypeInv
  <2>a. /\ x = list.head <=> p = Null
        /\ x = list.tail <=> n = Null
        /\ p # Null => p \in Queued /\ p # x /\ list.next[p] = x
        /\ n # Null => n \in Queued /\ n # x /\ n > x /\ list.prev[n] = x
    BY <1>2, <1>6 DEF QueueLinked
  <2>b. \A z \in Queued' : z \in Queued /\ z # x /\ z \in Tasks /\ z \in Nat
    BY <1>1, <1>4
  <2>1. list'.head = Null <=> Queued' = {}
    <3>1. ASSUME x = list.head, n = Null PROVE Queued' = {}
      BY <1>1, <1>4, <1>6, <2>a, <3>1 DEF QueueLinked
    <3>2. ASSUME x = list.head, n # Null PROVE n \in Queued'
      BY <1>1, <2>a, <3>2
    <3>3. ASSUME x # list.head PROVE list.head \in Queued' /\ list.head # Null
      BY <1>0, <1>1, <1>4, <1>6, <3>3 DEF QueueLinked
    <3>4. QED
      BY <1>3, <3>1, <3>2, <3>3
  <2>2. \A y \in Tasks : taskStatus'[y] # "notStarted" =>
                           list'.prev[y] = Null /\ list'.next[y] = Null
    <3>1. ASSUME NEW y \in Tasks, taskStatus[y] # "notStarted" PROVE y # n /\ y # p
      BY <1>0, <2>a, <3>1 DEF Queued
    <3>2. QED
      BY <1>3, <2>0, <3>1 DEF QueueLinked
  <2>3. ASSUME NEW z \in Queued' PROVE list'.head \in Queued' /\ list'.head <= z
    BY <1>0, <1>1, <1>2, <1>3, <1>4, <2>3 DEF QueueLinked
  <2>4. ASSUME NEW z \in Queued' PROVE list'.tail \in Queued' /\ z <= list'.tail
    <3>1. CASE x = list.tail /\ x # list.head
      <4>1. p \in Queued /\ p # x /\ list.next[p] = x
        BY <2>a, <3>1
      <4>2. z <= x /\ z # x
        BY <1>6, <2>b, <3>1 DEF QueueLinked
      <4>3. z > p => list.next[p] <= z
        BY <2>b, <4>1 DEF QueueLinked
      <4>4. QED
        BY <1>1, <1>3, <1>4, <1>6, <2>b, <3>1, <4>1, <4>2, <4>3
    <3>2. CASE x = list.tail /\ x = list.head
      BY <1>4, <1>6, <2>b, <3>2 DEF QueueLinked
    <3>3. CASE x # list.tail
      BY <1>1, <1>3, <2>b, <3>3 DEF QueueLinked
    <3>4. QED
      BY <3>1, <3>2, <3>3
  <2>5. ASSUME NEW z \in Queued'
        PROVE  /\ list'.prev[z] = Null <=> z = list'.head
               /\ list'.next[z] = Null <=> z = list'.tail
    BY <1>0, <1>1, <1>2, <1>3, <1>4, <2>5 DEF QueueLinked
  <2>6. ASSUME NEW z \in Queued', list'.prev[z] # Null
        PROVE  list'.prev[z] \in Queued' /\ list'.next[list'.prev[z]] = z
    <3>1. CASE z = n
      <4>1. list'.prev[z] = p /\ p \in Queued /\ p # x /\ p \in Tasks
        BY <1>3, <1>4, <2>a, <2>b, <2>6, <3>1
      <4>2. QED
        BY <1>1, <1>3, <3>1, <4>1
    <3>2. CASE z # n
      <4>1. list'.prev[z] = list.prev[z]
        BY <1>3, <2>b, <3>2
      <4>2. list.prev[z] \in Queued /\ list.next[list.prev[z]] = z
        BY <2>b, <2>6, <4>1 DEF QueueLinked
      <4>3. list.prev[z] # x /\ list.prev[z] \in Tasks
        BY <1>4, <3>2, <4>2
      <4>4. list.prev[z] # p \/ z = x
        BY <1>0, <1>4, <2>a, <4>2
      <4>5. QED
        BY <1>1, <1>3, <2>b, <4>1, <4>2, <4>3, <4>4
    <3>3. QED
      BY <3>1, <3>2
  <2>7. ASSUME NEW z \in Queued', list'.next[z] # Null
        PROVE  /\ list'.next[z] \in Queued' /\ list'.next[z] > z
               /\ list'.prev[list'.next[z]] = z
    <3>1. CASE z = p
      <4>1. list'.next[z] = n /\ n \in Queued /\ n # x /\ n \in Tasks /\ n > x
        BY <1>3, <1>4, <2>a, <2>b, <2>7, <3>1
      <4>2. x > p
        BY <1>0, <2>a, <2>b, <3>1 DEF QueueLinked
      <4>3. n > p
        <5>1. n \in Nat /\ x \in Nat /\ p \in Nat
          BY <1>4, <1>6, <2>b, <3>1, <4>1
        <5>2. QED
          BY <4>1, <4>2, <5>1
      <4>4. list'.prev[n] = p
        BY <1>3, <4>1
      <4>5. QED
        BY <1>1, <3>1, <4>1, <4>3, <4>4
    <3>2. CASE z # p
      <4>1. list'.next[z] = list.next[z]
        BY <1>3, <2>b, <3>2
      <4>2. list.next[z] \in Queued /\ list.next[z] > z /\ list.prev[list.next[z]] = z
        BY <2>b, <2>7, <4>1 DEF QueueLinked
      <4>3. list.next[z] # x /\ list.next[z] \in Tasks
        BY <1>4, <3>2, <4>2
      <4>4. list.next[z] # n \/ z = x
        BY <1>0, <1>4, <2>a, <4>2
      <4>5. QED
        BY <1>1, <1>3, <2>b, <4>1, <4>2, <4>3, <4>4
    <3>3. QED
      BY <3>1, <3>2
  <2>8. ASSUME NEW z \in Queued', NEW y \in Queued', y > z
        PROVE  list'.next[z] # Null /\ list'.next[z] <= y
    <3>0. list.next[z] # Null /\ list.next[z] <= y
      BY <2>b, <2>8 DEF QueueLinked
    <3>1. CASE z = p
      <4>1. list.next[z] = x
        BY <1>0, <2>a, <2>b, <3>1
      <4>2. y > x
        BY <1>4, <1>6, <2>b, <3>0, <4>1
      <4>3. n # Null /\ n <= y
        BY <1>6, <2>b, <4>2 DEF QueueLinked
      <4>4. QED
        BY <1>3, <2>b, <3>1, <4>3
    <3>2. CASE z # p
      BY <1>3, <2>b, <3>0, <3>2
    <3>3. QED
      BY <3>1, <3>2
  <2>9. QueueLinked'
    BY <2>1, <2>2, <2>3, <2>4, <2>5, <2>6, <2>7, <2>8 DEF QueueLinked
  <2>10. Outside'
    <3>1. ASSUME NEW y \in Tasks, y \notin Queued', use[y] # "dropped"
          PROVE  list'.prev[y] = Null /\ list'.next[y] = Null
      <4>1. CASE y = x
        BY <1>3, <4>1
      <4>2. CASE y # x
        <5>1. y \notin Queued
          BY <1>1, <3>1, <4>2
        <5>2. y # n /\ y # p
          BY <1>0, <2>a, <5>1
        <5>3. QED
          BY <1>3, <3>1, <4>2, <5>1, <5>2 DEF Outside
      <4>3. QED
        BY <4>1, <4>2
    <3>2. list'.head \in Queued' \cup {Null}
      BY <2>1, <2>3
    <3>3. list'.tail # Null => use[list'.tail] \in {"put", "group"}
      BY <1>3, <2>a DEF Outside, Queued
    <3>4. \A y \in Tasks : use[y] = "new" => taskStatus'[y] = "notStarted"
      BY <2>0 DEF Outside
    <3>5. QED
      BY <3>1, <3>2, <3>3, <3>4 DEF Outside
  <2>11. QED
    BY <1>1, <1>3, <2>9, <2>10
<1>7. QED
  BY <1>5, <1>6

(* Tasks h..t join the queue at its end: one from put, or a linked group.  *)
LEMMA AppendLinked ==
  ASSUME TypeInv, QueueLinked, Outside, NEW h \in Tasks, NEW t \in Tasks,
         h = made + 1, h <= t, made' = t, taskStatus' = taskStatus,
         \A x \in Tasks : IF x \in h..t THEN use'[x] \in {"put", "group"} ELSE use'[x] = use[x],
         list'.head = IF list.head = Null THEN h ELSE list.head,
         list'.tail = t,
         \A x \in Tasks :
           /\ list'.next[x] = IF x \in h..(t - 1) THEN x + 1
                              ELSE IF x = list.tail /\ list.head # Null THEN h
                              ELSE list.next[x]
           /\ list'.prev[x] = IF x = h
                              THEN IF list.head = Null THEN Null ELSE list.tail
                              ELSE IF x \in h..t THEN x - 1 ELSE list.prev[x]
  PROVE  QueueLinked' /\ Outside' /\ Queued' = Queued \cup (h..t)
<1>0. Null \notin Tasks /\ Tasks \subseteq Nat /\ h \in Nat /\ t \in Nat /\ h..t \subseteq Tasks
  BY PoolAssumption DEF Tasks, Null
<1>1. \A x \in h..t : /\ use[x] = "new" /\ taskStatus[x] = "notStarted" /\ x \notin Queued
                      /\ list.prev[x] = Null /\ list.next[x] = Null
  <2>1. ASSUME NEW x \in h..t PROVE x > made /\ x \in Tasks
    BY <1>0 DEF TypeInv
  <2>2. QED
    BY <2>1 DEF Outside, Queued
<1>2. \A x \in Queued : x \in Tasks /\ x \in Nat /\ x < h /\ x \notin h..t
  <2>1. ASSUME NEW x \in Queued PROVE ~(x > made)
    BY <2>1 DEF Queued, Outside
  <2>2. QED
    BY <1>0, <2>1 DEF Queued, TypeInv
<1>3. Queued' = Queued \cup (h..t)
  BY <1>0, <1>1, <1>2 DEF Queued
<1>4. /\ list.head # Null => list.head \in Queued /\ list.tail \in Queued
      /\ list.head = Null => Queued = {}
  BY DEF QueueLinked, Outside
<1>5. ASSUME NEW x \in Queued, list.head # Null
      PROVE  /\ list'.next[x] = IF x = list.tail THEN h ELSE list.next[x]
             /\ list'.prev[x] = list.prev[x] /\ list'.head <= x /\ x <= list.tail /\ x # h
  BY <1>0, <1>2, <1>5 DEF QueueLinked
<1>6. ASSUME NEW x \in h..t
      PROVE  /\ x # t => list'.next[x] = x + 1 /\ x + 1 \in h..t
             /\ x = t => list'.next[x] = Null
             /\ x # h => list'.prev[x] = x - 1 /\ x - 1 \in h..t
             /\ x = h => list'.prev[x] = IF list.head = Null THEN Null ELSE list.tail
             /\ x \in Tasks /\ x \in Nat
  <2>1. x \in Tasks /\ x \in Nat /\ h <= x /\ x <= t
    BY <1>0
  <2>2. list.head # Null => x # list.tail
    BY <1>2, <1>4
  <2>3. x = t => list'.next[x] = Null
    <3>1. t \notin h..(t - 1)
      BY <1>0
    <3>2. QED
      BY <1>1, <2>2, <3>1
  <2>4. x # t => x \in h..(t - 1) /\ x + 1 \in h..t
    BY <1>0, <2>1
  <2>5. x # h => x - 1 \in h..t
    BY <1>0, <2>1
  <2>6. QED
    BY <2>1, <2>3, <2>4, <2>5
<1>7. QueueLinked'
  <2>0. h \in h..t /\ t \in h..t /\ list'.head # Null
    BY <1>0
  <2>1. list'.head = Null <=> Queued' = {}
    BY <1>3, <2>0
  <2>2. \A y \in Tasks : taskStatus'[y] # "notStarted" =>
                           list'.prev[y] = Null /\ list'.next[y] = Null
    <3>1. ASSUME NEW y \in Tasks, taskStatus[y] # "notStarted"
          PROVE  y \notin h..t /\ y # h /\ (list.head # Null => y # list.tail)
      BY <1>1, <1>4, <2>0, <3>1 DEF Queued
    <3>2. ASSUME NEW y \in Tasks, y \notin h..t PROVE y \notin h..(t - 1)
      BY <1>0, <3>2
    <3>3. QED
      BY <3>1, <3>2 DEF QueueLinked
  <2>3. ASSUME NEW z \in Queued'
        PROVE  list'.head \in Queued' /\ list'.head <= z /\ list'.tail \in Queued' /\ z <= t
    <3>1. CASE z \in Queued
      BY <1>0, <1>2, <1>3, <1>4, <1>5, <2>0, <3>1
    <3>2. CASE z \in h..t
      <4>1. h <= z /\ z <= t /\ z \in Nat
        BY <1>0, <3>2
      <4>2. list.head # Null => list.head \in Queued' /\ list.head < h /\ list.head \in Nat
        BY <1>2, <1>3, <1>4
      <4>3. QED
        BY <1>0, <1>3, <2>0, <4>1, <4>2
    <3>3. QED
      BY <1>3, <2>3, <3>1, <3>2
  <2>4. ASSUME NEW z \in Queued'
        PROVE  /\ list'.prev[z] = Null <=> z = list'.head
               /\ list'.next[z] = Null <=> z = list'.tail
    <3>1. CASE z \in Queued
      <4>1. list.head # Null /\ z # t /\ z # h /\ h # Null
        BY <1>0, <1>2, <1>4, <2>0, <3>1
      <4>2. QED
        BY <1>5, <3>1, <4>1 DEF QueueLinked
    <3>2. CASE z \in h..t
      <4>1. z # h => z - 1 # Null
        BY <1>0, <1>6, <3>2
      <4>2. z # t => z + 1 # Null
        BY <1>0, <1>6, <3>2
      <4>3. list.head # Null => list.tail # Null /\ z # list.head
        BY <1>0, <1>2, <1>4, <3>2
      <4>4. QED
        BY <1>6, <3>2, <4>1, <4>2, <4>3
    <3>3. QED
      BY <1>3, <2>4, <3>1, <3>2
  <2>5. ASSUME NEW z \in Queued', list'.prev[z] # Null
        PROVE  list'.prev[z] \in Queued' /\ list'.next[list'.prev[z]] = z
    <3>1. CASE z \in Queued
      <4>1. list.head # Null /\ list'.prev[z] = list.prev[z]
        BY <1>4, <1>5, <3>1
      <4>2. list.prev[z] \in Queued /\ list.next[list.prev[z]] = z
        BY <2>5, <3>1, <4>1 DEF QueueLinked
      <4>3. list.prev[z] # list.tail
        BY <1>0, <1>2, <3>1, <4>2 DEF QueueLinked
      <4>4. QED
        BY <1>3, <1>5, <4>1, <4>2, <4>3
    <3>2. CASE z = h
      <4>1. list'.prev[z] = list.tail /\ list.head # Null
        BY <1>6, <2>0, <2>5, <3>2
      <4>2. QED
        BY <1>3, <1>4, <1>5, <3>2, <4>1
    <3>3. CASE z \in h..t /\ z # h
      <4>1. list'.prev[z] = z - 1 /\ z - 1 \in h..t /\ z \in Nat
        BY <1>6, <3>3
      <4>2. z - 1 # t
        BY <1>0, <3>3, <4>1
      <4>3. list'.next[z - 1] = (z - 1) + 1
        BY <1>6, <4>1, <4>2
      <4>4. QED
        BY <1>3, <4>1, <4>3
    <3>4. QED
      BY <1>3, <2>5, <3>1, <3>2, <3>3
  <2>6. ASSUME NEW z \in Queued', list'.next[z] # Null
        PROVE  /\ list'.next[z] \in Queued' /\ list'.next[z] > z
               /\ list'.prev[list'.next[z]] = z
    <3>1. CASE z \in Queued /\ z # list.tail
      <4>1. list.head # Null /\ list'.next[z] = list.next[z]
        BY <1>4, <1>5, <3>1
      <4>2. list.next[z] \in Queued /\ list.next[z] > z /\ list.prev[list.next[z]] = z
        BY <2>6, <3>1, <4>1 DEF QueueLinked
      <4>3. QED
        BY <1>3, <1>5, <4>1, <4>2
    <3>2. CASE z \in Queued /\ z = list.tail
      <4>1. list.head # Null /\ list'.next[z] = h /\ z < h
        BY <1>2, <1>4, <1>5, <3>2
      <4>2. QED
        BY <1>0, <1>2, <1>3, <1>6, <2>0, <3>2, <4>1
    <3>3. CASE z \in h..t
      <4>1. z # t /\ list'.next[z] = z + 1 /\ z + 1 \in h..t /\ z \in Nat
        BY <1>6, <2>6, <3>3
      <4>2. z + 1 # h
        BY <1>0, <3>3, <4>1
      <4>3. list'.prev[z + 1] = (z + 1) - 1
        BY <1>6, <4>1, <4>2
      <4>4. QED
        BY <1>3, <4>1, <4>3
    <3>4. QED
      BY <1>3, <2>6, <3>1, <3>2, <3>3
  <2>7. ASSUME NEW z \in Queued', NEW y \in Queued', y > z
        PROVE  list'.next[z] # Null /\ list'.next[z] <= y
    <3>1. CASE z \in Queued /\ y \in Queued
      <4>1. list.head # Null /\ list.next[z] # Null /\ list.next[z] <= y
        BY <1>4, <2>7, <3>1 DEF QueueLinked
      <4>2. z # list.tail
        BY <3>1, <4>1 DEF QueueLinked
      <4>3. QED
        BY <1>5, <3>1, <4>1, <4>2
    <3>2. CASE z \in Queued /\ y \in h..t
      <4>1. list.head # Null /\ y \in Nat /\ h <= y
        BY <1>0, <1>4, <3>2
      <4>2. CASE z = list.tail
        BY <1>0, <1>5, <3>2, <4>1, <4>2
      <4>3. CASE z # list.tail
        <5>1. list.next[z] \in Queued /\ list.next[z] # Null
          BY <1>0, <1>2, <3>2, <4>3 DEF QueueLinked
        <5>2. list.next[z] < h /\ list.next[z] \in Nat
          BY <1>2, <5>1
        <5>3. QED
          BY <1>0, <1>5, <3>2, <4>1, <4>3, <5>1, <5>2
      <4>4. QED
        BY <4>2, <4>3
    <3>3. CASE z \in h..t
      <4>1. y \in h..t /\ z \in Nat /\ y \in Nat /\ y <= t
        BY <1>0, <1>2, <1>3, <2>7, <3>3
      <4>2. z # t
        BY <1>0, <2>7, <3>3, <4>1
      <4>3. QED
        BY <1>0, <1>6, <2>7, <3>3, <4>1, <4>2
    <3>4. QED
      BY <1>3, <2>7, <3>1, <3>2, <3>3
  <2>8. QED
    BY <2>1, <2>2, <2>3, <2>4, <2>5, <2>6, <2>7 DEF QueueLinked
<1>8. Outside'
  <2>1. \A x \in Tasks : use'[x] = "new" <=> x > made'
    <3>1. ASSUME NEW x \in Tasks PROVE x > made <=> x \in h..t \/ x > t
      BY <1>0 DEF TypeInv
    <3>2. ASSUME NEW x \in Tasks PROVE ~(x \in h..t /\ x > t)
      BY <1>0
    <3>3. QED
      BY <3>1, <3>2 DEF Outside
  <2>2. ASSUME NEW x \in Tasks, x \notin Queued', use'[x] # "dropped"
        PROVE  list'.prev[x] = Null /\ list'.next[x] = Null
    <3>1. x \notin Queued /\ x \notin h..t /\ use[x] # "dropped"
      BY <1>3, <2>2
    <3>2. x # h /\ x \notin h..(t - 1) /\ (list.head # Null => x # list.tail)
      BY <1>0, <1>4, <3>1
    <3>3. QED
      BY <3>1, <3>2 DEF Outside
  <2>3. list'.head \in Queued' /\ use'[list'.tail] \in {"put", "group"}
    BY <1>0, <1>3, <1>4
  <2>4. \A x \in Tasks : use'[x] = "new" => taskStatus'[x] = "notStarted"
    BY DEF Outside
  <2>5. QED
    BY <2>1, <2>2, <2>3, <2>4 DEF Outside
<1>9. QED
  BY <1>3, <1>7, <1>8

-----------------------------------------------------------------------------
Busy == {"run", "inline"}

(* A thread takes a task out of the queue: nobody else can have it. *)
LEMMA TakeCore ==
  ASSUME TypeInv, Core, NEW t \in Threads, NEW x \in Tasks, NEW l \in Busy,
         taskStatus[x] = "notStarted", use[x] \in {"put", "refused", "group"},
         Take(t, x, deleteItemNoSync(list, x)), Goto(t, l),
         UNCHANGED <<status, use, made, runs, stopped>>
  PROVE  /\ Core'
         /\ list' \in [head : T0, tail : T0, prev : [Tasks -> T0], next : [Tasks -> T0]]
<1>1. /\ QueueLinked' /\ Outside' /\ Queued' = Queued \ {x}
      /\ list' \in [head : T0, tail : T0, prev : [Tasks -> T0], next : [Tasks -> T0]]
  BY RemoveLinked DEF Core, Take
<1>2. /\ pc'[t] = l /\ \A u \in Threads : u # t => pc'[u] = pc[u] /\ job'[u] = job[u]
      /\ job'[t] = x /\ taskStatus'[x] = "inProgress"
      /\ \A y \in Tasks : y # x => taskStatus'[y] = taskStatus[y]
  BY DEF TypeInv, Take, Goto
<1>3. \A u \in Threads : pc[u] \in Busy => job[u] # x
  BY DEF Core, Jobs, Busy
<1>4. Jobs'
  BY <1>2, <1>3 DEF Core, Jobs, Busy
<1>5. RunsOnce'
  BY <1>2 DEF Core, RunsOnce
<1>6. Finishing' /\ NothingLeftBehind'
  BY <1>1, <1>2 DEF Core, Finishing, NothingLeftBehind, Busy
<1>7. QED
  BY <1>1, <1>4, <1>5, <1>6 DEF Core

(* A thread has run its task; s is what it leaves as the task's status. *)
LEMMA RanCore ==
  ASSUME TypeInv, Core, NEW t \in Threads, pc[t] \in Busy,
         NEW s \in {"inProgress", "done"},
         taskStatus' = [taskStatus EXCEPT ![job[t]] = s],
         runs' = [runs EXCEPT ![job[t]] = @ + 1],
         job' = [job EXCEPT ![t] = Null],
         NEW l, l \notin Busy \cup {"null"}, Goto(t, l),
         UNCHANGED <<status, list, made, use, stopped>>
  PROVE  Core'
<1>1. job[t] \in Tasks /\ taskStatus[job[t]] = "inProgress" /\ runs[job[t]] = 0
  BY DEF Core, Jobs, Busy
<1>2. /\ runs'[job[t]] = 1 /\ taskStatus'[job[t]] = s
      /\ \A y \in Tasks : y # job[t] => taskStatus'[y] = taskStatus[y] /\ runs'[y] = runs[y]
  BY <1>1 DEF TypeInv
<1>3. Queued' = Queued /\ Queued \subseteq Tasks
  BY <1>1, <1>2 DEF Queued
<1>4. QueueLinked'
  BY <1>1, <1>2, <1>3 DEF Core, QueueLinked
<1>5. Outside'
  BY <1>1, <1>2, <1>3 DEF Core, Outside
<1>6. /\ pc'[t] = l /\ job'[t] = Null
      /\ \A u \in Threads : u # t => pc'[u] = pc[u] /\ job'[u] = job[u]
  BY DEF TypeInv, Goto
<1>7. \A u \in Threads : u # t /\ pc[u] \in Busy => job[u] # job[t]
  BY DEF Core, Jobs, Busy
<1>8. Jobs'
  <2>1. ASSUME NEW u \in Threads, pc'[u] \in Busy
        PROVE  u # t /\ job'[u] = job[u] /\ pc[u] \in Busy /\ job[u] # job[t]
    BY <1>6, <1>7, <2>1
  <2>2. QED
    BY <1>1, <1>2, <2>1 DEF Core, Jobs, Busy
<1>9. RunsOnce'
  BY <1>1, <1>2 DEF Core, RunsOnce
<1>10. Finishing' /\ NothingLeftBehind'
  BY <1>3, <1>6 DEF Core, Finishing, NothingLeftBehind
<1>11. QED
  BY <1>4, <1>5, <1>8, <1>9, <1>10 DEF Core

(* A step that moves one thread and at most closes the pool. *)
LEMMA QuietCore ==
  ASSUME TypeInv, Core, UNCHANGED <<tasks, job, runs>>, NEW t \in Threads,
         NEW l, l \notin Busy, pc' = [pc EXCEPT ![t] = l] \/ pc' = pc,
         l = "null" => Queued = {} /\ status # "running",
         \/ UNCHANGED <<status, stopped>>
         \/ status' = "finishing" /\ status = "running" /\ stopped' = stopped
         \/ status' = "stopNow" /\ (stopped' \/ Queued = {})
  PROVE  Core'
<1> USE DEF tasks
<1>1. Queued' = Queued
  BY DEF Queued
<1>2. QueueLinked' /\ Outside' /\ RunsOnce'
  BY <1>1 DEF Core, QueueLinked, Outside, RunsOnce
<1>3. \A u \in Threads : pc'[u] = pc[u] \/ (u = t /\ pc'[u] = l)
  BY DEF TypeInv
<1>4. Jobs'
  BY <1>3 DEF Core, Jobs, Busy
<1>5. Finishing' /\ NothingLeftBehind'
  BY <1>1, <1>3 DEF Core, Finishing, NothingLeftBehind
<1>6. QED
  BY <1>2, <1>4, <1>5 DEF Core

(* New tasks that the pool does not accept leave the queue alone. *)
LEMMA RefuseCore ==
  ASSUME TypeInv, Core, NEW h \in Tasks, NEW t \in Tasks, h = made + 1, h <= t, made' = t,
         UNCHANGED <<status, taskStatus, pc, job, runs, stopped>>,
         \A x \in Tasks : IF x \in h..t THEN use'[x] \in {"refused", "dropped"}
                          ELSE use'[x] = use[x],
         list'.head = list.head, list'.tail = list.tail,
         \A x \in Tasks : (use'[x] # "dropped" \/ x \notin h..t) =>
                            list'.prev[x] = list.prev[x] /\ list'.next[x] = list.next[x]
  PROVE  Core'
<1>0. Null \notin Tasks /\ Tasks \subseteq Nat /\ h..t \subseteq Tasks
  BY PoolAssumption DEF Tasks, Null
<1>1. \A x \in h..t : use[x] = "new" /\ taskStatus[x] = "notStarted" /\ x \notin Queued
                      /\ list.prev[x] = Null /\ list.next[x] = Null
  <2>1. ASSUME NEW x \in h..t PROVE x > made /\ x \in Tasks
    <3>1. x \in Tasks /\ x \in Nat /\ made \in Nat
      BY <1>0 DEF TypeInv
    <3>2. h <= x
      BY <1>0
    <3>3. QED
      BY <3>1, <3>2
  <2>2. QED
    BY <2>1 DEF Core, Outside, Queued
<1>2. Queued' = Queued /\ Queued \subseteq Tasks
  BY <1>0, <1>1 DEF Queued
<1>3. QueueLinked'
  <2>1. \A x \in Queued : list'.prev[x] = list.prev[x] /\ list'.next[x] = list.next[x]
    BY <1>1, <1>2
  <2>2. \A x \in Tasks : taskStatus'[x] # "notStarted" =>
                           list'.prev[x] = list.prev[x] /\ list'.next[x] = list.next[x]
    BY <1>1
  <2>3. QED
    BY <1>2, <2>1, <2>2 DEF Core, QueueLinked
<1>4. Outside'
  <2>1. \A x \in Tasks : use'[x] = "new" <=> x > made'
    <3>1. ASSUME NEW x \in Tasks PROVE x > made <=> x \in h..t \/ x > t
      BY <1>0 DEF TypeInv
    <3>2. ASSUME NEW x \in Tasks PROVE ~(x \in h..t /\ x > t)
      BY <1>0
    <3>3. QED
      BY <3>1, <3>2 DEF Core, Outside
  <2>2. ASSUME NEW x \in Tasks, x \notin Queued', use'[x] # "dropped"
        PROVE  list'.prev[x] = Null /\ list'.next[x] = Null
    BY <1>1, <1>2, <2>2 DEF Core, Outside
  <2>3. list'.tail # Null => use'[list'.tail] \in {"put", "group"}
    <3>1. list.tail \in T0
      BY DEF TypeInv
    <3>2. QED
      BY <1>1, <3>1 DEF Core, Outside, T0
  <2>4. QED
    BY <1>2, <2>1, <2>2, <2>3 DEF Core, Outside
<1>5. Jobs' /\ RunsOnce' /\ Finishing' /\ NothingLeftBehind'
  BY <1>2 DEF Core, Jobs, RunsOnce, Finishing, NothingLeftBehind
<1>6. QED
  BY <1>3, <1>4, <1>5 DEF Core

(* New tasks that the pool accepts: it is running, so nobody has found the *)
(* queue empty for good.                                                   *)
LEMMA AcceptCore ==
  ASSUME TypeInv, Core, QueueLinked', Outside', status = "running",
         UNCHANGED <<status, taskStatus, job, runs, stopped>>, NEW t \in Threads, NEW l,
         l \notin Busy \cup {"null"}, pc' = [pc EXCEPT ![t] = l] \/ pc' = pc
  PROVE  Core'
<1>1. \A u \in Threads : pc'[u] = pc[u] \/ (u = t /\ pc'[u] = l)
  BY DEF TypeInv
<1>2. Jobs' /\ RunsOnce'
  BY <1>1 DEF Core, Jobs, RunsOnce, Busy
<1>3. Finishing' /\ NothingLeftBehind'
  BY <1>1 DEF Core, Finishing, NothingLeftBehind
<1>4. QED
  BY <1>2, <1>3 DEF Core

-----------------------------------------------------------------------------
(* put appends one task, submitAndExecute a group. *)
LEMMA AppendOne ==
  ASSUME TypeInv, QueueLinked, Outside, NEW x \in Tasks, x = made + 1,
         list' = abstractPutNoSync(list, x), made' = x, taskStatus' = taskStatus,
         use' = [use EXCEPT ![x] = "put"]
  PROVE  /\ QueueLinked' /\ Outside'
         /\ list' \in [head : T0, tail : T0, prev : [Tasks -> T0], next : [Tasks -> T0]]
<1>0. Null \notin Tasks /\ Tasks \subseteq Nat /\ x..x = {x} /\ x..(x - 1) = {}
  BY DEF Tasks, Null
<1>1. list.head # Null => list.tail \in Tasks /\ list.tail # x
  <2>1. list.head # Null => list.tail \in Queued
    BY DEF QueueLinked, Outside
  <2>2. x \notin Queued
    BY <1>0 DEF Queued, Outside, TypeInv
  <2>3. QED
    BY <2>1, <2>2 DEF Queued
<1>2. list.next[x] = Null /\ list.prev[x] = Null
  <2>1. x > made
    BY <1>0 DEF TypeInv
  <2>2. QED
    BY <2>1 DEF Outside, Queued
<1>3. /\ list'.head = IF list.head = Null THEN x ELSE list.head
      /\ list'.tail = x
      /\ list' \in [head : T0, tail : T0, prev : [Tasks -> T0], next : [Tasks -> T0]]
      /\ \A y \in Tasks :
           /\ list'.next[y] = IF y = list.tail /\ list.head # Null THEN x ELSE list.next[y]
           /\ list'.prev[y] = IF y = x THEN IF list.head = Null THEN Null ELSE list.tail
                              ELSE list.prev[y]
  <2>1. CASE list.head = Null
    BY <1>0, <1>2, <2>1 DEF TypeInv, T0, abstractPutNoSync
  <2>2. CASE list.head # Null
    BY <1>0, <1>1, <1>2, <2>2 DEF TypeInv, T0, abstractPutNoSync
  <2>3. QED
    BY <2>1, <2>2
<1>4. \A y \in Tasks : IF y \in x..x THEN use'[y] \in {"put", "group"} ELSE use'[y] = use[y]
  BY <1>0 DEF TypeInv
<1>5. x <= x
  BY <1>0
<1>6. \A y \in Tasks :
        /\ list'.next[y] = IF y \in x..(x - 1) THEN y + 1
                           ELSE IF y = list.tail /\ list.head # Null THEN x
                           ELSE list.next[y]
        /\ list'.prev[y] = IF y = x
                           THEN IF list.head = Null THEN Null ELSE list.tail
                           ELSE IF y \in x..x THEN y - 1 ELSE list.prev[y]
  BY <1>0, <1>3
<1>7. QueueLinked' /\ Outside'
  <2> SUFFICES ASSUME NEW h \in Tasks, NEW t \in Tasks, h = x, t = x
               PROVE  QueueLinked' /\ Outside'
    OBVIOUS
  <2>1. /\ h = made + 1 /\ h <= t /\ made' = t /\ taskStatus' = taskStatus
        /\ list'.head = (IF list.head = Null THEN h ELSE list.head) /\ list'.tail = t
    BY <1>3, <1>5
  <2>2. \A y \in Tasks : IF y \in h..t THEN use'[y] \in {"put", "group"} ELSE use'[y] = use[y]
    BY <1>4
  <2>3. \A y \in Tasks :
          /\ list'.next[y] = IF y \in h..(t - 1) THEN y + 1
                             ELSE IF y = list.tail /\ list.head # Null THEN h
                             ELSE list.next[y]
          /\ list'.prev[y] = IF y = h
                             THEN IF list.head = Null THEN Null ELSE list.tail
                             ELSE IF y \in h..t THEN y - 1 ELSE list.prev[y]
    BY <1>6
  <2>4. QueueLinked' /\ Outside' /\ Queued' = Queued \cup (h..t)
    BY ONLY TypeInv, QueueLinked, Outside, <2>1, <2>2, <2>3, AppendLinked
  <2>5. QED
    BY <2>4
<1>8. QED
  BY <1>3, <1>7

(* The links of a group that is not in the queue yet. *)
LEMMA GroupLinked ==
  ASSUME TypeInv, NEW h \in Tasks, NEW t \in Tasks, h <= t,
         NEW m, m = LinkGroup(list, h, t)
  PROVE  /\ m \in [head : T0, tail : T0, prev : [Tasks -> T0], next : [Tasks -> T0]]
         /\ m.head = list.head /\ m.tail = list.tail
         /\ \A x \in Tasks :
              /\ m.next[x] = IF x \in h..(t - 1) THEN x + 1 ELSE list.next[x]
              /\ m.prev[x] = IF x \in h..t /\ x # h THEN x - 1 ELSE list.prev[x]
              /\ x \notin h..t => m.prev[x] = list.prev[x] /\ m.next[x] = list.next[x]
<1>0. Null \notin Tasks /\ Tasks \subseteq Nat /\ h..t \subseteq Tasks
  BY PoolAssumption DEF Tasks, Null
<1>3. ASSUME NEW x \in Tasks
      PROVE  /\ x \in h..(t - 1) => x + 1 \in T0 /\ x \in h..t
             /\ x \in (h + 1)..t <=> x \in h..t /\ x # h
             /\ x \in (h + 1)..t => x - 1 \in T0
  <2>1. h \in Nat /\ t \in Nat /\ x \in Nat /\ \A i \in Nat : h <= i /\ i <= t => i \in T0
    BY <1>0 DEF T0
  <2>2. ASSUME x \in h..(t - 1) PROVE x + 1 \in T0 /\ x \in h..t
    <3>1. h <= x + 1 /\ x + 1 <= t /\ x + 1 \in Nat /\ x \in h..t
      BY <2>1, <2>2
    <3>2. QED
      BY <2>1, <3>1
  <2>3. ASSUME x \in (h + 1)..t PROVE x - 1 \in T0
    <3>1. h <= x - 1 /\ x - 1 <= t /\ x - 1 \in Nat
      BY <2>1, <2>3
    <3>2. QED
      BY <2>1, <3>1
  <2>4. x \in (h + 1)..t <=> x \in h..t /\ x # h
    BY <2>1
  <2>5. QED
    BY <2>2, <2>3, <2>4
<1>t. list \in [head : T0, tail : T0, prev : [Tasks -> T0], next : [Tasks -> T0]]
  BY DEF TypeInv
<1>4. /\ m \in [head : T0, tail : T0, prev : [Tasks -> T0], next : [Tasks -> T0]]
      /\ m.head = list.head /\ m.tail = list.tail
      /\ \A x \in Tasks :
           /\ m.next[x] = IF x \in h..(t - 1) THEN x + 1 ELSE list.next[x]
           /\ m.prev[x] = IF x \in (h + 1)..t THEN x - 1 ELSE list.prev[x]
  <2> DEFINE P == [x \in Tasks |-> IF x \in (h + 1)..t THEN x - 1 ELSE list.prev[x]]
             N == [x \in Tasks |-> IF x \in h..(t - 1) THEN x + 1 ELSE list.next[x]]
  <2>1. m = [list EXCEPT !.next = N, !.prev = P]
    BY DEF LinkGroup
  <2>2. P \in [Tasks -> T0] /\ N \in [Tasks -> T0]
    BY <1>3, <1>t
  <2>3. /\ \A x \in Tasks : N[x] = IF x \in h..(t - 1) THEN x + 1 ELSE list.next[x]
        /\ \A x \in Tasks : P[x] = IF x \in (h + 1)..t THEN x - 1 ELSE list.prev[x]
    OBVIOUS
  <2> HIDE DEF P, N
  <2>4. m \in [head : T0, tail : T0, prev : [Tasks -> T0], next : [Tasks -> T0]]
    BY <1>t, <2>1, <2>2
  <2>5. m.head = list.head /\ m.tail = list.tail /\ m.next = N /\ m.prev = P
    BY <1>t, <2>1
  <2>6. QED
    BY <2>3, <2>4, <2>5
<1>5. QED
  BY <1>3, <1>4

LEMMA AppendGroup ==
  ASSUME TypeInv, QueueLinked, Outside, NEW h \in Tasks, NEW t \in Tasks,
         h = made + 1, h <= t, made' = t, taskStatus' = taskStatus,
         list' = abstractPutGroupNoSync(LinkGroup(list, h, t), h, t),
         \A x \in Tasks : use'[x] = IF x \in h..t THEN "group" ELSE use[x]
  PROVE  /\ QueueLinked' /\ Outside'
         /\ list' \in [head : T0, tail : T0, prev : [Tasks -> T0], next : [Tasks -> T0]]
<1>0. Null \notin Tasks /\ Tasks \subseteq Nat /\ h \in Nat /\ t \in Nat /\ h..t \subseteq Tasks
  BY PoolAssumption DEF Tasks, Null
<1>1. list.head # Null => list.tail \in Tasks /\ list.tail \notin h..t
  <2>1. list.head # Null => list.tail \in Queued
    BY DEF QueueLinked, Outside
  <2>2. \A x \in h..t : x > made /\ x \in Tasks
    BY <1>0 DEF TypeInv
  <2>3. \A x \in h..t : x \notin Queued
    BY <2>2 DEF Queued, Outside
  <2>4. QED
    BY <2>1, <2>3 DEF Queued
<1>2. list.next[h] = Null /\ list.prev[h] = Null
  <2>1. h > made
    BY <1>0 DEF TypeInv
  <2>2. QED
    BY <2>1 DEF Outside, Queued
<1> DEFINE m == LinkGroup(list, h, t)
<1>4. /\ m \in [head : T0, tail : T0, prev : [Tasks -> T0], next : [Tasks -> T0]]
      /\ m.head = list.head /\ m.tail = list.tail
      /\ \A x \in Tasks :
           /\ m.next[x] = IF x \in h..(t - 1) THEN x + 1 ELSE list.next[x]
           /\ m.prev[x] = IF x \in h..t /\ x # h THEN x - 1 ELSE list.prev[x]
  BY GroupLinked
<1> HIDE DEF m
<1>5. /\ list'.head = IF list.head = Null THEN h ELSE list.head
      /\ list'.tail = t
      /\ list' \in [head : T0, tail : T0, prev : [Tasks -> T0], next : [Tasks -> T0]]
      /\ \A x \in Tasks :
           /\ list'.next[x] = IF x = list.tail /\ list.head # Null THEN h ELSE m.next[x]
           /\ list'.prev[x] = IF x = h /\ list.head # Null THEN list.tail ELSE m.prev[x]
  <2>0. /\ m \in [head : T0, tail : T0, prev : [Tasks -> T0], next : [Tasks -> T0]]
        /\ m.head = list.head /\ m.tail = list.tail
    BY <1>4
  <2>1. list' = abstractPutGroupNoSync(m, h, t) /\ h \in T0 /\ t \in T0
    BY DEF m, T0
  <2>2. CASE list.head = Null
    <3>1. list' = [m EXCEPT !.head = h, !.tail = t]
      BY <2>0, <2>1, <2>2 DEF abstractPutGroupNoSync
    <3>2. list' \in [head : T0, tail : T0, prev : [Tasks -> T0], next : [Tasks -> T0]]
      BY <2>0, <2>1, <3>1
    <3>3. list'.head = h /\ list'.tail = t /\ list'.prev = m.prev /\ list'.next = m.next
      BY <2>0, <3>1
    <3>4. QED
      BY <2>2, <3>2, <3>3
  <2>3. CASE list.head # Null
    <3>1. m.tail \in Tasks /\ m.head # Null
      BY <1>1, <2>0, <2>3
    <3>2. list' = [m EXCEPT !.prev[h] = m.tail, !.next[m.tail] = h, !.tail = t]
      BY <2>1, <3>1 DEF abstractPutGroupNoSync
    <3>a. list' = [head |-> m.head, tail |-> t, prev |-> [m.prev EXCEPT ![h] = m.tail],
                   next |-> [m.next EXCEPT ![m.tail] = h]]
      BY <2>0, <3>2
    <3>b. [m.prev EXCEPT ![h] = m.tail] \in [Tasks -> T0]
      BY <2>0
    <3>c. [m.next EXCEPT ![m.tail] = h] \in [Tasks -> T0]
      BY <2>0, <2>1
    <3>3. list' \in [head : T0, tail : T0, prev : [Tasks -> T0], next : [Tasks -> T0]]
      BY <2>0, <2>1, <3>a, <3>b, <3>c
    <3>4. /\ list'.head = m.head /\ list'.tail = t
          /\ list'.prev = [m.prev EXCEPT ![h] = m.tail]
          /\ list'.next = [m.next EXCEPT ![m.tail] = h]
      BY <2>0, <3>2
    <3>5. QED
      BY <2>0, <2>3, <3>1, <3>3, <3>4
  <2>4. QED
    BY <2>2, <2>3
<1>3. h \notin (h + 1)..t /\ \A x \in Tasks : x \in h..(t - 1) => x \in h..t
  BY <1>0
<1>6. \A x \in Tasks :
        /\ list'.next[x] = IF x \in h..(t - 1) THEN x + 1
                           ELSE IF x = list.tail /\ list.head # Null THEN h
                           ELSE list.next[x]
        /\ list'.prev[x] = IF x = h
                           THEN IF list.head = Null THEN Null ELSE list.tail
                           ELSE IF x \in h..t THEN x - 1 ELSE list.prev[x]
  BY <1>1, <1>2, <1>3, <1>4, <1>5
<1>7. \A x \in Tasks : IF x \in h..t THEN use'[x] \in {"put", "group"} ELSE use'[x] = use[x]
  OBVIOUS
<1>8. QueueLinked' /\ Outside'
  BY <1>5, <1>6, <1>7, AppendLinked
<1>9. QED
  BY <1>5, <1>8

(* The head of the list is a task that can be taken. *)
LEMMA HeadQueued ==
  ASSUME TypeInv, Core, list.head # Null
  PROVE  /\ list.head \in Tasks /\ taskStatus[list.head] = "notStarted"
         /\ use[list.head] \in {"put", "refused", "group"}
         /\ popNoSync(list) = deleteItemNoSync(list, list.head)
BY DEF Core, Outside, Queued, deleteItemNoSync

-----------------------------------------------------------------------------
(* The work loop *)
LEMMA LoopInv ==
  ASSUME IInv, NEW t \in Threads, Loop(t)
  PROVE  IInv'
<1> USE DEF IInv
<1>0. t \in Clients => t \notin Workers
  BY PoolAssumption
<1>1. CASE executeWorkLoop(t)
  <2> USE <1>1 DEF executeWorkLoop, Leave, Goto, tasks, conditions, client, history
  <2>1. TypeInv'
    BY DEF TypeInv
  <2>2. Control'
    BY DEF TypeInv, Control, Forcing, Threads
  <2>3. PICK l : l \in {"ended", "join", "pop"} /\ pc' = [pc EXCEPT ![t] = l]
    OBVIOUS
  <2>4. Core'
    BY <2>3, QuietCore DEF Busy
  <2>5. QED
    BY <2>1, <2>2, <2>4
<1>2. CASE pop(t)
  <2> USE <1>2 DEF pop, Goto, conditions, client, history
  <2>1. CASE list.head # Null
    <3>1. Take(t, list.head, deleteItemNoSync(list, list.head)) /\ Goto(t, "run")
      BY <2>1, HeadQueued
    <3>2. /\ Core'
          /\ list' \in [head : T0, tail : T0, prev : [Tasks -> T0], next : [Tasks -> T0]]
      BY <2>1, <3>1, HeadQueued, TakeCore DEF Busy
    <3>3. TypeInv'
      BY <2>1, <3>1, <3>2, HeadQueued DEF TypeInv, Take
    <3>4. Control'
      BY <2>1 DEF TypeInv, Control, Forcing, Threads
    <3>5. QED
      BY <3>2, <3>3, <3>4
  <2>2. CASE list.head = Null
    <3>1. TypeInv'
      BY <2>2 DEF TypeInv
    <3>2. Control'
      BY <2>2 DEF TypeInv, Control, Forcing, Threads
    <3>3. Queued = {}
      BY <2>2 DEF Core, QueueLinked
    <3>4. PICK l : /\ l \in {"sleep", "null"} /\ pc' = [pc EXCEPT ![t] = l]
                   /\ l = "null" => status # "running"
      BY <2>2
    <3>5. Core'
      BY <2>2, <3>3, <3>4, QuietCore DEF Busy, tasks
    <3>6. QED
      BY <3>1, <3>2, <3>5
  <2>3. QED
    BY <2>1, <2>2
<1>3. CASE NoTask(t)
  <2> USE <1>3 DEF NoTask, Leave, Goto, tasks, conditions, client, history
  <2>1. TypeInv'
    BY DEF TypeInv
  <2>2. Control'
    BY DEF TypeInv, Control, Forcing, Threads
  <2>3. PICK l : l \in {"ended", "join", "loop"} /\ pc' = [pc EXCEPT ![t] = l]
    OBVIOUS
  <2>4. Queued = {}
    BY DEF Core, Finishing
  <2>5. Core'
    BY <2>3, <2>4, QuietCore DEF Busy
  <2>6. QED
    BY <2>1, <2>2, <2>5
<1>4. CASE doJob(t)
  <2> USE <1>4 DEF doJob, Goto, conditions, client, history
  <2>0. job[t] \in Tasks
    BY DEF Core, Jobs
  <2>1. TypeInv'
    BY <2>0 DEF TypeInv, T0
  <2>2. Control'
    BY DEF TypeInv, Control, Forcing, Threads
  <2>3. Core'
    BY RanCore DEF Busy
  <2>4. QED
    BY <2>1, <2>2, <2>3
<1>5. CASE notifyWaiters(t)
  <2> USE <1>5 DEF notifyWaiters, Goto, tasks, client, history
  <2>1. TypeInv'
    BY DEF TypeInv
  <2>2. Control'
    BY DEF TypeInv, Control, Forcing, Threads
  <2>3. PICK l : l \in {"check", "loop"} /\ pc' = [pc EXCEPT ![t] = l]
    OBVIOUS
  <2>4. Core'
    BY <2>3, QuietCore DEF Busy
  <2>5. QED
    BY <2>1, <2>2, <2>4
<1>6. QED
  BY <1>1, <1>2, <1>3, <1>4, <1>5 DEF Loop

(* The calls of a client *)
LEMMA PutInv ==
  ASSUME IInv, NEW c \in Clients, NEW x \in Tasks, put(c, x)
  PROVE  IInv'
<1> USE DEF IInv, put, Call, history
<1>0. x \in Nat /\ c \in Threads /\ x..x = {x} /\ x <= x
  BY DEF Tasks, Threads
<1>1. /\ use'[x] = IF status = "running" THEN "put" ELSE "refused"
      /\ \A y \in Tasks : y # x => use'[y] = use[y]
      /\ use[x] = "new"
  <2>1. x > made
    BY <1>0 DEF TypeInv
  <2>2. QED
    BY <2>1 DEF TypeInv, Core, Outside
<1>2. Core' /\ list' \in [head : T0, tail : T0, prev : [Tasks -> T0], next : [Tasks -> T0]]
  <2>1. CASE status = "running"
    <3>1. /\ QueueLinked' /\ Outside'
          /\ list' \in [head : T0, tail : T0, prev : [Tasks -> T0], next : [Tasks -> T0]]
      BY <2>1, AppendOne DEF Core
    <3>2. Core'
      BY <1>0, <2>1, <3>1, AcceptCore DEF Busy
    <3>3. QED
      BY <3>1, <3>2
  <2>2. CASE status # "running"
    <3>1. \A y \in Tasks : IF y \in x..x THEN use'[y] \in {"refused", "dropped"}
                           ELSE use'[y] = use[y]
      BY <1>0, <1>1, <2>2
    <3>2. PICK h \in Tasks : h = x
      OBVIOUS
    <3>3. Core'
      BY <1>0, <2>2, <3>1, <3>2, RefuseCore
    <3>4. QED
      BY <2>2, <3>3 DEF TypeInv
  <2>3. QED
    BY <2>1, <2>2
<1>3. TypeInv'
  BY <1>0, <1>2 DEF TypeInv
<1>4. Control'
  BY <1>1 DEF TypeInv, Control, Forcing
<1>5. QED
  BY <1>2, <1>3, <1>4

LEMMA SubmitInv ==
  ASSUME IInv, NEW c \in Clients, submitAndExecute(c)
  PROVE  IInv'
<1> USE DEF IInv, Call, history
<1> DEFINE k == Cardinality(Workers)
           h == made + 1
           t == made + k
           g == [i \in 1..k |-> made + i]
<1>k. k \in Nat /\ k >= 1
  BY PoolAssumption, FS_CardinalityType, FS_EmptySet
<1> HIDE DEF k
<1>0. /\ h \in Tasks /\ t \in Tasks /\ h <= t /\ h..t \subseteq Tasks /\ c \in Threads
      /\ h \in Nat /\ t \in Nat
  BY <1>k, PoolAssumption DEF submitAndExecute, k, Tasks, Threads, TypeInv
<1>1. /\ made' = t /\ UNCHANGED <<status, taskStatus, waiterCondition, job, forced, todo, runs,
                                   inlined, stopped>>
      /\ \A x \in Tasks : use'[x] = IF x \notin h..t THEN use[x]
                                     ELSE IF status = "running" THEN "group" ELSE "dropped"
      /\ use' \in [Tasks -> {"new", "put", "refused", "group", "dropped"}]
  BY DEF submitAndExecute, k, TypeInv
<1>2. \A x \in h..t : use[x] = "new"
  <2> HIDE DEF t
  <2>1. ASSUME NEW x \in h..t PROVE x > made /\ x \in Tasks
    <3>1. x \in Tasks
      BY <1>0
    <3>2. x \in Nat /\ h <= x /\ made \in Nat
      BY <1>0 DEF TypeInv
    <3>3. QED
      BY <3>1, <3>2
  <2>2. QED
    BY <2>1 DEF Core, Outside
<1>3. ASSUME NEW x \in Tasks, use[x] \in {"put", "refused", "group"} PROVE use'[x] = use[x]
  BY <1>1, <1>2, <1>3
<1>4. CASE status = "running"
  <2>1. /\ list' = abstractPutGroupNoSync(LinkGroup(list, h, t), h, t)
        /\ group' = [group EXCEPT ![c] = g]
        /\ op' = [op EXCEPT ![c] = "parallel"] /\ pc' = [pc EXCEPT ![c] = "direct"]
    BY <1>4 DEF submitAndExecute, k, Perform, Goto
  <2>2. /\ QueueLinked' /\ Outside'
        /\ list' \in [head : T0, tail : T0, prev : [Tasks -> T0], next : [Tasks -> T0]]
    <3>1. \A x \in Tasks : use'[x] = IF x \in h..t THEN "group" ELSE use[x]
      BY <1>1, <1>4
    <3> HIDE DEF h, t
    <3>2. QED
      BY <1>0, <1>1, <2>1, <3>1, AppendGroup DEF Core, h
  <2>3. Core'
    BY <1>0, <1>1, <1>4, <2>1, <2>2, AcceptCore DEF Busy
  <2>4. /\ g \in Seq(Tasks) /\ Len(g) = k /\ g # <<>>
        /\ \A i \in 1..k : g[i] \in h..t
    <3>1. \A i \in 1..k : made + i \in h..t /\ made + i \in Tasks
      BY <1>0, <1>k DEF TypeInv
    <3>2. g \in Seq(Tasks) /\ Len(g) = k
      BY <1>k, <3>1
    <3>3. g # <<>>
      BY <1>k, <3>2
    <3>4. QED
      BY <3>1, <3>2, <3>3
  <2>5. TypeInv'
    <3> HIDE DEF g, h, t
    <3>1. QED
      BY <1>0, <1>1, <2>1, <2>2, <2>4 DEF TypeInv
  <2>6. Control'
    <3>1. \A i \in 1..k : use'[g[i]] = "group"
      BY <1>0, <1>1, <1>4, <2>4
    <3> HIDE DEF g, h, t
    <3> SUFFICES ASSUME NEW d \in Clients
                 PROVE  /\ Forcing(d)' => /\ forced'[d] \in Tasks
                                          /\ use'[forced'[d]] \in {"put", "refused", "group"}
                        /\ pc'[d] \in {"loop", "pop", "sleep", "null"} => op'[d] = "finish"
                        /\ pc'[d] = "steal" => op'[d] = "work"
                        /\ \/ pc'[d] = "direct"
                           \/ pc'[d] \in {"delete", "inline"} /\ op'[d] = "parallel"
                           => group'[d] # <<>>
                        /\ \A i \in 1..Len(group'[d]) : use'[group'[d][i]] = "group"
                        /\ \A i \in 1..Len(todo'[d]) : use'[todo'[d][i]] = "group"
      BY DEF Control
    <3>2. \A i \in 1..Len(todo'[d]) : use'[todo'[d][i]] = "group"
      BY <1>1, <1>3 DEF TypeInv, Control
    <3>3. CASE d = c
      <4>1. group'[d] = g /\ pc'[d] = "direct"
        BY <2>1, <3>3, <1>0 DEF TypeInv
      <4>2. QED
        BY <2>4, <3>1, <3>2, <4>1 DEF Forcing
    <3>4. CASE d # c
      <4>1. group'[d] = group[d] /\ pc'[d] = pc[d] /\ op'[d] = op[d] /\ forced'[d] = forced[d]
        BY <1>1, <2>1, <3>4 DEF TypeInv, Threads
      <4>2. \A i \in 1..Len(group'[d]) : use'[group'[d][i]] = "group"
        <5>1. \A i \in 1..Len(group[d]) : group[d][i] \in Tasks /\ use[group[d][i]] = "group"
          BY DEF TypeInv, Control
        <5>2. QED
          BY <1>3, <4>1, <5>1
      <4>3. QED
        BY <1>3, <3>2, <4>1, <4>2 DEF Control, Forcing
    <3>5. QED
      BY <3>3, <3>4
  <2>7. QED
    BY <2>3, <2>5, <2>6
<1>5. CASE status # "running"
  <2>1. list' = LinkGroup(list, h, t) /\ UNCHANGED <<pc, op, group>>
    BY <1>5 DEF submitAndExecute, k
  <2>2. /\ list'.head = list.head /\ list'.tail = list.tail
        /\ list' \in [head : T0, tail : T0, prev : [Tasks -> T0], next : [Tasks -> T0]]
        /\ \A x \in Tasks : x \notin h..t =>
                            list'.prev[x] = list.prev[x] /\ list'.next[x] = list.next[x]
    <3> HIDE DEF h, t
    <3>1. QED
      BY <1>0, <2>1, GroupLinked DEF TypeInv
  <2>3. \A x \in Tasks : IF x \in h..t THEN use'[x] \in {"refused", "dropped"}
                         ELSE use'[x] = use[x]
    BY <1>1, <1>5
  <2>4. \A x \in Tasks : (use'[x] # "dropped" \/ x \notin h..t) =>
                            list'.prev[x] = list.prev[x] /\ list'.next[x] = list.next[x]
    BY <1>1, <1>5, <2>2
  <2>5. Core'
    <3> HIDE DEF h, t
    <3>1. QED
      BY <1>0, <1>1, <2>1, <2>2, <2>3, <2>4, RefuseCore DEF h
  <2>6. TypeInv'
    <3> HIDE DEF h, t
    <3>1. QED
      BY <1>0, <1>1, <2>1, <2>2 DEF TypeInv
  <2>7. Control'
    BY <1>1, <1>3, <2>1 DEF TypeInv, Control, Forcing
  <2>8. QED
    BY <2>5, <2>6, <2>7
<1>6. QED
  BY <1>4, <1>5

LEMMA CallsInv ==
  ASSUME IInv, NEW c \in Clients, Calls(c)
  PROVE  IInv'
<1> USE DEF IInv
<1>0. c \in Threads
  BY DEF Threads
<1>1. ASSUME NEW x \in Tasks, NEW kind \in {"spin", "yield", "work"}, ForceTask(c, x, kind)
      PROVE  IInv'
  <2> USE <1>1 DEF ForceTask, Call, Perform, Goto, tasks, conditions, history
  <2>1. TypeInv'
    BY DEF TypeInv, T0
  <2>2. Control'
    BY DEF TypeInv, Control, Forcing, Threads
  <2>3. Core'
    BY <1>0, QuietCore DEF Busy
  <2>4. QED
    BY <2>1, <2>2, <2>3
<1>2. CASE stop(c)
  <2> USE <1>2 DEF stop, Call, tasks
  <2>1. TypeInv' /\ Control'
    BY DEF TypeInv, Control, Forcing
  <2>2. "idle" \notin Busy
    BY DEF Busy
  <2>3. Core'
    BY <1>0, <2>2, QuietCore
  <2>4. QED
    BY <2>1, <2>3
<1>3. ASSUME NEW blocking \in BOOLEAN, finish(c, blocking)
      PROVE  IInv'
  <2> USE <1>3 DEF finish, Call, Perform, Goto, tasks, history
  <2>1. TypeInv'
    BY DEF TypeInv
  <2>2. Control'
    BY DEF TypeInv, Control, Forcing, Threads
  <2>3. "loop" \notin Busy
    BY DEF Busy
  <2>4. Core'
    BY <1>0, <2>3, QuietCore
  <2>5. QED
    BY <2>1, <2>2, <2>4
<1>4. QED
  BY <1>1, <1>2, <1>3, PutInv, SubmitInv DEF Calls

-----------------------------------------------------------------------------
(* The next task of a group, and the rest of it. *)
LEMMA NextOfGroup ==
  ASSUME NEW s \in Seq(Tasks), s # <<>>, \A i \in 1..Len(s) : use[s[i]] = "group"
  PROVE  /\ Head(s) \in Tasks /\ use[Head(s)] = "group" /\ Tail(s) \in Seq(Tasks)
         /\ \A i \in 1..Len(Tail(s)) : use[Tail(s)[i]] = "group"
<1>1. Len(s) \in Nat /\ Len(s) # 0 /\ Head(s) = s[1] /\ s[1] \in Tasks
  OBVIOUS
<1>2. Tail(s) \in Seq(Tasks) /\ Len(Tail(s)) = Len(s) - 1
  OBVIOUS
<1>3. ASSUME NEW i \in 1..Len(Tail(s)) PROVE Tail(s)[i] = s[i + 1] /\ i + 1 \in 1..Len(s)
  BY <1>1, <1>2
<1>4. use[s[1]] = "group"
  BY <1>1
<1>5. QED
  BY <1>1, <1>2, <1>3, <1>4

(* A client goes on to a task f, with the rest q of its loop, or ends. *)
LEMMA GoOn ==
  ASSUME TypeInv, Control, NEW c \in Clients, UNCHANGED <<use, op, group>>,
         NEW l \in {"delete", "check", "idle"}, pc' = [pc EXCEPT ![c] = l],
         NEW f \in T0, forced' = [forced EXCEPT ![c] = f],
         l # "idle" => f \in Tasks /\ use[f] \in {"put", "refused", "group"},
         l = "delete" => group[c] # <<>>,
         NEW q \in Seq(Tasks), todo' = [todo EXCEPT ![c] = q],
         \A i \in 1..Len(q) : use[q[i]] = "group"
  PROVE  /\ Control' /\ forced' \in [Clients -> T0] /\ todo' \in [Clients -> Seq(Tasks)]
         /\ pc'[c] = l
<1>1. c \in Threads /\ pc'[c] = l /\ forced'[c] = f /\ todo'[c] = q
  BY DEF TypeInv, Threads
<1>2. ASSUME NEW d \in Clients, d # c
      PROVE  pc'[d] = pc[d] /\ forced'[d] = forced[d] /\ todo'[d] = todo[d]
  BY <1>2 DEF TypeInv, Threads
<1>3. ASSUME NEW d \in Clients
      PROVE  /\ Forcing(d)' => /\ forced'[d] \in Tasks
                               /\ use'[forced'[d]] \in {"put", "refused", "group"}
             /\ pc'[d] \in {"loop", "pop", "sleep", "null"} => op'[d] = "finish"
             /\ pc'[d] = "steal" => op'[d] = "work"
             /\ \/ pc'[d] = "direct"
                \/ pc'[d] \in {"delete", "inline"} /\ op'[d] = "parallel"
                => group'[d] # <<>>
             /\ \A i \in 1..Len(group'[d]) : use'[group'[d][i]] = "group"
             /\ \A i \in 1..Len(todo'[d]) : use'[todo'[d][i]] = "group"
  <2>1. CASE d = c
    BY <1>1, <2>1 DEF Control, Forcing
  <2>2. CASE d # c
    BY <1>2, <2>2 DEF Control, Forcing
  <2>3. QED
    BY <2>1, <2>2
<1>4. Control'
  BY <1>3 DEF Control
<1>5. forced' \in [Clients -> T0] /\ todo' \in [Clients -> Seq(Tasks)]
  BY DEF TypeInv
<1>6. QED
  BY <1>1, <1>4, <1>5

(* After tryDeleteExecute, and at the end of a force. *)
LEMMA TriedControl ==
  ASSUME TypeInv, Control, NEW c \in Clients, UNCHANGED <<use, op, group>>,
         Tried(c), pc[c] \in {"delete", "inline"}
  PROVE  /\ Control' /\ forced' \in [Clients -> T0] /\ todo' \in [Clients -> Seq(Tasks)]
         /\ \E l \in {"delete", "check", "idle"} : pc' = [pc EXCEPT ![c] = l]
<1>1. /\ forced[c] \in Tasks /\ use[forced[c]] \in {"put", "refused", "group"}
      /\ group[c] \in Seq(Tasks) /\ todo[c] \in Seq(Tasks)
      /\ \A i \in 1..Len(group[c]) : use[group[c][i]] = "group"
      /\ \A i \in 1..Len(todo[c]) : use[todo[c][i]] = "group"
  BY DEF TypeInv, Control, Forcing
<1>2. CASE op[c] # "parallel"
  <2>1. pc' = [pc EXCEPT ![c] = "check"]
    BY <1>2 DEF Tried, Goto
  <2>2. forced' = [forced EXCEPT ![c] = forced[c]] /\ todo' = [todo EXCEPT ![c] = todo[c]]
    BY <1>2 DEF Tried, TypeInv
  <2>3. forced[c] \in T0
    BY <1>1 DEF T0
  <2>4. QED
    BY <1>1, <2>1, <2>2, <2>3, GoOn
<1>3. CASE op[c] = "parallel"
  <2>1. group[c] # <<>>
    BY <1>3 DEF Control
  <2> DEFINE s == IF todo[c] = <<>> THEN group[c] ELSE todo[c]
             l == IF todo[c] = <<>> THEN "check" ELSE "delete"
  <2>2. /\ forced' = [forced EXCEPT ![c] = Head(s)] /\ todo' = [todo EXCEPT ![c] = Tail(s)]
        /\ pc' = [pc EXCEPT ![c] = l] /\ l \in {"delete", "check", "idle"}
    BY <1>3 DEF Tried, Goto
  <2>3. s \in Seq(Tasks) /\ s # <<>> /\ \A i \in 1..Len(s) : use[s[i]] = "group"
    BY <1>1, <2>1
  <2> HIDE DEF s, l
  <2>4. /\ Head(s) \in Tasks /\ use[Head(s)] = "group" /\ Tail(s) \in Seq(Tasks)
        /\ \A i \in 1..Len(Tail(s)) : use[Tail(s)[i]] = "group"
    BY <2>3, NextOfGroup
  <2>5. PICK f, q : f = Head(s) /\ q = Tail(s)
    OBVIOUS
  <2>6. f \in T0
    BY <2>4, <2>5 DEF T0
  <2>7. QED
    BY <2>1, <2>2, <2>4, <2>5, <2>6, GoOn
<1>4. QED
  BY <1>2, <1>3

LEMMA ReturnControl ==
  ASSUME TypeInv, Control, NEW c \in Clients, UNCHANGED <<use, op, group>>, Return(c)
  PROVE  /\ Control' /\ forced' \in [Clients -> T0] /\ todo' \in [Clients -> Seq(Tasks)]
         /\ \E l \in {"delete", "check", "idle"} : pc' = [pc EXCEPT ![c] = l]
<1>1. todo[c] \in Seq(Tasks) /\ \A i \in 1..Len(todo[c]) : use[todo[c][i]] = "group"
  BY DEF TypeInv, Control
<1>2. CASE op[c] = "parallel" /\ todo[c] # <<>>
  <2>1. /\ forced' = [forced EXCEPT ![c] = Head(todo[c])]
        /\ todo' = [todo EXCEPT ![c] = Tail(todo[c])] /\ pc' = [pc EXCEPT ![c] = "check"]
    BY <1>2 DEF Return, Goto
  <2>2. PICK s : s = todo[c]
    OBVIOUS
  <2>3. /\ Head(s) \in Tasks /\ use[Head(s)] = "group" /\ Tail(s) \in Seq(Tasks)
        /\ \A i \in 1..Len(Tail(s)) : use[Tail(s)[i]] = "group"
    BY <1>1, <1>2, <2>2, NextOfGroup
  <2>4. PICK f, q : f = Head(s) /\ q = Tail(s)
    OBVIOUS
  <2>5. f \in T0
    BY <2>3, <2>4 DEF T0
  <2>6. QED
    BY <2>1, <2>2, <2>3, <2>4, <2>5, GoOn
<1>3. CASE ~(op[c] = "parallel" /\ todo[c] # <<>>)
  <2>1. forced' = [forced EXCEPT ![c] = Null] /\ pc' = [pc EXCEPT ![c] = "idle"]
    BY <1>3 DEF Return, Goto
  <2>2. todo' = [todo EXCEPT ![c] = todo[c]]
    BY <1>3 DEF Return, TypeInv
  <2>3. Null \in T0
    BY DEF T0
  <2>4. QED
    BY <1>1, <2>1, <2>2, <2>3, GoOn
<1>4. QED
  BY <1>2, <1>3

(* What a client does inside a call, apart from the work loop. *)
LEMMA ProceedInv ==
  ASSUME IInv, NEW c \in Clients, Proceed(c)
  PROVE  IInv'
<1> USE DEF IInv
<1>0. c \in Threads
  BY DEF Threads
<1>b. /\ {"delete", "check", "idle"} \cap Busy = {} /\ "null" \notin {"delete", "check", "idle"}
      /\ "waiting" \notin Busy /\ "steal" \notin Busy
  BY DEF Busy
<1>r. ASSUME Return(c), UNCHANGED <<status, tasks, job, op, group, history>>
      PROVE  IInv'
  <2> USE <1>r DEF tasks, history
  <2>1. /\ Control' /\ forced' \in [Clients -> T0] /\ todo' \in [Clients -> Seq(Tasks)]
        /\ \E l \in {"delete", "check", "idle"} : pc' = [pc EXCEPT ![c] = l]
    BY ReturnControl
  <2>2. PICK l \in {"delete", "check", "idle"} : pc' = [pc EXCEPT ![c] = l]
    BY <2>1
  <2>3. TypeInv'
    BY <1>0, <2>1, <2>2 DEF TypeInv
  <2>4. Core'
    BY <1>0, <1>b, <2>2, QuietCore
  <2>5. QED
    BY <2>1, <2>3, <2>4
<1>1. CASE Loop(c)
  BY <1>0, <1>1, LoopInv
<1>2. CASE join(c)
  <2> USE <1>2 DEF join, Goto, tasks, client, history
  <2>1. TypeInv' /\ Control'
    BY DEF TypeInv, Control, Forcing, Threads
  <2>2. Core'
    BY <1>0, <1>b, QuietCore
  <2>3. QED
    BY <2>1, <2>2
<1>3. CASE DirectJob(c)
  <2> USE <1>3 DEF DirectJob, Goto, tasks, history
  <2>1. PICK s : s = group[c]
    OBVIOUS
  <2>2. s \in Seq(Tasks) /\ s # <<>> /\ \A i \in 1..Len(s) : use[s[i]] = "group"
    BY <2>1 DEF TypeInv, Control
  <2>3. /\ Head(s) \in Tasks /\ use[Head(s)] = "group" /\ Tail(s) \in Seq(Tasks)
        /\ \A i \in 1..Len(Tail(s)) : use[Tail(s)[i]] = "group"
    BY <2>2, NextOfGroup
  <2>4. PICK f, q : f = Head(s) /\ q = Tail(s) /\ f \in T0
    BY <2>3 DEF T0
  <2>5. /\ Control' /\ forced' \in [Clients -> T0] /\ todo' \in [Clients -> Seq(Tasks)]
    BY <2>1, <2>2, <2>3, <2>4, GoOn
  <2>6. TypeInv'
    BY <1>0, <2>5 DEF TypeInv
  <2>7. Core'
    BY <1>0, <1>b, QuietCore
  <2>8. QED
    BY <2>5, <2>6, <2>7
<1>4. CASE tryDeleteExecute(c)
  <2> USE <1>4 DEF tryDeleteExecute
  <2>1. CASE taskStatus[forced[c]] = "notStarted"
    <3>1. /\ forced[c] \in Tasks /\ use[forced[c]] \in {"put", "refused", "group"}
      BY DEF Control, Forcing
    <3>2. PICK x \in Tasks : x = forced[c]
      BY <3>1
    <3>3. /\ Take(c, x, deleteItemNoSync(list, x)) /\ Goto(c, "inline")
          /\ UNCHANGED <<status, use, made, runs, stopped, forced, todo, op, group>>
      BY <2>1, <3>2
    <3>4. /\ Core'
          /\ list' \in [head : T0, tail : T0, prev : [Tasks -> T0], next : [Tasks -> T0]]
      BY <1>0, <2>1, <3>1, <3>2, <3>3, TakeCore DEF Busy
    <3>5. TypeInv'
      BY <1>0, <3>3, <3>4 DEF TypeInv, Take, Goto, T0
    <3>6. Control'
      BY <3>1, <3>3 DEF TypeInv, Control, Forcing, Goto, Threads
    <3>7. QED
      BY <3>4, <3>5, <3>6
  <2>2. CASE taskStatus[forced[c]] # "notStarted"
    <3>1. Tried(c) /\ UNCHANGED <<status, tasks, job, op, group, runs, stopped>>
      BY <2>2 DEF tasks
    <3>2. /\ Control' /\ forced' \in [Clients -> T0] /\ todo' \in [Clients -> Seq(Tasks)]
          /\ \E l \in {"delete", "check", "idle"} : pc' = [pc EXCEPT ![c] = l]
      BY <3>1, TriedControl DEF tasks
    <3>3. PICK l \in {"delete", "check", "idle"} : pc' = [pc EXCEPT ![c] = l]
      BY <3>2
    <3>4. TypeInv'
      BY <1>0, <3>1, <3>2, <3>3 DEF TypeInv, tasks
    <3>5. Core'
      BY <1>0, <1>b, <3>1, <3>3, QuietCore
    <3>6. QED
      BY <3>2, <3>4, <3>5
  <2>3. QED
    BY <2>1, <2>2
<1>5. CASE InlineJob(c)
  <2> USE <1>5 DEF InlineJob
  <2>0. job[c] \in Tasks
    BY <1>0 DEF Core, Jobs
  <2>1. /\ Control' /\ forced' \in [Clients -> T0] /\ todo' \in [Clients -> Seq(Tasks)]
        /\ \E l \in {"delete", "check", "idle"} : pc' = [pc EXCEPT ![c] = l]
    BY TriedControl
  <2>2. PICK l \in {"delete", "check", "idle"} : pc' = [pc EXCEPT ![c] = l]
    BY <2>1
  <2>3. TypeInv'
    BY <1>0, <2>0, <2>1, <2>2 DEF TypeInv, T0
  <2>4. Core'
    BY <1>0, <1>b, <2>2, RanCore DEF Busy, Goto
  <2>5. QED
    BY <2>1, <2>3, <2>4
<1>6. CASE InlineJobThrowsError(c)
  <2> USE <1>6 DEF InlineJobThrowsError, Goto, tasks, client
  <2>0. job[c] \in Tasks /\ taskStatus[job[c]] = "inProgress"
    BY <1>0 DEF Core, Jobs
  <2>1. TypeInv'
    BY <1>0, <2>0 DEF TypeInv, T0
  <2>2. Control'
    BY DEF TypeInv, Control, Forcing, Threads
  <2>3. taskStatus' = [taskStatus EXCEPT ![job[c]] = "inProgress"]
    BY <2>0 DEF TypeInv
  <2>4. Core'
    BY <1>0, <1>b, <2>3, RanCore DEF Busy
  <2>5. QED
    BY <2>1, <2>2, <2>4
<1>7. CASE spinForce(c)
  BY <1>7, <1>r DEF spinForce
<1>8. CASE yieldForce(c)
  <2>1. CASE Done(c)
    BY <1>8, <1>r, <2>1 DEF yieldForce
  <2>2. CASE ~Done(c)
    <3> USE <1>8, <2>2 DEF yieldForce, Goto, tasks, history
    <3>1. TypeInv'
      BY <1>0 DEF TypeInv
    <3>2. Control'
      BY DEF TypeInv, Control, Forcing, Threads
    <3>3. Core'
      BY <1>0, <1>b, QuietCore
    <3>4. QED
      BY <3>1, <3>2, <3>3
  <2>3. QED
    BY <2>1, <2>2
<1>9. CASE workForce(c)
  <2>1. CASE Done(c)
    BY <1>9, <1>r, <2>1 DEF workForce
  <2>2. CASE ~Done(c)
    <3> USE <1>9, <2>2 DEF workForce, Goto, tasks, history
    <3>1. TypeInv'
      BY <1>0 DEF TypeInv
    <3>2. Control'
      BY DEF TypeInv, Control, Forcing, Threads
    <3>3. Core'
      BY <1>0, <1>b, QuietCore
    <3>4. QED
      BY <3>1, <3>2, <3>3
  <2>3. QED
    BY <2>1, <2>2
<1>10. CASE workForcePop(c)
  <2> USE <1>10 DEF workForcePop, history
  <2>1. CASE list.head # Null
    <3>1. Take(c, list.head, deleteItemNoSync(list, list.head)) /\ Goto(c, "run")
      BY <2>1, HeadQueued
    <3>2. /\ Core'
          /\ list' \in [head : T0, tail : T0, prev : [Tasks -> T0], next : [Tasks -> T0]]
      BY <1>0, <2>1, <3>1, HeadQueued, TakeCore DEF Busy
    <3>3. TypeInv'
      BY <1>0, <2>1, <3>1, <3>2, HeadQueued DEF TypeInv, Take, Goto
    <3>4. Control'
      BY <2>1, <3>1 DEF TypeInv, Control, Forcing, Threads, Goto
    <3>5. QED
      BY <3>2, <3>3, <3>4
  <2>2. CASE list.head = Null
    <3> USE <2>2 DEF Goto, tasks
    <3>1. TypeInv'
      BY <1>0 DEF TypeInv
    <3>2. Control'
      BY DEF TypeInv, Control, Forcing, Threads
    <3>3. Core'
      BY <1>0, <1>b, QuietCore
    <3>4. QED
      BY <3>1, <3>2, <3>3
  <2>3. QED
    BY <2>1, <2>2
<1>11. QED
  BY <1>1, <1>2, <1>3, <1>4, <1>5, <1>6, <1>7, <1>8, <1>9, <1>10 DEF Proceed

-----------------------------------------------------------------------------
LEMMA InitIInv == Init => IInv
<1> SUFFICES ASSUME Init PROVE IInv
  OBVIOUS
<1> USE DEF Init
<1>0. Null \notin Tasks /\ Null \in T0 /\ \A x \in Tasks : x > 0
  BY DEF Tasks, Null, T0
<1>1. TypeInv
  BY <1>0 DEF TypeInv, T0
<1>2. Queued = {}
  BY DEF Queued
<1>3. Control
  <2>1. \A c \in Clients : pc[c] = "idle" /\ group[c] = <<>> /\ todo[c] = <<>>
    BY PoolAssumption DEF Threads
  <2>2. \A c \in Clients : 1..Len(group[c]) = {} /\ 1..Len(todo[c]) = {} /\ ~Forcing(c)
    BY <2>1 DEF Forcing
  <2>3. QED
    BY <2>1, <2>2 DEF Control
<1>4. Core
  BY <1>0, <1>2 DEF Core, QueueLinked, Outside, Jobs, RunsOnce, Finishing, NothingLeftBehind
<1>5. QED
  BY <1>1, <1>3, <1>4 DEF IInv

(* A step that changes nothing of these, such as a spurious wake-up. *)
LEMMA StutterIInv ==
  ASSUME IInv, UNCHANGED <<status, tasks, pc, job, client, history>>
  PROVE  IInv'
<1> USE DEF tasks, client, history
<1>1. Queued' = Queued
  BY DEF Queued
<1>2. TypeInv' /\ Control'
  BY DEF IInv, TypeInv, Control, Forcing
<1>3. Core'
  BY <1>1 DEF IInv, Core, QueueLinked, Outside, Jobs, RunsOnce, Finishing, NothingLeftBehind
<1>4. QED
  BY <1>2, <1>3 DEF IInv

LEMMA NextIInv == IInv /\ [Next]_vars => IInv'
<1> SUFFICES ASSUME IInv, [Next]_vars PROVE IInv'
  OBVIOUS
<1>1. ASSUME NEW w \in Workers, Loop(w) PROVE IInv'
  BY <1>1, LoopInv DEF Threads
<1>2. ASSUME NEW c \in Clients, Calls(c) \/ Proceed(c) PROVE IInv'
  BY <1>2, CallsInv, ProceedInv
<1>3. ASSUME NEW t \in Threads, SpuriousWakeup(t) PROVE IInv'
  BY <1>3, StutterIInv DEF SpuriousWakeup
<1>4. CASE UNCHANGED vars
  BY <1>4, StutterIInv DEF vars
<1>5. QED
  BY <1>1, <1>2, <1>3, <1>4 DEF Next

LEMMA IInvHolds == Spec => []IInv
BY InitIInv, NextIInv, PTL DEF Spec

(* However workers, forcing clients and a finish take tasks from its head, *)
(* its tail and its middle, the list of the pool stays well linked, in the *)
(* order of the puts, and holds exactly the tasks nobody has taken.        *)
THEOREM QueueLinkedHolds == Spec => []QueueLinked
<1>1. IInv => QueueLinked
  BY DEF IInv, Core
<1>2. QED
  BY <1>1, IInvHolds, PTL

(* A task is executed at most once, by whoever took it, and its status is  *)
(* done only after that.                                                   *)
THEOREM RunsOnceHolds == Spec => []RunsOnce
<1>1. IInv => RunsOnce
  BY DEF IInv, Core
<1>2. QED
  BY <1>1, IInvHolds, PTL

(* Unless stop was called, the pool only stops with an empty queue: finish *)
(* strands no task that put accepted.                                      *)
THEOREM NothingLeftBehindHolds == Spec => []NothingLeftBehind
<1>1. IInv => NothingLeftBehind
  BY DEF IInv, Core
<1>2. QED
  BY <1>1, IInvHolds, PTL

-----------------------------------------------------------------------------
(* A task in progress is with a thread that runs it, or a client has taken *)
(* it out of the queue.                                                    *)
InHands ==
  \A x \in Tasks :
    taskStatus[x] = "inProgress" =>
      inlined[x] # Null \/ \E u \in Threads : pc[u] = "run" /\ job[u] = x

(* The work loop is left only for good. *)
Left == \A t \in Threads : pc[t] \in {"ended", "join"} => status = "stopNow"

FinishInv == inlined \in [Tasks -> Clients \cup {Null}] /\ InHands /\ Left

(* A step that starts and ends no task moves at most one thread, which     *)
(* executes none.                                                          *)
LEMMA QuietHands ==
  ASSUME TypeInv, FinishInv, UNCHANGED <<taskStatus, job, inlined>>,
         NEW t \in Threads, pc[t] # "run", NEW l, pc' = [pc EXCEPT ![t] = l] \/ pc' = pc,
         status' # status => status # "stopNow",
         l \in {"ended", "join"} => status' = "stopNow"
  PROVE  FinishInv'
<1>1. \A u \in Threads : pc'[u] = pc[u] \/ (u = t /\ pc'[u] = l)
  BY DEF TypeInv
<1>2. \A u \in Threads : pc[u] = "run" => pc'[u] = "run"
  BY DEF TypeInv
<1>3. InHands'
  BY <1>2 DEF FinishInv, InHands
<1>4. Left'
  BY <1>1 DEF FinishInv, Left
<1>5. QED
  BY <1>3, <1>4 DEF FinishInv

(* The thread that takes a task has it in its hands. *)
LEMMA TakenInHands ==
  ASSUME TypeInv, FinishInv, NEW t \in Threads, NEW x \in Tasks, NEW l \in {"run", "inline"},
         pc[t] # "run", pc' = [pc EXCEPT ![t] = l],
         taskStatus' = [taskStatus EXCEPT ![x] = "inProgress"],
         job' = [job EXCEPT ![t] = x], status' = status,
         \/ l = "run" /\ inlined' = inlined
         \/ t \in Clients /\ inlined' = [inlined EXCEPT ![x] = t]
  PROVE  FinishInv'
<1>1. \A u \in Threads : pc[u] = "run" => u # t /\ pc'[u] = "run" /\ job'[u] = job[u]
  BY DEF TypeInv
<1>2. inlined' \in [Tasks -> Clients \cup {Null}]
  BY DEF FinishInv
<1>3. \A y \in Tasks : inlined[y] # Null => inlined'[y] # Null
  BY PoolAssumption DEF FinishInv, Threads
<1>4. inlined'[x] # Null \/ (pc'[t] = "run" /\ job'[t] = x)
  BY PoolAssumption DEF TypeInv, FinishInv, Threads
<1>5. InHands'
  BY <1>1, <1>3, <1>4 DEF TypeInv, FinishInv, InHands
<1>6. Left'
  BY DEF TypeInv, FinishInv, Left
<1>7. QED
  BY <1>2, <1>5, <1>6 DEF FinishInv

(* A task that is done is in nobody's hands. *)
LEMMA DoneLeavesHands ==
  ASSUME TypeInv, FinishInv, NEW t \in Threads, job[t] \in Tasks, NEW l,
         l \notin {"ended", "join"}, pc' = [pc EXCEPT ![t] = l],
         taskStatus' = [taskStatus EXCEPT ![job[t]] = "done"],
         job' = [job EXCEPT ![t] = Null], UNCHANGED <<status, inlined>>
  PROVE  FinishInv'
<1>1. \A u \in Threads : u # t => pc'[u] = pc[u] /\ job'[u] = job[u]
  BY DEF TypeInv
<1>2. \A x \in Tasks : taskStatus'[x] = "inProgress" =>
                         taskStatus[x] = "inProgress" /\ x # job[t]
  BY DEF TypeInv
<1>3. InHands'
  BY <1>1, <1>2 DEF FinishInv, InHands
<1>4. Left'
  BY DEF TypeInv, FinishInv, Left
<1>5. QED
  BY <1>3, <1>4 DEF FinishInv

LEMMA NextFinishInv == IInv /\ FinishInv /\ [Next]_vars => FinishInv'
<1> SUFFICES ASSUME IInv, FinishInv, [Next]_vars PROVE FinishInv'
  OBVIOUS
<1>0. TypeInv /\ Core /\ Control
  BY DEF IInv
<1>c. \A c \in Clients : c \in Threads
  BY DEF Threads
<1> USE DEF tasks, client, history, conditions, Goto
<1>1. ASSUME NEW t \in Threads, Loop(t) PROVE FinishInv'
  <2>1. CASE executeWorkLoop(t) \/ NoTask(t)
    <3>1. PICK l : pc' = [pc EXCEPT ![t] = l] /\ (l \in {"ended", "join"} => status' = "stopNow")
      BY <2>1 DEF executeWorkLoop, NoTask, Leave
    <3>2. UNCHANGED <<taskStatus, job, inlined>> /\ pc[t] # "run"
          /\ (status' # status => status # "stopNow")
      BY <2>1 DEF executeWorkLoop, NoTask, Leave
    <3>3. QED
      BY <1>0, <3>1, <3>2, QuietHands
  <2>2. CASE pop(t) /\ list.head # Null
    <3>1. PICK x \in Tasks : x = list.head
      BY <1>0, <2>2, HeadQueued
    <3>2. /\ pc[t] # "run" /\ pc' = [pc EXCEPT ![t] = "run"]
          /\ taskStatus' = [taskStatus EXCEPT ![x] = "inProgress"]
          /\ job' = [job EXCEPT ![t] = x] /\ UNCHANGED <<status, inlined>>
      BY <2>2, <3>1 DEF pop, Take
    <3>3. QED
      BY <1>0, <3>2, TakenInHands
  <2>3. CASE pop(t) /\ list.head = Null
    <3>1. PICK l \in {"sleep", "null"} : pc' = [pc EXCEPT ![t] = l]
      BY <2>3 DEF pop
    <3>2. UNCHANGED <<taskStatus, job, inlined, status>> /\ pc[t] # "run"
      BY <2>3 DEF pop
    <3>3. QED
      BY <1>0, <3>1, <3>2, QuietHands
  <2>4. CASE doJob(t)
    BY <1>0, <2>4, DoneLeavesHands DEF doJob, Core, Jobs
  <2>5. CASE notifyWaiters(t)
    <3>1. PICK l \in {"check", "loop"} : pc' = [pc EXCEPT ![t] = l]
      BY <2>5 DEF notifyWaiters
    <3>2. UNCHANGED <<taskStatus, job, inlined, status>> /\ pc[t] # "run"
      BY <2>5 DEF notifyWaiters
    <3>3. QED
      BY <1>0, <3>1, <3>2, QuietHands
  <2>6. QED
    BY <1>1, <2>1, <2>2, <2>3, <2>4, <2>5 DEF Loop
<1>2. ASSUME NEW c \in Clients, Calls(c) PROVE FinishInv'
  <2>1. UNCHANGED <<taskStatus, job, inlined>> /\ pc[c] # "run"
        /\ (status' # status => status # "stopNow")
    BY <1>2 DEF Calls, put, ForceTask, submitAndExecute, stop, finish, Call
  <2>2. pc' = pc \/ \E l \in {"delete", "direct", "loop"} : pc' = [pc EXCEPT ![c] = l]
    BY <1>2 DEF Calls, put, ForceTask, submitAndExecute, stop, finish, Call, Perform
  <2>3. CASE pc' = pc
    <3>1. "idle" \notin {"ended", "join"}
      OBVIOUS
    <3>2. QED
      BY <1>0, <1>c, <2>1, <2>3, <3>1, QuietHands
  <2>4. CASE \E l \in {"delete", "direct", "loop"} : pc' = [pc EXCEPT ![c] = l]
    <3>1. PICK l \in {"delete", "direct", "loop"} : pc' = [pc EXCEPT ![c] = l]
      BY <2>4
    <3>2. QED
      BY <1>0, <1>c, <2>1, <3>1, QuietHands
  <2>5. QED
    BY <2>2, <2>3, <2>4
<1>3. ASSUME NEW c \in Clients, Proceed(c), ~Loop(c) PROVE FinishInv'
  <2>1. CASE tryDeleteExecute(c) /\ taskStatus[forced[c]] = "notStarted"
    <3>1. PICK x \in Tasks : x = forced[c]
      BY <1>0, <2>1 DEF tryDeleteExecute, Control, Forcing
    <3>2. /\ pc[c] # "run" /\ pc' = [pc EXCEPT ![c] = "inline"]
          /\ taskStatus' = [taskStatus EXCEPT ![x] = "inProgress"]
          /\ job' = [job EXCEPT ![c] = x] /\ status' = status
          /\ inlined' = [inlined EXCEPT ![x] = c]
      BY <2>1, <3>1 DEF tryDeleteExecute, Take
    <3>3. QED
      BY <1>0, <1>c, <3>2, TakenInHands
  <2>2. CASE workForcePop(c) /\ list.head # Null
    <3>1. PICK x \in Tasks : x = list.head
      BY <1>0, <2>2, HeadQueued
    <3>2. /\ pc[c] # "run" /\ pc' = [pc EXCEPT ![c] = "run"]
          /\ taskStatus' = [taskStatus EXCEPT ![x] = "inProgress"]
          /\ job' = [job EXCEPT ![c] = x] /\ UNCHANGED <<status, inlined>>
      BY <2>2, <3>1 DEF workForcePop, Take
    <3>3. QED
      BY <1>0, <1>c, <3>2, TakenInHands
  <2>3. CASE InlineJob(c)
    <3>1. PICK l \in {"check", "delete"} : pc' = [pc EXCEPT ![c] = l]
      BY <2>3 DEF InlineJob, Tried
    <3>2. job[c] \in Tasks
      BY <1>0, <1>c, <2>3 DEF InlineJob, Core, Jobs
    <3>3. QED
      BY <1>0, <1>c, <2>3, <3>1, <3>2, DoneLeavesHands DEF InlineJob
  <2>4. CASE InlineJobThrowsError(c)
    <3>1. /\ pc' = [pc EXCEPT ![c] = "idle"] /\ job' = [job EXCEPT ![c] = Null]
          /\ pc[c] = "inline" /\ UNCHANGED <<taskStatus, inlined, status>>
      BY <2>4 DEF InlineJobThrowsError
    <3>2. \A u \in Threads : pc[u] = "run" => pc'[u] = "run" /\ job'[u] = job[u]
      BY <1>0, <3>1 DEF TypeInv
    <3>3. InHands' /\ Left'
      BY <1>0, <1>c, <3>1, <3>2 DEF TypeInv, FinishInv, InHands, Left
    <3>4. QED
      BY <3>1, <3>3 DEF FinishInv
  <2>5. CASE \/ join(c) \/ DirectJob(c) \/ spinForce(c) \/ yieldForce(c) \/ workForce(c)
             \/ tryDeleteExecute(c) /\ taskStatus[forced[c]] # "notStarted"
             \/ workForcePop(c) /\ list.head = Null
    <3>1. UNCHANGED <<taskStatus, job, inlined, status>> /\ pc[c] # "run"
      BY <2>5 DEF join, DirectJob, spinForce, yieldForce, workForce, tryDeleteExecute,
                  workForcePop
    <3>2. PICK l \in {"idle", "delete", "check", "waiting", "steal"} : pc' = [pc EXCEPT ![c] = l]
      BY <2>5 DEF join, DirectJob, spinForce, yieldForce, workForce, tryDeleteExecute,
                  workForcePop, Return, Tried
    <3>3. QED
      BY <1>0, <1>c, <3>1, <3>2, QuietHands
  <2>6. QED
    BY <1>3, <2>1, <2>2, <2>3, <2>4, <2>5 DEF Proceed
<1>4. CASE UNCHANGED <<status, tasks, pc, job, history>>
  BY <1>4 DEF FinishInv, InHands, Left
<1>5. QED
  BY <1>c, <1>1, <1>2, <1>3, <1>4 DEF Next, Proceed, Threads, vars, SpuriousWakeup

LEMMA FinishInvHolds == Spec => []FinishInv
<1>1. Init => FinishInv
  BY PoolAssumption DEF Init, FinishInv, InHands, Left, Threads
<1>2. QED
  BY <1>1, NextFinishInv, IInvHolds, PTL DEF Spec

(* finish(true) returns, unless stop was called, only when the workers     *)
(* have ended and every accepted task is done or with a client that forces *)
(* it: the queue is empty since the pool stopped, and the tasks in         *)
(* progress are in the hands of threads that have not ended.               *)
THEOREM FinishIsCompleteHolds == Spec => FinishIsComplete
<1> DEFINE Complete ==
      \A c \in Clients :
        pc[c] = "join" /\ pc'[c] = "idle" /\ ~stopped =>
          /\ \A w \in Workers : pc[w] = "ended"
          /\ \A t \in Tasks : use[t] = "put" => taskStatus[t] = "done" \/ WithClient(t)
<1>1. IInv /\ FinishInv /\ [Next]_vars => [Complete]_vars
  <2> SUFFICES ASSUME IInv, FinishInv, Next, NEW c \in Clients,
                      pc[c] = "join", pc'[c] = "idle", ~stopped
               PROVE  /\ \A w \in Workers : pc[w] = "ended"
                      /\ \A t \in Tasks : use[t] = "put" => taskStatus[t] = "done" \/ WithClient(t)
    OBVIOUS
  <2>0. TypeInv /\ Core /\ c \in Threads
    BY DEF IInv, Threads
  <2>1. join(c)
    <3>1. ASSUME NEW t \in Threads, Loop(t) PROVE FALSE
      BY <2>0, <3>1 DEF TypeInv, Loop, executeWorkLoop, pop, NoTask, doJob, notifyWaiters, Leave,
                        Goto
    <3>2. ASSUME NEW d \in Clients, Calls(d) PROVE FALSE
      BY <2>0, <3>2 DEF TypeInv, Calls, put, ForceTask, submitAndExecute, stop, finish, Call,
                        Perform, Goto
    <3>3. ASSUME NEW d \in Clients, Proceed(d), ~Loop(d) PROVE join(c)
      BY <2>0, <3>3 DEF TypeInv, Proceed, join, DirectJob, spinForce, yieldForce, workForce,
                        tryDeleteExecute, workForcePop, Return, Tried, InlineJob,
                        InlineJobThrowsError, Goto
    <3>4. ASSUME NEW t \in Threads, SpuriousWakeup(t) PROVE FALSE
      BY <3>4 DEF SpuriousWakeup
    <3>5. QED
      BY <3>1, <3>2, <3>3, <3>4 DEF Next, Threads
  <2>2. \A w \in Workers : pc[w] = "ended"
    BY <2>1 DEF join
  <2>3. Queued = {}
    BY <2>0 DEF FinishInv, Left, Core, NothingLeftBehind
  <2>4. ASSUME NEW t \in Tasks, use[t] = "put", taskStatus[t] # "done" PROVE WithClient(t)
    <3>1. taskStatus[t] = "inProgress"
      BY <2>0, <2>3, <2>4 DEF TypeInv, Queued
    <3>2. QED
      BY <2>2, <3>1 DEF FinishInv, InHands, WithClient, Threads
  <2>5. QED
    BY <2>2, <2>4
<1>2. QED
  BY <1>1, IInvHolds, FinishInvHolds, PTL DEF FinishIsComplete, Spec

-----------------------------------------------------------------------------
(* submitAndExecute goes through the tasks of its group one after the      *)
(* other: those before the k-th have a status in S, todo holds those after *)
(* it.  It first tries to take each of them, then waits for each.          *)
Through(c, S) ==
  LET k == Len(group[c]) - Len(todo[c])
  IN  /\ k \in 1..Len(group[c]) /\ forced[c] = group[c][k]
      /\ \A i \in 1..Len(todo[c]) : todo[c][i] = group[c][k + i]
      /\ \A i \in 1..(k - 1) : taskStatus[group[c][i]] \in S

Waited(c) == Through(c, {"done"})

GroupInv ==
  \A c \in Clients :
    /\ pc[c] \in {"run", "notify"} => op[c] \in {"work", "finish"}
    /\ op[c] = "parallel" /\ pc[c] \in {"check", "waiting"} => Waited(c)

(* What is done stays done. *)
LEMMA DoneForGood ==
  IInv /\ [Next]_vars => \A x \in Tasks : taskStatus[x] = "done" => taskStatus'[x] = "done"
<1> SUFFICES ASSUME IInv, [Next]_vars, NEW x \in Tasks, taskStatus[x] = "done"
             PROVE  taskStatus'[x] = "done"
  OBVIOUS
<1>0. TypeInv /\ Core /\ Control
  BY DEF IInv
<1>1. ASSUME NEW t, NEW y \in Tasks, NEW l, Take(t, y, l), taskStatus[y] = "notStarted"
      PROVE  taskStatus'[x] = "done"
  BY <1>0, <1>1 DEF Take, TypeInv
<1>2. ASSUME NEW t \in Threads, pop(t) \/ workForcePop(t), list.head # Null
      PROVE  taskStatus'[x] = "done"
  BY <1>0, <1>1, <1>2, HeadQueued DEF pop, workForcePop
<1>3. ASSUME NEW c \in Clients, tryDeleteExecute(c) PROVE taskStatus'[x] = "done"
  BY <1>0, <1>1, <1>3 DEF tryDeleteExecute, Control, Forcing
<1>4. ASSUME NEW t \in Threads, doJob(t) \/ InlineJob(t) PROVE taskStatus'[x] = "done"
  BY <1>0, <1>4 DEF doJob, InlineJob, TypeInv
<1>5. ASSUME NEW t \in Threads, Loop(t) PROVE taskStatus'[x] = "done"
  BY <1>2, <1>4, <1>5 DEF Loop, executeWorkLoop, pop, NoTask, notifyWaiters, tasks
<1>6. ASSUME NEW c \in Clients, Calls(c) PROVE taskStatus'[x] = "done"
  BY <1>6 DEF Calls, put, ForceTask, submitAndExecute, stop, finish, tasks
<1>7. ASSUME NEW c \in Clients, Proceed(c), ~Loop(c) PROVE taskStatus'[x] = "done"
  BY <1>2, <1>3, <1>4, <1>7 DEF Proceed, join, DirectJob, spinForce, yieldForce, workForce,
     workForcePop, InlineJobThrowsError, tasks, Threads
<1>8. QED
  BY <1>5, <1>6, <1>7 DEF Next, SpuriousWakeup, Threads, tasks, vars

(* The place in the group stays when the statuses reached stay. *)
LEMMA ThroughStays ==
  ASSUME NEW c \in Clients, NEW S, group[c] \in Seq(Tasks), todo[c] \in Seq(Tasks),
         forced'[c] = forced[c], group'[c] = group[c], todo'[c] = todo[c],
         \A x \in Tasks : taskStatus[x] \in S => taskStatus'[x] \in S,
         Through(c, S)
  PROVE  Through(c, S)'
<1> DEFINE k == Len(group[c]) - Len(todo[c])
<1>1. k \in 1..Len(group[c]) /\ \A i \in 1..(k - 1) : taskStatus[group[c][i]] \in S
  BY DEF Through
<1>2. \A i \in 1..(k - 1) : group[c][i] \in Tasks
  <2>1. PICK n \in Nat : n = Len(group[c])
    OBVIOUS
  <2> HIDE DEF k
  <2>2. \A i \in 1..(k - 1) : i \in 1..n
    BY <1>1, <2>1
  <2>3. QED
    BY <2>1, <2>2
<1>3. \A i \in 1..(k - 1) : taskStatus'[group[c][i]] \in S
  BY <1>1, <1>2
<1>4. QED
  BY <1>3 DEF Through

(* A step that leaves a client where it is, or takes it elsewhere. *)
LEMMA GroupStays ==
  ASSUME IInv, [Next]_vars, GroupInv, NEW c \in Clients,
         pc'[c] = pc[c] \/ pc'[c] \notin {"run", "notify", "check"},
         op'[c] = op[c], forced'[c] = forced[c], group'[c] = group[c], todo'[c] = todo[c],
         pc'[c] = "waiting" => pc[c] \in {"check", "waiting"}
  PROVE  /\ pc'[c] \in {"run", "notify"} => op'[c] \in {"work", "finish"}
         /\ op'[c] = "parallel" /\ pc'[c] \in {"check", "waiting"} => Waited(c)'
<1>1. group[c] \in Seq(Tasks) /\ todo[c] \in Seq(Tasks)
  BY DEF IInv, TypeInv
<1>2. Waited(c) => Waited(c)'
  BY <1>1, DoneForGood, ThroughStays DEF Waited
<1>3. QED
  BY <1>2 DEF GroupInv

(* The way through a group begins with its first task. *)
LEMMA ThroughFirst ==
  ASSUME NEW c \in Clients, NEW S, group[c] \in Seq(Tasks), group[c] # <<>>,
         group'[c] = group[c], forced'[c] = Head(group[c]), todo'[c] = Tail(group[c])
  PROVE  Through(c, S)'
<1>1. PICK s \in Seq(Tasks) : s = group[c]
  OBVIOUS
<1>2. /\ Len(s) \in Nat \ {0} /\ Head(s) = s[1] /\ Len(Tail(s)) = Len(s) - 1
      /\ \A i \in 1..Len(Tail(s)) : Tail(s)[i] = s[1 + i]
  BY <1>1
<1>3. PICK q : q = Tail(s)
  OBVIOUS
<1>4. /\ Len(s) - Len(q) = 1 /\ 1 \in 1..Len(s) /\ 1..(1 - 1) = {}
  BY <1>2, <1>3
<1>5. group'[c] = s /\ todo'[c] = q /\ forced'[c] = s[1] /\ \A i \in 1..Len(q) : q[i] = s[1 + i]
  BY <1>1, <1>2, <1>3
<1>6. QED
  BY <1>4, <1>5 DEF Through

(* It goes on to the next when one has come as far as the ones before it.  *)
LEMMA ThroughNext ==
  ASSUME NEW c \in Clients, NEW S, group[c] \in Seq(Tasks), todo[c] \in Seq(Tasks),
         todo[c] # <<>>, Through(c, S), taskStatus'[forced[c]] \in S,
         \A x \in Tasks : taskStatus[x] \in S => taskStatus'[x] \in S,
         group'[c] = group[c], forced'[c] = Head(todo[c]), todo'[c] = Tail(todo[c])
  PROVE  Through(c, S)'
<1>1. PICK s, q, r, k :
         /\ s = group[c] /\ s \in Seq(Tasks) /\ q = todo[c] /\ q \in Seq(Tasks)
         /\ r = Tail(q) /\ k = Len(s) - Len(q)
  OBVIOUS
<1>2. /\ k \in 1..Len(s) /\ forced[c] = s[k]
      /\ \A i \in 1..Len(q) : q[i] = s[k + i]
      /\ \A i \in 1..(k - 1) : taskStatus[s[i]] \in S
  BY <1>1 DEF Through
<1>3. /\ Len(q) \in Nat \ {0} /\ Head(q) = q[1] /\ Len(r) = Len(q) - 1 /\ Len(s) \in Nat
      /\ \A i \in 1..Len(r) : r[i] = q[i + 1]
  BY <1>1
<1>4. k \in Nat /\ Len(s) - Len(r) = k + 1 /\ k + 1 \in 1..Len(s)
  <2>1. PICK a \in Nat, b \in Nat \ {0} : a = Len(s) /\ b = Len(q)
    BY <1>3
  <2>2. k = a - b /\ k \in 1..a /\ Len(r) = b - 1
    BY <1>1, <1>2, <1>3, <2>1
  <2>3. k \in Nat /\ a - (b - 1) = k + 1 /\ k + 1 \in 1..a
    BY <2>2
  <2>4. QED
    BY <2>1, <2>2, <2>3
<1>5. \A i \in 1..Len(r) : r[i] = s[k + 1 + i]
  <2>1. ASSUME NEW i \in 1..Len(r) PROVE i + 1 \in 1..Len(q) /\ k + (i + 1) = k + 1 + i
    BY <1>3, <1>4
  <2>2. QED
    BY <1>2, <1>3, <2>1
<1>6. \A i \in 1..k : taskStatus'[s[i]] \in S
  <2>1. \A i \in 1..k : i = k \/ i \in 1..(k - 1)
    BY <1>4
  <2>2. \A i \in 1..(k - 1) : i \in 1..Len(s)
    BY <1>2, <1>3, <1>4
  <2>3. ASSUME NEW i \in 1..(k - 1) PROVE s[i] \in Tasks
    <3>1. s \in Seq(Tasks) /\ i \in 1..Len(s)
      BY <1>1, <2>2
    <3>2. QED
      BY <3>1
  <2>4. QED
    BY <1>2, <2>1, <2>3
<1>7. q[1] = s[k + 1] /\ (k + 1) - 1 = k
  BY <1>2, <1>3, <1>4
<1>8. group'[c] = s /\ todo'[c] = r /\ forced'[c] = s[k + 1]
  BY <1>1, <1>3, <1>7
<1>9. QED
  BY <1>4, <1>5, <1>6, <1>7, <1>8 DEF Through

(* It ends with the last. *)
LEMMA ThroughAll ==
  ASSUME NEW c \in Clients, NEW S, group[c] \in Seq(Tasks), todo[c] = <<>>, Through(c, S),
         taskStatus[forced[c]] \in S
  PROVE  \A i \in DOMAIN group[c] : taskStatus[group[c][i]] \in S
<1>1. PICK n \in Nat : n = Len(group[c]) /\ DOMAIN group[c] = 1..n
  OBVIOUS
<1>2. n - Len(todo[c]) = n
  BY <1>1
<1>3. forced[c] = group[c][n] /\ \A i \in 1..(n - 1) : taskStatus[group[c][i]] \in S
  BY <1>1, <1>2 DEF Through
<1>4. \A i \in 1..n : i = n \/ i \in 1..(n - 1)
  BY <1>1
<1>5. QED
  BY <1>1, <1>3, <1>4

(* Every step is a step of some thread. *)
LEMMA SomeThread ==
  ASSUME Next
  PROVE  \E t \in Threads :
           Loop(t) \/ (t \in Clients /\ (Calls(t) \/ Proceed(t))) \/ SpuriousWakeup(t)
<1>1. CASE \E w \in Workers : Loop(w)
  <2>1. PICK w \in Workers : Loop(w)
    BY <1>1
  <2>2. QED
    BY <2>1 DEF Threads
<1>2. CASE \E c \in Clients : Calls(c) \/ Proceed(c)
  <2>1. PICK c \in Clients : Calls(c) \/ Proceed(c)
    BY <1>2
  <2>2. QED
    BY <2>1 DEF Threads
<1>3. CASE \E t \in Threads : SpuriousWakeup(t)
  BY <1>3
<1>4. QED
  BY <1>1, <1>2, <1>3 DEF Next

(* A step of one thread changes nothing of another client's call. *)
LEMMA OthersCall ==
  ASSUME TypeInv, NEW t \in Threads, NEW d \in Clients, d # t,
         Loop(t) \/ (t \in Clients /\ (Calls(t) \/ Proceed(t))) \/ SpuriousWakeup(t)
  PROVE  /\ pc'[d] = pc[d] /\ op'[d] = op[d] /\ forced'[d] = forced[d]
         /\ group'[d] = group[d] /\ todo'[d] = todo[d]
<1> USE DEF TypeInv, Threads, Goto, client
<1>1. CASE Loop(t)
  BY <1>1 DEF Loop, executeWorkLoop, pop, NoTask, doJob, notifyWaiters, Leave
<1>2. CASE t \in Clients /\ Calls(t)
  BY <1>2 DEF Calls, put, ForceTask, submitAndExecute, stop, finish, Call, Perform
<1>3. CASE t \in Clients /\ Proceed(t) /\ ~Loop(t)
  <2>1. CASE join(t) \/ DirectJob(t) \/ InlineJobThrowsError(t) \/ workForcePop(t)
    BY <1>3, <2>1 DEF join, DirectJob, InlineJobThrowsError, workForcePop
  <2>2. CASE spinForce(t) \/ yieldForce(t) \/ workForce(t)
    BY <1>3, <2>2 DEF spinForce, yieldForce, workForce, Return
  <2>3. CASE tryDeleteExecute(t) \/ InlineJob(t)
    BY <1>3, <2>3 DEF tryDeleteExecute, InlineJob, Tried
  <2>4. QED
    BY <1>3, <2>1, <2>2, <2>3 DEF Proceed
<1>4. CASE SpuriousWakeup(t)
  BY <1>4 DEF SpuriousWakeup
<1>5. QED
  BY <1>1, <1>2, <1>3, <1>4

LEMMA NextGroupInv == IInv /\ GroupInv /\ [Next]_vars => GroupInv'
<1> SUFFICES ASSUME IInv, GroupInv, [Next]_vars PROVE GroupInv'
  OBVIOUS
<1>0. TypeInv /\ Control
  BY DEF IInv
<1> DEFINE Good(c) == /\ pc'[c] \in {"run", "notify"} => op'[c] \in {"work", "finish"}
                      /\ op'[c] = "parallel" /\ pc'[c] \in {"check", "waiting"} => Waited(c)'
<1>s. SUFFICES ASSUME NEW c \in Clients PROVE Good(c)
  BY DEF GroupInv
<1>c. /\ c \in Threads /\ c \notin Workers /\ group[c] \in Seq(Tasks) /\ todo[c] \in Seq(Tasks)
      /\ pc[c] \in {"run", "notify"} => op[c] \in {"work", "finish"}
      /\ op[c] = "parallel" /\ pc[c] \in {"check", "waiting"} => Waited(c)
  BY <1>0, PoolAssumption DEF TypeInv, Threads, GroupInv
<1>e. ASSUME NEW l, pc' = [pc EXCEPT ![c] = l] PROVE pc'[c] = l
  BY <1>0, <1>c, <1>e DEF TypeInv
<1>1. CASE UNCHANGED <<pc, client>>
  BY <1>1, GroupStays DEF client
<1>2. ASSUME NEW t \in Threads, t # c,
             Loop(t) \/ (t \in Clients /\ (Calls(t) \/ Proceed(t))) \/ SpuriousWakeup(t)
      PROVE  Good(c)
  BY <1>0, <1>2, OthersCall, GroupStays
<1> USE DEF Goto
<1>3. CASE Loop(c)
  <2>1. CASE executeWorkLoop(c) \/ NoTask(c)
    BY <1>e, <2>1 DEF executeWorkLoop, NoTask, Leave
  <2>2. CASE pop(c)
    BY <1>0, <1>e, <2>2 DEF pop, client, Control
  <2>3. CASE doJob(c)
    BY <1>c, <1>e, <2>3 DEF doJob, client
  <2>4. CASE notifyWaiters(c)
    BY <1>c, <1>e, <2>4 DEF notifyWaiters, client
  <2>5. QED
    BY <1>3, <2>1, <2>2, <2>3, <2>4 DEF Loop
<1>4. CASE Calls(c)
  <2>1. pc[c] = "idle" /\ (pc' = pc \/ \E l \in {"delete", "direct", "loop"} : pc' = [pc EXCEPT ![c] = l])
    BY <1>4 DEF Calls, put, ForceTask, submitAndExecute, stop, finish, Call, Perform
  <2>2. QED
    BY <1>e, <2>1
<1>t. ASSUME Tried(c), UNCHANGED <<op, group>>, pc[c] \in {"delete", "inline"} PROVE Good(c)
  <2>1. pc'[c] \in {"check", "delete"}
    BY <1>e, <1>t DEF Tried
  <2>2. CASE op[c] # "parallel"
    BY <1>t, <2>1, <2>2
  <2>3. CASE op[c] = "parallel" /\ todo[c] # <<>>
    BY <1>e, <1>t, <2>3 DEF Tried
  <2>4. CASE op[c] = "parallel" /\ todo[c] = <<>>
    <3>1. group[c] # <<>>
      BY <1>0, <1>t, <2>4 DEF Control
    <3>2. forced'[c] = Head(group[c]) /\ todo'[c] = Tail(group[c]) /\ group'[c] = group[c]
      BY <1>0, <1>t, <2>4 DEF Tried, TypeInv
    <3>3. QED
      BY <1>c, <2>1, <3>1, <3>2, ThroughFirst DEF Waited
  <2>5. QED
    BY <2>2, <2>3, <2>4
<1>r. ASSUME Return(c), Done(c), UNCHANGED <<op, group, taskStatus>>, pc[c] \in {"check", "waiting"}
      PROVE  Good(c)
  <2>1. pc'[c] \in {"check", "idle"}
    BY <1>e, <1>r DEF Return
  <2>2. CASE op[c] = "parallel" /\ todo[c] # <<>>
    <3>1. forced'[c] = Head(todo[c]) /\ todo'[c] = Tail(todo[c]) /\ group'[c] = group[c]
      BY <1>0, <1>r, <2>2 DEF Return, TypeInv
    <3>2. QED
      BY <1>c, <1>r, <2>1, <2>2, <3>1, ThroughNext DEF Waited, Done
  <2>3. CASE ~(op[c] = "parallel" /\ todo[c] # <<>>)
    BY <1>e, <1>r, <2>3 DEF Return
  <2>4. QED
    BY <2>2, <2>3
<1>5. CASE Proceed(c) /\ ~Loop(c)
  <2>1. CASE join(c) \/ DirectJob(c) \/ InlineJobThrowsError(c)
    BY <1>e, <2>1 DEF join, DirectJob, InlineJobThrowsError
  <2>2. CASE tryDeleteExecute(c)
    BY <1>e, <1>t, <2>2 DEF tryDeleteExecute
  <2>3. CASE InlineJob(c)
    BY <1>t, <2>3 DEF InlineJob
  <2>4. CASE spinForce(c)
    BY <1>r, <2>4 DEF spinForce, tasks
  <2>5. CASE yieldForce(c)
    <3>1. CASE Done(c)
      BY <1>r, <2>5, <3>1 DEF yieldForce, tasks
    <3>2. CASE ~Done(c)
      <4>1. pc'[c] = "waiting" /\ UNCHANGED <<op, forced, group, todo>>
            /\ pc[c] \in {"check", "waiting"}
        BY <1>e, <2>5, <3>2 DEF yieldForce
      <4>2. QED
        BY <4>1, GroupStays
    <3>3. QED
      BY <3>1, <3>2
  <2>6. CASE workForce(c)
    <3>1. CASE Done(c)
      BY <1>r, <2>6, <3>1 DEF workForce, tasks
    <3>2. CASE ~Done(c)
      BY <1>e, <2>6, <3>2 DEF workForce
    <3>3. QED
      BY <3>1, <3>2
  <2>7. CASE workForcePop(c)
    <3>1. op[c] = "work"
      BY <1>0, <2>7 DEF workForcePop, Control
    <3>2. (pc'[c] = "run" /\ op'[c] = op[c]) \/ pc'[c] = "delete"
      BY <1>e, <2>7 DEF workForcePop
    <3>3. QED
      BY <3>1, <3>2
  <2>8. QED
    BY <1>5, <2>1, <2>2, <2>3, <2>4, <2>5, <2>6, <2>7 DEF Proceed
<1>6. QED
  <2>1. CASE UNCHANGED vars
    BY <1>1, <2>1 DEF vars
  <2>2. CASE Next
    <3>1. PICK t \in Threads :
            Loop(t) \/ (t \in Clients /\ (Calls(t) \/ Proceed(t))) \/ SpuriousWakeup(t)
      BY <2>2, SomeThread
    <3>2. CASE t # c
      BY <1>2, <3>1, <3>2
    <3>3. CASE t = c /\ ~SpuriousWakeup(t)
      BY <1>3, <1>4, <1>5, <3>1, <3>3
    <3>4. CASE SpuriousWakeup(t)
      BY <1>1, <3>4 DEF SpuriousWakeup
    <3>5. QED
      BY <3>2, <3>3, <3>4
  <2>3. QED
    BY <2>1, <2>2

LEMMA GroupInvHolds == Spec => []GroupInv
<1>1. Init => GroupInv
  BY PoolAssumption DEF Init, GroupInv, Threads
<1>2. QED
  BY <1>1, NextGroupInv, IInvHolds, PTL DEF Spec

(* A force returns only when its task is done, and submitAndExecute only   *)
(* when all the tasks on its stack are, for any number of wake-ups meant   *)
(* for others: the status is read again after each of them.                *)
THEOREM ReturnsWhenDoneHolds == Spec => ReturnsWhenDone
<1> DEFINE Good == \A c \in Clients :
                     pc[c] \in {"check", "waiting"} /\ pc'[c] = "idle" =>
                       IF op[c] = "parallel"
                       THEN \A i \in DOMAIN group[c] : taskStatus[group[c][i]] = "done"
                       ELSE Done(c)
<1>1. IInv /\ GroupInv /\ [Next]_vars => [Good]_vars
  <2> SUFFICES ASSUME IInv, GroupInv, Next, NEW c \in Clients,
                      pc[c] \in {"check", "waiting"}, pc'[c] = "idle"
               PROVE  IF op[c] = "parallel"
                      THEN \A i \in DOMAIN group[c] : taskStatus[group[c][i]] = "done"
                      ELSE Done(c)
    OBVIOUS
  <2>0. TypeInv /\ c \in Threads /\ group[c] \in Seq(Tasks)
    BY DEF IInv, TypeInv, Threads
  <2>1. Done(c) /\ Return(c)
    <3>1. ASSUME NEW t \in Threads, t # c,
                 Loop(t) \/ (t \in Clients /\ (Calls(t) \/ Proceed(t))) \/ SpuriousWakeup(t)
          PROVE  FALSE
      BY <2>0, <3>1, OthersCall
    <3>2. CASE Loop(c)
      BY <2>0, <3>2 DEF TypeInv, Loop, executeWorkLoop, pop, NoTask, doJob, notifyWaiters
    <3>3. CASE Calls(c)
      BY <3>3 DEF Calls, put, ForceTask, submitAndExecute, stop, finish, Call
    <3>4. CASE SpuriousWakeup(c)
      BY <3>4 DEF SpuriousWakeup
    <3>5. CASE Proceed(c) /\ ~Loop(c)
      <4>1. spinForce(c) \/ yieldForce(c) \/ workForce(c)
        BY <3>5 DEF Proceed, join, DirectJob, tryDeleteExecute, workForcePop, InlineJob,
                    InlineJobThrowsError
      <4>2. QED
        BY <2>0, <4>1 DEF TypeInv, spinForce, yieldForce, workForce, Goto
    <3>6. PICK t \in Threads :
            Loop(t) \/ (t \in Clients /\ (Calls(t) \/ Proceed(t))) \/ SpuriousWakeup(t)
      BY SomeThread
    <3>7. CASE t = c
      BY <3>2, <3>3, <3>4, <3>5, <3>6, <3>7
    <3>8. QED
      BY <3>1, <3>6, <3>7
  <2>2. op[c] = "parallel" => todo[c] = <<>>
    BY <2>0, <2>1 DEF Return, Goto, TypeInv
  <2>3. QED
    BY <2>0, <2>1, <2>2, ThroughAll DEF GroupInv, Waited, Done
<1>2. QED
  BY <1>1, IInvHolds, GroupInvHolds, PTL DEF ReturnsWhenDone, Spec

-----------------------------------------------------------------------------
(* Workers that are awake and about to pop. *)
Awake == {w \in Workers \ workerCondition : pc[w] \in {"loop", "pop", "sleep"}}

(* Only workers sleep on the condition, and a client works in the loop, as *)
(* finish(true) does, only when the pool is no longer running.             *)
InLoop(c) ==
  \/ pc[c] \in {"loop", "pop", "sleep", "null"}
  \/ pc[c] \in {"run", "notify"} /\ op[c] = "finish"

Sleepers ==
  /\ workerCondition \subseteq {w \in Workers : pc[w] = "sleep"}
  /\ \A c \in Clients : InLoop(c) => status # "running"

SleepInv == Sleepers /\ NoTaskBesideSleeper

(* The queue and the workers can be counted. *)
LEMMA Countable ==
  /\ IsFiniteSet(Queued) /\ IsFiniteSet(Awake)
  /\ IsFiniteSet(Queued') /\ IsFiniteSet(Awake')
  /\ Cardinality(Queued) \in Nat /\ Cardinality(Awake) \in Nat
  /\ Cardinality(Queued') \in Nat /\ Cardinality(Awake') \in Nat
<1>1. IsFiniteSet(Tasks)
  BY FS_Interval, PoolAssumption DEF Tasks
<1>2. /\ Queued \subseteq Tasks /\ Awake \subseteq Workers
      /\ Queued' \subseteq Tasks /\ Awake' \subseteq Workers
  BY DEF Queued, Awake
<1>3. /\ IsFiniteSet(Queued) /\ IsFiniteSet(Awake)
      /\ IsFiniteSet(Queued') /\ IsFiniteSet(Awake')
  BY <1>1, <1>2, FS_Subset, PoolAssumption
<1>4. QED
  BY <1>3, FS_CardinalityType

(* A step that puts nothing in the queue and takes nobody off the workers  *)
(* that are awake. *)
LEMMA StaysAwake ==
  ASSUME NoTaskBesideSleeper,
         status' = "running" /\ workerCondition' # {} =>
           /\ status = "running" /\ workerCondition # {}
           /\ Queued' \subseteq Queued /\ Awake \subseteq Awake'
  PROVE  NoTaskBesideSleeper'
<1> SUFFICES ASSUME status' = "running", workerCondition' # {}
             PROVE  Cardinality(Queued') <= Cardinality(Awake')
  BY DEF NoTaskBesideSleeper, Awake
<1>1. Cardinality(Queued) <= Cardinality(Awake)
  BY DEF NoTaskBesideSleeper, Awake
<1>2. /\ IsFiniteSet(Queued) /\ IsFiniteSet(Queued') /\ IsFiniteSet(Awake')
      /\ Cardinality(Queued) \in Nat /\ Cardinality(Awake) \in Nat
      /\ Cardinality(Queued') \in Nat /\ Cardinality(Awake') \in Nat
  BY Countable
<1>3. Cardinality(Queued') <= Cardinality(Queued)
  BY <1>2, FS_Subset
<1>4. Cardinality(Awake) <= Cardinality(Awake')
  BY <1>2, FS_Subset
<1>5. QED
  BY <1>1, <1>2, <1>3, <1>4

(* The worker that pops goes off with the task it takes. *)
LEMMA PopKeepsAwake ==
  ASSUME NoTaskBesideSleeper, UNCHANGED <<status, workerCondition>>,
         NEW x \in Queued, Queued' = Queued \ {x}, NEW w \in Awake, Awake' = Awake \ {w}
  PROVE  NoTaskBesideSleeper'
<1> SUFFICES ASSUME status = "running", workerCondition # {}
             PROVE  Cardinality(Queued') <= Cardinality(Awake')
  BY DEF NoTaskBesideSleeper, Awake
<1>1. Cardinality(Queued) <= Cardinality(Awake)
  BY DEF NoTaskBesideSleeper, Awake
<1>2. Cardinality(Queued') = Cardinality(Queued) - 1
  BY Countable, FS_RemoveElement
<1>3. Cardinality(Awake') = Cardinality(Awake) - 1
  BY Countable, FS_RemoveElement
<1>4. QED
  BY <1>1, <1>2, <1>3, Countable

(* A put wakes a worker for its task. *)
LEMMA PutWakes ==
  ASSUME NoTaskBesideSleeper, status' = status, NEW x, x \notin Queued,
         Queued' = Queued \cup {x}, NEW w \in Workers, w \notin Awake, Awake' = Awake \cup {w},
         workerCondition # {}
  PROVE  NoTaskBesideSleeper'
<1> SUFFICES ASSUME status = "running"
             PROVE  Cardinality(Queued') <= Cardinality(Awake')
  BY DEF NoTaskBesideSleeper, Awake
<1>1. Cardinality(Queued) <= Cardinality(Awake)
  BY DEF NoTaskBesideSleeper, Awake
<1>2. Cardinality(Queued') = Cardinality(Queued) + 1
  BY Countable, FS_AddElement
<1>3. Cardinality(Awake') = Cardinality(Awake) + 1
  BY Countable, FS_AddElement
<1>4. QED
  BY <1>1, <1>2, <1>3, Countable

LEMMA LoopSleepInv ==
  ASSUME IInv, SleepInv, NEW t \in Threads, Loop(t)
  PROVE  SleepInv'
<1>0. TypeInv /\ Core /\ Control /\ Sleepers /\ NoTaskBesideSleeper
  BY DEF IInv, SleepInv
<1>c. t \in Workers \/ (t \in Clients /\ t \notin Workers)
  BY PoolAssumption DEF Threads
<1> USE DEF tasks, client, conditions, history, Goto
<1>p. ASSUME NEW l, pc' = [pc EXCEPT ![t] = l]
      PROVE  pc'[t] = l /\ \A u \in Threads : u # t => pc'[u] = pc[u]
  BY <1>0, <1>p DEF TypeInv
<1>w. /\ \A u \in Workers : u \in Threads
      /\ \A u \in Clients : u \in Threads
  BY DEF Threads
<1>1. CASE executeWorkLoop(t) \/ NoTask(t) \/ doJob(t) \/ notifyWaiters(t)
  <2>1. PICK l \in {"ended", "join", "pop", "loop", "notify", "check"} :
               pc' = [pc EXCEPT ![t] = l]
    BY <1>1 DEF executeWorkLoop, NoTask, doJob, notifyWaiters, Leave
  <2>2. /\ pc[t] \notin {"pop", "sleep"} /\ UNCHANGED <<workerCondition, use, op>>
        /\ status' = "running" => status = "running"
        /\ pc[t] = "loop" /\ status' = "running" => l = "pop"
    BY <1>1, <2>1, <1>p DEF executeWorkLoop, NoTask, doJob, notifyWaiters
  <2>3. Queued' \subseteq Queued
    <3>1. \A x \in Tasks : taskStatus'[x] = "notStarted" => taskStatus[x] = "notStarted"
      BY <1>0, <1>1 DEF executeWorkLoop, NoTask, doJob, notifyWaiters, TypeInv
    <3>2. QED
      BY <2>2, <3>1 DEF Queued
  <2>4. status' = "running" => Awake \subseteq Awake'
    BY <1>p, <1>w, <2>1, <2>2 DEF Awake
  <2>5. NoTaskBesideSleeper'
    BY <1>0, <2>2, <2>3, <2>4, StaysAwake
  <2>6. workerCondition' \subseteq {w \in Workers : pc'[w] = "sleep"}
    BY <1>0, <1>p, <1>w, <2>1, <2>2 DEF Sleepers
  <2>7. ASSUME t \in Clients, InLoop(t)' PROVE InLoop(t)
    BY <1>1, <1>c, <1>p, <2>1, <2>7 DEF InLoop, executeWorkLoop, NoTask, doJob, notifyWaiters
  <2>8. ASSUME NEW d \in Clients, InLoop(d)' PROVE status' # "running"
    <3>1. InLoop(d)
      BY <1>p, <1>w, <2>1, <2>2, <2>7, <2>8 DEF InLoop
    <3>2. QED
      BY <1>0, <2>2, <3>1 DEF Sleepers
  <2>9. QED
    BY <2>5, <2>6, <2>8 DEF SleepInv, Sleepers
<1>2. CASE pop(t)
  <2>0. /\ pc[t] \in {"pop", "sleep"} /\ t \notin workerCondition /\ UNCHANGED <<status, use, op>>
    BY <1>0, <1>2 DEF pop, Sleepers
  <2>1. PICK l \in {"run", "sleep", "null"} : pc' = [pc EXCEPT ![t] = l]
    BY <1>2 DEF pop
  <2>2. workerCondition' = workerCondition
        \/ (l = "sleep" /\ status = "running" /\ workerCondition' = workerCondition \cup {t})
    BY <1>2, <1>p, <2>1 DEF pop, wait
  <2>3. t \in Clients => status # "running"
    BY <1>0, <2>0 DEF Sleepers, InLoop
  <2>4. workerCondition' \subseteq {w \in Workers : pc'[w] = "sleep"}
    <3>1. ASSUME NEW w \in workerCondition PROVE w \in Workers /\ pc'[w] = "sleep"
      BY <1>0, <1>p, <1>w, <2>0, <2>1, <3>1 DEF Sleepers
    <3>2. l = "sleep" /\ status = "running" => t \in Workers /\ pc'[t] = "sleep"
      BY <1>c, <1>p, <2>1, <2>3
    <3>3. QED
      BY <2>2, <3>1, <3>2
  <2>5. ASSUME NEW d \in Clients, InLoop(d)' PROVE status' # "running"
    BY <1>0, <1>p, <1>w, <2>0, <2>1, <2>3, <2>5 DEF InLoop, Sleepers
  <2>6. NoTaskBesideSleeper'
    <3>1. CASE list.head # Null
      <4>1. PICK x \in Tasks : /\ x = list.head /\ x \in Queued
        BY <1>0, <3>1, HeadQueued DEF Core, Outside
      <4>2. /\ taskStatus' = [taskStatus EXCEPT ![x] = "inProgress"]
            /\ workerCondition' = workerCondition /\ pc' = [pc EXCEPT ![t] = "run"]
        BY <1>2, <3>1, <4>1 DEF pop, Take
      <4>3. Queued' = Queued \ {x}
        BY <1>0, <2>0, <4>2 DEF Queued, TypeInv
      <4>4. CASE status = "running"
        <5>1. t \in Awake /\ Awake' = Awake \ {t}
          BY <1>c, <1>p, <1>w, <2>0, <2>3, <4>2, <4>4 DEF Awake
        <5>2. QED
          BY <1>0, <2>0, <4>1, <4>2, <4>3, <5>1, PopKeepsAwake
      <4>5. CASE status # "running"
        BY <2>0, <4>5 DEF NoTaskBesideSleeper
      <4>6. QED
        BY <4>4, <4>5
    <3>2. CASE list.head = Null
      <4>1. Queued = {}
        BY <1>0, <3>2 DEF Core, QueueLinked
      <4>2. taskStatus' = taskStatus
        BY <1>2, <3>2 DEF pop
      <4>3. Queued' = {}
        BY <2>0, <4>1, <4>2 DEF Queued
      <4>4. Cardinality(Queued') = 0
        BY <4>3, FS_EmptySet
      <4>5. QED
        BY <4>4, Countable DEF NoTaskBesideSleeper, Awake
    <3>3. QED
      BY <3>1, <3>2
  <2>7. QED
    BY <2>4, <2>5, <2>6 DEF SleepInv, Sleepers
<1>3. QED
  BY <1>1, <1>2 DEF Loop

LEMMA CallsSleepInv ==
  ASSUME IInv, SleepInv, NEW c \in Clients, Calls(c)
  PROVE  SleepInv'
<1>0. TypeInv /\ Core /\ Sleepers /\ NoTaskBesideSleeper
  BY DEF IInv, SleepInv
<1>c. c \in Threads /\ c \notin Workers /\ \A w \in Workers : w \in Threads
  BY PoolAssumption DEF Threads
<1> USE DEF tasks, conditions, history, Goto, Call
<1>1. pc[c] = "idle"
  BY <1>c, Calls(c) DEF Calls, put, ForceTask, submitAndExecute, stop, finish
<1>2. /\ \A u \in Threads : u # c => pc'[u] = pc[u]
      /\ \A d \in Clients : d # c => op'[d] = op[d]
      /\ pc'[c] \in {"idle", "delete", "direct"} \/ (pc'[c] = "loop" /\ status' # "running")
      /\ status' = "running" => status = "running"
      /\ workerCondition' \in {workerCondition, {}} \cup notify(workerCondition)
  BY <1>0, <1>1, <1>c DEF TypeInv, Calls, put, ForceTask, submitAndExecute, stop, finish,
     Perform, notifyAll
<1>3. workerCondition' \subseteq workerCondition
  BY <1>2 DEF notify
<1>4. Sleepers'
  <2>1. workerCondition' \subseteq {w \in Workers : pc'[w] = "sleep"}
    BY <1>0, <1>2, <1>3, <1>c DEF Sleepers
  <2>2. ASSUME NEW d \in Clients, InLoop(d)' PROVE status' # "running"
    <3>1. CASE d = c
      BY <1>2, <2>2, <3>1 DEF InLoop
    <3>2. CASE d # c
      BY <1>0, <1>2, <2>2, <3>2 DEF InLoop, Sleepers, Threads
    <3>3. QED
      BY <3>1, <3>2
  <2>3. QED
    BY <2>1, <2>2 DEF Sleepers
<1>5. NoTaskBesideSleeper'
  <2>1. ASSUME NEW x \in Tasks, put(c, x), status = "running", workerCondition # {}
        PROVE  NoTaskBesideSleeper'
    <3>1. use' = [use EXCEPT ![x] = "put"] /\ x = made + 1 /\ UNCHANGED <<status, taskStatus, pc>>
      BY <2>1 DEF put
    <3>2. use[x] = "new" /\ taskStatus[x] = "notStarted"
      <4>1. x > made
        BY <1>0, <3>1 DEF TypeInv
      <4>2. QED
        BY <1>0, <4>1 DEF Core, Outside
    <3>3. Queued' = Queued \cup {x} /\ x \notin Queued
      BY <1>0, <3>1, <3>2 DEF Queued, TypeInv
    <3>4. PICK w \in workerCondition : workerCondition' = workerCondition \ {w}
      BY <2>1 DEF put, notify
    <3>5. w \in Workers /\ w \notin Awake /\ Awake' = Awake \cup {w}
      BY <1>0, <3>1, <3>4 DEF Awake, Sleepers
    <3>6. QED
      BY <1>0, <2>1, <3>1, <3>3, <3>5, PutWakes
  <2>2. ASSUME NEW x \in Tasks, NEW kind, ForceTask(c, x, kind) PROVE NoTaskBesideSleeper'
    <3>1. Queued' = Queued /\ UNCHANGED <<status, workerCondition>>
      BY <2>2 DEF ForceTask, Queued
    <3>2. Awake' = Awake
      BY <1>1, <1>2, <1>c, <3>1 DEF Awake
    <3>3. QED
      BY <1>0, <3>1, <3>2, StaysAwake
  <2>3. ASSUME status' # "running" \/ workerCondition' = {} PROVE NoTaskBesideSleeper'
    BY <2>3 DEF NoTaskBesideSleeper
  <2>4. \/ \E x \in Tasks : put(c, x) /\ status = "running" /\ workerCondition # {}
        \/ \E x \in Tasks : \E kind \in {"spin", "yield", "work"} : ForceTask(c, x, kind)
        \/ status' # "running" \/ workerCondition' = {}
    BY Calls(c) DEF Calls, put, submitAndExecute, stop, finish, notify, notifyAll
  <2>5. QED
    BY <2>1, <2>2, <2>3, <2>4
<1>6. QED
  BY <1>4, <1>5 DEF SleepInv

LEMMA ProceedSleepInv ==
  ASSUME IInv, SleepInv, NEW c \in Clients, Proceed(c), ~Loop(c)
  PROVE  SleepInv'
<1>0. TypeInv /\ Core /\ Control /\ Sleepers /\ NoTaskBesideSleeper
  BY DEF IInv, SleepInv
<1>c. c \in Threads /\ c \notin Workers /\ \A w \in Workers : w \in Threads
  BY PoolAssumption DEF Threads
<1> USE DEF tasks, conditions, history, Goto, client
<1>1. UNCHANGED <<status, workerCondition, use>>
  BY DEF Proceed, join, DirectJob, spinForce, yieldForce, workForce, tryDeleteExecute,
         workForcePop, InlineJob, InlineJobThrowsError
<1>2. \A x \in Tasks : taskStatus'[x] = "notStarted" => taskStatus[x] = "notStarted"
  BY <1>0 DEF TypeInv, Take, Proceed, join, DirectJob, spinForce, yieldForce, workForce,
         tryDeleteExecute, workForcePop, InlineJob, InlineJobThrowsError
<1>3. PICK l \in {"idle", "delete", "check", "waiting", "steal", "inline", "run"} :
             pc' = [pc EXCEPT ![c] = l]
  BY DEF Proceed, join, DirectJob, spinForce, yieldForce, workForce, tryDeleteExecute,
         workForcePop, InlineJob, InlineJobThrowsError, Tried, Return
<1>4. pc'[c] = l /\ \A u \in Threads : u # c => pc'[u] = pc[u]
  BY <1>0, <1>3, <1>c DEF TypeInv
<1>5. l = "run" => op'[c] = "work"
  <2>e. ASSUME NEW m, pc' = [pc EXCEPT ![c] = m] PROVE l = m
    BY <1>0, <1>4, <1>c, <2>e DEF TypeInv
  <2>1. CASE workForcePop(c)
    <3>1. op[c] = "work"
      BY <1>0, <2>1 DEF Control, workForcePop
    <3>2. op' = op \/ l = "delete"
      BY <2>1, <2>e DEF workForcePop
    <3>3. QED
      BY <3>1, <3>2
  <2>2. CASE ~workForcePop(c)
    <3>1. \E m \in {"idle", "delete", "check", "waiting", "steal", "inline"} :
            pc' = [pc EXCEPT ![c] = m]
      BY <2>2 DEF Proceed, join, DirectJob, spinForce, yieldForce, workForce,
         tryDeleteExecute, InlineJob, InlineJobThrowsError, Tried, Return
    <3>2. QED
      BY <2>e, <3>1
  <2>3. QED
    BY <2>1, <2>2
<1>6. \A d \in Clients : d # c => op'[d] = op[d]
  BY <1>0, OthersCall DEF Threads
<1>7. Queued' \subseteq Queued /\ Awake' = Awake
  BY <1>1, <1>2, <1>4, <1>c DEF Queued, Awake
<1>8. NoTaskBesideSleeper'
  BY <1>0, <1>1, <1>7, StaysAwake
<1>9. Sleepers'
  <2>1. workerCondition' \subseteq {w \in Workers : pc'[w] = "sleep"}
    BY <1>0, <1>1, <1>4, <1>c DEF Sleepers
  <2>2. ASSUME NEW d \in Clients, InLoop(d)' PROVE status' # "running"
    <3>1. CASE d = c
      BY <1>3, <1>4, <1>5, <2>2, <3>1 DEF InLoop
    <3>2. CASE d # c
      BY <1>0, <1>1, <1>4, <1>6, <2>2, <3>2 DEF InLoop, Sleepers, Threads
    <3>3. QED
      BY <3>1, <3>2
  <2>3. QED
    BY <2>1, <2>2 DEF Sleepers
<1>10. QED
  BY <1>8, <1>9 DEF SleepInv

LEMMA SleepInvHolds == Spec => []SleepInv
<1>1. Init => SleepInv
  BY PoolAssumption DEF Init, SleepInv, Sleepers, InLoop, NoTaskBesideSleeper, Threads
<1>2. IInv /\ SleepInv /\ [Next]_vars => SleepInv'
  <2> SUFFICES ASSUME IInv, SleepInv, [Next]_vars PROVE SleepInv'
    OBVIOUS
  <2>1. ASSUME NEW t \in Threads, SpuriousWakeup(t) PROVE SleepInv'
    <3>1. UNCHANGED <<status, pc, op>> /\ workerCondition' = workerCondition \ {t}
          /\ Queued' = Queued
      BY <2>1 DEF SpuriousWakeup, wakeUp, tasks, client, Queued
    <3>2. Awake \subseteq Awake'
      BY <3>1 DEF Awake
    <3>3. NoTaskBesideSleeper'
      BY <3>1, <3>2, StaysAwake DEF SleepInv
    <3>4. QED
      BY <3>1, <3>3 DEF SleepInv, Sleepers, InLoop
  <2>2. CASE UNCHANGED vars
    <3>1. UNCHANGED <<status, pc, op, workerCondition, use, taskStatus>>
      BY <2>2 DEF vars, tasks, client, conditions
    <3>2. QED
      BY <3>1 DEF SleepInv, Sleepers, InLoop, NoTaskBesideSleeper, Queued
  <2>3. CASE Next
    <3>1. PICK t \in Threads :
            Loop(t) \/ (t \in Clients /\ (Calls(t) \/ Proceed(t))) \/ SpuriousWakeup(t)
      BY <2>3, SomeThread
    <3>2. QED
      BY <2>1, <3>1, LoopSleepInv, CallsSleepInv, ProceedSleepInv
  <2>4. QED
    BY <2>2, <2>3
<1>3. QED
  BY <1>1, <1>2, IInvHolds, PTL DEF Spec

(* For any number of workers, no task waits beside an idle worker: as long *)
(* as one sleeps, there are as many awake and about to pop as there are    *)
(* tasks in the queue.  No notification of a put is lost, whatever other   *)
(* notifications, wake-ups and forces come between.                        *)
THEOREM NoTaskBesideSleeperHolds == Spec => []NoTaskBesideSleeper
<1>1. SleepInv => NoTaskBesideSleeper
  BY DEF SleepInv
<1>2. QED
  BY <1>1, SleepInvHolds, PTL

-----------------------------------------------------------------------------
(* stop and finish wake all the workers, and afterwards nobody falls       *)
(* asleep on workerCondition: pop sleeps only while the pool runs, and     *)
(* looks at the status under the mutex under which it is changed.          *)
AwakeToStop == status # "running" => workerCondition = {}

(* For any number of workers: none sleeps through the end of the pool,     *)
(* whenever stop or finish is called.                                      *)
THEOREM NobodySleepsThroughStop == Spec => []AwakeToStop
<1>1. Init => AwakeToStop
  BY DEF Init, AwakeToStop
<1>2. TypeInv /\ AwakeToStop /\ [Next]_vars => AwakeToStop'
  <2> SUFFICES ASSUME TypeInv, AwakeToStop, [Next]_vars PROVE AwakeToStop'
    OBVIOUS
  <2> USE DEF AwakeToStop, conditions
  <2>1. ASSUME NEW t \in Threads, Loop(t) PROVE AwakeToStop'
    BY <2>1 DEF Loop, executeWorkLoop, pop, NoTask, doJob, notifyWaiters
  <2>2. ASSUME NEW c \in Clients, Calls(c) PROVE AwakeToStop'
    BY <2>2 DEF Calls, put, ForceTask, submitAndExecute, stop, finish, notify, notifyAll
  <2>3. ASSUME NEW c \in Clients, Proceed(c), ~Loop(c) PROVE AwakeToStop'
    BY <2>3 DEF Proceed, join, DirectJob, spinForce, yieldForce, workForce, tryDeleteExecute,
                workForcePop, InlineJob, InlineJobThrowsError
  <2>4. ASSUME NEW t \in Threads, SpuriousWakeup(t) PROVE AwakeToStop'
    BY <2>4 DEF SpuriousWakeup, wakeUp
  <2>5. CASE UNCHANGED vars
    BY <2>5 DEF vars
  <2>6. CASE Next
    BY <2>1, <2>2, <2>3, <2>4, <2>6, SomeThread
  <2>7. QED
    BY <2>5, <2>6
<1>3. QED
  BY <1>1, <1>2, IInvHolds, PTL DEF Spec, IInv

-----------------------------------------------------------------------------
Started == {"inProgress", "done"}

(* A client that has tried to take the task it forces. *)
Past(c) ==
  \/ pc[c] \in {"check", "waiting", "steal"}
  \/ pc[c] \in {"run", "notify"} /\ op[c] # "finish"

(* What was tried was started, by the client itself or by another thread;  *)
(* submitAndExecute tries the whole group before it waits for any of it.   *)
Try(c) ==
  /\ pc[c] = "inline" => job[c] = forced[c] /\ inlined[forced[c]] = c
  /\ Past(c) => taskStatus[forced[c]] \in Started
  /\ op[c] = "parallel" /\ pc[c] \in {"delete", "inline"} => Through(c, Started)
  /\ op[c] = "parallel" /\ pc[c] \in {"check", "waiting"} =>
       \A i \in DOMAIN group[c] : taskStatus[group[c][i]] \in Started

TryInv == \A c \in Clients : Try(c)

(* What is started stays started. *)
LEMMA StartedForGood ==
  IInv /\ [Next]_vars =>
    \A x \in Tasks : taskStatus[x] \in Started => taskStatus'[x] \in Started
<1> SUFFICES ASSUME IInv, [Next]_vars, NEW x \in Tasks, taskStatus[x] \in Started
             PROVE  taskStatus'[x] \in Started
  OBVIOUS
<1> USE DEF Started
<1>0. TypeInv
  BY DEF IInv
<1>1. ASSUME NEW t \in Threads, Loop(t) PROVE taskStatus'[x] \in Started
  BY <1>0, <1>1 DEF Loop, executeWorkLoop, pop, NoTask, doJob, notifyWaiters, tasks, Take, TypeInv
<1>2. ASSUME NEW c \in Clients, Calls(c) PROVE taskStatus'[x] \in Started
  BY <1>2 DEF Calls, put, ForceTask, submitAndExecute, stop, finish, tasks
<1>3. ASSUME NEW c \in Clients, Proceed(c), ~Loop(c) PROVE taskStatus'[x] \in Started
  BY <1>0, <1>3 DEF Proceed, join, DirectJob, spinForce, yieldForce, workForce, tryDeleteExecute,
     workForcePop, InlineJob, InlineJobThrowsError, tasks, Take, TypeInv
<1>4. QED
  BY <1>1, <1>2, <1>3 DEF Next, SpuriousWakeup, Threads, tasks, vars

(* A step of one thread leaves the others where they are, with their jobs, *)
(* and marks a task as taken by a client only when it takes it.            *)
LEMMA OthersJob ==
  ASSUME TypeInv, FinishInv, NEW t \in Threads,
         Loop(t) \/ (t \in Clients /\ (Calls(t) \/ Proceed(t))) \/ SpuriousWakeup(t)
  PROVE  /\ \A u \in Threads : u # t => pc'[u] = pc[u] /\ job'[u] = job[u]
         /\ \A x \in Tasks : taskStatus[x] \in Started => inlined'[x] = inlined[x]
<1> USE DEF TypeInv, Threads, Goto, client, history, Started
<1>1. CASE Loop(t)
  BY <1>1 DEF Loop, executeWorkLoop, pop, NoTask, doJob, notifyWaiters, Leave, Take
<1>2. CASE t \in Clients /\ Calls(t)
  BY <1>2 DEF Calls, put, ForceTask, submitAndExecute, stop, finish, Call, Perform
<1>3. CASE t \in Clients /\ Proceed(t) /\ ~Loop(t)
  <2>1. CASE join(t) \/ DirectJob(t) \/ InlineJobThrowsError(t) \/ workForcePop(t)
    BY <1>3, <2>1 DEF join, DirectJob, InlineJobThrowsError, workForcePop, Take
  <2>2. CASE spinForce(t) \/ yieldForce(t) \/ workForce(t)
    BY <1>3, <2>2 DEF spinForce, yieldForce, workForce, Return
  <2>3. CASE InlineJob(t)
    BY <1>3, <2>3 DEF InlineJob, Tried
  <2>4. CASE tryDeleteExecute(t)
    <3>1. \A u \in Threads : u # t => pc'[u] = pc[u] /\ job'[u] = job[u]
      BY <1>3, <2>4 DEF tryDeleteExecute, Tried, Take
    <3>2. inlined' = inlined
          \/ (taskStatus[forced[t]] = "notStarted" /\ inlined' = [inlined EXCEPT ![forced[t]] = t])
      BY <2>4 DEF tryDeleteExecute
    <3>3. \A x \in Tasks : taskStatus[x] \in Started => inlined'[x] = inlined[x]
      BY <3>2 DEF FinishInv
    <3>4. QED
      BY <3>1, <3>3
  <2>5. QED
    BY <1>3, <2>1, <2>2, <2>3, <2>4 DEF Proceed
<1>4. CASE SpuriousWakeup(t)
  BY <1>4 DEF SpuriousWakeup
<1>5. QED
  BY <1>1, <1>2, <1>3, <1>4

(* A step that leaves a client on the same side of its attempt. *)
LEMMA TryStays ==
  ASSUME IInv, [Next]_vars, NEW c \in Clients, Try(c),
         op'[c] = op[c], forced'[c] = forced[c], group'[c] = group[c], todo'[c] = todo[c],
         pc'[c] = "inline" =>
           pc[c] = "inline" /\ job'[c] = job[c] /\ inlined'[forced[c]] = inlined[forced[c]],
         Past(c)' => Past(c),
         pc'[c] \in {"delete", "inline"} => pc[c] \in {"delete", "inline"},
         op[c] = "parallel" /\ pc'[c] \in {"check", "waiting"} => pc[c] \in {"check", "waiting"}
  PROVE  Try(c)'
<1>1. group[c] \in Seq(Tasks) /\ todo[c] \in Seq(Tasks) /\ (Past(c) => forced[c] \in Tasks)
  BY DEF IInv, TypeInv, Control, Forcing, Past
<1>2. Through(c, Started) => Through(c, Started)'
  BY <1>1, StartedForGood, ThroughStays
<1>3. \A i \in DOMAIN group[c] : group[c][i] \in Tasks
  BY <1>1
<1>4. QED
  BY <1>1, <1>2, <1>3, StartedForGood DEF Try

(* The attempt is over when the task is started. *)
LEMMA TriedTry ==
  ASSUME IInv, [Next]_vars, NEW c \in Clients, Try(c), Tried(c), UNCHANGED <<op, group>>,
         pc[c] \in {"delete", "inline"}, taskStatus'[forced[c]] \in Started
  PROVE  Try(c)'
<1>0. /\ TypeInv /\ Control /\ c \in Threads /\ group[c] \in Seq(Tasks) /\ todo[c] \in Seq(Tasks)
  BY DEF IInv, TypeInv, Threads
<1>e. ASSUME NEW l, pc' = [pc EXCEPT ![c] = l] PROVE pc'[c] = l
  BY <1>0, <1>e DEF TypeInv
<1>1. CASE op[c] # "parallel"
  BY <1>e, <1>1 DEF Tried, Try, Past, Goto
<1>2. CASE op[c] = "parallel" /\ todo[c] # <<>>
  <2>1. /\ pc'[c] = "delete" /\ forced'[c] = Head(todo[c]) /\ todo'[c] = Tail(todo[c])
        /\ group'[c] = group[c] /\ op'[c] = op[c]
    BY <1>0, <1>e, <1>2 DEF Tried, Goto, TypeInv
  <2>2. Through(c, Started)'
    BY <1>0, <1>2, <2>1, StartedForGood, ThroughNext DEF Try
  <2>3. QED
    BY <2>1, <2>2 DEF Try, Past
<1>3. CASE op[c] = "parallel" /\ todo[c] = <<>>
  <2>1. /\ pc'[c] = "check" /\ forced'[c] = Head(group[c]) /\ group'[c] = group[c] /\ group[c] # <<>>
    BY <1>0, <1>e, <1>3 DEF Tried, Goto, TypeInv, Control
  <2>2. \A i \in DOMAIN group[c] : taskStatus'[group[c][i]] \in Started
    <3>1. PICK n \in Nat : n = Len(group[c]) /\ DOMAIN group[c] = 1..n
      BY <1>0
    <3>2. n - Len(todo[c]) = n
      BY <1>3, <3>1
    <3>3. forced[c] = group[c][n] /\ \A i \in 1..(n - 1) : taskStatus[group[c][i]] \in Started
      BY <1>3, <3>1, <3>2 DEF Through, Try
    <3>4. \A i \in 1..n : i = n \/ i \in 1..(n - 1)
      BY <3>1
    <3>5. \A i \in 1..n : group[c][i] \in Tasks
      BY <1>0, <3>1
    <3>6. QED
      BY <3>1, <3>3, <3>4, <3>5, StartedForGood
  <2>3. Head(group[c]) = group[c][1] /\ 1 \in DOMAIN group[c]
    BY <1>0, <2>1
  <2>4. QED
    BY <2>1, <2>2, <2>3 DEF Try, Past
<1>4. QED
  BY <1>1, <1>2, <1>3

LEMMA NextTryInv ==
  IInv /\ FinishInv /\ GroupInv /\ GroupInv' /\ TryInv /\ [Next]_vars => TryInv'
<1> SUFFICES ASSUME IInv, FinishInv, GroupInv, GroupInv', TryInv, [Next]_vars,
                    NEW c \in Clients
             PROVE  Try(c)'
  BY DEF TryInv
<1>0. TypeInv /\ Control /\ Core
  BY DEF IInv
<1>c. /\ c \in Threads /\ c \notin Workers /\ Try(c)
      /\ group[c] \in Seq(Tasks) /\ todo[c] \in Seq(Tasks)
  BY <1>0, PoolAssumption DEF TypeInv, Threads, TryInv
<1>e. ASSUME NEW l, pc' = [pc EXCEPT ![c] = l] PROVE pc'[c] = l
  BY <1>0, <1>c, <1>e DEF TypeInv
<1>1. CASE UNCHANGED <<pc, job, client, inlined>>
  BY <1>1, <1>c, TryStays DEF client, Past
<1>2. ASSUME NEW t \in Threads, t # c,
             Loop(t) \/ (t \in Clients /\ (Calls(t) \/ Proceed(t))) \/ SpuriousWakeup(t)
      PROVE  Try(c)'
  <2>1. /\ pc'[c] = pc[c] /\ op'[c] = op[c] /\ forced'[c] = forced[c]
        /\ group'[c] = group[c] /\ todo'[c] = todo[c]
    BY <1>0, <1>2, OthersCall
  <2>2. job'[c] = job[c] /\ \A x \in Tasks : taskStatus[x] \in Started => inlined'[x] = inlined[x]
    BY <1>0, <1>2, <1>c, OthersJob
  <2>3. pc[c] = "inline" => forced[c] \in Tasks /\ taskStatus[forced[c]] \in Started
    BY <1>0, <1>c DEF Core, Jobs, Try, Started
  <2>4. QED
    BY <1>c, <2>1, <2>2, <2>3, TryStays DEF Past
<1> USE DEF Goto
<1>3. CASE Loop(c)
  <2>0. pc[c] # "inline" /\ UNCHANGED client
    BY <1>3 DEF Loop, executeWorkLoop, pop, NoTask, doJob, notifyWaiters
  <2>1. CASE executeWorkLoop(c) \/ NoTask(c)
    <3>1. pc'[c] \in {"join", "pop", "loop"}
      BY <1>c, <1>e, <2>1 DEF executeWorkLoop, NoTask, Leave
    <3>2. QED
      BY <3>1 DEF Try, Past
  <2>2. CASE pop(c)
    <3>1. pc'[c] \in {"run", "sleep", "null"} /\ op[c] = "finish"
      BY <1>0, <1>e, <2>2 DEF pop, Control
    <3>2. QED
      BY <2>0, <3>1 DEF Try, Past, client
  <2>3. CASE doJob(c) \/ notifyWaiters(c)
    <3>1. /\ pc[c] \in {"run", "notify"} /\ op[c] \in {"work", "finish"}
          /\ pc'[c] \in {"notify", "check", "loop"} /\ (pc'[c] = "check" => op[c] # "finish")
      BY <1>c, <1>e, <2>3 DEF doJob, notifyWaiters, GroupInv
    <3>2. QED
      BY <1>c, <2>0, <3>1, TryStays DEF Past, client
  <2>4. QED
    BY <1>3, <2>1, <2>2, <2>3 DEF Loop
<1>4. CASE Calls(c)
  <2>1. \/ pc' = pc /\ pc[c] = "idle"
        \/ \E l \in {"direct", "loop"} : pc' = [pc EXCEPT ![c] = l]
        \/ \E kind \in {"spin", "yield", "work"} :
             op' = [op EXCEPT ![c] = kind] /\ pc' = [pc EXCEPT ![c] = "delete"]
    BY <1>4 DEF Calls, put, ForceTask, submitAndExecute, stop, finish, Call, Perform
  <2>2. pc'[c] \in {"idle", "direct", "loop"} \/ (pc'[c] = "delete" /\ op'[c] # "parallel")
    BY <1>0, <1>e, <2>1 DEF TypeInv
  <2>3. QED
    BY <2>2 DEF Try, Past
<1>t. ASSUME Tried(c), UNCHANGED <<op, group>>, pc[c] \in {"delete", "inline"},
             taskStatus'[forced[c]] \in Started
      PROVE  Try(c)'
  BY <1>c, <1>t, TriedTry
<1>r. ASSUME Return(c), Done(c), UNCHANGED <<op, group, taskStatus>>, pc[c] \in {"check", "waiting"}
      PROVE  Try(c)'
  <2>1. CASE pc'[c] = "idle"
    BY <2>1 DEF Try, Past
  <2>2. CASE op[c] = "parallel" /\ pc'[c] = "check"
    <3>1. \A i \in DOMAIN group'[c] : taskStatus'[group'[c][i]] \in Started
      BY <1>c, <1>r, <2>2 DEF Try
    <3>2. Waited(c)'
      BY <1>r, <2>2 DEF GroupInv
    <3>3. \E k \in DOMAIN group'[c] : forced'[c] = group'[c][k]
      <4>1. group'[c] \in Seq(Tasks)
        BY <1>c, <1>r
      <4>2. \E k \in 1..Len(group'[c]) : forced'[c] = group'[c][k]
        BY <3>2 DEF Waited, Through
      <4>3. QED
        BY <4>1, <4>2
    <3>4. QED
      BY <1>r, <2>2, <3>1, <3>3 DEF Try, Past
  <2>3. QED
    BY <1>e, <1>r, <2>1, <2>2 DEF Return
<1>5. CASE Proceed(c) /\ ~Loop(c)
  <2>1. CASE join(c) \/ InlineJobThrowsError(c)
    <3>1. pc'[c] = "idle"
      BY <1>e, <2>1 DEF join, InlineJobThrowsError
    <3>2. QED
      BY <3>1 DEF Try, Past
  <2>2. CASE DirectJob(c)
    <3>1. /\ pc'[c] = "delete" /\ group'[c] = group[c]
          /\ forced' = [forced EXCEPT ![c] = Head(group[c])]
          /\ todo' = [todo EXCEPT ![c] = Tail(group[c])]
      BY <1>e, <2>2 DEF DirectJob
    <3>2. forced'[c] = Head(group[c]) /\ todo'[c] = Tail(group[c])
      BY <1>0, <3>1 DEF TypeInv
    <3>3. group[c] # <<>>
      BY <1>0, <2>2 DEF DirectJob, Control
    <3>4. Through(c, Started)'
      BY <1>c, <3>1, <3>2, <3>3, ThroughFirst
    <3>5. QED
      BY <3>1, <3>4 DEF Try, Past
  <2>3. CASE tryDeleteExecute(c)
    <3>0. forced[c] \in Tasks
      BY <1>0, <2>3 DEF tryDeleteExecute, Control, Forcing
    <3>1. CASE taskStatus[forced[c]] = "notStarted"
      <4>1. /\ pc'[c] = "inline" /\ job'[c] = forced[c] /\ inlined'[forced[c]] = c
            /\ UNCHANGED <<op, forced, group, todo>> /\ pc[c] = "delete"
        BY <1>0, <1>c, <1>e, <2>3, <3>0, <3>1 DEF tryDeleteExecute, Take, TypeInv, FinishInv
      <4>2. op[c] = "parallel" => Through(c, Started)'
        BY <1>c, <4>1, StartedForGood, ThroughStays DEF Try
      <4>3. QED
        BY <4>1, <4>2 DEF Try, Past
    <3>2. CASE taskStatus[forced[c]] # "notStarted"
      <4>1. taskStatus'[forced[c]] \in Started
        BY <1>0, <2>3, <3>0, <3>2 DEF tryDeleteExecute, TypeInv, Started
      <4>2. QED
        BY <1>t, <2>3, <3>2, <4>1 DEF tryDeleteExecute
    <3>3. QED
      BY <3>1, <3>2
  <2>4. CASE InlineJob(c)
    <3>1. job[c] = forced[c] /\ forced[c] \in Tasks
      BY <1>0, <1>c, <2>4 DEF InlineJob, Try, Control, Forcing
    <3>2. taskStatus'[forced[c]] \in Started
      BY <1>0, <2>4, <3>1 DEF InlineJob, TypeInv, Started
    <3>3. QED
      BY <1>t, <2>4, <3>2 DEF InlineJob
  <2>5. CASE spinForce(c)
    BY <1>r, <2>5 DEF spinForce, tasks
  <2>6. CASE yieldForce(c)
    <3>1. CASE Done(c)
      BY <1>r, <2>6, <3>1 DEF yieldForce, tasks
    <3>2. CASE ~Done(c)
      <4>1. pc'[c] = "waiting" /\ UNCHANGED <<op, forced, group, todo>>
            /\ pc[c] \in {"check", "waiting"}
        BY <1>e, <2>6, <3>2 DEF yieldForce
      <4>2. QED
        BY <1>c, <4>1, TryStays DEF Past
    <3>3. QED
      BY <3>1, <3>2
  <2>7. CASE workForce(c)
    <3>1. CASE Done(c)
      BY <1>r, <2>7, <3>1 DEF workForce, tasks
    <3>2. CASE ~Done(c)
      <4>1. pc'[c] = "steal" /\ UNCHANGED <<op, forced, group, todo>> /\ pc[c] = "check"
        BY <1>e, <2>7, <3>2 DEF workForce
      <4>2. QED
        BY <1>c, <4>1, TryStays DEF Past
    <3>3. QED
      BY <3>1, <3>2
  <2>8. CASE workForcePop(c)
    <3>1. pc[c] = "steal" /\ op[c] = "work" /\ UNCHANGED <<forced, group, todo>>
      BY <1>0, <2>8 DEF workForcePop, Control
    <3>2. (pc'[c] = "run" /\ op'[c] = op[c]) \/ (pc'[c] = "delete" /\ op'[c] = "yield")
      BY <1>0, <1>e, <2>8 DEF workForcePop, TypeInv
    <3>3. CASE pc'[c] = "run"
      BY <1>c, <3>1, <3>2, <3>3, TryStays DEF Past
    <3>4. CASE pc'[c] = "delete"
      BY <3>2, <3>4 DEF Try, Past
    <3>5. QED
      BY <3>2, <3>3, <3>4
  <2>9. QED
    BY <1>5, <2>1, <2>2, <2>3, <2>4, <2>5, <2>6, <2>7, <2>8 DEF Proceed
<1>6. QED
  <2>1. CASE UNCHANGED vars
    BY <1>1, <2>1 DEF vars, history
  <2>2. CASE Next
    <3>1. PICK t \in Threads :
            Loop(t) \/ (t \in Clients /\ (Calls(t) \/ Proceed(t))) \/ SpuriousWakeup(t)
      BY <2>2, SomeThread
    <3>2. CASE t # c
      BY <1>2, <3>1, <3>2
    <3>3. CASE t = c /\ ~SpuriousWakeup(t)
      BY <1>3, <1>4, <1>5, <3>1, <3>3
    <3>4. CASE SpuriousWakeup(t)
      BY <1>1, <3>4 DEF SpuriousWakeup, history
    <3>5. QED
      BY <3>2, <3>3, <3>4
  <2>3. QED
    BY <2>1, <2>2

LEMMA TryInvHolds == Spec => []TryInv
<1>1. Init => TryInv
  BY PoolAssumption DEF Init, TryInv, Try, Past, Threads
<1>2. QED
  BY <1>1, NextTryInv, IInvHolds, FinishInvHolds, GroupInvHolds, PTL DEF Spec

(* A task that a client has taken is done, or the client executes it, or   *)
(* its job has thrown an Error.                                            *)
Taken ==
  \A x \in Tasks :
    inlined[x] # Null =>
      \/ taskStatus[x] = "done" \/ runs[x] = 1
      \/ pc[inlined[x]] = "inline" /\ job[inlined[x]] = x

LEMMA NextTaken == IInv /\ FinishInv /\ TryInv /\ Taken /\ [Next]_vars => Taken'
<1> SUFFICES ASSUME IInv, FinishInv, TryInv, Taken, [Next]_vars, NEW x \in Tasks,
                    inlined'[x] # Null
             PROVE  \/ taskStatus'[x] = "done" \/ runs'[x] = 1
                    \/ pc'[inlined'[x]] = "inline" /\ job'[inlined'[x]] = x
  BY DEF Taken
<1>0. TypeInv /\ Control /\ Core
  BY DEF IInv
<1> USE DEF Goto
<1>1. CASE UNCHANGED <<taskStatus, runs, inlined, pc, job>>
  BY <1>1 DEF Taken
<1>2. ASSUME NEW t \in Threads,
             Loop(t) \/ (t \in Clients /\ (Calls(t) \/ Proceed(t))) \/ SpuriousWakeup(t)
      PROVE  \/ taskStatus'[x] = "done" \/ runs'[x] = 1
             \/ pc'[inlined'[x]] = "inline" /\ job'[inlined'[x]] = x
  <2>1. \A u \in Threads : u # t => pc'[u] = pc[u] /\ job'[u] = job[u]
    BY <1>0, <1>2, OthersJob
  <2>2. CASE inlined'[x] # inlined[x]
    <3>1. t \in Clients /\ tryDeleteExecute(t) /\ taskStatus[forced[t]] = "notStarted"
      BY <1>2, <2>2 DEF Loop, executeWorkLoop, pop, NoTask, doJob, notifyWaiters, Calls, put,
         ForceTask, submitAndExecute, stop, finish, Proceed, join, DirectJob, spinForce,
         yieldForce, workForce, tryDeleteExecute, workForcePop, InlineJob, InlineJobThrowsError,
         SpuriousWakeup, history
    <3>2. /\ pc' = [pc EXCEPT ![t] = "inline"] /\ job' = [job EXCEPT ![t] = forced[t]]
          /\ inlined' = [inlined EXCEPT ![forced[t]] = t]
      BY <3>1 DEF tryDeleteExecute, Take
    <3>3. x = forced[t] /\ inlined'[x] = t
      BY <2>2, <3>2 DEF FinishInv
    <3>4. QED
      BY <1>0, <3>2, <3>3 DEF TypeInv
  <2>3. CASE inlined'[x] = inlined[x]
    <3>1. CASE taskStatus[x] = "done"
      BY <3>1, DoneForGood
    <3>2. CASE runs[x] = 1
      <4>1. pc[t] \in {"run", "inline"} => job[t] # x
        BY <1>0, <3>2 DEF Core, Jobs
      <4>2. runs' = runs
            \/ (pc[t] \in {"run", "inline"} /\ runs' = [runs EXCEPT ![job[t]] = @ + 1])
        BY <1>2 DEF Loop, executeWorkLoop, pop, NoTask, doJob, notifyWaiters, Calls, put,
           ForceTask, submitAndExecute, stop, finish, Proceed, join, DirectJob, spinForce,
           yieldForce, workForce, tryDeleteExecute, workForcePop, InlineJob,
           InlineJobThrowsError, SpuriousWakeup, history
      <4>3. QED
        BY <1>0, <3>2, <4>1, <4>2 DEF TypeInv
    <3>3. CASE pc[inlined[x]] = "inline" /\ job[inlined[x]] = x
      <4>0. inlined[x] \in Clients /\ inlined[x] \in Threads
        BY <2>3 DEF FinishInv, Threads
      <4>1. CASE inlined[x] # t
        BY <2>1, <2>3, <3>3, <4>0, <4>1
      <4>2. CASE inlined[x] = t
        <5>1. CASE SpuriousWakeup(t)
          BY <2>3, <3>3, <5>1 DEF SpuriousWakeup
        <5>2. CASE InlineJob(t)
          BY <1>0, <3>3, <4>2, <5>2 DEF InlineJob, TypeInv
        <5>3. CASE InlineJobThrowsError(t)
          <6>1. runs[x] = 0
            BY <1>0, <3>3, <4>0, <4>2 DEF Core, Jobs
          <6>2. QED
            BY <1>0, <3>3, <4>2, <5>3, <6>1 DEF InlineJobThrowsError, TypeInv
        <5>4. QED
          BY <1>2, <3>3, <4>2, <5>1, <5>2, <5>3 DEF Loop, executeWorkLoop, pop, NoTask, doJob,
             notifyWaiters, Calls, put, ForceTask, submitAndExecute, stop, finish, Call, Proceed,
             join, DirectJob, spinForce, yieldForce, workForce, tryDeleteExecute, workForcePop
      <4>3. QED
        BY <4>1, <4>2
    <3>4. QED
      BY <2>3, <3>1, <3>2, <3>3 DEF Taken
  <2>4. QED
    BY <2>2, <2>3
<1>3. CASE UNCHANGED vars
  BY <1>1, <1>3 DEF vars, tasks, history
<1>4. CASE Next
  BY <1>2, <1>4, SomeThread
<1>5. QED
  BY <1>3, <1>4

LEMMA TakenHolds == Spec => []Taken
<1>1. Init => Taken
  BY DEF Init, Taken
<1>2. QED
  BY <1>1, NextTaken, IInvHolds, FinishInvHolds, TryInvHolds, PTL DEF Spec

(* Only clients sleep on waiterCondition, and when the task of one of them *)
(* is done, its end is about to be announced, or another client took it.   *)
WaiterInv ==
  /\ waiterCondition \subseteq {c \in Clients : pc[c] = "waiting"}
  /\ \A c \in waiterCondition :
       Done(c) => \/ \E t \in Threads : pc[t] = "notify"
                  \/ inlined[forced[c]] \notin {Null, c}

LEMMA NextWaiterInv == IInv /\ FinishInv /\ TryInv /\ WaiterInv /\ [Next]_vars => WaiterInv'
<1> SUFFICES ASSUME IInv, FinishInv, TryInv, WaiterInv, [Next]_vars PROVE WaiterInv'
  OBVIOUS
<1>0. TypeInv /\ Control /\ Core
  BY DEF IInv
<1> USE DEF Goto
<1>1. CASE UNCHANGED vars
  <2>1. UNCHANGED <<waiterCondition, pc, taskStatus, forced, inlined>>
    BY <1>1 DEF vars, tasks, conditions, client, history
  <2>2. QED
    BY <2>1 DEF WaiterInv, Done
<1>2. ASSUME NEW t \in Threads,
             Loop(t) \/ (t \in Clients /\ (Calls(t) \/ Proceed(t))) \/ SpuriousWakeup(t)
      PROVE  WaiterInv'
  <2>1. CASE notifyWaiters(t)
    BY <2>1 DEF notifyWaiters, notifyAll, WaiterInv
  <2>2. CASE ~notifyWaiters(t)
    <3>1. pc[t] # "notify" \/ SpuriousWakeup(t)
      BY <1>2, <2>2 DEF Loop, executeWorkLoop, pop, NoTask, doJob, Calls, put, ForceTask,
         submitAndExecute, stop, finish, Call, Proceed, join, DirectJob, spinForce, yieldForce,
         workForce, tryDeleteExecute, workForcePop, InlineJob, InlineJobThrowsError
    <3>2. \A u \in Threads : u # t => pc'[u] = pc[u] /\ job'[u] = job[u]
      BY <1>0, <1>2, OthersJob
    <3>3. \A u \in Threads : pc[u] = "notify" => pc'[u] = "notify"
      BY <3>1, <3>2 DEF SpuriousWakeup
    <3>4. \/ waiterCondition' \subseteq waiterCondition
          \/ /\ t \in Clients /\ pc' = [pc EXCEPT ![t] = "waiting"] /\ ~Done(t)
             /\ waiterCondition' = waiterCondition \cup {t} /\ UNCHANGED <<taskStatus, forced>>
      BY <1>2, <2>2 DEF Loop, executeWorkLoop, pop, NoTask, doJob, Calls, put, ForceTask,
         submitAndExecute, stop, finish, Call, Proceed, join, DirectJob, spinForce, yieldForce,
         workForce, tryDeleteExecute, workForcePop, InlineJob, InlineJobThrowsError,
         SpuriousWakeup, wait, wakeUp, conditions, tasks
    <3>5. t \in waiterCondition => SpuriousWakeup(t) \/ t \notin waiterCondition'
      <4> SUFFICES ASSUME t \in waiterCondition PROVE SpuriousWakeup(t)
        OBVIOUS
      <4>1. t \in Clients /\ pc[t] = "waiting"
        BY DEF WaiterInv
      <4>2. QED
        BY <1>2, <2>2, <4>1 DEF Loop, executeWorkLoop, pop, NoTask, doJob, Calls, put, ForceTask,
           submitAndExecute, stop, finish, Call, Proceed, join, DirectJob, spinForce, yieldForce,
           workForce, tryDeleteExecute, workForcePop, InlineJob, InlineJobThrowsError
    <3>6. ASSUME NEW c \in waiterCondition', c \in waiterCondition
          PROVE  /\ c \in Clients /\ c \in Threads /\ pc[c] = "waiting" /\ pc'[c] = "waiting"
                 /\ forced'[c] = forced[c] /\ forced[c] \in Tasks
      <4>1. c \in Clients /\ c \in Threads /\ pc[c] = "waiting"
        BY <3>6 DEF WaiterInv, Threads
      <4>2. CASE c # t
        BY <1>0, <1>2, <4>1, <4>2, OthersCall DEF Control, Forcing
      <4>3. CASE c = t
        <5>1. SpuriousWakeup(t)
          BY <3>5, <3>6, <4>3
        <5>2. QED
          BY <1>0, <4>1, <5>1 DEF SpuriousWakeup, client, Control, Forcing
      <4>4. QED
        BY <4>2, <4>3
    <3>7. waiterCondition' \subseteq {c \in Clients : pc'[c] = "waiting"}
      BY <1>0, <3>4, <3>6 DEF TypeInv, Threads
    <3>8. ASSUME NEW c \in waiterCondition', Done(c)'
          PROVE  \/ \E u \in Threads : pc'[u] = "notify"
                 \/ inlined'[forced'[c]] \notin {Null, c}
      <4>1. CASE c \notin waiterCondition
        BY <3>4, <3>8, <4>1 DEF Done
      <4>2. CASE c \in waiterCondition /\ Done(c)
        <5>1. inlined'[forced[c]] = inlined[forced[c]]
          BY <1>0, <1>2, <3>6, <4>2, OthersJob DEF Done, Started
        <5>2. QED
          BY <3>3, <3>6, <4>2, <5>1 DEF WaiterInv
      <4>3. CASE c \in waiterCondition /\ ~Done(c)
        <5>1. taskStatus'[forced[c]] = "done" /\ taskStatus[forced[c]] # "done"
          BY <3>6, <3>8, <4>3 DEF Done
        <5>2. doJob(t) \/ (t \in Clients /\ InlineJob(t))
          <6>1. ASSUME NEW y \in Tasks, taskStatus' = [taskStatus EXCEPT ![y] = "inProgress"]
                PROVE  FALSE
            BY <1>0, <3>6, <4>3, <5>1, <6>1 DEF TypeInv
          <6>2. taskStatus' # taskStatus
            BY <5>1
          <6>3. CASE pop(t) \/ (t \in Clients /\ workForcePop(t))
            BY <1>0, <6>1, <6>2, <6>3, HeadQueued DEF pop, workForcePop, Take
          <6>4. CASE t \in Clients /\ tryDeleteExecute(t)
            BY <1>0, <6>1, <6>2, <6>4 DEF tryDeleteExecute, Take, Control, Forcing
          <6>5. QED
            BY <1>2, <6>2, <6>3, <6>4 DEF Loop, executeWorkLoop, NoTask, notifyWaiters, Calls,
               put, ForceTask, submitAndExecute, stop, finish, Proceed, join, DirectJob,
               spinForce, yieldForce, workForce, InlineJobThrowsError, SpuriousWakeup, tasks
        <5>3. CASE doJob(t)
          BY <1>0, <5>3 DEF doJob, TypeInv
        <5>4. CASE t \in Clients /\ InlineJob(t)
          <6>1. forced[c] = job[t] /\ pc[t] = "inline" /\ inlined' = inlined
            BY <1>0, <3>6, <4>3, <5>1, <5>4 DEF InlineJob, TypeInv
          <6>2. inlined[job[t]] = t /\ t # c
            BY <3>6, <4>3, <5>4, <6>1 DEF TryInv, Try
          <6>3. t # Null
            BY PoolAssumption
          <6>4. QED
            BY <3>6, <4>3, <6>1, <6>2, <6>3
        <5>5. QED
          BY <5>2, <5>3, <5>4
      <4>4. QED
        BY <4>1, <4>2, <4>3
    <3>9. QED
      BY <3>7, <3>8 DEF WaiterInv
  <2>3. QED
    BY <2>1, <2>2
<1>3. CASE Next
  BY <1>2, <1>3, SomeThread
<1>4. QED
  BY <1>1, <1>3

(* A client sleeps in a force only while its task is executed by a thread  *)
(* that notifies afterwards, or one is about to notify.  The two           *)
(* exceptions are those of ForceReturns: another client took the task out  *)
(* of the queue, or its job threw an Error in tryDeleteExecute.            *)
SleepersServed ==
  \A c \in waiterCondition :
    \/ \E t \in Threads : pc[t] = "run" /\ job[t] = forced[c]
    \/ \E t \in Threads : pc[t] = "notify"
    \/ inlined[forced[c]] \notin {Null, c}
    \/ Abandoned(forced[c])

(* For any number of workers, clients and tasks, in yieldForce as well as  *)
(* in submitAndExecute: nobody waits for a task that nobody has started,   *)
(* and no notification of its end is lost.                                 *)
THEOREM SleepersServedHolds == Spec => []SleepersServed
<1>1. Init => WaiterInv
  BY DEF Init, WaiterInv
<1>2. Spec => []WaiterInv
  BY <1>1, NextWaiterInv, IInvHolds, FinishInvHolds, TryInvHolds, PTL DEF Spec
<1>3. IInv /\ FinishInv /\ TryInv /\ Taken /\ WaiterInv => SleepersServed
  <2> SUFFICES ASSUME IInv, FinishInv, TryInv, Taken, WaiterInv, NEW c \in waiterCondition,
                      \A t \in Threads : pc[t] # "notify", inlined[forced[c]] \in {Null, c}
               PROVE  \/ \E t \in Threads : pc[t] = "run" /\ job[t] = forced[c]
                      \/ Abandoned(forced[c])
    BY DEF SleepersServed
  <2>1. c \in Clients /\ pc[c] = "waiting" /\ forced[c] \in Tasks
    BY DEF WaiterInv, IInv, Control, Forcing
  <2>2. taskStatus[forced[c]] = "inProgress"
    BY <2>1 DEF WaiterInv, TryInv, Try, Past, Started, Done
  <2>3. CASE inlined[forced[c]] = Null
    BY <2>1, <2>2, <2>3 DEF FinishInv, InHands
  <2>4. CASE inlined[forced[c]] = c /\ c # Null
    BY <2>1, <2>2, <2>4 DEF Taken, Abandoned
  <2>5. QED
    BY <2>3, <2>4
<1>4. QED
  BY <1>2, <1>3, IInvHolds, FinishInvHolds, TryInvHolds, TakenHolds, PTL
=============================================================================
