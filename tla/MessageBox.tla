------------------------------ MODULE MessageBox ------------------------------
(***************************************************************************)
(* std.concurrency.MessageBox: the mailbox of one logical thread (the      *)
(* receiver) and the threads that send to it.  m_lock protects the shared  *)
(* lists; the local lists belong to the receiver, which moves messages to  *)
(* them and searches them without the lock.  One action runs from one wait *)
(* (or call) to the next wait (or return).                                 *)
(*                                                                         *)
(* A message is its kind, its sender and a serial number.  The kind of a   *)
(* standard message stands for the types of its values: a receive names    *)
(* the kinds its delegates accept, the rest stays in the mailbox.          *)
(***************************************************************************)
EXTENDS Integers, Sequences, FiniteSets, Functions, CondVar

OnCrowding == {"block", "throwException", "ignore"}

CONSTANTS
  Receiver,
  Senders,
  Linked,      \* senders the receiver started with spawnLinked; the others
               \* it started with spawn, except for its owner
  Owner,       \* the owner of the receiver: a sender, or Receiver for none
  Kinds,       \* kinds of standard messages
  KindsOf,     \* the kinds, "priority" included, that each sender sends
  Mortal,      \* senders that may terminate
  OpsSets,     \* the sets of kinds that calls of receive may accept
  Limits,      \* arguments of setMaxMailboxSize that occur
  Behaviors,   \* the OnCrowding arguments that occur
  LateLimits,  \* whether the limit may change once messages have been sent
  MaxSends,    \* bound on the messages of each sender
  CanClose     \* whether the receiver may terminate

ASSUME MessageBoxAssumption ==
  /\ IsFiniteSet(Senders)
  /\ Receiver \notin Senders
  /\ Linked \subseteq Senders
  /\ Owner \in (Senders \ Linked) \union {Receiver}
  /\ {"priority", "linkDead"} \intersect Kinds = {}
  /\ KindsOf \in [Senders -> SUBSET (Kinds \union {"priority"})]
  /\ Mortal \subseteq Senders
  /\ OpsSets \subseteq SUBSET (Kinds \union {"priority"})
  /\ Limits \subseteq Nat
  /\ Behaviors \subseteq OnCrowding
  /\ LateLimits \in BOOLEAN
  /\ MaxSends \in [Senders -> Nat]
  /\ CanClose \in BOOLEAN

VARIABLES
  m_closed, m_maxMsgs, m_onMaxMsgs,
  m_sharedBox, m_sharedPty,    \* the lists senders put messages in
  m_localBox, m_localPty,      \* the lists of the receiver
  m_localMsgs,                 \* Len(m_localBox) as of the last get
  m_putQueue,                  \* senders in or just back from m_notFull.wait
  m_putMsg, m_notFull,         \* the threads asleep on each condition
  links, owner,                \* thisInfo of the receiver
  pc,          \* the receiver is idle, or in get: about to search the local
               \* lists, about to enter m_lock, asleep, or awake after its time
               \* was up; or it has closed
  ops, timed,  \* arguments of the current get
  pending,     \* the message of a put that waits for room
  sent,        \* messages sent by each sender so far
  dead,        \* senders that have terminated
  accepted,    \* history: the messages that entered the mailbox, in order
  received     \* history: the messages the receiver took, in order

shared   == <<m_sharedBox, m_sharedPty>>
local    == <<m_localBox, m_localPty>>
limits   == <<m_maxMsgs, m_onMaxMsgs>>
waits    == <<m_putQueue, m_notFull>>
senders  == <<pending, sent, dead>>
receiver == <<links, owner, pc, ops, timed, received>>
vars == <<m_closed, limits, shared, local, m_localMsgs, waits, m_putMsg,
          receiver, senders, accepted>>

\* _spawn has recorded every thread that the receiver started in its links,
\* and the receiver's owner in the receiver's thisInfo.
Spawned == Senders \ {Owner}

NoMsg == [kind |-> "none", from |-> Receiver, n |-> 0]

Init ==
  /\ m_closed = FALSE
  /\ m_maxMsgs = 0
  /\ m_onMaxMsgs = "null"
  /\ m_sharedBox = <<>>
  /\ m_sharedPty = <<>>
  /\ m_localBox = <<>>
  /\ m_localPty = <<>>
  /\ m_localMsgs = 0
  /\ m_putQueue = 0
  /\ m_putMsg = {}
  /\ m_notFull = {}
  /\ links = Spawned
  /\ owner = Owner
  /\ pc = "idle"
  /\ ops = {}
  /\ timed = FALSE
  /\ pending = [s \in Senders |-> NoMsg]
  /\ sent = [s \in Senders |-> 0]
  /\ dead = {}
  /\ accepted = <<>>
  /\ received = <<>>

Full(localMsgs) ==
  m_maxMsgs # 0 /\ m_maxMsgs <= localMsgs + Len(m_sharedBox)

mboxFull == Full(m_localMsgs)

isControlMsg(m) == m.kind = "linkDead"
isPriorityMsg(m) == m.kind = "priority"
-----------------------------------------------------------------------------
(***************************************************************************)
(* put: the loop body.  queued is m_putQueue without this sender.          *)
(***************************************************************************)

\* Mutant: the receiver is not notified.
PutPrioritySilently(m, queued) ==
  /\ isPriorityMsg(m)
  /\ m_sharedPty' = Append(m_sharedPty, m)
  /\ m_putQueue' = queued
  /\ accepted' = Append(accepted, m)
  /\ pending' = [pending EXCEPT ![m.from] = NoMsg]
  /\ UNCHANGED <<m_sharedBox, m_notFull, m_putMsg>>

PutPriority(m, queued) ==
  /\ isPriorityMsg(m)
  /\ m_sharedPty' = Append(m_sharedPty, m)
  /\ m_putMsg' \in notify(m_putMsg)
  /\ m_putQueue' = queued
  /\ accepted' = Append(accepted, m)
  /\ pending' = [pending EXCEPT ![m.from] = NoMsg]
  /\ UNCHANGED <<m_sharedBox, m_notFull>>

PutInBox(m, queued) ==
  /\ ~isPriorityMsg(m)
  /\ ~mboxFull \/ isControlMsg(m)
  /\ m_sharedBox' = Append(m_sharedBox, m)
  /\ m_putMsg' \in notify(m_putMsg)
  /\ m_putQueue' = queued
  /\ accepted' = Append(accepted, m)
  /\ pending' = [pending EXCEPT ![m.from] = NoMsg]
  /\ UNCHANGED <<m_sharedPty, m_notFull>>

\* What m_onMaxMsgs(thisTid) answers: onCrowdingBlock true, onCrowdingIgnore
\* false, and onCrowdingThrow throws MailboxFull.
OnCrowdingBlock == m_onMaxMsgs \in {"null", "block"}

Crowded(m) == mboxFull /\ ~isPriorityMsg(m) /\ ~isControlMsg(m)

\* Mutant: m_putQueue is decremented only when the message goes in.
PutGivesUpQueued(m, queued) ==
  /\ Crowded(m)
  /\ ~OnCrowdingBlock
  /\ pending' = [pending EXCEPT ![m.from] = NoMsg]
  /\ UNCHANGED <<shared, m_putMsg, waits, accepted>>

\* put returns or is left by the exception; a sender that waited has already
\* been taken out of m_putQueue.
PutGivesUp(m, queued) ==
  /\ Crowded(m)
  /\ ~OnCrowdingBlock
  /\ m_putQueue' = queued
  /\ pending' = [pending EXCEPT ![m.from] = NoMsg]
  /\ UNCHANGED <<shared, m_putMsg, m_notFull, accepted>>

PutWaits(m, queued) ==
  /\ Crowded(m)
  /\ OnCrowdingBlock
  /\ m_putQueue' = queued + 1
  /\ m_notFull' = wait(m_notFull, m.from)
  /\ pending' = [pending EXCEPT ![m.from] = m]
  /\ UNCHANGED <<shared, m_putMsg, accepted>>

PutLoop(m, queued) ==
  \/ PutPriority(m, queued) \/ PutInBox(m, queued)
  \/ PutGivesUp(m, queued) \/ PutWaits(m, queued)

\* A closed mailbox drops the message.
put(m) ==
  IF m_closed
    THEN UNCHANGED <<shared, m_putMsg, waits, pending, accepted>>
    ELSE PutLoop(m, m_putQueue)

\* send and prioritySend.
Send(s) ==
  /\ s \notin dead
  /\ pending[s] = NoMsg
  /\ sent[s] < MaxSends[s]
  /\ sent' = [sent EXCEPT ![s] = @ + 1]
  /\ \E kind \in KindsOf[s] :
       put([kind |-> kind, from |-> s, n |-> sent[s] + 1])
  /\ UNCHANGED <<m_closed, limits, local, m_localMsgs, receiver, dead>>

\* m_notFull.wait returned; m_closed is not looked at again.
SendWakes(s) ==
  /\ pending[s] # NoMsg
  /\ s \notin m_notFull
  /\ PutLoop(pending[s], m_putQueue - 1)
  /\ UNCHANGED <<m_closed, limits, local, m_localMsgs, receiver, sent, dead>>

\* ThreadInfo.cleanup of a sender tells the receiver.
Terminate(s) ==
  /\ s \in Mortal \ dead
  /\ pending[s] = NoMsg
  /\ dead' = dead \union {s}
  /\ put([kind |-> "linkDead", from |-> s, n |-> 0])
  /\ UNCHANGED <<m_closed, limits, local, m_localMsgs, receiver, sent>>

\* Wakes nobody.
setMaxMsgs(num, call) ==
  /\ m_maxMsgs' = num
  /\ m_onMaxMsgs' = call
  /\ UNCHANGED <<m_closed, shared, local, m_localMsgs, waits, m_putMsg,
                 receiver, senders, accepted>>

\* Any thread may set, change or remove the limit.
setMaxMailboxSize ==
  \E num \in Limits, call \in Behaviors :
    /\ LateLimits \/ num = m_maxMsgs \/ \A s \in Senders : sent[s] = 0
    /\ setMaxMsgs(num, call)
-----------------------------------------------------------------------------
(***************************************************************************)
(* get                                                                     *)
(***************************************************************************)

\* onLinkDeadMsg ends the search for a linked thread or the owner, by a
\* delegate for the exception or by throwing it; the message is removed in
\* both cases.  For other threads it answers false.
onLinkDeadMsg(m) ==
  \/ m.from \in links \intersect Linked /\ m.from # owner
  \/ m.from = owner

Matches(m, accept) ==
  IF isControlMsg(m) THEN onLinkDeadMsg(m) ELSE m.kind \in accept

Hits(list, accept) == {i \in 1..Len(list) : Matches(list[i], accept)}

Without(list, i) ==
  SubSeq(list, 1, i - 1) \o SubSeq(list, i + 1, Len(list))

\* The threads whose linkDead messages a search has looked at.
DeadIn(list) == {list[i].from : i \in {j \in 1..Len(list) :
                                          isControlMsg(list[j])}}

ForgetLinks(list) ==
  /\ links' = links \ DeadIn(list)
  /\ owner' = IF owner \in DeadIn(list) THEN Receiver ELSE owner

\* get returns or throws.
GetEnds == pc' = "idle" /\ ops' = {} /\ timed' = FALSE

GetGoesOn == pc' = "enter" /\ UNCHANGED <<ops, timed>>

\* Mutant: the last message that matches is taken.
ScanHitLast(list, accept, rest) ==
  /\ Hits(list, accept) # {}
  /\ LET i == CHOOSE j \in Hits(list, accept) :
                \A k \in Hits(list, accept) : j >= k
     IN /\ received' = Append(received, list[i])
        /\ ForgetLinks(SubSeq(list, 1, i))
        /\ m_localBox' = rest \o Without(list, i)
  /\ GetEnds

\* scan: finds the first message that matches, removes it from the list and
\* ends get.
ScanHit(list, accept, rest) ==
  /\ Hits(list, accept) # {}
  /\ LET i == CHOOSE j \in Hits(list, accept) :
                \A k \in Hits(list, accept) : j <= k
     IN /\ received' = Append(received, list[i])
        /\ ForgetLinks(SubSeq(list, 1, i))
        /\ m_localBox' = rest \o Without(list, i)
  /\ GetEnds

ScanMiss(list, accept) ==
  /\ Hits(list, accept) = {}
  /\ ForgetLinks(list)
  /\ GetGoesOn
  /\ UNCHANGED received

\* pty: the first priority message is handled and removed; or it is thrown
\* because no delegate accepts it, or the delegate that was called with it
\* throws: then it stays in the list.  get ends in every case.
Pty(list, accept) ==
  /\ \/ /\ "priority" \in accept
        /\ m_localPty' = Tail(list)
        /\ received' = Append(received, Head(list))
     \/ m_localPty' = list /\ UNCHANGED received
  /\ GetEnds
  /\ UNCHANGED <<links, owner>>

\* get(ops) and get(duration, ops).
Get(accept, isTimed) ==
  /\ pc = "idle"
  /\ pc' = "search"
  /\ ops' = accept
  /\ timed' = isTimed
  /\ UNCHANGED <<m_closed, limits, shared, local, m_localMsgs, waits,
                 m_putMsg, links, owner, received, senders, accepted>>

\* Mutant: only what has just arrived is searched.
GetSearchSkips ==
  /\ pc = "search"
  /\ pc' = "enter"
  /\ UNCHANGED <<m_closed, limits, shared, local, m_localMsgs, waits, m_putMsg,
                 links, owner, ops, timed, received, senders, accepted>>

GetSearch ==
  /\ pc = "search"
  /\ IF m_localPty # <<>>
       THEN Pty(m_localPty, ops) /\ UNCHANGED m_localBox
       ELSE /\ UNCHANGED m_localPty
            /\ \/ ScanHit(m_localBox, ops, <<>>)
               \/ ScanMiss(m_localBox, ops) /\ UNCHANGED m_localBox
  /\ UNCHANGED <<m_closed, limits, shared, m_localMsgs, waits, m_putMsg,
                 senders, accepted>>

NothingShared == m_sharedPty = <<>> /\ m_sharedBox = <<>>

\* Mutant: blocked senders are not told that there is room.
GetWaitsSilently ==
  /\ NothingShared
  /\ \/ /\ pc' = "asleep"
        /\ m_putMsg' = wait(m_putMsg, Receiver)
        /\ UNCHANGED <<ops, timed>>
     \/ timed /\ pc = "enter" /\ GetEnds /\ UNCHANGED m_putMsg
  /\ UNCHANGED <<m_notFull, shared, local, links, owner, received>>

\* Nothing has arrived: wake the senders if there is room, then sleep, or
\* return false if no time is left.
GetWaits ==
  /\ NothingShared
  /\ m_notFull' = IF m_putQueue > 0 /\ ~Full(m_localMsgs')
                    THEN notifyAll(m_notFull) ELSE m_notFull
  /\ \/ /\ pc' = "asleep"
        /\ m_putMsg' = wait(m_putMsg, Receiver)
        /\ UNCHANGED <<ops, timed>>
     \/ timed /\ pc = "enter" /\ GetEnds /\ UNCHANGED m_putMsg
  /\ UNCHANGED <<shared, local, links, owner, received>>

\* Mutant: the priority messages are moved but not looked at first.
GetArrivedBoxFirst ==
  /\ ~NothingShared
  /\ m_sharedPty' = <<>>
  /\ m_sharedBox' = <<>>
  /\ m_localPty' = m_localPty \o m_sharedPty
  /\ \/ ScanHit(m_sharedBox, ops, m_localBox)
     \/ /\ ScanMiss(m_sharedBox, ops)
        /\ m_localBox' = m_localBox \o m_sharedBox
  /\ UNCHANGED <<m_notFull, m_putMsg>>

\* Messages have arrived: take them all and search them without the lock.
GetArrived ==
  /\ ~NothingShared
  /\ m_sharedPty' = <<>>
  /\ m_sharedBox' = <<>>
  /\ LET localPty == m_localPty \o m_sharedPty
     IN IF localPty # <<>>
          THEN /\ m_localBox' = m_localBox \o m_sharedBox
               /\ Pty(localPty, ops)
          ELSE /\ UNCHANGED m_localPty
               /\ \/ ScanHit(m_sharedBox, ops, m_localBox)
                  \/ /\ ScanMiss(m_sharedBox, ops)
                     /\ m_localBox' = m_localBox \o m_sharedBox
  /\ UNCHANGED <<m_notFull, m_putMsg>>

updateMsgCount == m_localMsgs' = Len(m_localBox)

\* The critical section of get and the search that follows.  When nothing
\* matches, the loop searches m_localBox again, in vain, and comes back.
GetEnter ==
  /\ pc = "enter" \/ (pc = "asleep" /\ m_putMsg = {})
  /\ IF pc = "enter" THEN updateMsgCount ELSE UNCHANGED m_localMsgs
  /\ GetWaits \/ GetArrived
  /\ UNCHANGED <<m_closed, limits, m_putQueue, senders, accepted>>

\* The time of m_putMsg.wait(period) is up.  The receiver has to take m_lock
\* again before wait returns, and others may have it first.
TimeIsUp ==
  /\ pc = "asleep"
  /\ timed
  /\ m_putMsg # {}
  /\ m_putMsg' = wakeUp(m_putMsg, Receiver)
  /\ pc' = "late"
  /\ UNCHANGED <<m_closed, limits, shared, local, m_localMsgs, waits, links,
                 owner, ops, timed, received, senders, accepted>>

\* wait(period) answers false, and get does so too without another look at
\* the lists.
GetTimesOut ==
  /\ pc = "late"
  /\ GetEnds
  /\ UNCHANGED <<m_closed, limits, shared, local, m_localMsgs, waits, m_putMsg,
                 links, owner, received, senders, accepted>>

\* ThreadInfo.cleanup of the receiver.  Blocked senders are not woken, and
\* the priority messages stay.
close ==
  /\ CanClose
  /\ pc = "idle"
  /\ pc' = "closed"
  /\ m_closed' = TRUE
  /\ ForgetLinks(m_localBox \o m_sharedBox)
  /\ m_sharedBox' = <<>>
  /\ m_localBox' = <<>>
  /\ UNCHANGED <<limits, m_sharedPty, m_localPty, m_localMsgs, waits,
                 m_putMsg, ops, timed, received, senders, accepted>>

SpuriousWakeup(t) ==
  /\ t \in m_putMsg \union m_notFull
  /\ m_putMsg' = wakeUp(m_putMsg, t)
  /\ m_notFull' = wakeUp(m_notFull, t)
  /\ UNCHANGED <<m_closed, limits, shared, local, m_localMsgs, m_putQueue,
                 receiver, senders, accepted>>
-----------------------------------------------------------------------------
receive == \E accept \in OpsSets : Get(accept, FALSE)

receiveTimeout == \E accept \in OpsSets : Get(accept, TRUE)

Next ==
  \/ \E s \in Senders : Send(s) \/ SendWakes(s) \/ Terminate(s)
  \/ setMaxMailboxSize
  \/ receive \/ receiveTimeout \/ GetSearch \/ GetEnter
  \/ TimeIsUp \/ GetTimesOut \/ close
  \/ \E t \in Senders \union {Receiver} : SpuriousWakeup(t)

Spec == Init /\ [][Next]_vars

\* A delegate is called with a message and takes it.
GetTakes == (GetSearch \/ GetEnter) /\ received' # received

\* A runnable thread runs; the receiver calls receive again and again, and its
\* delegates do not throw every time that they are called with a priority
\* message.
Fairness ==
  /\ WF_vars(receive \/ receiveTimeout)
  /\ WF_vars(GetSearch \/ GetEnter \/ GetTimesOut)
  /\ SF_vars(GetTakes)
  /\ \A s \in Senders : WF_vars(SendWakes(s))

FairSpec == Spec /\ Fairness
-----------------------------------------------------------------------------
Mail == m_localBox \o m_sharedBox

UserMsgs == {m \in Range(Mail) : m.kind \in Kinds}

Before(list, x, y) ==
  \E i, j \in DOMAIN list : i < j /\ list[i] = x /\ list[j] = y

\* The receiver gets exactly the messages that entered the mailbox, each one
\* once; what it has not got is still there; and of every kind, the order is
\* the one in which they entered.  Neither selective receives nor the moves
\* between the shared and the local lists lose, duplicate or reorder a
\* message.
InOrder ==
  LET all == received \o m_localPty \o m_sharedPty \o Mail
  IN  ~m_closed =>
        /\ Range(all) = Range(accepted)
        /\ IsInjective(all)
        /\ \A x, y \in Range(accepted) :
             /\ x.kind = y.kind /\ ~isControlMsg(x)
             /\ Before(accepted, x, y)
             => Before(all, x, y)

\* m_putQueue counts the senders that wait for room, also when a change of
\* the crowding behaviour makes a waiting put throw or give up.
PutQueueExact ==
  m_putQueue = Cardinality({s \in Senders : pending[s] # NoMsg})

\* The mailbox holds up to twice its limit of user messages when the limit is
\* set before they are sent: m_localMsgs lags behind by one get, so the messages
\* that get has just moved do not count.  The documentation promises the limit.
TwiceTheLimit == m_maxMsgs # 0 => Cardinality(UserMsgs) <= 2 * m_maxMsgs

\* A priority message goes ahead of what is in the lists the receiver has
\* not searched yet: nothing that entered the mailbox after it is received
\* before it, not even by a receive that cannot handle it, which throws.
\* Messages that get had already moved to the local list may be received
\* first, although prioritySend says "at the front".
NotOvertaken ==
  \A i \in DOMAIN accepted, j \in DOMAIN received :
    isPriorityMsg(accepted[i]) /\ Before(accepted, accepted[i], received[j])
      => Before(received, accepted[i], received[j])

AcceptsAll(accept) == Kinds \union {"priority"} \subseteq accept

Abstract ==
  INSTANCE Mailbox WITH
    Watched <- Linked \union {Owner},
    open <- ~m_closed,
    entered <- accepted,
    inside <- Range(m_localPty) \union Range(m_sharedPty) \union Range(Mail),
    taken <- received,
    receiving <- pc \in {"search", "enter", "asleep", "late"},
    expired <- pc = "late",
    wanted <- ops,
    hurried <- timed

\* The four lists, the moves between them and the sleeps are one mailbox: every
\* receive, also a selective one, takes the oldest message it accepts, wherever
\* it lies, but that a priority message may go ahead and is not passed over for
\* a younger one; so the death of the owner or of a linked thread is noticed
\* after the messages they sent before, even if earlier receives left those
\* behind.  A receive ends without a message only by an exception over a
\* priority message, or when there was nothing for it while it had time.
ImplementsMailbox == Abstract!Spec

\* The receiver goes on receiving, and not only selectively, until it
\* terminates.
KeepsReceiving == []<>(m_closed \/ AcceptsAll(ops))

\* The linkDead messages that no receive handles: those of threads started with
\* spawn.  Nothing removes them before the mailbox is closed.
Unwanted(m) == isControlMsg(m) /\ m.from \notin Linked \union {Owner}

\* Nothing is left in the mailbox that a receive might take, and yet it is not
\* empty: it may be full.
OnlyUnwanted == Mail # <<>> /\ \A m \in Range(Mail) : Unwanted(m)

\* "this call will block until the owner has made space available": a send
\* that is blocked ends if the receiver keeps receiving, also when the limit or
\* the reaction to crowding changes while it waits.  The code has two exceptions
\* that the documentation does not name: the mailbox comes to hold nothing but
\* messages that nobody handles, or the receiver terminates while the sender
\* sleeps.
SendsEnd ==
  KeepsReceiving =>
    \A s \in Senders :
      pending[s] # NoMsg
        ~> \/ pending[s] = NoMsg
           \/ OnlyUnwanted
           \/ m_closed /\ s \in m_notFull

\* A receiver that keeps receiving gets everything that some receive handles: no
\* wakeup is lost between put and get, and none is lost to a receive whose time
\* is up when the message arrives.
MailboxDrained ==
  KeepsReceiving =>
    []<>(\/ m_closed
         \/ \A m \in Range(m_localPty \o m_sharedPty \o Mail) : Unwanted(m))
=============================================================================
