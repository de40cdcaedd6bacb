------------------------------- MODULE Mailbox -------------------------------
(***************************************************************************)
(* What std.concurrency promises of the mailbox of a thread: one box in    *)
(* which messages lie in the order in which they entered it.  A receive    *)
(* takes the oldest message it accepts; a priority message may go ahead of *)
(* older ones and is never passed over for a younger one.  The death of a  *)
(* watched thread counts as a message that every receive accepts.  There   *)
(* are no lists to move messages between, no limit, no lock and no sleep.  *)
(***************************************************************************)
EXTENDS Naturals, Sequences, Functions

CONSTANT Watched   \* the threads whose death the receiver is told of

VARIABLES
  open,            \* the receiver has not terminated
  entered,         \* the messages that entered the box so far, in order
  inside,          \* those that are still in it
  taken,           \* those that were received, in order
  receiving,       \* a receive is under way
  expired,         \* its time is up, and it is about to say so
  wanted, hurried  \* the kinds it accepts, and whether its time is limited

vars == <<open, entered, inside, taken, receiving, expired, wanted, hurried>>
call == <<receiving, expired, wanted, hurried>>

Init ==
  /\ open = TRUE
  /\ entered = <<>> /\ inside = {} /\ taken = <<>>
  /\ receiving = FALSE /\ expired = FALSE /\ wanted = {} /\ hurried = FALSE

Older(x, m) == \E i, j \in DOMAIN entered : i < j /\ entered[i] = x /\ entered[j] = m

Urgent(m) == m.kind = "priority"

Acceptable(m) ==
  IF m.kind = "linkDead" THEN m.from \in Watched ELSE m.kind \in wanted

\* Each message enters once, at the end.
Enter(m) ==
  /\ m \notin Range(entered)
  /\ entered' = Append(entered, m)
  /\ inside' = inside \union {m}
  /\ UNCHANGED <<open, taken, call>>

\* receive or receiveTimeout, with any arguments.
Call ==
  /\ open /\ ~receiving
  /\ receiving' = TRUE
  /\ UNCHANGED <<open, entered, inside, taken, expired>>

Return ==
  /\ receiving /\ receiving' = FALSE
  /\ expired' = FALSE /\ wanted' = {} /\ hurried' = FALSE

\* Nothing urgent that is older is passed over, and nothing acceptable that is
\* older but by what is urgent.
Take(m) ==
  /\ ~expired
  /\ m \in inside /\ Acceptable(m)
  /\ \A x \in inside :
       Older(x, m) => ~Urgent(x) /\ (Acceptable(x) => Urgent(m))
  /\ inside' = inside \ {m}
  /\ taken' = Append(taken, m)
  /\ Return
  /\ UNCHANGED <<open, entered>>

\* An exception over a priority message, because it is not accepted or from
\* whoever handles it: the message stays.
Throw ==
  /\ ~expired
  /\ \E x \in inside : Urgent(x)
  /\ Return
  /\ UNCHANGED <<open, entered, inside, taken>>

NothingToTake == \A x \in inside : ~Acceptable(x) /\ ~Urgent(x)

\* The time is up and nothing is there.  What enters between this and the
\* return is for the next receive.
TimeUp ==
  /\ receiving /\ hurried /\ ~expired
  /\ NothingToTake
  /\ expired' = TRUE
  /\ UNCHANGED <<open, entered, inside, taken, receiving, wanted, hurried>>

TimeOut ==
  /\ hurried
  /\ expired \/ NothingToTake
  /\ Return
  /\ UNCHANGED <<open, entered, inside, taken>>

\* The receiver terminates, between two receives.
Close ==
  /\ open /\ ~receiving
  /\ open' = FALSE
  /\ inside' \in SUBSET inside
  /\ UNCHANGED <<entered, taken, call>>

Next ==
  \/ \E m \in Range(entered') : Enter(m)
  \/ \E m \in inside : Take(m)
  \/ Call \/ Throw \/ TimeUp \/ TimeOut \/ Close

Spec == Init /\ [][Next]_vars
=============================================================================
