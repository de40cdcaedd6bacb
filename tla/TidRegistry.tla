----------------------------- MODULE TidRegistry ------------------------------
(***************************************************************************)
(* The process-wide name registry of std.concurrency: register,            *)
(* unregister, locate and what a terminating thread does to it in          *)
(* ThreadInfo.cleanup.  Every operation is one critical section of         *)
(* registryLock; cleanup closes the mailbox first, without that lock, and  *)
(* takes the names out later.                                              *)
(***************************************************************************)
EXTENDS Naturals, Sequences

CONSTANTS Tids, Names,
          NoTid,      \* Tid.init
          MaxNames    \* bound on the length of a namesByTid entry

ASSUME RegistryAssumption == NoTid \notin Tids /\ MaxNames \in Nat

VARIABLES
  tidByName,    \* a name that is not in the table maps to NoTid
  namesByTid,   \* a tid that is not in the table maps to <<>>
  isClosed,     \* the tids whose mailbox is closed
  gone          \* the tids whose cleanup has finished

vars == <<tidByName, namesByTid, isClosed, gone>>

Init ==
  /\ tidByName = [n \in Names |-> NoTid]
  /\ namesByTid = [t \in Tids |-> <<>>]
  /\ isClosed = {}
  /\ gone = {}

\* Mutant: a defunct thread may still be given a name.
registerDefunct(name, tid) ==
  /\ tidByName[name] = NoTid
  /\ Len(namesByTid[tid]) < MaxNames
  /\ namesByTid' = [namesByTid EXCEPT ![tid] = Append(@, name)]
  /\ tidByName' = [tidByName EXCEPT ![name] = tid]
  /\ UNCHANGED <<isClosed, gone>>

\* Mutant: the new name replaces the others.
registerReplaces(name, tid) ==
  /\ tidByName[name] = NoTid
  /\ tid \notin isClosed
  /\ namesByTid' = [namesByTid EXCEPT ![tid] = <<name>>]
  /\ tidByName' = [tidByName EXCEPT ![name] = tid]
  /\ UNCHANGED <<isClosed, gone>>

\* register answers true.  It answers false, and changes nothing, if the
\* name is taken or the mailbox is closed.
register(name, tid) ==
  /\ tidByName[name] = NoTid
  /\ tid \notin isClosed
  /\ Len(namesByTid[tid]) < MaxNames
  /\ namesByTid' = [namesByTid EXCEPT ![tid] = Append(@, name)]
  /\ tidByName' = [tidByName EXCEPT ![name] = tid]
  /\ UNCHANGED <<isClosed, gone>>

\* pos is what countUntil(names, name) returns, a position from 1.
countUntil(names, name, pos) ==
  /\ names[pos] = name
  /\ \A j \in 1..(pos - 1) : names[j] # name

\* std.algorithm remove!(SwapStrategy.unstable) moves the last element into
\* the hole and returns the shorter slice.  unregister drops that slice, so
\* the array in the table keeps its length.
removeUnstable(names, pos) == [names EXCEPT ![pos] = names[Len(names)]]

\* unregister answers true.  A name that namesByTid lacks would give pos = -1
\* and an invalid index; NameIsListed says that this does not happen.
unregister(name) ==
  LET tid == tidByName[name]
  IN /\ tid # NoTid
     /\ \E pos \in 1..Len(namesByTid[tid]) :
          /\ countUntil(namesByTid[tid], name, pos)
          /\ namesByTid' = [namesByTid EXCEPT ![tid] = removeUnstable(@, pos)]
     /\ tidByName' = [tidByName EXCEPT ![name] = NoTid]
     /\ UNCHANGED <<isClosed, gone>>

locate(name) == tidByName[name]

\* cleanup: ident.mbox.close().
close(tid) ==
  /\ tid \notin isClosed
  /\ isClosed' = isClosed \union {tid}
  /\ UNCHANGED <<tidByName, namesByTid, gone>>

\* cleanup: unregisterMe, its last step.
unregisterMe(tid) ==
  /\ tid \in isClosed \ gone
  /\ tidByName' = [n \in Names |->
       IF \E i \in 1..Len(namesByTid[tid]) : namesByTid[tid][i] = n
         THEN NoTid ELSE tidByName[n]]
  /\ namesByTid' = [namesByTid EXCEPT ![tid] = <<>>]
  /\ gone' = gone \union {tid}
  /\ UNCHANGED isClosed

Next ==
  \/ \E n \in Names : unregister(n) \/ \E t \in Tids : register(n, t)
  \/ \E t \in Tids : close(t) \/ unregisterMe(t)

Spec == Init /\ [][Next]_vars
-----------------------------------------------------------------------------
\* unregister relies on finding the name in namesByTid: every name in one
\* table is in the other.
NameIsListed ==
  \A n \in Names : tidByName[n] # NoTid =>
    \E i \in 1..Len(namesByTid[tidByName[n]]) :
       namesByTid[tidByName[n]][i] = n

\* "When the thread represented by tid terminates, any names associated with
\* it will be automatically unregistered": locate never finds a thread whose
\* cleanup has finished, although register may run between the close of the
\* mailbox and unregisterMe.
NoNameForDefunct == \A n \in Names : locate(n) \notin gone

\* A name stays with its thread until it is unregistered or that thread
\* terminates.
NameKept ==
  [][\A n \in Names : tidByName[n] # NoTid /\ tidByName'[n] # tidByName[n]
       => unregister(n) \/ unregisterMe(tidByName[n])]_vars
=============================================================================
