-------------------------- MODULE TidRegistryProofs ---------------------------
(***************************************************************************)
(* Theorems about the name registry for any sets of threads and names.     *)
(***************************************************************************)
EXTENDS TidRegistry, TLAPS

RegistryType ==
  /\ tidByName \in [Names -> Tids \union {NoTid}]
  /\ namesByTid \in [Tids -> Seq(Names)]
  /\ isClosed \subseteq Tids
  /\ gone \subseteq isClosed

\* Name n is in the list names.
Listed(n, names) == \E i \in 1..Len(names) : names[i] = n

\* NoNameForDefunct survives unregisterMe only because the tables agree, and
\* register only because whoever is gone has closed its mailbox before.
IInv == RegistryType /\ NameIsListed /\ NoNameForDefunct

\* The inductive invariant holds in the initial state.
LEMMA InitIInv == Init => IInv
<1> SUFFICES ASSUME Init PROVE IInv
  OBVIOUS
<1>1. RegistryType
  BY DEF Init, RegistryType
<1>2. NameIsListed /\ NoNameForDefunct
  BY DEF Init, NameIsListed, NoNameForDefunct, locate
<1>3. QED
  BY <1>1, <1>2 DEF IInv

\* Every step, one case per action, preserves the inductive invariant.
LEMMA NextIInv == IInv /\ [Next]_vars => IInv'
<1> SUFFICES ASSUME IInv, [Next]_vars
             PROVE  IInv'
  OBVIOUS
<1>inv. RegistryType /\ NameIsListed /\ NoNameForDefunct
  BY DEF IInv
<1>1. ASSUME NEW n \in Names, NEW t \in Tids, register(n, t)
      PROVE  IInv'
  <2>1. RegistryType'
    BY <1>inv, <1>1 DEF register, RegistryType
  <2>2. NameIsListed'
    <3> SUFFICES ASSUME NEW m \in Names, tidByName'[m] # NoTid
                 PROVE  Listed(m, namesByTid'[tidByName'[m]])
      BY DEF NameIsListed, Listed
    <3>1. CASE m = n
      BY <1>inv, <1>1, <3>1 DEF register, RegistryType, Listed
    <3>2. CASE m # n
      <4>1. tidByName'[m] = tidByName[m] /\ tidByName[m] \in Tids
        BY <1>inv, <1>1, <3>2 DEF register, RegistryType
      <4>2. PICK i \in 1..Len(namesByTid[tidByName[m]]) :
              namesByTid[tidByName[m]][i] = m
        BY <1>inv, <4>1 DEF NameIsListed
      <4>3. /\ i \in 1..Len(namesByTid'[tidByName[m]])
            /\ namesByTid'[tidByName[m]][i] = m
        BY <1>inv, <1>1, <4>1, <4>2 DEF register, RegistryType
      <4>4. QED
        BY <4>1, <4>3 DEF Listed
    <3>3. QED
      BY <3>1, <3>2
  <2>3. NoNameForDefunct'
    BY <1>inv, <1>1 DEF register, RegistryType, NoNameForDefunct, locate
  <2>4. QED
    BY <2>1, <2>2, <2>3 DEF IInv
<1>2. ASSUME NEW n \in Names, unregister(n)
      PROVE  IInv'
  <2> DEFINE tid == tidByName[n]
  <2>0. tid \in Tids /\ namesByTid[tid] \in Seq(Names)
    BY <1>inv, <1>2 DEF unregister, RegistryType
  <2>p. PICK pos \in 1..Len(namesByTid[tid]) :
          /\ namesByTid[tid][pos] = n
          /\ namesByTid' = [namesByTid EXCEPT ![tid] =
                              removeUnstable(namesByTid[tid], pos)]
    BY <1>2 DEF unregister, countUntil
  <2>r. /\ removeUnstable(namesByTid[tid], pos) \in Seq(Names)
        /\ Len(removeUnstable(namesByTid[tid], pos)) = Len(namesByTid[tid])
        /\ \A i \in 1..Len(namesByTid[tid]) : i # pos =>
             removeUnstable(namesByTid[tid], pos)[i] = namesByTid[tid][i]
    BY <2>0, <2>p DEF removeUnstable
  <2>t. tidByName' = [tidByName EXCEPT ![n] = NoTid]
    BY <1>2 DEF unregister
  <2>1. RegistryType'
    BY <1>inv, <1>2, <2>0, <2>p, <2>r DEF unregister, RegistryType
  <2>2. NameIsListed'
    <3> SUFFICES ASSUME NEW m \in Names, tidByName'[m] # NoTid
                 PROVE  Listed(m, namesByTid'[tidByName'[m]])
      BY DEF NameIsListed, Listed
    <3>1. m # n /\ tidByName'[m] = tidByName[m] /\ tidByName[m] \in Tids
      BY <1>inv, <2>t DEF RegistryType
    <3>2. PICK i \in 1..Len(namesByTid[tidByName[m]]) :
            namesByTid[tidByName[m]][i] = m
      BY <1>inv, <3>1 DEF NameIsListed
    <3>3. /\ i \in 1..Len(namesByTid'[tidByName[m]])
          /\ namesByTid'[tidByName[m]][i] = m
      <4>1. CASE tidByName[m] = tid
        BY <1>inv, <2>0, <2>p, <2>r, <3>1, <3>2, <4>1 DEF RegistryType
      <4>2. CASE tidByName[m] # tid
        BY <1>inv, <2>0, <2>p, <3>1, <3>2, <4>2 DEF RegistryType
      <4>3. QED
        BY <4>1, <4>2
    <3>4. QED
      BY <3>1, <3>3 DEF Listed
  <2>3. NoNameForDefunct'
    BY <1>inv, <1>2, RegistryAssumption
    DEF unregister, RegistryType, NoNameForDefunct, locate
  <2>4. QED
    BY <2>1, <2>2, <2>3 DEF IInv
<1>3. ASSUME NEW t \in Tids, close(t)
      PROVE  IInv'
  BY <1>inv, <1>3
  DEF close, IInv, RegistryType, NameIsListed, NoNameForDefunct, locate
<1>4. ASSUME NEW t \in Tids, unregisterMe(t)
      PROVE  IInv'
  <2>1. RegistryType'
    BY <1>inv, <1>4 DEF unregisterMe, RegistryType
  <2>2. \A m \in Names : tidByName'[m] # NoTid =>
          /\ tidByName'[m] = tidByName[m]
          /\ tidByName[m] # t
          /\ tidByName[m] \in Tids
    BY <1>inv, <1>4 DEF unregisterMe, RegistryType, NameIsListed
  <2>3. NameIsListed'
    BY <1>inv, <1>4, <2>2 DEF unregisterMe, RegistryType, NameIsListed
  <2>4. NoNameForDefunct'
    BY <1>inv, <1>4, <2>2, RegistryAssumption
    DEF unregisterMe, RegistryType, NoNameForDefunct, locate
  <2>5. QED
    BY <2>1, <2>3, <2>4 DEF IInv
<1>5. CASE UNCHANGED vars
  BY <1>inv, <1>5
  DEF vars, IInv, RegistryType, NameIsListed, NoNameForDefunct, locate
<1>6. QED
  BY <1>1, <1>2, <1>3, <1>4, <1>5 DEF Next

\* The two tables of the registry agree: unregister always finds the name it
\* looks for, after any sequence of calls by any number of threads.
THEOREM NameIsListedHolds == Spec => []NameIsListed
<1>1. IInv => NameIsListed
  BY DEF IInv
<1>2. QED
  BY <1>1, InitIInv, NextIInv, PTL DEF Spec

\* No name leads to a thread whose cleanup has finished, wherever register
\* runs between the steps of that cleanup.
THEOREM NoNameForDefunctHolds == Spec => []NoNameForDefunct
<1>1. IInv => NoNameForDefunct
  BY DEF IInv
<1>2. QED
  BY <1>1, InitIInv, NextIInv, PTL DEF Spec
=============================================================================
