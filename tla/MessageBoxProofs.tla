--------------------------- MODULE MessageBoxProofs ---------------------------
(***************************************************************************)
(* Proofs about MessageBox, for any number of senders, messages, kinds and *)
(* limits: m_putQueue counts the waiting senders (PutQueueExact), the      *)
(* mailbox holds at most twice its limit (TwiceTheLimit), no message is    *)
(* lost, duplicated or received out of order (InOrder, NotOvertaken), the  *)
(* lists together are one Mailbox (ImplementsMailbox), and neither the     *)
(* receiver nor the senders sleep for want of a notification.              *)
(*                                                                         *)
(* Lists are reasoned about through three operators only: the set of their *)
(* messages (Range), that no message occurs twice (IsInjective) and which  *)
(* message comes before which (Before).                                    *)
(***************************************************************************)
EXTENDS MessageBox, TLAPS, FiniteSetTheorems, SequenceTheorems
-----------------------------------------------------------------------------
(***************************************************************************)
(* Lists                                                                   *)
(***************************************************************************)

\* new is old with m at its end.
Appended(new, old, m) ==
  /\ Range(new) = Range(old) \union {m}
  /\ IsInjective(old) /\ m \notin Range(old) => IsInjective(new)
  /\ \A x, y : Before(new, x, y) <=>
                 Before(old, x, y) \/ (x \in Range(old) /\ y = m)

\* new is old, in which no message occurs twice, without m.
Removed(new, old, m) ==
  /\ Range(new) = Range(old) \ {m}
  /\ IsInjective(new)
  /\ \A x, y : Before(new, x, y) <=> Before(old, x, y) /\ x # m /\ y # m

\* What comes before what in a list is in the list.
LEMMA BeforeInRange ==
  ASSUME NEW list, NEW x, NEW y, Before(list, x, y)
  PROVE  x \in Range(list) /\ y \in Range(list)
  BY DEF Before, Range

\* A set of natural numbers has a least one.
LEMMA LeastNat ==
  ASSUME NEW T \in SUBSET Nat, T # {}
  PROVE  \E i \in T : \A j \in T : i <= j
<1> DEFINE R == OpToRel(<, Nat)
<1>1. IsWellFoundedOn(R, Nat)  BY NatLessThanWellFounded
<1>2. \A x, y \in Nat : y < x => <<y, x>> \in R  BY DEF OpToRel
<1> HIDE DEF R
<1>3. PICK i \in T : \A y \in T : ~ (<<y, i>> \in R)
  BY <1>1, WFMin
<1>4. ASSUME NEW j \in T  PROVE i <= j
  <2>1. i \in Nat /\ j \in Nat  OBVIOUS
  <2>2. ~(j < i)  BY <2>1, <1>2, <1>3, Zenon
  <2> QED  BY <2>1, <2>2
<1> QED  BY <1>4

\* Nothing is in, or comes before anything in, the empty list.
LEMMA EmptyList ==
  /\ Range(<<>>) = {}
  /\ IsInjective(<<>>)
  /\ \A x, y : ~Before(<<>>, x, y)
<1>1. <<>> \in Seq({}) /\ Len(<<>>) = 0  BY EmptySeq
<1>2. DOMAIN <<>> = {}  BY <1>1, LenProperties
<1> QED  BY <1>2 DEF Range, IsInjective, Before

\* The concatenation of two lists.
LEMMA ConcatList ==
  ASSUME NEW S, NEW s \in Seq(S), NEW t \in Seq(S)
  PROVE  /\ s \o t \in Seq(S)
         /\ Range(s \o t) = Range(s) \union Range(t)
         /\ IsInjective(s \o t) <=>
              /\ IsInjective(s) /\ IsInjective(t)
              /\ Range(s) \intersect Range(t) = {}
         /\ \A x, y : Before(s \o t, x, y) <=>
              \/ Before(s, x, y) \/ Before(t, x, y)
              \/ x \in Range(s) /\ y \in Range(t)
<1> DEFINE st == s \o t
           m == Len(s)
           n == Len(t)
<1>1. /\ m \in Nat /\ DOMAIN s = 1..m
      /\ n \in Nat /\ DOMAIN t = 1..n
  BY LenProperties
<1>2. /\ st \in Seq(S)
      /\ Len(st) = m + n
      /\ \A i \in 1 .. m + n : st[i] = IF i <= m THEN s[i] ELSE t[i - m]
  BY ConcatProperties
<1>3. DOMAIN st = 1 .. m + n  BY <1>2, LenProperties
<1> HIDE DEF st, m, n
<1>4. \A i \in DOMAIN s : i \in DOMAIN st /\ st[i] = s[i]
  BY <1>1, <1>2, <1>3
<1>5. \A i \in DOMAIN t : m + i \in DOMAIN st /\ st[m + i] = t[i]
  BY <1>1, <1>2, <1>3
<1>6. \A i \in DOMAIN st : \/ i \in DOMAIN s /\ st[i] = s[i]
                           \/ i - m \in DOMAIN t /\ st[i] = t[i - m] /\ i > m
  BY <1>1, <1>2, <1>3
<1>7. Range(st) = Range(s) \union Range(t)
  BY <1>4, <1>5, <1>6 DEF Range
<1>8. ASSUME NEW x, NEW y
      PROVE  Before(st, x, y) <=>
               \/ Before(s, x, y) \/ Before(t, x, y)
               \/ x \in Range(s) /\ y \in Range(t)
  <2>1. CASE Before(s, x, y)
    BY <2>1, <1>4 DEF Before
  <2>2. CASE Before(t, x, y)
    <3>1. PICK i, j \in DOMAIN t : i < j /\ t[i] = x /\ t[j] = y
      BY <2>2 DEF Before
    <3>2. m + i \in DOMAIN st /\ m + j \in DOMAIN st /\ m + i < m + j
      BY <3>1, <1>1, <1>5
    <3> QED  BY <3>1, <3>2, <1>5, <2>2 DEF Before
  <2>3. CASE x \in Range(s) /\ y \in Range(t)
    <3>1. PICK i \in DOMAIN s : s[i] = x  BY <2>3 DEF Range
    <3>2. PICK j \in DOMAIN t : t[j] = y  BY <2>3 DEF Range
    <3>3. i < m + j  BY <1>1
    <3> QED  BY <3>1, <3>2, <3>3, <1>4, <1>5, <2>3 DEF Before
  <2>4. ASSUME Before(st, x, y)
        PROVE  \/ Before(s, x, y) \/ Before(t, x, y)
               \/ x \in Range(s) /\ y \in Range(t)
    <3>1. PICK i, j \in DOMAIN st : i < j /\ st[i] = x /\ st[j] = y
      BY <2>4 DEF Before
    <3>2. CASE i \in DOMAIN s /\ j \in DOMAIN s
      BY <3>1, <3>2, <1>4 DEF Before
    <3>3. CASE i \in DOMAIN s /\ j \notin DOMAIN s
      BY <3>1, <3>3, <1>4, <1>6 DEF Range
    <3>4. CASE i \notin DOMAIN s
      <4>1. j \notin DOMAIN s  BY <3>1, <3>4, <1>1, <1>3
      <4>2. /\ i - m \in DOMAIN t /\ st[i] = t[i - m]
            /\ j - m \in DOMAIN t /\ st[j] = t[j - m]
        BY <4>1, <3>4, <1>6
      <4>3. i - m < j - m  BY <3>1, <1>1, <1>3
      <4> QED  BY <4>2, <4>3, <3>1 DEF Before
    <3> QED  BY <3>2, <3>3, <3>4
  <2> QED  BY <2>1, <2>2, <2>3, <2>4
<1>9. IsInjective(st) => /\ IsInjective(s) /\ IsInjective(t)
                         /\ Range(s) \intersect Range(t) = {}
  <2> HAVE IsInjective(st)
  <2>1. IsInjective(s)  BY <1>4 DEF IsInjective
  <2>2. IsInjective(t)
    <3> SUFFICES ASSUME NEW i \in DOMAIN t, NEW j \in DOMAIN t, t[i] = t[j]
                 PROVE  i = j
      BY DEF IsInjective
    <3>1. m + i = m + j  BY <1>5 DEF IsInjective
    <3> QED  BY <3>1, <1>1
  <2>3. ASSUME NEW x \in Range(s) \intersect Range(t)  PROVE FALSE
    <3>1. PICK i \in DOMAIN s : s[i] = x  BY DEF Range
    <3>2. PICK j \in DOMAIN t : t[j] = x  BY DEF Range
    <3>3. i = m + j  BY <3>1, <3>2, <1>4, <1>5 DEF IsInjective
    <3> QED  BY <3>3, <1>1
  <2> QED  BY <2>1, <2>2, <2>3
<1>10. ASSUME IsInjective(s), IsInjective(t), Range(s) \intersect Range(t) = {}
       PROVE  IsInjective(st)
  <2> SUFFICES ASSUME NEW i \in DOMAIN st, NEW j \in DOMAIN st, st[i] = st[j]
               PROVE  i = j
    BY DEF IsInjective
  <2>1. CASE i \in DOMAIN s /\ j \in DOMAIN s
    BY <2>1, <1>4, <1>10 DEF IsInjective
  <2>2. CASE i \notin DOMAIN s /\ j \notin DOMAIN s
    <3>1. /\ i - m \in DOMAIN t /\ st[i] = t[i - m]
          /\ j - m \in DOMAIN t /\ st[j] = t[j - m]
      BY <2>2, <1>6
    <3>2. i - m = j - m  BY <3>1, <1>10 DEF IsInjective
    <3> QED  BY <3>2, <1>1, <1>3
  <2>3. CASE i \in DOMAIN s /\ j \notin DOMAIN s
    BY <2>3, <1>4, <1>6, <1>10 DEF Range
  <2>4. CASE i \notin DOMAIN s /\ j \in DOMAIN s
    BY <2>4, <1>4, <1>6, <1>10 DEF Range
  <2> QED  BY <2>1, <2>2, <2>3, <2>4
<1> QED  BY <1>2, <1>7, <1>8, <1>9, <1>10 DEF st

\* A list of one message.
LEMMA Singleton ==
  ASSUME NEW S, NEW m \in S
  PROVE  /\ <<m>> \in Seq(S)
         /\ Range(<<m>>) = {m}
         /\ IsInjective(<<m>>)
         /\ \A x, y : ~Before(<<m>>, x, y)
<1>1. <<m>> \in Seq(S) /\ Len(<<m>>) = 1 /\ <<m>>[1] = m  OBVIOUS
<1>2. DOMAIN <<m>> = {1}
  <2>1. DOMAIN <<m>> = 1..1  BY <1>1, LenProperties
  <2> QED  BY <2>1
<1> QED  BY <1>1, <1>2 DEF Range, IsInjective, Before

\* Append.
LEMMA AppendList ==
  ASSUME NEW S, NEW list \in Seq(S), NEW m \in S
  PROVE  /\ Append(list, m) \in Seq(S)
         /\ Appended(Append(list, m), list, m)
<1>1. Append(list, m) = list \o <<m>>  BY AppendIsConcat
<1>2. /\ <<m>> \in Seq(S)
      /\ Range(<<m>>) = {m}
      /\ IsInjective(<<m>>)
      /\ \A x, y : ~Before(<<m>>, x, y)
  BY Singleton
<1> DEFINE one == <<m>>
<1> HIDE DEF one
<1>3. /\ list \o one \in Seq(S)
      /\ Range(list \o one) = Range(list) \union Range(one)
      /\ IsInjective(list \o one) <=>
           /\ IsInjective(list) /\ IsInjective(one)
           /\ Range(list) \intersect Range(one) = {}
      /\ \A x, y : Before(list \o one, x, y) <=>
           \/ Before(list, x, y) \/ Before(one, x, y)
           \/ x \in Range(list) /\ y \in Range(one)
  BY <1>2, ConcatList DEF one
<1> QED  BY <1>1, <1>2, <1>3 DEF one, Appended
\* Without, and what comes before the message that it removes.
LEMMA WithoutList ==
  ASSUME NEW S, NEW list \in Seq(S), IsInjective(list),
         NEW i \in 1..Len(list)
  PROVE  /\ list[i] \in S /\ list[i] \in Range(list)
         /\ Without(list, i) \in Seq(S)
         /\ Removed(Without(list, i), list, list[i])
         /\ \A x : Before(list, x, list[i]) => \E k \in 1..(i - 1) : x = list[k]
<1> DEFINE a == SubSeq(list, 1, i - 1)
           b == SubSeq(list, i + 1, Len(list))
           m == list[i]
           am == a \o <<m>>
<1>1. /\ Len(list) \in Nat /\ i \in Nat
      /\ list \in [1..Len(list) -> S] /\ DOMAIN list = 1..Len(list)
  BY LenProperties
<1>2. m \in S /\ m \in Range(list)  BY <1>1 DEF Range
<1>3. a \in Seq(S)
  <2>1. \A k \in 1..(i - 1) : list[k] \in S  BY <1>1
  <2> QED  BY <1>1, <2>1, SubSeqProperties
<1>4. b \in Seq(S)
  <2>1. \A k \in (i + 1)..Len(list) : list[k] \in S  BY <1>1
  <2>2. i + 1 \in Int /\ Len(list) \in Int  BY <1>1
  <2> QED  BY <2>1, <2>2, SubSeqProperties
<1>5. SubSeq(list, 1, i) = am
  <2>1. 1 \in 1..Len(list) /\ i \in 1..Len(list)  BY <1>1
  <2> QED  BY <2>1, SubSeqRecursiveSecond
<1>6. am \o b = list
  <2>1. /\ 1 \in 1 .. Len(list) + 1
        /\ i \in 1 - 1 .. Len(list)
        /\ Len(list) \in i .. Len(list)
    BY <1>1
  <2>2. SubSeq(list, 1, i) \o b = SubSeq(list, 1, Len(list))
    BY <2>1, ConcatAdjacentSubSeq
  <2> QED  BY <2>2, <1>5, SubSeqFull
<1>7. Without(list, i) = a \o b  BY DEF Without
<1>8. /\ <<m>> \in Seq(S)
      /\ Range(<<m>>) = {m}
      /\ IsInjective(<<m>>)
      /\ \A x, y : ~Before(<<m>>, x, y)
  BY <1>2, Singleton
<1>9. \A x \in Range(a) : \E k \in 1..(i - 1) : x = list[k]
  <2>1. \A k \in 1..(i - 1) : list[k] \in S  BY <1>1
  <2>2. /\ Len(a) = i - 1
        /\ \A k \in 1..(i - 1) : a[k] = list[k]
    <3>1. /\ Len(a) = IF 1 <= i - 1 THEN (i - 1) - 1 + 1 ELSE 0
          /\ \A k \in 1 .. (i - 1) - 1 + 1 : a[k] = list[1 + k - 1]
      BY <1>1, <2>1, SubSeqProperties
    <3> QED  BY <3>1, <1>1
  <2>3. DOMAIN a = 1..(i - 1)  BY <1>3, <2>2, LenProperties
  <2> QED  BY <2>2, <2>3 DEF Range
<1> DEFINE one == <<m>>
<1> HIDE DEF a, b, m, one
<1>10. /\ a \o one \in Seq(S)
       /\ Range(a \o one) = Range(a) \union {m}
       /\ IsInjective(a \o one) <=> IsInjective(a) /\ m \notin Range(a)
       /\ \A x, y : Before(a \o one, x, y) <=>
            Before(a, x, y) \/ (x \in Range(a) /\ y = m)
  <2>1. /\ a \o one \in Seq(S)
        /\ Range(a \o one) = Range(a) \union Range(one)
        /\ IsInjective(a \o one) <=>
             /\ IsInjective(a) /\ IsInjective(one)
             /\ Range(a) \intersect Range(one) = {}
        /\ \A x, y : Before(a \o one, x, y) <=>
             \/ Before(a, x, y) \/ Before(one, x, y)
             \/ x \in Range(a) /\ y \in Range(one)
    BY <1>3, <1>8, ConcatList DEF one
  <2> QED  BY <2>1, <1>8 DEF one
<1> DEFINE ao == a \o one
<1>11. ao \o b = list  BY <1>6 DEF one
<1>12. /\ Range(ao \o b) = Range(ao) \union Range(b)
       /\ IsInjective(ao \o b) <=>
            /\ IsInjective(ao) /\ IsInjective(b)
            /\ Range(ao) \intersect Range(b) = {}
       /\ \A x, y : Before(ao \o b, x, y) <=>
            \/ Before(ao, x, y) \/ Before(b, x, y)
            \/ x \in Range(ao) /\ y \in Range(b)
  <2> ao \in Seq(S)  BY <1>10
  <2> HIDE DEF ao
  <2> QED  BY <1>4, ConcatList
<1>13. /\ a \o b \in Seq(S)
       /\ Range(a \o b) = Range(a) \union Range(b)
       /\ IsInjective(a \o b) <=>
            /\ IsInjective(a) /\ IsInjective(b)
            /\ Range(a) \intersect Range(b) = {}
       /\ \A x, y : Before(a \o b, x, y) <=>
            \/ Before(a, x, y) \/ Before(b, x, y)
            \/ x \in Range(a) /\ y \in Range(b)
  BY <1>3, <1>4, ConcatList
<1> HIDE DEF ao
<1>14. /\ IsInjective(a) /\ IsInjective(b)
       /\ Range(a) \intersect Range(b) = {}
       /\ m \notin Range(a) \union Range(b)
       /\ Range(list) = Range(a) \union {m} \union Range(b)
  BY <1>10, <1>11, <1>12 DEF ao
<1>15. \A x, y : Before(list, x, y) <=>
         \/ Before(a, x, y) \/ (x \in Range(a) /\ y = m)
         \/ Before(b, x, y) \/ (x \in Range(a) \union {m} /\ y \in Range(b))
  BY <1>10, <1>11, <1>12 DEF ao
<1>16. ASSUME NEW x, NEW y
       PROVE  Before(a \o b, x, y) <=> Before(list, x, y) /\ x # m /\ y # m
  <2>1. /\ Before(a, x, y) => x \in Range(a) /\ y \in Range(a)
        /\ Before(b, x, y) => x \in Range(b) /\ y \in Range(b)
    BY BeforeInRange
  <2> QED  BY <2>1, <1>13, <1>14, <1>15
<1>17. Removed(a \o b, list, m)
  BY <1>13, <1>14, <1>16 DEF Removed
<1>18. ASSUME NEW x, Before(list, x, m)  PROVE x \in Range(a)
  <2>1. /\ Before(a, x, m) => x \in Range(a) /\ m \in Range(a)
        /\ Before(b, x, m) => x \in Range(b) /\ m \in Range(b)
    BY BeforeInRange
  <2> QED  BY <2>1, <1>18, <1>14, <1>15
<1> QED  BY <1>2, <1>7, <1>9, <1>13, <1>17, <1>18 DEF m

\* Head and Tail.
LEMMA TailList ==
  ASSUME NEW S, NEW list \in Seq(S), IsInjective(list), list # <<>>
  PROVE  /\ Head(list) \in S /\ Head(list) \in Range(list)
         /\ Tail(list) \in Seq(S)
         /\ Removed(Tail(list), list, Head(list))
         /\ \A x : ~Before(list, x, Head(list))
<1>1. Len(list) \in Nat \ {0}  BY EmptySeq
<1>2. 1 \in 1..Len(list)  BY <1>1
<1>3. /\ list[1] \in S /\ list[1] \in Range(list)
      /\ Without(list, 1) \in Seq(S)
      /\ Removed(Without(list, 1), list, list[1])
      /\ \A x : Before(list, x, list[1]) => \E k \in 1..(1 - 1) : x = list[k]
  BY <1>2, WithoutList
<1>4. Without(list, 1) = Tail(list)
  <2>1. SubSeq(list, 1, 0) = <<>>  BY SubSeqEmpty
  <2>2. Tail(list) = SubSeq(list, 2, Len(list))  BY TailIsSubSeq
  <2>3. Tail(list) \in Seq(S)  BY HeadTailProperties
  <2> QED  BY <2>1, <2>2, <2>3, ConcatEmptySeq DEF Without
<1>5. Head(list) = list[1]  OBVIOUS
<1>6. \A k \in 1..(1 - 1) : FALSE  OBVIOUS
<1>7. \A x : ~Before(list, x, list[1])  BY <1>3, <1>6, Zenon
<1> QED  BY <1>3, <1>4, <1>5, <1>7

\* A part of a list, and a list without one of its messages or its first one,
\* hold only messages of the list.
LEMMA PartOfList ==
  ASSUME NEW S, NEW list \in Seq(S)
  PROVE  /\ \A i \in 1..Len(list) :
              /\ list[i] \in Range(list) /\ list[i] \in S
              /\ Without(list, i) \in Seq(S)
              /\ Range(Without(list, i)) \subseteq Range(list)
              /\ SubSeq(list, 1, i) \in Seq(S)
              /\ Range(SubSeq(list, 1, i)) = {list[k] : k \in 1..i}
         /\ list # <<>> => /\ Head(list) \in Range(list)
                           /\ Tail(list) \in Seq(S)
                           /\ Range(Tail(list)) \subseteq Range(list)
<1> DEFINE T == Range(list)
<1>1. list \in Seq(T) /\ T \subseteq S  BY SeqOfRange, RangeOfSeq
<1> HIDE DEF T
<1>2. Len(list) \in Nat /\ list \in [1..Len(list) -> T]  BY <1>1, LenProperties
<1>3. \A u \in Seq(T) : u \in Seq(S) /\ Range(u) \subseteq T
  BY <1>1, SeqMonotonic, RangeOfSeq
<1>4. ASSUME NEW i \in 1..Len(list)
      PROVE  /\ list[i] \in T /\ list[i] \in S
             /\ Without(list, i) \in Seq(T)
             /\ SubSeq(list, 1, i) \in Seq(T)
             /\ Range(SubSeq(list, 1, i)) = {list[k] : k \in 1..i}
  <2>1. SubSeq(list, 1, i - 1) \in Seq(T)
    <3>1. \A k \in 1..(i - 1) : list[k] \in T  BY <1>2
    <3>2. i - 1 \in Int  BY <1>2
    <3> QED  BY <3>1, <3>2, SubSeqProperties
  <2>2. SubSeq(list, i + 1, Len(list)) \in Seq(T)
    <3>1. \A k \in (i + 1)..Len(list) : list[k] \in T  BY <1>2
    <3>2. i + 1 \in Int /\ Len(list) \in Int  BY <1>2
    <3> QED  BY <3>1, <3>2, SubSeqProperties
  <2>3. Without(list, i) \in Seq(T)  BY <2>1, <2>2, ConcatProperties DEF Without
  <2> DEFINE a == SubSeq(list, 1, i)
  <2>4. /\ a \in Seq(T)
        /\ DOMAIN a = 1..i
        /\ \A k \in 1..i : a[k] = list[k]
    <3>1. \A k \in 1..i : list[k] \in T  BY <1>2
    <3>2. i \in Int  BY <1>2
    <3>3. /\ a \in Seq(T)
          /\ Len(a) = IF 1 <= i THEN i - 1 + 1 ELSE 0
          /\ \A k \in 1 .. i - 1 + 1 : a[k] = list[1 + k - 1]
      BY <3>1, <3>2, SubSeqProperties
    <3>4. Len(a) = i  BY <3>3
    <3>5. DOMAIN a = 1..i  BY <3>3, <3>4, LenProperties
    <3>6. \A k \in 1..i : a[k] = list[k]  BY <3>3
    <3> QED  BY <3>3, <3>5, <3>6
  <2> HIDE DEF a
  <2>5. Range(a) = {list[k] : k \in 1..i}  BY <2>4 DEF Range
  <2> QED  BY <2>3, <2>4, <2>5, <1>1, <1>2 DEF a
<1>5. list # <<>> => Head(list) \in T /\ Tail(list) \in Seq(T)
  BY <1>1, HeadTailProperties
<1> QED  BY <1>3, <1>4, <1>5 DEF T
-----------------------------------------------------------------------------
(***************************************************************************)
(* What every other invariant rests on                                     *)
(***************************************************************************)
Msgs == [kind : Kinds \union {"priority", "linkDead"}, from : Senders, n : Nat]

TypeInv ==
  /\ m_closed \in BOOLEAN
  /\ m_closed <=> pc = "closed"
  /\ m_maxMsgs \in Nat
  /\ m_sharedBox \in Seq(Msgs)
  /\ m_sharedPty \in Seq(Msgs)
  /\ m_localBox \in Seq(Msgs)
  /\ m_localPty \in Seq(Msgs)
  /\ m_localMsgs \in Nat
  /\ owner \in {Owner, Receiver}
  /\ ops \in SUBSET (Kinds \union {"priority"})
  /\ pending \in [Senders -> Msgs \union {NoMsg}]
  /\ sent \in [Senders -> Nat]
  /\ dead \subseteq Senders
  /\ accepted \in Seq(Msgs)
  /\ received \in Seq(Msgs)

\* A put waits with the last message that its sender has sent, and only
\* standard messages wait.
Pending ==
  \A s \in Senders :
    pending[s] # NoMsg => /\ pending[s].kind \in Kinds
                          /\ pending[s].from = s
                          /\ pending[s].n = sent[s]
                          /\ sent[s] > 0

\* What has entered the mailbox has been sent, and its put has ended.
Numbered ==
  \A m \in Range(accepted) :
    IF isControlMsg(m)
      THEN m.n = 0 /\ m.from \in dead
      ELSE /\ m.n \in 1..sent[m.from]
           /\ m.n = sent[m.from] => pending[m.from] = NoMsg

\* Nothing is in the lists that has not entered the mailbox.
Lists ==
  /\ Range(m_sharedBox) \union Range(m_localBox) \union Range(m_sharedPty)
       \union Range(m_localPty) \union Range(received) \subseteq Range(accepted)
  /\ \A m \in Range(m_sharedPty) \union Range(m_localPty) : isPriorityMsg(m)
  /\ \A m \in Range(m_sharedBox) \union Range(m_localBox) : ~isPriorityMsg(m)

BasicInv == TypeInv /\ Pending /\ Numbered /\ Lists

\* m enters the mailbox.
Entered(m) ==
  /\ m \in Msgs \ Range(accepted)
  /\ m.kind \in Kinds => ~mboxFull
  /\ accepted' = Append(accepted, m)
  /\ IF isPriorityMsg(m)
       THEN m_sharedPty' = Append(m_sharedPty, m) /\ UNCHANGED m_sharedBox
       ELSE m_sharedBox' = Append(m_sharedBox, m) /\ UNCHANGED m_sharedPty

\* What a step of a sender does to the mailbox: a message enters that was
\* never there before, or nothing changes.
SenderStep ==
  /\ UNCHANGED <<m_closed, limits, local, m_localMsgs, receiver>>
  /\ \/ UNCHANGED <<shared, accepted>> /\ (m_closed \/ UNCHANGED dead)
     \/ \E m \in Msgs :
          /\ Entered(m)
          /\ isControlMsg(m) => m.from \notin dead
          /\ dead' = IF isControlMsg(m) THEN dead \union {m.from} ELSE dead

\* NoMsg is no message.
LEMMA NoMsgIsNone == NoMsg \notin Msgs
  BY MessageBoxAssumption DEF NoMsg, Msgs

\* A round of the loop of put: the message enters, is given up, or waits.
LEMMA PutLoopCases ==
  ASSUME NEW m \in Msgs, NEW queued, PutLoop(m, queued),
         m \notin Range(accepted)
  PROVE  \/ /\ Entered(m)
            /\ pending' = [pending EXCEPT ![m.from] = NoMsg]
            /\ m_putQueue' = queued
         \/ /\ UNCHANGED <<shared, accepted>>
            /\ m.kind \in Kinds
            /\ \/ /\ pending' = [pending EXCEPT ![m.from] = NoMsg]
                  /\ m_putQueue' = queued
               \/ /\ pending' = [pending EXCEPT ![m.from] = m]
                  /\ m_putQueue' = queued + 1
<1>1. m.kind \in Kinds \union {"priority", "linkDead"}  BY DEF Msgs
<1>2. CASE PutPriority(m, queued)
  <2>1. m.kind \notin Kinds
    BY <1>2, MessageBoxAssumption DEF PutPriority, isPriorityMsg
  <2> QED  BY <1>2, <2>1 DEF PutPriority, Entered
<1>3. CASE PutInBox(m, queued)
  <2>1. m.kind \in Kinds => ~mboxFull
    BY <1>3, MessageBoxAssumption DEF PutInBox, isControlMsg
  <2> QED  BY <1>3, <2>1 DEF PutInBox, Entered
<1>4. CASE PutGivesUp(m, queued)
  BY <1>1, <1>4 DEF PutGivesUp, Crowded, isPriorityMsg, isControlMsg, shared
<1>5. CASE PutWaits(m, queued)
  BY <1>1, <1>5 DEF PutWaits, Crowded, isPriorityMsg, isControlMsg, shared
<1> QED  BY <1>2, <1>3, <1>4, <1>5 DEF PutLoop

\* A message m of s with the next number, or its linkDead message, in put.
LEMMA PutKeepsBasicInv ==
  ASSUME BasicInv, NEW s \in Senders, NEW m \in Msgs, NEW queued,
         PutLoop(m, queued),
         m.from = s,
         m \notin Range(accepted),
         UNCHANGED <<m_closed, limits, local, m_localMsgs, receiver>>,
         sent' \in [Senders -> Nat],
         \A t \in Senders \ {s} : sent'[t] = sent[t],
         dead \subseteq dead', dead' \subseteq Senders,
         isControlMsg(m) => /\ m.n = 0 /\ s \in dead'
                            /\ pending[s] = NoMsg /\ sent' = sent,
         ~isControlMsg(m) => m.n = sent'[s] /\ sent'[s] > 0,
         \A x \in Range(accepted) :
           x.from = s /\ ~isControlMsg(x) /\ ~isControlMsg(m) => x.n < sent'[s]
  PROVE  BasicInv'
<1> USE NoMsgIsNone
<1>1. /\ m_sharedBox \in Seq(Msgs) /\ m_sharedPty \in Seq(Msgs)
      /\ accepted \in Seq(Msgs)
      /\ pending \in [Senders -> Msgs \union {NoMsg}]
      /\ sent \in [Senders -> Nat]
  BY DEF BasicInv, TypeInv
<1>2. /\ Append(m_sharedBox, m) \in Seq(Msgs)
      /\ Range(Append(m_sharedBox, m)) = Range(m_sharedBox) \union {m}
      /\ Append(m_sharedPty, m) \in Seq(Msgs)
      /\ Range(Append(m_sharedPty, m)) = Range(m_sharedPty) \union {m}
      /\ Append(accepted, m) \in Seq(Msgs)
      /\ Range(Append(accepted, m)) = Range(accepted) \union {m}
  BY <1>1, AppendList DEF Appended
<1> DEFINE E == Entered(m) /\ pending' = [pending EXCEPT ![s] = NoMsg]
           G == /\ UNCHANGED <<shared, accepted>>
                /\ pending' = [pending EXCEPT ![s] = NoMsg]
           W == /\ UNCHANGED <<shared, accepted>>
                /\ m.kind \in Kinds
                /\ pending' = [pending EXCEPT ![s] = m]
<1>3. E \/ G \/ W  BY PutLoopCases
<1>4. /\ m_sharedBox' \in Seq(Msgs) /\ m_sharedPty' \in Seq(Msgs)
      /\ accepted' \in Seq(Msgs)
      /\ pending' \in [Senders -> Msgs \union {NoMsg}]
      /\ \A t \in Senders \ {s} : pending'[t] = pending[t]
      /\ pending'[s] = NoMsg \/ (pending'[s] = m /\ m.kind \in Kinds /\ W)
      /\ \/ Range(accepted') = Range(accepted) \union {m} /\ E
         \/ Range(accepted') = Range(accepted)
  <2>1. CASE E
    <3>1. /\ m_sharedBox' \in Seq(Msgs) /\ m_sharedPty' \in Seq(Msgs)
          /\ accepted' = Append(accepted, m)
      BY <1>1, <1>2, <2>1 DEF Entered
    <3>2. /\ pending' \in [Senders -> Msgs \union {NoMsg}]
          /\ \A t \in Senders \ {s} : pending'[t] = pending[t]
          /\ pending'[s] = NoMsg
      BY <1>1, <2>1
    <3> QED  BY <3>1, <3>2, <2>1, <1>2
  <2>2. CASE G
    <3>1. /\ pending' \in [Senders -> Msgs \union {NoMsg}]
          /\ \A t \in Senders \ {s} : pending'[t] = pending[t]
          /\ pending'[s] = NoMsg
      BY <1>1, <2>2
    <3> QED  BY <3>1, <2>2, <1>1 DEF shared
  <2>3. CASE W
    <3>1. /\ pending' \in [Senders -> Msgs \union {NoMsg}]
          /\ \A t \in Senders \ {s} : pending'[t] = pending[t]
          /\ pending'[s] = m
      BY <1>1, <2>3
    <3> QED  BY <3>1, <2>3, <1>1 DEF shared
  <2> QED  BY <2>1, <2>2, <2>3, <1>3
<1>5. TypeInv'
  BY <1>4 DEF BasicInv, TypeInv, limits, local, receiver
<1>6. ~(m.kind \in Kinds /\ isControlMsg(m))
  BY MessageBoxAssumption DEF isControlMsg
<1>7. Pending'
  <2> SUFFICES ASSUME NEW t \in Senders, pending'[t] # NoMsg
               PROVE  /\ pending'[t].kind \in Kinds
                      /\ pending'[t].from = t
                      /\ pending'[t].n = sent'[t]
                      /\ sent'[t] > 0
    BY DEF Pending
  <2>1. CASE t = s  BY <2>1, <1>4, <1>6
  <2>2. CASE t # s  BY <2>2, <1>4 DEF BasicInv, Pending
  <2> QED  BY <2>1, <2>2
<1>8. Numbered'
  <2> SUFFICES ASSUME NEW x \in Range(accepted)'
               PROVE  IF isControlMsg(x)
                        THEN x.n = 0 /\ x.from \in dead'
                        ELSE /\ x.n \in 1..sent'[x.from]
                             /\ x.n = sent'[x.from] => pending'[x.from] = NoMsg
    BY DEF Numbered, isControlMsg
  <2>1. CASE x \in Range(accepted)
    <3>1. x \in Msgs  BY <2>1, <1>1, RangeOfSeq
    <3>2. x.from \in Senders /\ x.n \in Nat  BY <3>1 DEF Msgs
    <3>3. CASE isControlMsg(x)
      BY <3>3, <2>1 DEF BasicInv, Numbered
    <3>4. CASE ~isControlMsg(x)
      <4>1. x.n \in 1..sent[x.from] /\ (x.n = sent[x.from] => pending[x.from] = NoMsg)
        BY <3>4, <2>1 DEF BasicInv, Numbered
      <4>2. CASE x.from # s
        BY <4>1, <4>2, <3>2, <3>4, <1>4
      <4>3. CASE x.from = s /\ isControlMsg(m)
        BY <4>1, <4>3, <3>2, <3>4, <1>4, <1>6
      <4>4. CASE x.from = s /\ ~isControlMsg(m)
        <5>1. x.n < sent'[s]  BY <4>4, <3>4, <2>1
        <5>2. x.n \in 1..sent'[s] /\ x.n # sent'[s]
          BY <5>1, <4>1, <4>4, <3>2, <1>1
        <5> QED  BY <5>2, <4>4, <3>4
      <4> QED  BY <4>2, <4>3, <4>4
    <3> QED  BY <3>3, <3>4
  <2>2. CASE x = m /\ E
    <3>1. pending'[s] = NoMsg  BY <2>2, <1>1
    <3>2. m.n \in Nat /\ sent'[s] \in Nat  BY DEF Msgs
    <3> QED  BY <2>2, <3>1, <3>2
  <2> QED  BY <2>1, <2>2, <1>4
<1>9. Lists'
  <2>1. /\ m_localBox' = m_localBox /\ m_localPty' = m_localPty
        /\ received' = received
    BY DEF local, receiver
  <2>2. CASE E
    <3>1. CASE isPriorityMsg(m)
      BY <3>1, <2>1, <2>2, <1>2 DEF BasicInv, Lists, Entered, isPriorityMsg
    <3>2. CASE ~isPriorityMsg(m)
      BY <3>2, <2>1, <2>2, <1>2 DEF BasicInv, Lists, Entered, isPriorityMsg
    <3> QED  BY <3>1, <3>2
  <2>3. CASE UNCHANGED <<shared, accepted>>
    BY <2>1, <2>3 DEF BasicInv, Lists, shared, isPriorityMsg
  <2> QED  BY <2>2, <2>3, <1>3
<1> QED  BY <1>5, <1>7, <1>8, <1>9 DEF BasicInv

\* The actions of the senders.
LEMMA SenderSteps ==
  ASSUME BasicInv, NEW s \in Senders, Send(s) \/ SendWakes(s) \/ Terminate(s)
  PROVE  BasicInv' /\ SenderStep
<1> USE NoMsgIsNone
<1>1. /\ pending \in [Senders -> Msgs \union {NoMsg}]
      /\ sent \in [Senders -> Nat]
      /\ dead \subseteq Senders
      /\ accepted \in Seq(Msgs)
  BY DEF BasicInv, TypeInv
<1>2. \A x \in Range(accepted) : x \in Msgs  BY <1>1, RangeOfSeq
<1>3. CASE Send(s)
  <2>1. PICK kind \in KindsOf[s] :
          put([kind |-> kind, from |-> s, n |-> sent[s] + 1])
    BY <1>3 DEF Send
  <2> DEFINE m == [kind |-> kind, from |-> s, n |-> sent[s] + 1]
  <2>2. kind \in Kinds \union {"priority"}  BY MessageBoxAssumption
  <2>3. m \in Msgs /\ ~isControlMsg(m)
    BY <2>2, <1>1, MessageBoxAssumption DEF Msgs, isControlMsg
  <2>4. /\ UNCHANGED <<m_closed, limits, local, m_localMsgs, receiver, dead>>
        /\ sent' = [sent EXCEPT ![s] = @ + 1]
        /\ pending[s] = NoMsg
    BY <1>3 DEF Send
  <2>5. /\ sent' \in [Senders -> Nat]
        /\ \A t \in Senders \ {s} : sent'[t] = sent[t]
        /\ sent'[s] = sent[s] + 1
    BY <2>4, <1>1
  <2>6. ASSUME NEW x \in Range(accepted), x.from = s, ~isControlMsg(x)
        PROVE  x.n < sent'[s]
    <3>1. x.n \in 1..sent[s]  BY <2>6 DEF BasicInv, Numbered
    <3> QED  BY <3>1, <2>5, <1>1
  <2>7. m \notin Range(accepted)
    BY <2>3, <2>5, <2>6, <1>1
  <2>8. CASE m_closed
    <3>1. UNCHANGED <<shared, m_putMsg, waits, pending, accepted>>
      BY <2>1, <2>8 DEF put
    <3>2. SenderStep  BY <3>1, <2>4, <2>8 DEF SenderStep
    <3>3. TypeInv'
      BY <3>1, <2>4, <2>5 DEF BasicInv, TypeInv, limits, local, receiver, shared
    <3>4. Pending'
      <4> SUFFICES ASSUME NEW t \in Senders, pending[t] # NoMsg
                   PROVE  /\ pending[t].kind \in Kinds
                          /\ pending[t].from = t
                          /\ pending[t].n = sent'[t]
                          /\ sent'[t] > 0
        BY <3>1 DEF Pending
      <4>1. t # s  BY <2>4
      <4> QED  BY <4>1, <2>5 DEF BasicInv, Pending
    <3>5. Numbered'
      <4> SUFFICES ASSUME NEW x \in Range(accepted)
                   PROVE  IF isControlMsg(x)
                            THEN x.n = 0 /\ x.from \in dead
                            ELSE /\ x.n \in 1..sent'[x.from]
                                 /\ x.n = sent'[x.from] => pending[x.from] = NoMsg
        BY <3>1, <2>4 DEF Numbered, isControlMsg
      <4>1. IF isControlMsg(x)
              THEN x.n = 0 /\ x.from \in dead
              ELSE /\ x.n \in 1..sent[x.from]
                   /\ x.n = sent[x.from] => pending[x.from] = NoMsg
        BY DEF BasicInv, Numbered
      <4>2. x.from \in Senders  BY <1>2 DEF Msgs
      <4> QED  BY <4>1, <4>2, <2>4, <2>5, <1>1
    <3>6. Lists'
      BY <3>1, <2>4 DEF BasicInv, Lists, shared, local, receiver, isPriorityMsg
    <3> QED  BY <3>2, <3>3, <3>4, <3>5, <3>6 DEF BasicInv
  <2>9. CASE ~m_closed
    <3>1. PutLoop(m, m_putQueue)  BY <2>1, <2>9 DEF put
    <3>2. BasicInv'
      <4> m.from = s /\ m.n = sent'[s] /\ sent'[s] > 0  BY <2>5, <1>1
      <4> dead \subseteq dead' /\ dead' \subseteq Senders  BY <2>4, <1>1
      <4> HIDE DEF m
      <4> QED  BY <3>1, <2>3, <2>4, <2>5, <2>6, <2>7, PutKeepsBasicInv
    <3>3. Entered(m) \/ UNCHANGED <<shared, accepted>>
      <4> HIDE DEF m
      <4> QED  BY <3>1, <2>3, <2>7, PutLoopCases
    <3> HIDE DEF m
    <3>4. SenderStep  BY <3>3, <2>3, <2>4 DEF SenderStep
    <3> QED  BY <3>2, <3>4
  <2> QED  BY <2>8, <2>9
<1>4. CASE SendWakes(s)
  <2> DEFINE m == pending[s]
  <2>1. /\ m # NoMsg
        /\ PutLoop(m, m_putQueue - 1)
        /\ UNCHANGED <<m_closed, limits, local, m_localMsgs, receiver, sent, dead>>
    BY <1>4 DEF SendWakes
  <2>2. m \in Msgs /\ m.from = s /\ m.n = sent[s] /\ sent[s] > 0 /\ m.kind \in Kinds
    BY <2>1, <1>1 DEF BasicInv, Pending
  <2>3. ~isControlMsg(m)  BY <2>2, MessageBoxAssumption DEF isControlMsg
  <2>4. ASSUME NEW x \in Range(accepted), x.from = s, ~isControlMsg(x)
        PROVE  x.n < sent[s]
    <3>1. x.n \in 1..sent[s] /\ x.n # sent[s]
      BY <2>1, <2>4 DEF BasicInv, Numbered
    <3> QED  BY <3>1, <1>1
  <2>5. m \notin Range(accepted)  BY <2>2, <2>3, <2>4, <1>1
  <2> HIDE DEF m
  <2>6. BasicInv'
    <3>1. sent' = sent /\ dead' = dead
      BY <2>1
    <3>2. /\ sent' \in [Senders -> Nat]
          /\ \A t \in Senders \ {s} : sent'[t] = sent[t]
          /\ dead \subseteq dead' /\ dead' \subseteq Senders
          /\ m.n = sent'[s] /\ sent'[s] > 0
          /\ \A x \in Range(accepted) :
               x.from = s /\ ~isControlMsg(x) /\ ~isControlMsg(m) => x.n < sent'[s]
      BY <3>1, <2>2, <2>4, <1>1
    <3>3. UNCHANGED <<m_closed, limits, local, m_localMsgs, receiver>>
      BY <2>1
    <3> HIDE <3>1
    <3> QED  BY <3>2, <3>3, <2>1, <2>2, <2>3, <2>5, PutKeepsBasicInv
  <2>7. Entered(m) \/ UNCHANGED <<shared, accepted>>
    BY <2>1, <2>2, <2>5, PutLoopCases
  <2>8. SenderStep  BY <2>1, <2>2, <2>3, <2>7 DEF SenderStep
  <2> QED  BY <2>6, <2>8
<1>5. CASE Terminate(s)
  <2> DEFINE m == [kind |-> "linkDead", from |-> s, n |-> 0]
  <2>1. /\ s \notin dead
        /\ pending[s] = NoMsg
        /\ dead' = dead \union {s}
        /\ put(m)
        /\ UNCHANGED <<m_closed, limits, local, m_localMsgs, receiver, sent>>
    BY <1>5 DEF Terminate
  <2>2. m \in Msgs /\ isControlMsg(m) /\ m.from = s /\ m.n = 0
    BY DEF Msgs, isControlMsg
  <2>3. m \notin Range(accepted)
    BY <2>1, <2>2 DEF BasicInv, Numbered
  <2> HIDE DEF m
  <2>4. CASE m_closed
    <3>1. UNCHANGED <<shared, m_putMsg, waits, pending, accepted>>
      BY <2>1, <2>4 DEF put
    <3>2. SenderStep  BY <3>1, <2>1, <2>4 DEF SenderStep
    <3>3. TypeInv'
      BY <3>1, <2>1 DEF BasicInv, TypeInv, limits, local, receiver, shared
    <3>4. Pending'  BY <3>1, <2>1 DEF BasicInv, Pending
    <3>5. Numbered'
      BY <3>1, <2>1 DEF BasicInv, Numbered, isControlMsg
    <3>6. Lists'
      BY <3>1, <2>1 DEF BasicInv, Lists, shared, local, receiver, isPriorityMsg
    <3> QED  BY <3>2, <3>3, <3>4, <3>5, <3>6 DEF BasicInv
  <2>5. CASE ~m_closed
    <3>1. PutLoop(m, m_putQueue)  BY <2>1, <2>5 DEF put
    <3>2. BasicInv'
      <4>1. /\ dead \subseteq dead' /\ dead' \subseteq Senders /\ s \in dead'
            /\ sent' = sent /\ sent' \in [Senders -> Nat]
            /\ \A t \in Senders \ {s} : sent'[t] = sent[t]
        BY <2>1, <1>1
      <4>2. UNCHANGED <<m_closed, limits, local, m_localMsgs, receiver>>
        BY <2>1
      <4> QED  BY <4>1, <4>2, <3>1, <2>1, <2>2, <2>3, PutKeepsBasicInv
    <3>3. Entered(m)
      <4>1. m.kind \notin Kinds
        BY <2>2, MessageBoxAssumption DEF isControlMsg
      <4> QED  BY <4>1, <3>1, <2>2, <2>3, PutLoopCases
    <3>4. SenderStep  BY <3>3, <2>1, <2>2 DEF SenderStep
    <3> QED  BY <3>2, <3>4
  <2> QED  BY <2>4, <2>5
<1> QED  BY <1>3, <1>4, <1>5

\* scan finds the first message that matches.
LEMMA ScanHitCase ==
  ASSUME NEW list \in Seq(Msgs), NEW accept, NEW rest,
         ScanHit(list, accept, rest)
  PROVE  \E i \in 1..Len(list) :
           /\ Matches(list[i], accept)
           /\ \A k \in 1..(i - 1) : ~Matches(list[k], accept)
           /\ received' = Append(received, list[i])
           /\ ForgetLinks(SubSeq(list, 1, i))
           /\ m_localBox' = rest \o Without(list, i)
           /\ GetEnds
<1> DEFINE H == Hits(list, accept)
           i == CHOOSE j \in H : \A k \in H : j <= k
<1>1. Len(list) \in Nat  BY LenProperties
<1>2. H \in SUBSET Nat /\ H # {}  BY <1>1 DEF ScanHit, Hits
<1>3. \E j \in H : \A k \in H : j <= k
  <2> HIDE DEF H
  <2> QED  BY <1>2, LeastNat
<1>4. i \in H /\ \A k \in H : i <= k
  <2> HIDE DEF H
  <2> QED  BY <1>3
<1>5. /\ received' = Append(received, list[i])
      /\ ForgetLinks(SubSeq(list, 1, i))
      /\ m_localBox' = rest \o Without(list, i)
      /\ GetEnds
  BY DEF ScanHit
<1> HIDE DEF i
<1>6. i \in 1..Len(list) /\ Matches(list[i], accept)  BY <1>4 DEF Hits
<1>7. ASSUME NEW k \in 1..(i - 1)  PROVE ~Matches(list[k], accept)
  <2>1. k \in 1..Len(list) /\ ~(i <= k)  BY <1>1, <1>6
  <2> QED  BY <2>1, <1>4 DEF Hits
<1> QED  BY <1>5, <1>6, <1>7

\* scan finds nothing.
LEMMA ScanMissCase ==
  ASSUME NEW list \in Seq(Msgs), NEW accept, ScanMiss(list, accept)
  PROVE  /\ \A m \in Range(list) : ~Matches(m, accept)
         /\ ForgetLinks(list)
         /\ GetGoesOn
         /\ UNCHANGED received
<1>1. DOMAIN list = 1..Len(list)  BY LenProperties
<1>2. \A i \in 1..Len(list) : ~Matches(list[i], accept)  BY DEF ScanMiss, Hits
<1> QED  BY <1>1, <1>2 DEF ScanMiss, Range

\* A step of the receiver moves and removes messages.
LEMMA ReceiverKeepsBasicInv ==
  ASSUME BasicInv, TypeInv', UNCHANGED <<senders, accepted>>,
         Range(m_localBox') \union Range(m_sharedBox')
           \subseteq Range(m_localBox) \union Range(m_sharedBox),
         Range(m_localPty') \union Range(m_sharedPty')
           \subseteq Range(m_localPty) \union Range(m_sharedPty),
         Range(received') \subseteq Range(accepted)
  PROVE  BasicInv'
<1>1. pending' = pending /\ sent' = sent /\ dead' = dead /\ accepted' = accepted
  BY DEF senders
<1>2. Pending'  BY <1>1 DEF BasicInv, Pending
<1>3. Numbered'  BY <1>1 DEF BasicInv, Numbered, isControlMsg
<1>4. Lists'  BY <1>1 DEF BasicInv, Lists, isPriorityMsg
<1> QED  BY <1>2, <1>3, <1>4 DEF BasicInv

\* pty.
LEMMA PtyBasics ==
  ASSUME received \in Seq(Msgs),
         NEW list \in Seq(Msgs), list # <<>>, NEW accept, Pty(list, accept)
  PROVE  /\ m_localPty' \in Seq(Msgs)
         /\ Range(m_localPty') \subseteq Range(list)
         /\ received' \in Seq(Msgs)
         /\ Range(received') \subseteq Range(received) \union Range(list)
<1>1. /\ Head(list) \in Range(list) /\ Tail(list) \in Seq(Msgs)
      /\ Range(Tail(list)) \subseteq Range(list)
      /\ Head(list) \in Msgs
  BY PartOfList, RangeOfSeq
<1>2. CASE m_localPty' = Tail(list) /\ received' = Append(received, Head(list))
  <2>1. m_localPty' = Tail(list) /\ received' = Append(received, Head(list))
    BY <1>2
  <2>2. /\ Append(received, Head(list)) \in Seq(Msgs)
        /\ Range(Append(received, Head(list))) = Range(received) \union {Head(list)}
    BY <1>1, AppendList DEF Appended
  <2> QED  BY <2>1, <2>2, <1>1
<1>3. CASE m_localPty' = list /\ UNCHANGED received
  BY <1>3
<1> QED  BY <1>2, <1>3 DEF Pty

\* scan, when it finds a message.
LEMMA ScanHitBasics ==
  ASSUME received \in Seq(Msgs),
         NEW list \in Seq(Msgs), NEW accept, NEW rest \in Seq(Msgs),
         ScanHit(list, accept, rest)
  PROVE  /\ m_localBox' \in Seq(Msgs)
         /\ Range(m_localBox') \subseteq Range(rest) \union Range(list)
         /\ received' \in Seq(Msgs)
         /\ Range(received') \subseteq Range(received) \union Range(list)
         /\ pc' = "idle" /\ ops' = {}
<1>1. PICK i \in 1..Len(list) :
           /\ received' = Append(received, list[i])
           /\ m_localBox' = rest \o Without(list, i)
           /\ GetEnds
  BY ScanHitCase
<1>2. /\ list[i] \in Range(list) /\ list[i] \in Msgs
      /\ Without(list, i) \in Seq(Msgs)
      /\ Range(Without(list, i)) \subseteq Range(list)
  BY PartOfList
<1>3. /\ Append(received, list[i]) \in Seq(Msgs)
      /\ Range(Append(received, list[i])) = Range(received) \union {list[i]}
  BY <1>2, AppendList DEF Appended
<1>4. /\ rest \o Without(list, i) \in Seq(Msgs)
      /\ Range(rest \o Without(list, i)) = Range(rest) \union Range(Without(list, i))
  BY <1>2, ConcatList
<1> QED  BY <1>1, <1>2, <1>3, <1>4 DEF GetEnds

\* ForgetLinks forgets at most the owner.
LEMMA ForgetOwner ==
  ASSUME owner \in {Owner, Receiver}, NEW list, ForgetLinks(list)
  PROVE  owner' \in {Owner, Receiver}
  BY DEF ForgetLinks

\* BasicInv is preserved.
LEMMA BasicInvNext ==
  ASSUME BasicInv, [Next]_vars
  PROVE  BasicInv'
<1>0. /\ m_sharedBox \in Seq(Msgs) /\ m_sharedPty \in Seq(Msgs)
      /\ m_localBox \in Seq(Msgs) /\ m_localPty \in Seq(Msgs)
      /\ accepted \in Seq(Msgs) /\ received \in Seq(Msgs)
      /\ owner \in {Owner, Receiver}
      /\ <<>> \in Seq(Msgs)
      /\ m_closed <=> pc = "closed"
      /\ Range(<<>>) = {}
      /\ Range(received) \subseteq Range(accepted)
      /\ Range(m_localBox) \union Range(m_sharedBox) \subseteq Range(accepted)
      /\ Range(m_localPty) \union Range(m_sharedPty) \subseteq Range(accepted)
  BY EmptySeq, EmptyList DEF BasicInv, TypeInv, Lists
<1>1. ASSUME NEW s \in Senders, Send(s) \/ SendWakes(s) \/ Terminate(s)
      PROVE  BasicInv'
  BY <1>1, SenderSteps
<1>2. ASSUME UNCHANGED <<m_closed, shared, local, links, owner, received,
                         senders, accepted>>,
             m_localMsgs' \in Nat, m_maxMsgs' \in Nat,
             ops' \in SUBSET (Kinds \union {"priority"}),
             pc' = "closed" <=> pc = "closed"
      PROVE  BasicInv'
  <2>1. TypeInv'
    BY <1>2 DEF BasicInv, TypeInv, shared, local, senders
  <2>2. /\ m_localBox' = m_localBox /\ m_sharedBox' = m_sharedBox
        /\ m_localPty' = m_localPty /\ m_sharedPty' = m_sharedPty
        /\ received' = received /\ UNCHANGED <<senders, accepted>>
    BY <1>2 DEF shared, local
  <2> QED  BY <2>1, <2>2, <1>0, ReceiverKeepsBasicInv
<1>3. CASE setMaxMailboxSize
  <2>1. PICK num \in Limits, call \in Behaviors : setMaxMsgs(num, call)
    BY <1>3 DEF setMaxMailboxSize
  <2>2. num \in Nat  BY MessageBoxAssumption
  <2> QED  BY <2>1, <2>2, <1>2 DEF setMaxMsgs, receiver, BasicInv, TypeInv
<1>4. CASE receive \/ receiveTimeout
  <2>1. PICK accept \in OpsSets : Get(accept, TRUE) \/ Get(accept, FALSE)
    BY <1>4 DEF receive, receiveTimeout
  <2>2. accept \in SUBSET (Kinds \union {"priority"})  BY MessageBoxAssumption
  <2> QED  BY <2>1, <2>2, <1>2 DEF Get, limits, BasicInv, TypeInv
<1>5. CASE GetSearch
  <2>1. /\ pc = "search"
        /\ UNCHANGED <<m_closed, limits, shared, m_localMsgs, waits, m_putMsg,
                       senders, accepted>>
    BY <1>5 DEF GetSearch
  <2>2. CASE m_localPty # <<>>
    <3>1. Pty(m_localPty, ops) /\ UNCHANGED m_localBox  BY <1>5, <2>2 DEF GetSearch
    <3>2. /\ m_localPty' \in Seq(Msgs)
          /\ Range(m_localPty') \subseteq Range(m_localPty)
          /\ received' \in Seq(Msgs)
          /\ Range(received') \subseteq Range(received) \union Range(m_localPty)
      BY <3>1, <2>2, <1>0, PtyBasics
    <3>3. TypeInv'
      BY <3>1, <3>2, <2>1 DEF BasicInv, TypeInv, Pty, GetEnds, limits, shared, senders
    <3> QED  BY <3>1, <3>2, <3>3, <2>1, <1>0, ReceiverKeepsBasicInv DEF shared
  <2>3. CASE m_localPty = <<>> /\ ScanHit(m_localBox, ops, <<>>)
    <3>1. UNCHANGED m_localPty  BY <1>5, <2>3 DEF GetSearch
    <3>2. /\ m_localBox' \in Seq(Msgs)
          /\ Range(m_localBox') \subseteq Range(<<>>) \union Range(m_localBox)
          /\ received' \in Seq(Msgs)
          /\ Range(received') \subseteq Range(received) \union Range(m_localBox)
          /\ pc' = "idle" /\ ops' = {}
      BY <2>3, <1>0, ScanHitBasics
    <3>3. owner' \in {Owner, Receiver}
      BY <2>3, <1>0, ScanHitCase, ForgetOwner
    <3>4. TypeInv'
      BY <3>1, <3>2, <3>3, <2>1 DEF BasicInv, TypeInv, limits, shared, senders
    <3> QED  BY <3>1, <3>2, <3>4, <2>1, <1>0, ReceiverKeepsBasicInv DEF shared
  <2>4. CASE m_localPty = <<>> /\ ScanMiss(m_localBox, ops) /\ UNCHANGED m_localBox
    <3>1. UNCHANGED m_localPty  BY <1>5, <2>4 DEF GetSearch
    <3>2. GetGoesOn /\ UNCHANGED received  BY <2>4 DEF ScanMiss
    <3>3. owner' \in {Owner, Receiver}
      BY <2>4, <1>0, ForgetOwner DEF ScanMiss
    <3>4. TypeInv'
      BY <3>1, <3>2, <3>3, <2>1, <2>4
         DEF BasicInv, TypeInv, limits, shared, senders, GetGoesOn
    <3> QED  BY <3>1, <3>2, <3>4, <2>1, <2>4, <1>0, ReceiverKeepsBasicInv DEF shared
  <2> QED  BY <2>2, <2>3, <2>4, <1>5 DEF GetSearch
<1>6. CASE GetEnter
  <2>1. /\ pc \in {"enter", "asleep"}
        /\ UNCHANGED <<m_closed, limits, m_putQueue, senders, accepted>>
    BY <1>6 DEF GetEnter
  <2>2. m_localMsgs' \in Nat
    <3>1. Len(m_localBox) \in Nat  BY <1>0, LenProperties
    <3> QED  BY <3>1, <1>6 DEF GetEnter, updateMsgCount, BasicInv, TypeInv
  <2>3. CASE GetWaits
    <3>1. UNCHANGED <<shared, local, links, owner, received>>
      BY <2>3 DEF GetWaits
    <3>2. pc' # "closed" /\ (ops' = ops \/ ops' = {})
      BY <2>3 DEF GetWaits, GetEnds
    <3> QED  BY <3>1, <3>2, <2>1, <2>2, <1>2 DEF BasicInv, TypeInv, limits
  <2>4. CASE GetArrived
    <3> DEFINE pty == m_localPty \o m_sharedPty
               box == m_localBox \o m_sharedBox
    <3>1. m_sharedPty' = <<>> /\ m_sharedBox' = <<>>  BY <2>4 DEF GetArrived
    <3>2. /\ pty \in Seq(Msgs)
          /\ Range(pty) = Range(m_localPty) \union Range(m_sharedPty)
          /\ box \in Seq(Msgs)
          /\ Range(box) = Range(m_localBox) \union Range(m_sharedBox)
      BY <1>0, ConcatList
    <3> HIDE DEF pty, box
    <3>3. CASE pty # <<>>
      <4>1. m_localBox' = box /\ Pty(pty, ops)
        BY <2>4, <3>3 DEF GetArrived, pty, box
      <4>2. /\ m_localPty' \in Seq(Msgs)
            /\ Range(m_localPty') \subseteq Range(pty)
            /\ received' \in Seq(Msgs)
            /\ Range(received') \subseteq Range(received) \union Range(pty)
        BY <4>1, <3>2, <3>3, <1>0, PtyBasics
      <4>3. TypeInv'
        BY <4>1, <4>2, <3>1, <3>2, <2>1, <2>2, <1>0
           DEF BasicInv, TypeInv, Pty, GetEnds, limits, senders
      <4> QED  BY <4>1, <4>2, <4>3, <3>1, <3>2, <2>1, <1>0, ReceiverKeepsBasicInv
    <3>4. CASE pty = <<>> /\ ScanHit(m_sharedBox, ops, m_localBox)
      <4>1. UNCHANGED m_localPty  BY <2>4, <3>4 DEF GetArrived, pty
      <4>2. /\ m_localBox' \in Seq(Msgs)
            /\ Range(m_localBox') \subseteq Range(m_localBox) \union Range(m_sharedBox)
            /\ received' \in Seq(Msgs)
            /\ Range(received') \subseteq Range(received) \union Range(m_sharedBox)
            /\ pc' = "idle" /\ ops' = {}
        BY <3>4, <1>0, ScanHitBasics
      <4>3. owner' \in {Owner, Receiver}
        BY <3>4, <1>0, ScanHitCase, ForgetOwner
      <4>4. TypeInv'
        BY <4>1, <4>2, <4>3, <3>1, <2>1, <2>2, <1>0
           DEF BasicInv, TypeInv, limits, senders
      <4> QED  BY <4>1, <4>2, <4>4, <3>1, <2>1, <1>0, ReceiverKeepsBasicInv
    <3>5. CASE /\ pty = <<>> /\ ScanMiss(m_sharedBox, ops)
               /\ m_localBox' = box
      <4>1. UNCHANGED m_localPty  BY <2>4, <3>5 DEF GetArrived, pty
      <4>2. GetGoesOn /\ UNCHANGED received  BY <3>5 DEF ScanMiss
      <4>3. owner' \in {Owner, Receiver}
        BY <3>5, <1>0, ForgetOwner DEF ScanMiss
      <4>4. TypeInv'
        BY <4>1, <4>2, <4>3, <3>1, <3>2, <3>5, <2>1, <2>2, <1>0
           DEF BasicInv, TypeInv, limits, senders, GetGoesOn
      <4> QED  BY <4>1, <4>2, <4>4, <3>1, <3>2, <3>5, <2>1, <1>0, ReceiverKeepsBasicInv
    <3> QED  BY <3>3, <3>4, <3>5, <2>4 DEF GetArrived, pty, box
  <2> QED  BY <2>3, <2>4, <1>6 DEF GetEnter
<1>7. CASE TimeIsUp \/ GetTimesOut
  BY <1>2, <1>7 DEF TimeIsUp, GetTimesOut, GetEnds, limits, BasicInv, TypeInv
<1>8. CASE close
  <2>1. /\ pc' = "closed" /\ m_closed' = TRUE
        /\ m_sharedBox' = <<>> /\ m_localBox' = <<>>
        /\ UNCHANGED <<limits, m_sharedPty, m_localPty, m_localMsgs, waits,
                       m_putMsg, ops, timed, received, senders, accepted>>
        /\ ForgetLinks(m_localBox \o m_sharedBox)
    BY <1>8 DEF close
  <2>2. owner' \in {Owner, Receiver}  BY <2>1, <1>0, ForgetOwner
  <2>3. TypeInv'
    BY <2>1, <2>2, <1>0 DEF BasicInv, TypeInv, limits, senders
  <2> QED  BY <2>1, <2>3, <1>0, ReceiverKeepsBasicInv
<1>9. ASSUME NEW t \in Senders \union {Receiver}, SpuriousWakeup(t)
      PROVE  BasicInv'
  BY <1>2, <1>9 DEF SpuriousWakeup, limits, receiver, BasicInv, TypeInv
<1>10. CASE UNCHANGED vars
  BY <1>2, <1>10 DEF vars, limits, receiver, BasicInv, TypeInv
<1> QED
  BY <1>1, <1>3, <1>4, <1>5, <1>6, <1>7, <1>8, <1>9, <1>10 DEF Next

\* BasicInv is an invariant.
THEOREM BasicInvHolds == Spec => []BasicInv
<1>1. Init => BasicInv
  <2> SUFFICES ASSUME Init  PROVE BasicInv
    OBVIOUS
  <2>1. <<>> \in Seq(Msgs) /\ Range(<<>>) = {}  BY EmptySeq, EmptyList
  <2>2. TypeInv  BY <2>1 DEF Init, TypeInv
  <2>3. Pending  BY DEF Init, Pending
  <2>4. Numbered /\ Lists  BY <2>1 DEF Init, Numbered, Lists
  <2> QED  BY <2>2, <2>3, <2>4 DEF BasicInv
<1>2. BasicInv /\ [Next]_vars => BasicInv'  BY BasicInvNext
<1> QED  BY <1>1, <1>2, PTL DEF Spec
-----------------------------------------------------------------------------
(***************************************************************************)
(* The count of waiting senders                                            *)
(***************************************************************************)
Waiting == {s \in Senders : pending[s] # NoMsg}

\* The loop of put counts its sender when it waits, and only then.
LEMMA PutLoopCounts ==
  ASSUME BasicInv, NEW s \in Senders, NEW m \in Msgs, NEW queued,
         m.from = s, m \notin Range(accepted),
         PutLoop(m, queued),
         queued = Cardinality(Waiting \ {s})
  PROVE  PutQueueExact'
<1> USE NoMsgIsNone
<1> DEFINE others == Waiting \ {s}
<1>1. IsFiniteSet(others)
  <2>1. others \in SUBSET Senders  BY DEF Waiting
  <2> QED  BY <2>1, MessageBoxAssumption, FS_Subset
<1>2. pending \in [Senders -> Msgs \union {NoMsg}]  BY DEF BasicInv, TypeInv
<1>3. CASE pending' = [pending EXCEPT ![s] = NoMsg] /\ m_putQueue' = queued
  <2>1. Waiting' = others  BY <1>2, <1>3 DEF Waiting
  <2> QED  BY <2>1, <1>3 DEF PutQueueExact, Waiting
<1>4. CASE pending' = [pending EXCEPT ![s] = m] /\ m_putQueue' = queued + 1
  <2>1. Waiting' = others \union {s}
    <3>1. \A t \in Senders : pending'[t] # NoMsg <=> t = s \/ pending[t] # NoMsg
      BY <1>2, <1>4
    <3> QED  BY <3>1 DEF Waiting
  <2>2. s \notin others  OBVIOUS
  <2> HIDE DEF others
  <2>3. Cardinality(others \union {s}) = Cardinality(others) + 1
    BY <2>2, <1>1, FS_AddElement
  <2> QED  BY <2>1, <2>3, <1>4 DEF PutQueueExact, Waiting, others
<1> QED  BY <1>3, <1>4, PutLoopCases

\* At every moment, m_putQueue is the number of senders that wait in put: the
\* counter that get looks at before it wakes them is exact, whatever the
\* crowding behaviour becomes while they wait.
THEOREM PutQueueExactHolds == Spec => []PutQueueExact
<1>1. Init => PutQueueExact
  <2> SUFFICES ASSUME Init  PROVE PutQueueExact
    OBVIOUS
  <2>1. {s \in Senders : pending[s] # NoMsg} = {}  BY DEF Init
  <2> QED  BY <2>1, FS_EmptySet DEF Init, PutQueueExact
<1>2. BasicInv /\ PutQueueExact /\ [Next]_vars => PutQueueExact'
  <2> SUFFICES ASSUME BasicInv, PutQueueExact, [Next]_vars
               PROVE  PutQueueExact'
    OBVIOUS
  <2>0. m_putQueue = Cardinality(Waiting)  BY DEF PutQueueExact, Waiting
  <2>1. ASSUME NEW s \in Senders, NEW m \in Msgs, put(m), m.from = s,
               pending[s] = NoMsg, m \notin Range(accepted)
        PROVE  PutQueueExact'
    <3>1. CASE m_closed
      BY <2>1, <3>1 DEF put, PutQueueExact, waits
    <3>2. CASE ~m_closed
      <4>1. Waiting \ {s} = Waiting  BY <2>1 DEF Waiting
      <4> QED  BY <4>1, <3>2, <2>0, <2>1, PutLoopCounts DEF put
    <3> QED  BY <3>1, <3>2
  <2>2. ASSUME NEW s \in Senders, Send(s)
        PROVE  PutQueueExact'
    <3>1. PICK kind \in KindsOf[s] :
            put([kind |-> kind, from |-> s, n |-> sent[s] + 1])
      BY <2>2 DEF Send
    <3> DEFINE m == [kind |-> kind, from |-> s, n |-> sent[s] + 1]
    <3>2. sent[s] \in Nat  BY DEF BasicInv, TypeInv
    <3>3. m \in Msgs /\ ~isControlMsg(m)
      BY <3>2, MessageBoxAssumption DEF Msgs, isControlMsg
    <3>4. m \notin Range(accepted)
      BY <3>2, <3>3 DEF BasicInv, Numbered
    <3> QED  BY <3>1, <3>3, <3>4, <2>1, <2>2 DEF Send
  <2>3. ASSUME NEW s \in Senders, SendWakes(s)
        PROVE  PutQueueExact'
    <3>1. /\ pending[s] # NoMsg
          /\ PutLoop(pending[s], m_putQueue - 1)
      BY <2>3 DEF SendWakes
    <3>2. /\ pending[s] \in Msgs /\ pending[s].from = s
          /\ pending[s].n = sent[s] /\ pending[s].kind \in Kinds
      BY <3>1 DEF BasicInv, TypeInv, Pending
    <3>3. pending[s] \notin Range(accepted)
      BY <3>1, <3>2, MessageBoxAssumption DEF BasicInv, Numbered, isControlMsg
    <3>4. m_putQueue - 1 = Cardinality(Waiting \ {s})
      <4>1. IsFiniteSet(Waiting)
        <5>1. Waiting \in SUBSET Senders  BY DEF Waiting
        <5> QED  BY <5>1, MessageBoxAssumption, FS_Subset
      <4>2. s \in Waiting  BY <3>1 DEF Waiting
      <4> QED  BY <4>1, <4>2, <2>0, FS_RemoveElement
    <3> QED  BY <3>1, <3>2, <3>3, <3>4, PutLoopCounts
  <2>4. ASSUME NEW s \in Senders, Terminate(s)
        PROVE  PutQueueExact'
    <3> DEFINE m == [kind |-> "linkDead", from |-> s, n |-> 0]
    <3>1. put(m) /\ s \notin dead /\ pending[s] = NoMsg  BY <2>4 DEF Terminate
    <3>2. m \in Msgs /\ isControlMsg(m) /\ m.from = s  BY DEF Msgs, isControlMsg
    <3>3. m \notin Range(accepted)  BY <3>1, <3>2 DEF BasicInv, Numbered
    <3> QED  BY <3>1, <3>2, <3>3, <2>1
  <2>5. CASE UNCHANGED <<m_putQueue, pending>>
    BY <2>5 DEF PutQueueExact
  <2>6. CASE \/ setMaxMailboxSize \/ receive \/ receiveTimeout \/ GetSearch
             \/ TimeIsUp \/ GetTimesOut \/ close \/ GetEnter
             \/ \E t \in Senders \union {Receiver} : SpuriousWakeup(t)
    <3>1. UNCHANGED <<m_putQueue, pending>>
      BY <2>6 DEF setMaxMailboxSize, setMaxMsgs, receive, receiveTimeout, Get,
         GetSearch, TimeIsUp, GetTimesOut, close, GetEnter, SpuriousWakeup, waits, senders
    <3> QED  BY <2>5, <3>1
  <2>7. CASE UNCHANGED vars
    BY <2>5, <2>7 DEF vars, waits, senders
  <2> QED  BY <2>2, <2>3, <2>4, <2>6, <2>7 DEF Next
<1> QED  BY <1>1, <1>2, BasicInvHolds, PTL DEF Spec
-----------------------------------------------------------------------------
(***************************************************************************)
(* The limit                                                               *)
(***************************************************************************)

User(list) == {m \in Range(list) : m.kind \in Kinds}

\* The count is right when the receiver goes to sleep, and while it sleeps.
CountInv == pc = "asleep" => m_localMsgs = Len(m_localBox)

\* CountInv is preserved.
LEMMA CountInvNext ==
  ASSUME BasicInv, CountInv, [Next]_vars
  PROVE  CountInv'
<1>1. ASSUME UNCHANGED <<m_localBox, m_localMsgs>>, pc' = "asleep" => pc = "asleep"
      PROVE  CountInv'
  BY <1>1 DEF CountInv
<1>2. ASSUME NEW s \in Senders, Send(s) \/ SendWakes(s) \/ Terminate(s)
      PROVE  CountInv'
  <2>1. SenderStep  BY <1>2, SenderSteps
  <2> QED  BY <2>1, <1>1 DEF SenderStep, local, receiver
<1>3. CASE \/ setMaxMailboxSize \/ receive \/ receiveTimeout \/ TimeIsUp \/ GetTimesOut
           \/ \E t \in Senders \union {Receiver} : SpuriousWakeup(t)
  BY <1>1, <1>3 DEF setMaxMailboxSize, setMaxMsgs, receive, receiveTimeout, Get, TimeIsUp,
     GetTimesOut, GetEnds, SpuriousWakeup, local, receiver
<1>4. CASE GetSearch \/ close
  <2>1. pc' # "asleep"
    BY <1>4 DEF GetSearch, close, Pty, ScanHit, ScanMiss, GetEnds, GetGoesOn
  <2> QED  BY <2>1 DEF CountInv
<1>5. CASE GetEnter
  <2>1. CASE GetWaits
    <3>1. UNCHANGED m_localBox  BY <2>1 DEF GetWaits, local
    <3>2. m_localMsgs' = Len(m_localBox)
      <4>1. CASE pc = "enter"  BY <1>5, <4>1 DEF GetEnter, updateMsgCount
      <4>2. CASE pc # "enter"  BY <1>5, <4>2 DEF GetEnter, CountInv
      <4> QED  BY <4>1, <4>2
    <3> QED  BY <3>1, <3>2 DEF CountInv
  <2>2. CASE GetArrived
    <3>1. pc' # "asleep"
      BY <2>2 DEF GetArrived, Pty, ScanHit, ScanMiss, GetEnds, GetGoesOn
    <3> QED  BY <3>1 DEF CountInv
  <2> QED  BY <2>1, <2>2, <1>5 DEF GetEnter
<1>6. CASE UNCHANGED vars
  BY <1>1, <1>6 DEF vars, local, receiver
<1> QED  BY <1>2, <1>3, <1>4, <1>5, <1>6 DEF Next

LEMMA CountInvHolds == Spec => []CountInv
<1>1. Init => CountInv  BY DEF Init, CountInv
<1>2. BasicInv /\ CountInv /\ [Next]_vars => CountInv'
  BY CountInvNext
<1> QED  BY <1>1, <1>2, BasicInvHolds, PTL DEF Spec

\* The limit is set before the first message is sent, and raised later, if
\* it is changed at all.
OnlyRaised ==
  \/ m_maxMsgs' = m_maxMsgs
  \/ m_maxMsgs \in 1..(m_maxMsgs' - 1)
  \/ \A s \in Senders : sent[s] = 0

\* m_localMsgs is a count that was once right; what get has moved since came
\* out of a shared list that was within the limit.
LimitInv ==
  /\ CountInv
  /\ m_maxMsgs # 0 =>
       /\ \/ User(m_sharedBox) = {}
          \/ Cardinality(User(m_sharedBox)) + m_localMsgs <= m_maxMsgs
       /\ Cardinality(User(m_localBox)) <= m_localMsgs + m_maxMsgs
       /\ Cardinality(User(m_localBox)) + Cardinality(User(m_sharedBox))
            <= 2 * m_maxMsgs

\* A list is at least as long as it has user messages.
LEMMA UserBound ==
  ASSUME NEW list \in Seq(Msgs)
  PROVE  /\ IsFiniteSet(User(list))
         /\ Cardinality(User(list)) \in Nat
         /\ Cardinality(User(list)) <= Len(list)
         /\ Len(list) \in Nat
<1> DEFINE n == Len(list)
<1>1. n \in Nat /\ list \in [1..n -> Msgs] /\ DOMAIN list = 1..n
  BY LenProperties
<1>2. list \in Surjection(1..n, Range(list))
  BY <1>1 DEF Surjection, Range
<1>3. IsFiniteSet(1..n) /\ Cardinality(1..n) = n
  BY <1>1, FS_Interval
<1>4. IsFiniteSet(Range(list)) /\ Cardinality(Range(list)) <= n
  BY <1>2, <1>3, FS_Surjection
<1>5. User(list) \in SUBSET Range(list)  BY DEF User
<1>6. IsFiniteSet(User(list)) /\ Cardinality(User(list)) <= Cardinality(Range(list))
  BY <1>4, <1>5, FS_Subset
<1>7. Cardinality(User(list)) \in Nat /\ Cardinality(Range(list)) \in Nat
  BY <1>4, <1>6, FS_CardinalityType
<1> QED  BY <1>1, <1>4, <1>6, <1>7

\* A list made of messages of two others.
LEMMA UserOfParts ==
  ASSUME NEW list \in Seq(Msgs), NEW s \in Seq(Msgs), NEW t \in Seq(Msgs),
         Range(list) \subseteq Range(s) \union Range(t)
  PROVE  Cardinality(User(list)) <= Cardinality(User(s)) + Cardinality(User(t))
<1>1. /\ IsFiniteSet(User(s)) /\ IsFiniteSet(User(t))
      /\ Cardinality(User(s)) \in Nat /\ Cardinality(User(t)) \in Nat
      /\ Cardinality(User(list)) \in Nat
  BY UserBound
<1> DEFINE st == User(s) \union User(t)
<1>2. /\ IsFiniteSet(st)
      /\ Cardinality(st) =
           Cardinality(User(s)) + Cardinality(User(t))
             - Cardinality(User(s) \intersect User(t))
  BY <1>1, FS_Union
<1>3. Cardinality(User(s) \intersect User(t)) \in Nat
  <2>1. IsFiniteSet(User(s) \intersect User(t))  BY <1>1, FS_Intersection
  <2> QED  BY <2>1, FS_CardinalityType
<1>4. User(list) \in SUBSET st  BY DEF User
<1>5. Cardinality(User(list)) <= Cardinality(st)
  <2> HIDE DEF st
  <2> QED  BY <1>2, <1>4, FS_Subset
<1> HIDE DEF st
<1> QED  BY <1>1, <1>2, <1>3, <1>5

\* A list made of messages of another.
LEMMA UserOfPart ==
  ASSUME NEW list \in Seq(Msgs), NEW s \in Seq(Msgs),
         Range(list) \subseteq Range(s)
  PROVE  Cardinality(User(list)) <= Cardinality(User(s))
<1>1. IsFiniteSet(User(s))  BY UserBound
<1>2. User(list) \in SUBSET User(s)  BY DEF User
<1> QED  BY <1>1, <1>2, FS_Subset

\* The arithmetic of the steps: a message enters that does not find the mailbox
\* full, one is removed, and the shared ones are moved.
LEMMA LimitArithmetic ==
  ASSUME NEW us \in Nat, NEW ul \in Nat, NEW us1 \in Nat, NEW ul1 \in Nat,
         NEW l \in Nat, NEW max \in Nat, NEW len \in Nat
  PROVE  /\ us1 <= us + 1 /\ us <= len /\ l + len < max => us1 + l <= max
         /\ us1 + l <= max /\ ul <= l + max => ul + us1 <= 2 * max
         /\ ul1 <= ul /\ ul <= l + max => ul1 <= l + max
         /\ ul1 <= ul + us /\ ul <= len /\ us <= max => ul1 <= len + max
  OBVIOUS

\* LimitInv is preserved.
LEMMA LimitInvNext ==
  ASSUME BasicInv, BasicInv', LimitInv, [Next]_vars, [OnlyRaised]_vars
  PROVE  LimitInv'
<1> DEFINE US == Cardinality(User(m_sharedBox))
           UL == Cardinality(User(m_localBox))
<1>1. /\ m_sharedBox \in Seq(Msgs) /\ m_localBox \in Seq(Msgs)
      /\ m_sharedBox' \in Seq(Msgs) /\ m_localBox' \in Seq(Msgs)
      /\ m_localMsgs \in Nat /\ m_maxMsgs \in Nat /\ m_maxMsgs' \in Nat
      /\ received \in Seq(Msgs) /\ accepted \in Seq(Msgs)
  BY DEF BasicInv, TypeInv
<1>2. /\ US \in Nat /\ US <= Len(m_sharedBox) /\ Len(m_sharedBox) \in Nat
      /\ UL \in Nat /\ UL <= Len(m_localBox) /\ Len(m_localBox) \in Nat
      /\ US' \in Nat /\ UL' \in Nat
      /\ User(m_sharedBox) = {} => US = 0
  BY <1>1, UserBound, FS_EmptySet
<1>3. User(<<>>) = {} /\ Cardinality(User(<<>>)) = 0
  BY EmptyList, FS_EmptySet DEF User
<1>4. /\ pc = "asleep" => m_localMsgs = Len(m_localBox)
      /\ m_maxMsgs # 0 => /\ User(m_sharedBox) = {} \/ US + m_localMsgs <= m_maxMsgs
                          /\ UL <= m_localMsgs + m_maxMsgs
                          /\ UL + US <= 2 * m_maxMsgs
  BY DEF LimitInv, CountInv
<1> HIDE DEF US, UL
<1>0. /\ US' = Cardinality(User(m_sharedBox')) /\ UL' = Cardinality(User(m_localBox'))
      /\ US = Cardinality(User(m_sharedBox)) /\ UL = Cardinality(User(m_localBox))
  BY DEF US, UL, User
<1>5. ASSUME pc' = "asleep" => m_localMsgs' = Len(m_localBox'),
             m_maxMsgs' # 0 =>
               /\ User(m_sharedBox') = {} \/ US' + m_localMsgs' <= m_maxMsgs'
               /\ UL' <= m_localMsgs' + m_maxMsgs'
               /\ UL' + US' <= 2 * m_maxMsgs'
      PROVE  LimitInv'
  BY <1>5 DEF LimitInv, CountInv, US, UL, User
<1>6. ASSUME UNCHANGED <<m_sharedBox, m_localBox, m_localMsgs, m_maxMsgs>>,
             pc' = "asleep" => pc = "asleep"
      PROVE  LimitInv'
  BY <1>6, <1>4 DEF LimitInv, CountInv, US, UL, User
<1>7. ASSUME NEW s \in Senders, Send(s) \/ SendWakes(s) \/ Terminate(s)
      PROVE  LimitInv'
  <2>1. SenderStep  BY <1>7, SenderSteps
  <2>2. UNCHANGED <<m_localBox, m_localMsgs, m_maxMsgs, pc>>
    BY <2>1 DEF SenderStep, limits, local, receiver
  <2>3. CASE UNCHANGED m_sharedBox  BY <2>2, <2>3, <1>6
  <2>4. CASE \E m \in Msgs : Entered(m) /\ m_sharedBox' = Append(m_sharedBox, m)
    <3>1. PICK m \in Msgs : Entered(m) /\ m_sharedBox' = Append(m_sharedBox, m)
      BY <2>4
    <3>2. Range(m_sharedBox') = Range(m_sharedBox) \union {m}
      BY <3>1, <1>1, AppendList DEF Appended
    <3>3. CASE m.kind \in Kinds
      <4>1. m_maxMsgs # 0 => m_localMsgs + Len(m_sharedBox) < m_maxMsgs
        BY <3>1, <3>3, <1>1, <1>2 DEF Entered, mboxFull, Full
      <4>2. User(m_sharedBox') = User(m_sharedBox) \union {m}
        BY <3>2, <3>3 DEF User
      <4>3. US' <= US + 1
        <5>1. IsFiniteSet(User(m_sharedBox))  BY <1>1, UserBound
        <5> DEFINE S == User(m_sharedBox)
        <5> HIDE DEF S
        <5>2. Cardinality(S \union {m}) = IF m \in S THEN Cardinality(S) ELSE Cardinality(S) + 1
          BY <5>1, FS_AddElement DEF S
        <5>3. US' = Cardinality(S \union {m}) /\ US = Cardinality(S)
          BY <4>2, <1>0 DEF S
        <5> QED  BY <5>2, <5>3, <1>2
      <4>4. UL' = UL  BY <2>2 DEF UL, User
      <4>5. m_maxMsgs # 0 => US' + m_localMsgs <= m_maxMsgs
        BY <4>1, <4>3, <1>1, <1>2, LimitArithmetic
      <4>6. m_maxMsgs # 0 => UL' + US' <= 2 * m_maxMsgs
        BY <4>4, <4>5, <1>1, <1>2, <1>4, LimitArithmetic
      <4> QED  BY <4>4, <4>5, <4>6, <2>2, <1>4, <1>5
    <3>4. CASE m.kind \notin Kinds
      <4>1. User(m_sharedBox') = User(m_sharedBox)
        BY <3>2, <3>4 DEF User
      <4>2. US' = US /\ UL' = UL  BY <4>1, <2>2 DEF US, UL, User
      <4> QED  BY <4>1, <4>2, <2>2, <1>4, <1>5
    <3> QED  BY <3>3, <3>4
  <2> QED  BY <2>1, <2>3, <2>4 DEF SenderStep, Entered, shared
<1>8. CASE setMaxMailboxSize
  <2>1. PICK num \in Limits, call \in Behaviors : setMaxMsgs(num, call)
    BY <1>8 DEF setMaxMailboxSize
  <2>2. /\ m_maxMsgs' = num
        /\ UNCHANGED <<m_sharedBox, m_localBox, m_localMsgs, pc>>
    BY <2>1 DEF setMaxMsgs, shared, local, receiver
  <2>3. US' = US /\ UL' = UL  BY <2>2 DEF US, UL, User
  <2>4. User(m_sharedBox') = User(m_sharedBox)  BY <2>2
  <2>5. CASE num = m_maxMsgs \/ m_maxMsgs \in 1..(num - 1)
    BY <2>2, <2>3, <2>4, <2>5, <1>1, <1>2, <1>4, <1>5
  <2>6. CASE \A s \in Senders : sent[s] = 0
    <3>1. ASSUME NEW x \in Range(m_sharedBox) \union Range(m_localBox)
          PROVE  x.kind \notin Kinds
      <4>1. x \in Range(accepted)  BY DEF BasicInv, Lists
      <4>2. x \in Msgs  BY <4>1, <1>1, RangeOfSeq
      <4>3. x.from \in Senders /\ x.n \in Nat  BY <4>2 DEF Msgs
      <4>4. ~(x.n \in 1..sent[x.from])  BY <4>3, <2>6
      <4>5. isControlMsg(x)  BY <4>1, <4>4 DEF BasicInv, Numbered
      <4> QED  BY <4>5, MessageBoxAssumption DEF isControlMsg
    <3>2. User(m_sharedBox) = {} /\ User(m_localBox) = {}
      BY <3>1 DEF User
    <3>3. US = 0 /\ UL = 0  BY <3>2, FS_EmptySet DEF US, UL
    <3> QED  BY <3>2, <3>3, <2>2, <2>3, <2>4, <1>1, <1>4, <1>5
  <2>7. OnlyRaised  BY DEF OnlyRaised, vars, limits
  <2> QED  BY <2>2, <2>5, <2>6, <2>7 DEF OnlyRaised
<1>9. CASE receive \/ receiveTimeout \/ TimeIsUp \/ GetTimesOut
  <2>1. UNCHANGED <<m_sharedBox, m_localBox, m_localMsgs, m_maxMsgs>>
    BY <1>9 DEF receive, receiveTimeout, Get, TimeIsUp, GetTimesOut, shared, local, limits
  <2>2. pc' # "asleep"
    BY <1>9 DEF receive, receiveTimeout, Get, TimeIsUp, GetTimesOut, GetEnds
  <2> QED  BY <2>1, <2>2, <1>6
<1>10. CASE GetSearch
  <2>1. UNCHANGED <<m_sharedBox, m_localMsgs, m_maxMsgs>>
    BY <1>10 DEF GetSearch, shared, limits
  <2>2. CASE UNCHANGED m_localBox
    <3>1. pc' # "asleep"
      BY <1>10 DEF GetSearch, Pty, ScanHit, ScanMiss, GetEnds, GetGoesOn
    <3> QED  BY <3>1, <2>1, <2>2, <1>6
  <2>3. CASE ScanHit(m_localBox, ops, <<>>)
    <3>1. /\ Range(m_localBox') \subseteq Range(<<>>) \union Range(m_localBox)
          /\ pc' = "idle"
      BY <2>3, <1>1, EmptySeq, ScanHitBasics
    <3>2. UL' <= UL
      <4>1. Range(m_localBox') \subseteq Range(m_localBox)  BY <3>1, EmptyList
      <4> QED  BY <4>1, <1>1, UserOfPart DEF UL, User
    <3>3. US' = US /\ User(m_sharedBox') = User(m_sharedBox)
      BY <2>1 DEF US, User
    <3>4. m_maxMsgs # 0 => UL' <= m_localMsgs + m_maxMsgs
      BY <3>2, <1>1, <1>2, <1>4, LimitArithmetic
    <3>5. m_maxMsgs # 0 => UL' + US <= 2 * m_maxMsgs
      <4>1. PICK ul \in Nat, ul1 \in Nat, us \in Nat, max \in Nat :
              ul = UL /\ ul1 = UL' /\ us = US /\ max = m_maxMsgs
        BY <1>1, <1>2
      <4>2. max # 0 => ul + us <= 2 * max /\ ul1 <= ul
        BY <4>1, <3>2, <1>4
      <4>3. max # 0 => ul1 + us <= 2 * max  BY <4>2
      <4> QED  BY <4>1, <4>3
    <3> QED  BY <3>1, <3>3, <3>4, <3>5, <2>1, <1>4, <1>5
  <2> QED  BY <2>2, <2>3, <1>10 DEF GetSearch
<1>11. CASE GetEnter
  <2>1. m_localMsgs' = Len(m_localBox) /\ m_maxMsgs' = m_maxMsgs
    <3>1. pc = "enter" \/ pc = "asleep"  BY <1>11 DEF GetEnter
    <3>2. m_maxMsgs' = m_maxMsgs  BY <1>11 DEF GetEnter, limits
    <3>3. CASE pc = "enter"  BY <1>11, <3>2, <3>3 DEF GetEnter, updateMsgCount
    <3>4. CASE pc = "asleep"
      <4>1. pc # "enter"  BY <3>4
      <4> QED  BY <1>11, <3>2, <3>4, <4>1, <1>4 DEF GetEnter
    <3> QED  BY <3>1, <3>3, <3>4
  <2>2. CASE GetWaits
    <3>1. UNCHANGED <<m_sharedBox, m_localBox>> /\ m_sharedBox = <<>>
      BY <2>2 DEF GetWaits, shared, local, NothingShared
    <3>2. UL' = UL /\ US' = 0 /\ User(m_sharedBox') = {}
      BY <3>1, <1>3 DEF US, UL, User
    <3> QED  BY <3>1, <3>2, <2>1, <1>1, <1>2, <1>4, <1>5
  <2>3. CASE GetArrived
    <3>1. m_sharedBox' = <<>>  BY <2>3 DEF GetArrived
    <3>2. US' = 0 /\ User(m_sharedBox') = {}
      BY <3>1, <1>3 DEF US, User
    <3>3. Range(m_localBox') \subseteq Range(m_localBox) \union Range(m_sharedBox)
      <4>1. CASE m_localBox' = m_localBox \o m_sharedBox
        BY <4>1, <1>1, ConcatList
      <4>2. CASE ScanHit(m_sharedBox, ops, m_localBox)
        BY <4>2, <1>1, ScanHitBasics
      <4> QED  BY <4>1, <4>2, <2>3 DEF GetArrived
    <3>4. UL' <= UL + US
      BY <3>3, <1>1, UserOfParts DEF US, UL, User
    <3>5. pc' # "asleep"
      BY <2>3 DEF GetArrived, Pty, ScanHit, ScanMiss, GetEnds, GetGoesOn
    <3>6. m_maxMsgs # 0 => US <= m_maxMsgs
      BY <1>1, <1>2, <1>4
    <3>7. m_maxMsgs # 0 => UL' <= Len(m_localBox) + m_maxMsgs
      BY <3>4, <3>6, <1>1, <1>2, LimitArithmetic
    <3>8. m_maxMsgs # 0 => UL' + 0 <= 2 * m_maxMsgs
      <4>1. PICK ul \in Nat, ul1 \in Nat, us \in Nat, max \in Nat :
              ul = UL /\ ul1 = UL' /\ us = US /\ max = m_maxMsgs
        BY <1>1, <1>2
      <4>2. max # 0 => ul + us <= 2 * max /\ ul1 <= ul + us
        BY <4>1, <3>4, <1>4
      <4>3. max # 0 => ul1 + 0 <= 2 * max  BY <4>2
      <4> QED  BY <4>1, <4>3
    <3> QED  BY <3>2, <3>5, <3>7, <3>8, <2>1, <1>5
  <2> QED  BY <2>2, <2>3, <1>11 DEF GetEnter
<1>12. CASE close
  <2>1. /\ m_sharedBox' = <<>> /\ m_localBox' = <<>> /\ pc' = "closed"
        /\ UNCHANGED <<m_localMsgs, m_maxMsgs>>
    BY <1>12 DEF close, limits
  <2>2. US' = 0 /\ UL' = 0 /\ User(m_sharedBox') = {}
    BY <2>1, <1>3 DEF US, UL, User
  <2> QED  BY <2>1, <2>2, <1>1, <1>5
<1>13. ASSUME NEW t \in Senders \union {Receiver}, SpuriousWakeup(t)
       PROVE  LimitInv'
  BY <1>6, <1>13 DEF SpuriousWakeup, limits, shared, local, receiver
<1>14. CASE UNCHANGED vars
  BY <1>6, <1>14 DEF vars, limits, shared, local, receiver
<1> QED
  BY <1>7, <1>8, <1>9, <1>10, <1>11, <1>12, <1>13, <1>14 DEF Next

LEMMA LimitInvHolds == Spec /\ [][OnlyRaised]_vars => []LimitInv
<1>1. Init => LimitInv
  <2> SUFFICES ASSUME Init  PROVE LimitInv
    OBVIOUS
  <2> QED  BY DEF Init, LimitInv, CountInv
<1>2. BasicInv /\ BasicInv' /\ LimitInv /\ [Next]_vars /\ [OnlyRaised]_vars => LimitInv'
  BY LimitInvNext
<1> QED  BY <1>1, <1>2, BasicInvHolds, PTL DEF Spec

\* However many senders race and however long the receiver ignores some kinds,
\* a mailbox whose limit is set before the first message and not lowered later
\* holds at most twice as many user messages as its limit; that it holds no
\* more than its limit, as setMaxMailboxSize says, is not so.
THEOREM TwiceTheLimitHolds == Spec /\ [][OnlyRaised]_vars => []TwiceTheLimit
<1>1. BasicInv /\ LimitInv => TwiceTheLimit
  <2> SUFFICES ASSUME BasicInv, LimitInv, m_maxMsgs # 0
               PROVE  Cardinality(UserMsgs) <= 2 * m_maxMsgs
    BY DEF TwiceTheLimit
  <2>1. m_localBox \in Seq(Msgs) /\ m_sharedBox \in Seq(Msgs) /\ m_maxMsgs \in Nat
    BY DEF BasicInv, TypeInv
  <2>2. Mail \in Seq(Msgs) /\ Range(Mail) = Range(m_localBox) \union Range(m_sharedBox)
    BY <2>1, ConcatList DEF Mail
  <2>3. Cardinality(User(Mail))
          <= Cardinality(User(m_localBox)) + Cardinality(User(m_sharedBox))
    BY <2>1, <2>2, UserOfParts
  <2>4. Cardinality(User(m_localBox)) + Cardinality(User(m_sharedBox))
          <= 2 * m_maxMsgs
    BY DEF LimitInv
  <2>5. /\ Cardinality(User(Mail)) \in Nat
        /\ Cardinality(User(m_localBox)) \in Nat
        /\ Cardinality(User(m_sharedBox)) \in Nat
    BY <2>1, <2>2, UserBound
  <2>6. UserMsgs = User(Mail)  BY DEF UserMsgs, User
  <2> QED  BY <2>1, <2>3, <2>4, <2>5, <2>6
<1> QED  BY <1>1, LimitInvHolds, BasicInvHolds, PTL
-----------------------------------------------------------------------------
(***************************************************************************)
(* The order                                                               *)
(***************************************************************************)
Pri == m_localPty \o m_sharedPty

\* Every message that entered is in exactly one place, once.
Contents ==
  /\ IsInjective(accepted)
  /\ ~m_closed =>
       /\ IsInjective(received) /\ IsInjective(Pri) /\ IsInjective(Mail)
       /\ Range(received) \intersect Range(Pri) = {}
       /\ Range(received) \intersect Range(Mail) = {}
       /\ Range(accepted) = Range(received) \union Range(Pri) \union Range(Mail)

\* The lists are in the order in which their messages entered.
Ordered(list, all) ==
  \A x, y \in Range(list) : Before(all, x, y) => Before(list, x, y)

\* Whatever entered before a received message, and is a priority message or
\* of its kind, was received before it.
ReceivedOrdered ==
  \A x \in Range(accepted), y \in Range(received) :
    /\ Before(accepted, x, y)
    /\ isPriorityMsg(x) \/ (x.kind = y.kind /\ ~isControlMsg(x))
    => Before(received, x, y)

\* What get has moved entered before what it has not.
LocalFirst ==
  \A x \in Range(m_sharedBox) \union Range(m_sharedPty),
     y \in Range(m_localBox) \union Range(m_localPty) : ~Before(accepted, x, y)

\* get sleeps and takes new messages only when the local lists hold nothing
\* for it.
Searched ==
  pc \in {"enter", "asleep"} =>
    /\ m_localPty = <<>>
    /\ \A m \in Range(m_localBox) : ~Matches(m, ops)

\* A thread is forgotten only with its linkDead message.
DeathNews ==
  ~m_closed =>
    /\ \A s \in Linked \ dead : s \in links
    /\ Owner \notin dead => owner = Owner
    /\ \A m \in Range(Mail) :
         isControlMsg(m) => /\ m.from \in Linked => m.from \in links
                            /\ m.from = Owner => owner = Owner

OrderInv ==
  /\ Contents
  /\ ~m_closed => /\ Ordered(Pri, accepted) /\ Ordered(Mail, accepted)
                  /\ LocalFirst /\ Searched
  /\ ReceivedOrdered
  /\ DeathNews

\* Two lists one after the other, when the second grows.
LEMMA AppendedRight ==
  ASSUME NEW s \in Seq(Msgs), NEW t \in Seq(Msgs), NEW t1 \in Seq(Msgs), NEW m,
         Appended(t1, t, m)
  PROVE  Appended(s \o t1, s \o t, m)
<1>1. /\ Range(s \o t) = Range(s) \union Range(t)
      /\ IsInjective(s \o t) => /\ IsInjective(s) /\ IsInjective(t)
                                /\ Range(s) \intersect Range(t) = {}
      /\ \A x, y : Before(s \o t, x, y) <=>
              \/ Before(s, x, y) \/ Before(t, x, y)
              \/ x \in Range(s) /\ y \in Range(t)
  BY ConcatList
<1>2. /\ Range(s \o t1) = Range(s) \union Range(t1)
      /\ IsInjective(s \o t1) <=> /\ IsInjective(s) /\ IsInjective(t1)
                                 /\ Range(s) \intersect Range(t1) = {}
      /\ \A x, y : Before(s \o t1, x, y) <=>
              \/ Before(s, x, y) \/ Before(t1, x, y)
              \/ x \in Range(s) /\ y \in Range(t1)
  BY ConcatList
<1>3. /\ Range(t1) = Range(t) \union {m}
      /\ IsInjective(t) /\ m \notin Range(t) => IsInjective(t1)
      /\ \A x, y : Before(t1, x, y) <=>
                     Before(t, x, y) \/ (x \in Range(t) /\ y = m)
  BY DEF Appended
<1>4. Range(s \o t1) = Range(s \o t) \union {m}  BY <1>1, <1>2, <1>3
<1>5. IsInjective(s \o t) /\ m \notin Range(s \o t) => IsInjective(s \o t1)
  BY <1>1, <1>2, <1>3
<1>6. ASSUME NEW x, NEW y
      PROVE  Before(s \o t1, x, y) <=>
               Before(s \o t, x, y) \/ (x \in Range(s \o t) /\ y = m)
  BY <1>1, <1>2, <1>3
<1> QED  BY <1>4, <1>5, <1>6 DEF Appended

\* Two lists one after the other, when the first shrinks.
LEMMA RemovedLeft ==
  ASSUME NEW s \in Seq(Msgs), NEW t \in Seq(Msgs), NEW s1 \in Seq(Msgs), NEW m,
         IsInjective(s \o t), m \in Range(s), Removed(s1, s, m)
  PROVE  Removed(s1 \o t, s \o t, m)
<1>1. /\ Range(s \o t) = Range(s) \union Range(t)
      /\ IsInjective(s) /\ IsInjective(t)
      /\ Range(s) \intersect Range(t) = {}
      /\ \A x, y : Before(s \o t, x, y) <=>
              \/ Before(s, x, y) \/ Before(t, x, y)
              \/ x \in Range(s) /\ y \in Range(t)
  BY ConcatList
<1>2. /\ Range(s1 \o t) = Range(s1) \union Range(t)
      /\ IsInjective(s1 \o t) <=> /\ IsInjective(s1) /\ IsInjective(t)
                                 /\ Range(s1) \intersect Range(t) = {}
      /\ \A x, y : Before(s1 \o t, x, y) <=>
              \/ Before(s1, x, y) \/ Before(t, x, y)
              \/ x \in Range(s1) /\ y \in Range(t)
  BY ConcatList
<1>3. /\ Range(s1) = Range(s) \ {m}
      /\ IsInjective(s1)
      /\ \A x, y : Before(s1, x, y) <=> Before(s, x, y) /\ x # m /\ y # m
  BY DEF Removed
<1>4. m \notin Range(t)  BY <1>1
<1>5. ASSUME NEW x, NEW y
      PROVE  Before(s1 \o t, x, y) <=> Before(s \o t, x, y) /\ x # m /\ y # m
  <2>1. Before(t, x, y) => x \in Range(t) /\ y \in Range(t)  BY BeforeInRange
  <2> QED  BY <2>1, <1>1, <1>2, <1>3, <1>4
<1>6. Range(s1 \o t) = Range(s \o t) \ {m} /\ IsInjective(s1 \o t)
  BY <1>1, <1>2, <1>3, <1>4
<1> QED  BY <1>5, <1>6 DEF Removed

\* Two lists one after the other, when the second shrinks.
LEMMA RemovedRight ==
  ASSUME NEW s \in Seq(Msgs), NEW t \in Seq(Msgs), NEW t1 \in Seq(Msgs), NEW m,
         IsInjective(s \o t), m \in Range(t), Removed(t1, t, m)
  PROVE  Removed(s \o t1, s \o t, m)
<1>1. /\ Range(s \o t) = Range(s) \union Range(t)
      /\ IsInjective(s) /\ IsInjective(t)
      /\ Range(s) \intersect Range(t) = {}
      /\ \A x, y : Before(s \o t, x, y) <=>
              \/ Before(s, x, y) \/ Before(t, x, y)
              \/ x \in Range(s) /\ y \in Range(t)
  BY ConcatList
<1>2. /\ Range(s \o t1) = Range(s) \union Range(t1)
      /\ IsInjective(s \o t1) <=> /\ IsInjective(s) /\ IsInjective(t1)
                                 /\ Range(s) \intersect Range(t1) = {}
      /\ \A x, y : Before(s \o t1, x, y) <=>
              \/ Before(s, x, y) \/ Before(t1, x, y)
              \/ x \in Range(s) /\ y \in Range(t1)
  BY ConcatList
<1>3. /\ Range(t1) = Range(t) \ {m}
      /\ IsInjective(t1)
      /\ \A x, y : Before(t1, x, y) <=> Before(t, x, y) /\ x # m /\ y # m
  BY DEF Removed
<1>4. m \notin Range(s)  BY <1>1
<1>5. ASSUME NEW x, NEW y
      PROVE  Before(s \o t1, x, y) <=> Before(s \o t, x, y) /\ x # m /\ y # m
  <2>1. Before(s, x, y) => x \in Range(s) /\ y \in Range(s)  BY BeforeInRange
  <2> QED  BY <2>1, <1>1, <1>2, <1>3, <1>4
<1>6. Range(s \o t1) = Range(s \o t) \ {m} /\ IsInjective(s \o t1)
  BY <1>1, <1>2, <1>3, <1>4
<1> QED  BY <1>5, <1>6 DEF Removed

\* A list stays in the order in which messages entered when one enters.
LEMMA OrderedAppended ==
  ASSUME NEW list, NEW list1, NEW all, NEW all1, NEW m,
         Appended(all1, all, m), m \notin Range(all),
         Appended(list1, list, m) \/ list1 = list,
         Range(list) \subseteq Range(all),
         Ordered(list, all)
  PROVE  Ordered(list1, all1)
<1> SUFFICES ASSUME NEW x \in Range(list1), NEW y \in Range(list1),
                    Before(all1, x, y)
             PROVE  Before(list1, x, y)
  BY DEF Ordered
<1>1. Before(all, x, y) \/ (x \in Range(all) /\ y = m)  BY DEF Appended
<1>2. CASE Before(all, x, y)
  <2>1. x # m /\ y # m  BY <1>2, BeforeInRange
  <2>2. x \in Range(list) /\ y \in Range(list)  BY <2>1 DEF Appended
  <2>3. Before(list, x, y)  BY <2>2, <1>2 DEF Ordered
  <2> QED  BY <2>3 DEF Appended
<1>3. CASE x \in Range(all) /\ y = m
  <2>1. CASE Appended(list1, list, m)
    <3>1. x # m /\ x \in Range(list)  BY <1>3, <2>1 DEF Appended
    <3> QED  BY <3>1, <1>3, <2>1 DEF Appended
  <2>2. CASE list1 = list
    BY <1>3, <2>2
  <2> QED  BY <2>1, <2>2
<1> QED  BY <1>1, <1>2, <1>3

\* A list stays in the order in which messages entered when one is removed.
LEMMA OrderedRemoved ==
  ASSUME NEW list, NEW list1, NEW all, NEW m,
         Removed(list1, list, m), Ordered(list, all)
  PROVE  Ordered(list1, all)
  BY DEF Removed, Ordered

\* The types of the lists that the order is about.
LEMMA ListTypes ==
  ASSUME BasicInv
  PROVE  /\ m_sharedBox \in Seq(Msgs) /\ m_sharedPty \in Seq(Msgs)
         /\ m_localBox \in Seq(Msgs) /\ m_localPty \in Seq(Msgs)
         /\ accepted \in Seq(Msgs) /\ received \in Seq(Msgs)
         /\ <<>> \in Seq(Msgs)
         /\ Mail \in Seq(Msgs) /\ Pri \in Seq(Msgs)
         /\ Range(Mail) = Range(m_localBox) \union Range(m_sharedBox)
         /\ Range(Pri) = Range(m_localPty) \union Range(m_sharedPty)
         /\ Range(Mail) \subseteq Range(accepted)
         /\ Range(Pri) \subseteq Range(accepted)
         /\ Range(received) \subseteq Range(accepted)
         /\ \A m \in Range(Mail) : ~isPriorityMsg(m)
         /\ \A m \in Range(Pri) : isPriorityMsg(m)
         /\ \A m \in Range(accepted) : m \in Msgs
<1>1. /\ m_sharedBox \in Seq(Msgs) /\ m_sharedPty \in Seq(Msgs)
      /\ m_localBox \in Seq(Msgs) /\ m_localPty \in Seq(Msgs)
      /\ accepted \in Seq(Msgs) /\ received \in Seq(Msgs)
  BY DEF BasicInv, TypeInv
<1>2. Mail \in Seq(Msgs) /\ Range(Mail) = Range(m_localBox) \union Range(m_sharedBox)
  BY <1>1, ConcatList DEF Mail
<1>3. Pri \in Seq(Msgs) /\ Range(Pri) = Range(m_localPty) \union Range(m_sharedPty)
  BY <1>1, ConcatList DEF Pri
<1>4. \A m \in Range(accepted) : m \in Msgs  BY <1>1, RangeOfSeq
<1> QED  BY <1>1, <1>2, <1>3, <1>4, EmptySeq DEF BasicInv, Lists

\* A message that enters keeps the order.
LEMMA OrderInvSender ==
  ASSUME BasicInv, OrderInv, SenderStep
  PROVE  OrderInv'
<1>1. /\ m_sharedBox \in Seq(Msgs) /\ m_sharedPty \in Seq(Msgs)
      /\ m_localBox \in Seq(Msgs) /\ m_localPty \in Seq(Msgs)
      /\ accepted \in Seq(Msgs)
      /\ Range(Mail) = Range(m_localBox) \union Range(m_sharedBox)
      /\ Range(Pri) = Range(m_localPty) \union Range(m_sharedPty)
      /\ Range(Mail) \subseteq Range(accepted)
      /\ Range(Pri) \subseteq Range(accepted)
      /\ Range(received) \subseteq Range(accepted)
  BY ListTypes
<1>2. UNCHANGED <<m_closed, m_localBox, m_localPty, links, owner, pc, ops, received>>
  BY DEF SenderStep, local, receiver
<1>3. CASE UNCHANGED <<shared, accepted>> /\ (m_closed \/ UNCHANGED dead)
  <2>1. UNCHANGED <<m_sharedBox, m_sharedPty, accepted>>  BY <1>3 DEF shared
  <2>2. UNCHANGED <<Mail, Pri>>  BY <2>1, <1>2 DEF Mail, Pri
  <2>3. Contents'  BY <2>1, <2>2, <1>2 DEF OrderInv, Contents
  <2>4. ~m_closed' => /\ Ordered(Pri, accepted)' /\ Ordered(Mail, accepted)'
                      /\ LocalFirst'
    BY <2>1, <2>2, <1>2 DEF OrderInv, Ordered, LocalFirst
  <2>5. ~m_closed' => Searched'
    BY <2>1, <1>2 DEF OrderInv, Searched, Matches, isControlMsg, onLinkDeadMsg
  <2>6. ReceivedOrdered'
    BY <2>1, <1>2 DEF OrderInv, ReceivedOrdered, isPriorityMsg, isControlMsg
  <2>7. DeathNews'
    BY <2>2, <1>2, <1>3 DEF OrderInv, DeathNews, isControlMsg
  <2> QED  BY <2>3, <2>4, <2>5, <2>6, <2>7 DEF OrderInv
<1>4. ASSUME NEW m \in Msgs, Entered(m),
             isControlMsg(m) => m.from \notin dead,
             dead' = IF isControlMsg(m) THEN dead \union {m.from} ELSE dead
      PROVE  OrderInv'
  <2>1. m \notin Range(accepted) /\ accepted' = Append(accepted, m)
    BY <1>4 DEF Entered
  <2>2. Appended(accepted', accepted, m)  BY <2>1, <1>1, AppendList
  <2>3. /\ Range(accepted') = Range(accepted) \union {m}
        /\ \A x, y : Before(accepted', x, y) <=>
                       Before(accepted, x, y) \/ (x \in Range(accepted) /\ y = m)
        /\ IsInjective(accepted')
    BY <2>1, <2>2 DEF Appended, OrderInv, Contents
  <2>4. \/ Appended(Pri', Pri, m) /\ Mail' = Mail /\ UNCHANGED m_sharedBox
           /\ Range(m_sharedPty') = Range(m_sharedPty) \union {m}
        \/ Appended(Mail', Mail, m) /\ Pri' = Pri /\ UNCHANGED m_sharedPty
           /\ Range(m_sharedBox') = Range(m_sharedBox) \union {m}
    <3>1. CASE isPriorityMsg(m)
      <4>1. m_sharedPty' = Append(m_sharedPty, m) /\ UNCHANGED m_sharedBox
        BY <1>4, <3>1 DEF Entered
      <4>2. /\ Append(m_sharedPty, m) \in Seq(Msgs)
            /\ Appended(Append(m_sharedPty, m), m_sharedPty, m)
        BY <1>1, AppendList
      <4>3. Appended(m_localPty \o m_sharedPty', m_localPty \o m_sharedPty, m)
        BY <4>1, <4>2, <1>1, AppendedRight
      <4> QED  BY <4>1, <4>2, <4>3, <1>2 DEF Pri, Mail, Appended
    <3>2. CASE ~isPriorityMsg(m)
      <4>1. m_sharedBox' = Append(m_sharedBox, m) /\ UNCHANGED m_sharedPty
        BY <1>4, <3>2 DEF Entered
      <4>2. /\ Append(m_sharedBox, m) \in Seq(Msgs)
            /\ Appended(Append(m_sharedBox, m), m_sharedBox, m)
        BY <1>1, AppendList
      <4>3. Appended(m_localBox \o m_sharedBox', m_localBox \o m_sharedBox, m)
        BY <4>1, <4>2, <1>1, AppendedRight
      <4> QED  BY <4>1, <4>2, <4>3, <1>2 DEF Pri, Mail, Appended
    <3> QED  BY <3>1, <3>2
  <2>5. Contents'
    <3> SUFFICES ASSUME ~m_closed
                 PROVE  /\ IsInjective(received) /\ IsInjective(Pri')
                        /\ IsInjective(Mail')
                        /\ Range(received) \intersect Range(Pri') = {}
                        /\ Range(received) \intersect Range(Mail') = {}
                        /\ Range(accepted') =
                             Range(received) \union Range(Pri') \union Range(Mail')
      BY <2>3, <1>2 DEF Contents
    <3>1. /\ IsInjective(received) /\ IsInjective(Pri) /\ IsInjective(Mail)
          /\ Range(received) \intersect Range(Pri) = {}
          /\ Range(received) \intersect Range(Mail) = {}
          /\ Range(accepted) = Range(received) \union Range(Pri) \union Range(Mail)
      BY DEF OrderInv, Contents
    <3>2. m \notin Range(received) \union Range(Pri) \union Range(Mail)
      BY <2>1, <1>1
    <3>3. CASE Appended(Pri', Pri, m) /\ Mail' = Mail
      <4>1. Range(Pri') = Range(Pri) \union {m} /\ IsInjective(Pri')
        BY <3>1, <3>2, <3>3 DEF Appended
      <4> QED  BY <4>1, <3>1, <3>2, <3>3, <2>3
    <3>4. CASE Appended(Mail', Mail, m) /\ Pri' = Pri
      <4>1. Range(Mail') = Range(Mail) \union {m} /\ IsInjective(Mail')
        BY <3>1, <3>2, <3>4 DEF Appended
      <4> QED  BY <4>1, <3>1, <3>2, <3>4, <2>3
    <3> QED  BY <2>4, <3>3, <3>4
  <2>6. ~m_closed' => Ordered(Pri, accepted)' /\ Ordered(Mail, accepted)'
    <3> SUFFICES ASSUME ~m_closed
                 PROVE  Ordered(Pri', accepted') /\ Ordered(Mail', accepted')
      BY <1>2 DEF Ordered
    <3>1. Ordered(Pri, accepted) /\ Ordered(Mail, accepted)  BY DEF OrderInv
    <3> QED  BY <3>1, <2>1, <2>2, <2>4, <1>1, OrderedAppended
  <2>7. ~m_closed' => LocalFirst'
    <3> SUFFICES ASSUME ~m_closed,
                        NEW x \in Range(m_sharedBox') \union Range(m_sharedPty'),
                        NEW y \in Range(m_localBox) \union Range(m_localPty),
                        Before(accepted', x, y)
                 PROVE  FALSE
      BY <1>2 DEF LocalFirst
    <3>1. y \in Range(accepted)  BY <1>1
    <3>2. Before(accepted, x, y)  BY <3>1, <2>1, <2>3
    <3>3. x # m  BY <3>2, <2>1, BeforeInRange
    <3>4. x \in Range(m_sharedBox) \union Range(m_sharedPty)  BY <3>3, <2>4
    <3> QED  BY <3>2, <3>4 DEF OrderInv, LocalFirst
  <2>8. ~m_closed' => Searched'
    BY <1>2 DEF OrderInv, Searched, Matches, isControlMsg, onLinkDeadMsg
  <2>9. ReceivedOrdered'
    <3> SUFFICES ASSUME NEW x \in Range(accepted'), NEW y \in Range(received),
                        Before(accepted', x, y),
                        isPriorityMsg(x) \/ (x.kind = y.kind /\ ~isControlMsg(x))
                 PROVE  Before(received, x, y)
      BY <1>2 DEF ReceivedOrdered, isPriorityMsg, isControlMsg
    <3>1. y \in Range(accepted)  BY <1>1
    <3>2. Before(accepted, x, y)  BY <3>1, <2>1, <2>3
    <3>3. x \in Range(accepted)  BY <3>2, BeforeInRange
    <3> QED  BY <3>2, <3>3 DEF OrderInv, ReceivedOrdered
  <2>10. DeathNews'
    <3> SUFFICES ASSUME ~m_closed
                 PROVE  /\ \A s \in Linked \ dead' : s \in links
                        /\ Owner \notin dead' => owner = Owner
                        /\ \A x \in Range(Mail') :
                             isControlMsg(x) => /\ x.from \in Linked => x.from \in links
                                                /\ x.from = Owner => owner = Owner
      BY <1>2 DEF DeathNews, isControlMsg
    <3>1. /\ \A s \in Linked \ dead : s \in links
          /\ Owner \notin dead => owner = Owner
          /\ \A x \in Range(Mail) :
               isControlMsg(x) => /\ x.from \in Linked => x.from \in links
                                  /\ x.from = Owner => owner = Owner
      BY DEF OrderInv, DeathNews
    <3>2. dead \subseteq dead'  BY <1>4
    <3>3. isControlMsg(m) => /\ m.from \in Linked => m.from \in links
                             /\ m.from = Owner => owner = Owner
      BY <3>1, <1>4
    <3>4. Range(Mail') \subseteq Range(Mail) \union {m}  BY <2>4 DEF Appended
    <3> QED  BY <3>1, <3>2, <3>3, <3>4
  <2> QED  BY <2>5, <2>6, <2>7, <2>8, <2>9, <2>10 DEF OrderInv
<1> QED  BY <1>3, <1>4 DEF SenderStep

\* What a step of get does to the messages: at most, it takes one.
TookNothing == UNCHANGED <<received, Pri, Mail>>

TookPri(m) ==
  /\ "priority" \in ops
  /\ received' = Append(received, m)
  /\ m \in Range(Pri) /\ Removed(Pri', Pri, m)
  /\ \A x : ~Before(Pri, x, m)
  /\ Mail' = Mail

TookMail(m) ==
  /\ received' = Append(received, m)
  /\ m \in Range(Mail) /\ Removed(Mail', Mail, m)
  /\ Matches(m, ops)
  /\ \A x : Before(Mail, x, m) => ~Matches(x, ops)
  /\ \A x \in Range(Pri) : ~Before(accepted, x, m)
  /\ Pri' = Pri

\* The moves within the mailbox do not change the order of its messages, and a
\* message is taken before what entered after it.
LEMMA GetSearchTakes ==
  ASSUME BasicInv, OrderInv, GetSearch
  PROVE  \/ TookNothing
         \/ \E m \in Msgs : TookPri(m) \/ TookMail(m)
<1>1. /\ m_sharedBox \in Seq(Msgs) /\ m_sharedPty \in Seq(Msgs)
      /\ m_localBox \in Seq(Msgs) /\ m_localPty \in Seq(Msgs)
      /\ <<>> \in Seq(Msgs)
      /\ Range(Mail) = Range(m_localBox) \union Range(m_sharedBox)
      /\ Range(Pri) = Range(m_localPty) \union Range(m_sharedPty)
  BY ListTypes
<1>2. UNCHANGED <<m_sharedBox, m_sharedPty>>  BY DEF GetSearch, shared
<1>3. ~m_closed  BY DEF GetSearch, BasicInv, TypeInv
<1>4. IsInjective(Pri) /\ IsInjective(Mail)  BY <1>3 DEF OrderInv, Contents
<1>5. /\ IsInjective(m_localPty)
      /\ Range(m_localPty) \intersect Range(m_sharedPty) = {}
      /\ \A x, y : Before(Pri, x, y) <=>
              \/ Before(m_localPty, x, y) \/ Before(m_sharedPty, x, y)
              \/ x \in Range(m_localPty) /\ y \in Range(m_sharedPty)
  BY <1>1, <1>4, ConcatList DEF Pri
<1>6. /\ IsInjective(m_localBox)
      /\ Range(m_localBox) \intersect Range(m_sharedBox) = {}
      /\ \A x, y : Before(Mail, x, y) <=>
              \/ Before(m_localBox, x, y) \/ Before(m_sharedBox, x, y)
              \/ x \in Range(m_localBox) /\ y \in Range(m_sharedBox)
  BY <1>1, <1>4, ConcatList DEF Mail
<1>7. CASE m_localPty # <<>>
  <2>1. Pty(m_localPty, ops) /\ UNCHANGED m_localBox  BY <1>7 DEF GetSearch
  <2>2. Mail' = Mail  BY <2>1, <1>2 DEF Mail
  <2>3. CASE m_localPty' = m_localPty /\ UNCHANGED received
    BY <2>2, <2>3, <1>2 DEF TookNothing, Pri
  <2>4. CASE /\ "priority" \in ops
             /\ m_localPty' = Tail(m_localPty)
             /\ received' = Append(received, Head(m_localPty))
    <3> DEFINE m == Head(m_localPty)
    <3>1. m_localPty' = Tail(m_localPty) /\ received' = Append(received, m)
      BY <2>4
    <3>2. /\ m \in Msgs /\ m \in Range(m_localPty)
          /\ Tail(m_localPty) \in Seq(Msgs)
          /\ Removed(Tail(m_localPty), m_localPty, m)
          /\ \A x : ~Before(m_localPty, x, m)
      BY <1>1, <1>5, <1>7, TailList
    <3> HIDE DEF m
    <3>3. Removed(Pri', Pri, m)
      <4>1. Removed(Tail(m_localPty) \o m_sharedPty, m_localPty \o m_sharedPty, m)
        BY <3>2, <1>1, <1>4, RemovedLeft DEF Pri
      <4> QED  BY <4>1, <3>1, <1>2 DEF Pri
    <3>4. ASSUME NEW x  PROVE ~Before(Pri, x, m)
      <4>1. m \notin Range(m_sharedPty)  BY <3>2, <1>5
      <4>2. ~Before(m_sharedPty, x, m)  BY <4>1, BeforeInRange
      <4> QED  BY <4>1, <4>2, <3>2, <1>5
    <3>5. TookPri(m)  BY <3>1, <3>2, <3>3, <3>4, <2>2, <2>4, <1>1 DEF TookPri
    <3> QED  BY <3>2, <3>5
  <2> QED  BY <2>1, <2>3, <2>4 DEF Pty
<1>8. CASE m_localPty = <<>> /\ ScanHit(m_localBox, ops, <<>>)
  <2>1. PICK i \in 1..Len(m_localBox) :
           /\ Matches(m_localBox[i], ops)
           /\ \A k \in 1..(i - 1) : ~Matches(m_localBox[k], ops)
           /\ received' = Append(received, m_localBox[i])
           /\ m_localBox' = <<>> \o Without(m_localBox, i)
    <3>1. m_localBox \in Seq(Msgs)  BY <1>1
    <3>2. ScanHit(m_localBox, ops, <<>>)  BY <1>8
    <3> QED  BY <3>1, <3>2, ScanHitCase, Zenon
  <2> DEFINE m == m_localBox[i]
             rest == Without(m_localBox, i)
  <2>2. /\ m \in Msgs /\ m \in Range(m_localBox)
        /\ rest \in Seq(Msgs)
        /\ Removed(rest, m_localBox, m)
        /\ \A x : Before(m_localBox, x, m) => \E k \in 1..(i - 1) : x = m_localBox[k]
    <3>1. m_localBox \in Seq(Msgs) /\ IsInjective(m_localBox)  BY <1>1, <1>6
    <3> QED  BY <3>1, WithoutList, Zenon
  <2>3. m_localBox' = rest  BY <2>1, <2>2, ConcatEmptySeq
  <2>4. UNCHANGED m_localPty  BY <1>8 DEF GetSearch
  <2>5. ASSUME NEW x, Before(m_localBox, x, m)  PROVE ~Matches(x, ops)
    BY <2>1, <2>2, <2>5
  <2>6. received' = Append(received, m) /\ Matches(m, ops)  BY <2>1
  <2> HIDE DEF m, rest
  <2>7. Removed(Mail', Mail, m)
    <3>1. Removed(rest \o m_sharedBox, m_localBox \o m_sharedBox, m)
      BY <2>2, <1>1, <1>4, RemovedLeft DEF Mail
    <3> QED  BY <3>1, <2>3, <1>2 DEF Mail
  <2>8. ASSUME NEW x, Before(Mail, x, m)  PROVE ~Matches(x, ops)
    <3>1. m \notin Range(m_sharedBox)  BY <2>2, <1>6
    <3>2. ~Before(m_sharedBox, x, m)  BY <3>1, BeforeInRange
    <3> QED  BY <3>1, <3>2, <2>5, <2>8, <1>6
  <2>9. ASSUME NEW x \in Range(Pri)  PROVE ~Before(accepted, x, m)
    <3>1. x \in Range(m_sharedPty)  BY <1>1, <1>8, EmptyList
    <3> QED  BY <3>1, <2>2, <1>3 DEF OrderInv, LocalFirst
  <2>10. TookMail(m)
    BY <2>2, <2>4, <2>6, <2>7, <2>8, <2>9, <1>1, <1>2 DEF TookMail, Pri
  <2> QED  BY <2>2, <2>10
<1>9. CASE m_localPty = <<>> /\ ScanMiss(m_localBox, ops) /\ UNCHANGED m_localBox
  <2>1. UNCHANGED <<m_localPty, received>>  BY <1>9 DEF GetSearch, ScanMiss
  <2> QED  BY <2>1, <1>2, <1>9 DEF TookNothing, Pri, Mail
<1> QED  BY <1>7, <1>8, <1>9 DEF GetSearch

\* The same for what get does with the messages that have arrived.
LEMMA GetEnterTakes ==
  ASSUME BasicInv, OrderInv, GetEnter
  PROVE  \/ TookNothing
         \/ \E m \in Msgs : TookPri(m) \/ TookMail(m)
<1>1. /\ m_sharedBox \in Seq(Msgs) /\ m_sharedPty \in Seq(Msgs)
      /\ m_localBox \in Seq(Msgs) /\ m_localPty \in Seq(Msgs)
      /\ <<>> \in Seq(Msgs)
      /\ Mail \in Seq(Msgs) /\ Pri \in Seq(Msgs)
      /\ Range(Mail) = Range(m_localBox) \union Range(m_sharedBox)
      /\ Range(Pri) = Range(m_localPty) \union Range(m_sharedPty)
  BY ListTypes
<1>2. pc \in {"enter", "asleep"}  BY DEF GetEnter
<1>3. ~m_closed  BY <1>2 DEF BasicInv, TypeInv
<1>4. IsInjective(Pri) /\ IsInjective(Mail)  BY <1>3 DEF OrderInv, Contents
<1>5. CASE GetWaits
  BY <1>5 DEF GetWaits, TookNothing, shared, local, Pri, Mail
<1>6. CASE GetArrived
  <2>1. m_sharedPty' = <<>> /\ m_sharedBox' = <<>>  BY <1>6 DEF GetArrived
  <2>2. \A list \in Seq(Msgs) : list \o <<>> = list  BY ConcatEmptySeq
  <2>3. CASE Pri # <<>>
    <3>1. m_localBox' = Mail /\ Pty(Pri, ops)
      BY <1>6, <2>3 DEF GetArrived, Pri, Mail
    <3>2. Mail' = Mail  BY <3>1, <2>1, <2>2, <1>1 DEF Mail
    <3>3. CASE m_localPty' = Pri /\ UNCHANGED received
      <4>1. m_localPty' = Pri /\ UNCHANGED received  BY <3>3
      <4>2. Pri' = Pri  BY <4>1, <2>1, <2>2, <1>1 DEF Pri
      <4> QED  BY <4>1, <4>2, <3>2 DEF TookNothing
    <3>4. CASE /\ "priority" \in ops
               /\ m_localPty' = Tail(Pri)
               /\ received' = Append(received, Head(Pri))
      <4> DEFINE m == Head(Pri)
      <4>1. m_localPty' = Tail(Pri) /\ received' = Append(received, m)
        BY <3>4
      <4>2. /\ m \in Msgs /\ m \in Range(Pri)
            /\ Tail(Pri) \in Seq(Msgs)
            /\ Removed(Tail(Pri), Pri, m)
            /\ \A x : ~Before(Pri, x, m)
        BY <1>1, <1>4, <2>3, TailList
      <4> HIDE DEF m
      <4>3. Pri' = Tail(Pri)
        <5>1. Pri' = m_localPty' \o m_sharedPty'  BY DEF Pri
        <5> QED  BY <5>1, <4>1, <4>2, <2>1, <2>2
      <4>4. TookPri(m)  BY <4>1, <4>2, <4>3, <3>2, <3>4 DEF TookPri
      <4> QED  BY <4>2, <4>4
    <3> QED  BY <3>1, <3>3, <3>4 DEF Pty
  <2>4. CASE Pri = <<>> /\ ScanHit(m_sharedBox, ops, m_localBox)
    <3>0. UNCHANGED m_localPty /\ m_localPty = <<>>
      BY <1>2, <1>3, <1>6, <2>4 DEF GetArrived, Pri, OrderInv, Searched
    <3>1. PICK i \in 1..Len(m_sharedBox) :
             /\ Matches(m_sharedBox[i], ops)
             /\ \A k \in 1..(i - 1) : ~Matches(m_sharedBox[k], ops)
             /\ received' = Append(received, m_sharedBox[i])
             /\ m_localBox' = m_localBox \o Without(m_sharedBox, i)
      <4>1. m_sharedBox \in Seq(Msgs)  BY <1>1
      <4>2. ScanHit(m_sharedBox, ops, m_localBox)  BY <2>4
      <4> QED  BY <4>1, <4>2, ScanHitCase, Zenon
    <3>2. /\ IsInjective(m_sharedBox)
          /\ Range(m_localBox) \intersect Range(m_sharedBox) = {}
          /\ \A x, y : Before(Mail, x, y) <=>
                  \/ Before(m_localBox, x, y) \/ Before(m_sharedBox, x, y)
                  \/ x \in Range(m_localBox) /\ y \in Range(m_sharedBox)
      BY <1>1, <1>4, ConcatList DEF Mail
    <3> DEFINE m == m_sharedBox[i]
               rest == Without(m_sharedBox, i)
    <3>3. /\ m \in Msgs /\ m \in Range(m_sharedBox)
          /\ rest \in Seq(Msgs)
          /\ Removed(rest, m_sharedBox, m)
          /\ \A x : Before(m_sharedBox, x, m) => \E k \in 1..(i - 1) : x = m_sharedBox[k]
      <4>1. m_sharedBox \in Seq(Msgs) /\ IsInjective(m_sharedBox)  BY <1>1, <3>2
      <4> QED  BY <4>1, WithoutList, Zenon
    <3>4. ASSUME NEW x, Before(m_sharedBox, x, m)  PROVE ~Matches(x, ops)
      BY <3>1, <3>3, <3>4
    <3>5. received' = Append(received, m) /\ Matches(m, ops)  BY <3>1
    <3>6. m_localBox' = m_localBox \o rest  BY <3>1
    <3> HIDE DEF m, rest
    <3>7. Removed(Mail', Mail, m)
      <4>1. Removed(m_localBox \o rest, m_localBox \o m_sharedBox, m)
        BY <3>3, <1>1, <1>4, RemovedRight DEF Mail
      <4>2. m_localBox \o rest \in Seq(Msgs)  BY <3>3, <1>1, ConcatProperties
      <4>3. Mail' = m_localBox \o rest
        <5>1. Mail' = m_localBox' \o m_sharedBox'  BY DEF Mail
        <5> QED  BY <5>1, <4>2, <3>6, <2>1, <2>2
      <4> QED  BY <4>1, <4>3 DEF Mail
    <3>8. ASSUME NEW x, Before(Mail, x, m)  PROVE ~Matches(x, ops)
      <4>1. m \notin Range(m_localBox)  BY <3>2, <3>3
      <4>2. x \in Range(m_localBox) \/ Before(m_sharedBox, x, m)
        BY <4>1, <3>2, <3>8, BeforeInRange
      <4>3. \A y \in Range(m_localBox) : ~Matches(y, ops)
        BY <1>2, <1>3 DEF OrderInv, Searched
      <4> QED  BY <4>2, <4>3, <3>4
    <3>9. \A x \in Range(Pri) : ~Before(accepted, x, m)  BY <2>4, EmptyList
    <3>10. Pri' = Pri
      <4>1. Pri' = m_localPty' \o m_sharedPty'  BY DEF Pri
      <4> QED  BY <4>1, <3>0, <2>1, <2>2, <2>4, <1>1
    <3>11. TookMail(m)
      BY <3>3, <3>5, <3>7, <3>8, <3>9, <3>10, <1>1 DEF TookMail
    <3> QED  BY <3>3, <3>11
  <2>5. CASE Pri = <<>> /\ ScanMiss(m_sharedBox, ops) /\ m_localBox' = Mail
    <3>1. /\ UNCHANGED <<m_localPty, received>>
          /\ m_localPty = <<>>
      BY <1>2, <1>3, <1>6, <2>5 DEF GetArrived, ScanMiss, Pri, OrderInv, Searched
    <3>2. Pri' = Pri
      <4>1. Pri' = m_localPty' \o m_sharedPty'  BY DEF Pri
      <4> QED  BY <4>1, <3>1, <2>1, <2>2, <2>5, <1>1
    <3>3. Mail' = Mail  BY <2>1, <2>2, <2>5, <1>1 DEF Mail
    <3> QED  BY <3>1, <3>2, <3>3 DEF TookNothing
  <2> QED  BY <2>3, <2>4, <2>5, <1>6 DEF GetArrived, Pri, Mail
<1> QED  BY <1>5, <1>6 DEF GetEnter

\* Taking a message keeps what the order is about.
LEMMA TakingKeepsOrder ==
  ASSUME BasicInv, OrderInv, ~m_closed, UNCHANGED <<m_closed, accepted>>,
         TookNothing \/ \E m \in Msgs : TookPri(m) \/ TookMail(m)
  PROVE  /\ Contents'
         /\ Ordered(Pri', accepted') /\ Ordered(Mail', accepted')
         /\ ReceivedOrdered'
         /\ Range(Mail') \subseteq Range(Mail)
         /\ Range(Pri') \subseteq Range(Pri)
<1>1. /\ received \in Seq(Msgs)
      /\ Range(Mail) \subseteq Range(accepted)
      /\ Range(Pri) \subseteq Range(accepted)
      /\ \A m \in Range(Mail) : ~isPriorityMsg(m)
      /\ \A m \in Range(Pri) : isPriorityMsg(m)
  BY ListTypes
<1>2. /\ IsInjective(received) /\ IsInjective(Pri) /\ IsInjective(Mail)
      /\ Range(received) \intersect Range(Pri) = {}
      /\ Range(received) \intersect Range(Mail) = {}
      /\ Range(accepted) = Range(received) \union Range(Pri) \union Range(Mail)
      /\ IsInjective(accepted)
  BY DEF OrderInv, Contents
<1>3. Range(Pri) \intersect Range(Mail) = {}  BY <1>1
<1>4. Ordered(Pri, accepted) /\ Ordered(Mail, accepted) /\ ReceivedOrdered
  BY DEF OrderInv
<1>5. CASE TookNothing
  <2>1. received' = received /\ Pri' = Pri /\ Mail' = Mail  BY <1>5 DEF TookNothing
  <2>2. Contents'  BY <2>1, <1>2 DEF Contents
  <2>3. ReceivedOrdered'
    BY <2>1, <1>4 DEF ReceivedOrdered, isPriorityMsg, isControlMsg
  <2> QED  BY <2>1, <2>2, <2>3, <1>4
<1>6. ASSUME NEW m \in Msgs, received' = Append(received, m),
             m \in Range(Pri) \union Range(Mail),
             \/ Removed(Pri', Pri, m) /\ m \in Range(Pri) /\ Mail' = Mail
             \/ Removed(Mail', Mail, m) /\ m \in Range(Mail) /\ Pri' = Pri,
             \A x \in Range(Pri) \union Range(Mail) :
               /\ Before(accepted, x, m)
               /\ isPriorityMsg(x) \/ (x.kind = m.kind /\ ~isControlMsg(x))
               => FALSE
      PROVE  /\ Contents'
             /\ Ordered(Pri', accepted') /\ Ordered(Mail', accepted')
             /\ ReceivedOrdered'
             /\ Range(Mail') \subseteq Range(Mail)
             /\ Range(Pri') \subseteq Range(Pri)
  <2>1. /\ Range(received') = Range(received) \union {m}
        /\ IsInjective(received) /\ m \notin Range(received) => IsInjective(received')
        /\ \A x, y : Before(received', x, y) <=>
                       Before(received, x, y) \/ (x \in Range(received) /\ y = m)
    BY <1>1, <1>6, AppendList DEF Appended
  <2>2. m \notin Range(received)  BY <1>2, <1>6
  <2>3. /\ Range(Pri') = Range(Pri) \ {m} /\ Range(Mail') = Range(Mail) \ {m}
        /\ IsInjective(Pri') /\ IsInjective(Mail')
    BY <1>2, <1>3, <1>6 DEF Removed
  <2>4. Contents'
    <3>1. /\ IsInjective(received')
          /\ Range(received') \intersect Range(Pri') = {}
          /\ Range(received') \intersect Range(Mail') = {}
          /\ Range(accepted) = Range(received') \union Range(Pri') \union Range(Mail')
      BY <2>1, <2>2, <2>3, <1>2, <1>6
    <3> QED  BY <3>1, <2>3, <1>2 DEF Contents
  <2>5. Ordered(Pri', accepted') /\ Ordered(Mail', accepted')
    BY <1>4, <1>6, OrderedRemoved
  <2>6. ReceivedOrdered'
    <3> SUFFICES ASSUME NEW x \in Range(accepted), NEW y \in Range(received'),
                        Before(accepted, x, y),
                        isPriorityMsg(x) \/ (x.kind = y.kind /\ ~isControlMsg(x))
                 PROVE  Before(received', x, y)
      BY DEF ReceivedOrdered, isPriorityMsg, isControlMsg
    <3>1. CASE y \in Range(received)
      BY <3>1, <2>1, <1>4 DEF ReceivedOrdered
    <3>2. CASE y = m
      <4>1. x \in Range(received)  BY <3>2, <1>2, <1>6
      <4> QED  BY <4>1, <3>2, <2>1
    <3> QED  BY <3>1, <3>2, <2>1
  <2> QED  BY <2>3, <2>4, <2>5, <2>6
<1>7. ASSUME NEW m \in Msgs, TookPri(m)
      PROVE  \A x \in Range(Pri) \union Range(Mail) :
               /\ Before(accepted, x, m)
               /\ isPriorityMsg(x) \/ (x.kind = m.kind /\ ~isControlMsg(x))
               => FALSE
  <2> SUFFICES ASSUME NEW x \in Range(Pri) \union Range(Mail),
                      Before(accepted, x, m),
                      isPriorityMsg(x) \/ (x.kind = m.kind /\ ~isControlMsg(x))
               PROVE  FALSE
    OBVIOUS
  <2>1. m \in Range(Pri) /\ \A z : ~Before(Pri, z, m)  BY <1>7 DEF TookPri
  <2>2. isPriorityMsg(x)  BY <2>1, <1>1 DEF isPriorityMsg
  <2>3. x \in Range(Pri)  BY <2>2, <1>1
  <2> QED  BY <2>1, <2>3, <1>4 DEF Ordered
<1>8. ASSUME NEW m \in Msgs, TookMail(m)
      PROVE  \A x \in Range(Pri) \union Range(Mail) :
               /\ Before(accepted, x, m)
               /\ isPriorityMsg(x) \/ (x.kind = m.kind /\ ~isControlMsg(x))
               => FALSE
  <2> SUFFICES ASSUME NEW x \in Range(Pri) \union Range(Mail),
                      Before(accepted, x, m),
                      isPriorityMsg(x) \/ (x.kind = m.kind /\ ~isControlMsg(x))
               PROVE  FALSE
    OBVIOUS
  <2>1. /\ m \in Range(Mail) /\ Matches(m, ops)
        /\ \A z : Before(Mail, z, m) => ~Matches(z, ops)
        /\ \A z \in Range(Pri) : ~Before(accepted, z, m)
    BY <1>8 DEF TookMail
  <2>2. x \in Range(Mail)  BY <2>1
  <2>3. x.kind = m.kind /\ ~isControlMsg(x)  BY <2>2, <1>1
  <2>4. Before(Mail, x, m)  BY <2>1, <2>2, <1>4 DEF Ordered
  <2>5. Matches(x, ops)  BY <2>1, <2>3 DEF Matches, isControlMsg
  <2> QED  BY <2>1, <2>4, <2>5
<1>9. CASE \E m \in Msgs : TookPri(m)
  <2>1. PICK m \in Msgs : TookPri(m)  BY <1>9
  <2> QED  BY <2>1, <1>6, <1>7 DEF TookPri
<1>10. CASE \E m \in Msgs : TookMail(m)
  <2>1. PICK m \in Msgs : TookMail(m)  BY <1>10
  <2> QED  BY <2>1, <1>6, <1>8 DEF TookMail
<1> QED  BY <1>5, <1>9, <1>10

\* What does not match does not match when links are forgotten.
LEMMA ForgettingMatchesLess ==
  ASSUME NEW m \in Msgs, NEW accept, NEW list, ForgetLinks(list),
         ~Matches(m, accept)
  PROVE  ~Matches(m, accept)'
<1>1. m.from \in Senders /\ m.from # Receiver  BY MessageBoxAssumption DEF Msgs
<1>2. links' \subseteq links /\ (owner' = owner \/ owner' = Receiver)
  BY DEF ForgetLinks
<1> QED  BY <1>1, <1>2 DEF Matches, onLinkDeadMsg, isControlMsg

\* The links of a thread are forgotten when its linkDead message leaves.
LEMMA ForgettingKeepsDeathNews ==
  ASSUME BasicInv, OrderInv, ~m_closed, UNCHANGED <<m_closed, dead>>,
         NEW list \in Seq(Msgs), ForgetLinks(list),
         Range(list) \subseteq Range(Mail),
         Range(Mail') \subseteq Range(Mail),
         \A x \in Range(list) : x \in Range(Mail') => ~Matches(x, ops)
  PROVE  DeathNews'
<1>1. /\ Range(Mail) \subseteq Range(accepted)
      /\ \A x \in Range(accepted) : x \in Msgs
  BY ListTypes
<1>2. /\ \A s \in Linked \ dead : s \in links
      /\ Owner \notin dead => owner = Owner
      /\ \A x \in Range(Mail) :
           isControlMsg(x) => /\ x.from \in Linked => x.from \in links
                              /\ x.from = Owner => owner = Owner
  BY DEF OrderInv, DeathNews
<1>3. \A s \in DeadIn(list) : \E x \in Range(list) : isControlMsg(x) /\ x.from = s
  <2>1. DOMAIN list = 1..Len(list)  BY LenProperties
  <2> QED  BY <2>1 DEF DeadIn, Range
<1>4. DeadIn(list) \subseteq dead
  BY <1>1, <1>3 DEF BasicInv, Numbered
<1>5. /\ links' = links \ DeadIn(list)
      /\ owner' = IF owner \in DeadIn(list) THEN Receiver ELSE owner
  BY DEF ForgetLinks
<1>6. ASSUME NEW x \in Range(Mail'), isControlMsg(x),
             x.from \in Linked \/ x.from = Owner
      PROVE  x.from \notin DeadIn(list)
  <2> SUFFICES ASSUME x.from \in DeadIn(list)  PROVE FALSE
    OBVIOUS
  <2>1. PICK z \in Range(list) : isControlMsg(z) /\ z.from = x.from  BY <1>3
  <2>2. z \in Msgs /\ x \in Msgs /\ z.n = 0 /\ x.n = 0
    BY <2>1, <1>1, <1>6 DEF BasicInv, Numbered
  <2>3. z = x  BY <2>1, <2>2, <1>6 DEF isControlMsg, Msgs
  <2>4. ~onLinkDeadMsg(x)  BY <2>3, <1>6 DEF Matches
  <2>5. owner \in {Owner, Receiver}  BY DEF BasicInv, TypeInv
  <2>6. x.from \in Linked => x.from # owner
    BY <2>5, MessageBoxAssumption
  <2>7. onLinkDeadMsg(x)
    BY <2>6, <1>2, <1>6 DEF onLinkDeadMsg
  <2> QED  BY <2>4, <2>7
<1>7. \A s \in Linked \ dead : s \in links'  BY <1>2, <1>4, <1>5
<1>8. Owner \notin dead => owner' = Owner  BY <1>2, <1>4, <1>5
<1>9. \A x \in Range(Mail') :
        isControlMsg(x) => /\ x.from \in Linked => x.from \in links'
                           /\ x.from = Owner => owner' = Owner
  BY <1>2, <1>5, <1>6
<1> QED  BY <1>7, <1>8, <1>9 DEF DeathNews, isControlMsg

\* What the search of the local lists keeps.
LEMMA OrderInvGetSearch ==
  ASSUME BasicInv, OrderInv, GetSearch
  PROVE  OrderInv'
<1>1. /\ m_sharedBox \in Seq(Msgs) /\ m_localBox \in Seq(Msgs)
      /\ m_localPty \in Seq(Msgs) /\ received \in Seq(Msgs) /\ <<>> \in Seq(Msgs)
      /\ Range(Mail) = Range(m_localBox) \union Range(m_sharedBox)
      /\ Range(Mail) \subseteq Range(accepted)
      /\ \A m \in Range(accepted) : m \in Msgs
  BY ListTypes
<1>2. ~m_closed  BY DEF GetSearch, BasicInv, TypeInv
<1>3. UNCHANGED <<m_closed, m_sharedBox, m_sharedPty, dead, accepted>>
  BY DEF GetSearch, shared, senders
<1>4. /\ Contents'
      /\ Ordered(Pri', accepted') /\ Ordered(Mail', accepted')
      /\ ReceivedOrdered'
      /\ Range(Mail') \subseteq Range(Mail)
  BY <1>2, <1>3, GetSearchTakes, TakingKeepsOrder
<1>5. Ordered(Pri, accepted)' /\ Ordered(Mail, accepted)'  BY <1>4 DEF Ordered
<1>6. SUFFICES LocalFirst' /\ Searched' /\ DeathNews'
  BY <1>4, <1>5 DEF OrderInv
<1>7. ASSUME Range(m_localBox') \subseteq Range(m_localBox),
             Range(m_localPty') \subseteq Range(m_localPty)
      PROVE  LocalFirst'
  BY <1>2, <1>3, <1>7 DEF OrderInv, LocalFirst
<1>8. CASE m_localPty # <<>>
  <2>1. Pty(m_localPty, ops) /\ UNCHANGED m_localBox  BY <1>8 DEF GetSearch
  <2>2. UNCHANGED <<links, owner>> /\ pc' = "idle"  BY <2>1 DEF Pty, GetEnds
  <2>3. Range(m_localPty') \subseteq Range(m_localPty)
    BY <2>1, <1>1, <1>8, PtyBasics
  <2>4. LocalFirst'  BY <2>1, <2>3, <1>7
  <2>5. Searched'  BY <2>2 DEF Searched
  <2>6. DeathNews'
    BY <2>2, <1>2, <1>3, <1>4 DEF OrderInv, DeathNews, isControlMsg
  <2> QED  BY <2>4, <2>5, <2>6
<1>9. CASE m_localPty = <<>> /\ ScanHit(m_localBox, ops, <<>>)
  <2>1. PICK i \in 1..Len(m_localBox) :
           /\ Matches(m_localBox[i], ops)
           /\ \A k \in 1..(i - 1) : ~Matches(m_localBox[k], ops)
           /\ received' = Append(received, m_localBox[i])
           /\ ForgetLinks(SubSeq(m_localBox, 1, i))
           /\ m_localBox' = <<>> \o Without(m_localBox, i)
           /\ GetEnds
    <3>1. m_localBox \in Seq(Msgs)  BY <1>1
    <3>2. ScanHit(m_localBox, ops, <<>>)  BY <1>9
    <3> QED  BY <3>1, <3>2, ScanHitCase, Zenon
  <2>2. UNCHANGED m_localPty  BY <1>9 DEF GetSearch
  <2>3. Range(m_localBox') \subseteq Range(<<>>) \union Range(m_localBox)
    BY <1>1, <1>9, ScanHitBasics
  <2>4. LocalFirst'  BY <2>2, <2>3, <1>7, EmptyList
  <2>5. Searched'  BY <2>1 DEF Searched, GetEnds
  <2> DEFINE looked == SubSeq(m_localBox, 1, i)
             m == m_localBox[i]
  <2>6. /\ looked \in Seq(Msgs)
        /\ Range(looked) = {m_localBox[k] : k \in 1..i}
        /\ Range(looked) \subseteq Range(m_localBox)
    <3>1. /\ looked \in Seq(Msgs)
          /\ Range(looked) = {m_localBox[k] : k \in 1..i}
      BY <1>1, PartOfList
    <3>2. Len(m_localBox) \in Nat  BY <1>1, LenProperties
    <3>3. \A k \in 1..i : k \in 1..Len(m_localBox)  BY <3>2
    <3>4. \A k \in 1..Len(m_localBox) : m_localBox[k] \in Range(m_localBox)
      BY <1>1, PartOfList
    <3> QED  BY <3>1, <3>3, <3>4
  <2>7. m \notin Range(Mail')
    <3>1. IsInjective(m_localBox) /\ Range(m_localBox) \intersect Range(m_sharedBox) = {}
      BY <1>1, <1>2, ConcatList DEF OrderInv, Contents, Mail
    <3>2. /\ m \in Range(m_localBox) /\ Without(m_localBox, i) \in Seq(Msgs)
          /\ Range(Without(m_localBox, i)) = Range(m_localBox) \ {m}
      <4>1. m_localBox \in Seq(Msgs)  BY <1>1
      <4> QED  BY <3>1, <4>1, WithoutList, Zenon DEF Removed
    <3>3. m_localBox' = Without(m_localBox, i)
      BY <2>1, <3>2, ConcatEmptySeq
    <3>4. Range(Mail') = Range(m_localBox') \union Range(m_sharedBox)
      <4>1. Mail' = m_localBox' \o m_sharedBox  BY <1>3 DEF Mail
      <4> QED  BY <4>1, <3>2, <3>3, <1>1, ConcatList
    <3> QED  BY <3>1, <3>2, <3>3, <3>4
  <2>8. ASSUME NEW x \in Range(looked), x \in Range(Mail')
        PROVE  ~Matches(x, ops)
    <3>1. PICK k \in 1..i : x = m_localBox[k]  BY <2>6
    <3>2. k # i  BY <3>1, <2>7, <2>8
    <3>3. k \in 1..(i - 1)  BY <3>2
    <3> QED  BY <3>1, <3>3, <2>1
  <2>9. ForgetLinks(looked)  BY <2>1
  <2> HIDE DEF looked
  <2>10. DeathNews'
    BY <2>6, <2>8, <2>9, <1>1, <1>2, <1>3, <1>4, ForgettingKeepsDeathNews
  <2> QED  BY <2>4, <2>5, <2>10
<1>10. CASE m_localPty = <<>> /\ ScanMiss(m_localBox, ops) /\ UNCHANGED m_localBox
  <2>1. UNCHANGED m_localPty  BY <1>10 DEF GetSearch
  <2>2. /\ \A m \in Range(m_localBox) : ~Matches(m, ops)
        /\ ForgetLinks(m_localBox)
        /\ ops' = ops
    BY <1>1, <1>10, ScanMissCase DEF GetGoesOn
  <2>3. LocalFirst'  BY <2>1, <1>7, <1>10
  <2>4. Searched'
    <3>1. ASSUME NEW m \in Range(m_localBox)  PROVE ~Matches(m, ops)'
      <4>1. m \in Msgs /\ ~Matches(m, ops)  BY <2>2, <1>1
      <4> QED  BY <4>1, <2>2, ForgettingMatchesLess
    <3> QED
      BY <3>1, <2>1, <1>10 DEF Searched
  <2>5. DeathNews'
    BY <2>2, <1>1, <1>2, <1>3, <1>4, ForgettingKeepsDeathNews
  <2> QED  BY <2>3, <2>4, <2>5
<1> QED  BY <1>8, <1>9, <1>10 DEF GetSearch

\* What entering the critical section and the search that follows keep.
LEMMA OrderInvGetEnter ==
  ASSUME BasicInv, BasicInv', OrderInv, GetEnter
  PROVE  OrderInv'
<1>1. /\ m_sharedBox \in Seq(Msgs) /\ m_localBox \in Seq(Msgs)
      /\ m_localPty \in Seq(Msgs) /\ m_sharedPty \in Seq(Msgs)
      /\ Mail \in Seq(Msgs)
      /\ received \in Seq(Msgs) /\ <<>> \in Seq(Msgs)
      /\ Range(Mail) = Range(m_localBox) \union Range(m_sharedBox)
      /\ Range(Mail) \subseteq Range(accepted)
      /\ \A m \in Range(accepted) : m \in Msgs
  BY ListTypes
<1>2. pc \in {"enter", "asleep"}  BY DEF GetEnter
<1>3. ~m_closed  BY <1>2 DEF BasicInv, TypeInv
<1>4. UNCHANGED <<m_closed, dead, accepted>>  BY DEF GetEnter, senders
<1>5. /\ Contents'
      /\ Ordered(Pri', accepted') /\ Ordered(Mail', accepted')
      /\ ReceivedOrdered'
      /\ Range(Mail') \subseteq Range(Mail)
  BY <1>3, <1>4, GetEnterTakes, TakingKeepsOrder
<1>6. Ordered(Pri, accepted)' /\ Ordered(Mail, accepted)'  BY <1>5 DEF Ordered
<1>7. SUFFICES LocalFirst' /\ Searched' /\ DeathNews'
  BY <1>5, <1>6 DEF OrderInv
<1>8. m_localPty = <<>> /\ \A m \in Range(m_localBox) : ~Matches(m, ops)
  BY <1>2, <1>3 DEF OrderInv, Searched
<1>9. CASE GetWaits
  <2>1. UNCHANGED <<m_sharedBox, m_sharedPty, m_localBox, m_localPty, links, owner>>
    BY <1>9 DEF GetWaits, shared, local
  <2>2. LocalFirst'  BY <2>1, <1>3, <1>4 DEF OrderInv, LocalFirst
  <2>3. Searched'
    <3>1. pc' = "idle" \/ ops' = ops  BY <1>9 DEF GetWaits, GetEnds
    <3> QED  BY <3>1, <2>1, <1>8 DEF Searched, Matches, onLinkDeadMsg, isControlMsg
  <2>4. DeathNews'
    BY <2>1, <1>3, <1>4 DEF OrderInv, DeathNews, isControlMsg, Mail
  <2> QED  BY <2>2, <2>3, <2>4
<1>10. CASE GetArrived
  <2>1. m_sharedPty' = <<>> /\ m_sharedBox' = <<>>  BY <1>10 DEF GetArrived
  <2>2. LocalFirst'  BY <2>1, EmptyList DEF LocalFirst
  <2>3. CASE Pri # <<>>
    <3>1. Pty(Pri, ops)  BY <1>10, <2>3 DEF GetArrived, Pri
    <3>2. UNCHANGED <<links, owner>> /\ pc' = "idle"  BY <3>1 DEF Pty, GetEnds
    <3>3. Searched'  BY <3>2 DEF Searched
    <3>4. DeathNews'
      BY <3>2, <1>3, <1>4, <1>5 DEF OrderInv, DeathNews, isControlMsg
    <3> QED  BY <2>2, <3>3, <3>4
  <2>4. CASE Pri = <<>> /\ ScanHit(m_sharedBox, ops, m_localBox)
    <3>1. PICK i \in 1..Len(m_sharedBox) :
             /\ Matches(m_sharedBox[i], ops)
             /\ \A k \in 1..(i - 1) : ~Matches(m_sharedBox[k], ops)
             /\ received' = Append(received, m_sharedBox[i])
             /\ ForgetLinks(SubSeq(m_sharedBox, 1, i))
             /\ m_localBox' = m_localBox \o Without(m_sharedBox, i)
             /\ GetEnds
      <4>1. m_sharedBox \in Seq(Msgs)  BY <1>1
      <4>2. ScanHit(m_sharedBox, ops, m_localBox)  BY <2>4
      <4> QED  BY <4>1, <4>2, ScanHitCase, Zenon
    <3>2. Searched'  BY <3>1 DEF Searched, GetEnds
    <3> DEFINE looked == SubSeq(m_sharedBox, 1, i)
               m == m_sharedBox[i]
    <3>3. /\ looked \in Seq(Msgs)
          /\ Range(looked) = {m_sharedBox[k] : k \in 1..i}
          /\ Range(looked) \subseteq Range(m_sharedBox)
      <4>1. /\ looked \in Seq(Msgs)
            /\ Range(looked) = {m_sharedBox[k] : k \in 1..i}
        BY <1>1, PartOfList
      <4>2. Len(m_sharedBox) \in Nat  BY <1>1, LenProperties
      <4>3. \A k \in 1..i : k \in 1..Len(m_sharedBox)  BY <4>2
      <4>4. \A k \in 1..Len(m_sharedBox) : m_sharedBox[k] \in Range(m_sharedBox)
        BY <1>1, PartOfList
      <4> QED  BY <4>1, <4>3, <4>4
    <3>4. m \notin Range(Mail')
      <4>1. IsInjective(m_sharedBox) /\ Range(m_localBox) \intersect Range(m_sharedBox) = {}
        BY <1>1, <1>3, ConcatList DEF OrderInv, Contents, Mail
      <4>2. /\ m \in Range(m_sharedBox) /\ Without(m_sharedBox, i) \in Seq(Msgs)
            /\ Range(Without(m_sharedBox, i)) = Range(m_sharedBox) \ {m}
        <5>1. m_sharedBox \in Seq(Msgs)  BY <1>1
        <5> QED  BY <4>1, <5>1, WithoutList, Zenon DEF Removed
      <4>3. Range(m_localBox') = Range(m_localBox) \union (Range(m_sharedBox) \ {m})
        BY <4>2, <3>1, <1>1, ConcatList
      <4>4. m_localBox' \in Seq(Msgs)  BY DEF BasicInv, TypeInv
      <4>5. Mail' = m_localBox'
        <5>1. Mail' = m_localBox' \o <<>>  BY <2>1 DEF Mail
        <5> QED  BY <5>1, <4>4, ConcatEmptySeq
      <4> QED  BY <4>1, <4>2, <4>3, <4>5
    <3>5. ASSUME NEW x \in Range(looked), x \in Range(Mail')
          PROVE  ~Matches(x, ops)
      <4>1. PICK k \in 1..i : x = m_sharedBox[k]  BY <3>3
      <4>2. k # i  BY <4>1, <3>4, <3>5
      <4>3. k \in 1..(i - 1)  BY <4>2
      <4> QED  BY <4>1, <4>3, <3>1
    <3>6. ForgetLinks(looked)  BY <3>1
    <3> HIDE DEF looked
    <3>7. DeathNews'
      BY <3>3, <3>5, <3>6, <1>1, <1>3, <1>4, <1>5, ForgettingKeepsDeathNews
    <3> QED  BY <2>2, <3>2, <3>7
  <2>5. CASE Pri = <<>> /\ ScanMiss(m_sharedBox, ops) /\ m_localBox' = Mail
    <3>1. /\ \A m \in Range(m_sharedBox) : ~Matches(m, ops)
          /\ ForgetLinks(m_sharedBox)
          /\ ops' = ops
      BY <1>1, <2>5, ScanMissCase DEF GetGoesOn
    <3>2. UNCHANGED m_localPty  BY <1>10, <2>5 DEF GetArrived, Pri
    <3>3. Searched'
      <4>1. ASSUME NEW m \in Range(m_localBox')  PROVE ~Matches(m, ops)'
        <5>1. m \in Msgs /\ ~Matches(m, ops)  BY <3>1, <2>5, <1>1, <1>8
        <5> QED  BY <5>1, <3>1, ForgettingMatchesLess
      <4> QED  BY <4>1, <3>2, <1>8 DEF Searched
    <3>4. DeathNews'
      BY <3>1, <1>1, <1>3, <1>4, <1>5, ForgettingKeepsDeathNews
    <3> QED  BY <2>2, <3>3, <3>4
  <2> QED  BY <2>3, <2>4, <2>5, <1>10 DEF GetArrived, Pri, Mail
<1> QED  BY <1>9, <1>10 DEF GetEnter

\* OrderInv is preserved.
LEMMA OrderInvNext ==
  ASSUME BasicInv, BasicInv', OrderInv, [Next]_vars
  PROVE  OrderInv'
<1>1. ASSUME NEW s \in Senders, Send(s) \/ SendWakes(s) \/ Terminate(s)
      PROVE  OrderInv'
  BY <1>1, SenderSteps, OrderInvSender
<1>2. ASSUME UNCHANGED <<m_closed, m_sharedBox, m_sharedPty, m_localBox,
                         m_localPty, links, owner, received, dead, accepted>>,
             \/ pc' \notin {"enter", "asleep"}
             \/ UNCHANGED <<pc, ops>>
      PROVE  OrderInv'
  <2>1. UNCHANGED <<Mail, Pri>>  BY <1>2 DEF Mail, Pri
  <2>2. Contents'  BY <2>1, <1>2 DEF OrderInv, Contents
  <2>3. ~m_closed' => /\ Ordered(Pri, accepted)' /\ Ordered(Mail, accepted)'
                      /\ LocalFirst'
    BY <2>1, <1>2 DEF OrderInv, Ordered, LocalFirst
  <2>4. ~m_closed' => Searched'
    BY <1>2 DEF OrderInv, Searched, Matches, isControlMsg, onLinkDeadMsg
  <2>5. ReceivedOrdered'
    BY <1>2 DEF OrderInv, ReceivedOrdered, isPriorityMsg, isControlMsg
  <2>6. DeathNews'  BY <2>1, <1>2 DEF OrderInv, DeathNews, isControlMsg
  <2> QED  BY <2>2, <2>3, <2>4, <2>5, <2>6 DEF OrderInv
<1>3. CASE setMaxMailboxSize
  BY <1>2, <1>3
     DEF setMaxMailboxSize, setMaxMsgs, shared, local, receiver, senders
<1>4. CASE receive \/ receiveTimeout
  BY <1>2, <1>4 DEF receive, receiveTimeout, Get, shared, local, senders
<1>5. CASE GetSearch  BY <1>5, OrderInvGetSearch
<1>6. CASE GetEnter  BY <1>6, OrderInvGetEnter
<1>7. CASE TimeIsUp \/ GetTimesOut
  BY <1>2, <1>7 DEF TimeIsUp, GetTimesOut, GetEnds, shared, local, senders
<1>8. CASE close
  <2>1. m_closed' = TRUE /\ UNCHANGED <<received, accepted>>
    BY <1>8 DEF close
  <2>2. Contents' /\ DeathNews'
    BY <2>1 DEF OrderInv, Contents, DeathNews
  <2>3. ReceivedOrdered'
    BY <2>1 DEF OrderInv, ReceivedOrdered, isPriorityMsg, isControlMsg
  <2> QED  BY <2>1, <2>2, <2>3 DEF OrderInv
<1>9. ASSUME NEW t \in Senders \union {Receiver}, SpuriousWakeup(t)
      PROVE  OrderInv'
  BY <1>2, <1>9 DEF SpuriousWakeup, shared, local, receiver, senders
<1>10. CASE UNCHANGED vars
  BY <1>2, <1>10 DEF vars, shared, local, receiver, senders
<1> QED
  BY <1>1, <1>3, <1>4, <1>5, <1>6, <1>7, <1>8, <1>9, <1>10 DEF Next

\* OrderInv is an invariant.
THEOREM OrderInvHolds == Spec => []OrderInv
<1>1. Init => OrderInv
  <2> SUFFICES ASSUME Init  PROVE OrderInv
    OBVIOUS
  <2>1. /\ m_closed = FALSE /\ pc = "idle" /\ dead = {} /\ links = Spawned
        /\ owner = Owner /\ accepted = <<>> /\ received = <<>>
        /\ m_localBox = <<>> /\ m_sharedBox = <<>>
        /\ m_localPty = <<>> /\ m_sharedPty = <<>>
    BY DEF Init
  <2>2. <<>> \o <<>> = <<>>
    <3>1. <<>> \in Seq({})  BY EmptySeq
    <3> QED  BY <3>1, ConcatEmptySeq
  <2>3. Mail = <<>> /\ Pri = <<>>  BY <2>1, <2>2 DEF Mail, Pri
  <2>4. Contents  BY <2>1, <2>3, EmptyList DEF Contents
  <2>5. Ordered(Pri, accepted) /\ Ordered(Mail, accepted)
    BY <2>3, EmptyList DEF Ordered
  <2>6. LocalFirst /\ ReceivedOrdered
    BY <2>1, EmptyList DEF LocalFirst, ReceivedOrdered
  <2>7. Searched  BY <2>1 DEF Searched
  <2>8. DeathNews
    BY <2>1, <2>3, EmptyList, MessageBoxAssumption DEF DeathNews, Spawned
  <2> QED  BY <2>4, <2>5, <2>6, <2>7, <2>8 DEF OrderInv
<1>2. BasicInv /\ BasicInv' /\ OrderInv /\ [Next]_vars => OrderInv'
  BY OrderInvNext
<1> QED  BY <1>1, <1>2, BasicInvHolds, PTL DEF Spec

\* Nothing that enters a mailbox after a priority message is received before
\* it, for any number of senders and messages.
THEOREM NotOvertakenHolds == Spec => []NotOvertaken
<1>1. BasicInv /\ OrderInv => NotOvertaken
  <2> SUFFICES ASSUME BasicInv, OrderInv,
                      NEW i \in DOMAIN accepted, NEW j \in DOMAIN received,
                      isPriorityMsg(accepted[i]),
                      Before(accepted, accepted[i], received[j])
               PROVE  Before(received, accepted[i], received[j])
    BY DEF NotOvertaken
  <2>1. accepted[i] \in Range(accepted) /\ received[j] \in Range(received)
    BY DEF Range
  <2> QED  BY <2>1 DEF OrderInv, ReceivedOrdered
<1> QED  BY <1>1, BasicInvHolds, OrderInvHolds, PTL

\* No message is lost, duplicated or reordered within its kind, whatever the
\* receives select and however sends, moves and timeouts interleave.
THEOREM InOrderHolds == Spec => []InOrder
<1>1. BasicInv /\ OrderInv => InOrder
  <2> DEFINE all == received \o m_localPty \o m_sharedPty \o Mail
             rest == Pri \o Mail
  <2> SUFFICES ASSUME BasicInv, OrderInv, ~m_closed
               PROVE  /\ Range(all) = Range(accepted)
                      /\ IsInjective(all)
                      /\ \A x, y \in Range(accepted) :
                           /\ x.kind = y.kind /\ ~isControlMsg(x)
                           /\ Before(accepted, x, y)
                           => Before(all, x, y)
    BY DEF InOrder
  <2>1. /\ m_localPty \in Seq(Msgs) /\ m_sharedPty \in Seq(Msgs)
        /\ received \in Seq(Msgs) /\ Mail \in Seq(Msgs) /\ Pri \in Seq(Msgs)
        /\ \A m \in Range(Mail) : ~isPriorityMsg(m)
        /\ \A m \in Range(Pri) : isPriorityMsg(m)
    BY ListTypes
  <2>2. rest \in Seq(Msgs)  BY <2>1, ConcatProperties
  <2>3. all = received \o rest
    <3>1. (received \o m_localPty) \o m_sharedPty = received \o Pri
      BY <2>1, ConcatAssociative DEF Pri
    <3>2. (received \o Pri) \o Mail = received \o rest
      <4>1. \A a, b, c \in Seq(Msgs) : (a \o b) \o c = a \o (b \o c)
        BY ConcatAssociative
      <4> QED  BY <4>1, <2>1
    <3> QED  BY <3>1, <3>2
  <2>4. /\ Range(rest) = Range(Pri) \union Range(Mail)
        /\ IsInjective(rest) <=> /\ IsInjective(Pri) /\ IsInjective(Mail)
                                 /\ Range(Pri) \intersect Range(Mail) = {}
        /\ \A x, y : Before(rest, x, y) <=>
             \/ Before(Pri, x, y) \/ Before(Mail, x, y)
             \/ x \in Range(Pri) /\ y \in Range(Mail)
    BY <2>1, ConcatList
  <2> HIDE DEF rest
  <2>5. /\ Range(received \o rest) = Range(received) \union Range(rest)
        /\ IsInjective(received \o rest) <=>
             /\ IsInjective(received) /\ IsInjective(rest)
             /\ Range(received) \intersect Range(rest) = {}
        /\ \A x, y : Before(received \o rest, x, y) <=>
             \/ Before(received, x, y) \/ Before(rest, x, y)
             \/ x \in Range(received) /\ y \in Range(rest)
    BY <2>1, <2>2, ConcatList
  <2>6. /\ IsInjective(received) /\ IsInjective(Pri) /\ IsInjective(Mail)
        /\ Range(received) \intersect Range(Pri) = {}
        /\ Range(received) \intersect Range(Mail) = {}
        /\ Range(accepted) = Range(received) \union Range(Pri) \union Range(Mail)
    BY DEF OrderInv, Contents
  <2>7. Range(Pri) \intersect Range(Mail) = {}  BY <2>1
  <2> HIDE DEF all
  <2>8. Range(all) = Range(accepted) /\ IsInjective(all)
    BY <2>3, <2>4, <2>5, <2>6, <2>7
  <2>9. ASSUME NEW x \in Range(accepted), NEW y \in Range(accepted),
               x.kind = y.kind, ~isControlMsg(x), Before(accepted, x, y)
        PROVE  Before(all, x, y)
    <3>1. CASE y \in Range(received)
      <4>1. Before(received, x, y)  BY <3>1, <2>9 DEF OrderInv, ReceivedOrdered
      <4> QED  BY <4>1, <2>3, <2>5
    <3>2. CASE y \in Range(Pri) \union Range(Mail) /\ x \in Range(received)
      BY <3>2, <2>3, <2>4, <2>5
    <3>3. CASE y \in Range(Pri) /\ x \in Range(Pri)
      <4>1. Before(Pri, x, y)  BY <3>3, <2>9 DEF OrderInv, Ordered
      <4> QED  BY <4>1, <2>3, <2>4, <2>5
    <3>4. CASE y \in Range(Mail) /\ x \in Range(Mail)
      <4>1. Before(Mail, x, y)  BY <3>4, <2>9 DEF OrderInv, Ordered
      <4> QED  BY <4>1, <2>3, <2>4, <2>5
    <3>5. x \in Range(Pri) <=> ~(x \in Range(received) \union Range(Mail))
      BY <2>6, <2>7
    <3>6. ~(x \in Range(Pri) /\ y \in Range(Mail)) /\ ~(x \in Range(Mail) /\ y \in Range(Pri))
      BY <2>1, <2>9 DEF isPriorityMsg
    <3> QED  BY <3>1, <3>2, <3>3, <3>4, <3>6, <2>6
  <2> QED  BY <2>8, <2>9
<1> QED  BY <1>1, BasicInvHolds, OrderInvHolds, PTL

-----------------------------------------------------------------------------
(***************************************************************************)
(* Who sleeps, and when                                                    *)
(***************************************************************************)

\* The receiver sleeps on m_putMsg in get, beside empty shared lists, and
\* senders sleep on m_notFull in put.  While both do, the mailbox is full, if
\* its limit is not raised meanwhile: get has looked at m_putQueue before it
\* fell asleep, and a put that came later has found no room.
SleepInv ==
  /\ m_putMsg \subseteq {Receiver}
  /\ m_putMsg # {} => pc = "asleep" /\ NothingShared
  /\ m_notFull \subseteq Waiting
  /\ ~LateLimits /\ m_putMsg # {} /\ m_notFull # {} => mboxFull

\* A notification wakes the receiver, as nobody else sleeps on m_putMsg.
LEMMA NotifyReceiver ==
  ASSUME m_putMsg \subseteq {Receiver}, NEW q \in notify(m_putMsg)
  PROVE  q = {}
  BY DEF notify

\* A round of the loop of put.
LEMMA PutLoopSleeps ==
  ASSUME BasicInv, SleepInv, NEW m \in Msgs, NEW queued, PutLoop(m, queued),
         m.from \notin m_notFull,
         UNCHANGED <<limits, m_localMsgs, pc>>
  PROVE  SleepInv'
<1>1. /\ pending \in [Senders -> Msgs \union {NoMsg}] /\ m.from \in Senders
      /\ m # NoMsg
  BY NoMsgIsNone DEF BasicInv, TypeInv, Msgs
<1>2. ASSUME pending' = [pending EXCEPT ![m.from] = NoMsg], UNCHANGED m_notFull
      PROVE  m_notFull' \subseteq Waiting'
  BY <1>1, <1>2 DEF SleepInv, Waiting
<1>3. CASE PutPriority(m, queued) \/ PutInBox(m, queued)
  <2>1. m_putMsg' = {} /\ UNCHANGED m_notFull /\ pending' = [pending EXCEPT ![m.from] = NoMsg]
    BY <1>3, NotifyReceiver DEF PutPriority, PutInBox, SleepInv
  <2> QED  BY <2>1, <1>2 DEF SleepInv
<1>4. CASE PutGivesUp(m, queued)
  <2>1. /\ UNCHANGED <<m_notFull, m_putMsg, m_sharedBox, m_sharedPty>>
        /\ pending' = [pending EXCEPT ![m.from] = NoMsg]
    BY <1>4 DEF PutGivesUp, shared
  <2> QED  BY <2>1, <1>2 DEF SleepInv, NothingShared, mboxFull, Full, limits
<1>5. CASE PutWaits(m, queued)
  <2>1. /\ UNCHANGED <<m_putMsg, m_sharedBox, m_sharedPty>> /\ mboxFull
        /\ m_notFull' = m_notFull \union {m.from}
        /\ pending' = [pending EXCEPT ![m.from] = m]
    BY <1>5 DEF PutWaits, shared, wait, Crowded
  <2>2. m_notFull' \subseteq Waiting'  BY <2>1, <1>1 DEF SleepInv, Waiting
  <2> QED  BY <2>1, <2>2 DEF SleepInv, NothingShared, mboxFull, Full, limits
<1> QED  BY <1>3, <1>4, <1>5 DEF PutLoop

\* SleepInv is preserved.
LEMMA SleepInvNext ==
  ASSUME BasicInv, PutQueueExact, SleepInv, [Next]_vars
  PROVE  SleepInv'
<1>1. ASSUME UNCHANGED <<limits, m_sharedBox, m_sharedPty, m_localMsgs, pc, pending>>,
             m_putMsg' \subseteq m_putMsg, m_notFull' \subseteq m_notFull
      PROVE  SleepInv'
  BY <1>1 DEF SleepInv, NothingShared, Waiting, mboxFull, Full, limits
<1>2. ASSUME UNCHANGED <<pending, m_notFull>>, m_putMsg' = {}
      PROVE  SleepInv'
  BY <1>2 DEF SleepInv, Waiting
<1>3. ASSUME NEW s \in Senders, NEW m \in Msgs, put(m), m.from = s, pending[s] = NoMsg,
             UNCHANGED <<limits, m_localMsgs, pc>>
      PROVE  SleepInv'
  <2>1. s \notin m_notFull  BY <1>3 DEF SleepInv, Waiting
  <2>2. CASE m_closed
    <3>1. UNCHANGED <<shared, m_putMsg, waits, pending>>  BY <1>3, <2>2 DEF put
    <3> QED  BY <3>1, <1>1, <1>3 DEF shared, waits
  <2>3. CASE ~m_closed
    BY <2>1, <2>3, <1>3, PutLoopSleeps DEF put
  <2> QED  BY <2>2, <2>3
<1>4. ASSUME NEW s \in Senders, Send(s)
      PROVE  SleepInv'
  <2>1. PICK kind \in KindsOf[s] : put([kind |-> kind, from |-> s, n |-> sent[s] + 1])
    BY <1>4 DEF Send
  <2>2. sent[s] \in Nat  BY DEF BasicInv, TypeInv
  <2>3. [kind |-> kind, from |-> s, n |-> sent[s] + 1] \in Msgs
    BY <2>2, MessageBoxAssumption DEF Msgs
  <2> QED  BY <2>1, <2>3, <1>3, <1>4 DEF Send, receiver
<1>5. ASSUME NEW s \in Senders, SendWakes(s)
      PROVE  SleepInv'
  <2>1. pending[s] \in Msgs /\ pending[s].from = s
    BY <1>5 DEF SendWakes, BasicInv, TypeInv, Pending
  <2> QED  BY <2>1, <1>5, PutLoopSleeps DEF SendWakes, receiver
<1>6. ASSUME NEW s \in Senders, Terminate(s)
      PROVE  SleepInv'
  <2>1. [kind |-> "linkDead", from |-> s, n |-> 0] \in Msgs  BY DEF Msgs
  <2> QED  BY <2>1, <1>3, <1>6 DEF Terminate, receiver
<1>7. CASE setMaxMailboxSize
  <2>1. UNCHANGED <<shared, m_localMsgs, m_notFull, m_putMsg, pc, pending>>
    BY <1>7 DEF setMaxMailboxSize, setMaxMsgs, waits, receiver, senders
  <2>2. CASE m_maxMsgs' = m_maxMsgs
    BY <2>1, <2>2 DEF SleepInv, NothingShared, Waiting, mboxFull, Full, shared
  <2>3. CASE LateLimits
    BY <2>1, <2>3 DEF SleepInv, NothingShared, Waiting, shared
  <2>4. CASE \A s \in Senders : sent[s] = 0
    <3>1. m_notFull = {}  BY <2>4 DEF SleepInv, Waiting, BasicInv, Pending
    <3> QED  BY <2>1, <3>1 DEF SleepInv, NothingShared, Waiting, shared
  <2> QED  BY <2>2, <2>3, <2>4, <1>7 DEF setMaxMailboxSize, setMaxMsgs
<1>8. CASE receive \/ receiveTimeout \/ GetSearch \/ close
  <2>1. m_putMsg = {} /\ UNCHANGED <<m_putMsg, m_notFull, pending>>
    BY <1>8 DEF receive, receiveTimeout, Get, GetSearch, close, SleepInv, waits, senders
  <2> QED  BY <2>1, <1>2
<1>9. CASE TimeIsUp \/ GetTimesOut
  <2>1. m_putMsg' = {} /\ UNCHANGED <<m_notFull, pending>>
    BY <1>9 DEF TimeIsUp, GetTimesOut, wakeUp, SleepInv, waits, senders
  <2> QED  BY <2>1, <1>2
<1>10. CASE GetEnter
  <2>1. m_putMsg = {} /\ UNCHANGED <<pending, limits>>
    BY <1>10 DEF GetEnter, SleepInv, senders
  <2>2. CASE GetArrived
    BY <2>1, <2>2, <1>2 DEF GetArrived
  <2>3. CASE GetWaits
    <3>1. /\ m_notFull' \subseteq m_notFull /\ UNCHANGED shared /\ NothingShared
          /\ m_putMsg' = {} \/ (m_putMsg' = {Receiver} /\ pc' = "asleep")
      BY <2>1, <2>3 DEF GetWaits, notifyAll, wait
    <3>2. ASSUME m_notFull' # {}  PROVE mboxFull'
      <4>1. Waiting # {}  BY <3>1, <3>2 DEF SleepInv
      <4>2. m_putQueue > 0
        <5>1. Waiting \in SUBSET Senders  BY DEF Waiting
        <5>2. IsFiniteSet(Waiting)  BY <5>1, MessageBoxAssumption, FS_Subset
        <5>3. Cardinality(Waiting) \in Nat /\ Cardinality(Waiting) # 0
          BY <5>2, <4>1, FS_EmptySet, FS_CardinalityType
        <5> QED  BY <5>3 DEF PutQueueExact, Waiting
      <4>3. Full(m_localMsgs')  BY <4>2, <3>2, <2>3 DEF GetWaits, notifyAll
      <4> QED  BY <4>3, <3>1, <2>1 DEF mboxFull, Full, shared, limits
    <3> QED  BY <3>1, <3>2, <2>1 DEF SleepInv, NothingShared, Waiting, shared
  <2> QED  BY <2>2, <2>3, <1>10 DEF GetEnter
<1>11. ASSUME NEW t \in Senders \union {Receiver}, SpuriousWakeup(t)
       PROVE  SleepInv'
  BY <1>1, <1>11 DEF SpuriousWakeup, wakeUp, shared, receiver, senders
<1>12. CASE UNCHANGED vars
  BY <1>1, <1>12 DEF vars, shared, receiver, senders, waits
<1> QED
  BY <1>4, <1>5, <1>6, <1>7, <1>8, <1>9, <1>10, <1>11, <1>12 DEF Next

LEMMA SleepInvHolds == Spec => []SleepInv
<1>1. Init => SleepInv  BY DEF Init, SleepInv
<1>2. BasicInv /\ PutQueueExact /\ SleepInv /\ [Next]_vars => SleepInv'
  BY SleepInvNext
<1> QED  BY <1>1, <1>2, BasicInvHolds, PutQueueExactHolds, PTL DEF Spec

\* The receiver does not sleep beside a message that its receive would take:
\* not beside a new one, as put notifies under the lock under which get looks,
\* and not beside one that an earlier receive left in the local list.
NoMailBesideSleeper ==
  m_putMsg # {} =>
    /\ NothingShared /\ m_localPty = <<>>
    /\ \A m \in Range(m_localBox) : ~Matches(m, ops)

\* For any number of senders, kinds and receives: no wake-up of the receiver
\* is lost.
THEOREM NobodySleepsBesideMail == Spec => []NoMailBesideSleeper
<1>1. BasicInv /\ OrderInv /\ SleepInv => NoMailBesideSleeper
  BY DEF BasicInv, TypeInv, OrderInv, Searched, SleepInv, NoMailBesideSleeper
<1> QED  BY <1>1, BasicInvHolds, OrderInvHolds, SleepInvHolds, PTL

\* A receiver and a sender wait for each other only when the mailbox is full
\* of messages that the receive does not accept.
StuckOnlyWhenFull ==
  ~LateLimits /\ m_putMsg # {} /\ m_notFull # {} =>
    /\ m_maxMsgs # 0 /\ m_maxMsgs <= Len(m_localBox)
    /\ \A m \in Range(m_localBox) : ~Matches(m, ops)

\* For any number of senders and any limit that is not changed while they wait,
\* with no assumption on what the receiver receives: the wait of both sides is
\* never the fault of a lost notification.  setMaxMsgs notifies nobody, so a
\* limit raised later can leave both asleep beside free room.
THEOREM BothSleepOnlyWhenFull == Spec => []StuckOnlyWhenFull
<1>1. BasicInv /\ OrderInv /\ CountInv /\ SleepInv => StuckOnlyWhenFull
  <2> SUFFICES ASSUME BasicInv, OrderInv, CountInv, SleepInv,
                      ~LateLimits, m_putMsg # {}, m_notFull # {}
               PROVE  /\ m_maxMsgs # 0 /\ m_maxMsgs <= Len(m_localBox)
                      /\ \A m \in Range(m_localBox) : ~Matches(m, ops)
    BY DEF StuckOnlyWhenFull
  <2>1. pc = "asleep" /\ NothingShared /\ mboxFull  BY DEF SleepInv
  <2>2. m_localMsgs = Len(m_localBox)  BY <2>1 DEF CountInv
  <2>3. Len(m_sharedBox) = 0  BY <2>1, EmptySeq DEF NothingShared
  <2>4. m_maxMsgs # 0 /\ m_maxMsgs <= m_localMsgs
    BY <2>1, <2>3 DEF mboxFull, Full, BasicInv, TypeInv
  <2>5. \A m \in Range(m_localBox) : ~Matches(m, ops)
    BY <2>1 DEF BasicInv, TypeInv, OrderInv, Searched
  <2> QED  BY <2>2, <2>4, <2>5
<1> QED  BY <1>1, BasicInvHolds, OrderInvHolds, CountInvHolds, SleepInvHolds, PTL
-----------------------------------------------------------------------------
(***************************************************************************)
(* The mailbox that MessageBox implements                                  *)
(***************************************************************************)
Inside == Range(m_localPty) \union Range(m_sharedPty) \union Range(Mail)

\* The INSTANCE has its own copies of Range and Before.
LEMMA SameRange == \A list : Abstract!Range(list) = Range(list)
  BY DEF Abstract!Range, Range

LEMMA SameOrder == \A x, y : Abstract!Older(x, y) <=> Before(accepted, x, y)
  BY DEF Abstract!Older, Before

\* What is in the mailbox.
LEMMA InsideLists ==
  ASSUME BasicInv
  PROVE  /\ Inside = Range(Pri) \union Range(Mail)
         /\ \A x \in Inside : x \in Msgs /\ (Abstract!Urgent(x) <=> x \in Range(Pri))
  BY ListTypes DEF Inside, Abstract!Urgent, isPriorityMsg

\* The linkDead message of a linked thread or the owner matches as long as it
\* is in the mailbox, although links and owner change.
LEMMA SameMatches ==
  ASSUME BasicInv, OrderInv, ~m_closed, NEW x \in Range(Mail)
  PROVE  Matches(x, ops) <=> Abstract!Acceptable(x)
<1>1. x \in Msgs  BY ListTypes
<1>2. x.from \in Senders /\ x.from # Receiver  BY <1>1, MessageBoxAssumption DEF Msgs
<1>3. owner \in {Owner, Receiver}  BY DEF BasicInv, TypeInv
<1>4. isControlMsg(x) => /\ x.from \in Linked => x.from \in links
                         /\ x.from = Owner => owner = Owner
  BY DEF OrderInv, DeathNews
<1>5. Linked \intersect {Owner} = {}  BY MessageBoxAssumption
<1> QED
  BY <1>2, <1>3, <1>4, <1>5 DEF Matches, onLinkDeadMsg, isControlMsg, Abstract!Acceptable

\* A message enters, or the sender's step is not seen.
LEMMA SenderImplements ==
  ASSUME BasicInv, SenderStep
  PROVE  [Abstract!Next]_(Abstract!vars)
<1>1. UNCHANGED <<m_closed, m_localBox, m_localPty, pc, ops, timed, received>>
  BY DEF SenderStep, local, receiver
<1>2. CASE UNCHANGED <<shared, accepted>>
  BY <1>1, <1>2 DEF Abstract!vars, shared, Mail
<1>3. ASSUME NEW m \in Msgs, Entered(m)
      PROVE  Abstract!Next
  <2>1. /\ m_sharedBox \in Seq(Msgs) /\ m_sharedPty \in Seq(Msgs)
        /\ m_localBox \in Seq(Msgs) /\ accepted \in Seq(Msgs)
        /\ Range(Mail) = Range(m_localBox) \union Range(m_sharedBox)
    BY ListTypes
  <2>2. \A list \in Seq(Msgs) : /\ Append(list, m) \in Seq(Msgs)
                                /\ Range(Append(list, m)) = Range(list) \union {m}
    BY AppendList DEF Appended
  <2>3. m_sharedBox' \in Seq(Msgs)  BY <2>1, <2>2, <1>3 DEF Entered
  <2>4. Range(Mail') = Range(m_localBox) \union Range(m_sharedBox')
    BY <2>1, <2>3, <1>1, ConcatList DEF Mail
  <2>5. Inside' = Inside \union {m}
    BY <2>1, <2>2, <2>4, <1>1, <1>3 DEF Entered, Inside
  <2>6. Abstract!Enter(m)
    BY <2>5, <1>1, <1>3, SameRange DEF Entered, Inside, Abstract!Enter, Abstract!call
  <2>7. m \in Range(accepted')  BY <2>1, <2>2, <1>3 DEF Entered
  <2>8. m \in Abstract!Range(accepted')  BY <2>7, SameRange
  <2> QED  BY <2>6, <2>8 DEF Abstract!Next
<1> QED  BY <1>2, <1>3 DEF SenderStep

\* A step of get that takes no message goes on, or ends for one of two reasons.
LEMMA GetEndings ==
  ASSUME BasicInv, OrderInv, GetSearch \/ GetEnter
  PROVE  \/ UNCHANGED <<received, ops, timed>> /\ pc' \in {"enter", "asleep"}
         \/ /\ GetEnds
            /\ \/ \E x \in Msgs : received' = Append(received, x)
               \/ Pri # <<>> /\ UNCHANGED received
               \/ timed /\ pc = "enter" /\ NothingShared /\ UNCHANGED received
<1>1. /\ m_sharedBox \in Seq(Msgs) /\ m_localBox \in Seq(Msgs)
      /\ m_localPty \in Seq(Msgs) /\ m_sharedPty \in Seq(Msgs) /\ Pri \in Seq(Msgs)
  BY ListTypes
<1>2. ASSUME NEW list \in Seq(Msgs), list # <<>>, Pty(list, ops), list # <<>> => Pri # <<>>
      PROVE  /\ GetEnds
             /\ \/ \E x \in Msgs : received' = Append(received, x)
                \/ Pri # <<>> /\ UNCHANGED received
  <2>1. Head(list) \in Msgs  BY <1>2, HeadTailProperties
  <2> QED  BY <2>1, <1>2, Zenon DEF Pty
<1>3. ASSUME NEW list \in Seq(Msgs), NEW rest, ScanHit(list, ops, rest)
      PROVE  GetEnds /\ \E x \in Msgs : received' = Append(received, x)
  <2>1. PICK i \in 1..Len(list) : received' = Append(received, list[i])
    BY <1>3, ScanHitCase
  <2>2. list[i] \in Msgs  BY ElementOfSeq
  <2> QED  BY <2>1, <2>2, <1>3 DEF ScanHit
<1>4. m_localPty # <<>> => Pri # <<>>
  BY <1>1 DEF Pri
<1>5. CASE GetSearch
  BY <1>1, <1>2, <1>3, <1>4, <1>5 DEF GetSearch, ScanMiss, GetGoesOn
<1>6. CASE GetEnter
  <2>1. CASE GetWaits  BY <2>1 DEF GetWaits
  <2>2. CASE GetArrived
    BY <1>1, <1>2, <1>3, <2>2 DEF GetArrived, ScanMiss, GetGoesOn, Pri
  <2> QED  BY <2>1, <2>2, <1>6 DEF GetEnter
<1> QED  BY <1>5, <1>6

\* get takes the message that the abstract mailbox would hand out.
LEMMA TakingImplements ==
  ASSUME BasicInv, OrderInv, ~m_closed, UNCHANGED <<m_closed, accepted>>,
         pc \in {"search", "enter", "asleep"}, GetEnds,
         NEW m \in Msgs, TookPri(m) \/ TookMail(m),
         Inside' = (Range(Pri) \union Range(Mail))'
  PROVE  Abstract!Next
<1>1. /\ Inside = Range(Pri) \union Range(Mail)
      /\ \A x \in Inside : x \in Msgs /\ (Abstract!Urgent(x) <=> x \in Range(Pri))
  BY InsideLists
<1>2. Range(Pri) \intersect Range(Mail) = {}
  BY ListTypes
<1>3. m \in Inside /\ Inside' = Inside \ {m}
  BY <1>1, <1>2 DEF TookPri, TookMail, Removed
<1>4. Abstract!Acceptable(m)
  <2>1. CASE TookPri(m)
    BY <2>1, <1>1 DEF TookPri, Abstract!Acceptable, Abstract!Urgent
  <2>2. CASE TookMail(m)
    BY <2>2, SameMatches DEF TookMail
  <2> QED  BY <2>1, <2>2
<1>5. ASSUME NEW x \in Inside, Before(accepted, x, m)
      PROVE  ~Abstract!Urgent(x) /\ (Abstract!Acceptable(x) => Abstract!Urgent(m))
  <2>1. CASE TookPri(m)
    <3>1. Abstract!Urgent(m)  BY <2>1, <1>1 DEF TookPri
    <3>2. x \notin Range(Pri)
      BY <2>1, <1>5 DEF TookPri, OrderInv, Ordered
    <3> QED  BY <3>1, <3>2, <1>1
  <2>2. CASE TookMail(m)
    <3>1. x \notin Range(Pri)  BY <2>2, <1>5 DEF TookMail
    <3>2. x \in Range(Mail)  BY <3>1, <1>1
    <3>3. Before(Mail, x, m)  BY <3>2, <2>2, <1>5 DEF TookMail, OrderInv, Ordered
    <3>4. ~Matches(x, ops)  BY <3>3, <2>2 DEF TookMail
    <3> QED  BY <3>1, <3>2, <3>4, <1>1, SameMatches
  <2> QED  BY <2>1, <2>2
<1>6. received' = Append(received, m)  BY DEF TookPri, TookMail
<1>7. Abstract!Take(m)
  BY <1>3, <1>4, <1>5, <1>6, SameOrder DEF Abstract!Take, Abstract!Return, GetEnds, Inside
<1> QED  BY <1>3, <1>7 DEF Abstract!Next, Inside

\* A receive that has found the shared lists empty and sleeps, or has no time
\* left, has nothing to take.
LEMMA NothingForIt ==
  ASSUME BasicInv, OrderInv, pc \in {"enter", "asleep"}, NothingShared
  PROVE  Abstract!NothingToTake
<1>1. ~m_closed  BY DEF BasicInv, TypeInv
<1>2. /\ m_localPty = <<>> /\ m_sharedPty = <<>> /\ m_sharedBox = <<>>
      /\ \A x \in Range(m_localBox) : ~Matches(x, ops)
  BY <1>1 DEF OrderInv, Searched, NothingShared
<1>3. Range(Mail) = Range(m_localBox) /\ Range(Pri) = {}
  BY <1>2, ListTypes, EmptyList
<1>4. \A x \in Inside : ~Abstract!Acceptable(x) /\ ~Abstract!Urgent(x)
  BY <1>1, <1>2, <1>3, InsideLists, SameMatches
<1> QED  BY <1>4 DEF Abstract!NothingToTake, Inside

\* Only a get with a duration can be late.
LateIsTimed == pc = "late" => timed

LEMMA LateIsTimedHolds == Spec => []LateIsTimed
<1>1. Init => LateIsTimed  BY DEF Init, LateIsTimed
<1>2. ASSUME LateIsTimed, [Next]_vars  PROVE LateIsTimed'
  <2>1. CASE UNCHANGED <<pc, timed>>
    BY <1>2, <2>1 DEF LateIsTimed
  <2>2. CASE \/ \E s \in Senders : Send(s) \/ SendWakes(s) \/ Terminate(s)
             \/ setMaxMailboxSize
             \/ \E t \in Senders \union {Receiver} : SpuriousWakeup(t)
             \/ UNCHANGED vars
    BY <2>1, <2>2 DEF Send, SendWakes, Terminate, setMaxMailboxSize, setMaxMsgs,
                      SpuriousWakeup, vars, receiver
  <2>3. CASE receive \/ receiveTimeout \/ close \/ GetTimesOut \/ TimeIsUp
    BY <2>3 DEF receive, receiveTimeout, Get, close, GetTimesOut, GetEnds,
                TimeIsUp, LateIsTimed
  <2>4. CASE GetSearch \/ GetEnter
    <3>1. pc' \in {"idle", "enter", "asleep"}
      BY <2>4 DEF GetSearch, GetEnter, GetWaits, GetArrived, Pty, ScanHit,
                  ScanMiss, GetEnds, GetGoesOn
    <3> QED  BY <3>1 DEF LateIsTimed
  <2> QED  BY <1>2, <2>2, <2>3, <2>4 DEF Next
<1> QED  BY <1>1, <1>2, PTL DEF Spec

\* Every step of MessageBox is a step of the abstract mailbox, or not seen.
LEMMA NextImplements ==
  ASSUME BasicInv, BasicInv', OrderInv, SleepInv, LateIsTimed, [Next]_vars
  PROVE  [Abstract!Next]_(Abstract!vars)
<1>0. /\ Inside = Range(Pri) \union Range(Mail)
      /\ Inside' = (Range(Pri) \union Range(Mail))'
      /\ \A x \in Inside : x \in Msgs /\ (Abstract!Urgent(x) <=> x \in Range(Pri))
  <2>1. m_localPty' \in Seq(Msgs) /\ m_sharedPty' \in Seq(Msgs)
    BY DEF BasicInv, TypeInv
  <2>2. Range(Pri') = Range(m_localPty') \union Range(m_sharedPty')
    BY <2>1, ConcatList DEF Pri
  <2> QED  BY <2>2, InsideLists DEF Inside
<1>1. ASSUME NEW s \in Senders, Send(s) \/ SendWakes(s) \/ Terminate(s)
      PROVE  [Abstract!Next]_(Abstract!vars)
  BY <1>1, SenderSteps, SenderImplements
<1>2. ASSUME UNCHANGED <<m_closed, shared, local, pc, ops, timed, received, accepted>>
      PROVE  UNCHANGED Abstract!vars
  BY <1>2 DEF Abstract!vars, shared, local, Mail
<1>3. CASE \/ setMaxMailboxSize
           \/ \E t \in Senders \union {Receiver} : SpuriousWakeup(t)
  BY <1>2, <1>3 DEF setMaxMailboxSize, setMaxMsgs, SpuriousWakeup, receiver
<1>4. CASE receive \/ receiveTimeout
  <2>1. /\ pc = "idle" /\ pc' = "search" /\ ~m_closed
        /\ UNCHANGED <<m_closed, shared, local, received, accepted>>
    BY <1>4 DEF receive, receiveTimeout, Get, BasicInv, TypeInv
  <2>2. Abstract!Call  BY <2>1 DEF Abstract!Call, shared, local, Mail
  <2> QED  BY <2>2 DEF Abstract!Next
<1>5. CASE GetSearch \/ GetEnter
  <2>1. /\ pc \in {"search", "enter", "asleep"} /\ ~m_closed
        /\ UNCHANGED <<m_closed, accepted>>
    BY <1>5 DEF GetSearch, GetEnter, BasicInv, TypeInv
  <2>2. received \in Seq(Msgs)  BY ListTypes
  <2>3. \A x \in Msgs : Append(received, x) # received
    <3>1. ASSUME NEW x \in Msgs  PROVE Append(received, x) # received
      <4>1. Len(Append(received, x)) = Len(received) + 1 /\ Len(received) \in Nat
        BY <2>2, AppendProperties, LenProperties
      <4> QED  BY <4>1
    <3> QED  BY <3>1
  <2>4. TookNothing \/ \E m \in Msgs : TookPri(m) \/ TookMail(m)
    BY <1>5, GetSearchTakes, GetEnterTakes
  <2>5. CASE \E m \in Msgs : TookPri(m) \/ TookMail(m)
    <3>1. PICK m \in Msgs : TookPri(m) \/ TookMail(m)  BY <2>5
    <3>2. received' # received  BY <3>1, <2>3 DEF TookPri, TookMail
    <3>3. GetEnds  BY <3>2, <1>5, GetEndings
    <3> QED  BY <3>1, <3>3, <2>1, <1>0, TakingImplements
  <2>6. CASE TookNothing
    <3>1. UNCHANGED <<received, Inside>>  BY <2>6, <1>0 DEF TookNothing
    <3>2. CASE UNCHANGED <<received, ops, timed>> /\ pc' \in {"enter", "asleep"}
      BY <3>1, <3>2, <2>1 DEF Abstract!vars, Inside
    <3>3. CASE GetEnds /\ Pri # <<>>
      <4>1. PICK x : x \in Range(Pri)
        <5>1. Pri \in Seq(Msgs)  BY ListTypes
        <5>2. 1 \in DOMAIN Pri  BY <5>1, <3>3
        <5> QED  BY <5>2 DEF Range
      <4>2. Abstract!Throw
        BY <4>1, <3>1, <3>3, <2>1, <1>0 DEF Abstract!Throw, Abstract!Return, GetEnds, Inside
      <4> QED  BY <4>2 DEF Abstract!Next
    <3>4. CASE GetEnds /\ timed /\ pc = "enter" /\ NothingShared
      <4>1. Abstract!NothingToTake  BY <3>4, NothingForIt
      <4>2. Abstract!TimeOut
        BY <4>1, <3>1, <3>4, <2>1 DEF Abstract!TimeOut, Abstract!Return, GetEnds, Inside
      <4> QED  BY <4>2 DEF Abstract!Next
    <3> QED  BY <3>1, <3>2, <3>3, <3>4, <2>3, <1>5, GetEndings
  <2> QED  BY <2>4, <2>5, <2>6
<1>6. CASE TimeIsUp
  <2>1. /\ pc = "asleep" /\ pc' = "late" /\ timed /\ NothingShared
        /\ UNCHANGED <<m_closed, shared, local, ops, timed, accepted, received>>
    BY <1>6 DEF TimeIsUp, SleepInv
  <2>2. UNCHANGED Inside  BY <2>1 DEF Inside, shared, local, Mail
  <2>3. Abstract!NothingToTake  BY <2>1, NothingForIt
  <2>4. Abstract!TimeUp
    BY <2>1, <2>2, <2>3 DEF Abstract!TimeUp, Inside
  <2> QED  BY <2>4 DEF Abstract!Next
<1>9. CASE GetTimesOut
  <2>1. /\ pc = "late" /\ timed /\ GetEnds
        /\ UNCHANGED <<m_closed, shared, local, accepted, received>>
    BY <1>9 DEF GetTimesOut, LateIsTimed
  <2>2. UNCHANGED Inside  BY <2>1 DEF Inside, shared, local, Mail
  <2>3. Abstract!TimeOut
    BY <2>1, <2>2 DEF Abstract!TimeOut, Abstract!Return, GetEnds, Inside
  <2> QED  BY <2>3 DEF Abstract!Next
<1>7. CASE close
  <2>1. /\ pc = "idle" /\ pc' = "closed" /\ m_closed' = TRUE /\ ~m_closed
        /\ m_sharedBox' = <<>> /\ m_localBox' = <<>>
        /\ UNCHANGED <<m_sharedPty, m_localPty, ops, timed, received, accepted>>
    BY <1>7 DEF close, BasicInv, TypeInv
  <2>2. Range(Mail') = {}
    BY <2>1, ConcatEmptySeq, EmptySeq, EmptyList DEF Mail
  <2>3. Inside' \in SUBSET Inside  BY <2>1, <2>2 DEF Inside
  <2>4. Abstract!Close  BY <2>1, <2>3 DEF Abstract!Close, Abstract!call, Inside
  <2> QED  BY <2>4 DEF Abstract!Next
<1>8. CASE UNCHANGED vars
  BY <1>2, <1>8 DEF vars, receiver
<1> QED  BY <1>1, <1>3, <1>4, <1>5, <1>6, <1>7, <1>8, <1>9 DEF Next

\* For any number of senders, messages, kinds and limits, MessageBox is a
\* mailbox: each receive takes the oldest message it accepts, the deaths of
\* watched threads included, but for a priority message, which may go ahead and
\* is never passed over for a younger one; and it ends without a message only
\* by an exception over a priority message, or when nothing was there for it
\* while it had time.
THEOREM BoxImplementsMailbox == Spec => ImplementsMailbox
<1>1. Init => Abstract!Init
  <2> SUFFICES ASSUME Init  PROVE Abstract!Init
    OBVIOUS
  <2>1. <<>> \o <<>> = <<>>
    <3>1. <<>> \in Seq({})  BY EmptySeq
    <3> QED  BY <3>1, ConcatEmptySeq
  <2>2. Mail = <<>>  BY <2>1 DEF Init, Mail
  <2> QED  BY <2>2, EmptyList DEF Init, Abstract!Init
<1>2. BasicInv /\ BasicInv' /\ OrderInv /\ SleepInv /\ LateIsTimed
        /\ [Next]_vars => [Abstract!Next]_(Abstract!vars)
  BY NextImplements
<1> QED
  BY <1>1, <1>2, BasicInvHolds, OrderInvHolds, SleepInvHolds,
     LateIsTimedHolds, PTL DEF Spec, ImplementsMailbox, Abstract!Spec
=============================================================================
