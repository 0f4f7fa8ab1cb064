----------------------------- MODULE ListProofs -----------------------------
(***************************************************************************)
(* What the operations of Lists do to the elements of a list.              *)
(***************************************************************************)
EXTENDS Lists, SequenceTheorems, FiniteSetTheorems, TLAPS

\* A set of naturals that is not empty has a least element.
LEMMA LeastNatural ==
  ASSUME NEW T, T \subseteq Nat, T # {}
  PROVE  \E x \in T : \A y \in T : x <= y
<1> DEFINE upTo == {0 .. n : n \in T}
           R == StrictSubsetOrdering(Nat)
<1>1. upTo \subseteq FiniteSubsetsOf(Nat) /\ upTo # {}
  <2>1. \A n \in T : 0 .. n \subseteq Nat /\ IsFiniteSet(0 .. n)
    BY FS_Interval
  <2> QED
    BY <2>1 DEF FiniteSubsetsOf
<1>2. PICK X \in upTo : \A Y \in upTo : ~ (<<Y, X>> \in R)
  <2> HIDE DEF upTo
  <2> QED
    BY <1>1, FS_StrictSubsetOrderingWellFounded, WFMin
<1>3. PICK x \in T : X = 0 .. x
  OBVIOUS
<1>4. ASSUME NEW y \in T, y < x
      PROVE  FALSE
  <2>1. 0 .. y \in upTo /\ 0 .. y \subseteq Nat /\ 0 .. x \subseteq Nat
    OBVIOUS
  <2>2. 0 .. y \subseteq 0 .. x
    BY <1>4
  <2>3. x \in 0 .. x /\ x \notin 0 .. y
    BY <1>4
  <2>4. <<0 .. y, X>> \in R
    BY <1>3, <2>1, <2>2, <2>3 DEF StrictSubsetOrdering
  <2> QED
    BY <1>2, <2>1, <2>4
<1> QED
  BY <1>4

\* RemoveAt: what a list holds once the element at one position is removed.
LEMMA RemoveAtElements ==
  ASSUME NEW S, NEW q \in Seq(S), NEW i \in 1 .. Len(q)
  PROVE  /\ RemoveAt(q, i) \in Seq(S)
         /\ Len(RemoveAt(q, i)) = Len(q) - 1
         /\ \A j \in 1 .. Len(q) - 1 :
              RemoveAt(q, i)[j] = IF j < i THEN q[j] ELSE q[j + 1]
<1> DEFINE a == SubSeq(q, 1, i - 1)
           b == SubSeq(q, i + 1, Len(q))
<1>1. /\ a \in Seq(S) /\ Len(a) = i - 1
      /\ \A j \in 1 .. i - 1 : a[j] = q[j]
  OBVIOUS
<1>2. /\ b \in Seq(S) /\ Len(b) = Len(q) - i
      /\ \A j \in 1 .. Len(q) - i : b[j] = q[i + j]
  OBVIOUS
<1> HIDE DEF a, b
<1>3. /\ a \o b \in Seq(S)
      /\ Len(a \o b) = Len(a) + Len(b)
      /\ \A j \in 1 .. Len(a) + Len(b) :
           (a \o b)[j] = IF j <= Len(a) THEN a[j] ELSE b[j - Len(a)]
  BY <1>1, <1>2, ConcatProperties
<1>4. RemoveAt(q, i) = a \o b
  BY DEF RemoveAt, a, b
<1>5. ASSUME NEW j \in 1 .. Len(q) - 1
      PROVE  (a \o b)[j] = IF j < i THEN q[j] ELSE q[j + 1]
  <2>1. CASE j < i
    BY <1>1, <1>2, <1>3, <2>1
  <2>2. CASE ~(j < i)
    <3>1. (a \o b)[j] = b[j - (i - 1)]
      BY <1>1, <1>2, <1>3, <2>2
    <3>2. j - (i - 1) \in 1 .. Len(q) - i /\ i + (j - (i - 1)) = j + 1
      BY <2>2
    <3> QED
      BY <1>2, <2>2, <3>1, <3>2
  <2> QED
    BY <2>1, <2>2
<1>6. Len(a \o b) = Len(q) - 1
  BY <1>1, <1>2, <1>3
<1> QED
  BY <1>3, <1>4, <1>5, <1>6

\* InsertAt: what a list holds once an element is inserted at a position.
LEMMA InsertAtElements ==
  ASSUME NEW S, NEW q \in Seq(S), NEW i \in 1 .. Len(q), NEW t \in S
  PROVE  /\ InsertAt(q, i, t) \in Seq(S)
         /\ Len(InsertAt(q, i, t)) = Len(q) + 1
         /\ \A j \in 1 .. Len(q) + 1 :
              InsertAt(q, i, t)[j] =
                IF j < i THEN q[j] ELSE IF j = i THEN t ELSE q[j - 1]
<1> DEFINE a == SubSeq(q, 1, i - 1) \o <<t>>
           b == SubSeq(q, i, Len(q))
<1>1. /\ a \in Seq(S) /\ Len(a) = i /\ a[i] = t
      /\ \A j \in 1 .. i - 1 : a[j] = q[j]
  <2> DEFINE c == SubSeq(q, 1, i - 1)
  <2>1. /\ c \in Seq(S) /\ Len(c) = i - 1
        /\ \A j \in 1 .. i - 1 : c[j] = q[j]
    OBVIOUS
  <2>2. <<t>> \in Seq(S) /\ Len(<<t>>) = 1 /\ <<t>>[1] = t
    OBVIOUS
  <2> HIDE DEF c
  <2>3. /\ c \o <<t>> \in Seq(S)
        /\ Len(c \o <<t>>) = Len(c) + Len(<<t>>)
        /\ \A j \in 1 .. Len(c) + Len(<<t>>) :
             (c \o <<t>>)[j] = IF j <= Len(c) THEN c[j] ELSE <<t>>[j - Len(c)]
    BY <2>1, <2>2, ConcatProperties
  <2>4. a = c \o <<t>>
    BY DEF c
  <2> HIDE DEF a
  <2> QED
    BY <2>1, <2>2, <2>3, <2>4
<1>2. /\ b \in Seq(S) /\ Len(b) = Len(q) - i + 1
      /\ \A j \in 1 .. Len(q) - i + 1 : b[j] = q[i + j - 1]
  OBVIOUS
<1>3. InsertAt(q, i, t) = a \o b
  BY DEF InsertAt
<1> HIDE DEF a, b
<1>4. /\ a \o b \in Seq(S)
      /\ Len(a \o b) = Len(a) + Len(b)
      /\ \A j \in 1 .. Len(a) + Len(b) :
           (a \o b)[j] = IF j <= Len(a) THEN a[j] ELSE b[j - Len(a)]
  BY <1>1, <1>2, ConcatProperties
<1>5. ASSUME NEW j \in 1 .. Len(q) + 1
      PROVE  (a \o b)[j] = IF j < i THEN q[j] ELSE IF j = i THEN t ELSE q[j - 1]
  <2>1. CASE j <= i
    BY <1>1, <1>2, <1>4, <2>1
  <2>2. CASE ~(j <= i)
    <3>1. (a \o b)[j] = b[j - i]
      BY <1>1, <1>2, <1>4, <2>2
    <3>2. j - i \in 1 .. Len(q) - i + 1 /\ i + (j - i) - 1 = j - 1
      BY <2>2
    <3>3. b[j - i] = q[j - 1]
      BY <1>2, <3>2
    <3> QED
      BY <2>2, <3>1, <3>3
  <2> QED
    BY <2>1, <2>2
<1> QED
  BY <1>1, <1>2, <1>3, <1>4, <1>5

\* Unlink keeps every element but the one removed, once each.
LEMMA UnlinkElements ==
  ASSUME NEW S, NEW q \in Seq(S), NEW t
  PROVE  /\ Unlink(q, t) \in Seq(S)
         /\ ~Contains(q, t) => Unlink(q, t) = q
         /\ IsInjective(q) =>
              /\ IsInjective(Unlink(q, t))
              /\ \A u : Contains(Unlink(q, t), u) <=> Contains(q, u) /\ u # t
<1>1. CASE ~Contains(q, t)
  BY <1>1 DEF Unlink, Contains
<1>2. CASE Contains(q, t)
  <2> DEFINE i == CHOOSE j \in 1 .. Len(q) : q[j] = t
             r == RemoveAt(q, i)
  <2>1. i \in 1 .. Len(q) /\ q[i] = t
    BY <1>2 DEF Contains
  <2>2. Unlink(q, t) = r
    BY <1>2 DEF Unlink
  <2> HIDE DEF i
  <2>3. /\ r \in Seq(S)
        /\ Len(r) = Len(q) - 1
        /\ \A j \in 1 .. Len(q) - 1 : r[j] = IF j < i THEN q[j] ELSE q[j + 1]
    BY <2>1, RemoveAtElements
  <2> HIDE DEF r
  <2>4. ASSUME IsInjective(q)
        PROVE  IsInjective(r)
    <3>1. DOMAIN r = 1 .. Len(q) - 1 /\ DOMAIN q = 1 .. Len(q)
      BY <2>3
    <3> SUFFICES ASSUME NEW m \in 1 .. Len(q) - 1, NEW n \in 1 .. Len(q) - 1,
                        r[m] = r[n]
                 PROVE  m = n
      BY <3>1 DEF IsInjective
    <3> DEFINE at(j) == IF j < i THEN j ELSE j + 1
    <3>2. \A j \in 1 .. Len(q) - 1 : at(j) \in 1 .. Len(q) /\ r[j] = q[at(j)]
      BY <2>1, <2>3
    <3>3. at(m) = at(n)
      <4> HIDE DEF at
      <4> QED
        BY <2>4, <3>1, <3>2 DEF IsInjective
    <3> QED
      BY <2>1, <3>3
  <2>5. ASSUME IsInjective(q), NEW u
        PROVE  Contains(r, u) <=> Contains(q, u) /\ u # t
    <3>1. DOMAIN q = 1 .. Len(q)
      OBVIOUS
    <3>2. ASSUME NEW j \in 1 .. Len(r), r[j] = u
          PROVE  Contains(q, u) /\ u # t
      <4>1. j \in 1 .. Len(q) - 1 /\ r[j] = IF j < i THEN q[j] ELSE q[j + 1]
        BY <2>3, <3>2
      <4>2. \E m \in 1 .. Len(q) : m # i /\ q[m] = r[j]
        <5>1. CASE j < i
          <6>1. j \in 1 .. Len(q) /\ j # i
            BY <2>1, <4>1, <5>1
          <6> QED
            BY <4>1, <5>1, <6>1
        <5>2. CASE ~(j < i)
          <6>1. j + 1 \in 1 .. Len(q) /\ j + 1 # i
            BY <2>1, <4>1, <5>2
          <6> QED
            BY <4>1, <5>2, <6>1
        <5> QED
          BY <5>1, <5>2
      <4>3. PICK m \in 1 .. Len(q) : m # i /\ q[m] = r[j]
        BY <4>2
      <4> QED
        BY <2>1, <2>5, <3>1, <3>2, <4>3 DEF Contains, IsInjective
    <3>3. ASSUME NEW m \in 1 .. Len(q), q[m] = u, u # t
          PROVE  Contains(r, u)
      <4>1. m # i
        BY <2>1, <3>3
      <4>2. CASE m < i
        <5>1. m \in 1 .. Len(r) /\ r[m] = u
          BY <2>1, <2>3, <3>3, <4>2
        <5> QED
          BY <5>1 DEF Contains
      <4>3. CASE m > i
        <5>1. m - 1 \in 1 .. Len(r) /\ r[m - 1] = u
          BY <2>1, <2>3, <3>3, <4>3
        <5> QED
          BY <5>1 DEF Contains
      <4> QED
        BY <2>1, <4>1, <4>2, <4>3
    <3> QED
      BY <3>2, <3>3 DEF Contains
  <2> QED
    BY <1>2, <2>2, <2>3, <2>4, <2>5
<1> QED
  BY <1>1, <1>2

\* Append and <<t>> \o q add one element.
LEMMA AddElements ==
  ASSUME NEW S, NEW q \in Seq(S), NEW t \in S, NEW r,
         r = Append(q, t) \/ r = <<t>> \o q
  PROVE  /\ r \in Seq(S) /\ r # <<>>
         /\ \A u : Contains(r, u) <=> Contains(q, u) \/ u = t
         /\ IsInjective(q) /\ ~Contains(q, t) => IsInjective(r)
<1>1. CASE r = Append(q, t)
  <2>1. /\ r \in Seq(S) /\ r # <<>> /\ Len(r) = Len(q) + 1
        /\ \A i \in 1 .. Len(q) : r[i] = q[i]
        /\ r[Len(q) + 1] = t
    BY <1>1, AppendProperties
  <2>2. DOMAIN r = 1 .. Len(q) + 1 /\ DOMAIN q = 1 .. Len(q)
    BY <2>1
  <2>3. \A u : Contains(r, u) <=> Contains(q, u) \/ u = t
    BY <2>1 DEF Contains
  <2>4. IsInjective(q) /\ ~Contains(q, t) => IsInjective(r)
    BY <2>1, <2>2 DEF Contains, IsInjective
  <2> QED
    BY <2>1, <2>3, <2>4
<1>2. CASE r = <<t>> \o q
  <2>1. <<t>> \in Seq(S) /\ Len(<<t>>) = 1 /\ <<t>>[1] = t
    OBVIOUS
  <2>2. /\ r \in Seq(S) /\ Len(r) = Len(q) + 1
        /\ r[1] = t
        /\ \A i \in 1 .. Len(q) : r[i + 1] = q[i]
    BY <1>2, <2>1, ConcatProperties
  <2>3. DOMAIN r = 1 .. Len(q) + 1 /\ DOMAIN q = 1 .. Len(q) /\ r # <<>>
    BY <2>2
  <2>4. \A i \in 2 .. Len(q) + 1 : i - 1 \in 1 .. Len(q) /\ r[i] = q[i - 1]
    <3> SUFFICES ASSUME NEW i \in 2 .. Len(q) + 1
                 PROVE  i - 1 \in 1 .. Len(q) /\ r[i] = q[i - 1]
      OBVIOUS
    <3>1. i - 1 \in 1 .. Len(q) /\ (i - 1) + 1 = i
      OBVIOUS
    <3> QED
      BY <2>2, <3>1
  <2>5. ASSUME NEW u
        PROVE  Contains(r, u) <=> Contains(q, u) \/ u = t
    <3>1. ASSUME NEW i \in 1 .. Len(r), r[i] = u
          PROVE  Contains(q, u) \/ u = t
      <4>1. i = 1 \/ i \in 2 .. Len(q) + 1
        BY <2>2
      <4> QED
        BY <2>2, <2>4, <3>1, <4>1 DEF Contains
    <3>2. ASSUME NEW i \in 1 .. Len(q), q[i] = u
          PROVE  Contains(r, u)
      <4>1. i + 1 \in 1 .. Len(r) /\ r[i + 1] = u
        BY <2>2, <3>2
      <4> QED
        BY <4>1 DEF Contains
    <3>3. Contains(r, t)
      <4>1. 1 \in 1 .. Len(r)
        BY <2>2
      <4> QED
        BY <2>2, <4>1 DEF Contains
    <3> QED
      BY <3>1, <3>2, <3>3 DEF Contains
  <2>6. ASSUME IsInjective(q), ~Contains(q, t)
        PROVE  IsInjective(r)
    <3> SUFFICES ASSUME NEW i \in 1 .. Len(q) + 1, NEW j \in 1 .. Len(q) + 1,
                        r[i] = r[j]
                 PROVE  i = j
      BY <2>3 DEF IsInjective
    <3>1. (i = 1 \/ i \in 2 .. Len(q) + 1) /\ (j = 1 \/ j \in 2 .. Len(q) + 1)
      OBVIOUS
    <3>2. \A m \in 2 .. Len(q) + 1 : r[m] # t
      BY <2>4, <2>6 DEF Contains
    <3>3. CASE i = 1 \/ j = 1
      BY <2>2, <3>1, <3>2, <3>3
    <3>4. CASE i \in 2 .. Len(q) + 1 /\ j \in 2 .. Len(q) + 1
      <4>1. i - 1 \in DOMAIN q /\ j - 1 \in DOMAIN q /\ q[i - 1] = q[j - 1]
        BY <2>3, <2>4, <3>4
      <4>2. i - 1 = j - 1
        BY <2>6, <4>1 DEF IsInjective
      <4> QED
        BY <4>2
    <3> QED
      BY <3>1, <3>3, <3>4
  <2> QED
    BY <2>2, <2>3, <2>5, <2>6
<1> QED
  BY <1>1, <1>2

\* FirstLater is the position it is described to be.
LEMMA FirstLaterPosition ==
  ASSUME NEW q, Len(q) \in Nat, NEW t, NEW key,
         \E i \in 1 .. Len(q) : key[t] < key[q[i]]
  PROVE  /\ FirstLater(q, t, key) \in 1 .. Len(q)
         /\ key[t] < key[q[FirstLater(q, t, key)]]
         /\ \A j \in 1 .. FirstLater(q, t, key) - 1 : ~(key[t] < key[q[j]])
<1> DEFINE later == {i \in 1 .. Len(q) : key[t] < key[q[i]]}
<1>1. later \subseteq Nat /\ later # {}
  OBVIOUS
<1>2. PICK i \in later : \A j \in later : i <= j
  BY <1>1, LeastNatural
<1>3. /\ i \in 1 .. Len(q)
      /\ key[t] < key[q[i]] /\ \A j \in 1 .. i - 1 : ~(key[t] < key[q[j]])
  BY <1>2
<1> QED
  BY <1>3 DEF FirstLater

\* The same of a sequence with a name.
LEMMA Inserted ==
  ASSUME NEW S, NEW q \in Seq(S), NEW i \in 1 .. Len(q), NEW t \in S, NEW r, r = InsertAt(q, i, t)
  PROVE  /\ r \in Seq(S) /\ Len(r) = Len(q) + 1
         /\ \A j \in 1 .. Len(q) + 1 :
              r[j] = IF j < i THEN q[j] ELSE IF j = i THEN t ELSE q[j - 1]
BY InsertAtElements

\* InsertAt adds one element.
LEMMA InsertElements ==
  ASSUME NEW S, NEW q \in Seq(S), NEW i \in 1 .. Len(q), NEW t \in S
  PROVE  /\ InsertAt(q, i, t) \in Seq(S)
         /\ \A u : Contains(InsertAt(q, i, t), u) <=> Contains(q, u) \/ u = t
         /\ IsInjective(q) /\ ~Contains(q, t) => IsInjective(InsertAt(q, i, t))
<1> DEFINE r == InsertAt(q, i, t)
           at(j) == IF j < i THEN j ELSE j - 1
<1>1. /\ r \in Seq(S) /\ Len(r) = Len(q) + 1
      /\ \A j \in 1 .. Len(q) + 1 :
           r[j] = IF j < i THEN q[j] ELSE IF j = i THEN t ELSE q[j - 1]
  BY InsertAtElements
<1> HIDE DEF r
<1>2. \A j \in 1 .. Len(q) + 1 : j # i => at(j) \in 1 .. Len(q) /\ r[j] = q[at(j)]
  BY <1>1
<1>3. r[i] = t
  BY <1>1
<1>4. ASSUME NEW u, Contains(r, u)
      PROVE  Contains(q, u) \/ u = t
  <2>1. PICK j \in 1 .. Len(q) + 1 : r[j] = u
    BY <1>1, <1>4 DEF Contains
  <2> HIDE DEF at
  <2> QED
    BY <1>2, <1>3, <2>1 DEF Contains
<1>5. ASSUME NEW u, Contains(q, u) \/ u = t
      PROVE  Contains(r, u)
  <2>1. CASE u = t
    BY <1>1, <1>3, <2>1 DEF Contains
  <2>2. CASE Contains(q, u)
    <3>1. PICK j \in 1 .. Len(q) : q[j] = u
      BY <2>2 DEF Contains
    <3>2. CASE j < i
      <4>1. j \in 1 .. Len(r) /\ r[j] = u
        BY <1>1, <3>1, <3>2
      <4> QED
        BY <4>1 DEF Contains
    <3>3. CASE ~(j < i)
      <4>1. j + 1 \in 1 .. Len(r) /\ r[j + 1] = u
        BY <1>1, <3>1, <3>3
      <4> QED
        BY <4>1 DEF Contains
    <3> QED
      BY <3>2, <3>3
  <2> QED
    BY <1>5, <2>1, <2>2
<1>6. ASSUME IsInjective(q), ~Contains(q, t)
      PROVE  IsInjective(r)
  <2>1. DOMAIN r = 1 .. Len(q) + 1 /\ DOMAIN q = 1 .. Len(q)
    BY <1>1
  <2> SUFFICES ASSUME NEW m \in 1 .. Len(q) + 1, NEW n \in 1 .. Len(q) + 1, r[m] = r[n]
               PROVE  m = n
    BY <2>1 DEF IsInjective
  <2>2. \A j \in 1 .. Len(q) + 1 : j # i => r[j] # t
    <3> HIDE DEF at
    <3> QED
      BY <1>2, <1>6 DEF Contains
  <2>3. CASE m = i \/ n = i
    BY <1>3, <2>2, <2>3
  <2>4. CASE m # i /\ n # i
    <3>1. at(m) = at(n)
      <4> HIDE DEF at
      <4> QED
        BY <1>2, <1>6, <2>1, <2>4 DEF IsInjective
    <3> QED
      BY <2>4, <3>1
  <2> QED
    BY <2>3, <2>4
<1> QED
  BY <1>1, <1>4, <1>5, <1>6 DEF r

\* InsertSorted adds one element.
LEMMA InsertSortedElements ==
  ASSUME NEW S, NEW q \in Seq(S), NEW t \in S, NEW key
  PROVE  /\ InsertSorted(q, t, key) \in Seq(S)
         /\ \A u : Contains(InsertSorted(q, t, key), u) <=> Contains(q, u) \/ u = t
         /\ IsInjective(q) /\ ~Contains(q, t) => IsInjective(InsertSorted(q, t, key))
<1>1. Len(q) \in Nat
  OBVIOUS
<1>2. CASE \E i \in 1 .. Len(q) : key[t] < key[q[i]]
  <2> DEFINE f == FirstLater(q, t, key)
  <2>1. f \in 1 .. Len(q)
    BY <1>1, <1>2, FirstLaterPosition
  <2>2. InsertSorted(q, t, key) = InsertAt(q, f, t)
    BY <1>2 DEF InsertSorted
  <2> HIDE DEF f
  <2> QED
    BY <2>1, <2>2, InsertElements
<1>3. CASE ~ \E i \in 1 .. Len(q) : key[t] < key[q[i]]
  <2> DEFINE r == Append(q, t)
  <2>1. InsertSorted(q, t, key) = r
    BY <1>3 DEF InsertSorted
  <2>2. r = Append(q, t) \/ r = <<t>> \o q
    OBVIOUS
  <2> HIDE DEF r
  <2> QED
    BY <2>1, <2>2, AddElements
<1> QED
  BY <1>2, <1>3

\* Unlink adds nothing.
LEMMA UnlinkSubset ==
  ASSUME NEW S, NEW q \in Seq(S), NEW t, NEW u, Contains(Unlink(q, t), u)
  PROVE  Contains(q, u)
<1>1. CASE ~Contains(q, t)
  BY <1>1 DEF Unlink
<1>2. CASE Contains(q, t)
  <2> DEFINE i == CHOOSE j \in 1 .. Len(q) : q[j] = t
             r == RemoveAt(q, i)
  <2>1. i \in 1 .. Len(q)
    BY <1>2 DEF Contains
  <2>2. Unlink(q, t) = r
    BY <1>2 DEF Unlink
  <2> HIDE DEF i
  <2>3. /\ Len(r) = Len(q) - 1
        /\ \A j \in 1 .. Len(q) - 1 : r[j] = IF j < i THEN q[j] ELSE q[j + 1]
    BY <2>1, RemoveAtElements
  <2> HIDE DEF r
  <2>4. PICK j \in 1 .. Len(q) - 1 : r[j] = u
    BY <2>2, <2>3 DEF Contains
  <2>5. j \in 1 .. Len(q) /\ j + 1 \in 1 .. Len(q)
    OBVIOUS
  <2> QED
    BY <2>3, <2>4, <2>5 DEF Contains
<1> QED
  BY <1>1, <1>2

\* The head of a list is not in its tail.
LEMMA TailElements ==
  ASSUME NEW S, NEW q \in Seq(S), q # <<>>, IsInjective(q)
  PROVE  /\ Tail(q) \in Seq(S) /\ Head(q) \in S /\ Contains(q, Head(q))
         /\ IsInjective(Tail(q))
         /\ \A u : Contains(Tail(q), u) <=> Contains(q, u) /\ u # Head(q)
<1> DEFINE r == Tail(q)
<1>1. /\ r \in Seq(S) /\ Len(r) = Len(q) - 1 /\ Head(q) = q[1] /\ Head(q) \in S
      /\ \A j \in 1 .. Len(q) - 1 : r[j] = q[j + 1]
      /\ 1 \in 1 .. Len(q)
  BY HeadTailProperties, EmptySeq
<1> HIDE DEF r
<1>2. DOMAIN q = 1 .. Len(q) /\ DOMAIN r = 1 .. Len(q) - 1
  BY <1>1
<1>3. \A j \in 1 .. Len(q) - 1 : j + 1 \in 1 .. Len(q) /\ j + 1 # 1
  OBVIOUS
<1>4. IsInjective(r)
  <2> SUFFICES ASSUME NEW m \in 1 .. Len(q) - 1, NEW n \in 1 .. Len(q) - 1, r[m] = r[n]
               PROVE  m = n
    BY <1>2 DEF IsInjective
  <2>1. /\ m + 1 \in DOMAIN q /\ n + 1 \in DOMAIN q
        /\ q[m + 1] = q[n + 1]
    BY <1>1, <1>2, <1>3
  <2>2. m + 1 = n + 1
    BY <2>1 DEF IsInjective
  <2> QED
    BY <2>2
<1>5. ASSUME NEW u, Contains(r, u)
      PROVE  Contains(q, u) /\ u # Head(q)
  <2>1. PICK j \in 1 .. Len(q) - 1 : r[j] = u
    BY <1>1, <1>5 DEF Contains
  <2> QED
    BY <1>1, <1>2, <1>3, <2>1 DEF Contains, IsInjective
<1>6. ASSUME NEW u, Contains(q, u), u # Head(q)
      PROVE  Contains(r, u)
  <2>1. PICK j \in 1 .. Len(q) : q[j] = u
    BY <1>6 DEF Contains
  <2>2. j # 1
    BY <1>1, <1>6, <2>1
  <2>3. j - 1 \in 1 .. Len(r) /\ r[j - 1] = u
    BY <1>1, <2>1, <2>2
  <2> QED
    BY <2>3 DEF Contains
<1>7. Contains(q, Head(q))
  BY <1>1 DEF Contains
<1> QED
  BY <1>1, <1>4, <1>5, <1>6, <1>7 DEF r
\* A list in the order of a key.
InOrder(q, key) == \A i, j \in DOMAIN q : i < j => key[q[i]] <= key[q[j]]

\* An element that leaves a list in order leaves it in order.
LEMMA UnlinkInOrder ==
  ASSUME NEW S, NEW q \in Seq(S), NEW t, NEW key, InOrder(q, key)
  PROVE  InOrder(Unlink(q, t), key)
<1>1. CASE ~Contains(q, t)
  BY <1>1, UnlinkElements
<1>2. CASE Contains(q, t)
  <2> DEFINE i == CHOOSE j \in 1 .. Len(q) : q[j] = t
             r == RemoveAt(q, i)
             at(j) == IF j < i THEN j ELSE j + 1
  <2>1. i \in 1 .. Len(q)
    BY <1>2 DEF Contains
  <2>2. Unlink(q, t) = r
    BY <1>2 DEF Unlink
  <2> HIDE DEF i
  <2>3. /\ r \in Seq(S) /\ Len(r) = Len(q) - 1
        /\ \A j \in 1 .. Len(q) - 1 : r[j] = IF j < i THEN q[j] ELSE q[j + 1]
    BY <2>1, RemoveAtElements
  <2> HIDE DEF r
  <2>4. DOMAIN r = 1 .. Len(q) - 1 /\ DOMAIN q = 1 .. Len(q)
    BY <2>3
  <2>5. \A j \in 1 .. Len(q) - 1 : at(j) \in 1 .. Len(q) /\ r[j] = q[at(j)]
    BY <2>1, <2>3
  <2>6. \A m, n \in 1 .. Len(q) - 1 : m < n => at(m) < at(n)
    BY <2>1
  <2> HIDE DEF at
  <2> QED
    BY <2>2, <2>4, <2>5, <2>6 DEF InOrder
<1> QED
  BY <1>1, <1>2

\* InsertSorted finds the place of the new element.
LEMMA InsertSortedInOrder ==
  ASSUME NEW S, NEW q \in Seq(S), NEW t \in S, NEW key, \A x \in S : key[x] \in Int, InOrder(q, key)
  PROVE  InOrder(InsertSorted(q, t, key), key)
<1>1. Len(q) \in Nat /\ DOMAIN q = 1 .. Len(q) /\ key[t] \in Int
      /\ \A i \in 1 .. Len(q) : q[i] \in S /\ key[q[i]] \in Int
  OBVIOUS
<1>2. CASE \E i \in 1 .. Len(q) : key[t] < key[q[i]]
  <2> DEFINE f == FirstLater(q, t, key)
             r == InsertAt(q, f, t)
             at(j) == IF j < f THEN j ELSE j - 1
  <2>1. /\ f \in 1 .. Len(q) /\ key[t] < key[q[f]]
        /\ \A j \in 1 .. f - 1 : ~(key[t] < key[q[j]])
    BY <1>1, <1>2, FirstLaterPosition
  <2>2. InsertSorted(q, t, key) = r
    BY <1>2 DEF InsertSorted
  <2> HIDE DEF f
  <2>3. /\ r \in Seq(S) /\ Len(r) = Len(q) + 1
        /\ \A j \in 1 .. Len(q) + 1 :
             r[j] = IF j < f THEN q[j] ELSE IF j = f THEN t ELSE q[j - 1]
    <3>1. PICK i \in 1 .. Len(q) : i = f
      BY <2>1
    <3>2. PICK w : w = InsertAt(q, i, t)
      OBVIOUS
    <3>3. /\ w \in Seq(S) /\ Len(w) = Len(q) + 1
          /\ \A j \in 1 .. Len(q) + 1 :
               w[j] = IF j < i THEN q[j] ELSE IF j = i THEN t ELSE q[j - 1]
      BY <3>2, Inserted
    <3> QED
      BY <3>1, <3>2, <3>3
  <2> HIDE DEF r
  <2>4. DOMAIN r = 1 .. Len(q) + 1
    BY <2>3
  <2>5. \A j \in 1 .. Len(q) + 1 : j # f => at(j) \in 1 .. Len(q) /\ r[j] = q[at(j)]
    BY <2>1, <2>3
  <2>6. r[f] = t
    BY <2>1, <2>3
  <2>7. SUFFICES ASSUME NEW m \in 1 .. Len(q) + 1, NEW n \in 1 .. Len(q) + 1, m < n
                 PROVE  key[r[m]] <= key[r[n]]
    BY <2>2, <2>4 DEF InOrder
  <2>8. CASE m # f /\ n # f
    <3>1. at(m) < at(n)
      BY <2>1, <2>7, <2>8
    <3> HIDE DEF at
    <3> QED
      BY <1>1, <2>5, <2>8, <3>1 DEF InOrder
  <2>9. CASE n = f
    <3>1. m \in 1 .. f - 1 /\ r[m] = q[m]
      BY <2>1, <2>3, <2>7, <2>9
    <3>2. ~(key[t] < key[q[m]]) /\ m \in 1 .. Len(q)
      BY <2>1, <3>1
    <3> QED
      BY <1>1, <2>6, <2>9, <3>1, <3>2
  <2>10. CASE m = f
    <3>1. n - 1 \in 1 .. Len(q) /\ f <= n - 1 /\ r[n] = q[n - 1]
      <4>1. Len(q) \in Nat /\ f \in 1 .. Len(q) /\ f < n
        BY <2>1, <2>7, <2>10
      <4>2. n - 1 \in 1 .. Len(q) /\ f <= n - 1 /\ ~(n < f) /\ n # f
        BY <4>1
      <4> QED
        BY <2>3, <4>2
    <3>2. f < n - 1 => key[q[f]] <= key[q[n - 1]]
      BY <1>1, <2>1, <3>1 DEF InOrder
    <3>3. key[q[f]] <= key[q[n - 1]]
      <4>1. CASE f < n - 1
        BY <3>2, <4>1
      <4>2. CASE f = n - 1
        BY <1>1, <2>1, <3>1, <4>2
      <4> QED
        BY <2>1, <3>1, <4>1, <4>2
    <3>4. key[q[f]] \in Int /\ key[q[n - 1]] \in Int
      BY <1>1, <2>1, <3>1
    <3> QED
      BY <1>1, <2>1, <2>6, <2>10, <3>1, <3>3, <3>4
  <2> QED
    BY <2>8, <2>9, <2>10
<1>3. CASE ~ \E i \in 1 .. Len(q) : key[t] < key[q[i]]
  <2> DEFINE r == Append(q, t)
  <2>1. InsertSorted(q, t, key) = r
    BY <1>3 DEF InsertSorted
  <2>2. /\ r \in Seq(S) /\ DOMAIN r = 1 .. Len(q) + 1
        /\ \A i \in 1 .. Len(q) : r[i] = q[i]
        /\ r[Len(q) + 1] = t
    BY AppendProperties
  <2> HIDE DEF r
  <2>3. SUFFICES ASSUME NEW m \in 1 .. Len(q) + 1, NEW n \in 1 .. Len(q) + 1, m < n
                 PROVE  key[r[m]] <= key[r[n]]
    BY <2>1, <2>2 DEF InOrder
  <2>4. m \in 1 .. Len(q) /\ (n = Len(q) + 1 \/ n \in 1 .. Len(q))
    <3>1. Len(q) \in Nat /\ m < n
      BY <2>3
    <3> QED
      BY <3>1
  <2>5. CASE n = Len(q) + 1
    BY <1>1, <1>3, <2>2, <2>4, <2>5
  <2>6. CASE n \in 1 .. Len(q)
    BY <1>1, <2>2, <2>3, <2>4, <2>6 DEF InOrder
  <2> QED
    BY <2>4, <2>5, <2>6
<1> QED
  BY <1>2, <1>3

-----------------------------------------------------------------------------
(* Positions that wrap.                                                    *)

Rem(x, m) == x % m

\* A difference or a sum of two positions, or of two ticks, is at most one width away
\* from the range.
LEMMA ModOnce ==
  ASSUME NEW m \in Nat \ {0}, NEW x \in Int, -m <= x, x < 2 * m
  PROVE  Rem(x, m) = IF x < 0 THEN x + m ELSE IF x < m THEN x ELSE x - m
<1>1. CASE x < 0
  <2>1. x + m \in 0 .. m - 1 /\ x = m * (-1) + (x + m)
    BY <1>1
  <2> QED
    BY <1>1, <2>1 DEF Rem
<1>2. CASE x >= 0 /\ x < m
  BY <1>2 DEF Rem
<1>3. CASE x >= m
  <2>1. x - m \in 0 .. m - 1 /\ x = m * 1 + (x - m)
    BY <1>3
  <2> QED
    BY <1>3, <2>1 DEF Rem
<1> QED
  BY <1>1, <1>2, <1>3
=============================================================================
