---------------------------- MODULE QueueProofs -----------------------------
(***************************************************************************)
(* Proofs about the message queues of MCIpc, for any number of threads, any*)
(* number of blocks and any messages: the blocks that are linked by next,  *)
(* the invariant of a message queue, kept by every step of it, and the     *)
(* count of its blocks.  Then the theorems: mailboxes and message queues   *)
(* implement the abstract channel, a queue keeps its blocks, nobody who    *)
(* waits for either is stranded; and the waits of all five kinds of object *)
(* are sound and in order.                                                 *)
(***************************************************************************)
EXTENDS MailProofs

-----------------------------------------------------------------------------
(* Lists of blocks that are linked by their next fields.                   *)

Pool == 1 .. Capacity

\* From b on, next leads through the blocks of s to a null pointer.
Chain(next, b, s) ==
  /\ s \in Seq(Pool)
  /\ b = IF s = <<>> THEN 0 ELSE s[1]
  /\ \A i \in 1 .. Len(s) : next[s[i]] = IF i = Len(s) THEN 0 ELSE s[i + 1]

LEMMA ChainRest ==
  ASSUME NEW next, NEW b, NEW s, Chain(next, b, s), b # 0
  PROVE  s # <<>> /\ b = Head(s) /\ b \in Pool /\ Chain(next, next[b], Tail(s))
<1>1. s \in Seq(Pool) /\ s # <<>> /\ b = s[1] /\ Len(s) >= 1
  BY DEF Chain
<1>2. PICK r : r = Tail(s)
  OBVIOUS
<1>3. r \in Seq(Pool) /\ Len(r) = Len(s) - 1 /\ \A i \in 1 .. Len(r) : r[i] = s[i + 1]
  BY <1>1, <1>2, HeadTailProperties
<1>4. \A i \in 1 .. Len(r) : next[r[i]] = IF i = Len(r) THEN 0 ELSE r[i + 1]
  <2> SUFFICES ASSUME NEW i \in 1 .. Len(r)
               PROVE  next[r[i]] = IF i = Len(r) THEN 0 ELSE r[i + 1]
    OBVIOUS
  <2>1. i + 1 \in 1 .. Len(s) /\ (i + 1 = Len(s) <=> i = Len(r))
    BY <1>1, <1>3
  <2>2. next[s[i + 1]] = IF i + 1 = Len(s) THEN 0 ELSE s[(i + 1) + 1]
    BY <2>1 DEF Chain
  <2>3. i # Len(r) => i + 1 \in 1 .. Len(r) /\ r[i + 1] = s[(i + 1) + 1]
    BY <1>3
  <2> QED
    BY <1>3, <2>1, <2>2, <2>3
<1>5. next[b] = IF r = <<>> THEN 0 ELSE r[1]
  <2>1. next[s[1]] = IF 1 = Len(s) THEN 0 ELSE s[1 + 1]
    <3>1. PICK i : i = 1
      OBVIOUS
    <3>2. i \in 1 .. Len(s)
      BY <1>1, <3>1
    <3>3. next[s[i]] = IF i = Len(s) THEN 0 ELSE s[i + 1]
      BY <3>2 DEF Chain
    <3> QED
      BY <3>1, <3>3
  <2>2. r = <<>> <=> Len(r) = 0
    BY <1>3
  <2>3. Len(r) # 0 => 1 \in 1 .. Len(r) /\ r[1] = s[1 + 1]
    BY <1>3
  <2> QED
    BY <1>1, <1>3, <2>1, <2>2, <2>3
<1>6. Chain(next, next[b], r)
  BY <1>3, <1>4, <1>5 DEF Chain
<1>7. s # <<>> /\ s[1] = Head(s) /\ s[1] \in Pool
  BY <1>1
<1> QED
  BY <1>1, <1>2, <1>6, <1>7

\* A chain is kept by what does not change the fields of its blocks.
LEMMA ChainKept ==
  ASSUME NEW next, NEW b, NEW s, Chain(next, b, s), NEW next2,
         \A x \in Pool : Contains(s, x) => next2[x] = next[x]
  PROVE  Chain(next2, b, s)
<1>1. \A i \in 1 .. Len(s) : s[i] \in Pool /\ Contains(s, s[i])
  BY DEF Chain, Contains
<1> QED
  BY <1>1 DEF Chain

\* A block is linked in front, ...
LEMMA ChainFront ==
  ASSUME NEW next, NEW b, NEW s, Chain(next, b, s), NEW c \in Pool, ~Contains(s, c),
         NEW next2, next2[c] = b, \A x \in Pool \ {c} : next2[x] = next[x]
  PROVE  Chain(next2, c, <<c>> \o s)
<1>1. Chain(next2, b, s) /\ s \in Seq(Pool)
  <2>1. \A x \in Pool : Contains(s, x) => next2[x] = next[x]
    OBVIOUS
  <2>2. Chain(next2, b, s)
    BY <2>1, ChainKept
  <2> QED
    BY <2>2 DEF Chain
<1>2. PICK r : r = <<c>> \o s
  OBVIOUS
<1>3. /\ r \in Seq(Pool) /\ Len(r) = Len(s) + 1 /\ r[1] = c /\ r # <<>>
      /\ \A i \in 2 .. Len(s) + 1 : r[i] = s[i - 1]
  <2>1. <<c>> \in Seq(Pool) /\ Len(<<c>>) = 1 /\ <<c>>[1] = c
    OBVIOUS
  <2>2. /\ <<c>> \o s \in Seq(Pool) /\ Len(<<c>> \o s) = 1 + Len(s)
        /\ \A i \in 1 .. 1 + Len(s) : (<<c>> \o s)[i] = IF i <= 1 THEN <<c>>[i] ELSE s[i - 1]
    BY <1>1, <2>1, ConcatProperties
  <2> QED
    BY <1>1, <1>2, <2>1, <2>2
<1>4. next2[r[1]] = IF 1 = Len(r) THEN 0 ELSE r[1 + 1]
  <2>1. s = <<>> <=> Len(s) = 0
    BY <1>1
  <2>2. Len(s) # 0 => 1 + 1 \in 2 .. Len(s) + 1 /\ r[1 + 1] = s[1]
    BY <1>1, <1>3
  <2> QED
    BY <1>1, <1>3, <2>1, <2>2 DEF Chain
<1>5. \A i \in 2 .. Len(r) : next2[r[i]] = IF i = Len(r) THEN 0 ELSE r[i + 1]
  <2> SUFFICES ASSUME NEW i \in 2 .. Len(r)
               PROVE  next2[r[i]] = IF i = Len(r) THEN 0 ELSE r[i + 1]
    OBVIOUS
  <2>1. i - 1 \in 1 .. Len(s) /\ (i = Len(r) <=> i - 1 = Len(s)) /\ r[i] = s[i - 1]
    BY <1>1, <1>3
  <2>2. next2[s[i - 1]] = IF i - 1 = Len(s) THEN 0 ELSE s[(i - 1) + 1]
    BY <1>1, <2>1 DEF Chain
  <2>3. i # Len(r) => i + 1 \in 2 .. Len(s) + 1 /\ r[i + 1] = s[(i - 1) + 1]
    BY <1>1, <1>3
  <2> QED
    BY <2>1, <2>2, <2>3
<1>6. \A i \in 1 .. Len(r) : i = 1 \/ i \in 2 .. Len(r)
  BY <1>3
<1> QED
  BY <1>2, <1>3, <1>4, <1>5, <1>6 DEF Chain

\* ... or behind the last one.
LEMMA ChainBack ==
  ASSUME NEW next, NEW b, NEW s, Chain(next, b, s), IsInjective(s), NEW c \in Pool,
         ~Contains(s, c), NEW next2, next2[c] = 0, s # <<>> => next2[s[Len(s)]] = c,
         \A x \in Pool \ {c} : (s = <<>> \/ x # s[Len(s)]) => next2[x] = next[x]
  PROVE  Chain(next2, IF b = 0 THEN c ELSE b, Append(s, c))
<1>1. s \in Seq(Pool) /\ Len(s) \in Nat /\ (s = <<>> <=> Len(s) = 0)
      /\ \A i \in 1 .. Len(s) : s[i] \in Pool /\ s[i] # c
  BY DEF Chain, Contains
<1>2. PICK r : r = Append(s, c)
  OBVIOUS
<1>3. /\ r \in Seq(Pool) /\ Len(r) = Len(s) + 1 /\ r[Len(s) + 1] = c /\ r # <<>>
      /\ \A i \in 1 .. Len(s) : r[i] = s[i]
  BY <1>1, <1>2, AppendProperties
<1>4. ASSUME NEW i \in 1 .. Len(r)
      PROVE  next2[r[i]] = IF i = Len(r) THEN 0 ELSE r[i + 1]
  <2>1. CASE i = Len(s) + 1
    BY <1>3, <2>1
  <2>2. CASE i = Len(s)
    <3>1. i \in 1 .. Len(s) /\ s # <<>> /\ i # Len(r) /\ r[i] = s[Len(s)]
      BY <1>1, <1>3, <2>2
    <3> QED
      BY <1>3, <2>2, <3>1
  <2>3. CASE i < Len(s)
    <3>1. i \in 1 .. Len(s) /\ i + 1 \in 1 .. Len(s) /\ i # Len(r) /\ i # Len(s)
          /\ Len(s) \in 1 .. Len(s)
      BY <1>1, <1>3, <2>3
    <3>2. s[i] # s[Len(s)]
      BY <1>1, <3>1 DEF IsInjective
    <3>3. next[s[i]] = s[i + 1]
      BY <3>1 DEF Chain
    <3>4. next2[s[i]] = next[s[i]]
      BY <1>1, <3>1, <3>2
    <3> QED
      BY <1>3, <3>1, <3>3, <3>4
  <2> QED
    BY <1>1, <1>3, <2>1, <2>2, <2>3
<1>5. (IF b = 0 THEN c ELSE b) = r[1]
  <2>1. CASE s = <<>>
    BY <1>1, <1>3, <2>1 DEF Chain
  <2>2. CASE s # <<>>
    <3>1. 1 \in 1 .. Len(s) /\ b = s[1] /\ s[1] \in Pool
      BY <1>1, <2>2 DEF Chain
    <3>2. b # 0
      BY <3>1 DEF Pool
    <3> QED
      BY <1>3, <3>1, <3>2
  <2> QED
    BY <2>1, <2>2
<1> QED
  BY <1>2, <1>3, <1>4, <1>5 DEF Chain

\* An injective list of blocks is no longer than the pool, and shorter if it lacks one.
LEMMA PoolBound ==
  ASSUME NEW s \in Seq(Pool), IsInjective(s)
  PROVE  Len(s) <= Capacity /\ \A b \in Pool : ~Contains(s, b) => Len(s) < Capacity
<1>1. Capacity \in Nat \ {0} /\ Len(s) \in Nat
  BY ObjectsAssumption
<1>2. ASSUME NEW T, T \subseteq Pool, \A i \in 1 .. Len(s) : s[i] \in T
      PROVE  Len(s) <= Cardinality(T) /\ IsFiniteSet(T)
  <2>1. IsFiniteSet(T)
    <3>1. Capacity \in Int /\ 1 \in Int
      BY <1>1
    <3>2. IsFiniteSet(Pool)
      BY <3>1, FS_Interval DEF Pool
    <3> QED
      BY <1>2, <3>2, FS_Subset
  <2>2. s \in Injection(1 .. Len(s), T)
    BY <1>2 DEF Injection, IsInjective
  <2>3. Cardinality(1 .. Len(s)) <= Cardinality(T)
    BY <2>1, <2>2, FS_Injection
  <2>4. Cardinality(1 .. Len(s)) = Len(s)
    <3>1. PICK n \in Nat : n = Len(s)
      BY <1>1
    <3>2. Cardinality(1 .. n) = IF 1 > n THEN 0 ELSE n - 1 + 1
      BY FS_Interval
    <3>3. Cardinality(1 .. n) = n
      BY <3>2
    <3> QED
      BY <3>1, <3>3
  <2> QED
    BY <2>1, <2>3, <2>4
<1>3. Cardinality(Pool) = Capacity /\ IsFiniteSet(Pool)
  BY <1>1, FS_Interval DEF Pool
<1>4. Len(s) <= Capacity
  BY <1>2, <1>3
<1>5. ASSUME NEW b \in Pool, ~Contains(s, b)
      PROVE  Len(s) < Capacity
  <2>1. Pool \ {b} \subseteq Pool /\ \A i \in 1 .. Len(s) : s[i] \in Pool \ {b}
    BY <1>5 DEF Contains
  <2>2. Cardinality(Pool \ {b}) = Capacity - 1
    BY <1>3, FS_RemoveElement
  <2> QED
    BY <1>1, <1>2, <2>1, <2>2
<1> QED
  BY <1>4, <1>5

-----------------------------------------------------------------------------
(* The pool of a message queue.                                            *)

Pools ==
  [next : [Pool -> 0 .. Capacity], data : [Pool -> Values \cup {None}],
   head : 0 .. Capacity, tail : 0 .. Capacity, free : 0 .. Capacity, entry : 0 .. Capacity]

\* qs is queued, and fs is free.
Shape(m, qs, fs) ==
  /\ m \in Pools
  /\ Chain(m.next, m.head, qs) /\ Chain(m.next, m.free, fs)
  /\ m.tail = IF qs = <<>> THEN 0 ELSE qs[Len(qs)]
  /\ m.entry = Len(qs)
  /\ IsInjective(qs) /\ IsInjective(fs)
  /\ \A b \in Pool : ~(Contains(qs, b) /\ Contains(fs, b))

Links == 0 .. Capacity

\* The record m with other fields.
Repooled(m, ne, da, he, ta, fr, en) ==
  [m EXCEPT !.next = ne, !.data = da, !.head = he, !.tail = ta, !.free = fr, !.entry = en]

PoolIs(s, ne, da, he, ta, fr, en) ==
  /\ s \in Pools /\ s.next = ne /\ s.data = da /\ s.head = he /\ s.tail = ta
  /\ s.free = fr /\ s.entry = en

LEMMA RepooledRecord ==
  ASSUME NEW m \in Pools, NEW ne \in [Pool -> Links], NEW da \in [Pool -> Values \cup {None}],
         NEW he \in Links, NEW ta \in Links, NEW fr \in Links, NEW en \in Links,
         NEW s, s = Repooled(m, ne, da, he, ta, fr, en)
  PROVE  PoolIs(s, ne, da, he, ta, fr, en)
BY DEF PoolIs, Repooled, Pools, Links

LEMMA ShapeFields ==
  ASSUME NEW m, NEW qs, NEW fs, Shape(m, qs, fs)
  PROVE  /\ Capacity \in Nat \ {0} /\ m \in Pools /\ qs \in Seq(Pool) /\ fs \in Seq(Pool)
         /\ m.next \in [Pool -> 0 .. Capacity] /\ m.data \in [Pool -> Values \cup {None}]
         /\ m.head \in 0 .. Capacity /\ m.tail \in 0 .. Capacity /\ m.free \in 0 .. Capacity
         /\ m.entry \in 0 .. Capacity /\ m.entry = Len(qs)
         /\ m.head # 0 => m.head \in Pool
         /\ m.free # 0 => m.free \in Pool
         /\ m.head = 0 <=> qs = <<>>
         /\ m.free = 0 <=> fs = <<>>
         /\ \A b \in Pool : b \in 0 .. Capacity /\ b # 0
<1>1. Capacity \in Nat \ {0} /\ m \in Pools /\ qs \in Seq(Pool) /\ fs \in Seq(Pool)
      /\ m.head = (IF qs = <<>> THEN 0 ELSE qs[1]) /\ m.free = (IF fs = <<>> THEN 0 ELSE fs[1])
      /\ m.entry = Len(qs)
  BY ObjectsAssumption DEF Shape, Chain
<1>2. \A b \in Pool : b \in 0 .. Capacity /\ b # 0
  BY <1>1 DEF Pool
<1>3. (qs # <<>> => qs[1] \in Pool) /\ (fs # <<>> => fs[1] \in Pool)
  BY <1>1
<1> QED
  BY <1>1, <1>2, <1>3 DEF Pools

\* A block is taken off the free list, ...
LEMMA TakeShape ==
  ASSUME NEW m, NEW qs, NEW fs, Shape(m, qs, fs), m.free # 0,
         NEW s, s = Queue!TakeBlock(m)
  PROVE  /\ Shape(s, qs, Tail(fs)) /\ s.data = m.data
         /\ fs # <<>> /\ m.free = Head(fs) /\ m.free \in Pool /\ Contains(fs, m.free)
         /\ \A b : Contains(Tail(fs), b) <=> Contains(fs, b) /\ b # m.free
<1>1. /\ fs \in Seq(Pool) /\ IsInjective(fs) /\ m \in Pools /\ Chain(m.next, m.free, fs)
      /\ m.next \in [Pool -> 0 .. Capacity]
  BY ShapeFields DEF Shape
<1>2. PICK c, ne : c = m.free /\ ne = m.next
  OBVIOUS
<1>3. fs # <<>> /\ c = Head(fs) /\ c \in Pool /\ Chain(ne, ne[c], Tail(fs))
  BY <1>1, <1>2, ChainRest
<1>4. /\ IsInjective(Tail(fs)) /\ Contains(fs, Head(fs))
      /\ \A b : Contains(Tail(fs), b) <=> Contains(fs, b) /\ b # Head(fs)
  BY <1>1, <1>3, TailElements
<1>5. PICK f \in 0 .. Capacity : f = m.next[c]
  BY <1>1, <1>3
<1>6. s = [m EXCEPT !.free = f]
  BY <1>2, <1>5 DEF Queue!TakeBlock
<1>7. /\ s \in Pools /\ s.next = m.next /\ s.data = m.data /\ s.head = m.head /\ s.tail = m.tail
      /\ s.free = f /\ s.entry = m.entry
  BY <1>1, <1>6 DEF Pools
<1>8. Chain(s.next, s.free, Tail(fs)) /\ Chain(s.next, s.head, qs)
  BY <1>2, <1>3, <1>5, <1>7 DEF Shape
<1>9. Shape(s, qs, Tail(fs))
  BY <1>4, <1>7, <1>8 DEF Shape
<1> QED
  BY <1>2, <1>3, <1>4, <1>7, <1>9

\* ... filled, ...
LEMMA CopyShape ==
  ASSUME NEW m, NEW qs, NEW fs, Shape(m, qs, fs), NEW c \in Pool, NEW v \in Values \cup {None},
         NEW s, s = Queue!CopyIn(m, c, v)
  PROVE  /\ Shape(s, qs, fs) /\ s.data[c] = v /\ \A b \in Pool \ {c} : s.data[b] = m.data[b]
         /\ s.free = m.free
<1>1. m \in Pools /\ m.data \in [Pool -> Values \cup {None}]
  BY ShapeFields
<1>2. PICK da \in [Pool -> Values \cup {None}] : da = [m.data EXCEPT ![c] = v]
  BY <1>1
<1>3. s = [m EXCEPT !.data = da]
  BY <1>1, <1>2 DEF Queue!CopyIn, Pools
<1>4. /\ s \in Pools /\ s.next = m.next /\ s.data = da /\ s.head = m.head /\ s.tail = m.tail
      /\ s.free = m.free /\ s.entry = m.entry
  BY <1>1, <1>3 DEF Pools
<1>5. Shape(s, qs, fs)
  BY <1>4 DEF Shape
<1> QED
  BY <1>1, <1>2, <1>4, <1>5

\* ... and queued behind the others, ...
LEMMA EnqueueShape ==
  ASSUME NEW m, NEW qs, NEW fs, Shape(m, qs, fs), NEW c \in Pool,
         ~Contains(qs, c), ~Contains(fs, c), NEW s, s = Queue!Enqueue(m, c)
  PROVE  Shape(s, Append(qs, c), fs) /\ s.data = m.data /\ s.free = m.free
<1>1. /\ Capacity \in Nat \ {0} /\ m \in Pools /\ qs \in Seq(Pool) /\ fs \in Seq(Pool)
      /\ m.next \in [Pool -> 0 .. Capacity] /\ m.data \in [Pool -> Values \cup {None}]
      /\ m.head \in 0 .. Capacity /\ m.free \in 0 .. Capacity
      /\ m.entry \in 0 .. Capacity /\ m.entry = Len(qs) /\ c \in 0 .. Capacity /\ c # 0
  BY ShapeFields
<1>2. PICK ne : ne = [i \in Pool |-> IF i = c THEN 0 ELSE IF i = m.tail THEN c ELSE m.next[i]]
  OBVIOUS
<1>3. ne \in [Pool -> 0 .. Capacity]
  BY <1>1, <1>2
<1>4. PICK he \in Links : he = IF m.head = 0 THEN c ELSE m.head
  BY <1>1 DEF Links
<1>5. Len(qs) < Capacity
  BY <1>1, PoolBound DEF Shape
<1>6. PICK en \in Links : en = m.entry + 1
  BY <1>1, <1>5 DEF Links
<1>7. s = [m EXCEPT !.next = ne, !.tail = c, !.head = he, !.entry = en]
  BY <1>1, <1>2, <1>4, <1>6 DEF Queue!Enqueue, Queue!Blocks, Pool, Pools
<1>8. PICK da, fr : da = m.data /\ fr = m.free
  OBVIOUS
<1>9. s = Repooled(m, ne, da, he, c, fr, en)
  BY <1>1, <1>7, <1>8 DEF Repooled, Pools
<1>10. /\ s \in Pools /\ s.next = ne /\ s.data = da /\ s.head = he /\ s.tail = c /\ s.free = fr
       /\ s.entry = en
  <2>1. da \in [Pool -> Values \cup {None}] /\ fr \in Links
    BY <1>1, <1>8 DEF Links
  <2>2. m \in Pools /\ c \in Links /\ ne \in [Pool -> Links]
    BY <1>1, <1>3 DEF Links
  <2>3. PoolIs(s, ne, da, he, c, fr, en)
    BY <1>9, <2>1, <2>2, RepooledRecord
  <2> QED
    BY <2>3 DEF PoolIs
<1>11. PICK q : q = Append(qs, c)
  OBVIOUS
<1>12. q \in Seq(Pool) /\ q # <<>> /\ Len(q) = Len(qs) + 1 /\ q[Len(q)] = c
  <2>1. qs \in Seq(Pool) /\ c \in Pool
    BY <1>1
  <2> QED
    BY <1>11, <2>1, AppendProperties
<1>13. IsInjective(q) /\ \A b : Contains(q, b) <=> Contains(qs, b) \/ b = c
  <2>1. q = Append(qs, c) \/ q = <<c>> \o qs
    BY <1>11
  <2>2. IsInjective(qs) /\ ~Contains(qs, c)
    BY DEF Shape
  <2>3. /\ \A b : Contains(q, b) <=> Contains(qs, b) \/ b = c
        /\ IsInjective(qs) /\ ~Contains(qs, c) => IsInjective(q)
    BY <1>1, <2>1, AddElements
  <2> QED
    BY <2>2, <2>3
<1>14. Chain(ne, he, q)
  <2>1. ne[c] = 0
    BY <1>2
  <2>2. qs # <<>> => /\ qs[Len(qs)] \in Pool /\ qs[Len(qs)] # c /\ m.tail = qs[Len(qs)]
                     /\ ne[qs[Len(qs)]] = c
    <3>1. qs # <<>> => Len(qs) \in 1 .. Len(qs) /\ qs[Len(qs)] \in Pool
      BY <1>1
    <3> QED
      BY <1>2, <3>1 DEF Shape, Contains
  <2>3. \A x \in Pool \ {c} : (qs = <<>> \/ x # qs[Len(qs)]) => ne[x] = m.next[x]
    <3>1. \A x \in Pool : x # 0
      BY <1>1 DEF Pool
    <3> QED
      BY <1>2, <3>1 DEF Shape
  <2>4. PICK ol, h : ol = m.next /\ h = m.head
    OBVIOUS
  <2>5. Chain(ol, h, qs) /\ IsInjective(qs) /\ c \in Pool /\ ~Contains(qs, c) /\ ne[c] = 0
        /\ (qs # <<>> => ne[qs[Len(qs)]] = c)
    BY <2>1, <2>2, <2>4 DEF Shape
  <2>6. \A x \in Pool \ {c} : (qs = <<>> \/ x # qs[Len(qs)]) => ne[x] = ol[x]
    BY <2>3, <2>4
  <2>7. Chain(ne, IF h = 0 THEN c ELSE h, Append(qs, c))
    BY <2>5, <2>6, ChainBack
  <2> QED
    BY <1>4, <1>11, <2>4, <2>7
<1>15. Chain(ne, fr, fs)
  <2>1. PICK ol : ol = m.next
    OBVIOUS
  <2>2. \A x \in Pool : Contains(fs, x) => ne[x] = ol[x]
    <3>1. qs # <<>> => Contains(qs, qs[Len(qs)]) /\ qs[Len(qs)] \in Pool
      <4>1. qs # <<>> => Len(qs) \in 1 .. Len(qs)
        BY <1>1
      <4> QED
        BY <1>1, <4>1 DEF Contains
    <3>2. \A x \in Pool : x # 0
      BY <1>1 DEF Pool
    <3>3. \A x \in Pool : Contains(fs, x) => x # c /\ x # m.tail
      BY <3>1, <3>2 DEF Shape
    <3> QED
      BY <1>2, <2>1, <3>3
  <2>3. Chain(ol, fr, fs)
    BY <1>8, <2>1 DEF Shape
  <2> QED
    BY <2>2, <2>3, ChainKept
<1>16. Shape(s, q, fs)
  <2>1. s.entry = Len(q) /\ s.tail = q[Len(q)]
    BY <1>1, <1>6, <1>10, <1>12
  <2>2. \A b \in Pool : ~(Contains(q, b) /\ Contains(fs, b))
    BY <1>13 DEF Shape
  <2>3. Chain(s.next, s.head, q) /\ Chain(s.next, s.free, fs)
    BY <1>10, <1>14, <1>15
  <2> QED
    BY <1>10, <1>12, <1>13, <2>1, <2>2, <2>3 DEF Shape
<1> QED
  BY <1>8, <1>10, <1>11, <1>16

\* ... or in front of them.
LEMMA EnqueueFirstShape ==
  ASSUME NEW m, NEW qs, NEW fs, Shape(m, qs, fs), NEW c \in Pool,
         ~Contains(qs, c), ~Contains(fs, c), NEW s, s = Queue!EnqueueFirst(m, c)
  PROVE  Shape(s, <<c>> \o qs, fs) /\ s.data = m.data /\ s.free = m.free
<1>1. /\ Capacity \in Nat \ {0} /\ m \in Pools /\ qs \in Seq(Pool) /\ fs \in Seq(Pool)
      /\ m.next \in [Pool -> 0 .. Capacity] /\ m.data \in [Pool -> Values \cup {None}]
      /\ m.head \in 0 .. Capacity /\ m.free \in 0 .. Capacity /\ m.tail \in 0 .. Capacity
      /\ m.entry \in 0 .. Capacity /\ m.entry = Len(qs) /\ c \in 0 .. Capacity /\ c # 0
  BY ShapeFields
<1>2. PICK ne : ne = [m.next EXCEPT ![c] = m.head]
  OBVIOUS
<1>3. ne \in [Pool -> 0 .. Capacity] /\ ne[c] = m.head /\ \A x \in Pool \ {c} : ne[x] = m.next[x]
  BY <1>1, <1>2
<1>4. PICK ta \in Links : ta = IF m.tail = 0 THEN c ELSE m.tail
  BY <1>1 DEF Links
<1>5. Len(qs) < Capacity
  BY <1>1, PoolBound DEF Shape
<1>6. PICK en \in Links : en = m.entry + 1
  BY <1>1, <1>5 DEF Links
<1>7. s = [m EXCEPT !.next = ne, !.head = c, !.tail = ta, !.entry = en]
  BY <1>1, <1>2, <1>4, <1>6 DEF Queue!EnqueueFirst, Pools
<1>8. PICK da, fr : da = m.data /\ fr = m.free
  OBVIOUS
<1>9. s = Repooled(m, ne, da, c, ta, fr, en)
  BY <1>1, <1>7, <1>8 DEF Repooled, Pools
<1>10. /\ s \in Pools /\ s.next = ne /\ s.data = da /\ s.head = c /\ s.tail = ta /\ s.free = fr
       /\ s.entry = en
  <2>1. da \in [Pool -> Values \cup {None}] /\ fr \in Links
    BY <1>1, <1>8 DEF Links
  <2>2. m \in Pools /\ c \in Links /\ ne \in [Pool -> Links]
    BY <1>1, <1>3 DEF Links
  <2>3. PoolIs(s, ne, da, c, ta, fr, en)
    BY <1>9, <2>1, <2>2, RepooledRecord
  <2> QED
    BY <2>3 DEF PoolIs
<1>11. PICK q : q = <<c>> \o qs
  OBVIOUS
<1>12. /\ q \in Seq(Pool) /\ q # <<>> /\ Len(q) = Len(qs) + 1
       /\ q[Len(q)] = IF qs = <<>> THEN c ELSE qs[Len(qs)]
  <2>1. <<c>> \in Seq(Pool) /\ Len(<<c>>) = 1 /\ <<c>>[1] = c
    OBVIOUS
  <2>2. /\ <<c>> \o qs \in Seq(Pool) /\ Len(<<c>> \o qs) = 1 + Len(qs)
        /\ \A i \in 1 .. 1 + Len(qs) : (<<c>> \o qs)[i] = IF i <= 1 THEN <<c>>[i] ELSE qs[i - 1]
    BY <1>1, <2>1, ConcatProperties
  <2>3. q \in Seq(Pool) /\ Len(q) = Len(qs) + 1 /\ Len(qs) \in Nat /\ (qs = <<>> <=> Len(qs) = 0)
    BY <1>1, <1>11, <2>2
  <2>4. q[Len(q)] = IF Len(q) <= 1 THEN <<c>>[Len(q)] ELSE qs[Len(q) - 1]
    BY <1>11, <2>2, <2>3
  <2> QED
    BY <2>1, <2>3, <2>4
<1>13. IsInjective(q) /\ \A b : Contains(q, b) <=> Contains(qs, b) \/ b = c
  <2>1. q = Append(qs, c) \/ q = <<c>> \o qs
    BY <1>11
  <2>2. IsInjective(qs) /\ ~Contains(qs, c)
    BY DEF Shape
  <2>3. /\ \A b : Contains(q, b) <=> Contains(qs, b) \/ b = c
        /\ IsInjective(qs) /\ ~Contains(qs, c) => IsInjective(q)
    BY <1>1, <2>1, AddElements
  <2> QED
    BY <2>2, <2>3
<1>14. PICK ol, h : ol = m.next /\ h = m.head
  OBVIOUS
<1>15. Chain(ne, c, q)
  <2>1. Chain(ol, h, qs) /\ ne[c] = h /\ \A x \in Pool \ {c} : ne[x] = ol[x]
    BY <1>3, <1>14 DEF Shape
  <2> QED
    BY <1>11, <2>1, ChainFront
<1>16. Chain(ne, fr, fs)
  <2>1. Chain(ol, fr, fs) /\ \A x \in Pool : Contains(fs, x) => ne[x] = ol[x]
    BY <1>3, <1>8, <1>14 DEF Shape
  <2> QED
    BY <2>1, ChainKept
<1>17. Shape(s, q, fs)
  <2>1. s.entry = Len(q)
    BY <1>1, <1>6, <1>10, <1>12
  <2>2. s.tail = q[Len(q)]
    <3>1. qs # <<>> => qs[Len(qs)] # 0
      <4>1. PICK w : w = qs
        OBVIOUS
      <4>2. w # <<>> => w[Len(w)] \in Pool
        BY <1>1, <4>1
      <4>3. 0 \notin Pool
        BY DEF Pool
      <4> QED
        BY <4>1, <4>2, <4>3
    <3>2. m.tail = IF qs = <<>> THEN 0 ELSE qs[Len(qs)]
      BY DEF Shape
    <3>3. ta = IF qs = <<>> THEN c ELSE qs[Len(qs)]
      BY <1>4, <3>1, <3>2
    <3> QED
      BY <1>10, <1>12, <3>3
  <2>3. \A b \in Pool : ~(Contains(q, b) /\ Contains(fs, b))
    BY <1>13 DEF Shape
  <2>4. Chain(s.next, s.head, q) /\ Chain(s.next, s.free, fs)
    BY <1>10, <1>15, <1>16
  <2> QED
    BY <1>10, <1>12, <1>13, <2>1, <2>2, <2>3, <2>4 DEF Shape
<1> QED
  BY <1>8, <1>10, <1>11, <1>17

\* The first block is taken out of the queue, ...
LEMMA DequeueShape ==
  ASSUME NEW m, NEW qs, NEW fs, Shape(m, qs, fs), m.entry # 0, NEW s, s = Queue!Dequeue(m)
  PROVE  /\ Shape(s, Tail(qs), fs) /\ s.data = m.data
         /\ qs # <<>> /\ m.head = Head(qs) /\ m.head \in Pool /\ Contains(qs, m.head)
         /\ \A b : Contains(Tail(qs), b) <=> Contains(qs, b) /\ b # m.head
<1>1. /\ Capacity \in Nat \ {0} /\ m \in Pools /\ qs \in Seq(Pool) /\ fs \in Seq(Pool)
      /\ m.next \in [Pool -> 0 .. Capacity] /\ m.data \in [Pool -> Values \cup {None}]
      /\ m.head \in 0 .. Capacity /\ m.free \in 0 .. Capacity /\ m.tail \in 0 .. Capacity
      /\ m.entry \in 0 .. Capacity /\ m.entry = Len(qs) /\ IsInjective(qs)
  BY ShapeFields DEF Shape
<1>2. qs # <<>> /\ m.head # 0
  BY <1>1, ShapeFields
<1>3. PICK ne, h : ne = m.next /\ h = m.head
  OBVIOUS
<1>4. h = Head(qs) /\ h \in Pool /\ Chain(ne, ne[h], Tail(qs))
  <2>1. Chain(ne, h, qs) /\ h # 0
    BY <1>2, <1>3 DEF Shape
  <2> QED
    BY <2>1, ChainRest
<1>5. PICK q : q = Tail(qs)
  OBVIOUS
<1>6. /\ q \in Seq(Pool) /\ IsInjective(q) /\ Contains(qs, h)
      /\ \A b : Contains(q, b) <=> Contains(qs, b) /\ b # h
  BY <1>1, <1>2, <1>4, <1>5, TailElements
<1>7. Len(q) = Len(qs) - 1 /\ \A i \in 1 .. Len(q) : q[i] = qs[i + 1]
  BY <1>1, <1>2, <1>5, HeadTailProperties
<1>8. PICK he \in Links : he = m.next[h]
  BY <1>1, <1>4 DEF Links
<1>9. PICK ta \in Links : ta = IF m.tail = h THEN 0 ELSE m.tail
  BY <1>1 DEF Links
<1>10. PICK en \in Links : en = m.entry - 1
  <2>1. m.entry \in Int /\ 0 <= m.entry /\ m.entry <= Capacity /\ Capacity \in Int
    BY <1>1
  <2>2. m.entry - 1 \in Links
    BY <2>1 DEF Links
  <2> QED
    BY <2>2
<1>11. s = [m EXCEPT !.head = he, !.tail = ta, !.entry = en]
  BY <1>1, <1>3, <1>8, <1>9, <1>10 DEF Queue!Dequeue, Pools
<1>12. PICK da, fr : da = m.data /\ fr = m.free
  OBVIOUS
<1>13. s = Repooled(m, ne, da, he, ta, fr, en)
  BY <1>1, <1>3, <1>11, <1>12 DEF Repooled, Pools
<1>14. /\ s \in Pools /\ s.next = ne /\ s.data = da /\ s.head = he /\ s.tail = ta /\ s.free = fr
       /\ s.entry = en
  <2>1. /\ da \in [Pool -> Values \cup {None}] /\ fr \in Links
        /\ ne \in [Pool -> Links] /\ m \in Pools
    BY <1>1, <1>3, <1>12 DEF Links
  <2>2. PoolIs(s, ne, da, he, ta, fr, en)
    BY <1>13, <2>1, RepooledRecord
  <2> QED
    BY <2>2 DEF PoolIs
<1>15. ta = IF q = <<>> THEN 0 ELSE q[Len(q)]
  <2>1. Len(qs) \in 1 .. Len(qs) /\ 1 \in 1 .. Len(qs) /\ qs[1] = h /\ m.tail = qs[Len(qs)]
    <3>1. Len(qs) \in 1 .. Len(qs) /\ 1 \in 1 .. Len(qs)
      BY <1>1, <1>2
    <3>2. qs[1] = h
      BY <1>1, <1>2, <1>4
    <3>3. m.tail = qs[Len(qs)]
      BY <1>2 DEF Shape
    <3> QED
      BY <3>1, <3>2, <3>3
  <2>2. q = <<>> <=> Len(qs) = 1
    <3>1. q \in Seq(Pool) /\ Len(qs) \in Nat
      BY <1>1, <1>6
    <3>2. q = <<>> <=> Len(q) = 0
      BY <3>1
    <3> QED
      BY <1>7, <3>1, <3>2
  <2>3. Len(qs) # 1 => qs[Len(qs)] # qs[1]
    <3>1. PICK i, j : i = Len(qs) /\ j = 1
      OBVIOUS
    <3>2. i \in 1 .. Len(qs) /\ j \in 1 .. Len(qs)
      BY <2>1, <3>1
    <3>3. qs[i] = qs[j] => i = j
      BY <1>1, <3>2 DEF IsInjective
    <3> QED
      BY <3>1, <3>3
  <2>4. q # <<>> => Len(q) \in 1 .. Len(q) /\ q[Len(q)] = qs[Len(qs)]
    <3>1. q # <<>> => Len(q) \in 1 .. Len(q) /\ Len(q) + 1 = Len(qs)
      BY <1>1, <1>6, <1>7
    <3> QED
      BY <1>7, <3>1
  <2> QED
    BY <1>9, <2>1, <2>2, <2>3, <2>4
<1>16. Chain(s.next, s.head, q) /\ Chain(s.next, s.free, fs)
  BY <1>3, <1>4, <1>5, <1>8, <1>12, <1>14 DEF Shape
<1>17. s.entry = Len(q)
  BY <1>1, <1>7, <1>10, <1>14
<1>18. Shape(s, q, fs)
  BY <1>6, <1>14, <1>15, <1>16, <1>17 DEF Shape
<1> QED
  BY <1>2, <1>3, <1>4, <1>5, <1>6, <1>12, <1>14, <1>18

\* ... and is free again.
LEMMA FreeShape ==
  ASSUME NEW m, NEW qs, NEW fs, Shape(m, qs, fs), NEW c \in Pool,
         ~Contains(qs, c), ~Contains(fs, c), NEW s, s = Queue!FreeBlock(m, c)
  PROVE  /\ Shape(s, qs, <<c>> \o fs) /\ s.data = m.data /\ Len(<<c>> \o fs) = Len(fs) + 1
         /\ \A b : Contains(<<c>> \o fs, b) <=> Contains(fs, b) \/ b = c
<1>1. /\ Capacity \in Nat \ {0} /\ m \in Pools /\ qs \in Seq(Pool) /\ fs \in Seq(Pool)
      /\ m.next \in [Pool -> 0 .. Capacity] /\ m.free \in 0 .. Capacity
      /\ c \in 0 .. Capacity /\ c # 0
  BY ShapeFields
<1>2. PICK ne : ne = [m.next EXCEPT ![c] = m.free]
  OBVIOUS
<1>3. ne \in [Pool -> 0 .. Capacity] /\ ne[c] = m.free /\ \A x \in Pool \ {c} : ne[x] = m.next[x]
  BY <1>1, <1>2
<1>4. s = [m EXCEPT !.next = ne, !.free = c]
  BY <1>1, <1>2 DEF Queue!FreeBlock, Pools
<1>5. /\ s \in Pools /\ s.next = ne /\ s.data = m.data /\ s.head = m.head /\ s.tail = m.tail
      /\ s.free = c /\ s.entry = m.entry
  BY <1>1, <1>3, <1>4 DEF Pools
<1>6. PICK f : f = <<c>> \o fs
  OBVIOUS
<1>7. f \in Seq(Pool) /\ IsInjective(f) /\ \A b : Contains(f, b) <=> Contains(fs, b) \/ b = c
  <2>1. f = Append(fs, c) \/ f = <<c>> \o fs
    BY <1>6
  <2>2. IsInjective(fs) /\ ~Contains(fs, c)
    BY DEF Shape
  <2>3. /\ f \in Seq(Pool)
        /\ \A b : Contains(f, b) <=> Contains(fs, b) \/ b = c
        /\ IsInjective(fs) /\ ~Contains(fs, c) => IsInjective(f)
    BY <1>1, <2>1, AddElements
  <2> QED
    BY <2>2, <2>3
<1>8. PICK ol, h, fr : ol = m.next /\ h = m.head /\ fr = m.free
  OBVIOUS
<1>9. Chain(ne, c, f)
  <2>1. Chain(ol, fr, fs) /\ ne[c] = fr /\ \A x \in Pool \ {c} : ne[x] = ol[x]
    BY <1>3, <1>8 DEF Shape
  <2> QED
    BY <1>6, <2>1, ChainFront
<1>10. Chain(ne, h, qs)
  <2>1. Chain(ol, h, qs) /\ \A x \in Pool : Contains(qs, x) => ne[x] = ol[x]
    BY <1>3, <1>8 DEF Shape
  <2> QED
    BY <2>1, ChainKept
<1>11. Shape(s, qs, f)
  <2>1. \A b \in Pool : ~(Contains(qs, b) /\ Contains(f, b))
    BY <1>7 DEF Shape
  <2> QED
    BY <1>5, <1>7, <1>8, <1>9, <1>10, <2>1 DEF Shape
<1>12. Len(<<c>> \o fs) = Len(fs) + 1
  <2>1. <<c>> \in Seq(Pool) /\ Len(<<c>>) = 1
    OBVIOUS
  <2> QED
    BY <1>1, <2>1, ConcatProperties
<1> QED
  BY <1>5, <1>6, <1>7, <1>11, <1>12

\* ListFrom reads the blocks of a chain.
LEMMA ListFromChain ==
  ASSUME NEW m, NEW b, NEW s, Chain(m.next, b, s), Len(s) <= Capacity
  PROVE  Queue!ListFrom(m, b) = s
<1>1. /\ Capacity \in Nat \ {0} /\ s \in Seq(Pool) /\ Len(s) \in Nat
      /\ \A i \in 1 .. Len(s) : s[i] \in Pool /\ s[i] # 0
  BY ObjectsAssumption DEF Chain, Pool
<1>2. PICK ne : ne = m.next
  OBVIOUS
<1> DEFINE at == CHOOSE f : f = [i \in 0 .. Capacity |->
                                   IF i = 0 THEN b ELSE IF f[i - 1] = 0 THEN 0 ELSE ne[f[i - 1]]]
           v == [i \in 0 .. Capacity |-> IF i < Len(s) THEN s[i + 1] ELSE 0]
           length == CHOOSE n \in 0 .. Capacity + 1 :
                       \A i \in 0 .. Capacity : at[i] # 0 <=> i < n
<1>3. Queue!ListFrom(m, b) = [i \in 1 .. length |-> at[i - 1]]
  BY <1>2 DEF Queue!ListFrom
<1>4. \A i \in 0 .. Capacity :
        v[i] = IF i = 0 THEN b ELSE IF v[i - 1] = 0 THEN 0 ELSE ne[v[i - 1]]
  <2> SUFFICES ASSUME NEW i \in 0 .. Capacity
               PROVE  v[i] = IF i = 0 THEN b ELSE IF v[i - 1] = 0 THEN 0 ELSE ne[v[i - 1]]
    OBVIOUS
  <2>1. CASE i = 0
    BY <1>1, <2>1 DEF Chain
  <2>2. CASE i # 0 /\ i - 1 < Len(s)
    <3>1. i \in 1 .. Len(s) /\ i - 1 \in 0 .. Capacity /\ (i - 1) + 1 = i
      BY <1>1, <2>2
    <3>2. v[i - 1] = s[i] /\ s[i] # 0
      BY <1>1, <2>2, <3>1
    <3>3. ne[s[i]] = IF i = Len(s) THEN 0 ELSE s[i + 1]
      BY <1>2, <3>1 DEF Chain
    <3> QED
      BY <1>1, <2>2, <3>1, <3>2, <3>3
  <2>3. CASE i # 0 /\ ~(i - 1 < Len(s))
    <3>1. i - 1 \in 0 .. Capacity /\ ~(i < Len(s))
      BY <1>1, <2>3
    <3> QED
      BY <2>3, <3>1
  <2> QED
    BY <2>1, <2>2, <2>3
<1>5. v = [i \in 0 .. Capacity |-> v[i]]
  OBVIOUS
<1>6. \A i \in 0 .. Capacity : v[i] # 0 <=> i < Len(s)
  <2> SUFFICES ASSUME NEW i \in 0 .. Capacity
               PROVE  v[i] # 0 <=> i < Len(s)
    OBVIOUS
  <2>1. i < Len(s) => i + 1 \in 1 .. Len(s)
    BY <1>1
  <2> QED
    BY <1>1, <2>1
<1>7. \A i \in 1 .. Len(s) : v[i - 1] = s[i]
  <2> SUFFICES ASSUME NEW i \in 1 .. Len(s)
               PROVE  v[i - 1] = s[i]
    OBVIOUS
  <2>1. i - 1 \in 0 .. Capacity /\ i - 1 < Len(s) /\ (i - 1) + 1 = i
    BY <1>1
  <2> QED
    BY <2>1
<1> HIDE DEF v
<1>8. at = [i \in 0 .. Capacity |->
              IF i = 0 THEN b ELSE IF at[i - 1] = 0 THEN 0 ELSE ne[at[i - 1]]]
  <2>1. v = [i \in 0 .. Capacity |->
               IF i = 0 THEN b ELSE IF v[i - 1] = 0 THEN 0 ELSE ne[v[i - 1]]]
    BY <1>4, <1>5
  <2> QED
    BY <2>1, Zenon
<1> HIDE DEF at
<1>9. \A i \in 0 .. Capacity :
        at[i] = IF i = 0 THEN b ELSE IF at[i - 1] = 0 THEN 0 ELSE ne[at[i - 1]]
  <2> DEFINE w == [i \in 0 .. Capacity |->
                     IF i = 0 THEN b ELSE IF at[i - 1] = 0 THEN 0 ELSE ne[at[i - 1]]]
  <2>1. \A i \in 0 .. Capacity :
          w[i] = IF i = 0 THEN b ELSE IF at[i - 1] = 0 THEN 0 ELSE ne[at[i - 1]]
    OBVIOUS
  <2>2. at = w
    BY <1>8
  <2> HIDE DEF w
  <2> QED
    BY <2>1, <2>2
<1> DEFINE B == {i \in 0 .. Capacity : at[i] # v[i]}
<1>10. B = {}
  <2> SUFFICES ASSUME B # {}
               PROVE  FALSE
    OBVIOUS
  <2>1. B \subseteq Nat
    OBVIOUS
  <2>2. PICK i \in B : \A j \in B : i <= j
    BY <2>1, LeastNatural
  <2>3. i \in 0 .. Capacity /\ at[i] # v[i]
    OBVIOUS
  <2>4. CASE i = 0
    BY <1>4, <1>9, <2>3, <2>4
  <2>5. CASE i # 0
    <3>1. i - 1 \in 0 .. Capacity /\ i - 1 \notin B
      BY <1>1, <2>2, <2>3, <2>5
    <3>2. at[i - 1] = v[i - 1]
      BY <3>1
    <3> QED
      BY <1>4, <1>9, <2>3, <2>5, <3>2
  <2> QED
    BY <2>4, <2>5
<1>11. \A i \in 0 .. Capacity : at[i] = v[i]
  BY <1>10
<1>12. length = Len(s)
  <2> DEFINE Ends(n) == \A i \in 0 .. Capacity : at[i] # 0 <=> i < n
  <2>1. Len(s) \in 0 .. Capacity + 1 /\ Ends(Len(s))
    BY <1>1, <1>6, <1>11
  <2>2. ASSUME NEW n \in 0 .. Capacity + 1, Ends(n)
        PROVE  n = Len(s)
    <3>1. \A i \in 0 .. Capacity : i < n <=> i < Len(s)
      BY <1>6, <1>11, <2>2
    <3>2. ~(n < Len(s))
      <4> SUFFICES ASSUME n < Len(s)
                   PROVE  FALSE
        OBVIOUS
      <4>1. n \in 0 .. Capacity
        BY <1>1
      <4> QED
        BY <3>1, <4>1
    <3>3. ~(Len(s) < n)
      <4> SUFFICES ASSUME Len(s) < n
                   PROVE  FALSE
        OBVIOUS
      <4>1. Len(s) \in 0 .. Capacity
        BY <1>1
      <4> QED
        BY <1>1, <3>1, <4>1
    <3> QED
      BY <1>1, <3>2, <3>3
  <2> HIDE DEF Ends
  <2>3. (CHOOSE n \in 0 .. Capacity + 1 : Ends(n)) = Len(s)
    BY <2>1, <2>2
  <2> QED
    BY <2>3 DEF Ends
<1> HIDE DEF length
<1>13. [i \in 1 .. Len(s) |-> at[i - 1]] = [i \in 1 .. Len(s) |-> s[i]]
  <2>1. \A i \in 1 .. Len(s) : i - 1 \in 0 .. Capacity
    BY <1>1
  <2>2. \A i \in 1 .. Len(s) : at[i - 1] = s[i]
    BY <1>7, <1>11, <2>1
  <2> QED
    BY <2>2
<1>14. s = [i \in 1 .. Len(s) |-> s[i]]
  BY <1>1
<1> QED
  BY <1>3, <1>12, <1>13, <1>14

\* What the pool shows of its queue and of its free blocks.
LEMMA ShapeLists ==
  ASSUME NEW m, NEW qs, NEW fs, Shape(m, qs, fs)
  PROVE  /\ Queue!Queue(m) = qs /\ Queue!ListFrom(m, m.free) = fs
         /\ Len(qs) <= Capacity /\ Len(fs) <= Capacity
<1>1. Len(qs) <= Capacity /\ Len(fs) <= Capacity
  BY ShapeFields, PoolBound DEF Shape
<1>2. PICK h, f : h = m.head /\ f = m.free
  OBVIOUS
<1>3. Chain(m.next, h, qs) /\ Chain(m.next, f, fs)
  BY <1>2 DEF Shape
<1>4. Queue!ListFrom(m, h) = qs /\ Queue!ListFrom(m, f) = fs
  BY <1>1, <1>3, ListFromChain
<1> QED
  BY <1>1, <1>2, <1>4 DEF Queue!Queue

\* r is m once the first i blocks of its queue q are free, f among them.
Freed(m, q, fs, r, i, f) ==
  /\ r \in Pools /\ r.data = m.data
  /\ Chain(r.next, r.free, f) /\ IsInjective(f)
  /\ \A b : Contains(f, b) <=> Contains(fs, b) \/ \E j \in 1 .. i : q[j] = b

LEMMA FreedMore ==
  ASSUME NEW m, NEW q \in Seq(Pool), NEW fs, NEW r, NEW i \in 1 .. Len(q), NEW f,
         Freed(m, q, fs, r, i - 1, f), ~Contains(f, q[i]), NEW s, s = Queue!FreeBlock(r, q[i])
  PROVE  Freed(m, q, fs, s, i, <<q[i]>> \o f)
<1>1. PICK c \in Pool : c = q[i]
  OBVIOUS
<1>2. /\ r \in Pools /\ r.next \in [Pool -> 0 .. Capacity] /\ r.free \in 0 .. Capacity
      /\ c \in 0 .. Capacity /\ f \in Seq(Pool) /\ Capacity \in Nat \ {0}
  <2>1. r \in Pools /\ f \in Seq(Pool)
    BY DEF Freed, Chain
  <2>2. r.next \in [Pool -> 0 .. Capacity] /\ r.free \in 0 .. Capacity
    BY <2>1 DEF Pools
  <2>3. Capacity \in Nat \ {0} /\ c \in 1 .. Capacity
    BY ObjectsAssumption DEF Pool
  <2> QED
    BY <2>1, <2>2, <2>3
<1>3. PICK ne : ne = [r.next EXCEPT ![c] = r.free]
  OBVIOUS
<1>4. ne \in [Pool -> 0 .. Capacity] /\ ne[c] = r.free /\ \A x \in Pool \ {c} : ne[x] = r.next[x]
  BY <1>2, <1>3
<1>5. s = [r EXCEPT !.next = ne, !.free = c]
  BY <1>1, <1>2, <1>3 DEF Queue!FreeBlock, Pools
<1>6. s \in Pools /\ s.next = ne /\ s.data = r.data /\ s.free = c
  BY <1>2, <1>4, <1>5 DEF Pools
<1>7. PICK g : g = <<c>> \o f
  OBVIOUS
<1>8. g \in Seq(Pool) /\ IsInjective(g) /\ \A b : Contains(g, b) <=> Contains(f, b) \/ b = c
  <2>1. g = Append(f, c) \/ g = <<c>> \o f
    BY <1>7
  <2>2. IsInjective(f) /\ ~Contains(f, c)
    BY <1>1 DEF Freed
  <2>3. /\ g \in Seq(Pool)
        /\ \A b : Contains(g, b) <=> Contains(f, b) \/ b = c
        /\ IsInjective(f) /\ ~Contains(f, c) => IsInjective(g)
    BY <1>2, <2>1, AddElements
  <2> QED
    BY <2>2, <2>3
<1>9. PICK ol, fr : ol = r.next /\ fr = r.free
  OBVIOUS
<1>10. Chain(ne, c, g)
  <2>1. Chain(ol, fr, f) /\ ne[c] = fr /\ ~Contains(f, c) /\ \A x \in Pool \ {c} : ne[x] = ol[x]
    BY <1>1, <1>4, <1>9 DEF Freed
  <2> QED
    BY <1>7, <2>1, ChainFront
<1>11. \A b : (\E j \in 1 .. i : q[j] = b) <=> (\E j \in 1 .. i - 1 : q[j] = b) \/ b = c
  <2>1. i \in 1 .. i /\ \A j \in 1 .. i : j \in 1 .. i - 1 \/ j = i
    OBVIOUS
  <2>2. \A j \in 1 .. i - 1 : j \in 1 .. i
    OBVIOUS
  <2> QED
    BY <1>1, <2>1, <2>2
<1>12. Freed(m, q, fs, s, i, g)
  BY <1>6, <1>8, <1>10, <1>11 DEF Freed
<1> QED
  BY <1>1, <1>7, <1>12

\* w lists the pool as it is after each of the first n blocks of q.
FreeSteps(w, m, q, n) ==
  /\ w = [i \in 0 .. n |-> w[i]]
  /\ \A i \in 0 .. n : w[i] = IF i = 0 THEN m ELSE Queue!FreeBlock(w[i - 1], q[i])

LEMMA FreesExist ==
  ASSUME NEW m, NEW q, NEW n \in Nat
  PROVE  \E w : FreeSteps(w, m, q, n)
<1> DEFINE Steps(w, k) == FreeSteps(w, m, q, k)
           B == {k \in Nat : \A w : ~Steps(w, k)}
<1>1. B = {}
  <2> SUFFICES ASSUME B # {}
               PROVE  FALSE
    OBVIOUS
  <2>1. B \subseteq Nat
    OBVIOUS
  <2>2. PICK k \in B : \A j \in B : k <= j
    BY <2>1, LeastNatural
  <2>3. CASE k = 0
    <3> DEFINE w == [i \in 0 .. 0 |-> m]
    <3>1. Steps(w, 0)
      BY DEF FreeSteps
    <3> HIDE DEF w, Steps
    <3> QED
      BY <2>2, <2>3, <3>1
  <2>4. CASE k # 0
    <3>1. k - 1 \in Nat /\ k - 1 \notin B
      BY <2>2, <2>4
    <3>2. PICK v : Steps(v, k - 1)
      BY <3>1
    <3>3. PICK last : last = Queue!FreeBlock(v[k - 1], q[k])
      OBVIOUS
    <3> DEFINE w == [i \in 0 .. k |-> IF i = k THEN last ELSE v[i]]
    <3>4. \A i \in 0 .. k : w[i] = IF i = 0 THEN m ELSE Queue!FreeBlock(w[i - 1], q[i])
      <4> SUFFICES ASSUME NEW i \in 0 .. k
                   PROVE  w[i] = IF i = 0 THEN m ELSE Queue!FreeBlock(w[i - 1], q[i])
        OBVIOUS
      <4>1. CASE i = k
        <5>1. w[i] = last /\ w[i - 1] = v[k - 1] /\ i # 0
          BY <2>4, <3>1, <4>1
        <5> HIDE DEF w
        <5> QED
          BY <3>3, <4>1, <5>1
      <4>2. CASE i # k
        <5>1. i \in 0 .. k - 1 /\ w[i] = v[i] /\ (i # 0 => i - 1 \in 0 .. k - 1 /\ w[i - 1] = v[i - 1])
          BY <3>1, <4>2
        <5>2. v[i] = IF i = 0 THEN m ELSE Queue!FreeBlock(v[i - 1], q[i])
          BY <3>2, <5>1 DEF FreeSteps
        <5> HIDE DEF w, Steps
        <5> QED
          BY <5>1, <5>2
      <4> QED
        BY <4>1, <4>2
    <3>5. w = [i \in 0 .. k |-> w[i]]
      OBVIOUS
    <3> HIDE DEF w
    <3>6. Steps(w, k)
      BY <3>4, <3>5 DEF FreeSteps
    <3> HIDE DEF Steps
    <3> QED
      BY <2>2, <3>6
  <2> QED
    BY <2>3, <2>4
<1>2. n \notin B
  BY <1>1
<1> QED
  BY <1>2

\* A reset frees every block of the queue.
LEMMA FreeAllShape ==
  ASSUME NEW m, NEW qs, NEW fs, Shape(m, qs, fs), NEW s, s = Queue!FreeAll(m)
  PROVE  /\ s.data = m.data
         /\ \E f : /\ Shape(s, <<>>, f)
                   /\ \A b : Contains(f, b) <=> Contains(fs, b) \/ Contains(qs, b)
<1>1. /\ Capacity \in Nat \ {0} /\ m \in Pools /\ qs \in Seq(Pool) /\ fs \in Seq(Pool)
      /\ Len(qs) \in Nat /\ IsInjective(qs)
  BY ShapeFields DEF Shape
<1>2. PICK n \in Nat : n = Len(qs)
  BY <1>1
<1> DEFINE after == CHOOSE w : w = [i \in 0 .. n |->
                                      IF i = 0 THEN m ELSE Queue!FreeBlock(w[i - 1], qs[i])]
<1>3. s = [after[n] EXCEPT !.head = 0, !.tail = 0, !.entry = 0]
  <2>1. Queue!Queue(m) = qs
    BY ShapeLists
  <2> QED
    BY <1>2, <2>1 DEF Queue!FreeAll
<1>4. after = [i \in 0 .. n |-> IF i = 0 THEN m ELSE Queue!FreeBlock(after[i - 1], qs[i])]
  <2>1. PICK v : FreeSteps(v, m, qs, n)
    BY FreesExist
  <2>2. v = [i \in 0 .. n |-> IF i = 0 THEN m ELSE Queue!FreeBlock(v[i - 1], qs[i])]
    BY <2>1 DEF FreeSteps
  <2> QED
    BY <2>2, Zenon
<1> HIDE DEF after
<1>5. \A i \in 0 .. n : after[i] = IF i = 0 THEN m ELSE Queue!FreeBlock(after[i - 1], qs[i])
  <2> DEFINE w == [i \in 0 .. n |-> IF i = 0 THEN m ELSE Queue!FreeBlock(after[i - 1], qs[i])]
  <2>1. \A i \in 0 .. n : w[i] = IF i = 0 THEN m ELSE Queue!FreeBlock(after[i - 1], qs[i])
    OBVIOUS
  <2>2. after = w
    BY <1>4
  <2> HIDE DEF w
  <2> QED
    BY <2>1, <2>2
<1> DEFINE B == {i \in 0 .. n : \A f : ~Freed(m, qs, fs, after[i], i, f)}
<1>6. B = {}
  <2> SUFFICES ASSUME B # {}
               PROVE  FALSE
    OBVIOUS
  <2>1. B \subseteq Nat
    OBVIOUS
  <2>2. PICK i \in B : \A j \in B : i <= j
    BY <2>1, LeastNatural
  <2>3. CASE i = 0
    <3>1. Freed(m, qs, fs, m, 0, fs)
      BY <1>1 DEF Freed, Shape
    <3>2. after[0] = m
      BY <1>5
    <3> QED
      BY <2>2, <2>3, <3>1, <3>2
  <2>4. CASE i # 0
    <3>1. i \in 1 .. Len(qs) /\ i - 1 \in 0 .. n /\ i - 1 \notin B
      BY <1>2, <2>2, <2>4
    <3>2. PICK f : Freed(m, qs, fs, after[i - 1], i - 1, f)
      BY <3>1
    <3>3. ~Contains(f, qs[i])
      <4>1. Contains(qs, qs[i]) /\ qs[i] \in Pool
        BY <1>1, <3>1 DEF Contains
      <4>2. \A j \in 1 .. i - 1 : qs[j] # qs[i]
        BY <1>1, <3>1 DEF IsInjective
      <4> QED
        BY <3>2, <4>1, <4>2 DEF Freed, Shape
    <3>4. after[i] = Queue!FreeBlock(after[i - 1], qs[i])
      BY <1>5, <2>4, <3>1
    <3>5. Freed(m, qs, fs, after[i], i, <<qs[i]>> \o f)
      BY <1>1, <3>1, <3>2, <3>3, <3>4, FreedMore
    <3> QED
      BY <2>2, <3>5
  <2> QED
    BY <2>3, <2>4
<1>7. n \in 0 .. n /\ n \notin B
  BY <1>6
<1>8. PICK f : Freed(m, qs, fs, after[n], n, f)
  BY <1>7
<1>9. PICK r : r = after[n]
  OBVIOUS
<1>10. /\ r \in Pools /\ r.data = m.data /\ Chain(r.next, r.free, f) /\ IsInjective(f)
       /\ \A b : Contains(f, b) <=> Contains(fs, b) \/ Contains(qs, b)
  BY <1>2, <1>8, <1>9 DEF Freed, Contains
<1>11. s = [r EXCEPT !.head = 0, !.tail = 0, !.entry = 0]
  BY <1>3, <1>9
<1>12. PICK ne, da, fr : ne = r.next /\ da = r.data /\ fr = r.free
  OBVIOUS
<1>13. s = Repooled(r, ne, da, 0, 0, fr, 0)
  BY <1>10, <1>11, <1>12 DEF Repooled, Pools
<1>14. /\ s \in Pools /\ s.next = ne /\ s.data = da /\ s.head = 0 /\ s.tail = 0 /\ s.free = fr
       /\ s.entry = 0
  <2>1. /\ da \in [Pool -> Values \cup {None}] /\ fr \in Links
        /\ ne \in [Pool -> Links] /\ 0 \in Links /\ r \in Pools
    BY <1>1, <1>10, <1>12 DEF Pools, Links
  <2>2. PoolIs(s, ne, da, 0, 0, fr, 0)
    BY <1>13, <2>1, RepooledRecord
  <2> QED
    BY <2>2 DEF PoolIs
<1>15. Shape(s, <<>>, f)
  <2>1. Chain(ne, 0, <<>>) /\ Chain(ne, fr, f)
    BY <1>10, <1>12 DEF Chain
  <2>2. IsInjective(<<>>) /\ \A b : ~Contains(<<>>, b)
    BY DEF IsInjective, Contains
  <2> QED
    BY <1>10, <1>14, <2>1, <2>2 DEF Shape
<1> QED
  BY <1>10, <1>12, <1>14, <1>15

\* Every block of a new queue is free.
LEMMA FreshShape ==
  ASSUME NEW s, s = Queue!Fresh
  PROVE  \E f : /\ Shape(s, <<>>, f) /\ \A b \in Pool : Contains(f, b)
<1>1. Capacity \in Nat \ {0}
  BY ObjectsAssumption
<1> DEFINE f == [i \in 1 .. Capacity |-> Capacity + 1 - i]
           ne == [b \in Pool |-> b - 1]
<1>2. s = [next |-> ne, data |-> [b \in Pool |-> None], head |-> 0, tail |-> 0,
           free |-> Capacity, entry |-> 0]
  BY DEF Queue!Fresh, Queue!Blocks, Pool
<1>3. s \in Pools
  <2>1. ne \in [Pool -> 0 .. Capacity]
    BY <1>1 DEF Pool
  <2>2. [b \in Pool |-> None] \in [Pool -> Values \cup {None}]
    OBVIOUS
  <2> HIDE DEF ne
  <2> QED
    BY <1>1, <1>2, <2>1, <2>2 DEF Pools
<1>4. f \in Seq(Pool) /\ Len(f) = Capacity /\ f # <<>>
  <2>1. \A i \in 1 .. Capacity : Capacity + 1 - i \in Pool
    BY <1>1 DEF Pool
  <2> QED
    BY <1>1, <2>1
<1>5. IsInjective(f) /\ \A b \in Pool : Contains(f, b)
  <2>1. \A i, j \in 1 .. Capacity : f[i] = f[j] => i = j
    BY <1>1
  <2>2. ASSUME NEW b \in Pool
        PROVE  \E i \in 1 .. Capacity : f[i] = b
    <3>1. Capacity + 1 - b \in 1 .. Capacity /\ f[Capacity + 1 - b] = b
      BY <1>1 DEF Pool
    <3> QED
      BY <3>1
  <2>3. DOMAIN f = 1 .. Capacity
    OBVIOUS
  <2> HIDE DEF f
  <2> QED
    BY <1>4, <2>1, <2>2, <2>3 DEF IsInjective, Contains
<1>6. Chain(ne, Capacity, f)
  <2>1. f[1] = Capacity
    BY <1>1
  <2>2. \A i \in 1 .. Capacity : ne[f[i]] = IF i = Capacity THEN 0 ELSE f[i + 1]
    BY <1>1 DEF Pool
  <2> HIDE DEF f, ne
  <2> QED
    BY <1>4, <2>1, <2>2 DEF Chain
<1>7. Chain(ne, 0, <<>>) /\ IsInjective(<<>>) /\ \A b : ~Contains(<<>>, b)
  BY DEF Chain, IsInjective, Contains
<1>8. s.next = ne /\ s.head = 0 /\ s.tail = 0 /\ s.free = Capacity /\ s.entry = 0
  BY <1>2
<1>9. Shape(s, <<>>, f)
  <2> HIDE DEF f, ne
  <2> QED
    BY <1>3, <1>5, <1>6, <1>7, <1>8 DEF Shape
<1> HIDE DEF f
<1> QED
  BY <1>5, <1>9

-----------------------------------------------------------------------------
(* The messages of a queue, and the blocks in the hands of threads.        *)

Texts(da, qs) == [i \in 1 .. Len(qs) |-> da[qs[i]]]

LEMMA TextsType ==
  ASSUME NEW da \in [Pool -> Values \cup {None}], NEW qs \in Seq(Pool)
  PROVE  /\ Texts(da, qs) \in Seq(Values \cup {None}) /\ Len(Texts(da, qs)) = Len(qs)
         /\ \A i \in 1 .. Len(qs) : Texts(da, qs)[i] = da[qs[i]]
BY DEF Texts

LEMMA TextsKept ==
  ASSUME NEW da, NEW qs \in Seq(Pool), NEW da2, \A x \in Pool : Contains(qs, x) => da2[x] = da[x]
  PROVE  Texts(da2, qs) = Texts(da, qs)
<1>1. \A i \in 1 .. Len(qs) : qs[i] \in Pool /\ Contains(qs, qs[i])
  BY DEF Contains
<1> QED
  BY <1>1 DEF Texts

LEMMA TextsBack ==
  ASSUME NEW da \in [Pool -> Values \cup {None}], NEW qs \in Seq(Pool), NEW c \in Pool
  PROVE  Texts(da, Append(qs, c)) = Append(Texts(da, qs), da[c])
<1>1. PICK q : q = Append(qs, c)
  OBVIOUS
<1>2. q \in Seq(Pool) /\ Len(q) = Len(qs) + 1 /\ q[Len(qs) + 1] = c
      /\ \A i \in 1 .. Len(qs) : q[i] = qs[i]
  BY <1>1, AppendProperties
<1>3. PICK l, r, v :
        v \in Values \cup {None} /\ l = Texts(da, qs) /\ r = Texts(da, q) /\ v = da[c]
  OBVIOUS
<1>4. /\ l \in Seq(Values \cup {None}) /\ Len(l) = Len(qs)
      /\ \A i \in 1 .. Len(qs) : l[i] = da[qs[i]]
      /\ r \in Seq(Values \cup {None}) /\ Len(r) = Len(q)
      /\ \A i \in 1 .. Len(q) : r[i] = da[q[i]]
  BY <1>2, <1>3, TextsType
<1>5. Shifted(l, r, 0) /\ r[Len(l) + 1] = v
  <2>1. \A i \in 1 .. Len(l) : i + 0 = i /\ i \in 1 .. Len(q) /\ r[i] = l[i]
    BY <1>2, <1>4
  <2>2. Len(l) + 1 \in 1 .. Len(q)
    BY <1>2, <1>4
  <2> QED
    BY <1>2, <1>3, <1>4, <2>1, <2>2 DEF Shifted
<1>6. r = Append(l, v)
  BY <1>2, <1>3, <1>4, <1>5, IsAppend
<1> QED
  BY <1>1, <1>3, <1>6

LEMMA TextsFront ==
  ASSUME NEW da \in [Pool -> Values \cup {None}], NEW qs \in Seq(Pool), NEW c \in Pool
  PROVE  Texts(da, <<c>> \o qs) = <<da[c]>> \o Texts(da, qs)
<1>1. PICK q : q = <<c>> \o qs
  OBVIOUS
<1>2. /\ q \in Seq(Pool) /\ Len(q) = Len(qs) + 1 /\ q[1] = c
      /\ \A i \in 2 .. Len(qs) + 1 : q[i] = qs[i - 1]
  <2>1. <<c>> \in Seq(Pool) /\ Len(<<c>>) = 1 /\ <<c>>[1] = c
    OBVIOUS
  <2>2. /\ <<c>> \o qs \in Seq(Pool) /\ Len(<<c>> \o qs) = 1 + Len(qs)
        /\ \A i \in 1 .. 1 + Len(qs) : (<<c>> \o qs)[i] = IF i <= 1 THEN <<c>>[i] ELSE qs[i - 1]
    BY <2>1, ConcatProperties
  <2> QED
    BY <1>1, <2>1, <2>2
<1>3. PICK l, r, v :
        v \in Values \cup {None} /\ l = Texts(da, qs) /\ r = Texts(da, q) /\ v = da[c]
  OBVIOUS
<1>4. /\ l \in Seq(Values \cup {None}) /\ Len(l) = Len(qs)
      /\ \A i \in 1 .. Len(qs) : l[i] = da[qs[i]]
      /\ r \in Seq(Values \cup {None}) /\ Len(r) = Len(q)
      /\ \A i \in 1 .. Len(q) : r[i] = da[q[i]]
  BY <1>2, <1>3, TextsType
<1>5. Shifted(l, r, 1) /\ r[1] = v
  <2>1. \A i \in 1 .. Len(l) : i + 1 \in 2 .. Len(qs) + 1 /\ i + 1 \in 1 .. Len(q) /\ (i + 1) - 1 = i
    BY <1>2, <1>4
  <2>2. 1 \in 1 .. Len(q)
    BY <1>2
  <2> QED
    BY <1>2, <1>3, <1>4, <2>1, <2>2 DEF Shifted
<1>6. r = <<v>> \o l
  <2>1. Len(r) = Len(l) + 1
    BY <1>2, <1>4
  <2>2. PICK S : S = Values \cup {None}
    OBVIOUS
  <2>3. v \in S /\ l \in Seq(S) /\ r \in Seq(S)
    BY <1>3, <1>4, <2>2
  <2> QED
    BY <1>5, <2>1, <2>3, IsFront
<1> QED
  BY <1>1, <1>3, <1>6

LEMMA TextsTail ==
  ASSUME NEW da \in [Pool -> Values \cup {None}], NEW qs \in Seq(Pool), qs # <<>>
  PROVE  /\ Texts(da, qs) # <<>> /\ Head(Texts(da, qs)) = da[Head(qs)]
         /\ Texts(da, Tail(qs)) = Tail(Texts(da, qs))
<1>1. PICK q : q = Tail(qs)
  OBVIOUS
<1>2. q \in Seq(Pool) /\ Len(q) = Len(qs) - 1 /\ \A i \in 1 .. Len(q) : q[i] = qs[i + 1]
  BY <1>1, HeadTailProperties
<1>3. PICK l, r : l = Texts(da, qs) /\ r = Texts(da, q)
  OBVIOUS
<1>4. /\ l \in Seq(Values \cup {None}) /\ Len(l) = Len(qs)
      /\ \A i \in 1 .. Len(qs) : l[i] = da[qs[i]]
      /\ r \in Seq(Values \cup {None}) /\ Len(r) = Len(q)
      /\ \A i \in 1 .. Len(q) : r[i] = da[q[i]]
  BY <1>2, <1>3, TextsType
<1>5. Shifted(r, l, 1)
  <2>1. \A i \in 1 .. Len(r) : i + 1 \in 1 .. Len(qs)
    BY <1>2, <1>4
  <2> QED
    BY <1>2, <1>4, <2>1 DEF Shifted
<1>6. l # <<>> /\ 1 \in 1 .. Len(qs)
  BY <1>4
<1>7. r = Tail(l)
  BY <1>2, <1>4, <1>5, <1>6, IsTail
<1>8. Head(l) = da[Head(qs)]
  BY <1>4, <1>6
<1> QED
  BY <1>1, <1>3, <1>6, <1>7, <1>8

\* The block b is in the queue or free.
Idle(qs, fs, b) == Contains(qs, b) \/ Contains(fs, b)

\* The block and the message of a call.
Blk(e) == e.blk
Text(e) == e.msg

\* A block that is not idle is in the hands of one thread.
Owned(c, qs, fs) ==
  /\ \A t \in Peers : Blk(c[t]) # 0 => ~Idle(qs, fs, Blk(c[t]))
  /\ \A t, u \in Peers : Blk(c[t]) # 0 /\ Blk(c[t]) = Blk(c[u]) => t = u
  /\ \A b \in Pool : Idle(qs, fs, b) \/ \E t \in Peers : Blk(c[t]) = b

LEMMA OwnedTake ==
  ASSUME NEW c, NEW qs, NEW fs, Owned(c, qs, fs), NEW t \in Peers, Blk(c[t]) = 0, NEW b \in Pool,
         Idle(qs, fs, b), NEW qs2, NEW fs2,
         \A x \in Pool : Idle(qs2, fs2, x) <=> Idle(qs, fs, x) /\ x # b,
         \A u \in Peers : Blk(c[u]) # 0 => Blk(c[u]) \in Pool,
         NEW c2, Blk(c2[t]) = b, \A u \in Peers \ {t} : Blk(c2[u]) = Blk(c[u])
  PROVE  Owned(c2, qs2, fs2)
<1>1. \A u \in Peers : Blk(c2[u]) # 0 => ~Idle(qs2, fs2, Blk(c2[u]))
  BY DEF Owned
<1>2. \A u \in Peers : Blk(c[u]) # 0 => Blk(c[u]) # b
  BY DEF Owned
<1>3. \A u, w \in Peers : Blk(c2[u]) # 0 /\ Blk(c2[u]) = Blk(c2[w]) => u = w
  BY <1>2 DEF Owned
<1>4. \A x \in Pool : Idle(qs2, fs2, x) \/ \E u \in Peers : Blk(c2[u]) = x
  <2> SUFFICES ASSUME NEW x \in Pool, ~Idle(qs2, fs2, x)
               PROVE  \E u \in Peers : Blk(c2[u]) = x
    OBVIOUS
  <2>1. CASE x = b
    BY <2>1
  <2>2. CASE x # b
    <3>1. PICK u \in Peers : Blk(c[u]) = x
      BY <2>2 DEF Owned
    <3>2. CASE u = t
      BY <3>1, <3>2 DEF Pool
    <3>3. CASE u # t
      BY <3>1, <3>3
    <3> QED
      BY <3>2, <3>3
  <2> QED
    BY <2>1, <2>2
<1> QED
  BY <1>1, <1>3, <1>4 DEF Owned

LEMMA OwnedGive ==
  ASSUME NEW c, NEW qs, NEW fs, Owned(c, qs, fs), NEW t \in Peers, Blk(c[t]) \in Pool,
         0 \notin Pool, NEW qs2, NEW fs2,
         \A x \in Pool : Idle(qs2, fs2, x) <=> Idle(qs, fs, x) \/ x = Blk(c[t]),
         \A u \in Peers : Blk(c[u]) # 0 => Blk(c[u]) \in Pool,
         NEW c2, Blk(c2[t]) = 0, \A u \in Peers \ {t} : Blk(c2[u]) = Blk(c[u])
  PROVE  Owned(c2, qs2, fs2)
BY DEF Owned

LEMMA OwnedKept ==
  ASSUME NEW c, NEW qs, NEW fs, Owned(c, qs, fs), NEW qs2, NEW fs2,
         \A x \in Pool : Idle(qs2, fs2, x) <=> Idle(qs, fs, x),
         \A u \in Peers : Blk(c[u]) # 0 => Blk(c[u]) \in Pool,
         NEW c2, \A u \in Peers : Blk(c2[u]) = Blk(c[u])
  PROVE  Owned(c2, qs2, fs2)
BY DEF Owned

-----------------------------------------------------------------------------

-----------------------------------------------------------------------------
(* The invariant of a message queue, as a relation of its parts: qs is     *)
(* queued and fs is free.                                                  *)

CallRecords == [msg : Values \cup {None}, blk : 0 .. Capacity, left : Patience]

Copying == {"copyin", "urgent", "copyout"}
Sending == {"send", "copyin", "urgent"}

\* A thread that copies has a block, one that sends a message, and no other has.
Carried(p, c) ==
  /\ p \in [Peers -> Queue!Places]
  /\ c \in [Peers -> CallRecords]
  /\ \A t \in Peers : p[t] \in Sending \/ Text(c[t]) = None
  /\ \A t \in Peers : Blk(c[t]) # 0 <=> p[t] \in Copying

QState(r, p, m, c, g, qs, fs) ==
  /\ MailWaits(r, p)
  /\ Served(r, p, Len(qs), Len(fs))
  /\ Shape(m, qs, fs)
  /\ Owned(c, qs, fs)
  /\ Carried(p, c)
  /\ g \in Values \cup {None}

\* The fields of a pool, the status of a thread, and a function changed at t.
DataOf(m) == m.data
FreeOf(m) == m.free
FrontOf(m) == m.head
CountOf(m) == m.entry
Runs(r, t) == r.stat[t] = "ready"
Failed(r, t) == r.err[t] # "ok"
Puts(f, f2, t, x) == f2 = [f EXCEPT ![t] = x]

\* e is the call that sends v and holds the block b.
IsCall(e, v, b) ==
  /\ e \in CallRecords /\ Text(e) = v /\ Blk(e) = b
  /\ v \in Values \cup {None} /\ b \in 0 .. Capacity

LEMMA CallFields ==
  ASSUME NEW e \in CallRecords
  PROVE  Text(e) \in Values \cup {None} /\ Blk(e) \in 0 .. Capacity
BY DEF CallRecords, Text, Blk

LEMMA CallOf ==
  ASSUME NEW v \in Values \cup {None}, NEW b \in 0 .. Capacity,
         NEW e, e = [NoBlock EXCEPT !.msg = v, !.blk = b]
  PROVE  IsCall(e, v, b)
BY DEF IsCall, CallRecords, Text, Blk, NoBlock, Patience

LEMMA NoCallOf == IsCall(NoBlock, None, 0)
<1>1. 0 \in 0 .. Capacity
  BY ObjectsAssumption
<1> QED
  BY <1>1 DEF IsCall, CallRecords, Text, Blk, NoBlock, Patience

LEMMA CarriedFields ==
  ASSUME NEW p, NEW c, Carried(p, c)
  PROVE  /\ \A u \in Peers : Blk(c[u]) # 0 => Blk(c[u]) \in Pool
         /\ \A u \in Peers : c[u] \in CallRecords /\ p[u] \in Queue!Places
         /\ \A u \in Peers : p[u] \in Copying => Blk(c[u]) \in Pool
         /\ \A u \in Peers : Text(c[u]) \in Values \cup {None} /\ Blk(c[u]) \in 0 .. Capacity
         /\ 0 \notin Pool
<1>1. Capacity \in Nat /\ 0 \notin Pool
  BY ObjectsAssumption DEF Pool
<1>2. \A u \in Peers : c[u] \in CallRecords /\ p[u] \in Queue!Places
  BY DEF Carried
<1>3. \A u \in Peers : Text(c[u]) \in Values \cup {None} /\ Blk(c[u]) \in 0 .. Capacity
  BY <1>2, CallFields
<1>4. \A u \in Peers : Blk(c[u]) # 0 => Blk(c[u]) \in Pool
  BY <1>1, <1>3 DEF Pool
<1> QED
  BY <1>1, <1>2, <1>3, <1>4 DEF Carried

\* t goes to the place x with the call e.
LEMMA CarriedMoves ==
  ASSUME NEW p, NEW c, Carried(p, c), NEW t \in Peers, NEW x \in Queue!Places,
         NEW e, NEW v, NEW b, IsCall(e, v, b), x \in Sending \/ v = None,
         b # 0 <=> x \in Copying, NEW p2, Puts(p, p2, t, x), NEW c2, Puts(c, c2, t, e)
  PROVE  Carried(p2, c2) /\ Moved(p, p2, t, x) /\ Moved(c, c2, t, e)
<1>1. p2 \in [Peers -> Queue!Places] /\ Moved(p, p2, t, x)
  BY DEF Carried, Moved, Puts
<1>2. e \in CallRecords /\ Text(e) = v /\ Blk(e) = b
  BY DEF IsCall
<1>3. c2 \in [Peers -> CallRecords] /\ Moved(c, c2, t, e)
  BY <1>2 DEF Carried, Moved, Puts
<1>4. \A u \in Peers : p2[u] \in Sending \/ Text(c2[u]) = None
  BY <1>1, <1>2, <1>3 DEF Carried, Moved
<1>5. \A u \in Peers : Blk(c2[u]) # 0 <=> p2[u] \in Copying
  BY <1>1, <1>2, <1>3 DEF Carried, Moved
<1> QED
  BY <1>1, <1>3, <1>4, <1>5 DEF Carried

\* What the blocks in hand become.
LEMMA HandsMoved ==
  ASSUME NEW c, NEW c2, NEW t \in Peers, NEW e, Moved(c, c2, t, e)
  PROVE  Blk(c2[t]) = Blk(e) /\ \A u \in Peers \ {t} : Blk(c2[u]) = Blk(c[u])
BY DEF Moved

LEMMA QParts ==
  ASSUME NEW r, NEW p, NEW m, NEW c, NEW g, NEW qs, NEW fs, QState(r, p, m, c, g, qs, fs)
  PROVE  /\ qs \in Seq(Pool) /\ fs \in Seq(Pool)
         /\ Shape(m, qs, fs) /\ MailWaits(r, p) /\ Served(r, p, Len(qs), Len(fs))
         /\ Owned(c, qs, fs) /\ Carried(p, c) /\ g \in Values \cup {None}
BY ShapeFields DEF QState

LEMMA QFields ==
  ASSUME NEW r, NEW p, NEW m, NEW c, NEW g, NEW qs, NEW fs, QState(r, p, m, c, g, qs, fs)
  PROVE  /\ Len(qs) \in Nat /\ Len(fs) \in Nat
         /\ CountOf(m) = Len(qs) /\ (FreeOf(m) = 0 <=> fs = <<>>) /\ (FrontOf(m) = 0 <=> qs = <<>>)
         /\ DataOf(m) \in [Pool -> Values \cup {None}] /\ IsInjective(qs)
         /\ FreeOf(m) \in 0 .. Capacity /\ FrontOf(m) \in 0 .. Capacity
         /\ FreeOf(m) = 0 => Len(fs) = 0
<1>1. Shape(m, qs, fs)
  BY DEF QState
<1>2. /\ qs \in Seq(Pool) /\ fs \in Seq(Pool) /\ m.entry = Len(qs) /\ (m.free = 0 <=> fs = <<>>)
      /\ (m.head = 0 <=> qs = <<>>) /\ m.data \in [Pool -> Values \cup {None}]
      /\ m.free \in 0 .. Capacity /\ m.head \in 0 .. Capacity
  BY <1>1, ShapeFields
<1>3. IsInjective(qs)
  BY <1>1 DEF Shape
<1>4. Len(qs) \in Nat /\ Len(fs) \in Nat /\ (fs = <<>> => Len(fs) = 0)
  BY <1>2
<1> QED
  BY <1>2, <1>3, <1>4 DEF CountOf, FreeOf, FrontOf, DataOf

\* A thread that has not been woken for anything moves on.
LEMMA StepServes ==
  ASSUME NEW r, NEW p, MailWaits(r, p), NEW t \in Peers, Runs(r, t), p[t] # "recv", p[t] # "send",
         NEW p2, NEW x, Moved(p, p2, t, x), x # "recv", x # "send",
         NEW n \in Nat, NEW k \in Nat, Served(r, p, n, k)
  PROVE  MailWaits(r, p2) /\ Served(r, p2, n, k)
<1>1. r.stat[t] = "ready"
  BY DEF Runs
<1>2. /\ MailWaits(r, p2)
      /\ p[t] \notin {"recv", "send"} \/ r.err[t] # "ok" => Served(r, p2, n, k)
  BY <1>1, LeaveServes
<1> QED
  BY <1>2

\* A thread takes a free place, ...
LEMMA TakeServes ==
  ASSUME NEW r, NEW p, MailWaits(r, p), NEW t \in Peers, Runs(r, t), p[t] = "run" \/ p[t] = "send",
         NEW p2, NEW x, Moved(p, p2, t, x), x # "recv", x # "send",
         NEW n \in Nat, NEW k \in Nat, k >= 1, Served(r, p, n, k)
  PROVE  MailWaits(r, p2) /\ Served(r, p2, n, k - 1)
<1>1. r.stat[t] = "ready"
  BY DEF Runs
<1>2. /\ MailWaits(r, p2)
      /\ p[t] \notin {"recv", "send"} \/ r.err[t] # "ok" => Served(r, p2, n, k)
      /\ p[t] = "send" /\ k >= 1 => Served(r, p2, n, k - 1)
  BY <1>1, LeaveServes
<1>3. Served(r, p2, n, k) => Served(r, p2, n, k - 1)
  <2>1. PICK j : j = k - 1
    OBVIOUS
  <2>2. n \in Int /\ k \in Int /\ j \in Int /\ n <= n /\ j <= k
    BY <2>1
  <2>3. Served(r, p2, n, k) => Served(r, p2, n, j)
    BY <2>2, ServedLess
  <2> QED
    BY <2>1, <2>3
<1> QED
  BY <1>2, <1>3

\* ... or a message.
LEMMA FetchServes ==
  ASSUME NEW r, NEW p, MailWaits(r, p), NEW t \in Peers, Runs(r, t), p[t] = "run" \/ p[t] = "recv",
         NEW p2, NEW x, Moved(p, p2, t, x), x # "recv", x # "send",
         NEW n \in Nat, NEW k \in Nat, n >= 1, Served(r, p, n, k)
  PROVE  MailWaits(r, p2) /\ Served(r, p2, n - 1, k)
<1>1. r.stat[t] = "ready"
  BY DEF Runs
<1>2. /\ MailWaits(r, p2)
      /\ p[t] \notin {"recv", "send"} \/ r.err[t] # "ok" => Served(r, p2, n, k)
      /\ p[t] = "recv" /\ n >= 1 => Served(r, p2, n - 1, k)
  BY <1>1, LeaveServes
<1>3. Served(r, p2, n, k) => Served(r, p2, n - 1, k)
  <2>1. PICK j : j = n - 1
    OBVIOUS
  <2>2. n \in Int /\ k \in Int /\ j \in Int /\ k <= k /\ j <= n
    BY <2>1
  <2>3. Served(r, p2, n, k) => Served(r, p2, j, k)
    BY <2>2, ServedLess
  <2> QED
    BY <2>1, <2>3
<1> QED
  BY <1>2, <1>3

\* A thread that was woken for nothing, or finds nothing, gives up.
LEMMA QuitServes ==
  ASSUME NEW r, NEW p, MailWaits(r, p), NEW t \in Peers, Runs(r, t), p[t] = "send" \/ p[t] = "recv",
         NEW p2, NEW x, Moved(p, p2, t, x), x # "recv", x # "send",
         NEW n \in Nat, NEW k \in Nat, Served(r, p, n, k),
         Failed(r, t) \/ (p[t] = "send" /\ k = 0) \/ (p[t] = "recv" /\ n = 0)
  PROVE  MailWaits(r, p2) /\ Served(r, p2, n, k)
<1>1. r.stat[t] = "ready" /\ (Failed(r, t) => r.err[t] # "ok")
  BY DEF Runs, Failed
<1>2. /\ MailWaits(r, p2)
      /\ p[t] \notin {"recv", "send"} \/ r.err[t] # "ok" => Served(r, p2, n, k)
      /\ p[t] = "recv" /\ n = 0 => Served(r, p2, n, k)
      /\ p[t] = "send" /\ k = 0 => Served(r, p2, n, k)
  BY <1>1, LeaveServes
<1> QED
  BY <1>1, <1>2

\* A sender takes a block, at once or after a wait.
LEMMA QTakes ==
  ASSUME NEW r, NEW p, NEW m, NEW c, NEW g, NEW qs, NEW fs, QState(r, p, m, c, g, qs, fs),
         NEW t \in Peers, Runs(r, t), p[t] = "run" \/ p[t] = "send", FreeOf(m) # 0,
         NEW x, x = "copyin" \/ x = "urgent", NEW e, NEW v, NEW b, b = FreeOf(m), IsCall(e, v, b),
         NEW m2, m2 = Queue!TakeBlock(m), NEW p2, Puts(p, p2, t, x), NEW c2, Puts(c, c2, t, e)
  PROVE  /\ QState(r, p2, m2, c2, g, qs, Tail(fs)) /\ DataOf(m2) = DataOf(m)
         /\ Moved(p, p2, t, x) /\ Moved(c, c2, t, e)
<1>1. /\ Shape(m, qs, fs) /\ MailWaits(r, p) /\ Owned(c, qs, fs) /\ Carried(p, c)
      /\ g \in Values \cup {None}
  BY QParts
<1>2. /\ Shape(m2, qs, Tail(fs)) /\ DataOf(m2) = DataOf(m)
      /\ fs # <<>> /\ b \in Pool /\ Contains(fs, b)
      /\ \A y : Contains(Tail(fs), y) <=> Contains(fs, y) /\ y # b
  BY <1>1, TakeShape DEF FreeOf, DataOf
<1>3. b # 0
  BY <1>1, <1>2, CarriedFields
<1>4. x \in Queue!Places /\ x \in Sending /\ x \in Copying /\ x # "recv" /\ x # "send"
  BY DEF Queue!Places, Copying, Sending
<1>5. Carried(p2, c2) /\ Moved(p, p2, t, x) /\ Moved(c, c2, t, e)
  BY <1>1, <1>3, <1>4, CarriedMoves
<1>6. Owned(c2, qs, Tail(fs))
  <2>1. \A y \in Pool : Idle(qs, Tail(fs), y) <=> Idle(qs, fs, y) /\ y # b
    BY <1>1, <1>2 DEF Idle, Shape
  <2>2. Idle(qs, fs, b)
    BY <1>2 DEF Idle
  <2>3. \A u \in Peers : Blk(c[u]) # 0 => Blk(c[u]) \in Pool
    BY <1>1, CarriedFields
  <2>4. Blk(c2[t]) = b /\ \A u \in Peers \ {t} : Blk(c2[u]) = Blk(c[u])
    <3>1. Blk(e) = b
      BY DEF IsCall
    <3> QED
      BY <1>5, <3>1 DEF Moved
  <2>5. Blk(c[t]) = 0
    BY <1>1 DEF Carried, Copying
  <2>6. PICK f2 : f2 = Tail(fs)
    OBVIOUS
  <2>7. Owned(c2, qs, f2)
    BY <1>1, <1>2, <2>1, <2>2, <2>3, <2>4, <2>5, <2>6, OwnedTake
  <2> QED
    BY <2>6, <2>7
<1>7. MailWaits(r, p2) /\ Served(r, p2, Len(qs), Len(Tail(fs)))
  <2>1. Len(fs) >= 1 /\ Len(Tail(fs)) = Len(fs) - 1
    BY <1>2, QParts
  <2>2. PICK n, k : n = Len(qs) /\ k = Len(fs)
    OBVIOUS
  <2>3. n \in Nat /\ k \in Nat /\ k >= 1 /\ Len(Tail(fs)) = k - 1
    BY <2>1, <2>2, QFields
  <2>4. Served(r, p, n, k)
    BY <2>2, QParts
  <2>5. MailWaits(r, p2) /\ Served(r, p2, n, k - 1)
    BY <1>1, <1>4, <1>5, <2>3, <2>4, TakeServes
  <2> QED
    BY <2>2, <2>3, <2>5
<1> QED
  BY <1>1, <1>2, <1>5, <1>6, <1>7 DEF QState

\* A receiver takes a message out, at once or after a wait.
LEMMA QFetches ==
  ASSUME NEW r, NEW p, NEW m, NEW c, NEW g, NEW qs, NEW fs, QState(r, p, m, c, g, qs, fs),
         NEW t \in Peers, Runs(r, t), p[t] = "run" \/ p[t] = "recv", CountOf(m) # 0,
         NEW e, NEW b, b = FrontOf(m), IsCall(e, None, b), NEW m2, m2 = Queue!Dequeue(m),
         NEW p2, Puts(p, p2, t, "copyout"), NEW c2, Puts(c, c2, t, e)
  PROVE  /\ QState(r, p2, m2, c2, g, Tail(qs), fs) /\ DataOf(m2) = DataOf(m)
         /\ Moved(p, p2, t, "copyout") /\ Moved(c, c2, t, e)
         /\ qs # <<>> /\ b = Head(qs)
<1>1. /\ Shape(m, qs, fs) /\ MailWaits(r, p) /\ Owned(c, qs, fs) /\ Carried(p, c)
      /\ g \in Values \cup {None}
  BY QParts
<1>2. /\ Shape(m2, Tail(qs), fs) /\ DataOf(m2) = DataOf(m)
      /\ qs # <<>> /\ b = Head(qs) /\ b \in Pool /\ Contains(qs, b)
      /\ \A y : Contains(Tail(qs), y) <=> Contains(qs, y) /\ y # b
  BY <1>1, DequeueShape DEF FrontOf, DataOf, CountOf
<1>3. b # 0
  BY <1>1, <1>2, CarriedFields
<1>4. "copyout" \in Queue!Places /\ "copyout" \in Copying
  BY DEF Queue!Places, Copying
<1>5. Carried(p2, c2) /\ Moved(p, p2, t, "copyout") /\ Moved(c, c2, t, e)
  BY <1>1, <1>3, <1>4, CarriedMoves
<1>6. Owned(c2, Tail(qs), fs)
  <2>1. \A y \in Pool : Idle(Tail(qs), fs, y) <=> Idle(qs, fs, y) /\ y # b
    BY <1>1, <1>2 DEF Idle, Shape
  <2>2. Idle(qs, fs, b)
    BY <1>2 DEF Idle
  <2>3. \A u \in Peers : Blk(c[u]) # 0 => Blk(c[u]) \in Pool
    BY <1>1, CarriedFields
  <2>4. Blk(c2[t]) = b /\ \A u \in Peers \ {t} : Blk(c2[u]) = Blk(c[u])
    <3>1. Blk(e) = b
      BY DEF IsCall
    <3>2. Blk(c2[t]) = Blk(e) /\ \A u \in Peers \ {t} : Blk(c2[u]) = Blk(c[u])
      BY <1>5, HandsMoved
    <3> QED
      BY <3>1, <3>2
  <2>5. Blk(c[t]) = 0
    BY <1>1 DEF Carried, Copying
  <2>6. PICK q2 : q2 = Tail(qs)
    OBVIOUS
  <2>7. Owned(c2, q2, fs)
    BY <1>1, <1>2, <2>1, <2>2, <2>3, <2>4, <2>5, <2>6, OwnedTake
  <2> QED
    BY <2>6, <2>7
<1>7. MailWaits(r, p2) /\ Served(r, p2, Len(Tail(qs)), Len(fs))
  <2>1. Len(qs) >= 1 /\ Len(Tail(qs)) = Len(qs) - 1
    BY <1>2, QParts
  <2>2. PICK n, k : n = Len(qs) /\ k = Len(fs)
    OBVIOUS
  <2>3. n \in Nat /\ k \in Nat /\ n >= 1 /\ Len(Tail(qs)) = n - 1
    BY <2>1, <2>2, QFields
  <2>4. Served(r, p, n, k)
    BY <2>2, QParts
  <2>5. MailWaits(r, p2) /\ Served(r, p2, n - 1, k)
    BY <1>1, <1>5, <2>3, <2>4, FetchServes
  <2> QED
    BY <2>2, <2>3, <2>5
<1> QED
  BY <1>1, <1>2, <1>5, <1>6, <1>7 DEF QState

LEMMA FrontContains ==
  ASSUME NEW q \in Seq(Pool), NEW c \in Pool
  PROVE  /\ Len(<<c>> \o q) = Len(q) + 1
         /\ \A b : Contains(<<c>> \o q, b) <=> Contains(q, b) \/ b = c
<1>1. <<c>> \in Seq(Pool) /\ Len(<<c>>) = 1 /\ <<c>>[1] = c
  OBVIOUS
<1>2. PICK r : r = <<c>> \o q
  OBVIOUS
<1>3. /\ r \in Seq(Pool) /\ Len(r) = Len(q) + 1 /\ r[1] = c
      /\ \A i \in 2 .. Len(q) + 1 : r[i] = q[i - 1]
  BY <1>1, <1>2, ConcatProperties
<1>4. ASSUME NEW b, Contains(r, b)
      PROVE  Contains(q, b) \/ b = c
  BY <1>3, <1>4 DEF Contains
<1>5. ASSUME NEW b, Contains(q, b)
      PROVE  Contains(r, b)
  <2>1. PICK i \in 1 .. Len(q) : q[i] = b
    BY <1>5 DEF Contains
  <2>2. i + 1 \in 2 .. Len(q) + 1 /\ i + 1 \in 1 .. Len(r) /\ (i + 1) - 1 = i
    BY <1>3
  <2>3. r[i + 1] = b
    BY <1>3, <2>1, <2>2
  <2> QED
    BY <1>3, <2>2, <2>3 DEF Contains
<1>6. Contains(r, c)
  BY <1>3 DEF Contains
<1> QED
  BY <1>2, <1>3, <1>4, <1>5, <1>6

LEMMA BackContains ==
  ASSUME NEW q \in Seq(Pool), NEW c \in Pool
  PROVE  /\ Len(Append(q, c)) = Len(q) + 1
         /\ \A b : Contains(Append(q, c), b) <=> Contains(q, b) \/ b = c
<1>1. PICK r : r = Append(q, c)
  OBVIOUS
<1>2. /\ r \in Seq(Pool) /\ Len(r) = Len(q) + 1 /\ r[Len(q) + 1] = c
      /\ \A i \in 1 .. Len(q) : r[i] = q[i]
  BY <1>1, AppendProperties
<1> QED
  BY <1>1, <1>2 DEF Contains

\* A sender has filled its block and links it, behind the others or in front.
Linked(w, m2, qs, q2, b) ==
  \/ q2 = Append(qs, b) /\ m2 = Queue!Enqueue(w, b)
  \/ q2 = <<b>> \o qs /\ m2 = Queue!EnqueueFirst(w, b)

LEMMA LinkedShape ==
  ASSUME NEW w, NEW qs, NEW fs, Shape(w, qs, fs), NEW b \in Pool, ~Contains(qs, b),
         ~Contains(fs, b), NEW q2, NEW m2, Linked(w, m2, qs, q2, b)
  PROVE  /\ Shape(m2, q2, fs) /\ DataOf(m2) = DataOf(w)
         /\ Len(q2) = Len(qs) + 1 /\ \A x : Contains(q2, x) <=> Contains(qs, x) \/ x = b
<1>0. qs \in Seq(Pool)
  BY ShapeFields
<1>1. CASE q2 = Append(qs, b) /\ m2 = Queue!Enqueue(w, b)
  <2>1. Shape(m2, Append(qs, b), fs) /\ m2.data = w.data
    BY <1>1, EnqueueShape
  <2>2. /\ Len(Append(qs, b)) = Len(qs) + 1
        /\ \A x : Contains(Append(qs, b), x) <=> Contains(qs, x) \/ x = b
    BY <1>0, BackContains
  <2> QED
    BY <1>1, <2>1, <2>2 DEF DataOf
<1>2. CASE q2 = <<b>> \o qs /\ m2 = Queue!EnqueueFirst(w, b)
  <2>1. Shape(m2, <<b>> \o qs, fs) /\ m2.data = w.data
    BY <1>2, EnqueueFirstShape
  <2>2. /\ Len(<<b>> \o qs) = Len(qs) + 1
        /\ \A x : Contains(<<b>> \o qs, x) <=> Contains(qs, x) \/ x = b
    BY <1>0, FrontContains
  <2> QED
    BY <1>2, <2>1, <2>2 DEF DataOf
<1> QED
  BY <1>1, <1>2 DEF Linked

\* What a block holds after it was filled.
Filled(m, m2, b, v) == DataOf(m2)[b] = v /\ \A x \in Pool \ {b} : DataOf(m2)[x] = DataOf(m)[x]

LEMMA CopyFills ==
  ASSUME NEW m, NEW qs, NEW fs, Shape(m, qs, fs), NEW b \in Pool, NEW v \in Values \cup {None},
         NEW w, w = Queue!CopyIn(m, b, v)
  PROVE  Shape(w, qs, fs) /\ Filled(m, w, b, v)
BY CopyShape DEF Filled, DataOf

LEMMA QLinks ==
  ASSUME NEW r, NEW p, NEW m, NEW c, NEW g, NEW qs, NEW fs, QState(r, p, m, c, g, qs, fs),
         NEW t \in Peers, Runs(r, t), p[t] = "copyin" \/ p[t] = "urgent",
         NEW b, b = Blk(c[t]), NEW v, v = Text(c[t]), NEW w, w = Queue!CopyIn(m, b, v),
         NEW q2, NEW m2, Linked(w, m2, qs, q2, b), NEW r2, r2 = WakeFirst(r, "receivers"),
         NEW p2, Puts(p, p2, t, "run"), NEW c2, Puts(c, c2, t, NoBlock)
  PROVE  /\ QState(r2, p2, m2, c2, g, q2, fs) /\ Moved(p, p2, t, "run")
         /\ Moved(c, c2, t, NoBlock) /\ b \in Pool /\ Len(qs) < Capacity
         /\ Filled(m, m2, b, v) /\ ~Contains(qs, b)
<1>1. /\ qs \in Seq(Pool) /\ Shape(m, qs, fs) /\ MailWaits(r, p) /\ Owned(c, qs, fs) /\ Carried(p, c)
      /\ g \in Values \cup {None}
  BY QParts
<1>2. p[t] \in Copying /\ p[t] # "recv" /\ p[t] # "send"
  BY DEF Copying
<1>3. b \in Pool /\ b # 0 /\ v \in Values \cup {None} /\ 0 \notin Pool
  BY <1>1, <1>2, CarriedFields
<1>4. ~Contains(qs, b) /\ ~Contains(fs, b)
  BY <1>1, <1>3 DEF Owned, Idle
<1>5. Shape(w, qs, fs) /\ Filled(m, w, b, v)
  BY <1>1, <1>3, CopyFills
<1>6. /\ Shape(m2, q2, fs) /\ DataOf(m2) = DataOf(w)
      /\ Len(q2) = Len(qs) + 1 /\ \A x : Contains(q2, x) <=> Contains(qs, x) \/ x = b
  BY <1>3, <1>4, <1>5, LinkedShape
<1>7. Filled(m, m2, b, v)
  BY <1>5, <1>6 DEF Filled
<1>8. Len(qs) < Capacity
  BY <1>1, <1>3, <1>4, QFields, PoolBound
<1>9. "run" \in Queue!Places /\ "run" \notin Copying
  BY DEF Queue!Places, Copying
<1>10. Carried(p2, c2) /\ Moved(p, p2, t, "run") /\ Moved(c, c2, t, NoBlock)
  BY <1>1, <1>9, NoCallOf, CarriedMoves
<1>11. Owned(c2, q2, fs)
  <2>1. \A x \in Pool : Idle(q2, fs, x) <=> Idle(qs, fs, x) \/ x = Blk(c[t])
    BY <1>6 DEF Idle
  <2>2. Blk(c2[t]) = 0 /\ \A u \in Peers \ {t} : Blk(c2[u]) = Blk(c[u])
    <3>1. Blk(NoBlock) = 0
      BY NoCallOf DEF IsCall
    <3>2. Blk(c2[t]) = Blk(NoBlock) /\ \A u \in Peers \ {t} : Blk(c2[u]) = Blk(c[u])
      BY <1>10, HandsMoved
    <3> QED
      BY <3>1, <3>2
  <2>3. \A u \in Peers : Blk(c[u]) # 0 => Blk(c[u]) \in Pool
    BY <1>1, CarriedFields
  <2> QED
    BY <1>1, <1>3, <2>1, <2>2, <2>3, OwnedGive
<1>12. MailWaits(r2, p2) /\ Served(r2, p2, Len(q2), Len(fs))
  <2>1. PICK n, k : n = Len(qs) /\ k = Len(fs)
    OBVIOUS
  <2>2. n \in Nat /\ k \in Nat
    BY <2>1, QFields
  <2>3. Served(r, p, n, k)
    BY <2>1, QParts
  <2>4. MailWaits(r, p2) /\ Served(r, p2, n, k)
    BY <1>1, <1>2, <1>10, <2>2, <2>3, StepServes
  <2>5. MailWaits(r2, p2) /\ Served(r2, p2, n + 1, k)
    BY <2>2, <2>4, WakeFirstServes DEF Queues
  <2> QED
    BY <1>6, <2>1, <2>5
<1> QED
  BY <1>1, <1>3, <1>4, <1>6, <1>7, <1>8, <1>10, <1>11, <1>12 DEF QState

\* A receiver has copied its message and gives the block back.
LEMMA QFrees ==
  ASSUME NEW r, NEW p, NEW m, NEW c, NEW g, NEW qs, NEW fs, QState(r, p, m, c, g, qs, fs),
         NEW t \in Peers, Runs(r, t), p[t] = "copyout",
         NEW b, b = Blk(c[t]), NEW m2, m2 = Queue!FreeBlock(m, b), NEW g2, g2 = DataOf(m)[b],
         NEW r2, r2 = WakeFirst(r, "senders"),
         NEW p2, Puts(p, p2, t, "run"), NEW c2, Puts(c, c2, t, NoBlock)
  PROVE  /\ QState(r2, p2, m2, c2, g2, qs, <<b>> \o fs) /\ Moved(p, p2, t, "run")
         /\ DataOf(m2) = DataOf(m) /\ Moved(c, c2, t, NoBlock)
<1>1. Shape(m, qs, fs) /\ MailWaits(r, p) /\ Owned(c, qs, fs) /\ Carried(p, c)
  BY QParts
<1>2. p[t] \in Copying
  BY DEF Copying
<1>3. b \in Pool /\ b # 0 /\ 0 \notin Pool
  BY <1>1, <1>2, CarriedFields
<1>4. ~Contains(qs, b) /\ ~Contains(fs, b)
  BY <1>1, <1>3 DEF Owned, Idle
<1>5. PICK f2 : f2 = <<b>> \o fs
  OBVIOUS
<1>6. /\ Shape(m2, qs, f2) /\ DataOf(m2) = DataOf(m) /\ Len(f2) = Len(fs) + 1
      /\ \A x : Contains(f2, x) <=> Contains(fs, x) \/ x = b
  BY <1>1, <1>3, <1>4, <1>5, FreeShape DEF DataOf
<1>7. "run" \in Queue!Places /\ "run" \notin Copying
  BY DEF Queue!Places, Copying
<1>8. Carried(p2, c2) /\ Moved(p, p2, t, "run") /\ Moved(c, c2, t, NoBlock)
  BY <1>1, <1>7, NoCallOf, CarriedMoves
<1>9. Owned(c2, qs, f2)
  <2>1. \A x \in Pool : Idle(qs, f2, x) <=> Idle(qs, fs, x) \/ x = Blk(c[t])
    BY <1>6 DEF Idle
  <2>2. Blk(c2[t]) = 0 /\ \A u \in Peers \ {t} : Blk(c2[u]) = Blk(c[u])
    <3>1. Blk(NoBlock) = 0
      BY NoCallOf DEF IsCall
    <3>2. Blk(c2[t]) = Blk(NoBlock) /\ \A u \in Peers \ {t} : Blk(c2[u]) = Blk(c[u])
      BY <1>8, HandsMoved
    <3> QED
      BY <3>1, <3>2
  <2>3. \A u \in Peers : Blk(c[u]) # 0 => Blk(c[u]) \in Pool
    BY <1>1, CarriedFields
  <2> QED
    BY <1>1, <1>3, <2>1, <2>2, <2>3, OwnedGive
<1>10. MailWaits(r2, p2) /\ Served(r2, p2, Len(qs), Len(f2))
  <2>1. PICK n, k : n = Len(qs) /\ k = Len(fs)
    OBVIOUS
  <2>2. n \in Nat /\ k \in Nat
    BY <2>1, QFields
  <2>3. Served(r, p, n, k)
    BY <2>1, QParts
  <2>4. MailWaits(r, p2) /\ Served(r, p2, n, k)
    BY <1>1, <1>8, <2>2, <2>3, StepServes
  <2>5. MailWaits(r2, p2) /\ Served(r2, p2, n, k + 1)
    BY <2>2, <2>4, WakeFirstServes DEF Queues
  <2> QED
    BY <1>6, <2>1, <2>5
<1>11. g2 \in Values \cup {None}
  BY <1>3, QFields
<1>12. QState(r2, p2, m2, c2, g2, qs, f2)
  BY <1>6, <1>8, <1>9, <1>10, <1>11 DEF QState
<1> QED
  BY <1>5, <1>6, <1>8, <1>12

\* A call that finds no block or no message waits, for the first time or again.
LEMMA QWaits ==
  ASSUME NEW r, NEW p, NEW m, NEW c, NEW g, NEW qs, NEW fs, QState(r, p, m, c, g, qs, fs),
         NEW t \in Peers, Runs(r, t), NEW q \in Queues, p[t] = "run" \/ p[t] = PlaceOf(q),
         q = "receivers" => CountOf(m) = 0, q = "senders" => FreeOf(m) = 0,
         NEW left, NEW r2, r2 = Suspend(Told1(r, t, "ok"), q, t, left),
         NEW p2, Puts(p, p2, t, PlaceOf(q)),
         NEW e, NEW v, IsCall(e, v, 0), q = "receivers" => v = None, NEW c2, Puts(c, c2, t, e)
  PROVE  /\ QState(r2, p2, m, c2, g, qs, fs) /\ Moved(p, p2, t, PlaceOf(q))
         /\ Moved(c, c2, t, e)
<1>1. /\ Shape(m, qs, fs) /\ MailWaits(r, p) /\ Owned(c, qs, fs) /\ Carried(p, c)
      /\ g \in Values \cup {None}
  BY QParts
<1>2. PICK x : x = PlaceOf(q)
  OBVIOUS
<1>3. x \in Queue!Places /\ x \notin Copying /\ (x \in Sending \/ v = None)
      /\ p[t] \notin Copying /\ (p[t] = "run" \/ p[t] = x)
  BY <1>2 DEF PlaceOf, Queue!Places, Copying, Queues, Sending
<1>4. Carried(p2, c2) /\ Moved(p, p2, t, x) /\ Moved(c, c2, t, e)
  BY <1>1, <1>2, <1>3, CarriedMoves
<1>5. Owned(c2, qs, fs)
  <2>1. Blk(c[t]) = 0
    BY <1>1, <1>3 DEF Carried
  <2>2. Blk(c2[t]) = 0 /\ \A u \in Peers \ {t} : Blk(c2[u]) = Blk(c[u])
    <3>1. Blk(e) = 0
      BY DEF IsCall
    <3>2. Blk(c2[t]) = Blk(e) /\ \A u \in Peers \ {t} : Blk(c2[u]) = Blk(c[u])
      BY <1>4, HandsMoved
    <3> QED
      BY <3>1, <3>2
  <2>3. \A u \in Peers : Blk(c2[u]) = Blk(c[u])
    BY <2>1, <2>2
  <2>4. \A u \in Peers : Blk(c[u]) # 0 => Blk(c[u]) \in Pool
    BY <1>1, CarriedFields
  <2> QED
    BY <1>1, <2>3, <2>4, OwnedKept
<1>6. MailWaits(r2, p2) /\ Served(r2, p2, Len(qs), Len(fs))
  <2>1. PICK n, k : n = Len(qs) /\ k = Len(fs)
    OBVIOUS
  <2>2. n \in Nat /\ k \in Nat /\ (q = "receivers" => n = 0) /\ (q = "senders" => k = 0)
    BY <2>1, QFields
  <2>3. Served(r, p, n, k)
    BY <2>1, QParts
  <2>4. r.stat[t] = "ready" /\ Moved(p, p2, t, PlaceOf(q)) /\ p[t] \in {"run", PlaceOf(q)}
    BY <1>2, <1>4 DEF Runs
  <2>5. MailWaits(r2, p2) /\ Served(r2, p2, n, k)
    BY <1>1, <2>2, <2>3, <2>4, SleepServes
  <2> QED
    BY <2>1, <2>5
<1>7. QState(r2, p2, m, c2, g, qs, fs)
  BY <1>1, <1>4, <1>5, <1>6 DEF QState
<1> QED
  BY <1>2, <1>4, <1>7

\* A wait that failed, or a call whose patience is over, returns.
LEMMA QLeaves ==
  ASSUME NEW r, NEW p, NEW m, NEW c, NEW g, NEW qs, NEW fs, QState(r, p, m, c, g, qs, fs),
         NEW t \in Peers, Runs(r, t), p[t] = "send" \/ p[t] = "recv",
         \/ Failed(r, t)
         \/ p[t] = "send" /\ FreeOf(m) = 0
         \/ p[t] = "recv" /\ CountOf(m) = 0,
         NEW r2, r2 = r \/ r2 = Told1(r, t, "timeout"),
         NEW p2, Puts(p, p2, t, "run"), NEW c2, Puts(c, c2, t, NoBlock)
  PROVE  /\ QState(r2, p2, m, c2, g, qs, fs) /\ Moved(p, p2, t, "run")
         /\ Moved(c, c2, t, NoBlock)
<1>1. /\ Shape(m, qs, fs) /\ MailWaits(r, p) /\ Owned(c, qs, fs) /\ Carried(p, c)
      /\ g \in Values \cup {None}
  BY QParts
<1>2. "run" \in Queue!Places /\ "run" \notin Copying /\ p[t] \notin Copying
  BY DEF Queue!Places, Copying
<1>3. Carried(p2, c2) /\ Moved(p, p2, t, "run") /\ Moved(c, c2, t, NoBlock)
  BY <1>1, <1>2, NoCallOf, CarriedMoves
<1>4. Owned(c2, qs, fs)
  <2>1. Blk(c[t]) = 0
    BY <1>1, <1>2 DEF Carried
  <2>2. Blk(c2[t]) = 0 /\ \A u \in Peers \ {t} : Blk(c2[u]) = Blk(c[u])
    <3>1. Blk(NoBlock) = 0
      BY NoCallOf DEF IsCall
    <3>2. Blk(c2[t]) = Blk(NoBlock) /\ \A u \in Peers \ {t} : Blk(c2[u]) = Blk(c[u])
      BY <1>3, HandsMoved
    <3> QED
      BY <3>1, <3>2
  <2>3. \A u \in Peers : Blk(c2[u]) = Blk(c[u])
    BY <2>1, <2>2
  <2>4. \A u \in Peers : Blk(c[u]) # 0 => Blk(c[u]) \in Pool
    BY <1>1, CarriedFields
  <2> QED
    BY <1>1, <2>3, <2>4, OwnedKept
<1>5. MailWaits(r2, p2) /\ Served(r2, p2, Len(qs), Len(fs))
  <2>1. PICK n, k : n = Len(qs) /\ k = Len(fs)
    OBVIOUS
  <2>2. n \in Nat /\ k \in Nat
    BY <2>1, QFields
  <2>3. Served(r, p, n, k)
    BY <2>1, QParts
  <2>4. Failed(r, t) \/ (p[t] = "send" /\ k = 0) \/ (p[t] = "recv" /\ n = 0)
    BY <2>1, QFields
  <2>5. MailWaits(r, p2) /\ Served(r, p2, n, k)
    BY <1>1, <1>3, <2>2, <2>3, <2>4, QuitServes
  <2>6. MailWaits(r2, p2) /\ Served(r2, p2, n, k)
    <3>1. p2[t] \notin {"recv", "send"} /\ "timeout" \in Errors /\ r.stat[t] = "ready"
      BY <1>3 DEF Moved, Errors, Runs
    <3> QED
      BY <2>5, <3>1, TellServes
  <2> QED
    BY <2>1, <2>6
<1>6. QState(r2, p2, m, c2, g, qs, fs)
  BY <1>1, <1>3, <1>4, <1>5 DEF QState
<1> QED
  BY <1>3, <1>6

\* A handler sends in one step.
LEMMA QSendsNow ==
  ASSUME NEW r, NEW p, NEW m, NEW c, NEW g, NEW qs, NEW fs, QState(r, p, m, c, g, qs, fs),
         FreeOf(m) # 0, NEW v \in Values \cup {None}, NEW b, b = FreeOf(m),
         NEW w, w = Queue!TakeBlock(m), NEW y, y = Queue!CopyIn(w, b, v),
         NEW m2, m2 = Queue!Enqueue(y, b), NEW r2, r2 = WakeFirst(r, "receivers")
  PROVE  /\ QState(r2, p, m2, c, g, Append(qs, b), Tail(fs))
         /\ b \in Pool /\ Len(qs) < Capacity /\ Idle(qs, fs, b) /\ ~Contains(qs, b)
         /\ Filled(m, m2, b, v)
<1>1. /\ qs \in Seq(Pool) /\ fs \in Seq(Pool) /\ Shape(m, qs, fs)
      /\ MailWaits(r, p) /\ Owned(c, qs, fs) /\ Carried(p, c) /\ g \in Values \cup {None}
  BY QParts
<1>2. PICK q2, f2 : q2 = Append(qs, b) /\ f2 = Tail(fs)
  OBVIOUS
<1>3. /\ Shape(w, qs, f2) /\ DataOf(w) = DataOf(m)
      /\ fs # <<>> /\ b = Head(fs) /\ b \in Pool /\ Contains(fs, b)
      /\ \A x : Contains(f2, x) <=> Contains(fs, x) /\ x # b
  BY <1>1, <1>2, TakeShape DEF FreeOf, DataOf
<1>4. ~Contains(qs, b) /\ ~Contains(f2, b)
  BY <1>1, <1>3 DEF Shape
<1>5. Shape(y, qs, f2) /\ Filled(w, y, b, v)
  BY <1>3, CopyFills
<1>6. Linked(y, m2, qs, q2, b)
  BY <1>2 DEF Linked
<1>7. /\ Shape(m2, q2, f2) /\ DataOf(m2) = DataOf(y)
      /\ Len(q2) = Len(qs) + 1 /\ \A x : Contains(q2, x) <=> Contains(qs, x) \/ x = b
  BY <1>3, <1>4, <1>5, <1>6, LinkedShape
<1>8. Filled(m, m2, b, v)
  BY <1>3, <1>5, <1>7 DEF Filled
<1>9. Len(qs) < Capacity
  BY <1>1, <1>3, <1>4, QFields, PoolBound
<1>10. Owned(c, q2, f2)
  <2>1. \A x \in Pool : Idle(q2, f2, x) <=> Idle(qs, fs, x)
    BY <1>3, <1>7 DEF Idle
  <2>2. \A u \in Peers : Blk(c[u]) # 0 => Blk(c[u]) \in Pool
    BY <1>1, CarriedFields
  <2>3. \A u \in Peers : Blk(c[u]) = Blk(c[u])
    OBVIOUS
  <2> QED
    BY <1>1, <2>1, <2>2, <2>3, OwnedKept
<1>11. MailWaits(r2, p) /\ Served(r2, p, Len(q2), Len(f2))
  <2>1. PICK n, k : n = Len(qs) /\ k = Len(fs)
    OBVIOUS
  <2>2. n \in Nat /\ k \in Nat
    BY <2>1, QFields
  <2>3. Served(r, p, n, k)
    BY <2>1, QParts
  <2>4. MailWaits(r2, p) /\ Served(r2, p, n + 1, k)
    BY <1>1, <2>2, <2>3, WakeFirstServes DEF Queues
  <2>5. Len(f2) = k - 1
    BY <1>1, <1>2, <1>3, <2>1
  <2>6. PICK i, j : i = n + 1 /\ j = k - 1
    OBVIOUS
  <2>7. i \in Int /\ k \in Int /\ j \in Int /\ i <= i /\ j <= k
    BY <2>2, <2>6
  <2>8. Served(r2, p, i, k)
    BY <2>4, <2>6
  <2>9. Served(r2, p, i, j)
    BY <2>7, <2>8, ServedLess
  <2> QED
    BY <1>7, <2>1, <2>4, <2>5, <2>6, <2>9
<1>12. QState(r2, p, m2, c, g, q2, f2)
  BY <1>1, <1>7, <1>10, <1>11 DEF QState
<1>13. Idle(qs, fs, b)
  BY <1>3 DEF Idle
<1> QED
  BY <1>2, <1>3, <1>4, <1>8, <1>9, <1>12, <1>13

\* A reset frees every queued block and wakes everybody.
LEMMA QResets ==
  ASSUME NEW r, NEW p, NEW m, NEW c, NEW g, NEW qs, NEW fs, QState(r, p, m, c, g, qs, fs),
         NEW r2, Emptied(r, r2), NEW m2, m2 = Queue!FreeAll(m)
  PROVE  DataOf(m2) = DataOf(m) /\ \E f : QState(r2, p, m2, c, g, <<>>, f)
<1>1. /\ Shape(m, qs, fs) /\ MailWaits(r, p) /\ Owned(c, qs, fs) /\ Carried(p, c)
      /\ g \in Values \cup {None}
  BY QParts
<1>2. DataOf(m2) = DataOf(m)
  BY <1>1, FreeAllShape DEF DataOf
<1>3. PICK f : /\ Shape(m2, <<>>, f)
               /\ \A b : Contains(f, b) <=> Contains(fs, b) \/ Contains(qs, b)
  BY <1>1, FreeAllShape
<1>4. Owned(c, <<>>, f)
  <2>1. \A x \in Pool : Idle(<<>>, f, x) <=> Idle(qs, fs, x)
    BY <1>3 DEF Idle, Contains
  <2>2. \A u \in Peers : Blk(c[u]) # 0 => Blk(c[u]) \in Pool
    BY <1>1, CarriedFields
  <2>3. \A u \in Peers : Blk(c[u]) = Blk(c[u])
    OBVIOUS
  <2> QED
    BY <1>1, <2>1, <2>2, <2>3, OwnedKept
<1>5. PICK n, k : n = Len(<<>>) /\ k = Len(f)
  OBVIOUS
<1>6. MailWaits(r2, p) /\ Served(r2, p, n, k)
  BY <1>1, EmptyServes
<1>7. QState(r2, p, m2, c, g, <<>>, f)
  BY <1>1, <1>3, <1>4, <1>5, <1>6 DEF QState
<1> QED
  BY <1>2, <1>7

\* A message queue is set up when nobody is in a service.
LEMMA QSetsUp ==
  ASSUME NEW r, NEW p, NEW m, NEW c, NEW g, MailWaits(r, p), Carried(p, c),
         \A t \in Peers : p[t] = "run", g \in Values \cup {None},
         m = Queue!Fresh
  PROVE  \E f : QState(r, p, m, c, g, <<>>, f)
<1>1. PICK f : Shape(m, <<>>, f) /\ \A b \in Pool : Contains(f, b)
  BY FreshShape
<1>2. Owned(c, <<>>, f)
  BY <1>1 DEF Owned, Idle, Carried, Copying
<1>3. \A q \in Queues : r.wait[q] = <<>>
  <2> SUFFICES ASSUME NEW q \in Queues, r.wait[q] # <<>>
               PROVE  FALSE
    OBVIOUS
  <2>1. r.wait[q] \in Seq(Peers)
    BY DEF MailWaits, Settled, PeerRecords
  <2>2. Head(r.wait[q]) \in Peers /\ Contains(r.wait[q], Head(r.wait[q]))
    BY <2>1 DEF Contains
  <2> QED
    BY <2>2 DEF MailWaits, PlaceOf
<1>4. PICK n, k : n = Len(<<>>) /\ k = Len(f)
  OBVIOUS
<1>5. Served(r, p, n, k)
  BY <1>3 DEF Served, Queues
<1>6. QState(r, p, m, c, g, <<>>, f)
  BY <1>1, <1>2, <1>4, <1>5 DEF QState
<1> QED
  BY <1>6

\* A wait ends with an error: its timeout has passed, or the queue is destroyed.
LEMMA QWakes ==
  ASSUME NEW r, NEW p, NEW m, NEW c, NEW g, NEW qs, NEW fs, QState(r, p, m, c, g, qs, fs),
         NEW t \in Peers, r.stat[t] = "suspend", NEW e \in Errors \ {"ok"},
         NEW r2, Woke(r, r2, t, e)
  PROVE  QState(r2, p, m, c, g, qs, fs)
<1>1. PICK n, k : n = Len(qs) /\ k = Len(fs)
  OBVIOUS
<1>2. MailWaits(r2, p) /\ Served(r2, p, n, k)
  BY <1>1, FailServes DEF QState
<1> QED
  BY <1>1, <1>2 DEF QState

-----------------------------------------------------------------------------
(* Message queues.                                                         *)

QueueInv == \E qs, fs : QState(th, pc, obj, call, ghost, qs, fs)
QueueKept == QueueInv' /\ [Channel!Next]_Channel!vars

\* A step of a message queue, from a state where qs is queued and fs is free, ...
QueueSteps(qs, fs) ==
  kind = "mq" /\ kind' = "mq" /\ QState(th, pc, obj, call, ghost, qs, fs)

\* ... to one where q2 is queued and f2 is free.
QueueGoes(qs, fs, q2, f2) ==
  QueueSteps(qs, fs) /\ QState(th', pc', obj', call', ghost', q2, f2)

ContentRead == \A qs, fs : Shape(obj, qs, fs) => Queue!Content = Texts(DataOf(obj), qs)

LEMMA QueueContent == ContentRead
BY ShapeLists DEF ContentRead, Queue!Content, Texts, DataOf

PhaseAt(x) ==
  IF x \in {"send", "copyin"} THEN "sending"
  ELSE IF x = "urgent" THEN "urging" ELSE IF x = "copyout" THEN "copying" ELSE "out"

ItemAt(da, x, e) == IF x = "copyout" THEN da[Blk(e)] ELSE Text(e)

LEMMA PhaseOf ==
  /\ PhaseAt("run") = "out" /\ PhaseAt("recv") = "out" /\ PhaseAt("send") = "sending"
  /\ PhaseAt("copyin") = "sending" /\ PhaseAt("urgent") = "urging"
  /\ PhaseAt("copyout") = "copying"
BY DEF PhaseAt

LEMMA ItemOf ==
  ASSUME NEW da, NEW x, NEW e, NEW v, NEW b, IsCall(e, v, b)
  PROVE  ItemAt(da, x, e) = IF x = "copyout" THEN da[b] ELSE v
BY DEF ItemAt, IsCall

LEMMA QueueView ==
  kind = "mq" => \A u \in Peers : /\ ChannelPhase(u) = PhaseAt(pc[u])
                                  /\ ChannelItem(u) = ItemAt(DataOf(obj), pc[u], call[u])
<1>1. \A u : kind = "mq" => ChannelPhase(u) = PhaseAt(pc[u])
  BY DEF ChannelPhase, PhaseAt
<1>2. \A u : PhaseAt(pc[u]) = "copying" <=> pc[u] = "copyout"
  BY DEF PhaseAt
<1> QED
  BY <1>1, <1>2 DEF ChannelItem, ItemAt, DataOf, Blk, Text

LEMMA QueueLine ==
  ASSUME NEW qs, NEW fs, NEW q2, NEW f2, QueueGoes(qs, fs, q2, f2)
  PROVE  /\ QueueInv'
         /\ Line = Texts(DataOf(obj), qs) /\ Line' = Texts(DataOf(obj'), q2)
         /\ Handed = ghost /\ Handed' = ghost'
         /\ \A u \in Peers : /\ ChannelPhase(u) = PhaseAt(pc[u])
                             /\ ChannelPhase(u)' = PhaseAt(pc'[u])
                             /\ ChannelItem(u) = ItemAt(DataOf(obj), pc[u], call[u])
                             /\ ChannelItem(u)' = ItemAt(DataOf(obj'), pc'[u], call'[u])
<1>1. /\ kind = "mq" /\ kind' = "mq" /\ QState(th, pc, obj, call, ghost, qs, fs)
      /\ QState(th', pc', obj', call', ghost', q2, f2)
  BY DEF QueueGoes, QueueSteps
<1>2. QueueInv'
  BY <1>1 DEF QueueInv
<1>3. Queue!Content = Texts(DataOf(obj), qs)
  BY <1>1, QueueContent DEF QState, ContentRead
<1>4. ContentRead'
  BY QueueContent, PTL
<1>5. Queue!Content' = Texts(DataOf(obj'), q2)
  BY <1>1, <1>4 DEF QState, ContentRead
<1>6. (kind = "mq" => \A u \in Peers : /\ ChannelPhase(u) = PhaseAt(pc[u])
                                       /\ ChannelItem(u) = ItemAt(DataOf(obj), pc[u], call[u]))'
  BY QueueView, PTL
<1>7. \A u \in Peers : /\ ChannelPhase(u)' = PhaseAt(pc'[u])
                       /\ ChannelItem(u)' = ItemAt(DataOf(obj'), pc'[u], call'[u])
  BY <1>1, <1>6
<1>8. Line = Texts(DataOf(obj), qs) /\ Line' = Texts(DataOf(obj'), q2)
  BY <1>1, <1>3, <1>5 DEF Line
<1>9. Handed = ghost /\ Handed' = ghost'
  BY <1>1 DEF Handed
<1> QED
  BY <1>1, <1>2, <1>7, <1>8, <1>9, QueueView

\* What the other threads hold stays as it is.
HandsKept(t) ==
  \A u \in Peers \ {t} : pc[u] = "copyout" => DataOf(obj')[Blk(call[u])] = DataOf(obj)[Blk(call[u])]

\* t goes to the place x with the call e, and shows the message v.
LEMMA QueuePasses ==
  ASSUME NEW qs, NEW fs, NEW q2, NEW f2, QueueGoes(qs, fs, q2, f2), NEW t \in Peers,
         NEW x, Moved(pc, pc', t, x), NEW e, Moved(call, call', t, e), HandsKept(t),
         NEW v, v = ItemAt(DataOf(obj'), x, e)
  PROVE  Passes(t, PhaseAt(x), v)
<1>1. \A u \in Peers \ {t} : ItemAt(DataOf(obj'), pc[u], call[u]) = ItemAt(DataOf(obj), pc[u], call[u])
  BY DEF HandsKept, ItemAt
<1>2. \A u \in Peers : /\ pc'[u] = IF u = t THEN x ELSE pc[u]
                       /\ call'[u] = IF u = t THEN e ELSE call[u]
  BY DEF Moved
<1>3. \A u \in Peers : /\ ChannelPhase(u)' = IF u = t THEN PhaseAt(x) ELSE ChannelPhase(u)
                       /\ ChannelItem(u)' = IF u = t THEN v ELSE ChannelItem(u)
  <2> SUFFICES ASSUME NEW u \in Peers
               PROVE  /\ ChannelPhase(u)' = IF u = t THEN PhaseAt(x) ELSE ChannelPhase(u)
                      /\ ChannelItem(u)' = IF u = t THEN v ELSE ChannelItem(u)
    OBVIOUS
  <2>1. /\ ChannelPhase(u) = PhaseAt(pc[u]) /\ ChannelPhase(u)' = PhaseAt(pc'[u])
        /\ ChannelItem(u) = ItemAt(DataOf(obj), pc[u], call[u])
        /\ ChannelItem(u)' = ItemAt(DataOf(obj'), pc'[u], call'[u])
    BY QueueLine
  <2>2. CASE u = t
    BY <1>2, <2>1, <2>2
  <2>3. CASE u # t
    BY <1>1, <1>2, <2>1, <2>3
  <2> QED
    BY <2>2, <2>3
<1> QED
  BY <1>3 DEF Passes

\* Every thread shows the channel what it did before.
SameView ==
  \A u \in Peers :
    /\ PhaseAt(pc'[u]) = PhaseAt(pc[u])
    /\ ItemAt(DataOf(obj'), pc'[u], call'[u]) = ItemAt(DataOf(obj), pc[u], call[u])

LEMMA SameRests ==
  ASSUME NEW qs, NEW fs, NEW q2, NEW f2, QueueGoes(qs, fs, q2, f2), SameView
  PROVE  Rests
<1>1. \A u \in Peers : /\ ChannelPhase(u) = PhaseAt(pc[u])
                       /\ ChannelPhase(u)' = PhaseAt(pc'[u])
                       /\ ChannelItem(u) = ItemAt(DataOf(obj), pc[u], call[u])
                       /\ ChannelItem(u)' = ItemAt(DataOf(obj'), pc'[u], call'[u])
  BY QueueLine
<1> QED
  BY <1>1 DEF Rests, SameView

\* Nothing that the abstract channel sees.
LEMMA QueueQuiet ==
  ASSUME NEW qs, NEW fs, NEW f2, QueueGoes(qs, fs, qs, f2), ghost' = ghost,
         DataOf(obj') = DataOf(obj), SameView
  PROVE  QueueKept
<1>1. Rests
  BY SameRests
<1>2. /\ QueueInv' /\ Line = Texts(DataOf(obj), qs) /\ Line' = Texts(DataOf(obj'), qs)
      /\ Handed = ghost /\ Handed' = ghost'
  BY QueueLine
<1>3. Line' = Line /\ Handed' = Handed
  BY <1>2
<1>4. UNCHANGED Channel!vars
  BY <1>1, <1>3, ChanQuiet
<1> QED
  BY <1>2, <1>4 DEF QueueKept

LEMMA MovedView ==
  ASSUME NEW t \in Peers, NEW x, Moved(pc, pc', t, x), NEW e, Moved(call, call', t, e),
         DataOf(obj') = DataOf(obj), PhaseAt(x) = PhaseAt(pc[t]),
         ItemAt(DataOf(obj), x, e) = ItemAt(DataOf(obj), pc[t], call[t])
  PROVE  SameView
<1>1. \A u \in Peers : /\ pc'[u] = IF u = t THEN x ELSE pc[u]
                       /\ call'[u] = IF u = t THEN e ELSE call[u]
  BY DEF Moved
<1> QED
  BY <1>1 DEF SameView

LEMMA QueueSameHands ==
  ASSUME NEW t \in Peers, DataOf(obj') = DataOf(obj)
  PROVE  HandsKept(t)
BY DEF HandsKept

\* The block b belongs to nobody else.
LEMMA QueueOthersHands ==
  ASSUME NEW p, NEW c, NEW qs, NEW fs, Owned(c, qs, fs), Carried(p, c), NEW t, NEW b \in Pool,
         (t \in Peers /\ Blk(c[t]) = b) \/ Idle(qs, fs, b)
  PROVE  \A u \in Peers \ {t} : p[u] = "copyout" => Blk(c[u]) \in Pool \ {b}
<1> SUFFICES ASSUME NEW u \in Peers \ {t}, p[u] = "copyout"
             PROVE  Blk(c[u]) \in Pool \ {b}
  OBVIOUS
<1>1. Blk(c[u]) \in Pool /\ Blk(c[u]) # 0
  <2>1. p[u] \in Copying
    BY DEF Copying
  <2> QED
    BY <2>1, CarriedFields
<1> QED
  BY <1>1 DEF Owned

LEMMA QueueFields ==
  ASSUME NEW qs, NEW fs, QueueSteps(qs, fs)
  PROVE  /\ QState(th, pc, obj, call, ghost, qs, fs)
         /\ Carried(pc, call) /\ Owned(call, qs, fs) /\ MailWaits(th, pc) /\ th \in PeerRecords
         /\ DataOf(obj) \in [Pool -> Values \cup {None}]
         /\ FreeOf(obj) \in 0 .. Capacity /\ FrontOf(obj) \in 0 .. Capacity
         /\ qs \in Seq(Pool) /\ fs \in Seq(Pool) /\ call \in [Peers -> CallRecords]
         /\ pc \in [Peers -> Queue!Places]
<1>1. QState(th, pc, obj, call, ghost, qs, fs)
  BY DEF QueueSteps
<1>2. Carried(pc, call) /\ Owned(call, qs, fs) /\ MailWaits(th, pc) /\ qs \in Seq(Pool) /\ fs \in Seq(Pool)
  BY <1>1, QParts
<1>3. /\ DataOf(obj) \in [Pool -> Values \cup {None}]
      /\ FreeOf(obj) \in 0 .. Capacity /\ FrontOf(obj) \in 0 .. Capacity
  BY <1>1, QFields
<1> QED
  BY <1>1, <1>2, <1>3 DEF Carried, MailWaits, Settled

\* rt_mq_send_wait and rt_mq_urgent take a block: at once, or after a wait.
LEMMA QueueTakes ==
  ASSUME NEW qs, NEW fs, QueueSteps(qs, fs), NEW t \in Peers, Runs(th, t),
         NEW v, NEW x, x = "copyin" \/ x = "urgent",
         \/ pc[t] = "run" /\ v \in Values
         \/ pc[t] = "send" /\ v = Text(call[t]) /\ x = "copyin",
         FreeOf(obj) # 0, Queue!StartCopy(t, v, x), UNCHANGED <<th, ghost>>
  PROVE  QueueKept
<1>1. v \in Values \cup {None} /\ (pc[t] = "run" \/ pc[t] = "send")
  BY QueueFields, CarriedFields
<1>2. PICK p2, m2, c2, b, e : /\ p2 = pc' /\ m2 = obj' /\ c2 = call' /\ b = FreeOf(obj)
                              /\ e = [NoBlock EXCEPT !.msg = v, !.blk = b]
  OBVIOUS
<1>3. m2 = Queue!TakeBlock(obj) /\ Puts(pc, p2, t, x) /\ Puts(call, c2, t, e)
  BY <1>2 DEF Queue!StartCopy, Queue!Goto, Puts, FreeOf
<1>4. IsCall(e, v, b)
  <2>1. b \in 0 .. Capacity
    BY <1>2, QueueFields
  <2> QED
    BY <1>1, <1>2, <2>1, CallOf
<1>5. PICK f2 : f2 = Tail(fs)
  OBVIOUS
<1>6. /\ QState(th, p2, m2, c2, ghost, qs, f2) /\ DataOf(m2) = DataOf(obj)
      /\ Moved(pc, p2, t, x) /\ Moved(call, c2, t, e)
  <2>1. QState(th, pc, obj, call, ghost, qs, fs) /\ b = FreeOf(obj)
    BY <1>2, QueueFields
  <2> QED
    BY <1>1, <1>3, <1>4, <1>5, <2>1, QTakes
<1>7. /\ QueueGoes(qs, fs, qs, f2) /\ DataOf(obj') = DataOf(obj)
      /\ Moved(pc, pc', t, x) /\ Moved(call, call', t, e)
  BY <1>2, <1>6 DEF QueueGoes
<1>8. \A da : ItemAt(da, x, e) = v
  BY <1>4, ItemOf
<1>9. CASE pc[t] = "run" /\ v \in Values
  <2>1. Passes(t, PhaseAt(x), v)
    BY <1>7, <1>8, QueueSameHands, QueuePasses
  <2>2. PhaseAt(x) = "sending" \/ PhaseAt(x) = "urging"
    BY PhaseOf
  <2>3. ChannelPhase(t) = "out"
    BY <1>7, <1>9, QueueLine, PhaseOf
  <2>4. Line' = Line /\ Handed' = Handed /\ QueueInv'
    BY <1>7, QueueLine
  <2>5. PICK y : y = PhaseAt(x)
    OBVIOUS
  <2>6. y \in {"sending", "urging"} /\ Passes(t, y, v)
    BY <2>1, <2>2, <2>5
  <2>7. Channel!Next
    BY <1>9, <2>3, <2>4, <2>6, ChanBegins
  <2> QED
    BY <2>4, <2>7 DEF QueueKept
<1>10. CASE pc[t] = "send" /\ v = Text(call[t]) /\ x = "copyin"
  <2>1. PhaseAt(x) = PhaseAt(pc[t])
    BY <1>10, PhaseOf
  <2>2. ItemAt(DataOf(obj), x, e) = ItemAt(DataOf(obj), pc[t], call[t])
    BY <1>8, <1>10 DEF ItemAt
  <2>3. SameView
    BY <1>7, <2>1, <2>2, MovedView
  <2> QED
    BY <1>7, <2>3, QueueQuiet
<1> QED
  BY <1>9, <1>10

\* rt_mq_recv takes a message out: at once, or after a wait.
LEMMA QueueFetches ==
  ASSUME NEW qs, NEW fs, QueueSteps(qs, fs), NEW t \in Peers, Runs(th, t),
         pc[t] = "run" \/ pc[t] = "recv", CountOf(obj) # 0, Queue!StartReceive(t),
         UNCHANGED <<th, ghost>>
  PROVE  QueueKept
<1>1. PICK p2, m2, c2, b, e : /\ p2 = pc' /\ m2 = obj' /\ c2 = call' /\ b = FrontOf(obj)
                              /\ e = [NoBlock EXCEPT !.blk = b]
  OBVIOUS
<1>2. m2 = Queue!Dequeue(obj) /\ Puts(pc, p2, t, "copyout") /\ Puts(call, c2, t, e)
  BY <1>1 DEF Queue!StartReceive, Queue!Goto, Puts, FrontOf
<1>3. IsCall(e, None, b)
  <2>1. b \in 0 .. Capacity
    BY <1>1, QueueFields
  <2> QED
    BY <1>1, <2>1 DEF IsCall, CallRecords, Text, Blk, NoBlock, Patience
<1>4. PICK q2 : q2 = Tail(qs)
  OBVIOUS
<1>5. /\ QState(th, p2, m2, c2, ghost, q2, fs) /\ DataOf(m2) = DataOf(obj)
      /\ Moved(pc, p2, t, "copyout") /\ Moved(call, c2, t, e) /\ qs # <<>> /\ b = Head(qs)
  <2>1. QState(th, pc, obj, call, ghost, qs, fs) /\ b = FrontOf(obj)
    BY <1>1, QueueFields
  <2> QED
    BY <1>2, <1>3, <1>4, <2>1, QFetches
<1>6. /\ QueueGoes(qs, fs, q2, fs) /\ DataOf(obj') = DataOf(obj)
      /\ Moved(pc, pc', t, "copyout") /\ Moved(call, call', t, e)
  BY <1>1, <1>5 DEF QueueGoes
<1>7. /\ Texts(DataOf(obj), qs) # <<>> /\ Head(Texts(DataOf(obj), qs)) = DataOf(obj)[b]
      /\ Texts(DataOf(obj), q2) = Tail(Texts(DataOf(obj), qs))
  BY <1>4, <1>5, QueueFields, TextsTail
<1>8. /\ QueueInv' /\ Line # <<>> /\ Line' = Tail(Line) /\ Handed' = Handed
      /\ Head(Line) = DataOf(obj)[b]
  BY <1>6, <1>7, QueueLine
<1>9. PICK v : v = Head(Line)
  OBVIOUS
<1>10. v = ItemAt(DataOf(obj'), "copyout", e)
  BY <1>3, <1>6, <1>8, <1>9, ItemOf
<1>11. Passes(t, "copying", v)
  BY <1>6, <1>10, QueueSameHands, QueuePasses, PhaseOf
<1>12. ChannelPhase(t) = "out"
  BY <1>6, QueueLine, PhaseOf
<1>13. Channel!Next
  BY <1>8, <1>9, <1>11, <1>12, ChanFetches
<1> QED
  BY <1>8, <1>13 DEF QueueKept

\* The second masked section of a send.
LEMMA QueueLinks ==
  ASSUME NEW qs, NEW fs, QueueSteps(qs, fs), NEW t \in Peers,
         Queue!SendLink(t) \/ Queue!UrgentLink(t)
  PROVE  QueueKept
<1>1. PICK r2, p2, m2, c2, b, v, w :
        /\ r2 = th' /\ p2 = pc' /\ m2 = obj' /\ c2 = call' /\ b = Blk(call[t])
        /\ v = Text(call[t]) /\ w = Queue!CopyIn(obj, b, v)
  OBVIOUS
<1>2. /\ Runs(th, t) /\ r2 = WakeFirst(th, "receivers")
      /\ Puts(pc, p2, t, "run") /\ Puts(call, c2, t, NoBlock) /\ ghost' = ghost
  BY <1>1, QueueSame
     DEF Queue!SendLink, Queue!UrgentLink, Queue!Woken, Queue!Resumed, Queue!Finish, Queue!Goto, Runs, Puts
<1>3. \/ pc[t] = "copyin" /\ m2 = Queue!Enqueue(w, b)
      \/ pc[t] = "urgent" /\ m2 = Queue!EnqueueFirst(w, b)
  BY <1>1 DEF Queue!SendLink, Queue!UrgentLink, Queue!Woken, Queue!Resumed, Blk, Text
<1>4. PICK q2 : q2 = IF pc[t] = "copyin" THEN Append(qs, b) ELSE <<b>> \o qs
  OBVIOUS
<1>5. Linked(w, m2, qs, q2, b)
  BY <1>3, <1>4 DEF Linked
<1>6. /\ QState(r2, p2, m2, c2, ghost, q2, fs) /\ Moved(pc, p2, t, "run")
      /\ Moved(call, c2, t, NoBlock) /\ b \in Pool /\ Len(qs) < Capacity
      /\ Filled(obj, m2, b, v) /\ ~Contains(qs, b)
  <2>1. QState(th, pc, obj, call, ghost, qs, fs) /\ (pc[t] = "copyin" \/ pc[t] = "urgent")
    BY <1>3, QueueFields
  <2> QED
    BY <1>1, <1>2, <1>5, <2>1, QLinks
<1>7. /\ QueueGoes(qs, fs, q2, fs) /\ Moved(pc, pc', t, "run") /\ Moved(call, call', t, NoBlock)
      /\ Filled(obj, obj', b, v)
  BY <1>1, <1>2, <1>6 DEF QueueGoes
<1>8. PICK da, d2 : da = DataOf(obj) /\ d2 = DataOf(obj')
  OBVIOUS
<1>9. /\ d2 \in [Pool -> Values \cup {None}] /\ d2[b] = v /\ qs \in Seq(Pool)
      /\ \A x \in Pool : Contains(qs, x) => d2[x] = da[x]
  <2>1. d2 \in [Pool -> Values \cup {None}]
    BY <1>1, <1>6, <1>8, QFields
  <2>2. d2[b] = v /\ \A x \in Pool \ {b} : d2[x] = da[x]
    BY <1>7, <1>8 DEF Filled
  <2> QED
    BY <1>6, <2>1, <2>2, QueueFields
<1>10. Texts(d2, qs) = Texts(da, qs)
  BY <1>9, TextsKept
<1>11. /\ Texts(d2, Append(qs, b)) = Append(Texts(da, qs), v)
       /\ Texts(d2, <<b>> \o qs) = <<v>> \o Texts(da, qs)
  BY <1>6, <1>9, <1>10, TextsBack, TextsFront
<1>12. /\ QueueInv' /\ Line = Texts(da, qs) /\ Line' = Texts(d2, q2) /\ Handed' = Handed
       /\ ChannelPhase(t) = PhaseAt(pc[t]) /\ ChannelItem(t) = ItemAt(da, pc[t], call[t])
  BY <1>2, <1>7, <1>8, QueueLine
<1>13. ChannelItem(t) = v
  BY <1>1, <1>3, <1>12 DEF ItemAt
<1>14. \/ ChannelPhase(t) = "sending" /\ Line' = Append(Line, ChannelItem(t))
       \/ ChannelPhase(t) = "urging" /\ Line' = <<ChannelItem(t)>> \o Line
  <2>1. CASE pc[t] = "copyin"
    BY <1>4, <1>11, <1>12, <1>13, <2>1, PhaseOf
  <2>2. CASE pc[t] = "urgent"
    BY <1>4, <1>11, <1>12, <1>13, <2>2, PhaseOf
  <2> QED
    BY <1>3, <2>1, <2>2
<1>15. HandsKept(t)
  <2>1. \A u \in Peers \ {t} : pc[u] = "copyout" => Blk(call[u]) \in Pool \ {b}
    BY <1>1, <1>6, QueueFields, QueueOthersHands
  <2> QED
    BY <1>7, <2>1 DEF HandsKept, Filled
<1>16. Passes(t, "out", None)
  <2>1. None = ItemAt(DataOf(obj'), "run", NoBlock)
    BY NoCallOf, ItemOf
  <2> QED
    BY <1>7, <1>15, <2>1, QueuePasses, PhaseOf
<1>17. Len(Line) < Capacity
  BY <1>6, <1>8, <1>12, QueueFields, TextsType
<1>18. Channel!Next
  BY <1>12, <1>14, <1>16, <1>17, ChanDelivers
<1> QED
  BY <1>12, <1>18 DEF QueueKept

\* rt_mq_send by a handler.
LEMMA QueueSendsNow ==
  ASSUME NEW qs, NEW fs, QueueSteps(qs, fs), NEW v \in Values, Queue!rt_mq_send(v)
  PROVE  QueueKept
<1>1. PICK r2, m2, b, w, y :
        /\ r2 = th' /\ m2 = obj' /\ b = FreeOf(obj) /\ w = Queue!TakeBlock(obj)
        /\ y = Queue!CopyIn(w, b, v)
  OBVIOUS
<1>2. /\ FreeOf(obj) # 0 /\ r2 = WakeFirst(th, "receivers") /\ m2 = Queue!Enqueue(y, b)
      /\ UNCHANGED <<pc, call, ghost>> /\ v \in Values \cup {None}
  BY <1>1, QueueSame DEF Queue!rt_mq_send, Queue!IsFull, FreeOf
<1>3. PICK q2, f2 : q2 = Append(qs, b) /\ f2 = Tail(fs)
  OBVIOUS
<1>4. /\ QState(r2, pc, m2, call, ghost, q2, f2)
      /\ b \in Pool /\ Len(qs) < Capacity /\ Idle(qs, fs, b) /\ ~Contains(qs, b)
      /\ Filled(obj, m2, b, v)
  <2>1. QState(th, pc, obj, call, ghost, qs, fs)
    BY QueueFields
  <2> QED
    BY <1>1, <1>2, <1>3, <2>1, QSendsNow
<1>5. QueueGoes(qs, fs, q2, f2) /\ Filled(obj, obj', b, v)
  BY <1>1, <1>2, <1>4 DEF QueueGoes
<1>6. PICK da, d2 : da = DataOf(obj) /\ d2 = DataOf(obj')
  OBVIOUS
<1>7. /\ d2 \in [Pool -> Values \cup {None}] /\ d2[b] = v /\ qs \in Seq(Pool)
      /\ \A x \in Pool : Contains(qs, x) => d2[x] = da[x]
  <2>1. d2 \in [Pool -> Values \cup {None}]
    BY <1>1, <1>4, <1>6, QFields
  <2>2. d2[b] = v /\ \A x \in Pool \ {b} : d2[x] = da[x]
    BY <1>5, <1>6 DEF Filled
  <2> QED
    BY <1>4, <2>1, <2>2, QueueFields
<1>8. Texts(d2, qs) = Texts(da, qs)
  BY <1>7, TextsKept
<1>9. Texts(d2, q2) = Append(Texts(da, qs), v)
  BY <1>3, <1>4, <1>7, <1>8, TextsBack
<1>10. /\ QueueInv' /\ Line = Texts(da, qs) /\ Line' = Texts(d2, q2) /\ Handed' = Handed
  BY <1>2, <1>5, <1>6, QueueLine
<1>11. \A u \in Peers : pc[u] = "copyout" => Blk(call[u]) \in Pool \ {b}
  <2>1. PICK t : t \notin Peers
    <3>1. None \notin Peers
      BY IpcAssumption, ObjectsAssumption
    <3> QED
      BY <3>1
  <2>2. \A u \in Peers \ {t} : pc[u] = "copyout" => Blk(call[u]) \in Pool \ {b}
    BY <1>4, QueueFields, QueueOthersHands
  <2> QED
    BY <2>1, <2>2
<1>12. SameView
  <2>1. \A u \in Peers : ItemAt(DataOf(obj'), pc[u], call[u]) = ItemAt(DataOf(obj), pc[u], call[u])
    BY <1>5, <1>11 DEF ItemAt, Filled
  <2>2. pc' = pc /\ call' = call
    BY <1>2
  <2> QED
    BY <2>1, <2>2 DEF SameView
<1>13. Rests
  BY <1>5, <1>12, SameRests
<1>14. Len(Line) < Capacity /\ Line' = Append(Line, v)
  BY <1>4, <1>6, <1>9, <1>10, QueueFields, TextsType
<1>15. Channel!Next
  BY <1>10, <1>13, <1>14, ChanSends
<1> QED
  BY <1>10, <1>15 DEF QueueKept

\* The second masked section of a receive.
LEMMA QueueFrees ==
  ASSUME NEW qs, NEW fs, QueueSteps(qs, fs), NEW t \in Peers, Queue!RecvFree(t)
  PROVE  QueueKept
<1>1. PICK r2, p2, m2, c2, b, g2 :
        /\ r2 = th' /\ p2 = pc' /\ m2 = obj' /\ c2 = call' /\ b = Blk(call[t]) /\ g2 = ghost'
  OBVIOUS
<1>2. /\ Runs(th, t) /\ pc[t] = "copyout" /\ r2 = WakeFirst(th, "senders")
      /\ Puts(pc, p2, t, "run") /\ Puts(call, c2, t, NoBlock)
      /\ m2 = Queue!FreeBlock(obj, b) /\ g2 = DataOf(obj)[b]
  BY <1>1, QueueSame
     DEF Queue!RecvFree, Queue!Woken, Queue!Resumed, Queue!Finish, Queue!Goto, Runs, Puts, DataOf, Blk
<1>3. PICK f2 : f2 = <<b>> \o fs
  OBVIOUS
<1>4. /\ QState(r2, p2, m2, c2, g2, qs, f2) /\ Moved(pc, p2, t, "run")
      /\ DataOf(m2) = DataOf(obj) /\ Moved(call, c2, t, NoBlock)
  <2>1. QState(th, pc, obj, call, ghost, qs, fs)
    BY QueueFields
  <2> QED
    BY <1>1, <1>2, <1>3, <2>1, QFrees
<1>5. /\ QueueGoes(qs, fs, qs, f2) /\ Moved(pc, pc', t, "run") /\ Moved(call, call', t, NoBlock)
      /\ DataOf(obj') = DataOf(obj) /\ ghost' = DataOf(obj)[b]
  BY <1>1, <1>2, <1>4 DEF QueueGoes
<1>6. Passes(t, "out", None)
  <2>1. None = ItemAt(DataOf(obj'), "run", NoBlock)
    BY NoCallOf, ItemOf
  <2> QED
    BY <1>5, <2>1, QueueSameHands, QueuePasses, PhaseOf
<1>7. /\ QueueInv' /\ Line' = Line /\ Handed' = ghost'
      /\ ChannelPhase(t) = PhaseAt(pc[t]) /\ ChannelItem(t) = ItemAt(DataOf(obj), pc[t], call[t])
  BY <1>5, QueueLine
<1>8. ChannelPhase(t) = "copying" /\ Handed' = ChannelItem(t)
  BY <1>1, <1>2, <1>5, <1>7, PhaseOf DEF ItemAt
<1>9. Channel!Next
  BY <1>6, <1>7, <1>8, ChanHandsOver
<1> QED
  BY <1>7, <1>9 DEF QueueKept

\* rt_mq_control, rt_mq_init and rt_mq_create leave an empty queue.
LEMMA QueueEmpties ==
  ASSUME NEW qs, NEW fs, QueueSteps(qs, fs), UNCHANGED <<pc, call, ghost>>,
         DataOf(obj') = DataOf(obj) \/ \A u \in Peers : pc[u] = "run",
         NEW f2, QState(th', pc, obj', call, ghost, <<>>, f2)
  PROVE  QueueKept
<1>1. QueueGoes(qs, fs, <<>>, f2)
  BY DEF QueueGoes
<1>2. SameView
  BY DEF SameView, ItemAt
<1>3. Rests
  BY <1>1, <1>2, SameRests
<1>4. Texts(DataOf(obj'), <<>>) = <<>>
  BY DEF Texts
<1>5. QueueInv' /\ Line' = Texts(DataOf(obj'), <<>>) /\ Handed' = Handed
  BY <1>1, QueueLine
<1>6. Line' = <<>>
  BY <1>4, <1>5
<1>7. Channel!Next
  BY <1>3, <1>5, <1>6, ChanResets
<1> QED
  BY <1>5, <1>7 DEF QueueKept

LEMMA QueueReset ==
  ASSUME NEW qs, NEW fs, QueueSteps(qs, fs), Queue!rt_mq_control
  PROVE  QueueKept
<1>1. PICK r2, m2 : r2 = th' /\ m2 = obj'
  OBVIOUS
<1>2. r2 = ClearList(ClearList(th, "receivers"), "senders") /\ m2 = Queue!FreeAll(obj)
      /\ UNCHANGED <<pc, call, ghost>>
  BY <1>1, QueueSame DEF Queue!rt_mq_control
<1>3. Emptied(th, r2)
  BY <1>2, QueueFields, ResetEmptied DEF MailWaits
<1>4. DataOf(m2) = DataOf(obj) /\ \E f : QState(r2, pc, m2, call, ghost, <<>>, f)
  <2>1. QState(th, pc, obj, call, ghost, qs, fs)
    BY QueueFields
  <2> QED
    BY <1>2, <1>3, <2>1, QResets
<1>5. PICK f : QState(r2, pc, m2, call, ghost, <<>>, f)
  BY <1>4
<1> QED
  BY <1>1, <1>2, <1>4, <1>5, QueueEmpties

LEMMA QueueSetUp ==
  ASSUME NEW qs, NEW fs, QueueSteps(qs, fs), UNCHANGED <<th, pc, call, ghost>>,
         \A t \in Peers : pc[t] = "run", obj' = Queue!Fresh
  PROVE  QueueKept
<1>1. PICK m2 : m2 = obj'
  OBVIOUS
<1>2. MailWaits(th, pc) /\ Carried(pc, call) /\ ghost \in Values \cup {None}
  BY QParts DEF QueueSteps
<1>3. m2 = Queue!Fresh
  BY <1>1
<1>4. PICK f : QState(th, pc, m2, call, ghost, <<>>, f)
  BY <1>2, <1>3, QSetsUp
<1> QED
  BY <1>1, <1>4, QueueEmpties

\* A step that changes nothing but the waits and the lives.
LEMMA QueueStays ==
  ASSUME NEW qs, NEW fs, QueueSteps(qs, fs), UNCHANGED <<pc, obj, call, ghost>>,
         QState(th', pc, obj, call, ghost, qs, fs)
  PROVE  QueueKept
<1>1. QueueGoes(qs, fs, qs, fs) /\ SameView /\ DataOf(obj') = DataOf(obj)
  BY DEF QueueGoes, SameView
<1> QED
  BY <1>1, QueueQuiet

\* A wait ends with an error.
LEMMA QueueWakes ==
  ASSUME NEW qs, NEW fs, QueueSteps(qs, fs), NEW t \in Peers, th.stat[t] = "suspend",
         NEW e \in Errors \ {"ok"}, Woke(th, th', t, e), UNCHANGED <<pc, obj, call, ghost>>
  PROVE  QueueKept
<1>1. PICK r2 : r2 = th'
  OBVIOUS
<1>2. QState(r2, pc, obj, call, ghost, qs, fs)
  BY <1>1, QWakes DEF QueueSteps
<1> QED
  BY <1>1, <1>2, QueueStays

\* rt_mq_send_wait finds no block, and the caller waits.
LEMMA QueueSendWaits ==
  ASSUME NEW qs, NEW fs, QueueSteps(qs, fs), NEW t \in Peers, NEW v \in Values,
         NEW patience \in QueueWaits, Queue!SendWait(t, v, patience)
  PROVE  QueueKept
<1>1. PICK r2, p2, c2, e : /\ r2 = th' /\ p2 = pc' /\ c2 = call'
                           /\ e = [NoBlock EXCEPT !.msg = v, !.left = patience]
  OBVIOUS
<1>2. PlaceOf("senders") = "send" /\ "senders" \in Queues /\ "senders" # "receivers"
  BY DEF PlaceOf, Queues
<1>3. /\ Runs(th, t) /\ pc[t] = "run" /\ FreeOf(obj) = 0
      /\ r2 = Suspend(Told1(th, t, "ok"), "senders", t, patience)
      /\ Puts(pc, p2, t, "send") /\ Puts(call, c2, t, e) /\ UNCHANGED <<obj, ghost>>
  BY <1>1, QueueSame
     DEF Queue!SendWait, Queue!Calls, Queue!IsFull, Queue!WaitOn, Queue!Goto, Told1, Runs, FreeOf, Puts
<1>4. IsCall(e, v, 0)
  <2>1. patience \in Patience /\ 0 \in 0 .. Capacity
    BY IpcAssumption, ObjectsAssumption
  <2> QED
    BY <1>1, <2>1 DEF IsCall, CallRecords, Text, Blk, NoBlock
<1>5. /\ QState(r2, p2, obj, c2, ghost, qs, fs) /\ Moved(pc, p2, t, "send")
      /\ Moved(call, c2, t, e)
  <2>1. QState(th, pc, obj, call, ghost, qs, fs)
    BY QueueFields
  <2>2. PICK q : q = "senders"
    OBVIOUS
  <2>3. /\ q \in Queues /\ q # "receivers" /\ r2 = Suspend(Told1(th, t, "ok"), q, t, patience)
        /\ Puts(pc, p2, t, PlaceOf(q)) /\ PlaceOf(q) = "send"
    BY <1>2, <1>3, <2>2
  <2>4. QState(r2, p2, obj, c2, ghost, qs, fs) /\ Moved(pc, p2, t, PlaceOf(q)) /\ Moved(call, c2, t, e)
    BY <1>3, <1>4, <2>1, <2>3, QWaits
  <2> QED
    BY <2>3, <2>4
<1>6. /\ QueueGoes(qs, fs, qs, fs) /\ Moved(pc, pc', t, "send") /\ Moved(call, call', t, e)
      /\ DataOf(obj') = DataOf(obj) /\ ghost' = ghost
  BY <1>1, <1>3, <1>5 DEF QueueGoes
<1>7. Passes(t, "sending", v)
  <2>1. v = ItemAt(DataOf(obj'), "send", e)
    BY <1>4, ItemOf
  <2> QED
    BY <1>6, <2>1, QueueSameHands, QueuePasses, PhaseOf
<1>8. QueueInv' /\ ChannelPhase(t) = "out" /\ Line' = Line /\ Handed' = Handed
  BY <1>3, <1>6, QueueLine, PhaseOf
<1>9. Channel!Next
  BY <1>7, <1>8, ChanBegins
<1> QED
  BY <1>8, <1>9 DEF QueueKept

\* A receiver waits, or a thread that was woken waits again.
LEMMA QueueSleeps ==
  ASSUME NEW qs, NEW fs, QueueSteps(qs, fs), NEW t \in Peers, Runs(th, t),
         NEW q \in Queues, NEW left \in Patience,
         \/ q = "receivers" /\ (pc[t] = "run" \/ pc[t] = "recv") /\ CountOf(obj) = 0
         \/ q = "senders" /\ pc[t] = "send" /\ FreeOf(obj) = 0,
         th' = Suspend(Told1(th, t, "ok"), q, t, left), Puts(pc, pc', t, PlaceOf(q)),
         call' = [call EXCEPT ![t].left = left], UNCHANGED <<obj, ghost>>
  PROVE  QueueKept
<1>1. PICK r2, p2, c2, e, v : /\ r2 = th' /\ p2 = pc' /\ c2 = call'
                              /\ e = [call[t] EXCEPT !.left = left] /\ v = Text(call[t])
  OBVIOUS
<1>2. call[t] \in CallRecords /\ call \in [Peers -> CallRecords]
  BY QueueFields
<1>3. Blk(call[t]) = 0 /\ v \in Values \cup {None} /\ (q = "receivers" => v = None)
  <2>1. pc[t] \notin Copying /\ (q = "receivers" => pc[t] \notin Sending)
    BY DEF Copying, Sending
  <2> QED
    BY <1>1, <2>1, QueueFields, CarriedFields DEF Carried
<1>4. IsCall(e, v, 0)
  <2>1. e \in CallRecords /\ Text(e) = Text(call[t]) /\ Blk(e) = Blk(call[t])
    BY <1>1, <1>2 DEF CallRecords, Text, Blk
  <2>2. 0 \in 0 .. Capacity
    BY ObjectsAssumption
  <2> QED
    BY <1>1, <1>3, <2>1, <2>2 DEF IsCall
<1>5. Puts(call, c2, t, e)
  BY <1>1, <1>2 DEF Puts
<1>6. /\ QState(r2, p2, obj, c2, ghost, qs, fs) /\ Moved(pc, p2, t, PlaceOf(q))
      /\ Moved(call, c2, t, e)
  <2>1. QState(th, pc, obj, call, ghost, qs, fs)
    BY QueueFields
  <2>2. /\ pc[t] = "run" \/ pc[t] = PlaceOf(q)
        /\ (q = "receivers" => CountOf(obj) = 0) /\ (q = "senders" => FreeOf(obj) = 0)
    BY DEF PlaceOf
  <2>3. Puts(pc, p2, t, PlaceOf(q)) /\ r2 = Suspend(Told1(th, t, "ok"), q, t, left)
    BY <1>1
  <2> QED
    BY <1>3, <1>4, <1>5, <2>1, <2>2, <2>3, QWaits
<1>7. PICK x : x = PlaceOf(q)
  OBVIOUS
<1>8. /\ QueueGoes(qs, fs, qs, fs) /\ Moved(pc, pc', t, x) /\ Moved(call, call', t, e)
      /\ DataOf(obj') = DataOf(obj) /\ ghost' = ghost
  BY <1>1, <1>6, <1>7 DEF QueueGoes
<1>9. PhaseAt(x) = PhaseAt(pc[t]) /\ x # "copyout" /\ pc[t] # "copyout"
  BY <1>7, PhaseOf DEF PlaceOf
<1>10. ItemAt(DataOf(obj), x, e) = ItemAt(DataOf(obj), pc[t], call[t])
  BY <1>1, <1>4, <1>9 DEF ItemAt, IsCall
<1>11. SameView
  BY <1>8, <1>9, <1>10, MovedView
<1> QED
  BY <1>8, <1>11, QueueQuiet

\* A wait that failed, or a call whose patience is over, returns.
LEMMA QueueLeaves ==
  ASSUME NEW qs, NEW fs, QueueSteps(qs, fs), NEW t \in Peers, Runs(th, t),
         pc[t] = "send" \/ pc[t] = "recv",
         \/ Failed(th, t)
         \/ pc[t] = "send" /\ FreeOf(obj) = 0
         \/ pc[t] = "recv" /\ CountOf(obj) = 0,
         Puts(pc, pc', t, "run"), Puts(call, call', t, NoBlock),
         th' = th \/ th' = Told1(th, t, "timeout"), UNCHANGED <<obj, ghost>>
  PROVE  QueueKept
<1>1. PICK r2, p2, c2 : r2 = th' /\ p2 = pc' /\ c2 = call'
  OBVIOUS
<1>2. /\ QState(r2, p2, obj, c2, ghost, qs, fs) /\ Moved(pc, p2, t, "run")
      /\ Moved(call, c2, t, NoBlock)
  <2>1. QState(th, pc, obj, call, ghost, qs, fs)
    BY QueueFields
  <2>2. /\ Puts(pc, p2, t, "run") /\ Puts(call, c2, t, NoBlock)
        /\ (r2 = th \/ r2 = Told1(th, t, "timeout"))
    BY <1>1
  <2> QED
    BY <2>1, <2>2, QLeaves
<1>3. /\ QueueGoes(qs, fs, qs, fs) /\ Moved(pc, pc', t, "run") /\ Moved(call, call', t, NoBlock)
      /\ DataOf(obj') = DataOf(obj) /\ ghost' = ghost
  BY <1>1, <1>2 DEF QueueGoes
<1>4. \A da : None = ItemAt(da, "run", NoBlock)
  BY NoCallOf, ItemOf
<1>5. CASE pc[t] = "send"
  <2>1. Passes(t, "out", None)
    BY <1>3, <1>4, QueueSameHands, QueuePasses, PhaseOf
  <2>2. QueueInv' /\ ChannelPhase(t) = "sending" /\ Line' = Line /\ Handed' = Handed
    BY <1>3, <1>5, QueueLine, PhaseOf
  <2>3. Channel!Next
    BY <2>1, <2>2, ChanFails
  <2> QED
    BY <2>2, <2>3 DEF QueueKept
<1>6. CASE pc[t] = "recv"
  <2>1. Text(call[t]) = None
    BY <1>6, QueueFields DEF Carried, Sending
  <2>2. ItemAt(DataOf(obj), "run", NoBlock) = ItemAt(DataOf(obj), pc[t], call[t])
    BY <1>4, <1>6, <2>1 DEF ItemAt
  <2>3. PhaseAt("run") = PhaseAt(pc[t])
    BY <1>6, PhaseOf
  <2>4. SameView
    BY <1>3, <2>2, <2>3, MovedView
  <2> QED
    BY <1>3, <2>4, QueueQuiet
<1> QED
  BY <1>5, <1>6

LEMMA QueueSendRetries ==
  ASSUME NEW qs, NEW fs, QueueSteps(qs, fs), NEW t \in Peers, Queue!SendRetry(t)
  PROVE  QueueKept
<1>1. pc[t] = "send" /\ Runs(th, t) /\ pc \in [Peers -> Queue!Places]
  BY QueueFields DEF Queue!SendRetry, Queue!Woken, Queue!Resumed, Runs
<1>2. Queue!IsFull(obj) <=> FreeOf(obj) = 0
  BY DEF Queue!IsFull, FreeOf
<1>3. CASE /\ ~Queue!IsFull(obj) /\ Queue!StartCopy(t, call[t].msg, "copyin")
           /\ UNCHANGED <<th, ghost>>
  <2>1. Queue!StartCopy(t, Text(call[t]), "copyin")
    BY <1>3 DEF Text
  <2> QED
    BY <1>1, <1>2, <1>3, <2>1, QueueTakes
<1>4. CASE Queue!IsFull(obj) /\ Queue!Finish(t) /\ UNCHANGED <<th, obj, ghost>>
  <2>1. Puts(pc, pc', t, "run") /\ Puts(call, call', t, NoBlock)
    BY <1>4 DEF Queue!Finish, Queue!Goto, Puts
  <2> QED
    BY <1>1, <1>2, <1>4, <2>1, QueueLeaves
<1>5. ASSUME NEW left \in Queue!Remaining(t), Queue!IsFull(obj), Queue!WaitOn(t, "senders", left),
             call' = [call EXCEPT ![t].left = left], UNCHANGED <<pc, obj, ghost>>
      PROVE  QueueKept
  <2>1. left \in Patience
    <3>1. call[t] \in CallRecords
      BY QueueFields
    <3> QED
      BY <3>1 DEF Queue!Remaining, Patience, CallRecords
  <2>2. "senders" \in Queues /\ PlaceOf("senders") = "send"
    BY DEF Queues, PlaceOf
  <2>3. th' = Suspend(Told1(th, t, "ok"), "senders", t, left)
    BY <1>5, QueueSame DEF Queue!WaitOn, Told1
  <2>4. Puts(pc, pc', t, PlaceOf("senders"))
    BY <1>1, <1>5, <2>2 DEF Puts
  <2>5. FreeOf(obj) = 0 /\ UNCHANGED <<obj, ghost>>
    BY <1>2, <1>5
  <2> QED
    BY <1>1, <1>5, <2>1, <2>2, <2>3, <2>4, <2>5, QueueSleeps
<1> QED
  BY <1>3, <1>4, <1>5 DEF Queue!SendRetry

LEMMA QueueRecvRetries ==
  ASSUME NEW qs, NEW fs, QueueSteps(qs, fs), NEW t \in Peers, Queue!RecvRetry(t)
  PROVE  QueueKept
<1>1. pc[t] = "recv" /\ Runs(th, t) /\ pc \in [Peers -> Queue!Places]
  BY QueueFields DEF Queue!RecvRetry, Queue!Woken, Queue!Resumed, Runs
<1>2. CASE obj.entry # 0 /\ Queue!StartReceive(t) /\ UNCHANGED <<th, ghost>>
  <2>1. CountOf(obj) # 0
    BY <1>2 DEF CountOf
  <2> QED
    BY <1>1, <1>2, <2>1, QueueFetches
<1>3. CASE /\ obj.entry = 0 /\ Queue!Finish(t) /\ th' = [th EXCEPT !.err[t] = "timeout"]
           /\ UNCHANGED <<obj, ghost>>
  <2>1. /\ CountOf(obj) = 0 /\ Puts(pc, pc', t, "run") /\ Puts(call, call', t, NoBlock)
        /\ th' = Told1(th, t, "timeout")
    BY <1>3 DEF CountOf, Queue!Finish, Queue!Goto, Puts, Told1
  <2> QED
    BY <1>1, <1>3, <2>1, QueueLeaves
<1>4. ASSUME NEW left \in Queue!Remaining(t), obj.entry = 0, Queue!WaitOn(t, "receivers", left),
             call' = [call EXCEPT ![t].left = left], UNCHANGED <<pc, obj, ghost>>
      PROVE  QueueKept
  <2>1. left \in Patience
    <3>1. call[t] \in CallRecords
      BY QueueFields
    <3> QED
      BY <3>1 DEF Queue!Remaining, Patience, CallRecords
  <2>2. "receivers" \in Queues /\ PlaceOf("receivers") = "recv"
    BY DEF Queues, PlaceOf
  <2>3. th' = Suspend(Told1(th, t, "ok"), "receivers", t, left)
    BY <1>4, QueueSame DEF Queue!WaitOn, Told1
  <2>4. Puts(pc, pc', t, PlaceOf("receivers"))
    BY <1>1, <1>4, <2>2 DEF Puts
  <2>5. CountOf(obj) = 0 /\ UNCHANGED <<obj, ghost>>
    BY <1>4 DEF CountOf
  <2> QED
    BY <1>1, <1>4, <2>1, <2>2, <2>3, <2>4, <2>5, QueueSleeps
<1> QED
  BY <1>2, <1>3, <1>4 DEF Queue!RecvRetry

LEMMA QueueRecvWaits ==
  ASSUME NEW qs, NEW fs, QueueSteps(qs, fs), NEW t \in Peers, NEW patience \in QueueWaits,
         Queue!RecvWait(t, patience)
  PROVE  QueueKept
<1>1. patience \in Patience
  BY IpcAssumption, ObjectsAssumption
<1>2. "receivers" \in Queues /\ PlaceOf("receivers") = "recv"
  BY DEF Queues, PlaceOf
<1>3. /\ Runs(th, t) /\ pc[t] = "run" /\ CountOf(obj) = 0
      /\ th' = Suspend(Told1(th, t, "ok"), "receivers", t, patience)
      /\ call' = [call EXCEPT ![t].left = patience] /\ UNCHANGED <<obj, ghost>>
  BY QueueSame DEF Queue!RecvWait, Queue!Calls, Queue!WaitOn, Told1, Runs, CountOf
<1>4. Puts(pc, pc', t, PlaceOf("receivers"))
  BY <1>2 DEF Queue!RecvWait, Queue!Goto, Puts
<1> QED
  BY <1>1, <1>2, <1>3, <1>4, QueueSleeps

LEMMA QueueNext ==
  ASSUME NEW qs, NEW fs, QueueSteps(qs, fs), Queue!Next
  PROVE  QueueKept
<1>0. UNCHANGED <<th, pc, obj, call, ghost>> => QueueKept
  BY QueueStays, QueueFields
<1>1. CASE Queue!rt_mq_detach \/ Queue!rt_mq_delete
  BY <1>0, <1>1 DEF Queue!rt_mq_detach, Queue!rt_mq_delete, Queue!BeginClose
<1>2. CASE Queue!rt_mq_init \/ Queue!rt_mq_create
  BY <1>2, QueueSetUp DEF Queue!rt_mq_init, Queue!rt_mq_create, Queue!SetUp
<1>3. CASE (Queue!CloseStep \/ Queue!CloseEnd) /\ UNCHANGED <<obj, call, ghost>>
  <2>1. /\ UNCHANGED <<pc, obj, call, ghost>>
        /\ \/ UNCHANGED th
           \/ \E q \in Queues : th.wait[q] # <<>> /\ th' = FailFirst(th, Head(th.wait[q]))
    BY <1>3, QueueSame DEF Queue!CloseStep, Queue!CloseTest, Queue!CloseTurn, Queue!CloseEnd, Queues
  <2>2. CASE UNCHANGED th
    BY <1>0, <2>1, <2>2
  <2>3. ASSUME NEW q \in Queues, th.wait[q] # <<>>, th' = FailFirst(th, Head(th.wait[q]))
        PROVE  QueueKept
    <3>1. th.wait[q] \in Seq(Peers) /\ th \in PeerRecords /\ MailWaits(th, pc)
      BY QueueFields DEF PeerRecords
    <3>2. PICK t \in Peers : t = Head(th.wait[q]) /\ Contains(th.wait[q], t)
      BY <2>3, <3>1 DEF Contains
    <3>3. th.stat[t] = "suspend"
      BY <3>1, <3>2 DEF MailWaits, Settled
    <3>4. Woke(th, th', t, "error")
      BY <2>3, <3>1, <3>2, FailFirstWoke
    <3> QED
      BY <2>1, <3>3, <3>4, QueueWakes DEF Errors
  <2> QED
    BY <2>1, <2>2, <2>3
<1>4. ASSUME NEW t \in Peers, Queue!_thread_timeout(t), UNCHANGED <<obj, call, ghost>>
      PROVE  QueueKept
  <2>1. /\ t \in th.armed /\ th' = [rt_thread_resume(th, t) EXCEPT !.err[t] = "timeout"]
        /\ UNCHANGED <<pc, obj, call, ghost>>
    BY <1>4, QueueSame DEF Queue!_thread_timeout
  <2>2. Woke(th, th', t, "timeout")
    BY <2>1, QueueFields, TimeoutWoke
  <2>3. th.stat[t] = "suspend"
    BY <2>1, QueueFields DEF MailWaits, Settled
  <2> QED
    BY <2>1, <2>2, <2>3, QueueWakes DEF Errors
<1>5. ASSUME NEW t \in Peers, Queue!SendFailed(t) \/ Queue!RecvFailed(t)
      PROVE  QueueKept
  <2>1. /\ Runs(th, t) /\ (pc[t] = "send" \/ pc[t] = "recv") /\ Failed(th, t)
        /\ Puts(pc, pc', t, "run") /\ Puts(call, call', t, NoBlock)
        /\ th' = th /\ UNCHANGED <<obj, ghost>>
    BY <1>5 DEF Queue!SendFailed, Queue!RecvFailed, Queue!Woken, Queue!Resumed, Queue!Finish,
                Queue!Goto, Runs,
       Failed, Puts
  <2> QED
    BY <2>1, QueueLeaves
<1>6. ASSUME NEW t \in Peers, NEW v \in Values, Queue!SendTake(t, v) \/ Queue!UrgentTake(t, v)
      PROVE  QueueKept
  <2>1. Runs(th, t) /\ pc[t] = "run" /\ FreeOf(obj) # 0 /\ UNCHANGED <<th, ghost>>
    BY <1>6 DEF Queue!SendTake, Queue!UrgentTake, Queue!Calls, Queue!IsFull, Runs, FreeOf
  <2>2. PICK x : (x = "copyin" \/ x = "urgent") /\ Queue!StartCopy(t, v, x)
    BY <1>6 DEF Queue!SendTake, Queue!UrgentTake
  <2> QED
    BY <2>1, <2>2, QueueTakes
<1>7. ASSUME NEW t \in Peers, Queue!RecvTake(t)
      PROVE  QueueKept
  <2>1. /\ Runs(th, t) /\ pc[t] = "run" /\ CountOf(obj) # 0 /\ UNCHANGED <<th, ghost>>
        /\ Queue!StartReceive(t)
    BY <1>7 DEF Queue!RecvTake, Queue!Calls, Runs, CountOf
  <2> QED
    BY <2>1, QueueFetches
<1> QED
  BY <1>1, <1>2, <1>3, <1>4, <1>5, <1>6, <1>7, QueueReset, QueueSendsNow, QueueSendWaits,
     QueueRecvWaits, QueueSendRetries, QueueRecvRetries, QueueLinks, QueueFrees DEF Queue!Next

LEMMA QueueInit ==
  ASSUME kind = "mq", Queue!Init
  PROVE  QueueInv /\ Channel!Init
<1>1. Quiet /\ obj = Queue!Fresh /\ call = [t \in Peers |-> NoBlock] /\ ghost = None
  BY DEF Queue!Init, Queue!IpcInit, Queue!Queues, Queues, Quiet
<1>2. \A t \in Peers : pc[t] = "run" /\ call[t] = NoBlock
  BY <1>1 DEF Quiet
<1>3. Carried(pc, call)
  <2>1. pc \in [Peers -> Queue!Places]
    BY <1>1 DEF Quiet, Queue!Places
  <2>2. NoBlock \in CallRecords /\ Text(NoBlock) = None /\ Blk(NoBlock) = 0
    BY NoCallOf DEF IsCall
  <2>3. call \in [Peers -> CallRecords]
    BY <1>1, <2>2
  <2> QED
    BY <1>2, <2>1, <2>2, <2>3 DEF Carried, Copying
<1>4. PICK f : QState(th, pc, obj, call, ghost, <<>>, f)
  BY <1>1, <1>2, <1>3, QuietWaits, QSetsUp
<1>5. QueueInv
  BY <1>4 DEF QueueInv
<1>6. Queue!Content = <<>>
  <2>1. Queue!Content = Texts(DataOf(obj), <<>>)
    BY <1>4, QueueContent DEF QState, ContentRead
  <2> QED
    BY <2>1 DEF Texts
<1>7. \A t \in Peers : ChannelPhase(t) = "out" /\ ChannelItem(t) = None
  BY <1>2, QueueView, PhaseOf, NoCallOf, ItemOf
<1> QED
  BY <1>1, <1>5, <1>6, <1>7 DEF Channel!Init

-----------------------------------------------------------------------------
(* The blocks, counted.                                                    *)

\* The two lists behind one another have no block twice.
LEMMA ListsApart ==
  ASSUME NEW m, NEW qs, NEW fs, Shape(m, qs, fs), NEW s, s = qs \o fs
  PROVE  /\ s \in Seq(Pool) /\ Len(s) = Len(qs) + Len(fs) /\ IsInjective(s)
         /\ \A b : Contains(s, b) <=> Idle(qs, fs, b)
<1>1. /\ qs \in Seq(Pool) /\ fs \in Seq(Pool) /\ IsInjective(qs) /\ IsInjective(fs)
      /\ Len(qs) \in Nat /\ Len(fs) \in Nat
      /\ \A b \in Pool : ~(Contains(qs, b) /\ Contains(fs, b))
  BY ShapeFields DEF Shape
<1>2. /\ s \in Seq(Pool) /\ Len(s) = Len(qs) + Len(fs)
      /\ \A i \in 1 .. Len(qs) + Len(fs) : s[i] = IF i <= Len(qs) THEN qs[i] ELSE fs[i - Len(qs)]
  BY <1>1, ConcatProperties
<1>3. \A i \in 1 .. Len(qs) : i \in 1 .. Len(s) /\ s[i] = qs[i] /\ Contains(qs, s[i])
  BY <1>1, <1>2 DEF Contains
<1>4. \A i \in 1 .. Len(s) : i > Len(qs) =>
        /\ i - Len(qs) \in 1 .. Len(fs) /\ s[i] = fs[i - Len(qs)] /\ Contains(fs, s[i])
  <2> SUFFICES ASSUME NEW i \in 1 .. Len(s), i > Len(qs)
               PROVE  i - Len(qs) \in 1 .. Len(fs) /\ s[i] = fs[i - Len(qs)] /\ Contains(fs, s[i])
    OBVIOUS
  <2>1. i - Len(qs) \in 1 .. Len(fs) /\ s[i] = fs[i - Len(qs)]
    BY <1>1, <1>2
  <2> QED
    BY <2>1 DEF Contains
<1>5. IsInjective(s)
  <2> SUFFICES ASSUME NEW i \in 1 .. Len(s), NEW j \in 1 .. Len(s), s[i] = s[j]
               PROVE  i = j
    BY <1>2 DEF IsInjective
  <2>1. s[i] \in Pool
    BY <1>2
  <2>2. CASE i <= Len(qs) /\ j <= Len(qs)
    BY <1>1, <1>3, <2>2 DEF IsInjective
  <2>3. CASE i > Len(qs) /\ j > Len(qs)
    <3>1. fs[i - Len(qs)] = fs[j - Len(qs)] /\ i - Len(qs) \in 1 .. Len(fs) /\ j - Len(qs) \in 1 .. Len(fs)
      BY <1>4, <2>3
    <3>2. i - Len(qs) = j - Len(qs)
      BY <1>1, <3>1 DEF IsInjective
    <3> QED
      BY <1>1, <3>2
  <2>4. CASE (i <= Len(qs)) # (j <= Len(qs))
    <3>1. Contains(qs, s[i]) /\ Contains(fs, s[i])
      BY <1>1, <1>3, <1>4, <2>4
    <3> QED
      BY <1>1, <2>1, <3>1
  <2> QED
    BY <1>1, <2>2, <2>3, <2>4
<1>6. ASSUME NEW b, Contains(s, b)
      PROVE  Idle(qs, fs, b)
  <2>1. PICK i \in 1 .. Len(s) : s[i] = b
    BY <1>2, <1>6 DEF Contains
  <2>2. i <= Len(qs) \/ i > Len(qs)
    BY <1>1, <1>2
  <2> QED
    BY <1>1, <1>2, <1>3, <1>4, <2>1, <2>2 DEF Idle
<1>7. ASSUME NEW b, Idle(qs, fs, b)
      PROVE  Contains(s, b)
  <2>1. CASE Contains(qs, b)
    <3>1. PICK i \in 1 .. Len(qs) : qs[i] = b
      BY <1>1, <2>1 DEF Contains
    <3> QED
      BY <1>2, <1>3, <3>1 DEF Contains
  <2>2. CASE Contains(fs, b)
    <3>1. PICK i \in 1 .. Len(fs) : fs[i] = b
      BY <1>1, <2>2 DEF Contains
    <3>2. i + Len(qs) \in 1 .. Len(s) /\ (i + Len(qs)) - Len(qs) = i /\ i + Len(qs) > Len(qs)
      BY <1>1, <1>2, <3>1
    <3>3. s[i + Len(qs)] = b
      BY <1>4, <3>1, <3>2
    <3> QED
      BY <1>2, <3>2, <3>3 DEF Contains
  <2> QED
    BY <1>7, <2>1, <2>2 DEF Idle
<1> QED
  BY <1>2, <1>5, <1>6, <1>7

\* The blocks of a list, counted.
LEMMA PoolRange ==
  ASSUME NEW s \in Seq(Pool)
  PROVE  /\ Range(s) \subseteq Pool /\ \A b : b \in Range(s) <=> Contains(s, b)
<1>1. DOMAIN s = 1 .. Len(s) /\ \A i \in 1 .. Len(s) : s[i] \in Pool
  OBVIOUS
<1>2. \A b : b \in Range(s) <=> Contains(s, b)
  BY <1>1, RangeContains DEF Contains
<1>3. \A b : Contains(s, b) => b \in Pool
  BY <1>1 DEF Contains
<1> QED
  BY <1>2, <1>3

LEMMA CountImage ==
  ASSUME NEW H, NEW F, IsFiniteSet(H), NEW f \in [H -> F],
         \A x, y \in H : f[x] = f[y] => x = y, \A z \in F : \E x \in H : f[x] = z
  PROVE  IsFiniteSet(F) /\ Cardinality(F) = Cardinality(H)
<1>1. f \in Surjection(H, F)
  BY DEF Surjection
<1>2. f \in Injection(H, F)
  BY DEF Injection, IsInjective
<1> QED
  BY <1>1, <1>2, FS_Surjection

LEMMA CountRange ==
  ASSUME NEW s \in Seq(Pool), IsInjective(s)
  PROVE  IsFiniteSet(Range(s)) /\ Cardinality(Range(s)) = Len(s)
<1>1. PICK n \in Nat : n = Len(s)
  OBVIOUS
<1>2. PICK H, F : H = 1 .. n /\ F = Range(s)
  OBVIOUS
<1>3. IsFiniteSet(H) /\ Cardinality(H) = n
  <2>1. n \in Int /\ 1 \in Int
    OBVIOUS
  <2>2. IsFiniteSet(1 .. n) /\ Cardinality(1 .. n) = IF 1 > n THEN 0 ELSE n - 1 + 1
    BY <2>1, FS_Interval
  <2>3. (IF 1 > n THEN 0 ELSE n - 1 + 1) = n
    OBVIOUS
  <2> QED
    BY <1>2, <2>2, <2>3
<1>4. DOMAIN s = H /\ s = [i \in H |-> s[i]]
  BY <1>1, <1>2
<1>5. \A i \in H : s[i] \in F
  BY <1>2, <1>4 DEF Range
<1>6. s \in [H -> F]
  BY <1>4, <1>5
<1>7. \A x, y \in H : s[x] = s[y] => x = y
  BY <1>4 DEF IsInjective
<1>8. \A z \in F : \E x \in H : s[x] = z
  BY <1>2, <1>4 DEF Range
<1>9. IsFiniteSet(F) /\ Cardinality(F) = Cardinality(H)
  <2>1. PICK f : f = s
    OBVIOUS
  <2>2. /\ f \in [H -> F] /\ \A x, y \in H : f[x] = f[y] => x = y
        /\ \A z \in F : \E x \in H : f[x] = z
    BY <1>6, <1>7, <1>8, <2>1
  <2> QED
    BY <1>3, <2>2, CountImage
<1> QED
  BY <1>1, <1>2, <1>3, <1>9

\* The threads that hold a block, and the blocks they hold.
HoldersOf(c) == {t \in Peers : Blk(c[t]) # 0}
InHand(c) == {Blk(c[t]) : t \in HoldersOf(c)}

LEMMA CountHands ==
  ASSUME NEW p, NEW c, NEW qs, NEW fs, Owned(c, qs, fs), Carried(p, c)
  PROVE  /\ IsFiniteSet(InHand(c)) /\ Cardinality(InHand(c)) = Cardinality(HoldersOf(c))
         /\ Cardinality(HoldersOf(c)) \in Nat
         /\ InHand(c) \subseteq Pool
         /\ \A b \in Pool : b \in InHand(c) <=> \E t \in Peers : Blk(c[t]) = b
         /\ \A b \in InHand(c) : ~Idle(qs, fs, b)
<1>1. /\ \A u \in Peers : Blk(c[u]) # 0 => Blk(c[u]) \in Pool
      /\ 0 \notin Pool
  BY CarriedFields
<1>2. PICK H, F : H = HoldersOf(c) /\ F = InHand(c)
  OBVIOUS
<1>3. /\ H \subseteq Peers /\ \A t \in H : Blk(c[t]) # 0
      /\ F = {Blk(c[t]) : t \in H} /\ \A t \in Peers : Blk(c[t]) # 0 => t \in H
  BY <1>2 DEF HoldersOf, InHand
<1>4. IsFiniteSet(H)
  BY <1>3, ObjectsAssumption, FS_Subset
<1>5. PICK f : f = [t \in H |-> Blk(c[t])]
  OBVIOUS
<1>6. f \in [H -> F] /\ \A z \in F : \E x \in H : f[x] = z
  BY <1>3, <1>5
<1>7. \A x, y \in H : f[x] = f[y] => x = y
  BY <1>3, <1>5 DEF Owned
<1>8. IsFiniteSet(F) /\ Cardinality(F) = Cardinality(H)
  BY <1>4, <1>6, <1>7, CountImage
<1>9. Cardinality(H) \in Nat
  BY <1>4, FS_CardinalityType
<1>10. F \subseteq Pool /\ \A b \in F : ~Idle(qs, fs, b)
  <2> SUFFICES ASSUME NEW b \in F
               PROVE  b \in Pool /\ ~Idle(qs, fs, b)
    OBVIOUS
  <2>1. PICK t \in H : b = Blk(c[t])
    BY <1>3
  <2> QED
    BY <1>1, <1>3, <2>1 DEF Owned
<1>11. \A b \in Pool : b \in F <=> \E t \in Peers : Blk(c[t]) = b
  BY <1>1, <1>3
<1> QED
  BY <1>2, <1>8, <1>9, <1>10, <1>11

\* A block is idle or in one thread's hands, and there are as many as the pool has.
LEMMA BlocksCounted ==
  ASSUME NEW p, NEW c, NEW m, NEW qs, NEW fs, Shape(m, qs, fs), Owned(c, qs, fs), Carried(p, c),
         NEW s, s = qs \o fs
  PROVE  /\ Len(s) + Cardinality(HoldersOf(c)) = Capacity
         /\ InHand(c) \cup Range(s) = Pool
<1>1. /\ s \in Seq(Pool) /\ IsInjective(s) /\ \A b : Contains(s, b) <=> Idle(qs, fs, b)
  BY ListsApart
<1>2. PICK F, R, n, k : F = InHand(c) /\ R = Range(s) /\ n = Len(s) /\ k = Cardinality(HoldersOf(c))
  OBVIOUS
<1>3. /\ IsFiniteSet(F) /\ Cardinality(F) = k /\ k \in Nat /\ F \subseteq Pool
      /\ \A b \in Pool : b \in F <=> \E t \in Peers : Blk(c[t]) = b
      /\ \A b \in F : ~Idle(qs, fs, b)
  BY <1>2, CountHands
<1>4. /\ R \subseteq Pool /\ \A b : b \in R <=> Idle(qs, fs, b)
  BY <1>1, <1>2, PoolRange
<1>5. IsFiniteSet(R) /\ Cardinality(R) = n /\ n \in Nat
  <2>1. IsFiniteSet(Range(s)) /\ Cardinality(Range(s)) = Len(s)
    BY <1>1, CountRange
  <2>2. Len(s) \in Nat
    BY <1>1
  <2> QED
    BY <1>2, <2>1, <2>2
<1>6. F \cup R = Pool
  <2>1. \A b \in Pool : b \in F \/ b \in R
    BY <1>3, <1>4 DEF Owned
  <2> QED
    BY <1>3, <1>4, <2>1
<1>7. F \cap R = {}
  BY <1>3, <1>4
<1>8. Cardinality(Pool) = Capacity /\ Capacity \in Nat
  <2>1. PICK j \in Nat : j = Capacity /\ j >= 1
    BY ObjectsAssumption
  <2>2. j \in Int /\ 1 \in Int
    OBVIOUS
  <2>3. Cardinality(1 .. j) = IF 1 > j THEN 0 ELSE j - 1 + 1
    BY <2>2, FS_Interval
  <2>4. (IF 1 > j THEN 0 ELSE j - 1 + 1) = j
    OBVIOUS
  <2> QED
    BY <2>1, <2>3, <2>4 DEF Pool
<1>9. Cardinality(F \cup R) = Cardinality(F) + Cardinality(R) - Cardinality(F \cap R)
  BY <1>3, <1>5, FS_Union
<1>10. Cardinality(F \cap R) = 0
  BY <1>7, FS_EmptySet
<1>11. Capacity = k + n - 0
  BY <1>3, <1>5, <1>6, <1>8, <1>9, <1>10
<1>12. n + k = Capacity
  BY <1>3, <1>5, <1>11
<1> QED
  BY <1>2, <1>6, <1>12

LEMMA QueueCardinality == \A S : Queue!Cardinality(S) = Cardinality(S)
BY DEF Queue!Cardinality, Cardinality

\* What the invariant says of the waits for a mailbox or a message queue.
LEMMA WaitsFacts ==
  ASSUME Settled(th)
  PROVE  Box!WaitsSound /\ WaitersByPriority
<1>1. th \in PeerRecords
  BY DEF Settled
<1>2. Range(th.wait["receivers"]) \cap Range(th.wait["senders"]) = {}
  <2>1. \A q \in Queues : \A t : t \in Range(th.wait[q]) => t \in Peers /\ Contains(th.wait[q], t)
    <3> SUFFICES ASSUME NEW q \in Queues, NEW t, t \in Range(th.wait[q])
                 PROVE  t \in Peers /\ Contains(th.wait[q], t)
      OBVIOUS
    <3>1. th.wait[q] \in Seq(Peers) /\ \E i \in DOMAIN th.wait[q] : th.wait[q][i] = t
      BY <1>1, RangeContains DEF PeerRecords
    <3> QED
      BY <3>1 DEF Contains
  <2> QED
    BY <1>1, <2>1 DEF Settled, Queues
<1>3. Box!WaitsSound
  BY <1>1, <1>2, BoxSame DEF Settled, Box!WaitsSound, Box!Queues, Queues
<1>4. WaitersByPriority
  BY <1>1 DEF Settled, WaitersByPriority, InOrder
<1> QED
  BY <1>3, <1>4

\* What the invariant says of a message queue.
LEMMA QueueTyped ==
  ASSUME QueueInv
  PROVE  Queue!TypeOK
<1>1. PICK qs, fs : QState(th, pc, obj, call, ghost, qs, fs)
  BY DEF QueueInv
<1>2. Carried(pc, call) /\ ghost \in Values \cup {None} /\ MailWaits(th, pc) /\ Shape(obj, qs, fs)
  BY <1>1, QParts
<1>3. Queue!ThreadsOK
  <2>1. th \in PeerRecords
    BY <1>2 DEF MailWaits, Settled
  <2> QED
    BY <2>1 DEF Queue!ThreadsOK, PeerRecords, Errors, Queues, Queue!Queues
<1>4. pc \in [Peers -> Queue!Places]
  BY <1>2 DEF Carried
<1>5. obj \in Pools /\ Pool = Queue!Blocks
  BY <1>2 DEF Shape, Pool, Queue!Blocks
<1>6. call \in [Peers -> [msg : Values \cup {None}, blk : 0 .. Capacity, left : Queue!Patience]]
  BY <1>2 DEF Carried, CallRecords, Patience, Queue!Patience
<1> QED
  BY <1>2, <1>3, <1>4, <1>5, <1>6 DEF Queue!TypeOK, Pools

LEMMA QueueFacts ==
  ASSUME QueueInv
  PROVE  /\ Queue!TypeOK /\ Box!WaitsSound /\ WaitersByPriority
         /\ Queue!NobodyStranded /\ Queue!BlocksConserved
<1>1. PICK qs, fs : QState(th, pc, obj, call, ghost, qs, fs)
  BY DEF QueueInv
<1>2. /\ Shape(obj, qs, fs) /\ Owned(call, qs, fs) /\ Carried(pc, call) /\ MailWaits(th, pc)
      /\ Served(th, pc, Len(qs), Len(fs))
  BY <1>1, QParts
<1>3. Queue!Queue(obj) = qs /\ Queue!ListFrom(obj, obj.free) = fs
  BY <1>2, ShapeLists
<1>4. Box!WaitsSound /\ WaitersByPriority
  BY <1>2, WaitsFacts DEF MailWaits
<1>5. Queue!NobodyStranded
  <2>1. Queue!Awake("recv") = AwakeAt(th, pc, "recv") /\ Queue!Awake("send") = AwakeAt(th, pc, "send")
    BY DEF Queue!Awake, AwakeAt, Queue!Woken, Queue!Resumed
  <2>2. CountOf(obj) = Len(qs)
    BY <1>1, QFields
  <2>3. /\ th.wait["receivers"] # <<>> => CountOf(obj) <= Cardinality(Queue!Awake("recv"))
        /\ th.wait["senders"] # <<>> => Len(fs) <= Cardinality(Queue!Awake("send"))
    BY <1>2, <2>1, <2>2 DEF Served
  <2> QED
    BY <1>3, <2>3, QueueCardinality DEF Queue!NobodyStranded, CountOf
<1>6. Queue!BlocksConserved
  <2>1. PICK s : s = qs \o fs
    OBVIOUS
  <2>2. IsInjective(s)
    BY <1>2, <2>1, ListsApart
  <2>3. Len(s) + Cardinality(HoldersOf(call)) = Capacity /\ InHand(call) \cup Range(s) = Pool
    BY <1>2, <2>1, BlocksCounted
  <2>4. Queue!Holders = HoldersOf(call) /\ {call[t].blk : t \in Queue!Holders} = InHand(call)
    BY DEF Queue!Holders, HoldersOf, InHand, Blk
  <2>5. Queue!IsInjective(s) /\ Queue!Range(s) = Range(s) /\ Queue!Blocks = Pool
    BY <2>2 DEF Queue!IsInjective, IsInjective, Queue!Range, Range, Queue!Blocks, Pool
  <2>6. obj.entry = Len(qs) /\ obj.tail = IF qs = <<>> THEN 0 ELSE Queue!Last(qs)
    BY <1>2 DEF Shape, Queue!Last
  <2>7. Len(s) + Queue!Cardinality(Queue!Holders) = Capacity
    BY <2>3, <2>4, QueueCardinality
  <2>8. {call[t].blk : t \in Queue!Holders} \cup Queue!Range(s) = Queue!Blocks
    BY <2>3, <2>4, <2>5
  <2> QED
    BY <1>3, <2>1, <2>5, <2>6, <2>7, <2>8 DEF Queue!BlocksConserved
<1> QED
  BY <1>4, <1>5, <1>6, QueueTyped

-----------------------------------------------------------------------------
(* What runs show of mailboxes and message queues, for every value of the  *)
(* constants.                                                              *)

MailInv == (kind = "mailbox" => BoxInv) /\ (kind = "mq" => QueueInv)

\* An object of another kind is an empty channel that nobody uses.
LEMMA OtherChannels ==
  ASSUME kind \notin {"mailbox", "mq"}
  PROVE  /\ Line = <<>> /\ Handed = None
         /\ \A t \in Peers : ChannelPhase(t) = "out" /\ ChannelItem(t) = None
BY DEF Line, Handed, ChannelPhase, ChannelItem

LEMMA MailStep ==
  ASSUME MailInv, [Next]_vars
  PROVE  MailInv' /\ [Channel!Next]_Channel!vars
<1>1. kind' = kind
  BY DEF Next, vars
<1>2. CASE kind = "mailbox"
  <2>1. BoxSteps
    BY <1>1, <1>2 DEF BoxSteps, MailInv
  <2>2. BoxKept
    <3>1. CASE Next
      BY <1>2, <2>1, <3>1, BoxNext DEF Next
    <3>2. CASE UNCHANGED vars
      BY <2>1, <3>2, BoxQuiet DEF vars, ipcVars
    <3> QED
      BY <3>1, <3>2
  <2> QED
    BY <1>1, <1>2, <2>2 DEF BoxKept, MailInv
<1>3. CASE kind = "mq"
  <2>1. PICK qs, fs : QState(th, pc, obj, call, ghost, qs, fs)
    BY <1>3 DEF MailInv, QueueInv
  <2>2. QueueSteps(qs, fs)
    BY <1>1, <1>3, <2>1 DEF QueueSteps
  <2>3. QueueKept
    <3>1. CASE Next
      BY <1>3, <2>2, <3>1, QueueNext DEF Next
    <3>2. CASE UNCHANGED vars
      <4>1. QState(th', pc, obj, call, ghost, qs, fs)
        BY <2>1, <3>2 DEF vars, ipcVars
      <4> QED
        BY <2>2, <3>2, <4>1, QueueStays DEF vars, ipcVars
    <3> QED
      BY <3>1, <3>2
  <2> QED
    BY <1>1, <1>3, <2>3 DEF QueueKept, MailInv
<1>4. CASE kind \notin {"mailbox", "mq"}
  <2>1. MailInv'
    BY <1>1, <1>4 DEF MailInv
  <2>2. /\ Line = <<>> /\ Handed = None /\ Line' = <<>> /\ Handed' = None
        /\ \A t \in Peers : /\ ChannelPhase(t) = "out" /\ ChannelItem(t) = None
                            /\ ChannelPhase(t)' = "out" /\ ChannelItem(t)' = None
    <3>1. (kind \notin {"mailbox", "mq"})'
      BY <1>1, <1>4
    <3>2. (/\ Line = <<>> /\ Handed = None
           /\ \A t \in Peers : ChannelPhase(t) = "out" /\ ChannelItem(t) = None)'
      BY <3>1, OtherChannels, PTL
    <3> QED
      BY <1>4, <3>2, OtherChannels
  <2>3. UNCHANGED Channel!vars
    <3>1. Rests
      BY <2>2 DEF Rests
    <3>2. Line' = Line /\ Handed' = Handed
      BY <2>2
    <3> QED
      BY <3>1, <3>2, ChanQuiet
  <2> QED
    BY <2>1, <2>3
<1> QED
  BY <1>2, <1>3, <1>4

LEMMA MailInit == Init => MailInv /\ Channel!Init
<1> SUFFICES ASSUME Init
             PROVE  MailInv /\ Channel!Init
  OBVIOUS
<1>1. CASE kind = "mailbox"
  BY <1>1, BoxInit DEF Init, MailInv
<1>2. CASE kind = "mq"
  BY <1>2, QueueInit DEF Init, MailInv
<1>3. CASE kind \notin {"mailbox", "mq"}
  <2>1. /\ Line = <<>> /\ Handed = None
        /\ \A t \in Peers : ChannelPhase(t) = "out" /\ ChannelItem(t) = None
    BY <1>3, OtherChannels
  <2>2. Channel!Init
    BY <2>1 DEF Channel!Init, Line, Handed
  <2> QED
    BY <1>3, <2>2 DEF MailInv
<1> QED
  BY <1>1, <1>2, <1>3

\* The strengthened invariant of mailboxes and message queues of any size, used by any
\* number of threads.
THEOREM MailInvariance == Spec => []MailInv
<1>1. Init => MailInv
  BY MailInit
<1>2. MailInv /\ [Next]_vars => MailInv'
  BY MailStep
<1> QED
  BY <1>1, <1>2, PTL DEF Spec

\* A mailbox and a message queue are bounded queues: rt_mb_send_wait, rt_mb_urgent,
\* rt_mb_recv and their counterparts for message queues hand over each message once,
\* in order and as it was sent, whatever the interleaving, the timeouts and the resets.
THEOREM ChannelImplementedCorrect == Spec => ChannelImplemented
<1>1. Init => MailInv /\ Channel!Init
  BY MailInit
<1>2. MailInv /\ [Next]_vars => MailInv' /\ [Channel!Next]_Channel!vars
  BY MailStep
<1> QED
  BY <1>1, <1>2, PTL DEF Spec, ChannelImplemented, Channel!Spec

\* Every block of a message queue's pool is free, queued, or in the hands of one
\* thread, at every step of rt_mq_send_wait, rt_mq_urgent, rt_mq_recv and
\* rt_mq_control: none is lost, and none is in two places.
THEOREM QueueBlocksConservedCorrect == Spec => []QueueBlocksConserved
<1>1. MailInv => QueueBlocksConserved
  BY QueueFacts DEF MailInv, QueueBlocksConserved
<1> QED
  BY <1>1, MailInvariance, PTL

\* While receivers wait, each message has a receiver that was woken for it, and while
\* senders wait, each free place a sender: no wakeup of a mailbox or of a message queue
\* is lost.
THEOREM IpcNobodyStrandedCorrect == Spec => []IpcNobodyStranded
<1>1. MailInv => IpcNobodyStranded
  BY BoxFacts, QueueFacts DEF MailInv, IpcNobodyStranded
<1> QED
  BY <1>1, MailInvariance, PTL

-----------------------------------------------------------------------------
(* What the objects have in common.                                        *)

\* The strengthened invariant of whichever object there is.
ObjectInv ==
  /\ kind \in {"event", "mailbox", "mq", "mutex", "semaphore"}
  /\ kind = "event" => EvInv
  /\ MailInv
  /\ kind = "mutex" => LockInv
  /\ kind = "semaphore" => SemInv

\* The waits of an object with one wait list.
LEMMA CalmFacts ==
  ASSUME Calm(th)
  PROVE  ThreadsOK /\ WaitsSound
<1>1. th \in ThreadRecords
  BY DEF Calm
<1>2. ThreadsOK
  BY <1>1 DEF ThreadsOK, ThreadRecords, Errors
<1>3. \A q \in Queues : q = "receivers" \/ q = "senders"
  BY DEF Queues
<1>4. th.wait["senders"] = <<>> /\ \A t : ~Contains(th.wait["senders"], t)
  BY DEF Calm, Contains
<1>5. IsInjective(th.wait["senders"]) /\ Range(th.wait["senders"]) = {}
  BY <1>4 DEF IsInjective, Range
<1>6. \A t \in Threads : (th.stat[t] = "suspend") <=> (\E q \in Queues : Contains(th.wait[q], t))
  BY <1>3, <1>4 DEF Calm, Waiting, Queues
<1>7. \A q \in Queues : IsInjective(th.wait[q])
  BY <1>3, <1>5 DEF Calm, Waiting
<1>8. \A t \in th.armed : th.stat[t] = "suspend"
  BY DEF Calm
<1> QED
  BY <1>2, <1>5, <1>6, <1>7, <1>8 DEF WaitsSound

LEMMA CalmOrder ==
  ASSUME Calm(th), PrioFlag => Sorted(th)
  PROVE  WaitersByPriority
<1>1. \A q \in Queues : q = "receivers" \/ q = "senders"
  BY DEF Queues
<1>2. InOrder(th.wait["senders"], th.prio)
  BY DEF Calm, InOrder
<1>3. PrioFlag => \A q \in Queues : InOrder(th.wait[q], th.prio)
  BY <1>1, <1>2 DEF Sorted, Waiting
<1> QED
  BY <1>3 DEF WaitersByPriority, InOrder

LEMMA EvTyped ==
  ASSUME EvInv
  PROVE  Event!TypeOK
BY CalmFacts DEF EvInv, AskRecords, Event!TypeOK, Event!ThreadsOK, ThreadsOK, Event!Queues, Queues,
   Calm

LEMMA LockTyped ==
  ASSUME LockInv
  PROVE  Lock!TypeOK
BY CalmFacts DEF LockInv, LockWaits, Lock!TypeOK, Lock!ThreadsOK, ThreadsOK, Lock!Queues, Queues

LEMMA SemTyped ==
  ASSUME SemInv
  PROVE  Sem!TypeOK
BY CalmFacts DEF SemInv, Sem!TypeOK, Sem!ThreadsOK, ThreadsOK, Sem!Queues, Queues

\* What the invariants say of the waits.
LEMMA ObjectWaits ==
  ASSUME ObjectInv
  PROVE  IpcWaitsSound /\ WaitersByPriority
<1>1. CASE kind = "event"
  BY <1>1, EvTyped, CalmFacts, CalmOrder DEF ObjectInv, EvInv, IpcWaitsSound
<1>2. CASE kind = "mailbox"
  BY <1>2, BoxFacts DEF ObjectInv, MailInv, IpcWaitsSound
<1>3. CASE kind = "mq"
  BY <1>3, QueueFacts DEF ObjectInv, MailInv, IpcWaitsSound
<1>4. CASE kind = "mutex"
  BY <1>4, LockTyped, CalmFacts, CalmOrder DEF ObjectInv, LockInv, LockWaits, IpcWaitsSound
<1>5. CASE kind = "semaphore"
  BY <1>5, SemTyped, CalmFacts, CalmOrder DEF ObjectInv, SemInv, IpcWaitsSound
<1> QED
  BY <1>1, <1>2, <1>3, <1>4, <1>5 DEF ObjectInv

\* The strengthened invariants of all five kinds of object, together, up to a destruction
\* that takes the object for a thread.
THEOREM ObjectsInvariance == Spec => []ObjectInv
<1>1. Init => kind \in {"event", "mailbox", "mq", "mutex", "semaphore"}
  BY DEF Init
<1>2. kind \in {"event", "mailbox", "mq", "mutex", "semaphore"} /\ [Next]_vars
        => (kind \in {"event", "mailbox", "mq", "mutex", "semaphore"})'
  BY DEF Next, vars
<1> QED
  BY <1>1, <1>2, EvInvariance, MailInvariance, LockInvariance, SemInvariance, PTL
     DEF Spec, ObjectInv

\* In every state of every object of ipc.c the types are kept, the SUSPENDed threads are
\* those on one wait list, and only they have a timer: _ipc_list_suspend, rt_thread_resume,
\* _ipc_list_resume_all and _thread_timeout keep list, state and timer of a thread
\* together, in whichever order they come.  The turns of _ipc_list_resume_all in a
\* destruction are among them while they find a waiter; one that finds the list empty
\* after its test writes behind the object, and nothing is claimed of what follows.
THEOREM IpcWaitsSoundCorrect == Spec => []IpcWaitsSound
<1>1. ObjectInv => IpcWaitsSound
  BY ObjectWaits
<1> QED
  BY <1>1, ObjectsInvariance, PTL

\* No thread waits behind one of a lower priority: rt_list_insert by priority in
\* _ipc_list_suspend keeps each wait list sorted, and so does rt_mutex_take when it
\* changes the priority of the owner.
THEOREM IpcWaitersByPriorityCorrect == Spec => []IpcWaitersByPriority
<1>1. ObjectInv => IpcWaitersByPriority
  BY ObjectWaits DEF IpcWaitersByPriority
<1> QED
  BY <1>1, ObjectsInvariance, PTL
=============================================================================
