------------------------- MODULE ThreadQueueProofs -------------------------
(* Lemmas on the operators of ThreadQueue, for queues of any length.       *)
EXTENDS ThreadQueue, Integers, WellFoundedInduction, SequenceTheorems, TLAPS

-----------------------------------------------------------------------------
(* Induction over the naturals, for a set rather than for a predicate.     *)
LEMMA NatSetInduction ==
  ASSUME NEW K, 0 \in K, \A n \in Nat : n \in K => n + 1 \in K
  PROVE  Nat \subseteq K
<1> DEFINE R == OpToRel(<, Nat)
<1> SUFFICES ASSUME Nat \ K # {} PROVE FALSE
    OBVIOUS
<1>1. IsWellFoundedOn(R, Nat)
    BY NatLessThanWellFounded
<1>2. \A x, y \in Nat : <<y, x>> \in R <=> y < x
    BY Zenon DEF OpToRel
<1> HIDE DEF R
<1>3. PICK x \in Nat \ K : \A y \in Nat \ K : ~ (<<y, x>> \in R)
    BY <1>1, WFMin
<1>4. x - 1 \in Nat /\ x - 1 < x
    BY <1>3
<1>5. x - 1 \in K
    BY <1>2, <1>3, <1>4
<1> QED
    BY <1>3, <1>4, <1>5

-----------------------------------------------------------------------------
(* Where a queued thread stands.                                           *)
LEMMA PositionLemma ==
  ASSUME NEW S, NEW q \in Seq(S), NEW t, Contains(q, t)
  PROVE  Position(q, t) \in 1..Len(q) /\ q[Position(q, t)] = t
BY DEF Contains, Position

(* The queue routines return queues of threads.                            *)
LEMMA AddType ==
  ASSUME NEW S, NEW q \in Seq(S), NEW t \in S
  PROVE  addThreadToQueue(q, t) \in Seq(S)
<1>1. CASE ~Contains(q, t)
      BY <1>1 DEF addThreadToQueue
<1>2. CASE Contains(q, t)
  <2> DEFINE i == Position(q, t)
  <2>1. i \in 1..Len(q)
        BY <1>2, PositionLemma
  <2> HIDE DEF i
  <2>2. SubSeq(q, 1, i - 1) \in Seq(S)
        BY <2>1
  <2>3. Append(SubSeq(q, 1, i - 1), t) \in Seq(S) /\ <<t>> \in Seq(S)
        BY <2>2
  <2> QED
        BY <1>2, <2>3 DEF addThreadToQueue, i
<1> QED
      BY <1>1, <1>2

LEMMA RemoveStartType ==
  ASSUME NEW S, NEW q \in Seq(S)
  PROVE  /\ removeQueueStart(q) \in Seq(S)
         /\ q # <<>> => Head(q) \in S
BY DEF removeQueueStart

LEMMA RemoveFromType ==
  ASSUME NEW S, NEW q \in Seq(S), NEW t
  PROVE  removeFromQueue(q, t) \in Seq(S)
<1>1. CASE Contains(q, t)
  <2> DEFINE i == Position(q, t)
  <2>1. i \in 1..Len(q)
        BY <1>1, PositionLemma
  <2> HIDE DEF i
  <2>2. SubSeq(q, 1, i - 1) \in Seq(S) /\ SubSeq(q, i + 1, Len(q)) \in Seq(S)
        BY <2>1
  <2> QED
        BY <1>1, <2>2 DEF removeFromQueue, RemoveAt, i
<1> QED
      BY <1>1 DEF removeFromQueue

-----------------------------------------------------------------------------
(* removeThreads is computed by the function keep; it exists.              *)
IsKeep(keep, q, ts, m) ==
  keep = [n \in 0..m |-> IF n = 0 THEN <<>>
                         ELSE IF q[n] \in ts THEN keep[n - 1]
                         ELSE Append(keep[n - 1], q[n])]

LEMMA KeepExists ==
  ASSUME NEW S, NEW q \in Seq(S), NEW ts
  PROVE  \E f \in [0..Len(q) -> Seq(S)] : IsKeep(f, q, ts, Len(q))
<1> DEFINE K == {k \in Nat : k <= Len(q) => \E f \in [0..k -> Seq(S)] : IsKeep(f, q, ts, k)}
<1>1. 0 \in K
  <2> DEFINE f == [n \in 0..0 |-> <<>>]
  <2>1. f \in [0..0 -> Seq(S)]
        OBVIOUS
  <2>2. IsKeep(f, q, ts, 0)
        BY DEF IsKeep
  <2> QED
        BY <2>1, <2>2
<1>2. ASSUME NEW k \in Nat, k \in K PROVE k + 1 \in K
  <2> SUFFICES ASSUME k + 1 <= Len(q)
               PROVE  \E f \in [0..(k + 1) -> Seq(S)] : IsKeep(f, q, ts, k + 1)
      OBVIOUS
  <2>1. k <= Len(q)
        OBVIOUS
  <2>2. PICK g \in [0..k -> Seq(S)] : IsKeep(g, q, ts, k)
        BY <1>2, <2>1
  <2> DEFINE v == IF q[k + 1] \in ts THEN g[k] ELSE Append(g[k], q[k + 1])
             f == [n \in 0..(k + 1) |-> IF n = k + 1 THEN v ELSE g[n]]
  <2>3. v \in Seq(S)
        OBVIOUS
  <2>4. f \in [0..(k + 1) -> Seq(S)]
        BY <2>3
  <2>5. ASSUME NEW n \in 0..(k + 1)
        PROVE  f[n] = IF n = 0 THEN <<>>
                      ELSE IF q[n] \in ts THEN f[n - 1] ELSE Append(f[n - 1], q[n])
    <3>1. CASE n = k + 1
          BY <3>1
    <3>2. CASE n # k + 1
      <4>1. n \in 0..k /\ (n # 0 => n - 1 \in 0..k)
            BY <3>2
      <4>2. g[n] = IF n = 0 THEN <<>>
                   ELSE IF q[n] \in ts THEN g[n - 1] ELSE Append(g[n - 1], q[n])
            BY <2>2, <4>1 DEF IsKeep
      <4> QED
            BY <4>1, <4>2, <3>2, SMTT(60)
    <3> QED
          BY <3>1, <3>2
  <2>6. IsKeep(f, q, ts, k + 1)
        BY <2>5 DEF IsKeep
  <2> QED
        BY <2>4, <2>6
<1> HIDE DEF K
<1>3. Nat \subseteq K
      BY <1>1, <1>2, NatSetInduction
<1>4. Len(q) \in K
      BY <1>3
<1> QED
      BY <1>4 DEF K

LEMMA RemoveThreadsIsKeep ==
  ASSUME NEW S, NEW q \in Seq(S), NEW ts
  PROVE  \E keep : /\ removeThreads(q, ts) = keep[Len(q)]
                   /\ keep[0] = <<>>
                   /\ \A n \in 1..Len(q) :
                        keep[n] = IF q[n] \in ts THEN keep[n - 1] ELSE Append(keep[n - 1], q[n])
<1> DEFINE keep == CHOOSE f : IsKeep(f, q, ts, Len(q))
<1>1. removeThreads(q, ts) = keep[Len(q)]
      BY DEF removeThreads, IsKeep
<1>2. IsKeep(keep, q, ts, Len(q))
      BY KeepExists, Zenon
<1> HIDE DEF keep
<1>3. \A n \in 0..Len(q) : keep[n] = IF n = 0 THEN <<>>
                           ELSE IF q[n] \in ts THEN keep[n - 1] ELSE Append(keep[n - 1], q[n])
      BY <1>2 DEF IsKeep
<1> QED
      BY <1>1, <1>3

LEMMA RemoveThreadsType ==
  ASSUME NEW S, NEW q \in Seq(S), NEW ts
  PROVE  removeThreads(q, ts) \in Seq(S)
<1>1. PICK keep : /\ removeThreads(q, ts) = keep[Len(q)]
                  /\ keep[0] = <<>>
                  /\ \A n \in 1..Len(q) :
                       keep[n] = IF q[n] \in ts THEN keep[n - 1] ELSE Append(keep[n - 1], q[n])
      BY RemoveThreadsIsKeep
<1>2. /\ keep[0] \in Seq(S)
      /\ \A n \in 1..Len(q) : keep[n] \in {keep[n - 1], Append(keep[n - 1], q[n])}
      BY <1>1, Zenon, EmptySeq
<1> DEFINE K == {k \in Nat : k <= Len(q) => keep[k] \in Seq(S)}
<1>3. 0 \in K
      BY <1>2
<1>4. ASSUME NEW k \in Nat, k \in K PROVE k + 1 \in K
  <2> SUFFICES ASSUME k + 1 <= Len(q) PROVE keep[k + 1] \in Seq(S)
      OBVIOUS
  <2>1. k + 1 \in 1..Len(q) /\ k + 1 - 1 = k /\ k <= Len(q)
        OBVIOUS
  <2>2. keep[k] \in Seq(S) /\ q[k + 1] \in S
        BY <1>4, <2>1
  <2>3. Append(keep[k], q[k + 1]) \in Seq(S)
        BY <2>2
  <2>4. keep[k + 1] \in {keep[k], Append(keep[k], q[k + 1])}
        BY <1>2, <2>1
  <2> QED
        BY <2>2, <2>3, <2>4
<1> HIDE DEF K
<1>5. Nat \subseteq K
      BY <1>3, <1>4, NatSetInduction
<1> QED
      BY <1>1, <1>5 DEF K

-----------------------------------------------------------------------------
(* A set of naturals that is not empty has a least element.                *)
LEMMA MinLemma ==
  ASSUME NEW S, S \subseteq Nat, S # {}
  PROVE  Min(S) \in S /\ \A y \in S : Min(S) =< y
<1> DEFINE R == OpToRel(<, Nat)
<1>1. IsWellFoundedOn(R, Nat)
    BY NatLessThanWellFounded
<1>2. \A x, y \in Nat : <<y, x>> \in R <=> y < x
    BY Zenon DEF OpToRel
<1> HIDE DEF R
<1>3. PICK x \in S : \A y \in S : ~ (<<y, x>> \in R)
    BY <1>1, WFMin
<1>4. \A y \in S : ~ (y < x)
    BY <1>2, <1>3, Zenon
<1>5. \A y \in S : x =< y
    BY <1>4
<1> QED
    BY <1>5, Zenon DEF Min

(* A queue with a thread put in at a position of the queue.                *)
LEMMA InsertType ==
  ASSUME NEW S, NEW q \in Seq(S), NEW t \in S, NEW i \in 1..Len(q)
  PROVE  InsertAt(q, i, t) \in Seq(S)
<1>1. SubSeq(q, 1, i - 1) \in Seq(S) /\ <<t>> \in Seq(S) /\ SubSeq(q, i, Len(q)) \in Seq(S)
      OBVIOUS
<1> QED
      BY <1>1 DEF InsertAt

(* The parts a queue is cut into.                                          *)
LEMMA CutType ==
  ASSUME NEW S, NEW q \in Seq(S), NEW n \in 0..Len(q)
  PROVE  SubSeq(q, 1, n) \in Seq(S) /\ SubSeq(q, n + 1, Len(q)) \in Seq(S)
OBVIOUS

-----------------------------------------------------------------------------
(* What the queue routines do to who is in a queue, and how often.         *)

LEMMA InjectiveQueue ==
  ASSUME NEW S, NEW q \in Seq(S)
  PROVE  IsInjective(q) <=> \A i, j \in 1..Len(q) : q[i] = q[j] => i = j
<1>1. DOMAIN q = 1..Len(q)
      OBVIOUS
<1> QED
      BY <1>1, Zenon DEF IsInjective

LEMMA EmptyQueue ==
  /\ IsInjective(<<>>) /\ \A t : ~Contains(<<>>, t)
  /\ \A S : \A q \in Seq(S) : q # <<>> => Contains(q, Head(q))
<1>1. IsInjective(<<>>)
      BY DEF IsInjective
<1>2. \A t : ~Contains(<<>>, t)
      BY DEF Contains
<1>3. ASSUME NEW S, NEW q \in Seq(S), q # <<>> PROVE Contains(q, Head(q))
  <2>1. Len(q) >= 1 /\ q[1] = Head(q) /\ 1 \in 1..Len(q)
        BY <1>3
  <2> QED
        BY <2>1 DEF Contains
<1> QED
      BY <1>1, <1>2, <1>3

LEMMA AppendEffect ==
  ASSUME NEW S, NEW q \in Seq(S), NEW t \in S, IsInjective(q), ~Contains(q, t)
  PROVE  /\ addThreadToQueue(q, t) = Append(q, t)
         /\ IsInjective(addThreadToQueue(q, t))
         /\ \A u : Contains(addThreadToQueue(q, t), u) <=> Contains(q, u) \/ u = t
<1> DEFINE r == Append(q, t)
<1>1. addThreadToQueue(q, t) = r
      BY DEF addThreadToQueue
<1>2. /\ r \in Seq(S) /\ Len(r) = Len(q) + 1 /\ Len(q) \in Nat /\ r[Len(q) + 1] = t
      /\ \A i \in 1..Len(q) : r[i] = q[i]
      OBVIOUS
<1> HIDE DEF r
<1>3. \A i \in 1..Len(q) : q[i] # t
      BY DEF Contains
<1>4. \A i, j \in 1..Len(q) : q[i] = q[j] => i = j
      BY InjectiveQueue
<1>5. \A i, j \in 1..Len(r) : r[i] = r[j] => i = j
      BY <1>2, <1>3, <1>4
<1>6. IsInjective(r)
      BY <1>2, <1>5, InjectiveQueue
<1>7. \A u : Contains(r, u) <=> Contains(q, u) \/ u = t
      BY <1>2 DEF Contains
<1> QED
      BY <1>1, <1>6, <1>7 DEF r

(* A thread put in front of a queue it is not in.                          *)
LEMMA PrependEffect ==
  ASSUME NEW S, NEW q \in Seq(S), NEW t \in S, IsInjective(q), ~Contains(q, t)
  PROVE  /\ IsInjective(<<t>> \o q)
         /\ \A u : Contains(<<t>> \o q, u) <=> Contains(q, u) \/ u = t
<1> DEFINE r == <<t>> \o q
<1>2. /\ r \in Seq(S) /\ Len(r) = Len(q) + 1 /\ Len(q) \in Nat /\ r[1] = t
      /\ \A i \in 1..Len(q) : r[i + 1] = q[i]
      /\ \A i \in 2..Len(r) : r[i] = q[i - 1] /\ i - 1 \in 1..Len(q)
      OBVIOUS
<1> HIDE DEF r
<1>3. \A i \in 1..Len(q) : q[i] # t
      BY DEF Contains
<1>4. \A i, j \in 1..Len(q) : q[i] = q[j] => i = j
      BY InjectiveQueue
<1>5. ASSUME NEW i \in 1..Len(r), NEW j \in 1..Len(r), r[i] = r[j] PROVE i = j
  <2>1. i \in 2..Len(r) \/ i = 1
        BY <1>2
  <2>2. j \in 2..Len(r) \/ j = 1
        BY <1>2
  <2> QED
    <3>1. CASE i = 1 /\ j = 1
          BY <3>1
    <3>2. CASE i = 1 /\ j \in 2..Len(r)
          BY <1>2, <1>3, <1>5, <3>2
    <3>3. CASE i \in 2..Len(r) /\ j = 1
          BY <1>2, <1>3, <1>5, <3>3
    <3>4. CASE i \in 2..Len(r) /\ j \in 2..Len(r)
      <4>1. i - 1 = j - 1
            BY <1>2, <1>4, <1>5, <3>4
      <4> QED
            BY <1>2, <3>4, <4>1
    <3> QED
          BY <2>1, <2>2, <3>1, <3>2, <3>3, <3>4
<1>6. IsInjective(r)
      BY <1>2, <1>5, InjectiveQueue
<1>7. ASSUME NEW u PROVE Contains(r, u) <=> Contains(q, u) \/ u = t
  <2>1. ASSUME Contains(r, u) PROVE Contains(q, u) \/ u = t
    <3>1. PICK i \in 1..Len(r) : r[i] = u
          BY <2>1 DEF Contains
    <3>2. i = 1 \/ i \in 2..Len(r)
          BY <1>2
    <3> QED
          BY <1>2, <3>1, <3>2 DEF Contains
  <2>2. ASSUME Contains(q, u) PROVE Contains(r, u)
    <3>1. PICK i \in 1..Len(q) : q[i] = u
          BY <2>2 DEF Contains
    <3>2. i + 1 \in 1..Len(r) /\ r[i + 1] = u
          BY <1>2, <3>1
    <3> QED
          BY <3>2 DEF Contains
  <2>3. Contains(r, t)
        BY <1>2 DEF Contains
  <2> QED
        BY <2>1, <2>2, <2>3
<1> QED
      BY <1>6, <1>7 DEF r

-----------------------------------------------------------------------------
(* r is what is left of q when some of its threads are taken out.          *)
PartOf(r, q) ==
  \E g \in [1..Len(r) -> 1..Len(q)] :
    /\ \A i, j \in 1..Len(r) : i < j => g[i] < g[j]
    /\ \A i \in 1..Len(r) : r[i] = q[g[i]]

SortedBy(q, w) == \A i, j \in 1..Len(q) : i < j => w[q[i]] <= w[q[j]]

LEMMA PartEffect ==
  ASSUME NEW S, NEW q \in Seq(S), NEW r \in Seq(S), PartOf(r, q)
  PROVE  /\ \A u : Contains(r, u) => Contains(q, u)
         /\ IsInjective(q) => IsInjective(r)
         /\ \A w : SortedBy(q, w) => SortedBy(r, w)
<1>1. PICK g \in [1..Len(r) -> 1..Len(q)] :
         /\ \A i, j \in 1..Len(r) : i < j => g[i] < g[j]
         /\ \A i \in 1..Len(r) : r[i] = q[g[i]]
      BY DEF PartOf
<1>2. \A u : Contains(r, u) => Contains(q, u)
      BY <1>1 DEF Contains
<1>3. ASSUME IsInjective(q) PROVE IsInjective(r)
  <2>1. \A i, j \in 1..Len(q) : q[i] = q[j] => i = j
        BY <1>3, InjectiveQueue
  <2>2. ASSUME NEW i \in 1..Len(r), NEW j \in 1..Len(r), r[i] = r[j] PROVE i = j
    <3>1. g[i] = g[j]
          BY <1>1, <2>1, <2>2, SMTT(60)
    <3>2. g[i] \in Nat /\ g[j] \in Nat /\ i \in Nat /\ j \in Nat
          BY <1>1
    <3>3. ~(i < j) /\ ~(j < i)
          BY <1>1, <3>1, <3>2
    <3> QED
          BY <3>2, <3>3
  <2> QED
        BY <2>2, InjectiveQueue
<1>4. ASSUME NEW w, SortedBy(q, w) PROVE SortedBy(r, w)
      BY <1>1, <1>4 DEF SortedBy
<1> QED
      BY <1>2, <1>3, <1>4

LEMMA TailEffect ==
  ASSUME NEW S, NEW q \in Seq(S), q # <<>>
  PROVE  /\ removeQueueStart(q) = Tail(q) /\ PartOf(Tail(q), q)
         /\ IsInjective(q) => \A u : Contains(Tail(q), u) <=> Contains(q, u) /\ u # Head(q)
<1> DEFINE r == Tail(q)
           g == [i \in 1..Len(r) |-> i + 1]
<1>1. /\ r \in Seq(S) /\ Len(r) = Len(q) - 1 /\ Len(q) \in Nat \ {0} /\ q[1] = Head(q)
      /\ \A i \in 1..Len(r) : r[i] = q[i + 1]
      OBVIOUS
<1> HIDE DEF r
<1>2. g \in [1..Len(r) -> 1..Len(q)]
      BY <1>1
<1>3. PartOf(r, q)
  <2>1. \A i \in 1..Len(r) : r[i] = q[g[i]]
        BY <1>1
  <2>2. \A i, j \in 1..Len(r) : i < j => g[i] < g[j]
        BY <1>1
  <2> HIDE DEF g
  <2> QED
        BY <1>2, <2>1, <2>2 DEF PartOf
<1>4. ASSUME IsInjective(q), NEW u
      PROVE  Contains(r, u) <=> Contains(q, u) /\ u # Head(q)
  <2>1. \A i, j \in 1..Len(q) : q[i] = q[j] => i = j
        BY <1>4, InjectiveQueue
  <2>2. ASSUME Contains(r, u) PROVE Contains(q, u) /\ u # Head(q)
    <3>1. PICK i \in 1..Len(r) : r[i] = u
          BY <2>2 DEF Contains
    <3>2. i + 1 \in 1..Len(q) /\ q[i + 1] = u /\ 1 \in 1..Len(q) /\ i + 1 # 1
          BY <1>1, <3>1
    <3> QED
          BY <1>1, <2>1, <3>2 DEF Contains
  <2>3. ASSUME Contains(q, u), u # Head(q) PROVE Contains(r, u)
    <3>1. PICK i \in 1..Len(q) : q[i] = u
          BY <2>3 DEF Contains
    <3>2. i - 1 \in 1..Len(r) /\ i - 1 + 1 = i
          BY <1>1, <2>3, <3>1
    <3>3. r[i - 1] = u
          BY <1>1, <3>1, <3>2
    <3> QED
          BY <3>2, <3>3 DEF Contains
  <2> QED
        BY <2>2, <2>3
<1> QED
      BY <1>3, <1>4 DEF r, removeQueueStart

LEMMA RemoveFromEffect ==
  ASSUME NEW S, NEW q \in Seq(S), NEW t, IsInjective(q)
  PROVE  /\ PartOf(removeFromQueue(q, t), q) /\ IsInjective(removeFromQueue(q, t))
         /\ \A u : Contains(removeFromQueue(q, t), u) <=> Contains(q, u) /\ u # t
<1> DEFINE r == removeFromQueue(q, t)
<1>1. r \in Seq(S)
      BY RemoveFromType
<1>2. PartOf(r, q) /\ \A u : Contains(r, u) <=> Contains(q, u) /\ u # t
  <2>1. CASE Contains(q, t)
    <3> DEFINE k == Position(q, t)
               g == [i \in 1..Len(r) |-> IF i < k THEN i ELSE i + 1]
    <3>1. k \in 1..Len(q) /\ q[k] = t
          BY <2>1, PositionLemma
    <3>2. r = SubSeq(q, 1, k - 1) \o SubSeq(q, k + 1, Len(q))
          BY <2>1 DEF removeFromQueue, RemoveAt
    <3> HIDE DEF k
    <3>3. /\ Len(q) \in Nat /\ Len(r) = Len(q) - 1
          /\ \A i \in 1..Len(r) : r[i] = IF i < k THEN q[i] ELSE q[i + 1]
      <4> DEFINE a == SubSeq(q, 1, k - 1)
                 b == SubSeq(q, k + 1, Len(q))
      <4>1. /\ Len(q) \in Nat /\ a \in Seq(S) /\ b \in Seq(S)
            /\ Len(a) = k - 1 /\ Len(b) = Len(q) - k
            /\ \A i \in 1..(k - 1) : a[i] = q[i]
            /\ \A i \in 1..(Len(q) - k) : b[i] = q[i + k]
            BY <3>1
      <4>2. r = a \o b
            BY <3>2
      <4> HIDE DEF a, b, r
      <4>3. Len(r) = Len(q) - 1
            BY <3>1, <4>1, <4>2
      <4>4. ASSUME NEW i \in 1..Len(r)
            PROVE  r[i] = IF i < k THEN q[i] ELSE q[i + 1]
        <5>1. CASE i < k
              BY <3>1, <4>1, <4>2, <5>1
        <5>2. CASE ~(i < k)
          <6>1. i - (k - 1) \in 1..(Len(q) - k) /\ i - (k - 1) + k = i + 1
                BY <3>1, <4>1, <4>3, <5>2
          <6>2. r[i] = b[i - (k - 1)]
                BY <3>1, <4>1, <4>2, <4>3, <5>2
          <6>3. b[i - (k - 1)] = q[i + 1]
                BY <4>1, <6>1
          <6> QED
                BY <5>2, <6>2, <6>3
        <5> QED
              BY <5>1, <5>2
      <4> QED
            BY <4>1, <4>3, <4>4
    <3> HIDE DEF r
    <3>4. g \in [1..Len(r) -> 1..Len(q)]
          BY <3>1, <3>3
    <3>5. PartOf(r, q)
      <4>1. \A i \in 1..Len(r) : r[i] = q[g[i]]
            BY <3>3
      <4>2. \A i, j \in 1..Len(r) : i < j => g[i] < g[j]
            BY <3>1, <3>3
      <4> HIDE DEF g
      <4> QED
            BY <3>4, <4>1, <4>2 DEF PartOf
    <3>6. \A i, j \in 1..Len(q) : q[i] = q[j] => i = j
          BY InjectiveQueue
    <3>7. ASSUME NEW u, Contains(r, u) PROVE Contains(q, u) /\ u # t
      <4>1. PICK i \in 1..Len(r) : r[i] = u
            BY <3>7 DEF Contains
      <4>2. g[i] \in 1..Len(q) /\ q[g[i]] = u /\ g[i] # k
            BY <3>1, <3>3, <4>1
      <4> QED
            BY <3>1, <3>6, <4>2 DEF Contains
    <3>8. ASSUME NEW u, Contains(q, u), u # t PROVE Contains(r, u)
      <4>1. PICK i \in 1..Len(q) : q[i] = u
            BY <3>8 DEF Contains
      <4>2. CASE i < k
        <5>1. i \in 1..Len(r) /\ r[i] = u
              BY <3>1, <3>3, <4>1, <4>2
        <5> QED
              BY <5>1 DEF Contains
      <4>3. CASE ~(i < k)
        <5>1. i - 1 \in 1..Len(r) /\ ~(i - 1 < k) /\ i - 1 + 1 = i
              BY <3>1, <3>3, <3>8, <4>1, <4>3
        <5>2. r[i - 1] = u
              BY <3>3, <4>1, <5>1
        <5> QED
              BY <5>1, <5>2 DEF Contains
      <4> QED
            BY <4>2, <4>3
    <3> QED
          BY <3>5, <3>7, <3>8
  <2>2. CASE ~Contains(q, t)
    <3> DEFINE g == [i \in 1..Len(q) |-> i]
    <3>1. r = q
          BY <2>2 DEF removeFromQueue
    <3>2. g \in [1..Len(q) -> 1..Len(q)]
          OBVIOUS
    <3>3. PartOf(q, q)
          BY <3>2 DEF PartOf
    <3> QED
          BY <2>2, <3>1, <3>3
  <2> QED
        BY <2>1, <2>2
<1>3. IsInjective(r)
      BY <1>1, <1>2, PartEffect
<1> QED
      BY <1>2, <1>3

LEMMA RemoveThreadsEffect ==
  ASSUME NEW S, NEW q \in Seq(S), NEW ts
  PROVE  /\ PartOf(removeThreads(q, ts), q)
         /\ \A u : Contains(removeThreads(q, ts), u) <=> Contains(q, u) /\ u \notin ts
<1>1. PICK keep : /\ removeThreads(q, ts) = keep[Len(q)]
                  /\ keep[0] = <<>>
                  /\ \A n \in 1..Len(q) :
                       keep[n] = IF q[n] \in ts THEN keep[n - 1] ELSE Append(keep[n - 1], q[n])
      BY RemoveThreadsIsKeep
<1> DEFINE Part(k) == \E g \in [1..Len(keep[k]) -> 1..k] :
                        /\ \A i, j \in 1..Len(keep[k]) : i < j => g[i] < g[j]
                        /\ \A i \in 1..Len(keep[k]) : keep[k][i] = q[g[i]]
           Rest(k) == \A j \in 1..k : q[j] \notin ts => Contains(keep[k], q[j])
           None(k) == \A u \in ts : ~Contains(keep[k], u)
           K == {k \in Nat : k <= Len(q) => /\ keep[k] \in Seq(S)
                                            /\ Part(k) /\ Rest(k) /\ None(k)}
<1>2. 0 \in K
  <2>1. keep[0] \in Seq(S) /\ Len(keep[0]) = 0
        BY <1>1
  <2>2. Part(0)
    <3> DEFINE g == [i \in 1..0 |-> i]
    <3>1. g \in [1..Len(keep[0]) -> 1..0]
          BY <2>1
    <3> QED
          BY <2>1, <3>1
  <2>3. Rest(0)
        OBVIOUS
  <2>4. None(0)
        BY <1>1, EmptyQueue
  <2> QED
        BY <2>1, <2>2, <2>3, <2>4
<1>3. ASSUME NEW k \in Nat, k \in K PROVE k + 1 \in K
  <2> SUFFICES ASSUME k + 1 <= Len(q)
               PROVE  keep[k + 1] \in Seq(S) /\ Part(k + 1) /\ Rest(k + 1) /\ None(k + 1)
      OBVIOUS
  <2>1. k + 1 \in 1..Len(q) /\ k + 1 - 1 = k /\ k <= Len(q)
        OBVIOUS
  <2>2. keep[k] \in Seq(S) /\ q[k + 1] \in S /\ Rest(k) /\ None(k)
        BY <1>3, <2>1
  <2>3. PICK g \in [1..Len(keep[k]) -> 1..k] :
           /\ \A i, j \in 1..Len(keep[k]) : i < j => g[i] < g[j]
           /\ \A i \in 1..Len(keep[k]) : keep[k][i] = q[g[i]]
        BY <1>3, <2>1
  <2>4. CASE q[k + 1] \in ts
    <3>1. keep[k + 1] = keep[k]
          BY <1>1, <2>1, <2>4
    <3>2. Part(k + 1)
      <4>1. g \in [1..Len(keep[k + 1]) -> 1..(k + 1)]
            BY <2>2, <3>1
      <4> QED
            BY <2>3, <3>1, <4>1
    <3>3. Rest(k + 1)
          BY <2>2, <2>4, <3>1
    <3> QED
          BY <2>2, <3>1, <3>2, <3>3
  <2>5. CASE q[k + 1] \notin ts
    <3> DEFINE r == keep[k]
               s == Append(r, q[k + 1])
               g2 == [i \in 1..Len(s) |-> IF i = Len(s) THEN k + 1 ELSE g[i]]
    <3>1. keep[k + 1] = s
      <4>1. \A n \in 1..Len(q) : n - 1 = k /\ q[n] \notin ts => keep[n] = Append(keep[k], q[n])
            BY <1>1, Zenon
      <4> QED
            BY <2>1, <2>5, <4>1
    <3>2. /\ s \in Seq(S) /\ Len(r) \in Nat /\ Len(s) = Len(r) + 1 /\ s[Len(s)] = q[k + 1]
          /\ \A i \in 1..Len(r) : s[i] = r[i]
          BY <2>2
    <3> HIDE DEF s, r
    <3>3. \A i \in 1..Len(r) : g[i] \in 1..k
          BY <2>3 DEF r
    <3>4. /\ g2 \in [1..Len(s) -> 1..(k + 1)]
          /\ \A i \in 1..Len(s) : g2[i] = IF i = Len(s) THEN k + 1 ELSE g[i]
          BY <3>2, <3>3
    <3> HIDE DEF g2
    <3>5. \A i, j \in 1..Len(s) : i < j => g2[i] < g2[j]
      <4> SUFFICES ASSUME NEW i \in 1..Len(s), NEW j \in 1..Len(s), i < j
                   PROVE  g2[i] < g2[j]
          OBVIOUS
      <4>1. i \in 1..Len(r) /\ g2[i] = g[i] /\ g[i] \in 1..k
            BY <3>2, <3>3, <3>4
      <4>2. CASE j = Len(s)
            BY <3>4, <4>1, <4>2
      <4>3. CASE j # Len(s)
        <5>1. j \in 1..Len(r) /\ g2[j] = g[j]
              BY <3>2, <3>4, <4>3
        <5> QED
              BY <2>3, <4>1, <5>1 DEF r
      <4> QED
            BY <4>2, <4>3
    <3>6. \A i \in 1..Len(s) : s[i] = q[g2[i]]
          BY <2>3, <3>2, <3>4 DEF r
    <3>7. Part(k + 1)
          BY <3>1, <3>4, <3>5, <3>6
    <3>8. \A u : Contains(s, u) <=> Contains(r, u) \/ u = q[k + 1]
      <4>1. \A u : Contains(s, u) => Contains(r, u) \/ u = q[k + 1]
            BY <3>2 DEF Contains
      <4>2. \A u : Contains(r, u) => Contains(s, u)
            BY <3>2 DEF Contains
      <4>3. Contains(s, q[k + 1])
        <5>1. Len(s) \in 1..Len(s)
              BY <3>2
        <5> QED
              BY <3>2, <5>1 DEF Contains
      <4> QED
            BY <4>1, <4>2, <4>3
    <3>9. Rest(k + 1)
      <4>1. ASSUME NEW j \in 1..(k + 1), q[j] \notin ts PROVE Contains(s, q[j])
        <5>1. j = k + 1 \/ j \in 1..k
              OBVIOUS
        <5> QED
              BY <2>2, <3>8, <4>1, <5>1 DEF r
      <4> QED
            BY <3>1, <4>1
    <3>10. None(k + 1)
          BY <2>2, <2>5, <3>1, <3>8 DEF r
    <3> QED
          BY <3>1, <3>2, <3>7, <3>9, <3>10
  <2> QED
        BY <2>4, <2>5
<1> HIDE DEF K
<1>4. Nat \subseteq K
      BY <1>2, <1>3, NatSetInduction
<1>5. Len(q) \in K
      BY <1>4
<1> DEFINE r == removeThreads(q, ts)
<1>6. r \in Seq(S) /\ Part(Len(q)) /\ Rest(Len(q)) /\ None(Len(q)) /\ r = keep[Len(q)]
      BY <1>1, <1>5 DEF K
<1> HIDE DEF r
<1>7. PartOf(r, q)
      BY <1>6 DEF PartOf
<1>8. \A u : Contains(r, u) <=> Contains(q, u) /\ u \notin ts
  <2>1. \A u : Contains(r, u) => Contains(q, u)
        BY <1>6, <1>7, PartEffect
  <2>2. \A u : Contains(r, u) => u \notin ts
        BY <1>6
  <2>3. \A u : Contains(q, u) /\ u \notin ts => Contains(r, u)
        BY <1>6 DEF Contains
  <2> QED
        BY <2>1, <2>2, <2>3
<1> QED
      BY <1>7, <1>8 DEF r

(* The two parts a queue is cut into.                                      *)
LEMMA CutEffect ==
  ASSUME NEW S, NEW q \in Seq(S), NEW n \in 0..Len(q), IsInjective(q)
  PROVE  LET p == SubSeq(q, 1, n)
             r == SubSeq(q, n + 1, Len(q))
         IN  /\ IsInjective(p) /\ IsInjective(r)
             /\ \A u : /\ Contains(q, u) <=> Contains(p, u) \/ Contains(r, u)
                       /\ ~(Contains(p, u) /\ Contains(r, u))
<1> DEFINE p == SubSeq(q, 1, n)
           r == SubSeq(q, n + 1, Len(q))
<1>1. /\ Len(q) \in Nat /\ p \in Seq(S) /\ r \in Seq(S)
      /\ Len(p) = n /\ Len(r) = Len(q) - n
      /\ \A i \in 1..n : p[i] = q[i]
      /\ \A i \in 1..(Len(q) - n) : r[i] = q[i + n]
      OBVIOUS
<1> HIDE DEF p, r
<1>2. \A i, j \in 1..Len(q) : q[i] = q[j] => i = j
      BY InjectiveQueue
<1>3. IsInjective(p)
  <2>1. \A i, j \in 1..Len(p) : p[i] = p[j] => i = j
        BY <1>1, <1>2, SMTT(60)
  <2> QED
        BY <1>1, <2>1, InjectiveQueue
<1>4. IsInjective(r)
  <2>1. ASSUME NEW i \in 1..Len(r), NEW j \in 1..Len(r), r[i] = r[j] PROVE i = j
    <3>1. i + n \in 1..Len(q) /\ j + n \in 1..Len(q) /\ q[i + n] = q[j + n]
          BY <1>1, <2>1
    <3>2. i + n = j + n
          BY <1>2, <3>1
    <3> QED
          BY <1>1, <3>2
  <2> QED
        BY <1>1, <2>1, InjectiveQueue
<1>5. ASSUME NEW u
      PROVE  Contains(q, u) <=> Contains(p, u) \/ Contains(r, u)
  <2>1. ASSUME Contains(p, u) PROVE Contains(q, u)
        BY <1>1, <2>1 DEF Contains
  <2>2. ASSUME Contains(r, u) PROVE Contains(q, u)
    <3>1. PICK i \in 1..Len(r) : r[i] = u
          BY <2>2 DEF Contains
    <3>2. i + n \in 1..Len(q) /\ q[i + n] = u
          BY <1>1, <3>1
    <3> QED
          BY <3>2 DEF Contains
  <2>3. ASSUME Contains(q, u) PROVE Contains(p, u) \/ Contains(r, u)
    <3>1. PICK i \in 1..Len(q) : q[i] = u
          BY <2>3 DEF Contains
    <3>2. CASE i <= n
          BY <1>1, <3>1, <3>2 DEF Contains
    <3>3. CASE ~(i <= n)
      <4>1. i - n \in 1..Len(r) /\ i - n + n = i
            BY <1>1, <3>1, <3>3
      <4>2. r[i - n] = u
            BY <1>1, <3>1, <4>1
      <4> QED
            BY <4>1, <4>2 DEF Contains
    <3> QED
          BY <3>2, <3>3
  <2> QED
        BY <2>1, <2>2, <2>3
<1>6. ASSUME NEW u, Contains(p, u), Contains(r, u) PROVE FALSE
  <2>1. PICK i \in 1..Len(p) : p[i] = u
        BY <1>6 DEF Contains
  <2>2. PICK j \in 1..Len(r) : r[j] = u
        BY <1>6 DEF Contains
  <2>3. i \in 1..Len(q) /\ j + n \in 1..Len(q) /\ q[i] = u /\ q[j + n] = u /\ i # j + n
        BY <1>1, <2>1, <2>2
  <2> QED
        BY <1>2, <2>3
<1> QED
      BY <1>3, <1>4, <1>5, <1>6 DEF p, r

LEMMA ConcatEffect ==
  ASSUME NEW S, NEW p \in Seq(S), NEW q \in Seq(S)
  PROVE  /\ \A u : Contains(p \o q, u) <=> Contains(p, u) \/ Contains(q, u)
         /\ IsInjective(p) /\ IsInjective(q) /\ (\A u : ~(Contains(p, u) /\ Contains(q, u)))
              => IsInjective(p \o q)
<1> DEFINE r == p \o q
<1>1. /\ r \in Seq(S) /\ Len(p) \in Nat /\ Len(q) \in Nat /\ Len(r) = Len(p) + Len(q)
      /\ \A i \in 1..Len(p) : r[i] = p[i]
      /\ \A i \in 1..Len(q) : r[i + Len(p)] = q[i]
      OBVIOUS
<1> HIDE DEF r
<1>2. ASSUME NEW i \in 1..Len(r)
      PROVE  \/ i \in 1..Len(p) /\ r[i] = p[i]
             \/ \E j \in 1..Len(q) : i = j + Len(p) /\ r[i] = q[j]
  <2>1. CASE i <= Len(p)
        BY <1>1, <2>1
  <2>2. CASE ~(i <= Len(p))
    <3>1. i - Len(p) \in 1..Len(q) /\ i = i - Len(p) + Len(p)
          BY <1>1, <2>2
    <3>2. r[i] = q[i - Len(p)]
          BY <1>1, <3>1
    <3> QED
          BY <3>1, <3>2
  <2> QED
        BY <2>1, <2>2
<1>3. ASSUME NEW u PROVE Contains(r, u) <=> Contains(p, u) \/ Contains(q, u)
  <2>1. ASSUME Contains(r, u) PROVE Contains(p, u) \/ Contains(q, u)
        BY <1>2, <2>1 DEF Contains
  <2>2. ASSUME Contains(p, u) PROVE Contains(r, u)
        BY <1>1, <2>2 DEF Contains
  <2>3. ASSUME Contains(q, u) PROVE Contains(r, u)
    <3>1. PICK i \in 1..Len(q) : q[i] = u
          BY <2>3 DEF Contains
    <3>2. i + Len(p) \in 1..Len(r) /\ r[i + Len(p)] = u
          BY <1>1, <3>1
    <3> QED
          BY <3>2 DEF Contains
  <2> QED
        BY <2>1, <2>2, <2>3
<1>4. ASSUME IsInjective(p), IsInjective(q), \A u : ~(Contains(p, u) /\ Contains(q, u))
      PROVE  IsInjective(r)
  <2>1. /\ \A i, j \in 1..Len(p) : p[i] = p[j] => i = j
        /\ \A i, j \in 1..Len(q) : q[i] = q[j] => i = j
        BY <1>4, InjectiveQueue
  <2>2. \A i \in 1..Len(p) : \A j \in 1..Len(q) : p[i] # q[j]
        BY <1>4 DEF Contains
  <2>3. \A i, j \in 1..Len(r) : r[i] = r[j] => i = j
    <3> SUFFICES ASSUME NEW i \in 1..Len(r), NEW j \in 1..Len(r), r[i] = r[j] PROVE i = j
        OBVIOUS
    <3>1. CASE i \in 1..Len(p) /\ r[i] = p[i]
      <4>1. CASE j \in 1..Len(p) /\ r[j] = p[j]
            BY <2>1, <3>1, <4>1
      <4>2. CASE \E k \in 1..Len(q) : j = k + Len(p) /\ r[j] = q[k]
            BY <2>2, <3>1, <4>2
      <4> QED
            BY <1>2, <4>1, <4>2
    <3>2. CASE \E k \in 1..Len(q) : i = k + Len(p) /\ r[i] = q[k]
      <4>1. CASE j \in 1..Len(p) /\ r[j] = p[j]
            BY <2>2, <3>2, <4>1
      <4>2. CASE \E k \in 1..Len(q) : j = k + Len(p) /\ r[j] = q[k]
            BY <2>1, <3>2, <4>2
      <4> QED
            BY <1>2, <4>1, <4>2
    <3> QED
          BY <1>2, <3>1, <3>2
  <2> QED
        BY <1>1, <2>3, InjectiveQueue
<1> QED
      BY <1>3, <1>4 DEF r

(* A thread put in at a position of a queue it is not in.                  *)
LEMMA InsertEffect ==
  ASSUME NEW S, NEW q \in Seq(S), NEW t \in S, NEW i \in 1..Len(q)
  PROVE  LET r == InsertAt(q, i, t)
         IN  /\ Len(r) = Len(q) + 1
             /\ \A j \in 1..(Len(q) + 1) :
                  r[j] = IF j < i THEN q[j] ELSE IF j = i THEN t ELSE q[j - 1]
             /\ \A u : Contains(r, u) <=> Contains(q, u) \/ u = t
             /\ IsInjective(q) /\ ~Contains(q, t) => IsInjective(r)
<1> DEFINE r == InsertAt(q, i, t)
           a == SubSeq(q, 1, i - 1)
           b == SubSeq(q, i, Len(q))
           c == a \o <<t>>
<1>1. /\ Len(q) \in Nat /\ a \in Seq(S) /\ b \in Seq(S)
      /\ Len(a) = i - 1 /\ Len(b) = Len(q) - i + 1
      /\ \A j \in 1..(i - 1) : a[j] = q[j]
      /\ \A j \in 1..(Len(q) - i + 1) : b[j] = q[j + i - 1]
      OBVIOUS
<1>2. r = c \o b
      BY DEF InsertAt
<1> HIDE DEF a, b
<1>3. /\ c \in Seq(S) /\ Len(c) = i /\ c[i] = t
      /\ \A j \in 1..(i - 1) : c[j] = q[j]
  <2>1. c = Append(a, t)
        BY <1>1, AppendIsConcat
  <2> HIDE DEF c
  <2>2. c \in Seq(S) /\ Len(c) = Len(a) + 1 /\ c[Len(a) + 1] = t
        BY <1>1, <2>1
  <2>3. Len(a) = i - 1 /\ Len(a) + 1 = i
        BY <1>1
  <2>4. \A j \in 1..(i - 1) : c[j] = a[j]
        BY <1>1, <2>1
  <2> QED
        BY <1>1, <2>2, <2>3, <2>4
<1> HIDE DEF c, r
<1>4. r \in Seq(S) /\ Len(r) = Len(q) + 1
  <2>1. r \in Seq(S) /\ Len(r) = Len(c) + Len(b)
        BY <1>1, <1>2, <1>3, ConcatProperties
  <2> QED
        BY <1>1, <1>3, <2>1
<1>5. ASSUME NEW j \in 1..(Len(q) + 1)
      PROVE  r[j] = IF j < i THEN q[j] ELSE IF j = i THEN t ELSE q[j - 1]
  <2>1. CASE j <= i
        BY <1>1, <1>2, <1>3, <2>1
  <2>2. CASE ~(j <= i)
    <3>1. j - i \in 1..(Len(q) - i + 1) /\ j - i + i - 1 = j - 1
          BY <1>1, <2>2
    <3>2. r[j] = b[j - i]
          BY <1>1, <1>2, <1>3, <2>2
    <3>3. b[j - i] = q[j - 1]
          BY <1>1, <3>1
    <3> QED
          BY <2>2, <3>2, <3>3
  <2> QED
        BY <2>1, <2>2
<1>6. ASSUME NEW u PROVE Contains(r, u) <=> Contains(q, u) \/ u = t
  <2>1. ASSUME Contains(r, u) PROVE Contains(q, u) \/ u = t
    <3>1. PICK j \in 1..(Len(q) + 1) : r[j] = u
          BY <1>4, <2>1 DEF Contains
    <3>2. CASE j < i
      <4>1. j \in 1..Len(q) /\ q[j] = u
            BY <1>1, <1>5, <3>1, <3>2
      <4> QED
            BY <4>1 DEF Contains
    <3>3. CASE j = i
          BY <1>5, <3>1, <3>3
    <3>4. CASE i < j
      <4>1. j - 1 \in 1..Len(q) /\ q[j - 1] = u
            BY <1>1, <1>5, <3>1, <3>4
      <4> QED
            BY <4>1 DEF Contains
    <3> QED
          BY <1>1, <3>2, <3>3, <3>4
  <2>2. ASSUME Contains(q, u) PROVE Contains(r, u)
    <3>1. PICK j \in 1..Len(q) : q[j] = u
          BY <2>2 DEF Contains
    <3>2. CASE j < i
      <4>1. j \in 1..Len(r) /\ r[j] = u
            BY <1>1, <1>4, <1>5, <3>1, <3>2
      <4> QED
            BY <4>1 DEF Contains
    <3>3. CASE ~(j < i)
      <4>1. j + 1 \in 1..(Len(q) + 1) /\ ~(j + 1 < i) /\ j + 1 # i /\ j + 1 - 1 = j
            BY <1>1, <3>3
      <4>2. r[j + 1] = u
            BY <1>5, <3>1, <4>1
      <4> QED
            BY <1>4, <4>1, <4>2 DEF Contains
    <3> QED
          BY <3>2, <3>3
  <2>3. i \in 1..Len(r) /\ r[i] = t
        BY <1>1, <1>4, <1>5
  <2> QED
        BY <2>1, <2>2, <2>3 DEF Contains
<1>7. ASSUME IsInjective(q), ~Contains(q, t) PROVE IsInjective(r)
  <2>1. \A j, k \in 1..Len(q) : q[j] = q[k] => j = k
        BY <1>7, InjectiveQueue
  <2>2. \A j \in 1..Len(q) : q[j] # t
        BY <1>7 DEF Contains
  <2> DEFINE at(j) == IF j < i THEN j ELSE j - 1
  <2>3. ASSUME NEW j \in 1..(Len(q) + 1), j # i
        PROVE  at(j) \in 1..Len(q) /\ r[j] = q[at(j)] /\ r[j] # t
    <3>1. at(j) \in 1..Len(q) /\ r[j] = q[at(j)]
          BY <1>1, <1>5, <2>3
    <3> QED
          BY <2>2, <3>1
  <2>4. \A j, k \in 1..(Len(q) + 1) : j # i /\ k # i /\ at(j) = at(k) => j = k
        BY <1>1
  <2>5. r[i] = t
        BY <1>1, <1>5, SMTT(60)
  <2> HIDE DEF at
  <2>6. \A j, k \in 1..(Len(q) + 1) : r[j] = r[k] => j = k
        BY <2>1, <2>3, <2>4, <2>5
  <2> QED
        BY <1>4, <2>6, InjectiveQueue
<1> QED
      BY <1>4, <1>5, <1>6, <1>7 DEF r
=============================================================================
