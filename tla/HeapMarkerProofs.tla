-------------------------- MODULE HeapMarkerProofs --------------------------
(***************************************************************************)
(* For every heap, every order of the objects in it, every depth of the    *)
(* recursion and every size of the deferred table: no object that has to   *)
(* be visited is forgotten (MarkInvariant), and the objects marked in the  *)
(* end are those the roots lead to (MarkedIsReachable), provided that only *)
(* objects whose pointers are marked have pointers (NoSubclasses).  Weak   *)
(* pointers and native finalizers agree with that (WeakPointersSettled),   *)
(* provided that no object is registered for two calls (RegisteredOnce).   *)
(***************************************************************************)
EXTENDS HeapMarker, Integers, WellFoundedInduction, FiniteSetTheorems, SequenceTheorems, TLAPS

-----------------------------------------------------------------------------
(* Induction over the naturals, for a set rather than for a predicate.     *)
LEMMA NatSetInduction ==
  ASSUME NEW K, 0 \in K, \A n \in Nat : n \in K => n + 1 \in K
  PROVE  Nat \subseteq K
<1> DEFINE R == OpToRel(<, Nat)
<1> SUFFICES ASSUME Nat \ K # {} PROVE FALSE
    OBVIOUS
<1>1. IsWellFoundedOn(R, Nat)
    BY NatLessThanWellFounded
<1>2. \A x, y \in Nat : <<y, x>> \in R <=> y < x
    BY Zenon DEF OpToRel
<1> HIDE DEF R
<1>3. PICK x \in Nat \ K : \A y \in Nat \ K : ~ (<<y, x>> \in R)
    BY <1>1, WFMin
<1>4. x - 1 \in Nat /\ x - 1 < x
    BY <1>3
<1>5. x - 1 \in K
    BY <1>2, <1>3, <1>4
<1> QED
    BY <1>3, <1>4, <1>5

-----------------------------------------------------------------------------
(* Reachable, for any roots R and pointers F                               *)

Onward(S, F) == S \cup UNION {{F[o][i] : i \in DOMAIN F[o]} : o \in S}

IsReach(r, R, F, m) ==
  r = [n \in 0 .. m |-> IF n = 0 THEN R ELSE Onward(r[n - 1], F)]

(* The recursive function in Reachable exists.                             *)
LEMMA ReachExists ==
  ASSUME NEW R, NEW F, NEW m \in Nat
  PROVE  \E r : IsReach(r, R, F, m)
<1> DEFINE K == {n \in Nat : \E r : IsReach(r, R, F, n)}
<1>1. 0 \in K
  <2> DEFINE r == [n \in 0 .. 0 |-> R]
  <2>1. IsReach(r, R, F, 0)
        BY DEF IsReach
  <2> QED
        BY <2>1
<1>2. ASSUME NEW n \in Nat, n \in K PROVE n + 1 \in K
  <2>1. PICK r : IsReach(r, R, F, n)
        BY <1>2
  <2> DEFINE s == [k \in 0 .. n + 1 |-> IF k = n + 1 THEN Onward(r[n], F) ELSE r[k]]
  <2>2. ASSUME NEW k \in 0 .. n + 1
        PROVE  s[k] = IF k = 0 THEN R ELSE Onward(s[k - 1], F)
    <3>1. CASE k = n + 1
          BY <3>1
    <3>2. CASE k # n + 1
      <4>1. k \in 0 .. n /\ (k # 0 => k - 1 \in 0 .. n)
            BY <3>2
      <4>2. r[k] = IF k = 0 THEN R ELSE Onward(r[k - 1], F)
            BY <2>1, <4>1 DEF IsReach
      <4> QED
            BY <4>1, <4>2, <3>2
    <3> QED
          BY <3>1, <3>2
  <2>3. IsReach(s, R, F, n + 1)
        BY <2>2 DEF IsReach
  <2> QED
        BY <2>3
<1> HIDE DEF K
<1>3. Nat \subseteq K
      BY <1>1, <1>2, NatSetInduction
<1> QED
      BY <1>3 DEF K

LEMMA ReachableIs ==
  ASSUME HeapLen \in Nat
  PROVE  \E r : /\ Reachable = r[HeapLen]
                /\ r[0] = roots
                /\ \A n \in 1 .. HeapLen : r[n] = Onward(r[n - 1], fields)
<1> DEFINE r == CHOOSE f : IsReach(f, roots, fields, HeapLen)
<1>1. Reachable = r[HeapLen]
      BY DEF Reachable, IsReach, Onward, Strong
<1>2. IsReach(r, roots, fields, HeapLen)
      BY ReachExists, Zenon
<1> HIDE DEF r
<1>3. \A n \in 0 .. HeapLen : r[n] = IF n = 0 THEN roots ELSE Onward(r[n - 1], fields)
      BY <1>2 DEF IsReach
<1> QED
      BY <1>1, <1>3

-----------------------------------------------------------------------------
(* What is reachable is all a set contains that contains the roots and, of *)
(* each of its objects, the pointers.                                      *)
LEMMA ReachableIsLeast ==
  ASSUME HeapLen \in Nat, NEW M, roots \subseteq M,
         \A o \in M : Strong(o) \subseteq M
  PROVE  Reachable \subseteq M
<1>1. PICK r : /\ Reachable = r[HeapLen]
               /\ r[0] = roots
               /\ \A n \in 1 .. HeapLen : r[n] = Onward(r[n - 1], fields)
      BY ReachableIs
<1> DEFINE K == {n \in Nat : n <= HeapLen => r[n] \subseteq M}
<1>2. 0 \in K
      BY <1>1
<1>3. ASSUME NEW n \in Nat, n \in K PROVE n + 1 \in K
  <2> SUFFICES ASSUME n + 1 <= HeapLen PROVE r[n + 1] \subseteq M
      OBVIOUS
  <2>1. r[n] \subseteq M
        BY <1>3
  <2>2. r[n + 1] = Onward(r[n], fields)
    <3>1. n + 1 \in 1 .. HeapLen /\ (n + 1) - 1 = n
          OBVIOUS
    <3> QED
          BY <1>1, <3>1
  <2>3. \A o \in r[n] : {fields[o][i] : i \in DOMAIN fields[o]} \subseteq M
        BY <2>1 DEF Strong
  <2> QED
        BY <2>1, <2>2, <2>3 DEF Onward
<1> HIDE DEF K
<1>4. Nat \subseteq K
      BY <1>2, <1>3, NatSetInduction
<1> QED
      BY <1>1, <1>4 DEF K

(* The pointers of what is reachable are reachable: every step that does   *)
(* not end the search adds an object, and there are only HeapLen.          *)
LEMMA ReachableIsClosed ==
  ASSUME HeapLen \in Nat, roots \subseteq Heap,
         \A o \in Heap : Strong(o) \subseteq Heap
  PROVE  /\ roots \subseteq Reachable /\ Reachable \subseteq Heap
         /\ \A o \in Reachable : Strong(o) \subseteq Reachable
<1>1. PICK r : /\ Reachable = r[HeapLen]
               /\ r[0] = roots
               /\ \A n \in 1 .. HeapLen : r[n] = Onward(r[n - 1], fields)
      BY ReachableIs
<1> DEFINE IsClosed(S) == \A o \in S : Strong(o) \subseteq S
           Grows(n) == /\ roots \subseteq r[n] /\ r[n] \subseteq Heap
                       /\ IsClosed(r[n]) \/ Cardinality(r[n]) >= n
           K == {n \in Nat : n <= HeapLen => Grows(n)}
<1>2. IsFiniteSet(Heap) /\ Cardinality(Heap) = HeapLen
      BY FS_Interval DEF Heap
<1>3. 0 \in K
  <2>1. Cardinality(roots) \in Nat
        BY <1>2, FS_Subset, FS_CardinalityType
  <2> QED
        BY <1>1, <2>1
<1>4. ASSUME NEW n \in Nat, n \in K PROVE n + 1 \in K
  <2> SUFFICES ASSUME n + 1 <= HeapLen PROVE Grows(n + 1)
      OBVIOUS
  <2>1. Grows(n)
        BY <1>4
  <2> DEFINE S == r[n]
             T == r[n + 1]
  <2>2. T = Onward(S, fields)
    <3>1. n + 1 \in 1 .. HeapLen /\ (n + 1) - 1 = n
          OBVIOUS
    <3> QED
          BY <1>1, <3>1
  <2>3. /\ S \subseteq T
        /\ T = S \cup UNION {Strong(o) : o \in S}
        BY <2>2 DEF Onward, Strong
  <2>4. T \subseteq Heap
        BY <2>1, <2>3
  <2>5. CASE IsClosed(S)
    <3>1. T = S
          BY <2>3, <2>5
    <3> QED
          BY <2>1, <2>5, <3>1
  <2>6. CASE ~IsClosed(S)
    <3>1. Cardinality(S) >= n
          BY <2>1, <2>6
    <3>2. PICK o \in S : ~(Strong(o) \subseteq S)
          BY <2>6
    <3>3. S # T
          BY <2>3, <3>2
    <3>4. IsFiniteSet(T) /\ IsFiniteSet(S)
          BY <1>2, <2>1, <2>4, FS_Subset
    <3>5. /\ Cardinality(S) <= Cardinality(T)
          /\ Cardinality(T) # Cardinality(S)
          BY <2>3, <3>3, <3>4, FS_Subset
    <3>6. Cardinality(S) \in Nat /\ Cardinality(T) \in Nat
          BY <3>4, FS_CardinalityType
    <3>7. Cardinality(T) >= n + 1
          BY <3>1, <3>5, <3>6
    <3> QED
          BY <2>1, <2>3, <2>4, <3>7
  <2> QED
        BY <2>5, <2>6
<1> HIDE DEF K
<1>5. Nat \subseteq K
      BY <1>3, <1>4, NatSetInduction
<1>6. Grows(HeapLen)
      BY <1>5 DEF K
<1>7. CASE IsClosed(Reachable)
      BY <1>1, <1>6, <1>7
<1>8. CASE Cardinality(Reachable) >= HeapLen
  <2>1. Cardinality(Reachable) <= HeapLen /\ Cardinality(Reachable) \in Nat
        BY <1>1, <1>2, <1>6, FS_Subset, FS_CardinalityType
  <2>2. Cardinality(Reachable) = Cardinality(Heap)
        BY <1>2, <1>8, <2>1
  <2>3. Reachable = Heap
        BY <1>1, <1>2, <1>6, <2>2, FS_Subset
  <2> QED
        BY <1>1, <1>6, <2>3
<1> QED
      BY <1>1, <1>6, <1>7, <1>8

-----------------------------------------------------------------------------
(* The invariant                                                           *)

CallRecord == [object : Heap, field : Nat \ {0}, nextObject : Heap \cup {NULL}, depth : Int]

HeapTypes ==
  /\ type \in [Heap -> {"strong", "reference", "list"}]
  /\ fields \in [Heap -> Seq(Heap)]
  /\ roots \subseteq Heap

Types ==
  /\ marked \subseteq Heap
  /\ pc \in {"roots", "scan", "lists", "references", "done"}
  /\ scanner \in 1 .. HeapLen + 1
  /\ overflow \in BOOLEAN
  /\ deferred \in Seq(Heap) /\ Len(deferred) <= DEFERRED_OBJECT_TABLE_SIZE
  /\ WeakPointers \in Seq(Heap) /\ WeakReferences \in Seq(Heap)
  /\ stack \in Seq(CallRecord)

(* The depth a call has left is what the calls below it have not used.     *)
Depths ==
  \A i \in 1 .. Len(stack) :
    stack[i].depth = MAX_GC_DEPTH - 1 - Len(stack) + i /\ stack[i].depth >= -1

(* Calls and deferred objects only last as long as the visit of the object *)
(* at the scanner, which is marked.                                        *)
Phases ==
  /\ pc # "scan" => stack = <<>>
  /\ stack = <<>> => deferred = <<>>
  /\ stack # <<>> => scanner \in marked
  /\ pc = "roots" => marked = {}
  /\ pc # "roots" => roots \subseteq marked

(* What waits for a visit is marked.                                       *)
WaitingMarked ==
  /\ \A i \in 1 .. Len(stack) :
       stack[i].object \in marked /\ stack[i].nextObject \in marked \cup {NULL}
  /\ \A i \in 1 .. Len(deferred) : deferred[i] \in marked

(* The fields a call is past point to marked objects.                      *)
FieldsMarked ==
  \A i \in 1 .. Len(stack) : \A k \in 1 .. Len(Children(stack[i].object)) :
    k < stack[i].field => Children(stack[i].object)[k] \in marked

OnStack(o) == \E i \in 1 .. Len(stack) : o = stack[i].object \/ o = stack[i].nextObject
IsDeferred(o) == \E i \in 1 .. Len(deferred) : o = deferred[i]
Complete(o) == \A k \in 1 .. Len(Children(o)) : Children(o)[k] \in marked

(* Why a marked object may have a child that is not.  The object at the    *)
(* scanner is no exception once its visit has begun.                       *)
Excused(o) ==
  \/ overflow
  \/ o > scanner
  \/ o = scanner /\ stack = <<>>
  \/ IsDeferred(o)
  \/ OnStack(o)

AllExcused ==
  /\ pc = "scan" => \A o \in marked : Complete(o) \/ Excused(o)
  /\ pc \notin {"roots", "scan"} => \A o \in marked : Complete(o)

MInv == HeapTypes /\ Types /\ Depths /\ Phases /\ WaitingMarked /\ FieldsMarked /\ AllExcused

-----------------------------------------------------------------------------
(* Lemmas on the stack                                                     *)

LEMMA ReplaceTop ==
  ASSUME NEW S, NEW s \in Seq(S), s # <<>>, NEW c \in S
  PROVE  LET t == <<c>> \o Tail(s)
         IN  /\ t \in Seq(S) /\ Len(t) = Len(s) /\ t # <<>> /\ t[1] = c
             /\ \A i \in 1 .. Len(s) : i # 1 => t[i] = s[i]
<1>1. Tail(s) \in Seq(S) /\ Len(Tail(s)) = Len(s) - 1 /\ Len(s) \in Nat /\ Len(s) > 0
      OBVIOUS
<1>2. \A i \in 1 .. Len(s) - 1 : Tail(s)[i] = s[i + 1]
      OBVIOUS
<1> QED
      BY <1>1, <1>2

LEMMA PushTop ==
  ASSUME NEW S, NEW s \in Seq(S), s # <<>>, NEW c \in S, NEW d \in S
  PROVE  LET t == <<d, c>> \o Tail(s)
         IN  /\ t \in Seq(S) /\ Len(t) = Len(s) + 1 /\ t # <<>> /\ t[1] = d /\ t[2] = c
             /\ \A i \in 3 .. Len(s) + 1 : t[i] = s[i - 1]
<1>1. Tail(s) \in Seq(S) /\ Len(Tail(s)) = Len(s) - 1 /\ Len(s) \in Nat /\ Len(s) > 0
      OBVIOUS
<1>2. \A i \in 1 .. Len(s) - 1 : Tail(s)[i] = s[i + 1]
      OBVIOUS
<1> QED
      BY <1>1, <1>2

LEMMA PopTop ==
  ASSUME NEW S, NEW s \in Seq(S), s # <<>>
  PROVE  /\ Tail(s) \in Seq(S) /\ Len(Tail(s)) = Len(s) - 1 /\ Len(s) \in Nat \ {0}
         /\ \A i \in 1 .. Len(s) - 1 : Tail(s)[i] = s[i + 1]
OBVIOUS

(* The children of an object are what they were.                           *)
LEMMA ChildrenType ==
  ASSUME HeapTypes, NEW o \in Heap
  PROVE  Children(o) \in Seq(Heap)
BY DEF HeapTypes, Children

LEMMA ChildrenSame ==
  ASSUME UNCHANGED heapVars
  PROVE  /\ \A o : Children(o)' = Children(o)
         /\ HeapTypes => HeapTypes'
BY DEF heapVars, Children, HeapTypes

(* The constants, and the empty queues of a scan that begins.              *)
LEMMA ConstantsType ==
  /\ HeapLen \in Nat \ {0} /\ NULL \notin Heap
  /\ MAX_GC_DEPTH \in Nat /\ DEFERRED_OBJECT_TABLE_SIZE \in Nat \ {0}
BY GraphsAssumption

LEMMA EmptyTypes ==
  ASSUME NEW S
  PROVE  <<>> \in Seq(S) /\ Len(<<>>) = 0
OBVIOUS

-----------------------------------------------------------------------------
(* The steps that do not visit a child                                     *)

(* Every place of the heap has a node.                                     *)
LEMMA LayoutOnto ==
  ASSUME NEW p \in Layouts, NEW a \in Heap
  PROVE  (CHOOSE n \in Heap : p[n] = a) \in Heap
<1>1. p \in Injection(Heap, Heap)
      BY GraphsAssumption DEF Injection, IsInjective
<1>2. IsFiniteSet(Heap)
      BY ConstantsType, FS_Interval DEF Heap
<1>3. p \in Surjection(Heap, Heap)
      BY <1>1, <1>2, FS_Injection
<1>4. \E n \in Heap : p[n] = a
      BY <1>3 DEF Surjection
<1> QED
      BY <1>4

(* A sequence of nodes, as they lie in the heap.                           *)
LEMMA MovedType ==
  ASSUME NEW p \in Layouts, NEW q \in Seq(Heap \cup {NULL})
  PROVE  LET r == [i \in DOMAIN q |-> IF q[i] = NULL THEN NULL ELSE p[q[i]]]
         IN  /\ r \in Seq(Heap \cup {NULL})
             /\ q \in Seq(Heap) => r \in Seq(Heap)
             /\ q = <<>> => r = <<>>
<1> DEFINE r == [i \in DOMAIN q |-> IF q[i] = NULL THEN NULL ELSE p[q[i]]]
<1>1. q \in [1 .. Len(q) -> Heap \cup {NULL}] /\ Len(q) \in Nat /\ DOMAIN q = 1 .. Len(q)
      OBVIOUS
<1>2. p \in [Heap -> Heap] /\ NULL \notin Heap
      BY GraphsAssumption
<1>3. r \in [1 .. Len(q) -> Heap \cup {NULL}]
      BY <1>1, <1>2
<1>4. r \in Seq(Heap \cup {NULL}) /\ Len(r) = Len(q)
      BY <1>1, <1>3, SeqDef
<1>5. ASSUME q \in Seq(Heap) PROVE r \in Seq(Heap)
  <2>1. q \in [1 .. Len(q) -> Heap]
        BY <1>5
  <2>2. r \in [1 .. Len(q) -> Heap]
        BY <1>1, <1>2, <2>1
  <2> QED
        BY <1>1, <2>2, SeqDef
<1>6. q = <<>> => r = <<>>
      BY <1>4
<1> QED
      BY <1>4, <1>5, <1>6

LEMMA InitMInv == Init => MInv
<1> SUFFICES ASSUME Init PROVE MInv
    OBVIOUS
<1> USE GraphsAssumption
<1>1. PICK g \in Graphs, p \in Layouts :
        LET at(a) == CHOOSE n \in Heap : p[n] = a
            Moved(s) == [i \in DOMAIN s |-> IF s[i] = NULL THEN NULL ELSE p[s[i]]]
        IN  /\ type = [a \in Heap |-> g.type[at(a)]]
            /\ fields = [a \in Heap |-> Moved(g.fields[at(a)])]
            /\ weak = [a \in Heap |-> Moved(g.weak[at(a)])]
            /\ roots = {p[n] : n \in g.roots}
      BY DEF Init
<1> DEFINE at(a) == CHOOSE n \in Heap : p[n] = a
           Moved(s) == [i \in DOMAIN s |-> IF s[i] = NULL THEN NULL ELSE p[s[i]]]
<1>2. p \in [Heap -> Heap]
      OBVIOUS
<1>4. \A b \in Heap : at(b) \in Heap
      BY LayoutOnto
<1>5. /\ g.type \in [Heap -> {"strong", "reference", "list"}]
      /\ g.fields \in [Heap -> Seq(Heap)] /\ g.roots \subseteq Heap
      OBVIOUS
<1>6. ASSUME NEW q \in Seq(Heap) PROVE Moved(q) \in Seq(Heap)
  <2>1. q \in Seq(Heap \cup {NULL})
        OBVIOUS
  <2> QED
        BY <2>1, MovedType, SMTT(60)
<1>7. type = [a \in Heap |-> g.type[at(a)]] /\ fields = [a \in Heap |-> Moved(g.fields[at(a)])]
      BY <1>1
<1>8. roots \subseteq Heap
      BY <1>1, <1>2, <1>5
<1> HIDE DEF at, Moved
<1>9. HeapTypes
      BY <1>4, <1>5, <1>6, <1>7, <1>8 DEF HeapTypes
<1>10. Types
  <2>1. /\ stack \in Seq(CallRecord) /\ deferred \in Seq(Heap) /\ Len(deferred) = 0
        /\ WeakPointers \in Seq(Heap) /\ WeakReferences \in Seq(Heap)
        BY EmptyTypes DEF Init
  <2>2. scanner \in 1 .. HeapLen + 1 /\ Len(deferred) <= DEFERRED_OBJECT_TABLE_SIZE
        BY <2>1, ConstantsType DEF Init
  <2>3. overflow \in BOOLEAN /\ marked \subseteq Heap /\ pc = "roots"
        BY DEF Init
  <2> QED
        BY <2>1, <2>2, <2>3 DEF Types
<1>11. Depths /\ Phases /\ WaitingMarked /\ FieldsMarked /\ AllExcused
       BY DEF Init, Depths, Phases, WaitingMarked, FieldsMarked, AllExcused
<1> QED
      BY <1>9, <1>10, <1>11 DEF MInv

(* A step that changes neither the marks nor what waits.                   *)
LEMMA SameWaiting ==
  ASSUME MInv, UNCHANGED <<heapVars, marked, stack, deferred>>
  PROVE  /\ HeapTypes' /\ Depths' /\ WaitingMarked' /\ FieldsMarked'
         /\ \A o : Complete(o)' = Complete(o)
         /\ \A o : OnStack(o)' = OnStack(o) /\ IsDeferred(o)' = IsDeferred(o)
<1>1. HeapTypes' /\ \A o : Children(o)' = Children(o)
      BY ChildrenSame DEF MInv
<1>2. Depths'
      BY DEF MInv, Depths
<1>3. WaitingMarked'
      BY DEF MInv, WaitingMarked
<1>4. FieldsMarked'
      BY <1>1 DEF MInv, FieldsMarked
<1>5. \A o : Complete(o)' = Complete(o)
      BY <1>1 DEF Complete
<1>6. \A o : OnStack(o)' = OnStack(o) /\ IsDeferred(o)' = IsDeferred(o)
      BY DEF OnStack, IsDeferred
<1> QED
      BY <1>1, <1>2, <1>3, <1>4, <1>5, <1>6

LEMMA RootsStep == MInv /\ MarkRootObjects => MInv'
<1> SUFFICES ASSUME MInv, MarkRootObjects PROVE MInv'
    OBVIOUS
<1> USE ConstantsType
<1>1. /\ pc' = "scan" /\ marked' = roots /\ scanner' = 1 /\ overflow' = FALSE
      /\ stack' = <<>> /\ deferred' = <<>> /\ WeakPointers' = <<>> /\ WeakReferences' = <<>>
      BY DEF MarkRootObjects, BeginScan, MInv, Phases
<1>2. HeapTypes' /\ roots' = roots /\ roots \subseteq Heap
      BY ChildrenSame DEF MarkRootObjects, MInv, HeapTypes, heapVars
<1>3. Types'
  <2>1. /\ stack' \in Seq(CallRecord) /\ deferred' \in Seq(Heap) /\ Len(deferred') = 0
        /\ WeakPointers' \in Seq(Heap) /\ WeakReferences' \in Seq(Heap)
        BY <1>1, EmptyTypes
  <2>2. scanner' \in 1 .. HeapLen + 1 /\ Len(deferred') <= DEFERRED_OBJECT_TABLE_SIZE
        BY <1>1, <2>1
  <2>3. overflow' \in BOOLEAN
        BY <1>1
  <2> QED
        BY <1>1, <1>2, <2>1, <2>2, <2>3 DEF Types
<1>4. Depths' /\ Phases' /\ WaitingMarked' /\ FieldsMarked'
      BY <1>1, <1>2 DEF Depths, Phases, WaitingMarked, FieldsMarked
<1>5. AllExcused'
      BY <1>1, <1>2 DEF AllExcused, Excused, Heap
<1> QED
      BY <1>2, <1>3, <1>4, <1>5 DEF MInv

LEMMA EndScanStep == MInv /\ EndScan => MInv'
<1> SUFFICES ASSUME MInv, EndScan PROVE MInv'
    OBVIOUS
<1> USE ConstantsType
<1>1. /\ UNCHANGED <<heapVars, marked>> /\ stack = <<>> /\ deferred = <<>>
      /\ pc = "scan" /\ scanner > HeapLen /\ marked \subseteq Heap
      BY DEF EndScan, MInv, Phases, Types
<1>2. CASE overflow
  <2>1. /\ pc' = "scan" /\ scanner' = 1 /\ overflow' = FALSE /\ stack' = <<>>
        /\ deferred' = <<>> /\ WeakPointers' = <<>> /\ WeakReferences' = <<>>
        BY <1>1, <1>2 DEF EndScan, BeginScan
  <2>2. HeapTypes' /\ Depths' /\ WaitingMarked' /\ FieldsMarked'
        BY <1>1, <2>1, SameWaiting
  <2>3. Types'
    <3>1. /\ stack' \in Seq(CallRecord) /\ deferred' \in Seq(Heap) /\ Len(deferred') = 0
          /\ WeakPointers' \in Seq(Heap) /\ WeakReferences' \in Seq(Heap)
          BY <2>1, EmptyTypes
    <3>2. scanner' \in 1 .. HeapLen + 1 /\ Len(deferred') <= DEFERRED_OBJECT_TABLE_SIZE
          BY <2>1, <3>1
    <3>3. overflow' \in BOOLEAN
          BY <2>1
    <3> QED
          BY <1>1, <2>1, <3>1, <3>2, <3>3 DEF Types
  <2>4. Phases'
        BY <1>1, <2>1 DEF MInv, Phases, heapVars
  <2>5. AllExcused'
        BY <1>1, <2>1 DEF AllExcused, Excused, Heap
  <2> QED
        BY <2>2, <2>3, <2>4, <2>5 DEF MInv
<1>3. CASE ~overflow
  <2>1. pc' = "lists" /\ UNCHANGED scanVars
        BY <1>3 DEF EndScan
  <2>2. HeapTypes' /\ Depths' /\ WaitingMarked' /\ FieldsMarked' /\ \A o : Complete(o)' = Complete(o)
        BY <1>1, <2>1, SameWaiting DEF scanVars
  <2>3. Types' /\ Phases'
        BY <1>1, <2>1 DEF MInv, Types, Phases, scanVars, heapVars
  <2>4. ASSUME NEW o \in marked PROVE Complete(o)
    <3>1. ~IsDeferred(o) /\ ~OnStack(o)
          BY <1>1 DEF IsDeferred, OnStack
    <3>2. o \in 1 .. HeapLen /\ scanner \in 1 .. HeapLen + 1
          BY <1>1 DEF Heap, MInv, Types
    <3>3. ~Excused(o)
          BY <1>1, <1>3, <3>1, <3>2 DEF Excused
    <3> QED
          BY <1>1, <3>3 DEF MInv, AllExcused
  <2>5. AllExcused'
        BY <1>1, <2>1, <2>2, <2>4 DEF AllExcused
  <2> QED
        BY <2>2, <2>3, <2>5 DEF MInv
<1> QED
      BY <1>2, <1>3

LEMMA ScanStep == MInv /\ ScanObject => MInv'
<1> SUFFICES ASSUME MInv, ScanObject PROVE MInv'
    OBVIOUS
<1> USE ConstantsType
<1>1. /\ UNCHANGED <<heapVars, marked, pc, deferred, overflow, WeakPointers, WeakReferences>>
      /\ stack = <<>> /\ deferred = <<>> /\ pc = "scan" /\ scanner \in Heap
      /\ marked \subseteq Heap /\ HeapTypes
      BY DEF ScanObject, MInv, Phases, Types, Heap
<1>2. HeapTypes' /\ \A o : Children(o)' = Children(o)
      BY <1>1, ChildrenSame
<1>3. \A o : Complete(o)' = Complete(o)
      BY <1>1, <1>2 DEF Complete
<1>4. CASE scanner \in marked
  <2> DEFINE c == Call(scanner, MAX_GC_DEPTH)
  <2>1. stack' = <<c>> /\ scanner' = scanner
        BY <1>4 DEF ScanObject
  <2>2. /\ c \in CallRecord /\ c.object = scanner /\ c.field = 1 /\ c.nextObject = NULL
        /\ c.depth = MAX_GC_DEPTH - 1
        BY <1>1 DEF Call, CallRecord
  <2> HIDE DEF c
  <2>3. Types'
        BY <1>1, <2>1, <2>2 DEF MInv, Types
  <2>4. Phases'
        BY <1>1, <1>4, <2>1 DEF MInv, Phases, heapVars
  <2>5. Depths'
        BY <2>1, <2>2 DEF Depths
  <2>6. WaitingMarked'
        BY <1>1, <1>4, <2>1, <2>2 DEF WaitingMarked
  <2>7. FieldsMarked'
        BY <2>1, <2>2 DEF FieldsMarked
  <2>8. ASSUME NEW o \in marked PROVE Complete(o)' \/ Excused(o)'
    <3>1. Complete(o) \/ overflow \/ o > scanner \/ o = scanner
          BY <1>1 DEF MInv, AllExcused, Excused, IsDeferred, OnStack
    <3>2. CASE o = scanner
          BY <2>1, <2>2, <3>2 DEF Excused, OnStack
    <3> QED
          BY <1>1, <1>3, <2>1, <3>1, <3>2 DEF Excused
  <2>9. AllExcused'
        BY <1>1, <2>8 DEF AllExcused
  <2> QED
        BY <1>2, <2>3, <2>4, <2>5, <2>6, <2>7, <2>9 DEF MInv
<1>5. CASE scanner \notin marked
  <2>1. scanner' = scanner + 1 /\ stack' = stack
        BY <1>5 DEF ScanObject
  <2>2. Depths' /\ WaitingMarked' /\ FieldsMarked'
        BY <1>1, <2>1, SameWaiting
  <2>3. Types'
        BY <1>1, <2>1 DEF MInv, Types, Heap
  <2>4. Phases'
        BY <1>1, <2>1 DEF MInv, Phases, heapVars
  <2>5. ASSUME NEW o \in marked PROVE Complete(o)' \/ Excused(o)'
    <3>1. Complete(o) \/ overflow \/ o > scanner
          BY <1>1, <1>5 DEF MInv, AllExcused, Excused, IsDeferred, OnStack
    <3>2. o > scanner => o > scanner' \/ (o = scanner' /\ stack' = <<>>)
          BY <1>1, <2>1 DEF Heap
    <3> QED
          BY <1>1, <1>3, <3>1, <3>2 DEF Excused
  <2>6. AllExcused'
        BY <1>1, <2>5 DEF AllExcused
  <2> QED
        BY <1>2, <2>2, <2>3, <2>4, <2>6 DEF MInv
<1> QED
      BY <1>4, <1>5

(* Weak pointers and finalizers, after the scans.                          *)
LEMMA WeakSteps ==
  ASSUME MInv, pc \notin {"roots", "scan"}, pc' \in {"lists", "references", "done"},
         UNCHANGED <<heapVars, marked, scanner, stack, deferred, overflow>>,
         WeakPointers' \in Seq(Heap), WeakReferences' \in Seq(Heap)
  PROVE  MInv'
<1>1. HeapTypes' /\ Depths' /\ WaitingMarked' /\ FieldsMarked' /\ \A o : Complete(o)' = Complete(o)
      BY SameWaiting
<1>2. Types'
      BY DEF MInv, Types
<1>3. Phases'
      BY DEF MInv, Phases, heapVars
<1>4. AllExcused'
      BY <1>1 DEF MInv, AllExcused
<1> QED
      BY <1>1, <1>2, <1>3, <1>4 DEF MInv

-----------------------------------------------------------------------------
(* The steps of markChildren                                               *)

(* What holds of the innermost call.                                       *)
LEMMA TopFacts ==
  ASSUME MInv, stack # <<>>
  PROVE  /\ pc = "scan" /\ stack \in Seq(CallRecord) /\ Len(stack) \in Nat \ {0}
         /\ top \in CallRecord /\ top.object \in marked /\ top.object \in Heap
         /\ top.nextObject \in marked \cup {NULL} /\ top.field \in Nat \ {0}
         /\ top.depth = MAX_GC_DEPTH - Len(stack) /\ top.depth \in Int /\ top.depth >= -1
         /\ scanner \in marked /\ scanner \in Heap /\ marked \subseteq Heap
         /\ Children(top.object) \in Seq(Heap)
         /\ \A k \in 1 .. Len(Children(top.object)) :
              k < top.field => Children(top.object)[k] \in marked
<1> USE ConstantsType
<1>1. stack \in Seq(CallRecord) /\ Len(stack) \in Nat \ {0} /\ 1 \in 1 .. Len(stack)
      BY DEF MInv, Types
<1>2. top \in CallRecord
      BY <1>1 DEF top
<1>3. pc = "scan" /\ scanner \in marked /\ marked \subseteq Heap
      BY DEF MInv, Phases, Types
<1>4. top.object \in Heap /\ top.field \in Nat \ {0} /\ top.depth \in Int
      BY <1>2 DEF CallRecord
<1>5. top.object \in marked /\ top.nextObject \in marked \cup {NULL}
      BY <1>1 DEF MInv, WaitingMarked, top
<1>6. top.depth = MAX_GC_DEPTH - Len(stack) /\ top.depth >= -1
      BY <1>1 DEF MInv, Depths, top
<1>7. Children(top.object) \in Seq(Heap)
      BY <1>4, ChildrenType DEF MInv
<1>8. \A k \in 1 .. Len(Children(top.object)) :
        k < top.field => Children(top.object)[k] \in marked
      BY <1>1 DEF MInv, FieldsMarked, top
<1> QED
      BY <1>1, <1>2, <1>3, <1>4, <1>5, <1>6, <1>7, <1>8

(* A step that puts the call c in the place of the innermost one.          *)
LEMMA TopReplaced ==
  ASSUME MInv, stack # <<>>, NEW c \in CallRecord, stack' = <<c>> \o Tail(stack),
         c.depth = top.depth, UNCHANGED heapVars, marked \subseteq marked',
         c.object \in marked', c.nextObject \in marked' \cup {NULL},
         \A k \in 1 .. Len(Children(c.object)) :
           k < c.field => Children(c.object)[k] \in marked'
  PROVE  /\ stack' \in Seq(CallRecord) /\ stack' # <<>> /\ Depths' /\ FieldsMarked'
         /\ \A i \in 1 .. Len(stack') :
              stack'[i].object \in marked' /\ stack'[i].nextObject \in marked' \cup {NULL}
         /\ OnStack(c.object)' /\ OnStack(c.nextObject)'
         /\ \A o : OnStack(o) => OnStack(o)' \/ o = top.object \/ o = top.nextObject
<1>1. stack \in Seq(CallRecord) /\ Len(stack) \in Nat \ {0} /\ 1 \in 1 .. Len(stack)
      BY TopFacts
<1>2. /\ stack' \in Seq(CallRecord) /\ Len(stack') = Len(stack) /\ stack' # <<>> /\ stack'[1] = c
      /\ \A i \in 1 .. Len(stack) : i # 1 => stack'[i] = stack[i]
      BY <1>1, ReplaceTop
<1>3. Depths'
  <2>1. \A i \in 1 .. Len(stack) : stack'[i].depth = stack[i].depth
        BY <1>1, <1>2 DEF top
  <2> QED
        BY <1>2, <2>1 DEF MInv, Depths
<1>4. \A o : Children(o)' = Children(o)
      BY ChildrenSame
<1>5. FieldsMarked'
  <2> SUFFICES ASSUME NEW i \in 1 .. Len(stack), NEW k \in 1 .. Len(Children(stack'[i].object)),
                      k < stack'[i].field
               PROVE  Children(stack'[i].object)[k] \in marked'
      BY <1>2, <1>4 DEF FieldsMarked
  <2>1. CASE i = 1
        BY <1>2, <2>1
  <2>2. CASE i # 1
    <3>1. stack'[i] = stack[i]
          BY <1>2, <2>2
    <3> QED
          BY <3>1 DEF MInv, FieldsMarked
  <2> QED
        BY <2>1, <2>2
<1>6. ASSUME NEW i \in 1 .. Len(stack')
      PROVE  stack'[i].object \in marked' /\ stack'[i].nextObject \in marked' \cup {NULL}
  <2>1. CASE i = 1
        BY <1>2, <2>1
  <2>2. CASE i # 1
    <3>1. stack'[i] = stack[i]
          BY <1>2, <2>2
    <3> QED
          BY <1>2, <3>1 DEF MInv, WaitingMarked
  <2> QED
        BY <2>1, <2>2
<1>7. OnStack(c.object)' /\ OnStack(c.nextObject)'
      BY <1>1, <1>2 DEF OnStack
<1>8. ASSUME NEW o, OnStack(o) PROVE OnStack(o)' \/ o = top.object \/ o = top.nextObject
  <2>1. PICK i \in 1 .. Len(stack) : o = stack[i].object \/ o = stack[i].nextObject
        BY <1>8 DEF OnStack
  <2>2. CASE i = 1
        BY <2>1, <2>2 DEF top
  <2>3. CASE i # 1
        BY <1>2, <2>1, <2>3 DEF OnStack
  <2> QED
        BY <2>2, <2>3
<1> QED
      BY <1>2, <1>3, <1>5, <1>6, <1>7, <1>8

(* A step of the visit: what waited and is not complete waits, and so does *)
(* what it marked.                                                         *)
LEMMA VisitStep ==
  ASSUME MInv, stack # <<>>, stack' # <<>>, UNCHANGED <<heapVars, pc, scanner>>,
         Types', Depths', WaitingMarked', FieldsMarked', marked \subseteq marked',
         overflow => overflow',
         \A o \in marked : ~Complete(o) /\ (IsDeferred(o) \/ OnStack(o))
                            => overflow' \/ IsDeferred(o)' \/ OnStack(o)',
         \A o \in marked' : o \notin marked => o > scanner \/ OnStack(o)'
  PROVE  MInv'
<1>1. HeapTypes' /\ \A o : Children(o)' = Children(o)
      BY ChildrenSame DEF MInv
<1>2. pc = "scan" /\ scanner \in marked
      BY TopFacts
<1>3. Phases'
      BY <1>2 DEF MInv, Phases, heapVars
<1>4. ASSUME NEW o \in marked' PROVE Complete(o)' \/ Excused(o)'
  <2>1. CASE o \notin marked
        BY <2>1 DEF Excused
  <2>2. CASE Complete(o)
        BY <1>1, <2>2 DEF Complete
  <2>3. CASE o \in marked /\ ~Complete(o)
    <3>1. Excused(o)
          BY <1>2, <2>3 DEF MInv, AllExcused
    <3>2. overflow \/ o > scanner \/ IsDeferred(o) \/ OnStack(o)
          BY <3>1 DEF Excused
    <3> QED
          BY <2>3, <3>2 DEF Excused
  <2> QED
        BY <2>1, <2>2, <2>3
<1>5. AllExcused'
      BY <1>2, <1>4 DEF AllExcused
<1> QED
      BY <1>1, <1>3, <1>5 DEF MInv

LEMMA PushWeakType ==
  ASSUME MInv, NEW o \in Heap, PushWeak(o)
  PROVE  WeakPointers' \in Seq(Heap) /\ WeakReferences' \in Seq(Heap)
<1>1. WeakPointers \in Seq(Heap) /\ WeakReferences \in Seq(Heap)
      BY DEF MInv, Types
<1>2. <<o>> \o WeakPointers \in Seq(Heap) /\ <<o>> \o WeakReferences \in Seq(Heap)
      BY <1>1
<1> QED
      BY <1>1, <1>2 DEF PushWeak

(* The visit goes on with an object that has waited.                       *)
LEMMA GotoType ==
  ASSUME NEW call \in CallRecord, NEW o \in Heap
  PROVE  /\ Goto(call, o) \in CallRecord /\ Goto(call, o).object = o
         /\ Goto(call, o).field = 1 /\ Goto(call, o).nextObject = NULL
         /\ Goto(call, o).depth = call.depth
BY DEF Goto, CallRecord

LEMMA GotoStep ==
  ASSUME MInv, stack # <<>>, NEW o \in marked,
         stack' = <<Goto(top, o)>> \o Tail(stack),
         UNCHANGED <<heapVars, marked, pc, scanner, overflow>>,
         WeakPointers' \in Seq(Heap), WeakReferences' \in Seq(Heap),
         deferred' \in Seq(Heap), Len(deferred') <= DEFERRED_OBJECT_TABLE_SIZE,
         \A i \in 1 .. Len(deferred') : deferred'[i] \in marked,
         Complete(top.object), top.nextObject \in {NULL, o},
         \A q : IsDeferred(q) => IsDeferred(q)' \/ q = o
  PROVE  MInv'
<1>1. top \in CallRecord /\ marked \subseteq Heap /\ NULL \notin Heap
      BY TopFacts, ConstantsType
<1> DEFINE c == Goto(top, o)
<1>2. /\ c \in CallRecord /\ c.object = o /\ c.field = 1 /\ c.nextObject = NULL
      /\ c.depth = top.depth
      BY <1>1, GotoType
<1> HIDE DEF c
<1>3. stack' = <<c>> \o Tail(stack)
      BY DEF c
<1>4. \A k \in 1 .. Len(Children(c.object)) : k < c.field => Children(c.object)[k] \in marked'
      BY <1>2
<1>5. /\ stack' \in Seq(CallRecord) /\ stack' # <<>> /\ Depths' /\ FieldsMarked'
      /\ \A i \in 1 .. Len(stack') :
           stack'[i].object \in marked' /\ stack'[i].nextObject \in marked' \cup {NULL}
      /\ OnStack(o)'
      /\ \A q : OnStack(q) => OnStack(q)' \/ q = top.object \/ q = top.nextObject
      BY <1>2, <1>3, <1>4, TopReplaced
<1>6. Types'
      BY <1>5 DEF MInv, Types
<1>7. WaitingMarked'
      BY <1>5 DEF WaitingMarked
<1>8. ASSUME NEW q \in marked, ~Complete(q), IsDeferred(q) \/ OnStack(q)
      PROVE  IsDeferred(q)' \/ OnStack(q)'
      BY <1>1, <1>5, <1>8
<1> QED
      BY <1>5, <1>6, <1>7, <1>8, VisitStep

(* A call returns; when it is the last one, the scanner goes on.           *)
LEMMA ReturnStep ==
  ASSUME MInv, stack # <<>>, stack' = Tail(stack),
         scanner' = IF Len(stack) = 1 THEN scanner + 1 ELSE scanner,
         UNCHANGED <<heapVars, marked, pc, overflow, deferred>>,
         WeakPointers' \in Seq(Heap), WeakReferences' \in Seq(Heap),
         Complete(top.object), top.nextObject = NULL,
         ~(Outermost /\ deferred # <<>>)
  PROVE  MInv'
<1> USE ConstantsType
<1>1. /\ pc = "scan" /\ stack \in Seq(CallRecord) /\ Len(stack) \in Nat \ {0}
      /\ top.depth = MAX_GC_DEPTH - Len(stack) /\ scanner \in marked /\ scanner \in Heap
      /\ marked \subseteq Heap
      BY TopFacts
<1>2. /\ stack' \in Seq(CallRecord) /\ Len(stack') = Len(stack) - 1
      /\ \A i \in 1 .. Len(stack') : stack'[i] = stack[i + 1] /\ i + 1 \in 1 .. Len(stack)
      BY <1>1, PopTop
<1>3. HeapTypes' /\ (\A o : Children(o)' = Children(o)) /\ \A o : Complete(o)' = Complete(o)
  <2>1. HeapTypes' /\ \A o : Children(o)' = Children(o)
        BY ChildrenSame DEF MInv
  <2> QED
        BY <2>1 DEF Complete
<1>4. Types'
  <2>1. scanner' \in 1 .. HeapLen + 1
        BY <1>1 DEF Heap
  <2> QED
        BY <1>2, <2>1 DEF MInv, Types
<1>5. Depths'
  <2> SUFFICES ASSUME NEW i \in 1 .. Len(stack')
               PROVE  /\ stack'[i].depth = MAX_GC_DEPTH - 1 - Len(stack') + i
                      /\ stack'[i].depth >= -1
      BY DEF Depths
  <2>1. /\ stack[i + 1].depth = MAX_GC_DEPTH - 1 - Len(stack) + (i + 1)
        /\ stack[i + 1].depth >= -1
        BY <1>2 DEF MInv, Depths
  <2> QED
        BY <1>1, <1>2, <2>1
<1>6. ASSUME Len(stack) = 1 PROVE stack' = <<>> /\ deferred = <<>>
  <2>1. Len(stack') = 0
        BY <1>2, <1>6
  <2>2. stack' = <<>>
        BY <1>2, <2>1
  <2>3. Outermost
        BY <1>1, <1>6 DEF Outermost
  <2> QED
        BY <2>2, <2>3
<1>7. ASSUME Len(stack) # 1 PROVE stack' # <<>>
  <2>1. Len(stack') # 0
        BY <1>1, <1>2, <1>7
  <2> QED
        BY <1>2, <2>1
<1>8. Phases'
  <2>1. roots' = roots
        BY DEF heapVars
  <2> QED
        BY <1>1, <1>6, <1>7, <2>1 DEF MInv, Phases
<1>9. WaitingMarked' /\ FieldsMarked'
      BY <1>2, <1>3 DEF MInv, WaitingMarked, FieldsMarked
<1>10. ASSUME NEW o, OnStack(o) PROVE OnStack(o)' \/ o = top.object \/ o = NULL
  <2>1. PICK i \in 1 .. Len(stack) : o = stack[i].object \/ o = stack[i].nextObject
        BY <1>10 DEF OnStack
  <2>2. CASE i = 1
        BY <2>1, <2>2 DEF top
  <2>3. CASE i # 1
    <3>1. i - 1 \in 1 .. Len(stack') /\ stack'[i - 1] = stack[i]
          BY <1>1, <1>2, <2>3
    <3> QED
          BY <2>1, <3>1 DEF OnStack
  <2> QED
        BY <2>2, <2>3
<1>11. ASSUME NEW o \in marked PROVE Complete(o)' \/ Excused(o)'
  <2>1. Complete(o) \/ Excused(o)
        BY <1>1 DEF MInv, AllExcused
  <2>2. o \in Heap /\ o # NULL
        BY <1>1
  <2>3. o > scanner => o > scanner' \/ (o = scanner' /\ stack' = <<>>)
        BY <1>1, <1>6, <2>2 DEF Heap
  <2>4. IsDeferred(o)' = IsDeferred(o)
        BY DEF IsDeferred
  <2> QED
        BY <1>3, <1>10, <2>1, <2>2, <2>3, <2>4 DEF Excused
<1>12. AllExcused'
       BY <1>1, <1>11 DEF AllExcused
<1> QED
       BY <1>3, <1>4, <1>5, <1>8, <1>9, <1>12 DEF MInv

LEMMA FinishStep == MInv /\ FinishObject => MInv'
<1> SUFFICES ASSUME MInv, FinishObject PROVE MInv'
    OBVIOUS
<1> USE ConstantsType
<1>1. /\ stack # <<>> /\ top.field > Len(Children(top.object)) /\ PushWeak(top.object)
      /\ UNCHANGED <<heapVars, marked, pc, overflow>>
      BY DEF FinishObject
<1>2. /\ top.object \in Heap /\ top.nextObject \in marked \cup {NULL}
      /\ Children(top.object) \in Seq(Heap) /\ top.field \in Nat \ {0}
      /\ \A k \in 1 .. Len(Children(top.object)) :
           k < top.field => Children(top.object)[k] \in marked
      BY <1>1, TopFacts
<1>3. WeakPointers' \in Seq(Heap) /\ WeakReferences' \in Seq(Heap)
      BY <1>1, <1>2, PushWeakType
<1>4. Complete(top.object)
  <2>1. \A k \in 1 .. Len(Children(top.object)) : k < top.field
        BY <1>1, <1>2
  <2> QED
        BY <1>2, <2>1 DEF Complete
<1>5. /\ deferred \in Seq(Heap) /\ Len(deferred) <= DEFERRED_OBJECT_TABLE_SIZE
      /\ \A i \in 1 .. Len(deferred) : deferred[i] \in marked
      BY DEF MInv, Types, WaitingMarked
<1>6. CASE /\ top.nextObject # NULL
           /\ stack' = <<Goto(top, top.nextObject)>> \o Tail(stack)
           /\ UNCHANGED <<scanner, deferred>>
  <2>1. \A q : IsDeferred(q) => IsDeferred(q)'
        BY <1>6 DEF IsDeferred
  <2> QED
        BY <1>1, <1>2, <1>3, <1>4, <1>5, <1>6, <2>1, GotoStep
<1>7. CASE /\ top.nextObject = NULL /\ Outermost /\ deferred # <<>>
           /\ stack' = <<Goto(top, Head(deferred))>> \o Tail(stack)
           /\ deferred' = Tail(deferred)
           /\ UNCHANGED scanner
  <2>1. /\ deferred' \in Seq(Heap) /\ Len(deferred') = Len(deferred) - 1
        /\ Len(deferred) \in Nat \ {0} /\ Head(deferred) = deferred[1]
        /\ \A i \in 1 .. Len(deferred') : deferred'[i] = deferred[i + 1]
        BY <1>5, <1>7, PopTop
  <2>2. Head(deferred) \in marked
        BY <1>5, <2>1
  <2>3. \A i \in 1 .. Len(deferred') : deferred'[i] \in marked
        BY <1>5, <2>1
  <2>4. ASSUME NEW q, IsDeferred(q) PROVE IsDeferred(q)' \/ q = Head(deferred)
    <3>1. PICK i \in 1 .. Len(deferred) : q = deferred[i]
          BY <2>4 DEF IsDeferred
    <3>2. CASE i = 1
          BY <2>1, <3>1, <3>2
    <3>3. CASE i # 1
      <4>1. i - 1 \in 1 .. Len(deferred') /\ deferred'[i - 1] = deferred[i]
            BY <2>1, <3>3
      <4> QED
            BY <3>1, <4>1 DEF IsDeferred
    <3> QED
          BY <3>2, <3>3
  <2>5. Len(deferred') <= DEFERRED_OBJECT_TABLE_SIZE
        BY <1>5, <2>1
  <2> QED
        BY <1>1, <1>3, <1>4, <1>7, <2>1, <2>2, <2>3, <2>4, <2>5, GotoStep
<1>8. CASE /\ top.nextObject = NULL /\ ~(Outermost /\ deferred # <<>>)
           /\ stack' = Tail(stack)
           /\ scanner' = IF Len(stack) = 1 THEN scanner + 1 ELSE scanner
           /\ UNCHANGED deferred
      BY <1>1, <1>3, <1>4, <1>8, ReturnStep
<1> QED
      BY <1>6, <1>7, <1>8 DEF FinishObject

(* A pointer is looked at: the call c takes the place of the innermost one *)
(* and the child, if it was not marked, is ahead of the scanner or in c.   *)
LEMMA LookStep ==
  ASSUME MInv, stack # <<>>, NEW child \in Heap,
         top.field \in 1 .. Len(Children(top.object)), child = Children(top.object)[top.field],
         NEW c \in CallRecord, stack' = <<c>> \o Tail(stack), NEW next, next = top.nextObject,
         c.object = top.object, c.field = top.field + 1, c.depth = top.depth,
         c.nextObject \in {child, next},
         marked' = marked \cup {child},
         child \in marked \/ child > scanner \/ c.nextObject = child,
         UNCHANGED <<heapVars, pc, scanner, WeakPointers, WeakReferences>>,
         deferred' \in Seq(Heap), Len(deferred') <= DEFERRED_OBJECT_TABLE_SIZE,
         overflow' \in BOOLEAN, overflow => overflow',
         \A i \in 1 .. Len(deferred') : deferred'[i] \in marked,
         \A q : IsDeferred(q) => IsDeferred(q)',
         c.nextObject = next \/ next = NULL \/ overflow' \/ IsDeferred(next)'
  PROVE  MInv'
<1>1. /\ top \in CallRecord /\ marked \subseteq Heap /\ NULL \notin Heap
      /\ top.object \in marked /\ top.nextObject \in marked \cup {NULL}
      /\ top.field \in Nat \ {0} /\ Children(top.object) \in Seq(Heap)
      /\ \A k \in 1 .. Len(Children(top.object)) :
           k < top.field => Children(top.object)[k] \in marked
      BY TopFacts, ConstantsType
<1>2. \A k \in 1 .. Len(Children(c.object)) : k < c.field => Children(c.object)[k] \in marked'
  <2>1. \A k \in 1 .. Len(Children(top.object)) :
          k < top.field + 1 => k < top.field \/ k = top.field
        BY <1>1
  <2> QED
        BY <1>1, <2>1
<1>3. c.object \in marked' /\ c.nextObject \in marked' \cup {NULL}
      BY <1>1
<1>4. /\ stack' \in Seq(CallRecord) /\ stack' # <<>> /\ Depths' /\ FieldsMarked'
      /\ \A i \in 1 .. Len(stack') :
           stack'[i].object \in marked' /\ stack'[i].nextObject \in marked' \cup {NULL}
      /\ OnStack(c.object)' /\ OnStack(c.nextObject)'
      /\ \A q : OnStack(q) => OnStack(q)' \/ q = top.object \/ q = top.nextObject
      BY <1>2, <1>3, TopReplaced
<1>5. Types'
      BY <1>1, <1>4 DEF MInv, Types
<1>6. WaitingMarked'
      BY <1>4 DEF WaitingMarked
<1>7. ASSUME NEW q \in marked, ~Complete(q), IsDeferred(q) \/ OnStack(q)
      PROVE  overflow' \/ IsDeferred(q)' \/ OnStack(q)'
  <2>1. CASE IsDeferred(q)
        BY <2>1
  <2>2. CASE OnStack(q)
    <3>1. OnStack(q)' \/ q = next
          BY <1>4, <2>2
    <3>2. q # NULL
          BY <1>1
    <3> QED
          BY <1>4, <3>1, <3>2
  <2> QED
        BY <1>7, <2>1, <2>2
<1>8. ASSUME NEW q \in marked', q \notin marked PROVE q > scanner \/ OnStack(q)'
      BY <1>4, <1>8
<1> QED
      BY <1>4, <1>5, <1>6, <1>7, <1>8, VisitStep

(* Recursion: caller waits, with the child as its next object, below the   *)
(* call for the object that was its next one.                              *)
LEMMA CallStep ==
  ASSUME MInv, stack # <<>>, NEW child \in Heap,
         top.field \in 1 .. Len(Children(top.object)), child = Children(top.object)[top.field],
         NEW c \in CallRecord, NEW d \in CallRecord, stack' = <<d, c>> \o Tail(stack),
         c.object = top.object, c.field = top.field + 1, c.depth = top.depth, c.nextObject = child,
         d.object = top.nextObject, d.field = 1, d.nextObject = NULL, d.depth = top.depth - 1,
         top.depth >= 0, top.nextObject # NULL,
         marked' = marked \cup {child},
         UNCHANGED <<heapVars, pc, scanner, WeakPointers, WeakReferences, deferred, overflow>>
  PROVE  MInv'
<1> USE ConstantsType
<1>1. /\ stack \in Seq(CallRecord) /\ Len(stack) \in Nat \ {0} /\ marked \subseteq Heap
      /\ top.depth = MAX_GC_DEPTH - Len(stack) /\ top.depth \in Int
      /\ top.object \in marked /\ top.nextObject \in marked
      /\ top.field \in Nat \ {0} /\ Children(top.object) \in Seq(Heap)
      /\ \A k \in 1 .. Len(Children(top.object)) :
           k < top.field => Children(top.object)[k] \in marked
      BY TopFacts
<1>2. /\ stack' \in Seq(CallRecord) /\ Len(stack') = Len(stack) + 1 /\ stack' # <<>>
      /\ stack'[1] = d /\ stack'[2] = c
      /\ \A i \in 3 .. Len(stack) + 1 : stack'[i] = stack[i - 1]
      BY <1>1, PushTop
<1>3. ASSUME NEW i \in 1 .. Len(stack')
      PROVE  i = 1 \/ i = 2 \/ (i \in 3 .. Len(stack) + 1 /\ i - 1 \in 1 .. Len(stack)
                               /\ stack'[i] = stack[i - 1])
      BY <1>1, <1>2
<1>4. \A o : Children(o)' = Children(o)
      BY ChildrenSame
<1>5. Depths'
  <2> SUFFICES ASSUME NEW i \in 1 .. Len(stack')
               PROVE  /\ stack'[i].depth = MAX_GC_DEPTH - 1 - Len(stack') + i
                      /\ stack'[i].depth >= -1
      BY DEF Depths
  <2>1. CASE i = 1
        BY <1>1, <1>2, <2>1
  <2>2. CASE i = 2
        BY <1>1, <1>2, <2>2
  <2>3. CASE i - 1 \in 1 .. Len(stack) /\ stack'[i] = stack[i - 1]
    <3>1. /\ stack[i - 1].depth = MAX_GC_DEPTH - 1 - Len(stack) + (i - 1)
          /\ stack[i - 1].depth >= -1
          BY <2>3 DEF MInv, Depths
    <3> QED
          BY <1>1, <1>2, <2>3, <3>1
  <2> QED
        BY <1>3, <2>1, <2>2, <2>3
<1>6. \A k \in 1 .. Len(Children(c.object)) : k < c.field => Children(c.object)[k] \in marked'
  <2>1. \A k \in 1 .. Len(Children(top.object)) :
          k < top.field + 1 => k < top.field \/ k = top.field
        BY <1>1
  <2> QED
        BY <1>1, <2>1
<1>7. FieldsMarked'
  <2> SUFFICES ASSUME NEW i \in 1 .. Len(stack'), NEW k \in 1 .. Len(Children(stack'[i].object)),
                      k < stack'[i].field
               PROVE  Children(stack'[i].object)[k] \in marked'
      BY <1>4 DEF FieldsMarked
  <2>1. CASE i = 1
        BY <1>2, <2>1
  <2>2. CASE i = 2
        BY <1>2, <1>6, <2>2
  <2>3. CASE i - 1 \in 1 .. Len(stack) /\ stack'[i] = stack[i - 1]
        BY <2>3 DEF MInv, FieldsMarked
  <2> QED
        BY <1>3, <2>1, <2>2, <2>3
<1>8. WaitingMarked'
  <2>1. \A i \in 1 .. Len(deferred') : deferred'[i] \in marked'
        BY DEF MInv, WaitingMarked
  <2> SUFFICES ASSUME NEW i \in 1 .. Len(stack')
               PROVE  stack'[i].object \in marked' /\ stack'[i].nextObject \in marked' \cup {NULL}
      BY <2>1 DEF WaitingMarked
  <2>2. CASE i = 1
        BY <1>1, <1>2, <2>2
  <2>3. CASE i = 2
        BY <1>1, <1>2, <2>3
  <2>4. CASE i - 1 \in 1 .. Len(stack) /\ stack'[i] = stack[i - 1]
        BY <2>4 DEF MInv, WaitingMarked
  <2> QED
        BY <1>3, <2>2, <2>3, <2>4
<1>9. Types'
      BY <1>1, <1>2 DEF MInv, Types
<1>10. \A q : IsDeferred(q)' = IsDeferred(q)
       BY DEF IsDeferred
<1>11. 1 \in 1 .. Len(stack') /\ 2 \in 1 .. Len(stack')
       BY <1>1, <1>2
<1>12. OnStack(c.nextObject)' /\ OnStack(c.object)' /\ OnStack(d.object)'
       BY <1>2, <1>11 DEF OnStack
<1>13. ASSUME NEW q, OnStack(q) PROVE OnStack(q)'
  <2>1. PICK i \in 1 .. Len(stack) : q = stack[i].object \/ q = stack[i].nextObject
        BY <1>13 DEF OnStack
  <2>2. CASE i = 1
        BY <1>12, <2>1, <2>2 DEF top
  <2>3. CASE i # 1
    <3>1. i + 1 \in 3 .. Len(stack) + 1 /\ i + 1 \in 1 .. Len(stack') /\ (i + 1) - 1 = i
          BY <1>1, <1>2, <2>3
    <3>2. stack'[i + 1] = stack[i]
          BY <1>2, <3>1
    <3> QED
          BY <2>1, <3>1, <3>2 DEF OnStack
  <2> QED
        BY <2>2, <2>3
<1> QED
       BY <1>2, <1>5, <1>7, <1>8, <1>9, <1>10, <1>12, <1>13, VisitStep

LEMMA NextField ==
  ASSUME NEW call \in CallRecord
  PROVE  LET later == [call EXCEPT !.field = @ + 1]
         IN  /\ later \in CallRecord /\ later.object = call.object
             /\ later.field = call.field + 1 /\ later.nextObject = call.nextObject
             /\ later.depth = call.depth
BY DEF CallRecord

LEMMA WithNextObject ==
  ASSUME NEW call \in CallRecord, NEW o \in Heap
  PROVE  LET waiting == [call EXCEPT !.nextObject = o]
         IN  /\ waiting \in CallRecord /\ waiting.object = call.object
             /\ waiting.field = call.field /\ waiting.nextObject = o
             /\ waiting.depth = call.depth
BY DEF CallRecord

LEMMA CallType ==
  ASSUME NEW o \in Heap, NEW n \in Int
  PROVE  /\ Call(o, n) \in CallRecord /\ Call(o, n).object = o /\ Call(o, n).field = 1
         /\ Call(o, n).nextObject = NULL /\ Call(o, n).depth = n - 1
BY DEF Call, CallRecord

LEMMA PutDeferredType ==
  ASSUME MInv, NEW o \in marked, PutDeferred(o)
  PROVE  /\ deferred' \in Seq(Heap) /\ Len(deferred') <= DEFERRED_OBJECT_TABLE_SIZE
         /\ overflow' \in BOOLEAN /\ (overflow => overflow')
         /\ \A i \in 1 .. Len(deferred') : deferred'[i] \in marked
         /\ \A q : IsDeferred(q) => IsDeferred(q)'
         /\ overflow' \/ IsDeferred(o)'
<1> USE ConstantsType
<1>1. /\ deferred \in Seq(Heap) /\ Len(deferred) <= DEFERRED_OBJECT_TABLE_SIZE
      /\ overflow \in BOOLEAN /\ o \in Heap
      /\ \A i \in 1 .. Len(deferred) : deferred[i] \in marked
      BY DEF MInv, Types, WaitingMarked
<1>2. CASE Len(deferred) >= DEFERRED_OBJECT_TABLE_SIZE
  <2>1. overflow' = TRUE /\ deferred' = deferred
        BY <1>2 DEF PutDeferred
  <2> QED
        BY <1>1, <2>1 DEF IsDeferred
<1>3. CASE ~(Len(deferred) >= DEFERRED_OBJECT_TABLE_SIZE)
  <2>1. deferred' = Append(deferred, o) /\ overflow' = overflow
        BY <1>3 DEF PutDeferred
  <2>2. /\ deferred' \in Seq(Heap) /\ Len(deferred') = Len(deferred) + 1
        /\ \A i \in 1 .. Len(deferred) : deferred'[i] = deferred[i] /\ i \in 1 .. Len(deferred')
        /\ deferred'[Len(deferred')] = o /\ Len(deferred') \in 1 .. Len(deferred')
        BY <1>1, <2>1
  <2>3. Len(deferred') <= DEFERRED_OBJECT_TABLE_SIZE
        BY <1>1, <1>3, <2>2
  <2>4. ASSUME NEW i \in 1 .. Len(deferred') PROVE deferred'[i] \in marked
    <3>1. i \in 1 .. Len(deferred) \/ i = Len(deferred')
          BY <1>1, <2>2
    <3> QED
          BY <1>1, <2>2, <3>1
  <2>5. \A q : IsDeferred(q) => IsDeferred(q)'
        BY <2>2 DEF IsDeferred
  <2>6. IsDeferred(o)'
        BY <2>2 DEF IsDeferred
  <2> QED
        BY <1>1, <2>1, <2>2, <2>3, <2>4, <2>5, <2>6
<1> QED
      BY <1>2, <1>3

LEMMA MarkStep == MInv /\ MarkChild => MInv'
<1> SUFFICES ASSUME MInv, MarkChild PROVE MInv'
    OBVIOUS
<1> USE ConstantsType
<1>0. PICK child, next : child = Children(top.object)[top.field] /\ next = top.nextObject
      OBVIOUS
<1> DEFINE later == [top EXCEPT !.field = @ + 1]
           waiting == [later EXCEPT !.nextObject = child]
<1>1. /\ stack # <<>> /\ top.field <= Len(Children(top.object)) /\ marked' = marked \cup {child}
      /\ UNCHANGED <<heapVars, pc, scanner, WeakPointers, WeakReferences>>
      BY <1>0 DEF MarkChild
<1>2. /\ top \in CallRecord /\ top.field \in Nat \ {0} /\ Children(top.object) \in Seq(Heap)
      /\ top.nextObject \in marked \cup {NULL} /\ marked \subseteq Heap
      /\ scanner \in marked /\ scanner \in Heap /\ top.depth \in Int
      BY <1>1, TopFacts
<1>3. top.field \in 1 .. Len(Children(top.object)) /\ child \in Heap
      BY <1>0, <1>1, <1>2
<1>4. /\ later \in CallRecord /\ later.object = top.object /\ later.field = top.field + 1
      /\ later.nextObject = top.nextObject /\ later.depth = top.depth
      BY <1>2, NextField
<1> HIDE DEF later
<1>5. /\ waiting \in CallRecord /\ waiting.object = top.object /\ waiting.field = top.field + 1
      /\ waiting.nextObject = child /\ waiting.depth = top.depth
      BY <1>3, <1>4, WithNextObject
<1>6. /\ deferred \in Seq(Heap) /\ Len(deferred) <= DEFERRED_OBJECT_TABLE_SIZE
      /\ overflow \in BOOLEAN /\ \A i \in 1 .. Len(deferred) : deferred[i] \in marked
      BY DEF MInv, Types, WaitingMarked
<1>7. UNCHANGED <<deferred, overflow>> =>
        /\ deferred' \in Seq(Heap) /\ Len(deferred') <= DEFERRED_OBJECT_TABLE_SIZE
        /\ overflow' \in BOOLEAN /\ (overflow => overflow')
        /\ \A i \in 1 .. Len(deferred') : deferred'[i] \in marked
        /\ \A q : IsDeferred(q) => IsDeferred(q)'
      BY <1>6 DEF IsDeferred
<1> HIDE DEF waiting
<1>8. CASE /\ child \in marked \/ ~Passed(child)
           /\ stack' = <<later>> \o Tail(stack)
           /\ UNCHANGED <<deferred, overflow>>
  <2>1. child \in marked \/ child > scanner
        BY <1>2, <1>3, <1>8 DEF Passed, Heap
  <2> QED
        BY <1>0, <1>1, <1>3, <1>4, <1>7, <1>8, <2>1, LookStep
<1>9. CASE /\ top.nextObject = NULL
           /\ stack' = <<waiting>> \o Tail(stack)
           /\ UNCHANGED <<deferred, overflow>>
      BY <1>0, <1>1, <1>3, <1>5, <1>7, <1>9, LookStep
<1>10. CASE /\ top.nextObject # NULL /\ MayRecurse
            /\ stack' = <<Call(top.nextObject, top.depth), waiting>> \o Tail(stack)
            /\ UNCHANGED <<deferred, overflow>>
  <2>1. top.nextObject \in Heap /\ top.depth >= 0
        BY <1>2, <1>10 DEF MayRecurse
  <2> DEFINE d == Call(top.nextObject, top.depth)
  <2>2. /\ d \in CallRecord /\ d.object = top.nextObject /\ d.field = 1
        /\ d.nextObject = NULL /\ d.depth = top.depth - 1
        BY <1>2, <2>1, CallType
  <2>3. stack' = <<d, waiting>> \o Tail(stack)
        BY <1>10
  <2> HIDE DEF d
  <2> QED
        BY <1>0, <1>1, <1>3, <1>5, <1>10, <2>1, <2>2, <2>3, CallStep
<1>11. CASE /\ top.nextObject # NULL
            /\ stack' = <<waiting>> \o Tail(stack)
            /\ PutDeferred(top.nextObject)
  <2>1. next \in marked
        BY <1>0, <1>2, <1>11
  <2>2. PutDeferred(next)
        BY <1>0, <1>11
  <2>3. /\ deferred' \in Seq(Heap) /\ Len(deferred') <= DEFERRED_OBJECT_TABLE_SIZE
        /\ overflow' \in BOOLEAN /\ (overflow => overflow')
        /\ \A i \in 1 .. Len(deferred') : deferred'[i] \in marked
        /\ \A q : IsDeferred(q) => IsDeferred(q)'
        BY <2>1, <2>2, PutDeferredType
  <2>4. overflow' \/ IsDeferred(next)'
        BY <2>1, <2>2, PutDeferredType
  <2> QED
        BY <1>0, <1>1, <1>3, <1>5, <1>11, <2>1, <2>3, <2>4, LookStep
<1> QED
  BY <1>0, <1>8, <1>9, <1>10, <1>11 DEF MarkChild, Recurse, later, waiting

-----------------------------------------------------------------------------
(* The theorems                                                            *)

LEMMA NextMInv == MInv /\ [Next]_vars => MInv'
<1> SUFFICES ASSUME MInv, [Next]_vars PROVE MInv'
    OBVIOUS
<1>1. CASE MarkRootObjects
      BY <1>1, RootsStep
<1>2. CASE ScanObject
      BY <1>2, ScanStep
<1>3. CASE MarkChild
      BY <1>3, MarkStep
<1>4. CASE FinishObject
      BY <1>4, FinishStep
<1>5. CASE EndScan
      BY <1>5, EndScanStep
<1> DEFINE Weak == /\ WeakPointers \in Seq(Heap) /\ WeakReferences \in Seq(Heap)
                   /\ WeakPointers # <<>> => Tail(WeakPointers) \in Seq(Heap)
                   /\ WeakReferences # <<>> => Tail(WeakReferences) \in Seq(Heap)
<1>6. Weak
  <2>1. WeakPointers \in Seq(Heap) /\ WeakReferences \in Seq(Heap)
        BY DEF MInv, Types
  <2> QED
        BY <2>1
<1> HIDE DEF Weak
<1>7. CASE MarkWeakPointerList
      BY <1>6, <1>7, WeakSteps DEF MarkWeakPointerList, Weak
<1>8. CASE EndWeakPointerLists
      BY <1>6, <1>8, WeakSteps DEF EndWeakPointerLists, scanVars, Weak
<1>9. CASE MarkWeakReference
      BY <1>6, <1>9, WeakSteps DEF MarkWeakReference, Weak
<1>10. CASE EndWeakReferences
       BY <1>6, <1>10, WeakSteps DEF EndWeakReferences, scanVars, Weak
<1>11. CASE UNCHANGED vars
  <2>1. /\ UNCHANGED <<heapVars, marked, pc, scanner, stack, deferred, overflow>>
        /\ WeakPointers' = WeakPointers /\ WeakReferences' = WeakReferences
        BY <1>11 DEF vars, scanVars
  <2>2. /\ HeapTypes' /\ Depths' /\ WaitingMarked' /\ FieldsMarked'
        /\ (\A o : Complete(o)' = Complete(o))
        /\ \A o : OnStack(o)' = OnStack(o) /\ IsDeferred(o)' = IsDeferred(o)
        BY <2>1, SameWaiting
  <2>3. Types' /\ Phases'
        BY <2>1 DEF MInv, Types, Phases, heapVars
  <2>4. AllExcused'
        BY <2>1, <2>2 DEF MInv, AllExcused, Excused
  <2> QED
        BY <2>2, <2>3, <2>4 DEF MInv
<1>12. CASE Return
       BY <1>11, <1>12 DEF Return
<1> QED
       BY <1>1, <1>2, <1>3, <1>4, <1>5, <1>7, <1>8, <1>9, <1>10, <1>11, <1>12 DEF Next

LEMMA MInvImplies == MInv => MarkInvariant
<1> SUFFICES ASSUME MInv PROVE MarkInvariant
    OBVIOUS
<1> USE ConstantsType
<1>1. /\ stack \in Seq(CallRecord) /\ Len(stack) \in Nat /\ DOMAIN stack = 1 .. Len(stack)
      /\ marked \subseteq Heap
      BY DEF MInv, Types
<1>2. ASSUME NEW i \in DOMAIN stack
      PROVE  /\ stack[i].object \in Heap /\ stack[i].nextObject \in Heap \cup {NULL}
             /\ stack[i].depth \in -1 .. MAX_GC_DEPTH - 1
  <2>1. stack[i] \in CallRecord
        BY <1>1
  <2>2. stack[i].depth = MAX_GC_DEPTH - 1 - Len(stack) + i /\ stack[i].depth >= -1
        BY <1>1 DEF MInv, Depths
  <2>3. stack[i].depth \in -1 .. MAX_GC_DEPTH - 1
        BY <1>1, <2>2
  <2> QED
        BY <2>1, <2>3 DEF CallRecord
<1>3. TypeOK
      BY <1>2 DEF MInv, Types, TypeOK
<1>4. RecursionBounded
  <2>1. CASE Len(stack) = 0
        BY <2>1 DEF RecursionBounded
  <2>2. CASE Len(stack) # 0
    <3>1. 1 \in 1 .. Len(stack)
          BY <1>1, <2>2
    <3>2. stack[1].depth = MAX_GC_DEPTH - 1 - Len(stack) + 1 /\ stack[1].depth >= -1
          BY <3>1 DEF MInv, Depths
    <3> QED
          BY <1>1, <3>2 DEF RecursionBounded
  <2> QED
        BY <2>1, <2>2
<1>5. NothingForgotten
  <2> SUFFICES ASSUME pc = "scan", NEW o \in marked,
                      \E i \in DOMAIN Children(o) : Children(o)[i] \notin marked
               PROVE  \/ overflow \/ o >= scanner \/ o \in Elements(deferred)
                      \/ \E i \in DOMAIN stack : o \in {stack[i].object, stack[i].nextObject}
      BY DEF NothingForgotten
  <2>1. ~Complete(o)
    <3>1. Children(o) \in Seq(Heap)
          BY <1>1, ChildrenType DEF MInv
    <3> QED
          BY <3>1 DEF Complete
  <2>2. Excused(o)
        BY <2>1 DEF MInv, AllExcused
  <2>3. IsDeferred(o) => o \in Elements(deferred)
    <3>1. DOMAIN deferred = 1 .. Len(deferred)
          BY DEF MInv, Types
    <3> QED
          BY <3>1 DEF IsDeferred, Elements
  <2>4. OnStack(o) => \E i \in DOMAIN stack : o \in {stack[i].object, stack[i].nextObject}
        BY <1>1 DEF OnStack
  <2>5. o > scanner \/ o = scanner => o >= scanner
        BY <1>1 DEF Heap, MInv, Types
  <2> QED
        BY <2>2, <2>3, <2>4, <2>5 DEF Excused
<1> QED
      BY <1>3, <1>4, <1>5 DEF MarkInvariant

(* markChildren bounds its recursion and forgets no object: while the heap *)
(* is scanned, a marked object with a child that is not marked is before   *)
(* the scanner, on the call stack, in the deferred table, or the table has *)
(* overflowed and the heap will be scanned again.                          *)
THEOREM MarkInvariantHolds == Spec => []MarkInvariant
<1>1. Spec => []MInv
      BY InitMInv, NextMInv, PTL DEF Spec
<1>2. []MInv => []MarkInvariant
      BY MInvImplies, PTL
<1> QED
      BY <1>1, <1>2, PTL

-----------------------------------------------------------------------------
(* What is marked is reachable                                             *)

(* Only the instances of class WeakReference itself are weak references:   *)
(* none has pointer fields of its own, as one of a subclass would.         *)
NoSubclasses == \A g \in Graphs : \A n \in Heap : g.type[n] # "strong" => g.fields[n] = <<>>

MarkedReachable ==
  /\ \A o \in Heap : type[o] # "strong" => fields[o] = <<>>
  /\ marked \subseteq Reachable

LEMMA InitMarkedReachable == NoSubclasses /\ Init => MarkedReachable
<1> SUFFICES ASSUME NoSubclasses, Init PROVE MarkedReachable
    OBVIOUS
<1> USE GraphsAssumption
<1>1. PICK g \in Graphs, p \in Layouts :
        LET at(a) == CHOOSE n \in Heap : p[n] = a
            Moved(s) == [i \in DOMAIN s |-> IF s[i] = NULL THEN NULL ELSE p[s[i]]]
        IN  /\ type = [a \in Heap |-> g.type[at(a)]]
            /\ fields = [a \in Heap |-> Moved(g.fields[at(a)])]
            /\ weak = [a \in Heap |-> Moved(g.weak[at(a)])]
            /\ roots = {p[n] : n \in g.roots}
      BY DEF Init
<1> DEFINE at(a) == CHOOSE n \in Heap : p[n] = a
           Moved(s) == [i \in DOMAIN s |-> IF s[i] = NULL THEN NULL ELSE p[s[i]]]
<1>2. \A a \in Heap : at(a) \in Heap
      BY LayoutOnto
<1>3. Moved(<<>>) = <<>>
  <2>1. <<>> \in Seq(Heap \cup {NULL})
        OBVIOUS
  <2> QED
        BY <2>1, MovedType
<1>4. type = [a \in Heap |-> g.type[at(a)]] /\ fields = [a \in Heap |-> Moved(g.fields[at(a)])]
      BY <1>1
<1> HIDE DEF at, Moved
<1>5. ASSUME NEW o \in Heap, type[o] # "strong" PROVE fields[o] = <<>>
  <2>1. g.type[at(o)] # "strong" /\ at(o) \in Heap
        BY <1>2, <1>4, <1>5
  <2>2. g.fields[at(o)] = <<>>
        BY <2>1 DEF NoSubclasses
  <2> QED
        BY <1>3, <1>4, <2>2
<1> QED
      BY <1>5 DEF MarkedReachable, Init

LEMMA StrongType ==
  ASSUME HeapTypes
  PROVE  roots \subseteq Heap /\ \A o \in Heap : Strong(o) \subseteq Heap
BY DEF HeapTypes, Strong

LEMMA NextMarkedReachable == MInv /\ MarkedReachable /\ [Next]_vars => MarkedReachable'
<1> SUFFICES ASSUME MInv, MarkedReachable, [Next]_vars PROVE MarkedReachable'
    OBVIOUS
<1>1. UNCHANGED heapVars
      BY DEF Next, vars, MarkRootObjects, ScanObject, MarkChild, FinishObject, EndScan,
             MarkWeakPointerList, EndWeakPointerLists, MarkWeakReference, EndWeakReferences, Return
<1>2. Reachable' = Reachable /\ type' = type /\ fields' = fields
      BY <1>1 DEF Reachable, Strong, heapVars
<1>3. /\ roots \subseteq Reachable /\ Reachable \subseteq Heap
      /\ \A o \in Reachable : Strong(o) \subseteq Reachable
      BY StrongType, ConstantsType, ReachableIsClosed DEF MInv
<1>4. marked' \subseteq Reachable
  <2>1. CASE MarkRootObjects
        BY <1>3, <2>1 DEF MarkRootObjects
  <2>2. CASE MarkChild
    <3> DEFINE child == Children(top.object)[top.field]
    <3>1. marked' = marked \cup {child} /\ stack # <<>> /\ top.field <= Len(Children(top.object))
          BY <2>2 DEF MarkChild
    <3>2. top.object \in marked /\ top.field \in Nat \ {0} /\ Children(top.object) \in Seq(Heap)
          BY <3>1, TopFacts
    <3>3. top.field \in DOMAIN Children(top.object)
          BY <3>1, <3>2
    <3>4. child \in Strong(top.object)
          BY <3>3 DEF Children, Strong
    <3> QED
          BY <1>3, <3>1, <3>2, <3>4 DEF MarkedReachable
  <2>3. CASE marked' = marked
        BY <2>3 DEF MarkedReachable
  <2> QED
        BY <2>1, <2>2, <2>3 DEF Next, vars, ScanObject, FinishObject, EndScan,
           MarkWeakPointerList, EndWeakPointerLists, MarkWeakReference, EndWeakReferences, Return
<1> QED
      BY <1>2, <1>4 DEF MarkedReachable

LEMMA MarkedIsAllReachable == MInv /\ MarkedReachable => MarkedIsReachable
<1> SUFFICES ASSUME MInv, MarkedReachable, pc \notin {"roots", "scan"}
             PROVE  marked = Reachable
    BY DEF MarkedIsReachable
<1>1. roots \subseteq marked /\ marked \subseteq Heap
      BY DEF MInv, Phases, Types
<1>2. ASSUME NEW o \in marked PROVE Strong(o) \subseteq marked
  <2>1. Complete(o)
        BY DEF MInv, AllExcused
  <2>2. fields[o] \in Seq(Heap) /\ (type[o] # "strong" => fields[o] = <<>>)
        BY <1>1 DEF MInv, HeapTypes, MarkedReachable
  <2>3. CASE type[o] = "strong"
        BY <2>1, <2>2, <2>3 DEF Complete, Children, Strong
  <2>4. CASE fields[o] = <<>>
        BY <2>4 DEF Strong
  <2> QED
        BY <2>2, <2>3, <2>4
<1>3. Reachable \subseteq marked
      BY <1>1, <1>2, ConstantsType, ReachableIsLeast
<1> QED
      BY <1>3 DEF MarkedReachable

(* The collector marks every object a root leads to, and no other, however *)
(* small its table and its recursion are: after the scans of               *)
(* markNonRootObjects the marked objects are the reachable ones.           *)
THEOREM MarkedIsReachableHolds ==
  ASSUME NoSubclasses
  PROVE  Spec => []MarkedIsReachable
<1>1. Init => MInv /\ MarkedReachable
      BY InitMInv, InitMarkedReachable
<1>2. MInv /\ MarkedReachable /\ [Next]_vars => (MInv /\ MarkedReachable)'
      BY NextMInv, NextMarkedReachable
<1>3. MInv /\ MarkedReachable => MarkedIsReachable
      BY MarkedIsAllReachable
<1> QED
      BY <1>1, <1>2, <1>3, PTL DEF Spec

-----------------------------------------------------------------------------
(* Weak objects: the invariant                                             *)

(* Where an object waits in a visit: in a call s, as its object or its     *)
(* next one, or in the table d.                                            *)
Held(s, d) ==
  {o \in Heap : \/ \E i \in 1 .. Len(s) : o = s[i].object \/ o = s[i].nextObject
                \/ \E i \in 1 .. Len(d) : o = d[i]}

(* No object waits in two places.                                          *)
Apart(s, d) ==
  /\ \A i, j \in 1 .. Len(s) : s[i].object = s[j].object => i = j
  /\ \A i, j \in 1 .. Len(s) : s[i].object # s[j].nextObject
  /\ \A i, j \in 1 .. Len(s) : s[i].nextObject = s[j].nextObject => i = j \/ s[i].nextObject = NULL
  /\ \A i, j \in 1 .. Len(d) : d[i] = d[j] => i = j
  /\ \A i \in 1 .. Len(s), j \in 1 .. Len(d) : s[i].object # d[j] /\ s[i].nextObject # d[j]

(* The objects of type t the current scan has met and that wait no more.   *)
Past(o) == o < scanner \/ (o = scanner /\ stack # <<>>)
Visited(t) == {o \in marked : type[o] = t /\ Past(o)} \ Held(stack, deferred)

NoRepeats(q) == \A i, j \in 1 .. Len(q) : q[i] = q[j] => i = j

(* A list holds objects of the set S, each once, and all if it is full.    *)
Lists(q, S, full) ==
  /\ NoRepeats(q)
  /\ Elements(q) \subseteq S
  /\ full => S \subseteq Elements(q)

ScanLists ==
  /\ Apart(stack, deferred)
  /\ \A o \in Held(stack, deferred) : o <= scanner
  /\ Lists(WeakPointers, Visited("list"), ~overflow)
  /\ Lists(WeakReferences, Visited("reference"), ~overflow)

MarkedOf(t) == {o \in marked : type[o] = t}
Settled(o) == Elements(weak[o]) \subseteq marked \cup {NULL}

(* After the scans: what is in no list any more is settled.                *)
LaterLists ==
  /\ Lists(WeakPointers, MarkedOf("list"), FALSE)
  /\ Lists(WeakReferences, MarkedOf("reference"), pc = "lists")
  /\ \A o \in marked : Settled(o) \/ o \in Elements(WeakPointers) \/ o \in Elements(WeakReferences)
  /\ pc # "lists" => WeakPointers = <<>>
  /\ pc = "done" => WeakReferences = <<>>

WeakTypes ==
  /\ weak \in [Heap -> Seq(Heap \cup {NULL})]
  /\ \A o \in Heap : type[o] = "strong" => weak[o] = <<>>
  /\ registered \subseteq Heap /\ finalized \in [Heap -> Nat]

WeakLists ==
  /\ pc = "roots" => WeakPointers = <<>> /\ WeakReferences = <<>>
  /\ pc = "scan" => ScanLists
  /\ pc \notin {"roots", "scan"} => LaterLists

(* The lists that the roots lead to.                                       *)
InUse(l) == l \in Reachable /\ type[l] = "list"

(* No object is in them twice: nobody has called registerCleanup with the  *)
(* same object again.                                                      *)
RegisteredOnce ==
  \A k, l \in Heap : InUse(k) /\ InUse(l) =>
    \A i \in DOMAIN weak[k], j \in DOMAIN weak[l] :
      weak[k][i] = weak[l][j] => (k = l /\ i = j) \/ weak[k][i] = NULL

(* They hold what is registered and not yet finalized.                     *)
Finalizers ==
  /\ \A o \in Heap : finalized[o] # 0 =>
        finalized[o] = 1 /\ o \notin marked /\ pc \notin {"roots", "scan"} /\ o \in registered
  /\ \A o \in registered : finalized[o] = 1 \/ \E l \in Heap : InUse(l) /\ o \in Elements(weak[l])
  /\ \A l \in Heap : InUse(l) =>
        \A o \in Elements(weak[l]) : o = NULL \/ (o \in registered /\ finalized[o] = 0)

WInv == WeakTypes /\ WeakLists /\ RegisteredOnce /\ Finalizers

-----------------------------------------------------------------------------
(* Where objects wait                                                      *)

(* The innermost call, and the others.                                     *)
LEMMA FirstAndRest ==
  ASSUME NEW S, NEW s \in Seq(S), s # <<>>
  PROVE  s = <<s[1]>> \o Tail(s) /\ s[1] \in S /\ Tail(s) \in Seq(S)
<1>1. /\ Tail(s) \in Seq(S) /\ Len(Tail(s)) = Len(s) - 1 /\ Len(s) \in Nat \ {0}
      /\ \A i \in 1 .. Len(s) - 1 : Tail(s)[i] = s[i + 1]
      BY PopTop
<1> DEFINE t == <<s[1]>> \o Tail(s)
<1>2. s[1] \in S
      BY <1>1
<1>3. t \in Seq(S) /\ Len(t) = Len(s) /\ \A i \in 1 .. Len(s) : t[i] = s[i]
      BY <1>1, <1>2, ReplaceTop
<1> HIDE DEF t
<1>4. s = t
      BY <1>3, SeqEqual
<1> QED
      BY <1>1, <1>2, <1>4 DEF t

LEMMA CallOnTop ==
  ASSUME NEW c \in CallRecord, NEW r \in Seq(CallRecord), NEW d \in Seq(Heap)
  PROVE  LET s == <<c>> \o r
         IN  /\ Held(s, d) = (Heap \cap {c.object, c.nextObject}) \cup Held(r, d)
             /\ Apart(s, d) <=> /\ Apart(r, d) /\ c.object # c.nextObject
                                /\ c.object \notin Held(r, d)
                                /\ c.nextObject = NULL \/ c.nextObject \notin Held(r, d)
<1> DEFINE s == <<c>> \o r
<1>1. /\ s \in Seq(CallRecord) /\ Len(s) = Len(r) + 1 /\ Len(r) \in Nat /\ s[1] = c
      /\ \A i \in 1 .. Len(r) : s[i + 1] = r[i]
      /\ Len(d) \in Nat
      OBVIOUS
<1>2. \A i \in 1 .. Len(s) : i = 1 \/ (i - 1 \in 1 .. Len(r) /\ s[i] = r[i - 1])
      BY <1>1
<1>3. 1 \in 1 .. Len(s) /\ \A i \in 1 .. Len(r) : i + 1 \in 1 .. Len(s) /\ i + 1 # 1
      BY <1>1
<1>4. c.object \in Heap /\ c.nextObject \in Heap \cup {NULL} /\ NULL \notin Heap
  <2>1. c.object \in Heap /\ c.nextObject \in Heap \cup {NULL}
        BY DEF CallRecord
  <2> QED
        BY <2>1, ConstantsType
<1>5. \A i \in 1 .. Len(r) : r[i].object \in Heap /\ r[i].nextObject \in Heap \cup {NULL}
  <2>1. \A i \in 1 .. Len(r) : r[i] \in CallRecord
        OBVIOUS
  <2> QED
        BY <2>1 DEF CallRecord
<1>6. \A i \in 1 .. Len(d) : d[i] \in Heap
      BY <1>1
<1> HIDE DEF s
<1>7. Held(s, d) = (Heap \cap {c.object, c.nextObject}) \cup Held(r, d)
  <2>1. ASSUME NEW o \in Held(s, d) PROVE o \in (Heap \cap {c.object, c.nextObject}) \cup Held(r, d)
        BY <1>1, <1>2 DEF Held
  <2>2. ASSUME NEW o \in Held(r, d) PROVE o \in Held(s, d)
        BY <1>1, <1>3 DEF Held
  <2>3. Heap \cap {c.object, c.nextObject} \subseteq Held(s, d)
        BY <1>1, <1>3 DEF Held
  <2> QED
        BY <2>1, <2>2, <2>3
<1>8. ASSUME Apart(s, d)
      PROVE  /\ Apart(r, d) /\ c.object # c.nextObject
             /\ c.object \notin Held(r, d)
             /\ c.nextObject = NULL \/ c.nextObject \notin Held(r, d)
  <2>1. Apart(r, d)
    <3>1. ASSUME NEW i \in 1 .. Len(r), NEW j \in 1 .. Len(r)
          PROVE  /\ r[i].object = r[j].object => i = j
                 /\ r[i].object # r[j].nextObject
                 /\ r[i].nextObject = r[j].nextObject => i = j \/ r[i].nextObject = NULL
      <4>1. /\ i + 1 \in 1 .. Len(s) /\ j + 1 \in 1 .. Len(s) /\ (i + 1 = j + 1 => i = j)
            /\ s[i + 1] = r[i] /\ s[j + 1] = r[j]
            BY <1>1, <1>3
      <4>2. /\ s[i + 1].object = s[j + 1].object => i + 1 = j + 1
            /\ s[i + 1].object # s[j + 1].nextObject
            /\ s[i + 1].nextObject = s[j + 1].nextObject
                  => i + 1 = j + 1 \/ s[i + 1].nextObject = NULL
            BY <1>8, <4>1 DEF Apart
      <4> QED
            BY <4>1, <4>2
    <3>2. ASSUME NEW i \in 1 .. Len(r), NEW j \in 1 .. Len(d)
          PROVE  r[i].object # d[j] /\ r[i].nextObject # d[j]
      <4>1. i + 1 \in 1 .. Len(s) /\ s[i + 1] = r[i]
            BY <1>1, <1>3
      <4> QED
            BY <1>8, <4>1 DEF Apart
    <3>3. \A i, j \in 1 .. Len(d) : d[i] = d[j] => i = j
          BY <1>8 DEF Apart
    <3> QED
          BY <3>1, <3>2, <3>3 DEF Apart
  <2>2. c.object # c.nextObject
        BY <1>1, <1>3, <1>8 DEF Apart
  <2>3. c.object \notin Held(r, d)
    <3>1. \A i \in 1 .. Len(r) : c.object # r[i].object /\ c.object # r[i].nextObject
          BY <1>1, <1>3, <1>8 DEF Apart
    <3>2. \A i \in 1 .. Len(d) : c.object # d[i]
          BY <1>1, <1>3, <1>8 DEF Apart
    <3> QED
          BY <3>1, <3>2 DEF Held
  <2>4. ASSUME c.nextObject # NULL PROVE c.nextObject \notin Held(r, d)
    <3>1. \A i \in 1 .. Len(r) : c.nextObject # r[i].object /\ c.nextObject # r[i].nextObject
          BY <1>1, <1>3, <1>8, <2>4 DEF Apart
    <3>2. \A i \in 1 .. Len(d) : c.nextObject # d[i]
          BY <1>1, <1>3, <1>8 DEF Apart
    <3> QED
          BY <3>1, <3>2 DEF Held
  <2> QED
        BY <2>1, <2>2, <2>3, <2>4
<1>9. ASSUME Apart(r, d), c.object # c.nextObject, c.object \notin Held(r, d),
             c.nextObject = NULL \/ c.nextObject \notin Held(r, d)
      PROVE  Apart(s, d)
  <2>1. /\ \A i \in 1 .. Len(r) : c.object # r[i].object /\ c.object # r[i].nextObject
        /\ \A i \in 1 .. Len(d) : c.object # d[i]
        BY <1>4, <1>9 DEF Held
  <2>2. /\ \A i \in 1 .. Len(r) : c.nextObject # r[i].object
        /\ \A i \in 1 .. Len(r) : c.nextObject = r[i].nextObject => c.nextObject = NULL
        /\ \A i \in 1 .. Len(d) : c.nextObject # d[i]
        BY <1>4, <1>5, <1>6, <1>9 DEF Held
  <2>3. ASSUME NEW i \in 1 .. Len(s), NEW j \in 1 .. Len(s)
        PROVE  /\ s[i].object = s[j].object => i = j
               /\ s[i].object # s[j].nextObject
               /\ s[i].nextObject = s[j].nextObject => i = j \/ s[i].nextObject = NULL
    <3>1. CASE i = 1 /\ j = 1
          BY <1>1, <1>9, <3>1
    <3>2. CASE i = 1 /\ j - 1 \in 1 .. Len(r) /\ s[j] = r[j - 1]
          BY <1>1, <2>1, <2>2, <3>2
    <3>3. CASE j = 1 /\ i - 1 \in 1 .. Len(r) /\ s[i] = r[i - 1]
          BY <1>1, <2>1, <2>2, <3>3
    <3>4. CASE /\ i - 1 \in 1 .. Len(r) /\ s[i] = r[i - 1]
               /\ j - 1 \in 1 .. Len(r) /\ s[j] = r[j - 1]
      <4>1. /\ r[i - 1].object = r[j - 1].object => i - 1 = j - 1
            /\ r[i - 1].object # r[j - 1].nextObject
            /\ r[i - 1].nextObject = r[j - 1].nextObject
                  => i - 1 = j - 1 \/ r[i - 1].nextObject = NULL
            BY <1>9, <3>4 DEF Apart
      <4>2. i - 1 = j - 1 => i = j
            BY <1>1
      <4> QED
            BY <3>4, <4>1, <4>2
    <3> QED
          BY <1>2, <3>1, <3>2, <3>3, <3>4
  <2>4. ASSUME NEW i \in 1 .. Len(s), NEW j \in 1 .. Len(d)
        PROVE  s[i].object # d[j] /\ s[i].nextObject # d[j]
    <3>1. CASE i = 1
          BY <1>1, <2>1, <2>2, <3>1
    <3>2. CASE i - 1 \in 1 .. Len(r) /\ s[i] = r[i - 1]
          BY <1>9, <3>2 DEF Apart
    <3> QED
          BY <1>2, <3>1, <3>2
  <2>5. \A i, j \in 1 .. Len(d) : d[i] = d[j] => i = j
        BY <1>9 DEF Apart
  <2> QED
        BY <2>3, <2>4, <2>5 DEF Apart
<1> QED
      BY <1>7, <1>8, <1>9 DEF s

LEMMA DeferLast ==
  ASSUME NEW s \in Seq(CallRecord), NEW d \in Seq(Heap), NEW o \in Heap
  PROVE  LET e == Append(d, o)
         IN  /\ Held(s, e) = Held(s, d) \cup {o}
             /\ Apart(s, d) /\ o \notin Held(s, d) => Apart(s, e)
<1> DEFINE e == Append(d, o)
<1>1. /\ Len(e) = Len(d) + 1 /\ Len(d) \in Nat /\ Len(s) \in Nat /\ e[Len(e)] = o
      /\ \A i \in 1 .. Len(d) : e[i] = d[i]
      OBVIOUS
<1> HIDE DEF e
<1>2. /\ \A i \in 1 .. Len(e) : i = Len(e) \/ (i \in 1 .. Len(d) /\ e[i] = d[i])
      /\ \A i \in 1 .. Len(d) : i \in 1 .. Len(e)
      /\ Len(e) \in 1 .. Len(e)
      BY <1>1
<1>3. Held(s, e) = Held(s, d) \cup {o}
      BY <1>1, <1>2 DEF Held
<1>4. ASSUME Apart(s, d), o \notin Held(s, d) PROVE Apart(s, e)
  <2>1. /\ \A i \in 1 .. Len(s) : o # s[i].object /\ o # s[i].nextObject
        /\ \A i \in 1 .. Len(d) : o # d[i]
        BY <1>4 DEF Held
  <2>2. \A i, j \in 1 .. Len(e) : e[i] = e[j] => i = j
        BY <1>1, <1>2, <1>4, <2>1 DEF Apart
  <2>3. \A i \in 1 .. Len(s), j \in 1 .. Len(e) : s[i].object # e[j] /\ s[i].nextObject # e[j]
        BY <1>1, <1>2, <1>4, <2>1 DEF Apart
  <2> QED
        BY <1>4, <2>2, <2>3 DEF Apart
<1> QED
      BY <1>3, <1>4 DEF e

LEMMA DeferredFirst ==
  ASSUME NEW s \in Seq(CallRecord), NEW d \in Seq(Heap), d # <<>>
  PROVE  /\ Held(s, d) = {Head(d)} \cup Held(s, Tail(d))
         /\ Head(d) \in Heap /\ Tail(d) \in Seq(Heap)
         /\ Apart(s, d) => Apart(s, Tail(d)) /\ Head(d) \notin Held(s, Tail(d))
<1> DEFINE e == Tail(d)
<1>1. /\ e \in Seq(Heap) /\ Len(e) = Len(d) - 1 /\ Len(d) \in Nat \ {0} /\ Len(s) \in Nat
      /\ Head(d) = d[1] /\ d[1] \in Heap
      /\ \A i \in 1 .. Len(d) - 1 : e[i] = d[i + 1]
      BY PopTop
<1> HIDE DEF e
<1>2. /\ \A i \in 1 .. Len(d) : i = 1 \/ (i - 1 \in 1 .. Len(e) /\ d[i] = e[i - 1])
      /\ \A i \in 1 .. Len(e) : i + 1 \in 1 .. Len(d) /\ e[i] = d[i + 1] /\ i + 1 # 1
      /\ 1 \in 1 .. Len(d)
      BY <1>1
<1>3. Held(s, d) = {Head(d)} \cup Held(s, e)
  <2>1. ASSUME NEW o \in Held(s, d) PROVE o \in {Head(d)} \cup Held(s, e)
        BY <1>1, <1>2 DEF Held
  <2>2. ASSUME NEW o \in Held(s, e) PROVE o \in Held(s, d)
        BY <1>1, <1>2 DEF Held
  <2>3. Head(d) \in Held(s, d)
        BY <1>1, <1>2 DEF Held
  <2> QED
        BY <2>1, <2>2, <2>3
<1>4. ASSUME Apart(s, d) PROVE Apart(s, e) /\ Head(d) \notin Held(s, e)
  <2>1. \A i, j \in 1 .. Len(e) : i + 1 = j + 1 => i = j
        BY <1>1
  <2>2. Apart(s, e)
        BY <1>2, <1>4, <2>1 DEF Apart
  <2>3. Head(d) \notin Held(s, e)
        BY <1>1, <1>2, <1>4 DEF Held, Apart
  <2> QED
        BY <2>2, <2>3
<1> QED
      BY <1>1, <1>3, <1>4 DEF e

LEMMA NothingHeld ==
  /\ Held(<<>>, <<>>) = {}
  /\ Apart(<<>>, <<>>)
BY DEF Held, Apart
-----------------------------------------------------------------------------
(* The lists of weak objects during a scan                                 *)

LEMMA ListPush ==
  ASSUME NEW q \in Seq(Heap), NEW S, NEW full \in BOOLEAN, Lists(q, S, full), NEW o \in Heap,
         o \notin S
  PROVE  Lists(<<o>> \o q, S \cup {o}, full)
<1> DEFINE r == <<o>> \o q
<1>1. /\ r \in Seq(Heap) /\ Len(r) = Len(q) + 1 /\ Len(q) \in Nat /\ r[1] = o
      /\ DOMAIN r = 1 .. Len(r) /\ DOMAIN q = 1 .. Len(q)
      /\ \A i \in 1 .. Len(q) : r[i + 1] = q[i]
      OBVIOUS
<1> HIDE DEF r
<1>2. /\ \A i \in 1 .. Len(r) : i = 1 \/ (i - 1 \in 1 .. Len(q) /\ r[i] = q[i - 1])
      /\ \A i \in 1 .. Len(q) : i + 1 \in 1 .. Len(r) /\ r[i + 1] = q[i]
      /\ 1 \in 1 .. Len(r)
      BY <1>1
<1>3. Elements(r) = Elements(q) \cup {o}
  <2>1. ASSUME NEW x \in Elements(r) PROVE x \in Elements(q) \cup {o}
    <3>1. PICK i \in 1 .. Len(r) : x = r[i]
          BY <1>1 DEF Elements
    <3> QED
          BY <1>1, <1>2, <3>1 DEF Elements
  <2>2. ASSUME NEW x \in Elements(q) PROVE x \in Elements(r)
        BY <1>1, <1>2 DEF Elements
  <2>3. o \in Elements(r)
        BY <1>1, <1>2 DEF Elements
  <2> QED
        BY <2>1, <2>2, <2>3
<1>4. ASSUME NEW i \in 1 .. Len(q) PROVE q[i] # o
      BY <1>1 DEF Lists, Elements
<1>5. ASSUME NEW i \in 1 .. Len(r), NEW j \in 1 .. Len(r), r[i] = r[j] PROVE i = j
  <2>1. CASE i = 1 \/ j = 1
        BY <1>1, <1>2, <1>4, <1>5, <2>1
  <2>2. CASE /\ i - 1 \in 1 .. Len(q) /\ r[i] = q[i - 1]
             /\ j - 1 \in 1 .. Len(q) /\ r[j] = q[j - 1]
    <3>1. i - 1 = j - 1
          BY <1>5, <2>2 DEF Lists, NoRepeats
    <3> QED
          BY <1>1, <3>1
  <2> QED
        BY <1>2, <2>1, <2>2
<1>6. NoRepeats(r)
      BY <1>5 DEF NoRepeats
<1>7. Elements(r) \subseteq S \cup {o} /\ (full => S \cup {o} \subseteq Elements(r))
      BY <1>3 DEF Lists
<1>8. Lists(r, S \cup {o}, full)
      BY <1>6, <1>7 DEF Lists
<1> QED
      BY <1>8 DEF r

LEMMA ListPop ==
  ASSUME NEW q \in Seq(Heap), q # <<>>, NoRepeats(q)
  PROVE  /\ NoRepeats(Tail(q)) /\ Tail(q) \in Seq(Heap) /\ Head(q) \in Heap
         /\ Elements(q) = {Head(q)} \cup Elements(Tail(q))
         /\ Head(q) \notin Elements(Tail(q))
<1> DEFINE e == Tail(q)
<1>1. /\ e \in Seq(Heap) /\ Len(e) = Len(q) - 1 /\ Len(q) \in Nat \ {0}
      /\ Head(q) = q[1] /\ q[1] \in Heap
      /\ \A i \in 1 .. Len(q) - 1 : e[i] = q[i + 1]
      /\ DOMAIN e = 1 .. Len(e) /\ DOMAIN q = 1 .. Len(q)
      BY PopTop
<1> HIDE DEF e
<1>2. /\ \A i \in 1 .. Len(q) : i = 1 \/ (i - 1 \in 1 .. Len(e) /\ q[i] = e[i - 1])
      /\ \A i \in 1 .. Len(e) : i + 1 \in 1 .. Len(q) /\ e[i] = q[i + 1] /\ i + 1 # 1
      /\ 1 \in 1 .. Len(q)
      BY <1>1
<1>3. Elements(q) = {Head(q)} \cup Elements(e)
  <2>1. ASSUME NEW x \in Elements(q) PROVE x \in {Head(q)} \cup Elements(e)
    <3>1. PICK i \in 1 .. Len(q) : x = q[i]
          BY <1>1 DEF Elements
    <3> QED
          BY <1>1, <1>2, <3>1 DEF Elements
  <2>2. ASSUME NEW x \in Elements(e) PROVE x \in Elements(q)
        BY <1>1, <1>2, SMTT(60) DEF Elements
  <2>3. Head(q) \in Elements(q)
        BY <1>1, <1>2 DEF Elements
  <2> QED
        BY <2>1, <2>2, <2>3
<1>4. ASSUME NEW i \in 1 .. Len(e), NEW j \in 1 .. Len(e), e[i] = e[j] PROVE i = j
  <2>1. i + 1 = j + 1
        BY <1>2, <1>4 DEF NoRepeats
  <2> QED
        BY <1>1, <2>1
<1>5. Head(q) \notin Elements(e)
  <2>1. \A i \in 1 .. Len(e) : e[i] # q[1]
        BY <1>2 DEF NoRepeats
  <2> QED
        BY <1>1, <2>1 DEF Elements
<1> QED
      BY <1>1, <1>3, <1>4, <1>5 DEF e, NoRepeats

LEMMA EmptyList ==
  ASSUME NEW S, NEW full, full => S = {}
  PROVE  Lists(<<>>, S, full)
BY DEF Lists, NoRepeats, Elements

(* A scan begins.                                                          *)
LEMMA ScanListsBegin ==
  ASSUME MInv', scanner' = 1, stack' = <<>>, deferred' = <<>>,
         WeakPointers' = <<>>, WeakReferences' = <<>>
  PROVE  ScanLists'
<1>1. /\ Held(stack', deferred') = {} /\ Apart(stack', deferred')
      BY NothingHeld
<1>2. ASSUME NEW t PROVE Visited(t)' = {}
  <2>1. marked' \subseteq 1 .. HeapLen
        BY DEF MInv, Types, Heap
  <2>2. \A o \in marked' : ~(o < scanner')
        BY <2>1
  <2> QED
        BY <2>2 DEF Visited, Past
<1>3. Lists(WeakPointers', Visited("list")', ~overflow')
      BY <1>2, EmptyList
<1>4. Lists(WeakReferences', Visited("reference")', ~overflow')
      BY <1>2, EmptyList
<1> QED
      BY <1>1, <1>3, <1>4 DEF ScanLists

(* A child is marked: when the scanner has passed it, it waits, and unless *)
(* the table overflows so does what waited before.                         *)
LEMMA ScanListsMark ==
  ASSUME MInv, ScanLists, stack # <<>>, stack' # <<>>,
         UNCHANGED <<heapVars, scanner, WeakPointers, WeakReferences>>,
         NEW child \in Heap, marked' = marked \cup {child},
         Apart(stack', deferred'),
         Held(stack', deferred') \subseteq Held(stack, deferred) \cup ({child} \ marked),
         child \in marked \/ child > scanner \/ (child < scanner /\ child \in Held(stack', deferred')),
         child > scanner => child \notin Held(stack', deferred') \/ child \in marked,
         overflow \in BOOLEAN, overflow' \in BOOLEAN, overflow => overflow',
         overflow' \/ Held(stack, deferred) \subseteq Held(stack', deferred')
  PROVE  ScanLists'
<1>1. scanner \in Heap /\ scanner \in Int /\ child \in Int
  <2>1. scanner \in Heap
        BY TopFacts
  <2> QED
        BY <2>1 DEF Heap
<1>2. \A o : Past(o)' = Past(o)
      BY DEF Past
<1>3. type' = type
      BY DEF heapVars
<1>4. \A o \in Held(stack', deferred') : o <= scanner'
  <2>1. \A o \in Held(stack, deferred) : o <= scanner
        BY DEF ScanLists
  <2> QED
        BY <1>1, <2>1
<1>5. ASSUME NEW t PROVE Visited(t) \subseteq Visited(t)' /\ (~overflow' => Visited(t)' = Visited(t))
  <2>1. Visited(t) \subseteq Visited(t)'
        BY <1>2, <1>3 DEF Visited
  <2>2. ASSUME ~overflow', NEW o \in Visited(t)' PROVE o \in Visited(t)
    <3>1. o \in marked' /\ type[o] = t /\ Past(o) /\ o \notin Held(stack', deferred')
          BY <1>2, <1>3, <2>2 DEF Visited
    <3>2. o \notin Held(stack, deferred)
          BY <2>2, <3>1
    <3>3. o \in marked
          BY <1>1, <3>1 DEF Past
    <3> QED
          BY <3>1, <3>2, <3>3 DEF Visited
  <2> QED
        BY <2>1, <2>2
<1>6. ASSUME NEW q, NEW t, Lists(q, Visited(t), ~overflow) PROVE Lists(q, Visited(t)', ~overflow')
  <2>1. Visited(t) \subseteq Visited(t)' /\ (~overflow' => Visited(t)' = Visited(t))
        BY <1>5
  <2> QED
        BY <1>6, <2>1 DEF Lists
<1>7. Lists(WeakPointers', Visited("list")', ~overflow')
  <2>1. Lists(WeakPointers, Visited("list"), ~overflow)
        BY DEF ScanLists
  <2> QED
        BY <1>6, <2>1
<1>8. Lists(WeakReferences', Visited("reference")', ~overflow')
  <2>1. Lists(WeakReferences, Visited("reference"), ~overflow)
        BY DEF ScanLists
  <2> QED
        BY <1>6, <2>1
<1> QED
      BY <1>4, <1>7, <1>8 DEF ScanLists

(* The visit of an object ends, and it waits no more.                      *)
LEMMA ScanListsPush ==
  ASSUME MInv, ScanLists, stack # <<>>, NEW o, o = top.object, PushWeak(o),
         UNCHANGED <<heapVars, marked, overflow>>,
         Apart(stack', deferred'),
         o \in Held(stack, deferred),
         Held(stack', deferred') = Held(stack, deferred) \ {o},
         \/ scanner' = scanner /\ stack' # <<>>
         \/ scanner' = scanner + 1 /\ stack' = <<>>
  PROVE  ScanLists'
<1>1. scanner \in Heap /\ o \in marked /\ o \in Heap /\ scanner \in marked /\ marked \subseteq Heap
      BY TopFacts
<1>2. scanner \in Int /\ \A q \in Heap : q \in Int
      BY <1>1 DEF Heap
<1>3. \A q \in Heap : Past(q)' = Past(q)
      BY <1>2 DEF Past
<1>4. type' = type
      BY DEF heapVars
<1>5. \A q \in Held(stack, deferred) : q <= scanner
      BY DEF ScanLists
<1>6. \A q \in Held(stack', deferred') : q <= scanner'
      BY <1>2, <1>5 DEF Held
<1>7. Past(o)
  <2>1. o <= scanner /\ o \in Int
        BY <1>1, <1>2, <1>5
  <2> QED
        BY <1>2, <2>1 DEF Past
<1>8. ASSUME NEW t
      PROVE  /\ o \notin Visited(t)
             /\ Visited(t)' = IF type[o] = t THEN Visited(t) \cup {o} ELSE Visited(t)
  <2>1. o \notin Visited(t)
        BY DEF Visited
  <2>2. ASSUME NEW q \in Visited(t)' PROVE q \in Visited(t) \/ (q = o /\ type[o] = t)
        BY <1>1, <1>3, <1>4 DEF Visited
  <2>3. ASSUME NEW q \in Visited(t) PROVE q \in Visited(t)'
        BY <1>1, <1>3, <1>4 DEF Visited
  <2>4. type[o] = t => o \in Visited(t)'
        BY <1>1, <1>3, <1>4, <1>7 DEF Visited
  <2> QED
        BY <2>1, <2>2, <2>3, <2>4
<1>9. /\ WeakPointers \in Seq(Heap) /\ WeakReferences \in Seq(Heap)
      /\ (~overflow) \in BOOLEAN
      BY DEF MInv, Types
<1>10. Lists(WeakPointers', Visited("list")', ~overflow')
  <2>1. Lists(WeakPointers, Visited("list"), ~overflow)
        BY DEF ScanLists
  <2>2. CASE type[o] = "list"
    <3>1. WeakPointers' = <<o>> \o WeakPointers
          BY <2>2 DEF PushWeak
    <3>2. Visited("list")' = Visited("list") \cup {o} /\ o \notin Visited("list")
          BY <1>8, <2>2
    <3>3. Lists(<<o>> \o WeakPointers, Visited("list") \cup {o}, ~overflow)
          BY <1>1, <1>9, <2>1, <3>2, ListPush
    <3> QED
          BY <3>1, <3>2, <3>3
  <2>3. CASE type[o] # "list"
    <3>1. WeakPointers' = WeakPointers
          BY <2>3 DEF PushWeak
    <3>2. Visited("list")' = Visited("list")
          BY <1>8, <2>3
    <3> QED
          BY <2>1, <3>1, <3>2
  <2> QED
        BY <2>2, <2>3
<1>11. Lists(WeakReferences', Visited("reference")', ~overflow')
  <2>1. Lists(WeakReferences, Visited("reference"), ~overflow)
        BY DEF ScanLists
  <2>2. CASE type[o] = "reference"
    <3>1. WeakReferences' = <<o>> \o WeakReferences
          BY <2>2 DEF PushWeak
    <3>2. Visited("reference")' = Visited("reference") \cup {o} /\ o \notin Visited("reference")
          BY <1>8, <2>2
    <3>3. Lists(<<o>> \o WeakReferences, Visited("reference") \cup {o}, ~overflow)
          BY <1>1, <1>9, <2>1, <3>2, ListPush
    <3> QED
          BY <3>1, <3>2, <3>3
  <2>3. CASE type[o] # "reference"
    <3>1. WeakReferences' = WeakReferences
          BY <2>3 DEF PushWeak
    <3>2. Visited("reference")' = Visited("reference")
          BY <1>8, <2>3
    <3> QED
          BY <2>1, <3>1, <3>2
  <2> QED
        BY <2>2, <2>3
<1> QED
      BY <1>6, <1>10, <1>11 DEF ScanLists

LEMMA ScanListsScan == MInv /\ MInv' /\ ScanLists /\ ScanObject => ScanLists'
<1> SUFFICES ASSUME MInv, MInv', ScanLists, ScanObject PROVE ScanLists'
    OBVIOUS
<1>1. /\ UNCHANGED <<heapVars, marked, deferred, overflow, WeakPointers, WeakReferences>>
      /\ stack = <<>> /\ deferred = <<>> /\ scanner \in Heap /\ scanner \in Int
      BY ConstantsType DEF ScanObject, MInv, Phases, Types, Heap
<1>2. type' = type /\ \A q \in marked : q \in Heap /\ q \in Int
      BY <1>1 DEF heapVars, MInv, Types, Heap
<1>3. Held(stack, deferred) = {}
      BY <1>1, NothingHeld
<1>4. ASSUME /\ Apart(stack', deferred')
             /\ \A o \in Held(stack', deferred') : o <= scanner'
             /\ \A t : Visited(t)' = Visited(t)
      PROVE  ScanLists'
  <2>1. Lists(WeakPointers, Visited("list"), ~overflow)
        BY DEF ScanLists
  <2>2. Lists(WeakReferences, Visited("reference"), ~overflow)
        BY DEF ScanLists
  <2>3. Lists(WeakPointers', Visited("list")', ~overflow')
        BY <1>1, <1>4, <2>1
  <2>4. Lists(WeakReferences', Visited("reference")', ~overflow')
        BY <1>1, <1>4, <2>2
  <2> QED
        BY <1>4, <2>3, <2>4 DEF ScanLists
<1>5. CASE scanner \in marked
  <2> DEFINE c == Call(scanner, MAX_GC_DEPTH)
  <2>1. /\ c \in CallRecord /\ c.object = scanner /\ c.nextObject = NULL
        BY <1>1, ConstantsType DEF Call, CallRecord
  <2>2. scanner' = scanner /\ stack' = <<c>>
        BY <1>5 DEF ScanObject
  <2> HIDE DEF c
  <2>3. stack' = <<c>> \o <<>> /\ deferred' = <<>>
        BY <1>1, <2>2
  <2>4. <<>> \in Seq(CallRecord) /\ <<>> \in Seq(Heap)
        OBVIOUS
  <2>5. NULL \notin Heap /\ scanner # NULL
        BY <1>1, ConstantsType
  <2>6. /\ Held(<<c>> \o <<>>, <<>>) = (Heap \cap {c.object, c.nextObject}) \cup Held(<<>>, <<>>)
        /\ Apart(<<c>> \o <<>>, <<>>) <=>
             /\ Apart(<<>>, <<>>) /\ c.object # c.nextObject
             /\ c.object \notin Held(<<>>, <<>>)
             /\ c.nextObject = NULL \/ c.nextObject \notin Held(<<>>, <<>>)
        BY <2>1, <2>4, CallOnTop
  <2>7. Held(stack', deferred') = {scanner} /\ Apart(stack', deferred')
        BY <1>1, <2>1, <2>3, <2>5, <2>6, NothingHeld
  <2>8. stack' # <<>>
        BY <2>2
  <2>9. ASSUME NEW t PROVE Visited(t)' = Visited(t)
    <3>1. \A q \in marked : Past(q)' /\ q # scanner <=> Past(q)
          BY <1>1, <1>2, <2>2, <2>8 DEF Past
    <3> QED
          BY <1>1, <1>2, <1>3, <2>7, <3>1 DEF Visited
  <2>10. \A o \in Held(stack', deferred') : o <= scanner'
        BY <1>1, <2>2, <2>7
  <2> QED
        BY <1>4, <2>7, <2>9, <2>10
<1>6. CASE scanner \notin marked
  <2>1. scanner' = scanner + 1 /\ stack' = <<>> /\ deferred' = <<>>
        BY <1>1, <1>6 DEF ScanObject
  <2>2. Held(stack', deferred') = {} /\ Apart(stack', deferred')
        BY <2>1, NothingHeld
  <2>3. ASSUME NEW t PROVE Visited(t)' = Visited(t)
    <3>1. \A q \in marked : Past(q)' <=> Past(q)
          BY <1>1, <1>2, <1>6, <2>1 DEF Past
    <3> QED
          BY <1>1, <1>2, <1>3, <2>2, <3>1 DEF Visited
  <2> QED
        BY <1>4, <2>2, <2>3
<1> QED
      BY <1>5, <1>6

(* What the innermost call and the others hold.                            *)
LEMMA TopHeld ==
  ASSUME MInv, ScanLists, stack # <<>>
  PROVE  /\ Tail(stack) \in Seq(CallRecord) /\ top \in CallRecord /\ deferred \in Seq(Heap)
         /\ top.object \in Heap /\ top.object # NULL /\ top.nextObject \in Heap \cup {NULL}
         /\ Apart(Tail(stack), deferred)
         /\ Held(stack, deferred)
              = (Heap \cap {top.object, top.nextObject}) \cup Held(Tail(stack), deferred)
         /\ top.object # top.nextObject
         /\ top.object \notin Held(Tail(stack), deferred)
         /\ top.nextObject = NULL \/ top.nextObject \notin Held(Tail(stack), deferred)
<1>1. stack \in Seq(CallRecord) /\ deferred \in Seq(Heap)
      BY DEF MInv, Types
<1>2. stack = <<top>> \o Tail(stack) /\ top \in CallRecord /\ Tail(stack) \in Seq(CallRecord)
      BY <1>1, FirstAndRest DEF top
<1>3. Apart(stack, deferred)
      BY DEF ScanLists
<1>4. PICK r \in Seq(CallRecord), c \in CallRecord : r = Tail(stack) /\ c = top
      BY <1>2
<1>5. /\ Held(<<c>> \o r, deferred) = (Heap \cap {c.object, c.nextObject}) \cup Held(r, deferred)
      /\ Apart(<<c>> \o r, deferred) <=>
             /\ Apart(r, deferred) /\ c.object # c.nextObject
             /\ c.object \notin Held(r, deferred)
             /\ c.nextObject = NULL \/ c.nextObject \notin Held(r, deferred)
      BY <1>1, CallOnTop
<1>6. stack = <<c>> \o r
      BY <1>2, <1>4
<1>7. top.object \in Heap /\ top.nextObject \in Heap \cup {NULL}
      BY <1>2 DEF CallRecord
<1>8. top.object # NULL
      BY <1>7, ConstantsType
<1> QED
      BY <1>1, <1>2, <1>3, <1>4, <1>5, <1>6, <1>7, <1>8

LEMMA ScanListsFinish == MInv /\ ScanLists /\ FinishObject => ScanLists'
<1> SUFFICES ASSUME MInv, ScanLists, FinishObject PROVE ScanLists'
    OBVIOUS
<1>1. /\ stack # <<>> /\ PushWeak(top.object)
      /\ UNCHANGED <<heapVars, marked, overflow>>
      BY DEF FinishObject
<1>2. PICK r, d, obj, next :
        r = Tail(stack) /\ d = deferred /\ obj = top.object /\ next = top.nextObject
      OBVIOUS
<1>3. /\ r \in Seq(CallRecord) /\ top \in CallRecord /\ d \in Seq(Heap)
      /\ obj \in Heap /\ obj # NULL /\ next \in Heap \cup {NULL}
      /\ Apart(r, d)
      /\ Held(stack, deferred) = (Heap \cap {obj, next}) \cup Held(r, d)
      /\ obj # next /\ obj \notin Held(r, d)
      /\ next = NULL \/ next \notin Held(r, d)
      BY <1>1, <1>2, TopHeld
<1>4. NULL \notin Heap
      BY ConstantsType
<1>5. obj \in Held(stack, deferred)
      BY <1>3
<1>6. ASSUME /\ Apart(stack', deferred')
             /\ Held(stack', deferred') = Held(stack, deferred) \ {obj}
             /\ \/ scanner' = scanner /\ stack' # <<>>
                \/ scanner' = scanner + 1 /\ stack' = <<>>
      PROVE  ScanLists'
  <2>1. PushWeak(obj)
        BY <1>1, <1>2
  <2> QED
        BY <1>1, <1>2, <1>5, <1>6, <2>1, ScanListsPush
<1>7. ASSUME NEW o \in Heap, NEW e \in Seq(Heap), Apart(r, e), o \notin Held(r, e),
             stack' = <<Goto(top, o)>> \o r, deferred' = e, scanner' = scanner,
             Held(stack, deferred) \ {obj} = {o} \cup Held(r, e)
      PROVE  ScanLists'
  <2> DEFINE c == Goto(top, o)
  <2>1. c \in CallRecord /\ c.object = o /\ c.nextObject = NULL
        BY <1>3, <1>7, GotoType
  <2>2. stack' = <<c>> \o r
        BY <1>7
  <2> HIDE DEF c
  <2>3. /\ Held(<<c>> \o r, e) = (Heap \cap {c.object, c.nextObject}) \cup Held(r, e)
        /\ Apart(<<c>> \o r, e) <=>
             /\ Apart(r, e) /\ c.object # c.nextObject
             /\ c.object \notin Held(r, e)
             /\ c.nextObject = NULL \/ c.nextObject \notin Held(r, e)
        BY <1>3, <1>7, <2>1, CallOnTop
  <2>4. Apart(stack', deferred') /\ Held(stack', deferred') = {o} \cup Held(r, e)
        BY <1>4, <1>7, <2>1, <2>2, <2>3
  <2>5. stack' # <<>>
        BY <1>3, <2>1, <2>2
  <2> QED
        BY <1>6, <1>7, <2>4, <2>5
<1>8. CASE /\ top.nextObject # NULL
           /\ stack' = <<Goto(top, top.nextObject)>> \o Tail(stack)
           /\ UNCHANGED <<scanner, deferred>>
  <2>1. /\ next \in Heap /\ stack' = <<Goto(top, next)>> \o r /\ deferred' = d /\ scanner' = scanner
        /\ next \notin Held(r, d)
        BY <1>2, <1>3, <1>8
  <2>2. Held(stack, deferred) \ {obj} = {next} \cup Held(r, d)
        BY <1>3, <2>1
  <2> QED
        BY <1>3, <1>7, <2>1, <2>2
<1>9. CASE /\ top.nextObject = NULL /\ Outermost /\ deferred # <<>>
           /\ stack' = <<Goto(top, Head(deferred))>> \o Tail(stack)
           /\ deferred' = Tail(deferred)
           /\ UNCHANGED scanner
  <2>1. PICK o, e : o = Head(d) /\ e = Tail(d)
        OBVIOUS
  <2>2. /\ Held(r, d) = {o} \cup Held(r, e)
        /\ o \in Heap /\ e \in Seq(Heap)
        /\ Apart(r, e) /\ o \notin Held(r, e)
        BY <1>2, <1>3, <1>9, <2>1, DeferredFirst
  <2>3. /\ stack' = <<Goto(top, o)>> \o r /\ deferred' = e /\ scanner' = scanner
        /\ next = NULL
        BY <1>2, <1>9, <2>1
  <2>4. Held(stack, deferred) \ {obj} = {o} \cup Held(r, e)
        BY <1>3, <1>4, <2>2, <2>3
  <2> QED
        BY <1>7, <2>2, <2>3, <2>4
<1>10. CASE /\ top.nextObject = NULL /\ ~(Outermost /\ deferred # <<>>)
            /\ stack' = Tail(stack)
            /\ scanner' = IF Len(stack) = 1 THEN scanner + 1 ELSE scanner
            /\ UNCHANGED deferred
  <2>1. stack' = r /\ deferred' = d /\ next = NULL
        BY <1>2, <1>10
  <2>2. Apart(stack', deferred') /\ Held(stack', deferred') = Held(stack, deferred) \ {obj}
        BY <1>3, <1>4, <2>1
  <2>3. stack \in Seq(CallRecord) /\ Len(stack) \in Nat \ {0}
        BY <1>1, TopFacts
  <2>4. Len(stack') = Len(stack) - 1 /\ stack' \in Seq(CallRecord)
        BY <1>1, <1>10, <2>3, PopTop
  <2>5. Len(stack) = 1 <=> stack' = <<>>
        BY <2>3, <2>4
  <2> QED
        BY <1>6, <1>10, <2>2, <2>5
<1> QED
      BY <1>8, <1>9, <1>10 DEF FinishObject

LEMMA ScanListsMarkChild == MInv /\ ScanLists /\ MarkChild => ScanLists'
<1> SUFFICES ASSUME MInv, ScanLists, MarkChild PROVE ScanLists'
    OBVIOUS
<1>0. PICK child, next, obj, r, d :
        /\ child = Children(top.object)[top.field] /\ next = top.nextObject
        /\ obj = top.object /\ r = Tail(stack) /\ d = deferred
      OBVIOUS
<1> DEFINE later == [top EXCEPT !.field = @ + 1]
           waiting == [later EXCEPT !.nextObject = child]
<1>1. /\ stack # <<>> /\ top.field <= Len(Children(top.object)) /\ marked' = marked \cup {child}
      /\ UNCHANGED <<heapVars, scanner, WeakPointers, WeakReferences>>
      BY <1>0 DEF MarkChild
<1>2. /\ top \in CallRecord /\ top.field \in Nat \ {0} /\ Children(top.object) \in Seq(Heap)
      /\ marked \subseteq Heap /\ scanner \in marked /\ scanner \in Heap /\ top.depth \in Int
      BY <1>1, TopFacts
<1>3. child \in Heap
  <2>1. top.field \in 1 .. Len(Children(top.object))
        BY <1>1, <1>2
  <2> QED
        BY <1>0, <1>2, <2>1
<1>4. scanner \in Int /\ child \in Int
      BY <1>2, <1>3 DEF Heap
<1>5. /\ r \in Seq(CallRecord) /\ d \in Seq(Heap)
      /\ obj \in Heap /\ obj # NULL /\ next \in Heap \cup {NULL}
      /\ Apart(r, d)
      /\ Held(stack, deferred) = (Heap \cap {obj, next}) \cup Held(r, d)
      /\ obj # next /\ obj \notin Held(r, d)
      /\ next = NULL \/ next \notin Held(r, d)
      BY <1>0, <1>1, TopHeld
<1>6. NULL \notin Heap /\ overflow \in BOOLEAN
      BY ConstantsType DEF MInv, Types
<1>7. Held(stack, deferred) \subseteq marked
      BY <1>6 DEF Held, MInv, WaitingMarked
<1>8. later \in CallRecord /\ later.object = obj /\ later.nextObject = next
      BY <1>0, <1>2, NextField
<1> HIDE DEF later
<1>9. waiting \in CallRecord /\ waiting.object = obj /\ waiting.nextObject = child
      BY <1>3, <1>8, WithNextObject
<1> HIDE DEF waiting
<1>10. ASSUME NEW c \in CallRecord, NEW e \in Seq(Heap), stack' = <<c>> \o r, deferred' = e
       PROVE  /\ Held(stack', deferred') = (Heap \cap {c.object, c.nextObject}) \cup Held(r, e)
              /\ Apart(stack', deferred') <=>
                   /\ Apart(r, e) /\ c.object # c.nextObject
                   /\ c.object \notin Held(r, e)
                   /\ c.nextObject = NULL \/ c.nextObject \notin Held(r, e)
              /\ stack' # <<>>
  <2>1. /\ Held(<<c>> \o r, e) = (Heap \cap {c.object, c.nextObject}) \cup Held(r, e)
        /\ Apart(<<c>> \o r, e) <=>
             /\ Apart(r, e) /\ c.object # c.nextObject
             /\ c.object \notin Held(r, e)
             /\ c.nextObject = NULL \/ c.nextObject \notin Held(r, e)
        BY <1>5, <1>10, CallOnTop
  <2>2. <<c>> \o r # <<>>
        BY <1>5
  <2> QED
        BY <1>10, <2>1, <2>2
<1>11. CASE /\ child \in marked \/ ~Passed(child)
            /\ stack' = <<later>> \o Tail(stack)
            /\ UNCHANGED <<deferred, overflow>>
  <2>1. child \in marked \/ child > scanner
        BY <1>2, <1>4, <1>11 DEF Passed
  <2>2. stack' = <<later>> \o r /\ deferred' = d
        BY <1>0, <1>11
  <2>3. Held(stack', deferred') = Held(stack, deferred) /\ Apart(stack', deferred') /\ stack' # <<>>
        BY <1>5, <1>8, <1>10, <2>2
  <2>4. child > scanner => child \notin Held(stack', deferred') \/ child \in marked
        BY <1>7, <2>3
  <2> QED
        BY <1>1, <1>3, <1>6, <1>11, <2>1, <2>3, <2>4, ScanListsMark
<1>12. ASSUME child \notin marked, child < scanner, stack' # <<>>,
              Apart(stack', deferred'), child \in Held(stack', deferred'),
              Held(stack', deferred') \subseteq Held(stack, deferred) \cup {child},
              overflow' \in BOOLEAN, overflow => overflow',
              overflow' \/ Held(stack, deferred) \subseteq Held(stack', deferred')
       PROVE  ScanLists'
  <2>1. /\ Held(stack', deferred') \subseteq Held(stack, deferred) \cup ({child} \ marked)
        /\ child > scanner => child \notin Held(stack', deferred') \/ child \in marked
        BY <1>4, <1>12
  <2> QED
        BY <1>1, <1>3, <1>6, <1>12, <2>1, ScanListsMark
<1>13. ASSUME child \notin marked, Passed(child)
       PROVE  child < scanner /\ child \notin Held(stack, deferred) /\ child # NULL
       BY <1>3, <1>6, <1>7, <1>13 DEF Passed
<1>14. CASE /\ child \notin marked /\ Passed(child) /\ top.nextObject = NULL
            /\ stack' = <<waiting>> \o Tail(stack)
            /\ UNCHANGED <<deferred, overflow>>
  <2>1. stack' = <<waiting>> \o r /\ deferred' = d /\ next = NULL
        BY <1>0, <1>14
  <2>2. child < scanner /\ child \notin Held(stack, deferred) /\ child # NULL
        BY <1>13, <1>14
  <2>3. /\ Held(stack', deferred') = Held(stack, deferred) \cup {child}
        /\ Apart(stack', deferred') /\ stack' # <<>>
        BY <1>3, <1>5, <1>6, <1>9, <1>10, <2>1, <2>2
  <2> QED
        BY <1>6, <1>12, <1>14, <2>2, <2>3
<1>15. CASE /\ child \notin marked /\ Passed(child) /\ top.nextObject # NULL /\ MayRecurse
            /\ stack' = <<Call(top.nextObject, top.depth), waiting>> \o Tail(stack)
            /\ UNCHANGED <<deferred, overflow>>
  <2> DEFINE k == Call(top.nextObject, top.depth)
             s == <<waiting>> \o r
  <2>1. next \in Heap
        BY <1>0, <1>5, <1>15
  <2>2. k \in CallRecord /\ k.object = next /\ k.nextObject = NULL
        BY <1>0, <1>2, <2>1, CallType
  <2>3. stack' = <<k, waiting>> \o r /\ deferred' = d
        BY <1>0, <1>15
  <2> HIDE DEF k
  <2>4. /\ Held(s, d) = (Heap \cap {waiting.object, waiting.nextObject}) \cup Held(r, d)
        /\ Apart(s, d) <=>
             /\ Apart(r, d) /\ waiting.object # waiting.nextObject
             /\ waiting.object \notin Held(r, d)
             /\ waiting.nextObject = NULL \/ waiting.nextObject \notin Held(r, d)
        BY <1>5, <1>9, CallOnTop
  <2>5. s \in Seq(CallRecord) /\ <<k, waiting>> \o r = <<k>> \o s /\ <<k>> \o s # <<>>
        BY <1>5, <1>9, <2>2
  <2> HIDE DEF s
  <2>6. /\ Held(<<k>> \o s, d) = (Heap \cap {k.object, k.nextObject}) \cup Held(s, d)
        /\ Apart(<<k>> \o s, d) <=>
             /\ Apart(s, d) /\ k.object # k.nextObject
             /\ k.object \notin Held(s, d)
             /\ k.nextObject = NULL \/ k.nextObject \notin Held(s, d)
        BY <1>5, <2>2, <2>5, CallOnTop
  <2>7. child < scanner /\ child \notin Held(stack, deferred) /\ child # NULL
        BY <1>13, <1>15
  <2>8. Held(s, d) = {obj, child} \cup Held(r, d) /\ next \notin Held(s, d)
    <3>1. Held(s, d) = {obj, child} \cup Held(r, d)
          BY <1>3, <1>5, <1>9, <2>4
    <3>2. next \in Held(stack, deferred) /\ next # NULL
          BY <1>5, <1>6, <2>1
    <3>3. next # child /\ next # obj /\ next \notin Held(r, d)
          BY <1>5, <2>7, <3>2
    <3> QED
          BY <3>1, <3>3
  <2>9. Apart(s, d)
    <3>1. obj # child /\ child \notin Held(r, d)
          BY <1>5, <2>7
    <3> QED
          BY <1>5, <1>9, <2>4, <3>1
  <2>10. stack' = <<k>> \o s
         BY <2>3, <2>5
  <2>11. Apart(stack', deferred')
         BY <1>6, <2>1, <2>2, <2>3, <2>6, <2>8, <2>9, <2>10
  <2>12. Held(stack', deferred') = {next} \cup Held(s, d)
         BY <1>6, <2>1, <2>2, <2>3, <2>6, <2>10
  <2>13. Held(stack', deferred') = Held(stack, deferred) \cup {child}
         BY <1>5, <2>1, <2>8, <2>12
  <2>14. stack' # <<>>
         BY <2>5, <2>10
  <2> QED
        BY <1>6, <1>12, <1>15, <2>7, <2>11, <2>13, <2>14
<1>16. CASE /\ child \notin marked /\ Passed(child) /\ top.nextObject # NULL
            /\ stack' = <<waiting>> \o Tail(stack)
            /\ PutDeferred(top.nextObject)
  <2>1. next \in Heap /\ stack' = <<waiting>> \o r /\ PutDeferred(next)
        BY <1>0, <1>5, <1>16
  <2>2. child < scanner /\ child \notin Held(stack, deferred) /\ child # NULL
        BY <1>13, <1>16
  <2>3. CASE overflow' = TRUE /\ UNCHANGED deferred
    <3>1. deferred' = d
          BY <1>0, <2>3
    <3>2. /\ Held(stack', deferred') = {obj, child} \cup Held(r, d)
          /\ Apart(stack', deferred') /\ stack' # <<>>
          BY <1>3, <1>5, <1>9, <1>10, <2>1, <2>2, <3>1
    <3>3. Held(stack', deferred') \subseteq Held(stack, deferred) \cup {child}
          BY <1>5, <3>2
    <3> QED
          BY <1>12, <1>16, <2>2, <2>3, <3>2, <3>3
  <2>4. CASE deferred' = Append(deferred, next) /\ UNCHANGED overflow
    <3>0. Append(d, next) \in Seq(Heap)
      <4>1. d \in Seq(Heap) /\ next \in Heap
            BY <1>5, <2>1
      <4> QED
            BY <4>1
    <3>1. PICK e \in Seq(Heap) : e = Append(d, next)
          BY <3>0
    <3>2. Held(r, e) = Held(r, d) \cup {next} /\ Apart(r, e)
          BY <1>5, <1>6, <2>1, <3>1, DeferLast
    <3>3. deferred' = e
          BY <1>0, <2>4, <3>1
    <3>4. /\ Held(stack', deferred') = {obj, child} \cup Held(r, e)
          /\ Apart(stack', deferred') /\ stack' # <<>>
          BY <1>3, <1>5, <1>9, <1>10, <2>1, <2>2, <3>2, <3>3, SMTT(60)
    <3>5. Held(stack', deferred') = Held(stack, deferred) \cup {child}
          BY <1>5, <2>1, <3>2, <3>4
    <3> QED
          BY <1>6, <1>12, <1>16, <2>2, <2>4, <3>4, <3>5
  <2> QED
        BY <2>1, <2>3, <2>4 DEF PutDeferred
<1> QED
  BY <1>0, <1>11, <1>14, <1>15, <1>16 DEF MarkChild, Recurse, later, waiting

-----------------------------------------------------------------------------
(* Weak pointers and finalizers                                            *)

LEMMA ReachableSame ==
  ASSUME UNCHANGED heapVars
  PROVE  /\ Reachable' = Reachable /\ registered' = registered /\ type' = type
         /\ \A l : InUse(l)' = InUse(l)
BY DEF heapVars, Reachable, Strong, InUse

LEMMA ReachableInHeap ==
  ASSUME MInv
  PROVE  Reachable \subseteq Heap
BY StrongType, ConstantsType, ReachableIsClosed DEF MInv

LEMMA ClearedFacts ==
  ASSUME MInv, NEW s \in Seq(Heap \cup {NULL})
  PROVE  /\ Cleared(s) \in Seq(Heap \cup {NULL})
         /\ DOMAIN Cleared(s) = DOMAIN s
         /\ \A i \in DOMAIN s : Cleared(s)[i] = IF s[i] \in marked THEN s[i] ELSE NULL
         /\ Elements(Cleared(s)) \subseteq marked \cup {NULL}
<1> DEFINE r == Cleared(s)
<1>1. DOMAIN r = DOMAIN s /\ \A i \in DOMAIN s : r[i] = IF s[i] \in marked THEN s[i] ELSE NULL
      BY DEF Cleared, Kept
<1>2. DOMAIN s = 1 .. Len(s) /\ Len(s) \in Nat /\ s \in [1 .. Len(s) -> Heap \cup {NULL}]
      OBVIOUS
<1>3. r \in [1 .. Len(s) -> Heap \cup {NULL}]
      BY <1>1, <1>2 DEF Cleared, Kept
<1>4. r \in Seq(Heap \cup {NULL})
      BY <1>2, <1>3, SeqDef
<1> HIDE DEF r
<1>5. Elements(r) \subseteq marked \cup {NULL}
      BY <1>1 DEF Elements
<1> QED
      BY <1>1, <1>4, <1>5 DEF r

(* A list has its dead objects cleared.                                    *)
LEMMA ClearList ==
  ASSUME MInv, WeakTypes, NEW l \in Heap, weak' = [weak EXCEPT ![l] = Cleared(@)],
         UNCHANGED <<heapVars, marked>>, type[l] # "strong"
  PROVE  /\ weak' \in [Heap -> Seq(Heap \cup {NULL})]
         /\ \A o \in Heap : type'[o] = "strong" => weak'[o] = <<>>
         /\ \A o \in Heap : o # l => weak'[o] = weak[o]
         /\ DOMAIN weak'[l] = DOMAIN weak[l]
         /\ \A i \in DOMAIN weak[l] :
              weak'[l][i] = IF weak[l][i] \in marked THEN weak[l][i] ELSE NULL
         /\ Settled(l)'
         /\ \A o \in Heap : Settled(o) => Settled(o)'
<1>1. weak \in [Heap -> Seq(Heap \cup {NULL})] /\ weak[l] \in Seq(Heap \cup {NULL})
      BY DEF WeakTypes
<1>2. PICK s, r : s = weak[l] /\ r = Cleared(s)
      OBVIOUS
<1>3. /\ r \in Seq(Heap \cup {NULL}) /\ DOMAIN r = DOMAIN s
      /\ \A i \in DOMAIN s : r[i] = IF s[i] \in marked THEN s[i] ELSE NULL
      /\ Elements(r) \subseteq marked \cup {NULL}
      BY <1>1, <1>2, ClearedFacts
<1>4. weak' = [weak EXCEPT ![l] = r]
      BY <1>2
<1>5. /\ weak' \in [Heap -> Seq(Heap \cup {NULL})] /\ weak'[l] = r
      /\ \A o \in Heap : o # l => weak'[o] = weak[o]
      BY <1>1, <1>3, <1>4
<1>6. \A o \in Heap : type'[o] = "strong" => weak'[o] = <<>>
      BY <1>5 DEF WeakTypes, heapVars
<1>7. Settled(l)'
  <2>1. Elements(weak'[l]) \subseteq marked' \cup {NULL}
        BY <1>3, <1>5
  <2> QED
        BY <2>1 DEF Settled, Elements
<1>8. ASSUME NEW o \in Heap, Settled(o) PROVE Settled(o)'
  <2>1. CASE o = l
        BY <1>7, <2>1
  <2>2. CASE o # l
    <3>1. weak'[o] = weak[o]
          BY <1>5, <2>2
    <3> QED
          BY <1>8, <3>1 DEF Settled, Elements
  <2> QED
        BY <2>1, <2>2
<1> QED
      BY <1>2, <1>3, <1>5, <1>6, <1>7, <1>8

(* A finalizer is called once with an object that is in a list once.       *)
LEMMA CallsOnce ==
  ASSUME WeakTypes, RegisteredOnce, NEW l \in Heap, InUse(l), NEW o \in Heap
  PROVE  Cardinality(FinalizerCalls(l, o))
           = IF o \in Elements(weak[l]) /\ o \notin marked THEN 1 ELSE 0
<1>1. CASE o \in Elements(weak[l]) /\ o \notin marked
  <2>1. PICK i \in DOMAIN weak[l] : weak[l][i] = o
        BY <1>1 DEF Elements
  <2>2. o # NULL
        BY ConstantsType
  <2>3. \A j \in DOMAIN weak[l] : weak[l][j] = o => j = i
        BY <2>1, <2>2 DEF RegisteredOnce
  <2>4. FinalizerCalls(l, o) = {i}
        BY <1>1, <2>1, <2>3 DEF FinalizerCalls, Kept
  <2> QED
        BY <1>1, <2>4, FS_Singleton
<1>2. CASE ~(o \in Elements(weak[l]) /\ o \notin marked)
  <2>1. FinalizerCalls(l, o) = {}
        BY <1>2 DEF FinalizerCalls, Kept, Elements
  <2> QED
        BY <1>2, <2>1, FS_EmptySet
<1> QED
      BY <1>1, <1>2

(* A step that changes no weak pointer.                                    *)
LEMMA FinalizersSame ==
  ASSUME WeakTypes, RegisteredOnce, Finalizers, UNCHANGED <<heapVars, weak, finalized>>,
         pc \in {"roots", "scan"} \/ (marked' = marked /\ pc' \notin {"roots", "scan"})
  PROVE  WeakTypes' /\ RegisteredOnce' /\ Finalizers'
<1>1. /\ registered' = registered /\ type' = type
      /\ \A l : InUse(l)' = InUse(l)
      BY ReachableSame
<1>2. WeakTypes'
      BY <1>1 DEF WeakTypes
<1>3. RegisteredOnce'
      BY <1>1 DEF RegisteredOnce
<1>4. \A l : Elements(weak[l])' = Elements(weak[l])
      BY DEF Elements
<1>5. ASSUME NEW o \in Heap, finalized'[o] # 0
      PROVE  finalized'[o] = 1 /\ o \notin marked' /\ pc' \notin {"roots", "scan"} /\ o \in registered'
  <2>1. finalized[o] = 1 /\ o \notin marked /\ pc \notin {"roots", "scan"} /\ o \in registered
        BY <1>5 DEF Finalizers
  <2> QED
        BY <1>1, <2>1
<1>6. \A o \in registered' : finalized'[o] = 1 \/ \E l \in Heap : InUse(l)' /\ o \in Elements(weak[l])'
      BY <1>1, <1>4 DEF Finalizers
<1>7. \A l \in Heap : InUse(l)' =>
        \A o \in Elements(weak[l])' : o = NULL \/ (o \in registered' /\ finalized'[o] = 0)
      BY <1>1, <1>4 DEF Finalizers
<1> QED
      BY <1>2, <1>3, <1>5, <1>6, <1>7 DEF Finalizers

(* A list is handled: those of its objects that die are finalized, and are *)
(* in no list any more.                                                    *)
LEMMA FinalizersList ==
  ASSUME MInv, WeakTypes, RegisteredOnce, Finalizers, NEW k \in Heap, InUse(k),
         weak' = [weak EXCEPT ![k] = Cleared(@)],
         finalized' = [o \in Heap |-> finalized[o] + Cardinality(FinalizerCalls(k, o))],
         UNCHANGED <<heapVars, marked, pc>>, pc \notin {"roots", "scan"}
  PROVE  WeakTypes' /\ RegisteredOnce' /\ Finalizers'
<1>1. /\ registered' = registered /\ type' = type
      /\ \A l : InUse(l)' = InUse(l)
      BY ReachableSame
<1>2. /\ weak' \in [Heap -> Seq(Heap \cup {NULL})]
      /\ \A o \in Heap : type'[o] = "strong" => weak'[o] = <<>>
      /\ \A o \in Heap : o # k => weak'[o] = weak[o]
      /\ DOMAIN weak'[k] = DOMAIN weak[k]
      /\ \A i \in DOMAIN weak[k] :
           weak'[k][i] = IF weak[k][i] \in marked THEN weak[k][i] ELSE NULL
  <2>1. type[k] # "strong"
        BY DEF InUse
  <2> QED
        BY <2>1, ClearList
<1>3. NULL \notin Heap /\ marked \subseteq Heap /\ finalized \in [Heap -> Nat]
      BY ConstantsType DEF MInv, Types, WeakTypes
<1> DEFINE dies(o) == o \in Elements(weak[k]) /\ o \notin marked
<1>4. ASSUME NEW o \in Heap
      PROVE  finalized'[o] = IF dies(o) THEN finalized[o] + 1 ELSE finalized[o]
  <2>1. Cardinality(FinalizerCalls(k, o)) = IF dies(o) THEN 1 ELSE 0
        BY CallsOnce
  <2>2. finalized'[o] = finalized[o] + Cardinality(FinalizerCalls(k, o)) /\ finalized[o] \in Nat
        BY <1>3
  <2> HIDE DEF dies
  <2> QED
        BY <2>1, <2>2
<1>5. ASSUME NEW o \in Heap, dies(o) PROVE finalized[o] = 0 /\ o \in registered
      BY <1>3, <1>5 DEF Finalizers
<1>6. WeakTypes'
  <2>1. finalized' \in [Heap -> Nat]
    <3>1. \A o \in Heap : finalized'[o] \in Nat
      <4> HIDE DEF dies
      <4> QED
          BY <1>3, <1>4
    <3> QED
          BY <3>1
  <2> QED
        BY <1>1, <1>2, <2>1 DEF WeakTypes
<1>7. ASSUME NEW l \in Heap, NEW i \in DOMAIN weak'[l]
      PROVE  i \in DOMAIN weak[l] /\ (weak'[l][i] = weak[l][i] \/ weak'[l][i] = NULL)
      BY <1>2
<1>8. RegisteredOnce'
  <2> SUFFICES ASSUME NEW a \in Heap, NEW b \in Heap, InUse(a), InUse(b),
                      NEW i \in DOMAIN weak'[a], NEW j \in DOMAIN weak'[b],
                      weak'[a][i] = weak'[b][j], weak'[a][i] # NULL
               PROVE  a = b /\ i = j
      BY <1>1 DEF RegisteredOnce
  <2>1. /\ i \in DOMAIN weak[a] /\ weak'[a][i] = weak[a][i]
        /\ j \in DOMAIN weak[b] /\ weak'[b][j] = weak[b][j]
        BY <1>7
  <2> QED
        BY <2>1 DEF RegisteredOnce
<1>9. ASSUME NEW o \in Heap, finalized'[o] # 0
      PROVE  finalized'[o] = 1 /\ o \notin marked' /\ pc' \notin {"roots", "scan"} /\ o \in registered'
  <2>1. CASE dies(o)
    <3>1. finalized[o] = 0 /\ o \in registered /\ o \notin marked
          BY <1>5, <2>1
    <3>2. finalized'[o] = finalized[o] + 1
          BY <1>4, <2>1
    <3> QED
          BY <1>1, <3>1, <3>2
  <2>2. CASE ~dies(o)
    <3>1. finalized'[o] = finalized[o]
          BY <1>4, <2>2
    <3>2. finalized[o] = 1 /\ o \notin marked /\ o \in registered
          BY <1>9, <3>1 DEF Finalizers
    <3> QED
          BY <1>1, <3>1, <3>2
  <2> QED
        BY <2>1, <2>2
<1>10. ASSUME NEW o \in registered
       PROVE  finalized'[o] = 1 \/ \E l \in Heap : InUse(l) /\ o \in Elements(weak'[l])
  <2>1. o \in Heap
        BY DEF WeakTypes
  <2>2. CASE dies(o)
    <3>1. finalized[o] = 0 /\ finalized'[o] = finalized[o] + 1
          BY <1>4, <1>5, <2>1, <2>2
    <3> QED
          BY <3>1
  <2>3. CASE ~dies(o)
    <3>1. finalized'[o] = finalized[o]
          BY <1>4, <2>1, <2>3
    <3>2. finalized[o] = 1 \/ \E l \in Heap : InUse(l) /\ o \in Elements(weak[l])
          BY DEF Finalizers
    <3>3. ASSUME NEW l \in Heap, InUse(l), o \in Elements(weak[l]) PROVE o \in Elements(weak'[l])
      <4>1. CASE l # k
            BY <1>2, <3>3, <4>1
      <4>2. CASE l = k
        <5>1. PICK i \in DOMAIN weak[k] : weak[k][i] = o
              BY <3>3, <4>2 DEF Elements
        <5>2. o \in marked
              BY <2>3, <3>3, <4>2
        <5>3. i \in DOMAIN weak'[k] /\ weak'[k][i] = o
              BY <1>2, <5>1, <5>2
        <5> QED
              BY <4>2, <5>3 DEF Elements
      <4> QED
            BY <4>1, <4>2
    <3> QED
          BY <3>1, <3>2, <3>3
  <2> QED
        BY <2>2, <2>3
<1>11. ASSUME NEW l \in Heap, InUse(l), NEW o \in Elements(weak'[l]), o # NULL
       PROVE  o \in registered /\ finalized'[o] = 0
  <2>1. PICK i \in DOMAIN weak'[l] : weak'[l][i] = o
        BY DEF Elements
  <2>2. i \in DOMAIN weak[l] /\ weak[l][i] = o
        BY <1>7, <1>11, <2>1
  <2>3. o \in Elements(weak[l])
        BY <2>2 DEF Elements
  <2>4. o \in registered /\ finalized[o] = 0
        BY <1>11, <2>3 DEF Finalizers
  <2>5. ~dies(o)
    <3>1. CASE l = k
          BY <1>2, <1>11, <2>1, <2>2, <3>1
    <3>2. CASE l # k
      <4>1. ASSUME NEW j \in DOMAIN weak[k] PROVE weak[k][j] # o
            BY <1>11, <2>2, <3>2 DEF RegisteredOnce
      <4> QED
            BY <4>1 DEF Elements
    <3> QED
          BY <3>1, <3>2
  <2>6. o \in Heap
        BY <2>4 DEF WeakTypes
  <2> QED
        BY <1>4, <2>4, <2>5, <2>6
<1>12. \A l : Elements(weak[l])' = Elements(weak'[l])
       BY DEF Elements
<1>13. \A o \in registered' : finalized'[o] = 1 \/ \E l \in Heap : InUse(l)' /\ o \in Elements(weak[l])'
       BY <1>1, <1>10, <1>12
<1>14. \A l \in Heap : InUse(l)' =>
         \A o \in Elements(weak[l])' : o = NULL \/ (o \in registered' /\ finalized'[o] = 0)
       BY <1>1, <1>11, <1>12
<1> QED
       BY <1>6, <1>8, <1>9, <1>13, <1>14 DEF Finalizers

(* A weak reference is handled: it is no list.                             *)
LEMMA FinalizersReference ==
  ASSUME MInv, WeakTypes, RegisteredOnce, Finalizers, NEW k \in Heap, type[k] = "reference",
         weak' = [weak EXCEPT ![k] = Cleared(@)],
         UNCHANGED <<heapVars, marked, finalized>>, pc' \notin {"roots", "scan"},
         pc \notin {"roots", "scan"}
  PROVE  WeakTypes' /\ RegisteredOnce' /\ Finalizers'
<1>1. /\ registered' = registered /\ type' = type
      /\ \A l : InUse(l)' = InUse(l)
      BY ReachableSame
<1>2. /\ weak' \in [Heap -> Seq(Heap \cup {NULL})]
      /\ \A o \in Heap : type'[o] = "strong" => weak'[o] = <<>>
      /\ \A o \in Heap : o # k => weak'[o] = weak[o]
      BY ClearList
<1>3. \A l \in Heap : InUse(l) => weak'[l] = weak[l]
      BY <1>2 DEF InUse
<1>4. \A l \in Heap : InUse(l) => Elements(weak[l])' = Elements(weak[l])
      BY <1>3 DEF Elements
<1>5. WeakTypes'
      BY <1>1, <1>2 DEF WeakTypes
<1>6. RegisteredOnce'
  <2> SUFFICES ASSUME NEW a \in Heap, NEW b \in Heap, InUse(a), InUse(b),
                      NEW i \in DOMAIN weak'[a], NEW j \in DOMAIN weak'[b],
                      weak'[a][i] = weak'[b][j], weak'[a][i] # NULL
               PROVE  a = b /\ i = j
      BY <1>1 DEF RegisteredOnce
  <2>1. weak'[a] = weak[a] /\ weak'[b] = weak[b]
        BY <1>3
  <2> QED
        BY <2>1 DEF RegisteredOnce
<1>7. \A o \in Heap : finalized'[o] # 0 =>
        finalized'[o] = 1 /\ o \notin marked' /\ pc' \notin {"roots", "scan"} /\ o \in registered'
      BY <1>1 DEF Finalizers
<1>8. \A o \in registered' : finalized'[o] = 1 \/ \E l \in Heap : InUse(l)' /\ o \in Elements(weak[l])'
      BY <1>1, <1>4 DEF Finalizers
<1>9. \A l \in Heap : InUse(l)' =>
        \A o \in Elements(weak[l])' : o = NULL \/ (o \in registered' /\ finalized'[o] = 0)
      BY <1>1, <1>4 DEF Finalizers
<1> QED
      BY <1>5, <1>6, <1>7, <1>8, <1>9 DEF Finalizers

(* The scans are over: the lists are complete.                             *)
LEMMA LaterListsBegin ==
  ASSUME MInv, WeakTypes, ScanLists, EndScan, ~overflow
  PROVE  LaterLists'
<1>1. /\ pc' = "lists" /\ stack = <<>> /\ deferred = <<>> /\ scanner > HeapLen
      /\ marked' = marked /\ weak' = weak /\ type' = type
      /\ WeakPointers' = WeakPointers /\ WeakReferences' = WeakReferences
      BY DEF EndScan, scanVars, heapVars, MInv, Phases
<1>2. marked \subseteq Heap /\ scanner \in 1 .. HeapLen + 1
      BY DEF MInv, Types
<1>3. ASSUME NEW t PROVE Visited(t) = MarkedOf(t)
  <2>1. \A o \in marked : Past(o)
        BY <1>1, <1>2, ConstantsType DEF Past, Heap
  <2>2. Held(stack, deferred) = {}
        BY <1>1, NothingHeld
  <2> QED
        BY <2>1, <2>2 DEF Visited, MarkedOf
<1>4. /\ Lists(WeakPointers, MarkedOf("list"), TRUE)
      /\ Lists(WeakReferences, MarkedOf("reference"), TRUE)
  <2>1. Lists(WeakPointers, MarkedOf("list"), ~overflow)
        BY <1>3 DEF ScanLists
  <2>2. Lists(WeakReferences, MarkedOf("reference"), ~overflow)
        BY <1>3 DEF ScanLists
  <2> QED
        BY <2>1, <2>2 DEF Lists
<1>5. ASSUME NEW o \in marked
      PROVE  Settled(o) \/ o \in Elements(WeakPointers) \/ o \in Elements(WeakReferences)
  <2>1. CASE type[o] = "strong"
        BY <1>2, <2>1 DEF WeakTypes, Settled, Elements
  <2>2. CASE type[o] = "list"
        BY <1>4, <2>2 DEF Lists, MarkedOf
  <2>3. CASE type[o] = "reference"
        BY <1>4, <2>3 DEF Lists, MarkedOf
  <2>4. type[o] \in {"strong", "reference", "list"}
        BY <1>2 DEF MInv, HeapTypes
  <2> QED
        BY <2>1, <2>2, <2>3, <2>4
<1>6. /\ \A t : MarkedOf(t)' = MarkedOf(t)
      /\ \A o : Settled(o)' = Settled(o)
      BY <1>1 DEF MarkedOf, Settled, Elements
<1>7. Lists(WeakPointers', MarkedOf("list")', FALSE)
      BY <1>1, <1>4, <1>6 DEF Lists
<1>8. Lists(WeakReferences', MarkedOf("reference")', pc' = "lists")
      BY <1>1, <1>4, <1>6 DEF Lists
<1>9. \A o \in marked' : Settled(o)' \/ o \in Elements(WeakPointers') \/ o \in Elements(WeakReferences')
      BY <1>1, <1>5, <1>6
<1> QED
      BY <1>1, <1>7, <1>8, <1>9 DEF LaterLists, Elements

(* The first object of one of the lists is handled, or a list is done.     *)
LEMMA LaterListsStep ==
  ASSUME LaterLists, UNCHANGED <<heapVars, marked>>,
         Lists(WeakPointers', MarkedOf("list"), FALSE),
         Lists(WeakReferences', MarkedOf("reference"), pc' = "lists"),
         \A o \in marked : Settled(o)' \/ o \in Elements(WeakPointers')
                                       \/ o \in Elements(WeakReferences'),
         pc' # "lists" => WeakPointers' = <<>>,
         pc' = "done" => WeakReferences' = <<>>
  PROVE  LaterLists'
<1>1. \A t : MarkedOf(t)' = MarkedOf(t)
      BY DEF MarkedOf, heapVars
<1>2. Lists(WeakPointers', MarkedOf("list")', FALSE)
      BY <1>1
<1>3. Lists(WeakReferences', MarkedOf("reference")', pc' = "lists")
      BY <1>1
<1>4. \A o \in marked' : Settled(o)' \/ o \in Elements(WeakPointers') \/ o \in Elements(WeakReferences')
      OBVIOUS
<1> QED
      BY <1>2, <1>3, <1>4 DEF LaterLists, Elements

LEMMA WeakPointerListStep ==
  ASSUME MInv, MarkedReachable, WInv, MarkWeakPointerList
  PROVE  WInv'
<1>1. PICK k : k = Head(WeakPointers)
      OBVIOUS
<1>2. /\ pc = "lists" /\ pc' = "lists" /\ WeakPointers # <<>> /\ WeakPointers' = Tail(WeakPointers)
      /\ WeakReferences' = WeakReferences /\ UNCHANGED <<heapVars, marked>>
      /\ weak' = [weak EXCEPT ![k] = Cleared(@)]
      /\ finalized' = [o \in Heap |-> finalized[o] + Cardinality(FinalizerCalls(k, o))]
      BY <1>1 DEF MarkWeakPointerList
<1>3. WeakTypes /\ RegisteredOnce /\ Finalizers /\ LaterLists
      BY <1>2 DEF WInv, WeakLists
<1>4. PICK q, r : q \in Seq(Heap) /\ q = WeakPointers /\ r = WeakPointers'
      BY DEF MInv, Types
<1>5. q # <<>> /\ NoRepeats(q) /\ Elements(q) \subseteq MarkedOf("list")
      BY <1>2, <1>3, <1>4 DEF LaterLists, Lists
<1>6. /\ NoRepeats(r) /\ k \in Heap /\ Elements(q) = {k} \cup Elements(r)
      BY <1>1, <1>2, <1>4, <1>5, ListPop
<1>7. k \in marked /\ type[k] = "list" /\ InUse(k)
      BY <1>5, <1>6 DEF MarkedOf, InUse, MarkedReachable
<1>8. WeakTypes' /\ RegisteredOnce' /\ Finalizers'
      BY <1>2, <1>3, <1>6, <1>7, FinalizersList
<1>9. Settled(k)' /\ \A o \in Heap : Settled(o) => Settled(o)'
      BY <1>2, <1>3, <1>6, <1>7, ClearList
<1>10. LaterLists'
  <2>1. Lists(WeakPointers', MarkedOf("list"), FALSE)
        BY <1>4, <1>5, <1>6 DEF Lists
  <2>2. Lists(WeakReferences', MarkedOf("reference"), pc' = "lists")
        BY <1>2, <1>3 DEF LaterLists
  <2>3. ASSUME NEW o \in marked
        PROVE  Settled(o)' \/ o \in Elements(WeakPointers') \/ o \in Elements(WeakReferences')
    <3>1. o \in Heap
          BY DEF MInv, Types
    <3>2. Settled(o) \/ o \in Elements(q) \/ o \in Elements(WeakReferences)
          BY <1>3, <1>4 DEF LaterLists
    <3>3. o \in Elements(q) => o = k \/ o \in Elements(r)
          BY <1>6
    <3> QED
          BY <1>2, <1>4, <1>9, <3>1, <3>2, <3>3
  <2> QED
        BY <1>2, <1>3, <2>1, <2>2, <2>3, LaterListsStep
<1> QED
       BY <1>2, <1>8, <1>10 DEF WInv, WeakLists

LEMMA WeakReferenceStep ==
  ASSUME MInv, WInv, MarkWeakReference
  PROVE  WInv'
<1>1. PICK k : k = Head(WeakReferences)
      OBVIOUS
<1>2. /\ pc = "references" /\ pc' = "references"
      /\ WeakReferences # <<>> /\ WeakReferences' = Tail(WeakReferences)
      /\ WeakPointers' = WeakPointers /\ UNCHANGED <<heapVars, marked, finalized>>
      /\ weak' = [weak EXCEPT ![k] = Cleared(@)]
      BY <1>1 DEF MarkWeakReference
<1>3. WeakTypes /\ RegisteredOnce /\ Finalizers /\ LaterLists
      BY <1>2 DEF WInv, WeakLists
<1>4. PICK q, r : q \in Seq(Heap) /\ q = WeakReferences /\ r = WeakReferences'
      BY DEF MInv, Types
<1>5. q # <<>> /\ NoRepeats(q) /\ Elements(q) \subseteq MarkedOf("reference")
      BY <1>2, <1>3, <1>4 DEF LaterLists, Lists
<1>6. /\ NoRepeats(r) /\ k \in Heap /\ Elements(q) = {k} \cup Elements(r)
      BY <1>1, <1>2, <1>4, <1>5, ListPop
<1>7. k \in marked /\ type[k] = "reference"
      BY <1>5, <1>6 DEF MarkedOf
<1>8. WeakTypes' /\ RegisteredOnce' /\ Finalizers'
      BY <1>2, <1>3, <1>6, <1>7, FinalizersReference
<1>9. Settled(k)' /\ \A o \in Heap : Settled(o) => Settled(o)'
      BY <1>2, <1>3, <1>6, <1>7, ClearList
<1>10. LaterLists'
  <2>1. Lists(WeakPointers', MarkedOf("list"), FALSE)
        BY <1>2, <1>3 DEF LaterLists
  <2>2. Lists(WeakReferences', MarkedOf("reference"), pc' = "lists")
        BY <1>2, <1>4, <1>5, <1>6 DEF Lists
  <2>3. ASSUME NEW o \in marked
        PROVE  Settled(o)' \/ o \in Elements(WeakPointers') \/ o \in Elements(WeakReferences')
    <3>1. o \in Heap
          BY DEF MInv, Types
    <3>2. Settled(o) \/ o \in Elements(q) \/ o \in Elements(WeakPointers)
          BY <1>3, <1>4 DEF LaterLists
    <3>3. o \in Elements(q) => o = k \/ o \in Elements(r)
          BY <1>6
    <3> QED
          BY <1>2, <1>4, <1>9, <3>1, <3>2, <3>3
  <2>4. WeakPointers' = <<>>
        BY <1>2, <1>3 DEF LaterLists
  <2> QED
        BY <1>2, <1>3, <2>1, <2>2, <2>3, <2>4, LaterListsStep
<1> QED
       BY <1>2, <1>8, <1>10 DEF WInv, WeakLists

LEMMA NextWInv ==
  ASSUME MInv, MInv', MarkedReachable, WInv, [Next]_vars
  PROVE  WInv'
<1>1. WeakTypes /\ RegisteredOnce /\ Finalizers
      BY DEF WInv
<1>2. CASE MarkRootObjects
  <2>1. /\ pc = "roots" /\ pc' = "scan" /\ scanner' = 1 /\ stack' = <<>> /\ deferred' = <<>>
        /\ WeakPointers' = <<>> /\ WeakReferences' = <<>>
        /\ UNCHANGED <<heapVars, weak, finalized>>
        BY <1>2 DEF MarkRootObjects, BeginScan, MInv, Phases
  <2>2. ScanLists'
        BY <2>1, ScanListsBegin
  <2>3. WeakTypes' /\ RegisteredOnce' /\ Finalizers'
        BY <1>1, <2>1, FinalizersSame
  <2> QED
        BY <2>1, <2>2, <2>3 DEF WInv, WeakLists
<1>3. ASSUME pc = "scan", pc' = "scan", UNCHANGED <<heapVars, weak, finalized>>, ScanLists'
      PROVE  WInv'
  <2>1. WeakTypes' /\ RegisteredOnce' /\ Finalizers'
        BY <1>1, <1>3, FinalizersSame
  <2> QED
        BY <1>3, <2>1 DEF WInv, WeakLists
<1>4. pc = "scan" => ScanLists
      BY DEF WInv, WeakLists
<1>5. CASE ScanObject
  <2>1. pc = "scan" /\ pc' = "scan" /\ UNCHANGED <<heapVars, weak, finalized>>
        BY <1>5 DEF ScanObject
  <2>2. ScanLists'
        BY <1>4, <1>5, <2>1, ScanListsScan
  <2> QED
        BY <1>3, <2>1, <2>2
<1>6. CASE MarkChild
  <2>1. pc = "scan" /\ pc' = "scan" /\ UNCHANGED <<heapVars, weak, finalized>>
        BY <1>6 DEF MarkChild
  <2>2. ScanLists'
        BY <1>4, <1>6, <2>1, ScanListsMarkChild
  <2> QED
        BY <1>3, <2>1, <2>2
<1>7. CASE FinishObject
  <2>1. pc = "scan" /\ pc' = "scan" /\ UNCHANGED <<heapVars, weak, finalized>>
        BY <1>7 DEF FinishObject
  <2>2. ScanLists'
        BY <1>4, <1>7, <2>1, ScanListsFinish
  <2> QED
        BY <1>3, <2>1, <2>2
<1>8. CASE EndScan
  <2>1. /\ pc = "scan" /\ stack = <<>> /\ deferred = <<>>
        /\ UNCHANGED <<heapVars, weak, marked, finalized>>
        BY <1>8 DEF EndScan, MInv, Phases
  <2>2. CASE overflow
    <3>1. /\ pc' = "scan" /\ scanner' = 1 /\ stack' = <<>> /\ deferred' = <<>>
          /\ WeakPointers' = <<>> /\ WeakReferences' = <<>>
          BY <1>8, <2>1, <2>2 DEF EndScan, BeginScan
    <3>2. ScanLists'
          BY <3>1, ScanListsBegin
    <3> QED
          BY <1>3, <2>1, <3>1, <3>2
  <2>3. CASE ~overflow
    <3>1. pc' = "lists"
          BY <1>8, <2>3 DEF EndScan
    <3>2. LaterLists'
          BY <1>1, <1>4, <1>8, <2>1, <2>3, LaterListsBegin
    <3>3. WeakTypes' /\ RegisteredOnce' /\ Finalizers'
          BY <1>1, <2>1, <3>1, FinalizersSame
    <3> QED
          BY <3>1, <3>2, <3>3 DEF WInv, WeakLists
  <2> QED
        BY <2>2, <2>3
<1>9. CASE MarkWeakPointerList
      BY <1>9, WeakPointerListStep
<1>10. CASE MarkWeakReference
       BY <1>10, WeakReferenceStep
<1>11. ASSUME pc \notin {"roots", "scan"}, pc' \notin {"roots", "scan"},
              UNCHANGED <<heapVars, weak, marked, finalized, WeakPointers, WeakReferences>>,
              pc' = "lists" => pc = "lists",
              pc' # "lists" => WeakPointers = <<>>,
              pc' = "done" => WeakReferences = <<>>
       PROVE  WInv'
  <2>1. WeakTypes' /\ RegisteredOnce' /\ Finalizers'
        BY <1>1, <1>11, FinalizersSame
  <2>2. LaterLists
        BY <1>11 DEF WInv, WeakLists
  <2>3. \A o : Settled(o)' = Settled(o)
        BY <1>11 DEF Settled, Elements
  <2>4. Lists(WeakPointers', MarkedOf("list"), FALSE)
        BY <1>11, <2>2 DEF LaterLists
  <2>5. Lists(WeakReferences', MarkedOf("reference"), pc' = "lists")
        BY <1>11, <2>2 DEF LaterLists, Lists
  <2>6. \A o \in marked : Settled(o)' \/ o \in Elements(WeakPointers') \/ o \in Elements(WeakReferences')
        BY <1>11, <2>2, <2>3 DEF LaterLists
  <2>7. LaterLists'
        BY <1>11, <2>2, <2>4, <2>5, <2>6, LaterListsStep
  <2> QED
        BY <1>11, <2>1, <2>7 DEF WInv, WeakLists
<1>12. CASE EndWeakPointerLists
  <2>1. /\ pc = "lists" /\ pc' = "references" /\ WeakPointers = <<>>
        /\ UNCHANGED <<heapVars, weak, marked, finalized, WeakPointers, WeakReferences>>
        BY <1>12 DEF EndWeakPointerLists, scanVars
  <2> QED
        BY <1>11, <2>1
<1>13. CASE EndWeakReferences
  <2>1. /\ pc = "references" /\ pc' = "done" /\ WeakReferences = <<>>
        /\ UNCHANGED <<heapVars, weak, marked, finalized, WeakPointers, WeakReferences>>
        BY <1>13 DEF EndWeakReferences, scanVars
  <2>2. WeakPointers = <<>>
        BY <2>1 DEF WInv, WeakLists, LaterLists
  <2> QED
        BY <1>11, <2>1, <2>2
<1>14. CASE UNCHANGED vars
  <2>1. UNCHANGED <<heapVars, weak, marked, pc, finalized, scanVars>>
        BY <1>14 DEF vars
  <2>2. UNCHANGED <<scanner, stack, deferred, overflow, WeakPointers, WeakReferences>>
        BY <2>1 DEF scanVars
  <2>3. CASE pc \notin {"roots", "scan"}
    <3>1. LaterLists
          BY <2>3 DEF WInv, WeakLists
    <3>2. /\ pc' # "lists" => WeakPointers = <<>>
          /\ pc' = "done" => WeakReferences = <<>>
          BY <2>1, <3>1 DEF LaterLists
    <3> QED
          BY <1>11, <2>1, <2>2, <2>3, <3>2
  <2>4. CASE pc \in {"roots", "scan"}
    <3>1. WeakTypes' /\ RegisteredOnce' /\ Finalizers'
          BY <1>1, <2>1, <2>4, FinalizersSame
    <3>2. \A t : Visited(t)' = Visited(t)
      <4>1. \A o : Past(o)' = Past(o)
            BY <2>2 DEF Past
      <4>2. type' = type
            BY <2>1 DEF heapVars
      <4>3. Held(stack', deferred') = Held(stack, deferred)
            BY <2>2
      <4> QED
            BY <2>1, <4>1, <4>2, <4>3 DEF Visited
    <3>3. ASSUME ScanLists PROVE ScanLists'
      <4>1. Apart(stack', deferred') /\ \A o \in Held(stack', deferred') : o <= scanner'
            BY <2>2, <3>3 DEF ScanLists
      <4>2. Lists(WeakPointers', Visited("list")', ~overflow')
            BY <2>2, <3>2, <3>3 DEF ScanLists
      <4>3. Lists(WeakReferences', Visited("reference")', ~overflow')
            BY <2>2, <3>2, <3>3 DEF ScanLists
      <4> QED
            BY <4>1, <4>2, <4>3 DEF ScanLists
    <3> QED
          BY <1>4, <2>1, <2>2, <2>4, <3>1, <3>3 DEF WInv, WeakLists
  <2> QED
        BY <2>3, <2>4
<1>15. CASE Return
       BY <1>14, <1>15 DEF Return
<1> QED
       BY <1>2, <1>5, <1>6, <1>7, <1>8, <1>9, <1>10, <1>12, <1>13, <1>14, <1>15 DEF Next

-----------------------------------------------------------------------------
(* Weak pointers settle                                                    *)

LEMMA InitWInv == Init /\ RegisteredOnce => WInv
<1> SUFFICES ASSUME Init, RegisteredOnce PROVE WInv
    OBVIOUS
<1> USE GraphsAssumption
<1>1. PICK g \in Graphs, p \in Layouts :
        LET at(a) == CHOOSE n \in Heap : p[n] = a
            Moved(s) == [i \in DOMAIN s |-> IF s[i] = NULL THEN NULL ELSE p[s[i]]]
        IN  /\ type = [a \in Heap |-> g.type[at(a)]]
            /\ fields = [a \in Heap |-> Moved(g.fields[at(a)])]
            /\ weak = [a \in Heap |-> Moved(g.weak[at(a)])]
            /\ roots = {p[n] : n \in g.roots}
      BY DEF Init
<1> DEFINE at(a) == CHOOSE n \in Heap : p[n] = a
           Moved(s) == [i \in DOMAIN s |-> IF s[i] = NULL THEN NULL ELSE p[s[i]]]
<1>2. \A a \in Heap : at(a) \in Heap
      BY LayoutOnto
<1>3. /\ g.weak \in [Heap -> Seq(Heap \cup {NULL})]
      /\ \A n \in Heap : g.type[n] = "strong" => g.weak[n] = <<>>
      OBVIOUS
<1>4. ASSUME NEW q \in Seq(Heap \cup {NULL}) PROVE Moved(q) \in Seq(Heap \cup {NULL})
  <2>1. LET r == [i \in DOMAIN q |-> IF q[i] = NULL THEN NULL ELSE p[q[i]]]
        IN  r \in Seq(Heap \cup {NULL})
        BY ONLY MovedType, p \in Layouts, q \in Seq(Heap \cup {NULL})
  <2> QED
        BY <2>1
<1>5. Moved(<<>>) = <<>>
  <2>1. <<>> \in Seq(Heap \cup {NULL})
        OBVIOUS
  <2> QED
        BY <2>1, MovedType
<1>6. type = [a \in Heap |-> g.type[at(a)]] /\ weak = [a \in Heap |-> Moved(g.weak[at(a)])]
      BY <1>1
<1> HIDE DEF at, Moved
<1>7. weak \in [Heap -> Seq(Heap \cup {NULL})]
      BY <1>2, <1>3, <1>4, <1>6
<1>8. \A o \in Heap : type[o] = "strong" => weak[o] = <<>>
      BY <1>2, <1>3, <1>5, <1>6
<1>9. /\ registered = Registered /\ finalized = [o \in Heap |-> 0] /\ pc = "roots"
      /\ WeakPointers = <<>> /\ WeakReferences = <<>>
      BY DEF Init
<1>10. WeakTypes
       BY <1>7, <1>8, <1>9 DEF WeakTypes, Registered
<1>11. WeakLists
       BY <1>9 DEF WeakLists
<1>12. Reachable \subseteq Heap
       BY InitMInv, ReachableInHeap
<1>13. \A o \in registered : \E l \in Heap : InUse(l) /\ o \in Elements(weak[l])
       BY <1>9, <1>12 DEF Registered, InUse
<1>14. ASSUME NEW l \in Heap, InUse(l), NEW o \in Elements(weak[l]), o # NULL
       PROVE  o \in registered /\ finalized[o] = 0
  <2>1. weak[l] \in Seq(Heap \cup {NULL})
        BY <1>7
  <2>2. o \in Heap
        BY <1>14, <2>1 DEF Elements
  <2> QED
        BY <1>9, <1>14, <2>2 DEF Registered, InUse
<1>15. Finalizers
       BY <1>9, <1>13, <1>14 DEF Finalizers
<1> QED
       BY <1>10, <1>11, <1>15 DEF WInv

LEMMA NoDuplicates ==
  ASSUME NEW q \in Seq(Heap), NoRepeats(q)
  PROVE  HasNoDuplicates(q)
<1>1. Len(q) \in Nat /\ DOMAIN q = 1 .. Len(q) /\ q \in [1 .. Len(q) -> Heap]
      OBVIOUS
<1>2. q \in [1 .. Len(q) -> Elements(q)]
      BY <1>1 DEF Elements
<1>3. \A x \in Elements(q) : \E i \in 1 .. Len(q) : q[i] = x
      BY <1>1 DEF Elements
<1>4. \A i, j \in 1 .. Len(q) : q[i] = q[j] => i = j
      BY DEF NoRepeats
<1>5. q \in Bijection(1 .. Len(q), Elements(q))
      BY <1>2, <1>3, <1>4 DEF Bijection, Injection, Surjection, IsInjective
<1>6. IsFiniteSet(1 .. Len(q)) /\ Cardinality(1 .. Len(q)) = Len(q)
  <2>1. 1 \in Int /\ Len(q) \in Int
        BY <1>1
  <2>2. /\ IsFiniteSet(1 .. Len(q))
        /\ Cardinality(1 .. Len(q)) = IF 1 > Len(q) THEN 0 ELSE Len(q) - 1 + 1
        BY <2>1, FS_Interval
  <2> QED
        BY <1>1, <2>2
<1>7. Cardinality(Elements(q)) = Cardinality(1 .. Len(q))
      BY <1>5, <1>6, FS_Bijection DEF ExistsBijection
<1> QED
      BY <1>6, <1>7 DEF HasNoDuplicates

LEMMA WInvImplies ==
  ASSUME MInv, MarkedReachable, WInv
  PROVE  WeakPointersSettled
<1>1. WeakTypes /\ WeakLists /\ Finalizers
      BY DEF WInv
<1>2. WeakPointers \in Seq(Heap) /\ WeakReferences \in Seq(Heap) /\ marked \subseteq Heap
      /\ pc \in {"roots", "scan", "lists", "references", "done"}
      BY DEF MInv, Types
<1>3. pc \notin {"roots", "scan"} => marked = Reachable
      BY MarkedIsAllReachable DEF MarkedIsReachable
<1>4. NoRepeats(WeakPointers) /\ NoRepeats(WeakReferences)
  <2>1. CASE pc = "roots"
        BY <1>1, <2>1 DEF WeakLists, NoRepeats
  <2>2. CASE pc = "scan"
        BY <1>1, <2>2 DEF WeakLists, ScanLists, Lists
  <2>3. CASE pc \notin {"roots", "scan"}
        BY <1>1, <2>3 DEF WeakLists, LaterLists, Lists
  <2> QED
        BY <2>1, <2>2, <2>3
<1>5. WeakListsExact
  <2>1. ASSUME pc = "lists" PROVE Elements(WeakReferences) = {o \in Reachable : type[o] = "reference"}
    <3>1. Lists(WeakReferences, MarkedOf("reference"), TRUE)
          BY <1>1, <2>1 DEF WeakLists, LaterLists
    <3> QED
          BY <1>3, <2>1, <3>1 DEF Lists, MarkedOf
  <2> QED
        BY <1>2, <1>4, <2>1, NoDuplicates DEF WeakListsExact
<1>6. ASSUME pc = "done", NEW o \in marked PROVE Settled(o)
  <2>1. LaterLists /\ WeakPointers = <<>> /\ WeakReferences = <<>>
        BY <1>1, <1>6 DEF WeakLists, LaterLists
  <2> QED
        BY <2>1 DEF LaterLists, Elements
<1>7. NoDanglingWeakPointer
      BY <1>6 DEF NoDanglingWeakPointer, Settled
<1>8. FinalizedOnce
  <2> SUFFICES ASSUME NEW o \in Heap
               PROVE  /\ finalized[o] <= 1
                      /\ pc = "done" => (finalized[o] = 1 <=> o \in registered /\ o \notin Reachable)
      BY DEF FinalizedOnce
  <2>1. finalized[o] = 0 \/ (finalized[o] = 1 /\ o \notin marked /\ o \in registered)
        BY <1>1 DEF Finalizers
  <2>2. ASSUME pc = "done", o \in registered, o \notin Reachable PROVE finalized[o] = 1
    <3> SUFFICES ASSUME NEW l \in Heap, InUse(l), o \in Elements(weak[l]) PROVE FALSE
        BY <1>1, <2>2 DEF Finalizers
    <3>1. l \in marked
          BY <1>3, <2>2 DEF InUse
    <3>2. o \in marked \cup {NULL}
          BY <1>6, <2>2, <3>1 DEF Settled
    <3>3. o # NULL
          BY ConstantsType
    <3> QED
          BY <1>3, <2>2, <3>2, <3>3
  <2>3. finalized[o] <= 1
        BY <2>1
  <2>4. pc = "done" => marked = Reachable
        BY <1>3
  <2> QED
        BY <2>1, <2>2, <2>3, <2>4
<1> QED
      BY <1>5, <1>7, <1>8 DEF WeakPointersSettled

(* The lists chained through gcReserved hold each weak object once, and no *)
(* marked one is missing, however often the heap is scanned; no weak       *)
(* pointer to a freed object is left; and the native finalizer is called   *)
(* once for each registered object that is freed and for no other, if no   *)
(* object was registered twice.                                            *)
THEOREM WeakPointersSettledHolds ==
  ASSUME NoSubclasses
  PROVE  Spec /\ RegisteredOnce => []WeakPointersSettled
<1> DEFINE Inv == MInv /\ MarkedReachable /\ WInv
<1>1. Init /\ RegisteredOnce => Inv
      BY InitMInv, InitMarkedReachable, InitWInv
<1>2. Inv /\ [Next]_vars => Inv'
  <2> SUFFICES ASSUME Inv, [Next]_vars PROVE Inv'
      OBVIOUS
  <2>1. MInv' /\ MarkedReachable'
        BY NextMInv, NextMarkedReachable
  <2>2. WInv'
        BY <2>1, NextWInv
  <2> QED
        BY <2>1, <2>2
<1>3. Inv => WeakPointersSettled
      BY WInvImplies
<1> HIDE DEF Inv
<1> QED
      BY <1>1, <1>2, <1>3, PTL DEF Spec

=============================================================================
