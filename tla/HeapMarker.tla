----------------------------- MODULE HeapMarker -----------------------------
(***************************************************************************)
(* The marking phase of the collector (collector.c): markRootObjects,      *)
(* markNonRootObjects, markChildren with its table of deferred objects,    *)
(* markWeakPointerLists and markWeakReferences.                            *)
(*                                                                         *)
(* One scanner goes through the heap once and calls markChildren for every *)
(* marked object it meets.  markChildren marks the children; it goes into  *)
(* those the scanner has passed (their address is below its limit), as it  *)
(* will come to the others.  It avoids recursion: the last such child is   *)
(* the next one of its own loop, recursion has a limited depth, below it   *)
(* the object is put on the deferred table, and when that table is full    *)
(* the object is dropped and the whole heap scanned once more.             *)
(*                                                                         *)
(* An object is the number of its place in the heap.  Its type is          *)
(* "strong" for all that have their pointers marked (GCT_INSTANCE,         *)
(* GCT_OBJECTARRAY, GCT_POINTERLIST; one without pointers has none to      *)
(* mark), "reference" for GCT_WEAKREFERENCE, "list" for                    *)
(* GCT_WEAKPOINTERLIST.  The call stack of markChildren is stack.          *)
(***************************************************************************)
EXTENDS Integers, Sequences, FiniteSets

CONSTANTS
  HeapLen,          \* how many objects the heap holds
  Graphs,           \* the object graphs; see GraphsAssumption
  Layouts,          \* the orders of a graph's nodes in the heap
  MAX_GC_DEPTH,
  DEFERRED_OBJECT_TABLE_SIZE,
  NULL

Heap == 1 .. HeapLen

(* fields are the pointers of each node, weak its weak ones: the referent  *)
(* of a reference, the data of a list, NULL where there is none any more.  *)
ASSUME GraphsAssumption ==
  /\ HeapLen \in Nat \ {0} /\ NULL \notin Heap
  /\ \A g \in Graphs :
        /\ g.type \in [Heap -> {"strong", "reference", "list"}]
        /\ g.fields \in [Heap -> Seq(Heap)]
        /\ g.weak \in [Heap -> Seq(Heap \cup {NULL})]
        /\ \A n \in Heap : g.type[n] = "strong" => g.weak[n] = <<>>
        /\ g.roots \subseteq Heap
  /\ \A p \in Layouts : p \in [Heap -> Heap] /\ \A i, j \in Heap : p[i] = p[j] => i = j
  /\ MAX_GC_DEPTH \in Nat /\ DEFERRED_OBJECT_TABLE_SIZE \in Nat \ {0}

VARIABLES
  type, fields, weak, roots,    \* the heap; marking changes only weak
  marked,           \* the objects whose header has the MARKBIT
  pc,               \* "roots", "scan", "lists", "references", "done"
  scanner,          \* of markNonRootObjects
  stack,            \* the active calls of markChildren, innermost first
  deferred,         \* the deferred object table, a queue
  overflow,         \* deferredObjectTableOverflow
  WeakPointers,     \* the linked lists of weak objects met
  WeakReferences,
  registered,       \* history: the objects that had a native finalizer at first
  finalized         \* history: how often it was called with each object

heapVars == <<type, fields, roots, registered>>
scanVars == <<scanner, stack, deferred, overflow, WeakPointers, WeakReferences>>
vars == <<heapVars, weak, marked, pc, scanVars, finalized>>

\* The strong pointers of an object, whatever its type.
Strong(o) == {fields[o][i] : i \in DOMAIN fields[o]}

Reachable ==
  LET reach[n \in 0 .. HeapLen] ==
        IF n = 0 THEN roots
        ELSE reach[n - 1] \cup UNION {Strong(o) : o \in reach[n - 1]}
  IN  reach[HeapLen]

Elements(s) == {s[i] : i \in DOMAIN s}

\* The objects in the lists that are in use: registerCleanup leaves the old
\* list behind when it makes one longer.
Registered ==
  {o \in Heap : \E l \in Reachable : type[l] = "list" /\ o \in Elements(weak[l])}

Init ==
  /\ \E g \in Graphs, p \in Layouts :
       LET at(a) == CHOOSE n \in Heap : p[n] = a
           Moved(s) == [i \in DOMAIN s |-> IF s[i] = NULL THEN NULL ELSE p[s[i]]]
       IN  /\ type = [a \in Heap |-> g.type[at(a)]]
           /\ fields = [a \in Heap |-> Moved(g.fields[at(a)])]
           /\ weak = [a \in Heap |-> Moved(g.weak[at(a)])]
           /\ roots = {p[n] : n \in g.roots}
  /\ marked = {} /\ pc = "roots" /\ scanner = 1
  /\ stack = <<>> /\ deferred = <<>> /\ overflow = FALSE
  /\ WeakPointers = <<>> /\ WeakReferences = <<>>
  /\ registered = Registered /\ finalized = [o \in Heap |-> 0]

(***************************************************************************)
(* markRootObjects marks the objects the roots point to, not their         *)
(* children; then the first scan begins.                                   *)
(***************************************************************************)
\* Fault: a rescan finds the flag of the last one still set.
BeginScan_KeepsFlag ==
  /\ scanner' = 1
  /\ deferred' = <<>>
  /\ UNCHANGED overflow
  /\ WeakPointers' = <<>> /\ WeakReferences' = <<>>
  /\ UNCHANGED stack

\* initializeDeferredObjectTable, and no weak object has been met.
BeginScan ==
  /\ scanner' = 1
  /\ deferred' = <<>> /\ overflow' = FALSE
  /\ WeakPointers' = <<>> /\ WeakReferences' = <<>>
  /\ UNCHANGED stack

MarkRootObjects ==
  /\ pc = "roots"
  /\ marked' = roots
  /\ pc' = "scan"
  /\ BeginScan
  /\ UNCHANGED <<heapVars, weak, finalized>>

(***************************************************************************)
(* markChildren.  A call has the object it looks at, the index of its next *)
(* field, nextObject, and remainingDepth, which it decrements on entry.    *)
(* limit is the place of the scanner in all of them.                       *)
(***************************************************************************)
Call(o, remainingDepth) ==
  [object |-> o, field |-> 1, nextObject |-> NULL, depth |-> remainingDepth - 1]

top == stack[1]
Goto(call, o) == [object |-> o, field |-> 1, nextObject |-> NULL, depth |-> call.depth]

\* The pointers the switch on the type goes through.
Children(o) == IF type[o] = "strong" THEN fields[o] ELSE <<>>

\* Fault: the limit is one object too low.
Passed_TooLow(child) == child < scanner - 1

\* The scanner has passed the child and will not come to it any more.
Passed(child) == child < scanner

\* Fault: an object that does not fit is forgotten.
PutDeferred_Silent(o) ==
  /\ deferred' = IF Len(deferred) >= DEFERRED_OBJECT_TABLE_SIZE
                 THEN deferred ELSE Append(deferred, o)
  /\ UNCHANGED overflow

PutDeferred(o) ==
  IF Len(deferred) >= DEFERRED_OBJECT_TABLE_SIZE
  THEN overflow' = TRUE /\ UNCHANGED deferred
  ELSE deferred' = Append(deferred, o) /\ UNCHANGED overflow

MayRecurse == top.depth >= 0

\* RECURSE: the call itself, or a place in the table.
Recurse(o, caller) ==
  \/ /\ MayRecurse
     /\ stack' = <<Call(o, top.depth), caller>> \o Tail(stack)
     /\ UNCHANGED <<deferred, overflow>>
  \/ /\ ~MayRecurse
     /\ stack' = <<caller>> \o Tail(stack)
     /\ PutDeferred(o)

\* MARK_AND_TAIL_RECURSE of the next field.
MarkChild ==
  /\ pc = "scan" /\ stack # <<>>
  /\ top.field <= Len(Children(top.object))
  /\ LET child == Children(top.object)[top.field]
         later == [top EXCEPT !.field = @ + 1]
     IN  \/ /\ child \in marked \/ ~Passed(child)
            /\ marked' = marked \cup {child}
            /\ stack' = <<later>> \o Tail(stack)
            /\ UNCHANGED <<deferred, overflow>>
         \/ /\ child \notin marked /\ Passed(child)
            /\ marked' = marked \cup {child}
            /\ IF top.nextObject = NULL
               THEN /\ stack' = <<[later EXCEPT !.nextObject = child]>> \o Tail(stack)
                    /\ UNCHANGED <<deferred, overflow>>
               ELSE Recurse(top.nextObject, [later EXCEPT !.nextObject = child])
  /\ UNCHANGED <<heapVars, weak, pc, scanner, WeakPointers, WeakReferences, finalized>>

\* A weak object is pushed on its list; its weak pointers are not marked.
PushWeak(o) ==
  /\ WeakPointers' = IF type[o] = "list" THEN <<o>> \o WeakPointers ELSE WeakPointers
  /\ WeakReferences' = IF type[o] = "reference" THEN <<o>> \o WeakReferences
                                                ELSE WeakReferences

Outermost == top.depth = MAX_GC_DEPTH - 1

\* All fields are done: on to nextObject, to a deferred object, or return.
FinishObject ==
  /\ pc = "scan" /\ stack # <<>>
  /\ top.field > Len(Children(top.object))
  /\ PushWeak(top.object)
  /\ \/ /\ top.nextObject # NULL
        /\ stack' = <<Goto(top, top.nextObject)>> \o Tail(stack)
        /\ UNCHANGED <<scanner, deferred>>
     \/ /\ top.nextObject = NULL /\ Outermost /\ deferred # <<>>
        /\ stack' = <<Goto(top, Head(deferred))>> \o Tail(stack)
        /\ deferred' = Tail(deferred)
        /\ UNCHANGED scanner
     \/ /\ top.nextObject = NULL /\ ~(Outermost /\ deferred # <<>>)
        /\ stack' = Tail(stack)
        /\ scanner' = IF Len(stack) = 1 THEN scanner + 1 ELSE scanner
        /\ UNCHANGED deferred
  /\ UNCHANGED <<heapVars, weak, marked, pc, overflow, finalized>>

(***************************************************************************)
(* markNonRootObjects.                                                     *)
(***************************************************************************)
ScanObject ==
  /\ pc = "scan" /\ stack = <<>> /\ scanner <= HeapLen
  /\ IF scanner \in marked
     THEN stack' = <<Call(scanner, MAX_GC_DEPTH)>> /\ UNCHANGED scanner
     ELSE scanner' = scanner + 1 /\ UNCHANGED stack
  /\ UNCHANGED <<heapVars, weak, marked, pc, deferred, overflow, WeakPointers,
                 WeakReferences, finalized>>

EndScan ==
  /\ pc = "scan" /\ stack = <<>> /\ scanner > HeapLen
  /\ \/ /\ overflow
        /\ BeginScan
        /\ UNCHANGED pc
     \/ /\ ~overflow
        /\ pc' = "lists"
        /\ UNCHANGED scanVars
  /\ UNCHANGED <<heapVars, weak, marked, finalized>>

(***************************************************************************)
(* The weak objects.  The pointers of the next of a list to objects that   *)
(* are not kept become NULL; a weak pointer list has its finalizer called  *)
(* for each of them.                                                       *)
(***************************************************************************)
\* Fault: the pointer is left in the list.
Cleared_Not(s) == s

Kept(o) == o \in marked
Cleared(s) == [i \in DOMAIN s |-> IF Kept(s[i]) THEN s[i] ELSE NULL]

\* The places of the list where the finalizer is called with o.
FinalizerCalls(list, o) == {i \in DOMAIN weak[list] : weak[list][i] = o /\ ~Kept(o)}

MarkWeakPointerList ==
  /\ pc = "lists" /\ WeakPointers # <<>>
  /\ LET list == Head(WeakPointers)
     IN  /\ finalized' = [o \in Heap |-> finalized[o] + Cardinality(FinalizerCalls(list, o))]
         /\ weak' = [weak EXCEPT ![list] = Cleared(@)]
  /\ WeakPointers' = Tail(WeakPointers)
  /\ UNCHANGED <<heapVars, marked, pc, scanner, stack, deferred, overflow, WeakReferences>>

EndWeakPointerLists ==
  /\ pc = "lists" /\ WeakPointers = <<>>
  /\ pc' = "references"
  /\ UNCHANGED <<heapVars, weak, marked, scanVars, finalized>>

MarkWeakReference ==
  /\ pc = "references" /\ WeakReferences # <<>>
  /\ weak' = [weak EXCEPT ![Head(WeakReferences)] = Cleared(@)]
  /\ WeakReferences' = Tail(WeakReferences)
  /\ UNCHANGED <<heapVars, marked, pc, scanner, stack, deferred, overflow,
                 WeakPointers, finalized>>

EndWeakReferences ==
  /\ pc = "references" /\ WeakReferences = <<>>
  /\ pc' = "done"
  /\ UNCHANGED <<heapVars, weak, marked, scanVars, finalized>>

Return == pc = "done" /\ UNCHANGED vars

Next == \/ MarkRootObjects \/ ScanObject \/ MarkChild \/ FinishObject \/ EndScan
        \/ MarkWeakPointerList \/ EndWeakPointerLists
        \/ MarkWeakReference \/ EndWeakReferences
        \/ Return
Spec == Init /\ [][Next]_vars

\* The collector runs to its end, nothing else runs meanwhile.
FairSpec == Spec /\ WF_vars(Next)

(***************************************************************************)
(* Properties.                                                             *)
(***************************************************************************)
HasNoDuplicates(s) == Cardinality(Elements(s)) = Len(s)

TypeOK ==
  /\ marked \subseteq Heap
  /\ pc \in {"roots", "scan", "lists", "references", "done"}
  /\ scanner \in 1 .. HeapLen + 1
  /\ overflow \in BOOLEAN
  /\ deferred \in Seq(Heap) /\ Len(deferred) <= DEFERRED_OBJECT_TABLE_SIZE
  /\ WeakPointers \in Seq(Heap) /\ WeakReferences \in Seq(Heap)
  /\ \A i \in DOMAIN stack :
       /\ stack[i].object \in Heap /\ stack[i].nextObject \in Heap \cup {NULL}
       /\ stack[i].depth \in -1 .. MAX_GC_DEPTH - 1

\* The recursion is bounded: the C stack holds MAX_GC_DEPTH + 1 calls at most.
RecursionBounded == Len(stack) <= MAX_GC_DEPTH + 1

\* After the scans exactly the objects a root leads to are marked: none of
\* them was lost below the scanner, on the stack, in the table or by its
\* overflow ("recursively marking all those objects that are reachable").
MarkedIsReachable == pc \notin {"roots", "scan"} => marked = Reachable

\* A marked object with a child that is not is still to be visited: the
\* scanner is to come to it, a call has it, the table has it, or the heap
\* will be scanned again.
NothingForgotten ==
  pc = "scan" =>
    \A o \in marked :
      (\E i \in DOMAIN Children(o) : Children(o)[i] \notin marked) =>
        \/ overflow
        \/ o >= scanner
        \/ o \in Elements(deferred)
        \/ \E i \in DOMAIN stack : o \in {stack[i].object, stack[i].nextObject}

\* The weak objects are chained through a field of their own (gcReserved):
\* one that is pushed twice in a scan would close the chain into a ring, one
\* that is not pushed would keep its dead pointers.
WeakListsExact ==
  /\ HasNoDuplicates(WeakPointers) /\ HasNoDuplicates(WeakReferences)
  /\ pc = "lists" =>
       Elements(WeakReferences) = {o \in Reachable : type[o] = "reference"}

\* Collection leaves no weak pointer to an object it frees, in a list or in
\* a reference that stays.
NoDanglingWeakPointer ==
  pc = "done" => \A o \in marked : Elements(weak[o]) \subseteq marked \cup {NULL}

\* The finalizer is called for the registered objects that are freed, for
\* each of them once, and for no other.
FinalizedOnce ==
  \A o \in Heap :
    /\ finalized[o] <= 1
    /\ pc = "done" => (finalized[o] = 1 <=> o \in registered /\ o \notin Reachable)

\* The invariant of the bounded recursion: with MAX_GC_DEPTH calls and a
\* table that may overflow no object that still has to be visited is lost.
MarkInvariant == TypeOK /\ RecursionBounded /\ NothingForgotten

\* Weak objects, the pointers in them and finalizers agree with what the
\* scans, which may be several, marked in the end.
WeakPointersSettled == WeakListsExact /\ NoDanglingWeakPointer /\ FinalizedOnce

\* However often the table overflows, the marking ends.
MarkingEnds == <>(pc = "done")
=============================================================================
