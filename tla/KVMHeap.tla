------------------------------ MODULE KVMHeap ------------------------------
(***************************************************************************)
(* The heap of the KVM (collector.c, garbage.c): InitializeHeap,           *)
(* mallocHeapObject and allocateFreeChunk, garbageCollectForReal with      *)
(* sweepTheHeap, callocPermanentObject, and a program that allocates       *)
(* objects, links them and drops them.                                     *)
(*                                                                         *)
(* The heap is a row of blocks, objects and free chunks, each a header     *)
(* cell and size cells.  An address is the number of a block's header      *)
(* cell.  The marking is by its result (HeapMarker has its steps), and so  *)
(* is the sliding of objects (HeapCompactor has it cell by cell).          *)
(***************************************************************************)
EXTENDS Integers, Sequences, FiniteSets, SequencesExt, FiniteSetsExt, TLC

CONSTANTS
  VMHeapSize,       \* cells from AllHeapStart to AllHeapEnd
  Slots,            \* the roots: variables of the program
  Sizes,            \* bound: the sizes in cells programs ask for
  PermanentSizes,   \* bound: the same for permanent objects
  PermanentStep,    \* the unit permanent space grows by (0x800 bytes)
  MaxPermanent,     \* bound: how many permanent objects there are
  PermanentWhenFull,\* is permanent memory asked for when live objects fill the heap
  NULL

HEADERSIZE == 1
Cells == 0 .. VMHeapSize - 1
Ids == 1 .. VMHeapSize \div 2

ASSUME HeapAssumption ==
  /\ VMHeapSize \in Nat /\ VMHeapSize >= 2
  /\ Sizes \subseteq Nat /\ PermanentSizes \subseteq Nat \ {0}
  /\ PermanentStep \in Nat \ {0} /\ MaxPermanent \in Nat
  /\ PermanentWhenFull \in BOOLEAN
  /\ NULL \notin Nat

VARIABLES
  block,            \* address -> [size, id, asked, field]; id 0 is a free chunk;
                    \* id and asked, the size asked for, are the model's own
  FirstFreeChunk,   \* the free list, a sequence of addresses
  CurrentHeapEnd,
  PermanentSpaceFreePtr,
  permanent,        \* the permanent objects handed out: [at, size]
  roots,            \* [Slots -> an address or NULL]
  failed            \* the real size of the last request if it was for an object
                    \* and raised OutOfMemoryError, 0 otherwise

vars == <<block, FirstFreeChunk, CurrentHeapEnd, PermanentSpaceFreePtr,
          permanent, roots, failed>>

FreeChunk(size) == [size |-> size, id |-> 0, asked |-> 0, field |-> NULL]
IsFree(b, a) == b[a].id = 0
Total(b, a) == b[a].size + HEADERSIZE

\* The addresses of a set, or of the blocks, in order.
InOrder(S) == SelectSeq([i \in 1 .. VMHeapSize |-> i - 1], LAMBDA a : a \in S)

-----------------------------------------------------------------------------
(***************************************************************************)
(* allocateFreeChunk(size): the first chunk that is large enough.  It is   *)
(* taken whole if what would be left is not a chunk, else its end is.      *)
(***************************************************************************)
WorthSplitting(overhead) == overhead > HEADERSIZE

Fits(b, chunk, size) == Total(b, chunk) >= size

Allocate(b, free, size, id, asked) ==
  LET fit == SelectInSeq(free, LAMBDA c : Fits(b, c, size))
      chunk == free[fit]
      overhead == Total(b, chunk) - size
      Object(n) == [size |-> n - HEADERSIZE, id |-> id, asked |-> asked, field |-> NULL]
  IN  IF fit = 0 THEN [at |-> NULL, block |-> b, free |-> free]
      ELSE IF WorthSplitting(overhead)
      THEN [at |-> chunk + overhead,
            block |-> chunk + overhead :> Object(size) @@
                       [b EXCEPT ![chunk].size = overhead - HEADERSIZE],
            free |-> free]
      ELSE [at |-> chunk,
            block |-> [b EXCEPT ![chunk] = Object(size + overhead)],
            free |-> RemoveAt(free, fit)]

-----------------------------------------------------------------------------
(***************************************************************************)
(* garbageCollectForReal(realSize).                                        *)
(***************************************************************************)
Marked(b, r) ==
  LET from == {r[x] : x \in Slots} \cap DOMAIN b
      reach[n \in 0 .. VMHeapSize \div 2] ==
        IF n = 0 THEN from
        ELSE reach[n - 1] \cup ({b[a].field : a \in reach[n - 1]} \cap DOMAIN b)
  IN  reach[VMHeapSize \div 2]

\* Fault: the header of a block that joins a run is lost.
Joined_NoHeader(b, first, cells) == [b EXCEPT ![first].size = @ + cells - HEADERSIZE]

Joined(b, first, cells) == [b EXCEPT ![first].size = @ + cells]

\* sweepTheHeap: every run of blocks that are not kept becomes one chunk.
Sweep(b, kept) ==
  LET Step(s, a) ==
        CASE a \in kept -> [run |-> NULL, block |-> s.block @@ a :> b[a]]
          [] a \notin kept /\ s.run = NULL ->
               [run |-> a, block |-> s.block @@ a :> FreeChunk(b[a].size)]
          [] OTHER -> [s EXCEPT !.block = Joined(@, s.run, Total(b, a))]
  IN  FoldLeft(Step, [run |-> NULL, block |-> <<>>], InOrder(DOMAIN b)).block

FreeOf(b) == InOrder({a \in DOMAIN b : IsFree(b, a)})
MaximumFreeSize(b) == Max({0} \cup {b[a].size : a \in {c \in DOMAIN b : IsFree(b, c)}})

\* compactTheHeap and updatePointer: an object moves by the free cells below.
FreeBelow(b, a) ==
  LET below == {c \in DOMAIN b : c < a /\ IsFree(b, c)}
  IN  FoldSet(LAMBDA c, n : n + Total(b, c), 0, below)
MovedTo(b, a) == a - FreeBelow(b, a)

\* Fault: the pointers of roots, or of objects, are not brought up to date.
UpdatePointer_Not(b, p) == p

UpdatePointer(b, p) == IF p = NULL THEN NULL ELSE MovedTo(b, p)

LastChunk(freeStart, end) ==
  IF freeStart < end - 1
  THEN freeStart :> FreeChunk(end - freeStart - HEADERSIZE)
  ELSE <<>>

Compact(b, end) ==
  LET kept == {a \in DOMAIN b : ~IsFree(b, a)}
      freeStart == end - FreeBelow(b, end)
      old(a) == CHOOSE o \in kept : MovedTo(b, o) = a
      moved == [a \in {MovedTo(b, o) : o \in kept} |->
                  [b[old(a)] EXCEPT !.field = UpdatePointer(b, @)]]
  IN  moved @@ LastChunk(freeStart, end)

\* Fault: a header is counted for the chunk that it does not have.
MustCompact_Late(b, realSize) == realSize > MaximumFreeSize(b) + 2 * HEADERSIZE

MustCompact(b, realSize) == realSize > MaximumFreeSize(b)

Collected(realSize) ==
  LET swept == Sweep(block, Marked(block, roots))
  IN  IF MustCompact(swept, realSize)
      THEN LET b == Compact(swept, CurrentHeapEnd)
           IN  [block |-> b, free |-> FreeOf(b),
                roots |-> [x \in Slots |-> UpdatePointer(swept, roots[x])]]
      ELSE [block |-> swept, free |-> FreeOf(swept), roots |-> roots]

-----------------------------------------------------------------------------
Init ==
  /\ block = 0 :> FreeChunk(VMHeapSize - HEADERSIZE)
  /\ FirstFreeChunk = <<0>>
  /\ CurrentHeapEnd = VMHeapSize
  /\ PermanentSpaceFreePtr = VMHeapSize
  /\ permanent = {}
  /\ roots = [x \in Slots |-> NULL]
  /\ failed = 0

permanentVars == <<CurrentHeapEnd, PermanentSpaceFreePtr, permanent>>

RealSize(size) == (IF size = 0 THEN 1 ELSE size) + HEADERSIZE

(* The new object's identity is one that no block has.                     *)
Malloc(b, free, size) ==
  LET used == {b[a].id : a \in DOMAIN b}
  IN  Allocate(b, free, RealSize(size), Min((Ids \cup {VMHeapSize}) \ used), size)

\* The result of mallocHeapObject goes to a root.
Receive(x, alloc, r) ==
  /\ block' = alloc.block
  /\ FirstFreeChunk' = alloc.free
  /\ roots' = [r EXCEPT ![x] = alloc.at]

\* callocObject: a free chunk is there at once.
New(x) ==
  /\ \E size \in Sizes :
       LET alloc == Malloc(block, FirstFreeChunk, size)
       IN  alloc.at # NULL /\ Receive(x, alloc, roots)
  /\ failed' = 0
  /\ UNCHANGED permanentVars

\* callocObject: there is none before the heap is collected, and perhaps
\* none after that: THROW(OutOfMemoryObject).
NewAfterCollection(x) ==
  \E size \in Sizes :
    LET realSize == RealSize(size)
        gc == Collected(realSize)
        alloc == Malloc(gc.block, gc.free, size)
    IN  /\ Malloc(block, FirstFreeChunk, size).at = NULL
        /\ \/ /\ alloc.at # NULL
              /\ Receive(x, alloc, gc.roots)
              /\ failed' = 0
           \/ /\ alloc.at = NULL
              /\ block' = gc.block /\ FirstFreeChunk' = gc.free /\ roots' = gc.roots
              /\ failed' = realSize
        /\ UNCHANGED permanentVars

\* The bytecodes of the program.
SetRoot(x, p) ==
  /\ roots' = [roots EXCEPT ![x] = p]
  /\ failed' = 0
  /\ UNCHANGED <<block, FirstFreeChunk, permanentVars>>

Clear(x) == roots[x] # NULL /\ SetRoot(x, NULL)
Copy(x, y) == roots[x] # roots[y] /\ SetRoot(x, roots[y])
GetField(x, y) == roots[y] # NULL /\ SetRoot(x, block[roots[y]].field)

PutField(x, y) ==
  /\ roots[x] # NULL
  /\ block' = [block EXCEPT ![roots[x]].field = roots[y]]
  /\ failed' = 0
  /\ UNCHANGED <<FirstFreeChunk, permanentVars, roots>>

\* System.gc(): garbageCollect(0).
GC ==
  /\ LET gc == Collected(0)
     IN  block' = gc.block /\ FirstFreeChunk' = gc.free /\ roots' = gc.roots
  /\ failed' = 0
  /\ UNCHANGED permanentVars

-----------------------------------------------------------------------------
(***************************************************************************)
(* callocPermanentObject(size).  Permanent space goes from CurrentHeapEnd  *)
(* to AllHeapEnd and is handed out downwards.                              *)
(***************************************************************************)
HandOut(result, size) ==
  /\ PermanentSpaceFreePtr' = result
  /\ permanent' = permanent \cup {[at |-> result, size |-> size]}

PermanentFits(size) ==
  LET result == PermanentSpaceFreePtr - size
  IN  /\ result >= CurrentHeapEnd
      /\ HandOut(result, size)
      /\ failed' = 0
      /\ UNCHANGED <<block, FirstFreeChunk, CurrentHeapEnd, roots>>

\* The heap gives up whole steps: the new end is the first at or below result.
NewPermanentSpace(result) ==
  CurrentHeapEnd - PermanentStep * (1 + (CurrentHeapEnd - result - 1) \div PermanentStep)

RoomToExpand(space, firstFree) == space >= firstFree + 2 * HEADERSIZE

(* The collection is forced to compact, by asking for more than there is.  *)
(* The code then takes the free chunk for granted: when live objects fill  *)
(* the heap it writes through FirstFreeChunk == NULL.                      *)
ExpandPermanent(size) ==
  LET result == PermanentSpaceFreePtr - size
      space == NewPermanentSpace(result)
      gc == Collected(VMHeapSize)
      full == gc.free = <<>>
  IN  /\ result < CurrentHeapEnd
      /\ full => PermanentWhenFull
      /\ roots' = gc.roots
      /\ IF ~full /\ ~RoomToExpand(space, Head(gc.free))
         THEN /\ block' = gc.block /\ FirstFreeChunk' = gc.free
              /\ PermanentSpaceFreePtr' = result
              /\ UNCHANGED <<CurrentHeapEnd, permanent>>
         ELSE /\ block' = IF full THEN gc.block
                          ELSE [gc.block EXCEPT ![Head(gc.free)].size =
                                  space - Head(gc.free) - HEADERSIZE]
              /\ FirstFreeChunk' = gc.free
              /\ CurrentHeapEnd' = space
              /\ HandOut(result, size)
      /\ failed' = 0

\* A request that fails lowers PermanentSpaceFreePtr all the same, which
\* leaves it in the heap; bound: no other request is made after that.
CallocPermanentObject ==
  /\ Cardinality(permanent) < MaxPermanent
  /\ PermanentSpaceFreePtr >= CurrentHeapEnd
  /\ \E size \in PermanentSizes : PermanentFits(size) \/ ExpandPermanent(size)

Next ==
  \/ \E x \in Slots :
       \/ New(x) \/ NewAfterCollection(x) \/ Clear(x)
       \/ \E y \in Slots : Copy(x, y) \/ GetField(x, y) \/ PutField(x, y)
  \/ GC
  \/ CallocPermanentObject

Spec == Init /\ [][Next]_vars
(***************************************************************************)
(* Properties.                                                             *)
(***************************************************************************)
TypeOK ==
  /\ DOMAIN block \subseteq Cells
  /\ \A a \in DOMAIN block : /\ block[a].size \in 1 .. VMHeapSize - 1
                             /\ block[a].id \in Ids \cup {0}
                             /\ block[a].field \in Cells \cup {NULL}
  /\ CurrentHeapEnd \in 1 .. VMHeapSize
  /\ roots \in [Slots -> Cells \cup {NULL}]
  /\ failed \in 0 .. VMHeapSize

\* The headers tile the heap: by adding up sizes, as the scanner and the
\* sweeper do, one gets from CurrentHeap to CurrentHeapEnd and meets every
\* block, and the free list holds the free ones, in order of address.
HeapTiled ==
  /\ 0 \in DOMAIN block
  /\ \A a \in DOMAIN block :
       /\ a + Total(block, a) \in DOMAIN block \cup {CurrentHeapEnd}
       /\ \A c \in DOMAIN block : c > a => c >= a + Total(block, a)
  /\ FirstFreeChunk = FreeOf(block)

\* An object has the cells that were asked for and at most one more, and it
\* is the only one that was given them.
AllocationExact ==
  \A a \in {c \in DOMAIN block : ~IsFree(block, c)} :
    /\ Total(block, a) - RealSize(block[a].asked) \in {0, 1}
    /\ \A c \in DOMAIN block : block[c].id = block[a].id => c = a

\* OutOfMemoryError is raised for want of memory and not of order: the live
\* objects and the new one together are larger than the heap.
FailsOnlyWhenFull ==
  failed # 0 =>
    LET live == Marked(block, roots)
    IN  FoldSet(LAMBDA a, n : n + Total(block, a), failed, live) > CurrentHeapEnd

\* "Permanent space goes from CurrentHeapEnd to AllHeapEnd": no permanent
\* object shares a cell with the heap, or with another one.
PermanentSpaceIsSeparate ==
  \A p \in permanent :
    /\ p.at >= CurrentHeapEnd /\ p.at + p.size <= VMHeapSize
    /\ \A q \in permanent \ {p} : p.at + p.size <= q.at \/ q.at + q.size <= p.at

\* Allocator, sweeper, compactor and permanent space, which divide the same
\* memory by different computations, agree on who has which cell.
HeapInvariant ==
  TypeOK /\ HeapTiled /\ AllocationExact /\ PermanentSpaceIsSeparate

\* To the program the heap is the store of its reachable objects: neither
\* the allocator nor a collection, whether it compacts or not, changes what
\* it can see (garbage collection is a stuttering step).
IdAt(p) == CASE p = NULL         -> NULL
             [] p \in DOMAIN block -> block[p].id
             [] OTHER            -> 0     \* it dangles
AddressOf(i) == CHOOSE a \in DOMAIN block : block[a].id = i

Store == INSTANCE ObjectStore WITH
  roots <- [x \in Slots |-> IdAt(roots[x])],
  store <- [i \in {block[a].id : a \in Marked(block, roots)} |->
              [size  |-> block[AddressOf(i)].asked,
               field |-> IdAt(block[AddressOf(i)].field)]]

ImplementsObjectStore == Store!Spec
=============================================================================
