---------------------------- MODULE HeapCompactor ----------------------------
(***************************************************************************)
(* The sliding compaction of the collector (collector.c): compactTheHeap,  *)
(* slideObject, sortBreakTable and updatePointer, cell by cell.            *)
(*                                                                         *)
(* The collector slides every run of live objects to the bottom of the     *)
(* heap and needs a break table, one entry of two cells per run it moved,  *)
(* to correct the pointers afterwards.  There is no memory for the table   *)
(* but the holes that the moves leave, so the table travels up the heap    *)
(* ahead of the objects, and slideObject moves the two around each other   *)
(* in five different ways, one of which leaves the table out of order.     *)
(*                                                                         *)
(* The model starts where sweepTheHeap returns: the cells of the heap are  *)
(* tiled by runs of live objects and free chunks, in turn, each of two     *)
(* cells or more (an object and a free chunk have a header and at least    *)
(* one cell).  An address is a cell number and sizes are in cells; a       *)
(* break table entry is a pointer and a long, two cells.  The contents of  *)
(* a live cell are opaque to the compaction: the model gives every one     *)
(* its own value, <<"cell", a>> for the cell that was at address a.        *)
(***************************************************************************)
EXTENDS Integers, Sequences, SequencesExt

CONSTANT HeapSize       \* the cells from CurrentHeap to CurrentHeapEnd

ASSUME HeapSizeAssumption == HeapSize \in Nat /\ HeapSize >= 2

VARIABLES
  chunks,       \* the free list: free chunks [start, end], in address order
  mem,          \* the contents of the cells
  pc,           \* "run": compactTheHeap looks at a run of live objects,
                \* "slide": slideObject at moreFreeSpaceBeforeTable,
                \* "sort": the loop has ended, "done": returned
  scanner, copyTarget, count, freeChunk, table, lastRoll,
                \* the locals of compactTheHeap; freeChunk is an index
  live,         \* the start of the run being moved
  target, object, objectSize, extraSize
                \* the parameters of slideObject

vars == <<chunks, mem, pc, scanner, copyTarget, count, freeChunk, table,
          lastRoll, live, target, object, objectSize, extraSize>>
slideParams == <<target, object, objectSize, extraSize>>

Cells == 0 .. HeapSize - 1
EntrySize == 2          \* sizeof(breakTableEntryStruct), in cells

(***************************************************************************)
(* Memory.                                                                 *)
(***************************************************************************)
Memmove(m, dst, src, n) ==
  [c \in Cells |-> IF c \in dst .. dst + n - 1 THEN m[src + (c - dst)] ELSE m[c]]

\* The loops of slideObject copy cell by cell, over ranges that may overlap.
Upto(n) == [i \in 1 .. n |-> i - 1]

SwapCells(m, a, b, n) ==
  FoldLeft(LAMBDA mm, i : [mm EXCEPT ![a + i] = mm[b + i], ![b + i] = mm[a + i]],
           m, Upto(n))

\* The object goes down to old while the table goes from old up to new.
ShiftCells(m, old, new, obj, nobj, ntable) ==
  LET both == FoldLeft(LAMBDA mm, i : [[mm EXCEPT ![new + i] = mm[old + i]]
                                           EXCEPT ![old + i] = mm[obj + i]],
                       m, Upto(nobj))
  IN  FoldLeft(LAMBDA mm, i : IF i < nobj THEN mm ELSE [mm EXCEPT ![new + i] = mm[old + i]],
               both, Upto(ntable))

\* The first cells of the table go behind its end, the object in their place.
RollCells(m, t, end, obj, nobj) ==
  FoldLeft(LAMBDA mm, i : [[mm EXCEPT ![t + i] = mm[obj + i]]
                              EXCEPT ![end + i] = mm[t + i]],
           m, Upto(nobj))

(***************************************************************************)
(* The break table: n entries at t, each an address and an offset.         *)
(***************************************************************************)
Entry(m, t, i) == [address |-> m[t + EntrySize * i][2],
                   offset  |-> m[t + EntrySize * i + 1][2]]
Entries(m, t, n) == [i \in 1 .. n |-> Entry(m, t, i - 1)]

PutEntry(m, t, i, addr, off) ==
  [m EXCEPT ![t + EntrySize * i]     = <<"address", addr>>,
            ![t + EntrySize * i + 1] = <<"offset", off>>]

\* Fault: the loop over the entries stops one short of currentEnd.
SortBreakTable_OffByOne(m, t, n) ==
  LET sorted == SortSeq(Entries(m, t, n - 1), LAMBDA e, f : e.address < f.address)
  IN  FoldLeft(LAMBDA mm, i : PutEntry(mm, t, i, sorted[i + 1].address,
                                                 sorted[i + 1].offset),
               m, Upto(n - 1))

\* sortBreakTable: the first n entries in order of address.
SortBreakTable(m, t, n) ==
  LET sorted == SortSeq(Entries(m, t, n), LAMBDA e, f : e.address < f.address)
  IN  FoldLeft(LAMBDA mm, i : PutEntry(mm, t, i, sorted[i + 1].address,
                                                 sorted[i + 1].offset),
               m, Upto(n))

\* updatePointer's binary search: the index of the last of the n entries
\* whose address is at most value, -1 if there is none.
BreakIndex(value, n) ==
  LET search[lo \in -1 .. n - 1, hi \in -1 .. n - 1] ==
        IF lo < hi
        THEN LET middle == (lo + hi + 1) \div 2
             IN  IF value >= Entry(mem, table, middle).address
                 THEN search[middle, hi]
                 ELSE search[lo, middle - 1]
        ELSE lo
  IN  search[-1, n - 1]

UpdatePointer(value, n) ==
  LET low == BreakIndex(value, n)
  IN  IF low < 0 THEN value ELSE value - Entry(mem, table, low).offset

(***************************************************************************)
(* What sweepTheHeap leaves.  A layout is given by the addresses where     *)
(* live memory turns free or free memory live.                             *)
(***************************************************************************)
Layouts ==
  {b \in SUBSET (2 .. HeapSize - 2) : \A c, d \in b : c < d => d - c >= 2}

FreeChunks(bounds, firstLive) ==
  LET edges == <<0>> \o SelectSeq(Upto(HeapSize), LAMBDA a : a \in bounds) \o <<HeapSize>>
      isFree(i) == (i % 2 = 1) # firstLive
      runs == [i \in 1 .. Len(edges) - 1 |->
                 [start |-> edges[i], end |-> edges[i + 1], free |-> isFree(i)]]
      free == SelectSeq(runs, LAMBDA r : r.free)
  IN  [i \in 1 .. Len(free) |-> [start |-> free[i].start, end |-> free[i].end]]

Init ==
  /\ \E bounds \in Layouts, firstLive \in BOOLEAN :
        chunks = FreeChunks(bounds, firstLive)
  /\ mem = [a \in Cells |-> <<"cell", a>>]
  /\ pc = "run"
  /\ scanner = 0 /\ copyTarget = 0 /\ count = -1 /\ freeChunk = 1
  /\ table = 0 /\ lastRoll = 0 /\ live = 0
  /\ target = 0 /\ object = 0 /\ objectSize = 0 /\ extraSize = 0

(***************************************************************************)
(* compactTheHeap.  One iteration of its loop takes the run of live        *)
(* objects up to the next free chunk, and that chunk.                      *)
(***************************************************************************)
LiveEnd == IF freeChunk <= Len(chunks) THEN chunks[freeChunk].start ELSE HeapSize
ChunkEnd == IF freeChunk <= Len(chunks) THEN chunks[freeChunk].end ELSE HeapSize

TakeRun ==
  /\ live' = scanner
  /\ scanner' = ChunkEnd
  /\ freeChunk' = freeChunk + 1

\* The loop goes on until the scanner reaches the end of the heap.
NextRun(newScanner) ==
  IF newScanner >= HeapSize
  THEN pc' = "sort" /\ count' = count
  ELSE pc' = "run" /\ count' = count + 1

\* A run at the bottom of the heap stays where it is.
KeepFirstRun ==
  /\ pc = "run" /\ count < 0
  /\ TakeRun
  /\ copyTarget' = LiveEnd
  /\ NextRun(ChunkEnd)
  /\ UNCHANGED <<chunks, mem, table, lastRoll, slideParams>>

FirstTable(end) == end - EntrySize

\* The first run that moves: there is no table yet, the last entry's worth
\* of cells before the scanner is where it begins.
MoveFirstRun ==
  /\ pc = "run" /\ count = 0
  /\ TakeRun
  /\ table' = FirstTable(ChunkEnd)
  /\ mem' = PutEntry(Memmove(mem, copyTarget, scanner, LiveEnd - scanner),
                     FirstTable(ChunkEnd), 0, scanner, scanner - copyTarget)
  /\ copyTarget' = copyTarget + (LiveEnd - scanner)
  /\ NextRun(ChunkEnd)
  /\ UNCHANGED <<chunks, lastRoll, slideParams>>

\* Every later run is moved by slideObject.
SlideRun ==
  /\ pc = "run" /\ count > 0
  /\ TakeRun
  /\ target' = copyTarget
  /\ object' = scanner
  /\ objectSize' = LiveEnd - scanner
  /\ extraSize' = ChunkEnd - LiveEnd
  /\ pc' = "slide"
  /\ UNCHANGED <<chunks, mem, copyTarget, count, table, lastRoll>>

(***************************************************************************)
(* slideObject.                                                            *)
(***************************************************************************)
TableSize == EntrySize * count
FullTableSize == TableSize + EntrySize
FreeSize == table - target      \* Unused #0, before the table

\* slideObject returns: compactTheHeap enters the run in the table.
Slid(m, newTable) ==
  LET runSize == (object + objectSize) - live
  IN  /\ table' = newTable
      /\ mem' = PutEntry(m, newTable, count, live, live - copyTarget)
      /\ copyTarget' = copyTarget + runSize
      /\ NextRun(scanner)
      /\ UNCHANGED <<chunks, scanner, freeChunk, live, slideParams>>

\* Fault: the table is moved though the next entry does not fit.
TableFitsInExtra_Exactly == extraSize >= TableSize

ObjectFits == objectSize <= FreeSize
TableFitsInExtra == extraSize >= FullTableSize

\* The object fits below the table.
SlideBelowTable ==
  /\ pc = "slide"
  /\ ObjectFits
  /\ Slid(Memmove(mem, target, object, objectSize), table)
  /\ UNCHANGED lastRoll

\* The table goes to the end of the free chunk behind the object.
SlideTableAway ==
  /\ pc = "slide"
  /\ ~ObjectFits /\ TableFitsInExtra
  /\ LET newTable == object + objectSize + extraSize - FullTableSize
     IN  Slid(Memmove(Memmove(mem, newTable, table, TableSize),
                      target, object, objectSize),
              newTable)
  /\ UNCHANGED lastRoll

(* Neither: as much of the object as fits goes into Unused #0.  What is    *)
(* left of it is restSize cells at rest, Unused #1 before it is gap cells. *)
Filled == Memmove(mem, target, object, FreeSize)
rest == object + FreeSize
restSize == objectSize - FreeSize
gap == rest - table - TableSize

TableFitsInObject == FullTableSize <= restSize
TableFitsAtEnd == FullTableSize <= restSize + gap

\* The table changes places with the head of the object; the rest of the
\* object is one more object to slide (goto moreFreeSpaceBeforeTable).
SlideSwap ==
  /\ pc = "slide"
  /\ ~ObjectFits /\ ~TableFitsInExtra /\ TableFitsInObject
  /\ mem' = SwapCells(Filled, table, rest, TableSize)
  /\ target' = table + TableSize
  /\ table' = rest
  /\ object' = rest + TableSize
  /\ objectSize' = restSize - TableSize
  /\ UNCHANGED <<chunks, pc, scanner, copyTarget, count, freeChunk, lastRoll,
                 live, extraSize>>

\* The table goes to the end of the object as the object goes down.
SlideShift ==
  /\ pc = "slide"
  /\ ~ObjectFits /\ ~TableFitsInExtra /\ ~TableFitsInObject /\ TableFitsAtEnd
  /\ LET newTable == rest + restSize - FullTableSize
     IN  Slid(ShiftCells(Filled, table, newTable, rest, restSize, TableSize),
              newTable)
  /\ UNCHANGED lastRoll

\* The table is rolled over the object, which leaves its entries rotated.
\* After an odd number of cells it is rolled by one more, into the free
\* space behind it, or in place when only the next entry's cells are free.
SlideRoll ==
  /\ pc = "slide"
  /\ ~ObjectFits /\ ~TableFitsInExtra /\ ~TableFitsInObject /\ ~TableFitsAtEnd
  /\ LET rolled == RollCells(Filled, table, table + TableSize, rest, restSize)
         t == table + restSize
     IN  \/ /\ restSize % 2 = 0
            /\ Slid(rolled, t)
         \/ /\ restSize % 2 = 1 /\ gap + extraSize > EntrySize
            /\ Slid([rolled EXCEPT ![t + TableSize] = rolled[t]], t + 1)
         \/ /\ restSize % 2 = 1 /\ gap + extraSize <= EntrySize
            /\ Slid([Memmove(rolled, t, t + 1, TableSize - 1)
                       EXCEPT ![t + TableSize - 1] = rolled[t]], t)
  /\ lastRoll' = count          \* all entries may be out of order

\* The end of compactTheHeap.
Sort ==
  /\ pc = "sort"
  /\ mem' = IF lastRoll > 0 THEN SortBreakTable(mem, table, lastRoll) ELSE mem
  /\ pc' = "done"
  /\ UNCHANGED <<chunks, scanner, copyTarget, count, freeChunk, table, lastRoll,
                 live, slideParams>>

Return == pc = "done" /\ UNCHANGED vars

Slide == SlideBelowTable \/ SlideTableAway \/ SlideSwap \/ SlideShift \/ SlideRoll
Next == KeepFirstRun \/ MoveFirstRun \/ SlideRun \/ Slide \/ Sort \/ Return
Spec == Init /\ [][Next]_vars

(***************************************************************************)
(* Properties.                                                             *)
(***************************************************************************)
FreeCells == UNION {c.start .. c.end - 1 : c \in {chunks[i] : i \in DOMAIN chunks}}
LiveCells == Cells \ FreeCells

\* The free cells below an address: how far an object there must move.
FreeBelow(a) == FoldLeft(LAMBDA n, c : IF c.start < a THEN n + (c.end - c.start) ELSE n,
                         0, chunks)

\* The runs of live objects that move: all that have a free chunk below.
MovingRuns == {chunks[i].end : i \in DOMAIN chunks} \ {HeapSize}

\* How many entries the break table holds.
TableLength == CASE pc = "run"  -> IF count < 0 THEN 0 ELSE count
                 [] pc = "slide" -> count
                 [] OTHER       -> count + 1

TypeOK ==
  /\ DOMAIN mem = Cells
  /\ pc \in {"run", "slide", "sort", "done"}
  /\ scanner \in 0 .. HeapSize /\ copyTarget \in 0 .. HeapSize
  /\ count \in -1 .. HeapSize /\ lastRoll \in 0 .. HeapSize
  /\ table \in Cells /\ live \in 0 .. HeapSize
  /\ target \in 0 .. HeapSize /\ object \in 0 .. HeapSize
  /\ objectSize \in 0 .. HeapSize /\ extraSize \in 0 .. HeapSize

\* No step of the compaction destroys a cell of a live object that it has
\* not copied yet: the table and the moves use free memory only.
NoLiveCellLost == \A a \in LiveCells : \E c \in Cells : mem[c] = <<"cell", a>>

\* "INV0: size(Unused #0) + size(Unused #1) >= 2 * CELL" and INV1: whenever
\* slideObject begins or goes around its loop, the table, which lies between
\* the target and the object, can take one more entry from the unused space
\* about it, and there is something left to move.
RoomForOneMoreEntry ==
  pc = "slide" =>
    /\ target <= table
    /\ table + TableSize <= object
    /\ (object - target) - TableSize >= EntrySize
    /\ objectSize >= EntrySize
    /\ object + objectSize + extraSize = scanner

\* The break table holds one entry per run moved, with the right distance,
\* however often the table itself was swapped, shifted and rolled.
BreakTableExact ==
  {Entries(mem, table, TableLength)[i] : i \in 1 .. TableLength}
    = {[address |-> r, offset |-> FreeBelow(r)] :
         r \in {s \in MovingRuns : s < IF pc = "slide" THEN live ELSE scanner}}

\* Only the entries below lastRoll can be out of order, and none is left so
\* for the binary search of updatePointer.
OrderKnown ==
  LET n == TableLength
      first == IF pc = "done" THEN 0 ELSE lastRoll
  IN  \A i, j \in 0 .. n - 1 :
        i < j /\ j >= first => Entry(mem, table, i).address < Entry(mem, table, j).address

\* Moving the objects and keeping the table in what they leave free never
\* gets in each other's way; the table is right, and known to be sorted or
\* not, however it travelled.
MoveInvariant ==
  /\ TypeOK
  /\ NoLiveCellLost /\ RoomForOneMoreEntry
  /\ BreakTableExact /\ OrderKnown

\* When the heap is compacted, a pointer to (or into) a live object leads,
\* through updatePointer, to the cell it led to before; and all free memory
\* is above copyTarget, where garbageCollectForReal puts the one free chunk.
PointersFollowObjects ==
  pc = "done" =>
    /\ \A a \in LiveCells : mem[UpdatePointer(a, TableLength)] = <<"cell", a>>
    /\ {UpdatePointer(a, TableLength) : a \in LiveCells} = 0 .. copyTarget - 1
=============================================================================
