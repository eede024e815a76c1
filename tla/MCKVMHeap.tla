------------------------------ MODULE MCKVMHeap ------------------------------
EXTENDS KVMHeap

(* The variables of the program are interchangeable.                       *)
SlotSymmetry == Permutations(Slots)

(* Which identity an object has makes no difference, nor does the pointer  *)
(* in one that is unreachable: states that differ in no more are the same. *)
HeapView ==
  LET live == Marked(block, roots)
  IN  << [a \in DOMAIN block |->
            << block[a].size, block[a].asked, IsFree(block, a),
               IF a \in live THEN block[a].field ELSE NULL >>],
         FirstFreeChunk, CurrentHeapEnd, PermanentSpaceFreePtr, permanent,
         roots, failed >>
==============================================================================
