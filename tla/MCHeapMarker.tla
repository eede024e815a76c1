---------------------------- MODULE MCHeapMarker ----------------------------
EXTENDS HeapMarker

Strongs == [n \in Heap |-> "strong"]
None == [n \in Heap |-> <<>>]

(* Nodes 1 to 7.  Fan: the inner call defers more than the table holds.    *)
Fan == [type |-> Strongs, weak |-> None, roots |-> {1},
        fields |-> << <<2, 3>>, <<4, 5, 6>>, <<>>, <<>>, <<7>>, <<2>>, <<1>> >>]

(* Shared: every node but one is reached on two ways, or in a ring.        *)
Shared == [type |-> Strongs, weak |-> None, roots |-> {1, 4},
           fields |-> << <<2, 3, 3>>, <<3, 5>>, <<5, 2, 6>>, <<6>>, <<1>>, <<5, 6>>, <<4, 7>> >>]

(* Weak: two references and a list, of which some referents die.           *)
Weak == [type |-> [Strongs EXCEPT ![3] = "reference", ![4] = "list", ![5] = "reference"],
         weak |-> [None EXCEPT ![3] = <<2>>, ![4] = <<2, NULL, 6, 7>>, ![5] = <<7>>],
         roots |-> {1},
         fields |-> << <<2, 4>>, <<3, 6, 5>>, <<>>, <<>>, <<>>, <<>>, <<6>> >>]

(* Deep: the weak objects lie behind the objects that overflow.            *)
Deep == [type |-> [Strongs EXCEPT ![4] = "reference", ![7] = "list"],
         weak |-> [None EXCEPT ![4] = <<3>>, ![7] = <<3, 5>>],
         roots |-> {1},
         fields |-> << <<2, 6>>, <<6, 4, 5, 7>>, <<5>>, <<>>, <<6>>, <<4, 7>>, <<>> >>]

(* Entry: a subclass of WeakReference, node 2, with a field of its own.    *)
Entry == [type |-> [Strongs EXCEPT ![2] = "reference"],
          weak |-> [None EXCEPT ![2] = <<4>>],
          roots |-> {1},
          fields |-> << <<2>>, <<3>>, <<>>, <<>>, <<>>, <<>>, <<>> >>]

ProgramGraphs == {Fan, Shared, Weak, Deep}
SubclassGraphs == {Entry}

(* The root at the top, where all its children are passed, or in between.  *)
RootHigh ==
  {p \in [Heap -> Heap] : p[1] \in {5, HeapLen} /\ \A i, j \in Heap : p[i] = p[j] => i = j}
=============================================================================
