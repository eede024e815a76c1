---------------------------- MODULE ObjectStore ----------------------------
(***************************************************************************)
(* What a Java program may rely on of the memory it gets from the KVM:     *)
(* objects that keep their identity, their size and their fields for as    *)
(* long as the program can reach them.  There are no addresses here, no    *)
(* free list and no collector: an object is in the store exactly as long   *)
(* as it is reachable, so to collect the others changes nothing.           *)
(***************************************************************************)
EXTENDS Integers, FiniteSets, Functions

CONSTANTS Slots,    \* the places of the roots: locals, statics, ...
          Ids,      \* identities of objects
          Sizes,    \* the sizes programs ask for, in cells
          NULL

VARIABLES roots,    \* [Slots -> Ids \cup {NULL}]
          store     \* object -> [size, field]

vars == <<roots, store>>

\* The objects r leads to in s.
Reach(r, s) ==
  LET from == {r[x] : x \in Slots} \ {NULL}
      reach[n \in 0 .. Cardinality(Ids)] ==
        IF n = 0 THEN from
        ELSE reach[n - 1] \cup ({s[i].field : i \in reach[n - 1]} \ {NULL})
  IN  reach[Cardinality(Ids)]

Becomes(r, s) == roots' = r /\ store' = Restrict(s, Reach(r, s))

Init == roots = [x \in Slots |-> NULL] /\ store = <<>>

New(x) ==
  \E i \in Ids \ DOMAIN store, z \in Sizes :
    Becomes([roots EXCEPT ![x] = i],
            [j \in DOMAIN store \cup {i} |->
               IF j = i THEN [size |-> z, field |-> NULL] ELSE store[j]])

Copy(x, y) == Becomes([roots EXCEPT ![x] = roots[y]], store)

Clear(x) == Becomes([roots EXCEPT ![x] = NULL], store)

PutField(x, y) ==
  /\ roots[x] # NULL
  /\ Becomes(roots, [store EXCEPT ![roots[x]].field = roots[y]])

GetField(x, y) ==
  /\ roots[y] # NULL
  /\ Becomes([roots EXCEPT ![x] = store[roots[y]].field], store)

Next == \E x \in Slots :
          \/ New(x) \/ Clear(x)
          \/ \E y \in Slots : Copy(x, y) \/ PutField(x, y) \/ GetField(x, y)

Spec == Init /\ [][Next]_vars
=============================================================================
