----------------------------- MODULE JavaMonitor -----------------------------
(***************************************************************************)
(* What thread.h promises of monitors, whatever their representation: a    *)
(* nestable lock per object with "a democratic FCFS (first-come-first-     *)
(* serve) scheduling model", handed over directly to the first thread that *)
(* queues for it, and a condition queue served in the same order.          *)
(***************************************************************************)
EXTENDS Integers, SequencesExt

CONSTANTS Threads, Objects, NIL

VARIABLES
  owner,     \* [Objects -> Threads \cup {NIL}]
  count,     \* [Objects -> Nat], the entry count
  entry,     \* [Objects -> Seq(Threads)], who queues for the monitor
  waitset,   \* [Objects -> Seq(Threads)], who waits to be notified
  saved      \* [Threads -> Nat], the entry count a blocked thread will have

vars == <<owner, count, entry, waitset, saved>>

Blocked(t) == \E o \in Objects : Contains(entry[o], t) \/ Contains(waitset[o], t)

Init ==
  /\ owner = [o \in Objects |-> NIL]
  /\ count = [o \in Objects |-> 0]
  /\ entry = [o \in Objects |-> <<>>]
  /\ waitset = [o \in Objects |-> <<>>]
  /\ saved = [t \in Threads |-> 0]

(* The monitor of o goes to the first thread of q, the others stay.        *)
HandOver(o, q, count_) ==
  IF q = <<>>
  THEN /\ owner' = [owner EXCEPT ![o] = NIL]
       /\ count' = [count EXCEPT ![o] = 0]
       /\ entry' = [entry EXCEPT ![o] = <<>>]
       /\ saved' = count_
  ELSE /\ owner' = [owner EXCEPT ![o] = Head(q)]
       /\ count' = [count EXCEPT ![o] = count_[Head(q)]]
       /\ entry' = [entry EXCEPT ![o] = Tail(q)]
       /\ saved' = [count_ EXCEPT ![Head(q)] = 0]

Enter(t, o) ==
  /\ ~Blocked(t)
  /\ IF owner[o] \in {NIL, t}
     THEN /\ owner[o] = NIL => entry[o] = <<>>
          /\ owner' = [owner EXCEPT ![o] = t]
          /\ count' = [count EXCEPT ![o] = @ + 1]
          /\ UNCHANGED <<entry, saved>>
     ELSE /\ entry' = [entry EXCEPT ![o] = Append(@, t)]
          /\ saved' = [saved EXCEPT ![t] = 1]
          /\ UNCHANGED <<owner, count>>
  /\ UNCHANGED waitset

Exit(t, o) ==
  /\ ~Blocked(t) /\ owner[o] = t
  /\ IF count[o] > 1
     THEN count' = [count EXCEPT ![o] = @ - 1] /\ UNCHANGED <<owner, entry, saved>>
     ELSE HandOver(o, entry[o], saved)
  /\ UNCHANGED waitset

Wait(t, o) ==
  /\ ~Blocked(t) /\ owner[o] = t
  /\ waitset' = [waitset EXCEPT ![o] = Append(@, t)]
  /\ HandOver(o, entry[o], [saved EXCEPT ![t] = count[o]])

(* The threads ws, which waited, queue for the monitor again.              *)
Requeue(o, ws) ==
  IF owner[o] = NIL
  THEN HandOver(o, entry[o] \o ws, saved)
  ELSE entry' = [entry EXCEPT ![o] = @ \o ws] /\ UNCHANGED <<owner, count, saved>>

Notify(t, o) ==
  /\ ~Blocked(t) /\ owner[o] = t /\ waitset[o] # <<>>
  /\ waitset' = [waitset EXCEPT ![o] = Tail(@)]
  /\ Requeue(o, <<Head(waitset[o])>>)

(* By the owner, or by the VM for the thread that ends.                    *)
NotifyAll(o) ==
  /\ waitset[o] # <<>>
  /\ waitset' = [waitset EXCEPT ![o] = <<>>]
  /\ Requeue(o, waitset[o])

(* A timeout or an interrupt ends the wait of one thread.                  *)
Leave(t, o) ==
  /\ Contains(waitset[o], t)
  /\ waitset' = [waitset EXCEPT ![o] = RemoveFirst(@, t)]
  /\ Requeue(o, <<t>>)

Next == \E o \in Objects :
          \/ NotifyAll(o)
          \/ \E t \in Threads :
               Enter(t, o) \/ Exit(t, o) \/ Wait(t, o) \/ Notify(t, o) \/ Leave(t, o)

Spec == Init /\ [][Next]_vars
=============================================================================
