---------------------------- MODULE ThreadQueues ----------------------------
(***************************************************************************)
(* What the queue routines of thread.c promise: named queues of threads    *)
(* that behave as the sequences of ThreadQueue.  The callers keep a thread *)
(* in at most one queue (it has one nextThread link); ReAdd says whether   *)
(* they may add a thread to the queue it is in already.                    *)
(***************************************************************************)
EXTENDS ThreadQueue

CONSTANTS Threads, Queues, NIL, ReAdd

VARIABLES queues,   \* [Queues -> Seq(Threads)]
          result    \* what the last routine returned

vars == <<queues, result>>

(* The queues other than k hold no t.                                      *)
NotElsewhere(k, t) == \A j \in Queues \ {k} : ~Contains(queues[j], t)

Init == queues = [k \in Queues |-> <<>>] /\ result = NIL

Add(k, t) ==
  /\ NotElsewhere(k, t)
  /\ ReAdd \/ ~Contains(queues[k], t)
  /\ queues' = [queues EXCEPT ![k] = addThreadToQueue(@, t)]
  /\ result' = NIL

AddAtStart(k, t) ==
  /\ \A j \in Queues : ~Contains(queues[j], t)
  /\ queues' = [queues EXCEPT ![k] = addThreadToQueueStart(@, t)]
  /\ result' = NIL

RemoveStart(k) ==
  /\ queues' = [queues EXCEPT ![k] = removeQueueStart(@)]
  /\ result' = IF queues[k] = <<>> THEN NIL ELSE Head(queues[k])

RemoveFrom(k, t) ==
  /\ queues' = [queues EXCEPT ![k] = removeFromQueue(@, t)]
  /\ result' = Contains(queues[k], t)

Next == \E k \in Queues :
          \/ RemoveStart(k)
          \/ \E t \in Threads : Add(k, t) \/ AddAtStart(k, t) \/ RemoveFrom(k, t)

Spec == Init /\ [][Next]_vars
=============================================================================
