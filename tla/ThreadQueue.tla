---------------------------- MODULE ThreadQueue ----------------------------
(***************************************************************************)
(* The thread queues of the KVM (thread.c, "Queue manipulation functions") *)
(* as sequences, head first.  The run queue and the two queues of every    *)
(* monitor are such queues.  In C a queue is a pointer to the LAST thread  *)
(* of a ring linked through the single field thread->nextThread; module    *)
(* ThreadRing models the ring and shows that it computes these operators.  *)
(***************************************************************************)
EXTENDS Integers, SequencesExt

Position(q, t) == CHOOSE i \in 1..Len(q) : q[i] = t

(* Fault: the queue is last come, first served.                            *)
addThreadToQueue_AtStart(q, t) == <<t>> \o q

(***************************************************************************)
(* addThreadToQueue(queue, t, AT_END).  "There are no safety checks here": *)
(* adding a thread that is in the ring already re-links it, which cuts     *)
(* every thread that stood behind it out of the ring, and, when it was the *)
(* last, leaves it alone in the ring.                                      *)
(***************************************************************************)
addThreadToQueue(q, t) ==
  IF ~Contains(q, t)   THEN Append(q, t)
  ELSE IF Last(q) = t  THEN <<t>>
  ELSE Append(SubSeq(q, 1, Position(q, t) - 1), t)

(* addThreadToQueue(queue, t, AT_START) for a thread that is in no queue.  *)
addThreadToQueueStart(q, t) == <<t>> \o q

(* removeQueueStart: what is left of the queue; the thread is Head(q).     *)
removeQueueStart(q) == IF q = <<>> THEN <<>> ELSE Tail(q)

(* Fault: the search stops before it looks at the last thread.             *)
removeFromQueue_MissesLast(q, t) ==
  IF Contains(q, t) /\ Last(q) # t THEN RemoveAt(q, Position(q, t)) ELSE q

(* removeFromQueue: the queue without t; found iff Contains(q, t).         *)
removeFromQueue(q, t) ==
  IF Contains(q, t) THEN RemoveAt(q, Position(q, t)) ELSE q

(* The queue without any of the threads ts: a loop of removals.            *)
removeThreads(q, ts) ==
  LET keep[n \in 0..Len(q)] ==
        IF n = 0 THEN <<>>
        ELSE IF q[n] \in ts THEN keep[n - 1]
        ELSE Append(keep[n - 1], q[n])
  IN keep[Len(q)]
=============================================================================
