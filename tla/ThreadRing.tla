----------------------------- MODULE ThreadRing -----------------------------
(***************************************************************************)
(* The queues of thread.c as they are laid out: queue[k] is the C variable *)
(* *queue, the last thread of a ring or NIL, and nextThread the link field *)
(* that all the queues share.  The routines of thread.c are the actions.   *)
(***************************************************************************)
EXTENDS Integers, FiniteSets, SequencesExt

CONSTANTS Threads, Queues, NIL, ReAdd

ASSUME RingAssumption ==
  NIL \notin Threads /\ IsFiniteSet(Threads) /\ ReAdd \in BOOLEAN

VARIABLES queue,        \* [Queues -> Threads \cup {NIL}]
          nextThread,   \* [Threads -> Threads \cup {NIL}]
          result

vars == <<queue, nextThread, result>>

-----------------------------------------------------------------------------
(* The threads met by following nextThread n times from the last one.      *)
Walk(last) ==
  LET step[i \in 1..Cardinality(Threads)] ==
        IF i = 1 THEN nextThread[last]
        ELSE IF step[i - 1] = NIL THEN NIL ELSE nextThread[step[i - 1]]
  IN step

(* The loop "until q is the last one or the one looked for": its length.   *)
StopsAt(last, looked) ==
  LET hits == {i \in 1..Cardinality(Threads) : Walk(last)[i] \in {last, looked}}
  IN IF hits = {} THEN 0 ELSE CHOOSE i \in hits : \A j \in hits : i <= j

(* The queue a ring stands for.                                            *)
Ring(last) ==
  IF last = NIL THEN <<>> ELSE SubSeq(Walk(last), 1, StopsAt(last, last))

-----------------------------------------------------------------------------
Init ==
  /\ queue = [k \in Queues |-> NIL]
  /\ nextThread = [t \in Threads |-> NIL]
  /\ result = NIL

Elsewhere(k, t) == \E j \in Queues \ {k} : Contains(Ring(queue[j]), t)

(* Fault: the queue still points to the thread that was its last.          *)
Link_KeepsLast(k, t, atStart) ==
  /\ IF queue[k] = NIL
     THEN /\ nextThread' = [nextThread EXCEPT ![t] = t]
          /\ queue' = [queue EXCEPT ![k] = t]
     ELSE /\ nextThread' = [nextThread EXCEPT ![t] = nextThread[queue[k]],
                                              ![queue[k]] = t]
          /\ UNCHANGED queue
  /\ result' = NIL

(* addThreadToQueue *)
Link(k, t, atStart) ==
  /\ IF queue[k] = NIL
     THEN /\ nextThread' = [nextThread EXCEPT ![t] = t]
          /\ queue' = [queue EXCEPT ![k] = t]
     ELSE /\ nextThread' = [nextThread EXCEPT ![t] = nextThread[queue[k]],
                                              ![queue[k]] = t]
          /\ queue' = IF atStart THEN queue ELSE [queue EXCEPT ![k] = t]
  /\ result' = NIL

Add(k, t) ==
  /\ ~Elsewhere(k, t)
  /\ ReAdd \/ ~Contains(Ring(queue[k]), t)
  /\ Link(k, t, FALSE)

AddAtStart(k, t) ==
  /\ ~Elsewhere(k, t)
  /\ ~Contains(Ring(queue[k]), t)
  /\ Link(k, t, TRUE)

(* removeQueueStart *)
RemoveStart(k) ==
  IF queue[k] = NIL
  THEN result' = NIL /\ UNCHANGED <<queue, nextThread>>
  ELSE LET first == nextThread[queue[k]] IN
       /\ IF first = queue[k]
          THEN /\ queue' = [queue EXCEPT ![k] = NIL]
               /\ nextThread' = [nextThread EXCEPT ![first] = NIL]
          ELSE /\ nextThread' = [nextThread EXCEPT ![queue[k]] = nextThread[first],
                                                   ![first] = NIL]
               /\ UNCHANGED queue
       /\ result' = first

(* removeFromQueue *)
RemoveFrom(k, t) ==
  LET last == queue[k]
      n    == StopsAt(last, t)
      prev == IF n = 1 THEN last ELSE Walk(last)[n - 1]
  IN IF last = NIL \/ Walk(last)[n] # t
     THEN result' = FALSE /\ UNCHANGED <<queue, nextThread>>
     ELSE /\ nextThread' = [nextThread EXCEPT ![prev] = nextThread[t], ![t] = NIL]
          /\ queue' = IF t # last THEN queue
                      ELSE [queue EXCEPT ![k] = IF prev = t THEN NIL ELSE prev]
          /\ result' = TRUE

Next == \E k \in Queues :
          \/ RemoveStart(k)
          \/ \E t \in Threads : Add(k, t) \/ AddAtStart(k, t) \/ RemoveFrom(k, t)

Spec == Init /\ [][Next]_vars

-----------------------------------------------------------------------------
(* Every routine on the rings does to the sequences they stand for what    *)
(* ThreadQueue says, and returns the same: a thread lost, kept twice or    *)
(* left linked to another queue after a move would show here.              *)
Queues_ == INSTANCE ThreadQueues WITH queues <- [k \in Queues |-> Ring(queue[k])]
ImplementsQueues == Queues_!Spec
=============================================================================
