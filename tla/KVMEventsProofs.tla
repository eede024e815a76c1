-------------------------- MODULE KVMEventsProofs --------------------------
(***************************************************************************)
(* For any threads, events, buffer and commands of the debugger: the run   *)
(* queue, CurrentThread and the stored registers agree with the flags of   *)
(* the threads (SchedulingExact), if the debugger resumes only what it has *)
(* suspended; and the programs read the cells of the events in their order *)
(* (EventsInOrder), if besides one thread at a time reads an event.        *)
(***************************************************************************)
EXTENDS KVMEvents, ThreadQueueProofs, FiniteSetTheorems

-----------------------------------------------------------------------------
(* The invariant: threads                                                  *)

Flags == {"JUST_BORN", "ACTIVE", "SUSPENDED", "DBG_SUSPENDED"}
States ==
  {{"JUST_BORN"}, {"JUST_BORN", "DBG_SUSPENDED"},
   {"ACTIVE"}, {"ACTIVE", "DBG_SUSPENDED"},
   {"ACTIVE", "SUSPENDED"}, {"ACTIVE", "SUSPENDED", "DBG_SUSPENDED"}}

Schedules ==
  [state : [Threads -> States], debugSuspendCount : [Threads -> Nat],
   run : Seq(Threads), current : Threads \cup {NIL},
   saved : [Threads -> BOOLEAN], fatal : {FALSE}]

(* CurrentThread is suspended on the way through suspendThread() only.     *)
Placed(s, t) ==
  /\ ByDebugger(s, t) <=> s.debugSuspendCount[t] > 0
  /\ s.state[t] = {"ACTIVE"} <=> Contains(s.run, t) \/ (t = s.current /\ ~Suspended(s, t))
  /\ t = s.current => "ACTIVE" \in s.state[t] /\ ~ByDebugger(s, t)
  /\ t # s.current \/ Suspended(s, t) => s.saved[t]

Good(s) ==
  /\ s \in Schedules
  /\ IsInjective(s.run) /\ ~Contains(s.run, s.current)
  /\ \A t \in Threads : Placed(s, t)

-----------------------------------------------------------------------------
(* The invariant: events                                                   *)

Triples == Nat \X Nat \X Nat
EventCells == (Nat \ {0}) \X Nat \X Nat
HostEvents == (Nat \ {0}) \X ArgCounts

Queues ==
  {q \in [eventBuffer : [0 .. (MAXPARMLENGTH - 1) -> Triples],
          eventInP : 0 .. MAXPARMLENGTH, eventCount : 0 .. MAXPARMLENGTH] :
     /\ q.eventCount <= q.eventInP
     /\ \A i \in 0 .. (MAXPARMLENGTH - 1) :
          q.eventInP - q.eventCount <= i /\ i < q.eventInP => q.eventBuffer[i] \in EventCells}

(* The cells that are in the buffer.                                       *)
InBuffer(q) ==
  SubSeq([i \in 1 .. MAXPARMLENGTH |-> q.eventBuffer[i - 1]],
         q.eventInP - q.eventCount + 1, q.eventInP)

SchedInv ==
  /\ vm \in {"run", "events", "idle", "debug", "switch"}
  /\ Good(sched)
  /\ sched.current # NIL => ~Suspended(sched, sched.current)
  /\ waitingThread \in Threads \cup {NIL}
  /\ waitingThread # NIL => Suspended(sched, waitingThread)

StreamTypes ==
  /\ queue \in Queues
  /\ arrived \in Nat /\ host \in Seq(HostEvents)
  /\ stored \in Seq(Triples)

ReaderInv ==
  /\ read \in Seq(Triples)
  /\ result \in [Threads -> EventCells \cup {NIL, Zero}] /\ left \in [Threads -> Nat]
  /\ \A t \in Threads : result[t] = Zero <=> waitingThread = t
  /\ \A t, u \in Threads : Reading(t) /\ Reading(u) => t = u
  /\ \A t \in Threads : result[t] \in EventCells => stored = read \o <<result[t]>> \o InBuffer(queue)
  /\ (\A t \in Threads : result[t] \notin EventCells) => stored = read \o InBuffer(queue)

-----------------------------------------------------------------------------
(* Flags of a thread                                                       *)

LEMMA FlagFacts ==
  ASSUME NEW x \in States
  PROVE  /\ x \cup {"DBG_SUSPENDED"} \in States
         /\ x \ {"DBG_SUSPENDED"} \in {{"JUST_BORN"}, {"ACTIVE"}, {"ACTIVE", "SUSPENDED"}}
         /\ x \ {"DBG_SUSPENDED"} \in States
         /\ "SUSPENDED" \in x => x \ {"SUSPENDED"} \in States /\ "ACTIVE" \in x
         /\ x # {"JUST_BORN"} /\ "JUST_BORN" \in x => "DBG_SUSPENDED" \in x
         /\ x = {"ACTIVE"} <=> x \cap {"SUSPENDED", "JUST_BORN", "DBG_SUSPENDED"} = {}
         /\ "ACTIVE" \in x => x \cup {"SUSPENDED"} \in States /\ "JUST_BORN" \notin x
BY DEF States

LEMMA AssumeFacts ==
  /\ NIL \notin Threads /\ Threads # {} /\ NIL \notin Triples
  /\ AllThreads \in Seq(Threads) /\ Len(AllThreads) \in Nat
  /\ \A n \in 1 .. Len(AllThreads) : AllThreads[n] \in Threads
  /\ \A t \in Threads : \E n \in 1 .. Len(AllThreads) : AllThreads[n] = t
  /\ \A m, n \in 1 .. Len(AllThreads) : AllThreads[m] = AllThreads[n] => m = n
<1>1. AllThreads \in Seq(Threads) /\ IsInjective(AllThreads) /\ Range(AllThreads) = Threads
      BY EventAssumption
<1>2. DOMAIN AllThreads = 1 .. Len(AllThreads)
      BY <1>1
<1>3. \A t \in Threads : \E n \in 1 .. Len(AllThreads) : AllThreads[n] = t
      BY <1>1, <1>2 DEF Range
<1>4. \A m, n \in 1 .. Len(AllThreads) : AllThreads[m] = AllThreads[n] => m = n
      BY <1>1, InjectiveQueue
<1> QED
      BY <1>1, <1>2, <1>3, <1>4, EventAssumption DEF Triples

(* Good, field by field.                                                   *)
Agree(st, n, q, c, v) ==
  /\ st \in [Threads -> States] /\ n \in [Threads -> Nat] /\ q \in Seq(Threads)
  /\ c \in Threads \cup {NIL} /\ v \in [Threads -> BOOLEAN]
  /\ IsInjective(q) /\ ~Contains(q, c)
  /\ \A t \in Threads :
       /\ "DBG_SUSPENDED" \in st[t] <=> n[t] > 0
       /\ st[t] = {"ACTIVE"} <=> Contains(q, t) \/ (t = c /\ ~("SUSPENDED" \in st[t]))
       /\ t = c => "ACTIVE" \in st[t] /\ ~("DBG_SUSPENDED" \in st[t])
       /\ t # c \/ "SUSPENDED" \in st[t] => v[t]

Schedule(st, n, q, c, v) ==
  [state |-> st, debugSuspendCount |-> n, run |-> q, current |-> c, saved |-> v, fatal |-> FALSE]

LEMMA GoodParts ==
  ASSUME NEW st, NEW n, NEW q, NEW c, NEW v, Agree(st, n, q, c, v)
  PROVE  Good(Schedule(st, n, q, c, v))
<1> DEFINE s == Schedule(st, n, q, c, v)
<1>1. s \in Schedules
      BY DEF Schedules, Schedule, Agree
<1>2. /\ s.state = st /\ s.debugSuspendCount = n /\ s.run = q /\ s.current = c
      /\ s.saved = v
      BY DEF Schedule
<1> HIDE DEF s
<1>3. ASSUME NEW t \in Threads PROVE Placed(s, t)
  <2>1. /\ "DBG_SUSPENDED" \in st[t] <=> n[t] > 0
        /\ st[t] = {"ACTIVE"} <=> Contains(q, t) \/ (t = c /\ ~("SUSPENDED" \in st[t]))
        /\ t = c => "ACTIVE" \in st[t] /\ ~("DBG_SUSPENDED" \in st[t])
        /\ t # c \/ "SUSPENDED" \in st[t] => v[t]
        BY DEF Agree
  <2> QED
        BY <1>2, <2>1, Zenon DEF Placed, Suspended, ByDebugger
<1>4. Good(s)
      BY <1>1, <1>2, <1>3 DEF Good, Agree
<1> QED
      BY <1>4 DEF s

LEMMA GoodFields ==
  ASSUME NEW s, Good(s)
  PROVE  \E st, n, q, c, v : s = Schedule(st, n, q, c, v) /\ Agree(st, n, q, c, v)
<1>1. s \in Schedules
      BY DEF Good
<1>2. PICK st \in [Threads -> States], n \in [Threads -> Nat], q \in Seq(Threads),
            c \in Threads \cup {NIL}, v \in [Threads -> BOOLEAN] :
           s = [state |-> st, debugSuspendCount |-> n, run |-> q, current |-> c,
                saved |-> v, fatal |-> FALSE]
      BY <1>1 DEF Schedules
<1>3. /\ s.state = st /\ s.debugSuspendCount = n /\ s.run = q /\ s.current = c
      /\ s.saved = v
      BY <1>2
<1>4. IsInjective(q) /\ ~Contains(q, c)
      BY <1>3 DEF Good
<1>5. \A t \in Threads : Placed(s, t)
      BY DEF Good
<1>6. Agree(st, n, q, c, v)
      BY <1>3, <1>4, <1>5, Zenon DEF Placed, Suspended, ByDebugger, Agree
<1> QED
      BY <1>2, <1>6 DEF Schedule

LEMMA ScheduleFacts ==
  ASSUME NEW s, Good(s)
  PROVE  /\ s.run \in Seq(Threads) /\ IsInjective(s.run)
         /\ s.current \in Threads \cup {NIL} /\ ~s.fatal
         /\ ~Contains(s.run, s.current) /\ \A u : Contains(s.run, u) => u \in Threads
         /\ \A t \in Threads : s.state[t] \in States /\ s.debugSuspendCount[t] \in Nat
<1>1. /\ s.run \in Seq(Threads) /\ IsInjective(s.run)
      /\ s.current \in Threads \cup {NIL} /\ s.fatal = FALSE
      /\ ~Contains(s.run, s.current)
      /\ \A t \in Threads : s.state[t] \in States /\ s.debugSuspendCount[t] \in Nat
      BY DEF Good, Schedules
<1>2. \A u : Contains(s.run, u) => u \in Threads
      BY <1>1 DEF Contains
<1> QED
      BY <1>1, <1>2

-----------------------------------------------------------------------------
(* The debugger suspends and resumes one thread                            *)

SameSuspended(s, r) == \A u \in Threads : Suspended(r, u) <=> Suspended(s, u)

LEMMA SuspendOne ==
  ASSUME NEW s, Good(s), NEW t \in Threads
  PROVE  LET r == SuspendSpecificThread(s, t)
         IN  /\ Good(r) /\ SameSuspended(s, r)
             /\ r.current = IF t = s.current THEN NIL ELSE s.current
<1>1. PICK st, n, q, c, v : s = Schedule(st, n, q, c, v) /\ Agree(st, n, q, c, v)
      BY GoodFields
<1> DEFINE r   == SuspendSpecificThread(s, t)
           st1 == [st EXCEPT ![t] = @ \cup {"DBG_SUSPENDED"}]
           n1  == [n EXCEPT ![t] = @ + 1]
           q1  == IF t = c \/ "SUSPENDED" \in st[t] THEN q ELSE removeFromQueue(q, t)
           c1  == IF t = c THEN NIL ELSE c
           v1  == IF t = c /\ ~("SUSPENDED" \in st[t]) THEN [v EXCEPT ![t] = TRUE] ELSE v
<1>2. r = Schedule(st1, n1, q1, c1, v1)
  <2>0. /\ s.state = st /\ s.debugSuspendCount = n /\ s.run = q /\ s.current = c
        /\ s.saved = v
        BY <1>1 DEF Schedule
  <2>1. CASE t = c /\ "SUSPENDED" \in st[t]
    <3>1. r = [[s EXCEPT !.current = NIL] EXCEPT !.state[t] = @ \cup {"DBG_SUSPENDED"},
                                                !.debugSuspendCount[t] = @ + 1]
          BY <2>0, <2>1 DEF SuspendSpecificThread, Suspended
    <3> QED
          BY <1>1, <2>1, <3>1, ZenonT(60) DEF Schedule
  <2>2. CASE t = c /\ ~("SUSPENDED" \in st[t])
    <3>1. PICK w : w = [v EXCEPT ![t] = TRUE]
          OBVIOUS
    <3>2. Save(s, t) = Schedule(st, n, q, c, w)
      <4>1. Save(s, t) = [s EXCEPT !.saved = w]
            BY <2>0, <3>1, Zenon DEF Save
      <4> QED
            BY <1>1, <4>1 DEF Schedule
    <3>3. v1 = w
          BY <2>2, <3>1
    <3>4. t = s.current /\ ~Suspended(s, t)
          BY <2>0, <2>2 DEF Suspended
    <3> DEFINE y  == IF Suspended(s, t) THEN s ELSE Save(s, t)
               s1 == IF t = s.current THEN [y EXCEPT !.current = NIL]
                     ELSE IF Suspended(s, t) THEN s
                     ELSE [s EXCEPT !.run = removeFromQueue(s.run, t)]
               x  == Schedule(st, n, q, NIL, w)
    <3>5. r = [s1 EXCEPT !.state[t] = @ \cup {"DBG_SUSPENDED"}, !.debugSuspendCount[t] = @ + 1]
          BY DEF SuspendSpecificThread
    <3>6. y = Schedule(st, n, q, c, w)
          BY <3>2, <3>4
    <3> HIDE DEF y
    <3>7. s1 = [y EXCEPT !.current = NIL]
          BY <3>4, Zenon
    <3>8. s1 = [Schedule(st, n, q, c, w) EXCEPT !.current = NIL]
          BY <3>6, <3>7, Zenon
    <3> HIDE DEF s1, r
    <3>9. s1 = x
          BY <3>8 DEF Schedule
    <3>10. r = [x EXCEPT !.state[t] = @ \cup {"DBG_SUSPENDED"}, !.debugSuspendCount[t] = @ + 1]
          BY <3>5, <3>9, Zenon
    <3> QED
          BY <2>2, <3>3, <3>10 DEF Schedule
  <2>3. CASE t # c /\ "SUSPENDED" \in st[t]
    <3>1. r = [s EXCEPT !.state[t] = @ \cup {"DBG_SUSPENDED"}, !.debugSuspendCount[t] = @ + 1]
          BY <2>0, <2>3 DEF SuspendSpecificThread, Suspended
    <3> QED
          BY <1>1, <2>3, <3>1 DEF Schedule
  <2>4. CASE t # c /\ ~("SUSPENDED" \in st[t])
    <3>1. r = [[s EXCEPT !.run = removeFromQueue(s.run, t)]
                 EXCEPT !.state[t] = @ \cup {"DBG_SUSPENDED"}, !.debugSuspendCount[t] = @ + 1]
          BY <2>0, <2>4 DEF SuspendSpecificThread, Suspended
    <3> QED
          BY <1>1, <2>4, <3>1 DEF Schedule
  <2> QED
        BY <2>1, <2>2, <2>3, <2>4
<1>3. /\ st \in [Threads -> States] /\ n \in [Threads -> Nat] /\ q \in Seq(Threads)
      /\ c \in Threads \cup {NIL} /\ v \in [Threads -> BOOLEAN]
      /\ IsInjective(q) /\ ~Contains(q, c) /\ NIL \notin Threads
      BY <1>1, AssumeFacts DEF Agree
<1>4. q1 \in Seq(Threads) /\ IsInjective(q1) /\ \A u : Contains(q1, u) => Contains(q, u)
      BY <1>3, RemoveFromType, RemoveFromEffect
<1>5. /\ \A u : u # t => (Contains(q1, u) <=> Contains(q, u))
      /\ ~Contains(q1, t)
  <2>1. t = c \/ "SUSPENDED" \in st[t] => ~Contains(q, t)
        BY <1>1, <1>3 DEF Agree
  <2> QED
        BY <1>3, <2>1, RemoveFromEffect
<1>6. st1 \in [Threads -> States] /\ n1 \in [Threads -> Nat] /\ v1 \in [Threads -> BOOLEAN]
  <2>1. st[t] \in States
        BY <1>3
  <2>2. st[t] \cup {"DBG_SUSPENDED"} \in States
        BY <2>1, FlagFacts
  <2>3. st1 \in [Threads -> States]
        BY <1>3, <2>2
  <2> QED
        BY <1>3, <2>3
<1>7. c1 \in Threads \cup {NIL} /\ ~Contains(q1, c1)
  <2>1. ~Contains(q, NIL)
        BY <1>3 DEF Contains
  <2> QED
        BY <1>3, <1>4, <2>1
<1>8. ASSUME NEW u \in Threads
      PROVE  /\ "DBG_SUSPENDED" \in st1[u] <=> n1[u] > 0
             /\ st1[u] = {"ACTIVE"} <=> Contains(q1, u) \/ (u = c1 /\ ~("SUSPENDED" \in st1[u]))
             /\ u = c1 => "ACTIVE" \in st1[u] /\ ~("DBG_SUSPENDED" \in st1[u])
             /\ u # c1 \/ "SUSPENDED" \in st1[u] => v1[u]
             /\ "SUSPENDED" \in st1[u] <=> "SUSPENDED" \in st[u]
  <2>0. /\ "DBG_SUSPENDED" \in st[u] <=> n[u] > 0
        /\ st[u] = {"ACTIVE"} <=> Contains(q, u) \/ (u = c /\ ~("SUSPENDED" \in st[u]))
        /\ u = c => "ACTIVE" \in st[u] /\ ~("DBG_SUSPENDED" \in st[u])
        /\ u # c \/ "SUSPENDED" \in st[u] => v[u]
        BY <1>1 DEF Agree
  <2>1. CASE u = t
    <3>1. st1[u] = st[u] \cup {"DBG_SUSPENDED"} /\ n1[u] = n[u] + 1 /\ n[u] \in Nat
          BY <1>3, <2>1
    <3>2. u # c1
          BY <1>3, <2>1
    <3>3. v1[u]
          BY <1>3, <2>0, <2>1
    <3> HIDE DEF st1, n1, c1, v1, q1
    <3> QED
          BY <1>5, <2>1, <3>1, <3>2, <3>3
  <2>2. CASE u # t
    <3>1. st1[u] = st[u] /\ n1[u] = n[u] /\ v1[u] = v[u] /\ (u = c1 <=> u = c)
          BY <1>3, <2>2
    <3> HIDE DEF st1, n1, c1, v1, q1
    <3> QED
          BY <1>5, <2>0, <2>2, <3>1
  <2> QED
        BY <2>1, <2>2
<1> HIDE DEF st1, n1, q1, c1, v1, r
<1>9. Agree(st1, n1, q1, c1, v1)
      BY <1>4, <1>6, <1>7, <1>8 DEF Agree
<1>10. Good(r)
      BY <1>2, <1>9, GoodParts
<1>11. SameSuspended(s, r)
  <2>1. s.state = st /\ r.state = st1
        BY <1>1, <1>2 DEF Schedule
  <2> QED
        BY <1>8, <2>1 DEF SameSuspended, Suspended
<1>12. r.current = c1 /\ s.current = c
      BY <1>1, <1>2 DEF Schedule
<1> QED
      BY <1>10, <1>11, <1>12 DEF r, c1

-----------------------------------------------------------------------------
With(f, t, x) == [f EXCEPT ![t] = x]

LEMMA WithType ==
  ASSUME NEW S, NEW f \in [Threads -> S], NEW t \in Threads, NEW x \in S
  PROVE  With(f, t, x) \in [Threads -> S]
BY DEF With

LEMMA WithItself ==
  ASSUME NEW S, NEW f \in [Threads -> S], NEW t \in Threads
  PROVE  With(f, t, f[t]) = f
BY DEF With

SetState(s, y) == [s EXCEPT !.state = y]
SetCount(s, y) == [s EXCEPT !.debugSuspendCount = y]
SetRun(s, y) == [s EXCEPT !.run = y]
SetCurrent(s, y) == [s EXCEPT !.current = y]
SetSaved(s, y) == [s EXCEPT !.saved = y]

LEMMA ScheduleWith ==
  ASSUME NEW st, NEW n, NEW q, NEW c, NEW v, NEW y
  PROVE  /\ SetState(Schedule(st, n, q, c, v), y) = Schedule(y, n, q, c, v)
         /\ SetCount(Schedule(st, n, q, c, v), y) = Schedule(st, y, q, c, v)
         /\ SetRun(Schedule(st, n, q, c, v), y) = Schedule(st, n, y, c, v)
         /\ SetCurrent(Schedule(st, n, q, c, v), y) = Schedule(st, n, q, y, v)
         /\ SetSaved(Schedule(st, n, q, c, v), y) = Schedule(st, n, q, c, y)
<1>1. PICK b : b = FALSE
      OBVIOUS
<1>2. PICK s : s = [state |-> st, debugSuspendCount |-> n, run |-> q, current |-> c, saved |-> v,
                   fatal |-> b]
      OBVIOUS
<1>3. [s EXCEPT !.state = y] =
        [state |-> y, debugSuspendCount |-> n, run |-> q, current |-> c, saved |-> v,
         fatal |-> b]
      BY <1>2
<1>4. [s EXCEPT !.debugSuspendCount = y] =
        [state |-> st, debugSuspendCount |-> y, run |-> q, current |-> c, saved |-> v,
         fatal |-> b]
      BY <1>2
<1>5. [s EXCEPT !.run = y] =
        [state |-> st, debugSuspendCount |-> n, run |-> y, current |-> c, saved |-> v,
         fatal |-> b]
      BY <1>2
<1>6. [s EXCEPT !.current = y] =
        [state |-> st, debugSuspendCount |-> n, run |-> q, current |-> y, saved |-> v,
         fatal |-> b]
      BY <1>2
<1>7. [s EXCEPT !.saved = y] =
        [state |-> st, debugSuspendCount |-> n, run |-> q, current |-> c, saved |-> y,
         fatal |-> b]
      BY <1>2
<1> QED
      BY <1>1, <1>2, <1>3, <1>4, <1>5, <1>6, <1>7, Zenon
      DEF Schedule, SetState, SetCount, SetRun, SetCurrent, SetSaved

(* A thread that is not the current one gets other flags.                  *)
LEMMA AgreeAt ==
  ASSUME NEW st, NEW n, NEW q, NEW c, NEW v, Agree(st, n, q, c, v),
         NEW t \in Threads, t # c,
         NEW x \in States, NEW k \in Nat, "DBG_SUSPENDED" \in x <=> k > 0,
         NEW q1 \in Seq(Threads), IsInjective(q1),
         x = {"ACTIVE"} <=> Contains(q1, t),
         \A u : u # t => (Contains(q1, u) <=> Contains(q, u))
  PROVE  Agree(With(st, t, x), With(n, t, k), q1, c, v)
<1> DEFINE st1 == With(st, t, x)
           n1  == With(n, t, k)
<1>1. /\ st \in [Threads -> States] /\ n \in [Threads -> Nat]
      /\ c \in Threads \cup {NIL} /\ v \in [Threads -> BOOLEAN] /\ ~Contains(q1, c)
      BY DEF Agree
<1>2. st1 \in [Threads -> States] /\ n1 \in [Threads -> Nat]
      BY <1>1, WithType
<1>3. /\ st1[t] = x /\ n1[t] = k
      /\ \A u \in Threads : u # t => st1[u] = st[u] /\ n1[u] = n[u]
      BY <1>1 DEF With
<1> HIDE DEF st1, n1
<1>4. ASSUME NEW u \in Threads
      PROVE  /\ "DBG_SUSPENDED" \in st1[u] <=> n1[u] > 0
             /\ st1[u] = {"ACTIVE"} <=> Contains(q1, u) \/ (u = c /\ ~("SUSPENDED" \in st1[u]))
             /\ u = c => "ACTIVE" \in st1[u] /\ ~("DBG_SUSPENDED" \in st1[u])
             /\ u # c \/ "SUSPENDED" \in st1[u] => v[u]
  <2>1. /\ "DBG_SUSPENDED" \in st[u] <=> n[u] > 0
        /\ st[u] = {"ACTIVE"} <=> Contains(q, u) \/ (u = c /\ ~("SUSPENDED" \in st[u]))
        /\ u = c => "ACTIVE" \in st[u] /\ ~("DBG_SUSPENDED" \in st[u])
        /\ u # c \/ "SUSPENDED" \in st[u] => v[u]
        BY DEF Agree
  <2>2. CASE u = t
        BY <1>3, <2>1, <2>2
  <2>3. CASE u # t
        BY <1>3, <2>1, <2>3
  <2> QED
        BY <2>2, <2>3
<1>5. Agree(st1, n1, q1, c, v)
      BY <1>1, <1>2, <1>4 DEF Agree
<1> QED
      BY <1>5 DEF st1, n1

LEMMA ScheduleParts ==
  ASSUME NEW st, NEW n, NEW q, NEW c, NEW v
  PROVE  LET s == Schedule(st, n, q, c, v)
         IN  /\ s.state = st /\ s.debugSuspendCount = n /\ s.run = q /\ s.current = c
             /\ s.saved = v
BY DEF Schedule

(* resumeThread(), for a thread the debugger suspends and for another one. *)
LEMMA ResumeFlagged ==
  ASSUME NEW st, NEW n, NEW q, NEW c, NEW v, NEW t \in Threads, "SUSPENDED" \in st[t],
         "DBG_SUSPENDED" \in st[t]
  PROVE  ResumeThread(Schedule(st, n, q, c, v), t) =
           Schedule(With(st, t, st[t] \ {"SUSPENDED"}), n, q, c, v)
<1> DEFINE s == Schedule(st, n, q, c, v)
<1>1. Suspended(s, t) /\ ByDebugger(s, t)
      BY ScheduleParts DEF Suspended, ByDebugger
<1>2. ResumeThread(s, t) = [s EXCEPT !.state[t] = @ \ {"SUSPENDED"}]
      BY <1>1 DEF ResumeThread
<1> QED
      BY <1>2 DEF Schedule, With

LEMMA ResumeRuns ==
  ASSUME NEW st, NEW n, NEW q, NEW c, NEW v, NEW t \in Threads, t # c, "SUSPENDED" \in st[t],
         "DBG_SUSPENDED" \notin st[t]
  PROVE  ResumeThread(Schedule(st, n, q, c, v), t) =
           Schedule(With(st, t, {"ACTIVE"}), n, addThreadToQueue(q, t), c, v)
<1> DEFINE s == Schedule(st, n, q, c, v)
<1>1. Suspended(s, t) /\ ~ByDebugger(s, t) /\ t # s.current
      BY ScheduleParts DEF Suspended, ByDebugger
<1>2. ResumeThread(s, t) =
        [s EXCEPT !.state[t] = {"ACTIVE"}, !.run = addThreadToQueue(s.run, t)]
      BY <1>1 DEF ResumeThread
<1> QED
      BY <1>2 DEF Schedule, With

(* A thread that was suspended runs, unless the debugger suspends it too.  *)
LEMMA ResumeAgree ==
  ASSUME NEW st, NEW n, NEW q, NEW c, NEW v, Agree(st, n, q, c, v),
         NEW t \in Threads, t # c, st[t] # {"ACTIVE"}
  PROVE  Agree(With(st, t, {"ACTIVE"}), With(n, t, 0), addThreadToQueue(q, t), c, v)
<1>1. q \in Seq(Threads) /\ IsInjective(q)
      BY DEF Agree
<1>2. ~Contains(q, t)
      BY DEF Agree
<1> DEFINE q1 == addThreadToQueue(q, t)
<1>3. /\ q1 \in Seq(Threads) /\ IsInjective(q1)
      /\ \A u : Contains(q1, u) <=> Contains(q, u) \/ u = t
      BY <1>1, <1>2, AddType, AppendEffect
<1>4. {"ACTIVE"} \in States /\ "DBG_SUSPENDED" \notin {"ACTIVE"} /\ 0 \in Nat /\ ~(0 > 0)
      BY DEF States
<1> HIDE DEF q1
<1>5. Agree(With(st, t, {"ACTIVE"}), With(n, t, 0), q1, c, v)
      BY <1>3, <1>4, AgreeAt
<1> QED
      BY <1>5 DEF q1

LEMMA ResumeOne ==
  ASSUME NEW s, Good(s), NEW t \in Threads, t # s.current, s.state[t] # {"ACTIVE"}
  PROVE  LET r == ResumeSpecificThread(s, t)
         IN  /\ Good(r) /\ SameSuspended(s, r) /\ r.current = s.current
             /\ \A u \in Threads \ {t} : r.state[u] = s.state[u]
<1>1. PICK st, n, q, c, v : s = Schedule(st, n, q, c, v) /\ Agree(st, n, q, c, v)
      BY GoodFields
<1> DEFINE r == ResumeSpecificThread(s, t)
<1>2. /\ st \in [Threads -> States] /\ n \in [Threads -> Nat] /\ q \in Seq(Threads)
      /\ IsInjective(q) /\ t # c /\ st[t] # {"ACTIVE"}
      BY <1>1, ScheduleParts DEF Agree
<1>3. "DBG_SUSPENDED" \in st[t] <=> n[t] > 0
      BY <1>1 DEF Agree
<1>4. ~Contains(q, t)
      BY <1>1, <1>2 DEF Agree
<1>5. SUFFICES \E st1, n1, q1 :
        /\ r = Schedule(st1, n1, q1, c, v) /\ Agree(st1, n1, q1, c, v)
        /\ "SUSPENDED" \in st1[t] <=> "SUSPENDED" \in st[t]
        /\ \A u \in Threads \ {t} : st1[u] = st[u]
  <2>1. PICK st1, n1, q1 :
        /\ r = Schedule(st1, n1, q1, c, v) /\ Agree(st1, n1, q1, c, v)
        /\ "SUSPENDED" \in st1[t] <=> "SUSPENDED" \in st[t]
        /\ \A u \in Threads \ {t} : st1[u] = st[u]
        BY <1>5
  <2> HIDE DEF r
  <2>2. Good(r)
        BY <2>1, GoodParts
  <2>3. s.state = st /\ r.state = st1 /\ s.current = c /\ r.current = c
        BY <1>1, <2>1, ScheduleParts
  <2>4. SameSuspended(s, r)
        BY <2>1, <2>3 DEF SameSuspended, Suspended
  <2> QED
        BY <2>1, <2>2, <2>3, <2>4 DEF r
<1>6. CASE n[t] > 1
  <2>1. r = Schedule(st, [n EXCEPT ![t] = @ - 1], q, c, v)
        BY <1>1, <1>6 DEF ResumeSpecificThread, Schedule
  <2>2. r = Schedule(st, With(n, t, n[t] - 1), q, c, v)
        BY <2>1 DEF With
  <2>3. n[t] - 1 \in Nat /\ n[t] - 1 > 0 /\ st[t] \in States
        BY <1>2, <1>6
  <2>4. "DBG_SUSPENDED" \in st[t] <=> n[t] - 1 > 0
        BY <1>2, <1>3, <2>3
  <2>5. st[t] = {"ACTIVE"} <=> Contains(q, t)
        BY <1>2, <1>4
  <2>6. Agree(With(st, t, st[t]), With(n, t, n[t] - 1), q, c, v)
        BY <1>1, <1>2, <2>3, <2>4, <2>5, AgreeAt
  <2>7. With(st, t, st[t]) = st
        BY <1>2, WithItself
  <2> HIDE DEF r
  <2> QED
        BY <2>2, <2>6, <2>7
<1>7. CASE ~(n[t] > 1)
  <2> DEFINE x  == st[t] \ {"DBG_SUSPENDED"}
             s0 == [s EXCEPT !.state[t] = @ \ {"DBG_SUSPENDED"}, !.debugSuspendCount[t] = 0]
  <2>1. st[t] \in States /\ x \in States
        BY <1>2, FlagFacts
  <2>2. ~(s.debugSuspendCount[t] > 1)
        BY <1>1, <1>7, ScheduleParts
  <2>3. r = IF s0.state[t] \cap {"SUSPENDED", "JUST_BORN"} # {} THEN s0
            ELSE ResumeThread([s0 EXCEPT !.state[t] = @ \cup {"SUSPENDED"}], t)
        BY <2>2 DEF ResumeSpecificThread
  <2> DEFINE st1 == With(st, t, x)
             n1  == With(n, t, 0)
             s1  == Schedule(st1, n1, q, c, v)
  <2>4. s0 = s1
    <3>1. s.state = st /\ s.debugSuspendCount = n
          BY <1>1, ScheduleParts
    <3>2. st1 = [s.state EXCEPT ![t] = s.state[t] \ {"DBG_SUSPENDED"}]
          BY <3>1, Zenon DEF With
    <3> HIDE DEF st1
    <3>3. PICK s2 : s2 = SetState(s, st1)
          OBVIOUS
    <3>4. s0 = [s2 EXCEPT !.debugSuspendCount = [s2.debugSuspendCount EXCEPT ![t] = 0]]
          BY <3>2, <3>3, Zenon DEF SetState
    <3> HIDE DEF s0
    <3>5. s2 = Schedule(st1, n, q, c, v)
          BY <1>1, <3>3, ScheduleWith
    <3>6. s2.debugSuspendCount = n
          BY <3>5, ScheduleParts
    <3>7. s0 = SetCount(s2, n1)
          BY <3>4, <3>6, Zenon DEF With, SetCount
    <3> HIDE DEF n1
    <3> QED
          BY <3>5, <3>7, ScheduleWith
  <2>5. s1.state[t] = x
    <3>1. st1[t] = x
          BY <1>2, <2>1 DEF With
    <3>2. s1.state = st1
          BY ScheduleParts
    <3> HIDE DEF s1, st1
    <3> QED
          BY <3>1, <3>2
  <2>6. r = IF x \cap {"SUSPENDED", "JUST_BORN"} # {} THEN s1
            ELSE ResumeThread([s1 EXCEPT !.state[t] = @ \cup {"SUSPENDED"}], t)
    <3> HIDE DEF s0, s1, r, x
    <3>1. r = IF s1.state[t] \cap {"SUSPENDED", "JUST_BORN"} # {} THEN s1
              ELSE ResumeThread([s1 EXCEPT !.state[t] = @ \cup {"SUSPENDED"}], t)
          BY <2>3, <2>4, Zenon
    <3> QED
          BY <2>5, <3>1, Zenon
  <2>7. CASE x \cap {"SUSPENDED", "JUST_BORN"} # {}
    <3>1. r = s1
          BY <2>6, <2>7
    <3>2. x # {"ACTIVE"} /\ "DBG_SUSPENDED" \notin x /\ 0 \in Nat /\ ~(0 > 0)
          BY <2>7
    <3>3. "SUSPENDED" \in x <=> "SUSPENDED" \in st[t]
          OBVIOUS
    <3> HIDE DEF x
    <3>4. Agree(st1, n1, q, c, v)
          BY <1>1, <1>2, <1>4, <2>1, <3>2, AgreeAt
    <3>5. st1[t] = x /\ \A u \in Threads : u # t => st1[u] = st[u]
          BY <1>2, <2>1 DEF With
    <3> HIDE DEF st1, n1, r
    <3> QED
          BY <3>1, <3>3, <3>4, <3>5
  <2>8. CASE x \cap {"SUSPENDED", "JUST_BORN"} = {}
    <3>1. x = {"ACTIVE"}
      <4>1. x \cap {"SUSPENDED", "JUST_BORN", "DBG_SUSPENDED"} = {}
            BY <2>8
      <4> HIDE DEF x
      <4> QED
            BY <2>1, <4>1, FlagFacts
    <3>2. "SUSPENDED" \notin st[t] /\ "SUSPENDED" \notin {"ACTIVE"}
          BY <2>8
    <3> DEFINE y   == {"ACTIVE", "SUSPENDED"}
               st2 == With(st, t, y)
               s3  == [s1 EXCEPT !.state[t] = @ \cup {"SUSPENDED"}]
    <3>3. y \in States /\ {"ACTIVE"} \in States
          BY DEF States
    <3>4. x \cup {"SUSPENDED"} = y
          BY <3>1
    <3>5. "SUSPENDED" \in y /\ "DBG_SUSPENDED" \notin y
          OBVIOUS
    <3> HIDE DEF x, y
    <3>6. s1.state = st1 /\ st1[t] = x
      <4>1. st1[t] = x
            BY <1>2, <2>1 DEF With
      <4> QED
            BY <4>1, ScheduleParts
    <3>7. s3 = SetState(s1, With(st1, t, y))
      <4>1. s3 = [s1 EXCEPT !.state = [s1.state EXCEPT ![t] = s1.state[t] \cup {"SUSPENDED"}]]
            OBVIOUS
      <4> HIDE DEF s1, st1, s3
      <4> QED
            BY <3>4, <3>6, <4>1, Zenon DEF With, SetState
    <3>8. s3 = Schedule(With(st1, t, y), n1, q, c, v)
      <4> HIDE DEF s3, st1, n1
      <4> QED
            BY <3>7, ScheduleWith
    <3>9. With(st1, t, y) = st2
          BY <1>2, <2>1 DEF With
    <3>10. r = ResumeThread(Schedule(st2, n1, q, c, v), t)
      <4>1. r = ResumeThread(s3, t)
            BY <2>6, <2>8
      <4> QED
            BY <3>8, <3>9, <4>1, Zenon
    <3>11. st2[t] = y /\ With(st2, t, {"ACTIVE"}) = With(st, t, {"ACTIVE"})
      <4>1. st2[t] = y
            BY <1>2, <3>3 DEF With
      <4>2. With(st2, t, {"ACTIVE"}) = With(st, t, {"ACTIVE"})
            BY <1>2, <3>3 DEF With
      <4> QED
            BY <4>1, <4>2
    <3> HIDE DEF st2, r, n1
    <3>12. ResumeThread(Schedule(st2, n1, q, c, v), t) =
             Schedule(With(st2, t, {"ACTIVE"}), n1, addThreadToQueue(q, t), c, v)
          BY <1>2, <3>5, <3>11, ResumeRuns
    <3> DEFINE st3 == With(st, t, {"ACTIVE"})
    <3>13. Agree(st3, n1, addThreadToQueue(q, t), c, v)
          BY <1>1, <1>2, ResumeAgree DEF n1
    <3>14. st3[t] = {"ACTIVE"} /\ \A u \in Threads : u # t => st3[u] = st[u]
          BY <1>2, <3>3 DEF With
    <3> HIDE DEF st3
    <3>15. r = Schedule(st3, n1, addThreadToQueue(q, t), c, v)
          BY <3>10, <3>11, <3>12 DEF st3
    <3> QED
          BY <3>2, <3>13, <3>14, <3>15
  <2> QED
        BY <2>7, <2>8
<1> QED
      BY <1>6, <1>7

(* An event resumes the thread that waits for it.                          *)
LEMMA ResumeWaiting ==
  ASSUME NEW s, Good(s), NEW t \in Threads, t # s.current, Suspended(s, t)
  PROVE  LET r == ResumeThread(s, t)
         IN  /\ Good(r) /\ r.current = s.current
             /\ \A u \in Threads \ {t} : Suspended(r, u) <=> Suspended(s, u)
<1>1. PICK st, n, q, c, v : s = Schedule(st, n, q, c, v) /\ Agree(st, n, q, c, v)
      BY GoodFields
<1> DEFINE r == ResumeThread(s, t)
<1>2. /\ st \in [Threads -> States] /\ n \in [Threads -> Nat] /\ q \in Seq(Threads)
      /\ IsInjective(q) /\ t # c /\ "SUSPENDED" \in st[t]
      BY <1>1, ScheduleParts DEF Agree, Suspended
<1>3. "DBG_SUSPENDED" \in st[t] <=> n[t] > 0
      BY <1>1 DEF Agree
<1>4. ~Contains(q, t) /\ st[t] # {"ACTIVE"}
      BY <1>1, <1>2 DEF Agree
<1>5. CASE "DBG_SUSPENDED" \in st[t]
  <2> DEFINE x   == st[t] \ {"SUSPENDED"}
             st1 == With(st, t, x)
  <2>1. x \in States /\ "DBG_SUSPENDED" \in x /\ x # {"ACTIVE"}
        BY <1>2, <1>5, FlagFacts
  <2>2. r = Schedule(st1, n, q, c, v)
        BY <1>1, <1>2, <1>5, ResumeFlagged
  <2>3. n[t] \in Nat /\ With(n, t, n[t]) = n
        BY <1>2, WithItself
  <2> HIDE DEF x
  <2>4. Agree(st1, With(n, t, n[t]), q, c, v)
        BY <1>1, <1>2, <1>3, <1>4, <1>5, <2>1, <2>3, AgreeAt
  <2>5. \A u \in Threads \ {t} : st1[u] = st[u]
        BY <1>2 DEF With
  <2> HIDE DEF r, st1
  <2>6. s.state = st /\ r.state = st1 /\ s.current = c /\ r.current = c
        BY <1>1, <2>2, ScheduleParts
  <2>7. Good(r)
        BY <2>2, <2>3, <2>4, GoodParts
  <2> QED
        BY <2>5, <2>6, <2>7 DEF r, Suspended
<1>6. CASE "DBG_SUSPENDED" \notin st[t]
  <2> DEFINE st1 == With(st, t, {"ACTIVE"})
             q1  == addThreadToQueue(q, t)
  <2>1. n[t] = 0
        BY <1>2, <1>3, <1>6
  <2>2. r = Schedule(st1, n, q1, c, v)
        BY <1>1, <1>2, <1>6, ResumeRuns
  <2>3. n[t] \in Nat /\ With(n, t, n[t]) = n
        BY <1>2, WithItself
  <2>4. Agree(st1, With(n, t, 0), q1, c, v)
        BY <1>1, <1>2, <1>4, ResumeAgree
  <2>5. \A u \in Threads \ {t} : st1[u] = st[u]
        BY <1>2 DEF With
  <2> HIDE DEF r, st1, q1
  <2>6. s.state = st /\ r.state = st1 /\ s.current = c /\ r.current = c
        BY <1>1, <2>2, ScheduleParts
  <2>7. Good(r)
        BY <2>1, <2>2, <2>3, <2>4, GoodParts
  <2> QED
        BY <2>5, <2>6, <2>7 DEF r, Suspended
<1> QED
      BY <1>5, <1>6

-----------------------------------------------------------------------------
(* The debugger suspends and resumes all threads                           *)

(* after[k] is what one operation on each of the first k threads leaves.   *)
Suspends(after, s, m) ==
  after = [n \in 0 .. m |-> IF n = 0 THEN s
                            ELSE SuspendSpecificThread(after[n - 1], AllThreads[n])]
Resumes(after, s, m) ==
  after = [n \in 0 .. m |-> IF n = 0 THEN s
                            ELSE ResumeSpecificThread(after[n - 1], AllThreads[n])]

LEMMA SuspendsExists ==
  ASSUME NEW s PROVE \A m \in Nat : \E f : Suspends(f, s, m)
<1> DEFINE K == {m \in Nat : \E f : Suspends(f, s, m)}
<1>1. 0 \in K
  <2> DEFINE f == [n \in 0 .. 0 |-> s]
  <2>1. Suspends(f, s, 0)
        BY DEF Suspends
  <2> QED
        BY <2>1
<1>2. ASSUME NEW m \in Nat, m \in K PROVE m + 1 \in K
  <2>1. PICK g : Suspends(g, s, m)
        BY <1>2
  <2> DEFINE w == SuspendSpecificThread(g[m], AllThreads[m + 1])
             f == [n \in 0 .. (m + 1) |-> IF n = m + 1 THEN w ELSE g[n]]
  <2>2. ASSUME NEW n \in 0 .. (m + 1)
        PROVE  f[n] = IF n = 0 THEN s ELSE SuspendSpecificThread(f[n - 1], AllThreads[n])
    <3>1. CASE n = m + 1
      <4>1. f[n] = w /\ f[n - 1] = g[m] /\ n # 0
            BY <3>1
      <4> HIDE DEF f
      <4> QED
            BY <3>1, <4>1
    <3>2. CASE n # m + 1
      <4>1. n \in 0 .. m /\ (n # 0 => n - 1 \in 0 .. m)
            BY <3>2
      <4>2. g[n] = IF n = 0 THEN s ELSE SuspendSpecificThread(g[n - 1], AllThreads[n])
            BY <2>1, <4>1 DEF Suspends
      <4>3. f[n] = g[n] /\ (n # 0 => f[n - 1] = g[n - 1])
            BY <3>2, <4>1
      <4> HIDE DEF f
      <4> QED
            BY <4>2, <4>3
    <3> QED
          BY <3>1, <3>2
  <2>3. f = [n \in 0 .. (m + 1) |-> f[n]]
        OBVIOUS
  <2> HIDE DEF f
  <2>4. Suspends(f, s, m + 1)
        BY <2>2, <2>3 DEF Suspends
  <2> QED
        BY <2>4
<1> HIDE DEF K
<1>3. Nat \subseteq K
      BY <1>1, <1>2, NatSetInduction
<1> QED
      BY <1>3 DEF K

LEMMA ResumesExists ==
  ASSUME NEW s PROVE \A m \in Nat : \E f : Resumes(f, s, m)
<1> DEFINE K == {m \in Nat : \E f : Resumes(f, s, m)}
<1>1. 0 \in K
  <2> DEFINE f == [n \in 0 .. 0 |-> s]
  <2>1. Resumes(f, s, 0)
        BY DEF Resumes
  <2> QED
        BY <2>1
<1>2. ASSUME NEW m \in Nat, m \in K PROVE m + 1 \in K
  <2>1. PICK g : Resumes(g, s, m)
        BY <1>2
  <2> DEFINE w == ResumeSpecificThread(g[m], AllThreads[m + 1])
             f == [n \in 0 .. (m + 1) |-> IF n = m + 1 THEN w ELSE g[n]]
  <2>2. ASSUME NEW n \in 0 .. (m + 1)
        PROVE  f[n] = IF n = 0 THEN s ELSE ResumeSpecificThread(f[n - 1], AllThreads[n])
    <3>1. CASE n = m + 1
      <4>1. f[n] = w /\ f[n - 1] = g[m] /\ n # 0
            BY <3>1
      <4> HIDE DEF f
      <4> QED
            BY <3>1, <4>1
    <3>2. CASE n # m + 1
      <4>1. n \in 0 .. m /\ (n # 0 => n - 1 \in 0 .. m)
            BY <3>2
      <4>2. g[n] = IF n = 0 THEN s ELSE ResumeSpecificThread(g[n - 1], AllThreads[n])
            BY <2>1, <4>1 DEF Resumes
      <4>3. f[n] = g[n] /\ (n # 0 => f[n - 1] = g[n - 1])
            BY <3>2, <4>1
      <4> HIDE DEF f
      <4> QED
            BY <4>2, <4>3
    <3> QED
          BY <3>1, <3>2
  <2>3. f = [n \in 0 .. (m + 1) |-> f[n]]
        OBVIOUS
  <2> HIDE DEF f
  <2>4. Resumes(f, s, m + 1)
        BY <2>2, <2>3 DEF Resumes
  <2> QED
        BY <2>4
<1> HIDE DEF K
<1>3. Nat \subseteq K
      BY <1>1, <1>2, NatSetInduction
<1> QED
      BY <1>3 DEF K

LEMMA SuspendAll ==
  ASSUME NEW s, Good(s)
  PROVE  LET r == SuspendAllThreads(s) IN Good(r) /\ SameSuspended(s, r) /\ r.current \in {NIL, s.current}
<1> DEFINE after == CHOOSE f : Suspends(f, s, Len(AllThreads))
<1>1. SuspendAllThreads(s) = after[Len(AllThreads)]
      BY DEF SuspendAllThreads, Suspends
<1>2. Suspends(after, s, Len(AllThreads))
      BY SuspendsExists, AssumeFacts, Zenon
<1> HIDE DEF after
<1>3. /\ after[0] = s
      /\ \A n \in 1 .. Len(AllThreads) :
           after[n] = SuspendSpecificThread(after[n - 1], AllThreads[n])
  <2>1. \A n \in 0 .. Len(AllThreads) :
           after[n] = IF n = 0 THEN s ELSE SuspendSpecificThread(after[n - 1], AllThreads[n])
        BY <1>2 DEF Suspends
  <2> QED
        BY <2>1, AssumeFacts
<1> DEFINE P(r) == Good(r) /\ SameSuspended(s, r) /\ r.current \in {NIL, s.current}
           K == {n \in Nat : n <= Len(AllThreads) => P(after[n])}
<1>4. 0 \in K
      BY <1>3 DEF SameSuspended
<1>5. ASSUME NEW n \in Nat, n \in K PROVE n + 1 \in K
  <2> SUFFICES ASSUME n + 1 <= Len(AllThreads) PROVE P(after[n + 1])
      OBVIOUS
  <2>1. n + 1 \in 1 .. Len(AllThreads) /\ n + 1 - 1 = n /\ n <= Len(AllThreads)
        BY AssumeFacts
  <2>2. PICK a, t : a = after[n] /\ t = AllThreads[n + 1]
        OBVIOUS
  <2>3. t \in Threads /\ P(a)
        BY <1>5, <2>1, <2>2, AssumeFacts
  <2>4. after[n + 1] = SuspendSpecificThread(a, t)
        BY <1>3, <2>1, <2>2
  <2>5. PICK r : r = SuspendSpecificThread(a, t)
        OBVIOUS
  <2>6. Good(r) /\ SameSuspended(a, r) /\ r.current = IF t = a.current THEN NIL ELSE a.current
        BY <2>3, <2>5, SuspendOne
  <2> QED
        BY <2>3, <2>4, <2>5, <2>6 DEF SameSuspended
<1> HIDE DEF K
<1>6. Nat \subseteq K
      BY <1>4, <1>5, NatSetInduction
<1>7. P(after[Len(AllThreads)])
      BY <1>6, AssumeFacts DEF K
<1> QED
      BY <1>1, <1>7

(* Only threads that do not run are resumed.                               *)
LEMMA ResumeAll ==
  ASSUME NEW s, Good(s), s.current = NIL, \A t \in Threads : s.state[t] # {"ACTIVE"}
  PROVE  LET r == ResumeAllThreads(s) IN Good(r) /\ SameSuspended(s, r) /\ r.current = NIL
<1> DEFINE after == CHOOSE f : Resumes(f, [s EXCEPT !.current = NIL], Len(AllThreads))
<1>1. ResumeAllThreads(s) = after[Len(AllThreads)]
      BY DEF ResumeAllThreads, Resumes
<1>2. Resumes(after, [s EXCEPT !.current = NIL], Len(AllThreads))
      BY ResumesExists, AssumeFacts, Zenon
<1>3. [s EXCEPT !.current = NIL] = s
      BY DEF Good, Schedules
<1> HIDE DEF after
<1>4. /\ after[0] = s
      /\ \A n \in 1 .. Len(AllThreads) :
           after[n] = ResumeSpecificThread(after[n - 1], AllThreads[n])
  <2>1. Resumes(after, s, Len(AllThreads))
        BY <1>2, <1>3, Zenon
  <2>2. \A n \in 0 .. Len(AllThreads) :
           after[n] = IF n = 0 THEN s ELSE ResumeSpecificThread(after[n - 1], AllThreads[n])
        BY <2>1 DEF Resumes
  <2> QED
        BY <2>2, AssumeFacts
<1> DEFINE P(r, n) == /\ Good(r) /\ SameSuspended(s, r) /\ r.current = NIL
                      /\ \A m \in 1 .. Len(AllThreads) : m > n => r.state[AllThreads[m]] # {"ACTIVE"}
           K == {n \in Nat : n <= Len(AllThreads) => P(after[n], n)}
<1>5. 0 \in K
      BY <1>4, AssumeFacts DEF SameSuspended
<1>6. ASSUME NEW n \in Nat, n \in K PROVE n + 1 \in K
  <2> SUFFICES ASSUME n + 1 <= Len(AllThreads) PROVE P(after[n + 1], n + 1)
      OBVIOUS
  <2>1. n + 1 \in 1 .. Len(AllThreads) /\ n + 1 - 1 = n /\ n <= Len(AllThreads) /\ n + 1 > n
        BY AssumeFacts
  <2>2. PICK a, t : a = after[n] /\ t = AllThreads[n + 1]
        OBVIOUS
  <2>3. t \in Threads /\ P(a, n)
        BY <1>6, <2>1, <2>2, AssumeFacts
  <2>4. after[n + 1] = ResumeSpecificThread(a, t)
        BY <1>4, <2>1, <2>2
  <2>5. PICK r : r = ResumeSpecificThread(a, t)
        OBVIOUS
  <2>6. a.state[t] # {"ACTIVE"} /\ t # a.current
    <3>1. n + 1 \in 1 .. Len(AllThreads) /\ n + 1 > n /\ AllThreads[n + 1] = t
          BY <2>1, <2>2
    <3>2. \A m \in 1 .. Len(AllThreads) : m > n => a.state[AllThreads[m]] # {"ACTIVE"}
          BY <2>3
    <3>3. a.state[t] # {"ACTIVE"}
          BY ONLY <3>1, <3>2
    <3>4. t # NIL /\ a.current = NIL
          BY ONLY <2>3, AssumeFacts
    <3> QED
          BY ONLY <3>3, <3>4
  <2>7. /\ Good(r) /\ SameSuspended(a, r) /\ r.current = a.current
        /\ \A u \in Threads \ {t} : r.state[u] = a.state[u]
        BY <2>3, <2>5, <2>6, ResumeOne
  <2>8. ASSUME NEW m \in 1 .. Len(AllThreads), m > n + 1 PROVE r.state[AllThreads[m]] # {"ACTIVE"}
    <3>1. AllThreads[m] \in Threads /\ AllThreads[m] # t /\ m > n
          BY <2>1, <2>2, <2>8, AssumeFacts
    <3>2. a.state[AllThreads[m]] # {"ACTIVE"}
          BY <2>3, <3>1
    <3>3. r.state[AllThreads[m]] = a.state[AllThreads[m]]
          BY <2>7, <3>1
    <3> QED
          BY <3>2, <3>3
  <2>9. SameSuspended(s, r)
        BY <2>3, <2>7 DEF SameSuspended
  <2> QED
        BY <2>3, <2>4, <2>5, <2>7, <2>8, <2>9
<1> HIDE DEF K
<1>7. Nat \subseteq K
      BY <1>5, <1>6, NatSetInduction
<1>8. P(after[Len(AllThreads)], Len(AllThreads))
      BY <1>7, AssumeFacts DEF K
<1> QED
      BY <1>1, <1>8

-----------------------------------------------------------------------------
(* A thread is started.                                                    *)
LEMMA StartRuns ==
  ASSUME NEW s, Good(s), NEW u \in Threads, s.state[u] = {"JUST_BORN"}
  PROVE  LET r == ResumeThread([s EXCEPT !.state[u] = {"SUSPENDED"}], u)
         IN  Good(r) /\ SameSuspended(s, r) /\ r.current = s.current
<1>1. PICK st, n, q, c, v : s = Schedule(st, n, q, c, v) /\ Agree(st, n, q, c, v)
      BY GoodFields
<1> DEFINE r   == ResumeThread([s EXCEPT !.state[u] = {"SUSPENDED"}], u)
           st1 == With(st, u, {"SUSPENDED"})
           st2 == With(st, u, {"ACTIVE"})
<1>2. /\ st \in [Threads -> States] /\ n \in [Threads -> Nat] /\ q \in Seq(Threads)
      /\ IsInjective(q) /\ st[u] = {"JUST_BORN"} /\ u # c /\ st[u] # {"ACTIVE"}
  <2>1. /\ st \in [Threads -> States] /\ n \in [Threads -> Nat] /\ q \in Seq(Threads)
        /\ IsInjective(q) /\ st[u] = {"JUST_BORN"}
        BY <1>1, ScheduleParts DEF Agree
  <2>2. u = c => "ACTIVE" \in st[u]
        BY <1>1 DEF Agree
  <2> QED
        BY <2>1, <2>2
<1>3. n[u] = 0
  <2>1. "DBG_SUSPENDED" \in st[u] <=> n[u] > 0
        BY <1>1 DEF Agree
  <2> QED
        BY <1>2, <2>1
<1>4. [s EXCEPT !.state[u] = {"SUSPENDED"}] = Schedule(st1, n, q, c, v)
  <2>1. s.state = st
        BY <1>1, ScheduleParts
  <2>2. [s EXCEPT !.state[u] = {"SUSPENDED"}] = SetState(s, st1)
        BY <2>1, Zenon DEF SetState, With
  <2> QED
        BY <1>1, <2>2, ScheduleWith
<1>5. /\ st1[u] = {"SUSPENDED"} /\ With(st1, u, {"ACTIVE"}) = st2 /\ st2[u] = {"ACTIVE"}
      /\ \A x \in Threads : x # u => st2[x] = st[x]
  <2>1. st1[u] = {"SUSPENDED"}
        BY <1>2 DEF With
  <2>2. With(st1, u, {"ACTIVE"}) = st2
        BY <1>2 DEF With
  <2>3. st2[u] = {"ACTIVE"} /\ \A x \in Threads : x # u => st2[x] = st[x]
        BY <1>2 DEF With
  <2> QED
        BY <2>1, <2>2, <2>3
<1> DEFINE q1 == addThreadToQueue(q, u)
<1>6. r = Schedule(st2, n, q1, c, v)
  <2>1. r = ResumeThread(Schedule(st1, n, q, c, v), u)
        BY <1>4, Zenon
  <2>2. "SUSPENDED" \in st1[u] /\ "DBG_SUSPENDED" \notin st1[u]
        BY <1>5
  <2> HIDE DEF r, st1, st2
  <2>3. ResumeThread(Schedule(st1, n, q, c, v), u) = Schedule(With(st1, u, {"ACTIVE"}), n, q1, c, v)
        BY <1>2, <2>2, ResumeRuns
  <2> QED
        BY <1>5, <2>1, <2>3
<1>7. With(n, u, 0) = n
      BY <1>2, <1>3, WithItself
<1>8. Agree(st2, With(n, u, 0), q1, c, v)
      BY <1>1, <1>2, ResumeAgree
<1> HIDE DEF r, st2, q1
<1>9. Good(r)
      BY <1>6, <1>7, <1>8, GoodParts
<1>10. s.state = st /\ r.state = st2 /\ s.current = c /\ r.current = c
      BY <1>1, <1>6, ScheduleParts
<1>11. SameSuspended(s, r)
      BY <1>2, <1>5, <1>10 DEF SameSuspended, Suspended
<1> QED
      BY <1>9, <1>10, <1>11 DEF r

-----------------------------------------------------------------------------
(* The current thread gives up the CPU                                     *)

(* suspendThread() stores its registers and sets its flag, ...              *)
LEMMA FlagCurrent ==
  ASSUME NEW s, Good(s), s.current # NIL
  PROVE  LET t == s.current
             r == [Save(s, t) EXCEPT !.state[t] = @ \cup {"SUSPENDED"}]
         IN  /\ Good(r) /\ r.current = t /\ Suspended(r, t)
             /\ \A u \in Threads \ {t} : Suspended(r, u) <=> Suspended(s, u)
<1>1. PICK st, n, q, c, v : s = Schedule(st, n, q, c, v) /\ Agree(st, n, q, c, v)
      BY GoodFields
<1>2. s.state = st /\ s.saved = v /\ s.current = c
      BY <1>1, ScheduleParts
<1>3. /\ st \in [Threads -> States] /\ n \in [Threads -> Nat] /\ q \in Seq(Threads)
      /\ c \in Threads /\ v \in [Threads -> BOOLEAN] /\ IsInjective(q) /\ ~Contains(q, c)
      BY <1>1, <1>2 DEF Agree
<1> DEFINE x   == st[c] \cup {"SUSPENDED"}
           st1 == With(st, c, x)
           v1  == With(v, c, TRUE)
           r   == [Save(s, c) EXCEPT !.state[c] = @ \cup {"SUSPENDED"}]
<1>4. "ACTIVE" \in st[c] /\ ~("DBG_SUSPENDED" \in st[c]) /\ ("DBG_SUSPENDED" \in st[c] <=> n[c] > 0)
      BY <1>1, <1>3 DEF Agree
<1>5. x \in States /\ "ACTIVE" \in x /\ "SUSPENDED" \in x /\ "DBG_SUSPENDED" \notin x
      /\ x # {"ACTIVE"}
      BY <1>3, <1>4, FlagFacts
<1>6. r = Schedule(st1, n, q, c, v1)
  <2>0. PICK w : w = [v EXCEPT ![c] = TRUE]
        OBVIOUS
  <2>1. Save(s, c) = SetSaved(s, w)
        BY <1>2, <2>0, Zenon DEF Save, SetSaved
  <2> HIDE DEF v1
  <2>2. Save(s, c) = Schedule(st, n, q, c, w)
        BY <1>1, <2>1, ScheduleWith
  <2>3. PICK s1 : s1 = Save(s, c)
        OBVIOUS
  <2>4. s1.state = st
        BY <2>2, <2>3, ScheduleParts
  <2>5. r = SetState(s1, st1)
        BY <2>3, <2>4, Zenon DEF SetState, With
  <2>6. w = v1
        BY <2>0 DEF v1, With
  <2> HIDE DEF st1, r
  <2> QED
        BY <2>2, <2>3, <2>5, <2>6, ScheduleWith
<1> HIDE DEF x
<1>7. /\ st1 \in [Threads -> States] /\ st1[c] = x /\ v1 \in [Threads -> BOOLEAN] /\ v1[c]
      /\ \A u \in Threads : u # c => st1[u] = st[u] /\ v1[u] = v[u]
      BY <1>3, <1>5 DEF With
<1> HIDE DEF st1, v1
<1>8. ASSUME NEW u \in Threads
      PROVE  /\ "DBG_SUSPENDED" \in st1[u] <=> n[u] > 0
             /\ st1[u] = {"ACTIVE"} <=> Contains(q, u) \/ (u = c /\ ~("SUSPENDED" \in st1[u]))
             /\ u = c => "ACTIVE" \in st1[u] /\ ~("DBG_SUSPENDED" \in st1[u])
             /\ u # c \/ "SUSPENDED" \in st1[u] => v1[u]
  <2>1. /\ "DBG_SUSPENDED" \in st[u] <=> n[u] > 0
        /\ st[u] = {"ACTIVE"} <=> Contains(q, u) \/ (u = c /\ ~("SUSPENDED" \in st[u]))
        /\ u = c => "ACTIVE" \in st[u] /\ ~("DBG_SUSPENDED" \in st[u])
        /\ u # c \/ "SUSPENDED" \in st[u] => v[u]
        BY <1>1 DEF Agree
  <2>2. CASE u = c
        BY <1>3, <1>4, <1>5, <1>7, <2>1, <2>2
  <2>3. CASE u # c
        BY <1>7, <2>1, <2>3
  <2> QED
        BY <2>2, <2>3
<1>9. Agree(st1, n, q, c, v1)
      BY <1>3, <1>7, <1>8 DEF Agree
<1> HIDE DEF r
<1>10. Good(r)
      BY <1>6, <1>9, GoodParts
<1>11. r.state = st1 /\ r.current = c
      BY <1>6, ScheduleParts
<1>12. Suspended(r, c) /\ \A u \in Threads \ {c} : Suspended(r, u) <=> Suspended(s, u)
      BY <1>2, <1>5, <1>7, <1>11 DEF Suspended
<1> QED
      BY <1>2, <1>10, <1>11, <1>12 DEF r

(* ... and leaves CurrentThread empty.                                     *)
LEMMA DropCurrent ==
  ASSUME NEW s, Good(s), s.current # NIL => Suspended(s, s.current)
  PROVE  LET r == [s EXCEPT !.current = NIL]
         IN  Good(r) /\ SameSuspended(s, r) /\ r.current = NIL
<1>1. PICK st, n, q, c, v : s = Schedule(st, n, q, c, v) /\ Agree(st, n, q, c, v)
      BY GoodFields
<1>2. s.state = st /\ s.current = c
      BY <1>1, ScheduleParts
<1> DEFINE r == [s EXCEPT !.current = NIL]
<1>3. r = Schedule(st, n, q, NIL, v)
  <2>1. r = SetCurrent(s, NIL)
        BY DEF SetCurrent
  <2> QED
        BY <1>1, <2>1, ScheduleWith
<1>4. /\ st \in [Threads -> States] /\ n \in [Threads -> Nat] /\ q \in Seq(Threads)
      /\ c \in Threads \cup {NIL} /\ v \in [Threads -> BOOLEAN] /\ IsInjective(q)
      BY <1>1 DEF Agree
<1>5. ~Contains(q, NIL)
  <2>1. NIL \notin Threads
        BY AssumeFacts
  <2> QED
        BY <1>4, <2>1 DEF Contains
<1>6. c # NIL => "SUSPENDED" \in st[c]
      BY <1>2 DEF Suspended
<1>7. ASSUME NEW u \in Threads
      PROVE  /\ "DBG_SUSPENDED" \in st[u] <=> n[u] > 0
             /\ st[u] = {"ACTIVE"} <=> Contains(q, u) \/ (u = NIL /\ ~("SUSPENDED" \in st[u]))
             /\ u = NIL => "ACTIVE" \in st[u] /\ ~("DBG_SUSPENDED" \in st[u])
             /\ u # NIL \/ "SUSPENDED" \in st[u] => v[u]
  <2>1. /\ "DBG_SUSPENDED" \in st[u] <=> n[u] > 0
        /\ st[u] = {"ACTIVE"} <=> Contains(q, u) \/ (u = c /\ ~("SUSPENDED" \in st[u]))
        /\ u # c \/ "SUSPENDED" \in st[u] => v[u]
        BY <1>1 DEF Agree
  <2>2. u # NIL
        BY AssumeFacts
  <2> QED
        BY <1>6, <2>1, <2>2
<1>8. Agree(st, n, q, NIL, v)
      BY <1>4, <1>5, <1>7 DEF Agree
<1> HIDE DEF r
<1>9. Good(r)
      BY <1>3, <1>8, GoodParts
<1>10. r.state = st /\ r.current = NIL
      BY <1>3, ScheduleParts
<1> QED
      BY <1>2, <1>9, <1>10 DEF r, SameSuspended, Suspended

LEMMA SendEvent ==
  ASSUME NEW s, Good(s), NEW policy \in Policies, s.current # NIL
  PROVE  LET r == HandleSuspendPolicy(s, policy, s.current)
         IN  Good(r) /\ SameSuspended(s, r) /\ r.current \in {NIL, s.current}
<1>1. s.current \in Threads
      BY ScheduleFacts
<1>2. CASE policy = "NONE"
      BY <1>2 DEF HandleSuspendPolicy, SameSuspended
<1>3. CASE policy = "EVENT_THREAD"
  <2>1. HandleSuspendPolicy(s, policy, s.current) = SuspendSpecificThread(s, s.current)
        BY <1>3 DEF HandleSuspendPolicy
  <2>2. PICK r : r = SuspendSpecificThread(s, s.current)
        OBVIOUS
  <2>3. Good(r) /\ SameSuspended(s, r) /\ r.current = NIL
        BY <1>1, <2>2, SuspendOne
  <2> QED
        BY <2>1, <2>2, <2>3
<1>4. CASE policy = "ALL"
  <2>1. HandleSuspendPolicy(s, policy, s.current) = SuspendAllThreads(s)
        BY <1>4 DEF HandleSuspendPolicy
  <2> QED
        BY <2>1, SuspendAll
<1> QED
      BY <1>2, <1>3, <1>4 DEF Policies

LEMMA SuspendCurrent ==
  ASSUME NEW s, Good(s), NEW policy \in Policies, s.current # NIL
  PROVE  LET r == SuspendThread(s, policy)
         IN  /\ Good(r) /\ r.current = NIL /\ Suspended(r, s.current)
             /\ \A u \in Threads \ {s.current} : Suspended(r, u) <=> Suspended(s, u)
<1>1. PICK t, s1 : t = s.current /\ s1 = [Save(s, t) EXCEPT !.state[t] = @ \cup {"SUSPENDED"}]
      OBVIOUS
<1>2. /\ t \in Threads /\ Good(s1) /\ s1.current = t /\ Suspended(s1, t)
      /\ \A u \in Threads \ {t} : Suspended(s1, u) <=> Suspended(s, u)
      BY <1>1, FlagCurrent, ScheduleFacts
<1>3. PICK s2 : s2 = HandleSuspendPolicy(s1, policy, t)
      OBVIOUS
<1>4. Good(s2) /\ SameSuspended(s1, s2) /\ s2.current \in {NIL, t}
      BY <1>1, <1>2, <1>3, SendEvent
<1>5. PICK s3 : s3 = [s2 EXCEPT !.current = NIL]
      OBVIOUS
<1>6. Good(s3) /\ SameSuspended(s2, s3) /\ s3.current = NIL
      BY <1>2, <1>4, <1>5, DropCurrent DEF SameSuspended
<1>7. SuspendThread(s, policy) = s3
      BY <1>1, <1>3, <1>5, Zenon DEF SuspendThread
<1> QED
      BY <1>1, <1>2, <1>4, <1>6, <1>7 DEF SameSuspended

-----------------------------------------------------------------------------
(* SwitchThread()                                                          *)

LEMMA SwitchAgree ==
  ASSUME NEW st, NEW n, NEW q, NEW c, NEW v, Agree(st, n, q, c, v), q # <<>>,
         c # NIL => st[c] = {"ACTIVE"}
  PROVE  LET h  == Head(q)
             q1 == IF c = NIL THEN removeQueueStart(q) ELSE addThreadToQueue(removeQueueStart(q), c)
             v1 == IF c = NIL THEN v ELSE With(v, c, TRUE)
         IN  h \in Threads /\ st[h] = {"ACTIVE"} /\ Agree(st, n, q1, h, With(v1, h, FALSE))
<1> DEFINE h  == Head(q)
           p  == removeQueueStart(q)
           q1 == IF c = NIL THEN p ELSE addThreadToQueue(p, c)
           v1 == IF c = NIL THEN v ELSE With(v, c, TRUE)
           v2 == With(v1, h, FALSE)
<1>1. /\ st \in [Threads -> States] /\ n \in [Threads -> Nat] /\ q \in Seq(Threads)
      /\ c \in Threads \cup {NIL} /\ v \in [Threads -> BOOLEAN]
      /\ IsInjective(q) /\ ~Contains(q, c)
      BY DEF Agree
<1>2. h \in Threads /\ Contains(q, h) /\ h # c
      BY <1>1, EmptyQueue
<1>3. st[h] = {"ACTIVE"}
      BY <1>2 DEF Agree
<1>4. /\ p \in Seq(Threads) /\ IsInjective(p)
      /\ \A u : Contains(p, u) <=> Contains(q, u) /\ u # h
  <2>0. /\ removeQueueStart(q) = Tail(q) /\ PartOf(Tail(q), q)
        /\ \A u : Contains(Tail(q), u) <=> Contains(q, u) /\ u # Head(q)
        BY <1>1, TailEffect
  <2>1. p = Tail(q) /\ PartOf(p, q) /\ \A u : Contains(p, u) <=> Contains(q, u) /\ u # h
        BY <2>0
  <2>2. p \in Seq(Threads)
        BY <1>1, <2>1
  <2> QED
        BY <1>1, <2>1, <2>2, PartEffect
<1> HIDE DEF p, h
<1>5. /\ q1 \in Seq(Threads) /\ IsInjective(q1)
      /\ \A u : Contains(q1, u) <=> (Contains(q, u) /\ u # h) \/ (c # NIL /\ u = c)
  <2>1. CASE c = NIL
        BY <1>4, <2>1
  <2>2. CASE c # NIL
    <3>1. c \in Threads /\ ~Contains(p, c)
          BY <1>1, <1>4, <2>2
    <3>2. q1 = addThreadToQueue(p, c)
          BY <2>2
    <3> HIDE DEF q1
    <3>3. q1 \in Seq(Threads)
          BY <1>4, <3>1, <3>2, AddType
    <3>4. IsInjective(q1) /\ \A u : Contains(q1, u) <=> Contains(p, u) \/ u = c
          BY <1>4, <3>1, <3>2, AppendEffect
    <3> QED
          BY <1>4, <2>2, <3>3, <3>4
  <2> QED
        BY <2>1, <2>2
<1>6. v1 \in [Threads -> BOOLEAN] /\ \A u \in Threads : v1[u] <=> v[u] \/ u = c
  <2>1. CASE c = NIL
    <3>1. \A u \in Threads : u # c
          BY <2>1, AssumeFacts
    <3> QED
          BY <1>1, <2>1, <3>1
  <2>2. CASE c # NIL
    <3>1. v1 = With(v, c, TRUE) /\ c \in Threads
          BY <1>1, <2>2
    <3> HIDE DEF v1
    <3> QED
          BY <1>1, <3>1 DEF With
  <2> QED
        BY <2>1, <2>2
<1> HIDE DEF q1, v1
<1>7. v2 \in [Threads -> BOOLEAN] /\ \A u \in Threads : v2[u] <=> v1[u] /\ u # h
      BY <1>2, <1>6 DEF With
<1> HIDE DEF v2
<1>8. ASSUME NEW u \in Threads
      PROVE  /\ "DBG_SUSPENDED" \in st[u] <=> n[u] > 0
             /\ st[u] = {"ACTIVE"} <=> Contains(q1, u) \/ (u = h /\ ~("SUSPENDED" \in st[u]))
             /\ u = h => "ACTIVE" \in st[u] /\ ~("DBG_SUSPENDED" \in st[u])
             /\ u # h \/ "SUSPENDED" \in st[u] => v2[u]
  <2>1. /\ "DBG_SUSPENDED" \in st[u] <=> n[u] > 0
        /\ st[u] = {"ACTIVE"} <=> Contains(q, u) \/ (u = c /\ ~("SUSPENDED" \in st[u]))
        /\ u # c \/ "SUSPENDED" \in st[u] => v[u]
        BY DEF Agree
  <2>2. u # NIL
        BY AssumeFacts
  <2>3. /\ Contains(q1, u) <=> (Contains(q, u) /\ u # h) \/ (c # NIL /\ u = c)
        /\ v2[u] <=> (v[u] \/ u = c) /\ u # h
        BY <1>5, <1>6, <1>7
  <2>4. CASE u = h
        BY <1>2, <1>3, <2>1, <2>3, <2>4
  <2>5. CASE u = c
        BY <1>2, <2>1, <2>2, <2>3, <2>5
  <2>6. CASE u # h /\ u # c
        BY <2>1, <2>3, <2>6
  <2> QED
        BY <2>4, <2>5, <2>6
<1>9. ~Contains(q1, h)
      BY <1>2, <1>5
<1>10. Agree(st, n, q1, h, v2)
      BY <1>1, <1>2, <1>5, <1>7, <1>8, <1>9 DEF Agree
<1> QED
      BY <1>2, <1>3, <1>10 DEF h, p, q1, v1, v2

LEMMA SwitchRuns ==
  ASSUME NEW s, Good(s), s.current # NIL => ~Suspended(s, s.current)
  PROVE  LET r == SwitchThread(s)
         IN  /\ Good(r) /\ SameSuspended(s, r)
             /\ r.current # NIL => ~Suspended(r, r.current)
<1>1. PICK st, n, q, c, v : s = Schedule(st, n, q, c, v) /\ Agree(st, n, q, c, v)
      BY GoodFields
<1>2. s.state = st /\ s.current = c /\ s.run = q /\ s.saved = v
      BY <1>1, ScheduleParts
<1>3. c # NIL => st[c] = {"ACTIVE"}
  <2>1. c # NIL => c \in Threads /\ "SUSPENDED" \notin st[c]
        BY <1>1, <1>2 DEF Agree, Suspended
  <2> QED
        BY <1>1, <2>1 DEF Agree
<1> DEFINE r == SwitchThread(s)
<1>4. r = IF q = <<>> THEN s
          ELSE LET s1 == IF c = NIL THEN s ELSE Save(s, c)
                   p  == removeQueueStart(q)
               IN  [s1 EXCEPT !.current = Head(q), !.saved[Head(q)] = FALSE,
                              !.run = IF c = NIL THEN p ELSE addThreadToQueue(p, c)]
      BY <1>2, <1>3, Zenon DEF SwitchThread
<1>5. CASE q = <<>>
      BY <1>4, <1>5 DEF SameSuspended
<1>6. CASE q # <<>>
  <2> DEFINE h  == Head(q)
             q1 == IF c = NIL THEN removeQueueStart(q) ELSE addThreadToQueue(removeQueueStart(q), c)
             v1 == IF c = NIL THEN v ELSE With(v, c, TRUE)
             v2 == With(v1, h, FALSE)
             s1 == IF c = NIL THEN s ELSE Save(s, c)
  <2>1. h \in Threads /\ st[h] = {"ACTIVE"} /\ Agree(st, n, q1, h, v2)
        BY <1>1, <1>3, <1>6, SwitchAgree
  <2>2. s1 = Schedule(st, n, q, c, v1)
    <3>1. CASE c = NIL
          BY <1>1, <3>1
    <3>2. CASE c # NIL
      <4>1. PICK w : w = [v EXCEPT ![c] = TRUE]
            OBVIOUS
      <4>2. Save(s, c) = SetSaved(s, w)
            BY <1>2, <4>1, Zenon DEF Save, SetSaved
      <4>3. Save(s, c) = Schedule(st, n, q, c, w)
            BY <1>1, <4>2, ScheduleWith
      <4>4. w = v1
            BY <3>2, <4>1 DEF With
      <4> HIDE DEF v1
      <4> QED
            BY <3>2, <4>3, <4>4
    <3> QED
          BY <3>1, <3>2
  <2>3. r = [s1 EXCEPT !.current = h, !.saved[h] = FALSE, !.run = q1]
        BY <1>4, <1>6, Zenon
  <2> HIDE DEF r, q1, h, v1, s1
  <2>4. r = Schedule(st, n, q1, h, v2)
    <3>1. s1.saved = v1
          BY <2>2, ScheduleParts
    <3>2. PICK w : w = [v1 EXCEPT ![h] = FALSE]
          OBVIOUS
    <3>3. PICK s2 : s2 = SetCurrent(s1, h)
          OBVIOUS
    <3>4. s2 = Schedule(st, n, q, h, v1)
          BY <2>2, <3>3, ScheduleWith
    <3>5. PICK s3 : s3 = SetSaved(s2, w)
          OBVIOUS
    <3>6. s3 = Schedule(st, n, q, h, w) /\ s2.saved = v1
          BY <3>4, <3>5, ScheduleWith, ScheduleParts
    <3>7. r = SetRun(s3, q1)
      <4>1. s3 = [s2 EXCEPT !.saved[h] = FALSE]
            BY <3>2, <3>5, <3>6, Zenon DEF SetSaved
      <4>2. r = [s3 EXCEPT !.run = q1]
            BY <2>3, <3>3, <4>1, Zenon DEF SetCurrent
      <4> QED
            BY <4>2, Zenon DEF SetRun
    <3>8. r = Schedule(st, n, q1, h, w)
          BY <3>6, <3>7, ScheduleWith
    <3>9. w = v2
          BY <3>2 DEF With
    <3> HIDE DEF v2
    <3> QED
          BY <3>8, <3>9
  <2> HIDE DEF v2
  <2>5. Good(r) /\ r.state = st /\ r.current = h
        BY <2>1, <2>4, GoodParts, ScheduleParts
  <2> QED
        BY <1>2, <2>1, <2>5 DEF SameSuspended, Suspended, r
<1> QED
      BY <1>5, <1>6

-----------------------------------------------------------------------------
(* The invariant of the threads is inductive                               *)

LEMMA InitSched == Init => SchedInv
<1> SUFFICES ASSUME Init PROVE SchedInv
    OBVIOUS
<1>1. PICK l : l = Last(AllThreads)
      OBVIOUS
<1>2. l \in Threads /\ NIL \notin Threads /\ NIL # l
  <2>1. AllThreads \in Seq(Threads) /\ NIL \notin Threads
        BY AssumeFacts
  <2>2. AllThreads # <<>>
        BY AssumeFacts
  <2> QED
        BY <1>1, <2>1, <2>2 DEF Last
<1> DEFINE st == [t \in Threads |-> IF t = l THEN {"ACTIVE"} ELSE {"JUST_BORN"}]
           n  == [t \in Threads |-> 0]
           v  == [t \in Threads |-> t # l]
<1>3. sched = Schedule(st, n, <<>>, l, v)
      BY <1>1, Zenon DEF Init, Schedule
<1>4. /\ st \in [Threads -> States] /\ n \in [Threads -> Nat] /\ v \in [Threads -> BOOLEAN]
      /\ \A t \in Threads : /\ st[t] = IF t = l THEN {"ACTIVE"} ELSE {"JUST_BORN"}
                            /\ n[t] = 0 /\ (v[t] <=> t # l)
      BY DEF States
<1>5. <<>> \in Seq(Threads) /\ IsInjective(<<>>) /\ \A t : ~Contains(<<>>, t)
      BY EmptyQueue
<1> HIDE DEF st, n, v
<1>6. ASSUME NEW u \in Threads
      PROVE  /\ "DBG_SUSPENDED" \in st[u] <=> n[u] > 0
             /\ st[u] = {"ACTIVE"} <=> Contains(<<>>, u) \/ (u = l /\ ~("SUSPENDED" \in st[u]))
             /\ u = l => "ACTIVE" \in st[u] /\ ~("DBG_SUSPENDED" \in st[u])
             /\ u # l \/ "SUSPENDED" \in st[u] => v[u]
  <2>1. st[u] = IF u = l THEN {"ACTIVE"} ELSE {"JUST_BORN"}
        BY <1>4
  <2>2. n[u] = 0 /\ (v[u] <=> u # l) /\ ~Contains(<<>>, u)
        BY <1>4, <1>5
  <2>3. CASE u = l
        BY <2>1, <2>2, <2>3
  <2>4. CASE u # l
        BY <2>1, <2>2, <2>4
  <2> QED
        BY <2>3, <2>4
<1>7. Agree(st, n, <<>>, l, v)
      BY <1>2, <1>4, <1>5, <1>6 DEF Agree
<1>8. Good(sched)
      BY <1>3, <1>7, GoodParts
<1>9. sched.state = st /\ sched.current = l
      BY <1>3, ScheduleParts
<1>10. ~Suspended(sched, l)
      BY <1>2, <1>4, <1>9 DEF Suspended
<1>11. waitingThread = NIL /\ vm = "run"
      BY DEF Init
<1> QED
      BY <1>8, <1>9, <1>10, <1>11 DEF SchedInv

(* A step that leaves the threads Good and the waiting one suspended.      *)
LEMMA SchedStep ==
  ASSUME SchedInv, vm' \in {"run", "events", "idle", "debug", "switch"},
         Good(sched'), sched'.current # NIL => ~Suspended(sched', sched'.current),
         waitingThread' \in Threads \cup {NIL},
         waitingThread' # NIL => Suspended(sched', waitingThread')
  PROVE  SchedInv'
<1>1. Good(sched)' <=> Good(sched')
      BY DEF Good, Placed, Suspended, ByDebugger
<1> QED
      BY <1>1 DEF SchedInv, Suspended

LEMMA SchedWaits ==
  ASSUME SchedInv, NEW t \in Threads, sched.current = t, WaitsForEvent(t) PROVE SchedInv'
<1>1. PICK policy \in Policies : sched' = SuspendThread(sched, policy)
      BY Zenon DEF WaitsForEvent
<1>2. waitingThread' = t /\ vm' = "events" /\ Good(sched)
      BY Zenon DEF WaitsForEvent, SchedInv
<1>3. t # NIL
      BY AssumeFacts
<1>4. Good(sched') /\ sched'.current = NIL /\ Suspended(sched', t)
      BY <1>1, <1>2, <1>3, SuspendCurrent
<1> QED
      BY <1>2, <1>4, SchedStep

LEMMA SchedSame ==
  ASSUME SchedInv, sched' = sched, waitingThread' = waitingThread,
         vm' \in {"run", "events", "idle", "debug", "switch"}
  PROVE  SchedInv'
BY SchedStep DEF SchedInv

LEMMA SchedReadOneEvent ==
  ASSUME SchedInv, NEW t \in Threads, ReadOneEvent(t) PROVE SchedInv'
<1>1. sched.current = t /\ (UNCHANGED <<vm, sched, waitingThread>> \/ WaitsForEvent(t))
  <2>1. PICK outcome : ReadsCell(t, outcome.cell) \/ WaitsForEvent(t)
        BY Zenon DEF ReadOneEvent
  <2>2. sched.current = t
        BY DEF ReadOneEvent, Executes
  <2> QED
        BY <2>1, <2>2 DEF ReadsCell
<1>2. CASE WaitsForEvent(t)
      BY <1>1, <1>2, SchedWaits
<1>3. CASE UNCHANGED <<vm, sched, waitingThread>>
      BY <1>3, SchedSame DEF SchedInv
<1> QED
      BY <1>1, <1>2, <1>3

LEMMA SchedStart ==
  ASSUME SchedInv, NEW t \in Threads, NEW u \in Threads, Start(t, u) PROVE SchedInv'
<1>1. /\ sched.state[u] = {"JUST_BORN"}
      /\ sched' = ResumeThread([sched EXCEPT !.state[u] = {"SUSPENDED"}], u)
      /\ vm' = vm /\ waitingThread' = waitingThread
      BY DEF Start
<1>2. Good(sched)
      BY DEF SchedInv
<1>3. Good(sched') /\ SameSuspended(sched, sched') /\ sched'.current = sched.current
      BY <1>1, <1>2, StartRuns
<1>4. sched.current \in Threads \cup {NIL}
      BY <1>2, ScheduleFacts
<1> QED
      BY <1>1, <1>3, <1>4, SchedStep DEF SchedInv, SameSuspended

(* A step of the scheduler or of the debugger that flags no thread.        *)
LEMMA SchedMoves ==
  ASSUME SchedInv, Good(sched'), SameSuspended(sched, sched'),
         sched'.current \in {NIL, sched.current},
         waitingThread' = waitingThread, vm' \in {"run", "events", "idle", "debug", "switch"}
  PROVE  SchedInv'
<1>1. sched.current \in Threads \cup {NIL}
      BY ScheduleFacts DEF SchedInv
<1> QED
      BY <1>1, SchedStep DEF SchedInv, SameSuspended

LEMMA SchedReschedule ==
  ASSUME SchedInv, NEW t \in Threads, Reschedule(t) PROVE SchedInv'
<1>1. PICK policy \in Policies : sched' = HandleSuspendPolicy(sched, policy, t)
      BY Zenon DEF Reschedule
<1>2. sched.current = t /\ vm' = "events" /\ waitingThread' = waitingThread /\ Good(sched)
      BY DEF Reschedule, Executes, SchedInv
<1>3. t # NIL
      BY AssumeFacts
<1>4. Good(sched') /\ SameSuspended(sched, sched') /\ sched'.current \in {NIL, t}
      BY <1>1, <1>2, <1>3, SendEvent
<1> QED
      BY <1>2, <1>4, SchedMoves

LEMMA SchedHandleEvent ==
  ASSUME SchedInv, HandleEvent PROVE SchedInv'
<1>1. waitingThread # NIL /\ vm' = "debug"
      BY DEF HandleEvent
<1>2. (\E cell : HandOver(cell)) \/ UNCHANGED <<sched, waitingThread>>
  <2>1. PICK outcome : HandOver(outcome.cell) \/ UNCHANGED <<result, sched, waitingThread>>
        BY Zenon DEF HandleEvent
  <2> QED
        BY <2>1
<1>3. CASE UNCHANGED <<sched, waitingThread>>
      BY <1>1, <1>3, SchedSame
<1>4. ASSUME NEW cell, HandOver(cell) PROVE SchedInv'
  <2>1. PICK w : w = waitingThread
        OBVIOUS
  <2>2. sched' = ResumeThread(sched, w) /\ waitingThread' = NIL
        BY <1>4, <2>1 DEF HandOver
  <2>3. Good(sched) /\ w \in Threads /\ Suspended(sched, w) /\ w # sched.current
        BY <1>1, <2>1 DEF SchedInv
  <2>4. /\ Good(sched') /\ sched'.current = sched.current
        /\ \A u \in Threads \ {w} : Suspended(sched', u) <=> Suspended(sched, u)
        BY <2>2, <2>3, ResumeWaiting
  <2>5. sched.current \in Threads \cup {NIL}
        BY <2>3, ScheduleFacts
  <2> QED
        BY <1>1, <2>2, <2>3, <2>4, <2>5, SchedStep DEF SchedInv
<1> QED
      BY <1>2, <1>3, <1>4

LEMMA SchedSwitch ==
  ASSUME SchedInv, Switch PROVE SchedInv'
<1>1. sched' = SwitchThread(sched) /\ vm' \in {"events", "run"} /\ waitingThread' = waitingThread
      BY DEF Switch
<1>2. Good(sched) /\ (sched.current # NIL => ~Suspended(sched, sched.current))
      BY DEF SchedInv
<1>3. /\ Good(sched') /\ SameSuspended(sched, sched')
      /\ sched'.current # NIL => ~Suspended(sched', sched'.current)
      BY <1>1, <1>2, SwitchRuns
<1> QED
      BY <1>1, <1>3, SchedStep DEF SchedInv, SameSuspended

LEMMA SchedDebugging ==
  ASSUME SchedInv, CarefulDebugger, Debugging PROVE SchedInv'
<1>1. Good(sched)
      BY DEF SchedInv
<1>2. CASE VirtualMachine_Suspend
  <2>1. sched' = SuspendAllThreads(sched) /\ waitingThread' = waitingThread
        /\ vm' \in {"debug", "switch"}
        BY <1>2 DEF VirtualMachine_Suspend, SuspendCommand, Command, InProcessDebugCmds
  <2>2. Good(sched') /\ SameSuspended(sched, sched') /\ sched'.current \in {NIL, sched.current}
        BY <1>1, <2>1, SuspendAll
  <2> QED
        BY <2>1, <2>2, SchedMoves
<1>3. CASE VirtualMachine_Resume
  <2>1. /\ sched' = ResumeAllThreads(sched) /\ waitingThread' = waitingThread
        /\ vm' \in {"debug", "switch"} /\ \A t \in Threads : sched.state[t] # {"ACTIVE"}
        BY <1>3 DEF VirtualMachine_Resume, Command, InProcessDebugCmds
  <2>2. sched.current = NIL
    <3> SUFFICES ASSUME sched.current # NIL PROVE FALSE
        OBVIOUS
    <3>1. PICK c : c = sched.current
          OBVIOUS
    <3>2. c \in Threads /\ ~Suspended(sched, c) /\ Placed(sched, c)
          BY <1>1, <3>1, ScheduleFacts DEF Good, SchedInv
    <3>3. sched.state[c] = {"ACTIVE"}
          BY <3>1, <3>2 DEF Placed
    <3> QED
          BY <2>1, <3>2, <3>3
  <2>3. Good(sched') /\ SameSuspended(sched, sched') /\ sched'.current = NIL
        BY <1>1, <2>1, <2>2, ResumeAll
  <2> QED
        BY <2>1, <2>3, SchedMoves
<1>4. ASSUME NEW t \in Threads, ThreadReference_Suspend(t) PROVE SchedInv'
  <2>1. sched' = SuspendSpecificThread(sched, t) /\ waitingThread' = waitingThread
        /\ vm' \in {"debug", "switch"}
        BY <1>4 DEF ThreadReference_Suspend, SuspendCommand, Command, InProcessDebugCmds
  <2>2. Good(sched') /\ SameSuspended(sched, sched') /\ sched'.current \in {NIL, sched.current}
        BY <1>1, <2>1, SuspendOne
  <2> QED
        BY <2>1, <2>2, SchedMoves
<1>5. ASSUME NEW t \in Threads, ThreadReference_Resume(t) PROVE SchedInv'
  <2>1. /\ sched' = ResumeSpecificThread(sched, t) /\ waitingThread' = waitingThread
        /\ vm' \in {"debug", "switch"} /\ ByDebugger(sched, t)
        BY <1>5 DEF ThreadReference_Resume, Command, InProcessDebugCmds
  <2>2. t # sched.current /\ sched.state[t] # {"ACTIVE"}
        BY <1>1, <2>1 DEF Good, Placed, ByDebugger
  <2>3. Good(sched') /\ SameSuspended(sched, sched') /\ sched'.current = sched.current
        BY <1>1, <2>1, <2>2, ResumeOne
  <2> QED
        BY <2>1, <2>3, SchedMoves
<1> QED
      BY <1>2, <1>3, <1>4, <1>5 DEF Debugging

LEMMA NextSched ==
  ASSUME SchedInv, CarefulDebugger, [Next]_vars PROVE SchedInv'
<1>1. vm \in {"run", "events", "idle", "debug", "switch"}
      BY DEF SchedInv
<1>2. CASE Arrive
      BY <1>1, <1>2, SchedSame DEF Arrive
<1>3. ASSUME NEW t \in Threads, Executing(t) PROVE SchedInv'
  <2>1. CASE ReadOneEvent(t)
        BY <2>1, SchedReadOneEvent
  <2>2. CASE ReturnFromWait(t)
        BY <1>1, <2>2, SchedSame DEF ReturnFromWait
  <2>3. CASE Reschedule(t)
        BY <2>3, SchedReschedule
  <2>4. CASE \E u \in Threads : Start(t, u)
        BY <2>4, SchedStart
  <2> QED
        BY <1>3, <2>1, <2>2, <2>3, <2>4 DEF Executing
<1>4. CASE NoEventWanted
      BY <1>4, SchedSame DEF NoEventWanted
<1>5. CASE NoCommand
      BY <1>5, SchedSame DEF NoCommand, InProcessDebugCmds
<1>6. CASE UNCHANGED vars
      BY <1>1, <1>6, SchedSame DEF vars
<1> QED
      BY <1>2, <1>3, <1>4, <1>5, <1>6, SchedHandleEvent, SchedSwitch, SchedDebugging
      DEF Next, Rescheduling

-----------------------------------------------------------------------------
(* The event buffer                                                        *)

LEMMA SameSequence ==
  ASSUME NEW S, NEW a \in Seq(S), NEW b \in Seq(S), Len(a) = Len(b),
         \A i \in 1 .. Len(a) : a[i] = b[i]
  PROVE  a = b
OBVIOUS

LEMMA BufferFacts ==
  ASSUME NEW q \in Queues
  PROVE  /\ InBuffer(q) \in Seq(EventCells) /\ Len(InBuffer(q)) = q.eventCount
         /\ q.eventCount \in Nat
         /\ \A i \in 1 .. q.eventCount :
              InBuffer(q)[i] = q.eventBuffer[q.eventInP - q.eventCount + i - 1]
<1>1. MAXPARMLENGTH \in Nat \ {0}
      BY EventAssumption
<1>2. PICK b, p, k : b = q.eventBuffer /\ p = q.eventInP /\ k = q.eventCount
      OBVIOUS
<1>3. /\ b \in [0 .. (MAXPARMLENGTH - 1) -> Triples] /\ p \in 0 .. MAXPARMLENGTH
      /\ k \in 0 .. MAXPARMLENGTH /\ k <= p
      /\ \A i \in 0 .. (MAXPARMLENGTH - 1) : p - k <= i /\ i < p => b[i] \in EventCells
      BY <1>2 DEF Queues
<1> DEFINE f == [i \in 1 .. MAXPARMLENGTH |-> b[i - 1]]
           c == [i \in 1 .. k |-> b[p - k + i - 1]]
<1>4. InBuffer(q) = SubSeq(f, p - k + 1, p)
      BY <1>2, Zenon DEF InBuffer
<1>5. SubSeq(f, p - k + 1, p) = c
  <2>1. f \in Seq(Triples) /\ Len(f) = MAXPARMLENGTH
    <3>1. \A i \in 1 .. MAXPARMLENGTH : i - 1 \in 0 .. (MAXPARMLENGTH - 1)
          BY <1>1
    <3> QED
          BY <1>1, <1>3, <3>1
  <2>2. SubSeq(f, p - k + 1, p) = [i \in 1 .. k |-> f[i + (p - k + 1) - 1]]
    <3>1. p - k + 1 \in 1 .. (Len(f) + 1) /\ p \in (p - k + 1) - 1 .. Len(f)
          BY <1>1, <1>3, <2>1
    <3> HIDE DEF f
    <3> QED
          BY <1>1, <1>3, <2>1, <3>1
  <2>3. ASSUME NEW i \in 1 .. k PROVE f[i + (p - k + 1) - 1] = b[p - k + i - 1]
    <3>1. i + (p - k + 1) - 1 \in 1 .. MAXPARMLENGTH
          BY <1>1, <1>3
    <3>2. (i + (p - k + 1) - 1) - 1 = p - k + i - 1
          BY <1>1, <1>3
    <3> QED
          BY <3>1, <3>2
  <2> HIDE DEF f
  <2> QED
        BY <2>2, <2>3
<1>6. \A i \in 1 .. k : p - k + i - 1 \in 0 .. (MAXPARMLENGTH - 1)
                        /\ p - k <= p - k + i - 1 /\ p - k + i - 1 < p
      BY <1>1, <1>3
<1>7. \A i \in 1 .. k : b[p - k + i - 1] \in EventCells
      BY <1>3, <1>6
<1>8. k \in Nat
      BY <1>1, <1>3
<1>9. c \in Seq(EventCells) /\ Len(c) = k /\ \A i \in 1 .. k : c[i] = b[p - k + i - 1]
      BY <1>7, <1>8
<1> HIDE DEF c, f
<1> QED
      BY <1>2, <1>4, <1>5, <1>8, <1>9

LEMMA CellFacts ==
  ASSUME NEW k \in Nat \ {0}, NEW n \in Nat
  PROVE  /\ Cells(k, n) \in Seq(EventCells) /\ Len(Cells(k, n)) = n + 1
         /\ \A i \in 1 .. (n + 1) : Cells(k, n)[i] = <<k, i - 1, n>>
<1>1. \A i \in 1 .. (n + 1) : <<k, i - 1, n>> \in EventCells
      BY DEF EventCells
<1> QED
      BY <1>1 DEF Cells

(* The cells of two sequences one after the other.                         *)
LEMMA JoinedCells ==
  ASSUME NEW S, NEW x \in Seq(S), NEW y \in Seq(S), NEW m \in Nat, NEW n \in Nat,
         Len(x) = m, Len(y) = n + 1
  PROVE  /\ x \o y \in Seq(S) /\ Len(x \o y) = m + n + 1
         /\ \A i \in 1 .. (m + n + 1) : (x \o y)[i] = IF i <= m THEN x[i] ELSE y[i - m]
<1>1. x \o y \in Seq(S) /\ Len(x \o y) = Len(x) + Len(y)
      OBVIOUS
<1>2. \A i \in 1 .. (Len(x) + Len(y)) :
         (x \o y)[i] = IF i <= Len(x) THEN x[i] ELSE y[i - Len(x)]
      OBVIOUS
<1> QED
      BY <1>1, <1>2

(* StoreKVMEvent adds the cells of the event behind those in the buffer,   *)
(* or drops the event.                                                     *)
LEMMA StoreEffect ==
  ASSUME NEW q \in Queues, NEW e \in HostEvents
  PROVE  LET r == StoreKVMEvent(q, e)
         IN  /\ r \in Queues
             /\ InBuffer(r) = IF Fits(q, e[2]) THEN InBuffer(q) \o Cells(e[1], e[2])
                              ELSE InBuffer(q)
<1>1. PICK k, n : e = <<k, n>> /\ k \in Nat \ {0} /\ n \in ArgCounts
      BY DEF HostEvents
<1>2. MAXPARMLENGTH \in Nat \ {0} /\ n \in Nat /\ n <= MAXPARMLENGTH - 1 /\ e[1] = k /\ e[2] = n
      BY <1>1, EventAssumption
<1> DEFINE r == StoreKVMEvent(q, e)
<1>3. CASE ~Fits(q, n)
      BY <1>2, <1>3 DEF StoreKVMEvent
<1>4. CASE Fits(q, n)
  <2>1. PICK b, p, m : b = q.eventBuffer /\ p = q.eventInP /\ m = q.eventCount
        OBVIOUS
  <2>2. /\ b \in [0 .. (MAXPARMLENGTH - 1) -> Triples] /\ p \in 0 .. MAXPARMLENGTH
        /\ m \in 0 .. MAXPARMLENGTH /\ m <= p
        /\ \A i \in 0 .. (MAXPARMLENGTH - 1) : p - m <= i /\ i < p => b[i] \in EventCells
        BY <2>1 DEF Queues
  <2>3. PICK inP : inP = InP(q, n)
        OBVIOUS
  <2>4. /\ inP \in 0 .. MAXPARMLENGTH /\ m <= inP /\ inP + n + 1 <= MAXPARMLENGTH
        /\ m # 0 => inP = p
        BY <1>2, <1>4, <2>1, <2>2, <2>3 DEF InP, Fits
  <2> DEFINE d == [i \in 0 .. (MAXPARMLENGTH - 1) |->
                     IF i \in inP .. (inP + n) THEN <<k, i - inP, n>> ELSE b[i]]
  <2>5. r = [eventBuffer |-> d, eventInP |-> inP + n + 1, eventCount |-> m + n + 1]
    <3>1. DOMAIN q.eventBuffer = 0 .. (MAXPARMLENGTH - 1)
          BY <2>1, <2>2
    <3> QED
          BY <1>2, <1>4, <2>1, <2>3, <3>1 DEF StoreKVMEvent
  <2>6. ASSUME NEW i \in 0 .. (MAXPARMLENGTH - 1)
        PROVE  d[i] \in Triples /\ (inP - m <= i /\ i < inP + n + 1 => d[i] \in EventCells)
    <3>1. CASE i \in inP .. (inP + n)
      <4>1. d[i] = <<k, i - inP, n>> /\ i - inP \in Nat
            BY <1>2, <2>4, <3>1
      <4> QED
            BY <1>1, <1>2, <4>1 DEF Triples, EventCells
    <3>2. CASE i \notin inP .. (inP + n)
      <4>1. d[i] = b[i] /\ b[i] \in Triples
            BY <2>2, <3>2
      <4>2. inP - m <= i /\ i < inP + n + 1 => p - m <= i /\ i < p
            BY <1>2, <2>2, <2>4, <3>2
      <4> HIDE DEF d
      <4> QED
            BY <2>2, <4>1, <4>2
    <3> QED
          BY <3>1, <3>2
  <2>7. d \in [0 .. (MAXPARMLENGTH - 1) -> Triples]
    <3>1. d = [i \in 0 .. (MAXPARMLENGTH - 1) |-> d[i]]
          OBVIOUS
    <3> HIDE DEF d
    <3> QED
          BY <2>6, <3>1
  <2>8. /\ d \in [0 .. (MAXPARMLENGTH - 1) -> Triples]
        /\ \A i \in 1 .. (m + n + 1) :
             d[inP - m + i - 1] = IF i <= m THEN b[p - m + i - 1] ELSE <<k, i - m - 1, n>>
    <3>1. ASSUME NEW i \in 1 .. (m + n + 1)
          PROVE  d[inP - m + i - 1] = IF i <= m THEN b[p - m + i - 1] ELSE <<k, i - m - 1, n>>
      <4>1. inP - m + i - 1 \in 0 .. (MAXPARMLENGTH - 1)
            BY <1>2, <2>2, <2>4
      <4>2. CASE i <= m
        <5>1. inP - m + i - 1 \notin inP .. (inP + n) /\ inP - m + i - 1 = p - m + i - 1
              BY <1>2, <2>2, <2>4, <4>2
        <5> QED
              BY <4>1, <4>2, <5>1
      <4>3. CASE ~(i <= m)
        <5>1. inP - m + i - 1 \in inP .. (inP + n) /\ (inP - m + i - 1) - inP = i - m - 1
              BY <1>2, <2>2, <2>4, <4>3
        <5> QED
              BY <4>1, <4>3, <5>1
      <4> QED
            BY <4>2, <4>3
    <3> HIDE DEF d
    <3> QED
          BY <2>7, <3>1
  <2> HIDE DEF d, r
  <2>9. r.eventBuffer = d /\ r.eventInP = inP + n + 1 /\ r.eventCount = m + n + 1
        BY <2>5
  <2>10. r \in Queues
    <3>1. inP + n + 1 \in 0 .. MAXPARMLENGTH /\ m + n + 1 \in 0 .. MAXPARMLENGTH
          /\ m + n + 1 <= inP + n + 1 /\ (inP + n + 1) - (m + n + 1) = inP - m
          BY <1>2, <2>2, <2>4
    <3>2. r \in [eventBuffer : [0 .. (MAXPARMLENGTH - 1) -> Triples],
                 eventInP : 0 .. MAXPARMLENGTH, eventCount : 0 .. MAXPARMLENGTH]
          BY <2>5, <2>7, <3>1
    <3> QED
          BY <2>6, <2>9, <3>1, <3>2 DEF Queues
  <2>11. /\ InBuffer(r) \in Seq(EventCells) /\ Len(InBuffer(r)) = m + n + 1
         /\ \A i \in 1 .. (m + n + 1) : InBuffer(r)[i] = d[inP - m + i - 1]
    <3>1. /\ InBuffer(r) \in Seq(EventCells) /\ Len(InBuffer(r)) = m + n + 1
          /\ \A i \in 1 .. (m + n + 1) :
                InBuffer(r)[i] = d[(inP + n + 1) - (m + n + 1) + i - 1]
          BY <2>9, <2>10, BufferFacts
    <3>2. (inP + n + 1) - (m + n + 1) = inP - m
          BY <1>2, <2>2, <2>4
    <3> QED
          BY <3>1, <3>2
  <2>12. PICK x, y : x = InBuffer(q) /\ y = Cells(k, n)
        OBVIOUS
  <2>13. /\ x \in Seq(EventCells) /\ Len(x) = m
         /\ \A i \in 1 .. m : x[i] = b[p - m + i - 1]
        BY <2>1, <2>12, BufferFacts
  <2>14. /\ y \in Seq(EventCells) /\ Len(y) = n + 1
         /\ \A i \in 1 .. (n + 1) : y[i] = <<k, i - 1, n>>
        BY <1>1, <1>2, <2>12, CellFacts
  <2>15. /\ x \o y \in Seq(EventCells) /\ Len(x \o y) = m + n + 1
         /\ \A i \in 1 .. (m + n + 1) : (x \o y)[i] = IF i <= m THEN x[i] ELSE y[i - m]
    <3>1. m \in Nat /\ n \in Nat /\ Len(x) = m /\ Len(y) = n + 1
          BY <1>2, <2>2, <2>13, <2>14
    <3>2. x \in Seq(EventCells) /\ y \in Seq(EventCells)
          BY <2>13, <2>14
    <3> QED
          BY ONLY <3>1, <3>2, JoinedCells
  <2>16. ASSUME NEW i \in 1 .. (m + n + 1) PROVE InBuffer(r)[i] = (x \o y)[i]
    <3>1. InBuffer(r)[i] = IF i <= m THEN b[p - m + i - 1] ELSE <<k, i - m - 1, n>>
          BY <2>8, <2>11
    <3>2. m \in Nat
          BY <2>2
    <3>3. CASE i <= m
          BY <2>13, <2>15, <3>1, <3>2, <3>3
    <3>4. CASE ~(i <= m)
      <4>1. i - m \in 1 .. (n + 1)
            BY <1>2, <3>2, <3>4
      <4> QED
            BY <2>14, <2>15, <3>1, <3>4, <4>1
    <3> QED
          BY <3>3, <3>4
  <2>17. InBuffer(r) = x \o y
        BY <2>11, <2>15, <2>16, SameSequence
  <2> QED
        BY <1>2, <1>4, <2>10, <2>12, <2>17 DEF r
<1> QED
      BY <1>2, <1>3, <1>4

(* getKVMEvent takes the first cell.                                       *)
LEMMA NextEffect ==
  ASSUME NEW q \in Queues, q.eventCount > 0
  PROVE  LET r == [q EXCEPT !.eventCount = @ - 1]
         IN  /\ r \in Queues /\ NextCell(q) \in EventCells
             /\ InBuffer(q) = <<NextCell(q)>> \o InBuffer(r)
<1>1. MAXPARMLENGTH \in Nat \ {0}
      BY EventAssumption
<1>2. PICK b, p, k : b = q.eventBuffer /\ p = q.eventInP /\ k = q.eventCount
      OBVIOUS
<1>3. /\ b \in [0 .. (MAXPARMLENGTH - 1) -> Triples] /\ p \in 0 .. MAXPARMLENGTH
      /\ k \in 1 .. MAXPARMLENGTH /\ k <= p
      /\ \A i \in 0 .. (MAXPARMLENGTH - 1) : p - k <= i /\ i < p => b[i] \in EventCells
      BY <1>2 DEF Queues
<1>4. q = [eventBuffer |-> b, eventInP |-> p, eventCount |-> k]
      BY <1>2 DEF Queues
<1> DEFINE r == [q EXCEPT !.eventCount = @ - 1]
<1>5. r = [eventBuffer |-> b, eventInP |-> p, eventCount |-> k - 1]
      BY <1>2, <1>4
<1>6. NextCell(q) = b[p - k]
      BY <1>2 DEF NextCell
<1>7. p - k \in 0 .. (MAXPARMLENGTH - 1) /\ p - k <= p - k /\ p - k < p
      BY <1>1, <1>3
<1>8. NextCell(q) \in EventCells
      BY <1>3, <1>6, <1>7
<1> HIDE DEF r
<1>9. r \in Queues
  <2>1. k - 1 \in 0 .. MAXPARMLENGTH /\ k - 1 <= p
        /\ \A i \in 0 .. (MAXPARMLENGTH - 1) : p - (k - 1) <= i => p - k <= i
        BY <1>1, <1>3
  <2>2. r \in [eventBuffer : [0 .. (MAXPARMLENGTH - 1) -> Triples],
               eventInP : 0 .. MAXPARMLENGTH, eventCount : 0 .. MAXPARMLENGTH]
        BY <1>3, <1>5, <2>1
  <2>3. r.eventBuffer = b /\ r.eventInP = p /\ r.eventCount = k - 1
        BY <1>5
  <2> QED
        BY <1>3, <2>1, <2>2, <2>3 DEF Queues
<1>10. PICK x, y, z : x = InBuffer(q) /\ y = InBuffer(r) /\ z = NextCell(q)
      OBVIOUS
<1>11. /\ x \in Seq(EventCells) /\ Len(x) = k
       /\ \A i \in 1 .. k : x[i] = b[p - k + i - 1]
      BY <1>2, <1>10, BufferFacts
<1>12. /\ y \in Seq(EventCells) /\ Len(y) = k - 1
       /\ \A i \in 1 .. (k - 1) : y[i] = b[p - (k - 1) + i - 1]
      BY <1>5, <1>9, <1>10, BufferFacts
<1>13. /\ <<z>> \o y \in Seq(EventCells) /\ Len(<<z>> \o y) = k
       /\ \A i \in 1 .. k : (<<z>> \o y)[i] = IF i = 1 THEN z ELSE y[i - 1]
      BY <1>3, <1>8, <1>10, <1>12
<1>14. ASSUME NEW i \in 1 .. k PROVE x[i] = (<<z>> \o y)[i]
  <2>1. CASE i = 1
    <3>1. p - k + i - 1 = p - k
          BY <1>1, <1>3, <2>1
    <3> QED
          BY <1>6, <1>10, <1>11, <1>13, <2>1, <3>1
  <2>2. CASE i # 1
    <3>1. i - 1 \in 1 .. (k - 1) /\ p - (k - 1) + (i - 1) - 1 = p - k + i - 1
          BY <1>1, <1>3, <2>2
    <3> QED
          BY <1>11, <1>12, <1>13, <2>2, <3>1
  <2> QED
        BY <2>1, <2>2
<1>15. x = <<z>> \o y
      BY <1>11, <1>13, <1>14, SameSequence
<1> QED
      BY <1>8, <1>9, <1>10, <1>15 DEF r

(* The loop of GetAndStoreNextKVMEvent: after[n] is the buffer after n     *)
(* native events, with the cells they brought.                             *)
AddEvent(a, e) ==
  [q |-> StoreKVMEvent(a.q, e),
   cells |-> IF Fits(a.q, e[2]) THEN a.cells \o Cells(e[1], e[2]) ELSE a.cells]
Accepts(after, q, es, m) ==
  after = [n \in 0 .. m |-> IF n = 0 THEN [q |-> q, cells |-> <<>>]
                            ELSE AddEvent(after[n - 1], es[n])]

LEMMA AcceptsExists ==
  ASSUME NEW q, NEW es PROVE \A m \in Nat : \E f : Accepts(f, q, es, m)
<1> DEFINE z == [q |-> q, cells |-> <<>>]
           K == {m \in Nat : \E f : Accepts(f, q, es, m)}
<1>1. 0 \in K
  <2> DEFINE f == [n \in 0 .. 0 |-> z]
  <2>1. Accepts(f, q, es, 0)
        BY DEF Accepts
  <2> QED
        BY <2>1
<1>2. ASSUME NEW m \in Nat, m \in K PROVE m + 1 \in K
  <2>1. PICK g : Accepts(g, q, es, m)
        BY <1>2
  <2> HIDE DEF z
  <2> DEFINE w == AddEvent(g[m], es[m + 1])
             f == [n \in 0 .. (m + 1) |-> IF n = m + 1 THEN w ELSE g[n]]
  <2>2. ASSUME NEW n \in 0 .. (m + 1)
        PROVE  f[n] = IF n = 0 THEN z ELSE AddEvent(f[n - 1], es[n])
    <3>1. CASE n = m + 1
      <4>1. f[n] = w /\ f[n - 1] = g[m] /\ n # 0
            BY <3>1
      <4> HIDE DEF f
      <4> QED
            BY <3>1, <4>1
    <3>2. CASE n # m + 1
      <4>1. n \in 0 .. m /\ (n # 0 => n - 1 \in 0 .. m)
            BY <3>2
      <4>2. g[n] = IF n = 0 THEN z ELSE AddEvent(g[n - 1], es[n])
            BY <2>1, <4>1 DEF Accepts, z
      <4>3. f[n] = g[n] /\ (n # 0 => f[n - 1] = g[n - 1])
            BY <3>2, <4>1
      <4> HIDE DEF f
      <4> QED
            BY <4>2, <4>3
    <3> QED
          BY <3>1, <3>2
  <2>3. f = [n \in 0 .. (m + 1) |-> f[n]]
        OBVIOUS
  <2> HIDE DEF f
  <2>4. Accepts(f, q, es, m + 1)
        BY <2>2, <2>3 DEF Accepts, z
  <2> QED
        BY <2>4
<1> HIDE DEF K
<1>3. Nat \subseteq K
      BY <1>1, <1>2, NatSetInduction
<1> QED
      BY <1>3 DEF K

LEMMA AddEffect ==
  ASSUME NEW a, NEW e \in HostEvents, a.q \in Queues, a.cells \in Seq(EventCells),
         NEW x \in Seq(EventCells), InBuffer(a.q) = x \o a.cells
  PROVE  LET r == AddEvent(a, e)
         IN  r.q \in Queues /\ r.cells \in Seq(EventCells) /\ InBuffer(r.q) = x \o r.cells
<1>1. PICK q, c : q = a.q /\ c = a.cells
      OBVIOUS
<1>2. PICK k, n : e = <<k, n>> /\ k \in Nat \ {0} /\ n \in ArgCounts
      BY DEF HostEvents
<1>3. n \in Nat /\ e[1] = k /\ e[2] = n
      BY <1>2, EventAssumption
<1>4. PICK y, d : y = Cells(k, n) /\ d = StoreKVMEvent(q, e)
      OBVIOUS
<1>5. y \in Seq(EventCells)
      BY <1>2, <1>3, <1>4, CellFacts
<1>6. d \in Queues /\ InBuffer(d) = IF Fits(q, n) THEN InBuffer(q) \o y ELSE InBuffer(q)
      BY <1>1, <1>3, <1>4, StoreEffect
<1>7. PICK r : r = AddEvent(a, e)
      OBVIOUS
<1>8. r.q = d /\ r.cells = IF Fits(q, n) THEN c \o y ELSE c
      BY <1>1, <1>3, <1>4, <1>7 DEF AddEvent
<1>9. c \in Seq(EventCells) /\ InBuffer(q) = x \o c
      BY <1>1
<1>10. (x \o c) \o y = x \o (c \o y)
      BY <1>5, <1>9
<1>11. c \o y \in Seq(EventCells)
      BY <1>5, <1>9
<1> QED
      BY <1>6, <1>7, <1>8, <1>9, <1>10, <1>11

LEMMA AcceptedEffect ==
  ASSUME NEW q \in Queues, NEW es \in Seq(HostEvents)
  PROVE  LET a == Accepted(q, es)
         IN  a.q \in Queues /\ a.cells \in Seq(EventCells) /\ InBuffer(a.q) = InBuffer(q) \o a.cells
<1> DEFINE after == CHOOSE f : Accepts(f, q, es, Len(es))
<1>1. Accepted(q, es) = after[Len(es)]
      BY DEF Accepted, Accepts, AddEvent
<1>2. Len(es) \in Nat
      OBVIOUS
<1>3. Accepts(after, q, es, Len(es))
      BY <1>2, AcceptsExists, Zenon
<1> HIDE DEF after
<1>4. /\ after[0] = [q |-> q, cells |-> <<>>]
      /\ \A n \in 1 .. Len(es) : after[n] = AddEvent(after[n - 1], es[n])
  <2>1. \A n \in 0 .. Len(es) :
           after[n] = IF n = 0 THEN [q |-> q, cells |-> <<>>] ELSE AddEvent(after[n - 1], es[n])
        BY <1>3 DEF Accepts
  <2> QED
        BY <1>2, <2>1
<1>5. PICK x : x = InBuffer(q)
      OBVIOUS
<1>6. x \in Seq(EventCells)
      BY <1>5, BufferFacts
<1> DEFINE P(a) == a.q \in Queues /\ a.cells \in Seq(EventCells) /\ InBuffer(a.q) = x \o a.cells
           K == {n \in Nat : n <= Len(es) => P(after[n])}
<1>7. 0 \in K
  <2>1. PICK a : a = after[0]
        OBVIOUS
  <2>2. a.q = q /\ a.cells = <<>>
        BY <1>4, <2>1
  <2>3. x \o <<>> = x /\ <<>> \in Seq(EventCells)
        BY <1>6
  <2> QED
        BY <1>5, <2>1, <2>2, <2>3
<1>8. ASSUME NEW n \in Nat, n \in K PROVE n + 1 \in K
  <2> SUFFICES ASSUME n + 1 <= Len(es) PROVE P(after[n + 1])
      OBVIOUS
  <2>1. n + 1 \in 1 .. Len(es) /\ n + 1 - 1 = n /\ n <= Len(es)
        BY <1>2
  <2>2. PICK a, e : a = after[n] /\ e = es[n + 1]
        OBVIOUS
  <2>3. e \in HostEvents /\ P(a)
        BY <1>8, <2>1, <2>2
  <2>4. PICK r : r = AddEvent(a, e)
        OBVIOUS
  <2>5. after[n + 1] = r
        BY <1>4, <2>1, <2>2, <2>4
  <2>6. P(r)
        BY <1>6, <2>3, <2>4, AddEffect
  <2> HIDE DEF P
  <2> QED
        BY <2>5, <2>6
<1> HIDE DEF K
<1>9. Nat \subseteq K
      BY <1>7, <1>8, NatSetInduction
<1>10. P(after[Len(es)])
      BY <1>2, <1>9 DEF K
<1> QED
      BY <1>1, <1>5, <1>10

-----------------------------------------------------------------------------
(* getKVMEvent                                                             *)

OneCell(cell) == IF cell = NIL THEN <<>> ELSE <<cell>>

(* What was stored and what was in the buffer, the cell, what is left.     *)
Takes(outcome) ==
  /\ outcome.queue \in Queues /\ outcome.host \in Seq(HostEvents)
  /\ outcome.cell \in EventCells \cup {NIL}
  /\ \E cs \in Seq(EventCells) :
       /\ outcome.stored = stored \o cs
       /\ InBuffer(queue) \o cs = OneCell(outcome.cell) \o InBuffer(outcome.queue)

LEMMA GetEffect ==
  ASSUME StreamTypes, NEW forever \in BOOLEAN, NEW outcome \in GetKVMEvent(forever)
  PROVE  Takes(outcome)
<1> DEFINE a(n)   == Accepted(queue, SubSeq(host, 1, n))
           any(n) == a(n).q.eventCount > 0
<1>1. PICK n \in 0 .. Len(host) :
        outcome = [cell |-> IF any(n) THEN NextCell(a(n).q) ELSE NIL,
                   queue |-> IF any(n) THEN [a(n).q EXCEPT !.eventCount = @ - 1] ELSE a(n).q,
                   host |-> SubSeq(host, n + 1, Len(host)), stored |-> stored \o a(n).cells]
  <2>1. host \in Seq(HostEvents) /\ Len(host) \in Nat
        BY DEF StreamTypes
  <2> DEFINE I == IF queue.eventCount = 0 THEN GetAndStoreNextKVMEvent(forever) ELSE {0}
  <2>2. I \subseteq 0 .. Len(host)
        BY <2>1 DEF GetAndStoreNextKVMEvent
  <2>3. PICK n \in I :
          outcome = [cell |-> IF any(n) THEN NextCell(a(n).q) ELSE NIL,
                     queue |-> IF any(n) THEN [a(n).q EXCEPT !.eventCount = @ - 1] ELSE a(n).q,
                     host |-> SubSeq(host, n + 1, Len(host)), stored |-> stored \o a(n).cells]
        BY Zenon DEF GetKVMEvent
  <2> QED
        BY <2>2, <2>3, Zenon
<1>2. SubSeq(host, 1, n) \in Seq(HostEvents) /\ SubSeq(host, n + 1, Len(host)) \in Seq(HostEvents)
      BY CutType DEF StreamTypes
<1>3. PICK c, d : c = a(n) /\ d = c.q
      OBVIOUS
<1>4. d \in Queues /\ c.cells \in Seq(EventCells) /\ InBuffer(d) = InBuffer(queue) \o c.cells
      BY <1>2, <1>3, AcceptedEffect DEF StreamTypes
<1>5. outcome.host \in Seq(HostEvents) /\ outcome.stored = stored \o c.cells
      BY <1>1, <1>2, <1>3
<1>6. /\ outcome.cell = IF d.eventCount > 0 THEN NextCell(d) ELSE NIL
      /\ outcome.queue = IF d.eventCount > 0 THEN [d EXCEPT !.eventCount = @ - 1] ELSE d
  <2>1. PICK x, y : x = NextCell(d) /\ y = [d EXCEPT !.eventCount = @ - 1]
        OBVIOUS
  <2>2. outcome = [cell |-> IF d.eventCount > 0 THEN x ELSE NIL,
                   queue |-> IF d.eventCount > 0 THEN y ELSE d,
                   host |-> SubSeq(host, n + 1, Len(host)), stored |-> stored \o a(n).cells]
        BY <1>1, <1>3, <2>1, Zenon
  <2> HIDE DEF a
  <2> QED
        BY <2>1, <2>2
<1> HIDE DEF a, any
<1>7. CASE d.eventCount > 0
  <2>1. PICK r : r = [d EXCEPT !.eventCount = @ - 1]
        OBVIOUS
  <2>2. r \in Queues /\ NextCell(d) \in EventCells /\ InBuffer(d) = <<NextCell(d)>> \o InBuffer(r)
        BY <1>4, <1>7, <2>1, NextEffect
  <2>3. outcome.cell = NextCell(d) /\ outcome.queue = r
        BY <1>6, <1>7, <2>1
  <2>4. NextCell(d) # NIL
        BY <2>2, AssumeFacts DEF Triples, EventCells
  <2> QED
        BY <1>4, <1>5, <2>2, <2>3, <2>4 DEF Takes, OneCell
<1>8. CASE ~(d.eventCount > 0)
  <2>1. outcome.cell = NIL /\ outcome.queue = d
        BY <1>6, <1>8
  <2>2. <<>> \o InBuffer(d) = InBuffer(d)
        BY <1>4, BufferFacts
  <2> QED
        BY <1>4, <1>5, <2>1, <2>2 DEF Takes, OneCell
<1> QED
      BY <1>7, <1>8

-----------------------------------------------------------------------------
(* The types of the stream are invariant                                   *)

LEMMA InitStream == Init => StreamTypes
<1> SUFFICES ASSUME Init PROVE StreamTypes
    OBVIOUS
<1>1. MAXPARMLENGTH \in Nat \ {0}
      BY EventAssumption
<1> DEFINE b == [i \in 0 .. (MAXPARMLENGTH - 1) |-> Zero]
<1>2. queue = [eventBuffer |-> b, eventInP |-> 0, eventCount |-> 0]
      BY DEF Init
<1>3. b \in [0 .. (MAXPARMLENGTH - 1) -> Triples]
      BY DEF Triples, Zero
<1> HIDE DEF b
<1>4. queue \in [eventBuffer : [0 .. (MAXPARMLENGTH - 1) -> Triples],
                 eventInP : 0 .. MAXPARMLENGTH, eventCount : 0 .. MAXPARMLENGTH]
      /\ queue.eventInP = 0 /\ queue.eventCount = 0
      BY <1>1, <1>2, <1>3
<1>5. queue \in Queues
      BY <1>1, <1>4 DEF Queues
<1>6. arrived = 0 /\ host = <<>> /\ stored = <<>>
      BY DEF Init
<1> QED
      BY <1>5, <1>6 DEF StreamTypes

LEMMA GotStream ==
  ASSUME StreamTypes, NEW outcome, Takes(outcome), Got(outcome) PROVE StreamTypes'
<1>1. PICK cs \in Seq(EventCells) : outcome.stored = stored \o cs
      BY DEF Takes
<1>2. cs \in Seq(Triples) /\ stored \in Seq(Triples)
  <2>1. EventCells \subseteq Triples
        BY DEF EventCells, Triples
  <2> QED
        BY <2>1 DEF StreamTypes
<1>3. stored' \in Seq(Triples)
      BY <1>1, <1>2 DEF Got
<1>4. queue' \in Queues /\ host' \in Seq(HostEvents) /\ arrived' = arrived
      BY DEF Got, Takes
<1> QED
      BY <1>3, <1>4 DEF StreamTypes

LEMMA NextStream ==
  ASSUME StreamTypes, [Next]_vars PROVE StreamTypes'
<1>1. ASSUME UNCHANGED <<queue, hostVars, stored>> PROVE StreamTypes'
      BY <1>1 DEF StreamTypes, hostVars
<1>2. CASE Arrive
  <2>1. PICK n \in ArgCounts : host' = Append(host, <<arrived + 1, n>>)
        BY <1>2 DEF Arrive
  <2>2. arrived' = arrived + 1 /\ queue' = queue /\ stored' = stored
        BY <1>2 DEF Arrive
  <2>3. <<arrived + 1, n>> \in HostEvents
        BY DEF StreamTypes, HostEvents
  <2>4. host' \in Seq(HostEvents)
        BY <2>1, <2>3 DEF StreamTypes
  <2> QED
        BY <2>2, <2>4 DEF StreamTypes
<1>3. ASSUME NEW t \in Threads, ReadOneEvent(t) PROVE StreamTypes'
  <2>1. PICK outcome \in GetKVMEvent(FALSE) : Got(outcome)
        BY <1>3, Zenon DEF ReadOneEvent
  <2> QED
        BY <2>1, GetEffect, GotStream
<1>4. CASE HandleEvent
  <2>1. PICK f : f = (~vmDebugReady /\ ~AreActiveThreads(sched))
        OBVIOUS
  <2>2. f \in BOOLEAN
        BY <2>1
  <2>3. PICK outcome \in GetKVMEvent(f) : Got(outcome)
        BY <1>4, <2>1, Zenon DEF HandleEvent
  <2> QED
        BY <2>2, <2>3, GetEffect, GotStream
<1>5. ASSUME NEW t \in Threads, ReturnFromWait(t) \/ Reschedule(t) \/ \E u \in Threads : Start(t, u)
      PROVE  StreamTypes'
      BY <1>1, <1>5 DEF ReturnFromWait, Reschedule, Start
<1>6. CASE NoEventWanted \/ NoCommand \/ Switch \/ Debugging
      BY <1>1, <1>6 DEF NoEventWanted, NoCommand, Switch, Debugging, VirtualMachine_Suspend,
        VirtualMachine_Resume, ThreadReference_Suspend, ThreadReference_Resume,
        SuspendCommand, Command, InProcessDebugCmds
<1>7. CASE UNCHANGED vars
      BY <1>1, <1>7 DEF vars
<1> QED
      BY <1>2, <1>3, <1>4, <1>5, <1>6, <1>7 DEF Next, Executing, Rescheduling

-----------------------------------------------------------------------------
(* The readers                                                             *)

LEMMA ZeroFacts ==
  Zero # NIL /\ Zero \notin EventCells /\ NIL \notin EventCells
  /\ Zero \in Triples /\ EventCells \subseteq Triples
<1>1. Zero \in Triples
      BY DEF Zero, Triples
<1>2. EventCells \subseteq Triples
      BY DEF EventCells, Triples
<1>3. Zero \notin EventCells
      BY DEF Zero, EventCells
<1> QED
      BY <1>1, <1>2, <1>3, AssumeFacts

LEMMA InitReader == Init => ReaderInv
<1> SUFFICES ASSUME Init PROVE ReaderInv
    OBVIOUS
<1>1. /\ read = <<>> /\ stored = <<>> /\ waitingThread = NIL
      /\ result = [t \in Threads |-> NIL] /\ left = [t \in Threads |-> 0]
      BY DEF Init
<1>2. \A t \in Threads : result[t] = NIL /\ left[t] = 0 /\ t # NIL
      BY <1>1, AssumeFacts
<1>3. result \in [Threads -> EventCells \cup {NIL, Zero}] /\ left \in [Threads -> Nat]
      BY <1>1
<1>4. \A t, u \in Threads : Reading(t) /\ Reading(u) => t = u
      BY <1>2 DEF Reading
<1>5. stored = read \o InBuffer(queue)
  <2>1. queue \in Queues /\ queue.eventCount = 0
        BY InitStream DEF StreamTypes, Init
  <2>2. InBuffer(queue) \in Seq(EventCells) /\ Len(InBuffer(queue)) = 0
        BY <2>1, BufferFacts
  <2>3. InBuffer(queue) = <<>>
        BY <2>2
  <2> QED
        BY <1>1, <2>3
<1>6. read \in Seq(Triples)
      BY <1>1
<1> QED
      BY <1>1, <1>2, <1>3, <1>4, <1>5, <1>6, ZeroFacts DEF ReaderInv

(* A step that neither reads nor stores.                                   *)
LEMMA ReaderSame ==
  ASSUME ReaderInv, UNCHANGED <<queue, waitingThread, result, left, read, stored>>
  PROVE  ReaderInv'
<1>1. InBuffer(queue)' = InBuffer(queue)
      BY DEF InBuffer
<1>2. \A t \in Threads : Reading(t)' = Reading(t)
      BY DEF Reading
<1> QED
      BY <1>1, <1>2, Zenon DEF ReaderInv

(* With no cell on a stack, a cell comes out of the buffer behind those    *)
(* that were read.                                                         *)
LEMMA TakeOrder ==
  ASSUME StreamTypes, ReaderInv, NEW outcome, Takes(outcome), Got(outcome),
         \A t \in Threads : result[t] \notin EventCells
  PROVE  stored' = read \o OneCell(outcome.cell) \o InBuffer(queue')
<1>1. PICK cs \in Seq(EventCells) :
        /\ outcome.stored = stored \o cs
        /\ InBuffer(queue) \o cs = OneCell(outcome.cell) \o InBuffer(outcome.queue)
      BY DEF Takes
<1>2. PICK x, y, z, r : /\ x = InBuffer(queue) /\ y = OneCell(outcome.cell)
                        /\ z = InBuffer(outcome.queue) /\ r = read
      OBVIOUS
<1>3. x \in Seq(EventCells) /\ z \in Seq(EventCells)
      BY <1>2, BufferFacts DEF Takes, StreamTypes
<1>4. y \in Seq(EventCells)
  <2>1. outcome.cell \in EventCells \cup {NIL}
        BY DEF Takes
  <2> QED
        BY <1>2, <2>1 DEF OneCell
<1>5. r \in Seq(Triples)
      BY <1>2 DEF ReaderInv
<1>6. x \in Seq(Triples) /\ y \in Seq(Triples) /\ z \in Seq(Triples) /\ cs \in Seq(Triples)
      BY <1>3, <1>4, ZeroFacts
<1>7. stored = r \o x
      BY <1>2 DEF ReaderInv
<1>8. stored' = (r \o x) \o cs /\ x \o cs = y \o z
      BY <1>1, <1>2, <1>7 DEF Got
<1>9. (r \o x) \o cs = r \o (x \o cs)
      BY <1>5, <1>6
<1>10. r \o (y \o z) = (r \o y) \o z
      BY <1>5, <1>6, SMTT(60)
<1>11. outcome.queue = queue'
      BY DEF Got
<1> QED
      BY <1>2, <1>8, <1>9, <1>10, <1>11

(* Nobody reads: the current thread may begin.                             *)
LEMMA NobodyReads ==
  ASSUME SchedInv, ReaderInv, \A u \in Threads : result[u] = NIL
  PROVE  waitingThread = NIL /\ \A u \in Threads : result[u] \notin EventCells
BY ZeroFacts DEF SchedInv, ReaderInv

LEMMA ReaderReads ==
  ASSUME SchedInv, StreamTypes, ReaderInv, Exclusive, NEW t \in Threads, ReadOneEvent(t)
  PROVE  ReaderInv'
<1>1. PICK outcome \in GetKVMEvent(FALSE) :
        Got(outcome) /\ IF outcome.cell # NIL THEN ReadsCell(t, outcome.cell) ELSE WaitsForEvent(t)
      BY Zenon DEF ReadOneEvent
<1>2. result[t] = NIL /\ \A u \in Threads \ {t} : ~Reading(u)
      BY DEF ReadOneEvent
<1>3. \A u \in Threads : result[u] = NIL
      BY <1>2 DEF Reading
<1>4. waitingThread = NIL /\ \A u \in Threads : result[u] \notin EventCells
      BY <1>3, NobodyReads
<1>5. Takes(outcome)
      BY GetEffect
<1>6. PICK cell : cell = outcome.cell
      OBVIOUS
<1>7. stored' = read \o OneCell(cell) \o InBuffer(queue')
      BY <1>1, <1>4, <1>5, <1>6, TakeOrder
<1>8. /\ read \in Seq(Triples) /\ left \in [Threads -> Nat]
      /\ result \in [Threads -> EventCells \cup {NIL, Zero}]
      BY DEF ReaderInv
<1>9. InBuffer(queue)' = InBuffer(queue')
      BY DEF InBuffer
<1>10. InBuffer(queue') \in Seq(Triples)
  <2>1. queue' \in Queues
        BY <1>1, <1>5 DEF Takes, Got
  <2>2. InBuffer(queue') \in Seq(EventCells)
        BY <2>1, BufferFacts
  <2> QED
        BY <2>2, ZeroFacts
<1>11. \A u \in Threads : u # NIL
      BY AssumeFacts
<1>12. CASE cell # NIL
  <2>1. cell \in EventCells
        BY <1>5, <1>6, <1>12 DEF Takes
  <2>2. /\ read' = Append(read, cell)
        /\ left' = [left EXCEPT ![t] = IF @ = 0 THEN cell[3] ELSE @ - 1]
        /\ result' = [result EXCEPT ![t] = NIL] /\ waitingThread' = waitingThread
        BY <1>1, <1>6, <1>12, Zenon DEF ReadsCell, Returns
  <2>3. cell[3] \in Nat
        BY <2>1 DEF EventCells
  <2>4. left' \in [Threads -> Nat] /\ \A u \in Threads \ {t} : left'[u] = left[u]
        BY <1>8, <2>2, <2>3
  <2>5. /\ result' \in [Threads -> EventCells \cup {NIL, Zero}]
        /\ \A u \in Threads : result'[u] = NIL
        BY <1>3, <1>8, <2>2
  <2>6. read' \in Seq(Triples)
        BY <1>8, <2>1, <2>2, ZeroFacts
  <2>7. read' = read \o OneCell(cell)
        BY <1>8, <1>12, <2>2 DEF OneCell
  <2>8. \A u, w \in Threads : Reading(u)' /\ Reading(w)' => u = w
    <3>1. \A u \in Threads \ {t} : ~Reading(u)'
          BY <1>2, <2>4, <2>5 DEF Reading
    <3> QED
          BY <3>1
  <2>9. stored' = read' \o InBuffer(queue)'
        BY <1>7, <1>9, <2>7
  <2> QED
        BY <1>4, <1>11, <2>2, <2>4, <2>5, <2>6, <2>8, <2>9, ZeroFacts DEF ReaderInv
<1>13. CASE cell = NIL
  <2>1. WaitsForEvent(t)
        BY <1>1, <1>6, <1>13
  <2>2. /\ waitingThread' = t /\ result' = [result EXCEPT ![t] = Zero]
        /\ read' = read /\ left' = left
        BY <2>1 DEF WaitsForEvent
  <2>3. /\ result' \in [Threads -> EventCells \cup {NIL, Zero}] /\ result'[t] = Zero
        /\ \A u \in Threads \ {t} : result'[u] = NIL
        BY <1>3, <1>8, <2>2
  <2>4. \A u, w \in Threads : Reading(u)' /\ Reading(w)' => u = w
    <3>1. \A u \in Threads \ {t} : ~Reading(u)'
          BY <1>2, <2>2, <2>3 DEF Reading
    <3> QED
          BY <3>1
  <2>5. read \o OneCell(cell) = read
        BY <1>8, <1>13 DEF OneCell
  <2>6. stored' = read' \o InBuffer(queue)'
        BY <1>7, <1>9, <2>2, <2>5
  <2>7. \A u \in Threads : result'[u] \notin EventCells /\ (result'[u] = Zero <=> waitingThread' = u)
        BY <2>2, <2>3, ZeroFacts
  <2>8. read' \in Seq(Triples) /\ left' \in [Threads -> Nat]
        BY <1>8, <2>2
  <2> QED
        BY <2>3, <2>4, <2>6, <2>7, <2>8 DEF ReaderInv
<1> QED
      BY <1>12, <1>13

LEMMA ReaderReturns ==
  ASSUME SchedInv, StreamTypes, ReaderInv, NEW t \in Threads, ReturnFromWait(t)
  PROVE  ReaderInv'
<1>1. /\ sched.current = t /\ result[t] # NIL /\ read' = Append(read, result[t])
      /\ left' = [left EXCEPT ![t] = IF @ = 0 THEN result[t][3] ELSE @ - 1]
      /\ result' = [result EXCEPT ![t] = NIL]
      /\ waitingThread' = waitingThread /\ queue' = queue /\ stored' = stored
      BY Zenon DEF ReturnFromWait, Executes, Returns
<1>2. /\ read \in Seq(Triples) /\ left \in [Threads -> Nat]
      /\ result \in [Threads -> EventCells \cup {NIL, Zero}]
      BY DEF ReaderInv
<1>3. t # NIL
      BY AssumeFacts
<1>4. result[t] # Zero
      BY <1>1, <1>3 DEF SchedInv, ReaderInv
<1>5. result[t] \in EventCells
      BY <1>1, <1>2, <1>4
<1>6. \A u \in Threads \ {t} : ~Reading(u) /\ result[u] = NIL
      BY <1>1 DEF ReaderInv, Reading
<1>7. PICK c : c = result[t]
      OBVIOUS
<1>8. stored = read \o <<c>> \o InBuffer(queue)
      BY <1>5, <1>7 DEF ReaderInv
<1>9. read' = read \o <<c>> /\ read' \in Seq(Triples)
  <2>1. read' = Append(read, c) /\ c \in Triples
        BY <1>1, <1>5, <1>7, ZeroFacts
  <2>2. Append(read, c) = read \o <<c>> /\ Append(read, c) \in Seq(Triples)
        BY <1>2, <2>1
  <2> QED
        BY <2>1, <2>2, Zenon
<1>10. InBuffer(queue)' = InBuffer(queue)
      BY <1>1 DEF InBuffer
<1>11. stored' = read' \o InBuffer(queue)'
      BY <1>1, <1>8, <1>9, <1>10
<1>12. c[3] \in Nat
      BY <1>5, <1>7 DEF EventCells
<1>13. left' \in [Threads -> Nat] /\ \A u \in Threads \ {t} : left'[u] = left[u]
      BY <1>1, <1>2, <1>7, <1>12
<1>14. /\ result' \in [Threads -> EventCells \cup {NIL, Zero}]
       /\ \A u \in Threads : result'[u] = NIL
      BY <1>1, <1>2, <1>6
<1>15. \A u, w \in Threads : Reading(u)' /\ Reading(w)' => u = w
  <2>1. \A u \in Threads \ {t} : ~Reading(u)'
        BY <1>6, <1>13, <1>14 DEF Reading
  <2> QED
        BY <2>1
<1>16. \A u \in Threads : waitingThread # u
  <2>1. waitingThread # t
        BY <1>4 DEF ReaderInv
  <2>2. \A u \in Threads \ {t} : waitingThread # u
        BY <1>6, ZeroFacts DEF ReaderInv
  <2> QED
        BY <2>1, <2>2
<1> QED
      BY <1>1, <1>9, <1>11, <1>13, <1>14, <1>15, <1>16, ZeroFacts DEF ReaderInv

LEMMA ReaderHandled ==
  ASSUME SchedInv, StreamTypes, ReaderInv, HandleEvent
  PROVE  ReaderInv'
<1>1. PICK f : f = (~vmDebugReady /\ ~AreActiveThreads(sched))
      OBVIOUS
<1>2. PICK outcome \in GetKVMEvent(f) :
        Got(outcome) /\ IF outcome.cell # NIL THEN HandOver(outcome.cell)
                        ELSE UNCHANGED <<result, sched, waitingThread>>
      BY <1>1, Zenon DEF HandleEvent
<1>3. waitingThread # NIL /\ read' = read /\ left' = left
      BY DEF HandleEvent
<1>4. PICK w : w = waitingThread
      OBVIOUS
<1>5. w \in Threads /\ result[w] = Zero
      BY <1>3, <1>4 DEF SchedInv, ReaderInv
<1>6. Reading(w)
      BY <1>5, ZeroFacts DEF Reading
<1>7. \A u \in Threads \ {w} : ~Reading(u) /\ result[u] = NIL
      BY <1>5, <1>6 DEF ReaderInv, Reading
<1>8. \A u \in Threads : result[u] \notin EventCells
      BY <1>5, <1>7, ZeroFacts
<1>9. Takes(outcome)
  <2>1. f \in BOOLEAN
        BY <1>1
  <2> QED
        BY <2>1, GetEffect
<1>10. PICK cell : cell = outcome.cell
      OBVIOUS
<1>11. stored' = read \o OneCell(cell) \o InBuffer(queue')
      BY <1>2, <1>8, <1>9, <1>10, TakeOrder
<1>12. /\ read \in Seq(Triples) /\ left \in [Threads -> Nat]
       /\ result \in [Threads -> EventCells \cup {NIL, Zero}]
      BY DEF ReaderInv
<1>13. InBuffer(queue)' = InBuffer(queue')
      BY DEF InBuffer
<1>14. read' \in Seq(Triples) /\ left' \in [Threads -> Nat]
      BY <1>3, <1>12
<1>15. CASE cell # NIL
  <2>1. cell \in EventCells
        BY <1>9, <1>10, <1>15 DEF Takes
  <2>2. result' = [result EXCEPT ![w] = cell] /\ waitingThread' = NIL
        BY <1>2, <1>4, <1>10, <1>15 DEF HandOver
  <2>3. /\ result' \in [Threads -> EventCells \cup {NIL, Zero}] /\ result'[w] = cell
        /\ \A u \in Threads \ {w} : result'[u] = NIL
        BY <1>5, <1>7, <1>12, <2>1, <2>2
  <2>4. \A u, x \in Threads : Reading(u)' /\ Reading(x)' => u = x
    <3>1. \A u \in Threads \ {w} : ~Reading(u)'
          BY <1>3, <1>7, <2>3 DEF Reading
    <3> QED
          BY <3>1
  <2>5. stored' = read' \o <<cell>> \o InBuffer(queue)'
        BY <1>3, <1>11, <1>13, <1>15 DEF OneCell
  <2>6. \A u \in Threads : u # NIL
        BY AssumeFacts
  <2>7. \A u \in Threads : result'[u] # Zero /\ waitingThread' # u
        BY <2>1, <2>2, <2>3, <2>6, ZeroFacts
  <2>8. \A u \in Threads : result'[u] \in EventCells => u = w
        BY <2>3, ZeroFacts
  <2>9. \A u \in Threads :
           result'[u] \in EventCells => stored' = read' \o <<result'[u]>> \o InBuffer(queue)'
        BY <2>3, <2>5, <2>8
  <2>10. ~(\A u \in Threads : result'[u] \notin EventCells)
        BY <1>5, <2>1, <2>3
  <2> QED
        BY <1>14, <2>3, <2>4, <2>7, <2>9, <2>10 DEF ReaderInv
<1>16. CASE cell = NIL
  <2>1. result' = result /\ waitingThread' = waitingThread
        BY <1>2, <1>10, <1>16
  <2>2. read \o OneCell(cell) = read
        BY <1>12, <1>16 DEF OneCell
  <2>3. stored' = read' \o InBuffer(queue)'
        BY <1>3, <1>11, <1>13, <2>2
  <2>4. \A u, x \in Threads : Reading(u)' /\ Reading(x)' => u = x
    <3>1. \A u \in Threads \ {w} : ~Reading(u)'
          BY <1>3, <1>7, <2>1 DEF Reading
    <3> QED
          BY <3>1
  <2>5. \A u \in Threads : result'[u] = Zero <=> waitingThread' = u
        BY <2>1 DEF ReaderInv
  <2> QED
        BY <1>8, <1>12, <1>14, <2>1, <2>3, <2>4, <2>5 DEF ReaderInv
<1> QED
      BY <1>15, <1>16

LEMMA NextReader ==
  ASSUME SchedInv, StreamTypes, ReaderInv, Exclusive, [Next]_vars PROVE ReaderInv'
<1>1. CASE Arrive
      BY <1>1, ReaderSame DEF Arrive, programVars
<1>2. ASSUME NEW t \in Threads, Executing(t) PROVE ReaderInv'
  <2>1. CASE ReadOneEvent(t)
        BY <2>1, ReaderReads
  <2>2. CASE ReturnFromWait(t)
        BY <2>2, ReaderReturns
  <2>3. CASE Reschedule(t) \/ \E u \in Threads : Start(t, u)
        BY <2>3, ReaderSame DEF Reschedule, Start, programVars
  <2> QED
        BY <1>2, <2>1, <2>2, <2>3 DEF Executing
<1>3. CASE NoEventWanted \/ NoCommand \/ Switch \/ Debugging
      BY <1>3, ReaderSame DEF NoEventWanted, NoCommand, Switch, Debugging, VirtualMachine_Suspend,
        VirtualMachine_Resume, ThreadReference_Suspend, ThreadReference_Resume,
        SuspendCommand, Command, InProcessDebugCmds, programVars
<1>4. CASE UNCHANGED vars
      BY <1>4, ReaderSame DEF vars, programVars
<1> QED
      BY <1>1, <1>2, <1>3, <1>4, ReaderHandled DEF Next, Rescheduling

-----------------------------------------------------------------------------
(* The theorems                                                            *)

LEMMA SchedImplies ==
  ASSUME SchedInv, StreamTypes PROVE SchedulingExact
<1>1. /\ Good(sched) /\ (sched.current # NIL => ~Suspended(sched, sched.current))
      /\ vm \in {"run", "events", "idle", "debug", "switch"}
      /\ waitingThread \in Threads \cup {NIL}
      BY DEF SchedInv
<1>2. TypeOK
  <2>1. ASSUME NEW t \in Threads
        PROVE  /\ sched.state[t] \ {"DBG_SUSPENDED"} \in
                    {{"JUST_BORN"}, {"ACTIVE"}, {"SUSPENDED"}, {"ACTIVE", "SUSPENDED"}}
               /\ ByDebugger(sched, t) <=> sched.debugSuspendCount[t] > 0
    <3>1. sched.state[t] \in States
          BY <1>1, ScheduleFacts
    <3>2. sched.state[t] \ {"DBG_SUSPENDED"} \in {{"JUST_BORN"}, {"ACTIVE"}, {"ACTIVE", "SUSPENDED"}}
          BY <3>1, FlagFacts
    <3>3. ByDebugger(sched, t) <=> sched.debugSuspendCount[t] > 0
          BY <1>1 DEF Good, Placed
    <3> QED
          BY <3>2, <3>3
  <2>2. queue.eventInP \in 0..MAXPARMLENGTH /\ queue.eventCount \in 0..queue.eventInP
        BY EventAssumption DEF StreamTypes, Queues
  <2> QED
        BY <1>1, <2>1, <2>2 DEF TypeOK
<1>3. RunQueueExact
  <2>1. ASSUME NEW t \in Threads
        PROVE  sched.state[t] = {"ACTIVE"} <=> Contains(sched.run, t) \/ t = sched.current
    <3>1. t # NIL
          BY AssumeFacts
    <3> QED
          BY <1>1, <3>1 DEF Good, Placed
  <2> QED
        BY <1>1, <2>1 DEF RunQueueExact, Good
<1>4. NoFatalError
      BY <1>1, ScheduleFacts DEF NoFatalError
<1>5. RegistersStored
      BY <1>1 DEF RegistersStored, Good, Placed
<1> QED
      BY <1>2, <1>3, <1>4, <1>5 DEF SchedulingExact

LEMMA OneElement ==
  /\ \A x : SetToSeq({x}) = <<x>> /\ Cardinality({x}) = 1
  /\ SetToSeq({}) = <<>> /\ Cardinality({}) = 0
<1>1. \A x : Cardinality({x}) = 1
      BY FS_Singleton
<1>2. Cardinality({}) = 0
      BY FS_EmptySet
<1>3. ASSUME NEW x PROVE SetToSeq({x}) = <<x>>
  <2> DEFINE P(f) == f \in [1 .. Cardinality({x}) -> {x}] /\ IsInjective(f)
  <2>1. SetToSeq({x}) = CHOOSE f \in [1 .. Cardinality({x}) -> {x}] : IsInjective(f)
        BY Zenon DEF SetToSeq
  <2>2. P(<<x>>)
        BY <1>1 DEF IsInjective
  <2>3. ASSUME NEW f, P(f) PROVE f = <<x>>
    <3>1. f \in [1 .. 1 -> {x}]
          BY <1>1, <2>3
    <3>2. f \in Seq({x}) /\ Len(f) = 1 /\ f[1] = x
          BY <3>1
    <3>3. <<x>> \in Seq({x}) /\ Len(<<x>>) = 1 /\ <<x>>[1] = x
          OBVIOUS
    <3> QED
          BY <3>2, <3>3, SameSequence
  <2>4. P(SetToSeq({x}))
        BY <2>1, <2>2, Zenon
  <2> QED
        BY <2>3, <2>4, Zenon
<1>4. SetToSeq({}) = <<>>
  <2> DEFINE P(f) == f \in [1 .. Cardinality({}) -> {}] /\ IsInjective(f)
  <2>1. SetToSeq({}) = CHOOSE f \in [1 .. Cardinality({}) -> {}] : IsInjective(f)
        BY Zenon DEF SetToSeq
  <2>2. P(<<>>)
        BY <1>2 DEF IsInjective
  <2>3. ASSUME NEW f, P(f) PROVE f = <<>>
        BY <1>2, <2>3
  <2>4. P(SetToSeq({}))
        BY <2>1, <2>2, Zenon
  <2> QED
        BY <2>3, <2>4, Zenon
<1> QED
      BY <1>1, <1>2, <1>3, <1>4

LEMMA ReaderImplies ==
  ASSUME SchedInv, StreamTypes, ReaderInv PROVE EventsInOrder
<1>1. NoReaderForgotten
  <2>1. \A t \in Threads : t # NIL
        BY AssumeFacts
  <2> QED
        BY <2>1 DEF NoReaderForgotten, SchedInv, ReaderInv
<1>2. StreamInOrder
  <2> DEFINE onStack == {t \in Threads : result[t] \notin {NIL, Zero}}
  <2>1. \A t \in Threads : t \in onStack <=> result[t] \in EventCells
        BY ZeroFacts DEF ReaderInv
  <2>2. SUFFICES /\ Cardinality(onStack) <= 1
                 /\ stored = read \o SetToSeq({result[t] : t \in onStack}) \o InBuffer(queue)
        BY Zenon DEF StreamInOrder, InBuffer
  <2>3. CASE onStack = {}
    <3>1. {result[t] : t \in onStack} = {}
          BY <2>3
    <3>2. stored = read \o InBuffer(queue)
          BY <2>1, <2>3 DEF ReaderInv
    <3>3. read \o <<>> = read
          BY DEF ReaderInv
    <3>4. PICK y : y = {result[t] : t \in onStack}
          OBVIOUS
    <3>5. SetToSeq(y) = <<>>
          BY <3>1, <3>4, OneElement
    <3>6. Cardinality(onStack) <= 1
      <4>1. Cardinality(onStack) = 0
            BY <2>3, OneElement, Zenon
      <4> HIDE DEF onStack
      <4> QED
            BY <4>1
    <3>7. stored = read \o SetToSeq(y) \o InBuffer(queue)
          BY <3>2, <3>3, <3>5
    <3> HIDE DEF onStack
    <3> QED
          BY <3>4, <3>6, <3>7, Zenon
  <2>4. ASSUME NEW t \in onStack PROVE onStack = {t}
    <3>1. Reading(t) /\ t \in Threads
          BY DEF Reading
    <3>2. \A u \in onStack : Reading(u) /\ u \in Threads
          BY DEF Reading
    <3> QED
          BY <3>1, <3>2 DEF ReaderInv
  <2>5. ASSUME NEW t \in onStack
        PROVE  /\ Cardinality(onStack) <= 1
               /\ stored = read \o SetToSeq({result[u] : u \in onStack}) \o InBuffer(queue)
    <3>1. onStack = {t} /\ t \in Threads
          BY <2>4
    <3>2. {result[u] : u \in onStack} = {result[t]}
          BY <3>1
    <3>3. stored = read \o <<result[t]>> \o InBuffer(queue)
          BY <2>1, <3>1 DEF ReaderInv
    <3> HIDE DEF onStack
    <3>4. PICK y : y = {result[u] : u \in onStack}
          OBVIOUS
    <3>5. y = {result[t]}
          BY <3>2, <3>4, Zenon
    <3>6. SetToSeq(y) = <<result[t]>>
          BY <3>5, OneElement
    <3>7. Cardinality(onStack) <= 1
      <4>1. Cardinality(onStack) = 1
            BY <3>1, OneElement, Zenon
      <4> QED
            BY <4>1
    <3>8. stored = read \o SetToSeq(y) \o InBuffer(queue)
          BY <3>3, <3>6
    <3> QED
          BY <3>4, <3>7, <3>8, Zenon
  <2> QED
        BY <2>3, <2>5
<1> QED
      BY <1>1, <1>2 DEF EventsInOrder

(* The run queue and CurrentThread hold exactly the threads that wait      *)
(* neither for an event nor for the debugger, every other thread has its   *)
(* registers stored, and no fatalError() of resumeThread or SwitchThread   *)
(* is reached (thread.c, events.c, debugger.c): for any number of threads  *)
(* and events, if the debugger resumes only what it has suspended.         *)
THEOREM SchedulingStaysExact == CarefulDebugger => (Spec => []SchedulingExact)
<1> SUFFICES ASSUME CarefulDebugger PROVE Spec => []SchedulingExact
    OBVIOUS
<1>1. Init => SchedInv /\ StreamTypes
      BY InitSched, InitStream
<1>2. SchedInv /\ StreamTypes /\ [Next]_vars => (SchedInv /\ StreamTypes)'
      BY NextSched, NextStream
<1>3. SchedInv /\ StreamTypes => SchedulingExact
      BY SchedImplies
<1> QED
      BY <1>1, <1>2, <1>3, PTL DEF Spec

(* Who waits in readInt() gets the next cell, and the programs read the    *)
(* cells of the events that StoreKVMEvent took in their order and once     *)
(* each (events.c): for any number of threads and events and any buffer,   *)
(* if besides the programs read an event one thread at a time.             *)
THEOREM EventsStayInOrder == CarefulDebugger /\ Exclusive => (Spec => []EventsInOrder)
<1> SUFFICES ASSUME CarefulDebugger, Exclusive PROVE Spec => []EventsInOrder
    OBVIOUS
<1> DEFINE I == SchedInv /\ StreamTypes /\ ReaderInv
<1>1. Init => I
      BY InitSched, InitStream, InitReader
<1>2. I /\ [Next]_vars => I'
      BY NextSched, NextStream, NextReader
<1>3. I => EventsInOrder
      BY ReaderImplies
<1> QED
      BY <1>1, <1>2, <1>3, PTL DEF Spec
=============================================================================
