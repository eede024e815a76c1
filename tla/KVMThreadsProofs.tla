-------------------------- MODULE KVMThreadsProofs --------------------------
(***************************************************************************)
(* KVMThreads for every number of threads, objects and monitors: first     *)
(* types and extended locks (LockInv), then the scheduler (SchedInv), and  *)
(* last that its locks implement JavaMonitor.                              *)
(***************************************************************************)
EXTENDS KVMThreads, ThreadQueueProofs, TLAPS, FiniteSetTheorems

-----------------------------------------------------------------------------
(***************************************************************************)
(* For every number of threads, objects and monitors: the variables of     *)
(* KVMThreads keep their types, a thread in wait() names a monitor, and    *)
(* the extended lock of a thread is taken exactly while one object uses it.*)
(* The three are proved together (LockInv): depth and hash code of an      *)
(* extended lock are those of one object only because no other object      *)
(* uses the lock, and a depth stays a natural number only because a lock   *)
(* that is given back was taken.                                           *)
(***************************************************************************)

(* The two halves of LockInv that speak of threads, for a thread table thr *)
(* that an action computes on the way.                                     *)
GoodThreads(thr) ==
  /\ thr \in [Threads -> ThreadStruct]
  /\ \A t \in Threads : "CONVAR_WAIT" \in thr[t].state => thr[t].monitor \in Monitors

LocksMatch(word, thr) ==
  /\ \A o, p \in Objects : word[o].tag = "EXTENDED_LOCK" /\ word[p] = word[o] => o = p
  /\ \A t \in Threads : thr[t].lockDepth # 0 <=> \E o \in Objects : word[o] = Extended(t)

(* The same extended locks are taken.                                      *)
SameLocks(thr, thr2) ==
  \A t \in Threads : thr2[t].lockDepth # 0 <=> thr[t].lockDepth # 0

OthersSameLocks(thr, thr2, t) ==
  \A u \in Threads : u # t => thr2[u].lockDepth = thr[u].lockDepth

LEMMA LockInvParts ==
  LockInv <=> TypeOK /\ GoodThreads(thread) /\ LocksMatch(mhc, thread)
BY DEF LockInv, TypeOK, GoodThreads, LocksMatch, ExtendedLockUnique, WaiterHasMonitor,
       IsExtendedLockFree

LEMMA LockInvPartsNext ==
  LockInv' <=> TypeOK' /\ GoodThreads(thread') /\ LocksMatch(mhc', thread')
BY DEF LockInv, TypeOK, GoodThreads, LocksMatch, ExtendedLockUnique, WaiterHasMonitor,
       IsExtendedLockFree

-----------------------------------------------------------------------------
(* The word of an object                                                   *)

LEMMA WordCases ==
  ASSUME NEW w \in MHC
  PROVE  \/ w.tag = "UNLOCKED" /\ w.hashCode \in Nat /\ w = Unlocked(w.hashCode)
         \/ w.tag = "SIMPLE_LOCK" /\ w.thread \in Threads /\ w = Simple(w.thread)
         \/ w.tag = "EXTENDED_LOCK" /\ w.thread \in Threads /\ w = Extended(w.thread)
         \/ w.tag = "MONITOR" /\ w.monitor \in Monitors /\ w = Real(w.monitor)
BY DEF MHC, Unlocked, Simple, Extended, Real

LEMMA WordTypes ==
  /\ \A h \in Nat : Unlocked(h) \in MHC
  /\ \A t \in Threads : Simple(t) \in MHC /\ Extended(t) \in MHC
  /\ \A m \in Monitors : Real(m) \in MHC
BY DEF MHC, Unlocked, Simple, Extended, Real

LEMMA WordsDiffer ==
  /\ \A h, t : Unlocked(h) # Extended(t) /\ Unlocked(h) # Simple(t)
  /\ \A t, u : Simple(t) # Extended(u)
  /\ \A m, t : Real(m) # Extended(t)
  /\ \A t, u : Extended(t) = Extended(u) => t = u
  /\ \A h : Unlocked(h).tag = "UNLOCKED"
  /\ \A t : Simple(t).tag = "SIMPLE_LOCK"
  /\ \A t : Extended(t).tag = "EXTENDED_LOCK"
  /\ \A m : Real(m).tag = "MONITOR"
BY DEF Unlocked, Simple, Extended, Real

LEMMA WordFields ==
  ASSUME TypeOK, NEW o \in Objects
  PROVE  Owner(o) \in Threads \cup {NIL} /\ Depth(o) \in Int /\ StoredHash(o) \in Nat
<1>1. mhc[o] \in MHC
      BY DEF TypeOK
<1>2. CASE mhc[o].tag = "UNLOCKED" /\ mhc[o].hashCode \in Nat
      BY <1>2 DEF Owner, Depth, StoredHash
<1>3. CASE mhc[o].tag = "SIMPLE_LOCK" /\ mhc[o].thread \in Threads
      BY <1>3 DEF Owner, Depth, StoredHash
<1>4. CASE mhc[o].tag = "EXTENDED_LOCK" /\ mhc[o].thread \in Threads
  <2>1. thread[mhc[o].thread] \in ThreadStruct
        BY <1>4 DEF TypeOK
  <2> QED
        BY <1>4, <2>1 DEF Owner, Depth, StoredHash, ThreadStruct
<1>5. CASE mhc[o].tag = "MONITOR" /\ mhc[o].monitor \in Monitors
  <2>1. monitor[mhc[o].monitor] \in MonitorStruct
        BY <1>5 DEF TypeOK
  <2> QED
        BY <1>5, <2>1 DEF Owner, Depth, StoredHash, MonitorStruct
<1> QED
      BY <1>1, <1>2, <1>3, <1>4, <1>5, WordCases

LEMMA InflatedType ==
  ASSUME TypeOK, NEW o \in Objects, NEW m \in Monitors
  PROVE  Inflated(o, m) \in MonitorStruct
<1>1. monitor[m] \in MonitorStruct /\ EmptyMonitor \in MonitorStruct
      BY DEF TypeOK, EmptyMonitor, MonitorStruct
<1>2. Owner(o) \in Threads \cup {NIL} /\ Depth(o) \in Int /\ StoredHash(o) \in Nat
      BY WordFields
<1> QED
      BY <1>1, <1>2 DEF Inflated, MonitorStruct

-----------------------------------------------------------------------------
(* Locks                                                                   *)

LEMMA SameLocksMatch ==
  ASSUME NEW word, NEW thr, NEW thr2, LocksMatch(word, thr), SameLocks(thr, thr2)
  PROVE  LocksMatch(word, thr2)
BY DEF LocksMatch, SameLocks

(* An object whose word neither was nor becomes an extended lock.          *)
LEMMA WordChange ==
  ASSUME NEW word \in [Objects -> MHC], NEW thr, LocksMatch(word, thr),
         NEW o \in Objects, NEW w,
         word[o].tag # "EXTENDED_LOCK", w.tag # "EXTENDED_LOCK"
  PROVE  LocksMatch([word EXCEPT ![o] = w], thr)
<1> DEFINE word2 == [word EXCEPT ![o] = w]
<1>1. \A p \in Objects : word2[p] = IF p = o THEN w ELSE word[p]
      OBVIOUS
<1>2. \A t : word[o] # Extended(t) /\ w # Extended(t)
      BY WordsDiffer
<1> HIDE DEF word2
<1>3. LocksMatch(word2, thr)
      BY <1>1, <1>2 DEF LocksMatch
<1> QED
      BY <1>3 DEF word2

(* Taking the free extended lock of t for o.                               *)
LEMMA LockTaken ==
  ASSUME NEW word \in [Objects -> MHC], NEW thr \in [Threads -> ThreadStruct],
         NEW thr2 \in [Threads -> ThreadStruct], LocksMatch(word, thr),
         NEW o \in Objects, NEW t \in Threads,
         word[o].tag # "EXTENDED_LOCK", thr[t].lockDepth = 0,
         thr2[t].lockDepth # 0,
         OthersSameLocks(thr, thr2, t)
  PROVE  LocksMatch([word EXCEPT ![o] = Extended(t)], thr2)
<1> DEFINE word2 == [word EXCEPT ![o] = Extended(t)]
<1>1. \A p \in Objects : word2[p] = IF p = o THEN Extended(t) ELSE word[p]
      OBVIOUS
<1>2. \A p \in Objects : word[p] # Extended(t)
      BY DEF LocksMatch
<1>3. \A u : word[o] # Extended(u)
      BY WordsDiffer
<1> HIDE DEF word2
<1>4. ASSUME NEW p \in Objects, NEW q \in Objects,
             word2[p].tag = "EXTENDED_LOCK", word2[q] = word2[p]
      PROVE  p = q
      BY <1>1, <1>2, <1>4 DEF LocksMatch
<1>5. ASSUME NEW u \in Threads
      PROVE  thr2[u].lockDepth # 0 <=> \E p \in Objects : word2[p] = Extended(u)
  <2>1. CASE u = t
        BY <1>1, <2>1
  <2>2. CASE u # t
        BY <1>1, <1>3, <2>2, WordsDiffer DEF LocksMatch, OthersSameLocks
  <2> QED
        BY <2>1, <2>2
<1>6. LocksMatch(word2, thr2)
      BY <1>4, <1>5 DEF LocksMatch
<1> QED
      BY <1>6 DEF word2

(* Giving the extended lock of t, that o used, back.                       *)
LEMMA LockFreed ==
  ASSUME NEW word \in [Objects -> MHC], NEW thr \in [Threads -> ThreadStruct],
         NEW thr2 \in [Threads -> ThreadStruct], LocksMatch(word, thr),
         NEW o \in Objects, NEW t \in Threads, NEW w,
         word[o] = Extended(t), w.tag # "EXTENDED_LOCK",
         thr2[t].lockDepth = 0,
         OthersSameLocks(thr, thr2, t)
  PROVE  LocksMatch([word EXCEPT ![o] = w], thr2)
<1> DEFINE word2 == [word EXCEPT ![o] = w]
<1>1. \A p \in Objects : word2[p] = IF p = o THEN w ELSE word[p]
      OBVIOUS
<1>2. \A u : w # Extended(u)
      BY WordsDiffer
<1>3. \A p \in Objects : word[p] = Extended(t) => p = o
      BY WordsDiffer DEF LocksMatch
<1> HIDE DEF word2
<1>4. ASSUME NEW p \in Objects, NEW q \in Objects,
             word2[p].tag = "EXTENDED_LOCK", word2[q] = word2[p]
      PROVE  p = q
      BY <1>1, <1>4 DEF LocksMatch
<1>5. ASSUME NEW u \in Threads
      PROVE  thr2[u].lockDepth # 0 <=> \E p \in Objects : word2[p] = Extended(u)
  <2>1. CASE u = t
        BY <1>1, <1>2, <1>3, <2>1
  <2>2. CASE u # t
        BY <1>1, <1>2, <2>2, WordsDiffer DEF LocksMatch, OthersSameLocks
  <2> QED
        BY <2>1, <2>2
<1>6. LocksMatch(word2, thr2)
      BY <1>4, <1>5 DEF LocksMatch
<1> QED
      BY <1>6 DEF word2

-----------------------------------------------------------------------------
(* Scheduling primitives                                                   *)

LEMMA ThreadFields ==
  ASSUME NEW thr, GoodThreads(thr), NEW t \in Threads
  PROVE  /\ thr[t] \in ThreadStruct
         /\ thr[t].state \subseteq ThreadState /\ thr[t].monitor_depth \in Int
         /\ thr[t].lockDepth \in Nat /\ thr[t].lockHash \in Nat /\ thr[t].wakeup \in Nat
BY DEF GoodThreads, ThreadStruct

(* Updates of the structures that keep their types.                        *)
LEMMA OwnerUpdate ==
  ASSUME NEW mon \in MonitorStruct, NEW u \in Threads \cup {NIL}, NEW d \in Int
  PROVE  [mon EXCEPT !.owner = u, !.depth = d] \in MonitorStruct
BY DEF MonitorStruct

LEMMA HandOffUpdate ==
  ASSUME NEW mon \in MonitorStruct, NEW u \in Threads \cup {NIL}, NEW d \in Int,
         NEW q \in Seq(Threads)
  PROVE  [mon EXCEPT !.owner = u, !.depth = d, !.monitor_waitq = q] \in MonitorStruct
BY DEF MonitorStruct

LEMMA EntryUpdate ==
  ASSUME NEW mon \in MonitorStruct, NEW q \in Seq(Threads)
  PROVE  [mon EXCEPT !.monitor_waitq = q] \in MonitorStruct
BY DEF MonitorStruct

LEMMA WaitSetUpdate ==
  ASSUME NEW mon \in MonitorStruct, NEW q \in Seq(Threads)
  PROVE  [mon EXCEPT !.condvar_waitq = q] \in MonitorStruct
BY DEF MonitorStruct

LEMMA CountUpdate ==
  ASSUME NEW mon \in MonitorStruct, NEW d \in Int
  PROVE  [mon EXCEPT !.depth = d] \in MonitorStruct
BY DEF MonitorStruct

LEMMA HashUpdate ==
  ASSUME NEW mon \in MonitorStruct, NEW h \in Nat
  PROVE  [mon EXCEPT !.hashCode = h] \in MonitorStruct
BY DEF MonitorStruct

LEMMA FreedUpdate ==
  ASSUME NEW mon \in MonitorStruct, NEW u \in Threads \cup {NIL}
  PROVE  [mon EXCEPT !.owner = u] \in MonitorStruct
BY DEF MonitorStruct

LEMMA StateUpdate ==
  ASSUME NEW thr \in [Threads -> ThreadStruct], NEW t \in Threads, NEW s \in SUBSET ThreadState
  PROVE  [thr EXCEPT ![t].state = s] \in [Threads -> ThreadStruct]
BY DEF ThreadStruct

LEMMA QueuedUpdate ==
  ASSUME NEW thr \in [Threads -> ThreadStruct], NEW t \in Threads,
         NEW m \in Monitors, NEW s \in SUBSET ThreadState
  PROVE  [thr EXCEPT ![t].state = @ \cup s, ![t].monitor = m] \in [Threads -> ThreadStruct]
BY ZenonT(120) DEF ThreadStruct

LEMMA WokenUpdate ==
  ASSUME NEW thr \in [Threads -> ThreadStruct], NEW t \in Threads,
         NEW m \in Monitors \cup {NIL}, NEW d \in Int
  PROVE  [thr EXCEPT ![t].monitor = m, ![t].monitor_depth = d] \in [Threads -> ThreadStruct]
BY ZenonT(120) DEF ThreadStruct

LEMMA LockFieldUpdate ==
  ASSUME NEW thr \in [Threads -> ThreadStruct], NEW t \in Threads,
         NEW d \in Nat, NEW h \in Nat
  PROVE  [thr EXCEPT ![t].lockDepth = d, ![t].lockHash = h] \in [Threads -> ThreadStruct]
BY ZenonT(120) DEF ThreadStruct

LEMMA NilAndStates ==
  /\ NIL \in Threads \cup {NIL} /\ NIL \in Monitors \cup {NIL} /\ 0 \in Int
  /\ {"ACTIVE"} \in SUBSET ThreadState /\ {"MONITOR_WAIT"} \in SUBSET ThreadState
<1>1. NIL \in Threads \cup {NIL} /\ NIL \in Monitors \cup {NIL} /\ 0 \in Int
      OBVIOUS
<1>2. {"ACTIVE"} \in SUBSET ThreadState
      BY DEF ThreadState
<1>3. {"MONITOR_WAIT"} \in SUBSET ThreadState
      BY DEF ThreadState
<1> QED
      BY <1>1, <1>2, <1>3

(* What the primitives leave behind, whatever they are called with.        *)
SchedTypes ==
  /\ RunnableThreads' \in Seq(Threads) /\ fatal' \in BOOLEAN
  /\ monitor' \in [Monitors -> MonitorStruct]

LEMMA ResumeFacts ==
  ASSUME TypeOK, NEW thr, GoodThreads(thr), NEW t \in Threads, resumeThread(t, thr)
  PROVE  /\ GoodThreads(thread') /\ SameLocks(thr, thread')
         /\ RunnableThreads' \in Seq(Threads) /\ fatal' \in BOOLEAN
<1>1. thread' = [thr EXCEPT ![t].state = {"ACTIVE"}]
      BY DEF resumeThread
<1>2. thr \in [Threads -> ThreadStruct]
      BY DEF GoodThreads
<1>3. thread' \in [Threads -> ThreadStruct]
      BY <1>1, <1>2 DEF ThreadStruct, ThreadState
<1>4. \A u \in Threads : /\ thread'[u].monitor = thr[u].monitor
                         /\ thread'[u].lockDepth = thr[u].lockDepth
                         /\ "CONVAR_WAIT" \in thread'[u].state => "CONVAR_WAIT" \in thr[u].state
      BY <1>1, <1>2 DEF ThreadStruct
<1>5. GoodThreads(thread') /\ SameLocks(thr, thread')
      BY <1>3, <1>4 DEF GoodThreads, SameLocks
<1>6. RunnableThreads' \in Seq(Threads)
      BY AddType DEF resumeThread, TypeOK
<1>7. fatal' \in BOOLEAN
      BY DEF resumeThread
<1> QED
      BY <1>5, <1>6, <1>7

LEMMA RemoveMonitorWaitFacts ==
  ASSUME TypeOK, NEW thr, GoodThreads(thr), NEW m \in Monitors, NEW mon \in MonitorStruct,
         removeMonitorWait(m, mon, thr)
  PROVE  GoodThreads(thread') /\ SameLocks(thr, thread') /\ SchedTypes
<1>1. monitor \in [Monitors -> MonitorStruct] /\ thr \in [Threads -> ThreadStruct]
      BY DEF TypeOK, GoodThreads
<1>2. CASE mon.monitor_waitq = <<>>
  <2>1. monitor' = [monitor EXCEPT ![m] = [mon EXCEPT !.owner = NIL, !.depth = 0]]
        /\ thread' = thr /\ UNCHANGED <<RunnableThreads, fatal>>
        BY <1>2 DEF removeMonitorWait
  <2>2. [mon EXCEPT !.owner = NIL, !.depth = 0] \in MonitorStruct
        BY NilAndStates, OwnerUpdate
  <2>3. monitor' \in [Monitors -> MonitorStruct]
        BY <1>1, <2>1, <2>2
  <2> QED
        BY <2>1, <2>3 DEF SchedTypes, SameLocks, TypeOK
<1>3. CASE mon.monitor_waitq # <<>>
  <2> DEFINE waiter == Head(mon.monitor_waitq)
             thr2 == [thr EXCEPT ![waiter].monitor = NIL, ![waiter].monitor_depth = 0]
             mon2 == [mon EXCEPT !.owner = waiter, !.depth = thr[waiter].monitor_depth,
                                 !.monitor_waitq = removeQueueStart(@)]
  <2>1. monitor' = [monitor EXCEPT ![m] = mon2] /\ resumeThread(waiter, thr2)
        BY <1>3 DEF removeMonitorWait
  <2>2. mon.monitor_waitq \in Seq(Threads)
        BY DEF MonitorStruct
  <2>3. waiter \in Threads /\ removeQueueStart(mon.monitor_waitq) \in Seq(Threads)
        BY <1>3, <2>2, RemoveStartType
  <2>4. thr[waiter].monitor_depth \in Int
        BY <2>3, ThreadFields
  <2>5. mon2 \in MonitorStruct
    <3> HIDE DEF waiter
    <3>1. waiter \in Threads \cup {NIL}
          BY <2>3
    <3> QED
        BY <2>3, <2>4, <3>1, HandOffUpdate, Zenon
  <2>6. thr2 \in [Threads -> ThreadStruct]
    <3> HIDE DEF waiter
    <3> QED
        BY <1>1, <2>3, NilAndStates, WokenUpdate
  <2> HIDE DEF waiter, mon2
  <2>7. thread' = [thr2 EXCEPT ![waiter].state = {"ACTIVE"}]
        BY <2>1 DEF resumeThread
  <2>8. thread' \in [Threads -> ThreadStruct]
    <3> HIDE DEF thr2
    <3> QED
        BY <2>3, <2>6, <2>7, NilAndStates, StateUpdate
  <2>9. ASSUME NEW u \in Threads
        PROVE  /\ thread'[u].lockDepth = thr[u].lockDepth
               /\ u # waiter => thread'[u] = thr[u]
               /\ u = waiter => thread'[u].state = {"ACTIVE"}
        BY <1>1, <2>3, <2>6, <2>7 DEF ThreadStruct
  <2>10. GoodThreads(thread') /\ SameLocks(thr, thread')
        BY <2>8, <2>9 DEF GoodThreads, SameLocks
  <2>11. RunnableThreads' \in Seq(Threads) /\ fatal' \in BOOLEAN
        BY <2>1, <2>3, AddType DEF resumeThread, TypeOK
  <2>12. monitor' \in [Monitors -> MonitorStruct]
        BY <1>1, <2>1, <2>5
  <2> QED
        BY <2>10, <2>11, <2>12 DEF SchedTypes
<1> QED
      BY <1>2, <1>3

(* The thread t as addMonitorWait leaves it when it queues for monitor m.  *)
LEMMA QueuedThread ==
  ASSUME NEW thr, GoodThreads(thr), NEW m \in Monitors, NEW t \in Threads
  PROVE  LET thr2 == [thr EXCEPT ![t].state = @ \cup {"MONITOR_WAIT"}, ![t].monitor = m]
         IN  GoodThreads(thr2) /\ SameLocks(thr, thr2)
<1> DEFINE thr2 == [thr EXCEPT ![t].state = @ \cup {"MONITOR_WAIT"}, ![t].monitor = m]
<1>1. thr \in [Threads -> ThreadStruct]
      BY DEF GoodThreads
<1>2. thr2 \in [Threads -> ThreadStruct]
      BY <1>1, NilAndStates, QueuedUpdate
<1>3. \A u \in Threads : /\ thr2[u].lockDepth = thr[u].lockDepth
                         /\ u # t => thr2[u] = thr[u]
                         /\ u = t => thr2[u].monitor = m
      BY <1>1 DEF ThreadStruct
<1> HIDE DEF thr2
<1>4. GoodThreads(thr2) /\ SameLocks(thr, thr2)
      BY <1>2, <1>3 DEF GoodThreads, SameLocks
<1> QED
      BY <1>4 DEF thr2

LEMMA SameLocksTransitive ==
  ASSUME NEW a, NEW b, NEW c, SameLocks(a, b), SameLocks(b, c)
  PROVE  SameLocks(a, c)
BY DEF SameLocks

LEMMA AddMonitorWaitFacts ==
  ASSUME TypeOK, NEW thr, GoodThreads(thr), NEW m \in Monitors, NEW mon \in MonitorStruct,
         NEW t \in Threads, addMonitorWait(m, mon, t, thr)
  PROVE  GoodThreads(thread') /\ SameLocks(thr, thread') /\ SchedTypes
<1> DEFINE queued  == [mon EXCEPT !.monitor_waitq = addThreadToQueue(@, t)]
           waiting == [thr EXCEPT ![t].state = @ \cup {"MONITOR_WAIT"}, ![t].monitor = m]
<1>1. GoodThreads(waiting) /\ SameLocks(thr, waiting)
      BY QueuedThread
<1>2. queued \in MonitorStruct
  <2>1. mon.monitor_waitq \in Seq(Threads)
        BY DEF MonitorStruct
  <2>2. addThreadToQueue(mon.monitor_waitq, t) \in Seq(Threads)
        BY <2>1, AddType
  <2> QED
        BY <2>2 DEF MonitorStruct
<1>3. \/ removeMonitorWait(m, queued, waiting)
      \/ /\ monitor' = [monitor EXCEPT ![m] = queued]
         /\ thread' = waiting /\ UNCHANGED <<RunnableThreads, fatal>>
      BY Zenon DEF addMonitorWait
<1> HIDE DEF queued, waiting
<1>4. CASE removeMonitorWait(m, queued, waiting)
      BY <1>1, <1>2, <1>4, RemoveMonitorWaitFacts, SameLocksTransitive
<1>5. CASE /\ monitor' = [monitor EXCEPT ![m] = queued]
           /\ thread' = waiting /\ UNCHANGED <<RunnableThreads, fatal>>
  <2>1. monitor' \in [Monitors -> MonitorStruct]
        BY <1>2, <1>5 DEF TypeOK
  <2> QED
        BY <1>1, <1>5, <2>1 DEF SchedTypes, TypeOK
<1> QED
      BY <1>3, <1>4, <1>5

-----------------------------------------------------------------------------
(* Alarms                                                                  *)

LEMMA RegisterAlarmType ==
  ASSUME TypeOK, NEW t \in Threads, NEW delta
  PROVE  registerAlarm(t, delta) \in Seq(Threads)
<1> DEFINE later == {i \in 1..Len(TimerQueue) : thread[TimerQueue[i]].wakeup >= delta}
<1>1. TimerQueue \in Seq(Threads)
      BY DEF TypeOK
<1>2. CASE later = {}
      BY <1>1, <1>2 DEF registerAlarm
<1>3. CASE later # {}
  <2>1. later \subseteq Nat
        BY <1>1
  <2>2. Min(later) \in later
        BY <1>3, <2>1, MinLemma
  <2>3. Min(later) \in 1..Len(TimerQueue)
        BY <2>2
  <2>4. InsertAt(TimerQueue, Min(later), t) \in Seq(Threads)
        BY <1>1, <2>3, InsertType
  <2> QED
        BY <1>1, <1>3, <2>4 DEF registerAlarm
<1> QED
      BY <1>2, <1>3

LEMMA RemoveAlarmsType ==
  ASSUME TypeOK, NEW ts
  PROVE  removePendingAlarms(ts) \in Seq(Threads)
BY RemoveThreadsType DEF removePendingAlarms, TypeOK

LEMMA WithoutAlarmFacts ==
  ASSUME NEW thr, GoodThreads(thr), NEW ts
  PROVE  GoodThreads(WithoutAlarm(thr, ts)) /\ SameLocks(thr, WithoutAlarm(thr, ts))
<1> DEFINE thr2 == WithoutAlarm(thr, ts)
<1>1. \A r \in ThreadStruct : [r EXCEPT !.wakeup = 0, !.wakeupCall = NIL] \in ThreadStruct
      BY DEF ThreadStruct
<1>2. \A t \in Threads : thr[t] \in ThreadStruct
      BY DEF GoodThreads
<1>3. thr2 = [t \in Threads |->
                IF t \in ts THEN [thr[t] EXCEPT !.wakeup = 0, !.wakeupCall = NIL] ELSE thr[t]]
      BY DEF WithoutAlarm
<1> HIDE DEF thr2
<1>4. thr2 \in [Threads -> ThreadStruct]
      BY <1>1, <1>2, <1>3
<1>5. \A t \in Threads : /\ thr2[t].lockDepth = thr[t].lockDepth
                         /\ thr2[t].monitor = thr[t].monitor
                         /\ thr2[t].state = thr[t].state
      BY <1>2, <1>3 DEF ThreadStruct
<1>6. GoodThreads(thr2) /\ SameLocks(thr, thr2)
      BY <1>4, <1>5 DEF GoodThreads, SameLocks
<1> QED
      BY <1>6 DEF thr2

LEMMA WithAlarmFacts ==
  ASSUME NEW thr, GoodThreads(thr), NEW t \in Threads, NEW delta \in Nat,
         NEW call \in {"resumeThread", "monitorWaitAlarm"}
  PROVE  /\ GoodThreads(WithAlarm(thr, t, delta, call))
         /\ SameLocks(thr, WithAlarm(thr, t, delta, call))
<1> DEFINE thr2 == [thr EXCEPT ![t].wakeup = delta, ![t].wakeupCall = call]
<1>1. thr \in [Threads -> ThreadStruct]
      BY DEF GoodThreads
<1>2. thr2 \in [Threads -> ThreadStruct]
      BY <1>1, ZenonT(60) DEF ThreadStruct
<1>3. \A u \in Threads : /\ thr2[u].lockDepth = thr[u].lockDepth
                         /\ thr2[u].monitor = thr[u].monitor
                         /\ thr2[u].state = thr[u].state
      BY <1>1 DEF ThreadStruct
<1>4. WithAlarm(thr, t, delta, call) \in {thr, thr2}
      BY Zenon DEF WithAlarm
<1> HIDE DEF thr2
<1>5. GoodThreads(thr2) /\ SameLocks(thr, thr2) /\ SameLocks(thr, thr)
      BY <1>2, <1>3 DEF GoodThreads, SameLocks
<1> QED
      BY <1>4, <1>5

-----------------------------------------------------------------------------
(* Waking the threads in wait()                                            *)

LEMMA RemoveCondvarWaitFacts ==
  ASSUME TypeOK, NEW thr, GoodThreads(thr), NEW m \in Monitors,
         NEW n \in 0..Len(monitor[m].condvar_waitq), removeCondvarWait(m, n, thr)
  PROVE  /\ GoodThreads(thread') /\ SameLocks(thr, thread') /\ SchedTypes
         /\ TimerQueue' \in Seq(Threads)
<1> DEFINE mon   == monitor[m]
           woken == SubSeq(mon.condvar_waitq, 1, n)
           left  == [mon EXCEPT !.condvar_waitq = SubSeq(@, n + 1, Len(@)),
                                !.monitor_waitq = @ \o woken]
           calm  == WithoutAlarm(thr, ToSet(woken))
           waiting == [t \in Threads |->
             IF Contains(woken, t)
             THEN [calm[t] EXCEPT !.state = @ \cup {"MONITOR_WAIT"}, !.monitor = m]
             ELSE calm[t]]
<1>1. mon \in MonitorStruct
      BY DEF TypeOK
<1>2. GoodThreads(calm) /\ SameLocks(thr, calm)
      BY WithoutAlarmFacts
<1>3. /\ TimerQueue' = removePendingAlarms(ToSet(woken))
      /\ \/ removeMonitorWait(m, left, waiting)
         \/ /\ monitor' = [monitor EXCEPT ![m] = left]
            /\ thread' = waiting /\ UNCHANGED <<RunnableThreads, fatal>>
      BY Zenon DEF removeCondvarWait
<1>4. left \in MonitorStruct
  <2> HIDE DEF mon
  <2>1. mon.condvar_waitq \in Seq(Threads) /\ mon.monitor_waitq \in Seq(Threads)
        BY <1>1 DEF MonitorStruct
  <2>2. n \in 0..Len(mon.condvar_waitq)
        BY DEF mon
  <2>3. woken \in Seq(Threads)
        /\ SubSeq(mon.condvar_waitq, n + 1, Len(mon.condvar_waitq)) \in Seq(Threads)
        BY <2>1, <2>2, CutType
  <2> HIDE DEF woken
  <2>4. mon.monitor_waitq \o woken \in Seq(Threads)
        BY <2>1, <2>3
  <2> QED
        BY <1>1, <2>3, <2>4 DEF MonitorStruct
<1>5. GoodThreads(waiting) /\ SameLocks(calm, waiting)
  <2> HIDE DEF calm, woken
  <2>1. \A t \in Threads : calm[t] \in ThreadStruct
        BY <1>2 DEF GoodThreads
  <2>2. ASSUME NEW r \in ThreadStruct, NEW s \in SUBSET ThreadState
        PROVE  [r EXCEPT !.state = @ \cup s, !.monitor = m] \in ThreadStruct
        BY DEF ThreadStruct
  <2>3. \A t \in Threads :
          [calm[t] EXCEPT !.state = @ \cup {"MONITOR_WAIT"}, !.monitor = m] \in ThreadStruct
        BY <2>1, <2>2, NilAndStates
  <2>4. waiting \in [Threads -> ThreadStruct]
        BY <2>1, <2>3
  <2>5. \A t \in Threads : /\ waiting[t].lockDepth = calm[t].lockDepth
                           /\ waiting[t] = calm[t] \/ waiting[t].monitor = m
        BY <2>1 DEF ThreadStruct
  <2> HIDE DEF waiting
  <2> QED
        BY <1>2, <2>4, <2>5 DEF GoodThreads, SameLocks
<1>6. TimerQueue' \in Seq(Threads)
      BY <1>3, RemoveAlarmsType
<1> HIDE DEF mon, woken, left, calm, waiting
<1>7. CASE removeMonitorWait(m, left, waiting)
      BY <1>2, <1>4, <1>5, <1>6, <1>7, RemoveMonitorWaitFacts, SameLocksTransitive
<1>8. CASE /\ monitor' = [monitor EXCEPT ![m] = left]
           /\ thread' = waiting /\ UNCHANGED <<RunnableThreads, fatal>>
  <2>1. monitor' \in [Monitors -> MonitorStruct]
        BY <1>4, <1>8 DEF TypeOK
  <2> QED
        BY <1>2, <1>5, <1>6, <1>8, <2>1, SameLocksTransitive DEF SchedTypes, TypeOK
<1> QED
      BY <1>3, <1>7, <1>8

-----------------------------------------------------------------------------
(* Suspending and inflating                                                *)

LEMMA SuspendedFacts ==
  ASSUME NEW thr, GoodThreads(thr), NEW t \in Threads
  PROVE  GoodThreads(Suspended(thr, t)) /\ SameLocks(thr, Suspended(thr, t))
<1> DEFINE thr2 == Suspended(thr, t)
<1>1. thr \in [Threads -> ThreadStruct] /\ "SUSPENDED" \in ThreadState
      BY DEF GoodThreads, ThreadState
<1>2. thr2 = [thr EXCEPT ![t].state = @ \cup {"SUSPENDED"}]
      BY DEF Suspended
<1> HIDE DEF thr2
<1>3. thr[t].state \cup {"SUSPENDED"} \in SUBSET ThreadState
      BY <1>1, ThreadFields
<1>4. thr2 \in [Threads -> ThreadStruct]
      BY <1>1, <1>2, <1>3, StateUpdate
<1>5. \A u \in Threads : /\ thr2[u].lockDepth = thr[u].lockDepth
                         /\ thr2[u].monitor = thr[u].monitor
                         /\ "CONVAR_WAIT" \in thr2[u].state => "CONVAR_WAIT" \in thr[u].state
      BY <1>1, <1>2 DEF ThreadStruct
<1>6. GoodThreads(thr2) /\ SameLocks(thr, thr2)
      BY <1>4, <1>5 DEF GoodThreads, SameLocks
<1> QED
      BY <1>6 DEF thr2

(* Updates of other fields of one thread.                                  *)
LEMMA DepthFacts ==
  ASSUME NEW thr, GoodThreads(thr), NEW t \in Threads, NEW d \in Int
  PROVE  LET thr2 == [thr EXCEPT ![t].monitor_depth = d]
         IN  GoodThreads(thr2) /\ SameLocks(thr, thr2)
<1> DEFINE thr2 == [thr EXCEPT ![t].monitor_depth = d]
<1>1. thr \in [Threads -> ThreadStruct]
      BY DEF GoodThreads
<1>2. thr2 \in [Threads -> ThreadStruct]
      BY <1>1 DEF ThreadStruct
<1>3. \A u \in Threads : /\ thr2[u].lockDepth = thr[u].lockDepth
                         /\ thr2[u].monitor = thr[u].monitor
                         /\ thr2[u].state = thr[u].state
      BY <1>1 DEF ThreadStruct
<1> HIDE DEF thr2
<1>4. GoodThreads(thr2) /\ SameLocks(thr, thr2)
      BY <1>2, <1>3 DEF GoodThreads, SameLocks
<1> QED
      BY <1>4 DEF thr2

LEMMA PendingFacts ==
  ASSUME NEW thr, GoodThreads(thr), NEW t \in Threads, NEW b \in BOOLEAN
  PROVE  LET thr2 == [thr EXCEPT ![t].isPendingInterrupt = b]
         IN  GoodThreads(thr2) /\ SameLocks(thr, thr2)
<1> DEFINE thr2 == [thr EXCEPT ![t].isPendingInterrupt = b]
<1>1. thr \in [Threads -> ThreadStruct]
      BY DEF GoodThreads
<1>2. thr2 \in [Threads -> ThreadStruct]
      BY <1>1 DEF ThreadStruct
<1>3. \A u \in Threads : /\ thr2[u].lockDepth = thr[u].lockDepth
                         /\ thr2[u].monitor = thr[u].monitor
                         /\ thr2[u].state = thr[u].state
      BY <1>1 DEF ThreadStruct
<1> HIDE DEF thr2
<1>4. GoodThreads(thr2) /\ SameLocks(thr, thr2)
      BY <1>2, <1>3 DEF GoodThreads, SameLocks
<1> QED
      BY <1>4 DEF thr2

LEMMA ThrowFacts ==
  ASSUME NEW thr, GoodThreads(thr), NEW t \in Threads, NEW b \in BOOLEAN
  PROVE  LET thr2 == [thr EXCEPT ![t].pendingException = b]
         IN  GoodThreads(thr2) /\ SameLocks(thr, thr2)
<1> DEFINE thr2 == [thr EXCEPT ![t].pendingException = b]
<1>1. thr \in [Threads -> ThreadStruct]
      BY DEF GoodThreads
<1>2. thr2 \in [Threads -> ThreadStruct]
      BY <1>1 DEF ThreadStruct
<1>3. \A u \in Threads : /\ thr2[u].lockDepth = thr[u].lockDepth
                         /\ thr2[u].monitor = thr[u].monitor
                         /\ thr2[u].state = thr[u].state
      BY <1>1 DEF ThreadStruct
<1> HIDE DEF thr2
<1>4. GoodThreads(thr2) /\ SameLocks(thr, thr2)
      BY <1>2, <1>3 DEF GoodThreads, SameLocks
<1> QED
      BY <1>4 DEF thr2

LEMMA StateFacts ==
  ASSUME NEW thr, GoodThreads(thr), NEW t \in Threads,
         NEW s \in SUBSET ThreadState, "CONVAR_WAIT" \notin s
  PROVE  LET thr2 == [thr EXCEPT ![t].state = s]
         IN  GoodThreads(thr2) /\ SameLocks(thr, thr2)
<1> DEFINE thr2 == [thr EXCEPT ![t].state = s]
<1>1. thr \in [Threads -> ThreadStruct]
      BY DEF GoodThreads
<1>2. thr2 \in [Threads -> ThreadStruct]
      BY <1>1, StateUpdate
<1>3. \A u \in Threads : /\ thr2[u].lockDepth = thr[u].lockDepth
                         /\ thr2[u].monitor = thr[u].monitor
                         /\ "CONVAR_WAIT" \in thr2[u].state => "CONVAR_WAIT" \in thr[u].state
      BY <1>1 DEF ThreadStruct
<1> HIDE DEF thr2
<1>4. GoodThreads(thr2) /\ SameLocks(thr, thr2)
      BY <1>2, <1>3 DEF GoodThreads, SameLocks
<1> QED
      BY <1>4 DEF thr2

LEMMA AttachFacts ==
  ASSUME LockInv, NEW o \in Objects, NEW m \in Monitors, Attach(o, m)
  PROVE  /\ GoodThreads(AfterUpgrade(o)) /\ LocksMatch(mhc', AfterUpgrade(o))
         /\ mhc' \in [Objects -> MHC] /\ MonitorCache' \in Seq(Monitors)
<1>1. TypeOK /\ GoodThreads(thread) /\ LocksMatch(mhc, thread)
      BY LockInvParts
<1>2. mhc' = [mhc EXCEPT ![o] = Real(m)]
      BY DEF Attach
<1>3. mhc \in [Objects -> MHC] /\ Real(m) \in MHC
      BY <1>1, WordTypes DEF TypeOK
<1>4. mhc' \in [Objects -> MHC]
      BY <1>2, <1>3
<1>5. MonitorCache' \in Seq(Monitors)
      BY <1>1, RemoveStartType DEF Attach, TypeOK
<1>6. Real(m).tag # "EXTENDED_LOCK"
      BY WordsDiffer
<1>7. CASE mhc[o].tag # "EXTENDED_LOCK"
  <2>1. AfterUpgrade(o) = thread
        BY <1>7 DEF AfterUpgrade
  <2>2. LocksMatch([mhc EXCEPT ![o] = Real(m)], thread)
        BY <1>1, <1>3, <1>6, <1>7, WordChange
  <2> QED
        BY <1>1, <1>2, <1>4, <1>5, <2>1, <2>2
<1>8. CASE mhc[o].tag = "EXTENDED_LOCK"
  <2> DEFINE u == mhc[o].thread
             thr2 == [thread EXCEPT ![u].lockDepth = 0]
  <2>1. AfterUpgrade(o) = thr2
        BY <1>8 DEF AfterUpgrade
  <2>2. mhc[o] \in MHC
        BY <1>3
  <2>3. u \in Threads /\ mhc[o] = Extended(u)
        BY <1>8, <2>2, WordCases
  <2> HIDE DEF u
  <2>4. thread \in [Threads -> ThreadStruct]
        BY <1>1 DEF GoodThreads
  <2>5. thr2 \in [Threads -> ThreadStruct]
        BY <2>3, <2>4 DEF ThreadStruct
  <2>6. /\ thr2[u].lockDepth = 0
        /\ \A v \in Threads : /\ v # u => thr2[v].lockDepth = thread[v].lockDepth
                              /\ thr2[v].monitor = thread[v].monitor
                              /\ thr2[v].state = thread[v].state
        BY <2>3, <2>4 DEF ThreadStruct
  <2> HIDE DEF thr2
  <2>7. GoodThreads(thr2)
        BY <1>1, <2>5, <2>6 DEF GoodThreads
  <2>8. OthersSameLocks(thread, thr2, u)
        BY <2>6 DEF OthersSameLocks
  <2>9. LocksMatch([mhc EXCEPT ![o] = Real(m)], thr2)
        BY <1>1, <1>3, <1>6, <2>3, <2>4, <2>5, <2>6, <2>8, LockFreed
  <2> QED
        BY <1>2, <1>4, <1>5, <2>1, <2>7, <2>9
<1> QED
      BY <1>7, <1>8

LEMMA AllocateFacts ==
  ASSUME LockInv, NEW t \in Threads, NEW o \in Objects, NEW d \in Nat \ {0}, NEW h \in Nat,
         mhc[o].tag # "EXTENDED_LOCK", allocateFastLock(t, o, d, h)
  PROVE  /\ GoodThreads(thread') /\ LocksMatch(mhc', thread')
         /\ mhc' \in [Objects -> MHC]
<1>1. TypeOK /\ GoodThreads(thread) /\ LocksMatch(mhc, thread)
      BY LockInvParts
<1>2. /\ thread[t].lockDepth = 0 /\ mhc' = [mhc EXCEPT ![o] = Extended(t)]
      /\ thread' = [thread EXCEPT ![t].lockDepth = d, ![t].lockHash = h]
      BY DEF allocateFastLock, IsExtendedLockFree
<1>3. mhc \in [Objects -> MHC] /\ thread \in [Threads -> ThreadStruct]
      BY <1>1 DEF TypeOK
<1>4. mhc' \in [Objects -> MHC]
      BY <1>2, <1>3, WordTypes
<1>5. thread' \in [Threads -> ThreadStruct]
      BY <1>2, <1>3, LockFieldUpdate
<1>6. \A u \in Threads : /\ u # t => thread'[u].lockDepth = thread[u].lockDepth
                         /\ thread'[u].monitor = thread[u].monitor
                         /\ thread'[u].state = thread[u].state
      BY <1>2, <1>3 DEF ThreadStruct
<1>7. thread'[t].lockDepth # 0
      BY <1>2, <1>3 DEF ThreadStruct
<1>8. GoodThreads(thread')
      BY <1>1, <1>5, <1>6 DEF GoodThreads
<1>9. OthersSameLocks(thread, thread', t)
      BY <1>6 DEF OthersSameLocks
<1>10. LocksMatch([mhc EXCEPT ![o] = Extended(t)], thread')
      BY <1>1, <1>2, <1>3, <1>5, <1>7, <1>9, LockTaken
<1> QED
      BY <1>2, <1>4, <1>8, <1>10

-----------------------------------------------------------------------------
(* The actions                                                             *)

RestTypes ==
  /\ CurrentThread' \in Threads \cup {NIL} /\ AllThreads' \in Seq(Threads)
  /\ AliveThreadCount' \in Int /\ TimerQueue' \in Seq(Threads)
  /\ MonitorCache' \in Seq(Monitors)
  /\ lastHash' \in Nat /\ hashReturned' \in [Objects -> SUBSET (Nat \cup Monitors)]
  /\ phase' \in {"run", "timers", "switch", "exit"}

LEMMA Assemble ==
  ASSUME GoodThreads(thread'), LocksMatch(mhc', thread'), mhc' \in [Objects -> MHC],
         SchedTypes, RestTypes
  PROVE  LockInv'
<1>1. TypeOK'
      BY DEF TypeOK, SchedTypes, RestTypes, GoodThreads
<1> QED
      BY <1>1, LockInvPartsNext

(* A step that changes the word of no object.                              *)
LEMMA AssembleSameWords ==
  ASSUME LockInv, mhc' = mhc, GoodThreads(thread'), SameLocks(thread, thread'),
         SchedTypes, RestTypes
  PROVE  LockInv'
<1>1. LocksMatch(mhc, thread) /\ mhc \in [Objects -> MHC]
      BY LockInvParts DEF TypeOK
<1>2. LocksMatch(mhc', thread') /\ mhc' \in [Objects -> MHC]
      BY <1>1, SameLocksMatch
<1> QED
      BY <1>2, Assemble

LEMMA MonitorEnterFastStep ==
  ASSUME LockInv, NEW t \in Threads, NEW o \in Objects, MonitorEnterFast(t, o)
  PROVE  LockInv'
<1>1. TypeOK /\ GoodThreads(thread) /\ LocksMatch(mhc, thread)
      BY LockInvParts
<1>2. SchedTypes /\ RestTypes
      BY <1>1 DEF MonitorEnterFast, SchedTypes, RestTypes, TypeOK, lifeVars, hashVars
<1>3. mhc \in [Objects -> MHC] /\ thread \in [Threads -> ThreadStruct]
      BY <1>1 DEF TypeOK
<1>4. SUFFICES /\ GoodThreads(thread') /\ LocksMatch(mhc', thread')
               /\ mhc' \in [Objects -> MHC]
      BY <1>2, Assemble
<1>5. StoredHash(o) \in Nat /\ 0 \in Nat /\ 1 \in Nat \ {0} /\ 2 \in Nat \ {0}
      BY <1>1, WordFields
<1>6. CASE mhc[o] = Unlocked(0) /\ mhc' = [mhc EXCEPT ![o] = Simple(t)] /\ UNCHANGED thread
  <2>1. mhc[o].tag # "EXTENDED_LOCK" /\ Simple(t).tag # "EXTENDED_LOCK"
        BY <1>6, WordsDiffer
  <2>2. LocksMatch([mhc EXCEPT ![o] = Simple(t)], thread)
        BY <1>1, <1>3, <2>1, WordChange
  <2>3. mhc' \in [Objects -> MHC]
        BY <1>3, <1>6, WordTypes
  <2> QED
        BY <1>1, <1>6, <2>2, <2>3
<1>7. CASE mhc[o].tag = "UNLOCKED" /\ allocateFastLock(t, o, 1, StoredHash(o))
      BY <1>5, <1>7, AllocateFacts
<1>8. CASE mhc[o] = Simple(t) /\ allocateFastLock(t, o, 2, 0)
  <2>1. mhc[o].tag # "EXTENDED_LOCK"
        BY <1>8, WordsDiffer
  <2> QED
        BY <1>5, <1>8, <2>1, AllocateFacts
<1>9. CASE /\ mhc[o] = Extended(t) /\ mhc' = mhc
           /\ thread' = [thread EXCEPT ![t].lockDepth = @ + 1]
  <2>1. thread[t].lockDepth \in Nat /\ thread[t].lockDepth # 0
        BY <1>1, <1>9, ThreadFields DEF LocksMatch
  <2>2. thread' \in [Threads -> ThreadStruct]
        BY <1>3, <1>9, <2>1 DEF ThreadStruct
  <2>3. \A u \in Threads : /\ thread'[u].lockDepth # 0 <=> thread[u].lockDepth # 0
                           /\ thread'[u].monitor = thread[u].monitor
                           /\ thread'[u].state = thread[u].state
        BY <1>3, <1>9, <2>1 DEF ThreadStruct
  <2>4. GoodThreads(thread') /\ SameLocks(thread, thread')
        BY <1>1, <2>2, <2>3 DEF GoodThreads, SameLocks
  <2> QED
        BY <1>1, <1>3, <1>9, <2>4, SameLocksMatch
<1> QED
      BY <1>6, <1>7, <1>8, <1>9, Zenon DEF MonitorEnterFast

LEMMA MonitorEnterSlowStep ==
  ASSUME LockInv, NEW t \in Threads, NEW o \in Objects, MonitorEnterSlow(t, o)
  PROVE  LockInv'
<1>1. TypeOK /\ GoodThreads(thread) /\ LocksMatch(mhc, thread)
      BY LockInvParts
<1>2. PICK m \in Monitors :
        /\ Attach(o, m)
        /\ \/ /\ Owner(o) \in {NIL, t}
              /\ monitor' = [monitor EXCEPT ![m] =
                   [Inflated(o, m) EXCEPT !.owner = t,
                                          !.depth = IF Owner(o) = NIL THEN 1 ELSE @ + 1]]
              /\ thread' = AfterUpgrade(o)
              /\ UNCHANGED <<CurrentThread, RunnableThreads, phase, fatal>>
           \/ /\ addMonitorWait(m, Inflated(o, m), t,
                    [Suspended(AfterUpgrade(o), t) EXCEPT ![t].monitor_depth = 1])
              /\ GiveUpProcessor
      BY Zenon DEF MonitorEnterSlow
<1>3. /\ GoodThreads(AfterUpgrade(o)) /\ LocksMatch(mhc', AfterUpgrade(o))
      /\ mhc' \in [Objects -> MHC] /\ MonitorCache' \in Seq(Monitors)
      BY <1>2, AttachFacts
<1>4. Inflated(o, m) \in MonitorStruct
      BY <1>1, InflatedType
<1>5. RestTypes
      BY <1>1, <1>2, <1>3 DEF MonitorEnterSlow, RestTypes, TypeOK, lifeVars, hashVars,
                              GiveUpProcessor
<1>6. CASE /\ monitor' = [monitor EXCEPT ![m] =
                [Inflated(o, m) EXCEPT !.owner = t,
                                       !.depth = IF Owner(o) = NIL THEN 1 ELSE @ + 1]]
           /\ thread' = AfterUpgrade(o)
           /\ UNCHANGED <<CurrentThread, RunnableThreads, phase, fatal>>
  <2> DEFINE d == IF Owner(o) = NIL THEN 1 ELSE Inflated(o, m).depth + 1
  <2>1. d \in Int /\ t \in Threads \cup {NIL}
        BY <1>4 DEF MonitorStruct
  <2> HIDE DEF d
  <2>2. [Inflated(o, m) EXCEPT !.owner = t, !.depth = d] \in MonitorStruct
        BY <1>4, <2>1, OwnerUpdate
  <2>3. monitor' = [monitor EXCEPT ![m] = [Inflated(o, m) EXCEPT !.owner = t, !.depth = d]]
        BY <1>6 DEF d
  <2>4. SchedTypes
        BY <1>1, <1>6, <2>2, <2>3 DEF SchedTypes, TypeOK
  <2> QED
        BY <1>3, <1>5, <1>6, <2>4, Assemble
<1>7. CASE /\ addMonitorWait(m, Inflated(o, m), t,
                [Suspended(AfterUpgrade(o), t) EXCEPT ![t].monitor_depth = 1])
           /\ GiveUpProcessor
  <2> DEFINE thr == Suspended(AfterUpgrade(o), t)
             thr2 == [thr EXCEPT ![t].monitor_depth = 1]
  <2>1. GoodThreads(thr) /\ SameLocks(AfterUpgrade(o), thr)
        BY <1>3, SuspendedFacts
  <2> HIDE DEF thr
  <2>2. GoodThreads(thr2) /\ SameLocks(thr, thr2)
        BY <2>1, DepthFacts
  <2>3. addMonitorWait(m, Inflated(o, m), t, thr2)
        BY <1>7 DEF thr
  <2> HIDE DEF thr2
  <2>4. GoodThreads(thread') /\ SameLocks(thr2, thread') /\ SchedTypes
        BY <1>1, <1>4, <2>2, <2>3, AddMonitorWaitFacts
  <2>5. LocksMatch(mhc', thread')
        BY <1>3, <2>1, <2>2, <2>4, SameLocksMatch
  <2> QED
        BY <1>3, <1>5, <2>4, <2>5, Assemble
<1> QED
      BY <1>2, <1>6, <1>7

LEMMA MonitorExitFastStep ==
  ASSUME LockInv, NEW t \in Threads, NEW o \in Objects, MonitorExitFast(t, o)
  PROVE  LockInv'
<1>1. TypeOK /\ GoodThreads(thread) /\ LocksMatch(mhc, thread)
      BY LockInvParts
<1>2. SchedTypes /\ RestTypes
      BY <1>1 DEF MonitorExitFast, SchedTypes, RestTypes, TypeOK, lifeVars, hashVars
<1>3. mhc \in [Objects -> MHC] /\ thread \in [Threads -> ThreadStruct]
      BY <1>1 DEF TypeOK
<1>4. SUFFICES /\ GoodThreads(thread') /\ LocksMatch(mhc', thread')
               /\ mhc' \in [Objects -> MHC]
      BY <1>2, Assemble
<1>5. Unlocked(0) \in MHC /\ Simple(t) \in MHC
      BY WordTypes
<1>6. CASE mhc[o] = Simple(t)
  <2>1. mhc' = [mhc EXCEPT ![o] = Unlocked(0)] /\ thread' = thread
        BY <1>6 DEF MonitorExitFast
  <2>2. mhc[o].tag # "EXTENDED_LOCK" /\ Unlocked(0).tag # "EXTENDED_LOCK"
        BY <1>6, WordsDiffer
  <2>3. LocksMatch([mhc EXCEPT ![o] = Unlocked(0)], thread)
        BY <1>1, <1>3, <2>2, WordChange
  <2> QED
        BY <1>1, <1>3, <1>5, <2>1, <2>3
<1>7. CASE mhc[o] = Extended(t)
  <2> DEFINE d == thread[t].lockDepth - 1
             h == thread[t].lockHash
             simplify == d = 1 /\ h = 0
             d2 == IF simplify THEN 0 ELSE d
  <2>1. mhc[o] # Simple(t)
        BY <1>7, WordsDiffer
  <2>2. /\ thread' = [thread EXCEPT ![t].lockDepth = d2]
        /\ mhc' = IF d = 0 THEN [mhc EXCEPT ![o] = Unlocked(h)]
                  ELSE IF simplify THEN [mhc EXCEPT ![o] = Simple(t)]
                  ELSE mhc
        BY <2>1, Zenon DEF MonitorExitFast, DepthAfterExit
  <2>3. thread[t].lockDepth \in Nat /\ thread[t].lockDepth # 0 /\ h \in Nat
        BY <1>1, <1>7, ThreadFields DEF LocksMatch
  <2>4. d \in Nat /\ d2 \in Nat
        BY <2>3
  <2>5. Unlocked(h) \in MHC
        BY <2>3, WordTypes
  <2> HIDE DEF d, d2, h
  <2>6. thread' \in [Threads -> ThreadStruct]
        BY <1>3, <2>2, <2>4 DEF ThreadStruct
  <2>7. /\ thread'[t].lockDepth = d2
        /\ \A u \in Threads : /\ u # t => thread'[u].lockDepth = thread[u].lockDepth
                              /\ thread'[u].monitor = thread[u].monitor
                              /\ thread'[u].state = thread[u].state
        BY <1>3, <2>2 DEF ThreadStruct
  <2>8. GoodThreads(thread')
        BY <1>1, <2>6, <2>7 DEF GoodThreads
  <2>9. OthersSameLocks(thread, thread', t)
        BY <2>7 DEF OthersSameLocks
  <2>10. CASE d = 0
    <3>1. thread'[t].lockDepth = 0 /\ mhc' = [mhc EXCEPT ![o] = Unlocked(h)]
          BY <2>2, <2>7, <2>10 DEF d2
    <3>2. Unlocked(h).tag # "EXTENDED_LOCK"
          BY WordsDiffer
    <3>3. LocksMatch([mhc EXCEPT ![o] = Unlocked(h)], thread')
          BY <1>1, <1>3, <1>7, <2>6, <2>9, <3>1, <3>2, LockFreed
    <3> QED
          BY <1>3, <2>5, <2>8, <3>1, <3>3
  <2>11. CASE d # 0 /\ simplify
    <3>1. thread'[t].lockDepth = 0 /\ mhc' = [mhc EXCEPT ![o] = Simple(t)]
          BY <2>2, <2>7, <2>11 DEF d2
    <3>2. Simple(t).tag # "EXTENDED_LOCK"
          BY WordsDiffer
    <3>3. LocksMatch([mhc EXCEPT ![o] = Simple(t)], thread')
          BY <1>1, <1>3, <1>7, <2>6, <2>9, <3>1, <3>2, LockFreed
    <3> QED
          BY <1>3, <1>5, <2>8, <3>1, <3>3
  <2>12. CASE d # 0 /\ ~simplify
    <3>1. thread'[t].lockDepth # 0 /\ mhc' = mhc
          BY <2>2, <2>7, <2>12 DEF d2
    <3>2. SameLocks(thread, thread')
          BY <2>3, <2>7, <3>1 DEF SameLocks
    <3> QED
          BY <1>1, <1>3, <2>8, <3>1, <3>2, SameLocksMatch
  <2> QED
        BY <2>10, <2>11, <2>12
<1> QED
      BY <1>6, <1>7 DEF MonitorExitFast

LEMMA MonitorExitSlowStep ==
  ASSUME LockInv, NEW t \in Threads, NEW o \in Objects, MonitorExitSlow(t, o)
  PROVE  LockInv'
<1> DEFINE m == mhc[o].monitor
           mon == [monitor[m] EXCEPT !.depth = @ - 1]
<1>1. TypeOK /\ GoodThreads(thread) /\ LocksMatch(mhc, thread)
      BY LockInvParts
<1>2. /\ mhc[o].tag = "MONITOR" /\ mhc \in [Objects -> MHC]
      /\ MonitorCache \in Seq(Monitors)
      BY <1>1 DEF MonitorExitSlow, TypeOK
<1>3. m \in Monitors
  <2>1. mhc[o] \in MHC
        BY <1>2
  <2> QED
        BY <1>2, <2>1, WordCases
<1>4. \/ /\ monitor' = [monitor EXCEPT ![m] = mon]
         /\ UNCHANGED <<thread, RunnableThreads, fatal, mhc, MonitorCache>>
      \/ removeMonitorWait(m, mon, thread) /\ UNCHANGED <<mhc, MonitorCache>>
      \/ /\ mhc' = [mhc EXCEPT ![o] = Unlocked(mon.hashCode)]
         /\ MonitorCache' = <<m>> \o MonitorCache
         /\ monitor' = [monitor EXCEPT ![m] = [mon EXCEPT !.owner = NIL]]
         /\ UNCHANGED <<thread, RunnableThreads, fatal>>
      BY Zenon DEF MonitorExitSlow
<1>5. mon \in MonitorStruct
  <2>1. monitor[m] \in MonitorStruct
        BY <1>1, <1>3 DEF TypeOK
  <2>2. monitor[m].depth - 1 \in Int
        BY <2>1 DEF MonitorStruct
  <2> QED
        BY <2>1, <2>2, CountUpdate
<1> HIDE DEF m, mon
<1>6. ASSUME MonitorCache' \in Seq(Monitors) PROVE RestTypes
      BY <1>1, <1>6 DEF MonitorExitSlow, RestTypes, TypeOK, lifeVars, hashVars
<1>7. CASE /\ monitor' = [monitor EXCEPT ![m] = mon]
           /\ UNCHANGED <<thread, RunnableThreads, fatal, mhc, MonitorCache>>
  <2>1. SchedTypes
        BY <1>1, <1>5, <1>7 DEF SchedTypes, TypeOK
  <2> QED
        BY <1>1, <1>2, <1>6, <1>7, <2>1, Assemble
<1>8. CASE removeMonitorWait(m, mon, thread) /\ UNCHANGED <<mhc, MonitorCache>>
  <2>1. GoodThreads(thread') /\ SameLocks(thread, thread') /\ SchedTypes
        BY <1>1, <1>3, <1>5, <1>8, RemoveMonitorWaitFacts
  <2>2. LocksMatch(mhc', thread')
        BY <1>1, <1>8, <2>1, SameLocksMatch
  <2> QED
        BY <1>2, <1>6, <1>8, <2>1, <2>2, Assemble
<1>9. CASE /\ mhc' = [mhc EXCEPT ![o] = Unlocked(mon.hashCode)]
           /\ MonitorCache' = <<m>> \o MonitorCache
           /\ monitor' = [monitor EXCEPT ![m] = [mon EXCEPT !.owner = NIL]]
           /\ UNCHANGED <<thread, RunnableThreads, fatal>>
  <2> DEFINE h == mon.hashCode
  <2>1. h \in Nat /\ 0 \in Nat
        BY <1>5 DEF MonitorStruct
  <2> HIDE DEF h
  <2>2. [mon EXCEPT !.owner = NIL] \in MonitorStruct
        BY <1>5, <2>1, NilAndStates, FreedUpdate
  <2>3. SchedTypes
        BY <1>1, <1>9, <2>2 DEF SchedTypes, TypeOK
  <2>4. MonitorCache' \in Seq(Monitors)
        BY <1>2, <1>3, <1>9
  <2>5. mhc' = [mhc EXCEPT ![o] = Unlocked(h)]
        BY <1>9 DEF h
  <2>6. mhc' \in [Objects -> MHC]
        BY <1>2, <2>1, <2>5, WordTypes
  <2>7. mhc[o].tag # "EXTENDED_LOCK" /\ Unlocked(h).tag # "EXTENDED_LOCK"
        BY <1>2, WordsDiffer
  <2>8. LocksMatch([mhc EXCEPT ![o] = Unlocked(h)], thread)
        BY <1>1, <1>2, <2>7, WordChange
  <2> QED
        BY <1>1, <1>6, <1>9, <2>3, <2>4, <2>5, <2>6, <2>8, Assemble
<1> QED
      BY <1>4, <1>7, <1>8, <1>9

(* The thread as wait() leaves it: it names the monitor it waits on.       *)
LEMMA WaitingThread ==
  ASSUME NEW thr, GoodThreads(thr), NEW t \in Threads, NEW d \in Int, NEW m \in Monitors
  PROVE  LET waiting == [thr EXCEPT ![t].state = @ \cup {"CONVAR_WAIT"},
                                    ![t].monitor_depth = d]
             thr2 == [waiting EXCEPT ![t].monitor = m]
         IN  GoodThreads(thr2) /\ SameLocks(thr, thr2)
<1> DEFINE s == thr[t].state \cup {"CONVAR_WAIT"}
           one == [thr EXCEPT ![t].state = s]
           two == [one EXCEPT ![t].monitor_depth = d]
           waiting == [thr EXCEPT ![t].state = @ \cup {"CONVAR_WAIT"}, ![t].monitor_depth = d]
           thr2 == [waiting EXCEPT ![t].monitor = m]
<1>1. thr \in [Threads -> ThreadStruct]
      BY DEF GoodThreads
<1>2. s \in SUBSET ThreadState
      BY ThreadFields DEF ThreadState
<1> HIDE DEF s
<1>3. one \in [Threads -> ThreadStruct]
      BY <1>1, <1>2, StateUpdate
<1> HIDE DEF one
<1>4. two \in [Threads -> ThreadStruct]
      BY <1>3 DEF ThreadStruct
<1>5. waiting = two
      BY <1>1 DEF one, s
<1>6. two = [u \in Threads |-> IF u = t THEN [thr[u] EXCEPT !.state = s, !.monitor_depth = d]
                               ELSE thr[u]]
      BY <1>1 DEF one
<1> HIDE DEF waiting, two
<1>7. thr2 \in [Threads -> ThreadStruct]
      BY <1>4, <1>5 DEF ThreadStruct
<1>8. \A u \in Threads : /\ thr2[u].lockDepth = two[u].lockDepth
                         /\ u # t => thr2[u] = two[u]
                         /\ u = t => thr2[u].monitor = m
      BY <1>4, <1>5 DEF ThreadStruct
<1>9. \A u \in Threads : /\ two[u].lockDepth = thr[u].lockDepth
                         /\ u # t => two[u] = thr[u]
      BY <1>1, <1>6 DEF ThreadStruct
<1> HIDE DEF thr2
<1>10. GoodThreads(thr2) /\ SameLocks(thr, thr2)
      BY <1>7, <1>8, <1>9 DEF GoodThreads, SameLocks
<1> QED
      BY <1>10 DEF thr2, waiting

LEMMA AsShortType ==
  ASSUME NEW d \in Int
  PROVE  AsShort(d) \in Int
BY BoundsAssumption DEF AsShort

LEMMA MonitorWaitStep ==
  ASSUME LockInv, NEW t \in Threads, NEW o \in Objects, NEW delta \in Nat,
         MonitorWait(t, o, delta)
  PROVE  LockInv'
<1> DEFINE thr  == AfterUpgrade(o)
           thr1 == Suspended(thr, t)
           thr2 == WithAlarm(thr1, t, delta, "monitorWaitAlarm")
           d    == AsShort(Depth(o))
           waiting == [thr2 EXCEPT ![t].state = @ \cup {"CONVAR_WAIT"}, ![t].monitor_depth = d]
           mon(m)  == [Inflated(o, m) EXCEPT !.condvar_waitq = addThreadToQueue(@, t)]
<1>1. TypeOK /\ GoodThreads(thread) /\ LocksMatch(mhc, thread)
      BY LockInvParts
<1>2. PICK m \in Monitors :
        /\ Attach(o, m)
        /\ \/ /\ monitor' = [monitor EXCEPT ![m] = Inflated(o, m)]
              /\ thread' = thr
              /\ UNCHANGED <<CurrentThread, RunnableThreads, TimerQueue, phase, fatal>>
           \/ /\ monitor' = [monitor EXCEPT ![m] = Inflated(o, m)]
              /\ thread' = [thr EXCEPT ![t].isPendingInterrupt = FALSE]
              /\ UNCHANGED <<CurrentThread, RunnableThreads, TimerQueue, phase, fatal>>
           \/ /\ removeMonitorWait(m, mon(m), [waiting EXCEPT ![t].monitor = m])
              /\ TimerQueue' = registerAlarm(t, delta)
              /\ GiveUpProcessor
      BY Zenon DEF MonitorWait
<1>3. /\ GoodThreads(thr) /\ LocksMatch(mhc', thr)
      /\ mhc' \in [Objects -> MHC] /\ MonitorCache' \in Seq(Monitors)
      BY <1>2, AttachFacts
<1>4. Inflated(o, m) \in MonitorStruct
      BY <1>1, InflatedType
<1>5. registerAlarm(t, delta) \in Seq(Threads)
      BY <1>1, RegisterAlarmType
<1>6. RestTypes
  <2>1. TimerQueue' \in Seq(Threads)
        BY <1>1, <1>2, <1>5 DEF TypeOK
  <2>2. CurrentThread' \in {CurrentThread, NIL} /\ phase' \in {phase, "timers"}
        BY <1>2 DEF GiveUpProcessor
  <2> QED
        BY <1>1, <1>3, <2>1, <2>2 DEF MonitorWait, RestTypes, TypeOK, lifeVars, hashVars
<1>7. monitor' = [monitor EXCEPT ![m] = Inflated(o, m)] =>
        monitor' \in [Monitors -> MonitorStruct]
      BY <1>1, <1>4 DEF TypeOK
<1> HIDE DEF thr
<1>8. CASE /\ monitor' = [monitor EXCEPT ![m] = Inflated(o, m)]
           /\ thread' = thr
           /\ UNCHANGED <<CurrentThread, RunnableThreads, TimerQueue, phase, fatal>>
  <2>1. SchedTypes
        BY <1>1, <1>7, <1>8 DEF SchedTypes, TypeOK
  <2> QED
        BY <1>3, <1>6, <1>8, <2>1, Assemble
<1>9. CASE /\ monitor' = [monitor EXCEPT ![m] = Inflated(o, m)]
           /\ thread' = [thr EXCEPT ![t].isPendingInterrupt = FALSE]
           /\ UNCHANGED <<CurrentThread, RunnableThreads, TimerQueue, phase, fatal>>
  <2>1. SchedTypes
        BY <1>1, <1>7, <1>9 DEF SchedTypes, TypeOK
  <2>2. GoodThreads(thread') /\ SameLocks(thr, thread')
        BY <1>3, <1>9, PendingFacts
  <2>3. LocksMatch(mhc', thread')
        BY <1>3, <2>2, SameLocksMatch
  <2> QED
        BY <1>3, <1>6, <2>1, <2>2, <2>3, Assemble
<1>10. CASE removeMonitorWait(m, mon(m), [waiting EXCEPT ![t].monitor = m])
  <2>1. GoodThreads(thr1) /\ SameLocks(thr, thr1)
        BY <1>3, SuspendedFacts
  <2> HIDE DEF thr1
  <2>2. GoodThreads(thr2) /\ SameLocks(thr1, thr2)
        BY <2>1, WithAlarmFacts
  <2>3. d \in Int
        BY <1>1, WordFields, AsShortType
  <2> DEFINE thr3 == [waiting EXCEPT ![t].monitor = m]
  <2> HIDE DEF thr2, d
  <2>4. GoodThreads(thr3) /\ SameLocks(thr2, thr3)
        BY <2>2, <2>3, WaitingThread
  <2>5. mon(m) \in MonitorStruct
    <3>1. Inflated(o, m).condvar_waitq \in Seq(Threads)
          BY <1>4 DEF MonitorStruct
    <3>2. addThreadToQueue(Inflated(o, m).condvar_waitq, t) \in Seq(Threads)
          BY <3>1, AddType
    <3> QED
          BY <1>4, <3>2, WaitSetUpdate
  <2>6. removeMonitorWait(m, mon(m), thr3)
        BY <1>10
  <2> HIDE DEF thr3, mon
  <2>7. GoodThreads(thread') /\ SameLocks(thr3, thread') /\ SchedTypes
        BY <1>1, <2>4, <2>5, <2>6, RemoveMonitorWaitFacts
  <2>8. LocksMatch(mhc', thread')
        BY <1>3, <2>1, <2>2, <2>4, <2>7, SameLocksMatch
  <2> QED
        BY <1>3, <1>6, <2>7, <2>8, Assemble
<1> QED
      BY <1>2, <1>8, <1>9, <1>10

LEMMA WaitersToWakeType ==
  ASSUME TypeOK, NEW m \in Monitors, NEW notifyAll \in BOOLEAN
  PROVE  WaitersToWake(m, notifyAll) \in 0..Len(monitor[m].condvar_waitq)
<1>1. monitor[m].condvar_waitq \in Seq(Threads)
      BY DEF TypeOK, MonitorStruct
<1> DEFINE waiters == Len(monitor[m].condvar_waitq)
<1>2. waiters \in Nat
      BY <1>1
<1> HIDE DEF waiters
<1>3. WaitersToWake(m, notifyAll) = IF notifyAll \/ waiters = 0 THEN waiters ELSE 1
      BY DEF WaitersToWake, waiters
<1>4. WaitersToWake(m, notifyAll) \in 0..waiters
      BY <1>2, <1>3
<1> QED
      BY <1>4 DEF waiters

LEMMA MonitorNotifyStep ==
  ASSUME LockInv, NEW t \in Threads, NEW o \in Objects, NEW notifyAll \in BOOLEAN,
         MonitorNotify(t, o, notifyAll)
  PROVE  LockInv'
<1> DEFINE m == mhc[o].monitor
           n == WaitersToWake(m, notifyAll)
<1>1. TypeOK /\ GoodThreads(thread) /\ LocksMatch(mhc, thread)
      BY LockInvParts
<1>2. mhc[o].tag = "MONITOR" /\ mhc[o] \in MHC
      BY <1>1 DEF MonitorNotify, TypeOK
<1>3. m \in Monitors
      BY <1>2, WordCases
<1>4. removeCondvarWait(m, n, thread)
      BY Zenon DEF MonitorNotify
<1>5. n \in 0..Len(monitor[m].condvar_waitq)
      BY <1>1, <1>3, WaitersToWakeType
<1> HIDE DEF m, n
<1>6. /\ GoodThreads(thread') /\ SameLocks(thread, thread') /\ SchedTypes
      /\ TimerQueue' \in Seq(Threads)
      BY <1>1, <1>3, <1>4, <1>5, RemoveCondvarWaitFacts
<1>7. mhc' = mhc /\ mhc' \in [Objects -> MHC]
      BY <1>1 DEF MonitorNotify, TypeOK
<1>8. RestTypes
      BY <1>1, <1>6 DEF MonitorNotify, RestTypes, TypeOK, lifeVars, hashVars
<1>9. LocksMatch(mhc', thread')
      BY <1>1, <1>6, <1>7, SameLocksMatch
<1> QED
      BY <1>6, <1>7, <1>8, <1>9, Assemble

LEMMA HashCodeStep ==
  ASSUME LockInv, NEW t \in Threads, NEW o \in Objects, HashCode(t, o)
  PROVE  LockInv'
<1> DEFINE h == lastHash + 1
           u == mhc[o].thread
<1>1. TypeOK /\ GoodThreads(thread) /\ LocksMatch(mhc, thread)
      BY LockInvParts
<1>2. /\ mhc \in [Objects -> MHC] /\ thread \in [Threads -> ThreadStruct]
      /\ mhc[o] \in MHC /\ h \in Nat /\ StoredHash(o) \in Nat
      BY <1>1, WordFields DEF TypeOK
<1>3. UNCHANGED <<CurrentThread, RunnableThreads, TimerQueue, phase, fatal, lifeVars>>
      BY DEF HashCode
<1>4. ASSUME NEW r \in Nat \cup Monitors,
             hashReturned' = [hashReturned EXCEPT ![o] = @ \cup {r}]
      PROVE  hashReturned' \in [Objects -> SUBSET (Nat \cup Monitors)]
      BY <1>1, <1>4 DEF TypeOK
<1>5. ASSUME hashReturned' \in [Objects -> SUBSET (Nat \cup Monitors)], lastHash' \in Nat,
             MonitorCache' \in Seq(Monitors)
      PROVE  RestTypes
      BY <1>1, <1>3, <1>5 DEF RestTypes, TypeOK, lifeVars
<1>6. ASSUME monitor' = monitor PROVE SchedTypes
      BY <1>1, <1>3, <1>6 DEF SchedTypes, TypeOK
<1>7. ASSUME NewHash(o, h)
      PROVE  hashReturned' \in [Objects -> SUBSET (Nat \cup Monitors)] /\ lastHash' \in Nat
      BY <1>2, <1>4, <1>7 DEF NewHash
<1>8. CASE /\ mhc[o].tag = "MONITOR"
           /\ hashReturned' = [hashReturned EXCEPT ![o] = @ \cup {mhc[o].monitor}]
           /\ UNCHANGED <<lockVars, thread, lastHash>>
  <2>1. mhc[o].monitor \in Nat \cup Monitors
        BY <1>2, <1>8, WordCases
  <2>2. mhc' = mhc /\ monitor' = monitor /\ MonitorCache' = MonitorCache
        BY <1>8 DEF lockVars
  <2>3. RestTypes
        BY <1>1, <1>4, <1>5, <1>8, <2>1, <2>2 DEF TypeOK
  <2> QED
        BY <1>1, <1>2, <1>6, <1>8, <2>2, <2>3, Assemble
<1>9. CASE /\ hashReturned' = [hashReturned EXCEPT ![o] = @ \cup {StoredHash(o)}]
           /\ UNCHANGED <<lockVars, thread, lastHash>>
  <2>1. StoredHash(o) \in Nat \cup Monitors
        BY <1>2
  <2>2. mhc' = mhc /\ monitor' = monitor /\ MonitorCache' = MonitorCache
        BY <1>9 DEF lockVars
  <2>3. RestTypes
        BY <1>1, <1>4, <1>5, <1>9, <2>1, <2>2 DEF TypeOK
  <2> QED
        BY <1>1, <1>2, <1>6, <1>9, <2>2, <2>3, Assemble
<1>10. CASE /\ mhc[o] = Unlocked(0) /\ mhc' = [mhc EXCEPT ![o] = Unlocked(h)]
            /\ NewHash(o, h) /\ UNCHANGED <<monitor, MonitorCache, thread>>
  <2>1. mhc[o].tag # "EXTENDED_LOCK" /\ Unlocked(h).tag # "EXTENDED_LOCK"
        BY <1>10, WordsDiffer
  <2> HIDE DEF h
  <2>2. LocksMatch([mhc EXCEPT ![o] = Unlocked(h)], thread)
        BY <1>1, <1>2, <2>1, WordChange
  <2>3. mhc' \in [Objects -> MHC]
        BY <1>2, <1>10, WordTypes
  <2>4. RestTypes
        BY <1>1, <1>5, <1>7, <1>10 DEF TypeOK
  <2> QED
        BY <1>1, <1>6, <1>10, <2>2, <2>3, <2>4, Assemble
<1>11. CASE /\ mhc[o].tag = "EXTENDED_LOCK"
            /\ thread' = [thread EXCEPT ![u].lockHash = h]
            /\ NewHash(o, h) /\ UNCHANGED lockVars
  <2>1. u \in Threads
        BY <1>2, <1>11, WordCases
  <2> HIDE DEF h, u
  <2>2. thread' \in [Threads -> ThreadStruct]
        BY <1>2, <1>11, <2>1 DEF ThreadStruct
  <2>3. \A v \in Threads : /\ thread'[v].lockDepth = thread[v].lockDepth
                           /\ thread'[v].monitor = thread[v].monitor
                           /\ thread'[v].state = thread[v].state
        BY <1>2, <1>11, <2>1 DEF ThreadStruct
  <2>4. GoodThreads(thread') /\ SameLocks(thread, thread')
        BY <1>1, <2>2, <2>3 DEF GoodThreads, SameLocks
  <2>5. mhc' = mhc /\ monitor' = monitor /\ MonitorCache' = MonitorCache
        BY <1>11 DEF lockVars
  <2>6. RestTypes
        BY <1>1, <1>5, <1>7, <1>11, <2>5 DEF TypeOK
  <2>7. LocksMatch(mhc', thread')
        BY <1>1, <2>4, <2>5, SameLocksMatch
  <2> QED
        BY <1>2, <1>6, <2>4, <2>5, <2>6, <2>7, Assemble
<1>12. CASE /\ mhc[o].tag = "SIMPLE_LOCK" /\ allocateFastLock(u, o, 1, h)
            /\ NewHash(o, h) /\ UNCHANGED <<monitor, MonitorCache>>
  <2>1. u \in Threads /\ 1 \in Nat \ {0}
        BY <1>2, <1>12, WordCases
  <2> HIDE DEF h, u
  <2>2. GoodThreads(thread') /\ LocksMatch(mhc', thread') /\ mhc' \in [Objects -> MHC]
        BY <1>2, <1>12, <2>1, AllocateFacts
  <2>3. RestTypes
        BY <1>1, <1>5, <1>7, <1>12 DEF TypeOK
  <2> QED
        BY <1>6, <1>12, <2>2, <2>3, Assemble
<1>13. CASE /\ mhc[o].tag = "SIMPLE_LOCK" /\ NewHash(o, h) /\ UNCHANGED thread
            /\ \E m \in Monitors :
                 /\ Attach(o, m)
                 /\ monitor' = [monitor EXCEPT ![m] = [Inflated(o, m) EXCEPT !.hashCode = h]]
  <2>1. PICK m \in Monitors :
          /\ Attach(o, m)
          /\ monitor' = [monitor EXCEPT ![m] = [Inflated(o, m) EXCEPT !.hashCode = h]]
        BY <1>13
  <2> HIDE DEF h
  <2>2. /\ LocksMatch(mhc', AfterUpgrade(o)) /\ mhc' \in [Objects -> MHC]
        /\ MonitorCache' \in Seq(Monitors)
        BY <2>1, AttachFacts
  <2>3. AfterUpgrade(o) = thread
        BY <1>13 DEF AfterUpgrade
  <2>4. [Inflated(o, m) EXCEPT !.hashCode = h] \in MonitorStruct
        BY <1>1, <1>2, InflatedType, HashUpdate
  <2>5. SchedTypes
        BY <1>1, <1>3, <2>1, <2>4 DEF SchedTypes, TypeOK
  <2>6. RestTypes
        BY <1>5, <1>7, <1>13, <2>2
  <2> QED
        BY <1>1, <1>13, <2>2, <2>3, <2>5, <2>6, Assemble
<1> QED
      BY <1>8, <1>9, <1>10, <1>11, <1>12, <1>13, Zenon DEF HashCode

LEMMA SleepStep ==
  ASSUME LockInv, NEW t \in Threads, NEW period \in Nat, Sleep(t, period)
  PROVE  LockInv'
<1> DEFINE thr  == Suspended(thread, t)
           thr2 == WithAlarm(thr, t, period, "resumeThread")
<1>1. TypeOK /\ GoodThreads(thread)
      BY LockInvParts
<1>2. \/ /\ thread' = [thread EXCEPT ![t].isPendingInterrupt = FALSE]
         /\ UNCHANGED <<CurrentThread, phase, TimerQueue>>
      \/ thread' = thr2 /\ TimerQueue' = registerAlarm(t, period) /\ GiveUpProcessor
      BY Zenon DEF Sleep
<1>3. mhc' = mhc /\ SchedTypes
      BY <1>1 DEF Sleep, SchedTypes, TypeOK, lockVars
<1>4. registerAlarm(t, period) \in Seq(Threads)
      BY <1>1, RegisterAlarmType
<1>5. RestTypes
  <2>1. /\ TimerQueue' \in {TimerQueue, registerAlarm(t, period)}
        /\ CurrentThread' \in {CurrentThread, NIL} /\ phase' \in {phase, "timers"}
        BY <1>2 DEF GiveUpProcessor
  <2> QED
        BY <1>1, <1>4, <2>1 DEF Sleep, RestTypes, TypeOK, lifeVars, lockVars, hashVars
<1>6. GoodThreads(thr) /\ SameLocks(thread, thr)
      BY <1>1, SuspendedFacts
<1> HIDE DEF thr
<1>7. GoodThreads(thr2) /\ SameLocks(thr, thr2)
      BY <1>6, WithAlarmFacts
<1> HIDE DEF thr2
<1>8. CASE thread' = [thread EXCEPT ![t].isPendingInterrupt = FALSE]
  <2>1. GoodThreads(thread') /\ SameLocks(thread, thread')
        BY <1>1, <1>8, PendingFacts
  <2> QED
        BY <1>3, <1>5, <2>1, AssembleSameWords
<1>9. CASE thread' = thr2
  <2>1. GoodThreads(thread') /\ SameLocks(thread, thread')
        BY <1>6, <1>7, <1>9, SameLocksTransitive
  <2> QED
        BY <1>3, <1>5, <2>1, AssembleSameWords
<1> QED
      BY <1>2, <1>8, <1>9

(* Built(u): a thread whose THREAD is built is unlocked and waits nowhere. *)
LEMMA BuiltFacts ==
  ASSUME LockInv, NEW u \in Threads
  PROVE  GoodThreads(Built(u)) /\ SameLocks(thread, Built(u))
<1>1. GoodThreads(thread)
      BY LockInvParts
<1>2. {"JUST_BORN"} \in SUBSET ThreadState /\ "CONVAR_WAIT" \notin {"JUST_BORN"}
      BY DEF ThreadState
<1> DEFINE thr2 == [thread EXCEPT ![u].state = {"JUST_BORN"}]
<1>3. GoodThreads(thr2) /\ SameLocks(thread, thr2)
      BY <1>1, <1>2, StateFacts
<1>4. Built(u) \in {thread, thr2}
      BY Zenon DEF Built
<1> HIDE DEF thr2
<1>5. SameLocks(thread, thread)
      BY DEF SameLocks
<1> QED
      BY <1>1, <1>3, <1>4, <1>5

LEMMA AllThreadsWithType ==
  ASSUME TypeOK, NEW u \in Threads
  PROVE  AllThreadsWith(u) \in Seq(Threads)
BY DEF AllThreadsWith, TypeOK

LEMMA StartThreadStep ==
  ASSUME LockInv, NEW t \in Threads, NEW u \in Threads, StartThread(t, u)
  PROVE  LockInv'
<1> DEFINE thr == [Built(u) EXCEPT ![u].state = {"SUSPENDED"}]
<1>1. TypeOK
      BY LockInvParts
<1>2. {"SUSPENDED"} \in SUBSET ThreadState /\ "CONVAR_WAIT" \notin {"SUSPENDED"}
      BY DEF ThreadState
<1>3. GoodThreads(Built(u)) /\ SameLocks(thread, Built(u))
      BY BuiltFacts
<1>4. GoodThreads(thr) /\ SameLocks(Built(u), thr)
      BY <1>2, <1>3, StateFacts
<1>5. resumeThread(u, thr)
      BY DEF StartThread
<1> HIDE DEF thr
<1>6. /\ GoodThreads(thread') /\ SameLocks(thr, thread')
      /\ RunnableThreads' \in Seq(Threads) /\ fatal' \in BOOLEAN
      BY <1>1, <1>4, <1>5, ResumeFacts
<1>7. SameLocks(thread, thread')
      BY <1>3, <1>4, <1>6, SameLocksTransitive
<1>8. mhc' = mhc /\ SchedTypes
      BY <1>1, <1>6 DEF StartThread, SchedTypes, TypeOK, lockVars
<1>9. RestTypes
      BY <1>1, AllThreadsWithType
         DEF StartThread, RestTypes, TypeOK, lockVars, hashVars
<1> QED
      BY <1>6, <1>7, <1>8, <1>9, AssembleSameWords

LEMMA SetPriorityStep ==
  ASSUME LockInv, NEW t \in Threads, NEW u \in Threads, SetPriority(t, u)
  PROVE  LockInv'
<1>1. TypeOK
      BY LockInvParts
<1>2. GoodThreads(thread') /\ SameLocks(thread, thread')
      BY BuiltFacts DEF SetPriority
<1>3. mhc' = mhc /\ SchedTypes
      BY <1>1 DEF SetPriority, SchedTypes, TypeOK, lockVars
<1>4. RestTypes
      BY <1>1, AllThreadsWithType DEF SetPriority, RestTypes, TypeOK, lockVars, hashVars
<1> QED
      BY <1>2, <1>3, <1>4, AssembleSameWords

LEMMA InterruptStep ==
  ASSUME LockInv, NEW t \in Threads, NEW u \in Threads, Interrupt(t, u)
  PROVE  LockInv'
<1> DEFINE calm   == IF inTimerQueue(u) THEN WithoutAlarm(thread, {u}) ELSE thread
           thrown == [calm EXCEPT ![u].pendingException = TRUE]
           m      == thread[u].monitor
           mon    == [monitor[m] EXCEPT !.condvar_waitq = removeFromQueue(@, u)]
<1>1. TypeOK /\ GoodThreads(thread)
      BY LockInvParts
<1>2. /\ mhc' = mhc
      /\ UNCHANGED <<CurrentThread, phase, lifeVars, MonitorCache, hashVars>>
      /\ TimerQueue' \in {TimerQueue, removePendingAlarms({u})}
      BY DEF Interrupt
<1>3. RestTypes
      BY <1>1, <1>2, RemoveAlarmsType DEF RestTypes, TypeOK, lifeVars, hashVars
<1>4. GoodThreads(calm) /\ SameLocks(thread, calm)
  <2>1. SameLocks(thread, thread)
        BY DEF SameLocks
  <2>2. GoodThreads(WithoutAlarm(thread, {u})) /\ SameLocks(thread, WithoutAlarm(thread, {u}))
        BY <1>1, WithoutAlarmFacts
  <2> QED
        BY <1>1, <2>1, <2>2
<1>5. \/ "CONVAR_WAIT" \in thread[u].state /\ addMonitorWait(m, mon, u, thrown)
      \/ resumeThread(u, thrown) /\ UNCHANGED monitor
      \/ /\ thread' = [thread EXCEPT ![u].isPendingInterrupt = TRUE]
         /\ UNCHANGED <<RunnableThreads, fatal, monitor>>
      BY Zenon DEF Interrupt
<1> HIDE DEF calm
<1>6. GoodThreads(thrown) /\ SameLocks(calm, thrown)
      BY <1>4, ThrowFacts
<1> HIDE DEF thrown
<1>7. SameLocks(thread, thrown)
      BY <1>4, <1>6, SameLocksTransitive
<1>8. CASE "CONVAR_WAIT" \in thread[u].state /\ addMonitorWait(m, mon, u, thrown)
  <2>1. m \in Monitors
        BY <1>1, <1>8 DEF GoodThreads
  <2>2. mon \in MonitorStruct
    <3>1. monitor[m] \in MonitorStruct
          BY <1>1, <2>1 DEF TypeOK
    <3>2. monitor[m].condvar_waitq \in Seq(Threads)
          BY <3>1 DEF MonitorStruct
    <3>3. removeFromQueue(monitor[m].condvar_waitq, u) \in Seq(Threads)
          BY <3>2, RemoveFromType
    <3> QED
          BY <3>1, <3>3, WaitSetUpdate
  <2> HIDE DEF m, mon
  <2>3. GoodThreads(thread') /\ SameLocks(thrown, thread') /\ SchedTypes
        BY <1>1, <1>6, <1>8, <2>1, <2>2, AddMonitorWaitFacts
  <2> QED
        BY <1>2, <1>3, <1>7, <2>3, AssembleSameWords, SameLocksTransitive
<1>9. CASE resumeThread(u, thrown) /\ UNCHANGED monitor
  <2>1. /\ GoodThreads(thread') /\ SameLocks(thrown, thread')
        /\ RunnableThreads' \in Seq(Threads) /\ fatal' \in BOOLEAN
        BY <1>1, <1>6, <1>9, ResumeFacts
  <2>2. SchedTypes
        BY <1>1, <1>9, <2>1 DEF SchedTypes, TypeOK
  <2> QED
        BY <1>2, <1>3, <1>7, <2>1, <2>2, AssembleSameWords, SameLocksTransitive
<1>10. CASE /\ thread' = [thread EXCEPT ![u].isPendingInterrupt = TRUE]
            /\ UNCHANGED <<RunnableThreads, fatal, monitor>>
  <2>1. GoodThreads(thread') /\ SameLocks(thread, thread')
        BY <1>1, <1>10, PendingFacts
  <2>2. SchedTypes
        BY <1>1, <1>10 DEF SchedTypes, TypeOK
  <2> QED
        BY <1>2, <1>3, <2>1, <2>2, AssembleSameWords
<1> QED
      BY <1>5, <1>8, <1>9, <1>10

LEMMA StopThreadStep ==
  ASSUME LockInv, NEW t \in Threads, StopThread(t)
  PROVE  LockInv'
<1> DEFINE o    == JavaThread[t]
           dead == [thread EXCEPT ![t].state = {"DEAD"}]
           n    == WaitersToWake(mhc[o].monitor, TRUE)
<1>1. TypeOK /\ GoodThreads(thread)
      BY LockInvParts
<1>2. {"DEAD"} \in SUBSET ThreadState /\ "CONVAR_WAIT" \notin {"DEAD"}
      BY DEF ThreadState
<1>3. GoodThreads(dead) /\ SameLocks(thread, dead)
      BY <1>1, <1>2, StateFacts
<1>4. /\ mhc' = mhc /\ MonitorCache' = MonitorCache /\ UNCHANGED hashVars
      /\ GiveUpProcessor /\ AliveThreadCount' = AliveThreadCount - 1
      /\ AllThreads' = removeFromQueue(AllThreads, t)
      BY DEF StopThread
<1>5. \/ /\ o # NIL /\ mhc[o].tag = "MONITOR"
         /\ removeCondvarWait(mhc[o].monitor, n, dead)
      \/ thread' = dead /\ UNCHANGED <<TimerQueue, RunnableThreads, monitor, fatal>>
      BY Zenon DEF StopThread
<1> HIDE DEF dead
<1>6. ASSUME TimerQueue' \in Seq(Threads) PROVE RestTypes
      BY <1>1, <1>4, <1>6, RemoveFromType DEF RestTypes, TypeOK, hashVars, GiveUpProcessor
<1>7. CASE /\ o # NIL /\ mhc[o].tag = "MONITOR"
           /\ removeCondvarWait(mhc[o].monitor, n, dead)
  <2>1. o \in Objects
        BY <1>7, ThreadsAssumption
  <2>2. mhc[o] \in MHC
        BY <1>1, <2>1 DEF TypeOK
  <2>3. mhc[o].monitor \in Monitors
        BY <1>7, <2>2, WordCases
  <2>4. n \in 0..Len(monitor[mhc[o].monitor].condvar_waitq)
        BY <1>1, <2>3, WaitersToWakeType
  <2> HIDE DEF n, o
  <2>5. /\ GoodThreads(thread') /\ SameLocks(dead, thread') /\ SchedTypes
        /\ TimerQueue' \in Seq(Threads)
        BY <1>1, <1>3, <1>7, <2>3, <2>4, RemoveCondvarWaitFacts
  <2> QED
        BY <1>3, <1>4, <1>6, <2>5, AssembleSameWords, SameLocksTransitive
<1>8. CASE thread' = dead /\ UNCHANGED <<TimerQueue, RunnableThreads, monitor, fatal>>
  <2>1. SchedTypes /\ TimerQueue' \in Seq(Threads)
        BY <1>1, <1>8 DEF SchedTypes, TypeOK
  <2> QED
        BY <1>3, <1>4, <1>6, <1>8, <2>1, AssembleSameWords
<1> QED
      BY <1>5, <1>7, <1>8

LEMMA FireAlarmStep ==
  ASSUME LockInv, FireAlarm
  PROVE  LockInv'
<1> DEFINE t    == Head(TimerQueue)
           m    == thread[t].monitor
           calm == WithoutAlarm(thread, {t})
           mon  == [monitor[m] EXCEPT !.condvar_waitq = removeFromQueue(@, t)]
<1>1. TypeOK /\ GoodThreads(thread)
      BY LockInvParts
<1>2. TimerQueue \in Seq(Threads) /\ TimerQueue # <<>>
      BY <1>1 DEF FireAlarm, AlarmDue, TypeOK
<1>3. t \in Threads /\ removeQueueStart(TimerQueue) \in Seq(Threads)
      BY <1>2, RemoveStartType
<1>4. \/ resumeThread(t, calm) /\ UNCHANGED monitor
      \/ m # NIL /\ addMonitorWait(m, mon, t, calm)
      \/ fatal' \in {TRUE, fatal} /\ thread' = calm /\ UNCHANGED <<RunnableThreads, monitor>>
      BY DEF FireAlarm
<1>5. GoodThreads(calm) /\ SameLocks(thread, calm)
      BY <1>1, WithoutAlarmFacts
<1> HIDE DEF t, calm
<1>6. mhc' = mhc /\ RestTypes
      BY <1>1, <1>3 DEF FireAlarm, RestTypes, TypeOK, lifeVars, hashVars
<1>7. CASE resumeThread(t, calm) /\ UNCHANGED monitor
  <2>1. /\ GoodThreads(thread') /\ SameLocks(calm, thread')
        /\ RunnableThreads' \in Seq(Threads) /\ fatal' \in BOOLEAN
        BY <1>1, <1>3, <1>5, <1>7, ResumeFacts
  <2>2. SchedTypes
        BY <1>1, <1>7, <2>1 DEF SchedTypes, TypeOK
  <2> QED
        BY <1>5, <1>6, <2>1, <2>2, AssembleSameWords, SameLocksTransitive
<1>8. CASE m # NIL /\ addMonitorWait(m, mon, t, calm)
  <2>1. thread[t] \in ThreadStruct
        BY <1>1, <1>3 DEF GoodThreads
  <2>2. m \in Monitors
        BY <1>8, <2>1 DEF ThreadStruct
  <2>3. monitor[m] \in MonitorStruct
        BY <1>1, <2>2 DEF TypeOK
  <2>4. monitor[m].condvar_waitq \in Seq(Threads)
        BY <2>3 DEF MonitorStruct
  <2>5. removeFromQueue(monitor[m].condvar_waitq, t) \in Seq(Threads)
        BY <2>4, RemoveFromType
  <2>6. mon \in MonitorStruct
        BY <2>3, <2>5, WaitSetUpdate
  <2> HIDE DEF m, mon
  <2>7. GoodThreads(thread') /\ SameLocks(calm, thread') /\ SchedTypes
        BY <1>1, <1>3, <1>5, <1>8, <2>2, <2>6, AddMonitorWaitFacts
  <2> QED
        BY <1>5, <1>6, <2>7, AssembleSameWords, SameLocksTransitive
<1>9. CASE fatal' \in {TRUE, fatal} /\ thread' = calm /\ UNCHANGED <<RunnableThreads, monitor>>
  <2>1. SchedTypes
        BY <1>1, <1>9 DEF SchedTypes, TypeOK
  <2> QED
        BY <1>5, <1>6, <1>9, <2>1, AssembleSameWords
<1> QED
      BY <1>4, <1>7, <1>8, <1>9

LEMMA SwitchThreadStep ==
  ASSUME LockInv, SwitchThread
  PROVE  LockInv'
<1>1. TypeOK /\ GoodThreads(thread)
      BY LockInvParts
<1>2. mhc' = mhc /\ UNCHANGED <<TimerQueue, lifeVars, monitor, MonitorCache, hashVars>>
      BY DEF SwitchThread, lockVars
<1>3. fatal' \in BOOLEAN
      BY DEF SwitchThread
<1>4. CASE RunnableThreads = <<>>
  <2>1. /\ thread' = thread /\ RunnableThreads' = RunnableThreads
        /\ CurrentThread' = CurrentThread /\ phase' \in {"timers", "run"}
        BY <1>4 DEF SwitchThread
  <2>2. SchedTypes /\ RestTypes
        BY <1>1, <1>2, <1>3, <2>1 DEF SchedTypes, RestTypes, TypeOK, lifeVars, hashVars
  <2>3. SameLocks(thread, thread')
        BY <2>1 DEF SameLocks
  <2> QED
        BY <1>1, <1>2, <2>1, <2>2, <2>3, AssembleSameWords
<1>5. CASE RunnableThreads # <<>>
  <2> DEFINE t == Head(RunnableThreads)
  <2>1. /\ CurrentThread' = t /\ phase' = "run" /\ RunnableThreads' = RunQueueAfterSwitch
        /\ thread' = [thread EXCEPT ![t].pendingException = FALSE]
        BY <1>5 DEF SwitchThread, Dispatch
  <2>2. t \in Threads /\ removeQueueStart(RunnableThreads) \in Seq(Threads)
        BY <1>1, <1>5, RemoveStartType DEF TypeOK
  <2>3. RunQueueAfterSwitch \in Seq(Threads)
    <3>1. CASE CurrentThread = NIL
          BY <2>2, <3>1 DEF RunQueueAfterSwitch
    <3>2. CASE CurrentThread # NIL
      <4>1. CurrentThread \in Threads
            BY <1>1, <3>2 DEF TypeOK
      <4> QED
            BY <2>2, <3>2, <4>1, AddType DEF RunQueueAfterSwitch
    <3> QED
          BY <3>1, <3>2
  <2> HIDE DEF t
  <2>4. GoodThreads(thread') /\ SameLocks(thread, thread')
        BY <1>1, <2>1, <2>2, ThrowFacts
  <2>5. SchedTypes /\ RestTypes
        BY <1>1, <1>2, <1>3, <2>1, <2>2, <2>3
           DEF SchedTypes, RestTypes, TypeOK, lifeVars, hashVars
  <2> QED
        BY <1>2, <2>4, <2>5, AssembleSameWords
<1> QED
      BY <1>4, <1>5

LEMMA TickStep ==
  ASSUME LockInv, Tick
  PROVE  LockInv'
<1>1. TypeOK /\ GoodThreads(thread)
      BY LockInvParts
<1>2. thread' = [t \in Threads |->
                  [thread[t] EXCEPT !.wakeup = IF @ > 0 THEN @ - 1 ELSE 0]]
      BY DEF Tick
<1>3. ASSUME NEW r \in ThreadStruct
      PROVE  [r EXCEPT !.wakeup = IF @ > 0 THEN @ - 1 ELSE 0] \in ThreadStruct
  <2> DEFINE w == IF r.wakeup > 0 THEN r.wakeup - 1 ELSE 0
  <2>1. w \in Nat
        BY DEF ThreadStruct
  <2> HIDE DEF w
  <2>2. [r EXCEPT !.wakeup = w] \in ThreadStruct
        BY <2>1 DEF ThreadStruct
  <2> QED
        BY <2>2 DEF w
<1>4. \A t \in Threads : thread[t] \in ThreadStruct
      BY <1>1 DEF GoodThreads
<1>5. thread' \in [Threads -> ThreadStruct]
      BY <1>2, <1>3, <1>4
<1>6. \A t \in Threads : /\ thread'[t].lockDepth = thread[t].lockDepth
                         /\ thread'[t].monitor = thread[t].monitor
                         /\ thread'[t].state = thread[t].state
      BY <1>2, <1>4 DEF ThreadStruct
<1>7. GoodThreads(thread') /\ SameLocks(thread, thread')
      BY <1>1, <1>5, <1>6 DEF GoodThreads, SameLocks
<1>8. mhc' = mhc /\ SchedTypes /\ RestTypes
      BY <1>1 DEF Tick, SchedTypes, RestTypes, TypeOK, lifeVars, lockVars, hashVars
<1> QED
      BY <1>7, <1>8, AssembleSameWords

(* The steps that touch neither a thread nor a lock.                       *)
LEMMA OtherStep ==
  ASSUME LockInv,
         \/ \E t \in Threads : Yield(t)
         \/ GarbageCollect \/ TimersDone \/ Exit \/ UNCHANGED vars
  PROVE  LockInv'
<1>1. TypeOK /\ GoodThreads(thread)
      BY LockInvParts
<1>2. /\ mhc' = mhc /\ thread' = thread /\ monitor' = monitor
      /\ MonitorCache' \in {MonitorCache, <<>>} /\ phase' \in {phase, "timers", "switch", "exit"}
      /\ UNCHANGED <<CurrentThread, RunnableThreads, TimerQueue, fatal, lifeVars, hashVars>>
      BY DEF Yield, GarbageCollect, TimersDone, Exit, vars, schedVars, lockVars
<1>3. SchedTypes
      BY <1>1, <1>2 DEF SchedTypes, TypeOK
<1>4. MonitorCache \in Seq(Monitors) /\ <<>> \in Seq(Monitors)
      BY <1>1 DEF TypeOK
<1>5. MonitorCache' \in Seq(Monitors)
      BY <1>2, <1>4
<1>6. phase' \in {"run", "timers", "switch", "exit"}
      BY <1>1, <1>2 DEF TypeOK
<1>7. RestTypes
      BY <1>1, <1>2, <1>5, <1>6 DEF RestTypes, TypeOK, lifeVars, hashVars
<1>8. SameLocks(thread, thread')
      BY <1>2 DEF SameLocks
<1> QED
      BY <1>1, <1>2, <1>3, <1>7, <1>8, AssembleSameWords

-----------------------------------------------------------------------------
(* The theorems                                                            *)

LEMMA InitLockInv == Init => LockInv
<1> SUFFICES ASSUME Init PROVE LockInv
    OBVIOUS
<1>1. Unbuilt \in ThreadStruct /\ [Unbuilt EXCEPT !.state = {"ACTIVE"}] \in ThreadStruct
  <2>1. Unbuilt \in ThreadStruct
        BY DEF Unbuilt, ThreadStruct
  <2>2. \A r \in ThreadStruct : \A st \in SUBSET ThreadState :
          [r EXCEPT !.state = st] \in ThreadStruct
        BY DEF ThreadStruct
  <2> QED
        BY <2>1, <2>2, NilAndStates
<1>2. EmptyMonitor \in MonitorStruct
      BY DEF EmptyMonitor, MonitorStruct
<1>3. thread \in [Threads -> ThreadStruct]
      BY <1>1 DEF Init
<1>4. monitor \in [Monitors -> MonitorStruct]
      BY <1>2 DEF Init
<1>5. mhc = [o \in Objects |-> Unlocked(0)] /\ Unlocked(0) \in MHC
      BY WordTypes DEF Init
<1>6. /\ mhc \in [Objects -> MHC]
      /\ \A o \in Objects : mhc[o].tag # "EXTENDED_LOCK"
      /\ \A o \in Objects : \A t \in Threads : mhc[o] # Extended(t)
      BY <1>5, WordsDiffer
<1>7. \A t \in Threads : thread[t].lockDepth = 0 /\ "CONVAR_WAIT" \notin thread[t].state
      BY DEF Init, Unbuilt
<1>8. GoodThreads(thread) /\ LocksMatch(mhc, thread)
      BY <1>3, <1>6, <1>7 DEF GoodThreads, LocksMatch
<1>9. MainThread \in Threads /\ <<MainThread>> \in Seq(Threads)
      BY ThreadsAssumption
<1>10. TypeOK
  <2>1. hashReturned \in [Objects -> SUBSET (Nat \cup Monitors)]
        BY DEF Init
  <2>2. /\ CurrentThread \in Threads \cup {NIL}
        /\ RunnableThreads \in Seq(Threads) /\ AllThreads \in Seq(Threads)
        /\ TimerQueue \in Seq(Threads) /\ MonitorCache \in Seq(Monitors)
        BY <1>9 DEF Init
  <2>3. AliveThreadCount \in Int /\ lastHash \in Nat
        BY DEF Init
  <2>4. phase \in {"run", "timers", "switch", "exit"}
        BY DEF Init
  <2>5. fatal \in BOOLEAN
        BY Zenon DEF Init
  <2> QED
        BY <1>3, <1>4, <1>6, <2>1, <2>2, <2>3, <2>4, <2>5 DEF TypeOK
<1> QED
      BY <1>8, <1>10, LockInvParts

LEMMA ObjectStepLockInv ==
  ASSUME LockInv, NEW t \in Threads, NEW o \in Objects, ObjectStep(t, o)
  PROVE  LockInv'
<1>1. WaitTimes \subseteq Nat
      BY BoundsAssumption
<1> QED
      BY <1>1, MonitorEnterFastStep, MonitorEnterSlowStep, MonitorExitFastStep,
         MonitorExitSlowStep, MonitorWaitStep, MonitorNotifyStep, HashCodeStep, Zenon
         DEF ObjectStep

LEMMA NextLockInv == LockInv /\ [Next]_vars => LockInv'
<1> SUFFICES ASSUME LockInv, [Next]_vars PROVE LockInv'
    OBVIOUS
<1>1. SleepTimes \subseteq Nat
      BY BoundsAssumption
<1>2. ASSUME NEW t \in Threads, ThreadStep(t) PROVE LockInv'
  <2>1. CASE \E o \in Objects : ObjectStep(t, o)
        BY <2>1, ObjectStepLockInv
  <2>2. CASE \E period \in SleepTimes : Sleep(t, period)
        BY <1>1, <2>2, SleepStep
  <2>3. CASE Yield(t)
        BY <2>3, OtherStep
  <2>4. CASE \E u \in Threads : StartThread(t, u) \/ SetPriority(t, u) \/ Interrupt(t, u)
        BY <2>4, StartThreadStep, SetPriorityStep, InterruptStep
  <2>5. CASE StopThread(t)
        BY <2>5, StopThreadStep
  <2> QED
        BY <1>2, <2>1, <2>2, <2>3, <2>4, <2>5 DEF ThreadStep
<1>3. CASE GarbageCollect \/ TimersDone \/ Exit \/ Terminated \/ UNCHANGED vars
      BY <1>3, OtherStep DEF Terminated
<1> QED
      BY <1>2, <1>3, FireAlarmStep, SwitchThreadStep, TickStep DEF Next, Reschedule

(* LockInv is an inductive invariant of the threads and monitors.          *)
THEOREM LockInvariant == Spec => []LockInv
BY InitLockInv, NextLockInv, PTL DEF Spec

(* Every variable keeps the type its C declaration allows: no depth of an  *)
(* extended lock goes below zero, no queue holds anything but threads.     *)
THEOREM TypeCorrect == Spec => []TypeOK
<1>1. LockInv => TypeOK
      BY DEF LockInv
<1> QED
      BY <1>1, LockInvariant, PTL

(* The extended lock of a thread stands for one object at most and is      *)
(* taken exactly while that object uses it.                                *)
THEOREM ExtendedLocksAreUnique == Spec => []ExtendedLockUnique
<1>1. LockInv => ExtendedLockUnique
      BY DEF LockInv
<1> QED
      BY <1>1, LockInvariant, PTL

(* A thread in wait() names the monitor whose queue it has to leave.       *)
THEOREM WaitersNameTheirMonitor == Spec => []WaiterHasMonitor
<1>1. LockInv => WaiterHasMonitor
      BY DEF LockInv
<1> QED
      BY <1>1, LockInvariant, PTL

-----------------------------------------------------------------------------
(***************************************************************************)
(* For every number of threads, objects and monitors, every thread queue   *)
(* and alarm, and every order of the bytecodes, natives, alarms and        *)
(* collections of KVMThreads: no thread is lost or in two places, whatever *)
(* wakes a thread up finds it as it must, a monitor belongs to one object  *)
(* at most, and the hash code of an object never changes.                  *)
(*                                                                         *)
(* The four are one inductive invariant, SchedInv. Its core is Placed: for *)
(* each thread, its state says in which queues it is, and the queues say   *)
(* nothing else. None of the parts can be proved alone: a thread leaves    *)
(* the alarms only if it is in them once, a monitor is given away only to  *)
(* a thread that queues for it, and a monitor is freed only if no thread   *)
(* would still name it.                                                    *)
(***************************************************************************)

(* The states a THREAD goes through.                                       *)
Ready    == {"ACTIVE"}
Asleep   == {"ACTIVE", "SUSPENDED"}
Entering == {"ACTIVE", "SUSPENDED", "MONITOR_WAIT"}
Waiting  == {"ACTIVE", "SUSPENDED", "CONVAR_WAIT"}
Woken    == {"ACTIVE", "SUSPENDED", "CONVAR_WAIT", "MONITOR_WAIT"}
Lifeless == {{}, {"JUST_BORN"}, {"DEAD"}}
Alive    == {Ready, Asleep, Entering, Waiting, Woken}

LEMMA StatesDiffer ==
  /\ Ready # Asleep /\ Ready # Entering /\ Ready # Waiting /\ Ready # Woken
  /\ Asleep # Entering /\ Asleep # Waiting /\ Asleep # Woken
  /\ Entering # Waiting /\ Entering # Woken /\ Waiting # Woken
  /\ Alive \cap Lifeless = {}
  /\ \A s \in Alive : "SUSPENDED" \in s <=> s # Ready
  /\ \A s \in Alive : "CONVAR_WAIT" \in s <=> s \in {Waiting, Woken}
  /\ \A s \in Alive : s \cap {"ACTIVE", "SUSPENDED"} # {}
  /\ \A s \in Lifeless : s \cap {"ACTIVE", "SUSPENDED"} = {} /\ "CONVAR_WAIT" \notin s
<1>1. /\ Ready # Asleep /\ Ready # Entering /\ Ready # Waiting /\ Ready # Woken
      /\ Asleep # Entering /\ Asleep # Waiting /\ Asleep # Woken
      /\ Entering # Waiting /\ Entering # Woken /\ Waiting # Woken
      BY DEF Ready, Asleep, Entering, Waiting, Woken
<1>2. \A s \in Alive : /\ "SUSPENDED" \in s <=> s # Ready
                       /\ "CONVAR_WAIT" \in s <=> s \in {Waiting, Woken}
                       /\ "ACTIVE" \in s
      BY <1>1 DEF Alive, Ready, Asleep, Entering, Waiting, Woken
<1>3. \A s \in Lifeless : "ACTIVE" \notin s /\ "SUSPENDED" \notin s /\ "CONVAR_WAIT" \notin s
      BY DEF Lifeless
<1> QED
      BY <1>1, <1>2, <1>3

LEMMA StateChanges ==
  /\ Ready \cup {"SUSPENDED"} = Asleep /\ Asleep \cup {"MONITOR_WAIT"} = Entering
  /\ Asleep \cup {"CONVAR_WAIT"} = Waiting /\ Waiting \cup {"MONITOR_WAIT"} = Woken
BY DEF Ready, Asleep, Entering, Waiting, Woken

(* A depth that went through the short monitor_depth is still the same.    *)
DepthFits(d) == MaxDepth <= ShortMax => d \in 1..MaxDepth

(* Where a thread is, and what it holds, follows from its state.           *)
Placed(t, cur, run, tq, thr, mon) ==
  LET r == thr[t] IN
  /\ r.state \in Lifeless \cup Alive
  /\ r.state = Ready <=> cur = t \/ Contains(run, t)
  /\ ~(cur = t /\ Contains(run, t))
  /\ cur = t => ~r.pendingException
  /\ r.wakeupCall = "resumeThread" <=> r.state = Asleep
  /\ r.wakeupCall = "monitorWaitAlarm" => r.state = Waiting
  /\ r.wakeupCall # NIL <=> Contains(tq, t)
  /\ \A m \in Monitors :
       /\ Contains(mon[m].monitor_waitq, t) <=> r.state \in {Entering, Woken} /\ r.monitor = m
       /\ Contains(mon[m].condvar_waitq, t) <=> r.state = Waiting /\ r.monitor = m
  /\ r.state \in {Entering, Waiting, Woken} => r.monitor \in Monitors /\ DepthFits(r.monitor_depth)
  /\ r.lockDepth <= MaxDepth

(* No queue holds a thread twice, and the alarms are in their order.       *)
Ordered(run, tq, thr, mon) ==
  /\ IsInjective(run) /\ IsInjective(tq)
  /\ \A m \in Monitors : IsInjective(mon[m].monitor_waitq) /\ IsInjective(mon[m].condvar_waitq)
  /\ SortedBy(tq, [t \in Threads |-> thr[t].wakeup])

Places(cur, run, tq, thr, mon) ==
  Ordered(run, tq, thr, mon) /\ \A t \in Threads : Placed(t, cur, run, tq, thr, mon)

(* Nobody queues for a free monitor.                                       *)
Sound(mon) ==
  /\ mon.owner = NIL => mon.monitor_waitq = <<>> /\ mon.depth = 0
  /\ mon.owner # NIL => DepthFits(mon.depth)

(* No thread is born or dies, and the extended locks are as they were.     *)
Kept(thr, thr2) ==
  \A t \in Threads :
    /\ thr[t].state \in Lifeless \/ thr2[t].state \in Lifeless => thr2[t].state = thr[t].state
    /\ thr2[t].lockDepth = thr[t].lockDepth /\ thr2[t].lockHash = thr[t].lockHash

(* Of the monitors only m changed, and not in its hash code.               *)
OnlyMonitor(m, mon) ==
  /\ \A k \in Monitors : k # m => monitor'[k] = monitor[k]
  /\ monitor'[m].hashCode = mon.hashCode /\ Sound(monitor'[m])

LEMMA ThreadEta ==
  ASSUME NEW thr \in [Threads -> ThreadStruct], NEW t \in Threads
  PROVE  /\ thr[t].wakeupCall \in {NIL, "resumeThread", "monitorWaitAlarm"}
         /\ thr[t].monitor \in Monitors \cup {NIL} /\ thr[t].pendingException \in BOOLEAN
BY DEF ThreadStruct

LEMMA CallsDiffer ==
  NIL # "resumeThread" /\ NIL # "monitorWaitAlarm" /\ NIL \notin Threads /\ NIL \notin Monitors
  /\ "resumeThread" # "monitorWaitAlarm"
BY ThreadsAssumption

(* resumeThread, of a thread that left the queue it waited in.             *)
LEMMA ResumeEffect ==
  ASSUME NEW thr \in [Threads -> ThreadStruct], NEW t \in Threads, resumeThread(t, thr)
  PROVE  /\ RunnableThreads' = addThreadToQueue(RunnableThreads, t)
         /\ fatal' = (fatal \/ "SUSPENDED" \notin thr[t].state \/ t = CurrentThread)
         /\ thread'[t].state = Ready /\ thread'[t].monitor = thr[t].monitor
         /\ thread'[t].monitor_depth = thr[t].monitor_depth
         /\ thread'[t].wakeupCall = thr[t].wakeupCall /\ thread'[t].wakeup = thr[t].wakeup
         /\ thread'[t].pendingException = thr[t].pendingException
         /\ \A u \in Threads : u # t => thread'[u] = thr[u]
BY DEF resumeThread, ThreadStruct, Ready

(* removeMonitorWait in its two cases.                                     *)
LEMMA FreeEffect ==
  ASSUME TypeOK, NEW thr, NEW m \in Monitors, NEW mon \in MonitorStruct,
         removeMonitorWait(m, mon, thr), mon.monitor_waitq = <<>>
  PROVE  /\ thread' = thr /\ UNCHANGED <<RunnableThreads, fatal>>
         /\ \A k \in Monitors : k # m => monitor'[k] = monitor[k]
         /\ monitor'[m].owner = NIL /\ monitor'[m].depth = 0
         /\ monitor'[m].monitor_waitq = <<>> /\ monitor'[m].hashCode = mon.hashCode
         /\ monitor'[m].condvar_waitq = mon.condvar_waitq
<1>1. monitor \in [Monitors -> MonitorStruct]
      BY DEF TypeOK
<1>2. /\ monitor' = [monitor EXCEPT ![m] = [mon EXCEPT !.owner = NIL, !.depth = 0]]
      /\ thread' = thr /\ UNCHANGED <<RunnableThreads, fatal>>
      BY DEF removeMonitorWait
<1>3. \A k \in Monitors : k # m => monitor'[k] = monitor[k]
      BY <1>1, <1>2
<1>4. monitor'[m] = [mon EXCEPT !.owner = NIL, !.depth = 0]
      BY <1>1, <1>2
<1>5. /\ monitor'[m].owner = NIL /\ monitor'[m].depth = 0
      /\ monitor'[m].monitor_waitq = mon.monitor_waitq /\ monitor'[m].hashCode = mon.hashCode
      /\ monitor'[m].condvar_waitq = mon.condvar_waitq
      BY <1>4 DEF MonitorStruct
<1> QED
      BY <1>2, <1>3, <1>5

LEMMA HandOverEffect ==
  ASSUME TypeOK, NEW thr \in [Threads -> ThreadStruct], NEW m \in Monitors,
         NEW mon \in MonitorStruct, removeMonitorWait(m, mon, thr), mon.monitor_waitq # <<>>,
         NEW w, w = Head(mon.monitor_waitq)
  PROVE  /\ w \in Threads
         /\ \A k \in Monitors : k # m => monitor'[k] = monitor[k]
         /\ monitor'[m].owner = w /\ monitor'[m].depth = thr[w].monitor_depth
         /\ monitor'[m].monitor_waitq = Tail(mon.monitor_waitq)
         /\ monitor'[m].hashCode = mon.hashCode
         /\ monitor'[m].condvar_waitq = mon.condvar_waitq
         /\ RunnableThreads' = addThreadToQueue(RunnableThreads, w)
         /\ fatal' = (fatal \/ "SUSPENDED" \notin thr[w].state \/ w = CurrentThread)
         /\ \A u \in Threads : u # w => thread'[u] = thr[u]
         /\ thread'[w].state = Ready /\ thread'[w].monitor_depth = 0
         /\ thread'[w].wakeupCall = thr[w].wakeupCall /\ thread'[w].wakeup = thr[w].wakeup
         /\ thread'[w].lockDepth = thr[w].lockDepth /\ thread'[w].lockHash = thr[w].lockHash
<1> DEFINE thr2 == [thr EXCEPT ![w].monitor = NIL, ![w].monitor_depth = 0]
           mon2 == [mon EXCEPT !.owner = w, !.depth = thr[w].monitor_depth,
                               !.monitor_waitq = removeQueueStart(@)]
<1>1. monitor \in [Monitors -> MonitorStruct]
      BY DEF TypeOK
<1>2. mon.monitor_waitq \in Seq(Threads)
      BY DEF MonitorStruct
<1>3. w \in Threads /\ removeQueueStart(mon.monitor_waitq) = Tail(mon.monitor_waitq)
      BY <1>2 DEF removeQueueStart
<1>4. monitor' = [monitor EXCEPT ![m] = mon2] /\ resumeThread(w, thr2)
      BY DEF removeMonitorWait
<1>5. thr2 \in [Threads -> ThreadStruct]
      BY <1>3, NilAndStates, WokenUpdate
<1>6. /\ \A u \in Threads : u # w => thr2[u] = thr[u]
      /\ thr2[w].monitor_depth = 0 /\ thr2[w].wakeupCall = thr[w].wakeupCall
      /\ thr2[w].wakeup = thr[w].wakeup /\ thr2[w].state = thr[w].state
      /\ thr2[w].lockDepth = thr[w].lockDepth /\ thr2[w].lockHash = thr[w].lockHash
      BY <1>3 DEF ThreadStruct
<1> HIDE DEF thr2
<1>7. /\ RunnableThreads' = addThreadToQueue(RunnableThreads, w)
      /\ fatal' = (fatal \/ "SUSPENDED" \notin thr2[w].state \/ w = CurrentThread)
      /\ thread' = [thr2 EXCEPT ![w].state = {"ACTIVE"}]
      BY <1>4 DEF resumeThread
<1>8. /\ \A u \in Threads : u # w => thread'[u] = thr2[u]
      /\ thread'[w].state = Ready /\ thread'[w].monitor_depth = thr2[w].monitor_depth
      /\ thread'[w].wakeupCall = thr2[w].wakeupCall /\ thread'[w].wakeup = thr2[w].wakeup
      /\ thread'[w].lockDepth = thr2[w].lockDepth /\ thread'[w].lockHash = thr2[w].lockHash
      BY <1>3, <1>5, <1>7 DEF ThreadStruct, Ready
<1>9. \A k \in Monitors : k # m => monitor'[k] = monitor[k]
      BY <1>1, <1>4
<1>10. monitor'[m] = mon2
      BY <1>1, <1>4
<1>11. /\ monitor'[m].owner = w /\ monitor'[m].depth = thr[w].monitor_depth
       /\ monitor'[m].monitor_waitq = Tail(mon.monitor_waitq)
       /\ monitor'[m].hashCode = mon.hashCode
       /\ monitor'[m].condvar_waitq = mon.condvar_waitq
      BY <1>3, <1>10 DEF MonitorStruct
<1> QED
      BY <1>3, <1>6, <1>7, <1>8, <1>9, <1>11

(* What the hand-over leaves, from a table of threads thr and of monitors  *)
(* that agree.                                                             *)
LEMMA HandOverPlaces ==
  ASSUME TypeOK, NEW thr \in [Threads -> ThreadStruct], NEW m \in Monitors,
         NEW mon \in MonitorStruct, NEW cur, NEW tq \in Seq(Threads),
         NEW mons, mons \in [Monitors -> MonitorStruct], mons[m] = mon,
         \A k \in Monitors : k # m => mons[k] = monitor[k],
         Places(cur, RunnableThreads, tq, thr, mons),
         CurrentThread \in Threads => thr[CurrentThread].state \notin {Entering, Woken},
         removeMonitorWait(m, mon, thr)
  PROVE  /\ Places(cur, RunnableThreads', tq, thread', monitor')
         /\ Kept(thr, thread') /\ fatal' = fatal /\ OnlyMonitor(m, mon)
<1>1. CASE mon.monitor_waitq = <<>>
  <2>0. /\ thread' = thr /\ UNCHANGED <<RunnableThreads, fatal>>
        /\ \A k \in Monitors : k # m => monitor'[k] = monitor[k]
        /\ monitor'[m].owner = NIL /\ monitor'[m].depth = 0
        /\ monitor'[m].monitor_waitq = <<>> /\ monitor'[m].hashCode = mon.hashCode
        /\ monitor'[m].condvar_waitq = mon.condvar_waitq
        BY <1>1, FreeEffect
  <2>1. /\ thread' = thr /\ RunnableThreads' = RunnableThreads /\ fatal' = fatal
        /\ \A k \in Monitors : /\ monitor'[k].monitor_waitq = mons[k].monitor_waitq
                                /\ monitor'[k].condvar_waitq = mons[k].condvar_waitq
        BY <1>1, <2>0
  <2>2. Ordered(RunnableThreads', tq, thread', monitor')
        BY <2>1 DEF Ordered, Places
  <2>3. ASSUME NEW u \in Threads PROVE Placed(u, cur, RunnableThreads', tq, thread', monitor')
        BY <2>1 DEF Placed, Places
  <2>4. OnlyMonitor(m, mon)
        BY <2>0 DEF OnlyMonitor, Sound
  <2> QED
        BY <2>1, <2>2, <2>3, <2>4 DEF Places, Kept
<1>2. CASE mon.monitor_waitq # <<>>
  <2> DEFINE w == Head(mon.monitor_waitq)
             q == mon.monitor_waitq
  <2>1. q \in Seq(Threads) /\ q # <<>>
        BY <1>2 DEF MonitorStruct
  <2>2. /\ w \in Threads
        /\ \A k \in Monitors : k # m => monitor'[k] = mons[k]
        /\ monitor'[m].owner = w
        /\ monitor'[m].monitor_waitq = Tail(q)
        /\ monitor'[m].condvar_waitq = mons[m].condvar_waitq
        /\ RunnableThreads' = addThreadToQueue(RunnableThreads, w)
        /\ fatal' = (fatal \/ "SUSPENDED" \notin thr[w].state \/ w = CurrentThread)
        /\ \A u \in Threads : u # w => thread'[u] = thr[u]
        /\ thread'[w].state = Ready
        /\ thread'[w].wakeupCall = thr[w].wakeupCall /\ thread'[w].wakeup = thr[w].wakeup
        /\ thread'[w].lockDepth = thr[w].lockDepth /\ thread'[w].lockHash = thr[w].lockHash
        /\ monitor'[m].depth = thr[w].monitor_depth /\ monitor'[m].hashCode = mon.hashCode
        BY <1>2, HandOverEffect
  <2>3. IsInjective(q) /\ mons[m].monitor_waitq = q /\ IsInjective(RunnableThreads)
        BY DEF Places, Ordered
  <2>4. Contains(q, w) /\ \A u : Contains(Tail(q), u) <=> Contains(q, u) /\ u # w
        BY <2>1, <2>3, EmptyQueue, TailEffect
  <2>5. IsInjective(Tail(q))
    <3>1. Tail(q) \in Seq(Threads)
          BY <2>1
    <3> QED
          BY <2>1, <2>3, <3>1, TailEffect, PartEffect
  <2> HIDE DEF w, q
  <2>6. Placed(w, cur, RunnableThreads, tq, thr, mons)
        BY <2>2 DEF Places
  <2>7. thr[w].state \in {Entering, Woken} /\ thr[w].monitor = m
        BY <2>3, <2>4, <2>6 DEF Placed
  <2>8. cur # w /\ ~Contains(RunnableThreads, w)
        BY <2>6, <2>7, StatesDiffer DEF Placed
  <2>9. thr[w].wakeupCall = NIL /\ ~Contains(tq, w)
        BY <2>2, <2>6, <2>7, StatesDiffer, ThreadEta, CallsDiffer DEF Placed
  <2>10. /\ IsInjective(RunnableThreads')
         /\ \A u : Contains(RunnableThreads', u) <=> Contains(RunnableThreads, u) \/ u = w
        BY <2>2, <2>3, <2>8, AppendEffect DEF TypeOK
  <2>11. Ordered(RunnableThreads', tq, thread', monitor')
    <3>1. \A u \in Threads : thread'[u].wakeup = thr[u].wakeup
          BY <2>2
    <3>2. [t \in Threads |-> thread'[t].wakeup] = [t \in Threads |-> thr[t].wakeup]
          BY <3>1
    <3>3. \A k \in Monitors : /\ IsInjective(monitor'[k].monitor_waitq)
                              /\ IsInjective(monitor'[k].condvar_waitq)
          BY <2>2, <2>5 DEF Places, Ordered
    <3> QED
          BY <2>10, <3>2, <3>3 DEF Places, Ordered
  <2>12. Placed(w, cur, RunnableThreads', tq, thread', monitor')
    <3>1. thread'[w].state \in Alive /\ thread'[w].state \notin {Entering, Woken, Waiting, Asleep}
          BY <2>2, StatesDiffer DEF Alive
    <3>2. \A k \in Monitors : ~Contains(monitor'[k].monitor_waitq, w)
      <4>1. ~Contains(monitor'[m].monitor_waitq, w)
            BY <2>2, <2>4
      <4>2. ASSUME NEW k \in Monitors, k # m PROVE ~Contains(monitor'[k].monitor_waitq, w)
            BY <2>2, <2>6, <2>7, <4>2 DEF Placed
      <4> QED
            BY <4>1, <4>2
    <3>3. \A k \in Monitors : ~Contains(monitor'[k].condvar_waitq, w)
          BY <2>2, <2>6, <2>7, StatesDiffer DEF Placed
    <3> QED
          BY <2>2, <2>6, <2>8, <2>9, <2>10, <3>1, <3>2, <3>3, CallsDiffer DEF Placed
  <2>13. ASSUME NEW u \in Threads, u # w
         PROVE  Placed(u, cur, RunnableThreads', tq, thread', monitor')
    <3>1. Placed(u, cur, RunnableThreads, tq, thr, mons) /\ thread'[u] = thr[u]
          BY <2>2, <2>13 DEF Places
    <3>2. \A k \in Monitors :
            /\ Contains(monitor'[k].monitor_waitq, u) <=> Contains(mons[k].monitor_waitq, u)
            /\ Contains(monitor'[k].condvar_waitq, u) <=> Contains(mons[k].condvar_waitq, u)
      <4>1. u # w /\ u \in Threads
            BY <2>13
      <4>2. /\ Contains(monitor'[m].monitor_waitq, u) <=> Contains(mons[m].monitor_waitq, u)
            /\ Contains(monitor'[m].condvar_waitq, u) <=> Contains(mons[m].condvar_waitq, u)
        <5>1. /\ monitor'[m].monitor_waitq = Tail(q) /\ mons[m].monitor_waitq = q
              /\ monitor'[m].condvar_waitq = mons[m].condvar_waitq
              BY ONLY <2>2, <2>3, Zenon
        <5>2. Contains(Tail(q), u) <=> Contains(q, u)
              BY ONLY <2>4, <4>1, Zenon
        <5> QED
              BY ONLY <5>1, <5>2, Zenon
      <4>3. ASSUME NEW k \in Monitors, k # m PROVE monitor'[k] = mons[k]
            BY <2>2, <4>3, Zenon
      <4> QED
            BY <4>2, <4>3, Zenon
    <3> QED
          BY <2>10, <2>13, <3>1, <3>2 DEF Placed
  <2>14. fatal' = fatal
    <3>1. w # CurrentThread
          BY <2>2, <2>7
    <3>2. "SUSPENDED" \in thr[w].state
          BY <2>7, StatesDiffer DEF Alive
    <3>3. fatal \in BOOLEAN
          BY DEF TypeOK
    <3> QED
          BY <2>2, <3>1, <3>2, <3>3
  <2>15. Kept(thr, thread')
    <3>1. thr[w].state \notin Lifeless /\ thread'[w].state \notin Lifeless
          BY <2>2, <2>7, StatesDiffer DEF Alive
    <3> QED
          BY <2>2, <3>1 DEF Kept
  <2>16. OnlyMonitor(m, mon)
    <3>1. monitor'[m].owner # NIL
          BY <2>2, CallsDiffer
    <3>2. DepthFits(monitor'[m].depth)
          BY <2>2, <2>6, <2>7 DEF Placed
    <3> QED
          BY <2>2, <3>1, <3>2 DEF OnlyMonitor, Sound
  <2> QED
        BY <2>11, <2>12, <2>13, <2>14, <2>15, <2>16 DEF Places
<1> QED
      BY <1>1, <1>2

(* A thread that was taken out of the queue it waited in: it is nowhere.   *)
Away(t, cur, run, tq, thr, mon) ==
  /\ Ordered(run, tq, thr, mon)
  /\ \A u \in Threads : u # t => Placed(u, cur, run, tq, thr, mon)
  /\ thr[t].state \in {Asleep, Waiting} /\ thr[t].wakeupCall = NIL
  /\ DepthFits(thr[t].monitor_depth) /\ thr[t].lockDepth <= MaxDepth
  /\ cur # t /\ ~Contains(run, t) /\ ~Contains(tq, t)
  /\ \A m \in Monitors : /\ ~Contains(mon[m].monitor_waitq, t)
                          /\ ~Contains(mon[m].condvar_waitq, t)

(* What addMonitorWait computes: t has joined the queue of m.              *)
QueuedFor(queued, waiting, m, mon, t, thr) ==
  /\ queued.owner = mon.owner /\ queued.depth = mon.depth
  /\ queued.hashCode = mon.hashCode /\ queued.condvar_waitq = mon.condvar_waitq
  /\ queued.monitor_waitq = addThreadToQueue(mon.monitor_waitq, t)
  /\ \A u \in Threads : u # t => waiting[u] = thr[u]
  /\ waiting[t].state = thr[t].state \cup {"MONITOR_WAIT"} /\ waiting[t].monitor = m
  /\ waiting[t].monitor_depth = thr[t].monitor_depth
  /\ waiting[t].wakeupCall = thr[t].wakeupCall /\ waiting[t].wakeup = thr[t].wakeup
  /\ waiting[t].lockDepth = thr[t].lockDepth /\ waiting[t].lockHash = thr[t].lockHash
  /\ \/ mon.owner = NIL /\ removeMonitorWait(m, queued, waiting)
     \/ /\ mon.owner # NIL /\ thread' = waiting /\ UNCHANGED <<RunnableThreads, fatal>>
        /\ monitor'[m] = queued
        /\ \A k \in Monitors : k # m => monitor'[k] = monitor[k]

(* addMonitorWait in its two cases.                                        *)
LEMMA AddMonitorWaitEffect ==
  ASSUME TypeOK, NEW thr \in [Threads -> ThreadStruct], NEW m \in Monitors, NEW t \in Threads,
         NEW mon \in MonitorStruct, addMonitorWait(m, mon, t, thr)
  PROVE  \E queued \in MonitorStruct, waiting \in [Threads -> ThreadStruct] :
           QueuedFor(queued, waiting, m, mon, t, thr)
<1> DEFINE queued  == [mon EXCEPT !.monitor_waitq = addThreadToQueue(@, t)]
           waiting == [thr EXCEPT ![t].state = @ \cup {"MONITOR_WAIT"}, ![t].monitor = m]
<1>1. /\ waiting \in [Threads -> ThreadStruct]
      /\ \A u \in Threads : u # t => waiting[u] = thr[u]
      /\ waiting[t].state = thr[t].state \cup {"MONITOR_WAIT"} /\ waiting[t].monitor = m
      /\ waiting[t].monitor_depth = thr[t].monitor_depth
      /\ waiting[t].wakeupCall = thr[t].wakeupCall /\ waiting[t].wakeup = thr[t].wakeup
      /\ waiting[t].lockDepth = thr[t].lockDepth /\ waiting[t].lockHash = thr[t].lockHash
  <2>1. waiting \in [Threads -> ThreadStruct]
        BY NilAndStates, QueuedUpdate
  <2>2. /\ \A u \in Threads : u # t => waiting[u] = thr[u]
        /\ waiting[t].state = thr[t].state \cup {"MONITOR_WAIT"} /\ waiting[t].monitor = m
        /\ waiting[t].monitor_depth = thr[t].monitor_depth
        /\ waiting[t].wakeupCall = thr[t].wakeupCall /\ waiting[t].wakeup = thr[t].wakeup
        /\ waiting[t].lockDepth = thr[t].lockDepth /\ waiting[t].lockHash = thr[t].lockHash
        BY DEF ThreadStruct
  <2> QED
        BY <2>1, <2>2
<1>2. queued \in MonitorStruct
  <2>1. addThreadToQueue(mon.monitor_waitq, t) \in Seq(Threads)
        BY AddType DEF MonitorStruct
  <2> QED
        BY <2>1 DEF MonitorStruct
<1>3. /\ queued.owner = mon.owner /\ queued.depth = mon.depth
      /\ queued.hashCode = mon.hashCode /\ queued.condvar_waitq = mon.condvar_waitq
      /\ queued.monitor_waitq = addThreadToQueue(mon.monitor_waitq, t)
      BY DEF MonitorStruct
<1>4. \/ mon.owner = NIL /\ removeMonitorWait(m, queued, waiting)
      \/ /\ mon.owner # NIL /\ thread' = waiting /\ UNCHANGED <<RunnableThreads, fatal>>
         /\ monitor' = [monitor EXCEPT ![m] = queued]
      BY Zenon DEF addMonitorWait
<1> HIDE DEF queued, waiting
<1>5. monitor' = [monitor EXCEPT ![m] = queued]
        => monitor'[m] = queued /\ \A k \in Monitors : k # m => monitor'[k] = monitor[k]
      BY DEF TypeOK
<1> QED
      BY <1>1, <1>2, <1>3, <1>4, <1>5 DEF QueuedFor

LEMMA AddMonitorWaitPlaces ==
  ASSUME TypeOK, NEW thr \in [Threads -> ThreadStruct], NEW m \in Monitors, NEW t \in Threads,
         NEW mon \in MonitorStruct, NEW cur, NEW tq \in Seq(Threads),
         NEW mons, mons \in [Monitors -> MonitorStruct], mons[m] = mon,
         \A k \in Monitors : k # m => mons[k] = monitor[k],
         Away(t, cur, RunnableThreads, tq, thr, mons),
         mon.owner = NIL => t # CurrentThread, mon.owner # NIL => Sound(mon),
         CurrentThread \in Threads => thr[CurrentThread].state \notin {Entering, Woken},
         addMonitorWait(m, mon, t, thr)
  PROVE  /\ Places(cur, RunnableThreads', tq, thread', monitor')
         /\ Kept(thr, thread') /\ fatal' = fatal /\ OnlyMonitor(m, mon)
<1>1. PICK queued \in MonitorStruct, waiting \in [Threads -> ThreadStruct] :
           QueuedFor(queued, waiting, m, mon, t, thr)
      BY AddMonitorWaitEffect
<1> USE DEF QueuedFor
<1> DEFINE mons2 == [mons EXCEPT ![m] = queued]
<1>2. /\ mons2 \in [Monitors -> MonitorStruct] /\ mons2[m] = queued
      /\ \A k \in Monitors : k # m => mons2[k] = mons[k]
      OBVIOUS
<1> HIDE DEF mons2
<1>3. mon.monitor_waitq \in Seq(Threads) /\ IsInjective(mon.monitor_waitq)
      /\ ~Contains(mon.monitor_waitq, t)
      BY DEF MonitorStruct, Away, Ordered
<1>4. /\ IsInjective(queued.monitor_waitq)
      /\ \A u : Contains(queued.monitor_waitq, u) <=> Contains(mon.monitor_waitq, u) \/ u = t
      /\ queued.monitor_waitq # <<>>
  <2>1. /\ IsInjective(queued.monitor_waitq)
        /\ \A u : Contains(queued.monitor_waitq, u) <=> Contains(mon.monitor_waitq, u) \/ u = t
        BY <1>1, <1>3, AppendEffect
  <2> QED
        BY <2>1, EmptyQueue
<1>5. waiting[t].state \in {Entering, Woken}
      BY <1>1, StateChanges DEF Away
<1>6. Places(cur, RunnableThreads, tq, waiting, mons2)
  <2>1. Ordered(RunnableThreads, tq, waiting, mons2)
    <3>1. \A u \in Threads : waiting[u].wakeup = thr[u].wakeup
          BY <1>1
    <3>2. [u \in Threads |-> waiting[u].wakeup] = [u \in Threads |-> thr[u].wakeup]
          BY <3>1
    <3>3. \A k \in Monitors : /\ IsInjective(mons2[k].monitor_waitq)
                              /\ IsInjective(mons2[k].condvar_waitq)
          BY <1>1, <1>2, <1>4 DEF Away, Ordered
    <3> QED
          BY <3>2, <3>3 DEF Away, Ordered
  <2>2. Placed(t, cur, RunnableThreads, tq, waiting, mons2)
    <3>1. \A k \in Monitors : /\ Contains(mons2[k].monitor_waitq, t) <=> k = m
                              /\ ~Contains(mons2[k].condvar_waitq, t)
          BY <1>1, <1>2, <1>4 DEF Away
    <3>2. /\ waiting[t].state \in Alive /\ waiting[t].state # Ready
          /\ waiting[t].state # Asleep /\ waiting[t].state # Waiting
          BY <1>5, StatesDiffer DEF Alive
    <3> QED
          BY <1>1, <1>5, <3>1, <3>2, CallsDiffer DEF Placed, Away
  <2>3. ASSUME NEW u \in Threads, u # t
        PROVE  Placed(u, cur, RunnableThreads, tq, waiting, mons2)
    <3>1. Placed(u, cur, RunnableThreads, tq, thr, mons) /\ waiting[u] = thr[u]
          BY <1>1, <2>3 DEF Away
    <3>2. \A k \in Monitors :
            /\ Contains(mons2[k].monitor_waitq, u) <=> Contains(mons[k].monitor_waitq, u)
            /\ Contains(mons2[k].condvar_waitq, u) <=> Contains(mons[k].condvar_waitq, u)
          BY <1>1, <1>2, <1>4, <2>3
    <3> QED
          BY <2>3, <3>1, <3>2 DEF Placed
  <2> QED
        BY <2>1, <2>2, <2>3 DEF Places
<1>7. Kept(thr, waiting)
  <2>1. thr[t].state \notin Lifeless /\ waiting[t].state \notin Lifeless
        BY <1>5, StatesDiffer DEF Alive, Away
  <2> QED
        BY <1>1, <2>1 DEF Kept
<1>8. CASE mon.owner = NIL /\ removeMonitorWait(m, queued, waiting)
  <2>1. CurrentThread \in Threads => waiting[CurrentThread].state \notin {Entering, Woken}
        BY <1>1, <1>8
  <2>2. /\ Places(cur, RunnableThreads', tq, thread', monitor')
        /\ Kept(waiting, thread') /\ fatal' = fatal /\ OnlyMonitor(m, queued)
    <3>1. \A k \in Monitors : k # m => mons2[k] = monitor[k]
          BY <1>2
    <3> QED
          BY <1>2, <1>6, <1>8, <2>1, <3>1, HandOverPlaces
  <2> QED
        BY <1>1, <1>7, <2>2 DEF Kept, OnlyMonitor
<1>9. CASE /\ mon.owner # NIL /\ thread' = waiting /\ UNCHANGED <<RunnableThreads, fatal>>
           /\ monitor'[m] = queued
           /\ \A k \in Monitors : k # m => monitor'[k] = monitor[k]
  <2>1. \A k \in Monitors : monitor'[k] = mons2[k]
        BY <1>2, <1>9
  <2>2. Ordered(RunnableThreads', tq, thread', monitor')
        BY <1>6, <1>9, <2>1 DEF Places, Ordered
  <2>3. ASSUME NEW u \in Threads PROVE Placed(u, cur, RunnableThreads', tq, thread', monitor')
        BY <1>6, <1>9, <2>1 DEF Places, Placed
  <2>4. OnlyMonitor(m, mon)
        BY <1>1, <1>9 DEF OnlyMonitor, Sound
  <2> QED
        BY <1>7, <1>9, <2>2, <2>3, <2>4 DEF Places
<1> QED
      BY <1>1, <1>8, <1>9

-----------------------------------------------------------------------------
LEMMA ContainsSet ==
  ASSUME NEW S, NEW q \in Seq(S)
  PROVE  \A u : Contains(q, u) <=> u \in ToSet(q)
BY DEF Contains, ToSet

LEMMA SortedSame ==
  ASSUME NEW S, NEW q \in Seq(S), NEW w, NEW w2, SortedBy(q, w),
         \A t \in S : Contains(q, t) => w2[t] = w[t]
  PROVE  SortedBy(q, w2)
<1>1. \A i \in 1..Len(q) : q[i] \in S /\ Contains(q, q[i])
      BY DEF Contains
<1> QED
      BY <1>1 DEF SortedBy

LEMMA CalmEffect ==
  ASSUME NEW thr \in [Threads -> ThreadStruct], NEW ts, NEW calm, calm = WithoutAlarm(thr, ts)
  PROVE  /\ calm \in [Threads -> ThreadStruct]
         /\ \A t \in Threads : t \notin ts => calm[t] = thr[t]
         /\ \A t \in Threads : t \in ts => calm[t].wakeup = 0 /\ calm[t].wakeupCall = NIL
         /\ \A t \in Threads :
              /\ calm[t].state = thr[t].state /\ calm[t].monitor = thr[t].monitor
              /\ calm[t].monitor_depth = thr[t].monitor_depth
              /\ calm[t].lockDepth = thr[t].lockDepth /\ calm[t].lockHash = thr[t].lockHash
              /\ calm[t].pendingException = thr[t].pendingException
<1>1. \A r \in ThreadStruct : [r EXCEPT !.wakeup = 0, !.wakeupCall = NIL] \in ThreadStruct
      BY DEF ThreadStruct
<1>2. calm = [t \in Threads |->
                IF t \in ts THEN [thr[t] EXCEPT !.wakeup = 0, !.wakeupCall = NIL] ELSE thr[t]]
      BY DEF WithoutAlarm
<1>3. calm \in [Threads -> ThreadStruct]
      BY <1>1, <1>2
<1>4. \A t \in Threads : t \notin ts => calm[t] = thr[t]
      BY <1>2
<1>5. ASSUME NEW t \in Threads, t \in ts
      PROVE  /\ calm[t].wakeup = 0 /\ calm[t].wakeupCall = NIL
             /\ calm[t].state = thr[t].state /\ calm[t].monitor = thr[t].monitor
             /\ calm[t].monitor_depth = thr[t].monitor_depth
             /\ calm[t].lockDepth = thr[t].lockDepth /\ calm[t].lockHash = thr[t].lockHash
             /\ calm[t].pendingException = thr[t].pendingException
  <2>1. calm[t] = [thr[t] EXCEPT !.wakeup = 0, !.wakeupCall = NIL]
        BY <1>2, <1>5
  <2> QED
        BY <2>1 DEF ThreadStruct
<1> QED
      BY <1>3, <1>4, <1>5

(* What removeCondvarWait computes: the first n waiters of m have moved to *)
(* its other queue.                                                        *)
MovedFor(left, waiting, woken, n, m, thr) ==
  /\ woken = SubSeq(monitor[m].condvar_waitq, 1, n)
  /\ left.owner = monitor[m].owner /\ left.depth = monitor[m].depth
  /\ left.hashCode = monitor[m].hashCode
  /\ left.condvar_waitq = SubSeq(monitor[m].condvar_waitq, n + 1, Len(monitor[m].condvar_waitq))
  /\ left.monitor_waitq = monitor[m].monitor_waitq \o woken
  /\ \A u \in Threads : ~Contains(woken, u) => waiting[u] = thr[u]
  /\ \A u \in Threads : Contains(woken, u) =>
       /\ waiting[u].state = thr[u].state \cup {"MONITOR_WAIT"} /\ waiting[u].monitor = m
       /\ waiting[u].wakeup = 0 /\ waiting[u].wakeupCall = NIL
       /\ waiting[u].monitor_depth = thr[u].monitor_depth
  /\ \A u \in Threads : /\ waiting[u].lockDepth = thr[u].lockDepth
                        /\ waiting[u].lockHash = thr[u].lockHash
  /\ TimerQueue' = removeThreads(TimerQueue, ToSet(woken))
  /\ \/ monitor[m].owner = NIL /\ n > 0 /\ removeMonitorWait(m, left, waiting)
     \/ /\ ~(monitor[m].owner = NIL /\ n > 0)
        /\ thread' = waiting /\ UNCHANGED <<RunnableThreads, fatal>>
        /\ monitor'[m] = left /\ \A k \in Monitors : k # m => monitor'[k] = monitor[k]

LEMMA RemoveCondvarWaitEffect ==
  ASSUME TypeOK, NEW thr \in [Threads -> ThreadStruct], NEW m \in Monitors,
         NEW n \in 0..Len(monitor[m].condvar_waitq), removeCondvarWait(m, n, thr)
  PROVE  \E left \in MonitorStruct, waiting \in [Threads -> ThreadStruct], woken \in Seq(Threads) :
           MovedFor(left, waiting, woken, n, m, thr)
<1> DEFINE mon   == monitor[m]
           woken == SubSeq(mon.condvar_waitq, 1, n)
           left  == [mon EXCEPT !.condvar_waitq = SubSeq(@, n + 1, Len(@)),
                                !.monitor_waitq = @ \o woken]
           calm  == WithoutAlarm(thr, ToSet(woken))
           waiting == [t \in Threads |->
             IF Contains(woken, t)
             THEN [calm[t] EXCEPT !.state = @ \cup {"MONITOR_WAIT"}, !.monitor = m]
             ELSE calm[t]]
<1>1. mon \in MonitorStruct
      BY DEF TypeOK
<1>2. /\ TimerQueue' = removePendingAlarms(ToSet(woken))
      /\ \/ monitor[m].owner = NIL /\ n > 0 /\ removeMonitorWait(m, left, waiting)
         \/ /\ ~(monitor[m].owner = NIL /\ n > 0)
            /\ monitor' = [monitor EXCEPT ![m] = left]
            /\ thread' = waiting /\ UNCHANGED <<RunnableThreads, fatal>>
      BY Zenon DEF removeCondvarWait
<1>3. mon.condvar_waitq \in Seq(Threads) /\ mon.monitor_waitq \in Seq(Threads)
      BY <1>1 DEF MonitorStruct
<1>4. woken \in Seq(Threads)
      /\ SubSeq(mon.condvar_waitq, n + 1, Len(mon.condvar_waitq)) \in Seq(Threads)
      BY <1>3, CutType
<1>5. woken = SubSeq(monitor[m].condvar_waitq, 1, n)
      OBVIOUS
<1> HIDE DEF woken
<1>6. left \in MonitorStruct
  <2>1. mon.monitor_waitq \o woken \in Seq(Threads)
        BY <1>3, <1>4
  <2> HIDE DEF mon
  <2> QED
        BY <1>1, <1>4, <2>1 DEF MonitorStruct
<1>7. /\ left.owner = monitor[m].owner /\ left.depth = monitor[m].depth
      /\ left.hashCode = monitor[m].hashCode
      /\ left.condvar_waitq = SubSeq(monitor[m].condvar_waitq, n + 1, Len(monitor[m].condvar_waitq))
      /\ left.monitor_waitq = monitor[m].monitor_waitq \o woken
      BY <1>1 DEF MonitorStruct
<1>8. /\ calm \in [Threads -> ThreadStruct]
      /\ \A t \in Threads : ~Contains(woken, t) => calm[t] = thr[t]
      /\ \A t \in Threads : Contains(woken, t) => calm[t].wakeup = 0 /\ calm[t].wakeupCall = NIL
      /\ \A t \in Threads :
           /\ calm[t].state = thr[t].state /\ calm[t].monitor_depth = thr[t].monitor_depth
           /\ calm[t].lockDepth = thr[t].lockDepth /\ calm[t].lockHash = thr[t].lockHash
  <2>1. \A t : Contains(woken, t) <=> t \in ToSet(woken)
        BY <1>4, ContainsSet
  <2> HIDE DEF calm
  <2>2. calm = WithoutAlarm(thr, ToSet(woken))
        BY DEF calm
  <2> QED
        BY <2>1, <2>2, CalmEffect
<1> HIDE DEF calm
<1>9. waiting \in [Threads -> ThreadStruct]
  <2>1. \A t \in Threads : calm[t] \in ThreadStruct
        BY <1>8
  <2>2. ASSUME NEW r \in ThreadStruct, NEW s \in SUBSET ThreadState
        PROVE  [r EXCEPT !.state = @ \cup s, !.monitor = m] \in ThreadStruct
        BY DEF ThreadStruct
  <2>3. \A t \in Threads :
          [calm[t] EXCEPT !.state = @ \cup {"MONITOR_WAIT"}, !.monitor = m] \in ThreadStruct
        BY <2>1, <2>2, NilAndStates
  <2> QED
        BY <2>1, <2>3
<1>10. \A u \in Threads : ~Contains(woken, u) => waiting[u] = thr[u]
      BY <1>8
<1>11. ASSUME NEW u \in Threads, Contains(woken, u)
       PROVE  /\ waiting[u].state = thr[u].state \cup {"MONITOR_WAIT"} /\ waiting[u].monitor = m
              /\ waiting[u].wakeup = 0 /\ waiting[u].wakeupCall = NIL
              /\ waiting[u].monitor_depth = thr[u].monitor_depth
              /\ waiting[u].lockDepth = thr[u].lockDepth /\ waiting[u].lockHash = thr[u].lockHash
  <2>1. waiting[u] = [calm[u] EXCEPT !.state = @ \cup {"MONITOR_WAIT"}, !.monitor = m]
        BY <1>11
  <2>2. calm[u] \in ThreadStruct
        BY <1>8
  <2>3. /\ waiting[u].state = calm[u].state \cup {"MONITOR_WAIT"} /\ waiting[u].monitor = m
        /\ waiting[u].wakeup = calm[u].wakeup /\ waiting[u].wakeupCall = calm[u].wakeupCall
        /\ waiting[u].monitor_depth = calm[u].monitor_depth
        /\ waiting[u].lockDepth = calm[u].lockDepth /\ waiting[u].lockHash = calm[u].lockHash
        BY <2>1, <2>2 DEF ThreadStruct
  <2> HIDE DEF waiting
  <2> QED
        BY <1>8, <1>11, <2>3
<1> HIDE DEF left, waiting, mon
<1>12. monitor' = [monitor EXCEPT ![m] = left]
         => monitor'[m] = left /\ \A k \in Monitors : k # m => monitor'[k] = monitor[k]
      BY DEF TypeOK
<1>13. MovedFor(left, waiting, woken, n, m, thr)
      BY <1>2, <1>5, <1>7, <1>10, <1>11, <1>12, Zenon DEF MovedFor, removePendingAlarms
<1> QED
      BY <1>4, <1>6, <1>9, <1>13

LEMMA RemoveCondvarWaitPlaces ==
  ASSUME TypeOK, NEW thr \in [Threads -> ThreadStruct], NEW m \in Monitors,
         NEW n \in 0..Len(monitor[m].condvar_waitq), NEW cur,
         Places(cur, RunnableThreads, TimerQueue, thr, monitor),
         CurrentThread \in Threads => thr[CurrentThread].state \notin {Entering, Waiting, Woken},
         Sound(monitor[m]),
         removeCondvarWait(m, n, thr)
  PROVE  /\ Places(cur, RunnableThreads', TimerQueue', thread', monitor')
         /\ Kept(thr, thread') /\ fatal' = fatal /\ OnlyMonitor(m, monitor[m])
<1>1. PICK left \in MonitorStruct, waiting \in [Threads -> ThreadStruct], woken \in Seq(Threads) :
           MovedFor(left, waiting, woken, n, m, thr)
      BY RemoveCondvarWaitEffect
<1> USE DEF MovedFor
<1> DEFINE mons == [monitor EXCEPT ![m] = left]
           c == monitor[m].condvar_waitq
           q == monitor[m].monitor_waitq
           r == SubSeq(c, n + 1, Len(c))
<1>2. /\ mons \in [Monitors -> MonitorStruct] /\ mons[m] = left
      /\ \A k \in Monitors : k # m => mons[k] = monitor[k]
      BY DEF TypeOK
<1> HIDE DEF mons
<1>3. /\ c \in Seq(Threads) /\ q \in Seq(Threads) /\ IsInjective(c) /\ IsInjective(q)
  <2>1. monitor[m] \in MonitorStruct
        BY DEF TypeOK
  <2> QED
        BY <2>1 DEF MonitorStruct, Places, Ordered
<1>4. /\ woken = SubSeq(c, 1, n) /\ left.condvar_waitq = r /\ left.monitor_waitq = q \o woken
      BY <1>1
<1>5. \A u \in Threads : Placed(u, cur, RunnableThreads, TimerQueue, thr, monitor)
      BY DEF Places
<1> HIDE DEF c, q, r
<1>6. /\ IsInjective(woken) /\ IsInjective(r)
      /\ \A u : /\ Contains(c, u) <=> Contains(woken, u) \/ Contains(r, u)
                /\ ~(Contains(woken, u) /\ Contains(r, u))
      BY <1>3, <1>4, CutEffect DEF c, r
<1>7. \A u \in Threads : Contains(woken, u) => thr[u].state = Waiting /\ thr[u].monitor = m
      BY <1>5, <1>6 DEF Placed, c
<1>8. \A u \in Threads : Contains(q, u) => thr[u].state \in {Entering, Woken}
      BY <1>5 DEF Placed, q
<1>9. \A u : Contains(q, u) \/ Contains(woken, u) => u \in Threads
      BY <1>1, <1>3 DEF Contains
<1>10. /\ \A u : Contains(left.monitor_waitq, u) <=> Contains(q, u) \/ Contains(woken, u)
       /\ IsInjective(left.monitor_waitq)
  <2>1. \A u : ~(Contains(q, u) /\ Contains(woken, u))
        BY <1>7, <1>8, <1>9, StatesDiffer
  <2>2. /\ \A u : Contains(q \o woken, u) <=> Contains(q, u) \/ Contains(woken, u)
        /\ IsInjective(q \o woken)
        BY <1>3, <1>6, <2>1, ConcatEffect
  <2> QED
        BY <1>4, <2>2
<1>11. /\ PartOf(TimerQueue', TimerQueue) /\ TimerQueue' \in Seq(Threads)
       /\ \A u : Contains(TimerQueue', u) <=> Contains(TimerQueue, u) /\ ~Contains(woken, u)
  <2>1. TimerQueue' = removeThreads(TimerQueue, ToSet(woken)) /\ TimerQueue \in Seq(Threads)
        BY <1>1 DEF TypeOK
  <2>2. \A u : Contains(woken, u) <=> u \in ToSet(woken)
        BY <1>1, ContainsSet
  <2> QED
        BY <2>1, <2>2, RemoveThreadsEffect, RemoveThreadsType
<1>12. \A u \in Threads : Contains(woken, u) => waiting[u].state = Woken
      BY <1>1, <1>7, StateChanges
<1>13. Places(cur, RunnableThreads, TimerQueue', waiting, mons)
  <2>1. Ordered(RunnableThreads, TimerQueue', waiting, mons)
    <3>1. IsInjective(TimerQueue')
          BY <1>11, PartEffect DEF Places, Ordered, TypeOK
    <3>2. SortedBy(TimerQueue', [u \in Threads |-> thr[u].wakeup])
          BY <1>11, PartEffect DEF Places, Ordered, TypeOK
    <3> DEFINE w == [v \in Threads |-> thr[v].wakeup]
               w2 == [v \in Threads |-> waiting[v].wakeup]
    <3>3. \A u \in Threads : Contains(TimerQueue', u) => w2[u] = w[u]
          BY <1>1, <1>11
    <3>4. SortedBy(TimerQueue', w2)
      <4> HIDE DEF w2
      <4>1. SortedBy(TimerQueue', w)
            BY <3>2
      <4> HIDE DEF w
      <4> QED
            BY <1>11, <3>3, <4>1, SortedSame
    <3>5. \A k \in Monitors : /\ IsInjective(mons[k].monitor_waitq)
                              /\ IsInjective(mons[k].condvar_waitq)
          BY <1>2, <1>4, <1>6, <1>10 DEF Places, Ordered
    <3> QED
          BY <3>1, <3>4, <3>5 DEF Places, Ordered
  <2>2. ASSUME NEW u \in Threads, Contains(woken, u)
        PROVE  Placed(u, cur, RunnableThreads, TimerQueue', waiting, mons)
    <3>1. Placed(u, cur, RunnableThreads, TimerQueue, thr, monitor)
          /\ thr[u].state = Waiting /\ thr[u].monitor = m
          BY <1>5, <1>7, <2>2
    <3>2. \A k \in Monitors : /\ Contains(mons[k].monitor_waitq, u) <=> k = m
                              /\ ~Contains(mons[k].condvar_waitq, u)
          BY <1>2, <1>4, <1>6, <1>10, <2>2, <3>1, StatesDiffer DEF Placed, c
    <3>3. /\ waiting[u].state = Woken /\ waiting[u].monitor = m /\ waiting[u].wakeupCall = NIL
          /\ waiting[u].monitor_depth = thr[u].monitor_depth
          /\ waiting[u].lockDepth = thr[u].lockDepth
          BY <1>1, <1>12, <2>2
    <3>4. Woken \in Alive
          BY DEF Alive
    <3> QED
          BY <1>11, <2>2, <3>1, <3>2, <3>3, <3>4, StatesDiffer, CallsDiffer DEF Placed
  <2>3. ASSUME NEW u \in Threads, ~Contains(woken, u)
        PROVE  Placed(u, cur, RunnableThreads, TimerQueue', waiting, mons)
    <3>1. Placed(u, cur, RunnableThreads, TimerQueue, thr, monitor) /\ waiting[u] = thr[u]
          BY <1>1, <1>5, <2>3
    <3>2. \A k \in Monitors :
            /\ Contains(mons[k].monitor_waitq, u) <=> Contains(monitor[k].monitor_waitq, u)
            /\ Contains(mons[k].condvar_waitq, u) <=> Contains(monitor[k].condvar_waitq, u)
          BY <1>2, <1>4, <1>6, <1>10, <2>3 DEF c, q
    <3> QED
          BY <1>11, <2>3, <3>1, <3>2 DEF Placed
  <2> QED
        BY <2>1, <2>2, <2>3 DEF Places
<1>14. Kept(thr, waiting)
  <2>1. \A u \in Threads : Contains(woken, u) =>
          thr[u].state \notin Lifeless /\ waiting[u].state \notin Lifeless
        BY <1>7, <1>12, StatesDiffer DEF Alive
  <2> QED
        BY <1>1, <2>1 DEF Kept
<1>15. CASE monitor[m].owner = NIL /\ n > 0 /\ removeMonitorWait(m, left, waiting)
  <2>1. CurrentThread \in Threads => waiting[CurrentThread].state \notin {Entering, Woken}
        BY <1>1, <1>7
  <2>2. \A k \in Monitors : k # m => mons[k] = monitor[k]
        BY <1>2
  <2>3. /\ Places(cur, RunnableThreads', TimerQueue', thread', monitor')
        /\ Kept(waiting, thread') /\ fatal' = fatal /\ OnlyMonitor(m, left)
        BY <1>2, <1>11, <1>13, <1>15, <2>1, <2>2, HandOverPlaces
  <2> QED
        BY <1>1, <1>14, <2>3 DEF Kept, OnlyMonitor
<1>16. CASE /\ ~(monitor[m].owner = NIL /\ n > 0)
            /\ thread' = waiting /\ UNCHANGED <<RunnableThreads, fatal>>
            /\ monitor'[m] = left /\ \A k \in Monitors : k # m => monitor'[k] = monitor[k]
  <2>1. \A k \in Monitors : monitor'[k] = mons[k]
        BY <1>2, <1>16
  <2>2. Ordered(RunnableThreads', TimerQueue', thread', monitor')
        BY <1>13, <1>16, <2>1 DEF Places, Ordered
  <2>3. ASSUME NEW u \in Threads
        PROVE  Placed(u, cur, RunnableThreads', TimerQueue', thread', monitor')
        BY <1>13, <1>16, <2>1 DEF Places, Placed
  <2>4. monitor'[m].owner = NIL => monitor'[m].monitor_waitq = <<>>
    <3> SUFFICES ASSUME monitor[m].owner = NIL PROVE left.monitor_waitq = <<>>
        BY <1>1, <1>16
    <3>1. n = 0 /\ q = <<>>
          BY <1>16 DEF q, Sound
    <3>2. woken = <<>>
          BY <1>3, <1>4, <3>1
    <3> QED
          BY <1>4, <3>1, <3>2
  <2>5. OnlyMonitor(m, monitor[m])
        BY <1>1, <1>16, <2>4 DEF OnlyMonitor, Sound
  <2> QED
        BY <1>14, <1>16, <2>2, <2>3, <2>5 DEF Places
<1> QED
      BY <1>1, <1>15, <1>16

(* registerAlarm puts the thread where its alarm belongs.                  *)
LEMMA RegisterEffect ==
  ASSUME TypeOK, NEW t \in Threads, NEW delta \in Nat, delta # 0,
         IsInjective(TimerQueue), ~Contains(TimerQueue, t),
         SortedBy(TimerQueue, [u \in Threads |-> thread[u].wakeup]),
         NEW w \in [Threads -> Nat], w[t] = delta,
         \A u \in Threads : u # t => w[u] = thread[u].wakeup,
         NEW r, r = registerAlarm(t, delta)
  PROVE  /\ r \in Seq(Threads) /\ IsInjective(r) /\ SortedBy(r, w)
         /\ \A u : Contains(r, u) <=> Contains(TimerQueue, u) \/ u = t
<1> DEFINE q == TimerQueue
           later == {i \in 1..Len(q) : thread[q[i]].wakeup >= delta}
<1>1. q \in Seq(Threads) /\ \A i \in 1..Len(q) : q[i] \in Threads /\ q[i] # t
      BY DEF TypeOK, Contains
<1>2. \A i \in 1..Len(q) : w[q[i]] \in Nat /\ w[q[i]] = thread[q[i]].wakeup
      BY <1>1
<1>3. \A i, j \in 1..Len(q) : i < j => w[q[i]] <= w[q[j]]
  <2>1. \A i, j \in 1..Len(q) : i < j => thread[q[i]].wakeup <= thread[q[j]].wakeup
        BY <1>1 DEF SortedBy
  <2> QED
        BY <1>2, <2>1
<1>4. \A i \in 1..Len(q) : i \in later <=> w[q[i]] >= delta
      BY <1>2
<1>5. r = IF later = {} THEN Append(q, t) ELSE InsertAt(q, Min(later), t)
      BY DEF registerAlarm
<1>6. later \subseteq 1..Len(q)
      OBVIOUS
<1>7. IsInjective(q) /\ ~Contains(q, t)
      OBVIOUS
<1> HIDE DEF q, later
<1>8. CASE later = {}
  <2>1. r = Append(q, t) /\ \A i \in 1..Len(q) : w[q[i]] < delta
        BY <1>2, <1>4, <1>5, <1>8
  <2>2. /\ IsInjective(r) /\ \A u : Contains(r, u) <=> Contains(q, u) \/ u = t
    <3>1. /\ addThreadToQueue(q, t) = Append(q, t) /\ IsInjective(addThreadToQueue(q, t))
          /\ \A u : Contains(addThreadToQueue(q, t), u) <=> Contains(q, u) \/ u = t
          BY <1>1, <1>7, AppendEffect
    <3> QED
          BY <2>1, <3>1
  <2>3. /\ r \in Seq(Threads) /\ Len(r) = Len(q) + 1 /\ r[Len(q) + 1] = t
        /\ \A i \in 1..Len(q) : r[i] = q[i]
        BY <1>1, <2>1
  <2>4. SortedBy(r, w)
    <3> SUFFICES ASSUME NEW i \in 1..(Len(q) + 1), NEW j \in 1..(Len(q) + 1), i < j
                 PROVE  w[r[i]] <= w[r[j]]
        BY <2>3 DEF SortedBy
    <3>1. i \in 1..Len(q) /\ Len(q) \in Nat
          BY <1>1
    <3>2. CASE j \in 1..Len(q)
          BY <1>3, <2>3, <3>1, <3>2
    <3>3. CASE j = Len(q) + 1
          BY <1>2, <2>1, <2>3, <3>1, <3>3
    <3> QED
          BY <3>1, <3>2, <3>3, SMTT(30)
  <2> QED
        BY <2>2, <2>3, <2>4 DEF q
<1>9. CASE later # {}
  <2> DEFINE k == Min(later)
  <2>1. k \in later /\ \A i \in later : k <= i
    <3>1. later \subseteq Nat
          BY <1>6
    <3> QED
          BY <1>9, <3>1, MinLemma
  <2>2. r = InsertAt(q, k, t) /\ k \in 1..Len(q)
        BY <1>5, <1>6, <1>9, <2>1
  <2> HIDE DEF k
  <2>3. /\ Len(r) = Len(q) + 1
        /\ \A j \in 1..(Len(q) + 1) : r[j] = IF j < k THEN q[j] ELSE IF j = k THEN t ELSE q[j - 1]
        /\ \A u : Contains(r, u) <=> Contains(q, u) \/ u = t
        /\ IsInjective(r)
        BY <1>1, <1>7, <2>2, InsertEffect
  <2>4. r \in Seq(Threads)
        BY <1>1, <2>2, InsertType
  <2>5. ASSUME NEW i \in 1..Len(q), i < k PROVE w[q[i]] < delta
        BY <1>2, <1>4, <1>6, <2>1, <2>2, <2>5
  <2>6. ASSUME NEW i \in 1..Len(q), i >= k PROVE w[q[i]] >= delta
    <3>1. w[q[k]] >= delta
          BY <1>4, <2>1, <2>2
    <3>2. CASE i = k
          BY <3>1, <3>2
    <3>3. CASE k < i
          BY <1>2, <1>3, <2>2, <3>1, <3>3
    <3> QED
          BY <2>2, <2>6, <3>2, <3>3
  <2>7. SortedBy(r, w)
    <3> SUFFICES ASSUME NEW i \in 1..(Len(q) + 1), NEW j \in 1..(Len(q) + 1), i < j
                 PROVE  w[r[i]] <= w[r[j]]
        BY <2>3 DEF SortedBy
    <3>1. Len(q) \in Nat /\ k \in Nat
          BY <1>1, <2>2
    <3>2. CASE j < k
      <4>1. i \in 1..Len(q) /\ j \in 1..Len(q) /\ i < k
            BY <2>2, <3>1, <3>2
      <4> QED
            BY <1>3, <2>3, <3>2, <4>1
    <3>3. CASE j = k
      <4>1. i \in 1..Len(q) /\ i < k
            BY <2>2, <3>1, <3>3
      <4>2. w[q[i]] < delta /\ w[q[i]] \in Nat
            BY <1>2, <2>5, <4>1
      <4> QED
            BY <2>3, <3>3, <4>1, <4>2
    <3>4. CASE j > k /\ i < k
      <4>1. i \in 1..Len(q) /\ j - 1 \in 1..Len(q) /\ i < j - 1
            BY <2>2, <3>1, <3>4
      <4>2. r[i] = q[i] /\ r[j] = q[j - 1]
            BY <2>3, <3>1, <3>4
      <4> QED
            BY <1>3, <4>1, <4>2
    <3>5. CASE j > k /\ i = k
      <4>1. j - 1 \in 1..Len(q) /\ j - 1 >= k
            BY <2>2, <3>1, <3>5
      <4>2. r[i] = t /\ r[j] = q[j - 1]
            BY <2>3, <3>1, <3>5
      <4> QED
            BY <2>6, <4>1, <4>2
    <3>6. CASE i > k
      <4>1. i - 1 \in 1..Len(q) /\ j - 1 \in 1..Len(q) /\ i - 1 < j - 1
            BY <2>2, <3>1, <3>6
      <4>2. r[i] = q[i - 1] /\ r[j] = q[j - 1]
            BY <2>3, <3>1, <3>6
      <4> QED
            BY <1>3, <4>1, <4>2
    <3> QED
          BY <3>1, <3>2, <3>3, <3>4, <3>5, <3>6
  <2> QED
        BY <2>3, <2>4, <2>7 DEF q
<1> QED
      BY <1>8, <1>9

(* Two tables that tell the same of where the threads are.                 *)
SamePlace(thr, thr2) ==
  \A t \in Threads :
    /\ thr2[t].state = thr[t].state
    /\ thr2[t].monitor = thr[t].monitor /\ thr2[t].monitor_depth = thr[t].monitor_depth
    /\ thr2[t].wakeup = thr[t].wakeup /\ thr2[t].wakeupCall = thr[t].wakeupCall
    /\ thr2[t].pendingException = thr[t].pendingException

SameQueues(mons, mons2) ==
  \A k \in Monitors : /\ mons2[k].monitor_waitq = mons[k].monitor_waitq
                      /\ mons2[k].condvar_waitq = mons[k].condvar_waitq

LEMMA PlacesSame ==
  ASSUME NEW cur, NEW run, NEW tq, NEW thr, NEW thr2, NEW mons, NEW mons2,
         Places(cur, run, tq, thr, mons), SamePlace(thr, thr2), SameQueues(mons, mons2),
         \A t \in Threads : thr2[t].lockDepth <= MaxDepth
  PROVE  Places(cur, run, tq, thr2, mons2)
<1>1. [t \in Threads |-> thr2[t].wakeup] = [t \in Threads |-> thr[t].wakeup]
      BY DEF SamePlace
<1>2. Ordered(run, tq, thr2, mons2)
      BY <1>1 DEF Places, Ordered, SameQueues
<1>3. ASSUME NEW t \in Threads PROVE Placed(t, cur, run, tq, thr2, mons2)
  <2>1. Placed(t, cur, run, tq, thr, mons)
        BY DEF Places
  <2> QED
        BY <2>1 DEF Placed, SamePlace, SameQueues
<1> QED
      BY <1>2, <1>3 DEF Places

(* The extended lock that inflating gives back.                            *)
LEMMA AfterUpgradeEffect ==
  ASSUME TypeOK, NEW o \in Objects
  PROVE  /\ AfterUpgrade(o) \in [Threads -> ThreadStruct] /\ SamePlace(thread, AfterUpgrade(o))
         /\ \A t \in Threads :
              /\ AfterUpgrade(o)[t].lockHash = thread[t].lockHash
              /\ AfterUpgrade(o)[t].isPendingInterrupt = thread[t].isPendingInterrupt
              /\ AfterUpgrade(o)[t].lockDepth
                   = IF mhc[o] = Extended(t) THEN 0 ELSE thread[t].lockDepth
<1>1. thread \in [Threads -> ThreadStruct] /\ mhc[o] \in MHC
      BY DEF TypeOK
<1>2. CASE mhc[o].tag = "EXTENDED_LOCK"
  <2> DEFINE u == mhc[o].thread
             thr == [thread EXCEPT ![u].lockDepth = 0]
  <2>1. u \in Threads /\ mhc[o] = Extended(u) /\ AfterUpgrade(o) = thr
        BY <1>1, <1>2, WordCases DEF AfterUpgrade
  <2>2. \A t \in Threads : mhc[o] = Extended(t) <=> t = u
        BY <2>1, WordsDiffer
  <2> HIDE DEF u
  <2>3. \A t \in Threads : t # u => thr[t] = thread[t]
        BY <1>1, <2>1
  <2>4. thr[u] = [thread[u] EXCEPT !.lockDepth = 0] /\ thread[u] \in ThreadStruct
        BY <1>1, <2>1
  <2>5. /\ thr[u] \in ThreadStruct /\ thr[u].lockDepth = 0
        /\ thr[u].state = thread[u].state /\ thr[u].monitor = thread[u].monitor
        /\ thr[u].monitor_depth = thread[u].monitor_depth
        /\ thr[u].wakeup = thread[u].wakeup /\ thr[u].wakeupCall = thread[u].wakeupCall
        /\ thr[u].pendingException = thread[u].pendingException
        /\ thr[u].lockHash = thread[u].lockHash
        /\ thr[u].isPendingInterrupt = thread[u].isPendingInterrupt
        BY <2>4 DEF ThreadStruct
  <2>6. thr \in [Threads -> ThreadStruct]
        BY <1>1, <2>4, <2>5
  <2> HIDE DEF thr
  <2> QED
        BY <2>1, <2>2, <2>3, <2>5, <2>6 DEF SamePlace
<1>3. CASE mhc[o].tag # "EXTENDED_LOCK"
  <2>1. AfterUpgrade(o) = thread
        BY <1>3 DEF AfterUpgrade
  <2>2. \A t \in Threads : mhc[o] # Extended(t)
        BY <1>3, WordsDiffer
  <2> QED
        BY <1>1, <2>1, <2>2 DEF SamePlace
<1> QED
      BY <1>2, <1>3

-----------------------------------------------------------------------------
(* Monitors that serve one object                                          *)

Serves(word, m) == \E o \in Objects : word[o] = Real(m)

UniqueWords(word, cache) ==
  /\ \A o, p \in Objects : word[o].tag = "MONITOR" /\ word[p] = word[o] => o = p
  /\ IsInjective(cache) /\ \A m \in Monitors : Contains(cache, m) => ~Serves(word, m)

IsClean(mon) == /\ mon.owner = NIL /\ mon.depth = 0
                /\ mon.monitor_waitq = <<>> /\ mon.condvar_waitq = <<>>

LEMMA CleanMonitor ==
  ASSUME NEW mon \in MonitorStruct
  PROVE  [mon EXCEPT !.hashCode = 0] = EmptyMonitor <=> IsClean(mon)
BY DEF MonitorStruct, EmptyMonitor, IsClean

LinkedTo(word) == {word[o].monitor : o \in {p \in Objects : word[p].tag = "MONITOR"}}

LEMMA LinkedServes ==
  ASSUME NEW word \in [Objects -> MHC], NEW m
  PROVE  m \in LinkedTo(word) <=> m \in Monitors /\ Serves(word, m)
<1>1. \A o \in Objects : word[o] \in MHC
      OBVIOUS
<1>2. ASSUME m \in LinkedTo(word) PROVE m \in Monitors /\ Serves(word, m)
      BY <1>1, <1>2, WordCases DEF LinkedTo, Serves
<1>3. ASSUME NEW o \in Objects, word[o] = Real(m) PROVE m \in LinkedTo(word)
      BY <1>3 DEF LinkedTo, Real
<1> QED
      BY <1>2, <1>3 DEF Serves

LEMMA UniqueIn ==
  ASSUME NEW word \in [Objects -> MHC], NEW cache \in Seq(Monitors),
         NEW mons \in [Monitors -> MonitorStruct]
  PROVE  ( /\ \A o, p \in Objects : word[o].tag = "MONITOR" /\ word[p] = word[o] => o = p
           /\ ToSet(cache) \cap LinkedTo(word) = {}
           /\ IsInjective(cache)
           /\ \A m \in Monitors \ LinkedTo(word) : [mons[m] EXCEPT !.hashCode = 0] = EmptyMonitor )
         <=> /\ UniqueWords(word, cache)
             /\ \A m \in Monitors : ~Serves(word, m) => IsClean(mons[m])
<1>1. \A m \in Monitors : mons[m] \in MonitorStruct
      OBVIOUS
<1>2. \A m : m \in LinkedTo(word) <=> m \in Monitors /\ Serves(word, m)
      BY LinkedServes
<1>3. \A m : Contains(cache, m) <=> m \in ToSet(cache)
      BY ContainsSet
<1>4. \A m \in Monitors : [mons[m] EXCEPT !.hashCode = 0] = EmptyMonitor <=> IsClean(mons[m])
      BY <1>1, CleanMonitor
<1>5. (\A m \in Monitors \ LinkedTo(word) : [mons[m] EXCEPT !.hashCode = 0] = EmptyMonitor)
        <=> \A m \in Monitors : ~Serves(word, m) => IsClean(mons[m])
      BY <1>2, <1>4, Zenon
<1>6. ToSet(cache) \cap LinkedTo(word) = {}
        <=> \A m \in Monitors : Contains(cache, m) => ~Serves(word, m)
      BY <1>2, <1>3
<1> QED
      BY <1>5, <1>6, Zenon DEF UniqueWords

LEMMA UniqueParts ==
  ASSUME TypeOK
  PROVE  MonitorUnique <=> /\ UniqueWords(mhc, MonitorCache)
                           /\ \A m \in Monitors : ~Serves(mhc, m) => IsClean(monitor[m])
<1>1. /\ mhc \in [Objects -> MHC] /\ MonitorCache \in Seq(Monitors)
      /\ monitor \in [Monitors -> MonitorStruct] /\ Attached = LinkedTo(mhc)
      BY DEF TypeOK, Attached, LinkedTo
<1> QED
      BY <1>1, UniqueIn, Zenon DEF MonitorUnique

LEMMA UniquePartsNext ==
  ASSUME TypeOK'
  PROVE  MonitorUnique' <=> /\ UniqueWords(mhc', MonitorCache')
                            /\ \A m \in Monitors : ~Serves(mhc', m) => IsClean(monitor'[m])
<1>1. /\ mhc' \in [Objects -> MHC] /\ MonitorCache' \in Seq(Monitors)
      /\ monitor' \in [Monitors -> MonitorStruct] /\ Attached' = LinkedTo(mhc')
      BY DEF TypeOK, Attached, LinkedTo
<1> QED
      BY <1>1, UniqueIn, Zenon DEF MonitorUnique

(* Inflating the lock of o: it gets a monitor that served nobody, with the *)
(* lock and the hash code of o, or keeps the one it has.                   *)
LEMMA AttachEffect ==
  ASSUME TypeOK, MonitorUnique, NEW o \in Objects, NEW m \in Monitors, Attach(o, m)
  PROVE  /\ mhc' \in [Objects -> MHC] /\ mhc'[o] = Real(m)
         /\ \A p \in Objects : p # o => mhc'[p] = mhc[p]
         /\ UniqueWords(mhc', MonitorCache')
         /\ \A k : Serves(mhc', k) <=> Serves(mhc, k) \/ k = m
         /\ \/ mhc[o] = Real(m) /\ Inflated(o, m) = monitor[m]
            \/ mhc[o].tag # "MONITOR" /\ ~Serves(mhc, m)
         /\ Inflated(o, m) \in MonitorStruct
         /\ Inflated(o, m).owner = Owner(o) /\ Inflated(o, m).depth = Depth(o)
         /\ Inflated(o, m).hashCode = StoredHash(o)
         /\ Inflated(o, m).monitor_waitq = monitor[m].monitor_waitq
         /\ Inflated(o, m).condvar_waitq = monitor[m].condvar_waitq
<1>1. /\ mhc \in [Objects -> MHC] /\ mhc[o] \in MHC /\ MonitorCache \in Seq(Monitors)
      /\ monitor[m] \in MonitorStruct
      BY DEF TypeOK
<1>2. /\ UniqueWords(mhc, MonitorCache)
      /\ \A k \in Monitors : ~Serves(mhc, k) => IsClean(monitor[k])
      BY UniqueParts
<1>3. /\ ChosenMonitor(o, m) /\ mhc' = [mhc EXCEPT ![o] = Real(m)]
      /\ MonitorCache' = IF mhc[o].tag = "MONITOR" THEN MonitorCache
                         ELSE removeQueueStart(MonitorCache)
      BY DEF Attach
<1>4. /\ mhc' \in [Objects -> MHC] /\ mhc'[o] = Real(m)
      /\ \A p \in Objects : p # o => mhc'[p] = mhc[p]
      BY <1>1, <1>3, WordTypes
<1>5. Inflated(o, m) \in MonitorStruct
      BY InflatedType
<1>6. CASE mhc[o].tag = "MONITOR"
  <2>1. mhc[o] = Real(m) /\ Inflated(o, m) = monitor[m] /\ MonitorCache' = MonitorCache
        BY <1>1, <1>3, <1>6, WordCases DEF ChosenMonitor, Inflated
  <2>2. mhc' = mhc
        BY <1>1, <1>3, <2>1
  <2>3. Serves(mhc, m)
        BY <2>1 DEF Serves
  <2>4. Owner(o) = monitor[m].owner /\ Depth(o) = monitor[m].depth
        /\ StoredHash(o) = monitor[m].hashCode
        BY <1>6, <2>1 DEF Owner, Depth, StoredHash, Real
  <2> QED
        BY <1>2, <1>4, <1>5, <2>1, <2>2, <2>3, <2>4
<1>7. CASE mhc[o].tag # "MONITOR"
  <2>1. ~Serves(mhc, m) /\ (MonitorCache # <<>> => m = Head(MonitorCache))
    <3>1. CASE MonitorCache # <<>>
      <4>1. m = Head(MonitorCache) /\ Contains(MonitorCache, m)
            BY <1>1, <1>3, <1>7, <3>1, EmptyQueue DEF ChosenMonitor
      <4> QED
            BY <1>2, <4>1 DEF UniqueWords
    <3>2. CASE MonitorCache = <<>>
      <4>1. m \notin Attached
            BY <1>3, <1>7, <3>2 DEF ChosenMonitor, InHeap
      <4>2. Attached = LinkedTo(mhc)
            BY DEF Attached, LinkedTo
      <4> QED
            BY <1>1, <3>2, <4>1, <4>2, LinkedServes
    <3> QED
          BY <3>1, <3>2
  <2>2. \A k : Serves(mhc', k) <=> Serves(mhc, k) \/ k = m
    <3>1. \A k : mhc[o] # Real(k)
          BY <1>7, WordsDiffer
    <3>2. \A k : Real(m) = Real(k) <=> k = m
          BY DEF Real
    <3> QED
          BY <1>4, <3>1, <3>2 DEF Serves
  <2>3. UniqueWords(mhc', MonitorCache')
    <3>1. ASSUME NEW p \in Objects, NEW p2 \in Objects,
                 mhc'[p].tag = "MONITOR", mhc'[p2] = mhc'[p]
          PROVE  p = p2
          BY <1>2, <1>4, <2>1, <3>1 DEF UniqueWords, Serves
    <3>2. IsInjective(MonitorCache') /\ \A k : Contains(MonitorCache', k) => Contains(MonitorCache, k)
      <4>1. CASE MonitorCache = <<>>
            BY <1>2, <1>3, <1>7, <4>1 DEF UniqueWords, removeQueueStart
      <4>2. CASE MonitorCache # <<>>
        <5>1. MonitorCache' = Tail(MonitorCache) /\ Tail(MonitorCache) \in Seq(Monitors)
              /\ PartOf(Tail(MonitorCache), MonitorCache)
              BY <1>1, <1>3, <1>7, <4>2, TailEffect
        <5> QED
              BY <1>1, <1>2, <5>1, PartEffect DEF UniqueWords
      <4> QED
            BY <4>1, <4>2
    <3>3. ~Contains(MonitorCache', m)
      <4>1. CASE MonitorCache = <<>>
            BY <1>3, <1>7, <4>1, EmptyQueue DEF removeQueueStart
      <4>2. CASE MonitorCache # <<>>
        <5>1. MonitorCache' = Tail(MonitorCache) /\ m = Head(MonitorCache)
              BY <1>1, <1>3, <1>7, <2>1, <4>2 DEF removeQueueStart
        <5> QED
              BY <1>1, <1>2, <4>2, <5>1, TailEffect DEF UniqueWords
      <4> QED
            BY <4>1, <4>2
    <3> QED
          BY <1>2, <2>2, <3>1, <3>2, <3>3 DEF UniqueWords
  <2>4. /\ Inflated(o, m).owner = Owner(o) /\ Inflated(o, m).depth = Depth(o)
        /\ Inflated(o, m).hashCode = StoredHash(o)
        /\ Inflated(o, m).monitor_waitq = monitor[m].monitor_waitq
        /\ Inflated(o, m).condvar_waitq = monitor[m].condvar_waitq
    <3>1. IsClean(monitor[m])
          BY <1>2, <2>1
    <3>2. CASE MonitorCache = <<>>
      <4>1. Inflated(o, m) = [EmptyMonitor EXCEPT !.owner = Owner(o), !.depth = Depth(o),
                                                  !.hashCode = StoredHash(o)]
            BY <1>7, <3>2 DEF Inflated
      <4> QED
            BY <3>1, <4>1 DEF EmptyMonitor, IsClean
    <3>3. CASE MonitorCache # <<>>
      <4>1. Inflated(o, m) = [monitor[m] EXCEPT !.owner = Owner(o), !.depth = Depth(o),
                                                !.hashCode = StoredHash(o)]
            BY <1>7, <3>3 DEF Inflated
      <4> QED
            BY <1>1, <4>1 DEF MonitorStruct
    <3> QED
          BY <3>2, <3>3
  <2> QED
        BY <1>4, <1>5, <1>7, <2>1, <2>2, <2>3, <2>4
<1> QED
      BY <1>6, <1>7

-----------------------------------------------------------------------------
(* The invariant of the scheduler                                          *)

(* all holds the threads that were built and are not dead, n of them have  *)
(* been started.                                                           *)
Counted(thr, all, n) ==
  /\ IsInjective(all)
  /\ \A t \in Threads : Contains(all, t) <=> thr[t].state \notin {{}, {"DEAD"}}
  /\ n = Cardinality({t \in Threads : thr[t].state \notin Lifeless})

(* The hash codes that were handed out are the ones that are stored.       *)
HashKnown ==
  HashOnMonitor \/ \A o \in Objects : /\ hashReturned[o] \subseteq {StoredHash(o)}
                                      /\ hashReturned[o] # {} => StoredHash(o) # 0

SchedInv ==
  /\ LockInv
  /\ Places(CurrentThread, RunnableThreads, TimerQueue, thread, monitor)
  /\ MonitorUnique
  /\ \A m \in Monitors : Sound(monitor[m])
  /\ ~fatal
  /\ Counted(thread, AllThreads, AliveThreadCount)
  /\ HashKnown

SameLife(thr, thr2) ==
  \A t \in Threads : thr[t].state \in Lifeless \/ thr2[t].state \in Lifeless
                       => thr2[t].state = thr[t].state

SameHash(thr, thr2) == \A t \in Threads : thr2[t].lockHash = thr[t].lockHash

LEMMA CountedKept ==
  ASSUME NEW thr, NEW thr2, NEW all, NEW n, Counted(thr, all, n), SameLife(thr, thr2)
  PROVE  Counted(thr2, all, n)
<1>1. \A t \in Threads : /\ thr2[t].state \notin {{}, {"DEAD"}} <=> thr[t].state \notin {{}, {"DEAD"}}
                         /\ thr2[t].state \notin Lifeless <=> thr[t].state \notin Lifeless
      BY DEF SameLife, Lifeless
<1>2. {t \in Threads : thr2[t].state \notin Lifeless} = {t \in Threads : thr[t].state \notin Lifeless}
      BY <1>1
<1> QED
      BY <1>1, <1>2 DEF Counted

(* Where the hash code of an object is kept.                               *)
LEMMA HashSame ==
  ASSUME TypeOK, TypeOK', NEW o \in Objects, mhc'[o] = mhc[o],
         SameHash(thread, thread'),
         \A m \in Monitors : mhc[o] = Real(m) => monitor'[m].hashCode = monitor[m].hashCode
  PROVE  StoredHash(o)' = StoredHash(o)
<1>1. mhc[o] \in MHC
      BY DEF TypeOK
<1>2. CASE mhc[o].tag = "UNLOCKED"
      BY <1>2 DEF StoredHash
<1>3. CASE mhc[o].tag = "SIMPLE_LOCK"
      BY <1>3 DEF StoredHash
<1>4. CASE mhc[o].tag = "EXTENDED_LOCK"
      BY <1>1, <1>4, WordCases DEF StoredHash, SameHash
<1>5. CASE mhc[o].tag = "MONITOR"
      BY <1>1, <1>5, WordCases DEF StoredHash
<1> QED
      BY <1>1, <1>2, <1>3, <1>4, <1>5, WordCases

LEMMA HashKept ==
  ASSUME HashKnown, hashReturned' = hashReturned, \A o \in Objects : StoredHash(o)' = StoredHash(o)
  PROVE  HashKnown'
BY DEF HashKnown

(* A step in which m is the only monitor that changes, and the words of    *)
(* the objects do not.                                                     *)
LEMMA SameWordsStep ==
  ASSUME SchedInv, LockInv', UNCHANGED <<mhc, MonitorCache, lifeVars, hashVars>>,
         Places(CurrentThread', RunnableThreads', TimerQueue', thread', monitor'),
         NEW m \in Monitors, Serves(mhc, m), OnlyMonitor(m, monitor[m]),
         SameLife(thread, thread'), SameHash(thread, thread'), ~fatal'
  PROVE  SchedInv'
<1>1. TypeOK /\ TypeOK'
      BY DEF SchedInv, LockInv
<1>2. MonitorUnique'
      BY <1>1, UniqueParts, UniquePartsNext DEF SchedInv, OnlyMonitor
<1>3. \A k \in Monitors : Sound(monitor'[k])
      BY DEF SchedInv, OnlyMonitor
<1>4. \A k \in Monitors : monitor'[k].hashCode = monitor[k].hashCode
      BY DEF OnlyMonitor
<1>5. HashKnown'
  <2>1. \A o \in Objects : StoredHash(o)' = StoredHash(o)
        BY <1>1, <1>4, HashSame
  <2> QED
        BY <2>1, HashKept DEF SchedInv, hashVars
<1>6. Counted(thread', AllThreads', AliveThreadCount')
      BY CountedKept DEF SchedInv, lifeVars
<1> QED
      BY <1>2, <1>3, <1>5, <1>6 DEF SchedInv

(* A step that changes neither words nor monitors.                         *)
LEMMA SameMonitorsStep ==
  ASSUME SchedInv, LockInv', UNCHANGED <<lockVars, lifeVars, hashVars>>,
         Places(CurrentThread', RunnableThreads', TimerQueue', thread', monitor'),
         SameLife(thread, thread'), SameHash(thread, thread'), ~fatal'
  PROVE  SchedInv'
<1>1. TypeOK /\ TypeOK' /\ mhc' = mhc /\ monitor' = monitor /\ MonitorCache' = MonitorCache
      BY DEF SchedInv, LockInv, lockVars
<1>2. MonitorUnique'
      BY <1>1, UniqueParts, UniquePartsNext DEF SchedInv
<1>3. HashKnown'
  <2>1. \A o \in Objects : StoredHash(o)' = StoredHash(o)
        BY <1>1, HashSame
  <2> QED
        BY <2>1, HashKept DEF SchedInv, hashVars
<1>4. Counted(thread', AllThreads', AliveThreadCount')
      BY CountedKept DEF SchedInv, lifeVars
<1> QED
      BY <1>1, <1>2, <1>3, <1>4 DEF SchedInv

(* A step that inflates the lock of o.                                     *)
LEMMA AttachRest ==
  ASSUME SchedInv, LockInv', NEW o \in Objects, NEW m \in Monitors, Attach(o, m),
         UNCHANGED lifeVars, HashKnown',
         Places(CurrentThread', RunnableThreads', TimerQueue', thread', monitor'),
         NEW mon, OnlyMonitor(m, mon), SameLife(thread, thread'), ~fatal'
  PROVE  SchedInv'
<1>1. TypeOK /\ TypeOK' /\ MonitorUnique
      BY DEF SchedInv, LockInv
<1>2. /\ UniqueWords(mhc', MonitorCache')
      /\ \A k : Serves(mhc', k) <=> Serves(mhc, k) \/ k = m
      BY <1>1, AttachEffect
<1>3. MonitorUnique'
      BY <1>1, <1>2, UniqueParts, UniquePartsNext DEF OnlyMonitor
<1>4. \A k \in Monitors : Sound(monitor'[k])
      BY DEF SchedInv, OnlyMonitor
<1>5. Counted(thread', AllThreads', AliveThreadCount')
      BY CountedKept DEF SchedInv, lifeVars
<1> QED
      BY <1>3, <1>4, <1>5 DEF SchedInv

(* The hash codes of the other objects, and the one of o.                  *)
LEMMA AttachHash ==
  ASSUME SchedInv, LockInv', NEW o \in Objects, NEW m \in Monitors, Attach(o, m),
         NEW mon, OnlyMonitor(m, mon), SameHash(thread, thread')
  PROVE  /\ StoredHash(o)' = mon.hashCode
         /\ \A p \in Objects : p # o => StoredHash(p)' = StoredHash(p)
<1>1. TypeOK /\ TypeOK' /\ MonitorUnique
      BY DEF SchedInv, LockInv
<1>2. /\ mhc'[o] = Real(m) /\ \A p \in Objects : p # o => mhc'[p] = mhc[p]
      /\ mhc[o] = Real(m) \/ ~Serves(mhc, m)
      BY <1>1, AttachEffect
<1>3. StoredHash(o)' = monitor'[m].hashCode
      BY <1>2 DEF StoredHash, Real
<1>4. ASSUME NEW p \in Objects, p # o PROVE StoredHash(p)' = StoredHash(p)
  <2>1. mhc[p] # Real(m)
    <3>1. mhc[p] = Real(m) => Serves(mhc, m) /\ Real(m).tag = "MONITOR"
          BY WordsDiffer DEF Serves
    <3> QED
          BY <1>1, <1>2, <1>4, <3>1, UniqueParts DEF UniqueWords
  <2>2. \A k \in Monitors : mhc[p] = Real(k) => monitor'[k].hashCode = monitor[k].hashCode
        BY <2>1 DEF OnlyMonitor
  <2> QED
        BY <1>1, <1>2, <1>4, <2>2, HashSame
<1> QED
      BY <1>3, <1>4 DEF OnlyMonitor

LEMMA AttachStep ==
  ASSUME SchedInv, LockInv', NEW o \in Objects, NEW m \in Monitors, Attach(o, m),
         UNCHANGED <<lifeVars, hashVars>>,
         Places(CurrentThread', RunnableThreads', TimerQueue', thread', monitor'),
         NEW mon, OnlyMonitor(m, mon), mon.hashCode = StoredHash(o),
         SameLife(thread, thread'), SameHash(thread, thread'), ~fatal'
  PROVE  SchedInv'
<1>1. \A p \in Objects : StoredHash(p)' = StoredHash(p)
      BY AttachHash
<1>2. HashKnown'
      BY <1>1, HashKept DEF SchedInv, hashVars
<1> QED
      BY <1>2, AttachRest

(* Who owns a lock has entered it, and whoever queues for it finds it taken.*)
LEMMA InflatedSound ==
  ASSUME SchedInv, NEW o \in Objects, NEW m \in Monitors, Attach(o, m)
  PROVE  /\ Sound(Inflated(o, m))
         /\ Owner(o) = NIL => Depth(o) = 0
         /\ Owner(o) # NIL => DepthFits(Depth(o))
<1>1. TypeOK /\ MonitorUnique /\ ExtendedLockUnique
      BY DEF SchedInv, LockInv
<1>2. mhc[o] \in MHC /\ MaxDepth \in Nat /\ 1 <= MaxDepth
      BY <1>1, BoundsAssumption DEF TypeOK
<1>3. /\ \/ mhc[o] = Real(m) /\ Inflated(o, m) = monitor[m]
         \/ mhc[o].tag # "MONITOR" /\ ~Serves(mhc, m)
      /\ Inflated(o, m).owner = Owner(o) /\ Inflated(o, m).depth = Depth(o)
      /\ Inflated(o, m).monitor_waitq = monitor[m].monitor_waitq
      BY <1>1, AttachEffect
<1>4. Owner(o) = NIL => Depth(o) = 0 /\ monitor[m].monitor_waitq = <<>>
  <2>1. CASE mhc[o] = Real(m) /\ Inflated(o, m) = monitor[m]
        BY <1>3, <2>1 DEF SchedInv, Sound
  <2>2. CASE mhc[o].tag # "MONITOR" /\ ~Serves(mhc, m)
    <3>1. monitor[m].monitor_waitq = <<>>
          BY <1>1, <2>2, UniqueParts DEF IsClean
    <3>2. Owner(o) = NIL => mhc[o].tag = "UNLOCKED"
          BY <1>2, <2>2, WordCases, CallsDiffer DEF Owner
    <3>3. mhc[o].tag = "UNLOCKED" => Depth(o) = 0
          BY DEF Depth
    <3> QED
          BY <3>1, <3>2, <3>3
  <2> QED
        BY <1>3, <2>1, <2>2
<1>5. ASSUME Owner(o) # NIL PROVE DepthFits(Depth(o))
  <2>1. CASE mhc[o] = Real(m) /\ Inflated(o, m) = monitor[m]
        BY <1>3, <1>5, <2>1 DEF SchedInv, Sound
  <2>2. CASE mhc[o].tag = "UNLOCKED"
        BY <1>5, <2>2 DEF Owner
  <2>3. CASE mhc[o].tag = "SIMPLE_LOCK"
        BY <1>2, <2>3 DEF Depth, DepthFits
  <2>4. CASE mhc[o].tag = "EXTENDED_LOCK"
    <3>1. PICK u \in Threads : mhc[o] = Extended(u) /\ mhc[o].thread = u
          BY <1>2, <2>4, WordCases
    <3>2. Depth(o) = thread[u].lockDepth /\ thread[u].lockDepth # 0
          BY <1>1, <2>4, <3>1 DEF Depth, ExtendedLockUnique, IsExtendedLockFree
    <3>3. thread[u].lockDepth <= MaxDepth
          BY DEF SchedInv, Places, Placed
    <3>4. thread[u].lockDepth \in Nat
          BY <1>1 DEF TypeOK, ThreadStruct
    <3> QED
          BY <1>2, <3>2, <3>3, <3>4 DEF DepthFits
  <2> QED
        BY <1>2, <1>3, <2>1, <2>2, <2>3, <2>4, WordCases
<1> QED
      BY <1>3, <1>4, <1>5 DEF Sound

-----------------------------------------------------------------------------
(* Steps after which every thread is where it was                          *)

LEMMA StillPlaces ==
  ASSUME SchedInv, UNCHANGED <<CurrentThread, RunnableThreads, TimerQueue>>,
         SamePlace(thread, thread'), SameQueues(monitor, monitor'),
         \A t \in Threads : thread'[t].lockDepth <= MaxDepth
  PROVE  /\ Places(CurrentThread', RunnableThreads', TimerQueue', thread', monitor')
         /\ SameLife(thread, thread')
<1>1. Places(CurrentThread, RunnableThreads, TimerQueue, thread', monitor')
      BY PlacesSame DEF SchedInv
<1>2. SameLife(thread, thread')
      BY DEF SameLife, SamePlace
<1> QED
      BY <1>1, <1>2

(* Steps that touch no monitor.                                            *)
LEMMA FastStep ==
  ASSUME SchedInv, LockInv',
         UNCHANGED <<CurrentThread, RunnableThreads, TimerQueue, fatal, lifeVars, monitor, MonitorCache>>,
         \A p \in Objects : mhc[p].tag = "MONITOR" \/ mhc'[p].tag = "MONITOR" => mhc'[p] = mhc[p],
         SamePlace(thread, thread'), \A t \in Threads : thread'[t].lockDepth <= MaxDepth,
         HashKnown'
  PROVE  SchedInv'
<1>1. TypeOK /\ TypeOK'
      BY DEF SchedInv, LockInv
<1>2. SameQueues(monitor, monitor')
      BY DEF SameQueues
<1>3. /\ Places(CurrentThread', RunnableThreads', TimerQueue', thread', monitor')
      /\ SameLife(thread, thread')
      BY <1>2, StillPlaces
<1>4. \A k, p : p \in Objects => (mhc'[p] = Real(k) <=> mhc[p] = Real(k))
      BY WordsDiffer
<1>5. \A k : Serves(mhc', k) <=> Serves(mhc, k)
      BY <1>4 DEF Serves
<1>6. UniqueWords(mhc', MonitorCache')
      BY <1>1, <1>5, UniqueParts DEF SchedInv, UniqueWords
<1>7. MonitorUnique'
      BY <1>1, <1>5, <1>6, UniqueParts, UniquePartsNext DEF SchedInv
<1>8. Counted(thread', AllThreads', AliveThreadCount')
      BY <1>3, CountedKept DEF SchedInv, lifeVars
<1> QED
      BY <1>3, <1>7, <1>8 DEF SchedInv

(* The hash code of an object p while the extended lock of t changes.      *)
LEMMA HashOfOther ==
  ASSUME SchedInv, LockInv', NEW p \in Objects, mhc'[p] = mhc[p], monitor' = monitor,
         NEW t \in Threads, \A u \in Threads : u # t => thread'[u].lockHash = thread[u].lockHash,
         mhc[p] # Extended(t) \/ thread'[t].lockHash = thread[t].lockHash
  PROVE  StoredHash(p)' = StoredHash(p)
<1>1. mhc[p] \in MHC
      BY DEF SchedInv, LockInv, TypeOK
<1>2. CASE mhc[p].tag = "UNLOCKED"
      BY <1>2 DEF StoredHash
<1>3. CASE mhc[p].tag = "SIMPLE_LOCK"
      BY <1>3 DEF StoredHash
<1>4. CASE mhc[p].tag = "EXTENDED_LOCK"
      BY <1>1, <1>4, WordCases DEF StoredHash
<1>5. CASE mhc[p].tag = "MONITOR"
      BY <1>5 DEF StoredHash
<1> QED
      BY <1>1, <1>2, <1>3, <1>4, <1>5, WordCases

LEMMA FreeLock ==
  ASSUME SchedInv, NEW t \in Threads
  PROVE  thread[t].lockDepth = 0 <=> \A p \in Objects : mhc[p] # Extended(t)
BY DEF SchedInv, LockInv, ExtendedLockUnique, IsExtendedLockFree

LEMMA LockDepths ==
  ASSUME SchedInv
  PROVE  /\ \A t \in Threads : thread[t].lockDepth \in Nat /\ thread[t].lockDepth <= MaxDepth
         /\ MaxDepth \in Nat /\ 1 <= MaxDepth
<1>1. \A t \in Threads : thread[t].lockDepth \in Nat
      BY DEF SchedInv, LockInv, TypeOK, ThreadStruct
<1> QED
      BY <1>1, BoundsAssumption DEF SchedInv, Places, Placed

(* The fields of the extended lock of t are set.                           *)
LockSet(thr, t, d, h) == [thr EXCEPT ![t].lockDepth = d, ![t].lockHash = h]
DepthSet(thr, t, d)   == [thr EXCEPT ![t].lockDepth = d]
HashSet(thr, t, h)    == [thr EXCEPT ![t].lockHash = h]

LEMMA LockFields ==
  ASSUME NEW thr \in [Threads -> ThreadStruct], NEW t \in Threads, NEW d, NEW h, NEW thr2,
         thr2 = LockSet(thr, t, d, h)
  PROVE  /\ SamePlace(thr, thr2) /\ \A u \in Threads : u # t => thr2[u] = thr[u]
         /\ thr2[t].lockDepth = d /\ thr2[t].lockHash = h
<1>1. \A u \in Threads : u # t => thr2[u] = thr[u]
      BY DEF LockSet
<1>2. thr[t] \in ThreadStruct /\ thr2[t] = [thr[t] EXCEPT !.lockDepth = d, !.lockHash = h]
      BY DEF LockSet
<1>3. /\ thr2[t].state = thr[t].state /\ thr2[t].monitor = thr[t].monitor
      /\ thr2[t].monitor_depth = thr[t].monitor_depth
      /\ thr2[t].wakeup = thr[t].wakeup /\ thr2[t].wakeupCall = thr[t].wakeupCall
      /\ thr2[t].pendingException = thr[t].pendingException
      /\ thr2[t].lockDepth = d /\ thr2[t].lockHash = h
      BY <1>2 DEF ThreadStruct
<1> HIDE DEF ThreadStruct
<1> QED
      BY <1>1, <1>3 DEF SamePlace

LEMMA LockDepthField ==
  ASSUME NEW thr \in [Threads -> ThreadStruct], NEW t \in Threads, NEW d, NEW thr2,
         thr2 = DepthSet(thr, t, d)
  PROVE  /\ SamePlace(thr, thr2) /\ \A u \in Threads : u # t => thr2[u] = thr[u]
         /\ thr2[t].lockDepth = d /\ thr2[t].lockHash = thr[t].lockHash
<1>1. \A u \in Threads : u # t => thr2[u] = thr[u]
      BY DEF DepthSet
<1>2. thr[t] \in ThreadStruct /\ thr2[t] = [thr[t] EXCEPT !.lockDepth = d]
      BY DEF DepthSet
<1>3. /\ thr2[t].state = thr[t].state /\ thr2[t].monitor = thr[t].monitor
      /\ thr2[t].monitor_depth = thr[t].monitor_depth
      /\ thr2[t].wakeup = thr[t].wakeup /\ thr2[t].wakeupCall = thr[t].wakeupCall
      /\ thr2[t].pendingException = thr[t].pendingException
      /\ thr2[t].lockDepth = d /\ thr2[t].lockHash = thr[t].lockHash
      BY <1>2 DEF ThreadStruct
<1> QED
      BY <1>1, <1>3 DEF SamePlace

LEMMA LockHashField ==
  ASSUME NEW thr \in [Threads -> ThreadStruct], NEW t \in Threads, NEW h, NEW thr2,
         thr2 = HashSet(thr, t, h)
  PROVE  /\ SamePlace(thr, thr2) /\ \A u \in Threads : u # t => thr2[u] = thr[u]
         /\ thr2[t].lockDepth = thr[t].lockDepth /\ thr2[t].lockHash = h
<1>1. \A u \in Threads : u # t => thr2[u] = thr[u]
      BY DEF HashSet
<1>2. thr[t] \in ThreadStruct /\ thr2[t] = [thr[t] EXCEPT !.lockHash = h]
      BY DEF HashSet
<1>3. /\ thr2[t].state = thr[t].state /\ thr2[t].monitor = thr[t].monitor
      /\ thr2[t].monitor_depth = thr[t].monitor_depth
      /\ thr2[t].wakeup = thr[t].wakeup /\ thr2[t].wakeupCall = thr[t].wakeupCall
      /\ thr2[t].pendingException = thr[t].pendingException
      /\ thr2[t].lockDepth = thr[t].lockDepth /\ thr2[t].lockHash = h
      BY <1>2 DEF ThreadStruct
<1> QED
      BY <1>1, <1>3 DEF SamePlace

LEMMA SamePlaceSelf == \A thr : SamePlace(thr, thr)
BY DEF SamePlace

LEMMA MonitorEnterFastSched ==
  ASSUME SchedInv, LockInv', NEW t \in Threads, NEW o \in Objects, MonitorEnterFast(t, o)
  PROVE  SchedInv'
<1>1. /\ mhc \in [Objects -> MHC] /\ mhc[o] \in MHC /\ thread \in [Threads -> ThreadStruct]
      BY DEF SchedInv, LockInv, TypeOK
<1>2. /\ UNCHANGED <<CurrentThread, RunnableThreads, TimerQueue, fatal, lifeVars, monitor, MonitorCache>>
      /\ hashReturned' = hashReturned /\ Depth(o) < MaxDepth
      BY DEF MonitorEnterFast, hashVars
<1>3. \A u \in Threads : thread[u].lockDepth \in Nat /\ thread[u].lockDepth <= MaxDepth
      BY LockDepths
<1>4. SUFFICES /\ mhc'[o].tag # "MONITOR" /\ mhc[o].tag # "MONITOR"
               /\ \A p \in Objects : p # o => mhc'[p] = mhc[p]
               /\ SamePlace(thread, thread')
               /\ \A u \in Threads : u # t => thread'[u] = thread[u]
               /\ thread'[t].lockDepth <= MaxDepth
               /\ thread[t].lockDepth = 0 \/ thread'[t].lockHash = thread[t].lockHash
               /\ StoredHash(o)' = StoredHash(o)
  <2>1. \A p \in Objects : mhc[p].tag = "MONITOR" \/ mhc'[p].tag = "MONITOR" => mhc'[p] = mhc[p]
        BY <1>4
  <2>2. ASSUME NEW p \in Objects PROVE StoredHash(p)' = StoredHash(p)
        BY <1>2, <1>4, FreeLock, HashOfOther
  <2>3. HashKnown'
        BY <1>2, <2>2, HashKept DEF SchedInv
  <2>4. \A u \in Threads : thread'[u].lockDepth <= MaxDepth
        BY <1>3, <1>4
  <2> QED
        BY <1>2, <1>4, <2>1, <2>3, <2>4, FastStep
<1>5. CASE mhc[o] = Unlocked(0) /\ mhc' = [mhc EXCEPT ![o] = Simple(t)] /\ UNCHANGED thread
  <2>1. mhc'[o] = Simple(t) /\ \A p \in Objects : p # o => mhc'[p] = mhc[p]
        BY <1>1, <1>5
  <2>2. mhc'[o].tag = "SIMPLE_LOCK" /\ mhc[o].tag = "UNLOCKED" /\ mhc[o].hashCode = 0
        BY <1>5, <2>1, WordsDiffer DEF Unlocked
  <2>3. StoredHash(o)' = 0 /\ StoredHash(o) = 0
        BY <2>2 DEF StoredHash
  <2> QED
        BY <1>3, <1>5, <2>1, <2>2, <2>3, SamePlaceSelf
<1>6. CASE mhc[o].tag = "UNLOCKED" /\ mhc[o] # Unlocked(0) /\ allocateFastLock(t, o, 1, StoredHash(o))
  <2>1. /\ mhc' = [mhc EXCEPT ![o] = Extended(t)] /\ thread[t].lockDepth = 0
        /\ thread' = LockSet(thread, t, 1, StoredHash(o))
        BY <1>6 DEF allocateFastLock, IsExtendedLockFree, LockSet
  <2>2. mhc'[o] = Extended(t) /\ \A p \in Objects : p # o => mhc'[p] = mhc[p]
        BY <1>1, <2>1
  <2>3. /\ SamePlace(thread, thread') /\ \A u \in Threads : u # t => thread'[u] = thread[u]
        /\ thread'[t].lockDepth = 1 /\ thread'[t].lockHash = StoredHash(o)
        BY <1>1, <2>1, LockFields
  <2>4. StoredHash(o)' = thread'[t].lockHash /\ mhc'[o].tag = "EXTENDED_LOCK"
        BY <2>2 DEF StoredHash, Extended
  <2> QED
        BY <1>6, <2>1, <2>2, <2>3, <2>4, LockDepths
<1>7. CASE mhc[o] = Simple(t) /\ allocateFastLock(t, o, 2, 0)
  <2>1. /\ mhc' = [mhc EXCEPT ![o] = Extended(t)] /\ thread[t].lockDepth = 0
        /\ thread' = LockSet(thread, t, 2, 0)
        BY <1>7 DEF allocateFastLock, IsExtendedLockFree, LockSet
  <2>2. mhc'[o] = Extended(t) /\ \A p \in Objects : p # o => mhc'[p] = mhc[p]
        BY <1>1, <2>1
  <2>3. /\ SamePlace(thread, thread') /\ \A u \in Threads : u # t => thread'[u] = thread[u]
        /\ thread'[t].lockDepth = 2 /\ thread'[t].lockHash = 0
        BY <1>1, <2>1, LockFields
  <2>4. StoredHash(o)' = 0 /\ mhc'[o].tag = "EXTENDED_LOCK"
        BY <2>2, <2>3 DEF StoredHash, Extended
  <2>5. StoredHash(o) = 0 /\ Depth(o) = 1 /\ mhc[o].tag = "SIMPLE_LOCK"
        BY <1>7, WordsDiffer DEF StoredHash, Depth
  <2> QED
        BY <1>2, <2>1, <2>2, <2>3, <2>4, <2>5, LockDepths
<1>8. CASE mhc[o] = Extended(t) /\ thread' = [thread EXCEPT ![t].lockDepth = @ + 1] /\ UNCHANGED mhc
  <2>1. thread' = DepthSet(thread, t, thread[t].lockDepth + 1)
        BY <1>1, <1>8 DEF DepthSet
  <2>2. /\ SamePlace(thread, thread') /\ \A u \in Threads : u # t => thread'[u] = thread[u]
        /\ thread'[t].lockDepth = thread[t].lockDepth + 1
        /\ thread'[t].lockHash = thread[t].lockHash
        BY <1>1, <2>1, LockDepthField
  <2>3. /\ Depth(o) = thread[t].lockDepth /\ mhc[o].tag = "EXTENDED_LOCK"
        /\ StoredHash(o) = thread[t].lockHash /\ StoredHash(o)' = thread'[t].lockHash
        BY <1>8 DEF Depth, StoredHash, Extended
  <2> QED
        BY <1>2, <1>3, <1>8, <2>2, <2>3, LockDepths
<1> QED
      BY <1>5, <1>6, <1>7, <1>8 DEF MonitorEnterFast

LEMMA MonitorExitFastSched ==
  ASSUME SchedInv, LockInv', NEW t \in Threads, NEW o \in Objects, MonitorExitFast(t, o)
  PROVE  SchedInv'
<1>1. /\ mhc \in [Objects -> MHC] /\ mhc[o] \in MHC /\ thread \in [Threads -> ThreadStruct]
      BY DEF SchedInv, LockInv, TypeOK
<1>2. /\ UNCHANGED <<CurrentThread, RunnableThreads, TimerQueue, fatal, lifeVars, monitor, MonitorCache>>
      /\ hashReturned' = hashReturned
      BY DEF MonitorExitFast, hashVars
<1>3. \A u \in Threads : thread[u].lockDepth \in Nat /\ thread[u].lockDepth <= MaxDepth
      BY LockDepths
<1>4. SUFFICES /\ mhc'[o].tag # "MONITOR" /\ mhc[o].tag # "MONITOR"
               /\ \A p \in Objects : p # o => mhc'[p] = mhc[p]
               /\ SamePlace(thread, thread')
               /\ \A u \in Threads : thread'[u].lockHash = thread[u].lockHash
               /\ \A u \in Threads : thread'[u].lockDepth <= MaxDepth
               /\ StoredHash(o)' = StoredHash(o)
  <2>1. \A p \in Objects : mhc[p].tag = "MONITOR" \/ mhc'[p].tag = "MONITOR" => mhc'[p] = mhc[p]
        BY <1>4
  <2>2. ASSUME NEW p \in Objects PROVE StoredHash(p)' = StoredHash(p)
        BY <1>2, <1>4, HashOfOther
  <2>3. HashKnown'
        BY <1>2, <2>2, HashKept DEF SchedInv
  <2> QED
        BY <1>2, <1>4, <2>1, <2>3, FastStep
<1>5. CASE mhc[o] = Simple(t)
  <2>1. mhc' = [mhc EXCEPT ![o] = Unlocked(0)] /\ UNCHANGED thread
        BY <1>5 DEF MonitorExitFast
  <2>2. mhc'[o] = Unlocked(0) /\ \A p \in Objects : p # o => mhc'[p] = mhc[p]
        BY <1>1, <2>1
  <2>3. mhc'[o].tag = "UNLOCKED" /\ mhc[o].tag = "SIMPLE_LOCK" /\ mhc'[o].hashCode = 0
        BY <1>5, <2>2, WordsDiffer DEF Unlocked
  <2>4. StoredHash(o)' = 0 /\ StoredHash(o) = 0
        BY <2>3 DEF StoredHash
  <2> QED
        BY <1>3, <2>1, <2>2, <2>3, <2>4, SamePlaceSelf
<1>6. CASE mhc[o] # Simple(t)
  <2> DEFINE d == DepthAfterExit(t)
             h == thread[t].lockHash
             e == IF d = 1 /\ h = 0 THEN 0 ELSE d
  <2>1. mhc[o] = Extended(t) /\ mhc[o].tag = "EXTENDED_LOCK" /\ mhc[o].thread = t
        BY <1>6, WordsDiffer DEF MonitorExitFast, Extended
  <2>2. /\ thread' = DepthSet(thread, t, e)
        /\ mhc' = IF d = 0 THEN [mhc EXCEPT ![o] = Unlocked(h)]
                  ELSE IF d = 1 /\ h = 0 THEN [mhc EXCEPT ![o] = Simple(t)] ELSE mhc
        BY <1>6 DEF MonitorExitFast, DepthSet
  <2>3. d \in Int /\ e <= MaxDepth
        BY <1>3, LockDepths DEF DepthAfterExit
  <2>4. StoredHash(o) = h
        BY <2>1 DEF StoredHash
  <2> HIDE DEF d, e
  <2>5. /\ SamePlace(thread, thread') /\ \A u \in Threads : u # t => thread'[u] = thread[u]
        /\ thread'[t].lockDepth = e /\ thread'[t].lockHash = h
        BY <1>1, <2>2, LockDepthField
  <2>6. /\ \A u \in Threads : thread'[u].lockHash = thread[u].lockHash
        /\ \A u \in Threads : thread'[u].lockDepth <= MaxDepth
        BY <1>3, <2>3, <2>5
  <2> HIDE DEF h
  <2>7. /\ \/ mhc'[o] = Unlocked(h)
           \/ mhc'[o] = Extended(t)
           \/ mhc'[o] = Simple(t) /\ h = 0
        /\ \A p \in Objects : p # o => mhc'[p] = mhc[p]
    <3>1. CASE d = 0
      <4>1. mhc' = [mhc EXCEPT ![o] = Unlocked(h)]
            BY <2>2, <3>1
      <4> QED
            BY <1>1, <4>1
    <3>2. CASE d # 0 /\ d = 1 /\ h = 0
      <4>1. mhc' = [mhc EXCEPT ![o] = Simple(t)]
            BY <2>2, <3>2
      <4> QED
            BY <1>1, <3>2, <4>1
    <3>3. CASE d # 0 /\ ~(d = 1 /\ h = 0)
      <4>1. mhc' = mhc
            BY <2>2, <3>3
      <4> QED
            BY <2>1, <4>1
    <3> QED
          BY <3>1, <3>2, <3>3
  <2>8. mhc'[o].tag # "MONITOR" /\ StoredHash(o)' = h
    <3>1. CASE mhc'[o] = Unlocked(h)
          BY <3>1 DEF StoredHash, Unlocked
    <3>2. CASE mhc'[o] = Extended(t)
          BY <2>5, <3>2 DEF StoredHash, Extended
    <3>3. CASE mhc'[o] = Simple(t) /\ h = 0
          BY <3>3 DEF StoredHash, Simple
    <3> QED
          BY <2>7, <3>1, <3>2, <3>3
  <2> QED
        BY <2>1, <2>4, <2>5, <2>6, <2>7, <2>8
<1> QED
      BY <1>5, <1>6

(* The hash code h that o is given, or that is read.                       *)
LEMMA HashReturned ==
  ASSUME SchedInv, LockInv', NEW o \in Objects, NEW h, h # 0,
         hashReturned' = [hashReturned EXCEPT ![o] = @ \cup {h}],
         StoredHash(o) \in {0, h}, StoredHash(o)' = h,
         \A p \in Objects : p # o => StoredHash(p)' = StoredHash(p)
  PROVE  HashKnown'
<1>1. SUFFICES ASSUME ~HashOnMonitor, NEW p \in Objects
               PROVE  /\ hashReturned'[p] \subseteq {StoredHash(p)'}
                      /\ hashReturned'[p] # {} => StoredHash(p)' # 0
      BY DEF HashKnown
<1>2. /\ hashReturned[p] \subseteq {StoredHash(p)}
      /\ hashReturned[p] # {} => StoredHash(p) # 0
      BY <1>1 DEF SchedInv, HashKnown
<1>3. hashReturned'[p] = IF p = o THEN hashReturned[p] \cup {h} ELSE hashReturned[p]
      BY DEF SchedInv, LockInv, TypeOK
<1>4. CASE p = o
  <2>1. hashReturned[o] \subseteq {h}
        BY <1>2, <1>4
  <2> QED
        BY <1>3, <1>4, <2>1
<1>5. CASE p # o
      BY <1>2, <1>3, <1>5
<1> QED
      BY <1>4, <1>5

LEMMA HashCodeSched ==
  ASSUME SchedInv, LockInv', NEW t \in Threads, NEW o \in Objects, HashCode(t, o)
  PROVE  SchedInv'
<1> DEFINE h == lastHash + 1
           u == mhc[o].thread
           H == hashReturned' = [hashReturned EXCEPT ![o] = @ \cup {h}]
<1>1. /\ TypeOK /\ mhc \in [Objects -> MHC] /\ mhc[o] \in MHC
      /\ thread \in [Threads -> ThreadStruct] /\ h # 0
      BY DEF SchedInv, LockInv, TypeOK
<1>2. UNCHANGED <<CurrentThread, RunnableThreads, TimerQueue, fatal, lifeVars>>
      BY DEF HashCode
<1>3. \A v \in Threads : thread[v].lockDepth \in Nat /\ thread[v].lockDepth <= MaxDepth
      BY LockDepths
<1>4. CASE /\ mhc[o].tag = "MONITOR" /\ HashOnMonitor
           /\ UNCHANGED <<lockVars, thread>>
  <2>1. HashKnown'
        BY <1>4 DEF HashKnown
  <2> QED
        BY <1>2, <1>3, <1>4, <2>1, FastStep, SamePlaceSelf DEF lockVars
<1>5. CASE /\ StoredHash(o) # 0
           /\ hashReturned' = [hashReturned EXCEPT ![o] = @ \cup {StoredHash(o)}]
           /\ UNCHANGED <<lockVars, thread>>
  <2>1. \A p \in Objects : StoredHash(p)' = StoredHash(p)
        BY <1>5 DEF StoredHash, lockVars
  <2>2. HashKnown'
        BY <1>5, <2>1, HashReturned
  <2> QED
        BY <1>2, <1>3, <1>5, <2>2, FastStep, SamePlaceSelf DEF lockVars
<1>6. CASE /\ mhc[o] = Unlocked(0) /\ mhc' = [mhc EXCEPT ![o] = Unlocked(h)] /\ H
           /\ UNCHANGED <<monitor, MonitorCache, thread>>
  <2>1. mhc'[o] = Unlocked(h) /\ \A p \in Objects : p # o => mhc'[p] = mhc[p]
        BY <1>1, <1>6
  <2>2. /\ mhc[o].tag = "UNLOCKED" /\ mhc'[o].tag = "UNLOCKED"
        /\ mhc[o].hashCode = 0 /\ mhc'[o].hashCode = h
        BY <1>6, <2>1 DEF Unlocked
  <2>3. StoredHash(o)' = h /\ StoredHash(o) = 0
        BY <2>2 DEF StoredHash
  <2>4. \A p \in Objects : p # o => StoredHash(p)' = StoredHash(p)
        BY <1>6, <2>1, HashOfOther
  <2>5. HashKnown'
        BY <1>1, <1>6, <2>3, <2>4, HashReturned
  <2>6. \A p \in Objects : mhc[p].tag = "MONITOR" \/ mhc'[p].tag = "MONITOR" => mhc'[p] = mhc[p]
        BY <2>1, <2>2
  <2> QED
        BY <1>2, <1>3, <1>6, <2>5, <2>6, FastStep, SamePlaceSelf
<1>7. CASE /\ mhc[o].tag = "EXTENDED_LOCK" /\ StoredHash(o) = 0 /\ H
           /\ thread' = HashSet(thread, u, h) /\ UNCHANGED lockVars
  <2>1. u \in Threads /\ mhc[o] = Extended(u)
        BY <1>1, <1>7, WordCases
  <2> HIDE DEF u
  <2>2. /\ SamePlace(thread, thread') /\ \A v \in Threads : v # u => thread'[v] = thread[v]
        /\ thread'[u].lockDepth = thread[u].lockDepth /\ thread'[u].lockHash = h
        BY <1>1, <1>7, <2>1, LockHashField
  <2>3. mhc' = mhc /\ monitor' = monitor /\ MonitorCache' = MonitorCache
        BY <1>7 DEF lockVars
  <2>4. StoredHash(o)' = h
        BY <2>1, <2>2, <2>3 DEF StoredHash, Extended
  <2>5. ASSUME NEW p \in Objects, p # o PROVE StoredHash(p)' = StoredHash(p)
    <3>1. mhc[p] # Extended(u)
          BY <1>7, <2>1, <2>5 DEF SchedInv, LockInv, ExtendedLockUnique
    <3> QED
          BY <2>1, <2>2, <2>3, <3>1, HashOfOther
  <2>6. HashKnown'
        BY <1>1, <1>7, <2>4, <2>5, HashReturned
  <2> QED
        BY <1>2, <1>3, <2>2, <2>3, <2>6, FastStep
<1>8. CASE /\ mhc[o].tag = "SIMPLE_LOCK" /\ allocateFastLock(u, o, 1, h) /\ H
           /\ UNCHANGED <<monitor, MonitorCache>>
  <2>1. u \in Threads
        BY <1>1, <1>8, WordCases
  <2> HIDE DEF u
  <2>2. /\ mhc' = [mhc EXCEPT ![o] = Extended(u)] /\ thread[u].lockDepth = 0
        /\ thread' = LockSet(thread, u, 1, h)
        BY <1>8 DEF allocateFastLock, IsExtendedLockFree, LockSet
  <2>3. mhc'[o] = Extended(u) /\ \A p \in Objects : p # o => mhc'[p] = mhc[p]
        BY <1>1, <2>2
  <2>4. /\ SamePlace(thread, thread') /\ \A v \in Threads : v # u => thread'[v] = thread[v]
        /\ thread'[u].lockDepth = 1 /\ thread'[u].lockHash = h
        BY <1>1, <2>1, <2>2, LockFields
  <2>5. StoredHash(o)' = thread'[u].lockHash /\ mhc'[o].tag = "EXTENDED_LOCK"
        BY <2>3 DEF StoredHash, Extended
  <2>6. StoredHash(o) = 0
        BY <1>8 DEF StoredHash
  <2>7. \A p \in Objects : p # o => StoredHash(p)' = StoredHash(p)
        BY <1>8, <2>1, <2>2, <2>3, <2>4, FreeLock, HashOfOther
  <2>8. HashKnown'
        BY <1>1, <1>8, <2>4, <2>5, <2>6, <2>7, HashReturned
  <2>9. \A p \in Objects : mhc[p].tag = "MONITOR" \/ mhc'[p].tag = "MONITOR" => mhc'[p] = mhc[p]
        BY <1>8, <2>3, <2>5
  <2>10. \A v \in Threads : thread'[v].lockDepth <= MaxDepth
        BY <1>3, <2>4, LockDepths
  <2> QED
        BY <1>2, <1>8, <2>4, <2>8, <2>9, <2>10, FastStep
<1>9. CASE /\ mhc[o].tag = "SIMPLE_LOCK" /\ H /\ UNCHANGED thread
           /\ \E m \in Monitors :
                /\ Attach(o, m)
                /\ monitor' = [monitor EXCEPT ![m] = [Inflated(o, m) EXCEPT !.hashCode = h]]
  <2>1. PICK m \in Monitors :
               /\ Attach(o, m)
               /\ monitor' = [monitor EXCEPT ![m] = [Inflated(o, m) EXCEPT !.hashCode = h]]
        BY <1>9
  <2> DEFINE mon == [Inflated(o, m) EXCEPT !.hashCode = h]
  <2>2. /\ Inflated(o, m) \in MonitorStruct
        /\ Inflated(o, m).monitor_waitq = monitor[m].monitor_waitq
        /\ Inflated(o, m).condvar_waitq = monitor[m].condvar_waitq
        BY <1>1, <2>1, AttachEffect DEF SchedInv
  <2>3. /\ mon.hashCode = h /\ mon.owner = Inflated(o, m).owner
        /\ mon.depth = Inflated(o, m).depth
        /\ mon.monitor_waitq = monitor[m].monitor_waitq
        /\ mon.condvar_waitq = monitor[m].condvar_waitq
        BY <2>2 DEF MonitorStruct
  <2>4. monitor' = [monitor EXCEPT ![m] = mon]
        BY <2>1
  <2> HIDE DEF mon
  <2>5. monitor'[m] = mon /\ \A k \in Monitors : k # m => monitor'[k] = monitor[k]
        BY <1>1, <2>4 DEF TypeOK
  <2>6. OnlyMonitor(m, mon)
    <3>1. Sound(Inflated(o, m))
          BY <2>1, InflatedSound
    <3> QED
          BY <2>2, <2>3, <2>5, <3>1 DEF OnlyMonitor, Sound
  <2>7. SameQueues(monitor, monitor')
        BY <2>3, <2>5 DEF SameQueues
  <2>8. /\ Places(CurrentThread', RunnableThreads', TimerQueue', thread', monitor')
        /\ SameLife(thread, thread')
        BY <1>2, <1>3, <1>9, <2>7, StillPlaces, SamePlaceSelf
  <2>9. SameHash(thread, thread')
        BY <1>9 DEF SameHash
  <2>10. StoredHash(o)' = h /\ \A p \in Objects : p # o => StoredHash(p)' = StoredHash(p)
        BY <2>1, <2>3, <2>6, <2>9, AttachHash
  <2>11. StoredHash(o) = 0
        BY <1>9 DEF StoredHash
  <2>12. HashKnown'
        BY <1>1, <1>9, <2>10, <2>11, HashReturned
  <2>13. ~fatal'
        BY <1>2 DEF SchedInv
  <2> QED
        BY <1>2, <2>1, <2>6, <2>8, <2>12, <2>13, AttachRest
<1> HIDE DEF h, u
<1>10. \/ /\ mhc[o].tag = "MONITOR" /\ HashOnMonitor
          /\ UNCHANGED <<lockVars, thread>>
       \/ /\ StoredHash(o) # 0
          /\ hashReturned' = [hashReturned EXCEPT ![o] = @ \cup {StoredHash(o)}]
          /\ UNCHANGED <<lockVars, thread>>
       \/ /\ mhc[o] = Unlocked(0) /\ mhc' = [mhc EXCEPT ![o] = Unlocked(h)] /\ H
          /\ UNCHANGED <<monitor, MonitorCache, thread>>
       \/ /\ mhc[o].tag = "EXTENDED_LOCK" /\ StoredHash(o) = 0 /\ H
          /\ thread' = HashSet(thread, u, h) /\ UNCHANGED lockVars
       \/ /\ mhc[o].tag = "SIMPLE_LOCK" /\ allocateFastLock(u, o, 1, h) /\ H
          /\ UNCHANGED <<monitor, MonitorCache>>
       \/ /\ mhc[o].tag = "SIMPLE_LOCK" /\ H /\ UNCHANGED thread
          /\ \E m \in Monitors :
               /\ Attach(o, m)
               /\ monitor' = [monitor EXCEPT ![m] = [Inflated(o, m) EXCEPT !.hashCode = h]]
      BY Zenon DEF HashCode, NewHash, HashSet, h, u
<1> QED
      BY <1>4, <1>5, <1>6, <1>7, <1>8, <1>9, <1>10

-----------------------------------------------------------------------------
(* The running thread                                                      *)

LEMMA RunningPlace ==
  ASSUME SchedInv, NEW t \in Threads, CurrentThread = t
  PROVE  /\ thread[t].state = Ready /\ thread[t].wakeupCall = NIL /\ ~thread[t].pendingException
         /\ ~Contains(RunnableThreads, t) /\ ~Contains(TimerQueue, t)
         /\ \A m \in Monitors : /\ ~Contains(monitor[m].monitor_waitq, t)
                                /\ ~Contains(monitor[m].condvar_waitq, t)
<1>1. Placed(t, CurrentThread, RunnableThreads, TimerQueue, thread, monitor)
      BY DEF SchedInv, Places
<1>2. thread[t].wakeupCall \in {NIL, "resumeThread", "monitorWaitAlarm"}
      BY ThreadEta DEF SchedInv, LockInv, TypeOK
<1> QED
      BY <1>1, <1>2, StatesDiffer DEF Placed

LEMMA SuspendedEffect ==
  ASSUME NEW thr \in [Threads -> ThreadStruct], NEW t \in Threads, NEW thr2, thr2 = Suspended(thr, t)
  PROVE  /\ thr2 \in [Threads -> ThreadStruct]
         /\ \A u \in Threads : u # t => thr2[u] = thr[u]
         /\ thr2[t].state = thr[t].state \cup {"SUSPENDED"}
         /\ thr2[t].monitor = thr[t].monitor /\ thr2[t].monitor_depth = thr[t].monitor_depth
         /\ thr2[t].wakeup = thr[t].wakeup /\ thr2[t].wakeupCall = thr[t].wakeupCall
         /\ thr2[t].pendingException = thr[t].pendingException
         /\ thr2[t].lockDepth = thr[t].lockDepth /\ thr2[t].lockHash = thr[t].lockHash
<1>1. thr2 = [thr EXCEPT ![t].state = @ \cup {"SUSPENDED"}] /\ "SUSPENDED" \in ThreadState
      BY DEF Suspended, ThreadState
<1>2. thr[t] \in ThreadStruct /\ thr2[t] = [thr[t] EXCEPT !.state = @ \cup {"SUSPENDED"}]
      BY <1>1
<1>3. /\ thr2[t] \in ThreadStruct
      /\ thr2[t].state = thr[t].state \cup {"SUSPENDED"}
      /\ thr2[t].monitor = thr[t].monitor /\ thr2[t].monitor_depth = thr[t].monitor_depth
      /\ thr2[t].wakeup = thr[t].wakeup /\ thr2[t].wakeupCall = thr[t].wakeupCall
      /\ thr2[t].pendingException = thr[t].pendingException
      /\ thr2[t].lockDepth = thr[t].lockDepth /\ thr2[t].lockHash = thr[t].lockHash
      BY <1>1, <1>2 DEF ThreadStruct
<1>4. thr2 \in [Threads -> ThreadStruct] /\ \A u \in Threads : u # t => thr2[u] = thr[u]
      BY <1>1, <1>2, <1>3
<1> QED
      BY <1>3, <1>4

(* The running thread t gave the processor up.                             *)
LEMMA LeavesProcessor ==
  ASSUME SchedInv, NEW t \in Threads, CurrentThread = t,
         NEW thr2, NEW mons2, SameQueues(monitor, mons2),
         \A u \in Threads : u # t =>
           /\ thr2[u].state = thread[u].state
           /\ thr2[u].monitor = thread[u].monitor /\ thr2[u].monitor_depth = thread[u].monitor_depth
           /\ thr2[u].wakeupCall = thread[u].wakeupCall
           /\ thr2[u].pendingException = thread[u].pendingException,
         \A u \in Threads : thr2[u].wakeup = thread[u].wakeup,
         \A u \in Threads : thr2[u].lockDepth <= MaxDepth,
         thr2[t].state \in {Asleep, Waiting}, thr2[t].wakeupCall = NIL,
         DepthFits(thr2[t].monitor_depth)
  PROVE  Away(t, NIL, RunnableThreads, TimerQueue, thr2, mons2)
<1>1. [u \in Threads |-> thr2[u].wakeup] = [u \in Threads |-> thread[u].wakeup]
      OBVIOUS
<1>2. Ordered(RunnableThreads, TimerQueue, thr2, mons2)
      BY <1>1 DEF SchedInv, Places, Ordered, SameQueues
<1>3. ASSUME NEW u \in Threads, u # t
      PROVE  Placed(u, NIL, RunnableThreads, TimerQueue, thr2, mons2)
  <2>1. Placed(u, CurrentThread, RunnableThreads, TimerQueue, thread, monitor)
        BY DEF SchedInv, Places
  <2>2. CurrentThread # u /\ NIL # u
        BY <1>3, CallsDiffer
  <2> QED
        BY <1>3, <2>1, <2>2 DEF Placed, SameQueues
<1> QED
      BY <1>2, <1>3, RunningPlace, CallsDiffer DEF Away, SameQueues

(* The monitor table in which m is mon.                                    *)
LEMMA TableWith ==
  ASSUME TypeOK, NEW m \in Monitors, NEW mon \in MonitorStruct
  PROVE  \E mons \in [Monitors -> MonitorStruct] :
            mons[m] = mon /\ \A k \in Monitors : k # m => mons[k] = monitor[k]
<1> DEFINE mons == [monitor EXCEPT ![m] = mon]
<1>1. mons \in [Monitors -> MonitorStruct] /\ mons[m] = mon
      /\ \A k \in Monitors : k # m => mons[k] = monitor[k]
      BY DEF TypeOK
<1> QED
      BY <1>1

LEMMA MonitorEnterSlowSched ==
  ASSUME SchedInv, LockInv', NEW t \in Threads, NEW o \in Objects, MonitorEnterSlow(t, o)
  PROVE  SchedInv'
<1> DEFINE mon1(m) == [Inflated(o, m) EXCEPT !.owner = t,
                                 !.depth = IF Owner(o) = NIL THEN 1 ELSE @ + 1]
           thr == AfterUpgrade(o)
           thr1 == Suspended(thr, t)
           thr2 == [thr1 EXCEPT ![t].monitor_depth = 1]
<1>1. PICK m \in Monitors :
        /\ Attach(o, m)
        /\ \/ /\ Owner(o) \in {NIL, t} /\ monitor' = [monitor EXCEPT ![m] = mon1(m)]
              /\ thread' = thr
              /\ UNCHANGED <<CurrentThread, RunnableThreads, fatal>>
           \/ /\ Owner(o) \notin {NIL, t} /\ addMonitorWait(m, Inflated(o, m), t, thr2)
              /\ CurrentThread' = NIL
      BY Zenon DEF MonitorEnterSlow, GiveUpProcessor
<1>2. /\ TypeOK /\ MonitorUnique /\ CurrentThread = t /\ ~fatal
      /\ UNCHANGED <<TimerQueue, lifeVars, hashVars>>
      /\ Owner(o) = t => Depth(o) < MaxDepth
      BY DEF SchedInv, LockInv, MonitorEnterSlow, Running
<1>3. /\ Inflated(o, m) \in MonitorStruct
      /\ Inflated(o, m).owner = Owner(o) /\ Inflated(o, m).depth = Depth(o)
      /\ Inflated(o, m).hashCode = StoredHash(o)
      /\ Inflated(o, m).monitor_waitq = monitor[m].monitor_waitq
      /\ Inflated(o, m).condvar_waitq = monitor[m].condvar_waitq
      BY <1>1, <1>2, AttachEffect
<1>4. /\ Sound(Inflated(o, m))
      /\ Owner(o) # NIL => DepthFits(Depth(o))
      BY <1>1, InflatedSound
<1>5. /\ thr \in [Threads -> ThreadStruct] /\ SamePlace(thread, thr)
      /\ \A u \in Threads : thr[u].lockHash = thread[u].lockHash
      /\ \A u \in Threads : thr[u].lockDepth \in {0, thread[u].lockDepth}
      BY <1>2, AfterUpgradeEffect
<1>6. \A u \in Threads : thr[u].lockDepth <= MaxDepth
      BY <1>5, LockDepths
<1> HIDE DEF thr
<1>7. CASE /\ Owner(o) \in {NIL, t} /\ monitor' = [monitor EXCEPT ![m] = mon1(m)]
           /\ thread' = thr
           /\ UNCHANGED <<CurrentThread, RunnableThreads, fatal>>
  <2>1. monitor'[m] = mon1(m) /\ \A k \in Monitors : k # m => monitor'[k] = monitor[k]
        BY <1>2, <1>7 DEF TypeOK
  <2>2. /\ mon1(m).owner = t /\ mon1(m).depth = (IF Owner(o) = NIL THEN 1 ELSE Depth(o) + 1)
        /\ mon1(m).hashCode = StoredHash(o)
        /\ mon1(m).monitor_waitq = monitor[m].monitor_waitq
        /\ mon1(m).condvar_waitq = monitor[m].condvar_waitq
        BY <1>3 DEF MonitorStruct
  <2> HIDE DEF mon1
  <2>3. DepthFits(mon1(m).depth)
        BY <1>2, <1>4, <1>7, <2>2, LockDepths DEF DepthFits
  <2>4. OnlyMonitor(m, mon1(m))
        BY <2>1, <2>2, <2>3, CallsDiffer DEF OnlyMonitor, Sound
  <2>5. SameQueues(monitor, monitor')
        BY <2>1, <2>2 DEF SameQueues
  <2>6. /\ Places(CurrentThread', RunnableThreads', TimerQueue', thread', monitor')
        /\ SameLife(thread, thread')
        BY <1>2, <1>5, <1>6, <1>7, <2>5, StillPlaces
  <2>7. SameHash(thread, thread') /\ ~fatal'
        BY <1>2, <1>5, <1>7 DEF SameHash
  <2> QED
        BY <1>1, <1>2, <2>2, <2>4, <2>6, <2>7, AttachStep
<1>8. CASE /\ Owner(o) \notin {NIL, t} /\ addMonitorWait(m, Inflated(o, m), t, thr2)
           /\ CurrentThread' = NIL
  <2>1. PICK mons \in [Monitors -> MonitorStruct] :
          mons[m] = Inflated(o, m) /\ \A k \in Monitors : k # m => mons[k] = monitor[k]
        BY <1>2, <1>3, TableWith
  <2>2. /\ thr1 \in [Threads -> ThreadStruct]
        /\ \A u \in Threads : u # t => thr1[u] = thr[u]
        /\ thr1[t].state = thr[t].state \cup {"SUSPENDED"}
        /\ thr1[t].wakeup = thr[t].wakeup /\ thr1[t].wakeupCall = thr[t].wakeupCall
        /\ thr1[t].lockDepth = thr[t].lockDepth /\ thr1[t].lockHash = thr[t].lockHash
        BY <1>5, SuspendedEffect
  <2> HIDE DEF thr1
  <2>3. \A u \in Threads : u # t => thr2[u] = thr1[u]
        BY <2>2
  <2>4. thr1[t] \in ThreadStruct /\ thr2[t] = [thr1[t] EXCEPT !.monitor_depth = 1]
        BY <2>2
  <2>5. /\ thr2[t].state = thr1[t].state /\ thr2[t].monitor_depth = 1
        /\ thr2[t].wakeup = thr1[t].wakeup /\ thr2[t].wakeupCall = thr1[t].wakeupCall
        /\ thr2[t].lockDepth = thr1[t].lockDepth /\ thr2[t].lockHash = thr1[t].lockHash
        /\ thr2[t] \in ThreadStruct
        BY <2>4 DEF ThreadStruct
  <2>6. thr2 \in [Threads -> ThreadStruct]
        BY <2>2, <2>5
  <2>7. addMonitorWait(m, Inflated(o, m), t, thr2)
        BY <1>8
  <2> HIDE DEF thr2
  <2>8. thr2[t].state = Asleep /\ thr2[t].wakeupCall = NIL
        BY <1>2, <1>5, <2>2, <2>5, RunningPlace, StateChanges DEF SamePlace
  <2>9. Away(t, NIL, RunnableThreads, TimerQueue, thr2, mons)
    <3>1. SameQueues(monitor, mons)
          BY <1>3, <2>1 DEF SameQueues
    <3>2. DepthFits(1)
          BY LockDepths DEF DepthFits
    <3>3. /\ \A u \in Threads : u # t =>
               /\ thr2[u].state = thread[u].state /\ thr2[u].monitor = thread[u].monitor
               /\ thr2[u].monitor_depth = thread[u].monitor_depth
               /\ thr2[u].wakeupCall = thread[u].wakeupCall
               /\ thr2[u].pendingException = thread[u].pendingException
          /\ \A u \in Threads : thr2[u].wakeup = thread[u].wakeup
          /\ \A u \in Threads : thr2[u].lockDepth <= MaxDepth
          BY <1>5, <1>6, <2>2, <2>3, <2>5 DEF SamePlace
    <3> QED
          BY <1>2, <2>5, <2>8, <3>1, <3>2, <3>3, LeavesProcessor
  <2>10. /\ Places(NIL, RunnableThreads', TimerQueue, thread', monitor')
         /\ Kept(thr2, thread') /\ fatal' = fatal /\ OnlyMonitor(m, Inflated(o, m))
    <3>1. TimerQueue \in Seq(Threads)
          BY <1>2 DEF TypeOK
    <3>2. CurrentThread \in Threads => thr2[CurrentThread].state \notin {Entering, Woken}
          BY <1>2, <2>8, StatesDiffer
    <3> QED
          BY <1>2, <1>3, <1>4, <1>8, <2>1, <2>6, <2>7, <2>9, <3>1, <3>2, AddMonitorWaitPlaces
  <2>11. SameLife(thread, thread') /\ SameHash(thread, thread')
    <3>1. thr2[t].state \notin Lifeless /\ thread[t].state \notin Lifeless
          BY <1>2, <2>8, RunningPlace, StatesDiffer DEF Alive
    <3>2. \A u \in Threads : u # t => thr2[u].state = thread[u].state
          BY <1>5, <2>2, <2>3 DEF SamePlace
    <3>3. \A u \in Threads : thr2[u].lockHash = thread[u].lockHash
          BY <1>5, <2>2, <2>3, <2>5
    <3> QED
          BY <2>10, <3>1, <3>2, <3>3 DEF SameLife, SameHash, Kept
  <2> QED
        BY <1>1, <1>2, <1>3, <1>8, <2>10, <2>11, AttachStep
<1> QED
      BY <1>1, <1>7, <1>8

LEMMA MonitorExitSlowSched ==
  ASSUME SchedInv, LockInv', NEW t \in Threads, NEW o \in Objects, MonitorExitSlow(t, o)
  PROVE  SchedInv'
<1> DEFINE m == mhc[o].monitor
           mon == [monitor[m] EXCEPT !.depth = @ - 1]
<1>1. /\ TypeOK /\ CurrentThread = t /\ ~fatal /\ mhc[o].tag = "MONITOR" /\ Owner(o) = t
      /\ UNCHANGED <<CurrentThread, TimerQueue, lifeVars, hashVars>>
      /\ mhc[o] \in MHC /\ mhc \in [Objects -> MHC] /\ thread \in [Threads -> ThreadStruct]
      BY DEF SchedInv, LockInv, TypeOK, MonitorExitSlow, Running
<1>2. m \in Monitors /\ mhc[o] = Real(m) /\ Serves(mhc, m)
      BY <1>1, WordCases DEF Serves
<1>3. \/ /\ mon.depth # 0
         /\ monitor' = [monitor EXCEPT ![m] = mon]
         /\ UNCHANGED <<thread, RunnableThreads, fatal, mhc, MonitorCache>>
      \/ /\ mon.depth = 0
         /\ removeMonitorWait(m, mon, thread)
         /\ UNCHANGED <<mhc, MonitorCache>>
      \/ /\ mon.depth = 0 /\ IsDead(mon)
         /\ mhc' = [mhc EXCEPT ![o] = Unlocked(mon.hashCode)]
         /\ MonitorCache' = <<m>> \o MonitorCache
         /\ monitor' = [monitor EXCEPT ![m] = [mon EXCEPT !.owner = NIL]]
         /\ UNCHANGED <<thread, RunnableThreads, fatal>>
      BY Zenon DEF MonitorExitSlow
<1>4. monitor[m].owner = t /\ monitor[m].owner # NIL /\ DepthFits(monitor[m].depth)
  <2>1. monitor[m].owner = t
        BY <1>1 DEF Owner
  <2> QED
        BY <1>2, <2>1, CallsDiffer DEF SchedInv, Sound
<1> HIDE DEF m
<1>5. monitor[m] \in MonitorStruct
      BY <1>1, <1>2 DEF TypeOK
<1>6. /\ mon.owner = t /\ mon.depth = monitor[m].depth - 1 /\ mon.hashCode = monitor[m].hashCode
      /\ mon.monitor_waitq = monitor[m].monitor_waitq
      /\ mon.condvar_waitq = monitor[m].condvar_waitq
      /\ monitor[m].depth \in Int
      /\ mon \in MonitorStruct
      BY <1>4, <1>5 DEF MonitorStruct
<1> HIDE DEF mon
<1>7. CASE /\ mon.depth # 0
           /\ monitor' = [monitor EXCEPT ![m] = mon]
           /\ UNCHANGED <<thread, RunnableThreads, fatal, mhc, MonitorCache>>
  <2>1. monitor'[m] = mon /\ \A k \in Monitors : k # m => monitor'[k] = monitor[k]
        BY <1>1, <1>2, <1>7 DEF TypeOK
  <2>2. DepthFits(mon.depth)
        BY <1>4, <1>6, <1>7, LockDepths DEF DepthFits
  <2>3. OnlyMonitor(m, monitor[m])
        BY <1>4, <1>6, <2>1, <2>2 DEF OnlyMonitor, Sound
  <2>4. SameQueues(monitor, monitor')
        BY <1>6, <2>1 DEF SameQueues
  <2>5. /\ Places(CurrentThread', RunnableThreads', TimerQueue', thread', monitor')
        /\ SameLife(thread, thread')
        BY <1>1, <1>7, <2>4, LockDepths, SamePlaceSelf, StillPlaces
  <2> QED
        BY <1>1, <1>2, <1>7, <2>3, <2>5, SameWordsStep DEF SameHash
<1>8. CASE /\ mon.depth = 0
           /\ removeMonitorWait(m, mon, thread)
           /\ UNCHANGED <<mhc, MonitorCache>>
  <2>1. PICK mons \in [Monitors -> MonitorStruct] :
          mons[m] = mon /\ \A k \in Monitors : k # m => mons[k] = monitor[k]
        BY <1>1, <1>2, <1>6, TableWith
  <2>2. Places(CurrentThread, RunnableThreads, TimerQueue, thread, mons)
    <3>1. SameQueues(monitor, mons)
          BY <1>6, <2>1 DEF SameQueues
    <3> QED
          BY <3>1, LockDepths, PlacesSame, SamePlaceSelf DEF SchedInv
  <2>3. thread[CurrentThread].state \notin {Entering, Woken}
        BY <1>1, RunningPlace, StatesDiffer
  <2>4. TimerQueue \in Seq(Threads)
        BY <1>1 DEF TypeOK
  <2>5. /\ Places(CurrentThread, RunnableThreads', TimerQueue, thread', monitor')
        /\ Kept(thread, thread') /\ fatal' = fatal /\ OnlyMonitor(m, mon)
        BY <1>1, <1>2, <1>6, <1>8, <2>1, <2>2, <2>3, <2>4, HandOverPlaces, ZenonT(60)
  <2>6. OnlyMonitor(m, monitor[m]) /\ SameLife(thread, thread') /\ SameHash(thread, thread')
        BY <1>6, <2>5 DEF OnlyMonitor, SameLife, SameHash, Kept
  <2> QED
        BY <1>1, <1>2, <1>8, <2>5, <2>6, SameWordsStep
<1>9. CASE /\ mon.depth = 0 /\ IsDead(mon)
           /\ mhc' = [mhc EXCEPT ![o] = Unlocked(mon.hashCode)]
           /\ MonitorCache' = <<m>> \o MonitorCache
           /\ monitor' = [monitor EXCEPT ![m] = [mon EXCEPT !.owner = NIL]]
           /\ UNCHANGED <<thread, RunnableThreads, fatal>>
  <2>1. /\ monitor'[m] = [mon EXCEPT !.owner = NIL]
        /\ \A k \in Monitors : k # m => monitor'[k] = monitor[k]
        /\ mhc'[o] = Unlocked(mon.hashCode) /\ \A p \in Objects : p # o => mhc'[p] = mhc[p]
        BY <1>1, <1>2, <1>9 DEF TypeOK
  <2>2. /\ IsClean(monitor'[m]) /\ monitor'[m].hashCode = monitor[m].hashCode
        /\ monitor'[m].monitor_waitq = monitor[m].monitor_waitq
        /\ monitor'[m].condvar_waitq = monitor[m].condvar_waitq
        BY <1>6, <1>9, <2>1 DEF MonitorStruct, IsDead, IsClean
  <2>3. UniqueWords(mhc, MonitorCache) /\ \A k \in Monitors : ~Serves(mhc, k) => IsClean(monitor[k])
        BY <1>1, UniqueParts DEF SchedInv
  <2>4. mhc'[o].tag = "UNLOCKED" /\ mhc'[o].hashCode = monitor[m].hashCode
        BY <1>6, <2>1 DEF Unlocked
  <2>5. \A k : Serves(mhc', k) <=> Serves(mhc, k) /\ k # m
    <3>1. \A k : mhc'[o] # Real(k)
          BY <2>4, WordsDiffer
    <3>2. \A p \in Objects : p # o => mhc[p] # Real(m)
          BY <1>1, <1>2, <2>3 DEF UniqueWords
    <3>3. \A k : mhc[o] = Real(k) => k = m
          BY <1>2 DEF Real
    <3> QED
          BY <2>1, <3>1, <3>2, <3>3 DEF Serves
  <2>6. UniqueWords(mhc', MonitorCache')
    <3>1. MonitorCache \in Seq(Monitors) /\ IsInjective(MonitorCache) /\ ~Contains(MonitorCache, m)
          BY <1>1, <1>2, <2>3 DEF TypeOK, UniqueWords
    <3>2. /\ IsInjective(MonitorCache')
          /\ \A u : Contains(MonitorCache', u) <=> Contains(MonitorCache, u) \/ u = m
          BY <1>2, <1>9, <3>1, PrependEffect
    <3>3. \A p, q \in Objects : mhc'[p].tag = "MONITOR" /\ mhc'[q] = mhc'[p] => p = q
          BY <2>1, <2>3, <2>4 DEF UniqueWords
    <3> QED
          BY <2>3, <2>5, <3>2, <3>3 DEF UniqueWords
  <2>7. TypeOK'
        BY DEF LockInv
  <2>8. MonitorUnique'
        BY <2>1, <2>2, <2>3, <2>5, <2>6, <2>7, UniquePartsNext
  <2>9. \A k \in Monitors : Sound(monitor'[k])
        BY <2>1, <2>2 DEF SchedInv, Sound, IsClean
  <2>10. ASSUME NEW p \in Objects PROVE StoredHash(p)' = StoredHash(p)
    <3>1. CASE p = o
      <4>1. StoredHash(o)' = monitor[m].hashCode
            BY <2>4 DEF StoredHash
      <4>2. StoredHash(o) = monitor[m].hashCode
            BY <1>1, <1>2 DEF StoredHash, Real
      <4> QED
            BY <3>1, <4>1, <4>2
    <3>2. CASE p # o
      <4>1. \A k \in Monitors : monitor'[k].hashCode = monitor[k].hashCode
            BY <2>1, <2>2
      <4> QED
            BY <1>1, <1>9, <2>1, <2>7, <3>2, <4>1, HashSame DEF SameHash
    <3> QED
          BY <3>1, <3>2
  <2>11. HashKnown'
        BY <1>1, <2>10, HashKept DEF SchedInv, hashVars
  <2>12. SameQueues(monitor, monitor')
        BY <2>1, <2>2 DEF SameQueues
  <2>13. /\ Places(CurrentThread', RunnableThreads', TimerQueue', thread', monitor')
         /\ SameLife(thread, thread')
        BY <1>1, <1>9, <2>12, LockDepths, SamePlaceSelf, StillPlaces
  <2>14. Counted(thread', AllThreads', AliveThreadCount')
        BY <1>1, <2>13, CountedKept DEF SchedInv, lifeVars
  <2> QED
        BY <1>1, <1>9, <2>8, <2>9, <2>11, <2>13, <2>14 DEF SchedInv
<1> QED
      BY <1>3, <1>7, <1>8, <1>9

-----------------------------------------------------------------------------
(* Alarms                                                                  *)

(* registerAlarm for a thread that has no alarm; thr is thread but for     *)
(* what does not concern the alarms.                                       *)
LEMMA AlarmEffect ==
  ASSUME SchedInv, NEW t \in Threads, ~Contains(TimerQueue, t), NEW delta \in Nat,
         NEW call \in {"resumeThread", "monitorWaitAlarm"},
         NEW thr \in [Threads -> ThreadStruct],
         \A u \in Threads : thr[u].wakeup = thread[u].wakeup,
         NEW thr2, thr2 = WithAlarm(thr, t, delta, call),
         NEW q, q = registerAlarm(t, delta)
  PROVE  /\ thr2 \in [Threads -> ThreadStruct]
         /\ \A u \in Threads : u # t => thr2[u] = thr[u]
         /\ thr2[t].wakeupCall = (IF delta = 0 THEN thr[t].wakeupCall ELSE call)
         /\ thr2[t].state = thr[t].state /\ thr2[t].monitor = thr[t].monitor
         /\ thr2[t].monitor_depth = thr[t].monitor_depth
         /\ thr2[t].pendingException = thr[t].pendingException
         /\ thr2[t].lockDepth = thr[t].lockDepth /\ thr2[t].lockHash = thr[t].lockHash
         /\ q \in Seq(Threads) /\ IsInjective(q) /\ SortedBy(q, [u \in Threads |-> thr2[u].wakeup])
         /\ \A u : Contains(q, u) <=> Contains(TimerQueue, u) \/ (u = t /\ delta # 0)
<1>1. /\ TypeOK /\ TimerQueue \in Seq(Threads)
      /\ IsInjective(TimerQueue) /\ SortedBy(TimerQueue, [u \in Threads |-> thread[u].wakeup])
      BY DEF SchedInv, LockInv, TypeOK, Places, Ordered
<1>2. CASE delta = 0
  <2>1. thr2 = thr /\ q = TimerQueue
        BY <1>2 DEF WithAlarm, registerAlarm
  <2>2. [u \in Threads |-> thr2[u].wakeup] = [u \in Threads |-> thread[u].wakeup]
        BY <2>1
  <2> QED
        BY <1>1, <1>2, <2>1, <2>2
<1>3. CASE delta # 0
  <2>1. thr2 = [thr EXCEPT ![t].wakeup = delta, ![t].wakeupCall = call]
        BY <1>3 DEF WithAlarm
  <2>2. thr[t] \in ThreadStruct /\ thr2[t] = [thr[t] EXCEPT !.wakeup = delta, !.wakeupCall = call]
        BY <2>1
  <2>3. /\ thr2[t] \in ThreadStruct /\ thr2[t].wakeup = delta /\ thr2[t].wakeupCall = call
        /\ thr2[t].state = thr[t].state /\ thr2[t].monitor = thr[t].monitor
        /\ thr2[t].monitor_depth = thr[t].monitor_depth
        /\ thr2[t].pendingException = thr[t].pendingException
        /\ thr2[t].lockDepth = thr[t].lockDepth /\ thr2[t].lockHash = thr[t].lockHash
        BY <2>2 DEF ThreadStruct
  <2>4. /\ thr2 \in [Threads -> ThreadStruct] /\ \A u \in Threads : u # t => thr2[u] = thr[u]
        BY <2>1, <2>2, <2>3
  <2> DEFINE w == [u \in Threads |-> thr2[u].wakeup]
  <2>5. \A u \in Threads : thr2[u].wakeup \in Nat
        BY <2>4 DEF ThreadStruct
  <2>6. /\ w \in [Threads -> Nat] /\ w[t] = delta
        /\ \A u \in Threads : u # t => w[u] = thread[u].wakeup
        BY <2>3, <2>4, <2>5
  <2> HIDE DEF w
  <2>7. /\ q \in Seq(Threads) /\ IsInjective(q) /\ SortedBy(q, w)
        /\ \A u : Contains(q, u) <=> Contains(TimerQueue, u) \/ u = t
        BY <1>1, <1>3, <2>6, RegisterEffect, ZenonT(60)
  <2> QED
        BY <1>3, <2>3, <2>4, <2>7 DEF w
<1> QED
      BY <1>2, <1>3

(* A short holds the depths that programs reach.                           *)
LEMMA AsShortKeeps ==
  ASSUME NEW d \in Int, DepthFits(d)
  PROVE  DepthFits(AsShort(d)) /\ (MaxDepth <= ShortMax => AsShort(d) = d)
<1> SUFFICES ASSUME MaxDepth <= ShortMax PROVE AsShort(d) = d
    BY DEF DepthFits
<1> DEFINE a == d + ShortMax + 1
           b == 2 * ShortMax + 2
<1>1. ShortMax \in Nat /\ MaxDepth \in Nat /\ d \in 1..MaxDepth
      BY BoundsAssumption DEF DepthFits
<1>2. a \in Int /\ b \in Int /\ 0 <= a /\ a < b
      BY <1>1
<1>3. AsShort(d) = (a % b) - ShortMax - 1
      BY DEF AsShort
<1> HIDE DEF b
<1>4. a % b = a
  <2> HIDE DEF a
  <2> QED
      BY <1>2
<1> QED
      BY <1>1, <1>3, <1>4

-----------------------------------------------------------------------------
(* Object.wait and Object.notify                                           *)

(* The flag isPendingInterrupt is set or taken back.                       *)
PendingSet(thr, t)   == [thr EXCEPT ![t].isPendingInterrupt = TRUE]
PendingTaken(thr, t) == [thr EXCEPT ![t].isPendingInterrupt = FALSE]

LEMMA PendingField ==
  ASSUME NEW thr \in [Threads -> ThreadStruct], NEW t \in Threads, NEW thr2,
         thr2 \in {PendingSet(thr, t), PendingTaken(thr, t)}
  PROVE  /\ SamePlace(thr, thr2)
         /\ \A u \in Threads : /\ thr2[u].lockDepth = thr[u].lockDepth
                               /\ thr2[u].lockHash = thr[u].lockHash
<1>1. \A u \in Threads : u # t => thr2[u] = thr[u]
      BY DEF PendingSet, PendingTaken
<1>2. /\ thr[t] \in ThreadStruct
      /\ thr2[t] \in {[thr[t] EXCEPT !.isPendingInterrupt = b] : b \in BOOLEAN}
      BY DEF PendingSet, PendingTaken
<1>3. /\ thr2[t].state = thr[t].state /\ thr2[t].monitor = thr[t].monitor
      /\ thr2[t].monitor_depth = thr[t].monitor_depth
      /\ thr2[t].wakeup = thr[t].wakeup /\ thr2[t].wakeupCall = thr[t].wakeupCall
      /\ thr2[t].pendingException = thr[t].pendingException
      /\ thr2[t].lockDepth = thr[t].lockDepth /\ thr2[t].lockHash = thr[t].lockHash
      BY <1>2 DEF ThreadStruct
<1> QED
      BY <1>1, <1>3 DEF SamePlace

(* A thread that starts to wait on m.                                      *)
WaitSet(thr, t, d, m) ==
  [[thr EXCEPT ![t].state = @ \cup {"CONVAR_WAIT"}, ![t].monitor_depth = d]
     EXCEPT ![t].monitor = m]

LEMMA WaitFields ==
  ASSUME NEW thr \in [Threads -> ThreadStruct], NEW t \in Threads, NEW d \in Int,
         NEW m \in Monitors, NEW thr2, thr2 = WaitSet(thr, t, d, m)
  PROVE  /\ thr2 \in [Threads -> ThreadStruct]
         /\ \A u \in Threads : u # t => thr2[u] = thr[u]
         /\ thr2[t].state = thr[t].state \cup {"CONVAR_WAIT"}
         /\ thr2[t].monitor = m /\ thr2[t].monitor_depth = d
         /\ thr2[t].wakeup = thr[t].wakeup /\ thr2[t].wakeupCall = thr[t].wakeupCall
         /\ thr2[t].pendingException = thr[t].pendingException
         /\ thr2[t].lockDepth = thr[t].lockDepth /\ thr2[t].lockHash = thr[t].lockHash
<1>1. \A u \in Threads : u # t => thr2[u] = thr[u]
      BY DEF WaitSet
<1>2. /\ thr[t] \in ThreadStruct /\ "CONVAR_WAIT" \in ThreadState
      /\ thr2[t] = [thr[t] EXCEPT !.state = @ \cup {"CONVAR_WAIT"}, !.monitor_depth = d,
                                  !.monitor = m]
      BY DEF WaitSet, ThreadState
<1>3. /\ thr2[t].state = thr[t].state \cup {"CONVAR_WAIT"}
      /\ thr2[t].monitor = m /\ thr2[t].monitor_depth = d
      /\ thr2[t].wakeup = thr[t].wakeup /\ thr2[t].wakeupCall = thr[t].wakeupCall
      /\ thr2[t].pendingException = thr[t].pendingException
      /\ thr2[t].lockDepth = thr[t].lockDepth /\ thr2[t].lockHash = thr[t].lockHash
      BY <1>2 DEF ThreadStruct
<1>5. thr2[t] \in ThreadStruct
  <2>1. \A r \in ThreadStruct, s \in SUBSET ThreadState :
          [r EXCEPT !.state = @ \cup s, !.monitor_depth = d, !.monitor = m] \in ThreadStruct
        BY DEF ThreadStruct
  <2>2. {"CONVAR_WAIT"} \in SUBSET ThreadState
        BY <1>2
  <2> QED
        BY <1>2, <2>1, <2>2
<1>4. thr2 \in [Threads -> ThreadStruct]
      BY <1>1, <1>5 DEF WaitSet
<1> QED
      BY <1>1, <1>3, <1>4

(* The running thread t is in wait() on m, and not yet of the monitors.    *)
LEMMA WaitPlaces ==
  ASSUME SchedInv, NEW t \in Threads, CurrentThread = t, NEW m \in Monitors,
         NEW thr, NEW q, NEW delta \in Nat,
         NEW mons \in [Monitors -> MonitorStruct],
         \A k \in Monitors : mons[k].monitor_waitq = monitor[k].monitor_waitq,
         \A k \in Monitors : k # m => mons[k].condvar_waitq = monitor[k].condvar_waitq,
         mons[m].condvar_waitq = addThreadToQueue(monitor[m].condvar_waitq, t),
         \A u \in Threads : u # t =>
           /\ thr[u].state = thread[u].state
           /\ thr[u].monitor = thread[u].monitor /\ thr[u].monitor_depth = thread[u].monitor_depth
           /\ thr[u].wakeupCall = thread[u].wakeupCall
           /\ thr[u].pendingException = thread[u].pendingException,
         \A u \in Threads : thr[u].lockDepth <= MaxDepth,
         IsInjective(q), SortedBy(q, [u \in Threads |-> thr[u].wakeup]),
         \A u : Contains(q, u) <=> Contains(TimerQueue, u) \/ (u = t /\ delta # 0),
         thr[t].state = Waiting, thr[t].monitor = m, DepthFits(thr[t].monitor_depth),
         thr[t].wakeupCall = IF delta = 0 THEN NIL ELSE "monitorWaitAlarm"
  PROVE  Places(NIL, RunnableThreads, q, thr, mons)
<1>1. /\ ~Contains(RunnableThreads, t) /\ ~Contains(TimerQueue, t)
      /\ \A k \in Monitors : /\ ~Contains(monitor[k].monitor_waitq, t)
                             /\ ~Contains(monitor[k].condvar_waitq, t)
      BY RunningPlace
<1>2. /\ Ordered(RunnableThreads, TimerQueue, thread, monitor)
      /\ \A u \in Threads : Placed(u, CurrentThread, RunnableThreads, TimerQueue, thread, monitor)
      BY DEF SchedInv, Places
<1>3. /\ IsInjective(mons[m].condvar_waitq)
      /\ \A u : Contains(mons[m].condvar_waitq, u)
                  <=> Contains(monitor[m].condvar_waitq, u) \/ u = t
  <2>1. monitor[m].condvar_waitq \in Seq(Threads) /\ IsInjective(monitor[m].condvar_waitq)
        BY <1>2 DEF SchedInv, LockInv, TypeOK, MonitorStruct, Ordered
  <2> QED
        BY <1>1, <2>1, AppendEffect
<1>4. Ordered(RunnableThreads, q, thr, mons)
      BY <1>2, <1>3 DEF Ordered
<1>5. ASSUME NEW u \in Threads, u # t PROVE Placed(u, NIL, RunnableThreads, q, thr, mons)
  <2>1. CurrentThread # u /\ NIL # u
        BY <1>5, CallsDiffer
  <2>2. \A k \in Monitors :
          /\ Contains(mons[k].monitor_waitq, u) <=> Contains(monitor[k].monitor_waitq, u)
          /\ Contains(mons[k].condvar_waitq, u) <=> Contains(monitor[k].condvar_waitq, u)
        BY <1>3, <1>5
  <2>3. Placed(u, CurrentThread, RunnableThreads, TimerQueue, thread, monitor)
        BY <1>2
  <2>4. Contains(q, u) <=> Contains(TimerQueue, u)
        BY <1>5
  <2>5. /\ thr[u].state = thread[u].state
        /\ thr[u].monitor = thread[u].monitor /\ thr[u].monitor_depth = thread[u].monitor_depth
        /\ thr[u].wakeupCall = thread[u].wakeupCall
        /\ thr[u].pendingException = thread[u].pendingException
        /\ thr[u].lockDepth <= MaxDepth
        BY <1>5
  <2> QED
        BY <2>1, <2>2, <2>3, <2>4, <2>5 DEF Placed
<1>6. Placed(t, NIL, RunnableThreads, q, thr, mons)
  <2>1. \A k \in Monitors : /\ ~Contains(mons[k].monitor_waitq, t)
                            /\ Contains(mons[k].condvar_waitq, t) <=> k = m
        BY <1>1, <1>3
  <2>2. thr[t].state \in Alive /\ thr[t].state # Ready /\ thr[t].state # Asleep
        /\ thr[t].state # Entering /\ thr[t].state # Woken
        BY StatesDiffer DEF Alive
  <2>3. Contains(q, t) <=> delta # 0
        BY <1>1
  <2> QED
        BY <1>1, <2>1, <2>2, <2>3, CallsDiffer DEF Placed
<1> QED
      BY <1>4, <1>5, <1>6 DEF Places

LEMMA MonitorWaitSched ==
  ASSUME SchedInv, LockInv', NEW t \in Threads, NEW o \in Objects, NEW delta \in WaitTimes,
         MonitorWait(t, o, delta)
  PROVE  SchedInv'
<1> DEFINE thr  == AfterUpgrade(o)
           thr1 == Suspended(thr, t)
           thr2 == WithAlarm(thr1, t, delta, "monitorWaitAlarm")
           d    == AsShort(Depth(o))
           mon(m) == [Inflated(o, m) EXCEPT !.condvar_waitq = addThreadToQueue(@, t)]
           thr3(m) == WaitSet(thr2, t, d, m)
<1>1. PICK m \in Monitors :
        /\ Attach(o, m)
        /\ \/ /\ monitor' = [monitor EXCEPT ![m] = Inflated(o, m)]
              /\ thread' = thr
              /\ UNCHANGED <<CurrentThread, RunnableThreads, TimerQueue, phase, fatal>>
           \/ /\ monitor' = [monitor EXCEPT ![m] = Inflated(o, m)]
              /\ thread' = PendingTaken(thr, t)
              /\ UNCHANGED <<CurrentThread, RunnableThreads, TimerQueue, phase, fatal>>
           \/ /\ Owner(o) = t
              /\ removeMonitorWait(m, mon(m), thr3(m))
              /\ TimerQueue' = registerAlarm(t, delta)
              /\ CurrentThread' = NIL
      BY Zenon DEF MonitorWait, GiveUpProcessor, PendingTaken, WaitSet
<1>2. /\ TypeOK /\ MonitorUnique /\ CurrentThread = t /\ ~fatal
      /\ UNCHANGED <<lifeVars, hashVars>> /\ delta \in Nat
      BY BoundsAssumption DEF SchedInv, LockInv, MonitorWait, Running
<1>3. /\ Inflated(o, m) \in MonitorStruct
      /\ Inflated(o, m).owner = Owner(o) /\ Inflated(o, m).depth = Depth(o)
      /\ Inflated(o, m).hashCode = StoredHash(o)
      /\ Inflated(o, m).monitor_waitq = monitor[m].monitor_waitq
      /\ Inflated(o, m).condvar_waitq = monitor[m].condvar_waitq
      BY <1>1, <1>2, AttachEffect
<1>4. /\ Sound(Inflated(o, m))
      /\ Owner(o) # NIL => DepthFits(Depth(o))
      BY <1>1, InflatedSound
<1>5. /\ thr \in [Threads -> ThreadStruct] /\ SamePlace(thread, thr)
      /\ \A u \in Threads : thr[u].lockHash = thread[u].lockHash
      /\ \A u \in Threads : thr[u].lockDepth \in {0, thread[u].lockDepth}
      BY <1>2, AfterUpgradeEffect
<1>6. \A u \in Threads : thr[u].lockDepth <= MaxDepth
      BY <1>5, LockDepths
<1> HIDE DEF thr, mon, thr3
<1>7. CASE /\ monitor' = [monitor EXCEPT ![m] = Inflated(o, m)]
           /\ thread' \in {thr, PendingTaken(thr, t)}
           /\ UNCHANGED <<CurrentThread, RunnableThreads, TimerQueue, phase, fatal>>
  <2>1. /\ SamePlace(thr, thread')
        /\ \A u \in Threads : /\ thread'[u].lockDepth = thr[u].lockDepth
                              /\ thread'[u].lockHash = thr[u].lockHash
    <3>1. CASE thread' = thr
          BY <3>1 DEF SamePlace
    <3>2. CASE thread' = PendingTaken(thr, t)
          BY <1>5, <3>2, PendingField
    <3> QED
          BY <1>7, <3>1, <3>2
  <2>2. SamePlace(thread, thread')
        BY <1>5, <2>1 DEF SamePlace
  <2>3. monitor'[m] = Inflated(o, m) /\ \A k \in Monitors : k # m => monitor'[k] = monitor[k]
        BY <1>2, <1>7 DEF TypeOK
  <2>4. SameQueues(monitor, monitor')
        BY <1>3, <2>3 DEF SameQueues
  <2>5. OnlyMonitor(m, Inflated(o, m))
        BY <1>4, <2>3 DEF OnlyMonitor
  <2>6. /\ Places(CurrentThread', RunnableThreads', TimerQueue', thread', monitor')
        /\ SameLife(thread, thread')
        BY <1>6, <1>7, <2>1, <2>2, <2>4, StillPlaces
  <2>7. SameHash(thread, thread')
        BY <1>5, <2>1 DEF SameHash
  <2>8. ~fatal'
        BY <1>2, <1>7
  <2> QED
        BY <1>1, <1>2, <1>3, <2>5, <2>6, <2>7, <2>8, AttachStep
<1>8. CASE /\ Owner(o) = t
           /\ removeMonitorWait(m, mon(m), thr3(m))
           /\ TimerQueue' = registerAlarm(t, delta)
           /\ CurrentThread' = NIL
  <2>1. Owner(o) # NIL /\ DepthFits(Depth(o)) /\ Depth(o) \in Int
    <3>1. Depth(o) \in Int
          BY <1>3 DEF MonitorStruct
    <3> QED
          BY <1>4, <1>8, <3>1, CallsDiffer
  <2>2. DepthFits(d) /\ d \in Int
        BY <2>1, AsShortKeeps, AsShortType
  <2>3. /\ thr1 \in [Threads -> ThreadStruct]
        /\ \A u \in Threads : u # t => thr1[u] = thr[u]
        /\ thr1[t].state = thr[t].state \cup {"SUSPENDED"}
        /\ thr1[t].wakeup = thr[t].wakeup /\ thr1[t].wakeupCall = thr[t].wakeupCall
        /\ thr1[t].lockDepth = thr[t].lockDepth /\ thr1[t].lockHash = thr[t].lockHash
        BY <1>5, SuspendedEffect
  <2> HIDE DEF thr1
  <2>4. /\ thread[t].state = Ready /\ thread[t].wakeupCall = NIL /\ ~Contains(TimerQueue, t)
        /\ ~Contains(monitor[m].condvar_waitq, t)
        BY <1>2, RunningPlace
  <2>5. \A u \in Threads : thr1[u].wakeup = thread[u].wakeup
        BY <1>5, <2>3 DEF SamePlace
  <2>6. /\ thr2 \in [Threads -> ThreadStruct]
        /\ \A u \in Threads : u # t => thr2[u] = thr1[u]
        /\ thr2[t].wakeupCall = (IF delta = 0 THEN thr1[t].wakeupCall ELSE "monitorWaitAlarm")
        /\ thr2[t].state = thr1[t].state
        /\ thr2[t].lockDepth = thr1[t].lockDepth /\ thr2[t].lockHash = thr1[t].lockHash
        /\ TimerQueue' \in Seq(Threads) /\ IsInjective(TimerQueue')
        /\ SortedBy(TimerQueue', [u \in Threads |-> thr2[u].wakeup])
        /\ \A u : Contains(TimerQueue', u) <=> Contains(TimerQueue, u) \/ (u = t /\ delta # 0)
        BY <1>2, <1>8, <2>3, <2>4, <2>5, AlarmEffect
  <2> HIDE DEF thr2, d
  <2> DEFINE th == thr3(m)
  <2>18. th = WaitSet(thr2, t, d, m) /\ removeMonitorWait(m, mon(m), th)
        BY <1>8 DEF thr3
  <2> HIDE DEF th
  <2>7. /\ th \in [Threads -> ThreadStruct]
        /\ \A u \in Threads : u # t => th[u] = thr2[u]
        /\ th[t].state = thr2[t].state \cup {"CONVAR_WAIT"}
        /\ th[t].monitor = m /\ th[t].monitor_depth = d
        /\ th[t].wakeup = thr2[t].wakeup /\ th[t].wakeupCall = thr2[t].wakeupCall
        /\ th[t].lockDepth = thr2[t].lockDepth /\ th[t].lockHash = thr2[t].lockHash
        BY <2>2, <2>6, <2>18, WaitFields
  <2>9. /\ th[t].state = Waiting
        /\ th[t].wakeupCall = IF delta = 0 THEN NIL ELSE "monitorWaitAlarm"
    <3>1. thr[t].state = Ready /\ thr[t].wakeupCall = NIL
          BY <1>5, <2>4 DEF SamePlace
    <3> QED
          BY <2>3, <2>6, <2>7, <3>1, StateChanges
  <2> DEFINE mo == mon(m)
  <2>10. /\ mo \in MonitorStruct /\ mo.owner = Owner(o) /\ mo.hashCode = StoredHash(o)
         /\ mo.monitor_waitq = monitor[m].monitor_waitq
         /\ mo.condvar_waitq = addThreadToQueue(monitor[m].condvar_waitq, t)
    <3>1. addThreadToQueue(Inflated(o, m).condvar_waitq, t) \in Seq(Threads)
          BY <1>3, AddType DEF MonitorStruct
    <3> QED
          BY <1>3, <3>1 DEF MonitorStruct, mon
  <2>11. removeMonitorWait(m, mo, th)
        BY <2>18
  <2> HIDE DEF mo
  <2>12. PICK mons \in [Monitors -> MonitorStruct] :
           mons[m] = mo /\ \A k \in Monitors : k # m => mons[k] = monitor[k]
        BY <1>2, <2>10, TableWith
  <2>13. \A u \in Threads : u # t =>
           /\ th[u].state = thread[u].state
           /\ th[u].monitor = thread[u].monitor /\ th[u].monitor_depth = thread[u].monitor_depth
           /\ th[u].wakeupCall = thread[u].wakeupCall
           /\ th[u].pendingException = thread[u].pendingException
        BY <1>5, <2>3, <2>6, <2>7 DEF SamePlace
  <2>14. \A u \in Threads : /\ th[u].lockDepth = thr[u].lockDepth
                            /\ th[u].lockHash = thr[u].lockHash /\ th[u].wakeup = thr2[u].wakeup
        BY <2>3, <2>6, <2>7
  <2>15. Places(NIL, RunnableThreads, TimerQueue', th, mons)
    <3>1. \A u \in Threads : th[u].lockDepth <= MaxDepth
          BY <1>6, <2>14
    <3>2. [u \in Threads |-> th[u].wakeup] = [u \in Threads |-> thr2[u].wakeup]
          BY <2>14
    <3>3. SortedBy(TimerQueue', [u \in Threads |-> th[u].wakeup])
          BY <2>6, <3>2
    <3>4. \A k \in Monitors : mons[k].monitor_waitq = monitor[k].monitor_waitq
          BY <2>10, <2>12
    <3>5. \A k \in Monitors : k # m => mons[k].condvar_waitq = monitor[k].condvar_waitq
          BY <2>12
    <3>6. mons[m].condvar_waitq = addThreadToQueue(monitor[m].condvar_waitq, t)
          BY <2>10, <2>12
    <3>7. DepthFits(th[t].monitor_depth) /\ th[t].monitor = m
          BY <2>2, <2>7
    <3> QED
          BY <1>2, <2>6, <2>9, <2>12, <2>13, <3>1, <3>3, <3>4, <3>5, <3>6, <3>7, WaitPlaces
  <2>16. /\ Places(NIL, RunnableThreads', TimerQueue', thread', monitor')
         /\ Kept(th, thread') /\ fatal' = fatal /\ OnlyMonitor(m, mo)
    <3>1. CurrentThread \in Threads => th[CurrentThread].state \notin {Entering, Woken}
          BY <1>2, <2>9, StatesDiffer
    <3> QED
          BY <1>2, <2>6, <2>7, <2>10, <2>11, <2>12, <2>15, <3>1, HandOverPlaces, SMTT(60)
  <2>17. SameLife(thread, thread') /\ SameHash(thread, thread')
    <3>1. th[t].state \notin Lifeless /\ thread[t].state \notin Lifeless
          BY <2>4, <2>9, StatesDiffer DEF Alive
    <3>2. \A u \in Threads : th[u].lockHash = thread[u].lockHash
          BY <1>5, <2>14
    <3> QED
          BY <2>13, <2>16, <3>1, <3>2 DEF SameLife, SameHash, Kept
  <2> QED
        BY <1>1, <1>2, <1>8, <2>10, <2>16, <2>17, AttachStep
<1> QED
      BY <1>1, <1>7, <1>8

LEMMA MonitorNotifySched ==
  ASSUME SchedInv, LockInv', NEW t \in Threads, NEW o \in Objects, NEW notifyAll \in BOOLEAN,
         MonitorNotify(t, o, notifyAll)
  PROVE  SchedInv'
<1> DEFINE m == mhc[o].monitor
           n == WaitersToWake(m, notifyAll)
<1>1. /\ TypeOK /\ CurrentThread = t /\ ~fatal /\ mhc[o].tag = "MONITOR"
      /\ removeCondvarWait(m, n, thread)
      /\ UNCHANGED <<CurrentThread, mhc, MonitorCache, lifeVars, hashVars>>
      /\ mhc[o] \in MHC /\ thread \in [Threads -> ThreadStruct]
      BY DEF SchedInv, LockInv, TypeOK, MonitorNotify, Running
<1>2. m \in Monitors /\ Serves(mhc, m)
      BY <1>1, WordCases DEF Serves
<1>3. n \in 0..Len(monitor[m].condvar_waitq)
      BY <1>1, <1>2, WaitersToWakeType
<1> HIDE DEF m, n
<1>4. thread[CurrentThread].state \notin {Entering, Waiting, Woken}
      BY <1>1, RunningPlace, StatesDiffer
<1>5. /\ Places(CurrentThread, RunnableThreads', TimerQueue', thread', monitor')
      /\ Kept(thread, thread') /\ fatal' = fatal /\ OnlyMonitor(m, monitor[m])
      BY <1>1, <1>2, <1>3, <1>4, RemoveCondvarWaitPlaces DEF SchedInv
<1>6. SameLife(thread, thread') /\ SameHash(thread, thread')
      BY <1>5 DEF Kept, SameLife, SameHash
<1> QED
      BY <1>1, <1>2, <1>5, <1>6, SameWordsStep

-----------------------------------------------------------------------------
(* Steps in which only the interpreter goes on                             *)

LEMMA IdleStep ==
  ASSUME SchedInv, LockInv',
         UNCHANGED <<CurrentThread, RunnableThreads, TimerQueue, thread, fatal, lifeVars, lockVars, hashVars>>
  PROVE  SchedInv'
<1>1. SamePlace(thread, thread') /\ SameQueues(monitor, monitor')
      /\ \A t \in Threads : thread'[t].lockDepth <= MaxDepth
      BY LockDepths DEF SamePlace, SameQueues, lockVars
<1>2. /\ Places(CurrentThread', RunnableThreads', TimerQueue', thread', monitor')
      /\ SameLife(thread, thread')
      BY <1>1, StillPlaces
<1>3. SameHash(thread, thread') /\ ~fatal'
      BY DEF SameHash, SchedInv
<1> QED
      BY <1>2, <1>3, SameMonitorsStep

LEMMA YieldSched ==
  ASSUME SchedInv, LockInv', NEW t \in Threads, Yield(t)
  PROVE  SchedInv'
BY IdleStep DEF Yield

LEMMA TimersDoneSched ==
  ASSUME SchedInv, LockInv', TimersDone
  PROVE  SchedInv'
BY IdleStep DEF TimersDone

LEMMA ExitSched ==
  ASSUME SchedInv, LockInv', Exit
  PROVE  SchedInv'
BY IdleStep DEF Exit

LEMMA StutterSched ==
  ASSUME SchedInv, LockInv', UNCHANGED vars
  PROVE  SchedInv'
BY IdleStep DEF vars, schedVars

(* The monitors that are dropped serve nobody.                             *)
LEMMA GarbageCollectSched ==
  ASSUME SchedInv, LockInv', GarbageCollect
  PROVE  SchedInv'
<1>1. /\ TypeOK /\ TypeOK' /\ ~fatal /\ MonitorCache' = <<>>
      /\ UNCHANGED <<schedVars, lifeVars, monitor, mhc, hashVars>>
      BY DEF SchedInv, LockInv, GarbageCollect
<1>2. MonitorUnique'
  <2>1. UniqueWords(mhc, MonitorCache) /\ \A m \in Monitors : ~Serves(mhc, m) => IsClean(monitor[m])
        BY <1>1, UniqueParts DEF SchedInv
  <2>2. UniqueWords(mhc', MonitorCache')
        BY <1>1, <2>1, EmptyQueue DEF UniqueWords
  <2> QED
        BY <1>1, <2>1, <2>2, UniquePartsNext
<1>3. HashKnown'
  <2>1. \A o \in Objects : StoredHash(o)' = StoredHash(o)
        BY <1>1 DEF StoredHash, schedVars
  <2> QED
        BY <1>1, <2>1, HashKept DEF SchedInv, hashVars
<1> QED
      BY <1>1, <1>2, <1>3 DEF SchedInv, schedVars, lifeVars

-----------------------------------------------------------------------------
(* Thread.sleep                                                            *)

LEMMA SleepSched ==
  ASSUME SchedInv, LockInv', NEW t \in Threads, NEW period \in SleepTimes, Sleep(t, period)
  PROVE  SchedInv'
<1>1. /\ TypeOK /\ CurrentThread = t /\ ~fatal /\ thread \in [Threads -> ThreadStruct]
      /\ UNCHANGED <<RunnableThreads, fatal, lifeVars, lockVars, hashVars>>
      /\ period \in Nat /\ period # 0
      BY BoundsAssumption DEF SchedInv, LockInv, TypeOK, Sleep, Running
<1>2. CASE thread' = PendingTaken(thread, t) /\ UNCHANGED <<CurrentThread, TimerQueue>>
  <2>1. /\ SamePlace(thread, thread')
        /\ \A u \in Threads : /\ thread'[u].lockDepth = thread[u].lockDepth
                              /\ thread'[u].lockHash = thread[u].lockHash
        BY <1>1, <1>2, PendingField
  <2>2. SameQueues(monitor, monitor')
        BY <1>1 DEF SameQueues, lockVars
  <2>3. /\ Places(CurrentThread', RunnableThreads', TimerQueue', thread', monitor')
        /\ SameLife(thread, thread')
        BY <1>1, <1>2, <2>1, <2>2, LockDepths, StillPlaces
  <2> QED
        BY <1>1, <2>1, <2>3, SameMonitorsStep DEF SameHash
<1>3. CASE /\ thread' = WithAlarm(Suspended(thread, t), t, period, "resumeThread")
           /\ TimerQueue' = registerAlarm(t, period) /\ CurrentThread' = NIL
  <2> DEFINE thr1 == Suspended(thread, t)
  <2>1. /\ thr1 \in [Threads -> ThreadStruct]
        /\ \A u \in Threads : u # t => thr1[u] = thread[u]
        /\ thr1[t].state = thread[t].state \cup {"SUSPENDED"}
        /\ thr1[t].wakeup = thread[t].wakeup
        /\ thr1[t].lockDepth = thread[t].lockDepth /\ thr1[t].lockHash = thread[t].lockHash
        BY <1>1, SuspendedEffect
  <2>2. thread' = WithAlarm(thr1, t, period, "resumeThread")
        BY <1>3
  <2> HIDE DEF thr1
  <2>3. /\ thread[t].state = Ready /\ ~Contains(TimerQueue, t) /\ ~Contains(RunnableThreads, t)
        /\ \A m \in Monitors : /\ ~Contains(monitor[m].monitor_waitq, t)
                               /\ ~Contains(monitor[m].condvar_waitq, t)
        BY <1>1, RunningPlace
  <2>4. \A u \in Threads : thr1[u].wakeup = thread[u].wakeup
        BY <2>1
  <2>5. /\ \A u \in Threads : u # t => thread'[u] = thr1[u]
        /\ thread'[t].wakeupCall = "resumeThread"
        /\ thread'[t].state = thr1[t].state
        /\ thread'[t].lockDepth = thr1[t].lockDepth /\ thread'[t].lockHash = thr1[t].lockHash
        /\ IsInjective(TimerQueue')
        /\ SortedBy(TimerQueue', [u \in Threads |-> thread'[u].wakeup])
        /\ \A u : Contains(TimerQueue', u) <=> Contains(TimerQueue, u) \/ u = t
        BY <1>1, <1>3, <2>1, <2>2, <2>3, <2>4, AlarmEffect
  <2>6. thread'[t].state = Asleep
        BY <2>1, <2>3, <2>5, StateChanges
  <2>7. \A u \in Threads : u # t => thread'[u] = thread[u]
        BY <2>1, <2>5
  <2>8. monitor' = monitor
        BY <1>1 DEF lockVars
  <2>9. Places(NIL, RunnableThreads, TimerQueue', thread', monitor)
    <3>1. Ordered(RunnableThreads, TimerQueue', thread', monitor)
          BY <2>5 DEF SchedInv, Places, Ordered
    <3>2. ASSUME NEW u \in Threads, u # t
          PROVE  Placed(u, NIL, RunnableThreads, TimerQueue', thread', monitor)
      <4>1. Placed(u, CurrentThread, RunnableThreads, TimerQueue, thread, monitor)
            BY DEF SchedInv, Places
      <4>2. CurrentThread # u /\ NIL # u /\ thread'[u] = thread[u]
            BY <1>1, <2>7, <3>2, CallsDiffer
      <4>3. Contains(TimerQueue', u) <=> Contains(TimerQueue, u)
            BY <2>5, <3>2
      <4> QED
            BY <4>1, <4>2, <4>3 DEF Placed
    <3>3. Placed(t, NIL, RunnableThreads, TimerQueue', thread', monitor)
      <4>1. thread'[t].lockDepth <= MaxDepth
            BY <2>1, <2>5, LockDepths
      <4>2. Contains(TimerQueue', t) /\ NIL # t
            BY <2>5, CallsDiffer
      <4>3. /\ thread'[t].state \in Alive /\ thread'[t].state # Ready
            /\ thread'[t].state # Entering /\ thread'[t].state # Woken /\ thread'[t].state # Waiting
            BY <2>6, StatesDiffer DEF Alive
      <4> QED
            BY <2>3, <2>5, <2>6, <4>1, <4>2, <4>3, CallsDiffer DEF Placed
    <3> QED
          BY <3>1, <3>2, <3>3 DEF Places
  <2>10. SameLife(thread, thread') /\ SameHash(thread, thread')
    <3>1. thread'[t].state \notin Lifeless /\ thread[t].state \notin Lifeless
          BY <2>3, <2>6, StatesDiffer DEF Alive
    <3> QED
          BY <2>1, <2>5, <2>7, <3>1 DEF SameLife, SameHash
  <2> QED
        BY <1>1, <1>3, <2>8, <2>9, <2>10, SameMonitorsStep
<1>4. \/ thread' = PendingTaken(thread, t) /\ UNCHANGED <<CurrentThread, TimerQueue>>
      \/ /\ thread' = WithAlarm(Suspended(thread, t), t, period, "resumeThread")
         /\ TimerQueue' = registerAlarm(t, period) /\ CurrentThread' = NIL
      BY Zenon DEF Sleep, GiveUpProcessor, PendingTaken
<1> QED
      BY <1>2, <1>3, <1>4

-----------------------------------------------------------------------------
(* Threads are born                                                        *)

LEMMA ListedFinite ==
  ASSUME NEW q \in Seq(Threads), NEW S, \A t \in S : Contains(q, t)
  PROVE  IsFiniteSet(S)
<1> DEFINE I == 1..Len(q)
           f == [i \in I |-> q[i]]
           T == {q[i] : i \in I}
<1>1. IsFiniteSet(I)
      BY FS_Interval
<1>2. f \in Surjection(I, T)
      BY DEF Surjection
<1>3. IsFiniteSet(T)
      BY <1>1, <1>2, FS_Surjection
<1>4. S \subseteq T
      BY DEF Contains
<1> QED
      BY <1>3, <1>4, FS_Subset

(* u was not listed, or only not started; now it is listed, as built.      *)
LEMMA CountedBuilt ==
  ASSUME NEW thr, NEW all \in Seq(Threads), NEW n, Counted(thr, all, n), NEW u \in Threads,
         NEW thr2, \A t \in Threads : t # u => thr2[t].state = thr[t].state,
         thr[u].state \in {{}, {"JUST_BORN"}}, thr2[u].state \notin {{}, {"DEAD"}},
         NEW all2, all2 = IF thr[u].state = {} THEN <<u>> \o all ELSE all
  PROVE  /\ IsInjective(all2)
         /\ \A t \in Threads : Contains(all2, t) <=> thr2[t].state \notin {{}, {"DEAD"}}
<1>1. CASE thr[u].state = {}
  <2>1. IsInjective(all) /\ ~Contains(all, u)
        BY <1>1 DEF Counted
  <2>2. IsInjective(all2) /\ \A t : Contains(all2, t) <=> Contains(all, t) \/ t = u
        BY <1>1, <2>1, PrependEffect
  <2> QED
        BY <2>2 DEF Counted
<1>2. CASE thr[u].state = {"JUST_BORN"}
  <2>1. all2 = all
        BY <1>2
  <2>2. thr[u].state \notin {{}, {"DEAD"}}
        BY <1>2
  <2> QED
        BY <2>1, <2>2 DEF Counted
<1> QED
      BY <1>1, <1>2

(* A thread that is not alive is nowhere.                                  *)
LEMMA LifelessPlace ==
  ASSUME SchedInv, NEW u \in Threads, thread[u].state \in Lifeless
  PROVE  /\ CurrentThread # u /\ ~Contains(RunnableThreads, u) /\ ~Contains(TimerQueue, u)
         /\ thread[u].wakeupCall = NIL
         /\ \A m \in Monitors : /\ ~Contains(monitor[m].monitor_waitq, u)
                                /\ ~Contains(monitor[m].condvar_waitq, u)
<1>1. Placed(u, CurrentThread, RunnableThreads, TimerQueue, thread, monitor)
      BY DEF SchedInv, Places
<1>2. /\ thread[u].state # Ready /\ thread[u].state # Asleep /\ thread[u].state # Entering
      /\ thread[u].state # Waiting /\ thread[u].state # Woken
      BY StatesDiffer DEF Alive
<1>3. thread[u].wakeupCall \in {NIL, "resumeThread", "monitorWaitAlarm"}
      BY ThreadEta DEF SchedInv, LockInv, TypeOK
<1> QED
      BY <1>1, <1>2, <1>3 DEF Placed

StateSet(thr, u, s) == [thr EXCEPT ![u].state = s]

LEMMA StateField ==
  ASSUME NEW thr \in [Threads -> ThreadStruct], NEW u \in Threads, NEW s, NEW thr2,
         thr2 = StateSet(thr, u, s)
  PROVE  /\ \A t \in Threads : t # u => thr2[t] = thr[t]
         /\ thr2[u].state = s
         /\ thr2[u].monitor = thr[u].monitor /\ thr2[u].monitor_depth = thr[u].monitor_depth
         /\ thr2[u].wakeup = thr[u].wakeup /\ thr2[u].wakeupCall = thr[u].wakeupCall
         /\ thr2[u].pendingException = thr[u].pendingException
         /\ thr2[u].lockDepth = thr[u].lockDepth /\ thr2[u].lockHash = thr[u].lockHash
<1>1. \A t \in Threads : t # u => thr2[t] = thr[t]
      BY DEF StateSet
<1>2. thr[u] \in ThreadStruct /\ thr2[u] = [thr[u] EXCEPT !.state = s]
      BY DEF StateSet
<1>3. /\ thr2[u].state = s
      /\ thr2[u].monitor = thr[u].monitor /\ thr2[u].monitor_depth = thr[u].monitor_depth
      /\ thr2[u].wakeup = thr[u].wakeup /\ thr2[u].wakeupCall = thr[u].wakeupCall
      /\ thr2[u].pendingException = thr[u].pendingException
      /\ thr2[u].lockDepth = thr[u].lockDepth /\ thr2[u].lockHash = thr[u].lockHash
      BY <1>2 DEF ThreadStruct
<1> QED
      BY <1>1, <1>3

(* Words and monitors of a step that changes neither.                      *)
LEMMA SameMonitors ==
  ASSUME SchedInv, LockInv', UNCHANGED <<lockVars, hashVars>>, SameHash(thread, thread')
  PROVE  MonitorUnique' /\ HashKnown' /\ \A m \in Monitors : Sound(monitor'[m])
<1>1. TypeOK /\ TypeOK' /\ mhc' = mhc /\ monitor' = monitor /\ MonitorCache' = MonitorCache
      BY DEF SchedInv, LockInv, lockVars
<1>2. MonitorUnique'
      BY <1>1, UniqueParts, UniquePartsNext DEF SchedInv
<1>3. HashKnown'
  <2>1. \A o \in Objects : StoredHash(o)' = StoredHash(o)
        BY <1>1, HashSame
  <2> QED
        BY <2>1, HashKept DEF SchedInv, hashVars
<1> QED
      BY <1>1, <1>2, <1>3 DEF SchedInv

LEMMA StartThreadSched ==
  ASSUME SchedInv, LockInv', NEW t \in Threads, NEW u \in Threads, StartThread(t, u)
  PROVE  SchedInv'
<1> DEFINE thr == [Built(u) EXCEPT ![u].state = {"SUSPENDED"}]
<1>1. /\ CurrentThread = t /\ ~fatal /\ thread \in [Threads -> ThreadStruct]
      /\ AllThreads \in Seq(Threads) /\ RunnableThreads \in Seq(Threads)
      /\ AllThreads' = AllThreadsWith(u) /\ AliveThreadCount' = AliveThreadCount + 1
      /\ resumeThread(u, thr) /\ Built(u)[u].state = {"JUST_BORN"}
      /\ UNCHANGED <<CurrentThread, TimerQueue, lockVars, hashVars>>
      BY DEF SchedInv, LockInv, TypeOK, StartThread, Running
<1>2. thread[u].state \in {{}, {"JUST_BORN"}}
      BY <1>1 DEF Built
<1>3. /\ thr = StateSet(thread, u, {"SUSPENDED"})
      /\ fatal' = (fatal \/ "SUSPENDED" \notin thr[u].state \/ u = CurrentThread)
      /\ thread' = StateSet(thr, u, Ready)
      /\ RunnableThreads' = addThreadToQueue(RunnableThreads, u)
  <2>1. thr = StateSet(thread, u, {"SUSPENDED"})
        BY <1>1 DEF Built, StateSet
  <2> HIDE DEF thr
  <2> QED
        BY <1>1, <2>1, Zenon DEF resumeThread, StateSet, Ready
<1> HIDE DEF thr
<1>4. /\ \A v \in Threads : v # u => thr[v] = thread[v]
      /\ thr[u].state = {"SUSPENDED"} /\ thr[u].wakeup = thread[u].wakeup
      /\ thr[u].wakeupCall = thread[u].wakeupCall
      /\ thr[u].lockDepth = thread[u].lockDepth /\ thr[u].lockHash = thread[u].lockHash
      /\ thr \in [Threads -> ThreadStruct]
  <2>1. {"SUSPENDED"} \in SUBSET ThreadState
        BY DEF ThreadState
  <2>2. thr \in [Threads -> ThreadStruct]
        BY <1>1, <1>3, <2>1, StateUpdate DEF StateSet
  <2> QED
        BY <1>1, <1>3, <2>2, StateField
<1>5. /\ \A v \in Threads : v # u => thread'[v] = thr[v]
      /\ thread'[u].state = Ready /\ thread'[u].wakeup = thr[u].wakeup
      /\ thread'[u].wakeupCall = thr[u].wakeupCall
      /\ thread'[u].lockDepth = thr[u].lockDepth /\ thread'[u].lockHash = thr[u].lockHash
      BY <1>3, <1>4, StateField
<1>6. /\ CurrentThread # u /\ ~Contains(RunnableThreads, u) /\ ~Contains(TimerQueue, u)
      /\ thread[u].wakeupCall = NIL /\ thread[u].state \in Lifeless
      /\ \A m \in Monitors : /\ ~Contains(monitor[m].monitor_waitq, u)
                             /\ ~Contains(monitor[m].condvar_waitq, u)
  <2>1. thread[u].state \in Lifeless
        BY <1>2 DEF Lifeless
  <2> QED
        BY <2>1, LifelessPlace
<1>7. ~fatal'
      BY <1>1, <1>3, <1>4, <1>6
<1>8. /\ IsInjective(RunnableThreads')
      /\ \A v : Contains(RunnableThreads', v) <=> Contains(RunnableThreads, v) \/ v = u
  <2>1. IsInjective(RunnableThreads)
        BY DEF SchedInv, Places, Ordered
  <2> QED
        BY <1>1, <1>3, <1>6, <2>1, AppendEffect
<1>9. monitor' = monitor
      BY <1>1 DEF lockVars
<1>10. Places(CurrentThread', RunnableThreads', TimerQueue', thread', monitor')
  <2>1. [v \in Threads |-> thread'[v].wakeup] = [v \in Threads |-> thread[v].wakeup]
        BY <1>4, <1>5
  <2>2. Ordered(RunnableThreads', TimerQueue', thread', monitor')
        BY <1>1, <1>8, <1>9, <2>1 DEF SchedInv, Places, Ordered
  <2>3. ASSUME NEW v \in Threads, v # u
        PROVE  Placed(v, CurrentThread', RunnableThreads', TimerQueue', thread', monitor')
    <3>1. Placed(v, CurrentThread, RunnableThreads, TimerQueue, thread, monitor)
          BY DEF SchedInv, Places
    <3>2. thread'[v] = thread[v] /\ (Contains(RunnableThreads', v) <=> Contains(RunnableThreads, v))
          BY <1>4, <1>5, <1>8, <2>3
    <3> QED
          BY <1>1, <1>9, <3>1, <3>2 DEF Placed
  <2>4. Placed(u, CurrentThread', RunnableThreads', TimerQueue', thread', monitor')
    <3>1. /\ thread'[u].state \in Alive /\ thread'[u].state # Asleep
          /\ thread'[u].state # Entering /\ thread'[u].state # Woken /\ thread'[u].state # Waiting
          BY <1>5, StatesDiffer DEF Alive
    <3>2. thread'[u].lockDepth <= MaxDepth /\ thread'[u].wakeupCall = NIL
          BY <1>4, <1>5, <1>6, LockDepths
    <3>3. Contains(RunnableThreads', u) /\ CurrentThread' # u
          BY <1>1, <1>6, <1>8
    <3> QED
          BY <1>1, <1>5, <1>6, <1>9, <3>1, <3>2, <3>3, CallsDiffer DEF Placed
  <2> QED
        BY <2>2, <2>3, <2>4 DEF Places
<1>11. Counted(thread', AllThreads', AliveThreadCount')
  <2> DEFINE S == {v \in Threads : thread[v].state \notin Lifeless}
  <2>1. \A v \in Threads : v # u => thread'[v].state = thread[v].state
        BY <1>4, <1>5
  <2>2. thread'[u].state \notin Lifeless /\ thread'[u].state \notin {{}, {"DEAD"}}
        BY <1>5, StatesDiffer DEF Alive, Lifeless
  <2>3. Counted(thread, AllThreads, AliveThreadCount)
        BY DEF SchedInv
  <2>4. AllThreads' = IF thread[u].state = {} THEN <<u>> \o AllThreads ELSE AllThreads
        BY <1>1 DEF AllThreadsWith
  <2>5. /\ IsInjective(AllThreads')
        /\ \A v \in Threads : Contains(AllThreads', v) <=> thread'[v].state \notin {{}, {"DEAD"}}
        BY <1>1, <1>2, <2>1, <2>2, <2>3, <2>4, CountedBuilt, ZenonT(60)
  <2>6. {v \in Threads : thread'[v].state \notin Lifeless} = S \cup {u}
        BY <2>1, <2>2
  <2>7. IsFiniteSet(S)
    <3>1. \A v \in S : Contains(AllThreads, v)
          BY <2>3 DEF Counted, Lifeless
    <3> QED
          BY <1>1, <3>1, ListedFinite
  <2>8. AliveThreadCount = Cardinality(S) /\ u \notin S
        BY <1>6, <2>3 DEF Counted
  <2>9. Cardinality(S \cup {u}) = AliveThreadCount + 1
        BY <2>7, <2>8, FS_AddElement
  <2> QED
        BY <1>1, <2>5, <2>6, <2>9 DEF Counted
<1>12. SameHash(thread, thread')
      BY <1>4, <1>5 DEF SameHash
<1> QED
      BY <1>1, <1>7, <1>10, <1>11, <1>12, SameMonitors DEF SchedInv

LEMMA SetPrioritySched ==
  ASSUME SchedInv, LockInv', NEW t \in Threads, NEW u \in Threads, SetPriority(t, u)
  PROVE  SchedInv'
<1>1. /\ ~fatal /\ thread \in [Threads -> ThreadStruct] /\ AllThreads \in Seq(Threads)
      /\ thread[u].state = {} /\ AllThreads' = <<u>> \o AllThreads
      /\ thread' = StateSet(thread, u, {"JUST_BORN"})
      /\ UNCHANGED <<CurrentThread, RunnableThreads, TimerQueue, fatal, AliveThreadCount,
                     lockVars, hashVars>>
      BY DEF SchedInv, LockInv, TypeOK, SetPriority, Running, Built, AllThreadsWith, StateSet
<1>2. /\ \A v \in Threads : v # u => thread'[v] = thread[v]
      /\ thread'[u].state = {"JUST_BORN"} /\ thread'[u].wakeup = thread[u].wakeup
      /\ thread'[u].wakeupCall = thread[u].wakeupCall
      /\ thread'[u].lockDepth = thread[u].lockDepth /\ thread'[u].lockHash = thread[u].lockHash
      BY <1>1, StateField
<1>3. /\ CurrentThread # u /\ ~Contains(RunnableThreads, u) /\ ~Contains(TimerQueue, u)
      /\ thread[u].wakeupCall = NIL
      /\ \A m \in Monitors : /\ ~Contains(monitor[m].monitor_waitq, u)
                             /\ ~Contains(monitor[m].condvar_waitq, u)
      BY <1>1, LifelessPlace DEF Lifeless
<1>4. monitor' = monitor
      BY <1>1 DEF lockVars
<1>5. thread'[u].state \in Lifeless /\ thread[u].state \in Lifeless
      BY <1>1, <1>2 DEF Lifeless
<1>6. Places(CurrentThread', RunnableThreads', TimerQueue', thread', monitor')
  <2>1. [v \in Threads |-> thread'[v].wakeup] = [v \in Threads |-> thread[v].wakeup]
        BY <1>2
  <2>2. Ordered(RunnableThreads', TimerQueue', thread', monitor')
        BY <1>1, <1>4, <2>1 DEF SchedInv, Places, Ordered
  <2>3. ASSUME NEW v \in Threads, v # u
        PROVE  Placed(v, CurrentThread', RunnableThreads', TimerQueue', thread', monitor')
    <3>1. Placed(v, CurrentThread, RunnableThreads, TimerQueue, thread, monitor)
          BY DEF SchedInv, Places
    <3> QED
          BY <1>1, <1>2, <1>4, <2>3, <3>1 DEF Placed
  <2>4. Placed(u, CurrentThread', RunnableThreads', TimerQueue', thread', monitor')
    <3>1. /\ thread'[u].state # Ready /\ thread'[u].state # Asleep
          /\ thread'[u].state # Entering /\ thread'[u].state # Woken /\ thread'[u].state # Waiting
          BY <1>5, StatesDiffer DEF Alive
    <3>2. thread'[u].lockDepth <= MaxDepth /\ thread'[u].wakeupCall = NIL
          BY <1>2, <1>3, LockDepths
    <3> QED
          BY <1>1, <1>3, <1>4, <1>5, <3>1, <3>2, CallsDiffer DEF Placed
  <2> QED
        BY <2>2, <2>3, <2>4 DEF Places
<1>7. Counted(thread', AllThreads', AliveThreadCount')
  <2>1. \A v \in Threads : v # u => thread'[v].state = thread[v].state
        BY <1>2
  <2>2. thread'[u].state \notin {{}, {"DEAD"}}
        BY <1>2
  <2>3. Counted(thread, AllThreads, AliveThreadCount)
        BY DEF SchedInv
  <2>5. /\ IsInjective(AllThreads')
        /\ \A v \in Threads : Contains(AllThreads', v) <=> thread'[v].state \notin {{}, {"DEAD"}}
    <3>1. IsInjective(AllThreads) /\ ~Contains(AllThreads, u)
          BY <1>1, <2>3 DEF Counted
    <3>2. /\ IsInjective(AllThreads')
          /\ \A v : Contains(AllThreads', v) <=> Contains(AllThreads, v) \/ v = u
          BY <1>1, <3>1, PrependEffect
    <3> QED
          BY <2>1, <2>2, <2>3, <3>2 DEF Counted
  <2>6. {v \in Threads : thread'[v].state \notin Lifeless} = {v \in Threads : thread[v].state \notin Lifeless}
        BY <1>5, <2>1
  <2> QED
        BY <1>1, <2>3, <2>5, <2>6 DEF Counted
<1>8. SameHash(thread, thread')
      BY <1>2 DEF SameHash
<1> QED
      BY <1>1, <1>6, <1>7, <1>8, SameMonitors DEF SchedInv

-----------------------------------------------------------------------------
(* The clock and the processor                                             *)

LEMMA TickSched ==
  ASSUME SchedInv, LockInv', Tick
  PROVE  SchedInv'
<1>1. /\ thread \in [Threads -> ThreadStruct] /\ TimerQueue \in Seq(Threads) /\ ~fatal
      /\ UNCHANGED <<CurrentThread, RunnableThreads, TimerQueue, fatal, lifeVars, lockVars, hashVars>>
      BY DEF SchedInv, LockInv, TypeOK, Tick
<1>2. ASSUME NEW t \in Threads
      PROVE  /\ thread'[t].state = thread[t].state /\ thread'[t].monitor = thread[t].monitor
             /\ thread'[t].monitor_depth = thread[t].monitor_depth
             /\ thread'[t].wakeupCall = thread[t].wakeupCall
             /\ thread'[t].pendingException = thread[t].pendingException
             /\ thread'[t].lockDepth = thread[t].lockDepth
             /\ thread'[t].lockHash = thread[t].lockHash
             /\ thread[t].wakeup \in Nat
             /\ thread'[t].wakeup = IF thread[t].wakeup > 0 THEN thread[t].wakeup - 1 ELSE 0
  <2>1. /\ thread[t] \in ThreadStruct
        /\ thread'[t] = [thread[t] EXCEPT !.wakeup = IF @ > 0 THEN @ - 1 ELSE 0]
        BY <1>1 DEF Tick
  <2> QED
        BY <2>1 DEF ThreadStruct
<1>3. monitor' = monitor
      BY <1>1 DEF lockVars
<1>4. SortedBy(TimerQueue, [t \in Threads |-> thread'[t].wakeup])
  <2>1. SortedBy(TimerQueue, [t \in Threads |-> thread[t].wakeup])
        BY DEF SchedInv, Places, Ordered
  <2>2. \A i \in 1..Len(TimerQueue) : TimerQueue[i] \in Threads
        BY <1>1
  <2>3. \A t, u \in Threads : thread[t].wakeup <= thread[u].wakeup
                                => thread'[t].wakeup <= thread'[u].wakeup
        BY <1>2
  <2> QED
        BY <2>1, <2>2, <2>3 DEF SortedBy
<1>5. Places(CurrentThread', RunnableThreads', TimerQueue', thread', monitor')
  <2>1. Ordered(RunnableThreads', TimerQueue', thread', monitor')
        BY <1>1, <1>3, <1>4 DEF SchedInv, Places, Ordered
  <2>2. ASSUME NEW t \in Threads
        PROVE  Placed(t, CurrentThread', RunnableThreads', TimerQueue', thread', monitor')
    <3>1. Placed(t, CurrentThread, RunnableThreads, TimerQueue, thread, monitor)
          BY DEF SchedInv, Places
    <3> QED
          BY <1>1, <1>2, <1>3, <3>1 DEF Placed
  <2> QED
        BY <2>1, <2>2 DEF Places
<1>6. SameLife(thread, thread') /\ SameHash(thread, thread')
      BY <1>2 DEF SameLife, SameHash
<1> QED
      BY <1>1, <1>5, <1>6, SameMonitorsStep

CaughtUp(thr, t) == [thr EXCEPT ![t].pendingException = FALSE]

LEMMA CaughtField ==
  ASSUME NEW thr \in [Threads -> ThreadStruct], NEW t \in Threads, NEW thr2,
         thr2 = CaughtUp(thr, t)
  PROVE  /\ \A u \in Threads : u # t => thr2[u] = thr[u]
         /\ thr2[t].state = thr[t].state /\ thr2[t].monitor = thr[t].monitor
         /\ thr2[t].monitor_depth = thr[t].monitor_depth
         /\ thr2[t].wakeup = thr[t].wakeup /\ thr2[t].wakeupCall = thr[t].wakeupCall
         /\ ~thr2[t].pendingException
         /\ thr2[t].lockDepth = thr[t].lockDepth /\ thr2[t].lockHash = thr[t].lockHash
<1>1. \A u \in Threads : u # t => thr2[u] = thr[u]
      BY DEF CaughtUp
<1>2. thr[t] \in ThreadStruct /\ thr2[t] = [thr[t] EXCEPT !.pendingException = FALSE]
      BY DEF CaughtUp
<1>3. /\ thr2[t].state = thr[t].state /\ thr2[t].monitor = thr[t].monitor
      /\ thr2[t].monitor_depth = thr[t].monitor_depth
      /\ thr2[t].wakeup = thr[t].wakeup /\ thr2[t].wakeupCall = thr[t].wakeupCall
      /\ thr2[t].pendingException = FALSE
      /\ thr2[t].lockDepth = thr[t].lockDepth /\ thr2[t].lockHash = thr[t].lockHash
      BY <1>2 DEF ThreadStruct
<1> QED
      BY <1>1, <1>3

(* Round robin: the first of the run queue changes places with the thread  *)
(* that ran.                                                               *)
LEMMA SwitchThreadSched ==
  ASSUME SchedInv, LockInv', SwitchThread
  PROVE  SchedInv'
<1>1. /\ TypeOK /\ thread \in [Threads -> ThreadStruct] /\ RunnableThreads \in Seq(Threads)
      /\ CurrentThread \in Threads \cup {NIL}
      /\ UNCHANGED <<TimerQueue, lifeVars, lockVars, hashVars>>
      BY DEF SchedInv, LockInv, TypeOK, SwitchThread
<1>2. ~fatal'
  <2>1. CurrentThread # NIL => ~thread[CurrentThread].pendingException
                                /\ thread[CurrentThread].state = {"ACTIVE"}
        BY <1>1, RunningPlace DEF Ready
  <2> QED
        BY <2>1 DEF SwitchThread
<1>3. CASE RunnableThreads = <<>> /\ UNCHANGED <<CurrentThread, RunnableThreads, thread>>
  <2>1. fatal' = fatal
    <3>1. fatal \in BOOLEAN /\ fatal' \in BOOLEAN /\ ~fatal
          BY DEF SchedInv, LockInv, TypeOK
    <3> QED
          BY <1>2, <3>1
  <2> QED
        BY <1>1, <1>3, <2>1, IdleStep
<1>4. CASE RunnableThreads # <<>> /\ Dispatch(Head(RunnableThreads))
           /\ RunnableThreads' = RunQueueAfterSwitch
  <2> DEFINE h == Head(RunnableThreads)
             q == Tail(RunnableThreads)
  <2>1. h \in Threads /\ q \in Seq(Threads)
        BY <1>1, <1>4
  <2>2. CurrentThread' = h /\ thread' = CaughtUp(thread, h)
        BY <1>4 DEF Dispatch, CaughtUp
  <2>3. IsInjective(RunnableThreads)
        BY DEF SchedInv, Places, Ordered
  <2>4. /\ removeQueueStart(RunnableThreads) = q /\ Contains(RunnableThreads, h) /\ IsInjective(q)
        /\ \A u : Contains(q, u) <=> Contains(RunnableThreads, u) /\ u # h
        BY <1>1, <1>4, <2>1, <2>3, TailEffect, PartEffect, EmptyQueue
  <2> HIDE DEF h, q
  <2>5. CurrentThread # h /\ (CurrentThread \in Threads => ~Contains(q, CurrentThread))
        BY <2>4, <1>1, RunningPlace, <2>1
  <2>6. /\ IsInjective(RunnableThreads')
        /\ \A u \in Threads : Contains(RunnableThreads', u) <=> Contains(q, u) \/ u = CurrentThread
    <3>1. CASE CurrentThread = NIL
      <4>1. RunnableThreads' = q
            BY <1>4, <2>4, <3>1 DEF RunQueueAfterSwitch
      <4> QED
            BY <2>4, <3>1, <4>1, CallsDiffer
    <3>2. CASE CurrentThread # NIL
      <4>1. RunnableThreads' = addThreadToQueue(q, CurrentThread)
            BY <1>4, <2>4, <3>2 DEF RunQueueAfterSwitch
      <4>2. CurrentThread \in Threads /\ ~Contains(q, CurrentThread)
            BY <1>1, <2>5, <3>2
      <4> QED
            BY <2>1, <2>4, <4>1, <4>2, AppendEffect
    <3> QED
          BY <3>1, <3>2
  <2>7. /\ \A u \in Threads : u # h => thread'[u] = thread[u]
        /\ thread'[h].state = thread[h].state /\ thread'[h].monitor = thread[h].monitor
        /\ thread'[h].monitor_depth = thread[h].monitor_depth
        /\ thread'[h].wakeup = thread[h].wakeup /\ thread'[h].wakeupCall = thread[h].wakeupCall
        /\ ~thread'[h].pendingException
        /\ thread'[h].lockDepth = thread[h].lockDepth /\ thread'[h].lockHash = thread[h].lockHash
        BY <1>1, <2>1, <2>2, CaughtField
  <2>8. monitor' = monitor
        BY <1>1 DEF lockVars
  <2>9. Places(CurrentThread', RunnableThreads', TimerQueue', thread', monitor')
    <3>1. [v \in Threads |-> thread'[v].wakeup] = [v \in Threads |-> thread[v].wakeup]
          BY <2>7
    <3>2. Ordered(RunnableThreads', TimerQueue', thread', monitor')
          BY <1>1, <2>6, <2>8, <3>1 DEF SchedInv, Places, Ordered
    <3>3. ASSUME NEW v \in Threads, v # h
          PROVE  Placed(v, CurrentThread', RunnableThreads', TimerQueue', thread', monitor')
      <4>1. Placed(v, CurrentThread, RunnableThreads, TimerQueue, thread, monitor)
            BY DEF SchedInv, Places
      <4>2. /\ thread'[v] = thread[v] /\ CurrentThread' # v
            /\ Contains(RunnableThreads', v) <=> Contains(RunnableThreads, v) \/ CurrentThread = v
            BY <2>2, <2>4, <2>6, <2>7, <3>3
      <4> QED
            BY <1>1, <2>8, <4>1, <4>2 DEF Placed
    <3>4. Placed(h, CurrentThread', RunnableThreads', TimerQueue', thread', monitor')
      <4>1. Placed(h, CurrentThread, RunnableThreads, TimerQueue, thread, monitor)
            BY <2>1 DEF SchedInv, Places
      <4>2. CurrentThread' = h /\ ~Contains(RunnableThreads', h)
            BY <2>1, <2>2, <2>4, <2>5, <2>6
      <4> QED
            BY <1>1, <2>4, <2>7, <2>8, <4>1, <4>2 DEF Placed
    <3> QED
          BY <3>2, <3>3, <3>4 DEF Places
  <2>10. SameLife(thread, thread') /\ SameHash(thread, thread')
        BY <2>7 DEF SameLife, SameHash
  <2> QED
        BY <1>1, <1>2, <2>9, <2>10, SameMonitorsStep
<1>5. \/ RunnableThreads = <<>> /\ UNCHANGED <<CurrentThread, RunnableThreads, thread>>
      \/ RunnableThreads # <<>> /\ Dispatch(Head(RunnableThreads))
           /\ RunnableThreads' = RunQueueAfterSwitch
      BY Zenon DEF SwitchThread
<1> QED
      BY <1>3, <1>4, <1>5

-----------------------------------------------------------------------------
(* A thread leaves wait() or sleep() early, or when its alarm goes off     *)

(* t is taken out of the queue of the alarms, if it is in it.              *)
WithoutIn(tq, t) ==
  /\ tq \in Seq(Threads) /\ PartOf(tq, TimerQueue)
  /\ \A u : Contains(tq, u) <=> Contains(TimerQueue, u) /\ u # t

(* thr tells of t what thread does, but for its alarm, which is off.       *)
CalmIn(thr, t) ==
  /\ \A u \in Threads : u # t => thr[u] = thread[u]
  /\ thr[t].state = thread[t].state /\ thr[t].monitor = thread[t].monitor
  /\ thr[t].monitor_depth = thread[t].monitor_depth /\ thr[t].wakeupCall = NIL
  /\ thr[t].lockDepth = thread[t].lockDepth /\ thr[t].lockHash = thread[t].lockHash

LEMMA CalmOrder ==
  ASSUME SchedInv, NEW t \in Threads, NEW tq, WithoutIn(tq, t), NEW thr, CalmIn(thr, t)
  PROVE  IsInjective(tq) /\ SortedBy(tq, [u \in Threads |-> thr[u].wakeup])
<1>1. /\ tq \in Seq(Threads) /\ TimerQueue \in Seq(Threads) /\ IsInjective(TimerQueue)
      /\ SortedBy(TimerQueue, [u \in Threads |-> thread[u].wakeup])
      BY DEF SchedInv, LockInv, TypeOK, Places, Ordered, WithoutIn
<1>2. IsInjective(tq) /\ SortedBy(tq, [u \in Threads |-> thread[u].wakeup])
      BY <1>1, PartEffect DEF WithoutIn
<1> DEFINE w  == [u \in Threads |-> thread[u].wakeup]
           w2 == [u \in Threads |-> thr[u].wakeup]
<1>3. \A u \in Threads : Contains(tq, u) => w2[u] = w[u]
      BY DEF WithoutIn, CalmIn
<1> HIDE DEF w, w2
<1>4. SortedBy(tq, w)
      BY <1>2 DEF w
<1>5. SortedBy(tq, w2)
      BY <1>1, <1>3, <1>4, SortedSame
<1> QED
      BY <1>2, <1>5 DEF w2

LeftBy(m, t) == [monitor[m] EXCEPT !.condvar_waitq = removeFromQueue(@, t)]

LEMMA WaitEnds ==
  ASSUME SchedInv, LockInv', NEW t \in Threads, NEW m \in Monitors,
         thread[t].state = Waiting, thread[t].monitor = m,
         NEW thr \in [Threads -> ThreadStruct], CalmIn(thr, t),
         WithoutIn(TimerQueue', t), addMonitorWait(m, LeftBy(m, t), t, thr),
         UNCHANGED <<CurrentThread, lifeVars, MonitorCache, mhc, hashVars>>
  PROVE  SchedInv'
<1> DEFINE mon == LeftBy(m, t)
           c   == monitor[m].condvar_waitq
<1>1. /\ TypeOK /\ ~fatal /\ monitor[m] \in MonitorStruct /\ CurrentThread \in Threads \cup {NIL}
      BY DEF SchedInv, LockInv, TypeOK
<1>2. /\ Ordered(RunnableThreads, TimerQueue, thread, monitor)
      /\ \A u \in Threads : Placed(u, CurrentThread, RunnableThreads, TimerQueue, thread, monitor)
      BY DEF SchedInv, Places
<1>3. c \in Seq(Threads) /\ IsInjective(c) /\ Contains(c, t)
  <2>1. Placed(t, CurrentThread, RunnableThreads, TimerQueue, thread, monitor)
        BY <1>2
  <2> QED
        BY <1>1, <1>2, <2>1 DEF MonitorStruct, Ordered, Placed
<1>4. /\ removeFromQueue(c, t) \in Seq(Threads) /\ IsInjective(removeFromQueue(c, t))
      /\ \A u : Contains(removeFromQueue(c, t), u) <=> Contains(c, u) /\ u # t
      BY <1>3, RemoveFromEffect, RemoveFromType
<1>5. /\ mon \in MonitorStruct /\ mon.owner = monitor[m].owner /\ mon.depth = monitor[m].depth
      /\ mon.hashCode = monitor[m].hashCode /\ mon.monitor_waitq = monitor[m].monitor_waitq
      /\ mon.condvar_waitq = removeFromQueue(c, t)
      BY <1>1, <1>4 DEF MonitorStruct, LeftBy
<1>6. addMonitorWait(m, mon, t, thr)
      OBVIOUS
<1> HIDE DEF mon
<1>7. PICK mons \in [Monitors -> MonitorStruct] :
        mons[m] = mon /\ \A k \in Monitors : k # m => mons[k] = monitor[k]
      BY <1>1, <1>5, TableWith
<1>8. /\ IsInjective(TimerQueue') /\ SortedBy(TimerQueue', [u \in Threads |-> thr[u].wakeup])
      BY CalmOrder
<1>9. CurrentThread # t
      BY RunningPlace, StatesDiffer
<1>10. Away(t, CurrentThread, RunnableThreads, TimerQueue', thr, mons)
  <2>1. Ordered(RunnableThreads, TimerQueue', thr, mons)
        BY <1>2, <1>4, <1>5, <1>7, <1>8 DEF Ordered
  <2>2. \A k \in Monitors, u \in Threads :
          /\ Contains(mons[k].monitor_waitq, u) <=> Contains(monitor[k].monitor_waitq, u)
          /\ Contains(mons[k].condvar_waitq, u)
               <=> Contains(monitor[k].condvar_waitq, u) /\ ~(k = m /\ u = t)
        BY <1>4, <1>5, <1>7
  <2>3. ASSUME NEW u \in Threads, u # t
        PROVE  Placed(u, CurrentThread, RunnableThreads, TimerQueue', thr, mons)
    <3>1. Placed(u, CurrentThread, RunnableThreads, TimerQueue, thread, monitor)
          BY <1>2
    <3>2. thr[u] = thread[u] /\ (Contains(TimerQueue', u) <=> Contains(TimerQueue, u))
          BY <2>3 DEF CalmIn, WithoutIn
    <3>3. \A k \in Monitors :
            /\ Contains(mons[k].monitor_waitq, u) <=> Contains(monitor[k].monitor_waitq, u)
            /\ Contains(mons[k].condvar_waitq, u) <=> Contains(monitor[k].condvar_waitq, u)
          BY <2>2, <2>3
    <3> QED
          BY <3>1, <3>2, <3>3 DEF Placed
  <2>4. Placed(t, CurrentThread, RunnableThreads, TimerQueue, thread, monitor)
        BY <1>2
  <2>5. /\ ~Contains(RunnableThreads, t) /\ DepthFits(thread[t].monitor_depth)
        /\ thread[t].lockDepth <= MaxDepth
        /\ \A k \in Monitors : /\ ~Contains(monitor[k].monitor_waitq, t)
                               /\ Contains(monitor[k].condvar_waitq, t) => k = m
        BY <2>4, StatesDiffer DEF Placed
  <2>6. \A k \in Monitors : /\ ~Contains(mons[k].monitor_waitq, t)
                            /\ ~Contains(mons[k].condvar_waitq, t)
        BY <2>2, <2>5
  <2>7. ~Contains(TimerQueue', t)
        BY DEF WithoutIn
  <2> QED
        BY <1>9, <2>1, <2>3, <2>5, <2>6, <2>7 DEF Away, CalmIn
<1>11. /\ Places(CurrentThread, RunnableThreads', TimerQueue', thread', monitor')
       /\ Kept(thr, thread') /\ fatal' = fatal /\ OnlyMonitor(m, mon)
  <2>1. TimerQueue' \in Seq(Threads)
        BY DEF WithoutIn
  <2>2. CurrentThread \in Threads => thr[CurrentThread].state \notin {Entering, Woken}
        BY <1>9, RunningPlace, StatesDiffer DEF CalmIn
  <2>3. mon.owner # NIL => Sound(mon)
        BY <1>5 DEF SchedInv, Sound
  <2>4. TypeOK /\ thr \in [Threads -> ThreadStruct] /\ m \in Monitors /\ t \in Threads
        BY <1>1
  <2>5. mon \in MonitorStruct /\ (mon.owner = NIL => t # CurrentThread)
        BY <1>5, <1>9
  <2>6. /\ mons \in [Monitors -> MonitorStruct] /\ mons[m] = mon
        /\ \A k \in Monitors : k # m => mons[k] = monitor[k]
        BY <1>7
  <2> QED
        BY ONLY <1>6, <1>10, <2>1, <2>2, <2>3, <2>4, <2>5, <2>6, AddMonitorWaitPlaces
<1>12. OnlyMonitor(m, monitor[m])
      BY <1>5, <1>11 DEF OnlyMonitor
<1>13. SameLife(thread, thread') /\ SameHash(thread, thread')
      BY <1>11 DEF SameLife, SameHash, Kept, CalmIn
<1>14. Serves(mhc, m)
  <2>1. c # <<>>
        BY <1>3, EmptyQueue
  <2> QED
        BY <1>1, <2>1, UniqueParts DEF SchedInv, IsClean
<1> QED
      BY <1>1, <1>11, <1>12, <1>13, <1>14, SameWordsStep

LEMMA SleepEnds ==
  ASSUME SchedInv, LockInv', NEW t \in Threads, thread[t].state = Asleep,
         NEW thr \in [Threads -> ThreadStruct], CalmIn(thr, t),
         WithoutIn(TimerQueue', t), resumeThread(t, thr),
         UNCHANGED <<CurrentThread, lifeVars, lockVars, hashVars>>
  PROVE  SchedInv'
<1>1. /\ RunnableThreads \in Seq(Threads) /\ ~fatal /\ monitor' = monitor
      BY DEF SchedInv, LockInv, TypeOK, lockVars
<1>2. /\ Ordered(RunnableThreads, TimerQueue, thread, monitor)
      /\ \A u \in Threads : Placed(u, CurrentThread, RunnableThreads, TimerQueue, thread, monitor)
      BY DEF SchedInv, Places
<1>3. CurrentThread # t
      BY RunningPlace, StatesDiffer
<1>4. /\ RunnableThreads' = addThreadToQueue(RunnableThreads, t)
      /\ fatal' = (fatal \/ "SUSPENDED" \notin thr[t].state \/ t = CurrentThread)
      /\ thread'[t].state = Ready
      /\ thread'[t].wakeupCall = thr[t].wakeupCall /\ thread'[t].wakeup = thr[t].wakeup
      /\ \A u \in Threads : u # t => thread'[u] = thr[u]
      BY ResumeEffect
<1>5. thread'[t].lockDepth = thr[t].lockDepth /\ thread'[t].lockHash = thr[t].lockHash
  <2>1. thread' = StateSet(thr, t, {"ACTIVE"})
        BY DEF resumeThread, StateSet
  <2> QED
        BY <2>1, StateField
<1>6. ~fatal'
      BY <1>1, <1>3, <1>4, StatesDiffer DEF CalmIn, Alive
<1>7. Placed(t, CurrentThread, RunnableThreads, TimerQueue, thread, monitor)
      BY <1>2
<1>8. ~Contains(RunnableThreads, t)
      BY <1>7, StatesDiffer DEF Placed
<1>9. /\ IsInjective(RunnableThreads')
      /\ \A u : Contains(RunnableThreads', u) <=> Contains(RunnableThreads, u) \/ u = t
      BY <1>1, <1>2, <1>4, <1>8, AppendEffect DEF Ordered
<1>10. IsInjective(TimerQueue') /\ SortedBy(TimerQueue', [u \in Threads |-> thr[u].wakeup])
      BY CalmOrder
<1>11. Places(CurrentThread', RunnableThreads', TimerQueue', thread', monitor')
  <2>1. [u \in Threads |-> thread'[u].wakeup] = [u \in Threads |-> thr[u].wakeup]
        BY <1>4
  <2>2. Ordered(RunnableThreads', TimerQueue', thread', monitor')
        BY <1>1, <1>2, <1>9, <1>10, <2>1 DEF Ordered
  <2>3. ASSUME NEW u \in Threads, u # t
        PROVE  Placed(u, CurrentThread', RunnableThreads', TimerQueue', thread', monitor')
    <3>1. Placed(u, CurrentThread, RunnableThreads, TimerQueue, thread, monitor)
          BY <1>2
    <3>2. /\ thread'[u] = thread[u]
          /\ Contains(TimerQueue', u) <=> Contains(TimerQueue, u)
          /\ Contains(RunnableThreads', u) <=> Contains(RunnableThreads, u)
          BY <1>4, <1>9, <2>3 DEF CalmIn, WithoutIn
    <3> QED
          BY <1>1, <3>1, <3>2 DEF Placed
  <2>4. Placed(t, CurrentThread', RunnableThreads', TimerQueue', thread', monitor')
    <3>1. /\ thread'[t].state \in Alive /\ thread'[t].state # Asleep
          /\ thread'[t].state # Entering /\ thread'[t].state # Woken /\ thread'[t].state # Waiting
          BY <1>4, StatesDiffer DEF Alive
    <3>2. thread'[t].lockDepth <= MaxDepth /\ thread'[t].wakeupCall = NIL
          BY <1>4, <1>5, LockDepths DEF CalmIn
    <3>3. Contains(RunnableThreads', t) /\ CurrentThread' # t /\ ~Contains(TimerQueue', t)
          BY <1>3, <1>9 DEF WithoutIn
    <3>4. \A m \in Monitors : /\ ~Contains(monitor'[m].monitor_waitq, t)
                              /\ ~Contains(monitor'[m].condvar_waitq, t)
          BY <1>1, <1>7, StatesDiffer DEF Placed
    <3> QED
          BY <1>4, <3>1, <3>2, <3>3, <3>4, CallsDiffer DEF Placed
  <2> QED
        BY <2>2, <2>3, <2>4 DEF Places
<1>12. SameLife(thread, thread') /\ SameHash(thread, thread')
  <2>1. thread[t].state \notin Lifeless /\ thread'[t].state \notin Lifeless
        BY <1>4, StatesDiffer DEF Alive
  <2> QED
        BY <1>4, <1>5, <2>1 DEF SameLife, SameHash, CalmIn
<1> QED
      BY <1>6, <1>11, <1>12, SameMonitorsStep

Thrown(thr, u) == [thr EXCEPT ![u].pendingException = TRUE]

LEMMA ThrownField ==
  ASSUME NEW thr \in [Threads -> ThreadStruct], NEW u \in Threads, NEW thr2,
         thr2 = Thrown(thr, u)
  PROVE  /\ thr2 \in [Threads -> ThreadStruct]
         /\ \A t \in Threads : t # u => thr2[t] = thr[t]
         /\ thr2[u].state = thr[u].state /\ thr2[u].monitor = thr[u].monitor
         /\ thr2[u].monitor_depth = thr[u].monitor_depth
         /\ thr2[u].wakeupCall = thr[u].wakeupCall
         /\ thr2[u].lockDepth = thr[u].lockDepth /\ thr2[u].lockHash = thr[u].lockHash
<1>1. \A t \in Threads : t # u => thr2[t] = thr[t]
      BY DEF Thrown
<1>2. thr[u] \in ThreadStruct /\ thr2[u] = [thr[u] EXCEPT !.pendingException = TRUE]
      BY DEF Thrown
<1>3. /\ thr2[u].state = thr[u].state /\ thr2[u].monitor = thr[u].monitor
      /\ thr2[u].monitor_depth = thr[u].monitor_depth
      /\ thr2[u].wakeupCall = thr[u].wakeupCall
      /\ thr2[u].lockDepth = thr[u].lockDepth /\ thr2[u].lockHash = thr[u].lockHash
      BY <1>2 DEF ThreadStruct
<1>4. thr2[u] \in ThreadStruct
      BY <1>2 DEF ThreadStruct
<1>5. thr2 \in [Threads -> ThreadStruct]
      BY <1>1, <1>4 DEF Thrown
<1> QED
      BY <1>1, <1>3, <1>5

(* A thread that is interrupted stood where its state says.                *)
LEMMA InterruptSched ==
  ASSUME SchedInv, LockInv', ReInterrupt = FALSE, NEW t \in Threads, NEW u \in Threads,
         Interrupt(t, u)
  PROVE  SchedInv'
<1> DEFINE sleeping == inTimerQueue(u)
           waiting  == "CONVAR_WAIT" \in thread[u].state
           calm     == IF sleeping THEN WithoutAlarm(thread, {u}) ELSE thread
           thrown   == Thrown(calm, u)
           m        == thread[u].monitor
<1>1. /\ TypeOK /\ ~fatal /\ thread \in [Threads -> ThreadStruct] /\ TimerQueue \in Seq(Threads)
      /\ thread[u].state \notin {{}, {"JUST_BORN"}, {"DEAD"}} /\ ~LeftCondvar(u)
      /\ UNCHANGED <<CurrentThread, lifeVars, MonitorCache, mhc, hashVars>>
      BY DEF SchedInv, LockInv, TypeOK, Interrupt, Running
<1>2. /\ TimerQueue' = IF sleeping THEN removePendingAlarms({u}) ELSE TimerQueue
      /\ \/ waiting /\ addMonitorWait(m, LeftBy(m, u), u, thrown)
         \/ sleeping /\ ~waiting /\ resumeThread(u, thrown) /\ UNCHANGED monitor
         \/ /\ ~sleeping /\ ~waiting /\ thread' = PendingSet(thread, u)
            /\ UNCHANGED <<RunnableThreads, fatal, monitor>>
      BY Zenon DEF Interrupt, LeftBy, Thrown, PendingSet
<1>3. Placed(u, CurrentThread, RunnableThreads, TimerQueue, thread, monitor)
      BY DEF SchedInv, Places
<1>4. thread[u].state \in Alive
      BY <1>1, <1>3 DEF Placed, Lifeless
<1>5. WithoutIn(TimerQueue', u) \/ (~sleeping /\ TimerQueue' = TimerQueue)
  <2>1. CASE sleeping
    <3>1. TimerQueue' = removeThreads(TimerQueue, {u})
          BY <1>2, <2>1 DEF removePendingAlarms
    <3>2. TimerQueue' \in Seq(Threads)
          BY <1>1, <3>1, RemoveThreadsType
    <3>3. /\ PartOf(TimerQueue', TimerQueue)
          /\ \A v : Contains(TimerQueue', v) <=> Contains(TimerQueue, v) /\ v \notin {u}
          BY <1>1, <3>1, RemoveThreadsEffect
    <3> QED
          BY <3>2, <3>3 DEF WithoutIn
  <2> QED
        BY <1>2, <2>1
<1>6. ~sleeping => thread[u].wakeupCall = NIL /\ ~Contains(TimerQueue, u)
      BY <1>3 DEF Placed, inTimerQueue
<1>7. WithoutIn(TimerQueue', u)
  <2>1. PartOf(TimerQueue, TimerQueue)
    <3> DEFINE g == [i \in 1..Len(TimerQueue) |-> i]
    <3>1. /\ g \in [1..Len(TimerQueue) -> 1..Len(TimerQueue)]
          /\ \A i, j \in 1..Len(TimerQueue) : i < j => g[i] < g[j]
          /\ \A i \in 1..Len(TimerQueue) : TimerQueue[i] = TimerQueue[g[i]]
          OBVIOUS
    <3> QED
          BY <3>1 DEF PartOf
  <2> QED
        BY <1>1, <1>5, <1>6, <2>1 DEF WithoutIn
<1>8. /\ calm \in [Threads -> ThreadStruct] /\ CalmIn(calm, u)
  <2>1. CASE sleeping
    <3>1. calm = WithoutAlarm(thread, {u})
          BY <2>1
    <3> HIDE DEF calm
    <3> QED
          BY <1>1, <3>1, CalmEffect DEF CalmIn
  <2>2. CASE ~sleeping
    <3>1. calm = thread
          BY <2>2
    <3> HIDE DEF calm
    <3> QED
          BY <1>1, <1>6, <2>2, <3>1 DEF CalmIn
  <2> QED
        BY <2>1, <2>2
<1>9. thrown \in [Threads -> ThreadStruct] /\ CalmIn(thrown, u)
  <2> HIDE DEF calm
  <2>1. /\ thrown \in [Threads -> ThreadStruct]
        /\ \A v \in Threads : v # u => thrown[v] = calm[v]
        /\ thrown[u].state = calm[u].state /\ thrown[u].monitor = calm[u].monitor
        /\ thrown[u].monitor_depth = calm[u].monitor_depth
        /\ thrown[u].wakeupCall = calm[u].wakeupCall
        /\ thrown[u].lockDepth = calm[u].lockDepth /\ thrown[u].lockHash = calm[u].lockHash
        BY <1>8, ThrownField
  <2> HIDE DEF thrown
  <2> QED
        BY <1>8, <2>1 DEF CalmIn
<1> HIDE DEF calm, thrown
<1>10. CASE waiting /\ addMonitorWait(m, LeftBy(m, u), u, thrown)
  <2>1. thread[u].state \in {Waiting, Woken}
        BY <1>4, <1>10, StatesDiffer
  <2>2. m \in Monitors
        BY <1>3, <2>1 DEF Placed
  <2>3. Contains(monitor[m].condvar_waitq, u)
        BY <1>1, <1>10 DEF LeftCondvar
  <2>4. thread[u].state = Waiting
        BY <1>3, <2>2, <2>3 DEF Placed
  <2> HIDE DEF m
  <2>5. thread[u].monitor = m
        BY DEF m
  <2> QED
        BY <1>1, <1>7, <1>9, <1>10, <2>2, <2>4, <2>5, WaitEnds
<1>11. CASE sleeping /\ ~waiting /\ resumeThread(u, thrown) /\ UNCHANGED monitor
  <2>1. thread[u].state = Asleep
    <3>1. thread[u].wakeupCall \in {"resumeThread", "monitorWaitAlarm"}
          BY <1>1, <1>11, ThreadEta DEF inTimerQueue
    <3>2. thread[u].state # Waiting
          BY <1>4, <1>11, StatesDiffer
    <3> QED
          BY <1>3, <3>1, <3>2 DEF Placed
  <2> QED
        BY <1>1, <1>7, <1>9, <1>11, <2>1, SleepEnds DEF lockVars
<1>12. CASE /\ ~sleeping /\ ~waiting /\ thread' = PendingSet(thread, u)
            /\ UNCHANGED <<RunnableThreads, fatal, monitor>>
  <2>1. /\ SamePlace(thread, thread')
        /\ \A v \in Threads : /\ thread'[v].lockDepth = thread[v].lockDepth
                              /\ thread'[v].lockHash = thread[v].lockHash
        BY <1>1, <1>12, PendingField
  <2>2. SameQueues(monitor, monitor') /\ TimerQueue' = TimerQueue
        BY <1>2, <1>12 DEF SameQueues
  <2>3. /\ Places(CurrentThread', RunnableThreads', TimerQueue', thread', monitor')
        /\ SameLife(thread, thread')
        BY <1>1, <1>12, <2>1, <2>2, LockDepths, StillPlaces
  <2> QED
        BY <1>1, <1>12, <2>1, <2>3, SameMonitorsStep DEF SameHash, lockVars
<1> QED
      BY <1>2, <1>10, <1>11, <1>12

(* An alarm finds its thread where it put it.                              *)
LEMMA FireAlarmSched ==
  ASSUME SchedInv, LockInv', FireAlarm
  PROVE  SchedInv'
<1> DEFINE t == Head(TimerQueue)
           m == thread[t].monitor
           calm == WithoutAlarm(thread, {t})
<1>1. /\ TypeOK /\ ~fatal /\ thread \in [Threads -> ThreadStruct] /\ TimerQueue \in Seq(Threads)
      /\ TimerQueue # <<>> /\ TimerQueue' = removeQueueStart(TimerQueue)
      /\ UNCHANGED <<CurrentThread, lifeVars, MonitorCache, mhc, hashVars>>
      BY DEF SchedInv, LockInv, TypeOK, FireAlarm, AlarmDue
<1>2. \/ /\ thread[t].wakeupCall = "resumeThread"
         /\ resumeThread(t, calm) /\ UNCHANGED monitor
      \/ /\ thread[t].wakeupCall = "monitorWaitAlarm"
         /\ m # NIL /\ Contains(monitor[m].condvar_waitq, t)
              => addMonitorWait(m, LeftBy(m, t), t, calm)
      BY DEF FireAlarm, LeftBy
<1>3. t \in Threads
      BY <1>1
<1>4. WithoutIn(TimerQueue', t)
  <2>1. Tail(TimerQueue) \in Seq(Threads) /\ IsInjective(TimerQueue)
        BY <1>1 DEF SchedInv, Places, Ordered
  <2>2. /\ TimerQueue' = Tail(TimerQueue) /\ PartOf(Tail(TimerQueue), TimerQueue)
        /\ \A u : Contains(Tail(TimerQueue), u) <=> Contains(TimerQueue, u) /\ u # t
        BY <1>1, <2>1, TailEffect
  <2> QED
        BY <2>1, <2>2 DEF WithoutIn
<1> HIDE DEF t
<1>9. calm = WithoutAlarm(thread, {t})
      OBVIOUS
<1> HIDE DEF calm
<1>5. calm \in [Threads -> ThreadStruct] /\ CalmIn(calm, t)
  <2>1. /\ calm \in [Threads -> ThreadStruct]
        /\ \A u \in Threads : u \notin {t} => calm[u] = thread[u]
        /\ \A u \in Threads : u \in {t} => calm[u].wakeupCall = NIL
        /\ \A u \in Threads :
             /\ calm[u].state = thread[u].state /\ calm[u].monitor = thread[u].monitor
             /\ calm[u].monitor_depth = thread[u].monitor_depth
             /\ calm[u].lockDepth = thread[u].lockDepth /\ calm[u].lockHash = thread[u].lockHash
        BY <1>1, <1>9, CalmEffect
  <2> QED
        BY <1>3, <2>1 DEF CalmIn
<1>6. Placed(t, CurrentThread, RunnableThreads, TimerQueue, thread, monitor)
      BY <1>3 DEF SchedInv, Places
<1>7. CASE /\ thread[t].wakeupCall = "resumeThread"
           /\ resumeThread(t, calm) /\ UNCHANGED monitor
  <2>1. thread[t].state = Asleep
        BY <1>6, <1>7 DEF Placed
  <2> QED
        BY <1>1, <1>3, <1>4, <1>5, <1>7, <2>1, SleepEnds DEF lockVars
<1>8. CASE /\ thread[t].wakeupCall = "monitorWaitAlarm"
           /\ m # NIL /\ Contains(monitor[m].condvar_waitq, t)
                => addMonitorWait(m, LeftBy(m, t), t, calm)
  <2>1. thread[t].state = Waiting
        BY <1>6, <1>8 DEF Placed
  <2>2. m \in Monitors
        BY <1>6, <2>1 DEF Placed
  <2>3. Contains(monitor[m].condvar_waitq, t)
        BY <1>6, <2>1, <2>2 DEF Placed
  <2>4. thread[t].monitor = m /\ addMonitorWait(m, LeftBy(m, t), t, calm)
        BY <1>6, <1>8, <2>1, <2>2, <2>3, CallsDiffer DEF Placed
  <2> HIDE DEF m
  <2> QED
        BY <1>1, <1>3, <1>4, <1>5, <2>1, <2>2, <2>4, WaitEnds
<1> QED
      BY <1>2, <1>7, <1>8

-----------------------------------------------------------------------------
(* Threads die                                                             *)

LEMMA SameWords ==
  ASSUME SchedInv, LockInv', UNCHANGED <<mhc, MonitorCache, hashVars>>,
         NEW m \in Monitors, Serves(mhc, m), OnlyMonitor(m, monitor[m]), SameHash(thread, thread')
  PROVE  MonitorUnique' /\ HashKnown' /\ \A k \in Monitors : Sound(monitor'[k])
<1>1. TypeOK /\ TypeOK'
      BY DEF SchedInv, LockInv
<1>2. MonitorUnique'
      BY <1>1, UniqueParts, UniquePartsNext DEF SchedInv, OnlyMonitor
<1>3. \A k \in Monitors : Sound(monitor'[k])
      BY DEF SchedInv, OnlyMonitor
<1>4. \A k \in Monitors : monitor'[k].hashCode = monitor[k].hashCode
      BY DEF OnlyMonitor
<1>5. HashKnown'
  <2>1. \A o \in Objects : StoredHash(o)' = StoredHash(o)
        BY <1>1, <1>4, HashSame
  <2> QED
        BY <2>1, HashKept DEF SchedInv, hashVars
<1> QED
      BY <1>2, <1>3, <1>5

LEMMA StopThreadSched ==
  ASSUME SchedInv, LockInv', NEW t \in Threads, StopThread(t)
  PROVE  SchedInv'
<1> DEFINE o    == JavaThread[t]
           m    == mhc[o].monitor
           n    == WaitersToWake(m, TRUE)
           dead == StateSet(thread, t, {"DEAD"})
           join == o # NIL /\ mhc[o].tag = "MONITOR"
<1>1. /\ TypeOK /\ CurrentThread = t /\ ~fatal /\ thread \in [Threads -> ThreadStruct]
      /\ AllThreads \in Seq(Threads) /\ CurrentThread' = NIL
      /\ AliveThreadCount' = AliveThreadCount - 1 /\ AllThreads' = removeFromQueue(AllThreads, t)
      /\ UNCHANGED <<MonitorCache, mhc, hashVars>>
      /\ mhc \in [Objects -> MHC]
      BY DEF SchedInv, LockInv, TypeOK, StopThread, Running, GiveUpProcessor
<1>2. \/ join /\ removeCondvarWait(m, n, dead)
      \/ thread' = dead /\ UNCHANGED <<TimerQueue, RunnableThreads, monitor, fatal>>
      BY Zenon DEF StopThread, StateSet
<1>3. /\ thread[t].state = Ready /\ thread[t].wakeupCall = NIL
      /\ ~Contains(RunnableThreads, t) /\ ~Contains(TimerQueue, t)
      /\ \A k \in Monitors : /\ ~Contains(monitor[k].monitor_waitq, t)
                             /\ ~Contains(monitor[k].condvar_waitq, t)
      BY <1>1, RunningPlace
<1>4. /\ \A u \in Threads : u # t => dead[u] = thread[u]
      /\ dead[t].state = {"DEAD"} /\ dead[t].wakeup = thread[t].wakeup
      /\ dead[t].wakeupCall = thread[t].wakeupCall
      /\ dead[t].lockDepth = thread[t].lockDepth /\ dead[t].lockHash = thread[t].lockHash
      BY <1>1, StateField
<1>5. dead \in [Threads -> ThreadStruct]
  <2>1. {"DEAD"} \in SUBSET ThreadState
        BY DEF ThreadState
  <2> QED
        BY <1>1, <2>1, StateUpdate DEF StateSet
<1> HIDE DEF dead
<1>6. dead[t].state \in Lifeless /\ thread[t].state \notin Lifeless
      BY <1>3, <1>4, StatesDiffer DEF Lifeless, Alive
<1>7. Places(NIL, RunnableThreads, TimerQueue, dead, monitor)
  <2>1. [v \in Threads |-> dead[v].wakeup] = [v \in Threads |-> thread[v].wakeup]
        BY <1>4
  <2>2. Ordered(RunnableThreads, TimerQueue, dead, monitor)
        BY <2>1 DEF SchedInv, Places, Ordered
  <2>3. ASSUME NEW v \in Threads, v # t
        PROVE  Placed(v, NIL, RunnableThreads, TimerQueue, dead, monitor)
    <3>1. Placed(v, CurrentThread, RunnableThreads, TimerQueue, thread, monitor)
          BY DEF SchedInv, Places
    <3>2. dead[v] = thread[v] /\ CurrentThread # v /\ NIL # v
          BY <1>1, <1>4, <2>3, CallsDiffer
    <3> QED
          BY <3>1, <3>2 DEF Placed
  <2>4. Placed(t, NIL, RunnableThreads, TimerQueue, dead, monitor)
    <3>1. /\ dead[t].state # Ready /\ dead[t].state # Asleep /\ dead[t].state # Entering
          /\ dead[t].state # Woken /\ dead[t].state # Waiting
          BY <1>6, StatesDiffer DEF Alive
    <3>2. dead[t].lockDepth <= MaxDepth /\ dead[t].wakeupCall = NIL
          BY <1>3, <1>4, LockDepths
    <3> QED
          BY <1>3, <1>6, <3>1, <3>2, CallsDiffer DEF Placed
  <2> QED
        BY <2>2, <2>3, <2>4 DEF Places
<1>8. Counted(dead, AllThreads', AliveThreadCount')
  <2> DEFINE S == {v \in Threads : thread[v].state \notin Lifeless}
  <2>1. Counted(thread, AllThreads, AliveThreadCount)
        BY DEF SchedInv
  <2>2. /\ IsInjective(AllThreads')
        /\ \A v : Contains(AllThreads', v) <=> Contains(AllThreads, v) /\ v # t
        BY <1>1, <2>1, RemoveFromEffect DEF Counted
  <2>3. \A v \in Threads : Contains(AllThreads', v) <=> dead[v].state \notin {{}, {"DEAD"}}
        BY <1>4, <2>1, <2>2 DEF Counted
  <2>4. {v \in Threads : dead[v].state \notin Lifeless} = S \ {t}
        BY <1>4, <1>6
  <2>5. IsFiniteSet(S)
    <3>1. \A v \in S : Contains(AllThreads, v)
          BY <2>1 DEF Counted, Lifeless
    <3> QED
          BY <1>1, <3>1, ListedFinite
  <2>6. AliveThreadCount = Cardinality(S) /\ t \in S
        BY <1>6, <2>1 DEF Counted
  <2>7. Cardinality(S \ {t}) = AliveThreadCount - 1
        BY <2>5, <2>6, FS_RemoveElement
  <2> QED
        BY <1>1, <2>2, <2>3, <2>4, <2>7 DEF Counted
<1>9. CASE join /\ removeCondvarWait(m, n, dead)
  <2>1. o \in Objects /\ mhc[o].tag = "MONITOR"
    <3>1. JavaThread[t] \in Objects \cup {NIL}
          BY ThreadsAssumption
    <3> QED
          BY <1>9, <3>1
  <2>2. m \in Monitors /\ Serves(mhc, m)
    <3>1. mhc[o] \in MHC
          BY <1>1, <2>1
    <3> QED
          BY <2>1, <3>1, WordCases DEF Serves
  <2>3. n \in 0..Len(monitor[m].condvar_waitq)
        BY <1>1, <2>2, WaitersToWakeType
  <2>4. removeCondvarWait(m, n, dead)
        BY <1>9
  <2> HIDE DEF m, n
  <2>5. dead[CurrentThread].state \notin {Entering, Waiting, Woken}
        BY <1>1, <1>6, StatesDiffer DEF Alive
  <2>6. Sound(monitor[m])
        BY <2>2 DEF SchedInv
  <2>7. /\ Places(NIL, RunnableThreads', TimerQueue', thread', monitor')
        /\ Kept(dead, thread') /\ fatal' = fatal /\ OnlyMonitor(m, monitor[m])
        BY <1>1, <1>5, <1>7, <2>2, <2>3, <2>4, <2>5, <2>6, RemoveCondvarWaitPlaces
  <2>8. SameLife(dead, thread') /\ SameHash(thread, thread')
        BY <1>4, <2>7 DEF Kept, SameLife, SameHash
  <2>9. Counted(thread', AllThreads', AliveThreadCount')
        BY <1>8, <2>8, CountedKept
  <2> QED
        BY <1>1, <2>2, <2>7, <2>8, <2>9, SameWords DEF SchedInv
<1>10. CASE thread' = dead /\ UNCHANGED <<TimerQueue, RunnableThreads, monitor, fatal>>
  <2>1. SameHash(thread, thread')
        BY <1>4, <1>10 DEF SameHash
  <2>2. MonitorUnique' /\ HashKnown' /\ \A k \in Monitors : Sound(monitor'[k])
        BY <1>1, <1>10, <2>1, SameMonitors DEF lockVars
  <2>3. Places(NIL, RunnableThreads', TimerQueue', thread', monitor')
        BY <1>7, <1>10
  <2>4. Counted(thread', AllThreads', AliveThreadCount')
        BY <1>8, <1>10
  <2> QED
        BY <1>1, <1>10, <2>2, <2>3, <2>4 DEF SchedInv
<1> QED
      BY <1>2, <1>9, <1>10

-----------------------------------------------------------------------------
(* SchedInv is inductive                                                   *)

LEMMA ObjectStepSched ==
  ASSUME SchedInv, LockInv', NEW t \in Threads, NEW o \in Objects, ObjectStep(t, o)
  PROVE  SchedInv'
BY MonitorEnterFastSched, MonitorEnterSlowSched, MonitorExitFastSched, MonitorExitSlowSched,
   MonitorWaitSched, MonitorNotifySched, HashCodeSched, Zenon DEF ObjectStep

LEMMA NextSched == ReInterrupt = FALSE /\ SchedInv /\ [Next]_vars => SchedInv'
<1> SUFFICES ASSUME ReInterrupt = FALSE, SchedInv, [Next]_vars PROVE SchedInv'
    OBVIOUS
<1>1. LockInv'
      BY NextLockInv DEF SchedInv
<1>2. ASSUME NEW t \in Threads, ThreadStep(t) PROVE SchedInv'
  <2>1. CASE \E o \in Objects : ObjectStep(t, o)
        BY <1>1, <2>1, ObjectStepSched
  <2>2. CASE \E period \in SleepTimes : Sleep(t, period)
        BY <1>1, <2>2, SleepSched
  <2>3. CASE Yield(t)
        BY <1>1, <2>3, YieldSched
  <2>4. CASE \E u \in Threads : StartThread(t, u) \/ SetPriority(t, u) \/ Interrupt(t, u)
        BY <1>1, <2>4, StartThreadSched, SetPrioritySched, InterruptSched
  <2>5. CASE StopThread(t)
        BY <1>1, <2>5, StopThreadSched
  <2> QED
        BY <1>2, <2>1, <2>2, <2>3, <2>4, <2>5 DEF ThreadStep
<1>3. CASE FireAlarm \/ TimersDone \/ SwitchThread \/ Exit
      BY <1>1, <1>3, FireAlarmSched, TimersDoneSched, SwitchThreadSched, ExitSched
<1>4. CASE GarbageCollect \/ Tick \/ Terminated \/ UNCHANGED vars
      BY <1>1, <1>4, GarbageCollectSched, TickSched, StutterSched DEF Terminated
<1> QED
      BY <1>2, <1>3, <1>4 DEF Next, Reschedule

LEMMA InitSched == Init => SchedInv
<1> SUFFICES ASSUME Init PROVE SchedInv
    OBVIOUS
<1>1. LockInv /\ TypeOK
      BY InitLockInv DEF LockInv
<1>2. /\ CurrentThread = MainThread /\ RunnableThreads = <<>> /\ AllThreads = <<MainThread>>
      /\ AliveThreadCount = 1 /\ TimerQueue = <<>> /\ MonitorCache = <<>> /\ ~fatal
      /\ MainThread \in Threads
      BY ThreadsAssumption DEF Init
<1>3. \A m \in Monitors : monitor[m] = EmptyMonitor
      BY DEF Init
<1>4. \A o \in Objects : mhc[o] = Unlocked(0) /\ hashReturned[o] = {}
      BY DEF Init
<1>5. /\ thread[MainThread].state = Ready /\ ~thread[MainThread].pendingException
      /\ \A t \in Threads : t # MainThread => thread[t].state = {}
      /\ \A t \in Threads : thread[t].wakeupCall = NIL /\ thread[t].lockDepth = 0
      BY <1>2 DEF Init, Unbuilt, Ready
<1>6. \A m \in Monitors : /\ monitor[m].owner = NIL /\ monitor[m].depth = 0
                          /\ monitor[m].monitor_waitq = <<>> /\ monitor[m].condvar_waitq = <<>>
      BY <1>3 DEF EmptyMonitor
<1>7. Ready \notin Lifeless /\ Ready \in Alive /\ {} \in Lifeless
      BY StatesDiffer DEF Alive, Lifeless
<1>8. Places(CurrentThread, RunnableThreads, TimerQueue, thread, monitor)
  <2>1. Ordered(RunnableThreads, TimerQueue, thread, monitor)
        BY <1>2, <1>6, EmptyQueue DEF Ordered, SortedBy
  <2>2. ASSUME NEW t \in Threads
        PROVE  Placed(t, CurrentThread, RunnableThreads, TimerQueue, thread, monitor)
    <3>1. /\ thread[t].state \in Lifeless \cup Alive
          /\ thread[t].state = Ready <=> CurrentThread = t
          /\ thread[t].state # Asleep /\ thread[t].state # Entering
          /\ thread[t].state # Waiting /\ thread[t].state # Woken
          BY <1>2, <1>5, <1>7, StatesDiffer DEF Alive
    <3>2. thread[t].lockDepth <= MaxDepth /\ (CurrentThread = t => ~thread[t].pendingException)
          BY <1>2, <1>5, BoundsAssumption
    <3> QED
          BY <1>2, <1>5, <1>6, <3>1, <3>2, EmptyQueue, CallsDiffer DEF Placed
  <2> QED
        BY <2>1, <2>2 DEF Places
<1>9. MonitorUnique
  <2>1. \A o \in Objects : mhc[o].tag = "UNLOCKED"
        BY <1>4 DEF Unlocked
  <2>2. UniqueWords(mhc, MonitorCache)
        BY <1>2, <2>1, EmptyQueue DEF UniqueWords
  <2> QED
        BY <1>1, <1>6, <2>2, UniqueParts DEF IsClean
<1>10. \A m \in Monitors : Sound(monitor[m])
       BY <1>6 DEF Sound
<1>11. Counted(thread, AllThreads, AliveThreadCount)
  <2>1. \A t : ~Contains(<<>>, t)
        BY EmptyQueue
  <2>2. /\ IsInjective(<<MainThread>>)
        /\ \A t : Contains(<<MainThread>>, t) <=> t = MainThread
        BY DEF IsInjective, Contains
  <2>3. {t \in Threads : thread[t].state \notin Lifeless} = {MainThread}
        BY <1>2, <1>5, <1>7
  <2>4. \A t \in Threads : t = MainThread <=> thread[t].state \notin {{}, {"DEAD"}}
        BY <1>2, <1>5, <1>7 DEF Lifeless
  <2> QED
        BY <1>2, <2>2, <2>3, <2>4, FS_Singleton DEF Counted
<1>12. HashKnown
       BY <1>4 DEF HashKnown
<1> QED
      BY <1>1, <1>2, <1>8, <1>9, <1>10, <1>11, <1>12 DEF SchedInv

(* SchedInv is an inductive invariant, of a machine on which no thread is  *)
(* interrupted between its wait() and its return with the monitor.         *)
THEOREM SchedInvariant == ReInterrupt = FALSE => (Spec => []SchedInv)
<1> SUFFICES ASSUME ReInterrupt = FALSE PROVE Spec => []SchedInv
    OBVIOUS
<1>1. SchedInv /\ [Next]_vars => SchedInv'
      BY NextSched
<1> QED
      BY <1>1, InitSched, PTL DEF Spec

-----------------------------------------------------------------------------
(* What it implies                                                         *)

LEMMA AlarmsOf == SchedInv => AlarmsExact
<1> SUFFICES ASSUME SchedInv PROVE AlarmsExact
    OBVIOUS
<1>1. /\ TimerQueue \in Seq(Threads) /\ WaiterHasMonitor /\ NoFatalError
      BY DEF SchedInv, LockInv, TypeOK, NoFatalError
<1>2. /\ IsInjective(TimerQueue) /\ SortedBy(TimerQueue, [t \in Threads |-> thread[t].wakeup])
      /\ \A t \in Threads : Placed(t, CurrentThread, RunnableThreads, TimerQueue, thread, monitor)
      BY DEF SchedInv, Places, Ordered
<1>3. ASSUME NEW i \in 1..Len(TimerQueue), NEW j \in 1..Len(TimerQueue), i < j
      PROVE  /\ TimerQueue[i] # TimerQueue[j]
             /\ thread[TimerQueue[i]].wakeup <= thread[TimerQueue[j]].wakeup
  <2>1. TimerQueue[i] \in Threads /\ TimerQueue[j] \in Threads
        BY <1>1
  <2>2. TimerQueue[i] # TimerQueue[j]
        BY <1>1, <1>2, <1>3, InjectiveQueue
  <2> QED
        BY <1>2, <1>3, <2>1, <2>2 DEF SortedBy
<1>4. ASSUME NEW t \in Threads
      PROVE  /\ inTimerQueue(t) <=> Contains(TimerQueue, t)
             /\ thread[t].wakeupCall = "resumeThread" => "SUSPENDED" \in thread[t].state
             /\ thread[t].wakeupCall = "monitorWaitAlarm" => MonitorsWaitedOn(t) # {}
  <2>1. Placed(t, CurrentThread, RunnableThreads, TimerQueue, thread, monitor)
        BY <1>2
  <2>2. "SUSPENDED" \in Asleep
        BY DEF Asleep
  <2> QED
        BY <2>1, <2>2 DEF Placed, inTimerQueue, MonitorsWaitedOn
<1> QED
      BY <1>1, <1>3, <1>4 DEF AlarmsExact, TimerQueueConsistent

LEMMA OccursOnce ==
  ASSUME NEW q \in Seq(Threads), IsInjective(q), NEW t
  PROVE  Occurrences(q, t) = IF Contains(q, t) THEN 1 ELSE 0
<1> DEFINE S == {i \in 1..Len(q) : q[i] = t}
<1>1. CASE Contains(q, t)
  <2>1. PICK i \in 1..Len(q) : q[i] = t
        BY <1>1 DEF Contains
  <2>2. S = {i}
        BY <2>1, InjectiveQueue
  <2> QED
        BY <1>1, <2>2, FS_Singleton DEF Occurrences
<1>2. CASE ~Contains(q, t)
  <2>1. S = {}
        BY <1>2 DEF Contains
  <2> QED
        BY <1>2, <2>1, FS_EmptySet DEF Occurrences
<1> QED
      BY <1>1, <1>2

LEMMA ThreadsOf == SchedInv => ThreadsExact
<1> SUFFICES ASSUME SchedInv PROVE ThreadsExact
    OBVIOUS
<1>1. /\ RunnableThreads \in Seq(Threads) /\ AllThreads \in Seq(Threads)
      BY DEF SchedInv, LockInv, TypeOK
<1>2. /\ IsInjective(RunnableThreads)
      /\ \A t \in Threads : Placed(t, CurrentThread, RunnableThreads, TimerQueue, thread, monitor)
      BY DEF SchedInv, Places, Ordered
<1>3. ASSUME NEW t \in Threads PROVE IsAlive(t) <=> thread[t].state \notin Lifeless
  <2>1. thread[t].state \in Lifeless \cup Alive
        BY <1>2 DEF Placed
  <2> QED
        BY <2>1, StatesDiffer DEF IsAlive
<1>4. ASSUME NEW t \in Threads
      PROVE  (IF CurrentThread = t THEN 1 ELSE 0)
               + Occurrences(RunnableThreads, t)
               + Cardinality(MonitorsQueuing(t))
               + Cardinality(MonitorsWaitedOn(t))
               + (IF IsSleeping(t) THEN 1 ELSE 0)
             = IF IsAlive(t) THEN 1 ELSE 0
  <2> DEFINE s == thread[t].state
             k == thread[t].monitor
  <2>1. Placed(t, CurrentThread, RunnableThreads, TimerQueue, thread, monitor)
        BY <1>2
  <2>2. s \in Lifeless \cup Alive
        BY <2>1 DEF Placed
  <2>3. Occurrences(RunnableThreads, t) = IF Contains(RunnableThreads, t) THEN 1 ELSE 0
        BY <1>1, <1>2, OccursOnce
  <2>4. Cardinality(MonitorsQueuing(t)) = IF s \in {Entering, Woken} THEN 1 ELSE 0
    <3>1. CASE s \in {Entering, Woken}
      <4>1. MonitorsQueuing(t) = {k}
            BY <2>1, <3>1 DEF Placed, MonitorsQueuing
      <4> QED
            BY <3>1, <4>1, FS_Singleton
    <3>2. CASE s \notin {Entering, Woken}
      <4>1. MonitorsQueuing(t) = {}
            BY <2>1, <3>2 DEF Placed, MonitorsQueuing
      <4> QED
            BY <3>2, <4>1, FS_EmptySet
    <3> QED
          BY <3>1, <3>2
  <2>5. Cardinality(MonitorsWaitedOn(t)) = IF s = Waiting THEN 1 ELSE 0
    <3>1. CASE s = Waiting
      <4>1. MonitorsWaitedOn(t) = {k}
            BY <2>1, <3>1 DEF Placed, MonitorsWaitedOn
      <4> QED
            BY <3>1, <4>1, FS_Singleton
    <3>2. CASE s # Waiting
      <4>1. MonitorsWaitedOn(t) = {}
            BY <2>1, <3>2 DEF Placed, MonitorsWaitedOn
      <4> QED
            BY <3>2, <4>1, FS_EmptySet
    <3> QED
          BY <3>1, <3>2
  <2>6. IsSleeping(t) <=> s = Asleep
    <3>1. thread[t].wakeupCall = "resumeThread" => Contains(TimerQueue, t)
          BY <2>1, CallsDiffer DEF Placed
    <3> QED
          BY <2>1, <3>1 DEF Placed, IsSleeping
  <2>7. /\ s = Ready <=> CurrentThread = t \/ Contains(RunnableThreads, t)
        /\ ~(CurrentThread = t /\ Contains(RunnableThreads, t))
        BY <2>1 DEF Placed
  <2> HIDE DEF s
  <2>8. CASE s \in Lifeless
    <3>1. s # Ready /\ s # Asleep /\ s # Entering /\ s # Waiting /\ s # Woken
          BY <2>8, StatesDiffer DEF Alive
    <3>2. ~IsAlive(t)
          BY <1>3, <2>8 DEF s
    <3> QED
          BY <2>3, <2>4, <2>5, <2>6, <2>7, <3>1, <3>2
  <2>9. CASE s \in Alive
    <3>1. s \in {Ready, Asleep, Entering, Waiting, Woken} /\ s \notin Lifeless
          BY <2>9, StatesDiffer DEF Alive
    <3>2. IsAlive(t)
          BY <1>3, <3>1 DEF s
    <3> QED
          BY <2>3, <2>4, <2>5, <2>6, <2>7, <3>1, <3>2, StatesDiffer
  <2> QED
        BY <2>2, <2>8, <2>9
<1>5. NoLostThread
      BY <1>4 DEF NoLostThread
<1>6. AliveThreadsCounted
  <2>1. Counted(thread, AllThreads, AliveThreadCount)
        BY DEF SchedInv
  <2>2. {t \in Threads : IsAlive(t)} = {t \in Threads : thread[t].state \notin Lifeless}
        BY <1>3
  <2>3. ToSet(AllThreads) = {t \in Threads : thread[t].state \notin {{}, {"DEAD"}}}
    <3>1. \A u : Contains(AllThreads, u) <=> u \in ToSet(AllThreads)
          BY <1>1, ContainsSet
    <3>2. \A u : Contains(AllThreads, u) => u \in Threads
          BY <1>1 DEF Contains
    <3> QED
          BY <2>1, <3>1, <3>2 DEF Counted
  <2> QED
        BY <2>1, <2>2, <2>3 DEF Counted, AliveThreadsCounted
<1> QED
      BY <1>5, <1>6 DEF ThreadsExact

LEMMA MonitorsOf == MaxDepth <= ShortMax /\ SchedInv => MonitorsExact
<1> SUFFICES ASSUME MaxDepth <= ShortMax, SchedInv PROVE MonitorsExact
    OBVIOUS
<1>1. MaxDepth \in Nat
      BY BoundsAssumption
<1>2. \A m \in Monitors : Sound(monitor[m])
      BY DEF SchedInv
<1>3. FreeMonitorHasNoQueue
      BY <1>1, <1>2 DEF FreeMonitorHasNoQueue, Sound, DepthFits
<1> QED
      BY <1>3 DEF SchedInv, MonitorsExact

LEMMA HashesOf == HashOnMonitor = FALSE /\ SchedInv => HashStable
<1> SUFFICES ASSUME HashOnMonitor = FALSE, SchedInv, NEW o \in Objects
             PROVE  Cardinality(hashReturned[o]) <= 1
    BY DEF HashStable
<1>1. hashReturned[o] \in SUBSET {StoredHash(o)}
      BY DEF SchedInv, HashKnown
<1> DEFINE h == StoredHash(o)
<1>2. hashReturned[o] \in SUBSET {h}
      BY <1>1
<1> HIDE DEF h
<1>3. IsFiniteSet({h}) /\ Cardinality({h}) = 1
      BY FS_Singleton
<1>4. Cardinality(hashReturned[o]) <= Cardinality({h})
      BY <1>2, <1>3, FS_Subset
<1> QED
      BY <1>3, <1>4

(* Whatever wakes a thread up finds it as it must: the queue of the alarms *)
(* is sorted and holds exactly the threads with a callback, a waiter names *)
(* its monitor, and no fatalError of thread.c is ever reached.             *)
THEOREM AlarmsStayExact == ReInterrupt = FALSE => (Spec => []AlarmsExact)
<1> SUFFICES ASSUME ReInterrupt = FALSE PROVE Spec => []AlarmsExact
    OBVIOUS
<1>1. Spec => []SchedInv
      BY SchedInvariant
<1> QED
      BY <1>1, AlarmsOf, PTL

(* Every live thread is in exactly one of the places a thread can be, and  *)
(* once; a thread that is not alive is in none; the counters agree.        *)
THEOREM NoThreadIsLost == ReInterrupt = FALSE => (Spec => []ThreadsExact)
<1> SUFFICES ASSUME ReInterrupt = FALSE PROVE Spec => []ThreadsExact
    OBVIOUS
<1>1. Spec => []SchedInv
      BY SchedInvariant
<1> QED
      BY <1>1, ThreadsOf, PTL

(* A real monitor serves one object at most, one that is free has nobody   *)
(* queueing for it, and one that serves nobody is clean.                   *)
THEOREM MonitorsStayExact ==
  ReInterrupt = FALSE /\ MaxDepth <= ShortMax => (Spec => []MonitorsExact)
<1> SUFFICES ASSUME ReInterrupt = FALSE, MaxDepth <= ShortMax PROVE Spec => []MonitorsExact
    OBVIOUS
<1>1. Spec => []SchedInv
      BY SchedInvariant
<1>2. SchedInv => MonitorsExact
      BY MonitorsOf
<1> QED
      BY <1>1, <1>2, PTL

(* The hash code of an object survives every way its lock is represented.  *)
THEOREM HashCodesAreStable ==
  ReInterrupt = FALSE /\ HashOnMonitor = FALSE => (Spec => []HashStable)
<1> SUFFICES ASSUME ReInterrupt = FALSE, HashOnMonitor = FALSE PROVE Spec => []HashStable
    OBVIOUS
<1>1. Spec => []SchedInv
      BY SchedInvariant
<1>2. SchedInv => HashStable
      BY HashesOf
<1> QED
      BY <1>1, <1>2, PTL

-----------------------------------------------------------------------------
(* Who ends, and whom that wakes                                           *)

(* Threads are listed when they are built, and leave the list in one       *)
(* place; no other step touches it.                                        *)
LEMMA ListKept ==
  ASSUME [Next]_vars
  PROVE  \/ AllThreads' = AllThreads
         \/ \E u \in Threads : AllThreads' = AllThreadsWith(u)
         \/ \E t \in Threads : StopThread(t)
<1>1. CASE UNCHANGED vars
      BY <1>1 DEF vars, lifeVars
<1>2. ASSUME NEW t \in Threads, NEW o \in Objects, ObjectStep(t, o)
      PROVE  AllThreads' = AllThreads
  <2>1. CASE MonitorEnterFast(t, o)
        BY <2>1 DEF MonitorEnterFast, lifeVars
  <2>2. CASE MonitorEnterSlow(t, o)
        BY Zenon, <2>2 DEF MonitorEnterSlow, lifeVars
  <2>3. CASE MonitorExitFast(t, o)
        BY <2>3 DEF MonitorExitFast, lifeVars
  <2>4. CASE MonitorExitSlow(t, o)
        BY Zenon, <2>4 DEF MonitorExitSlow, lifeVars
  <2>5. CASE \E delta \in WaitTimes : MonitorWait(t, o, delta)
        BY Zenon, <2>5 DEF MonitorWait, lifeVars
  <2>6. CASE \E notifyAll \in BOOLEAN : MonitorNotify(t, o, notifyAll)
        BY Zenon, <2>6 DEF MonitorNotify, lifeVars
  <2>7. CASE HashCode(t, o)
        BY Zenon, <2>7 DEF HashCode, lifeVars
  <2> QED
        BY <1>2, <2>1, <2>2, <2>3, <2>4, <2>5, <2>6, <2>7 DEF ObjectStep
<1>3. ASSUME NEW t \in Threads, NEW u \in Threads, Interrupt(t, u)
      PROVE  AllThreads' = AllThreads
      BY Zenon, <1>3 DEF Interrupt, lifeVars
<1>4. ASSUME NEW t \in Threads, NEW u \in Threads, StartThread(t, u) \/ SetPriority(t, u)
      PROVE  AllThreads' = AllThreadsWith(u)
      BY Zenon, <1>4 DEF StartThread, SetPriority
<1>5. ASSUME NEW t \in Threads, Yield(t) \/ \E period \in SleepTimes : Sleep(t, period)
      PROVE  AllThreads' = AllThreads
      BY Zenon, <1>5 DEF Yield, Sleep, lifeVars
<1>6. CASE FireAlarm \/ TimersDone \/ SwitchThread \/ Exit
      BY Zenon, <1>6 DEF FireAlarm, TimersDone, SwitchThread, Exit, lifeVars
<1>7. CASE GarbageCollect \/ Tick \/ Terminated
      BY Zenon, <1>7 DEF GarbageCollect, Tick, Terminated, vars, lifeVars
<1>8. ASSUME NEW t \in Threads, ThreadStep(t)
      PROVE  \/ AllThreads' = AllThreads
             \/ \E u \in Threads : AllThreads' = AllThreadsWith(u)
             \/ StopThread(t)
      BY <1>2, <1>3, <1>4, <1>5, <1>8 DEF ThreadStep
<1> QED
      BY <1>1, <1>6, <1>7, <1>8 DEF Next, Reschedule

(* A thread that is dead after a step was stopped by it.                   *)
LEMMA OnlyStopThreadEnds ==
  ASSUME SchedInv, SchedInv', [Next]_vars, NEW u \in Threads, IsAlive(u),
         thread'[u].state = {"DEAD"}
  PROVE  StopThread(u)
<1>1. /\ AllThreads \in Seq(Threads) /\ IsInjective(AllThreads)
      /\ Contains(AllThreads, u) /\ ~Contains(AllThreads', u)
  <2>1. thread[u].state \notin {{}, {"DEAD"}}
        BY DEF IsAlive
  <2>2. Counted(thread, AllThreads, AliveThreadCount)
        BY DEF SchedInv
  <2>3. Counted(thread', AllThreads', AliveThreadCount')
        BY DEF SchedInv
  <2> QED
        BY <2>1, <2>2, <2>3 DEF Counted, SchedInv, LockInv, TypeOK
<1>2. ASSUME NEW v \in Threads, AllThreads' = AllThreadsWith(v)
      PROVE  FALSE
  <2>1. CASE thread[v].state = {}
    <3>1. AllThreads' = <<v>> \o AllThreads
          BY <1>2, <2>1 DEF AllThreadsWith
    <3>2. ~Contains(AllThreads, v)
      <4>1. Counted(thread, AllThreads, AliveThreadCount)
            BY DEF SchedInv
      <4> QED
            BY <2>1, <4>1 DEF Counted
    <3> QED
          BY <1>1, <3>1, <3>2, PrependEffect
  <2>2. CASE thread[v].state # {}
        BY <1>1, <1>2, <2>2 DEF AllThreadsWith
  <2> QED
        BY <2>1, <2>2
<1>3. ASSUME NEW t \in Threads, StopThread(t)
      PROVE  t = u
  <2>1. AllThreads' = removeFromQueue(AllThreads, t)
        BY <1>3 DEF StopThread
  <2> QED
        BY <1>1, <2>1, RemoveFromEffect
<1> QED
      BY <1>1, <1>2, <1>3, ListKept

(* removeCondvarWait of all the waiters leaves none.                       *)
LEMMA CondvarEmptied ==
  ASSUME TypeOK, NEW thr \in [Threads -> ThreadStruct], NEW m \in Monitors,
         NEW n, n = Len(monitor[m].condvar_waitq), removeCondvarWait(m, n, thr)
  PROVE  monitor'[m].condvar_waitq = <<>>
<1>1. /\ monitor \in [Monitors -> MonitorStruct]
      /\ monitor[m].condvar_waitq \in Seq(Threads)
      BY DEF TypeOK, MonitorStruct
<1>2. PICK q \in Seq(Threads) : q = monitor[m].condvar_waitq
      BY <1>1
<1>3. n \in 0..Len(monitor[m].condvar_waitq)
      BY <1>2
<1>4. PICK left \in MonitorStruct, waiting \in [Threads -> ThreadStruct], woken \in Seq(Threads) :
        MovedFor(left, waiting, woken, n, m, thr)
      BY <1>3, RemoveCondvarWaitEffect
<1>5. left.condvar_waitq = <<>>
  <2>1. left.condvar_waitq = SubSeq(q, Len(q) + 1, Len(q))
        BY <1>2, <1>4 DEF MovedFor
  <2> QED
        BY <2>1
<1>6. CASE removeMonitorWait(m, left, waiting)
  <2>1. \/ monitor' = [monitor EXCEPT ![m] = [left EXCEPT !.owner = NIL, !.depth = 0]]
        \/ LET waiter == Head(left.monitor_waitq) IN
             monitor' = [monitor EXCEPT ![m] =
               [left EXCEPT !.owner = waiter, !.depth = waiting[waiter].monitor_depth,
                            !.monitor_waitq = removeQueueStart(@)]]
        BY Zenon, <1>6 DEF removeMonitorWait
  <2>2. monitor'[m].condvar_waitq = left.condvar_waitq
        BY Zenon, <1>1, <2>1 DEF MonitorStruct
  <2> QED
        BY <1>5, <2>2
<1>7. CASE monitor'[m] = left
      BY <1>5, <1>7
<1> QED
      BY Zenon, <1>4, <1>6, <1>7 DEF MovedFor

LEMMA JoinersLeave ==
  ASSUME SchedInv, NEW t \in Threads, StopThread(t), JavaThread[t] # NIL,
         mhc[JavaThread[t]].tag = "MONITOR"
  PROVE  monitor'[mhc[JavaThread[t]].monitor].condvar_waitq = <<>>
<1> DEFINE o    == JavaThread[t]
           m    == mhc[o].monitor
           n    == WaitersToWake(m, TRUE)
           dead == StateSet(thread, t, {"DEAD"})
<1>1. /\ TypeOK /\ thread \in [Threads -> ThreadStruct] /\ mhc \in [Objects -> MHC]
      BY DEF SchedInv, LockInv, TypeOK
<1>2. removeCondvarWait(m, n, dead)
      BY Zenon DEF StopThread, StateSet
<1>3. o \in Objects
      BY ThreadsAssumption
<1>4. m \in Monitors
  <2>1. mhc[o] \in MHC
        BY <1>1, <1>3
  <2> QED
        BY <2>1, WordCases
<1>5. n = Len(monitor[m].condvar_waitq)
      BY DEF WaitersToWake
<1>6. dead \in [Threads -> ThreadStruct]
  <2>1. {"DEAD"} \in SUBSET ThreadState
        BY DEF ThreadState
  <2> QED
        BY <1>1, <2>1, StateUpdate, SMTT(60) DEF StateSet
<1> HIDE DEF dead, n, m
<1>7. monitor'[m].condvar_waitq = <<>>
      BY <1>1, <1>2, <1>4, <1>5, <1>6, CondvarEmptied
<1> QED
      BY <1>7 DEF m

(* When a thread ends, whoever waits for its end, on its object, has left  *)
(* wait() in the same step, for every number of threads, objects and       *)
(* monitors: stopThread is the only code after which a thread is dead, and *)
(* it notifies all.                                                        *)
THEOREM EndingWakesJoiners == ReInterrupt = FALSE => (Spec => StopWakesJoiners)
<1> SUFFICES ASSUME ReInterrupt = FALSE PROVE Spec => StopWakesJoiners
    OBVIOUS
<1>1. Spec => []SchedInv
      BY SchedInvariant
<1>2. ASSUME SchedInv, [Next]_vars, NEW t \in Threads, IsAlive(t), thread'[t].state = {"DEAD"},
             JavaThread[t] # NIL, mhc[JavaThread[t]].tag = "MONITOR"
      PROVE  monitor'[mhc[JavaThread[t]].monitor].condvar_waitq = <<>>
  <2>1. SchedInv'
        BY <1>2, NextSched
  <2>2. StopThread(t)
        BY <1>2, <2>1, OnlyStopThreadEnds
  <2> QED
        BY <1>2, <2>2, JoinersLeave
<1>3. SchedInv /\ [Next]_vars =>
        [\A t \in Threads :
           LET o == JavaThread[t] IN
           /\ IsAlive(t) /\ thread'[t].state = {"DEAD"}
           /\ o # NIL
           /\ mhc[o].tag = "MONITOR"
           => monitor'[mhc[o].monitor].condvar_waitq = <<>>]_vars
      BY <1>2
<1> QED
      BY <1>1, <1>3, PTL DEF Spec, StopWakesJoiners

-----------------------------------------------------------------------------
(***************************************************************************)
(* The locks of KVMThreads implement JavaMonitor: every step of a thread,  *)
(* an alarm or the collector is a step of JavaMonitor on the abstract lock *)
(* of one object, or changes none of them.                                 *)
(*                                                                         *)
(* One lemma per action, under SchedInv: it says that the object of a lock *)
(* is the only one a monitor serves, that a running thread is in no queue, *)
(* and that whoever leaves a queue was in it once.                         *)
(***************************************************************************)

(* removeFromQueue is what JavaMonitor says of a wait set.                 *)
LEMMA RemoveIsRemoveFirst ==
  ASSUME NEW S, NEW q \in Seq(S), IsInjective(q), NEW t, Contains(q, t)
  PROVE  RemoveFirst(q, t) = removeFromQueue(q, t)
<1> DEFINE p == Position(q, t)
           I == {i \in 1..Len(q) : q[i] = t}
<1>1. p \in 1..Len(q) /\ q[p] = t
      BY PositionLemma
<1>2. \A i \in I : i = p
      BY <1>1 DEF IsInjective
<1>3. I = {p}
      BY <1>1, <1>2
<1>4. Min({p}) = p
      BY <1>1 DEF Min
<1>5. SelectInSeq(q, LAMBDA v : v = t) = IF I # {} THEN Min(I) ELSE 0
      BY DEF SelectInSeq
<1>6. SelectInSeq(q, LAMBDA v : v = t) = p
      BY <1>3, <1>4, <1>5
<1>7. RemoveFirst(q, t) = RemoveAt(q, p)
      BY <1>1, <1>6 DEF RemoveFirst
<1> QED
      BY <1>7 DEF removeFromQueue

-----------------------------------------------------------------------------
(* The locks as JavaMonitor sees them                                      *)

(* What JavaMonitor sees of the object p is ow, c, en, ws after the step.  *)
Becomes(p, ow, c, en, ws) ==
  /\ Owner(p)' = ow /\ Depth(p)' = c
  /\ Queues(p)'.monitor_waitq = en /\ Queues(p)'.condvar_waitq = ws

Unseen(p) ==
  Becomes(p, Owner(p), Depth(p), Queues(p).monitor_waitq, Queues(p).condvar_waitq)

SavedKept == \A t \in Threads : thread'[t].monitor_depth = thread[t].monitor_depth

LEMMA StutterSeen ==
  ASSUME \A p \in Objects : Unseen(p), SavedKept
  PROVE  UNCHANGED Java!vars
<1> USE DEF Unseen, Becomes, SavedKept
<1>1. [o \in Objects |-> Owner(o)]' = [o \in Objects |-> Owner(o)]
      OBVIOUS
<1>2. [o \in Objects |-> Depth(o)]' = [o \in Objects |-> Depth(o)]
      OBVIOUS
<1>3. [o \in Objects |-> Queues(o).monitor_waitq]' = [o \in Objects |-> Queues(o).monitor_waitq]
      OBVIOUS
<1>4. [o \in Objects |-> Queues(o).condvar_waitq]' = [o \in Objects |-> Queues(o).condvar_waitq]
      OBVIOUS
<1>5. [t \in Threads |-> thread[t].monitor_depth]' = [t \in Threads |-> thread[t].monitor_depth]
      OBVIOUS
<1> QED
      BY <1>1, <1>2, <1>3, <1>4, <1>5 DEF Java!vars

LEMMA RunningAbsent ==
  ASSUME SchedInv, NEW t \in Threads, CurrentThread = t, NEW o \in Objects
  PROVE  ~Contains(Queues(o).monitor_waitq, t) /\ ~Contains(Queues(o).condvar_waitq, t)
<1>1. CASE mhc[o].tag = "MONITOR"
  <2>1. mhc[o].monitor \in Monitors
        BY <1>1, WordCases DEF SchedInv, LockInv, TypeOK
  <2> QED
        BY <1>1, <2>1, RunningPlace DEF Queues
<1>2. CASE mhc[o].tag # "MONITOR"
      BY <1>2, EmptyQueue DEF Queues, EmptyMonitor
<1> QED
      BY <1>1, <1>2

LEMMA NotBlocked ==
  ASSUME SchedInv, NEW t \in Threads, CurrentThread = t
  PROVE  ~Java!Blocked(t)
BY RunningAbsent DEF Java!Blocked, Java!Contains, Contains

LEMMA InitSeen == Init => Java!Init
<1> SUFFICES ASSUME Init PROVE Java!Init
    OBVIOUS
<1>1. \A o \in Objects : /\ Owner(o) = NIL /\ Depth(o) = 0 /\ Queues(o) = EmptyMonitor
      BY DEF Init, Owner, Depth, Queues, Unlocked
<1>2. \A t \in Threads : thread[t].monitor_depth = 0
      BY DEF Init, Unbuilt
<1>3. EmptyMonitor.monitor_waitq = <<>> /\ EmptyMonitor.condvar_waitq = <<>>
      BY DEF EmptyMonitor
<1> QED
      BY <1>1, <1>2, <1>3 DEF Java!Init

LEMMA OtherSeen ==
  ASSUME SchedInv, NEW p \in Objects, mhc'[p] = mhc[p],
         \A k \in Monitors : mhc[p] = Real(k) =>
           /\ monitor'[k].owner = monitor[k].owner /\ monitor'[k].depth = monitor[k].depth
           /\ monitor'[k].monitor_waitq = monitor[k].monitor_waitq
           /\ monitor'[k].condvar_waitq = monitor[k].condvar_waitq,
         \A u \in Threads : mhc[p] = Extended(u) => thread'[u].lockDepth = thread[u].lockDepth
  PROVE  Unseen(p)
<1>1. mhc[p] \in MHC
      BY DEF SchedInv, LockInv, TypeOK
<1>2. CASE mhc[p].tag = "UNLOCKED"
      BY <1>2 DEF Unseen, Becomes, Owner, Depth, Queues
<1>3. CASE mhc[p].tag = "SIMPLE_LOCK"
      BY <1>3 DEF Unseen, Becomes, Owner, Depth, Queues
<1>4. CASE mhc[p].tag = "EXTENDED_LOCK"
  <2>1. mhc[p].thread \in Threads /\ mhc[p] = Extended(mhc[p].thread)
        BY <1>1, <1>4, WordCases
  <2> QED
        BY <1>4, <2>1 DEF Unseen, Becomes, Owner, Depth, Queues
<1>5. CASE mhc[p].tag = "MONITOR"
  <2>1. mhc[p].monitor \in Monitors /\ mhc[p] = Real(mhc[p].monitor)
        BY <1>1, <1>5, WordCases
  <2> QED
        BY <1>5, <2>1 DEF Unseen, Becomes, Owner, Depth, Queues
<1> QED
      BY <1>1, <1>2, <1>3, <1>4, <1>5, WordCases

(* What a real monitor shows.                                              *)
LEMMA RealSeen ==
  ASSUME NEW o \in Objects, NEW m
  PROVE  /\ mhc[o] = Real(m) =>
              /\ Owner(o) = monitor[m].owner /\ Depth(o) = monitor[m].depth
              /\ Queues(o) = monitor[m]
         /\ mhc'[o] = Real(m) => Becomes(o, monitor'[m].owner, monitor'[m].depth,
                                         monitor'[m].monitor_waitq, monitor'[m].condvar_waitq)
BY DEF Becomes, Owner, Depth, Queues, Real

(* Only the lock of o, which is the monitor m, changed.                    *)
LEMMA OthersUnseen ==
  ASSUME SchedInv, NEW o \in Objects, NEW m \in Monitors,
         \A p \in Objects : p # o => mhc'[p] = mhc[p] /\ mhc[p] # Real(m),
         \A k \in Monitors : k # m => monitor'[k] = monitor[k],
         \A u \in Threads : mhc[o] = Extended(u) \/ thread'[u].lockDepth = thread[u].lockDepth
  PROVE  \A p \in Objects \ {o} : Unseen(p)
<1> SUFFICES ASSUME NEW p \in Objects \ {o} PROVE Unseen(p)
    OBVIOUS
<1>1. \A k \in Monitors : mhc[p] = Real(k) => monitor'[k] = monitor[k]
      OBVIOUS
<1>2. ASSUME NEW u \in Threads, mhc[p] = Extended(u)
      PROVE  thread'[u].lockDepth = thread[u].lockDepth
  <2>1. mhc[p].tag = "EXTENDED_LOCK"
        BY <1>2, WordsDiffer
  <2>2. mhc[o] # mhc[p]
        BY <2>1 DEF SchedInv, LockInv, ExtendedLockUnique
  <2> QED
        BY <1>2, <2>2
<1> QED
      BY <1>1, <1>2, OtherSeen

(* A monitor that is attached to o, or is attached now, is that of o only, *)
(* and shows what was seen of o.                                           *)
LEMMA AttachSeen ==
  ASSUME SchedInv, NEW o \in Objects, NEW m \in Monitors, Attach(o, m)
  PROVE  /\ mhc'[o] = Real(m)
         /\ \A p \in Objects : p # o => mhc'[p] = mhc[p] /\ mhc[p] # Real(m)
         /\ Inflated(o, m) \in MonitorStruct
         /\ Inflated(o, m).owner = Owner(o) /\ Inflated(o, m).depth = Depth(o)
         /\ Inflated(o, m).monitor_waitq = Queues(o).monitor_waitq
         /\ Inflated(o, m).condvar_waitq = Queues(o).condvar_waitq
<1>1. /\ mhc'[o] = Real(m) /\ \A p \in Objects : p # o => mhc'[p] = mhc[p]
      /\ \/ mhc[o] = Real(m) /\ Inflated(o, m) = monitor[m]
         \/ mhc[o].tag # "MONITOR" /\ ~Serves(mhc, m)
      /\ Inflated(o, m) \in MonitorStruct
      /\ Inflated(o, m).owner = Owner(o) /\ Inflated(o, m).depth = Depth(o)
      /\ Inflated(o, m).monitor_waitq = monitor[m].monitor_waitq
      /\ Inflated(o, m).condvar_waitq = monitor[m].condvar_waitq
      BY AttachEffect DEF SchedInv, LockInv
<1>2. /\ UniqueWords(mhc, MonitorCache)
      /\ ~Serves(mhc, m) => IsClean(monitor[m])
      BY UniqueParts DEF SchedInv, LockInv
<1>3. CASE mhc[o] = Real(m)
  <2>1. \A p \in Objects : p # o => mhc[p] # Real(m)
        BY <1>2, <1>3, WordsDiffer DEF UniqueWords
  <2>2. Queues(o) = monitor[m]
        BY <1>3, RealSeen
  <2> QED
        BY <1>1, <2>1, <2>2
<1>4. CASE mhc[o].tag # "MONITOR" /\ ~Serves(mhc, m)
  <2>1. \A p \in Objects : mhc[p] # Real(m)
        BY <1>4 DEF Serves
  <2>2. /\ Queues(o).monitor_waitq = <<>> /\ Queues(o).condvar_waitq = <<>>
        BY <1>4 DEF Queues, EmptyMonitor
  <2>3. monitor[m].monitor_waitq = <<>> /\ monitor[m].condvar_waitq = <<>>
        BY <1>2, <1>4 DEF IsClean
  <2> QED
        BY <1>1, <2>1, <2>2, <2>3
<1> QED
      BY <1>1, <1>3, <1>4

(* The monitor an object has is that of no other object.                   *)
LEMMA OneObject ==
  ASSUME SchedInv, NEW o \in Objects, NEW m, mhc[o] = Real(m)
  PROVE  \A p \in Objects : p # o => mhc[p] # Real(m)
BY UniqueParts, WordsDiffer DEF SchedInv, LockInv, UniqueWords

-----------------------------------------------------------------------------
(* The steps of JavaMonitor                                                *)

Tables(o, ow, c, en, ws) ==
  /\ [p \in Objects |-> Owner(p)]' = [[p \in Objects |-> Owner(p)] EXCEPT ![o] = ow]
  /\ [p \in Objects |-> Depth(p)]' = [[p \in Objects |-> Depth(p)] EXCEPT ![o] = c]
  /\ [p \in Objects |-> Queues(p).monitor_waitq]'
       = [[p \in Objects |-> Queues(p).monitor_waitq] EXCEPT ![o] = en]
  /\ [p \in Objects |-> Queues(p).condvar_waitq]'
       = [[p \in Objects |-> Queues(p).condvar_waitq] EXCEPT ![o] = ws]

LEMMA SeenTables ==
  ASSUME NEW o \in Objects, NEW ow, NEW c, NEW en, NEW ws, Becomes(o, ow, c, en, ws),
         \A p \in Objects \ {o} : Unseen(p)
  PROVE  Tables(o, ow, c, en, ws)
<1> USE DEF Unseen, Becomes
<1>1. [p \in Objects |-> Owner(p)]' = [[p \in Objects |-> Owner(p)] EXCEPT ![o] = ow]
      OBVIOUS
<1>2. [p \in Objects |-> Depth(p)]' = [[p \in Objects |-> Depth(p)] EXCEPT ![o] = c]
      OBVIOUS
<1>3. [p \in Objects |-> Queues(p).monitor_waitq]'
        = [[p \in Objects |-> Queues(p).monitor_waitq] EXCEPT ![o] = en]
      OBVIOUS
<1>4. [p \in Objects |-> Queues(p).condvar_waitq]'
        = [[p \in Objects |-> Queues(p).condvar_waitq] EXCEPT ![o] = ws]
      OBVIOUS
<1> QED
      BY <1>1, <1>2, <1>3, <1>4 DEF Tables

(* t takes the monitor of o, or enters it once more.                       *)
LEMMA EnterSeen ==
  ASSUME SchedInv, NEW t \in Threads, NEW o \in Objects, CurrentThread = t,
         Owner(o) \in {NIL, t}, Owner(o) = NIL => Queues(o).monitor_waitq = <<>>,
         Becomes(o, t, Depth(o) + 1, Queues(o).monitor_waitq, Queues(o).condvar_waitq),
         \A p \in Objects \ {o} : Unseen(p), SavedKept
  PROVE  Java!Enter(t, o)
<1>1. ~Java!Blocked(t)
      BY NotBlocked
<1>2. [u \in Threads |-> thread[u].monitor_depth]' = [u \in Threads |-> thread[u].monitor_depth]
      BY DEF SavedKept
<1>3. /\ [p \in Objects |-> Owner(p)]' = [[p \in Objects |-> Owner(p)] EXCEPT ![o] = t]
      /\ [p \in Objects |-> Depth(p)]' = [[p \in Objects |-> Depth(p)] EXCEPT ![o] = Depth(o) + 1]
      /\ [p \in Objects |-> Queues(p).monitor_waitq]' = [p \in Objects |-> Queues(p).monitor_waitq]
      /\ [p \in Objects |-> Queues(p).condvar_waitq]' = [p \in Objects |-> Queues(p).condvar_waitq]
  <2>1. /\ [[p \in Objects |-> Queues(p).monitor_waitq] EXCEPT ![o] = Queues(o).monitor_waitq]
             = [p \in Objects |-> Queues(p).monitor_waitq]
        /\ [[p \in Objects |-> Queues(p).condvar_waitq] EXCEPT ![o] = Queues(o).condvar_waitq]
             = [p \in Objects |-> Queues(p).condvar_waitq]
        OBVIOUS
  <2>2. Tables(o, t, Depth(o) + 1, Queues(o).monitor_waitq, Queues(o).condvar_waitq)
        BY SeenTables
  <2> QED
        BY <2>1, <2>2 DEF Tables
<1> QED
      BY <1>1, <1>2, <1>3 DEF Java!Enter

Saved(thr) == [u \in Threads |-> thr[u].monitor_depth]
WaitsetIs(o, ws) ==
  [p \in Objects |-> Queues(p).condvar_waitq]'
    = [[p \in Objects |-> Queues(p).condvar_waitq] EXCEPT ![o] = ws]

(* The monitor m is that of o, and of no other object.                     *)
Alone(o, m) ==
  mhc'[o] = Real(m) /\ \A p \in Objects : p # o => mhc'[p] = mhc[p] /\ mhc[p] # Real(m)

(* The extended locks of thr are those of the objects other than o.        *)
LocksBut(o, thr) ==
  \A u \in Threads : mhc[o] = Extended(u) \/ thr[u].lockDepth = thread[u].lockDepth

(* removeMonitorWait hands the monitor over.                               *)
LEMMA HandOverSeen ==
  ASSUME SchedInv, NEW o \in Objects, NEW m \in Monitors, Alone(o, m),
         NEW thr \in [Threads -> ThreadStruct], LocksBut(o, thr),
         NEW mon \in MonitorStruct, removeMonitorWait(m, mon, thr)
  PROVE  /\ Java!HandOver(o, mon.monitor_waitq, Saved(thr))
         /\ WaitsetIs(o, mon.condvar_waitq)
<1>1. TypeOK
      BY DEF SchedInv, LockInv
<1>2. CASE mon.monitor_waitq = <<>>
  <2>1. /\ thread' = thr /\ \A k \in Monitors : k # m => monitor'[k] = monitor[k]
        /\ monitor'[m].owner = NIL /\ monitor'[m].depth = 0
        /\ monitor'[m].monitor_waitq = <<>> /\ monitor'[m].condvar_waitq = mon.condvar_waitq
        BY <1>1, <1>2, FreeEffect
  <2>2. Becomes(o, NIL, 0, <<>>, mon.condvar_waitq)
        BY <2>1, RealSeen DEF Alone
  <2>3. \A p \in Objects \ {o} : Unseen(p)
        BY <2>1, OthersUnseen DEF Alone, LocksBut
  <2>4. Tables(o, NIL, 0, <<>>, mon.condvar_waitq)
        BY <2>2, <2>3, SeenTables
  <2>5. [u \in Threads |-> thread[u].monitor_depth]' = Saved(thr)
        BY <2>1 DEF Saved
  <2> QED
        BY <1>2, <2>4, <2>5 DEF Java!HandOver, Tables, WaitsetIs
<1>3. CASE mon.monitor_waitq # <<>>
  <2> DEFINE w == Head(mon.monitor_waitq)
  <2>1. /\ w \in Threads
        /\ \A k \in Monitors : k # m => monitor'[k] = monitor[k]
        /\ monitor'[m].owner = w /\ monitor'[m].depth = thr[w].monitor_depth
        /\ monitor'[m].monitor_waitq = Tail(mon.monitor_waitq)
        /\ monitor'[m].condvar_waitq = mon.condvar_waitq
        /\ \A u \in Threads : u # w => thread'[u] = thr[u]
        /\ thread'[w].monitor_depth = 0 /\ thread'[w].lockDepth = thr[w].lockDepth
        BY <1>1, <1>3, HandOverEffect
  <2> HIDE DEF w
  <2>2. Becomes(o, w, thr[w].monitor_depth, Tail(mon.monitor_waitq), mon.condvar_waitq)
        BY <2>1, RealSeen DEF Alone
  <2>3. \A p \in Objects \ {o} : Unseen(p)
        BY <2>1, OthersUnseen DEF Alone, LocksBut
  <2>4. Tables(o, w, thr[w].monitor_depth, Tail(mon.monitor_waitq), mon.condvar_waitq)
        BY <2>2, <2>3, SeenTables
  <2>5. [u \in Threads |-> thread[u].monitor_depth]' = [Saved(thr) EXCEPT ![w] = 0]
        BY <2>1 DEF Saved
  <2>6. Saved(thr)[w] = thr[w].monitor_depth
        BY <2>1 DEF Saved
  <2> QED
        BY <1>3, <2>4, <2>5, <2>6 DEF Java!HandOver, Tables, WaitsetIs, w
<1> QED
      BY <1>2, <1>3

(* addMonitorWait: t queues for the monitor, or has it at once.            *)
LEMMA AddMonitorWaitSeen ==
  ASSUME SchedInv, NEW o \in Objects, NEW m \in Monitors, Alone(o, m),
         NEW thr \in [Threads -> ThreadStruct], LocksBut(o, thr), NEW t \in Threads,
         NEW mon \in MonitorStruct, ~Contains(mon.monitor_waitq, t), addMonitorWait(m, mon, t, thr)
  PROVE  /\ mon.owner = NIL =>
              /\ Java!HandOver(o, mon.monitor_waitq \o <<t>>, Saved(thr))
              /\ WaitsetIs(o, mon.condvar_waitq)
         /\ mon.owner # NIL =>
              /\ Tables(o, mon.owner, mon.depth, mon.monitor_waitq \o <<t>>, mon.condvar_waitq)
              /\ [u \in Threads |-> thread[u].monitor_depth]' = Saved(thr)
<1>1. TypeOK /\ mon.monitor_waitq \in Seq(Threads)
      BY DEF SchedInv, LockInv, MonitorStruct
<1>2. PICK queued \in MonitorStruct, waiting \in [Threads -> ThreadStruct] :
        QueuedFor(queued, waiting, m, mon, t, thr)
      BY <1>1, AddMonitorWaitEffect
<1>3. queued.monitor_waitq = mon.monitor_waitq \o <<t>>
      BY <1>1, <1>2 DEF QueuedFor, addThreadToQueue
<1>4. /\ queued.owner = mon.owner /\ queued.depth = mon.depth
      /\ queued.condvar_waitq = mon.condvar_waitq
      /\ \A u \in Threads : /\ waiting[u].monitor_depth = thr[u].monitor_depth
                            /\ waiting[u].lockDepth = thr[u].lockDepth
      BY <1>2 DEF QueuedFor
<1>5. Saved(waiting) = Saved(thr) /\ LocksBut(o, waiting)
      BY <1>4 DEF Saved, LocksBut
<1>6. CASE mon.owner = NIL
  <2>1. removeMonitorWait(m, queued, waiting)
        BY <1>2, <1>6 DEF QueuedFor
  <2>2. Java!HandOver(o, queued.monitor_waitq, Saved(waiting)) /\ WaitsetIs(o, queued.condvar_waitq)
        BY <1>5, <2>1, HandOverSeen
  <2> QED
        BY <1>3, <1>4, <1>5, <1>6, <2>2
<1>7. CASE mon.owner # NIL
  <2>1. /\ thread' = waiting /\ monitor'[m] = queued
        /\ \A k \in Monitors : k # m => monitor'[k] = monitor[k]
        BY <1>2, <1>7 DEF QueuedFor
  <2>2. Becomes(o, mon.owner, mon.depth, mon.monitor_waitq \o <<t>>, mon.condvar_waitq)
        BY <1>3, <1>4, <2>1, RealSeen DEF Alone
  <2>3. \A p \in Objects \ {o} : Unseen(p)
        BY <1>5, <2>1, OthersUnseen DEF Alone, LocksBut
  <2>4. Tables(o, mon.owner, mon.depth, mon.monitor_waitq \o <<t>>, mon.condvar_waitq)
        BY <2>2, <2>3, SeenTables
  <2>5. [u \in Threads |-> thread[u].monitor_depth]' = Saved(thr)
        BY <1>5, <2>1 DEF Saved
  <2> QED
        BY <1>7, <2>4, <2>5
<1> QED
      BY <1>6, <1>7

SavedNow == [u \in Threads |-> thread[u].monitor_depth]

(* The three ways to be notified: Requeue of JavaMonitor.                  *)
LEMMA RequeueSeen ==
  ASSUME SchedInv, NEW o \in Objects, NEW q, NEW ws, NEW cq,
         \/ Owner(o) = NIL /\ Java!HandOver(o, Queues(o).monitor_waitq \o ws, SavedNow)
         \/ /\ Owner(o) # NIL
            /\ Tables(o, Owner(o), Depth(o), Queues(o).monitor_waitq \o ws, cq)
            /\ SavedNow' = SavedNow
  PROVE  Java!Requeue(o, ws)
<1>1. CASE Owner(o) = NIL /\ Java!HandOver(o, Queues(o).monitor_waitq \o ws, SavedNow)
      BY <1>1 DEF Java!Requeue, Java!HandOver, SavedNow
<1>2. CASE /\ Owner(o) # NIL
           /\ Tables(o, Owner(o), Depth(o), Queues(o).monitor_waitq \o ws, cq)
           /\ SavedNow' = SavedNow
  <2>1. /\ [p \in Objects |-> Owner(p)]' = [p \in Objects |-> Owner(p)]
        /\ [p \in Objects |-> Depth(p)]' = [p \in Objects |-> Depth(p)]
        BY <1>2 DEF Tables
  <2> QED
        BY <1>2, <2>1 DEF Java!Requeue, SavedNow, Tables
<1> QED
      BY <1>1, <1>2

(* A thread leaves the wait set of o: a timeout or an interrupt.           *)
LEMMA LeaveSeen ==
  ASSUME SchedInv, NEW o \in Objects, NEW m \in Monitors, mhc[o] = Real(m), mhc' = mhc,
         NEW t \in Threads, Contains(monitor[m].condvar_waitq, t),
         NEW thr \in [Threads -> ThreadStruct], LocksBut(o, thr), Saved(thr) = SavedNow,
         addMonitorWait(m, LeftBy(m, t), t, thr)
  PROVE  Java!Leave(t, o)
<1> DEFINE mon == LeftBy(m, t)
<1>1. /\ TypeOK /\ monitor[m] \in MonitorStruct /\ monitor[m].condvar_waitq \in Seq(Threads)
      /\ IsInjective(monitor[m].condvar_waitq)
      BY DEF SchedInv, LockInv, TypeOK, MonitorStruct, Places, Ordered
<1>2. /\ mon \in MonitorStruct /\ mon.owner = monitor[m].owner /\ mon.depth = monitor[m].depth
      /\ mon.monitor_waitq = monitor[m].monitor_waitq
      /\ mon.condvar_waitq = removeFromQueue(monitor[m].condvar_waitq, t)
  <2>1. removeFromQueue(monitor[m].condvar_waitq, t) \in Seq(Threads)
        BY <1>1, RemoveFromType
  <2> QED
        BY <1>1, <2>1 DEF MonitorStruct, LeftBy
<1> HIDE DEF mon
<1>3. ~Contains(monitor[m].monitor_waitq, t)
  <2>1. Placed(t, CurrentThread, RunnableThreads, TimerQueue, thread, monitor)
        BY DEF SchedInv, Places
  <2> QED
        BY <2>1, StatesDiffer DEF Placed
<1>4. Alone(o, m)
      BY OneObject DEF Alone
<1>5. Owner(o) = monitor[m].owner /\ Depth(o) = monitor[m].depth /\ Queues(o) = monitor[m]
      BY RealSeen
<1>6. addMonitorWait(m, mon, t, thr) /\ ~Contains(mon.monitor_waitq, t)
      BY <1>2, <1>3 DEF mon
<1>7. /\ mon.owner = NIL => /\ Java!HandOver(o, mon.monitor_waitq \o <<t>>, Saved(thr))
                            /\ WaitsetIs(o, mon.condvar_waitq)
      /\ mon.owner # NIL =>
           /\ Tables(o, mon.owner, mon.depth, mon.monitor_waitq \o <<t>>, mon.condvar_waitq)
           /\ [u \in Threads |-> thread[u].monitor_depth]' = Saved(thr)
      BY <1>2, <1>4, <1>6, AddMonitorWaitSeen
<1>8. WaitsetIs(o, mon.condvar_waitq)
      BY <1>7 DEF Tables, WaitsetIs
<1>9. \/ Owner(o) = NIL /\ Java!HandOver(o, Queues(o).monitor_waitq \o <<t>>, SavedNow)
      \/ /\ Owner(o) # NIL
         /\ Tables(o, Owner(o), Depth(o), Queues(o).monitor_waitq \o <<t>>, mon.condvar_waitq)
         /\ SavedNow' = SavedNow
      BY <1>2, <1>5, <1>7 DEF SavedNow, Java!HandOver
<1>10. Java!Requeue(o, <<t>>)
      BY <1>9, RequeueSeen
<1>11. /\ Java!RemoveFirst(Queues(o).condvar_waitq, t) = mon.condvar_waitq
       /\ Java!Contains(Queues(o).condvar_waitq, t)
  <2>1. RemoveFirst(Queues(o).condvar_waitq, t) = mon.condvar_waitq
        BY <1>1, <1>2, <1>5, RemoveIsRemoveFirst
  <2> QED
        BY <1>5, <2>1 DEF Java!RemoveFirst, RemoveFirst, Java!Contains, Contains,
             Java!SelectInSeq, SelectInSeq, Java!RemoveAt, RemoveAt, Java!Min, Min
<1> QED
      BY <1>8, <1>10, <1>11 DEF Java!Leave, WaitsetIs

(* notify, or notifyAll, or the end of a thread others join.               *)
LEMMA NotifySeen ==
  ASSUME SchedInv, NEW o \in Objects, NEW m \in Monitors, mhc[o] = Real(m), mhc' = mhc,
         NEW thr \in [Threads -> ThreadStruct], LocksBut(o, thr), Saved(thr) = SavedNow,
         NEW n \in 1..Len(monitor[m].condvar_waitq), removeCondvarWait(m, n, thr),
         NEW q, q = monitor[m].condvar_waitq
  PROVE  Java!Requeue(o, SubSeq(q, 1, n)) /\ WaitsetIs(o, SubSeq(q, n + 1, Len(q)))
<1>1. /\ TypeOK /\ q \in Seq(Threads)
      BY DEF SchedInv, LockInv, TypeOK, MonitorStruct
<1>2. PICK left \in MonitorStruct, waiting \in [Threads -> ThreadStruct], woken \in Seq(Threads) :
        MovedFor(left, waiting, woken, n, m, thr)
  <2>1. n \in 0..Len(monitor[m].condvar_waitq)
        OBVIOUS
  <2> QED
        BY <1>1, <2>1, RemoveCondvarWaitEffect
<1>3. Alone(o, m)
      BY OneObject DEF Alone
<1>4. Owner(o) = monitor[m].owner /\ Depth(o) = monitor[m].depth /\ Queues(o) = monitor[m]
      BY RealSeen
<1>5. /\ woken = SubSeq(q, 1, n) /\ left.owner = Owner(o) /\ left.depth = Depth(o)
      /\ left.condvar_waitq = SubSeq(q, n + 1, Len(q))
      /\ left.monitor_waitq = Queues(o).monitor_waitq \o woken
      /\ \A u \in Threads : /\ waiting[u].monitor_depth = thr[u].monitor_depth
                            /\ waiting[u].lockDepth = thr[u].lockDepth
      BY <1>2, <1>4 DEF MovedFor
<1>6. Saved(waiting) = SavedNow /\ LocksBut(o, waiting)
      BY <1>5 DEF Saved, LocksBut
<1>7. CASE Owner(o) = NIL
  <2>1. removeMonitorWait(m, left, waiting)
        BY <1>2, <1>4, <1>7 DEF MovedFor
  <2>2. Java!HandOver(o, left.monitor_waitq, Saved(waiting)) /\ WaitsetIs(o, left.condvar_waitq)
        BY <1>3, <1>6, <2>1, HandOverSeen
  <2>3. Java!HandOver(o, Queues(o).monitor_waitq \o woken, SavedNow)
        BY <1>5, <1>6, <2>2 DEF Java!HandOver
  <2>4. Java!Requeue(o, woken)
        BY <1>7, <2>3, RequeueSeen
  <2> QED
        BY <1>5, <2>2, <2>4
<1>8. CASE Owner(o) # NIL
  <2>1. /\ thread' = waiting /\ monitor'[m] = left
        /\ \A k \in Monitors : k # m => monitor'[k] = monitor[k]
        BY <1>2, <1>4, <1>8 DEF MovedFor
  <2>2. Becomes(o, Owner(o), Depth(o), Queues(o).monitor_waitq \o woken, left.condvar_waitq)
        BY <1>5, <2>1, RealSeen DEF Alone
  <2>3. \A p \in Objects \ {o} : Unseen(p)
        BY <1>3, <1>6, <2>1, OthersUnseen DEF Alone, LocksBut
  <2>4. Tables(o, Owner(o), Depth(o), Queues(o).monitor_waitq \o woken, left.condvar_waitq)
        BY <2>2, <2>3, SeenTables
  <2>5. SavedNow' = SavedNow
        BY <1>6, <2>1 DEF Saved, SavedNow
  <2>6. Java!Requeue(o, woken)
        BY <1>8, <2>4, <2>5, RequeueSeen
  <2> QED
        BY <1>5, <2>4, <2>6 DEF Tables, WaitsetIs
<1> QED
      BY <1>7, <1>8

-----------------------------------------------------------------------------
(* Each action is a step of JavaMonitor, or none                           *)

(* What a word that is not a real monitor shows.                           *)
LEMMA WordSeen ==
  ASSUME NEW o \in Objects, NEW t, NEW h
  PROVE  /\ mhc[o] = Unlocked(h) => Owner(o) = NIL /\ Depth(o) = 0
         /\ mhc[o] = Simple(t) => Owner(o) = t /\ Depth(o) = 1
         /\ mhc[o] = Extended(t) => Owner(o) = t /\ Depth(o) = thread[t].lockDepth
         /\ mhc[o] \in {Unlocked(h), Simple(t), Extended(t)} =>
              Queues(o).monitor_waitq = <<>> /\ Queues(o).condvar_waitq = <<>>
         /\ mhc'[o] = Unlocked(h) => Becomes(o, NIL, 0, <<>>, <<>>)
         /\ mhc'[o] = Simple(t) => Becomes(o, t, 1, <<>>, <<>>)
         /\ mhc'[o] = Extended(t) => Becomes(o, t, thread'[t].lockDepth, <<>>, <<>>)
BY DEF Owner, Depth, Queues, Becomes, EmptyMonitor, Unlocked, Simple, Extended

(* A step that changes the word of o, and at most the extended lock of t.  *)
LEMMA FastSeen ==
  ASSUME SchedInv, NEW o \in Objects, \A p \in Objects : p # o => mhc'[p] = mhc[p],
         monitor' = monitor, SamePlace(thread, thread'),
         NEW t \in Threads, \A u \in Threads : u # t => thread'[u] = thread[u],
         \/ mhc[o] = Extended(t)
         \/ thread[t].lockDepth = 0
         \/ thread'[t].lockDepth = thread[t].lockDepth
  PROVE  SavedKept /\ \A p \in Objects \ {o} : Unseen(p)
<1>1. SavedKept
      BY DEF SamePlace, SavedKept
<1>2. ASSUME NEW p \in Objects, p # o PROVE Unseen(p)
  <2>1. ASSUME NEW u \in Threads, mhc[p] = Extended(u)
        PROVE  thread'[u].lockDepth = thread[u].lockDepth
    <3>1. mhc[p].tag = "EXTENDED_LOCK" /\ thread[u].lockDepth # 0
          BY <2>1, WordsDiffer, FreeLock
    <3>2. mhc[o] # Extended(u)
          BY <1>2, <2>1, <3>1 DEF SchedInv, LockInv, ExtendedLockUnique
    <3> QED
          BY <3>1, <3>2
  <2> QED
        BY <1>2, <2>1, OtherSeen
<1> QED
      BY <1>1, <1>2

LEMMA MonitorEnterFastSeen ==
  ASSUME SchedInv, NEW t \in Threads, NEW o \in Objects, MonitorEnterFast(t, o)
  PROVE  Java!Enter(t, o)
<1>1. /\ mhc \in [Objects -> MHC] /\ mhc[o] \in MHC /\ thread \in [Threads -> ThreadStruct]
      /\ CurrentThread = t /\ monitor' = monitor
      /\ thread[t].lockDepth \in Nat
      BY DEF SchedInv, LockInv, TypeOK, MonitorEnterFast, Running, ThreadStruct
<1>2. SUFFICES /\ Owner(o) \in {NIL, t}
               /\ Queues(o).monitor_waitq = <<>> /\ Queues(o).condvar_waitq = <<>>
               /\ Becomes(o, t, Depth(o) + 1, <<>>, <<>>)
               /\ \A p \in Objects : p # o => mhc'[p] = mhc[p]
               /\ SamePlace(thread, thread')
               /\ \A u \in Threads : u # t => thread'[u] = thread[u]
               /\ \/ mhc[o] = Extended(t)
                  \/ thread[t].lockDepth = 0
                  \/ thread'[t].lockDepth = thread[t].lockDepth
  <2>1. SavedKept /\ \A p \in Objects \ {o} : Unseen(p)
        BY <1>1, <1>2, FastSeen
  <2>2. Becomes(o, t, Depth(o) + 1, Queues(o).monitor_waitq, Queues(o).condvar_waitq)
        BY <1>2
  <2> QED
        BY <1>1, <1>2, <2>1, <2>2, EnterSeen
<1>3. CASE mhc[o] = Unlocked(0) /\ mhc' = [mhc EXCEPT ![o] = Simple(t)] /\ UNCHANGED thread
  <2>1. mhc'[o] = Simple(t) /\ \A p \in Objects : p # o => mhc'[p] = mhc[p]
        BY <1>1, <1>3
  <2>2. /\ Owner(o) = NIL /\ Depth(o) = 0 /\ Becomes(o, t, 1, <<>>, <<>>)
        /\ Queues(o).monitor_waitq = <<>> /\ Queues(o).condvar_waitq = <<>>
        BY <1>3, <2>1, WordSeen
  <2> QED
        BY <1>3, <2>1, <2>2, SamePlaceSelf DEF Becomes
<1>4. CASE mhc[o].tag = "UNLOCKED" /\ allocateFastLock(t, o, 1, StoredHash(o))
  <2>1. /\ mhc' = [mhc EXCEPT ![o] = Extended(t)] /\ thread[t].lockDepth = 0
        /\ thread' = LockSet(thread, t, 1, StoredHash(o))
        BY <1>4 DEF allocateFastLock, IsExtendedLockFree, LockSet
  <2>2. mhc'[o] = Extended(t) /\ \A p \in Objects : p # o => mhc'[p] = mhc[p]
        BY <1>1, <2>1
  <2>3. /\ SamePlace(thread, thread') /\ \A u \in Threads : u # t => thread'[u] = thread[u]
        /\ thread'[t].lockDepth = 1
        BY <1>1, <2>1, LockFields
  <2>4. mhc[o] = Unlocked(mhc[o].hashCode)
        BY <1>1, <1>4, WordCases
  <2> QED
        BY <2>1, <2>2, <2>3, <2>4, WordSeen
<1>5. CASE mhc[o] = Simple(t) /\ allocateFastLock(t, o, 2, 0)
  <2>1. /\ mhc' = [mhc EXCEPT ![o] = Extended(t)] /\ thread[t].lockDepth = 0
        /\ thread' = LockSet(thread, t, 2, 0)
        BY <1>5 DEF allocateFastLock, IsExtendedLockFree, LockSet
  <2>2. mhc'[o] = Extended(t) /\ \A p \in Objects : p # o => mhc'[p] = mhc[p]
        BY <1>1, <2>1
  <2>3. /\ SamePlace(thread, thread') /\ \A u \in Threads : u # t => thread'[u] = thread[u]
        /\ thread'[t].lockDepth = 2
        BY <1>1, <2>1, LockFields
  <2> QED
        BY <1>5, <2>1, <2>2, <2>3, WordSeen
<1>6. CASE mhc[o] = Extended(t) /\ thread' = [thread EXCEPT ![t].lockDepth = @ + 1] /\ UNCHANGED mhc
  <2>1. thread' = DepthSet(thread, t, thread[t].lockDepth + 1)
        BY <1>1, <1>6 DEF DepthSet
  <2>2. /\ SamePlace(thread, thread') /\ \A u \in Threads : u # t => thread'[u] = thread[u]
        /\ thread'[t].lockDepth = thread[t].lockDepth + 1
        BY <1>1, <2>1, LockDepthField
  <2>3. mhc'[o] = Extended(t)
        BY <1>6
  <2> QED
        BY <1>6, <2>2, <2>3, WordSeen
<1> QED
      BY <1>3, <1>4, <1>5, <1>6 DEF MonitorEnterFast

(* The monitor of o is left once: to 1 or more, or for the next thread.    *)
LEMMA ExitSeen ==
  ASSUME SchedInv, NEW t \in Threads, NEW o \in Objects, CurrentThread = t, Owner(o) = t,
         \/ /\ Depth(o) > 1
            /\ Tables(o, t, Depth(o) - 1, Queues(o).monitor_waitq, Queues(o).condvar_waitq)
            /\ SavedNow' = SavedNow
         \/ /\ Depth(o) = 1
            /\ Java!HandOver(o, Queues(o).monitor_waitq, SavedNow)
            /\ WaitsetIs(o, Queues(o).condvar_waitq)
  PROVE  Java!Exit(t, o)
<1>1. ~Java!Blocked(t)
      BY NotBlocked
<1>2. /\ [[p \in Objects |-> Queues(p).monitor_waitq] EXCEPT ![o] = Queues(o).monitor_waitq]
           = [p \in Objects |-> Queues(p).monitor_waitq]
      /\ [[p \in Objects |-> Queues(p).condvar_waitq] EXCEPT ![o] = Queues(o).condvar_waitq]
           = [p \in Objects |-> Queues(p).condvar_waitq]
      /\ [[p \in Objects |-> Owner(p)] EXCEPT ![o] = Owner(o)] = [p \in Objects |-> Owner(p)]
      OBVIOUS
<1>3. CASE /\ Depth(o) > 1
           /\ Tables(o, t, Depth(o) - 1, Queues(o).monitor_waitq, Queues(o).condvar_waitq)
           /\ SavedNow' = SavedNow
      BY <1>1, <1>2, <1>3 DEF Java!Exit, Tables, SavedNow
<1>4. CASE /\ Depth(o) = 1
           /\ Java!HandOver(o, Queues(o).monitor_waitq, SavedNow)
           /\ WaitsetIs(o, Queues(o).condvar_waitq)
      BY <1>1, <1>2, <1>4 DEF Java!Exit, Java!HandOver, WaitsetIs, SavedNow
<1> QED
      BY <1>3, <1>4

LEMMA MonitorExitFastSeen ==
  ASSUME SchedInv, NEW t \in Threads, NEW o \in Objects, MonitorExitFast(t, o)
  PROVE  Java!Exit(t, o)
<1>1. /\ mhc \in [Objects -> MHC] /\ mhc[o] \in MHC /\ thread \in [Threads -> ThreadStruct]
      /\ CurrentThread = t /\ monitor' = monitor
      /\ thread[t].lockDepth \in Nat
      BY DEF SchedInv, LockInv, TypeOK, MonitorExitFast, Running, ThreadStruct
<1>2. SUFFICES /\ Owner(o) = t /\ Depth(o) \in Nat /\ Depth(o) >= 1
               /\ Queues(o).monitor_waitq = <<>> /\ Queues(o).condvar_waitq = <<>>
               /\ Depth(o) = 1 => Becomes(o, NIL, 0, <<>>, <<>>)
               /\ Depth(o) # 1 => Becomes(o, t, Depth(o) - 1, <<>>, <<>>)
               /\ \A p \in Objects : p # o => mhc'[p] = mhc[p]
               /\ SamePlace(thread, thread')
               /\ \A u \in Threads : u # t => thread'[u] = thread[u]
               /\ \/ mhc[o] = Extended(t)
                  \/ thread'[t].lockDepth = thread[t].lockDepth
  <2>1. SavedKept /\ \A p \in Objects \ {o} : Unseen(p)
        BY <1>1, <1>2, FastSeen
  <2>2. SavedNow' = SavedNow
        BY <2>1 DEF SavedKept, SavedNow
  <2>3. CASE Depth(o) = 1
    <3>1. Becomes(o, NIL, 0, <<>>, <<>>)
          BY <1>2, <2>3
    <3>2. Tables(o, NIL, 0, <<>>, <<>>)
          BY <2>1, <3>1, SeenTables
    <3>3. Java!HandOver(o, Queues(o).monitor_waitq, SavedNow) /\ WaitsetIs(o, Queues(o).condvar_waitq)
          BY <1>2, <2>2, <3>2 DEF Java!HandOver, Tables, WaitsetIs, SavedNow
    <3> QED
          BY <1>1, <1>2, <2>3, <3>3, ExitSeen
  <2>4. CASE Depth(o) # 1
    <3>1. Depth(o) > 1
          BY <1>2, <2>4
    <3>2. Becomes(o, t, Depth(o) - 1, Queues(o).monitor_waitq, Queues(o).condvar_waitq)
          BY <1>2, <2>4 DEF Becomes
    <3>3. Tables(o, t, Depth(o) - 1, Queues(o).monitor_waitq, Queues(o).condvar_waitq)
          BY <2>1, <3>2, SeenTables
    <3> QED
          BY <1>1, <1>2, <2>2, <3>1, <3>3, ExitSeen
  <2> QED
        BY <2>3, <2>4
<1>3. CASE mhc[o] = Simple(t)
  <2>1. mhc' = [mhc EXCEPT ![o] = Unlocked(0)] /\ UNCHANGED thread
        BY <1>3 DEF MonitorExitFast
  <2>2. mhc'[o] = Unlocked(0) /\ \A p \in Objects : p # o => mhc'[p] = mhc[p]
        BY <1>1, <2>1
  <2>3. /\ Owner(o) = t /\ Depth(o) = 1 /\ Becomes(o, NIL, 0, <<>>, <<>>)
        /\ Queues(o).monitor_waitq = <<>> /\ Queues(o).condvar_waitq = <<>>
        BY <1>3, <2>2, WordSeen
  <2> QED
        BY <1>2, <2>1, <2>2, <2>3, SamePlaceSelf
<1>4. CASE mhc[o] # Simple(t)
  <2> DEFINE d == DepthAfterExit(t)
             h == thread[t].lockHash
             e == IF d = 1 /\ h = 0 THEN 0 ELSE d
  <2>1. mhc[o] = Extended(t) /\ mhc[o].tag = "EXTENDED_LOCK"
        BY <1>4, WordsDiffer DEF MonitorExitFast
  <2>2. /\ thread' = DepthSet(thread, t, e)
        /\ mhc' = IF d = 0 THEN [mhc EXCEPT ![o] = Unlocked(h)]
                  ELSE IF d = 1 /\ h = 0 THEN [mhc EXCEPT ![o] = Simple(t)] ELSE mhc
        BY <1>4 DEF MonitorExitFast, DepthSet
  <2>3. thread[t].lockDepth # 0
        BY <2>1, FreeLock
  <2>4. /\ Owner(o) = t /\ Depth(o) = thread[t].lockDepth
        /\ Queues(o).monitor_waitq = <<>> /\ Queues(o).condvar_waitq = <<>>
        BY <2>1, WordSeen
  <2>5. d = Depth(o) - 1 /\ Depth(o) >= 1 /\ Depth(o) \in Nat /\ d \in Nat
        BY <1>1, <2>3, <2>4 DEF DepthAfterExit
  <2> HIDE DEF d, e, h
  <2>6. /\ SamePlace(thread, thread') /\ \A u \in Threads : u # t => thread'[u] = thread[u]
        /\ thread'[t].lockDepth = e
    <3>1. e \in Int
          BY <2>5 DEF e
    <3> QED
          BY <1>1, <2>2, <3>1, LockDepthField
  <2>7. /\ d = 0 => Becomes(o, NIL, 0, <<>>, <<>>)
        /\ d # 0 => Becomes(o, t, d, <<>>, <<>>)
        /\ \A p \in Objects : p # o => mhc'[p] = mhc[p]
    <3>1. CASE d = 0
      <4>1. mhc' = [mhc EXCEPT ![o] = Unlocked(h)]
            BY <2>2, <3>1
      <4>2. mhc'[o] = Unlocked(h) /\ \A p \in Objects : p # o => mhc'[p] = mhc[p]
            BY <1>1, <4>1
      <4>3. Becomes(o, NIL, 0, <<>>, <<>>)
            BY <4>2, WordSeen
      <4> QED
            BY <3>1, <4>2, <4>3 DEF Becomes
    <3>2. CASE d # 0 /\ d = 1 /\ h = 0
      <4>1. mhc' = [mhc EXCEPT ![o] = Simple(t)]
            BY <2>2, <3>2
      <4>2. mhc'[o] = Simple(t) /\ \A p \in Objects : p # o => mhc'[p] = mhc[p]
            BY <1>1, <4>1
      <4>3. Becomes(o, t, 1, <<>>, <<>>)
            BY <4>2, WordSeen
      <4> QED
            BY <3>2, <4>2, <4>3 DEF Becomes
    <3>3. CASE d # 0 /\ ~(d = 1 /\ h = 0)
      <4>1. mhc' = mhc /\ e = d
            BY <2>2, <3>3 DEF e
      <4>2. Becomes(o, t, thread'[t].lockDepth, <<>>, <<>>)
            BY <2>1, <4>1, WordSeen
      <4> QED
            BY <2>6, <3>3, <4>1, <4>2 DEF Becomes
    <3> QED
          BY <3>1, <3>2, <3>3
  <2>8. /\ Depth(o) = 1 => Becomes(o, NIL, 0, <<>>, <<>>)
        /\ Depth(o) # 1 => Becomes(o, t, Depth(o) - 1, <<>>, <<>>)
    <3>1. d = 0 <=> Depth(o) = 1
          BY <2>5
    <3> QED
          BY <2>5, <2>7, <3>1 DEF Becomes
  <2> QED
        BY <1>2, <2>1, <2>4, <2>5, <2>6, <2>7, <2>8
<1> QED
      BY <1>3, <1>4

(* What inflating the lock of o leaves of the extended locks.              *)
LEMMA InflatedLocks ==
  ASSUME SchedInv, NEW o \in Objects
  PROVE  /\ AfterUpgrade(o) \in [Threads -> ThreadStruct]
         /\ SamePlace(thread, AfterUpgrade(o)) /\ LocksBut(o, AfterUpgrade(o))
<1>1. TypeOK
      BY DEF SchedInv, LockInv
<1> QED
      BY <1>1, AfterUpgradeEffect DEF LocksBut

LEMMA MonitorEnterSlowSeen ==
  ASSUME SchedInv, NEW t \in Threads, NEW o \in Objects, MonitorEnterSlow(t, o)
  PROVE  Java!Enter(t, o)
<1> DEFINE mon1(m) == [Inflated(o, m) EXCEPT !.owner = t,
                                 !.depth = IF Owner(o) = NIL THEN 1 ELSE @ + 1]
           thr == AfterUpgrade(o)
           thr1 == Suspended(thr, t)
           thr2 == [thr1 EXCEPT ![t].monitor_depth = 1]
<1>1. PICK m \in Monitors :
        /\ Attach(o, m)
        /\ \/ /\ Owner(o) \in {NIL, t} /\ monitor' = [monitor EXCEPT ![m] = mon1(m)]
              /\ thread' = thr
           \/ Owner(o) \notin {NIL, t} /\ addMonitorWait(m, Inflated(o, m), t, thr2)
      BY Zenon DEF MonitorEnterSlow, GiveUpProcessor
<1>2. TypeOK /\ CurrentThread = t
      BY DEF SchedInv, LockInv, MonitorEnterSlow, Running
<1>3. /\ Alone(o, m) /\ Inflated(o, m) \in MonitorStruct
      /\ Inflated(o, m).owner = Owner(o) /\ Inflated(o, m).depth = Depth(o)
      /\ Inflated(o, m).monitor_waitq = Queues(o).monitor_waitq
      /\ Inflated(o, m).condvar_waitq = Queues(o).condvar_waitq
      BY <1>1, AttachSeen DEF Alone
<1>4. Owner(o) = NIL => Queues(o).monitor_waitq = <<>> /\ Depth(o) = 0
      BY <1>1, <1>3, InflatedSound DEF Sound
<1>5. thr \in [Threads -> ThreadStruct] /\ SamePlace(thread, thr) /\ LocksBut(o, thr)
      BY InflatedLocks
<1> HIDE DEF thr
<1>6. CASE /\ Owner(o) \in {NIL, t} /\ monitor' = [monitor EXCEPT ![m] = mon1(m)]
           /\ thread' = thr
  <2>1. monitor'[m] = mon1(m) /\ \A k \in Monitors : k # m => monitor'[k] = monitor[k]
        BY <1>2, <1>6 DEF TypeOK
  <2>2. /\ mon1(m).owner = t /\ mon1(m).depth = Depth(o) + 1
        /\ mon1(m).monitor_waitq = Queues(o).monitor_waitq
        /\ mon1(m).condvar_waitq = Queues(o).condvar_waitq
        BY <1>3, <1>4 DEF MonitorStruct
  <2> HIDE DEF mon1
  <2>3. Becomes(o, t, Depth(o) + 1, Queues(o).monitor_waitq, Queues(o).condvar_waitq)
        BY <1>3, <2>1, <2>2, RealSeen DEF Alone, Becomes
  <2>4. \A p \in Objects \ {o} : Unseen(p)
        BY <1>3, <1>5, <1>6, <2>1, OthersUnseen DEF Alone, LocksBut
  <2>5. SavedKept
        BY <1>5, <1>6 DEF SavedKept, SamePlace
  <2> QED
        BY <1>2, <1>4, <1>6, <2>3, <2>4, <2>5, EnterSeen
<1>7. CASE Owner(o) \notin {NIL, t} /\ addMonitorWait(m, Inflated(o, m), t, thr2)
  <2>1. /\ thr1 \in [Threads -> ThreadStruct]
        /\ \A u \in Threads : u # t => thr1[u] = thr[u]
        /\ thr1[t].lockDepth = thr[t].lockDepth
        BY <1>5, SuspendedEffect
  <2> HIDE DEF thr1
  <2>2. thr1[t] \in ThreadStruct /\ thr2[t] = [thr1[t] EXCEPT !.monitor_depth = 1]
        BY <2>1
  <2>3. /\ thr2[t] \in ThreadStruct /\ thr2[t].monitor_depth = 1
        /\ thr2[t].lockDepth = thr1[t].lockDepth
        BY <2>2 DEF ThreadStruct
  <2>4. thr2 \in [Threads -> ThreadStruct] /\ \A u \in Threads : u # t => thr2[u] = thr1[u]
        BY <2>1, <2>3
  <2>5. addMonitorWait(m, Inflated(o, m), t, thr2)
        BY <1>7
  <2> HIDE DEF thr2
  <2>6. LocksBut(o, thr2)
        BY <1>5, <2>1, <2>3, <2>4 DEF LocksBut
  <2>7. Saved(thr2) = [SavedNow EXCEPT ![t] = 1]
    <3>1. \A u \in Threads : thr2[u].monitor_depth = IF u = t THEN 1 ELSE thread[u].monitor_depth
          BY <1>5, <2>1, <2>3, <2>4 DEF SamePlace
    <3>2. [SavedNow EXCEPT ![t] = 1]
            = [u \in Threads |-> IF u = t THEN 1 ELSE thread[u].monitor_depth]
          BY DEF SavedNow
    <3> QED
          BY <3>1, <3>2 DEF Saved
  <2>8. ~Java!Blocked(t)
        BY <1>2, NotBlocked
  <2>9. ~Contains(Inflated(o, m).monitor_waitq, t)
        BY <1>2, <1>3, RunningAbsent
  <2> DEFINE mon == Inflated(o, m)
             q == Queues(o).monitor_waitq \o <<t>>
  <2>10. mon \in MonitorStruct /\ mon.owner = Owner(o) /\ mon.owner # NIL /\ mon.depth = Depth(o)
         /\ mon.monitor_waitq = Queues(o).monitor_waitq
         /\ mon.condvar_waitq = Queues(o).condvar_waitq
         /\ ~Contains(mon.monitor_waitq, t) /\ addMonitorWait(m, mon, t, thr2)
        BY <1>3, <1>7, <2>5, <2>9
  <2> HIDE DEF mon
  <2>11. /\ Tables(o, mon.owner, mon.depth, mon.monitor_waitq \o <<t>>, mon.condvar_waitq)
         /\ [u \in Threads |-> thread[u].monitor_depth]' = Saved(thr2)
        BY <1>3, <2>4, <2>6, <2>10, AddMonitorWaitSeen
  <2>12. /\ [p \in Objects |-> Owner(p)]' = [p \in Objects |-> Owner(p)]
         /\ [p \in Objects |-> Depth(p)]' = [p \in Objects |-> Depth(p)]
         /\ [p \in Objects |-> Queues(p).condvar_waitq]' = [p \in Objects |-> Queues(p).condvar_waitq]
         /\ [p \in Objects |-> Queues(p).monitor_waitq]'
              = [[p \in Objects |-> Queues(p).monitor_waitq] EXCEPT ![o] = q]
    <3>1. /\ [[p \in Objects |-> Owner(p)] EXCEPT ![o] = Owner(o)] = [p \in Objects |-> Owner(p)]
          /\ [[p \in Objects |-> Depth(p)] EXCEPT ![o] = Depth(o)] = [p \in Objects |-> Depth(p)]
          /\ [[p \in Objects |-> Queues(p).condvar_waitq] EXCEPT ![o] = Queues(o).condvar_waitq]
               = [p \in Objects |-> Queues(p).condvar_waitq]
          OBVIOUS
    <3> QED
          BY <2>10, <2>11, <3>1 DEF Tables
  <2>13. Append(Queues(o).monitor_waitq, t) = q
    <3>1. Queues(o).monitor_waitq \in Seq(Threads)
          BY <2>10 DEF MonitorStruct
    <3> QED
          BY <3>1
  <2> HIDE DEF q
  <2> QED
        BY <1>7, <2>7, <2>8, <2>11, <2>12, <2>13 DEF Java!Enter, SavedNow
<1> QED
      BY <1>1, <1>6, <1>7

LEMMA MonitorExitSlowSeen ==
  ASSUME MaxDepth <= ShortMax, SchedInv,
         NEW t \in Threads, NEW o \in Objects, MonitorExitSlow(t, o)
  PROVE  Java!Exit(t, o)
<1> DEFINE m == mhc[o].monitor
           mon == [monitor[m] EXCEPT !.depth = @ - 1]
<1>1. /\ TypeOK /\ CurrentThread = t /\ mhc[o].tag = "MONITOR" /\ Owner(o) = t
      /\ mhc[o] \in MHC /\ mhc \in [Objects -> MHC] /\ thread \in [Threads -> ThreadStruct]
      BY DEF SchedInv, LockInv, TypeOK, MonitorExitSlow, Running
<1>2. m \in Monitors /\ mhc[o] = Real(m)
      BY <1>1, WordCases
<1>3. \/ /\ mon.depth # 0
         /\ monitor' = [monitor EXCEPT ![m] = mon]
         /\ thread' = thread /\ mhc' = mhc
      \/ /\ mon.depth = 0
         /\ removeMonitorWait(m, mon, thread)
         /\ mhc' = mhc
      \/ /\ mon.depth = 0 /\ IsDead(mon)
         /\ mhc' = [mhc EXCEPT ![o] = Unlocked(mon.hashCode)]
         /\ monitor' = [monitor EXCEPT ![m] = [mon EXCEPT !.owner = NIL]]
         /\ thread' = thread
      BY Zenon DEF MonitorExitSlow
<1> HIDE DEF m
<1>4. /\ Owner(o) = monitor[m].owner /\ Depth(o) = monitor[m].depth /\ Queues(o) = monitor[m]
      /\ \A p \in Objects : p # o => mhc[p] # Real(m)
      BY <1>2, RealSeen, OneObject
<1>5. monitor[m] \in MonitorStruct
      BY <1>1, <1>2 DEF TypeOK
<1>6. /\ mon.owner = t /\ mon.depth = Depth(o) - 1
      /\ mon.monitor_waitq = Queues(o).monitor_waitq
      /\ mon.condvar_waitq = Queues(o).condvar_waitq
      /\ mon \in MonitorStruct
      BY <1>1, <1>4, <1>5 DEF MonitorStruct
<1> HIDE DEF mon
<1>7. Depth(o) \in Nat /\ Depth(o) >= 1
  <2>1. DepthFits(monitor[m].depth) /\ MaxDepth \in Nat
        BY <1>1, <1>2, <1>4, CallsDiffer, LockDepths DEF SchedInv, Sound
  <2> QED
        BY <1>4, <2>1 DEF DepthFits
<1>8. LocksBut(o, thread)
      BY DEF LocksBut
<1>9. CASE /\ mon.depth # 0
           /\ monitor' = [monitor EXCEPT ![m] = mon]
           /\ thread' = thread /\ mhc' = mhc
  <2>1. monitor'[m] = mon /\ \A k \in Monitors : k # m => monitor'[k] = monitor[k]
        BY <1>1, <1>2, <1>9 DEF TypeOK
  <2>2. Becomes(o, t, Depth(o) - 1, Queues(o).monitor_waitq, Queues(o).condvar_waitq)
        BY <1>2, <1>6, <1>9, <2>1, RealSeen DEF Becomes
  <2>3. \A p \in Objects \ {o} : Unseen(p)
        BY <1>2, <1>4, <1>9, <2>1, OthersUnseen
  <2>4. Tables(o, t, Depth(o) - 1, Queues(o).monitor_waitq, Queues(o).condvar_waitq)
        BY <2>2, <2>3, SeenTables
  <2>5. SavedNow' = SavedNow
        BY <1>9 DEF SavedNow
  <2>6. Depth(o) > 1
        BY <1>6, <1>7, <1>9
  <2> QED
        BY <1>1, <2>4, <2>5, <2>6, ExitSeen
<1>10. CASE /\ mon.depth = 0
            /\ removeMonitorWait(m, mon, thread)
            /\ mhc' = mhc
  <2>1. Alone(o, m)
        BY <1>2, <1>4, <1>10 DEF Alone
  <2>2. Java!HandOver(o, mon.monitor_waitq, Saved(thread)) /\ WaitsetIs(o, mon.condvar_waitq)
    <3>1. PICK k \in Monitors, mo \in MonitorStruct, thr \in [Threads -> ThreadStruct] :
            k = m /\ mo = mon /\ thr = thread
          BY <1>1, <1>2, <1>6
    <3>2. Alone(o, k) /\ LocksBut(o, thr)
          BY <1>8, <2>1, <3>1
    <3>3. removeMonitorWait(k, mo, thr)
          BY <1>10, <3>1
    <3>4. Java!HandOver(o, mo.monitor_waitq, Saved(thr)) /\ WaitsetIs(o, mo.condvar_waitq)
          BY <3>2, <3>3, HandOverSeen
    <3> QED
          BY <3>1, <3>4 DEF Java!HandOver, WaitsetIs
  <2>3. /\ Java!HandOver(o, Queues(o).monitor_waitq, SavedNow)
        /\ WaitsetIs(o, Queues(o).condvar_waitq)
        BY <1>6, <2>2 DEF Java!HandOver, WaitsetIs, Saved, SavedNow
  <2>4. Depth(o) = 1
        BY <1>6, <1>7, <1>10
  <2> QED
        BY <1>1, <2>3, <2>4, ExitSeen
<1>11. CASE /\ mon.depth = 0 /\ IsDead(mon)
            /\ mhc' = [mhc EXCEPT ![o] = Unlocked(mon.hashCode)]
            /\ monitor' = [monitor EXCEPT ![m] = [mon EXCEPT !.owner = NIL]]
            /\ thread' = thread
  <2>1. mhc'[o] = Unlocked(mon.hashCode) /\ \A p \in Objects : p # o => mhc'[p] = mhc[p]
        BY <1>1, <1>11
  <2>2. \A k \in Monitors : k # m => monitor'[k] = monitor[k]
        BY <1>1, <1>2, <1>11 DEF TypeOK
  <2>3. Becomes(o, NIL, 0, <<>>, <<>>)
        BY <2>1, WordSeen
  <2>4. \A p \in Objects \ {o} : Unseen(p)
        BY <1>2, <1>4, <1>11, <2>1, <2>2, OthersUnseen
  <2>5. Tables(o, NIL, 0, <<>>, <<>>)
        BY <2>3, <2>4, SeenTables
  <2>6. Queues(o).monitor_waitq = <<>> /\ Queues(o).condvar_waitq = <<>>
        BY <1>6, <1>11 DEF IsDead
  <2>7. SavedNow' = SavedNow
        BY <1>11 DEF SavedNow
  <2>8. Java!HandOver(o, Queues(o).monitor_waitq, SavedNow) /\ WaitsetIs(o, Queues(o).condvar_waitq)
        BY <2>5, <2>6, <2>7 DEF Java!HandOver, Tables, WaitsetIs, SavedNow
  <2>9. Depth(o) = 1
        BY <1>6, <1>7, <1>11
  <2> QED
        BY <1>1, <2>8, <2>9, ExitSeen
<1> QED
      BY <1>3, <1>9, <1>10, <1>11

(* wait() of the owner, which gives the monitor up however often t has     *)
(* entered it, and keeps the count in monitor_depth.                       *)
LEMMA WaitSeen ==
  ASSUME SchedInv, NEW t \in Threads, NEW o \in Objects, CurrentThread = t, Owner(o) = t,
         Java!HandOver(o, Queues(o).monitor_waitq, [SavedNow EXCEPT ![t] = Depth(o)]),
         WaitsetIs(o, Append(Queues(o).condvar_waitq, t))
  PROVE  Java!Wait(t, o)
<1>1. ~Java!Blocked(t)
      BY NotBlocked
<1> QED
      BY <1>1 DEF Java!Wait, Java!HandOver, WaitsetIs, SavedNow

(* What setting an alarm leaves of a thread.                               *)
LEMMA AlarmFields ==
  ASSUME NEW t \in Threads, NEW delta \in Nat, NEW thr \in [Threads -> ThreadStruct],
         NEW call \in {"resumeThread", "monitorWaitAlarm"},
         NEW thr2, thr2 = WithAlarm(thr, t, delta, call)
  PROVE  /\ thr2 \in [Threads -> ThreadStruct]
         /\ \A u \in Threads : u # t => thr2[u] = thr[u]
         /\ thr2[t].monitor_depth = thr[t].monitor_depth
         /\ thr2[t].lockDepth = thr[t].lockDepth
<1>1. CASE thr2 = [thr EXCEPT ![t].wakeup = delta, ![t].wakeupCall = call]
  <2>1. thr[t] \in ThreadStruct
        /\ thr2[t] = [thr[t] EXCEPT !.wakeup = delta, !.wakeupCall = call]
        BY <1>1
  <2>2. /\ thr2[t] \in ThreadStruct /\ thr2[t].lockDepth = thr[t].lockDepth
        /\ thr2[t].monitor_depth = thr[t].monitor_depth
        BY <2>1 DEF ThreadStruct
  <2> QED
        BY <1>1, <2>1, <2>2
<1> QED
    BY <1>1 DEF WithAlarm

LEMMA MonitorWaitSeen ==
  ASSUME MaxDepth <= ShortMax, SchedInv,
         NEW t \in Threads, NEW o \in Objects, NEW delta \in WaitTimes, MonitorWait(t, o, delta)
  PROVE  Java!Wait(t, o) \/ UNCHANGED Java!vars
<1> DEFINE thr  == AfterUpgrade(o)
           thr1 == Suspended(thr, t)
           thr2 == WithAlarm(thr1, t, delta, "monitorWaitAlarm")
           d    == AsShort(Depth(o))
           mon(m) == [Inflated(o, m) EXCEPT !.condvar_waitq = addThreadToQueue(@, t)]
           thr3(m) == WaitSet(thr2, t, d, m)
<1>1. PICK m \in Monitors :
        /\ Attach(o, m)
        /\ \/ /\ monitor' = [monitor EXCEPT ![m] = Inflated(o, m)]
              /\ thread' = thr
           \/ /\ monitor' = [monitor EXCEPT ![m] = Inflated(o, m)]
              /\ thread' = PendingTaken(thr, t)
           \/ /\ Owner(o) = t
              /\ removeMonitorWait(m, mon(m), thr3(m))
      BY Zenon DEF MonitorWait, PendingTaken, WaitSet
<1>2. TypeOK /\ CurrentThread = t /\ delta \in Nat
      BY BoundsAssumption DEF SchedInv, LockInv, MonitorWait, Running
<1>3. /\ Alone(o, m) /\ Inflated(o, m) \in MonitorStruct
      /\ Inflated(o, m).owner = Owner(o) /\ Inflated(o, m).depth = Depth(o)
      /\ Inflated(o, m).monitor_waitq = Queues(o).monitor_waitq
      /\ Inflated(o, m).condvar_waitq = Queues(o).condvar_waitq
      BY <1>1, AttachSeen DEF Alone
<1>4. Owner(o) # NIL => DepthFits(Depth(o))
      BY <1>1, InflatedSound
<1>5. thr \in [Threads -> ThreadStruct] /\ SamePlace(thread, thr) /\ LocksBut(o, thr)
      BY InflatedLocks
<1> HIDE DEF thr, mon, thr3
<1>6. CASE /\ monitor' = [monitor EXCEPT ![m] = Inflated(o, m)]
           /\ thread' \in {thr, PendingTaken(thr, t)}
  <2>1. /\ SamePlace(thr, thread')
        /\ \A u \in Threads : thread'[u].lockDepth = thr[u].lockDepth
    <3>1. CASE thread' = thr
          BY <3>1 DEF SamePlace
    <3>2. CASE thread' = PendingTaken(thr, t)
          BY <1>5, <3>2, PendingField
    <3> QED
          BY <1>6, <3>1, <3>2
  <2>2. monitor'[m] = Inflated(o, m) /\ \A k \in Monitors : k # m => monitor'[k] = monitor[k]
        BY <1>2, <1>6 DEF TypeOK
  <2>3. Unseen(o)
        BY <1>3, <2>2, RealSeen DEF Alone, Becomes, Unseen
  <2>4. \A p \in Objects \ {o} : Unseen(p)
        BY <1>3, <1>5, <2>1, <2>2, OthersUnseen DEF Alone, LocksBut
  <2>5. SavedKept
        BY <1>5, <2>1 DEF SavedKept, SamePlace
  <2> QED
        BY <2>3, <2>4, <2>5, StutterSeen
<1>7. CASE Owner(o) = t /\ removeMonitorWait(m, mon(m), thr3(m))
  <2>1. /\ thr1 \in [Threads -> ThreadStruct]
        /\ \A u \in Threads : u # t => thr1[u] = thr[u]
        /\ thr1[t].lockDepth = thr[t].lockDepth
        BY <1>5, SuspendedEffect
  <2> HIDE DEF thr1
  <2>3. /\ thr2 \in [Threads -> ThreadStruct]
        /\ \A u \in Threads : u # t => thr2[u] = thr1[u]
        /\ thr2[t].lockDepth = thr1[t].lockDepth
        BY <1>2, <2>1, AlarmFields
  <2> HIDE DEF thr2
  <2>4. d = Depth(o) /\ d \in Int
    <3>1. Depth(o) \in Int /\ Owner(o) # NIL
          BY <1>3, <1>7, CallsDiffer DEF MonitorStruct
    <3> QED
          BY <1>4, <3>1, AsShortKeeps
  <2> HIDE DEF d
  <2>5. PICK th : th = thr3(m)
        OBVIOUS
  <2>6. th = WaitSet(thr2, t, d, m)
        BY <2>5 DEF thr3
  <2>7. /\ th \in [Threads -> ThreadStruct]
        /\ \A u \in Threads : u # t => th[u] = thr2[u]
        /\ th[t].monitor_depth = d /\ th[t].lockDepth = thr2[t].lockDepth
        BY <2>3, <2>4, <2>6, WaitFields
  <2>8. LocksBut(o, th)
        BY <1>5, <2>1, <2>3, <2>7 DEF LocksBut
  <2>9. Saved(th) = [SavedNow EXCEPT ![t] = Depth(o)]
    <3>1. \A u \in Threads :
            th[u].monitor_depth = IF u = t THEN Depth(o) ELSE thread[u].monitor_depth
          BY <1>5, <2>1, <2>3, <2>4, <2>7 DEF SamePlace
    <3>2. [SavedNow EXCEPT ![t] = Depth(o)]
            = [u \in Threads |-> IF u = t THEN Depth(o) ELSE thread[u].monitor_depth]
          BY DEF SavedNow
    <3> QED
          BY <3>1, <3>2 DEF Saved
  <2>10. PICK mo : mo = mon(m)
        OBVIOUS
  <2>11. /\ mo \in MonitorStruct
         /\ mo.monitor_waitq = Queues(o).monitor_waitq
         /\ mo.condvar_waitq = Append(Queues(o).condvar_waitq, t)
    <3>1. /\ addThreadToQueue(Inflated(o, m).condvar_waitq, t) \in Seq(Threads)
          /\ addThreadToQueue(Inflated(o, m).condvar_waitq, t)
               = Append(Inflated(o, m).condvar_waitq, t)
      <4>1. Inflated(o, m).condvar_waitq \in Seq(Threads)
            BY <1>3 DEF MonitorStruct
      <4>2. addThreadToQueue(Inflated(o, m).condvar_waitq, t)
              = Append(Inflated(o, m).condvar_waitq, t)
        <5>1. ~Contains(Inflated(o, m).condvar_waitq, t)
              BY <1>2, <1>3, RunningAbsent
        <5> QED
              BY <5>1 DEF addThreadToQueue
      <4> QED
            BY <4>1, <4>2, AddType
    <3> QED
          BY <1>3, <2>10, <3>1 DEF MonitorStruct, mon
  <2>12. removeMonitorWait(m, mo, th)
        BY <1>7, <2>5, <2>10
  <2>13. Java!HandOver(o, mo.monitor_waitq, Saved(th)) /\ WaitsetIs(o, mo.condvar_waitq)
        BY <1>3, <2>7, <2>8, <2>11, <2>12, HandOverSeen
  <2>14. /\ Java!HandOver(o, Queues(o).monitor_waitq, [SavedNow EXCEPT ![t] = Depth(o)])
         /\ WaitsetIs(o, Append(Queues(o).condvar_waitq, t))
        BY <2>9, <2>11, <2>13 DEF Java!HandOver, WaitsetIs
  <2> QED
        BY <1>2, <1>7, <2>14, WaitSeen
<1> QED
      BY <1>1, <1>6, <1>7

(* What is cut off a queue when one thread, or all of them, leave it.      *)
LEMMA CutQueue ==
  ASSUME NEW S, NEW q \in Seq(S), q # <<>>
  PROVE  /\ SubSeq(q, 1, 1) = <<Head(q)>> /\ SubSeq(q, 2, Len(q)) = Tail(q)
         /\ SubSeq(q, 1, Len(q)) = q /\ SubSeq(q, Len(q) + 1, Len(q)) = <<>>
<1>1. Len(q) \in Nat /\ Len(q) >= 1
      OBVIOUS
<1>2. SubSeq(q, 1, Len(q)) = q
  <2>1. Len(SubSeq(q, 1, Len(q))) = Len(q) /\ SubSeq(q, 1, Len(q)) \in Seq(S)
        BY <1>1
  <2>2. \A i \in 1..Len(q) : SubSeq(q, 1, Len(q))[i] = q[i]
        BY <1>1
  <2> QED
        BY <2>1, <2>2
<1>3. SubSeq(q, Len(q) + 1, Len(q)) = <<>>
      BY <1>1
<1>4. SubSeq(q, 1, 1) = <<Head(q)>>
  <2>1. PICK r : r = SubSeq(q, 1, 1)
        OBVIOUS
  <2>2. Len(r) = 1 /\ r \in Seq(S) /\ r[1] = q[1]
        BY <1>1, <2>1
  <2>3. r = <<q[1]>>
    <3>1. <<q[1]>> \in Seq(S) /\ Len(<<q[1]>>) = 1 /\ <<q[1]>>[1] = q[1]
          BY <1>1
    <3>2. \A i \in 1..Len(r) : r[i] = <<q[1]>>[i]
          BY <2>2, <3>1
    <3> QED
          BY <2>2, <3>1, <3>2, SeqEqual
  <2>4. Head(q) = q[1]
        BY <1>1
  <2> QED
        BY <2>1, <2>3, <2>4
<1>5. SubSeq(q, 2, Len(q)) = Tail(q)
      BY <1>1
<1> QED
      BY <1>2, <1>3, <1>4, <1>5

(* notifyAll, by the owner or for a thread that ends.                      *)
LEMMA NotifyAllSeen ==
  ASSUME SchedInv, NEW o \in Objects, NEW m \in Monitors, mhc[o] = Real(m), mhc' = mhc,
         NEW thr \in [Threads -> ThreadStruct], LocksBut(o, thr), Saved(thr) = SavedNow,
         NEW n, n = Len(monitor[m].condvar_waitq), n # 0, removeCondvarWait(m, n, thr)
  PROVE  Java!NotifyAll(o)
<1> DEFINE q == monitor[m].condvar_waitq
<1>1. q \in Seq(Threads)
      BY DEF SchedInv, LockInv, TypeOK, MonitorStruct
<1>2. q # <<>> /\ n \in 1..Len(q)
      BY <1>1
<1>3. PICK c : c = q
      OBVIOUS
<1>4. Java!Requeue(o, SubSeq(c, 1, n)) /\ WaitsetIs(o, SubSeq(c, n + 1, Len(c)))
      BY <1>2, <1>3, NotifySeen
<1>5. SubSeq(c, 1, n) = c /\ SubSeq(c, n + 1, Len(c)) = <<>>
      BY <1>1, <1>2, <1>3, CutQueue
<1>6. Queues(o).condvar_waitq = c
      BY <1>3, RealSeen
<1> QED
      BY <1>2, <1>3, <1>4, <1>5, <1>6 DEF Java!NotifyAll, Java!Requeue, Java!HandOver, WaitsetIs

LEMMA MonitorNotifySeen ==
  ASSUME SchedInv, NEW t \in Threads, NEW o \in Objects, NEW notifyAll \in BOOLEAN,
         MonitorNotify(t, o, notifyAll)
  PROVE  Java!Notify(t, o) \/ Java!NotifyAll(o)
<1> DEFINE m == mhc[o].monitor
           n == WaitersToWake(m, notifyAll)
           q == monitor[m].condvar_waitq
<1>1. /\ TypeOK /\ CurrentThread = t /\ mhc[o].tag = "MONITOR" /\ Owner(o) = t
      /\ removeCondvarWait(m, n, thread) /\ n > 0
      /\ mhc' = mhc
      /\ mhc[o] \in MHC /\ thread \in [Threads -> ThreadStruct]
      BY DEF SchedInv, LockInv, TypeOK, MonitorNotify, Running
<1>2. m \in Monitors /\ mhc[o] = Real(m)
      BY <1>1, WordCases
<1>3. n \in 0..Len(q) /\ n \in {1, Len(q)}
      BY <1>1, <1>2, WaitersToWakeType DEF WaitersToWake
<1> HIDE DEF n, m
<1>4. q \in Seq(Threads)
      BY <1>1, <1>2 DEF TypeOK, MonitorStruct
<1>5. q # <<>> /\ n \in 1..Len(q)
      BY <1>1, <1>3, <1>4
<1>6. LocksBut(o, thread) /\ Saved(thread) = SavedNow
      BY DEF LocksBut, Saved, SavedNow
<1>7. PICK k, j, c, thr : k \in Monitors /\ k = m /\ j = n /\ c = q /\ thr = thread
      BY <1>2
<1>8. CASE n = Len(q)
  <2>1. /\ k \in Monitors /\ mhc[o] = Real(k) /\ thr \in [Threads -> ThreadStruct] /\ LocksBut(o, thr)
        /\ Saved(thr) = SavedNow /\ j = Len(monitor[k].condvar_waitq) /\ j # 0
        /\ removeCondvarWait(k, j, thr)
        BY <1>1, <1>2, <1>6, <1>7, <1>8
  <2> QED
        BY <1>1, <2>1, NotifyAllSeen
<1>9. CASE n = 1
  <2>1. /\ k \in Monitors /\ mhc[o] = Real(k) /\ thr \in [Threads -> ThreadStruct] /\ LocksBut(o, thr)
        /\ Saved(thr) = SavedNow /\ j \in 1..Len(monitor[k].condvar_waitq)
        /\ c = monitor[k].condvar_waitq /\ removeCondvarWait(k, j, thr)
        BY <1>1, <1>2, <1>5, <1>6, <1>7
  <2>2. Java!Requeue(o, SubSeq(c, 1, j)) /\ WaitsetIs(o, SubSeq(c, j + 1, Len(c)))
        BY <1>1, <2>1, NotifySeen
  <2>3. SubSeq(c, 1, j) = <<Head(c)>> /\ SubSeq(c, j + 1, Len(c)) = Tail(c)
        BY <1>4, <1>5, <1>7, <1>9, CutQueue
  <2>4. Queues(o).condvar_waitq = c /\ c # <<>>
        BY <1>5, <1>7, <2>1, RealSeen
  <2>5. ~Java!Blocked(t)
        BY <1>1, NotBlocked
  <2> QED
        BY <1>1, <2>2, <2>3, <2>4, <2>5 DEF Java!Notify, Java!Requeue, Java!HandOver, WaitsetIs
<1> QED
      BY <1>3, <1>8, <1>9

(* No lock changed.                                                        *)
LocksKept(thr) ==
  \A u \in Threads : /\ thr[u].monitor_depth = thread[u].monitor_depth
                     /\ thr[u].lockDepth = thread[u].lockDepth

LEMMA StillSeen ==
  ASSUME SchedInv, mhc' = mhc, monitor' = monitor, LocksKept(thread')
  PROVE  UNCHANGED Java!vars
<1>1. \A p \in Objects : Unseen(p)
      BY OtherSeen DEF LocksKept
<1>2. SavedKept
      BY DEF SavedKept, LocksKept
<1> QED
      BY <1>1, <1>2, StutterSeen

LEMMA HashCodeSeen ==
  ASSUME SchedInv, NEW t \in Threads, NEW o \in Objects, HashCode(t, o)
  PROVE  UNCHANGED Java!vars
<1> DEFINE h == lastHash + 1
           u == mhc[o].thread
<1>1. /\ TypeOK /\ mhc \in [Objects -> MHC] /\ mhc[o] \in MHC
      /\ thread \in [Threads -> ThreadStruct]
      BY DEF SchedInv, LockInv, TypeOK
<1>2. CASE UNCHANGED <<lockVars, thread>>
      BY <1>2, StillSeen DEF lockVars, LocksKept
<1>3. CASE /\ mhc[o] = Unlocked(0) /\ mhc' = [mhc EXCEPT ![o] = Unlocked(h)]
           /\ UNCHANGED <<monitor, thread>>
  <2>1. mhc'[o] = Unlocked(h) /\ \A p \in Objects : p # o => mhc'[p] = mhc[p]
        BY <1>1, <1>3
  <2>2. Unseen(o)
        BY <1>3, <2>1, WordSeen DEF Unseen, Becomes
  <2>3. SavedKept /\ \A p \in Objects \ {o} : Unseen(p)
        BY <1>3, <2>1, SamePlaceSelf, FastSeen
  <2> QED
        BY <2>2, <2>3, StutterSeen
<1>4. CASE /\ mhc[o].tag = "EXTENDED_LOCK" /\ thread' = HashSet(thread, u, h)
           /\ UNCHANGED lockVars
  <2>1. u \in Threads
        BY <1>1, <1>4, WordCases
  <2> HIDE DEF u
  <2>2. /\ SamePlace(thread, thread') /\ \A v \in Threads : v # u => thread'[v] = thread[v]
        /\ thread'[u].lockDepth = thread[u].lockDepth
        BY <1>1, <1>4, <2>1, LockHashField
  <2>3. LocksKept(thread')
        BY <2>2 DEF LocksKept, SamePlace
  <2> QED
        BY <1>4, <2>3, StillSeen DEF lockVars
<1>5. CASE /\ mhc[o].tag = "SIMPLE_LOCK" /\ allocateFastLock(u, o, 1, h)
           /\ UNCHANGED monitor
  <2>1. u \in Threads /\ mhc[o] = Simple(u)
        BY <1>1, <1>5, WordCases
  <2> HIDE DEF u
  <2>2. /\ mhc' = [mhc EXCEPT ![o] = Extended(u)] /\ thread[u].lockDepth = 0
        /\ thread' = LockSet(thread, u, 1, h)
        BY <1>5 DEF allocateFastLock, IsExtendedLockFree, LockSet
  <2>3. mhc'[o] = Extended(u) /\ \A p \in Objects : p # o => mhc'[p] = mhc[p]
        BY <1>1, <2>2
  <2>4. /\ SamePlace(thread, thread') /\ \A v \in Threads : v # u => thread'[v] = thread[v]
        /\ thread'[u].lockDepth = 1
        BY <1>1, <2>1, <2>2, LockFields
  <2>5. Unseen(o)
        BY <2>1, <2>3, <2>4, WordSeen DEF Unseen, Becomes
  <2>6. SavedKept /\ \A p \in Objects \ {o} : Unseen(p)
        BY <1>5, <2>1, <2>2, <2>3, <2>4, FastSeen
  <2> QED
        BY <2>5, <2>6, StutterSeen
<1>6. CASE /\ UNCHANGED thread
           /\ \E m \in Monitors :
                /\ Attach(o, m)
                /\ monitor' = [monitor EXCEPT ![m] = [Inflated(o, m) EXCEPT !.hashCode = h]]
           /\ mhc[o].tag = "SIMPLE_LOCK"
  <2>1. PICK m \in Monitors :
               /\ Attach(o, m)
               /\ monitor' = [monitor EXCEPT ![m] = [Inflated(o, m) EXCEPT !.hashCode = h]]
        BY <1>6
  <2> DEFINE mon == [Inflated(o, m) EXCEPT !.hashCode = h]
  <2>2. /\ Alone(o, m) /\ Inflated(o, m) \in MonitorStruct
        /\ Inflated(o, m).owner = Owner(o) /\ Inflated(o, m).depth = Depth(o)
        /\ Inflated(o, m).monitor_waitq = Queues(o).monitor_waitq
        /\ Inflated(o, m).condvar_waitq = Queues(o).condvar_waitq
        BY <2>1, AttachSeen DEF Alone
  <2>3. /\ mon.owner = Owner(o) /\ mon.depth = Depth(o)
        /\ mon.monitor_waitq = Queues(o).monitor_waitq
        /\ mon.condvar_waitq = Queues(o).condvar_waitq
        BY <2>2 DEF MonitorStruct
  <2>4. monitor' = [monitor EXCEPT ![m] = mon]
        BY <2>1
  <2> HIDE DEF mon
  <2>5. monitor'[m] = mon /\ \A k \in Monitors : k # m => monitor'[k] = monitor[k]
        BY <1>1, <2>4 DEF TypeOK
  <2>6. Unseen(o)
        BY <2>2, <2>3, <2>5, RealSeen DEF Alone, Becomes, Unseen
  <2>7. \A p \in Objects \ {o} : Unseen(p)
        BY <1>6, <2>2, <2>5, OthersUnseen DEF Alone
  <2>8. SavedKept
        BY <1>6 DEF SavedKept
  <2> QED
        BY <2>6, <2>7, <2>8, StutterSeen
<1>7. \/ UNCHANGED <<lockVars, thread>>
      \/ /\ mhc[o] = Unlocked(0) /\ mhc' = [mhc EXCEPT ![o] = Unlocked(h)]
         /\ UNCHANGED <<monitor, thread>>
      \/ /\ mhc[o].tag = "EXTENDED_LOCK" /\ thread' = HashSet(thread, u, h)
         /\ UNCHANGED lockVars
      \/ /\ mhc[o].tag = "SIMPLE_LOCK" /\ allocateFastLock(u, o, 1, h)
         /\ UNCHANGED monitor
      \/ /\ UNCHANGED thread
         /\ \E m \in Monitors :
              /\ Attach(o, m)
              /\ monitor' = [monitor EXCEPT ![m] = [Inflated(o, m) EXCEPT !.hashCode = h]]
         /\ mhc[o].tag = "SIMPLE_LOCK"
      BY Zenon DEF HashCode, HashSet
<1> QED
      BY <1>2, <1>3, <1>4, <1>5, <1>6, <1>7

LEMMA IdleSeen ==
  ASSUME SchedInv, Exit \/ TimersDone \/ GarbageCollect \/ Terminated \/ (\E t \in Threads : Yield(t))
  PROVE  UNCHANGED Java!vars
<1>1. mhc' = mhc /\ monitor' = monitor /\ thread' = thread
      BY DEF Exit, TimersDone, GarbageCollect, Terminated, Yield, lockVars, schedVars, vars
<1> QED
      BY <1>1, StillSeen DEF LocksKept

LEMMA SleepSeen ==
  ASSUME SchedInv, NEW t \in Threads, NEW period \in SleepTimes, Sleep(t, period)
  PROVE  UNCHANGED Java!vars
<1>1. /\ thread \in [Threads -> ThreadStruct] /\ mhc' = mhc /\ monitor' = monitor /\ period \in Nat
      BY BoundsAssumption DEF SchedInv, LockInv, TypeOK, Sleep, lockVars
<1>2. CASE thread' = PendingTaken(thread, t)
      BY <1>1, <1>2, PendingField, StillSeen DEF LocksKept, SamePlace
<1>3. CASE thread' = WithAlarm(Suspended(thread, t), t, period, "resumeThread")
  <2> DEFINE thr1 == Suspended(thread, t)
  <2>1. /\ thr1 \in [Threads -> ThreadStruct]
        /\ \A u \in Threads : u # t => thr1[u] = thread[u]
        /\ thr1[t].monitor_depth = thread[t].monitor_depth
        /\ thr1[t].lockDepth = thread[t].lockDepth
        BY <1>1, SuspendedEffect
  <2>2. thread' = WithAlarm(thr1, t, period, "resumeThread")
        BY <1>3
  <2> HIDE DEF thr1
  <2>3. /\ \A u \in Threads : u # t => thread'[u] = thr1[u]
        /\ thread'[t].monitor_depth = thr1[t].monitor_depth
        /\ thread'[t].lockDepth = thr1[t].lockDepth
        BY <1>1, <2>1, <2>2, AlarmFields
  <2> QED
        BY <1>1, <2>1, <2>3, StillSeen DEF LocksKept
<1> QED
      BY <1>2, <1>3 DEF Sleep, PendingTaken

LEMMA StartThreadSeen ==
  ASSUME SchedInv, NEW t \in Threads, NEW u \in Threads, StartThread(t, u)
  PROVE  UNCHANGED Java!vars
<1> DEFINE thr == [Built(u) EXCEPT ![u].state = {"SUSPENDED"}]
<1>1. /\ thread \in [Threads -> ThreadStruct] /\ mhc' = mhc /\ monitor' = monitor
      /\ resumeThread(u, thr)
      BY DEF SchedInv, LockInv, TypeOK, StartThread, lockVars
<1>2. thr = StateSet(thread, u, {"SUSPENDED"}) /\ thread' = StateSet(thr, u, {"ACTIVE"})
      BY <1>1 DEF Built, StateSet, resumeThread
<1> HIDE DEF thr
<1>3. /\ thr \in [Threads -> ThreadStruct]
      /\ \A v \in Threads : v # u => thr[v] = thread[v]
      /\ thr[u].monitor_depth = thread[u].monitor_depth /\ thr[u].lockDepth = thread[u].lockDepth
  <2>1. {"SUSPENDED"} \in SUBSET ThreadState
        BY DEF ThreadState
  <2>2. thr \in [Threads -> ThreadStruct]
        BY <1>1, <1>2, <2>1, StateUpdate DEF StateSet
  <2> QED
        BY <1>1, <1>2, <2>2, StateField
<1>4. /\ \A v \in Threads : v # u => thread'[v] = thr[v]
      /\ thread'[u].monitor_depth = thr[u].monitor_depth /\ thread'[u].lockDepth = thr[u].lockDepth
      BY <1>2, <1>3, StateField
<1> QED
      BY <1>1, <1>3, <1>4, StillSeen DEF LocksKept

LEMMA SetPrioritySeen ==
  ASSUME SchedInv, NEW t \in Threads, NEW u \in Threads, SetPriority(t, u)
  PROVE  UNCHANGED Java!vars
<1>1. /\ thread \in [Threads -> ThreadStruct] /\ mhc' = mhc /\ monitor' = monitor
      /\ thread' = StateSet(thread, u, {"JUST_BORN"})
      BY DEF SchedInv, LockInv, TypeOK, SetPriority, Built, StateSet, lockVars
<1>2. /\ \A v \in Threads : v # u => thread'[v] = thread[v]
      /\ thread'[u].monitor_depth = thread[u].monitor_depth
      /\ thread'[u].lockDepth = thread[u].lockDepth
      BY <1>1, StateField
<1> QED
      BY <1>1, <1>2, StillSeen DEF LocksKept

LEMMA TickSeen == SchedInv /\ Tick => UNCHANGED Java!vars
<1> SUFFICES ASSUME SchedInv, Tick PROVE UNCHANGED Java!vars
    OBVIOUS
<1>1. thread \in [Threads -> ThreadStruct] /\ mhc' = mhc /\ monitor' = monitor
      BY DEF SchedInv, LockInv, TypeOK, Tick, lockVars
<1>2. ASSUME NEW t \in Threads
      PROVE  /\ thread'[t].monitor_depth = thread[t].monitor_depth
             /\ thread'[t].lockDepth = thread[t].lockDepth
  <2>1. /\ thread[t] \in ThreadStruct
        /\ thread'[t] = [thread[t] EXCEPT !.wakeup = IF @ > 0 THEN @ - 1 ELSE 0]
        BY <1>1 DEF Tick
  <2> QED
        BY <2>1 DEF ThreadStruct
<1> QED
      BY <1>1, <1>2, StillSeen DEF LocksKept

LEMMA SwitchThreadSeen == SchedInv /\ SwitchThread => UNCHANGED Java!vars
<1> SUFFICES ASSUME SchedInv, SwitchThread PROVE UNCHANGED Java!vars
    OBVIOUS
<1>1. /\ thread \in [Threads -> ThreadStruct] /\ mhc' = mhc /\ monitor' = monitor
      /\ RunnableThreads \in Seq(Threads)
      BY DEF SchedInv, LockInv, TypeOK, SwitchThread, lockVars
<1>2. CASE thread' = thread
      BY <1>1, <1>2, StillSeen DEF LocksKept
<1>3. CASE RunnableThreads # <<>> /\ thread' = CaughtUp(thread, Head(RunnableThreads))
  <2>1. PICK h \in Threads : h = Head(RunnableThreads)
        BY <1>1, <1>3
  <2>2. /\ \A u \in Threads : u # h => thread'[u] = thread[u]
        /\ thread'[h].monitor_depth = thread[h].monitor_depth
        /\ thread'[h].lockDepth = thread[h].lockDepth
        BY <1>1, <1>3, <2>1, CaughtField
  <2> QED
        BY <1>1, <2>2, StillSeen DEF LocksKept
<1> QED
      BY <1>2, <1>3 DEF SwitchThread, Dispatch, CaughtUp

(* A thread is woken that did not wait on a monitor.                       *)
LEMMA ResumeSeen ==
  ASSUME SchedInv, NEW t \in Threads, NEW thr \in [Threads -> ThreadStruct], CalmIn(thr, t),
         resumeThread(t, thr), mhc' = mhc, monitor' = monitor
  PROVE  UNCHANGED Java!vars
<1>1. thread' = StateSet(thr, t, {"ACTIVE"})
      BY DEF resumeThread, StateSet
<1>2. /\ \A u \in Threads : u # t => thread'[u] = thr[u]
      /\ thread'[t].monitor_depth = thr[t].monitor_depth /\ thread'[t].lockDepth = thr[t].lockDepth
      BY <1>1, StateField
<1> QED
      BY <1>2, StillSeen DEF LocksKept, CalmIn

(* A thread that waits is woken by its alarm or by an interrupt.           *)
LEMMA WaitEndSeen ==
  ASSUME SchedInv, NEW t \in Threads, NEW m \in Monitors, Contains(monitor[m].condvar_waitq, t),
         NEW thr \in [Threads -> ThreadStruct], CalmIn(thr, t),
         addMonitorWait(m, LeftBy(m, t), t, thr), mhc' = mhc
  PROVE  \E o \in Objects : Java!Leave(t, o)
<1>1. Serves(mhc, m)
  <2>1. ~Serves(mhc, m) => monitor[m].condvar_waitq = <<>>
        BY UniqueParts DEF SchedInv, LockInv, IsClean
  <2> QED
        BY <2>1, EmptyQueue
<1>2. PICK o \in Objects : mhc[o] = Real(m)
      BY <1>1 DEF Serves
<1>3. LocksBut(o, thr) /\ Saved(thr) = SavedNow
      BY DEF LocksBut, CalmIn, Saved, SavedNow
<1>4. Java!Leave(t, o)
      BY <1>2, <1>3, LeaveSeen
<1> QED
      BY <1>4

LEMMA InterruptSeen ==
  ASSUME SchedInv, ReInterrupt = FALSE, NEW t \in Threads, NEW u \in Threads, Interrupt(t, u)
  PROVE  UNCHANGED Java!vars \/ \E o \in Objects : Java!Leave(u, o)
<1> DEFINE sleeping == inTimerQueue(u)
           waiting  == "CONVAR_WAIT" \in thread[u].state
           calm     == IF sleeping THEN WithoutAlarm(thread, {u}) ELSE thread
           thrown   == Thrown(calm, u)
           m        == thread[u].monitor
<1>1. /\ thread \in [Threads -> ThreadStruct] /\ mhc' = mhc
      /\ thread[u].state \notin {{}, {"JUST_BORN"}, {"DEAD"}} /\ ~LeftCondvar(u)
      BY DEF SchedInv, LockInv, TypeOK, Interrupt
<1>2. \/ waiting /\ addMonitorWait(m, LeftBy(m, u), u, thrown)
      \/ sleeping /\ ~waiting /\ resumeThread(u, thrown) /\ UNCHANGED monitor
      \/ thread' = PendingSet(thread, u) /\ UNCHANGED monitor
      BY Zenon DEF Interrupt, LeftBy, Thrown, PendingSet
<1>3. Placed(u, CurrentThread, RunnableThreads, TimerQueue, thread, monitor)
      BY DEF SchedInv, Places
<1>4. thread[u].state \in Alive
      BY <1>1, <1>3 DEF Placed, Lifeless
<1>5. ~sleeping => thread[u].wakeupCall = NIL
      BY DEF inTimerQueue
<1>6. /\ calm \in [Threads -> ThreadStruct] /\ CalmIn(calm, u)
  <2>1. CASE sleeping
    <3>1. calm = WithoutAlarm(thread, {u})
          BY <2>1
    <3> HIDE DEF calm
    <3> QED
          BY <1>1, <3>1, CalmEffect DEF CalmIn
  <2>2. CASE ~sleeping
    <3>1. calm = thread
          BY <2>2
    <3> HIDE DEF calm
    <3> QED
          BY <1>1, <1>5, <2>2, <3>1 DEF CalmIn
  <2> QED
        BY <2>1, <2>2
<1>7. thrown \in [Threads -> ThreadStruct] /\ CalmIn(thrown, u)
  <2> HIDE DEF calm
  <2>1. /\ thrown \in [Threads -> ThreadStruct]
        /\ \A v \in Threads : v # u => thrown[v] = calm[v]
        /\ thrown[u].state = calm[u].state /\ thrown[u].monitor = calm[u].monitor
        /\ thrown[u].monitor_depth = calm[u].monitor_depth
        /\ thrown[u].wakeupCall = calm[u].wakeupCall
        /\ thrown[u].lockDepth = calm[u].lockDepth /\ thrown[u].lockHash = calm[u].lockHash
        BY <1>6, ThrownField
  <2> HIDE DEF thrown
  <2> QED
        BY <1>6, <2>1 DEF CalmIn
<1> HIDE DEF calm, thrown
<1>8. CASE waiting /\ addMonitorWait(m, LeftBy(m, u), u, thrown)
  <2>1. thread[u].state \in {Waiting, Woken}
        BY <1>4, <1>8, StatesDiffer
  <2>2. m \in Monitors
        BY <1>3, <2>1 DEF Placed
  <2>3. Contains(monitor[m].condvar_waitq, u)
        BY <1>1, <1>8 DEF LeftCondvar
  <2>4. addMonitorWait(m, LeftBy(m, u), u, thrown)
        BY <1>8
  <2>5. PICK k, thr : k = m /\ thr = thrown
        OBVIOUS
  <2> HIDE DEF m
  <2>6. /\ k \in Monitors /\ Contains(monitor[k].condvar_waitq, u)
        /\ thr \in [Threads -> ThreadStruct] /\ CalmIn(thr, u)
        /\ addMonitorWait(k, LeftBy(k, u), u, thr)
        BY <1>7, <2>2, <2>3, <2>4, <2>5
  <2> QED
        BY <1>1, <2>6, WaitEndSeen
<1>9. CASE sleeping /\ ~waiting /\ resumeThread(u, thrown) /\ UNCHANGED monitor
      BY <1>1, <1>7, <1>9, ResumeSeen
<1>10. CASE thread' = PendingSet(thread, u) /\ UNCHANGED monitor
      BY <1>1, <1>10, PendingField, StillSeen DEF LocksKept, SamePlace
<1> QED
      BY <1>2, <1>8, <1>9, <1>10

LEMMA FireAlarmSeen ==
  ASSUME SchedInv, FireAlarm
  PROVE  UNCHANGED Java!vars \/ \E t \in Threads, o \in Objects : Java!Leave(t, o)
<1> DEFINE t == Head(TimerQueue)
           m == thread[t].monitor
           calm == WithoutAlarm(thread, {t})
<1>1. /\ thread \in [Threads -> ThreadStruct] /\ TimerQueue \in Seq(Threads)
      /\ TimerQueue # <<>> /\ mhc' = mhc
      BY DEF SchedInv, LockInv, TypeOK, FireAlarm, AlarmDue
<1>2. \/ resumeThread(t, calm) /\ UNCHANGED monitor
      \/ /\ thread[t].wakeupCall = "monitorWaitAlarm"
         /\ m # NIL /\ Contains(monitor[m].condvar_waitq, t)
              => addMonitorWait(m, LeftBy(m, t), t, calm)
      BY DEF FireAlarm, LeftBy
<1>3. t \in Threads
      BY <1>1
<1> HIDE DEF t
<1>4. calm = WithoutAlarm(thread, {t})
      OBVIOUS
<1> HIDE DEF calm
<1>9. calm \in [Threads -> ThreadStruct] /\ CalmIn(calm, t)
  <2>1. /\ calm \in [Threads -> ThreadStruct]
        /\ \A v \in Threads : v \notin {t} => calm[v] = thread[v]
        /\ \A v \in Threads : v \in {t} => calm[v].wakeupCall = NIL
        /\ \A v \in Threads :
             /\ calm[v].state = thread[v].state /\ calm[v].monitor = thread[v].monitor
             /\ calm[v].monitor_depth = thread[v].monitor_depth
             /\ calm[v].lockDepth = thread[v].lockDepth /\ calm[v].lockHash = thread[v].lockHash
        BY <1>1, <1>4, CalmEffect
  <2> QED
        BY <1>3, <2>1 DEF CalmIn
<1>10. PICK u \in Threads : u = t
      BY <1>3
<1>5. PICK thr \in [Threads -> ThreadStruct] : thr = calm /\ CalmIn(thr, u)
      BY <1>9, <1>10
<1>6. Placed(u, CurrentThread, RunnableThreads, TimerQueue, thread, monitor)
      BY DEF SchedInv, Places
<1>7. CASE resumeThread(t, calm) /\ UNCHANGED monitor
      BY <1>1, <1>5, <1>7, <1>10, ResumeSeen
<1>8. CASE /\ thread[t].wakeupCall = "monitorWaitAlarm"
           /\ m # NIL /\ Contains(monitor[m].condvar_waitq, t)
                => addMonitorWait(m, LeftBy(m, t), t, calm)
  <2>1. thread[u].state = Waiting
        BY <1>10, <1>6, <1>8 DEF Placed
  <2>2. m \in Monitors
        BY <1>10, <1>6, <2>1 DEF Placed
  <2>3. Contains(monitor[m].condvar_waitq, u)
        BY <1>10, <1>6, <2>1, <2>2 DEF Placed
  <2>4. addMonitorWait(m, LeftBy(m, t), t, calm)
        BY <1>10, <1>8, <2>2, <2>3, CallsDiffer
  <2>5. PICK k : k = m
        OBVIOUS
  <2> HIDE DEF m
  <2>6. /\ k \in Monitors /\ Contains(monitor[k].condvar_waitq, u)
        /\ addMonitorWait(k, LeftBy(k, u), u, thr)
        BY <1>5, <1>10, <2>2, <2>3, <2>4, <2>5
  <2> QED
        BY <1>1, <1>5, <2>6, WaitEndSeen
<1> QED
      BY <1>2, <1>7, <1>8

(* The threads that join t are notified.                                   *)
LEMMA StopThreadSeen ==
  ASSUME SchedInv, NEW t \in Threads, StopThread(t)
  PROVE  UNCHANGED Java!vars \/ \E o \in Objects : Java!NotifyAll(o)
<1> DEFINE o    == JavaThread[t]
           m    == mhc[o].monitor
           n    == WaitersToWake(m, TRUE)
           dead == StateSet(thread, t, {"DEAD"})
           join == o # NIL /\ mhc[o].tag = "MONITOR"
<1>1. /\ TypeOK /\ thread \in [Threads -> ThreadStruct] /\ mhc' = mhc
      /\ mhc \in [Objects -> MHC]
      BY DEF SchedInv, LockInv, TypeOK, StopThread
<1>2. \/ join /\ removeCondvarWait(m, n, dead)
      \/ thread' = dead /\ UNCHANGED monitor
      BY Zenon DEF StopThread, StateSet
<1>3. PICK thr : thr = dead /\ thr = StateSet(thread, t, {"DEAD"})
      OBVIOUS
<1>4. /\ \A u \in Threads : u # t => thr[u] = thread[u]
      /\ thr[t].monitor_depth = thread[t].monitor_depth /\ thr[t].lockDepth = thread[t].lockDepth
      BY <1>1, <1>3, StateField
<1>5. thr \in [Threads -> ThreadStruct]
  <2>1. {"DEAD"} \in SUBSET ThreadState
        BY DEF ThreadState
  <2> QED
        BY <1>1, <1>3, <2>1, StateUpdate, SMTT(60) DEF StateSet
<1> HIDE DEF dead
<1>6. LocksKept(thr)
      BY <1>4 DEF LocksKept
<1>7. CASE thread' = dead /\ UNCHANGED monitor
      BY <1>1, <1>3, <1>6, <1>7, StillSeen
<1>8. CASE join /\ removeCondvarWait(m, n, dead)
  <2>1. PICK p \in Objects : p = o /\ mhc[p].tag = "MONITOR"
    <3>1. JavaThread[t] \in Objects \cup {NIL}
          BY ThreadsAssumption
    <3> QED
          BY <1>8, <3>1
  <2>2. PICK k \in Monitors : k = m /\ mhc[p] = Real(k)
    <3>1. mhc[p] \in MHC
          BY <1>1
    <3> QED
          BY <2>1, <3>1, WordCases
  <2>3. n = Len(monitor[k].condvar_waitq)
        BY <2>2 DEF WaitersToWake
  <2>4. removeCondvarWait(m, n, dead)
        BY <1>8
  <2>5. PICK j : j = n
        OBVIOUS
  <2> HIDE DEF m, n, o
  <2>6. j = Len(monitor[k].condvar_waitq) /\ removeCondvarWait(k, j, thr)
        BY <1>3, <2>2, <2>3, <2>4, <2>5
  <2>7. LocksBut(p, thr) /\ Saved(thr) = SavedNow
        BY <1>6 DEF LocksBut, LocksKept, Saved, SavedNow
  <2>8. CASE j # 0
    <3>1. Java!NotifyAll(p)
          BY <1>1, <1>5, <2>2, <2>6, <2>7, <2>8, NotifyAllSeen
    <3> QED
          BY <3>1
  <2>9. CASE j = 0
    <3>1. monitor[k].condvar_waitq \in Seq(Threads)
          BY <1>1 DEF TypeOK, MonitorStruct
    <3>2. PICK left \in MonitorStruct, waiting \in [Threads -> ThreadStruct], woken \in Seq(Threads) :
            MovedFor(left, waiting, woken, j, k, thr)
      <4>1. j \in 0..Len(monitor[k].condvar_waitq)
            BY <2>6, <2>9, <3>1
      <4> QED
            BY <1>1, <1>5, <2>6, <4>1, RemoveCondvarWaitEffect
    <3>3. /\ thread' = waiting /\ monitor'[k] = left
          /\ \A i \in Monitors : i # k => monitor'[i] = monitor[i]
          /\ woken = SubSeq(monitor[k].condvar_waitq, 1, j)
          /\ left.owner = monitor[k].owner /\ left.depth = monitor[k].depth
          /\ left.condvar_waitq
               = SubSeq(monitor[k].condvar_waitq, j + 1, Len(monitor[k].condvar_waitq))
          /\ left.monitor_waitq = monitor[k].monitor_waitq \o woken
          /\ \A u \in Threads : ~Contains(woken, u) => waiting[u] = thr[u]
      <4>1. ~(j > 0)
            BY <2>9
      <4>2. /\ woken = SubSeq(monitor[k].condvar_waitq, 1, j)
            /\ left.owner = monitor[k].owner /\ left.depth = monitor[k].depth
            /\ left.condvar_waitq
                 = SubSeq(monitor[k].condvar_waitq, j + 1, Len(monitor[k].condvar_waitq))
            /\ left.monitor_waitq = monitor[k].monitor_waitq \o woken
            BY <3>2 DEF MovedFor
      <4>3. /\ thread' = waiting /\ monitor'[k] = left
            /\ \A i \in Monitors : i # k => monitor'[i] = monitor[i]
            BY Zenon, <3>2, <4>1 DEF MovedFor
      <4>4. \A u \in Threads : ~Contains(woken, u) => waiting[u] = thr[u]
            BY Zenon, <3>2 DEF MovedFor
      <4> QED
            BY <4>2, <4>3, <4>4
    <3>4. woken = <<>> /\ monitor[k].condvar_waitq = <<>>
      <4>1. monitor[k].condvar_waitq = <<>>
        <5>1. PICK q \in Seq(Threads) : q = monitor[k].condvar_waitq
              BY <3>1
        <5>2. Len(q) = 0
              BY <2>6, <2>9, <5>1
        <5>3. q = <<>>
              BY <5>2
        <5> QED
              BY <5>1, <5>3
      <4>2. SubSeq(monitor[k].condvar_waitq, 1, 0) = <<>>
            BY <4>1
      <4> QED
            BY <2>9, <3>3, <4>1, <4>2
    <3>5. left.condvar_waitq = <<>> /\ left.monitor_waitq = monitor[k].monitor_waitq
      <4>1. monitor[k].monitor_waitq \in Seq(Threads)
            BY <1>1 DEF TypeOK, MonitorStruct
      <4>2. PICK q : q = monitor[k].condvar_waitq /\ q = <<>>
            BY <3>4
      <4>3. SubSeq(q, j + 1, Len(q)) = <<>>
            BY <2>9, <4>2
      <4> QED
            BY <3>3, <3>4, <4>1, <4>2, <4>3
    <3>6. LocksKept(thread')
          BY <1>6, <3>3, <3>4, EmptyQueue DEF LocksKept
    <3>7. \A i \in Objects : Unseen(i)
          BY <1>1, <3>3, <3>4, <3>5, <3>6, OtherSeen DEF LocksKept
    <3>8. SavedKept
          BY <3>6 DEF SavedKept, LocksKept
    <3> QED
          BY <3>7, <3>8, StutterSeen
  <2> QED
        BY <2>8, <2>9
<1> QED
      BY <1>2, <1>7, <1>8

-----------------------------------------------------------------------------
(* The refinement                                                          *)

LEMMA ObjectStepSeen ==
  ASSUME MaxDepth <= ShortMax, SchedInv, NEW t \in Threads, NEW o \in Objects, ObjectStep(t, o)
  PROVE  Java!Next \/ UNCHANGED Java!vars
<1>1. CASE MonitorEnterFast(t, o)
      BY <1>1, MonitorEnterFastSeen DEF Java!Next
<1>2. CASE MonitorEnterSlow(t, o)
      BY <1>2, MonitorEnterSlowSeen DEF Java!Next
<1>3. CASE MonitorExitFast(t, o)
      BY <1>3, MonitorExitFastSeen DEF Java!Next
<1>4. CASE MonitorExitSlow(t, o)
      BY <1>4, MonitorExitSlowSeen DEF Java!Next
<1>5. CASE \E delta \in WaitTimes : MonitorWait(t, o, delta)
      BY <1>5, MonitorWaitSeen DEF Java!Next
<1>6. CASE \E notifyAll \in BOOLEAN : MonitorNotify(t, o, notifyAll)
      BY <1>6, MonitorNotifySeen DEF Java!Next
<1>7. CASE HashCode(t, o)
      BY <1>7, HashCodeSeen
<1> QED
      BY <1>1, <1>2, <1>3, <1>4, <1>5, <1>6, <1>7 DEF ObjectStep

LEMMA NextSeen ==
  ASSUME ReInterrupt = FALSE, MaxDepth <= ShortMax, SchedInv, [Next]_vars
  PROVE  [Java!Next]_(Java!vars)
<1>1. CASE UNCHANGED vars
  <2>1. mhc' = mhc /\ monitor' = monitor /\ thread' = thread
        BY <1>1 DEF lockVars, schedVars, vars
  <2> QED
        BY <2>1, StillSeen DEF LocksKept
<1>2. ASSUME NEW t \in Threads, ThreadStep(t) PROVE Java!Next \/ UNCHANGED Java!vars
  <2>1. CASE \E o \in Objects : ObjectStep(t, o)
        BY <2>1, ObjectStepSeen
  <2>2. CASE \E period \in SleepTimes : Sleep(t, period)
        BY <2>2, SleepSeen
  <2>3. CASE Yield(t)
        BY <2>3, IdleSeen
  <2>4. CASE \E u \in Threads : StartThread(t, u)
        BY <2>4, StartThreadSeen
  <2>5. CASE \E u \in Threads : SetPriority(t, u)
        BY <2>5, SetPrioritySeen
  <2>6. CASE \E u \in Threads : Interrupt(t, u)
        BY <2>6, InterruptSeen DEF Java!Next
  <2>7. CASE StopThread(t)
        BY <2>7, StopThreadSeen DEF Java!Next
  <2> QED
        BY <1>2, <2>1, <2>2, <2>3, <2>4, <2>5, <2>6, <2>7 DEF ThreadStep
<1>3. CASE FireAlarm
      BY <1>3, FireAlarmSeen DEF Java!Next
<1>4. CASE SwitchThread
      BY <1>4, SwitchThreadSeen
<1>5. CASE Tick
      BY <1>5, TickSeen
<1>6. CASE Exit \/ TimersDone \/ GarbageCollect \/ Terminated
      BY <1>6, IdleSeen
<1> QED
      BY <1>1, <1>2, <1>3, <1>4, <1>5, <1>6 DEF Next, Reschedule

(* Whatever the representation of the locks - simple, extended or a real   *)
(* monitor, with every change from one to another - threads that enter,    *)
(* leave, wait and notify, alarms that end a wait and threads that die see *)
(* one nestable lock and one wait set per object, both first come, first   *)
(* served, for every number of threads, objects and monitors (thread.c     *)
(* implements thread.h).                                                   *)
THEOREM LocksAreJavaMonitors ==
  ReInterrupt = FALSE /\ MaxDepth <= ShortMax => (Spec => ImplementsJavaMonitor)
<1> SUFFICES ASSUME ReInterrupt = FALSE, MaxDepth <= ShortMax
             PROVE  Spec => ImplementsJavaMonitor
    OBVIOUS
<1>1. Spec => []SchedInv
      BY SchedInvariant
<1>2. Init => Java!Init
      BY InitSeen
<1>3. SchedInv /\ [Next]_vars => [Java!Next]_(Java!vars)
      BY NextSeen
<1> QED
      BY <1>1, <1>2, <1>3, PTL DEF Spec, ImplementsJavaMonitor, Java!Spec
=============================================================================
