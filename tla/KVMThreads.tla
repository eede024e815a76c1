----------------------------- MODULE KVMThreads -----------------------------
(***************************************************************************)
(* Green threads, monitors and alarms of the KVM (CLDC 1.1): thread.c, the *)
(* natives of java.lang.Object and java.lang.Thread that drive it          *)
(* (nativeCore.c), objectHashCode (class.c) and the reschedule loop of the *)
(* interpreter (events.h), in the build without the Java debugger and      *)
(* without asynchronous native functions.                                  *)
(*                                                                         *)
(* Exactly one Java thread runs at a time.  A native or a bytecode is one  *)
(* action of CurrentThread; between two of them the interpreter may run    *)
(* reschedule(), modelled by the actions of the phases "timers" and        *)
(* "switch".                                                               *)
(***************************************************************************)
EXTENDS ThreadQueue

CONSTANTS
  Threads,        \* the THREAD structures
  Objects,        \* the Java objects that are locked, waited on or hashed
  Monitors,       \* the real monitor structures the heap has room for
  NIL,            \* NULL
  MainThread,
  JavaThread,     \* javaThread: the object of a thread, NIL for one outside Objects
  MaxDepth,       \* bound: how deep a program nests one monitor
  ShortMax,       \* largest value of the short monitor_depth (32767 in C)
  SleepTimes,     \* bound: the periods programs sleep
  WaitTimes,      \* bound: the timeouts programs wait with, 0 is "forever"
  Interruptible,  \* bound: the threads programs interrupt
  ReInterrupt,    \* may a thread that left wait() for the lock be interrupted
  HashObjects,    \* bound: the objects programs take the hash code of
  HashOnMonitor,  \* may they be hashed while a real monitor is attached
  MaxHash         \* bound: how many hash codes are generated

ASSUME ThreadsAssumption ==
  /\ MainThread \in Threads
  /\ NIL \notin Threads \cup Objects \cup Monitors
  /\ NIL \notin {"resumeThread", "monitorWaitAlarm"}   \* NULL is no function
  /\ JavaThread \in [Threads -> Objects \cup {NIL}]
  /\ \A t, u \in Threads : JavaThread[t] = JavaThread[u] /\ t # u => JavaThread[t] = NIL

ASSUME BoundsAssumption ==
  /\ MaxDepth \in Nat \ {0} /\ ShortMax \in Nat \ {0} /\ MaxHash \in Nat
  /\ SleepTimes \subseteq Nat \ {0} /\ WaitTimes \subseteq Nat
  /\ Interruptible \subseteq Threads /\ HashObjects \subseteq Objects
  /\ ReInterrupt \in BOOLEAN /\ HashOnMonitor \in BOOLEAN

VARIABLES
  CurrentThread, RunnableThreads, AllThreads, AliveThreadCount,
  TimerQueue,     \* threads with a pending alarm, next to go off first
  thread,         \* struct threadQueue of every thread
  monitor,        \* struct monitorStruct of every real monitor
  MonitorCache,   \* the monitors kept for reuse, last freed first
  mhc,            \* the monitorOrHashCode word of every object
  lastHash,       \* number of hash codes generated so far
  phase,          \* where the interpreter is: see reschedule() in events.h
  fatal,          \* fatalError() was called
  hashReturned    \* history: the hash codes every object was seen to have

schedVars == <<CurrentThread, RunnableThreads, TimerQueue, thread, phase, fatal>>
lifeVars  == <<AllThreads, AliveThreadCount>>
lockVars  == <<monitor, MonitorCache, mhc>>
hashVars  == <<lastHash, hashReturned>>
vars      == <<schedVars, lifeVars, lockVars, hashVars>>

-----------------------------------------------------------------------------
(* Data                                                                    *)

ThreadState == {"JUST_BORN", "ACTIVE", "SUSPENDED", "DEAD", "MONITOR_WAIT", "CONVAR_WAIT"}

(* state {} is a Java thread whose THREAD is not built yet.  wakeup is     *)
(* wakeupTime relative to the clock, 0 when due or off the queue.          *)
ThreadStruct ==
  [state : SUBSET ThreadState,
   monitor : Monitors \cup {NIL}, monitor_depth : Int,
   wakeupCall : {NIL, "resumeThread", "monitorWaitAlarm"}, wakeup : Nat,
   lockDepth : Nat, lockHash : Nat,          \* extendedLock
   pendingException : BOOLEAN, isPendingInterrupt : BOOLEAN]

MonitorStruct ==
  [owner : Threads \cup {NIL}, depth : Int, hashCode : Nat,
   monitor_waitq : Seq(Threads), condvar_waitq : Seq(Threads)]

(* The low two bits of the word are its tag, the others what it points to. *)
MHC == [tag : {"UNLOCKED"}, hashCode : Nat]
         \cup [tag : {"SIMPLE_LOCK", "EXTENDED_LOCK"}, thread : Threads]
         \cup [tag : {"MONITOR"}, monitor : Monitors]

Unlocked(h) == [tag |-> "UNLOCKED", hashCode |-> h]
Simple(t)   == [tag |-> "SIMPLE_LOCK", thread |-> t]
Extended(t) == [tag |-> "EXTENDED_LOCK", thread |-> t]
Real(m)     == [tag |-> "MONITOR", monitor |-> m]

Unbuilt == [state |-> {}, monitor |-> NIL, monitor_depth |-> 0,
            wakeupCall |-> NIL, wakeup |-> 0, lockDepth |-> 0, lockHash |-> 0,
            pendingException |-> FALSE, isPendingInterrupt |-> FALSE]

EmptyMonitor == [owner |-> NIL, depth |-> 0, hashCode |-> 0,
                 monitor_waitq |-> <<>>, condvar_waitq |-> <<>>]

(* Fault: wait() forgets how often the monitor was entered.                *)
AsShort_LosesCount(d) == 1

(* monitor_depth is a short: what a long depth becomes when stored in it.  *)
AsShort(d) == ((d + ShortMax + 1) % (2 * ShortMax + 2)) - ShortMax - 1

(* What the mhc word says about the lock and the hash code of an object.   *)
Owner(o) ==
  CASE mhc[o].tag = "UNLOCKED" -> NIL
    [] mhc[o].tag \in {"SIMPLE_LOCK", "EXTENDED_LOCK"} -> mhc[o].thread
    [] mhc[o].tag = "MONITOR" -> monitor[mhc[o].monitor].owner

Depth(o) ==
  CASE mhc[o].tag = "UNLOCKED" -> 0
    [] mhc[o].tag = "SIMPLE_LOCK" -> 1
    [] mhc[o].tag = "EXTENDED_LOCK" -> thread[mhc[o].thread].lockDepth
    [] mhc[o].tag = "MONITOR" -> monitor[mhc[o].monitor].depth

StoredHash(o) ==
  CASE mhc[o].tag = "UNLOCKED" -> mhc[o].hashCode
    [] mhc[o].tag = "SIMPLE_LOCK" -> 0
    [] mhc[o].tag = "EXTENDED_LOCK" -> thread[mhc[o].thread].lockHash
    [] mhc[o].tag = "MONITOR" -> monitor[mhc[o].monitor].hashCode

inTimerQueue(t) == thread[t].wakeupCall # NIL
IsAlive(t) == thread[t].state \cap {"ACTIVE", "SUSPENDED"} # {}

-----------------------------------------------------------------------------
(* Timer queue                                                             *)

(* Fault: the queue is not kept sorted.                                    *)
registerAlarm_Unsorted(t, delta) ==
  IF Contains(TimerQueue, t) \/ delta = 0 THEN TimerQueue ELSE Append(TimerQueue, t)

(* registerAlarm: before the first thread that wakes no earlier.  A thread *)
(* has one alarm; a delta of 0 asks for none (wait() without a timeout).   *)
registerAlarm(t, delta) ==
  LET later == {i \in 1..Len(TimerQueue) : thread[TimerQueue[i]].wakeup >= delta}
  IN IF Contains(TimerQueue, t) \/ delta = 0 THEN TimerQueue
     ELSE IF later = {} THEN Append(TimerQueue, t)
     ELSE InsertAt(TimerQueue, Min(later), t)

(* The alarm fields registerAlarm leaves in the thread.                    *)
WithAlarm(thr, t, delta, call) ==
  IF Contains(TimerQueue, t) \/ delta = 0 THEN thr
  ELSE [thr EXCEPT ![t].wakeup = delta, ![t].wakeupCall = call]

(* removePendingAlarm for the threads ts; it does nothing for the others.  *)
removePendingAlarms(ts) == removeThreads(TimerQueue, ts)

(* Fault: the callback, which tells who is on the queue, is not cleared.   *)
WithoutAlarm_KeepsCall(thr, ts) ==
  [t \in Threads |-> IF t \in ts THEN [thr[t] EXCEPT !.wakeup = 0] ELSE thr[t]]

WithoutAlarm(thr, ts) ==
  [t \in Threads |->
    IF t \in ts THEN [thr[t] EXCEPT !.wakeup = 0, !.wakeupCall = NIL] ELSE thr[t]]

-----------------------------------------------------------------------------
(* Scheduling primitives.  thr is the thread table as the caller left it.  *)

(* Fault: the thread is not flagged.                                       *)
Suspended_Unflagged(thr, t) == thr

(* suspendThread, of CurrentThread: it also ends the time slice.           *)
Suspended(thr, t) == [thr EXCEPT ![t].state = @ \cup {"SUSPENDED"}]
GiveUpProcessor == CurrentThread' = NIL /\ phase' = "timers"

(* Fault: what the thread was waiting for is not cleared.                  *)
resumeThread_KeepsFlags(t, thr) ==
  /\ fatal' = (fatal \/ "SUSPENDED" \notin thr[t].state \/ t = CurrentThread)
  /\ thread' = [thr EXCEPT ![t].state = (@ \ {"SUSPENDED"}) \cup {"ACTIVE"}]
  /\ RunnableThreads' = addThreadToQueue(RunnableThreads, t)

resumeThread(t, thr) ==
  /\ fatal' = (fatal \/ "SUSPENDED" \notin thr[t].state \/ t = CurrentThread)
  /\ thread' = [thr EXCEPT ![t].state = {"ACTIVE"}]
  /\ RunnableThreads' = addThreadToQueue(RunnableThreads, t)

(* Hands monitor m, now mon, to the first thread of its queue, or frees it.*)
removeMonitorWait(m, mon, thr) ==
  IF mon.monitor_waitq = <<>>
  THEN /\ monitor' = [monitor EXCEPT ![m] = [mon EXCEPT !.owner = NIL, !.depth = 0]]
       /\ thread' = thr
       /\ UNCHANGED <<RunnableThreads, fatal>>
  ELSE LET waiter == Head(mon.monitor_waitq) IN
       /\ monitor' = [monitor EXCEPT ![m] =
            [mon EXCEPT !.owner = waiter, !.depth = thr[waiter].monitor_depth,
                        !.monitor_waitq = removeQueueStart(@)]]
       /\ resumeThread(waiter, [thr EXCEPT ![waiter].monitor = NIL,
                                           ![waiter].monitor_depth = 0])

(* A thread has to get the monitor m, now mon: at once if nobody owns it.  *)
addMonitorWait(m, mon, t, thr) ==
  LET queued  == [mon EXCEPT !.monitor_waitq = addThreadToQueue(@, t)]
      waiting == [thr EXCEPT ![t].state = @ \cup {"MONITOR_WAIT"}, ![t].monitor = m]
  IN IF mon.owner = NIL
     THEN removeMonitorWait(m, queued, waiting)
     ELSE /\ monitor' = [monitor EXCEPT ![m] = queued]
          /\ thread' = waiting
          /\ UNCHANGED <<RunnableThreads, fatal>>

(* Fault: notifyAll wakes one thread.                                      *)
WaitersToWake_One(m, notifyAll) == IF monitor[m].condvar_waitq = <<>> THEN 0 ELSE 1

(* How often the loop of removeCondvarWait runs.                           *)
WaitersToWake(m, notifyAll) ==
  LET waiters == Len(monitor[m].condvar_waitq)
  IN IF notifyAll \/ waiters = 0 THEN waiters ELSE 1

(* removeCondvarWait: the first n waiters lose their alarm and queue for   *)
(* the monitor in their order; if it has no owner the first one gets it.   *)
removeCondvarWait(m, n, thr) ==
  LET mon   == monitor[m]
      woken == SubSeq(mon.condvar_waitq, 1, n)
      left  == [mon EXCEPT !.condvar_waitq = SubSeq(@, n + 1, Len(@)),
                           !.monitor_waitq = @ \o woken]
      calm  == WithoutAlarm(thr, ToSet(woken))
      waiting == [t \in Threads |->
        IF Contains(woken, t)
        THEN [calm[t] EXCEPT !.state = @ \cup {"MONITOR_WAIT"}, !.monitor = m]
        ELSE calm[t]]
  IN /\ TimerQueue' = removePendingAlarms(ToSet(woken))
     /\ IF mon.owner = NIL /\ n > 0
        THEN removeMonitorWait(m, left, waiting)
        ELSE /\ monitor' = [monitor EXCEPT ![m] = left]
             /\ thread' = waiting
             /\ UNCHANGED <<RunnableThreads, fatal>>

-----------------------------------------------------------------------------
(* Inflating a lock: upgradeToRealMonitor(o) attaches monitor m.           *)

Attached == {mhc[o].monitor : o \in {p \in Objects : mhc[p].tag = "MONITOR"}}
InHeap   == Attached \cup ToSet(MonitorCache) \cup {thread[t].monitor : t \in Threads}

(* The monitor it returns: the one o has, a cached one, or a new one.      *)
ChosenMonitor(o, m) ==
  IF mhc[o].tag = "MONITOR" THEN m = mhc[o].monitor
  ELSE IF MonitorCache # <<>> THEN m = Head(MonitorCache)
  ELSE m \notin InHeap

(* Fault: the hash code kept in an extended lock is not carried over.      *)
Inflated_LosesHash(o, m) ==
  IF mhc[o].tag = "MONITOR" THEN monitor[m]
  ELSE [EmptyMonitor EXCEPT !.owner = Owner(o), !.depth = Depth(o),
          !.hashCode = IF mhc[o].tag = "UNLOCKED" THEN StoredHash(o) ELSE 0]

(* Its fields: the lock and the hash code are carried over; a cached one   *)
(* comes with its queues, which "we know" are empty.                       *)
Inflated(o, m) ==
  IF mhc[o].tag = "MONITOR" THEN monitor[m]
  ELSE [(IF MonitorCache = <<>> THEN EmptyMonitor ELSE monitor[m])
          EXCEPT !.owner = Owner(o), !.depth = Depth(o), !.hashCode = StoredHash(o)]

(* Fault: the extended lock stays taken.                                   *)
AfterUpgrade_KeepsFastLock(o) == thread

(* The extended lock is not in use any more.                               *)
AfterUpgrade(o) ==
  IF mhc[o].tag = "EXTENDED_LOCK" THEN [thread EXCEPT ![mhc[o].thread].lockDepth = 0]
  ELSE thread

Attach(o, m) ==
  /\ ChosenMonitor(o, m)
  /\ mhc' = [mhc EXCEPT ![o] = Real(m)]
  /\ MonitorCache' = IF mhc[o].tag = "MONITOR" THEN MonitorCache
                     ELSE removeQueueStart(MonitorCache)

IsExtendedLockFree(t) == thread[t].lockDepth = 0

(* allocateFastLock, of a thread whose extended lock is free.              *)
allocateFastLock(t, o, d, h) ==
  /\ IsExtendedLockFree(t)
  /\ thread' = [thread EXCEPT ![t].lockDepth = d, ![t].lockHash = h]
  /\ mhc' = [mhc EXCEPT ![o] = Extended(t)]

-----------------------------------------------------------------------------
(* Bytecodes and natives of the running thread t                           *)

Running(t) == phase = "run" /\ CurrentThread = t /\ ~fatal

(* monitorEnter without a real monitor.                                    *)
HasFastPath(t, o) ==
  \/ mhc[o].tag = "UNLOCKED" /\ (mhc[o].hashCode = 0 \/ IsExtendedLockFree(t))
  \/ mhc[o] = Simple(t) /\ IsExtendedLockFree(t)
  \/ mhc[o] = Extended(t)

MonitorEnterFast(t, o) ==
  /\ Running(t) /\ HasFastPath(t, o) /\ Depth(o) < MaxDepth
  /\ \/ mhc[o] = Unlocked(0) /\ mhc' = [mhc EXCEPT ![o] = Simple(t)] /\ UNCHANGED thread
     \/ /\ mhc[o].tag = "UNLOCKED" /\ mhc[o] # Unlocked(0)
        /\ allocateFastLock(t, o, 1, StoredHash(o))
     \/ mhc[o] = Simple(t) /\ allocateFastLock(t, o, 2, 0)
     \/ /\ mhc[o] = Extended(t)
        /\ thread' = [thread EXCEPT ![t].lockDepth = @ + 1]
        /\ UNCHANGED mhc
  /\ UNCHANGED <<CurrentThread, RunnableThreads, TimerQueue, phase, fatal,
                 lifeVars, monitor, MonitorCache, hashVars>>

(* monitorEnter of a real monitor: take it, nest it, or queue for it.      *)
MonitorEnterSlow(t, o) ==
  /\ Running(t) /\ ~HasFastPath(t, o)
  /\ Owner(o) = t => Depth(o) < MaxDepth
  /\ \E m \in Monitors :
       /\ Attach(o, m)
       /\ IF Owner(o) \in {NIL, t}
          THEN /\ monitor' = [monitor EXCEPT ![m] =
                    [Inflated(o, m) EXCEPT !.owner = t,
                                           !.depth = IF Owner(o) = NIL THEN 1 ELSE @ + 1]]
               /\ thread' = AfterUpgrade(o)
               /\ UNCHANGED <<CurrentThread, RunnableThreads, phase, fatal>>
          ELSE /\ addMonitorWait(m, Inflated(o, m), t,
                    [Suspended(AfterUpgrade(o), t) EXCEPT ![t].monitor_depth = 1])
               /\ GiveUpProcessor
  /\ UNCHANGED <<TimerQueue, lifeVars, hashVars>>

(* Fault: off by one.                                                      *)
DepthAfterExit_Twice(t) == thread[t].lockDepth - 2

DepthAfterExit(t) == thread[t].lockDepth - 1

MonitorExitFast(t, o) ==
  /\ Running(t) /\ mhc[o] \in {Simple(t), Extended(t)}
  /\ IF mhc[o] = Simple(t)
     THEN mhc' = [mhc EXCEPT ![o] = Unlocked(0)] /\ UNCHANGED thread
     ELSE LET d == DepthAfterExit(t)
              h == thread[t].lockHash
              simplify == d = 1 /\ h = 0
          IN /\ thread' = [thread EXCEPT ![t].lockDepth = IF simplify THEN 0 ELSE d]
             /\ mhc' = IF d = 0 THEN [mhc EXCEPT ![o] = Unlocked(h)]
                       ELSE IF simplify THEN [mhc EXCEPT ![o] = Simple(t)]
                       ELSE mhc
  /\ UNCHANGED <<CurrentThread, RunnableThreads, TimerQueue, phase, fatal,
                 lifeVars, monitor, MonitorCache, hashVars>>

(* Fault: the threads in wait() are forgotten.                             *)
IsDead_IgnoresWaiters(mon) == mon.monitor_waitq = <<>>

(* A real monitor nobody needs any more.                                   *)
IsDead(mon) == mon.monitor_waitq = <<>> /\ mon.condvar_waitq = <<>>

MonitorExitSlow(t, o) ==
  /\ Running(t) /\ mhc[o].tag = "MONITOR" /\ Owner(o) = t
  /\ LET m == mhc[o].monitor
         mon == [monitor[m] EXCEPT !.depth = @ - 1]
     IN \/ /\ mon.depth # 0
           /\ monitor' = [monitor EXCEPT ![m] = mon]
           /\ UNCHANGED <<thread, RunnableThreads, fatal, mhc, MonitorCache>>
        \/ /\ mon.depth = 0 /\ ~IsDead(mon)
           /\ removeMonitorWait(m, mon, thread)
           /\ UNCHANGED <<mhc, MonitorCache>>
        \/ /\ mon.depth = 0 /\ IsDead(mon)
           /\ mhc' = [mhc EXCEPT ![o] = Unlocked(mon.hashCode)]
           /\ MonitorCache' = <<m>> \o MonitorCache
           /\ monitor' = [monitor EXCEPT ![m] = [mon EXCEPT !.owner = NIL]]
           /\ UNCHANGED <<thread, RunnableThreads, fatal>>
  /\ UNCHANGED <<CurrentThread, TimerQueue, phase, lifeVars, hashVars>>

(* Object.wait.  The real monitor is attached before anything is checked;  *)
(* an exception (not the owner, interrupted) leaves it attached.           *)
MonitorWait(t, o, delta) ==
  LET mon(m) == [Inflated(o, m) EXCEPT !.condvar_waitq = addThreadToQueue(@, t)]
      waiting == [WithAlarm(Suspended(AfterUpgrade(o), t), t, delta, "monitorWaitAlarm")
                    EXCEPT ![t].state = @ \cup {"CONVAR_WAIT"},
                           ![t].monitor_depth = AsShort(Depth(o))]
  IN /\ Running(t)
     /\ \E m \in Monitors :
          /\ Attach(o, m)
          /\ \/ /\ Owner(o) # t
                /\ monitor' = [monitor EXCEPT ![m] = Inflated(o, m)]
                /\ thread' = AfterUpgrade(o)
                /\ UNCHANGED <<CurrentThread, RunnableThreads, TimerQueue, phase, fatal>>
             \/ /\ Owner(o) = t /\ thread[t].isPendingInterrupt
                /\ monitor' = [monitor EXCEPT ![m] = Inflated(o, m)]
                /\ thread' = [AfterUpgrade(o) EXCEPT ![t].isPendingInterrupt = FALSE]
                /\ UNCHANGED <<CurrentThread, RunnableThreads, TimerQueue, phase, fatal>>
             \/ /\ Owner(o) = t /\ ~thread[t].isPendingInterrupt
                /\ removeMonitorWait(m, mon(m), [waiting EXCEPT ![t].monitor = m])
                /\ TimerQueue' = registerAlarm(t, delta)
                /\ GiveUpProcessor
     /\ UNCHANGED <<lifeVars, hashVars>>

(* Object.notify and notifyAll by the owner (others get an exception) of a *)
(* monitor somebody waits on (otherwise nothing changes).                  *)
MonitorNotify(t, o, notifyAll) ==
  /\ Running(t) /\ mhc[o].tag = "MONITOR" /\ Owner(o) = t
  /\ LET m == mhc[o].monitor
     IN WaitersToWake(m, notifyAll) > 0
        /\ removeCondvarWait(m, WaitersToWake(m, notifyAll), thread)
  /\ UNCHANGED <<CurrentThread, phase, lifeVars, mhc, MonitorCache, hashVars>>

(* Object.hashCode.  An object without a code gets one; a simple lock is   *)
(* made extended, or real, to hold it.  The code of an object with a real  *)
(* monitor is computed from the mhc word, that is from the monitor.        *)
NewHash(o, h) ==
  /\ lastHash' = h
  /\ hashReturned' = [hashReturned EXCEPT ![o] = @ \cup {h}]

HashCode(t, o) ==
  LET h == lastHash + 1
      u == mhc[o].thread
  IN /\ Running(t) /\ o \in HashObjects
     /\ \/ /\ mhc[o].tag = "MONITOR" /\ HashOnMonitor
           /\ hashReturned' = [hashReturned EXCEPT ![o] = @ \cup {mhc[o].monitor}]
           /\ UNCHANGED <<lockVars, thread, lastHash>>
        \/ /\ mhc[o].tag # "MONITOR" /\ StoredHash(o) # 0
           /\ hashReturned' = [hashReturned EXCEPT ![o] = @ \cup {StoredHash(o)}]
           /\ UNCHANGED <<lockVars, thread, lastHash>>
        \/ /\ mhc[o] = Unlocked(0) /\ h <= MaxHash
           /\ mhc' = [mhc EXCEPT ![o] = Unlocked(h)]
           /\ NewHash(o, h)
           /\ UNCHANGED <<monitor, MonitorCache, thread>>
        \/ /\ mhc[o].tag = "EXTENDED_LOCK" /\ StoredHash(o) = 0 /\ h <= MaxHash
           /\ thread' = [thread EXCEPT ![u].lockHash = h]
           /\ NewHash(o, h)
           /\ UNCHANGED lockVars
        \/ /\ mhc[o].tag = "SIMPLE_LOCK" /\ IsExtendedLockFree(u) /\ h <= MaxHash
           /\ allocateFastLock(u, o, 1, h)
           /\ NewHash(o, h)
           /\ UNCHANGED <<monitor, MonitorCache>>
        \/ /\ mhc[o].tag = "SIMPLE_LOCK" /\ ~IsExtendedLockFree(u) /\ h <= MaxHash
           /\ \E m \in Monitors :
                /\ Attach(o, m)
                /\ monitor' = [monitor EXCEPT ![m] = [Inflated(o, m) EXCEPT !.hashCode = h]]
           /\ NewHash(o, h)
           /\ UNCHANGED thread
  /\ UNCHANGED <<CurrentThread, RunnableThreads, TimerQueue, phase, fatal, lifeVars>>

(* Thread.sleep of a positive period.                                      *)
Sleep(t, period) ==
  /\ Running(t)
  /\ IF thread[t].isPendingInterrupt
     THEN /\ thread' = [thread EXCEPT ![t].isPendingInterrupt = FALSE]
          /\ UNCHANGED <<CurrentThread, phase, TimerQueue>>
     ELSE /\ thread' = WithAlarm(Suspended(thread, t), t, period, "resumeThread")
          /\ TimerQueue' = registerAlarm(t, period)
          /\ GiveUpProcessor
  /\ UNCHANGED <<RunnableThreads, fatal, lifeVars, lockVars, hashVars>>

(* Thread.yield, or the end of the time slice.                             *)
Yield(t) ==
  /\ Running(t)
  /\ phase' = "timers"
  /\ UNCHANGED <<CurrentThread, RunnableThreads, TimerQueue, thread, fatal,
                 lifeVars, lockVars, hashVars>>

(* getVMthread: what a native that names a thread finds, building it first.*)
Built(u) == IF thread[u].state = {} THEN [thread EXCEPT ![u].state = {"JUST_BORN"}]
            ELSE thread

AllThreadsWith(u) == IF thread[u].state = {} THEN <<u>> \o AllThreads ELSE AllThreads

(* Thread.start (of a thread started before: an exception).                *)
StartThread(t, u) ==
  /\ Running(t) /\ Built(u)[u].state = {"JUST_BORN"}
  /\ AllThreads' = AllThreadsWith(u)
  /\ AliveThreadCount' = AliveThreadCount + 1
  /\ resumeThread(u, [Built(u) EXCEPT ![u].state = {"SUSPENDED"}])
  /\ UNCHANGED <<CurrentThread, TimerQueue, phase, lockVars, hashVars>>

(* Thread.setPriority, of which only the building of the thread matters.   *)
SetPriority(t, u) ==
  /\ Running(t) /\ thread[u].state = {}
  /\ thread' = Built(u) /\ AllThreads' = AllThreadsWith(u)
  /\ UNCHANGED <<CurrentThread, RunnableThreads, TimerQueue, phase, fatal,
                 AliveThreadCount, lockVars, hashVars>>

(* A thread whose wait() ended but that still lacks the monitor: it keeps  *)
(* the flag CONVAR_WAIT.                                                   *)
LeftCondvar(u) ==
  /\ "CONVAR_WAIT" \in thread[u].state
  /\ ~Contains(monitor[thread[u].monitor].condvar_waitq, u)

(* Thread.interrupt: interruptThread(u).                                   *)
Interrupt(t, u) ==
  LET sleeping == inTimerQueue(u)
      waiting  == "CONVAR_WAIT" \in thread[u].state
      calm     == IF sleeping THEN WithoutAlarm(thread, {u}) ELSE thread
      thrown   == [calm EXCEPT ![u].pendingException = TRUE]
      m        == thread[u].monitor
  IN /\ Running(t) /\ u \in Interruptible
     /\ thread[u].state \notin {{}, {"JUST_BORN"}, {"DEAD"}}
     /\ ReInterrupt \/ ~LeftCondvar(u)
     /\ TimerQueue' = IF sleeping THEN removePendingAlarms({u}) ELSE TimerQueue
     /\ \/ /\ waiting
           /\ addMonitorWait(m, [monitor[m] EXCEPT !.condvar_waitq = removeFromQueue(@, u)],
                             u, thrown)
        \/ /\ sleeping /\ ~waiting
           /\ resumeThread(u, thrown)
           /\ UNCHANGED monitor
        \/ /\ ~sleeping /\ ~waiting
           /\ thread' = [thread EXCEPT ![u].isPendingInterrupt = TRUE]
           /\ UNCHANGED <<RunnableThreads, fatal, monitor>>
     /\ UNCHANGED <<CurrentThread, phase, lifeVars, MonitorCache, mhc, hashVars>>

(* The outermost method of t returns, or an exception leaves it: stopThread*)
(* (balanced bytecode: a method gives back the monitors it entered).  That *)
(* DismantleThread finds no alarm to remove is TimerQueueConsistent.       *)
StopThread(t) ==
  LET o    == JavaThread[t]
      dead == [thread EXCEPT ![t].state = {"DEAD"}]
      join == o # NIL /\ mhc[o].tag = "MONITOR"
  IN /\ Running(t) /\ \A p \in Objects : Owner(p) # t
     /\ GiveUpProcessor
     /\ AliveThreadCount' = AliveThreadCount - 1
     /\ AllThreads' = removeFromQueue(AllThreads, t)
     /\ IF join
        THEN removeCondvarWait(mhc[o].monitor, WaitersToWake(mhc[o].monitor, TRUE), dead)
        ELSE thread' = dead /\ UNCHANGED <<TimerQueue, RunnableThreads, monitor, fatal>>
     /\ UNCHANGED <<MonitorCache, mhc, hashVars>>

(* A garbage collection drops the cached monitors.                         *)
GarbageCollect ==
  /\ phase = "run" /\ CurrentThread # NIL /\ ~fatal /\ MonitorCache # <<>>
  /\ MonitorCache' = <<>>
  /\ UNCHANGED <<schedVars, lifeVars, monitor, mhc, hashVars>>

-----------------------------------------------------------------------------
(* reschedule(): timers, events (module KVMEvents), SwitchThread           *)

(* checkTimerQueue goes on as long as the first alarm is due.              *)
AlarmDue == IF TimerQueue = <<>> THEN FALSE ELSE thread[Head(TimerQueue)].wakeup = 0

(* One round of its loop.                                                  *)
FireAlarm ==
  /\ phase = "timers" /\ ~fatal /\ AliveThreadCount > 0
  /\ AlarmDue
  /\ LET t == Head(TimerQueue)
         m == thread[t].monitor
         calm == WithoutAlarm(thread, {t})
     IN \/ /\ thread[t].wakeupCall = "resumeThread"
           /\ resumeThread(t, calm)
           /\ UNCHANGED monitor
        \/ /\ thread[t].wakeupCall = "monitorWaitAlarm"
           /\ CASE m = NIL -> thread' = calm /\ UNCHANGED <<RunnableThreads, monitor, fatal>>
                [] m # NIL /\ Contains(monitor[m].condvar_waitq, t) ->
                     addMonitorWait(m,
                       [monitor[m] EXCEPT !.condvar_waitq = removeFromQueue(@, t)], t, calm)
                [] OTHER -> fatal' = TRUE /\ thread' = calm
                            /\ UNCHANGED <<RunnableThreads, monitor>>
  /\ TimerQueue' = removeQueueStart(TimerQueue)
  /\ UNCHANGED <<CurrentThread, phase, lifeVars, MonitorCache, mhc, hashVars>>

TimersDone ==
  /\ phase = "timers" /\ ~fatal /\ AliveThreadCount > 0
  /\ ~AlarmDue
  /\ phase' = "switch"
  /\ UNCHANGED <<CurrentThread, RunnableThreads, TimerQueue, thread, fatal,
                 lifeVars, lockVars, hashVars>>

(* Gives the processor to t, throwing the exception it slept or waited for.*)
Dispatch(t) ==
  /\ CurrentThread' = t
  /\ thread' = [thread EXCEPT ![t].pendingException = FALSE]
  /\ phase' = "run"

(* Fault: the preempted thread goes to the front of the run queue.         *)
RunQueueAfterSwitch_AtStart ==
  IF CurrentThread = NIL THEN removeQueueStart(RunnableThreads)
  ELSE addThreadToQueueStart(removeQueueStart(RunnableThreads), CurrentThread)

RunQueueAfterSwitch ==
  IF CurrentThread = NIL THEN removeQueueStart(RunnableThreads)
  ELSE addThreadToQueue(removeQueueStart(RunnableThreads), CurrentThread)

SwitchThread ==
  /\ phase = "switch" /\ ~fatal
  /\ fatal' = (CurrentThread # NIL /\ \/ thread[CurrentThread].pendingException
                                      \/ thread[CurrentThread].state # {"ACTIVE"})
  /\ IF RunnableThreads = <<>>
     THEN /\ phase' = IF CurrentThread = NIL THEN "timers" ELSE "run"
          /\ UNCHANGED <<CurrentThread, RunnableThreads, thread>>
     ELSE /\ Dispatch(Head(RunnableThreads))
          /\ RunnableThreads' = RunQueueAfterSwitch
  /\ UNCHANGED <<TimerQueue, lifeVars, lockVars, hashVars>>

(* The last thread is dead: the interpreter returns.                       *)
Exit ==
  /\ phase = "timers" /\ ~fatal /\ AliveThreadCount = 0
  /\ phase' = "exit"
  /\ UNCHANGED <<CurrentThread, RunnableThreads, TimerQueue, thread, fatal,
                 lifeVars, lockVars, hashVars>>

(* The clock.  It is read by checkTimerQueue and by registerAlarm, and     *)
(* between an alarm being set and the next check there is always a         *)
(* reschedule, so letting it advance before SwitchThread loses nothing.    *)
Tick ==
  /\ phase = "switch" /\ ~fatal
  /\ \E t \in Threads : thread[t].wakeup > 0
  /\ thread' = [t \in Threads |->
                 [thread[t] EXCEPT !.wakeup = IF @ > 0 THEN @ - 1 ELSE 0]]
  /\ UNCHANGED <<CurrentThread, RunnableThreads, TimerQueue, phase, fatal,
                 lifeVars, lockVars, hashVars>>

(* The program ended, or fatalError ended the VM.                          *)
Terminated == (phase = "exit" \/ fatal) /\ UNCHANGED vars

-----------------------------------------------------------------------------
(* InitializeThreading                                                     *)
Init ==
  /\ CurrentThread = MainThread
  /\ RunnableThreads = <<>>
  /\ AllThreads = <<MainThread>>
  /\ AliveThreadCount = 1
  /\ TimerQueue = <<>>
  /\ thread = [t \in Threads |->
                IF t = MainThread THEN [Unbuilt EXCEPT !.state = {"ACTIVE"}] ELSE Unbuilt]
  /\ monitor = [m \in Monitors |-> EmptyMonitor]
  /\ MonitorCache = <<>>
  /\ mhc = [o \in Objects |-> Unlocked(0)]
  /\ lastHash = 0
  /\ phase = "run"
  /\ fatal = FALSE
  /\ hashReturned = [o \in Objects |-> {}]

ObjectStep(t, o) ==
  \/ MonitorEnterFast(t, o)
  \/ MonitorEnterSlow(t, o)
  \/ MonitorExitFast(t, o)
  \/ MonitorExitSlow(t, o)
  \/ \E delta \in WaitTimes : MonitorWait(t, o, delta)
  \/ \E notifyAll \in BOOLEAN : MonitorNotify(t, o, notifyAll)
  \/ HashCode(t, o)

ThreadStep(t) ==
  \/ \E o \in Objects : ObjectStep(t, o)
  \/ \E period \in SleepTimes : Sleep(t, period)
  \/ Yield(t)
  \/ \E u \in Threads : StartThread(t, u) \/ SetPriority(t, u) \/ Interrupt(t, u)
  \/ StopThread(t)

Reschedule == FireAlarm \/ TimersDone \/ SwitchThread \/ Exit

Next == (\E t \in Threads : ThreadStep(t)) \/ GarbageCollect \/ Reschedule \/ Tick \/ Terminated

Spec == Init /\ [][Next]_vars

-----------------------------------------------------------------------------
(* Properties                                                              *)

(* Every variable holds what its C declaration allows.                     *)
TypeOK ==
  /\ CurrentThread \in Threads \cup {NIL}
  /\ RunnableThreads \in Seq(Threads) /\ AllThreads \in Seq(Threads)
  /\ TimerQueue \in Seq(Threads)
  /\ AliveThreadCount \in Int
  /\ thread \in [Threads -> ThreadStruct]
  /\ monitor \in [Monitors -> MonitorStruct]
  /\ MonitorCache \in Seq(Monitors)
  /\ mhc \in [Objects -> MHC]
  /\ lastHash \in Nat /\ hashReturned \in [Objects -> SUBSET (Nat \cup Monitors)]
  /\ phase \in {"run", "timers", "switch", "exit"} /\ fatal \in BOOLEAN

Occurrences(q, t) == Cardinality({i \in 1..Len(q) : q[i] = t})
MonitorsQueuing(t) == {m \in Monitors : Contains(monitor[m].monitor_waitq, t)}
MonitorsWaitedOn(t) == {m \in Monitors : Contains(monitor[m].condvar_waitq, t)}
IsSleeping(t) == thread[t].wakeupCall = "resumeThread" /\ Contains(TimerQueue, t)

(* No thread is lost or scheduled twice: every live thread is in exactly   *)
(* one of the places it can be - on the processor, in the run queue, in    *)
(* the queue of one monitor, in the condvar queue of one monitor, asleep - *)
(* and once; a thread that is not alive is in none (addThreadToQueue and   *)
(* its callers, "please do not suspend the same thread twice").            *)
NoLostThread ==
  \A t \in Threads :
    LET places == (IF CurrentThread = t THEN 1 ELSE 0)
                    + Occurrences(RunnableThreads, t)
                    + Cardinality(MonitorsQueuing(t))
                    + Cardinality(MonitorsWaitedOn(t))
                    + (IF IsSleeping(t) THEN 1 ELSE 0)
    IN places = IF IsAlive(t) THEN 1 ELSE 0

(* None of the VM's own consistency checks fails: resumeThread is called   *)
(* on suspended threads only, monitorWaitAlarm finds its thread waiting,   *)
(* SwitchThread finds an active thread without a pending exception.        *)
NoFatalError == ~fatal

(* A free monitor is never kept from threads that queue for it (the        *)
(* hand-off of removeMonitorWait leaves no one behind), and the owner of a *)
(* monitor has entered it at least once.                                   *)
FreeMonitorHasNoQueue ==
  \A m \in Monitors :
    /\ monitor[m].owner = NIL => monitor[m].monitor_waitq = <<>>
    /\ (monitor[m].owner = NIL) <=> (monitor[m].depth < 1)

(* The extended lock of a thread stands for one object at most, and is     *)
(* taken exactly while an object uses it (allocateFastLock, monitorExit,   *)
(* upgradeToRealMonitor): two objects sharing it would share depth and     *)
(* hash code.                                                              *)
ExtendedLockUnique ==
  /\ \A o, p \in Objects :
       mhc[o].tag = "EXTENDED_LOCK" /\ mhc[p] = mhc[o] => o = p
  /\ \A t \in Threads :
       ~IsExtendedLockFree(t) <=> \E o \in Objects : mhc[o] = Extended(t)

(* A thread in wait() names the monitor it waits on: what the code that    *)
(* wakes it (interruptThread, monitorWaitAlarm) dereferences.              *)
WaiterHasMonitor ==
  \A t \in Threads : "CONVAR_WAIT" \in thread[t].state => thread[t].monitor \in Monitors

(* Inductive with TypeOK: an extended lock that is given back was taken,   *)
(* so its depth stays a natural number.                                    *)
LockInv == TypeOK /\ ExtendedLockUnique /\ WaiterHasMonitor

(* A real monitor serves one object, and one that is cached for reuse, or  *)
(* was dropped by the collector, has no owner and nobody in its queues: of *)
(* its previous life only the hash code is left.                           *)
MonitorUnique ==
  /\ \A o, p \in Objects : mhc[o].tag = "MONITOR" /\ mhc[p] = mhc[o] => o = p
  /\ ToSet(MonitorCache) \cap Attached = {}
  /\ IsInjective(MonitorCache)
  /\ \A m \in Monitors \ Attached : [monitor[m] EXCEPT !.hashCode = 0] = EmptyMonitor

(* The monitor structures, in use and out of it, are sound.                *)
MonitorsExact == MonitorUnique /\ FreeMonitorHasNoQueue

(* The alarms: the queue is sorted by wakeup time, holds no thread twice,  *)
(* and holds exactly the threads that have a callback; those either sleep  *)
(* or still wait on a condvar (no alarm survives notify or interrupt).     *)
TimerQueueConsistent ==
  /\ \A i, j \in 1..Len(TimerQueue) :
       i < j => /\ TimerQueue[i] # TimerQueue[j]
                /\ thread[TimerQueue[i]].wakeup <= thread[TimerQueue[j]].wakeup
  /\ \A t \in Threads :
       /\ inTimerQueue(t) <=> Contains(TimerQueue, t)
       /\ thread[t].wakeupCall = "resumeThread" => "SUSPENDED" \in thread[t].state
       /\ thread[t].wakeupCall = "monitorWaitAlarm" => MonitorsWaitedOn(t) # {}

(* Whatever wakes a thread up, an alarm or something else, finds it as it  *)
(* must: the queue of the alarms is right, who waits names its monitor,    *)
(* and no check of the VM fails.                                           *)
AlarmsExact == TimerQueueConsistent /\ WaiterHasMonitor /\ NoFatalError

(* AliveThreadCount, which ends the interpreter at 0, counts the threads   *)
(* that are alive; AllThreads, the roots of the collector, holds them all. *)
AliveThreadsCounted ==
  /\ AliveThreadCount = Cardinality({t \in Threads : IsAlive(t)})
  /\ ToSet(AllThreads) = {t \in Threads : thread[t].state \notin {{}, {"DEAD"}}}

(* The threads: where each of them is, and what is known of all of them.   *)
ThreadsExact == NoLostThread /\ AliveThreadsCounted

(* An object has one hash code as long as it lives: it survives every way  *)
(* a lock is taken, nested, inflated and given back (Object.hashCode).     *)
HashStable == \A o \in Objects : Cardinality(hashReturned[o]) <= 1

(* The threads that wait for a thread to end (Thread.join waits on the     *)
(* object of the thread) have all left wait() when it is dead.             *)
StopWakesJoiners ==
  [][\A t \in Threads :
       LET o == JavaThread[t] IN
       /\ IsAlive(t) /\ thread'[t].state = {"DEAD"}
       /\ o # NIL
       /\ mhc[o].tag = "MONITOR"
       => monitor'[mhc[o].monitor].condvar_waitq = <<>>]_vars

(* Whatever the representation of the lock, simple, extended or real, each *)
(* object has a first-come-first-serve Java monitor: JavaMonitor.          *)
Queues(o) == IF mhc[o].tag = "MONITOR" THEN monitor[mhc[o].monitor] ELSE EmptyMonitor

Java == INSTANCE JavaMonitor WITH
  owner   <- [o \in Objects |-> Owner(o)],
  count   <- [o \in Objects |-> Depth(o)],
  entry   <- [o \in Objects |-> Queues(o).monitor_waitq],
  waitset <- [o \in Objects |-> Queues(o).condvar_waitq],
  saved   <- [t \in Threads |-> thread[t].monitor_depth]

ImplementsJavaMonitor == Java!Spec

(* Fairness: the interpreter goes on with what it is doing; the time slice *)
(* of a thread that does not give up the processor runs out (Timeslice is  *)
(* decremented at every branch and return); the clock advances.            *)
Fairness ==
  /\ WF_vars(Reschedule)
  /\ \A t \in Threads : WF_vars(Yield(t))
  /\ SF_vars(Tick)

FairSpec == Spec /\ Fairness

(* Round robin starves nobody: a thread in the run queue gets to run.      *)
RunnableRuns ==
  \A t \in Threads : Contains(RunnableThreads, t) ~> (CurrentThread = t)

(* Every alarm goes off, is cancelled by what it waited for, or the        *)
(* program ends: nobody oversleeps for ever behind earlier alarms.         *)
AlarmGoesOff ==
  \A t \in Threads : inTimerQueue(t) ~> ~inTimerQueue(t)

(* No thread waits for ever for the processor or for its alarm, however    *)
(* the others are preempted, yield, sleep and wait.                        *)
NobodyOversleeps == RunnableRuns /\ AlarmGoesOff

(* An assumption on programs, not on the VM: a thread that gets to run     *)
(* over and over again is over and over again without the monitor.         *)
ProgramsUnlock ==
  \A t \in Threads : \A o \in Objects :
    []<>(CurrentThread = t) => []<>(Owner(o) # t)

(* The hand-off is free of starvation: with programs that give back what   *)
(* they lock, nested or not, every thread that queues for a monitor        *)
(* becomes its owner.                                                      *)
QueuedThreadGetsMonitor ==
  ProgramsUnlock =>
    \A t \in Threads : \A m \in Monitors :
      Contains(monitor[m].monitor_waitq, t) ~> (monitor[m].owner = t)
=============================================================================
