----------------------------- MODULE KVMEvents -----------------------------
(***************************************************************************)
(* The event queue (events.c), the rescheduling loop that drives it        *)
(* (reschedule(), events.h) and the Java debugger's suspension of threads  *)
(* (thread.c, debugger.c), which meet in resumeThread: a thread that waits *)
(* for an event may be suspended by the debugger at the same time.         *)
(*                                                                         *)
(* A cell of an event is <<k, i>>: the i-th cell of the k-th native event; *)
(* cell 0 is the type, the others are its arguments.                       *)
(***************************************************************************)
EXTENDS ThreadQueue, FiniteSets

CONSTANTS
  Threads,          \* the Java threads
  NIL,
  AllThreads,       \* all of them in the order of the list AllThreads
  MAXPARMLENGTH,    \* size of eventBuffer
  ArgCounts,        \* how many arguments a native event may have
  MaxEvents,        \* bound: native events
  MaxCommands,      \* bound: suspend commands and debugger events
  Exclusive,        \* do programs read an event one thread at a time?
  CarefulDebugger   \* are only suspended threads resumed?

ASSUME EventAssumption ==
  /\ MAXPARMLENGTH \in Nat \ {0} /\ MaxEvents \in Nat /\ MaxCommands \in Nat
  /\ ArgCounts \subseteq 0..(MAXPARMLENGTH - 1)
  /\ Threads # {} /\ NIL \notin Threads /\ NIL \notin Nat \X Nat \X Nat
  /\ AllThreads \in Seq(Threads) /\ Range(AllThreads) = Threads /\ IsInjective(AllThreads)
  /\ Exclusive \in BOOLEAN /\ CarefulDebugger \in BOOLEAN

VARIABLES
  vm,         \* where the interpreter is: in bytecodes, or in reschedule()
  sched,      \* the threads, see TypeOK
  queue,      \* eventBuffer, eventInP, eventCount
  waitingThread,
  vmDebugReady, allThreadsSuspended,
  host,       \* native events not yet stored: <<k, argCount>> in order
  arrived, commands,    \* how many native events and commands there were
  result,     \* per thread: the value on top of the stack of its readInt()
  left,       \* per thread: the cells its program still reads of an event
  stored, read          \* history: the cells stored and the cells read

hostVars    == <<host, arrived>>
programVars == <<result, left, read>>
debugVars   == <<vmDebugReady, allThreadsSuspended, commands>>
vars == <<vm, sched, queue, waitingThread, debugVars, hostVars, programVars, stored>>

Zero == <<0, 0, 0>>            \* the 0 on the stack of a thread that waits

Running == ~sched.fatal
Suspended(s, t) == "SUSPENDED" \in s.state[t]
ByDebugger(s, t) == "DBG_SUSPENDED" \in s.state[t]

-----------------------------------------------------------------------------
(* Threads: operators on the record sched                                  *)

Fatal(s) == [s EXCEPT !.fatal = TRUE]

(* storeExecutionEnvironment                                               *)
Save(s, t) == [s EXCEPT !.saved[t] = TRUE]

(* Fault: a thread that runs again while the debugger suspends it.         *)
ResumeThread_IgnoresDebugger(s, t) ==
  IF ~Suspended(s, t) \/ t = s.current THEN Fatal(s)
  ELSE [s EXCEPT !.state[t] = (@ \ {"SUSPENDED"}) \cup {"ACTIVE"},
                 !.run = addThreadToQueue(s.run, t)]

ResumeThread(s, t) ==
  IF ~Suspended(s, t) THEN Fatal(s)
  ELSE IF ByDebugger(s, t) THEN [s EXCEPT !.state[t] = @ \ {"SUSPENDED"}]
  ELSE IF t = s.current THEN Fatal([s EXCEPT !.state[t] = {"ACTIVE"}])
  ELSE [s EXCEPT !.state[t] = {"ACTIVE"}, !.run = addThreadToQueue(s.run, t)]

(* Fault: the registers of the running thread are not stored.              *)
SuspendSpecificThread_Unsaved(s, t) ==
  LET s1 == IF t = s.current THEN [s EXCEPT !.current = NIL]
            ELSE [s EXCEPT !.run = removeFromQueue(s.run, t)]
  IN [s1 EXCEPT !.state[t] = @ \cup {"DBG_SUSPENDED"}, !.debugSuspendCount[t] = @ + 1]

SuspendSpecificThread(s, t) ==
  LET s1 == IF t = s.current
              THEN [IF Suspended(s, t) THEN s ELSE Save(s, t) EXCEPT !.current = NIL]
            ELSE IF Suspended(s, t) THEN s
            ELSE [s EXCEPT !.run = removeFromQueue(s.run, t)]
  IN [s1 EXCEPT !.state[t] = @ \cup {"DBG_SUSPENDED"}, !.debugSuspendCount[t] = @ + 1]

ResumeSpecificThread(s, t) ==
  IF s.debugSuspendCount[t] > 1 THEN [s EXCEPT !.debugSuspendCount[t] = @ - 1]
  ELSE LET s1 == [s EXCEPT !.state[t] = @ \ {"DBG_SUSPENDED"},
                           !.debugSuspendCount[t] = 0]
       IN IF s1.state[t] \cap {"SUSPENDED", "JUST_BORN"} # {} THEN s1
          ELSE ResumeThread([s1 EXCEPT !.state[t] = @ \cup {"SUSPENDED"}], t)

SuspendAllThreads(s) ==
  LET after[n \in 0..Len(AllThreads)] ==
        IF n = 0 THEN s ELSE SuspendSpecificThread(after[n - 1], AllThreads[n])
  IN after[Len(AllThreads)]

(* The loop of VirtualMachine_Resume.                                      *)
ResumeAllThreads(s) ==
  LET after[n \in 0..Len(AllThreads)] ==
        IF n = 0 THEN [s EXCEPT !.current = NIL]
        ELSE ResumeSpecificThread(after[n - 1], AllThreads[n])
  IN after[Len(AllThreads)]

(* handleSuspendPolicy for an event of thread t: the threads afterwards.   *)
HandleSuspendPolicy(s, policy, t) ==
  CASE policy = "NONE"         -> s
    [] policy = "EVENT_THREAD" -> SuspendSpecificThread(s, t)
    [] policy = "ALL"          -> SuspendAllThreads(s)

(* What else changes when an event with this policy is sent; NONE also     *)
(* stands for no event.                                                    *)
EventSent(policy) ==
  /\ policy # "NONE" => vmDebugReady /\ commands < MaxCommands
  /\ commands' = IF policy = "NONE" THEN commands ELSE commands + 1
  /\ allThreadsSuspended' = (allThreadsSuspended \/ policy = "ALL")
  /\ UNCHANGED vmDebugReady

(* suspendThread(), which sends the debugger the event the thread may have *)
(* before it gives up CurrentThread.                                       *)
SuspendThread(s, policy) ==
  LET t  == s.current
      s1 == [Save(s, t) EXCEPT !.state[t] = @ \cup {"SUSPENDED"}]
  IN [HandleSuspendPolicy(s1, policy, t) EXCEPT !.current = NIL]

(* SwitchThread(); its result is whether there is a current thread.        *)
SwitchThread(s) ==
  IF s.current # NIL /\ s.state[s.current] # {"ACTIVE"} THEN Fatal(s)
  ELSE IF s.run = <<>> THEN s
  ELSE LET s1 == IF s.current = NIL THEN s ELSE Save(s, s.current)
           q  == removeQueueStart(s.run)
       IN [s1 EXCEPT !.current = Head(s.run), !.saved[Head(s.run)] = FALSE,
                     !.run = IF s.current = NIL THEN q ELSE addThreadToQueue(q, s.current)]

Policies == {"NONE", "EVENT_THREAD", "ALL"}        \* JDWP_SuspendPolicy_...

AreActiveThreads(s) == s.current # NIL \/ s.run # <<>>

-----------------------------------------------------------------------------
(* Events: operators on the record queue                                   *)

(* The test of StoreKVMEvent for an event that is not dropped.             *)
Fits(q, argCount) ==
  q.eventCount = 0 \/ q.eventInP <= MAXPARMLENGTH - 1 - argCount

(* Where StoreKVMEvent stores the first cell.                              *)
InP(q, argCount) == IF q.eventCount = 0 THEN 0 ELSE q.eventInP

Cells(k, argCount) == [i \in 1..(argCount + 1) |-> <<k, i - 1, argCount>>]

(* StoreKVMEvent(type, argCount, ...) of native event e = <<k, argCount>>. *)
StoreKVMEvent(q, e) ==
  LET n   == e[2]
      inP == InP(q, n)
  IN IF ~Fits(q, n) THEN q
     ELSE [eventBuffer |-> [i \in DOMAIN q.eventBuffer |->
                              IF i \in inP..(inP + n) THEN <<e[1], i - inP, n>>
                              ELSE q.eventBuffer[i]],
           eventInP    |-> inP + n + 1,
           eventCount  |-> q.eventCount + n + 1]

(* History: the cells a sequence of native events adds to those stored.    *)
Accepted(q, es) ==
  LET add(a, e) == [q |-> StoreKVMEvent(a.q, e),
                    cells |-> IF Fits(a.q, e[2]) THEN a.cells \o Cells(e[1], e[2])
                              ELSE a.cells]
      after[n \in 0..Len(es)] ==
        IF n = 0 THEN [q |-> q, cells |-> <<>>] ELSE add(after[n - 1], es[n])
  IN after[Len(es)]

(* GetAndStoreNextKVMEvent, written by a port: it passes some of the       *)
(* native events to StoreKVMEvent, waiting for one if it may forever.      *)
(* Its outcomes: how many events it passes.                                *)
GetAndStoreNextKVMEvent(forever) ==
  IF host # <<>> THEN 1..Len(host) ELSE IF forever THEN {} ELSE {0}

(* Fault: the last cell is given again.                                    *)
NextCell_Last(q) == q.eventBuffer[q.eventInP - 1]

(* eventBuffer[eventInP - eventCount]                                      *)
NextCell(q) == q.eventBuffer[q.eventInP - q.eventCount]

(* getKVMEvent: its outcomes. The cell is NIL when there is none.           *)
GetKVMEvent(forever) ==
  LET outcome(n) ==
        LET a == Accepted(queue, SubSeq(host, 1, n))
            any == a.q.eventCount > 0
        IN [cell |-> IF any THEN NextCell(a.q) ELSE NIL,
            queue |-> IF any THEN [a.q EXCEPT !.eventCount = @ - 1] ELSE a.q,
            host |-> SubSeq(host, n + 1, Len(host)), stored |-> stored \o a.cells]
  IN {outcome(n) : n \in IF queue.eventCount = 0 THEN GetAndStoreNextKVMEvent(forever)
                         ELSE {0}}

(* What getKVMEvent changes, whatever its caller does with the cell.       *)
Got(outcome) ==
  /\ queue' = outcome.queue /\ host' = outcome.host /\ stored' = outcome.stored
  /\ UNCHANGED arrived

-----------------------------------------------------------------------------
Init ==
  /\ vm = "run"
  /\ sched = [state |-> [t \in Threads |->
                           IF t = Last(AllThreads) THEN {"ACTIVE"} ELSE {"JUST_BORN"}],
              debugSuspendCount |-> [t \in Threads |-> 0],
              run |-> <<>>, current |-> Last(AllThreads),
              saved |-> [t \in Threads |-> t # Last(AllThreads)], fatal |-> FALSE]
  /\ queue = [eventBuffer |-> [i \in 0..(MAXPARMLENGTH - 1) |-> Zero],
              eventInP |-> 0, eventCount |-> 0]
  /\ waitingThread = NIL
  /\ vmDebugReady \in BOOLEAN /\ allThreadsSuspended = FALSE
  /\ host = <<>> /\ arrived = 0 /\ commands = 0
  /\ result = [t \in Threads |-> NIL] /\ left = [t \in Threads |-> 0]
  /\ stored = <<>> /\ read = <<>>

(* A native event occurs in the host system.                               *)
Arrive ==
  /\ Running /\ arrived < MaxEvents
  /\ \E n \in ArgCounts : host' = Append(host, <<arrived + 1, n>>)
  /\ arrived' = arrived + 1
  /\ UNCHANGED <<vm, sched, queue, waitingThread, debugVars, programVars, stored>>

-----------------------------------------------------------------------------
(* The current thread executes bytecodes                                   *)

Executes(t) == Running /\ vm = "run" /\ sched.current = t

(* readInt() of t returns a cell.                                          *)
Returns(t, cell) ==
  /\ read' = Append(read, cell)
  /\ left' = [left EXCEPT ![t] = IF @ = 0 THEN cell[3] ELSE @ - 1]
  /\ result' = [result EXCEPT ![t] = NIL]

Reading(t) == left[t] > 0 \/ result[t] # NIL

(* readOneEvent() finds an event, ...                                      *)
ReadsCell(t, cell) ==
  /\ Returns(t, cell)
  /\ UNCHANGED <<vm, sched, debugVars, waitingThread>>

(* ... or suspends the thread with a result of 0 on its stack.              *)
WaitsForEvent(t) ==
  /\ waitingThread' = t
  /\ result' = [result EXCEPT ![t] = Zero]
  /\ \E policy \in Policies : /\ sched' = SuspendThread(sched, policy)
                              /\ EventSent(policy)
  /\ vm' = "events"
  /\ UNCHANGED <<read, left>>

ReadOneEvent(t) ==
  /\ Executes(t) /\ result[t] = NIL
  /\ Exclusive => \A u \in Threads \ {t} : ~Reading(u)
  /\ \E outcome \in GetKVMEvent(FALSE) :
       /\ Got(outcome)
       /\ IF outcome.cell # NIL THEN ReadsCell(t, outcome.cell) ELSE WaitsForEvent(t)

(* The thread runs again: the value on its stack is what readInt returns.  *)
ReturnFromWait(t) ==
  /\ Executes(t) /\ result[t] # NIL
  /\ Returns(t, result[t])
  /\ UNCHANGED <<vm, sched, queue, waitingThread, debugVars, hostVars, stored>>

(* Thread.start0 of a thread the program did not start: startThread and    *)
(* resumeThread, or IllegalThreadStateException when the debugger has      *)
(* suspended it, which leaves everything as it is.                         *)
Start(t, u) ==
  /\ Executes(t) /\ result[t] = NIL
  /\ sched.state[u] = {"JUST_BORN"}
  /\ sched' = ResumeThread([sched EXCEPT !.state[u] = {"SUSPENDED"}], u)
  /\ UNCHANGED <<vm, queue, waitingThread, debugVars, hostVars, programVars, stored>>

(* The thread's time slice ends, or an event of it (a breakpoint, a class  *)
(* it loads, ...) makes it time to reschedule.                             *)
Reschedule(t) ==
  /\ Executes(t)
  /\ \E policy \in Policies : /\ sched' = HandleSuspendPolicy(sched, policy, t)
                              /\ EventSent(policy)
  /\ vm' = "events"
  /\ UNCHANGED <<queue, waitingThread, hostVars, programVars, stored>>

-----------------------------------------------------------------------------
(* reschedule(): InterpreterHandleEvent, ProcessDebugCmds, SwitchThread    *)

(* Fault: the result goes to the thread, but the thread is not resumed.    *)
HandOver_NotResumed(cell) ==
  /\ result' = [result EXCEPT ![waitingThread] = cell]
  /\ waitingThread' = NIL
  /\ UNCHANGED sched

(* The waiting thread gets its cell and runs.                              *)
HandOver(cell) ==
  /\ result' = [result EXCEPT ![waitingThread] = cell]
  /\ sched' = ResumeThread(sched, waitingThread)
  /\ waitingThread' = NIL

(* InterpreterHandleEvent when a thread waits for an event.                *)
HandleEvent ==
  /\ Running /\ vm = "events" /\ waitingThread # NIL
  /\ \E outcome \in GetKVMEvent(~vmDebugReady /\ ~AreActiveThreads(sched)) :
       /\ Got(outcome)
       /\ IF outcome.cell # NIL THEN HandOver(outcome.cell)
          ELSE UNCHANGED <<result, sched, waitingThread>>
  /\ vm' = "debug"
  /\ UNCHANGED <<debugVars, read, left>>

(* InterpreterHandleEvent when none does: when no thread is active the VM  *)
(* sleeps, or processes a debugger command ("idle").                       *)
NoEventWanted ==
  /\ Running /\ vm = "events" /\ waitingThread = NIL
  /\ vm' = IF AreActiveThreads(sched) \/ ~vmDebugReady THEN "debug" ELSE "idle"
  /\ UNCHANGED <<sched, queue, waitingThread, debugVars, hostVars, programVars, stored>>

(* ProcessDebugCmds returns to the place after it.                         *)
InProcessDebugCmds ==
  /\ Running /\ vm \in {"idle", "debug"}
  /\ vm' = IF vm = "idle" THEN "debug" ELSE "switch"
  /\ UNCHANGED <<queue, waitingThread, hostVars, programVars, stored>>

(* There is no command.  The VM waits for one while all are suspended.     *)
NoCommand ==
  /\ InProcessDebugCmds /\ (vmDebugReady => ~allThreadsSuspended)
  /\ UNCHANGED <<sched, debugVars>>

Command == InProcessDebugCmds /\ vmDebugReady

SuspendCommand ==
  /\ Command /\ commands < MaxCommands
  /\ commands' = commands + 1
  /\ UNCHANGED vmDebugReady

VirtualMachine_Suspend ==
  /\ SuspendCommand
  /\ sched' = SuspendAllThreads(sched)
  /\ allThreadsSuspended' = TRUE

ThreadReference_Suspend(t) ==
  /\ SuspendCommand
  /\ sched' = SuspendSpecificThread(sched, t)
  /\ UNCHANGED allThreadsSuspended

ThreadReference_Resume(t) ==
  /\ Command
  /\ CarefulDebugger => ByDebugger(sched, t)
  /\ sched' = ResumeSpecificThread(sched, t)
  /\ allThreadsSuspended' = FALSE
  /\ UNCHANGED <<commands, vmDebugReady>>

(* VirtualMachine_Resume; also called when the connection is lost, which   *)
(* ends the debugger.                                                      *)
VirtualMachine_Resume ==
  /\ Command
  /\ CarefulDebugger => \A t \in Threads : sched.state[t] # {"ACTIVE"}
  /\ sched' = ResumeAllThreads(sched)
  /\ allThreadsSuspended' = FALSE
  /\ vmDebugReady' \in BOOLEAN
  /\ UNCHANGED commands

(* Without a current thread the loop of reschedule() goes around again.    *)
Switch ==
  /\ Running /\ vm = "switch"
  /\ sched' = SwitchThread(sched)
  /\ vm' = IF SwitchThread(sched).current = NIL THEN "events" ELSE "run"
  /\ UNCHANGED <<queue, waitingThread, debugVars, hostVars, programVars, stored>>

Executing(t) ==
  ReadOneEvent(t) \/ ReturnFromWait(t) \/ Reschedule(t) \/ \E u \in Threads : Start(t, u)

Rescheduling == HandleEvent \/ NoEventWanted \/ NoCommand \/ Switch

Debugging ==
  \/ VirtualMachine_Suspend \/ VirtualMachine_Resume
  \/ \E t \in Threads : ThreadReference_Suspend(t) \/ ThreadReference_Resume(t)

Next == Arrive \/ (\E t \in Threads : Executing(t)) \/ Rescheduling \/ Debugging

Spec == Init /\ [][Next]_vars

(* The loop of the VM never stops; a time slice ends; a native function    *)
(* that is about to return does so before the slice ends.                  *)
FairSpec ==
  /\ Spec /\ WF_vars(Rescheduling)
  /\ \A t \in Threads : WF_vars(Reschedule(t)) /\ SF_vars(ReturnFromWait(t))

-----------------------------------------------------------------------------
(* Properties                                                              *)

(* Types: the flags of a thread, which events.c and the debugger set, are  *)
(* one of the combinations below; the indices of the buffer stay in it.    *)
TypeOK ==
  /\ vm \in {"run", "events", "idle", "debug", "switch"}
  /\ \A t \in Threads : sched.state[t] \ {"DBG_SUSPENDED"} \in
       {{"JUST_BORN"}, {"ACTIVE"}, {"SUSPENDED"}, {"ACTIVE", "SUSPENDED"}}
  /\ \A t \in Threads : ByDebugger(sched, t) <=> sched.debugSuspendCount[t] > 0
  /\ queue.eventInP \in 0..MAXPARMLENGTH
  /\ queue.eventCount \in 0..queue.eventInP
  /\ waitingThread \in Threads \cup {NIL}

(* The run queue and CurrentThread hold exactly the threads that wait      *)
(* neither for an event nor for the debugger, each of them once, whatever  *)
(* the order in which the event arrives and the debugger resumes           *)
(* (resumeThread, suspendSpecificThread, resumeSpecificThread).            *)
RunQueueExact ==
  /\ IsInjective(sched.run) /\ ~Contains(sched.run, sched.current)
  /\ \A t \in Threads :
       sched.state[t] = {"ACTIVE"} <=> Contains(sched.run, t) \/ t = sched.current

(* The registers of every thread but the current one are stored, so that   *)
(* SwitchThread() continues it where it stopped (storeExecutionEnvironment *)
(* in SwitchThread, suspendThread and suspendSpecificThread).              *)
RegistersStored == \A t \in Threads \ {sched.current} : sched.saved[t]

(* None of the fatalError() calls of resumeThread and SwitchThread.        *)
NoFatalError == ~sched.fatal

(* A thread whose readInt() has no value yet is the one that               *)
(* InterpreterHandleEvent gives the next cell, and is suspended            *)
(* (events.c, waitingThread).                                              *)
NoReaderForgotten ==
  \A t \in Threads : result[t] = Zero <=> waitingThread = t /\ Suspended(sched, t)

(* The programs read, in order and each once, the cells of the events that *)
(* StoreKVMEvent took, and nothing else: what was read, the cell on the    *)
(* stack of a thread that is to return and what is left in the buffer      *)
(* together are what was stored (StoreKVMEvent, getKVMEvent,               *)
(* InterpreterHandleEvent).                                                *)
StreamInOrder ==
  LET onStack == {t \in Threads : result[t] \notin {NIL, Zero}}
      inBuffer == SubSeq([i \in 1..MAXPARMLENGTH |-> queue.eventBuffer[i - 1]],
                         queue.eventInP - queue.eventCount + 1, queue.eventInP)
  IN /\ Cardinality(onStack) <= 1
     /\ stored = read \o SetToSeq({result[t] : t \in onStack}) \o inBuffer

(* However wake-ups by events and by the debugger follow each other, the   *)
(* scheduler's structures agree with the flags of the threads.             *)
SchedulingExact == TypeOK /\ RunQueueExact /\ NoFatalError /\ RegistersStored

(* Who waits gets the next cell, and the cells come in order.              *)
EventsInOrder == NoReaderForgotten /\ StreamInOrder

(* When the debugger keeps letting every thread go on, a thread that waits *)
(* while a native event is there returns from readInt() (reschedule,       *)
(* InterpreterHandleEvent).                                                *)
DebuggerResumes == []<>(\A t \in Threads : ~ByDebugger(sched, t))
WaiterGetsEvent ==
  DebuggerResumes =>
    \A t \in Threads : (waitingThread = t /\ host # <<>>) ~> (result[t] = NIL)
=============================================================================
