------------------------------ MODULE AsyncIO ------------------------------
(***************************************************************************)
(* Asynchronous native functions (async.c, the asynchronous part of        *)
(* thread.c, socketProtocol.c) as built for Windows: the main thread runs  *)
(* all Java threads and the collector, and hands native calls that may     *)
(* block over to I/O threads (VmWin/src/runtime_md.c, runtime2_md.c).      *)
(*                                                                         *)
(* The real threads share memory.  Each action is a critical section, or a *)
(* stretch of code whose steps no other thread can tell apart.             *)
(***************************************************************************)
EXTENDS Integers, SequencesExt

CONSTANTS
  Threads,        \* the Java threads
  IOThreads,      \* the threads beginthreads() starts
  IocbCount,      \* ASYNC_IOCB_COUNT
  NIL,
  Object,         \* the pointer to the instance or array a call works on
  MaxVersion      \* bound: how often the VM is started

ASSUME AsyncAssumption ==
  /\ IocbCount \in Nat \ {0} /\ MaxVersion \in Nat \ {0} /\ IsFiniteSet(IOThreads)
  /\ NIL \notin Threads \cup IOThreads \cup (1..IocbCount) \cup {Object}
  /\ Object \notin Threads
  /\ NIL \notin {"acquire", "prolog", "call", "process", "release", "mark"}

VARIABLES
  main,               \* where the main thread is
  caller, request,    \* the Java thread calling a native, and its block
  runnable,           \* the Java threads that are not suspended
  IocbRoots,          \* the pointers in every block
  IocbFreeList,
  nextIocb, nextRoutine, event,    \* how a call is handed over
  io,                 \* every I/O thread: where it is, its block and _verson_
  AsyncThreadCount, collectorIsRunning, VersionOfTheWorld,
  stale,              \* the pointers that are old addresses of moved objects
  slot, loaded,       \* the collector: the pointer it visits, what it read
  heap,               \* does the heap of a VM exist
  fatal               \* the fatalError() that ended the process, or NIL

callVars  == <<caller, request>>
handVars  == <<nextIocb, nextRoutine, event>>
gcVars    == <<collectorIsRunning, slot, loaded>>
blockVars == <<IocbRoots, IocbFreeList, stale>>
worldVars == <<VersionOfTheWorld, heap>>
vars == <<main, callVars, runnable, blockVars, handVars, io, AsyncThreadCount,
          gcVars, worldVars, fatal>>

Blocks == 1..IocbCount
Slots  == Blocks \X {"thread", "object"}      \* object: instance and array

(* The order in which the collector visits them.                           *)
SlotAt(i) == <<(i + 1) \div 2, IF i % 2 = 1 THEN "thread" ELSE "object">>

Running == fatal = NIL

-----------------------------------------------------------------------------
(* Parts of the steps                                                      *)

(* Fault: asyncFunctionEpilog does not count the call out.                 *)
CountOut_Never == AsyncThreadCount' = AsyncThreadCount

(* --AsyncThreadCount of asyncFunctionEpilog.                              *)
CountOut == AsyncThreadCount' = AsyncThreadCount - 1

(* Fault: the event is not one that resets itself.                         *)
EventAfterWait_Manual == event

(* CreateEvent(0, FALSE, ...): the event that let a thread through is reset.*)
EventAfterWait == FALSE

(* Fault: the collector only looks for calls in progress, not for itself:  *)
(* a call that comes back while it runs goes on.                           *)
MayReenter_Always == TRUE

(* The test of incrementAsyncCount.                                        *)
MayReenter == ~collectorIsRunning

(* Fault: a call forgets the thread that waits for it.                     *)
Resumed_None(t) == runnable

(* resumeThread(thread) of asyncFunctionEpilog.                            *)
Resumed(t) == runnable \cup {t}

(* Fault: the block is put on the list while it is still there.            *)
Freed_Twice(b) == <<b, b>> \o IocbFreeList

(* FreeAsyncIOCB puts the block in front.                                  *)
Freed(b) == <<b>> \o IocbFreeList

(* Fault: a restarted VM does not wait for the calls of the previous one.  *)
NoneActive_Skipped == TRUE

(* ActiveAsyncOperations() = 0: all blocks are on the free list.           *)
NoneActive == Len(IocbFreeList) = IocbCount

(* Fault: the last pointer is not visited.                                 *)
LastSlot_OffByOne == 2 * IocbCount - 1

(* The loops over IocbRoots visit the pointers of all blocks.              *)
LastSlot == 2 * IocbCount

-----------------------------------------------------------------------------
(* Main thread: calling an asynchronous native                             *)

(* The interpreter invokes an ASYNC_FUNCTION for the thread it runs.       *)
CallNative(t) ==
  /\ Running /\ main = "java" /\ t \in runnable
  /\ main' = "acquire" /\ caller' = t
  /\ UNCHANGED <<request, runnable, blockVars, handVars, io, AsyncThreadCount,
                 gcVars, worldVars, fatal>>

(* AcquireAsyncIOCB waits for a free block; then asyncFunctionProlog       *)
(* suspends the caller and counts it among those the collector waits for.  *)
AcquireAsyncIOCB ==
  /\ Running /\ main = "acquire" /\ IocbFreeList # <<>>
  /\ LET thread == <<Head(IocbFreeList), "thread">> IN
     /\ request' = thread[1]
     /\ IocbFreeList' = Tail(IocbFreeList)
     /\ IF IocbRoots[thread] # NIL \/ collectorIsRunning
        THEN /\ fatal' = IF IocbRoots[thread] # NIL THEN "acquire" ELSE "prolog"
             /\ UNCHANGED <<main, IocbRoots, stale, runnable, AsyncThreadCount>>
        ELSE /\ IocbRoots' = [IocbRoots EXCEPT ![thread] = caller]
             /\ stale' = stale \ {thread}
             /\ runnable' = runnable \ {caller}
             /\ AsyncThreadCount' = AsyncThreadCount + 1
             /\ main' = "call"
             /\ UNCHANGED fatal
  /\ UNCHANGED <<caller, handVars, io, gcVars, worldVars>>

(* CallAsyncNativeFunction_md hands the block over; releaseAsyncThread     *)
(* sets the event that wakes one I/O thread.                               *)
CallAsyncNativeFunction ==
  /\ Running /\ main = "call"
  /\ IF nextRoutine \/ nextIocb # NIL
     THEN fatal' = "call" /\ UNCHANGED <<main, handVars>>
     ELSE /\ nextRoutine' = TRUE /\ nextIocb' = request /\ event' = TRUE
          /\ main' = "handover"
          /\ UNCHANGED fatal
  /\ UNCHANGED <<callVars, runnable, blockVars, io, AsyncThreadCount, gcVars, worldVars>>

(* ... and the main thread spins until the request was taken.              *)
HandedOver ==
  /\ Running /\ main = "handover" /\ nextIocb = NIL
  /\ main' = "java" /\ caller' = NIL /\ request' = NIL
  /\ UNCHANGED <<runnable, blockVars, handVars, io, AsyncThreadCount, gcVars,
                 worldVars, fatal>>

-----------------------------------------------------------------------------
(* Main thread: garbage collection                                         *)

(* An allocation finds no memory, or the program asks for a collection.    *)
GarbageCollect ==
  /\ Running /\ main = "java"
  /\ main' = "rundown"
  /\ UNCHANGED <<callVars, runnable, blockVars, handVars, io, AsyncThreadCount,
                 gcVars, worldVars, fatal>>

(* RundownAsynchronousFunctions, at the poll that finds no call.           *)
RundownAsynchronousFunctions ==
  /\ Running /\ main = "rundown" /\ AsyncThreadCount = 0
  /\ main' = "mark" /\ collectorIsRunning' = TRUE /\ slot' = 1
  /\ UNCHANGED <<callVars, runnable, blockVars, handVars, io, AsyncThreadCount,
                 loaded, worldVars, fatal>>

(* The collector goes to the next pointer, or on to what comes after.      *)
NextSlot(after) ==
  /\ loaded' = NIL
  /\ IF slot < LastSlot THEN slot' = slot + 1 /\ UNCHANGED main
                        ELSE slot' = 0 /\ main' = after

(* MARK_OBJECT_IF_NON_NULL reads the pointer to test it, and reads it      *)
(* again to mark what it points to, unless the compiler kept it.           *)
MarkRoot ==
  /\ Running /\ main = "mark"
  /\ LET s == SlotAt(slot) IN
     \/ /\ loaded = NIL /\ IocbRoots[s] # NIL
        /\ loaded' = IocbRoots[s]
        /\ UNCHANGED <<main, slot, fatal>>
     \/ /\ loaded = NIL /\ IocbRoots[s] = NIL
        /\ NextSlot("sweep")
        /\ UNCHANGED fatal
     \/ /\ loaded # NIL
        /\ NextSlot("sweep")
        /\ UNCHANGED fatal
     \/ /\ loaded # NIL /\ IocbRoots[s] = NIL
        /\ fatal' = "mark"
        /\ UNCHANGED <<main, slot, loaded>>
  /\ UNCHANGED <<callVars, runnable, blockVars, handVars, io, AsyncThreadCount,
                 collectorIsRunning, worldVars>>

(* The heap is compacted when what was swept is too little: every address  *)
(* may change, and the roots have to be updated.                           *)
Compact ==
  /\ Running /\ main = "sweep"
  /\ stale' = {s \in Slots : IocbRoots[s] # NIL}
  /\ main' = "update" /\ slot' = 1
  /\ UNCHANGED <<callVars, runnable, IocbRoots, IocbFreeList, handVars, io,
                 AsyncThreadCount, collectorIsRunning, loaded, worldVars, fatal>>

(* updatePointer reads the pointer and writes the new address back.        *)
UpdateRoot ==
  /\ Running /\ main = "update"
  /\ LET s == SlotAt(slot) IN
     \/ /\ loaded = NIL /\ IocbRoots[s] # NIL
        /\ loaded' = IocbRoots[s]
        /\ UNCHANGED <<main, slot, IocbRoots, stale>>
     \/ /\ loaded = NIL /\ IocbRoots[s] = NIL
        /\ NextSlot("updated")
        /\ UNCHANGED <<IocbRoots, stale>>
     \/ /\ loaded # NIL
        /\ IocbRoots' = [IocbRoots EXCEPT ![s] = loaded]
        /\ stale' = stale \ {s}
        /\ NextSlot("updated")
  /\ UNCHANGED <<callVars, runnable, IocbFreeList, handVars, io, AsyncThreadCount,
                 collectorIsRunning, worldVars, fatal>>

(* The collection ends; RestartAsynchronousFunctions.                      *)
RestartAsynchronousFunctions ==
  /\ Running /\ main \in {"sweep", "updated"}
  /\ main' = "java" /\ collectorIsRunning' = FALSE
  /\ UNCHANGED <<callVars, runnable, blockVars, handVars, io, AsyncThreadCount,
                 slot, loaded, worldVars, fatal>>

-----------------------------------------------------------------------------
(* Main thread: the VM ends and is started again                           *)

(* KVM_Cleanup: finalizers close the sockets, then the heap is freed.      *)
Cleanup ==
  /\ Running /\ main = "java"
  /\ main' = "down" /\ heap' = FALSE
  /\ UNCHANGED <<callVars, runnable, blockVars, handVars, io, AsyncThreadCount,
                 gcVars, VersionOfTheWorld, fatal>>

(* InitalizeAsynchronousIO makes the blocks, or tells calls still out from *)
(* a previous VM that the world they knew is gone.                         *)
InitalizeAsynchronousIO ==
  /\ Running /\ main = "down" /\ VersionOfTheWorld < MaxVersion
  /\ VersionOfTheWorld' = VersionOfTheWorld + 1
  /\ IocbFreeList' = IF VersionOfTheWorld = 0
                     THEN [i \in Blocks |-> IocbCount + 1 - i] ELSE IocbFreeList
  /\ main' = "init"
  /\ UNCHANGED <<callVars, runnable, IocbRoots, stale, handVars, io,
                 AsyncThreadCount, gcVars, heap, fatal>>

(* ... and waits for them; then KVM_Start goes on with a new heap.         *)
StartVM ==
  /\ Running /\ main = "init" /\ NoneActive
  /\ main' = "java" /\ heap' = TRUE /\ runnable' = Threads
  /\ UNCHANGED <<callVars, blockVars, handVars, io, AsyncThreadCount, gcVars,
                 VersionOfTheWorld, fatal>>

-----------------------------------------------------------------------------
(* I/O threads                                                             *)

At(w, pc) == Running /\ io[w].pc = pc
Goto(w, pc) == io' = [io EXCEPT ![w].pc = pc]
ThreadOf(w) == IocbRoots[<<io[w].block, "thread">>]

(* asyncThread: the event lets one thread through and resets itself.       *)
WaitForSingleObject(w) ==
  /\ At(w, "wait") /\ event
  /\ event' = EventAfterWait
  /\ Goto(w, "woken")
  /\ UNCHANGED <<main, callVars, runnable, blockVars, nextIocb, nextRoutine,
                 AsyncThreadCount, gcVars, worldVars, fatal>>

(* processAcyncThread picks up its parameters and clears nextRoutine ...   *)
TakeParameters(w) ==
  /\ At(w, "woken")
  /\ IF nextIocb = NIL \/ ~nextRoutine
     THEN fatal' = "process" /\ UNCHANGED <<io, nextRoutine>>
     ELSE /\ io' = [io EXCEPT ![w].pc = "taken", ![w].block = nextIocb]
          /\ nextRoutine' = FALSE
          /\ UNCHANGED fatal
  /\ UNCHANGED <<main, callVars, runnable, blockVars, nextIocb, event,
                 AsyncThreadCount, gcVars, worldVars>>

(* ... then nextIocb, which the main thread waits for.                     *)
ClearInputQueue(w) ==
  /\ At(w, "taken")
  /\ nextIocb' = NIL
  /\ Goto(w, "start")
  /\ UNCHANGED <<main, callVars, runnable, blockVars, nextRoutine, event,
                 AsyncThreadCount, gcVars, worldVars, fatal>>

SetObject(w) ==
  /\ IocbRoots' = [IocbRoots EXCEPT ![<<io[w].block, "object">>] = Object]
  /\ stale' = stale \ {<<io[w].block, "object">>}

(* A native function whose arguments are wrong (null array, bounds, URL)   *)
(* leaves an exception with the thread and is done.                        *)
ArgumentError(w) ==
  /\ At(w, "start")
  /\ SetObject(w)
  /\ Goto(w, "done")
  /\ UNCHANGED <<main, callVars, runnable, IocbFreeList, handVars, AsyncThreadCount,
                 gcVars, worldVars, fatal>>

(* Otherwise it saves the object it works on in the block and, with        *)
(* ASYNC_enableGarbageCollection, calls the primitive that may block.      *)
EnableGarbageCollection(w) ==
  /\ At(w, "start")
  /\ SetObject(w)
  /\ io' = [io EXCEPT ![w].pc = "blocked", ![w].version = VersionOfTheWorld]
  /\ AsyncThreadCount' = AsyncThreadCount - 1
  /\ UNCHANGED <<main, callVars, runnable, IocbFreeList, handVars, gcVars, worldVars, fatal>>

PrimitiveReturns(w) ==
  /\ At(w, "blocked")
  /\ Goto(w, "returned")
  /\ UNCHANGED <<main, callVars, runnable, blockVars, handVars, AsyncThreadCount,
                 gcVars, worldVars, fatal>>

(* ASYNC_disableGarbageCollection: in another world than it started in the *)
(* call only gives its block back ...                                      *)
CheckVersion(w) ==
  /\ At(w, "returned")
  /\ Goto(w, IF io[w].version = VersionOfTheWorld THEN "enter" ELSE "free")
  /\ UNCHANGED <<main, callVars, runnable, blockVars, handVars, AsyncThreadCount,
                 gcVars, worldVars, fatal>>

(* ... and else it is counted again, when the collector does not run.      *)
IncrementAsyncCount(w) ==
  /\ At(w, "enter") /\ MayReenter
  /\ AsyncThreadCount' = AsyncThreadCount + 1
  /\ Goto(w, "done")
  /\ UNCHANGED <<main, callVars, runnable, blockVars, handVars, gcVars, worldVars, fatal>>

(* The result is stored through the pointers of the block.                 *)
(* ReleaseAsyncIOCB: asyncFunctionEpilog resumes the thread first ...      *)
ResumeThread(w) ==
  /\ At(w, "done")
  /\ IF ThreadOf(w) = NIL
     THEN fatal' = "release" /\ UNCHANGED <<runnable, io>>
     ELSE /\ runnable' = Resumed(ThreadOf(w))
          /\ Goto(w, "resumed")
          /\ UNCHANGED fatal
  /\ UNCHANGED <<main, callVars, blockVars, handVars, AsyncThreadCount, gcVars, worldVars>>

(* ... and then lets the collector run ...                                 *)
Epilog(w) ==
  /\ At(w, "resumed")
  /\ CountOut
  /\ Goto(w, "free")
  /\ UNCHANGED <<main, callVars, runnable, blockVars, handVars, gcVars, worldVars, fatal>>

(* ... before AbortAsyncIOCB clears the block and frees it.                *)
AbortAsyncIOCB(w) ==
  /\ At(w, "free")
  /\ LET b == io[w].block IN
     /\ IocbRoots' = [s \in Slots |-> IF s[1] = b THEN NIL ELSE IocbRoots[s]]
     /\ stale' = {s \in stale : s[1] # b}
     /\ IocbFreeList' = Freed(b)
  /\ io' = [io EXCEPT ![w] = [pc |-> "wait", block |-> NIL, version |-> 0]]
  /\ UNCHANGED <<main, callVars, runnable, handVars, AsyncThreadCount, gcVars, worldVars, fatal>>

-----------------------------------------------------------------------------
Init ==
  /\ main = "down" /\ caller = NIL /\ request = NIL
  /\ runnable = {}
  /\ IocbRoots = [s \in Slots |-> NIL] /\ IocbFreeList = <<>> /\ stale = {}
  /\ nextIocb = NIL /\ nextRoutine = FALSE /\ event = FALSE
  /\ io = [w \in IOThreads |-> [pc |-> "wait", block |-> NIL, version |-> 0]]
  /\ AsyncThreadCount = 0 /\ VersionOfTheWorld = 0
  /\ collectorIsRunning = FALSE /\ slot = 0 /\ loaded = NIL
  /\ heap = FALSE /\ fatal = NIL

(* What the main thread does whatever the program does.                    *)
MainProgress ==
  \/ AcquireAsyncIOCB \/ CallAsyncNativeFunction \/ HandedOver
  \/ RundownAsynchronousFunctions \/ MarkRoot \/ UpdateRoot
  \/ RestartAsynchronousFunctions
  \/ StartVM

MainStep ==
  \/ MainProgress
  \/ \E t \in Threads : CallNative(t)
  \/ GarbageCollect \/ Compact
  \/ Cleanup \/ InitalizeAsynchronousIO

(* What an I/O thread does whatever the network does.                      *)
IOProgress(w) ==
  \/ WaitForSingleObject(w) \/ TakeParameters(w) \/ ClearInputQueue(w)
  \/ ArgumentError(w) \/ EnableGarbageCollection(w)
  \/ CheckVersion(w) \/ IncrementAsyncCount(w)
  \/ ResumeThread(w) \/ Epilog(w) \/ AbortAsyncIOCB(w)

(* The loops that wait for an I/O thread poll, and Yield_md in between.     *)
Poll ==
  /\ Running /\ main \in {"acquire", "handover", "rundown", "init"}
  /\ UNCHANGED vars

(* The process was ended by fatalError, or is not to start a VM again.     *)
Terminated ==
  /\ ~Running \/ (main = "down" /\ VersionOfTheWorld = MaxVersion)
  /\ UNCHANGED vars

Next ==
  \/ MainStep
  \/ \E w \in IOThreads : IOProgress(w) \/ PrimitiveReturns(w)
  \/ Poll
  \/ Terminated

Spec == Init /\ [][Next]_vars

(* Fairness: the operating system runs every thread.  Nothing makes the    *)
(* network answer, a program call, or the VM end.                          *)
FairSpec == Spec /\ WF_vars(MainProgress) /\ \A w \in IOThreads : WF_vars(IOProgress(w))

-----------------------------------------------------------------------------
(* Properties                                                              *)

(* Every variable holds what its C declaration allows.                     *)
TypeOK ==
  /\ main \in {"down", "init", "java", "acquire", "call", "handover",
              "rundown", "mark", "sweep", "update", "updated"}
  /\ caller \in Threads \cup {NIL} /\ request \in Blocks \cup {NIL}
  /\ runnable \subseteq Threads
  /\ IocbRoots \in [Slots -> Threads \cup {Object, NIL}]
  /\ IocbFreeList \in Seq(Blocks) /\ stale \subseteq Slots
  /\ nextIocb \in Blocks \cup {NIL} /\ nextRoutine \in BOOLEAN /\ event \in BOOLEAN
  /\ io \in [IOThreads ->
       [pc : {"wait", "woken", "taken", "start", "blocked", "returned", "enter",
              "done", "resumed", "free"},
        block : Blocks \cup {NIL}, version : Nat]]
  /\ AsyncThreadCount \in Nat /\ VersionOfTheWorld \in Nat
  /\ collectorIsRunning \in BOOLEAN
  /\ slot \in 0..LastSlot /\ loaded \in Threads \cup {Object, NIL}
  /\ heap \in BOOLEAN
  /\ fatal \in {NIL, "acquire", "prolog", "call", "process", "release", "mark"}

(* A call is handed over, and no I/O thread has it yet.                    *)
Queued ==
  \/ main = "call"
  \/ main = "handover" /\ nextIocb # NIL /\ \A w \in IOThreads : io[w].pc # "taken"

(* The I/O threads between the macros that let the collector run: they     *)
(* hold addresses of Java objects and threads.                             *)
UsesHeap(w) == io[w].pc \in {"taken", "start", "done", "resumed"}

(* AsyncThreadCount, which the collector waits for, counts the calls that  *)
(* may touch the heap, across errors, blocked primitives and restarts.     *)
AsyncCountExact ==
  AsyncThreadCount =
    Cardinality({w \in IOThreads : UsesHeap(w)}) + (IF Queued THEN 1 ELSE 0)

(* The collector never runs while an I/O thread uses the heap.             *)
CollectorExcludesCalls ==
  collectorIsRunning => ~Queued /\ \A w \in IOThreads : ~UsesHeap(w)

(* The pointers a call works with after it blocked are those of the        *)
(* objects it was given, at the addresses where collections put them.      *)
PointersCurrent ==
  \A w \in IOThreads :
    UsesHeap(w) =>
      /\ ThreadOf(w) \in Threads /\ <<io[w].block, "thread">> \notin stale
      /\ io[w].pc \in {"done", "resumed"} =>
           /\ IocbRoots[<<io[w].block, "object">>] = Object
           /\ <<io[w].block, "object">> \notin stale

(* No block is lost or given out twice: once there are blocks, each is on  *)
(* the free list, about to be taken, or with one I/O thread.               *)
BlocksAccounted ==
  Running /\ VersionOfTheWorld > 0 =>
    \A b \in Blocks :
      1 = Cardinality({i \in DOMAIN IocbFreeList : IocbFreeList[i] = b})
            + Cardinality({w \in IOThreads : io[w].block = b})
            + (IF Queued /\ request = b THEN 1 ELSE 0)

(* While the VM is up a thread is suspended exactly as long as one call is *)
(* on its way for it, which will resume it once (asyncFunctionEpilog).     *)
IsFor(w, t) ==
  io[w].pc \in {"taken", "start", "blocked", "returned", "enter", "done"} /\ ThreadOf(w) = t

SuspendedThreadsAreServed ==
  heap => \A t \in Threads :
    Cardinality({w \in IOThreads : IsFor(w, t)}) + (IF Queued /\ caller = t THEN 1 ELSE 0)
      = (IF t \in runnable THEN 0 ELSE 1)

(* Nothing of a call is lost or counted twice, whatever way it ends: the   *)
(* count the collector waits for, the blocks, the suspended threads.       *)
CallsAccounted ==
  TypeOK /\ AsyncCountExact /\ BlocksAccounted /\ SuspendedThreadsAreServed

(* A VM that runs has none of its predecessor's calls around, so that none *)
(* can mistake its world for its own ("A brief explanation of              *)
(* VersionOfTheWorld").                                                    *)
NoCallSurvivesRestart ==
  heap => \A w \in IOThreads :
    io[w].pc \in {"blocked", "returned", "enter"} => io[w].version = VersionOfTheWorld

(* Of the consistency checks of the protocol only two can fail, both       *)
(* because a block is cleared while the collector is at it.                *)
HandoverIsSound == fatal \in {NIL, "acquire", "mark"}

(* "if (result->thread != 0) fatalError": a block from the free list is    *)
(* clear, as FreeAsyncIOCB left it.                                        *)
FreeBlocksAreClear == fatal # "acquire"

(* A native call works on the heap of the VM that made it, not on one that *)
(* was freed: "these systems must correctly rundown all async I/O".        *)
HeapOutlivesCalls == ~heap => \A w \in IOThreads : io[w].pc # "done"

(* A collection starts, although calls keep coming back and some never do: *)
(* a blocked call does not keep the collector waiting.                     *)
CollectionStarts == (main = "rundown") ~> (main # "rundown" \/ ~Running)

(* Assumptions on the environment: primitives return; collections come to  *)
(* an end (incrementAsyncCount polls, and may miss every gap between two). *)
NetworkAnswers == \A w \in IOThreads : WF_vars(PrimitiveReturns(w))

(* A thread that called a native is resumed, or its VM ends.               *)
CallCompletes ==
  NetworkAnswers /\ <>[]~collectorIsRunning =>
    \A t \in Threads :
      (heap /\ t \notin runnable) ~> (t \in runnable \/ ~heap \/ ~Running)

(* The VM as a whole, which stands still while all blocks are taken, goes  *)
(* on when a primitive returns.                                            *)
CallerGetsBlock ==
  NetworkAnswers => ((main = "acquire") ~> (main # "acquire" \/ ~Running))

(* Neither the main thread, which is all of Java, nor the thread that      *)
(* called a native waits for ever (AcquireAsyncIOCB, asyncFunctionProlog). *)
EverybodyProceeds == CollectionStarts /\ CallerGetsBlock /\ CallCompletes
=============================================================================
