# The K virtual machine in TLA+

This directory is a formal model of the core of the K virtual machine (KVM), the
Java virtual machine for small devices in `src/cldc1.1/kvm`. It holds TLA+
modules, TLC configurations that check them on small instances, and theorems
proved with TLAPS. Paths below are relative to the repository; `thread.c` is
`src/cldc1.1/kvm/VmCommon/src/thread.c`, `thread.h` is
`src/cldc1.1/kvm/VmCommon/h/thread.h`.

`PROJECT.json` holds the correspondence in machine-readable form: components,
runs, the source lines of every definition, faults the properties catch,
findings, hazards and theorems.

## 1. The system

The repository is a secure variant of Sun's KVM: the virtual machine in two
versions (`src/cldc1.1`, and `src/cldc1.0.3` with permits that restrict which
classes may extend or use a package), class libraries, host tools that sign and
pre-verify class files, and a vendored byte code library. The virtual machine is
one C program. Java threads are *green*: the interpreter multiplexes them on one
thread of the operating system. There is one exception, the asynchronous natives. The default
(`main.h`) is `ASYNCHRONOUS_NATIVE_FUNCTIONS` 0, but the ports of Windows and Windows CE
define it as 1 (`VmWin/h/machine_md.h:90`, `VmWinCE/h/machine_md.h:69`): there, five more
threads of the operating system share the heap with the interpreter and the
collector. What else is hard about this program is that long
sequences of legal calls, by several Java threads, by the collector or by a
debugger, take a few shared structures through states that no test visits.

| Part | State | Operations | Hard behaviour | Correct when |
| --- | --- | --- | --- | --- |
| Scheduler (`thread.c`, `events.h`) | `CurrentThread`, `RunnableThreads`, `AllThreads`, `AliveThreadCount`, `THREAD.state` | start, stop, suspend, resume, switch, interrupt | preemption between any two bytecodes; a thread is moved between queues by others | each live thread is in exactly one place; everyone runs; the count of live threads is right |
| Thread queues (`thread.c`) | rings linked by `nextThread` | add at either end, remove first, remove one | one link field for all queues | each ring is the sequence its callers take it for |
| Alarms (`thread.c`) | `TimerQueue`, `wakeupTime`, `wakeupCall` | register, cancel, fire | an alarm races notify and interrupt | sorted, one alarm for each thread, nobody oversleeps |
| Monitors (`thread.c`, `class.c`) | the `mhc` word of every object, `extendedLock` of every thread, monitor structures, `MonitorCache` | enter, exit, wait, notify, hashCode | four representations of one lock; structures are reused | a fair Java monitor and one hash code, whatever the representation |
| Class initialization (`class.c`) | `status`, `initThread`, the frame of `runClinit` | the steps of JVMS 2.17.5 | two threads initialize one class; errors and interrupts in the middle | one thread runs `<clinit>`; waiters are woken |
| Events (`events.c`) | `eventBuffer`, `eventCount`, `waitingThread` | store, read, wait | a second reader; a full buffer | no event is lost or split; the reader is resumed |
| Asynchronous natives (`async.c`, `thread.c`) | control blocks, a count of running functions | prolog, epilog, rundown | another OS thread races the collector | none runs during a collection |
| Debugger (`debugger.c`) | suspend counts, `THREAD_DBG_SUSPENDED` | suspend, resume, events | suspends threads the scheduler suspended too | as for the scheduler |
| Collector (`collector.c`, `garbage.c`) | heap, roots, mark bits, break table | allocate, mark, sweep, compact | everything moves; roots that are not registered | live objects keep their contents and identity |
| Class loader (`loader.c`) | `status` of classes, the class table | find, load, link | a failed load; circular superclasses | a class is loaded once and completely |
| Frames (`frame.c`) | stack chunks, frame pointers | push, pop, unwind | exceptions that release monitors | monitors are released exactly once |
| Interpreter (`execute.c`, `bytecodes.c`, `cache.c`) | registers, inline caches | bytecodes | code is rewritten while it runs | a cached entry is what a lookup would find |
| Verifier (`verifier.c`, `stackmap.c`) | derived and recorded types | type check | merging of recorded types | accepts well-typed code only |
| Tables (`hashtable.c`, `pool.c`, `fields.c`) | hash tables, constant pools | lookup, insert, resolve | resolution is cached | a name has one key |
| SVM permits (1.0.3: `crypto.c`, `loader.c`, `class.c`) | permits of packages and classes | attach, verify | order of loading and checking | no use of a package without its permit |
| Application manager (`jam.c`, `jamStorage.c`) | directory of installed applications | install, update, remove | failure between two writes | an application is installed completely or not at all |

Interaction: a bytecode or native calls into `thread.c`, which moves threads
between the run queue, monitor queues and the timer queue. When it suspends the
current thread, `CurrentThread` is NULL on return and the interpreter goes to
`reschedule()` (`events.h`), which fires due alarms (callbacks into `thread.c`),
polls the event queue and calls `SwitchThread` until there is a thread to run.
The same happens when the time slice of a thread runs out. `class.c` uses class
objects as monitors; `garbage.c` drops cached monitors; everything is a root of
the collector.

## 2. Modules

| Module | Models |
| --- | --- |
| `ThreadQueue` | the queue routines as operators on sequences |
| `ThreadQueues` | named queues that behave as those sequences: what the routines promise |
| `ThreadRing` | the rings of `thread.c`, with the shared field `nextThread`; refines `ThreadQueues` |
| `KVMThreads` | scheduler, alarms, monitors, lock words and hash codes, and the natives and bytecodes that drive them |
| `JavaMonitor` | what `thread.h` promises of a monitor: nesting, first come first served, direct hand-off, ordered notification |
| `ClassLoading` | `loadClassfile` and `revertToRawClass` |
| `ClassInit` | `runClinit` and its exceptions, over the monitors of `JavaMonitor` and the classes of `ClassLoading`, which it extends |
| `KVMEvents` | the event buffer, the loop of `reschedule()` and suspension by the debugger; extends `ThreadQueue` |
| `AsyncIO` | asynchronous natives: control blocks, I/O threads, rundown for the collector, restart |
| `HeapMarker` | the marking phase of the collector, step by step |
| `HeapCompactor` | the sliding compaction of the collector, cell by cell |
| `KVMHeap` | allocation, collection and permanent space, as a program sees them; refines `ObjectStore` |
| `ObjectStore` | what a program may rely on: objects without addresses and without a collector |
| `InlineCache` | bytecodes that rewrite themselves, the inline cache, and breakpoints in the same code |
| `MethodTable` | what class files say of methods: sizes, instructions, handlers |
| `CallStack` | the calls, locks and exceptions of a thread as the language has them |
| `Frames` | frames and stack chunks, callbacks in frames, and `throwException` step by step; refines `CallStack` |
| `MC...` | instances for TLC |
| `ThreadQueueProofs`, `KVMThreadsProofs`, `KVMEventsProofs`, `AsyncIOProofs`, `HeapMarkerProofs`, `FramesProofs`, `ClassInitProofs`, `InlineCacheProofs` | proofs |

How they fit together: `ThreadRing` shows that the rings are the sequences
`KVMThreads` and `KVMEvents` take them for. `KVMThreads` shows that four
representations of a lock implement `JavaMonitor`, which is the monitor `ClassInit`
uses. `HeapMarker` and `HeapCompactor` have the steps of the collector whose
results `KVMHeap` uses: the set of marked objects is the set of the reachable ones, and
`updatePointer` leads to where an object went.

### 2.1 `ThreadRing` and `ThreadQueue`

A queue in C is a pointer to the last thread of a ring. `queue[k]` is that
pointer for queue `k` (the run queue, and two queues for each monitor),
`nextThread` is the one link field of each thread, `result` is what the routine
returned. `addThreadToQueue` says in its comment that it makes no safety checks.
The model includes what happens when a thread is added to the ring it is in
(constant `ReAdd`): every thread that stood behind it drops out of the ring.
`ThreadQueue!addThreadToQueue` says the same of sequences, so that
`KVMThreads` shows the consequences if a caller ever does it.

### 2.2 `KVMThreads`

The variables have the names of the C variables. `thread[t]` is the `THREAD`
structure of `t`, `monitor[m]` the `MONITOR` structure `m`, `mhc[o]` the
`monitorOrHashCode` word of object `o` as a record that has the tag of the word
and what it points to. `state` is the set of its flag bits. `wakeup` is
`wakeupTime` relative to the clock. `phase` says where the interpreter is:
`"run"` in the bytecode loop, `"timers"` and `"switch"` in `reschedule()`,
`"exit"` when it has returned. `hashReturned` is a history variable.

Without asynchronous natives the machine is single threaded, so a native or a bytecode is one action, which
includes every call it makes. The operators `resumeThread`, `removeMonitorWait`, `addMonitorWait`,
`removeCondvarWait`, `Attach`, `registerAlarm` are the C functions of
these names and are shared by the actions exactly as the functions are shared by
their callers; they take the thread table or monitor as the caller left it, since one
action composes several of them.

| Action | Code |
| --- | --- |
| `MonitorEnterFast`, `MonitorEnterSlow` | `monitorEnter` without and with a real monitor |
| `MonitorExitFast`, `MonitorExitSlow` | `monitorExit` likewise; the slow one hands the monitor over or puts it in the cache |
| `MonitorWait`, `MonitorNotify` | `Object.wait`, `notify`, `notifyAll` |
| `HashCode` | `objectHashCode` with `monitorHashCodeAddress` |
| `Sleep`, `Yield`, `StartThread`, `SetPriority`, `Interrupt` | the natives of `java.lang.Thread` |
| `StopThread` | return from, or uncaught exception in, the outermost frame: `stopThread`, `DismantleThread` |
| `GarbageCollect` | `MonitorCache = NULL` in `garbageCollect` |
| `FireAlarm`, `TimersDone` | rounds of `checkTimerQueue` |
| `SwitchThread` | `SwitchThread` |
| `Exit` | `reschedule` finds no live thread |
| `Tick` | the clock advances |

What is abstracted, and why that is sound for what is checked:

* *Preemption.* The interpreter reschedules when `Timeslice`, decremented at
  branches and returns, reaches 0. In the model `Yield` may happen before every
  action.
* *Balanced code.* `StopThread` requires that the thread owns no monitor: a
  method that ends, normally or not, releases the monitor of a synchronized
  method, and compilers balance `MONITORENTER`. The code has no check of its own
  at this point.
* *Time.* Wakeup times are relative; `Tick` lowers the pending ones. The clock
  is read only by `registerAlarm` and `checkTimerQueue`, and between two bytecodes
  that register an alarm there is always a reschedule, so it is enough to advance
  it before `SwitchThread`.
* *Building of threads.* `getVMthread` builds the `THREAD` of a Java thread when
  a native first names it. `SetPriority` stands for the natives that do nothing
  else.
* *Events.* `InterpreterHandleEvent` only sleeps or delivers events; it is in
  `KVMEvents`, with the debugger.
* *A fatal error* stops the model, as `fatalError` stops the machine.
* *Exceptions.* Raising one changes none of this state; `MonitorExit` and
  `MonitorNotify` by a thread that is not the owner are therefore left out.
  `monitorWait` attaches a real monitor before it checks the owner, which is in the model.

`ReInterrupt` and `HashOnMonitor` are switches of the environment. With
`FALSE` the program never does the one thing each names, which leads to findings 1 and
2 of section 5; the other runs then show that nothing else is wrong.

### 2.3 `JavaMonitor` and the refinement

`JavaMonitor` has an owner, an entry count, an entry queue and a wait set for
each object, and knows nothing of representations. The mapping takes the owner and
the count from wherever the lock word says they are (`Owner`, `Depth`), the queues from
the real monitor if there is one, and the saved counts from `monitor_depth`.
Inflation, deflation, caching, hashing, scheduling and time are stuttering steps. An
interrupt or alarm is `Leave`, the end of a thread is `NotifyAll`. TLC checks the
mapping in `threads` and `locks`; `KVMThreadsProofs` proves it (section 4).

### 2.4 `ClassLoading` and `ClassInit`

`loadClassfile` goes up the superclasses, which it loads, then links from the top
down, and calls itself for interfaces. `loads` is the stack of these calls.
`LoadRawClass` reads one class file, which may be missing, malformed or fine (the
classes of `MayFailToLoad`; each attempt chooses anew, as the code's comment on
"transient" errors has it). `SuperMostUnlinked` states the loop of `findSuperMostUnlinked` by its result: of the classes that `superClass` leads to without passing a linked one
(`UnlinkedChain`), the one below a linked class or at the top. `LinkInterface`, `LinkFails` and `LinkClass` are the second
loop, `Catch` is the `CATCH` that reverts classes (`Reverted`: only the initiating class, since
`revertToRawClass` clears the `superClass` the loop would go on with; see section 5)
and throws on. No other thread runs during a load.

`runClinit` (`class.c`) is a state machine that the interpreter calls again and
again until it pops its own frame. `frames[t]` is the stack of these frames, of each the
class, the state on its operand stack and whether the frame of `<clinit>` is above it.
`Case1` to `Case6` are the cases of its `switch`, `MarkClass` and
`UnmarkClass` its labels. A case that falls through to the next
one, or raises an exception, keeps the processor: `busy` and `point` say so
(`point` -1 is inside `throwException`, -2 inside `loadClassfile`),
and no other thread moves. When it returns, the interpreter may
reschedule before it comes back, which is where the interleavings are.

| Action | Code |
| --- | --- |
| `Load`, `Loading` | a bytecode resolves its reference: `getClassX`, `loadClassfile` |
| `Use` | a bytecode that needs a class (`CLASS_INITIALIZED`), `initializeClass`, with `VerifyFails` (`verifyClass`) and `StackOverflows` (its `CATCH`) |
| `Case1` ... `Case6` | `runClinit` |
| `ClinitReturns`, `ClinitThrows` | the end of `<clinit>`, which may throw by itself or by using a class in error |
| `PendingException` | `SwitchThread` throws what `interruptThread` left |
| `ClinitException` | `runClinitException`, and the next frame of `throwException` |
| `Lock`, `Unlock` | a program synchronizes on a class |
| `Interrupt` | `interruptThread` |

Abstracted: of verification, its outcome; the class hierarchy is given; a
`<clinit>` uses the classes of `Uses`, in any order and as often as it likes. The
two exits of a wait that is cut short by an earlier interrupt (the interpreter calls
`runClinit` again at once, or reschedules first) are two disjuncts of `Case2`. A `<clinit>` that
waits for a class which waits for it would be a deadlock of the program; `Uses` has
none, and a program that synchronizes on a class uses no other class there.

### 2.5 `KVMEvents`

Three parts of the machine meet in `resumeThread`: a thread that waits for an event
is `SUSPENDED`, the debugger may have made it `DBG_SUSPENDED` too, and it may run
when both are gone. `sched` has the flags, the suspend counts, the run queue, the current
thread and whether the registers of each thread are saved; `queue` has `eventBuffer`,
`eventInP` and `eventCount`; `vm` is the place in the loop of `reschedule()`.

| Action | Code |
| --- | --- |
| `Arrive` | a native event occurs in the host system |
| `ReadOneEvent`, `ReturnFromWait` | `readOneEvent`: finds a cell, or suspends the thread with 0 on its stack; later returns what is there |
| `Start`, `Reschedule` | `Thread.start0`; the end of a time slice, or an event of the debugger (`handleSuspendPolicy`) |
| `HandleEvent`, `NoEventWanted` | `InterpreterHandleEvent` with and without a waiting thread |
| `SuspendCommand`, `ResumeCommand`, ... | the commands `ProcessDebugCmds` takes: suspend and resume one or all threads; the connection is lost and made |
| `Switch` | `SwitchThread` |

`GetAndStoreNextKVMEvent` is written by each port; the model lets it pass any number
of the native events on, in order, and, when it may wait for ever, at least one. An event that
does not fit the buffer is dropped (`Fits`). `Exclusive` and `CarefulDebugger` are switches of
the environment: with `TRUE` one thread at a time reads an event, and the debugger resumes
only what is suspended. Section 5 says what happens otherwise.
`EventAssumption` asks that `AllThreads` lists every thread once, as `BuildThread` makes it, and that there is one.

### 2.6 `AsyncIO`

Here threads of the operating system really run at the same time, so an action is a
critical section, or code whose steps no other thread can tell apart.
`main` is where the main thread is: in Java code, in a call (`acquire`, `call`,
`handover`), in a collection (`rundown`, `mark`, `sweep`, `update`, `updated`) or between two
lives of the machine (`down`, `init`). `io[w]` is where I/O thread `w` is:
`wait`, `woken`, `taken` and `start` while it picks up a request, `blocked` in the primitive,
`returned` and `enter` on its way back, `done`, `resumed` and `free` while it ends the call.

| Action | Code |
| --- | --- |
| `CallNative`, `AcquireAsyncIOCB`, `CallAsyncNativeFunction`, `HandedOver` | the interpreter calls an `ASYNC_FUNCTION`: takes a block, suspends the Java thread, hands the block over and spins until it was taken |
| `GarbageCollect`, `RundownAsynchronousFunctions`, `MarkRoot`, `Compact`, `UpdateRoot`, `RestartAsynchronousFunctions` | a collection, which reads and writes the pointers of the blocks one by one |
| `WaitForSingleObject`, `TakeParameters`, `ClearInputQueue` | `asyncThread`, `processAcyncThread` |
| `ArgumentError`, `EnableGarbageCollection`, `PrimitiveReturns`, `CheckVersion`, `IncrementAsyncCount` | a native function with its `ASYNC_enableGarbageCollection` and `ASYNC_disableGarbageCollection` |
| `ResumeThread`, `Epilog`, `AbortAsyncIOCB` | `ReleaseAsyncIOCB` |
| `Cleanup`, `InitalizeAsynchronousIO`, `StartVM` | the machine ends and is started again in the same process, while calls of its previous life are still blocked (`VersionOfTheWorld`) |

`stale` is the set of pointers that are the old address of an object that moved: `Compact`
makes all of them stale, `UpdateRoot` mends one, and a thread that returns from its primitive
works with what it finds.

### 2.7 `HeapMarker`

One scanner goes through the heap; `markChildren` follows pointers to objects it has already
passed. It has no room for its recursion: the last such child is taken in its own loop, the
depth is bounded, below that an object goes to a table of deferred objects, and when that
is full the object is dropped and the heap scanned once more. `MarkChild`, `FinishObject`,
`ScanObject` and `EndScan` are the steps of this, with `stack` for the calls.
`MarkWeakPointerList` and `MarkWeakReference` then go through the weak objects the last scan has
listed: a pointer to an object that is not kept becomes `NULL`, and a list has its finalizer called for it.
Two histories say what finalizers owe: `registered` has the objects in lists the roots led to
when the collection began, and `finalized` counts the calls for each object.
An object is its place in the heap; a graph is given with the order of its
nodes in memory, which decides who is passed.

### 2.8 `HeapCompactor`

Live objects slide down. The break table that will correct the pointers has no memory
but the holes they leave, so it moves up ahead of them. `Slide` is one round of
`slideObject`, with its five cases (`SlideBelowTable`, `SlideTableAway`, `SlideSwap`,
`SlideShift`, `SlideRoll`) on memory as an array of cells, each with a value of its own. The
model begins where `sweepTheHeap` ends, with every way to tile the heap with
live runs and holes. `UpdatePointer` is the binary search of `updatePointer`.

### 2.9 `KVMHeap` and `ObjectStore`

`block` maps the address of each header to its size and field. `New` is
`mallocHeapObject` when there is a chunk, `NewAfterCollection` when there is none;
`GC` is `System.gc()`; `CallocPermanentObject` takes memory from the top of the heap.
`Copy`, `Clear`, `GetField` and `PutField` are what a program does with references. `ObjectStore`
has identities and no addresses, and an object is in the store exactly while it
can be reached. The refinement mapping goes through `id`, which the model gives every object.

### 2.10 `InlineCache`

`INVOKEVIRTUAL`, `INVOKEINTERFACE` and `ANEWARRAY` turn into fast bytecodes whose parameter
is the index of a cache entry, which remembers the bytes it replaced; the oldest entry
is put back when its place is needed. `NEW` and `GETFIELD` are rewritten
for good. A breakpoint is one more opcode in the same byte, with the one it replaced in
the event of the debugger, where it is rewritten too. A thread that is stopped remembers the
opcode it is to execute. `image` is what the interpreter and the debugger
write: the code, the cache and the events. There is one method name; which class a call
goes to is decided by `LookupMethod` and `LookupDynamicMethod` (`fields.c`) over
hierarchies of classes, packages and access rights. There are finitely many classes and no circles
(`CodeAssumption`), for which `loader.c` throws `ClassCircularityError`.

### 2.11 `Frames` and `CallStack`

`frames` is the stack of one thread, with the chunk and the cell where each frame lies (`stack`, `lp`), its
return address and its `syncObject`; `ip` is the register, `chunks` the sizes of the linked
chunks. A program is a table of methods (`MethodTable`); the thread may execute its instructions in any order,
since which branch it takes is data. `throw` is what `throwException` has in its
local variables: it goes down the frames while the registers stay, so a frame it is done with is
still in `frames`, without its lock.

| Action | Code |
| --- | --- |
| `Invoke`, `InvokeSynchronized`, `StackOverflow` | `callMethod_general`: `pushFrame`, then `monitorEnter`, either of which may run out of memory; `StackOverflow` is a `pushFrame` that does |
| `Return`, `Jump`, `Monitor`, `Raise` | the bytecodes `RETURN`, branches, `MONITORENTER` and `MONITOREXIT`, `ATHROW` and whatever raises an exception |
| `GoOn`, `Sleep`, `Wake` | a native method, which may suspend the thread; `SwitchThread` throws the pending exception |
| `NewInstance`, `InitializeClass`, `RunClinit`, `CustomCodeEnds`, `TakesLock` | natives and the machine push frames of `Class.runCustomCode` with a callback, and the callbacks pop them (`CUSTOMCODE`) |
| `Catch`, `Unwind`, `RestartOnError`, `Uncaught` | one round of the loop of `throwException`, each with what may fail in it (`Fails`) |

In `CallStack` an activation is *at* an instruction and an exception belongs to that instruction. The
code has no such notion: the saved instruction pointers of some frames are past the call and those
of others are not, and `ipCorrection` tries to tell them apart. The model therefore has a
history variable in each frame (`at`), and the refinement checks the correction. The mapping leaves out the
frames `throwException` is done with, a frame that was pushed and never began (`NotBegun`), and the lock a run method is
still to take. `MayFail` lists what may run out of memory; the collector, which moves stacks, is
not in this model, and waiting for a lock is in `KVMThreads`.

## 3. Runs

| Run | Checks | Instance |
| --- | --- | --- |
| `ring` | `ImplementsQueues` | 4 threads, 2 queues, re-adding allowed |
| `threads` | `ThreadsExact`, `AlarmsExact`, `StopWakesJoiners`, `ImplementsJavaMonitor`, `NobodyOversleeps`, `QueuedThreadGetsMonitor` | 3 threads, 1 object which is also the object of a thread, entered up to twice, sleeps of 1, waits without timeout and of 2, one interruptible thread, under `FairSpec` |
| `locks` | `TypeOK`, `ExtendedLockUnique`, `MonitorsExact`, `HashStable` | 2 threads, 2 objects, 2 monitor structures (symmetric), 3 hash codes |
| `interrupt_twice` | `NoLostThread` is violated | finding 1 |
| `class_init` | `InitializersExact`, `ClinitOnce`, `SuperclassFirst`, `WaiterWakes`, `LoadsAreWhole` | 2 threads; C extends B extends A, C implements D, `<clinit>` of B uses D; C and D may fail to load, B and D to be verified, to initialize, or for want of stack; one thread may be interrupted and synchronizes on A |
| `events` | `SchedulingExact`, `EventsInOrder`, `WaiterGetsEvent` | 3 threads, a buffer of 3 cells, 2 events of 1 or 2 cells, 2 commands |
| `async` | `CallsAccounted`, `CollectorExcludesCalls`, `PointersCurrent`, `NoCallSurvivesRestart`, `HandoverIsSound`, `EverybodyProceeds` | 3 Java threads, 2 I/O threads, 2 blocks, 2 lives of the machine |
| `heap_marker` | `MarkInvariant`, `MarkedIsReachable`, `WeakPointersSettled`, `MarkingEnds` | 4 graphs of 7 objects in every order that has the root at place 5 or 7; recursion depth 1, a table of 1 |
| `heap_compactor` | `MoveInvariant`, `PointersFollowObjects` | every layout of 20 cells |
| `heap` | `HeapInvariant`, `FailsOnlyWhenFull`, `ImplementsObjectStore` | 8 cells, 2 variables, objects of 0 or 2 cells, permanent space by steps of 2 |
| `inline_cache` | `CodeReversible`, `CallsRightMethod`, `BreakpointsArmed` | 2 threads, 3 classes in 2 packages, 6 instructions, a cache of 2, 1 breakpoint event |
| `frames` | `FramesFit`, `ImplementsCallStack`, `ThrowEnds` | 1 thread, 3 methods of different sizes of which one is synchronized, up to 4 frames, 1 object locked up to twice, 3 exceptions |

What the runs show:

* *Threads.* `ThreadsExact` is the central property: each live thread is in exactly one of
  the places it can be, and the count of live threads, which ends the machine at 0, is
  right. `AlarmsExact` says an alarm never survives what
  cancels it, which is what makes `monitorWaitAlarm` safe, that a thread in `wait()` names its monitor (`WaiterHasMonitor`), and that none of the checks of the VM fails.
  `NobodyOversleeps` has two parts, `RunnableRuns` for the run queue and `AlarmGoesOff` for the timers. `MonitorsExact` says that
  a structure in the cache, or dropped by the collector, is clean, on which
  `upgradeToRealMonitor` relies without a check.
* *Classes.* `<clinit>` runs once, below a ready superclass, and who waits for it is woken,
  with failures of loading, verification, stack and `<clinit>` itself in every order two
  threads can bring about. `LoadsAreWhole` says that a failed load leaves no class half done, as long as nothing that can fail to load is a superclass.
* *Events.* `SchedulingExact` has the invariant `resumeThread` relies on (the run queue holds
  exactly the threads that wait neither for an event nor for the debugger, with their registers
  stored). `EventsInOrder` says that what programs read is what was stored, no cell
  lost, doubled or swapped, when events do not fit or arrive while nobody reads.
* *Asynchronous natives.* The collector never runs while a call uses the heap; a call that
  comes back after any number of collections has current pointers; no call of a previous life
  touches the new heap; the one-element hand-over never loses or doubles a request; and
  everybody proceeds, with blocks exhausted and a primitive that never returns.
* *Collector.* Exactly the reachable objects are marked, although an object may be dropped from
  the recursion at any point; the table of moves and the objects never overwrite each other;
  a program sees a store without a collector, and `OutOfMemoryError` means
  that there is no room even for a compact heap.
* *Code.* Every rewriting of code can be undone, an instruction does what the class
  file says whatever the cache did to it meanwhile, and breakpoints stay armed.
* *Frames.* Whatever was called, returned and thrown before, each frame has its cells to itself,
  with chunks reused, replaced and dropped. Every exception reaches the handler Java says, through native methods and
  callbacks, each lock is given back once, no method goes on without its lock, and
  `throwException` comes to an end even if the program gave those locks away.

*Bounds and why they are enough.* Queues need three threads for one to be in the
middle, alarms need two of different length to overtake; confusion between
objects needs two objects, and two monitor structures to be exchanged through the
cache. Nesting to 2 reaches every branch of `monitorEnter` and `monitorExit` (a
simple lock becomes extended at 2). `ShortMax` replaces 32767 and is larger than the
nesting: that `wait()` saves the `long` depth in a `short` is modelled (`AsShort`), that
32768 entries overflow it is not run. In `locks` `MaxHash` is larger than the
number of objects, so that a second code for an object can appear.
The classes of `class_init` have a superclass, a superclass of that and an interface, all reached in
two ways; one thread initializes while the other waits, or holds the monitor.
In `events` three threads are one that reads, one that runs and one the debugger has; the buffer wraps
(it is reset when empty) and overflows with two events. In `async` there are more callers
than I/O threads or blocks, so that both run out, and a second life meets calls of the first. `MAX_GC_DEPTH` and the
deferral table are 1, so that seven objects reach both limits and a rescan; the
depth and size of the code (4 and 40) would need hundreds. In 14 cells
every case of `slideObject` happens, `SlideRoll` with an odd number of
cells and no room included; 20 cells have tables of up to five entries that are rolled and swapped several times. In `heap` two objects and a hole decide between first fit and
compaction, a chunk is one cell too large, and permanent space takes
memory twice. In `inline_cache` the third cached instruction evicts the first.
In `frames` calls of `main` and `locked` reach the exact end of a chunk of 128 cells, `large` needs
a chunk of its own, larger than the usual, and four frames then leave chunks behind that are too small for it, or larger
than what reuses them. In each method of `PaddedCode` a call ends a try block and another instruction begins
one, so that being off by one instruction shows; instructions with a known flaw (finding 16) are kept from these edges.
States that differ by a permutation of interchangeable values are counted once in `locks`, `heap` and
`inline_cache` (`SYMMETRY`); `heap` also ignores which identity an object has and the fields of garbage (`VIEW`).

*Fairness.* The interpreter is a loop that goes on with what it is doing
(`WF` of `Reschedule`); a thread that runs loses its time slice, since every loop
contains a branch (`WF` of `Yield(t)`); the clock advances whenever the machine
waits over and over again (`SF` of `Tick`, which is enabled only in one phase of each
round). `QueuedThreadGetsMonitor` has an assumption about programs, not about the machine, as
its premise: a thread that runs over and over again is over and over again without the monitor.
In `ClassInit` every thread makes
progress inside `runClinit` (`WF`), which is what `RunnableRuns` shows of the scheduler,
and a `<clinit>` or synchronized block ends (`SF`: it does not try for ever to use a class that cannot be loaded).
In `KVMEvents` the loop of the machine goes on, and time slices end; a native that is about
to return does so before its slice ends (`SF`). `WaiterGetsEvent` holds if the debugger lets all threads go again and again.
In `AsyncIO` the main thread and each I/O thread go on (`WF`; threads of the operating system). That
primitives return is *not* assumed, except in `CallCompletes`, which says so in its
premise, together with an end of collections: `incrementAsyncCount` polls a flag and may miss
every gap between two of them. In `HeapMarker` the collector runs to its end, and in `Frames` `throwException` does,
which is a C function.

*Deadlock* is checked in all runs but `events`, where the machine sleeps for good when
no native event and no command is left by the bounds, and `frames`, where a thread ends.

## 4. Proofs

**Threads.** The first part of `KVMThreadsProofs` proves, for all threads, objects, monitors and bounds that
satisfy the two assumptions of `KVMThreads`:

* `TypeCorrect`: `Spec => []TypeOK`;
* `ExtendedLocksAreUnique`: `Spec => []ExtendedLockUnique`;
* `WaitersNameTheirMonitor`: `Spec => []WaiterHasMonitor`.

None of these is inductive alone. That the depth of an extended lock stays a
natural number after `monitorExit` needs to know that a lock word which names the
extended lock of a thread implies that the lock is taken; that needs uniqueness,
since otherwise another object could have freed it; and that the owner written into a
monitor by `interruptThread` or an alarm is well typed needs the waiter to have a
monitor. Their conjunction `LockInv` is inductive (`LockInvariant`).

The argument follows the code. There is a lemma about each shared operator
(`ResumeFacts`, `RemoveMonitorWaitFacts`, `AddMonitorWaitFacts`,
`RemoveCondvarWaitFacts`, `AttachFacts`, `AllocateFacts`, ...) which says that its
result is well typed, whether it changes the extended locks, and that waiters still
have monitors. `LockTaken` and `LockFreed` say how
uniqueness survives when one object takes or gives back one extended lock; `SameLocksMatch` says
that it survives everything else. Each action then has a lemma that puts these together,
and `NextLockInv` splits `Next`. `ThreadQueueProofs` has the types of the queue
operators; `removeThreads` is a recursive function, for which `NatSetInduction` provides
the induction needed (over a set of numbers, since the library's takes a predicate).

**Scheduler.** The second part of `KVMThreadsProofs` proves, for any threads, objects, monitors and bounds,
from `ReInterrupt = FALSE` (no thread is interrupted between its `wait()` and its return with the
monitor: otherwise threads are lost, finding 1):

* `NoThreadIsLost`: `Spec => []ThreadsExact`;
* `AlarmsStayExact`: `Spec => []AlarmsExact`;
* `MonitorsStayExact`: `Spec => []MonitorsExact`, if no lock is entered more often than a `short` can count
  (`MaxDepth <= ShortMax`: the depth that `wait()` saves would otherwise come back as another number, perhaps 0);
* `HashCodesAreStable`: `Spec => []HashStable`, if `HashOnMonitor = FALSE` (finding 2);
* `EndingWakesJoiners`: `Spec => StopWakesJoiners`, an action property.

`ThreadsExact` says that a live thread is somewhere; it does not say where, and an action that finds a
thread in one queue must know that it is in no other. The invariant `SchedInv` therefore has `Placed`: the
state of a thread (one of the five sets of flags a live thread can have, or one of three of a
thread that is not alive) says in which queue it is, which monitor it names, and which
wakeup call it has; the queues hold nothing else. `Ordered` says that no queue has a thread twice and that
the alarms are sorted, `Sound` that nobody queues for a free monitor, `MonitorUnique` that no two objects
share a monitor and that one which serves none is clean. These need each other: `removeMonitorWait` makes the first
thread of a queue run, which is in no other queue only because of `Placed`; a monitor
that is given back has no waiter that still names it only because of `Placed`, and is clean
only because of `Sound`; `upgradeToRealMonitor` moves depth and hash code of an extended lock, which needs
`LockInv`. The conjunction is inductive (`SchedInvariant`).

Since one action of the interpreter composes several C functions, the lemmas are about states on the way: the
parts of the invariant take the thread table, queues and monitors as parameters. `Away` is a
thread that was taken out of its queue and is not yet in the next. There are two lemmas for each shared function, one on what it
does (`ResumeEffect`, `AddMonitorWaitEffect`, `RemoveCondvarWaitEffect`, `RegisterEffect`, `AttachEffect`, ...), one on
what it keeps (`HandOverPlaces`, `AddMonitorWaitPlaces`, `RemoveCondvarWaitPlaces`, ...), then one for
each action. `ThreadQueueProofs` has what the queue operators do to the members, the order and the
uniqueness of a queue, by induction where they are recursive.

`StopWakesJoiners` speaks of any step after which a live thread is dead, not of `stopThread`. `AllThreads` tells
which it was: by `SchedInv` it lists the threads that were built and are not dead, `ListKept` says that every step
leaves it alone, adds a thread or is a `StopThread`, and a `StopThread` takes away one thread, its own (`OnlyStopThreadEnds`).
That step notifies all waiters (`JoinersLeave`).

**Refinement of the locks.** The third part of `KVMThreadsProofs` proves `LocksAreJavaMonitors`: `Spec => ImplementsJavaMonitor`,
that is `Java!Spec` under the mapping of section 2.3, from the same two
hypotheses as `MonitorsStayExact`, and for the same reasons: a thread that is lost never gets the monitor
that `JavaMonitor` gives it, and a depth cut to a `short` is another count.

`InitSeen` maps the initial states, `NextSeen` maps each step, under `SchedInv`, to the step of `JavaMonitor` it stands for or to
none. `Becomes` says what `JavaMonitor` sees of one object after a step, `Unseen` that it
sees no change. An action touches the lock of one object: `OthersUnseen` and `OtherSeen` show that
nothing else is seen to change, which is where `MonitorUnique` and the uniqueness of extended locks come in, and
`StutterSeen` puts the unseen ones together for the steps that map to none (inflation, deflation, hashing, scheduling).
The C functions that several actions share each have a lemma that says what they are at the
abstract level: handing a monitor over is `HandOver`, notifying is `Requeue`. A thread leaves the wait set at the
place `removeFromQueue` finds, which is the one `JavaMonitor` means only because
nobody is in a queue twice (`RemoveIsRemoveFirst`). There is then one lemma for each action
(`MonitorEnterSlowSeen`, `MonitorExitSlowSeen`, `MonitorWaitSeen`, `InterruptSeen`, `FireAlarmSeen`, `StopThreadSeen`, ...).

**Asynchronous natives.** `AsyncIOProofs` proves, for any number of Java threads, I/O threads
(finitely many), blocks and restarts (`AsyncAssumption`):

* `CountIsExact`: `Spec => []AsyncCountExact`, the count the collector waits for is the number of calls that may touch the heap;
* `CollectorExcludes`: `Spec => []CollectorExcludesCalls`;
* `PointersAreCurrent`: `Spec => []PointersCurrent`;
* `HandoverSound`: `Spec => []HandoverIsSound`;
* `NoSurvivor`: `Spec => []NoCallSurvivesRestart`;
* `AllCallsAccounted`: `Spec => []CallsAccounted`, which also says that no block is lost and that a suspended
  thread has exactly one call under way that will resume it.

The inductive invariant comes in four layers, each proved with the ones below it.
`CallInv` is about control: the flag of the collector agrees with the phase of the
main thread, the hand-over variables with the one request under way and the one thread woken for it,
the count with the calls (`AsyncCountExact`), and both with `CollectorExcludesCalls`.
The count is a cardinality, so each step has to say who enters or leaves the
set of users (`UsersSame`, `UsersMove`), and finiteness of `IOThreads` is used. `BlockInv`
is about the control blocks: every block has one owner (the free list, the request, or one I/O thread),
free blocks hold no object, and the pointers the collector still has to visit in its
present pass are exactly those that may be stale; a call that has come back therefore has current
ones, because by `CollectorExcludesCalls` no pass is under way. `WorldInv` is about
restarts: a call knows the version it began in, and `StartVM` waits until all blocks are
free, which by counting (`AllFree`, an injection between equal finite
sets) means that no I/O thread holds one. `AccountInv` adds what `BlockInv` does not need: that a
block is *somewhere*, and that who is suspended is waited for by one request or I/O thread (`Served`). A call is known by the
pointer to its thread in its block, so `RootsKept` and `RootsIO` show that nobody changes this
pointer while the block is in use; the collector, which writes back what it read earlier, does not
because it read the same (`Keeps`). A call that finds another version of the world gives its block back
without resuming anybody: `Served` survives because by `WorldInv` this happens only without a heap.

**Marking.** `HeapMarkerProofs` proves, for every object graph, every order of the objects in
the heap, every recursion depth and every size of the deferred table (`GraphsAssumption`):

* `MarkInvariantHolds`: `Spec => []MarkInvariant`, which says that the recursion is bounded and that no
  object still to be visited is forgotten;
* `MarkedIsReachableHolds`: `NoSubclasses` implies `Spec => []MarkedIsReachable`. Without
  `NoSubclasses` it is false (section 5, finding 10).

`NothingForgotten` is not inductive. `MInv` adds what the code relies on: the depth of a call
follows from its place on the stack, so that the last call is the outermost one and
returns only when the table is empty; what waits in a call or the table
is marked; the fields a call is past point to marked objects, so that an object is complete when its call
goes on to another one; and a child that is marked without a visit is ahead of the scanner and not at it,
since the object at the scanner is marked while a call is active. `TopReplaced`, `VisitStep` and `ReturnStep` say
how a step keeps this; there is a lemma for each action (`RootsStep`, `ScanStep`, `MarkStep`,
`FinishStep`, `EndScanStep`, `WeakSteps`).
At the end nothing waits, so every marked object is complete. That the marked set is then `Reachable` needs
two facts about reachability. It is the least set with the roots that is closed under
pointers (`ReachableIsLeast`), and it is closed: each of its `HeapLen` steps that
does not end the search adds an object, and there are only `HeapLen` objects (`ReachableIsClosed`).

`WeakPointersSettledHolds` is about what comes after: `Spec /\ RegisteredOnce => []WeakPointersSettled`,
again under `NoSubclasses`. `RegisteredOnce` says that at the start no object is twice in the lists
the roots lead to, that is, nobody called `registerCleanup` twice for it; otherwise its finalizer is called
twice, as the code says. (The shorter list that `registerCleanup` leaves behind when it
makes a longer one holds the same objects, but nothing leads to it.) The hard part is that a weak object is put
in its list once in a scan and is there at the end, although the children are visited in
no fixed order and the lists are emptied and made again by each scan. The invariant `WInv` adds to `MInv`:

* no object waits in two places of the calls and the table (`Apart`, `Held`). It is what keeps
  `PushWeak` from listing an object twice, since one that has been met is marked;
* in a scan the lists hold only weak objects the scan has met and that wait no more (`Visited`), each
  once, and all of them unless the table overflowed (`ScanLists`). An overflow loses some, but then there is another
  scan, which starts with empty lists; so after the last one they are complete;
* after the scans, a marked weak object is in a list or its pointers are settled (`LaterLists`);
* the lists in use hold exactly what is registered and not finalized, and what is finalized is
  not marked (`Finalizers`); `CallsOnce` counts the calls that one list makes.


**Frames.** `FramesProofs` proves, for all methods and frame sizes, exceptions and
bounds (`MethodAssumption`, `FramesAssumption`):

* `FramesAlwaysFit`: `Spec => []FramesFit`: every frame lies in a linked chunk with room for its operands, and no two
  overlap, whatever memory there is;
* `CallsAreJavas`: `Spec => ImplementsCallStack`: `Frames` implements `CallStack`, under three hypotheses. `Verified`
  is what the verifier guarantees of code (a call is followed by an instruction, handlers and try blocks begin and
  end with instructions). `TablesFit` says that no try block begins or ends just after an instruction
  whose exception `throwException` looks for there, and that the first instruction of a synchronized method is
  in no try block for `OutOfMemoryError`. Of what may run out of memory, `MayFail` may have new chunks and the lock on
  entry, and neither the lock of `run()` nor what `throwException` itself needs. The second and the third
  exclude findings 16, 17 and 18, without them the theorem is false. `MCFrames` assumes `TablesAssumption`, that the methods of the run
  satisfy `Verified` and `TablesFit` and that the tables of the findings satisfy only the former.

`FramesFit` speaks of the cells that frames use; these do not determine what the next call or return
leaves behind. The invariant `Inv` keeps three facts of the list of frames (`Sound`): each frame has room in its chunk for all operands it may ever
have (`FrameFits`); its successor took the arguments from these operands (`LeadsTo`); and
frames lie in their chunks in the order of the calls (`Apart`). It also says that `throwException` goes down
frames that are there. `Sound` is closed under what the steps do: `PushSound` is about
`pushFrame` with its three ways to a chunk, `PrefixSound` about returns and exceptions that drop any number of
frames, `SameSound` and `FieldSound` about steps that change only the program counters and locks of frames. Each action then has a
lemma that reduces it to these (`InvokeStep`, `ReturnStep`, `CatchStep`, `UnwindStep`, ...), and `FitIsSound` derives `FramesFit`.

For the refinement the question is whether what `throwException` makes of a return address is a place of the calling
instruction. `CallInv` therefore keeps, for any two frames, which kind of instruction called and where its return address
is (`Chain`, `Called`): after an `INVOKE`, at an instruction that initializes a class, after a native method that
pushed a callback, at 0 in a callback. `AtCaller` derives from it that the corrected address is one of the three
places of `At`, and `HandlerAt` that the exception table says the same there as at the instruction. `CallInv` also
says where the registers are (`Resting`), that the frame of a synchronized method whose lock could not be had has no handler
(`NotYet`, `NoHandlerYet`), and that only a thread that has just started has a `run()` without its lock (`Starting`).
The mapping is a function of the list of frames (`Shown`, `Views`); there is one lemma per action (`InvokeSeen`,
`CatchSeen`, `UnwindSeen`, ...) which names the step of `CallStack` it is, or that it is none (`SleepSeen`).

**Class initialization.** `ClassInitProofs` proves, for any threads, classes, class files (with circles too), failures, locks
and interrupts that satisfy `LoadingAssumption` and `ClassAssumption`:

* `OneInitializerAtATime`: `Spec => []InitializersExact`;
* `ClinitRunsOnce`: `Spec => []ClinitOnce`;
* `LoadsLeaveClassesWhole`: `Spec => []LoadsAreWhole`, if what can fail is below (`Below`; otherwise it is false, finding 6);
* `SuperclassesGoFirst`: `Spec => SuperclassFirst`, if in addition no error reaches the superclass of a class with a `<clinit>`
  (`SupersSucceed`; otherwise it is false, finding 4).

`InitializersExact` is not inductive: it says who has passed step 6, not what the
others are about to do. The invariant `CInv` (`ClassInvariant`) has for every thread which states its frames may be in:
only the top frame is in states 1 and 2, a frame below waits for a superclass or for its `<clinit>`
(`FramesOK`), the point at which the thread is inside the virtual machine agrees with the state on its stack (`BusyOK`), and
a thread that waits, or was interrupted while it did, is in state 2 and not busy (`WaitsOK`), so that an exception never
meets it elsewhere. `MarkedOK` says of a frame past step 6 that it is the only one for its class, that
the class names its thread, and whether `<clinit>` has been called by then. `RunsInv` says the same of a class that nobody
initializes: its `<clinit>` was called if it is ready, and not again after an error.

The part that is easy to overlook is the loader. A failed load makes a class raw again, and a class that was
initialized before would be initialized a second time. `LoadsInv` excludes this: each call of `loadClassfile`
reverts only the class it was made for, and links only classes of a set `S` (`Chain`) of superclasses which are all
early, that is not verified, initialized or in error, and which holds every unlinked class that its members lead to. That
`findSuperMostUnlinked` stays in this set is `LinkedIsEarly`; that the sets of the outer calls survive what an inner one
does is `ChainKept`.

What a load leaves behind is right only where the loop of `revertToRawClass` that ends too early (finding 6) has nothing left
to revert. `Below(E, G, depth)` says when: class files name each other without circles (`depth`); every superclass is one of the classes `G`, whose loads
always succeed because neither they nor what they name can fail or be in error; and `E` holds all classes that can end in
error, which with a class has its subclasses and those whose `<clinit>` uses it or uses one outside `G`. Whatever else fails, at any depth of nested loads,
is allowed. The module `MCClassInit` asserts that the instance of `class_init` satisfies it and `SupersSucceed`, with C and D outside `G` and A alone outside `E`.
`LoadsAreWhole` speaks of the time between loads; the invariant `WholeInv` says what is under way. For each call of `loadClassfile` there is
a path `P[k]` of classes that it has loaded and not linked, from its class up (`PathOf`, `Held`), whose highest one has the interfaces
linked that the call is past (`LinkOK`); every class that is not whole is on one of the paths. A call that fails has one class at most on
its path (`ThrowFacts`), which is the one that is reverted, and its class is not in `G`; hence an outer call it fails to is for a class with an interface outside `G`
and has itself no more than that class on its path (`FailsAlone`). `BlameInv` has the other half: who gets in error, which later loads would stumble
over, is in `E`, because a frame whose class is in `E` is above one whose class is too (`NestOK`), an exception is only under way in such a frame (`ThrownOK`),
and the bytecode whose class does not load belongs to one (`AskedOK`).

`SuperclassFirst` looks at one step, the call of `<clinit>`, but what it asks for was found out earlier: in step 7, or in
the frame of the superclass, which waited or ran in between. `SuperInv` carries it there: the frame above one that waits is that of its superclass
(`BelowSuper`), and a thread that comes back to step 8 has a superclass that is settled or that it initializes itself, further down
(`SuperBehind`). Each way out of a frame leaves its class so (`SuperPopped`): the class is ready, or in error, or `markClass` found
that the thread was at it already. Nobody else takes this away (`Settles`); that a settled class is not one in error is `BlameInv` with `SupersSucceed`.
That the superclass the frame looks at is the one of the class file is `LoadsAreWhole`.

**Events and the debugger.** `KVMEventsProofs` proves, for any threads, native events, size of the buffer and commands that satisfy
`EventAssumption`:

* `SchedulingStaysExact`: `Spec => []SchedulingExact`, if `CarefulDebugger` (otherwise it is false, finding 12);
* `EventsStayInOrder`: `Spec => []EventsInOrder`, if `CarefulDebugger` and `Exclusive` (finding 13).

`SchedulingExact` does not say what holds inside `suspendThread()`, which flags the current thread, may let the debugger
suspend it or all others, and only then empties `CurrentThread`. `Good` therefore says of the
threads, at any point of the C functions, which combinations of flags occur, that the current thread may be
suspended but not by the debugger, and that it is in the run queue never and any other thread exactly when its flags are those of a thread
that runs. One lemma for each function shows that it keeps `Good` and whose `SUSPENDED` flag it changes (`SuspendOne`, `ResumeOne`,
`ResumeWaiting`, `StartRuns`, `FlagCurrent`, `DropCurrent`, `SwitchRuns`); `SuspendAll` and `ResumeAll` carry this through the
loops over `AllThreads` by induction. That nobody is resumed who runs, which is what `fatalError` in `resumeThread` and the re-linking in
`addThreadToQueue` are about, is where `CarefulDebugger` is needed. `SchedInv` adds that between actions the current thread is not suspended and the waiting one is.

For the events, `Queues` says what the indices of the buffer mean and that real cells lie between them, and `InBuffer` is what is left in
the buffer. `StoreEffect` shows that `StoreKVMEvent` appends to it all cells of an event or none, also when it starts again
at the beginning of an empty buffer; `NextEffect` that `getKVMEvent` takes its first cell; `AcceptedEffect` follows the
native events a port passes on, by induction, and `GetEffect` puts these together. `ReaderInv` says that one thread reads at most, that the one
with 0 on its stack is the waiting one, and where the cells are: read, on the stack of one thread, or in the buffer. That a thread which
returns from `readInt()` has a cell and not the 0 follows from `SchedInv`: it runs, so it does not wait.

**Inline cache.** `InlineCacheProofs` proves, for any classes, hierarchies, locations, threads, sizes of the cache and commands
of the debugger that satisfy `CodeAssumption`:

* `Reversible`: `Spec => []CodeReversible`, and `Armed`: `Spec => []BreakpointsArmed`, from
  `BreaksKeepParameters`: breakpoints are set only where the interpreter never rewrites the parameter (`NEW`, and
  an `INVOKEVIRTUAL` that becomes `INVOKESPECIAL_FAST`). Elsewhere they are false (finding 9);
* `CallsRight`: `Spec => []CallsRightMethod`, if besides steps stop threads only at such locations that have no
  breakpoint (`StepsKeepParameters`, finding 9), a method is found at each call, as linking
  requires (`MethodsResolve`), and the hierarchy has no namesakes, which `OverridesCompose` says without looking at
  packages: lookup that begins from the method of one receiver finds what lookup from the declared one
  finds (finding 8). The run `inline_cache` satisfies all of them.

`CodeReversible` says what each location has; what a release needs to know is what each *entry* has, and
of which entries. The invariant `CodeInv` (`CodeInvariant`) says for every location that it is as in the class file, fast for good
with its own parameter, or cached by a live entry that has its bytes (`LocationGood`); that a live entry names a location that
names it (`CodeGood`), so that no two entries are for one place and the release of one is not seen elsewhere; that a breakpoint in use is in the code with a
kept opcode in its event, once for each place (`EventsGood`); and which opcodes a stopped thread may
remember (`StopsGood`). `ReleaseEffect` and `EnterEffect` show what releasing and making an entry keeps, `FreedEffect` and `QuickenEffect` put them together for a cache
that is full or not; `FinalizeInlineCaching` and `clearAllBreakpoints` are inductions over the
entries and events. `CallInv`, for the third theorem, says that a live entry has the method of some receiver of its
location. That lookup finds a method for each receiver needs the chains of superclasses: they are there since
the classes have no circles (`ChainExists`), and a final class is at the end of those it is on (`ChainFacts`).

**Only model-checked.** Liveness under fairness (`NobodyOversleeps`, `QueuedThreadGetsMonitor`,
`WaiterWakes`, `EverybodyProceeds`, `MarkingEnds`, `WaiterGetsEvent`, `ThrowEnds`) is out of reach of the prover.
`MoveInvariant`, `PointersFollowObjects`, `HeapInvariant` and `FailsOnlyWhenFull` speak of sums and walks over
the chunks of the heap, and the refinements by `ThreadRing` and `KVMHeap` of walks along links: each needs an
induction over that data, which the prover cannot instantiate. They hold in the instances above
and are not proved.

## 5. Findings

Finding 1 has a run of its own. The others are shown by a change of the constants of a run, named with each: the
run checks that nothing else is wrong. Paths in `VmCommon/src` unless given.

1. *A thread that is interrupted while it re-enters a monitor is queued twice*
   (`thread.c:617`; run `interrupt_twice`).
   `interruptThread` looks at the flag `THREAD_CONVAR_WAIT`, which stays set when
   notify, a timeout or a first interrupt moves the waiter to the queue of the
   monitor. A further interrupt adds it to that ring again, and the threads behind it
   are lost. The comment on `addThreadToQueue` (`thread.c:1963`) forbids exactly this.
2. *The hash code of an object changes when its lock is inflated.*
   `monitorHashCodeAddress` has no case for `MHC_MONITOR` although the structure
   has a `hashCode` field and the comment (`VmCommon/h/thread.h:559`) promises its address.
   `locks` with `HashOnMonitor = TRUE` violates `HashStable`.
3. *Interrupting a thread that waits for a class ends the virtual machine.* The
   wait of step 2 happens in state 2, which `runClinitException` does not expect
   (`class.c:342`). `ExceptionInExpectedState` fails in `class_init`.
4. *A subclass is initialized under a superclass in error.* Step 5 of `runClinit`
   ("What can we do?") pops its frame without an exception, so the subclass that
   waited for the superclass goes on with its own `<clinit>`. The version in
   `src/cldc1.0.3` raises `NoClassDefFoundError` at this point. `class_init` with `MayFail` a class
   that is a superclass (`{A}`) violates `SuperclassFirst`.
5. *A waiter is forgotten when initialization fails.* `runClinitException` cannot
   suspend the thread, so it notifies only if it gets the monitor at once
   (`class.c:402`). An error while a third thread holds the monitor loses it: one class, three threads and
   `Lockers <- LockAny` violate `WaiterWakes`.
6. *A failed load is undone for one class only.* The loop at `loader.c:2306` is to revert the
   classes from the initiating one up, but `revertToRawClass` clears the `superClass`
   it goes on with. A superclass stays loaded and not linked: the next attempt
   takes it for a circle and throws `ClassCircularityError`, or, for a malformed superclass
   left in `CLASS_LOADING`, ends in `fatalVMError` (`loader.c:2108`), although the comment there calls these
   errors transient. `class_init` with `MayFailToLoad = {A}` or `{B}` violates `LoadsAreWhole`.
7. *A stack overflow puts a class in error that another thread initializes.* The
   `CATCH` of `initializeClass` (`class.c:122`) does not look at `initThread`. `StackOverflows`
   has it; `ClinitOnce` allows for it.
8. *An inline cache entry gets the wrong method.* On a miss `INVOKEVIRTUAL_FAST` (`bytecodes.c:3109`)
   looks up the method from the one of the last receiver instead of the one that was declared. With A in
   package p declaring a package-private `m()`, B in p making it public and D, another
   subclass in package q, declaring a public `m()` of its own, a call for a B makes
   the next one for a D call `D.m` instead of `A.m`. `inline_cache` with `Hierarchies <- AllHierarchies` violates `CallsRightMethod`.
9. *Breakpoints and rewritten code.* `createInlineCacheEntry` saves the byte that is there, which
   may be `BREAKPOINT`; `releaseInlineCacheEntry` restores through `replaceEventOpcode`, which
   takes `ip_global`, the instruction that is being executed, for the one that is restored; and a stopped thread
   remembers an opcode whose parameter another thread has rewritten since. A step that stops a thread at a breakpoint makes it
   remember `BREAKPOINT` itself (`execute.h:355`): if the breakpoint is cleared and its event used for another
   place, `handleBreakpoint` finds no event and raises `VirtualMachineError` (`debugger.c:2358`). `inline_cache` violates
   `CodeReversible` with `BreakLocations` at one of `lv`, `li`, `la`, `lg` (an `INVOKE` of a class that is not
   final, `ANEWARRAY`, `GETFIELD`), and `CallsRightMethod` with `StepLocations` there, or at a breakpoint.
10. *A subclass of `WeakReference` loses its own fields.* `markChildren` (`collector.c:898`, `706`) goes
    through no field of a `GCT_WEAKREFERENCE`, and `nativeCore.c:926` gives every instance of a subclass that type.
    `heap_marker` with `Graphs <- SubclassGraphs` violates `MarkedIsReachable`.
11. *Permanent memory asked for when live objects fill the heap.* `callocPermanentObject` (`collector.c:333`)
    shortens the last free chunk without looking whether there is one. `heap` with
    `PermanentWhenFull = TRUE` violates `HeapTiled`. A request that does not fit also leaves
    `PermanentSpaceFreePtr` lowered.
12. *Resuming what is not suspended.* `VirtualMachine.Resume`, also called for a lost connection (`VmExtra/src/debugger.c:2505`, `4114`),
    clears `CurrentThread` and resumes threads that run (`thread.c:823`). `events` with
    `CarefulDebugger = FALSE` violates each part of `SchedulingExact`. A thread that was suspended before
    it was started cannot be started (`nativeCore.c:585`, `Start`).
13. *Two readers.* `readOneEvent` overwrites `waitingThread` (`events.c:257`): the first
    reader is never resumed. `events` with `Exclusive = FALSE` violates `NoReaderForgotten` and `StreamInOrder`.
14. *The collector writes into a control block that was freed.* A call ends in three steps
    (`async.c`): it resumes its caller, lets the collector run, and only then clears and frees its
    block. The collector, which reads a pointer of the block before that and
    writes it back afterwards, leaves it in a free block, and the next call that gets the block ends the machine
    with `fatalError`. In `async` `FreeBlocksAreClear`, which no run checks, is violated.
15. *A call outlives the heap.* `KVM_Cleanup` frees the heap without waiting for calls that have come back
    from their primitive. In `async` `HeapOutlivesCalls`, which no run checks, is violated.
16. *Which instruction pointers are past the call.* The comment at `frame.c:431` has two exceptions from the rule that
    saved instruction pointers are past the call, and there are more. `SwitchThread` throws the pending
    exception of a thread that slept in a native method (`thread.c:212`), where `CurrentNativeMethod` is long
    NULL; `Class.newInstance` and `Class.forName` push their frames of `runCustomCode` after the
    native call has advanced `ip` (`execute.c:529`, `nativeCore.c:325`); `MONITORENTER` and `MONITOREXIT` advance it first (`bytecodes.c:2703`, `2718`).
    A try block that ends with such an instruction misses its exception, and one that begins after it catches what is not
    its own: the handler a compiler generates for `synchronized` then exits a monitor that was never
    entered. `frames` with `Code <- SleepsLast` or `Code <- LocksFirst` violates `ImplementsCallStack`.
17. *A synchronized method that runs without its lock.* When `monitorEnter` runs out of memory on entry
    (`execute.c:555`) the new frame is on the stack already: a handler of that method that covers its
    first instruction catches the error, and the method goes on without the lock (`Code <- CatchesFirst`). A
    synchronized `run()` has its `syncObject` before the lock (`thread.c:516`), so that the same failure ends in an
    `IllegalMonitorStateException` (`MayFail` with `"start"`). Both violate `ImplementsCallStack`.
18. *Exceptions in `throwException`.* `findHandler` loads the class of a handler and
    `runClinitException` allocates an `Error`, and either may throw (`frame.c:377`, `class.c:353`). If `ATHROW` was executed, that exception is caught in
    `Interpret` and unwinding starts again from the registers, where frames may have lost their
    locks; otherwise `throwException` was called from the `CATCH` itself (`execute.c:659`) and the exception ends the
    machine in `StartJVM`. `MayFail` with `"unwind"` violates `ImplementsCallStack`. The slot of the
    callback holds the exception by then (`frame.c:526`), and the second pass would call it; the model does not go that far.

The constants that keep findings 3, 5, 8, 9, 10, 12 and 13 out of the runs also keep the hazards behind them out: those
are listed without a property, since the properties of the runs hold whether or not the code meets them. The hazard of
finding 14 does happen in `async`, and has no property because the ones that are checked do not see it. Of the
hazards that findings 6, 9, 11, 16, 17 and 18 are part of, the properties cover the rest; their notes say which.

Smaller observations while reading, not shown by a property: `bytecodes.c:2526` keeps a new object in a variable that is no root while
`registerCleanup` may allocate; `events.c:91` does not test the number of parameters of an event when the buffer is empty;
`events.c:231` sleeps although a thread is runnable; `removeFromQueue` reads the queue before its critical section (`thread.c:2037`);
the note at `frame.c:787` asks not to report problems of memory the way `collector.c:334` does.

## 6. What is not modelled

| Part | Why |
| --- | --- |
| The rest of frames | the first frame of the main thread, stack traces, stacks as the collector sees them. That `KVMThreads` assumes balanced code is justified by `Frames` for synchronized methods only: nothing in the machine balances `MONITORENTER` |
| Verifier | its outcome is in `ClassInit`; type checking against recorded types is one pass over a class file |
| Names and tables, native interface, support | sequential look-ups, copies and arithmetic |
| The other bytecodes of the interpreter | they work on the stack of one frame and touch nothing that is shared |
| The rest of the debugger | packets and queries; what it changes, threads and code, is in `KVMEvents` and `InlineCache` |
| The rest of the collector | registration of roots, the fields of each kind of object, `collectorDebug.c` |
| Application manager | lists of applications in files. The file operations are not atomic and are not ordered for recovery, so there is no promise between two writes to check; what is left is parsing |
| SVM permits, SVM tools | decisions about access and signatures: cryptography and sequential checks during a load |
| KVM 1.0.3 | the same program in an older version; 1.1 is the reference where both have a part |
| Platform ports | clock, memory and event source of each system: I/O. The hand-over to I/O threads on Windows is in `AsyncIO` |
| Class libraries, build tools, BCEL | not part of the running machine |

Parsing and formatting (class files, archives, configuration), arithmetic and logging are left out everywhere.
