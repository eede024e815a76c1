------------------------------- MODULE Frames -------------------------------
(***************************************************************************)
(* The frames of a thread of the KVM (frame.c, with the bytecodes and the  *)
(* natives that push and pop them): pushFrame and its stack chunks,        *)
(* popFrame, the locks of synchronized methods, frames of                  *)
(* Class.runCustomCode, and throwException.                                *)
(*                                                                         *)
(* The thread runs any program its methods allow.  A chunk is its size in  *)
(* cells, a pointer into it an index; operands are counted when a call     *)
(* needs to know how many there are.  Other threads appear only as the     *)
(* pauses of a thread that sleeps: a lock is taken at once, as the thread  *)
(* does nothing while it waits for one (KVMThreads has the waiting).       *)
(***************************************************************************)
EXTENDS MethodTable

CONSTANTS
  Raised,       \* bound: the exceptions instructions raise
  MaxFrames,    \* bound: frames of the thread
  MaxHeld,      \* bound: how often it locks an object
  MayFail       \* which calls of the machine's own may raise an exception:
                \* "push" pushFrame, "enter" monitorEnter for a synchronized method,
                \* "start" the same for a run method,
                \* "unwind" what throwException calls

ASSUME FramesAssumption ==
  /\ Raised \subseteq Exceptions /\ MaxFrames \in Nat /\ MaxHeld \in Nat
  /\ MayFail \subseteq {"push", "enter", "start", "unwind"}

SIZEOF_FRAME == 6
RESERVEDFORNATIVE == 3
STACKCHUNKSIZE == 128

VARIABLES
  frames,   \* sequence of [method, at, previousIp, previousSp, syncObject, stack, lp];
            \* stack is the number of the chunk, lp the cell of its first local.
            \* at is the model's own: the instruction the frame is executing,
            \* NotBegun if it has no part in the program yet
  ip,       \* the instruction pointer, relative to the code of the last frame
  chunks,   \* the sizes of the chunks that are linked from the thread
  held,     \* [Objects -> how often the thread has locked it]
  asleep,   \* is the thread suspended in a native method
  throw     \* the state of throwException: [exception, fp, ip, correction];
            \* fp and ip go down the frames while the registers stay

vars == <<frames, ip, chunks, held, asleep, throw>>

NotBegun == -1
NoThrow == [exception |-> NoException, fp |-> 0, ip |-> 0, correction |-> 0]

RunCustomCode == [frameSize |-> 0, argCount |-> 0, maxStack |-> 4]
Size(m) == IF m \in Methods THEN Code[m] ELSE RunCustomCode

Top == Last(frames)
Runs == throw = NoThrow /\ frames # <<>> /\ ~asleep
InJava == Runs /\ Top.method \in Methods
InCustomCode(callback) == Runs /\ Top.method = callback
Here == Kind(Top.method, ip)
NextIp == After(Top.method, ip)

\* The last frame goes on at pc.
Moved(fs, pc) == [fs EXCEPT ![Len(fs)].at = pc]
GoTo(pc) == ip' = pc /\ frames' = Moved(frames, pc)

-----------------------------------------------------------------------------
(***************************************************************************)
(* pushFrame(m), with sp the cell of the topmost operand.  Its result is   *)
(* the state of the thread, with the new frame unless there was no memory  *)
(* for a chunk.                                                            *)
(***************************************************************************)
Fp(f) == f.lp + Size(f.method).frameSize
StackPointer(f, height) == Fp(f) + SIZEOF_FRAME - 1 + height

FitsChunk_OneMore(sp, height, size) == sp + height <= size
FitsChunk(sp, height, size) == sp + height < size
Height(m) == Size(m).frameSize - Size(m).argCount + Size(m).maxStack
               + SIZEOF_FRAME + RESERVEDFORNATIVE

\* The chunks with one of at least this height after the first n.
NextChunk_AnySize(cs, n, height) ==
  IF n < Len(cs) THEN cs ELSE Append(SubSeq(cs, 1, n), Max({height, STACKCHUNKSIZE}))
NextChunk(cs, n, height) ==
  IF n < Len(cs) /\ height <= cs[n + 1] THEN cs
  ELSE Append(SubSeq(cs, 1, n), Max({height, STACKCHUNKSIZE}))

Frame(m, resume, prevSp, n, lp) ==
  [method |-> m, at |-> 0, previousIp |-> resume, previousSp |-> prevSp,
   syncObject |-> NoObject, stack |-> n, lp |-> lp]

PushFrame(s, m, sp, resume) ==
  LET n == IF s.frames = <<>> THEN 1 ELSE Last(s.frames).stack
      args == Size(m).argCount
  IN  IF FitsChunk(sp, Height(m), s.chunks[n])
      THEN [s EXCEPT !.frames = Append(@, Frame(m, resume, sp - args, n, sp - args + 1))]
      ELSE [frames |-> Append(s.frames, Frame(m, resume, sp - args, n + 1, 0)),
            chunks |-> NextChunk(s.chunks, n, Height(m) + args)]

\* Does it need memory for a chunk; if there is none, the chunks that stay.
Allocates(s, m, sp) ==
  LET n == Last(s.frames).stack IN
  ~FitsChunk(sp, Height(m), s.chunks[n]) /\ NextChunk(s.chunks, n, Height(m) + Size(m).argCount) # s.chunks

This == [frames |-> frames, chunks |-> chunks]
Becomes(s) == frames' = s.frames /\ chunks' = s.chunks
Overflowed(s) == [s EXCEPT !.chunks = SubSeq(@, 1, Last(s.frames).stack)]

\* How many operands there may be when an instruction takes n of them.
Operands(n) == {h \in {n, Size(Top.method).maxStack} : n <= h /\ h <= Size(Top.method).maxStack}

\* throwException is called in frame n at pc.
Thrown(n, pc, e, native) ==
  [exception |-> e, fp |-> n, ip |-> pc, correction |-> IF native THEN 1 ELSE 0]

\* pushFrame(m) by an instruction after which the caller goes on at resume.
Pushed(m, height, resume) ==
  /\ Len(frames) < MaxFrames
  /\ Becomes(PushFrame(This, m, StackPointer(Top, height), resume))
  /\ ip' = 0
  /\ UNCHANGED <<held, asleep, throw>>

\* The same when there is no memory for the chunk, with ip at pc.
StackOverflow(m, height, pc, native) ==
  /\ Len(frames) < MaxFrames /\ "push" \in MayFail
  /\ Allocates(This, m, StackPointer(Top, height))
  /\ Becomes(Overflowed(This))
  /\ ip' = pc
  /\ throw' = Thrown(Len(frames), pc, OutOfMemory, native)
  /\ UNCHANGED <<held, asleep>>

PushesOrOverflows(m, height, resume, pc, native) ==
  Pushed(m, height, resume) \/ StackOverflow(m, height, pc, native)

-----------------------------------------------------------------------------
\* initThreadBehavior
Init ==
  /\ held = [o \in Objects |-> 0]
  /\ asleep = FALSE /\ throw = NoThrow /\ ip = 0
  /\ \E m \in ThreadBodies, o \in Objects :
       LET run == PushFrame([frames |-> <<>>, chunks |-> <<STACKCHUNKSIZE>>],
                            m, Code[m].argCount - 1, KILLTHREAD)
           synchronized == [run EXCEPT !.frames[1].syncObject = o]
           start == IF Code[m].sync
                    THEN PushFrame(synchronized, "initThreadBehavior",
                                   StackPointer(run.frames[1], 0), 0)
                    ELSE run
       IN  frames = start.frames /\ chunks = start.chunks

\* initThreadBehaviorFromThread: the run method takes its lock.
TakesLock ==
  /\ InCustomCode("initThreadBehavior")
  /\ frames' = Front(frames)
  /\ ip' = Top.previousIp
  /\ \/ held' = Locked(held, frames'[1].syncObject) /\ UNCHANGED throw
     \/ /\ "start" \in MayFail
        /\ throw' = Thrown(Len(frames'), ip', OutOfMemory, FALSE)
        /\ UNCHANGED held
  /\ UNCHANGED <<chunks, asleep>>

Jump ==
  /\ InJava /\ Here = "plain"
  /\ \E pc \in Starts(Top.method) : GoTo(pc)
  /\ UNCHANGED <<chunks, held, asleep, throw>>

\* A native method returns at once, or a class turns out to be initialized.
GoOn ==
  /\ InJava /\ Here \in {"native", "system", "static"}
  /\ GoTo(NextIp)
  /\ UNCHANGED <<chunks, held, asleep, throw>>

\* MONITORENTER, MONITOREXIT: ip is advanced before.
Monitor(o) ==
  /\ InJava /\ Here = "monitor"
  /\ ip' = NextIp
  /\ \/ /\ held[o] < MaxHeld /\ held' = Locked(held, o)
        /\ frames' = Moved(frames, NextIp) /\ UNCHANGED throw
     \/ /\ held[o] > 0 /\ held' = Unlocked(held, o)
        /\ frames' = Moved(frames, NextIp) /\ UNCHANGED throw
     \/ /\ \E e \in {OutOfMemory, IllegalMonitorState} :
             /\ e = IllegalMonitorState => held[o] = 0
             /\ throw' = Thrown(Len(frames), NextIp, e, FALSE)
        /\ UNCHANGED <<frames, held>>
  /\ UNCHANGED <<chunks, asleep>>

\* ATHROW, or raiseException in an instruction or in a native method.
Raise(e) ==
  /\ InJava /\ Here # "monitor"
  /\ ip' = IF Here \in {"native", "system"} THEN NextIp ELSE ip
  /\ throw' = Thrown(Len(frames), ip', e, ip' # ip)
  /\ UNCHANGED <<frames, chunks, held, asleep>>

\* callMethod_general: the frame, then the lock of a synchronized method.
Invoke(m) ==
  /\ InJava /\ Here = "invoke" /\ ~Code[m].sync
  /\ \E h \in Operands(Code[m].argCount) : PushesOrOverflows(m, h, NextIp, ip, FALSE)

PushedToLock(m, o, height) ==
  LET s == PushFrame(This, m, StackPointer(Top, height), NextIp)
      n == Len(s.frames)
  IN  /\ Len(frames) < MaxFrames
      /\ chunks' = s.chunks /\ ip' = 0
      /\ \/ /\ held[o] < MaxHeld /\ held' = Locked(held, o)
            /\ frames' = [s.frames EXCEPT ![n].syncObject = o]
            /\ UNCHANGED throw
         \/ /\ "enter" \in MayFail
            /\ frames' = Moved(s.frames, NotBegun)
            /\ throw' = Thrown(n, 0, OutOfMemory, FALSE)
            /\ UNCHANGED held
      /\ UNCHANGED asleep

InvokeSynchronized(m, o) ==
  /\ InJava /\ Here = "invoke" /\ Code[m].sync
  /\ \E h \in Operands(Code[m].argCount) :
       PushedToLock(m, o, h) \/ StackOverflow(m, h, ip, FALSE)

\* A native method suspends the thread, ...
Sleep ==
  /\ InJava /\ Here = "system"
  /\ ip' = NextIp /\ asleep' = TRUE
  /\ UNCHANGED <<frames, chunks, held, throw>>

\* ... which SwitchThread resumes, perhaps with an exception.
Wake ==
  /\ asleep /\ asleep' = FALSE
  /\ \/ frames' = Moved(frames, ip) /\ UNCHANGED throw
     \/ throw' = Thrown(Len(frames), ip, Interrupted, FALSE) /\ UNCHANGED frames
  /\ UNCHANGED <<ip, chunks, held>>

\* Java_java_lang_Class_newInstance: a frame for the callback, one for the constructor.
NewInstance(m) ==
  /\ InJava /\ Here = "system" /\ Len(frames) + 1 < MaxFrames
  /\ Code[m].argCount = 1 /\ ~Code[m].sync
  /\ \E h \in Operands(1) :
       LET callback == PushFrame(This, "newInstanceReturnObject", StackPointer(Top, h), NextIp)
           sp == StackPointer(Last(callback.frames), 2)
       IN  \/ /\ Becomes(PushFrame(callback, m, sp, 0))
              /\ UNCHANGED throw
           \/ /\ "push" \in MayFail /\ Allocates(callback, m, sp)
              /\ LET s == Overflowed(callback) IN
                 Becomes([s EXCEPT !.frames = Moved(@, NotBegun)])
              /\ throw' = Thrown(Len(callback.frames), 0, OutOfMemory, TRUE)
  /\ ip' = 0
  /\ UNCHANGED <<held, asleep>>

NewInstanceOverflows ==
  /\ InJava /\ Here = "system"
  /\ \E h \in Operands(1) : StackOverflow("newInstanceReturnObject", h, NextIp, TRUE)

\* initializeClass, by an instruction that needs the class or by Class.forName.
InitializeClass ==
  /\ InJava
  /\ \E h \in Operands(0) :
       \/ Here = "static" /\ PushesOrOverflows("runClinit", h, ip, ip, FALSE)
       \/ Here = "system" /\ PushesOrOverflows("runClinit", h, NextIp, NextIp, TRUE)

\* runClinit: the superclass, or <clinit>.
RunClinit ==
  /\ InCustomCode("runClinit")
  /\ \/ PushesOrOverflows("runClinit", 3, 0, 0, FALSE)
     \/ \E m \in Methods : /\ Code[m].argCount = 0 /\ ~Code[m].sync
                           /\ PushesOrOverflows(m, 3, 0, 0, FALSE)

\* popFrame: the caller goes on.
PopFrame == frames' = Moved(Front(frames), Top.previousIp) /\ ip' = Top.previousIp

CustomCodeEnds ==
  /\ InCustomCode("runClinit") \/ InCustomCode("newInstanceReturnObject")
  /\ PopFrame
  /\ UNCHANGED <<chunks, held, asleep, throw>>

\* RETURN: the lock, then the frame.
Return ==
  /\ InJava /\ Here = "plain"
  /\ IF Holds(held, Top.syncObject)
     THEN /\ held' = Unlocked(held, Top.syncObject)
          /\ IF Top.previousIp = KILLTHREAD THEN frames' = <<>> /\ ip' = KILLTHREAD
             ELSE PopFrame
          /\ UNCHANGED throw
     ELSE /\ throw' = Thrown(Len(frames), ip, IllegalMonitorState, FALSE)
          /\ UNCHANGED <<frames, ip, held>>
  /\ UNCHANGED <<chunks, asleep>>

-----------------------------------------------------------------------------
(***************************************************************************)
(* throwException looks at one frame after the other.  It leaves the       *)
(* registers alone until it has found a handler, so the frames it has done *)
(* with stay; or until the lock of a frame turns out not to be held, when  *)
(* it starts again from there with another exception.                      *)
(***************************************************************************)
Unwinds == throw # NoThrow /\ throw.fp > 0
ThisFrame == frames[throw.fp]
IpOffset == throw.ip - throw.correction
Handler == IF ThisFrame.method \in Methods
           THEN FindHandler(ThisFrame.method, IpOffset, throw.exception) ELSE 0

\* What throwException calls fails: it loads the class of a handler, and
\* allocates the Error of a static initializer.  That exception is caught in
\* Interpret, which starts again from the registers, if ATHROW was executed,
\* else in StartJVM, which ends the machine.
Fails ==
  /\ "unwind" \in MayFail
  /\ \/ throw' = Thrown(Len(frames), ip, OutOfMemory, FALSE) /\ UNCHANGED <<frames, ip>>
     \/ frames' = <<>> /\ ip' = KILLTHREAD /\ throw' = NoThrow

Catch ==
  /\ Unwinds /\ Handler # 0
  /\ \/ /\ ip' = Code[ThisFrame.method].handlers[Handler].target
        /\ frames' = Moved(SubSeq(frames, 1, throw.fp), ip')
        /\ throw' = NoThrow
     \/ Fails
  /\ UNCHANGED <<chunks, held, asleep>>

CorrectionBelow_Always(m) == 1
CorrectionBelow(m) == IF m \in Callbacks THEN 0 ELSE 1
WithoutLock_KeepsIt(fs, n) == fs
WithoutLock(fs, n) == [fs EXCEPT ![n].syncObject = NoObject]

Unwind ==
  /\ Unwinds /\ Handler = 0 /\ Holds(held, ThisFrame.syncObject)
  /\ \/ /\ held' = Unlocked(held, ThisFrame.syncObject)
        /\ frames' = WithoutLock(frames, throw.fp)
        /\ throw' = [throw EXCEPT !.exception = Seen(ThisFrame.method, @), !.fp = @ - 1,
                                  !.ip = ThisFrame.previousIp,
                                  !.correction = CorrectionBelow(ThisFrame.method)]
        /\ UNCHANGED ip
     \/ /\ ThisFrame.method = "runClinit" /\ throw.exception \notin Errors
        /\ Fails
        /\ UNCHANGED held
  /\ UNCHANGED <<chunks, asleep>>

RestartOnError ==
  /\ Unwinds /\ Handler = 0 /\ ~Holds(held, ThisFrame.syncObject)
  /\ frames' = WithoutLock(SubSeq(frames, 1, throw.fp), throw.fp)
  /\ ip' = throw.ip
  /\ throw' = [throw EXCEPT !.exception = IllegalMonitorState]
  /\ UNCHANGED <<chunks, held, asleep>>

\* No handler: stopThread.
Uncaught ==
  /\ throw # NoThrow /\ throw.fp = 0
  /\ frames' = <<>> /\ ip' = KILLTHREAD
  /\ throw' = NoThrow
  /\ UNCHANGED <<chunks, held, asleep>>

-----------------------------------------------------------------------------
ThrowException == Catch \/ Unwind \/ RestartOnError \/ Uncaught

Next ==
  \/ TakesLock \/ Jump \/ GoOn \/ Sleep \/ Wake \/ Return
  \/ NewInstanceOverflows \/ InitializeClass \/ RunClinit \/ CustomCodeEnds
  \/ \E o \in Objects : Monitor(o) \/ \E m \in Methods : InvokeSynchronized(m, o)
  \/ \E m \in Methods : Invoke(m) \/ NewInstance(m)
  \/ \E e \in Raised : Raise(e)
  \/ ThrowException

Spec == Init /\ [][Next]_vars

\* throwException is a C function: it runs until it is done.
FairSpec == Spec /\ WF_vars(ThrowException)

-----------------------------------------------------------------------------
(***************************************************************************)
(* Properties.                                                             *)
(***************************************************************************)
\* The cells a frame uses, from its locals up to the operands it had when it
\* called the next one, or may have while it is the last.
FirstCell(i) == frames[i].lp
LastCell(i) ==
  IF i < Len(frames) THEN frames[i + 1].previousSp
  ELSE StackPointer(frames[i], Size(frames[i].method).maxStack) + RESERVEDFORNATIVE

\* Every frame lies in a chunk that is linked from its thread, wholly, with
\* its operands, and no two frames overlap: whatever calls, returns and
\* exceptions came before, of methods of any size, with chunks reused,
\* replaced and dropped (frame.c:167, 184).
FramesFit ==
  \A i \in DOMAIN frames :
    /\ frames[i].stack \in DOMAIN chunks
    /\ 0 <= FirstCell(i) /\ LastCell(i) < chunks[frames[i].stack]
    /\ Fp(frames[i]) + SIZEOF_FRAME - 1 <= LastCell(i)
    /\ \A j \in 1 .. i - 1 :
         frames[j].stack = frames[i].stack => LastCell(j) < FirstCell(i)

\* The activations of a thread, as its program sees them: the frames that
\* throwException has not done with and that have begun.
Depth ==
  LET n == IF throw = NoThrow THEN Len(frames) ELSE throw.fp
  IN  IF n > 0 /\ frames[n].at = NotBegun THEN n - 1 ELSE n

LockOf(i) ==
  IF i < Len(frames) /\ frames[i + 1].method = "initThreadBehavior" THEN NoObject
  ELSE frames[i].syncObject

Activations ==
  [i \in 1 .. Depth |->
     [of |-> frames[i].method, at |-> frames[i].at, lock |-> LockOf(i),
      resume |-> frames[i].previousIp]]

Calls == INSTANCE CallStack WITH
  calls <- Activations,
  thrown <- throw.exception

\* Calls, returns and exceptions are those of Java: an exception reaches the
\* innermost handler that covers the instruction its frame is executing
\* (although some instruction pointers are past it, frame.c:431), the frames
\* above are gone, each of their locks is given back once, and a frame never
\* goes on without its lock.
ImplementsCallStack == Calls!Spec

\* An exception is caught in the end, or ends the thread, even if locks were
\* given away on the way (frame.c:541).
ThrowEnds == throw # NoThrow ~> throw = NoThrow
=============================================================================
