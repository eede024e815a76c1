----------------------------- MODULE ClassInit -----------------------------
(***************************************************************************)
(* Class initialization (class.c): initializeClass, runClinit and          *)
(* runClinitException, by Java threads that use classes concurrently, and  *)
(* which load them first (ClassLoading) and verify them.  A class is its   *)
(* own monitor; monitors are those of JavaMonitor, which KVMThreads        *)
(* implements.                                                             *)
(*                                                                         *)
(* runClinit is a state machine whose state is on the Java stack, in a     *)
(* frame of its own; the interpreter calls it until it pops that frame.    *)
(* Its fall-through from case to case is not preempted: while a thread is  *)
(* busy at a point inside it, or inside throwException, it alone moves.    *)
(***************************************************************************)
EXTENDS ClassLoading

CONSTANTS
  Threads,
  MayFailToVerify,\* the classes whose methods may not pass verification
  MayOverflow,    \* bound: the classes whose runClinit frame may not fit
  HasClinit,      \* the classes with a <clinit> method
  Uses,           \* the classes whose initialization each <clinit> triggers
  MayFail,        \* the classes whose <clinit> may throw
  Lockers,        \* bound: <<t, c>>, threads that synchronize on a class themselves
  Interruptible   \* bound: the threads programs interrupt

ASSUME ClassAssumption ==
  /\ NIL \notin Threads
  /\ MayFailToVerify \subseteq Classes /\ MayOverflow \subseteq Classes
  /\ Uses \in [Classes -> SUBSET Classes]
  /\ HasClinit \subseteq Classes /\ MayFail \subseteq HasClinit
  /\ Lockers \subseteq Threads \X Classes /\ Interruptible \subseteq Threads

VARIABLES
  initThread,                             \* of every class
  frames,                                 \* runClinit frames of every thread
  busy, point,                            \* who is inside the VM, and where
  pendingException, isPendingInterrupt,   \* of every thread
  fatal,
  clinitRuns,                             \* history: calls of <clinit>
  owner, count, entry, waitset, saved     \* the monitors of the classes

classVars == <<status, loaderVars, initThread, clinitRuns>>
throwVars == <<pendingException, isPendingInterrupt, fatal>>
monVars   == <<owner, count, entry, waitset, saved>>
vars == <<classVars, frames, busy, point, throwVars, monVars>>

Mon == INSTANCE JavaMonitor WITH Objects <- Classes

-----------------------------------------------------------------------------
(* The frame runClinit works on.  clinit: the frame of <clinit> is above it*)
Frame == [class : Classes, state : 1..6, clinit : BOOLEAN]
NewFrame(c) == [class |-> c, state |-> 1, clinit |-> FALSE]

Top(t) == Last(frames[t])
InJava(t) == IF frames[t] = <<>> THEN TRUE ELSE Top(t).clinit

(* The interpreter runs t, and t is free to be preempted.                  *)
Runs(t) == busy = NIL /\ ~fatal /\ ~Mon!Blocked(t) /\ ~pendingException[t]

(* t executes runClinit from state s, as called or by falling through.     *)
At(t, s) ==
  \/ Runs(t) /\ ~InJava(t) /\ Top(t).state = s
  \/ busy = t /\ point = s

(* Fault: the state to go on with is one too far.                          *)
InState_Next(t, s) == frames' = [frames EXCEPT ![t][Len(frames[t])].state = s + 1]

InState(t, s)   == frames' = [frames EXCEPT ![t][Len(frames[t])].state = s]
PopFrame(t)     == frames' = [frames EXCEPT ![t] = Front(@)]
Return          == busy' = NIL /\ point' = 0
FallThrough(t, s) == busy' = t /\ point' = s
Throw(t)        == busy' = t /\ point' = -1

-----------------------------------------------------------------------------
(* Combinations of monitor operations                                      *)

(* Fault: the waiting threads are not notified.                            *)
Notified_None(c) == <<>>

(* The threads notifyAll moves.                                            *)
Notified(c) == waitset[c]

NotifyAll(c) ==
  waitset' = [waitset EXCEPT ![c] = SubSeq(@, Len(Notified(c)) + 1, Len(@))]

(* monitorNotify(all), monitorExit by the owner.                           *)
NotifyAllAndExit(c) ==
  /\ NotifyAll(c)
  /\ IF count[c] > 1
     THEN /\ count' = [count EXCEPT ![c] = @ - 1]
          /\ entry' = [entry EXCEPT ![c] = @ \o Notified(c)]
          /\ UNCHANGED <<owner, saved>>
     ELSE Mon!HandOver(c, entry[c] \o Notified(c), saved)

(* monitorEnter, monitorNotify(all), monitorExit of a monitor that is free *)
(* or t's.                                                                 *)
EnterNotifyAllAndExit(t, c) ==
  /\ NotifyAll(c)
  /\ IF owner[c] = t
     THEN /\ entry' = [entry EXCEPT ![c] = @ \o Notified(c)]
          /\ UNCHANGED <<owner, count, saved>>
     ELSE Mon!HandOver(c, entry[c] \o Notified(c), saved)

-----------------------------------------------------------------------------
(* An exception in the Java code of t: the code handles it, or it reaches  *)
(* the runClinit frame below.                                              *)
ThrowInJava(t) ==
  \/ Return /\ UNCHANGED frames
  \/ /\ frames[t] # <<>>
     /\ frames' = [frames EXCEPT ![t][Len(frames[t])].clinit = FALSE]
     /\ Throw(t)

(* verifyClass fails, or needs a class that cannot be loaded.              *)
VerifyFails(c) ==
  /\ status[c] = "LINKED" /\ c \in MayFailToVerify
  /\ \/ status' = [status EXCEPT ![c] = "ERROR"]
     \/ UNCHANGED status

(* initializeClass of a class that is neither ready nor in error: verified *)
(* by then, without a <clinit> and below a ready superclass, it is ready   *)
(* at once.                                                                *)
NothingToRun(c) ==
  /\ c \notin HasClinit
  /\ IF superClass[c] = NIL THEN TRUE ELSE status[superClass[c]] = "READY"

InitializeClass(t, c, frs) ==
  IF NothingToRun(c)
  THEN /\ status' = [status EXCEPT ![c] = "READY"]
       /\ frames' = [frames EXCEPT ![t] = frs]
  ELSE /\ frames' = [frames EXCEPT ![t] = Append(frs, NewFrame(c))]
       /\ status' = [status EXCEPT ![c] = "VERIFIED"]

(* The Java stack is full: the class is in error, whoever initializes it.  *)
StackOverflows(c) ==
  /\ c \in MayOverflow /\ ~NothingToRun(c)
  /\ status' = [status EXCEPT ![c] = "ERROR"]

(* A bytecode of t uses c (CLASS_INITIALIZED is false).  Bound: a program  *)
(* that synchronizes on a class uses no other one there; with two, programs*)
(* lock each other out.                                                    *)
Executes(t, c) ==
  /\ Runs(t) /\ InJava(t)
  /\ IF frames[t] = <<>>
     THEN \A d \in Classes \ {c} : owner[d] # t
     ELSE c \in Uses[Top(t).class]

(* It resolves its reference: getClassX calls loadClassfile.               *)
Load(t, c) ==
  /\ Executes(t, c)
  /\ status[c] = "RAW"
  /\ loads' = <<Call(c)>> /\ busy' = t /\ point' = -2
  /\ UNCHANGED <<status, superClass, initThread, clinitRuns, frames, throwVars, monVars>>

(* loadClassfile, up to its return or the fatalVMError in it.              *)
Loading(t) ==
  /\ busy = t /\ point = -2 /\ ~fatal /\ LoadStep
  /\ IF loads' = <<>> THEN ThrowInJava(t) ELSE UNCHANGED <<busy, point, frames>>
  /\ fatal' = IsIn("fatal")'
  /\ UNCHANGED <<initThread, clinitRuns, pendingException, isPendingInterrupt, monVars>>

(* It has its class, resolved just now or before.                          *)
Use(t, c) ==
  /\ \/ Executes(t, c) /\ status[c] \notin {"RAW", "READY", "ERROR"} /\ initThread[c] # t
     \/ busy = t /\ IsIn("done") /\ current.initiating = c
  /\ loads' = <<>>
  /\ \/ InitializeClass(t, c, frames[t]) /\ Return
     \/ (VerifyFails(c) \/ StackOverflows(c)) /\ ThrowInJava(t)
  /\ UNCHANGED <<superClass, initThread, clinitRuns, throwVars, monVars>>

(* Fault: a class somebody else initializes is not waited for.             *)
OthersInitialize_Never(t, c) == FALSE

OthersInitialize(t, c) == initThread[c] \notin {NIL, t}

(* Fault: a class in error is initialized again.                           *)
IsSettled_OnlyReady(t, c) == initThread[c] = t \/ status[c] = "READY"

IsSettled(t, c) == initThread[c] = t \/ status[c] \in {"READY", "ERROR"}

(* markClass: pops the frame of a class that needs nothing any more.       *)
MarkClass(t, c) ==
  IF IsSettled(t, c)
  THEN PopFrame(t) /\ Return /\ UNCHANGED initThread
  ELSE initThread' = [initThread EXCEPT ![c] = t] /\ FallThrough(t, 3) /\ UNCHANGED frames

(* case 1: the short cut of a class nobody contends for; or step 1.        *)
Case1(t) ==
  LET c == Top(t).class
      uncontended == owner[c] = NIL /\ waitset[c] = <<>> /\ initThread[c] = NIL
  IN /\ At(t, 1)
     /\ \/ uncontended /\ MarkClass(t, c) /\ UNCHANGED monVars
        \/ /\ ~uncontended
           /\ Mon!Enter(t, c)
           /\ IF owner[c] \in {NIL, t}
              THEN FallThrough(t, 2) /\ UNCHANGED frames
              ELSE InState(t, 2) /\ Return
           /\ UNCHANGED initThread
     /\ UNCHANGED <<status, loaderVars, clinitRuns, throwVars>>

(* case 2: t owns the monitor.  An interrupt that came before wait() makes *)
(* it return with a pending exception, which runClinit does not look at:   *)
(* SwitchThread finds it, or the interpreter comes here again at once.     *)
Case2(t) ==
  LET c == Top(t).class
  IN /\ At(t, 2)
     /\ \/ /\ ~OthersInitialize(t, c)
           /\ MarkClass(t, c) /\ Mon!Exit(t, c)
           /\ UNCHANGED throwVars
        \/ /\ OthersInitialize(t, c)
           /\ InState(t, 2) /\ Return
           /\ \/ Mon!Wait(t, c) /\ UNCHANGED fatal
              \/ isPendingInterrupt[t] /\ fatal' = TRUE /\ UNCHANGED monVars
           /\ pendingException' = [pendingException EXCEPT ![t] = isPendingInterrupt[t]]
           /\ isPendingInterrupt' = [isPendingInterrupt EXCEPT ![t] = FALSE]
           /\ UNCHANGED initThread
     /\ UNCHANGED <<status, loaderVars, clinitRuns>>

(* Fault: the superclass is left alone.                                    *)
NeedsSuper_Never(c) == FALSE

NeedsSuper(c) == IF superClass[c] = NIL THEN FALSE ELSE status[superClass[c]] # "READY"

(* case 3 (step 7): the superclass; one in error, that cannot be verified, *)
(* or for which the stack is too small, makes this one fail.               *)
Case3(t) ==
  LET c == Top(t).class
      s == superClass[c]
  IN /\ At(t, 3)
     /\ \/ ~NeedsSuper(c) /\ FallThrough(t, 4) /\ UNCHANGED <<frames, status>>
        \/ /\ NeedsSuper(c)
           /\ \/ /\ \/ status[s] = "ERROR" /\ UNCHANGED status
                    \/ status[s] # "ERROR" /\ (VerifyFails(s) \/ StackOverflows(s))
                 /\ InState(t, 4) /\ Throw(t)
              \/ /\ status[s] # "ERROR"
                 /\ InitializeClass(t, s, Front(frames[t]) \o <<[Top(t) EXCEPT !.state = 4]>>)
                 /\ Return
     /\ UNCHANGED <<loaderVars, initThread, clinitRuns, throwVars, monVars>>

(* case 4 (step 8): call <clinit>.                                         *)
Case4(t) ==
  LET c == Top(t).class
  IN /\ At(t, 4)
     /\ \/ /\ c \in HasClinit
           /\ frames' = [frames EXCEPT ![t] =
                Front(@) \o <<[Top(t) EXCEPT !.state = 5, !.clinit = TRUE]>>]
           /\ clinitRuns' = [clinitRuns EXCEPT ![c] = @ + 1]
           /\ Return
        \/ c \notin HasClinit /\ FallThrough(t, 5) /\ UNCHANGED <<frames, clinitRuns>>
     /\ UNCHANGED <<status, loaderVars, initThread, throwVars, monVars>>

UnmarkClass(t, c) ==
  /\ initThread' = [initThread EXCEPT ![c] = NIL]
  /\ status' = [status EXCEPT ![c] = "READY"]
  /\ PopFrame(t) /\ Return

(* case 5 (step 9): needs the monitor, unless nobody contends for it.      *)
Case5(t) ==
  LET c == Top(t).class
  IN /\ At(t, 5)
     /\ \/ /\ owner[c] \in {NIL, t}
           /\ UnmarkClass(t, c)
           /\ EnterNotifyAllAndExit(t, c)
        \/ /\ owner[c] \notin {NIL, t}
           /\ Mon!Enter(t, c)
           /\ InState(t, 6) /\ Return
           /\ UNCHANGED <<status, initThread>>
     /\ UNCHANGED <<loaderVars, clinitRuns, throwVars>>

Case6(t) ==
  LET c == Top(t).class
  IN /\ At(t, 6)
     /\ UnmarkClass(t, c)
     /\ NotifyAllAndExit(c)
     /\ UNCHANGED <<loaderVars, clinitRuns, throwVars>>

-----------------------------------------------------------------------------
(* Exceptions                                                              *)

(* <clinit> throws, by itself or because it uses a class in error.         *)
ClinitThrows(t) ==
  /\ Runs(t) /\ frames[t] # <<>> /\ InJava(t)
  /\ LET c == Top(t).class
     IN c \in MayFail \/ \E d \in Uses[c] : status[d] = "ERROR"
  /\ frames' = [frames EXCEPT ![t][Len(frames[t])].clinit = FALSE]
  /\ Throw(t)
  /\ UNCHANGED <<classVars, throwVars, monVars>>

(* SwitchThread throws what interruptThread left in a thread that waited.  *)
PendingException(t) ==
  /\ busy = NIL /\ ~fatal /\ ~Mon!Blocked(t) /\ pendingException[t]
  /\ pendingException' = [pendingException EXCEPT ![t] = FALSE]
  /\ Throw(t)
  /\ UNCHANGED <<classVars, frames, isPendingInterrupt, fatal, monVars>>

(* runClinitException, and what throwException does with the frame below:  *)
(* its <clinit> has a handler for the error or not.                        *)
ClinitException(t) ==
  LET c    == Top(t).class
      rest == Front(frames[t])
  IN /\ busy = t /\ point = -1
     /\ \/ /\ Top(t).state \notin {1, 4, 5}
           /\ fatal' = TRUE
           /\ UNCHANGED <<status, initThread, frames, busy, point, monVars>>
        \/ /\ Top(t).state \in {1, 4, 5}
           /\ status' = [status EXCEPT ![c] = "ERROR"]
           /\ initThread' = [initThread EXCEPT ![c] = NIL]
           /\ IF owner[c] \in {NIL, t} THEN EnterNotifyAllAndExit(t, c) ELSE UNCHANGED monVars
           /\ \/ /\ IF rest = <<>> THEN TRUE ELSE Last(rest).clinit
                 /\ PopFrame(t) /\ Return
              \/ /\ rest # <<>>
                 /\ frames' = [frames EXCEPT ![t] =
                      Front(rest) \o <<[Last(rest) EXCEPT !.clinit = FALSE]>>]
                 /\ Throw(t)
           /\ UNCHANGED fatal
     /\ UNCHANGED <<loaderVars, clinitRuns, pendingException, isPendingInterrupt>>

-----------------------------------------------------------------------------
(* What Java code does besides                                             *)

ClinitReturns(t) ==
  /\ Runs(t) /\ frames[t] # <<>> /\ InJava(t)
  /\ frames' = [frames EXCEPT ![t][Len(frames[t])].clinit = FALSE]
  /\ UNCHANGED <<classVars, busy, point, throwVars, monVars>>

(* synchronized (the class) { ... }, outside any <clinit>, not nested.     *)
Lock(t, c) ==
  /\ <<t, c>> \in Lockers /\ Runs(t) /\ frames[t] = <<>>
  /\ \A d \in Classes : owner[d] # t
  /\ Mon!Enter(t, c)
  /\ UNCHANGED <<classVars, frames, busy, point, throwVars>>

Unlock(t, c) ==
  /\ Runs(t) /\ frames[t] = <<>>
  /\ Mon!Exit(t, c)
  /\ UNCHANGED <<classVars, frames, busy, point, throwVars>>

(* interruptThread(u), once.  Bound: not while u queues for a monitor,     *)
(* which is the subject of KVMThreads.                                     *)
Interrupt(t, u) ==
  /\ Runs(t) /\ t # u /\ u \in Interruptible
  /\ ~pendingException[u] /\ ~isPendingInterrupt[u]
  /\ \/ \E c \in Classes :
          /\ Mon!Leave(u, c)
          /\ pendingException' = [pendingException EXCEPT ![u] = TRUE]
          /\ UNCHANGED isPendingInterrupt
     \/ /\ ~Mon!Blocked(u)
        /\ isPendingInterrupt' = [isPendingInterrupt EXCEPT ![u] = TRUE]
        /\ UNCHANGED <<pendingException, monVars>>
  /\ UNCHANGED <<classVars, frames, busy, point, fatal>>

(* Nobody has anything left to do, or fatalVMError ended the VM.           *)
Finished ==
  /\ \/ fatal
     \/ \A t \in Threads : frames[t] = <<>> /\ ~Mon!Blocked(t)
  /\ UNCHANGED vars

Init ==
  /\ LoaderInit
  /\ initThread = [c \in Classes |-> NIL]
  /\ frames = [t \in Threads |-> <<>>]
  /\ busy = NIL /\ point = 0       \* -2: in loadClassfile, -1: in throwException
  /\ pendingException = [t \in Threads |-> FALSE]
  /\ isPendingInterrupt = [t \in Threads |-> FALSE]
  /\ fatal = FALSE
  /\ clinitRuns = [c \in Classes |-> 0]
  /\ Mon!Init

JavaEnds(t) ==
  ClinitReturns(t) \/ ClinitThrows(t) \/ \E c \in Classes : Unlock(t, c)

(* What the scheduler makes t do sooner or later.                          *)
Progress(t) ==
  \/ Loading(t) \/ (\E c \in Classes : busy = t /\ Use(t, c))
  \/ Case1(t) \/ Case2(t) \/ Case3(t) \/ Case4(t) \/ Case5(t) \/ Case6(t)
  \/ JavaEnds(t) \/ PendingException(t) \/ ClinitException(t)

Next ==
  \/ \E t \in Threads :
       \/ Progress(t)
       \/ \E c \in Classes : Load(t, c) \/ Use(t, c) \/ Lock(t, c)
       \/ \E u \in Threads : Interrupt(t, u)
  \/ Finished

Spec == Init /\ [][Next]_vars

(* Fairness: the scheduler runs every thread (RunnableRuns in KVMThreads), *)
(* and a <clinit> or a synchronized block comes to its end: it does not    *)
(* try for ever to use a class that cannot be loaded.                      *)
FairSpec ==
  Spec /\ \A t \in Threads : WF_vars(Progress(t)) /\ SF_vars(JavaEnds(t))

-----------------------------------------------------------------------------
(* Properties                                                              *)

(* Every variable holds what its C declaration allows.                     *)
TypeOK ==
  /\ status \in [Classes -> Statuses] /\ superClass \in [Classes -> Classes \cup {NIL}]
  /\ initThread \in [Classes -> Threads \cup {NIL}]
  /\ frames \in [Threads -> Seq(Frame)]
  /\ busy \in Threads \cup {NIL} /\ point \in -2..6
  /\ pendingException \in [Threads -> BOOLEAN]
  /\ isPendingInterrupt \in [Threads -> BOOLEAN]
  /\ fatal \in BOOLEAN
  /\ clinitRuns \in [Classes -> Nat]
  /\ owner \in [Classes -> Threads \cup {NIL}] /\ count \in [Classes -> Nat]
  /\ entry \in [Classes -> Seq(Threads)] /\ waitset \in [Classes -> Seq(Threads)]
  /\ saved \in [Threads -> Nat]

(* A thread that is past step 6 for a class is the one thread that the     *)
(* class names as its initializer, and has one such frame for it.          *)
IsPastMark(t, i) == frames[t][i].state \in 4..6

OneInitializer ==
  \A t \in Threads : \A i \in DOMAIN frames[t] :
    IsPastMark(t, i) =>
      /\ initThread[frames[t][i].class] = t
      /\ \A j \in DOMAIN frames[t] :
           IsPastMark(t, j) /\ frames[t][j].class = frames[t][i].class => i = j

(* Every thread's frames are in states runClinit has, one initializer each.*)
InitializersExact == TypeOK /\ OneInitializer

(* <clinit> of a class is never called twice, whatever threads and errors  *)
(* come together; and a class that is ready has had it run to its end.     *)
ClinitOnce ==
  \A c \in Classes :
    /\ clinitRuns[c] <= 1
    /\ status[c] = "READY" /\ c \in HasClinit =>
         /\ clinitRuns[c] = 1
         /\ \A t \in Threads : \A i \in DOMAIN frames[t] :
              ~(frames[t][i].class = c /\ IsPastMark(t, i))

(* <clinit> is called when the superclass is ready, or is being            *)
(* initialized by the same thread (JVMS 2.17.5 step 7).                    *)
SuperclassFirst ==
  [][\A c \in Classes :
       clinitRuns'[c] > clinitRuns[c] /\ Super[c] # NIL =>
         \/ status[Super[c]] = "READY"
         \/ \E t \in Threads : initThread[c] = t /\ initThread[Super[c]] = t]_vars

(* A thread that waits for another one to initialize a class is woken: the *)
(* initializer notifies everybody when it succeeds and when it fails       *)
(* (JVMS 2.17.5 steps 9 and 11).                                           *)
WaiterWakes ==
  \A t \in Threads : \A c \in Classes :
    Contains(waitset[c], t) ~> (~Contains(waitset[c], t) \/ fatal)

(* The exceptions that reach a runClinit frame come from <clinit> or from  *)
(* the superclass: "Must be: ... a class initialization during bootstrap   *)
(* ..., executing either clinit or superclass(es) clinit".                 *)
ExceptionInExpectedState == ~fatal

-----------------------------------------------------------------------------
(* When failed loads leave nothing behind                                  *)

(* The classes a class file names; they have no circles.                   *)
Named(c) == ({Super[c]} \cup ToSet(Interfaces[c])) \ {NIL}
Descends(depth) ==
  /\ depth \in [Classes -> Nat]
  /\ \A c \in Classes : \A d \in Named(c) : depth[d] < depth[c]

(* E has all classes that can get in error: by themselves, by their        *)
(* superclass, or by a class their <clinit> uses, that is in error or      *)
(* cannot be loaded.                                                       *)
ErrorsIn(E, G) ==
  /\ E \subseteq Classes
  /\ MayFailToVerify \subseteq E /\ MayOverflow \subseteq E /\ MayFail \subseteq E
  /\ \A c \in Classes :
       Super[c] \in E \/ (\E d \in Uses[c] : d \in E \/ d \notin G) => c \in E

(* The loads of the classes in G always succeed; every superclass is one.  *)
LoadsIn(G, E) ==
  /\ G \subseteq Classes /\ \A c \in G : c \notin MayFailToLoad /\ Named(c) \subseteq G \ E
  /\ \A c \in Classes : Super[c] # NIL => Super[c] \in G

Below(E, G, depth) == ErrorsIn(E, G) /\ LoadsIn(G, E) /\ Descends(depth)

(* No error reaches the superclass of a class with a <clinit>.             *)
SupersSucceed(E) == \A c \in HasClinit : Super[c] \notin E
=============================================================================
