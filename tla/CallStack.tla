----------------------------- MODULE CallStack -----------------------------
(***************************************************************************)
(* What Java promises of the calls of a thread: a stack of activations,    *)
(* each at one of its instructions.  A synchronized method holds a lock    *)
(* for as long as its activation exists, however that ends.  An exception  *)
(* belongs to the instruction that each activation is executing; the       *)
(* innermost activation with a handler there gets it, and the ones above   *)
(* end.  There are no frames, no chunks and no instruction pointers.       *)
(***************************************************************************)
EXTENDS MethodTable

VARIABLES
  calls,    \* sequence of [of, at, lock, resume]; resume is where the caller goes on
  held,     \* [Objects -> how often the thread has locked it]
  thrown    \* the exception on its way, or NoException

vars == <<calls, held, thrown>>

Top == Last(calls)
Runs == thrown = NoException /\ calls # <<>>
InJava == Runs /\ Top.of \in Methods
Here == Kind(Top.of, Top.at)
FollowingHere == After(Top.of, Top.at)

Activation(of, lock, resume) == [of |-> of, at |-> 0, lock |-> lock, resume |-> resume]
Moved(c, pc) == [c EXCEPT ![Len(c)].at = pc]
Locks(m) == IF Code[m].sync THEN Objects ELSE {NoObject}

\* A thread starts with its run method.  If that is synchronized it takes the lock first.
Init ==
  /\ held = [o \in Objects |-> 0]
  /\ thrown = NoException
  /\ \E m \in ThreadBodies :
       LET run == Activation(m, NoObject, KILLTHREAD) IN
       calls = IF Code[m].sync THEN <<run, Activation("initThreadBehavior", NoObject, 0)>>
               ELSE <<run>>

TakesLock(o) ==
  /\ Runs /\ Top.of = "initThreadBehavior"
  /\ calls' = [Front(calls) EXCEPT ![Len(calls) - 1].lock = o]
  /\ held' = Locked(held, o)
  /\ UNCHANGED thrown

Jump ==
  /\ InJava /\ Here = "plain"
  /\ \E pc \in Starts(Top.of) : calls' = Moved(calls, pc)
  /\ UNCHANGED <<held, thrown>>

\* A native method returns, a class turns out to be initialized.
GoOn ==
  /\ InJava /\ Here \in {"native", "system", "static"}
  /\ calls' = Moved(calls, FollowingHere)
  /\ UNCHANGED <<held, thrown>>

Lock(o) ==
  /\ InJava /\ Here = "monitor"
  /\ held' = Locked(held, o)
  /\ calls' = Moved(calls, FollowingHere)
  /\ UNCHANGED thrown

Unlock(o) ==
  /\ InJava /\ Here = "monitor"
  /\ held[o] > 0
  /\ held' = Unlocked(held, o)
  /\ calls' = Moved(calls, FollowingHere)
  /\ UNCHANGED thrown

Call(m, o) ==
  /\ InJava /\ Here = "invoke"
  /\ calls' = Append(calls, Activation(m, o, FollowingHere))
  /\ held' = Locked(held, o)
  /\ UNCHANGED thrown

\* Class.newInstance calls a constructor.
NewInstance(m) ==
  /\ InJava /\ Here = "system"
  /\ calls' = calls \o << Activation("newInstanceReturnObject", NoObject, FollowingHere),
                          Activation(m, NoObject, 0) >>
  /\ UNCHANGED <<held, thrown>>

\* A class is initialized: an instruction that needs it is executed again
\* afterwards, Class.forName is not.
Initialize ==
  /\ InJava /\ Here \in {"static", "system"}
  /\ calls' = Append(calls, Activation("runClinit", NoObject,
                                IF Here = "static" THEN Top.at ELSE FollowingHere))
  /\ UNCHANGED <<held, thrown>>

\* First its superclass, then its own <clinit>.
InitializeStep(of) ==
  /\ Runs /\ Top.of = "runClinit"
  /\ calls' = Append(calls, Activation(of, NoObject, 0))
  /\ UNCHANGED <<held, thrown>>

Ended(c, pc) == IF c = <<>> THEN c ELSE Moved(c, pc)

Return ==
  /\ Runs /\ Top.of # "initThreadBehavior"
  /\ Top.of \in Methods => Here = "plain"
  /\ Holds(held, Top.lock)
  /\ calls' = Ended(Front(calls), Top.resume)
  /\ held' = Unlocked(held, Top.lock)
  /\ UNCHANGED thrown

Raise(e) ==
  /\ Runs
  /\ thrown' = e
  /\ UNCHANGED <<calls, held>>

-----------------------------------------------------------------------------
Unwinds == thrown # NoException /\ calls # <<>>
Handler == IF Top.of \in Methods THEN FindHandler(Top.of, Top.at, thrown) ELSE 0

Catch ==
  /\ Unwinds /\ Handler # 0
  /\ calls' = Moved(calls, Code[Top.of].handlers[Handler].target)
  /\ thrown' = NoException
  /\ UNCHANGED held

Propagate ==
  /\ Unwinds /\ Handler = 0 /\ Holds(held, Top.lock)
  /\ calls' = Front(calls)
  /\ held' = Unlocked(held, Top.lock)
  /\ thrown' = Seen(Top.of, thrown)

\* The method has given its lock away: that is the exception its caller
\* sees, unless it catches it itself.
LockIsGone ==
  /\ Unwinds /\ Handler = 0 /\ ~Holds(held, Top.lock)
  /\ calls' = [calls EXCEPT ![Len(calls)].lock = NoObject]
  /\ thrown' = IllegalMonitorState
  /\ UNCHANGED held

Uncaught ==
  /\ thrown # NoException /\ calls = <<>>
  /\ thrown' = NoException
  /\ UNCHANGED <<calls, held>>

Next ==
  \/ Jump \/ GoOn \/ Initialize \/ Return
  \/ \E o \in Objects : TakesLock(o) \/ Lock(o) \/ Unlock(o)
  \/ \E m \in Methods : NewInstance(m) \/ \E o \in Locks(m) : Call(m, o)
  \/ \E of \in Methods \cup Callbacks : InitializeStep(of)
  \/ \E e \in Exceptions : Raise(e)
  \/ Catch \/ Propagate \/ LockIsGone \/ Uncaught

Spec == Init /\ [][Next]_vars
=============================================================================
