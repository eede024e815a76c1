---------------------------- MODULE MethodTable ----------------------------
(***************************************************************************)
(* What the class file says of the methods of a program, as far as calls   *)
(* and exceptions depend on it.  A method is a record                      *)
(*   frameSize, argCount, maxStack   in cells,                             *)
(*   sync           is it synchronized,                                    *)
(*   instructions   set of [at, size, kind]; kind is "invoke" (of a Java   *)
(*                  method), "native" (invoke of a native method),         *)
(*                  "system" (the same, of one that may suspend the        *)
(*                  thread or push frames), "static" (may initialize a     *)
(*                  class), "monitor" or "plain",                          *)
(*   handlers       sequence of [start, end, target, catches]: the         *)
(*                  exception table, catches being the set of exceptions.  *)
(***************************************************************************)
EXTENDS Integers, Sequences, SequencesExt, FiniteSetsExt

CONSTANTS
  Methods,      \* the Java methods
  Code,         \* [Methods -> such records]
  ThreadBodies, \* the run methods among them
  Objects,      \* objects that are locked
  Exceptions,   \* classes of exceptions
  Errors,       \* those that extend java.lang.Error
  IllegalMonitorState, OutOfMemory, Interrupted, JavaLangError,
  NoObject, NoException

KILLTHREAD == -1     \* the return address of the first frame
Callbacks == {"runClinit", "newInstanceReturnObject", "initThreadBehavior"}

ASSUME MethodAssumption ==
  /\ Methods \cap Callbacks = {} /\ ThreadBodies \subseteq Methods
  /\ Errors \subseteq Exceptions
  /\ {IllegalMonitorState, OutOfMemory, Interrupted, JavaLangError} \subseteq Exceptions
  /\ JavaLangError \in Errors
  /\ NoException \notin Exceptions /\ NoObject \notin Objects
  /\ \A m \in Methods :
       /\ {Code[m].frameSize, Code[m].argCount, Code[m].maxStack} \subseteq Nat
       /\ Code[m].argCount <= Code[m].frameSize
       /\ \E i \in Code[m].instructions : i.at = 0

Starts(m) == {i.at : i \in Code[m].instructions}
InstructionAt(m, pc) == CHOOSE i \in Code[m].instructions : i.at = pc
Kind(m, pc) == InstructionAt(m, pc).kind
After(m, pc) == pc + InstructionAt(m, pc).size

Covers(h, pc, e) == h.start <= pc /\ pc < h.end /\ e \in h.catches

(* findHandler: the first entry of the table that covers the place and     *)
(* catches the exception, 0 if there is none.                              *)
FindHandler(m, pc, e) == SelectInSeq(Code[m].handlers, LAMBDA h : Covers(h, pc, e))

(* runClinitException: a static initializer ends with an error.            *)
Seen(of, e) == IF of = "runClinit" /\ e \notin Errors THEN JavaLangError ELSE e

\* The counts of the locks.
Locked(h, o) == IF o = NoObject THEN h ELSE [h EXCEPT ![o] = @ + 1]
Unlocked(h, o) == IF o = NoObject THEN h ELSE [h EXCEPT ![o] = @ - 1]
Holds(h, o) == o # NoObject => h[o] > 0

-----------------------------------------------------------------------------
(***************************************************************************)
(* What CallStack can be implemented for.                                  *)
(***************************************************************************)
\* A try block holds both places or neither.
Alike(h, pc, other) == (h.start <= pc /\ pc < h.end) <=> (h.start <= other /\ other < h.end)

\* Code as the verifier accepts it: execution stays within the code, and a
\* try block and its handler begin and end with instructions.
Verified ==
  \A m \in Methods :
    /\ Code[m].handlers \in Seq(Range(Code[m].handlers))
    /\ \A i \in Code[m].instructions :
         /\ i.at \in Nat /\ i.size \in Nat \ {0}
         /\ i.kind # "plain" => i.at + i.size \in Starts(m)
         /\ \A h \in Range(Code[m].handlers) : Alike(h, i.at, i.at + i.size - 1)
    /\ \A h \in Range(Code[m].handlers) : h.target \in Starts(m)

\* The exception tables that the machine gets right: no try block begins or
\* ends after an instruction that may leave ip there without a correction,
\* and no synchronized method catches in its first instruction the error
\* that its lock cannot be had.
TablesFit ==
  \A m \in Methods : \A h \in Range(Code[m].handlers) :
    /\ \A i \in Code[m].instructions :
         i.kind \in {"system", "monitor"} => Alike(h, i.at, i.at + i.size)
    /\ Code[m].sync => ~Covers(h, 0, OutOfMemory)
=============================================================================
