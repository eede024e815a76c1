------------------------------ MODULE MCFrames ------------------------------
EXTENDS Frames

CONSTANTS main, locked, large, Exc, IMS, Err

I(at, size, kind) == [at |-> at, size |-> size, kind |-> kind]
H(start, end, target, catches) ==
  [start |-> start, end |-> end, target |-> target, catches |-> catches]

\* In each method a call is the last instruction of a try block, and one that
\* initializes a class is the first.  The instructions that leave ip after
\* them without telling throwException, "system" and "monitor", are neither.
PaddedCode ==
  main :> [frameSize |-> 50, argCount |-> 1, maxStack |-> 1, sync |-> FALSE,
           instructions |-> {I(0, 3, "invoke"), I(3, 3, "static"), I(6, 3, "system"), I(9, 1, "plain")},
           handlers |-> << H(0, 3, 9, {Exc}), H(3, 10, 9, {Err}), H(0, 3, 6, {Exc, IMS}) >>]
  @@
  locked :> [frameSize |-> 1, argCount |-> 1, maxStack |-> 53, sync |-> TRUE,
             instructions |-> {I(0, 3, "invoke"), I(3, 1, "monitor"), I(4, 1, "plain")},
             handlers |-> << H(3, 5, 4, {IMS, Err}) >>]
  @@
  large :> [frameSize |-> 140, argCount |-> 0, maxStack |-> 0, sync |-> FALSE,
            instructions |-> {I(0, 3, "static"), I(3, 3, "native"), I(6, 1, "plain")},
            handlers |-> << H(3, 6, 6, {Exc}) >>]

\* The tables of the exceptions in the README: with them ImplementsCallStack fails.
\* A "system" instruction is the last of a try block.
SleepsLast == [PaddedCode EXCEPT ![main].handlers = << H(6, 9, 9, {Exc}) >>]

\* A try block begins after an instruction that enters or exits a monitor.
LocksFirst == [PaddedCode EXCEPT ![locked].handlers = << H(4, 5, 4, {IMS, Err}) >>]

\* The first instruction of a synchronized method is in a try block.
CatchesFirst == [PaddedCode EXCEPT ![locked].handlers = << H(0, 3, 4, {Err}) >>]

\* The hypotheses of CallsAreJavas: the second one holds of PaddedCode and of
\* none of the other tables.
ASSUME TablesAssumption ==
  /\ Verified
  /\ TablesFit <=> Code = PaddedCode
=============================================================================
