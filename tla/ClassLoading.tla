---------------------------- MODULE ClassLoading ----------------------------
(***************************************************************************)
(* Loading and linking (loader.c): loadClassfile and what it calls, and    *)
(* revertToRawClass (class.c), which undoes them.                          *)
(*                                                                         *)
(* loadClassfile goes up the superclasses, which it loads, and then links  *)
(* from the top down to the class it was called for; it calls itself for   *)
(* interfaces that are not loaded yet.  loads is the stack of its calls,   *)
(* innermost first.  No thread but the one that loads runs meanwhile.      *)
(*                                                                         *)
(* A class file that is missing, malformed or at odds with the classes it  *)
(* names makes an attempt fail; the next one may find a better file.  A    *)
(* superclass that is NIL is java.lang.Object, loaded since the VM started.*)
(***************************************************************************)
EXTENDS Integers, SequencesExt

CONSTANTS
  Classes, NIL,
  Super,          \* the superclass that the class file names, or NIL
  Interfaces,     \* the interfaces it names, a sequence
  MayFailToLoad   \* the classes whose class file may be no good

ASSUME LoadingAssumption ==
  /\ NIL \notin Classes
  /\ Super \in [Classes -> Classes \cup {NIL}]
  /\ Interfaces \in [Classes -> Seq(Classes)]
  /\ MayFailToLoad \subseteq Classes

VARIABLES
  status,         \* of every class
  superClass,     \* as it is in the INSTANCE_CLASS, NIL while it is raw
  loads

loaderVars == <<superClass, loads>>

Statuses == {"RAW", "LOADING", "LOADED", "LINKED", "VERIFIED", "READY", "ERROR"}

(* status < CLASS_LINKED; CLASS_ERROR is -1.                               *)
IsUnlinked(c) == status[c] \in {"ERROR", "RAW", "LOADING", "LOADED"}

Call(c) == [initiating |-> c, clazz |-> c, iface |-> 1, phase |-> "load"]

current == loads[1]
IsIn(phase) == loads # <<>> /\ current.phase = phase
Goto(phase) == loads' = [loads EXCEPT ![1].phase = phase]

(* What loadClassfile does about a class it is to go on with: the next     *)
(* superclass, or an interface.  A class that it has loaded and not linked *)
(* is one that it comes back to in a circle.                               *)
Verdict(s) ==
  CASE s \in {"ERROR", "LOADED"} -> "throw"
    [] s = "LOADING" -> "fatal"
    [] s = "RAW" -> "load"
    [] OTHER -> "link"

-----------------------------------------------------------------------------
(* The first loop.  loadRawClass fails before it looks at the file, which  *)
(* leaves the class raw, or anywhere in it.                                *)
LoadRawClass ==
  LET c == current.clazz
      s == Super[c]
  IN /\ IsIn("load")
     /\ \/ /\ status' = [status EXCEPT ![c] = "LOADED"]
           /\ superClass' = [superClass EXCEPT ![c] = s]
           /\ IF s = NIL THEN Goto("link")
              ELSE loads' = [loads EXCEPT ![1].clazz = s, ![1].phase = Verdict(status'[s])]
        \/ /\ c \in MayFailToLoad
           /\ Goto("throw")
           /\ \/ UNCHANGED <<status, superClass>>
              \/ /\ status' = [status EXCEPT ![c] = "LOADING"]
                 /\ \E named \in {NIL, s} : superClass' = [superClass EXCEPT ![c] = named]

(* c and the classes that superClass leads to, from one that is not linked *)
(* to the next.                                                            *)
UnlinkedChain(c) ==
  {d \in Classes :
    \A S \in SUBSET Classes :
      /\ c \in S
      /\ \A e \in S : IsUnlinked(e) => superClass[e] \in S \cup {NIL}
      => d \in S}

(* findSuperMostUnlinked(c), NIL if c is linked.                           *)
SuperMostUnlinked(c) ==
  LET highest == {d \in UnlinkedChain(c) :
                    /\ IsUnlinked(d)
                    /\ IF superClass[d] = NIL THEN TRUE ELSE ~IsUnlinked(superClass[d])}
  IN IF highest = {} THEN NIL ELSE CHOOSE d \in highest : TRUE

(* The second loop: the class it links.                                    *)
linked == SuperMostUnlinked(current.initiating)
IsLinking == IF IsIn("link") THEN linked # NIL ELSE FALSE

(* The class does not fit to its superclass or its interfaces.             *)
LinkFails ==
  /\ IsLinking /\ linked \in MayFailToLoad
  /\ Goto("throw")
  /\ UNCHANGED <<status, superClass>>

(* An interface that is raw is loaded first.                               *)
LinkInterface ==
  /\ IsLinking /\ current.iface <= Len(Interfaces[linked])
  /\ LET i == Interfaces[linked][current.iface]
     IN loads' = CASE Verdict(status[i]) = "load" -> <<Call(i)>> \o loads
                   [] Verdict(status[i]) = "link" -> [loads EXCEPT ![1].iface = @ + 1]
                   [] OTHER -> [loads EXCEPT ![1].phase = Verdict(status[i])]
  /\ UNCHANGED <<status, superClass>>

LinkClass ==
  /\ IsLinking /\ current.iface > Len(Interfaces[linked])
  /\ status' = [status EXCEPT ![linked] = "LINKED"]
  /\ loads' = [loads EXCEPT ![1].iface = 1]
  /\ UNCHANGED superClass

(* loadClassfile returns: to a call of itself, or to the bytecode.         *)
Loaded ==
  /\ IsIn("link") /\ linked = NIL
  /\ IF Len(loads) > 1 THEN loads' = Tail(loads) ELSE Goto("done")
  /\ UNCHANGED <<status, superClass>>

(* Fault: the class is left as it is.                                      *)
Reverted_None(c) == {}

(* The classes revertToRawClass is called for.  It clears the superClass   *)
(* of the first one, and so its caller finds no second one.                *)
Reverted(c) == {c}

(* CATCH: the exception goes on to an outer call of loadClassfile.         *)
Catch ==
  LET reverted == Reverted(current.initiating)
  IN /\ IsIn("throw")
     /\ status' = [c \in Classes |-> IF c \in reverted THEN "RAW" ELSE status[c]]
     /\ superClass' = [c \in Classes |-> IF c \in reverted THEN NIL ELSE superClass[c]]
     /\ loads' = IF Len(loads) = 1 THEN <<>>
                 ELSE [Tail(loads) EXCEPT ![1].phase = "throw"]

LoadStep ==
  LoadRawClass \/ LinkFails \/ LinkInterface \/ LinkClass \/ Loaded \/ Catch

LoaderInit ==
  /\ status = [c \in Classes |-> "RAW"]
  /\ superClass = [c \in Classes |-> NIL]
  /\ loads = <<>>

-----------------------------------------------------------------------------
(* Properties                                                              *)

(* "Errors occuring during classfile loading are "transient" errors": a    *)
(* load that fails leaves every class either raw, as if it had never been  *)
(* asked for, or linked, below a superclass and interfaces that are too,   *)
(* as the class file says (loadClassfile, revertToRawClass).               *)
IsWhole(c) ==
  \/ status[c] = "RAW" /\ superClass[c] = NIL
  \/ /\ status[c] \in {"LINKED", "VERIFIED", "READY", "ERROR"}
     /\ superClass[c] = Super[c]
     /\ \A d \in ({Super[c]} \cup ToSet(Interfaces[c])) \ {NIL} :
          status[d] \in {"LINKED", "VERIFIED", "READY", "ERROR"}

LoadsAreWhole == loads = <<>> => \A c \in Classes : IsWhole(c)
=============================================================================
