---------------------------- MODULE MCClassInit ----------------------------
EXTENDS ClassInit

CONSTANTS A, B, C, D, t1, t2, t3

(* C extends B, which extends A, and implements D; <clinit> of B uses D.   *)
(* No two classes wait for each other.                                     *)
SuperOf == [c \in Classes |-> CASE c = B -> A [] c = C -> B [] OTHER -> NIL]
InterfacesOf == [c \in Classes |-> IF c = C THEN <<D>> ELSE <<>>]
UsesOf == [c \in Classes |-> IF c = B THEN {D} \cap Classes ELSE {}]

(* t2 synchronizes on the classes no error reaches, t3 on any.             *)
LockSound == {<<t2, A>>}
LockAny == {t3} \X Classes

(* C and D may fail to load, and no class extends them.  B, C and D can be *)
(* in error, and C, the class below B, has no <clinit>: the hypotheses of  *)
(* LoadsLeaveClassesWhole and SuperclassesGoFirst hold.                    *)
ASSUME FailuresBelow ==
  /\ Below({B, C, D}, {A, B},
           [c \in Classes |-> CASE c = C -> 2 [] c = B -> 1 [] OTHER -> 0])
  /\ SupersSucceed({B, C, D})
=============================================================================
