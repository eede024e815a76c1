---------------------------- MODULE MCInlineCache ----------------------------
EXTENDS InlineCache
CONSTANTS t1, t2, lv, lw, li, la, lg, ln, A, B, D

ThreadSymmetry == Permutations(Threads)

(* B and D extend A.                                                       *)
SuperOf == [c \in Classes |-> IF c = A THEN NIL ELSE A]
Code == [l \in Locations |->
           CASE l \in {lv, lw} -> "INVOKEVIRTUAL" [] l = li -> "INVOKEINTERFACE"
             [] l = la -> "ANEWARRAY" [] l = lg -> "GETFIELD" [] OTHER -> "NEW"]
NamedAt == [l \in Locations |-> IF l = lw THEN D ELSE A]

Placed == [package : {"p", "q"}, access : Accesses]

(* The hierarchies javac accepts in which A is in package p and declares   *)
(* the method, as the final classes do: a method that overrides a public   *)
(* one is public, and one in A's package is not private.                   *)
AllHierarchies ==
  {h \in [Classes -> Placed] :
     /\ h[A].package = "p" /\ h[A].access \in {"package", "public"}
     /\ \A c \in FinalClasses : h[c].access # "none"
     /\ \A c \in Classes \ {A} :
          /\ h[c].access = "none" => h[c].package = "p"
          /\ h[c].package = "p" => h[c].access # "private"
          /\ h[Super[c]].access = "public" => h[c].access \in {"public", "none"}}

(* Those without a namesake: a class of another package that declares the  *)
(* method anew, beside one of A's package that makes it public.            *)
NoNamesakes ==
  {h \in AllHierarchies :
     ~ \E c, d \in Classes :
         /\ c # A /\ h[c].package = "p" /\ h[c].access = "public" /\ h[A].access = "package"
         /\ h[d].package = "q" /\ h[d].access \in {"package", "public"}}
==============================================================================
