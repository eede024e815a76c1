-------------------------- MODULE InlineCacheProofs --------------------------
(***************************************************************************)
(* For all classes, locations, threads, sizes of the cache and commands of *)
(* the debugger: rewriting is undone completely (CodeReversible) and a     *)
(* breakpoint is where the debugger has set it (BreakpointsArmed), if      *)
(* breakpoints are set only where the parameter is never rewritten; and a  *)
(* call goes where the bytecode of the class file leads (CallsRightMethod),*)
(* if threads are also stopped after a step at such locations only, and    *)
(* the class hierarchy allows a lookup to begin from a cached method.      *)
(*                                                                         *)
(* CodeInv says of every location which bytes it can have: those of the    *)
(* class file, those that stay fast, or those of a live entry that names   *)
(* it.  CallInv, proved with it, says that a live entry has a method that  *)
(* some receiver of its location leads to.                                 *)
(***************************************************************************)
EXTENDS InlineCache, NaturalsInduction, WellFoundedInduction, FiniteSetTheorems, TLAPS

(* Induction over a set of naturals.                                       *)
LEMMA NatSetInduction ==
  ASSUME NEW K, 0 \in K, \A n \in Nat : n \in K => n + 1 \in K
  PROVE  Nat \subseteq K
<1> DEFINE R == OpToRel(<, Nat)
<1> SUFFICES ASSUME Nat \ K # {} PROVE FALSE
    OBVIOUS
<1>1. IsWellFoundedOn(R, Nat)
    BY NatLessThanWellFounded
<1>2. \A x, y \in Nat : <<y, x>> \in R <=> y < x
    BY Zenon DEF OpToRel
<1> HIDE DEF R
<1>3. PICK x \in Nat \ K : \A y \in Nat \ K : ~ (<<y, x>> \in R)
    BY <1>1, WFMin
<1>4. x - 1 \in Nat /\ x - 1 < x
    BY <1>3
<1>5. x - 1 \in K
    BY <1>2, <1>3, <1>4
<1> QED
    BY <1>3, <1>4, <1>5

-----------------------------------------------------------------------------
(* The superclasses of a class                                             *)

ChainOver(f, S) ==
  f = [c \in S |-> IF Super[c] = NIL THEN <<c>> ELSE <<c>> \o f[Super[c]]]

LEMMA ChainBuilt ==
  ASSUME NEW S, NEW g, g = [c \in S |-> g[c]],
         \A c \in S : g[c] = IF Super[c] = NIL THEN <<c>> ELSE <<c>> \o g[Super[c]]
  PROVE  ChainOver(g, S)
BY Zenon DEF ChainOver

(* As the classes have no circle there is a chain for each.                *)
LEMMA ChainExists == \E f : ChainOver(f, Classes)
<1>1. PICK depth \in [Classes -> 0 .. Cardinality(Classes)] :
        \A c \in Classes : Super[c] # NIL => depth[Super[c]] < depth[c]
      BY CodeAssumption
<1>2. Cardinality(Classes) \in Nat
      BY CodeAssumption, FS_CardinalityType
<1>3. /\ \A c \in Classes : depth[c] \in Nat /\ depth[c] < Cardinality(Classes) + 1
      /\ \A c \in Classes : Super[c] # NIL => Super[c] \in Classes
      BY <1>1, <1>2, CodeAssumption
<1> DEFINE D(n) == {c \in Classes : depth[c] < n}
           K == {n \in Nat : \E f : ChainOver(f, D(n))}
<1>4. 0 \in K
  <2>1. D(0) = {}
        BY <1>3
  <2>2. ChainOver([c \in {} |-> c], {})
        BY DEF ChainOver
  <2> QED
        BY <2>1, <2>2
<1>5. ASSUME NEW n \in Nat, n \in K PROVE n + 1 \in K
  <2>1. PICK f : ChainOver(f, D(n))
        BY <1>5
  <2> DEFINE g == [c \in D(n + 1) |-> IF c \in D(n) THEN f[c]
                                      ELSE IF Super[c] = NIL THEN <<c>> ELSE <<c>> \o f[Super[c]]]
  <2>2. ASSUME NEW c \in D(n + 1)
        PROVE  g[c] = IF Super[c] = NIL THEN <<c>> ELSE <<c>> \o g[Super[c]]
    <3>1. Super[c] # NIL => Super[c] \in D(n) /\ Super[c] \in D(n + 1)
          BY <1>1, <1>3, <2>2
    <3>2. Super[c] # NIL => g[Super[c]] = f[Super[c]]
          BY <3>1
    <3>3. g[c] = IF Super[c] = NIL THEN <<c>> ELSE <<c>> \o f[Super[c]]
      <4>1. CASE c \in D(n)
            BY <2>1, <4>1 DEF ChainOver
      <4>2. CASE c \notin D(n)
            BY <4>2
      <4> QED
            BY <4>1, <4>2
    <3> QED
          BY <3>2, <3>3
  <2>3. g = [c \in D(n + 1) |-> g[c]]
        OBVIOUS
  <2> HIDE DEF g
  <2>4. ChainOver(g, D(n + 1))
    <3> HIDE DEF D
    <3> QED
          BY <2>2, <2>3, ChainBuilt, Zenon
  <2>5. n + 1 \in Nat /\ \E h : ChainOver(h, D(n + 1))
    <3> HIDE DEF D
    <3> QED
          BY <2>4
  <2> HIDE DEF D
  <2> QED
        BY <2>5
<1> HIDE DEF K
<1>6. Cardinality(Classes) + 1 \in K
      BY <1>2, <1>4, <1>5, NatSetInduction
<1>7. D(Cardinality(Classes) + 1) = Classes
      BY <1>3
<1> QED
      BY <1>6, <1>7 DEF K

LEMMA ChainIs ==
  ASSUME NEW c \in Classes
  PROVE  Chain[c] = IF Super[c] = NIL THEN <<c>> ELSE <<c>> \o Chain[Super[c]]
<1>1. Chain = CHOOSE f : ChainOver(f, Classes)
      BY DEF Chain, ChainOver
<1>2. ChainOver(Chain, Classes)
      BY <1>1, ChainExists, Zenon
<1> QED
      BY <1>2 DEF ChainOver

On(c) == {Chain[c][i] : i \in DOMAIN Chain[c]}
Extended(d) == \E e \in Classes : Super[e] = d

(* A chain begins with its class; of the others on it every one has a      *)
(* subclass; and the chain of a class on it is part of it.                 *)
LEMMA ChainFacts ==
  ASSUME NEW c \in Classes
  PROVE  /\ Chain[c] \in Seq(Classes) /\ Len(Chain[c]) > 0 /\ Chain[c][1] = c
         /\ c \in On(c)
         /\ \A d \in On(c) : d = c \/ Extended(d)
         /\ \A d \in On(c) : On(d) \subseteq On(c)
<1>1. PICK depth \in [Classes -> 0 .. Cardinality(Classes)] :
        \A b \in Classes : Super[b] # NIL => depth[Super[b]] < depth[b]
      BY CodeAssumption
<1>2. Cardinality(Classes) \in Nat
      BY CodeAssumption, FS_CardinalityType
<1>3. /\ \A b \in Classes : depth[b] \in Nat /\ depth[b] < Cardinality(Classes) + 1
      /\ \A b \in Classes : Super[b] # NIL => Super[b] \in Classes
      BY <1>1, <1>2, CodeAssumption
<1> DEFINE P(b) == /\ Chain[b] \in Seq(Classes) /\ Len(Chain[b]) > 0 /\ Chain[b][1] = b
                   /\ b \in On(b)
                   /\ \A d \in On(b) : d = b \/ Extended(d)
                   /\ \A d \in On(b) : On(d) \subseteq On(b)
           K == {n \in Nat : \A b \in Classes : depth[b] < n => P(b)}
<1>4. 0 \in K
      BY <1>3
<1>5. ASSUME NEW n \in Nat, n \in K PROVE n + 1 \in K
  <2> SUFFICES ASSUME NEW b \in Classes, depth[b] < n + 1 PROVE P(b)
      OBVIOUS
  <2>1. CASE Super[b] = NIL
    <3>1. Chain[b] = <<b>>
          BY <2>1, ChainIs
    <3>2. On(b) = {b}
          BY <3>1 DEF On
    <3> QED
          BY <3>1, <3>2
  <2>2. CASE Super[b] # NIL
    <3>1. PICK a \in Classes : a = Super[b]
          BY <1>3, <2>2
    <3>2. P(a)
      <4>1. depth[a] < n
            BY <1>1, <1>3, <2>2, <3>1
      <4> QED
            BY <1>5, <4>1
    <3>3. PICK s, t : s = Chain[a] /\ t = Chain[b]
          OBVIOUS
    <3>4. s \in Seq(Classes) /\ Len(s) > 0 /\ t = <<b>> \o s
          BY <2>2, <3>1, <3>2, <3>3, ChainIs
    <3>5. /\ t \in Seq(Classes) /\ Len(t) = Len(s) + 1 /\ t[1] = b
          /\ \A i \in 1 .. Len(s) : t[i + 1] = s[i]
          BY <3>4
    <3>6. On(b) = {b} \cup On(a)
      <4>1. On(b) = {t[i] : i \in 1 .. Len(s) + 1} /\ On(a) = {s[i] : i \in 1 .. Len(s)}
        <5>1. DOMAIN t = 1 .. Len(s) + 1 /\ DOMAIN s = 1 .. Len(s)
              BY <3>4, <3>5
        <5> QED
              BY ONLY <3>3, <5>1 DEF On
      <4>2. ASSUME NEW d \in On(b) PROVE d \in {b} \cup On(a)
        <5>1. PICK i \in 1 .. Len(s) + 1 : d = t[i]
              BY <4>1, <4>2
        <5>2. CASE i = 1
              BY <3>5, <5>1, <5>2
        <5>3. CASE i # 1
          <6>1. i - 1 \in 1 .. Len(s) /\ (i - 1) + 1 = i
                BY <3>4, <5>3
          <6>2. d = s[i - 1]
                BY <3>5, <5>1, <6>1
          <6> QED
                BY <4>1, <6>1, <6>2
        <5> QED
              BY <5>2, <5>3
      <4>3. ASSUME NEW d \in {b} \cup On(a) PROVE d \in On(b)
        <5>1. CASE d = b
          <6>1. 1 \in 1 .. Len(s) + 1
                BY <3>4
          <6> QED
                BY <3>5, <4>1, <5>1, <6>1
        <5>2. CASE d \in On(a)
          <6>1. PICK i \in 1 .. Len(s) : d = s[i]
                BY <4>1, <5>2
          <6>2. i + 1 \in 1 .. Len(s) + 1 /\ t[i + 1] = d
                BY <3>4, <3>5, <6>1
          <6> QED
                BY <4>1, <6>2
        <5> QED
              BY <4>3, <5>1, <5>2
      <4> QED
            BY <4>2, <4>3
    <3>7. Extended(a)
          BY <3>1 DEF Extended
    <3>8. /\ Chain[b] \in Seq(Classes) /\ Len(Chain[b]) > 0 /\ Chain[b][1] = b
          BY <3>3, <3>4, <3>5
    <3> QED
      <4>1. \A d \in On(b) : d = b \/ Extended(d)
            BY <3>2, <3>6, <3>7
      <4>2. \A d \in On(b) : On(d) \subseteq On(b)
            BY <3>2, <3>6
      <4> QED
            BY <3>6, <3>8, <4>1, <4>2
  <2> QED
        BY <2>1, <2>2
<1> HIDE DEF K
<1>6. Cardinality(Classes) + 1 \in K
      BY <1>2, <1>4, <1>5, NatSetInduction
<1>7. depth[c] < Cardinality(Classes) + 1
      BY <1>3
<1> QED
      BY <1>6, <1>7 DEF K

-----------------------------------------------------------------------------
(* Method lookup                                                           *)

LEMMA LeastFacts ==
  ASSUME NEW I \in SUBSET Nat, I # {}
  PROVE  Min(I) \in I /\ \A i \in I : Min(I) <= i
<1> DEFINE K == {n \in Nat : (\E i \in I : i <= n) => \E j \in I : \A i \in I : j <= i}
<1>1. 0 \in K
      OBVIOUS
<1>2. ASSUME NEW n \in Nat, n \in K PROVE n + 1 \in K
  <2> SUFFICES ASSUME NEW k \in I, k <= n + 1, \A i \in I : ~(i <= n)
               PROVE  \E j \in I : \A i \in I : j <= i
      BY <1>2
  <2>1. \A i \in I : k <= i
        OBVIOUS
  <2> QED
        BY <2>1
<1> HIDE DEF K
<1>3. PICK n \in I : n \in Nat
      OBVIOUS
<1>4. n \in K
      BY <1>1, <1>2, <1>3, NatSetInduction
<1>5. \E j \in I : \A i \in I : j <= i
      BY <1>3, <1>4 DEF K
<1> QED
      BY <1>5, Zenon DEF Min

LEMMA ResolvedFacts ==
  ASSUME NEW c \in Classes
  PROVE  Resolved(c) \in On(c) \cup {NIL}
<1>1. PICK s : s = Chain[c]
      OBVIOUS
<1>2. PICK I : I = {i \in 1 .. Len(s) : Access(s[i]) # "none"}
      OBVIOUS
<1>3. Len(s) \in Nat /\ DOMAIN s = 1 .. Len(s) /\ \A i \in 1 .. Len(s) : s[i] \in On(c)
      BY <1>1, ChainFacts DEF On
<1>4. Resolved(c) = IF (IF I # {} THEN Min(I) ELSE 0) = 0 THEN NIL
                    ELSE s[IF I # {} THEN Min(I) ELSE 0]
      BY <1>1, <1>2, Zenon DEF Resolved, FirstFrom, SelectInSeq
<1>5. I # {} => Min(I) \in I
  <2>1. I \in SUBSET Nat
        BY <1>2, <1>3
  <2> QED
        BY <2>1, LeastFacts
<1>6. I \subseteq 1 .. Len(s)
      BY <1>2
<1> QED
      BY <1>3, <1>4, <1>5, <1>6

LEMMA LookupFacts ==
  ASSUME NEW c \in Classes
  PROVE  /\ \/ LookupMethod(c) = NIL
            \/ LookupMethod(c) \in On(c) /\ Visible(LookupMethod(c))
         /\ Visible(c) => LookupMethod(c) = c
<1>1. PICK s : s = Chain[c]
      OBVIOUS
<1>2. PICK I : I = {i \in 1 .. Len(s) : Visible(s[i])}
      OBVIOUS
<1>3. /\ Len(s) \in Nat /\ DOMAIN s = 1 .. Len(s) /\ \A i \in 1 .. Len(s) : s[i] \in On(c)
      /\ Len(s) > 0 /\ s[1] = c
      BY <1>1, ChainFacts DEF On
<1>4. LookupMethod(c) = IF (IF I # {} THEN Min(I) ELSE 0) = 0 THEN NIL
                        ELSE s[IF I # {} THEN Min(I) ELSE 0]
      BY <1>1, <1>2, Zenon DEF LookupMethod, FirstFrom, SelectInSeq
<1>5. I # {} => Min(I) \in I /\ \A i \in I : Min(I) <= i
  <2>1. I \in SUBSET Nat
        BY <1>2, <1>3
  <2> QED
        BY <2>1, LeastFacts
<1>6. I \subseteq 1 .. Len(s) /\ \A i \in 1 .. Len(s) : i \in I <=> Visible(s[i])
      BY <1>2
<1>7. Visible(c) => 1 \in I
      BY <1>3, <1>6
<1>8. CASE I = {}
  <2>1. ~Visible(c)
        BY ONLY <1>7, <1>8, Zenon
  <2>2. LookupMethod(c) = NIL
    <3>1. (IF I # {} THEN Min(I) ELSE 0) = 0
          BY <1>8
    <3> QED
          BY <1>4, <3>1, Zenon
  <2> QED
        BY <2>1, <2>2, Zenon
<1>9. CASE I # {}
  <2>1. Min(I) \in 1 .. Len(s) /\ Min(I) \in I
        BY ONLY <1>5, <1>6, <1>9
  <2>2. Visible(s[Min(I)])
        BY <1>6, <2>1, Zenon
  <2>3. LookupMethod(c) = s[Min(I)]
        BY ONLY <1>3, <1>4, <1>9, <2>1
  <2>4. 1 \in I => Min(I) = 1
        BY ONLY <1>3, <1>5, <1>9, <2>1
  <2>5. s[Min(I)] \in On(c)
        BY ONLY <1>3, <2>1
  <2> QED
        BY <1>3, <1>7, <2>2, <2>3, <2>4, <2>5, Zenon
<1> QED
      BY <1>8, <1>9

LEMMA DynamicFacts ==
  ASSUME NEW c \in Classes, NEW d
  PROVE  /\ LookupDynamicMethod(c, d) \in On(c) \cup {NIL, d}
         /\ d \in On(c) => LookupDynamicMethod(c, d) \in On(c)
         /\ d = c => LookupDynamicMethod(c, d) = c
<1> DEFINE chain == Chain[c]
      isHere(i) == Access(chain[i]) \notin {"none", "private"}
      isDirect(i) == \/ chain[i] = d
                     \/ isHere(i) /\ \/ Access(d) = "public"
                                     \/ Package(chain[i]) = Package(d)
      isElsewhere(i) == isHere(i) /\ ~isDirect(i)
      isOverride(i) ==
        /\ isElsewhere(i) /\ \A j \in 1 .. i - 1 : ~isElsewhere(j)
        /\ HasPublicDeclaration(SubSeq(chain, i + 1, Len(chain)), Package(d))
      found == {i \in DOMAIN chain : isDirect(i) \/ isOverride(i)}
<1>1. LookupDynamicMethod(c, d) = IF Access(d) = "private" THEN d
                                  ELSE IF found = {} THEN NIL
                                  ELSE chain[CHOOSE i \in found : \A j \in found : i <= j]
      BY DEF LookupDynamicMethod
<1>2. /\ DOMAIN chain = 1 .. Len(chain) /\ Len(chain) \in Nat /\ Len(chain) > 0
      /\ chain[1] = c /\ c \in On(c)
      BY ChainFacts
<1>3. /\ found \subseteq 1 .. Len(chain) /\ \A i \in 1 .. Len(chain) : chain[i] = d => i \in found
      BY <1>2
<1>4. PICK F : F = found
      OBVIOUS
<1>5. PICK m : m = CHOOSE i \in F : \A j \in F : i <= j
      OBVIOUS
<1>6. LookupDynamicMethod(c, d) = IF Access(d) = "private" THEN d
                                  ELSE IF F = {} THEN NIL ELSE chain[m]
      BY <1>1, <1>4, <1>5, Zenon
<1>7. F # {} => m \in F /\ \A i \in F : m <= i
  <2>1. F \in SUBSET Nat
        BY <1>2, <1>3, <1>4
  <2>2. m = Min(F)
        BY <1>5, Zenon DEF Min
  <2> QED
        BY <2>1, <2>2, LeastFacts
<1> HIDE DEF found
<1>8. F # {} => chain[m] \in On(c)
      BY <1>2, <1>3, <1>4, <1>7 DEF On
<1>9. d \in On(c) => F # {}
      BY <1>2, <1>3, <1>4 DEF On
<1> HIDE DEF chain
<1>10. d = c => F # {} /\ m = 1
  <2> SUFFICES ASSUME d = c PROVE F # {} /\ m = 1
      OBVIOUS
  <2>1. 1 \in F
        BY <1>2, <1>3, <1>4
  <2>2. m \in 1 .. Len(chain) /\ m <= 1
        BY <1>3, <1>4, <1>7, <2>1
  <2> QED
        BY <1>2, <2>1, <2>2
<1> QED
      BY <1>2, <1>6, <1>8, <1>9, <1>10

-----------------------------------------------------------------------------
(* What the interpreter and the debugger write                             *)

FastOpcodes == UNION {Fast(op) : op \in Bytecodes}
Opcodes == Bytecodes \cup FastOpcodes \cup {"BREAKPOINT"}
Params == {"constant", "cache", "offset"} \X (Locations \cup Nat)
Indices == 0 .. INLINECACHESIZE - 1

CodeBytes == [op : Opcodes, param : Params]
CacheEntries == [contents  : Classes \cup {NIL}, codeLoc   : Locations \cup {NIL},
                 origInst  : Opcodes \cup {NIL}, origParam : Params \cup {NIL}]
BreakEvents == [inUse : BOOLEAN, location : Locations, opcode : Opcodes]

Images == [code    : [Locations -> CodeBytes], entries : [Indices -> CacheEntries],
           pointer : Indices, full : BOOLEAN, events : Seq(BreakEvents)]

(* Two images differ in the code at l at most, or in the event i.          *)
CodeOnly(im, r, l) ==
  /\ \A k \in Locations : k # l => r.code[k] = im.code[k]
  /\ r.entries = im.entries /\ r.pointer = im.pointer /\ r.full = im.full
  /\ r.events = im.events

EventOnly(im, r, i) ==
  /\ Len(r.events) = Len(im.events)
  /\ \A k \in 1 .. Len(im.events) : k # i => r.events[k] = im.events[k]
  /\ r.entries = im.entries /\ r.pointer = im.pointer /\ r.full = im.full
  /\ r.code = im.code

PutOp(im, l, b) == [im EXCEPT !.code[l].op = b]

LEMMA PutOpEffect ==
  ASSUME NEW im \in Images, NEW l \in Locations, NEW b \in Opcodes, NEW r,
         r = PutOp(im, l, b)
  PROVE  /\ r \in Images /\ CodeOnly(im, r, l)
         /\ r.code[l].op = b /\ r.code[l].param = im.code[l].param
BY DEF Images, CodeBytes, CodeOnly, PutOp

LEMMA PutShortEffect ==
  ASSUME NEW im \in Images, NEW l \in Locations, NEW p \in Params, NEW r,
         r = PutShort(im, l, p)
  PROVE  /\ r \in Images /\ CodeOnly(im, r, l)
         /\ r.code[l].op = im.code[l].op /\ r.code[l].param = p
BY DEF Images, CodeBytes, CodeOnly, PutShort

LEMMA PutEventEffect ==
  ASSUME NEW im \in Images, NEW i \in 1 .. Len(im.events), NEW e \in BreakEvents, NEW r,
         r = [im EXCEPT !.events = [@ EXCEPT ![i] = e]]
  PROVE  r \in Images /\ EventOnly(im, r, i) /\ r.events[i] = e
<1>1. PICK s : s = im.events
      OBVIOUS
<1>2. s \in Seq(BreakEvents) /\ i \in 1 .. Len(s)
      BY <1>1 DEF Images
<1>3. PICK t : t = [s EXCEPT ![i] = e]
      OBVIOUS
<1>4. /\ t \in Seq(BreakEvents) /\ Len(t) = Len(s) /\ t[i] = e
      /\ \A k \in 1 .. Len(s) : k # i => t[k] = s[k]
      BY <1>2, <1>3
<1>5. r = [im EXCEPT !.events = t]
      BY <1>1, <1>3, Zenon
<1>6. r \in Images /\ r.events = t /\ r.entries = im.entries /\ r.pointer = im.pointer
      /\ r.full = im.full /\ r.code = im.code
      BY <1>4, <1>5 DEF Images
<1> QED
      BY <1>1, <1>4, <1>6 DEF EventOnly

PutEventOpcode(im, i, b) == [im EXCEPT !.events[i].opcode = b]

LEMMA PutEventOpcodeEffect ==
  ASSUME NEW im \in Images, NEW i \in 1 .. Len(im.events), NEW b \in Opcodes, NEW r,
         r = PutEventOpcode(im, i, b)
  PROVE  /\ r \in Images /\ EventOnly(im, r, i)
         /\ r.events[i].inUse = im.events[i].inUse
         /\ r.events[i].location = im.events[i].location /\ r.events[i].opcode = b
<1>1. PICK e : e = [im.events[i] EXCEPT !.opcode = b]
      OBVIOUS
<1>2. im.events[i] \in BreakEvents
      BY DEF Images
<1>3. /\ e \in BreakEvents /\ e.inUse = im.events[i].inUse
      /\ e.location = im.events[i].location /\ e.opcode = b
      BY <1>1, <1>2 DEF BreakEvents
<1>4. r = [im EXCEPT !.events = [@ EXCEPT ![i] = e]]
      BY <1>1, Zenon DEF PutEventOpcode
<1> QED
      BY <1>3, <1>4, PutEventEffect

LEMMA FindBreakFacts ==
  ASSUME NEW im \in Images, NEW l \in Locations
  PROVE  LET i == FindBreakEvent(im, l)
         IN  /\ i \in 0 .. Len(im.events)
             /\ i # 0 => im.events[i].location = l
             /\ \A k \in 1 .. Len(im.events) : im.events[k].location = l => i # 0
<1>1. PICK s : s = im.events
      OBVIOUS
<1>2. PICK I : I = {k \in 1 .. Len(s) : s[k].location = l}
      OBVIOUS
<1>3. Len(s) \in Nat
      BY <1>1 DEF Images
<1>4. PICK i : i = IF I # {} THEN Min(I) ELSE 0
      OBVIOUS
<1>5. i = FindBreakEvent(im, l)
      BY <1>1, <1>2, <1>4, Zenon DEF FindBreakEvent, SelectInSeq
<1>6. I # {} => Min(I) \in I
  <2>1. I \in SUBSET Nat
        BY <1>2, <1>3
  <2> QED
        BY <2>1, LeastFacts
<1>7. /\ i \in 0 .. Len(s)
      /\ i # 0 => s[i].location = l
      /\ \A k \in 1 .. Len(s) : s[k].location = l => i # 0
  <2>1. CASE I = {}
        BY <1>2, <1>3, <1>4, <2>1
  <2>2. CASE I # {}
    <3>1. i \in I
          BY <1>4, <1>6, <2>2
    <3> QED
          BY <1>2, <1>3, <3>1
  <2> QED
        BY <2>1, <2>2
<1> QED
      BY <1>1, <1>5, <1>7

-----------------------------------------------------------------------------
(* Good code                                                               *)

(* A location whose parameter the interpreter never rewrites: the only     *)
(* ones where a breakpoint is harmless.                                    *)
KeepsParameter(l) ==
  \/ Instruction[l] = "NEW"
  \/ Instruction[l] = "INVOKEVIRTUAL" /\ IsSpecial(l)

Keeping == {l \in Locations : KeepsParameter(l)}

KeptOps(l) == IF Instruction[l] = "NEW" THEN {"NEW", "NEW_FAST"}
              ELSE {"INVOKEVIRTUAL", "INVOKESPECIAL_FAST"}

Cached == {"INVOKEVIRTUAL", "INVOKEINTERFACE", "ANEWARRAY"}
CachedOp(l) ==
  CASE Instruction[l] = "INVOKEVIRTUAL" -> "INVOKEVIRTUAL_FAST"
    [] Instruction[l] = "INVOKEINTERFACE" -> "INVOKEINTERFACE_FAST"
    [] OTHER -> "ANEWARRAY_FAST"

OwnEntry(im, i, l) ==
  /\ im.entries[i].codeLoc = l /\ im.entries[i].origInst = Instruction[l]
  /\ im.entries[i].origParam = ConstantPool(l)

Bytes(im, l, op, param) == im.code[l].op = op /\ im.code[l].param = param

LocationGood(im, live, keep, l) ==
  \/ /\ l \in keep
     /\ \E op \in KeptOps(l) \cup {"BREAKPOINT"} : Bytes(im, l, op, ConstantPool(l))
  \/ l \notin keep /\ Bytes(im, l, Instruction[l], ConstantPool(l))
  \/ Instruction[l] = "GETFIELD" /\ Bytes(im, l, "GETFIELD_FAST", <<"offset", l>>)
  \/ /\ l \notin keep /\ Instruction[l] \in Cached
     /\ \E i \in live : Bytes(im, l, CachedOp(l), <<"cache", i>>) /\ OwnEntry(im, i, l)

CodeGood(im, live, keep) ==
  /\ im \in Images /\ live \subseteq Indices
  /\ keep \subseteq Locations /\ BreakLocations \subseteq keep
  /\ \A l \in keep : Instruction[l] \in {"NEW", "INVOKEVIRTUAL"}
  /\ \A l \in Locations : LocationGood(im, live, keep, l)
  /\ \A i \in live : /\ im.entries[i].codeLoc \in Locations
                     /\ im.code[im.entries[i].codeLoc].param = <<"cache", i>>

(* What is right of the events at any time, and between commands.          *)
EventsTyped(im) ==
  /\ \A i \in 1 .. Len(im.events) : /\ im.events[i].location \in BreakLocations
                                    /\ im.events[i].opcode \in KeptOps(im.events[i].location)
  /\ \A l \in Locations : im.code[l].op = "BREAKPOINT" =>
       \E i \in 1 .. Len(im.events) : im.events[i].inUse /\ im.events[i].location = l

EventsGood(im) ==
  /\ EventsTyped(im)
  /\ \A i \in 1 .. Len(im.events) :
       im.events[i].inUse => im.code[im.events[i].location].op = "BREAKPOINT"
  /\ \A i, j \in 1 .. Len(im.events) :
       im.events[i].inUse /\ im.events[j].inUse /\ im.events[i].location = im.events[j].location
         => i = j

LiveEntries(im) == {i \in Indices : im.full \/ i < im.pointer}

LEMMA AssumeFacts ==
  /\ INLINECACHESIZE \in Nat /\ INLINECACHESIZE > 0
  /\ Instruction \in [Locations -> Bytecodes] /\ ClassAt \in [Locations -> Classes]
  /\ BreakLocations \subseteq Locations /\ StepLocations \subseteq Locations
  /\ NIL \notin Classes
BY CodeAssumption

LEMMA OpcodeFacts ==
  ASSUME NEW l \in Locations
  PROVE  /\ KeptOps(l) \subseteq Opcodes /\ Instruction[l] \in Opcodes /\ CachedOp(l) \in Opcodes
         /\ "BREAKPOINT" \in Opcodes /\ "GETFIELD_FAST" \in Opcodes
         /\ "BREAKPOINT" \notin KeptOps(l) /\ Instruction[l] # "BREAKPOINT"
         /\ CachedOp(l) # "BREAKPOINT"
<1>1. Instruction[l] \in Bytecodes
      BY AssumeFacts
<1>2. {"NEW", "INVOKEVIRTUAL", "NEW_FAST", "INVOKESPECIAL_FAST", "INVOKEVIRTUAL_FAST",
       "INVOKEINTERFACE_FAST", "ANEWARRAY_FAST", "GETFIELD_FAST", "BREAKPOINT"} \subseteq Opcodes
  <2>1. /\ Fast("NEW") = {"NEW_FAST"} /\ Fast("GETFIELD") = {"GETFIELD_FAST"}
        /\ Fast("INVOKEVIRTUAL") = {"INVOKEVIRTUAL_FAST", "INVOKESPECIAL_FAST"}
        /\ Fast("INVOKEINTERFACE") = {"INVOKEINTERFACE_FAST"}
        /\ Fast("ANEWARRAY") = {"ANEWARRAY_FAST"}
        BY DEF Fast
  <2>2. ASSUME NEW op \in Bytecodes PROVE Fast(op) \subseteq Opcodes /\ op \in Opcodes
    <3>1. Fast(op) \subseteq FastOpcodes
          BY Zenon DEF FastOpcodes
    <3> QED
          BY <3>1 DEF Opcodes
  <2>3. "BREAKPOINT" \in Opcodes
        BY DEF Opcodes
  <2> QED
        BY <2>1, <2>2, <2>3 DEF Bytecodes
<1>3. Bytecodes \subseteq Opcodes
      BY DEF Opcodes
<1> QED
      BY <1>1, <1>2, <1>3 DEF KeptOps, CachedOp, Bytecodes

LEMMA ParamFacts ==
  ASSUME NEW l \in Locations
  PROVE  /\ ConstantPool(l) \in Params /\ <<"offset", l>> \in Params
         /\ \A i \in Indices : /\ <<"cache", i>> \in Params
                               /\ <<"cache", i>> # ConstantPool(l) /\ <<"cache", i>> # <<"offset", l>>
         /\ ConstantPool(l) # <<"offset", l>>
<1>1. \A i \in Indices : i \in Nat
      BY AssumeFacts DEF Indices
<1> QED
      BY <1>1 DEF ConstantPool, Params

LEMMA LiveFacts ==
  ASSUME NEW im \in Images
  PROVE  LiveEntries(im) \subseteq Indices /\ im.pointer \in Indices
BY DEF LiveEntries, Images

SameCache(im, r) == r.entries = im.entries /\ r.pointer = im.pointer /\ r.full = im.full

LEMMA GoodElsewhere ==
  ASSUME NEW im, NEW r, NEW l, NEW live, NEW keep, CodeOnly(im, r, l),
         NEW k \in Locations, k # l, LocationGood(im, live, keep, k)
  PROVE  LocationGood(r, live, keep, k)
BY DEF LocationGood, CodeOnly, Bytes, OwnEntry

(* The opcode at l changes and stays good.                                 *)
LEMMA CodeOnlyGood ==
  ASSUME NEW im, NEW live, NEW keep, CodeGood(im, live, keep), NEW r \in Images,
         NEW l \in Locations, CodeOnly(im, r, l), LocationGood(r, live, keep, l),
         r.code[l].param = im.code[l].param
  PROVE  CodeGood(r, live, keep) /\ SameCache(im, r)
<1>1. \A k \in Locations : LocationGood(r, live, keep, k)
  <2> SUFFICES ASSUME NEW k \in Locations PROVE LocationGood(r, live, keep, k)
      OBVIOUS
  <2>1. CASE k = l
        BY <2>1
  <2>2. CASE k # l
    <3>1. LocationGood(im, live, keep, k)
          BY DEF CodeGood
    <3> QED
          BY <2>2, <3>1, GoodElsewhere
  <2> QED
        BY <2>1, <2>2
<1>2. \A k \in Locations : r.code[k].param = im.code[k].param
      BY DEF CodeOnly
<1>3. \A i \in live : /\ r.entries[i].codeLoc \in Locations
                      /\ r.code[r.entries[i].codeLoc].param = <<"cache", i>>
      BY <1>2 DEF CodeGood, CodeOnly
<1> QED
      BY <1>1, <1>3 DEF CodeGood, CodeOnly, SameCache

(* What is written where no breakpoint is leaves the events right.         *)
LEMMA EventsElsewhere ==
  ASSUME NEW im, EventsGood(im), NEW l \in Locations, NEW r, CodeOnly(im, r, l),
         im.code[l].op # "BREAKPOINT", r.code[l].op # "BREAKPOINT"
  PROVE  EventsGood(r)
<1>1. r.events = im.events /\ \A k \in Locations : k # l => r.code[k].op = im.code[k].op
      BY DEF CodeOnly
<1>2. \A k \in Locations : r.code[k].op = "BREAKPOINT" <=> im.code[k].op = "BREAKPOINT"
      BY <1>1
<1>3. EventsTyped(r)
      BY <1>1, <1>2 DEF EventsGood, EventsTyped
<1>4. \A i \in 1 .. Len(im.events) : im.events[i].location \in Locations
      BY AssumeFacts DEF EventsGood, EventsTyped
<1> QED
      BY <1>1, <1>2, <1>3, <1>4 DEF EventsGood

LEMMA KeptState ==
  ASSUME NEW im, NEW live, NEW keep, CodeGood(im, live, keep), NEW l \in keep
  PROVE  /\ l \in Locations /\ im.code[l].param = ConstantPool(l)
         /\ im.code[l].op \in KeptOps(l) \cup {"BREAKPOINT"}
<1>1. l \in Locations /\ Instruction[l] # "GETFIELD" /\ LocationGood(im, live, keep, l)
      BY DEF CodeGood
<1> QED
      BY <1>1 DEF LocationGood, Bytes

LEMMA ReplaceKept ==
  ASSUME NEW im, NEW live, NEW keep, CodeGood(im, live, keep), EventsGood(im),
         NEW l \in keep, NEW b \in KeptOps(l), NEW r, r = ReplaceBytecode(im, l, b)
  PROVE  CodeGood(r, live, keep) /\ EventsGood(r) /\ SameCache(im, r)
<1>1. im \in Images /\ l \in Locations /\ keep \subseteq Locations
      BY DEF CodeGood
<1>2. b \in Opcodes /\ b # "BREAKPOINT"
      BY <1>1, OpcodeFacts
<1>3. CASE im.code[l].op # "BREAKPOINT"
  <2>1. r = PutOp(im, l, b)
        BY <1>3 DEF ReplaceBytecode, PutOp
  <2>2. /\ r \in Images /\ CodeOnly(im, r, l)
        /\ r.code[l].op = b /\ r.code[l].param = im.code[l].param
        BY <1>1, <1>2, <2>1, PutOpEffect
  <2>3. LocationGood(r, live, keep, l)
    <3>1. r.code[l].param = ConstantPool(l)
          BY <2>2, KeptState
    <3> QED
          BY <2>2, <3>1 DEF LocationGood, Bytes
  <2>4. CodeGood(r, live, keep) /\ SameCache(im, r)
        BY <1>1, <2>2, <2>3, CodeOnlyGood
  <2>5. EventsGood(r)
        BY <1>1, <1>2, <1>3, <2>2, EventsElsewhere
  <2> QED
        BY <2>4, <2>5
<1>4. CASE im.code[l].op = "BREAKPOINT"
  <2>1. PICK i : i = FindBreakEvent(im, l)
        OBVIOUS
  <2>2. i \in 1 .. Len(im.events) /\ im.events[i].location = l
    <3>1. PICK j \in 1 .. Len(im.events) : im.events[j].location = l
          BY <1>1, <1>4 DEF EventsGood, EventsTyped
    <3>2. i # 0 /\ i \in 0 .. Len(im.events) /\ im.events[i].location = l
          BY <1>1, <2>1, <3>1, FindBreakFacts
    <3>3. Len(im.events) \in Nat
          BY <1>1 DEF Images
    <3> QED
          BY <3>2, <3>3
  <2>3. r = PutEventOpcode(im, i, b)
    <3>1. i # 0
          BY <2>2
    <3> QED
          BY <1>4, <2>1, <3>1, Zenon DEF ReplaceBytecode, ReplaceEventOpcode, PutEventOpcode
  <2>4. /\ r \in Images /\ EventOnly(im, r, i)
        /\ r.events[i].inUse = im.events[i].inUse
        /\ r.events[i].location = im.events[i].location /\ r.events[i].opcode = b
        BY <1>1, <1>2, <2>2, <2>3, PutEventOpcodeEffect
  <2>5. CodeGood(r, live, keep) /\ SameCache(im, r)
    <3>1. r.code = im.code /\ r.entries = im.entries
          BY <2>4 DEF EventOnly
    <3>2. \A k \in Locations : LocationGood(r, live, keep, k)
          BY <3>1 DEF CodeGood, LocationGood, Bytes, OwnEntry
    <3> QED
          BY <2>4, <3>1, <3>2 DEF CodeGood, SameCache, EventOnly
  <2>6. /\ Len(r.events) = Len(im.events) /\ r.code = im.code
        /\ \A k \in 1 .. Len(im.events) : /\ r.events[k].inUse = im.events[k].inUse
                                          /\ r.events[k].location = im.events[k].location
                                          /\ r.events[k].opcode = IF k = i THEN b ELSE im.events[k].opcode
        BY <2>4 DEF EventOnly
  <2>7. EventsTyped(r)
    <3>1. ASSUME NEW k \in 1 .. Len(im.events)
          PROVE  r.events[k].location \in BreakLocations /\ r.events[k].opcode \in KeptOps(r.events[k].location)
          BY <2>2, <2>6 DEF EventsGood, EventsTyped
    <3>2. ASSUME NEW k \in Locations, r.code[k].op = "BREAKPOINT"
          PROVE  \E j \in 1 .. Len(im.events) : r.events[j].inUse /\ r.events[j].location = k
          BY <2>6, <3>2 DEF EventsGood, EventsTyped
    <3> QED
          BY <2>6, <3>1, <3>2 DEF EventsTyped
  <2>8. EventsGood(r)
        BY <2>6, <2>7 DEF EventsGood
  <2> QED
        BY <2>5, <2>8
<1> QED
      BY <1>3, <1>4

-----------------------------------------------------------------------------
(* The inline cache                                                        *)

(* What a cached location is like, seen from its entry.                    *)
LEMMA EntryState ==
  ASSUME NEW im, NEW live, NEW keep, CodeGood(im, live, keep), NEW i \in live, NEW l,
         l = im.entries[i].codeLoc
  PROVE  /\ l \in Locations \ keep /\ Instruction[l] \in Cached
         /\ Bytes(im, l, CachedOp(l), <<"cache", i>>) /\ OwnEntry(im, i, l)
<1>1. /\ l \in Locations /\ im.code[l].param = <<"cache", i>> /\ LocationGood(im, live, keep, l)
      /\ i \in Indices
      BY DEF CodeGood
<1>2. <<"cache", i>> # ConstantPool(l) /\ <<"cache", i>> # <<"offset", l>>
      BY <1>1, ParamFacts
<1>3. l \notin keep /\ Instruction[l] \in Cached
      /\ \E j \in live : Bytes(im, l, CachedOp(l), <<"cache", j>>) /\ OwnEntry(im, j, l)
      BY <1>1, <1>2 DEF LocationGood, Bytes
<1>4. PICK j \in live : Bytes(im, l, CachedOp(l), <<"cache", j>>) /\ OwnEntry(im, j, l)
      BY <1>3
<1>5. j = i
      BY <1>1, <1>4, SMTT(60) DEF Bytes
<1> QED
      BY <1>1, <1>3, <1>4, <1>5

LEMMA ReleaseEffect ==
  ASSUME NEW im, NEW live, NEW keep, CodeGood(im, live, keep), NEW i \in live, NEW ip,
         NEW r, r = ReleaseInlineCacheEntry(im, i, ip), NEW l, l = im.entries[i].codeLoc
  PROVE  /\ CodeGood(r, live \ {i}, keep) /\ CodeOnly(im, r, l)
         /\ l \in Locations /\ im.code[l].op # "BREAKPOINT" /\ r.code[l].op # "BREAKPOINT"
<1>1. /\ l \in Locations \ keep /\ Instruction[l] \in Cached
      /\ Bytes(im, l, CachedOp(l), <<"cache", i>>) /\ OwnEntry(im, i, l)
      BY EntryState
<1>2. /\ CachedOp(l) # "BREAKPOINT" /\ Instruction[l] # "BREAKPOINT" /\ Instruction[l] \in Opcodes
      /\ ConstantPool(l) \in Params
      BY <1>1, OpcodeFacts, ParamFacts
<1>3. im \in Images /\ im.code[l].op # "BREAKPOINT"
      BY <1>1, <1>2 DEF CodeGood, Bytes
<1>4. PICK s : s = PutOp(im, l, Instruction[l])
      OBVIOUS
<1>5. r = PutShort(s, l, ConstantPool(l))
      BY <1>1, <1>3, <1>4 DEF ReleaseInlineCacheEntry, OwnEntry, PutOp
<1>6. s \in Images /\ CodeOnly(im, s, l) /\ s.code[l].op = Instruction[l]
      BY <1>1, <1>2, <1>3, <1>4, PutOpEffect, SMTT(60)
<1>7. /\ r \in Images /\ CodeOnly(s, r, l)
      /\ r.code[l].op = Instruction[l] /\ r.code[l].param = ConstantPool(l)
      BY <1>1, <1>2, <1>5, <1>6, PutShortEffect, SMTT(60)
<1>8. CodeOnly(im, r, l)
      BY <1>6, <1>7 DEF CodeOnly
<1>9. \A k \in Locations : LocationGood(r, live \ {i}, keep, k)
  <2> SUFFICES ASSUME NEW k \in Locations PROVE LocationGood(r, live \ {i}, keep, k)
      OBVIOUS
  <2>1. CASE k = l
        BY <1>1, <1>7, <2>1 DEF LocationGood, Bytes
  <2>2. CASE k # l
    <3>1. LocationGood(im, live, keep, k)
          BY DEF CodeGood
    <3>2. \A j \in live : OwnEntry(im, j, k) => j \in live \ {i}
          BY <2>2 DEF OwnEntry
    <3>3. LocationGood(im, live \ {i}, keep, k)
          BY <3>1, <3>2 DEF LocationGood
    <3> QED
          BY <1>8, <2>2, <3>3, GoodElsewhere
  <2> QED
        BY <2>1, <2>2
<1>10. ASSUME NEW j \in live \ {i}
       PROVE  /\ r.entries[j].codeLoc \in Locations
              /\ r.code[r.entries[j].codeLoc].param = <<"cache", j>>
  <2>1. PICK k : k = im.entries[j].codeLoc
        OBVIOUS
  <2>2. k \in Locations /\ im.code[k].param = <<"cache", j>> /\ r.entries[j].codeLoc = k
        BY <1>8, <2>1 DEF CodeGood, CodeOnly
  <2>3. k # l
        BY <1>1, <2>2 DEF Bytes
  <2> QED
        BY <1>8, <2>2, <2>3 DEF CodeOnly
<1>11. live \ {i} \subseteq Indices
       BY DEF CodeGood
<1> QED
      BY <1>1, <1>2, <1>3, <1>7, <1>8, <1>9, <1>10, <1>11 DEF CodeGood

(* The images before and after an entry is made at the index p, for l.     *)
Enters(im, r, p, l, contents) ==
  /\ r.entries[p] = [contents |-> contents, codeLoc |-> l,
                     origInst |-> im.code[l].op, origParam |-> im.code[l].param]
  /\ \A i \in Indices : i # p => r.entries[i] = im.entries[i]
  /\ r.pointer = (p + 1) % INLINECACHESIZE
  /\ r.full = (im.full \/ p + 1 = INLINECACHESIZE)
  /\ r.code = im.code /\ r.events = im.events

PutEntry(im, p, e, q, f) == [im EXCEPT !.entries[p] = e, !.pointer = q, !.full = f]

LEMMA PutEntryEffect ==
  ASSUME NEW im \in Images, NEW p \in Indices, NEW e \in CacheEntries, NEW q \in Indices,
         NEW f \in BOOLEAN, NEW r, r = PutEntry(im, p, e, q, f)
  PROVE  /\ r \in Images /\ r.entries[p] = e
         /\ \A i \in Indices : i # p => r.entries[i] = im.entries[i]
         /\ r.pointer = q /\ r.full = f /\ r.code = im.code /\ r.events = im.events
BY DEF Images, PutEntry

LEMMA Modulo ==
  ASSUME NEW p \in Indices
  PROVE  /\ (p + 1) % INLINECACHESIZE \in Indices
         /\ p + 1 < INLINECACHESIZE => (p + 1) % INLINECACHESIZE = p + 1
         /\ p + 1 = INLINECACHESIZE => (p + 1) % INLINECACHESIZE = 0
         /\ p \in Nat /\ p + 1 <= INLINECACHESIZE
<1>1. INLINECACHESIZE \in Nat /\ INLINECACHESIZE > 0 /\ p \in Nat /\ p < INLINECACHESIZE
      BY AssumeFacts DEF Indices
<1> QED
      BY <1>1 DEF Indices

LEMMA EnterEffect ==
  ASSUME NEW im \in Images, NEW p \in Indices, NEW l \in Locations,
         NEW contents \in Classes \cup {NIL}, NEW r,
         r = [im EXCEPT !.entries[p] = [contents |-> contents, codeLoc |-> l,
                                        origInst |-> im.code[l].op,
                                        origParam |-> im.code[l].param],
                        !.pointer = (p + 1) % INLINECACHESIZE,
                        !.full = @ \/ p + 1 = INLINECACHESIZE]
  PROVE  r \in Images /\ Enters(im, r, p, l, contents)
<1>1. PICK e : e = [contents |-> contents, codeLoc |-> l,
                    origInst |-> im.code[l].op, origParam |-> im.code[l].param]
      OBVIOUS
<1>2. e \in CacheEntries
  <2>1. im.code[l].op \in Opcodes /\ im.code[l].param \in Params
        BY DEF Images, CodeBytes
  <2> QED
        BY <1>1, <2>1 DEF CacheEntries
<1>3. PICK q : q = (p + 1) % INLINECACHESIZE
      OBVIOUS
<1>4. PICK f : f = (im.full \/ p + 1 = INLINECACHESIZE)
      OBVIOUS
<1>5. q \in Indices /\ f \in BOOLEAN
      BY <1>3, <1>4, Modulo
<1>6. r = PutEntry(im, p, e, q, f)
      BY <1>1, <1>3, <1>4, Zenon DEF PutEntry
<1>7. /\ r \in Images /\ r.entries[p] = e /\ \A i \in Indices : i # p => r.entries[i] = im.entries[i]
      /\ r.pointer = q /\ r.full = f /\ r.code = im.code /\ r.events = im.events
  <2>1. im \in Images /\ p \in Indices
        OBVIOUS
  <2> QED
        BY ONLY <1>2, <1>5, <1>6, <2>1, PutEntryEffect
<1> QED
      BY <1>1, <1>3, <1>4, <1>7 DEF Enters

(* The cache grows by the entry at its pointer, which replaces the oldest. *)
LEMMA LiveGrows ==
  ASSUME NEW im \in Images, NEW r \in Images,
         r.pointer = (im.pointer + 1) % INLINECACHESIZE,
         r.full = (im.full \/ im.pointer + 1 = INLINECACHESIZE)
  PROVE  /\ LiveEntries(r) = (LiveEntries(im) \ {im.pointer}) \cup {im.pointer}
         /\ im.full <=> im.pointer \in LiveEntries(im)
<1>1. PICK p, n, f, q, g : p = im.pointer /\ n = INLINECACHESIZE /\ f = im.full
                             /\ q = r.pointer /\ g = r.full
      OBVIOUS
<1>2. p \in 0 .. n - 1 /\ n \in Nat /\ n > 0 /\ Indices = 0 .. n - 1
      BY <1>1, AssumeFacts DEF Images, Indices
<1>3. (p + 1 < n /\ q = p + 1) \/ (p + 1 = n /\ q = 0)
  <2>1. p \in Indices
        BY <1>2
  <2> QED
        BY <1>1, <1>2, <2>1, Modulo
<1>4. g <=> f \/ p + 1 = n
      BY <1>1
<1>5. \A i \in 0 .. n - 1 : (g \/ i < q) <=> i = p \/ ((f \/ i < p) /\ i # p)
  <2>1. CASE f
        BY <1>4, <2>1
  <2>2. CASE ~f
        BY <1>2, <1>3, <1>4, <2>2
  <2> QED
        BY <2>1, <2>2
<1>6. /\ \A i : i \in LiveEntries(r) <=> i \in 0 .. n - 1 /\ (g \/ i < q)
      /\ \A i : i \in LiveEntries(im) <=> i \in 0 .. n - 1 /\ (f \/ i < p)
      BY <1>1, <1>2 DEF LiveEntries
<1>7. f <=> p \in LiveEntries(im)
      BY <1>2, <1>6
<1>8. \A i : i \in LiveEntries(r) <=> i \in (LiveEntries(im) \ {p}) \cup {p}
      BY <1>2, <1>5, <1>6
<1> QED
      BY <1>1, <1>7, <1>8

(* Before an entry is made the one in its place is released.               *)
LEMMA FreedEffect ==
  ASSUME NEW im, NEW keep, CodeGood(im, LiveEntries(im), keep), EventsGood(im),
         NEW l \in Locations \ keep, im.code[l].param = ConstantPool(l),
         im.full <=> im.pointer \in LiveEntries(im), NEW freed,
         freed = IF im.full THEN ReleaseInlineCacheEntry(im, im.pointer, l) ELSE im
  PROVE  /\ CodeGood(freed, LiveEntries(im) \ {im.pointer}, keep) /\ EventsGood(freed)
         /\ SameCache(im, freed) /\ freed.events = im.events
         /\ freed.code[l] = im.code[l]
<1>1. /\ im \in Images /\ keep \subseteq Locations
      /\ LiveEntries(im) \subseteq Indices /\ im.pointer \in Indices
      BY LiveFacts DEF CodeGood
<1>2. CASE im.full
  <2>1. PICK k : k = im.entries[im.pointer].codeLoc
        OBVIOUS
  <2>2. /\ CodeGood(freed, LiveEntries(im) \ {im.pointer}, keep) /\ CodeOnly(im, freed, k)
        /\ k \in Locations /\ im.code[k].op # "BREAKPOINT" /\ freed.code[k].op # "BREAKPOINT"
        BY <1>2, <2>1, ReleaseEffect
  <2>3. EventsGood(freed)
        BY <1>1, <2>2, EventsElsewhere
  <2>4. k # l
    <3>1. im.code[k].param = <<"cache", im.pointer>>
          BY <1>2, <2>1 DEF CodeGood
    <3> QED
          BY <1>1, <3>1, ParamFacts
  <2> QED
        BY <2>2, <2>3, <2>4 DEF CodeOnly, SameCache
<1>3. CASE ~im.full
  <2>1. freed = im /\ LiveEntries(im) \ {im.pointer} = LiveEntries(im)
        BY <1>3
  <2> QED
        BY <2>1 DEF SameCache
<1> QED
      BY <1>2, <1>3

(* A cached bytecode becomes fast, with an entry of its own.               *)
LEMMA QuickenEffect ==
  ASSUME NEW im, NEW keep, CodeGood(im, LiveEntries(im), keep), EventsGood(im),
         NEW l \in Locations, Instruction[l] \in Cached, l \notin keep,
         im.code[l].param[1] = "constant", NEW contents \in Classes \cup {NIL}, NEW r,
         r = Quicken(im, l, CachedOp(l), contents)
  PROVE  /\ CodeGood(r, LiveEntries(r), keep) /\ EventsGood(r)
         /\ r.entries[im.pointer].contents = contents /\ r.entries[im.pointer].codeLoc = l
         /\ \A i \in LiveEntries(r) : i # im.pointer =>
              i \in LiveEntries(im) /\ r.entries[i] = im.entries[i]
<1> DEFINE p    == im.pointer
           left == LiveEntries(im) \ {p}
<1>1. /\ im \in Images /\ keep \subseteq Locations /\ LiveEntries(im) \subseteq Indices
      /\ p \in Indices
      BY LiveFacts DEF CodeGood
<1>2. Bytes(im, l, Instruction[l], ConstantPool(l))
  <2>1. LocationGood(im, LiveEntries(im), keep, l)
        BY DEF CodeGood
  <2> QED
        BY <2>1 DEF LocationGood, Bytes, Cached
<1>3. PICK freed : freed = IF im.full THEN ReleaseInlineCacheEntry(im, p, l) ELSE im
      OBVIOUS
<1>4. PICK entered :
        entered = [freed EXCEPT !.entries[p] = [contents |-> contents, codeLoc |-> l,
                                                origInst |-> freed.code[l].op,
                                                origParam |-> freed.code[l].param],
                                !.pointer = (p + 1) % INLINECACHESIZE,
                                !.full = @ \/ p + 1 = INLINECACHESIZE]
      OBVIOUS
<1>5. r = PutShort(ReplaceBytecode(entered, l, CachedOp(l)), l, <<"cache", p>>)
      BY <1>3, <1>4, Zenon DEF Quicken, CreateInlineCacheEntry
<1>6. im.full <=> p \in LiveEntries(im)
      BY <1>1 DEF LiveEntries, Images, Indices
<1>7. /\ CodeGood(freed, left, keep) /\ EventsGood(freed)
      /\ SameCache(im, freed) /\ freed.events = im.events /\ freed.code[l] = im.code[l]
      BY <1>2, <1>3, <1>6, FreedEffect DEF Bytes
<1>8. freed \in Images
      BY <1>7 DEF CodeGood
<1>9. entered \in Images /\ Enters(freed, entered, p, l, contents)
      BY <1>1, <1>4, <1>8, EnterEffect
<1>10. /\ entered.code = freed.code /\ entered.events = freed.events
       /\ entered.code[l].op = Instruction[l] /\ Instruction[l] # "BREAKPOINT"
       BY <1>2, <1>7, <1>9, OpcodeFacts DEF Enters, Bytes
<1>11. PICK s : s = PutOp(entered, l, CachedOp(l))
       OBVIOUS
<1>12. s = ReplaceBytecode(entered, l, CachedOp(l))
       BY <1>10, <1>11, Zenon DEF ReplaceBytecode, PutOp
<1>13. s \in Images /\ CodeOnly(entered, s, l) /\ s.code[l].op = CachedOp(l)
       BY <1>9, <1>11, OpcodeFacts, PutOpEffect
<1>14. /\ r \in Images /\ CodeOnly(s, r, l)
       /\ Bytes(r, l, CachedOp(l), <<"cache", p>>)
  <2>1. <<"cache", p>> \in Params
        BY <1>1, ParamFacts
  <2>2. r = PutShort(s, l, <<"cache", p>>)
        BY <1>5, <1>12
  <2> QED
        BY <1>13, <2>1, <2>2, PutShortEffect DEF Bytes
<1>15. /\ CodeOnly(entered, r, l)
       /\ \A k \in Locations : k # l => r.code[k] = freed.code[k]
       BY <1>10, <1>13, <1>14 DEF CodeOnly
<1>16. /\ \A i \in Indices : i # p => r.entries[i] = freed.entries[i]
       /\ OwnEntry(r, p, l) /\ r.entries[p].contents = contents
  <2>1. r.entries = entered.entries
        BY <1>15 DEF CodeOnly
  <2>2. freed.code[l].op = Instruction[l] /\ freed.code[l].param = ConstantPool(l)
        BY <1>2, <1>7 DEF Bytes
  <2>3. entered.entries[p] = [contents |-> contents, codeLoc |-> l,
                              origInst |-> Instruction[l], origParam |-> ConstantPool(l)]
        BY <1>9, <2>2 DEF Enters
  <2> QED
        BY <1>9, <2>1, <2>3 DEF Enters, OwnEntry
<1>17. LiveEntries(r) = left \cup {p}
  <2>1. /\ r.pointer = (p + 1) % INLINECACHESIZE
        /\ r.full = (im.full \/ p + 1 = INLINECACHESIZE)
        BY <1>7, <1>9, <1>15 DEF CodeOnly, Enters, SameCache
  <2> QED
        BY <1>1, <1>14, <2>1, LiveGrows
<1> HIDE DEF left, p
<1>18. \A k \in Locations : LocationGood(r, left \cup {p}, keep, k)
  <2> SUFFICES ASSUME NEW k \in Locations PROVE LocationGood(r, left \cup {p}, keep, k)
      OBVIOUS
  <2>1. CASE k = l
        BY <1>14, <1>16, <2>1 DEF LocationGood
  <2>2. CASE k # l
    <3>1. LocationGood(freed, left, keep, k)
          BY <1>7 DEF CodeGood
    <3>2. r.code[k] = freed.code[k]
          BY <1>15, <2>2
    <3>3. \A i \in left : OwnEntry(freed, i, k) => OwnEntry(r, i, k)
      <4>1. \A i \in left : i \in Indices /\ i # p
            BY <1>1 DEF left
      <4> QED
            BY <1>16, <4>1 DEF OwnEntry
    <3> QED
          BY <3>1, <3>2, <3>3 DEF LocationGood, Bytes
  <2> QED
        BY <2>1, <2>2
<1>19. ASSUME NEW i \in left \cup {p}
       PROVE  /\ r.entries[i].codeLoc \in Locations
              /\ r.code[r.entries[i].codeLoc].param = <<"cache", i>>
  <2>1. CASE i = p
        BY <1>14, <1>16, <2>1 DEF OwnEntry, Bytes
  <2>2. CASE i # p
    <3>1. i \in left /\ i \in Indices
          BY <1>1, <2>2 DEF left
    <3>2. PICK k : k = freed.entries[i].codeLoc
          OBVIOUS
    <3>3. k \in Locations /\ freed.code[k].param = <<"cache", i>> /\ r.entries[i].codeLoc = k
          BY <1>7, <1>16, <2>2, <3>1, <3>2 DEF CodeGood
    <3>4. k # l
      <4>1. freed.code[l].param = ConstantPool(l)
            BY <1>2, <1>7 DEF Bytes
      <4> QED
            BY <3>1, <3>3, <4>1, ParamFacts
    <3> QED
          BY <1>15, <3>3, <3>4
  <2> QED
        BY <2>1, <2>2
<1>20. CodeGood(r, LiveEntries(r), keep)
  <2>1. left \cup {p} \subseteq Indices
        BY <1>1 DEF left
  <2>2. /\ keep \subseteq Locations
        /\ \A k \in keep : Instruction[k] \in {"NEW", "INVOKEVIRTUAL"}
        BY DEF CodeGood
  <2> QED
        BY <1>14, <1>17, <1>18, <1>19, <2>1, <2>2 DEF CodeGood
<1>21. EventsGood(r)
  <2>1. EventsGood(entered)
        BY <1>7, <1>10 DEF EventsGood, EventsTyped
  <2>2. r.code[l].op # "BREAKPOINT"
        BY <1>14, OpcodeFacts DEF Bytes
  <2> QED
        BY <1>1, <1>10, <1>15, <2>1, <2>2, EventsElsewhere
<1>22. \A i \in LiveEntries(r) : i # p => i \in LiveEntries(im) /\ r.entries[i] = im.entries[i]
  <2>1. freed.entries = im.entries
        BY <1>7 DEF SameCache
  <2> QED
        BY <1>1, <1>16, <1>17, <2>1 DEF left
<1> QED
      BY <1>16, <1>20, <1>21, <1>22 DEF p, OwnEntry

-----------------------------------------------------------------------------
(* The other writes                                                        *)

PutContents(im, i, v) == [im EXCEPT !.entries[i].contents = v]

LEMMA PutContentsEffect ==
  ASSUME NEW im \in Images, NEW i \in Indices, NEW v \in Classes \cup {NIL}, NEW r,
         r = PutContents(im, i, v)
  PROVE  /\ r \in Images /\ r.code = im.code /\ r.pointer = im.pointer /\ r.full = im.full
         /\ r.events = im.events /\ r.entries[i].contents = v
         /\ \A k \in Indices :
              /\ r.entries[k].codeLoc = im.entries[k].codeLoc
              /\ r.entries[k].origInst = im.entries[k].origInst
              /\ r.entries[k].origParam = im.entries[k].origParam
              /\ k # i => r.entries[k].contents = im.entries[k].contents
<1>1. PICK e : e = [im.entries[i] EXCEPT !.contents = v]
      OBVIOUS
<1>2. im.entries[i] \in CacheEntries
      BY DEF Images
<1>3. /\ e \in CacheEntries /\ e.contents = v /\ e.codeLoc = im.entries[i].codeLoc
      /\ e.origInst = im.entries[i].origInst /\ e.origParam = im.entries[i].origParam
      BY <1>1, <1>2 DEF CacheEntries
<1>4. r = [im EXCEPT !.entries[i] = e]
      BY <1>1, Zenon DEF PutContents
<1>5. /\ r \in Images /\ r.code = im.code /\ r.pointer = im.pointer /\ r.full = im.full
      /\ r.events = im.events /\ r.entries[i] = e
      /\ \A k \in Indices : k # i => r.entries[k] = im.entries[k]
      BY <1>3, <1>4 DEF Images
<1> QED
      BY <1>3, <1>5

LEMMA UpdateEffect ==
  ASSUME NEW im, NEW live, NEW keep, CodeGood(im, live, keep), EventsGood(im),
         NEW i \in Indices, NEW v \in Classes \cup {NIL}, NEW r, r = PutContents(im, i, v)
  PROVE  CodeGood(r, live, keep) /\ EventsGood(r) /\ LiveEntries(r) = LiveEntries(im)
<1>1. /\ r \in Images /\ r.code = im.code /\ r.pointer = im.pointer /\ r.full = im.full
      /\ r.events = im.events
      /\ \A k \in Indices : /\ r.entries[k].codeLoc = im.entries[k].codeLoc
                            /\ r.entries[k].origInst = im.entries[k].origInst
                            /\ r.entries[k].origParam = im.entries[k].origParam
      BY PutContentsEffect DEF CodeGood
<1>2. /\ live \subseteq Indices /\ keep \subseteq Locations
      /\ \A k \in keep : Instruction[k] \in {"NEW", "INVOKEVIRTUAL"}
      BY DEF CodeGood
<1>3. \A k \in Locations : LocationGood(r, live, keep, k)
  <2>1. \A k \in Locations, j \in live : OwnEntry(im, j, k) => OwnEntry(r, j, k)
        BY <1>1, <1>2 DEF OwnEntry
  <2> QED
        BY <1>1, <2>1 DEF CodeGood, LocationGood, Bytes
<1>4. \A j \in live : /\ r.entries[j].codeLoc \in Locations
                      /\ r.code[r.entries[j].codeLoc].param = <<"cache", j>>
  <2> SUFFICES ASSUME NEW j \in live
               PROVE  /\ r.entries[j].codeLoc \in Locations
                      /\ r.code[r.entries[j].codeLoc].param = <<"cache", j>>
      OBVIOUS
  <2>1. r.entries[j].codeLoc = im.entries[j].codeLoc
        BY <1>1, <1>2
  <2>2. im.entries[j].codeLoc \in Locations /\ im.code[im.entries[j].codeLoc].param = <<"cache", j>>
        BY DEF CodeGood
  <2> QED
        BY <1>1, <2>1, <2>2
<1>5. EventsGood(r)
      BY <1>1 DEF EventsGood, EventsTyped
<1> QED
      BY <1>1, <1>2, <1>3, <1>4, <1>5 DEF CodeGood, LiveEntries

LEMMA GetFieldEffect ==
  ASSUME NEW im, NEW live, NEW keep, CodeGood(im, live, keep), EventsGood(im),
         NEW l \in Locations, Instruction[l] = "GETFIELD", im.code[l].param[1] = "constant",
         NEW r, r = PutShort(ReplaceBytecode(im, l, "GETFIELD_FAST"), l, <<"offset", l>>)
  PROVE  CodeGood(r, live, keep) /\ EventsGood(r) /\ SameCache(im, r)
<1>1. /\ im \in Images /\ keep \subseteq Locations /\ l \notin keep /\ live \subseteq Indices
      /\ \A k \in keep : Instruction[k] \in {"NEW", "INVOKEVIRTUAL"}
      BY DEF CodeGood
<1>2. Bytes(im, l, Instruction[l], ConstantPool(l))
  <2>1. LocationGood(im, live, keep, l)
        BY DEF CodeGood
  <2> QED
        BY <1>1, <2>1 DEF LocationGood, Bytes, Cached
<1>3. PICK s : s = PutOp(im, l, "GETFIELD_FAST")
      OBVIOUS
<1>4. s = ReplaceBytecode(im, l, "GETFIELD_FAST")
      BY <1>2, <1>3, Zenon DEF Bytes, ReplaceBytecode, PutOp
<1>5. s \in Images /\ CodeOnly(im, s, l) /\ s.code[l].op = "GETFIELD_FAST"
      BY <1>1, <1>3, OpcodeFacts, PutOpEffect
<1>6. /\ r \in Images /\ CodeOnly(s, r, l) /\ Bytes(r, l, "GETFIELD_FAST", <<"offset", l>>)
  <2>1. <<"offset", l>> \in Params
        BY ParamFacts
  <2>2. r = PutShort(s, l, <<"offset", l>>)
        BY <1>4
  <2> QED
        BY <1>5, <2>1, <2>2, PutShortEffect DEF Bytes
<1>7. CodeOnly(im, r, l)
      BY <1>5, <1>6 DEF CodeOnly
<1>8. \A k \in Locations : LocationGood(r, live, keep, k)
  <2> SUFFICES ASSUME NEW k \in Locations PROVE LocationGood(r, live, keep, k)
      OBVIOUS
  <2>1. CASE k = l
        BY <1>6, <2>1 DEF LocationGood
  <2>2. CASE k # l
    <3>1. LocationGood(im, live, keep, k)
          BY DEF CodeGood
    <3> QED
          BY <1>7, <2>2, <3>1, GoodElsewhere
  <2> QED
        BY <2>1, <2>2
<1>9. ASSUME NEW j \in live
      PROVE  /\ r.entries[j].codeLoc \in Locations
             /\ r.code[r.entries[j].codeLoc].param = <<"cache", j>>
  <2>1. PICK k : k = im.entries[j].codeLoc
        OBVIOUS
  <2>2. k \in Locations /\ im.code[k].param = <<"cache", j>> /\ r.entries[j].codeLoc = k
        BY <1>7, <2>1 DEF CodeGood, CodeOnly
  <2>3. k # l
        BY <1>1, <1>2, <2>2, ParamFacts DEF Bytes
  <2> QED
        BY <1>7, <2>2, <2>3 DEF CodeOnly
<1>10. CodeGood(r, live, keep)
       BY <1>1, <1>6, <1>8, <1>9 DEF CodeGood
<1>11. EventsGood(r)
  <2>1. im.code[l].op # "BREAKPOINT" /\ r.code[l].op # "BREAKPOINT"
        BY <1>2, <1>6 DEF Bytes
  <2> QED
        BY <1>1, <1>7, <2>1, EventsElsewhere
<1> QED
      BY <1>7, <1>10, <1>11 DEF CodeOnly, SameCache

-----------------------------------------------------------------------------
(* Breakpoints                                                             *)

(* The opcode at l is b and the events are t.                              *)
PutBreak(im, l, b, t) ==
  {[im EXCEPT !.code[l].op = b, !.events = t], [im EXCEPT !.events = t, !.code[l].op = b]}

LEMMA PutBreakEffect ==
  ASSUME NEW im \in Images, NEW l \in Locations, NEW b \in Opcodes, NEW t \in Seq(BreakEvents),
         NEW r \in PutBreak(im, l, b, t)
  PROVE  /\ r \in Images /\ r.events = t /\ SameCache(im, r)
         /\ \A k \in Locations : k # l => r.code[k] = im.code[k]
         /\ r.code[l].op = b /\ r.code[l].param = im.code[l].param
<1>1. CASE r = [im EXCEPT !.code[l].op = b, !.events = t]
      BY <1>1 DEF Images, CodeBytes, SameCache
<1>2. CASE r = [im EXCEPT !.events = t, !.code[l].op = b]
      BY <1>2 DEF Images, CodeBytes, SameCache
<1> QED
      BY <1>1, <1>2 DEF PutBreak

(* Where a breakpoint is harmless any kept opcode, or BREAKPOINT, is good. *)
LEMMA PutBreakGood ==
  ASSUME NEW im, NEW live, NEW keep, CodeGood(im, live, keep), NEW l, l \in keep,
         NEW b, b \in KeptOps(l) \cup {"BREAKPOINT"}, NEW t, t \in Seq(BreakEvents),
         NEW r, r \in PutBreak(im, l, b, t)
  PROVE  /\ CodeGood(r, live, keep) /\ SameCache(im, r) /\ r.events = t
         /\ \A k \in Locations : k # l => r.code[k] = im.code[k]
         /\ r.code[l].op = b
<1>1. /\ im \in Images /\ l \in Locations /\ b \in Opcodes /\ im.code[l].param = ConstantPool(l)
      /\ keep \subseteq Locations /\ live \subseteq Indices
      /\ \A k \in keep : Instruction[k] \in {"NEW", "INVOKEVIRTUAL"}
      BY KeptState, OpcodeFacts DEF CodeGood
<1>2. /\ r \in Images /\ r.events = t /\ SameCache(im, r)
      /\ \A k \in Locations : k # l => r.code[k] = im.code[k]
      /\ r.code[l].op = b /\ r.code[l].param = im.code[l].param
      BY <1>1, PutBreakEffect
<1>3. r.entries = im.entries
      BY <1>2 DEF SameCache
<1>4. \A k \in Locations : LocationGood(r, live, keep, k)
  <2> SUFFICES ASSUME NEW k \in Locations PROVE LocationGood(r, live, keep, k)
      OBVIOUS
  <2>1. CASE k = l
        BY <1>1, <1>2, <2>1 DEF LocationGood, Bytes
  <2>2. CASE k # l
    <3>1. LocationGood(im, live, keep, k) /\ r.code[k] = im.code[k]
          BY <1>2, <2>2 DEF CodeGood
    <3>2. \A j \in live : OwnEntry(im, j, k) => OwnEntry(r, j, k)
          BY <1>3 DEF OwnEntry
    <3> QED
          BY <3>1, <3>2 DEF LocationGood, Bytes
  <2> QED
        BY <2>1, <2>2
<1>5. \A k \in Locations : r.code[k].param = im.code[k].param
      BY <1>2
<1>6. \A j \in live : /\ r.entries[j].codeLoc \in Locations
                      /\ r.code[r.entries[j].codeLoc].param = <<"cache", j>>
      BY <1>3, <1>5 DEF CodeGood
<1> QED
      BY <1>1, <1>2, <1>4, <1>6 DEF CodeGood

FreeEvent(im) == SelectInSeq(im.events, LAMBDA e : ~e.inUse)

LEMMA FreeEventFacts ==
  ASSUME NEW im \in Images
  PROVE  LET i == FreeEvent(im)
         IN  /\ i \in 0 .. Len(im.events)
             /\ i # 0 => ~im.events[i].inUse
<1>1. PICK s : s = im.events
      OBVIOUS
<1>2. PICK I : I = {k \in 1 .. Len(s) : ~s[k].inUse}
      OBVIOUS
<1>3. Len(s) \in Nat
      BY <1>1 DEF Images
<1>4. PICK i : i = IF I # {} THEN Min(I) ELSE 0
      OBVIOUS
<1>5. i = FreeEvent(im)
      BY <1>1, <1>2, <1>4, Zenon DEF FreeEvent, SelectInSeq
<1>6. I # {} => Min(I) \in I
  <2>1. I \in SUBSET Nat
        BY <1>2, <1>3
  <2> QED
        BY <2>1, LeastFacts
<1>7. i \in 0 .. Len(s) /\ (i # 0 => ~s[i].inUse)
  <2>1. CASE I = {}
        BY <1>2, <1>3, <1>4, <2>1
  <2>2. CASE I # {}
    <3>1. i \in I
          BY <1>4, <1>6, <2>2
    <3> QED
          BY <1>2, <1>3, <3>1
  <2> QED
        BY <2>1, <2>2
<1> QED
      BY <1>1, <1>5, <1>7

(* The events with event in the first place that is free.                  *)
WithEvent(s, free, event) ==
  IF free = 0 THEN Append(s, event) ELSE [s EXCEPT ![free] = event]

InPlace(s, free, event, t, i) ==
  /\ t[i] = event /\ (i \in 1 .. Len(s) => i = free)
  /\ \A k \in 1 .. Len(s) : k # free => k \in 1 .. Len(t) /\ k # i /\ t[k] = s[k]
  /\ \A k \in 1 .. Len(t) : k # i => k \in 1 .. Len(s) /\ k # free

LEMMA WithEventFacts ==
  ASSUME NEW s \in Seq(BreakEvents), NEW free \in 0 .. Len(s), NEW event \in BreakEvents,
         NEW t, t = WithEvent(s, free, event)
  PROVE  /\ t \in Seq(BreakEvents)
         /\ \E i \in 1 .. Len(t) : InPlace(s, free, event, t, i)
<1>1. CASE free = 0
  <2>1. t = Append(s, event)
        BY <1>1 DEF WithEvent
  <2>2. /\ t \in Seq(BreakEvents) /\ Len(t) = Len(s) + 1 /\ t[Len(s) + 1] = event
        /\ \A k \in 1 .. Len(s) : t[k] = s[k]
        BY <2>1
  <2>3. Len(s) + 1 \in 1 .. Len(t)
        BY <2>2
  <2>4. /\ Len(s) + 1 \in 1 .. Len(s) => Len(s) + 1 = free
        /\ \A k \in 1 .. Len(s) : k # free => k \in 1 .. Len(t) /\ k # Len(s) + 1 /\ t[k] = s[k]
        /\ \A k \in 1 .. Len(t) : k # Len(s) + 1 => k \in 1 .. Len(s) /\ k # free
        BY <1>1, <2>2
  <2> QED
        BY <2>2, <2>3, <2>4 DEF InPlace
<1>2. CASE free # 0
  <2>1. t = [s EXCEPT ![free] = event]
        BY <1>2 DEF WithEvent
  <2>2. /\ t \in Seq(BreakEvents) /\ Len(t) = Len(s) /\ free \in 1 .. Len(s) /\ t[free] = event
        /\ \A k \in 1 .. Len(s) : k # free => t[k] = s[k]
        BY <1>2, <2>1
  <2> QED
        BY <2>2 DEF InPlace
<1> QED
      BY <1>1, <1>2

LEMMA SetEffect ==
  ASSUME NEW im, NEW live, NEW keep, CodeGood(im, live, keep), EventsGood(im),
         NEW l \in BreakLocations, im.code[l].op # "BREAKPOINT", NEW event \in BreakEvents,
         event.inUse, event.location = l, event.opcode = im.code[l].op,
         NEW r \in PutBreak(im, l, "BREAKPOINT", WithEvent(im.events, FreeEvent(im), event))
  PROVE  CodeGood(r, live, keep) /\ EventsGood(r) /\ SameCache(im, r)
<1>1. /\ im \in Images /\ l \in keep /\ BreakLocations \subseteq Locations
      /\ im.events \in Seq(BreakEvents) /\ event.opcode \in KeptOps(l)
  <2>1. l \in keep
        BY DEF CodeGood
  <2>2. im \in Images
        BY DEF CodeGood
  <2>3. event.opcode \in KeptOps(l)
        BY <2>1, KeptState
  <2>4. BreakLocations \subseteq Locations
        BY AssumeFacts
  <2> QED
        BY ONLY <2>1, <2>2, <2>3, <2>4 DEF Images
<1>2. PICK free, s, t : free = FreeEvent(im) /\ s = im.events /\ t = WithEvent(s, free, event)
      OBVIOUS
<1>3. free \in 0 .. Len(s) /\ (free # 0 => ~s[free].inUse) /\ s \in Seq(BreakEvents)
      BY <1>1, <1>2, FreeEventFacts
<1>4. t \in Seq(BreakEvents)
      BY <1>2, <1>3, WithEventFacts
<1>5. PICK i \in 1 .. Len(t) : InPlace(s, free, event, t, i)
  <2>1. event \in BreakEvents
        OBVIOUS
  <2> QED
        BY ONLY <1>2, <1>3, <2>1, WithEventFacts
<1> USE DEF InPlace
<1>6. /\ CodeGood(r, live, keep) /\ SameCache(im, r) /\ r.events = t
      /\ \A k \in Locations : k # l => r.code[k] = im.code[k]
      /\ r.code[l].op = "BREAKPOINT"
  <2>1. PICK b : b = "BREAKPOINT"
        OBVIOUS
  <2>2. r \in PutBreak(im, l, b, t) /\ b \in KeptOps(l) \cup {"BREAKPOINT"}
        BY <1>2, <2>1
  <2>3. CodeGood(im, live, keep) /\ l \in keep
        BY <1>1
  <2>4. /\ CodeGood(r, live, keep) /\ SameCache(im, r) /\ r.events = t
        /\ \A k \in Locations : k # l => r.code[k] = im.code[k]
        /\ r.code[l].op = b
        BY ONLY <1>4, <2>2, <2>3, PutBreakGood
  <2> QED
        BY <2>1, <2>4
<1>7. /\ \A k \in 1 .. Len(s) : s[k].location \in BreakLocations /\ s[k].opcode \in KeptOps(s[k].location)
      /\ \A k \in 1 .. Len(s) : s[k].inUse => im.code[s[k].location].op = "BREAKPOINT"
      /\ \A k, j \in 1 .. Len(s) :
           s[k].inUse /\ s[j].inUse /\ s[k].location = s[j].location => k = j
      BY <1>2 DEF EventsGood, EventsTyped
<1>8. \A k \in 1 .. Len(s) : s[k].inUse => s[k].location # l
      BY <1>7
<1>9. \A k \in 1 .. Len(t) : t[k].location \in BreakLocations /\ t[k].opcode \in KeptOps(t[k].location)
      BY <1>1, <1>5, <1>7
<1>10. ASSUME NEW k \in Locations, r.code[k].op = "BREAKPOINT"
       PROVE  \E j \in 1 .. Len(t) : t[j].inUse /\ t[j].location = k
  <2>1. CASE k = l
        BY <1>5, <2>1
  <2>2. CASE k # l
    <3>1. im.code[k].op = "BREAKPOINT"
          BY <1>6, <1>10, <2>2
    <3>2. PICK j \in 1 .. Len(s) : s[j].inUse /\ s[j].location = k
          BY <1>2, <3>1 DEF EventsGood, EventsTyped
    <3>3. j \in 1 .. Len(t) /\ t[j] = s[j]
          BY <1>3, <1>5, <3>2
    <3> QED
          BY <3>2, <3>3
  <2> QED
        BY <2>1, <2>2
<1>11. \A k \in 1 .. Len(t) : t[k].inUse => r.code[t[k].location].op = "BREAKPOINT"
  <2> SUFFICES ASSUME NEW k \in 1 .. Len(t), t[k].inUse
               PROVE  r.code[t[k].location].op = "BREAKPOINT"
      OBVIOUS
  <2>1. CASE k = i
        BY <1>5, <1>6, <2>1
  <2>2. CASE k # i
    <3>1. k \in 1 .. Len(s) /\ t[k] = s[k]
          BY <1>5, <2>2
    <3>2. s[k].location \in Locations /\ s[k].location # l /\ im.code[s[k].location].op = "BREAKPOINT"
          BY <1>1, <1>7, <1>8, <3>1
    <3> QED
          BY <1>6, <3>1, <3>2
  <2> QED
        BY <2>1, <2>2
<1>12. ASSUME NEW k \in 1 .. Len(t), NEW j \in 1 .. Len(t),
              t[k].inUse, t[j].inUse, t[k].location = t[j].location
       PROVE  k = j
  <2>1. \A h \in 1 .. Len(t) : h # i => h \in 1 .. Len(s) /\ t[h] = s[h]
        BY <1>5
  <2>2. CASE k = i
        BY <1>5, <1>8, <1>12, <2>1, <2>2
  <2>3. CASE j = i
        BY <1>5, <1>8, <1>12, <2>1, <2>3
  <2>4. CASE k # i /\ j # i
        BY <1>7, <1>12, <2>1, <2>4
  <2> QED
        BY <2>2, <2>3, <2>4
<1>13. EventsTyped(r)
       BY <1>6, <1>9, <1>10 DEF EventsTyped
<1>14. EventsGood(r)
       BY <1>6, <1>11, <1>12, <1>13 DEF EventsGood
<1> QED
      BY <1>6, <1>14

(* An event is cleared, in use or not: the opcode under it comes back.     *)
LEMMA ClearEffect ==
  ASSUME NEW im, NEW live, NEW keep, CodeGood(im, live, keep), EventsTyped(im),
         NEW i \in 1 .. Len(im.events), NEW r, r = ClearEvent(im, i)
  PROVE  /\ CodeGood(r, live, keep) /\ EventsTyped(r) /\ SameCache(im, r)
         /\ Len(r.events) = Len(im.events) /\ ~r.events[i].inUse
         /\ \A k \in 1 .. Len(im.events) : k # i => r.events[k] = im.events[k]
         /\ \A k \in 1 .. Len(im.events) : r.events[k].location = im.events[k].location
         /\ \A k \in Locations : k # im.events[i].location => r.code[k] = im.code[k]
<1>1. PICK s, l, b : s = im.events /\ l = im.events[i].location /\ b = im.events[i].opcode
      OBVIOUS
<1>2. /\ im \in Images /\ s \in Seq(BreakEvents) /\ i \in 1 .. Len(s) /\ s[i] \in BreakEvents
      /\ l \in keep /\ l \in BreakLocations /\ b \in KeptOps(l) /\ keep \subseteq Locations
      BY <1>1 DEF CodeGood, EventsTyped, Images
<1>3. PICK e : e = [s[i] EXCEPT !.inUse = FALSE]
      OBVIOUS
<1>4. /\ e \in BreakEvents /\ ~e.inUse
      /\ e.location = l /\ e.opcode = b
      BY <1>1, <1>2, <1>3 DEF BreakEvents
<1>5. PICK t : t = [s EXCEPT ![i] = e]
      OBVIOUS
<1>6. /\ t \in Seq(BreakEvents) /\ Len(t) = Len(s) /\ t[i] = e
      /\ \A k \in 1 .. Len(s) : k # i => t[k] = s[k]
      BY <1>2, <1>4, <1>5
<1>7. r = [im EXCEPT !.code[l].op = b, !.events = t]
      BY <1>1, <1>3, <1>5, Zenon DEF ClearEvent
<1>8. r \in PutBreak(im, l, b, t)
      BY <1>7, Zenon DEF PutBreak
<1>9. /\ CodeGood(r, live, keep) /\ SameCache(im, r) /\ r.events = t
      /\ \A k \in Locations : k # l => r.code[k] = im.code[k]
      /\ r.code[l].op = b
      BY <1>2, <1>6, <1>8, PutBreakGood
<1>10. b # "BREAKPOINT"
       BY <1>2, OpcodeFacts
<1>11. \A k \in 1 .. Len(s) : /\ t[k].location = s[k].location /\ t[k].opcode = s[k].opcode
                              /\ k # i => t[k].inUse = s[k].inUse
       BY <1>1, <1>2, <1>4, <1>6
<1>12. \A k \in 1 .. Len(s) : t[k].location \in BreakLocations /\ t[k].opcode \in KeptOps(t[k].location)
  <2>1. \A k \in 1 .. Len(s) : s[k].location \in BreakLocations /\ s[k].opcode \in KeptOps(s[k].location)
        BY <1>1 DEF EventsTyped
  <2> QED
        BY <1>11, <2>1
<1>13. ASSUME NEW k \in Locations, r.code[k].op = "BREAKPOINT"
       PROVE  \E j \in 1 .. Len(s) : t[j].inUse /\ t[j].location = k
  <2>1. k # l /\ im.code[k].op = "BREAKPOINT"
        BY <1>9, <1>10, <1>13
  <2>2. PICK j \in 1 .. Len(s) : s[j].inUse /\ s[j].location = k
        BY <1>1, <2>1 DEF EventsTyped
  <2>3. j # i
        BY <1>1, <2>1, <2>2
  <2> QED
        BY <1>11, <2>2, <2>3
<1>14. EventsTyped(r)
       BY <1>6, <1>9, <1>12, <1>13 DEF EventsTyped
<1> QED
      BY <1>1, <1>4, <1>6, <1>9, <1>11, <1>14

-----------------------------------------------------------------------------
(* The loops of clearAllBreakpoints() and FinalizeInlineCaching()          *)

Clears(f, im, m) ==
  f = [i \in 0 .. m |-> IF i = 0 THEN im ELSE ClearEvent(f[i - 1], i)]

Releases(f, im, n, m) ==
  f = [i \in 0 .. m |-> IF i = 0 THEN im ELSE ReleaseInlineCacheEntry(f[i - 1], n - i, NIL)]

LEMMA ClearsExists ==
  ASSUME NEW im PROVE \A m \in Nat : \E f : Clears(f, im, m)
<1> DEFINE K == {m \in Nat : \E f : Clears(f, im, m)}
<1>1. 0 \in K
  <2> DEFINE f == [i \in 0 .. 0 |-> im]
  <2>1. Clears(f, im, 0)
        BY DEF Clears
  <2> QED
        BY <2>1
<1>2. ASSUME NEW m \in Nat, m \in K PROVE m + 1 \in K
  <2>1. PICK g : Clears(g, im, m)
        BY <1>2
  <2> DEFINE w == ClearEvent(g[m], (m + 1))
             f == [i \in 0 .. (m + 1) |-> IF i = m + 1 THEN w ELSE g[i]]
  <2>2. ASSUME NEW i \in 0 .. (m + 1)
        PROVE  f[i] = IF i = 0 THEN im ELSE ClearEvent(f[i - 1], i)
    <3>1. CASE i = m + 1
      <4>1. f[i] = w /\ f[i - 1] = g[m] /\ i # 0
            BY <3>1
      <4> HIDE DEF f
      <4> QED
            BY <3>1, <4>1
    <3>2. CASE i # m + 1
      <4>1. i \in 0 .. m /\ (i # 0 => i - 1 \in 0 .. m)
            BY <3>2
      <4>2. g[i] = IF i = 0 THEN im ELSE ClearEvent(g[i - 1], i)
            BY <2>1, <4>1 DEF Clears
      <4>3. f[i] = g[i] /\ (i # 0 => f[i - 1] = g[i - 1])
            BY <3>2, <4>1
      <4> HIDE DEF f
      <4> QED
            BY <4>2, <4>3
    <3> QED
          BY <3>1, <3>2
  <2>3. f = [i \in 0 .. (m + 1) |-> f[i]]
        OBVIOUS
  <2> HIDE DEF f
  <2>4. Clears(f, im, m + 1)
        BY <2>2, <2>3 DEF Clears
  <2> QED
        BY <2>4
<1> HIDE DEF K
<1>3. Nat \subseteq K
      BY <1>1, <1>2, NatSetInduction
<1> QED
      BY <1>3 DEF K

LEMMA ReleasesExists ==
  ASSUME NEW im, NEW n PROVE \A m \in Nat : \E f : Releases(f, im, n, m)
<1> DEFINE K == {m \in Nat : \E f : Releases(f, im, n, m)}
<1>1. 0 \in K
  <2> DEFINE f == [i \in 0 .. 0 |-> im]
  <2>1. Releases(f, im, n, 0)
        BY DEF Releases
  <2> QED
        BY <2>1
<1>2. ASSUME NEW m \in Nat, m \in K PROVE m + 1 \in K
  <2>1. PICK g : Releases(g, im, n, m)
        BY <1>2
  <2> DEFINE w == ReleaseInlineCacheEntry(g[m], n - (m + 1), NIL)
             f == [i \in 0 .. (m + 1) |-> IF i = m + 1 THEN w ELSE g[i]]
  <2>2. ASSUME NEW i \in 0 .. (m + 1)
        PROVE  f[i] = IF i = 0 THEN im ELSE ReleaseInlineCacheEntry(f[i - 1], n - i, NIL)
    <3>1. CASE i = m + 1
      <4>1. f[i] = w /\ f[i - 1] = g[m] /\ i # 0
            BY <3>1
      <4> HIDE DEF f
      <4> QED
            BY <3>1, <4>1
    <3>2. CASE i # m + 1
      <4>1. i \in 0 .. m /\ (i # 0 => i - 1 \in 0 .. m)
            BY <3>2
      <4>2. g[i] = IF i = 0 THEN im ELSE ReleaseInlineCacheEntry(g[i - 1], n - i, NIL)
            BY <2>1, <4>1 DEF Releases
      <4>3. f[i] = g[i] /\ (i # 0 => f[i - 1] = g[i - 1])
            BY <3>2, <4>1
      <4> HIDE DEF f
      <4> QED
            BY <4>2, <4>3
    <3> QED
          BY <3>1, <3>2
  <2>3. f = [i \in 0 .. (m + 1) |-> f[i]]
        OBVIOUS
  <2> HIDE DEF f
  <2>4. Releases(f, im, n, m + 1)
        BY <2>2, <2>3 DEF Releases
  <2> QED
        BY <2>4
<1> HIDE DEF K
<1>3. Nat \subseteq K
      BY <1>1, <1>2, NatSetInduction
<1> QED
      BY <1>3 DEF K

LEMMA ClearAllEffect ==
  ASSUME NEW im, NEW live, NEW keep, CodeGood(im, live, keep), EventsTyped(im),
         NEW r, r = ClearAllBreakpoints(im)
  PROVE  CodeGood(r, live, keep) /\ EventsGood(r) /\ SameCache(im, r)
<1> DEFINE n == Len(im.events)
           after == CHOOSE f : Clears(f, im, n)
<1>1. n \in Nat
      BY DEF CodeGood, Images
<1>2. r = after[n]
      BY DEF ClearAllBreakpoints, Clears
<1>3. Clears(after, im, n)
      BY <1>1, ClearsExists, Zenon
<1> HIDE DEF after
<1>4. after[0] = im /\ \A i \in 1 .. n : after[i] = ClearEvent(after[i - 1], i)
  <2>1. \A i \in 0 .. n : after[i] = IF i = 0 THEN im ELSE ClearEvent(after[i - 1], i)
        BY <1>3 DEF Clears
  <2> QED
        BY <1>1, <2>1
<1> HIDE DEF n
<1> DEFINE P(s, i) == /\ CodeGood(s, live, keep) /\ EventsTyped(s) /\ SameCache(im, s)
                      /\ Len(s.events) = n /\ \A k \in 1 .. i : ~s.events[k].inUse
           K == {i \in Nat : i <= n => P(after[i], i)}
<1>5. 0 \in K
      BY <1>4 DEF SameCache, n
<1>6. ASSUME NEW i \in Nat, i \in K PROVE i + 1 \in K
  <2> SUFFICES ASSUME i + 1 <= n PROVE P(after[i + 1], i + 1)
      OBVIOUS
  <2>1. i + 1 \in 1 .. n /\ i + 1 - 1 = i /\ i <= n
        BY <1>1
  <2>2. PICK s, r1 : s = after[i] /\ r1 = ClearEvent(s, i + 1)
        OBVIOUS
  <2>3. P(s, i) /\ after[i + 1] = r1
        BY <1>4, <1>6, <2>1, <2>2
  <2>4. /\ CodeGood(r1, live, keep) /\ EventsTyped(r1) /\ SameCache(s, r1)
        /\ Len(r1.events) = n /\ ~r1.events[i + 1].inUse
        /\ \A k \in 1 .. n : k # i + 1 => r1.events[k] = s.events[k]
        BY <2>1, <2>2, <2>3, ClearEffect
  <2>5. \A k \in 1 .. i + 1 : ~r1.events[k].inUse
        BY <1>1, <2>1, <2>3, <2>4
  <2>6. SameCache(im, r1)
        BY <2>3, <2>4 DEF SameCache
  <2> QED
        BY <2>3, <2>4, <2>5, <2>6
<1> HIDE DEF K
<1>7. Nat \subseteq K
      BY <1>5, <1>6, NatSetInduction
<1>8. P(r, n)
      BY <1>1, <1>2, <1>7 DEF K
<1>9. EventsGood(r)
      BY <1>8 DEF EventsGood, EventsTyped
<1> QED
      BY <1>8, <1>9

LEMMA FinalizeEffect ==
  ASSUME NEW im, NEW keep, CodeGood(im, LiveEntries(im), keep), EventsGood(im),
         NEW r, r = FinalizeInlineCaching(im)
  PROVE  CodeGood(r, {}, keep) /\ EventsGood(r) /\ LiveEntries(r) = {}
<1>1. PICK n : n = IF im.full THEN INLINECACHESIZE ELSE im.pointer
      OBVIOUS
<1> DEFINE after == CHOOSE f : Releases(f, im, n, n)
           left(i) == 0 .. (n - i - 1)
<1>2. n \in Nat /\ n <= INLINECACHESIZE /\ LiveEntries(im) = 0 .. n - 1 /\ im \in Images
      /\ keep \subseteq Locations
  <2>1. im.pointer \in 0 .. INLINECACHESIZE - 1 /\ im.full \in BOOLEAN /\ im \in Images
        BY DEF CodeGood, Images, Indices
  <2>2. keep \subseteq Locations
        BY DEF CodeGood
  <2> QED
        BY <1>1, <2>1, <2>2, AssumeFacts DEF LiveEntries, Indices
<1>3. r = [after[n] EXCEPT !.pointer = 0, !.full = FALSE]
      BY <1>1 DEF FinalizeInlineCaching, Releases
<1>4. Releases(after, im, n, n)
      BY <1>2, ReleasesExists, Zenon
<1> HIDE DEF after
<1>5. after[0] = im
      /\ \A i \in 1 .. n : after[i] = ReleaseInlineCacheEntry(after[i - 1], n - i, NIL)
  <2>1. \A i \in 0 .. n :
           after[i] = IF i = 0 THEN im ELSE ReleaseInlineCacheEntry(after[i - 1], n - i, NIL)
        BY <1>4 DEF Releases
  <2> QED
        BY <1>2, <2>1
<1> DEFINE P(s, i) == CodeGood(s, left(i), keep) /\ EventsGood(s)
           K == {i \in Nat : i <= n => P(after[i], i)}
<1>6. 0 \in K
  <2>1. left(0) = LiveEntries(im)
        BY <1>2
  <2> QED
        BY <1>5, <2>1
<1>7. ASSUME NEW i \in Nat, i \in K PROVE i + 1 \in K
  <2> SUFFICES ASSUME i + 1 <= n PROVE P(after[i + 1], i + 1)
      OBVIOUS
  <2>1. i + 1 \in 1 .. n /\ i + 1 - 1 = i /\ i <= n
        BY <1>2
  <2>2. PICK s, x, r1, l : /\ s = after[i] /\ x = n - (i + 1) /\ r1 = ReleaseInlineCacheEntry(s, x, NIL)
                           /\ l = s.entries[x].codeLoc
        OBVIOUS
  <2>3. P(s, i) /\ after[i + 1] = r1
        BY <1>5, <1>7, <2>1, <2>2
  <2>4. x \in left(i) /\ left(i) \ {x} = left(i + 1)
        BY <1>2, <2>1, <2>2
  <2> HIDE DEF left
  <2>5. /\ CodeGood(r1, left(i) \ {x}, keep) /\ CodeOnly(s, r1, l)
        /\ l \in Locations /\ s.code[l].op # "BREAKPOINT" /\ r1.code[l].op # "BREAKPOINT"
        BY <2>2, <2>3, <2>4, ReleaseEffect, SMTT(60)
  <2>6. EventsGood(r1)
        BY <1>2, <2>3, <2>5, EventsElsewhere
  <2> QED
        BY <2>3, <2>4, <2>5, <2>6
<1> HIDE DEF K
<1>8. Nat \subseteq K
      BY <1>6, <1>7, NatSetInduction
<1>9. PICK s : s = after[n]
      OBVIOUS
<1>10. CodeGood(s, {}, keep) /\ EventsGood(s)
  <2>1. P(s, n)
        BY <1>2, <1>8, <1>9 DEF K
  <2>2. left(n) = {}
        BY <1>2
  <2> QED
        BY <2>1, <2>2
<1>12. /\ r \in Images /\ r.code = s.code /\ r.entries = s.entries /\ r.events = s.events
       /\ r.pointer = 0 /\ r.full = FALSE
  <2>1. r = [s EXCEPT !.pointer = 0, !.full = FALSE] /\ s \in Images /\ 0 \in Indices
        BY <1>3, <1>9, <1>10, AssumeFacts DEF CodeGood, Indices
  <2> QED
        BY <2>1 DEF Images
<1>13. LiveEntries(r) = {}
       BY <1>12 DEF LiveEntries, Indices
<1>14. CodeGood(r, {}, keep)
       BY <1>10, <1>12 DEF CodeGood, LocationGood, Bytes, OwnEntry
<1>15. EventsGood(r)
       BY <1>10, <1>12 DEF EventsGood, EventsTyped
<1> QED
      BY <1>13, <1>14, <1>15

-----------------------------------------------------------------------------
(* The inductive invariant                                                 *)

BreaksKeepParameters == \A l \in BreakLocations : KeepsParameter(l)

(* What the opcode at a location can be.                                   *)
OpcodesAt(l) == {Instruction[l], "BREAKPOINT"} \cup Fast(Instruction[l])

Stops == [location : Locations, nextOpcode : Opcodes]

StopsGood ==
  /\ stopped \in [Threads -> Stops \cup {NIL}]
  /\ \A t \in Threads :
       stopped[t] # NIL => stopped[t].nextOpcode \in OpcodesAt(stopped[t].location)

CodeInv ==
  /\ CodeGood(image, LiveEntries(image), Keeping)
  /\ EventsGood(image)
  /\ vm = "down" => LiveEntries(image) = {}
  /\ StopsGood

(* What is found of the methods stays as it is while the classes do.       *)
LEMMA SameMethods ==
  ASSUME class' = class
  PROVE  /\ \A c : Resolved(c)' = Resolved(c) /\ LookupMethod(c)' = LookupMethod(c)
         /\ \A c, d : LookupDynamicMethod(c, d)' = LookupDynamicMethod(c, d)
         /\ \A c : Access(c)' = Access(c)
<1>1. ASSUME NEW c PROVE Resolved(c)' = Resolved(c)
      BY DEF Resolved, Access, FirstFrom, SelectInSeq, Min
<1>2. ASSUME NEW c PROVE LookupMethod(c)' = LookupMethod(c)
      BY DEF LookupMethod, Visible, Access, Package, FirstFrom, SelectInSeq, Min
<1>3. ASSUME NEW c, NEW d PROVE LookupDynamicMethod(c, d)' = LookupDynamicMethod(c, d)
      BY DEF LookupDynamicMethod, Access, Package, HasPublicDeclaration
<1>4. ASSUME NEW c PROVE Access(c)' = Access(c)
      BY DEF Access
<1> QED
      BY <1>1, <1>2, <1>3, <1>4

LEMMA SameKeeping ==
  ASSUME class' = class
  PROVE  Keeping' = Keeping /\ \A l : IsSpecial(l)' <=> IsSpecial(l)
<1>1. ASSUME NEW l PROVE IsSpecial(l)' <=> IsSpecial(l)
  <2>1. Resolved(ClassAt[l])' = Resolved(ClassAt[l])
        BY SameMethods
  <2>2. class'[Resolved(ClassAt[l])'].access = class[Resolved(ClassAt[l])].access
        BY <2>1
  <2> QED
        BY <2>1, <2>2 DEF IsSpecial, Access
<1>2. ASSUME NEW l PROVE KeepsParameter(l)' <=> KeepsParameter(l)
      BY <1>1 DEF KeepsParameter
<1> QED
      BY <1>1, <1>2 DEF Keeping

LEMMA OpcodesAtFacts ==
  ASSUME NEW l \in Locations
  PROVE  /\ OpcodesAt(l) \subseteq Opcodes
         /\ \A op \in OpcodesAt(l) \cap Bytecodes : op = Instruction[l]
         /\ "INVOKEVIRTUAL_FAST" \in OpcodesAt(l) => Instruction[l] = "INVOKEVIRTUAL"
         /\ "INVOKEINTERFACE_FAST" \in OpcodesAt(l) => Instruction[l] = "INVOKEINTERFACE"
         /\ CachedOp(l) \in OpcodesAt(l) \/ Instruction[l] \notin Cached
         /\ Instruction[l] \in {"NEW", "INVOKEVIRTUAL"} => KeptOps(l) \subseteq OpcodesAt(l)
<1>1. Instruction[l] \in Bytecodes
      BY AssumeFacts
<1>2. /\ Fast("NEW") = {"NEW_FAST"} /\ Fast("GETFIELD") = {"GETFIELD_FAST"}
      /\ Fast("INVOKEVIRTUAL") = {"INVOKEVIRTUAL_FAST", "INVOKESPECIAL_FAST"}
      /\ Fast("INVOKEINTERFACE") = {"INVOKEINTERFACE_FAST"}
      /\ Fast("ANEWARRAY") = {"ANEWARRAY_FAST"}
      BY DEF Fast
<1>3. OpcodesAt(l) \subseteq Opcodes
  <2>1. Fast(Instruction[l]) \subseteq FastOpcodes
        BY <1>1, Zenon DEF FastOpcodes
  <2> QED
        BY <1>1, <2>1 DEF OpcodesAt, Opcodes
<1> QED
      BY <1>1, <1>2, <1>3 DEF OpcodesAt, Bytecodes, Cached, CachedOp, KeptOps

LEMMA CodeOpcode ==
  ASSUME NEW im, NEW live, NEW keep, CodeGood(im, live, keep), NEW l \in Locations
  PROVE  im.code[l].op \in OpcodesAt(l)
<1>1. /\ LocationGood(im, live, keep, l)
      /\ l \in keep => Instruction[l] \in {"NEW", "INVOKEVIRTUAL"}
      BY DEF CodeGood
<1>2. Instruction[l] = "GETFIELD" => "GETFIELD_FAST" \in OpcodesAt(l)
      BY DEF OpcodesAt, Fast
<1>3. Instruction[l] \in OpcodesAt(l) /\ "BREAKPOINT" \in OpcodesAt(l)
      BY DEF OpcodesAt
<1> QED
      BY <1>1, <1>2, <1>3, OpcodesAtFacts DEF LocationGood, Bytes

LEMMA TokenOpcode ==
  ASSUME CodeInv, NEW t \in Threads, NEW l \in Locations, IsAt(t, l)
  PROVE  Token(t, l) \in OpcodesAt(l)
<1>1. image.code[l].op \in OpcodesAt(l)
      BY CodeOpcode DEF CodeInv
<1>2. stopped[t] # NIL => stopped[t].nextOpcode \in OpcodesAt(l)
      BY DEF CodeInv, StopsGood, IsAt
<1> QED
      BY <1>1, <1>2 DEF Token

(* A step keeps the invariant if it leaves the image and the stops good.   *)
LEMMA StepKeeps ==
  ASSUME CodeInv, class' = class, StopsGood',
         CodeGood(image', LiveEntries(image'), Keeping), EventsGood(image'),
         vm' = "down" => LiveEntries(image') = {}
  PROVE  CodeInv'
<1>1. Keeping' = Keeping
      BY SameKeeping
<1>2. CodeGood(image, LiveEntries(image), Keeping)' /\ EventsGood(image)'
      BY <1>1 DEF CodeGood, EventsGood, EventsTyped, LiveEntries, Images, LocationGood, Bytes, OwnEntry
<1>3. (vm = "down" => LiveEntries(image) = {})'
      BY DEF LiveEntries
<1> QED
      BY <1>2, <1>3 DEF CodeInv

LEMMA ExecutesEffect ==
  ASSUME CodeInv, NEW t \in Threads, NEW l \in Locations, NEW op, Executes(t, l, op)
  PROVE  /\ class' = class /\ vm' = "up" /\ StopsGood'
         /\ op \in OpcodesAt(l) /\ image.code[l].param[1] = ParamOf(op)
<1>1. /\ class' = class /\ vm' = "up" /\ image.code[l].param[1] = ParamOf(op)
      /\ stopped' = [stopped EXCEPT ![t] = NIL] /\ IsAt(t, l) /\ Token(t, l) = op
      BY DEF Executes
<1>2. StopsGood'
  <2>1. stopped \in [Threads -> Stops \cup {NIL}]
        BY DEF CodeInv, StopsGood
  <2>2. stopped' \in [Threads -> Stops \cup {NIL}]
        BY <1>1, <2>1
  <2>3. \A u \in Threads : stopped'[u] = NIL \/ stopped'[u] = stopped[u]
        BY <1>1, <2>1
  <2>4. \A u \in Threads :
       stopped[u] # NIL => stopped[u].nextOpcode \in OpcodesAt(stopped[u].location)
        BY DEF CodeInv, StopsGood
  <2>5. \A u \in Threads :
       stopped'[u] # NIL => stopped'[u].nextOpcode \in OpcodesAt(stopped'[u].location)
        BY <2>3, <2>4
  <2> QED
        BY <2>2, <2>5 DEF StopsGood
<1>3. op \in OpcodesAt(l)
      BY <1>1, TokenOpcode
<1> QED
      BY <1>1, <1>2, <1>3

(* What an execution goes to is a class, or nothing.                       *)
LEMMA TargetType ==
  ASSUME CodeInv, NEW l \in Locations, NEW c \in Receivers(l),
         NEW op \in {"INVOKEVIRTUAL", "INVOKEINTERFACE", "INVOKEVIRTUAL_FAST", "INVOKEINTERFACE_FAST"},
         Instruction[l] \in {"INVOKEVIRTUAL", "INVOKEINTERFACE"},
         op \in {"INVOKEVIRTUAL_FAST", "INVOKEINTERFACE_FAST"} => image.code[l].param[2] \in Indices
  PROVE  Target(op, l, c) \in Classes \cup {NIL}
<1>1. c \in Classes /\ ClassAt[l] \in Classes
      BY AssumeFacts DEF Receivers
<1>2. On(c) \subseteq Classes /\ On(ClassAt[l]) \subseteq Classes
      BY <1>1, ChainFacts DEF On
<1>3. \A d \in Classes \cup {NIL} : LookupDynamicMethod(c, d) \in Classes \cup {NIL}
      BY <1>1, <1>2, DynamicFacts
<1>4. LookupMethod(c) \in Classes \cup {NIL}
      BY <1>1, <1>2, LookupFacts
<1>5. Resolved(ClassAt[l]) \in Classes \cup {NIL}
      BY <1>1, <1>2, ResolvedFacts
<1>6. ASSUME op \in {"INVOKEVIRTUAL_FAST", "INVOKEINTERFACE_FAST"}
      PROVE  Entry(l).contents \in Classes \cup {NIL}
  <2>1. image.entries \in [Indices -> CacheEntries]
        BY DEF CodeInv, CodeGood, Images
  <2> QED
        BY <1>6, <2>1 DEF Entry, CacheEntries
<1>7. CASE op = "INVOKEVIRTUAL"
      BY <1>3, <1>5, <1>7 DEF Target
<1>8. CASE op = "INVOKEINTERFACE"
      BY <1>4, <1>8 DEF Target
<1>9. CASE op = "INVOKEVIRTUAL_FAST"
      BY <1>3, <1>6, <1>9 DEF Target
<1>10. CASE op = "INVOKEINTERFACE_FAST"
      BY <1>4, <1>6, <1>10 DEF Target
<1> QED
      BY <1>7, <1>8, <1>9, <1>10

LEMMA KeptStep ==
  ASSUME CodeInv, NEW t \in Threads, NEW l \in Keeping, NEW op, Executes(t, l, op),
         NEW b \in KeptOps(l), image' = ReplaceBytecode(image, l, b)
  PROVE  CodeInv'
<1>1. l \in Locations
      BY DEF Keeping
<1>2. /\ CodeGood(image', LiveEntries(image), Keeping) /\ EventsGood(image')
      /\ SameCache(image, image')
      BY ReplaceKept DEF CodeInv
<1>3. LiveEntries(image') = LiveEntries(image)
      BY <1>2 DEF SameCache, LiveEntries
<1>4. class' = class /\ vm' = "up" /\ StopsGood'
      BY <1>1, ExecutesEffect
<1> QED
      BY <1>2, <1>3, <1>4, StepKeeps

LEMMA QuickenStep ==
  ASSUME CodeInv, NEW t \in Threads, NEW l \in Locations \ Keeping, Instruction[l] \in Cached,
         Executes(t, l, Instruction[l]), NEW contents \in Classes \cup {NIL},
         image' = Quicken(image, l, CachedOp(l), contents)
  PROVE  CodeInv'
<1>1. /\ class' = class /\ vm' = "up" /\ StopsGood'
      /\ image.code[l].param[1] = ParamOf(Instruction[l])
      BY ExecutesEffect
<1>2. image.code[l].param[1] = "constant"
      BY <1>1 DEF ParamOf, Cached
<1>3. CodeGood(image, LiveEntries(image), Keeping) /\ EventsGood(image)
      BY DEF CodeInv
<1>4. CodeGood(image', LiveEntries(image'), Keeping) /\ EventsGood(image')
      BY <1>2, <1>3, QuickenEffect
<1> QED
      BY <1>1, <1>4, StepKeeps

(* The image is the same, and so are the stops or they are good.           *)
LEMMA SameImageStep ==
  ASSUME CodeInv, class' = class, image' = image, vm' = vm, StopsGood'
  PROVE  CodeInv'
BY StepKeeps DEF CodeInv

LEMMA InvokeVirtualStep ==
  ASSUME CodeInv, NEW t \in Threads, NEW l \in Locations, InvokeVirtual(t, l)
  PROVE  CodeInv'
<1>1. Executes(t, l, "INVOKEVIRTUAL")
      BY DEF InvokeVirtual
<1>2. Instruction[l] = "INVOKEVIRTUAL"
      BY <1>1, ExecutesEffect, OpcodesAtFacts DEF Bytecodes
<1>3. CASE IsSpecial(l)
  <2>1. image' = ReplaceBytecode(image, l, "INVOKESPECIAL_FAST")
        BY <1>3 DEF InvokeVirtual
  <2>2. l \in Keeping /\ "INVOKESPECIAL_FAST" \in KeptOps(l)
        BY <1>2, <1>3 DEF Keeping, KeepsParameter, KeptOps
  <2> QED
        BY <1>1, <2>1, <2>2, KeptStep
<1>4. CASE ~IsSpecial(l)
  <2>1. PICK c \in Receivers(l) :
          image' = Quicken(image, l, "INVOKEVIRTUAL_FAST", Target("INVOKEVIRTUAL", l, c))
        BY <1>4 DEF InvokeVirtual
  <2>2. l \in Locations \ Keeping /\ Instruction[l] \in Cached /\ CachedOp(l) = "INVOKEVIRTUAL_FAST"
        BY <1>2, <1>4 DEF Keeping, KeepsParameter, Cached, CachedOp
  <2>3. Target("INVOKEVIRTUAL", l, c) \in Classes \cup {NIL}
        BY <1>2, TargetType
  <2> QED
        BY <1>1, <1>2, <2>1, <2>2, <2>3, QuickenStep
<1> QED
      BY <1>3, <1>4

LEMMA InvokeInterfaceStep ==
  ASSUME CodeInv, NEW t \in Threads, NEW l \in Locations, InvokeInterface(t, l)
  PROVE  CodeInv'
<1>1. Executes(t, l, "INVOKEINTERFACE")
      BY DEF InvokeInterface
<1>2. Instruction[l] = "INVOKEINTERFACE"
      BY <1>1, ExecutesEffect, OpcodesAtFacts DEF Bytecodes
<1>3. PICK c \in Receivers(l) :
        image' = Quicken(image, l, "INVOKEINTERFACE_FAST", Target("INVOKEINTERFACE", l, c))
      BY DEF InvokeInterface
<1>4. l \in Locations \ Keeping /\ Instruction[l] \in Cached /\ CachedOp(l) = "INVOKEINTERFACE_FAST"
      BY <1>2 DEF Keeping, KeepsParameter, Cached, CachedOp
<1>5. Target("INVOKEINTERFACE", l, c) \in Classes \cup {NIL}
      BY <1>2, TargetType
<1> QED
      BY <1>1, <1>2, <1>3, <1>4, <1>5, QuickenStep

(* A location whose parameter is an entry's index is that entry's.         *)
LEMMA CachedLocation ==
  ASSUME NEW im, NEW live, NEW keep, CodeGood(im, live, keep), NEW l \in Locations,
         im.code[l].param[1] = "cache"
  PROVE  /\ im.code[l].param[2] \in live /\ im.code[l].param[2] \in Indices
         /\ l \notin keep /\ Instruction[l] \in Cached /\ im.code[l].op = CachedOp(l)
         /\ im.code[l].param = <<"cache", im.code[l].param[2]>>
         /\ OwnEntry(im, im.code[l].param[2], l)
<1>1. LocationGood(im, live, keep, l) /\ live \subseteq Indices
      BY DEF CodeGood
<1>2. ConstantPool(l)[1] # "cache" /\ <<"offset", l>>[1] # "cache"
      BY DEF ConstantPool
<1>3. l \notin keep /\ Instruction[l] \in Cached
      /\ \E i \in live : Bytes(im, l, CachedOp(l), <<"cache", i>>) /\ OwnEntry(im, i, l)
      BY <1>1, <1>2 DEF LocationGood, Bytes
<1> QED
      BY <1>1, <1>3 DEF Bytes

LEMMA InvokeFastStep ==
  ASSUME CodeInv, NEW t \in Threads, NEW l \in Locations,
         NEW op \in {"INVOKEVIRTUAL_FAST", "INVOKEINTERFACE_FAST"}, InvokeFast(t, l, op)
  PROVE  CodeInv'
<1>1. Executes(t, l, op)
      BY DEF InvokeFast
<1>2. /\ class' = class /\ vm' = "up" /\ StopsGood'
      /\ op \in OpcodesAt(l) /\ image.code[l].param[1] = "cache"
      BY <1>1, ExecutesEffect DEF ParamOf
<1>3. CodeGood(image, LiveEntries(image), Keeping) /\ EventsGood(image)
      BY DEF CodeInv
<1>4. PICK i : i = image.code[l].param[2]
      OBVIOUS
<1>5. i \in Indices
      BY <1>2, <1>3, <1>4, CachedLocation
<1>6. PICK c \in Receivers(l) : image' = PutContents(image, i, Target(op, l, c))
      BY <1>4, Zenon DEF InvokeFast, PutContents
<1>7. Target(op, l, c) \in Classes \cup {NIL}
  <2>1. Instruction[l] \in {"INVOKEVIRTUAL", "INVOKEINTERFACE"}
        BY <1>2, OpcodesAtFacts
  <2> QED
        BY <1>4, <1>5, <2>1, TargetType
<1>8. /\ CodeGood(image', LiveEntries(image), Keeping) /\ EventsGood(image')
      /\ LiveEntries(image') = LiveEntries(image)
      BY <1>3, <1>5, <1>6, <1>7, UpdateEffect
<1> QED
      BY <1>2, <1>8, StepKeeps

LEMMA ANewArrayStep ==
  ASSUME CodeInv, NEW t \in Threads, NEW l \in Locations, ANewArray(t, l)
  PROVE  CodeInv'
<1>1. Executes(t, l, "ANEWARRAY") /\ image' = Quicken(image, l, "ANEWARRAY_FAST", ClassAt[l])
      BY DEF ANewArray
<1>2. Instruction[l] = "ANEWARRAY"
      BY <1>1, ExecutesEffect, OpcodesAtFacts DEF Bytecodes
<1>3. l \in Locations \ Keeping /\ Instruction[l] \in Cached /\ CachedOp(l) = "ANEWARRAY_FAST"
      BY <1>2 DEF Keeping, KeepsParameter, Cached, CachedOp
<1>4. ClassAt[l] \in Classes \cup {NIL}
      BY AssumeFacts
<1> QED
      BY <1>1, <1>2, <1>3, <1>4, QuickenStep

LEMMA NewStep ==
  ASSUME CodeInv, NEW t \in Threads, NEW l \in Locations, New(t, l)
  PROVE  CodeInv'
<1>1. Executes(t, l, "NEW") /\ (image' = image \/ image' = ReplaceBytecode(image, l, "NEW_FAST"))
      BY DEF New
<1>2. Instruction[l] = "NEW"
      BY <1>1, ExecutesEffect, OpcodesAtFacts DEF Bytecodes
<1>3. CASE image' = image
  <2>1. class' = class /\ vm' = "up" /\ vm = "up" /\ StopsGood'
        BY <1>1, ExecutesEffect DEF Executes
  <2> QED
        BY <1>3, <2>1, SameImageStep
<1>4. CASE image' = ReplaceBytecode(image, l, "NEW_FAST")
  <2>1. l \in Keeping /\ "NEW_FAST" \in KeptOps(l)
        BY <1>2 DEF Keeping, KeepsParameter, KeptOps
  <2> QED
        BY <1>1, <1>4, <2>1, KeptStep
<1> QED
      BY <1>1, <1>3, <1>4

LEMMA GetFieldStep ==
  ASSUME CodeInv, NEW t \in Threads, NEW l \in Locations, GetField(t, l)
  PROVE  CodeInv'
<1>1. /\ Executes(t, l, "GETFIELD")
      /\ image' = PutShort(ReplaceBytecode(image, l, "GETFIELD_FAST"), l, <<"offset", l>>)
      BY DEF GetField
<1>2. /\ class' = class /\ vm' = "up" /\ StopsGood'
      /\ image.code[l].param[1] = "constant"
      BY <1>1, ExecutesEffect DEF ParamOf
<1>3. Instruction[l] = "GETFIELD"
      BY <1>1, ExecutesEffect, OpcodesAtFacts DEF Bytecodes
<1>4. CodeGood(image, LiveEntries(image), Keeping) /\ EventsGood(image)
      BY DEF CodeInv
<1>5. /\ CodeGood(image', LiveEntries(image), Keeping) /\ EventsGood(image')
      /\ SameCache(image, image')
      BY <1>1, <1>2, <1>3, <1>4, GetFieldEffect
<1>6. LiveEntries(image') = LiveEntries(image)
      BY <1>5 DEF SameCache, LiveEntries
<1> QED
      BY <1>2, <1>5, <1>6, StepKeeps

LEMMA OtherFastStep ==
  ASSUME CodeInv, NEW t \in Threads, NEW l \in Locations, OtherFast(t, l)
  PROVE  CodeInv'
<1>1. PICK op : Executes(t, l, op) /\ image' = image
      BY DEF OtherFast
<1>2. class' = class /\ vm' = "up" /\ vm = "up" /\ StopsGood'
      BY <1>1, ExecutesEffect DEF Executes
<1> QED
      BY <1>1, <1>2, SameImageStep

(* The debugger stops a thread.                                            *)
LEMMA StopKeeps ==
  ASSUME CodeInv, NEW t \in Threads, NEW l \in Locations, NEW op \in OpcodesAt(l),
         stopped' = [stopped EXCEPT ![t] = [location |-> l, nextOpcode |-> op]]
  PROVE  StopsGood'
<1>1. PICK stop : stop = [location |-> l, nextOpcode |-> op]
      OBVIOUS
<1>2. stop \in Stops /\ stop.location = l /\ stop.nextOpcode = op
      BY <1>1, OpcodesAtFacts DEF Stops
<1>3. /\ stopped \in [Threads -> Stops \cup {NIL}]
      /\ \A u \in Threads :
       stopped[u] # NIL => stopped[u].nextOpcode \in OpcodesAt(stopped[u].location)
      BY DEF CodeInv, StopsGood
<1>4. stopped' = [stopped EXCEPT ![t] = stop]
      BY <1>1
<1>5. /\ stopped' \in [Threads -> Stops \cup {NIL}] /\ stopped'[t] = stop
      /\ \A u \in Threads : u # t => stopped'[u] = stopped[u]
      BY <1>2, <1>3, <1>4
<1>6. \A u \in Threads :
       stopped'[u] # NIL => stopped'[u].nextOpcode \in OpcodesAt(stopped'[u].location)
      BY <1>2, <1>3, <1>5
<1> QED
      BY <1>5, <1>6 DEF StopsGood

(* The opcode in the first event at a location is one of its own.          *)
LEMMA EventOpcode ==
  ASSUME CodeInv, NEW l \in Locations, FindBreakEvent(image, l) # 0
  PROVE  /\ l \in BreakLocations /\ l \in Keeping
         /\ image.events[FindBreakEvent(image, l)].opcode \in KeptOps(l)
         /\ FindBreakEvent(image, l) \in 1 .. Len(image.events)
<1>1. PICK i : i = FindBreakEvent(image, l)
      OBVIOUS
<1>2. image \in Images /\ BreakLocations \subseteq Keeping /\ Len(image.events) \in Nat
      BY DEF CodeInv, CodeGood, Images
<1>3. i \in 0 .. Len(image.events) /\ i # 0 /\ image.events[i].location = l
      BY <1>1, <1>2, FindBreakFacts
<1>4. i \in 1 .. Len(image.events)
      BY <1>2, <1>3
<1>5. l \in BreakLocations /\ image.events[i].opcode \in KeptOps(l)
      BY <1>3, <1>4 DEF CodeInv, EventsGood, EventsTyped
<1> QED
      BY <1>1, <1>2, <1>4, <1>5

LEMMA HandleBreakpointStep ==
  ASSUME CodeInv, NEW t \in Threads, NEW l \in Locations, HandleBreakpoint(t, l)
  PROVE  CodeInv'
<1>1. PICK op : op = image.events[FindBreakEvent(image, l)].opcode
      OBVIOUS
<1>2. /\ FindBreakEvent(image, l) # 0 /\ class' = class /\ image' = image /\ vm' = vm
      /\ stopped' = [stopped EXCEPT ![t] = [location |-> l, nextOpcode |-> op]]
      BY <1>1 DEF HandleBreakpoint
<1>3. op \in OpcodesAt(l)
  <2>1. op \in KeptOps(l) /\ l \in Keeping
        BY <1>1, <1>2, EventOpcode
  <2>2. Instruction[l] \in {"NEW", "INVOKEVIRTUAL"}
        BY <2>1 DEF CodeInv, CodeGood
  <2> QED
        BY <2>1, <2>2, OpcodesAtFacts
<1>4. StopsGood'
      BY <1>2, <1>3, StopKeeps
<1> QED
      BY <1>2, <1>4, SameImageStep

LEMMA SingleStepStep ==
  ASSUME CodeInv, NEW t \in Threads, NEW l \in Locations, SingleStep(t, l)
  PROVE  CodeInv'
<1>1. PICK op : op = Token(t, l)
      OBVIOUS
<1>2. /\ stopped[t] = NIL /\ class' = class /\ image' = image /\ vm' = vm
      /\ stopped' = [stopped EXCEPT ![t] = [location |-> l, nextOpcode |-> op]]
      BY <1>1 DEF SingleStep
<1>3. op \in OpcodesAt(l)
      BY <1>1, <1>2, TokenOpcode DEF IsAt
<1>4. StopsGood'
      BY <1>2, <1>3, StopKeeps
<1> QED
      BY <1>2, <1>4, SameImageStep

(* A command of the debugger keeps the stops.                              *)
LEMMA SameStops ==
  ASSUME CodeInv, stopped' = stopped
  PROVE  StopsGood'
BY DEF CodeInv, StopsGood

LEMMA SetBreakpointStep ==
  ASSUME CodeInv, NEW l \in Locations, SetBreakpoint(l)
  PROVE  CodeInv'
<1>1. /\ class' = class /\ vm' = vm /\ vm = "up" /\ stopped' = stopped
      /\ l \in BreakLocations /\ image.code[l].op # "BREAKPOINT"
      BY DEF SetBreakpoint, Command
<1>2. PICK free, event :
        /\ free = FreeEvent(image)
        /\ event = [inUse |-> TRUE, location |-> l, opcode |-> image.code[l].op]
      OBVIOUS
<1>3. image' = [image EXCEPT !.events = WithEvent(image.events, free, event),
                             !.code[l].op = "BREAKPOINT"]
  <2>1. image' = [image EXCEPT
          !.events = IF free = 0 THEN Append(@, event)
                     ELSE [@ EXCEPT ![IF free = 0 THEN Len(image.events) + 1 ELSE free] = event],
          !.code[l].op = "BREAKPOINT"]
        BY <1>2, Zenon DEF SetBreakpoint, FreeEvent
  <2>2. CASE free = 0
        BY <2>1, <2>2 DEF WithEvent
  <2>3. CASE free # 0
        BY <2>1, <2>3 DEF WithEvent
  <2> QED
        BY <2>2, <2>3
<1>4. image' \in PutBreak(image, l, "BREAKPOINT", WithEvent(image.events, FreeEvent(image), event))
      BY <1>2, <1>3, Zenon DEF PutBreak
<1>5. CodeGood(image, LiveEntries(image), Keeping) /\ EventsGood(image)
      BY DEF CodeInv
<1>6. /\ event \in BreakEvents /\ event.inUse /\ event.location = l
      /\ event.opcode = image.code[l].op
  <2>1. image.code[l].op \in Opcodes
        BY <1>5 DEF CodeGood, Images, CodeBytes
  <2>2. event \in BreakEvents /\ event.location = l /\ event.opcode = image.code[l].op
        BY <1>2, <2>1 DEF BreakEvents
  <2>3. event.inUse
        BY <1>2, Zenon
  <2> QED
        BY <2>2, <2>3
<1>7. /\ CodeGood(image', LiveEntries(image), Keeping) /\ EventsGood(image')
      /\ SameCache(image, image')
      BY <1>1, <1>4, <1>5, <1>6, SetEffect
<1>8. LiveEntries(image') = LiveEntries(image)
      BY <1>7 DEF SameCache, LiveEntries
<1>9. StopsGood'
      BY <1>1, SameStops
<1> QED
      BY <1>1, <1>7, <1>8, <1>9, StepKeeps

LEMMA ClearBreakpointStep ==
  ASSUME CodeInv, NEW i \in DOMAIN image.events, ClearBreakpoint(i)
  PROVE  CodeInv'
<1>1. /\ class' = class /\ vm' = vm /\ vm = "up" /\ stopped' = stopped
      /\ image.events[i].inUse /\ image' = ClearEvent(image, i)
      BY DEF ClearBreakpoint, Command
<1>2. CodeGood(image, LiveEntries(image), Keeping) /\ EventsGood(image) /\ EventsTyped(image)
      BY DEF CodeInv, EventsGood
<1>3. i \in 1 .. Len(image.events) /\ image.events \in Seq(BreakEvents)
      BY <1>2 DEF CodeGood, Images
<1>4. /\ CodeGood(image', LiveEntries(image), Keeping) /\ EventsTyped(image')
      /\ SameCache(image, image')
      /\ Len(image'.events) = Len(image.events) /\ ~image'.events[i].inUse
      /\ \A k \in 1 .. Len(image.events) : k # i => image'.events[k] = image.events[k]
      /\ \A k \in Locations : k # image.events[i].location => image'.code[k] = image.code[k]
      BY <1>1, <1>2, <1>3, ClearEffect
<1>5. EventsGood(image')
  <2>1. /\ \A k \in 1 .. Len(image.events) : image.events[k].location \in Locations
        /\ \A k \in 1 .. Len(image.events) :
             image.events[k].inUse => image.code[image.events[k].location].op = "BREAKPOINT"
        /\ \A k, j \in 1 .. Len(image.events) :
             image.events[k].inUse /\ image.events[j].inUse
               /\ image.events[k].location = image.events[j].location => k = j
        BY <1>2, AssumeFacts DEF EventsGood, EventsTyped
  <2>2. ASSUME NEW k \in 1 .. Len(image.events), image'.events[k].inUse
        PROVE  image'.code[image'.events[k].location].op = "BREAKPOINT"
    <3>1. k # i /\ image'.events[k] = image.events[k]
          BY <1>4, <2>2
    <3>2. image.events[k].location # image.events[i].location
          BY <1>1, <1>3, <2>1, <2>2, <3>1
    <3> QED
          BY <1>4, <2>1, <2>2, <3>1, <3>2
  <2>3. ASSUME NEW k \in 1 .. Len(image.events), NEW j \in 1 .. Len(image.events),
               image'.events[k].inUse, image'.events[j].inUse,
               image'.events[k].location = image'.events[j].location
        PROVE  k = j
    <3>1. /\ k # i /\ image'.events[k] = image.events[k]
          /\ j # i /\ image'.events[j] = image.events[j]
          BY <1>4, <2>3
    <3> QED
          BY <2>1, <2>3, <3>1
  <2> QED
        BY <1>4, <2>2, <2>3 DEF EventsGood
<1>6. LiveEntries(image') = LiveEntries(image)
      BY <1>4 DEF SameCache, LiveEntries
<1>7. StopsGood'
      BY <1>1, SameStops
<1> QED
      BY <1>1, <1>4, <1>5, <1>6, <1>7, StepKeeps

LEMMA ClearAllStep ==
  ASSUME CodeInv, ClearAll
  PROVE  CodeInv'
<1>1. /\ class' = class /\ vm' = vm /\ vm = "up" /\ stopped' = stopped
      /\ image' = ClearAllBreakpoints(image)
      BY DEF ClearAll, Command
<1>2. CodeGood(image, LiveEntries(image), Keeping) /\ EventsTyped(image)
      BY DEF CodeInv, EventsGood
<1>3. /\ CodeGood(image', LiveEntries(image), Keeping) /\ EventsGood(image')
      /\ SameCache(image, image')
      BY <1>1, <1>2, ClearAllEffect
<1>4. LiveEntries(image') = LiveEntries(image)
      BY <1>3 DEF SameCache, LiveEntries
<1>5. StopsGood'
      BY <1>1, SameStops
<1> QED
      BY <1>1, <1>3, <1>4, <1>5, StepKeeps

LEMMA CleanupStep ==
  ASSUME CodeInv, Cleanup
  PROVE  CodeInv'
<1>1. PICK im : im = IF vmDebugReady THEN ClearAllBreakpoints(image) ELSE image
      OBVIOUS
<1>2. class' = class /\ stopped' = stopped /\ image' = FinalizeInlineCaching(im)
      BY <1>1 DEF Cleanup
<1>3. CodeGood(image, LiveEntries(image), Keeping) /\ EventsGood(image) /\ EventsTyped(image)
      BY DEF CodeInv, EventsGood
<1>4. CodeGood(im, LiveEntries(image), Keeping) /\ EventsGood(im) /\ SameCache(image, im)
  <2>1. CASE vmDebugReady
        BY <1>1, <1>3, <2>1, ClearAllEffect
  <2>2. CASE ~vmDebugReady
        BY <1>1, <1>3, <2>2 DEF SameCache
  <2> QED
        BY <2>1, <2>2
<1>5. LiveEntries(im) = LiveEntries(image)
      BY <1>4 DEF SameCache, LiveEntries
<1>6. /\ CodeGood(image', {}, Keeping) /\ EventsGood(image')
      /\ LiveEntries(image') = {}
      BY <1>2, <1>4, <1>5, FinalizeEffect
<1>7. StopsGood'
      BY <1>2, SameStops
<1> QED
      BY <1>2, <1>6, <1>7, StepKeeps

LEMMA CodeInvNext == CodeInv /\ [Next]_vars => CodeInv'
<1> SUFFICES ASSUME CodeInv, [Next]_vars PROVE CodeInv'
    OBVIOUS
<1>1. CASE UNCHANGED vars
      BY <1>1, SameStops, SameImageStep DEF vars
<1>2. ASSUME NEW t \in Threads, NEW l \in Locations,
             \/ InvokeVirtual(t, l) \/ InvokeVirtualFast(t, l)
             \/ InvokeInterface(t, l) \/ InvokeInterfaceFast(t, l)
             \/ ANewArray(t, l) \/ New(t, l) \/ GetField(t, l) \/ OtherFast(t, l)
             \/ HandleBreakpoint(t, l) \/ SingleStep(t, l)
      PROVE  CodeInv'
  <2>1. CASE InvokeVirtual(t, l)
        BY <2>1, InvokeVirtualStep
  <2>2. CASE InvokeVirtualFast(t, l)
        BY <2>2, InvokeFastStep DEF InvokeVirtualFast
  <2>3. CASE InvokeInterface(t, l)
        BY <2>3, InvokeInterfaceStep
  <2>4. CASE InvokeInterfaceFast(t, l)
        BY <2>4, InvokeFastStep DEF InvokeInterfaceFast
  <2>5. CASE ANewArray(t, l)
        BY <2>5, ANewArrayStep
  <2>6. CASE New(t, l)
        BY <2>6, NewStep
  <2>7. CASE GetField(t, l)
        BY <2>7, GetFieldStep
  <2>8. CASE OtherFast(t, l)
        BY <2>8, OtherFastStep
  <2>9. CASE HandleBreakpoint(t, l)
        BY <2>9, HandleBreakpointStep
  <2>10. CASE SingleStep(t, l)
        BY <2>10, SingleStepStep
  <2> QED
        BY <1>2, <2>1, <2>2, <2>3, <2>4, <2>5, <2>6, <2>7, <2>8, <2>9, <2>10
<1>3. ASSUME NEW l \in Locations, SetBreakpoint(l) PROVE CodeInv'
      BY <1>3, SetBreakpointStep
<1>4. ASSUME NEW i \in DOMAIN image.events, ClearBreakpoint(i) PROVE CodeInv'
      BY <1>4, ClearBreakpointStep
<1>5. CASE ClearAll
      BY <1>5, ClearAllStep
<1>6. CASE Cleanup
      BY <1>6, CleanupStep
<1>7. CASE Down
      BY <1>1, <1>7 DEF Down
<1> QED
      BY <1>1, <1>2, <1>3, <1>4, <1>5, <1>6, <1>7 DEF Next

LEMMA CodeInvInit ==
  ASSUME Init, BreaksKeepParameters
  PROVE  CodeInv /\ LiveEntries(image) = {}
<1> DEFINE code    == [l \in Locations |-> [op |-> Instruction[l], param |-> ConstantPool(l)]]
           entries == [i \in Indices |-> [contents |-> NIL, codeLoc |-> NIL,
                                          origInst |-> NIL, origParam |-> NIL]]
<1>1. PICK no : no = FALSE
      OBVIOUS
<1>2. image = [code |-> code, entries |-> entries, pointer |-> 0, full |-> no, events |-> <<>>]
      BY <1>1 DEF Init, Indices
<1>3. code \in [Locations -> CodeBytes]
      /\ \A l \in Locations : code[l].op = Instruction[l] /\ code[l].param = ConstantPool(l)
      BY OpcodeFacts, ParamFacts DEF CodeBytes
<1>4. entries \in [Indices -> CacheEntries]
      BY DEF CacheEntries
<1> HIDE DEF code, entries
<1>5. no \in BOOLEAN /\ ~no
      BY <1>1
<1>6. 0 \in Indices
      BY AssumeFacts DEF Indices
<1>7. image \in Images
  <2>1. <<>> \in Seq(BreakEvents)
        OBVIOUS
  <2> QED
        BY <1>2, <1>3, <1>4, <1>5, <1>6, <2>1 DEF Images
<1>8. /\ image.code = code /\ image.events = <<>> /\ image.pointer = 0 /\ image.full = no
      BY <1>2
<1>9. LiveEntries(image) = {}
      BY <1>5, <1>8 DEF LiveEntries, Indices
<1>10. /\ Keeping \subseteq Locations /\ BreakLocations \subseteq Keeping
       /\ \A l \in Keeping : Instruction[l] \in {"NEW", "INVOKEVIRTUAL"}
       BY AssumeFacts DEF Keeping, KeepsParameter, BreaksKeepParameters
<1>11. \A l \in Locations : LocationGood(image, {}, Keeping, l)
  <2> SUFFICES ASSUME NEW l \in Locations PROVE LocationGood(image, {}, Keeping, l)
      OBVIOUS
  <2>1. Bytes(image, l, Instruction[l], ConstantPool(l))
        BY <1>3, <1>8 DEF Bytes
  <2>2. CASE l \notin Keeping
        BY <2>1, <2>2 DEF LocationGood
  <2>3. CASE l \in Keeping
    <3>1. Instruction[l] \in KeptOps(l)
          BY <1>10, <2>3 DEF KeptOps
    <3> QED
          BY <2>1, <2>3, <3>1 DEF LocationGood
  <2> QED
        BY <2>2, <2>3
<1>12. CodeGood(image, LiveEntries(image), Keeping)
       BY <1>7, <1>9, <1>10, <1>11 DEF CodeGood
<1>13. EventsGood(image)
  <2>1. \A l \in Locations : image.code[l].op # "BREAKPOINT"
        BY <1>3, <1>8, OpcodeFacts
  <2>2. Len(image.events) = 0
        BY <1>8
  <2> QED
        BY <2>1, <2>2 DEF EventsGood, EventsTyped
<1>14. StopsGood
       BY DEF Init, StopsGood
<1> QED
      BY <1>9, <1>12, <1>13, <1>14 DEF CodeInv

(* Every byte the interpreter and the debugger write is one that the       *)
(* location can have, and the cache and the events agree with the code.    *)
THEOREM CodeInvariant == Spec /\ BreaksKeepParameters => []CodeInv
<1>1. Init /\ BreaksKeepParameters => CodeInv
      BY CodeInvInit
<1> QED
      BY <1>1, CodeInvNext, PTL DEF Spec

(* Where a breakpoint is, a kept opcode is seen through it.                *)
LEMMA SeenThrough ==
  ASSUME CodeInv, NEW l \in Locations, image.code[l].op = "BREAKPOINT"
  PROVE  l \in Keeping /\ FindBreakEvent(image, l) # 0 /\ Seen(l) \in KeptOps(l)
<1>1. image \in Images
      BY DEF CodeInv, CodeGood
<1>2. PICK i \in 1 .. Len(image.events) : image.events[i].location = l
      BY DEF CodeInv, EventsGood, EventsTyped
<1>3. FindBreakEvent(image, l) # 0
      BY <1>1, <1>2, FindBreakFacts
<1> QED
      BY <1>3, EventOpcode DEF Seen

LEMMA KeptOpsFacts ==
  ASSUME NEW l \in Locations, Instruction[l] \in {"NEW", "INVOKEVIRTUAL"}, NEW op \in KeptOps(l)
  PROVE  op = Instruction[l] \/ (op \in Fast(Instruction[l]) /\ ParamOf(op) = "constant")
BY DEF KeptOps, Fast, ParamOf

LEMMA CodeInvReversible == CodeInv => CodeReversible
<1> SUFFICES ASSUME CodeInv PROVE CodeReversible
    OBVIOUS
<1>1. /\ CodeGood(image, LiveEntries(image), Keeping) /\ DOMAIN image.entries = Indices
      /\ \A l \in Keeping : Instruction[l] \in {"NEW", "INVOKEVIRTUAL"}
      BY DEF CodeInv, CodeGood, Images
<1>2. \A i \in Indices : i \in LiveEntries(image) <=> IsLive(i)
      BY DEF LiveEntries, IsLive
<1>3. ASSUME NEW l \in Locations
      PROVE  LET op == Seen(l)
                 param == image.code[l].param
             IN \/ op = Instruction[l] /\ param = ConstantPool(l)
                \/ /\ op \in Fast(Instruction[l]) /\ ParamOf(op) # "cache"
                   /\ param = <<ParamOf(op), l>>
                \/ /\ op \in Fast(Instruction[l]) /\ ParamOf(op) = "cache"
                   /\ param[1] = "cache" /\ IsLive(param[2])
                   /\ Entry(l).codeLoc = l
                   /\ Entry(l).origInst = Instruction[l]
                   /\ Entry(l).origParam = ConstantPool(l)
  <2>1. LocationGood(image, LiveEntries(image), Keeping, l)
        BY <1>1 DEF CodeGood
  <2>2. CASE l \in Keeping
    <3>1. image.code[l].param = ConstantPool(l) /\ image.code[l].op \in KeptOps(l) \cup {"BREAKPOINT"}
          BY <1>1, <2>2, KeptState
    <3>2. Seen(l) \in KeptOps(l)
      <4>1. CASE image.code[l].op = "BREAKPOINT"
            BY <4>1, SeenThrough
      <4>2. CASE image.code[l].op # "BREAKPOINT"
            BY <3>1, <4>2 DEF Seen
      <4> QED
            BY <4>1, <4>2
    <3>3. Seen(l) = Instruction[l] \/ (Seen(l) \in Fast(Instruction[l]) /\ ParamOf(Seen(l)) = "constant")
          BY <1>1, <2>2, <3>2, KeptOpsFacts
    <3>4. image.code[l].param = <<"constant", l>>
          BY <3>1 DEF ConstantPool
    <3> QED
          BY <3>1, <3>3, <3>4
  <2>3. CASE l \notin Keeping /\ Bytes(image, l, Instruction[l], ConstantPool(l))
    <3>1. Seen(l) = Instruction[l]
          BY <2>3, OpcodeFacts DEF Bytes, Seen
    <3> QED
          BY <2>3, <3>1 DEF Bytes
  <2>4. CASE Instruction[l] = "GETFIELD" /\ Bytes(image, l, "GETFIELD_FAST", <<"offset", l>>)
    <3>1. Seen(l) = "GETFIELD_FAST"
          BY <2>4 DEF Bytes, Seen
    <3> QED
          BY <2>4, <3>1 DEF Bytes, Fast, ParamOf
  <2>5. ASSUME l \notin Keeping, Instruction[l] \in Cached, NEW i \in LiveEntries(image),
               Bytes(image, l, CachedOp(l), <<"cache", i>>), OwnEntry(image, i, l)
        PROVE  /\ Seen(l) \in Fast(Instruction[l]) /\ ParamOf(Seen(l)) = "cache"
               /\ image.code[l].param[1] = "cache" /\ IsLive(image.code[l].param[2])
               /\ Entry(l).codeLoc = l
               /\ Entry(l).origInst = Instruction[l]
               /\ Entry(l).origParam = ConstantPool(l)
    <3>1. Seen(l) = CachedOp(l)
          BY <2>5, OpcodeFacts DEF Bytes, Seen
    <3>2. CachedOp(l) \in Fast(Instruction[l]) /\ ParamOf(CachedOp(l)) = "cache"
          BY <2>5 DEF Cached, CachedOp, Fast, ParamOf
    <3>3. image.code[l].param[1] = "cache" /\ image.code[l].param[2] = i /\ i \in Indices
          BY <1>1, <2>5 DEF Bytes, CodeGood
    <3> QED
          BY <1>2, <2>5, <3>1, <3>2, <3>3 DEF Entry, OwnEntry
  <2> QED
        BY <2>1, <2>2, <2>3, <2>4, <2>5 DEF LocationGood
<1>4. \A i \in DOMAIN image.entries :
        IsLive(i) => image.code[image.entries[i].codeLoc].param = <<"cache", i>>
      BY <1>1, <1>2 DEF CodeGood
<1>5. vm = "down" => \A i \in DOMAIN image.entries : ~IsLive(i)
      BY <1>1, <1>2 DEF CodeInv
<1> QED
      BY <1>3, <1>4, <1>5, Zenon DEF CodeReversible

LEMMA CodeInvArmed == CodeInv => BreakpointsArmed
<1> SUFFICES ASSUME CodeInv PROVE BreakpointsArmed
    OBVIOUS
<1>1. DOMAIN image.events = 1 .. Len(image.events)
      BY DEF CodeInv, CodeGood, Images
<1> QED
      BY <1>1 DEF CodeInv, EventsGood, EventsTyped, BreakpointsArmed

(* "The whole inline caching process is completely reversable" (cache.c),  *)
(* whatever the size of the cache and however often the opcode under a     *)
(* breakpoint is rewritten.                                                *)
THEOREM Reversible == Spec /\ BreaksKeepParameters => []CodeReversible
BY CodeInvariant, CodeInvReversible, PTL

(* BREAKPOINT is in the code exactly where the debugger has a breakpoint   *)
(* in use (installBreakpoint, clearEvent of debugger.c).                   *)
THEOREM Armed == Spec /\ BreaksKeepParameters => []BreakpointsArmed
BY CodeInvariant, CodeInvArmed, PTL

-----------------------------------------------------------------------------
(* The methods that are called                                             *)

(* Where the debugger stops a thread after a step, the parameter stays as  *)
(* it is, and no breakpoint is set.                                        *)
StepsKeepParameters ==
  \A l \in StepLocations : KeepsParameter(l) /\ l \notin BreakLocations

(* Linking has found a method at every call.                               *)
MethodsResolve ==
  \A l \in Locations : Instruction[l] = "INVOKEVIRTUAL" => Resolved(ClassAt[l]) # NIL

(* Lookup that begins from the method which another receiver calls finds   *)
(* the method that lookup from the resolved one finds.                     *)
OverridesCompose ==
  \A l \in Locations : Instruction[l] = "INVOKEVIRTUAL" /\ ~IsSpecial(l) =>
    \A c, d \in Receivers(l) : LookupDynamicMethod(c, RightTarget(l, d)) = RightTarget(l, c)

CallInv ==
  /\ StepsKeepParameters /\ MethodsResolve /\ OverridesCompose
  /\ \A i \in LiveEntries(image) : \E c \in Receivers(image.entries[i].codeLoc) :
       image.entries[i].contents = RightTarget(image.entries[i].codeLoc, c)
  /\ \A t \in Threads : stopped[t] # NIL =>
       /\ stopped[t].location \in Keeping
       /\ stopped[t].nextOpcode \in KeptOps(stopped[t].location)

LEMMA SameCalls ==
  ASSUME class' = class
  PROVE  /\ \A l : Receivers(l)' = Receivers(l)
         /\ \A l, c : RightTarget(l, c)' = RightTarget(l, c)
         /\ StepsKeepParameters => StepsKeepParameters'
         /\ MethodsResolve => MethodsResolve'
         /\ OverridesCompose => OverridesCompose'
<1>1. ASSUME NEW l PROVE Receivers(l)' = Receivers(l)
  <2>1. \A c : LookupMethod(c)' = LookupMethod(c) /\ class'[LookupMethod(c)'] = class[LookupMethod(c)]
        BY SameMethods
  <2> QED
        BY <2>1 DEF Receivers, Access
<1>2. ASSUME NEW l, NEW c PROVE RightTarget(l, c)' = RightTarget(l, c)
  <2>1. /\ Resolved(ClassAt[l])' = Resolved(ClassAt[l]) /\ LookupMethod(c)' = LookupMethod(c)
        /\ \A d : LookupDynamicMethod(c, d)' = LookupDynamicMethod(c, d)
        BY SameMethods
  <2>2. LookupDynamicMethod(c, Resolved(ClassAt[l]))' = LookupDynamicMethod(c, Resolved(ClassAt[l]))
        BY <2>1 DEF LookupDynamicMethod, Access, Package, HasPublicDeclaration
  <2> QED
        BY <2>1, <2>2 DEF RightTarget
<1>3. \A l : IsSpecial(l)' <=> IsSpecial(l)
      BY SameKeeping
<1>4. StepsKeepParameters => StepsKeepParameters'
      BY <1>3 DEF StepsKeepParameters, KeepsParameter
<1>5. MethodsResolve => MethodsResolve'
      BY SameMethods DEF MethodsResolve
<1>6. OverridesCompose => OverridesCompose'
  <2>1. \A l, c, d : LookupDynamicMethod(c, RightTarget(l, d))' = LookupDynamicMethod(c, RightTarget(l, d))
    <3> SUFFICES ASSUME NEW l, NEW c, NEW d
                 PROVE  LookupDynamicMethod(c, RightTarget(l, d))' = LookupDynamicMethod(c, RightTarget(l, d))
        OBVIOUS
    <3>1. RightTarget(l, d)' = RightTarget(l, d)
          BY <1>2
    <3> QED
          BY <3>1 DEF LookupDynamicMethod, Access, Package, HasPublicDeclaration
  <2> QED
        BY <1>1, <1>2, <1>3, <2>1 DEF OverridesCompose
<1> QED
      BY <1>1, <1>2, <1>4, <1>5, <1>6

(* A method that nothing overrides is the one that lookup finds.           *)
LEMMA SpecialTarget ==
  ASSUME NEW l \in Locations, Instruction[l] = "INVOKEVIRTUAL", NEW c \in Receivers(l),
         Resolved(ClassAt[l]) # NIL
  PROVE  /\ LookupDynamicMethod(c, Resolved(ClassAt[l])) \in Classes \cup {Resolved(ClassAt[l])}
         /\ Resolved(ClassAt[l]) \in Classes
         /\ LookupDynamicMethod(c, Resolved(ClassAt[l])) # NIL
         /\ IsSpecial(l) => LookupDynamicMethod(c, Resolved(ClassAt[l])) = Resolved(ClassAt[l])
<1>1. PICK d : d = Resolved(ClassAt[l])
      OBVIOUS
<1>2. c \in Classes /\ ClassAt[l] \in Classes /\ ClassAt[l] \in On(c)
  <2>1. c \in Classes /\ ClassAt[l] \in ToSet(Chain[c])
        BY DEF Receivers
  <2>2. ToSet(Chain[c]) = On(c)
        BY Zenon DEF ToSet, On
  <2> QED
        BY <2>1, <2>2, AssumeFacts
<1>3. /\ d \in On(ClassAt[l]) /\ On(ClassAt[l]) \subseteq On(c) /\ On(c) \subseteq Classes
      /\ \A e \in On(c) : e = c \/ Extended(e)
  <2>1. d \in On(ClassAt[l])
        BY <1>1, <1>2, ResolvedFacts
  <2>2. On(ClassAt[l]) \subseteq On(c) /\ \A e \in On(c) : e = c \/ Extended(e)
        BY <1>2, ChainFacts
  <2>3. On(c) \subseteq Classes
        BY <1>2, ChainFacts DEF On
  <2> QED
        BY <2>1, <2>2, <2>3
<1>4. d \in On(c) /\ LookupDynamicMethod(c, d) \in On(c)
      BY <1>2, <1>3, DynamicFacts
<1>5. CASE Access(d) = "private"
  <2>1. LookupDynamicMethod(c, d) = d
        BY <1>5 DEF LookupDynamicMethod
  <2> QED
        BY <1>1, <1>3, <1>4, <2>1, AssumeFacts
<1>6. CASE d \in FinalClasses
  <2>1. ~Extended(d)
        BY <1>6, CodeAssumption DEF Extended
  <2>2. d = c
        BY <1>3, <1>4, <2>1
  <2>3. LookupDynamicMethod(c, d) = d
        BY <1>2, <2>2, DynamicFacts
  <2> QED
        BY <1>1, <1>3, <1>4, <2>3, AssumeFacts
<1>7. CASE ~IsSpecial(l)
      BY <1>1, <1>3, <1>4, <1>7, AssumeFacts
<1> QED
      BY <1>1, <1>5, <1>6, <1>7 DEF IsSpecial

LEMMA RightTargetExists ==
  ASSUME MethodsResolve, NEW l \in Locations, NEW c \in Receivers(l)
  PROVE  RightTarget(l, c) # NIL /\ c \in Classes
<1>1. c \in Classes /\ ClassAt[l] \in Classes
      BY AssumeFacts DEF Receivers
<1>2. CASE Instruction[l] = "INVOKEVIRTUAL"
  <2>1. LookupDynamicMethod(c, Resolved(ClassAt[l])) # NIL
        BY <1>2, SpecialTarget DEF MethodsResolve
  <2> QED
        BY <1>1, <1>2, <2>1 DEF RightTarget
<1>3. CASE Instruction[l] = "INVOKEINTERFACE"
      BY <1>1, <1>3 DEF RightTarget, Receivers
<1>4. CASE Instruction[l] \notin {"INVOKEVIRTUAL", "INVOKEINTERFACE"}
  <2>1. RightTarget(l, c) = ClassAt[l]
        BY <1>4 DEF RightTarget
  <2> QED
        BY <1>1, <2>1, AssumeFacts
<1> QED
      BY <1>2, <1>3, <1>4

(* A kept opcode, with the constant pool entry of the location.            *)
LEMMA KeptTarget ==
  ASSUME MethodsResolve, NEW l \in Keeping, image.code[l].param = ConstantPool(l),
         NEW op \in KeptOps(l), NEW c \in Receivers(l)
  PROVE  Target(op, l, c) = RightTarget(l, c)
<1>1. l \in Locations /\ KeepsParameter(l) /\ image.code[l].param[1] = "constant"
      BY DEF Keeping, ConstantPool
<1>2. CASE Instruction[l] = "NEW"
  <2>1. op \in {"NEW", "NEW_FAST"}
        BY <1>2 DEF KeptOps
  <2> QED
        BY <1>1, <1>2, <2>1 DEF Target, RightTarget, ParamOf
<1>3. CASE Instruction[l] = "INVOKEVIRTUAL" /\ IsSpecial(l)
  <2>1. op \in {"INVOKEVIRTUAL", "INVOKESPECIAL_FAST"}
        BY <1>3 DEF KeptOps
  <2>2. LookupDynamicMethod(c, Resolved(ClassAt[l])) = Resolved(ClassAt[l])
        BY <1>1, <1>3, SpecialTarget DEF MethodsResolve
  <2> QED
        BY <1>1, <1>3, <2>1, <2>2 DEF Target, RightTarget, ParamOf
<1> QED
      BY <1>1, <1>2, <1>3 DEF KeepsParameter

(* A fast bytecode with an entry.                                          *)
LEMMA CachedTarget ==
  ASSUME CallInv, NEW l \in Locations, l \notin Keeping, Instruction[l] \in Cached,
         NEW i \in LiveEntries(image), image.code[l].param = <<"cache", i>>, OwnEntry(image, i, l),
         NEW c \in Receivers(l)
  PROVE  Target(CachedOp(l), l, c) = RightTarget(l, c)
<1>1. PICK m, d : d \in Receivers(l) /\ m = Entry(l).contents /\ m = RightTarget(l, d)
  <2>1. Entry(l) = image.entries[i] /\ image.entries[i].codeLoc = l
        BY DEF Entry, OwnEntry
  <2>2. \E d \in Receivers(image.entries[i].codeLoc) :
          image.entries[i].contents = RightTarget(image.entries[i].codeLoc, d)
        BY DEF CallInv
  <2>3. \E d \in Receivers(l) : Entry(l).contents = RightTarget(l, d)
        BY <2>1, <2>2
  <2> QED
        BY <2>3, Zenon
<1>2. MethodsResolve /\ c \in Classes /\ d \in Classes /\ m # NIL
      BY <1>1, RightTargetExists DEF CallInv
<1>3. CASE Instruction[l] = "INVOKEVIRTUAL"
  <2>1. CachedOp(l) = "INVOKEVIRTUAL_FAST" /\ ParamOf("INVOKEVIRTUAL_FAST") = "cache"
        BY <1>3 DEF CachedOp, ParamOf
  <2>2. ~IsSpecial(l)
        BY <1>3 DEF Keeping, KeepsParameter
  <2>3. LookupDynamicMethod(c, m) = RightTarget(l, c)
        BY <1>1, <1>3, <2>2 DEF CallInv, OverridesCompose
  <2>4. c = m => LookupDynamicMethod(c, m) = m
        BY <1>2, DynamicFacts
  <2>5. Target("INVOKEVIRTUAL_FAST", l, c) = IF c = m THEN m ELSE LookupDynamicMethod(c, m)
        BY <1>1, <2>1 DEF Target, IsHit
  <2> QED
        BY <2>1, <2>3, <2>4, <2>5
<1>4. CASE Instruction[l] = "INVOKEINTERFACE"
  <2>1. CachedOp(l) = "INVOKEINTERFACE_FAST" /\ ParamOf("INVOKEINTERFACE_FAST") = "cache"
        BY <1>4 DEF CachedOp, ParamOf
  <2>2. RightTarget(l, c) = LookupMethod(c) /\ m = LookupMethod(d)
        BY <1>1, <1>4 DEF RightTarget
  <2>3. c = m => LookupMethod(c) = m
        BY <1>2, <2>2, LookupFacts
  <2>4. Target("INVOKEINTERFACE_FAST", l, c) = IF c = m THEN m ELSE LookupMethod(c)
        BY <1>1, <2>1 DEF Target, IsHit
  <2> QED
        BY <2>1, <2>2, <2>3, <2>4
<1>5. CASE Instruction[l] = "ANEWARRAY"
  <2>1. CachedOp(l) = "ANEWARRAY_FAST" /\ ParamOf("ANEWARRAY_FAST") = "cache"
        BY <1>5 DEF CachedOp, ParamOf
  <2>2. RightTarget(l, c) = ClassAt[l] /\ RightTarget(l, d) = ClassAt[l]
        BY <1>5 DEF RightTarget
  <2>3. Target("ANEWARRAY_FAST", l, c) = m
        BY <1>1, <2>1 DEF Target
  <2> QED
        BY <1>1, <2>1, <2>2, <2>3
<1> QED
      BY <1>3, <1>4, <1>5 DEF Cached

(* The bytecode of the class file, or a field that has been resolved.      *)
LEMMA PlainTarget ==
  ASSUME NEW l \in Locations, NEW c \in Receivers(l), NEW op,
         \/ op = Instruction[l] /\ image.code[l].param = ConstantPool(l)
         \/ /\ Instruction[l] = "GETFIELD" /\ op = "GETFIELD_FAST"
            /\ image.code[l].param = <<"offset", l>>
  PROVE  Target(op, l, c) = RightTarget(l, c)
<1>1. Instruction[l] \in Bytecodes
      BY AssumeFacts
<1>2. CASE op = Instruction[l] /\ image.code[l].param = ConstantPool(l)
  <2>1. image.code[l].param[1] = "constant" /\ ParamOf(op) = "constant"
        BY <1>1, <1>2 DEF ConstantPool, ParamOf, Bytecodes
  <2> QED
        BY <1>1, <1>2, <2>1 DEF Target, RightTarget, Bytecodes
<1>3. CASE Instruction[l] = "GETFIELD" /\ op = "GETFIELD_FAST" /\ image.code[l].param = <<"offset", l>>
  <2>1. image.code[l].param[1] = "offset" /\ ParamOf(op) = "offset"
        BY <1>3 DEF ParamOf
  <2> QED
        BY <1>3, <2>1 DEF Target, RightTarget
<1> QED
      BY <1>2, <1>3

(* What a thread executes next goes to the right place.                    *)
LEMMA RightCall ==
  ASSUME CodeInv, CallInv, NEW t \in Threads, NEW l \in Locations, IsAt(t, l),
         Token(t, l) # "BREAKPOINT", NEW c \in Receivers(l)
  PROVE  Target(Token(t, l), l, c) = RightTarget(l, c)
<1>1. PICK op : op = Token(t, l)
      OBVIOUS
<1>2. CodeGood(image, LiveEntries(image), Keeping) /\ MethodsResolve
      BY DEF CodeInv, CallInv
<1>3. CASE l \in Keeping
  <2>1. image.code[l].param = ConstantPool(l) /\ image.code[l].op \in KeptOps(l) \cup {"BREAKPOINT"}
        BY <1>2, <1>3, KeptState
  <2>2. op \in KeptOps(l)
        BY <1>1, <2>1 DEF Token, IsAt, CallInv
  <2> QED
        BY <1>1, <1>2, <1>3, <2>1, <2>2, KeptTarget
<1>4. CASE l \notin Keeping
  <2>1. stopped[t] = NIL /\ op = image.code[l].op
        BY <1>1, <1>4 DEF IsAt, CallInv, Token
  <2>2. LocationGood(image, LiveEntries(image), Keeping, l)
        BY <1>2 DEF CodeGood
  <2>3. CASE \/ op = Instruction[l] /\ image.code[l].param = ConstantPool(l)
             \/ /\ Instruction[l] = "GETFIELD" /\ op = "GETFIELD_FAST"
                /\ image.code[l].param = <<"offset", l>>
        BY <1>1, <2>3, PlainTarget
  <2>4. ASSUME Instruction[l] \in Cached, NEW i \in LiveEntries(image),
               Bytes(image, l, CachedOp(l), <<"cache", i>>), OwnEntry(image, i, l)
        PROVE  Target(op, l, c) = RightTarget(l, c)
        BY <1>4, <2>1, <2>4, CachedTarget DEF Bytes
  <2> QED
        BY <1>1, <1>4, <2>1, <2>2, <2>3, <2>4 DEF LocationGood, Bytes
<1> QED
      BY <1>3, <1>4

(* The entries that are live have good contents, and were live before.     *)
LEMMA CallKeeps ==
  ASSUME CallInv, class' = class,
         \A i \in LiveEntries(image') :
           \/ i \in LiveEntries(image) /\ image'.entries[i] = image.entries[i]
           \/ \E c \in Receivers(image'.entries[i].codeLoc) :
                image'.entries[i].contents = RightTarget(image'.entries[i].codeLoc, c),
         \A t \in Threads : stopped'[t] # NIL =>
           /\ stopped'[t].location \in Keeping
           /\ stopped'[t].nextOpcode \in KeptOps(stopped'[t].location)
  PROVE  CallInv'
<1>1. /\ StepsKeepParameters' /\ MethodsResolve' /\ OverridesCompose'
      /\ \A l : Receivers(l)' = Receivers(l) /\ Keeping' = Keeping
      /\ \A l, c : RightTarget(l, c)' = RightTarget(l, c)
      BY SameCalls, SameKeeping DEF CallInv
<1>2. ASSUME NEW i \in LiveEntries(image')
      PROVE  \E c \in Receivers(image'.entries[i].codeLoc) :
                image'.entries[i].contents = RightTarget(image'.entries[i].codeLoc, c)
      BY <1>2 DEF CallInv
<1>3. ASSUME NEW i \in LiveEntries(image)'
      PROVE  (\E c \in Receivers(image.entries[i].codeLoc) :
                image.entries[i].contents = RightTarget(image.entries[i].codeLoc, c))'
  <2>1. i \in LiveEntries(image')
        BY DEF LiveEntries
  <2>2. PICK k : k = image'.entries[i].codeLoc
        OBVIOUS
  <2>3. PICK c \in Receivers(k) : image'.entries[i].contents = RightTarget(k, c)
        BY <1>2, <2>1, <2>2
  <2>4. Receivers(k)' = Receivers(k) /\ RightTarget(k, c)' = RightTarget(k, c)
        BY <1>1
  <2>5. Receivers(image.entries[i].codeLoc)' = Receivers(k)
        BY <2>2, <2>4 DEF Receivers
  <2>6. RightTarget(image.entries[i].codeLoc, c)' = RightTarget(k, c)
        BY <2>2, <2>4 DEF RightTarget
  <2> QED
        BY <2>3, <2>5, <2>6
<1>4. ASSUME NEW t \in Threads, stopped'[t] # NIL
      PROVE  /\ stopped'[t].location \in Keeping'
             /\ stopped'[t].nextOpcode \in KeptOps(stopped'[t].location)
      BY <1>1, <1>4
<1> QED
      BY <1>1, <1>3, <1>4 DEF CallInv, KeptOps

LEMMA ExecutesCalls ==
  ASSUME CodeInv, CallInv, NEW t \in Threads, NEW l \in Locations, NEW op, Executes(t, l, op)
  PROVE  /\ \A u \in Threads : stopped'[u] # NIL =>
              /\ stopped'[u].location \in Keeping
              /\ stopped'[u].nextOpcode \in KeptOps(stopped'[u].location)
         /\ op # "BREAKPOINT" => \A c \in Receivers(l) : Target(op, l, c) = RightTarget(l, c)
         /\ class' = class
<1>1. /\ class' = class /\ stopped' = [stopped EXCEPT ![t] = NIL]
      /\ IsAt(t, l) /\ Token(t, l) = op
      BY DEF Executes
<1>2. stopped \in [Threads -> Stops \cup {NIL}]
      BY DEF CodeInv, StopsGood
<1>3. \A u \in Threads : stopped'[u] = NIL \/ stopped'[u] = stopped[u]
      BY <1>1, <1>2
<1>4. \A u \in Threads : stopped'[u] # NIL =>
              /\ stopped'[u].location \in Keeping
              /\ stopped'[u].nextOpcode \in KeptOps(stopped'[u].location)
      BY <1>3 DEF CallInv
<1>5. op # "BREAKPOINT" => \A c \in Receivers(l) : Target(op, l, c) = RightTarget(l, c)
      BY <1>1, RightCall
<1> QED
      BY <1>1, <1>4, <1>5

(* The cache is as it was.                                                 *)
LEMMA SameCacheCalls ==
  ASSUME CallInv, class' = class, SameCache(image, image'),
         \A t \in Threads : stopped'[t] # NIL =>
           /\ stopped'[t].location \in Keeping
           /\ stopped'[t].nextOpcode \in KeptOps(stopped'[t].location)
  PROVE  CallInv'
<1>1. LiveEntries(image') = LiveEntries(image) /\ image'.entries = image.entries
      BY DEF SameCache, LiveEntries
<1> QED
      BY <1>1, CallKeeps

LEMMA QuickenCalls ==
  ASSUME CodeInv, CallInv, NEW t \in Threads, NEW l \in Locations \ Keeping,
         Instruction[l] \in Cached, Executes(t, l, Instruction[l]),
         NEW contents \in Classes \cup {NIL}, NEW c \in Receivers(l), contents = RightTarget(l, c),
         image' = Quicken(image, l, CachedOp(l), contents)
  PROVE  CallInv'
<1>1. image.code[l].param[1] = "constant"
  <2>1. image.code[l].param[1] = ParamOf(Instruction[l])
        BY DEF Executes
  <2> QED
        BY <2>1 DEF ParamOf, Cached
<1>2. CodeGood(image, LiveEntries(image), Keeping) /\ EventsGood(image)
      BY DEF CodeInv
<1>3. /\ image'.entries[image.pointer].contents = contents
      /\ image'.entries[image.pointer].codeLoc = l
      /\ \A i \in LiveEntries(image') : i # image.pointer =>
           i \in LiveEntries(image) /\ image'.entries[i] = image.entries[i]
      BY <1>1, <1>2, QuickenEffect
<1>4. ASSUME NEW i \in LiveEntries(image')
      PROVE  \/ i \in LiveEntries(image) /\ image'.entries[i] = image.entries[i]
             \/ \E d \in Receivers(image'.entries[i].codeLoc) :
                  image'.entries[i].contents = RightTarget(image'.entries[i].codeLoc, d)
  <2>1. CASE i = image.pointer
    <3>1. image'.entries[i].codeLoc = l /\ image'.entries[i].contents = RightTarget(l, c)
          BY <1>3, <2>1
    <3> QED
          BY <3>1
  <2>2. CASE i # image.pointer
        BY <1>3, <2>2
  <2> QED
        BY <2>1, <2>2
<1> QED
      BY <1>4, ExecutesCalls, CallKeeps

LEMMA InvokeVirtualCalls ==
  ASSUME CodeInv, CallInv, NEW t \in Threads, NEW l \in Locations, InvokeVirtual(t, l)
  PROVE  CallInv'
<1>1. Executes(t, l, "INVOKEVIRTUAL")
      BY DEF InvokeVirtual
<1>2. Instruction[l] = "INVOKEVIRTUAL"
      BY <1>1, ExecutesEffect, OpcodesAtFacts DEF Bytecodes
<1>3. CASE IsSpecial(l)
  <2>1. image' = ReplaceBytecode(image, l, "INVOKESPECIAL_FAST")
        BY <1>3 DEF InvokeVirtual
  <2>2. l \in Keeping /\ "INVOKESPECIAL_FAST" \in KeptOps(l)
        BY <1>2, <1>3 DEF Keeping, KeepsParameter, KeptOps
  <2>3. SameCache(image, image')
        BY <2>1, <2>2, ReplaceKept DEF CodeInv
  <2> QED
        BY <1>1, <2>3, ExecutesCalls, SameCacheCalls
<1>4. CASE ~IsSpecial(l)
  <2>1. PICK c \in Receivers(l) :
          image' = Quicken(image, l, "INVOKEVIRTUAL_FAST", Target("INVOKEVIRTUAL", l, c))
        BY <1>4 DEF InvokeVirtual
  <2>2. l \in Locations \ Keeping /\ Instruction[l] \in Cached /\ CachedOp(l) = "INVOKEVIRTUAL_FAST"
        BY <1>2, <1>4 DEF Keeping, KeepsParameter, Cached, CachedOp
  <2>3. Target("INVOKEVIRTUAL", l, c) \in Classes \cup {NIL}
        BY <1>2, TargetType
  <2>4. Target("INVOKEVIRTUAL", l, c) = RightTarget(l, c)
        BY <1>1, ExecutesCalls
  <2> QED
        BY <1>1, <1>2, <2>1, <2>2, <2>3, <2>4, QuickenCalls
<1> QED
      BY <1>3, <1>4

LEMMA InvokeInterfaceCalls ==
  ASSUME CodeInv, CallInv, NEW t \in Threads, NEW l \in Locations, InvokeInterface(t, l)
  PROVE  CallInv'
<1>1. Executes(t, l, "INVOKEINTERFACE")
      BY DEF InvokeInterface
<1>2. Instruction[l] = "INVOKEINTERFACE"
      BY <1>1, ExecutesEffect, OpcodesAtFacts DEF Bytecodes
<1>3. PICK c \in Receivers(l) :
        image' = Quicken(image, l, "INVOKEINTERFACE_FAST", Target("INVOKEINTERFACE", l, c))
      BY DEF InvokeInterface
<1>4. l \in Locations \ Keeping /\ Instruction[l] \in Cached /\ CachedOp(l) = "INVOKEINTERFACE_FAST"
      BY <1>2 DEF Keeping, KeepsParameter, Cached, CachedOp
<1>5. Target("INVOKEINTERFACE", l, c) \in Classes \cup {NIL}
      BY <1>2, TargetType
<1>6. Target("INVOKEINTERFACE", l, c) = RightTarget(l, c)
      BY <1>1, ExecutesCalls
<1> QED
      BY <1>1, <1>2, <1>3, <1>4, <1>5, <1>6, QuickenCalls

LEMMA ANewArrayCalls ==
  ASSUME CodeInv, CallInv, NEW t \in Threads, NEW l \in Locations, ANewArray(t, l)
  PROVE  CallInv'
<1>1. Executes(t, l, "ANEWARRAY") /\ image' = Quicken(image, l, "ANEWARRAY_FAST", ClassAt[l])
      BY DEF ANewArray
<1>2. Instruction[l] = "ANEWARRAY"
      BY <1>1, ExecutesEffect, OpcodesAtFacts DEF Bytecodes
<1>3. l \in Locations \ Keeping /\ Instruction[l] \in Cached /\ CachedOp(l) = "ANEWARRAY_FAST"
      BY <1>2 DEF Keeping, KeepsParameter, Cached, CachedOp
<1>4. /\ ClassAt[l] \in Classes \cup {NIL} /\ ClassAt[l] \in Receivers(l)
      /\ ClassAt[l] = RightTarget(l, ClassAt[l])
      BY <1>2, AssumeFacts DEF Receivers, RightTarget
<1> QED
      BY <1>1, <1>2, <1>3, <1>4, QuickenCalls

LEMMA InvokeFastCalls ==
  ASSUME CodeInv, CallInv, NEW t \in Threads, NEW l \in Locations,
         NEW op \in {"INVOKEVIRTUAL_FAST", "INVOKEINTERFACE_FAST"}, InvokeFast(t, l, op)
  PROVE  CallInv'
<1>1. Executes(t, l, op)
      BY DEF InvokeFast
<1>2. /\ class' = class /\ op \in OpcodesAt(l) /\ image.code[l].param[1] = "cache"
      BY <1>1, ExecutesEffect DEF ParamOf
<1>3. CodeGood(image, LiveEntries(image), Keeping) /\ image \in Images
      BY DEF CodeInv, CodeGood
<1>4. PICK i : i = image.code[l].param[2]
      OBVIOUS
<1>5. i \in Indices /\ image.entries[i].codeLoc = l
      BY <1>2, <1>3, <1>4, CachedLocation DEF OwnEntry
<1>6. PICK c \in Receivers(l) : image' = PutContents(image, i, Target(op, l, c))
      BY <1>4, Zenon DEF InvokeFast, PutContents
<1>7. Target(op, l, c) \in Classes \cup {NIL} /\ Target(op, l, c) = RightTarget(l, c)
  <2>1. Instruction[l] \in {"INVOKEVIRTUAL", "INVOKEINTERFACE"}
        BY <1>2, OpcodesAtFacts
  <2>2. Target(op, l, c) \in Classes \cup {NIL}
        BY <1>4, <1>5, <2>1, TargetType
  <2>3. op # "BREAKPOINT"
        OBVIOUS
  <2>4. Target(op, l, c) = RightTarget(l, c)
        BY <1>1, <2>3, ExecutesCalls
  <2> QED
        BY <2>2, <2>4
<1>8. /\ image' \in Images /\ image'.pointer = image.pointer /\ image'.full = image.full
      /\ image'.entries[i].contents = RightTarget(l, c) /\ image'.entries[i].codeLoc = l
      /\ \A k \in Indices : k # i =>
           /\ image'.entries[k].codeLoc = image.entries[k].codeLoc
           /\ image'.entries[k].contents = image.entries[k].contents
      BY <1>3, <1>5, <1>6, <1>7, PutContentsEffect
<1>9. LiveEntries(image') = LiveEntries(image) /\ LiveEntries(image) \subseteq Indices
      BY <1>8 DEF LiveEntries
<1>10. ASSUME NEW k \in LiveEntries(image')
       PROVE  \E d \in Receivers(image'.entries[k].codeLoc) :
                image'.entries[k].contents = RightTarget(image'.entries[k].codeLoc, d)
  <2>1. CASE k = i
        BY <1>8, <2>1
  <2>2. CASE k # i
    <3>1. /\ image'.entries[k].codeLoc = image.entries[k].codeLoc
          /\ image'.entries[k].contents = image.entries[k].contents
          BY <1>8, <1>9, <2>2
    <3>2. \E d \in Receivers(image.entries[k].codeLoc) :
            image.entries[k].contents = RightTarget(image.entries[k].codeLoc, d)
          BY <1>9 DEF CallInv
    <3> QED
          BY <3>1, <3>2
  <2> QED
        BY <2>1, <2>2
<1> QED
      BY <1>1, <1>2, <1>10, ExecutesCalls, CallKeeps

LEMMA NewCalls ==
  ASSUME CodeInv, CallInv, NEW t \in Threads, NEW l \in Locations, New(t, l)
  PROVE  CallInv'
<1>1. Executes(t, l, "NEW") /\ (image' = image \/ image' = ReplaceBytecode(image, l, "NEW_FAST"))
      BY DEF New
<1>2. Instruction[l] = "NEW"
      BY <1>1, ExecutesEffect, OpcodesAtFacts DEF Bytecodes
<1>3. l \in Keeping /\ "NEW_FAST" \in KeptOps(l)
      BY <1>2 DEF Keeping, KeepsParameter, KeptOps
<1>4. CodeGood(image, LiveEntries(image), Keeping) /\ EventsGood(image)
      BY DEF CodeInv
<1>5. SameCache(image, image')
      BY <1>1, <1>3, <1>4, ReplaceKept DEF SameCache
<1> QED
      BY <1>1, <1>5, ExecutesCalls, SameCacheCalls

LEMMA GetFieldCalls ==
  ASSUME CodeInv, CallInv, NEW t \in Threads, NEW l \in Locations, GetField(t, l)
  PROVE  CallInv'
<1>1. /\ Executes(t, l, "GETFIELD")
      /\ image' = PutShort(ReplaceBytecode(image, l, "GETFIELD_FAST"), l, <<"offset", l>>)
      BY DEF GetField
<1>2. /\ image.code[l].param[1] = "constant" /\ Instruction[l] = "GETFIELD"
      BY <1>1, ExecutesEffect, OpcodesAtFacts DEF ParamOf, Bytecodes
<1>3. SameCache(image, image')
      BY <1>1, <1>2, GetFieldEffect DEF CodeInv
<1> QED
      BY <1>1, <1>3, ExecutesCalls, SameCacheCalls

LEMMA OtherFastCalls ==
  ASSUME CodeInv, CallInv, NEW t \in Threads, NEW l \in Locations, OtherFast(t, l)
  PROVE  CallInv'
<1>1. PICK op : Executes(t, l, op) /\ image' = image
      BY DEF OtherFast
<1>2. SameCache(image, image')
      BY <1>1 DEF SameCache
<1> QED
      BY <1>1, <1>2, ExecutesCalls, SameCacheCalls

(* The debugger stops a thread where the parameter stays as it is.         *)
LEMMA StopCalls ==
  ASSUME CodeInv, CallInv, class' = class, image' = image, NEW t \in Threads, NEW l \in Keeping,
         NEW op \in KeptOps(l),
         stopped' = [stopped EXCEPT ![t] = [location |-> l, nextOpcode |-> op]]
  PROVE  CallInv'
<1>1. PICK stop : stop = [location |-> l, nextOpcode |-> op]
      OBVIOUS
<1>2. stop.location = l /\ stop.nextOpcode = op
      BY <1>1
<1>3. stopped \in [Threads -> Stops \cup {NIL}]
      BY DEF CodeInv, StopsGood
<1>4. stopped'[t] = stop /\ \A u \in Threads : u # t => stopped'[u] = stopped[u]
      BY <1>1, <1>3
<1>5. \A u \in Threads : stopped'[u] # NIL =>
              /\ stopped'[u].location \in Keeping
              /\ stopped'[u].nextOpcode \in KeptOps(stopped'[u].location)
      BY <1>2, <1>4 DEF CallInv
<1>6. SameCache(image, image')
      BY DEF SameCache
<1> QED
      BY <1>5, <1>6, SameCacheCalls

LEMMA HandleBreakpointCalls ==
  ASSUME CodeInv, CallInv, NEW t \in Threads, NEW l \in Locations, HandleBreakpoint(t, l)
  PROVE  CallInv'
<1>1. PICK op : op = image.events[FindBreakEvent(image, l)].opcode
      OBVIOUS
<1>2. /\ FindBreakEvent(image, l) # 0 /\ class' = class /\ image' = image
      /\ stopped' = [stopped EXCEPT ![t] = [location |-> l, nextOpcode |-> op]]
      BY <1>1 DEF HandleBreakpoint
<1>3. l \in Keeping /\ op \in KeptOps(l)
      BY <1>1, <1>2, EventOpcode
<1> QED
      BY <1>2, <1>3, StopCalls

LEMMA SingleStepCalls ==
  ASSUME CodeInv, CallInv, NEW t \in Threads, NEW l \in Locations, SingleStep(t, l)
  PROVE  CallInv'
<1>1. PICK op : op = Token(t, l)
      OBVIOUS
<1>2. /\ stopped[t] = NIL /\ l \in StepLocations /\ class' = class /\ image' = image
      /\ stopped' = [stopped EXCEPT ![t] = [location |-> l, nextOpcode |-> op]]
      BY <1>1 DEF SingleStep
<1>3. l \in Keeping /\ l \notin BreakLocations
      BY <1>2 DEF CallInv, StepsKeepParameters, Keeping
<1>4. op = image.code[l].op
      BY <1>1, <1>2 DEF Token
<1>5. image.code[l].op \in KeptOps(l) \cup {"BREAKPOINT"}
      BY <1>3, KeptState DEF CodeInv
<1>6. image.code[l].op # "BREAKPOINT"
      BY <1>3, SeenThrough, EventOpcode
<1> QED
      BY <1>2, <1>3, <1>4, <1>5, <1>6, StopCalls

LEMMA StoppedStay ==
  ASSUME CallInv, stopped' = stopped
  PROVE  \A t \in Threads : stopped'[t] # NIL =>
           /\ stopped'[t].location \in Keeping
           /\ stopped'[t].nextOpcode \in KeptOps(stopped'[t].location)
BY DEF CallInv

LEMMA SetBreakpointCalls ==
  ASSUME CodeInv, CallInv, NEW l \in Locations, SetBreakpoint(l)
  PROVE  CallInv'
<1>1. class' = class /\ stopped' = stopped
      BY DEF SetBreakpoint, Command
<1>2. SameCache(image, image')
  <2>1. image \in Images
        BY DEF CodeInv, CodeGood
  <2>2. PICK t : image' = [image EXCEPT !.events = t, !.code[l].op = "BREAKPOINT"]
        BY Zenon DEF SetBreakpoint
  <2> QED
        BY <2>1, <2>2 DEF Images, SameCache
<1> QED
      BY <1>1, <1>2, StoppedStay, SameCacheCalls

LEMMA ClearBreakpointCalls ==
  ASSUME CodeInv, CallInv, NEW i \in DOMAIN image.events, ClearBreakpoint(i)
  PROVE  CallInv'
<1>1. class' = class /\ stopped' = stopped /\ image' = ClearEvent(image, i)
      BY DEF ClearBreakpoint, Command
<1>2. CodeGood(image, LiveEntries(image), Keeping) /\ EventsTyped(image)
      /\ i \in 1 .. Len(image.events)
      BY DEF CodeInv, EventsGood, CodeGood, Images
<1>3. SameCache(image, image')
      BY <1>1, <1>2, ClearEffect
<1> QED
      BY <1>1, <1>3, StoppedStay, SameCacheCalls

LEMMA ClearAllCalls ==
  ASSUME CodeInv, CallInv, ClearAll
  PROVE  CallInv'
<1>1. class' = class /\ stopped' = stopped /\ image' = ClearAllBreakpoints(image)
      BY DEF ClearAll, Command
<1>2. CodeGood(image, LiveEntries(image), Keeping) /\ EventsTyped(image)
      BY DEF CodeInv, EventsGood
<1>3. SameCache(image, image')
      BY <1>1, <1>2, ClearAllEffect
<1> QED
      BY <1>1, <1>3, StoppedStay, SameCacheCalls

LEMMA CleanupCalls ==
  ASSUME CodeInv, CallInv, Cleanup
  PROVE  CallInv'
<1>1. class' = class /\ stopped' = stopped /\ vm' = "down"
      BY DEF Cleanup
<1>2. CodeInv'
      BY CleanupStep
<1>3. LiveEntries(image') = {}
      BY <1>1, <1>2 DEF CodeInv, LiveEntries
<1> QED
      BY <1>1, <1>3, StoppedStay, CallKeeps

LEMMA CallInvNext == CodeInv /\ CallInv /\ [Next]_vars => CallInv'
<1> SUFFICES ASSUME CodeInv, CallInv, [Next]_vars PROVE CallInv'
    OBVIOUS
<1>1. CASE UNCHANGED vars
  <2>1. class' = class /\ stopped' = stopped /\ SameCache(image, image')
        BY <1>1 DEF vars, SameCache
  <2> QED
        BY <2>1, StoppedStay, SameCacheCalls
<1>2. ASSUME NEW t \in Threads, NEW l \in Locations,
             \/ InvokeVirtual(t, l) \/ InvokeVirtualFast(t, l)
             \/ InvokeInterface(t, l) \/ InvokeInterfaceFast(t, l)
             \/ ANewArray(t, l) \/ New(t, l) \/ GetField(t, l) \/ OtherFast(t, l)
             \/ HandleBreakpoint(t, l) \/ SingleStep(t, l)
      PROVE  CallInv'
  <2>1. CASE InvokeVirtual(t, l)
        BY <2>1, InvokeVirtualCalls
  <2>2. CASE InvokeVirtualFast(t, l)
        BY <2>2, InvokeFastCalls DEF InvokeVirtualFast
  <2>3. CASE InvokeInterface(t, l)
        BY <2>3, InvokeInterfaceCalls
  <2>4. CASE InvokeInterfaceFast(t, l)
        BY <2>4, InvokeFastCalls DEF InvokeInterfaceFast
  <2>5. CASE ANewArray(t, l)
        BY <2>5, ANewArrayCalls
  <2>6. CASE New(t, l)
        BY <2>6, NewCalls
  <2>7. CASE GetField(t, l)
        BY <2>7, GetFieldCalls
  <2>8. CASE OtherFast(t, l)
        BY <2>8, OtherFastCalls
  <2>9. CASE HandleBreakpoint(t, l)
        BY <2>9, HandleBreakpointCalls
  <2>10. CASE SingleStep(t, l)
        BY <2>10, SingleStepCalls
  <2> QED
        BY <1>2, <2>1, <2>2, <2>3, <2>4, <2>5, <2>6, <2>7, <2>8, <2>9, <2>10
<1>3. ASSUME NEW l \in Locations, SetBreakpoint(l) PROVE CallInv'
      BY <1>3, SetBreakpointCalls
<1>4. ASSUME NEW i \in DOMAIN image.events, ClearBreakpoint(i) PROVE CallInv'
      BY <1>4, ClearBreakpointCalls
<1>5. CASE ClearAll
      BY <1>5, ClearAllCalls
<1>6. CASE Cleanup
      BY <1>6, CleanupCalls
<1>7. CASE Down
      BY <1>1, <1>7 DEF Down
<1> QED
      BY <1>1, <1>2, <1>3, <1>4, <1>5, <1>6, <1>7 DEF Next

LEMMA CallInvInit ==
  ASSUME Init, BreaksKeepParameters, StepsKeepParameters, MethodsResolve, OverridesCompose
  PROVE  CallInv
<1>1. LiveEntries(image) = {}
      BY CodeInvInit
<1>2. \A t \in Threads : stopped[t] = NIL
      BY DEF Init
<1> QED
      BY <1>1, <1>2 DEF CallInv

LEMMA InvCallsRight == CodeInv /\ CallInv => CallsRightMethod
<1> SUFFICES ASSUME CodeInv, CallInv, NEW t \in Threads, NEW l \in Locations, IsAt(t, l)
             PROVE  IF Token(t, l) = "BREAKPOINT" THEN FindBreakEvent(image, l) # 0
                    ELSE \A c \in Receivers(l) :
                           /\ RightTarget(l, c) # NIL
                           /\ Target(Token(t, l), l, c) = RightTarget(l, c)
    BY DEF CallsRightMethod
<1>1. CASE Token(t, l) = "BREAKPOINT"
  <2>1. CASE stopped[t] # NIL /\ Token(t, l) = stopped[t].nextOpcode
    <3>1. l \in Keeping /\ Token(t, l) \in KeptOps(l)
          BY <2>1 DEF CallInv, IsAt
    <3> QED
          BY <1>1, <3>1, OpcodeFacts DEF Keeping
  <2>2. CASE Token(t, l) = image.code[l].op
        BY <1>1, <2>2, SeenThrough
  <2> QED
        BY <1>1, <2>1, <2>2 DEF Token
<1>2. CASE Token(t, l) # "BREAKPOINT"
  <2>1. ASSUME NEW c \in Receivers(l)
        PROVE  RightTarget(l, c) # NIL /\ Target(Token(t, l), l, c) = RightTarget(l, c)
    <3>1. MethodsResolve
          BY DEF CallInv
    <3> QED
          BY <1>2, <3>1, RightCall, RightTargetExists
  <2> QED
        BY <1>2, <2>1
<1> QED
      BY <1>1, <1>2

(* INVOKEVIRTUAL_FAST, INVOKEINTERFACE_FAST, INVOKESPECIAL_FAST and        *)
(* ANEWARRAY_FAST do what the bytecode they replace does (bytecodes.c).    *)
THEOREM CallsRight ==
  Spec /\ BreaksKeepParameters /\ StepsKeepParameters /\ MethodsResolve /\ OverridesCompose
    => []CallsRightMethod
<1>1. Init /\ BreaksKeepParameters /\ StepsKeepParameters /\ MethodsResolve /\ OverridesCompose
        => CodeInv /\ CallInv
      BY CodeInvInit, CallInvInit
<1>2. CodeInv /\ CallInv /\ [Next]_vars => CodeInv' /\ CallInv'
      BY CodeInvNext, CallInvNext
<1> QED
      BY <1>1, <1>2, InvCallsRight, PTL DEF Spec
==============================================================================
