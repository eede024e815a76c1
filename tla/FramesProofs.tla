---------------------------- MODULE FramesProofs ----------------------------
(***************************************************************************)
(* Frames: no frame ever leaves its chunk or overlaps another one, for     *)
(* any methods, frame sizes, exceptions and bounds; and Frames implements  *)
(* CallStack.                                                              *)
(*                                                                         *)
(* FramesFit speaks of the cells that are in use, which do not determine   *)
(* what the next call or return leaves behind.  Inv keeps, for every       *)
(* frame, the room for all the operands it may ever have (FrameFits), that *)
(* the frame above took its arguments from these operands (LeadsTo), and   *)
(* that the chunks are used in the order in which they are linked (Apart): *)
(* a frame that returns or is dropped by an exception uncovers a state in  *)
(* which the same holds, and so does a list of chunks that is cut off      *)
(* after the last frame.                                                   *)
(*                                                                         *)
(* CallStack has no instruction pointers below its last activation; the    *)
(* frames have return addresses, which may be at the calling instruction   *)
(* or past it.  CallInv keeps, for every frame, how its caller called it   *)
(* (Chain, Called), so that what throwException makes of its return        *)
(* address is a place of the calling instruction (At, AtCaller), where the *)
(* exception table says the same as at that instruction (HandlerAt).       *)
(***************************************************************************)
EXTENDS Frames, SequenceTheorems, WellFoundedInduction, TLAPS

\* Sequences whose elements are not of one type.

Everything(fs) == {fs[i] : i \in 1 .. Len(fs)}
IsSeq(fs) == fs \in Seq(Everything(fs))

IsFrame(f) ==
  /\ f = [method |-> f.method, at |-> f.at, previousIp |-> f.previousIp,
          previousSp |-> f.previousSp, syncObject |-> f.syncObject,
          stack |-> f.stack, lp |-> f.lp]
  /\ f.method \in Methods \cup Callbacks
  /\ f.previousSp \in Int /\ f.stack \in Nat /\ f.lp \in Nat

\* The last cell a frame may ever use.
Full(f) == StackPointer(f, Size(f.method).maxStack) + RESERVEDFORNATIVE

FrameFits(f, cs) == IsFrame(f) /\ f.stack \in 1 .. Len(cs) /\ Full(f) < cs[f.stack]

\* g was pushed when f was the last frame.
LeadsTo(f, g) ==
  /\ StackPointer(f, 0) <= g.previousSp
  /\ g.previousSp <= StackPointer(f, Size(f.method).maxStack)

\* f, with next above it, and g above that or the same as next.
Apart(f, next, g) ==
  /\ f.stack <= g.stack
  /\ f.stack = g.stack => next.previousSp < g.lp

\* The frames fs lie as they should in the chunks cs.
Sound(fs, cs) ==
  /\ IsSeq(fs) /\ cs \in Seq(Nat) /\ Len(cs) > 0
  /\ \A i \in 1 .. Len(fs) : FrameFits(fs[i], cs)
  /\ \A i \in 1 .. Len(fs) - 1 : LeadsTo(fs[i], fs[i + 1])
  /\ \A i \in 1 .. Len(fs) : \A j \in 1 .. i - 1 : Apart(fs[j], fs[j + 1], fs[i])

LEMMA SizeType ==
  ASSUME NEW m \in Methods \cup Callbacks
  PROVE  /\ Size(m).frameSize \in Nat /\ Size(m).argCount \in Nat /\ Size(m).maxStack \in Nat
         /\ Size(m).argCount <= Size(m).frameSize
<1>1. CASE m \in Methods  BY <1>1, MethodAssumption DEF Size
<1>2. CASE m \notin Methods  BY <1>2 DEF Size, RunCustomCode
<1> QED BY <1>1, <1>2

LEMMA PointerType ==
  ASSUME NEW f, IsFrame(f), NEW h \in Int
  PROVE  /\ StackPointer(f, h) = f.lp + Size(f.method).frameSize + 5 + h
         /\ Full(f) = f.lp + Size(f.method).frameSize + 8 + Size(f.method).maxStack
         /\ StackPointer(f, h) \in Int /\ Full(f) \in Int
BY SizeType DEF IsFrame, StackPointer, Fp, Full, SIZEOF_FRAME, RESERVEDFORNATIVE

LEMMA SeqOfItsElements ==
  ASSUME NEW S, NEW fs \in Seq(S)
  PROVE  IsSeq(fs)
BY DEF IsSeq, Everything

LEMMA AppendSeq ==
  ASSUME NEW fs, IsSeq(fs), NEW f
  PROVE  /\ IsSeq(Append(fs, f)) /\ Len(Append(fs, f)) = Len(fs) + 1
         /\ Append(fs, f)[Len(fs) + 1] = f
         /\ \A i \in 1 .. Len(fs) : Append(fs, f)[i] = fs[i]
<1> DEFINE S == Everything(fs) \cup {f}
<1>1. fs \in Seq(S)  BY DEF IsSeq
<1>2. f \in S  OBVIOUS
<1> HIDE DEF S
<1>3. Append(fs, f) \in Seq(S)  BY <1>1, <1>2
<1>4. IsSeq(Append(fs, f))  BY <1>3, SeqOfItsElements
<1>5. /\ Len(Append(fs, f)) = Len(fs) + 1
      /\ Append(fs, f)[Len(fs) + 1] = f
      /\ \A i \in 1 .. Len(fs) : Append(fs, f)[i] = fs[i]
  BY <1>1, <1>2
<1> QED BY <1>4, <1>5

LEMMA FrontSeq ==
  ASSUME NEW fs, IsSeq(fs), NEW n \in 0 .. Len(fs)
  PROVE  /\ IsSeq(SubSeq(fs, 1, n)) /\ Len(SubSeq(fs, 1, n)) = n
         /\ \A i \in 1 .. n : SubSeq(fs, 1, n)[i] = fs[i]
<1> DEFINE S == Everything(fs)
<1>1. fs \in Seq(S)  BY DEF IsSeq
<1> HIDE DEF S
<1>2. SubSeq(fs, 1, n) \in Seq(S)  BY <1>1
<1>3. IsSeq(SubSeq(fs, 1, n))  BY <1>2, SeqOfItsElements
<1>4. /\ Len(SubSeq(fs, 1, n)) = n
      /\ \A i \in 1 .. n : SubSeq(fs, 1, n)[i] = fs[i]
  BY <1>1
<1> QED BY <1>3, <1>4

\* What the steps do to a single frame.
Replaced(fs, n, f) == [fs EXCEPT ![n] = f]
Changed(f, v) == [f EXCEPT !.at = v]
Freed(f, v) == [f EXCEPT !.syncObject = v]

LEMMA ElementReplaced ==
  ASSUME NEW fs, IsSeq(fs), NEW n \in 1 .. Len(fs), NEW f
  PROVE  /\ IsSeq(Replaced(fs, n, f)) /\ Len(Replaced(fs, n, f)) = Len(fs)
         /\ \A i \in 1 .. Len(fs) : Replaced(fs, n, f)[i] = IF i = n THEN f ELSE fs[i]
<1> DEFINE S == Everything(fs) \cup {f}
           g == Replaced(fs, n, f)
<1>1. fs \in Seq(S)  BY DEF IsSeq
<1>2. f \in S  OBVIOUS
<1> HIDE DEF S
<1>3. /\ g \in Seq(S) /\ Len(g) = Len(fs)
      /\ \A i \in 1 .. Len(fs) : g[i] = IF i = n THEN f ELSE fs[i]
  BY <1>1, <1>2, ExceptSeq DEF Replaced
<1>4. IsSeq(g)  BY <1>3, SeqOfItsElements
<1> QED BY <1>3, <1>4

\* Two frames that lie in the same cells.
Same(a, b) ==
  a.method = b.method /\ a.previousSp = b.previousSp /\ a.stack = b.stack /\ a.lp = b.lp

LEMMA FieldChanged ==
  ASSUME NEW f, IsFrame(f), NEW v, NEW g \in {Changed(f, v), Freed(f, v)}
  PROVE  IsFrame(g) /\ Same(g, f)
<1> DEFINE F(a, o) == [method |-> f.method, at |-> a, previousIp |-> f.previousIp,
                       previousSp |-> f.previousSp, syncObject |-> o,
                       stack |-> f.stack, lp |-> f.lp]
<1>1. f = F(f.at, f.syncObject)  BY DEF IsFrame
<1>2. [F(f.at, f.syncObject) EXCEPT !.at = v] = F(v, f.syncObject)  OBVIOUS
<1>3. [F(f.at, f.syncObject) EXCEPT !.syncObject = v] = F(f.at, v)  OBVIOUS
<1>4. PICK a, o : g = F(a, o)
  <2>1. CASE g = Changed(f, v)  BY <1>1, <1>2, <2>1 DEF Changed
  <2>2. CASE g = Freed(f, v)  BY <1>1, <1>3, <2>2 DEF Freed
  <2> QED BY <2>1, <2>2
<1> QED BY <1>4 DEF IsFrame, Same

-----------------------------------------------------------------------------
\* Frames that change but for their place; fewer frames; one more frame.
LEMMA SameSound ==
  ASSUME NEW fs, NEW cs, Sound(fs, cs), NEW g, IsSeq(g), Len(g) = Len(fs),
         \A i \in 1 .. Len(fs) : IsFrame(g[i]) /\ Same(g[i], fs[i])
  PROVE  Sound(g, cs)
<1>1. Len(fs) \in Nat  BY DEF Sound, IsSeq
<1>2. ASSUME NEW i \in 1 .. Len(fs)  PROVE FrameFits(g[i], cs)
  BY DEF Sound, FrameFits, Same, Full, StackPointer, Fp
<1>3. ASSUME NEW i \in 1 .. Len(fs) - 1  PROVE LeadsTo(g[i], g[i + 1])
  <2>1. i \in 1 .. Len(fs) /\ i + 1 \in 1 .. Len(fs)  BY <1>1
  <2>2. LeadsTo(fs[i], fs[i + 1])  BY DEF Sound
  <2>3. Same(g[i], fs[i]) /\ Same(g[i + 1], fs[i + 1])  BY <2>1
  <2> QED BY <2>2, <2>3 DEF LeadsTo, Same, StackPointer, Fp
<1>4. ASSUME NEW i \in 1 .. Len(fs), NEW j \in 1 .. i - 1  PROVE Apart(g[j], g[j + 1], g[i])
  <2>1. j \in 1 .. Len(fs) /\ j + 1 \in 1 .. Len(fs)  BY <1>1
  <2>2. Apart(fs[j], fs[j + 1], fs[i])  BY DEF Sound
  <2>3. Same(g[j], fs[j]) /\ Same(g[j + 1], fs[j + 1]) /\ Same(g[i], fs[i])  BY <2>1
  <2> QED BY <2>2, <2>3 DEF Apart, Same
<1> QED BY <1>2, <1>3, <1>4 DEF Sound

LEMMA FieldSound ==
  ASSUME NEW fs, NEW cs, Sound(fs, cs), NEW n \in 1 .. Len(fs), NEW v,
         NEW f \in {Changed(fs[n], v), Freed(fs[n], v)}
  PROVE  Sound(Replaced(fs, n, f), cs) /\ Len(Replaced(fs, n, f)) = Len(fs)
<1> DEFINE g == Replaced(fs, n, f)
<1>1. IsSeq(fs)  BY DEF Sound
<1>2. /\ IsSeq(g) /\ Len(g) = Len(fs)
      /\ \A i \in 1 .. Len(fs) : g[i] = IF i = n THEN f ELSE fs[i]
  BY <1>1, ElementReplaced
<1> HIDE DEF g
<1>3. ASSUME NEW i \in 1 .. Len(fs)  PROVE IsFrame(g[i]) /\ Same(g[i], fs[i])
  <2>1. IsFrame(fs[i])  BY DEF Sound, FrameFits
  <2>2. CASE i = n
    <3>1. IsFrame(f) /\ Same(f, fs[i])  BY <2>1, <2>2, FieldChanged
    <3> QED BY <1>2, <2>2, <3>1
  <2>3. CASE i # n  BY <1>2, <2>1, <2>3 DEF Same
  <2> QED BY <2>2, <2>3
<1>4. Sound(g, cs)  BY <1>2, <1>3, SameSound
<1> QED BY <1>2, <1>4 DEF g

LEMMA NothingToMove ==
  ASSUME NEW pc
  PROVE  Moved(<<>>, pc) = <<>>
BY DEF Moved

LEMMA MovedSound ==
  ASSUME NEW fs, NEW cs, Sound(fs, cs), NEW pc
  PROVE  Sound(Moved(fs, pc), cs) /\ Len(Moved(fs, pc)) = Len(fs)
<1>1. CASE Len(fs) = 0
  <2>1. fs = <<>>  BY <1>1 DEF Sound, IsSeq
  <2> QED BY <2>1, NothingToMove
<1>2. CASE Len(fs) # 0
  <2>1. Len(fs) \in 1 .. Len(fs)  BY <1>2 DEF Sound, IsSeq
  <2>2. Moved(fs, pc) = Replaced(fs, Len(fs), Changed(fs[Len(fs)], pc))
    BY DEF Moved, Replaced, Changed
  <2> QED BY <2>1, <2>2, FieldSound
<1> QED BY <1>1, <1>2

LEMMA PrefixSound ==
  ASSUME NEW fs, NEW cs, Sound(fs, cs), NEW n \in 0 .. Len(fs)
  PROVE  Sound(SubSeq(fs, 1, n), cs) /\ Len(SubSeq(fs, 1, n)) = n
<1> DEFINE g == SubSeq(fs, 1, n)
<1>1. IsSeq(g) /\ Len(g) = n /\ \A i \in 1 .. n : g[i] = fs[i]
  BY FrontSeq DEF Sound
<1>2. Len(fs) \in Nat  BY DEF Sound, IsSeq
<1> HIDE DEF g
<1>3. ASSUME NEW i \in 1 .. n  PROVE FrameFits(g[i], cs)
  BY <1>1, <1>2, SMTT(60) DEF Sound
<1>4. ASSUME NEW i \in 1 .. n - 1  PROVE LeadsTo(g[i], g[i + 1])
  <2>1. g[i] = fs[i] /\ g[i + 1] = fs[i + 1] /\ i \in 1 .. Len(fs) - 1  BY <1>1, <1>2
  <2> QED BY <2>1 DEF Sound
<1>5. ASSUME NEW i \in 1 .. n, NEW j \in 1 .. i - 1  PROVE Apart(g[j], g[j + 1], g[i])
  <2>1. g[i] = fs[i] /\ g[j] = fs[j] /\ g[j + 1] = fs[j + 1] /\ i \in 1 .. Len(fs)
    BY <1>1, <1>2
  <2> QED BY <2>1 DEF Sound
<1>6. Sound(g, cs)  BY <1>1, <1>3, <1>4, <1>5 DEF Sound
<1> QED BY <1>1, <1>6 DEF g

LEMMA WithoutLockSound ==
  ASSUME NEW fs, NEW cs, Sound(fs, cs), NEW n \in 1 .. Len(fs)
  PROVE  Sound(WithoutLock(fs, n), cs) /\ Len(WithoutLock(fs, n)) = Len(fs)
<1>1. WithoutLock(fs, n) = Replaced(fs, n, Freed(fs[n], NoObject))
  BY DEF WithoutLock, Replaced, Freed
<1> QED BY <1>1, FieldSound

-----------------------------------------------------------------------------
LEMMA AppendSound ==
  ASSUME NEW fs, NEW cs, Sound(fs, cs), Len(fs) > 0,
         NEW ds \in Seq(Nat), Last(fs).stack <= Len(ds),
         \A k \in 1 .. Last(fs).stack : ds[k] = cs[k],
         NEW f, FrameFits(f, ds), LeadsTo(Last(fs), f),
         \/ f.stack = Last(fs).stack /\ f.lp = f.previousSp + 1
         \/ f.stack = Last(fs).stack + 1
  PROVE  Sound(Append(fs, f), ds)
<1> DEFINE L == Len(fs)
           n == fs[L].stack
           g == Append(fs, f)
<1>1. L \in Nat /\ L \in 1 .. L /\ Last(fs) = fs[L]  BY DEF Sound, IsSeq, Last
<1>2. IsSeq(g) /\ Len(g) = L + 1 /\ g[L + 1] = f /\ \A i \in 1 .. L : g[i] = fs[i]
  BY AppendSeq DEF Sound
<1>3. ASSUME NEW i \in 1 .. L
      PROVE  /\ IsFrame(fs[i]) /\ fs[i].stack \in 1 .. Len(cs) /\ fs[i].stack <= n
             /\ Full(fs[i]) < cs[fs[i].stack] /\ fs[i].previousSp \in Int
  <2>1. FrameFits(fs[i], cs) /\ FrameFits(fs[L], cs)  BY <1>1 DEF Sound
  <2>2. CASE i = L  BY <2>1, <2>2 DEF FrameFits, IsFrame
  <2>3. CASE i # L
    <3>1. Apart(fs[i], fs[i + 1], fs[L])  BY <1>1, <2>3 DEF Sound
    <3> QED BY <2>1, <3>1 DEF FrameFits, IsFrame, Apart
  <2> QED BY <2>2, <2>3
<1>0. n \in 1 .. Len(cs) /\ Len(cs) \in Nat /\ Len(ds) \in Nat /\ n <= Len(ds)
  <2>1. fs[L].stack \in 1 .. Len(cs)  BY <1>1, <1>3
  <2>2. cs \in Seq(Nat)  BY DEF Sound
  <2> QED BY <1>1, <2>1, <2>2
<1> HIDE DEF g
<1>4. ASSUME NEW i \in 1 .. L + 1  PROVE FrameFits(g[i], ds)
  <2>1. CASE i = L + 1  BY <1>2, <2>1
  <2>2. CASE i \in 1 .. L
    <3>0. fs[i].stack \in 1 .. Len(cs) /\ fs[i].stack <= n  BY <1>3, <2>2
    <3>1. fs[i].stack \in 1 .. n /\ fs[i].stack \in 1 .. Len(ds)
      BY <1>0, <3>0
    <3>2. ds[fs[i].stack] = cs[fs[i].stack]  BY <1>1, <3>1
    <3> QED BY <1>2, <1>3, <2>2, <3>1, <3>2 DEF FrameFits
  <2> QED BY <1>1, <2>1, <2>2
<1>5. ASSUME NEW i \in 1 .. L  PROVE LeadsTo(g[i], g[i + 1])
  <2>1. CASE i = L  BY <1>1, <1>2, <2>1
  <2>2. CASE i # L
    <3>1. i \in 1 .. L - 1 /\ i + 1 \in 1 .. L  BY <1>1, <2>2
    <3>2. LeadsTo(fs[i], fs[i + 1])  BY <3>1 DEF Sound
    <3> QED BY <1>2, <3>1, <3>2
  <2> QED BY <2>1, <2>2
<1>6. ASSUME NEW i \in 1 .. L + 1, NEW j \in 1 .. i - 1  PROVE Apart(g[j], g[j + 1], g[i])
  <2>1. j \in 1 .. L /\ g[j] = fs[j]  BY <1>1, <1>2
  <2>2. CASE i # L + 1
    <3>1. i \in 1 .. L /\ j + 1 \in 1 .. L  BY <1>1, <2>2
    <3>2. Apart(fs[j], fs[j + 1], fs[i])  BY <3>1 DEF Sound
    <3> QED BY <1>2, <2>1, <3>1, <3>2
  <2>3. CASE i = L + 1
    <3>1. fs[j].stack \in Nat /\ n \in Nat /\ fs[j].stack <= n  BY <1>1, <1>3, <2>1 DEF IsFrame
    <3>2. fs[j].stack <= f.stack  BY <1>1, <3>1
    <3>3. ASSUME fs[j].stack = f.stack  PROVE g[j + 1].previousSp < f.lp
      <4>1. f.stack = n /\ f.lp = f.previousSp + 1  BY <1>1, <3>1, <3>3
      <4>2. f.previousSp \in Int  BY DEF FrameFits, IsFrame
      <4>3. CASE j = L  BY <1>2, <4>1, <4>2, <4>3
      <4>4. CASE j # L
        <5>1. j \in 1 .. L - 1 /\ j + 1 \in 1 .. L  BY <1>1, <2>1, <4>4
        <5>2. Apart(fs[j], fs[j + 1], fs[L])  BY <1>1, <5>1 DEF Sound
        <5>3. fs[j + 1].previousSp < fs[L].lp  BY <3>3, <4>1, <5>2 DEF Apart
        <5>4. StackPointer(fs[L], 0) <= f.previousSp  BY <1>1 DEF LeadsTo
        <5>5. IsFrame(fs[L])  BY <1>1, <1>3
        <5>6. StackPointer(fs[L], 0) = fs[L].lp + Size(fs[L].method).frameSize + 5
          <6> DEFINE h == fs[L]
          <6>1. IsFrame(h)  BY <5>5
          <6> HIDE DEF h
          <6>2. StackPointer(h, 0) = h.lp + Size(h.method).frameSize + 5 + 0
            BY <6>1, PointerType
          <6>3. h.lp + Size(h.method).frameSize + 5 + 0 = h.lp + Size(h.method).frameSize + 5
            BY <6>1, SizeType DEF IsFrame
          <6> QED BY <6>2, <6>3 DEF h
        <5>7. fs[L].method \in Methods \cup Callbacks /\ fs[L].lp \in Nat  BY <5>5 DEF IsFrame
        <5>8. Size(fs[L].method).frameSize \in Nat  BY <5>7, SizeType
        <5>9. fs[L].lp <= f.previousSp
          BY ONLY <4>2, <5>4, <5>6, <5>7, <5>8
        <5>10. fs[j + 1].previousSp \in Int /\ g[j + 1] = fs[j + 1]  BY <1>2, <1>3, <5>1
        <5> QED BY <4>1, <4>2, <5>3, <5>7, <5>9, <5>10
      <4> QED BY <4>3, <4>4
    <3> QED BY <1>2, <2>1, <2>3, <3>2, <3>3 DEF Apart
  <2> QED BY <2>2, <2>3
<1>7. Len(ds) > 0  BY <1>0
<1>8. Sound(g, ds)  BY <1>1, <1>2, <1>4, <1>5, <1>6, <1>7 DEF Sound
<1> QED BY <1>8 DEF g
-----------------------------------------------------------------------------
LEMMA MaxPair ==
  ASSUME NEW a \in Nat, NEW b \in Nat
  PROVE  Max({a, b}) \in Nat /\ a <= Max({a, b}) /\ b <= Max({a, b})
<1> DEFINE Is(x) == x \in {a, b} /\ \A y \in {a, b} : x >= y
<1>1. \E x : Is(x)
  <2>1. CASE a >= b  BY <2>1
  <2>2. CASE b >= a  BY <2>2
  <2> QED BY <2>1, <2>2
<1>2. Is(CHOOSE x : Is(x))  BY <1>1
<1>3. Max({a, b}) = CHOOSE x : Is(x)  BY DEF Max
<1>4. Is(Max({a, b}))  BY <1>2, <1>3
<1> QED BY <1>4

\* Where PushFrame puts the frame, and the chunks there are then.
Pair(fs, cs) == [frames |-> fs, chunks |-> cs]
SameChunk(m, sp, resume, n) == Frame(m, resume, sp - Size(m).argCount, n, sp - Size(m).argCount + 1)
OtherChunk(m, sp, resume, n) == Frame(m, resume, sp - Size(m).argCount, n + 1, 0)
Enlarged(m, cs, n) == NextChunk(cs, n, Height(m) + Size(m).argCount)

LEMMA FrameShape ==
  ASSUME NEW m \in Methods \cup Callbacks, NEW resume, NEW prev \in Int, NEW n \in Nat,
         NEW lp \in Nat, NEW f, f = Frame(m, resume, prev, n, lp)
  PROVE  /\ IsFrame(f) /\ f.method = m /\ f.previousSp = prev /\ f.stack = n /\ f.lp = lp
         /\ Full(f) = lp + Size(m).frameSize + 8 + Size(m).maxStack
<1>1. /\ IsFrame(f) /\ f.method = m /\ f.previousSp = prev /\ f.stack = n /\ f.lp = lp
  BY DEF Frame, IsFrame
<1> QED BY <1>1, PointerType

LEMMA HeightType ==
  ASSUME NEW m \in Methods \cup Callbacks
  PROVE  Height(m) = Size(m).frameSize - Size(m).argCount + Size(m).maxStack + 9
<1> DEFINE a == Size(m).frameSize
           b == Size(m).argCount
           c == Size(m).maxStack
<1>1. a \in Nat /\ b \in Nat /\ c \in Nat  BY SizeType
<1>2. Height(m) = a - b + c + 6 + 3  BY DEF Height, SIZEOF_FRAME, RESERVEDFORNATIVE
<1> HIDE DEF a, b, c
<1>3. a - b + c + 6 + 3 = a - b + c + 9  BY <1>1
<1> QED BY <1>2, <1>3 DEF a, b, c

\* The two branches of pushFrame (frame.c:167, 184).
LEMMA SameChunkFits ==
  ASSUME NEW cs \in Seq(Nat), NEW n \in 1 .. Len(cs), NEW m \in Methods \cup Callbacks,
         NEW sp \in Int, sp - Size(m).argCount >= -1, NEW resume,
         FitsChunk(sp, Height(m), cs[n]),
         NEW f, f = SameChunk(m, sp, resume, n)
  PROVE  /\ FrameFits(f, cs) /\ f.previousSp = sp - Size(m).argCount
         /\ f.stack = n /\ f.lp = f.previousSp + 1
<1> DEFINE prev == sp - Size(m).argCount
           lp == prev + 1
<1>1. /\ Size(m).frameSize \in Nat /\ Size(m).argCount \in Nat /\ Size(m).maxStack \in Nat
  BY SizeType
<1>2. prev \in Int /\ lp \in Nat /\ n \in Nat /\ cs[n] \in Nat  BY <1>1, SMTT(60)
<1>3. f = Frame(m, resume, prev, n, lp)  BY DEF SameChunk
<1>4. lp + Size(m).frameSize + 8 + Size(m).maxStack < cs[n]
  <2> DEFINE a == Size(m).frameSize
             b == Size(m).argCount
             c == Size(m).maxStack
             h == Height(m)
             size == cs[n]
  <2>1. a \in Nat /\ b \in Nat /\ c \in Nat /\ size \in Nat  BY <1>1, <1>2
  <2>2. h = a - b + c + 9  BY HeightType
  <2>3. sp + h < size  BY DEF FitsChunk
  <2>4. lp = sp - b + 1  OBVIOUS
  <2> HIDE DEF a, b, c, h, size, lp
  <2>5. lp + a + 8 + c < size  BY <2>1, <2>2, <2>3, <2>4
  <2> QED BY <2>5 DEF a, c, size
<1> HIDE DEF prev, lp
<1>5. /\ IsFrame(f) /\ f.previousSp = prev /\ f.stack = n /\ f.lp = lp
      /\ Full(f) = lp + Size(m).frameSize + 8 + Size(m).maxStack
  BY <1>2, <1>3, FrameShape
<1>6. FrameFits(f, cs)  BY <1>4, <1>5 DEF FrameFits
<1> QED BY <1>5, <1>6 DEF prev, lp

LEMMA NextChunkFits ==
  ASSUME NEW cs \in Seq(Nat), NEW n \in 1 .. Len(cs), NEW height \in Nat
  PROVE  LET ds == NextChunk(cs, n, height) IN
         /\ ds \in Seq(Nat) /\ n + 1 \in 1 .. Len(ds) /\ height <= ds[n + 1]
         /\ \A k \in 1 .. n : ds[k] = cs[k]
<1>1. CASE n < Len(cs) /\ height <= cs[n + 1]  BY <1>1 DEF NextChunk
<1>2. CASE ~(n < Len(cs) /\ height <= cs[n + 1])
  <2> DEFINE size == Max({height, STACKCHUNKSIZE})
             head == SubSeq(cs, 1, n)
  <2>1. STACKCHUNKSIZE \in Nat  BY DEF STACKCHUNKSIZE
  <2>2. size \in Nat /\ height <= size  BY <2>1, MaxPair
  <2>3. head \in Seq(Nat) /\ Len(head) = n /\ \A k \in 1 .. n : head[k] = cs[k]  OBVIOUS
  <2>4. NextChunk(cs, n, height) = Append(head, size)  BY <1>2 DEF NextChunk
  <2> HIDE DEF size, head
  <2>5. /\ Append(head, size) \in Seq(Nat) /\ Len(Append(head, size)) = n + 1
        /\ Append(head, size)[n + 1] = size
        /\ \A k \in 1 .. n : Append(head, size)[k] = head[k]
    BY <2>2, <2>3
  <2> QED BY <2>2, <2>3, <2>4, <2>5
<1> QED BY <1>1, <1>2

LEMMA OtherChunkFits ==
  ASSUME NEW cs \in Seq(Nat), NEW n \in 1 .. Len(cs), NEW m \in Methods \cup Callbacks,
         NEW sp \in Int, NEW resume
  PROVE  /\ Enlarged(m, cs, n) \in Seq(Nat) /\ n <= Len(Enlarged(m, cs, n))
         /\ \A k \in 1 .. n : Enlarged(m, cs, n)[k] = cs[k]
         /\ FrameFits(OtherChunk(m, sp, resume, n), Enlarged(m, cs, n))
         /\ OtherChunk(m, sp, resume, n).previousSp = sp - Size(m).argCount
         /\ OtherChunk(m, sp, resume, n).stack = n + 1
<1> DEFINE f == OtherChunk(m, sp, resume, n)
           ds == Enlarged(m, cs, n)
<1> DEFINE prev == sp - Size(m).argCount
           height == Height(m) + Size(m).argCount
<1>1. /\ Size(m).frameSize \in Nat /\ Size(m).argCount \in Nat /\ Size(m).maxStack \in Nat
      /\ Size(m).argCount <= Size(m).frameSize
  BY SizeType
<1>2. prev \in Int /\ height \in Nat /\ height = Size(m).frameSize + Size(m).maxStack + 9
  <2> DEFINE a == Size(m).frameSize
             b == Size(m).argCount
             c == Size(m).maxStack
  <2>1. a \in Nat /\ b \in Nat /\ c \in Nat  BY <1>1
  <2>2. height = a - b + c + 9 + b /\ prev = sp - b  BY HeightType
  <2> HIDE DEF a, b, c, height, prev
  <2>3. prev \in Int /\ height \in Nat /\ height = a + c + 9  BY <2>1, <2>2
  <2> QED BY <2>3 DEF a, c
<1>3. f = Frame(m, resume, prev, n + 1, 0)  BY DEF OtherChunk
<1>4. ds = NextChunk(cs, n, height)  BY DEF Enlarged
<1> HIDE DEF prev, height, f, ds
<1>5. /\ ds \in Seq(Nat) /\ n + 1 \in 1 .. Len(ds) /\ height <= ds[n + 1]
      /\ \A k \in 1 .. n : ds[k] = cs[k]
  BY <1>2, <1>4, NextChunkFits
<1>6. /\ IsFrame(f) /\ f.previousSp = prev /\ f.stack = n + 1
      /\ Full(f) = 0 + Size(m).frameSize + 8 + Size(m).maxStack
  BY <1>2, <1>3, FrameShape
<1>7. n <= Len(ds) /\ ds[n + 1] \in Nat  BY <1>5
<1>8. Full(f) < ds[f.stack]
  <2> DEFINE a == Size(m).frameSize
             c == Size(m).maxStack
             size == ds[n + 1]
  <2>1. a \in Nat /\ c \in Nat /\ size \in Nat  BY <1>1, <1>7
  <2>2. Full(f) = 0 + a + 8 + c /\ a + c + 9 <= size /\ ds[f.stack] = size
    BY <1>2, <1>5, <1>6
  <2> HIDE DEF a, c, size
  <2> QED BY <2>1, <2>2
<1>9. FrameFits(f, ds)  BY <1>5, <1>6, <1>8 DEF FrameFits
<1> QED BY <1>5, <1>6, <1>7, <1>9 DEF prev, f, ds

\* A pointer that leaves the arguments of m among the operands of f.
Between(f, sp, m) ==
  /\ sp \in Int /\ StackPointer(f, 0) <= sp - Size(m).argCount
  /\ sp - Size(m).argCount <= StackPointer(f, Size(f.method).maxStack)

\* pushFrame puts the new frame where it does not disturb the others.
LEMMA PushSound ==
  ASSUME NEW fs, NEW cs, Sound(fs, cs), Len(fs) > 0,
         NEW m \in Methods \cup Callbacks, NEW sp, Between(Last(fs), sp, m), NEW resume
  PROVE  LET s == PushFrame(Pair(fs, cs), m, sp, resume)
         IN  /\ s = Pair(s.frames, s.chunks) /\ Sound(s.frames, s.chunks)
             /\ Len(s.frames) = Len(fs) + 1
             /\ \A i \in 1 .. Len(fs) : s.frames[i] = fs[i]
             /\ Last(s.frames).method = m
<1> DEFINE s == PushFrame(Pair(fs, cs), m, sp, resume)
           n == Last(fs).stack
<1>1. fs # <<>> /\ IsSeq(fs) /\ Len(fs) \in 1 .. Len(fs) /\ Last(fs) = fs[Len(fs)] /\ cs \in Seq(Nat)
  BY DEF Sound, IsSeq, Last
<1>2. IsFrame(Last(fs)) /\ n \in 1 .. Len(cs)  BY <1>1 DEF Sound, FrameFits
<1>3. sp \in Int /\ sp - Size(m).argCount >= -1
  <2>1. StackPointer(Last(fs), 0) = Last(fs).lp + Size(Last(fs).method).frameSize + 5 + 0
    BY <1>2, PointerType
  <2>2. Last(fs).lp \in Nat /\ Size(Last(fs).method).frameSize \in Nat /\ Size(m).argCount \in Nat
    BY <1>2, SizeType DEF IsFrame
  <2> QED BY <2>1, <2>2 DEF Between
<1>4. ASSUME NEW f, f.previousSp = sp - Size(m).argCount  PROVE LeadsTo(Last(fs), f)
  BY <1>4 DEF LeadsTo, Between
<1>5. CASE FitsChunk(sp, Height(m), cs[n])
  <2> DEFINE f == SameChunk(m, sp, resume, n)
  <2>1. s = Pair(Append(fs, f), cs)  BY <1>1, <1>5 DEF PushFrame, Pair, SameChunk
  <2>2. f.method = m  BY DEF SameChunk, Frame
  <2> HIDE DEF f
  <2>3. /\ FrameFits(f, cs) /\ f.previousSp = sp - Size(m).argCount
        /\ f.stack = n /\ f.lp = f.previousSp + 1
    BY <1>1, <1>2, <1>3, <1>5, SameChunkFits DEF f
  <2>4. Sound(Append(fs, f), cs)
    <3>1. n <= Len(cs)  BY <1>1, <1>2
    <3> QED BY <1>1, <1>4, <2>3, <3>1, AppendSound
  <2>5. /\ Len(Append(fs, f)) = Len(fs) + 1 /\ Append(fs, f)[Len(fs) + 1] = f
        /\ \A i \in 1 .. Len(fs) : Append(fs, f)[i] = fs[i]
    BY <1>1, AppendSeq
  <2>6. s.frames = Append(fs, f) /\ s.chunks = cs  BY <2>1 DEF Pair
  <2> QED BY <2>1, <2>2, <2>4, <2>5, <2>6 DEF Last
<1>6. CASE ~FitsChunk(sp, Height(m), cs[n])
  <2> DEFINE f == OtherChunk(m, sp, resume, n)
             ds == Enlarged(m, cs, n)
  <2>1. s = Pair(Append(fs, f), ds)
    BY <1>1, <1>6 DEF PushFrame, Pair, OtherChunk, Enlarged
  <2>2. f.method = m  BY DEF OtherChunk, Frame
  <2> HIDE DEF f, ds
  <2>3. /\ ds \in Seq(Nat) /\ n <= Len(ds) /\ \A k \in 1 .. n : ds[k] = cs[k]
        /\ FrameFits(f, ds) /\ f.previousSp = sp - Size(m).argCount /\ f.stack = n + 1
    <3>1. f = OtherChunk(m, sp, resume, n) /\ ds = Enlarged(m, cs, n)  BY DEF f, ds
    <3>2. cs \in Seq(Nat) /\ n \in 1 .. Len(cs) /\ sp \in Int  BY <1>1, <1>2, <1>3
    <3>3. /\ Enlarged(m, cs, n) \in Seq(Nat) /\ n <= Len(Enlarged(m, cs, n))
          /\ \A k \in 1 .. n : Enlarged(m, cs, n)[k] = cs[k]
          /\ FrameFits(OtherChunk(m, sp, resume, n), Enlarged(m, cs, n))
          /\ OtherChunk(m, sp, resume, n).previousSp = sp - Size(m).argCount
          /\ OtherChunk(m, sp, resume, n).stack = n + 1
      <4> HIDE DEF n
      <4> QED BY <3>2, OtherChunkFits
    <3> QED BY <3>1, <3>3
  <2>4. Sound(Append(fs, f), ds)  BY <1>1, <1>4, <2>3, AppendSound
  <2>5. /\ Len(Append(fs, f)) = Len(fs) + 1 /\ Append(fs, f)[Len(fs) + 1] = f
        /\ \A i \in 1 .. Len(fs) : Append(fs, f)[i] = fs[i]
    BY <1>1, AppendSeq
  <2>6. s.frames = Append(fs, f) /\ s.chunks = ds  BY <2>1 DEF Pair
  <2> QED BY <2>1, <2>2, <2>4, <2>5, <2>6 DEF Last
<1> QED BY <1>5, <1>6
-----------------------------------------------------------------------------
LEMMA LastIsFrame ==
  ASSUME NEW fs, NEW cs, Sound(fs, cs), Len(fs) > 0
  PROVE  /\ fs # <<>> /\ IsSeq(fs) /\ cs \in Seq(Nat)
         /\ Len(fs) \in 1 .. Len(fs) /\ Last(fs) = fs[Len(fs)]
         /\ IsFrame(Last(fs)) /\ Last(fs).stack \in 1 .. Len(cs)
<1>1. fs # <<>> /\ IsSeq(fs) /\ Len(fs) \in 1 .. Len(fs) /\ Last(fs) = fs[Len(fs)] /\ cs \in Seq(Nat)
  BY DEF Sound, IsSeq, Last
<1>2. IsFrame(Last(fs)) /\ Last(fs).stack \in 1 .. Len(cs)  BY <1>1 DEF Sound, FrameFits
<1> QED BY <1>1, <1>2

LEMMA OverflowedPair ==
  ASSUME NEW fs, NEW cs
  PROVE  Overflowed(Pair(fs, cs)) = Pair(fs, SubSeq(cs, 1, Last(fs).stack))
<1> DEFINE ds == SubSeq(cs, 1, Last(fs).stack)
           s == Pair(fs, cs)
<1>1. s.frames = fs /\ s.chunks = cs  BY DEF Pair
<1>2. [s EXCEPT !.chunks = ds] = Pair(fs, ds)
  <2> HIDE DEF ds
  <2> QED BY DEF Pair
<1> HIDE DEF s
<1>3. Overflowed(s) = [s EXCEPT !.chunks = ds]  BY <1>1 DEF Overflowed
<1> QED BY <1>2, <1>3 DEF s

\* pushFrame finds no memory: the chunks after that of the last frame are dropped.
LEMMA OverflowedSound ==
  ASSUME NEW fs, NEW cs, Sound(fs, cs), Len(fs) > 0
  PROVE  /\ Overflowed(Pair(fs, cs)) = Pair(fs, SubSeq(cs, 1, Last(fs).stack))
         /\ Sound(fs, SubSeq(cs, 1, Last(fs).stack))
<1> DEFINE n == Last(fs).stack
           ds == SubSeq(cs, 1, n)
<1>1. Overflowed(Pair(fs, cs)) = Pair(fs, ds)  BY OverflowedPair
<1>2. /\ Len(fs) \in 1 .. Len(fs) /\ Last(fs) = fs[Len(fs)] /\ cs \in Seq(Nat)
      /\ n \in 1 .. Len(cs)
  BY LastIsFrame
<1>3. ds \in Seq(Nat) /\ Len(ds) = n /\ \A k \in 1 .. n : ds[k] = cs[k]  BY <1>2
<1> HIDE DEF n, ds
<1>4. ASSUME NEW i \in 1 .. Len(fs)  PROVE FrameFits(fs[i], ds)
  <2>1. FrameFits(fs[i], cs) /\ FrameFits(fs[Len(fs)], cs)  BY <1>2 DEF Sound
  <2>2. fs[i].stack \in 1 .. Len(cs)  BY <2>1 DEF FrameFits
  <2>3. fs[i].stack <= n
    <3>1. CASE i = Len(fs)  BY <1>2, <3>1 DEF n
    <3>2. CASE i # Len(fs)
      <4>1. i \in 1 .. Len(fs) - 1  BY <1>2, <3>2
      <4>2. Apart(fs[i], fs[i + 1], fs[Len(fs)])  BY <1>2, <4>1 DEF Sound
      <4> QED BY <1>2, <4>2 DEF Apart, n
    <3> QED BY <3>1, <3>2
  <2>4. fs[i].stack \in 1 .. n  BY <1>2, <2>2, <2>3
  <2> QED BY <1>3, <2>1, <2>4 DEF FrameFits
<1>5. Sound(fs, ds)  BY <1>2, <1>3, <1>4 DEF Sound
<1> QED BY <1>1, <1>5 DEF n, ds

\* h operands, among which the arguments of m are.
LEMMA BetweenOperands ==
  ASSUME NEW f, IsFrame(f), NEW m \in Methods \cup Callbacks,
         NEW h \in Nat, Size(m).argCount <= h, h <= Size(f.method).maxStack
  PROVE  Between(f, StackPointer(f, h), m)
<1> DEFINE a == Size(m).argCount
           b == Size(f.method).maxStack
           p == f.lp + Size(f.method).frameSize + 5
<1>1. f.method \in Methods \cup Callbacks /\ f.lp \in Nat  BY DEF IsFrame
<1>2. a \in Nat /\ b \in Nat /\ p \in Int  BY <1>1, SizeType
<1>3. \A k \in Int : StackPointer(f, k) = p + k  BY PointerType
<1>4. a <= h /\ h <= b  OBVIOUS
<1> HIDE DEF a, b, p
<1>5. StackPointer(f, 0) = p /\ StackPointer(f, h) = p + h /\ StackPointer(f, b) = p + b
  BY <1>2, <1>3
<1>6. /\ StackPointer(f, h) \in Int /\ StackPointer(f, 0) <= StackPointer(f, h) - a
      /\ StackPointer(f, h) - a <= StackPointer(f, b)
  BY <1>2, <1>4, <1>5
<1> QED BY <1>6 DEF Between, a, b

LEMMA PushOperands ==
  ASSUME NEW fs, NEW cs, Sound(fs, cs), Len(fs) > 0, NEW m \in Methods \cup Callbacks,
         NEW h \in Nat, Size(m).argCount <= h, h <= Size(Last(fs).method).maxStack, NEW resume
  PROVE  LET s == PushFrame(Pair(fs, cs), m, StackPointer(Last(fs), h), resume)
         IN  /\ s = Pair(s.frames, s.chunks) /\ Sound(s.frames, s.chunks)
             /\ Len(s.frames) = Len(fs) + 1
             /\ \A i \in 1 .. Len(fs) : s.frames[i] = fs[i]
             /\ Last(s.frames).method = m
<1> DEFINE sp == StackPointer(Last(fs), h)
<1>1. Between(Last(fs), sp, m)  BY LastIsFrame, BetweenOperands
<1> HIDE DEF sp
<1>2. LET s == PushFrame(Pair(fs, cs), m, sp, resume)
      IN  /\ s = Pair(s.frames, s.chunks) /\ Sound(s.frames, s.chunks)
          /\ Len(s.frames) = Len(fs) + 1
          /\ \A i \in 1 .. Len(fs) : s.frames[i] = fs[i]
          /\ Last(s.frames).method = m
  BY <1>1, PushSound
<1> QED BY <1>2 DEF sp

\* initThreadBehavior: the frame of the run method.
LEMMA FirstFrameSound ==
  ASSUME NEW m \in Methods \cup Callbacks, NEW resume
  PROVE  LET s == PushFrame(Pair(<<>>, <<STACKCHUNKSIZE>>), m, Size(m).argCount - 1, resume)
         IN  s = Pair(s.frames, s.chunks) /\ Sound(s.frames, s.chunks) /\ Len(s.frames) = 1
<1> DEFINE cs == <<STACKCHUNKSIZE>>
           sp == Size(m).argCount - 1
           s == PushFrame(Pair(<<>>, cs), m, sp, resume)
<1>1. Size(m).argCount \in Nat  BY SizeType
<1>2. sp \in Int /\ sp - Size(m).argCount >= -1  BY <1>1
<1>3. cs \in Seq(Nat) /\ 1 \in 1 .. Len(cs)  BY DEF STACKCHUNKSIZE
<1> HIDE DEF cs, sp
<1>4. ASSUME NEW f, NEW ds \in Seq(Nat), FrameFits(f, ds)  PROVE Sound(<<f>>, ds)
  <2>1. <<f>> \in Seq({f}) /\ Len(<<f>>) = 1 /\ <<f>>[1] = f  OBVIOUS
  <2>2. IsSeq(<<f>>)  BY <2>1, SeqOfItsElements
  <2>3. Len(ds) > 0  BY <1>4 DEF FrameFits
  <2>4. \A i \in 1 .. 1 : FrameFits(<<f>>[i], ds)  BY <1>4, <2>1
  <2>5. /\ \A i \in 1 .. 1 - 1 : LeadsTo(<<f>>[i], <<f>>[i + 1])
        /\ \A i \in 1 .. 1 : \A j \in 1 .. i - 1 : Apart(<<f>>[j], <<f>>[j + 1], <<f>>[i])
    OBVIOUS
  <2> QED BY <2>1, <2>2, <2>3, <2>4, <2>5 DEF Sound
<1>5. ASSUME FitsChunk(sp, Height(m), cs[1])
      PROVE  s = Pair(s.frames, s.chunks) /\ Sound(s.frames, s.chunks) /\ Len(s.frames) = 1
  <2> DEFINE f == SameChunk(m, sp, resume, 1)
  <2>1. s = Pair(Append(<<>>, f), cs)  BY <1>5 DEF PushFrame, Pair, SameChunk
  <2>2. FrameFits(f, cs)  BY <1>2, <1>3, <1>5, SameChunkFits
  <2> HIDE DEF f
  <2>3. s = Pair(<<f>>, cs)  BY <2>1
  <2> HIDE DEF s
  <2>4. Sound(<<f>>, cs)  BY <1>3, <1>4, <2>2
  <2>5. Len(<<f>>) = 1  OBVIOUS
  <2> QED BY <2>3, <2>4, <2>5 DEF Pair
<1>6. ASSUME ~FitsChunk(sp, Height(m), cs[1])
      PROVE  s = Pair(s.frames, s.chunks) /\ Sound(s.frames, s.chunks) /\ Len(s.frames) = 1
  <2> DEFINE f == OtherChunk(m, sp, resume, 1)
             ds == Enlarged(m, cs, 1)
  <2>1. s = Pair(Append(<<>>, f), ds)  BY <1>6 DEF PushFrame, Pair, OtherChunk, Enlarged
  <2>2. ds \in Seq(Nat) /\ FrameFits(f, ds)  BY <1>2, <1>3, OtherChunkFits
  <2> HIDE DEF f, ds
  <2>3. s = Pair(<<f>>, ds)  BY <2>1
  <2> HIDE DEF s
  <2>4. Sound(<<f>>, ds)  BY <1>4, <2>2
  <2>5. Len(<<f>>) = 1  OBVIOUS
  <2> QED BY <2>3, <2>4, <2>5 DEF Pair
<1> HIDE DEF s
<1>7. s = Pair(s.frames, s.chunks) /\ Sound(s.frames, s.chunks) /\ Len(s.frames) = 1
  BY <1>5, <1>6
<1> QED BY <1>7 DEF s, cs, sp

-----------------------------------------------------------------------------
\* throwException stays within the frames, whichever of them it has dropped.
Inv ==
  /\ Sound(frames, chunks)
  /\ throw = [exception |-> throw.exception, fp |-> throw.fp, ip |-> throw.ip,
              correction |-> throw.correction]
  /\ throw.fp \in 0 .. Len(frames)

\* The invariant is as strong as the property.
LEMMA FitIsSound == Inv => FramesFit
<1> SUFFICES ASSUME Inv PROVE FramesFit  OBVIOUS
<1>1. Sound(frames, chunks) /\ Len(frames) \in Nat /\ DOMAIN frames = 1 .. Len(frames)
  BY DEF Inv, Sound, IsSeq
<1>2. DOMAIN chunks = 1 .. Len(chunks) /\ chunks \in Seq(Nat)  BY <1>1 DEF Sound
<1>3. ASSUME NEW i \in 1 .. Len(frames)
      PROVE  /\ frames[i].stack \in DOMAIN chunks
             /\ 0 <= FirstCell(i) /\ LastCell(i) < chunks[frames[i].stack]
             /\ Fp(frames[i]) + SIZEOF_FRAME - 1 <= LastCell(i)
  <2> DEFINE f == frames[i]
             size == chunks[f.stack]
             a == Size(f.method).frameSize
             b == Size(f.method).maxStack
  <2>1. FrameFits(f, chunks)  BY <1>1 DEF Sound
  <2>2. IsFrame(f) /\ f.stack \in 1 .. Len(chunks) /\ Full(f) < size  BY <2>1 DEF FrameFits
  <2>3. f.lp \in Nat /\ f.method \in Methods \cup Callbacks  BY <2>2 DEF IsFrame
  <2>4. size \in Nat /\ a \in Nat /\ b \in Nat  BY <1>2, <2>2, <2>3, SizeType
  <2>5. \A k \in Int : StackPointer(f, k) = f.lp + a + 5 + k
    <3> HIDE DEF f
    <3> QED BY <2>2, PointerType
  <2>6. Full(f) = f.lp + a + 8 + b
    <3> HIDE DEF f
    <3> QED BY <2>2, PointerType
  <2>7. Fp(f) + SIZEOF_FRAME - 1 = f.lp + a + 5
    <3>1. Fp(f) = f.lp + a  BY DEF Fp
    <3> HIDE DEF f, a
    <3> QED BY <2>3, <2>4, <3>1 DEF SIZEOF_FRAME
  <2>8. f.lp + a + 5 <= LastCell(i) /\ LastCell(i) <= Full(f)
    <3>1. CASE i < Len(frames)
      <4> DEFINE g == frames[i + 1]
      <4>1. i \in 1 .. Len(frames) - 1 /\ i + 1 \in 1 .. Len(frames)  BY <1>1, <3>1
      <4>2. LeadsTo(f, g) /\ IsFrame(g)  BY <1>1, <4>1 DEF Sound, FrameFits
      <4>3. g.previousSp \in Int  BY <4>2 DEF IsFrame
      <4>4. StackPointer(f, 0) <= g.previousSp /\ g.previousSp <= StackPointer(f, b)
        BY <4>2 DEF LeadsTo
      <4>5. LastCell(i) = g.previousSp  BY <3>1 DEF LastCell
      <4> HIDE DEF f, g, a, b
      <4>6. StackPointer(f, 0) = f.lp + a + 5 + 0 /\ StackPointer(f, b) = f.lp + a + 5 + b
        BY <2>4, <2>5
      <4> QED BY <2>3, <2>4, <2>6, <4>3, <4>4, <4>5, <4>6, SMTT(60)
    <3>2. CASE ~(i < Len(frames))
      <4>1. LastCell(i) = Full(f)  BY <3>2 DEF LastCell, Full
      <4> HIDE DEF f, a, b
      <4> QED BY <2>3, <2>4, <2>6, <4>1
    <3> QED BY <3>1, <3>2
  <2>9. LastCell(i) \in Int
    <3>1. CASE i < Len(frames)
      <4>1. i + 1 \in 1 .. Len(frames)  BY <1>1, <3>1
      <4>2. IsFrame(frames[i + 1])  BY <1>1, <4>1 DEF Sound, FrameFits
      <4> QED BY <3>1, <4>2 DEF LastCell, IsFrame
    <3>2. CASE ~(i < Len(frames))
      <4>1. LastCell(i) = Full(f)  BY <3>2 DEF LastCell, Full
      <4> QED BY <2>2, <4>1, PointerType
    <3> QED BY <3>1, <3>2
  <2>10. FirstCell(i) = f.lp  BY DEF FirstCell
  <2>11. LastCell(i) < size
    <3> HIDE DEF f, a, b, size
    <3> QED BY <2>2, <2>3, <2>4, <2>6, <2>8, <2>9
  <2>12. 0 <= FirstCell(i)  BY <2>3, <2>10
  <2> QED BY <1>2, <2>2, <2>7, <2>8, <2>11, <2>12
<1>4. ASSUME NEW i \in 1 .. Len(frames), NEW j \in 1 .. i - 1,
             frames[j].stack = frames[i].stack
      PROVE  LastCell(j) < FirstCell(i)
  <2>1. j < Len(frames)  BY <1>1
  <2>2. Apart(frames[j], frames[j + 1], frames[i])  BY <1>1 DEF Sound
  <2> QED BY <1>4, <2>1, <2>2 DEF Apart, LastCell, FirstCell
<1> QED BY <1>1, <1>3, <1>4 DEF FramesFit

-----------------------------------------------------------------------------
(* Each kind of step keeps Inv.                                            *)
LEMMA CalmStep ==
  ASSUME Sound(frames', chunks'), throw' = NoThrow
  PROVE  Inv'
<1>1. Len(frames') \in Nat  BY DEF Sound, IsSeq
<1>2. 0 \in 0 .. Len(frames')  BY <1>1
<1> QED BY <1>2 DEF Inv, NoThrow

LEMMA ThrowStep ==
  ASSUME Sound(frames', chunks'), NEW pc, NEW e, NEW native,
         throw' = Thrown(Len(frames'), pc, e, native)
  PROVE  Inv'
<1>1. Len(frames') \in Nat  BY DEF Sound, IsSeq
<1>2. Len(frames') \in 0 .. Len(frames')  BY <1>1
<1> QED BY <1>2 DEF Inv, Thrown

LEMMA EmptySound ==
  ASSUME NEW fs, NEW cs, Sound(fs, cs)
  PROVE  Sound(<<>>, cs)
<1>1. Len(fs) \in Nat  BY DEF Sound, IsSeq
<1>2. 0 \in 0 .. Len(fs) /\ SubSeq(fs, 1, 0) = <<>>  BY <1>1 DEF Sound, IsSeq
<1> QED BY <1>2, PrefixSound

LEMMA Running ==
  ASSUME Inv, Runs
  PROVE  Sound(frames, chunks) /\ throw = NoThrow /\ Len(frames) > 0
<1>1. Sound(frames, chunks) /\ throw = NoThrow /\ frames # <<>>  BY DEF Inv, Runs
<1>2. frames \in Seq(Everything(frames))  BY <1>1 DEF Sound, IsSeq
<1>3. Len(frames) > 0  BY <1>1, <1>2
<1> QED BY <1>1, <1>3

LEMMA PushedStep ==
  ASSUME Inv, Runs, NEW m \in Methods \cup Callbacks, NEW h \in Nat,
         Size(m).argCount <= h, h <= Size(Top.method).maxStack, NEW resume,
         Pushed(m, h, resume)
  PROVE  Inv'
<1> DEFINE s == PushFrame(This, m, StackPointer(Top, h), resume)
<1>1. Sound(frames, chunks) /\ throw = NoThrow /\ Len(frames) > 0  BY Running
<1>2. Sound(s.frames, s.chunks)
  <2>1. This = Pair(frames, chunks) /\ Top = Last(frames)  BY DEF This, Pair, Top
  <2> QED BY <1>1, <2>1, PushOperands
<1> HIDE DEF s
<1>3. frames' = s.frames /\ chunks' = s.chunks /\ throw' = throw  BY DEF Pushed, Becomes, s
<1> QED BY <1>1, <1>2, <1>3, CalmStep

LEMMA OverflowStep ==
  ASSUME Inv, Runs, NEW m, NEW h, NEW pc, NEW native, StackOverflow(m, h, pc, native)
  PROVE  Inv'
<1>1. Sound(frames, chunks) /\ throw = NoThrow /\ Len(frames) > 0  BY Running
<1> DEFINE cs == SubSeq(chunks, 1, Last(frames).stack)
<1>2. Overflowed(This) = Pair(frames, cs) /\ Sound(frames, cs)
  BY <1>1, OverflowedSound DEF This, Pair
<1> HIDE DEF cs
<1>3. frames' = frames /\ chunks' = cs  BY <1>2 DEF StackOverflow, Becomes, Pair
<1>4. throw' = Thrown(Len(frames'), pc, OutOfMemory, native)  BY <1>3 DEF StackOverflow
<1> QED BY <1>2, <1>3, <1>4, ThrowStep

LEMMA PushesStep ==
  ASSUME Inv, Runs, NEW m \in Methods \cup Callbacks, NEW h \in Nat,
         Size(m).argCount <= h, h <= Size(Top.method).maxStack, NEW resume, NEW pc, NEW native,
         PushesOrOverflows(m, h, resume, pc, native)
  PROVE  Inv'
BY PushedStep, OverflowStep DEF PushesOrOverflows

LEMMA OperandsType ==
  ASSUME Inv, Runs, NEW n \in Nat, NEW h \in Operands(n)
  PROVE  h \in Nat /\ n <= h /\ h <= Size(Top.method).maxStack
<1>1. Sound(frames, chunks) /\ Len(frames) > 0  BY Running
<1>2. IsFrame(Top)  BY <1>1, LastIsFrame DEF Top
<1>3. Size(Top.method).maxStack \in Nat  BY <1>2, SizeType DEF IsFrame
<1> QED BY <1>3 DEF Operands

\* The last frame goes on, ends, or is put right.
LEMMA MovedStep ==
  ASSUME Inv, throw = NoThrow, NEW pc, frames' = Moved(frames, pc), chunks' = chunks, throw' = throw
  PROVE  Inv'
<1>1. Sound(Moved(frames, pc), chunks)  BY MovedSound DEF Inv
<1> QED BY <1>1, CalmStep

LEMMA FrontSound ==
  ASSUME Inv, Runs
  PROVE  Sound(Front(frames), chunks)
<1>1. Sound(frames, chunks) /\ Len(frames) > 0  BY Running
<1>2. Len(frames) \in Nat  BY <1>1 DEF Sound, IsSeq
<1>3. Len(frames) - 1 \in 0 .. Len(frames)  BY <1>1, <1>2
<1> QED BY <1>1, <1>3, PrefixSound DEF Front

LEMMA PopStep ==
  ASSUME Inv, Runs, PopFrame, chunks' = chunks, throw' = throw
  PROVE  Inv'
<1>1. throw = NoThrow  BY Running
<1>2. Sound(Moved(Front(frames), Top.previousIp), chunks)  BY FrontSound, MovedSound
<1>3. Sound(frames', chunks')  BY <1>2 DEF PopFrame
<1> QED BY <1>1, <1>3, CalmStep

-----------------------------------------------------------------------------
(* One lemma per action.                                                   *)
LEMMA TakesLockStep == Inv /\ TakesLock => Inv'
<1> SUFFICES ASSUME Inv, TakesLock PROVE Inv'  OBVIOUS
<1>1. Runs  BY DEF TakesLock, InCustomCode
<1>2. throw = NoThrow /\ Sound(Front(frames), chunks)  BY <1>1, Running, FrontSound
<1>3. frames' = Front(frames) /\ chunks' = chunks  BY DEF TakesLock
<1>4. throw' = throw \/ throw' = Thrown(Len(frames'), ip', OutOfMemory, FALSE)  BY DEF TakesLock
<1> QED BY <1>2, <1>3, <1>4, CalmStep, ThrowStep

LEMMA GoToStep ==
  ASSUME Inv, Runs, NEW pc, GoTo(pc), chunks' = chunks, throw' = throw
  PROVE  Inv'
<1>1. throw = NoThrow  BY Running
<1> QED BY <1>1, MovedStep DEF GoTo

LEMMA JumpStep == Inv /\ Jump => Inv'
BY GoToStep DEF Jump, InJava

LEMMA GoOnStep == Inv /\ GoOn => Inv'
BY GoToStep DEF GoOn, InJava

LEMMA MonitorStep ==
  ASSUME Inv, NEW o \in Objects, Monitor(o)
  PROVE  Inv'
<1>1. Runs /\ chunks' = chunks  BY DEF Monitor, InJava
<1>2. Sound(frames, chunks) /\ throw = NoThrow  BY <1>1, Running
<1>3. CASE frames' = Moved(frames, NextIp) /\ throw' = throw  BY <1>1, <1>2, <1>3, MovedStep
<1>4. ASSUME NEW e, throw' = Thrown(Len(frames), NextIp, e, FALSE), frames' = frames  PROVE Inv'
  BY <1>1, <1>2, <1>4, ThrowStep
<1> QED BY <1>3, <1>4 DEF Monitor

LEMMA RaiseStep ==
  ASSUME Inv, NEW e \in Raised, Raise(e)
  PROVE  Inv'
<1>1. Runs /\ chunks' = chunks /\ frames' = frames  BY DEF Raise, InJava
<1>2. Sound(frames, chunks)  BY <1>1, Running
<1>3. throw' = Thrown(Len(frames'), ip', e, ip' # ip)  BY <1>1 DEF Raise
<1> QED BY <1>1, <1>2, <1>3, ThrowStep

LEMMA MethodSize ==
  ASSUME NEW m \in Methods
  PROVE  m \in Methods \cup Callbacks /\ Size(m) = Code[m] /\ Code[m].argCount \in Nat
<1>1. Size(m) = Code[m]  BY DEF Size
<1>2. Size(m).argCount \in Nat  BY SizeType
<1> QED BY <1>1, <1>2

LEMMA CallbackSize ==
  ASSUME NEW c \in Callbacks
  PROVE  c \in Methods \cup Callbacks /\ Size(c).argCount = 0 /\ Size(c).maxStack = 4
BY MethodAssumption DEF Size, RunCustomCode

LEMMA InvokeStep ==
  ASSUME Inv, NEW m \in Methods, Invoke(m)
  PROVE  Inv'
<1>1. Runs  BY DEF Invoke, InJava
<1>2. PICK h \in Operands(Code[m].argCount) : PushesOrOverflows(m, h, NextIp, ip, FALSE)
  BY DEF Invoke
<1>3. m \in Methods \cup Callbacks /\ Size(m) = Code[m] /\ Code[m].argCount \in Nat
  BY MethodSize
<1>4. h \in Nat /\ Code[m].argCount <= h /\ h <= Size(Top.method).maxStack
  BY <1>1, <1>3, OperandsType
<1> QED BY <1>1, <1>2, <1>3, <1>4, PushesStep

LEMMA PushedToLockStep ==
  ASSUME Inv, Runs, NEW m \in Methods, NEW o \in Objects,
         NEW h \in Operands(Code[m].argCount), PushedToLock(m, o, h)
  PROVE  Inv'
<1>2. Sound(frames, chunks) /\ Len(frames) > 0 /\ throw = NoThrow  BY Running
<1>3. m \in Methods \cup Callbacks /\ Size(m) = Code[m] /\ Code[m].argCount \in Nat
  BY MethodSize
<1> DEFINE s == PushFrame(This, m, StackPointer(Top, h), NextIp)
           n == Len(s.frames)
<1>5. h \in Nat /\ Code[m].argCount <= h /\ h <= Size(Top.method).maxStack
  BY <1>3, OperandsType
<1>6. Sound(s.frames, s.chunks) /\ n = Len(frames) + 1
  <2>1. This = Pair(frames, chunks) /\ Top = Last(frames)  BY DEF This, Pair, Top
  <2> QED BY <1>2, <1>3, <1>5, <2>1, PushOperands
<1>7. /\ chunks' = s.chunks
      /\ \/ frames' = [s.frames EXCEPT ![n].syncObject = o] /\ throw' = throw
         \/ frames' = Moved(s.frames, NotBegun) /\ throw' = Thrown(n, 0, OutOfMemory, FALSE)
  BY DEF PushedToLock
<1> HIDE DEF s
<1>8. n \in 1 .. n  BY <1>2, <1>6 DEF Sound, IsSeq
<1>9. CASE frames' = [s.frames EXCEPT ![n].syncObject = o] /\ throw' = throw
  <2>1. frames' = Replaced(s.frames, n, Freed(s.frames[n], o))  BY <1>9 DEF Replaced, Freed
  <2>2. Sound(frames', chunks')  BY <1>6, <1>7, <1>8, <2>1, FieldSound
  <2> QED BY <1>2, <1>9, <2>2, CalmStep
<1>10. CASE frames' = Moved(s.frames, NotBegun) /\ throw' = Thrown(n, 0, OutOfMemory, FALSE)
  <2>1. Sound(frames', chunks') /\ Len(frames') = n  BY <1>6, <1>7, <1>10, MovedSound
  <2> QED BY <1>10, <2>1, ThrowStep
<1> QED BY <1>7, <1>9, <1>10

LEMMA InvokeSynchronizedStep ==
  ASSUME Inv, NEW m \in Methods, NEW o \in Objects, InvokeSynchronized(m, o)
  PROVE  Inv'
<1>1. Runs  BY DEF InvokeSynchronized, InJava
<1>2. PICK h \in Operands(Code[m].argCount) :
        PushedToLock(m, o, h) \/ StackOverflow(m, h, ip, FALSE)
  BY DEF InvokeSynchronized
<1>3. CASE PushedToLock(m, o, h)  BY <1>1, <1>3, PushedToLockStep
<1>4. CASE StackOverflow(m, h, ip, FALSE)
  <2>1. PushesOrOverflows(m, h, NextIp, ip, FALSE)  BY <1>4 DEF PushesOrOverflows
  <2>2. m \in Methods \cup Callbacks /\ Size(m) = Code[m] /\ Code[m].argCount \in Nat
    BY MethodSize
  <2>3. h \in Nat /\ Code[m].argCount <= h /\ h <= Size(Top.method).maxStack
    BY <1>1, <2>2, OperandsType
  <2> QED BY <1>1, <2>1, <2>2, <2>3, PushesStep
<1> QED BY <1>2, <1>3, <1>4

LEMMA SleepStep == Inv /\ Sleep => Inv'
<1> SUFFICES ASSUME Inv, Sleep PROVE Inv'  OBVIOUS
<1>1. Runs /\ frames' = frames /\ chunks' = chunks /\ throw' = throw  BY DEF Sleep, InJava
<1>2. Sound(frames, chunks) /\ throw = NoThrow  BY <1>1, Running
<1> QED BY <1>1, <1>2, CalmStep

LEMMA WakeStep == Inv /\ Wake => Inv'
<1> SUFFICES ASSUME Inv, Wake PROVE Inv'  OBVIOUS
<1>1. Sound(frames, chunks) /\ chunks' = chunks  BY DEF Inv, Wake
<1>2. CASE frames' = Moved(frames, ip) /\ throw' = throw
  <2>1. Sound(frames', chunks') /\ Len(frames') = Len(frames)  BY <1>1, <1>2, MovedSound
  <2> QED BY <1>2, <2>1 DEF Inv
<1>3. CASE throw' = Thrown(Len(frames), ip, Interrupted, FALSE) /\ frames' = frames
  BY <1>1, <1>3, ThrowStep
<1> QED BY <1>2, <1>3 DEF Wake

LEMMA NewInstanceStep ==
  ASSUME Inv, NEW m \in Methods, NewInstance(m)
  PROVE  Inv'
<1> DEFINE c == "newInstanceReturnObject"
<1>1. Runs /\ Code[m].argCount = 1  BY DEF NewInstance, InJava
<1>2. Sound(frames, chunks) /\ Len(frames) > 0 /\ throw = NoThrow  BY <1>1, Running
<1>3. m \in Methods \cup Callbacks /\ Size(m).argCount = 1  BY <1>1, MethodSize
<1>4. c \in Methods \cup Callbacks /\ Size(c).argCount = 0 /\ Size(c).maxStack = 4
  BY CallbackSize DEF Callbacks
<1>5. PICK h \in Operands(1) :
        LET callback == PushFrame(This, "newInstanceReturnObject", StackPointer(Top, h), NextIp)
            sp == StackPointer(Last(callback.frames), 2)
        IN  \/ /\ Becomes(PushFrame(callback, m, sp, 0))
               /\ throw' = throw
            \/ /\ LET s == Overflowed(callback) IN
                  Becomes([s EXCEPT !.frames = Moved(@, NotBegun)])
               /\ throw' = Thrown(Len(callback.frames), 0, OutOfMemory, TRUE)
  BY DEF NewInstance
<1> DEFINE callback == PushFrame(This, c, StackPointer(Top, h), NextIp)
           fs == callback.frames
           cs == callback.chunks
           s == PushFrame(callback, m, StackPointer(Last(fs), 2), 0)
           over == Overflowed(callback)
<1>6. h \in Nat /\ 0 <= h /\ h <= Size(Top.method).maxStack  BY <1>1, OperandsType
<1>7. callback = Pair(fs, cs) /\ Sound(fs, cs) /\ Len(fs) > 0 /\ Last(fs).method = c
  <2>1. This = Pair(frames, chunks) /\ Top = Last(frames)  BY DEF This, Pair, Top
  <2>2. /\ callback = Pair(fs, cs) /\ Sound(fs, cs) /\ Len(fs) = Len(frames) + 1
        /\ Last(fs).method = c
    <3> HIDE DEF c
    <3> QED BY <1>2, <1>4, <1>6, <2>1, PushOperands
  <2>3. Len(frames) \in Nat  BY <1>2 DEF Sound, IsSeq
  <2> QED BY <1>2, <2>2, <2>3
<1>8. \/ Becomes(s) /\ throw' = throw
      \/ /\ Becomes([over EXCEPT !.frames = Moved(@, NotBegun)])
         /\ throw' = Thrown(Len(fs), 0, OutOfMemory, TRUE)
  BY <1>5
<1> HIDE DEF c, callback
<1>9. CASE Becomes(s) /\ throw' = throw
  <2>1. s = PushFrame(Pair(fs, cs), m, StackPointer(Last(fs), 2), 0)  BY <1>7
  <2>2. Size(m).argCount <= 2 /\ 2 <= Size(Last(fs).method).maxStack  BY <1>3, <1>4, <1>7
  <2> HIDE DEF fs, cs
  <2>3. Sound(s.frames, s.chunks)  BY <1>3, <1>7, <2>1, <2>2, PushOperands
  <2> QED BY <1>2, <1>9, <2>3, CalmStep DEF Becomes
<1>10. CASE /\ Becomes([over EXCEPT !.frames = Moved(@, NotBegun)])
            /\ throw' = Thrown(Len(fs), 0, OutOfMemory, TRUE)
  <2> DEFINE ds == SubSeq(cs, 1, Last(fs).stack)
  <2>1. over = Pair(fs, ds) /\ Sound(fs, ds)  BY <1>7, OverflowedSound
  <2> HIDE DEF fs, ds, over
  <2>2. [over EXCEPT !.frames = Moved(@, NotBegun)] = Pair(Moved(fs, NotBegun), ds)
    BY <2>1 DEF Pair
  <2>3. frames' = Moved(fs, NotBegun) /\ chunks' = ds  BY <1>10, <2>2 DEF Becomes, Pair
  <2>4. Sound(frames', chunks') /\ Len(frames') = Len(fs)  BY <2>1, <2>3, MovedSound
  <2> QED BY <1>10, <2>4, ThrowStep
<1> QED BY <1>8, <1>9, <1>10

LEMMA NewInstanceOverflowsStep == Inv /\ NewInstanceOverflows => Inv'
BY OverflowStep DEF NewInstanceOverflows, InJava

LEMMA InitializeClassStep == Inv /\ InitializeClass => Inv'
<1> SUFFICES ASSUME Inv, InitializeClass PROVE Inv'  OBVIOUS
<1> DEFINE c == "runClinit"
<1>1. Runs  BY DEF InitializeClass, InJava
<1>2. c \in Methods \cup Callbacks /\ Size(c).argCount = 0  BY CallbackSize DEF Callbacks
<1>3. PICK h \in Operands(0) : \/ PushesOrOverflows(c, h, ip, ip, FALSE)
                               \/ PushesOrOverflows(c, h, NextIp, NextIp, TRUE)
  BY DEF InitializeClass
<1>4. h \in Nat /\ 0 <= h /\ h <= Size(Top.method).maxStack  BY <1>1, OperandsType
<1> HIDE DEF c
<1> QED BY <1>1, <1>2, <1>3, <1>4, PushesStep

LEMMA RunClinitStep == Inv /\ RunClinit => Inv'
<1> SUFFICES ASSUME Inv, RunClinit PROVE Inv'  OBVIOUS
<1> DEFINE c == "runClinit"
<1>1. Runs /\ Top.method = c  BY DEF RunClinit, InCustomCode
<1>2. c \in Methods \cup Callbacks /\ Size(c).argCount = 0 /\ Size(c).maxStack = 4
  BY CallbackSize DEF Callbacks
<1>3. 3 \in Nat /\ 3 <= Size(Top.method).maxStack /\ Size(c).argCount <= 3  BY <1>1, <1>2
<1>4. CASE PushesOrOverflows(c, 3, 0, 0, FALSE)
  <2> HIDE DEF c
  <2> QED BY <1>1, <1>2, <1>3, <1>4, PushesStep
<1>5. ASSUME NEW m \in Methods, Code[m].argCount = 0, PushesOrOverflows(m, 3, 0, 0, FALSE)
      PROVE  Inv'
  <2>1. m \in Methods \cup Callbacks /\ Size(m).argCount = 0  BY <1>5, MethodSize
  <2>2. Size(m).argCount <= 3  BY <2>1
  <2> QED BY <1>1, <1>3, <1>5, <2>1, <2>2, PushesStep
<1> QED BY <1>4, <1>5 DEF RunClinit

LEMMA CustomCodeEndsStep == Inv /\ CustomCodeEnds => Inv'
BY PopStep DEF CustomCodeEnds, InCustomCode

LEMMA ReturnStep == Inv /\ Return => Inv'
<1> SUFFICES ASSUME Inv, Return PROVE Inv'  OBVIOUS
<1>1. Runs /\ chunks' = chunks  BY DEF Return, InJava
<1>2. Sound(frames, chunks) /\ throw = NoThrow  BY <1>1, Running
<1>3. CASE throw' = throw /\ frames' = <<>>
  <2>1. Sound(frames', chunks')  BY <1>1, <1>2, <1>3, EmptySound
  <2> QED BY <1>2, <1>3, <2>1, CalmStep
<1>4. CASE throw' = throw /\ PopFrame  BY <1>1, <1>4, PopStep
<1>5. CASE throw' = Thrown(Len(frames), ip, IllegalMonitorState, FALSE) /\ frames' = frames
  BY <1>1, <1>2, <1>5, ThrowStep
<1> QED BY <1>3, <1>4, <1>5 DEF Return

LEMMA FailsStep ==
  ASSUME Inv, Fails, chunks' = chunks
  PROVE  Inv'
<1>1. Sound(frames, chunks)  BY DEF Inv
<1>2. CASE throw' = Thrown(Len(frames), ip, OutOfMemory, FALSE) /\ frames' = frames
  BY <1>1, <1>2, ThrowStep
<1>3. CASE frames' = <<>> /\ throw' = NoThrow
  <2>1. Sound(frames', chunks')  BY <1>1, <1>3, EmptySound
  <2> QED BY <1>3, <2>1, CalmStep
<1> QED BY <1>2, <1>3 DEF Fails

LEMMA CatchStep == Inv /\ Catch => Inv'
<1> SUFFICES ASSUME Inv, Catch PROVE Inv'  OBVIOUS
<1>1. Sound(frames, chunks) /\ throw.fp \in 0 .. Len(frames) /\ chunks' = chunks
  BY DEF Inv, Catch
<1>2. CASE frames' = Moved(SubSeq(frames, 1, throw.fp), ip') /\ throw' = NoThrow
  <2>1. Sound(SubSeq(frames, 1, throw.fp), chunks)  BY <1>1, PrefixSound
  <2>2. Sound(frames', chunks')  BY <1>1, <1>2, <2>1, MovedSound
  <2> QED BY <1>2, <2>2, CalmStep
<1>3. CASE Fails  BY <1>1, <1>3, FailsStep
<1> QED BY <1>2, <1>3 DEF Catch

LEMMA UnwindStep == Inv /\ Unwind => Inv'
<1> SUFFICES ASSUME Inv, Unwind PROVE Inv'  OBVIOUS
<1>1. /\ Sound(frames, chunks) /\ Len(frames) \in Nat /\ chunks' = chunks
      /\ throw = [exception |-> throw.exception, fp |-> throw.fp, ip |-> throw.ip,
                  correction |-> throw.correction]
      /\ throw.fp \in 1 .. Len(frames)
  BY DEF Inv, Unwind, Unwinds, Sound, IsSeq
<1>2. ASSUME NEW e, NEW pc, NEW correction, frames' = WithoutLock(frames, throw.fp),
             throw' = [throw EXCEPT !.exception = e, !.fp = @ - 1, !.ip = pc,
                                    !.correction = correction]
      PROVE  Inv'
  <2>1. Sound(frames', chunks') /\ Len(frames') = Len(frames)
    BY <1>1, <1>2, WithoutLockSound
  <2>2. throw' = [exception |-> e, fp |-> throw.fp - 1, ip |-> pc, correction |-> correction]
    BY <1>1, <1>2
  <2>3. throw.fp - 1 \in 0 .. Len(frames')  BY <1>1, <2>1
  <2> QED BY <2>1, <2>2, <2>3 DEF Inv
<1>3. CASE Fails  BY <1>1, <1>3, FailsStep
<1> QED BY <1>2, <1>3 DEF Unwind

LEMMA RestartOnErrorStep == Inv /\ RestartOnError => Inv'
<1> SUFFICES ASSUME Inv, RestartOnError PROVE Inv'  OBVIOUS
<1> DEFINE n == throw.fp
           fs == SubSeq(frames, 1, n)
<1>1. /\ Sound(frames, chunks) /\ Len(frames) \in Nat /\ chunks' = chunks
      /\ throw = [exception |-> throw.exception, fp |-> n, ip |-> throw.ip,
                  correction |-> throw.correction]
      /\ n \in 1 .. Len(frames)
  BY DEF Inv, RestartOnError, Unwinds, Sound, IsSeq
<1>2. frames' = WithoutLock(fs, n) /\ throw' = [throw EXCEPT !.exception = IllegalMonitorState]
  BY DEF RestartOnError
<1>3. Sound(fs, chunks) /\ Len(fs) = n  BY <1>1, PrefixSound
<1>4. n \in 1 .. n  BY <1>1
<1> HIDE DEF fs, n
<1>5. Sound(frames', chunks') /\ Len(frames') = n
  BY <1>1, <1>2, <1>3, <1>4, WithoutLockSound
<1>6. throw' = [exception |-> IllegalMonitorState, fp |-> n, ip |-> throw.ip,
                correction |-> throw.correction]
  BY <1>1, <1>2
<1>7. n \in 0 .. n  BY <1>4
<1> QED BY <1>5, <1>6, <1>7 DEF Inv

LEMMA UncaughtStep == Inv /\ Uncaught => Inv'
<1> SUFFICES ASSUME Inv, Uncaught PROVE Inv'  OBVIOUS
<1>1. Sound(frames, chunks) /\ chunks' = chunks /\ frames' = <<>> /\ throw' = NoThrow
  BY DEF Inv, Uncaught
<1>2. Sound(frames', chunks')  BY <1>1, EmptySound
<1> QED BY <1>1, <1>2, CalmStep

LEMMA StutterStep == Inv /\ UNCHANGED vars => Inv'
BY DEF Inv, vars

-----------------------------------------------------------------------------
LEMMA InitSound == Init => Inv
<1> SUFFICES ASSUME Init PROVE Inv  OBVIOUS
<1> DEFINE c == "initThreadBehavior"
<1>1. PICK m \in ThreadBodies, o \in Objects :
       LET run == PushFrame([frames |-> <<>>, chunks |-> <<STACKCHUNKSIZE>>],
                            m, Code[m].argCount - 1, KILLTHREAD)
           synchronized == [run EXCEPT !.frames[1].syncObject = o]
           start == IF Code[m].sync
                    THEN PushFrame(synchronized, "initThreadBehavior",
                                   StackPointer(run.frames[1], 0), 0)
                    ELSE run
       IN  frames = start.frames /\ chunks = start.chunks
  BY DEF Init
<1> DEFINE run == PushFrame([frames |-> <<>>, chunks |-> <<STACKCHUNKSIZE>>],
                            m, Code[m].argCount - 1, KILLTHREAD)
           fs == run.frames
           cs == run.chunks
           f == Freed(fs[1], o)
           synchronized == [run EXCEPT !.frames[1].syncObject = o]
           start == PushFrame(synchronized, c, StackPointer(fs[1], 0), 0)
<1>2. m \in Methods \cup Callbacks /\ Size(m) = Code[m]  BY MethodAssumption, MethodSize
<1>3. run = Pair(fs, cs) /\ Sound(fs, cs) /\ Len(fs) = 1
  BY <1>2, FirstFrameSound DEF Pair
<1>4. c \in Methods \cup Callbacks /\ Size(c).argCount = 0  BY CallbackSize DEF Callbacks
<1>5. \/ frames = fs /\ chunks = cs
      \/ frames = start.frames /\ chunks = start.chunks
  BY <1>1
<1>6. Sound(start.frames, start.chunks)
  <2> DEFINE gs == Replaced(fs, 1, f)
  <2>1. synchronized = Pair(gs, cs)
    <3> HIDE DEF run
    <3>1. run = Pair(run.frames, run.chunks)  BY <1>3
    <3> QED BY <3>1 DEF Pair, Replaced, Freed
  <2>2. Sound(gs, cs) /\ Len(gs) = 1
    <3> HIDE DEF fs, cs
    <3>1. 1 \in 1 .. Len(fs)
      <4> HIDE DEF fs
      <4> QED BY <1>3
    <3> QED BY <1>3, <3>1, FieldSound
  <2>3. IsFrame(fs[1])
    <3>1. 1 \in 1 .. Len(fs)
      <4> HIDE DEF fs
      <4> QED BY <1>3
    <3> HIDE DEF fs, cs
    <3> QED BY <1>3, <3>1 DEF Sound, FrameFits
  <2>4. Last(gs) = f
    <3> HIDE DEF fs, cs, f
    <3>1. 1 \in 1 .. Len(fs) /\ IsSeq(fs)  BY <1>3 DEF Sound
    <3>2. gs[1] = f  BY <3>1, ElementReplaced
    <3> HIDE DEF gs
    <3> QED BY <2>2, <3>2 DEF Last
  <2>5. Same(f, fs[1]) /\ IsFrame(f)
    <3> HIDE DEF fs
    <3> QED BY <2>3, FieldChanged
  <2>6. StackPointer(fs[1], 0) = StackPointer(f, 0)
    <3> HIDE DEF fs, f
    <3> QED BY <2>5 DEF Same, StackPointer, Fp
  <2>7. 0 \in Nat /\ Size(c).argCount <= 0 /\ 0 <= Size(f.method).maxStack
    <3> HIDE DEF f, c
    <3> QED BY <1>4, <2>5, SizeType DEF IsFrame
  <2>8. start = PushFrame(Pair(gs, cs), c, StackPointer(Last(gs), 0), 0)
    BY <2>1, <2>4, <2>6
  <2> HIDE DEF gs, cs, c, start, f
  <2>9. Len(gs) > 0 /\ 0 <= Size(Last(gs).method).maxStack  BY <2>2, <2>4, <2>7
  <2>10. /\ Sound(PushFrame(Pair(gs, cs), c, StackPointer(Last(gs), 0), 0).frames,
                 PushFrame(Pair(gs, cs), c, StackPointer(Last(gs), 0), 0).chunks)
    BY <1>4, <2>2, <2>7, <2>9, PushOperands
  <2> QED BY <2>8, <2>10
<1> HIDE DEF run, start, c
<1>7. Sound(frames, chunks)  BY <1>3, <1>5, <1>6
<1>8. throw = NoThrow  BY DEF Init
<1>9. Len(frames) \in Nat  BY <1>7 DEF Sound, IsSeq
<1> QED BY <1>7, <1>8, <1>9 DEF Inv, NoThrow

LEMMA NextSound == Inv /\ [Next]_vars => Inv'
<1> SUFFICES ASSUME Inv, [Next]_vars PROVE Inv'  OBVIOUS
<1>1. CASE \/ TakesLock \/ Jump \/ GoOn \/ Sleep \/ Wake \/ Return
           \/ NewInstanceOverflows \/ InitializeClass \/ RunClinit \/ CustomCodeEnds
  BY <1>1, TakesLockStep, JumpStep, GoOnStep, SleepStep, WakeStep, ReturnStep,
     NewInstanceOverflowsStep, InitializeClassStep, RunClinitStep, CustomCodeEndsStep
<1>2. CASE \E o \in Objects : Monitor(o) \/ \E m \in Methods : InvokeSynchronized(m, o)
  BY <1>2, MonitorStep, InvokeSynchronizedStep
<1>3. CASE \E m \in Methods : Invoke(m) \/ NewInstance(m)  BY <1>3, InvokeStep, NewInstanceStep
<1>4. CASE \E e \in Raised : Raise(e)  BY <1>4, RaiseStep
<1>5. CASE ThrowException
  BY <1>5, CatchStep, UnwindStep, RestartOnErrorStep, UncaughtStep DEF ThrowException
<1>6. CASE UNCHANGED vars  BY <1>6, StutterStep
<1> QED BY <1>1, <1>2, <1>3, <1>4, <1>5, <1>6 DEF Next

\* Whatever a thread calls, returns from and throws, each of its frames lies
\* within a chunk that is still linked, with room for its operands, and no
\* frame overlaps another (pushFrame, frame.c:166).
THEOREM FramesAlwaysFit == Spec => []FramesFit
<1>1. Init => Inv  BY InitSound
<1>2. Inv /\ [Next]_vars => Inv'  BY NextSound
<1>3. Inv => FramesFit  BY FitIsSound
<1> QED BY <1>1, <1>2, <1>3, PTL DEF Spec

-----------------------------------------------------------------------------
(***************************************************************************)
(* Lists of frames, and what CallStack sees of them                        *)
(***************************************************************************)
LEMMA SameSequence ==
  ASSUME NEW fs, IsSeq(fs), NEW gs, IsSeq(gs), Len(fs) = Len(gs),
         \A i \in 1 .. Len(fs) : fs[i] = gs[i]
  PROVE  fs = gs
<1> DEFINE S == Everything(fs) \cup Everything(gs)
<1>1. fs \in Seq(S) /\ gs \in Seq(S)
  <2>1. Everything(fs) \subseteq S /\ Everything(gs) \subseteq S  OBVIOUS
  <2>2. fs \in Seq(Everything(fs)) /\ gs \in Seq(Everything(gs))  BY DEF IsSeq
  <2> HIDE DEF S
  <2> QED BY <2>1, <2>2, SeqMonotonic
<1> HIDE DEF S
<1> QED BY <1>1, SeqEqual

LEMMA FirstOnes ==
  ASSUME NEW n \in Nat, NEW fs, fs = [i \in 1 .. n |-> fs[i]]
  PROVE  IsSeq(fs) /\ Len(fs) = n
<1> DEFINE S == {fs[i] : i \in 1 .. n}
<1>1. fs \in [1 .. n -> S]
  <2>1. \A i \in 1 .. n : fs[i] \in S  OBVIOUS
  <2> HIDE DEF S
  <2> QED BY <2>1
<1> HIDE DEF S
<1>2. fs \in Seq(S)  BY <1>1, SeqDef
<1>3. DOMAIN fs = 1 .. n /\ DOMAIN fs = 1 .. Len(fs) /\ Len(fs) \in Nat  BY <1>1, <1>2, LenProperties
<1>4. Len(fs) = n  BY <1>3
<1> QED BY <1>2, <1>4, SeqOfItsElements

\* A frame as CallStack has it.
View(f) == [of |-> f.method, at |-> f.at, lock |-> f.syncObject, resume |-> f.previousIp]
Views(fs, n) == [i \in 1 .. n |-> View(fs[i])]

LEMMA ViewsSeq ==
  ASSUME NEW fs, NEW n \in Nat
  PROVE  /\ IsSeq(Views(fs, n)) /\ Len(Views(fs, n)) = n
         /\ \A i \in 1 .. n : Views(fs, n)[i] = View(fs[i])
         /\ Views(fs, n) = <<>> <=> n = 0
<1> DEFINE c == Views(fs, n)
<1>1. \A i \in 1 .. n : c[i] = View(fs[i])  BY DEF Views
<1>2. c = [i \in 1 .. n |-> c[i]]  BY DEF Views
<1> HIDE DEF c
<1>3. IsSeq(c) /\ Len(c) = n  BY <1>2, FirstOnes
<1>4. c = <<>> <=> n = 0
  <2>1. c \in Seq(Everything(c))  BY <1>3 DEF IsSeq
  <2> QED BY <1>3, <2>1, EmptySeq
<1> QED BY <1>1, <1>3, <1>4 DEF c

LEMMA ViewsFront ==
  ASSUME NEW fs, NEW n \in Nat, n > 0
  PROVE  Front(Views(fs, n)) = Views(fs, n - 1) /\ Last(Views(fs, n)) = View(fs[n])
<1> DEFINE c == Views(fs, n)
           d == Views(fs, n - 1)
<1>1. /\ IsSeq(c) /\ Len(c) = n /\ \A i \in 1 .. n : c[i] = View(fs[i])
      /\ IsSeq(d) /\ Len(d) = n - 1 /\ \A i \in 1 .. n - 1 : d[i] = View(fs[i])
  BY ViewsSeq
<1> HIDE DEF c, d
<1> DEFINE e == SubSeq(c, 1, n - 1)
<1>2. n - 1 \in 0 .. Len(c)  BY <1>1
<1>3. IsSeq(e) /\ Len(e) = n - 1 /\ \A i \in 1 .. n - 1 : e[i] = c[i]  BY <1>1, <1>2, FrontSeq
<1>4. Front(c) = e  BY <1>1 DEF Front
<1> HIDE DEF e
<1>5. \A i \in 1 .. n - 1 : e[i] = d[i]
  <2>1. \A i \in 1 .. n - 1 : i \in 1 .. n  OBVIOUS
  <2> QED BY <1>1, <1>3, <2>1
<1>6. e = d  BY <1>1, <1>3, <1>5, SameSequence
<1> QED BY <1>1, <1>4, <1>6 DEF Last, c, d

\* Lists of frames that look the same to CallStack.
LEMMA ViewsKept ==
  ASSUME NEW fs, NEW gs, NEW n, \A i \in 1 .. n : View(gs[i]) = View(fs[i])
  PROVE  Views(gs, n) = Views(fs, n)
BY DEF Views

LEMMA ViewsAppend ==
  ASSUME NEW fs, IsSeq(fs), NEW f
  PROVE  Views(Append(fs, f), Len(fs) + 1) = Append(Views(fs, Len(fs)), View(f))
<1> DEFINE n == Len(fs)
           c == Views(fs, n)
           d == Views(Append(fs, f), n + 1)
<1>1. n \in Nat  BY DEF IsSeq
<1>2. /\ IsSeq(c) /\ Len(c) = n /\ \A i \in 1 .. n : c[i] = View(fs[i])
      /\ IsSeq(d) /\ Len(d) = n + 1 /\ \A i \in 1 .. n + 1 : d[i] = View(Append(fs, f)[i])
  <2>1. n + 1 \in Nat  BY <1>1
  <2> HIDE DEF n
  <2> QED BY <1>1, <2>1, ViewsSeq
<1>3. /\ Append(fs, f)[n + 1] = f /\ \A i \in 1 .. n : Append(fs, f)[i] = fs[i]
  BY AppendSeq
<1> DEFINE e == Append(c, View(f))
<1> HIDE DEF n, c, d
<1>4. IsSeq(e) /\ Len(e) = n + 1 /\ e[n + 1] = View(f) /\ \A i \in 1 .. n : e[i] = c[i]
  BY <1>2, AppendSeq
<1> HIDE DEF e
<1>5. \A i \in 1 .. n + 1 : d[i] = e[i]
  <2>1. ASSUME NEW i \in 1 .. n + 1 PROVE d[i] = e[i]
    <3>1. CASE i = n + 1  BY <1>1, <1>2, <1>3, <1>4, <3>1
    <3>2. CASE i # n + 1
      <4>1. i \in 1 .. n  BY <1>1, <3>2
      <4> QED BY <1>2, <1>3, <1>4, <4>1
    <3> QED BY <3>1, <3>2
  <2> QED BY <2>1
<1>6. d = e  BY <1>2, <1>4, <1>5, SameSequence
<1> QED BY <1>6 DEF d, e, c, n

\* One element is replaced, the last one of a list that has just grown or any.
LEMMA ReplacedLast ==
  ASSUME NEW fs, IsSeq(fs), NEW f, NEW g
  PROVE  Replaced(Append(fs, f), Len(fs) + 1, g) = Append(fs, g)
<1> DEFINE n == Len(fs)
           a == Append(fs, f)
           b == Append(fs, g)
           r == Replaced(a, n + 1, g)
<1>1. n \in Nat  BY DEF IsSeq
<1>2. /\ IsSeq(a) /\ Len(a) = n + 1 /\ \A i \in 1 .. n : a[i] = fs[i]
      /\ IsSeq(b) /\ Len(b) = n + 1 /\ b[n + 1] = g /\ \A i \in 1 .. n : b[i] = fs[i]
  BY AppendSeq
<1> HIDE DEF a, b, n
<1>3. n + 1 \in 1 .. Len(a)  BY <1>1, <1>2
<1>4. IsSeq(r) /\ Len(r) = Len(a) /\ \A i \in 1 .. Len(a) : r[i] = IF i = n + 1 THEN g ELSE a[i]
  BY <1>2, <1>3, ElementReplaced
<1> HIDE DEF r
<1>5. \A i \in 1 .. Len(r) : r[i] = b[i]
  <2>1. ASSUME NEW i \in 1 .. n + 1 PROVE r[i] = b[i]
    <3>1. CASE i = n + 1  BY <1>2, <1>4, <3>1
    <3>2. CASE i # n + 1
      <4>1. i \in 1 .. n  BY <1>1, <3>2
      <4> QED BY <1>2, <1>4, <3>2, <4>1
    <3> QED BY <3>1, <3>2
  <2> QED BY <1>2, <1>4, <2>1
<1>6. r = b  BY <1>2, <1>4, <1>5, SameSequence
<1> QED BY <1>6 DEF r, a, b, n

LEMMA ViewsReplaced ==
  ASSUME NEW fs, IsSeq(fs), NEW n \in 1 .. Len(fs), NEW f
  PROVE  Views(Replaced(fs, n, f), n) = Replaced(Views(fs, n), n, View(f))
<1> DEFINE gs == Replaced(fs, n, f)
           c == Views(fs, n)
           d == Views(gs, n)
           e == Replaced(c, n, View(f))
<1>1. Len(fs) \in Nat /\ n \in Nat /\ n \in 1 .. n  BY DEF IsSeq
<1>2. \A i \in 1 .. n : i \in 1 .. Len(fs)  BY <1>1
<1>3. \A i \in 1 .. n : gs[i] = IF i = n THEN f ELSE fs[i]  BY <1>2, ElementReplaced
<1> HIDE DEF gs
<1>4. /\ IsSeq(c) /\ Len(c) = n /\ \A i \in 1 .. n : c[i] = View(fs[i])
      /\ IsSeq(d) /\ Len(d) = n /\ \A i \in 1 .. n : d[i] = View(gs[i])
  BY <1>1, ViewsSeq
<1> HIDE DEF c, d
<1>5. IsSeq(e) /\ Len(e) = n /\ \A i \in 1 .. n : e[i] = IF i = n THEN View(f) ELSE c[i]
  BY <1>1, <1>4, ElementReplaced
<1> HIDE DEF e
<1>6. \A i \in 1 .. n : d[i] = e[i]  BY <1>3, <1>4, <1>5
<1>7. d = e  BY <1>4, <1>5, <1>6, SameSequence
<1> QED BY <1>7 DEF c, d, e, gs

-----------------------------------------------------------------------------
(***************************************************************************)
(* Why a saved instruction pointer is enough to find the handler           *)
(***************************************************************************)
\* The places where throwException looks for the handler of the instruction
\* that f is executing.
At(f, pc) ==
  f.method \in Methods =>
    \/ pc = f.at
    \/ pc = After(f.method, f.at) - 1
    \/ pc = After(f.method, f.at) /\ Kind(f.method, f.at) \in {"system", "monitor"}

LEMMA TheInstruction ==
  ASSUME NEW m \in Methods, NEW pc \in Starts(m)
  PROVE  InstructionAt(m, pc) \in Code[m].instructions /\ InstructionAt(m, pc).at = pc
<1>1. \E i \in Code[m].instructions : i.at = pc  BY DEF Starts
<1> QED BY <1>1 DEF InstructionAt

LEMMA InstructionFacts ==
  ASSUME Verified, NEW m \in Methods, NEW pc \in Starts(m)
  PROVE  /\ pc \in Nat /\ pc # NotBegun /\ After(m, pc) \in Nat /\ After(m, pc) # KILLTHREAD
         /\ Kind(m, pc) # "plain" => After(m, pc) \in Starts(m)
<1>1. PICK i : i = InstructionAt(m, pc)  OBVIOUS
<1>2. i \in Code[m].instructions /\ i.at = pc  BY <1>1, TheInstruction
<1>3. /\ i.at \in Nat /\ i.size \in Nat
      /\ i.kind # "plain" => i.at + i.size \in Starts(m)
  BY <1>2 DEF Verified
<1>4. After(m, pc) = i.at + i.size /\ Kind(m, pc) = i.kind  BY <1>1, <1>2 DEF After, Kind
<1> QED BY <1>2, <1>3, <1>4 DEF NotBegun, KILLTHREAD

LEMMA FirstInstruction ==
  ASSUME NEW m \in Methods
  PROVE  0 \in Starts(m)
BY MethodAssumption DEF Starts

LEMMA HandlerAt ==
  ASSUME Verified, TablesFit, NEW f, f.method \in Methods, f.at \in Starts(f.method),
         NEW pc, At(f, pc), NEW e
  PROVE  FindHandler(f.method, pc, e) = FindHandler(f.method, f.at, e)
<1>1. PICK m, i : m = f.method /\ i = InstructionAt(m, f.at)  OBVIOUS
<1>2. m \in Methods /\ i \in Code[m].instructions /\ i.at = f.at  BY <1>1, TheInstruction
<1>3. After(m, f.at) = i.at + i.size /\ Kind(m, f.at) = i.kind  BY <1>1, <1>2 DEF After, Kind
<1>4. \/ pc = i.at \/ pc = i.at + i.size - 1
      \/ pc = i.at + i.size /\ i.kind \in {"system", "monitor"}
  <2>1. \/ pc = f.at \/ pc = After(f.method, f.at) - 1
        \/ pc = After(f.method, f.at) /\ Kind(f.method, f.at) \in {"system", "monitor"}
    BY DEF At
  <2>2. After(f.method, f.at) = i.at + i.size /\ Kind(f.method, f.at) = i.kind  BY <1>1, <1>3
  <2>3. i.at \in Nat /\ i.size \in Nat  BY <1>2 DEF Verified
  <2>4. PICK a \in Nat : a = After(f.method, f.at)  BY <2>2, <2>3
  <2> QED BY <1>2, <2>1, <2>2, <2>3, <2>4
<1> DEFINE hs == Code[m].handlers
<1>5. \A h \in Range(hs) : Alike(h, i.at, pc)
  <2>1. \A h \in Range(hs) : Alike(h, i.at, i.at)  BY DEF Alike
  <2>2. \A h \in Range(hs) : Alike(h, i.at, i.at + i.size - 1)  BY <1>2 DEF Verified
  <2>3. i.kind \in {"system", "monitor"} => \A h \in Range(hs) : Alike(h, i.at, i.at + i.size)
    BY <1>2 DEF TablesFit
  <2> HIDE DEF hs
  <2> QED BY <1>4, <2>1, <2>2, <2>3
<1>6. hs \in Seq(Range(hs))  BY <1>2 DEF Verified
<1>7. \A k \in 1 .. Len(hs) : hs[k] \in Range(hs)
  <2> HIDE DEF hs
  <2> QED BY <1>6, ElementOfSeq
<1> HIDE DEF hs
<1>8. \A k \in 1 .. Len(hs) : Covers(hs[k], pc, e) <=> Covers(hs[k], i.at, e)
  BY <1>5, <1>7 DEF Alike, Covers
<1>9. {k \in 1 .. Len(hs) : Covers(hs[k], pc, e)} = {k \in 1 .. Len(hs) : Covers(hs[k], i.at, e)}
  BY <1>8
<1>10. FindHandler(m, pc, e) = FindHandler(m, i.at, e)
  BY <1>9, Zenon DEF FindHandler, SelectInSeq, hs
<1> QED BY <1>1, <1>2, <1>10

LEMMA Least ==
  ASSUME NEW S, S \subseteq Nat, S # {}
  PROVE  Min(S) \in S
<1> DEFINE R == OpToRel(<, Nat)
<1>1. IsWellFoundedOn(R, Nat)  BY NatLessThanWellFounded
<1>2. \A x, y \in Nat : <<y, x>> \in R <=> y < x  BY Zenon DEF OpToRel
<1> HIDE DEF R
<1>3. PICK x \in S : \A y \in S : ~ (<<y, x>> \in R)  BY <1>1, WFMin
<1>4. x \in Nat /\ \A y \in S : y \in Nat /\ ~ (y < x)  BY <1>2, <1>3, Zenon
<1>5. \A y \in S : x <= y  BY <1>4
<1> QED BY <1>3, <1>5 DEF Min

LEMMA HandlerTarget ==
  ASSUME Verified, NEW m \in Methods, NEW pc, NEW e, FindHandler(m, pc, e) # 0
  PROVE  Code[m].handlers[FindHandler(m, pc, e)].target \in Starts(m)
<1> DEFINE hs == Code[m].handlers
           I == {k \in 1 .. Len(hs) : Covers(hs[k], pc, e)}
<1>1. FindHandler(m, pc, e) = IF I # {} THEN Min(I) ELSE 0
  BY Zenon DEF FindHandler, SelectInSeq
<1>2. hs \in Seq(Range(hs)) /\ \A h \in Range(hs) : h.target \in Starts(m)  BY DEF Verified
<1> HIDE DEF hs
<1>3. Len(hs) \in Nat /\ I \subseteq 1 .. Len(hs)  BY <1>2
<1> HIDE DEF I
<1>4. I # {} /\ I \subseteq Nat  BY <1>1, <1>3
<1>5. FindHandler(m, pc, e) \in 1 .. Len(hs)  BY <1>1, <1>3, <1>4, Least
<1>6. hs[FindHandler(m, pc, e)] \in Range(hs)  BY <1>2, <1>5, ElementOfSeq
<1> QED BY <1>2, <1>6 DEF hs

LEMMA NoHandlerYet ==
  ASSUME Verified, TablesFit, NEW m \in Methods, Code[m].sync
  PROVE  FindHandler(m, 0, OutOfMemory) = 0
<1> DEFINE hs == Code[m].handlers
           I == {k \in 1 .. Len(hs) : Covers(hs[k], 0, OutOfMemory)}
<1>1. FindHandler(m, 0, OutOfMemory) = IF I # {} THEN Min(I) ELSE 0
  BY Zenon DEF FindHandler, SelectInSeq
<1>2. hs \in Seq(Range(hs)) /\ \A h \in Range(hs) : ~Covers(h, 0, OutOfMemory)
  BY DEF Verified, TablesFit
<1> HIDE DEF hs
<1>3. \A k \in 1 .. Len(hs) : hs[k] \in Range(hs)  BY <1>2, ElementOfSeq
<1>4. I = {}  BY <1>2, <1>3
<1> QED BY <1>1, <1>4

-----------------------------------------------------------------------------
(***************************************************************************)
(* The list of frames                                                      *)
(***************************************************************************)
Locker == "initThreadBehavior"
NoLocker(fs) == \A i \in 1 .. Len(fs) : fs[i].method # Locker

Begun(f) == IF f.method \in Methods THEN f.at \in Starts(f.method) ELSE f.at = 0

\* f called g: whether the return address is past the instruction that did.
Called(f, g) ==
  /\ f.method \in Callbacks => g.previousIp = 0
  /\ f.method \in Methods =>
       \/ /\ g.method \in Methods /\ Kind(f.method, f.at) = "invoke"
          /\ g.previousIp = After(f.method, f.at)
       \/ /\ g.method = "runClinit" /\ Kind(f.method, f.at) = "static"
          /\ g.previousIp = f.at
       \/ /\ g.method \in {"runClinit", "newInstanceReturnObject"}
          /\ Kind(f.method, f.at) = "system"
          /\ g.previousIp = After(f.method, f.at)

Chain(fs) ==
  /\ Len(fs) > 0 => fs[1].method \in Methods /\ fs[1].previousIp = KILLTHREAD
  /\ \A i \in 1 .. Len(fs) : fs[i].method \in Callbacks => fs[i].syncObject = NoObject
  /\ \A i \in 1 .. Len(fs) - 1 : Begun(fs[i]) /\ fs[i + 1].previousIp # KILLTHREAD
  /\ \A i \in 1 .. Len(fs) - 1 : fs[i + 1].method # Locker => Called(fs[i], fs[i + 1])

\* A thread whose run method is still to take its lock has just started.
Starting(fs) ==
  \A i \in 1 .. Len(fs) : fs[i].method = Locker =>
    /\ i = 2 /\ Len(fs) = 2
    /\ fs[1].syncObject \in Objects /\ fs[1].at = 0 /\ fs[2].previousIp = 0

LEMMA BegunFacts ==
  ASSUME Verified, NEW f, Begun(f)
  PROVE  f.at \in Nat /\ f.at # NotBegun
<1>1. CASE f.method \in Methods  BY <1>1, InstructionFacts DEF Begun
<1>2. CASE f.method \notin Methods  BY <1>2 DEF Begun, NotBegun
<1> QED BY <1>1, <1>2

\* A step may free locks, and move the last frame.
LEMMA ChainKept ==
  ASSUME NEW fs, Chain(fs), NEW gs, Len(gs) = Len(fs), Len(fs) \in Nat,
         \A i \in 1 .. Len(fs) :
           /\ gs[i].method = fs[i].method /\ gs[i].previousIp = fs[i].previousIp
           /\ gs[i].syncObject \in {fs[i].syncObject, NoObject}
           /\ i < Len(fs) => gs[i].at = fs[i].at
  PROVE  Chain(gs)
<1> DEFINE n == Len(fs)
<1>1. \A i \in 1 .. n - 1 : i \in 1 .. n /\ i + 1 \in 1 .. n /\ i < n  OBVIOUS
<1>2. Len(gs) > 0 => gs[1].method \in Methods /\ gs[1].previousIp = KILLTHREAD  BY DEF Chain
<1>3. \A i \in 1 .. n : gs[i].method \in Callbacks => gs[i].syncObject = NoObject  BY DEF Chain
<1>4. ASSUME NEW i \in 1 .. n - 1
      PROVE  /\ Begun(gs[i]) /\ gs[i + 1].previousIp # KILLTHREAD
             /\ gs[i + 1].method # Locker => Called(gs[i], gs[i + 1])
  <2>1. /\ gs[i].method = fs[i].method /\ gs[i].at = fs[i].at
        /\ gs[i + 1].method = fs[i + 1].method /\ gs[i + 1].previousIp = fs[i + 1].previousIp
    BY <1>1
  <2>2. /\ Begun(fs[i]) /\ fs[i + 1].previousIp # KILLTHREAD
        /\ fs[i + 1].method # Locker => Called(fs[i], fs[i + 1])
    BY DEF Chain
  <2>3. Begun(gs[i])  BY <2>1, <2>2 DEF Begun
  <2>4. Called(fs[i], fs[i + 1]) => Called(gs[i], gs[i + 1])  BY <2>1, Zenon DEF Called
  <2> QED BY <2>1, <2>2, <2>3, <2>4
<1> QED BY <1>2, <1>3, <1>4 DEF Chain

LEMMA PrefixChain ==
  ASSUME NEW fs, IsSeq(fs), Chain(fs), NEW n \in 0 .. Len(fs)
  PROVE  /\ Chain(SubSeq(fs, 1, n))
         /\ NoLocker(fs) => NoLocker(SubSeq(fs, 1, n))
         /\ 0 < n /\ n < Len(fs) => Begun(fs[n])
<1> DEFINE gs == SubSeq(fs, 1, n)
<1>1. Len(gs) = n /\ \A i \in 1 .. n : gs[i] = fs[i]  BY FrontSeq
<1>2. Len(fs) \in Nat /\ n \in Nat /\ n <= Len(fs)  BY DEF IsSeq
<1>3. \A i \in 1 .. n : i \in 1 .. Len(fs)  BY <1>2
<1>4. \A i \in 1 .. n - 1 : i \in 1 .. n /\ i + 1 \in 1 .. n /\ i \in 1 .. Len(fs) - 1  BY <1>2
<1> HIDE DEF gs
<1>5. Len(gs) > 0 => gs[1].method \in Methods /\ gs[1].previousIp = KILLTHREAD
  BY <1>1, <1>2 DEF Chain
<1>6. \A i \in 1 .. n : gs[i].method \in Callbacks => gs[i].syncObject = NoObject
  BY <1>1, <1>3 DEF Chain
<1>7. \A i \in 1 .. n - 1 : /\ Begun(gs[i]) /\ gs[i + 1].previousIp # KILLTHREAD
                            /\ gs[i + 1].method # Locker => Called(gs[i], gs[i + 1])
  BY <1>1, <1>4 DEF Chain
<1>8. Chain(gs)  BY <1>1, <1>5, <1>6, <1>7 DEF Chain
<1>9. NoLocker(fs) => NoLocker(gs)  BY <1>1, <1>3 DEF NoLocker
<1>10. 0 < n /\ n < Len(fs) => Begun(fs[n])
  <2>1. 0 < n /\ n < Len(fs) => n \in 1 .. Len(fs) - 1  BY <1>2
  <2> QED BY <2>1 DEF Chain
<1> QED BY <1>8, <1>9, <1>10 DEF gs

LEMMA AppendChain ==
  ASSUME NEW fs, IsSeq(fs), Chain(fs), NEW f, Len(fs) > 0, Begun(fs[Len(fs)]),
         f.method # Locker => Called(fs[Len(fs)], f), f.previousIp # KILLTHREAD,
         f.method \in Callbacks => f.syncObject = NoObject
  PROVE  /\ Chain(Append(fs, f))
         /\ NoLocker(fs) /\ f.method # Locker => NoLocker(Append(fs, f))
<1> DEFINE n == Len(fs)
           gs == Append(fs, f)
<1>1. n \in Nat /\ n > 0  BY DEF IsSeq
<1>2. Len(gs) = n + 1 /\ gs[n + 1] = f /\ \A i \in 1 .. n : gs[i] = fs[i]  BY AppendSeq
<1>3. ASSUME NEW i \in 1 .. n + 1 PROVE i = n + 1 \/ i \in 1 .. n  BY <1>1
<1>4. ASSUME NEW i \in 1 .. n
      PROVE  i = n \/ (i \in 1 .. n - 1 /\ i + 1 \in 1 .. n)
  BY <1>1
<1>5. \A i \in 1 .. n - 1 : /\ Begun(fs[i]) /\ fs[i + 1].previousIp # KILLTHREAD
                            /\ fs[i + 1].method # Locker => Called(fs[i], fs[i + 1])
  BY DEF Chain
<1>6. \A i \in 1 .. n : fs[i].method \in Callbacks => fs[i].syncObject = NoObject  BY DEF Chain
<1>7. Len(gs) > 0 => gs[1].method \in Methods /\ gs[1].previousIp = KILLTHREAD
  BY <1>1, <1>2 DEF Chain
<1> HIDE DEF n, gs
<1>8. \A i \in 1 .. n + 1 : gs[i].method \in Callbacks => gs[i].syncObject = NoObject
  BY <1>2, <1>3, <1>6
<1>9. \A i \in 1 .. n : /\ Begun(gs[i]) /\ gs[i + 1].previousIp # KILLTHREAD
                        /\ gs[i + 1].method # Locker => Called(gs[i], gs[i + 1])
  <2>1. ASSUME NEW i \in 1 .. n
        PROVE  /\ Begun(gs[i]) /\ gs[i + 1].previousIp # KILLTHREAD
               /\ gs[i + 1].method # Locker => Called(gs[i], gs[i + 1])
    <3>1. CASE i = n  BY <1>2, <3>1 DEF n
    <3>2. CASE i # n
      <4>1. i \in 1 .. n - 1 /\ i + 1 \in 1 .. n  BY <1>4, <3>2
      <4> QED BY <1>2, <1>5, <4>1
    <3> QED BY <3>1, <3>2
  <2> QED BY <2>1
<1>10. Len(gs) - 1 = n  BY <1>1, <1>2
<1>11. Chain(gs)  BY <1>2, <1>7, <1>8, <1>9, <1>10 DEF Chain
<1>12. NoLocker(fs) /\ f.method # Locker => NoLocker(gs)  BY <1>2, <1>3 DEF NoLocker, n
<1> QED BY <1>11, <1>12 DEF gs

-----------------------------------------------------------------------------
(***************************************************************************)
(* The invariant                                                           *)
(***************************************************************************)
\* No exception is on its way: where the registers are.
Resting(fs, pc, sleeps) ==
  /\ fs # <<>> =>
       /\ Begun(Last(fs))
       /\ Last(fs).method \in Methods =>
            pc = IF sleeps THEN After(Last(fs).method, Last(fs).at) ELSE Last(fs).at
  /\ sleeps => /\ fs # <<>> /\ Last(fs).method \in Methods
               /\ Kind(Last(fs).method, Last(fs).at) = "system"

\* A frame whose method did not begin, as there is no memory.
NotYet(f, pc, e) ==
  /\ f.at = NotBegun /\ f.syncObject = NoObject /\ f.method # "runClinit"
  /\ f.method \in Methods => Code[f.method].sync /\ pc = 0 /\ e = OutOfMemory

\* Where throwException is.
Throwing(fs, th) ==
  /\ th.exception \in Exceptions /\ NoLocker(fs)
  /\ th.fp > 0 =>
       \/ Begun(fs[th.fp]) /\ At(fs[th.fp], th.ip - th.correction)
       \/ th.fp = Len(fs) /\ NotYet(fs[th.fp], th.ip - th.correction, th.exception)

CallInv ==
  /\ Chain(frames) /\ Starting(frames) /\ asleep \in BOOLEAN
  /\ throw = NoThrow => Resting(frames, ip, asleep)
  /\ throw # NoThrow => ~asleep /\ Throwing(frames, throw)

-----------------------------------------------------------------------------
(***************************************************************************)
(* What CallStack sees                                                     *)
(***************************************************************************)
DepthOf(fs, th) ==
  LET n == IF th = NoThrow THEN Len(fs) ELSE th.fp
  IN  IF n > 0 /\ fs[n].at = NotBegun THEN n - 1 ELSE n
LockIn(fs, i) == IF i < Len(fs) /\ fs[i + 1].method = Locker THEN NoObject ELSE fs[i].syncObject
Shown(fs, th) ==
  [i \in 1 .. DepthOf(fs, th) |->
     [of |-> fs[i].method, at |-> fs[i].at, lock |-> LockIn(fs, i), resume |-> fs[i].previousIp]]

LEMMA ShownNow == Activations = Shown(frames, throw)
BY DEF Activations, Depth, LockOf, Shown, DepthOf, LockIn, Locker

LEMMA ShownNext == Activations' = Shown(frames', throw')
BY DEF Activations, Depth, LockOf, Shown, DepthOf, LockIn, Locker

LEMMA ShownIsViews ==
  ASSUME NEW fs, IsSeq(fs), NoLocker(fs), NEW th, NEW n, n = DepthOf(fs, th), n \in 0 .. Len(fs)
  PROVE  Shown(fs, th) = Views(fs, n)
<1>1. Len(fs) \in Nat  BY DEF IsSeq
<1>2. ASSUME NEW i \in 1 .. n PROVE LockIn(fs, i) = fs[i].syncObject
  <2>1. i < Len(fs) => i + 1 \in 1 .. Len(fs)  BY <1>1
  <2> QED BY <2>1 DEF LockIn, NoLocker
<1>3. \A i \in 1 .. n : [of |-> fs[i].method, at |-> fs[i].at, lock |-> LockIn(fs, i),
                         resume |-> fs[i].previousIp] = View(fs[i])
  BY <1>2 DEF View
<1> QED BY <1>3, Zenon DEF Shown, Views

LEMMA NoneStarting ==
  ASSUME NEW fs, NoLocker(fs)
  PROVE  Starting(fs)
BY DEF NoLocker, Starting

\* No exception is on its way after the step.
LEMMA RestSeen ==
  ASSUME Verified, IsSeq(frames'), Chain(frames'), NoLocker(frames'), throw' = NoThrow,
         asleep' \in BOOLEAN, Resting(frames', ip', asleep')
  PROVE  /\ CallInv' /\ throw'.exception = NoException
         /\ Activations' = Views(frames', Len(frames'))
<1>1. PICK fs, th : fs = frames' /\ th = throw'  OBVIOUS
<1>2. /\ IsSeq(fs) /\ NoLocker(fs) /\ th = NoThrow /\ Len(fs) \in Nat
  BY <1>1 DEF IsSeq
<1>3. Len(fs) > 0 => fs[Len(fs)].at # NotBegun
  <2>1. fs # <<>> => Begun(Last(fs))  BY <1>1 DEF Resting
  <2>2. Len(fs) > 0 => fs # <<>>  BY <1>2, EmptySeq DEF IsSeq
  <2>3. Len(fs) > 0 => Begun(fs[Len(fs)])  BY <2>1, <2>2 DEF Last
  <2> QED BY <2>3, BegunFacts
<1>4. DepthOf(fs, th) = Len(fs)  BY <1>2, <1>3 DEF DepthOf
<1>5. Len(fs) \in 0 .. Len(fs)  BY <1>2
<1>6. Shown(fs, th) = Views(fs, Len(fs))  BY <1>2, <1>4, <1>5, ShownIsViews
<1>7. Activations' = Views(frames', Len(frames'))  BY <1>1, <1>6, ShownNext
<1>8. Starting(frames')  BY NoneStarting
<1> QED BY <1>7, <1>8 DEF CallInv, NoThrow

\* The frames up to n that have begun.
Beginning(fs, n) == IF n > 0 /\ fs[n].at = NotBegun THEN n - 1 ELSE n

LEMMA ThrowSeen ==
  ASSUME IsSeq(frames'), Chain(frames'), NoLocker(frames'), throw' # NoThrow,
         asleep' = FALSE, Throwing(frames', throw'), throw'.fp \in 0 .. Len(frames')
  PROVE  /\ CallInv'
         /\ Activations' = Views(frames', Beginning(frames', throw'.fp))
<1>1. PICK fs, th : fs = frames' /\ th = throw'  OBVIOUS
<1>2. IsSeq(fs) /\ NoLocker(fs) /\ th # NoThrow /\ Len(fs) \in Nat /\ th.fp \in 0 .. Len(fs)
  BY <1>1 DEF IsSeq
<1>3. DepthOf(fs, th) = Beginning(fs, th.fp)  BY <1>2 DEF DepthOf, Beginning
<1>4. Beginning(fs, th.fp) \in 0 .. Len(fs)  BY <1>2 DEF Beginning
<1>5. Shown(fs, th) = Views(fs, Beginning(fs, th.fp))  BY <1>2, <1>3, <1>4, ShownIsViews
<1>6. Activations' = Views(frames', Beginning(frames', throw'.fp))  BY <1>1, <1>5, ShownNext
<1>7. Starting(frames')  BY NoneStarting
<1> QED BY <1>6, <1>7 DEF CallInv

-----------------------------------------------------------------------------
\* CallStack reads the same table of methods.
LEMMA SameTable ==
  ASSUME NEW m, NEW pc
  PROVE  /\ Calls!Kind(m, pc) = Kind(m, pc) /\ Calls!After(m, pc) = After(m, pc)
         /\ Calls!Starts(m) = Starts(m)
BY Zenon DEF Calls!Kind, Kind, Calls!After, After, Calls!InstructionAt, InstructionAt,
             Calls!Starts, Starts

LEMMA SameHandler ==
  ASSUME NEW m, NEW pc, NEW e
  PROVE  Calls!FindHandler(m, pc, e) = FindHandler(m, pc, e) /\ Calls!Seen(m, e) = Seen(m, e)
BY Zenon DEF Calls!FindHandler, FindHandler, SelectInSeq, Calls!SelectInSeq, Min, Calls!Min,
             Calls!Covers, Covers, Calls!Seen, Seen

LEMMA SameLocks ==
  ASSUME NEW h, NEW o
  PROVE  /\ Calls!Locked(h, o) = Locked(h, o) /\ Calls!Unlocked(h, o) = Unlocked(h, o)
         /\ Calls!Holds(h, o) <=> Holds(h, o)
BY Zenon DEF Calls!Locked, Locked, Calls!Unlocked, Unlocked, Calls!Holds, Holds

LEMMA SameNames ==
  /\ Calls!KILLTHREAD = KILLTHREAD /\ Calls!Callbacks = Callbacks
  /\ \A s, pc : Calls!Moved(s, pc) = Moved(s, pc)
  /\ \A s : Calls!Last(s) = Last(s) /\ Calls!Front(s) = Front(s)
BY Zenon DEF Calls!KILLTHREAD, KILLTHREAD, Calls!Callbacks, Callbacks, Calls!Moved, Moved,
             Calls!Last, Last, Calls!Front, Front

-----------------------------------------------------------------------------
(***************************************************************************)
(* The steps of a thread with no exception on its way                      *)
(***************************************************************************)
LEMMA ChangedFields ==
  ASSUME NEW f, IsFrame(f), NEW v
  PROVE  /\ Changed(f, v).at = v /\ Changed(f, v).method = f.method
         /\ Changed(f, v).previousIp = f.previousIp /\ Changed(f, v).syncObject = f.syncObject
         /\ Freed(f, v).at = f.at /\ Freed(f, v).method = f.method
         /\ Freed(f, v).previousIp = f.previousIp /\ Freed(f, v).syncObject = v
<1> DEFINE F(a, o) == [method |-> f.method, at |-> a, previousIp |-> f.previousIp,
                       previousSp |-> f.previousSp, syncObject |-> o,
                       stack |-> f.stack, lp |-> f.lp]
<1>1. f = F(f.at, f.syncObject)  BY DEF IsFrame
<1>2. [F(f.at, f.syncObject) EXCEPT !.at = v] = F(v, f.syncObject)  OBVIOUS
<1>3. [F(f.at, f.syncObject) EXCEPT !.syncObject = v] = F(f.at, v)  OBVIOUS
<1> HIDE DEF F
<1>4. Changed(f, v) = F(v, f.syncObject) /\ Freed(f, v) = F(f.at, v)
  BY <1>1, <1>2, <1>3 DEF Changed, Freed
<1> QED BY <1>4 DEF F

LEMMA ChangedView ==
  ASSUME NEW f, IsFrame(f), NEW v
  PROVE  /\ View(Changed(f, v)) = [View(f) EXCEPT !.at = v]
         /\ View(Freed(f, v)) = [View(f) EXCEPT !.lock = v]
BY ChangedFields DEF View

\* A thread with no exception on its way, once it has taken its lock.
GoingOn ==
  /\ IsSeq(frames) /\ Len(frames) \in Nat /\ Len(frames) > 0
  /\ \A i \in 1 .. Len(frames) : IsFrame(frames[i])
  /\ Top = frames[Len(frames)]
  /\ Chain(frames) /\ NoLocker(frames) /\ Begun(Top)
  /\ throw = NoThrow
  /\ Activations = Views(frames, Len(frames))

LEMMA Going ==
  ASSUME Verified, Inv, CallInv, throw = NoThrow, frames # <<>>, Top.method # Locker
  PROVE  GoingOn
<1> DEFINE n == Len(frames)
<1>1. IsSeq(frames) /\ n \in Nat /\ \A i \in 1 .. n : IsFrame(frames[i])
  BY DEF Inv, Sound, IsSeq, FrameFits
<1>2. n > 0  BY <1>1, EmptySeq DEF IsSeq
<1>3. Top = frames[n] /\ Last(frames) = frames[n]  BY DEF Top, Last
<1>4. Begun(Top)  BY <1>3 DEF CallInv, Resting
<1>5. NoLocker(frames)
  <2>1. ASSUME NEW i \in 1 .. n, frames[i].method = Locker PROVE FALSE
    <3>1. i = n  BY <2>1 DEF CallInv, Starting
    <3> QED BY <1>3, <2>1, <3>1
  <2> QED BY <2>1 DEF NoLocker
<1>6. Top.at # NotBegun  BY <1>4, BegunFacts
<1>7. DepthOf(frames, throw) = n  BY <1>3, <1>6 DEF DepthOf
<1>8. n \in 0 .. n  BY <1>1
<1>9. Shown(frames, throw) = Views(frames, n)  BY <1>1, <1>5, <1>7, <1>8, ShownIsViews
<1>10. Activations = Views(frames, n)  BY <1>9, ShownNow
<1> QED BY <1>1, <1>2, <1>3, <1>4, <1>5, <1>10 DEF CallInv, GoingOn

LEMMA GoingInJava ==
  ASSUME Verified, Inv, CallInv, throw = NoThrow, frames # <<>>, Top.method \in Methods
  PROVE  GoingOn
<1>1. Top.method # Locker  BY MethodAssumption DEF Locker, Callbacks
<1> QED BY <1>1, Going

\* What CallStack sees of it.
LEMMA SeenNow ==
  ASSUME GoingOn
  PROVE  /\ throw.exception = NoException
         /\ IsSeq(Activations) /\ Len(Activations) = Len(frames) /\ Activations # <<>>
         /\ Last(Activations) = View(Top)
         /\ Front(Activations) = Views(frames, Len(frames) - 1)
         /\ Calls!Runs /\ Calls!Top = View(Top)
         /\ Calls!Top.of = Top.method /\ Calls!Top.at = Top.at
         /\ Calls!Top.lock = Top.syncObject /\ Calls!Top.resume = Top.previousIp
         /\ Calls!InJava <=> Top.method \in Methods
         /\ Calls!Here = Kind(Top.method, Top.at)
         /\ Calls!FollowingHere = After(Top.method, Top.at)
<1>1. throw.exception = NoException  BY DEF GoingOn, NoThrow
<1>2. /\ IsSeq(Activations) /\ Len(Activations) = Len(frames) /\ Activations # <<>>
  BY ViewsSeq DEF GoingOn
<1>3. Last(Activations) = View(Top) /\ Front(Activations) = Views(frames, Len(frames) - 1)
  BY ViewsFront DEF GoingOn
<1>4. Calls!Runs  BY <1>1, <1>2 DEF Calls!Runs
<1>5. Calls!Top = View(Top)  BY <1>3, SameNames DEF Calls!Top
<1>6. /\ Calls!Top.of = Top.method /\ Calls!Top.at = Top.at
      /\ Calls!Top.lock = Top.syncObject /\ Calls!Top.resume = Top.previousIp
  BY <1>5 DEF View
<1>7. Calls!InJava <=> Top.method \in Methods  BY <1>4, <1>6 DEF Calls!InJava
<1>8. /\ Calls!Here = Kind(Top.method, Top.at)
      /\ Calls!FollowingHere = After(Top.method, Top.at)
  BY <1>6, SameTable DEF Calls!Here, Calls!FollowingHere
<1> QED BY <1>1, <1>2, <1>3, <1>4, <1>5, <1>6, <1>7, <1>8

\* Where f may go on.
MayGoTo(f, pc) == IF f.method \in Methods THEN pc \in Starts(f.method) ELSE pc = 0

\* The last frame of fs goes on at pc.
LEMMA MovedFrame ==
  ASSUME Verified, NEW fs, IsSeq(fs), Len(fs) \in Nat, Len(fs) > 0, IsFrame(fs[Len(fs)]),
         Chain(fs), NoLocker(fs), NEW pc, MayGoTo(fs[Len(fs)], pc)
  PROVE  /\ IsSeq(Moved(fs, pc)) /\ Len(Moved(fs, pc)) = Len(fs)
         /\ Chain(Moved(fs, pc)) /\ NoLocker(Moved(fs, pc)) /\ Resting(Moved(fs, pc), pc, FALSE)
         /\ Views(Moved(fs, pc), Len(fs)) = Moved(Views(fs, Len(fs)), pc)
<1> DEFINE n == Len(fs)
           f == Changed(fs[n], pc)
           gs == Replaced(fs, n, f)
<1>1. Moved(fs, pc) = gs  BY DEF Moved, Replaced, Changed
<1>2. n \in 1 .. n  OBVIOUS
<1>3. IsSeq(gs) /\ Len(gs) = n /\ \A i \in 1 .. n : gs[i] = IF i = n THEN f ELSE fs[i]
  BY <1>2, ElementReplaced
<1>4. /\ f.at = pc /\ f.method = fs[n].method /\ f.previousIp = fs[n].previousIp
      /\ f.syncObject = fs[n].syncObject
  BY ChangedFields
<1>5. Views(gs, n) = Replaced(Views(fs, n), n, View(f))  BY <1>2, ViewsReplaced
<1>6. View(f) = [View(fs[n]) EXCEPT !.at = pc]  BY ChangedView
<1>7. Len(Views(fs, n)) = n /\ Views(fs, n)[n] = View(fs[n])  BY <1>2, ViewsSeq
<1>8. Views(gs, n) = Moved(Views(fs, n), pc)  BY <1>5, <1>6, <1>7 DEF Moved, Replaced
<1> HIDE DEF f, gs
<1>9. Chain(gs)
  <2>1. \A i \in 1 .. n :
           /\ gs[i].method = fs[i].method /\ gs[i].previousIp = fs[i].previousIp
           /\ gs[i].syncObject \in {fs[i].syncObject, NoObject}
           /\ i < n => gs[i].at = fs[i].at
    BY <1>3, <1>4
  <2> QED BY <1>3, <2>1, ChainKept
<1>10. NoLocker(gs)  BY <1>3, <1>4 DEF NoLocker
<1>11. Last(gs) = f  BY <1>2, <1>3 DEF Last
<1>12. Resting(gs, pc, FALSE)  BY <1>4, <1>11 DEF Resting, Begun, MayGoTo
<1> QED BY <1>1, <1>3, <1>8, <1>9, <1>10, <1>12

LEMMA MoveSeen ==
  ASSUME Verified, GoingOn, Top.method \in Methods, NEW pc \in Starts(Top.method),
         frames' = Moved(frames, pc), ip' = pc, throw' = throw, asleep' = FALSE
  PROVE  CallInv' /\ throw'.exception = NoException /\ Activations' = Moved(Activations, pc)
<1> DEFINE n == Len(frames)
<1>1. /\ IsSeq(frames) /\ n \in Nat /\ n > 0 /\ Top = frames[n] /\ IsFrame(frames[n])
      /\ Chain(frames) /\ NoLocker(frames) /\ throw = NoThrow /\ Activations = Views(frames, n)
  <2>1. n \in Nat /\ n > 0 => n \in 1 .. n  OBVIOUS
  <2> QED BY <2>1 DEF GoingOn
<1>0. MayGoTo(frames[n], pc)  BY <1>1 DEF MayGoTo
<1> HIDE DEF n
<1>2. /\ IsSeq(frames') /\ Len(frames') = n /\ Chain(frames') /\ NoLocker(frames')
      /\ Resting(frames', pc, FALSE)
      /\ Views(frames', n) = Moved(Views(frames, n), pc)
  BY <1>0, <1>1, MovedFrame DEF n
<1>3. /\ CallInv' /\ throw'.exception = NoException
      /\ Activations' = Views(frames', Len(frames'))
  BY <1>1, <1>2, RestSeen
<1> QED BY <1>1, <1>2, <1>3

\* A frame returns to the one below.
LEMMA PopSeen ==
  ASSUME Verified, GoingOn, Top.previousIp # KILLTHREAD, PopFrame, throw' = throw, asleep' = FALSE
  PROVE  /\ CallInv' /\ throw'.exception = NoException /\ Len(frames) > 1
         /\ Activations' = Moved(Front(Activations), Top.previousIp)
         /\ Front(Activations) # <<>>
<1> DEFINE n == Len(frames)
           k == n - 1
           pc == Top.previousIp
           fs == SubSeq(frames, 1, k)
<1>1. /\ IsSeq(frames) /\ n \in Nat /\ n > 0 /\ Top = frames[n]
      /\ \A i \in 1 .. n : IsFrame(frames[i])
      /\ Chain(frames) /\ NoLocker(frames) /\ throw = NoThrow /\ Activations = Views(frames, n)
  BY DEF GoingOn
<1>2. n # 1 /\ k \in Nat /\ k > 0 /\ k \in 0 .. n /\ k \in 1 .. k /\ k \in 1 .. n /\ k < n
      /\ n = k + 1 /\ k \in 1 .. n - 1
  BY <1>1 DEF Chain
<1>3. /\ IsSeq(fs) /\ Len(fs) = k /\ \A i \in 1 .. k : fs[i] = frames[i]
  BY <1>1, <1>2, FrontSeq
<1>4. Chain(fs) /\ NoLocker(fs) /\ Begun(frames[k])  BY <1>1, <1>2, PrefixChain
<1>5. Front(frames) = fs /\ frames' = Moved(fs, pc) /\ ip' = pc  BY DEF Front, PopFrame
<1>6. Called(frames[k], Top)
  <2>1. frames[k + 1].method # Locker => Called(frames[k], frames[k + 1])  BY <1>1, <1>2 DEF Chain
  <2>2. frames[n].method # Locker
    <3>1. n \in 1 .. n  BY <1>1
    <3> QED BY <1>1, <3>1 DEF NoLocker
  <2> QED BY <1>1, <1>2, <2>1, <2>2
<1>7. MayGoTo(fs[k], pc)
  <2>1. fs[k] = frames[k] /\ IsFrame(frames[k])  BY <1>1, <1>2, <1>3
  <2>2. CASE frames[k].method \in Methods
    <3>1. frames[k].at \in Starts(frames[k].method)  BY <1>4, <2>2 DEF Begun
    <3> QED BY <1>6, <2>1, <2>2, <3>1, InstructionFacts DEF Called, MayGoTo
  <2>3. CASE frames[k].method \notin Methods
    BY <1>6, <2>1, <2>3 DEF Called, IsFrame, MayGoTo
  <2> QED BY <2>1, <2>2, <2>3
<1>8. IsFrame(fs[k])  BY <1>1, <1>2, <1>3
<1> HIDE DEF n, k, fs, pc
<1>9. /\ IsSeq(frames') /\ Len(frames') = k /\ Chain(frames') /\ NoLocker(frames')
      /\ Resting(frames', pc, FALSE)
      /\ Views(frames', k) = Moved(Views(fs, k), pc)
  <2>1. /\ IsSeq(Moved(fs, pc)) /\ Len(Moved(fs, pc)) = k /\ Chain(Moved(fs, pc))
        /\ NoLocker(Moved(fs, pc)) /\ Resting(Moved(fs, pc), pc, FALSE)
        /\ Views(Moved(fs, pc), k) = Moved(Views(fs, k), pc)
    BY <1>2, <1>3, <1>4, <1>7, <1>8, MovedFrame
  <2> QED BY <1>5, <2>1
<1>10. Views(fs, k) = Views(frames, k)  BY <1>3, ViewsKept
<1>11. Front(Activations) = Views(frames, k) /\ Views(frames, k) # <<>>
  BY <1>1, <1>2, ViewsFront, ViewsSeq DEF k
<1>12. /\ CallInv' /\ throw'.exception = NoException
       /\ Activations' = Views(frames', Len(frames'))
  BY <1>1, <1>5, <1>9, RestSeen
<1> QED BY <1>1, <1>2, <1>9, <1>10, <1>11, <1>12 DEF n, pc

\* An exception, in the frame that runs.
LEMMA RaiseSeen ==
  ASSUME Verified, Inv', GoingOn, NEW e \in Exceptions, NEW pc, NEW native \in BOOLEAN,
         At(Top, pc - (IF native THEN 1 ELSE 0)),
         frames' = frames, throw' = Thrown(Len(frames), pc, e, native), asleep' = FALSE,
         held' = held
  PROVE  CallInv' /\ Calls!Raise(e)
<1> DEFINE n == Len(frames)
           c == IF native THEN 1 ELSE 0
<1>1. /\ IsSeq(frames) /\ n \in Nat /\ n > 0 /\ Top = frames[n]
      /\ Chain(frames) /\ NoLocker(frames) /\ Begun(Top) /\ Activations = Views(frames, n)
  BY DEF GoingOn
<1>2. throw'.exception = e /\ throw'.fp = n /\ throw'.ip = pc /\ throw'.correction = c
  BY DEF Thrown
<1>3. throw' # NoThrow  BY <1>2, MethodAssumption DEF NoThrow
<1> HIDE DEF n, c
<1>4. Throwing(frames', throw')
  <2>1. Begun(frames'[throw'.fp]) /\ At(frames'[throw'.fp], throw'.ip - throw'.correction)
    BY <1>1, <1>2 DEF c
  <2>2. NoLocker(frames') /\ throw'.exception \in Exceptions  BY <1>1, <1>2
  <2> QED BY <2>1, <2>2 DEF Throwing
<1>5. throw'.fp \in 0 .. Len(frames')  BY <1>1, <1>2 DEF n
<1>6. CallInv' /\ Activations' = Views(frames', Beginning(frames', throw'.fp))
  BY <1>1, <1>3, <1>4, <1>5, ThrowSeen
<1>7. Top.at # NotBegun  BY <1>1, BegunFacts
<1>8. Beginning(frames', throw'.fp) = n  BY <1>1, <1>2, <1>7 DEF Beginning
<1>9. Activations' = Activations  BY <1>1, <1>6, <1>8
<1>10. Calls!Raise(e)  BY <1>2, <1>9, SeenNow DEF Calls!Raise
<1> QED BY <1>6, <1>10

\* A new frame that f has called.
LEMMA PushFacts ==
  ASSUME Verified, GoingOn, NEW f, Called(Top, f), f.method # Locker,
         f.method \in Callbacks => f.syncObject = NoObject
  PROVE  LET fs == Append(frames, f)
             n == Len(frames)
         IN  /\ IsSeq(fs) /\ Len(fs) = n + 1 /\ fs[n + 1] = f
             /\ Chain(fs) /\ NoLocker(fs)
             /\ Views(fs, n + 1) = Append(Activations, View(f))
             /\ Views(fs, n) = Activations
<1> DEFINE n == Len(frames)
           fs == Append(frames, f)
<1>1. /\ IsSeq(frames) /\ n \in Nat /\ n > 0 /\ Top = frames[n] /\ IsFrame(Top)
      /\ Chain(frames) /\ NoLocker(frames) /\ Begun(Top) /\ Activations = Views(frames, n)
  <2>1. n \in Nat /\ n > 0 => n \in 1 .. n  OBVIOUS
  <2> QED BY <2>1 DEF GoingOn
<1>2. f.previousIp # KILLTHREAD
  <2>1. CASE Top.method \in Methods
    <3>1. Top.at \in Starts(Top.method)  BY <1>1, <2>1 DEF Begun
    <3> QED BY <2>1, <3>1, InstructionFacts DEF Called, KILLTHREAD, NotBegun
  <2>2. CASE Top.method \notin Methods  BY <1>1, <2>2 DEF Called, IsFrame, KILLTHREAD
  <2> QED BY <2>1, <2>2
<1>3. Chain(fs) /\ NoLocker(fs)  BY <1>1, <1>2, AppendChain
<1>4. IsSeq(fs) /\ Len(fs) = n + 1 /\ fs[n + 1] = f /\ \A i \in 1 .. n : fs[i] = frames[i]
  BY <1>1, AppendSeq
<1>5. Views(fs, n + 1) = Append(Activations, View(f))  BY <1>1, ViewsAppend
<1>6. Views(fs, n) = Activations  BY <1>1, <1>4, ViewsKept
<1> QED BY <1>3, <1>4, <1>5, <1>6

LEMMA PushSeen ==
  ASSUME Verified, GoingOn, NEW f, Called(Top, f), f.method # Locker,
         f.method \in Callbacks => f.syncObject = NoObject,
         f.at = 0, f.method \in Methods \cup Callbacks,
         frames' = Append(frames, f), ip' = 0, throw' = throw, asleep' = FALSE
  PROVE  CallInv' /\ throw'.exception = NoException /\ Activations' = Append(Activations, View(f))
<1> DEFINE n == Len(frames)
<1>1. /\ IsSeq(frames') /\ Len(frames') = n + 1 /\ frames'[n + 1] = f
      /\ Chain(frames') /\ NoLocker(frames')
      /\ Views(frames', n + 1) = Append(Activations, View(f))
  BY PushFacts
<1> HIDE DEF n
<1>2. Last(frames') = f  BY <1>1 DEF Last
<1>3. Begun(f)  BY FirstInstruction DEF Begun
<1>4. Resting(frames', ip', FALSE)  BY <1>2, <1>3 DEF Resting
<1>5. throw' = NoThrow  BY DEF GoingOn
<1> QED BY <1>1, <1>4, <1>5, RestSeen

\* There is no memory after the frame has been pushed.
LEMMA BarePush ==
  ASSUME Verified, GoingOn, NEW f, Called(Top, f), f.method # Locker, f.method # "runClinit",
         f.syncObject = NoObject, f.at = NotBegun, NEW native \in BOOLEAN,
         f.method \in Methods => Code[f.method].sync /\ ~native,
         frames' = Append(frames, f), throw' = Thrown(Len(frames) + 1, 0, OutOfMemory, native),
         asleep' = FALSE, held' = held
  PROVE  CallInv' /\ Calls!Raise(OutOfMemory)
<1> DEFINE n == Len(frames)
           c == IF native THEN 1 ELSE 0
<1>1. /\ IsSeq(frames') /\ Len(frames') = n + 1 /\ frames'[n + 1] = f
      /\ Chain(frames') /\ NoLocker(frames') /\ Views(frames', n) = Activations
  BY PushFacts
<1>2. /\ throw'.exception = OutOfMemory /\ throw'.fp = n + 1 /\ throw'.ip = 0
      /\ throw'.correction = c
  BY DEF Thrown
<1>3. OutOfMemory \in Exceptions /\ throw' # NoThrow  BY <1>2, MethodAssumption DEF NoThrow
<1>4. n \in Nat /\ n + 1 \in 0 .. n + 1 /\ n + 1 > 0 /\ (n + 1) - 1 = n  BY DEF GoingOn
<1>5. f.method \in Methods => 0 - c = 0
  <2>1. f.method \in Methods => c = 0  BY Zenon
  <2> HIDE DEF c
  <2> QED BY <2>1
<1> HIDE DEF n, c
<1>6. NotYet(f, 0 - c, OutOfMemory)  BY <1>5 DEF NotYet
<1>7. Throwing(frames', throw')  BY <1>1, <1>2, <1>3, <1>6 DEF Throwing
<1>8. CallInv' /\ Activations' = Views(frames', Beginning(frames', throw'.fp))
  BY <1>1, <1>2, <1>3, <1>4, <1>7, ThrowSeen
<1>9. Beginning(frames', throw'.fp) = n  BY <1>1, <1>2, <1>4 DEF Beginning
<1>10. Calls!Raise(OutOfMemory)  BY <1>1, <1>2, <1>8, <1>9, SeenNow DEF Calls!Raise
<1> QED BY <1>8, <1>10

\* What pushFrame pushes, and what its callers make of it.
IsNew(f, m, resume) == \E p, n, lp : f = Frame(m, resume, p, n, lp)

LEMMA Pushes ==
  ASSUME NEW fs, NEW cs, NEW m, NEW sp, NEW resume
  PROVE  \E f : /\ IsNew(f, m, resume)
                /\ PushFrame(Pair(fs, cs), m, sp, resume).frames = Append(fs, f)
<1> DEFINE n == IF fs = <<>> THEN 1 ELSE Last(fs).stack
           p == sp - Size(m).argCount
           fits == FitsChunk(sp, Height(m), cs[n])
<1>1. Pair(fs, cs).frames = fs /\ Pair(fs, cs).chunks = cs  BY DEF Pair
<1>2. CASE fits
  <2>1. PushFrame(Pair(fs, cs), m, sp, resume)
          = [Pair(fs, cs) EXCEPT !.frames = Append(@, Frame(m, resume, p, n, p + 1))]
    BY <1>1, <1>2, Zenon DEF PushFrame
  <2>2. [Pair(fs, cs) EXCEPT !.frames = Append(@, Frame(m, resume, p, n, p + 1))].frames
          = Append(fs, Frame(m, resume, p, n, p + 1))
    BY DEF Pair
  <2>3. PICK f : f = Frame(m, resume, p, n, p + 1)  OBVIOUS
  <2> HIDE DEF n, p
  <2> QED BY <2>1, <2>2, <2>3 DEF IsNew
<1>3. CASE ~fits
  <2>1. PushFrame(Pair(fs, cs), m, sp, resume)
          = [frames |-> Append(fs, Frame(m, resume, p, n + 1, 0)),
             chunks |-> NextChunk(cs, n, Height(m) + Size(m).argCount)]
    BY <1>1, <1>3, Zenon DEF PushFrame
  <2>2. PushFrame(Pair(fs, cs), m, sp, resume).frames = Append(fs, Frame(m, resume, p, n + 1, 0))
    BY <2>1
  <2>3. PICK f : f = Frame(m, resume, p, n + 1, 0)  OBVIOUS
  <2> HIDE DEF n, p
  <2> QED BY <2>2, <2>3 DEF IsNew
<1> QED BY <1>2, <1>3

LEMMA PushesNow ==
  ASSUME NEW m, NEW sp, NEW resume
  PROVE  \E f : /\ IsNew(f, m, resume)
                /\ PushFrame(This, m, sp, resume).frames = Append(frames, f)
<1>1. This = Pair(frames, chunks)  BY DEF This, Pair
<1>2. \E f : /\ IsNew(f, m, resume)
             /\ PushFrame(Pair(frames, chunks), m, sp, resume).frames = Append(frames, f)
  BY Pushes
<1> QED BY <1>1, <1>2

\* The frame of a call, as it begins.
LEMMA NewFrame ==
  ASSUME NEW m, NEW resume, NEW f, IsNew(f, m, resume)
  PROVE  /\ f.method = m /\ f.at = 0 /\ f.previousIp = resume /\ f.syncObject = NoObject
         /\ View(f) = Calls!Activation(m, NoObject, resume)
         /\ \A v : /\ Changed(f, v).method = m /\ Changed(f, v).previousIp = resume
                   /\ Changed(f, v).at = v /\ Changed(f, v).syncObject = NoObject
         /\ \A o : /\ Freed(f, o).method = m /\ Freed(f, o).previousIp = resume
                   /\ Freed(f, o).at = 0 /\ Freed(f, o).syncObject = o
                   /\ View(Freed(f, o)) = Calls!Activation(m, o, resume)
<1>0. PICK p, n, lp : f = Frame(m, resume, p, n, lp)  BY DEF IsNew
<1>1. f.method = m /\ f.at = 0 /\ f.previousIp = resume /\ f.syncObject = NoObject
  BY <1>0 DEF Frame
<1>2. \A v : /\ Changed(f, v).method = m /\ Changed(f, v).previousIp = resume
             /\ Changed(f, v).at = v /\ Changed(f, v).syncObject = NoObject
  BY <1>0 DEF Frame, Changed
<1>3. \A o : /\ Freed(f, o).method = m /\ Freed(f, o).previousIp = resume
             /\ Freed(f, o).at = 0 /\ Freed(f, o).syncObject = o
  BY <1>0 DEF Frame, Freed
<1> QED BY <1>1, <1>2, <1>3 DEF View, Calls!Activation

\* Whatever is done to the frame that was just pushed.
LastFreed(fs, v) == [fs EXCEPT ![Len(fs)].syncObject = v]

LEMMA LastChanged ==
  ASSUME NEW fs, IsSeq(fs), NEW f, NEW v
  PROVE  /\ Moved(Append(fs, f), v) = Append(fs, Changed(f, v))
         /\ LastFreed(Append(fs, f), v) = Append(fs, Freed(f, v))
<1> DEFINE gs == Append(fs, f)
           n == Len(fs) + 1
<1>1. Len(gs) = n /\ gs[n] = f  BY AppendSeq
<1>2. Replaced(gs, n, Changed(f, v)) = Append(fs, Changed(f, v))
      /\ Replaced(gs, n, Freed(f, v)) = Append(fs, Freed(f, v))
  BY ReplacedLast
<1> HIDE DEF gs, n
<1>3. Moved(gs, v) = Replaced(gs, n, Changed(f, v))  BY <1>1, Zenon DEF Moved, Replaced, Changed
<1>4. LastFreed(gs, v) = Replaced(gs, n, Freed(f, v))
  BY <1>1, Zenon DEF LastFreed, Replaced, Freed
<1> QED BY <1>2, <1>3, <1>4 DEF gs

-----------------------------------------------------------------------------
(***************************************************************************)
(* Each action is a step of CallStack, or none                             *)
(***************************************************************************)
LEMMA RaiseIsStep ==
  ASSUME NEW e \in Exceptions, Calls!Raise(e)
  PROVE  Calls!Next
BY DEF Calls!Next

\* A thread in a Java method, as both specifications have it.
LEMMA JavaRuns ==
  ASSUME Verified, Inv, CallInv, InJava
  PROVE  /\ GoingOn /\ asleep = FALSE /\ Top.method \in Methods /\ ip = Top.at
         /\ ip \in Starts(Top.method) /\ ip \in Nat /\ NextIp \in Nat
         /\ Here = Kind(Top.method, Top.at) /\ NextIp = After(Top.method, Top.at)
         /\ Here # "plain" => NextIp \in Starts(Top.method)
         /\ Calls!InJava /\ Calls!Runs /\ Calls!Here = Here /\ Calls!FollowingHere = NextIp
         /\ Calls!Top.of = Top.method /\ Calls!Top.at = ip
         /\ Calls!Top.lock = Top.syncObject /\ Calls!Top.resume = Top.previousIp
<1>1. throw = NoThrow /\ frames # <<>> /\ ~asleep /\ Top.method \in Methods
  BY DEF InJava, Runs
<1>2. GoingOn  BY <1>1, GoingInJava
<1>3. asleep = FALSE  BY <1>1 DEF CallInv
<1>4. ip = Top.at  BY <1>1 DEF CallInv, Resting, Top
<1>5. Here = Kind(Top.method, Top.at) /\ NextIp = After(Top.method, Top.at)
  BY <1>4 DEF Here, NextIp
<1>6. ip \in Starts(Top.method)  BY <1>1, <1>2, <1>4 DEF GoingOn, Begun
<1>7. ip \in Nat /\ NextIp \in Nat /\ (Here # "plain" => NextIp \in Starts(Top.method))
  BY <1>1, <1>4, <1>5, <1>6, InstructionFacts
<1> QED BY <1>1, <1>2, <1>3, <1>4, <1>5, <1>6, <1>7, SeenNow

\* Where the exceptions of an instruction are looked for.
LEMMA AtFacts ==
  ASSUME Verified, Inv, CallInv, InJava
  PROVE  /\ At(Top, ip - 0) /\ At(Top, NextIp - 1)
         /\ Here \in {"system", "monitor"} => At(Top, NextIp - 0)
<1>1. /\ ip = Top.at /\ ip \in Nat /\ NextIp \in Nat
      /\ Here = Kind(Top.method, Top.at) /\ NextIp = After(Top.method, Top.at)
  BY JavaRuns
<1>2. ip - 0 = ip /\ NextIp - 0 = NextIp  BY <1>1
<1>3. At(Top, ip) /\ At(Top, NextIp - 1)  BY <1>1 DEF At
<1>4. Here \in {"system", "monitor"} => At(Top, NextIp)  BY <1>1 DEF At
<1> QED BY <1>2, <1>3, <1>4

LEMMA JumpSeen ==
  ASSUME Verified, Inv, CallInv, Jump
  PROVE  CallInv' /\ Calls!Next
<1>1. InJava /\ Here = "plain" /\ throw' = throw /\ held' = held /\ asleep' = asleep
  BY DEF Jump
<1>2. PICK pc \in Starts(Top.method) : ip' = pc /\ frames' = Moved(frames, pc)
  BY DEF Jump, GoTo
<1>3. /\ GoingOn /\ asleep = FALSE /\ Top.method \in Methods
      /\ Calls!InJava /\ Calls!Here = Here /\ Calls!Top.of = Top.method
      /\ throw.exception = NoException
  BY <1>1, JavaRuns, SeenNow
<1>4. CallInv' /\ throw'.exception = NoException /\ Activations' = Moved(Activations, pc)
  BY <1>1, <1>2, <1>3, MoveSeen
<1>5. Calls!Jump
  <2>1. pc \in Calls!Starts(Calls!Top.of)  BY <1>2, <1>3, SameTable
  <2>2. Activations' = Calls!Moved(Activations, pc)  BY <1>4, SameNames
  <2> QED BY <1>1, <1>3, <1>4, <2>1, <2>2 DEF Calls!Jump
<1> QED BY <1>4, <1>5 DEF Calls!Next

\* The instruction is done.
LEMMA OnwardSeen ==
  ASSUME Verified, Inv, GoingOn, Top.method \in Methods,
         After(Top.method, Top.at) \in Starts(Top.method),
         frames' = Moved(frames, After(Top.method, Top.at)), ip' = After(Top.method, Top.at),
         throw' = throw, asleep' = FALSE
  PROVE  /\ CallInv' /\ throw.exception = NoException /\ throw'.exception = NoException
         /\ Activations' = Calls!Moved(Activations, Calls!FollowingHere)
<1>1. CallInv' /\ throw'.exception = NoException
      /\ Activations' = Moved(Activations, After(Top.method, Top.at))
  BY MoveSeen
<1> QED BY <1>1, SeenNow, SameNames

LEMMA GoOnSeen ==
  ASSUME Verified, Inv, CallInv, GoOn
  PROVE  CallInv' /\ Calls!Next
<1>1. /\ InJava /\ Here \in {"native", "system", "static"}
      /\ throw' = throw /\ held' = held /\ asleep' = asleep
      /\ ip' = NextIp /\ frames' = Moved(frames, NextIp)
  BY DEF GoOn, GoTo
<1>2. /\ GoingOn /\ asleep = FALSE /\ Top.method \in Methods /\ NextIp \in Starts(Top.method)
      /\ NextIp = After(Top.method, Top.at) /\ Calls!InJava /\ Calls!Here = Here
  BY <1>1, JavaRuns
<1>3. /\ CallInv' /\ throw.exception = NoException /\ throw'.exception = NoException
      /\ Activations' = Calls!Moved(Activations, Calls!FollowingHere)
  BY <1>1, <1>2, OnwardSeen
<1>4. Calls!GoOn  BY <1>1, <1>2, <1>3 DEF Calls!GoOn
<1> QED BY <1>3, <1>4 DEF Calls!Next

LEMMA MonitorSeen ==
  ASSUME Verified, Inv, Inv', CallInv, NEW o \in Objects, Monitor(o)
  PROVE  CallInv' /\ Calls!Next
<1>1. InJava /\ Here = "monitor" /\ ip' = NextIp /\ asleep' = asleep  BY DEF Monitor
<1>2. /\ GoingOn /\ asleep = FALSE /\ Top.method \in Methods /\ NextIp \in Starts(Top.method)
      /\ NextIp = After(Top.method, Top.at) /\ Calls!InJava /\ Calls!Here = Here
  BY <1>1, JavaRuns
<1>3. CASE held' = Locked(held, o) /\ frames' = Moved(frames, NextIp) /\ throw' = throw
  <2>1. /\ CallInv' /\ throw.exception = NoException /\ throw'.exception = NoException
        /\ Activations' = Calls!Moved(Activations, Calls!FollowingHere)
    BY <1>1, <1>2, <1>3, OnwardSeen
  <2>2. Calls!Lock(o)  BY <1>1, <1>2, <1>3, <2>1, SameLocks DEF Calls!Lock
  <2> QED BY <2>1, <2>2 DEF Calls!Next
<1>4. CASE held[o] > 0 /\ held' = Unlocked(held, o) /\ frames' = Moved(frames, NextIp)
           /\ throw' = throw
  <2>1. /\ CallInv' /\ throw.exception = NoException /\ throw'.exception = NoException
        /\ Activations' = Calls!Moved(Activations, Calls!FollowingHere)
    BY <1>1, <1>2, <1>4, OnwardSeen
  <2>2. Calls!Unlock(o)  BY <1>1, <1>2, <1>4, <2>1, SameLocks DEF Calls!Unlock
  <2> QED BY <2>1, <2>2 DEF Calls!Next
<1>5. ASSUME NEW e \in Exceptions, throw' = Thrown(Len(frames), NextIp, e, FALSE),
             frames' = frames, held' = held
      PROVE  CallInv' /\ Calls!Next
  <2>1. At(Top, NextIp - 0)  BY <1>1, AtFacts
  <2>2. CallInv' /\ Calls!Raise(e)  BY <1>1, <1>2, <1>5, <2>1, RaiseSeen
  <2> QED BY <2>2, RaiseIsStep
<1>6. OutOfMemory \in Exceptions /\ IllegalMonitorState \in Exceptions  BY MethodAssumption
<1> QED BY <1>3, <1>4, <1>5, <1>6 DEF Monitor

LEMMA RaisesSeen ==
  ASSUME Verified, Inv, Inv', CallInv, NEW e \in Raised, Raise(e)
  PROVE  CallInv' /\ Calls!Next
<1>1. /\ InJava /\ frames' = frames /\ held' = held /\ asleep' = asleep
      /\ ip' = IF Here \in {"native", "system"} THEN NextIp ELSE ip
      /\ throw' = Thrown(Len(frames), ip', e, ip' # ip)
  BY DEF Raise
<1>2. GoingOn /\ asleep = FALSE /\ e \in Exceptions  BY <1>1, JavaRuns, FramesAssumption
<1>3. At(Top, ip - 0) /\ At(Top, NextIp - 1)  BY <1>1, AtFacts
<1>4. CASE ip' = ip
  <2>1. throw' = Thrown(Len(frames), ip, e, FALSE)  BY <1>1, <1>4
  <2>2. CallInv' /\ Calls!Raise(e)  BY <1>1, <1>2, <1>3, <2>1, RaiseSeen
  <2> QED BY <1>2, <2>2, RaiseIsStep
<1>5. CASE ip' # ip
  <2>1. throw' = Thrown(Len(frames), NextIp, e, TRUE)  BY <1>1, <1>5
  <2>2. CallInv' /\ Calls!Raise(e)  BY <1>1, <1>2, <1>3, <2>1, RaiseSeen
  <2> QED BY <1>2, <2>2, RaiseIsStep
<1> QED BY <1>4, <1>5

LEMMA SleepSeen ==
  ASSUME Verified, Inv, CallInv, Sleep
  PROVE  CallInv' /\ UNCHANGED Calls!vars
<1>1. /\ InJava /\ Here = "system" /\ ip' = NextIp /\ asleep' = TRUE
      /\ frames' = frames /\ held' = held /\ throw' = throw
  BY DEF Sleep
<1>2. /\ GoingOn /\ Top.method \in Methods /\ Here = Kind(Top.method, Top.at)
      /\ NextIp = After(Top.method, Top.at)
  BY <1>1, JavaRuns
<1>3. frames # <<>> /\ throw = NoThrow /\ Begun(Last(frames))
  BY <1>1 DEF InJava, Runs, CallInv, Resting
<1>4. Resting(frames', ip', asleep')  BY <1>1, <1>2, <1>3 DEF Resting, Top
<1>5. CallInv'  BY <1>1, <1>3, <1>4 DEF CallInv
<1>6. Activations' = Activations  BY <1>1, ShownNow, ShownNext
<1> QED BY <1>1, <1>5, <1>6 DEF Calls!vars

LEMMA WakeSeen ==
  ASSUME Verified, Inv, Inv', CallInv, Wake
  PROVE  CallInv' /\ Calls!Next
<1>1. asleep /\ asleep' = FALSE /\ ip' = ip /\ held' = held  BY DEF Wake
<1>2. /\ throw = NoThrow /\ frames # <<>> /\ Top.method \in Methods
      /\ Kind(Top.method, Top.at) = "system" /\ ip = After(Top.method, Top.at)
  BY <1>1 DEF CallInv, Resting, Top
<1>3. GoingOn  BY <1>2, GoingInJava
<1>4. Top.at \in Starts(Top.method)  BY <1>2, <1>3 DEF GoingOn, Begun
<1>5. ip \in Nat /\ ip \in Starts(Top.method)  BY <1>2, <1>4, InstructionFacts
<1>6. CASE frames' = Moved(frames, ip) /\ throw' = throw
  <2>1. /\ CallInv' /\ throw.exception = NoException /\ throw'.exception = NoException
        /\ Activations' = Calls!Moved(Activations, Calls!FollowingHere)
    BY <1>1, <1>2, <1>3, <1>5, <1>6, OnwardSeen
  <2>2. Calls!InJava /\ Calls!Here = "system"  BY <1>2, <1>3, SeenNow
  <2>3. Calls!GoOn  BY <1>1, <2>1, <2>2 DEF Calls!GoOn
  <2> QED BY <2>1, <2>3 DEF Calls!Next
<1>7. CASE throw' = Thrown(Len(frames), ip, Interrupted, FALSE) /\ frames' = frames
  <2>1. ip - 0 = ip /\ At(Top, ip)  BY <1>2, <1>5 DEF At
  <2>2. Interrupted \in Exceptions  BY MethodAssumption
  <2>3. CallInv' /\ Calls!Raise(Interrupted)  BY <1>1, <1>3, <1>7, <2>1, <2>2, RaiseSeen
  <2> QED BY <2>2, <2>3, RaiseIsStep
<1> QED BY <1>6, <1>7 DEF Wake

\* What an activation that has been called looks like to its caller.
MayCall(f, m, resume) == \A g : g.method = m /\ g.previousIp = resume => Called(f, g)

LEMMA PushedSeen ==
  ASSUME Verified, GoingOn, asleep = FALSE, NEW m \in Methods \cup Callbacks, m # Locker,
         NEW h, NEW resume, MayCall(Top, m, resume), Pushed(m, h, resume)
  PROVE  /\ CallInv' /\ throw.exception = NoException /\ throw'.exception = NoException
         /\ Activations' = Append(Activations, Calls!Activation(m, NoObject, resume))
         /\ held' = held
<1> DEFINE s == PushFrame(This, m, StackPointer(Top, h), resume)
<1>1. frames' = s.frames /\ ip' = 0 /\ held' = held /\ asleep' = asleep /\ throw' = throw
  BY DEF Pushed, Becomes
<1>2. PICK f : IsNew(f, m, resume) /\ s.frames = Append(frames, f)  BY PushesNow
<1> HIDE DEF s
<1>5. /\ f.method = m /\ f.at = 0 /\ f.previousIp = resume /\ f.syncObject = NoObject
      /\ View(f) = Calls!Activation(m, NoObject, resume)
  BY <1>2, NewFrame
<1>6. Called(Top, f)  BY <1>5 DEF MayCall
<1>7. frames' = Append(frames, f)  BY <1>1, <1>2
<1>8. asleep' = FALSE  BY <1>1
<1>9. /\ CallInv' /\ throw'.exception = NoException
      /\ Activations' = Append(Activations, View(f))
  BY <1>1, <1>5, <1>6, <1>7, <1>8, PushSeen
<1> QED BY <1>1, <1>5, <1>9, SeenNow

LEMMA OverflowSeen ==
  ASSUME Verified, Inv', GoingOn, asleep = FALSE, NEW m, NEW h, NEW pc, NEW native \in BOOLEAN,
         At(Top, pc - (IF native THEN 1 ELSE 0)), StackOverflow(m, h, pc, native)
  PROVE  CallInv' /\ Calls!Next
<1>1. /\ frames' = Overflowed(This).frames /\ held' = held /\ asleep' = asleep
      /\ throw' = Thrown(Len(frames), pc, OutOfMemory, native)
  BY DEF StackOverflow, Becomes
<1>2. Overflowed(This).frames = frames  BY DEF Overflowed, This
<1>3. OutOfMemory \in Exceptions  BY MethodAssumption
<1>4. CallInv' /\ Calls!Raise(OutOfMemory)  BY <1>1, <1>2, <1>3, RaiseSeen
<1> QED BY <1>3, <1>4, RaiseIsStep

LEMMA NotLocker ==
  /\ \A m \in Methods : m \notin Callbacks /\ m # Locker /\ m # "runClinit"
                        /\ m # "newInstanceReturnObject"
  /\ "runClinit" \in Callbacks /\ "newInstanceReturnObject" \in Callbacks
  /\ "runClinit" # Locker /\ "newInstanceReturnObject" # Locker
  /\ Locker \in Callbacks
BY MethodAssumption DEF Callbacks, Locker

\* What a method may call.
LEMMA JavaCalls ==
  ASSUME Verified, Inv, CallInv, InJava
  PROVE  /\ Here = "invoke" => \A m \in Methods : MayCall(Top, m, NextIp)
         /\ Here = "static" => MayCall(Top, "runClinit", ip)
         /\ Here = "system" => /\ MayCall(Top, "runClinit", NextIp)
                               /\ MayCall(Top, "newInstanceReturnObject", NextIp)
<1>1. /\ Top.method \in Methods /\ Here = Kind(Top.method, Top.at) /\ ip = Top.at
      /\ NextIp = After(Top.method, Top.at)
  BY JavaRuns
<1>2. Top.method \notin Callbacks  BY <1>1, NotLocker
<1> QED BY <1>1, <1>2, Zenon DEF MayCall, Called

LEMMA InvokeSeen ==
  ASSUME Verified, Inv, Inv', CallInv, NEW m \in Methods, Invoke(m)
  PROVE  CallInv' /\ Calls!Next
<1>1. InJava /\ Here = "invoke" /\ ~Code[m].sync  BY DEF Invoke
<1>2. PICK h : \/ Pushed(m, h, NextIp) \/ StackOverflow(m, h, ip, FALSE)
  BY DEF Invoke, PushesOrOverflows
<1>3. /\ GoingOn /\ asleep = FALSE /\ Calls!InJava /\ Calls!Here = Here
      /\ Calls!FollowingHere = NextIp
  BY <1>1, JavaRuns
<1>4. CASE Pushed(m, h, NextIp)
  <2>1. MayCall(Top, m, NextIp) /\ m \in Methods \cup Callbacks /\ m # Locker
    BY <1>1, JavaCalls, NotLocker
  <2>2. /\ CallInv' /\ throw.exception = NoException /\ throw'.exception = NoException
        /\ Activations' = Append(Activations, Calls!Activation(m, NoObject, NextIp))
        /\ held' = held
    BY <1>3, <1>4, <2>1, PushedSeen
  <2>3. NoObject \in Calls!Locks(m)  BY <1>1 DEF Calls!Locks
  <2>4. Calls!Locked(held, NoObject) = held  BY DEF Calls!Locked
  <2>5. Calls!Call(m, NoObject)  BY <1>1, <1>3, <2>2, <2>4 DEF Calls!Call
  <2> QED BY <2>2, <2>3, <2>5 DEF Calls!Next
<1>5. CASE StackOverflow(m, h, ip, FALSE)
  <2>1. At(Top, ip - 0)  BY <1>1, AtFacts
  <2> QED BY <1>3, <1>5, <2>1, OverflowSeen
<1> QED BY <1>2, <1>4, <1>5

LEMMA PushedToLockSeen ==
  ASSUME Verified, Inv, Inv', CallInv, NEW m \in Methods, NEW o \in Objects,
         InJava, Here = "invoke", Code[m].sync, NEW h, PushedToLock(m, o, h)
  PROVE  CallInv' /\ Calls!Next
<1>1. InJava /\ Here = "invoke" /\ Code[m].sync /\ ip' = 0 /\ asleep' = asleep
  BY DEF PushedToLock
<1>2. /\ GoingOn /\ asleep = FALSE /\ Calls!InJava /\ Calls!Here = Here
      /\ Calls!FollowingHere = NextIp
  BY <1>1, JavaRuns
<1> DEFINE fs == PushFrame(This, m, StackPointer(Top, h), NextIp).frames
<1>4. \/ /\ held' = Locked(held, o) /\ throw' = throw
         /\ frames' = [fs EXCEPT ![Len(fs)].syncObject = o]
      \/ /\ held' = held /\ throw' = Thrown(Len(fs), 0, OutOfMemory, FALSE)
         /\ frames' = Moved(fs, NotBegun)
  BY DEF PushedToLock
<1>7. PICK f : IsNew(f, m, NextIp) /\ fs = Append(frames, f)  BY PushesNow
<1> HIDE DEF fs
<1>8. IsSeq(frames) /\ m \notin Callbacks /\ m # Locker /\ m # "runClinit"
  BY <1>2, NotLocker DEF GoingOn
<1>9. fs = Append(frames, f) /\ Len(fs) = Len(frames) + 1  BY <1>7, <1>8, AppendSeq
<1>10. MayCall(Top, m, NextIp)  BY <1>1, JavaCalls
<1>11. CASE /\ held' = Locked(held, o) /\ throw' = throw
            /\ frames' = [fs EXCEPT ![Len(fs)].syncObject = o]
  <2>1. PICK g : g = Freed(f, o)  OBVIOUS
  <2>2. frames' = Append(frames, g)
    <3>1. LastFreed(fs, o) = Append(frames, Freed(f, o))  BY <1>8, <1>9, LastChanged
    <3> QED BY <1>11, <2>1, <3>1 DEF LastFreed
  <2>3. /\ g.method = m /\ g.previousIp = NextIp /\ g.at = 0
        /\ View(g) = Calls!Activation(m, o, NextIp)
    BY <1>7, <2>1, NewFrame
  <2>4. Called(Top, g)  BY <1>10, <2>3 DEF MayCall
  <2>5. /\ CallInv' /\ throw'.exception = NoException
        /\ Activations' = Append(Activations, View(g))
    BY <1>1, <1>2, <1>8, <1>11, <2>2, <2>3, <2>4, PushSeen
  <2>6. o \in Calls!Locks(m)  BY <1>1 DEF Calls!Locks
  <2>7. Calls!Call(m, o)
    BY <1>1, <1>2, <1>11, <2>3, <2>5, SameLocks, SeenNow DEF Calls!Call
  <2> QED BY <2>5, <2>6, <2>7 DEF Calls!Next
<1>12. CASE /\ held' = held /\ throw' = Thrown(Len(fs), 0, OutOfMemory, FALSE)
            /\ frames' = Moved(fs, NotBegun)
  <2>1. PICK g : g = Changed(f, NotBegun)  OBVIOUS
  <2>2. frames' = Append(frames, g)
    <3>1. Moved(fs, NotBegun) = Append(frames, Changed(f, NotBegun))
      BY <1>8, <1>9, LastChanged
    <3> QED BY <1>12, <2>1, <3>1
  <2>3. /\ g.method = m /\ g.previousIp = NextIp /\ g.at = NotBegun /\ g.syncObject = NoObject
    BY <1>7, <2>1, NewFrame
  <2>4. Called(Top, g)  BY <1>10, <2>3 DEF MayCall
  <2>5. CallInv' /\ Calls!Raise(OutOfMemory)
    BY <1>1, <1>2, <1>8, <1>9, <1>12, <2>2, <2>3, <2>4, BarePush
  <2>6. OutOfMemory \in Exceptions  BY MethodAssumption
  <2> QED BY <2>5, <2>6, RaiseIsStep
<1> QED BY <1>4, <1>11, <1>12

LEMMA InvokeSynchronizedSeen ==
  ASSUME Verified, Inv, Inv', CallInv, NEW m \in Methods, NEW o \in Objects,
         InvokeSynchronized(m, o)
  PROVE  CallInv' /\ Calls!Next
<1>1. InJava /\ Here = "invoke" /\ Code[m].sync  BY DEF InvokeSynchronized
<1>2. PICK h : PushedToLock(m, o, h) \/ StackOverflow(m, h, ip, FALSE)
  BY DEF InvokeSynchronized
<1>3. CASE PushedToLock(m, o, h)  BY <1>1, <1>3, PushedToLockSeen
<1>4. CASE StackOverflow(m, h, ip, FALSE)
  <2>1. GoingOn /\ asleep = FALSE /\ At(Top, ip - 0)  BY <1>1, JavaRuns, AtFacts
  <2> QED BY <1>4, <2>1, OverflowSeen
<1> QED BY <1>2, <1>3, <1>4

LEMMA NewInstanceOverflowsSeen ==
  ASSUME Verified, Inv, Inv', CallInv, NewInstanceOverflows
  PROVE  CallInv' /\ Calls!Next
<1>1. InJava  BY DEF NewInstanceOverflows
<1>2. PICK h : StackOverflow("newInstanceReturnObject", h, NextIp, TRUE)
  BY DEF NewInstanceOverflows
<1>3. GoingOn /\ asleep = FALSE /\ At(Top, NextIp - 1)  BY <1>1, JavaRuns, AtFacts
<1> QED BY <1>2, <1>3, OverflowSeen

LEMMA InitializeClassSeen ==
  ASSUME Verified, Inv, Inv', CallInv, InitializeClass
  PROVE  CallInv' /\ Calls!Next
<1> DEFINE c == "runClinit"
<1>1. InJava  BY DEF InitializeClass
<1>2. PICK h : \/ Here = "static" /\ PushesOrOverflows(c, h, ip, ip, FALSE)
               \/ Here = "system" /\ PushesOrOverflows(c, h, NextIp, NextIp, TRUE)
  BY DEF InitializeClass
<1>3. /\ GoingOn /\ asleep = FALSE /\ Calls!InJava /\ Calls!Here = Here
      /\ Calls!FollowingHere = NextIp /\ Calls!Top.at = ip
      /\ At(Top, ip - 0) /\ At(Top, NextIp - 1)
  BY <1>1, JavaRuns, AtFacts
<1>4. c \in Methods \cup Callbacks /\ c # Locker  BY NotLocker
<1>5. CASE Here = "static" /\ Pushed(c, h, ip)
  <2>1. MayCall(Top, c, ip)  BY <1>1, <1>5, JavaCalls
  <2>2. /\ CallInv' /\ throw.exception = NoException /\ throw'.exception = NoException
        /\ Activations' = Append(Activations, Calls!Activation(c, NoObject, ip))
        /\ held' = held
    BY <1>3, <1>4, <1>5, <2>1, PushedSeen
  <2>3. Calls!Initialize  BY <1>3, <1>5, <2>2 DEF Calls!Initialize
  <2> QED BY <2>2, <2>3 DEF Calls!Next
<1>6. CASE Here = "system" /\ Pushed(c, h, NextIp)
  <2>1. MayCall(Top, c, NextIp)  BY <1>1, <1>6, JavaCalls
  <2>2. /\ CallInv' /\ throw.exception = NoException /\ throw'.exception = NoException
        /\ Activations' = Append(Activations, Calls!Activation(c, NoObject, NextIp))
        /\ held' = held
    BY <1>3, <1>4, <1>6, <2>1, PushedSeen
  <2>3. Calls!Initialize  BY <1>3, <1>6, <2>2 DEF Calls!Initialize
  <2> QED BY <2>2, <2>3 DEF Calls!Next
<1>7. CASE StackOverflow(c, h, ip, FALSE)  BY <1>3, <1>7, OverflowSeen
<1>8. CASE StackOverflow(c, h, NextIp, TRUE)  BY <1>3, <1>8, OverflowSeen
<1> HIDE DEF c
<1> QED BY <1>2, <1>5, <1>6, <1>7, <1>8 DEF PushesOrOverflows

\* A thread in a callback.
LEMMA CallbackRuns ==
  ASSUME Verified, Inv, CallInv, NEW c \in Callbacks, c # Locker, InCustomCode(c)
  PROVE  /\ GoingOn /\ asleep = FALSE /\ Top.method = c /\ Top.at = 0
         /\ Top.syncObject = NoObject
         /\ \A pc : At(Top, pc)
         /\ \A g : g.previousIp = 0 => Called(Top, g)
<1>1. throw = NoThrow /\ frames # <<>> /\ ~asleep /\ Top.method = c
  BY DEF InCustomCode, Runs
<1>2. GoingOn /\ asleep = FALSE  BY <1>1, Going DEF CallInv
<1>3. c \notin Methods  BY NotLocker
<1>4. Top.at = 0  BY <1>1, <1>2, <1>3 DEF GoingOn, Begun
<1>5. Top.syncObject = NoObject
  <2>1. Len(frames) \in 1 .. Len(frames)  BY <1>2 DEF GoingOn
  <2> QED BY <1>1, <1>2, <2>1 DEF GoingOn, Chain
<1>6. \A pc : At(Top, pc)  BY <1>1, <1>3 DEF At
<1>7. \A g : g.previousIp = 0 => Called(Top, g)  BY <1>1, <1>3 DEF Called
<1> QED BY <1>1, <1>2, <1>4, <1>5, <1>6, <1>7

LEMMA RunClinitSeen ==
  ASSUME Verified, Inv, Inv', CallInv, RunClinit
  PROVE  CallInv' /\ Calls!Next
<1> DEFINE c == "runClinit"
<1>1. c \in Callbacks /\ c # Locker /\ InCustomCode(c)  BY NotLocker DEF RunClinit
<1>2. /\ GoingOn /\ asleep = FALSE /\ Top.method = c /\ At(Top, 0 - 0)
      /\ \A m : MayCall(Top, m, 0)
  BY <1>1, CallbackRuns DEF MayCall
<1>3. PICK m \in Methods \cup Callbacks :
        /\ m # Locker
        /\ Pushed(m, 3, 0) \/ StackOverflow(m, 3, 0, FALSE)
  BY NotLocker DEF RunClinit, PushesOrOverflows
<1>4. Calls!Runs /\ Calls!Top.of = c  BY <1>2, SeenNow
<1>5. CASE Pushed(m, 3, 0)
  <2>1. /\ CallInv' /\ throw.exception = NoException /\ throw'.exception = NoException
        /\ Activations' = Append(Activations, Calls!Activation(m, NoObject, 0))
        /\ held' = held
    BY <1>2, <1>3, <1>5, PushedSeen
  <2>2. Calls!InitializeStep(m)  BY <1>4, <2>1 DEF Calls!InitializeStep
  <2> QED BY <2>1, <2>2, SameNames DEF Calls!Next
<1>6. CASE StackOverflow(m, 3, 0, FALSE)  BY <1>2, <1>6, OverflowSeen
<1> QED BY <1>3, <1>5, <1>6

LEMMA PushIsPair ==
  ASSUME NEW fs, NEW cs, NEW m, NEW sp, NEW resume
  PROVE  PushFrame(Pair(fs, cs), m, sp, resume)
           = Pair(PushFrame(Pair(fs, cs), m, sp, resume).frames,
                  PushFrame(Pair(fs, cs), m, sp, resume).chunks)
<1> DEFINE n == IF fs = <<>> THEN 1 ELSE Last(fs).stack
           p == sp - Size(m).argCount
           fits == FitsChunk(sp, Height(m), cs[n])
           s == PushFrame(Pair(fs, cs), m, sp, resume)
<1>1. Pair(fs, cs).frames = fs /\ Pair(fs, cs).chunks = cs  BY DEF Pair
<1>2. ASSUME fits PROVE \E gs, ds : s = Pair(gs, ds)
  <2>1. s = [Pair(fs, cs) EXCEPT !.frames = Append(@, Frame(m, resume, p, n, p + 1))]
    BY <1>1, <1>2, Zenon DEF PushFrame
  <2>2. [Pair(fs, cs) EXCEPT !.frames = Append(@, Frame(m, resume, p, n, p + 1))]
          = Pair(Append(fs, Frame(m, resume, p, n, p + 1)), cs)
    BY DEF Pair
  <2> HIDE DEF s
  <2> QED BY <2>1, <2>2
<1>3. ASSUME ~fits PROVE \E gs, ds : s = Pair(gs, ds)
  <2>1. s = Pair(Append(fs, Frame(m, resume, p, n + 1, 0)),
                 NextChunk(cs, n, Height(m) + Size(m).argCount))
    BY <1>1, <1>3, Zenon DEF PushFrame, Pair
  <2> HIDE DEF s
  <2> QED BY <2>1
<1> HIDE DEF s
<1>4. PICK gs, ds : s = Pair(gs, ds)  BY <1>2, <1>3
<1>5. s.frames = gs /\ s.chunks = ds  BY <1>4 DEF Pair
<1> QED BY <1>4, <1>5 DEF s

\* newInstance pushes two frames.
LEMMA AppendTwo ==
  ASSUME NEW c, IsSeq(c), NEW a, NEW b
  PROVE  Append(Append(c, a), b) = c \o <<a, b>>
<1> DEFINE S == Everything(c) \cup {a, b}
           d == Append(Append(c, a), b)
           e == c \o <<a, b>>
<1>1. c \in Seq(S) /\ a \in S /\ b \in S  BY DEF IsSeq
<1> HIDE DEF S
<1>2. d \in Seq(S) /\ e \in Seq(S)  BY <1>1
<1>3. Len(d) = Len(c) + 2 /\ Len(e) = Len(c) + 2  BY <1>1
<1>4. ASSUME NEW i \in 1 .. Len(d) PROVE d[i] = e[i]  BY <1>1
<1> HIDE DEF d, e
<1>5. d = e  BY <1>2, <1>3, <1>4, SeqEqual
<1> QED BY <1>5 DEF d, e

LEMMA NewInstanceSeen ==
  ASSUME Verified, Inv, Inv', CallInv, NEW m \in Methods, NewInstance(m)
  PROVE  CallInv' /\ Calls!Next
<1> DEFINE c == "newInstanceReturnObject"
<1>1. InJava /\ Here = "system" /\ ip' = 0 /\ held' = held /\ asleep' = asleep
  BY DEF NewInstance
<1>2. /\ GoingOn /\ asleep = FALSE /\ Calls!InJava /\ Calls!Here = Here
      /\ Calls!FollowingHere = NextIp /\ MayCall(Top, c, NextIp)
      /\ throw = NoThrow /\ IsSeq(frames) /\ Len(frames) \in Nat
  BY <1>1, JavaRuns, JavaCalls DEF GoingOn
<1>3. PICK h :
        LET callback == PushFrame(This, "newInstanceReturnObject", StackPointer(Top, h), NextIp)
            sp == StackPointer(Last(callback.frames), 2)
        IN  \/ /\ Becomes(PushFrame(callback, m, sp, 0))
               /\ throw' = throw
            \/ /\ LET s == Overflowed(callback) IN
                  Becomes([s EXCEPT !.frames = Moved(@, NotBegun)])
               /\ throw' = Thrown(Len(callback.frames), 0, OutOfMemory, TRUE)
  BY DEF NewInstance
<1> DEFINE callback == PushFrame(This, c, StackPointer(Top, h), NextIp)
           fs == callback.frames
           cs == callback.chunks
           sp == StackPointer(Last(fs), 2)
           over == Overflowed(callback)
<1>4. \/ frames' = PushFrame(callback, m, sp, 0).frames /\ throw' = throw
      \/ /\ frames' = [over EXCEPT !.frames = Moved(@, NotBegun)].frames
         /\ throw' = Thrown(Len(fs), 0, OutOfMemory, TRUE)
  BY <1>3 DEF Becomes
<1>5. This = Pair(frames, chunks)  BY DEF This, Pair
<1>6. callback = Pair(fs, cs)
  <2>1. PICK p : p = StackPointer(Top, h)  OBVIOUS
  <2> HIDE DEF c
  <2> QED BY <1>5, <2>1, PushIsPair
<1>8. PICK g : IsNew(g, c, NextIp) /\ fs = Append(frames, g)  BY PushesNow
<1> HIDE DEF callback, fs, cs
<1>9. fs = Append(frames, g)  BY <1>8
<1>10. /\ g.method = c /\ g.at = 0 /\ g.previousIp = NextIp /\ g.syncObject = NoObject
       /\ View(g) = Calls!Activation(c, NoObject, NextIp)
  BY <1>8, NewFrame
<1>11. c \in Callbacks /\ c \notin Methods /\ c # Locker /\ c # "runClinit"  BY NotLocker
<1>12. Called(Top, g)  BY <1>2, <1>10 DEF MayCall
<1>13. CASE frames' = PushFrame(callback, m, sp, 0).frames /\ throw' = throw
  <2>1. /\ IsSeq(fs) /\ Len(fs) = Len(frames) + 1 /\ fs[Len(fs)] = g
        /\ Chain(fs) /\ NoLocker(fs)
        /\ Views(fs, Len(fs)) = Append(Activations, View(g))
    BY <1>2, <1>9, <1>10, <1>11, <1>12, PushFacts
  <2>2. PushFrame(Pair(fs, cs), m, sp, 0).frames = frames'  BY <1>6, <1>13
  <2>3. PICK f : IsNew(f, m, 0) /\ frames' = Append(fs, f)  BY <2>2, Pushes
  <2>4. /\ f.method = m /\ f.at = 0 /\ f.previousIp = 0
        /\ View(f) = Calls!Activation(m, NoObject, 0)
    BY <2>3, NewFrame
  <2>5. m \notin Callbacks /\ m # Locker  BY NotLocker
  <2>6. Begun(g) /\ Called(g, f) /\ Begun(f)
    BY <1>10, <1>11, <2>4, FirstInstruction DEF Begun, Called
  <2>7. frames' = Append(fs, f)  BY <2>3
  <2>8. /\ IsSeq(frames') /\ Len(frames') = Len(fs) + 1 /\ frames'[Len(fs) + 1] = f
        /\ Views(frames', Len(fs) + 1) = Append(Views(fs, Len(fs)), View(f))
    BY <2>1, <2>7, AppendSeq, ViewsAppend
  <2>9. Chain(frames') /\ NoLocker(frames')
    <3>1. Len(fs) > 0 /\ 0 # KILLTHREAD  BY <1>2, <2>1 DEF KILLTHREAD
    <3> QED BY <2>1, <2>4, <2>5, <2>6, <2>7, <3>1, AppendChain
  <2>10. Resting(frames', ip', FALSE)
    <3>1. Last(frames') = f  BY <2>8 DEF Last
    <3> QED BY <1>1, <2>4, <2>6, <3>1 DEF Resting
  <2>11. /\ CallInv' /\ throw'.exception = NoException
         /\ Activations' = Views(frames', Len(frames'))
    BY <1>1, <1>2, <1>13, <2>8, <2>9, <2>10, RestSeen
  <2>12. Activations' = Append(Append(Activations, View(g)), View(f))
    BY <2>1, <2>8, <2>11
  <2>13. Activations' = Activations \o <<View(g), View(f)>>
    BY <1>2, <2>12, AppendTwo, SeenNow
  <2>14. Activations' = Activations \o
           << Calls!Activation(c, NoObject, NextIp), Calls!Activation(m, NoObject, 0) >>
    BY <1>10, <2>4, <2>13
  <2>15. Calls!NewInstance(m)
    BY <1>1, <1>2, <1>13, <2>14 DEF Calls!NewInstance
  <2> QED BY <2>11, <2>15 DEF Calls!Next
<1>14. CASE /\ frames' = [over EXCEPT !.frames = Moved(@, NotBegun)].frames
            /\ throw' = Thrown(Len(fs), 0, OutOfMemory, TRUE)
  <2>1. over = Pair(fs, SubSeq(cs, 1, Last(fs).stack))  BY <1>6, OverflowedPair
  <2> HIDE DEF over
  <2>2. frames' = Moved(fs, NotBegun)  BY <1>14, <2>1 DEF Pair
  <2>3. PICK f : f = Changed(g, NotBegun)  OBVIOUS
  <2>4. frames' = Append(frames, f)  BY <1>2, <1>9, <2>2, <2>3, LastChanged
  <2>5. f.method = c /\ f.previousIp = NextIp /\ f.at = NotBegun /\ f.syncObject = NoObject
    BY <1>8, <2>3, NewFrame
  <2>6. Called(Top, f)  BY <1>2, <2>5 DEF MayCall
  <2>7. throw' = Thrown(Len(frames) + 1, 0, OutOfMemory, TRUE)
    BY <1>2, <1>9, <1>14, AppendSeq
  <2>8. CallInv' /\ Calls!Raise(OutOfMemory)
    BY <1>1, <1>2, <1>11, <2>4, <2>5, <2>6, <2>7, BarePush
  <2>9. OutOfMemory \in Exceptions  BY MethodAssumption
  <2> QED BY <2>8, <2>9, RaiseIsStep
<1> QED BY <1>4, <1>13, <1>14

LEMMA CustomCodeEndsSeen ==
  ASSUME Verified, Inv, CallInv, CustomCodeEnds
  PROVE  CallInv' /\ Calls!Next
<1>1. PICK c \in Callbacks : c # Locker /\ InCustomCode(c)  BY NotLocker DEF CustomCodeEnds
<1>2. PopFrame /\ held' = held /\ asleep' = asleep /\ throw' = throw  BY DEF CustomCodeEnds
<1>3. /\ GoingOn /\ asleep = FALSE /\ Top.method = c /\ Top.syncObject = NoObject
  BY <1>1, CallbackRuns
<1>4. c \notin Methods  BY NotLocker
<1>5. Top.previousIp # KILLTHREAD
  <2>1. /\ Len(frames) \in Nat /\ Len(frames) > 0 /\ Top = frames[Len(frames)] /\ Chain(frames)
    BY <1>3 DEF GoingOn
  <2>2. Len(frames) # 1  BY <1>3, <1>4, <2>1 DEF Chain
  <2>3. Len(frames) - 1 \in 1 .. Len(frames) - 1 /\ (Len(frames) - 1) + 1 = Len(frames)
    BY <2>1, <2>2
  <2>4. frames[(Len(frames) - 1) + 1].previousIp # KILLTHREAD  BY <2>1, <2>3 DEF Chain
  <2> QED BY <2>1, <2>3, <2>4
<1>6. /\ CallInv' /\ throw'.exception = NoException
      /\ Activations' = Moved(Front(Activations), Top.previousIp)
      /\ Front(Activations) # <<>>
  BY <1>2, <1>3, <1>5, PopSeen
<1>7. /\ Calls!Runs /\ Calls!Top.of = c /\ Calls!Top.lock = NoObject
      /\ Calls!Top.resume = Top.previousIp /\ throw.exception = NoException
  BY <1>3, SeenNow
<1>8. Activations' = Calls!Ended(Calls!Front(Activations), Calls!Top.resume)
  BY <1>6, <1>7, SameNames DEF Calls!Ended
<1>9. Calls!Holds(held, NoObject) /\ Calls!Unlocked(held, NoObject) = held
  BY DEF Calls!Holds, Calls!Unlocked
<1>10. Calls!Return  BY <1>1, <1>2, <1>4, <1>6, <1>7, <1>8, <1>9 DEF Calls!Return, Locker
<1> QED BY <1>6, <1>10 DEF Calls!Next

\* There are no frames any more.
LEMMA EndSeen ==
  ASSUME Verified, frames' = <<>>, throw' = NoThrow, asleep' = FALSE
  PROVE  CallInv' /\ throw'.exception = NoException /\ Activations' = <<>>
<1>1. IsSeq(<<>>) /\ Len(<<>>) = 0  BY DEF IsSeq
<1>2. Chain(frames') /\ NoLocker(frames') /\ Resting(frames', ip', FALSE)
  BY <1>1 DEF Chain, NoLocker, Resting
<1>3. CallInv' /\ throw'.exception = NoException /\ Activations' = Views(frames', 0)
  BY <1>1, <1>2, RestSeen
<1> QED BY <1>3, ViewsSeq

LEMMA ReturnSeen ==
  ASSUME Verified, Inv, Inv', CallInv, Return
  PROVE  CallInv' /\ Calls!Next
<1>1. InJava /\ Here = "plain" /\ asleep' = asleep  BY DEF Return
<1>2. /\ GoingOn /\ asleep = FALSE /\ Top.method \in Methods
      /\ Calls!Runs /\ Calls!Here = Here /\ Calls!Top.of = Top.method
      /\ Calls!Top.lock = Top.syncObject /\ Calls!Top.resume = Top.previousIp
      /\ throw = NoThrow /\ throw.exception = NoException
  BY <1>1, JavaRuns, SeenNow DEF GoingOn
<1>3. CASE Holds(held, Top.syncObject)
  <2>1. held' = Unlocked(held, Top.syncObject) /\ throw' = throw  BY <1>3 DEF Return
  <2>2. /\ CallInv' /\ throw'.exception = NoException
        /\ Activations' = Calls!Ended(Front(Activations), Top.previousIp)
    <3>1. CASE Top.previousIp = KILLTHREAD
      <4>1. frames' = <<>>  BY <1>3, <3>1 DEF Return
      <4>2. CallInv' /\ throw'.exception = NoException /\ Activations' = <<>>
        BY <1>1, <1>2, <2>1, <4>1, EndSeen
      <4>3. /\ Len(frames) \in Nat /\ Len(frames) > 0 /\ Top = frames[Len(frames)]
            /\ Chain(frames)
        BY <1>2 DEF GoingOn
      <4>4. Len(frames) = 1
        <5>1. ASSUME Len(frames) # 1 PROVE FALSE
          <6>1. Len(frames) - 1 \in 1 .. Len(frames) - 1 /\ (Len(frames) - 1) + 1 = Len(frames)
            BY <4>3, <5>1
          <6>2. frames[(Len(frames) - 1) + 1].previousIp # KILLTHREAD  BY <4>3, <6>1 DEF Chain
          <6> QED BY <3>1, <4>3, <6>1, <6>2
        <5> QED BY <5>1
      <4>5. Front(Activations) = Views(frames, 0)  BY <1>2, <4>4, SeenNow
      <4>6. Front(Activations) = <<>>  BY <4>5, ViewsSeq
      <4> QED BY <4>2, <4>6 DEF Calls!Ended
    <3>2. CASE Top.previousIp # KILLTHREAD
      <4>1. PopFrame  BY <1>3, <3>2 DEF Return
      <4>2. /\ CallInv' /\ throw'.exception = NoException
            /\ Activations' = Moved(Front(Activations), Top.previousIp)
            /\ Front(Activations) # <<>>
        BY <1>1, <1>2, <2>1, <3>2, <4>1, PopSeen
      <4> QED BY <4>2, SameNames DEF Calls!Ended
    <3> QED BY <3>1, <3>2
  <2>3. Activations' = Calls!Ended(Calls!Front(Activations), Calls!Top.resume)
    BY <1>2, <2>2, SameNames
  <2>4. Calls!Holds(held, Calls!Top.lock) /\ held' = Calls!Unlocked(held, Calls!Top.lock)
    BY <1>2, <1>3, <2>1, SameLocks
  <2>5. Calls!Top.of # "initThreadBehavior"  BY <1>2, NotLocker DEF Locker
  <2>6. Calls!Return  BY <1>1, <1>2, <2>2, <2>3, <2>4, <2>5 DEF Calls!Return
  <2> QED BY <2>2, <2>6 DEF Calls!Next
<1>4. CASE ~Holds(held, Top.syncObject)
  <2>1. /\ throw' = Thrown(Len(frames), ip, IllegalMonitorState, FALSE)
        /\ frames' = frames /\ held' = held
    BY <1>4 DEF Return
  <2>2. At(Top, ip - 0)  BY <1>1, AtFacts
  <2>3. IllegalMonitorState \in Exceptions  BY MethodAssumption
  <2>4. CallInv' /\ Calls!Raise(IllegalMonitorState)
    BY <1>1, <1>2, <2>1, <2>2, <2>3, RaiseSeen
  <2> QED BY <2>3, <2>4, RaiseIsStep
<1> QED BY <1>3, <1>4

\* The run method is an activation before it has taken its lock.
Awaiting(f) == [of |-> f.method, at |-> f.at, lock |-> NoObject, resume |-> f.previousIp]

LEMMA StartSeen ==
  ASSUME NEW fs, Len(fs) = 2, fs[2].method = Locker, fs[2].at = 0
  PROVE  Shown(fs, NoThrow) = <<Awaiting(fs[1]), View(fs[2])>>
<1> DEFINE c == Shown(fs, NoThrow)
<1>1. DepthOf(fs, NoThrow) = 2  BY DEF DepthOf, NotBegun
<1>2. LockIn(fs, 1) = NoObject /\ LockIn(fs, 2) = fs[2].syncObject  BY DEF LockIn
<1>3. c = [i \in 1 .. 2 |-> c[i]] /\ c[1] = Awaiting(fs[1]) /\ c[2] = View(fs[2])
  BY <1>1, <1>2 DEF Shown, Awaiting, View
<1> HIDE DEF c
<1>4. IsSeq(c) /\ Len(c) = 2  BY <1>3, FirstOnes
<1> DEFINE d == <<Awaiting(fs[1]), View(fs[2])>>
<1>5. IsSeq(d) /\ Len(d) = 2 /\ d[1] = Awaiting(fs[1]) /\ d[2] = View(fs[2])
  <2>1. PICK a, b : a = Awaiting(fs[1]) /\ b = View(fs[2])  OBVIOUS
  <2>2. <<a, b>> \in Seq({a, b})  OBVIOUS
  <2>3. IsSeq(<<a, b>>)  BY <2>2, SeqOfItsElements
  <2> QED BY <2>1, <2>3
<1> HIDE DEF d
<1>6. \A i \in 1 .. 2 : i = 1 \/ i = 2  OBVIOUS
<1>7. c = d  BY <1>3, <1>4, <1>5, <1>6, SameSequence
<1> QED BY <1>7 DEF c, d

\* The one activation that starts with its method.
LEMMA OneSeen ==
  ASSUME NEW fs, IsSeq(fs), Len(fs) = 1
  PROVE  Views(fs, 1) = <<View(fs[1])>>
<1> DEFINE c == Views(fs, 1)
           d == <<View(fs[1])>>
<1>1. IsSeq(c) /\ Len(c) = 1 /\ c[1] = View(fs[1])  BY ViewsSeq
<1>2. IsSeq(d) /\ Len(d) = 1 /\ d[1] = View(fs[1])
  <2>1. PICK a : a = View(fs[1])  OBVIOUS
  <2>2. <<a>> \in Seq({a})  OBVIOUS
  <2>3. IsSeq(<<a>>)  BY <2>2, SeqOfItsElements
  <2> QED BY <2>1, <2>3
<1> HIDE DEF c, d
<1>3. \A i \in 1 .. 1 : i = 1  OBVIOUS
<1>4. c = d  BY <1>1, <1>2, <1>3, SameSequence
<1> QED BY <1>4 DEF c, d

LEMMA TakesLockSeen ==
  ASSUME Verified, "start" \notin MayFail, Inv, CallInv, TakesLock
  PROVE  CallInv' /\ Calls!Next
<1>1. /\ throw = NoThrow /\ frames # <<>> /\ ~asleep /\ Top.method = Locker
      /\ frames' = Front(frames) /\ ip' = Top.previousIp
      /\ held' = Locked(held, frames'[1].syncObject) /\ throw' = throw /\ asleep' = asleep
  BY DEF TakesLock, InCustomCode, Runs, Locker
<1>2. /\ IsSeq(frames) /\ Len(frames) \in Nat
      /\ \A i \in 1 .. Len(frames) : IsFrame(frames[i])
  BY DEF Inv, Sound, IsSeq, FrameFits
<1>3. Len(frames) > 0  BY <1>1, <1>2, EmptySeq DEF IsSeq
<1>4. Top = frames[Len(frames)] /\ Len(frames) \in 1 .. Len(frames)  BY <1>2, <1>3 DEF Top, Last
<1>5. /\ Len(frames) = 2 /\ frames[2] = Top
      /\ frames[1].syncObject \in Objects /\ frames[1].at = 0 /\ Top.previousIp = 0
  BY <1>1, <1>4 DEF CallInv, Starting
<1>6. frames[1].method \in Methods  BY <1>5 DEF CallInv, Chain
<1>7. Begun(Top)  BY <1>1 DEF CallInv, Resting, Top
<1>8. Top.at = 0  BY <1>1, <1>7, NotLocker DEF Begun
<1>9. Front(frames) = SubSeq(frames, 1, 1)  BY <1>5 DEF Front
<1>10. /\ IsSeq(frames') /\ Len(frames') = 1 /\ frames'[1] = frames[1]
  <2>1. 1 \in 0 .. Len(frames) /\ 1 \in 1 .. 1  BY <1>5
  <2> QED BY <1>1, <1>2, <1>9, <2>1, FrontSeq
<1>11. Chain(frames')
  <2>1. 1 \in 0 .. Len(frames)  BY <1>5
  <2> QED BY <1>1, <1>2, <1>9, <2>1, PrefixChain DEF CallInv
<1>12. NoLocker(frames')
  <2>1. \A i \in 1 .. 1 : i = 1  OBVIOUS
  <2> QED BY <1>6, <1>10, <2>1, NotLocker DEF NoLocker
<1>13. Resting(frames', ip', FALSE)
  <2>1. Last(frames') = frames[1]  BY <1>10 DEF Last
  <2> QED BY <1>1, <1>5, <1>6, <2>1, FirstInstruction DEF Resting, Begun
<1>14. asleep' = FALSE  BY <1>1 DEF CallInv
<1>15. /\ CallInv' /\ throw'.exception = NoException
       /\ Activations' = Views(frames', Len(frames'))
  BY <1>1, <1>10, <1>11, <1>12, <1>13, <1>14, RestSeen
<1>16. Activations' = <<View(frames[1])>>  BY <1>10, <1>15, OneSeen
<1>17. Activations = <<Awaiting(frames[1]), View(Top)>>
  BY <1>1, <1>5, <1>8, ShownNow, StartSeen
<1>18. throw.exception = NoException  BY <1>1 DEF NoThrow
<1>19. PICK a, b, o : a = Awaiting(frames[1]) /\ b = View(Top) /\ o = frames[1].syncObject
  OBVIOUS
<1>20. Activations = <<a, b>>  BY <1>17, <1>19
<1>21. Activations # <<>> /\ Last(Activations) = b /\ Front(Activations) = <<a>>
       /\ Len(Activations) = 2
  <2>1. <<a, b>> # <<>> /\ Last(<<a, b>>) = b  BY DEF Last
  <2>2. SubSeq(<<a, b>>, 1, 1) = <<a>> /\ Len(<<a, b>>) = 2
    <3> DEFINE e == <<a, b>>
    <3>1. e \in Seq({a, b}) /\ Len(e) = 2 /\ e[1] = a  OBVIOUS
    <3> HIDE DEF e
    <3>2. 1 \in 0 .. Len(e) /\ 1 \in 1 .. 1  BY <3>1
    <3>3. IsSeq(e)  BY <3>1, SeqOfItsElements
    <3>4. IsSeq(SubSeq(e, 1, 1)) /\ Len(SubSeq(e, 1, 1)) = 1 /\ SubSeq(e, 1, 1)[1] = a
      <4>1. /\ IsSeq(SubSeq(e, 1, 1)) /\ Len(SubSeq(e, 1, 1)) = 1
            /\ \A i \in 1 .. 1 : SubSeq(e, 1, 1)[i] = e[i]
        BY <3>2, <3>3, FrontSeq
      <4> QED BY <3>1, <3>2, <4>1
    <3>5. <<a>> \in Seq({a}) /\ Len(<<a>>) = 1 /\ <<a>>[1] = a  OBVIOUS
    <3>6. IsSeq(<<a>>)  BY <3>5, SeqOfItsElements
    <3>7. \A i \in 1 .. 1 : i = 1  OBVIOUS
    <3>8. SubSeq(e, 1, 1) = <<a>>  BY <3>4, <3>5, <3>6, <3>7, SameSequence
    <3> QED BY <3>1, <3>8 DEF e
  <2> QED BY <1>20, <2>1, <2>2 DEF Front
<1>22. [<<a>> EXCEPT ![1].lock = o] = <<View(frames[1])>>
  <2>1. [a EXCEPT !.lock = o] = View(frames[1])  BY <1>19 DEF Awaiting, View
  <2>2. [<<a>> EXCEPT ![1].lock = o] = <<[a EXCEPT !.lock = o]>>  OBVIOUS
  <2> QED BY <2>1, <2>2
<1>23. Calls!Runs /\ Calls!Top.of = "initThreadBehavior"
  <2>1. b.of = Locker  BY <1>1, <1>19 DEF View
  <2> QED BY <1>18, <1>21, <2>1, SameNames DEF Calls!Runs, Calls!Top, Locker
<1>24. Activations' = [Calls!Front(Activations) EXCEPT ![Len(Activations) - 1].lock = o]
  <2>1. Calls!Front(Activations) = <<a>>  BY <1>21, SameNames
  <2>2. Len(Activations) - 1 = 1  BY <1>21
  <2> QED BY <1>16, <1>22, <2>1, <2>2
<1>25. held' = Calls!Locked(held, o)  BY <1>1, <1>10, <1>19, SameLocks
<1>26. Calls!TakesLock(o) /\ o \in Objects
  BY <1>1, <1>5, <1>19, <1>23, <1>24, <1>25 DEF Calls!TakesLock
<1> QED BY <1>15, <1>26 DEF Calls!Next

-----------------------------------------------------------------------------
LEMMA InitSeen ==
  ASSUME Verified, Inv, Init
  PROVE  CallInv /\ Calls!Init
<1>1. PICK m \in ThreadBodies, o \in Objects :
       LET run == PushFrame([frames |-> <<>>, chunks |-> <<STACKCHUNKSIZE>>],
                            m, Code[m].argCount - 1, KILLTHREAD)
           synchronized == [run EXCEPT !.frames[1].syncObject = o]
           start == IF Code[m].sync
                    THEN PushFrame(synchronized, "initThreadBehavior",
                                   StackPointer(run.frames[1], 0), 0)
                    ELSE run
       IN  frames = start.frames /\ chunks = start.chunks
  BY DEF Init
<1>2. throw = NoThrow /\ ip = 0 /\ asleep = FALSE /\ held = [x \in Objects |-> 0]
  BY DEF Init
<1>3. m \in Methods /\ m # Locker /\ m \notin Callbacks  BY MethodAssumption, NotLocker
<1> DEFINE run == PushFrame(Pair(<<>>, <<STACKCHUNKSIZE>>), m, Code[m].argCount - 1, KILLTHREAD)
           fs == run.frames
           gs == [fs EXCEPT ![1].syncObject = o]
           sp == StackPointer(fs[1], 0)
<1>4. IF Code[m].sync
      THEN frames = PushFrame([run EXCEPT !.frames[1].syncObject = o], Locker, sp, 0).frames
      ELSE frames = fs
  BY <1>1 DEF Pair, Locker
<1>5. PICK f : IsNew(f, m, KILLTHREAD) /\ fs = Append(<<>>, f)
  BY Pushes
<1>6. /\ f.method = m /\ f.at = 0 /\ f.previousIp = KILLTHREAD /\ f.syncObject = NoObject
      /\ View(f) = Calls!Activation(m, NoObject, KILLTHREAD)
  BY <1>5, NewFrame
<1>7. PICK cs : run = Pair(fs, cs)
  <2> HIDE DEF fs
  <2> QED BY PushIsPair DEF fs
<1> HIDE DEF run, fs
<1>8. IsSeq(fs) /\ Len(fs) = 1 /\ fs[1] = f
  <2>1. PICK e : e = <<>>  OBVIOUS
  <2>2. IsSeq(e) /\ Len(e) = 0 /\ Len(e) + 1 = 1  BY <2>1 DEF IsSeq
  <2>3. IsSeq(Append(e, f)) /\ Len(Append(e, f)) = Len(e) + 1 /\ Append(e, f)[Len(e) + 1] = f
    BY <2>2, AppendSeq
  <2> QED BY <1>5, <2>1, <2>2, <2>3
<1>9. Begun(f)  BY <1>3, <1>6, FirstInstruction DEF Begun
<1>10. \A i \in 1 .. 1 : i = 1  OBVIOUS
<1>11. CASE ~Code[m].sync
  <2>1. frames = fs  BY <1>4, <1>11
  <2>2. Chain(frames) /\ NoLocker(frames)
    <3>1. Len(frames) - 1 = 0 /\ 1 .. 0 = {}  BY <1>8, <2>1
    <3> QED BY <1>3, <1>6, <1>8, <1>10, <2>1, <3>1 DEF Chain, NoLocker
  <2>3. Last(frames) = f  BY <1>8, <2>1 DEF Last
  <2>4. Resting(frames, ip, asleep)  BY <1>2, <1>6, <1>9, <2>3 DEF Resting
  <2>5. CallInv
    <3>1. Starting(frames)  BY <2>2, NoneStarting
    <3> QED BY <1>2, <2>2, <2>4, <3>1 DEF CallInv
  <2>6. DepthOf(frames, throw) = 1
    <3>1. Len(frames) = 1 /\ frames[1].at # NotBegun  BY <1>6, <1>8, <2>1 DEF NotBegun
    <3> QED BY <1>2, <3>1 DEF DepthOf
  <2>7. Shown(frames, throw) = Views(frames, 1)
    <3>1. 1 \in 0 .. Len(frames)  BY <1>8, <2>1
    <3> QED BY <1>8, <2>1, <2>2, <2>6, <3>1, ShownIsViews
  <2>8. Activations = <<Calls!Activation(m, NoObject, KILLTHREAD)>>
    BY <1>6, <1>8, <2>1, <2>7, OneSeen, ShownNow
  <2>9. Calls!Init  BY <1>2, <1>11, <2>8, SameNames DEF Calls!Init, NoThrow
  <2> QED BY <2>5, <2>9
<1>12. CASE Code[m].sync
  <2>1. frames = PushFrame([run EXCEPT !.frames[1].syncObject = o], Locker, sp, 0).frames
    BY <1>4, <1>12
  <2>2. [run EXCEPT !.frames[1].syncObject = o] = Pair(gs, cs)
    <3>1. [Pair(fs, cs) EXCEPT !.frames[1].syncObject = o] = Pair(gs, cs)  BY DEF Pair
    <3> HIDE DEF gs
    <3> QED BY <1>7, <3>1
  <2>3. PICK h : h = Freed(f, o)  OBVIOUS
  <2>4. /\ h.method = m /\ h.at = 0 /\ h.previousIp = KILLTHREAD /\ h.syncObject = o
    BY <1>5, <2>3, NewFrame
  <2>5. gs = Replaced(fs, 1, h)  BY <1>8, <2>3 DEF Replaced, Freed
  <2>6. IsSeq(gs) /\ Len(gs) = 1 /\ gs[1] = h
    <3>1. 1 \in 1 .. Len(fs)  BY <1>8
    <3> HIDE DEF gs
    <3> QED BY <1>8, <2>5, <3>1, ElementReplaced
  <2> HIDE DEF gs
  <2>7. PICK g : IsNew(g, Locker, 0) /\ frames = Append(gs, g)
    <3>1. frames = PushFrame(Pair(gs, cs), Locker, sp, 0).frames  BY <2>1, <2>2
    <3> HIDE DEF sp
    <3> QED BY <3>1, Pushes
  <2>8. /\ g.method = Locker /\ g.at = 0 /\ g.previousIp = 0 /\ g.syncObject = NoObject
        /\ View(g) = Calls!Activation(Locker, NoObject, 0)
    BY <2>7, NewFrame
  <2>9. Len(frames) = 2 /\ frames[1] = h /\ frames[2] = g
    <3>1. 1 \in 1 .. Len(gs) /\ Len(gs) + 1 = 2  BY <2>6
    <3>2. /\ Len(Append(gs, g)) = Len(gs) + 1 /\ Append(gs, g)[Len(gs) + 1] = g
          /\ \A i \in 1 .. Len(gs) : Append(gs, g)[i] = gs[i]
      BY <2>6, AppendSeq
    <3> QED BY <2>6, <2>7, <3>1, <3>2
  <2>10. Begun(h) /\ Begun(g)
    BY <1>3, <2>4, <2>8, FirstInstruction, NotLocker DEF Begun
  <2>11. \A i \in 1 .. 2 : i = 1 \/ i = 2  OBVIOUS
  <2>12. Chain(frames)
    <3>1. Len(frames) - 1 = 1 /\ 1 + 1 = 2  BY <2>9
    <3>2. \A i \in 1 .. 2 : frames[i].method \in Callbacks => frames[i].syncObject = NoObject
      BY <1>3, <2>4, <2>8, <2>9, <2>11
    <3>3. \A i \in 1 .. 1 : /\ Begun(frames[i]) /\ frames[i + 1].previousIp # KILLTHREAD
                            /\ frames[i + 1].method = Locker
      BY <1>10, <2>8, <2>9, <2>10, <3>1 DEF KILLTHREAD
    <3> QED BY <1>3, <2>4, <2>9, <3>1, <3>2, <3>3 DEF Chain
  <2>13. Starting(frames)
    BY <1>3, <2>4, <2>8, <2>9, <2>11 DEF Starting
  <2>14. Resting(frames, ip, asleep)
    <3>1. Last(frames) = g  BY <2>9 DEF Last
    <3> QED BY <1>2, <2>8, <2>10, <3>1, NotLocker DEF Resting
  <2>15. CallInv  BY <1>2, <2>12, <2>13, <2>14 DEF CallInv
  <2>16. Awaiting(h) = Calls!Activation(m, NoObject, KILLTHREAD)
    BY <2>4 DEF Awaiting, Calls!Activation
  <2>17. Activations = << Calls!Activation(m, NoObject, KILLTHREAD),
                          Calls!Activation(Locker, NoObject, 0) >>
    BY <1>2, <2>8, <2>9, <2>16, ShownNow, StartSeen
  <2>18. Calls!Init  BY <1>2, <1>12, <2>17, SameNames DEF Calls!Init, NoThrow, Locker
  <2> QED BY <2>15, <2>18
<1> QED BY <1>11, <1>12

-----------------------------------------------------------------------------
(***************************************************************************)
(* The steps of throwException                                             *)
(***************************************************************************)
LEMMA UnwindingNow ==
  ASSUME Verified, Inv, CallInv, Unwinds
  PROVE  /\ IsSeq(frames) /\ Len(frames) \in Nat /\ throw.fp \in 1 .. Len(frames)
         /\ \A i \in 1 .. Len(frames) : IsFrame(frames[i])
         /\ Chain(frames) /\ NoLocker(frames) /\ asleep = FALSE
         /\ throw.exception \in Exceptions /\ throw.exception # NoException
         /\ throw = [exception |-> throw.exception, fp |-> throw.fp, ip |-> throw.ip,
                     correction |-> throw.correction]
         /\ Activations = Views(frames, Beginning(frames, throw.fp))
         /\ \/ Begun(ThisFrame) /\ At(ThisFrame, IpOffset)
            \/ throw.fp = Len(frames) /\ NotYet(ThisFrame, IpOffset, throw.exception)
<1>1. throw # NoThrow /\ throw.fp > 0  BY DEF Unwinds
<1>2. asleep = FALSE /\ Throwing(frames, throw) /\ Chain(frames)  BY <1>1 DEF CallInv
<1>3. /\ IsSeq(frames) /\ Len(frames) \in Nat /\ throw.fp \in 0 .. Len(frames)
      /\ \A i \in 1 .. Len(frames) : IsFrame(frames[i])
  BY DEF Inv, Sound, IsSeq, FrameFits
<1>4. throw.fp \in 1 .. Len(frames)  BY <1>1, <1>3
<1>5. /\ NoLocker(frames) /\ throw.exception \in Exceptions
      /\ \/ Begun(ThisFrame) /\ At(ThisFrame, IpOffset)
         \/ throw.fp = Len(frames) /\ NotYet(ThisFrame, IpOffset, throw.exception)
  BY <1>1, <1>2 DEF Throwing, ThisFrame, IpOffset
<1>6. throw.exception # NoException  BY <1>5, MethodAssumption
<1>7. DepthOf(frames, throw) = Beginning(frames, throw.fp)
  BY <1>1 DEF DepthOf, Beginning
<1>8. Beginning(frames, throw.fp) \in 0 .. Len(frames)  BY <1>3, <1>4 DEF Beginning
<1>9. Activations = Views(frames, Beginning(frames, throw.fp))
  BY <1>3, <1>5, <1>7, <1>8, ShownIsViews, ShownNow
<1>10. throw = [exception |-> throw.exception, fp |-> throw.fp, ip |-> throw.ip,
                correction |-> throw.correction]
  BY DEF Inv
<1> QED BY <1>2, <1>3, <1>4, <1>5, <1>6, <1>9, <1>10

\* What CallStack sees of an activation that has begun.
LEMMA UnwindingSeen ==
  ASSUME Verified, TablesFit, Inv, CallInv, Unwinds, Begun(ThisFrame), At(ThisFrame, IpOffset)
  PROVE  /\ Activations = Views(frames, throw.fp) /\ Len(Activations) = throw.fp
         /\ Front(Activations) = Views(frames, throw.fp - 1)
         /\ Calls!Unwinds /\ Calls!Handler = Handler
         /\ Calls!Top.of = ThisFrame.method /\ Calls!Top.lock = ThisFrame.syncObject
         /\ Handler # 0 => ThisFrame.method \in Methods
         /\ ThisFrame.method \in Methods =>
              Handler = FindHandler(ThisFrame.method, ThisFrame.at, throw.exception)
<1>1. /\ Len(frames) \in Nat /\ throw.fp \in 1 .. Len(frames)
      /\ throw.exception # NoException
      /\ Activations = Views(frames, Beginning(frames, throw.fp))
  BY UnwindingNow
<1>2. throw.fp \in Nat /\ throw.fp > 0  BY <1>1
<1>3. ThisFrame.at # NotBegun  BY BegunFacts
<1>4. Beginning(frames, throw.fp) = throw.fp  BY <1>3 DEF Beginning, ThisFrame
<1>5. /\ Activations = Views(frames, throw.fp) /\ Len(Activations) = throw.fp
      /\ Activations # <<>>
  BY <1>1, <1>2, <1>4, ViewsSeq
<1>6. /\ Front(Activations) = Views(frames, throw.fp - 1)
      /\ Last(Activations) = View(ThisFrame)
  BY <1>2, <1>5, ViewsFront DEF ThisFrame
<1>7. Calls!Top = View(ThisFrame)  BY <1>6, SameNames DEF Calls!Top
<1>8. /\ Calls!Top.of = ThisFrame.method /\ Calls!Top.lock = ThisFrame.syncObject
      /\ Calls!Top.at = ThisFrame.at
  BY <1>7 DEF View
<1>9. Calls!Unwinds  BY <1>1, <1>5 DEF Calls!Unwinds
<1>10. ASSUME ThisFrame.method \in Methods
       PROVE  Handler = FindHandler(ThisFrame.method, ThisFrame.at, throw.exception)
  <2>1. ThisFrame.at \in Starts(ThisFrame.method)  BY <1>10 DEF Begun
  <2>2. FindHandler(ThisFrame.method, IpOffset, throw.exception)
          = FindHandler(ThisFrame.method, ThisFrame.at, throw.exception)
    BY <1>10, <2>1, HandlerAt
  <2> QED BY <1>10, <2>2 DEF Handler
<1>11. Calls!Handler = Handler
  <2>1. CASE ThisFrame.method \in Methods
    BY <1>8, <1>10, <2>1, SameHandler DEF Calls!Handler
  <2>2. CASE ThisFrame.method \notin Methods
    BY <1>8, <2>2 DEF Calls!Handler, Handler
  <2> QED BY <2>1, <2>2
<1>12. Handler # 0 => ThisFrame.method \in Methods  BY DEF Handler
<1> QED BY <1>5, <1>6, <1>8, <1>9, <1>10, <1>11, <1>12

LEMMA CatchSeen ==
  ASSUME Verified, TablesFit, "unwind" \notin MayFail, Inv, CallInv, Catch
  PROVE  CallInv' /\ Calls!Next
<1> DEFINE n == throw.fp
           fs == SubSeq(frames, 1, n)
           pc == Code[ThisFrame.method].handlers[Handler].target
<1>1. /\ Unwinds /\ Handler # 0 /\ held' = held /\ asleep' = asleep
      /\ ip' = pc /\ frames' = Moved(fs, pc) /\ throw' = NoThrow
  BY DEF Catch, Fails
<1>2. /\ IsSeq(frames) /\ Len(frames) \in Nat /\ n \in 1 .. Len(frames)
      /\ \A i \in 1 .. Len(frames) : IsFrame(frames[i])
      /\ Chain(frames) /\ NoLocker(frames) /\ asleep = FALSE
      /\ \/ Begun(ThisFrame) /\ At(ThisFrame, IpOffset)
         \/ NotYet(ThisFrame, IpOffset, throw.exception)
  BY <1>1, UnwindingNow
<1>3. Begun(ThisFrame) /\ At(ThisFrame, IpOffset)
  <2>1. ASSUME NotYet(ThisFrame, IpOffset, throw.exception) PROVE FALSE
    <3>1. ThisFrame.method \in Methods  BY <1>1 DEF Handler
    <3>2. Code[ThisFrame.method].sync /\ IpOffset = 0 /\ throw.exception = OutOfMemory
      BY <2>1, <3>1 DEF NotYet
    <3>3. FindHandler(ThisFrame.method, IpOffset, throw.exception) = 0
      BY <3>1, <3>2, NoHandlerYet
    <3> QED BY <1>1, <3>1, <3>3 DEF Handler
  <2> QED BY <1>2, <2>1
<1>4. /\ Activations = Views(frames, n)
      /\ Calls!Unwinds /\ Calls!Handler = Handler /\ Calls!Top.of = ThisFrame.method
      /\ ThisFrame.method \in Methods
      /\ Handler = FindHandler(ThisFrame.method, ThisFrame.at, throw.exception)
  BY <1>1, <1>3, UnwindingSeen
<1>5. pc \in Starts(ThisFrame.method)  BY <1>1, <1>4, HandlerTarget
<1> HIDE DEF n, pc
<1>6. n \in Nat /\ n > 0 /\ n \in 0 .. Len(frames) /\ n \in 1 .. n  BY <1>2
<1>7. IsSeq(fs) /\ Len(fs) = n /\ \A i \in 1 .. n : fs[i] = frames[i]  BY <1>2, <1>6, FrontSeq
<1>8. Chain(fs) /\ NoLocker(fs)  BY <1>2, <1>6, PrefixChain
<1>9. fs[n] = ThisFrame /\ IsFrame(fs[n])  BY <1>2, <1>6, <1>7 DEF ThisFrame, n
<1>10. MayGoTo(fs[n], pc)  BY <1>4, <1>5, <1>9 DEF MayGoTo
<1> HIDE DEF fs
<1>11. /\ IsSeq(frames') /\ Len(frames') = n /\ Chain(frames') /\ NoLocker(frames')
       /\ Resting(frames', pc, FALSE)
       /\ Views(frames', n) = Moved(Views(fs, n), pc)
  <2>1. /\ IsSeq(Moved(fs, pc)) /\ Len(Moved(fs, pc)) = n /\ Chain(Moved(fs, pc))
        /\ NoLocker(Moved(fs, pc)) /\ Resting(Moved(fs, pc), pc, FALSE)
        /\ Views(Moved(fs, pc), n) = Moved(Views(fs, n), pc)
    BY <1>6, <1>7, <1>8, <1>9, <1>10, MovedFrame
  <2> QED BY <1>1, <2>1
<1>12. Views(fs, n) = Views(frames, n)  BY <1>7, ViewsKept
<1>13. /\ CallInv' /\ throw'.exception = NoException
       /\ Activations' = Views(frames', Len(frames'))
  BY <1>1, <1>2, <1>11, RestSeen
<1>14. Activations' = Calls!Moved(Activations, pc)
  BY <1>4, <1>11, <1>12, <1>13, SameNames
<1>15. Calls!Catch  BY <1>1, <1>4, <1>13, <1>14 DEF Calls!Catch, pc
<1> QED BY <1>13, <1>15 DEF Calls!Next

\* Where throwException looks in the frame below: the return address of g is
\* corrected if g is a method, and not if it is a callback.
LEMMA AtCaller ==
  ASSUME Verified, NEW f, Begun(f), NEW g, g.method \in Methods \cup Callbacks, Called(f, g)
  PROVE  At(f, g.previousIp - CorrectionBelow(g.method))
<1>1. CASE f.method \notin Methods  BY <1>1 DEF At
<1>2. CASE f.method \in Methods
  <2>1. f.at \in Starts(f.method) /\ f.at \in Nat /\ After(f.method, f.at) \in Nat
    BY <1>2, InstructionFacts DEF Begun
  <2>2. CASE g.method \in Methods
    <3>1. g.previousIp = After(f.method, f.at) /\ g.method \notin Callbacks
      BY <1>2, <2>2, NotLocker DEF Called
    <3> QED BY <3>1 DEF At, CorrectionBelow
  <2>3. CASE g.method \notin Methods
    <3>1. \/ g.previousIp = f.at
          \/ g.previousIp = After(f.method, f.at) /\ Kind(f.method, f.at) = "system"
      BY <1>2, <2>3 DEF Called
    <3>2. CorrectionBelow(g.method) = 0  BY <2>3 DEF CorrectionBelow
    <3>3. g.previousIp - 0 = g.previousIp  BY <2>1, <3>1
    <3> QED BY <3>1, <3>2, <3>3 DEF At
  <2> QED BY <2>2, <2>3
<1> QED BY <1>1, <1>2

\* The lock of a frame is given back or turns out to be gone.
LEMMA FreedFrames ==
  ASSUME NEW fs, IsSeq(fs), Len(fs) \in Nat, NEW n \in 1 .. Len(fs), IsFrame(fs[n]),
         Chain(fs), NoLocker(fs)
  PROVE  LET gs == WithoutLock(fs, n)
         IN  /\ IsSeq(gs) /\ Len(gs) = Len(fs) /\ Chain(gs) /\ NoLocker(gs)
             /\ gs = Replaced(fs, n, Freed(fs[n], NoObject))
             /\ gs[n].method = fs[n].method /\ gs[n].at = fs[n].at
             /\ \A i \in 1 .. n - 1 : gs[i] = fs[i]
<1> DEFINE f == Freed(fs[n], NoObject)
           gs == Replaced(fs, n, f)
<1>1. WithoutLock(fs, n) = gs  BY DEF WithoutLock, Replaced, Freed
<1>2. IsSeq(gs) /\ Len(gs) = Len(fs)
      /\ \A i \in 1 .. Len(fs) : gs[i] = IF i = n THEN f ELSE fs[i]
  BY ElementReplaced
<1>3. /\ f.at = fs[n].at /\ f.method = fs[n].method /\ f.previousIp = fs[n].previousIp
      /\ f.syncObject = NoObject
  BY ChangedFields
<1>4. \A i \in 1 .. n - 1 : i \in 1 .. Len(fs) /\ i # n  OBVIOUS
<1> HIDE DEF f, gs
<1>5. Chain(gs)
  <2>1. \A i \in 1 .. Len(fs) :
           /\ gs[i].method = fs[i].method /\ gs[i].previousIp = fs[i].previousIp
           /\ gs[i].syncObject \in {fs[i].syncObject, NoObject}
           /\ i < Len(fs) => gs[i].at = fs[i].at
    BY <1>2, <1>3
  <2> QED BY <1>2, <2>1, ChainKept
<1>6. NoLocker(gs)  BY <1>2, <1>3 DEF NoLocker
<1> QED BY <1>1, <1>2, <1>3, <1>4, <1>5, <1>6 DEF gs, f

LEMMA UnwindSeen ==
  ASSUME Verified, TablesFit, "unwind" \notin MayFail, Inv, Inv', CallInv, Unwind
  PROVE  CallInv' /\ (Calls!Next \/ UNCHANGED Calls!vars)
<1> DEFINE n == throw.fp
           g == frames[n]
           e == Seen(g.method, throw.exception)
           c == CorrectionBelow(g.method)
<1>1. /\ Unwinds /\ Handler = 0 /\ Holds(held, g.syncObject) /\ asleep' = asleep
      /\ held' = Unlocked(held, g.syncObject)
      /\ frames' = WithoutLock(frames, n)
      /\ throw' = [throw EXCEPT !.exception = Seen(g.method, @), !.fp = @ - 1,
                                !.ip = g.previousIp, !.correction = c]
  BY DEF Unwind, Fails, ThisFrame
<1>2. /\ IsSeq(frames) /\ Len(frames) \in Nat /\ n \in 1 .. Len(frames)
      /\ \A i \in 1 .. Len(frames) : IsFrame(frames[i])
      /\ Chain(frames) /\ NoLocker(frames) /\ asleep = FALSE
      /\ throw.exception \in Exceptions
      /\ throw = [exception |-> throw.exception, fp |-> throw.fp, ip |-> throw.ip,
                  correction |-> throw.correction]
      /\ Activations = Views(frames, Beginning(frames, n))
      /\ \/ Begun(ThisFrame) /\ At(ThisFrame, IpOffset)
         \/ n = Len(frames) /\ NotYet(ThisFrame, IpOffset, throw.exception)
  BY <1>1, UnwindingNow
<1>3. throw' = [exception |-> e, fp |-> n - 1, ip |-> g.previousIp, correction |-> c]
  <2>1. PICK x, p, q : x = throw.exception /\ p = throw.ip /\ q = throw.correction  OBVIOUS
  <2>2. throw = [exception |-> x, fp |-> n, ip |-> p, correction |-> q]  BY <1>2, <2>1
  <2>3. throw' = [throw EXCEPT !.exception = e, !.fp = n - 1, !.ip = g.previousIp,
                               !.correction = c]
    BY <1>1
  <2> HIDE DEF n, g, e, c
  <2> QED BY <2>2, <2>3
<1>4. ThisFrame = g  BY DEF ThisFrame
<1>5. e \in Exceptions  BY <1>2, MethodAssumption DEF Seen
<1> HIDE DEF n, e, c
<1>6. /\ throw'.exception = e /\ throw'.fp = n - 1 /\ throw'.ip = g.previousIp
      /\ throw'.correction = c
  BY <1>3
<1>7. throw' # NoThrow  BY <1>5, <1>6, MethodAssumption DEF NoThrow
<1>8. /\ IsSeq(frames') /\ Len(frames') = Len(frames) /\ Chain(frames') /\ NoLocker(frames')
      /\ \A i \in 1 .. n - 1 : frames'[i] = frames[i]
  BY <1>1, <1>2, FreedFrames
<1>9. n - 1 \in 0 .. Len(frames') /\ n \in Nat /\ n > 0  BY <1>2, <1>8
<1>10. ASSUME n - 1 > 0
       PROVE  /\ Begun(frames'[n - 1]) /\ At(frames'[n - 1], g.previousIp - c)
  <2>1. /\ n - 1 \in 1 .. n - 1 /\ n - 1 \in 1 .. Len(frames) - 1 /\ (n - 1) + 1 = n
    BY <1>2, <1>9, <1>10
  <2>2. Begun(frames[n - 1]) /\ (frames[(n - 1) + 1].method # Locker
                                   => Called(frames[n - 1], frames[(n - 1) + 1]))
    BY <1>2, <2>1 DEF Chain
  <2>3. g.method # Locker /\ g.method \in Methods \cup Callbacks
    BY <1>2 DEF NoLocker, IsFrame
  <2>4. Called(frames[n - 1], g)  BY <2>1, <2>2, <2>3
  <2>5. At(frames[n - 1], g.previousIp - c)  BY <2>2, <2>3, <2>4, AtCaller DEF c
  <2> QED BY <1>8, <2>1, <2>2, <2>5
<1>11. Throwing(frames', throw')  BY <1>5, <1>6, <1>8, <1>10 DEF Throwing
<1>12. CallInv' /\ Activations' = Views(frames', Beginning(frames', throw'.fp))
  BY <1>1, <1>2, <1>6, <1>7, <1>8, <1>9, <1>11, ThrowSeen
<1>13. Beginning(frames', throw'.fp) = n - 1
  <2>1. n - 1 > 0 => frames'[n - 1].at # NotBegun  BY <1>10, BegunFacts
  <2> QED BY <1>6, <2>1 DEF Beginning
<1>14. Activations' = Views(frames, n - 1)
  <2>1. Views(frames', n - 1) = Views(frames, n - 1)
    <3>1. \A i \in 1 .. n - 1 : View(frames'[i]) = View(frames[i])  BY <1>8
    <3> QED BY <3>1, ViewsKept
  <2> QED BY <1>12, <1>13, <2>1
<1>15. CASE Begun(ThisFrame) /\ At(ThisFrame, IpOffset)
  <2>1. /\ Front(Activations) = Views(frames, n - 1)
        /\ Calls!Unwinds /\ Calls!Handler = Handler
        /\ Calls!Top.of = g.method /\ Calls!Top.lock = g.syncObject
    BY <1>1, <1>4, <1>15, UnwindingSeen DEF n
  <2>2. Activations' = Calls!Front(Activations)  BY <1>14, <2>1, SameNames
  <2>3. Calls!Holds(held, g.syncObject) /\ held' = Calls!Unlocked(held, g.syncObject)
    BY <1>1, SameLocks
  <2>4. throw'.exception = Calls!Seen(g.method, throw.exception)  BY <1>6, SameHandler DEF e
  <2>5. Calls!Propagate  BY <1>1, <2>1, <2>2, <2>3, <2>4 DEF Calls!Propagate
  <2> QED BY <1>12, <2>5 DEF Calls!Next
<1>16. CASE n = Len(frames) /\ NotYet(ThisFrame, IpOffset, throw.exception)
  <2>1. g.at = NotBegun /\ g.syncObject = NoObject /\ g.method # "runClinit"
    BY <1>4, <1>16 DEF NotYet
  <2>2. held' = held  BY <1>1, <2>1 DEF Unlocked
  <2>3. throw'.exception = throw.exception  BY <1>6, <2>1 DEF Seen, e
  <2>4. Beginning(frames, n) = n - 1  BY <1>9, <2>1 DEF Beginning
  <2>5. Activations' = Activations  BY <1>2, <1>14, <2>4
  <2> QED BY <1>12, <2>2, <2>3, <2>5 DEF Calls!vars
<1> QED BY <1>2, <1>15, <1>16

LEMMA RestartOnErrorSeen ==
  ASSUME Verified, TablesFit, Inv, Inv', CallInv, RestartOnError
  PROVE  CallInv' /\ Calls!Next
<1> DEFINE n == throw.fp
           fs == SubSeq(frames, 1, n)
           g == frames[n]
<1>1. /\ Unwinds /\ Handler = 0 /\ ~Holds(held, g.syncObject) /\ asleep' = asleep
      /\ frames' = WithoutLock(fs, n) /\ held' = held
      /\ throw' = [throw EXCEPT !.exception = IllegalMonitorState]
  BY DEF RestartOnError, ThisFrame
<1>2. /\ IsSeq(frames) /\ Len(frames) \in Nat /\ n \in 1 .. Len(frames)
      /\ \A i \in 1 .. Len(frames) : IsFrame(frames[i])
      /\ Chain(frames) /\ NoLocker(frames) /\ asleep = FALSE
      /\ throw = [exception |-> throw.exception, fp |-> throw.fp, ip |-> throw.ip,
                  correction |-> throw.correction]
      /\ \/ Begun(ThisFrame) /\ At(ThisFrame, IpOffset)
         \/ NotYet(ThisFrame, IpOffset, throw.exception)
  BY <1>1, UnwindingNow
<1>3. ThisFrame = g  BY DEF ThisFrame
<1>4. Begun(g) /\ At(g, throw.ip - throw.correction)
  <2>1. ~NotYet(ThisFrame, IpOffset, throw.exception)
    BY <1>1, <1>3 DEF NotYet, Holds
  <2> QED BY <1>2, <1>3, <2>1 DEF IpOffset
<1>5. /\ Activations = Views(frames, n) /\ Len(Activations) = n
      /\ Calls!Unwinds /\ Calls!Handler = Handler
      /\ Calls!Top.lock = g.syncObject
  BY <1>1, <1>2, <1>3, <1>4, UnwindingSeen DEF IpOffset
<1> HIDE DEF n, g
<1>6. /\ throw'.exception = IllegalMonitorState /\ throw'.fp = n
      /\ throw'.ip = throw.ip /\ throw'.correction = throw.correction
  <2>1. PICK x, m, p, q : x = throw.exception /\ m = throw.fp /\ p = throw.ip
                          /\ q = throw.correction
    OBVIOUS
  <2>2. throw = [exception |-> x, fp |-> m, ip |-> p, correction |-> q]  BY <1>2, <2>1
  <2>3. throw' = [exception |-> IllegalMonitorState, fp |-> m, ip |-> p, correction |-> q]
    BY <1>1, <2>2
  <2> QED BY <2>1, <2>3 DEF n
<1>7. IllegalMonitorState \in Exceptions /\ throw' # NoThrow
  BY <1>6, MethodAssumption DEF NoThrow
<1>8. n \in Nat /\ n > 0 /\ n \in 0 .. Len(frames) /\ n \in 1 .. n /\ n \in 0 .. n  BY <1>2
<1>9. IsSeq(fs) /\ Len(fs) = n /\ \A i \in 1 .. n : fs[i] = frames[i]  BY <1>2, <1>8, FrontSeq
<1>10. Chain(fs) /\ NoLocker(fs)  BY <1>2, <1>8, PrefixChain
<1>11. fs[n] = g /\ IsFrame(fs[n])  BY <1>2, <1>8, <1>9 DEF g
<1> HIDE DEF fs
<1>12. /\ IsSeq(frames') /\ Len(frames') = n /\ Chain(frames') /\ NoLocker(frames')
       /\ frames' = Replaced(fs, n, Freed(g, NoObject))
       /\ frames'[n].method = g.method /\ frames'[n].at = g.at
  <2>1. LET gs == WithoutLock(fs, n)
        IN  /\ IsSeq(gs) /\ Len(gs) = Len(fs) /\ Chain(gs) /\ NoLocker(gs)
            /\ gs = Replaced(fs, n, Freed(fs[n], NoObject))
            /\ gs[n].method = fs[n].method /\ gs[n].at = fs[n].at
    BY <1>8, <1>9, <1>10, <1>11, FreedFrames
  <2> QED BY <1>1, <1>9, <1>11, <2>1
<1>13. Begun(frames'[n]) /\ At(frames'[n], throw.ip - throw.correction)
  BY <1>4, <1>12 DEF Begun, At
<1>14. Throwing(frames', throw')  BY <1>6, <1>7, <1>12, <1>13 DEF Throwing
<1>15. CallInv' /\ Activations' = Views(frames', Beginning(frames', throw'.fp))
  BY <1>1, <1>2, <1>6, <1>7, <1>8, <1>12, <1>14, ThrowSeen
<1>16. Beginning(frames', throw'.fp) = n
  <2>1. frames'[n].at # NotBegun  BY <1>13, BegunFacts
  <2> QED BY <1>6, <2>1 DEF Beginning
<1>17. Activations' = Replaced(Activations, n, View(Freed(g, NoObject)))
  <2>1. Views(Replaced(fs, n, Freed(g, NoObject)), n)
          = Replaced(Views(fs, n), n, View(Freed(g, NoObject)))
    BY <1>8, <1>9, ViewsReplaced
  <2>2. Views(fs, n) = Views(frames, n)  BY <1>9, ViewsKept
  <2> QED BY <1>5, <1>12, <1>15, <1>16, <2>1, <2>2
<1>18. View(Freed(g, NoObject)) = [Activations[n] EXCEPT !.lock = NoObject]
  <2>1. Activations[n] = View(g)  BY <1>5, <1>8, ViewsSeq DEF g
  <2> QED BY <1>11, <2>1, ChangedView
<1>19. Activations' = [Activations EXCEPT ![Len(Activations)].lock = NoObject]
  BY <1>5, <1>17, <1>18, Zenon DEF Replaced
<1>20. ~Calls!Holds(held, Calls!Top.lock)  BY <1>1, <1>5, SameLocks DEF g, n
<1>21. Calls!LockIsGone  BY <1>1, <1>5, <1>6, <1>19, <1>20 DEF Calls!LockIsGone
<1> QED BY <1>15, <1>21 DEF Calls!Next

LEMMA UncaughtSeen ==
  ASSUME Verified, Inv, CallInv, Uncaught
  PROVE  CallInv' /\ Calls!Next
<1>1. /\ throw # NoThrow /\ throw.fp = 0 /\ frames' = <<>> /\ throw' = NoThrow
      /\ held' = held /\ asleep' = asleep
  BY DEF Uncaught
<1>2. asleep = FALSE /\ throw.exception \in Exceptions /\ NoLocker(frames)
  BY <1>1 DEF CallInv, Throwing
<1>3. IsSeq(frames) /\ Len(frames) \in Nat  BY DEF Inv, Sound, IsSeq
<1>4. throw.exception # NoException  BY <1>2, MethodAssumption
<1>5. DepthOf(frames, throw) = 0  BY <1>1 DEF DepthOf
<1>6. Activations = Views(frames, 0)
  <2>1. 0 \in 0 .. Len(frames)  BY <1>3
  <2> QED BY <1>2, <1>3, <1>5, <2>1, ShownIsViews, ShownNow
<1>7. Activations = <<>>  BY <1>6, ViewsSeq
<1>8. CallInv' /\ throw'.exception = NoException /\ Activations' = <<>>
  BY <1>1, <1>2, EndSeen
<1>9. Calls!Uncaught  BY <1>1, <1>4, <1>7, <1>8 DEF Calls!Uncaught
<1> QED BY <1>8, <1>9 DEF Calls!Next

LEMMA NothingSeen ==
  ASSUME CallInv, UNCHANGED vars
  PROVE  CallInv' /\ UNCHANGED Calls!vars
<1>1. /\ frames' = frames /\ ip' = ip /\ held' = held /\ asleep' = asleep /\ throw' = throw
  BY DEF vars
<1>2. CallInv'  BY <1>1 DEF CallInv
<1>3. Activations' = Activations  BY <1>1, ShownNow, ShownNext
<1> QED BY <1>1, <1>2, <1>3 DEF Calls!vars

LEMMA NextSeen ==
  ASSUME Verified, TablesFit, MayFail \subseteq {"push", "enter"},
         Inv, Inv', CallInv, [Next]_vars
  PROVE  CallInv' /\ [Calls!Next]_Calls!vars
<1>0. "start" \notin MayFail /\ "unwind" \notin MayFail  OBVIOUS
<1>1. CASE TakesLock \/ Jump \/ GoOn \/ Wake \/ Return \/ CustomCodeEnds
  BY <1>0, <1>1, TakesLockSeen, JumpSeen, GoOnSeen, WakeSeen, ReturnSeen, CustomCodeEndsSeen
<1>2. CASE NewInstanceOverflows \/ InitializeClass \/ RunClinit
  BY <1>2, NewInstanceOverflowsSeen, InitializeClassSeen, RunClinitSeen
<1>3. CASE Sleep  BY <1>3, SleepSeen
<1>4. CASE \E o \in Objects : Monitor(o) \/ \E m \in Methods : InvokeSynchronized(m, o)
  BY <1>4, MonitorSeen, InvokeSynchronizedSeen
<1>5. CASE \E m \in Methods : Invoke(m) \/ NewInstance(m)  BY <1>5, InvokeSeen, NewInstanceSeen
<1>6. CASE \E e \in Raised : Raise(e)  BY <1>6, RaisesSeen
<1>7. CASE Catch \/ RestartOnError \/ Uncaught
  BY <1>0, <1>7, CatchSeen, RestartOnErrorSeen, UncaughtSeen
<1>8. CASE Unwind  BY <1>0, <1>8, UnwindSeen
<1>9. CASE UNCHANGED vars  BY <1>9, NothingSeen
<1> QED BY <1>1, <1>2, <1>3, <1>4, <1>5, <1>6, <1>7, <1>8, <1>9 DEF Next, ThrowException

\* What a thread calls, returns from and throws is what Java says, whatever
\* the methods are and however deep the calls: the innermost handler gets each
\* exception, each lock is given back once, and a frame that goes on has its
\* lock.  It holds for code that the verifier accepts and exception tables
\* that the machine gets right, as long as neither the run method's lock nor
\* the search for a handler itself runs out of memory (throwException,
\* frame.c:419).
THEOREM CallsAreJavas ==
  ASSUME Verified, TablesFit, MayFail \subseteq {"push", "enter"}
  PROVE  Spec => ImplementsCallStack
<1>1. Init => Inv  BY InitSound
<1>2. Inv /\ [Next]_vars => Inv'  BY NextSound
<1>3. Inv /\ Init => CallInv /\ Calls!Init  BY InitSeen
<1>4. Inv /\ Inv' /\ CallInv /\ [Next]_vars => CallInv' /\ [Calls!Next]_Calls!vars
  BY NextSeen
<1> QED BY <1>1, <1>2, <1>3, <1>4, PTL DEF Spec, ImplementsCallStack, Calls!Spec
=============================================================================
