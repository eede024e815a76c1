--------------------------- MODULE ClassInitProofs ---------------------------
(***************************************************************************)
(* For all threads, classes, superclasses, interfaces, failures, locks and *)
(* interrupts: a class is initialized by one thread at a time, which it    *)
(* names (InitializersExact), and its <clinit> is called once              *)
(* (ClinitOnce).  If nothing that can fail to load is a superclass, a load *)
(* that fails leaves nothing behind (LoadsAreWhole); if besides no error   *)
(* reaches the superclass of a class with a <clinit>, the superclass is    *)
(* initialized first (SuperclassFirst).                                    *)
(***************************************************************************)
EXTENDS ClassInit, SequenceTheorems, WellFoundedInduction, TLAPS

-----------------------------------------------------------------------------
(* The invariant: frames and threads                                       *)

Late == {"VERIFIED", "READY", "ERROR"}

(* A frame that waits for a superclass, or for the <clinit> above it, is   *)
(* the only kind that is not at the top.  Its class is verified.           *)
FramesOK(t) ==
  \A i \in 1 .. Len(frames[t]) :
    /\ frames[t][i].clinit => frames[t][i].state = 5
    /\ frames[t][i].state # 3
    /\ i < Len(frames[t]) => frames[t][i].state = 4 \/ frames[t][i].clinit
    /\ status[frames[t][i].class] \in Late

(* The state on the stack of a thread inside the VM at point s.            *)
StatesAt(s) ==
  CASE s = -1 -> {2, 4, 5}
    [] s = 2 -> {1}
    [] s = 3 -> {1, 2}
    [] s \in {4, 5} -> {1, 2, 4}

TopAt(t, S) == frames[t] # <<>> /\ ~Top(t).clinit /\ Top(t).state \in S

BusyOK(t) ==
  busy = t =>
    \/ point = -2 /\ InJava(t)
    \/ point \in {-1, 2, 3, 4, 5} /\ TopAt(t, StatesAt(point))

(* A thread that waits for a class, or was interrupted when it did, is in  *)
(* state 2.                                                                *)
Waits(t) == \E c \in Classes : Contains(waitset[c], t)
WaitsOK(t) == pendingException[t] \/ Waits(t) => busy # t /\ TopAt(t, {2})

-----------------------------------------------------------------------------
(* The invariant: classes                                                  *)

(* Frame i of t is past step 6; past step 8.                               *)
Marked(t, i) ==
  \/ frames[t][i].state \in 4..6
  \/ i = Len(frames[t]) /\ busy = t /\ point \in 3..5
HasRun(t, i) ==
  \/ frames[t][i].state \in 5..6
  \/ i = Len(frames[t]) /\ busy = t /\ point = 5

(* It is the one frame in which its class is initialized, and tells whether*)
(* <clinit> was called.                                                    *)
Initializes(t, i, c) ==
  /\ initThread[c] = t
  /\ \A j \in 1 .. Len(frames[t]) : Marked(t, j) /\ frames[t][j].class = c => i = j
  /\ c \in HasClinit =>
       status[c] # "READY" /\ clinitRuns[c] = IF HasRun(t, i) THEN 1 ELSE 0
MarkedOK(t) ==
  \A i \in 1 .. Len(frames[t]) : Marked(t, i) => Initializes(t, i, frames[t][i].class)

RunsInv ==
  \A c \in Classes :
    /\ clinitRuns[c] \in {0, 1}
    /\ clinitRuns[c] = 1 => status[c] \in Late
    /\ clinitRuns[c] = 1 /\ initThread[c] = NIL => status[c] \in {"READY", "ERROR"}
    /\ status[c] = "READY" /\ c \in HasClinit => clinitRuns[c] = 1

-----------------------------------------------------------------------------
(* The invariant: the loader                                               *)

IsEarly(c) == status[c] \in {"RAW", "LOADING", "LOADED", "LINKED"}

(* S holds the superclasses that call k has still to link: it has loaded   *)
(* them all but, in the innermost call, the one it is at.                  *)
Chain(S, k) ==
  /\ loads[k].initiating \in S
  /\ \A c \in S :
       /\ IsEarly(c)
       /\ status[c] = "RAW" => k = 1 /\ IsIn("load") /\ c = current.clazz
       /\ status[c] \notin {"RAW", "LINKED"} /\ superClass[c] # NIL =>
            superClass[c] \in S \/ ~IsUnlinked(superClass[c])

Phases == {"load", "link", "throw", "fatal", "done"}
Calls == [initiating : Classes, clazz : Classes, iface : Nat \ {0}, phase : Phases]

(* No class that was initialized is one that a failed load reverts, or     *)
(* that will be linked.                                                    *)
LoadsInv ==
  /\ loads \in Seq(Calls)
  /\ \A k \in 1 .. Len(loads) : IsEarly(loads[k].initiating)
  /\ IsIn("load") => status[current.clazz] = "RAW"
  /\ IsIn("load") \/ IsIn("link") =>
       \A k \in 1 .. Len(loads) :
         /\ k > 1 => loads[k].phase = "link"
         /\ \E S \in SUBSET Classes :
              Chain(S, k) /\ (IsIn("load") /\ k = 1 => current.clazz \in S)

PointInv == (busy = NIL => point = 0) /\ (loads # <<>> <=> point = -2)
ThreadOK(t) == FramesOK(t) /\ BusyOK(t) /\ WaitsOK(t) /\ MarkedOK(t)

CInv == TypeOK /\ PointInv /\ (\A t \in Threads : ThreadOK(t)) /\ RunsInv /\ LoadsInv

-----------------------------------------------------------------------------
(* Sequences of frames                                                     *)

ClassTypes ==
  /\ status \in [Classes -> Statuses] /\ superClass \in [Classes -> Classes \cup {NIL}]
  /\ initThread \in [Classes -> Threads \cup {NIL}]
  /\ frames \in [Threads -> Seq(Frame)]
  /\ busy \in Threads \cup {NIL} /\ point \in -2..6
  /\ pendingException \in [Threads -> BOOLEAN]
  /\ isPendingInterrupt \in [Threads -> BOOLEAN]
  /\ fatal \in BOOLEAN
  /\ clinitRuns \in [Classes -> Nat]

MonTypes ==
  /\ owner \in [Classes -> Threads \cup {NIL}] /\ count \in [Classes -> Nat]
  /\ entry \in [Classes -> Seq(Threads)] /\ waitset \in [Classes -> Seq(Threads)]
  /\ saved \in [Threads -> Nat]

LEMMA TypesSplit == TypeOK <=> ClassTypes /\ MonTypes
BY DEF TypeOK, ClassTypes, MonTypes

LEMMA ConstantFacts ==
  /\ NIL \notin Classes /\ NIL \notin Threads
  /\ \A c \in Classes : Super[c] \in Classes \cup {NIL} /\ Uses[c] \subseteq Classes
  /\ \A c \in Classes : Interfaces[c] \in Seq(Classes)
BY LoadingAssumption, ClassAssumption

LEMMA FrameFacts ==
  ASSUME ClassTypes, NEW t \in Threads
  PROVE  /\ frames[t] \in Seq(Frame) /\ Len(frames[t]) \in Nat
         /\ frames[t] = <<>> <=> Len(frames[t]) = 0
         /\ \A i \in 1 .. Len(frames[t]) :
              /\ frames[t][i] \in Frame
              /\ frames[t][i].class \in Classes /\ frames[t][i].state \in 1..6
              /\ frames[t][i].clinit \in BOOLEAN
         /\ Top(t) = frames[t][Len(frames[t])]
         /\ frames[t] # <<>> => Len(frames[t]) \in 1 .. Len(frames[t])
<1>1. frames[t] \in Seq(Frame)
      BY DEF ClassTypes
<1>2. \A i \in 1 .. Len(frames[t]) : frames[t][i] \in Frame
      BY <1>1
<1> QED
      BY <1>1, <1>2, EmptySeq DEF Frame, Top, Last

(* What the steps do with the frames of t: put f in the place of the top,  *)
(* drop it, push f.                                                        *)
KeepsOthers(t) ==
  /\ frames' \in [Threads -> Seq(Frame)]
  /\ \A u \in Threads : u # t => frames'[u] = frames[u]
Replaces(t, f) ==
  /\ KeepsOthers(t)
  /\ Len(frames'[t]) = Len(frames[t]) /\ frames'[t][Len(frames[t])] = f
  /\ \A i \in 1 .. Len(frames[t]) - 1 : frames'[t][i] = frames[t][i]
Pops(t) ==
  /\ KeepsOthers(t)
  /\ Len(frames'[t]) = Len(frames[t]) - 1
  /\ \A i \in 1 .. Len(frames[t]) - 1 : frames'[t][i] = frames[t][i]
Pushes(t, f) ==
  /\ KeepsOthers(t)
  /\ Len(frames'[t]) = Len(frames[t]) + 1 /\ frames'[t][Len(frames[t]) + 1] = f
  /\ \A i \in 1 .. Len(frames[t]) : frames'[t][i] = frames[t][i]

LEMMA FrontFacts ==
  ASSUME NEW S, NEW s \in Seq(S), s # <<>>
  PROVE  /\ Front(s) \in Seq(S) /\ Len(Front(s)) = Len(s) - 1
         /\ \A i \in 1 .. Len(s) - 1 : Front(s)[i] = s[i]
<1>1. Len(s) \in Nat /\ Len(s) # 0
      BY EmptySeq
<1>2. \A i \in 1 .. Len(s) - 1 : i \in 1 .. Len(s) /\ s[i] \in S
      BY <1>1, ElementOfSeq
<1>3. Len(s) - 1 \in 0 .. Len(s)
      BY <1>1
<1>4. PICK n \in 0 .. Len(s) : n = Len(s) - 1
      BY <1>3
<1>5. SubSeq(s, 1, n) \in Seq(S)
      BY <1>1, <1>4
<1>6. Len(SubSeq(s, 1, n)) = n
      BY <1>1, <1>4
<1>7. \A i \in 1 .. n : SubSeq(s, 1, n)[i] = s[i]
      BY <1>1, <1>4
<1> QED
      BY <1>4, <1>5, <1>6, <1>7 DEF Front

LEMMA PushFacts ==
  ASSUME NEW S, NEW s \in Seq(S), NEW f \in S
  PROVE  /\ s \o <<f>> = Append(s, f)
         /\ Append(s, f) \in Seq(S) /\ Len(Append(s, f)) = Len(s) + 1
         /\ Append(s, f)[Len(s) + 1] = f
         /\ \A i \in 1 .. Len(s) : Append(s, f)[i] = s[i]
BY AppendProperties

LEMMA ReplaceTop ==
  ASSUME ClassTypes, NEW t \in Threads, frames[t] # <<>>, NEW f \in Frame,
         frames' = [frames EXCEPT ![t] = Front(@) \o <<f>>]
  PROVE  Replaces(t, f)
<1>1. frames \in [Threads -> Seq(Frame)] /\ frames[t] \in Seq(Frame)
      BY DEF ClassTypes
<1> DEFINE s == frames[t]  r == Front(s)
<1>2. r \in Seq(Frame) /\ Len(r) = Len(s) - 1 /\ \A i \in 1 .. Len(s) - 1 : r[i] = s[i]
      BY <1>1, FrontFacts
<1>3. /\ frames' \in [Threads -> Seq(Frame)] /\ frames'[t] = Append(r, f)
      /\ \A u \in Threads : u # t => frames'[u] = frames[u]
  <2>1. r \o <<f>> = Append(r, f) /\ Append(r, f) \in Seq(Frame)
        BY <1>2, PushFacts
  <2> HIDE DEF r
  <2> QED
        BY <1>1, <2>1 DEF r
<1>4. /\ Len(Append(r, f)) = Len(r) + 1 /\ Append(r, f)[Len(r) + 1] = f
      /\ \A i \in 1 .. Len(r) : Append(r, f)[i] = r[i]
      BY <1>2, PushFacts
<1>5. Len(s) \in Nat
      BY <1>1
<1>6. Len(r) + 1 = Len(s)
      BY <1>2, <1>5
<1> HIDE DEF r
<1>7. /\ Len(frames'[t]) = Len(frames[t]) /\ frames'[t][Len(frames[t])] = f
      /\ \A i \in 1 .. Len(frames[t]) - 1 : frames'[t][i] = frames[t][i]
      BY <1>2, <1>3, <1>4, <1>5, <1>6
<1> QED
      BY <1>3, <1>7 DEF Replaces, KeepsOthers

LEMMA PopTop ==
  ASSUME ClassTypes, NEW t \in Threads, frames[t] # <<>>, PopFrame(t)
  PROVE  Pops(t)
<1>1. frames \in [Threads -> Seq(Frame)] /\ frames[t] \in Seq(Frame)
      BY DEF ClassTypes
<1>2. Front(frames[t]) \in Seq(Frame) /\ Len(Front(frames[t])) = Len(frames[t]) - 1
      /\ \A i \in 1 .. Len(frames[t]) - 1 : Front(frames[t])[i] = frames[t][i]
      BY <1>1, FrontFacts
<1>3. frames' = [frames EXCEPT ![t] = Front(frames[t])]
      BY DEF PopFrame
<1>4. /\ frames' \in [Threads -> Seq(Frame)] /\ frames'[t] = Front(frames[t])
      /\ \A u \in Threads : u # t => frames'[u] = frames[u]
      BY <1>1, <1>2, <1>3
<1> QED
      BY <1>2, <1>4 DEF Pops, KeepsOthers

LEMMA PushFrame ==
  ASSUME ClassTypes, NEW t \in Threads, NEW c \in Classes,
         frames' = [frames EXCEPT ![t] = Append(frames[t], NewFrame(c))]
  PROVE  Pushes(t, NewFrame(c))
<1>1. frames \in [Threads -> Seq(Frame)] /\ frames[t] \in Seq(Frame)
      BY DEF ClassTypes
<1>2. NewFrame(c) \in Frame
      BY DEF NewFrame, Frame
<1> DEFINE f == NewFrame(c)
<1>3. /\ Append(frames[t], f) \in Seq(Frame) /\ Len(Append(frames[t], f)) = Len(frames[t]) + 1
      /\ Append(frames[t], f)[Len(frames[t]) + 1] = f
      /\ \A i \in 1 .. Len(frames[t]) : Append(frames[t], f)[i] = frames[t][i]
      BY <1>1, <1>2, PushFacts
<1> HIDE DEF f
<1>4. /\ frames' \in [Threads -> Seq(Frame)] /\ frames'[t] = Append(frames[t], f)
      /\ \A u \in Threads : u # t => frames'[u] = frames[u]
      BY <1>1, <1>3 DEF f
<1> QED
      BY <1>3, <1>4 DEF Pushes, KeepsOthers, f

(* A change of one field of the top.                                       *)
LEMMA ChangeTop ==
  ASSUME ClassTypes, NEW t \in Threads, frames[t] # <<>>
  PROVE  /\ \A s \in 1..6 : InState(t, s) => Replaces(t, [Top(t) EXCEPT !.state = s])
         /\ frames' = [frames EXCEPT ![t][Len(frames[t])].clinit = FALSE] =>
              Replaces(t, [Top(t) EXCEPT !.clinit = FALSE])
<1>1. frames \in [Threads -> Seq(Frame)] /\ frames[t] \in Seq(Frame)
      BY DEF ClassTypes
<1> DEFINE n == Len(frames[t])
<1>2. n \in 1 .. Len(frames[t]) /\ frames[t][n] \in Frame /\ Top(t) = frames[t][n]
      BY FrameFacts
<1>3. ASSUME NEW f \in Frame, frames' = [frames EXCEPT ![t] = [@ EXCEPT ![n] = f]]
      PROVE  Replaces(t, f)
  <2>1. PICK r : r = [frames[t] EXCEPT ![n] = f]
        OBVIOUS
  <2>2. /\ r \in Seq(Frame) /\ Len(r) = n /\ r[n] = f
        /\ \A i \in 1 .. n - 1 : r[i] = frames[t][i]
        BY <1>1, <1>2, <2>1
  <2>3. frames' = [frames EXCEPT ![t] = r]
        BY <1>3, <2>1
  <2>4. /\ frames' \in [Threads -> Seq(Frame)] /\ frames'[t] = r
        /\ \A u \in Threads : u # t => frames'[u] = frames[u]
        BY <1>1, <2>2, <2>3
  <2> QED
        BY <2>2, <2>4 DEF Replaces, KeepsOthers
<1>4. ASSUME NEW s \in 1..6, InState(t, s)
      PROVE  Replaces(t, [Top(t) EXCEPT !.state = s])
  <2>1. frames' = [frames EXCEPT ![t] = [@ EXCEPT ![n] = [Top(t) EXCEPT !.state = s]]]
        BY <1>2, <1>4 DEF InState
  <2>2. [Top(t) EXCEPT !.state = s] \in Frame
        BY <1>2 DEF Frame
  <2> QED
        BY <1>3, <2>1, <2>2
<1>5. ASSUME frames' = [frames EXCEPT ![t][Len(frames[t])].clinit = FALSE]
      PROVE  Replaces(t, [Top(t) EXCEPT !.clinit = FALSE])
  <2>1. frames' = [frames EXCEPT ![t] = [@ EXCEPT ![n] = [Top(t) EXCEPT !.clinit = FALSE]]]
        BY <1>2, <1>5
  <2>2. [Top(t) EXCEPT !.clinit = FALSE] \in Frame
        BY <1>2 DEF Frame
  <2> QED
        BY <1>3, <2>1, <2>2
<1> QED
      BY <1>4, <1>5

-----------------------------------------------------------------------------
(* Monitors                                                                *)

LEMMA HandOverTypes ==
  ASSUME MonTypes, NEW c \in Classes, NEW q \in Seq(Threads), NEW n \in [Threads -> Nat],
         Mon!HandOver(c, q, n)
  PROVE  /\ owner' \in [Classes -> Threads \cup {NIL}] /\ count' \in [Classes -> Nat]
         /\ entry' \in [Classes -> Seq(Threads)] /\ saved' \in [Threads -> Nat]
<1>1. CASE q = <<>>
  <2>1. /\ owner' = [owner EXCEPT ![c] = NIL] /\ count' = [count EXCEPT ![c] = 0]
        /\ entry' = [entry EXCEPT ![c] = <<>>] /\ saved' = n
        BY <1>1 DEF Mon!HandOver
  <2>2. <<>> \in Seq(Threads)
        OBVIOUS
  <2> QED
        BY <2>1, <2>2 DEF MonTypes
<1>2. CASE q # <<>>
  <2>1. /\ owner' = [owner EXCEPT ![c] = Head(q)] /\ count' = [count EXCEPT ![c] = n[Head(q)]]
        /\ entry' = [entry EXCEPT ![c] = Tail(q)] /\ saved' = [n EXCEPT ![Head(q)] = 0]
        BY <1>2 DEF Mon!HandOver
  <2>2. PICK h, r : h = Head(q) /\ r = Tail(q)
        OBVIOUS
  <2>3. h \in Threads /\ r \in Seq(Threads)
        BY <1>2, <2>2, HeadTailProperties
  <2> QED
        BY <2>1, <2>2, <2>3 DEF MonTypes
<1> QED
      BY <1>1, <1>2

(* The types stay, and nobody begins to wait.                              *)
NobodyWaits == MonTypes' /\ \A u \in Threads : Waits(u)' => Waits(u)

LEMMA RequeueTypes ==
  ASSUME MonTypes, NEW c \in Classes, NEW q \in Seq(Threads),
         Mon!HandOver(c, entry[c] \o q, saved) \/
         (entry' = [entry EXCEPT ![c] = @ \o q] /\ UNCHANGED <<owner, count, saved>>)
  PROVE  /\ owner' \in [Classes -> Threads \cup {NIL}] /\ count' \in [Classes -> Nat]
         /\ entry' \in [Classes -> Seq(Threads)] /\ saved' \in [Threads -> Nat]
<1>1. entry[c] \in Seq(Threads) /\ saved \in [Threads -> Nat]
      BY DEF MonTypes
<1>2. entry[c] \o q \in Seq(Threads)
      BY <1>1
<1>3. CASE Mon!HandOver(c, entry[c] \o q, saved)
      BY ONLY <1>1, <1>2, <1>3, MonTypes, c \in Classes, HandOverTypes
<1>4. CASE entry' = [entry EXCEPT ![c] = @ \o q] /\ UNCHANGED <<owner, count, saved>>
      BY <1>2, <1>4 DEF MonTypes
<1> QED
      BY <1>3, <1>4

(* The end of a sequence, and a sequence without one of its elements.      *)
LEMMA NothingLeft ==
  ASSUME NEW S, NEW s \in Seq(S)
  PROVE  SubSeq(s, Len(s) + 1, Len(s)) = <<>>
BY SubSeqEmpty, LenProperties

LEMMA NotifyAllWaits ==
  ASSUME MonTypes, NEW c \in Classes, NotifyAll(c)
  PROVE  /\ waitset' \in [Classes -> Seq(Threads)]
         /\ \A u \in Threads : Waits(u)' => Waits(u)
<1>1. waitset' = [waitset EXCEPT ![c] = <<>>]
  <2>1. waitset[c] \in Seq(Threads)
        BY DEF MonTypes
  <2>2. SubSeq(waitset[c], Len(waitset[c]) + 1, Len(waitset[c])) = <<>>
        BY <2>1, NothingLeft
  <2> QED
        BY <2>2 DEF NotifyAll, Notified
<1>2. <<>> \in Seq(Threads)
      OBVIOUS
<1>3. \A d \in Classes : waitset'[d] = waitset[d] \/ waitset'[d] = <<>>
      BY <1>1 DEF MonTypes
<1>4. \A u \in Threads : ~ Contains(<<>>, u)
      BY DEF Contains
<1>5. \A d \in Classes, u \in Threads : Contains(waitset'[d], u) => Contains(waitset[d], u)
      BY <1>3, <1>4
<1> QED
      BY <1>1, <1>2, <1>5 DEF MonTypes, Waits, Contains

LEMMA NotifySteps ==
  ASSUME MonTypes, NEW t \in Threads, NEW c \in Classes,
         NotifyAllAndExit(c) \/ EnterNotifyAllAndExit(t, c)
  PROVE  NobodyWaits
<1>1. NotifyAll(c)
      BY DEF NotifyAllAndExit, EnterNotifyAllAndExit
<1>2. /\ waitset' \in [Classes -> Seq(Threads)]
      /\ \A u \in Threads : Waits(u)' => Waits(u)
      BY <1>1, NotifyAllWaits
<1>3. waitset[c] \in Seq(Threads) /\ Notified(c) = waitset[c]
      BY DEF MonTypes, Notified
<1> DEFINE Types == /\ owner' \in [Classes -> Threads \cup {NIL}] /\ count' \in [Classes -> Nat]
                    /\ entry' \in [Classes -> Seq(Threads)] /\ saved' \in [Threads -> Nat]
<1>4. CASE Mon!HandOver(c, entry[c] \o waitset[c], saved) \/
           (entry' = [entry EXCEPT ![c] = @ \o waitset[c]] /\ UNCHANGED <<owner, count, saved>>)
  <2>1. Types
        BY ONLY <1>3, <1>4, MonTypes, c \in Classes, RequeueTypes
  <2> QED
        BY <1>2, <2>1 DEF NobodyWaits, MonTypes
<1>5. CASE /\ count[c] > 1 /\ count' = [count EXCEPT ![c] = @ - 1]
           /\ entry' = [entry EXCEPT ![c] = @ \o waitset[c]]
           /\ UNCHANGED <<owner, saved>>
  <2>1. count[c] \in Nat /\ count[c] - 1 \in Nat /\ entry[c] \o waitset[c] \in Seq(Threads)
        BY <1>3, <1>5 DEF MonTypes
  <2>2. Types
        BY <1>5, <2>1 DEF MonTypes
  <2> QED
        BY <1>2, <2>2 DEF NobodyWaits, MonTypes
<1>6. \/ Mon!HandOver(c, entry[c] \o waitset[c], saved)
      \/ (entry' = [entry EXCEPT ![c] = @ \o waitset[c]] /\ UNCHANGED <<owner, count, saved>>)
      \/ /\ count[c] > 1 /\ count' = [count EXCEPT ![c] = @ - 1]
         /\ entry' = [entry EXCEPT ![c] = @ \o waitset[c]]
         /\ UNCHANGED <<owner, saved>>
  <2>1. CASE NotifyAllAndExit(c)
        BY <1>3, <2>1, Zenon DEF NotifyAllAndExit
  <2>2. CASE EnterNotifyAllAndExit(t, c)
        BY <1>3, <2>2, Zenon DEF EnterNotifyAllAndExit
  <2> QED
        BY <2>1, <2>2
<1> QED
      BY <1>4, <1>5, <1>6

LEMMA MonitorSame == MonTypes /\ UNCHANGED monVars => NobodyWaits
<1> SUFFICES ASSUME MonTypes, UNCHANGED monVars PROVE NobodyWaits
    OBVIOUS
<1>1. UNCHANGED owner /\ UNCHANGED count /\ UNCHANGED entry /\ UNCHANGED waitset /\ UNCHANGED saved
      BY DEF monVars
<1> QED
      BY <1>1 DEF NobodyWaits, MonTypes, Waits, Contains

LEMMA NotBlocked ==
  ASSUME NEW t \in Threads, ~ Mon!Blocked(t)
  PROVE  ~ Waits(t)
BY DEF Mon!Blocked, Waits, Contains, Mon!Contains

LEMMA EnterStep ==
  ASSUME MonTypes, NEW t \in Threads, NEW c \in Classes, Mon!Enter(t, c)
  PROVE  NobodyWaits /\ ~ Waits(t)
<1>1. UNCHANGED waitset /\ ~ Mon!Blocked(t)
      BY DEF Mon!Enter
<1>2. ~ Waits(t)
      BY <1>1, NotBlocked
<1>3. CASE /\ owner' = [owner EXCEPT ![c] = t]
           /\ count' = [count EXCEPT ![c] = @ + 1]
           /\ UNCHANGED <<entry, saved>>
      BY <1>1, <1>2, <1>3 DEF NobodyWaits, MonTypes, Waits, Contains
<1>4. CASE /\ entry' = [entry EXCEPT ![c] = Append(@, t)]
           /\ saved' = [saved EXCEPT ![t] = 1]
           /\ UNCHANGED <<owner, count>>
  <2>1. entry[c] \in Seq(Threads) /\ Append(entry[c], t) \in Seq(Threads)
        BY DEF MonTypes
  <2> QED
        BY <1>1, <1>2, <1>4, <2>1 DEF NobodyWaits, MonTypes, Waits, Contains
<1> QED
      BY <1>3, <1>4 DEF Mon!Enter

LEMMA ExitStep ==
  ASSUME MonTypes, NEW t \in Threads, NEW c \in Classes, Mon!Exit(t, c)
  PROVE  NobodyWaits /\ ~ Waits(t)
<1>1. UNCHANGED waitset /\ ~ Mon!Blocked(t)
      BY DEF Mon!Exit
<1>2. ~ Waits(t)
      BY <1>1, NotBlocked
<1>3. CASE count[c] > 1 /\ count' = [count EXCEPT ![c] = @ - 1] /\ UNCHANGED <<owner, entry, saved>>
  <2>1. count[c] \in Nat /\ count[c] - 1 \in Nat
        BY <1>3 DEF MonTypes
  <2> QED
        BY <1>1, <1>2, <1>3, <2>1 DEF NobodyWaits, MonTypes, Waits, Contains
<1>4. CASE Mon!HandOver(c, entry[c], saved)
  <2>1. entry[c] \in Seq(Threads) /\ saved \in [Threads -> Nat]
        BY DEF MonTypes
  <2>2. /\ owner' \in [Classes -> Threads \cup {NIL}] /\ count' \in [Classes -> Nat]
        /\ entry' \in [Classes -> Seq(Threads)] /\ saved' \in [Threads -> Nat]
        BY ONLY <1>4, <2>1, MonTypes, c \in Classes, HandOverTypes
  <2> QED
        BY <1>1, <1>2, <2>2 DEF NobodyWaits, MonTypes, Waits, Contains
<1> QED
      BY <1>3, <1>4 DEF Mon!Exit

LEMMA WaitStep ==
  ASSUME MonTypes, NEW t \in Threads, NEW c \in Classes, Mon!Wait(t, c)
  PROVE  MonTypes' /\ \A u \in Threads : u # t /\ Waits(u)' => Waits(u)
<1>1. /\ waitset' = [waitset EXCEPT ![c] = Append(@, t)]
      /\ Mon!HandOver(c, entry[c], [saved EXCEPT ![t] = count[c]])
      BY DEF Mon!Wait
<1>2. /\ entry[c] \in Seq(Threads) /\ waitset[c] \in Seq(Threads)
      /\ [saved EXCEPT ![t] = count[c]] \in [Threads -> Nat]
      BY DEF MonTypes
<1>3. /\ owner' \in [Classes -> Threads \cup {NIL}] /\ count' \in [Classes -> Nat]
      /\ entry' \in [Classes -> Seq(Threads)] /\ saved' \in [Threads -> Nat]
      BY ONLY <1>1, <1>2, MonTypes, c \in Classes, HandOverTypes
<1>4. PICK r : r = Append(waitset[c], t)
      OBVIOUS
<1>5. /\ r \in Seq(Threads) /\ \A i \in 1 .. Len(r) : r[i] = t \/ \E j \in 1 .. Len(waitset[c]) : r[i] = waitset[c][j]
      BY <1>2, <1>4, AppendProperties
<1>6. waitset' = [waitset EXCEPT ![c] = r]
      BY <1>1, <1>4
<1>7. waitset' \in [Classes -> Seq(Threads)]
      BY <1>5, <1>6 DEF MonTypes
<1>8. ASSUME NEW u \in Threads, u # t, NEW d \in Classes, Contains(waitset'[d], u)
      PROVE  Contains(waitset[d], u)
  <2>1. CASE d = c
    <3>1. waitset'[d] = r
          BY <1>6, <2>1 DEF MonTypes
    <3> QED
          BY <1>5, <1>8, <2>1, <3>1 DEF Contains
  <2>2. CASE d # c
        BY <1>6, <1>8, <2>2 DEF MonTypes
  <2> QED
        BY <2>1, <2>2
<1> QED
      BY <1>3, <1>7, <1>8 DEF MonTypes, Waits, Contains

(* RemoveFirst takes an element away, and adds none.                       *)
LEMMA LeastNumber ==
  ASSUME NEW S, S \subseteq Nat, S # {}
  PROVE  \E x \in S : \A y \in S : x <= y
<1> DEFINE R == OpToRel(<, Nat)
<1>1. IsWellFoundedOn(R, Nat)
    BY NatLessThanWellFounded
<1>2. \A x, y \in Nat : <<y, x>> \in R <=> y < x
    BY Zenon DEF OpToRel
<1> HIDE DEF R
<1>3. PICK x \in S : \A y \in S : ~ (<<y, x>> \in R)
    BY <1>1, WFMin
<1>4. \A y \in S : ~ (y < x)
    BY <1>2, <1>3
<1> QED
    BY <1>3, <1>4

LEMMA ConcatElements ==
  ASSUME NEW S, NEW q \in Seq(S), NEW r \in Seq(S)
  PROVE  /\ q \o r \in Seq(S)
         /\ \A u : Contains(q \o r, u) => Contains(q, u) \/ Contains(r, u)
<1>1. q \o r \in Seq(S) /\ Len(q \o r) = Len(q) + Len(r) /\ Len(q) \in Nat /\ Len(r) \in Nat
      BY ConcatProperties
<1>2. ASSUME NEW u, NEW i \in 1 .. Len(q \o r), (q \o r)[i] = u
      PROVE  Contains(q, u) \/ Contains(r, u)
  <2>1. CASE i <= Len(q)
    <3>1. i \in 1 .. Len(q) /\ (q \o r)[i] = q[i]
          BY <1>1, <2>1
    <3> QED
          BY <1>2, <3>1 DEF Contains
  <2>2. CASE ~ (i <= Len(q))
    <3>1. i - Len(q) \in 1 .. Len(r) /\ (q \o r)[i] = r[i - Len(q)]
          BY <1>1, <2>2
    <3> QED
          BY <1>2, <3>1 DEF Contains
  <2> QED
        BY <2>1, <2>2
<1> QED
      BY <1>1, <1>2 DEF Contains

LEMMA RemoveFirstFacts ==
  ASSUME NEW S, NEW s \in Seq(S), NEW e
  PROVE  /\ Mon!RemoveFirst(s, e) \in Seq(S)
         /\ \A u : Contains(Mon!RemoveFirst(s, e), u) => Contains(s, u)
<1>1. CASE ~ \E i \in 1 .. Len(s) : s[i] = e
      BY <1>1 DEF Mon!RemoveFirst
<1>2. CASE \E i \in 1 .. Len(s) : s[i] = e
  <2> DEFINE I == {i \in 1 .. Len(s) : s[i] = e}
  <2>1. I # {} /\ I \subseteq Nat /\ I \subseteq 1 .. Len(s)
        BY <1>2
  <2>2. \E x \in I : \A y \in I : x <= y
        BY <2>1, LeastNumber
  <2>3. Mon!Min(I) \in I
        BY <2>2 DEF Mon!Min
  <2>4. Mon!SelectInSeq(s, LAMBDA v : v = e) = IF I # {} THEN Mon!Min(I) ELSE 0
        BY DEF Mon!SelectInSeq
  <2>5. PICK p \in 1 .. Len(s) : Mon!SelectInSeq(s, LAMBDA v : v = e) = p
        BY <2>1, <2>3, <2>4
  <2>6. Mon!RemoveFirst(s, e) = Mon!RemoveAt(s, p)
        BY <1>2, <2>5 DEF Mon!RemoveFirst
  <2>7. PICK q, r : q = SubSeq(s, 1, p - 1) /\ r = SubSeq(s, p + 1, Len(s))
        OBVIOUS
  <2>8. Mon!RemoveFirst(s, e) = q \o r
        BY <2>6, <2>7 DEF Mon!RemoveAt
  <2>9. Len(s) \in Nat /\ p \in Nat /\ p - 1 \in 0 .. Len(s) /\ p + 1 \in 1 .. Len(s) + 1
        OBVIOUS
  <2>10. q \in Seq(S) /\ \A i \in 1 .. Len(q) : \E j \in 1 .. Len(s) : q[i] = s[j]
        BY <2>7, <2>9
  <2>11. r \in Seq(S) /\ \A i \in 1 .. Len(r) : \E j \in 1 .. Len(s) : r[i] = s[j]
        BY <2>7, <2>9
  <2>12. \A u : (Contains(q, u) => Contains(s, u)) /\ (Contains(r, u) => Contains(s, u))
        BY <2>10, <2>11 DEF Contains
  <2> QED
        BY <2>8, <2>10, <2>11, <2>12, ConcatElements
<1> QED
      BY <1>1, <1>2

LEMMA LeaveStep ==
  ASSUME MonTypes, NEW t \in Threads, NEW c \in Classes, Mon!Leave(t, c)
  PROVE  NobodyWaits /\ Waits(t)
<1>1. PICK r : r = Mon!RemoveFirst(waitset[c], t)
      OBVIOUS
<1>2. waitset' = [waitset EXCEPT ![c] = r] /\ Mon!Requeue(c, <<t>>)
      BY <1>1 DEF Mon!Leave
<1>3. waitset[c] \in Seq(Threads) /\ entry[c] \in Seq(Threads) /\ <<t>> \in Seq(Threads)
      BY DEF MonTypes
<1>4. r \in Seq(Threads) /\ \A u : Contains(r, u) => Contains(waitset[c], u)
      BY <1>1, <1>3, RemoveFirstFacts
<1>5. /\ owner' \in [Classes -> Threads \cup {NIL}] /\ count' \in [Classes -> Nat]
      /\ entry' \in [Classes -> Seq(Threads)] /\ saved' \in [Threads -> Nat]
  <2>1. \/ Mon!HandOver(c, entry[c] \o <<t>>, saved)
        \/ (entry' = [entry EXCEPT ![c] = @ \o <<t>>] /\ UNCHANGED <<owner, count, saved>>)
        BY <1>2, Zenon DEF Mon!Requeue
  <2> QED
        BY ONLY <2>1, <1>3, MonTypes, c \in Classes, RequeueTypes
<1>6. waitset' \in [Classes -> Seq(Threads)] /\ \A d \in Classes : waitset'[d] = IF d = c THEN r ELSE waitset[d]
      BY <1>2, <1>4 DEF MonTypes
<1>7. \A u \in Threads : Waits(u)' => Waits(u)
  <2>1. \A d \in Classes, u \in Threads : Contains(waitset'[d], u) => Contains(waitset[d], u)
        BY <1>4, <1>6
  <2> QED
        BY <2>1 DEF Waits, Contains
<1>8. Waits(t)
  <2>1. Mon!Contains(waitset[c], t)
        BY Zenon DEF Mon!Leave
  <2> QED
        BY <2>1 DEF Waits, Contains, Mon!Contains
<1> QED
      BY <1>5, <1>6, <1>7, <1>8 DEF NobodyWaits, MonTypes

-----------------------------------------------------------------------------
(* A step of one thread                                                    *)

LEMMA InvFacts ==
  CInv => ClassTypes /\ MonTypes /\ PointInv /\ RunsInv /\ LoadsInv /\ \A t \in Threads : ThreadOK(t)
BY TypesSplit DEF CInv

(* What initializing threads rely on is not changed for class c.           *)
ClassKept(c) ==
  /\ initThread'[c] = initThread[c] /\ clinitRuns'[c] = clinitRuns[c]
  /\ c \in HasClinit /\ status'[c] = "READY" => status[c] = "READY"

StatusKept == \A c \in Classes : status'[c] \in Late \/ status'[c] = status[c] \/ IsEarly(c)

(* What a step of t leaves alone.                                          *)
SparesOthers(t) ==
  /\ KeepsOthers(t)
  /\ busy \in {NIL, t} /\ busy' \in {NIL, t}
  /\ \A u \in Threads :
       u # t /\ (pendingException'[u] \/ Waits(u)') => pendingException[u] \/ Waits(u)
  /\ \A c \in Classes : initThread[c] \in {NIL, t} \/ ClassKept(c)
  /\ StatusKept

LEMMA OtherThreads ==
  ASSUME CInv, NEW t \in Threads, SparesOthers(t), NEW u \in Threads, u # t
  PROVE  ThreadOK(u)'
<1>1. /\ frames'[u] = frames[u] /\ busy' # u /\ busy # u
      /\ ThreadOK(u) /\ ClassTypes /\ Top(u)' = Top(u)
      BY InvFacts, ConstantFacts DEF SparesOthers, KeepsOthers, Top
<1>2. /\ frames[u] \in Seq(Frame)
      /\ \A i \in 1 .. Len(frames[u]) : frames[u][i].class \in Classes
      BY <1>1, FrameFacts
<1>3. FramesOK(u)'
  <2>1. \A i \in 1 .. Len(frames[u]) : status'[frames[u][i].class] \in Late
        BY <1>1, <1>2 DEF SparesOthers, StatusKept, ThreadOK, FramesOK, IsEarly, Late
  <2> QED
        BY <1>1, <2>1 DEF ThreadOK, FramesOK, Late
<1>4. BusyOK(u)'
      BY <1>1 DEF BusyOK
<1>5. WaitsOK(u)'
      BY <1>1 DEF SparesOthers, ThreadOK, WaitsOK, TopAt
<1>6. MarkedOK(u)'
  <2>1. \A i : (Marked(u, i)' <=> Marked(u, i)) /\ (HasRun(u, i)' <=> HasRun(u, i))
        BY <1>1 DEF Marked, HasRun
  <2>2. ASSUME NEW i \in 1 .. Len(frames[u]), Marked(u, i)
        PROVE  Initializes(u, i, frames[u][i].class)'
    <3>0. PICK c : c = frames[u][i].class
          OBVIOUS
    <3>1. c \in Classes /\ Initializes(u, i, c)
          BY <1>1, <1>2, <2>2, <3>0 DEF ThreadOK, MarkedOK
    <3>2. ClassKept(c)
          BY <1>1, <3>1, ConstantFacts DEF SparesOthers, Initializes
    <3>3. Initializes(u, i, c)'
          BY <1>1, <2>1, <3>1, <3>2 DEF ClassKept, Initializes
    <3> QED
          BY <1>1, <3>0, <3>3
  <2> QED
        BY <1>1, <2>1, <2>2 DEF MarkedOK, Initializes
<1> QED
      BY <1>3, <1>4, <1>5, <1>6 DEF ThreadOK

LEMMA Assemble ==
  ASSUME CInv, NEW t \in Threads, SparesOthers(t), ThreadOK(t)',
         ClassTypes', MonTypes', PointInv', RunsInv', LoadsInv'
  PROVE  CInv'
<1>1. \A u \in Threads : ThreadOK(u)'
      BY OtherThreads
<1>2. TypeOK'
      BY DEF TypeOK, ClassTypes, MonTypes
<1> QED
      BY <1>1, <1>2 DEF CInv

(* The loader is at rest.                                                  *)
LEMMA AtRest == loads' = <<>> => LoadsInv'
<1> SUFFICES ASSUME loads' = <<>> PROVE LoadsInv'
    OBVIOUS
<1>1. Len(loads') = 0 /\ loads' \in Seq(Calls)
      OBVIOUS
<1>2. ~ IsIn("load")' /\ ~ IsIn("link")'
      BY DEF IsIn
<1> QED
      BY <1>1, <1>2 DEF LoadsInv

(* The classes that t initializes, after a step that marks no frame.       *)
LEMMA MarksKept ==
  ASSUME CInv, NEW t \in Threads, frames'[t] \in Seq(Frame),
         \A i \in 1 .. Len(frames'[t]) :
           Marked(t, i)' =>
             /\ i \in 1 .. Len(frames[t]) /\ Marked(t, i)
             /\ frames'[t][i].class = frames[t][i].class
             /\ ClassKept(frames[t][i].class)
             /\ frames[t][i].class \in HasClinit => (HasRun(t, i)' <=> HasRun(t, i))
  PROVE  MarkedOK(t)'
<1>1. MarkedOK(t)
      BY InvFacts DEF ThreadOK
<1> SUFFICES ASSUME NEW i \in 1 .. Len(frames'[t]), Marked(t, i)'
             PROVE  Initializes(t, i, frames[t][i].class)'
    BY DEF MarkedOK
<1>0. PICK c : c = frames'[t][i].class
      OBVIOUS
<1>2. /\ c = frames[t][i].class /\ i \in 1 .. Len(frames[t]) /\ Marked(t, i) /\ ClassKept(c)
      /\ c \in HasClinit => (HasRun(t, i)' <=> HasRun(t, i))
      BY <1>0
<1>3. Initializes(t, i, c)
      BY <1>1, <1>2 DEF MarkedOK
<1>4. ASSUME NEW j \in 1 .. Len(frames'[t]), Marked(t, j)', frames'[t][j].class = c
      PROVE  i = j
  <2>1. j \in 1 .. Len(frames[t]) /\ Marked(t, j) /\ frames[t][j].class = c
        BY <1>4
  <2> QED
        BY <1>3, <2>1 DEF Initializes
<1>5. Initializes(t, i, c)'
      BY <1>2, <1>3, <1>4 DEF Initializes, ClassKept
<1> QED
      BY <1>0, <1>5

(* Where a thread in runClinit is.                                         *)
LEMMA AtFacts ==
  ASSUME CInv, NEW t \in Threads, NEW s \in 1..6, At(t, s)
  PROVE  /\ frames[t] # <<>> /\ ~ Top(t).clinit
         /\ busy \in {NIL, t} /\ loads = <<>> /\ ~ pendingException[t] /\ ~ Waits(t)
         /\ Top(t).state \in CASE s = 1 -> {1}
                               [] s \in {2, 3} -> {1, 2}
                               [] s = 4 -> {1, 2, 4}
                               [] s = 5 -> {1, 2, 4, 5}
                               [] s = 6 -> {6}
         /\ Marked(t, Len(frames[t])) <=> s >= 3
         /\ HasRun(t, Len(frames[t])) <=> s >= 5
<1>1. ClassTypes /\ PointInv /\ ThreadOK(t)
      BY InvFacts
<1>2. CASE Runs(t) /\ ~ InJava(t) /\ Top(t).state = s
  <2>1. frames[t] # <<>> /\ ~ Top(t).clinit /\ busy = NIL /\ ~ pendingException[t]
        BY <1>2 DEF Runs, InJava
  <2>2. /\ Top(t) = frames[t][Len(frames[t])] /\ Len(frames[t]) \in 1 .. Len(frames[t])
        /\ frames[t] \in Seq(Frame)
        BY <1>1, <2>1, FrameFacts
  <2>3. s # 3
        BY <1>1, <1>2, <2>2 DEF ThreadOK, FramesOK
  <2>4. ~ Waits(t)
        BY <1>2, NotBlocked DEF Runs
  <2>5. loads = <<>>
        BY <1>1, <2>1 DEF PointInv
  <2>6. busy # t
        BY <2>1, ConstantFacts
  <2> QED
        BY <1>2, <2>1, <2>2, <2>3, <2>4, <2>5, <2>6 DEF Marked, HasRun
<1>3. CASE busy = t /\ point = s
  <2>1. s \in {2, 3, 4, 5} /\ TopAt(t, StatesAt(s))
        BY <1>1, <1>3 DEF ThreadOK, BusyOK
  <2>2. frames[t] # <<>> /\ ~ Top(t).clinit /\ Top(t).state \in StatesAt(s)
        BY <2>1 DEF TopAt
  <2>3. Top(t) = frames[t][Len(frames[t])]
        BY <1>1, FrameFacts
  <2>4. ~ pendingException[t] /\ ~ Waits(t)
        BY <1>1, <1>3 DEF ThreadOK, WaitsOK
  <2>5. loads = <<>>
        BY <1>1, <1>3 DEF PointInv
  <2> QED
        BY <1>3, <2>1, <2>2, <2>3, <2>4, <2>5 DEF Marked, HasRun, StatesAt
<1> QED
      BY <1>2, <1>3 DEF At

LEMMA SameTop ==
  ASSUME ClassTypes, NEW t \in Threads, frames[t] # <<>>, UNCHANGED frames
  PROVE  Replaces(t, Top(t))
BY FrameFacts DEF ClassTypes, Replaces, KeepsOthers

(* The frames of t after its top frame has become f.                       *)
LEMMA FramesReplaced ==
  ASSUME CInv, NEW t \in Threads, frames[t] # <<>>, NEW f \in Frame, Replaces(t, f),
         f.class = Top(t).class, f.state # 3, f.clinit => f.state = 5, StatusKept
  PROVE  FramesOK(t)'
<1> DEFINE n == Len(frames[t])
<1>1. ClassTypes /\ FramesOK(t)
      BY InvFacts DEF ThreadOK
<1>2. /\ n \in Nat /\ n \in 1 .. n /\ Top(t) = frames[t][n]
      /\ \A i \in 1 .. n : frames[t][i].class \in Classes
      BY <1>1, FrameFacts
<1>3. \A i \in 1 .. n : status'[frames[t][i].class] \in Late
      BY <1>1, <1>2 DEF FramesOK, StatusKept, IsEarly, Late
<1>4. Len(frames'[t]) = n /\ frames'[t][n] = f /\ \A i \in 1 .. n - 1 : frames'[t][i] = frames[t][i]
      BY DEF Replaces
<1>5. ASSUME NEW i \in 1 .. n
      PROVE  /\ frames'[t][i].clinit => frames'[t][i].state = 5
             /\ frames'[t][i].state # 3
             /\ i < n => frames'[t][i].state = 4 \/ frames'[t][i].clinit
             /\ status'[frames'[t][i].class] \in Late
  <2>1. CASE i = n
        BY <1>2, <1>3, <1>4, <2>1
  <2>2. CASE i # n
    <3>1. i \in 1 .. n - 1 /\ frames'[t][i] = frames[t][i]
          BY <1>2, <1>4, <2>2
    <3> QED
          BY <1>1, <1>3, <3>1 DEF FramesOK
  <2> QED
        BY <2>1, <2>2
<1> HIDE DEF n
<1> QED
      BY <1>4, <1>5 DEF FramesOK, Late

(* What may become of a class, but for the end of its initialization.      *)
Advances ==
  /\ UNCHANGED <<initThread, clinitRuns>>
  /\ \A c \in Classes :
       \/ status'[c] \in {status[c], "ERROR"}
       \/ status'[c] = "READY" /\ c \notin HasClinit
       \/ status'[c] = "VERIFIED" /\ status[c] \notin {"READY", "ERROR"}
       \/ IsEarly(c) /\ status'[c] # "READY"

LEMMA AdvancesKeep ==
  ASSUME CInv, Advances
  PROVE  RunsInv' /\ StatusKept /\ \A c \in Classes : ClassKept(c)
<1>1. RunsInv
      BY InvFacts
<1>2. RunsInv'
      BY <1>1 DEF RunsInv, Advances, IsEarly, Late
<1>3. StatusKept
      BY DEF StatusKept, Advances, Late
<1>4. \A c \in Classes : ClassKept(c)
      BY DEF ClassKept, Advances
<1> QED
      BY <1>2, <1>3, <1>4

QuietTop(t, f) ==
  /\ frames[t] # <<>> /\ Replaces(t, f) /\ f.class = Top(t).class
  /\ f.state # 3 /\ (f.clinit => f.state = 5)
  /\ f.state \in 4..6 \/ (busy' = t /\ point' \in 3..5) => Marked(t, Len(frames[t]))
  /\ f.class \in HasClinit =>
       (f.state \in 5..6 \/ (busy' = t /\ point' = 5) <=> HasRun(t, Len(frames[t])))

QuietVM(t) ==
  /\ loads' = <<>>
  /\ busy \in {NIL, t} /\ busy' \in {NIL, t} /\ (busy' = NIL => point' = 0) /\ point' # -2
  /\ \A u \in Threads :
       u # t /\ (pendingException'[u] \/ Waits(u)') => pendingException[u] \/ Waits(u)

LEMMA QuietStep ==
  ASSUME CInv, NEW t \in Threads, NEW f \in Frame, QuietTop(t, f), QuietVM(t), Advances,
         ClassTypes', MonTypes', BusyOK(t)', WaitsOK(t)'
  PROVE  CInv'
<1> DEFINE n == Len(frames[t])
<1>1. ClassTypes /\ RunsInv' /\ StatusKept /\ \A c \in Classes : ClassKept(c)
      BY InvFacts, AdvancesKeep
<1>2. /\ n \in Nat /\ n \in 1 .. n /\ Top(t) = frames[t][n]
      /\ \A i \in 1 .. n : frames[t][i].class \in Classes
      BY <1>1, FrameFacts DEF QuietTop
<1>3. FramesOK(t)'
      BY <1>1, FramesReplaced DEF QuietTop
<1>4. Len(frames'[t]) = n /\ frames'[t][n] = f /\ \A i \in 1 .. n - 1 : frames'[t][i] = frames[t][i]
      BY DEF Replaces, QuietTop
<1>5. MarkedOK(t)'
  <2>1. frames'[t] \in Seq(Frame)
        BY DEF QuietTop, Replaces, KeepsOthers
  <2>2. ASSUME NEW i \in 1 .. n, Marked(t, i)'
        PROVE  /\ i \in 1 .. Len(frames[t]) /\ Marked(t, i)
               /\ frames'[t][i].class = frames[t][i].class
               /\ ClassKept(frames[t][i].class)
               /\ frames[t][i].class \in HasClinit => (HasRun(t, i)' <=> HasRun(t, i))
    <3>1. CASE i = n
      <4>1. frames'[t][i] = f /\ f.class = frames[t][i].class
            BY <1>2, <1>4, <3>1 DEF QuietTop
      <4>2. Marked(t, i)
            BY <1>4, <2>2, <3>1, <4>1 DEF QuietTop, Marked
      <4>3. frames[t][i].class \in HasClinit => (HasRun(t, i)' <=> HasRun(t, i))
            BY <1>4, <3>1, <4>1 DEF QuietTop, HasRun
      <4> QED
            BY <1>1, <1>2, <4>1, <4>2, <4>3
    <3>2. CASE i # n
      <4>1. i \in 1 .. n - 1 /\ frames'[t][i] = frames[t][i] /\ i # Len(frames'[t])
            BY <1>2, <1>4, <3>2
      <4>2. (Marked(t, i)' <=> Marked(t, i)) /\ (HasRun(t, i)' <=> HasRun(t, i))
            BY <3>2, <4>1 DEF Marked, HasRun
      <4> QED
            BY <1>1, <1>2, <2>2, <4>1, <4>2
    <3> QED
          BY <3>1, <3>2
  <2> HIDE DEF n
  <2> QED
        BY <1>4, <2>1, <2>2, MarksKept
<1>6. SparesOthers(t)
      BY <1>1 DEF SparesOthers, QuietVM, QuietTop, Replaces
<1>7. PointInv'
      BY DEF PointInv, QuietVM
<1>8. LoadsInv'
      BY AtRest DEF QuietVM
<1>9. ThreadOK(t)'
      BY <1>3, <1>5 DEF ThreadOK
<1> QED
      BY <1>1, <1>6, <1>7, <1>8, <1>9, Assemble

(* Frames and monitors as a step of runClinit finds and leaves them.       *)
LEMMA SameStatus ==
  UNCHANGED <<status, initThread, clinitRuns>> => Advances
BY DEF Advances

LEMMA VMTypes ==
  ASSUME CInv, NEW t \in Threads, KeepsOthers(t), UNCHANGED <<status, initThread, clinitRuns>>,
         UNCHANGED loaderVars, UNCHANGED throwVars, busy' \in {NIL, t}, point' \in -1..5
  PROVE  ClassTypes'
BY InvFacts DEF ClassTypes, KeepsOthers, loaderVars, throwVars

(* A step that drops the top frame of t; an exception also ends the        *)
(* <clinit> below.                                                         *)
Drops(t) ==
  /\ KeepsOthers(t) /\ Len(frames'[t]) = Len(frames[t]) - 1
  /\ \A i \in 1 .. Len(frames[t]) - 1 :
       \/ frames'[t][i] = frames[t][i]
       \/ i = Len(frames[t]) - 1 /\ frames'[t][i] = [frames[t][i] EXCEPT !.clinit = FALSE]

LEMMA PopDrops == \A t \in Threads : Pops(t) => Drops(t)
BY DEF Pops, Drops

LEMMA DropStep ==
  ASSUME CInv, NEW t \in Threads, frames[t] # <<>>, Drops(t), SparesOthers(t),
         loads = <<>>, loads' = <<>>, busy' = NIL => point' = 0, point' \in -1..0,
         \A d \in Classes : d # Top(t).class => ClassKept(d),
         Marked(t, Len(frames[t])) \/ ClassKept(Top(t).class),
         ClassTypes', MonTypes', RunsInv', BusyOK(t)', ~ pendingException'[t], ~ Waits(t)'
  PROVE  CInv'
<1> DEFINE n == Len(frames[t])
<1>1. ClassTypes /\ FramesOK(t) /\ MarkedOK(t)
      BY InvFacts DEF ThreadOK
<1>2. /\ n \in Nat /\ n \in 1 .. n /\ Top(t) = frames[t][n]
      /\ \A i \in 1 .. n : frames[t][i] \in Frame /\ frames[t][i].class \in Classes
      BY <1>1, FrameFacts
<1>3. /\ Len(frames'[t]) = n - 1 /\ frames'[t] \in Seq(Frame)
      /\ \A i \in 1 .. n - 1 :
           /\ i \in 1 .. n /\ i # n
           /\ frames'[t][i].class = frames[t][i].class /\ frames'[t][i].state = frames[t][i].state
           /\ frames'[t][i].clinit => frames[t][i].clinit
           /\ i < n - 1 => frames'[t][i] = frames[t][i]
  <2>1. ASSUME NEW i \in 1 .. n - 1
        PROVE  /\ frames'[t][i].class = frames[t][i].class /\ frames'[t][i].state = frames[t][i].state
               /\ frames'[t][i].clinit => frames[t][i].clinit
               /\ i < n - 1 => frames'[t][i] = frames[t][i]
    <3>1. frames[t][i] \in Frame
          BY <1>2
    <3>2. CASE frames'[t][i] = frames[t][i]
          BY <3>2
    <3>3. CASE i = n - 1 /\ frames'[t][i] = [frames[t][i] EXCEPT !.clinit = FALSE]
          BY <3>1, <3>3 DEF Frame
    <3> QED
          BY <3>2, <3>3 DEF Drops
  <2> QED
        BY <1>2, <2>1 DEF Drops, KeepsOthers
<1> HIDE DEF n
<1>4. FramesOK(t)'
  <2>1. \A i \in 1 .. n - 1 : status'[frames[t][i].class] \in Late
        BY <1>1, <1>2, <1>3 DEF n, FramesOK, SparesOthers, StatusKept, IsEarly, Late
  <2>2. \A i \in 1 .. n - 1 : i < n - 1 => frames'[t][i].state = 4 \/ frames'[t][i].clinit
        BY <1>1, <1>2, <1>3 DEF n, FramesOK
  <2>3. ASSUME NEW i \in 1 .. n - 1
        PROVE  frames'[t][i].state # 3 /\ (frames'[t][i].clinit => frames'[t][i].state = 5)
    <3>1. frames[t][i].state # 3 /\ (frames[t][i].clinit => frames[t][i].state = 5)
      <4>1. i \in 1 .. n
            BY <1>3
      <4> QED
            BY <1>1, <4>1 DEF n, FramesOK
    <3>2. /\ frames'[t][i].state = frames[t][i].state
          /\ frames'[t][i].clinit => frames[t][i].clinit
          BY <1>3
    <3> QED
          BY <3>1, <3>2
  <2> QED
        BY <1>3, <2>1, <2>2, <2>3 DEF FramesOK, Late
<1>5. MarkedOK(t)'
  <2>1. ASSUME NEW i \in 1 .. n - 1, Marked(t, i)'
        PROVE  /\ i \in 1 .. Len(frames[t]) /\ Marked(t, i)
               /\ frames'[t][i].class = frames[t][i].class
               /\ ClassKept(frames[t][i].class)
               /\ frames[t][i].class \in HasClinit => (HasRun(t, i)' <=> HasRun(t, i))
    <3>1. frames[t][i].state \in 4..6 /\ Marked(t, i)
          BY <1>3, <2>1 DEF Marked
    <3>2. HasRun(t, i)' <=> HasRun(t, i)
      <4>1. HasRun(t, i)' <=> frames'[t][i].state \in 5..6
            BY DEF HasRun
      <4>2. HasRun(t, i) <=> frames[t][i].state \in 5..6
            BY <1>3 DEF HasRun, n
      <4> QED
            BY <1>3, <4>1, <4>2
    <3>3. frames[t][i].class # Top(t).class \/ ClassKept(Top(t).class)
      <4>1. CASE Marked(t, n) /\ frames[t][i].class = Top(t).class
        <5>1. Initializes(t, i, frames[t][i].class)
              BY <1>1, <1>3, <3>1 DEF MarkedOK, n
        <5>2. i = n
              BY <1>2, <4>1, <5>1 DEF Initializes, n
        <5> QED
              BY <1>3, <5>2
      <4> QED
            BY <4>1 DEF n
    <3>4. ClassKept(frames[t][i].class)
          BY <1>2, <1>3, <3>3
    <3> QED
          BY <1>3, <3>1, <3>2, <3>4 DEF n
  <2> QED
        BY <1>3, <2>1, MarksKept
<1>6. WaitsOK(t)'
      BY DEF WaitsOK
<1>7. PointInv' /\ LoadsInv'
      BY AtRest DEF PointInv, SparesOthers
<1> QED
      BY <1>4, <1>5, <1>6, <1>7, Assemble DEF ThreadOK

(* Leaving the VM for the interpreter.                                     *)
LEMMA ReturnOK ==
  ASSUME NEW t \in Threads, Return
  PROVE  BusyOK(t)' /\ busy' = NIL /\ point' = 0
BY ConstantFacts DEF Return, BusyOK

(* markClass                                                               *)
LEMMA MarkClassStep ==
  ASSUME CInv, NEW t \in Threads, NEW s \in {1, 2}, At(t, s), NEW c, c = Top(t).class,
         initThread[c] \in {NIL, t}, MarkClass(t, c), NobodyWaits,
         UNCHANGED <<status, loaderVars, clinitRuns, throwVars>>
  PROVE  CInv'
<1> DEFINE n == Len(frames[t])
<1>1. ClassTypes /\ MonTypes /\ RunsInv /\ FramesOK(t) /\ MarkedOK(t)
      BY InvFacts DEF ThreadOK
<1>2. /\ frames[t] # <<>> /\ ~ Top(t).clinit
      /\ busy \in {NIL, t} /\ loads = <<>> /\ ~ pendingException[t] /\ ~ Waits(t)
      /\ Top(t).state \in {1, 2} /\ ~ Marked(t, n) /\ ~ HasRun(t, n)
      BY AtFacts
<1>3. /\ n \in Nat /\ n \in 1 .. n /\ Top(t) = frames[t][n]
      /\ \A i \in 1 .. n : frames[t][i] \in Frame /\ frames[t][i].class \in Classes
      /\ c \in Classes
      BY <1>1, <1>2, FrameFacts
<1>4. loads' = <<>> /\ UNCHANGED pendingException /\ MonTypes'
      /\ \A u \in Threads : Waits(u)' => Waits(u)
      BY <1>2 DEF loaderVars, throwVars, NobodyWaits
<1>5. CASE PopFrame(t) /\ Return /\ UNCHANGED initThread
  <2>1. Pops(t) /\ busy' = NIL /\ point' = 0 /\ BusyOK(t)'
        BY <1>1, <1>2, <1>5, PopTop, ReturnOK
  <2>2. Drops(t) /\ KeepsOthers(t)
        BY <2>1, PopDrops DEF Pops
  <2>3. RunsInv' /\ StatusKept /\ \A d \in Classes : ClassKept(d)
        BY <1>5, SameStatus, AdvancesKeep
  <2>4. SparesOthers(t)
        BY <1>2, <1>4, <2>1, <2>2, <2>3 DEF SparesOthers
  <2>5. ClassTypes'
        BY <1>5, <2>1, <2>2, VMTypes
  <2> QED
        BY <1>2, <1>3, <1>4, <2>1, <2>2, <2>3, <2>4, <2>5, DropStep
<1>6. CASE /\ ~ IsSettled(t, c) /\ initThread' = [initThread EXCEPT ![c] = t]
           /\ FallThrough(t, 3) /\ UNCHANGED frames
  <2>1. /\ initThread[c] = NIL /\ status[c] \notin {"READY", "ERROR"} /\ clinitRuns[c] = 0
        BY <1>1, <1>3, <1>6 DEF IsSettled, RunsInv
  <2>2. /\ initThread' \in [Classes -> Threads \cup {NIL}] /\ initThread'[c] = t
        /\ \A d \in Classes : d # c => initThread'[d] = initThread[d]
        BY <1>1, <1>3, <1>6 DEF ClassTypes
  <2>3. busy' = t /\ point' = 3 /\ UNCHANGED frames
        BY <1>6 DEF FallThrough
  <2>4. ClassTypes'
        BY <1>1, <2>2, <2>3 DEF ClassTypes, loaderVars, throwVars
  <2>5. \A d \in Classes : d # c => ClassKept(d)
        BY <2>2 DEF ClassKept
  <2>6. StatusKept /\ RunsInv'
        BY <1>1, <2>1, <2>2 DEF StatusKept, RunsInv, Late
  <2>7. SparesOthers(t)
    <3>1. KeepsOthers(t)
          BY <1>1, <2>3 DEF KeepsOthers, ClassTypes
    <3> QED
          BY <1>2, <1>4, <2>1, <2>3, <2>5, <2>6, <3>1 DEF SparesOthers
  <2>8. PointInv' /\ LoadsInv'
        BY <1>2, <1>4, <2>3, AtRest, ConstantFacts DEF PointInv
  <2>9. ThreadOK(t)'
    <3>1. FramesOK(t)'
          BY <1>1, <2>3 DEF FramesOK, Late
    <3>2. BusyOK(t)'
          BY <1>2, <2>3 DEF BusyOK, TopAt, StatesAt, Top
    <3>3. WaitsOK(t)'
          BY <1>2, <1>4 DEF WaitsOK
    <3>4. \A i \in 1 .. n : /\ Marked(t, i)' <=> Marked(t, i) \/ i = n
                            /\ HasRun(t, i)' <=> HasRun(t, i)
          BY <1>2, <1>3, <2>3 DEF Marked, HasRun
    <3>5. \A i \in 1 .. n : Marked(t, i) => frames[t][i].class # c /\ i # n
          BY <1>1, <1>2, <1>3, <2>1, ConstantFacts DEF MarkedOK, Initializes
    <3>6. ASSUME NEW i \in 1 .. n, Marked(t, i)' PROVE Initializes(t, i, frames[t][i].class)'
      <4>1. PICK d : d = frames[t][i].class
            OBVIOUS
      <4>2. d \in Classes /\ frames'[t][i].class = d
            BY <1>3, <2>3, <4>1
      <4>3. CASE i = n
        <5>1. d = c
              BY <1>3, <4>1, <4>3
        <5>2. Initializes(t, i, c)'
              BY <1>2, <1>3, <2>1, <2>2, <2>3, <3>4, <3>5, <4>3 DEF Initializes
        <5> QED
              BY <4>2, <5>1, <5>2
      <4>4. CASE i # n
        <5>1. Marked(t, i) /\ d # c /\ Initializes(t, i, d)
              BY <1>1, <3>4, <3>5, <3>6, <4>1, <4>4 DEF MarkedOK
        <5>2. Initializes(t, i, d)'
              BY <1>3, <2>2, <2>3, <3>4, <4>2, <5>1 DEF Initializes
        <5> QED
              BY <4>2, <5>2
      <4> QED
            BY <4>3, <4>4
    <3>7. MarkedOK(t)'
          BY <2>3, <3>6 DEF MarkedOK
    <3> QED
          BY <3>1, <3>2, <3>3, <3>7 DEF ThreadOK
  <2> QED
        BY <1>4, <2>4, <2>6, <2>7, <2>8, <2>9, Assemble
<1> QED
      BY <1>5, <1>6 DEF MarkClass

(* A step of runClinit that changes its frame, goes on with another case,  *)
(* returns or throws.                                                      *)
GoesOn(t, f) ==
  \/ Return
  \/ busy' = t /\ point' \in {-1, 2, 3, 4, 5} /\ ~ f.clinit /\ f.state \in StatesAt(point')

LEMMA RunStep ==
  ASSUME CInv, NEW t \in Threads, NEW s \in 1..6, At(t, s),
         NEW f \in Frame, Replaces(t, f), GoesOn(t, f),
         f.class = Top(t).class, f.state # 3, f.clinit => f.state = 5,
         f.state \in 4..6 \/ (busy' = t /\ point' \in 3..5) => s >= 3,
         f.class \in HasClinit => (f.state \in 5..6 \/ (busy' = t /\ point' = 5) <=> s >= 5),
         NobodyWaits, Advances, status' \in [Classes -> Statuses],
         UNCHANGED loaderVars, UNCHANGED throwVars
  PROVE  CInv'
<1>1. /\ frames[t] # <<>> /\ busy \in {NIL, t} /\ loads = <<>>
      /\ ~ pendingException[t] /\ ~ Waits(t)
      /\ Marked(t, Len(frames[t])) <=> s >= 3
      /\ HasRun(t, Len(frames[t])) <=> s >= 5
      BY AtFacts
<1>2. /\ loads' = <<>> /\ pendingException' = pendingException
      /\ superClass' = superClass /\ isPendingInterrupt' = isPendingInterrupt /\ fatal' = fatal
      BY <1>1 DEF loaderVars, throwVars
<1>3. \/ busy' = NIL /\ point' = 0
      \/ busy' = t /\ point' \in {-1, 2, 3, 4, 5} /\ ~ f.clinit /\ f.state \in StatesAt(point')
      BY DEF GoesOn, Return
<1>4. QuietTop(t, f)
      BY <1>1, <1>3 DEF QuietTop
<1>5. QuietVM(t)
      BY <1>1, <1>2, <1>3, ConstantFacts DEF QuietVM, NobodyWaits
<1>6. ClassTypes'
  <2>1. ClassTypes
        BY InvFacts
  <2>2. frames' \in [Threads -> Seq(Frame)]
        BY DEF Replaces, KeepsOthers
  <2>3. busy' \in Threads \cup {NIL} /\ point' \in -2..6
        BY <1>3
  <2> QED
        BY <1>2, <2>1, <2>2, <2>3 DEF ClassTypes, Advances
<1>7. BusyOK(t)'
  <2> SUFFICES ASSUME busy' = t PROVE BusyOK(t)'
      BY DEF BusyOK
  <2>1. point' \in {-1, 2, 3, 4, 5} /\ ~ f.clinit /\ f.state \in StatesAt(point')
        BY <1>3, ConstantFacts
  <2>2. frames'[t] # <<>> /\ Top(t)' = f
    <3>1. Top(t)' = frames'[t][Len(frames'[t])] /\ frames'[t] \in Seq(Frame)
          BY DEF Top, Last, Replaces, KeepsOthers
    <3>2. Len(frames[t]) # 0
          BY <1>1, InvFacts, FrameFacts
    <3> QED
          BY <3>1, <3>2, EmptySeq DEF Replaces
  <2> QED
        BY <2>1, <2>2 DEF BusyOK, TopAt, StatesAt
<1>8. WaitsOK(t)'
      BY <1>1, <1>2 DEF WaitsOK, NobodyWaits
<1>9. MonTypes'
      BY DEF NobodyWaits
<1> QED
      BY <1>4, <1>5, <1>6, <1>7, <1>8, <1>9, QuietStep

LEMMA NextState ==
  ASSUME ClassTypes, NEW t \in Threads, frames[t] # <<>>, ~ Top(t).clinit,
         NEW s \in 1..6, InState(t, s)
  PROVE  \E f \in Frame :
           Replaces(t, f) /\ f.class = Top(t).class /\ f.state = s /\ ~ f.clinit
<1>1. PICK f : f = [Top(t) EXCEPT !.state = s]
      OBVIOUS
<1>2. Top(t) \in Frame
      BY FrameFacts
<1>3. f \in Frame /\ f.class = Top(t).class /\ f.state = s /\ ~ f.clinit
      BY <1>1, <1>2 DEF Frame
<1>4. Replaces(t, [Top(t) EXCEPT !.state = s])
      BY ChangeTop
<1> QED
      BY <1>1, <1>3, <1>4

LEMMA Case1Step == ASSUME CInv, NEW t \in Threads, Case1(t) PROVE CInv'
<1>0. PICK c : c = Top(t).class
      OBVIOUS
<1>1. /\ frames[t] # <<>> /\ ~ Top(t).clinit /\ Top(t).state = 1
      /\ loads = <<>> /\ ClassTypes /\ MonTypes
  <2>1. At(t, 1)
        BY Zenon DEF Case1
  <2> QED
        BY <2>1, AtFacts, InvFacts
<1>2. Top(t) \in Frame /\ c \in Classes
      BY <1>0, <1>1, FrameFacts
<1>3. At(t, 1) /\ UNCHANGED <<status, loaderVars, clinitRuns, throwVars>>
      BY Zenon DEF Case1
<1>4. \/ initThread[c] = NIL /\ MarkClass(t, c) /\ UNCHANGED monVars
      \/ /\ Mon!Enter(t, c) /\ UNCHANGED initThread
         /\ \/ FallThrough(t, 2) /\ UNCHANGED frames
            \/ InState(t, 2) /\ Return
      BY <1>0, Zenon DEF Case1
<1>5. CASE initThread[c] = NIL /\ MarkClass(t, c) /\ UNCHANGED monVars
  <2>1. NobodyWaits
        BY <1>1, <1>5, MonitorSame
  <2> QED
        BY <1>0, <1>3, <1>5, <2>1, MarkClassStep
<1>6. CASE /\ Mon!Enter(t, c) /\ UNCHANGED initThread
           /\ \/ FallThrough(t, 2) /\ UNCHANGED frames
              \/ InState(t, 2) /\ Return
  <2>1. NobodyWaits
        BY <1>1, <1>2, <1>6, EnterStep
  <2>2. Advances /\ status' \in [Classes -> Statuses] /\ UNCHANGED loaderVars /\ UNCHANGED throwVars
        BY <1>1, <1>3, <1>6, SameStatus DEF ClassTypes
  <2>3. CASE FallThrough(t, 2) /\ UNCHANGED frames
    <3>1. Replaces(t, Top(t)) /\ GoesOn(t, Top(t)) /\ busy' = t /\ point' = 2
          BY <1>1, <2>3, SameTop DEF GoesOn, FallThrough, StatesAt
    <3> QED
          BY <1>1, <1>2, <1>3, <2>1, <2>2, <3>1, RunStep
  <2>4. CASE InState(t, 2) /\ Return
    <3>1. 2 \in 1..6
          OBVIOUS
    <3>2. PICK f \in Frame :
            Replaces(t, f) /\ f.class = Top(t).class /\ f.state = 2 /\ ~ f.clinit
          BY <1>1, <2>4, <3>1, NextState
    <3>3. GoesOn(t, f)
          BY <2>4 DEF GoesOn
    <3>4. ~ (busy' = t /\ point' \in 3..5)
          BY <2>4 DEF Return
    <3> QED
          BY <1>3, <2>1, <2>2, <3>2, <3>3, <3>4, RunStep
  <2> QED
        BY <1>6, <2>3, <2>4
<1> QED
      BY <1>4, <1>5, <1>6

LEMMA TopAfter ==
  ASSUME NEW t \in Threads, NEW f, Replaces(t, f), Len(frames[t]) # 0
  PROVE  frames'[t] # <<>> /\ Top(t)' = f
<1>1. Top(t)' = frames'[t][Len(frames'[t])] /\ frames'[t] \in Seq(Frame)
      BY DEF Top, Last, Replaces, KeepsOthers
<1> QED
      BY <1>1, EmptySeq DEF Replaces

LEMMA Case2Step == ASSUME CInv, NEW t \in Threads, Case2(t) PROVE CInv'
<1>0. PICK c : c = Top(t).class
      OBVIOUS
<1>1. At(t, 2) /\ UNCHANGED <<status, loaderVars, clinitRuns>>
      BY Zenon DEF Case2
<1>2. /\ frames[t] # <<>> /\ ~ Top(t).clinit /\ Len(frames[t]) # 0
      /\ ~ Marked(t, Len(frames[t])) /\ ~ HasRun(t, Len(frames[t]))
      /\ loads = <<>> /\ busy \in {NIL, t} /\ ClassTypes /\ MonTypes
      BY <1>1, AtFacts, InvFacts, FrameFacts
<1>3. Top(t) \in Frame /\ c \in Classes
      BY <1>0, <1>2, FrameFacts
<1>4. \/ ~ OthersInitialize(t, c) /\ MarkClass(t, c) /\ Mon!Exit(t, c) /\ UNCHANGED throwVars
      \/ /\ InState(t, 2) /\ Return /\ UNCHANGED initThread
         /\ \/ Mon!Wait(t, c) /\ UNCHANGED fatal
            \/ fatal' = TRUE /\ UNCHANGED monVars
         /\ pendingException' = [pendingException EXCEPT ![t] = isPendingInterrupt[t]]
         /\ isPendingInterrupt' = [isPendingInterrupt EXCEPT ![t] = FALSE]
      BY <1>0, Zenon DEF Case2
<1>5. CASE ~ OthersInitialize(t, c) /\ MarkClass(t, c) /\ Mon!Exit(t, c) /\ UNCHANGED throwVars
  <2>1. NobodyWaits
        BY <1>2, <1>3, <1>5, ExitStep
  <2>2. initThread[c] \in {NIL, t}
        BY <1>5 DEF OthersInitialize
  <2>3. UNCHANGED <<status, loaderVars, clinitRuns, throwVars>>
        BY <1>1, <1>5
  <2> QED
        BY <1>0, <1>1, <1>5, <2>1, <2>2, <2>3, MarkClassStep
<1>6. CASE /\ InState(t, 2) /\ Return /\ UNCHANGED initThread
           /\ \/ Mon!Wait(t, c) /\ UNCHANGED fatal
              \/ fatal' = TRUE /\ UNCHANGED monVars
           /\ pendingException' = [pendingException EXCEPT ![t] = isPendingInterrupt[t]]
           /\ isPendingInterrupt' = [isPendingInterrupt EXCEPT ![t] = FALSE]
  <2>1. MonTypes' /\ \A u \in Threads : u # t /\ Waits(u)' => Waits(u)
    <3>1. CASE Mon!Wait(t, c)
          BY <1>2, <1>3, <3>1, WaitStep
    <3>2. CASE UNCHANGED monVars
          BY <1>2, <3>2, MonitorSame DEF NobodyWaits
    <3> QED
          BY <1>6, <3>1, <3>2
  <2>2. 2 \in 1..6
        OBVIOUS
  <2>3. PICK f \in Frame : Replaces(t, f) /\ f.class = Top(t).class /\ f.state = 2 /\ ~ f.clinit
        BY <1>2, <1>6, <2>2, NextState
  <2>4. busy' = NIL /\ point' = 0 /\ BusyOK(t)' /\ busy' # t
        BY <1>6, ReturnOK, ConstantFacts
  <2>5. Advances /\ loads' = <<>> /\ superClass' = superClass
        BY <1>1, <1>2, <1>6, SameStatus DEF loaderVars
  <2>6. QuietTop(t, f)
        BY <1>2, <2>3, <2>4, ConstantFacts DEF QuietTop
  <2>7. QuietVM(t)
        BY <1>2, <1>6, <2>1, <2>4, <2>5 DEF QuietVM, ClassTypes
  <2>8. ClassTypes'
    <3>1. frames' \in [Threads -> Seq(Frame)]
          BY <2>3 DEF Replaces, KeepsOthers
    <3>2. /\ pendingException' \in [Threads -> BOOLEAN] /\ isPendingInterrupt' \in [Threads -> BOOLEAN]
          /\ fatal' \in BOOLEAN
          BY <1>2, <1>6 DEF ClassTypes
    <3> QED
          BY <1>1, <1>2, <1>6, <2>4, <2>5, <3>1, <3>2 DEF ClassTypes
  <2>9. WaitsOK(t)'
    <3>1. frames'[t] # <<>> /\ Top(t)' = f
          BY <1>2, <2>3, TopAfter
    <3> QED
          BY <2>3, <2>4, <3>1 DEF WaitsOK, TopAt
  <2> QED
        BY <2>1, <2>4, <2>5, <2>6, <2>7, <2>8, <2>9, QuietStep
<1> QED
      BY <1>4, <1>5, <1>6

(* A step that pushes a frame for c on that of a superclass, or of a       *)
(* <clinit>, or none.                                                      *)
Lower(t) == frames'[t][Len(frames[t])]
Raises(t, c) ==
  /\ KeepsOthers(t)
  /\ Len(frames'[t]) = Len(frames[t]) + 1 /\ frames'[t][Len(frames[t]) + 1] = NewFrame(c)
  /\ \A i \in 1 .. Len(frames[t]) - 1 : frames'[t][i] = frames[t][i]
  /\ frames[t] # <<>> =>
       /\ Lower(t).class = Top(t).class
       /\ Lower(t).state = 4 \/ (Lower(t).state = 5 /\ Lower(t).clinit)
       /\ Lower(t).clinit => Lower(t).state = 5
       /\ Marked(t, Len(frames[t])) /\ (HasRun(t, Len(frames[t])) <=> Lower(t).state = 5)

LEMMA PushStep ==
  ASSUME CInv, NEW t \in Threads, NEW c \in Classes, Raises(t, c), status'[c] \in Late,
         QuietVM(t), busy' = NIL, Advances, ClassTypes', MonTypes',
         ~ pendingException'[t], ~ Waits(t)'
  PROVE  CInv'
<1> DEFINE n == Len(frames[t])
<1>1. /\ ClassTypes /\ RunsInv' /\ StatusKept /\ \A d \in Classes : ClassKept(d)
      /\ FramesOK(t) /\ busy' # t
      BY InvFacts, AdvancesKeep, ConstantFacts DEF ThreadOK
<1>2. /\ n \in Nat /\ (n # 0 => n \in 1 .. n /\ frames[t] # <<>> /\ Top(t) = frames[t][n])
      /\ \A i \in 1 .. n : frames[t][i].class \in Classes
      BY <1>1, FrameFacts
<1>3. /\ Len(frames'[t]) = n + 1 /\ frames'[t] \in Seq(Frame)
      /\ frames'[t][n + 1] = NewFrame(c)
      BY DEF Raises, KeepsOthers
<1>4. NewFrame(c).class = c /\ NewFrame(c).state = 1 /\ ~ NewFrame(c).clinit
      BY DEF NewFrame
<1>5. ASSUME NEW i \in 1 .. n
      PROVE  /\ frames'[t][i].class = frames[t][i].class
             /\ frames'[t][i].clinit => frames'[t][i].state = 5
             /\ frames'[t][i].state # 3
             /\ frames'[t][i].state = 4 \/ frames'[t][i].clinit
             /\ frames'[t][i].state \in 4..6 => Marked(t, i)
             /\ frames'[t][i].state \in 4..6 => (frames'[t][i].state \in 5..6 <=> HasRun(t, i))
  <2>1. CASE i = n
        BY <1>2, <2>1 DEF Raises, Lower
  <2>2. CASE i # n
    <3>1. i \in 1 .. n - 1 /\ frames'[t][i] = frames[t][i]
          BY <1>2, <2>2 DEF Raises
    <3>2. HasRun(t, i) <=> frames[t][i].state \in 5..6
          BY <2>2 DEF HasRun
    <3> QED
          BY <1>1, <3>1, <3>2 DEF FramesOK, Marked
  <2> QED
        BY <2>1, <2>2
<1>6. FramesOK(t)'
  <2>1. \A i \in 1 .. n : status'[frames[t][i].class] \in Late
        BY <1>1, <1>2 DEF FramesOK, StatusKept, IsEarly, Late
  <2>2. ASSUME NEW i \in 1 .. n + 1
        PROVE  /\ frames'[t][i].clinit => frames'[t][i].state = 5
               /\ frames'[t][i].state # 3
               /\ i < n + 1 => frames'[t][i].state = 4 \/ frames'[t][i].clinit
               /\ status'[frames'[t][i].class] \in Late
    <3>1. CASE i = n + 1
          BY <1>3, <1>4, <3>1
    <3>2. CASE i # n + 1
      <4>1. i \in 1 .. n
            BY <1>2, <3>2
      <4> QED
            BY <1>5, <2>1, <4>1
    <3> QED
          BY <3>1, <3>2
  <2> HIDE DEF n
  <2> QED
        BY <1>3, <2>2 DEF FramesOK, Late
<1>7. MarkedOK(t)'
  <2>1. ASSUME NEW i \in 1 .. n + 1, Marked(t, i)'
        PROVE  /\ i \in 1 .. Len(frames[t]) /\ Marked(t, i)
               /\ frames'[t][i].class = frames[t][i].class
               /\ ClassKept(frames[t][i].class)
               /\ frames[t][i].class \in HasClinit => (HasRun(t, i)' <=> HasRun(t, i))
    <3>1. frames'[t][i].state \in 4..6 /\ (HasRun(t, i)' <=> frames'[t][i].state \in 5..6)
          BY <1>1, <2>1 DEF Marked, HasRun
    <3>2. i # n + 1
          BY <1>3, <1>4, <3>1
    <3>3. i \in 1 .. n
          BY <1>2, <3>2
    <3> QED
          BY <1>1, <1>2, <1>5, <3>1, <3>3
  <2> HIDE DEF n
  <2> QED
        BY <1>3, <2>1, MarksKept
<1>8. SparesOthers(t)
      BY <1>1 DEF SparesOthers, QuietVM, Raises
<1>9. PointInv'
      BY DEF PointInv, QuietVM
<1>10. LoadsInv'
      BY AtRest DEF QuietVM
<1>11. BusyOK(t)' /\ WaitsOK(t)'
      BY <1>1 DEF BusyOK, WaitsOK
<1>12. ThreadOK(t)'
      BY <1>6, <1>7, <1>11 DEF ThreadOK
<1> QED
      BY <1>1, <1>8, <1>9, <1>10, <1>12, Assemble

(* initializeClass of a class that is neither ready nor in error, and its  *)
(* failures.                                                               *)
LEMMA InitializeAdvances ==
  ASSUME ClassTypes, NEW t, NEW c \in Classes, NEW frs, InitializeClass(t, c, frs),
         status[c] \notin {"READY", "ERROR"}, UNCHANGED <<initThread, clinitRuns>>
  PROVE  /\ Advances /\ status' \in [Classes -> Statuses] /\ status'[c] \in Late
         /\ \/ frames' = [frames EXCEPT ![t] = frs]
            \/ frames' = [frames EXCEPT ![t] = Append(frs, NewFrame(c))]
<1>1. \/ /\ c \notin HasClinit /\ status' = [status EXCEPT ![c] = "READY"]
         /\ frames' = [frames EXCEPT ![t] = frs]
      \/ /\ status' = [status EXCEPT ![c] = "VERIFIED"]
         /\ frames' = [frames EXCEPT ![t] = Append(frs, NewFrame(c))]
      BY Zenon DEF InitializeClass, NothingToRun
<1>2. "READY" \in Statuses /\ "VERIFIED" \in Statuses
      BY DEF Statuses
<1> QED
      BY <1>1, <1>2, ZenonT(60) DEF Advances, ClassTypes, Late

LEMMA FailureAdvances ==
  ASSUME ClassTypes, NEW c \in Classes, VerifyFails(c) \/ StackOverflows(c),
         UNCHANGED <<initThread, clinitRuns>>
  PROVE  Advances /\ status' \in [Classes -> Statuses]
<1>1. status' = [status EXCEPT ![c] = "ERROR"] \/ UNCHANGED status
      BY Zenon DEF VerifyFails, StackOverflows
<1>2. "ERROR" \in Statuses
      BY DEF Statuses
<1> QED
      BY <1>1, <1>2 DEF Advances, ClassTypes

(* The two halves of a push: its frame of runClinit, and the new one.      *)
LEMMA ReplaceAndPush ==
  ASSUME ClassTypes, NEW t \in Threads, frames[t] # <<>>, NEW f \in Frame, NEW c \in Classes,
         frames' = [frames EXCEPT ![t] = Append(Front(frames[t]) \o <<f>>, NewFrame(c))]
  PROVE  /\ KeepsOthers(t)
         /\ Len(frames'[t]) = Len(frames[t]) + 1 /\ frames'[t][Len(frames[t]) + 1] = NewFrame(c)
         /\ frames'[t][Len(frames[t])] = f
         /\ \A i \in 1 .. Len(frames[t]) - 1 : frames'[t][i] = frames[t][i]
<1>1. PICK g : g = NewFrame(c)
      OBVIOUS
<1>2. g \in Frame
      BY <1>1 DEF NewFrame, Frame
<1>3. PICK s : s = frames[t]
      OBVIOUS
<1>4. s \in Seq(Frame) /\ s # <<>> /\ Len(s) \in Nat /\ Len(s) # 0
      BY <1>3, FrameFacts
<1>5. PICK r : r = Front(s)
      OBVIOUS
<1>6. r \in Seq(Frame) /\ Len(r) = Len(s) - 1 /\ \A i \in 1 .. Len(s) - 1 : r[i] = s[i]
      BY <1>4, <1>5, FrontFacts
<1>7. PICK q : q = Append(r, f)
      OBVIOUS
<1>8. /\ r \o <<f>> = q /\ q \in Seq(Frame) /\ Len(q) = Len(s) /\ q[Len(s)] = f
      /\ \A i \in 1 .. Len(s) - 1 : q[i] = s[i]
  <2>1. /\ r \o <<f>> = q /\ q \in Seq(Frame) /\ Len(q) = Len(r) + 1 /\ q[Len(r) + 1] = f
        /\ \A i \in 1 .. Len(r) : q[i] = r[i]
        BY <1>6, <1>7, PushFacts
  <2>2. Len(r) + 1 = Len(s)
        BY <1>4, <1>6
  <2> QED
        BY <1>6, <2>1, <2>2
<1>9. PICK a : a = Append(q, g)
      OBVIOUS
<1>10. /\ a \in Seq(Frame) /\ Len(a) = Len(s) + 1 /\ a[Len(s) + 1] = g
       /\ \A i \in 1 .. Len(s) : a[i] = q[i]
      BY <1>2, <1>8, <1>9, PushFacts
<1>11. a[Len(s)] = f /\ \A i \in 1 .. Len(s) - 1 : a[i] = s[i]
  <2>1. Len(s) \in 1 .. Len(s) /\ \A i \in 1 .. Len(s) - 1 : i \in 1 .. Len(s)
        BY <1>4
  <2> QED
        BY <1>8, <1>10, <2>1
<1>12. frames' = [frames EXCEPT ![t] = a]
      BY <1>1, <1>3, <1>5, <1>8, <1>9
<1>13. /\ frames' \in [Threads -> Seq(Frame)] /\ frames'[t] = a
       /\ \A u \in Threads : u # t => frames'[u] = frames[u]
      BY <1>10, <1>12 DEF ClassTypes
<1> QED
      BY <1>1, <1>3, <1>10, <1>11, <1>13 DEF KeepsOthers

LEMMA Case3Step == ASSUME CInv, NEW t \in Threads, Case3(t) PROVE CInv'
<1>0. PICK c : c = Top(t).class
      OBVIOUS
<1>1. At(t, 3) /\ UNCHANGED <<loaderVars, initThread, clinitRuns, throwVars, monVars>>
      BY Zenon DEF Case3
<1>2. /\ frames[t] # <<>> /\ ~ Top(t).clinit /\ Len(frames[t]) # 0 /\ Top(t).state \in {1, 2}
      /\ Marked(t, Len(frames[t])) /\ ~ HasRun(t, Len(frames[t]))
      /\ ~ pendingException[t] /\ ~ Waits(t)
      /\ loads = <<>> /\ busy \in {NIL, t} /\ ClassTypes /\ MonTypes
      BY <1>1, AtFacts, InvFacts, FrameFacts
<1>3. Top(t) \in Frame /\ c \in Classes /\ superClass[c] \in Classes \cup {NIL}
      BY <1>0, <1>2, FrameFacts, SMTT(60) DEF ClassTypes
<1>4. PICK s : s = superClass[c]
      OBVIOUS
<1>5. PICK f : f = [Top(t) EXCEPT !.state = 4]
      OBVIOUS
<1>6. \/ FallThrough(t, 4) /\ UNCHANGED <<frames, status>>
      \/ /\ NeedsSuper(c)
         /\ (status[s] = "ERROR" /\ UNCHANGED status) \/ VerifyFails(s) \/ StackOverflows(s)
         /\ InState(t, 4) /\ Throw(t)
      \/ /\ NeedsSuper(c) /\ status[s] # "ERROR" /\ Return
         /\ InitializeClass(t, s, Front(frames[t]) \o <<f>>)
      BY <1>0, <1>4, <1>5, Zenon DEF Case3
<1>7. NobodyWaits /\ UNCHANGED loaderVars /\ UNCHANGED throwVars
      BY <1>1, <1>2, MonitorSame
<1>8. f \in Frame /\ f.class = c /\ f.state = 4 /\ ~ f.clinit
      BY <1>0, <1>2, <1>3, <1>5 DEF Frame
<1>9. CASE FallThrough(t, 4) /\ UNCHANGED <<frames, status>>
  <2>1. Advances /\ status' \in [Classes -> Statuses]
        BY <1>1, <1>2, <1>9, SameStatus DEF ClassTypes
  <2>2. Replaces(t, Top(t)) /\ GoesOn(t, Top(t)) /\ busy' = t /\ point' = 4
        BY <1>2, <1>9, SameTop DEF GoesOn, FallThrough, StatesAt
  <2> QED
        BY <1>1, <1>2, <1>3, <1>7, <2>1, <2>2, RunStep
<1>10. ASSUME NeedsSuper(c) PROVE s \in Classes /\ status[s] # "READY"
      BY <1>3, <1>4, <1>10 DEF NeedsSuper
<1>11. CASE /\ NeedsSuper(c)
            /\ (status[s] = "ERROR" /\ UNCHANGED status) \/ VerifyFails(s) \/ StackOverflows(s)
            /\ InState(t, 4) /\ Throw(t)
  <2>1. Advances /\ status' \in [Classes -> Statuses]
    <3>1. CASE UNCHANGED status
          BY <1>1, <1>2, <3>1, SameStatus DEF ClassTypes
    <3>2. CASE VerifyFails(s) \/ StackOverflows(s)
          BY <1>1, <1>2, <1>10, <1>11, <3>2, FailureAdvances
    <3> QED
          BY <1>11, <3>1, <3>2
  <2>2. 4 \in 1..6
        OBVIOUS
  <2>3. Replaces(t, f)
        BY <1>2, <1>5, <1>11, <2>2, ChangeTop
  <2>4. GoesOn(t, f) /\ point' = -1
        BY <1>8, <1>11 DEF GoesOn, Throw, StatesAt
  <2> QED
        BY <1>0, <1>1, <1>7, <1>8, <2>1, <2>3, <2>4, RunStep
<1>12. CASE /\ NeedsSuper(c) /\ status[s] # "ERROR" /\ Return
            /\ InitializeClass(t, s, Front(frames[t]) \o <<f>>)
  <2>1. /\ Advances /\ status' \in [Classes -> Statuses] /\ status'[s] \in Late
        /\ \/ frames' = [frames EXCEPT ![t] = Front(frames[t]) \o <<f>>]
           \/ frames' = [frames EXCEPT ![t] = Append(Front(frames[t]) \o <<f>>, NewFrame(s))]
    <3>1. PICK r : r = Front(frames[t]) \o <<f>>
          OBVIOUS
    <3>2. UNCHANGED <<initThread, clinitRuns>>
          BY <1>1
    <3>3. s \in Classes /\ InitializeClass(t, s, r) /\ status[s] \notin {"READY", "ERROR"}
          BY <1>10, <1>12, <3>1
    <3>4. /\ Advances /\ status' \in [Classes -> Statuses] /\ status'[s] \in Late
          /\ \/ frames' = [frames EXCEPT ![t] = r]
             \/ frames' = [frames EXCEPT ![t] = Append(r, NewFrame(s))]
          BY <1>2, <3>2, <3>3, InitializeAdvances
    <3> QED
          BY <3>1, <3>4
  <2>2. busy' = NIL /\ point' = 0 /\ busy' # t
        BY <1>12, ConstantFacts DEF Return
  <2>3. CASE frames' = [frames EXCEPT ![t] = Front(frames[t]) \o <<f>>]
    <3>1. Replaces(t, f)
          BY <1>2, <1>8, <2>3, ReplaceTop
    <3>2. GoesOn(t, f)
          BY <1>12 DEF GoesOn
    <3> QED
          BY <1>0, <1>1, <1>7, <1>8, <2>1, <2>2, <3>1, <3>2, RunStep
  <2>4. CASE frames' = [frames EXCEPT ![t] = Append(Front(frames[t]) \o <<f>>, NewFrame(s))]
    <3>1. /\ KeepsOthers(t)
          /\ Len(frames'[t]) = Len(frames[t]) + 1 /\ frames'[t][Len(frames[t]) + 1] = NewFrame(s)
          /\ Lower(t) = f
          /\ \A i \in 1 .. Len(frames[t]) - 1 : frames'[t][i] = frames[t][i]
          BY <1>2, <1>8, <1>10, <1>12, <2>4, ReplaceAndPush DEF Lower
    <3>2. Raises(t, s)
          BY <1>0, <1>2, <1>8, <3>1 DEF Raises
    <3>3. loads' = <<>> /\ pendingException' = pendingException
          BY <1>2, <1>7 DEF loaderVars, throwVars
    <3>4. QuietVM(t)
          BY <1>2, <1>7, <2>2, <3>3 DEF QuietVM, NobodyWaits
    <3>5. ClassTypes'
          BY <1>1, <1>2, <2>1, <2>2, <3>1 DEF ClassTypes, KeepsOthers, loaderVars, throwVars
    <3>6. MonTypes' /\ ~ pendingException'[t] /\ ~ Waits(t)'
          BY <1>2, <1>7, <3>3 DEF NobodyWaits
    <3> QED
          BY <1>10, <1>12, <2>1, <2>2, <3>2, <3>4, <3>5, <3>6, PushStep
  <2> QED
        BY <2>1, <2>3, <2>4
<1> QED
      BY <1>6, <1>9, <1>11, <1>12

(* The call of <clinit>.                                                   *)
LEMMA CallClinit ==
  ASSUME CInv, NEW t \in Threads, At(t, 4), NEW c \in HasClinit, c = Top(t).class,
         frames' = [frames EXCEPT ![t] =
           Front(@) \o <<[Top(t) EXCEPT !.state = 5, !.clinit = TRUE]>>],
         clinitRuns' = [clinitRuns EXCEPT ![c] = @ + 1], Return,
         UNCHANGED <<status, loaderVars, initThread, throwVars, monVars>>
  PROVE  CInv'
<1> DEFINE n == Len(frames[t])
<1>1. ClassTypes /\ MonTypes /\ RunsInv /\ FramesOK(t) /\ MarkedOK(t)
      BY InvFacts DEF ThreadOK
<1>2. /\ frames[t] # <<>> /\ busy \in {NIL, t} /\ loads = <<>>
      /\ ~ pendingException[t] /\ ~ Waits(t) /\ Marked(t, n) /\ ~ HasRun(t, n)
      BY AtFacts
<1>3. /\ n \in Nat /\ n \in 1 .. n /\ n # 0 /\ Top(t) = frames[t][n]
      /\ \A i \in 1 .. n : frames[t][i] \in Frame /\ frames[t][i].class \in Classes
      /\ c \in Classes
      BY <1>1, <1>2, FrameFacts, ClassAssumption
<1>4. PICK f : f = [Top(t) EXCEPT !.state = 5, !.clinit = TRUE]
      OBVIOUS
<1>5. f \in Frame /\ f.class = c /\ f.state = 5 /\ f.clinit
  <2>1. Top(t) \in Frame
        BY <1>3
  <2>2. PICK g \in Frame : g = Top(t)
        BY <2>1
  <2>3. f = [class |-> g.class, state |-> 5, clinit |-> TRUE] /\ g.class \in Classes
        BY <1>4, <2>2 DEF Frame
  <2> QED
        BY <2>2, <2>3 DEF Frame
<1>6. Replaces(t, f)
      BY <1>1, <1>2, <1>4, <1>5, ReplaceTop
<1>7. /\ busy' = NIL /\ point' = 0 /\ BusyOK(t)' /\ busy' # t
      BY ReturnOK, ConstantFacts
<1>8. Initializes(t, n, c)
      BY <1>1, <1>2, <1>3 DEF MarkedOK
<1>9. initThread[c] = t /\ clinitRuns[c] = 0 /\ status[c] # "READY" /\ status[c] \in Late
      BY <1>1, <1>2, <1>3, <1>8 DEF Initializes, FramesOK
<1>10. clinitRuns' \in [Classes -> Nat] /\ clinitRuns'[c] = 1
       /\ \A d \in Classes : d # c => clinitRuns'[d] = clinitRuns[d]
      BY <1>1, <1>3, <1>9 DEF ClassTypes
<1>11. /\ loads' = <<>> /\ superClass' = superClass /\ pendingException' = pendingException
       /\ isPendingInterrupt' = isPendingInterrupt /\ fatal' = fatal
       /\ status' = status /\ initThread' = initThread /\ UNCHANGED monVars
      BY <1>2 DEF loaderVars, throwVars
<1>12. NobodyWaits /\ MonTypes'
      BY <1>1, <1>11, MonitorSame DEF NobodyWaits
<1>13. StatusKept /\ \A d \in Classes : d # c => ClassKept(d)
      BY <1>10, <1>11 DEF StatusKept, ClassKept
<1>14. RunsInv'
      BY <1>1, <1>9, <1>10, <1>11, ConstantFacts DEF RunsInv, Late
<1>15. ClassTypes'
      BY <1>1, <1>6, <1>7, <1>10, <1>11 DEF ClassTypes, Replaces, KeepsOthers
<1>16. SparesOthers(t)
      BY <1>2, <1>6, <1>7, <1>9, <1>11, <1>12, <1>13 DEF SparesOthers, NobodyWaits, Replaces
<1>17. PointInv' /\ LoadsInv'
      BY <1>7, <1>11, AtRest DEF PointInv
<1>18. ThreadOK(t)'
  <2>1. FramesOK(t)'
        BY <1>2, <1>5, <1>6, <1>13, FramesReplaced
  <2>2. WaitsOK(t)'
        BY <1>2, <1>11, <1>12 DEF WaitsOK, NobodyWaits
  <2>3. Len(frames'[t]) = n /\ frames'[t][n] = f /\ \A i \in 1 .. n - 1 : frames'[t][i] = frames[t][i]
        BY <1>6 DEF Replaces
  <2>4. /\ \A i \in 1 .. n : (Marked(t, i)' <=> Marked(t, i)) /\ frames'[t][i].class = frames[t][i].class
        /\ \A i \in 1 .. n : i # n => (HasRun(t, i)' <=> HasRun(t, i))
        /\ \A i \in 1 .. n : i = n => HasRun(t, i)'
    <3>1. ASSUME NEW i \in 1 .. n
          PROVE  /\ Marked(t, i)' <=> Marked(t, i)
                 /\ frames'[t][i].class = frames[t][i].class
                 /\ i # n => (HasRun(t, i)' <=> HasRun(t, i))
      <4>1. CASE i = n
            BY <1>2, <1>3, <1>5, <2>3, <4>1 DEF Marked
      <4>2. CASE i # n
        <5>1. i \in 1 .. n - 1 /\ frames'[t][i] = frames[t][i]
              BY <1>3, <2>3, <4>2
        <5> QED
              BY <2>3, <4>2, <5>1 DEF Marked, HasRun
      <4> QED
            BY <4>1, <4>2
    <3>2. \A i \in 1 .. n : i = n => HasRun(t, i)'
          BY <1>5, <2>3 DEF HasRun
    <3> QED
          BY <3>1, <3>2
  <2>5. ASSUME NEW i \in 1 .. n, Marked(t, i)' PROVE Initializes(t, i, frames[t][i].class)'
    <3>1. PICK d : d = frames[t][i].class
          OBVIOUS
    <3>2. d \in Classes /\ frames'[t][i].class = d /\ Initializes(t, i, d)
          BY <1>1, <1>3, <2>4, <2>5, <3>1 DEF MarkedOK
    <3>3. i = n => d = c
          BY <1>3, <3>1
    <3>4. i # n => d # c
          BY <1>3, <1>8, <2>4, <2>5, <3>1 DEF Initializes
    <3>5. \A j \in 1 .. Len(frames'[t]) : Marked(t, j)' /\ frames'[t][j].class = d => i = j
          BY <2>3, <2>4, <3>2 DEF Initializes
    <3>6. initThread'[d] = t /\ status'[d] = status[d]
          BY <1>11, <3>2 DEF Initializes
    <3>7. d \in HasClinit => status'[d] # "READY" /\ clinitRuns'[d] = IF HasRun(t, i)' THEN 1 ELSE 0
      <4>1. CASE i = n
        <5>1. HasRun(t, i)'
              BY <2>4, <4>1
        <5>2. clinitRuns'[d] = 1 /\ status'[d] # "READY"
              BY <1>9, <1>10, <3>3, <3>6, <4>1
        <5> QED
              BY <5>1, <5>2
      <4>2. CASE i # n
        <5>1. clinitRuns'[d] = clinitRuns[d] /\ (HasRun(t, i)' <=> HasRun(t, i))
              BY <1>10, <2>4, <3>2, <3>4, <4>2
        <5> QED
              BY <3>2, <3>6, <5>1 DEF Initializes
      <4> QED
            BY <4>1, <4>2
    <3>8. Initializes(t, i, d)'
          BY <3>5, <3>6, <3>7 DEF Initializes
    <3> QED
          BY <3>2, <3>8
  <2>6. MarkedOK(t)'
        BY <2>3, <2>5 DEF MarkedOK
  <2> QED
        BY <1>7, <2>1, <2>2, <2>6 DEF ThreadOK
<1> QED
      BY <1>12, <1>14, <1>15, <1>16, <1>17, <1>18, Assemble

LEMMA Case4Step == ASSUME CInv, NEW t \in Threads, Case4(t) PROVE CInv'
<1>0. PICK c : c = Top(t).class
      OBVIOUS
<1>1. /\ At(t, 4) /\ UNCHANGED <<status, loaderVars, initThread, throwVars, monVars>>
      /\ \/ /\ c \in HasClinit
            /\ frames' = [frames EXCEPT ![t] =
                 Front(@) \o <<[Top(t) EXCEPT !.state = 5, !.clinit = TRUE]>>]
            /\ clinitRuns' = [clinitRuns EXCEPT ![c] = @ + 1] /\ Return
         \/ c \notin HasClinit /\ FallThrough(t, 5) /\ UNCHANGED <<frames, clinitRuns>>
      BY <1>0, Zenon DEF Case4
<1>2. CASE /\ c \in HasClinit
           /\ frames' = [frames EXCEPT ![t] =
                Front(@) \o <<[Top(t) EXCEPT !.state = 5, !.clinit = TRUE]>>]
           /\ clinitRuns' = [clinitRuns EXCEPT ![c] = @ + 1] /\ Return
      BY <1>0, <1>1, <1>2, CallClinit
<1>3. CASE c \notin HasClinit /\ FallThrough(t, 5) /\ UNCHANGED <<frames, clinitRuns>>
  <2>1. /\ frames[t] # <<>> /\ ~ Top(t).clinit /\ Top(t).state \in {1, 2, 4}
        /\ ClassTypes /\ MonTypes
        BY <1>1, AtFacts, InvFacts
  <2>2. Top(t) \in Frame /\ NobodyWaits /\ UNCHANGED loaderVars /\ UNCHANGED throwVars
        BY <1>1, <2>1, FrameFacts, MonitorSame
  <2>3. Advances /\ status' \in [Classes -> Statuses]
        BY <1>1, <1>3, <2>1, SameStatus DEF ClassTypes
  <2>4. Replaces(t, Top(t)) /\ GoesOn(t, Top(t)) /\ busy' = t /\ point' = 5
        BY <1>3, <2>1, SameTop DEF GoesOn, FallThrough, StatesAt
  <2> QED
        BY <1>0, <1>1, <1>3, <2>1, <2>2, <2>3, <2>4, RunStep
<1> QED
      BY <1>1, <1>2, <1>3

(* The end of an initialization that succeeds.                             *)
LEMMA UnmarkStep ==
  ASSUME CInv, NEW t \in Threads, NEW s \in {5, 6}, At(t, s), NEW c, c = Top(t).class,
         UnmarkClass(t, c), NobodyWaits,
         UNCHANGED <<loaderVars, clinitRuns, throwVars>>
  PROVE  CInv'
<1> DEFINE n == Len(frames[t])
<1>1. ClassTypes /\ MonTypes /\ RunsInv /\ FramesOK(t) /\ MarkedOK(t)
      BY InvFacts DEF ThreadOK
<1>2. /\ frames[t] # <<>> /\ busy \in {NIL, t} /\ loads = <<>>
      /\ ~ pendingException[t] /\ ~ Waits(t) /\ Marked(t, n) /\ HasRun(t, n)
      BY AtFacts
<1>3. n \in 1 .. n /\ Top(t) = frames[t][n] /\ c \in Classes
      BY <1>1, <1>2, FrameFacts
<1>4. Initializes(t, n, c)
      BY <1>1, <1>2, <1>3 DEF MarkedOK
<1>5. initThread[c] = t /\ (c \in HasClinit => clinitRuns[c] = 1)
      BY <1>2, <1>4 DEF Initializes
<1>6. /\ PopFrame(t) /\ Return
      /\ initThread' = [initThread EXCEPT ![c] = NIL]
      /\ status' = [status EXCEPT ![c] = "READY"]
      BY Zenon DEF UnmarkClass
<1>7. /\ loads' = <<>> /\ superClass' = superClass /\ pendingException' = pendingException
      /\ isPendingInterrupt' = isPendingInterrupt /\ fatal' = fatal /\ clinitRuns' = clinitRuns
      BY <1>2 DEF loaderVars, throwVars
<1>8. /\ busy' = NIL /\ point' = 0 /\ BusyOK(t)'
      BY <1>6, ReturnOK
<1>9. Pops(t) /\ Drops(t) /\ KeepsOthers(t)
      BY <1>1, <1>2, <1>6, PopTop, PopDrops DEF Pops
<1>10. /\ initThread' \in [Classes -> Threads \cup {NIL}] /\ status' \in [Classes -> Statuses]
       /\ initThread'[c] = NIL /\ status'[c] = "READY"
       /\ \A d \in Classes : d # c => initThread'[d] = initThread[d] /\ status'[d] = status[d]
      BY <1>1, <1>3, <1>6 DEF ClassTypes, Statuses
<1>11. ClassTypes'
      BY <1>1, <1>7, <1>8, <1>9, <1>10 DEF ClassTypes, KeepsOthers
<1>12. RunsInv'
      BY <1>1, <1>5, <1>7, <1>10 DEF RunsInv, Late
<1>13. StatusKept /\ \A d \in Classes : d # c => ClassKept(d)
      BY <1>7, <1>10 DEF StatusKept, ClassKept, Late
<1>14. SparesOthers(t)
      BY <1>2, <1>5, <1>7, <1>8, <1>9, <1>13 DEF SparesOthers, NobodyWaits
<1>15. MonTypes' /\ ~ pendingException'[t] /\ ~ Waits(t)'
      BY <1>2, <1>7 DEF NobodyWaits
<1>16. (\A d \in Classes : d # Top(t).class => ClassKept(d)) /\ point' \in -1..0
      BY <1>8, <1>13
<1> HIDE DEF n
<1> QED
      BY <1>2, <1>7, <1>8, <1>9, <1>11, <1>12, <1>14, <1>15, <1>16, DropStep DEF n

LEMMA Case5Step == ASSUME CInv, NEW t \in Threads, Case5(t) PROVE CInv'
<1>0. PICK c : c = Top(t).class
      OBVIOUS
<1>1. /\ At(t, 5) /\ UNCHANGED <<loaderVars, clinitRuns, throwVars>>
      /\ \/ UnmarkClass(t, c) /\ EnterNotifyAllAndExit(t, c)
         \/ Mon!Enter(t, c) /\ InState(t, 6) /\ Return /\ UNCHANGED <<status, initThread>>
      BY <1>0, Zenon DEF Case5
<1>2. /\ frames[t] # <<>> /\ ~ Top(t).clinit /\ ClassTypes /\ MonTypes
      BY <1>1, AtFacts, InvFacts
<1>3. c \in Classes
      BY <1>0, <1>2, FrameFacts
<1>4. CASE UnmarkClass(t, c) /\ EnterNotifyAllAndExit(t, c)
  <2>1. NobodyWaits
        BY <1>2, <1>3, <1>4, NotifySteps
  <2> QED
        BY <1>0, <1>1, <1>4, <2>1, UnmarkStep
<1>5. CASE Mon!Enter(t, c) /\ InState(t, 6) /\ Return /\ UNCHANGED <<status, initThread>>
  <2>1. NobodyWaits /\ UNCHANGED loaderVars /\ UNCHANGED throwVars
        BY <1>1, <1>2, <1>3, <1>5, EnterStep
  <2>2. 6 \in 1..6
        OBVIOUS
  <2>3. PICK f \in Frame : Replaces(t, f) /\ f.class = Top(t).class /\ f.state = 6 /\ ~ f.clinit
        BY <1>2, <1>5, <2>2, NextState
  <2>4. GoesOn(t, f)
        BY <1>5 DEF GoesOn
  <2>5. Advances /\ status' \in [Classes -> Statuses]
        BY <1>1, <1>2, <1>5, SameStatus DEF ClassTypes
  <2> QED
        BY <1>1, <2>1, <2>3, <2>4, <2>5, RunStep
<1> QED
      BY <1>1, <1>4, <1>5

LEMMA Case6Step == ASSUME CInv, NEW t \in Threads, Case6(t) PROVE CInv'
<1>0. PICK c : c = Top(t).class
      OBVIOUS
<1>1. /\ At(t, 6) /\ UNCHANGED <<loaderVars, clinitRuns, throwVars>>
      /\ UnmarkClass(t, c) /\ NotifyAllAndExit(c)
      BY <1>0, Zenon DEF Case6
<1>2. frames[t] # <<>> /\ ClassTypes /\ MonTypes
      BY <1>1, AtFacts, InvFacts
<1>3. c \in Classes
      BY <1>0, <1>2, FrameFacts
<1>4. NobodyWaits
      BY <1>1, <1>2, <1>3, NotifySteps
<1> QED
      BY <1>0, <1>1, <1>4, UnmarkStep

(* <clinit> returns or throws, with or without a class that gets in error. *)
LEMMA ClinitEnds ==
  ASSUME CInv, NEW t \in Threads, frames[t] # <<>>, InJava(t),
         frames' = [frames EXCEPT ![t][Len(frames[t])].clinit = FALSE],
         busy \in {NIL, t}, ~ pendingException[t], ~ Waits(t), loads' = <<>>,
         (busy' = NIL /\ point' = 0) \/ (busy' = t /\ point' = -1),
         Advances, status' \in [Classes -> Statuses],
         superClass' \in [Classes -> Classes \cup {NIL}],
         fatal' \in BOOLEAN, UNCHANGED <<pendingException, isPendingInterrupt, monVars>>
  PROVE  CInv'
<1>1. ClassTypes /\ MonTypes /\ FramesOK(t)
      BY InvFacts DEF ThreadOK
<1>2. /\ Top(t) \in Frame /\ Top(t) = frames[t][Len(frames[t])] /\ Len(frames[t]) # 0
      /\ Len(frames[t]) \in 1 .. Len(frames[t])
      BY <1>1, FrameFacts
<1>3. Top(t).state = 5
      BY <1>1, <1>2 DEF FramesOK, InJava
<1>4. PICK f : f = [Top(t) EXCEPT !.clinit = FALSE]
      OBVIOUS
<1>5. f \in Frame /\ f.class = Top(t).class /\ f.state = 5 /\ ~ f.clinit
      BY <1>2, <1>3, <1>4 DEF Frame
<1>6. Replaces(t, f)
      BY <1>1, <1>4, ChangeTop
<1>7. frames'[t] # <<>> /\ Top(t)' = f
      BY <1>2, <1>6, TopAfter
<1>8. NobodyWaits /\ MonTypes' /\ ~ Waits(t)'
      BY <1>1, MonitorSame DEF NobodyWaits
<1>9. Marked(t, Len(frames[t])) /\ HasRun(t, Len(frames[t]))
      BY <1>2, <1>3 DEF Marked, HasRun
<1>10. QuietTop(t, f)
      BY <1>5, <1>6, <1>9 DEF QuietTop
<1>11. QuietVM(t)
      BY <1>8, ConstantFacts DEF QuietVM, NobodyWaits
<1>12. ClassTypes'
      BY <1>1, <1>6 DEF ClassTypes, Advances, Replaces, KeepsOthers
<1>13. BusyOK(t)'
      BY <1>5, <1>7, ConstantFacts DEF BusyOK, TopAt, StatesAt
<1>14. WaitsOK(t)'
      BY <1>8 DEF WaitsOK
<1> QED
      BY <1>5, <1>8, <1>10, <1>11, <1>12, <1>13, <1>14, QuietStep

(* A thread that runs Java code.                                           *)
LEMMA RunsFacts ==
  ASSUME CInv, NEW t \in Threads, Runs(t)
  PROVE  busy = NIL /\ point = 0 /\ loads = <<>> /\ ~ pendingException[t] /\ ~ Waits(t)
BY InvFacts, NotBlocked DEF Runs, PointInv

LEMMA ClinitReturnsStep == ASSUME CInv, NEW t \in Threads, ClinitReturns(t) PROVE CInv'
<1>1. /\ Runs(t) /\ frames[t] # <<>> /\ InJava(t)
      /\ frames' = [frames EXCEPT ![t][Len(frames[t])].clinit = FALSE]
      /\ UNCHANGED <<classVars, busy, point, throwVars, monVars>>
      BY Zenon DEF ClinitReturns
<1>2. /\ UNCHANGED <<status, initThread, clinitRuns>> /\ status' = status /\ superClass' = superClass
      /\ loads' = loads /\ fatal' = fatal
      /\ UNCHANGED <<pendingException, isPendingInterrupt, monVars>>
      BY <1>1 DEF classVars, loaderVars, throwVars
<1>3. Advances /\ ClassTypes
      BY <1>2, SameStatus, InvFacts
<1>4. status' \in [Classes -> Statuses] /\ superClass' \in [Classes -> Classes \cup {NIL}] /\ fatal' \in BOOLEAN
      BY <1>2, <1>3 DEF ClassTypes
<1>5. loads' = <<>> /\ busy' = NIL /\ point' = 0 /\ busy = NIL /\ ~ pendingException[t] /\ ~ Waits(t)
      BY <1>1, <1>2, RunsFacts
<1> QED
      BY <1>1, <1>2, <1>3, <1>4, <1>5, ClinitEnds

LEMMA ClinitThrowsStep == ASSUME CInv, NEW t \in Threads, ClinitThrows(t) PROVE CInv'
<1>1. /\ Runs(t) /\ frames[t] # <<>> /\ InJava(t) /\ Throw(t)
      /\ frames' = [frames EXCEPT ![t][Len(frames[t])].clinit = FALSE]
      /\ UNCHANGED <<classVars, throwVars, monVars>>
      BY Zenon DEF ClinitThrows
<1>2. /\ UNCHANGED <<status, initThread, clinitRuns>> /\ status' = status /\ superClass' = superClass
      /\ loads' = loads /\ fatal' = fatal
      /\ UNCHANGED <<pendingException, isPendingInterrupt, monVars>>
      BY <1>1 DEF classVars, loaderVars, throwVars
<1>3. Advances /\ ClassTypes
      BY <1>2, SameStatus, InvFacts
<1>4. status' \in [Classes -> Statuses] /\ superClass' \in [Classes -> Classes \cup {NIL}] /\ fatal' \in BOOLEAN
      BY <1>2, <1>3 DEF ClassTypes
<1>5. loads' = <<>> /\ busy' = t /\ point' = -1 /\ busy = NIL /\ ~ pendingException[t] /\ ~ Waits(t)
      BY <1>1, <1>2, RunsFacts DEF Throw
<1> QED
      BY <1>1, <1>2, <1>3, <1>4, <1>5, ClinitEnds

LEMMA PendingExceptionStep == ASSUME CInv, NEW t \in Threads, PendingException(t) PROVE CInv'
<1>1. /\ busy = NIL /\ ~ Mon!Blocked(t) /\ pendingException[t]
      /\ pendingException' = [pendingException EXCEPT ![t] = FALSE] /\ Throw(t)
      /\ UNCHANGED <<classVars, frames, isPendingInterrupt, fatal, monVars>>
      BY Zenon DEF PendingException
<1>2. /\ UNCHANGED <<status, initThread, clinitRuns>> /\ status' = status /\ superClass' = superClass
      /\ loads' = loads /\ fatal' = fatal /\ UNCHANGED frames
      /\ isPendingInterrupt' = isPendingInterrupt /\ UNCHANGED monVars
      BY <1>1 DEF classVars, loaderVars
<1>3. ClassTypes /\ MonTypes /\ PointInv /\ WaitsOK(t) /\ ~ Waits(t) /\ busy # t
      BY <1>1, InvFacts, NotBlocked, ConstantFacts DEF ThreadOK
<1>4. frames[t] # <<>> /\ ~ Top(t).clinit /\ Top(t).state = 2
      BY <1>1, <1>3 DEF WaitsOK, TopAt
<1>5. Top(t) \in Frame /\ Top(t) = frames[t][Len(frames[t])]
      BY <1>3, <1>4, FrameFacts
<1>6. loads' = <<>> /\ busy' = t /\ point' = -1
      BY <1>1, <1>2, <1>3 DEF PointInv, Throw
<1>7. NobodyWaits /\ MonTypes' /\ ~ Waits(t)'
      BY <1>2, <1>3, MonitorSame DEF NobodyWaits
<1>8. /\ pendingException' \in [Threads -> BOOLEAN] /\ ~ pendingException'[t]
      /\ \A u \in Threads : u # t => pendingException'[u] = pendingException[u]
      BY <1>1, <1>3 DEF ClassTypes
<1>9. Advances
      BY <1>2, SameStatus
<1>10. Replaces(t, Top(t))
      BY <1>2, <1>3, <1>4, SameTop
<1>11. QuietTop(t, Top(t))
      BY <1>3, <1>4, <1>5, <1>6, <1>10 DEF QuietTop, HasRun
<1>12. QuietVM(t)
      BY <1>1, <1>6, <1>7, <1>8, ConstantFacts DEF QuietVM, NobodyWaits
<1>13. ClassTypes'
      BY <1>2, <1>3, <1>6, <1>8, <1>9 DEF ClassTypes, Advances
<1>14. BusyOK(t)'
      BY <1>2, <1>4, <1>6 DEF BusyOK, TopAt, StatesAt, Top
<1>15. WaitsOK(t)'
      BY <1>7, <1>8 DEF WaitsOK
<1> QED
      BY <1>5, <1>7, <1>9, <1>11, <1>12, <1>13, <1>14, <1>15, QuietStep

(* The exception reaches the frame below, whose <clinit> ends.             *)
LEMMA DropInto ==
  ASSUME CInv, NEW t \in Threads, frames[t] # <<>>, Front(frames[t]) # <<>>,
         frames' = [frames EXCEPT ![t] =
           Front(Front(frames[t])) \o <<[Last(Front(frames[t])) EXCEPT !.clinit = FALSE]>>]
  PROVE  Drops(t) /\ TopAt(t, {4, 5})'
<1>1. ClassTypes /\ FramesOK(t)
      BY InvFacts DEF ThreadOK
<1>2. PICK s : s = frames[t]
      OBVIOUS
<1>3. s \in Seq(Frame) /\ s # <<>> /\ Len(s) \in Nat /\ \A i \in 1 .. Len(s) : s[i] \in Frame
      BY <1>1, <1>2, FrameFacts
<1>4. PICK r : r = Front(s)
      OBVIOUS
<1>5. r \in Seq(Frame) /\ r # <<>> /\ Len(r) = Len(s) - 1 /\ \A i \in 1 .. Len(s) - 1 : r[i] = s[i]
      BY <1>2, <1>3, <1>4, FrontFacts
<1>6. Len(r) \in Nat /\ Len(r) # 0 /\ Len(r) \in 1 .. Len(r)
      BY <1>5, EmptySeq
<1>7. PICK q : q = Front(r)
      OBVIOUS
<1>8. q \in Seq(Frame) /\ Len(q) = Len(r) - 1 /\ \A i \in 1 .. Len(r) - 1 : q[i] = r[i]
      BY <1>5, <1>7, FrontFacts
<1>9. Last(r) = r[Len(r)] /\ Len(r) \in 1 .. Len(s) - 1 /\ r[Len(r)] = s[Len(r)]
      BY <1>3, <1>5, <1>6 DEF Last
<1>10. Last(r) \in Frame
       BY <1>5, <1>6, <1>9
<1>11. PICK f : f = [Last(r) EXCEPT !.clinit = FALSE]
       OBVIOUS
<1>12. f \in Frame /\ f.class = Last(r).class /\ f.state = Last(r).state /\ ~ f.clinit
       BY <1>10, <1>11 DEF Frame
<1>13. Last(r).state \in {4, 5}
  <2>1. Len(r) \in 1 .. Len(frames[t]) /\ Len(r) < Len(frames[t])
        BY <1>2, <1>3, <1>5, <1>6
  <2>2. Last(r) = frames[t][Len(r)]
        BY <1>2, <1>9
  <2> QED
        BY <1>1, <2>1, <2>2 DEF FramesOK
<1>14. PICK a : a = Append(q, f)
       OBVIOUS
<1>15. /\ q \o <<f>> = a /\ a \in Seq(Frame) /\ Len(a) = Len(q) + 1 /\ a[Len(q) + 1] = f
       /\ \A i \in 1 .. Len(q) : a[i] = q[i]
       BY <1>8, <1>12, <1>14, PushFacts
<1>16. Len(a) = Len(r) /\ a[Len(r)] = f /\ \A i \in 1 .. Len(r) - 1 : a[i] = s[i]
  <2>1. Len(q) + 1 = Len(r) /\ \A i \in 1 .. Len(r) - 1 : i \in 1 .. Len(q) /\ i \in 1 .. Len(s) - 1
        BY <1>3, <1>5, <1>6, <1>8
  <2> QED
        BY <1>5, <1>8, <1>15, <2>1
<1>17. frames' = [frames EXCEPT ![t] = a]
       BY <1>2, <1>4, <1>7, <1>11, <1>15
<1>18. /\ frames' \in [Threads -> Seq(Frame)] /\ frames'[t] = a
       /\ \A u \in Threads : u # t => frames'[u] = frames[u]
       BY <1>1, <1>15, <1>17 DEF ClassTypes
<1>19. Drops(t)
  <2>1. ASSUME NEW i \in 1 .. Len(frames[t]) - 1
        PROVE  \/ frames'[t][i] = frames[t][i]
               \/ i = Len(frames[t]) - 1 /\ frames'[t][i] = [frames[t][i] EXCEPT !.clinit = FALSE]
    <3>1. CASE i = Len(r)
      <4>1. frames'[t][i] = f /\ Last(r) = frames[t][i]
            BY <1>2, <1>9, <1>16, <1>18, <3>1
      <4> QED
            BY <1>2, <1>5, <1>11, <3>1, <4>1
    <3>2. CASE i # Len(r)
      <4>1. i \in 1 .. Len(r) - 1
            BY <1>2, <1>3, <1>5, <3>2
      <4> QED
            BY <1>2, <1>16, <1>18, <4>1
    <3> QED
          BY <3>1, <3>2
  <2>2. Len(frames'[t]) = Len(frames[t]) - 1
        BY <1>2, <1>5, <1>16, <1>18
  <2> QED
        BY <1>18, <2>1, <2>2 DEF Drops, KeepsOthers
<1>20. TopAt(t, {4, 5})'
  <2>1. frames'[t] # <<>>
        BY <1>6, <1>15, <1>16, <1>18, EmptySeq
  <2>2. Top(t)' = f
        BY <1>16, <1>18 DEF Top, Last
  <2> QED
        BY <1>12, <1>13, <2>1, <2>2 DEF TopAt
<1> QED
      BY <1>19, <1>20

LEMMA ClinitExceptionStep == ASSUME CInv, NEW t \in Threads, ClinitException(t) PROVE CInv'
<1>0. PICK c : c = Top(t).class
      OBVIOUS
<1> DEFINE n == Len(frames[t])
<1>1. /\ busy = t /\ point = -1
      /\ UNCHANGED <<loaderVars, clinitRuns, pendingException, isPendingInterrupt>>
      BY Zenon DEF ClinitException
<1>2. /\ ClassTypes /\ MonTypes /\ RunsInv /\ FramesOK(t) /\ MarkedOK(t)
      /\ loads = <<>> /\ BusyOK(t) /\ ~ pendingException[t] /\ ~ Waits(t)
      BY <1>1, InvFacts DEF ThreadOK, PointInv, WaitsOK
<1>3. frames[t] # <<>> /\ ~ Top(t).clinit /\ Top(t).state \in {2, 4, 5}
      BY <1>1, <1>2 DEF BusyOK, TopAt, StatesAt
<1>4. Top(t) \in Frame /\ Top(t) = frames[t][n] /\ n \in 1 .. n /\ n # 0 /\ c \in Classes
      BY <1>0, <1>2, <1>3, FrameFacts
<1>5. /\ loads' = <<>> /\ superClass' = superClass /\ pendingException' = pendingException
      /\ isPendingInterrupt' = isPendingInterrupt /\ clinitRuns' = clinitRuns
      BY <1>1, <1>2 DEF loaderVars
<1>6. \/ /\ Top(t).state \notin {1, 4, 5} /\ fatal' = TRUE
         /\ UNCHANGED <<status, initThread, frames, busy, point, monVars>>
      \/ /\ Top(t).state \in {1, 4, 5} /\ UNCHANGED fatal
         /\ status' = [status EXCEPT ![c] = "ERROR"]
         /\ initThread' = [initThread EXCEPT ![c] = NIL]
         /\ EnterNotifyAllAndExit(t, c) \/ UNCHANGED monVars
         /\ \/ PopFrame(t) /\ Return
            \/ /\ Front(frames[t]) # <<>> /\ Throw(t)
               /\ frames' = [frames EXCEPT ![t] =
                    Front(Front(frames[t])) \o <<[Last(Front(frames[t])) EXCEPT !.clinit = FALSE]>>]
      BY <1>0, Zenon DEF ClinitException
<1>7. CASE /\ Top(t).state \notin {1, 4, 5} /\ fatal' = TRUE
           /\ UNCHANGED <<status, initThread, frames, busy, point, monVars>>
  <2>1. Top(t).state = 2 /\ UNCHANGED frames /\ busy' = t /\ point' = -1
        BY <1>1, <1>3, <1>7
  <2>2. Advances
        BY <1>5, <1>7, SameStatus
  <2>3. NobodyWaits /\ MonTypes' /\ ~ Waits(t)'
        BY <1>2, <1>7, MonitorSame DEF NobodyWaits
  <2>4. Replaces(t, Top(t))
        BY <1>2, <1>3, <2>1, SameTop
  <2>5. QuietTop(t, Top(t))
        BY <1>1, <1>3, <1>4, <2>1, <2>4 DEF QuietTop, HasRun
  <2>6. QuietVM(t)
        BY <1>1, <1>5, <2>1, <2>3, ConstantFacts DEF QuietVM, NobodyWaits
  <2>7. ClassTypes'
        BY <1>2, <1>5, <1>7, <2>1, <2>2 DEF ClassTypes, Advances
  <2>8. BusyOK(t)'
        BY <1>3, <2>1 DEF BusyOK, TopAt, StatesAt, Top
  <2>9. WaitsOK(t)'
        BY <1>2, <1>5, <2>3 DEF WaitsOK
  <2> QED
        BY <1>4, <2>2, <2>3, <2>5, <2>6, <2>7, <2>8, <2>9, QuietStep
<1>8. CASE /\ Top(t).state \in {1, 4, 5} /\ UNCHANGED fatal
           /\ status' = [status EXCEPT ![c] = "ERROR"]
           /\ initThread' = [initThread EXCEPT ![c] = NIL]
           /\ EnterNotifyAllAndExit(t, c) \/ UNCHANGED monVars
           /\ \/ PopFrame(t) /\ Return
              \/ /\ Front(frames[t]) # <<>> /\ Throw(t)
                 /\ frames' = [frames EXCEPT ![t] =
                      Front(Front(frames[t])) \o <<[Last(Front(frames[t])) EXCEPT !.clinit = FALSE]>>]
  <2>1. NobodyWaits /\ MonTypes' /\ ~ Waits(t)' /\ ~ pendingException'[t]
        BY <1>2, <1>4, <1>5, <1>8, NotifySteps, MonitorSame DEF NobodyWaits
  <2>2. Marked(t, n)
        BY <1>3, <1>4, <1>8 DEF Marked
  <2>3. Initializes(t, n, c)
        BY <1>0, <1>2, <1>4, <2>2 DEF MarkedOK
  <2>4. initThread[c] = t
        BY <2>3 DEF Initializes
  <2>5. /\ Drops(t) /\ BusyOK(t)' /\ busy' \in {NIL, t} /\ (busy' = NIL => point' = 0) /\ point' \in -1..0
    <3>1. CASE PopFrame(t) /\ Return
          BY <1>2, <1>3, <3>1, PopTop, PopDrops, ReturnOK
    <3>2. CASE /\ Front(frames[t]) # <<>> /\ Throw(t)
               /\ frames' = [frames EXCEPT ![t] =
                    Front(Front(frames[t])) \o <<[Last(Front(frames[t])) EXCEPT !.clinit = FALSE]>>]
      <4>1. Drops(t) /\ TopAt(t, {4, 5})'
            BY <1>3, <3>2, DropInto
      <4>2. busy' = t /\ point' = -1 /\ busy' # NIL
            BY <3>2, ConstantFacts DEF Throw
      <4>3. BusyOK(t)'
            BY <4>1, <4>2 DEF BusyOK, TopAt, StatesAt
      <4> QED
            BY <4>1, <4>2, <4>3
    <3> QED
          BY <1>8, <3>1, <3>2
  <2>6. KeepsOthers(t)
        BY <2>5 DEF Drops
  <2>7. /\ initThread' \in [Classes -> Threads \cup {NIL}] /\ status' \in [Classes -> Statuses]
        /\ initThread'[c] = NIL /\ status'[c] = "ERROR"
        /\ \A d \in Classes : d # c => initThread'[d] = initThread[d] /\ status'[d] = status[d]
        BY <1>2, <1>4, <1>8 DEF ClassTypes, Statuses
  <2>8. ClassTypes'
        BY <1>2, <1>5, <1>8, <2>5, <2>6, <2>7 DEF ClassTypes, KeepsOthers
  <2>9. RunsInv'
        BY <1>2, <1>5, <2>7 DEF RunsInv, Late
  <2>10. StatusKept /\ \A d \in Classes : d # c => ClassKept(d)
        BY <1>5, <2>7 DEF StatusKept, ClassKept, Late
  <2>11. SparesOthers(t)
        BY <1>1, <1>5, <2>1, <2>4, <2>5, <2>6, <2>10 DEF SparesOthers, NobodyWaits
  <2> HIDE DEF n
  <2> QED
        BY <1>0, <1>2, <1>3, <1>5, <2>1, <2>2, <2>5, <2>8, <2>9, <2>10, <2>11, DropStep DEF n
<1> QED
      BY <1>6, <1>7, <1>8

(* Steps that change neither classes nor frames.                           *)
LEMMA LoadsSame ==
  ASSUME LoadsInv, UNCHANGED <<status, superClass, loads>>
  PROVE  LoadsInv'
<1>1. status' = status /\ superClass' = superClass /\ loads' = loads
      OBVIOUS
<1>2. /\ \A phase : IsIn(phase)' <=> IsIn(phase)
      /\ current' = current /\ \A c : (IsEarly(c)' <=> IsEarly(c)) /\ (IsUnlinked(c)' <=> IsUnlinked(c))
      BY <1>1 DEF IsIn, current, IsEarly, IsUnlinked
<1>3. \A S, k : Chain(S, k)' <=> Chain(S, k)
      BY <1>1, <1>2 DEF Chain
<1> QED
      BY <1>1, <1>2, <1>3 DEF LoadsInv

LEMMA JavaStep ==
  ASSUME CInv, UNCHANGED <<classVars, frames, busy, point, fatal>>, NobodyWaits,
         \A u \in Threads : pendingException'[u] => pendingException[u] \/ Waits(u),
         pendingException' \in [Threads -> BOOLEAN], isPendingInterrupt' \in [Threads -> BOOLEAN]
  PROVE  CInv'
<1>1. /\ status' = status /\ superClass' = superClass /\ loads' = loads
      /\ initThread' = initThread /\ clinitRuns' = clinitRuns
      /\ frames' = frames /\ busy' = busy /\ point' = point /\ fatal' = fatal
      BY DEF classVars, loaderVars
<1>2. ClassTypes /\ RunsInv /\ PointInv /\ LoadsInv /\ \A u \in Threads : ThreadOK(u)
      BY InvFacts
<1>3. ClassTypes' /\ MonTypes' /\ RunsInv' /\ PointInv'
      BY <1>1, <1>2 DEF ClassTypes, RunsInv, PointInv, NobodyWaits, Late
<1>4. LoadsInv'
      BY <1>1, <1>2, LoadsSame
<1>5. ASSUME NEW u \in Threads PROVE ThreadOK(u)'
  <2>1. FramesOK(u) /\ BusyOK(u) /\ WaitsOK(u) /\ MarkedOK(u)
        BY <1>2 DEF ThreadOK
  <2>2. FramesOK(u)'
        BY <1>1, <2>1 DEF FramesOK, Late
  <2>3. BusyOK(u)'
        BY <1>1, <2>1 DEF BusyOK, InJava, TopAt, StatesAt, Top
  <2>4. WaitsOK(u)'
        BY <1>1, <2>1 DEF WaitsOK, TopAt, Top, NobodyWaits
  <2>5. \A i : (Marked(u, i)' <=> Marked(u, i)) /\ (HasRun(u, i)' <=> HasRun(u, i))
        BY <1>1 DEF Marked, HasRun
  <2>6. MarkedOK(u)'
    <3>1. \A i, c : Initializes(u, i, c)' <=> Initializes(u, i, c)
          BY <1>1, <2>5 DEF Initializes
    <3> QED
          BY <1>1, <2>1, <2>5, <3>1 DEF MarkedOK
  <2> QED
        BY <2>2, <2>3, <2>4, <2>6 DEF ThreadOK
<1>6. TypeOK'
      BY <1>3 DEF TypeOK, ClassTypes, MonTypes
<1> QED
      BY <1>3, <1>4, <1>5, <1>6 DEF CInv

LEMMA LockStep ==
  ASSUME CInv, NEW t \in Threads, NEW c \in Classes, Lock(t, c) \/ Unlock(t, c)
  PROVE  CInv'
<1>1. /\ Mon!Enter(t, c) \/ Mon!Exit(t, c)
      /\ UNCHANGED <<classVars, frames, busy, point, throwVars>>
      BY Zenon DEF Lock, Unlock
<1>2. ClassTypes /\ MonTypes
      BY InvFacts
<1>3. NobodyWaits
      BY <1>1, <1>2, EnterStep, ExitStep
<1>4. /\ UNCHANGED <<classVars, frames, busy, point, fatal>>
      /\ pendingException' = pendingException /\ isPendingInterrupt' = isPendingInterrupt
      BY <1>1 DEF throwVars
<1>5. /\ \A u \in Threads : pendingException'[u] => pendingException[u] \/ Waits(u)
      /\ pendingException' \in [Threads -> BOOLEAN] /\ isPendingInterrupt' \in [Threads -> BOOLEAN]
      BY <1>2, <1>4 DEF ClassTypes
<1> QED
      BY <1>3, <1>4, <1>5, JavaStep

LEMMA InterruptStep ==
  ASSUME CInv, NEW t \in Threads, NEW u \in Threads, Interrupt(t, u)
  PROVE  CInv'
<1>1. /\ UNCHANGED <<classVars, frames, busy, point, fatal>>
      /\ \/ \E c \in Classes :
              /\ Mon!Leave(u, c)
              /\ pendingException' = [pendingException EXCEPT ![u] = TRUE]
              /\ UNCHANGED isPendingInterrupt
         \/ /\ isPendingInterrupt' = [isPendingInterrupt EXCEPT ![u] = TRUE]
            /\ UNCHANGED <<pendingException, monVars>>
      BY Zenon DEF Interrupt
<1>2. ClassTypes /\ MonTypes
      BY InvFacts
<1>3. ASSUME NEW c \in Classes, Mon!Leave(u, c),
             pendingException' = [pendingException EXCEPT ![u] = TRUE],
             UNCHANGED isPendingInterrupt
      PROVE  CInv'
  <2>1. NobodyWaits /\ Waits(u)
        BY <1>2, <1>3, LeaveStep
  <2>2. /\ \A v \in Threads : pendingException'[v] => pendingException[v] \/ Waits(v)
        /\ pendingException' \in [Threads -> BOOLEAN] /\ isPendingInterrupt' \in [Threads -> BOOLEAN]
        BY <1>2, <1>3, <2>1 DEF ClassTypes
  <2> QED
        BY <1>1, <2>1, <2>2, JavaStep
<1>4. CASE /\ isPendingInterrupt' = [isPendingInterrupt EXCEPT ![u] = TRUE]
           /\ UNCHANGED <<pendingException, monVars>>
  <2>1. NobodyWaits
        BY <1>2, <1>4, MonitorSame
  <2>2. /\ \A v \in Threads : pendingException'[v] => pendingException[v] \/ Waits(v)
        /\ pendingException' \in [Threads -> BOOLEAN] /\ isPendingInterrupt' \in [Threads -> BOOLEAN]
        BY <1>2, <1>4 DEF ClassTypes
  <2> QED
        BY <1>1, <2>1, <2>2, JavaStep
<1> QED
      BY <1>1, <1>3, <1>4

LEMMA NothingStep == CInv /\ UNCHANGED vars => CInv'
<1> SUFFICES ASSUME CInv, UNCHANGED vars PROVE CInv'
    OBVIOUS
<1>1. /\ UNCHANGED <<classVars, frames, busy, point, fatal>> /\ UNCHANGED monVars
      /\ pendingException' = pendingException /\ isPendingInterrupt' = isPendingInterrupt
      BY DEF vars, throwVars
<1>2. ClassTypes /\ MonTypes
      BY InvFacts
<1>3. NobodyWaits
      BY <1>1, <1>2, MonitorSame
<1>4. /\ \A u \in Threads : pendingException'[u] => pendingException[u] \/ Waits(u)
      /\ pendingException' \in [Threads -> BOOLEAN] /\ isPendingInterrupt' \in [Threads -> BOOLEAN]
      BY <1>1, <1>2 DEF ClassTypes
<1> QED
      BY <1>1, <1>3, <1>4, JavaStep

(* A step of a thread that runs Java code, or of the loader for it.        *)
LEMMA FramesSame ==
  ASSUME CInv, NEW t \in Threads, UNCHANGED frames,
         busy = NIL \/ (busy = t /\ point = -2),
         busy' = NIL \/ (busy' = t /\ point' = -2 /\ InJava(t) /\ ~ pendingException[t] /\ ~ Waits(t)),
         Advances, ClassTypes', UNCHANGED <<pendingException, monVars>>,
         PointInv', LoadsInv'
  PROVE  CInv'
<1>1. /\ ClassTypes /\ MonTypes /\ RunsInv' /\ StatusKept /\ \A d \in Classes : ClassKept(d)
      /\ FramesOK(t) /\ WaitsOK(t)
      BY InvFacts, AdvancesKeep DEF ThreadOK
<1>2. NobodyWaits /\ MonTypes' /\ frames' = frames /\ pendingException' = pendingException
      BY <1>1, MonitorSame DEF NobodyWaits
<1>3. \A i \in 1 .. Len(frames[t]) : frames[t][i].class \in Classes
      BY <1>1, FrameFacts
<1>4. FramesOK(t)'
  <2>1. \A i \in 1 .. Len(frames[t]) : status'[frames[t][i].class] \in Late
        BY <1>1, <1>3 DEF FramesOK, StatusKept, IsEarly, Late
  <2> QED
        BY <1>1, <1>2, <2>1 DEF FramesOK, Late
<1>5. BusyOK(t)'
  <2>1. InJava(t)' <=> InJava(t)
        BY <1>2 DEF InJava, Top
  <2> QED
        BY <2>1, ConstantFacts DEF BusyOK
<1>6. WaitsOK(t)'
  <2>1. busy' = t => ~ pendingException'[t] /\ ~ Waits(t)'
        BY <1>2, ConstantFacts DEF NobodyWaits
  <2>2. TopAt(t, {2})' <=> TopAt(t, {2})
        BY <1>2 DEF TopAt, Top
  <2> QED
        BY <1>1, <1>2, <2>1, <2>2 DEF WaitsOK, NobodyWaits
<1>7. \A i : /\ Marked(t, i)' <=> frames[t][i].state \in 4..6
             /\ Marked(t, i) <=> frames[t][i].state \in 4..6
             /\ HasRun(t, i)' <=> frames[t][i].state \in 5..6
             /\ HasRun(t, i) <=> frames[t][i].state \in 5..6
      BY <1>2, ConstantFacts DEF Marked, HasRun
<1>8. MarkedOK(t)'
  <2>1. frames'[t] \in Seq(Frame)
        BY <1>1, <1>2 DEF ClassTypes
  <2> QED
        BY <1>1, <1>2, <1>3, <1>7, <2>1, MarksKept
<1>9. ThreadOK(t)'
      BY <1>4, <1>5, <1>6, <1>8 DEF ThreadOK
<1>10. SparesOthers(t)
      BY <1>1, <1>2 DEF SparesOthers, KeepsOthers, ClassTypes, NobodyWaits
<1> QED
      BY <1>1, <1>2, <1>9, <1>10, Assemble

LEMMA LoadBegins == ASSUME CInv, NEW t \in Threads, NEW c \in Classes, Load(t, c) PROVE CInv'
<1>1. /\ Runs(t) /\ InJava(t) /\ status[c] = "RAW"
      /\ loads' = <<Call(c)>> /\ busy' = t /\ point' = -2
      /\ UNCHANGED <<status, superClass, initThread, clinitRuns, frames, throwVars, monVars>>
      BY Zenon DEF Load, Executes
<1>2. /\ UNCHANGED <<status, initThread, clinitRuns>> /\ status' = status
      /\ superClass' = superClass /\ UNCHANGED frames /\ UNCHANGED <<pendingException, monVars>>
      /\ pendingException' = pendingException
      /\ isPendingInterrupt' = isPendingInterrupt /\ fatal' = fatal
      BY <1>1 DEF throwVars
<1>3. busy = NIL /\ ~ pendingException[t] /\ ~ Waits(t) /\ ClassTypes /\ Advances
      BY <1>1, <1>2, RunsFacts, InvFacts, SameStatus
<1>4. ClassTypes'
      BY <1>1, <1>2, <1>3 DEF ClassTypes
<1>5. PointInv'
      BY <1>1, ConstantFacts DEF PointInv
<1>6. LoadsInv'
  <2>1. PICK r : r = Call(c)
        OBVIOUS
  <2>2. r \in Calls /\ r.initiating = c /\ r.clazz = c /\ r.phase = "load"
        BY <2>1 DEF Call, Calls, Phases
  <2>3. loads' \in Seq(Calls) /\ Len(loads') = 1 /\ loads'[1] = r /\ loads' # <<>>
        BY <1>1, <2>1, <2>2
  <2>4. IsIn("load")' /\ current' = r /\ IsEarly(c)'
        BY <1>1, <1>2, <2>2, <2>3 DEF IsIn, current, IsEarly
  <2>5. Chain({c}, 1)'
        BY <1>1, <1>2, <2>2, <2>3, <2>4 DEF Chain
  <2>6. {c} \in SUBSET Classes /\ c \in {c}
        OBVIOUS
  <2>7. \E S \in SUBSET Classes : Chain(S, 1)' /\ c \in S
        BY <2>5, <2>6
  <2> QED
        BY <1>1, <1>2, <2>2, <2>3, <2>4, <2>7 DEF LoadsInv
<1> QED
      BY <1>1, <1>2, <1>3, <1>4, <1>5, <1>6, FramesSame

(* A thread inside the loader.                                             *)
LEMMA LoaderFacts ==
  ASSUME CInv, NEW t \in Threads, busy = t, loads # <<>>
  PROVE  /\ point = -2 /\ InJava(t) /\ ~ pendingException[t] /\ ~ Waits(t)
         /\ Len(loads) \in Nat /\ Len(loads) # 0 /\ loads \in Seq(Calls)
         /\ current \in Calls /\ IsEarly(current.initiating)
<1>1. PointInv /\ LoadsInv /\ BusyOK(t) /\ WaitsOK(t)
      BY InvFacts DEF ThreadOK
<1>2. point = -2 /\ InJava(t) /\ ~ pendingException[t] /\ ~ Waits(t)
      BY <1>1 DEF PointInv, BusyOK, WaitsOK
<1>3. loads \in Seq(Calls) /\ Len(loads) \in Nat /\ Len(loads) # 0
      BY <1>1, EmptySeq DEF LoadsInv
<1>4. 1 \in 1 .. Len(loads) /\ loads[1] \in Calls
      BY <1>3
<1> QED
      BY <1>1, <1>2, <1>3, <1>4 DEF LoadsInv, current

(* An exception in Java code.                                              *)
LEMMA ThrowStep ==
  ASSUME CInv, NEW t \in Threads, ThrowInJava(t), InJava(t), loads' = <<>>,
         busy = NIL \/ (busy = t /\ point = -2), ~ pendingException[t], ~ Waits(t),
         Advances, status' \in [Classes -> Statuses],
         superClass' \in [Classes -> Classes \cup {NIL}],
         fatal' \in BOOLEAN, UNCHANGED <<pendingException, isPendingInterrupt, monVars>>
  PROVE  CInv'
<1>1. CASE Return /\ UNCHANGED frames
  <2>1. busy' = NIL /\ point' = 0 /\ PointInv' /\ LoadsInv'
        BY <1>1, AtRest DEF Return, PointInv
  <2>2. ClassTypes'
        BY <1>1, <2>1, InvFacts DEF ClassTypes, Advances
  <2>3. UNCHANGED <<pendingException, monVars>>
        OBVIOUS
  <2> QED
        BY <1>1, <2>1, <2>2, <2>3, FramesSame
<1>2. CASE /\ frames[t] # <<>> /\ Throw(t)
           /\ frames' = [frames EXCEPT ![t][Len(frames[t])].clinit = FALSE]
  <2>1. busy' = t /\ point' = -1
        BY <1>2 DEF Throw
  <2> QED
        BY <1>2, <2>1, ClinitEnds
<1> QED
      BY <1>1, <1>2, Zenon DEF ThrowInJava

LEMMA UseStep == ASSUME CInv, NEW t \in Threads, NEW c \in Classes, Use(t, c) PROVE CInv'
<1>1. /\ loads' = <<>>
      /\ \/ InitializeClass(t, c, frames[t]) /\ Return
         \/ (VerifyFails(c) \/ StackOverflows(c)) /\ ThrowInJava(t)
      /\ UNCHANGED <<superClass, initThread, clinitRuns, throwVars, monVars>>
      BY Zenon DEF Use
<1>2. ClassTypes /\ MonTypes /\ FramesOK(t)
      BY InvFacts DEF ThreadOK
<1>3. /\ InJava(t) /\ ~ pendingException[t] /\ ~ Waits(t)
      /\ busy = NIL \/ (busy = t /\ point = -2)
      /\ status[c] \notin {"READY", "ERROR"}
  <2>1. CASE Executes(t, c) /\ status[c] \notin {"RAW", "READY", "ERROR"}
    <3>1. Runs(t) /\ InJava(t)
          BY <2>1 DEF Executes
    <3> QED
          BY <2>1, <3>1, RunsFacts
  <2>2. CASE busy = t /\ IsIn("done") /\ current.initiating = c
    <3>1. loads # <<>>
          BY <2>2 DEF IsIn
    <3> QED
          BY <2>2, <3>1, LoaderFacts DEF IsEarly
  <2> QED
        BY <2>1, <2>2, Zenon DEF Use
<1>4. /\ UNCHANGED <<initThread, clinitRuns>> /\ superClass' = superClass
      /\ UNCHANGED <<pendingException, isPendingInterrupt, monVars>>
      /\ UNCHANGED <<pendingException, monVars>> /\ UNCHANGED monVars
      /\ pendingException' = pendingException
      /\ isPendingInterrupt' = isPendingInterrupt /\ fatal' = fatal
      BY <1>1 DEF throwVars
<1>5. superClass' \in [Classes -> Classes \cup {NIL}] /\ fatal' \in BOOLEAN
      BY <1>2, <1>4 DEF ClassTypes
<1>6. CASE (VerifyFails(c) \/ StackOverflows(c)) /\ ThrowInJava(t)
  <2>1. Advances /\ status' \in [Classes -> Statuses]
        BY <1>2, <1>4, <1>6, FailureAdvances
  <2> QED
        BY <1>1, <1>3, <1>4, <1>5, <1>6, <2>1, ThrowStep
<1>7. CASE InitializeClass(t, c, frames[t]) /\ Return
  <2>1. PICK r : r = frames[t]
        OBVIOUS
  <2>2. /\ Advances /\ status' \in [Classes -> Statuses] /\ status'[c] \in Late
        /\ \/ frames' = [frames EXCEPT ![t] = r]
           \/ frames' = [frames EXCEPT ![t] = Append(r, NewFrame(c))]
    <3>1. InitializeClass(t, c, r)
          BY <1>7, <2>1
    <3> QED
          BY <1>2, <1>3, <1>4, <3>1, InitializeAdvances
  <2>3. busy' = NIL /\ point' = 0
        BY <1>7 DEF Return
  <2>4. CASE frames' = [frames EXCEPT ![t] = r]
    <3>1. frames' = frames
          BY <1>2, <2>1, <2>4 DEF ClassTypes
    <3>2. PointInv' /\ LoadsInv'
          BY <1>1, <2>3, AtRest DEF PointInv
    <3>3. ClassTypes'
          BY <1>2, <1>4, <1>5, <2>2, <2>3, <3>1 DEF ClassTypes, Advances
    <3> QED
          BY <1>3, <1>4, <2>2, <2>3, <3>1, <3>2, <3>3, FramesSame
  <2>5. CASE frames' = [frames EXCEPT ![t] = Append(r, NewFrame(c))]
    <3>1. Pushes(t, NewFrame(c))
          BY <1>2, <2>1, <2>5, PushFrame
    <3>2. frames[t] # <<>> =>
            /\ Top(t) = frames[t][Len(frames[t])] /\ Len(frames[t]) \in 1 .. Len(frames[t])
            /\ Top(t).clinit /\ Top(t).state = 5
      <4>1. frames[t] # <<>> =>
              Top(t) = frames[t][Len(frames[t])] /\ Len(frames[t]) \in 1 .. Len(frames[t])
            BY <1>2, FrameFacts
      <4> QED
            BY <1>2, <1>3, <4>1 DEF InJava, FramesOK
    <3>3. frames[t] # <<>> => Lower(t) = Top(t)
          BY <3>1, <3>2 DEF Pushes, Lower
    <3>4. frames[t] # <<>> => Marked(t, Len(frames[t])) /\ HasRun(t, Len(frames[t]))
          BY <3>2 DEF Marked, HasRun
    <3>5. /\ KeepsOthers(t)
          /\ Len(frames'[t]) = Len(frames[t]) + 1 /\ frames'[t][Len(frames[t]) + 1] = NewFrame(c)
          /\ \A i \in 1 .. Len(frames[t]) - 1 : frames'[t][i] = frames[t][i]
      <4>1. Len(frames[t]) \in Nat
            BY <1>2, FrameFacts
      <4>2. \A i \in 1 .. Len(frames[t]) - 1 : i \in 1 .. Len(frames[t])
            BY <4>1
      <4> QED
            BY <3>1, <4>2 DEF Pushes
    <3>6. Raises(t, c)
          BY <3>2, <3>3, <3>4, <3>5 DEF Raises
    <3>7. NobodyWaits /\ MonTypes' /\ ~ Waits(t)' /\ ~ pendingException'[t]
          BY <1>2, <1>3, <1>4, MonitorSame DEF NobodyWaits
    <3>8. QuietVM(t)
          BY <1>1, <1>3, <1>4, <2>3, <3>7 DEF QuietVM, NobodyWaits
    <3>9. ClassTypes'
          BY <1>2, <1>4, <1>5, <2>2, <2>3, <3>5 DEF ClassTypes, Advances, KeepsOthers
    <3> QED
          BY <2>2, <2>3, <3>6, <3>7, <3>8, <3>9, PushStep
  <2> QED
        BY <2>2, <2>4, <2>5
<1> QED
      BY <1>1, <1>6, <1>7

-----------------------------------------------------------------------------
(* The loader                                                              *)

LoaderTypes ==
  status \in [Classes -> Statuses] /\ superClass \in [Classes -> Classes \cup {NIL}]

LoaderKeeps ==
  /\ LoaderTypes' /\ LoadsInv'
  /\ \A c \in Classes : status'[c] = status[c] \/ (IsEarly(c) /\ status'[c] # "READY")

(* A call below the innermost one, or the innermost, that goes on.         *)
CallOK(k) ==
  /\ k > 1 => loads[k].phase = "link"
  /\ \E S \in SUBSET Classes : Chain(S, k) /\ (IsIn("load") /\ k = 1 => current.clazz \in S)

LEMMA LoadsInvCalls ==
  LoadsInv <=> /\ loads \in Seq(Calls)
               /\ \A k \in 1 .. Len(loads) : IsEarly(loads[k].initiating)
               /\ IsIn("load") => status[current.clazz] = "RAW"
               /\ IsIn("load") \/ IsIn("link") => \A k \in 1 .. Len(loads) : CallOK(k)
BY DEF LoadsInv, CallOK

LEMMA CallFacts ==
  ASSUME LoadsInv, loads # <<>>
  PROVE  /\ loads \in Seq(Calls) /\ Len(loads) \in Nat /\ 1 \in 1 .. Len(loads)
         /\ current = loads[1] /\ current \in Calls
         /\ \A k \in 1 .. Len(loads) : loads[k] \in Calls /\ loads[k].initiating \in Classes
         /\ \A phase : IsIn(phase) <=> current.phase = phase
<1>1. loads \in Seq(Calls) /\ Len(loads) \in Nat /\ Len(loads) # 0
      BY EmptySeq DEF LoadsInv
<1>2. \A k \in 1 .. Len(loads) : loads[k] \in Calls
      BY <1>1
<1> QED
      BY <1>1, <1>2 DEF current, IsIn, Calls

(* A change of the innermost call.                                         *)
LEMMA InnermostCall ==
  ASSUME LoadsInv, loads # <<>>, NEW r \in Calls, loads' = [loads EXCEPT ![1] = r],
         r.initiating = current.initiating
  PROVE  /\ loads' \in Seq(Calls) /\ Len(loads') = Len(loads) /\ loads' # <<>>
         /\ current' = r /\ loads'[1] = r
         /\ \A k \in 1 .. Len(loads) : loads'[k].initiating = loads[k].initiating
         /\ \A k \in 1 .. Len(loads) : k # 1 => loads'[k] = loads[k]
         /\ \A phase : IsIn(phase)' <=> r.phase = phase
<1>1. /\ loads \in Seq(Calls) /\ Len(loads) \in Nat /\ 1 \in 1 .. Len(loads)
      /\ current = loads[1]
      BY CallFacts
<1>2. loads' \in Seq(Calls) /\ Len(loads') = Len(loads)
      BY <1>1
<1>3. loads'[1] = r /\ \A k \in 1 .. Len(loads) : k # 1 => loads'[k] = loads[k]
      BY <1>1
<1>4. loads' # <<>>
      BY <1>1, <1>2, EmptySeq
<1> QED
      BY <1>1, <1>2, <1>3, <1>4 DEF current, IsIn

(* The class to link is one of the chain: it was never initialized.        *)
LEMMA LinkedIsEarly ==
  ASSUME LoadsInv, LoaderTypes, IsLinking
  PROVE  linked \in Classes /\ IsUnlinked(linked) /\ IsEarly(linked) /\ IsIn("link") /\ loads # <<>>
<1>1. IsIn("link") /\ linked # NIL /\ loads # <<>>
      BY DEF IsLinking, IsIn
<1>2. PICK c : c = current.initiating
      OBVIOUS
<1>3. 1 \in 1 .. Len(loads) /\ c = loads[1].initiating /\ ~ IsIn("load")
      BY <1>1, <1>2, CallFacts
<1>4. PICK S \in SUBSET Classes : Chain(S, 1)
      BY <1>1, <1>3 DEF LoadsInv
<1>5. PICK d : d \in UnlinkedChain(c) /\ IsUnlinked(d) /\ d = linked
  <2> DEFINE highest == {d \in UnlinkedChain(c) :
                           /\ IsUnlinked(d)
                           /\ IF superClass[d] = NIL THEN TRUE ELSE ~IsUnlinked(superClass[d])}
  <2>1. linked = IF highest = {} THEN NIL ELSE CHOOSE d \in highest : TRUE
        BY <1>2 DEF linked, SuperMostUnlinked
  <2>2. linked \in highest
        BY <1>1, <2>1
  <2> QED
        BY <2>2
<1>6. d \in Classes
      BY <1>5 DEF UnlinkedChain
<1> DEFINE W == S \cup {e \in Classes : ~ IsUnlinked(e)}
<1>7. c \in W
      BY <1>3, <1>4 DEF Chain
<1>8. ASSUME NEW e \in W, IsUnlinked(e) PROVE superClass[e] \in W \cup {NIL}
  <2>1. e \in S /\ e \in Classes /\ status[e] \notin {"RAW", "LINKED"}
        BY <1>3, <1>4, <1>8 DEF Chain, IsUnlinked
  <2>2. superClass[e] # NIL => superClass[e] \in S \/ ~ IsUnlinked(superClass[e])
        BY <1>4, <2>1 DEF Chain
  <2> QED
        BY <2>1, <2>2 DEF LoaderTypes
<1>9. W \in SUBSET Classes
      OBVIOUS
<1>10. d \in W
      BY <1>5, <1>7, <1>8, <1>9, Zenon DEF UnlinkedChain
<1>11. d \in S
      BY <1>5, <1>10
<1>12. IsEarly(d)
      BY <1>4, <1>11 DEF Chain
<1> QED
      BY <1>1, <1>5, <1>6, <1>12

(* The innermost call gives up, or is done.                                *)
StaysEarly == \A c \in Classes : IsEarly(c) => IsEarly(c)'

LEMMA EndsCall ==
  ASSUME LoadsInv, loads # <<>>, StaysEarly, NEW r \in Calls, loads' = [loads EXCEPT ![1] = r],
         r.initiating = current.initiating, r.phase \notin {"load", "link"}
  PROVE  LoadsInv'
<1>1. /\ loads' \in Seq(Calls) /\ Len(loads') = Len(loads)
      /\ \A k \in 1 .. Len(loads) : loads'[k].initiating = loads[k].initiating
      /\ ~ IsIn("load")' /\ ~ IsIn("link")'
      BY InnermostCall
<1>2. \A k \in 1 .. Len(loads) : IsEarly(loads[k].initiating) /\ loads[k].initiating \in Classes
      BY CallFacts DEF LoadsInv
<1>3. \A k \in 1 .. Len(loads') : IsEarly(loads[k].initiating)'
  <2> SUFFICES ASSUME NEW k \in 1 .. Len(loads') PROVE IsEarly(loads[k].initiating)'
      OBVIOUS
  <2>1. PICK c \in Classes : c = loads[k].initiating /\ c = loads'[k].initiating /\ IsEarly(c)
        BY <1>1, <1>2
  <2>2. IsEarly(c)'
        BY <2>1 DEF StaysEarly
  <2> QED
        BY <2>1, <2>2 DEF IsEarly
<1> QED
      BY <1>1, <1>3 DEF LoadsInv

(* No class of a chain is raw but the one that is to be loaded.            *)
LEMMA ChainNotRaw ==
  ASSUME NEW S, NEW k, Chain(S, k), ~ IsIn("load") \/ k # 1
  PROVE  \A c \in S : status[c] # "RAW"
BY DEF Chain

(* The chain S of call k, and what is added to it, serve for call j of the *)
(* next state.                                                             *)
SuperInChain(e, S) ==
  superClass[e] # NIL => superClass[e] \in S \/ ~ IsUnlinked(superClass[e])

LEMMA ChainKept ==
  ASSUME LoaderTypes, NEW S \in SUBSET Classes, NEW S2 \in SUBSET Classes, S \subseteq S2,
         NEW k, NEW j, Chain(S, k), loads'[j].initiating = loads[k].initiating,
         StaysEarly, \A x \in Classes : IsUnlinked(x)' => IsUnlinked(x),
         \A e \in S :
           /\ status'[e] # "RAW"
           /\ \/ /\ superClass'[e] = superClass[e] /\ status[e] # "RAW"
                 /\ status[e] = "LINKED" => status'[e] = "LINKED"
              \/ SuperInChain(e, S2)',
         \A e \in S2 : e \notin S =>
           status'[e] = "RAW" /\ j = 1 /\ IsIn("load")' /\ e = current'.clazz
  PROVE  Chain(S2, j)'
<1>1. loads'[j].initiating \in S2
      BY DEF Chain
<1>2. ASSUME NEW e \in S2
      PROVE  /\ IsEarly(e)'
             /\ status'[e] = "RAW" => j = 1 /\ IsIn("load")' /\ e = current'.clazz
             /\ status'[e] \notin {"RAW", "LINKED"} => SuperInChain(e, S2)'
  <2>1. CASE e \notin S
        BY <2>1 DEF IsEarly
  <2>2. CASE e \in S
    <3>1. IsEarly(e)' /\ status'[e] # "RAW" /\ e \in Classes
          BY <2>2 DEF Chain, StaysEarly
    <3>2. ASSUME superClass'[e] = superClass[e], status[e] # "RAW",
                 status'[e] # "LINKED", status[e] # "LINKED"
          PROVE  SuperInChain(e, S2)'
      <4>1. PICK d : d = superClass[e]
            OBVIOUS
      <4>2. d \in Classes \cup {NIL}
            BY <3>1, <4>1 DEF LoaderTypes
      <4>3. d # NIL => d \in S \/ ~ IsUnlinked(d)
            BY <2>2, <3>2, <4>1 DEF Chain
      <4>4. d # NIL => d \in S2 \/ ~ IsUnlinked(d)'
            BY <4>2, <4>3
      <4> QED
            BY <3>2, <4>1, <4>4 DEF SuperInChain, IsUnlinked
    <3> QED
          BY <2>2, <3>1, <3>2
  <2> QED
        BY <2>1, <2>2
<1> QED
      BY <1>1, <1>2 DEF Chain, SuperInChain

LEMMA ChainSame ==
  ASSUME LoaderTypes, UNCHANGED <<status, superClass>>, NEW S \in SUBSET Classes,
         NEW k, NEW j, Chain(S, k), ~ IsIn("load") \/ k # 1,
         loads'[j].initiating = loads[k].initiating
  PROVE  Chain(S, j)'
<1>1. status' = status /\ superClass' = superClass
      OBVIOUS
<1>2. \A e \in S : status'[e] # "RAW" /\ status[e] # "RAW"
      BY <1>1, ChainNotRaw
<1>3. StaysEarly /\ \A x \in Classes : IsUnlinked(x)' => IsUnlinked(x)
      BY <1>1 DEF StaysEarly, IsEarly, IsUnlinked
<1> QED
      BY <1>1, <1>2, <1>3, ChainKept

LEMMA LoaderSame ==
  UNCHANGED <<status, superClass>> /\ LoaderTypes =>
    /\ LoaderTypes' /\ StaysEarly /\ (\A c \in Classes : IsUnlinked(c)' => IsUnlinked(c))
    /\ \A c \in Classes : status'[c] = status[c]
BY DEF LoaderTypes, StaysEarly, IsEarly, IsUnlinked

(* Goto.                                                                   *)
LEMMA GotoCall ==
  ASSUME LoadsInv, loads # <<>>, NEW phase \in Phases, Goto(phase)
  PROVE  \E r \in Calls : /\ loads' = [loads EXCEPT ![1] = r] /\ r.phase = phase
                          /\ r.initiating = current.initiating /\ r.clazz = current.clazz
<1>1. PICK r : r = [current EXCEPT !.phase = phase]
      OBVIOUS
<1>2. current \in Calls /\ current = loads[1] /\ loads \in Seq(Calls) /\ 1 \in 1 .. Len(loads)
      BY CallFacts
<1>3. r \in Calls /\ r.phase = phase /\ r.initiating = current.initiating /\ r.clazz = current.clazz
      BY <1>1, <1>2 DEF Calls
<1>4. loads' = [loads EXCEPT ![1] = r]
      BY <1>1, <1>2 DEF Goto
<1> QED
      BY <1>3, <1>4

LEMMA LinkFailsStep == ASSUME LoadsInv, LoaderTypes, LinkFails PROVE LoaderKeeps
<1>1. IsLinking /\ Goto("throw") /\ UNCHANGED <<status, superClass>> /\ loads # <<>>
      BY LinkedIsEarly, Zenon DEF LinkFails
<1>2. "throw" \in Phases
      BY DEF Phases
<1>3. PICK r \in Calls : /\ loads' = [loads EXCEPT ![1] = r] /\ r.phase = "throw"
                         /\ r.initiating = current.initiating
      BY <1>1, <1>2, GotoCall
<1>4. LoaderTypes' /\ StaysEarly /\ \A c \in Classes : status'[c] = status[c]
      BY <1>1, LoaderSame
<1>5. LoadsInv'
      BY <1>1, <1>3, <1>4, EndsCall
<1> QED
      BY <1>4, <1>5 DEF LoaderKeeps

LEMMA LinkClassStep == ASSUME LoadsInv, LoaderTypes, LinkClass PROVE LoaderKeeps
<1>1. /\ IsLinking /\ status' = [status EXCEPT ![linked] = "LINKED"]
      /\ loads' = [loads EXCEPT ![1].iface = 1] /\ UNCHANGED superClass
      BY Zenon DEF LinkClass
<1>2. PICK d \in Classes : d = linked /\ IsEarly(d) /\ IsUnlinked(d)
      BY <1>1, LinkedIsEarly
<1>3. IsIn("link") /\ loads # <<>> /\ ~ IsIn("load")
      BY <1>1, LinkedIsEarly, CallFacts
<1>4. PICK r : r = [current EXCEPT !.iface = 1]
      OBVIOUS
<1>5. /\ r \in Calls /\ r.initiating = current.initiating /\ r.phase = "link"
      /\ loads' = [loads EXCEPT ![1] = r]
  <2>1. current \in Calls /\ current = loads[1] /\ current.phase = "link"
        BY <1>3, CallFacts
  <2>2. r \in Calls /\ r.initiating = current.initiating /\ r.phase = "link"
        BY <1>4, <2>1 DEF Calls
  <2> QED
        BY <1>1, <1>4, <2>1, <2>2
<1>6. /\ loads' \in Seq(Calls) /\ Len(loads') = Len(loads) /\ loads'[1] = r
      /\ \A k \in 1 .. Len(loads) : loads'[k].initiating = loads[k].initiating
      /\ \A k \in 1 .. Len(loads) : k # 1 => loads'[k] = loads[k]
      /\ ~ IsIn("load")' /\ Len(loads) \in Nat
      BY <1>3, <1>5, InnermostCall, CallFacts
<1>7. /\ status'[d] = "LINKED" /\ \A e \in Classes : e # d => status'[e] = status[e]
      /\ superClass' = superClass /\ LoaderTypes'
  <2>1. "LINKED" \in Statuses
        BY DEF Statuses
  <2> QED
        BY <1>1, <1>2, <2>1 DEF LoaderTypes
<1>8. StaysEarly /\ \A c \in Classes : IsUnlinked(c)' => IsUnlinked(c)
      BY <1>7 DEF StaysEarly, IsEarly, IsUnlinked
<1>9. ASSUME NEW k \in 1 .. Len(loads)
      PROVE  /\ IsEarly(loads[k].initiating)'
             /\ k > 1 => loads'[k].phase = "link"
             /\ \E S \in SUBSET Classes : Chain(S, k)'
  <2>1. (k > 1 => loads[k].phase = "link") /\ IsEarly(loads[k].initiating)
        BY <1>3, <1>6 DEF LoadsInv
  <2>2. PICK S \in SUBSET Classes : Chain(S, k)
        BY <1>3, <1>6 DEF LoadsInv
  <2>3. \A e \in S : status[e] # "RAW" /\ e \in Classes
        BY <1>3, <2>2, ChainNotRaw
  <2>4. \A e \in S : /\ status'[e] # "RAW" /\ superClass'[e] = superClass[e] /\ status[e] # "RAW"
                     /\ status[e] = "LINKED" => status'[e] = "LINKED"
        BY <1>7, <2>3
  <2>5. Chain(S, k)'
        BY <1>6, <1>8, <2>2, <2>4, ChainKept
  <2>6. PICK c \in Classes : c = loads[k].initiating /\ c = loads'[k].initiating
        BY <1>3, <1>6, CallFacts
  <2>7. IsEarly(loads[k].initiating)'
        BY <1>8, <2>1, <2>6 DEF StaysEarly, IsEarly
  <2> QED
        BY <1>6, <2>1, <2>5, <2>7
<1>10. LoadsInv'
      BY <1>6, <1>9 DEF LoadsInv
<1>11. \A c \in Classes : status'[c] = status[c] \/ (IsEarly(c) /\ status'[c] # "READY")
      BY <1>2, <1>7
<1> QED
      BY <1>7, <1>10, <1>11 DEF LoaderKeeps

(* loadClassfile returns to a call of itself, or throws into it.           *)
LEMMA TailCalls ==
  ASSUME LoadsInv, loads # <<>>
  PROVE  /\ Tail(loads) \in Seq(Calls) /\ Len(Tail(loads)) = Len(loads) - 1
         /\ \A k \in 1 .. Len(loads) - 1 : Tail(loads)[k] = loads[k + 1] /\ k + 1 \in 1 .. Len(loads)
BY CallFacts

LEMMA LoadedStep == ASSUME LoadsInv, LoaderTypes, Loaded PROVE LoaderKeeps
<1>1. /\ IsIn("link") /\ UNCHANGED <<status, superClass>>
      /\ IF Len(loads) > 1 THEN loads' = Tail(loads) ELSE Goto("done")
      BY Zenon DEF Loaded
<1>2. loads # <<>> /\ ~ IsIn("load") /\ Len(loads) \in Nat
      BY <1>1, CallFacts DEF IsIn
<1>3. LoaderTypes' /\ StaysEarly /\ \A c \in Classes : status'[c] = status[c]
      BY <1>1, LoaderSame
<1>4. CASE Goto("done")
  <2>1. "done" \in Phases
        BY DEF Phases
  <2>2. PICK r \in Calls : /\ loads' = [loads EXCEPT ![1] = r] /\ r.phase = "done"
                           /\ r.initiating = current.initiating
        BY <1>2, <1>4, <2>1, GotoCall
  <2>3. LoadsInv'
        BY <1>2, <1>3, <2>2, EndsCall
  <2> QED
        BY <1>3, <2>3 DEF LoaderKeeps
<1>5. CASE Len(loads) > 1 /\ loads' = Tail(loads)
  <2>1. /\ loads' \in Seq(Calls) /\ Len(loads') = Len(loads) - 1
        /\ \A k \in 1 .. Len(loads') : loads'[k] = loads[k + 1] /\ k + 1 \in 1 .. Len(loads)
        BY <1>2, <1>5, TailCalls
  <2>2. 1 \in 1 .. Len(loads') /\ 1 + 1 = 2 /\ 2 > 1
        BY <1>2, <1>5, <2>1
  <2>3. ASSUME NEW k \in 1 .. Len(loads')
        PROVE  /\ IsEarly(loads[k].initiating)' /\ loads'[k].phase = "link"
               /\ \E S \in SUBSET Classes : Chain(S, k)'
    <3>1. k + 1 \in 1 .. Len(loads) /\ k + 1 > 1 /\ k + 1 # 1 /\ loads'[k] = loads[k + 1]
          BY <1>2, <2>1
    <3>2. PICK S \in SUBSET Classes : Chain(S, k + 1)
          BY <1>1, <3>1 DEF LoadsInv
    <3>3. Chain(S, k)'
          BY <1>1, <3>1, <3>2, ChainSame
    <3>4. PICK c \in Classes : c = loads[k + 1].initiating /\ c = loads'[k].initiating /\ IsEarly(c)
          BY <1>2, <3>1, CallFacts DEF LoadsInv
    <3>5. IsEarly(loads[k].initiating)'
          BY <1>3, <3>4 DEF StaysEarly, IsEarly
    <3>6. loads'[k].phase = "link"
          BY <1>1, <3>1 DEF LoadsInv
    <3> QED
          BY <3>3, <3>5, <3>6
  <2>4. ~ IsIn("load")'
        BY <2>2, <2>3 DEF IsIn, current
  <2>5. LoadsInv'
        BY <2>1, <2>3, <2>4 DEF LoadsInv
  <2> QED
        BY <1>3, <2>5 DEF LoaderKeeps
<1> QED
      BY <1>1, <1>4, <1>5

LEMMA CatchStep == ASSUME LoadsInv, LoaderTypes, Catch PROVE LoaderKeeps
<1>1. PICK d : d = current.initiating
      OBVIOUS
<1>2. /\ IsIn("throw")
      /\ status' = [c \in Classes |-> IF c \in {d} THEN "RAW" ELSE status[c]]
      /\ superClass' = [c \in Classes |-> IF c \in {d} THEN NIL ELSE superClass[c]]
      /\ loads' = IF Len(loads) = 1 THEN <<>>
                  ELSE [Tail(loads) EXCEPT ![1].phase = "throw"]
      BY <1>1, Zenon DEF Catch, Reverted
<1>3. loads # <<>> /\ Len(loads) \in Nat /\ 1 \in 1 .. Len(loads) /\ loads \in Seq(Calls)
      BY <1>2, CallFacts DEF IsIn
<1>4. d \in Classes /\ IsEarly(d) /\ "RAW" \in Statuses
      BY <1>1, <1>3, CallFacts DEF LoadsInv, Statuses
<1>5. LoaderTypes' /\ StaysEarly
      BY <1>2, <1>4 DEF LoaderTypes, StaysEarly, IsEarly
<1>6. \A c \in Classes : status'[c] = status[c] \/ (IsEarly(c) /\ status'[c] # "READY")
      BY <1>2, <1>4
<1>7. CASE Len(loads) = 1
  <2>1. LoadsInv'
        BY <1>2, <1>7, AtRest
  <2> QED
        BY <1>5, <1>6, <2>1 DEF LoaderKeeps
<1>8. CASE Len(loads) # 1
  <2>1. PICK q : q = Tail(loads)
        OBVIOUS
  <2>2. /\ q \in Seq(Calls) /\ Len(q) = Len(loads) - 1 /\ 1 \in 1 .. Len(q)
        /\ \A k \in 1 .. Len(q) : q[k] = loads[k + 1] /\ k + 1 \in 1 .. Len(loads)
        BY <1>3, <1>8, <2>1, TailCalls
  <2>3. PICK r : r = [q[1] EXCEPT !.phase = "throw"]
        OBVIOUS
  <2>4. r \in Calls /\ r.phase = "throw" /\ r.initiating = q[1].initiating
    <3>1. PICK g \in Calls : g = q[1]
          BY <2>2
    <3>2. r = [g EXCEPT !.phase = "throw"] /\ "throw" \in Phases
          BY <2>3, <3>1 DEF Phases
    <3> QED
          BY <3>1, <3>2 DEF Calls
  <2>5. loads' = [q EXCEPT ![1] = r]
        BY <1>2, <1>8, <2>1, <2>3
  <2>6. /\ loads' \in Seq(Calls) /\ Len(loads') = Len(q) /\ loads'[1] = r
        /\ \A k \in 1 .. Len(q) : loads'[k].initiating = loads[k + 1].initiating
        BY <2>2, <2>4, <2>5
  <2>7. ~ IsIn("load")' /\ ~ IsIn("link")'
        BY <2>4, <2>6 DEF IsIn, current
  <2>8. ASSUME NEW k \in 1 .. Len(loads') PROVE IsEarly(loads[k].initiating)'
    <3>1. PICK c \in Classes : c = loads[k + 1].initiating /\ c = loads'[k].initiating /\ IsEarly(c)
          BY <1>3, <2>2, <2>6, CallFacts DEF LoadsInv
    <3> QED
          BY <1>5, <3>1 DEF StaysEarly, IsEarly
  <2>9. LoadsInv'
        BY <2>6, <2>7, <2>8 DEF LoadsInv
  <2> QED
        BY <1>5, <1>6, <2>9 DEF LoaderKeeps
<1> QED
      BY <1>7, <1>8

LEMMA VerdictIsPhase == \A s : Verdict(s) \in Phases \ {"done"}
BY DEF Verdict, Phases

LEMMA LinkInterfaceStep == ASSUME LoadsInv, LoaderTypes, LinkInterface PROVE LoaderKeeps
<1>1. PICK i, v : i = Interfaces[linked][current.iface] /\ v = Verdict(status[i])
      OBVIOUS
<1>2. /\ IsLinking /\ current.iface <= Len(Interfaces[linked]) /\ UNCHANGED <<status, superClass>>
      /\ loads' = CASE v = "load" -> <<Call(i)>> \o loads
                    [] v = "link" -> [loads EXCEPT ![1].iface = @ + 1]
                    [] OTHER -> [loads EXCEPT ![1].phase = v]
      BY <1>1, Zenon DEF LinkInterface
<1>3. PICK d \in Classes : d = linked
      BY <1>2, LinkedIsEarly
<1>4. /\ IsIn("link") /\ ~ IsIn("load") /\ loads # <<>> /\ loads \in Seq(Calls)
      /\ Len(loads) \in Nat /\ 1 \in 1 .. Len(loads) /\ current = loads[1] /\ current \in Calls
      /\ current.phase = "link"
      BY <1>2, LinkedIsEarly, CallFacts
<1>5. i \in Classes
  <2>1. Interfaces[d] \in Seq(Classes) /\ current.iface \in Nat \ {0}
        BY <1>4, ConstantFacts DEF Calls
  <2> QED
        BY <1>1, <1>2, <1>3, <2>1
<1>6. LoaderTypes' /\ StaysEarly /\ \A c \in Classes : status'[c] = status[c]
      BY <1>2, LoaderSame
<1>7. ASSUME NEW k \in 1 .. Len(loads)
      PROVE  /\ loads[k].phase = "link" /\ loads[k] \in Calls /\ loads[k].initiating \in Classes
             /\ IsEarly(loads[k].initiating) /\ \E S \in SUBSET Classes : Chain(S, k)
  <2>1. k > 1 => loads[k].phase = "link"
        BY <1>4 DEF LoadsInv
  <2>2. loads[k].phase = "link"
        BY <1>4, <2>1
  <2> QED
        BY <1>4, <2>2, CallFacts DEF LoadsInv
<1>8. CASE v \notin {"load", "link"}
  <2>1. Goto(v) /\ v \in Phases
        BY <1>1, <1>2, <1>8, VerdictIsPhase DEF Goto
  <2>2. PICK r \in Calls : /\ loads' = [loads EXCEPT ![1] = r] /\ r.phase = v
                           /\ r.initiating = current.initiating
        BY <1>4, <2>1, GotoCall
  <2>3. LoadsInv'
        BY <1>4, <1>6, <1>8, <2>2, EndsCall
  <2> QED
        BY <1>6, <2>3 DEF LoaderKeeps
<1>9. CASE v = "link"
  <2>1. PICK r : r = [current EXCEPT !.iface = @ + 1]
        OBVIOUS
  <2>2. r \in Calls /\ r.initiating = current.initiating /\ r.phase = "link"
        BY <1>4, <2>1 DEF Calls
  <2>3. loads' = [loads EXCEPT ![1] = r]
        BY <1>2, <1>4, <1>9, <2>1
  <2>4. /\ loads' \in Seq(Calls) /\ Len(loads') = Len(loads) /\ loads'[1] = r
        /\ \A k \in 1 .. Len(loads) : loads'[k].initiating = loads[k].initiating
        /\ \A k \in 1 .. Len(loads) : k # 1 => loads'[k] = loads[k]
        /\ ~ IsIn("load")'
        BY <1>4, <2>2, <2>3, InnermostCall
  <2>5. ASSUME NEW k \in 1 .. Len(loads)
        PROVE  /\ IsEarly(loads[k].initiating)' /\ (k > 1 => loads'[k].phase = "link")
               /\ \E S \in SUBSET Classes : Chain(S, k)'
    <3>1. PICK S \in SUBSET Classes : Chain(S, k)
          BY <1>7
    <3>2. Chain(S, k)'
          BY <1>2, <1>4, <2>4, <3>1, ChainSame
    <3>3. PICK c \in Classes : c = loads[k].initiating /\ c = loads'[k].initiating /\ IsEarly(c)
          BY <1>7, <2>4
    <3>4. IsEarly(loads[k].initiating)'
          BY <1>6, <3>3 DEF StaysEarly, IsEarly
    <3> QED
          BY <1>7, <2>4, <3>2, <3>4
  <2>6. LoadsInv'
        BY <2>4, <2>5 DEF LoadsInv
  <2> QED
        BY <1>6, <2>6 DEF LoaderKeeps
<1>10. CASE v = "load"
  <2>1. status[i] = "RAW"
        BY <1>1, <1>10 DEF Verdict
  <2>2. PICK r : r = Call(i)
        OBVIOUS
  <2>3. r \in Calls /\ r.initiating = i /\ r.clazz = i /\ r.phase = "load"
        BY <1>5, <2>2 DEF Call, Calls, Phases
  <2>4. loads' = <<r>> \o loads
        BY <1>2, <1>10, <2>2
  <2>5. /\ loads' \in Seq(Calls) /\ Len(loads') = Len(loads) + 1 /\ loads'[1] = r
        /\ \A k \in 2 .. Len(loads) + 1 : loads'[k] = loads[k - 1] /\ k - 1 \in 1 .. Len(loads)
    <3>1. <<r>> \in Seq(Calls) /\ Len(<<r>>) = 1 /\ <<r>>[1] = r
          BY <2>3
    <3> QED
          BY <1>4, <2>4, <3>1
  <2>6. IsIn("load")' /\ current' = r
        BY <1>4, <2>3, <2>5, EmptySeq DEF IsIn, current
  <2>7. status'[i] = "RAW" /\ IsEarly(i)'
        BY <1>5, <1>6, <2>1 DEF IsEarly
  <2>8. ASSUME NEW k \in 1 .. Len(loads) + 1
        PROVE  /\ IsEarly(loads[k].initiating)' /\ (k > 1 => loads'[k].phase = "link")
               /\ \E S \in SUBSET Classes : Chain(S, k)' /\ (k = 1 => i \in S)
    <3>1. CASE k = 1
      <4>1. Chain({i}, 1)'
            BY <2>3, <2>5, <2>6, <2>7 DEF Chain
      <4>2. {i} \in SUBSET Classes /\ i \in {i}
            BY <1>5
      <4>3. IsEarly(loads[k].initiating)'
            BY <2>3, <2>5, <2>7, <3>1 DEF IsEarly
      <4>4. \E S \in SUBSET Classes : Chain(S, k)' /\ (k = 1 => i \in S)
            BY <3>1, <4>1, <4>2
      <4> QED
            BY <3>1, <4>3, <4>4
    <3>2. CASE k # 1
      <4>1. loads'[k] = loads[k - 1] /\ k - 1 \in 1 .. Len(loads)
            BY <1>4, <2>5, <3>2
      <4>2. PICK j \in 1 .. Len(loads) : j = k - 1 /\ loads'[k] = loads[j]
            BY <4>1
      <4>3. PICK S \in SUBSET Classes : Chain(S, j)
            BY <1>7
      <4>4. Chain(S, k)'
            BY <1>2, <1>4, <4>2, <4>3, ChainSame
      <4>5. PICK c \in Classes : c = loads[j].initiating /\ c = loads'[k].initiating /\ IsEarly(c)
            BY <1>7, <4>2
      <4>6. IsEarly(loads[k].initiating)'
            BY <1>6, <4>5 DEF StaysEarly, IsEarly
      <4> QED
            BY <1>7, <3>2, <4>2, <4>4, <4>6
    <3> QED
          BY <3>1, <3>2
  <2>9. LoadsInv'
        BY <1>4, <2>3, <2>5, <2>6, <2>7, <2>8 DEF LoadsInv
  <2> QED
        BY <1>6, <2>9 DEF LoaderKeeps
<1> QED
      BY <1>8, <1>9, <1>10

(* The class is loaded, and the call goes on with the superclass, or goes  *)
(* on to link.                                                             *)
LEMMA ClassLoaded ==
  ASSUME LoadsInv, LoaderTypes, IsIn("load"), NEW c \in Classes, c = current.clazz,
         status' = [status EXCEPT ![c] = "LOADED"],
         superClass' = [superClass EXCEPT ![c] = Super[c]],
         NEW r \in Calls, loads' = [loads EXCEPT ![1] = r], r.initiating = current.initiating,
         Super[c] = NIL => r.phase = "link",
         Super[c] # NIL => r.clazz = Super[c] /\ r.phase = Verdict(status'[Super[c]])
  PROVE  LoaderKeeps
<1> DEFINE s == Super[c]
<1>1. /\ loads # <<>> /\ status[c] = "RAW" /\ ~ IsIn("link") /\ Len(loads) \in Nat
      /\ 1 \in 1 .. Len(loads)
      BY CallFacts DEF LoadsInv, IsIn
<1>2. s \in Classes \cup {NIL} /\ NIL \notin Classes
      BY ConstantFacts
<1>3. /\ status'[c] = "LOADED" /\ superClass'[c] = s /\ LoaderTypes'
      /\ \A e \in Classes : e # c => status'[e] = status[e] /\ superClass'[e] = superClass[e]
      BY <1>2 DEF LoaderTypes, Statuses
<1>4. /\ StaysEarly /\ \A x \in Classes : IsUnlinked(x)' => IsUnlinked(x)
      /\ \A x \in Classes : status'[x] = status[x] \/ (IsEarly(x) /\ status'[x] # "READY")
      BY <1>1, <1>3 DEF StaysEarly, IsEarly, IsUnlinked
<1>5. /\ loads' \in Seq(Calls) /\ Len(loads') = Len(loads) /\ loads'[1] = r /\ current' = r
      /\ \A k \in 1 .. Len(loads) : loads'[k].initiating = loads[k].initiating
      /\ \A k \in 1 .. Len(loads) : k # 1 => loads'[k] = loads[k]
      /\ \A phase : IsIn(phase)' <=> r.phase = phase
      BY <1>1, InnermostCall
<1>6. CASE r.phase \notin {"load", "link"}
  <2>1. LoadsInv'
        BY <1>1, <1>4, <1>6, EndsCall
  <2> QED
        BY <1>3, <1>4, <2>1 DEF LoaderKeeps
<1>7. CASE r.phase \in {"load", "link"}
  <2>1. s # NIL /\ r.phase = "link" => ~ IsUnlinked(s)'
        BY DEF Verdict, IsUnlinked
  <2>2. r.phase = "load" => s # NIL /\ r.clazz = s /\ status'[s] = "RAW"
        BY DEF Verdict
  <2>3. ASSUME NEW k \in 1 .. Len(loads)
        PROVE  /\ IsEarly(loads[k].initiating)' /\ (k > 1 => loads'[k].phase = "link")
               /\ \E S \in SUBSET Classes : Chain(S, k)' /\ (r.phase = "load" /\ k = 1 => r.clazz \in S)
    <3>1. PICK S \in SUBSET Classes : Chain(S, k) /\ (k = 1 => c \in S)
          BY <1>1 DEF LoadsInv
    <3>2. \A e \in S : status[e] = "RAW" => k = 1 /\ e = c
          BY <3>1 DEF Chain
    <3>3. PICK x \in Classes : x = loads[k].initiating /\ x = loads'[k].initiating /\ IsEarly(x)
          BY <1>1, <1>5, CallFacts DEF LoadsInv
    <3>4. IsEarly(loads[k].initiating)'
          BY <1>4, <3>3 DEF StaysEarly, IsEarly
    <3>5. k > 1 => loads'[k].phase = "link"
          BY <1>5 DEF LoadsInv
    <3>6. CASE r.phase = "link" \/ k # 1
      <4>1. ASSUME NEW e \in S
            PROVE  /\ status'[e] # "RAW"
                   /\ \/ /\ superClass'[e] = superClass[e] /\ status[e] # "RAW"
                         /\ status[e] = "LINKED" => status'[e] = "LINKED"
                      \/ SuperInChain(e, S)'
        <5>1. CASE e = c
          <6>1. r.phase = "link"
                BY <1>1, <3>2, <3>6, <5>1
          <6> QED
                BY <1>3, <2>1, <5>1, <6>1 DEF SuperInChain, IsUnlinked
        <5>2. CASE e # c
              BY <1>3, <3>2, <5>2
        <5> QED
              BY <5>1, <5>2
      <4>2. Chain(S, k)'
            BY <1>4, <1>5, <3>1, <4>1, ChainKept
      <4>3. ~ (r.phase = "load" /\ k = 1)
            BY <3>6
      <4> QED
            BY <3>4, <3>5, <4>2, <4>3
    <3>7. CASE r.phase = "load" /\ k = 1
      <4>1. s \in Classes /\ status'[s] = "RAW" /\ r.clazz = s
            BY <1>2, <2>2, <3>7
      <4>2. PICK S2 \in SUBSET Classes : S2 = S \cup {s}
            BY <4>1
      <4>3. ASSUME NEW e \in S
            PROVE  /\ status'[e] # "RAW"
                   /\ \/ /\ superClass'[e] = superClass[e] /\ status[e] # "RAW"
                         /\ status[e] = "LINKED" => status'[e] = "LINKED"
                      \/ SuperInChain(e, S2)'
        <5>1. CASE e = c
          <6>1. superClass'[e] \in S2 /\ status'[e] # "RAW"
                BY <1>3, <4>2, <5>1
          <6> QED
                BY <6>1 DEF SuperInChain
        <5>2. CASE e # c
              BY <1>3, <3>2, <5>2
        <5> QED
              BY <5>1, <5>2
      <4>4. \A e \in S2 : e \notin S =>
              status'[e] = "RAW" /\ k = 1 /\ IsIn("load")' /\ e = current'.clazz
            BY <1>5, <3>7, <4>1, <4>2
      <4>5. S \subseteq S2 /\ s \in S2
            BY <4>2
      <4>6. Chain(S2, k)'
            BY <1>4, <1>5, <3>1, <4>3, <4>4, <4>5, ChainKept
      <4> QED
            BY <3>4, <3>5, <4>1, <4>5, <4>6
    <3> QED
          BY <1>7, <3>6, <3>7
  <2>4. IsIn("load")' => status'[current'.clazz] = "RAW"
        BY <1>5, <2>2
  <2>5. LoadsInv'
        BY <1>5, <2>3, <2>4 DEF LoadsInv
  <2> QED
        BY <1>3, <1>4, <2>5 DEF LoaderKeeps
<1> QED
      BY <1>6, <1>7

LEMMA LoadRawClassStep == ASSUME LoadsInv, LoaderTypes, LoadRawClass PROVE LoaderKeeps
<1>1. PICK c, s : c = current.clazz /\ s = Super[c]
      OBVIOUS
<1>2. IsIn("load")
      BY Zenon DEF LoadRawClass
<1>3. \/ /\ status' = [status EXCEPT ![c] = "LOADED"]
         /\ superClass' = [superClass EXCEPT ![c] = s]
         /\ IF s = NIL THEN Goto("link")
            ELSE loads' = [loads EXCEPT ![1].clazz = s, ![1].phase = Verdict(status'[s])]
      \/ /\ Goto("throw")
         /\ \/ UNCHANGED <<status, superClass>>
            \/ /\ status' = [status EXCEPT ![c] = "LOADING"]
               /\ \E named \in {NIL, s} : superClass' = [superClass EXCEPT ![c] = named]
      BY <1>1, Zenon DEF LoadRawClass
<1>4. /\ loads # <<>> /\ current \in Calls /\ current = loads[1] /\ c \in Classes
      /\ loads \in Seq(Calls) /\ 1 \in 1 .. Len(loads) /\ status[c] = "RAW"
      BY <1>1, <1>2, CallFacts DEF IsIn, Calls, LoadsInv
<1>5. s \in Classes \cup {NIL}
      BY <1>1, <1>4, ConstantFacts
<1>6. CASE /\ status' = [status EXCEPT ![c] = "LOADED"]
           /\ superClass' = [superClass EXCEPT ![c] = s]
           /\ IF s = NIL THEN Goto("link")
              ELSE loads' = [loads EXCEPT ![1].clazz = s, ![1].phase = Verdict(status'[s])]
  <2>1. CASE s = NIL
    <3>1. "link" \in Phases /\ Goto("link")
          BY <1>6, <2>1 DEF Phases
    <3>2. PICK r \in Calls : /\ loads' = [loads EXCEPT ![1] = r] /\ r.phase = "link"
                             /\ r.initiating = current.initiating
          BY <1>4, <3>1, GotoCall
    <3> QED
          BY <1>1, <1>2, <1>4, <1>6, <2>1, <3>2, ClassLoaded
  <2>2. CASE s # NIL
    <3>1. PICK v : v = Verdict(status'[s])
          OBVIOUS
    <3>2. PICK r : r = [current EXCEPT !.clazz = s, !.phase = v]
          OBVIOUS
    <3>3. v \in Phases
          BY <3>1, VerdictIsPhase
    <3>4. r \in Calls /\ r.initiating = current.initiating /\ r.clazz = s /\ r.phase = v
      <4>1. PICK g \in Calls : g = current
            BY <1>4
      <4>2. r = [initiating |-> g.initiating, clazz |-> s, iface |-> g.iface, phase |-> v]
            BY <3>2, <4>1 DEF Calls
      <4> QED
            BY <1>5, <2>2, <3>3, <4>1, <4>2 DEF Calls
    <3>5. loads' = [loads EXCEPT ![1] = r]
          BY <1>4, <1>6, <2>2, <3>1, <3>2
    <3> QED
          BY <1>1, <1>2, <1>4, <1>6, <2>2, <3>1, <3>4, <3>5, ClassLoaded
  <2> QED
        BY <2>1, <2>2
<1>7. CASE /\ Goto("throw")
           /\ \/ UNCHANGED <<status, superClass>>
              \/ /\ status' = [status EXCEPT ![c] = "LOADING"]
                 /\ \E named \in {NIL, s} : superClass' = [superClass EXCEPT ![c] = named]
  <2>1. "throw" \in Phases
        BY DEF Phases
  <2>2. PICK r \in Calls : /\ loads' = [loads EXCEPT ![1] = r] /\ r.phase = "throw"
                           /\ r.initiating = current.initiating
        BY <1>4, <1>7, <2>1, GotoCall
  <2>3. /\ LoaderTypes' /\ StaysEarly
        /\ \A d \in Classes : status'[d] = status[d] \/ (IsEarly(d) /\ status'[d] # "READY")
    <3>1. CASE UNCHANGED <<status, superClass>>
          BY <3>1, LoaderSame
    <3>2. CASE /\ status' = [status EXCEPT ![c] = "LOADING"]
               /\ \E named \in {NIL, s} : superClass' = [superClass EXCEPT ![c] = named]
      <4>1. "LOADING" \in Statuses
            BY DEF Statuses
      <4> QED
            BY <1>4, <1>5, <3>2, <4>1 DEF LoaderTypes, StaysEarly, IsEarly
    <3> QED
          BY <1>7, <3>1, <3>2
  <2>4. LoadsInv'
        BY <1>4, <2>2, <2>3, EndsCall
  <2> QED
        BY <2>3, <2>4 DEF LoaderKeeps
<1> QED
      BY <1>3, <1>6, <1>7

LEMMA LoadingStep == ASSUME CInv, NEW t \in Threads, Loading(t) PROVE CInv'
<1>1. /\ busy = t /\ point = -2 /\ LoadStep
      /\ IF loads' = <<>> THEN ThrowInJava(t) ELSE UNCHANGED <<busy, point, frames>>
      /\ fatal' = IsIn("fatal")'
      /\ UNCHANGED <<initThread, clinitRuns, pendingException, isPendingInterrupt, monVars>>
      BY Zenon DEF Loading
<1>2. ClassTypes /\ PointInv /\ LoadsInv /\ LoaderTypes
      BY InvFacts DEF ClassTypes, LoaderTypes
<1>3. loads # <<>>
      BY <1>1, <1>2 DEF PointInv
<1>4. InJava(t) /\ ~ pendingException[t] /\ ~ Waits(t)
      BY <1>1, <1>3, LoaderFacts
<1>5. LoaderKeeps
      BY <1>1, <1>2, LoadRawClassStep, LinkFailsStep, LinkInterfaceStep, LinkClassStep,
         LoadedStep, CatchStep DEF LoadStep
<1>6. /\ LoadsInv' /\ status' \in [Classes -> Statuses]
      /\ superClass' \in [Classes -> Classes \cup {NIL}]
      BY <1>5 DEF LoaderKeeps, LoaderTypes
<1>7. Advances
      BY <1>1, <1>5 DEF LoaderKeeps, Advances
<1>8. fatal' \in BOOLEAN
      BY <1>1 DEF IsIn
<1>9. /\ UNCHANGED <<pendingException, isPendingInterrupt, monVars>>
      /\ UNCHANGED <<pendingException, monVars>>
      BY <1>1
<1>10. CASE loads' = <<>>
      BY <1>1, <1>4, <1>6, <1>7, <1>8, <1>9, <1>10, ThrowStep
<1>11. CASE loads' # <<>>
  <2>1. busy' = t /\ point' = -2 /\ frames' = frames
        BY <1>1, <1>11
  <2>2. PointInv'
        BY <1>11, <2>1, ConstantFacts DEF PointInv
  <2>3. ClassTypes'
        BY <1>1, <1>2, <1>6, <1>8, <2>1 DEF ClassTypes
  <2> QED
        BY <1>1, <1>4, <1>6, <1>7, <1>9, <2>1, <2>2, <2>3, FramesSame
<1> QED
      BY <1>10, <1>11

-----------------------------------------------------------------------------
(* The theorems                                                            *)

LEMMA InitInv == Init => CInv
<1> SUFFICES ASSUME Init PROVE CInv
    OBVIOUS
<1>1. /\ status = [c \in Classes |-> "RAW"] /\ superClass = [c \in Classes |-> NIL] /\ loads = <<>>
      /\ initThread = [c \in Classes |-> NIL] /\ frames = [t \in Threads |-> <<>>]
      /\ busy = NIL /\ point = 0 /\ fatal = FALSE
      /\ pendingException = [t \in Threads |-> FALSE]
      /\ isPendingInterrupt = [t \in Threads |-> FALSE]
      /\ clinitRuns = [c \in Classes |-> 0]
      /\ owner = [c \in Classes |-> NIL] /\ count = [c \in Classes |-> 0]
      /\ entry = [c \in Classes |-> <<>>] /\ waitset = [c \in Classes |-> <<>>]
      /\ saved = [t \in Threads |-> 0]
      BY DEF Init, LoaderInit, Mon!Init
<1>2. <<>> \in Seq(Frame) /\ <<>> \in Seq(Threads) /\ <<>> \in Seq(Calls) /\ Len(<<>>) = 0
      OBVIOUS
<1>3. TypeOK
  <2>1. /\ status \in [Classes -> Statuses] /\ superClass \in [Classes -> Classes \cup {NIL}]
        /\ initThread \in [Classes -> Threads \cup {NIL}] /\ clinitRuns \in [Classes -> Nat]
    <3>1. "RAW" \in Statuses
          BY DEF Statuses
    <3> QED
          BY <1>1, <3>1
  <2>2. /\ busy \in Threads \cup {NIL} /\ point \in -2..6 /\ fatal \in BOOLEAN
        /\ pendingException \in [Threads -> BOOLEAN]
        /\ isPendingInterrupt \in [Threads -> BOOLEAN]
    <3>1. busy \in Threads \cup {NIL} /\ point \in -2..6
          BY <1>1
    <3>2. fatal \in BOOLEAN
          BY <1>1
    <3>3. [t \in Threads |-> FALSE] \in [Threads -> BOOLEAN]
          BY Zenon
    <3> QED
          BY <1>1, <3>1, <3>2, <3>3
  <2>3. frames \in [Threads -> Seq(Frame)]
        BY <1>1, <1>2
  <2>4. /\ owner \in [Classes -> Threads \cup {NIL}] /\ count \in [Classes -> Nat]
        /\ saved \in [Threads -> Nat]
        BY <1>1
  <2>5. entry \in [Classes -> Seq(Threads)] /\ waitset \in [Classes -> Seq(Threads)]
        BY <1>1, <1>2
  <2> QED
        BY <2>1, <2>2, <2>3, <2>4, <2>5 DEF TypeOK
<1>4. PointInv /\ RunsInv
      BY <1>1 DEF PointInv, RunsInv, Late
<1>5. LoadsInv
      BY <1>1, <1>2 DEF LoadsInv, IsIn
<1>6. ASSUME NEW t \in Threads PROVE ThreadOK(t)
  <2>1. frames[t] = <<>> /\ Len(frames[t]) = 0 /\ busy # t /\ ~ pendingException[t]
        BY <1>1, <1>2, ConstantFacts
  <2>2. ~ Waits(t)
        BY <1>1 DEF Waits, Contains
  <2> QED
        BY <2>1, <2>2 DEF ThreadOK, FramesOK, BusyOK, WaitsOK, MarkedOK
<1> QED
      BY <1>3, <1>4, <1>5, <1>6 DEF CInv

LEMMA InvStep == CInv /\ [Next]_vars => CInv'
<1> SUFFICES ASSUME CInv, [Next]_vars PROVE CInv'
    OBVIOUS
<1>1. ASSUME NEW t \in Threads, Progress(t) PROVE CInv'
  <2>1. CASE Loading(t) \/ Case1(t) \/ Case2(t) \/ Case3(t) \/ Case4(t) \/ Case5(t) \/ Case6(t)
        BY <2>1, LoadingStep, Case1Step, Case2Step, Case3Step, Case4Step, Case5Step, Case6Step
  <2>2. CASE JavaEnds(t) \/ PendingException(t) \/ ClinitException(t)
        BY <2>2, LockStep, ClinitReturnsStep, ClinitThrowsStep, PendingExceptionStep,
           ClinitExceptionStep DEF JavaEnds
  <2>3. CASE \E c \in Classes : busy = t /\ Use(t, c)
        BY <2>3, UseStep
  <2> QED
        BY <1>1, <2>1, <2>2, <2>3 DEF Progress
<1>2. ASSUME NEW t \in Threads, NEW c \in Classes, Load(t, c) \/ Use(t, c) \/ Lock(t, c)
      PROVE  CInv'
      BY <1>2, LoadBegins, UseStep, LockStep
<1>3. ASSUME NEW t \in Threads, NEW u \in Threads, Interrupt(t, u) PROVE CInv'
      BY <1>3, InterruptStep
<1>4. CASE Finished \/ UNCHANGED vars
      BY <1>4, NothingStep DEF Finished
<1> QED
      BY <1>1, <1>2, <1>3, <1>4, Zenon DEF Next

THEOREM ClassInvariant == Spec => []CInv
BY InitInv, InvStep, PTL DEF Spec

(* A thread that is past step 6 for a class is its one initializer, with   *)
(* one frame for it: InitializersExact.                                    *)
THEOREM OneInitializerAtATime == Spec => []InitializersExact
<1>1. CInv => InitializersExact
  <2> SUFFICES ASSUME CInv PROVE InitializersExact
      OBVIOUS
  <2>1. ASSUME NEW t \in Threads, NEW i \in DOMAIN frames[t], IsPastMark(t, i)
        PROVE  /\ initThread[frames[t][i].class] = t
               /\ \A j \in DOMAIN frames[t] :
                    IsPastMark(t, j) /\ frames[t][j].class = frames[t][i].class => i = j
    <3>1. DOMAIN frames[t] = 1 .. Len(frames[t])
          BY InvFacts, FrameFacts
    <3>2. \A j : IsPastMark(t, j) => Marked(t, j)
          BY DEF IsPastMark, Marked
    <3>3. Initializes(t, i, frames[t][i].class)
          BY <2>1, <3>1, <3>2, InvFacts DEF ThreadOK, MarkedOK
    <3> QED
          BY <3>1, <3>2, <3>3 DEF Initializes
  <2> QED
        BY <2>1, TypesSplit, InvFacts DEF InitializersExact, OneInitializer
<1> QED
      BY <1>1, ClassInvariant, PTL

(* <clinit> is called once at most, and a class that is ready has run it   *)
(* to its end: ClinitOnce.                                                 *)
THEOREM ClinitRunsOnce == Spec => []ClinitOnce
<1>1. CInv => ClinitOnce
  <2> SUFFICES ASSUME CInv, NEW c \in Classes
               PROVE  /\ clinitRuns[c] <= 1
                      /\ status[c] = "READY" /\ c \in HasClinit =>
                           /\ clinitRuns[c] = 1
                           /\ \A t \in Threads : \A i \in DOMAIN frames[t] :
                                ~(frames[t][i].class = c /\ IsPastMark(t, i))
      BY DEF ClinitOnce
  <2>1. clinitRuns[c] <= 1 /\ (status[c] = "READY" /\ c \in HasClinit => clinitRuns[c] = 1)
        BY InvFacts DEF RunsInv
  <2>2. ASSUME NEW t \in Threads, NEW i \in DOMAIN frames[t], frames[t][i].class = c,
               IsPastMark(t, i), c \in HasClinit
        PROVE  status[c] # "READY"
    <3>1. i \in 1 .. Len(frames[t]) /\ Marked(t, i)
          BY <2>2, InvFacts, FrameFacts DEF IsPastMark, Marked
    <3>2. Initializes(t, i, c)
          BY <2>2, <3>1, InvFacts DEF ThreadOK, MarkedOK
    <3> QED
          BY <2>2, <3>2 DEF Initializes
  <2> QED
        BY <2>1, <2>2
<1> QED
      BY <1>1, ClassInvariant, PTL

-----------------------------------------------------------------------------
(* Loads that fail leave nothing behind                                    *)

(* p are the classes that a call has loaded and not linked, from the one   *)
(* it was made for up.                                                     *)
PathOf(p, call, depth) ==
  /\ p # <<>> => p[1] = call.initiating
  /\ \A i \in 1 .. Len(p) - 1 : Super[p[i]] = p[i + 1]
  /\ \A i, j \in 1 .. Len(p) : j < i => depth[p[i]] < depth[p[j]]

Held(p) == \A i \in 1 .. Len(p) : status[p[i]] = "LOADED" /\ superClass[p[i]] = Super[p[i]]

Highest(p) == p[Len(p)]

LinkOK(p, call) ==
  IF p = <<>> THEN ~IsUnlinked(call.initiating)
  ELSE /\ Super[Highest(p)] # NIL => ~IsUnlinked(Super[Highest(p)])
       /\ call.iface <= Len(Interfaces[Highest(p)]) + 1
       /\ \A j \in 1 .. call.iface - 1 : ~IsUnlinked(Interfaces[Highest(p)][j])

Innermost(p, call, G) ==
  \/ /\ call.phase = "load" /\ Held(p) /\ call.iface = 1
     /\ call.clazz = IF p = <<>> THEN call.initiating ELSE Super[Highest(p)]
  \/ call.phase = "link" /\ Held(p) /\ LinkOK(p, call)
  \/ /\ call.phase = "throw" /\ call.initiating \notin G /\ Len(p) <= 1
     /\ status[call.initiating] \in {"RAW", "LOADING", "LOADED"}
  \/ call.phase = "done" /\ p = <<>> /\ LinkOK(p, call)

Outer(p, call, inner) ==
  /\ call.phase = "link" /\ p # <<>> /\ Held(p) /\ LinkOK(p, call)
  /\ call.iface <= Len(Interfaces[Highest(p)])
  /\ inner.initiating = Interfaces[Highest(p)][call.iface]

PathsInv(P, G, depth) ==
  /\ P \in Seq(Seq(Classes)) /\ Len(P) = Len(loads)
  /\ \A k \in 1 .. Len(loads) : PathOf(P[k], loads[k], depth)
  /\ loads # <<>> => Innermost(P[1], loads[1], G)
  /\ \A k \in 2 .. Len(loads) : Outer(P[k], loads[k], loads[k - 1])
  /\ \A k \in 2 .. Len(loads) : \A a \in 1 .. k - 1 : \A i \in 1 .. Len(P[k]) :
       depth[loads[a].initiating] < depth[P[k][i]]
  /\ \A c \in Classes : IsWhole(c) \/ \E k \in 1 .. Len(loads) : \E i \in 1 .. Len(P[k]) : P[k][i] = c
  /\ IsIn("done") => Len(loads) = 1

-----------------------------------------------------------------------------
Settled == {"LINKED", "VERIFIED", "READY", "ERROR"}

LEMMA NamedFacts ==
  ASSUME NEW c \in Classes
  PROVE  /\ Named(c) \subseteq Classes
         /\ Super[c] # NIL => Super[c] \in Named(c)
         /\ \A j \in 1 .. Len(Interfaces[c]) : Interfaces[c][j] \in Named(c)
         /\ IsWhole(c) <=> \/ status[c] = "RAW" /\ superClass[c] = NIL
                           \/ /\ status[c] \in Settled /\ superClass[c] = Super[c]
                              /\ \A d \in Named(c) : status[d] \in Settled
<1>1. Super[c] \in Classes \cup {NIL} /\ Interfaces[c] \in Seq(Classes) /\ NIL \notin Classes
      BY ConstantFacts
<1>2. \A j \in 1 .. Len(Interfaces[c]) : Interfaces[c][j] \in Classes
      BY <1>1
<1>3. ToSet(Interfaces[c]) = {Interfaces[c][j] : j \in 1 .. Len(Interfaces[c])}
      BY <1>1 DEF ToSet
<1>4. /\ Named(c) \subseteq Classes
      /\ Super[c] # NIL => Super[c] \in Named(c)
      /\ \A j \in 1 .. Len(Interfaces[c]) : Interfaces[c][j] \in Named(c)
      BY <1>1, <1>2, <1>3 DEF Named
<1>5. IsWhole(c) <=> \/ status[c] = "RAW" /\ superClass[c] = NIL
                     \/ /\ status[c] \in Settled /\ superClass[c] = Super[c]
                        /\ \A d \in Named(c) : status[d] \in Settled
      BY DEF IsWhole, Settled, Named
<1> QED
      BY <1>4, <1>5

(* One class changes, to a status that is no worse.                        *)
ChangesOnly(d) ==
  /\ \A c \in Classes : c # d => status'[c] = status[c] /\ superClass'[c] = superClass[c]
  /\ status[d] \in Settled => status'[d] \in Settled
  /\ IsUnlinked(d)' => IsUnlinked(d)

LEMMA WholeKept ==
  ASSUME NEW d \in Classes, ChangesOnly(d), NEW c \in Classes, c # d, IsWhole(c)
  PROVE  IsWhole(c)'
<1>1. status'[c] = status[c] /\ superClass'[c] = superClass[c]
      BY DEF ChangesOnly
<1>2. \A e \in Classes : status[e] \in Settled => status'[e] \in Settled
      BY DEF ChangesOnly
<1>3. CASE status[c] = "RAW" /\ superClass[c] = NIL
      BY <1>1, <1>3 DEF IsWhole
<1>4. CASE /\ status[c] \in Settled /\ superClass[c] = Super[c]
           /\ \A e \in Named(c) : status[e] \in Settled
  <2>1. \A e \in Named(c) : status'[e] \in Settled
        BY <1>2, <1>4, NamedFacts
  <2> QED
        BY <1>1, <1>4, <2>1 DEF IsWhole, Settled, Named
<1> QED
      BY <1>3, <1>4, NamedFacts

LEMMA HeldKept ==
  ASSUME NEW d \in Classes, ChangesOnly(d), NEW p \in Seq(Classes), Held(p),
         \A i \in 1 .. Len(p) : p[i] # d
  PROVE  Held(p)'
<1>1. \A i \in 1 .. Len(p) : p[i] \in Classes
      OBVIOUS
<1> QED
      BY <1>1 DEF Held, ChangesOnly

LEMMA LinkedKept ==
  ASSUME NEW d \in Classes, ChangesOnly(d), NEW c \in Classes, ~IsUnlinked(c)
  PROVE  ~IsUnlinked(c)'
BY DEF ChangesOnly, IsUnlinked

LEMMA LinkOKKept ==
  ASSUME NEW d \in Classes, ChangesOnly(d), NEW p \in Seq(Classes), NEW call \in Calls,
         LinkOK(p, call)
  PROVE  LinkOK(p, call)'
<1>1. CASE p = <<>>
  <2>1. call.initiating \in Classes
        BY DEF Calls
  <2>2. PICK c \in Classes : c = call.initiating
        BY <2>1
  <2>3. ~IsUnlinked(c)
        BY <1>1, <2>2 DEF LinkOK
  <2>4. ~IsUnlinked(c)'
        BY <2>3, LinkedKept
  <2> QED
        BY <1>1, <2>2, <2>4 DEF LinkOK, IsUnlinked
<1>2. CASE p # <<>>
  <2>1. PICK h \in Classes : h = Highest(p)
        BY <1>2, EmptySeq DEF Highest
  <2>2. /\ Super[h] # NIL => ~IsUnlinked(Super[h])
        /\ call.iface <= Len(Interfaces[h]) + 1
        /\ \A j \in 1 .. call.iface - 1 : ~IsUnlinked(Interfaces[h][j])
        BY <1>2, <2>1 DEF LinkOK
  <2>3. Super[h] # NIL => ~IsUnlinked(Super[h])'
    <3>1. Super[h] \in Classes \cup {NIL}
          BY ConstantFacts
    <3>2. PICK s : s = Super[h]
          OBVIOUS
    <3>3. s # NIL => ~IsUnlinked(s)'
          BY <2>2, <3>1, <3>2, LinkedKept
    <3> QED
          BY <3>2, <3>3 DEF IsUnlinked
  <2>4. ASSUME NEW j \in 1 .. call.iface - 1 PROVE ~IsUnlinked(Interfaces[h][j])'
    <3>1. j \in 1 .. Len(Interfaces[h]) /\ Interfaces[h] \in Seq(Classes)
      <4>1. Interfaces[h] \in Seq(Classes) /\ Len(Interfaces[h]) \in Nat /\ call.iface \in Nat
            BY ConstantFacts DEF Calls
      <4> QED
            BY <2>2, <4>1
    <3>2. PICK i \in Classes : i = Interfaces[h][j]
          BY <3>1
    <3>3. ~IsUnlinked(i)
          BY <2>2, <3>2
    <3>4. ~IsUnlinked(i)'
          BY <3>3, LinkedKept
    <3> QED
          BY <3>2, <3>4 DEF IsUnlinked
  <2> QED
        BY <1>2, <2>1, <2>2, <2>3, <2>4 DEF LinkOK, Highest
<1> QED
      BY <1>1, <1>2

LEMMA OuterKept ==
  ASSUME NEW d \in Classes, ChangesOnly(d), NEW p \in Seq(Classes), NEW call \in Calls,
         NEW inner, Outer(p, call, inner), \A i \in 1 .. Len(p) : p[i] # d
  PROVE  Outer(p, call, inner)'
<1>1. Held(p)' /\ LinkOK(p, call)'
      BY HeldKept, LinkOKKept DEF Outer
<1> QED
      BY <1>1 DEF Outer, Highest

OnPath(p, c) == \E i \in 1 .. Len(p) : p[i] = c

LEMMA DepthFacts ==
  ASSUME NEW depth, Descends(depth)
  PROVE  \A c \in Classes : /\ depth[c] \in Nat
                            /\ \A d \in Named(c) : d \in Classes /\ depth[d] < depth[c]
BY NamedFacts DEF Descends

(* What the invariant says of the innermost call, and of the outer ones.   *)
LEMMA PathFacts ==
  ASSUME NEW P, NEW G, NEW depth, PathsInv(P, G, depth), LoadsInv, loads # <<>>
  PROVE  /\ P \in Seq(Seq(Classes)) /\ Len(P) = Len(loads) /\ Len(P) \in Nat /\ Len(P) >= 1
         /\ \A k \in 1 .. Len(loads) : P[k] \in Seq(Classes) /\ Len(P[k]) \in Nat
         /\ P[1] \in Seq(Classes) /\ Len(P[1]) \in Nat
         /\ \A k \in 1 .. Len(loads) : \A i \in 1 .. Len(P[k]) : P[k][i] \in Classes
         /\ PathOf(P[1], current, depth) /\ Innermost(P[1], current, G)
         /\ \A k \in 2 .. Len(loads) : Outer(P[k], loads[k], loads[k - 1]) /\ k \in 1 .. Len(loads)
         /\ \A k \in 2 .. Len(loads) : \A i \in 1 .. Len(P[k]) :
              depth[current.initiating] < depth[P[k][i]]
         /\ \A c \in Classes : IsWhole(c) \/ \E k \in 1 .. Len(loads) : OnPath(P[k], c)
<1>1. Len(loads) \in Nat /\ 1 \in 1 .. Len(loads) /\ current = loads[1]
      BY CallFacts
<1>2. P \in Seq(Seq(Classes)) /\ Len(P) = Len(loads)
      BY DEF PathsInv
<1>3. \A k \in 1 .. Len(loads) : P[k] \in Seq(Classes)
      BY <1>2
<1>4. \A k \in 1 .. Len(loads) : Len(P[k]) \in Nat /\ \A i \in 1 .. Len(P[k]) : P[k][i] \in Classes
      BY <1>3
<1>5. PathOf(P[1], current, depth) /\ Innermost(P[1], current, G)
      BY <1>1 DEF PathsInv
<1>6. \A k \in 2 .. Len(loads) : k \in 1 .. Len(loads) /\ 1 \in 1 .. k - 1
      BY <1>1
<1>7. \A k \in 2 .. Len(loads) : \A i \in 1 .. Len(P[k]) :
        depth[current.initiating] < depth[P[k][i]]
  <2>1. \A k \in 2 .. Len(loads) : \A a \in 1 .. k - 1 : \A i \in 1 .. Len(P[k]) :
          depth[loads[a].initiating] < depth[P[k][i]]
        BY DEF PathsInv
  <2> QED
        BY <1>1, <1>6, <2>1
<1>8. \A k \in 2 .. Len(loads) : Outer(P[k], loads[k], loads[k - 1])
      BY DEF PathsInv
<1>9. \A c \in Classes : IsWhole(c) \/ \E k \in 1 .. Len(loads) : OnPath(P[k], c)
      BY DEF PathsInv, OnPath
<1> QED
      BY <1>1, <1>2, <1>3, <1>4, <1>5, <1>6, <1>7, <1>8, <1>9

(* The innermost call goes on, and changes one class at most, which is not *)
(* on the paths of the outer calls.                                        *)
LEMMA Continues ==
  ASSUME NEW P, NEW G, NEW depth, PathsInv(P, G, depth), Descends(depth), LoadsInv, loads # <<>>,
         NEW d \in Classes, ChangesOnly(d), depth[d] <= depth[current.initiating],
         NEW r \in Calls, loads' = [loads EXCEPT ![1] = r], r.initiating = current.initiating,
         r.phase = "done" => Len(loads) = 1,
         NEW p \in Seq(Classes), PathOf(p, r, depth), Innermost(p, r, G)',
         \A c \in Classes : c = d \/ OnPath(P[1], c) => IsWhole(c)' \/ OnPath(p, c)
  PROVE  \E Q : PathsInv(Q, G, depth)'
<1> DEFINE Q == [P EXCEPT ![1] = p]
<1>1. /\ loads' \in Seq(Calls) /\ Len(loads') = Len(loads) /\ loads' # <<>> /\ loads'[1] = r
      /\ \A k \in 1 .. Len(loads) : loads'[k].initiating = loads[k].initiating
      /\ \A k \in 1 .. Len(loads) : k # 1 => loads'[k] = loads[k]
      /\ IsIn("done")' <=> r.phase = "done"
      BY InnermostCall
<1>2. /\ P \in Seq(Seq(Classes)) /\ Len(P) = Len(loads) /\ Len(P) \in Nat /\ Len(P) >= 1
      /\ \A k \in 1 .. Len(loads) : P[k] \in Seq(Classes) /\ Len(P[k]) \in Nat
      /\ \A k \in 1 .. Len(loads) : \A i \in 1 .. Len(P[k]) : P[k][i] \in Classes
      /\ \A k \in 2 .. Len(loads) : Outer(P[k], loads[k], loads[k - 1]) /\ k \in 1 .. Len(loads)
      /\ \A k \in 2 .. Len(loads) : \A i \in 1 .. Len(P[k]) :
           depth[current.initiating] < depth[P[k][i]]
      /\ \A c \in Classes : IsWhole(c) \/ \E k \in 1 .. Len(loads) : OnPath(P[k], c)
      BY PathFacts
<1>3. Q \in Seq(Seq(Classes)) /\ Len(Q) = Len(loads) /\ Q[1] = p
      BY <1>2
<1>4. \A k \in 1 .. Len(loads) : k # 1 => Q[k] = P[k]
      BY <1>2
<1>5. \A k \in 2 .. Len(loads) : k \in 1 .. Len(loads) /\ k # 1 /\ k - 1 \in 1 .. Len(loads)
      BY <1>2
<1>6. current = loads[1] /\ loads[1] \in Calls /\ current.initiating \in Classes
      BY CallFacts
<1>7. \A k \in 1 .. Len(loads) : PathOf(Q[k], loads'[k], depth)
  <2>1. \A k \in 1 .. Len(loads) : PathOf(P[k], loads[k], depth)
        BY DEF PathsInv
  <2> QED
        BY <1>1, <1>3, <1>4, <2>1
<1>8. ASSUME NEW k \in 2 .. Len(loads) PROVE Outer(Q[k], loads[k], loads[k - 1])'
  <2>1. \A i \in 1 .. Len(P[k]) : P[k][i] # d
    <3>1. SUFFICES ASSUME NEW i \in 1 .. Len(P[k]), P[k][i] = d PROVE FALSE
          OBVIOUS
    <3>2. depth[current.initiating] \in Nat /\ depth[d] \in Nat
          BY <1>6, DepthFacts
    <3>3. depth[current.initiating] < depth[d]
          BY <1>2, <3>1
    <3> QED
          BY <3>2, <3>3
  <2>2. P[k] \in Seq(Classes) /\ loads[k] \in Calls /\ Q[k] = P[k] /\ loads'[k] = loads[k]
        BY <1>1, <1>2, <1>4, <1>5, CallFacts
  <2>3. loads'[k - 1].initiating = loads[k - 1].initiating
        BY <1>1, <1>5
  <2>4. PICK q \in Seq(Classes), call \in Calls, in \in Calls :
          q = P[k] /\ call = loads[k] /\ in = loads[k - 1]
    <3>1. k \in 1 .. Len(loads) /\ k - 1 \in 1 .. Len(loads)
          BY <1>5
    <3>2. P[k] \in Seq(Classes) /\ loads[k] \in Calls /\ loads[k - 1] \in Calls
          BY <1>2, <3>1, CallFacts
    <3> QED
          BY <3>2
  <2>5. Outer(q, call, in)
        BY <1>2, <2>4
  <2>6. Outer(q, call, in)'
        BY <2>1, <2>4, <2>5, OuterKept
  <2>7. Held(q)' /\ LinkOK(q, call)'
        BY <2>6 DEF Outer
  <2>8. Held(Q[k])' /\ LinkOK(Q[k], loads[k])'
        BY <2>2, <2>4, <2>7, SMTT(40) DEF Held, LinkOK, IsUnlinked, Highest
  <2> QED
        BY <2>2, <2>3, <2>4, <2>5, <2>8 DEF Outer, Highest
<1>9. \A k \in 2 .. Len(loads) : \A a \in 1 .. k - 1 : \A i \in 1 .. Len(Q[k]) :
        depth[loads'[a].initiating] < depth[Q[k][i]]
  <2>1. \A k \in 2 .. Len(loads) : \A a \in 1 .. k - 1 : \A i \in 1 .. Len(P[k]) :
          depth[loads[a].initiating] < depth[P[k][i]]
        BY DEF PathsInv
  <2>2. \A k \in 2 .. Len(loads) : \A a \in 1 .. k - 1 : a \in 1 .. Len(loads)
        BY <1>2
  <2> QED
        BY <1>1, <1>4, <1>5, <2>1, <2>2
<1>10. ASSUME NEW c \in Classes
       PROVE  IsWhole(c)' \/ \E k \in 1 .. Len(loads) : OnPath(Q[k], c)
  <2>1. CASE c = d \/ OnPath(P[1], c)
        BY <1>2, <1>3, <2>1
  <2>2. CASE c # d /\ ~ OnPath(P[1], c)
    <3>1. CASE IsWhole(c)
          BY <2>2, <3>1, WholeKept
    <3>2. CASE \E k \in 1 .. Len(loads) : OnPath(P[k], c)
          BY <1>4, <2>2, <3>2
    <3> QED
          BY <1>2, <3>1, <3>2
  <2> QED
        BY <2>1, <2>2
<1>11. Innermost(Q[1], loads[1], G)'
       BY <1>1, <1>3 DEF Innermost, Held, LinkOK, IsUnlinked, Highest
<1>12. \A k \in 2 .. Len(loads) : Outer(Q[k], loads[k], loads[k - 1])'
       BY <1>8
<1>13. \A c \in Classes : IsWhole(c)' \/ \E k \in 1 .. Len(loads) : \E i \in 1 .. Len(Q[k]) : Q[k][i] = c
       BY <1>10 DEF OnPath
<1> HIDE DEF Q
<1>14. PathsInv(Q, G, depth)'
       BY <1>1, <1>3, <1>7, <1>9, <1>11, <1>12, <1>13 DEF PathsInv
<1> QED
      BY <1>14

(* The class that is linked next is the highest one that is not linked.    *)
LEMMA LinkedIs ==
  ASSUME NEW depth, NEW p \in Seq(Classes), PathOf(p, current, depth), Held(p),
         LinkOK(p, current), current.initiating \in Classes
  PROVE  linked = IF p = <<>> THEN NIL ELSE Highest(p)
<1> DEFINE c == current.initiating
           Top_(d) == IsUnlinked(d) /\ (superClass[d] = NIL \/ ~ IsUnlinked(superClass[d]))
           highest == {d \in UnlinkedChain(c) : Top_(d)}
<1>0. NIL \notin Classes /\ \A d \in Classes : Super[d] \in Classes \cup {NIL}
      BY ConstantFacts
<1>1. linked = IF highest = {} THEN NIL ELSE CHOOSE d \in highest : TRUE
  <2>1. \A d : Top_(d) <=> /\ IsUnlinked(d)
                          /\ IF superClass[d] = NIL THEN TRUE ELSE ~IsUnlinked(superClass[d])
        OBVIOUS
  <2>2. highest = {d \in UnlinkedChain(c) :
                    /\ IsUnlinked(d)
                    /\ IF superClass[d] = NIL THEN TRUE ELSE ~IsUnlinked(superClass[d])}
        OBVIOUS
  <2> HIDE DEF highest
  <2> QED
        BY <2>2 DEF linked, SuperMostUnlinked
<1>2. \A d \in UnlinkedChain(c) : \A S \in SUBSET Classes :
        c \in S /\ (\A e \in S : IsUnlinked(e) => superClass[e] \in S \cup {NIL}) => d \in S
      BY DEF UnlinkedChain
<1>3. CASE p = <<>>
  <2>1. ~ IsUnlinked(c)
        BY <1>3 DEF LinkOK
  <2>2. \A d \in UnlinkedChain(c) : d \in {c}
    <3>1. {c} \in SUBSET Classes /\ c \in {c}
          OBVIOUS
    <3>2. \A e \in {c} : IsUnlinked(e) => superClass[e] \in {c} \cup {NIL}
          BY <2>1
    <3> SUFFICES ASSUME NEW d \in UnlinkedChain(c) PROVE d \in {c}
        OBVIOUS
    <3> QED
          BY <1>2, <3>1, <3>2
  <2>3. highest = {}
        BY <2>1, <2>2
  <2> QED
        BY <1>1, <1>3, <2>3
<1>4. CASE p # <<>>
  <2> DEFINE h == Highest(p)
  <2>1. /\ Len(p) \in Nat /\ Len(p) >= 1 /\ h = p[Len(p)]
        /\ \A i \in 1 .. Len(p) : p[i] \in Classes
        BY <1>4, EmptySeq DEF Highest
  <2>2. /\ p[1] = c /\ \A i \in 1 .. Len(p) - 1 : Super[p[i]] = p[i + 1]
        BY <1>4 DEF PathOf
  <2>3. \A i \in 1 .. Len(p) : IsUnlinked(p[i]) /\ superClass[p[i]] = Super[p[i]]
        BY DEF Held, IsUnlinked
  <2>4. h \in Classes /\ IsUnlinked(h) /\ superClass[h] = Super[h]
        BY <2>1, <2>3
  <2>5. superClass[h] = NIL \/ ~ IsUnlinked(superClass[h])
        BY <1>4, <2>4 DEF LinkOK
  <2>6. h \in UnlinkedChain(c)
    <3>1. SUFFICES ASSUME NEW S \in SUBSET Classes, c \in S,
                          \A e \in S : IsUnlinked(e) => superClass[e] \in S \cup {NIL},
                          h \notin S
                   PROVE  FALSE
          BY <2>4 DEF UnlinkedChain
    <3> DEFINE Out == {i \in 1 .. Len(p) : p[i] \notin S}
    <3>2. Out \subseteq Nat /\ Len(p) \in Out
          BY <2>1, <3>1
    <3>3. Out # {}
          BY <3>2
    <3>4. PICK i \in Out : \A j \in Out : i <= j
      <4> HIDE DEF Out
      <4> QED
          BY <3>2, <3>3, LeastNumber
    <3>5. i \in 1 .. Len(p) /\ p[i] \notin S /\ i # 1
          BY <2>2, <3>1, <3>4
    <3>6. i - 1 \in 1 .. Len(p) /\ i - 1 \in 1 .. Len(p) - 1 /\ ~ (i <= i - 1) /\ (i - 1) + 1 = i
          BY <2>1, <3>5
    <3>7. p[i - 1] \in S
          BY <3>4, <3>6
    <3>8. superClass[p[i - 1]] = p[i]
          BY <2>2, <2>3, <3>6
    <3>9. p[i] \in S \cup {NIL}
          BY <2>3, <3>1, <3>6, <3>7, <3>8
    <3> QED
          BY <1>0, <2>1, <3>5, <3>9
  <2>7. ASSUME NEW d \in UnlinkedChain(c), Top_(d) PROVE d = h
    <3> DEFINE S == {p[i] : i \in 1 .. Len(p)} \cup ({Super[h]} \ {NIL})
    <3>1. S \in SUBSET Classes
          BY <1>0, <2>1, <2>4
    <3>2. c \in S
          BY <2>1, <2>2
    <3>3. ASSUME NEW e \in S, IsUnlinked(e) PROVE superClass[e] \in S \cup {NIL}
      <4>1. CASE e \in {Super[h]} \ {NIL}
            BY <2>4, <2>5, <3>3, <4>1
      <4>2. CASE \E i \in 1 .. Len(p) : e = p[i]
        <5>1. PICK i \in 1 .. Len(p) : e = p[i]
              BY <4>2
        <5>2. CASE i = Len(p)
              BY <2>1, <2>4, <5>1, <5>2
        <5>3. CASE i # Len(p)
          <6>1. i \in 1 .. Len(p) - 1 /\ i + 1 \in 1 .. Len(p)
                BY <2>1, <5>3
          <6>2. superClass[e] = p[i + 1]
                BY <2>2, <2>3, <5>1, <6>1
          <6> QED
                BY <6>1, <6>2
        <5> QED
              BY <5>2, <5>3
      <4> QED
            BY <4>1, <4>2
    <3>4. d \in S
      <4> HIDE DEF S
      <4> QED
          BY <1>2, <3>1, <3>2, <3>3
    <3>5. CASE d \in {Super[h]} \ {NIL}
          BY <2>4, <2>5, <2>7, <3>5
    <3>6. CASE \E i \in 1 .. Len(p) : d = p[i]
      <4>1. PICK i \in 1 .. Len(p) : d = p[i]
            BY <3>6
      <4>2. CASE i # Len(p)
        <5>1. i \in 1 .. Len(p) - 1 /\ i + 1 \in 1 .. Len(p)
              BY <2>1, <4>2
        <5>2. superClass[d] = p[i + 1]
              BY <2>2, <2>3, <4>1, <5>1
        <5> QED
              BY <1>0, <2>1, <2>3, <2>7, <5>1, <5>2
      <4> QED
            BY <2>1, <4>1, <4>2
    <3> QED
          BY <3>4, <3>5, <3>6
  <2>8. highest = {h}
        BY <2>4, <2>5, <2>6, <2>7
  <2> QED
        BY <1>1, <1>4, <2>8
<1> QED
      BY <1>3, <1>4

(* A class below all those that are being loaded is raw or linked.         *)
LEMMA Untouched ==
  ASSUME NEW P, NEW G, NEW depth, PathsInv(P, G, depth), Descends(depth), LoadsInv, loads # <<>>,
         NEW c \in Classes, depth[c] <= depth[current.initiating], ~ OnPath(P[1], c)
  PROVE  IsWhole(c) /\ status[c] \notin {"LOADING", "LOADED"}
<1>1. current.initiating \in Classes
      BY CallFacts
<1>2. depth[c] \in Nat /\ depth[current.initiating] \in Nat
      BY <1>1, DepthFacts
<1>3. ASSUME NEW k \in 1 .. Len(loads), OnPath(P[k], c) PROVE FALSE
  <2>1. k # 1
        BY <1>3
  <2>2. k \in 2 .. Len(loads)
        BY <2>1, PathFacts
  <2>3. depth[current.initiating] < depth[c]
        BY <1>3, <2>2, PathFacts DEF OnPath
  <2> QED
        BY <1>2, <2>3
<1>4. IsWhole(c)
      BY <1>3, PathFacts
<1> QED
      BY <1>4 DEF IsWhole

(* The classes of a path, from the highest down.                           *)
LEMMA OnPathDepth ==
  ASSUME NEW depth, Descends(depth), NEW p \in Seq(Classes), NEW call \in Calls,
         PathOf(p, call, depth), p # <<>>
  PROVE  /\ Len(p) \in Nat /\ Len(p) >= 1 /\ Highest(p) \in Classes /\ Highest(p) = p[Len(p)]
         /\ OnPath(p, Highest(p))
         /\ p[1] = call.initiating
         /\ \A i \in 1 .. Len(p) : p[i] \in Classes /\ depth[Highest(p)] <= depth[p[i]]
         /\ \A c \in Classes : depth[c] < depth[Highest(p)] => ~ OnPath(p, c)
         /\ depth[Highest(p)] <= depth[call.initiating]
         /\ Len(p) > 1 => Super[p[Len(p) - 1]] = Highest(p)
<1>1. /\ Len(p) \in Nat /\ Len(p) >= 1 /\ Highest(p) = p[Len(p)]
      /\ \A i \in 1 .. Len(p) : p[i] \in Classes
      BY EmptySeq DEF Highest
<1>2. Len(p) \in 1 .. Len(p) /\ 1 \in 1 .. Len(p)
      BY <1>1
<1>3. p[1] = call.initiating /\ \A i \in 1 .. Len(p) - 1 : Super[p[i]] = p[i + 1]
      BY DEF PathOf
<1>4. ASSUME NEW i \in 1 .. Len(p) PROVE depth[Highest(p)] <= depth[p[i]]
  <2>1. depth[Highest(p)] \in Nat /\ depth[p[i]] \in Nat
        BY <1>1, <1>2, DepthFacts
  <2>2. i < Len(p) => depth[p[Len(p)]] < depth[p[i]]
        BY <1>1, <1>2 DEF PathOf
  <2>3. i = Len(p) \/ i < Len(p)
        BY <1>1
  <2> QED
        BY <1>1, <2>1, <2>2, <2>3
<1>5. \A c \in Classes : depth[c] < depth[Highest(p)] => ~ OnPath(p, c)
  <2> SUFFICES ASSUME NEW c \in Classes, depth[c] < depth[Highest(p)], NEW i \in 1 .. Len(p), p[i] = c
               PROVE  FALSE
        BY DEF OnPath
  <2>1. depth[Highest(p)] \in Nat /\ depth[c] \in Nat
        BY <1>1, <1>2, DepthFacts
  <2> QED
        BY <1>4, <2>1
<1>6. Len(p) > 1 => Len(p) - 1 \in 1 .. Len(p) - 1 /\ (Len(p) - 1) + 1 = Len(p)
      BY <1>1
<1>7. OnPath(p, Highest(p))
      BY <1>1, <1>2 DEF OnPath
<1> QED
      BY <1>1, <1>2, <1>3, <1>4, <1>5, <1>6, <1>7

(* A load that may fail is that of a class nobody extends.                 *)
LEMMA FailsAlone ==
  ASSUME NEW E, NEW G, LoadsIn(G, E), NEW depth, Descends(depth), NEW p \in Seq(Classes),
         NEW call \in Calls, PathOf(p, call, depth), p # <<>>, Highest(p) \notin G
  PROVE  Len(p) = 1 /\ call.initiating = Highest(p) /\ call.initiating \notin G
<1>1. /\ Len(p) \in Nat /\ Len(p) >= 1 /\ Highest(p) = p[Len(p)] /\ p[1] = call.initiating
      /\ \A i \in 1 .. Len(p) : p[i] \in Classes
      /\ Len(p) > 1 => Super[p[Len(p) - 1]] = Highest(p)
      BY OnPathDepth
<1>2. \A c \in Classes : Super[c] # NIL => Super[c] \in G
      BY DEF LoadsIn
<1>3. Highest(p) \in Classes /\ Highest(p) # NIL
      BY OnPathDepth, ConstantFacts
<1>4. ~ (Len(p) > 1)
  <2> SUFFICES ASSUME Len(p) > 1 PROVE FALSE
      OBVIOUS
  <2>1. Len(p) - 1 \in 1 .. Len(p)
        BY <1>1
  <2>2. p[Len(p) - 1] \in Classes /\ Super[p[Len(p) - 1]] = Highest(p)
        BY <1>1, <2>1
  <2> QED
        BY <1>2, <1>3, <2>2
<1>5. Len(p) = 1
  <2>1. PICK n \in Nat : n = Len(p)
        BY <1>1
  <2>2. n >= 1 /\ ~ (n > 1)
        BY <1>1, <1>4, <2>1
  <2>3. n = 1
        BY <2>2
  <2> QED
        BY <2>1, <2>3
<1> QED
      BY <1>1, <1>5

(* What a class names is neither being loaded nor held.                    *)
LEMMA NamedUntouched ==
  ASSUME NEW P, NEW G, NEW depth, PathsInv(P, G, depth), Descends(depth), LoadsInv, loads # <<>>,
         NEW c \in Classes, depth[c] <= depth[current.initiating],
         \A i \in 1 .. Len(P[1]) : depth[c] <= depth[P[1][i]],
         NEW n \in Named(c)
  PROVE  n \in Classes /\ depth[n] < depth[c] /\ IsWhole(n) /\ status[n] \notin {"LOADING", "LOADED"}
<1>1. n \in Classes /\ depth[n] < depth[c] /\ depth[c] \in Nat /\ depth[n] \in Nat
      BY DepthFacts
<1>2. current.initiating \in Classes /\ depth[current.initiating] \in Nat
      BY CallFacts, DepthFacts
<1>3. depth[n] <= depth[current.initiating]
      BY <1>1, <1>2
<1>4. ~ OnPath(P[1], n)
  <2> SUFFICES ASSUME NEW i \in 1 .. Len(P[1]), P[1][i] = n PROVE FALSE
      BY DEF OnPath
  <2> QED
      BY <1>1
<1> QED
      BY <1>1, <1>3, <1>4, Untouched

LEMMA VerdictFacts ==
  /\ \A s \in {"ERROR", "LOADED"} : Verdict(s) = "throw"
  /\ Verdict("RAW") = "load" /\ Verdict("LOADING") = "fatal"
  /\ \A s \in {"LINKED", "VERIFIED", "READY"} : Verdict(s) = "link"
BY DEF Verdict

(* A path with the next class on it.                                       *)
LEMMA LongerPath ==
  ASSUME NEW depth, Descends(depth), NEW p \in Seq(Classes), NEW call \in Calls,
         PathOf(p, call, depth), NEW c \in Classes,
         c = IF p = <<>> THEN call.initiating ELSE Super[Highest(p)],
         NEW r \in Calls, r.initiating = call.initiating
  PROVE  /\ Append(p, c) \in Seq(Classes) /\ PathOf(Append(p, c), r, depth)
         /\ Len(Append(p, c)) = Len(p) + 1 /\ Highest(Append(p, c)) = c
         /\ Append(p, c) # <<>>
         /\ \A i \in 1 .. Len(p) : Append(p, c)[i] = p[i]
         /\ Append(p, c)[Len(p) + 1] = c
         /\ depth[c] <= depth[call.initiating]
         /\ \A i \in 1 .. Len(p) : depth[c] < depth[p[i]]
<1> DEFINE q == Append(p, c)
<1>1. /\ q \in Seq(Classes) /\ Len(q) = Len(p) + 1 /\ Len(p) \in Nat
      /\ \A i \in 1 .. Len(p) : q[i] = p[i] /\ p[i] \in Classes
      /\ q[Len(p) + 1] = c /\ q # <<>>
  <2>1. Len(p) \in Nat /\ \A i \in 1 .. Len(p) : p[i] \in Classes
        OBVIOUS
  <2>2. /\ q \in Seq(Classes) /\ Len(q) = Len(p) + 1 /\ q[Len(p) + 1] = c
        /\ \A i \in 1 .. Len(p) : q[i] = p[i]
        BY PushFacts
  <2>3. q # <<>>
        BY <2>1, <2>2
  <2> QED
        BY <2>1, <2>2, <2>3
<1>2. p = <<>> <=> Len(p) = 0
      BY EmptySeq
<1> HIDE DEF q
<1>3. call.initiating \in Classes /\ depth[call.initiating] \in Nat /\ depth[c] \in Nat
      BY DepthFacts DEF Calls
<1>4. ASSUME p # <<>>
      PROVE  /\ p[1] = call.initiating /\ Super[p[Len(p)]] = c /\ p[Len(p)] = Highest(p)
             /\ depth[c] < depth[Highest(p)] /\ depth[Highest(p)] \in Nat
             /\ \A i \in 1 .. Len(p) : depth[Highest(p)] <= depth[p[i]]
             /\ depth[Highest(p)] <= depth[call.initiating]
  <2>1. /\ p[1] = call.initiating /\ p[Len(p)] = Highest(p) /\ Highest(p) \in Classes
        /\ \A i \in 1 .. Len(p) : depth[Highest(p)] <= depth[p[i]]
        /\ depth[Highest(p)] <= depth[call.initiating]
        BY <1>4, OnPathDepth
  <2>2. Super[Highest(p)] = c /\ c # NIL
        BY <1>4, ConstantFacts
  <2>3. c \in Named(Highest(p))
        BY <2>1, <2>2, NamedFacts
  <2> QED
        BY <2>1, <2>2, <2>3, DepthFacts
<1>5. depth[c] <= depth[call.initiating]
  <2>1. CASE p = <<>>
        BY <1>3, <2>1
  <2>2. CASE p # <<>>
        BY <1>3, <1>4, <2>2
  <2> QED
        BY <2>1, <2>2
<1>6. ASSUME NEW i \in 1 .. Len(p) PROVE depth[c] < depth[p[i]]
  <2>1. p # <<>>
        BY <1>1, <1>2
  <2>2. depth[p[i]] \in Nat
        BY <1>1, DepthFacts
  <2> QED
        BY <1>3, <1>4, <2>1, <2>2
<1>7. q[1] = r.initiating
  <2>1. CASE p = <<>>
        BY <1>1, <1>2, <2>1
  <2>2. CASE p # <<>>
    <3>1. 1 \in 1 .. Len(p)
          BY <1>1, <1>2, <2>2
    <3> QED
          BY <1>1, <1>4, <2>2, <3>1
  <2> QED
        BY <2>1, <2>2
<1>8. ASSUME NEW i \in 1 .. Len(q) - 1 PROVE Super[q[i]] = q[i + 1]
  <2>1. i \in 1 .. Len(p) /\ p # <<>>
        BY <1>1, <1>2
  <2>2. CASE i = Len(p)
        BY <1>1, <1>4, <2>1, <2>2
  <2>3. CASE i # Len(p)
    <3>1. i \in 1 .. Len(p) - 1 /\ i + 1 \in 1 .. Len(p)
          BY <1>1, <2>1, <2>3
    <3>2. Super[p[i]] = p[i + 1]
          BY <3>1 DEF PathOf
    <3> QED
          BY <1>1, <2>1, <3>1, <3>2
  <2> QED
        BY <2>2, <2>3
<1>9. ASSUME NEW i \in 1 .. Len(q), NEW j \in 1 .. Len(q), j < i PROVE depth[q[i]] < depth[q[j]]
  <2>1. j \in 1 .. Len(p)
        BY <1>1, <1>9
  <2>2. CASE i = Len(p) + 1
        BY <1>1, <1>6, <2>1, <2>2
  <2>3. CASE i # Len(p) + 1
    <3>1. i \in 1 .. Len(p)
          BY <1>1, <2>3
    <3>2. depth[p[i]] < depth[p[j]]
          BY <1>9, <2>1, <3>1 DEF PathOf
    <3> QED
          BY <1>1, <2>1, <3>1, <3>2
  <2> QED
        BY <2>2, <2>3
<1>10. PathOf(q, r, depth)
       BY <1>7, <1>8, <1>9 DEF PathOf
<1>11. Highest(q) = c
       BY <1>1 DEF Highest
<1> QED
      BY <1>1, <1>5, <1>6, <1>10, <1>11 DEF q

LEMMA ShortPath ==
  ASSUME NEW depth, NEW c \in Classes, NEW r \in Calls, r.initiating = c
  PROVE  /\ <<c>> \in Seq(Classes) /\ Len(<<c>>) = 1 /\ PathOf(<<c>>, r, depth) /\ OnPath(<<c>>, c)
<1>1. <<c>> \in Seq(Classes) /\ Len(<<c>>) = 1 /\ <<c>>[1] = c /\ 1 \in 1 .. Len(<<c>>)
      OBVIOUS
<1>2. \A i \in 1 .. Len(<<c>>) : i = 1
      OBVIOUS
<1>3. \A i \in 1 .. Len(<<c>>) - 1 : FALSE
      OBVIOUS
<1>4. \A i, j \in 1 .. Len(<<c>>) : ~ (j < i)
      OBVIOUS
<1>5. PathOf(<<c>>, r, depth)
      BY <1>1, <1>3, <1>4 DEF PathOf
<1>6. OnPath(<<c>>, c)
      BY <1>1 DEF OnPath
<1> QED
      BY <1>1, <1>5, <1>6

(* The class is loaded.                                                    *)
LEMMA PathsLoaded ==
  ASSUME NEW E, NEW G, NEW depth, Below(E, G, depth), NEW P, PathsInv(P, G, depth),
         \A x \in Classes : status[x] = "ERROR" => x \in E,
         LoadsInv, LoaderTypes, IsIn("load"), loads # <<>>, NEW c \in Classes, c = current.clazz,
         status' = [status EXCEPT ![c] = "LOADED"],
         superClass' = [superClass EXCEPT ![c] = Super[c]],
         NEW r \in Calls, loads' = [loads EXCEPT ![1] = r], r.initiating = current.initiating,
         r.iface = current.iface,
         Super[c] = NIL => r.phase = "link",
         Super[c] # NIL => r.clazz = Super[c] /\ r.phase = Verdict(status'[Super[c]])
  PROVE  \E Q : PathsInv(Q, G, depth)'
<1>1. ErrorsIn(E, G) /\ LoadsIn(G, E) /\ Descends(depth)
      BY DEF Below
<1>2. PICK p \in Seq(Classes) : p = P[1]
      BY PathFacts
<1>3. PathOf(p, current, depth) /\ Innermost(p, current, G)
      BY <1>2, PathFacts
<1>4. current \in Calls /\ current.phase = "load" /\ current.initiating \in Classes
      BY CallFacts
<1>5. /\ Held(p) /\ current.iface = 1
      /\ c = IF p = <<>> THEN current.initiating ELSE Super[Highest(p)]
      BY <1>3, <1>4 DEF Innermost
<1>6. status[c] = "RAW"
      BY DEF LoadsInv
<1> DEFINE q == Append(p, c)
<1>7. /\ q \in Seq(Classes) /\ PathOf(q, r, depth) /\ Len(q) = Len(p) + 1 /\ Highest(q) = c
      /\ q # <<>> /\ Len(p) \in Nat
      /\ \A i \in 1 .. Len(p) : q[i] = p[i]
      /\ q[Len(p) + 1] = c
      /\ depth[c] <= depth[current.initiating]
      /\ \A i \in 1 .. Len(p) : depth[c] < depth[p[i]]
  <2>1. PICK call \in Calls : call = current
        BY <1>4
  <2>2. /\ PathOf(p, call, depth) /\ r.initiating = call.initiating
        /\ c = IF p = <<>> THEN call.initiating ELSE Super[Highest(p)]
        BY <1>3, <1>5, <2>1
  <2>3. Len(p) \in Nat
        OBVIOUS
  <2> QED
        BY <1>1, <2>1, <2>2, <2>3, LongerPath
<1> HIDE DEF q
<1>8. \A i \in 1 .. Len(p) : p[i] \in Classes /\ depth[c] <= depth[p[i]]
  <2>1. \A i \in 1 .. Len(p) : p[i] \in Classes
        OBVIOUS
  <2> QED
        BY <1>1, <1>7, <2>1, DepthFacts
<1>9. status'[c] = "LOADED" /\ superClass'[c] = Super[c]
      BY DEF LoaderTypes
<1>10. \A x \in Classes : x # c => status'[x] = status[x] /\ superClass'[x] = superClass[x]
       BY DEF LoaderTypes
<1>11. ChangesOnly(c)
       BY <1>6, <1>9, <1>10 DEF ChangesOnly, Settled, IsUnlinked
<1>12. Held(q)'
  <2> SUFFICES ASSUME NEW i \in 1 .. Len(q)
               PROVE  status'[q[i]] = "LOADED" /\ superClass'[q[i]] = Super[q[i]]
      BY DEF Held
  <2>1. CASE i = Len(p) + 1
        BY <1>7, <1>9, <2>1
  <2>2. CASE i # Len(p) + 1
    <3>1. i \in 1 .. Len(p)
          BY <1>7, <2>2
    <3>2. status[p[i]] = "LOADED" /\ superClass[p[i]] = Super[p[i]]
          BY <1>5, <3>1 DEF Held
    <3> QED
          BY <1>6, <1>7, <1>8, <1>10, <3>1, <3>2
  <2> QED
        BY <2>1, <2>2
<1>13. Interfaces[c] \in Seq(Classes) /\ Len(Interfaces[c]) \in Nat
       BY ConstantFacts
<1>14. Innermost(q, r, G)'
  <2>1. CASE Super[c] = NIL
    <3>1. \A j \in 1 .. r.iface - 1 : FALSE
          BY <1>5
    <3>2. LinkOK(q, r)'
          BY <1>5, <1>7, <1>13, <2>1, <3>1 DEF LinkOK
    <3> QED
          BY <1>12, <2>1, <3>2 DEF Innermost
  <2>2. CASE Super[c] # NIL
    <3>1. PICK s \in Classes : s = Super[c]
          BY <2>2, ConstantFacts
    <3>2. s \in Named(c)
          BY <2>2, <3>1, NamedFacts
    <3>3. /\ s # c /\ status[s] \in Statuses \ {"LOADING", "LOADED"}
      <4>1. \A i \in 1 .. Len(P[1]) : depth[c] <= depth[P[1][i]]
            BY <1>2, <1>8
      <4>2. depth[s] < depth[c] /\ status[s] \notin {"LOADING", "LOADED"}
            BY <1>1, <1>7, <3>2, <4>1, NamedUntouched
      <4>3. depth[c] \in Nat
            BY <1>1, DepthFacts
      <4> QED
            BY <4>2, <4>3 DEF LoaderTypes
    <3>4. r.clazz = s /\ r.phase = Verdict(status[s]) /\ status'[s] = status[s]
          BY <1>10, <2>2, <3>1, <3>3
    <3>5. CASE status[s] = "RAW"
          BY <1>5, <1>7, <1>12, <3>1, <3>4, <3>5, VerdictFacts DEF Innermost
    <3>6. CASE status[s] \in {"LINKED", "VERIFIED", "READY"}
      <4>1. \A j \in 1 .. r.iface - 1 : FALSE
            BY <1>5
      <4>2. ~ IsUnlinked(Super[c])'
            BY <3>1, <3>4, <3>6 DEF IsUnlinked
      <4>3. LinkOK(q, r)'
            BY <1>5, <1>7, <1>13, <4>1, <4>2 DEF LinkOK, IsUnlinked
      <4> QED
            BY <1>12, <3>4, <3>6, <4>3, VerdictFacts DEF Innermost
    <3>7. CASE status[s] = "ERROR"
      <4>1. c \notin G
            BY <1>1, <3>2, <3>7 DEF LoadsIn
      <4>2. p = <<>>
        <5>1. SUFFICES ASSUME p # <<>> PROVE FALSE
              OBVIOUS
        <5>2. Len(p) \in 1 .. Len(p) /\ Highest(p) = p[Len(p)]
              BY <5>1, <1>7, EmptySeq DEF Highest
        <5>3. Highest(p) \in Classes /\ Super[Highest(p)] = c /\ c # NIL
              BY <1>5, <1>8, <5>1, <5>2, ConstantFacts
        <5>4. \A x \in Classes : Super[x] # NIL => Super[x] \in G
              BY <1>1 DEF LoadsIn
        <5> QED
              BY <4>1, <5>3, <5>4
      <4>3. Len(q) <= 1 /\ r.initiating = c
        <5>1. Len(p) = 0
              BY <4>2
        <5> QED
              BY <1>5, <1>7, <4>2, <5>1
      <4> QED
            BY <1>9, <3>4, <3>7, <4>1, <4>3, VerdictFacts DEF Innermost
    <3> QED
          BY <3>3, <3>5, <3>6, <3>7 DEF Statuses
  <2> QED
        BY <2>1, <2>2
<1>15. OnPath(q, c) /\ \A x \in Classes : OnPath(p, x) => OnPath(q, x)
  <2>1. Len(p) + 1 \in 1 .. Len(q) /\ \A i \in 1 .. Len(p) : i \in 1 .. Len(q)
        BY <1>7
  <2> QED
        BY <1>7, <2>1 DEF OnPath
<1>16. r.phase # "done"
  <2>1. \A s : Verdict(s) # "done"
        BY DEF Verdict
  <2>2. CASE Super[c] = NIL
        BY <2>2
  <2>3. CASE Super[c] # NIL
        BY <2>1, <2>3
  <2> QED
        BY <2>2, <2>3
<1> QED
      BY <1>1, <1>2, <1>7, <1>11, <1>14, <1>15, <1>16, Continues

(* A load that fails, or that links, where nothing but c was worse.        *)
LEMMA PathsFail ==
  ASSUME NEW E, NEW G, NEW depth, Below(E, G, depth), NEW P, PathsInv(P, G, depth),
         LoadsInv, LoaderTypes, IsIn("load"), loads # <<>>, NEW c \in Classes, c = current.clazz,
         c \in MayFailToLoad, status'[c] \in {"RAW", "LOADING"},
         \A x \in Classes : x # c => status'[x] = status[x] /\ superClass'[x] = superClass[x],
         NEW r \in Calls, loads' = [loads EXCEPT ![1] = r], r.initiating = current.initiating,
         r.phase = "throw"
  PROVE  \E Q : PathsInv(Q, G, depth)'
<1>1. LoadsIn(G, E) /\ Descends(depth)
      BY DEF Below
<1>2. PICK p \in Seq(Classes) : p = P[1]
      BY PathFacts
<1>3. Innermost(p, current, G)
      BY <1>2, PathFacts
<1>4. current \in Calls /\ current.phase = "load" /\ current.initiating \in Classes
      BY CallFacts
<1>5. c = IF p = <<>> THEN current.initiating ELSE Super[Highest(p)]
      BY <1>3, <1>4 DEF Innermost
<1>6. c \notin G
      BY <1>1 DEF LoadsIn
<1>7. p = <<>>
  <2>1. SUFFICES ASSUME p # <<>> PROVE FALSE
        OBVIOUS
  <2>2. Highest(p) \in Classes
        BY <2>1, EmptySeq DEF Highest
  <2>3. Super[Highest(p)] = c /\ c # NIL
        BY <1>5, <2>1, ConstantFacts
  <2>4. \A x \in Classes : Super[x] # NIL => Super[x] \in G
        BY <1>1 DEF LoadsIn
  <2> QED
        BY <1>6, <2>2, <2>3, <2>4
<1>8. r.initiating = c
      BY <1>5, <1>7
<1>9. <<c>> \in Seq(Classes) /\ Len(<<c>>) = 1 /\ PathOf(<<c>>, r, depth) /\ OnPath(<<c>>, c)
      BY <1>8, ShortPath
<1>10. Innermost(<<c>>, r, G)'
       BY <1>6, <1>8, <1>9 DEF Innermost
<1>11. ChangesOnly(c)
  <2>1. status[c] = "RAW"
        BY DEF LoadsInv
  <2> QED
        BY <2>1 DEF ChangesOnly, Settled, IsUnlinked
<1>12. depth[c] <= depth[current.initiating]
  <2>1. depth[c] \in Nat
        BY <1>1, DepthFacts
  <2> QED
        BY <1>5, <1>7, <2>1
<1>13. \A x \in Classes : x = c \/ OnPath(P[1], x) => OnPath(<<c>>, x)
  <2>1. \A x \in Classes : ~ OnPath(P[1], x)
        BY <1>2, <1>7 DEF OnPath
  <2> QED
        BY <1>9, <2>1
<1> QED
      BY <1>1, <1>9, <1>10, <1>11, <1>12, <1>13, Continues

LEMMA PathsLoadRaw ==
  ASSUME NEW E, NEW G, NEW depth, Below(E, G, depth), NEW P, PathsInv(P, G, depth),
         \A x \in Classes : status[x] = "ERROR" => x \in E,
         LoadsInv, LoaderTypes, LoadRawClass
  PROVE  \E Q : PathsInv(Q, G, depth)'
<1>1. PICK c, s : c = current.clazz /\ s = Super[c]
      OBVIOUS
<1>2. IsIn("load")
      BY Zenon DEF LoadRawClass
<1>3. \/ /\ status' = [status EXCEPT ![c] = "LOADED"]
         /\ superClass' = [superClass EXCEPT ![c] = s]
         /\ IF s = NIL THEN Goto("link")
            ELSE loads' = [loads EXCEPT ![1].clazz = s, ![1].phase = Verdict(status'[s])]
      \/ /\ c \in MayFailToLoad
         /\ Goto("throw")
         /\ \/ UNCHANGED <<status, superClass>>
            \/ /\ status' = [status EXCEPT ![c] = "LOADING"]
               /\ \E named \in {NIL, s} : superClass' = [superClass EXCEPT ![c] = named]
      BY <1>1, Zenon DEF LoadRawClass
<1>4. /\ loads # <<>> /\ current \in Calls /\ current = loads[1] /\ c \in Classes
      /\ loads \in Seq(Calls) /\ 1 \in 1 .. Len(loads) /\ status[c] = "RAW"
      BY <1>1, <1>2, CallFacts DEF IsIn, Calls, LoadsInv
<1>5. s \in Classes \cup {NIL}
      BY <1>1, <1>4, ConstantFacts
<1>6. CASE /\ status' = [status EXCEPT ![c] = "LOADED"]
           /\ superClass' = [superClass EXCEPT ![c] = s]
           /\ IF s = NIL THEN Goto("link")
              ELSE loads' = [loads EXCEPT ![1].clazz = s, ![1].phase = Verdict(status'[s])]
  <2>1. CASE s = NIL
    <3>1. "link" \in Phases /\ Goto("link")
          BY <1>6, <2>1 DEF Phases
    <3>2. PICK r : r = [current EXCEPT !.phase = "link"]
          OBVIOUS
    <3>3. /\ r \in Calls /\ r.phase = "link" /\ r.iface = current.iface
          /\ r.initiating = current.initiating
          BY <1>4, <3>1, <3>2 DEF Calls
    <3>4. loads' = [loads EXCEPT ![1] = r]
          BY <1>4, <3>1, <3>2 DEF Goto
    <3> QED
          BY <1>1, <1>2, <1>4, <1>6, <2>1, <3>3, <3>4, PathsLoaded
  <2>2. CASE s # NIL
    <3>1. PICK v : v = Verdict(status'[s])
          OBVIOUS
    <3>2. PICK r : r = [current EXCEPT !.clazz = s, !.phase = v]
          OBVIOUS
    <3>3. v \in Phases
          BY <3>1, VerdictIsPhase
    <3>4. /\ r \in Calls /\ r.initiating = current.initiating /\ r.clazz = s /\ r.phase = v
          /\ r.iface = current.iface
      <4>1. PICK g \in Calls : g = current
            BY <1>4
      <4>2. r = [initiating |-> g.initiating, clazz |-> s, iface |-> g.iface, phase |-> v]
            BY <3>2, <4>1 DEF Calls
      <4> QED
            BY <1>5, <2>2, <3>3, <4>1, <4>2 DEF Calls
    <3>5. loads' = [loads EXCEPT ![1] = r]
          BY <1>4, <1>6, <2>2, <3>1, <3>2
    <3> QED
          BY <1>1, <1>2, <1>4, <1>6, <2>2, <3>1, <3>4, <3>5, PathsLoaded
  <2> QED
        BY <2>1, <2>2
<1>7. CASE /\ c \in MayFailToLoad
           /\ Goto("throw")
           /\ \/ UNCHANGED <<status, superClass>>
              \/ /\ status' = [status EXCEPT ![c] = "LOADING"]
                 /\ \E named \in {NIL, s} : superClass' = [superClass EXCEPT ![c] = named]
  <2>1. "throw" \in Phases
        BY DEF Phases
  <2>2. PICK r \in Calls : /\ loads' = [loads EXCEPT ![1] = r] /\ r.phase = "throw"
                           /\ r.initiating = current.initiating
        BY <1>4, <1>7, <2>1, GotoCall
  <2>3. /\ status'[c] \in {"RAW", "LOADING"}
        /\ \A x \in Classes : x # c => status'[x] = status[x] /\ superClass'[x] = superClass[x]
    <3>1. CASE UNCHANGED <<status, superClass>>
          BY <1>4, <3>1
    <3>2. CASE /\ status' = [status EXCEPT ![c] = "LOADING"]
               /\ \E named \in {NIL, s} : superClass' = [superClass EXCEPT ![c] = named]
          BY <1>4, <3>2 DEF LoaderTypes
    <3> QED
          BY <1>7, <3>1, <3>2
  <2> QED
        BY <1>1, <1>2, <1>4, <1>7, <2>2, <2>3, PathsFail
<1> QED
      BY <1>3, <1>6, <1>7

(* The innermost call links.                                               *)
LEMMA Links ==
  ASSUME NEW G, NEW depth, NEW P, PathsInv(P, G, depth), Descends(depth),
         LoadsInv, LoaderTypes, IsIn("link"), loads # <<>>, NEW p \in Seq(Classes), p = P[1]
  PROVE  /\ PathOf(p, current, depth) /\ Held(p) /\ LinkOK(p, current)
         /\ current \in Calls /\ current.initiating \in Classes /\ current.phase = "link"
         /\ p # <<>> => /\ linked = Highest(p) /\ linked \in Classes /\ linked # NIL
                        /\ depth[linked] <= depth[current.initiating] /\ OnPath(p, linked)
                        /\ \A i \in 1 .. Len(p) : depth[linked] <= depth[p[i]]
                        /\ \A n \in Named(linked) : n \in Classes /\ status[n] \notin {"LOADING", "LOADED"}
         /\ p = <<>> => linked = NIL
<1>1. current \in Calls /\ current.initiating \in Classes /\ current.phase = "link"
      BY CallFacts
<1>2. PathOf(p, current, depth) /\ Innermost(p, current, G)
      BY PathFacts
<1>3. Held(p) /\ LinkOK(p, current)
      BY <1>1, <1>2 DEF Innermost
<1>4. linked = IF p = <<>> THEN NIL ELSE Highest(p)
      BY <1>1, <1>2, <1>3, LinkedIs
<1>5. ASSUME p # <<>>
      PROVE  /\ linked = Highest(p) /\ linked \in Classes /\ linked # NIL
             /\ depth[linked] <= depth[current.initiating] /\ OnPath(p, linked)
             /\ \A i \in 1 .. Len(p) : depth[linked] <= depth[p[i]]
  <2>1. PICK call \in Calls : call = current
        BY <1>1
  <2>2. PathOf(p, call, depth)
        BY <1>2, <2>1
  <2>3. /\ Highest(p) \in Classes /\ depth[Highest(p)] <= depth[call.initiating]
        /\ OnPath(p, Highest(p))
        /\ \A i \in 1 .. Len(p) : depth[Highest(p)] <= depth[p[i]]
        BY <1>5, <2>2, OnPathDepth
  <2> QED
        BY <1>4, <1>5, <2>1, <2>3, ConstantFacts
<1>6. ASSUME p # <<>>, NEW n \in Named(linked)
      PROVE  n \in Classes /\ status[n] \notin {"LOADING", "LOADED"}
  <2>1. PICK h \in Classes : h = linked
        BY <1>5, <1>6
  <2>2. n \in Named(h) /\ depth[h] <= depth[current.initiating]
        /\ \A i \in 1 .. Len(P[1]) : depth[h] <= depth[P[1][i]]
        BY <1>5, <1>6, <2>1
  <2> QED
        BY <2>2, NamedUntouched
<1> QED
      BY <1>1, <1>2, <1>3, <1>4, <1>5, <1>6

(* The innermost call changes no class.                                    *)
LEMMA SameClassesOnly ==
  ASSUME UNCHANGED <<status, superClass>>, NEW d
  PROVE  /\ ChangesOnly(d)
         /\ \A p : Held(p)' <=> Held(p)
         /\ \A p, call : LinkOK(p, call)' <=> LinkOK(p, call)
         /\ \A c : IsWhole(c)' <=> IsWhole(c)
<1>1. ChangesOnly(d)
      BY DEF ChangesOnly, IsUnlinked
<1>2. \A p : Held(p)' <=> Held(p)
      BY DEF Held
<1>3. \A p, call : LinkOK(p, call)' <=> LinkOK(p, call)
      BY DEF LinkOK, IsUnlinked
<1>4. \A c : IsWhole(c)' <=> IsWhole(c)
      BY DEF IsWhole
<1> QED
      BY <1>1, <1>2, <1>3, <1>4

(* It gives up.                                                            *)
LEMMA PathsThrow ==
  ASSUME NEW E, NEW G, NEW depth, Below(E, G, depth), NEW P, PathsInv(P, G, depth),
         LoadsInv, LoaderTypes, IsIn("link"), loads # <<>>, NEW p \in Seq(Classes), p = P[1], p # <<>>,
         Highest(p) \notin G, UNCHANGED <<status, superClass>>, Goto("throw")
  PROVE  \E Q : PathsInv(Q, G, depth)'
<1>1. LoadsIn(G, E) /\ Descends(depth)
      BY DEF Below
<1>2. "throw" \in Phases
      BY DEF Phases
<1>3. PICK r \in Calls : /\ loads' = [loads EXCEPT ![1] = r] /\ r.phase = "throw"
                         /\ r.initiating = current.initiating
      BY <1>2, GotoCall
<1>4. /\ PathOf(p, current, depth) /\ Held(p)
      /\ current \in Calls /\ current.initiating \in Classes
      BY <1>1, Links
<1>5. PICK call \in Calls : call = current
      BY <1>4
<1>6. Len(p) = 1 /\ call.initiating = Highest(p) /\ call.initiating \notin G
      BY <1>1, <1>4, <1>5, FailsAlone
<1>7. status[call.initiating] = "LOADED"
  <2>1. Highest(p) = p[1] /\ 1 \in 1 .. Len(p)
        BY <1>6 DEF Highest
  <2> QED
        BY <1>4, <1>6, <2>1 DEF Held
<1>8. Innermost(p, r, G)'
      BY <1>3, <1>5, <1>6, <1>7 DEF Innermost
<1>9. PathOf(p, r, depth)
      BY <1>3, <1>4 DEF PathOf
<1>10. PICK d \in Classes : d = current.initiating
       BY <1>4
<1>11. ChangesOnly(d) /\ \A c : IsWhole(c)' <=> IsWhole(c)
       BY SameClassesOnly
<1>12. d = Highest(p) /\ depth[d] <= depth[current.initiating] /\ OnPath(p, d)
       BY <1>1, <1>4, <1>5, <1>6, <1>10, OnPathDepth
<1>13. \A c \in Classes : c = d \/ OnPath(P[1], c) => IsWhole(c)' \/ OnPath(p, c)
       BY <1>12
<1> QED
      BY <1>1, <1>3, <1>8, <1>9, <1>11, <1>12, <1>13, Continues

LEMMA PathsLinkFails ==
  ASSUME NEW E, NEW G, NEW depth, Below(E, G, depth), NEW P, PathsInv(P, G, depth),
         LoadsInv, LoaderTypes, LinkFails
  PROVE  \E Q : PathsInv(Q, G, depth)'
<1>1. LoadsIn(G, E) /\ Descends(depth)
      BY DEF Below
<1>2. IsIn("link") /\ linked # NIL /\ loads # <<>>
      BY DEF LinkFails, IsLinking, IsIn
<1>3. linked \in MayFailToLoad /\ Goto("throw") /\ UNCHANGED <<status, superClass>>
      BY DEF LinkFails
<1>4. PICK p \in Seq(Classes) : p = P[1]
      BY <1>2, PathFacts
<1>5. p # <<>> /\ linked = Highest(p)
      BY <1>1, <1>2, <1>4, Links
<1>6. Highest(p) \notin G
      BY <1>1, <1>3, <1>5 DEF LoadsIn
<1> QED
      BY <1>2, <1>3, <1>4, <1>5, <1>6, PathsThrow

(* The innermost call is over; the one that made it goes on with r.        *)
LEMMA PathsReturn ==
  ASSUME NEW P, NEW G, NEW depth, PathsInv(P, G, depth), Descends(depth), LoadsInv, loads # <<>>,
         Len(loads) > 1,
         NEW d \in Classes, ChangesOnly(d), depth[d] <= depth[current.initiating], IsWhole(d)',
         \A c \in Classes : OnPath(P[1], c) => c = d,
         NEW r \in Calls, r.initiating = loads[2].initiating, r.phase # "done",
         loads' \in Seq(Calls), Len(loads') = Len(loads) - 1, loads'[1] = r,
         \A k \in 2 .. Len(loads) - 1 : loads'[k] = loads[k + 1],
         Innermost(P[2], r, G)'
  PROVE  \E Q : PathsInv(Q, G, depth)'
<1> DEFINE Q == Tail(P)
<1>1. /\ P \in Seq(Seq(Classes)) /\ Len(P) = Len(loads) /\ Len(P) \in Nat /\ Len(P) >= 1
      /\ \A k \in 1 .. Len(loads) : P[k] \in Seq(Classes) /\ Len(P[k]) \in Nat
      /\ \A k \in 1 .. Len(loads) : \A i \in 1 .. Len(P[k]) : P[k][i] \in Classes
      /\ \A k \in 2 .. Len(loads) : Outer(P[k], loads[k], loads[k - 1]) /\ k \in 1 .. Len(loads)
      /\ \A k \in 2 .. Len(loads) : \A i \in 1 .. Len(P[k]) :
           depth[current.initiating] < depth[P[k][i]]
      /\ \A c \in Classes : IsWhole(c) \/ \E k \in 1 .. Len(loads) : OnPath(P[k], c)
      BY PathFacts
<1>2. P # <<>>
      BY <1>1
<1>3. /\ Q \in Seq(Seq(Classes)) /\ Len(Q) = Len(loads) - 1
      /\ \A k \in 1 .. Len(loads) - 1 : Q[k] = P[k + 1]
      BY <1>1, <1>2
<1>4. /\ \A k \in 1 .. Len(loads) - 1 : k + 1 \in 2 .. Len(loads) /\ k + 1 \in 1 .. Len(loads)
      /\ \A k \in 2 .. Len(loads) - 1 : k \in 1 .. Len(loads) - 1 /\ k - 1 \in 1 .. Len(loads) - 1
                                        /\ (k + 1) - 1 = k /\ (k - 1) + 1 = k
      /\ \A k \in 2 .. Len(loads) : k - 1 \in 1 .. Len(loads) - 1 /\ (k - 1) + 1 = k
      /\ 1 \in 1 .. Len(loads) - 1 /\ 1 + 1 = 2 /\ 2 \in 2 .. Len(loads)
      BY <1>1
<1> HIDE DEF Q
<1>5. \A k \in 1 .. Len(loads) - 1 : loads'[k].initiating = loads[k + 1].initiating
  <2> SUFFICES ASSUME NEW k \in 1 .. Len(loads) - 1 PROVE loads'[k].initiating = loads[k + 1].initiating
      OBVIOUS
  <2>1. CASE k = 1
        BY <1>4, <2>1
  <2>2. CASE k # 1
    <3>1. k \in 2 .. Len(loads) - 1
          BY <1>1, <2>2
    <3> QED
          BY <3>1
  <2> QED
        BY <2>1, <2>2
<1>6. current.initiating \in Classes
      BY CallFacts
<1>7. ASSUME NEW k \in 1 .. Len(loads) - 1 PROVE PathOf(Q[k], loads'[k], depth)
  <2>1. PathOf(P[k + 1], loads[k + 1], depth)
        BY <1>4 DEF PathsInv
  <2> QED
        BY <1>3, <1>5, <2>1 DEF PathOf
<1>8. Innermost(Q[1], loads[1], G)'
  <2>1. Q[1] = P[2]
        BY <1>3, <1>4
  <2>2. Innermost(P[2], loads[1], G)'
        OBVIOUS
  <2> QED
        BY <2>1, <2>2
<1>9. ASSUME NEW k \in 2 .. Len(loads) - 1 PROVE Outer(Q[k], loads[k], loads[k - 1])'
  <2>1. PICK q \in Seq(Classes), call \in Calls, in \in Calls :
          q = P[k + 1] /\ call = loads[k + 1] /\ in = loads[k]
        BY <1>1, <1>4, CallFacts
  <2>2. Q[k] = q /\ loads'[k] = call /\ loads'[k - 1].initiating = in.initiating
        BY <1>3, <1>4, <1>5, <2>1
  <2>3. Outer(q, call, in)
    <3>1. Outer(P[k + 1], loads[k + 1], loads[(k + 1) - 1])
          BY <1>1, <1>4
    <3> QED
          BY <1>4, <2>1, <3>1
  <2>4. \A i \in 1 .. Len(q) : q[i] # d
    <3>1. SUFFICES ASSUME NEW i \in 1 .. Len(q), q[i] = d PROVE FALSE
          OBVIOUS
    <3>2. depth[current.initiating] \in Nat /\ depth[d] \in Nat
          BY <1>6, DepthFacts
    <3>3. depth[current.initiating] < depth[d]
          BY <1>1, <1>4, <2>1, <3>1
    <3> QED
          BY <3>2, <3>3
  <2>5. Outer(q, call, in)'
        BY <2>3, <2>4, OuterKept
  <2>6. Held(q)' /\ LinkOK(q, call)'
        BY <2>5 DEF Outer
  <2>7. Held(Q[k])' /\ LinkOK(Q[k], loads[k])'
        BY <2>2, <2>6 DEF Held, LinkOK, IsUnlinked, Highest
  <2> QED
        BY <2>2, <2>3, <2>7 DEF Outer, Highest
<1>10. ASSUME NEW k \in 2 .. Len(loads) - 1, NEW a \in 1 .. k - 1, NEW i \in 1 .. Len(Q[k])
       PROVE  depth[loads'[a].initiating] < depth[Q[k][i]]
  <2>1. a \in 1 .. Len(loads) - 1 /\ a + 1 \in 1 .. (k + 1) - 1 /\ k + 1 \in 2 .. Len(loads)
        BY <1>1, <1>4
  <2>2. i \in 1 .. Len(P[k + 1]) /\ Q[k] = P[k + 1]
        BY <1>3, <1>4
  <2>3. depth[loads[a + 1].initiating] < depth[P[k + 1][i]]
        BY <2>1, <2>2 DEF PathsInv
  <2> QED
        BY <1>5, <2>1, <2>2, <2>3
<1>11. ASSUME NEW c \in Classes
       PROVE  IsWhole(c)' \/ \E k \in 1 .. Len(loads) - 1 : OnPath(Q[k], c)
  <2>1. CASE c = d
        BY <2>1
  <2>2. CASE c # d /\ IsWhole(c)
        BY <2>2, WholeKept
  <2>3. CASE c # d /\ \E k \in 1 .. Len(loads) : OnPath(P[k], c)
    <3>1. PICK k \in 1 .. Len(loads) : OnPath(P[k], c)
          BY <2>3
    <3>2. k \in 2 .. Len(loads)
      <4>1. k # 1
            BY <2>3, <3>1
      <4> QED
            BY <1>1, <4>1
    <3>3. k - 1 \in 1 .. Len(loads) - 1 /\ Q[k - 1] = P[k]
          BY <1>3, <1>4, <3>2
    <3> QED
          BY <3>1, <3>3
  <2> QED
        BY <1>1, <2>1, <2>2, <2>3
<1>12. ~ IsIn("done")'
  <2>1. loads' # <<>> => ~ (loads'[1].phase = "done")
        OBVIOUS
  <2> QED
        BY <2>1 DEF IsIn, current
<1>13. \A c \in Classes : IsWhole(c)' \/ \E k \in 1 .. Len(loads') : \E i \in 1 .. Len(Q[k]) : Q[k][i] = c
       BY <1>11 DEF OnPath
<1>14. PathsInv(Q, G, depth)'
       BY <1>3, <1>7, <1>8, <1>9, <1>10, <1>12, <1>13 DEF PathsInv
<1> QED
      BY <1>14

(* It calls itself for i, the interface it is at.                          *)
LEMMA PathsCall ==
  ASSUME NEW P, NEW G, NEW depth, PathsInv(P, G, depth), Descends(depth), LoadsInv, LoaderTypes,
         IsIn("link"), loads # <<>>, UNCHANGED <<status, superClass>>,
         NEW p \in Seq(Classes), p = P[1], p # <<>>,
         current.iface <= Len(Interfaces[Highest(p)]),
         NEW i \in Classes, i = Interfaces[Highest(p)][current.iface],
         loads' = <<Call(i)>> \o loads
  PROVE  \E Q : PathsInv(Q, G, depth)'
<1>1. /\ P \in Seq(Seq(Classes)) /\ Len(P) = Len(loads) /\ Len(P) \in Nat /\ Len(P) >= 1
      /\ \A k \in 1 .. Len(loads) : P[k] \in Seq(Classes) /\ Len(P[k]) \in Nat
      /\ \A k \in 1 .. Len(loads) : \A j \in 1 .. Len(P[k]) : P[k][j] \in Classes
      /\ \A k \in 2 .. Len(loads) : Outer(P[k], loads[k], loads[k - 1]) /\ k \in 1 .. Len(loads)
      /\ \A k \in 2 .. Len(loads) : \A j \in 1 .. Len(P[k]) :
           depth[current.initiating] < depth[P[k][j]]
      /\ \A c \in Classes : IsWhole(c) \/ \E k \in 1 .. Len(loads) : OnPath(P[k], c)
      BY PathFacts
<1>2. PICK h \in Classes : h = Highest(p)
      BY EmptySeq DEF Highest
<1>3. /\ PathOf(p, current, depth) /\ Held(p) /\ LinkOK(p, current)
      /\ current \in Calls /\ current.initiating \in Classes /\ current.phase = "link"
      /\ depth[h] <= depth[current.initiating]
      /\ \A j \in 1 .. Len(p) : depth[h] <= depth[p[j]]
  <2>1. /\ PathOf(p, current, depth) /\ Held(p) /\ LinkOK(p, current)
        /\ current \in Calls /\ current.initiating \in Classes /\ current.phase = "link"
        /\ linked = Highest(p) /\ depth[linked] <= depth[current.initiating]
        /\ \A j \in 1 .. Len(p) : depth[linked] <= depth[p[j]]
        BY Links
  <2> QED
        BY <1>2, <2>1
<1>4. i \in Named(h)
  <2>1. current.iface \in 1 .. Len(Interfaces[h])
    <3>1. current.iface \in Nat \ {0} /\ Len(Interfaces[h]) \in Nat
          BY <1>2, <1>3, ConstantFacts DEF Calls
    <3> QED
          BY <1>2, <3>1
  <2> QED
        BY <1>2, <2>1, NamedFacts
<1>5. depth[i] < depth[h] /\ depth[h] \in Nat /\ depth[i] \in Nat
      BY <1>4, DepthFacts
<1>6. PICK r : r = Call(i)
      OBVIOUS
<1>7. /\ r \in Calls /\ r.initiating = i /\ r.clazz = i /\ r.phase = "load" /\ r.iface = 1
      BY <1>6 DEF Call, Calls, Phases
<1>8. /\ loads' \in Seq(Calls) /\ Len(loads') = Len(loads) + 1 /\ loads'[1] = r
      /\ \A k \in 2 .. Len(loads) + 1 : loads'[k] = loads[k - 1] /\ k - 1 \in 1 .. Len(loads)
  <2>1. <<r>> \in Seq(Calls) /\ Len(<<r>>) = 1 /\ <<r>>[1] = r
        BY <1>7
  <2>2. loads \in Seq(Calls) /\ Len(loads) \in Nat
        BY CallFacts
  <2> QED
        BY <1>6, <2>1, <2>2
<1> DEFINE e == <<>>
           Q == <<e>> \o P
<1>9. e \in Seq(Classes) /\ Len(e) = 0
      OBVIOUS
<1>10. /\ Q \in Seq(Seq(Classes)) /\ Len(Q) = Len(loads) + 1 /\ Q[1] = e
       /\ \A k \in 2 .. Len(loads) + 1 : Q[k] = P[k - 1]
  <2>1. <<e>> \in Seq(Seq(Classes)) /\ Len(<<e>>) = 1 /\ <<e>>[1] = e
        BY <1>9
  <2> HIDE DEF e
  <2> QED
        BY <1>1, <2>1
<1> HIDE DEF Q, e
<1>11. /\ \A k \in 2 .. Len(loads) + 1 : k - 1 \in 1 .. Len(loads)
       /\ \A k \in 1 .. Len(loads) : k + 1 \in 2 .. Len(loads) + 1 /\ (k + 1) - 1 = k
       /\ 1 \in 1 .. Len(loads) /\ loads[1] = current
       BY <1>1 DEF current
<1>12. ASSUME NEW k \in 1 .. Len(loads) + 1 PROVE PathOf(Q[k], loads'[k], depth)
  <2>1. CASE k = 1
    <3>1. PathOf(e, loads'[k], depth)
      <4>1. \A j \in 1 .. Len(e) : FALSE
            BY <1>9
      <4>2. e = <<>> /\ \A j \in 1 .. Len(e) - 1 : FALSE
            BY <1>9 DEF e
      <4> QED
            BY <4>1, <4>2 DEF PathOf
    <3> QED
          BY <1>10, <2>1, <3>1
  <2>2. CASE k # 1
    <3>1. k \in 2 .. Len(loads) + 1
          BY <1>1, <2>2
    <3>2. PathOf(P[k - 1], loads[k - 1], depth)
          BY <1>11, <3>1 DEF PathsInv
    <3> QED
          BY <1>8, <1>10, <3>1, <3>2
  <2> QED
        BY <2>1, <2>2
<1>13. Innermost(Q[1], loads[1], G)'
  <2>1. Held(e)'
        BY <1>9 DEF Held
  <2> QED
        BY <1>7, <1>8, <1>10, <2>1 DEF Innermost, e
<1>14. /\ \A q : Held(q)' <=> Held(q)
       /\ \A q, call : LinkOK(q, call)' <=> LinkOK(q, call)
       /\ \A c : IsWhole(c)' <=> IsWhole(c)
       BY SameClassesOnly
<1>15. ASSUME NEW k \in 2 .. Len(loads) + 1 PROVE Outer(Q[k], loads[k], loads[k - 1])'
  <2>1. PICK q, call, in : q = Q[k] /\ call = loads'[k] /\ in = loads'[k - 1]
        OBVIOUS
  <2>2. q = P[k - 1] /\ call = loads[k - 1] /\ k - 1 \in 1 .. Len(loads)
        BY <1>8, <1>10, <2>1
  <2>3. Outer(q, call, in)
    <3>1. CASE k = 2
      <4>1. q = p /\ call = current /\ in = r
            BY <1>8, <1>11, <2>1, <2>2, <3>1
      <4> QED
            BY <1>3, <1>7, <4>1 DEF Outer
    <3>2. CASE k # 2
      <4>1. k - 1 \in 2 .. Len(loads) + 1 /\ k - 1 \in 2 .. Len(loads)
            BY <1>1, <3>2
      <4>2. in = loads[(k - 1) - 1]
            BY <1>8, <2>1, <4>1
      <4> QED
            BY <1>1, <2>2, <4>1, <4>2
    <3> QED
          BY <3>1, <3>2
  <2>4. Held(q)' /\ LinkOK(q, call)'
        BY <1>14, <2>3 DEF Outer
  <2>5. Held(Q[k])' /\ LinkOK(Q[k], loads[k])'
    <3>1. Held(Q[k])'
          BY <2>1, <2>4 DEF Held
    <3>2. LinkOK(Q[k], loads[k])'
      <4>1. CASE q = <<>>
            BY <2>1, <2>4, <4>1 DEF LinkOK, IsUnlinked
      <4>2. CASE q # <<>>
            BY <2>1, <2>4, <4>2, Zenon DEF LinkOK, IsUnlinked, Highest
      <4> QED
            BY <4>1, <4>2
    <3> QED
          BY <3>1, <3>2
  <2> QED
        BY <2>1, <2>3, <2>5, Zenon DEF Outer, Highest
<1>16. ASSUME NEW k \in 2 .. Len(loads) + 1, NEW a \in 1 .. k - 1, NEW j \in 1 .. Len(Q[k])
       PROVE  depth[loads'[a].initiating] < depth[Q[k][j]]
  <2>1. PICK m \in 1 .. Len(loads) : m = k - 1 /\ Q[k] = P[m]
        BY <1>10, <1>11
  <2>2. P[m][j] \in Classes /\ j \in 1 .. Len(P[m])
        BY <1>1, <2>1
  <2>3. depth[P[m][j]] \in Nat /\ depth[current.initiating] \in Nat
        BY <1>3, <2>2, DepthFacts
  <2>4. CASE a = 1
    <3>1. loads'[a].initiating = i
          BY <1>7, <1>8, <2>4
    <3>2. CASE m = 1
      <4>1. depth[h] <= depth[P[m][j]]
            BY <1>3, <2>2, <3>2
      <4>2. PICK x \in Nat, y \in Nat, z \in Nat :
              x = depth[P[m][j]] /\ y = depth[h] /\ z = depth[i]
            BY <1>5, <2>3
      <4>3. z < y /\ y <= x
            BY <1>5, <4>1, <4>2
      <4>4. z < x
            BY <4>3
      <4> QED
            BY <2>1, <3>1, <4>2, <4>4
    <3>3. CASE m # 1
      <4>1. m \in 2 .. Len(loads)
            BY <1>1, <3>3
      <4>2. depth[current.initiating] < depth[P[m][j]]
            BY <1>1, <2>2, <4>1
      <4>3. depth[h] <= depth[current.initiating]
            BY <1>3
      <4>4. PICK x \in Nat, y \in Nat, z \in Nat, w \in Nat :
              /\ x = depth[P[m][j]] /\ y = depth[current.initiating]
              /\ z = depth[h] /\ w = depth[i]
            BY <1>5, <2>3
      <4>5. w < z /\ z <= y /\ y < x
            BY <1>5, <4>2, <4>3, <4>4
      <4>6. w < x
            BY <4>5
      <4> QED
            BY <2>1, <3>1, <4>4, <4>6
    <3> QED
          BY <3>2, <3>3
  <2>5. CASE a # 1
    <3>1. a \in 2 .. Len(loads) + 1 /\ a - 1 \in 1 .. m - 1 /\ m \in 2 .. Len(loads)
          BY <1>1, <2>1, <2>5
    <3>2. depth[loads[a - 1].initiating] < depth[P[m][j]]
          BY <2>2, <3>1 DEF PathsInv
    <3> QED
          BY <1>8, <2>1, <3>1, <3>2
  <2> QED
        BY <2>4, <2>5
<1>17. ASSUME NEW c \in Classes
       PROVE  IsWhole(c)' \/ \E k \in 1 .. Len(loads) + 1 : OnPath(Q[k], c)
  <2>1. CASE IsWhole(c)
        BY <1>14, <2>1
  <2>2. CASE \E k \in 1 .. Len(loads) : OnPath(P[k], c)
    <3>1. PICK k \in 1 .. Len(loads) : OnPath(P[k], c)
          BY <2>2
    <3>2. k + 1 \in 2 .. Len(loads) + 1 /\ (k + 1) - 1 = k
          BY <1>11
    <3>3. k + 1 \in 1 .. Len(loads) + 1
          BY <1>1, <3>2
    <3>4. Q[k + 1] = P[k]
          BY <1>10, <3>2
    <3> QED
          BY <3>1, <3>3, <3>4
  <2> QED
        BY <1>1, <2>1, <2>2
<1>18. ~ IsIn("done")'
  <2>1. loads' # <<>> => ~ (loads'[1].phase = "done")
        BY <1>7, <1>8
  <2> QED
        BY <2>1 DEF IsIn, current
<1>19. \A c \in Classes : IsWhole(c)' \/ \E k \in 1 .. Len(loads') : \E j \in 1 .. Len(Q[k]) : Q[k][j] = c
       BY <1>8, <1>17 DEF OnPath
<1>20. PathsInv(Q, G, depth)'
       BY <1>8, <1>10, <1>12, <1>13, <1>15, <1>16, <1>18, <1>19 DEF PathsInv
<1> QED
      BY <1>20

LEMMA PathsLinkInterface ==
  ASSUME NEW E, NEW G, NEW depth, Below(E, G, depth), NEW P, PathsInv(P, G, depth),
         \A x \in Classes : status[x] = "ERROR" => x \in E,
         LoadsInv, LoaderTypes, LinkInterface
  PROVE  \E Q : PathsInv(Q, G, depth)'
<1>1. LoadsIn(G, E) /\ Descends(depth)
      BY DEF Below
<1>2. IsIn("link") /\ linked # NIL /\ loads # <<>> /\ UNCHANGED <<status, superClass>>
      /\ current.iface <= Len(Interfaces[linked])
      BY Zenon DEF LinkInterface, IsLinking, IsIn
<1>3. PICK p \in Seq(Classes) : p = P[1]
      BY <1>2, PathFacts
<1>4. /\ PathOf(p, current, depth) /\ Held(p) /\ LinkOK(p, current)
      /\ current \in Calls /\ current.initiating \in Classes /\ current.phase = "link"
      BY <1>1, <1>2, <1>3, Links
<1>5. p # <<>>
      BY <1>1, <1>2, <1>3, Links
<1>6. PICK h \in Classes : h = linked
      BY <1>1, <1>2, <1>3, <1>5, Links
<1>7. /\ h = Highest(p) /\ depth[h] <= depth[current.initiating] /\ OnPath(p, h)
      /\ \A n \in Named(h) : n \in Classes /\ status[n] \notin {"LOADING", "LOADED"}
      BY <1>1, <1>2, <1>3, <1>5, <1>6, Links
<1>8. current.iface \in 1 .. Len(Interfaces[h]) /\ Len(Interfaces[h]) \in Nat
  <2>1. current.iface \in Nat \ {0} /\ Len(Interfaces[h]) \in Nat
        BY <1>4, ConstantFacts DEF Calls
  <2> QED
        BY <1>2, <1>6, <2>1
<1>9. PICK i \in Named(h) : i = Interfaces[h][current.iface]
      BY <1>8, NamedFacts
<1>10. i \in Classes /\ status[i] \in Statuses \ {"LOADING", "LOADED"}
       BY <1>7 DEF LoaderTypes
<1>11. PICK v : v = Verdict(status[i])
       OBVIOUS
<1>12. loads' = CASE v = "load" -> <<Call(i)>> \o loads
                  [] v = "link" -> [loads EXCEPT ![1].iface = @ + 1]
                  [] OTHER -> [loads EXCEPT ![1].phase = v]
       BY <1>6, <1>9, <1>11, Zenon DEF LinkInterface
<1>13. CASE status[i] = "RAW"
  <2>1. loads' = <<Call(i)>> \o loads
        BY <1>11, <1>12, <1>13, VerdictFacts
  <2> QED
        BY <1>1, <1>2, <1>3, <1>5, <1>6, <1>7, <1>9, <1>10, <2>1, PathsCall
<1>14. CASE status[i] = "ERROR"
  <2>1. Goto("throw")
        BY <1>11, <1>12, <1>14, VerdictFacts DEF Goto
  <2>2. Highest(p) \notin G
        BY <1>1, <1>7, <1>9, <1>10, <1>14 DEF LoadsIn
  <2> QED
        BY <1>2, <1>3, <1>5, <2>1, <2>2, PathsThrow
<1>15. CASE status[i] \in {"LINKED", "VERIFIED", "READY"}
  <2>1. PICK r : r = [current EXCEPT !.iface = @ + 1]
        OBVIOUS
  <2>2. /\ r \in Calls /\ r.initiating = current.initiating /\ r.phase = "link"
        /\ r.iface = current.iface + 1
        BY <1>4, <2>1 DEF Calls
  <2>3. loads' = [loads EXCEPT ![1] = r]
    <3>1. loads' = [loads EXCEPT ![1].iface = @ + 1]
          BY <1>11, <1>12, <1>15, VerdictFacts
    <3>2. 1 \in 1 .. Len(loads) /\ loads \in Seq(Calls) /\ current = loads[1]
          BY <1>2, CallFacts
    <3> QED
          BY <2>1, <3>1, <3>2
  <2>4. ~ IsUnlinked(i)
        BY <1>15 DEF IsUnlinked
  <2>5. LinkOK(p, r)
    <3>1. /\ Super[h] # NIL => ~IsUnlinked(Super[h])
          /\ \A j \in 1 .. current.iface - 1 : ~IsUnlinked(Interfaces[h][j])
          BY <1>4, <1>5, <1>7 DEF LinkOK
    <3>2. \A j \in 1 .. r.iface - 1 : ~IsUnlinked(Interfaces[h][j])
      <4> SUFFICES ASSUME NEW j \in 1 .. r.iface - 1 PROVE ~IsUnlinked(Interfaces[h][j])
          OBVIOUS
      <4>1. j = current.iface \/ j \in 1 .. current.iface - 1
            BY <1>8, <2>2
      <4>2. CASE j = current.iface
            BY <1>9, <2>4, <4>2
      <4>3. CASE j \in 1 .. current.iface - 1
            BY <3>1, <4>3
      <4> QED
            BY <4>1, <4>2, <4>3
    <3>3. r.iface <= Len(Interfaces[h]) + 1
          BY <1>8, <2>2
    <3> QED
          BY <1>5, <1>7, <3>1, <3>2, <3>3 DEF LinkOK
  <2>6. /\ ChangesOnly(h) /\ (Held(p)' <=> Held(p)) /\ (LinkOK(p, r)' <=> LinkOK(p, r))
        BY <1>2, SameClassesOnly
  <2>7. Innermost(p, r, G)'
        BY <1>4, <2>2, <2>5, <2>6 DEF Innermost
  <2>8. PathOf(p, r, depth)
        BY <1>4, <2>2 DEF PathOf
  <2>9. \A c \in Classes : c = h \/ OnPath(P[1], c) => OnPath(p, c)
        BY <1>3, <1>7
  <2> QED
        BY <1>1, <1>2, <1>7, <2>2, <2>3, <2>6, <2>7, <2>8, <2>9, Continues
<1> QED
      BY <1>10, <1>13, <1>14, <1>15 DEF Statuses

(* A path without its last class.                                          *)
LEMMA ShorterPath ==
  ASSUME NEW depth, NEW p \in Seq(Classes), p # <<>>, NEW call, PathOf(p, call, depth),
         NEW r, r.initiating = call.initiating
  PROVE  /\ Front(p) \in Seq(Classes) /\ PathOf(Front(p), r, depth)
         /\ Len(Front(p)) = Len(p) - 1 /\ \A i \in 1 .. Len(p) - 1 : Front(p)[i] = p[i]
         /\ Front(p) = <<>> => Len(p) = 1
         /\ Front(p) # <<>> => /\ Highest(Front(p)) = p[Len(p) - 1] /\ Len(p) - 1 \in 1 .. Len(p)
                               /\ Super[Highest(Front(p))] = Highest(p)
<1>1. PICK q : q = Front(p)
      OBVIOUS
<1>2. PICK n \in Nat : n = Len(p)
      OBVIOUS
<1>3. n >= 1
      BY <1>2, EmptySeq
<1>4. q \in Seq(Classes) /\ Len(q) = n - 1 /\ \A i \in 1 .. n - 1 : q[i] = p[i]
      BY <1>1, <1>2, FrontFacts
<1>5. q = <<>> <=> n = 1
  <2>1. q = <<>> <=> Len(q) = 0
        BY <1>4, EmptySeq
  <2> QED
        BY <1>3, <1>4, <2>1
<1>6. \A i \in 1 .. n - 1 : i \in 1 .. n
      OBVIOUS
<1>7. /\ p[1] = call.initiating
      /\ \A i \in 1 .. n - 1 : Super[p[i]] = p[i + 1]
      /\ \A i, j \in 1 .. n : j < i => depth[p[i]] < depth[p[j]]
      BY <1>2 DEF PathOf
<1>8. PathOf(q, r, depth)
  <2>1. q # <<>> => q[1] = r.initiating
    <3>1. q # <<>> => 1 \in 1 .. n - 1
          BY <1>3, <1>5
    <3> QED
          BY <1>4, <1>7, <3>1
  <2>2. ASSUME NEW i \in 1 .. Len(q) - 1 PROVE Super[q[i]] = q[i + 1]
    <3>1. i \in 1 .. n - 1 /\ i + 1 \in 1 .. n - 1
          BY <1>4
    <3> QED
          BY <1>4, <1>7, <3>1
  <2>3. ASSUME NEW i \in 1 .. Len(q), NEW j \in 1 .. Len(q), j < i PROVE depth[q[i]] < depth[q[j]]
    <3>1. i \in 1 .. n - 1 /\ j \in 1 .. n - 1 /\ i \in 1 .. n /\ j \in 1 .. n
          BY <1>4
    <3> QED
          BY <1>4, <1>7, <2>3, <3>1
  <2> QED
        BY <2>1, <2>2, <2>3 DEF PathOf
<1>9. ASSUME q # <<>>
      PROVE  Highest(q) = p[n - 1] /\ n - 1 \in 1 .. n /\ Super[Highest(q)] = Highest(p)
  <2>1. n - 1 \in 1 .. n - 1 /\ (n - 1) + 1 = n
        BY <1>3, <1>5, <1>9
  <2>2. Highest(q) = p[n - 1]
        BY <1>4, <2>1 DEF Highest
  <2> QED
        BY <1>2, <1>6, <1>7, <2>1, <2>2 DEF Highest
<1> QED
      BY <1>1, <1>2, <1>4, <1>5, <1>8, <1>9

LEMMA PathsLinkClass ==
  ASSUME NEW E, NEW G, NEW depth, Below(E, G, depth), NEW P, PathsInv(P, G, depth),
         LoadsInv, LoaderTypes, LinkClass
  PROVE  \E Q : PathsInv(Q, G, depth)'
<1>1. LoadsIn(G, E) /\ Descends(depth)
      BY DEF Below
<1>2. IsIn("link") /\ linked # NIL /\ loads # <<>> /\ superClass' = superClass
      /\ current.iface > Len(Interfaces[linked])
      /\ status' = [status EXCEPT ![linked] = "LINKED"] /\ loads' = [loads EXCEPT ![1].iface = 1]
      BY Zenon DEF LinkClass, IsLinking, IsIn
<1>3. PICK p \in Seq(Classes) : p = P[1]
      BY <1>2, PathFacts
<1>4. /\ PathOf(p, current, depth) /\ Held(p) /\ LinkOK(p, current)
      /\ current \in Calls /\ current.initiating \in Classes /\ current.phase = "link"
      BY <1>1, <1>2, <1>3, Links
<1>5. p # <<>>
      BY <1>1, <1>2, <1>3, Links
<1>6. PICK h \in Classes : h = linked
      BY <1>1, <1>2, <1>3, <1>5, Links
<1>7. /\ h = Highest(p) /\ depth[h] <= depth[current.initiating] /\ OnPath(p, h)
      BY <1>1, <1>2, <1>3, <1>5, <1>6, Links
<1>8. PICK r : r = [current EXCEPT !.iface = 1]
      OBVIOUS
<1>9. r \in Calls /\ r.initiating = current.initiating /\ r.phase = "link" /\ r.iface = 1
      BY <1>4, <1>8 DEF Calls
<1>10. loads' = [loads EXCEPT ![1] = r]
  <2>1. 1 \in 1 .. Len(loads) /\ loads \in Seq(Calls) /\ current = loads[1]
        BY <1>2, CallFacts
  <2> QED
        BY <1>2, <1>8, <2>1
<1>11. PICK q : q = Front(p)
       OBVIOUS
<1>12. /\ q \in Seq(Classes) /\ PathOf(q, r, depth)
       /\ Len(q) = Len(p) - 1 /\ \A i \in 1 .. Len(p) - 1 : q[i] = p[i]
       /\ q = <<>> => Len(p) = 1
       /\ q # <<>> => /\ Highest(q) = p[Len(p) - 1] /\ Len(p) - 1 \in 1 .. Len(p)
                      /\ Super[Highest(q)] = h
       BY <1>4, <1>5, <1>7, <1>9, <1>11, ShorterPath
<1>13. status[h] = "LOADED" /\ superClass[h] = Super[h]
       BY <1>4, <1>7 DEF Held, OnPath
<1>14. /\ status'[h] = "LINKED" /\ superClass'[h] = Super[h]
       /\ \A c \in Classes : c # h => status'[c] = status[c] /\ superClass'[c] = superClass[c]
       BY <1>2, <1>6, <1>13 DEF LoaderTypes
<1>15. ChangesOnly(h)
       BY <1>13, <1>14 DEF ChangesOnly, Settled, IsUnlinked
<1>16. Held(q)'
  <2>1. ASSUME NEW i \in 1 .. Len(q) PROVE q[i] \in Classes /\ q[i] # h /\ q[i] = p[i] /\ i \in 1 .. Len(p)
    <3>1. PICK n \in Nat : n = Len(p)
          OBVIOUS
    <3>2. i \in 1 .. n - 1 /\ i \in 1 .. n /\ i < n /\ n \in 1 .. n
          BY <1>12, <3>1
    <3>3. q[i] \in Classes /\ q[i] = p[i]
          BY <1>12, <3>1, <3>2
    <3>4. h = p[n]
          BY <1>7, <3>1 DEF Highest
    <3>5. depth[h] < depth[p[i]]
          BY <1>4, <3>1, <3>2, <3>4 DEF PathOf
    <3>6. depth[h] \in Nat
          BY <1>1, DepthFacts
    <3>7. p[i] # h
          BY <3>5, <3>6
    <3> QED
          BY <3>1, <3>2, <3>3, <3>7
  <2>2. Held(q)
        BY <1>4, <2>1 DEF Held
  <2> QED
        BY <1>12, <1>15, <2>1, <2>2, HeldKept
<1>17. LinkOK(q, r)'
  <2>1. \A j \in 1 .. r.iface - 1 : FALSE
        BY <1>9
  <2>2. ~ IsUnlinked(h)'
        BY <1>14 DEF IsUnlinked
  <2>3. CASE q = <<>>
    <3>1. r.initiating = h
      <4>1. p[1] = h
            BY <1>7, <1>12, <2>3 DEF Highest
      <4> QED
            BY <1>4, <1>5, <1>9, <4>1 DEF PathOf
    <3> QED
          BY <2>2, <2>3, <3>1 DEF LinkOK, IsUnlinked
  <2>4. CASE q # <<>>
    <3>1. ~ IsUnlinked(Super[Highest(q)])'
          BY <1>12, <2>2, <2>4 DEF IsUnlinked
    <3>2. r.iface <= Len(Interfaces[Highest(q)]) + 1
      <4>1. Highest(q) \in Classes
            BY <1>12, <2>4
      <4>2. Len(Interfaces[Highest(q)]) \in Nat
            BY <4>1, ConstantFacts
      <4> QED
            BY <1>9, <4>2
    <3> QED
          BY <2>1, <2>4, <3>1, <3>2 DEF LinkOK, IsUnlinked
  <2> QED
        BY <2>3, <2>4
<1>18. Innermost(q, r, G)'
       BY <1>9, <1>16, <1>17 DEF Innermost
<1>19. IsWhole(h)'
  <2>1. \A n \in Classes : ~ IsUnlinked(n) => status[n] \in Settled
        BY DEF LoaderTypes, IsUnlinked, Settled, Statuses
  <2>2. /\ Super[h] # NIL => ~ IsUnlinked(Super[h])
        /\ current.iface <= Len(Interfaces[h]) + 1
        /\ \A j \in 1 .. current.iface - 1 : ~IsUnlinked(Interfaces[h][j])
        BY <1>4, <1>5, <1>7 DEF LinkOK
  <2>3. \A j \in 1 .. Len(Interfaces[h]) : ~IsUnlinked(Interfaces[h][j])
    <3>1. Len(Interfaces[h]) \in Nat /\ current.iface \in Nat
          BY <1>4, ConstantFacts DEF Calls
    <3>2. current.iface - 1 = Len(Interfaces[h])
          BY <1>2, <1>6, <2>2, <3>1
    <3> QED
          BY <2>2, <3>2
  <2>4. ASSUME NEW n \in Named(h) PROVE status'[n] \in Settled
    <3>1. n \in Classes
          BY NamedFacts
    <3>2. ToSet(Interfaces[h]) = {Interfaces[h][j] : j \in 1 .. Len(Interfaces[h])}
          BY ConstantFacts DEF ToSet
    <3>3. ~ IsUnlinked(n)
          BY <2>2, <2>3, <3>2 DEF Named
    <3> QED
          BY <1>15, <2>1, <3>1, <3>3 DEF ChangesOnly
  <2>5. status'[h] \in Settled
        BY <1>14 DEF Settled
  <2> QED
        BY <1>14, <2>4, <2>5 DEF IsWhole, Settled, Named
<1>20. ASSUME NEW c \in Classes, OnPath(p, c) PROVE c = h \/ OnPath(q, c)
  <2>1. PICK i \in 1 .. Len(p) : p[i] = c
        BY <1>20 DEF OnPath
  <2>2. PICK n \in Nat : n = Len(p)
        OBVIOUS
  <2>3. CASE i = n
        BY <1>7, <2>1, <2>2, <2>3 DEF Highest
  <2>4. CASE i # n
    <3>1. i \in 1 .. n - 1
          BY <2>1, <2>2, <2>4
    <3>2. i \in 1 .. Len(q) /\ q[i] = c
          BY <1>12, <2>1, <2>2, <3>1
    <3> QED
          BY <3>2 DEF OnPath
  <2> QED
        BY <2>3, <2>4
<1>21. \A c \in Classes : c = h \/ OnPath(P[1], c) => IsWhole(c)' \/ OnPath(q, c)
       BY <1>3, <1>19, <1>20
<1> QED
      BY <1>1, <1>2, <1>7, <1>9, <1>10, <1>12, <1>15, <1>18, <1>21, Continues, ZenonT(60)

LEMMA PathsLoadedReturns ==
  ASSUME NEW E, NEW G, NEW depth, Below(E, G, depth), NEW P, PathsInv(P, G, depth),
         LoadsInv, LoaderTypes, Loaded
  PROVE  \E Q : PathsInv(Q, G, depth)'
<1>1. LoadsIn(G, E) /\ Descends(depth)
      BY DEF Below
<1>2. /\ IsIn("link") /\ linked = NIL /\ loads # <<>> /\ UNCHANGED <<status, superClass>>
      /\ IF Len(loads) > 1 THEN loads' = Tail(loads) ELSE Goto("done")
      BY Zenon DEF Loaded, IsIn
<1>3. PICK p \in Seq(Classes) : p = P[1]
      BY <1>2, PathFacts
<1>4. p = <<>>
      BY <1>1, <1>2, <1>3, Links
<1>5. PICK d \in Classes : d = current.initiating
      BY <1>2, CallFacts
<1>6. ~ OnPath(P[1], d) /\ \A c \in Classes : ~ OnPath(P[1], c)
      BY <1>3, <1>4 DEF OnPath
<1>7. depth[d] <= depth[current.initiating]
  <2>1. depth[d] \in Nat
        BY <1>1, DepthFacts
  <2> QED
        BY <1>5, <2>1
<1>8. IsWhole(d)
      BY <1>1, <1>2, <1>6, <1>7, Untouched
<1>9. /\ ChangesOnly(d) /\ IsWhole(d)'
      /\ \A q : Held(q)' <=> Held(q)
      /\ \A q, call : LinkOK(q, call)' <=> LinkOK(q, call)
      BY <1>2, <1>8, SameClassesOnly
<1>10. CASE Len(loads) > 1
  <2>1. /\ loads' \in Seq(Calls) /\ Len(loads') = Len(loads) - 1
        /\ \A k \in 1 .. Len(loads) - 1 : loads'[k] = loads[k + 1]
        BY <1>2, <1>10, TailCalls
  <2>2. 1 \in 1 .. Len(loads) - 1 /\ 1 + 1 = 2 /\ 2 \in 2 .. Len(loads)
        /\ \A k \in 2 .. Len(loads) - 1 : k \in 1 .. Len(loads) - 1
        BY <1>2, <1>10, CallFacts
  <2>3. PICK r : r = loads[2]
        OBVIOUS
  <2>4. Outer(P[2], loads[2], loads[2 - 1]) /\ r \in Calls
        BY <1>2, <2>2, <2>3, PathFacts, CallFacts
  <2>5. r.phase = "link" /\ Held(P[2]) /\ LinkOK(P[2], r)
        BY <2>3, <2>4 DEF Outer
  <2>6. Held(P[2])' /\ LinkOK(P[2], r)'
        BY <1>9, <2>5
  <2>7. Innermost(P[2], r, G)'
        BY <2>5, <2>6 DEF Innermost
  <2>8. loads'[1] = r /\ \A k \in 2 .. Len(loads) - 1 : loads'[k] = loads[k + 1]
        BY <2>1, <2>2, <2>3
  <2> QED
        BY <1>1, <1>2, <1>6, <1>7, <1>9, <1>10, <2>1, <2>3, <2>4, <2>5, <2>7, <2>8, PathsReturn
<1>11. CASE ~ (Len(loads) > 1)
  <2>1. "done" \in Phases
        BY DEF Phases
  <2>2. PICK r \in Calls : /\ loads' = [loads EXCEPT ![1] = r] /\ r.phase = "done"
                           /\ r.initiating = current.initiating
        BY <1>2, <1>11, <2>1, GotoCall
  <2>3. Len(loads) = 1
    <3>1. PICK n \in Nat : n = Len(loads)
          BY <1>2, CallFacts
    <3>2. n >= 1
          BY <1>2, <3>1, CallFacts
    <3> QED
          BY <1>11, <3>1, <3>2
  <2>4. Innermost(p, r, G)'
    <3>1. LinkOK(p, current)
          BY <1>1, <1>2, <1>3, Links
    <3>2. LinkOK(p, r)
          BY <1>4, <2>2, <3>1 DEF LinkOK
    <3>3. LinkOK(p, r)'
          BY <1>9, <3>2
    <3> QED
          BY <1>4, <2>2, <3>3 DEF Innermost
  <2>5. PathOf(p, r, depth)
    <3>1. PathOf(p, current, depth)
          BY <1>2, <1>3, PathFacts
    <3> QED
          BY <2>2, <3>1 DEF PathOf
  <2>6. \A c \in Classes : c = d \/ OnPath(P[1], c) => IsWhole(c)' \/ OnPath(p, c)
        BY <1>6, <1>9
  <2> QED
        BY <1>1, <1>2, <1>7, <1>9, <2>2, <2>3, <2>4, <2>5, <2>6, Continues
<1> QED
      BY <1>10, <1>11

(* No load goes on: what is not whole was on the path of the last one.     *)
LEMMA PathsEnd ==
  ASSUME NEW G, NEW depth, loads' = <<>>, \A c \in Classes : IsWhole(c)'
  PROVE  \E Q : PathsInv(Q, G, depth)'
<1> DEFINE Q == <<>>
<1>1. Q \in Seq(Seq(Classes)) /\ Len(Q) = 0
      OBVIOUS
<1>2. Len(loads') = 0 /\ (\A k \in 1 .. Len(loads') : FALSE) /\ \A k \in 2 .. Len(loads') : FALSE
      OBVIOUS
<1>3. ~ IsIn("done")'
      BY DEF IsIn
<1> HIDE DEF Q
<1>4. PathsInv(Q, G, depth)'
      BY <1>1, <1>2, <1>3 DEF PathsInv
<1> QED
      BY <1>4

(* The innermost call has failed with the one class that it was made for.  *)
LEMMA ThrowFacts ==
  ASSUME NEW P, NEW G, NEW depth, PathsInv(P, G, depth), LoadsInv, loads # <<>>, IsIn("throw")
  PROVE  /\ current.initiating \in Classes \ G
         /\ status[current.initiating] \in {"RAW", "LOADING", "LOADED"}
         /\ \A c \in Classes : OnPath(P[1], c) => c = current.initiating
<1>1. current.initiating \in Classes /\ current.phase = "throw"
      BY CallFacts
<1>2. Innermost(P[1], current, G) /\ PathOf(P[1], current, depth) /\ P[1] \in Seq(Classes)
      BY PathFacts
<1>3. /\ current.initiating \notin G /\ Len(P[1]) <= 1
      /\ status[current.initiating] \in {"RAW", "LOADING", "LOADED"}
      BY <1>1, <1>2 DEF Innermost
<1>4. ASSUME NEW c \in Classes, NEW i \in 1 .. Len(P[1]), P[1][i] = c PROVE c = current.initiating
  <2>1. i = 1 /\ P[1] # <<>>
        BY <1>2, <1>3
  <2> QED
        BY <1>2, <1>4, <2>1 DEF PathOf
<1> QED
      BY <1>1, <1>3, <1>4 DEF OnPath

LEMMA PathsCatch ==
  ASSUME NEW E, NEW G, NEW depth, Below(E, G, depth), NEW P, PathsInv(P, G, depth),
         LoadsInv, LoaderTypes, Catch
  PROVE  \E Q : PathsInv(Q, G, depth)'
<1>1. LoadsIn(G, E) /\ Descends(depth)
      BY DEF Below
<1>2. PICK d : d = current.initiating
      OBVIOUS
<1>3. /\ IsIn("throw")
      /\ status' = [c \in Classes |-> IF c \in {d} THEN "RAW" ELSE status[c]]
      /\ superClass' = [c \in Classes |-> IF c \in {d} THEN NIL ELSE superClass[c]]
      /\ loads' = IF Len(loads) = 1 THEN <<>>
                  ELSE [Tail(loads) EXCEPT ![1].phase = "throw"]
      BY <1>2, Zenon DEF Catch, Reverted
<1>4. loads # <<>> /\ Len(loads) \in Nat /\ Len(loads) >= 1
      BY <1>3, CallFacts DEF IsIn
<1>5. /\ d \in Classes /\ d \notin G
      /\ status[d] \in {"RAW", "LOADING", "LOADED"}
      /\ \A c \in Classes : OnPath(P[1], c) => c = d
      BY <1>2, <1>3, <1>4, ThrowFacts
<1>6. /\ status'[d] = "RAW" /\ superClass'[d] = NIL
      /\ \A c \in Classes : c # d => status'[c] = status[c] /\ superClass'[c] = superClass[c]
      BY <1>3, <1>5
<1>7. ChangesOnly(d) /\ IsWhole(d)'
      BY <1>5, <1>6 DEF ChangesOnly, Settled, IsUnlinked, IsWhole
<1>8. CASE Len(loads) = 1
  <2>1. \A k \in 1 .. Len(loads) : k = 1
        BY <1>8
  <2>2. \A c \in Classes : IsWhole(c) \/ c = d
        BY <1>4, <1>5, <2>1, PathFacts
  <2>3. \A c \in Classes : IsWhole(c)'
        BY <1>5, <1>7, <2>2, WholeKept
  <2> QED
        BY <1>3, <1>8, <2>3, PathsEnd
<1>9. CASE Len(loads) # 1
  <2>1. PICK q : q = Tail(loads)
        OBVIOUS
  <2>2. /\ q \in Seq(Calls) /\ Len(q) = Len(loads) - 1 /\ 1 \in 1 .. Len(q)
        /\ \A k \in 1 .. Len(q) : q[k] = loads[k + 1] /\ k + 1 \in 1 .. Len(loads)
        BY <1>4, <1>9, <2>1, TailCalls
  <2>3. PICK r : r = [q[1] EXCEPT !.phase = "throw"]
        OBVIOUS
  <2>4. r \in Calls /\ r.phase = "throw" /\ r.initiating = q[1].initiating
    <3>1. PICK g \in Calls : g = q[1]
          BY <2>2
    <3>2. r = [g EXCEPT !.phase = "throw"] /\ "throw" \in Phases
          BY <2>3, <3>1 DEF Phases
    <3> QED
          BY <3>1, <3>2 DEF Calls
  <2>5. loads' = [q EXCEPT ![1] = r]
        BY <1>3, <1>9, <2>1, <2>3
  <2>6. /\ loads' \in Seq(Calls) /\ Len(loads') = Len(loads) - 1 /\ loads'[1] = r
        /\ \A k \in 2 .. Len(loads) - 1 : loads'[k] = loads[k + 1]
    <3>1. loads' \in Seq(Calls) /\ Len(loads') = Len(q) /\ loads'[1] = r
          BY <2>2, <2>4, <2>5
    <3>2. ASSUME NEW k \in 2 .. Len(loads) - 1 PROVE loads'[k] = loads[k + 1]
      <4>1. k \in 1 .. Len(q) /\ k # 1
            BY <1>4, <2>2
      <4> QED
            BY <2>2, <2>5, <4>1
    <3> QED
          BY <2>2, <3>1, <3>2
  <2>7. 2 \in 2 .. Len(loads) /\ 2 \in 1 .. Len(loads) /\ Len(loads) > 1 /\ q[1] = loads[2]
        BY <1>4, <1>9, <2>2
  <2>8. PICK p \in Seq(Classes), call \in Calls : p = P[2] /\ call = loads[2]
        BY <1>4, <2>7, PathFacts, CallFacts
  <2>9. Outer(p, call, current) /\ PathOf(p, call, depth)
    <3>1. Outer(P[2], loads[2], loads[2 - 1]) /\ current = loads[1]
          BY <1>4, <2>7, PathFacts, CallFacts
    <3>2. PathOf(P[2], loads[2], depth)
          BY <2>7 DEF PathsInv
    <3> QED
          BY <2>8, <3>1, <3>2
  <2>10. p # <<>> /\ Held(p) /\ d = Interfaces[Highest(p)][call.iface]
         /\ call.iface <= Len(Interfaces[Highest(p)])
         BY <1>2, <2>9 DEF Outer
  <2>11. Highest(p) \in Classes
         BY <1>1, <2>9, <2>10, OnPathDepth
  <2>12. d \in Named(Highest(p))
    <3>1. call.iface \in 1 .. Len(Interfaces[Highest(p)])
      <4>1. call.iface \in Nat \ {0} /\ Len(Interfaces[Highest(p)]) \in Nat
            BY <2>11, ConstantFacts DEF Calls
      <4> QED
            BY <2>10, <4>1
    <3> QED
          BY <2>10, <2>11, <3>1, NamedFacts
  <2>13. Highest(p) \notin G
         BY <1>1, <1>5, <2>11, <2>12 DEF LoadsIn
  <2>14. Len(p) = 1 /\ call.initiating = Highest(p) /\ call.initiating \notin G
         BY <1>1, <2>9, <2>10, <2>13, FailsAlone
  <2>15. r.initiating = Highest(p) /\ r.initiating = loads[2].initiating
         BY <2>4, <2>7, <2>8, <2>14
  <2>16. status'[Highest(p)] = "LOADED"
    <3>1. status[Highest(p)] = "LOADED"
      <4>1. Highest(p) = p[1] /\ 1 \in 1 .. Len(p)
            BY <2>14 DEF Highest
      <4> QED
            BY <2>10, <4>1 DEF Held
    <3>2. d # Highest(p)
      <4>1. depth[d] < depth[Highest(p)] /\ depth[d] \in Nat
            BY <1>1, <1>5, <2>11, <2>12, DepthFacts
      <4> QED
            BY <4>1
    <3> QED
          BY <1>6, <2>11, <3>1, <3>2
  <2>17. Innermost(p, r, G)'
         BY <2>4, <2>13, <2>14, <2>15, <2>16 DEF Innermost
  <2>18. Innermost(P[2], r, G)'
         BY <2>8, <2>17
  <2>19. depth[d] <= depth[current.initiating]
    <3>1. depth[d] \in Nat
          BY <1>1, <1>5, DepthFacts
    <3> QED
          BY <1>2, <3>1
  <2> QED
        BY <1>1, <1>4, <1>5, <1>7, <2>4, <2>6, <2>7, <2>15, <2>18, <2>19, PathsReturn
<1> QED
      BY <1>8, <1>9

LEMMA PathsStep ==
  ASSUME NEW E, NEW G, NEW depth, Below(E, G, depth), NEW P, PathsInv(P, G, depth),
         \A x \in Classes : status[x] = "ERROR" => x \in E,
         LoadsInv, LoaderTypes, LoadStep
  PROVE  \E Q : PathsInv(Q, G, depth)'
BY PathsLoadRaw, PathsLinkFails, PathsLinkInterface, PathsLinkClass, PathsLoadedReturns, PathsCatch
   DEF LoadStep

-----------------------------------------------------------------------------
(* The classes in error                                                    *)

ErrorsOK(E) == \A c \in Classes : status[c] = "ERROR" => c \in E

(* An error in a class reaches those that wait for it.                     *)
NestOK(t, E) ==
  \A i \in 1 .. Len(frames[t]) - 1 : frames[t][i + 1].class \in E => frames[t][i].class \in E
ThrownOK(t, E) == busy = t /\ point = -1 => Top(t).class \in E \/ Top(t).state = 2
AskedOK(t, E, G) ==
  busy = t /\ loads # <<>> /\ frames[t] # <<>> =>
    (loads[Len(loads)].initiating \in E \/ loads[Len(loads)].initiating \notin G
       => Top(t).class \in E)

BlameInv(E, G) ==
  ErrorsOK(E) /\ \A t \in Threads : NestOK(t, E) /\ ThrownOK(t, E) /\ AskedOK(t, E, G)

WholeInv(E, G, depth) == BlameInv(E, G) /\ \E P : PathsInv(P, G, depth)

AllWhole == \A c \in Classes : IsWhole(c)

LEMMA RestWhole ==
  ASSUME NEW E, NEW G, NEW depth, WholeInv(E, G, depth), LoadsInv, loads = <<>> \/ IsIn("done")
  PROVE  AllWhole /\ (IsIn("done") => Len(loads) = 1 /\ ~ IsUnlinked(current.initiating))
<1>1. PICK P : PathsInv(P, G, depth)
      BY DEF WholeInv
<1>2. CASE loads = <<>>
  <2>1. Len(loads) = 0
        BY <1>2
  <2>2. \A k \in 1 .. Len(loads) : FALSE
        BY <2>1
  <2> QED
        BY <1>1, <1>2, <2>2 DEF PathsInv, AllWhole, IsIn
<1>3. CASE IsIn("done")
  <2>1. loads # <<>> /\ Len(loads) = 1
        BY <1>1, <1>3 DEF PathsInv, IsIn
  <2>2. current.phase = "done"
        BY <1>3 DEF IsIn
  <2>3. P[1] = <<>> /\ LinkOK(P[1], current)
        BY <1>1, <2>1, <2>2, PathFacts DEF Innermost
  <2>4. ~ IsUnlinked(current.initiating)
        BY <2>3 DEF LinkOK
  <2>5. \A k \in 1 .. Len(loads) : k = 1
        BY <2>1
  <2>6. \A c \in Classes : \A k \in 1 .. Len(loads) : ~ OnPath(P[k], c)
        BY <2>3, <2>5 DEF OnPath
  <2>7. AllWhole
        BY <1>1, <2>1, <2>6, PathFacts DEF AllWhole
  <2> QED
        BY <2>1, <2>4, <2>7
<1> QED
      BY <1>2, <1>3

(* Initialization changes classes that are linked.                         *)
StaysSettled(E) ==
  \A c \in Classes : \/ status'[c] = status[c]
                     \/ /\ status[c] \in Settled /\ status'[c] \in Settled
                        /\ status'[c] = "ERROR" => c \in E

LEMMA StaysWhole ==
  ASSUME NEW E, AllWhole, StaysSettled(E), superClass' = superClass
  PROVE  AllWhole'
<1> SUFFICES ASSUME NEW c \in Classes PROVE IsWhole(c)'
    BY DEF AllWhole
<1>1. \A d \in Classes : status[d] \in Settled => status'[d] \in Settled
      BY DEF StaysSettled
<1>2. IsWhole(c)
      BY DEF AllWhole
<1>3. CASE status[c] = "RAW" /\ superClass[c] = NIL
  <2>1. status[c] \notin Settled
        BY <1>3 DEF Settled
  <2> QED
        BY <1>3, <2>1 DEF StaysSettled, IsWhole
<1>4. CASE /\ status[c] \in Settled /\ superClass[c] = Super[c]
           /\ \A d \in Named(c) : status[d] \in Settled
  <2>1. \A d \in Named(c) : status'[d] \in Settled
        BY <1>1, <1>4, NamedFacts
  <2> QED
        BY <1>1, <1>4, <2>1 DEF IsWhole, Settled, Named
<1> QED
      BY <1>2, <1>3, <1>4, NamedFacts

(* What a step does with the frames of t: a new one is for a class that    *)
(* the one below it depends on.                                            *)
StackStep(t, E) ==
  /\ KeepsOthers(t) /\ Len(frames'[t]) <= Len(frames[t]) + 1
  /\ \A i \in 1 .. Len(frames[t]) :
       i <= Len(frames'[t]) => frames'[t][i].class = frames[t][i].class
  /\ Len(frames'[t]) = Len(frames[t]) + 1 /\ frames[t] # <<>> =>
       (frames'[t][Len(frames[t]) + 1].class \in E => Top(t).class \in E)

LEMMA NestStep ==
  ASSUME ClassTypes, NEW E, NEW t \in Threads, NestOK(t, E), StackStep(t, E)
  PROVE  NestOK(t, E)'
<1>1. /\ Len(frames[t]) \in Nat /\ Len(frames'[t]) \in Nat
      /\ Top(t) = frames[t][Len(frames[t])] /\ (frames[t] = <<>> <=> Len(frames[t]) = 0)
  <2>1. frames'[t] \in Seq(Frame)
        BY DEF StackStep, KeepsOthers
  <2> QED
        BY <2>1, FrameFacts
<1>2. PICK n \in Nat, m \in Nat : n = Len(frames[t]) /\ m = Len(frames'[t])
      BY <1>1
<1>3. /\ m <= n + 1
      /\ \A i \in 1 .. n : i <= m => frames'[t][i].class = frames[t][i].class
      /\ m = n + 1 /\ n # 0 => (frames'[t][n + 1].class \in E => frames[t][n].class \in E)
      BY <1>1, <1>2 DEF StackStep
<1>4. ASSUME NEW i \in 1 .. m - 1, frames'[t][i + 1].class \in E PROVE frames'[t][i].class \in E
  <2>1. i \in 1 .. n /\ i <= m
        BY <1>3
  <2>2. CASE i + 1 <= n
    <3>1. i + 1 \in 1 .. n /\ i + 1 <= m /\ i \in 1 .. n - 1
          BY <1>3, <2>2
    <3>2. frames[t][i + 1].class \in E
          BY <1>3, <1>4, <3>1
    <3>3. frames[t][i].class \in E
          BY <1>2, <3>1, <3>2 DEF NestOK
    <3> QED
          BY <1>3, <2>1, <3>3
  <2>3. CASE ~ (i + 1 <= n)
    <3>1. i = n /\ m = n + 1 /\ n # 0
          BY <1>3, <2>1, <2>3
    <3> QED
          BY <1>3, <1>4, <2>1, <3>1
  <2> QED
        BY <2>2, <2>3
<1> QED
      BY <1>2, <1>4 DEF NestOK

LEMMA StackSteps ==
  ASSUME ClassTypes, NEW E, NEW t \in Threads
  PROVE  /\ UNCHANGED frames => StackStep(t, E)
         /\ \A f : Replaces(t, f) /\ f.class = Top(t).class => StackStep(t, E)
         /\ frames[t] # <<>> /\ Drops(t) => StackStep(t, E)
<1>1. /\ Len(frames[t]) \in Nat /\ frames[t] \in Seq(Frame)
      /\ Top(t) = frames[t][Len(frames[t])] /\ (frames[t] = <<>> <=> Len(frames[t]) = 0)
      /\ \A i \in 1 .. Len(frames[t]) : frames[t][i] \in Frame
      BY FrameFacts
<1>2. PICK n \in Nat : n = Len(frames[t])
      BY <1>1
<1>3. ASSUME UNCHANGED frames PROVE StackStep(t, E)
  <2>1. KeepsOthers(t)
        BY <1>3 DEF KeepsOthers, ClassTypes
  <2>2. Len(frames'[t]) = n /\ n <= n + 1 /\ n # n + 1
        BY <1>2, <1>3
  <2> QED
        BY <1>2, <1>3, <2>1, <2>2 DEF StackStep
<1>4. ASSUME NEW f, Replaces(t, f), f.class = Top(t).class PROVE StackStep(t, E)
  <2>1. /\ KeepsOthers(t) /\ Len(frames'[t]) = n /\ frames'[t][n] = f
        /\ \A i \in 1 .. n - 1 : frames'[t][i] = frames[t][i]
        /\ Top(t) = frames[t][n]
        BY <1>1, <1>2, <1>4 DEF Replaces
  <2>2. ASSUME NEW i \in 1 .. n PROVE frames'[t][i].class = frames[t][i].class
    <3>1. i = n \/ i \in 1 .. n - 1
          OBVIOUS
    <3>2. CASE i = n
          BY <1>4, <2>1, <3>2
    <3>3. CASE i \in 1 .. n - 1
          BY <2>1, <3>3
    <3> QED
          BY <3>1, <3>2, <3>3
  <2>3. n <= n + 1 /\ n # n + 1
        OBVIOUS
  <2> QED
        BY <1>2, <2>1, <2>2, <2>3 DEF StackStep
<1>5. ASSUME frames[t] # <<>>, Drops(t) PROVE StackStep(t, E)
  <2>1. /\ KeepsOthers(t) /\ Len(frames'[t]) = n - 1
        /\ \A i \in 1 .. n - 1 : \/ frames'[t][i] = frames[t][i]
                                 \/ frames'[t][i] = [frames[t][i] EXCEPT !.clinit = FALSE]
        BY <1>2, <1>5 DEF Drops
  <2>2. ASSUME NEW i \in 1 .. n, i <= n - 1 PROVE frames'[t][i].class = frames[t][i].class
    <3>1. i \in 1 .. n - 1 /\ frames[t][i] \in Frame
          BY <1>1, <1>2, <2>2
    <3>2. PICK g \in Frame : g = frames[t][i]
          BY <3>1
    <3>3. [g EXCEPT !.clinit = FALSE].class = g.class
          BY DEF Frame
    <3> QED
          BY <2>1, <3>1, <3>2, <3>3
  <2>3. n - 1 <= n + 1 /\ n - 1 # n + 1
        OBVIOUS
  <2> QED
        BY <1>2, <2>1, <2>2, <2>3 DEF StackStep
<1> QED
      BY <1>3, <1>4, <1>5

(* A step of t inside the VM that leaves no load.                          *)
LEMMA WholeStep ==
  ASSUME CInv, NEW E, NEW G, NEW depth, WholeInv(E, G, depth), NEW t \in Threads,
         loads = <<>> \/ IsIn("done"), loads' = <<>>, superClass' = superClass,
         StaysSettled(E), StackStep(t, E), busy' \in {NIL, t}, ThrownOK(t, E)'
  PROVE  WholeInv(E, G, depth)'
<1>1. ClassTypes /\ LoadsInv
      BY InvFacts
<1>2. AllWhole /\ BlameInv(E, G)
      BY <1>1, RestWhole DEF WholeInv
<1>3. AllWhole'
      BY <1>2, StaysWhole
<1>4. \E Q : PathsInv(Q, G, depth)'
      BY <1>3, PathsEnd DEF AllWhole
<1>5. ErrorsOK(E)'
      BY <1>2 DEF BlameInv, ErrorsOK, StaysSettled
<1>6. ASSUME NEW u \in Threads PROVE NestOK(u, E)' /\ ThrownOK(u, E)' /\ AskedOK(u, E, G)'
  <2>1. NestOK(u, E)
        BY <1>2 DEF BlameInv
  <2>2. CASE u = t
        BY <1>1, <2>1, <2>2, NestStep DEF AskedOK
  <2>3. CASE u # t
    <3>1. frames'[u] = frames[u] /\ busy' # u
          BY <2>3, ConstantFacts DEF StackStep, KeepsOthers
    <3> QED
          BY <2>1, <3>1 DEF NestOK, ThrownOK, AskedOK
  <2> QED
        BY <2>2, <2>3
<1> QED
      BY <1>4, <1>5, <1>6 DEF WholeInv, BlameInv

(* A step that concerns neither classes nor frames.                        *)
LEMMA SteadyStep ==
  ASSUME NEW E, NEW G, NEW depth, WholeInv(E, G, depth),
         UNCHANGED <<status, superClass, loads, frames, busy, point>>
  PROVE  WholeInv(E, G, depth)'
<1>1. PICK P : PathsInv(P, G, depth)
      BY DEF WholeInv
<1>2. PathsInv(P, G, depth)'
      BY <1>1 DEF PathsInv, Innermost, Outer, Held, LinkOK, IsUnlinked, IsWhole, IsIn, current
<1>3. BlameInv(E, G)
      BY DEF WholeInv
<1>4. BlameInv(E, G)'
      BY <1>3 DEF BlameInv, ErrorsOK, NestOK, ThrownOK, AskedOK, Top
<1> QED
      BY <1>2, <1>4 DEF WholeInv

(* A class that has a frame, and its superclass, are linked.               *)
LEMMA FrameClass ==
  ASSUME CInv, NEW t \in Threads, frames[t] # <<>>, AllWhole
  PROVE  /\ Top(t).class \in Classes /\ status[Top(t).class] \in Settled
         /\ superClass[Top(t).class] = Super[Top(t).class]
         /\ \A s \in Classes : s = superClass[Top(t).class] => status[s] \in Settled
<1>1. ClassTypes /\ FramesOK(t)
      BY InvFacts DEF ThreadOK
<1>2. PICK c \in Classes : c = Top(t).class
      BY <1>1, FrameFacts
<1>3. status[c] \in Late
  <2>1. Len(frames[t]) \in 1 .. Len(frames[t]) /\ Top(t) = frames[t][Len(frames[t])]
        BY <1>1, FrameFacts
  <2> QED
        BY <1>1, <1>2, <2>1 DEF FramesOK
<1>4. status[c] \in Settled /\ superClass[c] = Super[c] /\ \A d \in Named(c) : status[d] \in Settled
      BY <1>3, NamedFacts DEF AllWhole, Late, Settled
<1>5. \A s \in Classes : s = superClass[c] => s \in Named(c)
      BY <1>4, NamedFacts, ConstantFacts
<1> QED
      BY <1>2, <1>4, <1>5

(* What a step of runClinit that throws nothing does with the frames.      *)
Calm(t) ==
  /\ \/ UNCHANGED frames \/ PopFrame(t)
     \/ \E f \in Frame : Replaces(t, f) /\ f.class = Top(t).class
  /\ busy' \in {NIL, t} /\ point' # -1

LEMMA CalmStep ==
  ASSUME CInv, NEW E, NEW G, NEW depth, WholeInv(E, G, depth), NEW t \in Threads,
         loads = <<>>, frames[t] # <<>>, UNCHANGED loaderVars, StaysSettled(E), Calm(t)
  PROVE  WholeInv(E, G, depth)'
<1>1. ClassTypes /\ loads' = <<>> /\ superClass' = superClass
      BY InvFacts DEF loaderVars
<1>2. StackStep(t, E)
  <2>1. CASE UNCHANGED frames
        BY <1>1, <2>1, StackSteps
  <2>2. CASE PopFrame(t)
        BY <1>1, <2>2, PopTop, PopDrops, StackSteps
  <2>3. CASE \E f \in Frame : Replaces(t, f) /\ f.class = Top(t).class
        BY <1>1, <2>3, StackSteps
  <2> QED
        BY <2>1, <2>2, <2>3 DEF Calm
<1>3. ThrownOK(t, E)'
      BY DEF Calm, ThrownOK
<1> QED
      BY <1>1, <1>2, <1>3, WholeStep DEF Calm

LEMMA SameSettled == \A E : UNCHANGED status => StaysSettled(E)
BY DEF StaysSettled

LEMMA WholeCase1 ==
  ASSUME CInv, NEW E, NEW G, NEW depth, WholeInv(E, G, depth), NEW t \in Threads,
         Case1(t) \/ Case2(t)
  PROVE  WholeInv(E, G, depth)'
<1>0. PICK c : c = Top(t).class
      OBVIOUS
<1>1. /\ At(t, 1) \/ At(t, 2)
      /\ UNCHANGED <<status, loaderVars>>
      /\ \/ MarkClass(t, c)
         \/ FallThrough(t, 2) /\ UNCHANGED frames
         \/ InState(t, 2) /\ Return
      BY <1>0, Zenon DEF Case1, Case2
<1>2. frames[t] # <<>> /\ ~ Top(t).clinit /\ loads = <<>> /\ ClassTypes
      BY <1>1, AtFacts, InvFacts
<1>3. Calm(t)
  <2>1. CASE MarkClass(t, c)
    <3>1. \/ PopFrame(t) /\ Return
          \/ FallThrough(t, 3) /\ UNCHANGED frames
          BY <2>1, Zenon DEF MarkClass
    <3> QED
          BY <3>1 DEF Calm, Return, FallThrough
  <2>2. CASE FallThrough(t, 2) /\ UNCHANGED frames
        BY <2>2 DEF Calm, FallThrough
  <2>3. CASE InState(t, 2) /\ Return
    <3>1. 2 \in 1..6
          OBVIOUS
    <3>2. \E f \in Frame : Replaces(t, f) /\ f.class = Top(t).class
          BY <1>2, <2>3, <3>1, NextState
    <3> QED
          BY <2>3, <3>2 DEF Calm, Return
  <2> QED
        BY <1>1, <2>1, <2>2, <2>3
<1> QED
      BY <1>1, <1>2, <1>3, SameSettled, CalmStep

(* initializeClass, and its failures, change a class that is linked.       *)
LEMMA InitializeSettled ==
  ASSUME NEW E, NEW G, ErrorsIn(E, G), NEW t, NEW c \in Classes, NEW frs, status[c] \in Settled
  PROVE  /\ InitializeClass(t, c, frs) => StaysSettled(E)
         /\ VerifyFails(c) \/ StackOverflows(c) => StaysSettled(E) /\ c \in E
<1>1. c \in MayFailToVerify \/ c \in MayOverflow => c \in E
      BY DEF ErrorsIn
<1>2. ASSUME NEW s, status' = [status EXCEPT ![c] = s], s \in Settled, s = "ERROR" => c \in E
      PROVE  StaysSettled(E)
      BY <1>2 DEF StaysSettled, Settled
<1>3. "READY" \in Settled /\ "VERIFIED" \in Settled /\ "ERROR" \in Settled
      BY DEF Settled
<1>4. ASSUME InitializeClass(t, c, frs) PROVE StaysSettled(E)
  <2>1. \/ status' = [status EXCEPT ![c] = "READY"] \/ status' = [status EXCEPT ![c] = "VERIFIED"]
        BY <1>4, Zenon DEF InitializeClass
  <2> QED
        BY <1>2, <1>3, <2>1
<1>5. ASSUME VerifyFails(c) \/ StackOverflows(c) PROVE StaysSettled(E) /\ c \in E
  <2>1. /\ c \in MayFailToVerify \/ c \in MayOverflow
        /\ status' = [status EXCEPT ![c] = "ERROR"] \/ UNCHANGED status
        BY <1>5, Zenon DEF VerifyFails, StackOverflows
  <2> QED
        BY <1>1, <1>2, <1>3, <2>1, SameSettled
<1> QED
      BY <1>4, <1>5

LEMMA WholeCase3 ==
  ASSUME CInv, NEW E, NEW G, NEW depth, WholeInv(E, G, depth), ErrorsIn(E, G),
         NEW t \in Threads, Case3(t)
  PROVE  WholeInv(E, G, depth)'
<1>0. PICK c : c = Top(t).class
      OBVIOUS
<1>1. At(t, 3) /\ UNCHANGED loaderVars
      BY Zenon DEF Case3
<1>2. frames[t] # <<>> /\ ~ Top(t).clinit /\ loads = <<>> /\ ClassTypes /\ LoadsInv
      BY <1>1, AtFacts, InvFacts
<1>3. AllWhole /\ BlameInv(E, G)
      BY <1>2, RestWhole DEF WholeInv
<1>4. PICK s : s = superClass[c]
      OBVIOUS
<1>5. PICK f : f = [Top(t) EXCEPT !.state = 4]
      OBVIOUS
<1>6. \/ FallThrough(t, 4) /\ UNCHANGED <<frames, status>>
      \/ /\ NeedsSuper(c)
         /\ (status[s] = "ERROR" /\ UNCHANGED status) \/ VerifyFails(s) \/ StackOverflows(s)
         /\ InState(t, 4) /\ Throw(t)
      \/ /\ NeedsSuper(c) /\ Return
         /\ InitializeClass(t, s, Front(frames[t]) \o <<f>>)
      BY <1>0, <1>4, <1>5, Zenon DEF Case3
<1>7. Top(t) \in Frame /\ c \in Classes /\ superClass[c] = Super[c]
      BY <1>0, <1>2, <1>3, FrameFacts, FrameClass
<1>8. f \in Frame /\ f.class = c
      BY <1>0, <1>5, <1>7 DEF Frame
<1>9. ASSUME NeedsSuper(c) PROVE s \in Classes /\ status[s] \in Settled /\ (s \in E => c \in E)
  <2>1. s \in Classes
        BY <1>4, <1>7, <1>9, ConstantFacts DEF NeedsSuper
  <2>2. status[s] \in Settled
        BY <1>0, <1>2, <1>3, <1>4, <2>1, FrameClass
  <2>3. s \in E => c \in E
        BY <1>4, <1>7 DEF ErrorsIn
  <2> QED
        BY <2>1, <2>2, <2>3
<1>10. CASE FallThrough(t, 4) /\ UNCHANGED <<frames, status>>
  <2>1. Calm(t)
        BY <1>10 DEF Calm, FallThrough
  <2> QED
        BY <1>1, <1>2, <1>10, <2>1, SameSettled, CalmStep
<1>11. CASE /\ NeedsSuper(c)
            /\ (status[s] = "ERROR" /\ UNCHANGED status) \/ VerifyFails(s) \/ StackOverflows(s)
            /\ InState(t, 4) /\ Throw(t)
  <2>1. StaysSettled(E) /\ s \in E
    <3>1. CASE status[s] = "ERROR" /\ UNCHANGED status
          BY <1>3, <1>9, <1>11, <3>1, SameSettled DEF BlameInv, ErrorsOK
    <3>2. CASE VerifyFails(s) \/ StackOverflows(s)
          BY <1>9, <1>11, <3>2, InitializeSettled
    <3> QED
          BY <1>11, <3>1, <3>2
  <2>2. 4 \in 1..6
        OBVIOUS
  <2>3. Replaces(t, f)
        BY <1>2, <1>5, <1>11, <2>2, ChangeTop
  <2>4. StackStep(t, E)
        BY <1>0, <1>2, <1>8, <2>3, StackSteps
  <2>5. ThrownOK(t, E)'
    <3>1. Len(frames[t]) # 0
          BY <1>2, FrameFacts
    <3>2. Top(t)' = f
          BY <2>3, <3>1, TopAfter
    <3> QED
          BY <1>8, <1>9, <1>11, <2>1, <3>2 DEF ThrownOK
  <2>6. busy' \in {NIL, t} /\ loads' = <<>> /\ superClass' = superClass
        BY <1>1, <1>2, <1>11 DEF Throw, loaderVars
  <2> QED
        BY <1>2, <2>1, <2>4, <2>5, <2>6, WholeStep
<1>12. CASE /\ NeedsSuper(c) /\ Return
            /\ InitializeClass(t, s, Front(frames[t]) \o <<f>>)
  <2>1. StaysSettled(E)
        BY <1>9, <1>12, InitializeSettled
  <2>2. \/ frames' = [frames EXCEPT ![t] = Front(frames[t]) \o <<f>>]
        \/ frames' = [frames EXCEPT ![t] = Append(Front(frames[t]) \o <<f>>, NewFrame(s))]
        BY <1>12, Zenon DEF InitializeClass
  <2>3. CASE frames' = [frames EXCEPT ![t] = Front(frames[t]) \o <<f>>]
    <3>1. Replaces(t, f)
          BY <1>2, <1>8, <2>3, ReplaceTop
    <3>2. Calm(t)
          BY <1>0, <1>8, <1>12, <3>1 DEF Calm, Return
    <3> QED
          BY <1>1, <1>2, <2>1, <3>2, CalmStep
  <2>4. CASE frames' = [frames EXCEPT ![t] = Append(Front(frames[t]) \o <<f>>, NewFrame(s))]
    <3>1. /\ KeepsOthers(t)
          /\ Len(frames'[t]) = Len(frames[t]) + 1 /\ frames'[t][Len(frames[t]) + 1] = NewFrame(s)
          /\ frames'[t][Len(frames[t])] = f
          /\ \A i \in 1 .. Len(frames[t]) - 1 : frames'[t][i] = frames[t][i]
          BY <1>2, <1>8, <1>9, <1>12, <2>4, ReplaceAndPush
    <3>2. PICK n \in Nat : n = Len(frames[t])
          BY <1>2, FrameFacts
    <3>3. Top(t) = frames[t][n]
          BY <1>2, <3>2, FrameFacts
    <3>4. ASSUME NEW i \in 1 .. n PROVE frames'[t][i].class = frames[t][i].class
      <4>1. CASE i = n
            BY <1>0, <1>8, <3>1, <3>2, <3>3, <4>1
      <4>2. CASE i # n
            BY <3>1, <3>2, <4>2
      <4> QED
            BY <4>1, <4>2
    <3>5. NewFrame(s).class = s
          BY DEF NewFrame
    <3>6. StackStep(t, E)
      <4>1. n + 1 <= n + 1 /\ Len(frames'[t]) = n + 1
            BY <3>1, <3>2
      <4> QED
            BY <1>0, <1>9, <1>12, <3>1, <3>2, <3>4, <3>5, <4>1 DEF StackStep
    <3>7. ThrownOK(t, E)' /\ busy' \in {NIL, t} /\ loads' = <<>> /\ superClass' = superClass
          BY <1>1, <1>2, <1>12, ConstantFacts DEF ThrownOK, Return, loaderVars
    <3> QED
          BY <1>2, <2>1, <3>6, <3>7, WholeStep
  <2> QED
        BY <2>2, <2>3, <2>4
<1> QED
      BY <1>6, <1>10, <1>11, <1>12

LEMMA WholeCase4 ==
  ASSUME CInv, NEW E, NEW G, NEW depth, WholeInv(E, G, depth), NEW t \in Threads, Case4(t)
  PROVE  WholeInv(E, G, depth)'
<1>1. /\ At(t, 4) /\ UNCHANGED <<status, loaderVars>>
      /\ \/ /\ frames' = [frames EXCEPT ![t] =
                 Front(@) \o <<[Top(t) EXCEPT !.state = 5, !.clinit = TRUE]>>]
            /\ Return
         \/ FallThrough(t, 5) /\ UNCHANGED frames
      BY Zenon DEF Case4
<1>2. frames[t] # <<>> /\ loads = <<>> /\ ClassTypes
      BY <1>1, AtFacts, InvFacts
<1>3. Calm(t)
  <2>1. CASE /\ frames' = [frames EXCEPT ![t] =
                  Front(@) \o <<[Top(t) EXCEPT !.state = 5, !.clinit = TRUE]>>]
             /\ Return
    <3>1. PICK g \in Frame : g = Top(t)
          BY <1>2, FrameFacts
    <3>2. PICK f : f = [Top(t) EXCEPT !.state = 5, !.clinit = TRUE]
          OBVIOUS
    <3>3. f = [class |-> g.class, state |-> 5, clinit |-> TRUE]
          BY <3>1, <3>2 DEF Frame
    <3>4. f \in Frame /\ f.class = Top(t).class
          BY <3>1, <3>3 DEF Frame
    <3>5. frames' = [frames EXCEPT ![t] = Front(@) \o <<f>>]
          BY <2>1, <3>2
    <3>6. Replaces(t, f)
          BY <1>2, <3>4, <3>5, ReplaceTop
    <3> QED
          BY <2>1, <3>4, <3>6 DEF Calm, Return
  <2>2. CASE FallThrough(t, 5) /\ UNCHANGED frames
        BY <2>2 DEF Calm, FallThrough
  <2> QED
        BY <1>1, <2>1, <2>2
<1> QED
      BY <1>1, <1>2, <1>3, SameSettled, CalmStep

LEMMA WholeCase5 ==
  ASSUME CInv, NEW E, NEW G, NEW depth, WholeInv(E, G, depth), NEW t \in Threads,
         Case5(t) \/ Case6(t)
  PROVE  WholeInv(E, G, depth)'
<1>0. PICK c : c = Top(t).class
      OBVIOUS
<1>1. /\ At(t, 5) \/ At(t, 6)
      /\ UNCHANGED loaderVars
      /\ \/ UnmarkClass(t, c)
         \/ InState(t, 6) /\ Return /\ UNCHANGED status
      BY <1>0, Zenon DEF Case5, Case6
<1>2. frames[t] # <<>> /\ ~ Top(t).clinit /\ loads = <<>> /\ ClassTypes /\ LoadsInv
      BY <1>1, AtFacts, InvFacts
<1>3. AllWhole
      BY <1>2, RestWhole
<1>4. c \in Classes /\ status[c] \in Settled
      BY <1>0, <1>2, <1>3, FrameClass
<1>5. CASE UnmarkClass(t, c)
  <2>1. StaysSettled(E)
        BY <1>4, <1>5 DEF UnmarkClass, StaysSettled, Settled
  <2>2. Calm(t)
        BY <1>5 DEF Calm, UnmarkClass, Return
  <2> QED
        BY <1>1, <1>2, <2>1, <2>2, CalmStep
<1>6. CASE InState(t, 6) /\ Return /\ UNCHANGED status
  <2>1. 6 \in 1..6
        OBVIOUS
  <2>2. \E f \in Frame : Replaces(t, f) /\ f.class = Top(t).class
        BY <1>2, <1>6, <2>1, NextState
  <2>3. Calm(t)
        BY <1>6, <2>2 DEF Calm, Return
  <2> QED
        BY <1>1, <1>2, <1>6, <2>3, SameSettled, CalmStep
<1> QED
      BY <1>1, <1>5, <1>6

(* <clinit> ends.                                                          *)
LEMMA ClinitTop ==
  ASSUME ClassTypes, NEW E, NEW t \in Threads, frames[t] # <<>>,
         frames' = [frames EXCEPT ![t][Len(frames[t])].clinit = FALSE]
  PROVE  StackStep(t, E) /\ Top(t)'.class = Top(t).class
<1>1. PICK f : f = [Top(t) EXCEPT !.clinit = FALSE]
      OBVIOUS
<1>2. Top(t) \in Frame /\ Len(frames[t]) # 0
      BY FrameFacts
<1>3. f.class = Top(t).class
      BY <1>1, <1>2 DEF Frame
<1>4. Replaces(t, f)
      BY <1>1, ChangeTop
<1>5. Top(t)' = f
      BY <1>2, <1>4, TopAfter
<1> QED
      BY <1>3, <1>4, <1>5, StackSteps

(* An exception in the Java code of t.                                     *)
LEMMA ThrownInJava ==
  ASSUME ClassTypes, NEW E, NEW t \in Threads, ThrowInJava(t),
         frames[t] # <<>> => Top(t).class \in E
  PROVE  StackStep(t, E) /\ busy' \in {NIL, t} /\ ThrownOK(t, E)'
<1>1. CASE Return /\ UNCHANGED frames
      BY <1>1, StackSteps, ConstantFacts DEF Return, ThrownOK
<1>2. CASE /\ frames[t] # <<>> /\ Throw(t)
           /\ frames' = [frames EXCEPT ![t][Len(frames[t])].clinit = FALSE]
  <2>1. StackStep(t, E) /\ Top(t)'.class = Top(t).class
        BY <1>2, ClinitTop
  <2> QED
        BY <1>2, <2>1 DEF Throw, ThrownOK
<1> QED
      BY <1>1, <1>2, Zenon DEF ThrowInJava

LEMMA WholeClinitEnds ==
  ASSUME CInv, NEW E, NEW G, NEW depth, WholeInv(E, G, depth), ErrorsIn(E, G),
         NEW t \in Threads, ClinitReturns(t) \/ ClinitThrows(t)
  PROVE  WholeInv(E, G, depth)'
<1>0. PICK c : c = Top(t).class
      OBVIOUS
<1>1. /\ Runs(t) /\ frames[t] # <<>>
      /\ frames' = [frames EXCEPT ![t][Len(frames[t])].clinit = FALSE]
      /\ UNCHANGED classVars
      /\ \/ UNCHANGED <<busy, point>>
         \/ Throw(t) /\ (c \in MayFail \/ \E d \in Uses[c] : status[d] = "ERROR")
      BY <1>0, Zenon DEF ClinitReturns, ClinitThrows
<1>2. ClassTypes /\ LoadsInv /\ loads = <<>> /\ busy = NIL
      BY <1>1, RunsFacts, InvFacts
<1>3. UNCHANGED status /\ superClass' = superClass /\ loads' = <<>>
      BY <1>1, <1>2 DEF classVars, loaderVars
<1>4. BlameInv(E, G) /\ c \in Classes
      BY <1>0, <1>1, <1>2, FrameFacts DEF WholeInv
<1>5. StackStep(t, E) /\ Top(t)'.class = c
      BY <1>0, <1>1, <1>2, ClinitTop
<1>6. busy' \in {NIL, t} /\ ThrownOK(t, E)'
  <2>1. CASE UNCHANGED <<busy, point>>
        BY <1>2, <2>1, ConstantFacts DEF ThrownOK
  <2>2. CASE Throw(t) /\ (c \in MayFail \/ \E d \in Uses[c] : status[d] = "ERROR")
    <3>1. MayFail \subseteq E /\ ((\E d \in Uses[c] : d \in E) => c \in E)
          BY <1>4 DEF ErrorsIn
    <3>2. \A d \in Uses[c] : status[d] = "ERROR" => d \in E
          BY <1>4, ConstantFacts DEF BlameInv, ErrorsOK
    <3>3. c \in E
          BY <2>2, <3>1, <3>2
    <3> QED
          BY <1>5, <2>2, <3>3 DEF ThrownOK, Throw
  <2> QED
        BY <1>1, <2>1, <2>2
<1> QED
      BY <1>2, <1>3, <1>5, <1>6, SameSettled, WholeStep

LEMMA WholePending ==
  ASSUME CInv, NEW E, NEW G, NEW depth, WholeInv(E, G, depth), NEW t \in Threads,
         PendingException(t)
  PROVE  WholeInv(E, G, depth)'
<1>1. /\ busy = NIL /\ pendingException[t] /\ Throw(t)
      /\ UNCHANGED classVars /\ UNCHANGED frames
      BY Zenon DEF PendingException
<1>2. ClassTypes /\ PointInv /\ WaitsOK(t)
      BY InvFacts DEF ThreadOK
<1>3. Top(t).state = 2 /\ loads = <<>>
      BY <1>1, <1>2 DEF WaitsOK, TopAt, PointInv
<1>4. UNCHANGED status /\ superClass' = superClass /\ loads' = <<>>
      BY <1>1, <1>3 DEF classVars, loaderVars
<1>5. ThrownOK(t, E)' /\ busy' \in {NIL, t}
      BY <1>1, <1>3 DEF ThrownOK, Top, Throw
<1>6. StackStep(t, E)
      BY <1>1, <1>2, StackSteps
<1> QED
      BY <1>3, <1>4, <1>5, <1>6, SameSettled, WholeStep

LEMMA WholeClinitException ==
  ASSUME CInv, NEW E, NEW G, NEW depth, WholeInv(E, G, depth), NEW t \in Threads,
         ClinitException(t)
  PROVE  WholeInv(E, G, depth)'
<1>0. PICK c : c = Top(t).class
      OBVIOUS
<1>1. /\ busy = t /\ point = -1 /\ UNCHANGED loaderVars
      /\ \/ UNCHANGED <<status, frames, busy, point>>
         \/ /\ Top(t).state \in {1, 4, 5}
            /\ status' = [status EXCEPT ![c] = "ERROR"]
            /\ \/ PopFrame(t) /\ Return
               \/ /\ Front(frames[t]) # <<>> /\ Throw(t)
                  /\ frames' = [frames EXCEPT ![t] =
                       Front(Front(frames[t])) \o <<[Last(Front(frames[t])) EXCEPT !.clinit = FALSE]>>]
      BY <1>0, Zenon DEF ClinitException
<1>2. ClassTypes /\ LoadsInv /\ BusyOK(t) /\ loads = <<>>
      BY <1>1, InvFacts DEF ThreadOK, PointInv
<1>3. frames[t] # <<>> /\ AllWhole /\ BlameInv(E, G)
      BY <1>1, <1>2, RestWhole DEF BusyOK, TopAt, WholeInv
<1>4. superClass' = superClass /\ loads' = <<>> /\ loads' = loads
      BY <1>1, <1>2 DEF loaderVars
<1>5. CASE UNCHANGED <<status, frames, busy, point>>
      BY <1>4, <1>5, SteadyStep
<1>6. CASE /\ Top(t).state \in {1, 4, 5}
           /\ status' = [status EXCEPT ![c] = "ERROR"]
           /\ \/ PopFrame(t) /\ Return
              \/ /\ Front(frames[t]) # <<>> /\ Throw(t)
                 /\ frames' = [frames EXCEPT ![t] =
                      Front(Front(frames[t])) \o <<[Last(Front(frames[t])) EXCEPT !.clinit = FALSE]>>]
  <2>1. c \in E
        BY <1>0, <1>1, <1>3, <1>6 DEF BlameInv, ThrownOK
  <2>2. c \in Classes /\ status[c] \in Settled
        BY <1>0, <1>3, FrameClass
  <2>3. StaysSettled(E)
        BY <1>6, <2>1, <2>2 DEF StaysSettled, Settled
  <2>4. CASE PopFrame(t) /\ Return
    <3>1. StackStep(t, E)
          BY <1>2, <1>3, <2>4, PopTop, PopDrops, StackSteps
    <3>2. busy' \in {NIL, t} /\ ThrownOK(t, E)'
          BY <2>4, ConstantFacts DEF ThrownOK, Return
    <3> QED
          BY <1>2, <1>4, <2>3, <3>1, <3>2, WholeStep
  <2>5. CASE /\ Front(frames[t]) # <<>> /\ Throw(t)
             /\ frames' = [frames EXCEPT ![t] =
                  Front(Front(frames[t])) \o <<[Last(Front(frames[t])) EXCEPT !.clinit = FALSE]>>]
    <3>1. Drops(t) /\ frames'[t] # <<>> /\ frames'[t] \in Seq(Frame)
          BY <1>3, <2>5, DropInto DEF TopAt, Drops, KeepsOthers
    <3>2. StackStep(t, E)
          BY <1>2, <1>3, <3>1, StackSteps
    <3>3. PICK n \in Nat : n = Len(frames[t])
          BY <1>2, FrameFacts
    <3>4. n - 1 = Len(frames'[t]) /\ n - 1 # 0 /\ Top(t)' = frames'[t][n - 1]
          BY <3>1, <3>3, EmptySeq DEF Drops, Top, Last
    <3>5. n - 1 \in 1 .. n - 1 /\ n - 1 \in 1 .. n /\ n # 0 /\ (n - 1) + 1 = n
      <4>1. n # 0
            BY <1>2, <1>3, <3>3, FrameFacts
      <4> QED
            BY <3>4, <4>1
    <3>6. Top(t)'.class = frames[t][n - 1].class
          BY <3>2, <3>3, <3>4, <3>5 DEF StackStep
    <3>7. frames[t][n].class = c
          BY <1>0, <1>2, <3>3, FrameFacts
    <3>8. frames[t][n - 1].class \in E
      <4>1. NestOK(t, E)
            BY <1>3 DEF BlameInv
      <4> QED
            BY <2>1, <3>3, <3>5, <3>7, <4>1 DEF NestOK
    <3>9. ThrownOK(t, E)' /\ busy' \in {NIL, t}
          BY <2>5, <3>6, <3>8 DEF ThrownOK, Throw
    <3> QED
          BY <1>2, <1>4, <2>3, <3>2, <3>9, WholeStep
  <2> QED
        BY <1>6, <2>4, <2>5
<1> QED
      BY <1>1, <1>5, <1>6

(* A load begins: everything is whole.                                     *)
LEMMA WholeLoad ==
  ASSUME CInv, NEW E, NEW G, NEW depth, WholeInv(E, G, depth), ErrorsIn(E, G),
         NEW t \in Threads, NEW c \in Classes, Load(t, c)
  PROVE  WholeInv(E, G, depth)'
<1>1. /\ Executes(t, c) /\ loads' = <<Call(c)>> /\ busy' = t /\ point' = -2
      /\ UNCHANGED <<status, superClass, frames>>
      BY Zenon DEF Load
<1>2. loads = <<>> /\ LoadsInv /\ ClassTypes
      BY <1>1, RunsFacts, InvFacts DEF Executes
<1>3. AllWhole /\ BlameInv(E, G)
      BY <1>2, RestWhole DEF WholeInv
<1>4. PICK r : r = Call(c)
      OBVIOUS
<1>5. r.initiating = c /\ r.clazz = c /\ r.iface = 1 /\ r.phase = "load"
      BY <1>4 DEF Call
<1>6. loads' = <<r>> /\ Len(<<r>>) = 1 /\ <<r>>[1] = r /\ <<r>> # <<>>
      BY <1>1, <1>4
<1>7. \E Q : PathsInv(Q, G, depth)'
  <2>1. PICK Q, p : p = <<>> /\ Q = <<p>>
        OBVIOUS
  <2>2. /\ p \in Seq(Classes) /\ Len(p) = 0
        /\ Q \in Seq(Seq(Classes)) /\ Len(Q) = 1 /\ Q[1] = p
        BY <2>1
  <2>3. PathOf(p, r, depth)
        BY <2>1, <2>2 DEF PathOf
  <2>4. Held(p)' /\ Innermost(p, r, G)'
        BY <1>5, <2>1, <2>2 DEF Innermost, Held
  <2>5. ~ IsIn("done")'
        BY <1>5, <1>6 DEF IsIn, current
  <2>6. \A k \in 1 .. 1 : k = 1
        OBVIOUS
  <2>7. \A k \in 2 .. 1 : FALSE
        OBVIOUS
  <2>8. \A x \in Classes : IsWhole(x)'
        BY <1>1, <1>3 DEF AllWhole, IsWhole
  <2>9. Innermost(Q[1], loads[1], G)'
        BY <1>6, <2>2, <2>4 DEF Innermost, Held, LinkOK, IsUnlinked, Highest
  <2>10. Len(loads') = 1 /\ loads'[1] = r
         BY <1>6
  <2>11. PathsInv(Q, G, depth)'
         BY <2>2, <2>3, <2>5, <2>6, <2>7, <2>8, <2>9, <2>10 DEF PathsInv
  <2> QED
        BY <2>11
<1>8. ErrorsOK(E)'
      BY <1>1, <1>3 DEF BlameInv, ErrorsOK
<1>9. ASSUME NEW u \in Threads PROVE NestOK(u, E)' /\ ThrownOK(u, E)' /\ AskedOK(u, E, G)'
  <2>1. NestOK(u, E)'
        BY <1>1, <1>3 DEF BlameInv, NestOK
  <2>2. ThrownOK(u, E)'
        BY <1>1 DEF ThrownOK
  <2>3. AskedOK(u, E, G)'
    <3>1. SUFFICES ASSUME u = t, frames[t] # <<>>, c \in E \/ c \notin G
                   PROVE  Top(t).class \in E
          BY <1>1, <1>5, <1>6 DEF AskedOK, Top
    <3>2. c \in Uses[Top(t).class] /\ Top(t).class \in Classes
          BY <1>1, <1>2, <3>1, FrameFacts DEF Executes
    <3>3. \A x \in Classes : (\E d \in Uses[x] : d \in E \/ d \notin G) => x \in E
          BY DEF ErrorsIn
    <3> QED
          BY <3>1, <3>2, <3>3
  <2> QED
        BY <2>1, <2>2, <2>3
<1> QED
      BY <1>7, <1>8, <1>9 DEF WholeInv, BlameInv

(* The class that Java code uses is linked; if it is in error in the end,  *)
(* so is the one whose <clinit> uses it.                                   *)
LEMMA UsedClass ==
  ASSUME CInv, NEW E, NEW G, NEW depth, WholeInv(E, G, depth), ErrorsIn(E, G),
         NEW t \in Threads, NEW c \in Classes, Use(t, c)
  PROVE  /\ loads = <<>> \/ IsIn("done")
         /\ status[c] \in Settled
         /\ frames[t] # <<>> /\ c \in E => Top(t).class \in E
<1>1. LoadsInv /\ ClassTypes
      BY InvFacts
<1>2. CASE Executes(t, c) /\ status[c] \notin {"RAW", "READY", "ERROR"}
  <2>1. loads = <<>>
        BY <1>2, RunsFacts DEF Executes
  <2>2. IsWhole(c)
        BY <1>1, <2>1, RestWhole DEF AllWhole
  <2>3. status[c] \in Settled
        BY <1>2, <2>2, NamedFacts
  <2>4. ASSUME frames[t] # <<>>, c \in E PROVE Top(t).class \in E
    <3>1. c \in Uses[Top(t).class] /\ Top(t).class \in Classes
          BY <1>1, <1>2, <2>4, FrameFacts DEF Executes
    <3>2. \A x \in Classes : (\E d \in Uses[x] : d \in E \/ d \notin G) => x \in E
          BY DEF ErrorsIn
    <3> QED
          BY <2>4, <3>1, <3>2
  <2> QED
        BY <2>1, <2>3, <2>4
<1>3. CASE busy = t /\ IsIn("done") /\ current.initiating = c
  <2>1. Len(loads) = 1 /\ ~ IsUnlinked(c) /\ loads # <<>> /\ loads[1].initiating = c
        BY <1>1, <1>3, RestWhole DEF IsIn, current
  <2>2. status[c] \in Settled
        BY <1>1, <2>1 DEF ClassTypes, Statuses, IsUnlinked, Settled
  <2>3. AskedOK(t, E, G)
        BY DEF WholeInv, BlameInv
  <2> QED
        BY <1>3, <2>1, <2>2, <2>3 DEF AskedOK
<1> QED
      BY <1>2, <1>3, Zenon DEF Use

LEMMA WholeUse ==
  ASSUME CInv, NEW E, NEW G, NEW depth, WholeInv(E, G, depth), ErrorsIn(E, G),
         NEW t \in Threads, NEW c \in Classes, Use(t, c)
  PROVE  WholeInv(E, G, depth)'
<1>1. /\ loads' = <<>> /\ superClass' = superClass
      /\ \/ InitializeClass(t, c, frames[t]) /\ Return
         \/ (VerifyFails(c) \/ StackOverflows(c)) /\ ThrowInJava(t)
      BY Zenon DEF Use
<1>2. ClassTypes
      BY InvFacts
<1>3. /\ loads = <<>> \/ IsIn("done")
      /\ status[c] \in Settled /\ (frames[t] # <<>> /\ c \in E => Top(t).class \in E)
      BY UsedClass
<1>4. CASE (VerifyFails(c) \/ StackOverflows(c)) /\ ThrowInJava(t)
  <2>1. StaysSettled(E) /\ c \in E
        BY <1>3, <1>4, InitializeSettled
  <2>2. StackStep(t, E) /\ busy' \in {NIL, t} /\ ThrownOK(t, E)'
        BY <1>2, <1>3, <1>4, <2>1, ThrownInJava
  <2> QED
        BY <1>1, <1>3, <2>1, <2>2, WholeStep
<1>5. CASE InitializeClass(t, c, frames[t]) /\ Return
  <2>1. PICK r : r = frames[t]
        OBVIOUS
  <2>2. InitializeClass(t, c, r)
        BY <1>5, <2>1
  <2>3. StaysSettled(E)
        BY <1>3, <2>2, InitializeSettled
  <2>4. \/ frames' = [frames EXCEPT ![t] = r]
        \/ frames' = [frames EXCEPT ![t] = Append(r, NewFrame(c))]
        BY <2>2, Zenon DEF InitializeClass
  <2>5. StackStep(t, E)
    <3>1. CASE frames' = [frames EXCEPT ![t] = r]
      <4>1. UNCHANGED frames
            BY <1>2, <2>1, <3>1 DEF ClassTypes
      <4> QED
            BY <1>2, <4>1, StackSteps
    <3>2. CASE frames' = [frames EXCEPT ![t] = Append(r, NewFrame(c))]
      <4>1. Pushes(t, NewFrame(c)) /\ NewFrame(c).class = c
            BY <1>2, <2>1, <3>2, PushFrame DEF NewFrame
      <4>2. PICK n \in Nat : n = Len(frames[t])
            BY <1>2, FrameFacts
      <4>3. /\ KeepsOthers(t) /\ Len(frames'[t]) = n + 1 /\ frames'[t][n + 1] = NewFrame(c)
            /\ \A i \in 1 .. n : frames'[t][i] = frames[t][i]
            BY <4>1, <4>2 DEF Pushes
      <4>4. n + 1 <= n + 1
            OBVIOUS
      <4> QED
            BY <1>3, <4>1, <4>2, <4>3, <4>4 DEF StackStep
    <3> QED
          BY <2>4, <3>1, <3>2
  <2>6. busy' \in {NIL, t} /\ ThrownOK(t, E)'
        BY <1>5, ConstantFacts DEF ThrownOK, Return
  <2> QED
        BY <1>1, <1>3, <2>3, <2>5, <2>6, WholeStep
<1> QED
      BY <1>1, <1>4, <1>5

(* The loader puts no class in error.  It returns to the bytecode by way   *)
(* of Catch, and otherwise goes on for the class that it was called for.   *)
LEMMA LoaderBlames ==
  ASSUME LoadsInv, LoaderTypes, loads # <<>>, LoadStep
  PROVE  /\ \A c \in Classes : status'[c] = "ERROR" => status[c] = "ERROR"
         /\ loads' = <<>> => Catch /\ Len(loads) = 1
         /\ loads' # <<>> => loads'[Len(loads')].initiating = loads[Len(loads)].initiating
<1> DEFINE Goes == loads' # <<>> /\ loads'[Len(loads')].initiating = loads[Len(loads)].initiating
<1>1. /\ loads \in Seq(Calls) /\ 1 \in 1 .. Len(loads) /\ current = loads[1] /\ current \in Calls
      /\ \A c \in Classes : status[c] \in Statuses
      BY CallFacts DEF LoaderTypes
<1>2. PICK n \in Nat : n = Len(loads) /\ n # 0
      BY <1>1
<1>3. ASSUME NEW r \in Calls, loads' = [loads EXCEPT ![1] = r], r.initiating = current.initiating
      PROVE  Goes
  <2>1. Len(loads') = n /\ loads' # <<>> /\ \A k \in 1 .. n : loads'[k].initiating = loads[k].initiating
        BY <1>2, <1>3, InnermostCall
  <2>2. n \in 1 .. n
        BY <1>2
  <2> QED
        BY <1>2, <2>1, <2>2
<1>4. ASSUME NEW phase \in Phases, Goto(phase) PROVE Goes
  <2>1. PICK r \in Calls : loads' = [loads EXCEPT ![1] = r] /\ r.initiating = current.initiating
        BY <1>4, GotoCall
  <2> QED
        BY <1>3, <2>1
<1>5. "link" \in Phases /\ "throw" \in Phases /\ "done" \in Phases /\ \A s : Verdict(s) \in Phases
      BY VerdictIsPhase DEF Phases
<1>6. CASE LoadRawClass
  <2>1. PICK c \in Classes, s \in Classes \cup {NIL} : c = current.clazz /\ s = Super[c]
        BY <1>1, ConstantFacts DEF Calls
  <2>2. /\ \/ status' = [status EXCEPT ![c] = "LOADED"]
           \/ UNCHANGED status
           \/ status' = [status EXCEPT ![c] = "LOADING"]
        /\ \/ Goto("link") \/ Goto("throw")
           \/ s # NIL /\ loads' = [loads EXCEPT ![1].clazz = s, ![1].phase = Verdict(status'[s])]
        BY <1>6, <2>1, Zenon DEF LoadRawClass
  <2>3. Goes
    <3>1. CASE s # NIL /\ loads' = [loads EXCEPT ![1].clazz = s, ![1].phase = Verdict(status'[s])]
      <4>1. PICK v \in Phases : v = Verdict(status'[s])
            BY <1>5
      <4>2. PICK g \in Calls : g = loads[1]
            BY <1>1
      <4>3. PICK h : h = [g EXCEPT !.clazz = s]
            OBVIOUS
      <4>4. h \in Calls /\ h.initiating = g.initiating
        <5>1. s \in Classes
              BY <2>1, <3>1
        <5> QED
              BY <4>3, <5>1 DEF Calls
      <4>5. PICK r : r = [h EXCEPT !.phase = v]
            OBVIOUS
      <4>6. r \in Calls /\ r.initiating = current.initiating
        <5>1. r \in Calls /\ r.initiating = h.initiating
              BY <4>1, <4>4, <4>5 DEF Calls
        <5> QED
              BY <1>1, <4>2, <4>4, <5>1
      <4>7. loads' = [loads EXCEPT ![1] = r]
            BY <1>1, <3>1, <4>1, <4>2, <4>3, <4>5
      <4> QED
            BY <1>3, <4>6, <4>7
    <3>2. CASE Goto("link") \/ Goto("throw")
          BY <1>4, <1>5, <3>2
    <3> QED
          BY <2>2, <3>1, <3>2, Zenon
  <2>4. \A d \in Classes : status'[d] = "ERROR" => status[d] = "ERROR"
        BY <2>2 DEF LoaderTypes
  <2> QED
        BY <2>3, <2>4
<1>7. CASE LinkFails
  <2>1. UNCHANGED status /\ Goto("throw")
        BY <1>7, Zenon DEF LinkFails
  <2> QED
        BY <1>4, <1>5, <2>1
<1>8. CASE LinkInterface
  <2>1. IsLinking /\ current.iface <= Len(Interfaces[linked]) /\ UNCHANGED status
        BY <1>8, Zenon DEF LinkInterface
  <2>2. PICK i, v : i = Interfaces[linked][current.iface] /\ v = Verdict(status[i])
        OBVIOUS
  <2>3. i \in Classes
    <3>1. linked \in Classes /\ Interfaces[linked] \in Seq(Classes)
          BY <2>1, LinkedIsEarly, ConstantFacts
    <3>2. current.iface \in 1 .. Len(Interfaces[linked])
          BY <1>1, <2>1, <3>1 DEF Calls
    <3> QED
          BY <2>2, <3>1, <3>2
  <2>4. loads' = CASE v = "load" -> <<Call(i)>> \o loads
                   [] v = "link" -> [loads EXCEPT ![1].iface = @ + 1]
                   [] OTHER -> [loads EXCEPT ![1].phase = v]
        BY <1>8, <2>2, Zenon DEF LinkInterface
  <2>5. PICK g \in Calls : g = loads[1] /\ g = current
        BY <1>1
  <2>6. v \in Phases
        BY <1>5, <2>2
  <2>7. CASE v = "load"
    <3>1. Call(i) \in Calls /\ loads' = <<Call(i)>> \o loads
          BY <2>3, <2>4, <2>7 DEF Call, Calls, Phases
    <3>2. PICK q : q = <<Call(i)>> \o loads
          OBVIOUS
    <3>3. Len(q) = n + 1 /\ q[n + 1] = loads[n] /\ q # <<>>
          BY <1>1, <1>2, <3>1, <3>2
    <3> QED
          BY <1>2, <2>1, <3>1, <3>2, <3>3
  <2>8. CASE v = "link"
    <3>1. PICK r : r = [g EXCEPT !.iface = g.iface + 1]
          OBVIOUS
    <3>2. r \in Calls /\ r.initiating = g.initiating
          BY <2>5, <3>1 DEF Calls
    <3>3. loads' = [loads EXCEPT ![1] = r]
          BY <1>1, <2>4, <2>5, <2>8, <3>1
    <3> QED
          BY <1>3, <2>1, <2>5, <3>2, <3>3
  <2>9. CASE v \notin {"load", "link"}
    <3>1. PICK r : r = [g EXCEPT !.phase = v]
          OBVIOUS
    <3>2. r \in Calls /\ r.initiating = g.initiating
          BY <2>5, <2>6, <3>1 DEF Calls
    <3>3. loads' = [loads EXCEPT ![1] = r]
          BY <1>1, <2>4, <2>5, <2>9, <3>1
    <3> QED
          BY <1>3, <2>1, <2>5, <3>2, <3>3
  <2> QED
        BY <2>7, <2>8, <2>9
<1>9. CASE LinkClass
  <2>1. /\ status' = [status EXCEPT ![linked] = "LINKED"]
        /\ loads' = [loads EXCEPT ![1].iface = 1]
        BY <1>9, Zenon DEF LinkClass
  <2>2. PICK g \in Calls : g = loads[1] /\ g = current
        BY <1>1
  <2>3. PICK r : r = [g EXCEPT !.iface = 1]
        OBVIOUS
  <2>4. r \in Calls /\ r.initiating = g.initiating
        BY <2>2, <2>3 DEF Calls
  <2>5. loads' = [loads EXCEPT ![1] = r]
        BY <1>1, <2>1, <2>2, <2>3
  <2>6. \A c \in Classes : status'[c] = "ERROR" => status[c] = "ERROR"
    <3>1. PICK d : d = linked
          OBVIOUS
    <3>2. status' = [status EXCEPT ![d] = "LINKED"]
          BY <2>1, <3>1
    <3> QED
          BY <3>2 DEF LoaderTypes
  <2> QED
        BY <1>3, <2>2, <2>4, <2>5, <2>6
<1>10. CASE Loaded
  <2>1. UNCHANGED status /\ IF Len(loads) > 1 THEN loads' = Tail(loads) ELSE Goto("done")
        BY <1>10, Zenon DEF Loaded
  <2>2. CASE Len(loads) > 1
    <3>1. PICK q : q = Tail(loads)
          OBVIOUS
    <3>2. Len(q) = n - 1 /\ q \in Seq(Calls) /\ \A k \in 1 .. n - 1 : q[k] = loads[k + 1]
          BY <1>2, <3>1, TailCalls
    <3>3. n - 1 \in 1 .. n - 1 /\ (n - 1) + 1 = n /\ n - 1 # 0
          BY <1>2, <2>2
    <3>4. q[n - 1] = loads[n] /\ q # <<>>
          BY <3>2, <3>3
    <3> QED
          BY <1>2, <2>1, <2>2, <3>1, <3>2, <3>4
  <2>3. CASE ~ (Len(loads) > 1)
        BY <1>4, <1>5, <2>1, <2>3
  <2> QED
        BY <2>2, <2>3
<1>11. CASE Catch
  <2>1. PICK d : d = current.initiating
        OBVIOUS
  <2>2. /\ status' = [c \in Classes |-> IF c \in {d} THEN "RAW" ELSE status[c]]
        /\ loads' = IF Len(loads) = 1 THEN <<>>
                    ELSE [Tail(loads) EXCEPT ![1].phase = "throw"]
        BY <1>11, <2>1, Zenon DEF Catch, Reverted
  <2>3. \A c \in Classes : status'[c] = "ERROR" => status[c] = "ERROR"
        BY <2>2
  <2>4. CASE Len(loads) = 1
        BY <1>11, <2>2, <2>3, <2>4
  <2>5. CASE Len(loads) # 1
    <3>1. PICK q : q = Tail(loads)
          OBVIOUS
    <3>2. Len(q) = n - 1 /\ q \in Seq(Calls) /\ \A k \in 1 .. n - 1 : q[k] = loads[k + 1]
          BY <1>2, <3>1, TailCalls
    <3>3. n - 1 \in 1 .. n - 1 /\ (n - 1) + 1 = n /\ n - 1 # 0 /\ 1 \in 1 .. n - 1
          BY <1>2, <2>5
    <3>4. PICK g \in Calls : g = q[1]
          BY <3>2, <3>3
    <3>5. PICK r : r = [g EXCEPT !.phase = "throw"]
          OBVIOUS
    <3>6. r.initiating = g.initiating /\ r \in Calls
          BY <3>4, <3>5 DEF Calls, Phases
    <3>7. loads' = [q EXCEPT ![1] = r]
          BY <2>2, <2>5, <3>1, <3>2, <3>3, <3>4, <3>5
    <3>8. PICK p : p = [q EXCEPT ![1] = r]
          OBVIOUS
    <3>9. Len(p) = n - 1 /\ p \in Seq(Calls) /\ p[n - 1].initiating = q[n - 1].initiating /\ p # <<>>
          BY <3>2, <3>3, <3>4, <3>6, <3>8
    <3>10. q[n - 1] = loads[n]
          BY <3>2, <3>3
    <3> QED
          BY <1>2, <2>3, <3>7, <3>8, <3>9, <3>10
  <2> QED
        BY <2>4, <2>5
<1> QED
      BY <1>6, <1>7, <1>8, <1>9, <1>10, <1>11 DEF LoadStep

LEMMA WholeLoading ==
  ASSUME CInv, NEW E, NEW G, NEW depth, Below(E, G, depth), WholeInv(E, G, depth),
         NEW t \in Threads, Loading(t)
  PROVE  WholeInv(E, G, depth)'
<1>1. /\ busy = t /\ point = -2 /\ LoadStep
      /\ IF loads' = <<>> THEN ThrowInJava(t) ELSE UNCHANGED <<busy, point, frames>>
      BY Zenon DEF Loading
<1>2. ClassTypes /\ LoadsInv /\ LoaderTypes /\ loads # <<>> /\ BlameInv(E, G)
      BY <1>1, InvFacts DEF PointInv, ClassTypes, LoaderTypes, WholeInv
<1>3. PICK P : PathsInv(P, G, depth)
      BY DEF WholeInv
<1>4. \E Q : PathsInv(Q, G, depth)'
  <2>1. \A x \in Classes : status[x] = "ERROR" => x \in E
        BY <1>2 DEF BlameInv, ErrorsOK
  <2> QED
        BY <1>1, <1>2, <1>3, <2>1, PathsStep
<1>5. /\ \A c \in Classes : status'[c] = "ERROR" => status[c] = "ERROR"
      /\ loads' = <<>> => Catch /\ Len(loads) = 1
      /\ loads' # <<>> => loads'[Len(loads')].initiating = loads[Len(loads)].initiating
      BY <1>1, <1>2, LoaderBlames
<1>6. ErrorsOK(E)'
      BY <1>2, <1>5 DEF BlameInv, ErrorsOK
<1>7. \A u \in Threads : NestOK(u, E) /\ AskedOK(u, E, G)
      BY <1>2 DEF BlameInv
<1>8. CASE loads' = <<>>
  <2>1. IsIn("throw") /\ Len(loads) = 1 /\ current = loads[Len(loads)]
        BY <1>5, <1>8 DEF Catch, current
  <2>2. current.initiating \notin G
        BY <1>2, <1>3, <2>1, ThrowFacts
  <2>3. frames[t] # <<>> => Top(t).class \in E
        BY <1>1, <1>2, <1>7, <2>1, <2>2 DEF AskedOK
  <2>4. StackStep(t, E) /\ busy' \in {NIL, t} /\ ThrownOK(t, E)'
        BY <1>1, <1>2, <1>8, <2>3, ThrownInJava
  <2>5. ASSUME NEW u \in Threads PROVE NestOK(u, E)' /\ ThrownOK(u, E)' /\ AskedOK(u, E, G)'
    <3>1. CASE u = t
          BY <1>2, <1>7, <1>8, <2>4, <3>1, NestStep DEF AskedOK
    <3>2. CASE u # t
      <4>1. frames'[u] = frames[u] /\ busy' # u
            BY <2>4, <3>2, ConstantFacts DEF StackStep, KeepsOthers
      <4> QED
            BY <1>7, <4>1 DEF NestOK, ThrownOK, AskedOK
    <3> QED
          BY <3>1, <3>2
  <2> QED
        BY <1>4, <1>6, <2>5 DEF WholeInv, BlameInv
<1>9. CASE loads' # <<>>
  <2>1. UNCHANGED <<busy, point, frames>>
        BY <1>1, <1>9
  <2>2. ASSUME NEW u \in Threads PROVE NestOK(u, E)' /\ ThrownOK(u, E)' /\ AskedOK(u, E, G)'
    <3>1. NestOK(u, E)'
          BY <1>7, <2>1 DEF NestOK
    <3>2. ThrownOK(u, E)'
          BY <1>1, <2>1 DEF ThrownOK
    <3>3. AskedOK(u, E, G)'
          BY <1>2, <1>5, <1>7, <1>9, <2>1 DEF AskedOK, Top
    <3> QED
          BY <3>1, <3>2, <3>3
  <2> QED
        BY <1>4, <1>6, <2>2 DEF WholeInv, BlameInv
<1> QED
      BY <1>8, <1>9

LEMMA WholeRest ==
  ASSUME NEW E, NEW G, NEW depth, WholeInv(E, G, depth),
         \/ \E t \in Threads, c \in Classes : Lock(t, c) \/ Unlock(t, c)
         \/ \E t \in Threads, u \in Threads : Interrupt(t, u)
         \/ Finished \/ UNCHANGED vars
  PROVE  WholeInv(E, G, depth)'
<1>1. UNCHANGED <<classVars, frames, busy, point>>
  <2>1. CASE \E t \in Threads, c \in Classes : Lock(t, c) \/ Unlock(t, c)
        BY <2>1, Zenon DEF Lock, Unlock
  <2>2. CASE \E t \in Threads, u \in Threads : Interrupt(t, u)
        BY <2>2, Zenon DEF Interrupt
  <2>3. CASE Finished \/ UNCHANGED vars
        BY <2>3 DEF Finished, vars
  <2> QED
        BY <2>1, <2>2, <2>3
<1> QED
      BY <1>1, SteadyStep DEF classVars, loaderVars

LEMMA WholeInit ==
  ASSUME NEW E, NEW G, NEW depth, Init
  PROVE  WholeInv(E, G, depth)
<1>1. /\ status = [c \in Classes |-> "RAW"] /\ superClass = [c \in Classes |-> NIL] /\ loads = <<>>
      /\ frames = [t \in Threads |-> <<>>] /\ busy = NIL
      BY DEF Init, LoaderInit
<1>2. ErrorsOK(E)
      BY <1>1 DEF ErrorsOK
<1>3. ASSUME NEW t \in Threads PROVE NestOK(t, E) /\ ThrownOK(t, E) /\ AskedOK(t, E, G)
  <2>1. Len(frames[t]) = 0 /\ busy # t
        BY <1>1, ConstantFacts
  <2>2. \A i \in 1 .. Len(frames[t]) - 1 : FALSE
        BY <2>1
  <2> QED
        BY <2>1, <2>2 DEF NestOK, ThrownOK, AskedOK
<1>4. \E Q : PathsInv(Q, G, depth)
  <2>1. PICK Q : Q = <<>>
        OBVIOUS
  <2>2. /\ Q \in Seq(Seq(Classes)) /\ Len(Q) = 0 /\ Len(loads) = 0
        /\ (\A k \in 1 .. Len(loads) : FALSE) /\ \A k \in 2 .. Len(loads) : FALSE
        BY <1>1, <2>1
  <2>3. \A c \in Classes : IsWhole(c)
        BY <1>1 DEF IsWhole
  <2>4. ~ IsIn("done")
        BY <1>1 DEF IsIn
  <2>5. PathsInv(Q, G, depth)
        BY <1>1, <2>2, <2>3, <2>4 DEF PathsInv
  <2> QED
        BY <2>5
<1> QED
      BY <1>2, <1>3, <1>4 DEF WholeInv, BlameInv

LEMMA WholeNext ==
  ASSUME NEW E, NEW G, NEW depth, Below(E, G, depth),
         CInv, WholeInv(E, G, depth), [Next]_vars
  PROVE  WholeInv(E, G, depth)'
<1>1. ErrorsIn(E, G)
      BY DEF Below
<1>2. ASSUME NEW t \in Threads, Progress(t) PROVE WholeInv(E, G, depth)'
  <2>1. CASE Loading(t) \/ Case1(t) \/ Case2(t) \/ Case3(t) \/ Case4(t) \/ Case5(t) \/ Case6(t)
        BY <1>1, <2>1, WholeLoading, WholeCase1, WholeCase3, WholeCase4, WholeCase5
  <2>2. CASE JavaEnds(t) \/ PendingException(t) \/ ClinitException(t)
        BY <1>1, <2>2, WholeRest, WholeClinitEnds, WholePending, WholeClinitException DEF JavaEnds
  <2>3. CASE \E c \in Classes : busy = t /\ Use(t, c)
        BY <1>1, <2>3, WholeUse
  <2> QED
        BY <1>2, <2>1, <2>2, <2>3 DEF Progress
<1>3. ASSUME NEW t \in Threads, NEW c \in Classes, Load(t, c) \/ Use(t, c) \/ Lock(t, c)
      PROVE  WholeInv(E, G, depth)'
      BY <1>1, <1>3, WholeLoad, WholeUse, WholeRest
<1>4. ASSUME NEW t \in Threads, NEW u \in Threads, Interrupt(t, u) PROVE WholeInv(E, G, depth)'
      BY <1>4, WholeRest
<1>5. CASE Finished \/ UNCHANGED vars
      BY <1>5, WholeRest
<1> QED
      BY <1>2, <1>3, <1>4, <1>5, Zenon DEF Next

(* A load that fails leaves every class as it was before, or linked:       *)
(* LoadsAreWhole.  The hypothesis: a class that can fail to load, for its  *)
(* class file or because a class it names cannot be loaded or is in error, *)
(* is not the superclass of another one; and class files do not name one   *)
(* another in circles.  Without it LoadsAreWhole is wrong of the code,     *)
(* which reverts one class of those that it has loaded.                    *)
THEOREM LoadsLeaveClassesWhole ==
  ASSUME NEW E, NEW G, NEW depth, Below(E, G, depth)
  PROVE  Spec => []LoadsAreWhole
<1>1. Init => WholeInv(E, G, depth)
      BY WholeInit
<1>2. CInv /\ WholeInv(E, G, depth) /\ [Next]_vars => WholeInv(E, G, depth)'
      BY WholeNext
<1>3. CInv /\ WholeInv(E, G, depth) => LoadsAreWhole
      BY RestWhole, InvFacts DEF LoadsAreWhole, AllWhole
<1> QED
      BY <1>1, <1>2, <1>3, ClassInvariant, PTL DEF Spec

-----------------------------------------------------------------------------
(* The superclass comes first                                              *)

(* t need not wait for d any more: it is settled, or t initializes it      *)
(* itself, in a frame further down.                                        *)
Reached(t, d) == status[d] \in {"READY", "ERROR"} \/ initThread[d] = t
SuperReached(t, c) == Super[c] # NIL => Reached(t, Super[c])

(* The frame of a class that waits is below the one of its superclass.     *)
BelowSuper(t) ==
  \A i \in 1 .. Len(frames[t]) - 1 :
    ~ frames[t][i].clinit => frames[t][i + 1].class = Super[frames[t][i].class]

(* t is about to call <clinit> when step 7 is behind it.                   *)
Resumes(t) == (busy # t /\ TopAt(t, {4})) \/ (busy = t /\ point = 4)
SuperBehind(t) == Resumes(t) => SuperReached(t, Top(t).class)

SuperInv == \A t \in Threads : BelowSuper(t) /\ SuperBehind(t)

(* What a step of t does to the classes: settled ones stay so, and nobody  *)
(* but t stops being an initializer.                                       *)
Settles(t) ==
  \A d \in Classes :
    /\ status[d] \in {"READY", "ERROR"} => status'[d] \in {"READY", "ERROR"}
    /\ \/ initThread[d] \in {NIL, t} \/ initThread'[d] = initThread[d]
       \/ status'[d] \in {"READY", "ERROR"}

LEMMA SuperStep ==
  ASSUME CInv, SuperInv, NEW t \in Threads, KeepsOthers(t), busy \in {NIL, t}, busy' \in {NIL, t},
         Settles(t), BelowSuper(t)', SuperBehind(t)'
  PROVE  SuperInv'
<1> SUFFICES ASSUME NEW u \in Threads, u # t PROVE BelowSuper(u)' /\ SuperBehind(u)'
    BY DEF SuperInv
<1>1. /\ frames'[u] = frames[u] /\ Top(u)' = Top(u) /\ busy # u /\ busy' # u
      /\ BelowSuper(u) /\ SuperBehind(u) /\ ClassTypes
      BY ConstantFacts, InvFacts DEF KeepsOthers, Top, SuperInv
<1>2. BelowSuper(u)'
      BY <1>1 DEF BelowSuper
<1>3. ASSUME Resumes(u)' PROVE SuperReached(u, Top(u).class)'
  <2>1. frames[u] # <<>> /\ Resumes(u)
        BY <1>1, <1>3 DEF Resumes, TopAt
  <2>2. PICK c : c = Top(u).class
        OBVIOUS
  <2>3. c \in Classes /\ SuperReached(u, c)
        BY <1>1, <2>1, <2>2, FrameFacts DEF SuperBehind
  <2>4. PICK d \in Classes \cup {NIL} : d = Super[c]
        BY <2>3, ConstantFacts
  <2>5. d # NIL => Reached(u, d)
        BY <2>3, <2>4 DEF SuperReached
  <2>6. d # NIL => Reached(u, d)'
        BY <2>5, ConstantFacts DEF Reached, Settles
  <2>7. SuperReached(u, c)'
        BY <2>4, <2>6 DEF SuperReached
  <2> QED
        BY <1>1, <2>2, <2>7
<1> QED
      BY <1>2, <1>3 DEF SuperBehind

(* Where the frames below the top remain.                                  *)
LEMMA BelowKept ==
  ASSUME ClassTypes, NEW t \in Threads, BelowSuper(t)
  PROVE  /\ UNCHANGED frames => BelowSuper(t)'
         /\ \A f : Replaces(t, f) /\ f.class = Top(t).class => BelowSuper(t)'
         /\ frames[t] # <<>> /\ Drops(t) => BelowSuper(t)'
<1>1. /\ Len(frames[t]) \in Nat /\ Top(t) = frames[t][Len(frames[t])]
      /\ \A i \in 1 .. Len(frames[t]) : frames[t][i] \in Frame
      BY FrameFacts
<1>2. PICK n \in Nat : n = Len(frames[t])
      BY <1>1
<1>3. ASSUME UNCHANGED frames PROVE BelowSuper(t)'
      BY <1>3 DEF BelowSuper
<1>4. ASSUME NEW f, Replaces(t, f), f.class = Top(t).class PROVE BelowSuper(t)'
  <2>1. /\ Len(frames'[t]) = n /\ frames'[t][n] = f
        /\ \A i \in 1 .. n - 1 : frames'[t][i] = frames[t][i]
        /\ f.class = frames[t][n].class
        BY <1>1, <1>2, <1>4 DEF Replaces
  <2>2. ASSUME NEW i \in 1 .. n - 1 PROVE frames'[t][i + 1].class = frames[t][i + 1].class
    <3>1. CASE i + 1 = n
          BY <2>1, <3>1
    <3>2. CASE i + 1 # n
      <4>1. i + 1 \in 1 .. n - 1
            BY <3>2
      <4> QED
            BY <2>1, <4>1
    <3> QED
          BY <3>1, <3>2
  <2> QED
        BY <1>2, <2>1, <2>2 DEF BelowSuper
<1>5. ASSUME frames[t] # <<>>, Drops(t) PROVE BelowSuper(t)'
  <2>1. /\ Len(frames'[t]) = n - 1
        /\ \A i \in 1 .. n - 1 : \/ frames'[t][i] = frames[t][i]
                                 \/ i = n - 1 /\ frames'[t][i] = [frames[t][i] EXCEPT !.clinit = FALSE]
        BY <1>2, <1>5 DEF Drops
  <2>2. ASSUME NEW i \in 1 .. (n - 1) - 1, ~ frames'[t][i].clinit
        PROVE  frames'[t][i + 1].class = Super[frames'[t][i].class]
    <3>1. i \in 1 .. n - 1 /\ i + 1 \in 1 .. n - 1 /\ i # n - 1 /\ i + 1 \in 1 .. n
          OBVIOUS
    <3>2. frames'[t][i] = frames[t][i]
          BY <2>1, <3>1
    <3>3. PICK g \in Frame : g = frames[t][i + 1]
          BY <1>1, <1>2, <3>1
    <3>4. [g EXCEPT !.clinit = FALSE].class = g.class
          BY DEF Frame
    <3>5. frames'[t][i + 1].class = frames[t][i + 1].class
          BY <2>1, <3>1, <3>3, <3>4
    <3>6. frames[t][i + 1].class = Super[frames[t][i].class]
          BY <1>2, <2>2, <3>1, <3>2 DEF BelowSuper
    <3> QED
          BY <3>2, <3>5, <3>6
  <2> QED
        BY <2>1, <2>2 DEF BelowSuper
<1> QED
      BY <1>3, <1>4, <1>5

(* A frame for a superclass, over the one that waits, is alright; the      *)
(* other ones are over a <clinit>.                                         *)
LEMMA BelowPushed ==
  ASSUME ClassTypes, NEW t \in Threads, BelowSuper(t), NEW c, Pushes(t, NewFrame(c)), InJava(t)
  PROVE  BelowSuper(t)' /\ ~ TopAt(t, {4})'
<1>1. /\ Len(frames[t]) \in Nat /\ Top(t) = frames[t][Len(frames[t])]
      /\ (frames[t] = <<>> <=> Len(frames[t]) = 0)
      BY FrameFacts
<1>2. PICK n \in Nat : n = Len(frames[t])
      BY <1>1
<1>3. /\ KeepsOthers(t) /\ Len(frames'[t]) = n + 1 /\ frames'[t][n + 1] = NewFrame(c)
      /\ \A i \in 1 .. n : frames'[t][i] = frames[t][i]
      BY <1>2 DEF Pushes
<1>4. ASSUME NEW i \in 1 .. n, ~ frames'[t][i].clinit
      PROVE  frames'[t][i + 1].class = Super[frames'[t][i].class]
  <2>1. CASE i = n
    <3>1. Top(t).clinit
          BY <1>1, <1>2, <2>1 DEF InJava
    <3> QED
          BY <1>1, <1>2, <1>3, <1>4, <2>1, <3>1
  <2>2. CASE i # n
    <3>1. i \in 1 .. n - 1 /\ i + 1 \in 1 .. n
          BY <2>2
    <3> QED
          BY <1>2, <1>3, <1>4, <3>1 DEF BelowSuper
  <2> QED
        BY <2>1, <2>2
<1>5. BelowSuper(t)'
  <2>1. (n + 1) - 1 = n
        OBVIOUS
  <2> QED
        BY <1>3, <1>4, <2>1 DEF BelowSuper
<1>6. ~ TopAt(t, {4})'
  <2>1. Top(t)' = NewFrame(c)
        BY <1>3 DEF Top, Last, KeepsOthers
  <2> QED
        BY <2>1 DEF TopAt, NewFrame
<1> QED
      BY <1>5, <1>6

(* The frame of a superclass is popped: it is reached.                     *)
LEMMA SuperPopped ==
  ASSUME CInv, SuperInv, NEW t \in Threads, frames[t] # <<>>, PopFrame(t), Return,
         NEW d, d = Top(t).class, Reached(t, d)'
  PROVE  KeepsOthers(t) /\ BelowSuper(t)' /\ SuperBehind(t)'
<1>1. ClassTypes /\ BelowSuper(t)
      BY InvFacts DEF SuperInv
<1>2. Pops(t) /\ Drops(t)
      BY <1>1, PopTop, PopDrops
<1>3. BelowSuper(t)'
      BY <1>1, <1>2, BelowKept
<1>4. PICK n \in Nat : n = Len(frames[t])
      BY <1>1, FrameFacts
<1>5. /\ KeepsOthers(t) /\ Len(frames'[t]) = n - 1
      /\ (\A i \in 1 .. n - 1 : frames'[t][i] = frames[t][i])
      /\ frames[t][n] = Top(t) /\ n # 0
      BY <1>1, <1>2, <1>4, FrameFacts DEF Pops
<1>6. ASSUME Resumes(t)' PROVE SuperReached(t, Top(t).class)'
  <2>1. frames'[t] # <<>> /\ ~ Top(t)'.clinit
        BY <1>6, ConstantFacts DEF Resumes, TopAt, Return
  <2>2. n - 1 # 0 /\ Top(t)' = frames'[t][n - 1]
    <3>1. frames'[t] \in Seq(Frame)
          BY <1>5 DEF KeepsOthers
    <3> QED
          BY <1>5, <2>1, <3>1, EmptySeq DEF Top, Last
  <2>3. n - 1 \in 1 .. n - 1 /\ (n - 1) + 1 = n
        BY <1>5, <2>2
  <2>4. Top(t)' = frames[t][n - 1]
        BY <1>5, <2>2, <2>3
  <2>5. frames[t][n].class = Super[frames[t][n - 1].class]
        BY <1>1, <1>4, <2>1, <2>3, <2>4 DEF BelowSuper
  <2>6. PICK c : c = frames[t][n - 1].class
        OBVIOUS
  <2>7. d = Super[c]
        BY <1>5, <2>5, <2>6
  <2>8. SuperReached(t, c)'
        BY <2>7 DEF SuperReached
  <2> QED
        BY <2>4, <2>6, <2>8 DEF SuperReached
<1> QED
      BY <1>3, <1>5, <1>6 DEF SuperBehind

LEMMA SameSettles ==
  ASSUME NEW t \in Threads, UNCHANGED <<status, initThread>>
  PROVE  Settles(t)
BY DEF Settles

LEMMA SuperCase1 ==
  ASSUME CInv, SuperInv, NEW t \in Threads, Case1(t) \/ Case2(t)
  PROVE  SuperInv'
<1>0. PICK c : c = Top(t).class
      OBVIOUS
<1>1. /\ At(t, 1) \/ At(t, 2)
      /\ UNCHANGED status
      /\ \/ MarkClass(t, c) /\ initThread[c] \in {NIL, t}
         \/ FallThrough(t, 2) /\ UNCHANGED <<frames, initThread>>
         \/ InState(t, 2) /\ Return /\ UNCHANGED initThread
      BY <1>0, Zenon DEF Case1, Case2, OthersInitialize
<1>2. frames[t] # <<>> /\ ~ Top(t).clinit /\ busy \in {NIL, t} /\ ClassTypes /\ BelowSuper(t)
      BY <1>1, AtFacts, InvFacts DEF SuperInv
<1>3. c \in Classes
      BY <1>0, <1>2, FrameFacts
<1>4. CASE MarkClass(t, c) /\ initThread[c] \in {NIL, t} /\ IsSettled(t, c)
  <2>1. PopFrame(t) /\ Return /\ UNCHANGED initThread
        BY <1>4, Zenon DEF MarkClass
  <2>2. Reached(t, c)'
        BY <1>1, <1>4, <2>1 DEF IsSettled, Reached
  <2>3. KeepsOthers(t) /\ BelowSuper(t)' /\ SuperBehind(t)'
        BY <1>0, <1>2, <2>1, <2>2, SuperPopped
  <2> QED
        BY <1>1, <1>2, <2>1, <2>3, SameSettles, SuperStep DEF Return
<1>5. CASE MarkClass(t, c) /\ initThread[c] \in {NIL, t} /\ ~ IsSettled(t, c)
  <2>1. initThread' = [initThread EXCEPT ![c] = t] /\ FallThrough(t, 3) /\ UNCHANGED frames
        BY <1>5, Zenon DEF MarkClass
  <2>2. Settles(t)
        BY <1>1, <1>2, <1>5, <2>1 DEF Settles, ClassTypes
  <2>3. KeepsOthers(t) /\ BelowSuper(t)'
        BY <1>2, <2>1, BelowKept DEF KeepsOthers, ClassTypes
  <2>4. SuperBehind(t)' /\ busy' = t
        BY <2>1 DEF FallThrough, SuperBehind, Resumes
  <2> QED
        BY <1>2, <2>2, <2>3, <2>4, SuperStep
<1>6. CASE FallThrough(t, 2) /\ UNCHANGED <<frames, initThread>>
  <2>1. KeepsOthers(t) /\ BelowSuper(t)'
        BY <1>2, <1>6, BelowKept DEF KeepsOthers, ClassTypes
  <2>2. SuperBehind(t)' /\ busy' = t
        BY <1>6 DEF FallThrough, SuperBehind, Resumes
  <2> QED
        BY <1>1, <1>2, <1>6, <2>1, <2>2, SameSettles, SuperStep
<1>7. CASE InState(t, 2) /\ Return /\ UNCHANGED initThread
  <2>1. 2 \in 1..6
        OBVIOUS
  <2>2. PICK f \in Frame : Replaces(t, f) /\ f.class = Top(t).class /\ f.state = 2
        BY <1>2, <1>7, <2>1, NextState
  <2>3. KeepsOthers(t) /\ BelowSuper(t)'
        BY <1>2, <2>2, BelowKept DEF Replaces
  <2>4. Top(t)' = f
    <3>1. Len(frames[t]) # 0
          BY <1>2, FrameFacts
    <3> QED
          BY <2>2, <3>1, TopAfter
  <2>5. SuperBehind(t)' /\ busy' = NIL
        BY <1>7, <2>2, <2>4, ConstantFacts DEF Return, SuperBehind, Resumes, TopAt
  <2> QED
        BY <1>1, <1>2, <1>7, <2>3, <2>5, SameSettles, SuperStep
<1> QED
      BY <1>1, <1>4, <1>5, <1>6, <1>7

(* initializeClass, and its failures, leave settled classes so.            *)
LEMMA InitializeSettles ==
  ASSUME ClassTypes, NEW t \in Threads, NEW u, NEW c, NEW frs, UNCHANGED initThread
  PROVE  /\ InitializeClass(u, c, frs) /\ status[c] \notin {"READY", "ERROR"} => Settles(t)
         /\ VerifyFails(c) \/ StackOverflows(c) => Settles(t)
<1>1. ASSUME InitializeClass(u, c, frs), status[c] \notin {"READY", "ERROR"} PROVE Settles(t)
  <2>1. \/ status' = [status EXCEPT ![c] = "READY"] \/ status' = [status EXCEPT ![c] = "VERIFIED"]
        BY <1>1, Zenon DEF InitializeClass
  <2> QED
        BY <1>1, <2>1 DEF Settles, ClassTypes
<1>2. ASSUME VerifyFails(c) \/ StackOverflows(c) PROVE Settles(t)
  <2>1. status' = [status EXCEPT ![c] = "ERROR"] \/ UNCHANGED status
        BY <1>2, Zenon DEF VerifyFails, StackOverflows
  <2> QED
        BY <2>1 DEF Settles, ClassTypes
<1> QED
      BY <1>1, <1>2

LEMMA SuperCase3 ==
  ASSUME CInv, SuperInv, AllWhole, NEW t \in Threads, Case3(t)
  PROVE  SuperInv'
<1>0. PICK c, s, f : c = Top(t).class /\ s = superClass[c] /\ f = [Top(t) EXCEPT !.state = 4]
      OBVIOUS
<1>1. At(t, 3) /\ UNCHANGED initThread
      BY Zenon DEF Case3
<1>2. frames[t] # <<>> /\ ~ Top(t).clinit /\ busy \in {NIL, t} /\ ClassTypes /\ BelowSuper(t)
      BY <1>1, AtFacts, InvFacts DEF SuperInv
<1>3. \/ ~ NeedsSuper(c) /\ FallThrough(t, 4) /\ UNCHANGED <<frames, status>>
      \/ /\ UNCHANGED status \/ VerifyFails(s) \/ StackOverflows(s)
         /\ InState(t, 4) /\ Throw(t)
      \/ /\ NeedsSuper(c) /\ status[s] # "ERROR" /\ Return
         /\ InitializeClass(t, s, Front(frames[t]) \o <<f>>)
      BY <1>0, Zenon DEF Case3
<1>4. Top(t) \in Frame /\ c \in Classes /\ s = Super[c] /\ Len(frames[t]) # 0
      BY <1>0, <1>2, FrameFacts, FrameClass
<1>5. f \in Frame /\ f.class = c /\ f.state = 4 /\ ~ f.clinit
      BY <1>0, <1>2, <1>4 DEF Frame
<1>6. CASE ~ NeedsSuper(c) /\ FallThrough(t, 4) /\ UNCHANGED <<frames, status>>
  <2>1. KeepsOthers(t) /\ BelowSuper(t)'
        BY <1>2, <1>6, BelowKept DEF KeepsOthers, ClassTypes
  <2>2. s # NIL => status[s] = "READY"
        BY <1>0, <1>6 DEF NeedsSuper
  <2>3. SuperReached(t, c)'
        BY <1>4, <1>6, <2>2 DEF SuperReached, Reached
  <2>4. Top(t)' = Top(t)
        BY <1>6 DEF Top
  <2>5. SuperBehind(t)' /\ busy' = t
        BY <1>0, <1>6, <2>3, <2>4 DEF SuperBehind, FallThrough
  <2> QED
        BY <1>1, <1>2, <1>6, <2>1, <2>5, SameSettles, SuperStep
<1>7. CASE /\ UNCHANGED status \/ VerifyFails(s) \/ StackOverflows(s)
           /\ InState(t, 4) /\ Throw(t)
  <2>1. Settles(t)
        BY <1>1, <1>2, <1>7, SameSettles, InitializeSettles
  <2>2. Replaces(t, f)
    <3>1. 4 \in 1..6
          OBVIOUS
    <3> QED
          BY <1>0, <1>2, <1>7, <3>1, ChangeTop
  <2>3. KeepsOthers(t) /\ BelowSuper(t)'
        BY <1>0, <1>2, <1>5, <2>2, BelowKept DEF Replaces
  <2>4. SuperBehind(t)' /\ busy' = t
        BY <1>7 DEF Throw, SuperBehind, Resumes
  <2> QED
        BY <1>2, <2>1, <2>3, <2>4, SuperStep
<1>8. CASE /\ NeedsSuper(c) /\ status[s] # "ERROR" /\ Return
           /\ InitializeClass(t, s, Front(frames[t]) \o <<f>>)
  <2>1. status[s] # "READY" /\ s \in Classes
        BY <1>0, <1>4, <1>8, ConstantFacts DEF NeedsSuper
  <2>2. Settles(t) /\ busy' = NIL
        BY <1>1, <1>2, <1>8, <2>1, InitializeSettles DEF Return
  <2>3. CASE NothingToRun(s)
    <3>1. /\ status' = [status EXCEPT ![s] = "READY"]
          /\ frames' = [frames EXCEPT ![t] = Front(frames[t]) \o <<f>>]
          BY <1>8, <2>3, Zenon DEF InitializeClass
    <3>2. Replaces(t, f)
          BY <1>2, <1>5, <3>1, ReplaceTop
    <3>3. KeepsOthers(t) /\ BelowSuper(t)'
          BY <1>0, <1>2, <1>5, <3>2, BelowKept DEF Replaces
    <3>4. Top(t)' = f
          BY <1>4, <3>2, TopAfter
    <3>5. status'[s] = "READY"
          BY <1>2, <2>1, <3>1 DEF ClassTypes
    <3>6. SuperReached(t, c)'
          BY <1>4, <3>5 DEF SuperReached, Reached
    <3>7. SuperBehind(t)'
          BY <1>5, <3>4, <3>6 DEF SuperBehind
    <3> QED
          BY <1>2, <2>2, <3>3, <3>7, SuperStep
  <2>4. CASE ~ NothingToRun(s)
    <3>1. frames' = [frames EXCEPT ![t] = Append(Front(frames[t]) \o <<f>>, NewFrame(s))]
          BY <1>8, <2>4, Zenon DEF InitializeClass
    <3>2. /\ KeepsOthers(t)
          /\ Len(frames'[t]) = Len(frames[t]) + 1 /\ frames'[t][Len(frames[t]) + 1] = NewFrame(s)
          /\ frames'[t][Len(frames[t])] = f
          /\ \A i \in 1 .. Len(frames[t]) - 1 : frames'[t][i] = frames[t][i]
          BY <1>2, <1>5, <2>1, <3>1, ReplaceAndPush
    <3>3. PICK n \in Nat : n = Len(frames[t])
          BY <1>2, FrameFacts
    <3>4. NewFrame(s).class = s /\ NewFrame(s).state = 1
          BY DEF NewFrame
    <3>5. ASSUME NEW i \in 1 .. n, ~ frames'[t][i].clinit
          PROVE  frames'[t][i + 1].class = Super[frames'[t][i].class]
      <4>1. CASE i = n
            BY <1>4, <1>5, <3>2, <3>3, <3>4, <4>1
      <4>2. CASE i = n - 1
        <5>1. i \in 1 .. n - 1 /\ i + 1 = n
              BY <4>2
        <5>2. frames[t][n].class = c
              BY <1>0, <1>2, <3>3, FrameFacts
        <5>3. frames[t][n].class = Super[frames[t][i].class]
              BY <1>2, <3>2, <3>3, <3>5, <5>1 DEF BelowSuper
        <5> QED
              BY <1>5, <3>2, <3>3, <5>1, <5>2, <5>3
      <4>3. CASE i \notin {n, n - 1}
        <5>1. i \in 1 .. n - 1 /\ i + 1 \in 1 .. n - 1
              BY <4>3
        <5> QED
              BY <1>2, <3>2, <3>3, <3>5, <5>1 DEF BelowSuper
      <4> QED
            BY <4>1, <4>2, <4>3
    <3>6. BelowSuper(t)'
      <4>1. (n + 1) - 1 = n
            OBVIOUS
      <4> QED
            BY <3>2, <3>3, <3>5, <4>1 DEF BelowSuper
    <3>7. Top(t)' = NewFrame(s)
          BY <3>2, <3>3 DEF Top, Last, KeepsOthers
    <3>8. SuperBehind(t)'
          BY <2>2, <3>4, <3>7, ConstantFacts DEF SuperBehind, Resumes, TopAt
    <3> QED
          BY <1>2, <2>2, <3>2, <3>6, <3>8, SuperStep
  <2> QED
        BY <2>3, <2>4
<1> QED
      BY <1>3, <1>6, <1>7, <1>8

LEMMA SuperCase4 ==
  ASSUME CInv, SuperInv, NEW t \in Threads, Case4(t)
  PROVE  SuperInv'
<1>1. /\ At(t, 4) /\ UNCHANGED <<status, initThread>>
      /\ \/ /\ frames' = [frames EXCEPT ![t] =
                 Front(@) \o <<[Top(t) EXCEPT !.state = 5, !.clinit = TRUE]>>]
            /\ Return
         \/ FallThrough(t, 5) /\ UNCHANGED frames
      BY Zenon DEF Case4
<1>2. frames[t] # <<>> /\ busy \in {NIL, t} /\ ClassTypes /\ BelowSuper(t)
      BY <1>1, AtFacts, InvFacts DEF SuperInv
<1>3. CASE /\ frames' = [frames EXCEPT ![t] =
                Front(@) \o <<[Top(t) EXCEPT !.state = 5, !.clinit = TRUE]>>]
           /\ Return
  <2>1. PICK g \in Frame : g = Top(t)
        BY <1>2, FrameFacts
  <2>2. PICK f : f = [Top(t) EXCEPT !.state = 5, !.clinit = TRUE]
        OBVIOUS
  <2>3. f = [class |-> g.class, state |-> 5, clinit |-> TRUE]
        BY <2>1, <2>2 DEF Frame
  <2>4. f \in Frame /\ f.class = Top(t).class /\ f.state = 5
        BY <2>1, <2>3 DEF Frame
  <2>5. Replaces(t, f)
    <3>1. frames' = [frames EXCEPT ![t] = Front(@) \o <<f>>]
          BY <1>3, <2>2
    <3> QED
          BY <1>2, <2>4, <3>1, ReplaceTop
  <2>6. KeepsOthers(t) /\ BelowSuper(t)'
        BY <1>2, <2>4, <2>5, BelowKept DEF Replaces
  <2>7. Top(t)' = f
    <3>1. Len(frames[t]) # 0
          BY <1>2, FrameFacts
    <3> QED
          BY <2>5, <3>1, TopAfter
  <2>8. SuperBehind(t)' /\ busy' = NIL
        BY <1>3, <2>4, <2>7, ConstantFacts DEF Return, SuperBehind, Resumes, TopAt
  <2> QED
        BY <1>1, <1>2, <2>6, <2>8, SameSettles, SuperStep
<1>4. CASE FallThrough(t, 5) /\ UNCHANGED frames
  <2>1. KeepsOthers(t) /\ BelowSuper(t)'
        BY <1>2, <1>4, BelowKept DEF KeepsOthers, ClassTypes
  <2>2. SuperBehind(t)' /\ busy' = t
        BY <1>4 DEF FallThrough, SuperBehind, Resumes
  <2> QED
        BY <1>1, <1>2, <2>1, <2>2, SameSettles, SuperStep
<1> QED
      BY <1>1, <1>3, <1>4

LEMMA SuperCase5 ==
  ASSUME CInv, SuperInv, NEW t \in Threads, Case5(t) \/ Case6(t)
  PROVE  SuperInv'
<1>0. PICK c : c = Top(t).class
      OBVIOUS
<1>1. /\ At(t, 5) \/ At(t, 6)
      /\ \/ UnmarkClass(t, c)
         \/ InState(t, 6) /\ Return /\ UNCHANGED <<status, initThread>>
      BY <1>0, Zenon DEF Case5, Case6
<1>2. frames[t] # <<>> /\ ~ Top(t).clinit /\ busy \in {NIL, t} /\ ClassTypes /\ BelowSuper(t)
      BY <1>1, AtFacts, InvFacts DEF SuperInv
<1>3. CASE UnmarkClass(t, c)
  <2>1. /\ initThread' = [initThread EXCEPT ![c] = NIL] /\ status' = [status EXCEPT ![c] = "READY"]
        /\ PopFrame(t) /\ Return
        BY <1>3 DEF UnmarkClass
  <2>2. Settles(t)
        BY <1>2, <2>1 DEF Settles, ClassTypes
  <2>3. c \in Classes
        BY <1>0, <1>2, FrameFacts
  <2>4. Reached(t, c)'
        BY <1>2, <2>1, <2>3 DEF Reached, ClassTypes
  <2>5. KeepsOthers(t) /\ BelowSuper(t)' /\ SuperBehind(t)'
        BY <1>0, <1>2, <2>1, <2>4, SuperPopped
  <2> QED
        BY <1>2, <2>1, <2>2, <2>5, SuperStep DEF Return
<1>4. CASE InState(t, 6) /\ Return /\ UNCHANGED <<status, initThread>>
  <2>1. 6 \in 1..6
        OBVIOUS
  <2>2. PICK f \in Frame : Replaces(t, f) /\ f.class = Top(t).class /\ f.state = 6
        BY <1>2, <1>4, <2>1, NextState
  <2>3. KeepsOthers(t) /\ BelowSuper(t)'
        BY <1>2, <2>2, BelowKept DEF Replaces
  <2>4. Top(t)' = f
    <3>1. Len(frames[t]) # 0
          BY <1>2, FrameFacts
    <3> QED
          BY <2>2, <3>1, TopAfter
  <2>5. SuperBehind(t)' /\ busy' = NIL
        BY <1>4, <2>2, <2>4, ConstantFacts DEF Return, SuperBehind, Resumes, TopAt
  <2> QED
        BY <1>2, <1>4, <2>3, <2>5, SameSettles, SuperStep
<1> QED
      BY <1>1, <1>3, <1>4

(* <clinit> ends in the frame of a class that is past step 8.              *)
LEMMA SuperClinitTop ==
  ASSUME CInv, NEW t \in Threads, BelowSuper(t), frames[t] # <<>>, InJava(t),
         frames' = [frames EXCEPT ![t][Len(frames[t])].clinit = FALSE]
  PROVE  KeepsOthers(t) /\ BelowSuper(t)' /\ ~ TopAt(t, {4})'
<1>1. ClassTypes /\ FramesOK(t)
      BY InvFacts DEF ThreadOK
<1>2. PICK n \in Nat : n = Len(frames[t])
      BY <1>1, FrameFacts
<1>3. Top(t) \in Frame /\ Top(t) = frames[t][n] /\ n \in 1 .. n /\ n # 0
      BY <1>1, <1>2, FrameFacts
<1>4. Top(t).state = 5
      BY <1>1, <1>2, <1>3 DEF InJava, FramesOK
<1>5. PICK f : f = [Top(t) EXCEPT !.clinit = FALSE]
      OBVIOUS
<1>6. f.class = Top(t).class /\ f.state = 5
      BY <1>3, <1>4, <1>5 DEF Frame
<1>7. Replaces(t, f)
      BY <1>1, <1>5, ChangeTop
<1>8. Top(t)' = f
      BY <1>2, <1>3, <1>7, TopAfter
<1> QED
      BY <1>1, <1>6, <1>7, <1>8, BelowKept DEF Replaces, TopAt

(* An exception in the Java code of t.                                     *)
LEMMA SuperThrown ==
  ASSUME CInv, NEW t \in Threads, BelowSuper(t), InJava(t), ThrowInJava(t)
  PROVE  KeepsOthers(t) /\ busy' \in {NIL, t} /\ BelowSuper(t)' /\ SuperBehind(t)'
<1>1. ClassTypes
      BY InvFacts
<1>2. CASE Return /\ UNCHANGED frames
  <2>1. KeepsOthers(t) /\ BelowSuper(t)'
        BY <1>1, <1>2, BelowKept DEF KeepsOthers, ClassTypes
  <2>2. ~ TopAt(t, {4})'
        BY <1>2 DEF TopAt, InJava, Top
  <2> QED
        BY <1>2, <2>1, <2>2, ConstantFacts DEF Return, SuperBehind, Resumes
<1>3. CASE /\ frames[t] # <<>> /\ Throw(t)
           /\ frames' = [frames EXCEPT ![t][Len(frames[t])].clinit = FALSE]
  <2>1. KeepsOthers(t) /\ BelowSuper(t)'
        BY <1>3, SuperClinitTop
  <2> QED
        BY <1>3, <2>1 DEF Throw, SuperBehind, Resumes
<1> QED
      BY <1>2, <1>3, Zenon DEF ThrowInJava

LEMMA SuperClinitEnds ==
  ASSUME CInv, SuperInv, NEW t \in Threads, ClinitReturns(t) \/ ClinitThrows(t)
  PROVE  SuperInv'
<1>1. /\ Runs(t) /\ frames[t] # <<>> /\ InJava(t)
      /\ frames' = [frames EXCEPT ![t][Len(frames[t])].clinit = FALSE]
      /\ UNCHANGED classVars /\ (UNCHANGED <<busy, point>> \/ Throw(t))
      BY Zenon DEF ClinitReturns, ClinitThrows
<1>2. busy = NIL /\ BelowSuper(t)
      BY <1>1, RunsFacts DEF SuperInv
<1>3. KeepsOthers(t) /\ BelowSuper(t)' /\ ~ TopAt(t, {4})'
      BY <1>1, <1>2, SuperClinitTop
<1>4. SuperBehind(t)' /\ busy' \in {NIL, t}
      BY <1>1, <1>2, <1>3, ConstantFacts DEF SuperBehind, Resumes, Throw
<1> QED
      BY <1>1, <1>2, <1>3, <1>4, SameSettles, SuperStep DEF classVars

LEMMA SuperPending ==
  ASSUME CInv, SuperInv, NEW t \in Threads, PendingException(t)
  PROVE  SuperInv'
<1>1. busy = NIL /\ Throw(t) /\ UNCHANGED classVars /\ UNCHANGED frames
      BY Zenon DEF PendingException
<1>2. KeepsOthers(t) /\ BelowSuper(t)'
      BY <1>1, InvFacts, BelowKept DEF KeepsOthers, ClassTypes, SuperInv
<1>3. SuperBehind(t)' /\ busy' = t
      BY <1>1 DEF SuperBehind, Resumes, Throw
<1> QED
      BY <1>1, <1>2, <1>3, SameSettles, SuperStep DEF classVars

LEMMA SuperClinitException ==
  ASSUME CInv, SuperInv, NEW t \in Threads, ClinitException(t)
  PROVE  SuperInv'
<1>0. PICK c : c = Top(t).class
      OBVIOUS
<1>1. /\ busy = t /\ point = -1
      /\ \/ UNCHANGED <<status, initThread, frames, busy, point>>
         \/ /\ status' = [status EXCEPT ![c] = "ERROR"]
            /\ initThread' = [initThread EXCEPT ![c] = NIL]
            /\ \/ PopFrame(t) /\ Return
               \/ /\ Front(frames[t]) # <<>> /\ Throw(t)
                  /\ frames' = [frames EXCEPT ![t] =
                       Front(Front(frames[t])) \o <<[Last(Front(frames[t])) EXCEPT !.clinit = FALSE]>>]
      BY <1>0, Zenon DEF ClinitException
<1>2. ClassTypes /\ frames[t] # <<>> /\ BelowSuper(t)
      BY <1>1, InvFacts DEF ThreadOK, BusyOK, TopAt, SuperInv
<1>3. CASE UNCHANGED <<status, initThread, frames, busy, point>>
  <2>1. KeepsOthers(t) /\ BelowSuper(t)'
        BY <1>2, <1>3, BelowKept DEF KeepsOthers, ClassTypes
  <2>2. SuperBehind(t)'
        BY <1>1, <1>3 DEF SuperBehind, Resumes
  <2> QED
        BY <1>1, <1>3, <2>1, <2>2, SameSettles, SuperStep
<1>4. CASE /\ status' = [status EXCEPT ![c] = "ERROR"]
           /\ initThread' = [initThread EXCEPT ![c] = NIL]
           /\ \/ PopFrame(t) /\ Return
              \/ /\ Front(frames[t]) # <<>> /\ Throw(t)
                 /\ frames' = [frames EXCEPT ![t] =
                      Front(Front(frames[t])) \o <<[Last(Front(frames[t])) EXCEPT !.clinit = FALSE]>>]
  <2>1. Settles(t)
        BY <1>2, <1>4 DEF Settles, ClassTypes
  <2>2. CASE PopFrame(t) /\ Return
    <3>1. c \in Classes
          BY <1>0, <1>2, FrameFacts
    <3>2. Reached(t, c)'
          BY <1>2, <1>4, <3>1 DEF Reached, ClassTypes
    <3>3. KeepsOthers(t) /\ BelowSuper(t)' /\ SuperBehind(t)'
          BY <1>0, <1>2, <2>2, <3>2, SuperPopped
    <3> QED
          BY <1>1, <2>1, <2>2, <3>3, SuperStep DEF Return
  <2>3. CASE /\ Front(frames[t]) # <<>> /\ Throw(t)
             /\ frames' = [frames EXCEPT ![t] =
                  Front(Front(frames[t])) \o <<[Last(Front(frames[t])) EXCEPT !.clinit = FALSE]>>]
    <3>1. Drops(t)
          BY <1>2, <2>3, DropInto
    <3>2. KeepsOthers(t) /\ BelowSuper(t)'
          BY <1>2, <3>1, BelowKept DEF Drops
    <3>3. SuperBehind(t)' /\ busy' = t
          BY <2>3 DEF SuperBehind, Resumes, Throw
    <3> QED
          BY <1>1, <2>1, <3>2, <3>3, SuperStep
  <2> QED
        BY <1>4, <2>2, <2>3
<1> QED
      BY <1>1, <1>3, <1>4

(* A load: the loader touches no class that is settled.                    *)
LEMMA SuperLoad ==
  ASSUME CInv, SuperInv, NEW t \in Threads, NEW c \in Classes, Load(t, c)
  PROVE  SuperInv'
<1>1. /\ Executes(t, c) /\ busy' = t /\ point' = -2
      /\ UNCHANGED <<status, initThread, frames>>
      BY Zenon DEF Load
<1>2. busy = NIL
      BY <1>1, RunsFacts DEF Executes
<1>3. KeepsOthers(t) /\ BelowSuper(t)'
      BY <1>1, InvFacts, BelowKept DEF KeepsOthers, ClassTypes, SuperInv
<1>4. SuperBehind(t)'
      BY <1>1 DEF SuperBehind, Resumes
<1> QED
      BY <1>1, <1>2, <1>3, <1>4, SameSettles, SuperStep

LEMMA SuperUse ==
  ASSUME CInv, SuperInv, NEW t \in Threads, NEW c \in Classes, Use(t, c)
  PROVE  SuperInv'
<1>1. /\ \/ Executes(t, c) /\ status[c] \notin {"READY", "ERROR"}
         \/ busy = t /\ IsIn("done") /\ current.initiating = c
      /\ UNCHANGED initThread
      /\ \/ InitializeClass(t, c, frames[t]) /\ Return
         \/ (VerifyFails(c) \/ StackOverflows(c)) /\ ThrowInJava(t)
      BY Zenon DEF Use
<1>2. ClassTypes /\ BelowSuper(t) /\ PointInv /\ BusyOK(t)
      BY InvFacts DEF SuperInv, ThreadOK
<1>3. InJava(t) /\ busy \in {NIL, t} /\ status[c] \notin {"READY", "ERROR"}
  <2>1. CASE Executes(t, c) /\ status[c] \notin {"READY", "ERROR"}
        BY <2>1, RunsFacts DEF Executes
  <2>2. CASE busy = t /\ IsIn("done") /\ current.initiating = c
    <3>1. loads # <<>>
          BY <2>2 DEF IsIn
    <3> QED
          BY <2>2, <3>1, LoaderFacts DEF IsEarly
  <2> QED
        BY <1>1, <2>1, <2>2
<1>4. CASE (VerifyFails(c) \/ StackOverflows(c)) /\ ThrowInJava(t)
  <2>1. Settles(t)
        BY <1>1, <1>2, <1>4, InitializeSettles
  <2>2. KeepsOthers(t) /\ busy' \in {NIL, t} /\ BelowSuper(t)' /\ SuperBehind(t)'
        BY <1>2, <1>3, <1>4, SuperThrown
  <2> QED
        BY <1>3, <2>1, <2>2, SuperStep
<1>5. CASE InitializeClass(t, c, frames[t]) /\ Return
  <2>1. PICK r : r = frames[t]
        OBVIOUS
  <2>2. InitializeClass(t, c, r)
        BY <1>5, <2>1
  <2>3. Settles(t)
        BY <1>1, <1>2, <1>3, <2>2, InitializeSettles
  <2>4. \/ frames' = [frames EXCEPT ![t] = r]
        \/ frames' = [frames EXCEPT ![t] = Append(r, NewFrame(c))]
        BY <2>2, Zenon DEF InitializeClass
  <2>5. KeepsOthers(t) /\ BelowSuper(t)' /\ ~ TopAt(t, {4})'
    <3>1. CASE frames' = [frames EXCEPT ![t] = r]
      <4>1. UNCHANGED frames
            BY <1>2, <2>1, <3>1 DEF ClassTypes
      <4>2. KeepsOthers(t) /\ BelowSuper(t)'
            BY <1>2, <4>1, BelowKept DEF KeepsOthers, ClassTypes
      <4> QED
            BY <1>3, <4>1, <4>2 DEF TopAt, InJava, Top
    <3>2. CASE frames' = [frames EXCEPT ![t] = Append(r, NewFrame(c))]
      <4>1. Pushes(t, NewFrame(c))
            BY <1>2, <2>1, <3>2, PushFrame
      <4> QED
            BY <1>2, <1>3, <4>1, BelowPushed DEF Pushes
    <3> QED
          BY <2>4, <3>1, <3>2
  <2>6. SuperBehind(t)' /\ busy' = NIL
        BY <1>5, <2>5, ConstantFacts DEF Return, SuperBehind, Resumes
  <2> QED
        BY <1>3, <2>3, <2>5, <2>6, SuperStep
<1> QED
      BY <1>1, <1>4, <1>5

LEMMA SuperLoading ==
  ASSUME CInv, SuperInv, NEW t \in Threads, Loading(t)
  PROVE  SuperInv'
<1>1. /\ busy = t /\ point = -2 /\ LoadStep /\ UNCHANGED initThread
      /\ IF loads' = <<>> THEN ThrowInJava(t) ELSE UNCHANGED <<busy, point, frames>>
      BY Zenon DEF Loading
<1>2. ClassTypes /\ PointInv /\ LoadsInv /\ LoaderTypes /\ BelowSuper(t)
      BY InvFacts DEF ClassTypes, LoaderTypes, SuperInv
<1>3. InJava(t)
      BY <1>1, <1>2, LoaderFacts DEF PointInv
<1>4. LoaderKeeps
      BY <1>1, <1>2, LoadRawClassStep, LinkFailsStep, LinkInterfaceStep, LinkClassStep,
         LoadedStep, CatchStep DEF LoadStep
<1>5. Settles(t)
      BY <1>1, <1>4 DEF LoaderKeeps, Settles, IsEarly
<1>6. KeepsOthers(t) /\ busy' \in {NIL, t} /\ BelowSuper(t)' /\ SuperBehind(t)'
  <2>1. CASE loads' = <<>>
        BY <1>1, <1>2, <1>3, <2>1, SuperThrown
  <2>2. CASE loads' # <<>>
    <3>1. UNCHANGED <<busy, point, frames>>
          BY <1>1, <2>2
    <3>2. KeepsOthers(t) /\ BelowSuper(t)'
          BY <1>2, <3>1, BelowKept DEF KeepsOthers, ClassTypes
    <3> QED
          BY <1>1, <3>1, <3>2 DEF SuperBehind, Resumes
  <2> QED
        BY <2>1, <2>2
<1> QED
      BY <1>1, <1>5, <1>6, SuperStep

LEMMA SuperRest ==
  ASSUME SuperInv,
         \/ \E t \in Threads, c \in Classes : Lock(t, c) \/ Unlock(t, c)
         \/ \E t \in Threads, u \in Threads : Interrupt(t, u)
         \/ Finished \/ UNCHANGED vars
  PROVE  SuperInv' /\ UNCHANGED clinitRuns
<1>1. UNCHANGED <<classVars, frames, busy, point>>
  <2>1. CASE \E t \in Threads, c \in Classes : Lock(t, c) \/ Unlock(t, c)
        BY <2>1, Zenon DEF Lock, Unlock
  <2>2. CASE \E t \in Threads, u \in Threads : Interrupt(t, u)
        BY <2>2, Zenon DEF Interrupt
  <2>3. CASE Finished \/ UNCHANGED vars
        BY <2>3 DEF Finished, vars
  <2> QED
        BY <2>1, <2>2, <2>3
<1>2. UNCHANGED <<status, initThread, clinitRuns, frames, busy, point>>
      BY <1>1 DEF classVars
<1> QED
      BY <1>2 DEF SuperInv, BelowSuper, SuperBehind, Resumes, TopAt, Top, SuperReached, Reached

LEMMA SuperNext == CInv /\ LoadsAreWhole /\ SuperInv /\ [Next]_vars => SuperInv'
<1> SUFFICES ASSUME CInv, LoadsAreWhole, SuperInv, [Next]_vars PROVE SuperInv'
    OBVIOUS
<1>1. ASSUME NEW t \in Threads, Progress(t) PROVE SuperInv'
  <2>1. CASE Case3(t)
    <3>1. At(t, 3)
          BY <2>1, Zenon DEF Case3
    <3>2. loads = <<>>
          BY <3>1, AtFacts
    <3> QED
          BY <2>1, <3>2, SuperCase3 DEF LoadsAreWhole, AllWhole
  <2>2. CASE Loading(t) \/ Case1(t) \/ Case2(t) \/ Case4(t) \/ Case5(t) \/ Case6(t)
        BY <2>2, SuperLoading, SuperCase1, SuperCase4, SuperCase5
  <2>3. CASE JavaEnds(t) \/ PendingException(t) \/ ClinitException(t)
        BY <2>3, SuperRest, SuperClinitEnds, SuperPending, SuperClinitException DEF JavaEnds
  <2>4. CASE \E c \in Classes : busy = t /\ Use(t, c)
        BY <2>4, SuperUse
  <2> QED
        BY <1>1, <2>1, <2>2, <2>3, <2>4 DEF Progress
<1>2. ASSUME NEW t \in Threads, NEW c \in Classes, Load(t, c) \/ Use(t, c) \/ Lock(t, c)
      PROVE  SuperInv'
      BY <1>2, SuperLoad, SuperUse, SuperRest
<1>3. ASSUME NEW t \in Threads, NEW u \in Threads, Interrupt(t, u) PROVE SuperInv'
      BY <1>3, SuperRest
<1>4. CASE Finished \/ UNCHANGED vars
      BY <1>4, SuperRest
<1> QED
      BY <1>1, <1>2, <1>3, <1>4, Zenon DEF Next

(* <clinit> is called by step 8 alone, for the class of the top frame.     *)
LEMMA OnlyCase4Calls ==
  ASSUME CInv, [Next]_vars, NEW c \in Classes, clinitRuns'[c] > clinitRuns[c]
  PROVE  \E t \in Threads :
           At(t, 4) /\ frames[t] # <<>> /\ c = Top(t).class /\ c \in HasClinit
<1>1. ~ UNCHANGED clinitRuns
  <2>1. clinitRuns[c] \in Nat
        BY InvFacts DEF ClassTypes
  <2> QED
        BY <2>1
<1>2. ASSUME NEW t \in Threads, Progress(t) PROVE Case4(t)
  <2>1. CASE Loading(t) \/ Case1(t) \/ Case2(t) \/ Case3(t) \/ Case5(t) \/ Case6(t)
        BY <1>1, <2>1, Zenon DEF Loading, Case1, Case2, Case3, Case5, Case6
  <2>2. CASE JavaEnds(t) \/ PendingException(t) \/ ClinitException(t)
        BY <1>1, <2>2, Zenon
        DEF JavaEnds, ClinitReturns, ClinitThrows, Unlock, PendingException, ClinitException, classVars
  <2>3. CASE \E d \in Classes : busy = t /\ Use(t, d)
        BY <1>1, <2>3, Zenon DEF Use
  <2> QED
        BY <1>2, <2>1, <2>2, <2>3 DEF Progress
<1>3. ASSUME NEW t \in Threads, NEW d \in Classes, Load(t, d) \/ Use(t, d) \/ Lock(t, d)
      PROVE  FALSE
      BY <1>1, <1>3, Zenon DEF Load, Use, Lock, classVars
<1>4. ASSUME NEW t \in Threads, NEW u \in Threads, Interrupt(t, u) PROVE FALSE
      BY <1>1, <1>4, Zenon DEF Interrupt, classVars
<1>5. ~ (Finished \/ UNCHANGED vars)
      BY <1>1 DEF Finished, vars, classVars
<1>6. PICK t \in Threads : Case4(t)
      BY <1>2, <1>3, <1>4, <1>5, Zenon DEF Next
<1>7. PICK d : d = Top(t).class
      OBVIOUS
<1>8. At(t, 4) /\ d \in HasClinit /\ clinitRuns' = [clinitRuns EXCEPT ![d] = @ + 1]
      BY <1>1, <1>6, <1>7, Zenon DEF Case4
<1>9. frames[t] # <<>>
      BY <1>8, AtFacts
<1>10. c = d
  <2>1. clinitRuns \in [Classes -> Nat]
        BY InvFacts DEF ClassTypes
  <2> QED
        BY <1>8, <2>1
<1> QED
      BY <1>7, <1>8, <1>9, <1>10

LEMMA CalledInOrder ==
  ASSUME NEW E, CInv, SuperInv, ErrorsOK(E), SupersSucceed(E), [Next]_vars,
         NEW c \in Classes, clinitRuns'[c] > clinitRuns[c], Super[c] # NIL
  PROVE  \/ status[Super[c]] = "READY"
         \/ \E t \in Threads : initThread[c] = t /\ initThread[Super[c]] = t
<1>1. PICK t \in Threads : At(t, 4) /\ frames[t] # <<>> /\ c = Top(t).class /\ c \in HasClinit
      BY OnlyCase4Calls
<1>2. Marked(t, Len(frames[t])) /\ ~ Top(t).clinit /\ Top(t).state \in {1, 2, 4}
      BY <1>1, AtFacts
<1>3. initThread[c] = t
  <2>1. ClassTypes /\ MarkedOK(t)
        BY InvFacts DEF ThreadOK
  <2>2. Len(frames[t]) \in 1 .. Len(frames[t]) /\ Top(t) = frames[t][Len(frames[t])]
        BY <1>1, <2>1, FrameFacts
  <2> QED
        BY <1>1, <1>2, <2>1, <2>2 DEF MarkedOK, Initializes
<1>4. Resumes(t)
      BY <1>1, <1>2, ConstantFacts DEF At, Runs, InJava, Resumes, TopAt
<1>5. Reached(t, Super[c])
      BY <1>1, <1>4 DEF SuperInv, SuperBehind, SuperReached
<1>6. status[Super[c]] # "ERROR"
  <2>1. Super[c] \in Classes
        BY ConstantFacts
  <2> QED
        BY <1>1, <2>1 DEF ErrorsOK, SupersSucceed
<1> QED
      BY <1>3, <1>5, <1>6 DEF Reached

LEMMA SuperInit == Init => SuperInv
<1> SUFFICES ASSUME Init, NEW t \in Threads PROVE BelowSuper(t) /\ SuperBehind(t)
    BY DEF SuperInv
<1>1. frames[t] = <<>> /\ busy = NIL /\ Len(<<>>) = 0
      BY DEF Init
<1>2. \A i \in 1 .. 0 - 1 : FALSE
      OBVIOUS
<1> QED
      BY <1>1, <1>2, ConstantFacts DEF BelowSuper, SuperBehind, Resumes, TopAt

(* <clinit> of a class is called when its superclass is ready, or by the   *)
(* thread that is initializing that one (SuperclassFirst).  The hypothesis:*)
(* errors do not reach the superclass of a class with a <clinit>.  Without *)
(* it step 5 of runClinit, which pops the frame of a superclass that       *)
(* somebody else put in error and throws nothing, lets the subclass go on. *)
THEOREM SuperclassesGoFirst ==
  ASSUME NEW E, NEW G, NEW depth, Below(E, G, depth), SupersSucceed(E)
  PROVE  Spec => SuperclassFirst
<1>1. Init => WholeInv(E, G, depth) /\ SuperInv
      BY WholeInit, SuperInit
<1>2. CInv /\ WholeInv(E, G, depth) /\ SuperInv /\ [Next]_vars
        => WholeInv(E, G, depth)' /\ SuperInv'
  <2>1. CInv /\ WholeInv(E, G, depth) => LoadsAreWhole
        BY RestWhole, InvFacts DEF LoadsAreWhole, AllWhole
  <2> QED
        BY <2>1, WholeNext, SuperNext
<1>3. CInv /\ WholeInv(E, G, depth) /\ SuperInv /\ [Next]_vars =>
        [\A c \in Classes :
           clinitRuns'[c] > clinitRuns[c] /\ Super[c] # NIL =>
             \/ status[Super[c]] = "READY"
             \/ \E t \in Threads : initThread[c] = t /\ initThread[Super[c]] = t]_vars
      BY CalledInOrder DEF WholeInv, BlameInv
<1> QED
      BY <1>1, <1>2, <1>3, ClassInvariant, PTL DEF Spec, SuperclassFirst
=============================================================================
