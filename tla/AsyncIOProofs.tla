--------------------------- MODULE AsyncIOProofs ---------------------------
(***************************************************************************)
(* For every number of Java threads, I/O threads and control blocks: the   *)
(* collector never runs while a native call uses the heap, because the     *)
(* count it waits for is exact and calls return only between collections;  *)
(* the pointers a call works with are current; of the consistency checks   *)
(* of the protocol none but the two named in HandoverIsSound fails; no     *)
(* call survives a restart of the VM; and nothing of a call is lost: its   *)
(* block comes back, and the suspended thread is resumed once.             *)
(*                                                                         *)
(* CallInv is about the hand-over of calls and the count; BlockInv, proved *)
(* with it, about the control blocks and the pointers in them; WorldInv,   *)
(* proved with both, about restarts; AccountInv, proved with all three,    *)
(* about the blocks that are free and the threads that are suspended.      *)
(***************************************************************************)
EXTENDS AsyncIO, FiniteSetTheorems, SequenceTheorems, TLAPS

MainPcs == {"down", "init", "java", "acquire", "call", "handover",
            "rundown", "mark", "sweep", "update", "updated"}
CollectorPcs == {"mark", "sweep", "update", "updated"}
IOPcs == {"wait", "woken", "taken", "start", "blocked", "returned", "enter",
          "done", "resumed", "free"}
UsingPcs == {"taken", "start", "done", "resumed"}
IORecord == [pc : IOPcs, block : Blocks \cup {NIL}, version : Nat]

Users == {w \in IOThreads : UsesHeap(w)}

-----------------------------------------------------------------------------
(* The invariants                                                          *)

Types ==
  /\ main \in MainPcs
  /\ io \in [IOThreads -> IORecord]
  /\ request \in Blocks \cup {NIL} /\ nextIocb \in Blocks \cup {NIL}
  /\ nextRoutine \in BOOLEAN /\ event \in BOOLEAN /\ collectorIsRunning \in BOOLEAN
  /\ AsyncThreadCount \in Int

(* The flag says where the main thread is.                                 *)
CollectorFlag == collectorIsRunning <=> main \in CollectorPcs

(* A request is handed over once: the event, then the one thread it wakes, *)
(* then the one that took the parameters stand for it, in turn.            *)
Handover ==
  /\ nextIocb # NIL => main = "handover" /\ nextIocb = request
  /\ nextRoutine <=>
       main = "handover" /\ nextIocb # NIL /\ \A w \in IOThreads : io[w].pc # "taken"
  /\ main = "call" => request # NIL
  /\ event => nextRoutine
  /\ \A w \in IOThreads :
       /\ io[w].pc = "woken" => nextRoutine /\ ~event
       /\ io[w].pc = "taken" => nextIocb # NIL /\ io[w].block = nextIocb
       /\ \A v \in IOThreads :
            io[v].pc = io[w].pc /\ io[w].pc \in {"woken", "taken"} => v = w

(* An I/O thread that is not waiting has a block.                          *)
BlockTypes ==
  /\ IocbFreeList \in Seq(Blocks) /\ VersionOfTheWorld \in Nat
  /\ \A w \in IOThreads : io[w].block = NIL <=> io[w].pc \in {"wait", "woken"}

CallInv == Types /\ CollectorFlag /\ Handover /\ AsyncCountExact /\ CollectorExcludesCalls

-----------------------------------------------------------------------------
(* Counting                                                                *)

LEMMA QueuedIs ==
  ASSUME Handover
  PROVE  Queued <=> main = "call" \/ nextRoutine
BY DEF Handover, Queued

LEMMA QueuedIsNext ==
  ASSUME Handover'
  PROVE  Queued' <=> main' = "call" \/ nextRoutine'
BY DEF Handover, Queued

LEMMA UsersFinite ==
  /\ IsFiniteSet(Users) /\ Cardinality(Users) \in Nat
  /\ Users = {} <=> Cardinality(Users) = 0
<1>1. Users \in SUBSET IOThreads
      BY DEF Users
<1>2. IsFiniteSet(Users)
      BY <1>1, FS_Subset, AsyncAssumption
<1> QED
      BY <1>2, FS_CardinalityType, FS_EmptySet

LEMMA UsersSame ==
  ASSUME io' = io
  PROVE  Users' = Users
BY DEF Users, UsesHeap

(* One I/O thread moves.                                                   *)
LEMMA UsersMove ==
  ASSUME NEW w \in IOThreads, NEW r, io \in [IOThreads -> IORecord],
         io' = [io EXCEPT ![w] = r]
  PROVE  /\ r.pc \in UsingPcs => Users' = Users \cup {w}
         /\ r.pc \notin UsingPcs => Users' = Users \ {w}
         /\ w \in Users <=> io[w].pc \in UsingPcs
         /\ Cardinality(Users') =
              Cardinality(Users) + (IF r.pc \in UsingPcs THEN 1 ELSE 0)
                                 - (IF io[w].pc \in UsingPcs THEN 1 ELSE 0)
<1>1. /\ io'[w] = r
      /\ \A v \in IOThreads : v # w => io'[v] = io[v]
      OBVIOUS
<1>2. /\ r.pc \in UsingPcs => Users' = Users \cup {w}
      /\ r.pc \notin UsingPcs => Users' = Users \ {w}
      /\ w \in Users <=> io[w].pc \in UsingPcs
      BY <1>1 DEF Users, UsesHeap, UsingPcs
<1>3. /\ Cardinality(Users \cup {w}) =
           IF w \in Users THEN Cardinality(Users) ELSE Cardinality(Users) + 1
      /\ Cardinality(Users \ {w}) =
           IF w \in Users THEN Cardinality(Users) - 1 ELSE Cardinality(Users)
      BY UsersFinite, FS_AddElement, FS_RemoveElement
<1>4. Cardinality(Users) \in Nat
      BY UsersFinite
<1>5. CASE r.pc \in UsingPcs
      BY <1>2, <1>3, <1>4, <1>5
<1>6. CASE ~(r.pc \in UsingPcs)
  <2>1. Users' = Users \ {w}
        BY <1>2, <1>6
  <2>2. Cardinality(Users') =
          IF w \in Users THEN Cardinality(Users) - 1 ELSE Cardinality(Users)
        BY <1>3, <2>1
  <2>3. CASE w \in Users
        BY <1>2, <1>4, <1>6, <2>2, <2>3
  <2>4. CASE w \notin Users
        BY <1>2, <1>4, <1>6, <2>2, <2>4
  <2> QED
        BY <2>3, <2>4
<1> QED
      BY <1>5, <1>6

LEMMA CountIs ==
  AsyncCountExact <=> AsyncThreadCount = Cardinality(Users) + (IF Queued THEN 1 ELSE 0)
BY DEF AsyncCountExact, Users

LEMMA CountIsNext ==
  AsyncCountExact' <=> AsyncThreadCount' = Cardinality(Users') + (IF Queued' THEN 1 ELSE 0)
BY DEF AsyncCountExact, Users

LEMMA ExclusionIs ==
  CollectorExcludesCalls <=> (collectorIsRunning => ~Queued /\ Users = {})
BY DEF CollectorExcludesCalls, Users

LEMMA ExclusionIsNext ==
  CollectorExcludesCalls' <=> (collectorIsRunning' => ~Queued' /\ Users' = {})
BY DEF CollectorExcludesCalls, Users

-----------------------------------------------------------------------------
(* Steps of the main thread and of I/O threads that hand nothing over      *)

LEMMA MainMoves ==
  ASSUME CallInv, UNCHANGED <<handVars, io, AsyncThreadCount>>,
         main' \in MainPcs, main # "call", main = "handover" => nextIocb = NIL,
         main' \notin {"call", "handover"}, request' \in Blocks \cup {NIL},
         collectorIsRunning' \in BOOLEAN, CollectorFlag',
         collectorIsRunning' => collectorIsRunning \/ AsyncThreadCount = 0
  PROVE  CallInv'
<1>1. Types'
      BY DEF CallInv, Types, handVars
<1>2. Handover'
      BY DEF CallInv, Handover, handVars, Types
<1>3. ~Queued /\ ~Queued'
      BY DEF CallInv, Queued, handVars
<1>4. Users' = Users
      BY UsersSame
<1>5. AsyncCountExact'
      BY <1>3, <1>4, CountIs, CountIsNext DEF CallInv
<1>6. AsyncThreadCount = 0 => Users = {}
      BY <1>3, CountIs, UsersFinite DEF CallInv
<1>7. CollectorExcludesCalls'
      BY <1>3, <1>4, <1>6, ExclusionIs, ExclusionIsNext DEF CallInv
<1> QED
      BY <1>1, <1>2, <1>5, <1>7 DEF CallInv

LEMMA IOMoves ==
  ASSUME CallInv, NEW w \in IOThreads, NEW r \in IORecord, io' = [io EXCEPT ![w] = r],
         UNCHANGED <<main, request, handVars, collectorIsRunning>>,
         io[w].pc \notin {"woken", "taken"}, r.pc \notin {"woken", "taken"},
         AsyncThreadCount' = AsyncThreadCount + (IF r.pc \in UsingPcs THEN 1 ELSE 0)
                                              - (IF io[w].pc \in UsingPcs THEN 1 ELSE 0),
         r.pc \in UsingPcs => io[w].pc \in UsingPcs \/ ~collectorIsRunning
  PROVE  CallInv'
<1>0. /\ io \in [IOThreads -> IORecord]
      /\ AsyncThreadCount \in Int
      BY DEF CallInv, Types
<1>1. Types'
      BY <1>0 DEF CallInv, Types, handVars
<1>2. CollectorFlag'
      BY DEF CallInv, CollectorFlag
<1>3. \A v \in IOThreads :
        /\ io'[v].pc = "woken" <=> io[v].pc = "woken"
        /\ io'[v].pc = "taken" <=> io[v].pc = "taken"
        /\ io[v].pc \in {"woken", "taken"} => io'[v] = io[v]
      BY <1>0
<1>4. Handover'
      BY <1>3 DEF CallInv, Handover, handVars
<1>5. Queued' <=> Queued
      BY <1>4, QueuedIs, QueuedIsNext DEF CallInv, handVars
<1>6. AsyncCountExact'
  <2>1. /\ AsyncThreadCount = Cardinality(Users) + (IF Queued THEN 1 ELSE 0)
        /\ Cardinality(Users) \in Nat
        BY CountIs, UsersFinite DEF CallInv
  <2>2. Cardinality(Users') =
          Cardinality(Users) + (IF r.pc \in UsingPcs THEN 1 ELSE 0)
                             - (IF io[w].pc \in UsingPcs THEN 1 ELSE 0)
        BY <1>0, UsersMove
  <2> QED
        BY <1>5, <2>1, <2>2, CountIsNext
<1>7. CollectorExcludesCalls'
      BY <1>0, <1>5, UsersMove, ExclusionIs, ExclusionIsNext DEF CallInv
<1> QED
      BY <1>1, <1>2, <1>4, <1>6, <1>7 DEF CallInv

-----------------------------------------------------------------------------
(* The actions of the main thread                                          *)

LEMMA MainMovesStep ==
  ASSUME CallInv,
         \/ \E t \in Threads : CallNative(t)
         \/ HandedOver \/ GarbageCollect \/ Cleanup
         \/ InitalizeAsynchronousIO \/ StartVM
         \/ RundownAsynchronousFunctions \/ RestartAsynchronousFunctions
         \/ MarkRoot \/ Compact \/ UpdateRoot
  PROVE  CallInv'
<1>1. Types /\ CollectorFlag
      BY DEF CallInv
<1>2. CASE \/ \E t \in Threads : CallNative(t)
           \/ HandedOver \/ GarbageCollect \/ Cleanup
           \/ InitalizeAsynchronousIO \/ StartVM
  <2>1. /\ UNCHANGED <<handVars, io, AsyncThreadCount, collectorIsRunning>>
        /\ main' \in {"acquire", "java", "rundown", "down", "init"}
        /\ main \in {"java", "down", "init", "handover"}
        /\ main = "handover" => nextIocb = NIL
        /\ request' \in {request, NIL}
        BY <1>2 DEF CallNative, HandedOver, GarbageCollect, Cleanup,
                    InitalizeAsynchronousIO, StartVM, callVars, gcVars
  <2>2. /\ main' \in MainPcs /\ CollectorFlag' /\ collectorIsRunning' \in BOOLEAN
        /\ request' \in Blocks \cup {NIL}
        BY <1>1, <2>1 DEF Types, CollectorFlag, MainPcs, CollectorPcs
  <2> QED
        BY <2>1, <2>2, MainMoves
<1>3. CASE RundownAsynchronousFunctions
  <2>1. /\ UNCHANGED <<handVars, io, AsyncThreadCount, request>>
        /\ main = "rundown" /\ main' = "mark" /\ collectorIsRunning' = TRUE
        /\ AsyncThreadCount = 0
        BY <1>3 DEF RundownAsynchronousFunctions, callVars
  <2>2. /\ main' \in MainPcs /\ CollectorFlag' /\ collectorIsRunning' \in BOOLEAN
        /\ request' \in Blocks \cup {NIL}
        BY <1>1, <2>1 DEF Types, CollectorFlag, MainPcs, CollectorPcs
  <2> QED
        BY <2>1, <2>2, MainMoves
<1>4. CASE RestartAsynchronousFunctions
  <2>1. /\ UNCHANGED <<handVars, io, AsyncThreadCount, request>>
        /\ main \in {"sweep", "updated"} /\ main' = "java" /\ collectorIsRunning' = FALSE
        BY <1>4 DEF RestartAsynchronousFunctions, callVars
  <2>2. /\ main' \in MainPcs /\ CollectorFlag' /\ collectorIsRunning' \in BOOLEAN
        /\ request' \in Blocks \cup {NIL}
        BY <1>1, <2>1 DEF Types, CollectorFlag, MainPcs, CollectorPcs
  <2> QED
        BY <2>1, <2>2, MainMoves
<1>5. CASE MarkRoot \/ Compact \/ UpdateRoot
  <2>1. /\ UNCHANGED <<handVars, io, AsyncThreadCount, request, collectorIsRunning>>
        /\ main \in CollectorPcs /\ main' \in CollectorPcs
        BY <1>5 DEF MarkRoot, Compact, UpdateRoot, NextSlot, callVars, CollectorPcs
  <2>2. /\ main' \in MainPcs /\ CollectorFlag' /\ collectorIsRunning' \in BOOLEAN
        /\ request' \in Blocks \cup {NIL}
        /\ main \notin {"call", "handover"} /\ main' \notin {"call", "handover"}
        BY <1>1, <2>1 DEF Types, CollectorFlag, MainPcs, CollectorPcs
  <2> QED
        BY <2>1, <2>2, MainMoves
<1> QED
      BY <1>2, <1>3, <1>4, <1>5

LEMMA AcquireStep ==
  ASSUME CallInv, AcquireAsyncIOCB, IocbFreeList \in Seq(Blocks)
  PROVE  CallInv'
<1>1. /\ main = "acquire" /\ UNCHANGED <<handVars, io, gcVars>>
      /\ request' \in Blocks
      BY DEF AcquireAsyncIOCB
<1>2. Types /\ CollectorFlag /\ Handover /\ AsyncCountExact /\ CollectorExcludesCalls
      BY DEF CallInv
<1>3. CASE main' = main /\ AsyncThreadCount' = AsyncThreadCount
  <2>1. /\ main' \in MainPcs /\ CollectorFlag' /\ collectorIsRunning' \in BOOLEAN
        /\ collectorIsRunning' = collectorIsRunning
        BY <1>1, <1>2, <1>3 DEF Types, CollectorFlag, gcVars
  <2> QED
        BY <1>1, <1>3, <2>1, MainMoves
<1>4. CASE main' = "call" /\ AsyncThreadCount' = AsyncThreadCount + 1
  <2>1. Types' /\ CollectorFlag' /\ ~collectorIsRunning'
        BY <1>1, <1>2, <1>4 DEF Types, CollectorFlag, MainPcs, CollectorPcs, handVars, gcVars
  <2>2. Handover'
        BY <1>1, <1>2, <1>4, AsyncAssumption DEF Handover, handVars, Blocks
  <2>3. Queued' /\ ~Queued
        BY <1>1, <1>4 DEF Queued
  <2>4. Users' = Users
        BY <1>1, UsersSame
  <2>5. AsyncCountExact'
    <3>1. AsyncThreadCount = Cardinality(Users) /\ Cardinality(Users) \in Nat
          BY <1>2, <2>3, CountIs, UsersFinite
    <3> QED
          BY <1>4, <2>3, <2>4, <3>1, CountIsNext
  <2> QED
        BY <2>1, <2>2, <2>5, ExclusionIsNext DEF CallInv
<1> QED
      BY <1>3, <1>4 DEF AcquireAsyncIOCB

LEMMA CallStep ==
  ASSUME CallInv, CallAsyncNativeFunction
  PROVE  CallInv'
<1>1. Types /\ CollectorFlag /\ Handover /\ AsyncCountExact /\ CollectorExcludesCalls
      BY DEF CallInv
<1>2. /\ main = "call" /\ nextIocb = NIL /\ ~nextRoutine /\ request # NIL
      /\ \A w \in IOThreads : io[w].pc \notin {"woken", "taken"}
      BY <1>1 DEF CallAsyncNativeFunction, Handover
<1>3. /\ nextRoutine' = TRUE /\ nextIocb' = request /\ event' = TRUE /\ main' = "handover"
      /\ UNCHANGED <<request, io, AsyncThreadCount, collectorIsRunning>>
      BY <1>2 DEF CallAsyncNativeFunction, callVars, gcVars
<1>4. Types' /\ CollectorFlag' /\ ~collectorIsRunning'
      BY <1>1, <1>2, <1>3 DEF Types, CollectorFlag, MainPcs, CollectorPcs
<1>5. Handover'
      BY <1>1, <1>2, <1>3 DEF Handover
<1>6. Queued /\ Queued'
      BY <1>2, <1>3 DEF Queued
<1>7. Users' = Users
      BY <1>3, UsersSame
<1>8. AsyncCountExact'
      BY <1>1, <1>3, <1>6, <1>7, CountIs, CountIsNext
<1> QED
      BY <1>4, <1>5, <1>8, ExclusionIsNext DEF CallInv

-----------------------------------------------------------------------------
(* The actions of an I/O thread                                            *)

LEMMA IOMovesStep ==
  ASSUME CallInv, NEW w \in IOThreads, VersionOfTheWorld \in Nat,
         \/ ArgumentError(w) \/ EnableGarbageCollection(w) \/ PrimitiveReturns(w)
         \/ CheckVersion(w) \/ IncrementAsyncCount(w) \/ ResumeThread(w)
         \/ Epilog(w) \/ AbortAsyncIOCB(w)
  PROVE  CallInv'
<1>1. /\ io \in [IOThreads -> IORecord] /\ io[w] \in IORecord
      /\ AsyncThreadCount \in Int
      BY DEF CallInv, Types
<1>2. UNCHANGED <<main, request, handVars, collectorIsRunning>>
      BY DEF ArgumentError, EnableGarbageCollection, PrimitiveReturns, CheckVersion,
             IncrementAsyncCount, ResumeThread, Epilog, AbortAsyncIOCB, callVars, gcVars
<1>3. CASE ResumeThread(w) /\ io' = io
  <2>1. /\ io' = [io EXCEPT ![w] = io[w]] /\ io[w].pc = "done"
        /\ AsyncThreadCount' = AsyncThreadCount
        BY <1>1, <1>3 DEF ResumeThread, At
  <2>2. io[w].pc \notin {"woken", "taken"} /\ io[w].pc \in UsingPcs
        BY <2>1 DEF UsingPcs
  <2>3. AsyncThreadCount' = AsyncThreadCount + 1 - 1
        BY <1>1, <2>1
  <2> QED
        BY <1>1, <1>2, <2>1, <2>2, <2>3, IOMoves
<1>4. CASE ~(ResumeThread(w) /\ io' = io)
  <2> DEFINE r == io'[w]
  <2>1. /\ io' = [io EXCEPT ![w] = r] /\ r \in IORecord
        /\ io[w].pc \notin {"woken", "taken"} /\ r.pc \notin {"woken", "taken"}
        /\ AsyncThreadCount' = AsyncThreadCount + (IF r.pc \in UsingPcs THEN 1 ELSE 0)
                                                - (IF io[w].pc \in UsingPcs THEN 1 ELSE 0)
        /\ r.pc \in UsingPcs => io[w].pc \in UsingPcs \/ ~collectorIsRunning
    <3>1. CASE ArgumentError(w)
          BY <1>1, <3>1 DEF ArgumentError, At, Goto, IORecord, IOPcs, UsingPcs
    <3>2. CASE EnableGarbageCollection(w)
      <4>1. /\ io[w].pc = "start" /\ AsyncThreadCount' = AsyncThreadCount - 1
            /\ io' = [io EXCEPT ![w].pc = "blocked", ![w].version = VersionOfTheWorld]
            BY <3>2 DEF EnableGarbageCollection, At
      <4>2. /\ r = [io[w] EXCEPT !.pc = "blocked", !.version = VersionOfTheWorld]
            /\ io' = [io EXCEPT ![w] = r]
            BY <1>1, <4>1
      <4>3. r.pc = "blocked" /\ r \in IORecord
            BY <1>1, <4>2 DEF IORecord, IOPcs
      <4> QED
            BY <1>1, <4>1, <4>2, <4>3 DEF UsingPcs
    <3>3. CASE PrimitiveReturns(w)
          BY <1>1, <3>3 DEF PrimitiveReturns, At, Goto, IORecord, IOPcs, UsingPcs
    <3>4. CASE CheckVersion(w)
          BY <1>1, <3>4 DEF CheckVersion, At, Goto, IORecord, IOPcs, UsingPcs
    <3>5. CASE IncrementAsyncCount(w)
          BY <1>1, <3>5 DEF IncrementAsyncCount, MayReenter, At, Goto, IORecord, IOPcs, UsingPcs
    <3>6. CASE ResumeThread(w)
          BY <1>1, <1>4, <3>6 DEF ResumeThread, At, Goto, IORecord, IOPcs, UsingPcs
    <3>7. CASE Epilog(w)
          BY <1>1, <3>7 DEF Epilog, CountOut, At, Goto, IORecord, IOPcs, UsingPcs
    <3>8. CASE AbortAsyncIOCB(w)
          BY <1>1, <3>8 DEF AbortAsyncIOCB, At, IORecord, IOPcs, UsingPcs
    <3> QED
          BY <3>1, <3>2, <3>3, <3>4, <3>5, <3>6, <3>7, <3>8
  <2> QED
        BY <1>2, <2>1, IOMoves
<1> QED
      BY <1>3, <1>4

LEMMA WaitStep ==
  ASSUME CallInv, NEW w \in IOThreads, WaitForSingleObject(w)
  PROVE  CallInv'
<1>1. Types /\ CollectorFlag /\ Handover /\ AsyncCountExact /\ CollectorExcludesCalls
      BY DEF CallInv
<1>2. /\ io[w].pc = "wait" /\ event /\ event' = FALSE
      /\ io' = [io EXCEPT ![w].pc = "woken"]
      /\ UNCHANGED <<main, request, nextIocb, nextRoutine, AsyncThreadCount, collectorIsRunning>>
      BY DEF WaitForSingleObject, EventAfterWait, At, Goto, callVars, gcVars
<1>3. io \in [IOThreads -> IORecord] /\ io[w] \in IORecord
      BY <1>1 DEF Types
<1> DEFINE r == [io[w] EXCEPT !.pc = "woken"]
<1>4. /\ io' = [io EXCEPT ![w] = r] /\ r \in IORecord /\ r.pc = "woken"
      /\ io'[w] = r /\ \A v \in IOThreads : v # w => io'[v] = io[v]
      BY <1>2, <1>3 DEF IORecord, IOPcs
<1>5. Types' /\ CollectorFlag'
      BY <1>1, <1>2, <1>4 DEF Types, CollectorFlag
<1>6. nextRoutine /\ \A v \in IOThreads : io[v].pc \notin {"woken", "taken"}
      BY <1>1, <1>2 DEF Handover
<1>7. Handover'
      BY <1>1, <1>2, <1>4, <1>6 DEF Handover
<1>8. Queued' <=> Queued
      BY <1>1, <1>2, <1>7, QueuedIs, QueuedIsNext
<1>9. Users' = Users
  <2>1. w \notin Users /\ Users' = Users \ {w}
        BY <1>2, <1>3, <1>4, UsersMove DEF UsingPcs
  <2> QED
        BY <2>1
<1>10. AsyncCountExact' /\ CollectorExcludesCalls'
      BY <1>1, <1>2, <1>8, <1>9, CountIs, CountIsNext, ExclusionIs, ExclusionIsNext
<1> QED
      BY <1>5, <1>7, <1>10 DEF CallInv

(* The count passes from the request to the thread that takes it.          *)
LEMMA TakeStep ==
  ASSUME CallInv, NEW w \in IOThreads, TakeParameters(w)
  PROVE  CallInv'
<1>1. Types /\ CollectorFlag /\ Handover /\ AsyncCountExact /\ CollectorExcludesCalls
      BY DEF CallInv
<1>2. /\ io[w].pc = "woken" /\ nextRoutine /\ ~event /\ nextIocb # NIL /\ main = "handover"
      /\ \A v \in IOThreads : io[v].pc # "taken" /\ (io[v].pc = "woken" => v = w)
      BY <1>1 DEF TakeParameters, At, Handover
<1>3. /\ io' = [io EXCEPT ![w].pc = "taken", ![w].block = nextIocb]
      /\ nextRoutine' = FALSE
      /\ UNCHANGED <<main, request, nextIocb, event, AsyncThreadCount, collectorIsRunning>>
      BY <1>2 DEF TakeParameters, callVars, gcVars
<1>4. /\ io \in [IOThreads -> IORecord] /\ io[w] \in IORecord
      /\ nextIocb \in Blocks \cup {NIL}
      BY <1>1 DEF Types
<1> DEFINE r == [io[w] EXCEPT !.pc = "taken", !.block = nextIocb]
<1>5. /\ io' = [io EXCEPT ![w] = r] /\ r \in IORecord
      /\ r.pc = "taken" /\ r.block = nextIocb
      /\ io'[w] = r /\ \A v \in IOThreads : v # w => io'[v] = io[v]
      BY <1>3, <1>4 DEF IORecord, IOPcs
<1>6. Types' /\ CollectorFlag'
      BY <1>1, <1>3, <1>5, ZenonT(60) DEF Types, CollectorFlag
<1>7. Handover'
  <2>1. nextIocb = request
        BY <1>1, <1>2 DEF Handover
  <2>2. \A v \in IOThreads :
          io'[v].pc # "woken" /\ (io'[v].pc = "taken" => v = w)
        BY <1>2, <1>5
  <2> QED
        BY <1>2, <1>3, <1>5, <2>1, <2>2 DEF Handover
<1>8. Queued /\ ~Queued' /\ ~collectorIsRunning
  <2>1. Queued /\ ~Queued'
        BY <1>1, <1>2, <1>3, <1>7, QueuedIs, QueuedIsNext
  <2> QED
        BY <1>1, <2>1, ExclusionIs
<1>9. Cardinality(Users') = Cardinality(Users) + 1
  <2>1. io[w].pc \notin UsingPcs /\ r.pc \in UsingPcs
        BY <1>2, <1>5 DEF UsingPcs
  <2>2. Cardinality(Users') = Cardinality(Users) + 1 - 0
        BY <1>4, <1>5, <2>1, UsersMove
  <2> QED
        BY <2>2, UsersFinite
<1>10. AsyncCountExact'
      BY <1>1, <1>3, <1>8, <1>9, CountIs, CountIsNext, UsersFinite
<1> QED
      BY <1>3, <1>6, <1>7, <1>8, <1>10, ExclusionIsNext DEF CallInv

LEMMA ClearStep ==
  ASSUME CallInv, NEW w \in IOThreads, ClearInputQueue(w)
  PROVE  CallInv'
<1>1. Types /\ CollectorFlag /\ Handover /\ AsyncCountExact /\ CollectorExcludesCalls
      BY DEF CallInv
<1>2. /\ io[w].pc = "taken" /\ nextIocb # NIL /\ nextIocb' = NIL
      /\ io' = [io EXCEPT ![w].pc = "start"]
      /\ UNCHANGED <<main, request, nextRoutine, event, AsyncThreadCount, collectorIsRunning>>
      BY <1>1 DEF ClearInputQueue, At, Goto, Handover, callVars, gcVars
<1>3. /\ ~nextRoutine /\ ~event /\ main = "handover"
      /\ \A v \in IOThreads : io[v].pc # "woken" /\ (io[v].pc = "taken" => v = w)
      BY <1>1, <1>2 DEF Handover
<1>4. io \in [IOThreads -> IORecord] /\ io[w] \in IORecord
      BY <1>1 DEF Types
<1> DEFINE r == [io[w] EXCEPT !.pc = "start"]
<1>5. /\ io' = [io EXCEPT ![w] = r] /\ r \in IORecord /\ r.pc = "start"
      /\ io'[w] = r /\ \A v \in IOThreads : v # w => io'[v] = io[v]
      BY <1>2, <1>4 DEF IORecord, IOPcs
<1>6. Types' /\ CollectorFlag'
      BY <1>1, <1>2, <1>5 DEF Types, CollectorFlag
<1>7. Handover'
      BY <1>1, <1>2, <1>3, <1>5 DEF Handover
<1>8. ~Queued /\ ~Queued' /\ ~collectorIsRunning
  <2>1. ~Queued /\ ~Queued'
        BY <1>1, <1>2, <1>3, <1>7, QueuedIs, QueuedIsNext
  <2>2. ~collectorIsRunning
        BY <1>1, <1>3 DEF CollectorFlag, CollectorPcs
  <2> QED
        BY <2>1, <2>2
<1>9. Users' = Users
  <2>1. w \in Users /\ Users' = Users \cup {w}
        BY <1>2, <1>4, <1>5, UsersMove DEF UsingPcs
  <2> QED
        BY <2>1
<1>10. AsyncCountExact'
      BY <1>1, <1>2, <1>8, <1>9, CountIs, CountIsNext
<1> QED
      BY <1>2, <1>6, <1>7, <1>8, <1>10, ExclusionIsNext DEF CallInv

(* The call step that meets a consistency check that fails.                *)
LEMMA FatalSteps ==
  ASSUME CallInv, UNCHANGED <<main, request, handVars, io, AsyncThreadCount,
                              collectorIsRunning>>
  PROVE  CallInv'
BY DEF CallInv, Types, CollectorFlag, Handover, handVars, AsyncCountExact,
       CollectorExcludesCalls, Queued, UsesHeap

-----------------------------------------------------------------------------
(* Blocks                                                                  *)

LEMMA SameBlocks ==
  ASSUME BlockTypes, UNCHANGED <<io, IocbFreeList, VersionOfTheWorld>>
  PROVE  BlockTypes'
BY DEF BlockTypes

LEMMA BlockTypesMain ==
  ASSUME CallInv, BlockTypes, MainStep
  PROVE  BlockTypes'
<1>1. IocbFreeList \in Seq(Blocks) /\ VersionOfTheWorld \in Nat
      BY DEF BlockTypes
<1>2. CASE AcquireAsyncIOCB
  <2>1. Tail(IocbFreeList) \in Seq(Blocks)
        BY <1>1, <1>2 DEF AcquireAsyncIOCB
  <2> QED
        BY <1>2, <2>1 DEF AcquireAsyncIOCB, BlockTypes, worldVars
<1>3. CASE InitalizeAsynchronousIO
  <2>1. [i \in Blocks |-> IocbCount + 1 - i] \in Seq(Blocks)
        BY AsyncAssumption DEF Blocks
  <2>2. IocbFreeList' \in Seq(Blocks) /\ VersionOfTheWorld' \in Nat
        BY <1>1, <1>3, <2>1 DEF InitalizeAsynchronousIO
  <2> QED
        BY <1>3, <2>2 DEF InitalizeAsynchronousIO, BlockTypes
<1>4. CASE ~AcquireAsyncIOCB /\ ~InitalizeAsynchronousIO
  <2>1. UNCHANGED <<io, IocbFreeList, VersionOfTheWorld>>
        BY <1>4 DEF MainStep, MainProgress, CallAsyncNativeFunction, HandedOver,
             RundownAsynchronousFunctions, MarkRoot, UpdateRoot,
             RestartAsynchronousFunctions, StartVM, CallNative, GarbageCollect, Compact,
             Cleanup, blockVars, worldVars
  <2> QED
        BY <2>1, SameBlocks
<1> QED
      BY <1>2, <1>3, <1>4

(* Between taking the parameters and giving the block back a thread keeps  *)
(* its block.                                                              *)
LEMMA KeepsBlock ==
  ASSUME CallInv, NEW w \in IOThreads, IOProgress(w) \/ PrimitiveReturns(w),
         ~TakeParameters(w), ~AbortAsyncIOCB(w)
  PROVE  /\ io'[w].block = io[w].block
         /\ io'[w].pc \in {"wait", "woken"} <=> io[w].pc \in {"wait", "woken"}
         /\ \A v \in IOThreads : v # w => io'[v] = io[v]
<1>0. /\ io \in [IOThreads -> IORecord] /\ io[w] \in IORecord
      BY DEF CallInv, Types
<1>1. CASE WaitForSingleObject(w)
      BY <1>0, <1>1 DEF WaitForSingleObject, At, Goto, IORecord
<1>2. CASE ClearInputQueue(w)
      BY <1>0, <1>2 DEF ClearInputQueue, At, Goto, IORecord
<1>3. CASE ArgumentError(w)
      BY <1>0, <1>3 DEF ArgumentError, At, Goto, IORecord
<1>4. CASE EnableGarbageCollection(w)
      BY <1>0, <1>4 DEF EnableGarbageCollection, At, IORecord
<1>5. CASE PrimitiveReturns(w)
      BY <1>0, <1>5 DEF PrimitiveReturns, At, Goto, IORecord
<1>6. CASE CheckVersion(w)
      BY <1>0, <1>6 DEF CheckVersion, At, Goto, IORecord
<1>7. CASE IncrementAsyncCount(w)
      BY <1>0, <1>7 DEF IncrementAsyncCount, At, Goto, IORecord
<1>8. CASE ResumeThread(w)
      BY <1>0, <1>8 DEF ResumeThread, At, Goto, IORecord
<1>9. CASE Epilog(w)
      BY <1>0, <1>9 DEF Epilog, At, Goto, IORecord
<1> QED
      BY <1>1, <1>2, <1>3, <1>4, <1>5, <1>6, <1>7, <1>8, <1>9 DEF IOProgress

LEMMA BlockTypesIO ==
  ASSUME CallInv, BlockTypes, NEW w \in IOThreads, IOProgress(w) \/ PrimitiveReturns(w)
  PROVE  BlockTypes'
<1>1. /\ io \in [IOThreads -> IORecord] /\ io[w] \in IORecord
      BY DEF CallInv, Types
<1>2. /\ IocbFreeList \in Seq(Blocks) /\ VersionOfTheWorld \in Nat
      /\ \A v \in IOThreads : io[v].block = NIL <=> io[v].pc \in {"wait", "woken"}
      BY DEF BlockTypes
<1>3. CASE TakeParameters(w)
  <2>1. CASE UNCHANGED io
        BY <1>2, <1>3, <2>1 DEF TakeParameters, BlockTypes, blockVars, worldVars
  <2>2. CASE ~UNCHANGED io
    <3>1. /\ io' = [io EXCEPT ![w].pc = "taken", ![w].block = nextIocb]
          /\ nextIocb # NIL /\ UNCHANGED <<IocbFreeList, VersionOfTheWorld>>
          BY <1>3, <2>2 DEF TakeParameters, blockVars, worldVars
    <3>2. io'[w].pc = "taken" /\ io'[w].block = nextIocb
          BY <1>1, <3>1 DEF IORecord
    <3>3. \A v \in IOThreads : v # w => io'[v] = io[v]
          BY <1>1, <3>1
    <3> QED
          BY <1>2, <3>1, <3>2, <3>3 DEF BlockTypes
  <2> QED
        BY <2>1, <2>2
<1>4. CASE AbortAsyncIOCB(w)
  <2>1. /\ io[w].pc = "free"
        /\ IocbFreeList' = <<io[w].block>> \o IocbFreeList
        /\ io' = [io EXCEPT ![w] = [pc |-> "wait", block |-> NIL, version |-> 0]]
        /\ VersionOfTheWorld' = VersionOfTheWorld
        BY <1>4 DEF AbortAsyncIOCB, At, Freed, worldVars
  <2>2. io[w].block \in Blocks
        BY <1>1, <1>2, <2>1 DEF IORecord
  <2>3. IocbFreeList' \in Seq(Blocks)
        BY <1>2, <2>1, <2>2
  <2>4. io'[w].pc = "wait" /\ io'[w].block = NIL
        BY <1>1, <2>1
  <2>5. \A v \in IOThreads : v # w => io'[v] = io[v]
        BY <1>1, <2>1
  <2> QED
        BY <1>2, <2>1, <2>3, <2>4, <2>5 DEF BlockTypes
<1>5. CASE ~TakeParameters(w) /\ ~AbortAsyncIOCB(w)
  <2>1. UNCHANGED <<IocbFreeList, VersionOfTheWorld>>
        BY <1>5 DEF IOProgress, WaitForSingleObject, ClearInputQueue, ArgumentError,
             EnableGarbageCollection, PrimitiveReturns, CheckVersion, IncrementAsyncCount,
             ResumeThread, Epilog, blockVars, worldVars
  <2>2. /\ io'[w].block = io[w].block
        /\ io'[w].pc \in {"wait", "woken"} <=> io[w].pc \in {"wait", "woken"}
        /\ \A v \in IOThreads : v # w => io'[v] = io[v]
        BY <1>5, KeepsBlock
  <2> QED
        BY <1>2, <2>1, <2>2 DEF BlockTypes
<1> QED
      BY <1>3, <1>4, <1>5

-----------------------------------------------------------------------------
(* All steps                                                               *)

LEMMA InitCallInv == Init => CallInv /\ BlockTypes
<1> SUFFICES ASSUME Init
             PROVE  CallInv /\ BlockTypes
    OBVIOUS
<1>1. \A w \in IOThreads : io[w] = [pc |-> "wait", block |-> NIL, version |-> 0]
      BY DEF Init
<1>2. io \in [IOThreads -> IORecord]
  <2>1. [pc |-> "wait", block |-> NIL, version |-> 0] \in IORecord
        BY DEF IORecord, IOPcs
  <2>2. io = [w \in IOThreads |-> [pc |-> "wait", block |-> NIL, version |-> 0]]
        BY DEF Init
  <2> QED
        BY <2>1, <2>2
<1>3. Types
  <2>1. /\ main = "down" /\ request = NIL /\ nextIocb = NIL /\ ~nextRoutine /\ ~event
        /\ nextRoutine \in BOOLEAN /\ event \in BOOLEAN /\ collectorIsRunning \in BOOLEAN
        /\ AsyncThreadCount = 0
        BY DEF Init
  <2> QED
        BY <1>2, <2>1 DEF Types, MainPcs
<1>4. CollectorFlag /\ Handover
      BY <1>1 DEF Init, CollectorFlag, Handover, CollectorPcs
<1>5. ~Queued /\ Users = {}
      BY <1>1 DEF Init, Queued, Users, UsesHeap
<1>6. AsyncCountExact
      BY <1>5, CountIs, FS_EmptySet DEF Init
<1>7. CollectorExcludesCalls
      BY DEF Init, CollectorExcludesCalls
<1>8. BlockTypes
      BY <1>1 DEF Init, BlockTypes
<1> QED
      BY <1>6, <1>7, <1>8, <1>3, <1>4 DEF CallInv

LEMMA NextCallInv == CallInv /\ BlockTypes /\ [Next]_vars => CallInv' /\ BlockTypes'
<1> SUFFICES ASSUME CallInv, BlockTypes, [Next]_vars
             PROVE  CallInv' /\ BlockTypes'
    OBVIOUS
<1>1. IocbFreeList \in Seq(Blocks) /\ VersionOfTheWorld \in Nat
      BY DEF BlockTypes
<1>2. CASE MainStep
  <2>1. AcquireAsyncIOCB => CallInv'
        BY <1>1, AcquireStep
  <2>2. CallAsyncNativeFunction => CallInv'
        BY CallStep
  <2>3. ~AcquireAsyncIOCB /\ ~CallAsyncNativeFunction => CallInv'
        BY <1>2, MainMovesStep DEF MainStep, MainProgress
  <2>4. BlockTypes'
        BY <1>2, BlockTypesMain
  <2> QED
        BY <2>1, <2>2, <2>3, <2>4
<1>3. ASSUME NEW w \in IOThreads, IOProgress(w) \/ PrimitiveReturns(w)
      PROVE  CallInv' /\ BlockTypes'
  <2>1. WaitForSingleObject(w) => CallInv'
        BY WaitStep
  <2>2. TakeParameters(w) => CallInv'
        BY TakeStep
  <2>3. ClearInputQueue(w) => CallInv'
        BY ClearStep
  <2>4. ~WaitForSingleObject(w) /\ ~TakeParameters(w) /\ ~ClearInputQueue(w) => CallInv'
        BY <1>1, <1>3, IOMovesStep DEF IOProgress
  <2>5. BlockTypes'
        BY <1>3, BlockTypesIO
  <2> QED
        BY <2>1, <2>2, <2>3, <2>4, <2>5
<1>4. CASE Poll \/ Terminated \/ UNCHANGED vars
  <2>1. UNCHANGED vars
        BY <1>4 DEF Poll, Terminated
  <2>2. UNCHANGED <<main, request, handVars, io, AsyncThreadCount, collectorIsRunning,
                    IocbFreeList, VersionOfTheWorld>>
        BY <2>1 DEF vars, callVars, gcVars, blockVars, worldVars
  <2> QED
        BY <2>2, FatalSteps, SameBlocks
<1> QED
      BY <1>2, <1>3, <1>4 DEF Next

LEMMA AlwaysCallInv == Spec => [](CallInv /\ BlockTypes)
BY InitCallInv, NextCallInv, PTL DEF Spec

(* The count that RundownAsynchronousFunctions waits for is exact, for any *)
(* number of threads, I/O threads and blocks.                              *)
THEOREM CountIsExact == Spec => []AsyncCountExact
<1>1. CallInv => AsyncCountExact
      BY DEF CallInv
<1> QED
      BY <1>1, AlwaysCallInv, PTL

(* The collector never runs while a native call uses the heap, for any     *)
(* number of threads, I/O threads and blocks.                              *)
THEOREM CollectorExcludes == Spec => []CollectorExcludesCalls
<1>1. CallInv => CollectorExcludesCalls
      BY DEF CallInv
<1> QED
      BY <1>1, AlwaysCallInv, PTL

-----------------------------------------------------------------------------
(* Who has a block, and what its pointers are                              *)

Holders == {w \in IOThreads : io[w].block # NIL}
HasObject == {"blocked", "returned", "enter", "done", "resumed", "free"}

(* A block is on the free list, requested or held, once.                   *)
Owners ==
  /\ \A i, j \in 1..Len(IocbFreeList) : IocbFreeList[i] = IocbFreeList[j] => i = j
  /\ \A w \in Holders :
       /\ \A i \in 1..Len(IocbFreeList) : IocbFreeList[i] # io[w].block
       /\ \A v \in Holders : io[v].block = io[w].block => v = w
       /\ Queued => io[w].block # request
  /\ Queued => \A i \in 1..Len(IocbFreeList) : IocbFreeList[i] # request
  /\ VersionOfTheWorld = 0 =>
       main = "down" /\ IocbFreeList = <<>> /\ \A w \in IOThreads : io[w].pc = "wait"

(* What is in a block is what belongs there.                               *)
ThreadSlot(b) == <<b, "thread">>
ObjectSlot(b) == <<b, "object">>
MayHold(s) == IF s[2] = "thread" THEN Threads ELSE {Object}

RootTypes ==
  /\ IocbRoots \in [Slots -> Threads \cup {Object, NIL}]
  /\ \A s \in Slots : IocbRoots[s] # NIL => IocbRoots[s] \in MayHold(s)

(* The blocks in use have the pointers the call was given.                 *)
BlocksInUse ==
  /\ Queued => IocbRoots[ThreadSlot(request)] # NIL
  /\ \A w \in Holders :
       /\ IocbRoots[ThreadSlot(io[w].block)] # NIL
       /\ io[w].pc \in HasObject => IocbRoots[ObjectSlot(io[w].block)] # NIL

(* The collector visits every pointer that is an old address.              *)
Visits ==
  /\ loaded # NIL => main \in {"mark", "update"}
  /\ main \in {"mark", "update"} => slot \in 1..LastSlot
  /\ main = "update" /\ loaded # NIL => loaded \in MayHold(SlotAt(slot))
  /\ stale # {} => main = "update"
  /\ \A s \in stale :
       s \in Slots /\ IocbRoots[s] # NIL /\ \E j \in slot..LastSlot : s = SlotAt(j)

BlockInv ==
  /\ Owners /\ RootTypes /\ BlocksInUse /\ Visits
  /\ main = "acquire" => caller \in Threads
  /\ HandoverIsSound

(* What the proofs below start from, and the next state of it.             *)
Known == CallInv /\ BlockTypes /\ BlockInv

LEMMA InUse ==
  ASSUME CallInv, BlockTypes
  PROVE  /\ \A w \in IOThreads : w \in Holders <=> io[w].pc \notin {"wait", "woken"}
         /\ \A w \in Holders : io[w].block \in Blocks
         /\ Queued => request \in Blocks
         /\ Queued <=> main = "call" \/ nextRoutine
<1>1. Types /\ Handover
      BY DEF CallInv
<1>2. /\ \A w \in IOThreads : w \in Holders <=> io[w].pc \notin {"wait", "woken"}
      BY DEF BlockTypes, Holders
<1>3. \A w \in Holders : io[w].block \in Blocks
      BY <1>1 DEF Types, IORecord, Holders
<1>4. Queued => request # NIL
      BY <1>1 DEF Queued, Handover
<1>5. Queued => request \in Blocks
      BY <1>1, <1>4 DEF Types
<1> QED
      BY <1>1, <1>2, <1>3, <1>5, QueuedIs

LEMMA SlotsOfBlocks ==
  ASSUME NEW b \in Blocks
  PROVE  ThreadSlot(b) \in Slots /\ ObjectSlot(b) \in Slots /\ ThreadSlot(b) # ObjectSlot(b)
BY DEF ThreadSlot, ObjectSlot, Slots

(* The collector's loops reach every pointer.                              *)
LEMMA SlotAtIs ==
  /\ \A i \in 1..LastSlot : SlotAt(i) \in Slots
  /\ \A s \in Slots : \E i \in 1..LastSlot : s = SlotAt(i)
<1>1. ASSUME NEW i \in 1..LastSlot
      PROVE  SlotAt(i) \in Slots
  <2>1. (i + 1) \div 2 \in Blocks
        BY AsyncAssumption DEF LastSlot, Blocks
  <2> QED
        BY <2>1 DEF SlotAt, Slots
<1>2. ASSUME NEW s \in Slots
      PROVE  \E i \in 1..LastSlot : s = SlotAt(i)
  <2>1. PICK b \in Blocks, k \in {"thread", "object"} : s = <<b, k>>
        BY DEF Slots
  <2>2. b \in 1..IocbCount /\ IocbCount \in Nat
        BY AsyncAssumption DEF Blocks
  <2>3. CASE k = "thread"
    <3> DEFINE i == 2 * b - 1
    <3>1. i \in 1..LastSlot /\ (i + 1) \div 2 = b /\ i % 2 = 1
          BY <2>2 DEF LastSlot
    <3> QED
          BY <2>1, <2>3, <3>1 DEF SlotAt
  <2>4. CASE k = "object"
    <3> DEFINE i == 2 * b
    <3>1. i \in 1..LastSlot /\ (i + 1) \div 2 = b /\ i % 2 = 0
          BY <2>2 DEF LastSlot
    <3> QED
          BY <2>1, <2>4, <3>1 DEF SlotAt
  <2> QED
        BY <2>3, <2>4
<1> QED
      BY <1>1, <1>2

-----------------------------------------------------------------------------
(* Owners                                                                  *)

(* No block changes hands.                                                 *)
LEMMA OwnersSame ==
  ASSUME Owners, IocbFreeList' = IocbFreeList,
         \A w \in IOThreads : io'[w].block = io[w].block,
         Queued' => Queued /\ request' = request,
         VersionOfTheWorld' = 0 =>
           VersionOfTheWorld = 0 /\ main' = main /\ io' = io
  PROVE  Owners'
<1>1. Holders' = Holders
      BY DEF Holders
<1>2. VersionOfTheWorld' = 0 =>
        main' = "down" /\ IocbFreeList' = <<>> /\ \A w \in IOThreads : io'[w].pc = "wait"
      BY DEF Owners
<1> QED
      BY <1>1, <1>2 DEF Owners, Holders

(* Only AcquireAsyncIOCB makes a request.                                  *)
LEMMA QueuedMain ==
  ASSUME CallInv, CallInv', MainStep, ~AcquireAsyncIOCB
  PROVE  Queued' => Queued /\ request' = request
<1>1. Handover
      BY DEF CallInv
<1>2. /\ Queued <=> main = "call" \/ nextRoutine
      /\ Queued' <=> main' = "call" \/ nextRoutine'
      BY QueuedIs, QueuedIsNext DEF CallInv
<1>3. CASE CallAsyncNativeFunction
      BY <1>2, <1>3 DEF CallAsyncNativeFunction, callVars
<1>4. CASE HandedOver
      BY <1>1, <1>2, <1>4 DEF HandedOver, Handover, handVars
<1>5. CASE \/ StartVM \/ Cleanup \/ (\E t \in Threads : CallNative(t)) \/ GarbageCollect
           \/ InitalizeAsynchronousIO
  <2>1. /\ main \in {"init", "java", "down"} /\ nextRoutine' = nextRoutine /\ main' # "call"
        BY <1>5 DEF StartVM, Cleanup, CallNative, GarbageCollect, InitalizeAsynchronousIO,
                    handVars
  <2>2. ~nextRoutine
        BY <1>1, <2>1 DEF Handover
  <2> QED
        BY <1>2, <2>1, <2>2
<1>6. CASE RundownAsynchronousFunctions \/ MarkRoot \/ UpdateRoot \/ Compact
           \/ RestartAsynchronousFunctions
  <2>1. /\ main \in {"rundown", "mark", "sweep", "update", "updated"}
        /\ nextRoutine' = nextRoutine /\ main' # "call"
        BY <1>6 DEF RundownAsynchronousFunctions, MarkRoot, UpdateRoot, Compact,
                    RestartAsynchronousFunctions, NextSlot, handVars
  <2>2. ~nextRoutine
        BY <1>1, <2>1 DEF Handover
  <2> QED
        BY <1>2, <2>1, <2>2
<1> QED
      BY <1>3, <1>4, <1>5, <1>6 DEF MainStep, MainProgress

LEMMA OwnersMain ==
  ASSUME Known, CallInv', BlockTypes', MainStep
  PROVE  Owners'
<1>1. /\ Owners /\ Handover /\ VersionOfTheWorld \in Nat
      /\ IocbFreeList \in Seq(Blocks)
      BY DEF Known, BlockInv, CallInv, BlockTypes
<1>2. /\ Queued <=> main = "call" \/ nextRoutine
      /\ Queued' <=> main' = "call" \/ nextRoutine'
      BY QueuedIs, QueuedIsNext DEF Known, CallInv
<1>3. CASE AcquireAsyncIOCB
  <2>1. /\ main = "acquire" /\ UNCHANGED <<io, VersionOfTheWorld>>
        /\ IocbFreeList # <<>> /\ IocbFreeList' = Tail(IocbFreeList)
        /\ request' = Head(IocbFreeList) /\ VersionOfTheWorld # 0
        BY <1>1, <1>3 DEF AcquireAsyncIOCB, worldVars, Owners
  <2>2. /\ request' = IocbFreeList[1] /\ 1 \in 1..Len(IocbFreeList)
        /\ \A i \in 1..Len(IocbFreeList') :
             i + 1 \in 1..Len(IocbFreeList) /\ IocbFreeList'[i] = IocbFreeList[i + 1]
        BY <1>1, <2>1
  <2>3. \A i, j \in 1..Len(IocbFreeList') : IocbFreeList'[i] = IocbFreeList'[j] => i = j
        BY <1>1, <2>2 DEF Owners
  <2>4. \A i \in 1..Len(IocbFreeList') : IocbFreeList'[i] # request'
    <3>1. ASSUME NEW i \in 1..Len(IocbFreeList'), IocbFreeList'[i] = request'
          PROVE  FALSE
      <4>1. i + 1 \in 1..Len(IocbFreeList) /\ IocbFreeList[i + 1] = IocbFreeList[1]
            BY <2>2, <3>1
      <4>2. i + 1 = 1
            BY <1>1, <2>2, <4>1 DEF Owners
      <4> QED
            BY <3>1, <4>2
    <3> QED
          BY <3>1
  <2>5. Holders' = Holders
        BY <2>1 DEF Holders
  <2>6. ASSUME NEW w \in Holders
        PROVE  /\ \A i \in 1..Len(IocbFreeList') : IocbFreeList'[i] # io[w].block
               /\ \A v \in Holders : io[v].block = io[w].block => v = w
               /\ io[w].block # request'
        BY <1>1, <2>2 DEF Owners
  <2> QED
        BY <2>1, <2>3, <2>4, <2>5, <2>6 DEF Owners
<1>4. CASE InitalizeAsynchronousIO
  <2>1. /\ main = "down" /\ main' = "init" /\ VersionOfTheWorld' = VersionOfTheWorld + 1
        /\ UNCHANGED <<io, handVars>>
        /\ IocbFreeList' = IF VersionOfTheWorld = 0
                           THEN [i \in Blocks |-> IocbCount + 1 - i] ELSE IocbFreeList
        BY <1>4 DEF InitalizeAsynchronousIO
  <2>2. ~Queued' /\ VersionOfTheWorld' # 0
        BY <1>1, <1>2, <2>1 DEF Handover, handVars
  <2>3. CASE VersionOfTheWorld = 0
    <3>1. Holders' = {}
          BY <1>1, <2>1, <2>3 DEF Owners, Holders, Known, BlockTypes
    <3>2. IocbFreeList' = [i \in 1..IocbCount |-> IocbCount + 1 - i] /\ IocbCount \in Nat
          BY <2>1, <2>3, AsyncAssumption DEF Blocks
    <3>3. Len(IocbFreeList') = IocbCount
          BY <3>2
    <3>4. \A i, j \in 1..Len(IocbFreeList') : IocbFreeList'[i] = IocbFreeList'[j] => i = j
          BY <3>2, <3>3
    <3> QED
          BY <2>2, <3>1, <3>4 DEF Owners
  <2>4. CASE VersionOfTheWorld # 0
        BY <1>1, <2>1, <2>2, <2>4, OwnersSame
  <2> QED
        BY <2>3, <2>4
<1>5. CASE ~AcquireAsyncIOCB /\ ~InitalizeAsynchronousIO
  <2>1. /\ UNCHANGED <<io, IocbFreeList, VersionOfTheWorld>>
        BY <1>5 DEF MainStep, MainProgress, CallAsyncNativeFunction, HandedOver,
             RundownAsynchronousFunctions, MarkRoot, UpdateRoot,
             RestartAsynchronousFunctions, StartVM, CallNative, GarbageCollect, Compact,
             Cleanup, blockVars, worldVars
  <2>2. main # "down" /\ (Queued' => Queued /\ request' = request)
    <3>1. main # "down"
          BY <1>5 DEF MainStep, MainProgress, CallAsyncNativeFunction, HandedOver,
             RundownAsynchronousFunctions, MarkRoot, UpdateRoot,
             RestartAsynchronousFunctions, StartVM, CallNative, GarbageCollect, Compact,
             Cleanup
    <3> QED
          BY <1>5, <3>1, QueuedMain DEF Known
  <2>3. VersionOfTheWorld' # 0
        BY <1>1, <2>1, <2>2 DEF Owners
  <2> QED
        BY <1>1, <2>1, <2>2, <2>3, OwnersSame
<1> QED
      BY <1>3, <1>4, <1>5

LEMMA OwnersIO ==
  ASSUME Known, CallInv', BlockTypes', NEW w \in IOThreads,
         IOProgress(w) \/ PrimitiveReturns(w)
  PROVE  Owners'
<1>1. /\ Owners /\ Handover /\ VersionOfTheWorld \in Nat
      /\ IocbFreeList \in Seq(Blocks)
      /\ io \in [IOThreads -> IORecord] /\ io[w] \in IORecord
      BY DEF Known, BlockInv, CallInv, BlockTypes, Types
<1>2. /\ Queued <=> main = "call" \/ nextRoutine
      /\ Queued' <=> main' = "call" \/ nextRoutine'
      BY QueuedIs, QueuedIsNext DEF Known, CallInv
<1>3. /\ UNCHANGED <<main, request, VersionOfTheWorld>>
      /\ VersionOfTheWorld # 0
  <2>1. UNCHANGED <<main, request, VersionOfTheWorld>>
        BY DEF IOProgress, WaitForSingleObject, TakeParameters, ClearInputQueue, ArgumentError,
           EnableGarbageCollection, PrimitiveReturns, CheckVersion, IncrementAsyncCount,
           ResumeThread, Epilog, AbortAsyncIOCB, callVars, worldVars
  <2>2. io[w].pc # "wait" \/ event
        BY DEF IOProgress, WaitForSingleObject, TakeParameters, ClearInputQueue, ArgumentError,
           EnableGarbageCollection, PrimitiveReturns, CheckVersion, IncrementAsyncCount,
           ResumeThread, Epilog, AbortAsyncIOCB, At
  <2> QED
        BY <1>1, <2>1, <2>2 DEF Owners, Handover
<1>4. CASE TakeParameters(w) /\ ~UNCHANGED io
  <2>1. /\ io' = [io EXCEPT ![w].pc = "taken", ![w].block = nextIocb]
        /\ nextIocb # NIL /\ nextRoutine /\ ~nextRoutine' /\ UNCHANGED IocbFreeList
        /\ io[w].pc = "woken"
        BY <1>4 DEF TakeParameters, At, blockVars
  <2>2. io'[w].block = request /\ \A v \in IOThreads : v # w => io'[v] = io[v]
        BY <1>1, <2>1 DEF Handover, IORecord
  <2>3. Queued /\ ~Queued'
        BY <1>1, <1>2, <1>3, <2>1 DEF Handover
  <2>4. request # NIL /\ w \notin Holders /\ Holders' = Holders \cup {w}
        BY <1>1, <2>1, <2>2 DEF Handover, Holders, Known, BlockTypes
  <2>5. ASSUME NEW v \in Holders'
        PROVE  /\ \A i \in 1..Len(IocbFreeList') : IocbFreeList'[i] # io'[v].block
               /\ \A u \in Holders' : io'[u].block = io'[v].block => u = v
    <3>1. CASE v = w
          BY <1>1, <2>1, <2>2, <2>3, <2>4, <3>1 DEF Owners, Holders
    <3>2. CASE v # w
          BY <1>1, <2>1, <2>2, <2>3, <2>4, <2>5, <3>2 DEF Owners, Holders
    <3> QED
          BY <3>1, <3>2
  <2> QED
        BY <1>1, <1>3, <2>1, <2>3, <2>5 DEF Owners
<1>5. CASE AbortAsyncIOCB(w)
  <2> DEFINE b == io[w].block
  <2>1. /\ io[w].pc = "free" /\ IocbFreeList' = <<b>> \o IocbFreeList
        /\ io' = [io EXCEPT ![w] = [pc |-> "wait", block |-> NIL, version |-> 0]]
        /\ nextRoutine' = nextRoutine
        BY <1>5 DEF AbortAsyncIOCB, At, Freed, handVars
  <2>2. w \in Holders /\ b \in Blocks
        BY <1>1, <2>1, InUse DEF Known
  <2>3. /\ Len(IocbFreeList') = Len(IocbFreeList) + 1 /\ IocbFreeList'[1] = b
        /\ \A i \in 1..Len(IocbFreeList') :
             i = 1 \/ (i - 1 \in 1..Len(IocbFreeList) /\ IocbFreeList'[i] = IocbFreeList[i - 1])
        BY <1>1, <2>1, <2>2
  <2>4. /\ io'[w].block = NIL /\ \A v \in IOThreads : v # w => io'[v] = io[v]
        /\ Holders' = Holders \ {w}
        BY <1>1, <2>1 DEF Holders
  <2>5. Queued' <=> Queued
        BY <1>2, <1>3, <2>1
  <2>6. \A i \in 1..Len(IocbFreeList) : IocbFreeList[i] # b
        BY <1>1, <2>2 DEF Owners
  <2>7. \A i, j \in 1..Len(IocbFreeList') : IocbFreeList'[i] = IocbFreeList'[j] => i = j
    <3>1. ASSUME NEW i \in 1..Len(IocbFreeList'), NEW j \in 1..Len(IocbFreeList'),
                 IocbFreeList'[i] = IocbFreeList'[j], i # j
          PROVE  FALSE
      <4>1. CASE i = 1
            BY <2>3, <2>6, <3>1, <4>1
      <4>2. CASE j = 1
            BY <2>3, <2>6, <3>1, <4>2
      <4>3. CASE i # 1 /\ j # 1
        <5>1. /\ i - 1 \in 1..Len(IocbFreeList) /\ j - 1 \in 1..Len(IocbFreeList)
              /\ IocbFreeList[i - 1] = IocbFreeList[j - 1]
              BY <2>3, <3>1, <4>3
        <5>2. i - 1 = j - 1
              BY <1>1, <5>1 DEF Owners
        <5> QED
              BY <3>1, <5>2
      <4> QED
            BY <4>1, <4>2, <4>3
    <3> QED
          BY <3>1
  <2>8. ASSUME NEW v \in Holders'
        PROVE  /\ \A i \in 1..Len(IocbFreeList') : IocbFreeList'[i] # io'[v].block
               /\ \A u \in Holders' : io'[u].block = io'[v].block => u = v
               /\ Queued' => io'[v].block # request'
    <3>1. v \in Holders /\ v # w /\ io'[v] = io[v] /\ io[v].block # b
          BY <1>1, <2>2, <2>4 DEF Owners, Holders
    <3>2. \A i \in 1..Len(IocbFreeList) : IocbFreeList[i] # io[v].block
          BY <1>1, <3>1 DEF Owners
    <3>3. \A i \in 1..Len(IocbFreeList') : IocbFreeList'[i] # io'[v].block
          BY <2>3, <3>1, <3>2
    <3>4. \A u \in Holders' : io'[u].block = io'[v].block => u = v
          BY <1>1, <2>4, <3>1 DEF Owners, Holders
    <3>5. Queued' => io'[v].block # request'
          BY <1>1, <1>3, <2>5, <3>1 DEF Owners
    <3> QED
          BY <3>3, <3>4, <3>5
  <2>9. Queued' => \A i \in 1..Len(IocbFreeList') : IocbFreeList'[i] # request'
        BY <1>1, <1>3, <2>2, <2>3, <2>5 DEF Owners
  <2> QED
        BY <1>3, <2>7, <2>8, <2>9 DEF Owners
<1>6. CASE ~AbortAsyncIOCB(w) /\ (TakeParameters(w) => UNCHANGED io)
  <2>1. IocbFreeList' = IocbFreeList /\ (Queued' => Queued)
    <3>1. IocbFreeList' = IocbFreeList
          BY <1>6 DEF IOProgress, WaitForSingleObject, TakeParameters, ClearInputQueue,
           ArgumentError, EnableGarbageCollection, PrimitiveReturns, CheckVersion,
           IncrementAsyncCount, ResumeThread, Epilog, blockVars
    <3>2. nextRoutine' => nextRoutine
          BY <1>6 DEF IOProgress, WaitForSingleObject, TakeParameters, ClearInputQueue,
           ArgumentError, EnableGarbageCollection, PrimitiveReturns, CheckVersion,
           IncrementAsyncCount, ResumeThread, Epilog, handVars
    <3> QED
          BY <1>2, <1>3, <3>1, <3>2
  <2>2. \A v \in IOThreads : io'[v].block = io[v].block
        BY <1>6, KeepsBlock DEF Known
  <2> QED
        BY <1>1, <1>3, <2>1, <2>2, OwnersSame
<1> QED
      BY <1>4, <1>5, <1>6

-----------------------------------------------------------------------------
(* Pointers: the main thread                                               *)

PointerInv == RootTypes /\ BlocksInUse /\ Visits /\ (main = "acquire" => caller \in Threads)

(* Nothing collected.                                                      *)
LEMMA PointersSame ==
  ASSUME Known, CallInv', UNCHANGED <<IocbRoots, stale, loaded, io>>,
         main \notin {"mark", "update"}, main' # "update", main' = "mark" => slot' = 1,
         main' = "acquire" => caller' \in Threads,
         Queued' => Queued /\ request' = request
  PROVE  PointerInv'
<1>1. RootTypes /\ BlocksInUse /\ Visits
      BY DEF Known, BlockInv
<1>2. Holders' = Holders
      BY DEF Holders
<1>3. RootTypes'
      BY <1>1 DEF RootTypes
<1>4. BlocksInUse'
      BY <1>1, <1>2 DEF BlocksInUse
<1>5. 1 \in 1..LastSlot
      BY AsyncAssumption DEF LastSlot
<1>6. loaded' = NIL /\ stale' = {}
      BY <1>1 DEF Visits
<1>7. Visits'
      BY <1>5, <1>6 DEF Visits
<1> QED
      BY <1>3, <1>4, <1>7 DEF PointerInv

LEMMA PointersAcquire ==
  ASSUME Known, CallInv', AcquireAsyncIOCB
  PROVE  PointerInv' /\ HandoverIsSound'
<1>1. /\ RootTypes /\ BlocksInUse /\ Visits /\ Owners /\ CollectorFlag /\ HandoverIsSound
      /\ IocbFreeList \in Seq(Blocks) /\ main = "acquire" /\ caller \in Threads
      /\ CollectorFlag' /\ Handover
      BY DEF Known, BlockInv, CallInv, BlockTypes, AcquireAsyncIOCB
<1> DEFINE b == Head(IocbFreeList)
<1>2. /\ request' = b /\ UNCHANGED <<io, slot, loaded, caller, handVars>>
      /\ b \in Blocks /\ b = IocbFreeList[1] /\ 1 \in 1..Len(IocbFreeList)
      BY <1>1 DEF AcquireAsyncIOCB, gcVars
<1>3. ~collectorIsRunning
      BY <1>1 DEF CollectorFlag, CollectorPcs
<1>4. loaded' = NIL /\ stale' = {}
      BY <1>1, <1>2 DEF Visits, AcquireAsyncIOCB
<1>5. CASE IocbRoots[ThreadSlot(b)] # NIL
  <2>1. fatal' = "acquire" /\ UNCHANGED <<main, IocbRoots>>
        BY <1>5 DEF AcquireAsyncIOCB, ThreadSlot
  <2>2. Holders' = Holders /\ ~Queued'
        BY <1>1, <1>2, <2>1 DEF Holders, Queued
  <2>3. RootTypes' /\ BlocksInUse'
        BY <1>1, <1>2, <2>1, <2>2 DEF RootTypes, BlocksInUse
  <2>4. Visits'
        BY <1>1, <1>4, <2>1 DEF Visits
  <2> QED
        BY <1>1, <1>2, <2>1, <2>3, <2>4 DEF PointerInv, HandoverIsSound
<1>6. CASE IocbRoots[ThreadSlot(b)] = NIL
  <2>1. /\ IocbRoots' = [IocbRoots EXCEPT ![ThreadSlot(b)] = caller]
        /\ main' = "call" /\ fatal' = fatal
        BY <1>3, <1>6 DEF AcquireAsyncIOCB, ThreadSlot
  <2>2. ThreadSlot(b) \in Slots /\ MayHold(ThreadSlot(b)) = Threads /\ caller # NIL
        BY <1>1, <1>2, SlotsOfBlocks, AsyncAssumption DEF MayHold, ThreadSlot
  <2>3. RootTypes'
        BY <1>1, <2>1, <2>2 DEF RootTypes
  <2>4. Holders' = Holders
        BY <1>2 DEF Holders
  <2>5. \A s \in Slots : IocbRoots[s] # NIL => IocbRoots'[s] # NIL
        BY <1>1, <2>1, <2>2 DEF RootTypes
  <2>6. IocbRoots'[ThreadSlot(b)] # NIL
        BY <1>1, <2>1, <2>2 DEF RootTypes
  <2>7. BlocksInUse'
    <3>1. \A w \in Holders : io[w].block \in Blocks
          BY InUse DEF Known
    <3> QED
          BY <1>1, <1>2, <2>4, <2>5, <2>6, <3>1, SlotsOfBlocks DEF BlocksInUse
  <2>8. Visits'
        BY <1>4, <2>1 DEF Visits
  <2> QED
        BY <1>1, <2>1, <2>3, <2>7, <2>8 DEF PointerInv, HandoverIsSound
<1> QED
      BY <1>5, <1>6

LEMMA PointersMark ==
  ASSUME Known, CallInv', MarkRoot
  PROVE  PointerInv' /\ HandoverIsSound'
<1>1. /\ RootTypes /\ BlocksInUse /\ Visits /\ HandoverIsSound /\ Handover /\ main = "mark"
      BY DEF Known, BlockInv, CallInv, MarkRoot
<1>2. UNCHANGED <<IocbRoots, stale, io, request, nextRoutine>> /\ main' \in {"mark", "sweep"}
      BY <1>1 DEF MarkRoot, NextSlot, callVars, blockVars, handVars
<1>3. Holders' = Holders /\ ~Queued'
      BY <1>1, <1>2, QueuedIsNext DEF Holders, CallInv, Handover
<1>4. RootTypes' /\ BlocksInUse'
      BY <1>1, <1>2, <1>3 DEF RootTypes, BlocksInUse
<1>5. slot \in 1..LastSlot /\ LastSlot \in Nat
      BY <1>1, AsyncAssumption DEF Visits, LastSlot
<1>6. /\ loaded' # NIL => main' = "mark"
      /\ main' = "mark" => slot' \in 1..LastSlot
      BY <1>1, <1>5 DEF MarkRoot, NextSlot
<1>7. stale' = {}
      BY <1>1, <1>2 DEF Visits
<1>8. Visits'
      BY <1>2, <1>6, <1>7 DEF Visits
<1>9. HandoverIsSound'
      BY <1>1 DEF MarkRoot, HandoverIsSound
<1> QED
      BY <1>2, <1>4, <1>8, <1>9 DEF PointerInv

LEMMA PointersCompact ==
  ASSUME Known, CallInv', Compact
  PROVE  PointerInv' /\ HandoverIsSound'
<1>1. /\ RootTypes /\ BlocksInUse /\ Visits /\ HandoverIsSound /\ Handover /\ main = "sweep"
      BY DEF Known, BlockInv, CallInv, Compact
<1>2. /\ UNCHANGED <<IocbRoots, io, request, nextRoutine, loaded, fatal>>
      /\ main' = "update" /\ slot' = 1 /\ stale' = {s \in Slots : IocbRoots[s] # NIL}
      BY DEF Compact, callVars, handVars
<1>3. Holders' = Holders /\ ~Queued'
      BY <1>1, <1>2, QueuedIsNext DEF Holders, CallInv, Handover
<1>4. RootTypes' /\ BlocksInUse'
      BY <1>1, <1>2, <1>3 DEF RootTypes, BlocksInUse
<1>5. loaded' = NIL /\ slot' \in 1..LastSlot
      BY <1>1, <1>2, AsyncAssumption DEF Visits, LastSlot
<1>6. Visits'
      BY <1>2, <1>5, SlotAtIs DEF Visits
<1> QED
      BY <1>1, <1>2, <1>4, <1>6 DEF PointerInv, HandoverIsSound

LEMMA PointersUpdate ==
  ASSUME Known, CallInv', UpdateRoot
  PROVE  PointerInv' /\ HandoverIsSound'
<1>1. /\ RootTypes /\ BlocksInUse /\ Visits /\ HandoverIsSound /\ Handover /\ main = "update"
      BY DEF Known, BlockInv, CallInv, UpdateRoot
<1> DEFINE s == SlotAt(slot)
<1>2. /\ UNCHANGED <<io, request, nextRoutine, fatal>> /\ main' \in {"update", "updated"}
      BY <1>1 DEF UpdateRoot, NextSlot, callVars, handVars
<1>3. Holders' = Holders /\ ~Queued'
      BY <1>1, <1>2, QueuedIsNext DEF Holders, CallInv, Handover
<1>4. slot \in 1..LastSlot /\ LastSlot \in Nat /\ s \in Slots
      BY <1>1, SlotAtIs, AsyncAssumption DEF Visits, LastSlot
<1>5. CASE loaded = NIL /\ IocbRoots[s] # NIL
  <2>1. UNCHANGED <<IocbRoots, stale, main, slot>> /\ loaded' = IocbRoots[s]
        BY <1>5 DEF UpdateRoot
  <2>2. RootTypes' /\ BlocksInUse'
        BY <1>1, <1>2, <1>3, <2>1 DEF RootTypes, BlocksInUse
  <2>3. IocbRoots[s] \in MayHold(s)
        BY <1>1, <1>4, <1>5 DEF RootTypes
  <2>4. SlotAt(slot)' = s
        BY <2>1 DEF SlotAt
  <2>5. Visits'
        BY <1>1, <1>4, <2>1, <2>3, <2>4 DEF Visits, SlotAt
  <2> QED
        BY <1>1, <1>2, <2>1, <2>2, <2>5 DEF PointerInv, HandoverIsSound
<1>6. CASE ~(loaded = NIL /\ IocbRoots[s] # NIL)
  <2>1. /\ NextSlot("updated")
        /\ \/ loaded = NIL /\ IocbRoots[s] = NIL /\ UNCHANGED <<IocbRoots, stale>>
           \/ /\ loaded # NIL /\ IocbRoots' = [IocbRoots EXCEPT ![s] = loaded]
              /\ stale' = stale \ {s}
        BY <1>6 DEF UpdateRoot
  <2>2. loaded # NIL => loaded \in MayHold(s)
        BY <1>1 DEF Visits
  <2>3. RootTypes'
        BY <1>1, <1>4, <2>1, <2>2 DEF RootTypes, MayHold
  <2>4. \A r \in Slots : IocbRoots[r] # NIL => IocbRoots'[r] # NIL
        BY <1>1, <1>4, <2>1 DEF RootTypes
  <2>5. BlocksInUse'
    <3>1. \A w \in Holders : io[w].block \in Blocks
          BY InUse DEF Known
    <3> QED
          BY <1>1, <1>2, <1>3, <2>4, <3>1, SlotsOfBlocks DEF BlocksInUse
  <2>6. stale' = stale \ {s}
        BY <1>1, <2>1 DEF Visits
  <2>7. ASSUME NEW r \in stale'
        PROVE  /\ r \in Slots /\ IocbRoots'[r] # NIL
               /\ \E j \in (slot + 1)..LastSlot : r = SlotAt(j)
    <3>1. r \in stale /\ r # s /\ r \in Slots /\ IocbRoots[r] # NIL
          BY <1>1, <2>6, <2>7 DEF Visits
    <3>2. PICK j \in slot..LastSlot : r = SlotAt(j)
          BY <1>1, <3>1 DEF Visits
    <3>3. j # slot
          BY <3>1, <3>2
    <3>4. j \in (slot + 1)..LastSlot
          BY <1>4, <3>2, <3>3
    <3> QED
          BY <2>4, <3>1, <3>2, <3>4
  <2>8. CASE slot < LastSlot
    <3>1. slot' = slot + 1 /\ main' = main /\ loaded' = NIL /\ slot' \in 1..LastSlot
          BY <1>4, <2>1, <2>8 DEF NextSlot
    <3> QED
          BY <1>1, <1>2, <2>3, <2>5, <2>7, <3>1
          DEF PointerInv, HandoverIsSound, Visits, SlotAt, LastSlot
  <2>9. CASE ~(slot < LastSlot)
    <3>1. main' = "updated" /\ loaded' = NIL
          BY <2>1, <2>9 DEF NextSlot
    <3>2. stale' = {}
          BY <1>4, <2>7, <2>9
    <3> QED
          BY <1>1, <1>2, <2>3, <2>5, <3>1, <3>2 DEF PointerInv, HandoverIsSound, Visits
  <2> QED
        BY <2>8, <2>9
<1> QED
      BY <1>5, <1>6

LEMMA PointersMain ==
  ASSUME Known, CallInv', MainStep
  PROVE  PointerInv' /\ HandoverIsSound'
<1>1. CASE AcquireAsyncIOCB
      BY <1>1, PointersAcquire
<1>2. CASE MarkRoot \/ Compact \/ UpdateRoot
      BY <1>2, PointersMark, PointersCompact, PointersUpdate
<1>3. CASE ~AcquireAsyncIOCB /\ ~MarkRoot /\ ~Compact /\ ~UpdateRoot
  <2>1. /\ Handover /\ HandoverIsSound
        BY DEF Known, BlockInv, CallInv
  <2>2. Queued' => Queued /\ request' = request
        BY <1>3, QueuedMain DEF Known
  <2>3. /\ UNCHANGED <<IocbRoots, stale, io>>
        /\ main \notin {"mark", "update"} /\ main' # "update"
        BY <1>3 DEF MainStep, MainProgress, CallAsyncNativeFunction, HandedOver,
           RundownAsynchronousFunctions, RestartAsynchronousFunctions, StartVM, CallNative,
           GarbageCollect, Cleanup, InitalizeAsynchronousIO, blockVars
  <2>4. /\ UNCHANGED loaded /\ (main' = "mark" => slot' = 1)
        BY <1>3 DEF MainStep, MainProgress, CallAsyncNativeFunction, HandedOver,
           RundownAsynchronousFunctions, RestartAsynchronousFunctions, StartVM, CallNative,
           GarbageCollect, Cleanup, InitalizeAsynchronousIO, gcVars
  <2>5. /\ main' = "acquire" => caller' \in Threads
        BY <1>3 DEF MainStep, MainProgress, CallAsyncNativeFunction, HandedOver,
           RundownAsynchronousFunctions, RestartAsynchronousFunctions, StartVM, CallNative,
           GarbageCollect, Cleanup, InitalizeAsynchronousIO
  <2>6. fatal' = fatal
    <3>1. CASE CallAsyncNativeFunction
          BY <2>1, <3>1 DEF CallAsyncNativeFunction, Handover
    <3>2. CASE ~CallAsyncNativeFunction
          BY <1>3, <3>2 DEF MainStep, MainProgress, HandedOver,
             RundownAsynchronousFunctions, RestartAsynchronousFunctions, StartVM, CallNative,
             GarbageCollect, Cleanup, InitalizeAsynchronousIO
    <3> QED
          BY <3>1, <3>2
  <2>7. PointerInv'
        BY <2>2, <2>3, <2>4, <2>5, PointersSame
  <2> QED
        BY <2>1, <2>6, <2>7 DEF HandoverIsSound
<1> QED
      BY <1>1, <1>2, <1>3

-----------------------------------------------------------------------------
(* Pointers: the I/O threads                                               *)

(* The collector is not disturbed when pointers are not cleared.           *)
LEMMA VisitsIO ==
  ASSUME Visits, RootTypes, UNCHANGED <<main, slot, loaded>>, stale' \subseteq stale,
         \A s \in stale' : IocbRoots'[s] # NIL
  PROVE  Visits'
BY DEF Visits, SlotAt, LastSlot

(* A thread goes on with its block, to a point where it needs the object   *)
(* pointer only if it needed it before.                                    *)
LEMMA PointersGoOn ==
  ASSUME Known, CallInv', NEW w \in IOThreads, UNCHANGED <<IocbRoots, stale, main, slot,
         loaded, caller>>, Queued' => Queued /\ request' = request,
         io'[w].block = io[w].block, io'[w].pc \in HasObject => io[w].pc \in HasObject,
         \A v \in IOThreads : v # w => io'[v] = io[v]
  PROVE  PointerInv'
<1>1. /\ RootTypes /\ BlocksInUse /\ Visits /\ (main = "acquire" => caller \in Threads)
      BY DEF Known, BlockInv
<1>2. Holders' = Holders
      BY DEF Holders
<1>3. RootTypes'
      BY <1>1 DEF RootTypes
<1>4. BlocksInUse'
      BY <1>1, <1>2 DEF BlocksInUse, Holders
<1>5. Visits'
      BY <1>1, VisitsIO DEF Visits
<1> QED
      BY <1>1, <1>3, <1>4, <1>5 DEF PointerInv

LEMMA PointersSet ==
  ASSUME Known, CallInv', NEW w \in IOThreads, ArgumentError(w) \/ EnableGarbageCollection(w)
  PROVE  PointerInv'
<1>1. /\ RootTypes /\ BlocksInUse /\ Visits /\ (main = "acquire" => caller \in Threads)
      BY DEF Known, BlockInv
<1> DEFINE b == io[w].block
<1>2. /\ io[w].pc = "start" /\ UNCHANGED <<main, slot, loaded, caller, request, nextRoutine>>
      /\ IocbRoots' = [IocbRoots EXCEPT ![ObjectSlot(b)] = Object]
      /\ stale' = stale \ {ObjectSlot(b)}
      BY DEF ArgumentError, EnableGarbageCollection, At, SetObject, ObjectSlot, callVars,
             gcVars, handVars
<1>3. w \in Holders /\ b \in Blocks /\ ObjectSlot(b) \in Slots
      BY <1>2, InUse, SlotsOfBlocks DEF Known
<1>4. /\ io'[w].block = b /\ \A v \in IOThreads : v # w => io'[v] = io[v]
      BY <1>2, KeepsBlock DEF Known, IOProgress, TakeParameters, AbortAsyncIOCB, At
<1>5. Holders' = Holders
      BY <1>4 DEF Holders
<1>6. Queued' => Queued
      BY <1>2, QueuedIs, QueuedIsNext DEF Known, CallInv
<1>7. Object # NIL /\ MayHold(ObjectSlot(b)) = {Object}
      BY AsyncAssumption DEF MayHold, ObjectSlot
<1>8. RootTypes'
      BY <1>1, <1>2, <1>3, <1>7 DEF RootTypes
<1>9. /\ \A s \in Slots : IocbRoots[s] # NIL => IocbRoots'[s] # NIL
      /\ IocbRoots'[ObjectSlot(b)] # NIL
      BY <1>1, <1>2, <1>3, <1>7 DEF RootTypes
<1>10. BlocksInUse'
  <2>1. /\ \A v \in Holders : io[v].block \in Blocks
        /\ Queued => request \in Blocks
        BY InUse DEF Known
  <2>2. Queued' => IocbRoots'[ThreadSlot(request')] # NIL
        BY <1>1, <1>2, <1>6, <1>9, <2>1, SlotsOfBlocks DEF BlocksInUse
  <2>3. \A v \in Holders :
          /\ IocbRoots'[ThreadSlot(io'[v].block)] # NIL
          /\ io'[v].pc \in HasObject => IocbRoots'[ObjectSlot(io'[v].block)] # NIL
    <3>1. ASSUME NEW v \in Holders, v # w
          PROVE  /\ IocbRoots'[ThreadSlot(io'[v].block)] # NIL
                 /\ io'[v].pc \in HasObject => IocbRoots'[ObjectSlot(io'[v].block)] # NIL
          BY <1>1, <1>4, <1>9, <2>1, <3>1, SlotsOfBlocks DEF BlocksInUse, Holders
    <3>2. /\ IocbRoots'[ThreadSlot(io'[w].block)] # NIL
          /\ IocbRoots'[ObjectSlot(io'[w].block)] # NIL
          BY <1>1, <1>3, <1>4, <1>9, SlotsOfBlocks DEF BlocksInUse
    <3> QED
          BY <3>1, <3>2
  <2> QED
        BY <1>5, <2>2, <2>3 DEF BlocksInUse
<1>11. Visits'
  <2>1. \A s \in stale' : IocbRoots'[s] # NIL
        BY <1>1, <1>2, <1>9 DEF Visits
  <2> QED
        BY <1>1, <1>2, <2>1, VisitsIO
<1> QED
      BY <1>1, <1>2, <1>8, <1>10, <1>11 DEF PointerInv

LEMMA PointersTake ==
  ASSUME Known, CallInv', NEW w \in IOThreads, TakeParameters(w)
  PROVE  PointerInv' /\ fatal' = fatal
<1>1. /\ RootTypes /\ BlocksInUse /\ Visits /\ (main = "acquire" => caller \in Threads)
      /\ Handover /\ io \in [IOThreads -> IORecord] /\ io[w] \in IORecord
      BY DEF Known, BlockInv, CallInv, Types
<1>2. /\ io[w].pc = "woken" /\ nextIocb # NIL /\ nextRoutine /\ nextIocb = request
      BY <1>1 DEF TakeParameters, At, Handover
<1>3. /\ io' = [io EXCEPT ![w].pc = "taken", ![w].block = nextIocb] /\ ~nextRoutine'
      /\ UNCHANGED <<main, IocbRoots, stale, slot, loaded, caller, fatal>>
      BY <1>2 DEF TakeParameters, blockVars, gcVars, callVars
<1>4. /\ io'[w].pc = "taken" /\ io'[w].block = request
      /\ \A v \in IOThreads : v # w => io'[v] = io[v]
      BY <1>1, <1>2, <1>3 DEF IORecord
<1>5. Queued /\ ~Queued'
      BY <1>1, <1>2, <1>3, QueuedIs, QueuedIsNext DEF CallInv, Handover
<1>6. RootTypes'
      BY <1>1, <1>3 DEF RootTypes
<1>7. BlocksInUse'
  <2>1. Holders' \subseteq Holders \cup {w}
        BY <1>4 DEF Holders
  <2>2. IocbRoots'[ThreadSlot(io'[w].block)] # NIL /\ io'[w].pc \notin HasObject
        BY <1>1, <1>3, <1>4, <1>5 DEF BlocksInUse, HasObject
  <2>3. ASSUME NEW v \in Holders', v # w
        PROVE  /\ IocbRoots'[ThreadSlot(io'[v].block)] # NIL
               /\ io'[v].pc \in HasObject => IocbRoots'[ObjectSlot(io'[v].block)] # NIL
        BY <1>1, <1>3, <1>4, <2>1, <2>3 DEF BlocksInUse, Holders
  <2> QED
        BY <1>5, <2>1, <2>2, <2>3 DEF BlocksInUse
<1>8. Visits'
      BY <1>1, <1>3, VisitsIO DEF Visits
<1> QED
      BY <1>1, <1>3, <1>6, <1>7, <1>8 DEF PointerInv

LEMMA PointersAbort ==
  ASSUME Known, CallInv', NEW w \in IOThreads, AbortAsyncIOCB(w)
  PROVE  PointerInv'
<1>1. /\ RootTypes /\ BlocksInUse /\ Visits /\ (main = "acquire" => caller \in Threads)
      /\ Owners /\ io \in [IOThreads -> IORecord] /\ io[w] \in IORecord
      BY DEF Known, BlockInv, CallInv, Types
<1> DEFINE b == io[w].block
<1>2. /\ io[w].pc = "free" /\ UNCHANGED <<main, slot, loaded, caller, request, nextRoutine>>
      /\ IocbRoots' = [s \in Slots |-> IF s[1] = b THEN NIL ELSE IocbRoots[s]]
      /\ stale' = {s \in stale : s[1] # b}
      /\ io' = [io EXCEPT ![w] = [pc |-> "wait", block |-> NIL, version |-> 0]]
      BY DEF AbortAsyncIOCB, At, callVars, gcVars, handVars
<1>3. w \in Holders /\ b \in Blocks
      BY <1>2, InUse DEF Known
<1>4. /\ io'[w].block = NIL /\ \A v \in IOThreads : v # w => io'[v] = io[v]
      /\ Holders' = Holders \ {w}
      BY <1>1, <1>2 DEF Holders
<1>5. Queued' => Queued
      BY <1>2, QueuedIs, QueuedIsNext DEF Known, CallInv
<1>6. RootTypes'
      BY <1>1, <1>2 DEF RootTypes
<1>7. \A c \in Blocks : c # b =>
        /\ IocbRoots'[ThreadSlot(c)] = IocbRoots[ThreadSlot(c)]
        /\ IocbRoots'[ObjectSlot(c)] = IocbRoots[ObjectSlot(c)]
      BY <1>2, SlotsOfBlocks DEF ThreadSlot, ObjectSlot
<1>8. BlocksInUse'
  <2>1. /\ \A v \in Holders : io[v].block \in Blocks
        /\ Queued => request \in Blocks
        BY InUse DEF Known
  <2>2. Queued' => IocbRoots'[ThreadSlot(request')] # NIL
        BY <1>1, <1>2, <1>3, <1>5, <1>7, <2>1 DEF BlocksInUse, Owners
  <2>3. ASSUME NEW v \in Holders'
        PROVE  /\ IocbRoots'[ThreadSlot(io'[v].block)] # NIL
               /\ io'[v].pc \in HasObject => IocbRoots'[ObjectSlot(io'[v].block)] # NIL
    <3>1. v \in Holders /\ io'[v] = io[v] /\ io[v].block # b /\ io[v].block \in Blocks
          BY <1>1, <1>3, <1>4, <2>1 DEF Owners, Holders
    <3> QED
          BY <1>1, <1>7, <3>1 DEF BlocksInUse
  <2> QED
        BY <2>2, <2>3 DEF BlocksInUse
<1>9. Visits'
  <2>1. \A s \in stale' : IocbRoots'[s] # NIL
        BY <1>1, <1>2 DEF Visits
  <2> QED
        BY <1>1, <1>2, <2>1, VisitsIO
<1> QED
      BY <1>1, <1>2, <1>6, <1>8, <1>9 DEF PointerInv

LEMMA PointersIO ==
  ASSUME Known, CallInv', NEW w \in IOThreads, IOProgress(w) \/ PrimitiveReturns(w)
  PROVE  PointerInv' /\ HandoverIsSound'
<1>1. /\ HandoverIsSound /\ io \in [IOThreads -> IORecord] /\ io[w] \in IORecord
      BY DEF Known, BlockInv, CallInv, Types
<1>2. CASE TakeParameters(w)
      BY <1>1, <1>2, PointersTake DEF HandoverIsSound
<1>3. CASE ArgumentError(w) \/ EnableGarbageCollection(w)
  <2>1. fatal' = fatal
        BY <1>3 DEF ArgumentError, EnableGarbageCollection
  <2> QED
        BY <1>1, <1>3, <2>1, PointersSet DEF HandoverIsSound
<1>4. CASE AbortAsyncIOCB(w)
  <2>1. fatal' = fatal
        BY <1>4 DEF AbortAsyncIOCB
  <2> QED
        BY <1>1, <1>4, <2>1, PointersAbort DEF HandoverIsSound
<1>5. CASE ~TakeParameters(w) /\ ~ArgumentError(w) /\ ~EnableGarbageCollection(w)
           /\ ~AbortAsyncIOCB(w)
  <2>1. UNCHANGED <<IocbRoots, stale, main, slot, loaded, caller, request>>
        BY <1>5 DEF IOProgress, WaitForSingleObject, ClearInputQueue, PrimitiveReturns,
           CheckVersion, IncrementAsyncCount, ResumeThread, Epilog, blockVars, gcVars, callVars
  <2>2. nextRoutine' = nextRoutine
        BY <1>5 DEF IOProgress, WaitForSingleObject, ClearInputQueue, PrimitiveReturns,
           CheckVersion, IncrementAsyncCount, ResumeThread, Epilog, handVars
  <2>3. Queued' => Queued
        BY <2>1, <2>2, QueuedIs, QueuedIsNext DEF Known, CallInv
  <2>4. io'[w].pc \in HasObject => io[w].pc \in HasObject
    <3>1. CASE WaitForSingleObject(w)
          BY <1>1, <3>1 DEF WaitForSingleObject, At, Goto, IORecord, HasObject
    <3>2. CASE ClearInputQueue(w)
          BY <1>1, <3>2 DEF ClearInputQueue, At, Goto, IORecord, HasObject
    <3>3. CASE PrimitiveReturns(w)
          BY <1>1, <3>3 DEF PrimitiveReturns, At, Goto, IORecord, HasObject
    <3>4. CASE CheckVersion(w)
          BY <1>1, <3>4 DEF CheckVersion, At, Goto, IORecord, HasObject
    <3>5. CASE IncrementAsyncCount(w)
          BY <1>1, <3>5 DEF IncrementAsyncCount, At, Goto, IORecord, HasObject
    <3>6. CASE ResumeThread(w)
          BY <1>1, <3>6 DEF ResumeThread, At, Goto, IORecord, HasObject
    <3>7. CASE Epilog(w)
          BY <1>1, <3>7 DEF Epilog, At, Goto, IORecord, HasObject
    <3> QED
          BY <1>5, <3>1, <3>2, <3>3, <3>4, <3>5, <3>6, <3>7 DEF IOProgress
  <2>5. /\ io'[w].block = io[w].block
        /\ \A v \in IOThreads : v # w => io'[v] = io[v]
        BY <1>5, KeepsBlock DEF Known
  <2>6. PointerInv'
        BY <2>1, <2>3, <2>4, <2>5, PointersGoOn
  <2>7. fatal' = fatal
    <3>1. CASE ResumeThread(w)
      <4>1. io[w].pc = "done"
            BY <3>1 DEF ResumeThread, At
      <4>2. w \in Holders
            BY <4>1, InUse DEF Known
      <4>3. ThreadOf(w) # NIL
            BY <4>2 DEF Known, BlockInv, BlocksInUse, ThreadOf, ThreadSlot
      <4> QED
            BY <3>1, <4>3 DEF ResumeThread
    <3>2. CASE ~ResumeThread(w)
          BY <1>5, <3>2 DEF IOProgress, WaitForSingleObject, ClearInputQueue,
             PrimitiveReturns, CheckVersion, IncrementAsyncCount, Epilog
    <3> QED
          BY <3>1, <3>2
  <2> QED
        BY <1>1, <2>6, <2>7 DEF HandoverIsSound
<1> QED
      BY <1>2, <1>3, <1>4, <1>5

-----------------------------------------------------------------------------
(* The theorems                                                            *)

LEMMA InitBlockInv == Init => BlockInv
<1> SUFFICES ASSUME Init
             PROVE  BlockInv
    OBVIOUS
<1>1. \A w \in IOThreads : io[w].pc = "wait" /\ io[w].block = NIL
      BY DEF Init
<1>2. /\ main = "down" /\ nextIocb = NIL /\ IocbFreeList = <<>> /\ stale = {} /\ loaded = NIL
      /\ fatal = NIL /\ IocbRoots = [s \in Slots |-> NIL]
      BY DEF Init
<1>3. ~Queued /\ Holders = {} /\ Len(IocbFreeList) = 0
      BY <1>1, <1>2 DEF Queued, Holders
<1>4. Owners
      BY <1>1, <1>2, <1>3 DEF Owners
<1>5. RootTypes /\ BlocksInUse /\ Visits
      BY <1>2, <1>3 DEF RootTypes, BlocksInUse, Visits
<1> QED
      BY <1>2, <1>4, <1>5 DEF BlockInv, HandoverIsSound

LEMMA NextBlockInv == Known /\ CallInv' /\ BlockTypes' /\ [Next]_vars => BlockInv'
<1> SUFFICES ASSUME Known, CallInv', BlockTypes', [Next]_vars
             PROVE  BlockInv'
    OBVIOUS
<1>1. CASE MainStep
      BY <1>1, OwnersMain, PointersMain DEF BlockInv, PointerInv
<1>2. ASSUME NEW w \in IOThreads, IOProgress(w) \/ PrimitiveReturns(w)
      PROVE  BlockInv'
      BY <1>2, OwnersIO, PointersIO DEF BlockInv, PointerInv
<1>3. CASE Poll \/ Terminated \/ UNCHANGED vars
  <2>1. UNCHANGED vars
        BY <1>3 DEF Poll, Terminated
  <2>2. UNCHANGED <<main, caller, request, IocbRoots, IocbFreeList, stale, nextIocb, io,
                    VersionOfTheWorld, slot, loaded, fatal>>
        BY <2>1 DEF vars, callVars, handVars, gcVars, blockVars, worldVars
  <2>3. (Queued' <=> Queued) /\ Holders' = Holders
        BY <2>2 DEF Queued, Holders
  <2>4. Owners /\ RootTypes /\ BlocksInUse /\ Visits /\ HandoverIsSound
        BY DEF Known, BlockInv
  <2>5. Owners'
        BY <2>2, <2>3, <2>4 DEF Owners
  <2>6. RootTypes' /\ BlocksInUse'
        BY <2>2, <2>3, <2>4 DEF RootTypes, BlocksInUse
  <2>7. Visits'
        BY <2>2, <2>4, VisitsIO DEF Visits
  <2> QED
        BY <2>2, <2>4, <2>5, <2>6, <2>7 DEF BlockInv, HandoverIsSound, Known
<1> QED
      BY <1>1, <1>2, <1>3 DEF Next

LEMMA AlwaysKnown == Spec => []Known
<1>1. Init => Known
      BY InitCallInv, InitBlockInv DEF Known
<1>2. Known /\ [Next]_vars => Known'
      BY NextCallInv, NextBlockInv DEF Known
<1> QED
      BY <1>1, <1>2, PTL DEF Spec

(* The pointers a native call works with are those of the objects it was   *)
(* given, at their current addresses, for any number of threads and blocks *)
(* (the macros ASYNC_enableGarbageCollection and ASYNC_disable...).        *)
THEOREM PointersAreCurrent == Spec => []PointersCurrent
<1>1. Known => PointersCurrent
  <2> SUFFICES ASSUME Known, NEW w \in IOThreads, UsesHeap(w)
               PROVE  /\ ThreadOf(w) \in Threads /\ <<io[w].block, "thread">> \notin stale
                      /\ io[w].pc \in {"done", "resumed"} =>
                           /\ IocbRoots[<<io[w].block, "object">>] = Object
                           /\ <<io[w].block, "object">> \notin stale
      BY DEF PointersCurrent
  <2>1. w \in Holders /\ io[w].block \in Blocks
        BY InUse DEF Known, UsesHeap
  <2>2. main # "update"
        BY DEF Known, CallInv, CollectorFlag, CollectorPcs, CollectorExcludesCalls
  <2>3. stale = {}
        BY <2>2 DEF Known, BlockInv, Visits
  <2>4. /\ MayHold(ThreadSlot(io[w].block)) = Threads
        /\ MayHold(ObjectSlot(io[w].block)) = {Object}
        BY DEF MayHold, ThreadSlot, ObjectSlot
  <2>5. /\ IocbRoots[ThreadSlot(io[w].block)] \in Threads
        /\ io[w].pc \in {"done", "resumed"} => IocbRoots[ObjectSlot(io[w].block)] = Object
        BY <2>1, <2>4, SlotsOfBlocks DEF Known, BlockInv, BlocksInUse, RootTypes, HasObject
  <2> QED
        BY <2>3, <2>5 DEF ThreadOf, ThreadSlot, ObjectSlot
<1> QED
      BY <1>1, AlwaysKnown, PTL

(* Of the checks "fatalError(...)" of the protocol only those of a block   *)
(* that is cleared under the collector's hands can fail, for any number of *)
(* threads and blocks.                                                     *)
THEOREM HandoverSound == Spec => []HandoverIsSound
<1>1. Known => HandoverIsSound
      BY DEF Known, BlockInv
<1> QED
      BY <1>1, AlwaysKnown, PTL

-----------------------------------------------------------------------------
(* Restarts                                                                *)

Away == {"blocked", "returned", "enter"}

(* Calls that are out belong to the VM that runs, if one does.             *)
WorldInv ==
  /\ heap => main \notin {"down", "init"}
  /\ main \notin {"down", "init"} =>
       \A w \in IOThreads : io[w].pc \in Away => io[w].version = VersionOfTheWorld

(* When as many blocks are free as there are, no call is out.              *)
LEMMA AllFree ==
  ASSUME Known, NoneActive
  PROVE  Holders = {}
<1>1. /\ Owners /\ IocbFreeList \in Seq(Blocks) /\ Len(IocbFreeList) = IocbCount
      /\ IocbCount \in Nat
      BY AsyncAssumption DEF Known, BlockInv, BlockTypes, NoneActive
<1>2. IocbFreeList \in [Blocks -> Blocks]
      BY <1>1 DEF Blocks
<1>3. \A i, j \in Blocks : IocbFreeList[i] = IocbFreeList[j] => i = j
      BY <1>1 DEF Owners, Blocks
<1>4. IocbFreeList \in Injection(Blocks, Blocks)
      BY <1>2, <1>3 DEF Injection, IsInjective
<1>5. IsFiniteSet(Blocks)
      BY <1>1, FS_Interval DEF Blocks
<1>6. IocbFreeList \in Surjection(Blocks, Blocks)
      BY <1>4, <1>5, FS_Injection
<1>7. ASSUME NEW w \in Holders
      PROVE  FALSE
  <2>1. io[w].block \in Blocks
        BY InUse DEF Known
  <2>2. PICK i \in Blocks : IocbFreeList[i] = io[w].block
        BY <1>6, <2>1 DEF Surjection
  <2> QED
        BY <1>1, <2>2 DEF Owners, Blocks
<1> QED
      BY <1>7

LEMMA WorldMain ==
  ASSUME Known, WorldInv, MainStep
  PROVE  WorldInv'
<1>1. io' = io
      BY DEF MainStep, MainProgress, AcquireAsyncIOCB, CallAsyncNativeFunction, HandedOver,
         RundownAsynchronousFunctions, MarkRoot, UpdateRoot, RestartAsynchronousFunctions,
         StartVM, CallNative, GarbageCollect, Compact, Cleanup, InitalizeAsynchronousIO
<1>2. CASE StartVM
  <2>1. \A w \in IOThreads : io[w].pc \notin Away
        BY <1>2, AllFree, InUse DEF StartVM, Known, Away
  <2> QED
        BY <1>1, <1>2, <2>1 DEF StartVM, WorldInv
<1>3. CASE InitalizeAsynchronousIO \/ Cleanup
  <2>1. main' \in {"down", "init"} /\ ~heap'
        BY <1>3 DEF InitalizeAsynchronousIO, Cleanup, WorldInv
  <2> QED
        BY <2>1 DEF WorldInv
<1>4. CASE ~StartVM /\ ~InitalizeAsynchronousIO /\ ~Cleanup
  <2>1. UNCHANGED <<VersionOfTheWorld, heap>>
        BY <1>4 DEF MainStep, MainProgress, AcquireAsyncIOCB, CallAsyncNativeFunction,
           HandedOver, RundownAsynchronousFunctions, MarkRoot, UpdateRoot,
           RestartAsynchronousFunctions, CallNative, GarbageCollect, Compact, worldVars
  <2>2. main \notin {"down", "init"} /\ main' \notin {"down", "init"}
    <3>1. CASE MarkRoot \/ UpdateRoot
          BY <3>1 DEF MarkRoot, UpdateRoot, NextSlot
    <3>2. CASE ~MarkRoot /\ ~UpdateRoot
          BY <1>4, <3>2 DEF MainStep, MainProgress, AcquireAsyncIOCB,
             CallAsyncNativeFunction, HandedOver, RundownAsynchronousFunctions,
             RestartAsynchronousFunctions, CallNative, GarbageCollect, Compact
    <3> QED
          BY <3>1, <3>2
  <2> QED
        BY <1>1, <2>1, <2>2 DEF WorldInv
<1> QED
      BY <1>2, <1>3, <1>4

LEMMA WorldIO ==
  ASSUME Known, WorldInv, NEW w \in IOThreads, IOProgress(w) \/ PrimitiveReturns(w)
  PROVE  WorldInv'
<1>1. io \in [IOThreads -> IORecord] /\ io[w] \in IORecord
      BY DEF Known, CallInv, Types
<1>2. UNCHANGED <<main, VersionOfTheWorld, heap>>
      BY DEF IOProgress, WaitForSingleObject, TakeParameters, ClearInputQueue, ArgumentError,
         EnableGarbageCollection, PrimitiveReturns, CheckVersion, IncrementAsyncCount,
         ResumeThread, Epilog, AbortAsyncIOCB, worldVars
<1>3. /\ \A v \in IOThreads : v # w => io'[v] = io[v]
      /\ io'[w].pc \in Away =>
           \/ io'[w].version = VersionOfTheWorld
           \/ io[w].pc \in Away /\ io'[w].version = io[w].version
  <2>1. CASE TakeParameters(w)
        BY <1>1, <2>1 DEF TakeParameters, IORecord, Away, At
  <2>2. CASE EnableGarbageCollection(w)
        BY <1>1, <2>2 DEF EnableGarbageCollection, IORecord
  <2>3. CASE PrimitiveReturns(w)
        BY <1>1, <2>3 DEF PrimitiveReturns, Goto, At, IORecord, Away
  <2>4. CASE CheckVersion(w)
        BY <1>1, <2>4 DEF CheckVersion, Goto, At, IORecord, Away
  <2>5. CASE AbortAsyncIOCB(w)
        BY <1>1, <2>5 DEF AbortAsyncIOCB, Away
  <2>6. CASE \/ WaitForSingleObject(w) \/ ClearInputQueue(w) \/ ArgumentError(w)
             \/ IncrementAsyncCount(w) \/ ResumeThread(w) \/ Epilog(w)
    <3>1. \/ io' = io
          \/ \E pc \in {"woken", "start", "done", "resumed", "free"} :
               io' = [io EXCEPT ![w].pc = pc]
          BY <2>6 DEF WaitForSingleObject, ClearInputQueue, ArgumentError,
             IncrementAsyncCount, ResumeThread, Epilog, Goto
    <3> QED
          BY <1>1, <3>1 DEF IORecord, Away
  <2> QED
        BY <2>1, <2>2, <2>3, <2>4, <2>5, <2>6 DEF IOProgress
<1> QED
      BY <1>2, <1>3 DEF WorldInv

LEMMA AlwaysWorld == Spec => []WorldInv
<1>1. Init => WorldInv
      BY DEF Init, WorldInv
<1>2. Known /\ WorldInv /\ [Next]_vars => WorldInv'
  <2> SUFFICES ASSUME Known, WorldInv, [Next]_vars
               PROVE  WorldInv'
      OBVIOUS
  <2>1. CASE MainStep
        BY <2>1, WorldMain
  <2>2. ASSUME NEW w \in IOThreads, IOProgress(w) \/ PrimitiveReturns(w)
        PROVE  WorldInv'
        BY <2>2, WorldIO
  <2>3. CASE Poll \/ Terminated \/ UNCHANGED vars
        BY <2>3 DEF Poll, Terminated, vars, worldVars, WorldInv
  <2> QED
        BY <2>1, <2>2, <2>3 DEF Next
<1> QED
      BY <1>1, <1>2, AlwaysKnown, PTL DEF Spec

(* A VM that runs has none of its predecessor's calls around, for any      *)
(* number of threads and blocks ("A brief explanation of                   *)
(* VersionOfTheWorld", async.c).                                           *)
THEOREM NoSurvivor == Spec => []NoCallSurvivesRestart
<1>1. WorldInv => NoCallSurvivesRestart
      BY DEF WorldInv, NoCallSurvivesRestart, Away
<1> QED
      BY <1>1, AlwaysWorld, PTL

-----------------------------------------------------------------------------
(* Accounts: nothing of a call is lost                                     *)

(* What TypeOK says besides Types.                                         *)
RestTypes ==
  /\ caller \in Threads \cup {NIL} /\ runnable \subseteq Threads /\ heap \in BOOLEAN
  /\ slot \in 0..LastSlot /\ loaded \in Threads \cup {Object, NIL}

(* The pointer to a thread that the collector is to write back is still    *)
(* there, if its block is in use.                                          *)
Keeps ==
  main = "update" /\ loaded # NIL /\ SlotAt(slot)[2] = "thread" =>
    IocbRoots[SlotAt(slot)] \in {NIL, loaded}

IsFree(b) == \E i \in 1..Len(IocbFreeList) : IocbFreeList[i] = b
IsHeld(b) == \E w \in Holders : io[w].block = b

NoBlockLost ==
  Running /\ VersionOfTheWorld # 0 =>
    \A b \in Blocks : IsFree(b) \/ IsHeld(b) \/ (Queued /\ request = b)

(* A thread runs, or one request or I/O thread is there for it.            *)
Served ==
  /\ main = "acquire" => caller \in runnable
  /\ Queued => caller \in Threads /\ IocbRoots[ThreadSlot(request)] = caller
  /\ heap => \A t \in Threads :
       /\ t \in runnable <=> ~(Queued /\ caller = t) /\ \A w \in IOThreads : ~IsFor(w, t)
       /\ \A w \in IOThreads : IsFor(w, t) =>
            /\ ~(Queued /\ caller = t)
            /\ \A v \in IOThreads : IsFor(v, t) => v = w

AccountInv == RestTypes /\ Keeps /\ NoBlockLost /\ Served

(* A request that is under way stays so while the main thread moves.       *)
LEMMA QueuedKept ==
  ASSUME CallInv, CallInv', MainStep, Queued
  PROVE  /\ CallAsyncNativeFunction
         /\ Queued' /\ request' = request /\ caller' = caller
         /\ UNCHANGED <<runnable, IocbRoots, heap, fatal>> /\ main' = "handover"
<1>1. Handover
      BY DEF CallInv
<1>2. Queued' <=> main' = "call" \/ nextRoutine'
      BY QueuedIsNext DEF CallInv
<1>3. main = "call" \/ (main = "handover" /\ nextIocb # NIL)
      BY DEF Queued
<1>4. CallAsyncNativeFunction
  <2>1. ~HandedOver
        BY <1>3 DEF HandedOver
  <2> QED
        BY <1>3, <2>1 DEF MainStep, MainProgress, AcquireAsyncIOCB,
             RundownAsynchronousFunctions, MarkRoot, UpdateRoot,
             RestartAsynchronousFunctions, StartVM, CallNative, GarbageCollect, Compact,
             Cleanup, InitalizeAsynchronousIO
<1>5. nextIocb = NIL /\ ~nextRoutine
      BY <1>1, <1>4 DEF CallAsyncNativeFunction, Handover
<1> QED
      BY <1>2, <1>4, <1>5 DEF CallAsyncNativeFunction, callVars, blockVars, worldVars

LEMMA ThreadSlots ==
  ASSUME NEW b, NEW c
  PROVE  /\ ThreadSlot(b) = ThreadSlot(c) => b = c
         /\ ThreadSlot(b) # ObjectSlot(c)
         /\ ThreadSlot(b)[1] = b /\ ThreadSlot(b)[2] = "thread"
BY DEF ThreadSlot, ObjectSlot

(* The main thread leaves the pointer to the thread of a block that an     *)
(* I/O thread has as it is.                                                *)
LEMMA RootsKept ==
  ASSUME Known, Keeps, MainStep, NEW w \in Holders
  PROVE  IocbRoots'[ThreadSlot(io[w].block)] = IocbRoots[ThreadSlot(io[w].block)]
<1> DEFINE r == ThreadSlot(io[w].block)
<1>1. /\ RootTypes /\ BlocksInUse /\ Owners /\ IocbFreeList \in Seq(Blocks)
      /\ io[w].block \in Blocks
      BY InUse DEF Known, BlockInv, BlockTypes
<1>2. r \in Slots /\ r[2] = "thread" /\ IocbRoots[r] # NIL
      BY <1>1, SlotsOfBlocks, ThreadSlots DEF BlocksInUse
<1>3. CASE AcquireAsyncIOCB
  <2> DEFINE b == Head(IocbFreeList)
  <2>1. b = IocbFreeList[1] /\ 1 \in 1..Len(IocbFreeList)
        BY <1>1, <1>3 DEF AcquireAsyncIOCB
  <2>2. b # io[w].block
        BY <1>1, <2>1 DEF Owners
  <2>3. IocbRoots' = IocbRoots \/ IocbRoots' = [IocbRoots EXCEPT ![ThreadSlot(b)] = caller]
        BY <1>3 DEF AcquireAsyncIOCB, ThreadSlot
  <2>4. r # ThreadSlot(b)
        BY <2>2, ThreadSlots
  <2> QED
        BY <1>1, <1>2, <2>3, <2>4 DEF RootTypes
<1>4. CASE UpdateRoot
  <2> DEFINE s == SlotAt(slot)
  <2>1. \/ IocbRoots' = IocbRoots
        \/ loaded # NIL /\ IocbRoots' = [IocbRoots EXCEPT ![s] = loaded]
        BY <1>4 DEF UpdateRoot
  <2>2. CASE s = r /\ loaded # NIL
    <3>1. IocbRoots[s] = loaded
          BY <1>2, <1>4, <2>2 DEF Keeps, UpdateRoot
    <3> QED
          BY <1>1, <1>2, <2>1, <2>2, <3>1 DEF RootTypes
  <2>3. CASE ~(s = r /\ loaded # NIL)
        BY <1>1, <1>2, <2>1, <2>3 DEF RootTypes
  <2> QED
        BY <2>2, <2>3
<1>5. CASE ~AcquireAsyncIOCB /\ ~UpdateRoot
  <2>1. IocbRoots' = IocbRoots
        BY <1>5 DEF MainStep, MainProgress, CallAsyncNativeFunction, HandedOver,
             RundownAsynchronousFunctions, MarkRoot,
             RestartAsynchronousFunctions, StartVM, CallNative, GarbageCollect, Compact,
             Cleanup, InitalizeAsynchronousIO, blockVars
  <2> QED
        BY <2>1
<1> QED
      BY <1>3, <1>4, <1>5

LEMMA MainKeepsIO ==
  ASSUME MainStep
  PROVE  io' = io /\ Running
BY DEF MainStep, MainProgress, AcquireAsyncIOCB, CallAsyncNativeFunction, HandedOver,
       RundownAsynchronousFunctions, MarkRoot, UpdateRoot, RestartAsynchronousFunctions,
       StartVM, CallNative, GarbageCollect, Compact, Cleanup, InitalizeAsynchronousIO

-----------------------------------------------------------------------------
(* The main thread                                                         *)

LEMMA BlocksMain ==
  ASSUME Known, CallInv', NoBlockLost, MainStep
  PROVE  NoBlockLost'
<1>1. /\ IocbFreeList \in Seq(Blocks) /\ VersionOfTheWorld \in Nat /\ io' = io /\ Running
      /\ Holders' = Holders
      BY MainKeepsIO DEF Known, BlockTypes, Holders
<1>2. \A b : IsHeld(b)' <=> IsHeld(b)
      BY <1>1 DEF IsHeld
<1>3. Queued => Queued' /\ request' = request
      BY QueuedKept DEF Known
<1>4. CASE AcquireAsyncIOCB
  <2>1. /\ main = "acquire" /\ IocbFreeList # <<>> /\ IocbFreeList' = Tail(IocbFreeList)
        /\ request' = Head(IocbFreeList) /\ VersionOfTheWorld' = VersionOfTheWorld
        /\ Running' => main' = "call"
        BY <1>4, AsyncAssumption DEF AcquireAsyncIOCB, worldVars, Running
  <2>2. request' = IocbFreeList[1]
        BY <1>1, <2>1
  <2>3. ~Queued /\ (Running' => Queued')
        BY <2>1 DEF Queued
  <2>4. ASSUME NEW b \in Blocks, IsFree(b), b # request'
        PROVE  IsFree(b)'
    <3>1. PICK i \in 1..Len(IocbFreeList) : IocbFreeList[i] = b
          BY <2>4 DEF IsFree
    <3>2. i # 1
          BY <2>2, <2>4, <3>1
    <3>3. i - 1 \in 1..Len(Tail(IocbFreeList)) /\ Tail(IocbFreeList)[i - 1] = b
          BY <1>1, <2>1, <3>1, <3>2
    <3> QED
          BY <2>1, <3>3 DEF IsFree
  <2> QED
        BY <1>1, <1>2, <2>1, <2>3, <2>4 DEF NoBlockLost
<1>5. CASE InitalizeAsynchronousIO
  <2>1. /\ VersionOfTheWorld' = VersionOfTheWorld + 1 /\ fatal' = fatal
        /\ IocbFreeList' = IF VersionOfTheWorld = 0
                           THEN [i \in Blocks |-> IocbCount + 1 - i] ELSE IocbFreeList
        BY <1>5 DEF InitalizeAsynchronousIO
  <2>2. CASE VersionOfTheWorld = 0
    <3>1. IocbFreeList' = [i \in 1..IocbCount |-> IocbCount + 1 - i] /\ IocbCount \in Nat
          BY <2>1, <2>2, AsyncAssumption DEF Blocks
    <3>2. Len(IocbFreeList') = IocbCount
          BY <3>1
    <3>3. ASSUME NEW b \in Blocks
          PROVE  IsFree(b)'
      <4>1. /\ IocbCount + 1 - b \in 1..Len(IocbFreeList')
            /\ IocbFreeList'[IocbCount + 1 - b] = b
            BY <3>1, <3>2 DEF Blocks
      <4> QED
            BY <4>1 DEF IsFree
    <3> QED
          BY <3>3 DEF NoBlockLost
  <2>3. CASE VersionOfTheWorld # 0
    <3>1. \A b : IsFree(b)' <=> IsFree(b)
          BY <2>1, <2>3 DEF IsFree
    <3> QED
          BY <1>1, <1>2, <1>3, <2>3, <3>1 DEF NoBlockLost
  <2> QED
        BY <2>2, <2>3
<1>6. CASE ~AcquireAsyncIOCB /\ ~InitalizeAsynchronousIO
  <2>1. UNCHANGED <<IocbFreeList, VersionOfTheWorld>>
        BY <1>6 DEF MainStep, MainProgress, CallAsyncNativeFunction, HandedOver,
             RundownAsynchronousFunctions, MarkRoot, UpdateRoot,
             RestartAsynchronousFunctions, StartVM, CallNative, GarbageCollect, Compact,
             Cleanup, blockVars, worldVars
  <2>2. \A b : IsFree(b)' <=> IsFree(b)
        BY <2>1 DEF IsFree
  <2> QED
        BY <1>1, <1>2, <1>3, <2>1, <2>2 DEF NoBlockLost
<1> QED
      BY <1>4, <1>5, <1>6

(* The calls that are out go on as they were.                              *)
LEMMA CallsKept ==
  ASSUME Known, Keeps, MainStep
  PROVE  \A w \in IOThreads, t \in Threads : IsFor(w, t)' <=> IsFor(w, t)
<1> SUFFICES ASSUME NEW w \in IOThreads, NEW t \in Threads
             PROVE  IsFor(w, t)' <=> IsFor(w, t)
    OBVIOUS
<1>1. io' = io
      BY MainKeepsIO
<1>2. CASE w \in Holders
  <2>1. ThreadOf(w)' = ThreadOf(w)
        BY <1>1, <1>2, RootsKept DEF ThreadOf, ThreadSlot
  <2> QED
        BY <1>1, <2>1 DEF IsFor
<1>3. CASE w \notin Holders
      BY <1>1, <1>3, InUse DEF Known, IsFor
<1> QED
      BY <1>2, <1>3

LEMMA ServedMain ==
  ASSUME Known, CallInv', Keeps, RestTypes, Served, MainStep
  PROVE  Served'
<1>1. \A w \in IOThreads, t \in Threads : IsFor(w, t)' <=> IsFor(w, t)
      BY CallsKept
<1>2. CASE AcquireAsyncIOCB
  <2>1. /\ main = "acquire" /\ caller' = caller /\ heap' = heap
        /\ \/ UNCHANGED <<main, runnable>>
           \/ /\ main' = "call" /\ runnable' = runnable \ {caller}
              /\ IocbRoots' = [IocbRoots EXCEPT ![ThreadSlot(request')] = caller]
              /\ request' = Head(IocbFreeList)
        BY <1>2 DEF AcquireAsyncIOCB, worldVars, ThreadSlot
  <2>2. ~Queued /\ caller \in runnable
        BY <2>1 DEF Queued, Served
  <2>3. CASE UNCHANGED <<main, runnable>>
    <3>1. ~Queued'
          BY <2>1, <2>3 DEF Queued
    <3> QED
          BY <1>1, <2>1, <2>2, <2>3, <3>1 DEF Served
  <2>4. CASE /\ main' = "call" /\ runnable' = runnable \ {caller}
             /\ IocbRoots' = [IocbRoots EXCEPT ![ThreadSlot(request')] = caller]
             /\ request' = Head(IocbFreeList)
    <3>1. Queued' /\ caller \in Threads
          BY <2>2, <2>4 DEF Queued, RestTypes
    <3>2. IocbRoots'[ThreadSlot(request')] = caller
      <4>1. request' \in Blocks
            BY <1>2, <2>4 DEF AcquireAsyncIOCB, Known, BlockTypes
      <4>2. ThreadSlot(request') \in Slots /\ IocbRoots \in [Slots -> Threads \cup {Object, NIL}]
            BY <4>1, SlotsOfBlocks DEF Known, BlockInv, RootTypes
      <4> QED
            BY <2>4, <4>2
    <3>3. heap => \A w \in IOThreads : ~IsFor(w, caller)
          BY <2>2, <3>1 DEF Served
    <3> QED
          BY <1>1, <2>1, <2>2, <2>4, <3>1, <3>2, <3>3 DEF Served
  <2> QED
        BY <2>1, <2>3, <2>4
<1>3. CASE StartVM
  <2>1. /\ main = "init" /\ main' = "java" /\ runnable' = Threads
        BY <1>3 DEF StartVM
  <2>2. ~Queued'
        BY <2>1 DEF Queued
  <2>3. Holders = {}
        BY <1>3, AllFree DEF StartVM
  <2>4. \A w \in IOThreads, t \in Threads : ~IsFor(w, t)
        BY <2>3, InUse DEF Known, IsFor
  <2> QED
        BY <1>1, <2>1, <2>2, <2>4 DEF Served
<1>4. CASE \E t \in Threads : CallNative(t)
  <2>1. PICK t \in Threads : CallNative(t)
        BY <1>4
  <2>2. /\ main = "java" /\ main' = "acquire" /\ caller' = t /\ t \in runnable
        /\ UNCHANGED <<runnable, heap>>
        BY <2>1 DEF CallNative, worldVars
  <2>3. ~Queued /\ ~Queued'
        BY <2>2 DEF Queued
  <2> QED
        BY <1>1, <2>2, <2>3 DEF Served
<1>5. CASE Queued
  <2>1. /\ Queued' /\ request' = request /\ caller' = caller
        /\ UNCHANGED <<runnable, IocbRoots, heap>> /\ main' = "handover"
        BY <1>5, QueuedKept DEF Known
  <2> QED
        BY <1>1, <1>5, <2>1 DEF Served
<1>6. CASE ~Queued /\ ~AcquireAsyncIOCB /\ ~StartVM /\ ~\E t \in Threads : CallNative(t)
  <2>1. ~Queued'
        BY <1>6, QueuedMain DEF Known
  <2>2. /\ runnable' = runnable /\ (heap' => heap) /\ main' # "acquire"
    <3>1. CASE MarkRoot \/ UpdateRoot
          BY <3>1 DEF MarkRoot, UpdateRoot, NextSlot, worldVars
    <3>2. CASE ~MarkRoot /\ ~UpdateRoot
          BY <1>6, <3>2 DEF MainStep, MainProgress, CallAsyncNativeFunction, HandedOver,
             RundownAsynchronousFunctions, RestartAsynchronousFunctions, GarbageCollect,
             Compact, Cleanup, InitalizeAsynchronousIO, worldVars
    <3> QED
          BY <3>1, <3>2
  <2> QED
        BY <1>1, <1>6, <2>1, <2>2 DEF Served
<1> QED
      BY <1>2, <1>3, <1>4, <1>5, <1>6

LEMMA SlotAndType ==
  ASSUME Known, RestTypes, MainStep
  PROVE  slot' \in 0..LastSlot /\ loaded' \in Threads \cup {Object, NIL}
<1>1. /\ Visits /\ RootTypes /\ LastSlot \in Nat /\ LastSlot >= 1
      BY AsyncAssumption DEF Known, BlockInv, LastSlot
<1>2. CASE MarkRoot \/ UpdateRoot
  <2>1. slot \in 1..LastSlot
        BY <1>1, <1>2 DEF Visits, MarkRoot, UpdateRoot
  <2>2. IocbRoots[SlotAt(slot)] \in Threads \cup {Object, NIL}
        BY <1>1, <2>1, SlotAtIs DEF RootTypes
  <2>3. loaded' \in {NIL, loaded, IocbRoots[SlotAt(slot)]}
        BY <1>2 DEF MarkRoot, UpdateRoot, NextSlot
  <2>4. slot' = slot \/ slot' = 0 \/ (slot < LastSlot /\ slot' = slot + 1)
        BY <1>2 DEF MarkRoot, UpdateRoot, NextSlot
  <2> QED
        BY <1>1, <2>1, <2>2, <2>3, <2>4 DEF RestTypes
<1>3. CASE ~MarkRoot /\ ~UpdateRoot
  <2>1. loaded' = loaded /\ slot' \in {slot, 1}
        BY <1>3 DEF MainStep, MainProgress, AcquireAsyncIOCB, CallAsyncNativeFunction,
             HandedOver, RundownAsynchronousFunctions, RestartAsynchronousFunctions, StartVM,
             CallNative, GarbageCollect, Compact, Cleanup, InitalizeAsynchronousIO, gcVars
  <2> QED
        BY <1>1, <2>1 DEF RestTypes
<1> QED
      BY <1>2, <1>3

LEMMA TypesMain ==
  ASSUME Known, RestTypes, MainStep
  PROVE  RestTypes'
<1>1. caller' \in Threads \cup {NIL} /\ runnable' \subseteq Threads /\ heap' \in BOOLEAN
  <2>1. caller' \in {caller, NIL} \cup Threads
        BY DEF MainStep, MainProgress, AcquireAsyncIOCB, CallAsyncNativeFunction, HandedOver,
           RundownAsynchronousFunctions, MarkRoot, UpdateRoot, RestartAsynchronousFunctions,
           StartVM, CallNative, GarbageCollect, Compact, Cleanup, InitalizeAsynchronousIO,
           callVars
  <2>2. runnable' \subseteq runnable \cup Threads
        BY DEF MainStep, MainProgress, AcquireAsyncIOCB, CallAsyncNativeFunction, HandedOver,
           RundownAsynchronousFunctions, MarkRoot, UpdateRoot, RestartAsynchronousFunctions,
           StartVM, CallNative, GarbageCollect, Compact, Cleanup, InitalizeAsynchronousIO
  <2>3. heap' \in {heap, TRUE, FALSE}
        BY DEF MainStep, MainProgress, AcquireAsyncIOCB, CallAsyncNativeFunction, HandedOver,
           RundownAsynchronousFunctions, MarkRoot, UpdateRoot, RestartAsynchronousFunctions,
           StartVM, CallNative, GarbageCollect, Compact, Cleanup, InitalizeAsynchronousIO,
           worldVars
  <2> QED
        BY <2>1, <2>2, <2>3 DEF RestTypes
<1> QED
      BY <1>1, SlotAndType DEF RestTypes

LEMMA KeepsMain ==
  ASSUME Known, Keeps, MainStep
  PROVE  Keeps'
<1>1. Visits
      BY DEF Known, BlockInv
<1>2. CASE UpdateRoot
  <2>1. \/ /\ UNCHANGED <<IocbRoots, slot>> /\ loaded' = IocbRoots[SlotAt(slot)]
        \/ loaded' = NIL
        BY <1>2 DEF UpdateRoot, NextSlot
  <2> QED
        BY <2>1 DEF Keeps, SlotAt
<1>3. CASE Compact
      BY <1>1, <1>3 DEF Compact, Visits, Keeps
<1>4. CASE ~UpdateRoot /\ ~Compact
  <2>1. main' # "update"
    <3>1. CASE MarkRoot
          BY <3>1 DEF MarkRoot, NextSlot
    <3>2. CASE ~MarkRoot
          BY <1>4, <3>2 DEF MainStep, MainProgress, AcquireAsyncIOCB,
             CallAsyncNativeFunction, HandedOver, RundownAsynchronousFunctions,
             RestartAsynchronousFunctions, StartVM, CallNative, GarbageCollect, Cleanup,
             InitalizeAsynchronousIO
    <3> QED
          BY <3>1, <3>2
  <2> QED
        BY <2>1 DEF Keeps
<1> QED
      BY <1>2, <1>3, <1>4

-----------------------------------------------------------------------------
(* The I/O threads                                                         *)

(* An I/O thread changes the pointer to the thread only of its own block,  *)
(* and only when it gives that block back.                                 *)
LEMMA RootsIO ==
  ASSUME Known, NEW w \in IOThreads, IOProgress(w) \/ PrimitiveReturns(w), NEW c \in Blocks
  PROVE  \/ IocbRoots'[ThreadSlot(c)] = IocbRoots[ThreadSlot(c)]
         \/ /\ AbortAsyncIOCB(w) /\ c = io[w].block
            /\ IocbRoots'[ThreadSlot(c)] = NIL
<1>1. IocbRoots \in [Slots -> Threads \cup {Object, NIL}] /\ ThreadSlot(c) \in Slots
      BY SlotsOfBlocks DEF Known, BlockInv, RootTypes
<1>2. CASE AbortAsyncIOCB(w)
  <2>1. IocbRoots' = [s \in Slots |-> IF s[1] = io[w].block THEN NIL ELSE IocbRoots[s]]
        BY <1>2 DEF AbortAsyncIOCB
  <2> QED
        BY <1>1, <1>2, <2>1, ThreadSlots
<1>3. CASE ArgumentError(w) \/ EnableGarbageCollection(w)
  <2>1. IocbRoots' = [IocbRoots EXCEPT ![ObjectSlot(io[w].block)] = Object]
        BY <1>3 DEF ArgumentError, EnableGarbageCollection, SetObject, ObjectSlot
  <2> QED
        BY <1>1, <2>1, ThreadSlots
<1>4. CASE ~AbortAsyncIOCB(w) /\ ~ArgumentError(w) /\ ~EnableGarbageCollection(w)
  <2>1. IocbRoots' = IocbRoots
        BY <1>4 DEF IOProgress, WaitForSingleObject, TakeParameters, ClearInputQueue,
           PrimitiveReturns, CheckVersion, IncrementAsyncCount, ResumeThread, Epilog, blockVars
  <2> QED
        BY <2>1
<1> QED
      BY <1>2, <1>3, <1>4

LEMMA ThreadOfHolder ==
  ASSUME Known, NEW w \in Holders
  PROVE  ThreadOf(w) \in Threads
<1>1. /\ io[w].block \in Blocks
      /\ IocbRoots[ThreadSlot(io[w].block)] # NIL
      BY InUse DEF Known, BlockInv, BlocksInUse
<1>2. MayHold(ThreadSlot(io[w].block)) = Threads
      BY ThreadSlots DEF MayHold
<1> QED
      BY <1>1, <1>2, SlotsOfBlocks DEF Known, BlockInv, RootTypes, ThreadOf, ThreadSlot

LEMMA KeepsIO ==
  ASSUME Known, Keeps, NEW w \in IOThreads, IOProgress(w) \/ PrimitiveReturns(w)
  PROVE  Keeps'
<1>1. UNCHANGED <<main, slot, loaded>>
      BY DEF IOProgress, WaitForSingleObject, TakeParameters, ClearInputQueue,
         ArgumentError, EnableGarbageCollection, PrimitiveReturns, CheckVersion,
         IncrementAsyncCount, ResumeThread, Epilog, AbortAsyncIOCB, gcVars
<1>2. SUFFICES ASSUME main = "update", loaded # NIL, SlotAt(slot)[2] = "thread"
               PROVE  IocbRoots'[SlotAt(slot)] \in {NIL, loaded}
      BY <1>1 DEF Keeps, SlotAt
<1>3. slot \in 1..LastSlot
      BY <1>2 DEF Known, BlockInv, Visits
<1>4. SlotAt(slot) \in Slots
      BY <1>3, SlotAtIs
<1>5. PICK c \in Blocks : SlotAt(slot) = ThreadSlot(c)
      BY <1>2, <1>4 DEF Slots, ThreadSlot
<1>6. IocbRoots[SlotAt(slot)] \in {NIL, loaded}
      BY <1>2 DEF Keeps
<1> QED
      BY <1>5, <1>6, RootsIO

LEMMA TypesIO ==
  ASSUME Known, RestTypes, NEW w \in IOThreads, IOProgress(w) \/ PrimitiveReturns(w)
  PROVE  RestTypes'
<1>1. /\ UNCHANGED <<slot, loaded, caller, heap>>
      /\ runnable' = runnable \/ (ResumeThread(w) /\ runnable' = runnable \cup {ThreadOf(w)})
      BY DEF IOProgress, WaitForSingleObject, TakeParameters, ClearInputQueue, Resumed,
         ArgumentError, EnableGarbageCollection, PrimitiveReturns, CheckVersion, callVars,
         IncrementAsyncCount, ResumeThread, Epilog, AbortAsyncIOCB, gcVars, worldVars
<1>2. ResumeThread(w) => ThreadOf(w) \in Threads
      BY ThreadOfHolder, InUse DEF Known, ResumeThread, At
<1> QED
      BY <1>1, <1>2 DEF RestTypes, LastSlot

(* What an I/O thread does to the blocks that are not its own: nothing.    *)
LEMMA BlocksIO ==
  ASSUME Known, CallInv', NoBlockLost, NEW w \in IOThreads,
         IOProgress(w) \/ PrimitiveReturns(w)
  PROVE  NoBlockLost'
<1>1. /\ Handover /\ IocbFreeList \in Seq(Blocks)
      /\ io \in [IOThreads -> IORecord] /\ io[w] \in IORecord
      BY DEF Known, CallInv, BlockTypes, Types
<1>2. /\ UNCHANGED <<main, request, VersionOfTheWorld>> /\ Running
      BY DEF IOProgress, WaitForSingleObject, TakeParameters, ClearInputQueue, ArgumentError,
         EnableGarbageCollection, PrimitiveReturns, CheckVersion, IncrementAsyncCount, At,
         ResumeThread, Epilog, AbortAsyncIOCB, callVars, worldVars
<1>3. /\ Queued <=> main = "call" \/ nextRoutine
      /\ Queued' <=> main' = "call" \/ nextRoutine'
      BY QueuedIs, QueuedIsNext DEF Known, CallInv
<1>4. CASE TakeParameters(w)
  <2>1. io[w].pc = "woken" /\ nextRoutine /\ nextIocb # NIL /\ nextIocb = request
        BY <1>1, <1>4 DEF TakeParameters, At, Handover
  <2>2. /\ io' = [io EXCEPT ![w].pc = "taken", ![w].block = nextIocb]
        /\ UNCHANGED IocbFreeList
        BY <1>4, <2>1 DEF TakeParameters, blockVars
  <2>3. io'[w].block = request /\ \A v \in IOThreads : v # w => io'[v] = io[v]
        BY <1>1, <2>1, <2>2 DEF IORecord
  <2>4. w \notin Holders /\ w \in Holders'
        BY <1>1, <2>1, <2>3 DEF Holders, Known, BlockTypes
  <2>5. ASSUME NEW b \in Blocks
        PROVE  /\ IsFree(b) => IsFree(b)'
               /\ IsHeld(b) => IsHeld(b)'
               /\ b = request => IsHeld(b)'
    <3>1. IsFree(b) => IsFree(b)'
          BY <2>2 DEF IsFree
    <3>2. IsHeld(b) => IsHeld(b)'
          BY <2>3, <2>4 DEF IsHeld, Holders
    <3>3. b = request => IsHeld(b)'
          BY <2>3, <2>4 DEF IsHeld
    <3> QED
          BY <3>1, <3>2, <3>3
  <2> QED
        BY <1>2, <2>5 DEF NoBlockLost
<1>5. CASE AbortAsyncIOCB(w)
  <2> DEFINE b0 == io[w].block
  <2>1. /\ io[w].pc = "free" /\ IocbFreeList' = <<b0>> \o IocbFreeList
        /\ io' = [io EXCEPT ![w] = [pc |-> "wait", block |-> NIL, version |-> 0]]
        /\ nextRoutine' = nextRoutine
        BY <1>5 DEF AbortAsyncIOCB, At, Freed, handVars
  <2>2. w \in Holders /\ b0 \in Blocks
        BY <2>1, InUse DEF Known
  <2>3. /\ 1 \in 1..Len(IocbFreeList') /\ IocbFreeList'[1] = b0
        /\ \A i \in 1..Len(IocbFreeList) :
             i + 1 \in 1..Len(IocbFreeList') /\ IocbFreeList'[i + 1] = IocbFreeList[i]
        BY <1>1, <2>1, <2>2
  <2>4. \A v \in IOThreads : v # w => io'[v] = io[v]
        BY <1>1, <2>1
  <2>5. ASSUME NEW b \in Blocks
        PROVE  /\ IsFree(b) => IsFree(b)'
               /\ IsHeld(b) => IsHeld(b)' \/ IsFree(b)'
    <3>1. IsFree(b) => IsFree(b)'
          BY <2>3 DEF IsFree
    <3>2. ASSUME NEW v \in Holders, io[v].block = b
          PROVE  IsHeld(b)' \/ IsFree(b)'
      <4>1. CASE v = w
            BY <2>3, <3>2, <4>1 DEF IsFree
      <4>2. CASE v # w
            BY <2>4, <3>2, <4>2 DEF IsHeld, Holders
      <4> QED
            BY <4>1, <4>2
    <3> QED
          BY <3>1, <3>2 DEF IsHeld
  <2>6. Queued' <=> Queued
        BY <1>2, <1>3, <2>1
  <2> QED
        BY <1>2, <2>5, <2>6 DEF NoBlockLost
<1>6. CASE ~TakeParameters(w) /\ ~AbortAsyncIOCB(w)
  <2>1. UNCHANGED <<IocbFreeList, nextRoutine>>
        BY <1>6 DEF IOProgress, WaitForSingleObject, ClearInputQueue,
           ArgumentError, EnableGarbageCollection, PrimitiveReturns, CheckVersion,
           IncrementAsyncCount, ResumeThread, Epilog, blockVars, handVars
  <2>2. \A v \in IOThreads : io'[v].block = io[v].block
        BY <1>6, KeepsBlock DEF Known
  <2>3. \A b : (IsFree(b)' <=> IsFree(b)) /\ (IsHeld(b)' <=> IsHeld(b))
        BY <2>1, <2>2 DEF IsFree, IsHeld, Holders
  <2>4. Queued' <=> Queued
        BY <1>2, <1>3, <2>1
  <2> QED
        BY <1>2, <2>3, <2>4 DEF NoBlockLost
<1> QED
      BY <1>4, <1>5, <1>6

(* The states of a call that an I/O thread is to answer.                   *)
OnWay == {"taken", "start", "blocked", "returned", "enter", "done"}

LEMMA IsForIs ==
  \A w, t : IsFor(w, t) <=> io[w].pc \in OnWay /\ ThreadOf(w) = t
BY DEF IsFor, OnWay

LEMMA IsForIsNext ==
  \A w, t : IsFor(w, t)' <=> io'[w].pc \in OnWay /\ IocbRoots'[ThreadSlot(io'[w].block)] = t
BY DEF IsFor, OnWay, ThreadOf, ThreadSlot

(* What one I/O thread does leaves the calls of the others as they are.    *)
LEMMA OthersKept ==
  ASSUME Known, NEW w \in IOThreads, IOProgress(w) \/ PrimitiveReturns(w)
  PROVE  /\ \A v \in IOThreads : v # w => io'[v] = io[v]
         /\ \A v \in IOThreads, t \in Threads : v # w => (IsFor(v, t)' <=> IsFor(v, t))
<1>1. /\ io \in [IOThreads -> IORecord] /\ Handover /\ Owners
      BY DEF Known, CallInv, Types, BlockInv
<1>2. \A v \in IOThreads : v # w => io'[v] = io[v]
  <2>1. CASE TakeParameters(w)
        BY <1>1, <2>1 DEF TakeParameters
  <2>2. CASE AbortAsyncIOCB(w)
        BY <1>1, <2>2 DEF AbortAsyncIOCB
  <2> QED
        BY <2>1, <2>2, KeepsBlock DEF Known
<1>3. ASSUME NEW v \in IOThreads, v # w
      PROVE  \A t \in Threads : IsFor(v, t)' <=> IsFor(v, t)
  <2>1. io'[v] = io[v]
        BY <1>2, <1>3
  <2>2. CASE v \in Holders
    <3>1. io[v].block \in Blocks
          BY <2>2, InUse DEF Known
    <3>2. ~(AbortAsyncIOCB(w) /\ io[v].block = io[w].block)
      <4>1. AbortAsyncIOCB(w) => w \in Holders
            BY InUse DEF Known, AbortAsyncIOCB, At
      <4> QED
            BY <1>1, <1>3, <2>2, <4>1 DEF Owners
    <3>3. IocbRoots'[ThreadSlot(io[v].block)] = IocbRoots[ThreadSlot(io[v].block)]
          BY <3>1, <3>2, RootsIO
    <3> QED
          BY <2>1, <3>3, IsForIs, IsForIsNext DEF ThreadOf, ThreadSlot
  <2>3. CASE v \notin Holders
    <3>1. io[v].pc \notin OnWay
          BY <2>3, InUse DEF Known, OnWay
    <3> QED
          BY <2>1, <3>1, IsForIs, IsForIsNext
  <2> QED
        BY <2>2, <2>3
<1> QED
      BY <1>2, <1>3

(* A request that waits keeps its thread while I/O threads move.           *)
LEMMA RequestKept ==
  ASSUME Known, CallInv', Served, NEW w \in IOThreads, IOProgress(w) \/ PrimitiveReturns(w)
  PROVE  /\ UNCHANGED <<main, caller, request, heap>>
         /\ Queued' => Queued
         /\ Queued /\ ~TakeParameters(w) => Queued'
         /\ Queued => caller \in Threads /\ IocbRoots'[ThreadSlot(request)] = caller
<1>1. /\ UNCHANGED <<main, caller, request, heap>>
      BY DEF IOProgress, WaitForSingleObject, TakeParameters, ClearInputQueue, ArgumentError,
         EnableGarbageCollection, PrimitiveReturns, CheckVersion, IncrementAsyncCount,
         ResumeThread, Epilog, AbortAsyncIOCB, callVars, worldVars
<1>2. /\ Queued <=> main = "call" \/ nextRoutine
      /\ Queued' <=> main' = "call" \/ nextRoutine'
      BY QueuedIs, QueuedIsNext DEF Known, CallInv
<1>3. (nextRoutine' => nextRoutine) /\ (~TakeParameters(w) => nextRoutine' = nextRoutine)
      BY DEF IOProgress, WaitForSingleObject, TakeParameters, ClearInputQueue,
           ArgumentError, EnableGarbageCollection, PrimitiveReturns, CheckVersion,
           IncrementAsyncCount, ResumeThread, Epilog, AbortAsyncIOCB, handVars
<1>4. ASSUME Queued
      PROVE  caller \in Threads /\ IocbRoots'[ThreadSlot(request)] = caller
  <2>1. request \in Blocks /\ caller \in Threads /\ IocbRoots[ThreadSlot(request)] = caller
        BY <1>4, InUse DEF Known, Served
  <2>2. ~(AbortAsyncIOCB(w) /\ request = io[w].block)
    <3>1. AbortAsyncIOCB(w) => w \in Holders
          BY InUse DEF Known, AbortAsyncIOCB, At
    <3> QED
          BY <1>4, <3>1 DEF Known, BlockInv, Owners
  <2> QED
        BY <2>1, <2>2, RootsIO
<1> QED
      BY <1>1, <1>2, <1>3, <1>4

(* Whom the thread that moves answers: as before, unless it takes a        *)
(* request, or resumes the caller.                                         *)
LEMMA OwnCall ==
  ASSUME Known, WorldInv, NEW w \in IOThreads, IOProgress(w) \/ PrimitiveReturns(w),
         ~TakeParameters(w), ~ResumeThread(w), heap
  PROVE  \A t \in Threads : IsFor(w, t)' <=> IsFor(w, t)
<1>1. /\ io \in [IOThreads -> IORecord] /\ io[w] \in IORecord
      BY DEF Known, CallInv, Types
<1>2. CASE AbortAsyncIOCB(w)
  <2>1. io[w].pc = "free" /\ io'[w].pc = "wait"
        BY <1>1, <1>2 DEF AbortAsyncIOCB, At
  <2> QED
        BY <2>1, IsForIs, IsForIsNext DEF OnWay
<1>3. CASE ~AbortAsyncIOCB(w)
  <2>1. io'[w].block = io[w].block
        BY <1>3, KeepsBlock DEF Known
  <2>2. io'[w].pc \in OnWay <=> io[w].pc \in OnWay
    <3>1. CASE EnableGarbageCollection(w)
          BY <1>1, <3>1 DEF EnableGarbageCollection, At, IORecord, OnWay
    <3>2. CASE CheckVersion(w)
      <4>1. io[w].pc = "returned" /\ io[w].version = VersionOfTheWorld
            BY <3>2 DEF CheckVersion, At, WorldInv, Away
      <4> QED
            BY <1>1, <3>2, <4>1 DEF CheckVersion, Goto, IORecord, OnWay
    <3>3. CASE ArgumentError(w) \/ PrimitiveReturns(w)
      <4>1. \/ io[w].pc = "start" /\ io' = [io EXCEPT ![w].pc = "done"]
            \/ io[w].pc = "blocked" /\ io' = [io EXCEPT ![w].pc = "returned"]
            BY <3>3 DEF ArgumentError, PrimitiveReturns, At, Goto
      <4> QED
            BY <1>1, <4>1 DEF IORecord, OnWay
    <3>4. CASE IncrementAsyncCount(w) \/ ClearInputQueue(w)
      <4>1. \/ io[w].pc = "enter" /\ io' = [io EXCEPT ![w].pc = "done"]
            \/ io[w].pc = "taken" /\ io' = [io EXCEPT ![w].pc = "start"]
            BY <3>4 DEF IncrementAsyncCount, ClearInputQueue, At, Goto
      <4> QED
            BY <1>1, <4>1 DEF IORecord, OnWay
    <3>5. CASE WaitForSingleObject(w) \/ Epilog(w)
      <4>1. \/ io[w].pc = "wait" /\ io' = [io EXCEPT ![w].pc = "woken"]
            \/ io[w].pc = "resumed" /\ io' = [io EXCEPT ![w].pc = "free"]
            BY <3>5 DEF WaitForSingleObject, Epilog, At, Goto
      <4> QED
            BY <1>1, <4>1 DEF IORecord, OnWay
    <3> QED
          BY <1>3, <3>1, <3>2, <3>3, <3>4, <3>5 DEF IOProgress
  <2>3. CASE io[w].pc \in OnWay
    <3>1. io[w].block \in Blocks
          BY <2>3, InUse DEF Known, OnWay
    <3>2. IocbRoots'[ThreadSlot(io[w].block)] = IocbRoots[ThreadSlot(io[w].block)]
          BY <1>3, <3>1, RootsIO
    <3> QED
          BY <2>1, <2>2, <3>2, IsForIs, IsForIsNext DEF ThreadOf, ThreadSlot
  <2> QED
        BY <2>2, <2>3, IsForIs, IsForIsNext
<1> QED
      BY <1>2, <1>3

LEMMA ServedIO ==
  ASSUME Known, CallInv', WorldInv, Served, NEW w \in IOThreads,
         IOProgress(w) \/ PrimitiveReturns(w)
  PROVE  Served'
<1>1. /\ UNCHANGED <<main, caller, request, heap>> /\ (Queued' => Queued)
      /\ Queued /\ ~TakeParameters(w) => Queued'
      /\ Queued => caller \in Threads /\ IocbRoots'[ThreadSlot(request)] = caller
      BY RequestKept
<1>2. runnable' = runnable \/ (ResumeThread(w) /\ runnable' = runnable \cup {ThreadOf(w)})
      BY DEF IOProgress, WaitForSingleObject, TakeParameters, ClearInputQueue, Resumed,
         ArgumentError, EnableGarbageCollection, PrimitiveReturns, CheckVersion,
         IncrementAsyncCount, ResumeThread, Epilog, AbortAsyncIOCB
<1>3. /\ main' = "acquire" => caller' \in runnable'
      /\ Queued' => caller' \in Threads /\ IocbRoots'[ThreadSlot(request')] = caller'
      BY <1>1, <1>2 DEF Served
<1>4. \A v \in IOThreads, t \in Threads : v # w => (IsFor(v, t)' <=> IsFor(v, t))
      BY OthersKept
<1>5. ASSUME heap
      PROVE  \A t \in Threads :
               /\ t \in runnable' <=> ~(Queued' /\ caller = t)
                                      /\ \A v \in IOThreads : ~(IsFor(v, t)')
               /\ \A v \in IOThreads : IsFor(v, t)' =>
                    /\ ~(Queued' /\ caller = t)
                    /\ \A u \in IOThreads : IsFor(u, t)' => u = v
  <2>0. /\ \A t \in Threads : t \in runnable <=> ~(Queued /\ caller = t)
                                                 /\ \A v \in IOThreads : ~IsFor(v, t)
        /\ \A t \in Threads, v \in IOThreads : IsFor(v, t) =>
             ~(Queued /\ caller = t) /\ \A u \in IOThreads : IsFor(u, t) => u = v
        BY <1>5 DEF Served
  <2>1. CASE TakeParameters(w)
    <3>1. /\ io \in [IOThreads -> IORecord] /\ io[w] \in IORecord /\ Handover
          BY DEF Known, CallInv, Types
    <3>2. io[w].pc = "woken" /\ nextRoutine /\ nextIocb # NIL /\ nextIocb = request
          BY <2>1, <3>1 DEF TakeParameters, At, Handover
    <3>3. /\ io' = [io EXCEPT ![w].pc = "taken", ![w].block = nextIocb] /\ ~nextRoutine'
          /\ runnable' = runnable
          BY <2>1, <3>2 DEF TakeParameters
    <3>4. io'[w].pc = "taken" /\ io'[w].block = request
          BY <3>1, <3>2, <3>3 DEF IORecord
    <3>5. Queued /\ ~Queued'
      <4>1. main # "call"
            BY <3>1, <3>2 DEF Handover
      <4> QED
            BY <1>1, <3>2, <3>3, <4>1, QueuedIs, QueuedIsNext DEF Known, CallInv
    <3>6. \A t \in Threads : (IsFor(w, t)' <=> t = caller) /\ ~IsFor(w, t)
          BY <1>1, <3>2, <3>4, <3>5, IsForIs, IsForIsNext DEF OnWay
    <3> QED
          BY <1>4, <2>0, <3>3, <3>5, <3>6
  <2>2. CASE ResumeThread(w)
    <3>1. /\ io \in [IOThreads -> IORecord] /\ io[w] \in IORecord
          BY DEF Known, CallInv, Types
    <3>2. ThreadOf(w) \in Threads /\ io[w].pc = "done"
          BY <2>2, ThreadOfHolder, InUse DEF Known, ResumeThread, At
    <3>3. /\ runnable' = runnable \cup {ThreadOf(w)} /\ io' = [io EXCEPT ![w].pc = "resumed"]
          BY <2>2, <3>2, AsyncAssumption DEF ResumeThread, Resumed, Goto
    <3>4. io'[w].pc = "resumed"
          BY <3>1, <3>3 DEF IORecord
    <3>5. \A t \in Threads : ~(IsFor(w, t)') /\ (IsFor(w, t) <=> t = ThreadOf(w))
          BY <3>2, <3>4, IsForIs, IsForIsNext DEF OnWay
    <3>6. Queued' <=> Queued
          BY <1>1, <2>2 DEF ResumeThread, TakeParameters, At
    <3> QED
          BY <1>4, <2>0, <3>2, <3>3, <3>5, <3>6
  <2>3. CASE ~TakeParameters(w) /\ ~ResumeThread(w)
    <3>1. \A t \in Threads : IsFor(w, t)' <=> IsFor(w, t)
          BY <1>5, <2>3, OwnCall
    <3>2. (Queued' <=> Queued) /\ runnable' = runnable
          BY <1>1, <1>2, <2>3
    <3> QED
          BY <1>4, <2>0, <3>1, <3>2
  <2> QED
        BY <2>1, <2>2, <2>3
<1> QED
      BY <1>1, <1>3, <1>5 DEF Served

-----------------------------------------------------------------------------
LEMMA InitAccountInv == Init => AccountInv
<1> SUFFICES ASSUME Init
             PROVE  AccountInv
    OBVIOUS
<1>1. /\ main = "down" /\ caller = NIL /\ runnable = {} /\ ~heap /\ slot = 0 /\ loaded = NIL
      /\ VersionOfTheWorld = 0 /\ heap \in BOOLEAN
      BY DEF Init
<1>2. LastSlot \in Nat
      BY AsyncAssumption DEF LastSlot
<1>3. RestTypes
      BY <1>1, <1>2 DEF RestTypes
<1>4. Keeps /\ NoBlockLost /\ Served
      BY <1>1 DEF Keeps, NoBlockLost, Served, Queued
<1> QED
      BY <1>3, <1>4 DEF AccountInv

LEMMA NextAccountInv ==
  Known /\ Known' /\ WorldInv /\ AccountInv /\ [Next]_vars => AccountInv'
<1> SUFFICES ASSUME Known, CallInv', WorldInv, AccountInv, [Next]_vars
             PROVE  AccountInv'
    BY DEF Known
<1>0. RestTypes /\ Keeps /\ NoBlockLost /\ Served
      BY DEF AccountInv
<1>1. CASE MainStep
      BY <1>0, <1>1, TypesMain, KeepsMain, BlocksMain, ServedMain DEF AccountInv
<1>2. ASSUME NEW w \in IOThreads, IOProgress(w) \/ PrimitiveReturns(w)
      PROVE  AccountInv'
      BY <1>0, <1>2, TypesIO, KeepsIO, BlocksIO, ServedIO DEF AccountInv
<1>3. CASE Poll \/ Terminated \/ UNCHANGED vars
  <2>1. UNCHANGED vars
        BY <1>3 DEF Poll, Terminated
  <2>2. /\ UNCHANGED <<main, caller, request, runnable, IocbRoots, IocbFreeList, nextIocb>>
        /\ UNCHANGED <<io, VersionOfTheWorld, slot, loaded, heap, fatal>>
        BY <2>1 DEF vars, callVars, handVars, gcVars, blockVars, worldVars
  <2>3. RestTypes' /\ Keeps'
        BY <1>0, <2>2 DEF RestTypes, Keeps, SlotAt, LastSlot
  <2>4. (Queued' <=> Queued) /\ Holders' = Holders
        BY <2>2 DEF Queued, Holders
  <2>5. \A b : (IsFree(b)' <=> IsFree(b)) /\ (IsHeld(b)' <=> IsHeld(b))
        BY <2>2, <2>4 DEF IsFree, IsHeld
  <2>6. NoBlockLost'
        BY <1>0, <2>2, <2>4, <2>5 DEF NoBlockLost, Running
  <2>7. \A w, t : IsFor(w, t)' <=> IsFor(w, t)
        BY <2>2 DEF IsFor, ThreadOf
  <2>8. Served'
        BY <1>0, <2>2, <2>4, <2>7 DEF Served
  <2> QED
        BY <2>3, <2>6, <2>8 DEF AccountInv
<1> QED
      BY <1>1, <1>2, <1>3 DEF Next

-----------------------------------------------------------------------------
(* From the invariants to what is counted                                  *)

LEMMA AtMostOne ==
  ASSUME NEW S, \A x, y \in S : x = y
  PROVE  Cardinality(S) = IF S = {} THEN 0 ELSE 1
<1>1. CASE S = {}
      BY <1>1, FS_EmptySet
<1>2. CASE S # {}
  <2>1. PICK x \in S : TRUE
        BY <1>2
  <2>2. S = {x}
        BY <2>1
  <2> QED
        BY <1>2, <2>2, FS_Singleton
<1> QED
      BY <1>1, <1>2

LEMMA TypeOKHolds ==
  ASSUME Known, AccountInv
  PROVE  TypeOK
<1>1. /\ Types /\ BlockTypes /\ RootTypes /\ Visits /\ HandoverIsSound /\ RestTypes
      /\ AsyncCountExact
      BY DEF Known, CallInv, BlockInv, AccountInv
<1>2. AsyncThreadCount \in Nat
      BY <1>1, CountIs, UsersFinite
<1>3. io \in [IOThreads ->
       [pc : {"wait", "woken", "taken", "start", "blocked", "returned", "enter",
              "done", "resumed", "free"},
        block : Blocks \cup {NIL}, version : Nat]]
      BY <1>1 DEF Types, IORecord, IOPcs
<1>4. stale \subseteq Slots
      BY <1>1 DEF Visits
<1> QED
      BY <1>1, <1>2, <1>3, <1>4 DEF TypeOK, Types, MainPcs, BlockTypes, RootTypes, RestTypes,
         HandoverIsSound

LEMMA BlocksAccountedHolds ==
  ASSUME Known, AccountInv
  PROVE  BlocksAccounted
<1>1. /\ Owners /\ NoBlockLost /\ IocbFreeList \in Seq(Blocks)
      BY DEF Known, BlockTypes, BlockInv, AccountInv
<1>2. SUFFICES ASSUME Running, VersionOfTheWorld > 0, NEW b \in Blocks
               PROVE  1 = Cardinality({i \in DOMAIN IocbFreeList : IocbFreeList[i] = b})
                            + Cardinality({w \in IOThreads : io[w].block = b})
                            + (IF Queued /\ request = b THEN 1 ELSE 0)
      BY DEF BlocksAccounted
<1> DEFINE F == {i \in DOMAIN IocbFreeList : IocbFreeList[i] = b}
           H == {w \in IOThreads : io[w].block = b}
<1>3. DOMAIN IocbFreeList = 1..Len(IocbFreeList)
      BY <1>1
<1>4. H \subseteq Holders
      BY AsyncAssumption DEF Holders, Blocks
<1>5. \A i, j \in F : i = j
      BY <1>1, <1>3 DEF Owners
<1>6. \A v, w \in H : v = w
      BY <1>1, <1>4 DEF Owners
<1>7. Cardinality(F) = (IF F = {} THEN 0 ELSE 1) /\ Cardinality(H) = (IF H = {} THEN 0 ELSE 1)
  <2> HIDE DEF F, H
  <2> QED
      BY <1>5, <1>6, AtMostOne
<1>8. (IsFree(b) <=> F # {}) /\ (IsHeld(b) <=> H # {})
      BY <1>3, <1>4 DEF IsFree, IsHeld, Holders
<1>9. F # {} \/ H # {} \/ (Queued /\ request = b)
  <2>1. VersionOfTheWorld # 0
        BY <1>2 DEF Known, BlockTypes
  <2> QED
        BY <1>1, <1>2, <1>8, <2>1 DEF NoBlockLost
<1>10. /\ ~(F # {} /\ H # {})
       /\ ~(F # {} /\ Queued /\ request = b)
       /\ ~(H # {} /\ Queued /\ request = b)
  <2>1. ASSUME NEW i \in F, NEW w \in H
        PROVE  FALSE
        BY <1>1, <1>3, <1>4, <2>1 DEF Owners
  <2>2. ASSUME NEW i \in F, Queued, request = b
        PROVE  FALSE
        BY <1>1, <1>3, <2>2 DEF Owners
  <2>3. ASSUME NEW w \in H, Queued, request = b
        PROVE  FALSE
        BY <1>1, <1>4, <2>3 DEF Owners
  <2> QED
        BY <2>1, <2>2, <2>3
<1> HIDE DEF F, H
<1>11. 1 = Cardinality(F) + Cardinality(H) + (IF Queued /\ request = b THEN 1 ELSE 0)
  <2>1. CASE Queued /\ request = b
        BY <1>7, <1>10, <2>1
  <2>2. CASE ~(Queued /\ request = b)
        BY <1>7, <1>9, <1>10, <2>2
  <2> QED
        BY <2>1, <2>2
<1> QED
      BY <1>11 DEF F, H

LEMMA SuspendedServedHolds ==
  ASSUME AccountInv
  PROVE  SuspendedThreadsAreServed
<1>1. SUFFICES ASSUME heap, NEW t \in Threads
               PROVE  Cardinality({w \in IOThreads : IsFor(w, t)})
                        + (IF Queued /\ caller = t THEN 1 ELSE 0)
                          = (IF t \in runnable THEN 0 ELSE 1)
      BY DEF SuspendedThreadsAreServed
<1> DEFINE A == {w \in IOThreads : IsFor(w, t)}
<1>2. /\ t \in runnable <=> ~(Queued /\ caller = t) /\ A = {}
      /\ A # {} => ~(Queued /\ caller = t)
      /\ \A v, w \in A : v = w
  <2>1. /\ t \in runnable <=> ~(Queued /\ caller = t) /\ \A w \in IOThreads : ~IsFor(w, t)
        /\ \A w \in IOThreads : IsFor(w, t) =>
             ~(Queued /\ caller = t) /\ \A v \in IOThreads : IsFor(v, t) => v = w
        BY <1>1 DEF AccountInv, Served
  <2> QED
        BY <2>1
<1>3. Cardinality(A) = IF A = {} THEN 0 ELSE 1
  <2> HIDE DEF A
  <2> QED
      BY <1>2, AtMostOne
<1> HIDE DEF A
<1>4. Cardinality(A) + (IF Queued /\ caller = t THEN 1 ELSE 0)
        = (IF t \in runnable THEN 0 ELSE 1)
      BY <1>2, <1>3
<1> QED
      BY <1>4 DEF A

(* Nothing of a call is lost or counted twice, however it ends, for any    *)
(* number of Java threads, I/O threads and blocks: the count the collector *)
(* waits for is that of the calls that use the heap, every block is in one *)
(* place, and a suspended thread has one call under way that will resume   *)
(* it (asyncFunctionProlog, asyncFunctionEpilog, FreeAsyncIOCB).           *)
THEOREM AllCallsAccounted == Spec => []CallsAccounted
<1>1. Init => AccountInv
      BY InitAccountInv
<1>2. Known /\ Known' /\ WorldInv /\ AccountInv /\ [Next]_vars => AccountInv'
      BY NextAccountInv
<1>3. Known /\ AccountInv => CallsAccounted
      BY TypeOKHolds, BlocksAccountedHolds, SuspendedServedHolds DEF CallsAccounted, Known, CallInv
<1> QED
      BY <1>1, <1>2, <1>3, AlwaysKnown, AlwaysWorld, PTL DEF Spec
=============================================================================
