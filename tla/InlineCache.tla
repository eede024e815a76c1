----------------------------- MODULE InlineCache -----------------------------
(***************************************************************************)
(* Bytecodes that the interpreter rewrites while it runs them (cache.c,    *)
(* bytecodes.c, lookupDynamicMethod of fields.c) and the breakpoints of    *)
(* the debugger, which rewrites the same bytes (debugger.c).               *)
(*                                                                         *)
(* INVOKEVIRTUAL, INVOKEINTERFACE and ANEWARRAY become FAST bytecodes      *)
(* whose parameter is the index of an inline cache entry.  The entry has   *)
(* the bytes it replaced and the place where they were; the oldest is put  *)
(* back when its entry is needed, and all are when the VM ends.  Others    *)
(* (NEW, GETFIELD, a call of a final class) stay fast for ever.  An opcode *)
(* under a breakpoint is kept in the event of the debugger, and rewritten  *)
(* there.  A thread the debugger stops at an instruction, at a breakpoint  *)
(* or after a step, remembers the opcode (nextOpcode) and executes it when *)
(* it is resumed, whatever the code says by then.                          *)
(*                                                                         *)
(* There is one method name and signature: a method is the class that      *)
(* declares it.  A location is an instruction with a parameter of two      *)
(* bytes; a program executes its locations in any order in any thread.     *)
(* Parameters are tagged with what they index: a constant pool entry (of   *)
(* the location's own), an inline cache entry or a field's offset.         *)
(***************************************************************************)
EXTENDS Integers, Sequences, FiniteSets, SequencesExt

CONSTANTS
  Threads,
  Classes, Super,       \* the classes, and the superclass of each, or NIL
  FinalClasses,
  Hierarchies,          \* where the classes are: package and access of each
  Locations,
  Instruction,          \* the bytecode the class file has at each location
  ClassAt,              \* the class its constant pool entry names
  CallerClass,          \* the class whose code the locations are
  INLINECACHESIZE,
  MaxEvents,            \* bound: breakpoint requests at one time
  BreakLocations,       \* where the debugger sets breakpoints
  StepLocations,        \* where it may stop a thread after a step
  NIL

(* The bytecodes that are rewritten, and what each one may become.         *)
Bytecodes == {"INVOKEVIRTUAL", "INVOKEINTERFACE", "ANEWARRAY", "NEW", "GETFIELD"}

Fast(op) ==
  CASE op = "INVOKEVIRTUAL" -> {"INVOKEVIRTUAL_FAST", "INVOKESPECIAL_FAST"}
    [] op = "INVOKEINTERFACE" -> {"INVOKEINTERFACE_FAST"}
    [] op = "ANEWARRAY" -> {"ANEWARRAY_FAST"}
    [] op = "NEW" -> {"NEW_FAST"}
    [] op = "GETFIELD" -> {"GETFIELD_FAST"}

Accesses == {"private", "package", "public", "none"}   \* none: does not declare it

ASSUME CodeAssumption ==
  /\ IsFiniteSet(Classes) /\ NIL \notin Classes
  /\ Super \in [Classes -> Classes \cup {NIL}]
  \* no circles: loadSuperClasses throws ClassCircularityError
  /\ \E depth \in [Classes -> 0 .. Cardinality(Classes)] :
       \A c \in Classes : Super[c] # NIL => depth[Super[c]] < depth[c]
  /\ Instruction \in [Locations -> Bytecodes]
  /\ ClassAt \in [Locations -> Classes] /\ CallerClass \in Classes
  /\ FinalClasses \subseteq Classes
  /\ \A c \in Classes : Super[c] \notin FinalClasses
  /\ \A h \in Hierarchies : \A c \in Classes : h[c].access \in Accesses
  /\ INLINECACHESIZE \in Nat \ {0} /\ MaxEvents \in Nat
  /\ BreakLocations \subseteq Locations /\ StepLocations \subseteq Locations

VARIABLES
  class,            \* the class hierarchy the program has
  vm,               \* "up", "down" after KVM_Cleanup
  vmDebugReady,
  image,            \* what the interpreter and the debugger write:
                    \*   code:    opcode and parameter at each location
                    \*   entries: the inline cache
                    \*   pointer: InlineCachePointer
                    \*   full:    InlineCacheAreaFull
                    \*   events:  the debugger's list of breakpoint events
  stopped           \* the location where the debugger has stopped a thread
                    \* and the thread's nextOpcode, or NIL (isAtBreakpoint)

vars == <<class, vm, vmDebugReady, image, stopped>>

-----------------------------------------------------------------------------
(* Method lookup                                                           *)

(* A class and its superclasses, from the bottom.                          *)
Chain ==
  LET chain[c \in Classes] ==
        IF Super[c] = NIL THEN <<c>> ELSE <<c>> \o chain[Super[c]]
  IN chain

Access(c) == class[c].access
Package(c) == class[c].package

(* lookupMethod(): the first class, from c up, whose method will do.       *)
FirstFrom(c, WillDo(_)) ==
  LET i == SelectInSeq(Chain[c], WillDo)
  IN IF i = 0 THEN NIL ELSE Chain[c][i]

(* With a NULL currentClass: resolution of the reference.                  *)
Resolved(c) == FirstFrom(c, LAMBDA d : Access(d) # "none")

(* For a call from CallerClass.                                            *)
Visible(d) ==
  \/ d = CallerClass /\ Access(d) # "none"
  \/ Access(d) = "public"
  \/ Access(d) = "package" /\ Package(d) = Package(CallerClass)

LookupMethod(c) == FirstFrom(c, Visible)

HasPublicDeclaration(supers, package) ==
  \E i \in DOMAIN supers : Access(supers[i]) = "public" /\ Package(supers[i]) = package

(* lookupDynamicMethod(): the method of a receiver's class c for a call    *)
(* that was declared to go to the method of class declared.                *)
LookupDynamicMethod(c, declared) ==
  LET chain == Chain[c]
      isHere(i) == Access(chain[i]) \notin {"none", "private"}
      isDirect(i) == \/ chain[i] = declared
                     \/ isHere(i) /\ \/ Access(declared) = "public"
                                     \/ Package(chain[i]) = Package(declared)
      isElsewhere(i) == isHere(i) /\ ~isDirect(i)
      \* of the matches in a wrong package only the first is looked into
      isOverride(i) ==
        /\ isElsewhere(i) /\ \A j \in 1 .. i - 1 : ~isElsewhere(j)
        /\ HasPublicDeclaration(SubSeq(chain, i + 1, Len(chain)), Package(declared))
      found == {i \in DOMAIN chain : isDirect(i) \/ isOverride(i)}
  IN IF Access(declared) = "private" THEN declared
     ELSE IF found = {} THEN NIL
     ELSE chain[CHOOSE i \in found : \A j \in found : i <= j]

(* The receivers of a call.                                                *)
Receivers(l) ==
  CASE Instruction[l] = "INVOKEVIRTUAL" ->
         {c \in Classes : ClassAt[l] \in ToSet(Chain[c])}
    [] Instruction[l] = "INVOKEINTERFACE" ->
         {c \in Classes : LookupMethod(c) # NIL /\ Access(LookupMethod(c)) = "public"}
    [] OTHER -> {ClassAt[l]}

-----------------------------------------------------------------------------
(* Inline cache and breakpoints: operators on the record image             *)

ConstantPool(l) == <<"constant", l>>

(* findBreakEventAndOpcode(): the first event at a location, cleared ones  *)
(* included; 0 if there is none.                                           *)
FindBreakEvent(im, l) ==
  SelectInSeq(im.events, LAMBDA e : e.location = l)

(* replaceEventOpcode(bcode), with ip_global at l.                         *)
ReplaceEventOpcode(im, l, bcode) ==
  LET i == FindBreakEvent(im, l)
  IN IF i = 0 THEN [im EXCEPT !.code[l].op = bcode]
     ELSE [im EXCEPT !.events[i].opcode = bcode]

(* REPLACE_BYTECODE(ip, bcode)                                             *)
ReplaceBytecode(im, l, bcode) ==
  IF im.code[l].op = "BREAKPOINT" THEN ReplaceEventOpcode(im, l, bcode)
  ELSE [im EXCEPT !.code[l].op = bcode]

PutShort(im, l, param) == [im EXCEPT !.code[l].param = param]

(* Fault: the parameter is not restored.                                   *)
ReleaseInlineCacheEntry_OpcodeOnly(im, index, ip) ==
  [im EXCEPT !.code[im.entries[index].codeLoc].op = im.entries[index].origInst]

(* releaseInlineCacheEntry(index), called with ip_global at ip.            *)
ReleaseInlineCacheEntry(im, index, ip) ==
  LET e == im.entries[index]
      restored == IF im.code[e.codeLoc].op = "BREAKPOINT"
                  THEN ReplaceEventOpcode(im, ip, e.origInst)
                  ELSE [im EXCEPT !.code[e.codeLoc].op = e.origInst]
  IN PutShort(restored, e.codeLoc, e.origParam)

(* createInlineCacheEntry(contents, originalCode)                          *)
CreateInlineCacheEntry(im, contents, l) ==
  LET index == im.pointer
      freed == IF im.full THEN ReleaseInlineCacheEntry(im, index, l) ELSE im
  IN [freed EXCEPT
        !.entries[index] = [contents |-> contents, codeLoc |-> l,
                            origInst |-> freed.code[l].op,
                            origParam |-> freed.code[l].param],
        !.pointer = (index + 1) % INLINECACHESIZE,
        !.full = @ \/ index + 1 = INLINECACHESIZE]

(* The rewriting of a cached bytecode.                                     *)
Quicken(im, l, fast, contents) ==
  PutShort(ReplaceBytecode(CreateInlineCacheEntry(im, contents, l), l, fast),
           l, <<"cache", im.pointer>>)

(* FinalizeInlineCaching(); it runs after clearAllBreakpoints().           *)
FinalizeInlineCaching(im) ==
  LET n == IF im.full THEN INLINECACHESIZE ELSE im.pointer
      released[i \in 0 .. n] ==
        IF i = 0 THEN im ELSE ReleaseInlineCacheEntry(released[i - 1], n - i, NIL)
  IN [released[n] EXCEPT !.pointer = 0, !.full = FALSE]

Entry(l) == image.entries[image.code[l].param[2]]
IsLive(i) == image.full \/ i < image.pointer

-----------------------------------------------------------------------------
(* Bytecodes                                                               *)

(* A thread that the debugger stopped goes on at the instruction where it  *)
(* is; the others execute any.                                             *)
IsAt(t, l) == stopped[t] # NIL => stopped[t].location = l

(* The opcode a thread gets next at l: __getNextToken().                   *)
Token(t, l) ==
  IF vmDebugReady /\ stopped[t] # NIL THEN stopped[t].nextOpcode
  ELSE image.code[l].op

(* What the parameter of each bytecode indexes.                            *)
ParamOf(op) ==
  CASE op \in {"INVOKEVIRTUAL_FAST", "INVOKEINTERFACE_FAST", "ANEWARRAY_FAST"} -> "cache"
    [] op = "GETFIELD_FAST" -> "offset"
    [] OTHER -> "constant"

(* Fault: a hit needs the same package only.                               *)
IsHit_Package(c, method) == Package(c) = Package(method)

(* "If the default class and dynamic class are the same, we can just       *)
(* execute the method."                                                    *)
IsHit(c, method) == c = method

(* What an execution of opcode op at l with a receiver of class c goes to: *)
(* the class whose method it calls, or the element type of the array.      *)
(* NIL when no method is found, or when the parameter is none of op's.     *)
Target(op, l, c) ==
  IF image.code[l].param[1] # ParamOf(op) THEN NIL ELSE
  CASE op = "INVOKEVIRTUAL" -> LookupDynamicMethod(c, Resolved(ClassAt[l]))
    [] op = "INVOKEINTERFACE" -> LookupMethod(c)
    [] op = "INVOKESPECIAL_FAST" -> Resolved(ClassAt[l])
    [] op = "INVOKEVIRTUAL_FAST" ->
         LET method == Entry(l).contents
         IN IF IsHit(c, method) THEN method ELSE LookupDynamicMethod(c, method)
    [] op = "INVOKEINTERFACE_FAST" ->
         LET method == Entry(l).contents
         IN IF IsHit(c, method) THEN method ELSE LookupMethod(c)
    [] op = "ANEWARRAY_FAST" -> Entry(l).contents
    [] OTHER -> ClassAt[l]

(* Thread t executes opcode op at l, and goes on anywhere.                 *)
Executes(t, l, op) ==
  /\ vm = "up"
  /\ IsAt(t, l) /\ Token(t, l) = op
  /\ image.code[l].param[1] = ParamOf(op)
  /\ stopped' = [stopped EXCEPT ![t] = NIL]
  /\ UNCHANGED <<class, vm, vmDebugReady>>

(* A method that nothing can override is called without lookup.            *)
IsSpecial(l) ==
  \/ Resolved(ClassAt[l]) \in FinalClasses
  \/ Access(Resolved(ClassAt[l])) = "private"

InvokeVirtual(t, l) ==
  /\ Executes(t, l, "INVOKEVIRTUAL")
  /\ image' \in IF IsSpecial(l)
                THEN {ReplaceBytecode(image, l, "INVOKESPECIAL_FAST")}
                ELSE {Quicken(image, l, "INVOKEVIRTUAL_FAST", Target("INVOKEVIRTUAL", l, c)) :
                        c \in Receivers(l)}

InvokeInterface(t, l) ==
  /\ Executes(t, l, "INVOKEINTERFACE")
  /\ image' \in {Quicken(image, l, "INVOKEINTERFACE_FAST", Target("INVOKEINTERFACE", l, c)) :
                   c \in Receivers(l)}

(* INVOKEVIRTUAL_FAST and INVOKEINTERFACE_FAST: a miss updates the entry.  *)
InvokeFast(t, l, op) ==
  /\ Executes(t, l, op)
  /\ image' \in {[image EXCEPT !.entries[image.code[l].param[2]].contents = Target(op, l, c)] :
                   c \in Receivers(l)}
InvokeVirtualFast(t, l) == InvokeFast(t, l, "INVOKEVIRTUAL_FAST")
InvokeInterfaceFast(t, l) == InvokeFast(t, l, "INVOKEINTERFACE_FAST")

ANewArray(t, l) ==
  /\ Executes(t, l, "ANEWARRAY")
  /\ image' = Quicken(image, l, "ANEWARRAY_FAST", ClassAt[l])

(* NEW of a class that is not initialized yet is executed again, after the *)
(* frame of the initialization; of one with a finalizer it stays NEW.      *)
New(t, l) ==
  /\ Executes(t, l, "NEW")
  /\ image' \in {image, ReplaceBytecode(image, l, "NEW_FAST")}

(* GETFIELD is executed again, as GETFIELD_FAST.                           *)
GetField(t, l) ==
  /\ Executes(t, l, "GETFIELD")
  /\ image' = PutShort(ReplaceBytecode(image, l, "GETFIELD_FAST"), l, <<"offset", l>>)

(* The bytecodes that rewrite nothing.                                     *)
OtherFast(t, l) ==
  /\ \E op \in {"NEW_FAST", "GETFIELD_FAST", "INVOKESPECIAL_FAST", "ANEWARRAY_FAST"} :
       Executes(t, l, op)
  /\ UNCHANGED image

-----------------------------------------------------------------------------
(* The debugger                                                            *)

(* BREAKPOINT: handleBreakpoint().                                         *)
HandleBreakpoint(t, l) ==
  LET i == FindBreakEvent(image, l)
  IN /\ vm = "up" /\ vmDebugReady
     /\ IsAt(t, l) /\ Token(t, l) = "BREAKPOINT" /\ i # 0
     /\ stopped' = [stopped EXCEPT ![t] = [location |-> l,
                                           nextOpcode |-> image.events[i].opcode]]
     /\ UNCHANGED <<class, vm, vmDebugReady, image>>

(* handleSingleStep() stops a thread before an instruction.                *)
SingleStep(t, l) ==
  /\ vm = "up" /\ vmDebugReady /\ stopped[t] = NIL /\ l \in StepLocations
  /\ stopped' = [stopped EXCEPT ![t] = [location |-> l, nextOpcode |-> Token(t, l)]]
  /\ UNCHANGED <<class, vm, vmDebugReady, image>>

Command ==
  /\ vm = "up" /\ vmDebugReady
  /\ UNCHANGED <<class, vm, stopped>>

(* EventRequest_Set: createVmEvent(), which uses the first event that is   *)
(* free again, and installBreakpoint().  The debugger asks for one         *)
(* breakpoint at a location.                                               *)
SetBreakpoint(l) ==
  LET free == SelectInSeq(image.events, LAMBDA e : ~e.inUse)
      i == IF free = 0 THEN Len(image.events) + 1 ELSE free
      event == [inUse |-> TRUE, location |-> l, opcode |-> image.code[l].op]
  IN /\ Command /\ UNCHANGED vmDebugReady
     /\ l \in BreakLocations /\ image.code[l].op # "BREAKPOINT" /\ i <= MaxEvents
     /\ image' = [image EXCEPT !.events = IF free = 0 THEN Append(@, event)
                                          ELSE [@ EXCEPT ![i] = event],
                               !.code[l].op = "BREAKPOINT"]

(* Fault: the event stays in use.                                          *)
ClearEvent_KeepsInUse(im, i) ==
  [im EXCEPT !.code[im.events[i].location].op = im.events[i].opcode]

(* clearEvent(ep)                                                          *)
ClearEvent(im, i) ==
  [im EXCEPT !.code[im.events[i].location].op = im.events[i].opcode,
             !.events[i].inUse = FALSE]

(* EventRequest_Clear                                                      *)
ClearBreakpoint(i) ==
  /\ Command /\ UNCHANGED vmDebugReady
  /\ image.events[i].inUse
  /\ image' = ClearEvent(image, i)

(* clearAllBreakpoints() also clears the events that are not in use.       *)
ClearAllBreakpoints(im) ==
  LET cleared[i \in 0 .. Len(im.events)] ==
        IF i = 0 THEN im ELSE ClearEvent(cleared[i - 1], i)
  IN cleared[Len(im.events)]

(* EventRequest_ClearAllBreakpoints, and the end of the connection.        *)
ClearAll ==
  /\ Command
  /\ image' = ClearAllBreakpoints(image)
  /\ vmDebugReady' \in BOOLEAN

(* KVM_Cleanup()                                                           *)
Cleanup ==
  /\ vm = "up" /\ vm' = "down"
  /\ image' = FinalizeInlineCaching(IF vmDebugReady THEN ClearAllBreakpoints(image)
                                    ELSE image)
  /\ UNCHANGED <<class, vmDebugReady, stopped>>

Down == vm = "down" /\ UNCHANGED vars

-----------------------------------------------------------------------------
Init ==
  /\ class \in Hierarchies
  /\ vm = "up" /\ vmDebugReady \in BOOLEAN
  /\ image = [code |-> [l \in Locations |-> [op |-> Instruction[l],
                                             param |-> ConstantPool(l)]],
              entries |-> [i \in 0 .. INLINECACHESIZE - 1 |->
                             [contents |-> NIL, codeLoc |-> NIL,
                              origInst |-> NIL, origParam |-> NIL]],
              pointer |-> 0, full |-> FALSE, events |-> <<>>]
  /\ stopped = [t \in Threads |-> NIL]

Next ==
  \/ \E t \in Threads, l \in Locations :
       \/ InvokeVirtual(t, l) \/ InvokeVirtualFast(t, l)
       \/ InvokeInterface(t, l) \/ InvokeInterfaceFast(t, l)
       \/ ANewArray(t, l) \/ New(t, l) \/ GetField(t, l) \/ OtherFast(t, l)
       \/ HandleBreakpoint(t, l) \/ SingleStep(t, l)
  \/ \E l \in Locations : SetBreakpoint(l)
  \/ \E i \in DOMAIN image.events : ClearBreakpoint(i)
  \/ ClearAll \/ Cleanup \/ Down

Spec == Init /\ [][Next]_vars

-----------------------------------------------------------------------------
(* Properties                                                              *)

(* The opcode at l, seen through a breakpoint.                             *)
Seen(l) ==
  IF image.code[l].op # "BREAKPOINT" THEN image.code[l].op
  ELSE LET i == FindBreakEvent(image, l) IN IF i = 0 THEN NIL ELSE image.events[i].opcode

(* "The whole inline caching process is completely reversable": the bytes  *)
(* at every location are those of the class file; or fast ones for good,   *)
(* with a parameter of their own; or fast ones with a live entry that      *)
(* names this location and has the bytes of the class file.  Every live    *)
(* entry is the entry of the place it names, and none is left at the end.  *)
CodeReversible ==
  /\ \A l \in Locations :
       LET op == Seen(l)
           param == image.code[l].param
       IN \/ op = Instruction[l] /\ param = ConstantPool(l)
          \/ /\ op \in Fast(Instruction[l]) /\ ParamOf(op) # "cache"
             /\ param = <<ParamOf(op), l>>
          \/ /\ op \in Fast(Instruction[l]) /\ ParamOf(op) = "cache"
             /\ param[1] = "cache" /\ IsLive(param[2])
             /\ Entry(l).codeLoc = l
             /\ Entry(l).origInst = Instruction[l]
             /\ Entry(l).origParam = ConstantPool(l)
  /\ \A i \in DOMAIN image.entries :
       IsLive(i) => image.code[image.entries[i].codeLoc].param = <<"cache", i>>
  /\ vm = "down" => \A i \in DOMAIN image.entries : ~IsLive(i)

(* Whatever a thread is to execute next, in whatever state the cache is,   *)
(* it calls the method that the bytecode of the class file calls for this  *)
(* receiver, or creates the array of that type; and at a breakpoint it     *)
(* finds the event.                                                        *)
RightTarget(l, c) ==
  CASE Instruction[l] = "INVOKEVIRTUAL" -> LookupDynamicMethod(c, Resolved(ClassAt[l]))
    [] Instruction[l] = "INVOKEINTERFACE" -> LookupMethod(c)
    [] OTHER -> ClassAt[l]

CallsRightMethod ==
  vm = "up" =>
    \A t \in Threads, l \in Locations :
      IsAt(t, l) =>
        IF Token(t, l) = "BREAKPOINT" THEN FindBreakEvent(image, l) # 0
        ELSE \A c \in Receivers(l) :
               /\ RightTarget(l, c) # NIL
               /\ Target(Token(t, l), l, c) = RightTarget(l, c)

(* A breakpoint the debugger has set and not cleared is in the code, and   *)
(* nothing else is, however often the opcode under it was rewritten.       *)
BreakpointsArmed ==
  \A l \in Locations :
    (image.code[l].op = "BREAKPOINT")
      <=> \E i \in DOMAIN image.events : image.events[i].inUse /\ image.events[i].location = l
==============================================================================
