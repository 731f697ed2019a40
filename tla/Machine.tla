------------------------------ MODULE Machine ------------------------------
(***************************************************************************)
(* Calls, returns and closures in the bytecode interpreter (vmachine.c).   *)
(* A captured variable stays in its stack slot, and an "open" upvalue      *)
(* points at it, until the slot goes away; then the value moves into the   *)
(* upvalue.  One action per instruction; the loops of OP_CLOSURE and       *)
(* OP_RET are stepped, because the collector can run inside them.  The     *)
(* instructions come in the order the compiler emits them.                 *)
(***************************************************************************)
EXTENDS SequencesExt, Integers

CONSTANTS
  Clo, Upval,     (* heap cells for OClosure and OUpvalue objects          *)
  Data, Nil,      (* values outside the heap, nil among them               *)
  Main, None,
  Arity,          (* parameters of each closure                            *)
  MaxStack,       (* bound on the stack (VM_STACK_MAX)                     *)
  MaxFrames,      (* VM_FRAMES_MAX                                         *)
  Wants,          (* result counts closures are called with, 0 for all     *)
  TempInit        (* ARRAY_INITIAL_SIZE, for vm->temp                      *)

Value == Data \cup Clo
Unallocated == {None}     (* instead of the upvalues of a closure *)

ASSUME MachineAssumption ==
  /\ Nil \in Data /\ Main \in Clo
  /\ None \notin Value \cup Upval
  /\ Data \cap (Clo \cup Upval) = {} /\ Clo \cap Upval = {}
  /\ MaxStack \in Nat /\ MaxFrames \in Nat \ {0} /\ TempInit \in Nat \ {0}
  /\ Arity \in [Clo -> Nat] /\ Wants \subseteq Nat

VARIABLES
  stack,      (* vm->stack up to vm->sp                                    *)
  frames,     (* vm->frames: slot of the callee, expected results, closure *)
  callstart,  (* vm->callstart: stack heights where arguments begin        *)
  retstart,   (* vm->retstart: stack heights where results begin           *)
  temp, tcap, (* vm->temp and its capacity                                 *)
  open,       (* vm->open_upvals, from its head                            *)
  loc,        (* slot an open upvalue points at; 0 once it is closed       *)
  closed,     (* closed.value of an upvalue; None: cell not allocated      *)
  ups,        (* upvals of a closure, or Unallocated                       *)
  pc          (* where in an instruction the interpreter is                *)

vars == <<stack, frames, callstart, retstart, temp, tcap, open, loc, closed, ups, pc>>

Top      == Last(stack)
Frame    == Last(frames)
Popn(n)  == SubSeq(stack, 1, Len(stack) - n)
Room     == Len(stack) < MaxStack
Deref(u) == IF loc[u] = 0 THEN closed[u] ELSE stack[loc[u]]

OpenAt(i) == {u \in ToSet(open) : loc[u] = i}

(* The marks the compiler has left open in the running function: it emits  *)
(* nothing that would pop the slots below them.                            *)
Calling   == callstart # <<>> /\ Last(callstart) > Frame.base
Returning == retstart # <<>> /\ Last(retstart) >= Frame.base
Floor     == LET hs == {Frame.base}
                   \cup (IF Calling THEN {Last(callstart)} ELSE {})
                   \cup (IF Returning THEN {Last(retstart)} ELSE {})
             IN  CHOOSE m \in hs : \A n \in hs : n <= m

(* A slot that holds a variable, not a callee, an argument or a result.    *)
IsVariable(i) ==
  /\ i \in 1..Len(stack) /\ i > Frame.base
  /\ \A m \in ToSet(callstart) : m > Frame.base => i < m
  /\ \A m \in ToSet(retstart) : m >= Frame.base => i <= m

Init ==
  /\ stack = <<>> /\ callstart = <<>> /\ retstart = <<>> /\ temp = <<>>
  /\ tcap = 0 /\ open = <<>>
  /\ frames = <<[base |-> 0, retcnt |-> 1, clo |-> Main]>>
  /\ loc = [u \in Upval |-> 0]
  /\ closed = [u \in Upval |-> None]
  /\ ups = [c \in Clo |-> IF c = Main THEN {} ELSE Unallocated]
  /\ pc = "run"

heap  == <<closed, ups>>
marks == <<callstart, retstart>>
----------------------------------------------------------------------------
(* OP_CONST, OP_NIL and the other instructions that push a value.          *)
Const(v) == /\ pc = "run" /\ Room
            /\ stack' = Append(stack, v)
            /\ UNCHANGED <<frames, marks, temp, tcap, open, loc, heap, pc>>

(* OP_GET_LOCAL. *)
GetLocal(i) == /\ pc = "run" /\ Room /\ IsVariable(i)
               /\ stack' = Append(stack, stack[i])
               /\ UNCHANGED <<frames, marks, temp, tcap, open, loc, heap, pc>>

(* OP_SET_LOCAL pops the value it assigns.                                 *)
SetLocal(i) == /\ pc = "run" /\ IsVariable(i)
               /\ Len(stack) - 1 >= Floor /\ i < Len(stack)
               /\ OpenAt(Len(stack)) = {}
               /\ stack' = [Popn(1) EXCEPT ![i] = Top]
               /\ UNCHANGED <<frames, marks, temp, tcap, open, loc, heap, pc>>

(* OP_POP and OP_POPN, for slots no closure has captured.                  *)
Pop(n) == /\ pc = "run" /\ Len(stack) - n >= Floor
          /\ \A i \in (Len(stack) - n + 1)..Len(stack) : OpenAt(i) = {}
          /\ stack' = Popn(n)
          /\ UNCHANGED <<frames, marks, temp, tcap, open, loc, heap, pc>>

(* The first n of the list are the upvalues that point at or above a slot. *)
AtOrAbove(n, slot) ==
  /\ \A j \in 1..n : loc[open[j]] >= slot
  /\ n < Len(open) => loc[open[n + 1]] < slot

(* Mutant: closeupval compares with > and misses the slot itself.          *)
CloseAbove(last) ==
  \E n \in 0..Len(open) :
    LET S == {open[i] : i \in 1..n} IN
    /\ AtOrAbove(n, last + 1)
    /\ closed' = [u \in Upval |-> IF u \in S THEN stack[loc[u]] ELSE closed[u]]
    /\ loc' = [u \in Upval |-> IF u \in S THEN 0 ELSE loc[u]]
    /\ open' = SubSeq(open, n + 1, Len(open))

(* closeupval: those upvalues take over the values of their slots.         *)
CloseUpval(last) ==
  \E n \in 0..Len(open) :
    LET S == {open[i] : i \in 1..n} IN
    /\ AtOrAbove(n, last)
    /\ closed' = [u \in Upval |-> IF u \in S THEN stack[loc[u]] ELSE closed[u]]
    /\ loc' = [u \in Upval |-> IF u \in S THEN 0 ELSE loc[u]]
    /\ open' = SubSeq(open, n + 1, Len(open))

(* OP_CLOSE_UPVAL and OP_CLOSE_UPVALN, for slots that are all captured.    *)
Close(n) == /\ pc = "run" /\ Len(stack) - n >= Floor
            /\ \A i \in (Len(stack) - n + 1)..Len(stack) : OpenAt(i) # {}
            /\ CloseUpval(Len(stack) - n + 1)
            /\ stack' = Popn(n)
            /\ UNCHANGED <<frames, marks, temp, tcap, ups, pc>>

GetUpvalue(u) == /\ pc = "run" /\ Room /\ u \in ups[Frame.clo]
                 /\ stack' = Append(stack, Deref(u))
                 /\ UNCHANGED <<frames, marks, temp, tcap, open, loc, heap, pc>>

(* OP_SET_UPVALUE: the value goes where the upvalue points.                *)
SetUpvalue(u) ==
  /\ pc = "run" /\ u \in ups[Frame.clo]
  /\ Len(stack) - 1 >= Floor /\ OpenAt(Len(stack)) = {}
  /\ IF loc[u] = 0
     THEN stack' = Popn(1) /\ closed' = [closed EXCEPT ![u] = Top]
     ELSE stack' = [Popn(1) EXCEPT ![loc[u]] = Top] /\ UNCHANGED closed
  /\ UNCHANGED <<frames, marks, temp, tcap, open, loc, ups, pc>>

(* OP_CLOSURE: the new closure is pushed, then captures one by one.        *)
Closure(c) == /\ pc = "run" /\ Room /\ ups[c] = Unallocated
              /\ ups' = [ups EXCEPT ![c] = {}]
              /\ stack' = Append(stack, c)
              /\ pc' = "capture"
              /\ UNCHANGED <<frames, marks, temp, tcap, open, loc, closed>>

(* OUpvalue_new, linked behind the first n upvalues.                       *)
LinkUpval(n, i, u) ==
  /\ closed[u] = None
  /\ closed' = [closed EXCEPT ![u] = Nil]   (* EMPTY_VAL *)
  /\ loc' = [loc EXCEPT ![u] = i]
  /\ open' = Append(SubSeq(open, 1, n), u) \o SubSeq(open, n + 1, Len(open))

(* Mutants: captureupval links at the head, or always links a new upvalue. *)
CaptureAtHead(i, u) ==
  IF OpenAt(i) # {} THEN u \in OpenAt(i) /\ UNCHANGED <<open, loc, closed>>
  ELSE LinkUpval(0, i, u)

CaptureFresh(i, u) ==
  \E n \in 0..Len(open) : AtOrAbove(n, i + 1) /\ LinkUpval(n, i, u)

(* captureupval: find the upvalue of the slot, or link a new one in front  *)
(* of the first that points lower.                                         *)
CaptureUpval(i, u) ==
  \E n \in 0..Len(open) :
    /\ AtOrAbove(n, i + 1)
    /\ IF n < Len(open) /\ loc[open[n + 1]] = i
       THEN u = open[n + 1] /\ UNCHANGED <<open, loc, closed>>
       ELSE LinkUpval(n, i, u)

CaptureLocal(i, u) == /\ pc = "capture" /\ IsVariable(i)
                      /\ CaptureUpval(i, u)
                      /\ ups' = [ups EXCEPT ![Top] = @ \cup {u}]
                      /\ UNCHANGED <<stack, frames, marks, temp, tcap, pc>>

CaptureOuter(u) == /\ pc = "capture" /\ u \in ups[Frame.clo]
                   /\ ups' = [ups EXCEPT ![Top] = @ \cup {u}]
                   /\ UNCHANGED <<stack, frames, marks, temp, tcap, open, loc, closed, pc>>

CaptureEnd == /\ pc = "capture" /\ pc' = "run"
              /\ UNCHANGED <<stack, frames, marks, temp, tcap, open, loc, heap>>
----------------------------------------------------------------------------
(* OP_CALLSTART: the callee is on top, its arguments follow.               *)
CallStart == /\ pc = "run" /\ Len(stack) > Floor /\ OpenAt(Len(stack)) = {}
             /\ callstart' = Append(callstart, Len(stack))
             /\ UNCHANGED <<stack, frames, retstart, temp, tcap, open, loc, heap, pc>>

Argc   == Len(stack) - Last(callstart)
Callee == stack[Last(callstart)]

(* OP_CALL of a closure: fncall pushes a frame.                            *)
Call(w) ==
  /\ pc = "run" /\ Calling /\ w \in Wants
  /\ Callee \in Clo /\ Argc = Arity[Callee] /\ Len(frames) < MaxFrames
  /\ callstart' = Front(callstart)
  /\ frames' = Append(frames,
                 [base |-> Len(stack) - Argc, retcnt |-> w, clo |-> Callee])
  /\ UNCHANGED <<stack, retstart, temp, tcap, open, loc, heap, pc>>

(* runerror: not callable, wrong number of arguments, too many frames.     *)
(* The stack is reset and run() returns.  See Calls for all other callees. *)
RunError == /\ pc = "run" /\ Calling
            /\ Callee \in Clo => Argc # Arity[Callee] \/ Len(frames) = MaxFrames
            /\ stack' = <<>> /\ callstart' = Front(callstart)
            /\ pc' = "error"
            /\ UNCHANGED <<frames, retstart, temp, tcap, open, loc, heap>>

(* OP_RETSTART begins a return statement.                                  *)
RetStart == /\ pc = "run" /\ ~Calling /\ ~Returning
            /\ retstart' = Append(retstart, Len(stack))
            /\ UNCHANGED <<stack, frames, callstart, temp, tcap, open, loc, heap, pc>>

(* OP_RET makes the results on the stack as many as the caller expects,    *)
Ret == LET got  == Len(stack) - Last(retstart)
           want == IF Frame.retcnt = 0 THEN got ELSE Frame.retcnt
       IN  /\ pc = "run" /\ Returning /\ ~Calling /\ got > 0
           /\ Last(retstart) + want <= MaxStack
           /\ stack' = SubSeq(stack, 1, Last(retstart)) \o
                [i \in 1..want |-> IF i <= got THEN stack[Last(retstart) + i] ELSE Nil]
           /\ frames' = [frames EXCEPT ![Len(frames)].retcnt = want]
           /\ retstart' = Front(retstart)
           /\ pc' = "save"
           /\ UNCHANGED <<callstart, temp, tcap, open, loc, heap>>

(* moves them to vm->temp, which may have to grow,                         *)
Left == Frame.retcnt - Len(temp)

Grow == /\ pc = "save" /\ Left > 0 /\ Len(temp) = tcap
        /\ tcap' = IF tcap < TempInit THEN TempInit ELSE 2 * tcap
        /\ UNCHANGED <<stack, frames, marks, temp, open, loc, heap, pc>>

Save == /\ pc = "save" /\ Left > 0 /\ Len(temp) < tcap
        /\ temp' = Append(temp, Top)
        /\ stack' = Popn(1)
        /\ UNCHANGED <<frames, marks, tcap, open, loc, heap, pc>>

(* closes the captured variables of the frame and drops it,                *)
Leave == /\ pc = "save" /\ Left = 0
         /\ CloseUpval(Frame.base)
         /\ frames' = Front(frames)
         /\ IF Len(frames) = 1
            THEN stack' = <<>> /\ pc' = "done"
            ELSE stack' = SubSeq(stack, 1, Frame.base - 1) /\ pc' = "restore"
         /\ UNCHANGED <<marks, temp, tcap, ups>>

(* and pushes the results where the callee was.                            *)
Restore == /\ pc = "restore"
           /\ stack' = stack \o [i \in 1..Len(temp) |-> temp[Len(temp) + 1 - i]]
           /\ temp' = <<>> /\ pc' = "run"
           /\ UNCHANGED <<frames, marks, tcap, open, loc, heap>>
----------------------------------------------------------------------------
(* Mutant: markroots without markupvalues.                                 *)
RootsNoUpvals == (Clo \cup Upval) \cap
                   (ToSet(stack) \cup {frames[i].clo : i \in DOMAIN frames})

(* markroots: the stack, the closures of the frames, the open upvalues.    *)
Roots == (Clo \cup Upval) \cap
           (ToSet(stack) \cup {frames[i].clo : i \in DOMAIN frames} \cup ToSet(open))
Follows(S) == /\ \A c \in Clo \cap S : ups[c] # Unallocated => ups[c] \subseteq S
              /\ \A u \in Upval \cap S : closed[u] \in Clo => closed[u] \in S
Live == {x \in Clo \cup Upval : \A S \in SUBSET (Clo \cup Upval) :
                                  Roots \subseteq S /\ Follows(S) => x \in S}

(* gc() may run where an instruction allocates.                            *)
Collect == /\ pc \in {"run", "capture"} \/ (pc = "save" /\ Left > 0 /\ Len(temp) = tcap)
           /\ ups' = [c \in Clo |-> IF c \in Live THEN ups[c] ELSE Unallocated]
           /\ closed' = [u \in Upval |-> IF u \in Live THEN closed[u] ELSE None]
           /\ UNCHANGED <<stack, frames, marks, temp, tcap, open, loc, pc>>
----------------------------------------------------------------------------
Next ==
  \/ \E v \in Data : Const(v)
  \/ \E i \in 1..MaxStack : GetLocal(i) \/ SetLocal(i) \/ Pop(i) \/ Close(i)
  \/ \E u \in Upval : GetUpvalue(u) \/ SetUpvalue(u) \/ CaptureOuter(u)
                       \/ \E i \in 1..MaxStack : CaptureLocal(i, u)
  \/ \E c \in Clo : Closure(c)
  \/ CaptureEnd \/ CallStart \/ RunError \/ RetStart
  \/ \E w \in Wants : Call(w)
  \/ Ret \/ Grow \/ Save \/ Leave \/ Restore \/ Collect

Spec == Init /\ [][Next]_vars
----------------------------------------------------------------------------
Slots(n) == [i \in 1..n |-> IF OpenAt(i) = {} THEN [val |-> stack[i]]
                            ELSE [box |-> CHOOSE u \in OpenAt(i) : TRUE]]
Results  == [i \in 1..Len(temp) |-> [val |-> temp[Len(temp) + 1 - i]]]

(* While OP_RET runs, the results are already where the caller wants them. *)
AbsSlots ==
  CASE pc = "save" ->
         IF Len(frames) = 1 THEN <<>>
         ELSE Slots(Frame.base - 1)
              \o [i \in 1..Left |-> [val |-> stack[Len(stack) - Left + i]]]
              \o Results
    [] pc \in {"done", "error"} -> <<>>
    [] OTHER -> Slots(Len(stack)) \o Results

AbsFrames ==
  LET fs == CASE pc = "save"  -> Front(frames)
              [] pc = "error" -> <<>>
              [] OTHER        -> frames
  IN  [i \in DOMAIN fs |->
         [base |-> fs[i].base, want |-> fs[i].retcnt, clo |-> fs[i].clo]]

AbsEnv == [c \in Clo |-> IF pc = "error" THEN Unallocated ELSE ups[c]]
AbsBox == [u \in Upval |-> IF pc = "error" \/ closed[u] = None THEN None ELSE Deref(u)]

Box == INSTANCE Boxes WITH
  slots <- AbsSlots, frames <- AbsFrames, env <- AbsEnv, box <- AbsBox

TypeOK ==
  /\ stack \in Seq(Value) /\ Len(stack) <= MaxStack
  /\ frames \in Seq([base : 0..MaxStack, retcnt : Nat, clo : Clo])
  /\ Len(frames) <= MaxFrames
  /\ callstart \in Seq(0..MaxStack) /\ retstart \in Seq(0..MaxStack)
  /\ temp \in Seq(Value) /\ tcap \in Nat /\ Len(temp) <= tcap
  /\ open \in Seq(Upval) /\ loc \in [Upval -> 0..MaxStack]
  /\ closed \in [Upval -> Value \cup {None}]
  /\ ups \in [Clo -> (SUBSET Upval) \cup {Unallocated}]
  /\ pc \in {"run", "capture", "save", "restore", "done", "error"}

(* vm->open_upvals is sorted by slot, one upvalue a slot: captureupval     *)
(* stops at the first that is not above the slot it looks for, closeupval  *)
(* at the first below.                                                     *)
OpenSorted ==
  /\ \A i, j \in DOMAIN open : i < j => loc[open[i]] > loc[open[j]]
  /\ \A u \in Upval : loc[u] # 0 <=> u \in ToSet(open)

(* No open upvalue points at a slot that is gone.                          *)
OpenOnStack == pc # "error" => \A u \in Upval : loc[u] <= Len(stack)

(* Whatever the interpreter still holds is allocated.                      *)
NoDangling ==
  LET held == ToSet(stack) \cup ToSet(temp) \cup {frames[i].clo : i \in DOMAIN frames}
              \cup {closed[u] : u \in Upval}
  IN  /\ \A c \in held \cap Clo : ups[c] # Unallocated
      /\ \A u \in ToSet(open) \cup UNION {ups[c] : c \in {d \in Clo : ups[d] # Unallocated}} :
           closed[u] # None

(* A finished call leaves its caller's variables and one value per result  *)
(* it asked for: see Boxes, which also says that everyone who captured a   *)
(* variable keeps sharing it.                                              *)
BoxSpec == Box!Spec
============================================================================
