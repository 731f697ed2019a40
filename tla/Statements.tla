----------------------------- MODULE Statements -----------------------------
(***************************************************************************)
(* Statements in the compiler (parser.c): loops, switch, if, break,        *)
(* continue and return.  The compiler emits code in one pass, patches      *)
(* forward jumps when it learns where they go, deletes code under constant *)
(* conditions, and counts locals to know what a jump has to pop.  One      *)
(* behaviour compiles one function body, statement by statement.  Programs *)
(* with a compile error are left out.                                      *)
(***************************************************************************)
EXTENDS SequencesExt, Integers

CONSTANTS
  Avoid,      (* bound: kinds of program left out, by name; see each use   *)
  MaxStms,    (* bound: statements, declarations and case labels           *)
  MaxNest     (* bound: nesting of statements                              *)

Kinds == {"switch_local", "switch_match", "last_case", "for_jump",
          "dead_break", "else_return", "stale_scope"}

ASSUME StatementsAssumption ==
  Avoid \subseteq Kinds /\ MaxStms \in Nat /\ MaxNest \in Nat

VARIABLES
  code,         (* the instructions emitted                                *)
  locals,       (* F->locals.len; slot 0 is the function itself            *)
  scopes,       (* the chain F->S, innermost last                          *)
  lstart,       (* F->cflow.innerlstart, or -1                             *)
  ldepth,       (* F->cflow.innerldepth                                    *)
  breaks,       (* F->cflow.breaks: the jumps each list waits to patch     *)
  gotret,       (* F->fn->gotret: was the last instruction OP_RET?         *)
  cs,           (* the C functions running, with their local variables     *)
  pc,           (* parse a statement, return to the caller, or done        *)
  stms          (* statements so far                                       *)

cflow == <<lstart, ldepth, breaks>>
vars  == <<code, locals, scopes, cflow, gotret, cs, pc, stms>>

(* An instruction: its count or expected stack height n, its jump target.  *)
Ins(op, n) == [op |-> op, n |-> n, to |-> 0]
Loop(to)   == [op |-> "loop", n |-> 0, to |-> to]
Jump       == Ins("jmp", 0)
JumpIfNot  == Ins("jif", 0)
Here       == Len(code) + 1
Depth      == Len(scopes)
Scope(loop, switch, g) ==
  [localc |-> locals, isloop |-> loop, isswitch |-> switch, isgloop |-> g]

(* CODEPOP *)
Pops(n) == IF n > 0 THEN <<Ins("pop", n)>> ELSE <<>>

(* patchjmp and patchbreaklist: the jumps go to the end of the code c.     *)
Patch(c, S) == [i \in DOMAIN c |-> IF i \in S THEN [c[i] EXCEPT !.to = Len(c) + 1]
                                   ELSE c[i]]
(* Mutant: patchbreaklist is not called.                                   *)
ForgetBreaks(c) == c
PatchBreaks(c)  == Patch(c, ToSet(Last(breaks)))

(* startscope does not set isgloop, which is read from loop scopes: it is  *)
(* whatever the memory held.                                               *)
Garbage == IF "stale_scope" \in Avoid THEN {FALSE} ELSE BOOLEAN

Top      == Last(cs)
Switches == Cardinality({i \in DOMAIN scopes : scopes[i].isswitch})
(* A new local's slot, and the stack at a statement that uses variables.   *)
Var == Ins("var", locals)
Use == Ins("use", locals + Switches)

ControlFlowInit == lstart = -1 /\ ldepth = 0 /\ breaks = <<>>

Init == /\ code = <<>> /\ locals = 1 /\ gotret = FALSE
        /\ scopes = <<[localc |-> 1, isloop |-> FALSE, isswitch |-> FALSE,
                       isgloop |-> FALSE]>>
        /\ ControlFlowInit
        /\ cs = <<>> /\ pc = "stm" /\ stms = 0

(* Can a statement begin here?  A switch wants a label first.              *)
Parse == /\ pc = "stm" /\ stms < MaxStms
         /\ cs # <<>> /\ Top.stm = "switch" => Top.state # "none"
         /\ stms' = stms + 1
Enter(f) == Len(cs) < MaxNest /\ cs' = Append(cs, f) /\ pc' = "stm"

(* A statement ends: blocks, switches and the body take the next one.      *)
After(c) == IF c = <<>> THEN "stm"
            ELSE IF Last(c).stm \in {"block", "switch"} THEN "stm" ELSE "end"
Finish == pc' = After(cs) /\ UNCHANGED cs
Leave  == pc' = After(Front(cs)) /\ cs' = Front(cs)
----------------------------------------------------------------------------
(* exprstm.  A call ends in OP_POP, an assignment may end in an            *)
(* instruction that leaves gotret alone.                                   *)
Exprstm == /\ Parse /\ Finish
           /\ code' = Append(code, Use)
           /\ gotret' \in {gotret, FALSE}
           /\ UNCHANGED <<locals, scopes, cflow>>

(* vardec in a block or the body, below the global scope.                  *)
Vardec == /\ Parse
          /\ cs # <<>> => Top.stm = "block"
          /\ "switch_local" \in Avoid => Switches = 0
          /\ code' = Append(code, Var)
          /\ locals' = locals + 1
          /\ gotret' \in {gotret, FALSE}
          /\ Finish
          /\ UNCHANGED <<scopes, cflow>>

(* endscope, for locals no closure has captured (see Scopes).              *)
ScopePops == Pops(locals - Last(scopes).localc)
EndScope  == /\ scopes' = Front(scopes)
             /\ locals' = Last(scopes).localc
             /\ gotret' = FALSE

Block == /\ Parse /\ Enter([stm |-> "block"])
         /\ scopes' = Append(scopes, Scope(FALSE, FALSE, FALSE))
         /\ UNCHANGED <<code, locals, cflow, gotret>>

EndBlock == /\ pc = "stm" /\ cs # <<>> /\ Top.stm = "block"
            /\ code' = code \o ScopePops
            /\ EndScope /\ Leave
            /\ UNCHANGED <<cflow, stms>>

(* returnstm: after another return the code is dropped again.              *)
Returnstm == /\ Parse /\ Finish
             /\ "else_return" \in Avoid /\ cs # <<>> /\ Top.stm = "if" =>
                  Top.branch # "else"
             /\ code' = IF gotret THEN code ELSE Append(code, Ins("ret", 0))
             /\ gotret' = TRUE
             /\ UNCHANGED <<locals, scopes, cflow>>

(* inwhat: the innermost loop or switch, 0 if there is none; loopscope.    *)
InWhat    == SelectLastInSeq(scopes, LAMBDA s : s.isloop \/ s.isswitch)
LoopScope == SelectLastInSeq(scopes, LAMBDA s : s.isloop)

(* Mutant: the values of the switches in between are not popped.           *)
NoSwitches == 0
SwitchCnt  == Cardinality({i \in DOMAIN scopes : i > ldepth /\ scopes[i].isswitch})

(* The statement around the current one that is a loop or a switch.        *)
Frame(k) == SelectLastInSeq(cs, LAMBDA f : f.stm \in k)
Loops    == {"while", "for", "foreach", "loop"}
ForVar   == Frame(Loops) # 0 /\ cs[Frame(Loops)].stm = "for" /\ cs[Frame(Loops)].var

(* breakstm pops everything since its loop or switch began, and its value. *)
Breakstm ==
  LET s == scopes[InWhat]
      n == (IF s.isswitch THEN 1 ELSE 0) + locals - s.localc
  IN  /\ Parse /\ InWhat # 0 /\ Finish
      /\ "for_jump" \in Avoid => s.isswitch \/ ~ForVar
      /\ "dead_break" \in Avoid =>
           \A i \in (Frame(Loops \cup {"switch"}) + 1)..Len(cs) :
             cs[i].stm = "if" => cs[i].cond # "false"
      /\ code' = code \o Pops(n) \o <<Ins("break", 0)>>
      /\ breaks' = Append(Front(breaks), Append(Last(breaks), Len(code') ))
      /\ gotret' = IF n = 1 THEN FALSE ELSE gotret
      /\ UNCHANGED <<locals, scopes, lstart, ldepth>>

(* continuestm keeps the three hidden variables of a foreach loop.         *)
Continuestm ==
  LET s == scopes[LoopScope]
      n == locals - (IF s.isgloop THEN 3 ELSE 0) - s.localc + SwitchCnt
  IN  /\ Parse /\ lstart # -1 /\ Finish
      /\ "for_jump" \in Avoid => ~ForVar
      /\ code' = code \o Pops(n) \o <<Loop(lstart)>>
      /\ gotret' = FALSE
      /\ UNCHANGED <<locals, scopes, cflow>>
----------------------------------------------------------------------------
(* A condition: computed, or a constant, whose code is removed at once.    *)
Conds   == {"var", "true", "false"}
Test(c) == IF c = "var" THEN <<Ins("push", 1), JumpIfNot>> ELSE <<>>
Tested(c, n) == IF c = "var" THEN n + 2 ELSE 0      (* where its jump is   *)

(* A frame of ifstm, with savecontext; restorecontext, for the code.       *)
IfFrame(c) == [stm |-> "if", branch |-> "then", cond |-> c,
               jump |-> Tested(c, Len(code)), saved |-> Len(code), locals |-> locals]
SavedCode(f) == SubSeq(code, 1, f.saved)

If(c) == /\ Parse /\ Enter(IfFrame(c))
         /\ code' = code \o Test(c)
         /\ UNCHANGED <<locals, scopes, cflow, gotret>>

(* Mutant: a return in the first branch is taken to end the function.      *)
KeepReturn == gotret
ThenReturn == FALSE

(* The middle of ifstm: the first branch is deleted, or a jump around the  *)
(* second one follows it.                                                  *)
Then(else) ==
  /\ pc = "end" /\ Top.stm = "if" /\ Top.branch = "then"
  /\ code' = IF Top.cond = "false" THEN SavedCode(Top)
             ELSE Patch(Append(code, Jump), {Top.jump})
  /\ locals' = IF Top.cond = "false" THEN Top.locals ELSE locals
  /\ gotret' = ThenReturn
  /\ IF else
     THEN /\ pc' = "stm"
          /\ cs' = Append(Front(cs), [Top EXCEPT !.branch = "else", !.jump = Here])
     ELSE Leave
  /\ UNCHANGED <<scopes, cflow, stms>>

EndIf == /\ pc = "end" /\ Top.stm = "if" /\ Top.branch = "else"
         /\ code' = IF Top.cond = "false" THEN code ELSE Patch(code, {Top.jump})
         /\ Leave
         /\ UNCHANGED <<locals, scopes, cflow, gotret, stms>>

(* startscope, startbreaklist and startloop of a loop that starts at s.    *)
StartLoop(s, scope) ==
  /\ scopes' = Append(scopes, scope)
  /\ lstart' = s /\ ldepth' = Depth + 1
  /\ breaks' = Append(breaks, <<>>)

LoopFrame(k, c, n) ==
  [stm |-> k, cond |-> c, lstart |-> lstart, ldepth |-> ldepth,
   saved |-> n, jump |-> Tested(c, n), var |-> FALSE]

(* endloop and endbreaklist, and a mutant that forgets the latter.         *)
OuterDepth(f) == f.ldepth
LeaveBreaks   == breaks
OuterBreaks   == Front(breaks)
EndLoop == /\ lstart' = Top.lstart /\ ldepth' = OuterDepth(Top)
           /\ breaks' = OuterBreaks

While(c) == /\ Parse /\ Enter(LoopFrame("while", c, Len(code)))
            /\ \E g \in Garbage : StartLoop(Here, Scope(TRUE, FALSE, g))
            /\ code' = code \o Test(c)
            /\ UNCHANGED <<locals, gotret>>

(* The tail of whilestm: endscope, then the jump back.                     *)
EndWhile == /\ pc = "end" /\ Top.stm = "while"
            /\ code' = IF Top.cond = "false" THEN SavedCode(Top)
                       ELSE PatchBreaks(Patch(code \o ScopePops \o <<Loop(lstart)>>,
                                              {Top.jump}))
            /\ EndScope /\ EndLoop /\ Leave
            /\ UNCHANGED stms

(* forstm: the increment is code before the body, jumped over on the way   *)
(* in, unless the condition is constant or absent.                         *)
For(v, c, incr) ==
  LET init == IF v THEN Append(code, Var) ELSE code
      n    == Len(init)
      use  == Ins("use", locals + (IF v THEN 1 ELSE 0) + Switches)
      step == c = "var" /\ incr
  IN  /\ Parse
      /\ v /\ "switch_local" \in Avoid => Switches = 0
      /\ Enter([LoopFrame("for", c, n) EXCEPT !.var = v])
      /\ \E g \in Garbage :
           StartLoop(IF step THEN n + 4 ELSE n + 1, Scope(TRUE, FALSE, g))
      /\ locals' = IF v THEN locals + 1 ELSE locals
      /\ code' = init \o Test(c) \o
           (IF step THEN <<[Jump EXCEPT !.to = n + 6], use, Loop(n + 1)>>
            ELSE IF incr THEN <<use>> ELSE <<>>)
      /\ gotret' = (gotret /\ ~step)

(* The tail of forstm: the jump back and the patches, then endscope.       *)
EndFor == LET body == IF Top.cond = "false" THEN SavedCode(Top)
                      ELSE PatchBreaks(Patch(Append(code, Loop(lstart)), {Top.jump}))
          IN  /\ pc = "end" /\ Top.stm = "for"
              /\ code' = body \o ScopePops
              /\ EndScope /\ EndLoop /\ Leave
              /\ UNCHANGED stms

(* foreachstm: three hidden variables and one declared one, all made known *)
(* before the iterator is called by OP_FOREACH_PREP.                       *)
Foreach ==
  LET n == Len(code) + 1
  IN  /\ Parse
      /\ "switch_local" \in Avoid => Switches = 0
      /\ Enter([LoopFrame("foreach", "none", n) EXCEPT !.jump = n + 3])
      /\ StartLoop(n + 1, Scope(TRUE, FALSE, TRUE))
      /\ locals' = locals + 4
      /\ code' = code \o <<Ins("push", 3), Ins("push", 1), Ins("each", 0), Jump>>
      /\ UNCHANGED gotret

EndForeach ==
  /\ pc = "end" /\ Top.stm = "foreach"
  /\ code' = PatchBreaks(Patch(code \o Pops(1) \o <<Loop(lstart)>>, {Top.jump})
                         \o ScopePops)
  /\ EndScope /\ EndLoop /\ Leave
  /\ UNCHANGED stms

LoopStm == /\ Parse /\ Enter(LoopFrame("loop", "true", Len(code)))
           /\ \E g \in Garbage : StartLoop(Here, Scope(TRUE, FALSE, g))
           /\ UNCHANGED <<code, locals, gotret>>

EndLoopStm == /\ pc = "end" /\ Top.stm = "loop"
              /\ code' = PatchBreaks(code \o <<Loop(lstart)>> \o ScopePops)
              /\ EndScope /\ EndLoop /\ Leave
              /\ UNCHANGED stms
----------------------------------------------------------------------------
(* switchstm; its value may be a constant.                                 *)
SwitchFrame == [stm |-> "switch", state |-> "none", patch |-> 0, dflt |-> FALSE,
                matched |-> FALSE, saved |-> Len(code), locals |-> locals]
Switch == /\ Parse /\ Enter(SwitchFrame)
          /\ scopes' = Append(scopes, Scope(FALSE, TRUE, FALSE))
          /\ breaks' = Append(breaks, <<>>)
          /\ code' = Append(code, Ins("push", 1))
          /\ UNCHANGED <<locals, lstart, ldepth, gotret>>

(* A label: code for the case before ends in a jump over the test of this  *)
(* one, and a failed test of that case comes here.                         *)
Label(test, f) ==
  LET fall == f.state # "none"
      c    == IF fall THEN Patch(Append(code, Jump),
                                 IF f.state = "case" THEN {f.patch} ELSE {})
              ELSE code
  IN  Patch(c \o test, IF fall THEN {Here} ELSE {})

AtLabel == /\ pc = "stm" /\ cs # <<>> /\ Top.stm = "switch" /\ stms < MaxStms
           /\ stms' = stms + 1 /\ pc' = "stm"
           /\ gotret' = FALSE
           /\ UNCHANGED <<scopes, cflow>>

(* A case.  When its constant equals the value, also a constant, the code  *)
(* since before the value is deleted, the value's own included.            *)
Matches == IF "switch_match" \in Avoid \/ Top.matched THEN {FALSE} ELSE BOOLEAN

Case == /\ AtLabel
        /\ \E m \in Matches :
             /\ code' = IF m THEN SavedCode(Top) ELSE Label(Test("var"), Top)
             /\ locals' = IF m THEN Top.locals ELSE locals
             /\ cs' = Append(Front(cs),
                        [Top EXCEPT !.state = IF m THEN "match" ELSE "case",
                                    !.patch = IF m THEN @ ELSE Len(code'),
                                    !.matched = @ \/ m])

Default == /\ AtLabel /\ ~Top.dflt
           /\ code' = Label(<<>>, Top)
           /\ cs' = Append(Front(cs), [Top EXCEPT !.state = "default", !.dflt = TRUE])
           /\ UNCHANGED locals

EndSwitch == /\ pc = "stm" /\ cs # <<>> /\ Top.stm = "switch"
             /\ "last_case" \in Avoid => Top.state # "case"
             /\ code' = PatchBreaks(code \o ScopePops \o Pops(1))
             /\ breaks' = OuterBreaks
             /\ EndScope /\ Leave
             /\ UNCHANGED <<lstart, ldepth, stms>>

(* compile_end: the implicit return.                                       *)
CompileEnd == /\ pc = "stm" /\ cs = <<>>
              /\ code' = IF gotret THEN code ELSE Append(code, Ins("ret", 0))
              /\ pc' = "done"
              /\ UNCHANGED <<locals, scopes, cflow, gotret, cs, stms>>

Next == \/ Exprstm \/ Vardec \/ Returnstm \/ Breakstm \/ Continuestm
        \/ Block \/ EndBlock
        \/ \E c \in Conds : If(c) \/ While(c)
        \/ \E else \in BOOLEAN : Then(else)
        \/ \E v, incr \in BOOLEAN, c \in Conds : For(v, c, incr)
        \/ EndIf \/ EndWhile \/ EndFor
        \/ Foreach \/ EndForeach \/ LoopStm \/ EndLoopStm
        \/ Switch \/ Case \/ Default \/ EndSwitch
        \/ CompileEnd

Spec == Init /\ [][Next]_vars
----------------------------------------------------------------------------
(* Where control can go from instruction i, and the stack height after it. *)
Succ(i) == LET c == code[i]
               t == IF c.to = 0 THEN i + 1 ELSE c.to
           IN  CASE c.op \in {"jmp", "break", "loop"} -> {t}
                 [] c.op = "jif"  -> {i + 1, t}
                 [] c.op = "each" -> {i + 1, i + 2}
                 [] c.op = "ret"  -> {}
                 [] OTHER         -> {i + 1}
Height(i, h) == CASE code[i].op = "push" -> h + code[i].n
                  [] code[i].op = "var"  -> h + 1
                  [] code[i].op = "pop"  -> h - code[i].n
                  [] code[i].op = "jif"  -> h - 1
                  [] OTHER               -> h

(* The heights with which control can reach each point.  One round goes    *)
(* through the code from top to bottom; what it takes back to the start of *)
(* a loop is for the next round.                                           *)
From(H, S, k) == UNION {{Height(i, h) : h \in H[i]} : i \in {j \in S : k \in Succ(j)}}
LoopOps == {i \in DOMAIN code : code[i].op = "loop"}

Round(G) == LET H[k \in 1..Here] == (IF k = 1 THEN {1} ELSE {})
                  \cup From(H, 1..(k - 1), k) \cup From(G, LoopOps, k)
            IN  H
Heights ==
  LET R[n \in 0..(Cardinality(LoopOps) + 1)] ==
        Round(IF n = 0 THEN [k \in 1..Here |-> {}] ELSE R[n - 1])
  IN  R[Cardinality(LoopOps) + 1]

JumpOps == {"jmp", "jif", "break"}

(* The compiler's bookkeeping is restored by every statement: the loop that*)
(* continue goes to and the lists of breaks belong to the open scopes.     *)
TypeOK ==
  /\ \A i \in DOMAIN code : code[i].to \in 0..Here /\ code[i].n \in Nat
  /\ locals \in Nat \ {0} /\ gotret \in BOOLEAN
  /\ \A s \in ToSet(scopes) : s.localc \in 1..locals
  /\ lstart \in {-1} \cup 1..Here
  /\ ldepth \in 0..Depth /\ (ldepth # 0 => scopes[ldepth].isloop)
  /\ Len(breaks) = Cardinality({i \in DOMAIN scopes :
                                  scopes[i].isloop \/ scopes[i].isswitch})
  /\ pc \in {"stm", "end", "done"}

(* On every path through a finished function a variable is at the slot the *)
(* compiler computed: all ways to reach an instruction, by break, continue,*)
(* a failed test or a loop's way back, leave the same stack.               *)
StackBalanced ==
  pc = "done" =>
    LET H == Heights
    IN  \A i \in DOMAIN code :
          /\ Cardinality(H[i]) <= 1
          /\ code[i].op \in {"var", "use"} => H[i] \subseteq {code[i].n}
          /\ code[i].op = "loop" => H[i] \subseteq H[code[i].to]

(* "Jump to patch if case expression does not match" (SwitchState.patch):  *)
(* a finished function has no test whose failure leads into the code it    *)
(* guards, and no break that just goes on.                                 *)
AllPatched ==
  pc = "done" => \A i \in DOMAIN code : code[i].op \in {"jif", "break"} => code[i].to # 0

(* Every jump still to be patched is in the code: deleting code under a    *)
(* constant condition leaves no note of a jump that is gone, which patchjmp*)
(* would write over another instruction.                                   *)
NoStalePatch ==
  LET waiting == (UNION {ToSet(b) : b \in ToSet(breaks)})
                 \cup {f.jump : f \in {g \in ToSet(cs) : g.stm \notin {"block", "switch"}
                                                          /\ g.cond # "false"}}
                 \cup {f.patch : f \in {g \in ToSet(cs) : g.stm = "switch"
                                                           /\ g.state = "case"}}
  IN  \A i \in waiting \ {0} : i \in DOMAIN code /\ code[i].op \in JumpOps

(* "End compilation of the function and emit return instruction": control  *)
(* never runs off the end of a function, though compile_end and returnstm  *)
(* leave a return out when they take the code before it to have returned.  *)
AlwaysReturns == pc = "done" => Heights[Here] = {}
============================================================================
