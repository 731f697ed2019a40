---------------------------- MODULE Expressions -----------------------------
(***************************************************************************)
(* Expressions and assignments in the compiler (parser.c).  The parser is  *)
(* recursive and emits code while it reads; an Exp says what the code of   *)
(* the last expression is, so that a constant can be folded, a getter      *)
(* taken back, or a call told how many results are wanted.  One behaviour  *)
(* compiles one statement, token by token.                                 *)
(***************************************************************************)
EXTENDS SequencesExt, Integers

CONSTANTS
  Avoid,      (* bound: kinds of statement left out, by name; see each use *)
  Consts,     (* bound: the tokens of constants used                       *)
  Ops,        (* bound: the binary operators used                          *)
  MaxToks,    (* bound: operands, operators and opening brackets           *)
  MaxVars     (* bound: names in a declaration                             *)

Kinds == {"or", "and_true", "and_multi", "stale_type", "multi_assign",
          "set_index", "no_init", "index_args"}

(* Values: numbers, strings, ... are pairs of a type and a payload.        *)
Num(n) == <<"num", n>>
Str(n) == <<"str", n>>
Bool(b) == <<"bool", IF b THEN 1 ELSE 0>>
Nil    == <<"nil", 0>>
Fn     == <<"fn", 0>>      (* a function that returns its arguments        *)
Obj    == <<"obj", 0>>     (* an instance                                  *)
Prop   == Str(0)           (* the name of the field this module follows    *)

ConstVal == [c \in {"nil", "true", "0", "1", "s"} |->
               CASE c = "nil" -> Nil [] c = "true" -> Bool(TRUE)
                 [] c = "0" -> Num(0) [] c = "1" -> Num(1) [] c = "s" -> Prop]

(* The priority table; every operator here associates to the left.         *)
Priority == ("or" :> 1) @@ ("and" :> 2) @@ ("==" :> 3) @@ ("<" :> 3) @@ ("+" :> 4)
Unary    == 6

ASSUME ExpressionsAssumption ==
  /\ Avoid \subseteq Kinds /\ Consts \subseteq DOMAIN ConstVal
  /\ Ops \subseteq DOMAIN Priority
  /\ MaxToks \in Nat /\ MaxVars \in Nat \ {0}

VARIABLES
  code,         (* the instructions emitted                                *)
  consts,       (* the constants of the function                           *)
  E,            (* the Exp of the C function that runs                     *)
  cs,           (* the C functions running, with their local variables     *)
  pc,           (* what the parser expects                                 *)
  tok,          (* the next token, once it has been looked at              *)
  toks,         (* the tokens read so far                                  *)
  targets,      (* Earr: the variables an assignment sets                  *)
  stm           (* the statement: "var", "exp" or "ret", and its names     *)

vars == <<code, consts, E, cs, pc, tok, toks, targets, stm>>

Names == [x |-> 1, f |-> 2]      (* the locals and their slots             *)
Base  == 2

(* An instruction: its parameter n; where it jumps to, or an invoke's name.*)
Ins(op, n) == [op |-> op, n |-> n, to |-> 0]
Bytes(i) == CASE i.op \in {"const", "prop", "call", "invokei", "jmp", "setp", "niln"} -> 4
              [] i.op = "invoke" -> 7
              [] i.op \in {"get", "set"} -> 2
              [] OTHER -> 1

(* SINSTRUCTION_POP and the like take back a number of bytes; when these   *)
(* are not those of the last instruction, what is left is no code.         *)
Broken == Ins("broken", 0)
TakeBack(c, bytes) == IF c # <<>> /\ Bytes(Last(c)) = bytes THEN Front(c)
                      ELSE Append(c, Broken)

NoExp(set) == [type |-> "none", value |-> 0, code |-> 0, jmp |-> 0, set |-> set]

Literals == {"false", "nil", "true"}
ConstTypes == Literals \cup {"string", "number"}
VarTypes   == {"local", "indexed"}
CallTypes  == {"call", "invokei", "invoke"}  (* ethasmulret, which also    *)
                                             (* holds of varargs           *)
ExpTypes   == ConstTypes \cup VarTypes \cup CallTypes \cup {"none", "jmp", "expr"}

Top == Last(cs)
Sub(limit) == [fn |-> "sub", limit |-> limit, un |-> "none", opr |-> "none",
               E1 |-> NoExp(FALSE)]
List(n)  == [fn |-> "list", left |-> n]
Target   == [fn |-> "target"]
Group    == [fn |-> "group"]
Args(k)  == [fn |-> "args", kind |-> k, name |-> Len(consts) + 1]
Index(e) == [fn |-> "index", E1 |-> e]

Unlimited == 2 * MaxToks      (* BYTECODE_MAX: no limit                    *)

Namelists == {[kind |-> "var", n |-> n] : n \in 1..MaxVars}

Init == /\ consts = <<>> /\ E = NoExp(FALSE) /\ targets = <<>>
        /\ toks = <<>>
        /\ \/ /\ stm \in Namelists /\ code = <<>>
              /\ \/ cs = <<List(stm.n - 1), Sub(0)>> /\ pc = "operand" /\ tok = "none"
                 \/ cs = <<List(stm.n)>> /\ pc = "close" /\ tok = ";"
           \/ /\ stm = [kind |-> "exp", n |-> 0]
              /\ code = <<>> /\ cs = <<Target>> /\ pc = "operand" /\ tok = "none"
           \/ /\ stm = [kind |-> "ret", n |-> 0]
              /\ code = <<Ins("retstart", 0)>>
              /\ cs = <<List(Unlimited), Sub(0)>> /\ pc = "operand" /\ tok = "none"

Size    == Len(SelectSeq(toks, LAMBDA t : t \notin {")", "]", ",", ";", "="}))
Read(t) == Size < MaxToks /\ toks' = Append(toks, t)

----------------------------------------------------------------------------
(* simpleexp: a constant.                                                  *)
Literal == [nil |-> "nil", true |-> "true"]
Constant(t) ==
  /\ pc = "operand" /\ Top.fn = "sub" /\ Read(t)
  /\ IF t \in DOMAIN Literal
     THEN /\ code' = Append(code, Ins(Literal[t], 0))
          /\ E' = [E EXCEPT !.type = t, !.code = Len(code) + 1, !.jmp = 0]
          /\ UNCHANGED consts
     ELSE /\ consts' = Append(consts, ConstVal[t])
          /\ code' = Append(code, Ins("const", Len(consts'))) 
          /\ E' = [E EXCEPT !.type = IF t = "s" THEN "string" ELSE "number",
                            !.value = Len(consts'), !.code = Len(code'), !.jmp = 0]
  /\ pc' = "op"
  /\ UNCHANGED <<cs, tok, targets, stm>>

(* primaryexp: codevar, which emits nothing for a variable to be set.      *)
Name(v) ==
  /\ pc = "operand" /\ Top.fn \in {"sub", "target"} /\ Read(v)
  /\ code' = IF E.set THEN code ELSE Append(code, Ins("get", Names[v]))
  /\ E' = [E EXCEPT !.type = "local", !.value = Names[v], !.code = Len(code')]
  /\ pc' = "suffix"
  /\ UNCHANGED <<consts, cs, tok, targets, stm>>

OpenGroup ==
  /\ pc = "operand" /\ Top.fn \in {"sub", "target"} /\ Read("(")
  /\ Top.fn = "target" => "stale_type" \notin Avoid
  /\ cs' = cs \o <<Group, Sub(0)>>
  /\ UNCHANGED <<code, consts, E, pc, tok, targets, stm>>

(* dot, without a call.                                                    *)
Dot == /\ pc = "suffix" /\ Read(".")
       /\ consts' = Append(consts, Prop)
       /\ code' = IF E.set THEN code ELSE Append(code, Ins("prop", Len(consts')))
       /\ E' = [E EXCEPT !.type = "indexed", !.value = Len(consts'),
                         !.code = IF E.set THEN @ ELSE Len(code')]
       /\ UNCHANGED <<cs, pc, tok, targets, stm>>

(* call: the arguments follow.  Calling a constant is a compile error.     *)
(* The bracket behind a name or an index belongs to dot and to indexed.    *)
OpenCall == /\ pc = "suffix" /\ Last(toks) \notin {".", "]"}
            /\ E.type \notin ConstTypes /\ Read("call")
            /\ cs' = Append(cs, Args("call"))
            /\ code' = Append(code, Ins("callstart", 0))
            /\ pc' = "args"
            /\ UNCHANGED <<consts, E, tok, targets, stm>>

(* dot, with a call.                                                       *)
OpenInvoke == /\ pc = "suffix" /\ Read("invoke")
              /\ consts' = Append(consts, Prop)
              /\ cs' = Append(cs, Args("invoke"))
              /\ code' = Append(code, Ins("callstart", 0))
              /\ pc' = "args"
              /\ UNCHANGED <<E, tok, targets, stm>>

FirstArg == /\ pc = "args" /\ pc' = "operand"
            /\ "index_args" \in Avoid => Top.kind # "invokei"
            /\ cs' = Append(cs, Sub(0))
            /\ UNCHANGED <<code, consts, E, tok, toks, targets, stm>>

NoArgs == /\ pc = "args" /\ pc' = "close"
          /\ E' = [E EXCEPT !.type = "none"]
          /\ tok' = ")" /\ toks' = Append(toks, ")")
          /\ UNCHANGED <<code, consts, cs, targets, stm>>

OpenIndex == /\ pc = "suffix" /\ Read("[")
             /\ cs' = cs \o <<Index(E), Sub(0)>>
             /\ E' = NoExp(FALSE) /\ pc' = "operand"
             /\ UNCHANGED <<code, consts, tok, targets, stm>>
----------------------------------------------------------------------------
(* The token after an operand: an operator, or what ends the expression.   *)
Enders(f) == CASE f.fn = "group"  -> {")"}
               [] f.fn = "args"   -> {")", ","}
               [] f.fn = "index"  -> {"]"}
               [] f.fn = "list"   -> {";"} \cup IF f.left > 0 THEN {","} ELSE {}
               [] f.fn = "target" -> {"=", ","} \cup IF targets = <<>> THEN {";"} ELSE {}
Around == cs[SelectLastInSeq(cs, LAMBDA f : f.fn # "sub")]

Look == /\ pc \in {"suffix", "op"}
        /\ \/ Top.fn = "sub" /\ Size + 1 < MaxToks /\ tok' \in Ops
           \/ tok' \in Enders(Around)
        /\ toks' = Append(toks, tok')
        /\ pc' = IF Top.fn = "sub" THEN "loop" ELSE "close"
        /\ UNCHANGED <<code, consts, E, cs, targets, stm>>

(* foldunary and prefix.  The type stays that of the operand.              *)
Prefix(u) == /\ pc = "operand" /\ Top.fn = "sub" /\ Read(u)
             /\ cs' = Append(Front(cs), [Top EXCEPT !.un = u]) \o <<Sub(Unary)>>
             /\ UNCHANGED <<code, consts, E, pc, tok, targets, stm>>

FoldUnary(u) == u = "neg" /\ E.type = "number" /\ consts[E.value] # Num(0)

EndPrefix(f) ==
  IF FoldUnary(f.un)
  THEN /\ consts' = [consts EXCEPT ![E.value] = Num(-@[2])]
       /\ UNCHANGED code
  ELSE /\ "stale_type" \in Avoid => E.type \notin ConstTypes \cup CallTypes
       /\ code' = Append(code, Ins(f.un, 0))
       /\ UNCHANGED consts

(* codeand, before the second operand: of a constant nothing is left, for  *)
(* it is true; otherwise a jump over the second operand.                   *)
Dropped == {"true", "string", "number"}
CodeAnd ==
  CASE E.type = "true"     -> /\ "and_true" \notin Avoid
                              /\ code' = TakeBack(code, 2) /\ UNCHANGED consts
    [] E.type \in Dropped  -> code' = TakeBack(code, 4) /\ consts' = Front(consts)
    [] OTHER               -> code' = Append(code, Ins("jmp", 0)) /\ UNCHANGED consts
AfterAnd == [E EXCEPT !.type = "jmp",
                      !.jmp = IF E.type \in Dropped THEN 0 ELSE Len(code) + 1]

(* shortcircuit.  codeor mixes up the fields of its Exp.                   *)
ShortCircuit ==
  CASE tok = "and" -> CodeAnd
    [] tok = "or"  -> "or" \notin Avoid /\ UNCHANGED <<code, consts>>
    [] OTHER       -> UNCHANGED <<code, consts>>

(* subexp: an operator that binds tighter than the limit takes E as its    *)
(* first operand.                                                          *)
Tighter == tok \in Ops /\ Priority[tok] > Top.limit
Shift == /\ pc = "loop" /\ Tighter
         /\ ShortCircuit
         /\ cs' = Append(Front(cs),
                     [Top EXCEPT !.opr = tok,
                                 !.E1 = IF tok = "and" THEN AfterAnd ELSE E])
                  \o <<Sub(Priority[tok])>>
         /\ E' = NoExp(FALSE) /\ pc' = "operand"
         /\ UNCHANGED <<tok, toks, targets, stm>>

(* foldbinary.  Mutant: the second constant stays.                         *)
KeepConst == consts
PopConst  == Front(consts)
Foldable(f) == f.opr = "+" /\ f.E1.type = "number" /\ E.type = "number"
Fold(f) == /\ code' = TakeBack(code, 4)
           /\ consts' = [PopConst EXCEPT
                           ![f.E1.value] = Num(@[2] + consts[E.value][2])]
           /\ E' = f.E1

(* postfix of and.  Mutant: the jump over the second operand stays open.   *)
LeaveJump(f) == code
PatchAnd(f)  == [code EXCEPT ![f.E1.jmp].to = Len(code) + 1]
PostfixAnd(f) ==
  IF f.E1.jmp = 0
  THEN /\ "and_multi" \in Avoid => E.type \notin CallTypes
       /\ UNCHANGED <<code, E>>
  ELSE code' = PatchAnd(f) /\ E' = [f.E1 EXCEPT !.type = "expr"]

Postfix(f) ==
  CASE Foldable(f)    -> Fold(f)
    [] f.opr = "and"  -> PostfixAnd(f) /\ UNCHANGED consts
    [] f.opr = "or"   -> code' = Append(code, Broken) /\ UNCHANGED <<consts, E>>
    [] OTHER          -> /\ code' = Append(code, Ins(f.opr, 0))
                         /\ E' = [f.E1 EXCEPT !.type = "expr", !.code = Len(code')]
                         /\ UNCHANGED consts

Operated(f)   == [f EXCEPT !.un = "none", !.opr = "none"]

(* subexp returns: its caller may be another subexp, with its operator.    *)
Return ==
  LET below == Front(cs)
      f     == Last(below)
  IN  /\ pc = "loop" /\ ~Tighter
      /\ IF f.fn = "sub"
         THEN /\ cs' = Append(Front(below), Operated(f))
              /\ UNCHANGED pc
              /\ IF f.opr # "none" THEN Postfix(f) ELSE EndPrefix(f) /\ UNCHANGED E
         ELSE cs' = below /\ pc' = "close" /\ UNCHANGED <<code, consts, E>>
      /\ UNCHANGED <<tok, toks, targets, stm>>
----------------------------------------------------------------------------
Closing(k, t) == pc = "close" /\ Top.fn = k /\ tok = t

CloseGroup == /\ Closing("group", ")")
              /\ cs' = Front(cs) /\ pc' = "suffix"
              /\ UNCHANGED <<code, consts, E, tok, toks, targets, stm>>

CloseIndex == /\ Closing("index", "]")
              /\ code' = IF Top.E1.set THEN code ELSE Append(code, Ins("index", 0))
              /\ E' = [Top.E1 EXCEPT !.type = "indexed", !.value = 0,
                                     !.code = IF Top.E1.set THEN @ ELSE Len(code')]
              /\ cs' = Front(cs) /\ pc' = "suffix"
              /\ UNCHANGED <<consts, tok, toks, targets, stm>>

(* indexed, with a call.  The key is no constant; the Exp of what is       *)
(* indexed serves the arguments.                                           *)
OpenInvokeIndex == /\ Closing("index", "]") /\ E.type \notin ConstTypes /\ Read("call")
                   /\ E' = Top.E1
                   /\ cs' = Append(Front(cs), Args("invokei"))
                   /\ code' = Append(code, Ins("callstart", 0))
                   /\ pc' = "args"
                   /\ UNCHANGED <<consts, tok, targets, stm>>

NextArg == /\ Closing("args", ",")
           /\ cs' = Append(cs, Sub(0)) /\ pc' = "operand"
           /\ UNCHANGED <<code, consts, E, tok, toks, targets, stm>>

(* setmulret: a call that comes last passes on all of its results.         *)
(* Mutant: it passes on one.                                               *)
KeepSingle == code
SetMulRet  == IF E.type \in CallTypes THEN [code EXCEPT ![E.code].n = 0] ELSE code

CloseArgs == /\ Closing("args", ")")
             /\ code' = Append(SetMulRet,
                          IF Top.kind = "invoke" THEN [Ins("invoke", 1) EXCEPT !.to = Top.name]
                          ELSE Ins(Top.kind, 1))
             /\ E' = [E EXCEPT !.type = Top.kind, !.code = Len(code')]
             /\ cs' = Front(cs) /\ pc' = "suffix"
             /\ UNCHANGED <<consts, tok, toks, targets, stm>>

(* rmlastins: the getter of a variable that is to be set.                  *)
RmLastIns == TakeBack(code, IF E.type = "local" THEN 2 ELSE Bytes(code[E.code]))
Setter(e) == CASE e.type = "local" -> Ins("set", e.value)
               [] e.value = 0      -> Ins("seti", 0)
               [] OTHER            -> Ins("setp", e.value)

(* exprstm: a variable on the left of an assignment.                       *)
EndTarget ==
  /\ pc = "close" /\ Top.fn = "target" /\ tok \in {"=", ","} /\ E.type \in VarTypes
  /\ "multi_assign" \in Avoid => tok = "="
  /\ "set_index" \in Avoid => Setter(E).op # "seti"
  /\ code' = IF targets = <<>> THEN RmLastIns ELSE code
  /\ targets' = Append(targets, E)
  /\ E' = [E EXCEPT !.set = (tok = ",")]
  /\ cs' = IF tok = "," THEN cs ELSE <<List(Len(targets)), Sub(0)>>
  /\ pc' = "operand"
  /\ UNCHANGED <<consts, tok, toks, stm>>

(* exprstm without an assignment: a variable becomes nil.                  *)
EndExp ==
  /\ Closing("target", ";")
  /\ "set_index" \in Avoid /\ E.type \in VarTypes => Setter(E).op # "seti"
  /\ code' = IF E.type \in VarTypes THEN RmLastIns \o <<Ins("nil", 0), Setter(E)>>
             ELSE Append(code, Ins("pop", 1))
  /\ pc' = "done"
  /\ UNCHANGED <<consts, E, cs, tok, toks, targets, stm>>

NextExp == /\ Closing("list", ",")
           /\ cs' = <<[Top EXCEPT !.left = @ - 1], Sub(0)>> /\ pc' = "operand"
           /\ UNCHANGED <<code, consts, E, tok, toks, targets, stm>>

(* adjustassign: the last of too few expressions yields more values, or    *)
(* nil is added.                                                           *)
Adjusted ==
  CASE Top.left = 0           -> code
    [] E.type \in CallTypes   -> [code EXCEPT ![E.code].n = Top.left + 1]
    [] Top.left > 1           -> Append(code, Ins("niln", Top.left))
    [] OTHER                  -> Append(code, Ins("nil", 0))

Ended(kind) == /\ Closing("list", ";") /\ stm.kind = kind
               /\ pc' = "done"
               /\ UNCHANGED <<consts, E, cs, tok, toks, targets, stm>>

(* vardec.  Without any expression it reads a type of E that is not set.   *)
EndVar == /\ Ended("var")
          /\ \/ code' = Adjusted
             \/ /\ toks = <<>> /\ "no_init" \notin Avoid
                /\ code' = Append(code, Broken)

(* exprstm: codesetall sets the targets in their order.                    *)
SetAll    == [i \in DOMAIN targets |-> Setter(targets[i])]
EndAssign == Ended("exp") /\ code' = Adjusted \o SetAll

(* returnstm.                                                              *)
EndReturn == Ended("ret") /\ code' = Append(SetMulRet, Ins("ret", 0))

Next == \/ \E t \in Consts : Constant(t)
        \/ \E v \in DOMAIN Names : Name(v)
        \/ \E u \in {"neg", "not"} : Prefix(u)
        \/ OpenGroup \/ Dot \/ OpenCall \/ OpenInvoke \/ OpenIndex
        \/ FirstArg \/ NoArgs \/ Look \/ Shift \/ Return
        \/ CloseGroup \/ CloseIndex \/ OpenInvokeIndex \/ NextArg \/ CloseArgs
        \/ EndTarget \/ EndExp \/ NextExp \/ EndVar \/ EndAssign \/ EndReturn

Spec == Init /\ [][Next]_vars
----------------------------------------------------------------------------
(* What operators do to values.                                            *)
Error == <<"error", 0>>
Falsey(v) == v \in {Nil, Bool(FALSE)}
UnVal(op, a) == CASE a = Error   -> Error
                  [] op = "not"  -> Bool(Falsey(a))
                  [] a[1] = "num" -> Num(-a[2])
                  [] OTHER       -> Error
BinVal(op, a, b) ==
  CASE Error \in {a, b}                            -> Error
    [] op = "=="                                   -> Bool(a = b)
    [] op = "<" /\ a[1] = "num" /\ b[1] = "num"    -> Bool(a[2] < b[2])
    [] op = "+" /\ a[1] = "num" /\ b[1] = "num"    -> Num(a[2] + b[2])
    [] op = "+" /\ a[1] = "str" /\ b[1] = "str"    -> Str(a[2] + b[2] + 1)
    [] OTHER                                       -> Error
(* The field k of an instance r, whose only field holds v.                 *)
Field(r, k, v) == IF r = Obj /\ k = Prop THEN v ELSE Error
(* A call that is asked for r results, or for all of them.                 *)
Results(args, r) == IF r = 0 THEN args
                    ELSE [i \in 1..r |-> IF i <= Len(args) THEN args[i] ELSE Nil]

(* The interpreter, for straight code: s is its state, i an instruction.   *)
Envs == [x : {Nil, Num(2), Obj}, f : {Fn}, p : {Num(3), Fn}]
          \cup [x : {Prop}, f : {Obj}, p : {Num(3), Fn}]
Start(env) == [ip |-> 1, st |-> <<env.x, env.f>>, marks |-> <<>>, field |-> env.p,
               is |-> "running", ret |-> <<>>]

Put(s, k, vs) ==
  IF Error \in ToSet(vs) THEN [s EXCEPT !.is = "error"]
  ELSE [s EXCEPT !.ip = @ + 1, !.st = SubSeq(@, 1, Len(@) - k) \o vs]
At(s, k) == s.st[Len(s.st) - k]      (* stackpeek                          *)

(* vcall of fn, with the arguments above the last mark.                    *)
Apply(s, fn, argc, r) ==
  IF fn # Fn THEN [s EXCEPT !.is = "error"]
  ELSE Put([s EXCEPT !.marks = Front(@)], argc + 1,
           Results(SubSeq(s.st, Last(s.marks) + 1, Len(s.st)), r))
Argc(s)      == Len(s.st) - Last(s.marks)
Call(s, r)   == Apply(s, At(s, Argc(s)), Argc(s), r)
Invoke(s, r) == Apply(s, Field(At(s, Argc(s)), Prop, s.field), Argc(s), r)
(* invokeindex: what it drops to be rid of the key is the top of the stack.*)
InvokeIndex(s, r) ==
  LET fn == Field(At(s, Argc(s) + 1), At(s, Argc(s)), s.field)
      t  == [s EXCEPT !.st = Front(@), !.marks = Append(Front(@), Last(@) - 1)]
  IN  Apply(t, fn, Argc(t), r)

JumpIfFalse(s, to) == IF Falsey(At(s, 0)) THEN [s EXCEPT !.ip = to] ELSE Put(s, 1, <<>>)
GetIndex(s)        == Put(s, 2, <<Field(At(s, 1), At(s, 0), s.field)>>)

SetField(s, k, r, key) ==
  IF r # Obj \/ key[1] # "str" THEN [s EXCEPT !.is = "error"]
  ELSE [Put(s, k, <<>>) EXCEPT !.field = IF key = Prop THEN At(s, 0) ELSE @]
(* It leaves the value it has set on the stack.                            *)
SetIndex(s) == LET t == SetField(s, 3, At(s, 2), At(s, 1))
               IN  IF t.is = "error" THEN t ELSE [t EXCEPT !.st = Append(@, At(s, 0))]

(* The values an instruction takes from the stack.                         *)
Takes(i) == CASE i.op \in Ops \cup {"index", "setp"} -> 2
              [] i.op \in {"neg", "not", "prop", "jmp", "pop", "set"} -> 1
              [] i.op = "seti" -> 3
              [] OTHER -> 0

Step(s, i) ==
  CASE i.op = "broken" \/ Len(s.st) < Takes(i) -> [s EXCEPT !.is = "broken"]
    [] i.op = "nil"     -> Put(s, 0, <<Nil>>)
    [] i.op = "true"    -> Put(s, 0, <<Bool(TRUE)>>)
    [] i.op = "niln"    -> Put(s, 0, [k \in 1..i.n |-> Nil])
    [] i.op = "const"   -> IF i.n \in DOMAIN consts THEN Put(s, 0, <<consts[i.n]>>)
                           ELSE [s EXCEPT !.is = "broken"]
    [] i.op = "get"     -> Put(s, 0, <<s.st[i.n]>>)
    [] i.op = "set"     -> [Put(s, 1, <<>>) EXCEPT !.st[i.n] = At(s, 0)]
    [] i.op = "pop"     -> Put(s, 1, <<>>)
    [] i.op \in {"neg", "not"} -> Put(s, 1, <<UnVal(i.op, At(s, 0))>>)
    [] i.op \in Ops     -> Put(s, 2, <<BinVal(i.op, At(s, 1), At(s, 0))>>)
    [] i.op = "jmp"     -> JumpIfFalse(s, i.to)
    [] i.op = "prop"    -> IF consts[i.n] = Prop
                           THEN Put(s, 1, <<Field(At(s, 0), Prop, s.field)>>)
                           ELSE [s EXCEPT !.is = "broken"]
    [] i.op = "index"   -> GetIndex(s)
    [] i.op = "setp"    -> SetField(s, 2, At(s, 1), Prop)
    [] i.op = "seti"    -> SetIndex(s)
    [] i.op = "call"    -> Call(s, i.n)
    [] i.op = "invoke"  -> Invoke(s, i.n)
    [] i.op = "invokei" -> InvokeIndex(s, i.n)
    [] i.op \in {"callstart", "retstart"} ->
                           [Put(s, 0, <<>>) EXCEPT !.marks = Append(@, Len(s.st))]
    [] i.op = "ret"     -> [s EXCEPT !.is = "returned", !.marks = Front(@),
                              !.ret = SubSeq(s.st, Last(s.marks) + 1, Len(s.st))]

Exec(env) == FoldLeft(LAMBDA s, k : IF s.is = "running" /\ s.ip = k
                                    THEN Step(s, code[k]) ELSE s,
                      Start(env), [k \in DOMAIN code |-> k])
----------------------------------------------------------------------------
(* The language: what a list of tokens denotes.                            *)
Openers == {"(", "call", "invoke", "["}
Nesting(i, j) == Cardinality({k \in i..j : toks[k] \in Openers})
                 - Cardinality({k \in i..j : toks[k] \in {")", "]"}})
(* The tokens in S between i and j, outside brackets.                      *)
Flat(S, i, j) == {k \in i..j : toks[k] \in S /\ Nesting(i, k - 1) = 0}

(* The bracket that token j closes.                                        *)
Opener(i, j) == CHOOSE k \in i..(j - 1) :
                  /\ toks[k] \in Openers /\ Nesting(k + 1, j - 1) = 0
                  /\ \A m \in (k + 1)..(j - 1) : Nesting(m, j - 1) <= 0
(* The operator that is applied last.                                      *)
Outermost(S) == CHOOSE k \in S : \A m \in S :
                  \/ Priority[toks[k]] < Priority[toks[m]]
                  \/ Priority[toks[k]] = Priority[toks[m]] /\ k >= m
First(vs) == IF vs = <<>> THEN Nil ELSE vs[1]
Fails(vs) == Error \in ToSet(vs)

(* A list of expressions from i to j: one value of each, all of the last;  *)
(* V gives the values of an expression.                                    *)
ListOf(V(_, _), i, j) ==
  LET ends == SetToSortSeq(Flat({","}, i, j) \cup {j + 1}, <)
      from == [k \in DOMAIN ends |-> IF k = 1 THEN i ELSE ends[k - 1] + 1]
      each == [k \in DOMAIN ends |-> V(from[k], ends[k] - 1)]
      last == Len(ends)
      all  == [k \in 1..(last - 1) |-> First(each[k])] \o each[last]
  IN  IF j < i THEN <<>> ELSE IF Fails(all) THEN <<Error>> ELSE all

(* The values of the expression from i to j, in env: several only of a call.*)
Denotes(env) ==
  LET D[i \in 1..Len(toks), j \in 1..Len(toks)] ==
        LET V(a, b)  == D[a, b]
            One(a, b) == First(D[a, b])
            ops      == Flat(Ops, i, j)
            k        == Outermost(ops)
            o        == Opener(i, j)
            call(fn) == LET args == ListOf(V, o + 1, j - 1)
                        IN  IF fn # Fn THEN <<Error>> ELSE args
        IN  CASE ops # {} /\ toks[k] = "and" ->
                   LET a == One(i, k - 1)
                   IN  <<IF a = Error \/ Falsey(a) THEN a ELSE One(k + 1, j)>>
              [] ops # {} /\ toks[k] = "or" ->
                   LET a == One(i, k - 1)
                   IN  <<IF Falsey(a) THEN One(k + 1, j) ELSE a>>
              [] ops # {}             -> <<BinVal(toks[k], One(i, k - 1), One(k + 1, j))>>
              [] toks[i] \in {"neg", "not"} -> <<UnVal(toks[i], One(i + 1, j))>>
              [] toks[j] = "."        -> <<Field(One(i, j - 1), Prop, env.p)>>
              [] toks[j] = "]"        -> <<Field(One(i, o - 1), One(o + 1, j - 1), env.p)>>
              [] toks[j] = ")" /\ toks[o] = "("      -> V(i + 1, j - 1)
              [] toks[j] = ")" /\ toks[o] = "call"   -> call(One(i, o - 1))
              [] toks[j] = ")" /\ toks[o] = "invoke" ->
                   call(Field(One(i, o - 1), Prop, env.p))
              [] toks[i] = "x"        -> <<env.x>>
              [] toks[i] = "f"        -> <<env.f>>
              [] OTHER                -> <<ConstVal[toks[i]]>>
  IN  D

(* What a finished statement does: a run-time error; or the values of the  *)
(* variables and of the field, and what is returned.                       *)
Does(is, st, field, ret) == [is |-> is, st |-> st, field |-> field, ret |-> ret]
Fault == Does("error", <<>>, Nil, <<>>)

Outcome(s) ==
  CASE s.is = "error"    -> Fault
    [] s.is = "returned" -> Does(s.is, <<>>, Nil, s.ret)
    [] s.is = "running" /\ s.ip = Len(code) + 1 /\ s.marks = <<>> ->
         Does(s.is, s.st, s.field, <<>>)
    [] OTHER             -> Does("broken", <<>>, Nil, <<>>)

Wanted(env) ==
  LET D       == Denotes(env)
      V(i, j) == D[i, j]
      n       == Len(toks)
      eq      == SelectInSeq(toks, LAMBDA t : t = "=")
      ends    == SetToSortSeq(Flat({",", "="}, 1, eq), <)
      from(k) == IF k = 1 THEN 1 ELSE ends[k - 1] + 1
      start   == Does("running", <<env.x, env.f>>, env.p, <<>>)
      (* Variable i..j gets the value v.                                   *)
      set(d, i, j, v) ==
        CASE d = Fault        -> d
          [] i = j            -> [d EXCEPT !.st[Names[toks[i]]] = v]
          [] toks[j] = "."    -> IF First(D[i, j - 1]) # Obj THEN Fault
                                 ELSE [d EXCEPT !.field = v]
          [] toks[j] = "]"    ->
               LET o   == Opener(i, j)
                   key == First(D[o + 1, j - 1])
               IN  IF First(D[i, o - 1]) # Obj \/ key[1] # "str" THEN Fault
                   ELSE [d EXCEPT !.field = IF key = Prop THEN v ELSE @]
      isvar   == n = 2 \/ toks[n - 1] \in {".", "]"}
      first   == IF eq = 0 THEN 1 ELSE eq + 1
      vs      == ListOf(V, first, n - 1)
      vals(r) == Results(vs, r)
  IN  CASE stm.kind = "exp" /\ eq = 0 /\ isvar -> set(start, 1, n - 1, Nil)
        [] Fails(vs)           -> Fault
        [] stm.kind = "ret"    -> Does("returned", <<>>, Nil, vs)
        [] stm.kind = "var"    -> [start EXCEPT !.st = @ \o vals(stm.n)]
        [] eq = 0              -> start
        [] OTHER               ->
             FoldLeft(LAMBDA d, k : set(d, from(k), ends[k] - 1, vals(Len(ends))[k]),
                      start, [k \in DOMAIN ends |-> k])
----------------------------------------------------------------------------
(* The recursion of subexp: a frame has an operator waiting exactly while  *)
(* another one reads its operand, with the limit that belongs to it.       *)
TypeOK ==
  /\ pc \in {"operand", "suffix", "op", "args", "loop", "close", "done"}
  /\ pc = "operand" => Top.fn \in {"sub", "target"}
  /\ E.type \in ExpTypes
  /\ \A k \in DOMAIN cs : cs[k].fn = "sub" =>
       /\ cs[k].un = "none" \/ cs[k].opr = "none"
       /\ IF k < Len(cs) /\ cs[k + 1].fn = "sub"
          THEN cs[k + 1].limit = IF cs[k].un # "none" THEN Unary ELSE Priority[cs[k].opr]
          ELSE cs[k].un = "none" /\ cs[k].opr = "none"
  /\ \A i \in DOMAIN code : code[i].n \in Nat /\ code[i].to \in 0..(Len(code) + 1)

(* rmlastins, folding, setmulret and adjustassign change the instruction   *)
(* that an Exp names: whenever they may be called, the Exp of a constant   *)
(* or of a call names the last instruction, and that is what it says.      *)
DescribesLast ==
  pc \in {"suffix", "op", "loop", "close"} =>
    /\ E.type \in Literals  => Last(code).op = E.type
    /\ E.type \in {"string", "number"} =>
         Last(code) = Ins("const", E.value) /\ E.value = Len(consts)
    /\ E.type \in CallTypes => Last(code).op = E.type /\ E.code = Len(code)
    /\ pc = "close" /\ Top.fn = "target" /\ E.type \in VarTypes /\ ~E.set =>
         Last(code).op \in {"get", "prop", "index"} /\ E.code = Len(code)

(* The jump of an and is open exactly while its second operand is being    *)
(* compiled; deleting code and constants never loses one.                  *)
JumpsOpen ==
  {i \in DOMAIN code : code[i].op = "jmp" /\ code[i].to = 0}
    = {f.E1.jmp : f \in {g \in ToSet(cs) : g.fn = "sub" /\ g.opr = "and"}} \ {0}

(* Whatever a variable and a field hold, the code of a statement does what *)
(* the statement says by the priorities of its operators, with the results *)
(* of calls, the folding of constants and the stack as the programmer      *)
(* expects them.                                                           *)
Compiled == pc = "done" => \A env \in Envs : Outcome(Exec(env)) = Wanted(env)
============================================================================
