------------------------------- MODULE Calls --------------------------------
(***************************************************************************)
(* Calls in the interpreter (vmachine.c): closures, bound methods, classes,*)
(* native functions, the calls of properties, of indexed values and of     *)
(* super, the iterators of foreach, and the classes they look methods up   *)
(* in.  Arguments and results travel on one stack, by a convention that no *)
(* part of the code states; next to the machine runs what the language     *)
(* means by each call.  How captured variables fare is in Machine.         *)
(***************************************************************************)
EXTENDS Integers, FiniteSets, SequencesExt

CONSTANTS
  Class,          (* the names of the classes of the script                *)
  Inst,           (* bound: its instances                                  *)
  Tidy, Sloppy,   (* native functions of one argument: those that pop it   *)
                  (* from the stack, and those that leave it there         *)
  StackMax,       (* VM_STACK_MAX                                          *)
  FramesMax,      (* VM_FRAMES_MAX                                         *)
  Wants,          (* bound: numbers of results called for; 0 means all     *)
  MaxArgs,        (* bound: arguments written in a call                    *)
  MaxCalls,       (* bound: calls in a run; one among the arguments of     *)
                  (* another counts as two                                 *)
  Avoid           (* bound: kinds of call left out, by name; see each use  *)

Kinds == {"native_count", "class_count", "index_args", "tidy_error", "sloppy_result",
          "foreach_limit"}

ASSUME CallsAssumption ==
  /\ "" \notin Class /\ StackMax \in Nat \ {0} /\ FramesMax \in Nat \ {0}
  /\ Wants \subseteq Nat /\ {MaxArgs, MaxCalls} \subseteq Nat /\ Avoid \subseteq Kinds

(* Values, all of one shape: of which instance, class and method.          *)
Val(t, i, c, m) == [t |-> t, i |-> i, c |-> c, m |-> m]
Nil         == Val("nil", "", "", "")
Num         == Val("num", "", "", "")
Main        == Val("main", "", "", "")          (* the closure of the script *)
Iter        == Val("fn", "", "", "iter")        (* a function of two         *)
Message     == Val("message", "", "", "")       (* what a native reports     *)
None        == Val("none", "", "", "")
Fn(c, m)    == Val("fn", "", c, m)              (* the method m of class c   *)
Object(i)   == Val("instance", i, "", "")
ClassVal(c) == Val("class", "", c, "")
Native(f)   == Val("native", "", "", f)
Bound(i, f) == Val("bound", i, f.c, f.m)
FnOf(b)     == Fn(b.c, b.m)

(* Methods: an initializer of one parameter and a method of none; the one  *)
(* field of an instance has the name of the method.                        *)
Names    == {"init", "m"}
Arity(f) == CASE f.m = "iter" -> 2 [] f.m = "init" -> 1 [] OTHER -> 0

VARIABLES
  methods, overloaded,  (* the fields of OClass                            *)
  body,                 (* the class whose body is being executed, or ""   *)
  oclass, field,        (* of each instance, its class (or "") and field   *)
  stack, frames,        (* the value stack and the call frames             *)
  callstart,            (* vm->callstart, with what the compiler knows of  *)
                        (* each call: its instruction and its function     *)
  loops,                (* the foreach loops whose iterator is running     *)
  calls,                (* the calls begun so far                          *)
  status,               (* "run", "done", "error" or "overflow"            *)
  message,              (* what was given to runerror                      *)
  own, lineage,         (* histories: the methods a class declares, and a  *)
                        (* class with its ancestors, nearest first         *)
  owed,                 (* what the language says of each call in progress *)
  got                   (* and of the step just made: the results it leaves*)
                        (* on the stack, or that it fails                  *)

classes == <<methods, overloaded, body, own, lineage>>
objects == <<oclass, field>>
machine == <<stack, frames, callstart, loops, calls, status, message>>
ghosts  == <<owed, got>>
vars    == <<classes, objects, machine, ghosts>>

Nothing == [at |-> 0, vals |-> <<>>]
Failure == [at |-> 0, vals |-> <<Message>>]
Meant(kind, f, self, args, want, at) ==
  [kind |-> kind, fn |-> f, self |-> self, args |-> args, want |-> want, at |-> at]
Error == Meant("error", None, None, <<>>, 0, 0)

Init ==
  /\ methods = [c \in Class |-> [m \in Names |-> None]]
  /\ overloaded = [c \in Class |-> None]
  /\ body = "" /\ own = [c \in Class |-> {}] /\ lineage = [c \in Class |-> <<>>]
  /\ oclass = [i \in Inst |-> ""] /\ field = [i \in Inst |-> None]
  /\ stack = <<Main>> /\ callstart = <<>> /\ loops = <<>> /\ calls = 0 /\ status = "run" /\ message = None
  /\ frames = <<[fn |-> Main, base |-> 1, want |-> 1]>>
  /\ owed = <<Meant("fn", Main, Main, <<>>, 1, 1)>> /\ got = Nothing
----------------------------------------------------------------------------
(* The body of a class: OP_CLASS, OP_INHERIT, OP_METHOD with OP_OVERLOAD   *)
(* before it, and the OP_POP at its end.  Bound: classes come before       *)
(* instances, declare a method each, and form one line of inheritance.     *)
Declared(c) == lineage[c] # <<>>
NoObjects   == \A i \in Inst : oclass[i] = ""

OpClass(c) == /\ status = "run" /\ body = "" /\ ~Declared(c) /\ NoObjects /\ Len(stack) = 1
              /\ c = CHOOSE d \in Class : ~Declared(d)
              /\ body' = c /\ lineage' = [lineage EXCEPT ![c] = <<c>>]
              /\ UNCHANGED <<methods, overloaded, own, objects, machine, ghosts>>

(* HashTable_into; the entries of the superclass are put over those of the *)
(* subclass, which has none yet.                                           *)
Into(from, to) == [m \in Names |-> IF from[m] # None THEN from[m] ELSE to[m]]
OpInherit(s) == /\ body # "" /\ own[body] = {} /\ Len(lineage[body]) = 1
                /\ Declared(s) /\ s # body
                /\ methods' = [methods EXCEPT ![body] = Into(methods[s], @)]
                /\ overloaded' = [overloaded EXCEPT ![body] = overloaded[s]]
                /\ lineage' = [lineage EXCEPT ![body] = @ \o lineage[s]]
                /\ UNCHANGED <<body, own, objects, machine, ghosts>>

OpMethod(m) == /\ body # "" /\ m \notin own[body]
               /\ methods' = [methods EXCEPT ![body][m] = Fn(body, m)]
               /\ overloaded' = IF m = "init" THEN [overloaded EXCEPT ![body] = Fn(body, m)]
                                ELSE overloaded
               /\ own' = [own EXCEPT ![body] = @ \cup {m}]
               /\ UNCHANGED <<body, lineage, objects, machine, ghosts>>

EndClass == /\ body # "" /\ own[body] # {}
            /\ Len(lineage[body]) = Cardinality({c \in Class : Declared(c)})
            /\ body' = ""
            /\ UNCHANGED <<methods, overloaded, own, lineage, objects, machine, ghosts>>
----------------------------------------------------------------------------
(* What the compiler promises of the code: an operand is pushed where a    *)
(* call or its argument begins, OP_CALLSTART follows the callee, a call    *)
(* the arguments, and a loop goes on when its iterator has returned.       *)
Top     == Last(frames)
Self    == stack[Top.base]
Pending == callstart # <<>> /\ Last(callstart).depth = Len(frames)
Low     == IF Pending THEN Last(callstart).at ELSE Top.base + Arity(Top.fn)
Looping == loops # <<>> /\ Last(loops).depth = Len(frames)
Ready   == status = "run" /\ body = "" /\ ~Looping
Callee  == Ready /\ Len(stack) = Low + 1
MoreCalls == calls + Len(callstart) < MaxCalls
Count     == MoreCalls /\ calls' = calls + 1 + Len(callstart)
Start(at, how) == /\ Count
                  /\ callstart' = Append(callstart, [at |-> at, how |-> how, depth |-> Len(frames)])

(* push(): the limit ends the program.                                     *)
Push(s) == IF Len(s) <= StackMax THEN stack' = s /\ UNCHANGED status
           ELSE status' = "overflow" /\ UNCHANGED stack

Newest(c) == Declared(c) /\ \A d \in Class : Len(lineage[d]) <= Len(lineage[c])
Operands == {Num, Iter} \cup {ClassVal(c) : c \in {d \in Class : Newest(d)}}
            \cup {Native(f) : f \in Tidy \cup Sloppy}
            \cup {Object(i) : i \in {j \in Inst : oclass[j] # ""}}
Place(v) == IF Pending THEN v = Num \/ (v = Iter /\ Len(stack) = Low)
            ELSE Len(stack) = Low /\ MoreCalls
Operand(v) == /\ Ready /\ v \in Operands /\ Place(v)
              /\ Len(stack) < Low + MaxArgs
              /\ Push(Append(stack, v)) /\ got' = Nothing
              /\ UNCHANGED <<classes, objects, frames, callstart, loops, calls, message, owed>>

OpPop == /\ Ready /\ ~Pending /\ Len(stack) > Low
         /\ stack' = SubSeq(stack, 1, Low) /\ got' = Nothing
         /\ UNCHANGED <<classes, objects, frames, callstart, loops, calls, status, message, owed>>

(* OP_CALLSTART behind a callee, or a receiver; for an indexed call the key*)
(* comes between them, for a call of super the receiver is self.           *)
Receives(v) == v.t = "instance" \/ v = Num
OpCallstart(how) == /\ Callee /\ Start(Len(stack), how) /\ got' = Nothing
                    /\ how = "invoke" => Receives(Last(stack))
                    /\ UNCHANGED <<classes, objects, stack, frames, loops, status, message, owed>>
Nested(v, how) == /\ Ready /\ Pending /\ Len(stack) = Low /\ v \in Operands
                  /\ how = "invoke" => Receives(v)
                  /\ Len(stack) < StackMax /\ stack' = Append(stack, v) /\ got' = Nothing
                  /\ Start(Len(stack) + 1, how)
                  /\ UNCHANGED <<classes, objects, frames, loops, status, message, owed>>
Key == Val("string", "", "", "m")
IndexStart == /\ Callee /\ Receives(Last(stack)) /\ Len(stack) < StackMax
              /\ stack' = Append(stack, Key) /\ Start(Len(stack) + 1, "index") /\ got' = Nothing
              /\ UNCHANGED <<classes, objects, frames, loops, status, message, owed>>
HasSuper   == Top.fn.c # "" /\ Len(lineage[Top.fn.c]) > 1
SuperStart == /\ Ready /\ HasSuper /\ Len(stack) < StackMax
              /\ stack' = Append(stack, Self) /\ Start(Len(stack) + 1, "super") /\ got' = Nothing
              /\ UNCHANGED <<classes, objects, frames, loops, status, message, owed>>
----------------------------------------------------------------------------
(* The language: the nearest declaration, and what each call is to do.     *)
Nearest(line, m) == LET I == {i \in DOMAIN line : m \in own[line[i]]}
                    IN  IF I = {} THEN None
                        ELSE Fn(line[CHOOSE i \in I : \A j \in I : i <= j], m)
NewInst == CHOOSE i \in Inst : oclass[i] = ""
Adjust(vs, want) == IF want = 0 THEN vs
                    ELSE [k \in 1 .. want |-> IF k <= Len(vs) THEN vs[k] ELSE Nil]

Enters(f, self, args, want, at) ==
  IF f = None \/ Len(args) # Arity(f) \/ Len(frames) = FramesMax THEN Error
  ELSE Meant("fn", f, self, args, want, at)
Gives(v, want, at) == Meant("value", None, v, <<>>, want, at)
Means(v, args, want, at) ==
  CASE v.t = "fn"     -> Enters(v, v, args, want, at)
    [] v.t = "bound"  -> Enters(FnOf(v), Object(v.i), args, want, at)
    [] v.t = "native" -> IF args = <<Num>> THEN Gives(Num, want, at) ELSE Error
    [] v.t = "class"  -> IF Nearest(lineage[v.c], "init") # None
                           THEN Enters(Nearest(lineage[v.c], "init"), Object(NewInst), args, want, at)
                         ELSE IF args = <<>> THEN Gives(Object(NewInst), want, at) ELSE Error
    [] OTHER          -> Error
MeansProperty(r, args, want, at) ==
  IF r.t # "instance" THEN Error
  ELSE IF field[r.i] # None THEN Means(field[r.i], args, want, at)
  ELSE Enters(Nearest(lineage[oclass[r.i]], "m"), r, args, want, at)
MeansSuper(m, args, want, at) ==
  Enters(Nearest(Tail(lineage[Top.fn.c]), m), Self, args, want, at)

Promise(m) ==
  /\ owed' = IF m.kind = "fn" THEN Append(owed, m) ELSE owed
  /\ got' = CASE m.kind = "value" -> [at |-> m.at, vals |-> Adjust(<<m.self>>, m.want)]
              [] m.kind = "error" -> Failure
              [] OTHER            -> Nothing
----------------------------------------------------------------------------
(* The interpreter.  A call that fails gives a message to runerror, which  *)
(* ends the run.                                                           *)
Fail(msg) == status' = "error" /\ message' = msg /\ UNCHANGED <<stack, frames>>

(* fncall().  The arguments, and the callee below them, become the frame.  *)
FnCall(f, s, argc, retcnt) ==
  IF Arity(f) # argc \/ Len(frames) = FramesMax THEN Fail(Message)
  ELSE /\ stack' = s
       /\ frames' = Append(frames, [fn |-> f, base |-> Len(s) - argc, want |-> retcnt])
       /\ UNCHANGED <<status, message>>

(* nativecall().  The function puts its result, or its message, below its  *)
(* arguments, which it pops or not; nativecall reads the message argc below*)
(* wherever the stack ends now.  How many results are wanted is ignored.   *)
NativeCall(f, s, argc, retcnt) ==
  LET put(v) == LET t == [s EXCEPT ![Len(s) - argc] = v]
                IN  IF f \in Tidy THEN SubSeq(t, 1, Len(t) - argc) ELSE t
      msgs == put(Message)
      ok   == argc = 1 => Last(s) = Num
  IN  /\ "native_count" \in Avoid => retcnt <= 1
      /\ "tidy_error" \in Avoid /\ f \in Tidy => ok
      /\ "sloppy_result" \in Avoid /\ f \in Sloppy => ~ok
      /\ IF argc # 1 THEN Fail(Message)
         ELSE IF ~ok THEN Fail(IF Len(msgs) > argc THEN msgs[Len(msgs) - argc] ELSE None)
         ELSE stack' = put(Num) /\ UNCHANGED <<frames, status, message>>

(* instancecall().  The results wanted are ignored here too.               *)
InstanceCall(c, s, argc, retcnt) ==
  LET t == [s EXCEPT ![Len(s) - argc] = Object(NewInst)]
  IN  /\ "class_count" \in Avoid => retcnt <= 1
      /\ \E i \in Inst : oclass[i] = ""
      /\ oclass' = [oclass EXCEPT ![NewInst] = c]
      /\ IF overloaded[c] # None THEN FnCall(overloaded[c], t, argc, 1)
         ELSE IF argc # 0 THEN Fail(Message)
         ELSE stack' = t /\ UNCHANGED <<frames, status, message>>

(* vcall()                                                                 *)
VCall(v, s, argc, retcnt) ==
  /\ v.t = "class" \/ UNCHANGED oclass
  /\ CASE v.t = "bound"  -> FnCall(FnOf(v), [s EXCEPT ![Len(s) - argc] = Object(v.i)], argc, retcnt)
       [] v.t = "fn"     -> FnCall(v, s, argc, retcnt)
       [] v.t = "class"  -> InstanceCall(v.c, s, argc, retcnt)
       [] v.t = "native" -> NativeCall(v.m, s, argc, retcnt)
       [] OTHER          -> Fail(Message)

(* invokefrom(); invoke(): a field of the name comes before a method.      *)
(* Mutant: methods come first.                                             *)
InvokeFrom(c, m, s, argc, retcnt) ==
  IF methods[c][m] = None THEN Fail(Message) /\ UNCHANGED oclass
  ELSE VCall(methods[c][m], s, argc, retcnt)
MethodFirst(r) == field[r.i] # None /\ methods[oclass[r.i]]["m"] = None
HasField(r)    == field[r.i] # None
Invoke(r, s, argc, retcnt) ==
  IF r.t # "instance" THEN Fail(Message) /\ UNCHANGED oclass
  ELSE IF HasField(r)
    THEN VCall(field[r.i], [s EXCEPT ![Len(s) - argc] = field[r.i]], argc, retcnt)
  ELSE InvokeFrom(oclass[r.i], "m", s, argc, retcnt)

(* The four instructions.  invokeindex() counts the key as an argument and *)
(* drops the last value on the stack instead of the key.                   *)
At   == Last(callstart).at
Args == SubSeq(stack, At + 1, Len(stack))
Instruction(how, w) == /\ Ready /\ Pending /\ Last(callstart).how = how /\ w \in Wants
                       /\ callstart' = Front(callstart)
                       /\ UNCHANGED <<classes, field, loops, calls>>
OpCall(w) ==
  /\ Instruction("call", w)
  /\ VCall(stack[At], stack, Len(Args), w)
  /\ Promise(Means(stack[At], Args, w, At))
OpInvoke(w) ==
  /\ Instruction("invoke", w)
  /\ Invoke(stack[At], stack, Len(Args), w)
  /\ Promise(MeansProperty(stack[At], Args, w, At))
OpInvokeIndex(w) ==
  /\ Instruction("index", w)
  /\ "index_args" \in Avoid => Args = <<>>
  /\ Invoke(stack[At - 1], Front(stack), Len(Args), w)
  /\ Promise(MeansProperty(stack[At - 1], Args, w, At - 1))
OpInvokeSuper(m, w) ==
  /\ Instruction("super", w)
  /\ InvokeFrom(lineage[Top.fn.c][2], m, stack, Len(Args), w)
  /\ Promise(MeansSuper(m, Args, w, At))
----------------------------------------------------------------------------
(* OP_FOREACH_PREP calls a copy of the three loop variables, which it makes*)
(* without push(); OP_FOREACH goes on unless the first result is nil.      *)
Prepare(it, s, k) ==
  LET n == Len(s)
      t == s \o SubSeq(s, n - 2, n)
  IN  /\ Count
      /\ "foreach_limit" \in Avoid => Len(t) <= StackMax
      /\ VCall(t[n + 1], t, 2, k)
      /\ Promise(Means(it, <<Nil, s[n]>>, k, n + 1))
Foreach(v, k) ==
  /\ Ready /\ ~Pending /\ Len(stack) = Low /\ v \in Operands /\ k \in Wants \ {0}
  /\ Len(stack) + 3 <= StackMax /\ loops = <<>>
  /\ loops' = Append(loops, [depth |-> Len(frames), vars |-> k, it |-> v])
  /\ Prepare(v, stack \o <<v, Nil, Nil>>, k)
  /\ UNCHANGED <<classes, field, callstart>>
OpForeach ==
  LET k == Last(loops).vars
      n == Len(stack) - k
      s == [SubSeq(stack, 1, n) EXCEPT ![n] = stack[n + 1]]
  IN  /\ status = "run" /\ Looping
      /\ UNCHANGED <<classes, field, callstart>>
      /\ IF s[n] # Nil THEN Prepare(Last(loops).it, s, k) /\ UNCHANGED loops
         ELSE /\ stack' = SubSeq(stack, 1, n - 3) /\ loops' = Front(loops) /\ got' = Nothing
              /\ UNCHANGED <<oclass, frames, calls, status, message, owed>>

(* OP_GET_PROPERTY and OP_GET_SUPER, with bindmethod(); OP_SET_PROPERTY of *)
(* the value on top.                                                       *)
Bind(c, m, i) == IF methods[c][m] = None THEN None ELSE Bound(i, methods[c][m])
Property(r) == IF r.t # "instance" THEN None
               ELSE IF HasField(r) THEN field[r.i] ELSE Bind(oclass[r.i], "m", r.i)
OpGetProperty ==
  /\ Callee /\ Property(Last(stack)) # None
  /\ stack' = [stack EXCEPT ![Len(stack)] = Property(Last(stack))] /\ got' = Nothing
  /\ UNCHANGED <<classes, objects, frames, callstart, loops, calls, status, message, owed>>
OpGetSuper(m) ==
  /\ Ready /\ HasSuper /\ Bind(lineage[Top.fn.c][2], m, Self.i) # None
  /\ ~Pending /\ Len(stack) = Low /\ MoreCalls
  /\ Push(Append(stack, Bind(lineage[Top.fn.c][2], m, Self.i))) /\ got' = Nothing
  /\ UNCHANGED <<classes, objects, frames, callstart, loops, calls, message, owed>>
OpSetProperty(i) ==
  /\ Callee /\ ~Pending /\ oclass[i] # "" /\ Last(stack).t \in {"fn", "bound", "native"}
  /\ field' = [field EXCEPT ![i] = Last(stack)] /\ stack' = Front(stack) /\ got' = Nothing
  /\ UNCHANGED <<classes, oclass, frames, callstart, loops, calls, status, message, owed>>

(* OP_RET of the values vs: cut or filled up with nil to the number the    *)
(* frame wants, moved down to where the frame began.  An initializer gives *)
(* back its instance, the script's return ends the run.  Mutant: too many  *)
(* results are not cut.                                                    *)
Uncut(vs, n)  == vs \o [k \in 1 .. n - Len(vs) |-> Nil]
Filled(vs, n) == IF n = 0 THEN vs
                 ELSE SubSeq(vs, 1, IF n < Len(vs) THEN n ELSE Len(vs))
                      \o [k \in 1 .. n - Len(vs) |-> Nil]
OpRet(vs) ==
  /\ Ready /\ ~Pending
  /\ IF Top.fn.m = "init" THEN vs = <<Self>> ELSE vs \in {<<Nil>>, <<Num, Self>>}
  /\ IF Len(stack) + Len(vs) > StackMax \/ Len(stack) + Top.want > StackMax
       THEN status' = "overflow" /\ UNCHANGED <<stack, frames, owed, got>>
     ELSE IF Len(frames) = 1 THEN status' = "done" /\ UNCHANGED <<stack, frames, owed, got>>
     ELSE /\ stack' = SubSeq(stack, 1, Top.base - 1) \o Filled(vs, Top.want)
          /\ frames' = Front(frames) /\ owed' = Front(owed)
          /\ got' = [at |-> Last(owed).at, vals |-> Adjust(vs, Last(owed).want)]
          /\ UNCHANGED status
  /\ UNCHANGED <<classes, objects, callstart, loops, calls, message>>

Declare == \/ \E c \in Class : OpClass(c) \/ OpInherit(c)
           \/ \E m \in Names : OpMethod(m)
           \/ EndClass
Operate == \/ \E v \in Operands : Operand(v)
           \/ OpPop \/ OpGetProperty \/ \E m \in Names : OpGetSuper(m)
           \/ \E i \in Inst : OpSetProperty(i)
Begin == \/ IndexStart \/ SuperStart
         \/ \E how \in {"call", "invoke"} : OpCallstart(how) \/ \E v \in Operands : Nested(v, how)
Do    == \E w \in Wants :
           \/ OpCall(w) \/ OpInvoke(w) \/ OpInvokeIndex(w)
           \/ \E m \in Names : OpInvokeSuper(m, w)
           \/ \E v \in Operands : Foreach(v, w)
Return == \E vs \in {<<Nil>>, <<Num, Self>>, <<Self>>} : OpRet(vs)

Next == Declare \/ Operate \/ Begin \/ Do \/ OpForeach \/ Return
Spec == Init /\ [][Next]_vars
----------------------------------------------------------------------------
(* Every call enters the function that the language says, with its self    *)
(* and arguments where the function looks for them; or it fails when it    *)
(* should, with the message that it left for runerror.                     *)
Dispatched ==
  /\ status = "error" <=> got = Failure
  /\ status = "error" => message = Message
  /\ status = "run" => Len(frames) = Len(owed)
  /\ \A k \in DOMAIN frames :
       LET f == frames[k]
           o == owed[k]
       IN  /\ f.fn = o.fn /\ f.base = o.at
           /\ SubSeq(stack, o.at, o.at + Len(o.args)) = <<o.self>> \o o.args

(* A call leaves, in place of callee and arguments, as many results as its *)
(* place in the program takes, and they are those the function returned.   *)
Delivered == got \notin {Nothing, Failure} => SubSeq(stack, got.at, Len(stack)) = got.vals

(* The stack never exceeds its array of S_STACK_MAX bytes, "Max stack size *)
(* in bytes" (skconf.h:143).  push() stops a program at the limit; not so  *)
(* the three values that OP_FOREACH_PREP copies (vmachine.c:1092).         *)
InBounds == Len(stack) <= StackMax
=============================================================================
