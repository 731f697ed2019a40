----------------------------- MODULE CallsProofs -----------------------------
(***************************************************************************)
(* Calls, for any classes, instances, native functions and limits: every   *)
(* call enters the function that the language says, and delivers what it   *)
(* returned.                                                               *)
(***************************************************************************)
EXTENDS Calls, SequenceFacts

----------------------------------------------------------------------------
(* The inductive invariant.                                                *)

(* What can be on the stack, where I has the instances that exist: a plain *)
(* function is only ever called.                                           *)
Fns         == {Fn(c, m) : c \in Class, m \in Names}
Natives     == {Native(f) : f \in Tidy \cup Sloppy}
Classes     == {ClassVal(c) : c \in Class}
BoundsOf(I) == {Bound(i, f) : i \in I, f \in Fns}
ValuesOf(I) == {Nil, Num, Main, Iter, Message, Key} \cup Natives \cup Classes
                 \cup BoundsOf(I) \cup {Object(i) : i \in I}
Allocated   == {i \in Inst : oclass[i] # ""}
Values      == ValuesOf(Allocated)
FieldValues == {None, Iter} \cup Natives \cup BoundsOf(Allocated)

(* The tables of methods agree with the declarations they were copied from.*)
InTable(c) == /\ \A m \in Names : methods[c][m] = Nearest(lineage[c], m)
              /\ overloaded[c] = Nearest(lineage[c], "init")

(* A lineage goes on with that of the superclass, and the class whose body *)
(* is being executed is in no other lineage.                               *)
InLine(c) ==
  /\ Declared(c) => lineage[c][1] = c
  /\ ~Declared(c) => own[c] = {}
  /\ Len(lineage[c]) > 1 => Tail(lineage[c]) = lineage[lineage[c][2]]
  /\ \A i \in 1 .. Len(lineage[c]) : /\ Declared(lineage[c][i])
                                     /\ c # body => lineage[c][i] # body
TableTypes ==
  /\ methods \in [Class -> [Names -> Fns \cup {None}]]
  /\ overloaded \in [Class -> Fns \cup {None}]
LineTypes ==
  /\ own \in [Class -> SUBSET Names] /\ lineage \in [Class -> Seq(Class)]
  /\ body \in Class \cup {""}
ClassInv == /\ TableTypes /\ LineTypes
            /\ \A c \in Class : InTable(c) /\ InLine(c)
            /\ body # "" => Declared(body)

ObjectInv == /\ oclass \in [Inst -> Class \cup {""}]
             /\ field \in [Inst -> FieldValues]

FrameFns == {Main, Iter} \cup Fns
Frames   == [fn : FrameFns, base : Nat \ {0}, want : Nat]
Intents  == [kind : {"fn"}, fn : FrameFns, self : ValuesOf(Inst), args : Seq(ValuesOf(Inst)),
             want : Nat, at : Nat]
Marks    == [at : Nat, how : {"call", "invoke", "index", "super"}, depth : Nat]
Loops    == [depth : Nat, vars : Nat \ {0}, it : ValuesOf(Inst)]
TypeInv  == /\ stack \in Seq(Values) /\ Len(stack) <= StackMax
            /\ frames \in Seq(Frames) /\ owed \in Seq(Intents)
            /\ callstart \in Seq(Marks) /\ loops \in Seq(Loops)

(* A frame is as its call was meant; its parameters are below the next one.*)
EndOf(f) == f.base + Arity(f.fn)
Agrees(f, o, s) ==
  /\ f.fn = o.fn /\ f.base = o.at
  /\ f.want = o.want \/ (f.fn.m = "init" /\ f.want = 1 /\ o.want = 0)
  /\ f.fn \in Fns => o.self.t = "instance"
  /\ Len(o.args) = Arity(f.fn)
  /\ s[f.base] = o.self
  /\ \A j \in 1 .. Arity(f.fn) : s[f.base + j] = o.args[j]
FramesOK(fr, ow, s) ==
  /\ fr # <<>> /\ Len(ow) = Len(fr)
  /\ \A k \in 1 .. Len(fr) :
       /\ Agrees(fr[k], ow[k], s) /\ EndOf(fr[k]) <= Len(s)
       /\ \A j \in 1 .. k - 1 : EndOf(fr[j]) < fr[k].base

(* The marks of callstart, with the callee and the receiver of an indexed  *)
(* call, are above the parameters of their frame and below the next frame. *)
(* A call of super is made in a method of a class that has a superclass.   *)
Derived  == {c \in Class : Len(lineage[c]) > 1}
LowOf(e) == IF e.how = "index" THEN e.at - 1 ELSE e.at
OfSuper(f, d) == f.fn \in Fns /\ f.fn.c \in d
MarkOK(e, fr, s, d) ==
  /\ e.depth \in 1 .. Len(fr) /\ EndOf(fr[e.depth]) < LowOf(e) /\ e.at <= Len(s)
  /\ e.depth < Len(fr) => e.at < fr[e.depth + 1].base
  /\ e.how = "super" => OfSuper(fr[e.depth], d) /\ s[e.at] = s[fr[e.depth].base]
Precedes(e, f) == e.depth <= f.depth /\ (e.depth = f.depth => e.at < LowOf(f))
MarksOK(cs, fr, s, d) ==
  \A i \in 1 .. Len(cs) : /\ MarkOK(cs[i], fr, s, d)
                          /\ \A j \in 1 .. i - 1 : Precedes(cs[j], cs[i])

(* The three variables of a loop whose iterator is running are below it, or*)
(* below its results.                                                      *)
LoopTop(l, fr, s) == IF l.depth = Len(fr) THEN Len(s) - l.vars ELSE fr[l.depth + 1].base - 1
LoopOK(l, cs, fr, s) ==
  /\ l.depth \in 1 .. Len(fr) /\ LoopTop(l, fr, s) <= Len(s)
  /\ EndOf(fr[l.depth]) <= LoopTop(l, fr, s) - 3
  /\ s[LoopTop(l, fr, s) - 2] = l.it /\ s[LoopTop(l, fr, s) - 1] = Nil
  /\ l.depth < Len(fr) => fr[l.depth + 1].want = l.vars
  /\ \A i \in 1 .. Len(cs) : cs[i].depth # l.depth
LoopsOK(lp, cs, fr, s) == Len(lp) <= 1 /\ \A i \in 1 .. Len(lp) : LoopOK(lp[i], cs, fr, s)

(* What is known of the step just made.                                    *)
GotInv == /\ status = "error" <=> got = Failure
          /\ status = "error" => message = Message
          /\ Delivered

CInv == /\ ClassInv /\ ObjectInv /\ TypeInv /\ GotInv
        /\ FramesOK(frames, owed, stack)
        /\ status = "run" => /\ MarksOK(callstart, frames, stack, Derived)
                             /\ LoopsOK(loops, callstart, frames, stack)
        /\ body # "" => status = "run" /\ Len(stack) = 1
----------------------------------------------------------------------------
(* Methods.                                                                *)

(* Nearest, for any table of declarations.                                 *)
Earliest(I) == CHOOSE i \in I : \A j \in I : i <= j
Declaring(o, line, m) == {i \in DOMAIN line : m \in o[line[i]]}
NearestIn(o, line, m) == IF Declaring(o, line, m) = {} THEN None
                         ELSE Fn(line[Earliest(Declaring(o, line, m))], m)

(* The first class of a line that declares the method decides.             *)
LEMMA NearestFirst ==
  ASSUME NEW o, NEW line \in Seq(Class), NEW m, NEW i \in 1 .. Len(line),
         m \in o[line[i]], \A j \in 1 .. i - 1 : m \notin o[line[j]]
  PROVE  NearestIn(o, line, m) = Fn(line[i], m)
  <1>. DEFINE I == Declaring(o, line, m)
              least == Earliest(I)
  <1>1. Len(line) \in Nat /\ DOMAIN line = 1 .. Len(line) BY LenProperties
  <1>2. i \in I /\ \A j \in I : j \in Nat /\ i <= j BY <1>1 DEF Declaring
  <1>3. least \in I /\ \A j \in I : least <= j BY <1>2 DEF Earliest
  <1>. HIDE DEF I, least
  <1>4. least = i
    <2>1. least \in Nat /\ i \in Nat /\ i <= least /\ least <= i BY <1>1, <1>2, <1>3
    <2>. QED BY <2>1
  <1>5. NearestIn(o, line, m) = Fn(line[least], m) BY <1>2 DEF NearestIn, I, least
  <1>. QED BY <1>4, <1>5

(* ... and without one there is none.                                      *)
LEMMA NearestNone ==
  ASSUME NEW o, NEW line \in Seq(Class), NEW m,
         \A i \in 1 .. Len(line) : m \notin o[line[i]]
  PROVE  NearestIn(o, line, m) = None
  <1>1. Declaring(o, line, m) = {} BY LenProperties DEF Declaring
  <1>. QED BY <1>1 DEF NearestIn

(* Either no class of a line has the name, or a first one does.            *)
LEMMA NearestCases ==
  ASSUME NEW o, NEW line \in Seq(Class), NEW m
  PROVE  \/ \A i \in 1 .. Len(line) : m \notin o[line[i]]
         \/ \E i \in 1 .. Len(line) :
              m \in o[line[i]] /\ \A j \in 1 .. i - 1 : m \notin o[line[j]]
  <1>. DEFINE I == {i \in 1 .. Len(line) : m \in o[line[i]]}
  <1>. SUFFICES ASSUME I # {}
                PROVE  \E i \in I : \A j \in 1 .. i - 1 : m \notin o[line[j]]
    OBVIOUS
  <1>1. Len(line) \in Nat /\ I \subseteq Nat BY LenProperties
  <1>2. PICK i \in I : \A j \in I : i <= j BY <1>1, LeastExists
  <1>3. \A j \in 1 .. i - 1 : j \in 1 .. Len(line) /\ ~(i <= j) BY <1>1
  <1>. QED BY <1>2, <1>3

(* A class that does not declare the method has it from its superclass.    *)
LEMMA NearestOn ==
  ASSUME NEW o, NEW line \in Seq(Class), NEW m, line # <<>>, m \notin o[line[1]]
  PROVE  NearestIn(o, line, m) = NearestIn(o, Tail(line), m)
  <1>1. /\ Len(line) \in Nat \ {0} /\ Tail(line) \in Seq(Class) /\ Len(Tail(line)) = Len(line) - 1
        /\ \A i \in 1 .. Len(line) - 1 : Tail(line)[i] = line[i + 1]
    BY HeadTailProperties, EmptySeq
  <1>2. CASE \A i \in 1 .. Len(Tail(line)) : m \notin o[Tail(line)[i]]
    <2>1. ASSUME NEW i \in 1 .. Len(line) PROVE m \notin o[line[i]]
      <3>1. CASE i = 1 BY <3>1
      <3>2. CASE i # 1
        <4>1. i - 1 \in 1 .. Len(line) - 1 /\ (i - 1) + 1 = i BY <1>1, <3>2
        <4>. QED BY <1>1, <1>2, <4>1
      <3>. QED BY <3>1, <3>2
    <2>. QED BY <1>1, <1>2, <2>1, NearestNone
  <1>3. ASSUME NEW i \in 1 .. Len(Tail(line)), m \in o[Tail(line)[i]],
               \A j \in 1 .. i - 1 : m \notin o[Tail(line)[j]]
        PROVE  NearestIn(o, line, m) = NearestIn(o, Tail(line), m)
    <2>0. i + 1 \in 1 .. Len(line) /\ line[i + 1] = Tail(line)[i] BY <1>1
    <2>1. PICK k \in 1 .. Len(line) : k = i + 1 /\ line[k] = Tail(line)[i] BY <2>0
    <2>2. ASSUME NEW j \in 1 .. k - 1 PROVE m \notin o[line[j]]
      <3>1. CASE j = 1 BY <3>1
      <3>2. CASE j # 1
        <4>1. j - 1 \in 1 .. i - 1 /\ j - 1 \in 1 .. Len(line) - 1 /\ (j - 1) + 1 = j
          BY <1>1, <2>1, <3>2
        <4>. QED BY <1>1, <1>3, <4>1
      <3>. QED BY <3>1, <3>2
    <2>3. m \in o[line[k]] /\ \A j \in 1 .. k - 1 : m \notin o[line[j]]
      BY <1>3, <2>1, <2>2
    <2>4. NearestIn(o, line, m) = Fn(line[k], m) BY <2>3, NearestFirst
    <2>5. NearestIn(o, Tail(line), m) = Fn(Tail(line)[i], m)
      <3>. DEFINE T == Tail(line)
      <3>1. T \in Seq(Class) /\ i \in 1 .. Len(T) BY <1>1
      <3>2. m \in o[T[i]] /\ \A j \in 1 .. i - 1 : m \notin o[T[j]] BY <1>3
      <3>. HIDE DEF T
      <3>3. NearestIn(o, T, m) = Fn(T[i], m) BY <3>1, <3>2, NearestFirst
      <3>. QED BY <3>3 DEF T
    <2>. QED BY <2>1, <2>4, <2>5
  <1>. QED BY <1>1, <1>2, <1>3, NearestCases

(* What a declaration changes is what the line sees.                       *)
LEMMA NearestSame ==
  ASSUME NEW o, NEW n, NEW line \in Seq(Class), NEW m,
         \A i \in 1 .. Len(line) : m \in o[line[i]] <=> m \in n[line[i]]
  PROVE  NearestIn(o, line, m) = NearestIn(n, line, m)
  <1>1. Declaring(o, line, m) = Declaring(n, line, m) BY LenProperties DEF Declaring
  <1>. QED BY <1>1 DEF NearestIn

(* Nearest is NearestIn of the declarations there are.                     *)
LEMMA NearestNow == /\ \A line, m : Nearest(line, m) = NearestIn(own, line, m)
                    /\ \A line, m : Nearest(line, m)' = NearestIn(own', line, m)
  BY DEF Nearest, NearestIn, Declaring, Earliest

(* A class' lineage lists classes, and is empty until the class is         *)
(* declared.                                                               *)
LEMMA LineFacts ==
  ASSUME ClassInv, NEW c \in Class
  PROVE  /\ lineage[c] \in Seq(Class) /\ Len(lineage[c]) \in Nat /\ own[c] \subseteq Names
         /\ \A i \in 1 .. Len(lineage[c]) : lineage[c][i] \in Class
         /\ Declared(c) <=> Len(lineage[c]) > 0
  <1>1. lineage[c] \in Seq(Class) /\ own[c] \subseteq Names BY DEF ClassInv, LineTypes
  <1>. DEFINE l == lineage[c]
  <1>2. l \in Seq(Class) BY <1>1
  <1>. HIDE DEF l
  <1>3. Len(l) \in Nat /\ \A i \in 1 .. Len(l) : l[i] \in Class BY <1>2, LenProperties, ElementOfSeq
  <1>4. l # <<>> <=> Len(l) > 0 BY <1>2, <1>3, EmptySeq
  <1>. QED BY <1>1, <1>3, <1>4 DEF Declared, l

(* A declared class comes first in its lineage, its superclass' lineage is *)
(* the rest of it, and all of it is declared.                              *)
LEMMA InLineFacts ==
  ASSUME ClassInv, NEW c \in Class
  PROVE  /\ Declared(c) => lineage[c][1] = c
         /\ ~Declared(c) => own[c] = {}
         /\ Len(lineage[c]) > 1 => Tail(lineage[c]) = lineage[lineage[c][2]]
         /\ \A i \in 1 .. Len(lineage[c]) : /\ Declared(lineage[c][i])
                                            /\ c # body => lineage[c][i] # body
  BY DEF ClassInv, InLine

(* The method tables the code filled by copying hold what the nearest      *)
(* class of the lineage declares.                                          *)
LEMMA TableFacts ==
  ASSUME ClassInv, NEW c \in Class
  PROVE  /\ \A m \in Names : methods[c][m] = NearestIn(own, lineage[c], m)
         /\ overloaded[c] = NearestIn(own, lineage[c], "init")
  <1>1. InTable(c) BY DEF ClassInv
  <1>. QED BY <1>1, NearestNow DEF InTable
(* OP_CLASS: nothing is known of the new class.                            *)
LEMMA ClassStep ==
  ASSUME ClassInv, NEW c \in Class, OpClass(c)
  PROVE  ClassInv'
  <1>. DEFINE one == <<c>>
  <1>1. /\ body = "" /\ ~Declared(c) /\ body' = c /\ lineage' = [lineage EXCEPT ![c] = one]
        /\ methods' = methods /\ overloaded' = overloaded /\ own' = own
    BY DEF OpClass
  <1>2. one \in Seq(Class) /\ Len(one) = 1 /\ one[1] = c /\ one # <<>> OBVIOUS
  <1>. HIDE DEF one
  <1>3. /\ lineage'[c] = one /\ lineage' \in [Class -> Seq(Class)]
        /\ \A d \in Class : d # c => lineage'[d] = lineage[d]
    BY <1>1, <1>2 DEF ClassInv, LineTypes
  <1>4. own[c] = {} /\ lineage[c] = <<>> BY <1>1, InLineFacts DEF Declared
  <1>5. \A d \in Class : d # c => ~Declared(d)' <=> ~Declared(d)
    BY <1>3 DEF Declared
  <1>6. Declared(c)' BY <1>2, <1>3 DEF Declared
  <1>7. ASSUME NEW d \in Class PROVE InTable(d)'
    <2>1. CASE d # c
      <3>1. lineage'[d] = lineage[d] BY <1>3, <2>1
      <3>2. InTable(d) BY DEF ClassInv
      <3>. QED BY <1>1, <3>1, <3>2, NearestNow DEF InTable
    <2>2. CASE d = c
      <3>1. \A m : NearestIn(own, one, m) = None
        <4>1. \A m : \A i \in 1 .. Len(one) : m \notin own[one[i]] BY <1>2, <1>4
        <4>. QED BY <1>2, <4>1, NearestNone
      <3>2. \A m : NearestIn(own, lineage[c], m) = None
        <4>1. \A m : \A i \in 1 .. Len(lineage[c]) : m \notin own[lineage[c][i]] BY <1>4, EmptySeq
        <4>2. lineage[c] \in Seq(Class) BY LineFacts
        <4>. QED BY <4>1, <4>2, NearestNone
      <3>3. /\ \A m \in Names : methods[c][m] = None
            /\ overloaded[c] = None
        BY <3>2, TableFacts
      <3>. QED BY <1>1, <1>3, <2>2, <3>1, <3>3, NearestNow DEF InTable
    <2>. QED BY <2>1, <2>2
  <1>8. ASSUME NEW d \in Class PROVE InLine(d)'
    <2>1. CASE d # c
      <3>1. lineage'[d] = lineage[d] BY <1>3, <2>1
      <3>2. \A i \in 1 .. Len(lineage[d]) : /\ lineage[d][i] \in Class /\ lineage[d][i] # c
                                            /\ Declared(lineage[d][i])
        BY <1>1, InLineFacts, LineFacts
      <3>3. \A i \in 1 .. Len(lineage[d]) : lineage'[lineage[d][i]] # <<>>
        BY <1>3, <3>2 DEF Declared
      <3>4. Len(lineage[d]) > 1 => Tail(lineage'[d]) = lineage'[lineage'[d][2]]
        <4>1. SUFFICES ASSUME Len(lineage[d]) > 1 PROVE Tail(lineage[d]) = lineage'[lineage[d][2]]
          BY <3>1
        <4>2. 2 \in 1 .. Len(lineage[d]) BY <4>1, LineFacts
        <4>3. lineage'[lineage[d][2]] = lineage[lineage[d][2]] BY <1>3, <3>2, <4>2
        <4>. QED BY <4>1, <4>3, InLineFacts
      <3>5. (Declared(d)' => lineage'[d][1] = d) /\ (~Declared(d)' => own'[d] = {})
        BY <1>1, <1>5, <2>1, <3>1, InLineFacts
      <3>. QED BY <1>1, <3>1, <3>2, <3>3, <3>4, <3>5 DEF InLine, Declared
    <2>2. CASE d = c
      <3>1. \A i \in 1 .. Len(one) : one[i] = c BY <1>2
      <3>2. Len(lineage'[d]) = 1 /\ lineage'[d][1] = d /\ lineage'[d] # <<>>
        BY <1>2, <1>3, <2>2
      <3>3. \A i \in 1 .. Len(lineage'[d]) : lineage'[d][i] = d BY <1>3, <2>2, <3>1
      <3>4. ~(Len(lineage'[d]) > 1) BY <3>2
      <3>5. \A i \in 1 .. Len(lineage'[d]) : lineage'[lineage'[d][i]] # <<>>
        BY <3>2, <3>3
      <3>6. d = body' BY <1>1, <2>2
      <3>. QED BY <3>2, <3>4, <3>5, <3>6 DEF InLine, Declared
    <2>. QED BY <2>1, <2>2
  <1>9. TableTypes' BY <1>1 DEF ClassInv, TableTypes
  <1>10. LineTypes' BY <1>1, <1>3 DEF ClassInv, LineTypes
  <1>. QED BY <1>1, <1>6, <1>7, <1>8, <1>9, <1>10 DEF ClassInv

(* A line of one before another.                                           *)
LEMMA OneBefore ==
  ASSUME NEW S, NEW a \in Seq(S), NEW z \in Seq(S)
  PROVE  Len(a) = 1 => /\ a \o z \in Seq(S) /\ Len(a \o z) = 1 + Len(z) /\ (a \o z)[1] = a[1]
                       /\ \A i \in 1 .. Len(z) : (a \o z)[1 + i] = z[i]
                       /\ Tail(a \o z) = z
  <1>0. /\ a \o z \in Seq(S) /\ Len(a \o z) = Len(a) + Len(z)
        /\ \A i \in 1 .. Len(a) : (a \o z)[i] = a[i]
        /\ \A j \in 1 .. Len(z) : (a \o z)[Len(a) + j] = z[j]
    BY Joined
  <1>. HAVE Len(a) = 1
  <1>1. /\ a \o z \in Seq(S) /\ Len(a \o z) = 1 + Len(z) /\ (a \o z)[1] = a[1]
        /\ \A i \in 1 .. Len(z) : (a \o z)[1 + i] = z[i]
    BY <1>0
  <1>. DEFINE w == a \o z
  <1>2. w \in Seq(S) /\ Len(w) = 1 + Len(z) /\ \A i \in 1 .. Len(z) : w[1 + i] = z[i]
    BY <1>1
  <1>. HIDE DEF w
  <1>3. Len(z) \in Nat BY LenProperties
  <1>4. w # <<>> BY <1>2, <1>3, EmptySeq
  <1>5. /\ Tail(w) \in Seq(S) /\ Len(Tail(w)) = Len(w) - 1
        /\ \A i \in 1 .. Len(Tail(w)) : Tail(w)[i] = w[i + 1]
    BY <1>2, <1>4, HeadTailProperties
  <1>6. Len(Tail(w)) = Len(z) BY <1>2, <1>3, <1>5
  <1>7. \A i \in 1 .. Len(Tail(w)) : Tail(w)[i] = z[i] BY <1>2, <1>3, <1>5, <1>6
  <1>8. Tail(w) = z BY <1>5, <1>6, <1>7, SeqEqual
  <1>. QED BY <1>1, <1>8 DEF w

(* OP_INHERIT: the tables of the superclass are those of its line.         *)
LEMMA InheritStep ==
  ASSUME ClassInv, NEW s \in Class, OpInherit(s)
  PROVE  ClassInv'
  <1>0. body \in Class BY DEF OpInherit, ClassInv, LineTypes
  <1>. PICK b \in Class : b = body BY <1>0
  <1>1. /\ own[b] = {} /\ Len(lineage[b]) = 1 /\ Declared(s) /\ s # b
        /\ methods' = [methods EXCEPT ![b] = Into(methods[s], methods[b])]
        /\ overloaded' = [overloaded EXCEPT ![b] = overloaded[s]]
        /\ lineage' = [lineage EXCEPT ![b] = lineage[b] \o lineage[s]]
        /\ body' = b /\ own' = own /\ body = b
    BY DEF OpInherit
  <1>2. /\ lineage[b] \in Seq(Class) /\ lineage[s] \in Seq(Class)
        /\ Len(lineage[s]) \in Nat /\ Len(lineage[s]) > 0 /\ Declared(b)
        /\ \A i \in 1 .. Len(lineage[s]) : lineage[s][i] \in Class
    <2>1. Len(lineage[b]) > 0 BY <1>1
    <2>2. Declared(b) BY <2>1, LineFacts
    <2>3. /\ Len(lineage[s]) \in Nat /\ Len(lineage[s]) > 0 /\ lineage[s] \in Seq(Class)
          /\ \A i \in 1 .. Len(lineage[s]) : lineage[s][i] \in Class
      BY <1>1, LineFacts
    <2>4. lineage[b] \in Seq(Class) BY LineFacts
    <2>. QED BY <2>2, <2>3, <2>4
  <1>3. lineage[b][1] = b /\ lineage[s][1] = s BY <1>1, <1>2, InLineFacts
  <1>. DEFINE line == lineage[b] \o lineage[s]
  <1>4. /\ line \in Seq(Class) /\ Len(line) = 1 + Len(lineage[s]) /\ line[1] = b
        /\ \A i \in 1 .. Len(lineage[s]) : line[1 + i] = lineage[s][i]
        /\ Tail(line) = lineage[s]
    <2>0. PICK x \in Seq(Class), z \in Seq(Class) : x = lineage[b] /\ z = lineage[s]
      BY <1>2
    <2>1. Len(x) = 1 => /\ x \o z \in Seq(Class) /\ Len(x \o z) = 1 + Len(z) /\ (x \o z)[1] = x[1]
                        /\ \A i \in 1 .. Len(z) : (x \o z)[1 + i] = z[i]
                        /\ Tail(x \o z) = z
      <3>. HIDE DEF line
      <3>. QED BY OneBefore
    <2>. QED BY <1>1, <1>3, <2>0, <2>1
  <1>. HIDE DEF line
  <1>5. line # <<>> /\ Len(line) \in Nat BY <1>2, <1>4, EmptySeq
  <1>6. Tail(line) = lineage[s] BY <1>4
  <1>7. /\ lineage'[b] = line /\ lineage' \in [Class -> Seq(Class)]
        /\ \A d \in Class : d # b => lineage'[d] = lineage[d]
    BY <1>1, <1>4 DEF ClassInv, LineTypes, line
  <1>8. \A d \in Class : Declared(d)' <=> Declared(d)
    BY <1>2, <1>5, <1>7 DEF Declared
  <1>9. \A m : NearestIn(own, line, m) = NearestIn(own, lineage[s], m)
    <2>1. \A m : m \notin own[line[1]] BY <1>1, <1>4
    <2>. QED BY <1>4, <1>5, <1>6, <2>1, NearestOn
  <1>10. ASSUME NEW m \in Names PROVE methods'[b][m] = methods[s][m]
    <2>1. \A i \in 1 .. Len(lineage[b]) : m \notin own[lineage[b][i]] BY <1>1, <1>3
    <2>2. NearestIn(own, lineage[b], m) = None BY <1>2, <2>1, NearestNone
    <2>3. methods[b][m] = None BY <2>2, TableFacts
    <2>4. methods'[b] = Into(methods[s], methods[b]) BY <1>1 DEF ClassInv, TableTypes
    <2>. QED BY <2>3, <2>4 DEF Into
  <1>11. TableTypes' /\ overloaded'[b] = overloaded[s]
         /\ \A d \in Class : d # b => methods'[d] = methods[d] /\ overloaded'[d] = overloaded[d]
    <2>1. Into(methods[s], methods[b]) \in [Names -> Fns \cup {None}]
      BY DEF ClassInv, TableTypes, Into
    <2>. QED BY <1>1, <2>1 DEF ClassInv, TableTypes
  <1>12. ASSUME NEW d \in Class PROVE InTable(d)'
    <2>1. CASE d # b
      <3>1. InTable(d) BY DEF ClassInv
      <3>2. lineage'[d] = lineage[d] /\ methods'[d] = methods[d] /\ overloaded'[d] = overloaded[d]
        BY <1>7, <1>11, <2>1
      <3>. QED BY <1>1, <3>1, <3>2, NearestNow DEF InTable
    <2>2. CASE d = b
      <3>1. \A m \in Names : methods'[b][m] = NearestIn(own, line, m)
        BY <1>9, <1>10, TableFacts
      <3>2. overloaded'[b] = NearestIn(own, line, "init") BY <1>9, <1>11, TableFacts
      <3>. QED BY <1>1, <1>7, <2>2, <3>1, <3>2, NearestNow DEF InTable
    <2>. QED BY <2>1, <2>2
  <1>13. ASSUME NEW d \in Class PROVE InLine(d)'
    <2>1. CASE d # b
      <3>1. lineage'[d] = lineage[d] BY <1>7, <2>1
      <3>2. \A i \in 1 .. Len(lineage[d]) : /\ lineage[d][i] \in Class /\ lineage[d][i] # b
                                            /\ Declared(lineage[d][i])
        BY <1>1, <2>1, InLineFacts, LineFacts
      <3>3. \A i \in 1 .. Len(lineage[d]) : lineage'[lineage[d][i]] # <<>>
        BY <1>7, <3>2 DEF Declared
      <3>4. Len(lineage[d]) > 1 => Tail(lineage'[d]) = lineage'[lineage'[d][2]]
        <4>1. SUFFICES ASSUME Len(lineage[d]) > 1 PROVE Tail(lineage[d]) = lineage'[lineage[d][2]]
          BY <3>1
        <4>2. 2 \in 1 .. Len(lineage[d]) BY <4>1, LineFacts
        <4>3. lineage'[lineage[d][2]] = lineage[lineage[d][2]] BY <1>7, <3>2, <4>2
        <4>. QED BY <4>1, <4>3, InLineFacts
      <3>5. (Declared(d)' => lineage'[d][1] = d) /\ (~Declared(d)' => own'[d] = {})
        BY <1>1, <1>8, <3>1, InLineFacts
      <3>. QED BY <1>1, <3>1, <3>2, <3>3, <3>4, <3>5 DEF InLine, Declared
    <2>2. CASE d = b
      <3>1. line[2] = s
        <4>1. 1 \in 1 .. Len(lineage[s]) BY <1>2
        <4>2. line[1 + 1] = lineage[s][1] BY <1>4, <4>1
        <4>. QED BY <1>3, <4>2
      <3>2. ASSUME NEW i \in 1 .. Len(line) PROVE line[i] \in Class /\ Declared(line[i])
        <4>1. CASE i = 1 BY <1>2, <1>4, <4>1
        <4>2. CASE i # 1
          <5>1. PICK j \in 1 .. Len(lineage[s]) : i = 1 + j
            <6>1. i - 1 \in 1 .. Len(lineage[s]) /\ i = 1 + (i - 1) BY <1>2, <1>4, <4>2
            <6>. QED BY <6>1
          <5>. QED BY <1>2, <1>4, <5>1, InLineFacts
        <4>. QED BY <4>1, <4>2
      <3>3. \A i \in 1 .. Len(line) : lineage'[line[i]] # <<>>
        BY <1>5, <1>7, <3>2 DEF Declared
      <3>4. lineage'[s] = lineage[s] BY <1>1, <1>7
      <3>5. /\ Tail(lineage'[b]) = lineage'[lineage'[b][2]]
            /\ \A i \in 1 .. Len(lineage'[b]) : lineage'[lineage'[b][i]] # <<>>
        BY <1>6, <1>7, <3>1, <3>3, <3>4
      <3>6. lineage'[b][1] = b /\ lineage'[b] # <<>> BY <1>4, <1>5, <1>7
      <3>. QED BY <1>1, <2>2, <3>5, <3>6 DEF InLine, Declared
    <2>. QED BY <2>1, <2>2
  <1>14. LineTypes' BY <1>1, <1>7 DEF ClassInv, LineTypes
  <1>. QED BY <1>1, <1>2, <1>8, <1>11, <1>12, <1>13, <1>14 DEF ClassInv

(* OP_METHOD, with OP_OVERLOAD: no line but its own has the open class.    *)
LEMMA MethodStep ==
  ASSUME ClassInv, NEW m \in Names, OpMethod(m)
  PROVE  ClassInv'
  <1>0. body \in Class /\ Declared(body) BY DEF OpMethod, ClassInv, LineTypes
  <1>. PICK b \in Class : b = body BY <1>0
  <1>1. /\ m \notin own[b] /\ body = b /\ body' = b /\ lineage' = lineage
        /\ methods' = [methods EXCEPT ![b][m] = Fn(b, m)]
        /\ overloaded' = IF m = "init" THEN [overloaded EXCEPT ![b] = Fn(b, m)] ELSE overloaded
        /\ own' = [own EXCEPT ![b] = own[b] \cup {m}]
    BY DEF OpMethod
  <1>2. Declared(b) /\ lineage[b] \in Seq(Class) /\ Len(lineage[b]) \in Nat /\ Len(lineage[b]) > 0
    BY <1>0, <1>1, LineFacts
  <1>3. lineage[b][1] = b BY <1>2, InLineFacts
  <1>4. \A d \in Class : d # b => \A i \in 1 .. Len(lineage[d]) : lineage[d][i] # b
    BY <1>1, InLineFacts
  <1>5. /\ \A d \in Class : d # b => own'[d] = own[d] /\ methods'[d] = methods[d]
                                       /\ overloaded'[d] = overloaded[d]
        /\ own'[b] = own[b] \cup {m}
        /\ \A n \in Names : methods'[b][n] = IF n = m THEN Fn(b, m) ELSE methods[b][n]
        /\ overloaded'[b] = IF m = "init" THEN Fn(b, m) ELSE overloaded[b]
    BY <1>1 DEF ClassInv, TableTypes, LineTypes
  <1>6. TableTypes'
    <2>1. Fn(b, m) \in Fns BY DEF Fns
    <2>. QED BY <1>1, <2>1 DEF ClassInv, TableTypes
  <1>7. LineTypes' BY <1>1 DEF ClassInv, LineTypes
  <1>8. ASSUME NEW d \in Class, NEW n \in Names, d # b \/ n # m
        PROVE  NearestIn(own', lineage[d], n) = NearestIn(own, lineage[d], n)
    <2>1. /\ lineage[d] \in Seq(Class)
          /\ \A i \in 1 .. Len(lineage[d]) : lineage[d][i] \in Class
      BY LineFacts
    <2>2. \A i \in 1 .. Len(lineage[d]) : n \in own[lineage[d][i]] <=> n \in own'[lineage[d][i]]
      BY <1>4, <1>5, <1>8, <2>1
    <2>. QED BY ONLY <2>1, <2>2, NearestSame
  <1>9. NearestIn(own', lineage[b], m) = Fn(b, m)
    <2>1. 1 \in 1 .. Len(lineage[b]) /\ m \in own'[lineage[b][1]]
      BY <1>2, <1>3, <1>5
    <2>2. \A j \in 1 .. 1 - 1 : m \notin own'[lineage[b][j]] OBVIOUS
    <2>3. NearestIn(own', lineage[b], m) = Fn(lineage[b][1], m)
      BY ONLY <1>2, <2>1, <2>2, NearestFirst
    <2>. QED BY <1>3, <2>3
  <1>10. ASSUME NEW d \in Class PROVE InTable(d)'
    <2>1. "init" \in Names BY DEF Names
    <2>2. ASSUME NEW n \in Names PROVE methods'[d][n] = NearestIn(own', lineage[d], n)
      <3>1. CASE d = b /\ n = m BY <1>5, <1>9, <3>1
      <3>2. CASE d # b \/ n # m
        <4>1. methods'[d][n] = methods[d][n] BY <1>5, <3>2
        <4>. QED BY <1>8, <3>2, <4>1, TableFacts
      <3>. QED BY <3>1, <3>2
    <2>3. overloaded'[d] = NearestIn(own', lineage[d], "init")
      <3>1. CASE d = b /\ m = "init" BY <1>5, <1>9, <3>1
      <3>2. CASE d # b \/ "init" # m
        <4>1. overloaded'[d] = overloaded[d] BY <1>5, <3>2
        <4>. QED BY <1>8, <2>1, <3>2, <4>1, TableFacts
      <3>. QED BY <3>1, <3>2
    <2>. QED BY <1>1, <2>2, <2>3, NearestNow DEF InTable
  <1>11. ASSUME NEW d \in Class PROVE InLine(d)'
    <2>1. InLine(d) BY DEF ClassInv
    <2>2. ~Declared(d) => own'[d] = {} BY <1>2, <1>5, <2>1 DEF InLine
    <2>. QED BY <1>1, <2>1, <2>2 DEF InLine, Declared
  <1>. QED BY <1>1, <1>2, <1>6, <1>7, <1>10, <1>11 DEF ClassInv, Declared

(* The end of the body.                                                    *)
LEMMA EndStep ==
  ASSUME ClassInv, EndClass
  PROVE  ClassInv'
  <1>1. /\ body' = "" /\ lineage' = lineage /\ methods' = methods /\ own' = own
        /\ overloaded' = overloaded
    BY DEF EndClass
  <1>2. ASSUME NEW c \in Class PROVE InLine(c)'
    <2>1. InLine(c) BY DEF ClassInv
    <2>2. \A i \in 1 .. Len(lineage[c]) : lineage[c][i] # "" BY LineFacts, CallsAssumption
    <2>. QED BY <1>1, <2>1, <2>2 DEF InLine, Declared
  <1>3. ASSUME NEW c \in Class PROVE InTable(c)'
    <2>1. InTable(c) BY DEF ClassInv
    <2>. QED BY <1>1, <2>1, NearestNow DEF InTable
  <1>4. TableTypes' /\ LineTypes' BY <1>1 DEF ClassInv, TableTypes, LineTypes
  <1>. QED BY <1>1, <1>2, <1>3, <1>4 DEF ClassInv

(* Every other step leaves classes alone.                                  *)
LEMMA ClassesKept == ClassInv /\ UNCHANGED classes => ClassInv'
  <1>. SUFFICES ASSUME ClassInv, UNCHANGED classes PROVE ClassInv' OBVIOUS
  <1>1. /\ body' = body /\ lineage' = lineage /\ methods' = methods /\ own' = own
        /\ overloaded' = overloaded
    BY DEF classes
  <1>2. ASSUME NEW c \in Class PROVE InTable(c)' /\ InLine(c)'
    <2>1. InTable(c) /\ InLine(c) BY DEF ClassInv
    <2>2. InTable(c)' BY <1>1, <2>1, NearestNow DEF InTable
    <2>3. InLine(c)' BY <1>1, <2>1 DEF InLine, Declared
    <2>. QED BY <2>2, <2>3
  <1>3. TableTypes' /\ LineTypes' BY <1>1 DEF ClassInv, TableTypes, LineTypes
  <1>. QED BY <1>1, <1>2, <1>3 DEF ClassInv, Declared
----------------------------------------------------------------------------
(* Frames, marks and loops, when the stack changes above them.             *)

(* The parameters of a function are counted.                               *)
LEMMA ArityNat == \A f : Arity(f) \in Nat
  BY DEF Arity

(* A frame's base and end are positions of the stack.                      *)
LEMMA FrameType ==
  ASSUME NEW f \in Frames
  PROVE  f.base \in Nat \ {0} /\ EndOf(f) \in Nat /\ f.base <= EndOf(f) /\ f.want \in Nat
  <1>1. f.base \in Nat \ {0} /\ f.want \in Nat BY DEF Frames
  <1>2. EndOf(f) = f.base + Arity(f.fn) BY DEF EndOf
  <1>3. Arity(f.fn) \in Nat BY ArityNat
  <1>. QED BY <1>1, <1>2, <1>3

(* A mark of callstart, and the lowest slot that it protects, are          *)
(* positions too.                                                          *)
LEMMA MarkType ==
  ASSUME NEW e \in Marks
  PROVE  e.at \in Nat /\ e.depth \in Nat /\ LowOf(e) \in Int /\ LowOf(e) <= e.at
  <1>1. e.at \in Nat /\ e.depth \in Nat BY DEF Marks
  <1>2. LowOf(e) = e.at \/ LowOf(e) = e.at - 1 BY DEF LowOf
  <1>. QED BY <1>1, <1>2

(* Frames are one above the other.                                         *)
LEMMA FrameOrder ==
  ASSUME NEW fr \in Seq(Frames), NEW ow, NEW s, FramesOK(fr, ow, s)
  PROVE  /\ Len(fr) \in Nat \ {0} /\ Last(fr) = fr[Len(fr)] /\ Last(fr) \in Frames
         /\ \A k \in 1 .. Len(fr) :
              /\ fr[k] \in Frames /\ fr[k].base <= Last(fr).base
              /\ EndOf(fr[k]) <= EndOf(Last(fr))
              /\ k < Len(fr) => EndOf(fr[k]) < Last(fr).base
  <1>1. Len(fr) \in Nat \ {0} /\ Last(fr) = fr[Len(fr)] /\ Last(fr) \in Frames
    BY Ends DEF FramesOK
  <1>2. ASSUME NEW k \in 1 .. Len(fr)
        PROVE  /\ fr[k] \in Frames /\ fr[k].base <= Last(fr).base
               /\ EndOf(fr[k]) <= EndOf(Last(fr))
               /\ k < Len(fr) => EndOf(fr[k]) < Last(fr).base
    <2>1. fr[k] \in Frames BY ElementOfSeq
    <2>2. /\ fr[k].base \in Nat /\ EndOf(fr[k]) \in Nat /\ fr[k].base <= EndOf(fr[k])
          /\ Last(fr).base \in Nat /\ EndOf(Last(fr)) \in Nat /\ Last(fr).base <= EndOf(Last(fr))
      BY <1>1, <2>1, FrameType
    <2>3. CASE k = Len(fr) BY <1>1, <2>1, <2>2, <2>3
    <2>4. CASE k # Len(fr)
      <3>1. Len(fr) \in 1 .. Len(fr) /\ k \in 1 .. Len(fr) - 1 BY <1>1, <2>4
      <3>2. EndOf(fr[k]) < Last(fr).base BY <1>1, <3>1 DEF FramesOK
      <3>. QED BY <2>1, <2>2, <3>2
    <2>. QED BY <2>3, <2>4
  <1>. QED BY <1>1, <1>2

(* ... each below the next.                                                *)
LEMMA FrameNext ==
  ASSUME NEW fr \in Seq(Frames), NEW ow, NEW s, FramesOK(fr, ow, s),
         NEW k \in 1 .. Len(fr), k < Len(fr)
  PROVE  /\ k + 1 \in 1 .. Len(fr) /\ fr[k + 1] \in Frames /\ EndOf(fr[k]) < fr[k + 1].base
         /\ fr[k + 1].base <= Last(fr).base
  <1>1. k + 1 \in 1 .. Len(fr) /\ k \in 1 .. (k + 1) - 1 BY FrameOrder
  <1>2. EndOf(fr[k]) < fr[k + 1].base BY <1>1 DEF FramesOK
  <1>. QED BY <1>1, <1>2, FrameOrder

(* The stack changes above the last frame.                                 *)
LEMMA FramesCut ==
  ASSUME NEW fr \in Seq(Frames), NEW ow, NEW s, NEW t, FramesOK(fr, ow, s), Len(t) \in Nat,
         NEW n \in Nat, EndOf(Last(fr)) <= n, n <= Len(t), \A i \in 1 .. n : t[i] = s[i]
  PROVE  FramesOK(fr, ow, t)
  <1>1. ASSUME NEW k \in 1 .. Len(fr)
        PROVE  Agrees(fr[k], ow[k], t) /\ EndOf(fr[k]) <= Len(t)
    <2>1. Agrees(fr[k], ow[k], s) BY DEF FramesOK
    <2>2. EndOf(fr[k]) <= EndOf(Last(fr)) /\ fr[k] \in Frames /\ Last(fr) \in Frames
      BY FrameOrder
    <2>3. /\ fr[k].base \in Nat \ {0} /\ EndOf(fr[k]) \in Nat /\ fr[k].base <= EndOf(fr[k])
          /\ EndOf(Last(fr)) \in Nat
      BY <2>2, FrameType
    <2>4. EndOf(fr[k]) <= n BY <2>2, <2>3
    <2>5. fr[k].base \in 1 .. n BY <2>3, <2>4
    <2>6. ASSUME NEW j \in 1 .. Arity(fr[k].fn) PROVE fr[k].base + j \in 1 .. n
      <3>1. EndOf(fr[k]) = fr[k].base + Arity(fr[k].fn) /\ Arity(fr[k].fn) \in Nat
        BY ArityNat DEF EndOf
      <3>. QED BY <2>3, <2>4, <3>1
    <2>7. t[fr[k].base] = s[fr[k].base] BY <2>5
    <2>8. \A j \in 1 .. Arity(fr[k].fn) : t[fr[k].base + j] = s[fr[k].base + j] BY <2>6
    <2>9. Agrees(fr[k], ow[k], t) BY <2>1, <2>7, <2>8 DEF Agrees
    <2>10. EndOf(fr[k]) <= Len(t) BY <2>3, <2>4
    <2>. QED BY <2>9, <2>10
  <1>. QED BY <1>1 DEF FramesOK

(* A frame more.                                                           *)
LEMMA FramesPush ==
  ASSUME NEW fr \in Seq(Frames), NEW ow \in Seq(Intents), NEW t, FramesOK(fr, ow, t),
         NEW f \in Frames, NEW o \in Intents, Agrees(f, o, t), EndOf(f) <= Len(t),
         EndOf(Last(fr)) < f.base
  PROVE  FramesOK(Append(fr, f), Append(ow, o), t)
  <1>. DEFINE g == Append(fr, f)
              w == Append(ow, o)
  <1>1. /\ g \in Seq(Frames) /\ Len(g) = Len(fr) + 1 /\ g[Len(fr) + 1] = f
        /\ \A i \in 1 .. Len(fr) : g[i] = fr[i]
    BY AppendProperties
  <1>2. /\ w \in Seq(Intents) /\ Len(w) = Len(ow) + 1 /\ w[Len(ow) + 1] = o
        /\ \A i \in 1 .. Len(ow) : w[i] = ow[i]
    BY AppendProperties
  <1>3. Len(fr) \in Nat \ {0} /\ Len(ow) = Len(fr) BY FrameOrder DEF FramesOK
  <1>. HIDE DEF g, w
  <1>4. ASSUME NEW k \in 1 .. Len(g)
        PROVE  /\ Agrees(g[k], w[k], t) /\ EndOf(g[k]) <= Len(t)
               /\ \A j \in 1 .. k - 1 : EndOf(g[j]) < g[k].base
    <2>1. CASE k = Len(fr) + 1
      <3>1. g[k] = f /\ w[k] = o BY <1>1, <1>2, <1>3, <2>1
      <3>2. ASSUME NEW j \in 1 .. k - 1 PROVE EndOf(g[j]) < f.base
        <4>1. j \in 1 .. Len(fr) BY <1>3, <2>1
        <4>2. /\ g[j] = fr[j] /\ EndOf(fr[j]) <= EndOf(Last(fr)) /\ Last(fr) \in Frames
              /\ fr[j] \in Frames
          BY <1>1, <4>1, FrameOrder
        <4>3. EndOf(fr[j]) \in Nat /\ EndOf(Last(fr)) \in Nat /\ f.base \in Nat
          BY <4>2, FrameType
        <4>. QED BY <4>2, <4>3
      <3>. QED BY <3>1, <3>2
    <2>2. CASE k # Len(fr) + 1
      <3>1. k \in 1 .. Len(fr) /\ \A j \in 1 .. k - 1 : j \in 1 .. Len(fr) BY <1>1, <1>3, <2>2
      <3>2. g[k] = fr[k] /\ w[k] = ow[k] /\ \A j \in 1 .. k - 1 : g[j] = fr[j]
        BY <1>1, <1>2, <1>3, <3>1
      <3>. QED BY <3>1, <3>2 DEF FramesOK
    <2>. QED BY <2>1, <2>2
  <1>5. g # <<>> /\ Len(w) = Len(g) BY <1>1, <1>2, <1>3, EmptySeq
  <1>. QED BY <1>4, <1>5 DEF FramesOK, g, w

(* A frame less; the stack changes from its base on.                       *)
LEMMA FramesPop ==
  ASSUME NEW fr \in Seq(Frames), NEW ow \in Seq(Intents), NEW s, NEW t, FramesOK(fr, ow, s),
         Len(fr) # 1, Len(t) \in Nat, Last(fr).base - 1 <= Len(t),
         \A i \in 1 .. Last(fr).base - 1 : t[i] = s[i]
  PROVE  FramesOK(Front(fr), Front(ow), t) /\ EndOf(Last(Front(fr))) < Last(fr).base
  <1>. DEFINE g == Front(fr)
              w == Front(ow)
  <1>1. Len(fr) \in Nat \ {0} /\ Len(ow) = Len(fr) /\ Last(fr) \in Frames /\ Last(fr) = fr[Len(fr)]
    BY FrameOrder DEF FramesOK
  <1>2. fr # <<>> /\ ow # <<>> BY <1>1, EmptySeq
  <1>3. /\ g \in Seq(Frames) /\ Len(g) = Len(fr) - 1
        /\ \A i \in 1 .. Len(fr) - 1 : g[i] = fr[i]
    BY <1>2, Ends
  <1>4. /\ w \in Seq(Intents) /\ Len(w) = Len(ow) - 1
        /\ \A i \in 1 .. Len(ow) - 1 : w[i] = ow[i]
    BY <1>2, Ends
  <1>5. Last(fr).base \in Nat \ {0} BY <1>1, FrameType
  <1>. HIDE DEF g, w
  <1>6. g # <<>> /\ Len(w) = Len(g) /\ Len(g) \in Nat \ {0} BY <1>1, <1>3, <1>4, EmptySeq
  <1>7. FramesOK(g, w, s)
    <2>1. ASSUME NEW k \in 1 .. Len(g)
          PROVE  /\ Agrees(g[k], w[k], s) /\ EndOf(g[k]) <= Len(s)
                 /\ \A j \in 1 .. k - 1 : EndOf(g[j]) < g[k].base
      <3>1. k \in 1 .. Len(fr) /\ \A j \in 1 .. k - 1 : j \in 1 .. Len(fr) - 1 BY <1>1, <1>3
      <3>2. g[k] = fr[k] /\ w[k] = ow[k] /\ \A j \in 1 .. k - 1 : g[j] = fr[j]
        BY <1>1, <1>3, <1>4, <3>1
      <3>. QED BY <3>1, <3>2 DEF FramesOK
    <2>. QED BY <1>6, <2>1 DEF FramesOK
  <1>8. Last(g) = g[Len(g)] /\ Last(g) \in Frames BY <1>3, <1>6, Ends
  <1>9. EndOf(Last(g)) < Last(fr).base
    <2>1. Len(g) \in 1 .. Len(fr) /\ Len(g) < Len(fr) /\ g[Len(g)] = fr[Len(g)]
      BY <1>1, <1>3, <1>6
    <2>. QED BY <1>8, <2>1, FrameOrder
  <1>10. EndOf(Last(g)) \in Nat BY <1>8, FrameType
  <1>11. PICK n \in Nat : n = Last(fr).base - 1 BY <1>5
  <1>12. EndOf(Last(g)) <= n /\ n <= Len(t) /\ \A i \in 1 .. n : t[i] = s[i]
    BY <1>5, <1>9, <1>10, <1>11
  <1>13. FramesOK(g, w, t) BY <1>3, <1>7, <1>12, FramesCut
  <1>. QED BY <1>9, <1>13 DEF g, w
(* The stack changes above the marks.                                      *)
LEMMA MarksCut ==
  ASSUME NEW fr \in Seq(Frames), NEW ow, NEW s, NEW t, FramesOK(fr, ow, s), Len(t) \in Nat,
         NEW cs \in Seq(Marks), NEW d, MarksOK(cs, fr, s, d),
         NEW n \in Nat, EndOf(Last(fr)) <= n, n <= Len(t), \A i \in 1 .. n : t[i] = s[i],
         \A i \in 1 .. Len(cs) : cs[i].at <= n
  PROVE  MarksOK(cs, fr, t, d)
  <1>1. ASSUME NEW i \in 1 .. Len(cs) PROVE MarkOK(cs[i], fr, t, d)
    <2>1. MarkOK(cs[i], fr, s, d) /\ cs[i].at <= n BY DEF MarksOK
    <2>2. cs[i] \in Marks BY ElementOfSeq
    <2>3. /\ cs[i].at \in Nat /\ LowOf(cs[i]) \in Int /\ LowOf(cs[i]) <= cs[i].at
      BY <2>2, MarkType
    <2>. PICK k \in 1 .. Len(fr) : k = cs[i].depth BY <2>1 DEF MarkOK
    <2>4. /\ fr[k] \in Frames /\ EndOf(fr[k]) <= EndOf(Last(fr)) /\ Last(fr) \in Frames
      BY FrameOrder
    <2>5. /\ fr[k].base \in Nat \ {0} /\ EndOf(fr[k]) \in Nat /\ fr[k].base <= EndOf(fr[k])
          /\ EndOf(Last(fr)) \in Nat
      BY <2>4, FrameType
    <2>6. EndOf(fr[k]) < LowOf(cs[i]) BY <2>1 DEF MarkOK
    <2>7. cs[i].at \in 1 .. n /\ fr[k].base \in 1 .. n BY <2>1, <2>3, <2>4, <2>5, <2>6
    <2>8. t[cs[i].at] = s[cs[i].at] /\ t[fr[k].base] = s[fr[k].base] BY <2>7
    <2>9. cs[i].at <= Len(t) BY <2>1, <2>3
    <2>. QED BY <2>1, <2>8, <2>9 DEF MarkOK
  <1>. QED BY <1>1 DEF MarksOK

(* A mark more.                                                            *)
LEMMA MarksPush ==
  ASSUME NEW fr, NEW s, NEW cs \in Seq(Marks), NEW d, MarksOK(cs, fr, s, d), Len(fr) \in Nat,
         NEW e \in Marks, e.depth = Len(fr), MarkOK(e, fr, s, d),
         \A i \in 1 .. Len(cs) : cs[i].at < LowOf(e)
  PROVE  MarksOK(Append(cs, e), fr, s, d)
  <1>. DEFINE g == Append(cs, e)
  <1>1. /\ g \in Seq(Marks) /\ Len(g) = Len(cs) + 1 /\ g[Len(cs) + 1] = e
        /\ \A i \in 1 .. Len(cs) : g[i] = cs[i]
    BY AppendProperties
  <1>2. Len(cs) \in Nat BY LenProperties
  <1>. HIDE DEF g
  <1>3. ASSUME NEW i \in 1 .. Len(g)
        PROVE  MarkOK(g[i], fr, s, d) /\ \A j \in 1 .. i - 1 : Precedes(g[j], g[i])
    <2>1. CASE i = Len(cs) + 1
      <3>1. g[i] = e BY <1>1, <2>1
      <3>2. ASSUME NEW j \in 1 .. i - 1 PROVE Precedes(g[j], e)
        <4>1. j \in 1 .. Len(cs) BY <1>2, <2>1
        <4>2. g[j] = cs[j] /\ cs[j].at < LowOf(e) BY <1>1, <4>1
        <4>3. MarkOK(cs[j], fr, s, d) BY <4>1 DEF MarksOK
        <4>4. cs[j].depth <= Len(fr) BY <4>3 DEF MarkOK
        <4>. QED BY <4>2, <4>4 DEF Precedes
      <3>. QED BY <3>1, <3>2
    <2>2. CASE i # Len(cs) + 1
      <3>1. i \in 1 .. Len(cs) /\ \A j \in 1 .. i - 1 : j \in 1 .. Len(cs) BY <1>1, <1>2, <2>2
      <3>2. g[i] = cs[i] /\ \A j \in 1 .. i - 1 : g[j] = cs[j] BY <1>1, <3>1
      <3>. QED BY <3>1, <3>2 DEF MarksOK
    <2>. QED BY <2>1, <2>2
  <1>. QED BY <1>3 DEF MarksOK, g

(* Marks of one frame are one above the other.                             *)
LEMMA MarkOrder ==
  ASSUME NEW fr \in Seq(Frames), NEW ow, NEW s, FramesOK(fr, ow, s),
         NEW cs \in Seq(Marks), NEW d, MarksOK(cs, fr, s, d), NEW i \in 1 .. Len(cs)
  PROVE  /\ cs[i] \in Marks /\ cs[i].depth \in 1 .. Len(fr)
         /\ cs[i].depth # Len(fr) => cs[i].at < Last(fr).base
         /\ \A j \in 1 .. i - 1 : /\ cs[j].depth <= cs[i].depth
                                  /\ cs[i].depth = Len(fr) => cs[j].at < LowOf(cs[i])
  <1>1. cs[i] \in Marks /\ MarkOK(cs[i], fr, s, d) BY ElementOfSeq DEF MarksOK
  <1>2. cs[i].depth \in 1 .. Len(fr) BY <1>1 DEF MarkOK
  <1>3. ASSUME NEW h \in 1 .. Len(cs), cs[h].depth # Len(fr)
        PROVE  cs[h].at < Last(fr).base
    <2>1. cs[h] \in Marks /\ MarkOK(cs[h], fr, s, d) BY ElementOfSeq DEF MarksOK
    <2>. PICK k \in 1 .. Len(fr) : k = cs[h].depth BY <2>1 DEF MarkOK
    <2>2. k < Len(fr) BY <1>3, FrameOrder
    <2>3. cs[h].at < fr[k + 1].base BY <2>1, <2>2 DEF MarkOK
    <2>4. fr[k + 1] \in Frames /\ fr[k + 1].base <= Last(fr).base /\ Last(fr) \in Frames
      BY <2>2, FrameNext, FrameOrder
    <2>5. fr[k + 1].base \in Nat /\ Last(fr).base \in Nat /\ cs[h].at \in Nat
      BY <2>1, <2>4, FrameType, MarkType
    <2>. QED BY <2>3, <2>4, <2>5
  <1>4. ASSUME NEW j \in 1 .. i - 1
        PROVE  cs[j].depth <= cs[i].depth /\ (cs[i].depth = Len(fr) => cs[j].at < LowOf(cs[i]))
    <2>1. Precedes(cs[j], cs[i]) BY DEF MarksOK
    <2>2. j \in 1 .. Len(cs) BY LenProperties
    <2>3. CASE cs[j].depth = Len(fr) \/ cs[i].depth # Len(fr) BY <2>1, <2>3 DEF Precedes
    <2>4. CASE cs[j].depth # Len(fr) /\ cs[i].depth = Len(fr)
      <3>1. cs[j].at < Last(fr).base BY <1>3, <2>2, <2>4
      <3>2. EndOf(fr[Len(fr)]) < LowOf(cs[i]) BY <1>1, <2>4 DEF MarkOK
      <3>3. Last(fr) = fr[Len(fr)] /\ Last(fr) \in Frames BY FrameOrder
      <3>4. Last(fr).base \in Nat /\ EndOf(Last(fr)) \in Nat /\ Last(fr).base <= EndOf(Last(fr))
        BY <3>3, FrameType
      <3>5. cs[j] \in Marks BY <2>2, ElementOfSeq
      <3>6. cs[j].at \in Nat /\ LowOf(cs[i]) \in Int BY <1>1, <3>5, MarkType
      <3>. QED BY <2>1, <3>1, <3>2, <3>3, <3>4, <3>6 DEF Precedes
    <2>. QED BY <2>3, <2>4
  <1>. QED BY <1>1, <1>2, <1>3, <1>4

(* A mark less.                                                            *)
LEMMA MarksPop ==
  ASSUME NEW fr, NEW s, NEW cs \in Seq(Marks), NEW d, MarksOK(cs, fr, s, d), cs # <<>>
  PROVE  MarksOK(Front(cs), fr, s, d)
  <1>. DEFINE g == Front(cs)
  <1>1. /\ Len(cs) \in Nat \ {0} /\ Len(g) = Len(cs) - 1
        /\ \A i \in 1 .. Len(cs) - 1 : g[i] = cs[i]
    BY Ends
  <1>. HIDE DEF g
  <1>2. ASSUME NEW i \in 1 .. Len(g)
        PROVE  MarkOK(g[i], fr, s, d) /\ \A j \in 1 .. i - 1 : Precedes(g[j], g[i])
    <2>1. i \in 1 .. Len(cs) /\ \A j \in 1 .. i - 1 : j \in 1 .. Len(cs) - 1 BY <1>1
    <2>2. g[i] = cs[i] /\ \A j \in 1 .. i - 1 : g[j] = cs[j] BY <1>1, <2>1
    <2>. QED BY <2>1, <2>2 DEF MarksOK
  <1>. QED BY <1>2 DEF MarksOK, g

(* A call is entered above the marks.                                      *)
LEMMA MarksEnter ==
  ASSUME NEW fr \in Seq(Frames), NEW s, NEW cs \in Seq(Marks), NEW d, MarksOK(cs, fr, s, d),
         NEW f \in Frames, \A i \in 1 .. Len(cs) : cs[i].at < f.base
  PROVE  MarksOK(cs, Append(fr, f), s, d)
  <1>. DEFINE g == Append(fr, f)
  <1>1. /\ Len(g) = Len(fr) + 1 /\ g[Len(fr) + 1] = f /\ \A i \in 1 .. Len(fr) : g[i] = fr[i]
    BY AppendProperties
  <1>2. Len(fr) \in Nat BY LenProperties
  <1>. HIDE DEF g
  <1>3. ASSUME NEW i \in 1 .. Len(cs) PROVE MarkOK(cs[i], g, s, d)
    <2>1. MarkOK(cs[i], fr, s, d) /\ cs[i].at < f.base BY DEF MarksOK
    <2>. PICK k \in 1 .. Len(fr) : k = cs[i].depth BY <2>1 DEF MarkOK
    <2>2. k \in 1 .. Len(g) /\ g[k] = fr[k] BY <1>1, <1>2
    <2>3. cs[i].at < g[k + 1].base
      <3>1. CASE k = Len(fr) BY <1>1, <2>1, <3>1
      <3>2. CASE k # Len(fr)
        <4>1. k < Len(fr) /\ k + 1 \in 1 .. Len(fr) BY <1>2, <3>2
        <4>2. g[k + 1] = fr[k + 1] BY <1>1, <4>1
        <4>. QED BY <2>1, <4>1, <4>2 DEF MarkOK
      <3>. QED BY <3>1, <3>2
    <2>. QED BY <2>1, <2>2, <2>3 DEF MarkOK
  <1>. QED BY <1>3 DEF MarksOK, g

(* A function returns that has no mark; the stack changes from its base on.*)
LEMMA MarksReturn ==
  ASSUME NEW fr \in Seq(Frames), NEW ow, NEW s, NEW t, FramesOK(fr, ow, s), Len(t) \in Nat,
         NEW cs \in Seq(Marks), NEW d, MarksOK(cs, fr, s, d), Len(fr) # 1,
         \A i \in 1 .. Len(cs) : cs[i].depth # Len(fr),
         Last(fr).base - 1 <= Len(t), \A i \in 1 .. Last(fr).base - 1 : t[i] = s[i]
  PROVE  MarksOK(cs, Front(fr), t, d)
  <1>. DEFINE g == Front(fr)
  <1>1. /\ Len(fr) \in Nat \ {0} /\ Len(g) = Len(fr) - 1
        /\ \A i \in 1 .. Len(fr) - 1 : g[i] = fr[i]
    BY Ends DEF FramesOK
  <1>. HIDE DEF g
  <1>2. ASSUME NEW i \in 1 .. Len(cs) PROVE MarkOK(cs[i], g, t, d)
    <2>1. /\ MarkOK(cs[i], fr, s, d) /\ cs[i] \in Marks /\ cs[i].depth # Len(fr)
          /\ cs[i].at < Last(fr).base
      BY MarkOrder DEF MarksOK
    <2>. PICK k \in 1 .. Len(fr) : k = cs[i].depth BY <2>1 DEF MarkOK
    <2>2. k \in 1 .. Len(g) /\ g[k] = fr[k] /\ k < Len(fr) BY <1>1, <2>1
    <2>3. k < Len(g) => g[k + 1] = fr[k + 1] BY <1>1
    <2>4. /\ fr[k] \in Frames /\ EndOf(fr[k]) < Last(fr).base /\ Last(fr) \in Frames
          /\ fr[k].base <= Last(fr).base
      BY <2>2, FrameOrder
    <2>5. /\ fr[k].base \in Nat \ {0} /\ EndOf(fr[k]) \in Nat /\ fr[k].base <= EndOf(fr[k])
          /\ Last(fr).base \in Nat
      BY <2>4, FrameType
    <2>6. /\ cs[i].at \in Nat /\ LowOf(cs[i]) \in Int /\ LowOf(cs[i]) <= cs[i].at
      BY <2>1, MarkType
    <2>7. EndOf(fr[k]) < LowOf(cs[i]) BY <2>1 DEF MarkOK
    <2>8. /\ cs[i].at \in 1 .. Last(fr).base - 1 /\ fr[k].base \in 1 .. Last(fr).base - 1
      BY SMTT(60), <2>1, <2>4, <2>5, <2>6, <2>7
    <2>9. t[cs[i].at] = s[cs[i].at] /\ t[fr[k].base] = s[fr[k].base] BY <2>8
    <2>10. cs[i].at <= Len(t) BY <2>5, <2>6, <2>8
    <2>. QED BY <2>1, <2>2, <2>3, <2>9, <2>10 DEF MarkOK
  <1>. QED BY <1>2 DEF MarksOK, g

(* More classes have superclasses.                                         *)
LEMMA MarksWider ==
  ASSUME NEW fr, NEW s, NEW cs, NEW d, NEW e, MarksOK(cs, fr, s, d), d \subseteq e
  PROVE  MarksOK(cs, fr, s, e)
  BY DEF MarksOK, MarkOK, OfSuper
(* A loop whose iterator has not returned; the stack and the marks change  *)
(* above the last frame.                                                   *)
LEMMA LoopCut ==
  ASSUME NEW fr \in Seq(Frames), NEW ow, NEW s, NEW t, FramesOK(fr, ow, s), Len(t) \in Nat,
         NEW l \in Loops, NEW cs, NEW cz, LoopOK(l, cs, fr, s), l.depth # Len(fr),
         NEW n \in Nat, EndOf(Last(fr)) <= n, n <= Len(t), \A i \in 1 .. n : t[i] = s[i],
         \A i \in 1 .. Len(cz) : cz[i].depth # l.depth
  PROVE  LoopOK(l, cz, fr, t)
  <1>. PICK k \in 1 .. Len(fr) : k = l.depth BY DEF LoopOK
  <1>1. k < Len(fr) BY FrameOrder
  <1>. DEFINE p == fr[k + 1].base - 1
  <1>2. LoopTop(l, fr, s) = p /\ LoopTop(l, fr, t) = p BY DEF LoopTop
  <1>3. fr[k + 1] \in Frames /\ fr[k + 1].base <= Last(fr).base /\ Last(fr) \in Frames
        /\ fr[k] \in Frames
    BY <1>1, FrameNext, FrameOrder
  <1>4. /\ fr[k + 1].base \in Nat \ {0} /\ Last(fr).base \in Nat /\ EndOf(Last(fr)) \in Nat
        /\ Last(fr).base <= EndOf(Last(fr)) /\ EndOf(fr[k]) \in Nat
    BY <1>3, FrameType
  <1>5. p \in Nat /\ p <= n BY <1>3, <1>4
  <1>. HIDE DEF p
  <1>6. EndOf(fr[k]) <= p - 3 BY <1>2 DEF LoopOK
  <1>7. p - 2 \in 1 .. n /\ p - 1 \in 1 .. n BY <1>4, <1>5, <1>6
  <1>8. t[p - 2] = s[p - 2] /\ t[p - 1] = s[p - 1] BY <1>7
  <1>9. p <= Len(t) BY <1>5
  <1>. QED BY <1>2, <1>8, <1>9 DEF LoopOK

(* ... all the loops.                                                      *)
KeptTo(fr, s, t, n) == /\ n \in Nat /\ Len(t) \in Nat /\ EndOf(Last(fr)) <= n /\ n <= Len(t)
                       /\ \A i \in 1 .. n : t[i] = s[i]
SameDepths(cs, cz, k) == \A i \in 1 .. Len(cz) :
                           cz[i].depth = k \/ \E j \in 1 .. Len(cs) : cz[i].depth = cs[j].depth
(* ... and when the stack is cut back above the top frame the loops of the *)
(* frames that stay keep their variables.                                  *)
LEMMA LoopsCut ==
  ASSUME NEW fr \in Seq(Frames), NEW ow, NEW s, NEW t, FramesOK(fr, ow, s),
         NEW lp \in Seq(Loops), NEW cs, NEW cz, LoopsOK(lp, cs, fr, s),
         \A i \in 1 .. Len(lp) : lp[i].depth # Len(fr),
         NEW n, KeptTo(fr, s, t, n), SameDepths(cs, cz, Len(fr))
  PROVE  LoopsOK(lp, cz, fr, t)
  <1>1. ASSUME NEW i \in 1 .. Len(lp) PROVE LoopOK(lp[i], cz, fr, t)
    <2>0. PICK l \in Loops : l = lp[i] BY ElementOfSeq
    <2>1. LoopOK(l, cs, fr, s) /\ l.depth # Len(fr) BY <2>0 DEF LoopsOK
    <2>2. \A j \in 1 .. Len(cz) : cz[j].depth # l.depth BY <2>1 DEF LoopOK, SameDepths
    <2>4. /\ n \in Nat /\ Len(t) \in Nat /\ EndOf(Last(fr)) <= n /\ n <= Len(t)
          /\ \A h \in 1 .. n : t[h] = s[h]
      BY DEF KeptTo
    <2>3. LoopOK(l, cz, fr, t) BY <2>1, <2>2, <2>4, LoopCut
    <2>. QED BY <2>0, <2>3
  <1>. QED BY <1>1 DEF LoopsOK

(* ... or a call is entered, which the loop may have made.                 *)
LEMMA LoopEnter ==
  ASSUME NEW fr \in Seq(Frames), NEW s, NEW t, Len(fr) \in Nat \ {0},
         NEW l \in Loops, NEW cs, LoopOK(l, cs, fr, t), l.depth # Len(fr), NEW f \in Frames
  PROVE  LoopOK(l, cs, Append(fr, f), t)
  <1>. DEFINE g == Append(fr, f)
  <1>1. /\ Len(g) = Len(fr) + 1 /\ g[Len(fr) + 1] = f /\ \A i \in 1 .. Len(fr) : g[i] = fr[i]
    BY AppendProperties
  <1>. HIDE DEF g
  <1>2. l.depth \in 1 .. Len(fr) BY DEF LoopOK
  <1>3. /\ l.depth \in 1 .. Len(g) /\ l.depth # Len(g) /\ g[l.depth] = fr[l.depth]
        /\ l.depth + 1 \in 1 .. Len(fr)
    BY <1>1, <1>2
  <1>4. g[l.depth + 1] = fr[l.depth + 1] BY <1>1, <1>3
  <1>5. LoopTop(l, g, t) = LoopTop(l, fr, t) BY <1>3, <1>4 DEF LoopTop
  <1>6. l.depth < Len(fr) BY <1>3
  <1>. QED BY <1>3, <1>4, <1>5, <1>6 DEF LoopOK, g

(* A loop whose iterator has just been called is waiting for the frame     *)
(* that runs it.                                                           *)
LEMMA LoopStart ==
  ASSUME NEW fr \in Seq(Frames), NEW t, Len(fr) \in Nat \ {0}, Len(t) \in Nat,
         NEW l \in Loops, NEW cs, l.depth = Len(fr), NEW f \in Frames, f.want = l.vars,
         NEW p \in Nat, f.base = p + 1, EndOf(Last(fr)) <= p - 3, p <= Len(t), Last(fr) = fr[Len(fr)],
         t[p - 2] = l.it, t[p - 1] = Nil, \A i \in 1 .. Len(cs) : cs[i].depth # Len(fr)
  PROVE  LoopOK(l, cs, Append(fr, f), t)
  <1>. DEFINE g == Append(fr, f)
  <1>1. /\ Len(g) = Len(fr) + 1 /\ g[Len(fr) + 1] = f /\ \A i \in 1 .. Len(fr) : g[i] = fr[i]
    BY AppendProperties
  <1>. HIDE DEF g
  <1>2. /\ l.depth \in 1 .. Len(g) /\ l.depth # Len(g) /\ g[l.depth] = Last(fr)
        /\ g[l.depth + 1] = f
    BY <1>1
  <1>3. LoopTop(l, g, t) = f.base - 1 BY <1>2 DEF LoopTop
  <1>4. f.base - 1 = p OBVIOUS
  <1>5. LoopTop(l, g, t) = p BY <1>3, <1>4
  <1>. QED BY <1>2, <1>5 DEF LoopOK, g

(* An iterator, or a function above it, returns.                           *)
LEMMA LoopReturn ==
  ASSUME NEW fr \in Seq(Frames), NEW ow, NEW s, NEW t, FramesOK(fr, ow, s), Len(t) \in Nat,
         NEW l \in Loops, NEW cs, LoopOK(l, cs, fr, s), l.depth # Len(fr), Len(fr) # 1,
         Last(fr).base - 1 <= Len(t), \A i \in 1 .. Last(fr).base - 1 : t[i] = s[i],
         Last(fr).want # 0 => Len(t) = Last(fr).base - 1 + Last(fr).want
  PROVE  LoopOK(l, cs, Front(fr), t)
  <1>. DEFINE g == Front(fr)
  <1>1. /\ Len(fr) \in Nat \ {0} /\ Len(g) = Len(fr) - 1
        /\ \A i \in 1 .. Len(fr) - 1 : g[i] = fr[i]
    BY Ends DEF FramesOK
  <1>. HIDE DEF g
  <1>. PICK k \in 1 .. Len(fr) : k = l.depth BY DEF LoopOK
  <1>2. k < Len(fr) /\ k \in 1 .. Len(g) /\ g[k] = fr[k] BY <1>1
  <1>. DEFINE p == fr[k + 1].base - 1
  <1>3. LoopTop(l, fr, s) = p BY <1>2 DEF LoopTop
  <1>4. /\ fr[k + 1] \in Frames /\ fr[k + 1].base <= Last(fr).base /\ Last(fr) \in Frames
        /\ fr[k] \in Frames /\ Last(fr) = fr[Len(fr)]
    BY <1>2, FrameNext, FrameOrder
  <1>5. /\ fr[k + 1].base \in Nat \ {0} /\ Last(fr).base \in Nat \ {0} /\ EndOf(fr[k]) \in Nat
        /\ Last(fr).want \in Nat
    BY <1>4, FrameType
  <1>6. p \in Nat /\ p <= Last(fr).base - 1 BY SMTT(60), <1>4, <1>5
  <1>7. l.vars \in Nat \ {0} BY DEF Loops
  <1>8. fr[k + 1].want = l.vars BY <1>2 DEF LoopOK
  <1>9. LoopTop(l, g, t) = p
    <2>1. CASE k = Len(g)
      <3>1. fr[k + 1] = Last(fr) BY <1>1, <1>4, <2>1
      <3>2. Last(fr).want = l.vars BY <1>8, <3>1
      <3>3. Len(t) = Last(fr).base - 1 + l.vars BY <1>7, <3>2
      <3>4. LoopTop(l, g, t) = Len(t) - l.vars BY <2>1 DEF LoopTop
      <3>. QED BY <1>5, <1>7, <3>1, <3>3, <3>4
    <2>2. CASE k # Len(g)
      <3>1. g[k + 1] = fr[k + 1] BY <1>1, <1>2, <2>2
      <3>. QED BY <2>2, <3>1 DEF LoopTop
    <2>. QED BY <2>1, <2>2
  <1>10. k < Len(g) => g[k + 1].want = l.vars
    <2>1. k < Len(g) => g[k + 1] = fr[k + 1] BY <1>1
    <2>. QED BY <1>8, <2>1
  <1>. HIDE DEF p
  <1>11. EndOf(fr[k]) <= p - 3 /\ s[p - 2] = l.it /\ s[p - 1] = Nil
    BY <1>3 DEF LoopOK
  <1>12. p - 2 \in 1 .. Last(fr).base - 1 /\ p - 1 \in 1 .. Last(fr).base - 1 /\ p <= Len(t)
    BY <1>5, <1>6, <1>11
  <1>13. t[p - 2] = l.it /\ t[p - 1] = Nil BY <1>11, <1>12
  <1>14. \A i \in 1 .. Len(cs) : cs[i].depth # l.depth BY DEF LoopOK
  <1>. QED BY <1>2, <1>9, <1>10, <1>11, <1>12, <1>13, <1>14 DEF LoopOK, g
----------------------------------------------------------------------------
(* Steps that leave the frames alone.                                      *)

(* Nothing that exists ceases to.                                          *)
LEMMA Wider ==
  ASSUME NEW A, NEW B, A \subseteq B, NEW s \in Seq(A)
  PROVE  s \in Seq(B)
  <1>1. Len(s) \in Nat /\ s \in [1 .. Len(s) -> A] BY LenProperties
  <1>2. s \in [1 .. Len(s) -> B] BY <1>1
  <1>. QED BY <1>1, <1>2, FunctionSeq

(* More instances, more values.                                            *)
LEMMA Grown ==
  ASSUME NEW I, NEW J, I \subseteq J
  PROVE  ValuesOf(I) \subseteq ValuesOf(J) /\ BoundsOf(I) \subseteq BoundsOf(J)
  <1>1. BoundsOf(I) \subseteq BoundsOf(J) BY DEF BoundsOf
  <1>2. {Object(i) : i \in I} \subseteq {Object(i) : i \in J} OBVIOUS
  <1>. QED BY <1>1, <1>2 DEF ValuesOf

(* What the instances and the lineages alone decide does not change with   *)
(* the rest.                                                               *)
LEMMA SameNow == /\ oclass' = oclass => Values' = Values /\ FieldValues' = FieldValues
                 /\ lineage' = lineage => Derived' = Derived
  <1>1. oclass' = oclass => Allocated' = Allocated BY DEF Allocated
  <1>2. oclass' = oclass => Values' = Values
    BY <1>1 DEF Values, ValuesOf, BoundsOf, Fns, Natives, Classes
  <1>3. oclass' = oclass => FieldValues' = FieldValues
    BY <1>1 DEF FieldValues, BoundsOf, Fns, Natives
  <1>4. lineage' = lineage => Derived' = Derived BY DEF Derived
  <1>. QED BY <1>2, <1>3, <1>4

(* Where the operands of the running function begin.                       *)
LEMMA LowFact ==
  ASSUME CInv, status = "run"
  PROVE  /\ Len(frames) \in Nat \ {0} /\ Top = frames[Len(frames)] /\ Top \in Frames
         /\ Len(stack) \in Nat /\ Low \in Nat /\ EndOf(Top) <= Low /\ Low <= Len(stack)
         /\ EndOf(Top) \in Nat /\ Top.base \in Nat \ {0} /\ Top.base <= EndOf(Top)
         /\ \A i \in 1 .. Len(callstart) : callstart[i] \in Marks /\ callstart[i].at <= Low
         /\ ~Pending => \A i \in 1 .. Len(callstart) :
              callstart[i].depth # Len(frames) /\ callstart[i].at < Top.base
         /\ \A i \in 1 .. Len(loops) :
              loops[i] \in Loops /\ (~Looping => loops[i].depth # Len(frames))
  <1>1. /\ frames \in Seq(Frames) /\ FramesOK(frames, owed, stack) /\ callstart \in Seq(Marks)
        /\ MarksOK(callstart, frames, stack, Derived) /\ loops \in Seq(Loops)
        /\ stack \in Seq(Values) /\ Len(loops) <= 1
    BY DEF CInv, TypeInv, LoopsOK
  <1>2. /\ Len(frames) \in Nat \ {0} /\ Last(frames) = frames[Len(frames)]
        /\ Last(frames) \in Frames /\ Len(stack) \in Nat /\ Len(callstart) \in Nat /\ Len(loops) \in Nat
    BY <1>1, FrameOrder, LenProperties
  <1>3. /\ Top.base \in Nat \ {0} /\ EndOf(Top) \in Nat /\ Top.base <= EndOf(Top)
    BY <1>2, FrameType DEF Top
  <1>4. \A i \in 1 .. Len(callstart) :
          /\ callstart[i] \in Marks /\ callstart[i].at \in Nat
          /\ callstart[i].depth # Len(frames) => callstart[i].at < Top.base
          /\ \A j \in 1 .. i - 1 :
               /\ callstart[j].depth <= callstart[i].depth
               /\ callstart[i].depth = Len(frames) => callstart[j].at < LowOf(callstart[i])
    BY <1>1, MarkOrder, MarkType DEF Top
  <1>5. callstart # <<>> => /\ Len(callstart) \in 1 .. Len(callstart)
                            /\ Last(callstart) = callstart[Len(callstart)]
    <2>. HAVE callstart # <<>>
    <2>1. callstart \in Seq(Marks) BY <1>1
    <2>2. Len(callstart) \in Nat \ {0} /\ Last(callstart) = callstart[Len(callstart)]
      BY <2>1, Ends
    <2>. QED BY <2>2
  <1>6. Len(callstart) # 0 => callstart # <<>> BY EmptySeq
  <1>9. ASSUME NEW i \in 1 .. Len(loops)
        PROVE  loops[i] \in Loops /\ (~Looping => loops[i].depth # Len(frames))
    <2>1. loops \in Seq(Loops) BY <1>1
    <2>2. loops[i] \in Loops BY <2>1, ElementOfSeq
    <2>. PICK n \in Nat : n = Len(loops) BY <1>2
    <2>5. n <= 1 /\ i \in 1 .. n BY <1>1
    <2>6. n = 1 /\ i = 1 BY ONLY <2>5, n \in Nat
    <2>3. Len(loops) = 1 /\ i = 1 BY <2>6
    <2>4. loops # <<>> BY <2>3, EmptySeq
    <2>. QED BY <2>2, <2>3, <2>4 DEF Looping, Last
  <1>7. CASE Pending
    <2>1. Low = Last(callstart).at /\ callstart # <<>> /\ Last(callstart).depth = Len(frames)
      BY <1>7 DEF Low, Pending
    <2>. DEFINE n == Len(callstart)
    <2>2. n \in 1 .. n /\ Last(callstart) = callstart[n] BY <1>5, <2>1
    <2>3. MarkOK(callstart[n], frames, stack, Derived) /\ callstart[n] \in Marks
      BY <1>1, <1>4, <2>2 DEF MarksOK
    <2>4. /\ EndOf(Top) < LowOf(callstart[n]) /\ callstart[n].at <= Len(stack)
          /\ callstart[n].at \in Nat /\ LowOf(callstart[n]) \in Int
          /\ LowOf(callstart[n]) <= callstart[n].at
      BY <1>2, <2>1, <2>2, <2>3, MarkType DEF MarkOK, Top
    <2>5. ASSUME NEW i \in 1 .. n PROVE callstart[i].at <= callstart[n].at
      <3>1. CASE i = n BY <2>4, <3>1
      <3>2. CASE i # n
        <4>1. i \in 1 .. n - 1 BY <2>2, <3>2
        <4>2. callstart[i].at < LowOf(callstart[n]) BY <1>4, <2>1, <2>2, <4>1
        <4>3. callstart[i].at \in Nat BY <1>4
        <4>. QED BY <2>4, <4>2, <4>3
      <3>. QED BY <3>1, <3>2
    <2>6. Low = callstart[n].at BY <2>1, <2>2
    <2>7. Low \in Nat /\ EndOf(Top) <= Low /\ Low <= Len(stack)
      BY <1>3, <2>4, <2>6
    <2>8. \A i \in 1 .. Len(callstart) : callstart[i] \in Marks /\ callstart[i].at <= Low
      BY <1>4, <2>5, <2>6
    <2>. QED BY <1>2, <1>3, <1>7, <2>7, <2>8, <1>9 DEF Top
  <1>8. CASE ~Pending
    <2>1. Low = EndOf(Top) BY <1>8 DEF Low, EndOf
    <2>2. EndOf(Top) <= Len(stack) /\ Low <= Len(stack)
      <3>1. Len(frames) \in 1 .. Len(frames) BY <1>2
      <3>. QED BY <1>1, <1>2, <2>1, <3>1 DEF FramesOK, Top
    <2>3. ASSUME NEW i \in 1 .. Len(callstart)
          PROVE  callstart[i].depth # Len(frames) /\ callstart[i].at < Top.base
      <3>1. callstart # <<>> BY <1>2, <1>6
      <3>. PICK n \in 1 .. Len(callstart) : n = Len(callstart) BY <1>5, <3>1
      <3>2. callstart[n].depth # Len(frames) BY <1>5, <1>8, <3>1 DEF Pending
      <3>3. callstart[i].depth <= callstart[n].depth
        <4>1. CASE i = n
          <5>1. callstart[n].depth \in Nat BY <1>4, MarkType
          <5>. QED BY <4>1, <5>1
        <4>2. CASE i # n
          <5>1. i \in 1 .. n - 1 BY <1>2, <4>2
          <5>. QED BY <1>4, <5>1
        <4>. QED BY <4>1, <4>2
      <3>4. callstart[n].depth \in 1 .. Len(frames) /\ callstart[i].depth \in 1 .. Len(frames)
        BY <1>1, MarkOrder
      <3>5. callstart[i].depth # Len(frames) BY <1>2, <3>2, <3>3, <3>4
      <3>. QED BY <1>4, <3>5
    <2>4. \A i \in 1 .. Len(callstart) : callstart[i] \in Marks /\ callstart[i].at <= Low
      BY <1>3, <1>4, <2>1, <2>3
    <2>. QED BY <1>2, <1>3, <2>1, <2>2, <2>3, <2>4, <1>9 DEF Top
  <1>. QED BY <1>7, <1>8
(* The parts of a state that the next one keeps.                           *)
LEMMA Parts ==
  ASSUME CInv
  PROVE  /\ stack \in Seq(Values) /\ Len(stack) \in Nat /\ Len(stack) <= StackMax
         /\ frames \in Seq(Frames) /\ owed \in Seq(Intents) /\ callstart \in Seq(Marks)
         /\ loops \in Seq(Loops) /\ ClassInv /\ ObjectInv /\ GotInv
         /\ FramesOK(frames, owed, stack)
         /\ status = "run" => /\ MarksOK(callstart, frames, stack, Derived)
                              /\ LoopsOK(loops, callstart, frames, stack)
         /\ body # "" => status = "run" /\ Len(stack) = 1
  <1>1. stack \in Seq(Values) BY DEF CInv, TypeInv
  <1>2. Len(stack) \in Nat BY <1>1, LenProperties
  <1>. QED BY <1>1, <1>2 DEF CInv, TypeInv

(* The values on the stack change above Low, and a mark may be set there.  *)
LEMMA Quietly ==
  ASSUME CInv, Ready, UNCHANGED <<classes, oclass, frames, loops, owed>>,
         field' \in [Inst -> FieldValues],
         stack' \in Seq(Values), Len(stack') <= StackMax, Low <= Len(stack'),
         \A i \in 1 .. Low : stack'[i] = stack[i],
         \/ callstart' = callstart
         \/ \E e \in Marks :
              /\ callstart' = Append(callstart, e) /\ e.depth = Len(frames)
              /\ Low < LowOf(e) /\ e.at <= Len(stack')
              /\ e.how = "super" => OfSuper(Top, Derived) /\ stack'[e.at] = stack'[Top.base],
         got' = Nothing, status' = "run"
  PROVE  CInv'
  <1>1. status = "run" /\ body = "" /\ ~Looping BY DEF Ready
  <1>2. /\ Len(frames) \in Nat \ {0} /\ Top = frames[Len(frames)] /\ Top \in Frames
        /\ Low \in Nat /\ EndOf(Top) <= Low /\ EndOf(Top) \in Nat
        /\ \A i \in 1 .. Len(callstart) : callstart[i] \in Marks /\ callstart[i].at <= Low
        /\ \A i \in 1 .. Len(loops) : loops[i] \in Loops /\ loops[i].depth # Len(frames)
    BY <1>1, LowFact
  <1>3. /\ frames \in Seq(Frames) /\ owed \in Seq(Intents) /\ callstart \in Seq(Marks)
        /\ loops \in Seq(Loops) /\ ClassInv /\ ObjectInv
        /\ FramesOK(frames, owed, stack)
        /\ MarksOK(callstart, frames, stack, Derived)
        /\ LoopsOK(loops, callstart, frames, stack)
    BY <1>1, Parts
  <1>4. /\ oclass' = oclass /\ frames' = frames /\ loops' = loops /\ owed' = owed
        /\ lineage' = lineage /\ body' = "" /\ UNCHANGED classes
    BY <1>1 DEF classes
  <1>5. Values' = Values /\ FieldValues' = FieldValues /\ Derived' = Derived BY <1>4, SameNow
  <1>6. Len(stack') \in Nat BY LenProperties
  <1>. DEFINE t == stack'
  <1>7. /\ Len(t) \in Nat /\ EndOf(Last(frames)) <= Low /\ Low <= Len(t)
        /\ \A i \in 1 .. Low : t[i] = stack[i]
    BY <1>2, <1>6 DEF Top
  <1>. HIDE DEF t
  <1>8. FramesOK(frames, owed, t) BY <1>2, <1>3, <1>7, FramesCut
  <1>9. MarksOK(callstart, frames, t, Derived) BY ONLY <1>2, <1>3, <1>7, MarksCut
  <1>10. MarksOK(callstart', frames, t, Derived) /\ callstart' \in Seq(Marks)
    <2>1. CASE callstart' = callstart BY <1>3, <1>9, <2>1
    <2>2. CASE callstart' # callstart
      <3>1. PICK e \in Marks :
              /\ callstart' = Append(callstart, e) /\ e.depth = Len(frames)
              /\ Low < LowOf(e) /\ e.at <= Len(t)
              /\ e.how = "super" => OfSuper(Top, Derived) /\ t[e.at] = t[Top.base]
        BY <2>2 DEF t
      <3>2. LowOf(e) \in Int /\ EndOf(Top) < LowOf(e) BY <1>2, <3>1, MarkType
      <3>3. MarkOK(e, frames, t, Derived)
        <4>1. e.depth \in 1 .. Len(frames) /\ ~(e.depth < Len(frames)) BY <1>2, <3>1
        <4>. QED BY <1>2, <3>1, <3>2, <4>1 DEF MarkOK
      <3>4. \A i \in 1 .. Len(callstart) : callstart[i].at < LowOf(e)
        <4>. SUFFICES ASSUME NEW i \in 1 .. Len(callstart) PROVE callstart[i].at < LowOf(e)
          OBVIOUS
        <4>1. callstart[i].at \in Nat /\ callstart[i].at <= Low BY <1>2, MarkType
        <4>. QED BY <1>2, <3>1, <3>2, <4>1
      <3>5. MarksOK(Append(callstart, e), frames, t, Derived)
        BY <1>2, <1>3, <1>9, <3>1, <3>3, <3>4, MarksPush
      <3>6. Append(callstart, e) \in Seq(Marks) BY <1>3, AppendProperties
      <3>. QED BY <3>1, <3>5, <3>6
    <2>. QED BY <2>1, <2>2
  <1>11. LoopsOK(loops, callstart', frames, t)
    <2>1. SameDepths(callstart, callstart', Len(frames))
      <3>1. CASE callstart' = callstart BY <3>1 DEF SameDepths
      <3>2. CASE callstart' # callstart
        <4>1. PICK e \in Marks : callstart' = Append(callstart, e) /\ e.depth = Len(frames)
          BY <3>2
        <4>2. /\ Len(callstart') = Len(callstart) + 1 /\ callstart'[Len(callstart) + 1] = e
              /\ \A j \in 1 .. Len(callstart) : callstart'[j] = callstart[j]
              /\ Len(callstart) \in Nat
          BY <1>3, <4>1, AppendProperties, LenProperties
        <4>. QED BY <4>1, <4>2 DEF SameDepths
      <3>. QED BY <3>1, <3>2
    <2>2. KeptTo(frames, stack, t, Low) BY <1>2, <1>7 DEF KeptTo
    <2>3. \A i \in 1 .. Len(loops) : loops[i].depth # Len(frames) BY <1>2
    <2>. QED BY <1>3, <2>1, <2>2, <2>3, LoopsCut
  <1>12. TypeInv' BY <1>3, <1>4, <1>5, <1>10 DEF TypeInv
  <1>13. ObjectInv' BY <1>3, <1>4, <1>5 DEF ObjectInv
  <1>14. ClassInv' BY <1>3, <1>4, ClassesKept
  <1>15. GotInv'
    <2>1. got' # Failure BY DEF Nothing, Failure
    <2>. QED BY <2>1 DEF GotInv, Delivered
  <1>16. FramesOK(frames', owed', stack') /\ MarksOK(callstart', frames', stack', Derived')
         /\ LoopsOK(loops', callstart', frames', stack')
    BY <1>4, <1>5, <1>8, <1>10, <1>11 DEF t
  <1>. QED BY <1>4, <1>12, <1>13, <1>14, <1>15, <1>16 DEF CInv
(* The instances that exist, exist.                                        *)
LEMMA GrownNow ==
  ASSUME Allocated \subseteq Allocated'
  PROVE  Values \subseteq Values' /\ FieldValues \subseteq FieldValues'
  <1>. DEFINE I == Allocated
              J == Allocated'
  <1>1. Values = ValuesOf(I) /\ FieldValues = {None, Iter} \cup Natives \cup BoundsOf(I)
    BY DEF Values, FieldValues
  <1>2. Values' = ValuesOf(J) /\ FieldValues' = {None, Iter} \cup Natives \cup BoundsOf(J)
    BY DEF Values, FieldValues, ValuesOf, BoundsOf, Natives, Fns, Classes
  <1>3. I \subseteq J OBVIOUS
  <1>. HIDE DEF I, J
  <1>4. ValuesOf(I) \subseteq ValuesOf(J) /\ BoundsOf(I) \subseteq BoundsOf(J) BY <1>3, Grown
  <1>. QED BY <1>1, <1>2, <1>4

(* The run ends.                                                           *)
LEMMA Stopped ==
  ASSUME CInv, body = "", UNCHANGED <<classes, stack, frames, owed, field>>,
         Allocated \subseteq Allocated', oclass' \in [Inst -> Class \cup {""}],
         callstart' \in Seq(Marks), loops' \in Seq(Loops), status' # "run", GotInv'
  PROVE  CInv'
  <1>1. /\ stack \in Seq(Values) /\ Len(stack) <= StackMax
        /\ frames \in Seq(Frames) /\ owed \in Seq(Intents)
        /\ FramesOK(frames, owed, stack) /\ ClassInv /\ ObjectInv
    BY Parts
  <1>2. Values \subseteq Values' /\ FieldValues \subseteq FieldValues' BY GrownNow
  <1>3. stack \in Seq(Values') BY <1>1, <1>2, Wider
  <1>4. TypeInv' BY <1>1, <1>3 DEF TypeInv
  <1>5. ObjectInv' BY <1>1, <1>2 DEF ObjectInv
  <1>6. ClassInv' BY <1>1, ClassesKept
  <1>7. body' = "" BY DEF classes
  <1>. QED BY <1>1, <1>4, <1>5, <1>6, <1>7 DEF CInv

(* ... as push() ends it.                                                  *)
LEMMA Overflow ==
  ASSUME CInv, body = "",
         UNCHANGED <<classes, objects, stack, frames, callstart, loops, owed>>,
         status' = "overflow", got' = Nothing \/ (got' = got /\ status = "run")
  PROVE  CInv'
  <1>1. oclass' = oclass /\ field' = field BY DEF objects
  <1>2. callstart \in Seq(Marks) /\ loops \in Seq(Loops) /\ ObjectInv /\ GotInv BY Parts
  <1>3. Allocated' = Allocated BY <1>1 DEF Allocated
  <1>4. GotInv'
    <2>1. CASE got' = Nothing BY <2>1 DEF GotInv, Delivered, Nothing, Failure
    <2>2. CASE got' = got /\ status = "run" BY <1>2, <2>2 DEF GotInv, Delivered
    <2>. QED BY <2>1, <2>2
  <1>. QED BY <1>1, <1>2, <1>3, <1>4, Stopped DEF ObjectInv

(* What an instruction may push as an operand is a value.                  *)
LEMMA OperandsAre ==
  Operands \subseteq Values /\ Operands \subseteq ValuesOf(Inst)
  <1>1. Allocated \subseteq Inst BY DEF Allocated
  <1>2. Operands \subseteq Values
    <2>1. {ClassVal(c) : c \in {d \in Class : Newest(d)}} \subseteq Classes BY DEF Classes
    <2>2. {Object(i) : i \in {j \in Inst : oclass[j] # ""}} = {Object(i) : i \in Allocated}
      BY DEF Allocated
    <2>. QED BY <2>1, <2>2 DEF Operands, Values, ValuesOf, Natives
  <1>3. Values \subseteq ValuesOf(Inst) BY <1>1, Grown DEF Values
  <1>. QED BY <1>2, <1>3

(* One value more above Low.                                               *)
LEMMA OneMore ==
  ASSUME CInv, status = "run", NEW v \in Values
  PROVE  /\ Append(stack, v) \in Seq(Values) /\ Len(Append(stack, v)) = Len(stack) + 1
         /\ Append(stack, v)[Len(stack) + 1] = v
         /\ Low <= Len(Append(stack, v)) /\ \A i \in 1 .. Low : Append(stack, v)[i] = stack[i]
  <1>. DEFINE t == Append(stack, v)
  <1>1. stack \in Seq(Values) BY Parts
  <1>2. /\ t \in Seq(Values) /\ Len(t) = Len(stack) + 1 /\ t[Len(stack) + 1] = v
        /\ \A i \in 1 .. Len(stack) : t[i] = stack[i]
    BY <1>1, AppendProperties
  <1>. HIDE DEF t
  <1>3. Low \in Nat /\ Len(stack) \in Nat /\ Low <= Len(stack) BY LowFact
  <1>4. Low <= Len(t) /\ \A i \in 1 .. Low : t[i] = stack[i] BY <1>2, <1>3
  <1>. QED BY <1>2, <1>4 DEF t

(* Pushing a value keeps the invariant.                                    *)
LEMMA PushStep ==
  ASSUME CInv, Ready, NEW v \in Values, Push(Append(stack, v)), got' = Nothing,
         UNCHANGED <<classes, objects, frames, callstart, loops, owed>>
  PROVE  CInv'
  <1>1. status = "run" /\ body = "" BY DEF Ready
  <1>2. oclass' = oclass /\ field' = field /\ ObjectInv BY Parts DEF objects
  <1>3. CASE Len(Append(stack, v)) <= StackMax
    <2>1. stack' = Append(stack, v) /\ status' = "run" BY <1>1, <1>3 DEF Push
    <2>2. /\ stack' \in Seq(Values) /\ Low <= Len(stack')
          /\ \A i \in 1 .. Low : stack'[i] = stack[i]
      BY <1>1, <2>1, OneMore
    <2>3. field' \in [Inst -> FieldValues] BY <1>2 DEF ObjectInv
    <2>4. callstart' = callstart /\ Len(stack') <= StackMax BY <1>3, <2>1
    <2>. QED BY <1>2, <2>1, <2>2, <2>3, <2>4, Quietly
  <1>4. CASE ~(Len(Append(stack, v)) <= StackMax)
    <2>1. stack' = stack /\ status' = "overflow" BY <1>4 DEF Push
    <2>. QED BY <1>1, <2>1, Overflow
  <1>. QED BY <1>3, <1>4

(* Loading a constant or a variable pushes a value.                        *)
LEMMA OperandStep ==
  ASSUME CInv, NEW v \in Operands, Operand(v)
  PROVE  CInv'
  <1>1. /\ Ready /\ Push(Append(stack, v)) /\ got' = Nothing
        /\ UNCHANGED <<classes, objects, frames, callstart, loops, owed>>
    BY DEF Operand
  <1>2. v \in Values BY OperandsAre
  <1>. QED BY <1>1, <1>2, PushStep

(* OP_POP never reaches below the frame or below an open call.             *)
LEMMA PopStep ==
  ASSUME CInv, OpPop
  PROVE  CInv'
  <1>1. /\ Ready /\ status = "run" /\ Len(stack) > Low /\ stack' = SubSeq(stack, 1, Low)
        /\ got' = Nothing /\ status' = "run"
        /\ UNCHANGED <<classes, oclass, field, frames, callstart, loops, owed>>
    BY DEF OpPop, Ready, objects
  <1>2. stack \in Seq(Values) /\ Len(stack) <= StackMax /\ ObjectInv /\ StackMax \in Nat
    BY Parts, CallsAssumption
  <1>3. Low \in Nat /\ Len(stack) \in Nat /\ Low <= Len(stack) BY <1>1, LowFact
  <1>4. Low \in 0 .. Len(stack) BY <1>3
  <1>5. /\ stack' \in Seq(Values) /\ Len(stack') = Low /\ \A i \in 1 .. Low : stack'[i] = stack[i]
    BY <1>1, <1>2, <1>4, Prefix
  <1>6. Len(stack') <= StackMax /\ Low <= Len(stack') BY <1>2, <1>3, <1>5
  <1>7. field' \in [Inst -> FieldValues] BY <1>1, <1>2 DEF ObjectInv
  <1>. QED BY <1>1, <1>5, <1>6, <1>7, Quietly
(* Kinds of values.                                                        *)
LEMMA KindsAre ==
  /\ Nil.t = "nil" /\ Num.t = "num" /\ Main.t = "main" /\ Iter.t = "fn" /\ Message.t = "message"
  /\ Key.t = "string" /\ None.t = "none" /\ Main.c = "" /\ Iter.c = ""
  /\ Main.m = "" /\ Iter.m = "iter"
  /\ \A f : Native(f).t = "native" /\ Native(f).m = f
  /\ \A c : ClassVal(c).t = "class" /\ ClassVal(c).c = c
  /\ \A i : Object(i).t = "instance" /\ Object(i).i = i
  <1>1. /\ Nil.t = "nil" /\ Num.t = "num" /\ Main.t = "main" /\ Iter.t = "fn"
        /\ Message.t = "message" /\ Key.t = "string" /\ None.t = "none"
    BY DEF Val, Nil, Num, Main, Iter, Message, Key, None
  <1>2. Main.c = "" /\ Iter.c = "" /\ Main.m = "" /\ Iter.m = "iter" BY DEF Val, Main, Iter
  <1>3. \A f : Native(f).t = "native" /\ Native(f).m = f BY DEF Val, Native
  <1>4. \A c : ClassVal(c).t = "class" /\ ClassVal(c).c = c BY DEF Val, ClassVal
  <1>5. \A i : Object(i).t = "instance" /\ Object(i).i = i BY DEF Val, Object
  <1>. QED BY <1>1, <1>2, <1>3, <1>4, <1>5

(* A value that is an instance names one that was made.                    *)
LEMMA InstanceIs ==
  ASSUME NEW I, NEW v \in ValuesOf(I), v.t = "instance"
  PROVE  v.i \in I /\ v = Object(v.i)
  <1>1. v \notin {Nil, Num, Main, Iter, Message, Key} BY KindsAre
  <1>4. v \notin Natives BY KindsAre DEF Natives
  <1>5. v \notin Classes BY KindsAre DEF Classes
  <1>6. v \notin BoundsOf(I) BY DEF BoundsOf, Bound, Val
  <1>2. v \notin Natives /\ v \notin Classes /\ v \notin BoundsOf(I) BY <1>4, <1>5, <1>6
  <1>3. PICK i \in I : v = Object(i) BY <1>1, <1>2 DEF ValuesOf
  <1>. QED BY <1>3, KindsAre

(* What a field holds is a value.                                          *)
LEMMA FieldsAre == FieldValues \ {None} \subseteq Values
  BY DEF FieldValues, Values, ValuesOf

(* What can be called and is no class can be a field's value.              *)
LEMMA CallableIs ==
  ASSUME NEW v \in Values, v.t \in {"fn", "bound", "native"}
  PROVE  v \in FieldValues
  <1>1. v \notin {Nil, Num, Main, Message, Key} BY KindsAre
  <1>2. v \notin Classes /\ \A i : v # Object(i) BY KindsAre DEF Classes
  <1>. QED BY <1>1, <1>2 DEF Values, ValuesOf, FieldValues

(* A method is a function of a class under its name.                       *)
LEMMA FnIs ==
  ASSUME NEW f \in Fns
  PROVE  f.c \in Class /\ f.m \in Names /\ f.t = "fn" /\ f = Fn(f.c, f.m) /\ f # None
  <1>1. PICK c \in Class, m \in Names : f = Fn(c, m) BY DEF Fns
  <1>2. f.c = c /\ f.m = m /\ f.t = "fn" BY <1>1 DEF Fn, Val
  <1>3. f # None BY <1>2, KindsAre
  <1>. QED BY <1>1, <1>2, <1>3

(* The method a bound method stands for.                                   *)
LEMMA BindIs ==
  ASSUME ClassInv, NEW c \in Class, NEW m \in Names, NEW i \in Allocated, Bind(c, m, i) # None
  PROVE  Bind(c, m, i) \in Values
  <1>1. methods[c][m] \in Fns \cup {None} BY DEF ClassInv, TableTypes
  <1>2. methods[c][m] # None BY DEF Bind
  <1>3. Bind(c, m, i) = Bound(i, methods[c][m]) BY <1>2 DEF Bind
  <1>. QED BY <1>1, <1>2, <1>3 DEF Values, ValuesOf, BoundsOf

(* Reading a property yields a value: the field, or the method bound to    *)
(* the instance.                                                           *)
LEMMA PropertyIs ==
  ASSUME CInv, NEW r \in Values, Property(r) # None
  PROVE  Property(r) \in Values
  <1>1. r.t = "instance" BY DEF Property
  <1>2. r.i \in Allocated BY <1>1, InstanceIs DEF Values
  <1>3. ClassInv /\ ObjectInv BY Parts
  <1>4. oclass[r.i] \in Class /\ field[r.i] \in FieldValues BY <1>2, <1>3 DEF ObjectInv, Allocated
  <1>5. CASE HasField(r)
    <2>1. Property(r) = field[r.i] BY <1>1, <1>5 DEF Property
    <2>. QED BY <1>4, <2>1, FieldsAre
  <1>6. CASE ~HasField(r)
    <2>1. Property(r) = Bind(oclass[r.i], "m", r.i) BY <1>1, <1>6 DEF Property
    <2>. QED BY <1>2, <1>3, <1>4, <2>1, BindIs DEF Names
  <1>. QED BY <1>5, <1>6

(* A method of a class with a superclass runs on an instance.              *)
LEMMA SelfIs ==
  ASSUME CInv, status = "run", Top.fn \in Fns
  PROVE  Self \in Values /\ Self.t = "instance" /\ Self.i \in Allocated
  <1>1. /\ Len(frames) \in Nat \ {0} /\ Top = frames[Len(frames)] /\ Top.base \in Nat \ {0}
        /\ Top.base <= EndOf(Top) /\ EndOf(Top) <= Low /\ Low <= Len(stack)
        /\ EndOf(Top) \in Nat /\ Low \in Nat /\ Len(stack) \in Nat
    BY LowFact
  <1>2. Top.base \in 1 .. Len(stack) /\ Len(frames) \in 1 .. Len(frames) BY <1>1
  <1>3. stack \in Seq(Values) /\ FramesOK(frames, owed, stack) BY Parts
  <1>4. Self \in Values BY <1>2, <1>3, ElementOfSeq DEF Self
  <1>5. Agrees(Top, owed[Len(frames)], stack) BY <1>1, <1>2, <1>3 DEF FramesOK
  <1>6. Self.t = "instance" BY <1>5 DEF Agrees, Self
  <1>. QED BY <1>4, <1>6, InstanceIs DEF Values

(* Where super is used the running function is a method and its class has  *)
(* a superclass.                                                           *)
LEMMA SuperIs ==
  ASSUME CInv, status = "run", Top.fn.c # "", Len(lineage[Top.fn.c]) > 1
  PROVE  /\ Top.fn \in Fns /\ Top.fn.c \in Class /\ OfSuper(Top, Derived)
         /\ lineage[Top.fn.c][2] \in Class
  <1>1. Top \in Frames BY LowFact
  <1>2. Top.fn \in FrameFns BY <1>1 DEF Frames
  <1>3. Top.fn \in Fns BY <1>2, KindsAre DEF FrameFns
  <1>4. Top.fn.c \in Class BY <1>3, FnIs
  <1>5. ClassInv BY Parts
  <1>8. PICK n \in Nat : n = Len(lineage[Top.fn.c]) BY <1>4, <1>5, LineFacts
  <1>9. n > 1 BY <1>8
  <1>10. 2 \in 1 .. n BY ONLY <1>9, n \in Nat
  <1>6. 2 \in 1 .. Len(lineage[Top.fn.c]) BY <1>8, <1>10
  <1>7. lineage[Top.fn.c][2] \in Class BY <1>4, <1>5, <1>6, LineFacts
  <1>. QED BY <1>3, <1>4, <1>7 DEF OfSuper, Derived

(* OP_GET_PROPERTY keeps the invariant.                                    *)
LEMMA GetPropertyStep ==
  ASSUME CInv, OpGetProperty
  PROVE  CInv'
  <1>. DEFINE v == Property(Last(stack))
  <1>1. /\ Ready /\ status = "run" /\ Len(stack) = Low + 1 /\ v # None
        /\ stack' = [stack EXCEPT ![Len(stack)] = v] /\ got' = Nothing /\ status' = "run"
        /\ UNCHANGED <<classes, oclass, field, frames, callstart, loops, owed>>
    BY DEF OpGetProperty, Callee, Ready, objects
  <1>2. stack \in Seq(Values) /\ Len(stack) <= StackMax /\ ObjectInv BY Parts
  <1>3. Low \in Nat /\ Len(stack) \in Nat BY <1>1, LowFact
  <1>4. stack # <<>> BY <1>1, <1>3, EmptySeq
  <1>5. Last(stack) \in Values BY <1>2, <1>4, Ends
  <1>6. v \in Values BY <1>1, <1>5, PropertyIs
  <1>. HIDE DEF v
  <1>7. /\ stack' \in Seq(Values) /\ Len(stack') = Len(stack)
        /\ \A i \in 1 .. Len(stack) : stack'[i] = IF i = Len(stack) THEN v ELSE stack[i]
    <2>. PICK n \in 1 .. Len(stack) : n = Len(stack) BY <1>1, <1>3
    <2>1. stack' = [stack EXCEPT ![n] = v] BY <1>1
    <2>2. stack \in Seq(Values) BY <1>2
    <2>. QED BY <1>6, <2>1, <2>2, ExceptSeq
  <1>8. Low <= Len(stack') /\ \A i \in 1 .. Low : stack'[i] = stack[i] BY <1>1, <1>3, <1>7
  <1>9. field' \in [Inst -> FieldValues] /\ Len(stack') <= StackMax BY <1>1, <1>2, <1>7 DEF ObjectInv
  <1>. QED BY <1>1, <1>7, <1>8, <1>9, Quietly

(* OP_GET_SUPER keeps the invariant.                                       *)
LEMMA GetSuperStep ==
  ASSUME CInv, NEW m \in Names, OpGetSuper(m)
  PROVE  CInv'
  <1>. DEFINE v == Bind(lineage[Top.fn.c][2], m, Self.i)
  <1>1. /\ Ready /\ HasSuper /\ v # None /\ Push(Append(stack, v)) /\ got' = Nothing
        /\ UNCHANGED <<classes, objects, frames, callstart, loops, owed>> /\ status = "run"
    BY DEF OpGetSuper, Ready
  <1>2. Top.fn \in Fns /\ lineage[Top.fn.c][2] \in Class BY <1>1, SuperIs DEF HasSuper
  <1>3. Self.i \in Allocated /\ ClassInv BY <1>1, <1>2, SelfIs, Parts
  <1>4. v \in Values BY <1>1, <1>2, <1>3, BindIs
  <1>. HIDE DEF v
  <1>. QED BY <1>1, <1>4, PushStep

(* OP_SET_PROPERTY keeps the invariant.                                    *)
LEMMA SetPropertyStep ==
  ASSUME CInv, NEW i \in Inst, OpSetProperty(i)
  PROVE  CInv'
  <1>1. /\ Ready /\ status = "run" /\ Len(stack) = Low + 1
        /\ Last(stack).t \in {"fn", "bound", "native"}
        /\ field' = [field EXCEPT ![i] = Last(stack)] /\ stack' = Front(stack)
        /\ got' = Nothing /\ status' = "run"
        /\ UNCHANGED <<classes, oclass, frames, callstart, loops, owed>>
    BY DEF OpSetProperty, Callee, Ready
  <1>2. stack \in Seq(Values) /\ Len(stack) <= StackMax /\ ObjectInv /\ StackMax \in Nat
    BY Parts, CallsAssumption
  <1>3. Low \in Nat /\ Len(stack) \in Nat BY <1>1, LowFact
  <1>4. stack # <<>> BY <1>1, <1>3, EmptySeq
  <1>5. /\ Last(stack) \in Values /\ stack' \in Seq(Values) /\ Len(stack') = Len(stack) - 1
        /\ \A j \in 1 .. Len(stack) - 1 : stack'[j] = stack[j]
    BY <1>1, <1>2, <1>4, Ends
  <1>6. Last(stack) \in FieldValues BY <1>1, <1>5, CallableIs
  <1>7. field' \in [Inst -> FieldValues] BY <1>1, <1>2, <1>6 DEF ObjectInv
  <1>8. /\ Low <= Len(stack') /\ Len(stack') <= StackMax
        /\ \A j \in 1 .. Low : stack'[j] = stack[j]
    BY <1>1, <1>2, <1>3, <1>5
  <1>. QED BY <1>1, <1>5, <1>7, <1>8, Quietly

(* A call begins.                                                          *)
LEMMA StartStep ==
  ASSUME CInv, Ready, NEW a \in Nat, NEW how \in {"call", "invoke", "index", "super"},
         Start(a, how), UNCHANGED <<classes, objects, frames, loops, owed>>,
         stack' \in Seq(Values), Len(stack') <= StackMax, Low <= Len(stack'), a <= Len(stack'),
         \A i \in 1 .. Low : stack'[i] = stack[i],
         Low < a, how = "index" => Low < a - 1,
         how = "super" => OfSuper(Top, Derived) /\ stack'[a] = stack'[Top.base],
         got' = Nothing, status' = "run"
  PROVE  CInv'
  <1>. DEFINE e == [at |-> a, how |-> how, depth |-> Len(frames)]
  <1>0. status = "run" BY DEF Ready
  <1>1. Len(frames) \in Nat BY <1>0, LowFact
  <1>2. /\ e \in Marks /\ e.at = a /\ e.how = how /\ e.depth = Len(frames)
        /\ callstart' = Append(callstart, e)
    BY <1>1 DEF Start, Marks
  <1>. HIDE DEF e
  <1>3. Low < LowOf(e)
    <2>1. CASE how = "index" BY <1>2, <2>1 DEF LowOf
    <2>2. CASE how # "index" BY <1>2, <2>2 DEF LowOf
    <2>. QED BY <2>1, <2>2
  <1>4. \E f \in Marks :
          /\ callstart' = Append(callstart, f) /\ f.depth = Len(frames)
          /\ Low < LowOf(f) /\ f.at <= Len(stack')
          /\ f.how = "super" => OfSuper(Top, Derived) /\ stack'[f.at] = stack'[Top.base]
    BY <1>2, <1>3
  <1>5. ObjectInv /\ oclass' = oclass /\ field' = field BY Parts DEF objects
  <1>6. field' \in [Inst -> FieldValues] BY <1>5 DEF ObjectInv
  <1>. QED BY <1>4, <1>5, <1>6, Quietly

(* OP_CALLSTART keeps the invariant: its mark lies above every open one.   *)
LEMMA CallstartStep ==
  ASSUME CInv, NEW how \in {"call", "invoke"}, OpCallstart(how)
  PROVE  CInv'
  <1>1. /\ Ready /\ status = "run" /\ Len(stack) = Low + 1 /\ Start(Len(stack), how)
        /\ got' = Nothing /\ status' = "run" /\ stack' = stack
        /\ UNCHANGED <<classes, objects, frames, loops, owed>>
    BY DEF OpCallstart, Callee, Ready
  <1>2. stack \in Seq(Values) /\ Len(stack) <= StackMax BY Parts
  <1>3. Low \in Nat /\ Len(stack) \in Nat BY <1>1, LowFact
  <1>4. Low < Len(stack) /\ Low <= Len(stack) BY <1>1, <1>3
  <1>5. how \in {"call", "invoke", "index", "super"} /\ how # "index" /\ how # "super" OBVIOUS
  <1>. QED BY <1>1, <1>2, <1>3, <1>4, <1>5, StartStep

(* Starting a call among the arguments of another keeps the invariant.     *)
LEMMA NestedStep ==
  ASSUME CInv, NEW v \in Operands, NEW how \in {"call", "invoke"}, Nested(v, how)
  PROVE  CInv'
  <1>1. /\ Ready /\ status = "run" /\ Len(stack) < StackMax /\ stack' = Append(stack, v)
        /\ Start(Len(stack) + 1, how) /\ got' = Nothing /\ status' = "run"
        /\ UNCHANGED <<classes, objects, frames, loops, owed>>
    BY DEF Nested, Ready
  <1>2. v \in Values BY OperandsAre
  <1>3. /\ stack' \in Seq(Values) /\ Len(stack') = Len(stack) + 1 /\ Low <= Len(stack')
        /\ \A i \in 1 .. Low : stack'[i] = stack[i]
    BY <1>1, <1>2, OneMore
  <1>4. Low \in Nat /\ Len(stack) \in Nat /\ Low <= Len(stack) /\ StackMax \in Nat
    BY <1>1, LowFact, CallsAssumption
  <1>5. PICK a \in Nat : a = Len(stack) + 1 BY <1>4
  <1>6. Low < a /\ a <= Len(stack') /\ Len(stack') <= StackMax BY <1>1, <1>3, <1>4, <1>5
  <1>7. how \in {"call", "invoke", "index", "super"} /\ how # "index" /\ how # "super" OBVIOUS
  <1>8. Start(a, how) BY <1>1, <1>5
  <1>. QED BY <1>1, <1>3, <1>6, <1>7, <1>8, StartStep

(* Starting a call of an indexed member keeps the invariant: the receiver  *)
(* stays protected below the key.                                          *)
LEMMA IndexStep ==
  ASSUME CInv, IndexStart
  PROVE  CInv'
  <1>1. /\ Ready /\ status = "run" /\ Len(stack) < StackMax /\ stack' = Append(stack, Key)
        /\ Start(Len(stack) + 1, "index") /\ got' = Nothing /\ status' = "run"
        /\ Len(stack) = Low + 1
        /\ UNCHANGED <<classes, objects, frames, loops, owed>>
    BY DEF IndexStart, Callee, Ready
  <1>2. Key \in Values BY DEF Values, ValuesOf
  <1>3. /\ stack' \in Seq(Values) /\ Len(stack') = Len(stack) + 1 /\ Low <= Len(stack')
        /\ \A i \in 1 .. Low : stack'[i] = stack[i]
    BY <1>1, <1>2, OneMore
  <1>4. Low \in Nat /\ Len(stack) \in Nat /\ Low <= Len(stack) /\ StackMax \in Nat
    BY <1>1, LowFact, CallsAssumption
  <1>5. PICK a \in Nat : a = Len(stack) + 1 BY <1>4
  <1>6. Low < a /\ a <= Len(stack') /\ Len(stack') <= StackMax /\ Low < a - 1
    BY <1>1, <1>3, <1>4, <1>5
  <1>7. "index" \in {"call", "invoke", "index", "super"} /\ "index" # "super" OBVIOUS
  <1>8. Start(a, "index") BY <1>1, <1>5
  <1>. QED BY <1>1, <1>3, <1>6, <1>7, <1>8, StartStep

(* Starting a call of the superclass keeps the invariant: self is pushed   *)
(* below the arguments.                                                    *)
LEMMA SuperStep ==
  ASSUME CInv, SuperStart
  PROVE  CInv'
  <1>1. /\ Ready /\ status = "run" /\ Len(stack) < StackMax /\ stack' = Append(stack, Self)
        /\ Start(Len(stack) + 1, "super") /\ got' = Nothing /\ status' = "run" /\ HasSuper
        /\ UNCHANGED <<classes, objects, frames, loops, owed>>
    BY DEF SuperStart, Ready
  <1>2. Top.fn \in Fns /\ OfSuper(Top, Derived) BY <1>1, SuperIs DEF HasSuper
  <1>3. Self \in Values BY <1>1, <1>2, SelfIs
  <1>4. /\ stack' \in Seq(Values) /\ Len(stack') = Len(stack) + 1 /\ Low <= Len(stack')
        /\ stack'[Len(stack) + 1] = Self
        /\ \A i \in 1 .. Low : stack'[i] = stack[i]
    BY <1>1, <1>3, OneMore
  <1>5. /\ Low \in Nat /\ Len(stack) \in Nat /\ Low <= Len(stack) /\ StackMax \in Nat
        /\ Top.base \in Nat \ {0} /\ Top.base <= EndOf(Top) /\ EndOf(Top) <= Low /\ EndOf(Top) \in Nat
    BY <1>1, LowFact, CallsAssumption
  <1>6. PICK a \in Nat : a = Len(stack) + 1 BY <1>5
  <1>7. Low < a /\ a <= Len(stack') /\ Len(stack') <= StackMax BY <1>1, <1>4, <1>5, <1>6
  <1>8. stack'[a] = stack'[Top.base]
    <2>1. Top.base \in 1 .. Low BY <1>5
    <2>. QED BY <1>4, <1>6, <2>1 DEF Self
  <1>9. "super" \in {"call", "invoke", "index", "super"} /\ "super" # "index" OBVIOUS
  <1>10. Start(a, "super") BY <1>1, <1>6
  <1>. QED BY <1>1, <1>2, <1>4, <1>7, <1>8, <1>9, <1>10, StartStep
----------------------------------------------------------------------------
(* Calls.                                                                  *)

(* What a call comes to, where m is what the language means by it, s the   *)
(* stack it is made on and b the place of its callee: a frame is entered,  *)
(* a value is there at once, or the call fails.                            *)
Entered(m, b) ==
  /\ m.kind = "fn" /\ m \in Intents
  /\ \E f \in Frames : /\ frames' = Append(frames, f) /\ f.base = b
                       /\ Agrees(f, m, stack') /\ EndOf(f) = Len(stack')
Answered(m, b) ==
  /\ m.kind = "value" /\ m.at = b /\ m.want \in 0 .. 1
  /\ Len(stack') = b /\ stack'[b] = m.self /\ frames' = frames
Outcome(m, s, b) ==
  \/ m = Error /\ Fail(Message)
  \/ /\ Entered(m, b) \/ Answered(m, b)
     /\ UNCHANGED <<status, message>> /\ stack' \in Seq(Values') /\ Len(stack') <= StackMax
     /\ \A i \in 1 .. b - 1 : stack'[i] = s[i]
ObjectsGrow == /\ oclass' \in [Inst -> Class \cup {""}] /\ Allocated \subseteq Allocated'

(* The arguments of a call.                                                *)
ArgsOf(s, b, argc, args) ==
  /\ b \in Nat \ {0} /\ argc \in Nat /\ Len(s) = b + argc /\ Len(s) <= StackMax
  /\ args \in Seq(Values) /\ Len(args) = argc /\ \A j \in 1 .. argc : s[b + j] = args[j]

(* An outcome stated of one stack holds of another that agrees below the   *)
(* callee.                                                                 *)
LEMMA OutcomeBelow ==
  ASSUME NEW m, NEW s, NEW t, NEW b, Outcome(m, t, b), \A i \in 1 .. b - 1 : t[i] = s[i]
  PROVE  Outcome(m, s, b)
  BY DEF Outcome

(* A value stays one when instances are made.                              *)
LEMMA ValuesIn == Values \subseteq ValuesOf(Inst) /\ Values' \subseteq ValuesOf(Inst)
  <1>1. Allocated \subseteq Inst BY DEF Allocated
  <1>2. Values \subseteq ValuesOf(Inst) BY <1>1, Grown DEF Values
  <1>. DEFINE J == Allocated'
  <1>3. J \subseteq Inst BY DEF Allocated
  <1>4. Values' = ValuesOf(J) BY DEF Values, ValuesOf, BoundsOf, Natives, Fns, Classes
  <1>. HIDE DEF J
  <1>5. ValuesOf(J) \subseteq ValuesOf(Inst) BY <1>3, Grown
  <1>. QED BY <1>2, <1>4, <1>5

(* fncall enters the function it is given, with the arguments in place.    *)
LEMMA FnCallOutcome ==
  ASSUME frames \in Seq(Frames), NEW f \in FrameFns, NEW t \in Seq(Values'), NEW b, NEW argc,
         NEW args, ArgsOf(t, b, argc, args), NEW w \in Nat, NEW want \in Nat,
         want = w \/ (f.m = "init" /\ want = 1 /\ w = 0),
         f \in Fns => t[b].t = "instance", FnCall(f, t, argc, want)
  PROVE  Outcome(Enters(f, t[b], args, w, b), t, b)
  <1>1. /\ b \in Nat \ {0} /\ argc \in Nat /\ Len(t) = b + argc /\ Len(t) <= StackMax
        /\ args \in Seq(Values) /\ Len(args) = argc /\ \A j \in 1 .. argc : t[b + j] = args[j]
    BY DEF ArgsOf
  <1>2. f # None
    <2>1. f \in Fns => f # None BY FnIs
    <2>2. Main # None /\ Iter # None BY KindsAre
    <2>. QED BY <2>1, <2>2 DEF FrameFns
  <1>3. CASE Arity(f) # argc \/ Len(frames) = FramesMax
    <2>1. Fail(Message) BY <1>3 DEF FnCall
    <2>2. Enters(f, t[b], args, w, b) = Error BY <1>1, <1>3 DEF Enters
    <2>. QED BY <2>1, <2>2 DEF Outcome
  <1>4. CASE ~(Arity(f) # argc \/ Len(frames) = FramesMax)
    <2>. DEFINE g == [fn |-> f, base |-> b, want |-> want]
                m == Meant("fn", f, t[b], args, w, b)
    <2>1. Enters(f, t[b], args, w, b) = m BY <1>1, <1>2, <1>4 DEF Enters
    <2>2. stack' = t /\ frames' = Append(frames, [fn |-> f, base |-> Len(t) - argc, want |-> want])
          /\ UNCHANGED <<status, message>>
      BY <1>4 DEF FnCall
    <2>3. Len(t) - argc = b BY <1>1
    <2>4. frames' = Append(frames, g) BY <2>2, <2>3
    <2>5. /\ g \in Frames /\ g.fn = f /\ g.base = b /\ g.want = want
      BY <1>1 DEF Frames
    <2>6. /\ m.kind = "fn" /\ m.fn = f /\ m.self = t[b] /\ m.args = args /\ m.want = w /\ m.at = b
      BY DEF Meant
    <2>7. m \in Intents
      <3>1. args \in Seq(ValuesOf(Inst)) BY <1>1, ValuesIn, Wider
      <3>2. b \in 1 .. Len(t) BY <1>1
      <3>3. t[b] \in ValuesOf(Inst) BY <3>2, ValuesIn, ElementOfSeq
      <3>. QED BY <1>1, <3>1, <3>3 DEF Meant, Intents
    <2>8. EndOf(g) = Len(stack') BY <1>1, <1>4, <2>2, <2>5 DEF EndOf
    <2>9. Arity(f) = argc BY <1>4
    <2>. HIDE DEF g, m
    <2>10. Agrees(g, m, stack') BY <1>1, <2>2, <2>5, <2>6, <2>9 DEF Agrees
    <2>11. Entered(m, b) BY <2>4, <2>5, <2>6, <2>7, <2>8, <2>10 DEF Entered
    <2>. QED BY <1>1, <2>1, <2>2, <2>11 DEF Outcome
  <1>. QED BY <1>3, <1>4
(* A stack with another value in the place of the callee.                  *)
LEMMA PutAt ==
  ASSUME NEW S, NEW s \in Seq(S), NEW b, NEW argc, NEW args, ArgsOf(s, b, argc, args), NEW v \in S
  PROVE  /\ [s EXCEPT ![Len(s) - argc] = v] \in Seq(S)
         /\ Len([s EXCEPT ![Len(s) - argc] = v]) = Len(s)
         /\ [s EXCEPT ![Len(s) - argc] = v][b] = v
         /\ \A i \in 1 .. b - 1 : [s EXCEPT ![Len(s) - argc] = v][i] = s[i]
         /\ ArgsOf([s EXCEPT ![Len(s) - argc] = v], b, argc, args)
  <1>1. /\ b \in Nat \ {0} /\ argc \in Nat /\ Len(s) = b + argc /\ Len(s) <= StackMax
        /\ args \in Seq(Values) /\ Len(args) = argc /\ \A j \in 1 .. argc : s[b + j] = args[j]
    BY DEF ArgsOf
  <1>2. b \in 1 .. Len(s) /\ Len(s) - argc = b BY <1>1
  <1>. DEFINE t == [s EXCEPT ![b] = v]
  <1>3. [s EXCEPT ![Len(s) - argc] = v] = t BY <1>2
  <1>4. /\ t \in Seq(S) /\ Len(t) = Len(s)
        /\ \A i \in 1 .. Len(s) : t[i] = IF i = b THEN v ELSE s[i]
    BY <1>2, ExceptSeq
  <1>. HIDE DEF t
  <1>5. t[b] = v BY <1>2, <1>4
  <1>6. \A i \in 1 .. b - 1 : t[i] = s[i]
    <2>1. \A i \in 1 .. b - 1 : i \in 1 .. Len(s) /\ i # b BY <1>1
    <2>. QED BY <1>4, <2>1
  <1>7. \A j \in 1 .. argc : t[b + j] = s[b + j]
    <2>1. \A j \in 1 .. argc : b + j \in 1 .. Len(s) /\ b + j # b BY <1>1
    <2>. QED BY <1>4, <2>1
  <1>8. ArgsOf(t, b, argc, args) BY <1>1, <1>4, <1>7 DEF ArgsOf
  <1>. QED BY <1>3, <1>4, <1>5, <1>6, <1>8

(* A sequence of one element.                                              *)
LEMMA OneArg ==
  ASSUME NEW S, NEW a \in Seq(S), NEW e \in S
  PROVE  a = <<e>> <=> Len(a) = 1 /\ a[1] = e
  <1>. DEFINE z == <<e>>
  <1>1. z \in Seq(S) /\ Len(z) = 1 /\ z[1] = e OBVIOUS
  <1>. HIDE DEF z
  <1>2. ASSUME Len(a) = 1, a[1] = e PROVE a = z
    <2>1. \A i \in 1 .. Len(a) : a[i] = z[i] BY <1>1, <1>2
    <2>. QED BY <1>1, <1>2, <2>1, SeqEqual
  <1>3. a = z <=> Len(a) = 1 /\ a[1] = e BY <1>1, <1>2
  <1>. QED BY <1>3 DEF z

(* A native function that takes its arguments off the stack answers, or    *)
(* fails for their number; one that leaves them fails.                     *)
LEMMA NativeOutcome ==
  ASSUME Avoid = Kinds, NEW f \in Tidy \cup Sloppy, NEW s \in Seq(Values), NEW b, NEW argc,
         NEW args, ArgsOf(s, b, argc, args), NEW w \in Nat, oclass' = oclass,
         NativeCall(f, s, argc, w)
  PROVE  Outcome(IF args = <<Num>> THEN Gives(Num, w, b) ELSE Error, s, b)
  <1>1. /\ b \in Nat \ {0} /\ argc \in Nat /\ Len(s) = b + argc /\ Len(s) <= StackMax
        /\ args \in Seq(Values) /\ Len(args) = argc /\ \A j \in 1 .. argc : s[b + j] = args[j]
    BY DEF ArgsOf
  <1>. DEFINE put(v) == LET t == [s EXCEPT ![Len(s) - argc] = v]
                        IN  IF f \in Tidy THEN SubSeq(t, 1, Len(t) - argc) ELSE t
              msgs == put(Message)
              ok == argc = 1 => Last(s) = Num
  <1>2. w <= 1 /\ (f \in Tidy => ok) /\ (f \in Sloppy => ~ok)
    BY DEF NativeCall, Kinds
  <1>3. IF argc # 1 THEN Fail(Message)
        ELSE IF ~ok THEN Fail(IF Len(msgs) > argc THEN msgs[Len(msgs) - argc] ELSE None)
        ELSE stack' = put(Num) /\ UNCHANGED <<frames, status, message>>
    BY DEF NativeCall
  <1>4. Num \in Values /\ Message \in Values BY DEF Values, ValuesOf
  <1>5. argc = 1 => Last(s) = args[1]
    <2>. HAVE argc = 1
    <2>1. Len(s) = b + 1 /\ s[b + 1] = args[1] BY <1>1
    <2>. QED BY <2>1 DEF Last
  <1>6. args = <<Num>> <=> argc = 1 /\ ok
    <2>1. args = <<Num>> <=> Len(args) = 1 /\ args[1] = Num BY <1>1, <1>4, OneArg
    <2>. QED BY <1>1, <1>5, <2>1
  <1>7. CASE argc # 1 BY <1>3, <1>6, <1>7 DEF Outcome
  <1>8. CASE argc = 1 /\ ~ok
    <2>. DEFINE t == [s EXCEPT ![Len(s) - argc] = Message]
    <2>1. f \notin Tidy BY <1>2, <1>8
    <2>2. msgs = t BY <2>1
    <2>3. /\ t \in Seq(Values) /\ Len(t) = Len(s) /\ t[b] = Message
          /\ \A i \in 1 .. b - 1 : t[i] = s[i]
          /\ ArgsOf(t, b, argc, args)
      BY <1>4, PutAt
    <2>. HIDE DEF t
    <2>4. Len(msgs) > argc /\ Len(msgs) - argc = b BY <1>1, <1>8, <2>2, <2>3
    <2>5. Fail(msgs[b])
      <3>. HIDE DEF msgs, ok
      <3>. QED BY <1>3, <1>8, <2>4
    <2>6. Fail(Message) BY <2>2, <2>3, <2>5
    <2>. HIDE DEF ok
    <2>. QED BY <1>6, <1>8, <2>6 DEF Outcome
  <1>9. CASE argc = 1 /\ ok
    <2>. DEFINE t == [s EXCEPT ![Len(s) - argc] = Num]
                m == Gives(Num, w, b)
    <2>1. f \in Tidy BY <1>2, <1>9
    <2>2. stack' = SubSeq(t, 1, Len(t) - argc) /\ UNCHANGED <<frames, status, message>>
      BY <1>3, <1>9, <2>1
    <2>3. /\ t \in Seq(Values) /\ Len(t) = Len(s) /\ t[b] = Num
          /\ \A i \in 1 .. b - 1 : t[i] = s[i]
          /\ ArgsOf(t, b, argc, args)
      BY <1>4, PutAt
    <2>. HIDE DEF t
    <2>4. Len(t) - argc = b /\ b \in 0 .. Len(t) BY <1>1, <2>3
    <2>5. stack' \in Seq(Values) /\ Len(stack') = b /\ \A i \in 1 .. b : stack'[i] = t[i]
      BY <2>2, <2>3, <2>4, Prefix
    <2>6. stack'[b] = Num /\ \A i \in 1 .. b - 1 : stack'[i] = s[i] BY <1>1, <2>3, <2>5
    <2>7. Values' = Values BY SameNow
    <2>8. /\ m.kind = "value" /\ m.self = Num /\ m.at = b /\ m.want = w
      BY DEF Gives, Meant
    <2>9. w \in 0 .. 1 BY <1>2
    <2>. HIDE DEF m, ok, msgs
    <2>10. Answered(m, b) BY <2>2, <2>5, <2>6, <2>8, <2>9 DEF Answered
    <2>11. Len(stack') <= StackMax
      <3>1. StackMax \in Nat BY CallsAssumption
      <3>. QED BY <1>1, <2>5, <3>1
    <2>12. (IF args = <<Num>> THEN Gives(Num, w, b) ELSE Error) = m BY <1>6, <1>9 DEF m
    <2>. QED BY <2>2, <2>5, <2>6, <2>7, <2>10, <2>11, <2>12 DEF Outcome
  <1>. QED BY <1>7, <1>8, <1>9

(* A call of a class.                                                      *)
LEMMA ClassOutcome ==
  ASSUME Avoid = Kinds, ClassInv, ObjectInv, frames \in Seq(Frames), NEW c \in Class,
         NEW s \in Seq(Values), NEW b, NEW argc, NEW args, ArgsOf(s, b, argc, args), NEW w \in Nat,
         InstanceCall(c, s, argc, w)
  PROVE  /\ Outcome(IF Nearest(lineage[c], "init") # None
                      THEN Enters(Nearest(lineage[c], "init"), Object(NewInst), args, w, b)
                    ELSE IF args = <<>> THEN Gives(Object(NewInst), w, b) ELSE Error, s, b)
         /\ ObjectsGrow
  <1>1. /\ b \in Nat \ {0} /\ argc \in Nat /\ Len(s) = b + argc /\ Len(s) <= StackMax
        /\ args \in Seq(Values) /\ Len(args) = argc /\ \A j \in 1 .. argc : s[b + j] = args[j]
    BY DEF ArgsOf
  <1>. DEFINE o == Object(NewInst)
              t == [s EXCEPT ![Len(s) - argc] = o]
  <1>2. /\ w <= 1 /\ \E i \in Inst : oclass[i] = ""
        /\ oclass' = [oclass EXCEPT ![NewInst] = c]
        /\ IF overloaded[c] # None THEN FnCall(overloaded[c], t, argc, 1)
           ELSE IF argc # 0 THEN Fail(Message)
           ELSE stack' = t /\ UNCHANGED <<frames, status, message>>
    BY DEF InstanceCall, Kinds
  <1>14. w = 0 \/ w = 1
    <2>1. w <= 1 BY <1>2
    <2>. QED BY ONLY <2>1, w \in Nat
  <1>3. NewInst \in Inst /\ oclass[NewInst] = "" BY <1>2 DEF NewInst
  <1>4. c # "" BY CallsAssumption
  <1>5. ObjectsGrow /\ NewInst \in Allocated'
    <2>1. oclass \in [Inst -> Class \cup {""}] BY DEF ObjectInv
    <2>2. oclass' \in [Inst -> Class \cup {""}] BY <1>2, <2>1
    <2>3. \A i \in Inst : oclass'[i] = IF i = NewInst THEN c ELSE oclass[i] BY <1>2, <2>1
    <2>. QED BY <1>3, <1>4, <2>2, <2>3 DEF ObjectsGrow, Allocated
  <1>6. o \in Values'
    <2>. DEFINE J == Allocated'
    <2>1. Values' = ValuesOf(J) BY DEF Values, ValuesOf, BoundsOf, Natives, Fns, Classes
    <2>2. NewInst \in J BY <1>5
    <2>. HIDE DEF J
    <2>. QED BY <2>1, <2>2 DEF ValuesOf
  <1>7. s \in Seq(Values') BY <1>5, GrownNow, Wider DEF ObjectsGrow
  <1>8. /\ t \in Seq(Values') /\ Len(t) = Len(s) /\ t[b] = o
        /\ \A i \in 1 .. b - 1 : t[i] = s[i]
        /\ ArgsOf(t, b, argc, args)
    BY <1>6, <1>7, PutAt
  <1>. HIDE DEF t
  <1>9. overloaded[c] = Nearest(lineage[c], "init") /\ overloaded[c] \in Fns \cup {None}
    BY DEF ClassInv, InTable, TableTypes
  <1>10. o.t = "instance" BY KindsAre
  <1>. HIDE DEF o
  <1>11. CASE overloaded[c] # None
    <2>. DEFINE f == overloaded[c]
    <2>1. f \in Fns /\ f \in FrameFns BY <1>9, <1>11 DEF FrameFns
    <2>2. f.m = "init"
      <3>1. \/ Nearest(lineage[c], "init") = None
            \/ \E d : Nearest(lineage[c], "init") = Fn(d, "init")
        BY DEF Nearest
      <3>2. PICK d : f = Fn(d, "init") BY <1>9, <1>11, <3>1
      <3>3. Fn(d, "init").m = "init" BY DEF Fn, Val
      <3>. QED BY <3>2, <3>3
    <2>3. FnCall(f, t, argc, 1) BY <1>2, <1>11
    <2>. HIDE DEF f
    <2>4. 1 \in Nat /\ (1 = w \/ (f.m = "init" /\ 1 = 1 /\ w = 0)) BY <1>14, <2>2
    <2>5. Outcome(Enters(f, t[b], args, w, b), t, b)
      BY <1>8, <1>10, <2>1, <2>3, <2>4, FnCallOutcome
    <2>6. Outcome(Enters(f, o, args, w, b), s, b)
      BY <1>8, <2>5, OutcomeBelow
    <2>. QED BY <1>5, <1>9, <1>11, <2>6 DEF f, o
  <1>12. CASE overloaded[c] = None /\ argc # 0
    <2>1. Fail(Message) BY <1>2, <1>12
    <2>2. args # <<>> BY <1>1, <1>12, EmptySeq
    <2>. QED BY <1>5, <1>9, <1>12, <2>1, <2>2 DEF Outcome
  <1>13. CASE overloaded[c] = None /\ argc = 0
    <2>. DEFINE m == Gives(o, w, b)
    <2>1. stack' = t /\ UNCHANGED <<frames, status, message>> BY <1>2, <1>13
    <2>2. args = <<>> BY <1>1, <1>13, EmptySeq
    <2>3. m.kind = "value" /\ m.self = o /\ m.at = b /\ m.want = w BY DEF Gives, Meant
    <2>4. w \in 0 .. 1 BY <1>14
    <2>. HIDE DEF m
    <2>5. Len(stack') = b /\ Len(stack') <= StackMax BY <1>1, <1>8, <1>13, <2>1
    <2>6. Answered(m, b) BY <1>8, <2>1, <2>3, <2>4, <2>5 DEF Answered
    <2>7. Outcome(m, s, b) BY <1>8, <2>1, <2>5, <2>6 DEF Outcome
    <2>. QED BY <1>5, <1>9, <1>13, <2>2, <2>7 DEF m, o
  <1>. QED BY <1>11, <1>12, <1>13
(* The kinds of values that can be called.                                 *)
LEMMA KindIs ==
  ASSUME NEW v \in Values \cup Fns
  PROVE  /\ v.t = "fn" => v = Iter \/ v \in Fns
         /\ v.t = "bound" => v \in BoundsOf(Allocated)
         /\ v.t = "native" => v \in Natives
         /\ v.t = "class" => v \in Classes
  <1>1. v \in Fns => v.t = "fn" BY FnIs
  <1>2. v \in Natives => v.t = "native" BY ZenonT(60), KindsAre DEF Natives
  <1>3. v \in Classes => v.t = "class"
    <2>. SUFFICES ASSUME NEW c \in Class, v = ClassVal(c) PROVE v.t = "class" BY DEF Classes
    <2>1. ClassVal(c).t = "class" BY DEF ClassVal, Val
    <2>. QED BY <2>1
  <1>4. v \in BoundsOf(Allocated) => v.t = "bound" BY DEF BoundsOf, Bound, Val
  <1>5. v \in {Object(i) : i \in Allocated} => v.t = "instance"
    <2>. SUFFICES ASSUME NEW i \in Allocated, v = Object(i) PROVE v.t = "instance" OBVIOUS
    <2>1. Object(i).t = "instance" BY DEF Object, Val
    <2>. QED BY <2>1
  <1>6. v \in {Nil, Num, Main, Message, Key} => v.t \in {"nil", "num", "main", "message", "string"}
    BY KindsAre
  <1>7. Iter.t = "fn" BY KindsAre
  <1>8. \/ v \in Fns \/ v \in Natives \/ v \in Classes \/ v \in BoundsOf(Allocated)
        \/ v \in {Object(i) : i \in Allocated} \/ v \in {Nil, Num, Main, Message, Key} \/ v = Iter
    BY DEF Values, ValuesOf
  <1>. QED BY <1>1, <1>2, <1>3, <1>4, <1>5, <1>6, <1>7, <1>8

(* A call of a value that is, or is put, in the place of the callee; or of *)
(* a method whose instance is there.                                       *)
Reaches(v, self, args, w, b) == IF v.t = "fn" THEN Enters(v, self, args, w, b)
                                ELSE Means(v, args, w, b)
(* vcall does with every callee what the language says of it.              *)
LEMMA VCallOutcome ==
  ASSUME Avoid = Kinds, ClassInv, ObjectInv, frames \in Seq(Frames), NEW v \in Values \cup Fns,
         NEW s \in Seq(Values), NEW b, NEW argc, NEW args, ArgsOf(s, b, argc, args), NEW w \in Nat,
         v \in Fns => s[b].t = "instance", VCall(v, s, argc, w)
  PROVE  Outcome(Reaches(v, s[b], args, w, b), s, b) /\ ObjectsGrow
  <1>1. v.t # "class" => oclass' = oclass BY DEF VCall
  <1>2. oclass' = oclass => ObjectsGrow BY DEF ObjectsGrow, ObjectInv, Allocated
  <1>3. oclass' = oclass => s \in Seq(Values') BY SameNow
  <1>4. CASE v.t = "fn"
    <2>1. FnCall(v, s, argc, w) BY <1>4 DEF VCall
    <2>2. v \in FrameFns BY <1>4, KindIs DEF FrameFns
    <2>3. s \in Seq(Values') /\ ObjectsGrow BY <1>1, <1>2, <1>3, <1>4
    <2>4. Outcome(Enters(v, s[b], args, w, b), s, b) BY <2>1, <2>2, <2>3, FnCallOutcome
    <2>. QED BY <1>4, <2>3, <2>4 DEF Reaches
  <1>5. CASE v.t = "bound"
    <2>1. v \in BoundsOf(Allocated) BY <1>5, KindIs
    <2>2. PICK i \in Allocated, f \in Fns : v = Bound(i, f) BY <2>1 DEF BoundsOf
    <2>3. v.i = i /\ v.c = f.c /\ v.m = f.m BY <2>2 DEF Bound, Val
    <2>4. f = Fn(f.c, f.m) BY FnIs
    <2>5. FnOf(v) = f BY <2>3, <2>4 DEF FnOf
    <2>. DEFINE o == Object(v.i)
                t == [s EXCEPT ![Len(s) - argc] = o]
    <2>6. FnCall(FnOf(v), t, argc, w) BY <1>5 DEF VCall
    <2>7. o \in Values /\ o.t = "instance" BY <2>3, KindsAre DEF Values, ValuesOf
    <2>. HIDE DEF o
    <2>8. /\ t \in Seq(Values) /\ Len(t) = Len(s) /\ t[b] = o
          /\ \A j \in 1 .. b - 1 : t[j] = s[j]
          /\ ArgsOf(t, b, argc, args)
      BY <2>7, PutAt
    <2>. HIDE DEF t
    <2>9. Values' = Values /\ ObjectsGrow BY <1>1, <1>2, <1>5, SameNow
    <2>10. f \in FrameFns /\ t \in Seq(Values') BY <2>8, <2>9 DEF FrameFns
    <2>11. FnCall(f, t, argc, w) /\ t[b].t = "instance" BY <2>5, <2>6, <2>7, <2>8
    <2>12. Outcome(Enters(f, t[b], args, w, b), t, b) BY <2>8, <2>10, <2>11, FnCallOutcome
    <2>13. Outcome(Enters(f, o, args, w, b), s, b) BY <2>8, <2>12, OutcomeBelow
    <2>14. Means(v, args, w, b) = Enters(FnOf(v), Object(v.i), args, w, b) BY <1>5 DEF Means
    <2>. QED BY <1>5, <2>5, <2>9, <2>13, <2>14 DEF Reaches, o
  <1>6. CASE v.t = "native"
    <2>1. PICK f \in Tidy \cup Sloppy : v = Native(f) BY <1>6, KindIs DEF Natives
    <2>2. v.m = f BY <2>1, KindsAre
    <2>3. NativeCall(f, s, argc, w) BY <1>6, <2>2 DEF VCall
    <2>4. oclass' = oclass /\ ObjectsGrow BY <1>1, <1>2, <1>6
    <2>5. Outcome(IF args = <<Num>> THEN Gives(Num, w, b) ELSE Error, s, b)
      BY <2>3, <2>4, NativeOutcome
    <2>6. Reaches(v, s[b], args, w, b) = IF args = <<Num>> THEN Gives(Num, w, b) ELSE Error
      BY <1>6 DEF Reaches, Means
    <2>. QED BY <2>4, <2>5, <2>6
  <1>7. CASE v.t = "class"
    <2>1. PICK c \in Class : v = ClassVal(c) BY <1>7, KindIs DEF Classes
    <2>2. v.c = c BY <2>1, KindsAre
    <2>3. InstanceCall(c, s, argc, w) BY <1>7, <2>2 DEF VCall
    <2>4. Reaches(v, s[b], args, w, b) =
            IF Nearest(lineage[c], "init") # None
              THEN Enters(Nearest(lineage[c], "init"), Object(NewInst), args, w, b)
            ELSE IF args = <<>> THEN Gives(Object(NewInst), w, b) ELSE Error
      BY <1>7, <2>2 DEF Reaches, Means
    <2>5. /\ Outcome(IF Nearest(lineage[c], "init") # None
                       THEN Enters(Nearest(lineage[c], "init"), Object(NewInst), args, w, b)
                     ELSE IF args = <<>> THEN Gives(Object(NewInst), w, b) ELSE Error, s, b)
          /\ ObjectsGrow
      BY <2>3, ClassOutcome
    <2>. QED BY <2>4, <2>5
  <1>8. CASE v.t \notin {"fn", "bound", "native", "class"}
    <2>1. Fail(Message) /\ ObjectsGrow BY <1>1, <1>2, <1>8 DEF VCall
    <2>2. Reaches(v, s[b], args, w, b) = Error BY <1>8 DEF Reaches, Means
    <2>. QED BY <2>1, <2>2 DEF Outcome
  <1>. QED BY <1>4, <1>5, <1>6, <1>7, <1>8

(* A method of a class, called on the instance in the place of the callee. *)
LEMMA FromOutcome ==
  ASSUME Avoid = Kinds, ClassInv, ObjectInv, frames \in Seq(Frames), NEW c \in Class,
         NEW m \in Names, NEW s \in Seq(Values), NEW b, NEW argc, NEW args,
         ArgsOf(s, b, argc, args), NEW w \in Nat,
         s[b].t = "instance", InvokeFrom(c, m, s, argc, w)
  PROVE  Outcome(Enters(Nearest(lineage[c], m), s[b], args, w, b), s, b) /\ ObjectsGrow
  <1>1. methods[c][m] = Nearest(lineage[c], m) /\ methods[c][m] \in Fns \cup {None}
    BY DEF ClassInv, InTable, TableTypes
  <1>2. CASE methods[c][m] = None
    <2>1. Fail(Message) /\ oclass' = oclass BY <1>2 DEF InvokeFrom
    <2>2. ObjectsGrow BY <2>1 DEF ObjectsGrow, ObjectInv, Allocated
    <2>3. Enters(Nearest(lineage[c], m), s[b], args, w, b) = Error BY <1>1, <1>2 DEF Enters
    <2>. QED BY <2>1, <2>2, <2>3 DEF Outcome
  <1>3. CASE methods[c][m] # None
    <2>. DEFINE f == methods[c][m]
    <2>1. f \in Fns /\ f = Nearest(lineage[c], m) /\ VCall(f, s, argc, w)
      BY <1>1, <1>3 DEF InvokeFrom
    <2>. HIDE DEF f
    <2>2. f.t = "fn" /\ f \in Values \cup Fns BY <2>1, FnIs
    <2>3. Outcome(Reaches(f, s[b], args, w, b), s, b) /\ ObjectsGrow BY <2>1, <2>2, VCallOutcome
    <2>. QED BY <2>1, <2>2, <2>3 DEF Reaches
  <1>. QED BY <1>2, <1>3

(* A property of the value in the place of the callee: a field is called   *)
(* in its place.                                                           *)
LEMMA InvokeOutcome ==
  ASSUME Avoid = Kinds, ClassInv, ObjectInv, frames \in Seq(Frames), NEW s \in Seq(Values),
         NEW b, NEW argc, NEW args, ArgsOf(s, b, argc, args), NEW w \in Nat,
         Invoke(s[b], s, argc, w)
  PROVE  Outcome(MeansProperty(s[b], args, w, b), s, b) /\ ObjectsGrow
  <1>. DEFINE r == s[b]
  <1>0. r \in Values
    <2>1. b \in 1 .. Len(s) BY DEF ArgsOf
    <2>. QED BY <2>1, ElementOfSeq
  <1>. HIDE DEF r
  <1>1. Invoke(r, s, argc, w) BY DEF r
  <1>2. CASE r.t # "instance"
    <2>1. Fail(Message) /\ oclass' = oclass BY <1>1, <1>2 DEF Invoke
    <2>2. ObjectsGrow BY <2>1 DEF ObjectsGrow, ObjectInv, Allocated
    <2>3. MeansProperty(r, args, w, b) = Error BY <1>2 DEF MeansProperty
    <2>. QED BY <2>1, <2>2, <2>3 DEF Outcome, r
  <1>3. CASE r.t = "instance"
    <2>1. r.i \in Allocated BY <1>0, <1>3, InstanceIs DEF Values
    <2>2. oclass[r.i] \in Class /\ field[r.i] \in FieldValues BY <2>1 DEF ObjectInv, Allocated
    <2>3. CASE field[r.i] # None
      <3>. DEFINE v == field[r.i]
                  t == [s EXCEPT ![Len(s) - argc] = v]
      <3>1. VCall(v, t, argc, w) BY <1>1, <1>3, <2>3 DEF Invoke, HasField
      <3>2. v \in Values BY <2>2, <2>3, FieldsAre
      <3>3. MeansProperty(r, args, w, b) = Means(v, args, w, b) BY <1>3, <2>3 DEF MeansProperty
      <3>. HIDE DEF v
      <3>4. /\ t \in Seq(Values) /\ Len(t) = Len(s) /\ t[b] = v
            /\ \A j \in 1 .. b - 1 : t[j] = s[j]
            /\ ArgsOf(t, b, argc, args)
        BY <3>2, PutAt
      <3>. HIDE DEF t
      <3>5. v \notin Fns
        <4>1. v \in FieldValues BY <2>2 DEF v
        <4>2. None \notin Fns /\ Iter \notin Fns
          <5>1. None \notin Fns BY FnIs
          <5>2. Iter.c = "" BY KindsAre
          <5>. QED BY <5>1, <5>2, FnIs, CallsAssumption
        <4>3. v \in Natives => v.t # "fn" BY KindsAre DEF Natives
        <4>4. v \in BoundsOf(Allocated) => v.t # "fn" BY DEF BoundsOf, Bound, Val
        <4>5. v \in Fns => v.t = "fn" BY FnIs
        <4>. QED BY <4>1, <4>2, <4>3, <4>4, <4>5 DEF FieldValues
      <3>6. Outcome(Reaches(v, t[b], args, w, b), t, b) /\ ObjectsGrow
        BY <3>1, <3>2, <3>4, <3>5, VCallOutcome
      <3>7. Reaches(v, t[b], args, w, b) = Means(v, args, w, b)
        BY <3>4 DEF Reaches, Means
      <3>8. Outcome(Means(v, args, w, b), s, b) BY <3>4, <3>6, <3>7, OutcomeBelow
      <3>. QED BY <3>3, <3>6, <3>8 DEF r
    <2>4. CASE field[r.i] = None
      <3>. DEFINE c == oclass[r.i]
      <3>1. InvokeFrom(c, "m", s, argc, w) BY <1>1, <1>3, <2>4 DEF Invoke, HasField
      <3>2. MeansProperty(r, args, w, b) = Enters(Nearest(lineage[c], "m"), r, args, w, b)
        BY <1>3, <2>4 DEF MeansProperty
      <3>3. c \in Class /\ "m" \in Names BY <2>2 DEF Names
      <3>. HIDE DEF c
      <3>4. s[b].t = "instance" BY <1>3 DEF r
      <3>5. Outcome(Enters(Nearest(lineage[c], "m"), s[b], args, w, b), s, b) /\ ObjectsGrow
        BY <3>1, <3>3, <3>4, FromOutcome
      <3>. QED BY <3>2, <3>5 DEF r
    <2>. QED BY <2>3, <2>4
  <1>. QED BY <1>2, <1>3
(* One result, where none but it is wanted.                                *)
LEMMA AdjustOne ==
  ASSUME NEW v, NEW w \in 0 .. 1
  PROVE  Adjust(<<v>>, w) = <<v>>
  <1>1. CASE w = 0 BY <1>1 DEF Adjust
  <1>2. CASE w = 1
    <2>. DEFINE a == [k \in 1 .. 1 |-> IF k <= Len(<<v>>) THEN <<v>>[k] ELSE Nil]
    <2>1. Adjust(<<v>>, w) = a BY <1>2 DEF Adjust
    <2>2. a = [k \in 1 .. 1 |-> v]
      <3>1. \A k \in 1 .. 1 : k <= Len(<<v>>) /\ <<v>>[k] = v OBVIOUS
      <3>. QED BY <3>1
    <2>3. a \in Seq({v}) /\ Len(a) = 1 /\ a[1] = v
      <3>1. a \in [1 .. 1 -> {v}] BY <2>2
      <3>2. 1 \in Nat OBVIOUS
      <3>. HIDE DEF a
      <3>3. a \in Seq({v}) /\ Len(a) = 1 BY <3>1, <3>2, FunctionSeq
      <3>. QED BY <2>2, <3>3
    <2>. HIDE DEF a
    <2>4. a = <<v>> BY <2>3, OneArg
    <2>. QED BY <2>1, <2>4
  <1>. QED BY <1>1, <1>2

(* The topmost value of a stack as a sequence of one.                      *)
LEMMA TopOne ==
  ASSUME NEW S, NEW t \in Seq(S), NEW b \in Nat \ {0}, Len(t) = b
  PROVE  SubSeq(t, b, Len(t)) = <<t[b]>>
  <1>. DEFINE u == SubSeq(t, (b - 1) + 1, Len(t))
  <1>1. b - 1 \in 0 .. Len(t) /\ (b - 1) + 1 = b OBVIOUS
  <1>2. /\ u \in Seq(S) /\ Len(u) = Len(t) - (b - 1)
        /\ \A i \in 1 .. Len(t) - (b - 1) : u[i] = t[(b - 1) + i]
    BY <1>1, Suffix
  <1>3. SubSeq(t, b, Len(t)) = u BY <1>1
  <1>. HIDE DEF u
  <1>4. Len(u) = 1 /\ u[1] = t[b] BY <1>2
  <1>5. t[b] \in S BY ElementOfSeq
  <1>6. u = <<t[b]>> BY <1>2, <1>4, <1>5, OneArg
  <1>. QED BY <1>3, <1>6

(* The loop that makes a call, its variables below the callee.             *)
Awaits(l, cs, m, s, b) ==
  /\ l.depth = Len(frames) /\ m.kind # "value" /\ (m.kind = "fn" => m.want = l.vars)
  /\ EndOf(Top) <= b - 4 /\ s[b - 3] = l.it /\ s[b - 2] = Nil
  /\ \A i \in 1 .. Len(cs) : cs[i].depth # Len(frames)
Waits(l, cs, m, s, b) == \/ l.depth # Len(frames) /\ LoopOK(l, cs, frames, s)
                         \/ Awaits(l, cs, m, s, b)

(* What is known where a call is made on the stack s.                      *)
Calling(m, s, b) ==
  /\ s \in Seq(Values) /\ b \in Nat \ {0} /\ EndOf(Top) < b /\ FramesOK(frames, owed, s)
  /\ callstart' \in Seq(Marks) /\ MarksOK(callstart', frames, s, Derived)
  /\ \A i \in 1 .. Len(callstart') : callstart'[i].at < b
  /\ loops' \in Seq(Loops) /\ Len(loops') <= 1
  /\ \A i \in 1 .. Len(loops') : Waits(loops'[i], callstart', m, s, b)

(* A loop that waits for the call being made waits for the frame that the  *)
(* call enters, or already has its results.                                *)
LEMMA LoopsCalled ==
  ASSUME FramesOK(frames, owed, stack), frames \in Seq(Frames),
         NEW m, NEW s, NEW b, Calling(m, s, b), NEW t, KeptTo(frames, s, t, b - 1),
         NEW l \in Loops, Waits(l, callstart', m, s, b)
  PROVE  /\ m.kind = "value" => LoopOK(l, callstart', frames, t)
         /\ \A f \in Frames : /\ m.kind = "fn" /\ f.base = b
                              /\ f.want = m.want \/ (f.want = 1 /\ m.want = 0)
                              => LoopOK(l, callstart', Append(frames, f), t)
  <1>. DEFINE cs == callstart'
  <1>1. /\ FramesOK(frames, owed, s) /\ b \in Nat \ {0} /\ EndOf(Top) < b
        /\ \A i \in 1 .. Len(cs) : cs[i].at < b
    BY DEF Calling
  <1>2. /\ b - 1 \in Nat /\ Len(t) \in Nat /\ EndOf(Last(frames)) <= b - 1 /\ b - 1 <= Len(t)
        /\ \A i \in 1 .. b - 1 : t[i] = s[i]
    BY DEF KeptTo
  <1>3. Len(frames) \in Nat \ {0} /\ Last(frames) = frames[Len(frames)] /\ Last(frames) \in Frames
    BY FrameOrder
  <1>. HIDE DEF cs
  <1>4. CASE l.depth # Len(frames) /\ LoopOK(l, cs, frames, s)
    <2>1. \A i \in 1 .. Len(cs) : cs[i].depth # l.depth BY <1>4 DEF LoopOK
    <2>2. LoopOK(l, cs, frames, t) BY <1>1, <1>2, <1>4, <2>1, LoopCut
    <2>3. \A f \in Frames : LoopOK(l, cs, Append(frames, f), t) BY <1>3, <1>4, <2>2, LoopEnter
    <2>. QED BY <2>2, <2>3 DEF cs
  <1>5. CASE Awaits(l, cs, m, s, b)
    <2>1. /\ l.depth = Len(frames) /\ m.kind # "value" /\ (m.kind = "fn" => m.want = l.vars)
          /\ EndOf(Last(frames)) <= b - 4 /\ s[b - 3] = l.it /\ s[b - 2] = Nil
          /\ \A i \in 1 .. Len(cs) : cs[i].depth # Len(frames)
      BY <1>5 DEF Awaits, Top
    <2>2. ASSUME NEW f \in Frames, m.kind = "fn", f.base = b,
                 f.want = m.want \/ (f.want = 1 /\ m.want = 0)
          PROVE  LoopOK(l, cs, Append(frames, f), t)
      <3>1. l.vars \in Nat \ {0} BY DEF Loops
      <3>2. f.want = l.vars BY <2>1, <2>2, <3>1
      <3>. PICK p \in Nat : p = b - 1 BY <1>2
      <3>3. EndOf(Last(frames)) \in Nat BY <1>3, FrameType
      <3>4. /\ f.base = p + 1 /\ EndOf(Last(frames)) <= p - 3 /\ p <= Len(t)
            /\ p - 2 \in 1 .. b - 1 /\ p - 1 \in 1 .. b - 1 /\ p - 2 = b - 3 /\ p - 1 = b - 2
        BY <1>1, <1>2, <2>1, <2>2, <3>3
      <3>5. t[p - 2] = l.it /\ t[p - 1] = Nil BY <1>2, <2>1, <3>4
      <3>. QED BY <1>2, <1>3, <2>1, <3>2, <3>4, <3>5, LoopStart
    <2>. QED BY <2>1, <2>2 DEF cs
  <1>. QED BY <1>4, <1>5 DEF Waits, cs
(* Every call does what is meant, and leaves the rest in order.            *)
LEMMA Called ==
  ASSUME CInv, status = "run", body = "", UNCHANGED <<classes, field>>,
         NEW m, NEW s, NEW b, Outcome(m, s, b), ObjectsGrow, Calling(m, s, b), Promise(m)
  PROVE  CInv'
  <1>. DEFINE cs == callstart'
              t == stack'
  <1>1. /\ s \in Seq(Values) /\ b \in Nat \ {0} /\ EndOf(Top) < b /\ FramesOK(frames, owed, s)
        /\ cs \in Seq(Marks) /\ MarksOK(cs, frames, s, Derived)
        /\ \A i \in 1 .. Len(cs) : cs[i].at < b
        /\ loops' \in Seq(Loops) /\ Len(loops') <= 1
        /\ \A i \in 1 .. Len(loops') : Waits(loops'[i], cs, m, s, b)
    BY DEF Calling
  <1>2. /\ frames \in Seq(Frames) /\ owed \in Seq(Intents) /\ ClassInv /\ ObjectInv
        /\ FramesOK(frames, owed, stack) /\ stack \in Seq(Values) /\ Len(stack) <= StackMax
    BY Parts
  <1>3. Derived' = Derived /\ body' = "" /\ field' = field BY SameNow DEF classes
  <1>4. oclass' \in [Inst -> Class \cup {""}] /\ Allocated \subseteq Allocated'
        /\ Values \subseteq Values' /\ FieldValues \subseteq FieldValues'
    BY GrownNow DEF ObjectsGrow
  <1>5. ClassInv' /\ ObjectInv'
    <2>1. ClassInv' BY <1>2, ClassesKept
    <2>. QED BY <1>2, <1>3, <1>4, <2>1 DEF ObjectInv
  <1>6. Top = Last(frames) /\ Last(frames) \in Frames /\ EndOf(Last(frames)) \in Nat
        /\ Len(frames) \in Nat \ {0}
    BY <1>2, FrameOrder, FrameType DEF Top
  <1>7. CASE m = Error /\ Fail(Message)
    <2>1. m.kind = "error" BY <1>7 DEF Error, Meant
    <2>2. owed' = owed /\ got' = Failure BY <2>1 DEF Promise
    <2>3. stack' = stack /\ frames' = frames /\ status' = "error" /\ message' = Message
      BY <1>7 DEF Fail
    <2>4. GotInv' BY <2>2, <2>3 DEF GotInv, Delivered
    <2>. QED BY <1>1, <1>3, <1>4, <2>2, <2>3, <2>4, Stopped
  <1>8. ASSUME Entered(m, b) \/ Answered(m, b), UNCHANGED <<status, message>>,
               t \in Seq(Values'), Len(t) <= StackMax, \A i \in 1 .. b - 1 : t[i] = s[i]
        PROVE  CInv'
    <2>. HIDE DEF cs, t
    <2>1. Len(t) \in Nat BY <1>8, LenProperties
    <2>2. b <= Len(t)
      <3>1. ASSUME Answered(m, b) PROVE b <= Len(t)
        <4>1. Len(t) = b /\ b \in Nat BY <1>1, <3>1 DEF Answered, t
        <4>. QED BY ONLY <4>1
      <3>2. ASSUME Entered(m, b) PROVE b <= Len(t)
        <4>1. PICK f \in Frames : f.base = b /\ EndOf(f) = Len(t) BY <3>2 DEF Entered, t
        <4>2. f.base <= EndOf(f) BY <4>1, FrameType
        <4>. QED BY ONLY <4>1, <4>2
      <3>. QED BY <1>8, <3>1, <3>2
    <2>10. b \in Nat \ {0} /\ EndOf(Last(frames)) < b /\ EndOf(Last(frames)) \in Nat
      BY <1>1, <1>6
    <2>11. PICK n \in Nat : n = b - 1
      <3>1. b - 1 \in Nat BY ONLY <2>10
      <3>. QED BY <3>1
    <2>3. /\ EndOf(Last(frames)) <= n /\ n <= Len(t) /\ \A i \in 1 .. n : t[i] = s[i]
          /\ \A i \in 1 .. Len(cs) : cs[i].at <= n
      <3>1. EndOf(Last(frames)) <= n /\ n <= Len(t)
        BY ONLY <2>1, <2>2, <2>10, <2>11, n \in Nat
      <3>2. ASSUME NEW i \in 1 .. Len(cs) PROVE cs[i].at <= n
        <4>1. cs[i] \in Marks BY <1>1, ElementOfSeq
        <4>2. cs[i].at \in Nat /\ cs[i].at < b BY <1>1, <4>1, MarkType
        <4>. QED BY ONLY <2>10, <2>11, <4>2, n \in Nat
      <3>3. \A i \in 1 .. n : t[i] = s[i] BY <1>8, <2>11
      <3>. QED BY <3>1, <3>2, <3>3
    <2>4. KeptTo(frames, s, t, b - 1)
      <3>1. KeptTo(frames, s, t, n) BY <2>1, <2>3 DEF KeptTo
      <3>. QED BY <2>11, <3>1
    <2>5. FramesOK(frames, owed, t) BY <1>1, <1>2, <2>1, <2>3, FramesCut
    <2>6. MarksOK(cs, frames, t, Derived) BY <1>1, <1>2, <2>1, <2>3, MarksCut
    <2>7. status' = "run" /\ message' = message BY <1>8
    <2>8. CASE Answered(m, b)
      <3>1. /\ m.kind = "value" /\ m.at = b /\ m.want \in 0 .. 1
            /\ Len(t) = b /\ t[b] = m.self /\ frames' = frames
        BY <2>8 DEF Answered, t
      <3>2. owed' = owed /\ got' = [at |-> m.at, vals |-> Adjust(<<m.self>>, m.want)]
        BY <3>1 DEF Promise
      <3>3. Adjust(<<m.self>>, m.want) = <<m.self>> BY <3>1, AdjustOne
      <3>4. got'.at = b /\ got'.vals = <<t[b]>> BY <3>1, <3>2, <3>3
      <3>5. SubSeq(t, b, Len(t)) = <<t[b]>> BY <1>1, <1>8, <3>1, TopOne DEF t
      <3>6. got' # Failure
        <4>1. Failure.at = 0 BY DEF Failure
        <4>. QED BY <1>1, <3>4, <4>1
      <3>7. GotInv' BY <2>7, <3>4, <3>5, <3>6 DEF GotInv, Delivered, t
      <3>8. LoopsOK(loops', cs, frames, t)
        <4>1. ASSUME NEW i \in 1 .. Len(loops') PROVE LoopOK(loops'[i], cs, frames, t)
          <5>1. loops'[i] \in Loops /\ Waits(loops'[i], cs, m, s, b) BY <1>1, ElementOfSeq
          <5>. QED BY <1>2, <2>4, <3>1, <5>1, LoopsCalled DEF cs
        <4>. QED BY <1>1, <4>1 DEF LoopsOK
      <3>9. TypeInv' BY <1>1, <1>2, <1>8, <3>1, <3>2 DEF TypeInv, t, cs
      <3>. QED BY <1>3, <1>5, <2>5, <2>6, <3>1, <3>2, <3>7, <3>8, <3>9 DEF CInv, t, cs
    <2>9. CASE Entered(m, b)
      <3>1. m.kind = "fn" /\ m \in Intents BY <2>9 DEF Entered
      <3>2. PICK f \in Frames : /\ frames' = Append(frames, f) /\ f.base = b
                                /\ Agrees(f, m, t) /\ EndOf(f) = Len(t)
        BY <2>9 DEF Entered, t
      <3>3. owed' = Append(owed, m) /\ got' = Nothing BY <3>1 DEF Promise
      <3>4. EndOf(Last(frames)) < f.base /\ EndOf(f) <= Len(t)
        <4>1. EndOf(f) = Len(t) /\ f.base = b BY <3>2
        <4>. QED BY ONLY <2>1, <2>10, <4>1
      <3>5. FramesOK(Append(frames, f), Append(owed, m), t)
        BY <1>2, <2>5, <3>1, <3>2, <3>4, FramesPush
      <3>6. MarksOK(cs, Append(frames, f), t, Derived)
        BY <1>1, <1>2, <2>6, <3>2, MarksEnter
      <3>7. LoopsOK(loops', cs, Append(frames, f), t)
        <4>1. f.want = m.want \/ (f.want = 1 /\ m.want = 0) BY <3>2 DEF Agrees
        <4>2. ASSUME NEW i \in 1 .. Len(loops') PROVE LoopOK(loops'[i], cs, Append(frames, f), t)
          <5>1. loops'[i] \in Loops /\ Waits(loops'[i], cs, m, s, b) BY <1>1, ElementOfSeq
          <5>. QED BY <1>2, <2>4, <3>1, <3>2, <4>1, <5>1, LoopsCalled DEF cs
        <4>. QED BY <1>1, <4>2 DEF LoopsOK
      <3>8. GotInv' BY <2>7, <3>3 DEF GotInv, Delivered, Nothing, Failure
      <3>9. Append(frames, f) \in Seq(Frames) /\ Append(owed, m) \in Seq(Intents)
        BY <1>2, <3>1, AppendProperties
      <3>10. TypeInv' BY <1>1, <1>8, <3>2, <3>3, <3>9 DEF TypeInv, t, cs
      <3>. QED BY <1>3, <1>5, <3>2, <3>3, <3>5, <3>6, <3>7, <3>8, <3>10 DEF CInv, t, cs
    <2>. QED BY <1>8, <2>8, <2>9
  <1>. QED BY <1>7, <1>8 DEF Outcome
----------------------------------------------------------------------------
(* The instructions that make a call.                                      *)

(* A plain function is not a value.                                        *)
LEMMA NotPlain ==
  ASSUME NEW I, NEW v \in ValuesOf(I)
  PROVE  v \notin Fns
  <1>. SUFFICES ASSUME v \in Fns PROVE FALSE OBVIOUS
  <1>1. v.t = "fn" /\ v.c \in Class /\ v.c # "" BY FnIs, CallsAssumption
  <1>2. v \notin {Nil, Num, Main, Iter, Message, Key} BY <1>1, KindsAre
  <1>3. v \notin Natives BY <1>1, KindsAre DEF Natives
  <1>4. v \notin Classes BY <1>1, KindsAre DEF Classes
  <1>5. v \notin BoundsOf(I)
    <2>1. v \in BoundsOf(I) => v.t = "bound" BY DEF BoundsOf, Bound, Val
    <2>. QED BY <1>1, <2>1
  <1>6. v \notin {Object(i) : i \in I} BY <1>1, KindsAre
  <1>. QED BY <1>2, <1>3, <1>4, <1>5, <1>6 DEF ValuesOf

(* The mark of the call to be made, over the other marks.                  *)
LEMMA LastMark ==
  ASSUME CInv, status = "run", Pending
  PROVE  /\ callstart # <<>> /\ Len(callstart) \in Nat \ {0} /\ Last(callstart) \in Marks
         /\ MarkOK(Last(callstart), frames, stack, Derived)
         /\ Last(callstart).depth = Len(frames)
         /\ EndOf(Top) \in Nat \ {0} /\ EndOf(Top) < LowOf(Last(callstart))
         /\ LowOf(Last(callstart)) \in Nat \ {0} /\ LowOf(Last(callstart)) <= At
         /\ At \in 1 .. Len(stack)
         /\ \A i \in 1 .. Len(callstart) - 1 : callstart[i].at < LowOf(Last(callstart))
  <1>1. /\ callstart # <<>> /\ Last(callstart).depth = Len(frames)
        /\ callstart \in Seq(Marks) /\ MarksOK(callstart, frames, stack, Derived)
        /\ frames \in Seq(Frames) /\ FramesOK(frames, owed, stack) /\ Len(stack) \in Nat
    BY Parts DEF Pending
  <1>2. Len(callstart) \in Nat \ {0} /\ Last(callstart) = callstart[Len(callstart)]
    BY <1>1, Ends
  <1>. PICK n \in 1 .. Len(callstart) : n = Len(callstart) BY <1>2
  <1>. DEFINE e == Last(callstart)
  <1>3. e = callstart[n] BY <1>2
  <1>4. e \in Marks /\ MarkOK(e, frames, stack, Derived) BY <1>1, <1>3, MarkOrder DEF MarksOK
  <1>5. \A i \in 1 .. n - 1 : callstart[i].at < LowOf(e) BY <1>1, <1>3, MarkOrder
  <1>6. e.depth = Len(frames) /\ At = e.at BY <1>1 DEF At
  <1>. HIDE DEF e
  <1>7. EndOf(frames[Len(frames)]) < LowOf(e) /\ e.at <= Len(stack)
    BY <1>4, <1>6 DEF MarkOK
  <1>8. Top \in Frames /\ Top = frames[Len(frames)] BY LowFact
  <1>9. EndOf(Top) \in Nat \ {0}
    <2>1. Top.base \in Nat \ {0} /\ EndOf(Top) \in Nat /\ Top.base <= EndOf(Top)
      BY <1>8, FrameType
    <2>. QED BY ONLY <2>1
  <1>10. e.at \in Nat /\ LowOf(e) \in Int /\ LowOf(e) <= e.at BY <1>4, MarkType
  <1>11. LowOf(e) \in Nat \ {0} /\ LowOf(e) <= At /\ At \in 1 .. Len(stack)
    <2>1. EndOf(Top) < LowOf(e) /\ e.at <= Len(stack) BY <1>7, <1>8
    <2>2. Len(stack) \in Nat BY <1>1
    <2>. QED BY ONLY <1>6, <1>9, <1>10, <2>1, <2>2
  <1>. QED BY <1>1, <1>2, <1>4, <1>5, <1>6, <1>7, <1>8, <1>9, <1>11 DEF e

(* What is known there.                                                    *)
LEMMA Instructed ==
  ASSUME CInv, Ready, Pending, callstart' = Front(callstart), loops' = loops,
         NEW m, NEW s \in Seq(Values), NEW b, b = LowOf(Last(callstart)), b - 1 <= Len(s),
         \A i \in 1 .. b - 1 : s[i] = stack[i]
  PROVE  Calling(m, s, b)
  <1>0. status = "run" /\ ~Looping BY DEF Ready
  <1>1. /\ callstart # <<>> /\ Len(callstart) \in Nat \ {0}
        /\ EndOf(Top) \in Nat \ {0} /\ EndOf(Top) < b /\ b \in Nat \ {0}
        /\ \A i \in 1 .. Len(callstart) - 1 : callstart[i].at < b
    BY <1>0, LastMark
  <1>2. /\ callstart \in Seq(Marks) /\ MarksOK(callstart, frames, stack, Derived)
        /\ frames \in Seq(Frames) /\ FramesOK(frames, owed, stack)
        /\ loops \in Seq(Loops) /\ LoopsOK(loops, callstart, frames, stack)
    BY <1>0, Parts
  <1>. DEFINE cs == Front(callstart)
  <1>3. /\ cs \in Seq(Marks) /\ Len(cs) = Len(callstart) - 1
        /\ \A i \in 1 .. Len(callstart) - 1 : cs[i] = callstart[i]
    BY <1>1, <1>2, Ends
  <1>4. MarksOK(cs, frames, stack, Derived) BY <1>1, <1>2, MarksPop
  <1>. HIDE DEF cs
  <1>5. Len(s) \in Nat BY LenProperties
  <1>6. PICK n \in Nat : n = b - 1
    <2>1. b - 1 \in Nat BY ONLY <1>1
    <2>. QED BY <2>1
  <1>7. Top = Last(frames) BY DEF Top
  <1>8. EndOf(Last(frames)) <= n /\ n <= Len(s) /\ \A i \in 1 .. n : s[i] = stack[i]
    <2>1. EndOf(Top) <= n BY ONLY <1>1, <1>6, n \in Nat
    <2>. QED BY <1>6, <1>7, <2>1
  <1>9. \A i \in 1 .. Len(cs) : cs[i].at < b BY <1>1, <1>3
  <1>10. \A i \in 1 .. Len(cs) : cs[i].at <= n
    <2>. SUFFICES ASSUME NEW i \in 1 .. Len(cs) PROVE cs[i].at <= n OBVIOUS
    <2>1. cs[i] \in Marks BY <1>3, ElementOfSeq
    <2>2. cs[i].at \in Nat /\ cs[i].at < b BY <1>9, <2>1, MarkType
    <2>. QED BY ONLY <1>1, <1>6, <2>2, n \in Nat
  <1>11. FramesOK(frames, owed, s) BY <1>2, <1>5, <1>8, FramesCut
  <1>12. MarksOK(cs, frames, s, Derived) BY <1>2, <1>3, <1>4, <1>5, <1>8, <1>10, MarksCut
  <1>13. LoopsOK(loops, cs, frames, s) /\ \A i \in 1 .. Len(loops) : loops[i].depth # Len(frames)
    <2>1. KeptTo(frames, stack, s, n) BY <1>5, <1>8 DEF KeptTo
    <2>2. SameDepths(callstart, cs, Len(frames)) BY <1>1, <1>3 DEF SameDepths
    <2>3. \A i \in 1 .. Len(loops) : loops[i].depth # Len(frames) BY <1>0, LowFact
    <2>. QED BY <1>2, <2>1, <2>2, <2>3, LoopsCut
  <1>14. callstart' = cs BY DEF cs
  <1>15. \A i \in 1 .. Len(loops) : Waits(loops[i], cs, m, s, b)
    BY <1>13 DEF LoopsOK, Waits
  <1>. QED BY <1>1, <1>2, <1>3, <1>9, <1>11, <1>12, <1>13, <1>14, <1>15 DEF Calling, LoopsOK

(* The arguments are above the mark.                                       *)
LEMMA ArgsAre ==
  ASSUME CInv, status = "run", Pending
  PROVE  ArgsOf(stack, At, Len(Args), Args)
  <1>1. At \in 1 .. Len(stack) /\ stack \in Seq(Values) /\ Len(stack) <= StackMax
        /\ Len(stack) \in Nat
    BY LastMark, Parts
  <1>. PICK n \in 0 .. Len(stack) : n = At BY <1>1
  <1>. DEFINE a == SubSeq(stack, n + 1, Len(stack))
  <1>2. a \in Seq(Values) /\ Len(a) = Len(stack) - n /\ \A i \in 1 .. Len(stack) - n : a[i] = stack[n + i]
    BY <1>1, Suffix
  <1>3. Args = a BY DEF Args
  <1>. HIDE DEF a
  <1>4. Len(a) \in Nat /\ Len(stack) = n + Len(a) /\ n \in Nat \ {0} BY <1>1, <1>2
  <1>5. \A j \in 1 .. Len(a) : stack[n + j] = a[j] BY <1>2
  <1>. QED BY <1>1, <1>2, <1>3, <1>4, <1>5 DEF ArgsOf

(* OP_CALL                                                                 *)
LEMMA OpCallStep ==
  ASSUME Avoid = Kinds, CInv, NEW w \in Wants, OpCall(w)
  PROVE  CInv'
  <1>. DEFINE v == stack[At]
              m == Means(v, Args, w, At)
  <1>1. /\ Ready /\ Pending /\ Last(callstart).how = "call" /\ callstart' = Front(callstart)
        /\ UNCHANGED <<classes, field>> /\ loops' = loops
        /\ VCall(v, stack, Len(Args), w) /\ Promise(m)
    BY DEF OpCall, Instruction
  <1>2. status = "run" /\ body = "" BY <1>1 DEF Ready
  <1>3. /\ frames \in Seq(Frames) /\ stack \in Seq(Values) /\ ClassInv /\ ObjectInv
        /\ Len(stack) \in Nat
    BY Parts
  <1>4. ArgsOf(stack, At, Len(Args), Args) BY <1>1, <1>2, ArgsAre
  <1>5. /\ LowOf(Last(callstart)) = At /\ At \in 1 .. Len(stack)
    BY <1>1, <1>2, LastMark DEF LowOf, At
  <1>6. v \in Values /\ v \notin Fns
    <2>1. v \in Values BY <1>3, <1>5, ElementOfSeq
    <2>. QED BY <2>1, NotPlain DEF Values
  <1>7. w \in Nat BY CallsAssumption
  <1>. HIDE DEF v
  <1>8. Outcome(Reaches(v, stack[At], Args, w, At), stack, At) /\ ObjectsGrow
    BY <1>1, <1>3, <1>4, <1>6, <1>7, VCallOutcome
  <1>9. Reaches(v, stack[At], Args, w, At) = m BY DEF Reaches, Means, v
  <1>. HIDE DEF m
  <1>10. At - 1 <= Len(stack)
    <2>. PICK n \in Nat : n = Len(stack) BY <1>3
    <2>. QED BY <1>5
  <1>11. Calling(m, stack, At) BY <1>1, <1>3, <1>5, <1>10, Instructed
  <1>. QED BY <1>1, <1>2, <1>8, <1>9, <1>11, Called

(* OP_INVOKE                                                               *)
LEMMA OpInvokeStep ==
  ASSUME Avoid = Kinds, CInv, NEW w \in Wants, OpInvoke(w)
  PROVE  CInv'
  <1>. DEFINE m == MeansProperty(stack[At], Args, w, At)
  <1>1. /\ Ready /\ Pending /\ Last(callstart).how = "invoke" /\ callstart' = Front(callstart)
        /\ UNCHANGED <<classes, field>> /\ loops' = loops
        /\ Invoke(stack[At], stack, Len(Args), w) /\ Promise(m)
    BY DEF OpInvoke, Instruction
  <1>2. status = "run" /\ body = "" BY <1>1 DEF Ready
  <1>3. /\ frames \in Seq(Frames) /\ stack \in Seq(Values) /\ ClassInv /\ ObjectInv
        /\ Len(stack) \in Nat
    BY Parts
  <1>4. ArgsOf(stack, At, Len(Args), Args) BY <1>1, <1>2, ArgsAre
  <1>5. /\ LowOf(Last(callstart)) = At /\ At \in 1 .. Len(stack)
    BY <1>1, <1>2, LastMark DEF LowOf, At
  <1>6. w \in Nat BY CallsAssumption
  <1>7. Outcome(m, stack, At) /\ ObjectsGrow BY <1>1, <1>3, <1>4, <1>6, InvokeOutcome
  <1>. HIDE DEF m
  <1>8. At - 1 <= Len(stack)
    <2>. PICK n \in Nat : n = Len(stack) BY <1>3
    <2>. QED BY <1>5
  <1>9. Calling(m, stack, At) BY <1>1, <1>3, <1>5, <1>8, Instructed
  <1>. QED BY <1>1, <1>2, <1>7, <1>9, Called

(* OP_INVOKE_INDEX without arguments: what is dropped is the key.          *)
LEMMA OpInvokeIndexStep ==
  ASSUME Avoid = Kinds, CInv, NEW w \in Wants, OpInvokeIndex(w)
  PROVE  CInv'
  <1>. DEFINE m == MeansProperty(stack[At - 1], Args, w, At - 1)
              s == Front(stack)
  <1>1. /\ Ready /\ Pending /\ Last(callstart).how = "index" /\ callstart' = Front(callstart)
        /\ UNCHANGED <<classes, field>> /\ loops' = loops /\ Args = <<>>
        /\ Invoke(stack[At - 1], s, Len(Args), w) /\ Promise(m)
    BY DEF OpInvokeIndex, Instruction, Kinds
  <1>2. status = "run" /\ body = "" BY <1>1 DEF Ready
  <1>3. /\ frames \in Seq(Frames) /\ stack \in Seq(Values) /\ ClassInv /\ ObjectInv
        /\ Len(stack) \in Nat /\ Len(stack) <= StackMax
    BY Parts
  <1>4. ArgsOf(stack, At, Len(Args), Args) BY <1>1, <1>2, ArgsAre
  <1>5. /\ LowOf(Last(callstart)) = At - 1 /\ LowOf(Last(callstart)) \in Nat \ {0}
        /\ At \in 1 .. Len(stack)
    BY <1>1, <1>2, LastMark DEF LowOf, At
  <1>6. w \in Nat /\ StackMax \in Nat BY CallsAssumption
  <1>7. Len(Args) = 0 /\ Args \in Seq(Values) BY <1>1, EmptySeq
  <1>8. Len(stack) = At
    <2>1. Len(stack) = At + Len(Args) /\ Len(Args) = 0 BY <1>4, <1>7 DEF ArgsOf
    <2>2. At \in Nat BY <1>3, <1>5
    <2>. QED BY ONLY <2>1, <2>2
  <1>9. stack # <<>>
    <2>1. Len(stack) # 0 BY <1>5, <1>8
    <2>. QED BY <2>1, EmptySeq
  <1>10. s \in Seq(Values) /\ Len(s) = Len(stack) - 1 /\ \A i \in 1 .. Len(stack) - 1 : s[i] = stack[i]
    BY <1>3, <1>9, Ends
  <1>. HIDE DEF s
  <1>11. PICK b \in Nat \ {0} : b = At - 1 BY <1>5
  <1>12. Len(s) = b /\ s[b] = stack[b] /\ b <= StackMax
    <2>1. Len(s) = b BY <1>8, <1>10, <1>11
    <2>2. b \in 1 .. Len(stack) - 1 BY <1>8, <1>11
    <2>3. b = Len(stack) - 1 BY <1>8, <1>11
    <2>4. b <= StackMax BY ONLY <2>3, <1>3, <1>6, b \in Nat
    <2>. QED BY <1>10, <2>1, <2>2, <2>4
  <1>13. ArgsOf(s, b, Len(Args), Args)
    <2>1. Len(s) = b + Len(Args) /\ Len(s) <= StackMax BY <1>7, <1>12
    <2>2. \A j \in 1 .. Len(Args) : s[b + j] = Args[j] BY <1>7
    <2>. QED BY <1>7, <2>1, <2>2 DEF ArgsOf
  <1>14. m = MeansProperty(s[b], Args, w, b) /\ Invoke(s[b], s, Len(Args), w)
    BY <1>1, <1>11, <1>12
  <1>. HIDE DEF m
  <1>15. Outcome(m, s, b) /\ ObjectsGrow
    <2>1. Outcome(MeansProperty(s[b], Args, w, b), s, b) /\ ObjectsGrow
      BY <1>3, <1>6, <1>10, <1>13, <1>14, InvokeOutcome
    <2>. QED BY <1>14, <2>1
  <1>16. Calling(m, s, b)
    <2>1. b - 1 <= Len(s) BY <1>12
    <2>2. \A i \in 1 .. b - 1 : s[i] = stack[i]
      <3>1. \A i \in 1 .. b - 1 : i \in 1 .. Len(stack) - 1 BY <1>10, <1>12
      <3>. QED BY <1>10, <3>1
    <2>3. b = LowOf(Last(callstart)) BY <1>5, <1>11
    <2>. QED BY <1>1, <1>10, <2>1, <2>2, <2>3, Instructed
  <1>. QED BY <1>1, <1>2, <1>15, <1>16, Called

(* OP_INVOKE_SUPER: the line of the superclass is the rest of the line.    *)
LEMMA OpInvokeSuperStep ==
  ASSUME Avoid = Kinds, CInv, NEW w \in Wants, NEW m \in Names, OpInvokeSuper(m, w)
  PROVE  CInv'
  <1>. DEFINE c == Top.fn.c
              mean == MeansSuper(m, Args, w, At)
  <1>1. /\ Ready /\ Pending /\ Last(callstart).how = "super" /\ callstart' = Front(callstart)
        /\ UNCHANGED <<classes, field>> /\ loops' = loops
        /\ InvokeFrom(lineage[c][2], m, stack, Len(Args), w) /\ Promise(mean)
    BY DEF OpInvokeSuper, Instruction
  <1>2. status = "run" /\ body = "" BY <1>1 DEF Ready
  <1>3. /\ frames \in Seq(Frames) /\ stack \in Seq(Values) /\ ClassInv /\ ObjectInv
        /\ Len(stack) \in Nat
    BY Parts
  <1>4. ArgsOf(stack, At, Len(Args), Args) BY <1>1, <1>2, ArgsAre
  <1>5. /\ LowOf(Last(callstart)) = At /\ At \in 1 .. Len(stack)
        /\ MarkOK(Last(callstart), frames, stack, Derived) /\ Last(callstart).depth = Len(frames)
    BY <1>1, <1>2, LastMark DEF LowOf, At
  <1>6. w \in Nat BY CallsAssumption
  <1>7. Top = frames[Len(frames)] BY <1>2, LowFact
  <1>8. OfSuper(Top, Derived) /\ stack[At] = Self
    BY <1>1, <1>5, <1>7 DEF MarkOK, Self, At
  <1>9. Top.fn \in Fns /\ c \in Class /\ Len(lineage[c]) > 1
    BY <1>8 DEF OfSuper, Derived
  <1>10. c # "" /\ lineage[c][2] \in Class
    <2>1. c # "" BY <1>9, CallsAssumption
    <2>. QED BY <1>2, <1>9, <2>1, SuperIs
  <1>11. Tail(lineage[c]) = lineage[lineage[c][2]] BY <1>3, <1>9, InLineFacts
  <1>12. stack[At].t = "instance" BY <1>2, <1>8, <1>9, SelfIs
  <1>13. Outcome(Enters(Nearest(lineage[lineage[c][2]], m), stack[At], Args, w, At), stack, At)
         /\ ObjectsGrow
    BY <1>1, <1>3, <1>4, <1>6, <1>10, <1>12, FromOutcome
  <1>14. mean = Enters(Nearest(lineage[lineage[c][2]], m), stack[At], Args, w, At)
    BY <1>8, <1>11 DEF MeansSuper
  <1>. HIDE DEF mean
  <1>15. At - 1 <= Len(stack)
    <2>. PICK n \in Nat : n = Len(stack) BY <1>3
    <2>. QED BY <1>5
  <1>16. Calling(mean, stack, At) BY <1>1, <1>3, <1>5, <1>15, Instructed
  <1>. QED BY <1>1, <1>2, <1>13, <1>14, <1>16, Called
----------------------------------------------------------------------------
(* The iterators of loops.                                                 *)

(* A call of two arguments enters a function or fails.                     *)
LEMMA EntersOrFails ==
  ASSUME NEW f, NEW self, NEW args, NEW w, NEW b
  PROVE  \/ Enters(f, self, args, w, b) = Error
         \/ Enters(f, self, args, w, b) = Meant("fn", f, self, args, w, b)
  BY DEF Enters

(* What a call with two arguments means: never a new value, and no other   *)
(* number of results than asked for.                                       *)
LEMMA MeansPair ==
  ASSUME NEW v, NEW S, NEW args \in Seq(S), Len(args) = 2, NEW w, NEW b
  PROVE  /\ Means(v, args, w, b).kind # "value"
         /\ Means(v, args, w, b).kind = "fn" => Means(v, args, w, b).want = w
  <1>. DEFINE m == Means(v, args, w, b)
  <1>1. args # <<>> /\ args # <<Num>>
    <2>1. args # <<>> BY EmptySeq
    <2>2. Len(<<Num>>) = 1 OBVIOUS
    <2>. QED BY <2>1, <2>2
  <1>2. m = Error \/ \E f, self : m = Enters(f, self, args, w, b)
    BY <1>1 DEF Means
  <1>3. m = Error \/ \E f, self : m = Meant("fn", f, self, args, w, b)
    BY <1>2, EntersOrFails
  <1>. HIDE DEF m
  <1>4. m = Error => m.kind = "error" BY DEF Error, Meant
  <1>5. ASSUME NEW f, NEW self, m = Meant("fn", f, self, args, w, b)
        PROVE  m.kind = "fn" /\ m.want = w
    BY <1>5 DEF Meant
  <1>6. m.kind # "value" /\ (m.kind = "fn" => m.want = w) BY <1>3, <1>4, <1>5
  <1>. QED BY <1>6 DEF m

(* A sequence of two elements.                                             *)
LEMMA PairIs ==
  ASSUME NEW S, NEW a \in S, NEW z \in S
  PROVE  <<a, z>> \in Seq(S) /\ Len(<<a, z>>) = 2 /\ <<a, z>>[1] = a /\ <<a, z>>[2] = z
  OBVIOUS

(* The three variables of a loop, and a copy of them.                      *)
LEMMA CopyIs ==
  ASSUME NEW S, NEW s \in Seq(S), NEW n \in Nat, n = Len(s), n >= 3
  PROVE  /\ s \o SubSeq(s, n - 2, n) \in Seq(S) /\ Len(s \o SubSeq(s, n - 2, n)) = n + 3
         /\ \A i \in 1 .. n : (s \o SubSeq(s, n - 2, n))[i] = s[i]
         /\ (s \o SubSeq(s, n - 2, n))[n + 1] = s[n - 2]
         /\ (s \o SubSeq(s, n - 2, n))[n + 2] = s[n - 1]
         /\ (s \o SubSeq(s, n - 2, n))[n + 3] = s[n]
  <1>. PICK k \in 0 .. Len(s) : k = n - 3 OBVIOUS
  <1>1. k + 1 = n - 2 /\ Len(s) - k = 3 /\ k + 1 = n - 2 /\ k + 2 = n - 1 /\ k + 3 = n OBVIOUS
  <1>. DEFINE z == SubSeq(s, k + 1, Len(s))
  <1>2. z \in Seq(S) /\ Len(z) = Len(s) - k /\ \A i \in 1 .. Len(s) - k : z[i] = s[k + i]
    BY Suffix
  <1>3. SubSeq(s, n - 2, n) = z BY <1>1
  <1>. HIDE DEF z
  <1>4. Len(z) = 3 /\ z[1] = s[n - 2] /\ z[2] = s[n - 1] /\ z[3] = s[n] BY <1>1, <1>2
  <1>. DEFINE t == s \o z
  <1>7. z \in Seq(S) BY <1>2
  <1>5. /\ t \in Seq(S) /\ Len(t) = Len(s) + Len(z) /\ \A i \in 1 .. Len(s) : t[i] = s[i]
        /\ \A j \in 1 .. Len(z) : t[Len(s) + j] = z[j]
    BY ONLY <1>7, s \in Seq(S), Joined
  <1>. HIDE DEF t
  <1>6. Len(t) = n + 3 /\ t[n + 1] = z[1] /\ t[n + 2] = z[2] /\ t[n + 3] = z[3]
    BY <1>4, <1>5
  <1>. QED BY <1>3, <1>4, <1>5, <1>6 DEF t

(* Prepare, where s has the variables of the loop on top.                  *)
Prepares(it, k, s, n) ==
  /\ n \in Nat /\ n = Len(s) /\ EndOf(Top) <= n - 3 /\ s[n - 2] = it /\ s[n - 1] = Nil
  /\ \A i \in 1 .. n - 3 : s[i] = stack[i]
  /\ \A i \in 1 .. Len(callstart) : callstart[i].depth # Len(frames)
  /\ loops' \in Seq(Loops) /\ Len(loops') = 1 /\ loops'[1].depth = Len(frames)
  /\ loops'[1].vars = k /\ loops'[1].it = it
(* Copying the three variables of a loop and calling its iterator keeps    *)
(* the invariant.                                                          *)
LEMMA PrepareStep ==
  ASSUME Avoid = Kinds, CInv, status = "run", body = "", UNCHANGED <<classes, field, callstart>>,
         NEW it, NEW k \in Nat \ {0}, NEW s \in Seq(Values), Prepare(it, s, k),
         NEW n, Prepares(it, k, s, n)
  PROVE  CInv'
  <1>0. /\ n \in Nat /\ n = Len(s) /\ EndOf(Top) <= n - 3 /\ s[n - 2] = it /\ s[n - 1] = Nil
        /\ \A i \in 1 .. n - 3 : s[i] = stack[i]
        /\ \A i \in 1 .. Len(callstart) : callstart[i].depth # Len(frames)
    BY DEF Prepares
  <1>1. /\ frames \in Seq(Frames) /\ ClassInv /\ ObjectInv /\ callstart \in Seq(Marks)
        /\ FramesOK(frames, owed, stack) /\ MarksOK(callstart, frames, stack, Derived)
    BY Parts
  <1>2. /\ Top = Last(frames) /\ EndOf(Top) \in Nat /\ Top.base \in Nat \ {0} /\ Top.base <= EndOf(Top)
    BY LowFact DEF Top
  <1>3. PICK h \in Nat : h = n - 3 /\ EndOf(Top) <= h /\ h >= 1
    <2>1. n \in Nat /\ EndOf(Top) <= n - 3 BY <1>0
    <2>2. n - 3 \in Nat /\ n - 3 >= 1 BY ONLY <1>2, <2>1
    <2>. QED BY ONLY <2>1, <2>2
  <1>26. n \in Nat /\ h \in Nat /\ h = n - 3 /\ h >= 1 BY <1>0, <1>3
  <1>4. n >= 3 /\ n \in 1 .. n /\ n - 1 \in 1 .. n /\ n - 2 \in 1 .. n
    BY ONLY <1>26
  <1>. DEFINE t == s \o SubSeq(s, n - 2, n)
              args == <<Nil, s[n]>>
              m == Means(it, args, k, n + 1)
  <1>5. Len(t) <= StackMax /\ VCall(t[n + 1], t, 2, k) /\ Promise(m)
    BY <1>0 DEF Prepare, Kinds
  <1>27. s \in Seq(Values) /\ n \in Nat /\ n = Len(s) BY <1>0
  <1>28. /\ t \in Seq(Values) /\ Len(t) = n + 3 /\ \A i \in 1 .. n : t[i] = s[i]
         /\ t[n + 1] = s[n - 2] /\ t[n + 2] = s[n - 1] /\ t[n + 3] = s[n]
    BY ONLY <1>4, <1>27, CopyIs
  <1>6. /\ t \in Seq(Values) /\ Len(t) = n + 3 /\ \A i \in 1 .. n : t[i] = s[i]
        /\ t[n + 1] = it /\ t[n + 2] = Nil /\ t[n + 3] = s[n]
    BY <1>0, <1>28
  <1>7. it \in Values /\ s[n] \in Values /\ Nil \in Values
    <2>1. s[n - 2] \in Values /\ s[n] \in Values BY ONLY <1>4, <1>27, ElementOfSeq
    <2>. QED BY <1>0, <2>1 DEF Values, ValuesOf
  <1>8. args \in Seq(Values) /\ Len(args) = 2 /\ args[1] = Nil /\ args[2] = s[n]
    BY <1>7, PairIs
  <1>. HIDE DEF t, args
  <1>9. PICK b \in Nat \ {0} : b = n + 1
    <2>1. n + 1 \in Nat \ {0} BY ONLY <1>26
    <2>. QED BY ONLY <2>1
  <1>10. /\ b + 1 = n + 2 /\ b + 2 = n + 3 /\ b - 3 = n - 2 /\ b - 2 = n - 1 /\ b - 4 = h
    BY ONLY <1>9, <1>26, b \in Nat
  <1>11. ArgsOf(t, b, 2, args)
    <2>1. \A j \in 1 .. 2 : j = 1 \/ j = 2 BY ONLY TRUE
    <2>2. t[b + 1] = args[1] /\ t[b + 2] = args[2] BY <1>6, <1>8, <1>10
    <2>3. \A j \in 1 .. 2 : t[b + j] = args[j] BY ONLY <2>1, <2>2
    <2>4. Len(t) = b + 2 /\ Len(t) <= StackMax BY <1>5, <1>6, <1>10
    <2>5. b \in Nat \ {0} /\ 2 \in Nat OBVIOUS
    <2>. QED BY ONLY <1>8, <2>3, <2>4, <2>5 DEF ArgsOf
  <1>12. it \notin Fns BY <1>7, NotPlain DEF Values
  <1>13. t[b] = it /\ VCall(it, t, 2, k) BY <1>5, <1>6, <1>9
  <1>14. Outcome(Reaches(it, t[b], args, k, b), t, b) /\ ObjectsGrow
    BY <1>1, <1>6, <1>7, <1>11, <1>12, <1>13, VCallOutcome
  <1>15. Reaches(it, t[b], args, k, b) = m
    BY <1>9, <1>13 DEF Reaches, Means
  <1>16. m.kind # "value" /\ (m.kind = "fn" => m.want = k)
    <2>1. args \in Seq(Values) /\ Len(args) = 2 BY <1>8
    <2>. QED BY ONLY <2>1, MeansPair
  <1>. HIDE DEF m
  <1>17. \A i \in 1 .. h : t[i] = stack[i]
    <2>. SUFFICES ASSUME NEW i \in 1 .. h PROVE t[i] = stack[i] OBVIOUS
    <2>1. i \in 1 .. n /\ i \in 1 .. n - 3 BY ONLY <1>26, i \in 1 .. h
    <2>. QED BY <1>0, <1>6, <2>1
  <1>18. Len(t) \in Nat /\ h <= Len(t)
    <2>1. Len(t) = n + 3 BY <1>6
    <2>. QED BY ONLY <1>26, <2>1
  <1>29. EndOf(Last(frames)) <= h /\ h \in Nat BY <1>2, <1>3
  <1>19. FramesOK(frames, owed, t) BY ONLY <1>1, <1>17, <1>18, <1>29, FramesCut
  <1>20. \A i \in 1 .. Len(callstart) : callstart[i].at <= h /\ callstart[i].at < b
    <2>. SUFFICES ASSUME NEW i \in 1 .. Len(callstart)
                  PROVE  callstart[i].at <= h /\ callstart[i].at < b
      OBVIOUS
    <2>1. callstart[i] \in Marks /\ callstart[i].at < Top.base BY <1>0, <1>1, <1>2, MarkOrder
    <2>2. callstart[i].at \in Nat BY <2>1, MarkType
    <2>. QED BY ONLY <1>2, <1>3, <1>9, <1>26, <2>1, <2>2
  <1>30. \A i \in 1 .. Len(callstart) : callstart[i].at <= h BY <1>20
  <1>21. MarksOK(callstart, frames, t, Derived)
    BY ONLY <1>1, <1>17, <1>18, <1>29, <1>30, MarksCut
  <1>31. loops' \in Seq(Loops) /\ Len(loops') = 1 BY DEF Prepares
  <1>22. ASSUME NEW i \in 1 .. Len(loops') PROVE Waits(loops'[i], callstart, m, t, b)
    <2>1. i = 1 BY ONLY <1>31, i \in 1 .. Len(loops')
    <2>. DEFINE l == loops'[1]
    <2>2. l.depth = Len(frames) /\ l.vars = k /\ l.it = it BY DEF Prepares
    <2>. HIDE DEF l
    <2>3. t[b - 3] = it /\ t[b - 2] = Nil
      <3>1. t[n - 2] = s[n - 2] /\ t[n - 1] = s[n - 1] BY <1>4, <1>6
      <3>. QED BY <1>0, <1>10, <3>1
    <2>4. EndOf(Top) <= b - 4 BY <1>3, <1>10
    <2>5. Awaits(l, callstart, m, t, b) BY <1>0, <1>16, <2>2, <2>3, <2>4 DEF Awaits
    <2>. QED BY <2>1, <2>5 DEF Waits, l
  <1>23. EndOf(Top) < b BY ONLY <1>2, <1>3, <1>9, <1>26
  <1>24. callstart' = callstart /\ Len(loops') <= 1
    <2>1. Len(loops') <= 1 BY ONLY <1>31
    <2>. QED BY <2>1
  <1>25. Calling(m, t, b)
    BY <1>1, <1>6, <1>9, <1>19, <1>20, <1>21, <1>22, <1>23, <1>24, <1>31 DEF Calling
  <1>. QED BY <1>5, <1>14, <1>15, <1>25, Called

(* OP_FOREACH_PREP                                                         *)
LEMMA ForeachStep ==
  ASSUME Avoid = Kinds, CInv, NEW v \in Operands, NEW k \in Wants, Foreach(v, k)
  PROVE  CInv'
  <1>. DEFINE three == <<v, Nil, Nil>>
              s == stack \o three
              l == [depth |-> Len(frames), vars |-> k, it |-> v]
              e == <<>>
  <1>1. /\ Ready /\ ~Pending /\ Len(stack) = Low /\ k # 0 /\ loops = e
        /\ loops' = Append(loops, l) /\ Prepare(v, s, k)
        /\ UNCHANGED <<classes, field, callstart>>
    BY DEF Foreach
  <1>2. status = "run" /\ body = "" BY <1>1 DEF Ready
  <1>3. v \in Values /\ v \in ValuesOf(Inst) /\ Nil \in Values
    BY OperandsAre DEF Values, ValuesOf
  <1>4. Len(three) = 3 /\ three[1] = v /\ three[2] = Nil OBVIOUS
  <1>17. three \in Seq(Values) BY <1>3
  <1>18. stack \in Seq(Values) BY Parts
  <1>5. stack \in Seq(Values) /\ Len(stack) \in Nat /\ loops \in Seq(Loops) BY Parts
  <1>. HIDE DEF three
  <1>6. /\ s \in Seq(Values) /\ Len(s) = Len(stack) + Len(three)
        /\ \A i \in 1 .. Len(stack) : s[i] = stack[i]
        /\ \A j \in 1 .. Len(three) : s[Len(stack) + j] = three[j]
    BY ONLY <1>17, <1>18, Joined
  <1>. HIDE DEF s
  <1>7. EndOf(Top) <= Len(stack) /\ \A i \in 1 .. Len(callstart) : callstart[i].depth # Len(frames)
    BY <1>1, <1>2, LowFact
  <1>8. PICK n \in Nat : n = Len(stack) + 3 BY <1>5
  <1>9. n = Len(s) /\ n - 3 = Len(stack) /\ n - 2 = Len(stack) + 1 /\ n - 1 = Len(stack) + 2
    BY <1>4, <1>5, <1>6, <1>8
  <1>10. s[n - 2] = v /\ s[n - 1] = Nil BY <1>4, <1>6, <1>9
  <1>11. k \in Nat \ {0} /\ Len(frames) \in Nat
    <2>1. Len(frames) \in Nat BY <1>2, LowFact
    <2>. QED BY <1>1, <2>1, CallsAssumption
  <1>12. l \in Loops /\ l.depth = Len(frames) /\ l.vars = k /\ l.it = v
    BY <1>3, <1>11 DEF Loops
  <1>. HIDE DEF l, e
  <1>13. loops' \in Seq(Loops) /\ Len(loops') = 1 /\ loops'[1] = l
    <2>1. loops = <<>> BY <1>1 DEF e
    <2>2. Len(loops) = 0 BY <2>1, EmptySeq
    <2>3. /\ loops' \in Seq(Loops) /\ Len(loops') = Len(loops) + 1
          /\ loops'[Len(loops) + 1] = l
      BY <1>1, <1>5, <1>12, AppendProperties
    <2>. QED BY <2>2, <2>3
  <1>14. \A i \in 1 .. n - 3 : s[i] = stack[i] BY <1>6, <1>9
  <1>15. EndOf(Top) <= n - 3 BY <1>7, <1>9
  <1>16. loops'[1].depth = Len(frames) /\ loops'[1].vars = k /\ loops'[1].it = v
    BY <1>12, <1>13
  <1>19. Prepares(v, k, s, n)
    BY <1>7, <1>9, <1>10, <1>13, <1>14, <1>15, <1>16 DEF Prepares
  <1>. QED BY <1>1, <1>2, <1>6, <1>11, <1>19, PrepareStep
(* A loop whose iterator has returned: its variables are below the results.*)
LEMMA LoopIs ==
  ASSUME CInv, status = "run", Looping
  PROVE  /\ loops # <<>> /\ Len(loops) = 1 /\ loops[1] \in Loops /\ loops[1].depth = Len(frames)
         /\ Last(loops) = loops[1]
         /\ LoopOK(loops[1], callstart, frames, stack)
         /\ LoopTop(loops[1], frames, stack) = Len(stack) - loops[1].vars
  <1>1. loops \in Seq(Loops) /\ Len(loops) <= 1 /\ LoopsOK(loops, callstart, frames, stack)
    BY Parts DEF LoopsOK
  <1>2. loops # <<>> /\ Last(loops).depth = Len(frames) BY DEF Looping
  <1>3. Len(loops) \in Nat \ {0} /\ Last(loops) = loops[Len(loops)] BY <1>1, <1>2, Ends
  <1>4. Len(loops) = 1
    <2>1. Len(loops) <= 1 BY <1>1
    <2>. QED BY ONLY SMTT(60), <1>3, <2>1
  <1>5. 1 \in 1 .. Len(loops) BY <1>4
  <1>6. loops[1] \in Loops /\ LoopOK(loops[1], callstart, frames, stack)
    BY <1>1, <1>5, ElementOfSeq DEF LoopsOK
  <1>. QED BY <1>2, <1>3, <1>4, <1>6 DEF LoopTop

(* OP_FOREACH: the loop goes on.                                           *)
LEMMA GoesOn ==
  ASSUME Avoid = Kinds, CInv, status = "run", body = "", Looping,
         UNCHANGED <<classes, field, callstart>>, loops' = loops,
         NEW it, it = loops[1].it, NEW k, k = loops[1].vars, NEW n \in Nat, n = Len(stack) - k,
         n \in 1 .. Len(stack), n + 1 \in 1 .. Len(stack), EndOf(Top) <= n - 3,
         stack[n - 2] = it, stack[n - 1] = Nil,
         \A i \in 1 .. Len(callstart) : callstart[i].depth # Len(frames),
         Prepare(it, [SubSeq(stack, 1, n) EXCEPT ![n] = stack[n + 1]], k)
  PROVE  CInv'
  <1>. DEFINE u == SubSeq(stack, 1, n)
              s == [u EXCEPT ![n] = stack[n + 1]]
  <1>1. stack \in Seq(Values) /\ loops \in Seq(Loops) BY Parts
  <1>2. n \in 0 .. Len(stack) /\ n \in 1 .. n
    <2>1. n \in 1 .. Len(stack) OBVIOUS
    <2>2. Len(stack) \in Nat BY Parts
    <2>. QED BY ONLY <2>1, <2>2, n \in Nat
  <1>3. u \in Seq(Values) /\ Len(u) = n /\ \A i \in 1 .. n : u[i] = stack[i]
    BY ONLY <1>1, <1>2, Prefix
  <1>4. stack[n + 1] \in Values BY <1>1, ElementOfSeq
  <1>. HIDE DEF u
  <1>5. n \in 1 .. Len(u) /\ u \in Seq(Values) BY <1>2, <1>3
  <1>6. /\ s \in Seq(Values) /\ Len(s) = Len(u)
        /\ \A i \in 1 .. Len(u) : s[i] = IF i = n THEN stack[n + 1] ELSE u[i]
    BY ONLY <1>4, <1>5, ExceptSeq
  <1>7. Prepare(it, s, k) BY DEF u
  <1>. HIDE DEF s
  <1>8. n - 2 \in 1 .. n /\ n - 1 \in 1 .. n /\ n - 2 # n /\ n - 1 # n
    <2>1. EndOf(Top) \in Nat /\ Top.base \in Nat \ {0} /\ Top.base <= EndOf(Top) BY LowFact
    <2>2. EndOf(Top) <= n - 3 OBVIOUS
    <2>. QED BY ONLY <2>1, <2>2, n \in Nat
  <1>9. s[n - 2] = it /\ s[n - 1] = Nil BY <1>3, <1>6, <1>8
  <1>10. \A i \in 1 .. n - 3 : s[i] = stack[i]
    <2>. SUFFICES ASSUME NEW i \in 1 .. n - 3 PROVE s[i] = stack[i] OBVIOUS
    <2>1. i \in 1 .. n /\ i # n BY ONLY n \in Nat, i \in 1 .. n - 3
    <2>. QED BY <1>3, <1>6, <2>1
  <1>11. /\ Len(loops') = 1 /\ loops'[1].depth = Len(frames)
         /\ loops'[1].vars = k /\ loops'[1].it = it
    BY LoopIs
  <1>12. k \in Nat \ {0} BY LoopIs DEF Loops
  <1>13. Prepares(it, k, s, n)
    BY <1>1, <1>3, <1>6, <1>9, <1>10, <1>11 DEF Prepares
  <1>. QED BY <1>6, <1>7, <1>12, <1>13, PrepareStep

(* ... or ends, and its variables are popped.                              *)
LEMMA LoopEnds ==
  ASSUME CInv, status = "run", body = "", UNCHANGED <<classes, field, callstart>>,
         NEW n \in Nat, n <= Len(stack), EndOf(Top) <= n,
         \A i \in 1 .. Len(callstart) : callstart[i].depth # Len(frames),
         stack' = SubSeq(stack, 1, n), loops' = Front(loops), Len(loops) = 1, loops # <<>>,
         got' = Nothing, UNCHANGED <<oclass, frames, status, message, owed>>
  PROVE  CInv'
  <1>. DEFINE t == stack'
  <1>1. /\ frames \in Seq(Frames) /\ owed \in Seq(Intents) /\ ClassInv /\ ObjectInv
        /\ callstart \in Seq(Marks) /\ loops \in Seq(Loops)
        /\ FramesOK(frames, owed, stack) /\ MarksOK(callstart, frames, stack, Derived)
        /\ stack \in Seq(Values) /\ Len(stack) \in Nat /\ Len(stack) <= StackMax
    BY Parts
  <1>2. /\ Top = Last(frames) /\ EndOf(Top) \in Nat /\ Top.base \in Nat \ {0} /\ Top.base <= EndOf(Top)
    BY LowFact DEF Top
  <1>3. /\ oclass' = oclass /\ field' = field /\ frames' = frames /\ owed' = owed
        /\ callstart' = callstart /\ lineage' = lineage /\ body' = "" /\ status' = "run"
    BY DEF classes
  <1>4. Values' = Values /\ FieldValues' = FieldValues /\ Derived' = Derived BY <1>3, SameNow
  <1>5. n \in 0 .. Len(stack)
    <2>1. n <= Len(stack) /\ Len(stack) \in Nat BY <1>1
    <2>. QED BY ONLY <2>1, n \in Nat
  <1>6. t \in Seq(Values) /\ Len(t) = n /\ \A i \in 1 .. n : t[i] = stack[i] BY <1>1, <1>5, Prefix
  <1>7. Len(t) <= StackMax
    <2>1. StackMax \in Nat /\ n <= Len(stack) BY CallsAssumption
    <2>2. Len(t) = n /\ Len(stack) \in Nat /\ Len(stack) <= StackMax BY <1>1, <1>6
    <2>. QED BY ONLY <2>1, <2>2, n \in Nat
  <1>. HIDE DEF t
  <1>8. Len(t) \in Nat /\ n <= Len(t) /\ EndOf(Last(frames)) <= n
    <2>1. Len(t) = n BY <1>6
    <2>2. EndOf(Last(frames)) <= n BY <1>2
    <2>. QED BY ONLY <2>1, <2>2, n \in Nat
  <1>9. FramesOK(frames, owed, t) BY ONLY <1>1, <1>6, <1>8, n \in Nat, FramesCut
  <1>10. \A i \in 1 .. Len(callstart) : callstart[i].at <= n
    <2>. SUFFICES ASSUME NEW i \in 1 .. Len(callstart) PROVE callstart[i].at <= n OBVIOUS
    <2>1. callstart[i] \in Marks /\ callstart[i].at < Top.base BY <1>1, <1>2, MarkOrder
    <2>2. callstart[i].at \in Nat BY <2>1, MarkType
    <2>3. EndOf(Top) <= n OBVIOUS
    <2>. QED BY ONLY <1>2, <2>1, <2>2, <2>3, n \in Nat
  <1>11. MarksOK(callstart, frames, t, Derived)
    BY ONLY <1>1, <1>6, <1>8, <1>10, n \in Nat, MarksCut
  <1>12. loops' \in Seq(Loops) /\ Len(loops') = 0
    <2>1. loops \in Seq(Loops) /\ loops # <<>> BY <1>1
    <2>2. Front(loops) \in Seq(Loops) /\ Len(Front(loops)) = Len(loops) - 1
      BY ONLY <2>1, Ends
    <2>3. loops' = Front(loops) /\ Len(loops) = 1 OBVIOUS
    <2>. QED BY ONLY <2>2, <2>3
  <1>13. LoopsOK(loops', callstart, frames, t)
    <2>1. Len(loops') = 0 BY <1>12
    <2>. QED BY ONLY <2>1 DEF LoopsOK
  <1>14. TypeInv' BY <1>1, <1>3, <1>4, <1>6, <1>7, <1>12 DEF TypeInv, t
  <1>15. ObjectInv' BY <1>1, <1>3, <1>4 DEF ObjectInv
  <1>16. ClassInv' BY <1>1, ClassesKept
  <1>17. GotInv' BY <1>3 DEF GotInv, Delivered, Nothing, Failure
  <1>18. FramesOK(frames', owed', stack') /\ MarksOK(callstart', frames', stack', Derived')
         /\ LoopsOK(loops', callstart', frames', stack')
    BY <1>3, <1>4, <1>9, <1>11, <1>13 DEF t
  <1>. QED BY <1>3, <1>14, <1>15, <1>16, <1>17, <1>18 DEF CInv

(* OP_FOREACH keeps the invariant: it binds the results to the variables   *)
(* or ends the loop.                                                       *)
LEMMA OpForeachStep ==
  ASSUME Avoid = Kinds, CInv, OpForeach
  PROVE  CInv'
  <1>. DEFINE k == Last(loops).vars
              n == Len(stack) - k
              s == [SubSeq(stack, 1, n) EXCEPT ![n] = stack[n + 1]]
  <1>1. /\ status = "run" /\ Looping /\ UNCHANGED <<classes, field, callstart>>
        /\ IF s[n] # Nil THEN Prepare(Last(loops).it, s, k) /\ UNCHANGED loops
           ELSE /\ stack' = SubSeq(stack, 1, n - 3) /\ loops' = Front(loops) /\ got' = Nothing
                /\ UNCHANGED <<oclass, frames, calls, status, message, owed>>
    BY DEF OpForeach
  <1>2. /\ loops # <<>> /\ Len(loops) = 1 /\ loops[1] \in Loops /\ Last(loops) = loops[1]
        /\ LoopOK(loops[1], callstart, frames, stack)
        /\ LoopTop(loops[1], frames, stack) = n /\ loops[1].depth = Len(frames)
    BY <1>1, LoopIs
  <1>3. k \in Nat \ {0} /\ k = loops[1].vars BY <1>2 DEF Loops
  <1>4. Top = frames[Len(frames)] /\ EndOf(Top) \in Nat /\ Top.base \in Nat \ {0} /\ Top.base <= EndOf(Top)
        /\ Len(stack) \in Nat
    BY <1>1, LowFact
  <1>5. /\ EndOf(Top) <= n - 3 /\ stack[n - 2] = loops[1].it /\ stack[n - 1] = Nil
        /\ \A i \in 1 .. Len(callstart) : callstart[i].depth # Len(frames)
    BY <1>2, <1>4 DEF LoopOK
  <1>6. n \in Nat /\ n \in 1 .. Len(stack) /\ n + 1 \in 1 .. Len(stack) /\ n - 3 \in Nat
        /\ n - 3 <= Len(stack) /\ Len(stack) # 1
    <2>1. EndOf(Top) <= n - 3 BY <1>5
    <2>2. EndOf(Top) \in Nat /\ Top.base \in Nat \ {0} /\ Top.base <= EndOf(Top)
          /\ Len(stack) \in Nat
      BY <1>4
    <2>3. k \in Nat \ {0} BY <1>3
    <2>. PICK h \in Nat, x \in Nat \ {0} : h = Len(stack) /\ x = k BY <2>2, <2>3
    <2>4. EndOf(Top) <= h - x - 3 /\ n = h - x /\ Len(stack) = h BY <2>1
    <2>. HIDE DEF n, k
    <2>. QED BY ONLY <2>2, <2>4, h \in Nat, x \in Nat \ {0}
  <1>7. body = "" BY <1>6, Parts
  <1>8. CASE s[n] # Nil
    <2>1. Prepare(loops[1].it, s, k) /\ loops' = loops BY <1>1, <1>2, <1>8
    <2>. HIDE DEF k
    <2>2. PICK h \in Nat : h = n BY <1>6
    <2>3. Prepare(loops[1].it, [SubSeq(stack, 1, h) EXCEPT ![h] = stack[h + 1]], k)
      BY <2>1, <2>2
    <2>4. /\ h = Len(stack) - k /\ h \in 1 .. Len(stack) /\ h + 1 \in 1 .. Len(stack)
          /\ EndOf(Top) <= h - 3 /\ stack[h - 2] = loops[1].it /\ stack[h - 1] = Nil
      BY <1>5, <1>6, <2>2
    <2>5. k = loops[1].vars BY <1>3
    <2>. QED BY <1>1, <1>5, <1>7, <2>1, <2>3, <2>4, <2>5, GoesOn
  <1>9. CASE ~(s[n] # Nil)
    <2>1. /\ stack' = SubSeq(stack, 1, n - 3) /\ loops' = Front(loops) /\ got' = Nothing
          /\ UNCHANGED <<oclass, frames, status, message, owed>>
      BY <1>1, <1>9
    <2>. HIDE DEF k
    <2>2. PICK h \in Nat : h = n - 3 BY <1>6
    <2>3. stack' = SubSeq(stack, 1, h) /\ h <= Len(stack) /\ EndOf(Top) <= h
      BY <1>5, <1>6, <2>1, <2>2
    <2>. QED BY <1>1, <1>2, <1>5, <1>7, <2>1, <2>3, LoopEnds
  <1>. QED BY <1>8, <1>9
----------------------------------------------------------------------------
(* Returns.                                                                *)

(* Cutting and filling up adjusts the values to the number wanted.         *)
LEMMA FilledIs ==
  ASSUME NEW S, Nil \in S, NEW vs \in Seq(S), NEW n \in Nat
  PROVE  /\ Filled(vs, n) \in Seq(S) /\ Filled(vs, n) = Adjust(vs, n)
         /\ Len(Filled(vs, n)) = IF n = 0 THEN Len(vs) ELSE n
  <1>1. CASE n = 0 BY <1>1 DEF Filled, Adjust
  <1>2. CASE n # 0
    <2>0. Len(vs) \in Nat BY LenProperties
    <2>. PICK l \in Nat : l = Len(vs) BY <2>0
    <2>. DEFINE h == IF n < l THEN n ELSE l
                j == IF n <= l THEN 0 ELSE n - l
                p == SubSeq(vs, 1, h)
                q == [k \in 1 .. n - l |-> Nil]
                a == [k \in 1 .. n |-> IF k <= l THEN vs[k] ELSE Nil]
    <2>1. /\ h \in Nat /\ j \in Nat /\ h + j = n /\ h \in 0 .. l /\ 1 .. n - l = 1 .. j
          /\ (j = 0 \/ h = l)
      BY ONLY n \in Nat, l \in Nat
    <2>2. h \in 0 .. Len(vs) BY <2>1
    <2>. HIDE DEF h, j
    <2>3. p \in Seq(S) /\ Len(p) = h /\ \A i \in 1 .. h : p[i] = vs[i] BY <2>2, Prefix
    <2>4. q \in [1 .. j -> S] BY <2>1
    <2>5. q \in Seq(S) /\ Len(q) = j
      <3>. HIDE DEF q
      <3>. QED BY <2>1, <2>4, FunctionSeq
    <2>6. \A x \in 1 .. j : q[x] = Nil BY <2>1
    <2>7. a \in [1 .. n -> S]
      <3>1. \A k \in 1 .. n : k <= l => vs[k] \in S
        <4>. SUFFICES ASSUME NEW k \in 1 .. n, k <= l PROVE vs[k] \in S OBVIOUS
        <4>1. k \in 1 .. Len(vs) OBVIOUS
        <4>. QED BY <4>1, ElementOfSeq
      <3>. QED BY <3>1
    <2>8. a \in Seq(S) /\ Len(a) = n
      <3>. HIDE DEF a
      <3>. QED BY <2>7, FunctionSeq
    <2>9. \A i \in 1 .. n : a[i] = IF i <= l THEN vs[i] ELSE Nil OBVIOUS
    <2>10. Filled(vs, n) = p \o q
      <3>1. Filled(vs, n) = SubSeq(vs, 1, IF n < Len(vs) THEN n ELSE Len(vs))
                              \o [k \in 1 .. n - Len(vs) |-> Nil]
        BY <1>2 DEF Filled
      <3>. QED BY <3>1 DEF h
    <2>11. Adjust(vs, n) = a BY <1>2 DEF Adjust
    <2>. HIDE DEF p, q, a
    <2>. DEFINE z == p \o q
    <2>12. /\ z \in Seq(S) /\ Len(z) = Len(p) + Len(q) /\ \A i \in 1 .. Len(p) : z[i] = p[i]
           /\ \A x \in 1 .. Len(q) : z[Len(p) + x] = q[x]
      <3>1. p \in Seq(S) /\ q \in Seq(S) BY <2>3, <2>5
      <3>. QED BY ONLY <3>1, Joined
    <2>. HIDE DEF z
    <2>13. Len(z) = h + j /\ Len(a) = h + j BY <2>1, <2>3, <2>5, <2>8, <2>12
    <2>14. \A i \in 1 .. h : z[i] = a[i]
      <3>. SUFFICES ASSUME NEW i \in 1 .. h PROVE z[i] = a[i] OBVIOUS
      <3>1. i \in 1 .. n /\ i <= l BY ONLY <2>1, i \in 1 .. h, n \in Nat, l \in Nat
      <3>2. z[i] = vs[i] BY <2>3, <2>12
      <3>. QED BY <2>9, <3>1, <3>2
    <2>15. \A x \in 1 .. j : z[h + x] = a[h + x]
      <3>. SUFFICES ASSUME NEW x \in 1 .. j PROVE z[h + x] = a[h + x] OBVIOUS
      <3>1. h + x \in 1 .. n /\ ~(h + x <= l)
        BY ONLY <2>1, x \in 1 .. j, n \in Nat, l \in Nat
      <3>2. z[h + x] = Nil BY <2>3, <2>5, <2>6, <2>12
      <3>. QED BY <2>9, <3>1, <3>2
    <2>16. z = a
      <3>1. h \in Nat /\ j \in Nat /\ z \in Seq(S) /\ a \in Seq(S) BY <2>1, <2>8, <2>12
      <3>. QED BY ONLY <3>1, <2>13, <2>14, <2>15, TwoParts
    <2>. QED BY <1>2, <2>8, <2>10, <2>11, <2>16 DEF z
  <1>. QED BY <1>1, <1>2

(* What the running function was called on.                                *)
LEMMA SelfValue ==
  ASSUME CInv, status = "run"
  PROVE  Self \in Values
  <1>1. /\ Top.base \in Nat \ {0} /\ Top.base <= EndOf(Top) /\ EndOf(Top) <= Low /\ Low <= Len(stack)
        /\ EndOf(Top) \in Nat /\ Low \in Nat /\ Len(stack) \in Nat
    BY LowFact
  <1>2. Top.base \in 1 .. Len(stack) BY ONLY <1>1
  <1>. QED BY <1>2, Parts, ElementOfSeq DEF Self

(* The values of a return.                                                 *)
LEMMA ValuesReturned ==
  ASSUME CInv, status = "run", NEW vs \in {<<Nil>>, <<Num, Self>>, <<Self>>}
  PROVE  vs \in Seq(Values)
  <1>1. Self \in Values /\ Nil \in Values /\ Num \in Values
    BY SelfValue DEF Values, ValuesOf
  <1>2. <<Nil>> \in Seq(Values) /\ <<Self>> \in Seq(Values) /\ <<Num, Self>> \in Seq(Values)
    BY <1>1
  <1>. QED BY <1>2

(* A function returns the values vs into the stack t.                      *)
LEMMA Returned ==
  ASSUME CInv, Ready, ~Pending, NEW vs \in Seq(Values), Top.fn.m = "init" => vs = <<Self>>,
         Len(frames) # 1,
         Len(stack) + Len(vs) <= StackMax, Len(stack) + Top.want <= StackMax,
         stack' = SubSeq(stack, 1, Top.base - 1) \o Filled(vs, Top.want),
         frames' = Front(frames), owed' = Front(owed),
         got' = [at |-> Last(owed).at, vals |-> Adjust(vs, Last(owed).want)],
         UNCHANGED <<classes, objects, callstart, loops, status, message>>
  PROVE  CInv'
  <1>0. status = "run" /\ body = "" /\ ~Looping BY DEF Ready
  <1>1. /\ frames \in Seq(Frames) /\ owed \in Seq(Intents) /\ ClassInv /\ ObjectInv
        /\ callstart \in Seq(Marks) /\ loops \in Seq(Loops)
        /\ FramesOK(frames, owed, stack) /\ MarksOK(callstart, frames, stack, Derived)
        /\ LoopsOK(loops, callstart, frames, stack)
        /\ stack \in Seq(Values) /\ Len(stack) \in Nat /\ Len(stack) <= StackMax
    BY <1>0, Parts
  <1>2. /\ Len(frames) \in Nat \ {0} /\ Top = frames[Len(frames)] /\ Top \in Frames
        /\ EndOf(Top) <= Low /\ Low <= Len(stack) /\ Low \in Nat
        /\ EndOf(Top) \in Nat /\ Top.base \in Nat \ {0} /\ Top.base <= EndOf(Top)
        /\ \A i \in 1 .. Len(callstart) : callstart[i].depth # Len(frames)
        /\ \A i \in 1 .. Len(loops) : loops[i] \in Loops /\ loops[i].depth # Len(frames)
    BY <1>0, LowFact
  <1>3. Top.want \in Nat /\ StackMax \in Nat BY <1>2, FrameType, CallsAssumption
  <1>4. Len(owed) = Len(frames) /\ Agrees(Top, owed[Len(frames)], stack)
    <2>1. Len(frames) \in 1 .. Len(frames) BY <1>2
    <2>. QED BY <1>1, <1>2, <2>1 DEF FramesOK
  <1>5. owed # <<>> /\ Last(owed) = owed[Len(frames)]
    <2>1. Len(owed) # 0 BY <1>2, <1>4
    <2>. QED BY <1>4, <2>1, EmptySeq DEF Last
  <1>6. /\ Top.base = Last(owed).at
        /\ Top.want = Last(owed).want \/ (Top.fn.m = "init" /\ Top.want = 1 /\ Last(owed).want = 0)
    BY <1>4, <1>5 DEF Agrees
  <1>. DEFINE r == Filled(vs, Top.want)
              low == SubSeq(stack, 1, Top.base - 1)
              t == low \o r
  <1>7. Nil \in Values BY DEF Values, ValuesOf
  <1>8. /\ r \in Seq(Values) /\ r = Adjust(vs, Top.want)
        /\ Len(r) = IF Top.want = 0 THEN Len(vs) ELSE Top.want
    BY <1>3, <1>7, FilledIs
  <1>9. r = Adjust(vs, Last(owed).want)
    <2>1. CASE Top.want = Last(owed).want BY <1>8, <2>1
    <2>2. CASE Top.fn.m = "init" /\ Top.want = 1 /\ Last(owed).want = 0
      <3>1. vs = <<Self>> BY <2>2
      <3>2. 0 \in 0 .. 1 /\ 1 \in 0 .. 1 OBVIOUS
      <3>3. Adjust(<<Self>>, 0) = <<Self>> /\ Adjust(<<Self>>, 1) = <<Self>> BY <3>2, AdjustOne
      <3>. QED BY <1>8, <2>2, <3>1, <3>3
    <2>. QED BY <1>6, <2>1, <2>2
  <1>. PICK n \in Nat : n = Top.base - 1 BY <1>2
  <1>10. n \in 0 .. Len(stack)
    <2>1. n = Top.base - 1 OBVIOUS
    <2>. QED BY ONLY <1>1, <1>2, <2>1, n \in Nat
  <1>11. low \in Seq(Values) /\ Len(low) = n /\ \A i \in 1 .. n : low[i] = stack[i]
    BY <1>1, <1>10, Prefix
  <1>. HIDE DEF r, low
  <1>12. /\ t \in Seq(Values) /\ Len(t) = Len(low) + Len(r) /\ \A i \in 1 .. Len(low) : t[i] = low[i]
         /\ \A x \in 1 .. Len(r) : t[Len(low) + x] = r[x]
    <2>1. low \in Seq(Values) /\ r \in Seq(Values) BY <1>8, <1>11
    <2>. QED BY ONLY <2>1, Joined
  <1>13. stack' = t BY DEF r, low
  <1>. HIDE DEF t
  <1>14. Len(r) \in Nat /\ Len(t) \in Nat /\ Len(vs) \in Nat BY <1>8, <1>12, LenProperties
  <1>15. /\ Len(t) = n + Len(r) /\ \A i \in 1 .. n : t[i] = stack[i]
         /\ \A x \in 1 .. Len(r) : t[n + x] = r[x]
    BY <1>11, <1>12
  <1>16. Len(t) <= StackMax
    <2>1. Len(stack) + Len(vs) <= StackMax /\ Len(stack) + Top.want <= StackMax OBVIOUS
    <2>2. Len(r) = Len(vs) \/ Len(r) = Top.want BY <1>8
    <2>3. n <= Len(stack) BY ONLY <1>1, <1>10
    <2>4. Len(t) = n + Len(r) /\ Len(stack) \in Nat BY <1>1, <1>15
    <2>. QED BY ONLY <1>3, <1>14, <2>1, <2>2, <2>3, <2>4, n \in Nat
  <1>17. Top.want # 0 => Len(t) = Top.base - 1 + Top.want BY <1>8, <1>15
  <1>18. Top = Last(frames) BY DEF Top
  <1>19. /\ Last(frames).base - 1 <= Len(t) /\ \A i \in 1 .. Last(frames).base - 1 : t[i] = stack[i]
         /\ Last(frames).want # 0 => Len(t) = Last(frames).base - 1 + Last(frames).want
    <2>1. n <= Len(t) BY ONLY <1>14, <1>15, n \in Nat
    <2>2. Top.base - 1 = n OBVIOUS
    <2>. QED BY <1>15, <1>17, <1>18, <2>1, <2>2
  <1>20. FramesOK(Front(frames), Front(owed), t)
    <2>1. Len(frames) # 1 OBVIOUS
    <2>. QED BY ONLY <1>1, <1>14, <1>19, <2>1, FramesPop
  <1>21. MarksOK(callstart, Front(frames), t, Derived)
    <2>1. Len(frames) # 1 OBVIOUS
    <2>. QED BY ONLY <1>1, <1>2, <1>14, <1>19, <2>1, MarksReturn
  <1>22. LoopsOK(loops, callstart, Front(frames), t)
    <2>1. ASSUME NEW i \in 1 .. Len(loops) PROVE LoopOK(loops[i], callstart, Front(frames), t)
      <3>1. /\ loops[i] \in Loops /\ loops[i].depth # Len(frames)
            /\ LoopOK(loops[i], callstart, frames, stack)
        BY <1>1, <1>2 DEF LoopsOK
      <3>2. Len(frames) # 1 OBVIOUS
      <3>. QED BY ONLY <1>1, <1>14, <1>19, <3>1, <3>2, LoopReturn
    <2>. QED BY <1>1, <2>1 DEF LoopsOK
  <1>23. Front(frames) \in Seq(Frames) /\ Front(owed) \in Seq(Intents)
    <2>1. frames # <<>> BY <1>1 DEF FramesOK
    <2>2. frames \in Seq(Frames) /\ owed \in Seq(Intents) BY <1>1
    <2>. QED BY ONLY <1>5, <2>1, <2>2, Ends
  <1>24. /\ oclass' = oclass /\ field' = field /\ lineage' = lineage /\ body' = ""
         /\ status' = "run" /\ callstart' = callstart /\ loops' = loops
    BY <1>0 DEF classes, objects
  <1>25. Values' = Values /\ FieldValues' = FieldValues /\ Derived' = Derived BY <1>24, SameNow
  <1>26. GotInv'
    <2>1. got'.at = Top.base /\ got'.vals = r BY <1>6, <1>9
    <2>2. got' # Failure
      <3>1. Failure.at = 0 BY DEF Failure
      <3>. QED BY <1>2, <2>1, <3>1
    <2>3. SubSeq(t, Top.base, Len(t)) = r
      <3>. DEFINE u == SubSeq(t, n + 1, Len(t))
      <3>1. n \in 0 .. Len(t) BY ONLY <1>14, <1>15, n \in Nat
      <3>2. u \in Seq(Values) /\ Len(u) = Len(t) - n /\ \A i \in 1 .. Len(t) - n : u[i] = t[n + i]
        BY <1>12, <3>1, Suffix
      <3>3. n + 1 = Top.base BY <1>2
      <3>. HIDE DEF u
      <3>4. Len(t) - n = Len(r) BY ONLY <1>14, <1>15, n \in Nat
      <3>5. Len(u) = Len(r) /\ \A i \in 1 .. Len(u) : u[i] = r[i] BY <1>15, <3>2, <3>4
      <3>6. u = r BY <1>8, <3>2, <3>5, SeqEqual
      <3>. QED BY <3>3, <3>6 DEF u
    <2>. QED BY <1>13, <1>24, <2>1, <2>2, <2>3 DEF GotInv, Delivered
  <1>27. TypeInv' BY <1>1, <1>12, <1>13, <1>16, <1>23, <1>24, <1>25 DEF TypeInv
  <1>28. ObjectInv' BY <1>1, <1>24, <1>25 DEF ObjectInv
  <1>29. ClassInv' BY <1>1, ClassesKept
  <1>30. FramesOK(frames', owed', stack') /\ MarksOK(callstart', frames', stack', Derived')
         /\ LoopsOK(loops', callstart', frames', stack')
    BY <1>13, <1>20, <1>21, <1>22, <1>24, <1>25
  <1>. QED BY <1>24, <1>26, <1>27, <1>28, <1>29, <1>30 DEF CInv

(* OP_RET                                                                  *)
LEMMA RetStep ==
  ASSUME CInv, NEW vs \in {<<Nil>>, <<Num, Self>>, <<Self>>}, OpRet(vs)
  PROVE  CInv'
  <1>1. /\ Ready /\ ~Pending /\ (Top.fn.m = "init" => vs = <<Self>>)
        /\ UNCHANGED <<classes, objects, callstart, loops, message>>
    BY DEF OpRet
  <1>2. status = "run" /\ body = "" BY <1>1 DEF Ready
  <1>3. vs \in Seq(Values) BY <1>2, ValuesReturned
  <1>. DEFINE full == Len(stack) + Len(vs) > StackMax \/ Len(stack) + Top.want > StackMax
  <1>4. CASE full
    <2>1. status' = "overflow" /\ UNCHANGED <<stack, frames, owed, got>> BY <1>4 DEF OpRet
    <2>. QED BY <1>1, <1>2, <2>1, Overflow
  <1>5. CASE ~full /\ Len(frames) = 1
    <2>1. status' = "done" /\ UNCHANGED <<stack, frames, owed, got>> BY <1>5 DEF OpRet
    <2>2. GotInv /\ ObjectInv /\ callstart \in Seq(Marks) /\ loops \in Seq(Loops) BY Parts
    <2>3. GotInv' BY <1>2, <2>1, <2>2 DEF GotInv, Delivered
    <2>4. oclass' = oclass /\ field' = field BY <1>1 DEF objects
    <2>5. Allocated' = Allocated BY <2>4 DEF Allocated
    <2>. QED BY <1>1, <1>2, <2>1, <2>2, <2>3, <2>4, <2>5, Stopped DEF ObjectInv
  <1>6. CASE ~full /\ Len(frames) # 1
    <2>1. /\ stack' = SubSeq(stack, 1, Top.base - 1) \o Filled(vs, Top.want)
          /\ frames' = Front(frames) /\ owed' = Front(owed)
          /\ got' = [at |-> Last(owed).at, vals |-> Adjust(vs, Last(owed).want)]
          /\ UNCHANGED status
      BY <1>6 DEF OpRet
    <2>2. Len(stack) + Len(vs) <= StackMax /\ Len(stack) + Top.want <= StackMax
      <3>1. Len(stack) \in Nat /\ Len(vs) \in Nat /\ Top.want \in Nat /\ StackMax \in Nat
        BY <1>2, <1>3, LowFact, FrameType, LenProperties, CallsAssumption
      <3>2. ~(Len(stack) + Len(vs) > StackMax) /\ ~(Len(stack) + Top.want > StackMax) BY <1>6
      <3>. QED BY ONLY <3>1, <3>2
    <2>. QED BY <1>1, <1>3, <1>6, <2>1, <2>2, Returned
  <1>. QED BY <1>4, <1>5, <1>6
----------------------------------------------------------------------------
(* The invariant holds.                                                    *)

(* A step that declares, or does nothing.                                  *)
LEMMA Declares ==
  ASSUME CInv, ClassInv', UNCHANGED <<objects, machine, ghosts>>, Derived \subseteq Derived',
         body' # "" => status = "run" /\ Len(stack) = 1
  PROVE  CInv'
  <1>1. /\ oclass' = oclass /\ field' = field /\ stack' = stack /\ frames' = frames
        /\ callstart' = callstart /\ loops' = loops /\ status' = status /\ message' = message
        /\ owed' = owed /\ got' = got
    BY DEF objects, machine, ghosts
  <1>2. Values' = Values /\ FieldValues' = FieldValues BY <1>1, SameNow
  <1>3. /\ ObjectInv /\ TypeInv /\ GotInv /\ FramesOK(frames, owed, stack)
        /\ status = "run" => /\ MarksOK(callstart, frames, stack, Derived)
                             /\ LoopsOK(loops, callstart, frames, stack)
    BY DEF CInv
  <1>4. ObjectInv' BY <1>1, <1>2, <1>3 DEF ObjectInv
  <1>5. TypeInv' BY <1>1, <1>2, <1>3 DEF TypeInv
  <1>6. GotInv' BY <1>1, <1>3 DEF GotInv, Delivered
  <1>7. FramesOK(frames', owed', stack') BY <1>1, <1>3
  <1>8. status' = "run" => /\ MarksOK(callstart', frames', stack', Derived')
                           /\ LoopsOK(loops', callstart', frames', stack')
    <2>. DEFINE d == Derived'
    <2>1. Derived \subseteq d OBVIOUS
    <2>. HIDE DEF d
    <2>2. status = "run" => MarksOK(callstart, frames, stack, d) BY <1>3, <2>1, MarksWider
    <2>. QED BY <1>1, <1>3, <2>2 DEF d
  <1>9. body' # "" => status' = "run" /\ Len(stack') = 1 BY <1>1
  <1>. QED BY <1>4, <1>5, <1>6, <1>7, <1>8, <1>9 DEF CInv

(* Declaring classes, superclasses and methods keeps the invariant.        *)
LEMMA DeclareSteps ==
  ASSUME CInv, Declare
  PROVE  CInv'
  <1>1. ClassInv /\ (body # "" => status = "run" /\ Len(stack) = 1) BY Parts
  <1>2. ASSUME NEW c \in Class, OpClass(c) PROVE CInv'
    <2>1. ClassInv' BY <1>1, <1>2, ClassStep
    <2>2. /\ status = "run" /\ Len(stack) = 1 /\ UNCHANGED <<objects, machine, ghosts>>
          /\ lineage[c] = <<>> /\ lineage' = [lineage EXCEPT ![c] = <<c>>]
      BY <1>2 DEF OpClass, Declared
    <2>3. Len(lineage[c]) = 0 BY <2>2, EmptySeq
    <2>4. \A d \in Class : d # c => lineage'[d] = lineage[d]
      BY <1>1, <2>2 DEF ClassInv, LineTypes
    <2>5. Derived \subseteq Derived' BY <2>3, <2>4 DEF Derived
    <2>. QED BY <2>1, <2>2, <2>5, Declares
  <1>3. ASSUME NEW s \in Class, OpInherit(s) PROVE CInv'
    <2>1. ClassInv' BY <1>1, <1>3, InheritStep
    <2>2. /\ UNCHANGED <<objects, machine, ghosts>> /\ Len(lineage[body]) = 1 /\ body # ""
          /\ lineage' = [lineage EXCEPT ![body] = lineage[body] \o lineage[s]] /\ body' = body
      BY <1>3 DEF OpInherit
    <2>3. \A d \in Class : d # body => lineage'[d] = lineage[d]
      BY <1>1, <2>2 DEF ClassInv, LineTypes
    <2>5. body \notin Derived
      <3>1. Len(lineage[body]) = 1 BY <2>2
      <3>2. ~(Len(lineage[body]) > 1) BY ONLY <3>1
      <3>. QED BY <3>2 DEF Derived
    <2>4. Derived \subseteq Derived' BY <2>3, <2>5 DEF Derived
    <2>. QED BY <1>1, <2>1, <2>2, <2>4, Declares
  <1>4. ASSUME NEW m \in Names, OpMethod(m) PROVE CInv'
    <2>1. ClassInv' BY <1>1, <1>4, MethodStep
    <2>2. UNCHANGED <<objects, machine, ghosts>> /\ lineage' = lineage /\ body' = body
      BY <1>4 DEF OpMethod
    <2>3. Derived' = Derived BY <2>2, SameNow
    <2>. QED BY <1>1, <2>1, <2>2, <2>3, Declares
  <1>5. ASSUME EndClass PROVE CInv'
    <2>1. ClassInv' BY <1>1, <1>5, EndStep
    <2>2. UNCHANGED <<objects, machine, ghosts>> /\ lineage' = lineage /\ body' = ""
      BY <1>5 DEF EndClass
    <2>3. Derived' = Derived BY <2>2, SameNow
    <2>. QED BY <2>1, <2>2, <2>3, Declares
  <1>. QED BY <1>2, <1>3, <1>4, <1>5 DEF Declare

(* The invariant holds initially.                                          *)
LEMMA InitInv == Init => CInv
  <1>. SUFFICES ASSUME Init PROVE CInv OBVIOUS
  <1>. DEFINE none == <<>>
              row == [m \in Names |-> None]
  <1>1. /\ methods = [c \in Class |-> row] /\ overloaded = [c \in Class |-> None]
        /\ body = "" /\ own = [c \in Class |-> {}] /\ lineage = [c \in Class |-> none]
    BY DEF Init
  <1>2. stack = <<Main>> /\ callstart = <<>> /\ loops = <<>> BY DEF Init
  <1>3. /\ frames = <<[fn |-> Main, base |-> 1, want |-> 1]>>
        /\ owed = <<Meant("fn", Main, Main, <<>>, 1, 1)>>
    BY DEF Init
  <1>4. oclass = [i \in Inst |-> ""] /\ field = [i \in Inst |-> None] BY DEF Init
  <1>5. status = "run" /\ got = Nothing BY DEF Init
  <1>6. none \in Seq(Class) /\ Len(none) = 0 /\ none = <<>> OBVIOUS
  <1>7. row \in [Names -> Fns \cup {None}] /\ \A m \in Names : row[m] = None OBVIOUS
  <1>. HIDE DEF none, row
  <1>8. ClassInv
    <2>1. TableTypes BY <1>1, <1>7 DEF TableTypes
    <2>2. LineTypes
      <3>1. own \in [Class -> SUBSET Names] /\ body \in Class \cup {""} BY <1>1
      <3>2. lineage \in [Class -> Seq(Class)] BY <1>1, <1>6
      <3>. QED BY <3>1, <3>2 DEF LineTypes
    <2>3. ASSUME NEW c \in Class PROVE InTable(c) /\ InLine(c)
      <3>1. /\ lineage[c] = none /\ own[c] = {} /\ methods[c] = row /\ overloaded[c] = None
        BY <1>1
      <3>2. ASSUME NEW m PROVE NearestIn(own, none, m) = None
        <4>1. \A i \in 1 .. Len(none) : m \notin own[none[i]]
          <5>1. Len(none) = 0 BY <1>6
          <5>. QED BY ONLY <5>1
        <4>2. none \in Seq(Class) BY <1>6
        <4>. QED BY ONLY <4>1, <4>2, NearestNone
      <3>3. InTable(c) BY <1>7, <3>1, <3>2, NearestNow DEF InTable
      <3>4. InLine(c)
        <4>1. Len(lineage[c]) = 0 /\ lineage[c] = <<>> BY <1>6, <3>1
        <4>2. ~(Len(lineage[c]) > 1) /\ \A i \in 1 .. Len(lineage[c]) : FALSE BY ONLY <4>1
        <4>. QED BY <3>1, <4>1, <4>2 DEF InLine, Declared
      <3>. QED BY <3>3, <3>4
    <2>. QED BY <1>1, <2>1, <2>2, <2>3 DEF ClassInv
  <1>12. ObjectInv BY <1>4 DEF ObjectInv, FieldValues
  <1>. DEFINE f == [fn |-> Main, base |-> 1, want |-> 1]
              o == Meant("fn", Main, Main, <<>>, 1, 1)
  <1>13. f \in Frames /\ f.fn = Main /\ f.base = 1 /\ f.want = 1 BY DEF Frames, FrameFns
  <1>14. /\ o \in Intents /\ o.fn = Main /\ o.at = 1 /\ o.want = 1 /\ o.self = Main
         /\ o.args = <<>>
    BY DEF Meant, Intents, FrameFns, ValuesOf
  <1>15. frames = <<f>> /\ owed = <<o>> BY <1>3
  <1>. HIDE DEF f, o
  <1>16. Arity(Main) = 0 /\ Main \notin Fns
    <2>1. Main.m = "" /\ Main.c = "" BY KindsAre
    <2>2. Main \notin Fns BY <2>1, FnIs, CallsAssumption
    <2>. QED BY <2>1, <2>2 DEF Arity
  <1>17. Main \in Values BY DEF Values, ValuesOf
  <1>18. TypeInv
    <2>1. StackMax \in Nat \ {0} BY CallsAssumption
    <2>2. stack \in Seq(Values) /\ Len(stack) = 1 BY ONLY <1>2, <1>17
    <2>3. frames \in Seq(Frames) /\ owed \in Seq(Intents) BY ONLY <1>13, <1>14, <1>15
    <2>4. callstart \in Seq(Marks) /\ loops \in Seq(Loops) BY ONLY <1>2
    <2>5. Len(stack) <= StackMax BY ONLY <2>1, <2>2
    <2>. QED BY <2>2, <2>3, <2>4, <2>5 DEF TypeInv
  <1>9. FramesOK(frames, owed, stack)
    <2>1. /\ Len(frames) = 1 /\ frames[1] = f /\ Len(owed) = 1 /\ owed[1] = o
          /\ Len(stack) = 1 /\ stack[1] = Main /\ frames # <<>>
      BY ONLY <1>2, <1>15
    <2>2. Len(o.args) = 0 BY <1>14, EmptySeq
    <2>3. Agrees(f, o, stack) BY <1>13, <1>14, <1>16, <2>1, <2>2 DEF Agrees
    <2>4. EndOf(f) = 1 BY <1>13, <1>16 DEF EndOf
    <2>. QED BY <2>1, <2>3, <2>4 DEF FramesOK
  <1>10. MarksOK(callstart, frames, stack, Derived) /\ LoopsOK(loops, callstart, frames, stack)
    <2>1. Len(callstart) = 0 /\ Len(loops) = 0 BY ONLY <1>2
    <2>. QED BY <2>1 DEF MarksOK, LoopsOK
  <1>11. GotInv BY <1>5 DEF GotInv, Delivered, Nothing, Failure
  <1>. QED BY <1>1, <1>8, <1>9, <1>10, <1>11, <1>12, <1>18 DEF CInv

(* Each step keeps it, where the kinds of call that the code gets wrong are*)
(* left out.                                                               *)
LEMMA NextInv ==
  ASSUME Avoid = Kinds, CInv, [Next]_vars
  PROVE  CInv'
  <1>1. ASSUME Operate PROVE CInv'
    BY <1>1, OperandStep, PopStep, GetPropertyStep, GetSuperStep, SetPropertyStep DEF Operate
  <1>2. ASSUME Begin PROVE CInv'
    BY <1>2, IndexStep, SuperStep, CallstartStep, NestedStep DEF Begin
  <1>3. ASSUME Do PROVE CInv'
    BY <1>3, OpCallStep, OpInvokeStep, OpInvokeIndexStep, OpInvokeSuperStep, ForeachStep DEF Do
  <1>4. ASSUME OpForeach PROVE CInv' BY <1>4, OpForeachStep
  <1>5. ASSUME Return PROVE CInv' BY <1>5, RetStep DEF Return
  <1>6. ASSUME Declare PROVE CInv' BY <1>6, DeclareSteps
  <1>7. ASSUME UNCHANGED vars PROVE CInv'
    <2>1. UNCHANGED classes /\ UNCHANGED <<objects, machine, ghosts>> BY <1>7 DEF vars
    <2>2. ClassInv /\ (body # "" => status = "run" /\ Len(stack) = 1) BY Parts
    <2>3. ClassInv' /\ body' = body /\ lineage' = lineage BY <2>1, <2>2, ClassesKept DEF classes
    <2>4. Derived' = Derived BY <2>3, SameNow
    <2>. QED BY <2>1, <2>2, <2>3, <2>4, Declares
  <1>. QED BY <1>1, <1>2, <1>3, <1>4, <1>5, <1>6, <1>7 DEF Next

(* It holds in every reachable state.                                      *)
LEMMA InvHolds ==
  ASSUME Avoid = Kinds
  PROVE  Spec => []CInv
  <1>1. Init => CInv BY InitInv
  <1>2. CInv /\ [Next]_vars => CInv' BY NextInv
  <1>. QED BY <1>1, <1>2, PTL DEF Spec
----------------------------------------------------------------------------
(* What the invariant is for.                                              *)

(* A callee with its arguments above it.                                   *)
LEMMA Shown ==
  ASSUME NEW S, NEW s \in Seq(S), NEW b \in Nat \ {0}, NEW args \in Seq(S), NEW self \in S,
         b + Len(args) <= Len(s), s[b] = self, \A j \in 1 .. Len(args) : s[b + j] = args[j]
  PROVE  SubSeq(s, b, b + Len(args)) = <<self>> \o args
  <1>0. Len(args) \in Nat /\ Len(s) \in Nat BY LenProperties
  <1>. PICK n \in Nat : n = Len(args) BY <1>0
  <1>. DEFINE u == SubSeq(s, b, b + n)
              one == <<self>>
  <1>1. \A i \in b .. b + n : s[i] \in S
    <2>. SUFFICES ASSUME NEW i \in b .. b + n PROVE s[i] \in S OBVIOUS
    <2>1. i \in 1 .. Len(s)
      <3>1. b + n <= Len(s) OBVIOUS
      <3>. QED BY ONLY <1>0, <3>1, i \in b .. b + n, n \in Nat, b \in Nat \ {0}
    <2>. QED BY <2>1, ElementOfSeq
  <1>2. b + n \in Nat /\ b <= b + n /\ b + n - b + 1 = 1 + n
    BY ONLY n \in Nat, b \in Nat \ {0}
  <1>3. /\ u \in Seq(S) /\ Len(u) = 1 + n
        /\ \A i \in 1 .. b + n - b + 1 : u[i] = s[b + i - 1]
    BY <1>1, <1>2, SubSeqProperties
  <1>. HIDE DEF u
  <1>4. u[1] = self /\ \A j \in 1 .. n : u[1 + j] = args[j]
    <2>1. 1 \in 1 .. b + n - b + 1 /\ b + 1 - 1 = b BY <1>2
    <2>2. u[1] = self BY <1>3, <2>1
    <2>3. ASSUME NEW j \in 1 .. n PROVE u[1 + j] = args[j]
      <3>1. 1 + j \in 1 .. b + n - b + 1 /\ b + (1 + j) - 1 = b + j
        BY ONLY <1>2, j \in 1 .. n, n \in Nat, b \in Nat \ {0}
      <3>2. u[1 + j] = s[b + j] BY <1>3, <3>1
      <3>3. s[b + j] = args[j] OBVIOUS
      <3>. QED BY <3>2, <3>3
    <2>. QED BY <2>2, <2>3
  <1>5. one \in Seq(S) /\ Len(one) = 1 /\ one[1] = self OBVIOUS
  <1>. HIDE DEF one
  <1>. DEFINE z == one \o args
  <1>6. /\ z \in Seq(S) /\ Len(z) = Len(one) + Len(args) /\ \A i \in 1 .. Len(one) : z[i] = one[i]
        /\ \A j \in 1 .. Len(args) : z[Len(one) + j] = args[j]
    <2>1. one \in Seq(S) /\ args \in Seq(S) BY <1>5
    <2>. QED BY ONLY <2>1, Joined
  <1>. HIDE DEF z
  <1>7. Len(z) = 1 + n /\ z[1] = self /\ \A j \in 1 .. n : z[1 + j] = args[j] BY <1>5, <1>6
  <1>8. \A i \in 1 .. 1 : u[i] = z[i] BY <1>4, <1>7
  <1>9. \A j \in 1 .. n : u[1 + j] = z[1 + j] BY <1>4, <1>7
  <1>10. u = z
    <2>1. 1 \in Nat /\ n \in Nat /\ u \in Seq(S) /\ z \in Seq(S) BY <1>3, <1>6
    <2>2. Len(u) = 1 + n /\ Len(z) = 1 + n BY <1>3, <1>7
    <2>. PICK x \in Nat : x = 1 BY <2>1
    <2>3. Len(u) = x + n /\ Len(z) = x + n BY <2>2
    <2>4. /\ \A i \in 1 .. x : u[i] = z[i]
          /\ \A j \in 1 .. n : u[x + j] = z[x + j]
      BY <1>8, <1>9
    <2>. QED BY ONLY <2>1, <2>3, <2>4, x \in Nat, TwoParts
  <1>. QED BY <1>10 DEF u, z, one

(* It says what the two properties ask for.                                *)
LEMMA InvImplies == CInv => Dispatched /\ Delivered
  <1>. SUFFICES ASSUME CInv PROVE Dispatched /\ Delivered OBVIOUS
  <1>1. /\ stack \in Seq(Values) /\ Len(stack) \in Nat /\ Len(stack) <= StackMax
        /\ frames \in Seq(Frames) /\ owed \in Seq(Intents) /\ GotInv
        /\ FramesOK(frames, owed, stack)
    BY Parts
  <1>2. Delivered BY <1>1 DEF GotInv
  <1>3. ASSUME NEW k \in DOMAIN frames
        PROVE  /\ frames[k].fn = owed[k].fn /\ frames[k].base = owed[k].at
               /\ SubSeq(stack, owed[k].at, owed[k].at + Len(owed[k].args))
                    = <<owed[k].self>> \o owed[k].args
    <2>1. k \in 1 .. Len(frames) /\ k \in 1 .. Len(owed) BY <1>1, LenProperties DEF FramesOK
    <2>2. PICK f \in Frames : f = frames[k] BY <1>1, <2>1, ElementOfSeq
    <2>3. PICK o \in Intents : o = owed[k] BY <1>1, <2>1, ElementOfSeq
    <2>4. Agrees(f, o, stack) /\ EndOf(f) <= Len(stack) BY <1>1, <2>1, <2>2, <2>3 DEF FramesOK
    <2>5. /\ f.fn = o.fn /\ f.base = o.at /\ Len(o.args) = Arity(f.fn) /\ stack[f.base] = o.self
          /\ \A j \in 1 .. Arity(f.fn) : stack[f.base + j] = o.args[j]
      BY <2>4 DEF Agrees
    <2>6. f.base \in Nat \ {0} BY FrameType
    <2>7. o.args \in Seq(ValuesOf(Inst)) /\ o.self \in ValuesOf(Inst) BY DEF Intents
    <2>8. stack \in Seq(ValuesOf(Inst)) BY <1>1, ValuesIn, Wider
    <2>. PICK b \in Nat \ {0} : b = f.base BY <2>6
    <2>9. /\ b + Len(o.args) <= Len(stack) /\ stack[b] = o.self
          /\ \A j \in 1 .. Len(o.args) : stack[b + j] = o.args[j]
      BY <2>4, <2>5 DEF EndOf
    <2>10. SubSeq(stack, b, b + Len(o.args)) = <<o.self>> \o o.args
      BY ONLY <2>7, <2>8, <2>9, b \in Nat \ {0}, Shown
    <2>. QED BY <2>2, <2>3, <2>5, <2>10
  <1>4. Len(frames) = Len(owed) BY <1>1 DEF FramesOK
  <1>5. Dispatched BY <1>1, <1>3, <1>4 DEF Dispatched, GotInv
  <1>. QED BY <1>2, <1>5

(* Every call enters what the language says, or fails when it should: for  *)
(* any classes, instances, native functions and limits, but without the    *)
(* kinds of call that the code gets wrong.                                 *)
THEOREM CallsDispatched ==
  ASSUME Avoid = Kinds
  PROVE  Spec => []Dispatched
  BY InvHolds, InvImplies, PTL

(* A call leaves as many results as its place takes, where callee and      *)
(* arguments were, with the same exceptions.                               *)
THEOREM ResultsDelivered ==
  ASSUME Avoid = Kinds
  PROVE  Spec => []Delivered
  BY InvHolds, InvImplies, PTL
=============================================================================
