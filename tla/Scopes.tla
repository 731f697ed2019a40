------------------------------- MODULE Scopes -------------------------------
(***************************************************************************)
(* Scopes, locals and captured variables in the compiler (parser.c).  The  *)
(* compiler predicts where the VM will keep each variable: a local by its  *)
(* stack slot, a captured one by an entry of the array that OP_CLOSURE     *)
(* reads.  Next to the compiler's tables the module keeps what the emitted *)
(* code does to the stack and what lexical scoping says each name means.   *)
(* Programs with a compile error are left out: compile() returns NULL.     *)
(***************************************************************************)
EXTENDS SequencesExt, Integers

CONSTANTS
  Names,      (* names of variables and parameters                         *)
  FnNames,    (* names of functions                                        *)
  Fixed,      (* bound: 'fixed var' declares the lists that begin with one *)
  Free,       (* bound: names functions use from the functions around them *)
  Adjacent,   (* bound: may a program capture two neighbouring locals?     *)
  MaxDepth,   (* bound: scope depth by nesting level of functions          *)
  MaxDecls,   (* bound: declarations in the program                        *)
  NoName      (* the name of slot 0, which no program can write            *)

ASSUME ScopesAssumption ==
  /\ Names \cap FnNames = {} /\ NoName \notin Names \cup FnNames
  /\ Free \subseteq Names \cup FnNames /\ Fixed \subseteq Names
  /\ MaxDepth \in Seq(Nat) /\ MaxDepth # <<>> /\ MaxDecls \in Nat
  /\ Adjacent \in BOOLEAN

VARIABLES
  fs,         (* the Function states being compiled, innermost last        *)
  upvalues,   (* F->upvalues: one array for the whole nest of functions    *)
  (* What the program means, and what the code emitted so far does:        *)
  env,        (* the variables in scope, numbered as they were declared    *)
  slots,      (* for each function, the variables in its stack slots       *)
  means,      (* for each function, the variable each upvalue was made for *)
  boxed,      (* the variables that closures have captured                 *)
  fixed,      (* the variables declared as fixed                           *)
  decls       (* declarations so far; a variable is known by its number    *)

vars == <<fs, upvalues, env, slots, means, boxed, fixed, decls>>

Global == 0                     (* what a name without a declaration means *)
Level  == Len(fs)
Fun    == Last(fs)
Local(n, d) == [name |-> n, depth |-> d, captured |-> FALSE, fixed |-> FALSE]
SetFun(f)   == [fs EXCEPT ![Level] = f]
At(s, i)    == IF i \in DOMAIN s THEN s[i] ELSE Global

Pending == {i \in DOMAIN Fun.locals : Fun.locals[i].depth = -1}

(* F_init *)
Init == /\ fs = <<[locals |-> <<Local(NoName, 0)>>, depth |-> 0]>>
        /\ upvalues = <<>> /\ means = <<<<>>>>
        /\ env = {} /\ slots = <<<<Global>>>> /\ boxed = {} /\ decls = 0
        /\ fixed = {}

(* Mutant of FindLocal: get_local searches from the first local.           *)
FirstLocal(k, n) ==
  SelectInSeq(fs[k].locals, LAMBDA l : l.name = n)

(* get_local: the last declaration of the name wins; 0 when there is none. *)
FindLocal(k, n) ==
  SelectLastInSeq(fs[k].locals, LAMBDA l : l.name = n)
----------------------------------------------------------------------------
(* add_upval on behalf of function k, whose upvalc is Len(means[k]): reuse *)
(* the entry of this variable among its first upvalc, or overwrite the     *)
(* next one.                                                               *)
AddEntry(s, k, entry, v) ==
  LET n    == Len(s.means[k])
      same == {i \in 1..n : s.arr[i].idx = entry.idx /\ s.arr[i].local = entry.local}
  IN  IF same # {} THEN [s EXCEPT !.idx = Min(same)]
      ELSE [arr   |-> IF n = Len(s.arr) THEN Append(s.arr, entry)
                      ELSE [s.arr EXCEPT ![n + 1] = entry],
            means |-> [s.means EXCEPT ![k] = Append(@, v)],
            idx   |-> n + 1]
AddUpval(s, k, local, fx, v) == AddEntry(s, k, [idx |-> s.idx, local |-> local, fixed |-> fx], v)

(* The function around the running one that has the name as a local.       *)
Owners(n) == {k \in 1..(Level - 1) : FindLocal(k, n) # 0}

(* get_upval: from the owner inward, every function gets an entry.  Its    *)
(* flags are those of the owner's local; further in, those of whatever     *)
(* local has the index of the upvalue, or junk if there is none.           *)
FixedAt(k, i, junk) == IF i \in DOMAIN fs[k].locals THEN fs[k].locals[i].fixed ELSE junk
GetUpval(n, junk) ==
  LET j == Max(Owners(n))
      i == FindLocal(j, n)
      v == At(slots[j], i)
      walk[k \in j..Level] ==
        IF k = j THEN [arr |-> upvalues, means |-> means, idx |-> i]
        ELSE AddUpval(walk[k - 1], k, k = j + 1, FixedAt(k - 1, walk[k - 1].idx, junk), v)
  IN  walk[Level]

(* codevar: the variable that the instruction emitted for a name reaches.  *)
Denotes(n) ==
  IF FindLocal(Level, n) # 0 THEN At(slots[Level], FindLocal(Level, n))
  ELSE IF Owners(n) = {} THEN Global
  ELSE LET g == GetUpval(n, FALSE) IN g.means[Level][g.idx]

(* Mutant of Flagged: get_upval forgets VCAPTURED_BIT.                     *)
Unflagged(k, i) == fs
Flagged(k, i)   == [fs EXCEPT ![k].locals[i].captured = TRUE]

(* The use of a variable of an enclosing function.                         *)
Capture(n, junk) ==
  /\ n \in Free /\ FindLocal(Level, n) = 0 /\ Owners(n) # {}
  /\ LET j  == Max(Owners(n))
         i  == FindLocal(j, n)
         ls == fs[j].locals
     IN  /\ Adjacent \/ \A m \in {i - 1, i + 1} \cap DOMAIN ls : ~ls[m].captured
         /\ fs' = Flagged(j, i)
  /\ upvalues' = GetUpval(n, junk).arr
  /\ means' = GetUpval(n, junk).means
  /\ UNCHANGED <<env, slots, boxed, fixed, decls>>
----------------------------------------------------------------------------
(* make_local reports a redefinition in the same scope.                    *)
Fresh(n) == \A l \in ToSet(Fun.locals) :
              l.depth = -1 \/ l.depth >= Fun.depth => l.name # n

(* New variables, the first n + 1: their numbers, and what they are bound  *)
(* to in a scope of depth d of function k.                                 *)
Numbers(ns, n) == [i \in DOMAIN ns |-> n + i]
Bindings(ns, n, k, d) ==
  {[name |-> ns[i], level |-> k, depth |-> d, var |-> n + i] : i \in DOMAIN ns}

(* name, in a namelist: the local exists but cannot be used yet.           *)
Declare(n) ==
  /\ Fun.depth > 0 /\ Fresh(n)
  /\ decls + Cardinality(Pending) < MaxDecls
  /\ fs' = SetFun([Fun EXCEPT !.locals = Append(@, Local(n, -1))])
  /\ UNCHANGED <<upvalues, env, slots, means, boxed, fixed, decls>>

(* codeassign: the initial values are on the stack, INIT_LOCAL for each,   *)
(* which gives all names of the list the flags in F->vflags.               *)
InitLocals ==
  LET ns == [i \in 1..Cardinality(Pending) |->
               Fun.locals[Len(Fun.locals) - Cardinality(Pending) + i].name]
  IN  /\ Pending # {}
      /\ fs' = SetFun([Fun EXCEPT !.locals =
                 [i \in DOMAIN @ |-> IF i \in Pending
                    THEN [Local(@[i].name, Fun.depth) EXCEPT !.fixed = ns[1] \in Fixed]
                    ELSE @[i]]])
      /\ fixed' = fixed \cup (IF ns[1] \in Fixed THEN ToSet(Numbers(ns, decls)) ELSE {})
      /\ slots' = [slots EXCEPT ![Level] = @ \o Numbers(ns, decls)]
      /\ env' = env \cup Bindings(ns, decls, Level, Fun.depth)
      /\ decls' = decls + Len(ns)
      /\ UNCHANGED <<upvalues, means, boxed>>

(* startscope *)
StartScope == /\ Pending = {} /\ Fun.depth < MaxDepth[Level]
              /\ fs' = SetFun([Fun EXCEPT !.depth = @ + 1])
              /\ UNCHANGED <<upvalues, env, slots, means, boxed, fixed, decls>>

(* The captured locals right above the first k locals.                     *)
BottomRun(ls, k) ==
  {j \in (k + 1)..Len(ls) : \A i \in (k + 1)..j : ls[i].captured}

(* Mutant of Unclosed: a captured local at the bottom is never closed.     *)
NeverClosed(ls, k) == Cardinality(BottomRun(ls, k))

(* The loop of endscope looks one local ahead for the end of a run of      *)
(* captured locals.  At the bottom of the scope it finds it only when the  *)
(* run is a single local and the next one, outside the scope, is not       *)
(* captured; otherwise no OP_CLOSE_UPVAL is emitted for the run,           *)
Unclosed(ls, k) ==
  LET n == Cardinality(BottomRun(ls, k))
  IN  IF n = 1 /\ ~ls[k].captured THEN 0 ELSE n

(* and that next local is dropped with the scope.                          *)
Kept(ls, k) == IF Cardinality(BottomRun(ls, k)) = 1 /\ ls[k].captured
               THEN k - 1 ELSE k

(* endscope.  The rest of the scope is popped or closed slot by slot.      *)
EndScope ==
  LET ls == Fun.locals
      k  == Cardinality({i \in DOMAIN ls : ls[i].depth < Fun.depth})
      emitted == Len(ls) - k - Unclosed(ls, k)
  IN  /\ Pending = {} /\ Fun.depth > (IF Level = 1 THEN 0 ELSE 1)
      /\ fs' = SetFun([locals |-> SubSeq(ls, 1, Kept(ls, k)), depth |-> Fun.depth - 1])
      /\ slots' = [slots EXCEPT ![Level] = SubSeq(@, 1, Len(@) - emitted)]
      /\ env' = {b \in env : b.level < Level \/ b.depth < Fun.depth}
      /\ UNCHANGED <<upvalues, means, boxed, fixed, decls>>

(* fndec and the head of fn: the function's own name is a local of the     *)
(* enclosing function, usable at once, unless that is at global scope.     *)
Arglist(ps) == [i \in DOMAIN ps |-> Local(ps[i], 1)]
BeginFn(f, params) ==
  LET own == IF Fun.depth > 0 THEN <<f>> ELSE <<>>
      n   == decls + Len(own)
  IN  /\ Pending = {} /\ Level < Len(MaxDepth) /\ MaxDepth[Level + 1] > 0
      /\ own # <<>> => Fresh(f)
      /\ n + Len(params) <= MaxDecls
      /\ fs' = Append(SetFun([Fun EXCEPT !.locals =
                        @ \o [i \in DOMAIN own |-> Local(f, Fun.depth)]]),
                 [locals |-> <<Local(NoName, 0)>> \o Arglist(params), depth |-> 1])
      /\ slots' = Append([slots EXCEPT ![Level] = @ \o Numbers(own, decls)],
                         <<Global>> \o Numbers(params, n))
      /\ env' = env \cup Bindings(own, decls, Level, Fun.depth)
                     \cup Bindings(params, n, Level + 1, 1)
      /\ means' = Append(means, <<>>)
      /\ decls' = n + Len(params)
      /\ UNCHANGED <<upvalues, boxed, fixed>>

(* What OP_CLOSURE captures: the entries the array holds by then.          *)
Captures ==
  [i \in DOMAIN Last(means) |->
     At((IF upvalues[i].local THEN slots ELSE means)[Level - 1], upvalues[i].idx)]

(* The tail of fn.                                                         *)
EndFn == /\ Level > 1 /\ Pending = {} /\ Fun.depth = 1
         /\ fs' = Front(fs) /\ slots' = Front(slots) /\ means' = Front(means)
         /\ env' = {b \in env : b.level < Level}
         /\ boxed' = boxed \cup ToSet(Captures)
         /\ UNCHANGED <<upvalues, fixed, decls>>

Next ==
  \/ \E n \in Names \cup FnNames, junk \in BOOLEAN : Capture(n, junk)
  \/ \E n \in Names : Declare(n)
  \/ InitLocals \/ StartScope \/ EndScope \/ EndFn
  \/ \E f \in FnNames, ps \in {<<>>} \cup {<<n>> : n \in Names} : BeginFn(f, ps)

Spec == Init /\ [][Next]_vars
----------------------------------------------------------------------------
Entry == [idx : Nat, local : BOOLEAN, fixed : BOOLEAN]

(* upvalc never runs past the shared array (the assertion in add_upval).   *)
TypeOK ==
  /\ \A f \in ToSet(fs) :
       /\ f.locals \in Seq([name : Names \cup FnNames \cup {NoName},
                            depth : Nat \cup {-1}, captured : BOOLEAN, fixed : BOOLEAN])
       /\ f.depth \in Nat
  /\ upvalues \in Seq(Entry)
  /\ \A m \in ToSet(means) : m \in Seq(0..MaxDecls) /\ Len(m) <= Len(upvalues)
  /\ Len(means) = Level /\ Len(slots) = Level
  /\ \A s \in ToSet(slots) : s \in Seq(0..MaxDecls)
  /\ boxed \cup fixed \subseteq 0..MaxDecls /\ decls \in 0..MaxDecls

(* "End scope and pop locals and/or close captured locals": the stack slots*)
(* of a function hold exactly the variables in scope, in the order of their*)
(* declaration, so that the index codevar emits is the variable's slot.    *)
StackMatches ==
  \A k \in 1..Level :
    /\ ToSet(slots[k]) = {Global} \cup {b.var : b \in {c \in env : c.level = k}}
    /\ \A i, j \in DOMAIN slots[k] : i < j => slots[k][i] < slots[k][j]

(* Lexical scoping: whatever name is used next, the instruction codevar    *)
(* emits reaches the innermost declaration in scope, in this function or   *)
(* around it, shadowed and captured variables included.  It is the last.   *)
Lexical(n) == Max({Global} \cup {b.var : b \in {c \in env : c.name = n}})

LexicalScoping ==
  \A n \in Names \cup FnNames :
    (\A i \in Pending : Fun.locals[i].name # n) => Denotes(n) = Lexical(n)

(* VCAPTURED_BIT is set on exactly the locals some closure has captured:   *)
(* the VM must never OP_POP such a slot (the guards of Pop and Close in    *)
(* Machine rest on it).                                                    *)
FlagsExact ==
  \A i \in DOMAIN Fun.locals \ Pending :
    i \in DOMAIN slots[Level] =>
      (Fun.locals[i].captured <=> slots[Level][i] \in boxed \ {Global})

(* The upvalues of a closure are the variables its body was compiled for:  *)
(* an entry "contains stack index of that variable inside of the function  *)
(* that encloses, or the index of that upvalue in the enclosing function". *)
ClosureCaptures == [][EndFn => Captures = Last(means)]_vars

(* An entry goes with the flags of the local that it stands for ("Local    *)
(* flags"), however many functions away that is: OP_CLOSURE hands them to  *)
(* the upvalue, and OP_SET_UPVALUE refuses what they say is fixed.         *)
FlagsEmitted ==
  [][EndFn => \A i \in DOMAIN Last(means) :
                upvalues[i].fixed <=> Last(means)[i] \in fixed]_vars
============================================================================
