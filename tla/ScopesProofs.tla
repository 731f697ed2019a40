---------------------------- MODULE ScopesProofs ----------------------------
(***************************************************************************)
(* Scopes and captured variables, for programs of any size and depth.  The *)
(* compiler keeps the locals of a function and the VM its stack slots; the *)
(* locals that are initialised have the slots in order, and the scopes of  *)
(* one function are declared before those of the functions inside it.      *)
(***************************************************************************)
EXTENDS Scopes, SequenceFacts, FiniteSetTheorems

(* What a local is, what a function being compiled is, and what its locals *)
(* and the variables in its stack slots have to do with each other: all of *)
(* them but those at the end, which are not initialised yet, have a slot.  *)
LocalType == [name : Names \cup FnNames \cup {NoName}, depth : Nat \cup {-1},
              captured : BOOLEAN, fixed : BOOLEAN]
FunType   == [locals : Seq(LocalType), depth : Nat]
Fits(ls, s, d, n) ==
  /\ ls \in Seq(LocalType) /\ s \in Seq(Nat) /\ Len(s) \in 1 .. Len(ls)
  /\ Len(s) # Len(ls) => d > 0
  /\ ls[1] = Local(NoName, 0) /\ s[1] = Global
  /\ \A i \in 2 .. Len(ls) : ls[i].name # NoName
  /\ \A i \in 2 .. Len(s) : ls[i].depth \in 1 .. d /\ s[i] \in 1 .. n
  /\ \A i \in Len(s) + 1 .. Len(ls) : ls[i].depth = -1 /\ ~ls[i].captured
  /\ \A i, j \in 2 .. Len(s) : i < j => ls[i].depth <= ls[j].depth
  /\ \A i, j \in 1 .. Len(s) : i < j => s[i] < s[j]
(* The variables ns, declared at depth d after n others, get the next slots.*)
Grows(ls, s, ls2, s2, ns, n, d) ==
  /\ ns \in Seq(Names \cup FnNames) /\ ls2 \in Seq(LocalType) /\ s2 \in Seq(Nat)
  /\ Len(ls2) = Len(s) + Len(ns) /\ Len(s2) = Len(s) + Len(ns)
  /\ \A i \in 1 .. Len(s) : ls2[i] = ls[i] /\ s2[i] = s[i]
  /\ \A i \in 1 .. Len(ns) :
       /\ ls2[Len(s) + i].name = ns[i] /\ ls2[Len(s) + i].depth = d
       /\ ~ls2[Len(s) + i].captured /\ s2[Len(s) + i] = n + i
(* Local i is captured as well.                                            *)
Marks(ls, i, ls2) ==
  /\ Len(ls2) = Len(ls)
  /\ \A j \in 1 .. Len(ls) :
       /\ ls2[j].name = ls[j].name /\ ls2[j].depth = ls[j].depth
       /\ ls2[j].captured <=> ls[j].captured \/ j = i
(* No two neighbours are captured.                                         *)
Apart(ls) == \A i \in 1 .. Len(ls) - 1 : ~(ls[i].captured /\ ls[i + 1].captured)

(* The bindings of a function's initialised locals.                        *)
Bound(k, ls, s) == {[name |-> ls[i].name, level |-> k, depth |-> ls[i].depth, var |-> s[i]] :
                      i \in 2 .. Len(s)}

(* Functions F with slots S, bindings E in scope and n declarations:       *)
FunsFit(F, S, n) == \A k \in 1 .. Len(F) :
                      /\ Fits(F[k].locals, S[k], F[k].depth, n) /\ Apart(F[k].locals)
                      /\ F[k].depth <= MaxDepth[k] /\ (k > 1 => F[k].depth > 0)
                      /\ k < Len(F) => Len(S[k]) = Len(F[k].locals)
(* inner functions are declared later,                                     *)
InnerLater(S) == \A k, m \in 1 .. Len(S) : k < m =>
                   \A i \in 1 .. Len(S[k]), j \in 2 .. Len(S[m]) : S[k][i] < S[m][j]
(* and the bindings are those of the slots.                                *)
InScope(F, S, E) == \A b : b \in E <=> \E k \in 1 .. Len(F) : b \in Bound(k, F[k].locals, S[k])
Layout(F, S, E, n) ==
  /\ F \in Seq(FunType) /\ F # <<>> /\ Len(F) <= Len(MaxDepth)
  /\ S \in Seq(Seq(Nat)) /\ Len(S) = Len(F) /\ n \in Nat
  /\ FunsFit(F, S, n) /\ InnerLater(S) /\ InScope(F, S, E)

SInv == Layout(fs, slots, env, decls)

(* A step that changes the current function only, and one that keeps some  *)
(* of its slots and gives out no others.                                   *)
Becomes(ls2, s2, d2) == /\ fs' = [fs EXCEPT ![Level] = [locals |-> ls2, depth |-> d2]]
                        /\ slots' = [slots EXCEPT ![Level] = s2]
Retains(ls2, s2, d2) ==
  /\ Becomes(ls2, s2, d2) /\ Len(s2) <= Len(slots[Level])
  /\ \A i \in 1 .. Len(s2) : ls2[i] = Fun.locals[i] /\ s2[i] = slots[Level][i]
----------------------------------------------------------------------------
(* The numbers up to the first one that is missing.                        *)
LEMMA InitialSegment ==
  ASSUME NEW n \in Nat, NEW A, A \subseteq 1 .. n,
         \A i \in A : \A j \in 1 .. n : j < i => j \in A
  PROVE  Cardinality(A) \in 0 .. n /\ A = 1 .. Cardinality(A)
  <1>. DEFINE Missing == {m \in 1 .. n + 1 : m \notin A}
  <1>1. n + 1 \in Missing /\ Missing \subseteq Nat OBVIOUS
  <1>2. PICK m \in Missing : \A k \in Missing : m <= k BY <1>1, LeastExists
  <1>3. A = 1 .. m - 1
    <2>1. ASSUME NEW i \in A PROVE i \in 1 .. m - 1
      <3>1. i \in 1 .. n /\ i # m /\ m \in 1 .. n + 1 BY <1>2
      <3>2. ~(m < i) BY <1>2, <3>1
      <3>. QED BY <3>1, <3>2
    <2>2. ASSUME NEW i \in 1 .. m - 1 PROVE i \in A
      <3>1. i \in 1 .. n + 1 /\ ~(m <= i) BY <1>2
      <3>. QED BY <3>1, <1>2
    <2>. QED BY <2>1, <2>2
  <1>4. Cardinality(1 .. m - 1) = m - 1 BY <1>2, FS_Interval
  <1>. QED BY <1>2, <1>3, <1>4

(* The greatest element of a set of numbers that has a bound.              *)
LEMMA MaxFact ==
  ASSUME NEW S, NEW n \in Nat, S \subseteq 0 .. n, S # {}
  PROVE  Max(S) \in S /\ \A j \in S : Max(S) >= j
  <1>1. \E i \in S : \A j \in S : i >= j BY GreatestExists
  <1>. QED BY <1>1 DEF Max

(* The last local with a name.                                             *)
LEMMA FoundLocal ==
  ASSUME NEW n, NEW k \in 1 .. Len(fs), fs[k].locals \in Seq(LocalType)
  PROVE  LET ls == fs[k].locals
             i  == FindLocal(k, n)
         IN  /\ i \in 0 .. Len(ls)
             /\ i = 0 => \A j \in 1 .. Len(ls) : ls[j].name # n
             /\ i # 0 => ls[i].name = n
             /\ \A j \in 1 .. Len(ls) : j > i => ls[j].name # n
  <1>. DEFINE ls == fs[k].locals
              I  == {i \in 1 .. Len(ls) : ls[i].name = n}
  <1>1. FindLocal(k, n) = IF I # {} THEN Max(I) ELSE 0 BY DEF FindLocal, SelectLastInSeq
  <1>2. Len(ls) \in Nat /\ I \subseteq 0 .. Len(ls) BY LenProperties
  <1>3. CASE I = {}
    <2>1. \A j \in 1 .. Len(ls) : j \notin I BY <1>3
    <2>. QED BY <1>1, <1>2, <1>3, <2>1
  <1>4. CASE I # {}
    <2>1. Max(I) \in I /\ \A j \in I : Max(I) >= j BY <1>2, <1>4, MaxFact
    <2>2. \A j \in 1 .. Len(ls) : j > Max(I) => j \notin I BY <2>1, <1>2
    <2>. QED BY <1>1, <1>2, <1>4, <2>1, <2>2
  <1>. QED BY <1>3, <1>4
----------------------------------------------------------------------------
(* What the bounds mean for a function's locals and slots.                 *)
LEMMA FitsFacts ==
  ASSUME NEW ls, NEW s, NEW d \in Nat, NEW n \in Nat, Fits(ls, s, d, n)
  PROVE  /\ Len(ls) \in Nat \ {0} /\ Len(s) \in 1 .. Len(ls)
         /\ DOMAIN ls = 1 .. Len(ls) /\ DOMAIN s = 1 .. Len(s)
         /\ \A i \in 1 .. Len(ls) : ls[i] \in LocalType
         /\ \A i \in 1 .. Len(s) : s[i] \in 0 .. n /\ ls[i].depth \in 0 .. d
         /\ ls[1].depth = 0 /\ ls[1].name = NoName /\ ~ls[1].captured
  <1>1. ls \in Seq(LocalType) /\ s \in Seq(Nat) /\ Len(s) \in 1 .. Len(ls)
    BY DEF Fits
  <1>2. Len(ls) \in Nat /\ DOMAIN ls = 1 .. Len(ls) /\ DOMAIN s = 1 .. Len(s)
    BY <1>1, LenProperties
  <1>3. \A i \in 1 .. Len(ls) : ls[i] \in LocalType BY <1>1, ElementOfSeq
  <1>4. ls[1].depth = 0 /\ ls[1].name = NoName /\ ~ls[1].captured /\ s[1] = 0
    BY DEF Fits, Local, Global
  <1>5. ASSUME NEW i \in 1 .. Len(s) PROVE s[i] \in 0 .. n /\ ls[i].depth \in 0 .. d
    <2>1. CASE i = 1 BY <2>1, <1>4
    <2>2. CASE i # 1
      <3>1. i \in 2 .. Len(s) BY <2>2
      <3>2. ls[i].depth \in 1 .. d /\ s[i] \in 1 .. n BY <3>1 DEF Fits
      <3>. QED BY <3>2
    <2>. QED BY <2>1, <2>2
  <1>. QED BY <1>1, <1>2, <1>3, <1>4, <1>5

(* More declarations elsewhere, and a deeper scope, change nothing.        *)
LEMMA FitsMore ==
  ASSUME NEW ls, NEW s, NEW d \in Nat, NEW n \in Nat, Fits(ls, s, d, n),
         NEW d2 \in Nat, NEW n2 \in Nat, d <= d2, n <= n2
  PROVE  Fits(ls, s, d2, n2)
  <1>1. \A i \in 2 .. Len(s) : ls[i].depth \in 1 .. d2 /\ s[i] \in 1 .. n2 BY DEF Fits
  <1>2. Len(s) # Len(ls) => d2 > 0
    <2>1. Len(s) # Len(ls) => d > 0 BY DEF Fits
    <2>. QED BY ONLY <2>1, d \in Nat, d2 \in Nat, d <= d2
  <1>. QED BY <1>1, <1>2 DEF Fits

(* A local that is declared and not initialised.                           *)
LEMMA FitsDeclared ==
  ASSUME NEW ls, NEW s, NEW d \in Nat \ {0}, NEW n \in Nat, Fits(ls, s, d, n), Apart(ls),
         NEW l \in LocalType, l.name \in Names, l.depth = -1, ~l.captured,
         NEW new, new = Append(ls, l)
  PROVE  Fits(new, s, d, n) /\ Apart(new)
  <1>. DEFINE m == Len(ls)
  <1>1. /\ m \in Nat \ {0} /\ Len(s) \in 1 .. m /\ ls \in Seq(LocalType) /\ s \in Seq(Nat)
        /\ ls[1] = Local(NoName, 0) /\ s[1] = Global
    BY FitsFacts DEF Fits
  <1>3. /\ new \in Seq(LocalType) /\ Len(new) = m + 1
        /\ \A i \in 1 .. m : new[i] = ls[i]
        /\ new[m + 1] = l
    BY <1>1, AppendProperties
  <1>4. l.depth = -1 /\ ~l.captured /\ l.name # NoName BY ScopesAssumption
  <1>. HIDE DEF m
  <1>5. \A i \in 2 .. m + 1 : new[i].name # NoName
    <2>1. ASSUME NEW i \in 2 .. m + 1 PROVE new[i].name # NoName
      <3>1. CASE i = m + 1 BY <3>1, <1>3, <1>4
      <3>2. CASE i # m + 1
        <4>1. i \in 1 .. m /\ i \in 2 .. m BY <3>2, <1>1
        <4>. QED BY <4>1, <1>3 DEF Fits, m
      <3>. QED BY <3>1, <3>2
    <2>. QED BY <2>1
  <1>6. \A i \in Len(s) + 1 .. m + 1 : new[i].depth = -1 /\ ~new[i].captured
    <2>1. ASSUME NEW i \in Len(s) + 1 .. m + 1 PROVE new[i].depth = -1 /\ ~new[i].captured
      <3>1. CASE i = m + 1 BY <3>1, <1>3, <1>4
      <3>2. CASE i # m + 1
        <4>1. i \in 1 .. m /\ i \in Len(s) + 1 .. m BY <3>2, <1>1
        <4>. QED BY <4>1, <1>3 DEF Fits, m
      <3>. QED BY <3>1, <3>2
    <2>. QED BY <2>1
  <1>7. \A i \in 1 .. Len(s) : i \in 1 .. m /\ new[i] = ls[i]
    <2>1. m \in Nat /\ Len(s) \in 1 .. m BY <1>1
    <2>2. \A i \in 1 .. Len(s) : i \in 1 .. m BY ONLY <2>1
    <2>. QED BY <1>3, <2>2
  <1>8. Fits(new, s, d, n)
    <2>. \A i \in 2 .. Len(s) : new[i] = ls[i]
      <3>1. Len(s) \in Nat BY <1>1
      <3>2. \A i \in 2 .. Len(s) : i \in 1 .. Len(s) BY ONLY <3>1
      <3>. QED BY <3>2, <1>7
    <2>1. \A i \in 2 .. Len(s) : new[i].depth \in 1 .. d /\ s[i] \in 1 .. n BY DEF Fits
    <2>2. \A i, j \in 2 .. Len(s) : i < j => new[i].depth <= new[j].depth BY DEF Fits
    <2>3. \A i, j \in 1 .. Len(s) : i < j => s[i] < s[j] BY DEF Fits
    <2>4. Len(s) \in 1 .. m + 1
      <3>1. m \in Nat /\ Len(s) \in 1 .. m BY <1>1
      <3>. QED BY ONLY <3>1
    <2>5. new[1] = Local(NoName, 0) BY <1>1, <1>3
    <2>6. d > 0 OBVIOUS
    <2>. QED BY <1>1, <1>3, <1>5, <1>6, <2>1, <2>2, <2>3, <2>4, <2>5, <2>6 DEF Fits
  <1>9. Apart(new)
    <2>1. ASSUME NEW i \in 1 .. m PROVE ~(new[i].captured /\ new[i + 1].captured)
      <3>1. CASE i = m BY <3>1, <1>3, <1>4
      <3>2. CASE i # m
        <4>1. i \in 1 .. m /\ i + 1 \in 1 .. m /\ i \in 1 .. m - 1 BY <3>2, <1>1
        <4>. QED BY <4>1, <1>3 DEF Apart, m
      <3>. QED BY <3>1, <3>2
    <2>2. Len(new) - 1 = m BY <1>1, <1>3
    <2>. QED BY <2>1, <2>2 DEF Apart
  <1>. QED BY <1>8, <1>9

(* New variables in the next slots, in the current scope.                  *)
LEMMA FitsGrown ==
  ASSUME NEW ls, NEW s, NEW d \in Nat \ {0}, NEW n \in Nat, Fits(ls, s, d, n), Apart(ls),
         NEW ls2, NEW s2, NEW ns, Grows(ls, s, ls2, s2, ns, n, d)
  PROVE  /\ Fits(ls2, s2, d, n + Len(ns)) /\ Apart(ls2)
         /\ \A i \in Len(s) + 1 .. Len(s2) : s2[i] > n
  <1>. DEFINE h == Len(s)
              m == Len(ns)
  <1>1. /\ Len(ls) \in Nat \ {0} /\ h \in 1 .. Len(ls)
        /\ ls[1] = Local(NoName, 0) /\ s[1] = Global
        /\ \A i \in 1 .. h : s[i] \in 0 .. n /\ ls[i].depth \in 0 .. d
    BY FitsFacts DEF Fits
  <1>2. /\ Len(ls2) = h + m /\ Len(s2) = h + m
        /\ \A i \in 1 .. h : ls2[i] = ls[i] /\ s2[i] = s[i]
        /\ ls2 \in Seq(LocalType) /\ s2 \in Seq(Nat)
    BY DEF Grows
  <1>3. /\ \A i \in 2 .. Len(ls) : ls[i].name # NoName
        /\ \A i \in 2 .. h : ls[i].depth \in 1 .. d /\ s[i] \in 1 .. n
        /\ \A i, j \in 2 .. h : i < j => ls[i].depth <= ls[j].depth
        /\ \A i, j \in 1 .. h : i < j => s[i] < s[j]
    BY DEF Fits
  <1>4. \A i \in 1 .. Len(ls) - 1 : ~(ls[i].captured /\ ls[i + 1].captured) BY DEF Apart
  <1>5. h \in Nat /\ m \in Nat
    <2>1. ns \in Seq(Names \cup FnNames) BY DEF Grows
    <2>2. m \in Nat BY <2>1, LenProperties
    <2>. QED BY <1>1, <2>2
  <1>0. ASSUME NEW i \in h + 1 .. h + m
        PROVE  /\ ls2[i].depth = d /\ ~ls2[i].captured /\ ls2[i].name # NoName
               /\ s2[i] = n + (i - h) /\ s2[i] > n
    <2>1. i - h \in 1 .. m /\ h + (i - h) = i BY ONLY <1>5, i \in h + 1 .. h + m
    <2>2. /\ ls2[h + (i - h)].name = ns[i - h] /\ ls2[h + (i - h)].depth = d
          /\ ~ls2[h + (i - h)].captured /\ s2[h + (i - h)] = n + (i - h)
      BY <2>1 DEF Grows
    <2>3. ns[i - h] \in Names \cup FnNames BY <2>1, ElementOfSeq DEF Grows
    <2>4. ns[i - h] # NoName BY <2>3, ScopesAssumption
    <2>5. n + (i - h) > n BY ONLY <2>1, n \in Nat, <1>5
    <2>. QED BY <2>1, <2>2, <2>4, <2>5
  <1>. HIDE DEF h, m
  <1>6. ASSUME NEW i \in 2 .. h + m
        PROVE  ls2[i].name # NoName /\ ls2[i].depth \in 1 .. d /\ s2[i] \in 1 .. n + m
    <2>1. CASE i <= h
      <3>1. i \in 1 .. h /\ i \in 2 .. h /\ i \in 2 .. Len(ls) BY <2>1, <1>1
      <3>2. ls2[i] = ls[i] /\ s2[i] = s[i] BY <1>2, <3>1
      <3>3. ls[i].name # NoName /\ ls[i].depth \in 1 .. d /\ s[i] \in 1 .. n BY <1>3, <3>1
      <3>4. s[i] \in 1 .. n + m BY ONLY <3>3, <1>5, n \in Nat
      <3>. QED BY <3>2, <3>3, <3>4
    <2>2. CASE i > h
      <3>1. i \in h + 1 .. h + m BY <2>2, <1>5
      <3>2. ls2[i].depth = d /\ ls2[i].name # NoName /\ s2[i] = n + (i - h) BY <1>0, <3>1
      <3>3. n + (i - h) \in 1 .. n + m BY ONLY <3>1, <1>5, n \in Nat
      <3>. QED BY <3>2, <3>3
    <2>. QED BY <2>1, <2>2, <1>5
  <1>7. ASSUME NEW i \in 1 .. h + m, NEW j \in 1 .. h + m, i < j
        PROVE  s2[i] < s2[j] /\ (i > 1 => ls2[i].depth <= ls2[j].depth)
    <2>1. CASE j <= h
      <3>1. i \in 1 .. h /\ j \in 1 .. h BY <2>1, <1>7, <1>5
      <3>2. s2[i] = s[i] /\ s2[j] = s[j] /\ ls2[i] = ls[i] /\ ls2[j] = ls[j] BY <3>1, <1>2
      <3>3. s[i] < s[j] BY <3>1, <1>3, <1>7
      <3>4. i > 1 => ls[i].depth <= ls[j].depth
        <4>1. i > 1 => i \in 2 .. h /\ j \in 2 .. h BY <3>1, <1>7
        <4>. QED BY <4>1, <1>3, <1>7
      <3>. QED BY <3>2, <3>3, <3>4
    <2>2. CASE j > h
      <3>1. j \in h + 1 .. h + m BY <2>2, <1>5
      <3>2. s2[j] = n + (j - h) /\ ls2[j].depth = d BY <3>1, <1>0
      <3>3. CASE i <= h
        <4>1. i \in 1 .. h BY <3>3, <1>5
        <4>2. s2[i] = s[i] /\ ls2[i] = ls[i] /\ s[i] \in 0 .. n /\ ls[i].depth \in 0 .. d
          BY <4>1, <1>1, <1>2
        <4>3. s[i] < n + (j - h) BY ONLY <4>2, <3>1, <1>5, n \in Nat
        <4>4. ls[i].depth <= d BY ONLY <4>2, d \in Nat \ {0}
        <4>. QED BY <4>2, <4>3, <4>4, <3>2
      <3>4. CASE i > h
        <4>1. i \in h + 1 .. h + m BY <3>4, <1>5
        <4>2. s2[i] = n + (i - h) /\ ls2[i].depth = d BY <4>1, <1>0
        <4>3. n + (i - h) < n + (j - h) /\ d <= d
          BY ONLY <4>1, <3>1, <1>5, <1>7, n \in Nat, d \in Nat \ {0}
        <4>. QED BY <4>2, <4>3, <3>2
      <3>. QED BY <3>3, <3>4, <1>5
    <2>. QED BY <2>1, <2>2, <1>5
  <1>8. Fits(ls2, s2, d, n + m)
    <2>1. Len(s2) \in 1 .. Len(ls2) BY <1>1, <1>2, <1>5
    <2>2. ls2[1] = Local(NoName, 0) /\ s2[1] = Global
      <3>1. 1 \in 1 .. h BY <1>1
      <3>. QED BY <3>1, <1>1, <1>2
    <2>3. \A i \in 2 .. Len(ls2) : ls2[i].name # NoName BY <1>2, <1>6
    <2>4. \A i \in 2 .. Len(s2) : ls2[i].depth \in 1 .. d /\ s2[i] \in 1 .. n + m
      BY <1>2, <1>6
    <2>5. \A i \in Len(s2) + 1 .. Len(ls2) : ls2[i].depth = -1 /\ ~ls2[i].captured
      <3>1. ~ \E i : i \in h + m + 1 .. h + m BY <1>5
      <3>. QED BY <3>1, <1>2
    <2>6. \A i, j \in 2 .. Len(s2) : i < j => ls2[i].depth <= ls2[j].depth
      <3>1. \A i \in 2 .. h + m : i \in 1 .. h + m /\ i > 1 BY <1>5
      <3>. QED BY <3>1, <1>2, <1>7
    <2>7. \A i, j \in 1 .. Len(s2) : i < j => s2[i] < s2[j] BY <1>2, <1>7
    <2>8. Len(s2) = Len(ls2) BY <1>2
    <2>9. Len(s2) # Len(ls2) => d > 0 BY <2>8
    <2>. QED BY <1>2, <2>9, <2>1, <2>2, <2>3, <2>4, <2>5, <2>6, <2>7 DEF Fits
  <1>9. Apart(ls2)
    <2>1. ASSUME NEW i \in 1 .. h + m - 1 PROVE ~(ls2[i].captured /\ ls2[i + 1].captured)
      <3>1. CASE i + 1 <= h
        <4>0. Len(ls) \in Nat /\ h <= Len(ls) BY <1>1
        <4>1. i \in 1 .. h /\ i + 1 \in 1 .. h /\ i \in 1 .. Len(ls) - 1
          BY ONLY <3>1, <4>0, <1>5, i \in 1 .. h + m - 1
        <4>. QED BY <4>1, <1>2, <1>4
      <3>2. CASE i + 1 > h
        <4>1. i + 1 \in h + 1 .. h + m BY <3>2, <1>5
        <4>. QED BY <4>1, <1>0
      <3>. QED BY <3>1, <3>2, <1>5
    <2>2. Len(ls2) = h + m BY <1>2
    <2>3. 1 .. Len(ls2) - 1 = 1 .. h + m - 1
      BY ONLY <2>2, <1>5
    <2>. QED BY <2>1, <2>3 DEF Apart
  <1>. QED BY <1>0, <1>2, <1>8, <1>9 DEF h, m

(* The first k locals of a function and their slots, at a depth that       *)
(* covers them.                                                            *)
LEMMA FitsTrimmed ==
  ASSUME NEW ls, NEW s, NEW d \in Nat, NEW n \in Nat, Fits(ls, s, d, n), Apart(ls),
         NEW k \in 1 .. Len(s), NEW d2 \in Nat, \A i \in 1 .. k : ls[i].depth <= d2
  PROVE  Fits(SubSeq(ls, 1, k), SubSeq(s, 1, k), d2, n) /\ Apart(SubSeq(ls, 1, k))
  <1>. DEFINE ls2 == SubSeq(ls, 1, k)
              s2  == SubSeq(s, 1, k)
  <1>1. /\ Len(ls) \in Nat \ {0} /\ Len(s) \in 1 .. Len(ls)
        /\ ls \in Seq(LocalType) /\ s \in Seq(Nat)
        /\ ls[1] = Local(NoName, 0) /\ s[1] = Global
    BY FitsFacts DEF Fits
  <1>2. k \in 0 .. Len(ls) /\ k \in 0 .. Len(s) /\ k \in Nat BY <1>1
  <1>3. /\ ls2 \in Seq(LocalType) /\ Len(ls2) = k /\ \A i \in 1 .. k : ls2[i] = ls[i]
    BY <1>1, <1>2, Prefix
  <1>4. /\ s2 \in Seq(Nat) /\ Len(s2) = k /\ \A i \in 1 .. k : s2[i] = s[i]
    BY <1>1, <1>2, Prefix
  <1>5. \A i \in 2 .. k : i \in 1 .. k /\ i \in 2 .. Len(s) /\ i \in 2 .. Len(ls)
    BY <1>1, <1>2
  <1>6. \A i \in 1 .. k : i \in 1 .. Len(s) BY <1>1, <1>2
  <1>. HIDE DEF ls2, s2
  <1>7. Fits(ls2, s2, d2, n)
    <2>1. ls2[1] = Local(NoName, 0) /\ s2[1] = Global
      <3>1. 1 \in 1 .. k OBVIOUS
      <3>. QED BY <3>1, <1>1, <1>3, <1>4
    <2>2. \A i \in 2 .. k : ls2[i].name # NoName BY <1>3, <1>5 DEF Fits
    <2>3. ASSUME NEW i \in 2 .. k PROVE ls2[i].depth \in 1 .. d2 /\ s2[i] \in 1 .. n
      <3>1. ls2[i] = ls[i] /\ s2[i] = s[i] /\ i \in 2 .. Len(s) BY <1>3, <1>4, <1>5
      <3>2. ls[i].depth \in 1 .. d /\ s[i] \in 1 .. n BY <3>1 DEF Fits
      <3>3. ls[i].depth <= d2 BY <1>5
      <3>. QED BY <3>1, <3>2, <3>3
    <2>4. \A i, j \in 2 .. k : i < j => ls2[i].depth <= ls2[j].depth
      BY <1>3, <1>5 DEF Fits
    <2>5. \A i, j \in 1 .. k : i < j => s2[i] < s2[j] BY <1>4, <1>6 DEF Fits
    <2>6. k \in 1 .. k /\ ~ \E i : i \in k + 1 .. k OBVIOUS
    <2>. QED BY <1>3, <1>4, <2>1, <2>2, <2>3, <2>4, <2>5, <2>6 DEF Fits
  <1>8. Apart(ls2)
    <2>1. \A i \in 1 .. k - 1 : i \in 1 .. k /\ i + 1 \in 1 .. k /\ i \in 1 .. Len(ls) - 1
      BY <1>1, <1>2
    <2>. QED BY <1>3, <2>1 DEF Apart
  <1>. QED BY <1>3, <1>4, <1>7, <1>8 DEF ls2, s2

(* A local that a closure captures.                                        *)
LEMMA FitsFlagged ==
  ASSUME NEW ls, NEW s, NEW d \in Nat, NEW n \in Nat, Fits(ls, s, d, n), Apart(ls),
         NEW i \in 2 .. Len(s),
         \A m \in {i - 1, i + 1} \cap DOMAIN ls : ~ls[m].captured
  PROVE  LET new == [ls EXCEPT ![i].captured = TRUE]
         IN  Fits(new, s, d, n) /\ Apart(new) /\ Marks(ls, i, new)
  <1>. DEFINE new == [ls EXCEPT ![i].captured = TRUE]
  <1>1. /\ Len(ls) \in Nat \ {0} /\ Len(s) \in 1 .. Len(ls) /\ DOMAIN ls = 1 .. Len(ls)
        /\ ls \in Seq(LocalType) /\ s \in Seq(Nat)
        /\ ls[1] = Local(NoName, 0) /\ s[1] = Global
        /\ \A j \in 1 .. Len(ls) : ls[j] \in LocalType
    BY FitsFacts DEF Fits
  <1>2. i \in 1 .. Len(ls) BY <1>1
  <1>3. /\ [ls[i] EXCEPT !.captured = TRUE] \in LocalType
        /\ [ls[i] EXCEPT !.captured = TRUE].name = ls[i].name
        /\ [ls[i] EXCEPT !.captured = TRUE].depth = ls[i].depth
        /\ [ls[i] EXCEPT !.captured = TRUE].captured
    BY <1>1, <1>2 DEF LocalType
  <1>4. new = [ls EXCEPT ![i] = [ls[i] EXCEPT !.captured = TRUE]] OBVIOUS
  <1>5. new \in Seq(LocalType) /\ Len(new) = Len(ls) BY <1>1, <1>2, <1>3, <1>4, ExceptSeq
  <1>6. /\ \A j \in 1 .. Len(ls) : j # i => new[j] = ls[j]
        /\ new[i] = [ls[i] EXCEPT !.captured = TRUE]
    BY <1>1, <1>2
  <1>. HIDE DEF new
  <1>7. \A j \in 1 .. Len(ls) :
          /\ j # i => new[j] = ls[j]
          /\ new[j].name = ls[j].name /\ new[j].depth = ls[j].depth
    BY <1>3, <1>6
  <1>8. Fits(new, s, d, n)
    <2>1. new[1] = Local(NoName, 0)
      <3>1. 1 \in 1 .. Len(ls) /\ 1 # i BY <1>1
      <3>. QED BY <3>1, <1>1, <1>7
    <2>2. \A j \in 2 .. Len(s) : j \in 1 .. Len(ls) BY <1>1
    <2>3. \A j \in 2 .. Len(ls) : j \in 1 .. Len(ls) BY <1>1
    <2>4. \A j \in Len(s) + 1 .. Len(ls) : j \in 1 .. Len(ls) /\ j # i BY <1>1
    <2>. QED BY <1>1, <1>5, <1>7, <2>1, <2>2, <2>3, <2>4 DEF Fits
  <1>9. Apart(new)
    <2>1. ASSUME NEW j \in 1 .. Len(ls) - 1 PROVE ~(new[j].captured /\ new[j + 1].captured)
      <3>1. j \in 1 .. Len(ls) /\ j + 1 \in 1 .. Len(ls) BY <1>1
      <3>2. CASE j = i
        <4>1. i + 1 \in DOMAIN ls /\ i + 1 # i BY <3>1, <3>2, <1>1
        <4>2. ~ls[i + 1].captured BY <4>1
        <4>. QED BY <4>1, <4>2, <3>1, <3>2, <1>7
      <3>3. CASE j + 1 = i
        <4>1. j = i - 1 /\ i - 1 \in DOMAIN ls /\ j # i BY <3>1, <3>3, <1>1
        <4>2. ~ls[j].captured BY <4>1
        <4>. QED BY <4>1, <4>2, <3>1, <1>7
      <3>4. CASE j # i /\ j + 1 # i BY <3>1, <3>4, <1>7 DEF Apart
      <3>. QED BY <3>2, <3>3, <3>4
    <2>. QED BY <2>1, <1>5 DEF Apart
  <1>10. \A j \in 1 .. Len(ls) : new[j].captured <=> ls[j].captured \/ j = i BY <1>3, <1>6
  <1>11. Marks(ls, i, new) BY <1>5, <1>7, <1>10 DEF Marks
  <1>. QED BY <1>8, <1>9, <1>11 DEF new
----------------------------------------------------------------------------
(* What a layout says of each function.                                    *)
LEMMA LayoutFacts ==
  ASSUME NEW F, NEW S, NEW E, NEW n, Layout(F, S, E, n)
  PROVE  /\ Len(F) \in Nat \ {0} /\ Len(S) = Len(F) /\ n \in Nat
         /\ DOMAIN F = 1 .. Len(F) /\ DOMAIN S = 1 .. Len(F)
         /\ Last(F) = F[Len(F)] /\ Len(F) \in 1 .. Len(F)
         /\ \A k \in 1 .. Len(F) :
              /\ F[k] \in FunType /\ S[k] \in Seq(Nat) /\ F[k].depth \in Nat
              /\ F[k].locals \in Seq(LocalType)
              /\ Fits(F[k].locals, S[k], F[k].depth, n) /\ Apart(F[k].locals)
              /\ F[k].depth <= MaxDepth[k] /\ (k > 1 => F[k].depth > 0)
              /\ k < Len(F) => Len(S[k]) = Len(F[k].locals)
  <1>1. /\ F \in Seq(FunType) /\ F # <<>> /\ S \in Seq(Seq(Nat)) /\ Len(S) = Len(F) /\ n \in Nat
    BY DEF Layout
  <1>2. Len(F) \in Nat \ {0} /\ DOMAIN F = 1 .. Len(F) /\ Last(F) = F[Len(F)]
    BY <1>1, Ends, LenProperties
  <1>3. DOMAIN S = 1 .. Len(F) BY <1>1, LenProperties
  <1>4. \A k \in 1 .. Len(F) : F[k] \in FunType BY <1>1, ElementOfSeq
  <1>5. \A k \in 1 .. Len(S) : S[k] \in Seq(Nat) BY <1>1, ElementOfSeq
  <1>6. \A k \in 1 .. Len(F) : F[k].depth \in Nat /\ F[k].locals \in Seq(LocalType)
    BY <1>4 DEF FunType
  <1>7. FunsFit(F, S, n) BY DEF Layout
  <1>8. Len(F) \in 1 .. Len(F) BY <1>2
  <1>. QED BY <1>1, <1>2, <1>3, <1>4, <1>5, <1>6, <1>7, <1>8 DEF FunsFit

(* Slots are in use by declarations so far.                                *)
LEMMA SlotsBelow ==
  ASSUME NEW F, NEW S, NEW E, NEW n, Layout(F, S, E, n), NEW k \in 1 .. Len(F)
  PROVE  /\ Len(F[k].locals) \in Nat \ {0} /\ Len(S[k]) \in 1 .. Len(F[k].locals)
         /\ DOMAIN F[k].locals = 1 .. Len(F[k].locals) /\ DOMAIN S[k] = 1 .. Len(S[k])
         /\ \A i \in 1 .. Len(S[k]) : S[k][i] \in 0 .. n /\ F[k].locals[i].depth \in 0 .. F[k].depth
  <1>1. Fits(F[k].locals, S[k], F[k].depth, n) /\ F[k].depth \in Nat /\ n \in Nat
    BY LayoutFacts
  <1>. QED BY <1>1, FitsFacts

(* One function gets other locals and slots.                               *)
LEMMA LayoutChanged ==
  ASSUME NEW F, NEW S, NEW E, NEW n, Layout(F, S, E, n), NEW j \in 1 .. Len(F),
         NEW ls2, NEW s2, NEW d2 \in Nat, NEW n2 \in Nat, NEW E2, n <= n2,
         Fits(ls2, s2, d2, n2), Apart(ls2), d2 <= MaxDepth[j], j > 1 => d2 > 0,
         j < Len(F) => s2 = S[j] /\ Len(s2) = Len(ls2),
         \A i \in 2 .. Len(s2) : s2[i] > n \/ (i \in 2 .. Len(S[j]) /\ s2[i] = S[j][i]),
         \A b : b \in E2 <=> (b \in E /\ b.level # j) \/ b \in Bound(j, ls2, s2)
  PROVE  Layout([F EXCEPT ![j] = [locals |-> ls2, depth |-> d2]], [S EXCEPT ![j] = s2], E2, n2)
  <1>. DEFINE f2 == [locals |-> ls2, depth |-> d2]
              F2 == [F EXCEPT ![j] = f2]
              S2 == [S EXCEPT ![j] = s2]
  <1>1. /\ F \in Seq(FunType) /\ F # <<>> /\ Len(F) <= Len(MaxDepth)
        /\ S \in Seq(Seq(Nat)) /\ Len(S) = Len(F) /\ n \in Nat
    BY DEF Layout
  <1>2. Len(F) \in Nat \ {0} BY LayoutFacts
  <1>3. f2 \in FunType /\ f2.locals = ls2 /\ f2.depth = d2 /\ s2 \in Seq(Nat)
    BY DEF Fits, FunType
  <1>. HIDE DEF f2
  <1>4. /\ F2 \in Seq(FunType) /\ Len(F2) = Len(F)
        /\ \A k \in 1 .. Len(F) : F2[k] = IF k = j THEN f2 ELSE F[k]
    BY <1>1, <1>3, ExceptSeq
  <1>5. /\ S2 \in Seq(Seq(Nat)) /\ Len(S2) = Len(F)
        /\ \A k \in 1 .. Len(F) : S2[k] = IF k = j THEN s2 ELSE S[k]
    BY <1>1, <1>3, ExceptSeq
  <1>. HIDE DEF F2, S2
  <1>6. FunsFit(F2, S2, n2)
    <2>1. ASSUME NEW k \in 1 .. Len(F)
          PROVE  /\ Fits(F2[k].locals, S2[k], F2[k].depth, n2) /\ Apart(F2[k].locals)
                 /\ F2[k].depth <= MaxDepth[k] /\ (k > 1 => F2[k].depth > 0)
                 /\ k < Len(F) => Len(S2[k]) = Len(F2[k].locals)
      <3>1. CASE k = j BY <3>1, <1>3, <1>4, <1>5
      <3>2. CASE k # j
        <4>1. F2[k] = F[k] /\ S2[k] = S[k] BY <3>2, <1>4, <1>5
        <4>2. /\ Fits(F[k].locals, S[k], F[k].depth, n) /\ F[k].depth \in Nat
              /\ Apart(F[k].locals)
              /\ F[k].depth <= MaxDepth[k] /\ (k > 1 => F[k].depth > 0)
              /\ k < Len(F) => Len(S[k]) = Len(F[k].locals)
          BY LayoutFacts
        <4>3. Fits(F[k].locals, S[k], F[k].depth, n2) BY SMTT(60), <4>2, <1>1, FitsMore
        <4>. QED BY <4>1, <4>2, <4>3
      <3>. QED BY <3>1, <3>2
    <2>. QED BY <2>1, <1>4 DEF FunsFit
  <1>7. InnerLater(S2)
    <2>1. ASSUME NEW k \in 1 .. Len(F), NEW m \in 1 .. Len(F), k < m,
                 NEW i \in 1 .. Len(S2[k]), NEW h \in 2 .. Len(S2[m])
          PROVE  S2[k][i] < S2[m][h]
      <3>1. \A a \in 1 .. Len(S[k]), b \in 2 .. Len(S[m]) : S[k][a] < S[m][b]
        BY <2>1, <1>1 DEF Layout, InnerLater
      <3>2. CASE m = j
        <4>1. S2[m] = s2 /\ S2[k] = S[k] BY <3>2, <2>1, <1>5
        <4>2. S[k][i] \in 0 .. n BY <4>1, SlotsBelow
        <4>3. s2[h] > n \/ (h \in 2 .. Len(S[j]) /\ s2[h] = S[j][h]) BY <4>1
        <4>4. CASE h \in 2 .. Len(S[j]) /\ s2[h] = S[j][h]
          BY <3>1, <3>2, <4>1, <4>4
        <4>5. CASE s2[h] > n
          <5>1. s2[h] \in Nat BY <4>1, <1>3, LenProperties, ElementOfSeq
          <5>2. n \in Nat BY <1>1
          <5>3. S[k][i] < s2[h] BY ONLY <4>2, <4>5, <5>1, <5>2
          <5>. QED BY <4>1, <5>3
        <4>. QED BY <4>3, <4>4, <4>5
      <3>3. CASE m # j
        <4>1. S2[m] = S[m] /\ S2[k] = S[k]
          <5>1. k = j => s2 = S[j] BY <2>1, <1>2
          <5>. QED BY <3>3, <5>1, <1>5
        <4>. QED BY <4>1, <3>1
      <3>. QED BY <3>2, <3>3
    <2>. QED BY <2>1, <1>5 DEF InnerLater
  <1>8. InScope(F2, S2, E2)
    <2>1. ASSUME NEW b
          PROVE  b \in E2 <=> \E k \in 1 .. Len(F) : b \in Bound(k, F2[k].locals, S2[k])
      <3>1. b \in E <=> \E k \in 1 .. Len(F) : b \in Bound(k, F[k].locals, S[k])
        BY DEF Layout, InScope
      <3>2. \A k \in 1 .. Len(F) : \A l, s : b \in Bound(k, l, s) => b.level = k BY DEF Bound
      <3>3. F2[j].locals = ls2 /\ S2[j] = s2 BY <1>3, <1>4, <1>5
      <3>4. \A k \in 1 .. Len(F) : k # j => F2[k] = F[k] /\ S2[k] = S[k] BY <1>4, <1>5
      <3>5. b \in E2 <=> (b \in E /\ b.level # j) \/ b \in Bound(j, ls2, s2) OBVIOUS
      <3>6. ASSUME b \in E, b.level # j
            PROVE  \E k \in 1 .. Len(F) : b \in Bound(k, F2[k].locals, S2[k])
        <4>1. PICK k \in 1 .. Len(F) : b \in Bound(k, F[k].locals, S[k]) BY <3>1, <3>6
        <4>2. k # j BY <3>2, <3>6, <4>1
        <4>. QED BY <3>4, <4>1, <4>2
      <3>7. ASSUME NEW k \in 1 .. Len(F), b \in Bound(k, F2[k].locals, S2[k]), k # j
            PROVE  b \in E /\ b.level # j
        BY <3>1, <3>2, <3>4, <3>7
      <3>. QED BY <3>3, <3>5, <3>6, <3>7
    <2>. QED BY <2>1, <1>4 DEF InScope
  <1>. QED BY <1>1, <1>4, <1>5, <1>6, <1>7, <1>8 DEF Layout, F2, S2, f2

(* A new function, inside the last one.                                    *)
LEMMA LayoutNested ==
  ASSUME NEW F, NEW S, NEW E, NEW n, Layout(F, S, E, n),
         NEW ls2, NEW s2, NEW d2 \in Nat \ {0}, NEW n2 \in Nat, NEW E2, n <= n2,
         Fits(ls2, s2, d2, n2), Apart(ls2),
         Len(F) < Len(MaxDepth), MaxDepth \in Seq(Nat), d2 <= MaxDepth[Len(F) + 1],
         Len(S[Len(F)]) = Len(F[Len(F)].locals),
         \A i \in 2 .. Len(s2) : s2[i] > n,
         \A b : b \in E2 <=> b \in E \/ b \in Bound(Len(F) + 1, ls2, s2)
  PROVE  Layout(Append(F, [locals |-> ls2, depth |-> d2]), Append(S, s2), E2, n2)
  <1>. DEFINE f2 == [locals |-> ls2, depth |-> d2]
              F2 == Append(F, f2)
              S2 == Append(S, s2)
              L  == Len(F)
  <1>1. /\ F \in Seq(FunType) /\ F # <<>> /\ L <= Len(MaxDepth)
        /\ S \in Seq(Seq(Nat)) /\ Len(S) = L /\ n \in Nat
    BY DEF Layout
  <1>2. L \in Nat \ {0} BY LayoutFacts
  <1>3. f2 \in FunType /\ f2.locals = ls2 /\ f2.depth = d2 /\ s2 \in Seq(Nat)
    BY DEF Fits, FunType
  <1>. HIDE DEF f2
  <1>4. /\ F2 \in Seq(FunType) /\ Len(F2) = L + 1 /\ F2 # <<>>
        /\ \A k \in 1 .. L : F2[k] = F[k]
        /\ F2[L + 1] = f2
    <2>1. F \in Seq(FunType) /\ f2 \in FunType BY <1>1, <1>3
    <2>. QED BY ONLY <2>1, AppendProperties
  <1>5. /\ S2 \in Seq(Seq(Nat)) /\ Len(S2) = L + 1
        /\ \A k \in 1 .. L : S2[k] = S[k]
        /\ S2[L + 1] = s2
    <2>1. /\ S2 \in Seq(Seq(Nat)) /\ Len(S2) = Len(S) + 1
          /\ \A k \in 1 .. Len(S) : S2[k] = S[k]
          /\ S2[Len(S) + 1] = s2
      BY <1>1, <1>3, AppendProperties
    <2>. QED BY <2>1, <1>1
  <1>6. L + 1 <= Len(MaxDepth)
    <2>1. Len(MaxDepth) \in Nat /\ L < Len(MaxDepth) BY LenProperties
    <2>. QED BY ONLY <2>1, <1>2
  <1>7. Len(S[L]) = Len(F[L].locals) /\ d2 <= MaxDepth[L + 1] OBVIOUS
  <1>. HIDE DEF F2, S2, L
  <1>8. \A k \in 1 .. L + 1 : k \in 1 .. L \/ k = L + 1 BY ONLY <1>2
  <1>9. \A k \in 1 .. L : k < L + 1 /\ (k = L \/ k < L) BY ONLY <1>2
  <1>10. FunsFit(F2, S2, n2)
    <2>1. ASSUME NEW k \in 1 .. L + 1
          PROVE  /\ Fits(F2[k].locals, S2[k], F2[k].depth, n2) /\ Apart(F2[k].locals)
                 /\ F2[k].depth <= MaxDepth[k] /\ (k > 1 => F2[k].depth > 0)
                 /\ k < L + 1 => Len(S2[k]) = Len(F2[k].locals)
      <3>1. CASE k = L + 1
        <4>1. F2[k].locals = ls2 /\ F2[k].depth = d2 /\ S2[k] = s2 /\ d2 <= MaxDepth[k] /\ d2 > 0
          BY <3>1, <1>3, <1>4, <1>5, <1>7
        <4>2. ~(k < L + 1) BY ONLY <3>1, <1>2
        <4>. QED BY <4>1, <4>2
      <3>2. CASE k \in 1 .. L
        <4>1. F2[k] = F[k] /\ S2[k] = S[k] BY <3>2, <1>4, <1>5
        <4>2. /\ Fits(F[k].locals, S[k], F[k].depth, n) /\ F[k].depth \in Nat
              /\ Apart(F[k].locals)
              /\ F[k].depth <= MaxDepth[k] /\ (k > 1 => F[k].depth > 0)
              /\ k < L => Len(S[k]) = Len(F[k].locals)
          BY <3>2, LayoutFacts DEF L
        <4>3. Fits(F[k].locals, S[k], F[k].depth, n2) 
          BY ONLY <4>2, <1>1, FitsMore, n <= n2, n2 \in Nat
        <4>4. Len(S[k]) = Len(F[k].locals) BY <3>2, <4>2, <1>7, <1>9
        <4>. QED BY <4>1, <4>2, <4>3, <4>4
      <3>. QED BY <3>1, <3>2, <1>8
    <2>. QED BY <2>1, <1>4 DEF FunsFit
  <1>11. InnerLater(S2)
    <2>1. ASSUME NEW k \in 1 .. L + 1, NEW m \in 1 .. L + 1, k < m,
                 NEW i \in 1 .. Len(S2[k]), NEW h \in 2 .. Len(S2[m])
          PROVE  S2[k][i] < S2[m][h]
      <3>1. k \in 1 .. L BY ONLY <1>2, k \in 1 .. L + 1, m \in 1 .. L + 1, k < m
      <3>2. S2[k] = S[k] BY <3>1, <1>5
      <3>3. CASE m = L + 1
        <4>1. S2[m] = s2 BY <3>3, <1>5
        <4>2. S[k][i] \in 0 .. n BY <3>1, <3>2, SlotsBelow DEF L
        <4>3. s2[h] > n BY <4>1
        <4>4. s2[h] \in Nat
          <5>1. h \in 2 .. Len(s2) /\ Len(s2) \in Nat BY <4>1, <1>3, LenProperties
          <5>2. h \in 1 .. Len(s2) BY ONLY <5>1
          <5>. QED BY <5>2, <1>3, ElementOfSeq
        <4>5. n \in Nat BY <1>1
        <4>6. S[k][i] < s2[h] BY ONLY <4>2, <4>3, <4>4, <4>5
        <4>. QED BY <3>2, <4>1, <4>6
      <3>4. CASE m \in 1 .. L
        <4>1. S2[m] = S[m] BY <3>4, <1>5
        <4>2. \A a \in 1 .. Len(S[k]), b \in 2 .. Len(S[m]) : S[k][a] < S[m][b]
          BY <2>1, <3>1, <3>4, <1>1 DEF Layout, InnerLater
        <4>. QED BY <3>2, <4>1, <4>2
      <3>. QED BY <3>3, <3>4, <1>8
    <2>. QED BY <2>1, <1>5 DEF InnerLater
  <1>12. InScope(F2, S2, E2)
    <2>1. ASSUME NEW b
          PROVE  b \in E2 <=> \E k \in 1 .. L + 1 : b \in Bound(k, F2[k].locals, S2[k])
      <3>1. b \in E <=> \E k \in 1 .. L : b \in Bound(k, F[k].locals, S[k])
        BY DEF Layout, InScope, L
      <3>2. b \in E2 <=> b \in E \/ b \in Bound(L + 1, ls2, s2) BY DEF L
      <3>3. \A k \in 1 .. L : F2[k] = F[k] /\ S2[k] = S[k] BY <1>4, <1>5
      <3>4. F2[L + 1].locals = ls2 /\ S2[L + 1] = s2 BY <1>3, <1>4, <1>5
      <3>5. L + 1 \in 1 .. L + 1 /\ \A k \in 1 .. L : k \in 1 .. L + 1 BY ONLY <1>2
      <3>. QED BY <3>1, <3>2, <3>3, <3>4, <3>5, <1>8
    <2>. QED BY <2>1, <1>4 DEF InScope
  <1>. QED BY <1>1, <1>4, <1>5, <1>6, <1>10, <1>11, <1>12 DEF Layout, F2, S2, f2

(* The last function ends.                                                 *)
LEMMA LayoutEnded ==
  ASSUME NEW F, NEW S, NEW E, NEW n, Layout(F, S, E, n), Len(F) > 1
  PROVE  Layout(Front(F), Front(S), {b \in E : b.level < Len(F)}, n)
  <1>. DEFINE F2 == Front(F)
              S2 == Front(S)
              L  == Len(F)
              E2 == {b \in E : b.level < L}
  <1>1. /\ F \in Seq(FunType) /\ F # <<>> /\ L <= Len(MaxDepth)
        /\ S \in Seq(Seq(Nat)) /\ Len(S) = L /\ n \in Nat
    BY DEF Layout
  <1>2. L \in Nat \ {0, 1} BY LayoutFacts
  <1>3. F2 \in Seq(FunType) /\ Len(F2) = L - 1 /\ \A k \in 1 .. L - 1 : F2[k] = F[k]
    BY <1>1, Ends
  <1>4. S # <<>> BY <1>1, <1>2, EmptySeq
  <1>5. S2 \in Seq(Seq(Nat)) /\ Len(S2) = L - 1 /\ \A k \in 1 .. L - 1 : S2[k] = S[k]
    BY <1>1, <1>4, Ends
  <1>6. F2 # <<>> BY <1>2, <1>3, EmptySeq
  <1>7. L - 1 <= Len(MaxDepth) BY <1>1, <1>2
  <1>. HIDE DEF F2, S2
  <1>8. \A k \in 1 .. L - 1 : k \in 1 .. L /\ k < L BY ONLY <1>2
  <1>9. FunsFit(F2, S2, n)
    <2>1. ASSUME NEW k \in 1 .. L - 1
          PROVE  /\ Fits(F2[k].locals, S2[k], F2[k].depth, n) /\ Apart(F2[k].locals)
                 /\ F2[k].depth <= MaxDepth[k] /\ (k > 1 => F2[k].depth > 0)
                 /\ k < L - 1 => Len(S2[k]) = Len(F2[k].locals)
      <3>1. F2[k] = F[k] /\ S2[k] = S[k] /\ k \in 1 .. L /\ k < L BY <1>3, <1>5, <1>8
      <3>. QED BY <3>1, LayoutFacts
    <2>. QED BY <2>1, <1>3 DEF FunsFit
  <1>10. InnerLater(S2) BY <1>1, <1>5, <1>8 DEF Layout, InnerLater
  <1>11. InScope(F2, S2, E2)
    <2>1. ASSUME NEW b
          PROVE  b \in E2 <=> \E k \in 1 .. L - 1 : b \in Bound(k, F2[k].locals, S2[k])
      <3>1. b \in E <=> \E k \in 1 .. L : b \in Bound(k, F[k].locals, S[k])
        BY DEF Layout, InScope
      <3>2. \A k \in 1 .. L : b \in Bound(k, F[k].locals, S[k]) => b.level = k BY DEF Bound
      <3>3. \A k \in 1 .. L - 1 : F2[k] = F[k] /\ S2[k] = S[k] BY <1>3, <1>5
      <3>4. \A k \in 1 .. L : k < L => k \in 1 .. L - 1 BY ONLY <1>2
      <3>5. b \in E2 <=> b \in E /\ b.level < L OBVIOUS
      <3>. HIDE DEF E2, L
      <3>6. ASSUME b \in E, b.level < L
            PROVE  \E k \in 1 .. L - 1 : b \in Bound(k, F2[k].locals, S2[k])
        <4>1. PICK k \in 1 .. L : b \in Bound(k, F[k].locals, S[k]) BY <3>1, <3>6
        <4>2. k \in 1 .. L - 1 BY <3>2, <3>4, <3>6, <4>1
        <4>. QED BY <3>3, <4>1, <4>2
      <3>7. ASSUME NEW k \in 1 .. L - 1, b \in Bound(k, F2[k].locals, S2[k])
            PROVE  b \in E /\ b.level < L
        <4>1. k \in 1 .. L /\ k < L BY <1>8
        <4>2. b \in Bound(k, F[k].locals, S[k]) BY <3>3, <3>7
        <4>. QED BY <3>1, <3>2, <4>1, <4>2
      <3>. QED BY <3>5, <3>6, <3>7
    <2>. QED BY <2>1, <1>3 DEF InScope
  <1>12. Len(F2) <= Len(MaxDepth) /\ Len(S2) = Len(F2) BY <1>3, <1>5, <1>7
  <1>. QED BY <1>1, <1>3, <1>5, <1>6, <1>9, <1>10, <1>11, <1>12 DEF Layout, F2, S2

(* The bindings of one function.                                           *)
LEMMA InScopeAt ==
  ASSUME NEW F, NEW S, NEW E, NEW n, Layout(F, S, E, n), NEW k \in 1 .. Len(F), NEW b
  PROVE  b \in Bound(k, F[k].locals, S[k]) <=> b \in E /\ b.level = k
  <1>1. b \in E <=> \E m \in 1 .. Len(F) : b \in Bound(m, F[m].locals, S[m])
    BY DEF Layout, InScope
  <1>2. \A m \in 1 .. Len(F) : b \in Bound(m, F[m].locals, S[m]) => b.level = m BY DEF Bound
  <1>. QED BY <1>1, <1>2

(* The bindings that are new when variables get the next slots.            *)
LEMMA BoundGrown ==
  ASSUME NEW ls, NEW s, NEW ls2, NEW s2, NEW ns, NEW n, NEW d, Grows(ls, s, ls2, s2, ns, n, d),
         Len(s) \in Nat \ {0}, NEW k
  PROVE  Bound(k, ls2, s2) = Bound(k, ls, s) \cup Bindings(ns, n, k, d)
  <1>. DEFINE B(l, t, i) == [name |-> l[i].name, level |-> k, depth |-> l[i].depth, var |-> t[i]]
              N(i) == [name |-> ns[i], level |-> k, depth |-> d, var |-> n + i]
              h == Len(s)
              m == Len(ns)
  <1>0. h \in Nat \ {0} /\ m \in Nat /\ DOMAIN ns = 1 .. m /\ Len(s2) = h + m
    BY LenProperties DEF Grows
  <1>1. /\ Bound(k, ls2, s2) = {B(ls2, s2, i) : i \in 2 .. h + m}
        /\ Bound(k, ls, s) = {B(ls, s, i) : i \in 2 .. h}
        /\ Bindings(ns, n, k, d) = {N(i) : i \in 1 .. m}
    BY <1>0 DEF Bound, Bindings
  <1>2. \A i \in 2 .. h : i \in 1 .. h /\ i \in 2 .. h + m BY ONLY <1>0
  <1>3. \A i \in 1 .. m : h + i \in 2 .. h + m BY ONLY <1>0
  <1>4. \A i \in 2 .. h + m : i \in 2 .. h \/ (i - h \in 1 .. m /\ h + (i - h) = i)
    BY ONLY <1>0
  <1>5. \A i \in 2 .. h : B(ls2, s2, i) = B(ls, s, i) BY <1>2 DEF Grows
  <1>6. \A i \in 1 .. m : B(ls2, s2, h + i) = N(i) BY DEF Grows
  <1>. HIDE DEF B, N, h, m
  <1>7. \A i \in 2 .. h + m :
          B(ls2, s2, i) \in {B(ls, s, j) : j \in 2 .. h} \cup {N(j) : j \in 1 .. m}
    <2>1. ASSUME NEW i \in 2 .. h + m
          PROVE  B(ls2, s2, i) \in {B(ls, s, j) : j \in 2 .. h} \cup {N(j) : j \in 1 .. m}
      <3>1. CASE i \in 2 .. h BY <3>1, <1>5
      <3>2. CASE i - h \in 1 .. m /\ h + (i - h) = i
        <4>1. B(ls2, s2, i) = N(i - h) BY <3>2, <1>6
        <4>. QED BY <3>2, <4>1
      <3>. QED BY <3>1, <3>2, <1>4
    <2>. QED BY <2>1
  <1>8. \A i \in 2 .. h : B(ls, s, i) \in {B(ls2, s2, j) : j \in 2 .. h + m} BY <1>2, <1>5
  <1>9. \A i \in 1 .. m : N(i) \in {B(ls2, s2, j) : j \in 2 .. h + m} BY <1>3, <1>6
  <1>. QED BY <1>1, <1>7, <1>8, <1>9

(* The current function has new variables in the next slots.               *)
LEMMA LayoutGrown ==
  ASSUME NEW F, NEW S, NEW E, NEW n, Layout(F, S, E, n), NEW d, d = F[Len(F)].depth, d > 0,
         NEW ls2, NEW s2, NEW ns, Grows(F[Len(F)].locals, S[Len(F)], ls2, s2, ns, n, d)
  PROVE  /\ Layout([F EXCEPT ![Len(F)] = [locals |-> ls2, depth |-> d]],
                   [S EXCEPT ![Len(F)] = s2], E \cup Bindings(ns, n, Len(F), d), n + Len(ns))
         /\ n + Len(ns) \in Nat /\ n <= n + Len(ns)
  <1>. DEFINE j  == Len(F)
              ls == F[j].locals
              s  == S[j]
              E2 == E \cup Bindings(ns, n, j, d)
  <1>1. /\ j \in 1 .. Len(F) /\ F[j].depth \in Nat /\ n \in Nat /\ Fits(ls, s, F[j].depth, n)
        /\ Apart(ls) /\ F[j].depth <= MaxDepth[j] /\ ~(j < Len(F))
    BY LayoutFacts
  <1>2. d \in Nat \ {0} /\ d <= MaxDepth[j] /\ Fits(ls, s, d, n) BY <1>1
  <1>3. Len(s) \in Nat \ {0}
    <2>1. Len(ls) \in Nat /\ Len(s) \in 1 .. Len(ls) BY <1>1, FitsFacts
    <2>. QED BY ONLY <2>1
  <1>4. Grows(ls, s, ls2, s2, ns, n, d) OBVIOUS
  <1>. HIDE DEF ls, s, j
  <1>5. Fits(ls2, s2, d, n + Len(ns)) /\ Apart(ls2) /\ \A i \in Len(s) + 1 .. Len(s2) : s2[i] > n
    BY <1>1, <1>2, <1>4, FitsGrown
  <1>6. Len(ns) \in Nat /\ Len(s2) = Len(s) + Len(ns) BY LenProperties DEF Grows, s, j
  <1>7. \A i \in 2 .. Len(s2) : s2[i] > n \/ (i \in 2 .. Len(s) /\ s2[i] = s[i])
    <2>1. \A i \in 2 .. Len(s2) : i \in Len(s) + 1 .. Len(s2) \/ (i \in 2 .. Len(s) /\ i \in 1 .. Len(s))
      BY ONLY <1>3, <1>6
    <2>2. \A i \in 1 .. Len(s) : s2[i] = s[i] BY <1>4 DEF Grows
    <2>. QED BY <2>1, <2>2, <1>5
  <1>8. Bound(j, ls2, s2) = Bound(j, ls, s) \cup Bindings(ns, n, j, d) BY <1>3, <1>4, BoundGrown
  <1>9. \A b : b \in E2 <=> (b \in E /\ b.level # j) \/ b \in Bound(j, ls2, s2)
    <2>1. \A b : b \in Bound(j, ls, s) <=> b \in E /\ b.level = j
      BY <1>1, InScopeAt DEF ls, s
    <2>. QED BY <2>1, <1>8
  <1>10. n + Len(ns) \in Nat /\ n <= n + Len(ns) /\ (j > 1 => d > 0) BY <1>1, <1>2, <1>6
  <1>. QED BY <1>1, <1>2, <1>5, <1>7, <1>9, <1>10, LayoutChanged DEF j, s
----------------------------------------------------------------------------
(* The current function and its locals that are not initialised yet.       *)
LEMMA Current ==
  ASSUME SInv
  PROVE  LET ls == Fun.locals
             s  == slots[Level]
         IN  /\ Level = Len(fs) /\ Level \in Nat \ {0} /\ Level \in 1 .. Len(fs)
             /\ Fun = fs[Level] /\ Fun \in FunType /\ Fun.depth \in Nat /\ decls \in Nat
             /\ ls \in Seq(LocalType) /\ s \in Seq(Nat) /\ Len(slots) = Level
             /\ Fits(ls, s, Fun.depth, decls) /\ Apart(ls)
             /\ Fun.depth <= MaxDepth[Level] /\ (Level > 1 => Fun.depth > 0)
             /\ Len(ls) \in Nat \ {0} /\ Len(s) \in 1 .. Len(ls) /\ DOMAIN ls = 1 .. Len(ls)
             /\ Pending = Len(s) + 1 .. Len(ls) /\ Cardinality(Pending) = Len(ls) - Len(s)
             /\ Pending = {} => Len(s) = Len(ls)
             /\ Pending # {} => Fun.depth > 0
  <1>. DEFINE ls == Fun.locals
              s  == slots[Level]
  <1>1. /\ Level = Len(fs) /\ Level \in Nat \ {0} /\ Level \in 1 .. Len(fs)
        /\ Fun = fs[Level] /\ Fun \in FunType /\ Fun.depth \in Nat /\ decls \in Nat
        /\ ls \in Seq(LocalType) /\ s \in Seq(Nat) /\ Len(slots) = Level
        /\ Fits(ls, s, Fun.depth, decls) /\ Apart(ls)
        /\ Fun.depth <= MaxDepth[Level] /\ (Level > 1 => Fun.depth > 0)
    BY LayoutFacts DEF SInv, Level, Fun
  <1>2. /\ Len(ls) \in Nat \ {0} /\ Len(s) \in 1 .. Len(ls) /\ DOMAIN ls = 1 .. Len(ls)
        /\ \A i \in 1 .. Len(s) : ls[i].depth \in 0 .. Fun.depth
    BY <1>1, FitsFacts
  <1>3. /\ \A i \in Len(s) + 1 .. Len(ls) : ls[i].depth = -1
        /\ Len(s) # Len(ls) => Fun.depth > 0
    BY <1>1 DEF Fits
  <1>4. Pending = {i \in 1 .. Len(ls) : ls[i].depth = -1} BY <1>2 DEF Pending
  <1>. HIDE DEF ls, s
  <1>5. Len(ls) \in Nat /\ Len(s) \in Nat /\ Len(s) <= Len(ls) BY <1>2
  <1>6. \A i \in 1 .. Len(ls) : i \in Len(s) + 1 .. Len(ls) \/ i \in 1 .. Len(s) BY ONLY <1>5
  <1>7. \A i \in Len(s) + 1 .. Len(ls) : i \in 1 .. Len(ls) BY ONLY <1>5
  <1>8. \A i \in 1 .. Len(s) : ls[i].depth # -1
    <2>1. \A i \in 0 .. Fun.depth : i # -1 BY <1>1
    <2>. QED BY <2>1, <1>2
  <1>9. Pending = Len(s) + 1 .. Len(ls) BY <1>3, <1>4, <1>6, <1>7, <1>8
  <1>10. Cardinality(Pending) = Len(ls) - Len(s)
    <2>1. Cardinality(Len(s) + 1 .. Len(ls)) =
            IF Len(s) + 1 > Len(ls) THEN 0 ELSE Len(ls) - (Len(s) + 1) + 1
      <3>1. Len(s) + 1 \in Int /\ Len(ls) \in Int BY ONLY <1>5
      <3>. QED BY ONLY <3>1, FS_Interval
    <2>. QED BY <2>1, <1>5, <1>9
  <1>11. (Pending = {} => Len(s) = Len(ls)) /\ (Pending # {} => Len(s) # Len(ls))
    <2>1. Len(s) # Len(ls) => Len(ls) \in Len(s) + 1 .. Len(ls) BY ONLY <1>5
    <2>2. Len(s) = Len(ls) => ~ \E i : i \in Len(s) + 1 .. Len(ls) BY ONLY <1>5
    <2>. QED BY <2>1, <2>2, <1>9
  <1>. QED BY <1>1, <1>2, <1>3, <1>9, <1>10, <1>11 DEF ls, s

(* A function with other locals or another depth.                          *)
LEMMA FunExcept ==
  ASSUME NEW f \in FunType, NEW ls, NEW d
  PROVE  /\ [f EXCEPT !.locals = ls] = [locals |-> ls, depth |-> f.depth]
         /\ [f EXCEPT !.depth = d] = [locals |-> f.locals, depth |-> d]
  <1>. QED BY DEF FunType

(* One list of declarations, and one scope more.                           *)
LEMMA DeclareLayout ==
  ASSUME SInv, NEW n \in Names, Declare(n)
  PROVE  SInv' /\ \E ls2, s2, d2 : Retains(ls2, s2, d2)
  <1>. DEFINE s == slots[Level]
  <1>1. Layout(fs, slots, env, decls) BY DEF SInv
  <1>2. Fun.depth \in Nat \ {0} /\ decls \in Nat BY Current DEF Declare
  <1>. DEFINE l   == Local(n, -1)
              ls2 == Append(Fun.locals, l)
  <1>3. l \in LocalType /\ l.name \in Names /\ l.depth = -1 /\ ~l.captured
    BY DEF Local, LocalType
  <1>. HIDE DEF l
  <1>4. Fits(ls2, s, Fun.depth, decls) /\ Apart(ls2)
    <2>1. Fits(Fun.locals, s, Fun.depth, decls) /\ Apart(Fun.locals) BY Current
    <2>. QED BY <1>2, <1>3, <2>1, FitsDeclared
  <1>5. /\ \A i \in 2 .. Len(s) : ls2[i] = Fun.locals[i]
        /\ \A i \in 1 .. Len(s) : ls2[i] = Fun.locals[i] /\ Len(s) \in Nat
    <2>1. Fun.locals \in Seq(LocalType) /\ Len(s) \in 1 .. Len(Fun.locals) /\ Len(Fun.locals) \in Nat
      BY Current
    <2>2. \A i \in 1 .. Len(Fun.locals) : ls2[i] = Fun.locals[i] BY <2>1, <1>3, AppendProperties
    <2>3. \A i \in 2 .. Len(s) : i \in 1 .. Len(Fun.locals) BY ONLY <2>1
    <2>4. \A i \in 1 .. Len(s) : i \in 1 .. Len(Fun.locals) BY ONLY <2>1
    <2>. QED BY <2>1, <2>2, <2>3, <2>4
  <1>6. Level \in 1 .. Len(fs) /\ ~(Level < Len(fs)) /\ Fun.depth <= MaxDepth[Level]
    BY Current
  <1>7. Bound(Level, ls2, s) = Bound(Level, Fun.locals, s)
    <2>. QED BY <1>5 DEF Bound
  <1>8. \A b : b \in env <=> (b \in env /\ b.level # Level) \/ b \in Bound(Level, ls2, s)
    <2>1. \A b : b \in Bound(Level, Fun.locals, s) <=> b \in env /\ b.level = Level
      BY <1>1, <1>6, InScopeAt, Current
    <2>. QED BY <2>1, <1>7
  <1>. HIDE DEF ls2
  <1>9. Layout([fs EXCEPT ![Level] = [locals |-> ls2, depth |-> Fun.depth]],
               [slots EXCEPT ![Level] = s], env, decls)
    <2>1. \A i \in 2 .. Len(s) : s[i] > decls \/ (i \in 2 .. Len(s) /\ s[i] = s[i]) OBVIOUS
    <2>2. decls <= decls /\ (Level > 1 => Fun.depth > 0) BY <1>2
    <2>3. Fun.depth \in Nat BY <1>2
    <2>. QED BY <1>1, <1>2, <1>4, <1>6, <1>8, <2>1, <2>2, <2>3, LayoutChanged
  <1>10. fs' = [fs EXCEPT ![Level] = [locals |-> ls2, depth |-> Fun.depth]]
    BY Current, FunExcept DEF Declare, SetFun, ls2, l
  <1>11. [slots EXCEPT ![Level] = s] = slots BY <1>1 DEF Layout
  <1>12. Retains(ls2, s, Fun.depth)
    <2>1. slots' = slots BY DEF Declare
    <2>2. Len(s) <= Len(s)
      <3>1. Len(s) \in Nat BY Current
      <3>. QED BY ONLY <3>1
    <2>. QED BY <1>5, <1>10, <1>11, <2>1, <2>2 DEF Retains, Becomes
  <1>. QED BY <1>9, <1>10, <1>11, <1>12 DEF SInv, Declare

(* startscope changes the depth alone.                                   *)
LEMMA ScopeLayout ==
  ASSUME SInv, StartScope
  PROVE  SInv' /\ \E ls2, s2, d2 : Retains(ls2, s2, d2)
  <1>. DEFINE ls == Fun.locals
              s  == slots[Level]
              d2 == Fun.depth + 1
  <1>1. Layout(fs, slots, env, decls) BY DEF SInv
  <1>2. /\ Fun.depth \in Nat /\ decls \in Nat /\ Fits(ls, s, Fun.depth, decls) /\ Apart(ls)
        /\ Level \in 1 .. Len(fs) /\ Level = Len(fs) /\ Fun = fs[Level] /\ Level \in Nat
        /\ Fun \in FunType
    BY Current
  <1>3. d2 \in Nat /\ Fun.depth <= d2 /\ decls <= decls /\ d2 > 0 /\ ~(Level < Len(fs))
    BY <1>2
  <1>4. d2 <= MaxDepth[Level]
    <2>1. MaxDepth \in Seq(Nat) /\ Len(fs) <= Len(MaxDepth)
      BY <1>1, ScopesAssumption DEF Layout
    <2>2. Level \in 1 .. Len(MaxDepth) BY <2>1, <1>2, LenProperties
    <2>3. MaxDepth[Level] \in Nat BY <2>1, <2>2, ElementOfSeq
    <2>. QED BY <2>3, <1>2 DEF StartScope
  <1>5. \A b : b \in env <=> (b \in env /\ b.level # Level) \/ b \in Bound(Level, ls, s)
    <2>1. \A b : b \in Bound(Level, ls, s) <=> b \in env /\ b.level = Level
      BY <1>1, <1>2, InScopeAt
    <2>. QED BY <2>1
  <1>6. Fits(ls, s, d2, decls) BY <1>2, <1>3, FitsMore
  <1>. HIDE DEF ls, d2
  <1>7. Layout([fs EXCEPT ![Level] = [locals |-> ls, depth |-> d2]],
               [slots EXCEPT ![Level] = s], env, decls)
    <2>1. \A i \in 2 .. Len(s) : s[i] > decls \/ (i \in 2 .. Len(s) /\ s[i] = s[i]) OBVIOUS
    <2>. QED BY <1>1, <1>2, <1>3, <1>4, <1>5, <1>6, <2>1, LayoutChanged
  <1>8. fs' = [fs EXCEPT ![Level] = [locals |-> ls, depth |-> d2]]
    BY <1>2, FunExcept DEF StartScope, SetFun, ls, d2
  <1>9. [slots EXCEPT ![Level] = s] = slots BY <1>1 DEF Layout
  <1>10. Retains(ls, s, d2)
    <2>1. slots' = slots BY DEF StartScope
    <2>2. Len(s) <= Len(s)
      <3>1. Len(s) \in Nat BY Current
      <3>. QED BY ONLY <3>1
    <2>. QED BY <1>8, <1>9, <2>1, <2>2 DEF Retains, Becomes, ls
  <1>. QED BY <1>7, <1>8, <1>9, <1>10 DEF SInv, StartScope

(* The end of a scope: without neighbours that are captured, endscope pops *)
(* or closes every local of the scope.                                     *)
LEMMA AllClosed ==
  ASSUME NEW ls \in Seq(LocalType), Apart(ls), NEW k \in 1 .. Len(ls)
  PROVE  Unclosed(ls, k) = 0 /\ Kept(ls, k) = k
  <1>. DEFINE B == BottomRun(ls, k)
              h == Len(ls)
  <1>1. h \in Nat BY LenProperties
  <1>2. \A i \in 1 .. h - 1 : ~(ls[i].captured /\ ls[i + 1].captured) BY DEF Apart
  <1>3. B = {j \in k + 1 .. h : \A i \in k + 1 .. j : ls[i].captured} BY DEF BottomRun
  <1>. HIDE DEF B, h
  <1>4. ASSUME NEW j \in B PROVE j = k + 1
    <2>1. j \in k + 1 .. h /\ \A i \in k + 1 .. j : ls[i].captured BY <1>3
    <2>2. CASE j # k + 1
      <3>1. /\ k + 1 \in k + 1 .. j /\ k + 1 + 1 \in k + 1 .. j /\ k + 1 \in 1 .. h - 1
        BY ONLY <2>1, <2>2, <1>1, k \in 1 .. h
      <3>2. ls[k + 1].captured /\ ls[k + 1 + 1].captured BY <2>1, <3>1
      <3>. QED BY <3>1, <3>2, <1>2
    <2>. QED BY <2>2
  <1>5. CASE k + 1 \in B
    <2>1. B = {k + 1} BY <1>4, <1>5
    <2>2. Cardinality(B) = 1 BY <2>1, FS_Singleton
    <2>3. k + 1 \in k + 1 .. h /\ \A i \in k + 1 .. k + 1 : ls[i].captured BY <1>3, <1>5
    <2>4. k \in 1 .. h - 1 /\ k + 1 \in k + 1 .. k + 1 BY ONLY <2>3, <1>1, k \in 1 .. h
    <2>5. ~ls[k].captured BY <2>3, <2>4, <1>2
    <2>. QED BY <2>2, <2>5 DEF Unclosed, Kept, B
  <1>6. CASE k + 1 \notin B
    <2>1. B = {} BY <1>4, <1>6
    <2>2. Cardinality(B) = 0 BY <2>1, FS_EmptySet
    <2>. QED BY <2>2 DEF Unclosed, Kept, B
  <1>. QED BY <1>5, <1>6 DEF h

(* The locals around the scope come first.                                 *)
LEMMA AroundFirst ==
  ASSUME NEW ls, NEW s, NEW d \in Nat \ {0}, NEW n \in Nat, Fits(ls, s, d, n), Len(s) = Len(ls)
  PROVE  LET k == Cardinality({i \in DOMAIN ls : ls[i].depth < d})
         IN  k \in 1 .. Len(ls) /\ \A i \in 1 .. Len(ls) : ls[i].depth < d <=> i <= k
  <1>. DEFINE A == {i \in DOMAIN ls : ls[i].depth < d}
              k == Cardinality(A)
              h == Len(ls)
  <1>1. /\ h \in Nat \ {0} /\ DOMAIN ls = 1 .. h /\ ls[1].depth = 0
        /\ \A i \in 1 .. h : ls[i].depth \in 0 .. d
    BY FitsFacts
  <1>2. \A i, j \in 2 .. h : i < j => ls[i].depth <= ls[j].depth BY DEF Fits
  <1>3. A = {i \in 1 .. h : ls[i].depth < d} BY <1>1
  <1>. HIDE DEF A, h
  <1>4. ASSUME NEW i \in A, NEW j \in 1 .. h, j < i PROVE j \in A
    <2>1. i \in 1 .. h /\ ls[i].depth < d BY <1>3
    <2>2. CASE j = 1
      <3>1. 0 < d OBVIOUS
      <3>. QED BY <2>2, <3>1, <1>1, <1>3
    <2>3. CASE j # 1
      <3>1. j \in 2 .. h /\ i \in 2 .. h BY ONLY <2>1, <2>3, <1>1, <1>4, j \in 1 .. h
      <3>2. ls[j].depth <= ls[i].depth BY <3>1, <1>2, <1>4
      <3>3. ls[j].depth \in 0 .. d /\ ls[i].depth \in 0 .. d BY <2>1, <1>1
      <3>4. ls[j].depth < d BY ONLY <2>1, <3>2, <3>3, d \in Nat \ {0}
      <3>. QED BY <3>4, <1>3
    <2>. QED BY <2>2, <2>3
  <1>5. k \in 0 .. h /\ A = 1 .. k
    <2>1. h \in Nat /\ A \subseteq 1 .. h BY <1>1, <1>3
    <2>. HIDE DEF k
    <2>2. Cardinality(A) \in 0 .. h /\ A = 1 .. Cardinality(A) BY <2>1, <1>4, InitialSegment
    <2>. QED BY <2>2 DEF k
  <1>. HIDE DEF k
  <1>6. 1 \in A
    <2>1. 1 \in 1 .. h /\ 0 < d BY <1>1
    <2>. QED BY <2>1, <1>1, <1>3
  <1>7. k \in 1 .. h BY <1>5, <1>6
  <1>8. \A i \in 1 .. h : ls[i].depth < d <=> i <= k
    <2>1. \A i \in 1 .. h : i \in 1 .. k <=> i <= k BY ONLY <1>1, <1>7
    <2>. QED BY <2>1, <1>3, <1>5
  <1>. QED BY <1>7, <1>8 DEF k, A, h

(* endscope: the slots that are left belong to the locals that are left. *)
LEMMA EndLayout ==
  ASSUME SInv, EndScope
  PROVE  SInv' /\ \E ls2, s2, d2 : Retains(ls2, s2, d2)
  <1>. DEFINE ls == Fun.locals
              s  == slots[Level]
              d  == Fun.depth
              k  == Cardinality({i \in DOMAIN ls : ls[i].depth < d})
              ls2 == SubSeq(ls, 1, k)
              s2  == SubSeq(s, 1, k)
              E2  == {b \in env : b.level < Level \/ b.depth < d}
  <1>1. Layout(fs, slots, env, decls) BY DEF SInv
  <1>2. /\ Level \in 1 .. Len(fs) /\ Level = Len(fs) /\ Level \in Nat \ {0} /\ Fun = fs[Level]
        /\ Fits(ls, s, d, decls) /\ Apart(ls) /\ ls \in Seq(LocalType) /\ decls \in Nat
        /\ Len(s) = Len(ls) /\ d \in Nat /\ d <= MaxDepth[Level] /\ Fun \in FunType
        /\ Len(ls) \in Nat
    BY Current DEF EndScope
  <1>3. d \in Nat \ {0} /\ d - 1 \in Nat /\ (Level > 1 => d - 1 > 0)
    <2>1. d > (IF Level = 1 THEN 0 ELSE 1) BY DEF EndScope
    <2>2. d \in Nat /\ Level \in Nat \ {0} BY <1>2
    <2>. HIDE DEF d
    <2>. QED BY ONLY <2>1, <2>2
  <1>4. k \in 1 .. Len(ls) /\ \A i \in 1 .. Len(ls) : ls[i].depth < d <=> i <= k
    BY <1>2, <1>3, AroundFirst
  <1>5. Unclosed(ls, k) = 0 /\ Kept(ls, k) = k BY <1>2, <1>4, AllClosed
  <1>6. /\ fs' = [fs EXCEPT ![Level] = [locals |-> ls2, depth |-> d - 1]]
        /\ slots' = [slots EXCEPT ![Level] = s2]
        /\ env' = E2 /\ decls' = decls
    <2>1. /\ fs' = [fs EXCEPT ![Level] = [locals |-> SubSeq(ls, 1, Kept(ls, k)), depth |-> d - 1]]
          /\ slots' = [slots EXCEPT ![Level] =
                          SubSeq(@, 1, Len(@) - (Len(ls) - k - Unclosed(ls, k)))]
          /\ env' = E2 /\ decls' = decls
      BY DEF EndScope, SetFun
    <2>. HIDE DEF ls, k, E2, d
    <2>2. Len(s) - (Len(ls) - k - Unclosed(ls, k)) = k
      <3>1. Len(s) = Len(ls) /\ Len(ls) \in Nat /\ k \in 1 .. Len(ls) /\ Unclosed(ls, k) = 0
        BY <1>2, <1>4, <1>5
      <3>. QED BY ONLY <3>1
    <2>3. [slots EXCEPT ![Level] = SubSeq(@, 1, Len(@) - (Len(ls) - k - Unclosed(ls, k)))]
            = [slots EXCEPT ![Level] = SubSeq(s, 1, k)]
      BY <2>2
    <2>. QED BY <2>1, <2>3, <1>5
  <1>. HIDE DEF k
  <1>7. k \in 1 .. Len(s) /\ k \in Nat /\ \A i \in 1 .. k : i \in 1 .. Len(ls) /\ i <= k
    <2>1. k \in 1 .. Len(ls) /\ Len(s) = Len(ls) /\ Len(ls) \in Nat BY <1>2, <1>4
    <2>. QED BY ONLY <2>1
  <1>8. \A i \in 1 .. k : ls[i].depth <= d - 1
    <2>1. ASSUME NEW i \in 1 .. k PROVE ls[i].depth <= d - 1
      <3>1. ls[i].depth < d BY <1>4, <1>7
      <3>2. ls[i].depth \in 0 .. d
        <4>1. i \in 1 .. Len(s) BY <1>7, <1>2
        <4>. QED BY <4>1, <1>2, FitsFacts
      <3>. QED BY ONLY <3>1, <3>2, <1>3
    <2>. QED BY <2>1
  <1>9. /\ Fits(ls2, s2, d - 1, decls) /\ Apart(ls2) /\ Len(ls2) = k /\ Len(s2) = k
        /\ \A i \in 1 .. k : ls2[i] = ls[i] /\ s2[i] = s[i]
    <2>1. Fits(ls2, s2, d - 1, decls) /\ Apart(ls2) BY <1>2, <1>3, <1>7, <1>8, FitsTrimmed
    <2>2. k \in 0 .. Len(ls) /\ k \in 0 .. Len(s)
      <3>1. k \in 1 .. Len(s) /\ Len(s) = Len(ls) BY <1>2, <1>7
      <3>. QED BY <3>1
    <2>3. Len(ls2) = k /\ \A i \in 1 .. k : ls2[i] = ls[i] BY <1>2, <2>2, Prefix
    <2>4. s \in Seq(Nat) BY Current
    <2>5. Len(s2) = k /\ \A i \in 1 .. k : s2[i] = s[i] BY <2>2, <2>4, Prefix
    <2>. QED BY <2>1, <2>3, <2>5
  <1>. HIDE DEF ls2, s2
  <1>10. \A b : b \in Bound(Level, ls2, s2) <=> b \in Bound(Level, ls, s) /\ b.depth < d
    <2>. DEFINE B(l, t, i) == [name |-> l[i].name, level |-> Level, depth |-> l[i].depth, var |-> t[i]]
    <2>1. \A i \in 2 .. k : B(ls2, s2, i) = B(ls, s, i)
      <3>1. \A i \in 2 .. k : i \in 1 .. k BY ONLY <1>7
      <3>. QED BY <3>1, <1>9
    <2>2. \A i \in 2 .. Len(s) : i \in 2 .. k <=> B(ls, s, i).depth < d
      <3>1. \A i \in 2 .. Len(ls) : i \in 1 .. Len(ls) /\ (i \in 2 .. k <=> i <= k)
        <4>1. Len(ls) \in Nat /\ k \in Nat BY <1>2, <1>7
        <4>. QED BY ONLY <4>1
      <3>. QED BY <3>1, <1>2, <1>4
    <2>3. /\ Bound(Level, ls2, s2) = {B(ls2, s2, i) : i \in 2 .. k}
          /\ Bound(Level, ls, s) = {B(ls, s, i) : i \in 2 .. Len(s)}
      BY <1>9 DEF Bound
    <2>4. \A i \in 2 .. k : i \in 2 .. Len(s)
      <3>1. k \in 1 .. Len(s) /\ Len(s) \in Nat BY <1>2, <1>7
      <3>. QED BY ONLY <3>1
    <2>. HIDE DEF B
    <2>. QED BY <2>1, <2>2, <2>3, <2>4
  <1>11. \A b : b \in E2 <=> (b \in env /\ b.level # Level) \/ b \in Bound(Level, ls2, s2)
    <2>1. ASSUME NEW b
          PROVE  b \in E2 <=> (b \in env /\ b.level # Level) \/ b \in Bound(Level, ls2, s2)
      <3>1. b \in Bound(Level, ls, s) <=> b \in env /\ b.level = Level
        BY <1>1, <1>2, InScopeAt
      <3>2. b \in env => b.level \in 1 .. Len(fs)
        <4>1. b \in env <=> \E m \in 1 .. Len(fs) : b \in Bound(m, fs[m].locals, slots[m])
          BY <1>1 DEF Layout, InScope
        <4>. QED BY <4>1 DEF Bound
      <3>3. ASSUME b \in env PROVE b.level < Level <=> b.level # Level
        <4>1. b.level \in 1 .. Level /\ Level \in Nat BY <3>2, <3>3, <1>2
        <4>. QED BY ONLY <4>1
      <3>4. b \in E2 <=> b \in env /\ (b.level < Level \/ b.depth < d) OBVIOUS
      <3>. HIDE DEF E2, d, ls, s
      <3>. QED BY <3>1, <3>3, <3>4, <1>10
    <2>. QED BY <2>1
  <1>12. Layout([fs EXCEPT ![Level] = [locals |-> ls2, depth |-> d - 1]],
                [slots EXCEPT ![Level] = s2], E2, decls)
    <2>1. \A i \in 2 .. Len(s2) : s2[i] > decls \/ (i \in 2 .. Len(s) /\ s2[i] = s[i])
      <3>1. \A i \in 2 .. k : i \in 2 .. Len(s) /\ i \in 1 .. k
        <4>1. k \in 1 .. Len(s) /\ Len(s) \in Nat BY <1>2, <1>7
        <4>. QED BY ONLY <4>1
      <3>. QED BY <3>1, <1>9
    <2>2. decls <= decls /\ d - 1 <= MaxDepth[Level] /\ ~(Level < Len(fs))
      <3>1. d - 1 <= MaxDepth[Level]
        <4>1. MaxDepth \in Seq(Nat) /\ Len(fs) <= Len(MaxDepth)
          BY <1>1, ScopesAssumption DEF Layout
        <4>2. Level \in 1 .. Len(MaxDepth) BY <4>1, <1>2, LenProperties
        <4>3. MaxDepth[Level] \in Nat BY <4>1, <4>2, ElementOfSeq
        <4>4. d \in Nat /\ d <= MaxDepth[Level] BY <1>2
        <4>. HIDE DEF d
        <4>. QED BY ONLY <4>3, <4>4
      <3>. QED BY <3>1, <1>2
    <2>. HIDE DEF d, E2
    <2>. QED BY <1>1, <1>2, <1>3, <1>9, <1>11, <2>1, <2>2, LayoutChanged
  <1>13. Retains(ls2, s2, d - 1)
    <2>1. Len(s2) <= Len(s)
      <3>1. k \in 1 .. Len(s) /\ Len(s) \in Nat BY <1>2, <1>7
      <3>2. k <= Len(s) BY ONLY <3>1
      <3>. QED BY <3>2, <1>9
    <2>. QED BY <1>6, <1>9, <2>1 DEF Retains, Becomes
  <1>. QED BY <1>6, <1>12, <1>13 DEF SInv

(* The end of a function.                                                  *)
LEMMA EndFnLayout ==
  ASSUME SInv, EndFn
  PROVE  SInv'
  <1>1. Layout(Front(fs), Front(slots), {b \in env : b.level < Len(fs)}, decls)
    BY LayoutEnded DEF SInv, EndFn, Level
  <1>. QED BY <1>1 DEF SInv, EndFn, Level

(* The numbers of new variables.                                           *)
LEMMA NumbersFacts ==
  ASSUME NEW T, NEW ns \in Seq(T), NEW n \in Nat
  PROVE  /\ Numbers(ns, n) \in Seq(Nat) /\ Len(Numbers(ns, n)) = Len(ns) /\ Len(ns) \in Nat
         /\ \A i \in 1 .. Len(ns) : Numbers(ns, n)[i] = n + i
  <1>1. Len(ns) \in Nat /\ DOMAIN ns = 1 .. Len(ns) BY LenProperties
  <1>2. Numbers(ns, n) = [i \in 1 .. Len(ns) |-> n + i] BY <1>1 DEF Numbers
  <1>3. [i \in 1 .. Len(ns) |-> n + i] \in [1 .. Len(ns) -> Nat] BY <1>1
  <1>4. Numbers(ns, n) \in Seq(Nat) /\ Len(Numbers(ns, n)) = Len(ns)
    BY <1>1, <1>2, <1>3, FunctionSeq
  <1>. QED BY <1>1, <1>2, <1>4

(* What INIT_LOCAL makes of a local.                                       *)
LEMMA Initialised ==
  ASSUME NEW l \in LocalType, NEW d \in Nat, NEW x \in BOOLEAN
  PROVE  LET new == [Local(l.name, d) EXCEPT !.fixed = x]
         IN  /\ new.name = l.name /\ new.depth = d /\ ~new.captured
             /\ new \in LocalType
  BY DEF Local, LocalType

(* The locals of a list of names are initialised.                          *)
LEMMA InitLayout ==
  ASSUME SInv, InitLocals
  PROVE  /\ SInv' /\ decls <= decls'
         /\ \E ls2, s2, d2, ns :
              Becomes(ls2, s2, d2) /\ Grows(Fun.locals, slots[Level], ls2, s2, ns, decls, d2)
  <1>. DEFINE ls == Fun.locals
              s  == slots[Level]
              d  == Fun.depth
              m  == Cardinality(Pending)
              ns == [i \in 1 .. m |-> ls[Len(ls) - m + i].name]
              x  == ns[1] \in Fixed
              new(i) == [Local(ls[i].name, d) EXCEPT !.fixed = x]
              ls2 == [i \in DOMAIN ls |-> IF i \in Pending THEN new(i) ELSE ls[i]]
              s2  == s \o Numbers(ns, decls)
  <1>1. /\ fs' = [fs EXCEPT ![Level] = [Fun EXCEPT !.locals = ls2]]
        /\ slots' = [slots EXCEPT ![Level] = s2]
        /\ env' = env \cup Bindings(ns, decls, Level, d)
        /\ decls' = decls + Len(ns) /\ Pending # {}
    BY DEF InitLocals, SetFun
  <1>2. /\ Level = Len(fs) /\ Fun = fs[Level] /\ Fun \in FunType /\ d \in Nat /\ decls \in Nat
        /\ ls \in Seq(LocalType) /\ s \in Seq(Nat) /\ Fits(ls, s, d, decls)
        /\ Len(ls) \in Nat \ {0} /\ Len(s) \in 1 .. Len(ls) /\ DOMAIN ls = 1 .. Len(ls)
        /\ Pending = Len(s) + 1 .. Len(ls) /\ m = Len(ls) - Len(s)
        /\ d > 0
    BY <1>1, Current
  <1>. DEFINE h == Len(s)
  <1>3. h \in Nat \ {0} /\ m \in Nat /\ h + m = Len(ls) /\ DOMAIN ls = 1 .. h + m
        /\ Pending = h + 1 .. h + m
    <2>1. Len(ls) \in Nat \ {0} /\ h \in 1 .. Len(ls) /\ m = Len(ls) - h BY <1>2
    <2>2. h \in Nat \ {0} /\ m \in Nat /\ h + m = Len(ls) BY ONLY <2>1
    <2>. QED BY <2>2, <1>2
  <1>. HIDE DEF m, h
  <1>4. \A i \in 1 .. m : ns[i] = ls[h + i].name
    <2>1. \A i \in 1 .. m : Len(ls) - m + i = h + i
      <3>1. Len(ls) = h + m BY <1>3
      <3>. QED BY ONLY <3>1, <1>3
    <2>. QED BY <2>1
  <1>5. \A i \in 1 .. m : ls[h + i].name \in Names \cup FnNames /\ h + i \in Pending
    <2>1. \A i \in 1 .. m : h + i \in 1 .. h + m /\ h + i \in 2 .. h + m /\ h + i \in h + 1 .. h + m
      BY ONLY <1>3
    <2>2. \A i \in 1 .. h + m : ls[i] \in LocalType BY <1>2, <1>3, ElementOfSeq
    <2>3. \A i \in 2 .. h + m : ls[i].name # NoName BY <1>2, <1>3 DEF Fits
    <2>. QED BY <2>1, <2>2, <2>3, <1>3 DEF LocalType
  <1>6. ns \in Seq(Names \cup FnNames) /\ Len(ns) = m
    <2>1. ns \in [1 .. m -> Names \cup FnNames] BY <1>4, <1>5
    <2>. HIDE DEF ns
    <2>. QED BY <2>1, <1>3, FunctionSeq
  <1>7. /\ \A i \in 1 .. h : ls2[i] = ls[i]
        /\ \A i \in 1 .. m : ls2[h + i] = new(h + i)
    <2>1. \A i \in 1 .. h : i \in 1 .. h + m /\ i \notin h + 1 .. h + m BY ONLY <1>3
    <2>2. \A i \in 1 .. m : h + i \in 1 .. h + m BY ONLY <1>3
    <2>. QED BY <2>1, <2>2, <1>3, <1>5
  <1>8. \A i \in 1 .. h + m :
          /\ new(i).name = ls[i].name /\ new(i).depth = d /\ ~new(i).captured
          /\ new(i) \in LocalType
    <2>1. \A i \in 1 .. h + m : ls[i] \in LocalType BY <1>2, <1>3, ElementOfSeq
    <2>2. x \in BOOLEAN /\ d \in Nat BY <1>2
    <2>. HIDE DEF ls, d, ns, x
    <2>3. ASSUME NEW i \in 1 .. h + m
          PROVE  /\ new(i).name = ls[i].name /\ new(i).depth = d /\ ~new(i).captured
                 /\ new(i) \in LocalType
      BY <2>1, <2>2, Initialised
    <2>. HIDE DEF new
    <2>. QED BY <2>3
  <1>9. ls2 \in Seq(LocalType) /\ Len(ls2) = h + m
    <2>1. \A i \in 1 .. h + m : ls[i] \in LocalType BY <1>2, <1>3, ElementOfSeq
    <2>. HIDE DEF new
    <2>2. ls2 \in [1 .. h + m -> LocalType] BY <2>1, <1>3, <1>8
    <2>3. h + m \in Nat BY <1>3
    <2>. HIDE DEF ls2
    <2>. QED BY <2>2, <2>3, FunctionSeq
  <1>. HIDE DEF ns
  <1>10. /\ Numbers(ns, decls) \in Seq(Nat) /\ Len(Numbers(ns, decls)) = m
         /\ \A i \in 1 .. m : Numbers(ns, decls)[i] = decls + i
    <2>1. /\ Numbers(ns, decls) \in Seq(Nat) /\ Len(Numbers(ns, decls)) = Len(ns)
          /\ \A i \in 1 .. Len(ns) : Numbers(ns, decls)[i] = decls + i
      <3>1. ns \in Seq(Names \cup FnNames) /\ decls \in Nat BY <1>2, <1>6
      <3>. QED BY ONLY <3>1, NumbersFacts
    <2>. QED BY <2>1, <1>6
  <1>11. /\ s2 \in Seq(Nat) /\ Len(s2) = h + m
         /\ \A i \in 1 .. h : s2[i] = s[i]
         /\ \A i \in 1 .. m : s2[h + i] = decls + i
    <2>. DEFINE q == Numbers(ns, decls)
    <2>1. s \in Seq(Nat) /\ q \in Seq(Nat) BY <1>2, <1>10
    <2>. HIDE DEF s, q
    <2>2. /\ s \o q \in Seq(Nat) /\ Len(s \o q) = Len(s) + Len(q)
          /\ \A i \in 1 .. Len(s) : (s \o q)[i] = s[i]
          /\ \A i \in 1 .. Len(q) : (s \o q)[Len(s) + i] = q[i]
      BY ONLY <2>1, Joined
    <2>3. s2 = s \o q /\ h = Len(s) BY DEF q, h
    <2>4. Len(q) = m /\ \A i \in 1 .. m : q[i] = decls + i BY <1>10 DEF q
    <2>. HIDE DEF s2, h
    <2>. QED BY ONLY <2>2, <2>3, <2>4
  <1>12. Grows(ls, s, ls2, s2, ns, decls, d)
    <2>1. \A i \in 1 .. m : /\ ls2[h + i].name = ns[i] /\ ls2[h + i].depth = d
                           /\ ~ls2[h + i].captured
      <3>1. \A i \in 1 .. m : h + i \in 1 .. h + m BY ONLY <1>3
      <3>. HIDE DEF new, ls2
      <3>. QED BY <3>1, <1>4, <1>7, <1>8
    <2>. HIDE DEF new, ls2, s2
    <2>. QED BY <1>6, <1>7, <1>9, <1>11, <2>1 DEF Grows, h
  <1>13. fs' = [fs EXCEPT ![Level] = [locals |-> ls2, depth |-> d]]
    BY <1>1, <1>2, FunExcept
  <1>. HIDE DEF ls2, s2
  <1>14. Layout([fs EXCEPT ![Level] = [locals |-> ls2, depth |-> d]],
                [slots EXCEPT ![Level] = s2], env \cup Bindings(ns, decls, Level, d),
                decls + Len(ns))
    <2>1. Layout(fs, slots, env, decls) BY DEF SInv
    <2>2. d = fs[Len(fs)].depth /\ Grows(fs[Len(fs)].locals, slots[Len(fs)], ls2, s2, ns, decls, d)
      BY <1>2, <1>12
    <2>. HIDE DEF d
    <2>. QED BY <1>2, <2>1, <2>2, LayoutGrown
  <1>15. Becomes(ls2, s2, d) BY <1>1, <1>13 DEF Becomes
  <1>. HIDE DEF s, ls
  <1>16. \E l3, s3, d3, n3 : Becomes(l3, s3, d3) /\ Grows(ls, s, l3, s3, n3, decls, d3)
    BY <1>12, <1>15
  <1>17. decls <= decls'
    <2>1. decls' = decls + m /\ decls \in Nat BY <1>1, <1>2, <1>6
    <2>. QED BY ONLY <2>1, <1>3
  <1>. QED BY <1>1, <1>13, <1>14, <1>16, <1>17 DEF SInv, ls, s

(* A new function has its parameters as locals, above slot 0.              *)
LEMMA NewFunction ==
  ASSUME NEW ps \in Seq(Names \cup FnNames), NEW n \in Nat, NEW k
  PROVE  LET ls2 == <<Local(NoName, 0)>> \o Arglist(ps)
             s2  == <<Global>> \o Numbers(ps, n)
         IN  /\ Fits(ls2, s2, 1, n + Len(ps)) /\ Apart(ls2)
             /\ \A i \in 2 .. Len(s2) : s2[i] > n /\ ~ls2[i].captured
             /\ Bound(k, ls2, s2) = Bindings(ps, n, k, 1)
             /\ n + Len(ps) \in Nat
  <1>. DEFINE l0  == <<Local(NoName, 0)>>
              s0  == <<Global>>
              ls2 == l0 \o Arglist(ps)
              s2  == s0 \o Numbers(ps, n)
              m   == Len(ps)
  <1>1. m \in Nat /\ DOMAIN ps = 1 .. m /\ \A i \in 1 .. m : ps[i] \in Names \cup FnNames
    BY LenProperties, ElementOfSeq
  <1>2. /\ Local(NoName, 0) \in LocalType /\ ~Local(NoName, 0).captured /\ Global \in Nat
        /\ \A i \in 1 .. m : /\ Local(ps[i], 1) \in LocalType /\ Local(ps[i], 1).name = ps[i]
                              /\ Local(ps[i], 1).depth = 1 /\ ~Local(ps[i], 1).captured
    BY <1>1 DEF Local, LocalType, Global
  <1>3. /\ l0 \in Seq(LocalType) /\ Len(l0) = 1 /\ l0[1] = Local(NoName, 0)
        /\ s0 \in Seq(Nat) /\ Len(s0) = 1 /\ s0[1] = Global
    BY <1>2
  <1>. HIDE DEF l0, s0
  <1>4. Fits(l0, s0, 1, n) /\ Apart(l0)
    <2>1. /\ 1 \in 1 .. 1 /\ (~ \E i : i \in 2 .. 1) /\ (~ \E i : i \in 1 + 1 .. 1)
          /\ (~ \E i : i \in 1 .. 1 - 1) /\ \A i, j \in 1 .. 1 : ~(i < j)
      OBVIOUS
    <2>. QED BY <1>3, <2>1 DEF Fits, Apart
  <1>5. /\ Arglist(ps) \in Seq(LocalType) /\ Len(Arglist(ps)) = m
        /\ \A i \in 1 .. m : Arglist(ps)[i] = Local(ps[i], 1)
    <2>1. Arglist(ps) = [i \in 1 .. m |-> Local(ps[i], 1)] BY <1>1 DEF Arglist
    <2>2. Arglist(ps) \in [1 .. m -> LocalType] BY <2>1, <1>2
    <2>. QED BY <1>1, <2>1, <2>2, FunctionSeq
  <1>6. /\ Numbers(ps, n) \in Seq(Nat) /\ Len(Numbers(ps, n)) = m
        /\ \A i \in 1 .. m : Numbers(ps, n)[i] = n + i
    BY NumbersFacts
  <1>. HIDE DEF m
  <1>7. /\ ls2 \in Seq(LocalType) /\ Len(ls2) = 1 + m
        /\ \A i \in 1 .. 1 : ls2[i] = l0[i]
        /\ \A i \in 1 .. m : ls2[1 + i] = Local(ps[i], 1)
    <2>1. l0 \in Seq(LocalType) /\ Arglist(ps) \in Seq(LocalType) BY <1>3, <1>5
    <2>2. /\ ls2 \in Seq(LocalType) /\ Len(ls2) = Len(l0) + Len(Arglist(ps))
          /\ \A i \in 1 .. Len(l0) : ls2[i] = l0[i]
          /\ \A i \in 1 .. Len(Arglist(ps)) : ls2[Len(l0) + i] = Arglist(ps)[i]
      BY ONLY <2>1, Joined
    <2>. HIDE DEF ls2
    <2>. QED BY <2>2, <1>3, <1>5
  <1>8. /\ s2 \in Seq(Nat) /\ Len(s2) = 1 + m
        /\ \A i \in 1 .. 1 : s2[i] = s0[i]
        /\ \A i \in 1 .. m : s2[1 + i] = n + i
    <2>1. s0 \in Seq(Nat) /\ Numbers(ps, n) \in Seq(Nat) BY <1>3, <1>6
    <2>2. /\ s2 \in Seq(Nat) /\ Len(s2) = Len(s0) + Len(Numbers(ps, n))
          /\ \A i \in 1 .. Len(s0) : s2[i] = s0[i]
          /\ \A i \in 1 .. Len(Numbers(ps, n)) : s2[Len(s0) + i] = Numbers(ps, n)[i]
      BY ONLY <2>1, Joined
    <2>. HIDE DEF s2
    <2>. QED BY <2>2, <1>3, <1>6
  <1>. HIDE DEF ls2, s2
  <1>9. Grows(l0, s0, ls2, s2, ps, n, 1) BY <1>2, <1>3, <1>7, <1>8 DEF Grows, m
  <1>10. /\ Fits(ls2, s2, 1, n + m) /\ Apart(ls2)
         /\ \A i \in Len(s0) + 1 .. Len(s2) : s2[i] > n
    <2>1. 1 \in Nat \ {0} OBVIOUS
    <2>. QED BY <2>1, <1>4, <1>9, FitsGrown DEF m
  <1>11. Bound(k, ls2, s2) = Bindings(ps, n, k, 1)
    <2>1. Len(s0) \in Nat \ {0} BY <1>3
    <2>2. Bound(k, ls2, s2) = Bound(k, l0, s0) \cup Bindings(ps, n, k, 1)
      BY <2>1, <1>9, BoundGrown
    <2>3. ~ \E i : i \in 2 .. Len(s0) BY <1>3
    <2>. QED BY <2>2, <2>3 DEF Bound
  <1>12. \A i \in 2 .. Len(s2) : s2[i] > n /\ ~ls2[i].captured
    <2>1. Len(s0) + 1 = 2 BY <1>3
    <2>2. Len(s2) = 1 + m BY <1>8
    <2>3. ASSUME NEW i \in 2 .. 1 + m PROVE ~ls2[i].captured
      <3>1. i - 1 \in 1 .. m /\ 1 + (i - 1) = i BY ONLY <1>1, i \in 2 .. 1 + m
      <3>2. ls2[1 + (i - 1)] = Local(ps[i - 1], 1) BY <3>1, <1>7
      <3>. QED BY <3>1, <3>2, <1>2
    <2>4. \A i \in 2 .. Len(s2) : s2[i] > n BY <2>1, <1>10
    <2>. QED BY <2>2, <2>3, <2>4
  <1>13. n + m \in Nat BY <1>1
  <1>. QED BY <1>10, <1>11, <1>12, <1>13 DEF ls2, s2, l0, s0, m

(* The name of a function that is declared inside another one.             *)
LEMMA OwnName ==
  ASSUME SInv, Pending = {}, NEW f \in FnNames, NEW own,
         own = IF Fun.depth > 0 THEN <<f>> ELSE <<>>
  PROVE  LET ls2 == Fun.locals \o [i \in DOMAIN own |-> Local(f, Fun.depth)]
             s2  == slots[Level] \o Numbers(own, decls)
         IN  /\ Layout([fs EXCEPT ![Level] = [locals |-> ls2, depth |-> Fun.depth]],
                       [slots EXCEPT ![Level] = s2],
                       env \cup Bindings(own, decls, Level, Fun.depth), decls + Len(own))
             /\ Len(s2) = Len(ls2) /\ decls + Len(own) \in Nat /\ decls <= decls + Len(own)
             /\ Grows(Fun.locals, slots[Level], ls2, s2, own, decls, Fun.depth)
  <1>. DEFINE ls  == Fun.locals
              s   == slots[Level]
              d   == Fun.depth
              a   == [i \in DOMAIN own |-> Local(f, d)]
              ls2 == ls \o a
              s2  == s \o Numbers(own, decls)
              m   == Len(own)
  <1>1. Layout(fs, slots, env, decls) BY DEF SInv
  <1>2. /\ Level = Len(fs) /\ Level \in 1 .. Len(fs) /\ Fun = fs[Level] /\ Fun \in FunType
        /\ d \in Nat /\ decls \in Nat
        /\ ls \in Seq(LocalType) /\ s \in Seq(Nat) /\ Fits(ls, s, d, decls)
        /\ Len(ls) \in Nat \ {0} /\ Len(s) = Len(ls)
    BY Current
  <1>3. own \in Seq(Names \cup FnNames) /\ \A i \in DOMAIN own : own[i] = f
    <2>1. CASE own = <<f>>
      <3>1. f \in Names \cup FnNames OBVIOUS
      <3>2. <<f>> \in Seq(Names \cup FnNames) /\ Len(<<f>>) = 1 /\ <<f>>[1] = f
        BY ONLY <3>1
      <3>3. \A i \in DOMAIN <<f>> : i = 1 BY <3>2, LenProperties
      <3>. QED BY <2>1, <3>2, <3>3
    <2>2. CASE own = <<>> BY <2>2
    <2>. QED BY <2>1, <2>2
  <1>4. m \in Nat /\ DOMAIN own = 1 .. m BY <1>3, LenProperties
  <1>. HIDE DEF m
  <1>5. /\ a \in Seq(LocalType) /\ Len(a) = m /\ \A i \in 1 .. m : a[i] = Local(f, d)
    <2>1. Local(f, d) \in LocalType BY <1>2 DEF Local, LocalType
    <2>2. a \in [1 .. m -> LocalType] /\ \A i \in 1 .. m : a[i] = Local(f, d) BY <2>1, <1>4
    <2>. QED BY <1>4, <2>2, FunctionSeq
  <1>6. /\ Numbers(own, decls) \in Seq(Nat) /\ Len(Numbers(own, decls)) = m
        /\ \A i \in 1 .. m : Numbers(own, decls)[i] = decls + i
    <2>1. /\ Numbers(own, decls) \in Seq(Nat) /\ Len(Numbers(own, decls)) = Len(own)
          /\ \A i \in 1 .. Len(own) : Numbers(own, decls)[i] = decls + i
      <3>1. own \in Seq(Names \cup FnNames) /\ decls \in Nat BY <1>2, <1>3
      <3>. QED BY ONLY <3>1, NumbersFacts
    <2>. QED BY <2>1 DEF m
  <1>. HIDE DEF a
  <1>7. /\ ls2 \in Seq(LocalType) /\ Len(ls2) = Len(ls) + m
        /\ \A i \in 1 .. Len(ls) : ls2[i] = ls[i]
        /\ \A i \in 1 .. m : ls2[Len(ls) + i] = Local(f, d)
    <2>1. ls \in Seq(LocalType) /\ a \in Seq(LocalType) BY <1>2, <1>5
    <2>2. /\ ls2 \in Seq(LocalType) /\ Len(ls2) = Len(ls) + Len(a)
          /\ \A i \in 1 .. Len(ls) : ls2[i] = ls[i]
          /\ \A i \in 1 .. Len(a) : ls2[Len(ls) + i] = a[i]
      BY ONLY <2>1, Joined
    <2>. HIDE DEF ls2
    <2>. QED BY <2>2, <1>5
  <1>8. /\ s2 \in Seq(Nat) /\ Len(s2) = Len(s) + m
        /\ \A i \in 1 .. Len(s) : s2[i] = s[i]
        /\ \A i \in 1 .. m : s2[Len(s) + i] = decls + i
    <2>. DEFINE q == Numbers(own, decls)
    <2>1. s \in Seq(Nat) /\ q \in Seq(Nat) BY <1>2, <1>6
    <2>2. Len(q) = m /\ \A i \in 1 .. m : q[i] = decls + i BY <1>6
    <2>. HIDE DEF s, q
    <2>3. /\ s \o q \in Seq(Nat) /\ Len(s \o q) = Len(s) + Len(q)
          /\ \A i \in 1 .. Len(s) : (s \o q)[i] = s[i]
          /\ \A i \in 1 .. Len(q) : (s \o q)[Len(s) + i] = q[i]
      BY ONLY <2>1, Joined
    <2>4. s2 = s \o q BY DEF q
    <2>. HIDE DEF s2, m
    <2>. QED BY ONLY <2>2, <2>3, <2>4
  <1>. HIDE DEF ls2, s2
  <1>9. Len(s2) = Len(ls2) BY <1>2, <1>7, <1>8
  <1>10. decls + m \in Nat /\ decls <= decls + m BY <1>2, <1>4
  <1>11. Grows(ls, s, ls2, s2, own, decls, d)
    <2>1. /\ Local(f, d).name = f /\ Local(f, d).depth = d /\ ~Local(f, d).captured
      BY DEF Local
    <2>2. /\ own \in Seq(Names \cup FnNames) /\ Len(own) = m /\ \A i \in 1 .. m : own[i] = f
      BY <1>3, <1>4 DEF m
    <2>3. \A i \in 1 .. m : ls2[Len(s) + i] = Local(f, d) BY <1>2, <1>4, <1>7
    <2>. QED BY <2>1, <2>2, <2>3, <1>2, <1>7, <1>8 DEF Grows
  <1>12. CASE d > 0
    <2>1. d = fs[Len(fs)].depth /\ Grows(fs[Len(fs)].locals, slots[Len(fs)], ls2, s2, own, decls, d)
      BY <1>2, <1>11
    <2>. HIDE DEF d
    <2>2. Layout([fs EXCEPT ![Level] = [locals |-> ls2, depth |-> d]],
                 [slots EXCEPT ![Level] = s2], env \cup Bindings(own, decls, Level, d), decls + m)
      BY <1>1, <1>2, <1>12, <2>1, LayoutGrown DEF m
    <2>. QED BY <1>9, <1>10, <1>11, <2>2 DEF ls2, s2, a, m, d
  <1>13. CASE ~(d > 0)
    <2>1. own = <<>> BY <1>13
    <2>2. m = 0 /\ ~ \E i : i \in DOMAIN own BY <2>1, <1>4 DEF m
    <2>3. ls2 = ls
      <3>1. Len(ls2) = Len(ls) BY <1>2, <1>7, <2>2
      <3>. QED BY <3>1, <1>2, <1>7, SeqEqual
    <2>4. s2 = s
      <3>1. Len(s2) = Len(s) BY <1>2, <1>8, <2>2
      <3>. QED BY <3>1, <1>2, <1>8, SeqEqual
    <2>5. Bindings(own, decls, Level, d) = {} BY <2>2 DEF Bindings
    <2>6. [fs EXCEPT ![Level] = [locals |-> ls2, depth |-> d]] = fs
      <3>1. Fun = [locals |-> Fun.locals, depth |-> Fun.depth] BY <1>2 DEF FunType
      <3>2. [locals |-> ls2, depth |-> d] = fs[Level] BY <3>1, <2>3, <1>2
      <3>. QED BY <3>2, <1>1 DEF Layout
    <2>7. [slots EXCEPT ![Level] = s2] = slots BY <2>4, <1>1 DEF Layout
    <2>8. decls + m = decls BY <2>2, <1>2
    <2>. QED BY <1>1, <1>9, <1>10, <1>11, <2>5, <2>6, <2>7, <2>8 DEF ls2, s2, a, m
  <1>. QED BY <1>12, <1>13

(* A function begins.                                                      *)
LEMMA BeginLayout ==
  ASSUME SInv, NEW f \in FnNames, NEW ps \in Seq(Names \cup FnNames), BeginFn(f, ps)
  PROVE  /\ SInv' /\ decls <= decls'
         /\ \E own, ls1, s1, ls2, s2 :
              /\ fs' = Append([fs EXCEPT ![Level] = [locals |-> ls1, depth |-> Fun.depth]],
                             [locals |-> ls2, depth |-> 1])
              /\ slots' = Append([slots EXCEPT ![Level] = s1], s2)
              /\ Grows(Fun.locals, slots[Level], ls1, s1, own, decls, Fun.depth)
              /\ ls2 \in Seq(LocalType) /\ s2 \in Seq(Nat)
              /\ \A i \in 2 .. Len(s2) : s2[i] > decls /\ ~ls2[i].captured
  <1>. DEFINE own == IF Fun.depth > 0 THEN <<f>> ELSE <<>>
              n   == decls + Len(own)
              ls1 == Fun.locals \o [i \in DOMAIN own |-> Local(f, Fun.depth)]
              s1  == slots[Level] \o Numbers(own, decls)
              F1  == [fs EXCEPT ![Level] = [locals |-> ls1, depth |-> Fun.depth]]
              S1  == [slots EXCEPT ![Level] = s1]
              E1  == env \cup Bindings(own, decls, Level, Fun.depth)
              ls2 == <<Local(NoName, 0)>> \o Arglist(ps)
              s2  == <<Global>> \o Numbers(ps, n)
              E2  == E1 \cup Bindings(ps, n, Level + 1, 1)
  <1>1. /\ Pending = {} /\ Level < Len(MaxDepth) /\ MaxDepth[Level + 1] > 0
        /\ fs' = Append([fs EXCEPT ![Level] = [Fun EXCEPT !.locals = ls1]],
                        [locals |-> ls2, depth |-> 1])
        /\ slots' = Append(S1, s2) /\ env' = E2 /\ decls' = n + Len(ps)
    BY DEF BeginFn, SetFun
  <1>2. /\ Level = Len(fs) /\ Level \in Nat \ {0} /\ Level \in 1 .. Len(fs) /\ Fun \in FunType
        /\ Layout(fs, slots, env, decls)
    BY Current DEF SInv
  <1>3. fs' = Append(F1, [locals |-> ls2, depth |-> 1]) BY <1>1, <1>2, FunExcept
  <1>4. Layout(F1, S1, E1, n) /\ Len(s1) = Len(ls1) /\ n \in Nat /\ decls <= n
        /\ Grows(Fun.locals, slots[Level], ls1, s1, own, decls, Fun.depth)
    <2>1. own = IF Fun.depth > 0 THEN <<f>> ELSE <<>> OBVIOUS
    <2>. HIDE DEF own
    <2>. QED BY <1>1, <2>1, OwnName
  <1>. HIDE DEF own, n
  <1>5. /\ Fits(ls2, s2, 1, n + Len(ps)) /\ Apart(ls2)
        /\ \A i \in 2 .. Len(s2) : s2[i] > n
        /\ Bound(Level + 1, ls2, s2) = Bindings(ps, n, Level + 1, 1)
        /\ \A i \in 2 .. Len(s2) : ~ls2[i].captured
        /\ n + Len(ps) \in Nat /\ n <= n + Len(ps)
    <2>1. n \in Nat /\ Len(ps) \in Nat BY <1>4, LenProperties
    <2>2. /\ Fits(ls2, s2, 1, n + Len(ps)) /\ Apart(ls2)
          /\ \A i \in 2 .. Len(s2) : s2[i] > n /\ ~ls2[i].captured
          /\ Bound(Level + 1, ls2, s2) = Bindings(ps, n, Level + 1, 1)
      BY ONLY <2>1, ps \in Seq(Names \cup FnNames), NewFunction
    <2>3. n + Len(ps) \in Nat /\ n <= n + Len(ps) BY ONLY <2>1
    <2>. QED BY <2>2, <2>3
  <1>6. /\ Len(F1) = Level /\ F1[Level].locals = ls1 /\ S1[Level] = s1
    <2>1. fs \in Seq(FunType) /\ DOMAIN fs = 1 .. Len(fs) /\ DOMAIN slots = 1 .. Len(fs)
      BY <1>2, LayoutFacts DEF Layout
    <2>2. Len(F1) = Len(fs)
      <3>1. DOMAIN F1 = 1 .. Len(fs) BY <2>1
      <3>2. F1 \in Seq(FunType) BY <1>4 DEF Layout
      <3>. HIDE DEF F1
      <3>3. Len(F1) \in Nat /\ DOMAIN F1 = 1 .. Len(F1) BY <3>2, LenProperties
      <3>. QED BY <3>1, <3>3, <1>2
    <2>. QED BY <1>2, <2>1, <2>2
  <1>. HIDE DEF F1, S1, E1, ls1, s1, ls2, s2
  <1>7. \A b : b \in E2 <=> b \in E1 \/ b \in Bound(Len(F1) + 1, ls2, s2) BY <1>5, <1>6
  <1>. HIDE DEF E2
  <1>8. Layout(Append(F1, [locals |-> ls2, depth |-> 1]), Append(S1, s2), E2, n + Len(ps))
    <2>1. /\ Len(F1) < Len(MaxDepth) /\ MaxDepth \in Seq(Nat)
          /\ Len(S1[Len(F1)]) = Len(F1[Len(F1)].locals)
      BY <1>1, <1>4, <1>6, ScopesAssumption
    <2>2. 1 <= MaxDepth[Len(F1) + 1]
      <3>1. Len(F1) + 1 \in 1 .. Len(MaxDepth)
        <4>1. Len(F1) \in Nat /\ Len(F1) < Len(MaxDepth) /\ Len(MaxDepth) \in Nat
          BY <1>2, <1>6, <2>1, LenProperties
        <4>. QED BY ONLY <4>1
      <3>2. MaxDepth[Len(F1) + 1] \in Nat BY <2>1, <3>1, ElementOfSeq
      <3>3. MaxDepth[Len(F1) + 1] > 0 BY <1>1, <1>6
      <3>. QED BY ONLY <3>2, <3>3
    <2>3. 1 \in Nat \ {0} OBVIOUS
    <2>. QED BY <1>4, <1>5, <1>7, <2>1, <2>2, <2>3, LayoutNested
  <1>9. \A i \in 2 .. Len(s2) : s2[i] > decls /\ ~ls2[i].captured
    <2>1. ASSUME NEW i \in 2 .. Len(s2) PROVE s2[i] > decls
      <3>1. s2[i] > n BY <1>5
      <3>2. s2[i] \in Nat
        <4>1. s2 \in Seq(Nat) BY <1>5 DEF Fits
        <4>2. Len(s2) \in Nat BY <4>1, LenProperties
        <4>3. i \in 1 .. Len(s2) BY ONLY <4>2, i \in 2 .. Len(s2)
        <4>. QED BY <4>1, <4>3, ElementOfSeq
      <3>3. n \in Nat /\ decls \in Nat /\ decls <= n BY <1>4, Current
      <3>. QED BY ONLY <3>1, <3>2, <3>3
    <2>. QED BY <2>1, <1>5
  <1>10. \E o, l1, t1, l2, t2 :
           /\ fs' = Append([fs EXCEPT ![Level] = [locals |-> l1, depth |-> Fun.depth]],
                          [locals |-> l2, depth |-> 1])
           /\ slots' = Append([slots EXCEPT ![Level] = t1], t2)
           /\ Grows(Fun.locals, slots[Level], l1, t1, o, decls, Fun.depth)
           /\ l2 \in Seq(LocalType) /\ t2 \in Seq(Nat)
           /\ \A i \in 2 .. Len(t2) : t2[i] > decls /\ ~l2[i].captured
    <2>1. fs' = Append([fs EXCEPT ![Level] = [locals |-> ls1, depth |-> Fun.depth]],
                       [locals |-> ls2, depth |-> 1])
      BY <1>3 DEF F1
    <2>2. slots' = Append([slots EXCEPT ![Level] = s1], s2) BY <1>1 DEF S1
    <2>3. ls2 \in Seq(LocalType) /\ s2 \in Seq(Nat) BY <1>5 DEF Fits
    <2>. QED BY <1>4, <1>9, <2>1, <2>2, <2>3
  <1>11. decls <= decls'
    <2>1. n \in Nat /\ decls \in Nat /\ decls <= n /\ Len(ps) \in Nat BY <1>4, Current, LenProperties
    <2>2. decls <= n + Len(ps) BY ONLY <2>1
    <2>. QED BY <1>1, <2>2
  <1>. QED BY <1>1, <1>3, <1>8, <1>10, <1>11 DEF SInv

(* A closure captures a local of a function around it.                     *)
LEMMA OwnerFacts ==
  ASSUME SInv, NEW n, n # NoName, Owners(n) # {}
  PROVE  LET j == Max(Owners(n))
             i == FindLocal(j, n)
         IN  /\ j \in 1 .. Level - 1 /\ j \in 1 .. Len(fs) /\ j < Len(fs)
             /\ j \in Owners(n) /\ \A k \in Owners(n) : k <= j
             /\ Len(slots[j]) = Len(fs[j].locals)
             /\ i \in 2 .. Len(slots[j]) /\ fs[j].locals[i].name = n
             /\ \A m \in 1 .. Len(fs[j].locals) : m > i => fs[j].locals[m].name # n
  <1>. DEFINE j == Max(Owners(n))
              i == FindLocal(j, n)
  <1>1. Level = Len(fs) /\ Level \in Nat \ {0} BY Current
  <1>2. Owners(n) \subseteq 0 .. Level
    <2>1. \A k \in 1 .. Level - 1 : k \in 0 .. Level BY ONLY <1>1
    <2>. QED BY <2>1 DEF Owners
  <1>3. j \in Owners(n) /\ \A k \in Owners(n) : j >= k
    <2>1. Level \in Nat BY <1>1
    <2>. QED BY <1>2, <2>1, MaxFact
  <1>. HIDE DEF j
  <1>4. j \in 1 .. Level - 1 /\ i # 0 BY <1>3 DEF Owners
  <1>5. j \in 1 .. Len(fs) /\ j < Len(fs)
    <2>1. j \in 1 .. Len(fs) - 1 /\ Len(fs) \in Nat BY <1>1, <1>4
    <2>. QED BY ONLY <2>1
  <1>6. /\ fs[j].locals \in Seq(LocalType) /\ Len(slots[j]) = Len(fs[j].locals)
        /\ Fits(fs[j].locals, slots[j], fs[j].depth, decls)
        /\ fs[j].depth \in Nat /\ decls \in Nat
    BY <1>5, LayoutFacts DEF SInv
  <1>7. /\ i \in 0 .. Len(fs[j].locals) /\ fs[j].locals[i].name = n
        /\ \A m \in 1 .. Len(fs[j].locals) : m > i => fs[j].locals[m].name # n
    BY <1>4, <1>5, <1>6, FoundLocal
  <1>8. i # 1 /\ Len(fs[j].locals) \in Nat BY <1>6, <1>7, FitsFacts
  <1>9. i \in 2 .. Len(slots[j]) BY <1>4, <1>6, <1>7, <1>8
  <1>10. \A k \in Owners(n) : k <= j
    <2>1. \A k \in Owners(n) : k \in 0 .. Level BY <1>2
    <2>2. \A k \in 0 .. Level : j >= k => k <= j BY <1>1, <1>5
    <2>. QED BY <1>3, <2>1, <2>2
  <1>. QED BY <1>3, <1>4, <1>5, <1>6, <1>7, <1>9, <1>10 DEF j

(* A captured local keeps its slot.                                      *)
LEMMA CaptureLayout ==
  ASSUME ~Adjacent, SInv, NEW n \in Names \cup FnNames, NEW junk, Capture(n, junk)
  PROVE  /\ SInv'
         /\ LET j == Max(Owners(n))
            IN  \E ls2 : /\ Marks(fs[j].locals, FindLocal(j, n), ls2)
                         /\ fs' = [fs EXCEPT ![j] = [locals |-> ls2, depth |-> fs[j].depth]]
  <1>. DEFINE j  == Max(Owners(n))
              i  == FindLocal(j, n)
              ls == fs[j].locals
              s  == slots[j]
              d  == fs[j].depth
              ls2 == [ls EXCEPT ![i].captured = TRUE]
  <1>1. /\ fs' = [fs EXCEPT ![j].locals[i].captured = TRUE]
        /\ slots' = slots /\ env' = env /\ decls' = decls
        /\ \A m \in {i - 1, i + 1} \cap DOMAIN ls : ~ls[m].captured
        /\ Owners(n) # {}
    BY DEF Capture, Flagged
  <1>2. n # NoName BY ScopesAssumption
  <1>3. /\ j \in 1 .. Len(fs) /\ Len(s) = Len(ls) /\ i \in 2 .. Len(s)
    BY <1>1, <1>2, OwnerFacts
  <1>4. /\ Layout(fs, slots, env, decls) /\ Fits(ls, s, d, decls) /\ Apart(ls)
        /\ d \in Nat /\ decls \in Nat /\ d <= MaxDepth[j] /\ (j > 1 => d > 0)
        /\ fs[j] \in FunType /\ Len(s) \in 1 .. Len(ls)
    BY <1>3, LayoutFacts, SlotsBelow DEF SInv
  <1>. HIDE DEF i, j
  <1>5. Fits(ls2, s, d, decls) /\ Apart(ls2) /\ Marks(ls, i, ls2)
    BY <1>1, <1>3, <1>4, FitsFlagged
  <1>6. fs' = [fs EXCEPT ![j] = [locals |-> ls2, depth |-> d]]
    <2>1. fs' = [fs EXCEPT ![j] = [fs[j] EXCEPT !.locals = ls2]] BY <1>1
    <2>2. [fs[j] EXCEPT !.locals = ls2] = [locals |-> ls2, depth |-> d] BY <1>4, FunExcept
    <2>. QED BY <2>1, <2>2
  <1>. HIDE DEF ls2
  <1>7. Bound(j, ls2, s) = Bound(j, ls, s)
    <2>1. \A m \in 2 .. Len(s) : m \in 1 .. Len(ls)
      <3>1. Len(s) \in 1 .. Len(ls) BY <1>4
      <3>. QED BY ONLY <3>1
    <2>. QED BY <2>1, <1>5 DEF Bound, Marks
  <1>8. \A b : b \in env <=> (b \in env /\ b.level # j) \/ b \in Bound(j, ls2, s)
    <2>1. \A b : b \in Bound(j, ls, s) <=> b \in env /\ b.level = j
      BY <1>3, <1>4, InScopeAt
    <2>. QED BY <2>1, <1>7
  <1>9. Layout([fs EXCEPT ![j] = [locals |-> ls2, depth |-> d]], [slots EXCEPT ![j] = s], env, decls)
    <2>1. \A m \in 2 .. Len(s) : s[m] > decls \/ (m \in 2 .. Len(slots[j]) /\ s[m] = slots[j][m])
      OBVIOUS
    <2>2. decls <= decls /\ (j < Len(fs) => s = slots[j] /\ Len(s) = Len(ls2))
      BY <1>3, <1>4, <1>5 DEF Marks
    <2>. HIDE DEF d
    <2>. QED BY <1>3, <1>4, <1>5, <1>8, <2>1, <2>2, LayoutChanged
  <1>10. [slots EXCEPT ![j] = s] = slots BY <1>4 DEF Layout
  <1>11. SInv' BY <1>1, <1>6, <1>9, <1>10 DEF SInv
  <1>. QED BY <1>5, <1>6, <1>11 DEF i, j

(* At first there is the function of the script, with slot 0.              *)
LEMMA InitSInv ==
  ASSUME Init
  PROVE  SInv
  <1>. DEFINE ls == <<Local(NoName, 0)>>
              s  == <<Global>>
  <1>1. fs = <<[locals |-> ls, depth |-> 0]>> /\ slots = <<s>> /\ env = {} /\ decls = 0
    BY DEF Init
  <1>2. Local(NoName, 0) \in LocalType /\ Global \in Nat /\ ~Local(NoName, 0).captured
    BY DEF Local, LocalType, Global
  <1>3. ls \in Seq(LocalType) /\ Len(ls) = 1 /\ s \in Seq(Nat) /\ Len(s) = 1
        /\ ls[1] = Local(NoName, 0) /\ s[1] = Global
    BY <1>2
  <1>. HIDE DEF ls, s
  <1>4. /\ 1 \in 1 .. 1 /\ (~ \E i : i \in 2 .. 1) /\ (~ \E i : i \in 1 + 1 .. 1)
        /\ (~ \E i : i \in 1 .. 1 - 1) /\ \A i, j \in 1 .. 1 : ~(i < j)
    OBVIOUS
  <1>5. Fits(ls, s, 0, 0) /\ Apart(ls) BY <1>3, <1>4 DEF Fits, Apart
  <1>6. /\ fs \in Seq(FunType) /\ Len(fs) = 1 /\ fs[1].locals = ls /\ fs[1].depth = 0 /\ fs # <<>>
    <2>1. [locals |-> ls, depth |-> 0] \in FunType BY <1>3 DEF FunType
    <2>. QED BY <1>1, <2>1
  <1>7. slots \in Seq(Seq(Nat)) /\ Len(slots) = 1 /\ slots[1] = s BY <1>1, <1>3
  <1>8. Len(MaxDepth) \in Nat \ {0} /\ MaxDepth[1] \in Nat
    <2>1. MaxDepth \in Seq(Nat) /\ MaxDepth # <<>> BY ScopesAssumption
    <2>2. Len(MaxDepth) \in Nat \ {0} BY <2>1, Ends
    <2>3. 1 \in 1 .. Len(MaxDepth) BY <2>2
    <2>. QED BY <2>1, <2>2, <2>3, ElementOfSeq
  <1>9. \A k \in 1 .. 1 : k = 1 OBVIOUS
  <1>10. FunsFit(fs, slots, decls)
    <2>1. /\ Fits(fs[1].locals, slots[1], fs[1].depth, decls) /\ Apart(fs[1].locals)
          /\ fs[1].depth <= MaxDepth[1] /\ ~(1 > 1) /\ ~(1 < Len(fs))
      BY <1>1, <1>5, <1>6, <1>7, <1>8
    <2>. QED BY <2>1, <1>6, <1>9 DEF FunsFit
  <1>11. InnerLater(slots)
    <2>1. \A k, m \in 1 .. 1 : ~(k < m) OBVIOUS
    <2>. QED BY <2>1, <1>7 DEF InnerLater
  <1>12. InScope(fs, slots, env)
    <2>1. ~ \E i : i \in 2 .. Len(slots[1]) BY <1>3, <1>4, <1>7
    <2>. QED BY <2>1, <1>1, <1>6, <1>9 DEF InScope, Bound
  <1>. QED BY <1>1, <1>6, <1>7, <1>8, <1>10, <1>11, <1>12 DEF SInv, Layout

(* Programs that do not capture two neighbours keep the layout.            *)
LEMMA NextLayout ==
  ASSUME ~Adjacent, SInv, [Next]_vars
  PROVE  SInv'
  <1>1. CASE UNCHANGED vars BY <1>1 DEF vars, SInv
  <1>2. ASSUME NEW n \in Names \cup FnNames, NEW junk \in BOOLEAN, Capture(n, junk) PROVE SInv'
    BY <1>2, CaptureLayout
  <1>3. ASSUME NEW n \in Names, Declare(n) PROVE SInv' BY <1>3, DeclareLayout
  <1>4. CASE InitLocals BY <1>4, InitLayout
  <1>5. CASE StartScope BY <1>5, ScopeLayout
  <1>6. CASE EndScope BY <1>6, EndLayout
  <1>7. CASE EndFn BY <1>7, EndFnLayout
  <1>8. ASSUME NEW f \in FnNames, NEW ps \in {<<>>} \cup {<<n>> : n \in Names}, BeginFn(f, ps)
        PROVE  SInv'
    <2>1. ps \in Seq(Names \cup FnNames)
      <3>1. CASE ps = <<>> BY <3>1
      <3>2. ASSUME NEW n \in Names, ps = <<n>> PROVE ps \in Seq(Names \cup FnNames)
        <4>1. n \in Names \cup FnNames OBVIOUS
        <4>. QED BY <3>2, <4>1
      <3>. QED BY <3>1, <3>2
    <2>. QED BY <1>8, <2>1, BeginLayout
  <1>. QED BY <1>1, <1>2, <1>3, <1>4, <1>5, <1>6, <1>7, <1>8 DEF Next

(* The slots hold the variables in scope.                                  *)
LEMMA SInvMatches ==
  ASSUME SInv
  PROVE  StackMatches
  <1>1. Layout(fs, slots, env, decls) /\ Level = Len(fs) BY Current DEF SInv
  <1>2. ASSUME NEW k \in 1 .. Level
        PROVE  /\ ToSet(slots[k]) = {Global} \cup {b.var : b \in {c \in env : c.level = k}}
               /\ \A i, j \in DOMAIN slots[k] : i < j => slots[k][i] < slots[k][j]
    <2>. DEFINE s  == slots[k]
                ls == fs[k].locals
                E  == {c \in env : c.level = k}
    <2>1. /\ Fits(ls, s, fs[k].depth, decls) /\ DOMAIN s = 1 .. Len(s) /\ Len(s) \in Nat \ {0}
      <3>1. /\ Len(ls) \in Nat \ {0} /\ Len(s) \in 1 .. Len(ls) /\ DOMAIN s = 1 .. Len(s)
            /\ Fits(ls, s, fs[k].depth, decls)
        BY <1>1, LayoutFacts, SlotsBelow
      <3>. QED BY <3>1
    <2>2. s[1] = Global /\ \A i, j \in 1 .. Len(s) : i < j => s[i] < s[j] BY <2>1 DEF Fits
    <2>3. \A b : b \in E <=> b \in Bound(k, ls, s) BY <1>1, InScopeAt
    <2>4. {b.var : b \in E} = {s[i] : i \in 2 .. Len(s)}
      <3>1. ASSUME NEW i \in 2 .. Len(s) PROVE \E b \in E : b.var = s[i]
        <4>. DEFINE b == [name |-> ls[i].name, level |-> k, depth |-> ls[i].depth, var |-> s[i]]
        <4>1. b \in Bound(k, ls, s) /\ b.var = s[i] BY DEF Bound
        <4>. HIDE DEF b
        <4>. QED BY <4>1, <2>3
      <3>2. \A b \in E : \E i \in 2 .. Len(s) : b.var = s[i] BY <2>3 DEF Bound
      <3>. QED BY ONLY <3>1, <3>2
    <2>5. ToSet(s) = {Global} \cup {s[i] : i \in 2 .. Len(s)}
      <3>1. \A i \in 1 .. Len(s) : i = 1 \/ i \in 2 .. Len(s) BY ONLY <2>1
      <3>2. 1 \in 1 .. Len(s) /\ \A i \in 2 .. Len(s) : i \in 1 .. Len(s) BY ONLY <2>1
      <3>. QED BY <2>1, <2>2, <3>1, <3>2 DEF ToSet
    <2>. QED BY <2>1, <2>2, <2>4, <2>5
  <1>. QED BY <1>2 DEF StackMatches

(* endscope emits an OP_POP or an OP_CLOSE_UPVAL for every local that goes *)
(* out of scope, so that the slots codevar counts on are those of the VM,  *)
(* in every program that does not capture two neighbouring locals.         *)
THEOREM StackFollowsScopes == ~Adjacent => (Spec => []StackMatches)
  <1>. SUFFICES ASSUME ~Adjacent PROVE Spec => []StackMatches
    OBVIOUS
  <1>1. Init => SInv BY InitSInv
  <1>2. SInv /\ [Next]_vars => SInv' BY NextLayout
  <1>3. SInv => StackMatches BY SInvMatches
  <1>. QED BY <1>1, <1>2, <1>3, PTL DEF Spec
----------------------------------------------------------------------------
(* Captured variables.  Only the functions directly around a closure have  *)
(* locals: a script that has blocks and functions in them, or functions    *)
(* with functions inside and no block around.  In deeper nests a closure   *)
(* overwrites entries of the array of upvalues of the function around it.  *)
Shallow == \A k \in 1 .. Len(MaxDepth) - 2 : MaxDepth[k] = 0

(* The variables of function k that closures have captured, or that the    *)
(* one being compiled will.                                                *)
Taken(k) == boxed \cup (IF k < Len(fs) THEN ToSet(means[k + 1]) ELSE {})
FlagsFit == \A k \in 1 .. Len(fs) : \A i \in 2 .. Len(slots[k]) :
              fs[k].locals[i].captured <=> slots[k][i] \in Taken(k)

(* An entry of the array is about a local of the function around, and made *)
(* for the variable in its slot.                                           *)
EntryFits(e, v, ls, s) ==
  /\ e.local /\ e.idx \in 2 .. Len(s) /\ s[e.idx] = v
  /\ ls[e.idx].captured
EntriesFit ==
  /\ Len(means[Len(fs)]) <= Len(upvalues)
  /\ \A i \in 1 .. Len(means[Len(fs)]) :
       /\ Len(fs) > 1
       /\ EntryFits(upvalues[i], means[Len(fs)][i], fs[Len(fs) - 1].locals, slots[Len(fs) - 1])

UType == /\ means \in Seq(Seq(Nat)) /\ Len(means) = Len(fs) /\ upvalues \in Seq(Entry)
         /\ boxed \subseteq 0 .. decls
         /\ \A k \in 1 .. Len(fs) : k < Len(MaxDepth) => means[k] = <<>>
UInv  == SInv /\ UType /\ FlagsFit /\ EntriesFit

(* What a step leaves of the slots, and what it adds.                      *)
Steady ==
  \A k \in 1 .. Len(fs') : \A i \in 2 .. Len(slots'[k]) :
    \/ /\ k <= Len(fs) /\ i \in 2 .. Len(slots[k])
       /\ slots'[k][i] = slots[k][i] /\ fs'[k].locals[i] = fs[k].locals[i]
    \/ /\ k >= Len(fs) /\ slots'[k][i] > decls
       /\ ~fs'[k].locals[i].captured

(* Flags stay right: the numbers of new variables are not in use.          *)
LEMMA SteadyFlags ==
  ASSUME UInv, Steady, boxed' = boxed,
         \A k \in 1 .. Len(fs') : \A v : v \in Taken(k)' <=>
           v \in boxed \/ (k < Len(fs) /\ v \in ToSet(means[k + 1]))
  PROVE  FlagsFit'
  <1>1. \A v \in boxed : v \in 0 .. decls BY DEF UInv, UType
  <1>2. decls \in Nat /\ Len(fs) \in Nat BY Current DEF UInv, Level
  <1>3. ASSUME NEW k \in 1 .. Len(fs'), NEW i \in 2 .. Len(slots'[k])
        PROVE  fs'[k].locals[i].captured <=> slots'[k][i] \in Taken(k)'
    <2>1. CASE /\ k <= Len(fs) /\ i \in 2 .. Len(slots[k])
               /\ slots'[k][i] = slots[k][i] /\ fs'[k].locals[i] = fs[k].locals[i]
      <3>1. k \in 1 .. Len(fs)
        <4>1. k \in Nat /\ k >= 1 BY k \in 1 .. Len(fs')
        <4>. QED BY ONLY <4>1, <2>1, <1>2
      <3>2. fs[k].locals[i].captured <=> slots[k][i] \in Taken(k)
        BY <2>1, <3>1 DEF UInv, FlagsFit
      <3>3. slots[k][i] \in Taken(k)' <=> slots[k][i] \in Taken(k) BY DEF Taken
      <3>. QED BY <2>1, <3>2, <3>3
    <2>2. CASE /\ k >= Len(fs) /\ slots'[k][i] > decls
               /\ ~fs'[k].locals[i].captured
      <3>1. slots'[k][i] \notin boxed
        <4>1. \A v \in 0 .. decls : ~(v > decls) BY <1>2
        <4>. QED BY <4>1, <1>1, <2>2
      <3>2. ~(k < Len(fs))
        <4>1. k \in Nat BY k \in 1 .. Len(fs')
        <4>. QED BY ONLY <4>1, <2>2, <1>2
      <3>. QED BY <2>2, <3>1, <3>2
    <2>. QED BY <2>1, <2>2 DEF Steady
  <1>. QED BY <1>3 DEF FlagsFit

(* Steps of the current function alone.                                    *)
LEMMA SteadyUInv ==
  ASSUME UInv, SInv', Steady, UNCHANGED <<upvalues, means, boxed>>,
         NEW ls2, NEW s2, NEW d2, Becomes(ls2, s2, d2), decls <= decls'
  PROVE  UInv'
  <1>1. Level = Len(fs) /\ Level \in 1 .. Len(fs) /\ decls \in Nat BY Current DEF UInv
  <1>2. decls' \in Nat BY DEF SInv, Layout
  <1>3. fs \in Seq(FunType) /\ slots \in Seq(Seq(Nat)) /\ Len(slots) = Len(fs)
    BY DEF UInv, SInv, Layout
  <1>4. Len(fs') = Len(fs) /\ \A k \in 1 .. Len(fs) : k # Level => fs'[k] = fs[k]
    <2>1. fs' = [fs EXCEPT ![Level] = [locals |-> ls2, depth |-> d2]] BY DEF Becomes
    <2>2. fs' \in Seq(FunType) BY DEF SInv, Layout
    <2>3. DOMAIN fs = 1 .. Len(fs) /\ Len(fs) \in Nat BY <1>3, LenProperties
    <2>4. DOMAIN fs' = 1 .. Len(fs) BY <2>1, <2>3
    <2>5. Len(fs') = Len(fs) BY <2>3, <2>4
    <2>. QED BY <2>1, <2>3, <2>5
  <1>5. \A k \in 1 .. Len(fs) : k # Level => slots'[k] = slots[k]
    <2>1. slots' = [slots EXCEPT ![Level] = s2] BY DEF Becomes
    <2>2. DOMAIN slots = 1 .. Len(fs) BY <1>3, LenProperties
    <2>. QED BY <2>1, <2>2
  <1>6. UType'
    <2>1. \A v \in 0 .. decls : v \in 0 .. decls' BY <1>1, <1>2
    <2>. QED BY <2>1, <1>4 DEF UInv, UType
  <1>7. FlagsFit'
    <2>1. \A k \in 1 .. Len(fs') : \A v : v \in Taken(k)' <=>
            v \in boxed \/ (k < Len(fs) /\ v \in ToSet(means[k + 1]))
      BY <1>4 DEF Taken
    <2>. QED BY <2>1, SteadyFlags
  <1>8. EntriesFit'
    <2>1. EntriesFit BY DEF UInv
    <2>2. CASE Len(fs) > 1
      <3>1. Len(fs) - 1 \in 1 .. Len(fs) /\ Len(fs) - 1 # Level BY <1>1, <2>2
      <3>2. fs'[Len(fs) - 1] = fs[Len(fs) - 1] /\ slots'[Len(fs) - 1] = slots[Len(fs) - 1]
        BY <3>1, <1>4, <1>5
      <3>. QED BY <2>1, <3>2, <1>4 DEF EntriesFit
    <2>3. CASE ~(Len(fs) > 1)
      BY <2>1, <2>3, <1>4 DEF EntriesFit
    <2>. QED BY <2>2, <2>3
  <1>. QED BY <1>6, <1>7, <1>8 DEF UInv

(* The current function keeps what it keeps.                               *)
LEMMA RetainsSteady ==
  ASSUME SInv, NEW ls2, NEW s2, NEW d2, Retains(ls2, s2, d2), s2 \in Seq(Nat)
  PROVE  Steady
  <1>1. /\ Level = Len(fs) /\ Level \in 1 .. Len(fs) /\ Len(fs) \in Nat
        /\ Fun = fs[Level] /\ slots[Level] \in Seq(Nat)
    BY Current
  <1>2. DOMAIN fs = 1 .. Len(fs) /\ DOMAIN slots = 1 .. Len(fs) BY LayoutFacts DEF SInv
  <1>3. /\ fs' = [fs EXCEPT ![Level] = [locals |-> ls2, depth |-> d2]]
        /\ slots' = [slots EXCEPT ![Level] = s2]
    BY DEF Retains, Becomes
  <1>4. \A k \in 1 .. Len(fs) : k # Level => fs'[k] = fs[k] /\ slots'[k] = slots[k]
    BY <1>2, <1>3
  <1>5. fs'[Level].locals = ls2 /\ slots'[Level] = s2 BY <1>1, <1>2, <1>3
  <1>6. Len(fs') = Len(fs)
    <2>1. DOMAIN fs' = 1 .. Len(fs) BY <1>2, <1>3
    <2>. QED BY <2>1, <1>1
  <1>7. ASSUME NEW k \in 1 .. Len(fs), NEW i \in 2 .. Len(slots'[k])
        PROVE  /\ k <= Len(fs) /\ i \in 2 .. Len(slots[k])
               /\ slots'[k][i] = slots[k][i] /\ fs'[k].locals[i] = fs[k].locals[i]
    <2>1. k <= Len(fs) BY <1>1
    <2>2. CASE k # Level BY <2>1, <2>2, <1>4
    <2>3. CASE k = Level
      <3>1. /\ Len(s2) <= Len(slots[Level]) /\ i \in 2 .. Len(s2)
            /\ \A m \in 1 .. Len(s2) : ls2[m] = Fun.locals[m] /\ s2[m] = slots[Level][m]
        BY <2>3, <1>5 DEF Retains
      <3>2. Len(s2) \in Nat /\ Len(slots[Level]) \in Nat BY <1>1, LenProperties
      <3>3. i \in 1 .. Len(s2) /\ i \in 2 .. Len(slots[Level]) BY ONLY <3>1, <3>2
      <3>. QED BY <2>1, <2>3, <3>1, <3>3, <1>1, <1>5
    <2>. QED BY <2>2, <2>3
  <1>. QED BY <1>6, <1>7 DEF Steady

(* The sequence of the last function's stack slots after a step.           *)
LEMMA PrimedSlots ==
  ASSUME SInv', NEW k \in 1 .. Len(fs')
  PROVE  /\ slots'[k] \in Seq(Nat) /\ Len(slots'[k]) \in Nat /\ decls' \in Nat
         /\ \A i \in 1 .. Len(slots'[k]) : slots'[k][i] \in 0 .. decls'
  <1>1. Layout(fs', slots', env', decls') BY DEF SInv
  <1>2. slots'[k] \in Seq(Nat) /\ decls' \in Nat BY <1>1, LayoutFacts
  <1>3. \A i \in 1 .. Len(slots'[k]) : slots'[k][i] \in 0 .. decls' BY <1>1, SlotsBelow
  <1>. QED BY <1>2, <1>3, LenProperties

(* Steps that keep what is there, and no more.                             *)
LEMMA RetainsUInv ==
  ASSUME UInv, SInv', UNCHANGED <<upvalues, means, boxed, decls>>,
         \E ls2, s2, d2 : Retains(ls2, s2, d2)
  PROVE  UInv'
  <1>1. PICK ls2, s2, d2 : Retains(ls2, s2, d2) OBVIOUS
  <1>2. SInv /\ Becomes(ls2, s2, d2) BY <1>1 DEF UInv, Retains
  <1>3. Level = Len(fs) /\ Level \in 1 .. Len(fs) /\ Len(fs) \in Nat /\ decls \in Nat
    BY <1>2, Current
  <1>4. s2 \in Seq(Nat)
    <2>1. slots' = [slots EXCEPT ![Level] = s2] /\ slots' \in Seq(Seq(Nat))
      BY <1>2 DEF Becomes, SInv, Layout
    <2>2. DOMAIN slots = 1 .. Len(fs) BY <1>2, LayoutFacts DEF SInv
    <2>3. slots'[Level] = s2 /\ DOMAIN slots' = 1 .. Len(fs) BY <1>3, <2>1, <2>2
    <2>4. Level \in 1 .. Len(slots') BY <2>1, <2>3, <1>3
    <2>. QED BY <2>1, <2>3, <2>4, ElementOfSeq
  <1>5. Steady BY <1>1, <1>2, <1>4, RetainsSteady
  <1>6. decls <= decls' BY <1>3
  <1>. QED BY <1>2, <1>5, <1>6, SteadyUInv

(* INIT_LOCAL: the new variables are not captured.                         *)
LEMMA InitUInv ==
  ASSUME UInv, InitLocals
  PROVE  UInv'
  <1>1. /\ SInv' /\ decls <= decls'
        /\ \E ls2, s2, d2, ns :
              Becomes(ls2, s2, d2) /\ Grows(Fun.locals, slots[Level], ls2, s2, ns, decls, d2)
    BY InitLayout DEF UInv
  <1>2. PICK ls2, s2, d2, ns :
          Becomes(ls2, s2, d2) /\ Grows(Fun.locals, slots[Level], ls2, s2, ns, decls, d2)
    BY <1>1
  <1>. DEFINE s == slots[Level]
              h == Len(s)
              m == Len(ns)
  <1>3. /\ Level = Len(fs) /\ Level \in 1 .. Len(fs) /\ Len(fs) \in Nat /\ decls \in Nat
        /\ Fun = fs[Level] /\ s \in Seq(Nat) /\ h \in Nat /\ SInv
    BY Current, LenProperties DEF UInv
  <1>4. /\ m \in Nat /\ Len(s2) = h + m /\ ns \in Seq(Names \cup FnNames)
        /\ \A i \in 1 .. h : ls2[i] = Fun.locals[i] /\ s2[i] = s[i]
        /\ \A i \in 1 .. m : ~ls2[h + i].captured /\ s2[h + i] = decls + i
    BY <1>2, LenProperties DEF Grows
  <1>5. DOMAIN fs = 1 .. Len(fs) /\ DOMAIN slots = 1 .. Len(fs) BY <1>3, LayoutFacts DEF SInv
  <1>6. /\ fs' = [fs EXCEPT ![Level] = [locals |-> ls2, depth |-> d2]]
        /\ slots' = [slots EXCEPT ![Level] = s2]
    BY <1>2 DEF Becomes
  <1>7. /\ \A k \in 1 .. Len(fs) : k # Level => fs'[k] = fs[k] /\ slots'[k] = slots[k]
        /\ fs'[Level].locals = ls2 /\ slots'[Level] = s2 /\ DOMAIN fs' = 1 .. Len(fs)
    BY <1>3, <1>5, <1>6
  <1>8. Len(fs') = Len(fs) BY <1>3, <1>7
  <1>. HIDE DEF h, m
  <1>9. Steady
    <2>1. ASSUME NEW k \in 1 .. Len(fs), NEW i \in 2 .. Len(slots'[k])
          PROVE \/ /\ k <= Len(fs) /\ i \in 2 .. Len(slots[k])
                   /\ slots'[k][i] = slots[k][i] /\ fs'[k].locals[i] = fs[k].locals[i]
                \/ /\ k >= Len(fs) /\ slots'[k][i] > decls
                   /\ ~fs'[k].locals[i].captured
      <3>1. k <= Len(fs) BY <1>3
      <3>2. CASE k # Level BY <3>1, <3>2, <1>7
      <3>3. CASE k = Level
        <4>1. i \in 2 .. h + m BY <3>3, <1>4, <1>7
        <4>2. CASE i <= h
          <5>1. i \in 2 .. h /\ i \in 1 .. h BY ONLY <4>1, <4>2, <1>3, <1>4
          <5>. QED BY <3>1, <3>3, <5>1, <1>3, <1>4, <1>7 DEF h
        <4>3. CASE i > h
          <5>1. i - h \in 1 .. m /\ h + (i - h) = i BY ONLY <4>1, <4>3, <1>3, <1>4
          <5>2. ~ls2[i].captured /\ s2[i] = decls + (i - h)
            BY <5>1, <1>4
          <5>3. s2[i] > decls
            <6>1. decls + (i - h) > decls BY ONLY <5>1, <1>3, <1>4
            <6>. QED BY <5>2, <6>1
          <5>4. k >= Len(fs) BY <3>3, <1>3
          <5>. QED BY <3>3, <5>2, <5>3, <5>4, <1>7
        <4>. QED BY <4>1, <4>2, <4>3, <1>3
      <3>. QED BY <3>2, <3>3
    <2>. QED BY <2>1, <1>8 DEF Steady
  <1>10. UNCHANGED <<upvalues, means, boxed>> BY DEF InitLocals
  <1>. QED BY <1>1, <1>2, <1>9, <1>10, SteadyUInv

(* A stack whose top is replaced and that gets another element.            *)
LEMMA Pushed ==
  ASSUME NEW S, NEW q \in Seq(S), q # <<>>, NEW a \in S, NEW b \in S
  PROVE  LET L == Len(q)
             r == Append([q EXCEPT ![L] = a], b)
         IN  /\ Len(r) = L + 1 /\ r[L] = a /\ r[L + 1] = b
             /\ \A k \in 1 .. L : k # L => r[k] = q[k]
  <1>. DEFINE L == Len(q)
              p == [q EXCEPT ![L] = a]
  <1>1. L \in Nat \ {0} /\ L \in 1 .. L BY EmptySeq
  <1>2. p \in Seq(S) /\ Len(p) = Len(q) /\ \A k \in 1 .. Len(q) : p[k] = IF k = L THEN a ELSE q[k]
    BY <1>1, ExceptSeq
  <1>. HIDE DEF p
  <1>3. /\ Len(Append(p, b)) = Len(p) + 1 /\ Append(p, b)[Len(p) + 1] = b
        /\ \A k \in 1 .. Len(p) : Append(p, b)[k] = p[k]
    BY <1>2, AppendProperties
  <1>. QED BY <1>1, <1>2, <1>3 DEF p

(* fn begins another function.                                             *)
LEMMA BeginUInv ==
  ASSUME UInv, NEW f \in FnNames, NEW ps \in Seq(Names \cup FnNames), BeginFn(f, ps)
  PROVE  UInv'
  <1>. DEFINE L == Len(fs)
  <1>0. SInv BY DEF UInv
  <1>1. /\ Level = L /\ L \in Nat \ {0} /\ L \in 1 .. L /\ decls \in Nat
        /\ Fun.depth \in Nat /\ slots[L] \in Seq(Nat) /\ Len(slots) = L
        /\ fs \in Seq(FunType) /\ slots \in Seq(Seq(Nat)) /\ fs # <<>> /\ slots # <<>>
    <2>1. /\ Level = L /\ L \in Nat \ {0} /\ L \in 1 .. L /\ decls \in Nat
          /\ Fun.depth \in Nat /\ slots[Level] \in Seq(Nat) /\ Len(slots) = L
      BY <1>0, Current
    <2>2. fs \in Seq(FunType) /\ slots \in Seq(Seq(Nat)) /\ fs # <<>>
      BY <1>0 DEF SInv, Layout
    <2>. QED BY <2>1, <2>2
  <1>2. SInv' /\ decls <= decls' /\ decls' \in Nat
    <2>1. SInv' /\ decls <= decls' BY <1>0, BeginLayout
    <2>. QED BY <2>1 DEF SInv, Layout
  <1>3. PICK own, ls1, s1, ls2, s2 :
          /\ fs' = Append([fs EXCEPT ![Level] = [locals |-> ls1, depth |-> Fun.depth]],
                         [locals |-> ls2, depth |-> 1])
          /\ slots' = Append([slots EXCEPT ![Level] = s1], s2)
          /\ Grows(Fun.locals, slots[Level], ls1, s1, own, decls, Fun.depth)
            /\ ls2 \in Seq(LocalType) /\ s2 \in Seq(Nat)
          /\ \A i \in 2 .. Len(s2) : s2[i] > decls /\ ~ls2[i].captured
    BY <1>0, BeginLayout
  <1>4. /\ Len(fs') = L + 1
        /\ fs'[L].locals = ls1 /\ fs'[L + 1].locals = ls2
        /\ \A k \in 1 .. L : k # L => fs'[k] = fs[k]
    <2>. DEFINE f1 == [locals |-> ls1, depth |-> Fun.depth]
                f2 == [locals |-> ls2, depth |-> 1]
    <2>1. ls1 \in Seq(LocalType) BY <1>3 DEF Grows
    <2>2. f1 \in FunType /\ f2 \in FunType /\ f1.locals = ls1 /\ f2.locals = ls2
      BY <1>1, <1>3, <2>1 DEF FunType
    <2>3. fs' = Append([fs EXCEPT ![L] = f1], f2) BY <1>1, <1>3
    <2>. HIDE DEF f1, f2
    <2>. QED BY <1>1, <2>2, <2>3, Pushed
  <1>5. /\ slots'[L] = s1 /\ slots'[L + 1] = s2
        /\ \A k \in 1 .. L : k # L => slots'[k] = slots[k]
    <2>1. s1 \in Seq(Nat) /\ s2 \in Seq(Nat) BY <1>3 DEF Grows
    <2>2. slots' = Append([slots EXCEPT ![Len(slots)] = s1], s2) BY <1>1, <1>3
    <2>3. LET q == slots
              K == Len(q)
              r == Append([q EXCEPT ![K] = s1], s2)
          IN  /\ Len(r) = K + 1 /\ r[K] = s1 /\ r[K + 1] = s2
              /\ \A k \in 1 .. K : k # K => r[k] = q[k]
      BY <1>1, <2>1, Pushed
    <2>. QED BY <1>1, <2>2, <2>3
  <1>6. /\ means' = Append(means, <<>>) /\ UNCHANGED <<upvalues, boxed>>
        /\ L < Len(MaxDepth)
    BY <1>1 DEF BeginFn
  <1>7. /\ means \in Seq(Seq(Nat)) /\ Len(means) = L /\ upvalues \in Seq(Entry)
        /\ boxed \subseteq 0 .. decls
        /\ \A k \in 1 .. L : k < Len(MaxDepth) => means[k] = <<>>
    BY DEF UInv, UType
  <1>8. /\ means' \in Seq(Seq(Nat)) /\ Len(means') = L + 1 /\ means'[L + 1] = <<>>
        /\ \A k \in 1 .. L : means'[k] = means[k]
    <2>1. <<>> \in Seq(Nat) OBVIOUS
    <2>2. /\ Append(means, <<>>) \in Seq(Seq(Nat)) /\ Len(Append(means, <<>>)) = Len(means) + 1
          /\ Append(means, <<>>)[Len(means) + 1] = <<>>
          /\ \A k \in 1 .. Len(means) : Append(means, <<>>)[k] = means[k]
      BY <2>1, <1>7, AppendProperties
    <2>. QED BY <2>2, <1>6, <1>7
  <1>. HIDE DEF L
  <1>9. \A k \in 1 .. L + 1 : (k \in 1 .. L /\ k < L) \/ k = L \/ k = L + 1 BY ONLY <1>1
  <1>10. UType'
    <2>1. \A v \in 0 .. decls : v \in 0 .. decls' BY ONLY <1>1, <1>2
    <2>2. \A k \in 1 .. L : k < Len(MaxDepth)
      <3>1. Len(MaxDepth) \in Nat BY LenProperties, ScopesAssumption
      <3>. QED BY ONLY <3>1, <1>1, <1>6
    <2>3. \A k \in 1 .. L + 1 : means'[k] = <<>> BY <2>2, <1>1, <1>7, <1>8, <1>9
    <2>4. boxed' \subseteq 0 .. decls' BY <2>1, <1>6, <1>7
    <2>. QED BY <2>3, <2>4, <1>4, <1>6, <1>7, <1>8 DEF UType
  <1>11. Steady
    <2>1. ASSUME NEW k \in 1 .. L + 1, NEW i \in 2 .. Len(slots'[k])
          PROVE \/ /\ k <= L /\ i \in 2 .. Len(slots[k])
                   /\ slots'[k][i] = slots[k][i] /\ fs'[k].locals[i] = fs[k].locals[i]
                \/ /\ k >= L /\ slots'[k][i] > decls
                   /\ ~fs'[k].locals[i].captured
      <3>1. CASE k \in 1 .. L /\ k < L
        <4>1. k <= L /\ k # L BY <3>1, <1>1
        <4>. QED BY <4>1, <3>1, <1>4, <1>5
      <3>2. CASE k = L
        <4>1. k <= L /\ k >= L BY <3>2, <1>1
        <4>2. i \in 2 .. Len(s1) BY <3>2, <1>5
        <4>3. /\ Len(s1) = Len(slots[L]) + Len(own) /\ Len(slots[L]) \in Nat /\ Len(own) \in Nat
              /\ \A j \in 1 .. Len(slots[L]) : ls1[j] = Fun.locals[j] /\ s1[j] = slots[L][j]
              /\ \A j \in 1 .. Len(own) : /\ ~ls1[Len(slots[L]) + j].captured
                                          /\ s1[Len(slots[L]) + j] = decls + j
          BY <1>1, <1>3, LenProperties DEF Grows
        <4>4. CASE i <= Len(slots[L])
          <5>1. i \in 2 .. Len(s1) BY <4>2
          <5>2. i \in 2 .. Len(slots[L]) /\ i \in 1 .. Len(slots[L]) BY ONLY <4>3, <4>4, <5>1
          <5>3. Fun = fs[L] BY <1>0, <1>1, Current
          <5>. QED BY <4>1, <4>3, <5>2, <5>3, <3>2, <1>4, <1>5
        <4>5. CASE ~(i <= Len(slots[L]))
          <5>1. /\ i - Len(slots[L]) \in 1 .. Len(own)
                /\ Len(slots[L]) + (i - Len(slots[L])) = i
            BY ONLY <4>2, <4>3, <4>5
          <5>2. s1[i] = decls + (i - Len(slots[L])) /\ ~ls1[i].captured
            BY <4>3, <5>1
          <5>3. decls + (i - Len(slots[L])) > decls
            <6>1. decls \in Nat BY <1>1
            <6>2. \A q \in 1 .. Len(own) : q \in Nat /\ q > 0 BY <4>3
            <6>3. \A q \in Nat : q > 0 => decls + q > decls BY ONLY <6>1
            <6>. QED BY <5>1, <6>2, <6>3
          <5>. QED BY <4>1, <5>2, <5>3, <3>2, <1>4, <1>5
        <4>. QED BY <4>4, <4>5
      <3>3. CASE k = L + 1
        <4>1. k >= L BY <3>3, <1>1
        <4>2. s2[i] > decls /\ ~ls2[i].captured BY <3>3, <1>3, <1>5
        <4>. QED BY <4>1, <4>2, <3>3, <1>4, <1>5
      <3>. QED BY <3>1, <3>2, <3>3, <1>9
    <2>. QED BY <2>1, <1>4 DEF Steady, L
  <1>12. FlagsFit'
    <2>1. ASSUME NEW k \in 1 .. L + 1, NEW v
          PROVE v \in Taken(k)' <=> v \in boxed \/ (k < L /\ v \in ToSet(means[k + 1]))
      <3>1. CASE k \in 1 .. L /\ k < L
        <4>1. k + 1 \in 1 .. L /\ k < L + 1 BY ONLY <3>1, <1>1
        <4>. QED BY <4>1, <3>1, <1>4, <1>6, <1>8 DEF Taken
      <3>2. CASE k = L
        <4>1. ~(k < L) /\ k < L + 1 BY ONLY <3>2, <1>1
        <4>2. ToSet(means'[k + 1]) = {} BY <3>2, <1>8 DEF ToSet
        <4>. QED BY <4>1, <4>2, <1>4, <1>6 DEF Taken
      <3>3. CASE k = L + 1
        <4>1. ~(k < L) /\ ~(k < L + 1) BY ONLY <3>3, <1>1
        <4>. QED BY <4>1, <1>4, <1>6 DEF Taken
      <3>. QED BY <3>1, <3>2, <3>3, <1>9
    <2>2. \A k \in 1 .. Len(fs') : \A v : v \in Taken(k)' <=>
            v \in boxed \/ (k < Len(fs) /\ v \in ToSet(means[k + 1]))
      BY <2>1, <1>4 DEF L
    <2>. QED BY <2>2, <1>6, <1>11, SteadyFlags
  <1>13. EntriesFit'
    <2>1. Len(means'[Len(fs')]) = 0 BY <1>4, <1>8
    <2>2. Len(upvalues') >= 0 BY <1>6, <1>7, LenProperties
    <2>. QED BY <2>1, <2>2 DEF EntriesFit
  <1>. QED BY <1>2, <1>10, <1>12, <1>13 DEF UInv

(* What the entries of the function being compiled stand for.              *)
LEMMA EntryAt ==
  ASSUME UInv, NEW i \in 1 .. Len(means[Len(fs)])
  PROVE  LET L == Len(fs)
             e == upvalues[i]
         IN  /\ L > 1 /\ L - 1 \in 1 .. L /\ e.local /\ e.idx \in 2 .. Len(slots[L - 1])
             /\ slots[L - 1][e.idx] = means[L][i]
             /\ fs[L - 1].locals[e.idx].captured
             /\ means[L][i] \in 0 .. decls
             /\ \A k \in 1 .. L - 2 : means[L][i] \notin ToSet(slots[k])
  <1>. DEFINE L == Len(fs)
              e == upvalues[i]
              v == means[L][i]
  <1>1. /\ L > 1 /\ e.local /\ e.idx \in 2 .. Len(slots[L - 1]) /\ slots[L - 1][e.idx] = v
        /\ fs[L - 1].locals[e.idx].captured
    BY DEF UInv, EntriesFit, EntryFits
  <1>2. L \in Nat /\ Layout(fs, slots, env, decls) BY LayoutFacts DEF UInv, SInv
  <1>. HIDE DEF L, e, v
  <1>3. L - 1 \in 1 .. L BY ONLY <1>1, <1>2
  <1>4. /\ Len(slots[L - 1]) \in Nat /\ Len(slots) = L
        /\ \A m \in 1 .. Len(slots[L - 1]) : slots[L - 1][m] \in 0 .. decls
    <2>1. /\ Len(fs[L - 1].locals) \in Nat \ {0} /\ Len(slots[L - 1]) \in 1 .. Len(fs[L - 1].locals)
          /\ \A m \in 1 .. Len(slots[L - 1]) : slots[L - 1][m] \in 0 .. decls
      BY <1>2, <1>3, SlotsBelow DEF L
    <2>2. Len(slots) = L BY <1>2, LayoutFacts DEF L
    <2>. QED BY <2>1, <2>2
  <1>5. v \in 0 .. decls
    <2>1. e.idx \in 1 .. Len(slots[L - 1])
      <3>1. e.idx \in 2 .. Len(slots[L - 1]) /\ Len(slots[L - 1]) \in Nat BY <1>1, <1>4
      <3>. QED BY ONLY <3>1
    <2>. QED BY <1>1, <1>4, <2>1
  <1>6. ASSUME NEW k \in 1 .. L - 2 PROVE v \notin ToSet(slots[k])
    <2>1. k \in 1 .. L /\ k < L - 1 BY ONLY <1>2, k \in 1 .. L - 2
    <2>2. DOMAIN slots[k] = 1 .. Len(slots[k]) /\ Len(slots[k]) \in Nat
      BY <1>2, <2>1, LayoutFacts, LenProperties DEF L
    <2>3. InnerLater(slots) BY <1>2 DEF Layout
    <2>4. \A m \in 1 .. Len(slots[k]) : slots[k][m] < v
      BY <2>1, <2>3, <1>1, <1>3, <1>4 DEF InnerLater
    <2>5. ~(v < v) BY <1>5
    <2>. QED BY <2>2, <2>4, <2>5 DEF ToSet
  <1>. QED BY <1>1, <1>3, <1>5, <1>6 DEF L, e, v

(* OP_CLOSURE captures what the body was compiled for.                     *)
LEMMA CapturesMeans ==
  ASSUME UInv, Len(fs) > 1
  PROVE  /\ Captures = means[Len(fs)] /\ Last(means) = means[Len(fs)]
         /\ means[Len(fs)] \in Seq(Nat) /\ DOMAIN means[Len(fs)] = 1 .. Len(means[Len(fs)])
  <1>. DEFINE L == Len(fs)
              m == means[L]
  <1>1. Level = L /\ L \in Nat \ {0} BY Current DEF UInv
  <1>2. means \in Seq(Seq(Nat)) /\ Len(means) = L BY DEF UInv, UType
  <1>3. Last(means) = m
    <2>1. means # <<>> BY <1>1, <1>2
    <2>. QED BY <1>2, <2>1, Ends
  <1>4. m \in Seq(Nat) BY <1>1, <1>2, ElementOfSeq
  <1>5. DOMAIN m = 1 .. Len(m) BY <1>4, LenProperties
  <1>6. ASSUME NEW i \in 1 .. Len(m)
        PROVE At((IF upvalues[i].local THEN slots ELSE means)[Level - 1], upvalues[i].idx) = m[i]
    <2>1. /\ L - 1 \in 1 .. L /\ upvalues[i].local
          /\ upvalues[i].idx \in 2 .. Len(slots[L - 1]) /\ slots[L - 1][upvalues[i].idx] = m[i]
      BY EntryAt
    <2>2. Len(slots[L - 1]) \in Nat /\ DOMAIN slots[L - 1] = 1 .. Len(slots[L - 1])
      <3>1. slots[L - 1] \in Seq(Nat) BY <2>1, LayoutFacts DEF UInv, SInv
      <3>. QED BY <3>1, LenProperties
    <2>. HIDE DEF L
    <2>3. upvalues[i].idx \in 1 .. Len(slots[L - 1]) BY <2>1, <2>2
    <2>. QED BY <2>1, <2>2, <2>3, <1>1 DEF At
  <1>7. Captures = [i \in 1 .. Len(m) |-> m[i]] BY <1>3, <1>5, <1>6 DEF Captures
  <1>8. m = [i \in 1 .. Len(m) |-> m[i]] BY <1>4, <1>5
  <1>. QED BY <1>3, <1>4, <1>5, <1>7, <1>8

(* fn ends: the closure is made.                                           *)
LEMMA EndFnUInv ==
  ASSUME UInv, EndFn
  PROVE  UInv'
  <1>. DEFINE L == Len(fs)
              m == means[L]
  <1>0. SInv BY DEF UInv
  <1>1. Level = L /\ L \in Nat \ {0} /\ L > 1 /\ decls \in Nat
    <2>1. Level = L /\ L \in Nat \ {0} /\ decls \in Nat BY <1>0, Current
    <2>. QED BY <2>1 DEF EndFn
  <1>2. /\ Captures = m /\ m \in Seq(Nat) /\ DOMAIN m = 1 .. Len(m)
    BY <1>1, CapturesMeans
  <1>3. /\ fs' = Front(fs) /\ slots' = Front(slots) /\ means' = Front(means)
        /\ boxed' = boxed \cup ToSet(m)
        /\ UNCHANGED <<upvalues, decls>>
    BY <1>2 DEF EndFn
  <1>4. /\ Len(fs') = L - 1 /\ \A k \in 1 .. L - 1 : fs'[k] = fs[k]
    <2>1. fs \in Seq(FunType) /\ fs # <<>> BY <1>0 DEF SInv, Layout
    <2>. QED BY <2>1, <1>3, Ends
  <1>5. \A k \in 1 .. L - 1 : slots'[k] = slots[k]
    <2>1. slots \in Seq(Seq(Nat)) /\ Len(slots) = L BY <1>0 DEF SInv, Layout
    <2>2. slots # <<>> BY <2>1, <1>1
    <2>3. \A k \in 1 .. Len(slots) - 1 : Front(slots)[k] = slots[k] BY <2>1, <2>2, Ends
    <2>. QED BY <2>1, <2>3, <1>3
  <1>6. /\ means \in Seq(Seq(Nat)) /\ Len(means) = L /\ upvalues \in Seq(Entry)
        /\ boxed \subseteq 0 .. decls
        /\ \A k \in 1 .. L : k < Len(MaxDepth) => means[k] = <<>>
    BY DEF UInv, UType
  <1>7. means' \in Seq(Seq(Nat)) /\ Len(means') = L - 1 /\ \A k \in 1 .. L - 1 : means'[k] = means[k]
    <2>1. means # <<>> BY <1>1, <1>6
    <2>2. /\ Front(means) \in Seq(Seq(Nat)) /\ Len(Front(means)) = Len(means) - 1
          /\ \A k \in 1 .. Len(means) - 1 : Front(means)[k] = means[k]
      BY <1>6, <2>1, Ends
    <2>. QED BY <2>2, <1>3, <1>6
  <1>8. SInv' BY <1>0, EndFnLayout
  <1>9. ASSUME NEW i \in 1 .. Len(m)
        PROVE  /\ m[i] \in 0 .. decls
               /\ \A k \in 1 .. L - 2 : m[i] \notin ToSet(slots[k])
    BY EntryAt
  <1>10. L <= Len(MaxDepth) /\ Len(MaxDepth) \in Nat
    BY <1>0, LenProperties, ScopesAssumption DEF SInv, Layout
  <1>. HIDE DEF L, m
  <1>11. \A k \in 1 .. L - 1 : k \in 1 .. L /\ k < Len(MaxDepth) BY ONLY <1>1, <1>10
  <1>12. boxed' \subseteq 0 .. decls BY <1>2, <1>3, <1>6, <1>9 DEF ToSet
  <1>13. UType'
    <2>1. \A k \in 1 .. L - 1 : means'[k] = <<>> BY <1>6, <1>7, <1>11
    <2>2. boxed' \subseteq 0 .. decls' BY <1>3, <1>6, <1>12
    <2>. QED BY <2>1, <2>2, <1>3, <1>4, <1>6, <1>7 DEF UType
  <1>14. FlagsFit'
    <2>1. ASSUME NEW k \in 1 .. L - 1, NEW i \in 2 .. Len(slots[k])
          PROVE fs[k].locals[i].captured <=> slots[k][i] \in Taken(k)'
      <3>1. k \in 1 .. L BY <1>11
      <3>2. fs[k].locals[i].captured <=> slots[k][i] \in Taken(k)
        BY <3>1 DEF UInv, FlagsFit, L
      <3>3. slots[k][i] \in Taken(k)' <=> slots[k][i] \in Taken(k)
        <4>1. CASE k = L - 1
          <5>1. ~(k < L - 1) /\ k < L /\ k + 1 = L BY ONLY <4>1, <1>1
          <5>2. Taken(k)' = boxed' BY <5>1, <1>4 DEF Taken
          <5>3. Taken(k) = boxed \cup ToSet(m) BY <5>1 DEF Taken, L, m
          <5>. QED BY <5>2, <5>3, <1>3
        <4>2. CASE k # L - 1
          <5>1. k < L - 1 /\ k < L /\ k + 1 \in 1 .. L - 1 /\ k \in 1 .. L - 2
            BY ONLY <4>2, <1>1, k \in 1 .. L - 1
          <5>2. Taken(k)' = boxed' \cup ToSet(means[k + 1]) BY <5>1, <1>4, <1>7 DEF Taken
          <5>3. Taken(k) = boxed \cup ToSet(means[k + 1]) BY <5>1 DEF Taken, L
          <5>4. slots[k][i] \notin ToSet(m)
            <6>1. slots[k] \in Seq(Nat) BY <3>1, <1>0, LayoutFacts DEF SInv, L
            <6>2. DOMAIN slots[k] = 1 .. Len(slots[k]) /\ Len(slots[k]) \in Nat
              BY <6>1, LenProperties
            <6>3. i \in 1 .. Len(slots[k])
              <7>1. i \in 2 .. Len(slots[k]) OBVIOUS
              <7>. QED BY ONLY <6>2, <7>1
            <6>4. slots[k][i] \in ToSet(slots[k]) BY <6>2, <6>3 DEF ToSet
            <6>5. \A q \in 1 .. Len(m) : m[q] \notin ToSet(slots[k]) BY <5>1, <1>9
            <6>. QED BY <6>4, <6>5, <1>2 DEF ToSet
          <5>. QED BY <5>2, <5>3, <5>4, <1>3
        <4>. QED BY <4>1, <4>2
      <3>. QED BY <3>2, <3>3
    <2>. QED BY <2>1, <1>3, <1>4, <1>5 DEF FlagsFit
  <1>15. EntriesFit'
    <2>1. L - 1 \in 1 .. L - 1 BY <1>1
    <2>2. means'[Len(fs')] = <<>> BY <2>1, <1>4, <1>6, <1>7, <1>11
    <2>3. Len(upvalues') >= 0 BY <1>3, <1>6, LenProperties
    <2>. QED BY <2>2, <2>3 DEF EntriesFit
  <1>. QED BY <1>8, <1>13, <1>14, <1>15 DEF UInv

(* The owner of a name is the function around the one being compiled.      *)
LEMMA OwnersLast ==
  ASSUME SInv, Shallow, NEW n, n # NoName, Owners(n) # {}
  PROVE  Max(Owners(n)) = Len(fs) - 1 /\ Len(fs) = Len(MaxDepth)
  <1>. DEFINE j == Max(Owners(n))
              i == FindLocal(j, n)
              L == Len(fs)
  <1>1. /\ j \in 1 .. Level - 1 /\ j \in 1 .. L /\ i \in 2 .. Len(slots[j])
    BY OwnerFacts
  <1>2. Level = L /\ L \in Nat \ {0} BY Current
  <1>3. /\ Fits(fs[j].locals, slots[j], fs[j].depth, decls) /\ fs[j].depth \in Nat
        /\ fs[j].depth <= MaxDepth[j]
    BY <1>1, LayoutFacts DEF SInv
  <1>4. L <= Len(MaxDepth) /\ Len(MaxDepth) \in Nat /\ \A k \in 1 .. Len(MaxDepth) : MaxDepth[k] \in Nat
    BY LenProperties, ElementOfSeq, ScopesAssumption DEF SInv, Layout
  <1>. HIDE DEF j, i, L
  <1>5. j \in 1 .. Len(MaxDepth) BY ONLY <1>1, <1>2, <1>4
  <1>6. fs[j].locals[i].depth \in 1 .. fs[j].depth BY <1>1, <1>3 DEF Fits
  <1>7. MaxDepth[j] # 0
    <2>1. MaxDepth[j] \in Nat BY <1>4, <1>5
    <2>2. \A q \in 1 .. fs[j].depth : fs[j].depth # 0 BY <1>3
    <2>. QED BY <1>3, <1>6, <2>1, <2>2
  <1>8. j \notin 1 .. Len(MaxDepth) - 2 BY <1>7 DEF Shallow
  <1>9. j = L - 1 /\ L = Len(MaxDepth)
    <2>1. j \in 1 .. L - 1 BY <1>1, <1>2
    <2>. QED BY ONLY <2>1, <1>2, <1>4, <1>8
  <1>. QED BY <1>9 DEF j, L

(* get_upval has one function to go through then.                          *)
LEMMA WalkOne ==
  ASSUME SInv, Shallow, NEW n, n # NoName, Owners(n) # {}, NEW junk
  PROVE  LET L == Len(fs)
             j == L - 1
             i == FindLocal(j, n)
             e == [idx |-> i, local |-> TRUE, fixed |-> fs[j].locals[i].fixed]
         IN  GetUpval(n, junk) =
               AddEntry([arr |-> upvalues, means |-> means, idx |-> i], L, e, slots[j][i])
  <1>. DEFINE L == Len(fs)
              j == L - 1
              i == FindLocal(j, n)
              v == At(slots[j], i)
              e == [idx |-> i, local |-> TRUE, fixed |-> fs[j].locals[i].fixed]
              a == [arr |-> upvalues, means |-> means, idx |-> i]
              r == AddEntry(a, L, e, slots[j][i])
              W == [k \in j .. L |-> IF k = j THEN a ELSE r]
              walk == CHOOSE w : w = [k \in j .. L |->
                        IF k = j THEN a
                        ELSE AddUpval(w[k - 1], k, k = j + 1, FixedAt(k - 1, w[k - 1].idx, junk), v)]
  <1>1. Max(Owners(n)) = j /\ Level = L /\ L \in Nat BY OwnersLast, Current
  <1>2. /\ i \in 2 .. Len(slots[j]) /\ j \in 1 .. L /\ Len(slots[j]) = Len(fs[j].locals)
    BY <1>1, OwnerFacts
  <1>3. DOMAIN slots[j] = 1 .. Len(slots[j]) /\ DOMAIN fs[j].locals = 1 .. Len(fs[j].locals)
    BY <1>2, SlotsBelow DEF SInv
  <1>4. GetUpval(n, junk) = walk[L] BY <1>1 DEF GetUpval
  <1>. HIDE DEF L
  <1>5. /\ \A k \in j .. L : k = j \/ (k = L /\ k # j /\ k - 1 = j /\ k = j + 1)
        /\ j \in j .. L /\ L \in j .. L /\ L # j
    BY ONLY <1>1
  <1>. HIDE DEF j, i
  <1>6. i \in 1 .. Len(slots[j])
    BY <1>2
  <1>7. v = slots[j][i] /\ FixedAt(j, i, junk) = fs[j].locals[i].fixed
    BY <1>2, <1>3, <1>6 DEF At, FixedAt
  <1>8. AddUpval(a, L, TRUE, FixedAt(j, i, junk), v) = r BY <1>7 DEF AddUpval
  <1>. HIDE DEF a, r, v
  <1>9. a.idx = i BY DEF a
  <1>10. ASSUME NEW w, w = [k \in j .. L |->
           IF k = j THEN a
           ELSE AddUpval(w[k - 1], k, k = j + 1, FixedAt(k - 1, w[k - 1].idx, junk), v)]
         PROVE  w[L] = r
    <2>1. w[j] = a BY <1>5, <1>10
    <2>2. w[L] = AddUpval(w[L - 1], L, L = j + 1, FixedAt(L - 1, w[L - 1].idx, junk), v)
      BY <1>5, <1>10
    <2>3. L - 1 = j /\ (L = j + 1) = TRUE BY <1>5
    <2>. QED BY <2>1, <2>2, <2>3, <1>8, <1>9
  <1>11. W = [k \in j .. L |->
           IF k = j THEN a
           ELSE AddUpval(W[k - 1], k, k = j + 1, FixedAt(k - 1, W[k - 1].idx, junk), v)]
    <2>1. ASSUME NEW k \in j .. L, k # j
          PROVE  AddUpval(W[k - 1], k, k = j + 1, FixedAt(k - 1, W[k - 1].idx, junk), v) = r
      <3>1. k = L /\ k - 1 = j /\ (k = j + 1) = TRUE BY <2>1, <1>5
      <3>2. W[k - 1] = a BY <3>1, <1>5
      <3>. HIDE DEF W
      <3>. QED BY <3>1, <3>2, <1>8, <1>9
    <2>. QED BY <2>1
  <1>12. walk = [k \in j .. L |->
           IF k = j THEN a
           ELSE AddUpval(walk[k - 1], k, k = j + 1, FixedAt(k - 1, walk[k - 1].idx, junk), v)]
    BY <1>11
  <1>. HIDE DEF walk, W
  <1>13. walk[L] = r BY <1>10, <1>12
  <1>. QED BY <1>4, <1>13 DEF L, j, i, r, a, e

(* add_upval for a function finds the entry of the local or makes it.      *)
LEMMA EntryMade ==
  ASSUME UInv, Shallow, NEW n, n # NoName, Owners(n) # {}, NEW junk
  PROVE  LET L == Len(fs)
             j == L - 1
             i == FindLocal(j, n)
             m == means[L]
             v == slots[j][i]
             e == [idx |-> i, local |-> TRUE, fixed |-> fs[j].locals[i].fixed]
             g == GetUpval(n, junk)
         IN  /\ g.means[L][g.idx] = v
             /\ \/ g.arr = upvalues /\ g.means = means /\ v \in ToSet(m)
                \/ /\ g.means = [means EXCEPT ![L] = Append(m, v)]
                   /\ g.arr \in Seq(Entry) /\ Len(g.arr) >= Len(m) + 1
                   /\ \A q \in 1 .. Len(m) : g.arr[q] = upvalues[q]
                   /\ g.arr[Len(m) + 1] = e
  <1>. DEFINE L == Len(fs)
              j == L - 1
              i == FindLocal(j, n)
              m == means[L]
              v == slots[j][i]
              e == [idx |-> i, local |-> TRUE, fixed |-> fs[j].locals[i].fixed]
              g == GetUpval(n, junk)
              a == [arr |-> upvalues, means |-> means, idx |-> i]
              same == {q \in 1 .. Len(m) : upvalues[q].idx = i /\ upvalues[q].local = TRUE}
  <1>0. SInv BY DEF UInv
  <1>1. g = AddEntry(a, L, e, v) BY <1>0, WalkOne
  <1>2. Max(Owners(n)) = j /\ Level = L /\ L \in Nat \ {0} BY <1>0, OwnersLast, Current
  <1>3. /\ i \in 2 .. Len(slots[j]) /\ j \in 1 .. L /\ Len(slots[j]) = Len(fs[j].locals)
    BY <1>0, <1>2, OwnerFacts
  <1>4. /\ means \in Seq(Seq(Nat)) /\ Len(means) = L /\ upvalues \in Seq(Entry)
        /\ Len(m) <= Len(upvalues)
    BY DEF UInv, UType, EntriesFit
  <1>5. m \in Seq(Nat) /\ L \in DOMAIN means
    <2>1. L \in 1 .. Len(means) BY <1>2, <1>4
    <2>. QED BY <2>1, <1>4, ElementOfSeq, LenProperties
  <1>6. Len(m) \in Nat /\ Len(upvalues) \in Nat BY <1>4, <1>5, LenProperties
  <1>7. e \in Entry
    <2>1. fs[j].locals \in Seq(LocalType) BY <1>0, <1>3, LayoutFacts DEF SInv
    <2>2. fs[j].locals[i] \in LocalType
      <3>1. Len(fs[j].locals) \in Nat BY <2>1, LenProperties
      <3>2. i \in 1 .. Len(fs[j].locals) BY <1>3, <3>1
      <3>. HIDE DEF i, j
      <3>. QED BY <2>1, <3>2, ElementOfSeq
    <2>. QED BY <1>3, <2>2 DEF Entry, LocalType
  <1>8. \A q \in 1 .. Len(m) : /\ upvalues[q].idx \in 2 .. Len(slots[j])
                              /\ slots[j][upvalues[q].idx] = m[q]
    BY EntryAt
  <1>9. a.arr = upvalues /\ a.means = means /\ a.idx = i /\ e.idx = i /\ e.local = TRUE OBVIOUS
  <1>. HIDE DEF e, L
  <1>10. CASE same # {}
    <2>1. g = [a EXCEPT !.idx = Min(same)]
      <3>. DEFINE has == {q \in 1 .. Len(a.means[L]) : a.arr[q].idx = e.idx /\ a.arr[q].local = e.local}
      <3>1. has = same BY <1>9
      <3>2. g = IF has # {} THEN [a EXCEPT !.idx = Min(has)]
                ELSE [arr   |-> IF Len(a.means[L]) = Len(a.arr) THEN Append(a.arr, e)
                                ELSE [a.arr EXCEPT ![Len(a.means[L]) + 1] = e],
                      means |-> [a.means EXCEPT ![L] = Append(@, v)],
                      idx   |-> Len(a.means[L]) + 1]
        BY ONLY <1>1 DEF AddEntry
      <3>. HIDE DEF has, same, a
      <3>. QED BY <3>1, <3>2, <1>10
    <2>2. Min(same) \in same
      <3>1. same \subseteq Nat OBVIOUS
      <3>2. \E x \in same : \A y \in same : x <= y BY <1>10, <3>1, LeastExists
      <3>. HIDE DEF same
      <3>. QED BY <3>2 DEF Min
    <2>3. g.arr = upvalues /\ g.means = means /\ g.idx = Min(same) BY <2>1
    <2>4. PICK q \in 1 .. Len(m) : q = Min(same) /\ upvalues[q].idx = i BY <2>2
    <2>5. m[q] = v BY <1>8, <2>4
    <2>6. v \in ToSet(m)
      <3>1. DOMAIN m = 1 .. Len(m) BY <1>5, LenProperties
      <3>. QED BY <3>1, <2>4, <2>5 DEF ToSet
    <2>7. g.means[L][g.idx] = v BY <2>3, <2>4, <2>5
    <2>. HIDE DEF g, m, v, same
    <2>8. g.means[L][g.idx] = v /\ g.arr = upvalues /\ g.means = means /\ v \in ToSet(m)
      BY <2>3, <2>6, <2>7
    <2>. QED BY <2>8 DEF L, e, g, m, v
  <1>11. CASE same = {}
    <2>. DEFINE b == IF Len(m) = Len(upvalues) THEN Append(upvalues, e)
                     ELSE [upvalues EXCEPT ![Len(m) + 1] = e]
    <2>1. g = [arr   |-> b,
               means |-> [means EXCEPT ![L] = Append(m, v)],
               idx   |-> Len(m) + 1]
      BY <1>1, <1>9, <1>11, <1>5 DEF AddEntry
    <2>2. g.arr = b /\ g.means = [means EXCEPT ![L] = Append(m, v)] /\ g.idx = Len(m) + 1
      BY <2>1
    <2>3. /\ b \in Seq(Entry) /\ Len(b) >= Len(m) + 1
          /\ \A q \in 1 .. Len(m) : b[q] = upvalues[q]
          /\ b[Len(m) + 1] = e
      <3>1. CASE Len(m) = Len(upvalues)
        <4>1. /\ Append(upvalues, e) \in Seq(Entry)
              /\ Len(Append(upvalues, e)) = Len(upvalues) + 1
              /\ \A q \in 1 .. Len(upvalues) : Append(upvalues, e)[q] = upvalues[q]
              /\ Append(upvalues, e)[Len(upvalues) + 1] = e
          BY <1>4, <1>7, AppendProperties
        <4>2. b = Append(upvalues, e) BY <3>1
        <4>. HIDE DEF b, m
        <4>3. Len(b) = Len(m) + 1 BY <4>1, <4>2, <3>1
        <4>4. Len(b) >= Len(m) + 1
          <5>1. \A x \in Nat : x + 1 >= x + 1 OBVIOUS
          <5>. QED BY <5>1, <4>3, <1>6
        <4>. QED BY <4>1, <4>2, <4>4, <3>1
      <3>2. CASE Len(m) # Len(upvalues)
        <4>. DEFINE p == Len(m) + 1
        <4>1. p \in 1 .. Len(upvalues) /\ Len(upvalues) >= p /\ \A q \in 1 .. Len(m) : q # p /\ q \in 1 .. Len(upvalues)
          BY ONLY <1>4, <1>6, <3>2
        <4>2. b = [upvalues EXCEPT ![p] = e] BY <3>2
        <4>. HIDE DEF b, m, p
        <4>3. /\ [upvalues EXCEPT ![p] = e] \in Seq(Entry)
              /\ Len([upvalues EXCEPT ![p] = e]) = Len(upvalues)
              /\ \A q \in 1 .. Len(upvalues) :
                   [upvalues EXCEPT ![p] = e][q] = IF q = p THEN e ELSE upvalues[q]
          BY <4>1, <1>4, <1>7, ExceptSeq
        <4>. QED BY <4>1, <4>2, <4>3 DEF p
      <3>. QED BY <3>1, <3>2
    <2>4. Append(m, v)[Len(m) + 1] = v
      <3>1. v \in Nat
        <4>1. slots[j] \in Seq(Nat) BY <1>0, <1>3, LayoutFacts DEF SInv, L
        <4>2. Len(slots[j]) \in Nat BY <4>1, LenProperties
        <4>3. i \in 1 .. Len(slots[j]) BY <1>3, <4>2
        <4>. HIDE DEF i, j
        <4>. QED BY <4>1, <4>3, ElementOfSeq
      <3>. HIDE DEF m, v
      <3>. QED BY <3>1, <1>5, AppendProperties
    <2>. HIDE DEF b, v, m, g
    <2>5. g.means[L] = Append(m, v) BY <2>2, <1>5
    <2>6. g.means[L][g.idx] = v BY <2>2, <2>4, <2>5
    <2>7. /\ g.arr \in Seq(Entry) /\ Len(g.arr) >= Len(m) + 1
          /\ \A q \in 1 .. Len(m) : g.arr[q] = upvalues[q]
          /\ g.arr[Len(m) + 1] = e
      BY <2>2, <2>3
    <2>. QED BY <2>2, <2>6, <2>7 DEF L, e, g, m, v
  <1>. QED BY <1>10, <1>11

(* The use of a variable of the function around.                           *)
LEMMA CaptureUInv ==
  ASSUME UInv, ~Adjacent, Shallow, NEW n \in Names \cup FnNames, NEW junk, Capture(n, junk)
  PROVE  UInv'
  <1>. DEFINE L == Len(fs)
              j == L - 1
              i == FindLocal(j, n)
              m == means[L]
              s == slots[j]
              v == s[i]
              ls == fs[j].locals
              e == [idx |-> i, local |-> TRUE, fixed |-> ls[i].fixed]
              g == GetUpval(n, junk)
  <1>0. SInv /\ n # NoName BY ScopesAssumption DEF UInv
  <1>1. /\ Owners(n) # {} /\ upvalues' = g.arr /\ means' = g.means
        /\ UNCHANGED <<slots, boxed, decls>>
    BY DEF Capture
  <1>2. Max(Owners(n)) = j /\ L = Len(MaxDepth) /\ Level = L /\ L \in Nat \ {0}
    BY <1>0, <1>1, OwnersLast, Current
  <1>3. /\ i \in 2 .. Len(s) /\ j \in 1 .. L /\ j < L /\ Len(s) = Len(ls)
    BY <1>0, <1>1, <1>2, OwnerFacts
  <1>4. /\ SInv'
        /\ LET o == Max(Owners(n))
           IN  \E ls2 : /\ Marks(fs[o].locals, FindLocal(o, n), ls2)
                        /\ fs' = [fs EXCEPT ![o] = [locals |-> ls2, depth |-> fs[o].depth]]
    BY <1>0, CaptureLayout
  <1>5. PICK ls2 : Marks(ls, i, ls2) /\ fs' = [fs EXCEPT ![j] = [locals |-> ls2, depth |-> fs[j].depth]]
    BY <1>2, <1>4
  <1>6. \/ g.arr = upvalues /\ g.means = means /\ v \in ToSet(m)
        \/ /\ g.means = [means EXCEPT ![L] = Append(m, v)]
           /\ g.arr \in Seq(Entry) /\ Len(g.arr) >= Len(m) + 1
           /\ \A q \in 1 .. Len(m) : g.arr[q] = upvalues[q]
           /\ g.arr[Len(m) + 1] = e
    BY <1>0, <1>1, EntryMade
  <1>. HIDE DEF g, e
  <1>7. \/ upvalues' = upvalues /\ means' = means /\ v \in ToSet(m)
        \/ /\ means' = [means EXCEPT ![L] = Append(m, v)]
           /\ upvalues' \in Seq(Entry) /\ Len(upvalues') >= Len(m) + 1
           /\ \A q \in 1 .. Len(m) : upvalues'[q] = upvalues[q]
           /\ upvalues'[Len(m) + 1] = e
    BY <1>1, <1>6
  <1>8. /\ DOMAIN fs = 1 .. L /\ s \in Seq(Nat) /\ DOMAIN s = 1 .. Len(s) /\ Len(s) \in Nat
        /\ \A p, q \in 1 .. Len(s) : p < q => s[p] < s[q]
    <2>1. /\ DOMAIN fs = 1 .. L /\ s \in Seq(Nat) /\ Fits(ls, s, fs[j].depth, decls)
      BY <1>0, <1>3, LayoutFacts DEF SInv
    <2>2. DOMAIN s = 1 .. Len(s) /\ Len(s) \in Nat BY <2>1, LenProperties
    <2>. QED BY <2>1, <2>2 DEF Fits
  <1>9. /\ means \in Seq(Seq(Nat)) /\ Len(means) = L /\ upvalues \in Seq(Entry)
        /\ boxed \subseteq 0 .. decls
        /\ \A k \in 1 .. L : k < Len(MaxDepth) => means[k] = <<>>
        /\ Len(m) <= Len(upvalues)
    BY DEF UInv, UType, EntriesFit
  <1>10. m \in Seq(Nat) /\ DOMAIN means = 1 .. L /\ L \in 1 .. L
    <2>1. L \in 1 .. Len(means) BY <1>2, <1>9
    <2>. QED BY <2>1, <1>9, ElementOfSeq, LenProperties
  <1>11. i \in 1 .. Len(s) /\ v \in Nat
    <2>1. i \in 1 .. Len(s) BY <1>3
    <2>. HIDE DEF i, s
    <2>. QED BY <2>1, <1>8, ElementOfSeq
  <1>12. Len(m) \in Nat /\ DOMAIN m = 1 .. Len(m) BY <1>10, LenProperties
  <1>13. Len(fs') = L /\ fs'[j].locals = ls2 /\ \A k \in 1 .. L : k # j => fs'[k] = fs[k]
    <2>1. DOMAIN fs' = 1 .. L BY <1>5, <1>8
    <2>2. Len(fs') = L
      <3>1. fs' \in Seq(FunType) BY <1>4 DEF SInv, Layout
      <3>. HIDE DEF L
      <3>2. Len(fs') \in Nat /\ DOMAIN fs' = 1 .. Len(fs') BY <3>1, LenProperties
      <3>3. L \in Nat BY <1>2
      <3>. QED BY <2>1, <3>1, <3>2, <3>3
    <2>. QED BY <2>2, <1>3, <1>5, <1>8
  <1>. HIDE DEF L, i, v, m
  <1>14. j \in 1 .. L /\ j < L /\ j # L /\ j + 1 = L BY <1>2, <1>3
  <1>. HIDE DEF j, s, ls
  <1>15. /\ \A k \in 1 .. L : k # L => means'[k] = means[k]
         /\ means'[L] = m \/ means'[L] = Append(m, v)
         /\ means' \in Seq(Seq(Nat)) /\ Len(means') = L
    <2>1. CASE means' = means BY <2>1, <1>9 DEF m
    <2>2. CASE means' = [means EXCEPT ![L] = Append(m, v)]
      <3>1. Append(m, v) \in Seq(Nat) BY <1>10, <1>11, AppendProperties
      <3>2. L \in 1 .. Len(means) BY <1>9, <1>10
      <3>3. means' \in Seq(Seq(Nat)) /\ Len(means') = Len(means)
        BY <2>2, <3>1, <3>2, <1>9, ExceptSeq
      <3>. QED BY <2>2, <3>3, <1>9, <1>10
    <2>. QED BY <2>1, <2>2, <1>7
  <1>16. ToSet(means'[L]) = ToSet(m) \cup {v}
    <2>1. CASE means' = means /\ v \in ToSet(m) BY <2>1 DEF m
    <2>2. CASE means' = [means EXCEPT ![L] = Append(m, v)]
      <3>1. means'[L] = Append(m, v) BY <2>2, <1>10
      <3>2. /\ Len(Append(m, v)) = Len(m) + 1 /\ Append(m, v)[Len(m) + 1] = v
            /\ \A q \in 1 .. Len(m) : Append(m, v)[q] = m[q]
            /\ Append(m, v) \in Seq(Nat)
        BY <1>10, <1>11, AppendProperties
      <3>3. DOMAIN Append(m, v) = 1 .. Len(m) + 1 BY <3>2, LenProperties
      <3>4. /\ \A q \in 1 .. Len(m) + 1 : q \in 1 .. Len(m) \/ q = Len(m) + 1
            /\ \A q \in 1 .. Len(m) : q \in 1 .. Len(m) + 1
            /\ Len(m) + 1 \in 1 .. Len(m) + 1
        BY ONLY <1>12
      <3>. QED BY <3>1, <3>2, <3>3, <3>4, <1>12 DEF ToSet
    <2>. QED BY <2>1, <2>2, <1>7
  <1>17. UType'
    <2>1. upvalues' \in Seq(Entry) BY <1>7, <1>9
    <2>2. ASSUME NEW k \in 1 .. L, k < Len(MaxDepth) PROVE means'[k] = <<>>
      <3>1. k # L BY <2>2, <1>2
      <3>. QED BY <2>2, <3>1, <1>9, <1>15
    <2>. QED BY <2>1, <2>2, <1>1, <1>9, <1>13, <1>15 DEF UType
  <1>18. /\ \A q \in 1 .. Len(s) : ls2[q].captured <=> ls[q].captured \/ q = i
         /\ \A q \in 1 .. Len(s) : s[q] = v <=> q = i
    <2>1. \A q \in 1 .. Len(s) : ls2[q].captured <=> ls[q].captured \/ q = i
      BY <1>3, <1>5 DEF Marks
    <2>2. \A q \in 1 .. Len(s) : s[q] = v <=> q = i
      <3>1. ASSUME NEW q \in 1 .. Len(s), q # i PROVE s[q] # v
        <4>1. q < i \/ i < q
          <5>1. q \in 1 .. Len(s) OBVIOUS
          <5>. QED BY ONLY <5>1, <3>1, <1>8, <1>11
        <4>2. s[q] < v \/ v < s[q] BY <4>1, <1>8, <1>11 DEF v
        <4>3. ~(v < v) BY <1>11
        <4>. QED BY <4>2, <4>3
      <3>. QED BY <3>1 DEF v
    <2>. QED BY <2>1, <2>2
  <1>19. FlagsFit'
    <2>1. ASSUME NEW k \in 1 .. L, NEW q \in 2 .. Len(slots[k])
          PROVE fs'[k].locals[q].captured <=> slots[k][q] \in Taken(k)'
      <3>1. fs[k].locals[q].captured <=> slots[k][q] \in Taken(k)
        BY DEF UInv, FlagsFit, L
      <3>2. CASE k # j
        <4>1. Taken(k)' = Taken(k)
          <5>1. CASE k < L
            <6>1. k + 1 \in 1 .. L /\ k + 1 # L
              <7>1. k \in 1 .. L OBVIOUS
              <7>. QED BY ONLY <7>1, <5>1, <3>2, <1>2, <1>14
            <6>. QED BY <6>1, <5>1, <1>1, <1>13, <1>15 DEF Taken, L
          <5>2. CASE ~(k < L) BY <5>2, <1>1, <1>13 DEF Taken, L
          <5>. QED BY <5>1, <5>2
        <4>. QED BY <4>1, <3>1, <3>2, <1>13
      <3>3. CASE k = j
        <4>1. Taken(k)' = Taken(k) \cup {v}
          BY <3>3, <1>1, <1>13, <1>14, <1>16 DEF Taken, L, m
        <4>2. q \in 1 .. Len(s)
          <5>1. q \in 2 .. Len(s) BY <3>3 DEF s
          <5>. QED BY ONLY <5>1, <1>8
        <4>3. ls[q].captured <=> s[q] \in Taken(k)
          BY <3>1, <3>3 DEF s, ls
        <4>4. ls2[q].captured <=> s[q] \in Taken(k) \/ s[q] = v
          <5>1. ls2[q].captured <=> ls[q].captured \/ q = i BY <4>2, <1>18
          <5>2. s[q] = v <=> q = i BY <4>2, <1>18
          <5>. QED BY ONLY <5>1, <5>2, <4>3
        <4>5. slots[k] = s /\ fs'[k].locals = ls2 BY <3>3, <1>13 DEF s
        <4>. QED BY <4>1, <4>4, <4>5
      <3>. QED BY <3>2, <3>3
    <2>. QED BY <2>1, <1>1, <1>13 DEF FlagsFit
  <1>20. ASSUME NEW q \in 1 .. Len(m)
         PROVE  EntryFits(upvalues[q], m[q], ls2, s)
    <2>1. EntryFits(upvalues[q], m[q], ls, s) BY DEF UInv, EntriesFit, L, m, j, ls, s
    <2>2. upvalues[q].idx \in 1 .. Len(s)
      <3>1. upvalues[q].idx \in 2 .. Len(s) BY <2>1 DEF EntryFits
      <3>. QED BY ONLY <3>1, <1>8
    <2>. QED BY <2>1, <2>2, <1>18 DEF EntryFits
  <1>21. EntryFits(e, v, ls2, s) BY <1>3, <1>11, <1>18 DEF EntryFits, e, v
  <1>22. EntriesFit'
    <2>1. L > 1 BY <1>2, <1>14
    <2>2. fs'[L - 1].locals = ls2 /\ slots'[L - 1] = s BY <1>1, <1>13 DEF j, s
    <2>3. /\ Len(means'[L]) <= Len(upvalues')
          /\ \A q \in 1 .. Len(means'[L]) : EntryFits(upvalues'[q], means'[L][q], ls2, s)
      <3>1. CASE upvalues' = upvalues /\ means' = means
        <4>1. means'[L] = m BY <3>1 DEF m
        <4>. QED BY <4>1, <3>1, <1>9, <1>20
      <3>2. CASE /\ means' = [means EXCEPT ![L] = Append(m, v)]
                 /\ upvalues' \in Seq(Entry) /\ Len(upvalues') >= Len(m) + 1
                 /\ \A q \in 1 .. Len(m) : upvalues'[q] = upvalues[q]
                 /\ upvalues'[Len(m) + 1] = e
        <4>1. means'[L] = Append(m, v) BY <3>2, <1>10
        <4>2. /\ Len(Append(m, v)) = Len(m) + 1 /\ Append(m, v)[Len(m) + 1] = v
              /\ \A q \in 1 .. Len(m) : Append(m, v)[q] = m[q]
          BY <1>10, <1>11, AppendProperties
        <4>3. \A q \in 1 .. Len(m) + 1 : q \in 1 .. Len(m) \/ q = Len(m) + 1 BY ONLY <1>12
        <4>4. ASSUME NEW q \in 1 .. Len(m) + 1
              PROVE EntryFits(upvalues'[q], Append(m, v)[q], ls2, s)
          BY <4>2, <4>3, <3>2, <1>20, <1>21
        <4>5. Len(m) + 1 <= Len(upvalues')
          <5>1. Len(upvalues') \in Nat /\ Len(upvalues') >= Len(m) + 1 BY <3>2, LenProperties
          <5>. QED BY ONLY <5>1, <1>12
        <4>. QED BY <4>1, <4>2, <4>4, <4>5
      <3>. QED BY <3>1, <3>2, <1>7
    <2>. QED BY <2>1, <2>2, <2>3, <1>13 DEF EntriesFit
  <1>. QED BY <1>4, <1>17, <1>19, <1>22 DEF UInv

(* At first nothing is captured.                                           *)
LEMMA InitBase ==
  ASSUME Init
  PROVE  UInv
  <1>1. SInv BY InitSInv
  <1>2. /\ Len(fs) = 1 /\ slots = <<<<Global>>>> /\ means = <<<<>>>> /\ upvalues = <<>>
        /\ boxed = {} /\ decls = 0
    BY DEF Init
  <1>3. means \in Seq(Seq(Nat)) /\ Len(means) = 1 /\ means[1] = <<>>
    <2>1. <<>> \in Seq(Nat) OBVIOUS
    <2>. QED BY <2>1, <1>2
  <1>4. \A k \in 1 .. 1 : k = 1 OBVIOUS
  <1>5. UType BY <1>2, <1>3, <1>4 DEF UType
  <1>6. FlagsFit
    <2>1. Len(slots[1]) = 1 /\ \A i \in 2 .. 1 : FALSE BY <1>2
    <2>. QED BY <2>1, <1>2, <1>4 DEF FlagsFit
  <1>7. EntriesFit
    <2>1. Len(means[1]) = 0 /\ Len(upvalues) = 0 /\ \A i \in 1 .. 0 : FALSE BY <1>2, <1>3
    <2>. QED BY <2>1, <1>2 DEF EntriesFit
  <1>. QED BY <1>1, <1>5, <1>6, <1>7 DEF UInv

(* Every step of the compiler keeps the books.                             *)
LEMMA NextUInv ==
  ASSUME ~Adjacent, Shallow, UInv, [Next]_vars
  PROVE  UInv'
  <1>0. SInv BY DEF UInv
  <1>1. CASE UNCHANGED vars
    <2>1. Captures' = Captures
      BY <1>1 DEF vars, Captures, Level
    <2>. QED BY <1>1 DEF vars, UInv, SInv, UType, FlagsFit, Taken, EntriesFit
  <1>2. ASSUME NEW n \in Names \cup FnNames, NEW junk \in BOOLEAN, Capture(n, junk) PROVE UInv'
    BY <1>2, CaptureUInv
  <1>3. ASSUME NEW n \in Names, Declare(n) PROVE UInv'
    <2>1. SInv' /\ \E ls2, s2, d2 : Retains(ls2, s2, d2) BY <1>0, <1>3, DeclareLayout
    <2>2. UNCHANGED <<upvalues, means, boxed, decls>> BY <1>3 DEF Declare
    <2>. QED BY <2>1, <2>2, RetainsUInv
  <1>4. CASE InitLocals BY <1>4, InitUInv
  <1>5. CASE StartScope
    <2>1. SInv' /\ \E ls2, s2, d2 : Retains(ls2, s2, d2) BY <1>0, <1>5, ScopeLayout
    <2>2. UNCHANGED <<upvalues, means, boxed, decls>> BY <1>5 DEF StartScope
    <2>. QED BY <2>1, <2>2, RetainsUInv
  <1>6. CASE EndScope
    <2>1. SInv' /\ \E ls2, s2, d2 : Retains(ls2, s2, d2) BY <1>0, <1>6, EndLayout
    <2>2. UNCHANGED <<upvalues, means, boxed, decls>> BY <1>6 DEF EndScope
    <2>. QED BY <2>1, <2>2, RetainsUInv
  <1>7. CASE EndFn BY <1>7, EndFnUInv
  <1>8. ASSUME NEW f \in FnNames, NEW ps \in {<<>>} \cup {<<n>> : n \in Names}, BeginFn(f, ps)
        PROVE  UInv'
    <2>1. ps \in Seq(Names \cup FnNames)
      <3>1. CASE ps = <<>> BY <3>1
      <3>2. ASSUME NEW n \in Names, ps = <<n>> PROVE ps \in Seq(Names \cup FnNames)
        <4>1. n \in Names \cup FnNames OBVIOUS
        <4>. QED BY <3>2, <4>1
      <3>. QED BY <3>1, <3>2
    <2>. QED BY <1>8, <2>1, BeginUInv
  <1>. QED BY <1>1, <1>2, <1>3, <1>4, <1>5, <1>6, <1>7, <1>8 DEF Next

(* Only the slots of captured variables have the flag.                     *)
LEMMA UInvFlags ==
  ASSUME UInv
  PROVE  FlagsExact
  <1>. DEFINE L == Len(fs)
              s == slots[L]
  <1>1. /\ Level = L /\ L \in 1 .. L /\ L \in Nat /\ Fun = fs[L] /\ SInv
        /\ Fits(Fun.locals, s, Fun.depth, decls) /\ s \in Seq(Nat)
        /\ ~Fun.locals[1].captured
    <2>1. /\ Level = L /\ L \in 1 .. L /\ L \in Nat /\ Fun = fs[L] /\ SInv
          /\ Fits(Fun.locals, s, Fun.depth, decls) /\ s \in Seq(Nat)
          /\ Fun.depth \in Nat /\ decls \in Nat
      BY Current DEF UInv
    <2>. QED BY <2>1, FitsFacts
  <1>2. DOMAIN s = 1 .. Len(s) /\ Len(s) \in Nat BY <1>1, LenProperties
  <1>3. ASSUME NEW i \in 1 .. Len(s) PROVE Fun.locals[i].captured <=> s[i] \in boxed \ {Global}
    <2>1. CASE i = 1
      <3>1. s[1] = Global BY <1>1 DEF Fits
      <3>. QED BY <2>1, <3>1, <1>1
    <2>2. CASE i # 1
      <3>1. i \in 2 .. Len(s) BY <2>2, <1>2
      <3>2. Fun.locals[i].captured <=> s[i] \in Taken(L) BY <3>1, <1>1 DEF UInv, FlagsFit
      <3>3. Taken(L) = boxed
        <4>1. ~(L < L) BY <1>1
        <4>. QED BY <4>1 DEF Taken
      <3>4. s[i] # Global
        <4>1. s[i] \in 1 .. decls BY <3>1, <1>1 DEF Fits
        <4>. QED BY <4>1 DEF Global
      <3>. QED BY <3>2, <3>3, <3>4
    <2>. QED BY <2>1, <2>2
  <1>. QED BY <1>1, <1>2, <1>3 DEF FlagsExact

(* The last declaration of a name in scope is the last in the innermost of *)
(* the functions that have it.                                             *)
LEMMA Innermost ==
  ASSUME SInv, NEW n, NEW j \in 1 .. Len(fs), NEW i \in 2 .. Len(slots[j]),
         fs[j].locals[i].name = n,
         \A m \in 1 .. Len(fs[j].locals) : m > i => fs[j].locals[m].name # n,
         \A k \in 1 .. Len(fs) : k > j => \A m \in 1 .. Len(slots[k]) : fs[k].locals[m].name # n
  PROVE  Lexical(n) = slots[j][i]
  <1>. DEFINE V == {Global} \cup {b.var : b \in {c \in env : c.name = n}}
              x == slots[j][i]
  <1>1. Layout(fs, slots, env, decls) /\ decls \in Nat /\ Len(fs) \in Nat BY LayoutFacts DEF SInv
  <1>2. \A k \in 1 .. Len(fs) :
          /\ Len(slots[k]) \in 1 .. Len(fs[k].locals) /\ Len(fs[k].locals) \in Nat
          /\ \A m \in 1 .. Len(slots[k]) : slots[k][m] \in 0 .. decls
    BY <1>1, SlotsBelow
  <1>3. ASSUME NEW k \in 1 .. Len(fs), NEW m \in 2 .. Len(slots[k])
        PROVE  m \in 1 .. Len(slots[k]) /\ m \in 1 .. Len(fs[k].locals)
    <2>1. /\ Len(slots[k]) \in 1 .. Len(fs[k].locals) /\ Len(fs[k].locals) \in Nat
          /\ m \in 2 .. Len(slots[k])
      BY <1>2
    <2>. QED BY ONLY <2>1
  <1>4. ASSUME NEW v \in V, v # Global
        PROVE  \E k \in 1 .. Len(fs) : \E m \in 2 .. Len(slots[k]) :
                 v = slots[k][m] /\ fs[k].locals[m].name = n
    <2>1. PICK b \in env : b.name = n /\ v = b.var BY <1>4
    <2>2. PICK k \in 1 .. Len(fs) : b \in Bound(k, fs[k].locals, slots[k])
      BY <1>1, <2>1 DEF Layout, InScope
    <2>. QED BY <2>1, <2>2 DEF Bound
  <1>5. x \in V
    <2>. DEFINE b == [name |-> n, level |-> j, depth |-> fs[j].locals[i].depth, var |-> x]
    <2>1. b \in Bound(j, fs[j].locals, slots[j]) BY DEF Bound
    <2>2. b \in env BY <2>1, <1>1 DEF Layout, InScope
    <2>3. b.name = n /\ b.var = x OBVIOUS
    <2>. HIDE DEF b
    <2>. QED BY <2>2, <2>3
  <1>6. x \in 0 .. decls BY <1>2, <1>3
  <1>7. ASSUME NEW k \in 1 .. Len(fs), NEW m \in 2 .. Len(slots[k]), fs[k].locals[m].name = n
        PROVE  slots[k][m] \in 0 .. decls /\ x >= slots[k][m]
    <2>1. slots[k][m] \in 0 .. decls /\ k <= j
      <3>1. slots[k][m] \in 0 .. decls /\ ~(k > j) BY <1>2, <1>3, <1>7
      <3>2. \A q \in 1 .. Len(fs) : ~(q > j) => q <= j BY <1>1
      <3>. QED BY <3>1, <3>2
    <2>2. \A y \in 0 .. decls : (y < x \/ y = x) => x >= y BY <1>1, <1>6
    <2>3. CASE k = j
      <3>1. ~(m > i) BY <2>3, <1>3, <1>7
      <3>2. m < i \/ m = i
        <4>1. m \in Nat /\ i \in Nat BY <1>2, <1>3
        <4>. QED BY ONLY <3>1, <4>1
      <3>3. \A p, q \in 1 .. Len(slots[j]) : p < q => slots[j][p] < slots[j][q]
        <4>1. Fits(fs[j].locals, slots[j], fs[j].depth, decls) BY <1>1, LayoutFacts
        <4>. QED BY <4>1 DEF Fits
      <3>4. slots[k][m] < x \/ slots[k][m] = x BY <2>3, <3>2, <3>3, <1>3
      <3>. QED BY <2>1, <2>2, <3>4
    <2>4. CASE k # j
      <3>1. k < j
        <4>1. k \in Nat /\ j \in Nat BY k \in 1 .. Len(fs)
        <4>. QED BY ONLY <4>1, <2>1, <2>4
      <3>2. InnerLater(slots) /\ Len(slots) = Len(fs) BY <1>1 DEF Layout
      <3>3. slots[k][m] < x BY <3>1, <3>2, <1>3 DEF InnerLater
      <3>. QED BY <2>1, <2>2, <3>3
    <2>. QED BY <2>3, <2>4
  <1>8. V \subseteq 0 .. decls /\ \A v \in V : x >= v
    <2>1. Global \in 0 .. decls /\ x >= Global BY <1>1, <1>6 DEF Global
    <2>2. ASSUME NEW v \in V, v # Global PROVE v \in 0 .. decls /\ x >= v
      <3>1. PICK k \in 1 .. Len(fs) : \E m \in 2 .. Len(slots[k]) :
              v = slots[k][m] /\ fs[k].locals[m].name = n
        BY <1>4, <2>2
      <3>. QED BY <3>1, <1>7
    <2>. HIDE DEF V, x
    <2>. QED BY <2>1, <2>2
  <1>9. Max(V) \in V /\ \A v \in V : Max(V) >= v BY <1>1, <1>5, <1>8, MaxFact
  <1>. HIDE DEF x, V
  <1>10. Max(V) = x
    <2>1. Max(V) >= x /\ x >= Max(V) /\ Max(V) \in 0 .. decls BY <1>5, <1>8, <1>9
    <2>. QED BY ONLY <2>1, <1>1, <1>6
  <1>. QED BY <1>10 DEF Lexical, V, x

(* codevar reaches the declaration that is meant.                          *)
LEMMA UInvScoping ==
  ASSUME UInv, Shallow
  PROVE  LexicalScoping
  <1>0. SInv BY DEF UInv
  <1>1. /\ Level = Len(fs) /\ Level \in 1 .. Len(fs) /\ Len(fs) \in Nat /\ Fun = fs[Level]
        /\ Pending = Len(slots[Level]) + 1 .. Len(Fun.locals)
        /\ Len(slots[Level]) \in 1 .. Len(Fun.locals) /\ Len(Fun.locals) \in Nat
    BY <1>0, Current
  <1>2. \A k \in 1 .. Len(fs) :
          /\ fs[k].locals \in Seq(LocalType) /\ fs[k].locals[1].name = NoName
          /\ Len(slots[k]) \in 1 .. Len(fs[k].locals) /\ Len(fs[k].locals) \in Nat
          /\ DOMAIN slots[k] = 1 .. Len(slots[k])
          /\ k < Len(fs) => Len(slots[k]) = Len(fs[k].locals)
    <2>1. ASSUME NEW k \in 1 .. Len(fs)
          PROVE /\ fs[k].locals \in Seq(LocalType) /\ fs[k].locals[1].name = NoName
                /\ Len(slots[k]) \in 1 .. Len(fs[k].locals) /\ Len(fs[k].locals) \in Nat
                /\ DOMAIN slots[k] = 1 .. Len(slots[k])
                /\ k < Len(fs) => Len(slots[k]) = Len(fs[k].locals)
      <3>1. /\ fs[k].locals \in Seq(LocalType) /\ Fits(fs[k].locals, slots[k], fs[k].depth, decls)
            /\ fs[k].depth \in Nat /\ decls \in Nat
            /\ k < Len(fs) => Len(slots[k]) = Len(fs[k].locals)
        BY <1>0, LayoutFacts DEF SInv
      <3>2. /\ Len(fs[k].locals) \in Nat \ {0} /\ Len(slots[k]) \in 1 .. Len(fs[k].locals)
            /\ DOMAIN slots[k] = 1 .. Len(slots[k]) /\ fs[k].locals[1].name = NoName
        BY <3>1, FitsFacts
      <3>. QED BY <3>1, <3>2
    <2>. QED BY <2>1
  <1>3. ASSUME NEW n \in Names \cup FnNames, \A i \in Pending : Fun.locals[i].name # n
        PROVE  Denotes(n) = Lexical(n)
    <2>0. n # NoName BY ScopesAssumption
    <2>1. \A k \in 1 .. Len(fs) :
            /\ FindLocal(k, n) \in 0 .. Len(fs[k].locals)
            /\ FindLocal(k, n) = 0 => \A m \in 1 .. Len(fs[k].locals) : fs[k].locals[m].name # n
            /\ FindLocal(k, n) # 0 => fs[k].locals[FindLocal(k, n)].name = n
            /\ \A m \in 1 .. Len(fs[k].locals) : m > FindLocal(k, n) => fs[k].locals[m].name # n
      BY <1>2, FoundLocal
    <2>2. CASE FindLocal(Level, n) # 0
      <3>. DEFINE i == FindLocal(Level, n)
      <3>1. Denotes(n) = At(slots[Level], i) BY <2>2 DEF Denotes
      <3>2. i \in 0 .. Len(Fun.locals) /\ Fun.locals[i].name = n BY <2>1, <2>2, <1>1
      <3>3. \A m \in 1 .. Len(Fun.locals) : m > i => Fun.locals[m].name # n BY <2>1, <1>1
      <3>4. i # 1 /\ i # 0 BY <3>2, <2>0, <2>2, <1>1, <1>2
      <3>5. i \notin Pending BY <3>2, <1>3
      <3>. HIDE DEF i
      <3>6. i \in 2 .. Len(slots[Level]) /\ i \in 1 .. Len(slots[Level])
        <4>1. i \in 0 .. Len(Fun.locals) BY <3>2
        <4>. QED BY ONLY <4>1, <3>4, <3>5, <1>1
      <3>7. At(slots[Level], i) = slots[Level][i] BY <3>6, <1>1, <1>2 DEF At
      <3>8. \A k \in 1 .. Len(fs) : ~(k > Level) BY <1>1
      <3>9. Lexical(n) = slots[Level][i]
        <4>1. /\ Level \in 1 .. Len(fs) /\ i \in 2 .. Len(slots[Level])
              /\ fs[Level].locals[i].name = n
              /\ \A m \in 1 .. Len(fs[Level].locals) : m > i => fs[Level].locals[m].name # n
          BY <1>1, <3>2, <3>3, <3>6
        <4>2. \A k \in 1 .. Len(fs) : k > Level =>
                \A m \in 1 .. Len(slots[k]) : fs[k].locals[m].name # n
          BY <3>8
        <4>. HIDE DEF Level
        <4>. QED BY <1>0, <4>1, <4>2, Innermost
      <3>. QED BY <3>1, <3>7, <3>9
    <2>3. CASE FindLocal(Level, n) = 0 /\ Owners(n) # {}
      <3>. DEFINE j == Len(fs) - 1
                  i == FindLocal(j, n)
                  g == GetUpval(n, FALSE)
      <3>1. Denotes(n) = g.means[Level][g.idx] BY <2>3 DEF Denotes
      <3>2. g.means[Len(fs)][g.idx] = slots[j][i] BY <2>0, <2>3, EntryMade
      <3>3. Max(Owners(n)) = j BY <1>0, <2>0, <2>3, OwnersLast
      <3>4. /\ j \in 1 .. Len(fs) /\ i \in 2 .. Len(slots[j]) /\ fs[j].locals[i].name = n
            /\ \A m \in 1 .. Len(fs[j].locals) : m > i => fs[j].locals[m].name # n
        BY <1>0, <2>0, <2>3, <3>3, OwnerFacts
      <3>5. ASSUME NEW k \in 1 .. Len(fs), k > j, NEW m \in 1 .. Len(slots[k])
            PROVE  fs[k].locals[m].name # n
        <4>1. k = Level
          <5>1. k \in 1 .. Len(fs) OBVIOUS
          <5>. QED BY ONLY <5>1, <3>5, <1>1
        <4>2. m \in 1 .. Len(fs[k].locals)
          <5>1. /\ Len(slots[k]) \in 1 .. Len(fs[k].locals) /\ Len(fs[k].locals) \in Nat
                /\ m \in 1 .. Len(slots[k])
            BY <1>2
          <5>. QED BY ONLY <5>1
        <4>. QED BY <4>1, <4>2, <2>1, <2>3
      <3>. HIDE DEF i, j, g
      <3>6. \A k \in 1 .. Len(fs) : k > j => \A m \in 1 .. Len(slots[k]) : fs[k].locals[m].name # n
        BY <3>5
      <3>7. Lexical(n) = slots[j][i] BY <1>0, <3>4, <3>6, Innermost
      <3>. QED BY <3>1, <3>2, <3>7, <1>1
    <2>4. CASE FindLocal(Level, n) = 0 /\ Owners(n) = {}
      <3>1. Denotes(n) = Global BY <2>4 DEF Denotes
      <3>2. ASSUME NEW b \in env, b.name = n PROVE FALSE
        <4>1. PICK k \in 1 .. Len(fs) : b \in Bound(k, fs[k].locals, slots[k])
          BY <1>0 DEF SInv, Layout, InScope
        <4>2. PICK m \in 2 .. Len(slots[k]) : fs[k].locals[m].name = n BY <4>1, <3>2 DEF Bound
        <4>3. m \in 1 .. Len(fs[k].locals)
          <5>1. /\ Len(slots[k]) \in 1 .. Len(fs[k].locals) /\ Len(fs[k].locals) \in Nat
                /\ m \in 2 .. Len(slots[k])
            BY <1>2
          <5>. QED BY ONLY <5>1
        <4>4. FindLocal(k, n) # 0 BY <2>1, <4>2, <4>3
        <4>5. k \in 1 .. Level - 1
          <5>1. k # Level BY <4>4, <2>4
          <5>2. k \in 1 .. Len(fs) OBVIOUS
          <5>. QED BY ONLY <5>1, <5>2, <1>1
        <4>. QED BY <4>4, <4>5, <2>4 DEF Owners
      <3>3. {Global} \cup {b.var : b \in {c \in env : c.name = n}} = {Global} BY <3>2
      <3>4. Max({Global}) = Global
        <4>1. {Global} \subseteq 0 .. 0 /\ {Global} # {} /\ 0 \in Nat BY DEF Global
        <4>2. Max({Global}) \in {Global} BY ONLY <4>1, MaxFact
        <4>. QED BY <4>2
      <3>. QED BY <3>1, <3>3, <3>4 DEF Lexical
    <2>. QED BY <2>2, <2>3, <2>4
  <1>. QED BY <1>3 DEF LexicalScoping

(* The instruction that codevar emits for a name reaches the innermost     *)
(* declaration of it, shadowed and captured variables included, where only *)
(* the functions directly around a closure have variables.                 *)
THEOREM NamesReachTheirVariables == ~Adjacent /\ Shallow => (Spec => []LexicalScoping)
  <1>. SUFFICES ASSUME ~Adjacent, Shallow PROVE Spec => []LexicalScoping
    OBVIOUS
  <1>1. Init => UInv BY InitBase
  <1>2. UInv /\ [Next]_vars => UInv' BY NextUInv
  <1>3. UInv => LexicalScoping BY UInvScoping
  <1>. QED BY <1>1, <1>2, <1>3, PTL DEF Spec

(* VCAPTURED_BIT is exact: endscope closes what closures have captured, and*)
(* pops nothing that a closure still refers to by its slot.                *)
THEOREM FlagsAreExact == ~Adjacent /\ Shallow => (Spec => []FlagsExact)
  <1>. SUFFICES ASSUME ~Adjacent, Shallow PROVE Spec => []FlagsExact
    OBVIOUS
  <1>1. Init => UInv BY InitBase
  <1>2. UInv /\ [Next]_vars => UInv' BY NextUInv
  <1>3. UInv => FlagsExact BY UInvFlags
  <1>. QED BY <1>1, <1>2, <1>3, PTL DEF Spec
=============================================================================
