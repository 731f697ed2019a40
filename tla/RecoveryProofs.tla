--------------------------- MODULE RecoveryProofs ---------------------------
(***************************************************************************)
(* Balanced and NoCascade for texts of any length over any tokens.         *)
(*                                                                         *)
(* Balanced first.  What the running functions have still to take decides  *)
(* which brackets may be open: a chain of stacks, one in front of each     *)
(* goal on cs and one behind the last, in which every goal takes off or    *)
(* puts on the brackets it has yet to close or to open.  The chain is      *)
(* given by its existence, so that no induction over cs is needed: a step  *)
(* changes a few links at its front.                                       *)
(***************************************************************************)
EXTENDS Recovery, SequenceTheorems, TLAPS

Brackets == Openers \cup {")", "]", "}"}
Stacks   == Seq(Openers)

Words    == Goals \cup Brackets \cup {":", ";", ".", "=", "fn", "id", "in"}

(* The bracket a goal has still to close, though it was opened before.     *)
Owing(g) == IF g \in {")", "Args", "ForLast"} THEN "("
            ELSE IF g = "]" THEN "["
            ELSE IF g \in {"}", "Block", "Methods", "SubMethods", "Cases", "MoreCases"}
              THEN "{"
            ELSE "nothing"

(* What is open before a goal and after it.                                *)
Link(g, s, t) == IF Owing(g) # "nothing" THEN s = Append(t, Owing(g))
                 ELSE IF g \in Openers THEN t = Append(s, g)
                 ELSE s = t /\ g # "Skip"
Neutral == {g \in Words : Owing(g) = "nothing" /\ g \notin Openers
                           /\ g \notin {"Skip", "FixedDec"}}
IsChain(f, c) == \A i \in 1 .. Len(c) : Link(c[i], f[i], f[i + 1])
Chain(c, s, t) == \E f \in [1 .. Len(c) + 1 -> Stacks] :
                    f[1] = s /\ f[Len(c) + 1] = t /\ IsChain(f, c)

(* The braces of switches that ended with the file stay open for ever.     *)
Braces(n) == [i \in 1 .. n |-> "{"]
Matched == \E s \in Stacks : Chain(cs, s, <<>>) /\ nest = s \o Braces(unclosed)
FixedOnTop == \A i \in DOMAIN cs :
                cs[i] = "FixedDec" => i = 1 /\ (error \/ curr \notin Brackets)
BInv == /\ cs \in Seq(Words) /\ unclosed \in Nat
        /\ panic \in BOOLEAN /\ error \in BOOLEAN
        /\ opening \in Seq(Tokens) /\ (curr = Eof => opening = <<>>)
        /\ ~error => ~panic /\ Matched /\ (unclosed > 0 => curr = Eof)
        /\ FixedOnTop

(* A chain may be cut behind its first goal, and two chains joined.        *)
LEMMA ChainHead ==
  ASSUME NEW c \in Seq(Words), c # <<>>, NEW s, NEW u, Chain(c, s, u)
  PROVE  \E t \in Stacks : Link(Head(c), s, t) /\ Chain(Tail(c), t, u)
  <1>1. PICK f \in [1 .. Len(c) + 1 -> Stacks] :
          f[1] = s /\ f[Len(c) + 1] = u /\ IsChain(f, c)
    BY DEF Chain
  <1>2. /\ Len(c) \in Nat \ {0} /\ Head(c) = c[1]
        /\ Tail(c) \in Seq(Words) /\ Len(Tail(c)) = Len(c) - 1
        /\ \A i \in 1 .. Len(Tail(c)) : Tail(c)[i] = c[i + 1]
    BY HeadTailProperties, EmptySeq
  <1>. DEFINE h == [i \in 1 .. Len(Tail(c)) + 1 |-> f[i + 1]]
  <1>3. h \in [1 .. Len(Tail(c)) + 1 -> Stacks] BY <1>2
  <1>4. h[1] = f[2] /\ h[Len(Tail(c)) + 1] = u BY <1>1, <1>2
  <1>5. IsChain(h, Tail(c)) BY <1>1, <1>2 DEF IsChain
  <1>6. Chain(Tail(c), f[2], u) BY <1>3, <1>4, <1>5 DEF Chain
  <1>7. f[2] \in Stacks /\ Link(Head(c), s, f[2]) BY <1>1, <1>2 DEF IsChain
  <1>. QED BY <1>6, <1>7

(* A chain in front of another makes one chain of both.                    *)
LEMMA ChainJoin ==
  ASSUME NEW c \in Seq(Words), NEW d \in Seq(Words),
         NEW s, NEW t, NEW u, Chain(c, s, t), Chain(d, t, u)
  PROVE  Chain(c \o d, s, u)
  <1>1. PICK f \in [1 .. Len(c) + 1 -> Stacks] :
          f[1] = s /\ f[Len(c) + 1] = t /\ IsChain(f, c)
    BY DEF Chain
  <1>2. PICK g \in [1 .. Len(d) + 1 -> Stacks] :
          g[1] = t /\ g[Len(d) + 1] = u /\ IsChain(g, d)
    BY DEF Chain
  <1>3. /\ c \o d \in Seq(Words) /\ Len(c \o d) = Len(c) + Len(d)
        /\ \A i \in 1 .. Len(c) + Len(d) :
             (c \o d)[i] = IF i <= Len(c) THEN c[i] ELSE d[i - Len(c)]
        /\ Len(c) \in Nat /\ Len(d) \in Nat
    BY ConcatProperties
  <1>. DEFINE h == [i \in 1 .. Len(c \o d) + 1 |->
                      IF i <= Len(c) THEN f[i] ELSE g[i - Len(c)]]
  <1>4. h \in [1 .. Len(c \o d) + 1 -> Stacks] BY <1>3
  <1>5. h[1] = s /\ h[Len(c \o d) + 1] = u BY <1>1, <1>2, <1>3
  <1>6. \A i \in 1 .. Len(c) + 1 : h[i] = f[i] BY <1>1, <1>2, <1>3
  <1>g. \A i \in 1 .. Len(d) + 1 : h[Len(c) + i] = g[i] BY <1>3
  <1>. HIDE DEF h
  <1>7. \A i \in 1 .. Len(c \o d) : Link((c \o d)[i], h[i], h[i + 1])
    <2>1. ASSUME NEW i \in 1 .. Len(c)
          PROVE  Link((c \o d)[i], h[i], h[i + 1])
      <3>1. h[i] = f[i] /\ h[i + 1] = f[i + 1] BY <1>3, <1>6
      <3>2. Link(c[i], f[i], f[i + 1]) BY <1>1 DEF IsChain
      <3>. QED BY <3>1, <3>2, <1>3
    <2>2. ASSUME NEW j \in 1 .. Len(d)
          PROVE  Link((c \o d)[Len(c) + j], h[Len(c) + j], h[Len(c) + j + 1])
      <3>1. h[Len(c) + j] = g[j] BY <1>g, <1>3
      <3>2. h[Len(c) + (j + 1)] = g[j + 1] BY <1>g, <1>3
      <3>3. Link(d[j], g[j], g[j + 1]) BY <1>2 DEF IsChain
      <3>4. (c \o d)[Len(c) + j] = d[j] BY <1>3
      <3>5. Len(c) + j + 1 = Len(c) + (j + 1) BY <1>3
      <3>. QED BY <3>1, <3>2, <3>3, <3>4, <3>5
    <2>. SUFFICES ASSUME NEW i \in 1 .. Len(c) + Len(d)
                  PROVE  Link((c \o d)[i], h[i], h[i + 1])
      BY <1>3
    <2>3. CASE i \in 1 .. Len(c) BY <2>1, <2>3
    <2>4. CASE i \notin 1 .. Len(c)
      <3>1. i - Len(c) \in 1 .. Len(d) /\ i = Len(c) + (i - Len(c)) BY <2>4, <1>3
      <3>. QED BY <3>1, <2>2
    <2>. QED BY <2>3, <2>4
  <1>. QED BY <1>3, <1>4, <1>5, <1>7 DEF Chain, IsChain

(* Chains of the few goals that a step puts on cs.                         *)
LEMMA Chain0 == \A s \in Stacks : Chain(<<>>, s, s)
  <1>. TAKE s \in Stacks
  <1>1. [i \in 1 .. 1 |-> s] \in [1 .. Len(<<>>) + 1 -> Stacks] OBVIOUS
  <1>2. [i \in 1 .. 1 |-> s][1] = s OBVIOUS
  <1>3. IsChain([i \in 1 .. 1 |-> s], <<>>) BY DEF IsChain
  <1>. QED BY <1>1, <1>2, <1>3 DEF Chain

(* Goals that neither owe nor open a bracket, as many as there may be.     *)
LEMMA ChainNeutral ==
  ASSUME NEW c \in Seq(Neutral), NEW s \in Stacks
  PROVE  c \in Seq(Words) /\ Chain(c, s, s)
  <1>. DEFINE f == [i \in 1 .. Len(c) + 1 |-> s]
  <1>1. c \in Seq(Words) BY SeqMonotonic DEF Neutral
  <1>2. Len(c) \in Nat /\ \A i \in 1 .. Len(c) : c[i] \in Neutral
    BY LenProperties, ElementOfSeq
  <1>3. f \in [1 .. Len(c) + 1 -> Stacks] OBVIOUS
  <1>4. f[1] = s /\ f[Len(c) + 1] = s BY <1>2
  <1>5. \A i \in 1 .. Len(c) : f[i] = s /\ f[i + 1] = s BY <1>2
  <1>. HIDE DEF f
  <1>6. IsChain(f, c) BY <1>2, <1>5 DEF IsChain, Link, Neutral
  <1>. QED BY <1>1, <1>3, <1>4, <1>6 DEF Chain

(* The same with one goal among them that does.                            *)
LEMMA ChainOne ==
  ASSUME NEW c \in Seq(Words), NEW k \in 1 .. Len(c), NEW s \in Stacks, NEW t \in Stacks,
         Link(c[k], s, t), \A i \in 1 .. Len(c) : i # k => c[i] \in Neutral
  PROVE  Chain(c, s, t)
  <1>. DEFINE f == [i \in 1 .. Len(c) + 1 |-> IF i <= k THEN s ELSE t]
  <1>1. Len(c) \in Nat BY LenProperties
  <1>2. f \in [1 .. Len(c) + 1 -> Stacks] OBVIOUS
  <1>3. f[1] = s /\ f[Len(c) + 1] = t BY <1>1
  <1>4. \A i \in 1 .. Len(c) : IF i = k THEN f[i] = s /\ f[i + 1] = t
                                         ELSE f[i] \in Stacks /\ f[i + 1] = f[i]
    BY <1>1
  <1>. HIDE DEF f
  <1>5. IsChain(f, c) BY <1>4 DEF IsChain, Link, Neutral
  <1>. QED BY <1>2, <1>3, <1>5 DEF Chain

(* A goal that opens a bracket and a later one that owes it.               *)
LEMMA ChainPair ==
  ASSUME NEW c \in Seq(Words), NEW k \in 1 .. Len(c), NEW m \in 1 .. Len(c), k < m,
         c[k] \in Openers, Owing(c[k]) = "nothing", Owing(c[m]) = c[k], NEW s \in Stacks,
         \A i \in 1 .. Len(c) : i # k /\ i # m => c[i] \in Neutral
  PROVE  Chain(c, s, s)
  <1>. DEFINE o == Append(s, c[k])
              f == [i \in 1 .. Len(c) + 1 |-> IF i \in k + 1 .. m THEN o ELSE s]
  <1>1. Len(c) \in Nat BY LenProperties
  <1>2. o \in Stacks BY AppendProperties DEF Stacks
  <1>3. Link(c[k], s, o) BY DEF Link
  <1>4. Link(c[m], o, s)
    <2>1. c[k] # "nothing" BY DEF Openers
    <2>. QED BY <2>1 DEF Link
  <1>. HIDE DEF o
  <1>5. f \in [1 .. Len(c) + 1 -> Stacks] BY <1>2
  <1>6. f[1] = s /\ f[Len(c) + 1] = s BY <1>1
  <1>7. \A i \in 1 .. Len(c) :
          /\ i = k => f[i] = s /\ f[i + 1] = o
          /\ i = m => f[i] = o /\ f[i + 1] = s
          /\ i # k /\ i # m => f[i + 1] = f[i]
    BY <1>1
  <1>. HIDE DEF f
  <1>8. IsChain(f, c) BY <1>3, <1>4, <1>7 DEF IsChain, Link, Neutral
  <1>. QED BY <1>5, <1>6, <1>8 DEF Chain

(* What a step that puts rest on cs and takes no token does to the         *)
(* variables of BInv; and one that takes the token.                        *)
Goes(rest, wrong) ==
  /\ cs' = rest \o Tail(cs) /\ UNCHANGED <<curr, opening, unclosed>>
  /\ panic' = (panic \/ wrong) /\ error' = (error \/ wrong)
  /\ nest' = IF error' THEN <<>> ELSE nest
Takes(rest, wrong) ==
  /\ cs' = rest \o Tail(cs) /\ UNCHANGED unclosed
  /\ Advance(panic \/ wrong)
Clean(c) == \A i \in 1 .. Len(c) : c[i] # "FixedDec"
Opened(c, s, t) == IF c \in Openers THEN t = Append(s, c)
                   ELSE IF c \in DOMAIN Closes THEN s = Append(t, Closes[c])
                   ELSE t = s

(* A FixedDec on top of cs is the only one.                                *)
LEMMA OneFixed ==
  ASSUME BInv, cs # <<>>, NEW rest \in Seq(Words), cs' = rest \o Tail(cs)
  PROVE  /\ cs' \in Seq(Words) /\ Tail(cs) \in Seq(Words)
         /\ \A i \in DOMAIN cs' : cs'[i] = "FixedDec"
              => i \in 1 .. Len(rest) /\ rest[i] = "FixedDec"
  <1>1. /\ cs \in Seq(Words) /\ Tail(cs) \in Seq(Words)
        /\ Len(Tail(cs)) = Len(cs) - 1 /\ Len(cs) \in Nat /\ DOMAIN cs = 1 .. Len(cs)
        /\ \A i \in 1 .. Len(Tail(cs)) : Tail(cs)[i] = cs[i + 1]
    BY HeadTailProperties, LenProperties DEF BInv
  <1>2. \A i \in 1 .. Len(Tail(cs)) : Tail(cs)[i] # "FixedDec"
    <2>. SUFFICES ASSUME NEW i \in 1 .. Len(Tail(cs)) PROVE cs[i + 1] # "FixedDec"
      BY <1>1
    <2>1. i + 1 \in DOMAIN cs /\ i + 1 # 1 BY <1>1
    <2>. QED BY <2>1 DEF BInv, FixedOnTop
  <1>3. /\ cs' \in Seq(Words) /\ Len(cs') = Len(rest) + Len(Tail(cs))
        /\ \A i \in 1 .. Len(rest) + Len(Tail(cs)) :
             cs'[i] = IF i <= Len(rest) THEN rest[i] ELSE Tail(cs)[i - Len(rest)]
        /\ Len(rest) \in Nat
    BY <1>1, ConcatProperties, LenProperties
  <1>4. DOMAIN cs' = 1 .. Len(rest) + Len(Tail(cs)) BY <1>3, LenProperties
  <1>. SUFFICES ASSUME NEW i \in 1 .. Len(rest) + Len(Tail(cs)), cs'[i] = "FixedDec"
                PROVE  i \in 1 .. Len(rest) /\ rest[i] = "FixedDec"
    BY <1>1, <1>3, <1>4
  <1>5. CASE i <= Len(rest) BY <1>3, <1>5
  <1>6. CASE i > Len(rest)
    <2>1. i - Len(rest) \in 1 .. Len(Tail(cs)) BY <1>1, <1>3, <1>6
    <2>2. cs'[i] = Tail(cs)[i - Len(rest)] BY <1>3, <1>6
    <2>. QED BY <2>1, <2>2, <1>2
  <1>. QED BY <1>3, <1>5, <1>6

(* The stack before the first goal, cut off its chain.                     *)
LEMMA Cut ==
  ASSUME BInv, cs # <<>>, ~error
  PROVE  \E s \in Stacks, t \in Stacks :
           /\ Link(Head(cs), s, t) /\ Chain(Tail(cs), t, <<>>)
           /\ nest = s \o Braces(unclosed)
  <1>1. PICK s \in Stacks : Chain(cs, s, <<>>) /\ nest = s \o Braces(unclosed)
    BY DEF BInv, Matched
  <1>2. \E t \in Stacks : Link(Head(cs), s, t) /\ Chain(Tail(cs), t, <<>>)
    BY <1>1, ChainHead DEF BInv
  <1>. QED BY <1>1, <1>2

(* A step that takes no token keeps BInv if it reports an error or puts on *)
(* cs goals between the same stacks as the goal it replaces.               *)
LEMMA GoStep ==
  ASSUME BInv, cs # <<>>, NEW rest \in Seq(Words), NEW wrong \in BOOLEAN,
         Goes(rest, wrong), Clean(rest),
         ~error /\ ~wrong =>
           \A s, t \in Stacks : Link(Head(cs), s, t) => Chain(rest, s, t)
  PROVE  BInv'
  <1>1. cs' \in Seq(Words) /\ FixedOnTop' BY OneFixed DEF Goes, Clean, FixedOnTop
  <1>2. ~error' => Matched'
    <2>. SUFFICES ASSUME ~error' PROVE Matched' OBVIOUS
    <2>1. ~error /\ ~wrong /\ nest' = nest BY DEF Goes
    <2>2. PICK s \in Stacks, t \in Stacks :
            /\ Link(Head(cs), s, t) /\ Chain(Tail(cs), t, <<>>)
            /\ nest = s \o Braces(unclosed)
      BY <2>1, Cut
    <2>3. Chain(rest \o Tail(cs), s, <<>>) BY <2>1, <2>2, ChainJoin, OneFixed DEF Goes
    <2>. QED BY <2>1, <2>2, <2>3 DEF Matched, Goes
  <1>. QED BY <1>1, <1>2 DEF BInv, Goes

(* Taking off what was put on gives the sequence back.                     *)
LEMMA FrontOfAppend ==
  ASSUME NEW S, NEW t \in Seq(S), NEW e \in S
  PROVE  /\ Append(t, e) # <<>> /\ Last(Append(t, e)) = e
         /\ Front(Append(t, e)) = t
  <1>. DEFINE a == Append(t, e)
  <1>1. /\ a \in Seq(S) /\ a # <<>> /\ Len(a) = Len(t) + 1 /\ Len(t) \in Nat
        /\ a[Len(t) + 1] = e /\ \A i \in 1 .. Len(t) : a[i] = t[i]
    BY AppendProperties, LenProperties
  <1>. HIDE DEF a
  <1>2. Last(a) = e BY <1>1 DEF Last
  <1>3. \A i \in 1 .. Len(t) : a[i] \in S BY <1>1, ElementOfSeq
  <1>4. /\ SubSeq(a, 1, Len(t)) \in Seq(S) /\ Len(SubSeq(a, 1, Len(t))) = Len(t)
        /\ \A i \in 1 .. Len(t) : SubSeq(a, 1, Len(t))[i] = a[i]
    BY <1>1, <1>3, SubSeqProperties
  <1>5. SubSeq(a, 1, Len(t)) = t BY <1>1, <1>4, SeqEqual
  <1>6. Front(a) = t BY <1>1, <1>5 DEF Front
  <1>. QED BY <1>1, <1>2, <1>6 DEF a

(* The braces left open by switches are there only at the end of the file, *)
(* where no bracket is taken; before it nest is the stack itself.          *)
LEMMA NestedStep ==
  ASSUME NEW s \in Stacks, NEW t \in Stacks, nest = s \o Braces(unclosed),
         unclosed \in Nat, unclosed > 0 => curr = Eof, Opened(curr, s, t)
  PROVE  Nested(curr) = t \o Braces(unclosed)
  <1>1. CASE unclosed > 0
    <2>1. curr \notin Openers /\ curr \notin DOMAIN Closes
      BY <1>1 DEF Openers, Closes, Eof
    <2>2. t = s BY <2>1 DEF Opened
    <2>. QED BY <2>1, <2>2 DEF Nested
  <1>2. CASE unclosed = 0
    <2>1. Braces(unclosed) = <<>> BY <1>2 DEF Braces
    <2>2. s \o <<>> = s /\ t \o <<>> = t BY ConcatEmptySeq DEF Stacks
    <2>3. nest = s BY <2>1, <2>2
    <2>4. s # <<"bad">>
      <3>. SUFFICES ASSUME s = <<"bad">> PROVE FALSE OBVIOUS
      <3>1. Len(s) = 1 /\ s[1] = "bad" OBVIOUS
      <3>2. s[1] \in Openers BY <3>1, ElementOfSeq DEF Stacks
      <3>. QED BY <3>1, <3>2 DEF Openers
    <2>5. CASE curr \in Openers BY <2>1, <2>2, <2>3, <2>4, <2>5 DEF Nested, Opened
    <2>6. CASE curr \in DOMAIN Closes
      <3>1. curr \notin Openers BY <2>6 DEF Openers, Closes
      <3>2. s = Append(t, Closes[curr]) BY <3>1, <2>6 DEF Opened
      <3>3. Closes[curr] \in Openers BY <2>6 DEF Openers, Closes
      <3>4. s # <<>> /\ Last(s) = Closes[curr] /\ Front(s) = t
        BY <3>2, <3>3, FrontOfAppend DEF Stacks
      <3>. QED BY <3>1, <3>4, <2>6, <2>1, <2>2, <2>3, <2>4 DEF Nested, Shut
    <2>7. CASE curr \notin Openers /\ curr \notin DOMAIN Closes
      BY <2>1, <2>2, <2>3, <2>4, <2>7 DEF Nested, Opened
    <2>. QED BY <2>5, <2>6, <2>7
  <1>. QED BY <1>1, <1>2

(* A step that takes the current token keeps BInv if the brackets it takes *)
(* are those that the goal it replaces owes.                               *)
LEMMA TakeStep ==
  ASSUME BInv, cs # <<>>, "fixed_any" \in Avoid,
         NEW rest \in Seq(Words), NEW wrong \in BOOLEAN, Takes(rest, wrong),
         \A i \in 1 .. Len(rest) : rest[i] = "FixedDec" => i = 1 /\ curr = "fixed",
         ~error => \A s, t \in Stacks : Link(Head(cs), s, t) =>
                     \E u \in Stacks : Opened(curr, s, u) /\ Chain(rest, u, t)
  PROVE  BInv'
  <1>0. PICK t \in Following, bad \in BOOLEAN :
          /\ curr' = t
          /\ opening' = IF opening # <<>> THEN Tail(opening) ELSE <<>>
          /\ panic' = ((panic \/ wrong) \/ bad)
          /\ error' = (error \/ (panic \/ wrong) \/ bad)
          /\ nest' = IF error \/ (panic \/ wrong) \/ bad THEN <<>> ELSE Nested(curr)
    BY DEF Takes, Advance
  <1>1. curr = "fixed" => curr' \notin Brackets
    BY <1>0 DEF Following, Brackets, Openers, Eof
  <1>2. cs' \in Seq(Words) /\ FixedOnTop'
    BY OneFixed, <1>1 DEF Takes, FixedOnTop
  <1>3. opening' \in Seq(Tokens) /\ (curr' = Eof => opening' = <<>>)
    <2>1. CASE opening = <<>> BY <1>0, <2>1, EmptySeq
    <2>2. CASE opening # <<>>
      <3>1. opening \in Seq(Tokens) BY DEF BInv
      <3>2. Head(opening) \in Tokens /\ Tail(opening) \in Seq(Tokens)
        BY <3>1, <2>2, HeadTailProperties
      <3>3. curr' = Head(opening) BY <1>0, <2>2 DEF Following, Text
      <3>4. curr' # Eof BY <3>2, <3>3, RecoveryAssumption DEF RecoveryAssumption
      <3>. QED BY <3>2, <3>4, <2>2, <1>0
    <2>. QED BY <2>1, <2>2
  <1>4. panic' \in BOOLEAN /\ error' \in BOOLEAN /\ (~error' => ~panic') BY <1>0
  <1>5. ~error' => /\ ~error /\ nest' = Nested(curr)
                   /\ unclosed > 0 => curr' = Eof
    BY <1>0 DEF BInv, Following, Text, Eof
  <1>6. ~error' => Matched'
    <2>. SUFFICES ASSUME ~error' PROVE Matched' OBVIOUS
    <2>1. ~error /\ nest' = Nested(curr) BY <1>5
    <2>2. PICK s \in Stacks, u \in Stacks :
            /\ Link(Head(cs), s, u) /\ Chain(Tail(cs), u, <<>>)
            /\ nest = s \o Braces(unclosed)
      BY <2>1, Cut
    <2>3. PICK v \in Stacks : Opened(curr, s, v) /\ Chain(rest, v, u) BY <2>1, <2>2
    <2>4. Chain(rest \o Tail(cs), v, <<>>) BY <2>2, <2>3, ChainJoin, OneFixed DEF Takes
    <2>5. Nested(curr) = v \o Braces(unclosed) BY <2>1, <2>2, <2>3, NestedStep DEF BInv
    <2>. QED BY <2>1, <2>4, <2>5 DEF Matched, Takes
  <1>. QED BY <1>2, <1>3, <1>4, <1>5, <1>6 DEF BInv, Takes

(* A literal sequence is one over the set its elements are in.             *)
LEMMA Tuple1 == ASSUME NEW S, NEW a \in S PROVE <<a>> \in Seq(S)
  OBVIOUS

(* The same for two elements.                                              *)
LEMMA Tuple2 == ASSUME NEW S, NEW a \in S, NEW b \in S PROVE <<a, b>> \in Seq(S)
  OBVIOUS

(* The same for three elements. *)
LEMMA Tuple3 ==
  ASSUME NEW S, NEW a \in S, NEW b \in S, NEW c \in S
  PROVE  <<a, b, c>> \in Seq(S)
  OBVIOUS

(* The same for four elements. *)
LEMMA Tuple4 ==
  ASSUME NEW S, NEW a \in S, NEW b \in S, NEW c \in S, NEW d \in S
  PROVE  <<a, b, c, d>> \in Seq(S)
  OBVIOUS

(* The same for five elements. *)
LEMMA Tuple5 ==
  ASSUME NEW S, NEW a \in S, NEW b \in S, NEW c \in S, NEW d \in S, NEW e \in S
  PROVE  <<a, b, c, d, e>> \in Seq(S)
  OBVIOUS

(* Goals that close all they open.                                         *)
Even(c) == c \in Seq(Words) /\ Clean(c) /\ \A s \in Stacks : Chain(c, s, s)

(* Goals that neither owe nor open a bracket are even.                     *)
LEMMA EvenNeutral == \A c \in Seq(Neutral) : Even(c)
  <1>. TAKE c \in Seq(Neutral)
  <1>1. c \in Seq(Words) BY ChainNeutral, EmptySeq DEF Stacks
  <1>2. Clean(c) BY ElementOfSeq DEF Clean, Neutral
  <1>. QED BY <1>1, <1>2, ChainNeutral DEF Even

(* No goal at all is even.                                                 *)
LEMMA EvenEmpty == Even(<<>>)
  BY EvenNeutral, EmptySeq

(* The same for one goal.                                                  *)
LEMMA Neutral1 == \A a \in Neutral : Even(<<a>>)
  BY EvenNeutral, Tuple1

(* The same for two goals. *)
LEMMA Neutral2 == \A a, b \in Neutral : Even(<<a, b>>)
  BY EvenNeutral, Tuple2

(* The same for three goals. *)
LEMMA Neutral3 == \A a, b, c \in Neutral : Even(<<a, b, c>>)
  BY EvenNeutral, Tuple3

(* The same for four goals. *)
LEMMA Neutral4 == \A a, b, c, d \in Neutral : Even(<<a, b, c, d>>)
  BY EvenNeutral, Tuple4

(* The same for five goals. *)
LEMMA Neutral5 == \A a, b, c, d, e \in Neutral : Even(<<a, b, c, d, e>>)
  BY EvenNeutral, Tuple5

(* So are goals of which one opens a bracket that a later one owes.        *)
LEMMA EvenPair ==
  ASSUME NEW c \in Seq(Words), NEW k \in 1 .. Len(c), NEW m \in 1 .. Len(c), k < m,
         c[k] \in Openers, Owing(c[m]) = c[k],
         \A i \in 1 .. Len(c) : i # k /\ i # m => c[i] \in Neutral
  PROVE  Even(c)
  <1>1. Owing(c[k]) = "nothing" /\ c[k] # "FixedDec" BY DEF Owing, Openers
  <1>2. c[m] # "FixedDec" BY DEF Owing, Openers
  <1>3. Clean(c) BY <1>1, <1>2 DEF Clean, Neutral
  <1>4. \A s \in Stacks : Chain(c, s, s) BY <1>1, ChainPair
  <1>. QED BY <1>3, <1>4 DEF Even

(* The places the two have in the grammar: next to each other,             *)
LEMMA Even2 ==
  ASSUME NEW o \in Openers,
         NEW g \in Words, Owing(g) = o
  PROVE  Even(<<o, g>>)
  <1>. DEFINE c == <<o, g>>
  <1>0. o \in Words /\ \A n \in Neutral : n \in Words
    BY DEF Words, Brackets, Neutral
  <1>1. c \in Seq(Words) BY <1>0, Tuple2, Zenon
  <1>2. Len(c) = 2 /\ c[1] = o /\ c[2] = g OBVIOUS
  <1>. HIDE DEF c
  <1>3. \A i \in 1 .. Len(c) : i # 1 /\ i # 2 => c[i] \in Neutral BY <1>2
  <1>4. /\ 1 \in 1 .. Len(c) /\ 2 \in 1 .. Len(c)
        /\ c[1] \in Openers /\ Owing(c[2]) = c[1]
    BY <1>2
  <1>5. Even(c) BY <1>1, <1>3, <1>4, EvenPair
  <1>. QED BY <1>5 DEF c

(* with a goal between them, as in (Expr),                                 *)
LEMMA Even3 ==
  ASSUME NEW o \in Openers, NEW m \in Neutral,
         NEW g \in Words, Owing(g) = o
  PROVE  Even(<<o, m, g>>)
  <1>. DEFINE c == <<o, m, g>>
  <1>0. o \in Words /\ \A n \in Neutral : n \in Words
    BY DEF Words, Brackets, Neutral
  <1>1. c \in Seq(Words) BY <1>0, Tuple3, Zenon
  <1>2. Len(c) = 3 /\ c[1] = o /\ c[2] = m /\ c[3] = g OBVIOUS
  <1>. HIDE DEF c
  <1>3. \A i \in 1 .. Len(c) : i # 1 /\ i # 3 => c[i] \in Neutral BY <1>2
  <1>4. /\ 1 \in 1 .. Len(c) /\ 3 \in 1 .. Len(c)
        /\ c[1] \in Openers /\ Owing(c[3]) = c[1]
    BY <1>2
  <1>5. Even(c) BY <1>1, <1>3, <1>4, EvenPair
  <1>. QED BY <1>5 DEF c

(* behind two others, as the braces of a function,                         *)
LEMMA EvenBody ==
  ASSUME NEW l \in Neutral, NEW m \in Neutral, NEW o \in Openers,
         NEW g \in Words, Owing(g) = o
  PROVE  Even(<<l, m, o, g>>)
  <1>. DEFINE c == <<l, m, o, g>>
  <1>0. o \in Words /\ \A n \in Neutral : n \in Words
    BY DEF Words, Brackets, Neutral
  <1>1. c \in Seq(Words) BY <1>0, Tuple4, Zenon
  <1>2. Len(c) = 4 /\ c[1] = l /\ c[2] = m /\ c[3] = o /\ c[4] = g OBVIOUS
  <1>. HIDE DEF c
  <1>3. \A i \in 1 .. Len(c) : i # 3 /\ i # 4 => c[i] \in Neutral BY <1>2
  <1>4. /\ 3 \in 1 .. Len(c) /\ 4 \in 1 .. Len(c)
        /\ c[3] \in Openers /\ Owing(c[4]) = c[3]
    BY <1>2
  <1>5. Even(c) BY <1>1, <1>3, <1>4, EvenPair
  <1>. QED BY <1>5 DEF c

(* or around two and in front of one, as the head of a loop.               *)
LEMMA EvenHead ==
  ASSUME NEW o \in Openers, NEW k \in Neutral, NEW l \in Neutral,
         NEW g \in Words, NEW m \in Neutral, Owing(g) = o
  PROVE  Even(<<o, k, l, g, m>>)
  <1>. DEFINE c == <<o, k, l, g, m>>
  <1>0. o \in Words /\ \A n \in Neutral : n \in Words
    BY DEF Words, Brackets, Neutral
  <1>1. c \in Seq(Words) BY <1>0, Tuple5, Zenon
  <1>2. Len(c) = 5 /\ c[1] = o /\ c[2] = k /\ c[3] = l /\ c[4] = g /\ c[5] = m OBVIOUS
  <1>. HIDE DEF c
  <1>3. \A i \in 1 .. Len(c) : i # 1 /\ i # 4 => c[i] \in Neutral BY <1>2
  <1>4. /\ 1 \in 1 .. Len(c) /\ 4 \in 1 .. Len(c)
        /\ c[1] \in Openers /\ Owing(c[4]) = c[1]
    BY <1>2
  <1>5. Even(c) BY <1>1, <1>3, <1>4, EvenPair
  <1>. QED BY <1>5 DEF c

(* Even goals in front of even goals are even.                             *)
LEMMA EvenJoin ==
  ASSUME NEW c, NEW d, Even(c), Even(d)
  PROVE  Even(c \o d)
  <1>1. c \in Seq(Words) /\ d \in Seq(Words) BY DEF Even
  <1>2. /\ c \o d \in Seq(Words) /\ Len(c \o d) = Len(c) + Len(d)
        /\ \A i \in 1 .. Len(c) + Len(d) :
             (c \o d)[i] = IF i <= Len(c) THEN c[i] ELSE d[i - Len(c)]
        /\ Len(c) \in Nat /\ Len(d) \in Nat
    BY <1>1, ConcatProperties, LenProperties
  <1>3. Clean(c \o d)
    <2>. SUFFICES ASSUME NEW i \in 1 .. Len(c) + Len(d) PROVE (c \o d)[i] # "FixedDec"
      BY <1>2 DEF Clean
    <2>1. CASE i <= Len(c) BY <1>2, <2>1 DEF Even, Clean
    <2>2. CASE i > Len(c)
      <3>1. i - Len(c) \in 1 .. Len(d) BY <1>2, <2>2
      <3>. QED BY <1>2, <2>2, <3>1 DEF Even, Clean
    <2>. QED BY <1>2, <2>1, <2>2
  <1>4. \A s \in Stacks : Chain(c \o d, s, s) BY <1>1, ChainJoin DEF Even
  <1>. QED BY <1>2, <1>3, <1>4 DEF Even

(* A step that replaces a neutral goal by even ones keeps BInv.            *)
LEMMA EvenStep ==
  ASSUME BInv, cs # <<>>, "fixed_any" \in Avoid, unclosed' = unclosed,
         Head(cs) \in Neutral, NEW rest, Even(rest),
         NEW take \in BOOLEAN, NEW wrong \in BOOLEAN, Do(rest, take, wrong),
         take => curr \notin Brackets
  PROVE  BInv'
  <1>1. rest \in Seq(Words) /\ Clean(rest) BY DEF Even
  <1>2. \A s, t \in Stacks : Link(Head(cs), s, t) => Chain(rest, s, t)
    BY DEF Even, Link, Neutral
  <1>3. curr \notin Brackets => \A s \in Stacks : Opened(curr, s, s)
    BY DEF Opened, Brackets, Closes
  <1>4. CASE take
    <2>1. Takes(rest, wrong) BY <1>4 DEF Do, Takes
    <2>. QED BY <1>1, <1>2, <1>3, <1>4, <2>1, TakeStep DEF Clean
  <1>5. CASE ~take
    <2>1. Goes(rest, wrong) BY <1>5 DEF Do, Goes
    <2>. QED BY <1>1, <1>2, <2>1, GoStep
  <1>. QED BY <1>4, <1>5

(* Most steps replace a goal that neither owes nor opens a bracket by goals*)
(* that are even, and take no bracket.                                     *)
LEMMA EvenGo ==
  ASSUME BInv, cs # <<>>, "fixed_any" \in Avoid, unclosed' = unclosed,
         Head(cs) \in Neutral, NEW rest, Even(rest), Go(rest)
  PROVE  BInv'
  BY EvenStep DEF Go

(* The same when it takes a token that is no bracket,                      *)
LEMMA EvenTake ==
  ASSUME BInv, cs # <<>>, "fixed_any" \in Avoid, unclosed' = unclosed,
         Head(cs) \in Neutral, NEW rest, Even(rest), Take(rest), curr \notin Brackets
  PROVE  BInv'
  BY EvenStep DEF Take

(* when the token decides which goals they are,                            *)
LEMMA EvenMatch ==
  ASSUME BInv, cs # <<>>, "fixed_any" \in Avoid, unclosed' = unclosed,
         Head(cs) \in Neutral, NEW yes, NEW no, Even(yes), Even(no),
         NEW t, t \notin Brackets, Match(t, yes, no)
  PROVE  BInv'
  <1>1. CASE curr = t BY <1>1, EvenTake DEF Match
  <1>2. CASE curr # t BY <1>2, EvenGo DEF Match
  <1>. QED BY <1>1, <1>2

(* and when it reports an error and takes nothing.                         *)
LEMMA EvenComplain ==
  ASSUME BInv, cs # <<>>, unclosed' = unclosed, Head(cs) \in Neutral,
         NEW rest, Even(rest), NEW wrong \in BOOLEAN, Complain(rest, wrong)
  PROVE  BInv'
  <1>1. rest \in Seq(Words) /\ Clean(rest) BY DEF Even
  <1>2. \A s, t \in Stacks : Link(Head(cs), s, t) => Chain(rest, s, t)
    BY DEF Even, Link, Neutral
  <1>3. Goes(rest, wrong) BY DEF Complain, Goes
  <1>. QED BY <1>1, <1>2, <1>3, GoStep

(* Every goal owes nothing and opens nothing, but those listed here.       *)
LEMMA NeutralGoals ==
  /\ Neutral \subseteq Words /\ Brackets \subseteq Words
  /\ \A g \in Goals :
       \/ g \in {"Args", "Block", "Cases", "FixedDec", "ForLast", "Methods", "MoreCases",
                 "Skip", "SubMethods"}
       \/ g \in Neutral
  /\ \A g \in {":", ";", ".", "=", "fn", "id", "in"} : g \in Neutral
  <1>1. \A g \in {":", ";", ".", "=", "fn", "id", "in"} : g \in Neutral
    BY DEF Neutral, Words, Owing, Openers
  <1>2. Goals \cap Brackets = {} BY DEF Goals, Brackets, Openers
  <1>3. \A g \in Goals :
          \/ g \in {"Args", "Block", "Cases", "FixedDec", "ForLast", "Methods",
                    "MoreCases", "Skip", "SubMethods"}
          \/ g \in Neutral
    BY <1>2 DEF Neutral, Words, Owing, Brackets
  <1>. QED BY <1>1, <1>3 DEF Neutral, Words

(* Goals that owe one bracket in all.                                      *)
Pays(c, b) == /\ c \in Seq(Words) /\ Clean(c)
              /\ \A s \in Stacks : Chain(c, Append(s, b), s)

(* One goal that owes a bracket among others that do not.                  *)
LEMMA PayOne ==
  ASSUME NEW c \in Seq(Words), NEW b \in Openers, NEW k \in 1 .. Len(c), Owing(c[k]) = b,
         \A i \in 1 .. Len(c) : i # k => c[i] \in Neutral
  PROVE  Pays(c, b)
  <1>1. b # "nothing" /\ c[k] # "FixedDec" BY DEF Openers, Owing
  <1>2. Clean(c) BY <1>1 DEF Clean, Neutral
  <1>3. ASSUME NEW s \in Stacks PROVE Chain(c, Append(s, b), s)
    <2>1. Append(s, b) \in Stacks BY AppendProperties DEF Stacks
    <2>2. Link(c[k], Append(s, b), s) BY <1>1 DEF Link
    <2>. QED BY <2>1, <2>2, ChainOne
  <1>. QED BY <1>2, <1>3 DEF Pays

(* The places it has in what the parser's functions put on cs: alone,      *)
LEMMA Pay1 ==
  ASSUME NEW b \in Openers, NEW g \in Words, Owing(g) = b
  PROVE  Pays(<<g>>, b)
  <1>. DEFINE c == <<g>>
  <1>1. c \in Seq(Words) BY Tuple1, Zenon
  <1>2. Len(c) = 1 /\ c[1] = g OBVIOUS
  <1>. HIDE DEF c
  <1>3. /\ 1 \in 1 .. Len(c) /\ Owing(c[1]) = b
        /\ \A i \in 1 .. Len(c) : i # 1 => c[i] \in Neutral
    BY <1>2
  <1>4. Pays(c, b) BY <1>1, <1>3, PayOne
  <1>. QED BY <1>4 DEF c

(* behind one goal,                                                        *)
LEMMA Pay2 ==
  ASSUME NEW b \in Openers, NEW m \in Neutral, NEW g \in Words, Owing(g) = b
  PROVE  Pays(<<m, g>>, b)
  <1>. DEFINE c == <<m, g>>
  <1>1. c \in Seq(Words)
    <2>1. \A n \in Neutral : n \in Words BY DEF Neutral
    <2>. QED BY <2>1, Tuple2, Zenon
  <1>2. Len(c) = 2 /\ c[1] = m /\ c[2] = g OBVIOUS
  <1>. HIDE DEF c
  <1>3. /\ 2 \in 1 .. Len(c) /\ Owing(c[2]) = b
        /\ \A i \in 1 .. Len(c) : i # 2 => c[i] \in Neutral
    BY <1>2
  <1>4. Pays(c, b) BY <1>1, <1>3, PayOne
  <1>. QED BY <1>4 DEF c

(* in front of one,                                                        *)
LEMMA Pay2First ==
  ASSUME NEW b \in Openers, NEW g \in Words, NEW m \in Neutral, Owing(g) = b
  PROVE  Pays(<<g, m>>, b)
  <1>. DEFINE c == <<g, m>>
  <1>1. c \in Seq(Words)
    <2>1. \A n \in Neutral : n \in Words BY DEF Neutral
    <2>. QED BY <2>1, Tuple2, Zenon
  <1>2. Len(c) = 2 /\ c[1] = g /\ c[2] = m OBVIOUS
  <1>. HIDE DEF c
  <1>3. /\ 1 \in 1 .. Len(c) /\ Owing(c[1]) = b
        /\ \A i \in 1 .. Len(c) : i # 1 => c[i] \in Neutral
    BY <1>2
  <1>4. Pays(c, b) BY <1>1, <1>3, PayOne
  <1>. QED BY <1>4 DEF c

(* between two,                                                            *)
LEMMA Pay3 ==
  ASSUME NEW b \in Openers, NEW l \in Neutral, NEW g \in Words, NEW m \in Neutral,
         Owing(g) = b
  PROVE  Pays(<<l, g, m>>, b)
  <1>. DEFINE c == <<l, g, m>>
  <1>1. c \in Seq(Words)
    <2>1. \A n \in Neutral : n \in Words BY DEF Neutral
    <2>. QED BY <2>1, Tuple3, Zenon
  <1>2. Len(c) = 3 /\ c[1] = l /\ c[2] = g /\ c[3] = m OBVIOUS
  <1>. HIDE DEF c
  <1>3. /\ 2 \in 1 .. Len(c) /\ Owing(c[2]) = b
        /\ \A i \in 1 .. Len(c) : i # 2 => c[i] \in Neutral
    BY <1>2
  <1>4. Pays(c, b) BY <1>1, <1>3, PayOne
  <1>. QED BY <1>4 DEF c

(* in front of two,                                                        *)
LEMMA Pay3First ==
  ASSUME NEW b \in Openers, NEW g \in Words, NEW l \in Neutral, NEW m \in Neutral,
         Owing(g) = b
  PROVE  Pays(<<g, l, m>>, b)
  <1>. DEFINE c == <<g, l, m>>
  <1>1. c \in Seq(Words)
    <2>1. \A n \in Neutral : n \in Words BY DEF Neutral
    <2>. QED BY <2>1, Tuple3, Zenon
  <1>2. Len(c) = 3 /\ c[1] = g /\ c[2] = l /\ c[3] = m OBVIOUS
  <1>. HIDE DEF c
  <1>3. /\ 1 \in 1 .. Len(c) /\ Owing(c[1]) = b
        /\ \A i \in 1 .. Len(c) : i # 1 => c[i] \in Neutral
    BY <1>2
  <1>4. Pays(c, b) BY <1>1, <1>3, PayOne
  <1>. QED BY <1>4 DEF c

(* between one and two,                                                    *)
LEMMA Pay4 ==
  ASSUME NEW b \in Openers, NEW l \in Neutral, NEW g \in Words, NEW m \in Neutral,
         NEW n \in Neutral, Owing(g) = b
  PROVE  Pays(<<l, g, m, n>>, b)
  <1>. DEFINE c == <<l, g, m, n>>
  <1>1. c \in Seq(Words)
    <2>1. \A x \in Neutral : x \in Words BY DEF Neutral
    <2>. QED BY <2>1, Tuple4, Zenon
  <1>2. Len(c) = 4 /\ c[1] = l /\ c[2] = g /\ c[3] = m /\ c[4] = n OBVIOUS
  <1>. HIDE DEF c
  <1>3. /\ 2 \in 1 .. Len(c) /\ Owing(c[2]) = b
        /\ \A i \in 1 .. Len(c) : i # 2 => c[i] \in Neutral
    BY <1>2
  <1>4. Pays(c, b) BY <1>1, <1>3, PayOne
  <1>. QED BY <1>4 DEF c

(* or behind three.                                                        *)
LEMMA Pay4Last ==
  ASSUME NEW b \in Openers, NEW l \in Neutral, NEW m \in Neutral, NEW n \in Neutral,
         NEW g \in Words, Owing(g) = b
  PROVE  Pays(<<l, m, n, g>>, b)
  <1>. DEFINE c == <<l, m, n, g>>
  <1>1. c \in Seq(Words)
    <2>1. \A x \in Neutral : x \in Words BY DEF Neutral
    <2>. QED BY <2>1, Tuple4, Zenon
  <1>2. Len(c) = 4 /\ c[1] = l /\ c[2] = m /\ c[3] = n /\ c[4] = g OBVIOUS
  <1>. HIDE DEF c
  <1>3. /\ 4 \in 1 .. Len(c) /\ Owing(c[4]) = b
        /\ \A i \in 1 .. Len(c) : i # 4 => c[i] \in Neutral
    BY <1>2
  <1>4. Pays(c, b) BY <1>1, <1>3, PayOne
  <1>. QED BY <1>4 DEF c

(* A step that takes an opening bracket and puts on cs the goals that owe  *)
(* it, and one that passes a debt on to other goals.                       *)
LEMMA OpenStep ==
  ASSUME BInv, cs # <<>>, "fixed_any" \in Avoid, unclosed' = unclosed,
         Head(cs) \in Neutral, curr \in Openers, NEW rest, Pays(rest, curr),
         NEW wrong \in BOOLEAN, Do(rest, TRUE, wrong)
  PROVE  BInv'
  <1>1. Takes(rest, wrong) BY DEF Do, Takes
  <1>2. \A s, t \in Stacks : Link(Head(cs), s, t) => s = t BY DEF Link, Neutral
  <1>3. ASSUME NEW s \in Stacks
        PROVE  \E u \in Stacks : Opened(curr, s, u) /\ Chain(rest, u, s)
    <2>1. Append(s, curr) \in Stacks BY AppendProperties DEF Stacks
    <2>. QED BY <2>1 DEF Opened, Pays
  <1>. QED BY <1>1, <1>2, <1>3, TakeStep DEF Clean, Pays

(* A step that replaces a goal by others that owe the same bracket.        *)
LEMMA PassStep ==
  ASSUME BInv, cs # <<>>, "fixed_any" \in Avoid, unclosed' = unclosed,
         Owing(Head(cs)) \in Openers, NEW rest, Pays(rest, Owing(Head(cs))),
         NEW take \in BOOLEAN, NEW wrong \in BOOLEAN, Do(rest, take, wrong),
         take => curr \notin Brackets
  PROVE  BInv'
  <1>1. Owing(Head(cs)) # "nothing" BY DEF Openers
  <1>2. \A s, t \in Stacks : Link(Head(cs), s, t) => Chain(rest, s, t)
    BY <1>1 DEF Link, Pays
  <1>3. curr \notin Brackets => \A s \in Stacks : Opened(curr, s, s)
    BY DEF Opened, Brackets, Closes
  <1>4. CASE take
    <2>1. Takes(rest, wrong) BY <1>4 DEF Do, Takes
    <2>. QED BY <1>2, <1>3, <1>4, <2>1, TakeStep DEF Clean, Pays
  <1>5. CASE ~take
    <2>1. Goes(rest, wrong) BY <1>5 DEF Do, Goes
    <2>. QED BY <1>2, <2>1, GoStep DEF Pays
  <1>. QED BY <1>4, <1>5

(* The call of a class or function: its ( is owed by its arguments.        *)
LEMMA CallStep ==
  ASSUME BInv, cs # <<>>, "fixed_any" \in Avoid, unclosed' = unclosed,
         Head(cs) \in Neutral, curr = "(", Take(<<"Args", "Called">>)
  PROVE  BInv'
  <1>1. "Args" \in Words /\ "Called" \in Neutral BY NeutralGoals DEF Words, Goals
  <1>2. curr \in Openers /\ Owing("Args") = curr BY DEF Openers, Owing
  <1>3. Pays(<<"Args", "Called">>, curr) BY <1>1, <1>2, Pay2First
  <1>4. Do(<<"Args", "Called">>, TRUE, FALSE) BY DEF Take
  <1>. QED BY <1>2, <1>3, <1>4, OpenStep

(* A step that takes the bracket a goal owes; and fixed, behind which a    *)
(* FixedDec comes to lie on top of cs.                                     *)
LEMMA CloseStep ==
  ASSUME BInv, cs # <<>>, "fixed_any" \in Avoid, unclosed' = unclosed,
         curr \in DOMAIN Closes, Owing(Head(cs)) = Closes[curr], Take(<<>>)
  PROVE  BInv'
  <1>1. Takes(<<>>, FALSE) BY DEF Take, Do, Takes
  <1>2. curr \notin Openers /\ Closes[curr] # "nothing" BY DEF Openers, Closes
  <1>3. \A s, t \in Stacks : Link(Head(cs), s, t) =>
                               Opened(curr, s, t) /\ Chain(<<>>, t, t)
    BY <1>2, Chain0 DEF Link, Opened
  <1>4. <<>> \in Seq(Words) /\ Len(<<>>) = 0 BY EmptySeq
  <1>5. \A i \in 1 .. Len(<<>>) : <<>>[i] = "FixedDec" => i = 1 /\ curr = "fixed"
    BY <1>4
  <1>. QED BY <1>1, <1>3, <1>4, <1>5, TakeStep

(* A step that takes fixed puts a FixedDec on top of cs.                   *)
LEMMA FixedStep ==
  ASSUME BInv, cs # <<>>, "fixed_any" \in Avoid, unclosed' = unclosed,
         Head(cs) \in Neutral, curr = "fixed", NEW rest \in Seq(Words), Take(rest),
         Len(rest) \in Nat \ {0}, rest[1] = "FixedDec",
         \A i \in 1 .. Len(rest) : i # 1 => rest[i] \in Neutral
  PROVE  BInv'
  <1>1. Takes(rest, FALSE) BY DEF Take, Do, Takes
  <1>2. curr \notin Openers /\ curr \notin DOMAIN Closes BY DEF Openers, Closes
  <1>3. \A i \in 1 .. Len(rest) : rest[i] = "FixedDec" => i = 1 BY DEF Neutral
  <1>4. \A s \in Stacks : Link(rest[1], s, s) BY DEF Link, Owing, Openers
  <1>5. \A s \in Stacks : Chain(rest, s, s) BY <1>4, ChainOne
  <1>6. \A s, t \in Stacks : Link(Head(cs), s, t) =>
                               Opened(curr, s, s) /\ Chain(rest, s, t)
    BY <1>2, <1>5 DEF Link, Neutral, Opened
  <1>. QED BY <1>1, <1>3, <1>6, TakeStep

(* Every function that parses an expression keeps BInv.                    *)
LEMMA ExpressionsStep ==
  ASSUME BInv, "fixed_any" \in Avoid, Expressions
  PROVE  BInv'
  <1>a. /\ "Expr" \in Neutral /\ "Operand" \in Neutral /\ "Simple" \in Neutral
        /\ "Operators" \in Neutral /\ "Operated" \in Neutral /\ "Suffixed" \in Neutral
        /\ "Primary" \in Neutral /\ "Suffix" \in Neutral
    BY NeutralGoals DEF Goals
  <1>b. /\ "Super" \in Neutral /\ "Dot" \in Neutral /\ "Indexed" \in Neutral
        /\ "ConstCall" \in Neutral /\ "Called" \in Neutral /\ "Explist" \in Neutral
        /\ "MoreExp" \in Neutral /\ "Limit" \in Neutral
    BY NeutralGoals DEF Goals
  <1>c. "id" \in Neutral /\ "." \in Neutral BY NeutralGoals
  <1>d. "-" \notin Brackets /\ "lit" \notin Brackets /\ "," \notin Brackets
    BY DEF Brackets, Openers
  <1>w. /\ "Args" \in Words /\ ")" \in Words /\ "]" \in Words
        /\ \A g \in Neutral : g \in Words
    BY NeutralGoals DEF Words, Goals, Brackets
  <1>. USE DEF Plain, At
  <1>1. ASSUME Expr PROVE BInv'
    <2>1. Even(<<"Operand", "Operators">>) BY <1>a, Neutral2
    <2>. QED BY <1>1, <1>a, <2>1, EvenEmpty, EvenGo DEF Expr
  <1>2. ASSUME Operand PROVE BInv'
    <2>1. Even(<<"Operand">>) /\ Even(<<"Simple">>) BY <1>a, Neutral1
    <2>. QED BY <1>2, <1>a, <1>d, <2>1, EvenEmpty, EvenMatch DEF Operand
  <1>3. ASSUME Simple PROVE BInv'
    <2>1. Even(<<"Suffixed">>) BY <1>a, Neutral1
    <2>. QED BY <1>3, <1>a, <1>d, <2>1, EvenEmpty, EvenMatch DEF Simple
  <1>4. ASSUME Operators PROVE BInv'
    <2>1. Even(<<"Operand", "Operated", "Operators">>) BY <1>a, Neutral3
    <2>. QED BY <1>4, <1>a, <1>d, <2>1, EvenEmpty, EvenMatch DEF Operators
  <1>5. Operated => BInv' BY <1>a, EvenEmpty, EvenGo DEF Operated
  <1>6. ASSUME Suffixed PROVE BInv'
    <2>1. Even(<<"Primary", "Suffix">>) BY <1>a, Neutral2
    <2>. QED BY <1>6, <1>a, <2>1, EvenEmpty, EvenGo DEF Suffixed
  <1>7. ASSUME Primary PROVE BInv'
    <2>0. cs # <<>> /\ Head(cs) = "Primary" /\ unclosed' = unclosed BY <1>7 DEF Primary
    <2>1. CASE curr = "("
      <3>1. curr \in Openers /\ Owing(")") = curr BY <2>1 DEF Owing, Openers
      <3>2. Pays(<<"Expr", ")">>, curr) BY <1>w, <1>a, <3>1, Pay2
      <3>3. Do(<<"Expr", ")">>, TRUE, FALSE)
        BY <1>7, <2>1 DEF Primary, Take
      <3>. QED BY <2>0, <3>1, <3>2, <3>3, <1>a, OpenStep
    <2>2. CASE Take(<<>>) /\ curr \in {"id", "self"}
      <3>1. curr \notin Brackets BY <2>2 DEF Brackets, Openers
      <3>2. Take(<<>>) BY <1>7, <2>2 DEF Primary
      <3>. QED BY <2>0, EvenEmpty, <3>1, <3>2, <1>a, EvenTake
    <2>3. CASE Take(<<".", "id", "Super">>) /\ curr = "super"
      <3>0. Even(<<".", "id", "Super">>) BY <1>b, <1>c, Neutral3
      <3>1. curr \notin Brackets BY <2>3 DEF Brackets, Openers
      <3>2. Take(<<".", "id", "Super">>) BY <1>7, <2>3 DEF Primary
      <3>. QED BY <2>0, <3>0, <3>1, <3>2, <1>a, EvenTake
    <2>4. CASE Do(<<>>, FALSE, TRUE)
      BY <2>0, <2>4, <1>a, EvenEmpty, EvenStep
    <2>. QED BY <1>7, <2>1, <2>2, <2>3, <2>4 DEF Primary
  <1>8. ASSUME Super PROVE BInv'
    <2>0. cs # <<>> /\ Head(cs) = "Super" /\ unclosed' = unclosed BY <1>8 DEF Super
    <2>1. CASE curr = "("
      <3>1. Take(<<"Args", "Called">>) BY <1>8, <2>1 DEF Super
      <3>. QED BY <2>0, <2>1, <3>1, <1>b, CallStep
    <2>2. CASE MayReport(<<>>)
      BY <2>0, <2>2, <1>b, EvenEmpty, EvenComplain DEF MayReport
    <2>. QED BY <1>8, <2>1, <2>2 DEF Super
  <1>9. ASSUME Suffix PROVE BInv'
    <2>0. cs # <<>> /\ Head(cs) = "Suffix" /\ unclosed' = unclosed BY <1>9 DEF Suffix
    <2>1. CASE curr = "["
      <3>1. curr \in Openers /\ Owing("]") = curr BY <2>1 DEF Owing, Openers
      <3>2. Pays(<<"Expr", "]", "Indexed", "Suffix">>, curr)
        BY <1>w, <1>a, <1>b, <3>1, Pay4
      <3>3. Do(<<"Expr", "]", "Indexed", "Suffix">>, TRUE, FALSE)
        BY <1>9, <2>1 DEF Suffix, Take
      <3>. QED BY <2>0, <3>1, <3>2, <3>3, <1>a, OpenStep
    <2>2. CASE curr = "("
      <3>1. curr \in Openers /\ Owing("Args") = curr BY <2>2 DEF Owing, Openers
      <3>2. Pays(<<"Args", "Called", "Suffix">>, curr)
        BY <1>w, <1>a, <1>b, <3>1, Pay3First
      <3>3. Do(<<"Args", "Called", "Suffix">>, TRUE, et = "const")
            /\ (et = "const") \in BOOLEAN
        BY <1>9, <2>2 DEF Suffix
      <3>. QED BY <2>0, <3>1, <3>2, <3>3, <1>a, OpenStep
    <2>3. CASE curr = "."
      <3>0. Even(<<"id", "Dot", "Suffix">>) BY <1>a, <1>b, <1>c, Neutral3
      <3>1. curr \notin Brackets BY <2>3 DEF Brackets, Openers
      <3>2. Take(<<"id", "Dot", "Suffix">>) BY <1>9, <2>3 DEF Suffix
      <3>. QED BY <2>0, <3>0, <3>1, <3>2, <1>a, EvenTake
    <2>4. CASE Go(<<>>) BY <2>0, <2>4, <1>a, EvenEmpty, EvenGo
    <2>. QED BY <1>9, <2>1, <2>2, <2>3, <2>4 DEF Suffix
  <1>10. ASSUME Dot PROVE BInv'
    <2>0. cs # <<>> /\ Head(cs) = "Dot" /\ unclosed' = unclosed BY <1>10 DEF Dot
    <2>1. CASE curr = "("
      <3>1. Take(<<"Args", "Called">>) BY <1>10, <2>1 DEF Dot, Match
      <3>. QED BY <2>0, <2>1, <3>1, <1>b, CallStep
    <2>2. CASE Go(<<>>) BY <2>0, <2>2, <1>b, EvenEmpty, EvenGo
    <2>. QED BY <1>10, <2>1, <2>2 DEF Dot, Match
  <1>11. ASSUME Indexed PROVE BInv'
    <2>0. cs # <<>> /\ Head(cs) = "Indexed" /\ unclosed' = unclosed BY <1>11 DEF Indexed
    <2>1. CASE curr = "("
      <3>1. curr \in Openers /\ Owing("Args") = curr BY <2>1 DEF Owing, Openers
      <3>2. Pays(<<"ConstCall", "Args", "Called">>, curr) BY <1>w, <1>b, <3>1, Pay3
      <3>3. Do(<<"ConstCall", "Args", "Called">>, TRUE, FALSE)
        BY <1>11, <2>1 DEF Indexed, Take, Match
      <3>. QED BY <2>0, <3>1, <3>2, <3>3, <1>b, OpenStep
    <2>2. CASE Go(<<>>) BY <2>0, <2>2, <1>b, EvenEmpty, EvenGo
    <2>. QED BY <1>11, <2>1, <2>2 DEF Indexed, Match
  <1>12. ConstCall => BInv' BY <1>b, EvenEmpty, EvenComplain DEF ConstCall
  <1>13. ASSUME Args PROVE BInv'
    <2>0. cs # <<>> /\ Head(cs) = "Args" /\ unclosed' = unclosed BY <1>13 DEF Args
    <2>1. CASE Go(<<")">>)
      <3>1. Owing("Args") \in Openers /\ Owing(")") = Owing("Args")
        BY DEF Owing, Openers
      <3>2. Pays(<<")">>, Owing("Args")) BY <1>w, <1>b, <3>1, Pay1
      <3>3. Do(<<")">>, FALSE, FALSE)
        BY <1>13, <2>1 DEF Args, Go
      <3>. QED BY <2>0, <3>1, <3>2, <3>3, PassStep
    <2>2. CASE Go(<<"Explist", ")">>)
      <3>1. Owing("Args") \in Openers /\ Owing(")") = Owing("Args")
        BY DEF Owing, Openers
      <3>2. Pays(<<"Explist", ")">>, Owing("Args")) BY <1>w, <1>b, <3>1, Pay2
      <3>3. Do(<<"Explist", ")">>, FALSE, FALSE)
        BY <1>13, <2>2 DEF Args, Go
      <3>. QED BY <2>0, <3>1, <3>2, <3>3, PassStep
    <2>. QED BY <1>13, <2>1, <2>2 DEF Args
  <1>14. Called => BInv' BY <1>b, EvenEmpty, EvenGo DEF Called
  <1>15. ASSUME Explist PROVE BInv'
    <2>1. Even(<<"Expr", "MoreExp">>) BY <1>a, <1>b, Neutral2
    <2>. QED BY <1>15, <1>a, <1>b, <2>1, EvenEmpty, EvenGo DEF Explist
  <1>16. ASSUME MoreExp PROVE BInv'
    <2>1. Even(<<"Limit", "Explist">>) BY <1>b, Neutral2
    <2>. QED BY <1>16, <1>b, <1>d, <2>1, EvenEmpty, EvenMatch DEF MoreExp
  <1>17. Limit => BInv' BY <1>b, EvenEmpty, EvenComplain DEF Limit, MayReport
  <1>. QED
    BY <1>1, <1>2, <1>3, <1>4, <1>5, <1>6, <1>7, <1>8, <1>9, <1>10, <1>11, <1>12,
       <1>13, <1>14, <1>15, <1>16, <1>17 DEF Expressions

(* So does every function that parses a declaration, a class or a list.    *)
LEMMA DeclarationsStep ==
  ASSUME BInv, "fixed_any" \in Avoid, Declarations
  PROVE  BInv'
  <1>a. /\ "Names" \in Neutral /\ "Named" \in Neutral /\ "MoreNames" \in Neutral
        /\ "Vardec" \in Neutral /\ "ForVardec" \in Neutral /\ "FixedVardec" \in Neutral
        /\ "Twice" \in Neutral /\ "Init" \in Neutral /\ "Explist" \in Neutral
    BY ZenonT(60), NeutralGoals DEF Goals
  <1>b. /\ "Function" \in Neutral /\ "Params" \in Neutral /\ "Classdec" \in Neutral
        /\ "Dec" \in Neutral /\ "Sync" \in Neutral /\ "Stm" \in Neutral
        /\ "Script" \in Neutral
    BY NeutralGoals DEF Goals
  <1>c. "id" \in Neutral /\ ";" \in Neutral /\ "fn" \in Neutral BY NeutralGoals
  <1>d. /\ "fixed" \notin Brackets /\ "," \notin Brackets /\ "=" \notin Brackets
        /\ "impl" \notin Brackets
    BY DEF Brackets, Openers
  <1>w. /\ "{" \in Words /\ "}" \in Words /\ "(" \in Words /\ ")" \in Words
        /\ "Methods" \in Words /\ "SubMethods" \in Words /\ "FixedDec" \in Words
        /\ "Block" \in Words /\ \A g \in Neutral : g \in Words
    BY ZenonT(60), NeutralGoals DEF Words, Goals, Brackets, Openers
  <1>o. /\ "(" \in Openers /\ "{" \in Openers /\ Owing(")") = "("
        /\ Owing("Block") = "{" /\ Owing("Methods") = "{" /\ Owing("SubMethods") = "{"
    BY DEF Openers, Owing
  <1>v. /\ Even(VarRest) /\ Even(<<"Named">> \o VarRest)
        /\ Even(<<"Twice">> \o VarRest)
    <2>1. Even(VarRest) BY <1>a, <1>c, Neutral3 DEF VarRest
    <2>2. Even(<<"Named">>) /\ Even(<<"Twice">>) BY <1>a, Neutral1
    <2>. QED BY <2>1, <2>2, EvenJoin
  <1>. USE DEF Plain, At
  <1>1. ASSUME Names PROVE BInv'
    <2>1. Even(<<"id", "Named", "MoreNames">>) BY <1>a, <1>c, Neutral3
    <2>. QED BY <1>1, <1>a, <1>c, <2>1, EvenEmpty, EvenGo DEF Names
  <1>2. Named => BInv' BY <1>a, EvenEmpty, EvenComplain DEF Named, MayReport
  <1>3. ASSUME MoreNames PROVE BInv'
    <2>1. Even(<<"Names">>) BY <1>a, Neutral1
    <2>. QED BY <1>3, <1>a, <1>d, <2>1, EvenEmpty, EvenMatch DEF MoreNames
  <1>4. Vardec => BInv' BY <1>a, <1>d, <1>v, EvenEmpty, EvenMatch DEF Vardec
  <1>5. ForVardec => BInv' BY <1>a, <1>d, <1>v, EvenEmpty, EvenMatch DEF ForVardec
  <1>6. FixedVardec => BInv' BY <1>a, <1>d, <1>v, EvenEmpty, EvenMatch DEF FixedVardec
  <1>7. Twice => BInv' BY <1>a, EvenEmpty, EvenComplain DEF Twice
  <1>8. ASSUME InitRest PROVE BInv'
    <2>1. Even(<<"Explist">>) BY <1>a, Neutral1
    <2>. QED BY <1>8, <1>a, <1>d, <2>1, EvenEmpty, EvenMatch DEF InitRest
  <1>9. ASSUME FixedDec PROVE BInv'
    <2>0. cs # <<>> /\ Head(cs) = "FixedDec" /\ unclosed' = unclosed
      BY <1>9 DEF FixedDec
    <2>1. Takes(<<"FixedVardec">>, FALSE) BY <1>9 DEF FixedDec, Take, Do, Takes
    <2>3. ~error => curr \notin Openers /\ curr \notin DOMAIN Closes
      <3>1. cs \in Seq(Words) BY DEF BInv
      <3>2. 1 \in DOMAIN cs /\ cs[1] = "FixedDec"
        BY <2>0, <3>1, HeadTailProperties, LenProperties, EmptySeq
      <3>. QED BY <3>2 DEF BInv, FixedOnTop, Brackets, Closes
    <2>4. Even(<<"FixedVardec">>) BY <1>a, Neutral1
    <2>5. \A s, t \in Stacks : Link(Head(cs), s, t) => s = t
      BY <2>0 DEF Link, Owing, Openers
    <2>. QED BY <2>0, <2>1, <2>3, <2>4, <2>5, TakeStep DEF Even, Clean, Opened
  <1>10. ASSUME Function PROVE BInv'
    <2>1. Go(<<"(", "Params", ")">> \o <<"{", "Block">>)
          /\ cs # <<>> /\ Head(cs) = "Function"
          /\ unclosed' = unclosed
      BY <1>10 DEF Function
    <2>2. Even(<<"(", "Params", ")">>) BY <1>w, <1>b, <1>o, Even3
    <2>3. Even(<<"{", "Block">>) BY <1>w, <1>o, Even2
    <2>4. Even(<<"(", "Params", ")">> \o <<"{", "Block">>) BY <2>2, <2>3, EvenJoin
    <2>. QED BY <2>1, <2>4, <1>b, EvenStep DEF Go
  <1>11. ASSUME Params PROVE BInv'
    <2>0. cs # <<>> /\ Head(cs) = "Params" /\ unclosed' = unclosed BY <1>11 DEF Params
    <2>1. CASE Go(<<>>) BY <2>0, <2>1, <1>b, EvenEmpty, EvenGo
    <2>2. CASE Go(<<"Names">>)
      <3>1. Even(<<"Names">>) BY <1>a, Neutral1
      <3>. QED BY <2>0, <2>2, <3>1, <1>b, EvenGo
    <2>. QED BY <1>11, <2>1, <2>2 DEF Params
  <1>12. ASSUME Classdec PROVE BInv'
    <2>0. cs # <<>> /\ Head(cs) = "Classdec" /\ unclosed' = unclosed
      BY <1>12 DEF Classdec
    <2>1. CASE curr = "impl"
      <3>1. Even(<<"id", "Named", "{", "SubMethods">>)
        BY <1>a, <1>c, <1>w, <1>o, EvenBody
      <3>2. Do(<<"id", "Named", "{", "SubMethods">>, TRUE, FALSE)
        BY <1>12, <2>1 DEF Classdec, Match, Take
      <3>3. curr \notin Brackets BY <2>1, <1>d
      <3>. QED BY <2>0, <3>1, <3>2, <3>3, <1>b, EvenStep
    <2>2. CASE curr # "impl"
      <3>1. Even(<<"{", "Methods">>) BY <1>w, <1>o, Even2
      <3>2. Do(<<"{", "Methods">>, FALSE, FALSE) BY <1>12, <2>2 DEF Classdec, Match, Go
      <3>. QED BY <2>0, <3>1, <3>2, <1>b, EvenStep
    <2>. QED BY <1>12, <2>1, <2>2 DEF Classdec
  <1>13. ASSUME Methods("Methods") PROVE BInv'
    <2>0. cs # <<>> /\ Head(cs) = "Methods" /\ unclosed' = unclosed BY <1>13 DEF Methods
    <2>1. CASE Go(<<"}">>)
      <3>1. Owing("Methods") \in Openers /\ Owing("}") = Owing("Methods")
        BY DEF Owing, Openers
      <3>2. Pays(<<"}">>, Owing("Methods")) BY <1>w, <1>b, <3>1, Pay1
      <3>3. Do(<<"}">>, FALSE, FALSE)
        BY <1>13, <2>1 DEF Methods, Go
      <3>. QED BY <2>0, <3>1, <3>2, <3>3, PassStep
    <2>2. CASE Go(<<"fn", "id", "Function", "Methods">>)
      <3>1. Owing("Methods") \in Openers /\ Owing("Methods") = Owing("Methods")
        BY DEF Owing, Openers
      <3>2. Pays(<<"fn", "id", "Function", "Methods">>, Owing("Methods"))
        BY <1>w, <1>b, <1>c, <3>1, Pay4Last
      <3>3. Do(<<"fn", "id", "Function", "Methods">>, FALSE, FALSE)
        BY <1>13, <2>2 DEF Methods, Go
      <3>. QED BY <2>0, <3>1, <3>2, <3>3, PassStep
    <2>. QED BY <1>13, <2>1, <2>2 DEF Methods
  <1>14. ASSUME Methods("SubMethods") PROVE BInv'
    <2>0. cs # <<>> /\ Head(cs) = "SubMethods" /\ unclosed' = unclosed
      BY <1>14 DEF Methods
    <2>1. CASE Go(<<"}">>)
      <3>1. Owing("SubMethods") \in Openers /\ Owing("}") = Owing("SubMethods")
        BY DEF Owing, Openers
      <3>2. Pays(<<"}">>, Owing("SubMethods")) BY <1>w, <1>b, <3>1, Pay1
      <3>3. Do(<<"}">>, FALSE, FALSE)
        BY <1>14, <2>1 DEF Methods, Go
      <3>. QED BY <2>0, <3>1, <3>2, <3>3, PassStep
    <2>2. CASE Go(<<"fn", "id", "Function", "SubMethods">>)
      <3>1. Owing("SubMethods") \in Openers /\ Owing("SubMethods") = Owing("SubMethods")
        BY DEF Owing, Openers
      <3>2. Pays(<<"fn", "id", "Function", "SubMethods">>, Owing("SubMethods"))
        BY <1>w, <1>b, <1>c, <3>1, Pay4Last
      <3>3. Do(<<"fn", "id", "Function", "SubMethods">>, FALSE, FALSE)
        BY <1>14, <2>2 DEF Methods, Go
      <3>. QED BY <2>0, <3>1, <3>2, <3>3, PassStep
    <2>. QED BY <1>14, <2>1, <2>2 DEF Methods
  <1>15. ASSUME Dec PROVE BInv'
    <2>0. cs # <<>> /\ Head(cs) = "Dec" /\ unclosed' = unclosed BY <1>15 DEF Dec
    <2>1. CASE curr = "var"
      <3>0. Even(<<"Vardec", "Sync">>) BY <1>a, <1>b, Neutral2
      <3>1. curr \notin Brackets BY <2>1 DEF Brackets, Openers
      <3>2. Take(<<"Vardec", "Sync">>) BY <1>15, <2>1 DEF Dec
      <3>. QED BY <2>0, <3>0, <3>1, <3>2, <1>b, EvenTake
    <2>2. CASE curr = "fixed"
      <3>. DEFINE c == <<"FixedDec", "Sync">>
      <3>0. c \in Seq(Words) BY <1>w, <1>b, Tuple2, Zenon
      <3>1. Len(c) = 2 /\ c[1] = "FixedDec" /\ c[2] = "Sync" OBVIOUS
      <3>2. Take(c) BY <1>15, <2>2 DEF Dec
      <3>. HIDE DEF c
      <3>. QED BY <2>0, <2>2, <3>0, <3>1, <3>2, <1>b, FixedStep
    <2>3. CASE curr = "fn"
      <3>0. Even(<<"id", "Named", "Function", "Sync">>) BY <1>a, <1>b, <1>c, Neutral4
      <3>1. curr \notin Brackets BY <2>3 DEF Brackets, Openers
      <3>2. Take(<<"id", "Named", "Function", "Sync">>) BY <1>15, <2>3 DEF Dec
      <3>. QED BY <2>0, <3>0, <3>1, <3>2, <1>b, EvenTake
    <2>4. CASE curr = "class"
      <3>0. Even(<<"id", "Named", "Classdec", "Sync">>) BY <1>a, <1>b, <1>c, Neutral4
      <3>1. curr \notin Brackets BY <2>4 DEF Brackets, Openers
      <3>2. Take(<<"id", "Named", "Classdec", "Sync">>) BY <1>15, <2>4 DEF Dec
      <3>. QED BY <2>0, <3>0, <3>1, <3>2, <1>b, EvenTake
    <2>5. CASE Go(<<"Stm", "Sync">>)
      <3>1. Even(<<"Stm", "Sync">>) BY <1>b, Neutral2
      <3>. QED BY <2>0, <2>5, <3>1, <1>b, EvenGo
    <2>. QED BY <1>15, <2>1, <2>2, <2>3, <2>4, <2>5 DEF Dec
  <1>16. ASSUME Sync PROVE BInv'
    <2>0. /\ cs # <<>> /\ Head(cs) = "Sync" /\ panic' = FALSE /\ error' = error
          /\ UNCHANGED <<curr, opening, nest, unclosed>>
      BY <1>16 DEF Sync
    <2>1. cs' = <<>> \o Tail(cs) \/ cs' = <<"Skip">> \o Tail(cs)
      <3>1. Tail(cs) \in Seq(Words) BY <2>0, HeadTailProperties DEF BInv
      <3>. QED BY <1>16, <3>1, ConcatEmptySeq DEF Sync
    <2>2. cs' \in Seq(Words) /\ FixedOnTop'
      <3>1. CASE cs' = <<>> \o Tail(cs)
        <4>1. Even(<<>>) BY EvenEmpty
        <4>. QED BY <2>0, <3>1, <4>1, OneFixed DEF Even, Clean, FixedOnTop
      <3>2. CASE cs' = <<"Skip">> \o Tail(cs)
        <4>1. "Skip" \in Words BY DEF Words, Goals
        <4>. DEFINE c == <<"Skip">>
        <4>2. c \in Seq(Words) /\ Clean(c) BY <4>1, Tuple1 DEF Clean
        <4>3. cs' = c \o Tail(cs) BY <3>2
        <4>. HIDE DEF c
        <4>. QED BY <2>0, <4>2, <4>3, OneFixed DEF FixedOnTop, Clean
      <3>. QED BY <2>1, <3>1, <3>2
    <2>3. ~error => Matched'
      <3>. SUFFICES ASSUME ~error PROVE Matched' OBVIOUS
      <3>1. cs' = Tail(cs) BY <1>16 DEF Sync, BInv
      <3>2. \A s, t \in Stacks : Link(Head(cs), s, t) => s = t
        BY <2>0, <1>b DEF Link, Neutral
      <3>3. PICK s \in Stacks, t \in Stacks :
              /\ Link(Head(cs), s, t) /\ Chain(Tail(cs), t, <<>>)
              /\ nest = s \o Braces(unclosed)
        BY <2>0, Cut
      <3>. QED BY <2>0, <3>1, <3>2, <3>3 DEF Matched
    <2>. QED BY <2>0, <2>2, <2>3 DEF BInv
  <1>17. ASSUME Skip PROVE BInv'
    <2>0. cs # <<>> /\ Head(cs) = "Skip" /\ unclosed' = unclosed BY <1>17 DEF Skip
    <2>1. error BY <2>0, Cut DEF Link, Owing, Openers
    <2>2. CASE Go(<<>>)
      <3>1. Goes(<<>>, FALSE) BY <2>0, <2>2 DEF Go, Do, Goes
      <3>2. Even(<<>>) BY EvenEmpty
      <3>. QED BY <2>0, <2>1, <3>1, <3>2, GoStep DEF Even
    <2>3. CASE Take(<<"Skip">>)
      <3>1. Takes(<<"Skip">>, FALSE) BY <2>0, <2>3 DEF Take, Do, Takes
      <3>2. <<"Skip">> \in Seq(Words) BY DEF Words, Goals
      <3>3. \A i \in 1 .. Len(<<"Skip">>) : <<"Skip">>[i] # "FixedDec" OBVIOUS
      <3>. QED BY <2>0, <2>1, <3>1, <3>2, <3>3, TakeStep
    <2>. QED BY <1>17, <2>2, <2>3 DEF Skip
  <1>18. ASSUME Script PROVE BInv'
    <2>0. cs # <<>> /\ Head(cs) = "Script" /\ unclosed' = unclosed BY <1>18 DEF Script
    <2>1. CASE Go(<<>>) BY <2>0, <2>1, <1>b, EvenEmpty, EvenGo
    <2>2. CASE Go(<<"Dec", "Script">>)
      <3>1. Even(<<"Dec", "Script">>) BY <1>b, Neutral2
      <3>. QED BY <2>0, <2>2, <3>1, <1>b, EvenGo
    <2>. QED BY <1>18, <2>1, <2>2 DEF Script
  <1>. QED
    BY <1>1, <1>2, <1>3, <1>4, <1>5, <1>6, <1>7, <1>8, <1>9, <1>10, <1>11, <1>12,
       <1>13, <1>14, <1>15, <1>16, <1>17, <1>18 DEF Declarations

(* A sequence of one element, repeated.                                    *)
LEMMA RepeatSeq ==
  ASSUME NEW S, NEW e \in S, NEW m \in Nat
  PROVE  /\ [i \in 1 .. m |-> e] \in Seq(S) /\ Len([i \in 1 .. m |-> e]) = m
         /\ \A i \in 1 .. m : [j \in 1 .. m |-> e][i] = e
  <1>. DEFINE f == [i \in 1 .. m |-> e]
  <1>1. f \in [1 .. m -> S] /\ \A i \in 1 .. m : f[i] = e OBVIOUS
  <1>2. Len(f) = m OBVIOUS
  <1>. HIDE DEF f
  <1>3. f \in Seq(S) BY <1>1, SeqDef
  <1>. QED BY <1>1, <1>2, <1>3 DEF f

(* The element may as well be counted to the sequence in front of it.      *)
LEMMA AppendRepeat ==
  ASSUME NEW S, NEW e \in S, NEW t \in Seq(S), NEW n \in Nat
  PROVE  Append(t, e) \o [i \in 1 .. n |-> e] = t \o [i \in 1 .. n + 1 |-> e]
  <1>. DEFINE a == Append(t, e)
              b == [i \in 1 .. n |-> e]
              c == [i \in 1 .. n + 1 |-> e]
  <1>1. /\ a \in Seq(S) /\ Len(a) = Len(t) + 1 /\ a[Len(t) + 1] = e /\ Len(t) \in Nat
        /\ \A i \in 1 .. Len(t) : a[i] = t[i]
    BY AppendProperties, LenProperties
  <1>2. b \in Seq(S) /\ Len(b) = n /\ \A i \in 1 .. n : b[i] = e BY RepeatSeq
  <1>3. c \in Seq(S) /\ Len(c) = n + 1 /\ \A i \in 1 .. n + 1 : c[i] = e
    <2>1. n + 1 \in Nat OBVIOUS
    <2>. QED BY <2>1, RepeatSeq
  <1>. HIDE DEF a, b, c
  <1>4. /\ a \o b \in Seq(S) /\ Len(a \o b) = Len(a) + n
        /\ \A i \in 1 .. Len(a) + n :
             (a \o b)[i] = IF i <= Len(a) THEN a[i] ELSE b[i - Len(a)]
    BY <1>1, <1>2, ConcatProperties
  <1>5. /\ t \o c \in Seq(S) /\ Len(t \o c) = Len(t) + (n + 1)
        /\ \A i \in 1 .. Len(t) + (n + 1) :
             (t \o c)[i] = IF i <= Len(t) THEN t[i] ELSE c[i - Len(t)]
    BY <1>3, ConcatProperties
  <1>6. ASSUME NEW i \in 1 .. Len(t) + (n + 1) PROVE (a \o b)[i] = (t \o c)[i]
    <2>1. CASE i <= Len(t) BY <1>1, <1>4, <1>5, <2>1
    <2>2. CASE i = Len(t) + 1
      <3>1. (a \o b)[i] = e BY <1>1, <1>4, <2>2
      <3>2. i - Len(t) \in 1 .. n + 1 /\ (t \o c)[i] = c[i - Len(t)] BY <1>1, <1>5, <2>2
      <3>. QED BY <3>1, <3>2, <1>3
    <2>3. CASE i > Len(t) + 1
      <3>1. i - Len(a) \in 1 .. n /\ (a \o b)[i] = b[i - Len(a)] BY <1>1, <1>4, <2>3
      <3>2. i - Len(t) \in 1 .. n + 1 /\ (t \o c)[i] = c[i - Len(t)] BY <1>1, <1>5, <2>3
      <3>. QED BY <3>1, <3>2, <1>2, <1>3
    <2>4. i <= Len(t) \/ i = Len(t) + 1 \/ i > Len(t) + 1 BY <1>1
    <2>. QED BY <2>1, <2>2, <2>3, <2>4
  <1>7. Len(a \o b) = Len(t \o c) /\ Len(a \o b) = Len(t) + (n + 1) BY <1>1, <1>4, <1>5
  <1>8. a \o b = t \o c BY <1>4, <1>5, <1>6, <1>7, SeqEqual
  <1>. QED BY <1>8 DEF a, b, c

(* A brace that nobody will close joins those left open before.            *)
LEMMA MoreBraces ==
  ASSUME NEW t \in Stacks, NEW n \in Nat
  PROVE  Append(t, "{") \o Braces(n) = t \o Braces(n + 1)
  <1>1. "{" \in Openers BY DEF Openers
  <1>. QED BY ZenonT(60), <1>1, AppendRepeat DEF Stacks, Braces

(* The end of the file leaves the brace of a switch open for ever.         *)
LEMMA CasesStep ==
  ASSUME BInv, "fixed_any" \in Avoid, NEW g \in {"Cases", "MoreCases"}, Cases(g)
  PROVE  BInv'
  <1>0. cs # <<>> /\ Head(cs) = g BY DEF Cases, At
  <1>a. /\ "Expr" \in Neutral /\ "Label" \in Neutral /\ "Stm" \in Neutral
        /\ "Twice" \in Neutral
    BY NeutralGoals DEF Goals
  <1>c. ":" \in Neutral BY NeutralGoals
  <1>w. g \in Words /\ "MoreCases" \in Words BY DEF Words, Goals
  <1>o. Owing(g) = "{" /\ Owing("MoreCases") = "{" /\ "{" \in Openers
    BY DEF Owing, Openers
  <1>1. CASE curr = Eof
    <2>1. /\ Do(<<>>, FALSE, FALSE)
          /\ unclosed' = IF ~error THEN unclosed + 1 ELSE unclosed
      BY <1>1 DEF Cases, Go, Eof
    <2>2. /\ cs' = <<>> \o Tail(cs) /\ panic' = panic /\ error' = error
          /\ UNCHANGED <<curr, opening>> /\ (~error => nest' = nest)
      BY <2>1 DEF Do, BInv
    <2>3. Even(<<>>) BY EvenEmpty
    <2>4. cs' \in Seq(Words) /\ FixedOnTop'
      BY <1>0, <2>2, <2>3, OneFixed DEF Even, Clean, FixedOnTop
    <2>5. ~error => Matched'
      <3>. SUFFICES ASSUME ~error PROVE Matched' OBVIOUS
      <3>1. PICK s \in Stacks, t \in Stacks :
              /\ Link(Head(cs), s, t) /\ Chain(Tail(cs), t, <<>>)
              /\ nest = s \o Braces(unclosed)
        BY <1>0, Cut
      <3>2. s = Append(t, "{") BY <3>1, <1>0, <1>o DEF Link
      <3>3. Append(t, "{") \o Braces(unclosed) = t \o Braces(unclosed + 1)
        BY <1>o, MoreBraces DEF BInv
      <3>4. cs' = Tail(cs)
        <4>1. Tail(cs) \in Seq(Words) BY <1>0, HeadTailProperties DEF BInv
        <4>. QED BY <2>2, <4>1, ConcatEmptySeq
      <3>. QED BY <2>1, <2>2, <3>1, <3>2, <3>3, <3>4 DEF Matched
    <2>. QED BY <2>1, <2>2, <2>4, <2>5, <1>1 DEF BInv
  <1>2. CASE curr # Eof
    <2>0. unclosed' = unclosed BY <1>2 DEF Cases
    <2>1. CASE curr = "}"
      <3>1. Take(<<>>) BY <2>1, <1>2 DEF Cases
      <3>2. curr \in DOMAIN Closes /\ Owing(g) = Closes[curr] BY <2>1, <1>o DEF Closes
      <3>. QED BY <1>0, <2>0, <3>1, <3>2, CloseStep
    <2>2. CASE curr = "case"
      <3>1. Pays(<<"Expr", ":", "Label", g>>, Owing(g))
        BY <1>a, <1>c, <1>w, <1>o, Pay4Last
      <3>2. Do(<<"Expr", ":", "Label", g>>, TRUE, FALSE) BY <2>2, <1>2 DEF Cases, Take
      <3>3. curr \notin Brackets BY <2>2 DEF Brackets, Openers
      <3>. QED BY <1>0, <1>o, <2>0, <3>1, <3>2, <3>3, PassStep
    <2>3. CASE curr = "default"
      <3>1. /\ Pays(<<":", "MoreCases">>, Owing(g)) /\ Pays(<<"Twice", g>>, Owing(g))
        BY <1>a, <1>c, <1>w, <1>o, Pay2
      <3>2. \/ Do(<<":", "MoreCases">>, TRUE, FALSE) \/ Do(<<"Twice", g>>, TRUE, FALSE)
        BY <2>3, <1>2 DEF Cases, Take
      <3>3. curr \notin Brackets BY <2>3 DEF Brackets, Openers
      <3>. QED BY <1>0, <1>o, <2>0, <3>1, <3>2, <3>3, PassStep
    <2>4. CASE Go(<<"Stm", g>>)
      <3>1. Pays(<<"Stm", g>>, Owing(g)) BY <1>a, <1>w, <1>o, Pay2
      <3>2. Do(<<"Stm", g>>, FALSE, FALSE) BY <2>4 DEF Go
      <3>. QED BY <1>0, <1>o, <2>0, <3>1, <3>2, PassStep
    <2>. QED BY <1>2, <2>1, <2>2, <2>3, <2>4 DEF Cases
  <1>. QED BY <1>1, <1>2

(* Every function that parses a statement keeps BInv.                      *)
LEMMA StatementsStep ==
  ASSUME BInv, "fixed_any" \in Avoid, Statements
  PROVE  BInv'
  <1>a. /\ "Stm" \in Neutral /\ "Else" \in Neutral /\ "Leave" \in Neutral
        /\ "Dec" \in Neutral /\ "Return" \in Neutral /\ "ForInit" \in Neutral
        /\ "ForCond" \in Neutral /\ "Factory" \in Neutral /\ "Exprstm" \in Neutral
        /\ "Expr" \in Neutral
    BY ZenonT(60), NeutralGoals DEF Goals
  <1>b. /\ "Assign" \in Neutral /\ "Targets" \in Neutral /\ "Target" \in Neutral
        /\ "First" \in Neutral /\ "Label" \in Neutral /\ "Explist" \in Neutral
        /\ "MoreExp" \in Neutral /\ "Suffixed" \in Neutral /\ "Names" \in Neutral
        /\ "ForVardec" \in Neutral /\ "Twice" \in Neutral
    BY ZenonT(60), NeutralGoals DEF Goals
  <1>c. ";" \in Neutral /\ ":" \in Neutral /\ "=" \in Neutral /\ "in" \in Neutral
    BY NeutralGoals
  <1>d. ";" \notin Brackets /\ "," \notin Brackets /\ "else" \notin Brackets
    BY DEF Brackets, Openers
  <1>w. /\ "{" \in Words /\ "}" \in Words /\ "(" \in Words /\ ")" \in Words
        /\ "Block" \in Words /\ "Cases" \in Words /\ "MoreCases" \in Words
        /\ "ForLast" \in Words /\ "FixedDec" \in Words
    BY ZenonT(60), NeutralGoals DEF Words, Goals, Brackets, Openers
  <1>o. /\ "(" \in Openers /\ "{" \in Openers /\ Owing(")") = "("
        /\ Owing("ForLast") = "(" /\ Owing("Cases") = "{"
    BY DEF Openers, Owing
  <1>e. Even(Cond) BY <1>w, <1>a, <1>o, Even3 DEF Cond
  <1>. USE DEF Plain, At
  <1>1. ASSUME Stm PROVE BInv'
    <2>0. cs # <<>> /\ Head(cs) = "Stm" /\ unclosed' = unclosed BY <1>1 DEF Stm
    <2>1. CASE curr = "while"
      <3>1. Even(<<"Stm">>) BY <1>a, <1>b, <1>w, <1>o, Neutral1
      <3>2. Even(Cond \o <<"Stm">>) BY <1>e, <3>1, EvenJoin
      <3>3. Take(Cond \o <<"Stm">>) /\ curr \notin Brackets
        BY <1>1, <2>1 DEF Stm, Brackets, Openers
      <3>. QED BY <2>0, <3>2, <3>3, <1>a, EvenTake
    <2>2. CASE curr = "for"
      <3>1. Even(<<"(", "ForInit", "ForCond", "ForLast", "Stm">>)
        BY <1>a, <1>w, <1>o, EvenHead
      <3>2. Take(<<"(", "ForInit", "ForCond", "ForLast", "Stm">>) /\ curr \notin Brackets
        BY <1>1, <2>2 DEF Stm, Brackets, Openers
      <3>. QED BY <2>0, <3>1, <3>2, <1>a, EvenTake
    <2>3. CASE curr = "foreach"
      <3>0. Even(<<"Names", "in", "Expr", "Factory", "Stm">>)
        BY <1>a, <1>b, <1>c, Neutral5
      <3>1. curr \notin Brackets BY <2>3 DEF Brackets, Openers
      <3>2. Take(<<"Names", "in", "Expr", "Factory", "Stm">>) BY <1>1, <2>3 DEF Stm
      <3>. QED BY <2>0, <3>0, <3>1, <3>2, <1>a, EvenTake
    <2>4. CASE curr = "if"
      <3>1. Even(<<"Stm", "Else">>) BY <1>a, <1>b, <1>w, <1>o, Neutral2
      <3>2. Even(Cond \o <<"Stm", "Else">>) BY <1>e, <3>1, EvenJoin
      <3>3. Take(Cond \o <<"Stm", "Else">>) /\ curr \notin Brackets
        BY <1>1, <2>4 DEF Stm, Brackets, Openers
      <3>. QED BY <2>0, <3>2, <3>3, <1>a, EvenTake
    <2>5. CASE curr = "switch"
      <3>1. Even(<<"{", "First", "Cases">>) BY <1>a, <1>b, <1>w, <1>o, Even3
      <3>2. Even(Cond \o <<"{", "First", "Cases">>) BY <1>e, <3>1, EvenJoin
      <3>3. Take(Cond \o <<"{", "First", "Cases">>) /\ curr \notin Brackets
        BY <1>1, <2>5 DEF Stm, Brackets, Openers
      <3>. QED BY <2>0, <3>2, <3>3, <1>a, EvenTake
    <2>6. CASE curr = "{"
      <3>1. curr \in Openers /\ Owing("Block") = curr BY <2>6 DEF Owing, Openers
      <3>2. Pays(<<"Block">>, curr) BY <1>w, <3>1, Pay1
      <3>3. Do(<<"Block">>, TRUE, FALSE)
        BY <1>1, <2>6 DEF Stm, Take
      <3>. QED BY <2>0, <3>1, <3>2, <3>3, <1>a, OpenStep
    <2>7. CASE curr \in {"continue", "break"}
      <3>0. Even(<<";", "Leave">>) BY <1>a, <1>c, Neutral2
      <3>1. curr \notin Brackets BY <2>7 DEF Brackets, Openers
      <3>2. Take(<<";", "Leave">>) BY <1>1, <2>7 DEF Stm
      <3>. QED BY <2>0, <3>0, <3>1, <3>2, <1>a, EvenTake
    <2>8. CASE curr = "return"
      <3>0. Even(<<"Return">>) BY <1>a, Neutral1
      <3>1. curr \notin Brackets BY <2>8 DEF Brackets, Openers
      <3>2. Take(<<"Return">>) BY <1>1, <2>8 DEF Stm
      <3>. QED BY <2>0, <3>0, <3>1, <3>2, <1>a, EvenTake
    <2>9. CASE curr = "loop"
      <3>0. Even(<<"Stm">>) BY <1>a, Neutral1
      <3>1. curr \notin Brackets BY <2>9 DEF Brackets, Openers
      <3>2. Take(<<"Stm">>) BY <1>1, <2>9 DEF Stm
      <3>. QED BY <2>0, <3>0, <3>1, <3>2, <1>a, EvenTake
    <2>10. CASE curr = ";"
      <3>1. curr \notin Brackets BY <2>10 DEF Brackets, Openers
      <3>2. Take(<<>>) BY <1>1, <2>10 DEF Stm
      <3>. QED BY <2>0, EvenEmpty, <3>1, <3>2, <1>a, EvenTake
    <2>11. CASE Go(<<"Exprstm", ";">>)
      <3>1. Even(<<"Exprstm", ";">>) BY <1>a, <1>c, Neutral2
      <3>. QED BY <2>0, <2>11, <3>1, <1>a, EvenGo
    <2>. QED
      BY <1>1, <2>1, <2>2, <2>3, <2>4, <2>5, <2>6, <2>7, <2>8, <2>9, <2>10, <2>11 DEF Stm
  <1>2. ASSUME Else PROVE BInv'
    <2>1. Even(<<"Stm">>) BY <1>a, Neutral1
    <2>. QED BY <1>2, <1>a, <1>d, <2>1, EvenEmpty, EvenMatch DEF Else
  <1>3. Leave => BInv' BY <1>a, EvenEmpty, EvenComplain DEF Leave, MayReport
  <1>4. ASSUME Block PROVE BInv'
    <2>0. cs # <<>> /\ Head(cs) = "Block" /\ unclosed' = unclosed BY <1>4 DEF Block
    <2>1. CASE Go(<<"}">>)
      <3>1. Owing("Block") \in Openers /\ Owing("}") = Owing("Block")
        BY DEF Owing, Openers
      <3>2. Pays(<<"}">>, Owing("Block")) BY <1>w, <3>1, Pay1
      <3>3. Do(<<"}">>, FALSE, FALSE)
        BY <1>4, <2>1 DEF Block, Go
      <3>. QED BY <2>0, <3>1, <3>2, <3>3, PassStep
    <2>2. CASE Go(<<"Dec", "Block">>)
      <3>1. Owing("Block") \in Openers /\ Owing("Block") = Owing("Block")
        BY DEF Owing, Openers
      <3>2. Pays(<<"Dec", "Block">>, Owing("Block")) BY <1>w, <1>a, <3>1, Pay2
      <3>3. Do(<<"Dec", "Block">>, FALSE, FALSE)
        BY <1>4, <2>2 DEF Block, Go
      <3>. QED BY <2>0, <3>1, <3>2, <3>3, PassStep
    <2>. QED BY <1>4, <2>1, <2>2 DEF Block, BlockEnd
  <1>5. ASSUME Return PROVE BInv'
    <2>0. cs # <<>> /\ Head(cs) = "Return" /\ unclosed' = unclosed BY <1>5 DEF Return
    <2>1. CASE curr = ";"
      <3>1. curr \notin Brackets BY <2>1 DEF Brackets, Openers
      <3>2. Take(<<>>) BY <1>5, <2>1 DEF Return
      <3>. QED BY <2>0, EvenEmpty, <3>1, <3>2, <1>a, EvenTake
    <2>2. CASE curr # ";"
      <3>1. PICK wrong \in {FALSE, InClass} : Complain(<<"Explist", ";">>, wrong)
        BY <1>5, <2>2 DEF Return
      <3>2. wrong \in BOOLEAN BY DEF InClass
      <3>3. Even(<<"Explist", ";">>) BY <1>b, <1>c, Neutral2
      <3>. QED BY <2>0, <3>1, <3>2, <3>3, <1>a, EvenComplain
    <2>. QED BY <1>5, <2>1, <2>2 DEF Return
  <1>6. ASSUME ForInit PROVE BInv'
    <2>0. cs # <<>> /\ Head(cs) = "ForInit" /\ unclosed' = unclosed BY <1>6 DEF ForInit
    <2>1. CASE curr = ";"
      <3>1. curr \notin Brackets BY <2>1 DEF Brackets, Openers
      <3>2. Take(<<>>) BY <1>6, <2>1 DEF ForInit
      <3>. QED BY <2>0, EvenEmpty, <3>1, <3>2, <1>a, EvenTake
    <2>2. CASE curr = "var"
      <3>0. Even(<<"ForVardec">>) BY <1>b, Neutral1
      <3>1. curr \notin Brackets BY <2>2 DEF Brackets, Openers
      <3>2. Take(<<"ForVardec">>) BY <1>6, <2>2 DEF ForInit
      <3>. QED BY <2>0, <3>0, <3>1, <3>2, <1>a, EvenTake
    <2>3. CASE curr = "fixed"
      <3>. DEFINE c == <<"FixedDec">>
      <3>1. c \in Seq(Words) BY <1>w, Tuple1
      <3>2. Len(c) = 1 /\ c[1] = "FixedDec" OBVIOUS
      <3>3. Take(c) BY <1>6, <2>3 DEF ForInit
      <3>. HIDE DEF c
      <3>. QED BY <2>0, <2>3, <3>1, <3>2, <3>3, <1>a, FixedStep
    <2>4. CASE Go(<<"Exprstm", ";">>)
      <3>1. Even(<<"Exprstm", ";">>) BY <1>a, <1>c, Neutral2
      <3>. QED BY <2>0, <2>4, <3>1, <1>a, EvenGo
    <2>. QED BY <1>6, <2>1, <2>2, <2>3, <2>4 DEF ForInit
  <1>7. ASSUME ForCond PROVE BInv'
    <2>1. Even(<<"Expr", ";">>) BY <1>a, <1>c, Neutral2
    <2>. QED BY <1>7, <1>a, <1>c, <1>d, <2>1, EvenEmpty, EvenMatch DEF ForCond
  <1>8. ASSUME ForLast PROVE BInv'
    <2>0. cs # <<>> /\ Head(cs) = "ForLast" /\ unclosed' = unclosed BY <1>8 DEF ForLast
    <2>1. CASE curr = ")"
      <3>1. Take(<<>>) BY <1>8, <2>1 DEF ForLast, Match
      <3>2. curr \in DOMAIN Closes /\ Owing("ForLast") = Closes[curr]
        BY <2>1, <1>o DEF Closes
      <3>. QED BY <2>0, <3>1, <3>2, CloseStep
    <2>2. CASE curr # ")"
      <3>1. Owing("ForLast") \in Openers /\ Owing(")") = Owing("ForLast")
        BY DEF Owing, Openers
      <3>2. Pays(<<"Exprstm", ")">>, Owing("ForLast")) BY <1>w, <1>a, <3>1, Pay2
      <3>3. Do(<<"Exprstm", ")">>, FALSE, FALSE)
        BY <1>8, <2>2 DEF ForLast, Go, Match
      <3>. QED BY <2>0, <3>1, <3>2, <3>3, PassStep
    <2>. QED BY <1>8, <2>1, <2>2 DEF ForLast
  <1>9. ASSUME Factory PROVE BInv'
    <2>1. Even(<<"MoreExp">>) BY <1>a, <1>b, Neutral1
    <2>. QED BY <1>9, <1>a, <1>b, <2>1, EvenEmpty, EvenComplain DEF Factory
  <1>10. ASSUME Exprstm PROVE BInv'
    <2>1. Even(<<"Suffixed", "Assign">>) BY <1>a, <1>b, Neutral2
    <2>. QED BY <1>10, <1>a, <1>b, <2>1, EvenEmpty, EvenGo DEF Exprstm
  <1>11. ASSUME Assign PROVE BInv'
    <2>0. cs # <<>> /\ Head(cs) = "Assign" /\ unclosed' = unclosed BY <1>11 DEF Assign
    <2>1. CASE curr \in {"=", ","}
      <3>1. Complain(<<"Targets", "=", "Explist">>, et # "var")
            /\ (et # "var") \in BOOLEAN
        BY <1>11, <2>1 DEF Assign
      <3>2. Even(<<"Targets", "=", "Explist">>) BY <1>b, <1>c, Neutral3
      <3>. QED BY <2>0, <3>1, <3>2, <1>b, EvenComplain
    <2>2. CASE Go(<<>>) BY <2>0, <2>2, <1>b, EvenEmpty, EvenGo
    <2>. QED BY <1>11, <2>1, <2>2 DEF Assign
  <1>12. ASSUME Targets PROVE BInv'
    <2>1. Even(<<"Suffixed", "Target", "Targets">>) BY <1>b, Neutral3
    <2>. QED BY <1>12, <1>b, <1>d, <2>1, EvenEmpty, EvenMatch DEF Targets
  <1>13. Target => BInv' BY <1>b, EvenEmpty, EvenComplain DEF Target
  <1>14. First => BInv' BY <1>b, EvenEmpty, EvenStep DEF First
  <1>15. Cases("Cases") => BInv' BY CasesStep, <1>w DEF Goals
  <1>16. Cases("MoreCases") => BInv' BY CasesStep, <1>w DEF Goals
  <1>17. Label => BInv' BY <1>b, EvenEmpty, EvenComplain DEF Label, MayReport
  <1>. QED
    BY <1>1, <1>2, <1>3, <1>4, <1>5, <1>6, <1>7, <1>8, <1>9, <1>10, <1>11, <1>12,
       <1>13, <1>14, <1>15, <1>16, <1>17 DEF Statements

(* expect takes the token it was called for or reports that it is missing. *)
LEMMA ExpectStep ==
  ASSUME BInv, "fixed_any" \in Avoid, Expect
  PROVE  BInv'
  <1>0. /\ cs # <<>> /\ Head(cs) \in Tokens /\ Head(cs) \in Words /\ unclosed' = unclosed
        /\ Do(<<>>, curr = Head(cs), curr # Head(cs))
    BY HeadTailProperties DEF Expect, BInv
  <1>e. <<>> \in Seq(Words) /\ Clean(<<>>) /\ \A s \in Stacks : Chain(<<>>, s, s)
    BY EvenEmpty DEF Even
  <1>1. Head(cs) \notin Goals BY <1>0, RecoveryAssumption DEF RecoveryAssumption
  <1>2. CASE curr = Head(cs)
    <2>1. Takes(<<>>, FALSE) BY <1>0, <1>2 DEF Do, Takes
    <2>2. ASSUME NEW s \in Stacks, NEW t \in Stacks, Link(curr, s, t)
          PROVE  Opened(curr, s, t)
      <3>1. curr \notin Goals /\ curr \in Words BY <1>0, <1>1, <1>2
      <3>2. CASE curr \in Openers
        <4>1. Owing(curr) = "nothing" BY <3>2 DEF Owing, Openers
        <4>. QED BY <2>2, <3>2, <4>1 DEF Link, Opened
      <3>3. CASE curr \in DOMAIN Closes
        <4>1. /\ curr \notin Openers /\ Owing(curr) = Closes[curr]
              /\ Closes[curr] # "nothing"
          BY <3>3 DEF Owing, Openers, Closes
        <4>. QED BY <2>2, <3>3, <4>1 DEF Link, Opened
      <3>4. CASE curr \notin Openers /\ curr \notin DOMAIN Closes
        <4>1. curr \in {":", ";", ".", "=", "fn", "id", "in"}
          BY <3>1, <3>4 DEF Words, Brackets, Openers, Closes
        <4>2. Owing(curr) = "nothing" BY <4>1 DEF Owing
        <4>. QED BY <2>2, <3>4, <4>2 DEF Link, Opened
      <3>. QED BY <3>2, <3>3, <3>4
    <2>. QED BY <1>0, <1>2, <1>e, <2>1, <2>2, TakeStep DEF Clean
  <1>3. CASE curr # Head(cs)
    <2>1. Goes(<<>>, TRUE) BY <1>0, <1>3 DEF Do, Goes
    <2>. QED BY <1>0, <1>e, <2>1, GoStep
  <1>. QED BY <1>2, <1>3

(* BInv holds in every state, if nothing but var follows fixed.            *)
LEMMA InitBInv == ASSUME Init PROVE BInv
  <1>1. /\ cs = <<"Script">> /\ nest = <<>> /\ unclosed = 0
        /\ error = panic /\ panic \in BOOLEAN
    BY DEF Init
  <1>2. "Script" \in Neutral BY NeutralGoals DEF Goals
  <1>3. cs \in Seq(Words) /\ Clean(cs) /\ \A s \in Stacks : Chain(cs, s, s)
    BY <1>1, <1>2, Neutral1 DEF Even
  <1>4. opening \in Seq(Tokens) /\ curr # Eof
    <2>1. PICK s \in Openings : curr = Head(s) /\ opening = Tail(s) BY DEF Init
    <2>2. s \in Seq(Tokens) /\ s # <<>> BY RecoveryAssumption DEF RecoveryAssumption
    <2>3. Head(s) \in Tokens /\ Tail(s) \in Seq(Tokens) BY <2>2, HeadTailProperties
    <2>. QED BY <2>1, <2>3, RecoveryAssumption DEF RecoveryAssumption
  <1>5. FixedOnTop BY <1>3, LenProperties DEF FixedOnTop, Clean
  <1>6. Matched
    <2>1. <<>> \in Stacks BY EmptySeq DEF Stacks
    <2>2. Braces(unclosed) = <<>> BY <1>1 DEF Braces
    <2>3. <<>> \o <<>> = <<>> OBVIOUS
    <2>. QED BY <1>1, <1>3, <2>1, <2>2, <2>3 DEF Matched
  <1>. QED BY <1>1, <1>3, <1>4, <1>5, <1>6 DEF BInv

(* Every step of the parser keeps BInv.                                    *)
LEMMA NextBInv ==
  ASSUME "fixed_any" \in Avoid, BInv, [Next]_vars
  PROVE  BInv'
  <1>1. CASE Next
    BY <1>1, ExpectStep, ExpressionsStep, DeclarationsStep, StatementsStep DEF Next
  <1>2. CASE UNCHANGED vars
    BY <1>2 DEF vars, BInv, Matched, FixedOnTop, Chain, IsChain
  <1>. QED BY <1>1, <1>2

(* When the last function has returned, nothing is left to close.          *)
LEMMA BInvBalanced == ASSUME BInv PROVE Balanced
  <1>. SUFFICES ASSUME Done, ~error PROVE nest = Braces(unclosed)
    BY DEF Balanced, Braces
  <1>1. PICK s \in Stacks : Chain(cs, s, <<>>) /\ nest = s \o Braces(unclosed)
    BY DEF BInv, Matched
  <1>2. s = <<>> BY <1>1 DEF Done, Chain
  <1>3. Braces(unclosed) \in Seq({"{"}) BY RepeatSeq DEF BInv, Braces
  <1>. QED BY <1>1, <1>2, <1>3, ConcatEmptySeq

(* Balanced in every behaviour of the parser, for any tokens and any text, *)
(* wherever only var is written behind fixed.                              *)
THEOREM BracketsBalanced == "fixed_any" \in Avoid => (Spec => []Balanced)
  <1>. SUFFICES ASSUME "fixed_any" \in Avoid PROVE Spec => []Balanced OBVIOUS
  <1>1. Init => BInv BY InitBInv
  <1>2. BInv /\ [Next]_vars => BInv' BY NextBInv
  <1>3. BInv => Balanced BY BInvBalanced
  <1>. QED BY <1>1, <1>2, <1>3, PTL DEF Spec

(***************************************************************************)
(* NoCascade, for texts of any length over any tokens.  A second message   *)
(* about a token needs panic to have been cleared without a token taken,   *)
(* which only sync does.  Behind it comes dec, which takes the token, or   *)
(* finds one that nothing goes forward on.  What has to be shown is that   *)
(* sync is not reached with a token told of that dec would only take after *)
(* a second message, and which function is called behind which.            *)
(***************************************************************************)

(* What may be called behind a goal; anything, if it is none of these.     *)
Behind(g) ==
  CASE g \in {"Stm", "Else", "Leave", "Return"} -> {"Sync", "Else", "Cases", "MoreCases"}
    [] g \in {";", "Vardec", "ForVardec", "FixedVardec", "FixedDec"} ->
         {"Sync", "Else", "Cases", "MoreCases", "Leave", "ForCond", "ForLast"}
    [] g \in {"Dec", "Sync", "Skip"} -> {"Script", "Block"}
    [] g = "ForInit" -> {"ForCond"}
    [] g = "ForCond" -> {"ForLast"}
    [] OTHER -> Words
Bound == {"Stm", "Else", "Leave", "Return", ";", "Vardec", "ForVardec", "FixedVardec",
          "FixedDec", "Dec", "Sync", "Skip", "ForInit", "ForCond"}
Marks == {"Methods", "SubMethods", "Classdec", "FixedDec"}
Free  == Words \ (Bound \cup Marks)
Grammar(c) == \A i \in 1 .. Len(c) - 1 : c[i + 1] \in Behind(c[i])

(* No semicolon is before the braces of a class, so that self and super    *)
(* become words dec goes forward on where it makes no difference.          *)
ClassTop == \A i \in 1 .. Len(cs) : cs[i] = "Classdec" =>
              /\ ~semi /\ i <= 3
              /\ i = 2 => cs[1] = "Named"
              /\ i = 3 => cs[1] = "id" /\ cs[2] = "Named"
FixedVar == \A i \in 1 .. Len(cs) : cs[i] = "FixedDec" => i = 1 /\ curr \in {"var", Eof}

(* Behind a semicolon, a token that no statement starts with and that its  *)
(* first expression takes: either nobody has complained about it, or it is *)
(* going to be taken before panic is cleared.                              *)
Odd == {".", "[", "=", ","}
Passing == {"ForCond", "Expr", "Operand", "Simple", "Suffixed", "Primary", "Suffix",
            "Operators", ";", "Targets"}
Aims(t) == {"Exprstm", "ForLast"} \cup
  (IF t \in {".", "["} THEN {"ForCond", "Expr", "Operand", "Simple", "Suffixed", "Suffix"}
   ELSE {"Assign"} \cup (IF t = "," THEN {"Targets"} ELSE {"="}))
Aimed(c) == \A i \in 1 .. Len(c) :
              c[i] \in Passing \/ \E k \in 1 .. i : c[k] \in Aims(curr)
Calm == {"Leave", "Else", "Sync", "Skip", "Script", "Block", "Dec", "Stm", "Cases",
         "MoreCases"}
OddToken == semi /\ curr \in Odd /\ cs # <<>>
OddShape == OddToken => /\ told => panic
                        /\ (Head(cs) \in Calm /\ ~told) \/ Aimed(cs)

(* Where a second message would count, and where the parser then is.       *)
Live == told /\ ~panic /\ cs # <<>> /\ curr # Eof /\ (semi => curr \in DecStart)
Firsts == {"(", "id", "self", "super"}
Hot == \/ Head(cs) = "Skip"
       \/ /\ curr \in DecStart \ Odd
          /\ \/ Head(cs) \in {"Script", "Block", "Dec"}
             \/ Head(cs) = "Stm" /\ curr \notin {"var", "fixed", "fn", "class"}
             \/ Head(cs) \in {"Exprstm", "Suffixed", "Primary"} /\ curr \in Firsts
CInv == /\ BInv /\ Grammar(cs) /\ ClassTop /\ FixedVar /\ OddShape
        /\ (Live => Hot) /\ NoCascade

(* A step that reports or not, takes a token or not.                       *)
Acts(rest, take, wrong) ==
  /\ take \in BOOLEAN /\ wrong \in BOOLEAN
  /\ Do(rest, take, wrong) \/ (~take /\ Complain(rest, wrong))

(* What Acts says of the variables of CInv.                                *)
LEMMA ActsEffect ==
  ASSUME NEW rest, NEW take, NEW wrong, Acts(rest, take, wrong)
  PROVE  /\ cs' = rest \o Tail(cs)
         /\ take => semi' = (curr = ";") /\ ~told' /\ curr' \in Following
         /\ ~take => /\ curr' = curr /\ semi' = semi
                     /\ panic' = (panic \/ wrong)
                     /\ told' => told \/ Reports(wrong)
         /\ \/ again' = again
            \/ again' = (again \/ (Reports(wrong) /\ told /\ curr # Eof
                                    /\ ~(semi /\ curr \notin DecStart)))
  <1>1. CASE Do(rest, take, wrong)
    <2>1. cs' = rest \o Tail(cs) BY <1>1 DEF Do
    <2>2. take => semi' = (curr = ";") /\ ~told' /\ curr' \in Following
      BY <1>1 DEF Do, Advance
    <2>3. ~take => /\ curr' = curr /\ semi' = semi /\ panic' = (panic \/ wrong)
                   /\ told' => told \/ Reports(wrong)
      BY <1>1 DEF Do
    <2>4. again' = (again \/ (Reports(wrong) /\ told /\ curr # Eof
                               /\ ~(semi /\ curr \notin DecStart)))
      BY <1>1 DEF Do
    <2>. QED BY <2>1, <2>2, <2>3, <2>4
  <1>2. CASE ~take /\ Complain(rest, wrong) BY <1>2 DEF Complain
  <1>. QED BY <1>1, <1>2 DEF Acts

(* What a step leaves on cs: rest, and what was there but for the first.   *)
LEMMA Rear ==
  ASSUME BInv, cs # <<>>, NEW rest \in Seq(Words), cs' = rest \o Tail(cs)
  PROVE  /\ cs' \in Seq(Words) /\ Len(rest) \in Nat /\ Len(cs) \in Nat \ {0}
         /\ Len(cs') = Len(rest) + Len(cs) - 1 /\ Head(cs) = cs[1]
         /\ \A i \in 1 .. Len(rest) : cs'[i] = rest[i]
         /\ \A i \in Len(rest) + 1 .. Len(cs') :
              i - Len(rest) + 1 \in 2 .. Len(cs) /\ cs'[i] = cs[i - Len(rest) + 1]
         /\ \A i \in 2 .. Len(cs) :
              Len(rest) + i - 1 \in Len(rest) + 1 .. Len(cs') /\ cs'[Len(rest) + i - 1] = cs[i]
  <1>1. /\ cs \in Seq(Words) /\ Tail(cs) \in Seq(Words) /\ Head(cs) = cs[1]
        /\ Len(Tail(cs)) = Len(cs) - 1 /\ Len(cs) \in Nat \ {0}
        /\ \A i \in 1 .. Len(Tail(cs)) : Tail(cs)[i] = cs[i + 1]
    BY HeadTailProperties, LenProperties, EmptySeq DEF BInv
  <1>2. /\ cs' \in Seq(Words) /\ Len(cs') = Len(rest) + Len(Tail(cs))
        /\ \A i \in 1 .. Len(rest) + Len(Tail(cs)) :
             cs'[i] = IF i <= Len(rest) THEN rest[i] ELSE Tail(cs)[i - Len(rest)]
        /\ Len(rest) \in Nat
    BY <1>1, ConcatProperties, LenProperties
  <1>3. \A i \in Len(rest) + 1 .. Len(cs') :
          i - Len(rest) + 1 \in 2 .. Len(cs) /\ cs'[i] = cs[i - Len(rest) + 1]
    <2>. TAKE i \in Len(rest) + 1 .. Len(cs')
    <2>1. i - Len(rest) \in 1 .. Len(Tail(cs)) /\ i > Len(rest) BY <1>1, <1>2
    <2>2. cs'[i] = Tail(cs)[i - Len(rest)] BY <1>2, <2>1
    <2>. QED BY <1>1, <2>1, <2>2
  <1>4. \A i \in 2 .. Len(cs) :
          Len(rest) + i - 1 \in Len(rest) + 1 .. Len(cs') /\ cs'[Len(rest) + i - 1] = cs[i]
    <2>. TAKE i \in 2 .. Len(cs)
    <2>1. Len(rest) + i - 1 \in Len(rest) + 1 .. Len(cs') BY <1>1, <1>2
    <2>2. (Len(rest) + i - 1) - Len(rest) + 1 = i BY <1>1, <1>2
    <2>. QED BY <1>3, <2>1, <2>2
  <1>5. \A i \in 1 .. Len(rest) : cs'[i] = rest[i] BY <1>1, <1>2
  <1>6. Len(cs') = Len(rest) + Len(cs) - 1 BY <1>1, <1>2
  <1>. QED BY <1>1, <1>2, <1>3, <1>4, <1>5, <1>6, Zenon

(* What may take the place of a goal.                                      *)
Fits(g, rest) == /\ rest \in Seq(Words) /\ Grammar(rest)
                 /\ rest # <<>> => Behind(g) \subseteq Behind(rest[Len(rest)])

(* Goals are called in an order that Behind allows.                        *)
LEMMA GrammarStep ==
  ASSUME BInv, cs # <<>>, Grammar(cs), NEW rest, cs' = rest \o Tail(cs),
         Fits(Head(cs), rest)
  PROVE  Grammar(cs')
  <1>0. rest \in Seq(Words) BY DEF Fits
  <1>1. /\ Len(rest) \in Nat /\ Len(cs) \in Nat \ {0}
        /\ Len(cs') = Len(rest) + Len(cs) - 1 /\ Head(cs) = cs[1]
    BY <1>0, Rear
  <1>2. \A i \in 1 .. Len(rest) : cs'[i] = rest[i] BY <1>0, Rear
  <1>3. \A i \in Len(rest) + 1 .. Len(cs') :
              i - Len(rest) + 1 \in 2 .. Len(cs) /\ cs'[i] = cs[i - Len(rest) + 1]
    BY <1>0, Rear
  <1>. SUFFICES ASSUME NEW i \in 1 .. Len(cs') - 1 PROVE cs'[i + 1] \in Behind(cs'[i])
    BY DEF Grammar
  <1>4. CASE i < Len(rest)
    <2>1. i \in 1 .. Len(rest) - 1 /\ i \in 1 .. Len(rest) /\ i + 1 \in 1 .. Len(rest)
      BY <1>1, <1>4
    <2>2. rest[i + 1] \in Behind(rest[i]) BY <2>1 DEF Fits, Grammar
    <2>. QED BY <1>2, <2>1, <2>2
  <1>5. CASE i = Len(rest)
    <2>1. i \in 1 .. Len(rest) /\ i + 1 \in Len(rest) + 1 .. Len(cs') /\ rest # <<>>
      BY <1>1, <1>5
    <2>2. i + 1 - Len(rest) + 1 = 2 BY <1>1, <1>5
    <2>3. cs'[i + 1] = cs[2] /\ 1 \in 1 .. Len(cs) - 1 BY <1>1, <1>3, <2>1, <2>2
    <2>4. cs[2] \in Behind(cs[1])
      <3>1. cs[1 + 1] \in Behind(cs[1]) BY <2>3 DEF Grammar
      <3>. QED BY <3>1
    <2>5. cs[2] \in Behind(rest[i]) BY <2>4, <1>1, <1>5, <2>1 DEF Fits
    <2>. QED BY <1>2, <2>1, <2>3, <2>5
  <1>6. CASE i > Len(rest)
    <2>. DEFINE j == i - Len(rest) + 1
    <2>1. i \in Len(rest) + 1 .. Len(cs') /\ i + 1 \in Len(rest) + 1 .. Len(cs')
          /\ i + 1 - Len(rest) + 1 = j + 1
      BY <1>1, <1>6
    <2>2. cs'[i] = cs[j] /\ cs'[i + 1] = cs[j + 1] /\ j + 1 \in 2 .. Len(cs)
      BY <1>3, <2>1
    <2>3. j \in 1 .. Len(cs) - 1 BY <1>1, <2>2
    <2>. HIDE DEF j
    <2>4. cs[j + 1] \in Behind(cs[j]) BY <2>3 DEF Grammar
    <2>. QED BY <2>2, <2>4
  <1>. QED BY <1>1, <1>4, <1>5, <1>6

(* Goals that change nothing about the class being read or about fixed.    *)
Without(rest, S) == rest \in Seq(Words) /\ \A i \in 1 .. Len(rest) : rest[i] \notin S
Quiet(rest)      == Without(rest, Marks)
NewClass == {"Classdec"}
NewFixed == {"FixedDec"}

(* A class is entered right behind its name.                               *)
LEMMA ClassStep ==
  ASSUME BInv, cs # <<>>, ClassTop, NEW rest, Without(rest, NewClass),
         NEW take, NEW wrong, Acts(rest, take, wrong)
  PROVE  /\ rest = <<>> \/ Head(cs) \notin {"id", "Named"}
         /\ take /\ Head(cs) \in {"id", "Named"} => curr # ";"
         => ClassTop'
  <1>0. rest \in Seq(Words) /\ cs' = rest \o Tail(cs) BY ActsEffect DEF Without
  <1>1. /\ Len(rest) \in Nat /\ Len(cs) \in Nat \ {0}
        /\ Len(cs') = Len(rest) + Len(cs) - 1 /\ Head(cs) = cs[1]
    BY <1>0, Rear
  <1>2. \A i \in 1 .. Len(rest) : cs'[i] = rest[i] BY <1>0, Rear
  <1>3. \A i \in Len(rest) + 1 .. Len(cs') :
              i - Len(rest) + 1 \in 2 .. Len(cs) /\ cs'[i] = cs[i - Len(rest) + 1]
    BY <1>0, Rear
  <1>4. \A i \in 1 .. Len(rest) : cs'[i] # "Classdec" BY <1>2 DEF Without, NewClass
  <1>5. ASSUME rest = <<>> \/ Head(cs) \notin {"id", "Named"},
               take /\ Head(cs) \in {"id", "Named"} => curr # ";",
               NEW i \in 1 .. Len(cs'), cs'[i] = "Classdec"
        PROVE  /\ ~semi' /\ i <= 3
               /\ i = 2 => cs'[1] = "Named"
               /\ i = 3 => cs'[1] = "id" /\ cs'[2] = "Named"
    <2>. DEFINE j == i - Len(rest) + 1
    <2>1. i \notin 1 .. Len(rest) BY <1>4, <1>5
    <2>2. i \in Len(rest) + 1 .. Len(cs') BY ONLY <2>1, <1>1, i \in 1 .. Len(cs')
    <2>3. j \in 2 .. Len(cs) /\ cs'[i] = cs[j] BY <2>2, <1>3
    <2>4. j \in 1 .. Len(cs) BY ONLY <2>3, <1>1
    <2>5. cs[j] = "Classdec" BY <2>3, <1>5
    <2>6. /\ ~semi /\ j <= 3
          /\ j = 2 => cs[1] = "Named"
          /\ j = 3 => cs[1] = "id" /\ cs[2] = "Named"
      BY <2>4, <2>5 DEF ClassTop
    <2>7. j = 2 \/ j = 3 BY ONLY <2>3, <2>6, <1>1
    <2>8. Head(cs) \in {"id", "Named"} BY <1>1, <2>6, <2>7
    <2>9. rest = <<>> BY <2>8, <1>5
    <2>10. Len(rest) = 0 BY <2>9
    <2>11. j = i + 1 BY ONLY <2>10, i \in 1 .. Len(cs'), <1>1
    <2>12. ~semi'
      <3>1. take => semi' = (curr = ";") BY ActsEffect
      <3>2. ASSUME ~take PROVE semi' = semi BY <3>2 DEF Acts, Do, Complain
      <3>. QED BY <3>1, <3>2, <2>6, <2>8, <1>5
    <2>. HIDE DEF j
    <2>13. i <= 3 /\ i # 3 /\ (i = 2 => j = 3)
      BY ONLY <2>6, <2>11, i \in 1 .. Len(cs'), <1>1
    <2>14. i = 2 => cs'[1] = "Named"
      <3>. SUFFICES ASSUME i = 2 PROVE cs'[1] = "Named" OBVIOUS
      <3>1. cs[2] = "Named" BY <2>6, <2>13
      <3>2. 1 \in Len(rest) + 1 .. Len(cs') /\ 1 - Len(rest) + 1 = 2
        BY ONLY <1>1, <2>10, i \in 1 .. Len(cs')
      <3>. QED BY <3>1, <3>2, <1>3
    <2>. QED BY <2>12, <2>13, <2>14
  <1>. QED BY <1>5, Zenon DEF ClassTop

(* FixedDec never stays on cs under other goals.                           *)
LEMMA FixedVarStep ==
  ASSUME BInv, cs # <<>>, NEW rest, Without(rest, NewFixed), cs' = rest \o Tail(cs)
  PROVE  FixedVar'
  <1>1. rest \in Seq(Words) /\ \A i \in 1 .. Len(rest) : rest[i] # "FixedDec"
    BY DEF Without, NewFixed
  <1>2. cs' \in Seq(Words) /\ \A i \in DOMAIN cs' : cs'[i] # "FixedDec"
    BY <1>1, OneFixed
  <1>. QED BY <1>2, LenProperties DEF FixedVar

(* The class being read stays the same.                                    *)
LEMMA SameClass ==
  ASSUME BInv, cs # <<>>, NEW rest, Without(rest, {"Methods", "SubMethods"}),
         cs' = rest \o Tail(cs),
         Head(cs) \notin {"Methods", "SubMethods"}
  PROVE  DecStart' = DecStart /\ StmStart' = StmStart
  <1>0. rest \in Seq(Words) BY DEF Without
  <1>1. /\ Len(rest) \in Nat /\ Len(cs) \in Nat \ {0} /\ cs' \in Seq(Words)
        /\ Len(cs') = Len(rest) + Len(cs) - 1 /\ Head(cs) = cs[1]
    BY <1>0, Rear
  <1>2. \A i \in 1 .. Len(rest) : cs'[i] \notin {"Methods", "SubMethods"}
    BY <1>0, Rear DEF Without
  <1>3. \A i \in Len(rest) + 1 .. Len(cs') :
              i - Len(rest) + 1 \in 2 .. Len(cs) /\ cs'[i] = cs[i - Len(rest) + 1]
    BY <1>0, Rear
  <1>4. \A i \in 2 .. Len(cs) :
          Len(rest) + i - 1 \in Len(rest) + 1 .. Len(cs') /\ cs'[Len(rest) + i - 1] = cs[i]
    BY <1>0, Rear
  <1>5. DOMAIN cs = 1 .. Len(cs) /\ DOMAIN cs' = 1 .. Len(cs') BY <1>1, LenProperties DEF BInv
  <1>6. ASSUME NEW i \in DOMAIN cs, cs[i] \in {"Methods", "SubMethods"}
        PROVE  i \in 2 .. Len(cs)
    <2>1. i # 1 BY <1>1, <1>6
    <2>. QED BY <1>1, <1>5, <2>1
  <1>7. ASSUME NEW i \in DOMAIN cs', cs'[i] \in {"Methods", "SubMethods"}
        PROVE  i \in Len(rest) + 1 .. Len(cs')
    <2>1. i \notin 1 .. Len(rest) BY <1>2, <1>7
    <2>. QED BY <1>1, <1>5, <2>1
  <1>8. InClass' = InClass
    <2>1. ASSUME NEW i \in DOMAIN cs, cs[i] \in {"Methods", "SubMethods"}
          PROVE  \E k \in DOMAIN cs' : cs'[k] \in {"Methods", "SubMethods"}
      <3>1. i \in 2 .. Len(cs) BY <2>1, <1>6
      <3>2. Len(rest) + i - 1 \in Len(rest) + 1 .. Len(cs') BY <3>1, <1>4
      <3>3. Len(rest) + i - 1 \in DOMAIN cs' BY <3>2, <1>1, <1>5
      <3>4. cs'[Len(rest) + i - 1] = cs[i] BY <3>1, <1>4
      <3>. QED BY <2>1, <3>3, <3>4
    <2>2. ASSUME NEW i \in DOMAIN cs', cs'[i] \in {"Methods", "SubMethods"}
          PROVE  \E k \in DOMAIN cs : cs[k] \in {"Methods", "SubMethods"}
      <3>1. i \in Len(rest) + 1 .. Len(cs') BY <2>2, <1>7
      <3>2. i - Len(rest) + 1 \in 2 .. Len(cs) BY <3>1, <1>3
      <3>3. i - Len(rest) + 1 \in DOMAIN cs BY <3>2, <1>1, <1>5
      <3>4. cs'[i] = cs[i - Len(rest) + 1] BY <3>1, <1>3
      <3>. QED BY <2>2, <3>3, <3>4
    <2>. QED BY <2>1, <2>2, Zenon DEF InClass
  <1>9. InSubclass => InSubclass'
    <2>. SUFFICES ASSUME NEW i \in DOMAIN cs, cs[i] = "SubMethods",
                         \A j \in 1 .. i - 1 : cs[j] # "Methods"
                  PROVE  InSubclass'
      BY DEF InSubclass
    <2>. DEFINE k == Len(rest) + i - 1
    <2>1. i \in 2 .. Len(cs) BY <1>6
    <2>2. k \in Len(rest) + 1 .. Len(cs') /\ cs'[k] = cs[i] BY <2>1, <1>4
    <2>3. ASSUME NEW j \in 1 .. k - 1 PROVE cs'[j] # "Methods"
      <3>1. CASE j \in 1 .. Len(rest) BY <3>1, <1>2
      <3>2. CASE j \notin 1 .. Len(rest)
        <4>1. j \in Len(rest) + 1 .. Len(cs') BY ONLY <3>2, <1>1, <2>2, j \in 1 .. k - 1
        <4>2. j - Len(rest) + 1 \in 1 .. i - 1
          BY ONLY <3>2, <1>1, <4>1, <2>1, j \in 1 .. k - 1
        <4>3. cs'[j] = cs[j - Len(rest) + 1] BY <4>1, <1>3
        <4>. QED BY <4>2, <4>3
      <3>. QED BY <3>1, <3>2
    <2>4. k \in DOMAIN cs' BY <2>2, <1>1, <1>5
    <2>. HIDE DEF k
    <2>. QED BY <2>2, <2>3, <2>4 DEF InSubclass
  <1>10. InSubclass' => InSubclass
    <2>. SUFFICES ASSUME NEW i \in DOMAIN cs', cs'[i] = "SubMethods",
                         \A j \in 1 .. i - 1 : cs'[j] # "Methods"
                  PROVE  InSubclass
      BY DEF InSubclass
    <2>. DEFINE k == i - Len(rest) + 1
    <2>1. i \in Len(rest) + 1 .. Len(cs') BY <1>7
    <2>2. k \in 2 .. Len(cs) /\ cs'[i] = cs[k] BY <2>1, <1>3
    <2>3. ASSUME NEW j \in 1 .. k - 1 PROVE cs[j] # "Methods"
      <3>1. CASE j = 1 BY <3>1, <1>1
      <3>2. CASE j # 1
        <4>1. j \in 2 .. Len(cs) BY <3>2, <1>1, <2>2
        <4>2. Len(rest) + j - 1 \in 1 .. i - 1
          BY ONLY <3>2, <1>1, <4>1, <2>1, j \in 1 .. k - 1
        <4>3. cs'[Len(rest) + j - 1] = cs[j] BY <4>1, <1>4
        <4>. QED BY <4>2, <4>3
      <3>. QED BY <3>1, <3>2
    <2>4. k \in DOMAIN cs BY <2>2, <1>1, <1>5
    <2>. HIDE DEF k
    <2>. QED BY <2>2, <2>3, <2>4 DEF InSubclass
  <1>. QED BY <1>8, <1>9, <1>10 DEF DecStart, StmStart

(* A goal that the odd token passes by leaves it aimed at, whatever goals  *)
(* that it passes by take its place;                                       *)
LEMMA AimPass ==
  ASSUME BInv, cs # <<>>, Aimed(cs), Head(cs) \notin Aims(curr), curr' = curr,
         NEW rest \in Seq(Words), cs' = rest \o Tail(cs),
         \A i \in 1 .. Len(rest) : rest[i] \in Passing
  PROVE  Aimed(cs)'
  <1>1. /\ Len(rest) \in Nat /\ Len(cs) \in Nat \ {0}
        /\ Len(cs') = Len(rest) + Len(cs) - 1 /\ Head(cs) = cs[1]
    BY Rear
  <1>2. \A i \in 1 .. Len(rest) : cs'[i] = rest[i] BY Rear
  <1>3. \A i \in Len(rest) + 1 .. Len(cs') :
              i - Len(rest) + 1 \in 2 .. Len(cs) /\ cs'[i] = cs[i - Len(rest) + 1]
    BY Rear
  <1>4. \A i \in 2 .. Len(cs) :
          Len(rest) + i - 1 \in Len(rest) + 1 .. Len(cs') /\ cs'[Len(rest) + i - 1] = cs[i]
    BY Rear
  <1>. SUFFICES ASSUME NEW i \in 1 .. Len(cs')
                PROVE  cs'[i] \in Passing \/ \E k \in 1 .. i : cs'[k] \in Aims(curr)
    BY DEF Aimed
  <1>5. CASE i \in 1 .. Len(rest) BY <1>2, <1>5
  <1>6. CASE i \notin 1 .. Len(rest)
    <2>. DEFINE j == i - Len(rest) + 1
    <2>1. j \in 2 .. Len(cs) /\ cs'[i] = cs[j] BY <1>1, <1>3, <1>6
    <2>2. CASE cs[j] \in Passing BY <2>1, <2>2
    <2>3. CASE cs[j] \notin Passing
      <3>1. j \in 1 .. Len(cs) BY <2>1
      <3>2. PICK k \in 1 .. j : cs[k] \in Aims(curr) BY <2>3, <3>1 DEF Aimed
      <3>3. k # 1 BY <3>2, <1>1
      <3>4. k \in 2 .. Len(cs) BY <3>2, <3>3, <2>1
      <3>5. cs'[Len(rest) + k - 1] = cs[k] BY <3>4, <1>4
      <3>6. Len(rest) + k - 1 \in 1 .. i BY <3>2, <3>4, <1>1
      <3>. QED BY <3>2, <3>5, <3>6
    <2>. QED BY <2>2, <2>3
  <1>. QED BY <1>5, <1>6

(* and one that goes on with a goal that takes it aims at it anew.         *)
LEMMA AimNew ==
  ASSUME BInv, cs # <<>>, curr' = curr, NEW rest \in Seq(Words), cs' = rest \o Tail(cs),
         NEW k \in 1 .. Len(rest), rest[k] \in Aims(curr),
         \A i \in 1 .. k - 1 : rest[i] \in Passing
  PROVE  Aimed(cs)'
  <1>1. Len(rest) \in Nat /\ Len(cs') \in Nat BY Rear, LenProperties
  <1>2. \A i \in 1 .. Len(rest) : cs'[i] = rest[i] BY Rear
  <1>. SUFFICES ASSUME NEW i \in 1 .. Len(cs')
                PROVE  cs'[i] \in Passing \/ \E m \in 1 .. i : cs'[m] \in Aims(curr)
    BY DEF Aimed
  <1>3. CASE i < k
    <2>1. i \in 1 .. k - 1 /\ i \in 1 .. Len(rest) BY <1>1, <1>3
    <2>. QED BY <2>1, <1>2
  <1>4. CASE i >= k
    <2>1. k \in 1 .. i /\ cs'[k] \in Aims(curr) BY <1>1, <1>2, <1>4
    <2>. QED BY <2>1
  <1>. QED BY <1>1, <1>3, <1>4

(* A step that takes the token keeps CInv if it reports nothing where dec  *)
(* may be, and goes on calmly behind a semicolon.                          *)
LEMMA TakeCore ==
  ASSUME CInv, cs # <<>>, BInv', NEW rest, NEW wrong, Acts(rest, TRUE, wrong),
         Fits(Head(cs), rest), ClassTop', FixedVar',
         Live /\ Hot => ~wrong,
         curr = ";" => cs' = <<>> \/ Head(cs') \in Calm \/ Aimed(cs)'
  PROVE  CInv'
  <1>1. cs' = rest \o Tail(cs) /\ semi' = (curr = ";") /\ ~told'
    BY DEF Acts, Do, Advance
  <1>2. Grammar(cs)' BY <1>1, GrammarStep DEF CInv
  <1>5. OddShape' BY <1>1 DEF OddShape, OddToken
  <1>6. ~Live' BY <1>1 DEF Live
  <1>7. NoCascade'
    <2>1. again' = (again \/ (Reports(wrong) /\ told /\ curr # Eof
                               /\ ~(semi /\ curr \notin DecStart)))
      BY DEF Acts, Do
    <2>2. ~(Reports(wrong) /\ told /\ curr # Eof /\ ~(semi /\ curr \notin DecStart))
      BY DEF CInv, Live, Reports
    <2>. QED BY <2>1, <2>2 DEF CInv, NoCascade
  <1>. QED BY <1>2, <1>5, <1>6, <1>7 DEF CInv

(* A step that takes none keeps CInv if it does so where dec may be and    *)
(* where the token is odd, and adds nothing to what dec goes forward on.   *)
LEMMA GoCore ==
  ASSUME CInv, cs # <<>>, BInv', NEW rest, NEW wrong, Acts(rest, FALSE, wrong),
         Fits(Head(cs), rest), ClassTop', FixedVar',
         semi /\ curr \in DecStart' => curr \in DecStart,
         Live /\ Hot => ~wrong /\ (cs' = <<>> \/ Hot'),
         OddToken /\ ~told /\ Head(cs) \in Calm =>
           ~told' /\ (cs' = <<>> \/ Head(cs') \in Calm \/ Aimed(cs)'),
         OddToken /\ Aimed(cs) => Aimed(cs)'
  PROVE  CInv'
  <1>1. /\ cs' = rest \o Tail(cs) /\ curr' = curr /\ semi' = semi
        /\ panic' = (panic \/ wrong) /\ (told' => told \/ Reports(wrong))
    <2>1. CASE Do(rest, FALSE, wrong) BY <2>1 DEF Do
    <2>2. CASE Complain(rest, wrong) BY <2>2 DEF Complain
    <2>. QED BY <2>1, <2>2 DEF Acts
  <1>2. Grammar(cs)' BY <1>1, GrammarStep DEF CInv
  <1>5. OddShape'
    <2>. SUFFICES ASSUME OddToken' 
                  PROVE  (told' => panic') /\ ((Head(cs') \in Calm /\ ~told') \/ Aimed(cs)')
      BY DEF OddShape
    <2>1. OddToken BY <1>1 DEF OddToken
    <2>2. /\ told => panic
          /\ (Head(cs) \in Calm /\ ~told) \/ Aimed(cs)
      BY <2>1 DEF CInv, OddShape
    <2>3. told' => panic' BY <2>2, <1>1 DEF Reports
    <2>4. CASE Aimed(cs) BY <2>1, <2>3, <2>4
    <2>5. CASE Head(cs) \in Calm /\ ~told
      <3>1. cs' # <<>> BY DEF OddToken
      <3>. QED BY <2>1, <2>3, <2>5, <3>1
    <2>. QED BY <2>2, <2>4, <2>5
  <1>6. Live' => Hot'
    <2>. SUFFICES ASSUME Live' PROVE Hot' OBVIOUS
    <2>1. semi => curr \in DecStart BY <1>1 DEF Live
    <2>2. told /\ ~panic BY <1>1 DEF Live, Reports
    <2>3. Live BY <2>1, <2>2, <1>1 DEF Live
    <2>4. cs' # <<>> BY DEF Live
    <2>. QED BY <2>3, <2>4 DEF CInv
  <1>7. NoCascade'
    <2>1. \/ again' = again
          \/ again' = (again \/ (Reports(wrong) /\ told /\ curr # Eof
                               /\ ~(semi /\ curr \notin DecStart)))
      BY ActsEffect
    <2>2. ~(Reports(wrong) /\ told /\ curr # Eof /\ ~(semi /\ curr \notin DecStart))
      BY DEF CInv, Live, Reports
    <2>. QED BY <2>1, <2>2 DEF CInv, NoCascade
  <1>. QED BY <1>2, <1>5, <1>6, <1>7 DEF CInv

(* A goal replaced by others that may be in its place.                     *)
Calls(g, rest) == Fits(g, rest) /\ Quiet(rest)
Steps(rest, take, wrong) ==
  /\ Acts(rest, take, wrong) /\ Calls(Head(cs), rest)
  /\ Head(cs) \notin {"Methods", "SubMethods"}
  /\ rest = <<>> \/ Head(cs) \notin {"id", "Named"}

(* Most steps are of this kind: one that takes the token,                  *)
LEMMA TakeKeeps ==
  ASSUME CInv, cs # <<>>, BInv', NEW rest, NEW wrong, Steps(rest, TRUE, wrong),
         Head(cs) \in {"id", "Named"} => curr # ";",
         Live /\ Hot => ~wrong,
         curr = ";" => cs' = <<>> \/ Head(cs') \in Calm \/ Aimed(cs)'
  PROVE  CInv'
  <1>0. BInv /\ Acts(rest, TRUE, wrong) /\ Fits(Head(cs), rest) BY DEF CInv, Steps, Calls
  <1>1. cs' = rest \o Tail(cs) BY <1>0, ActsEffect
  <1>2. /\ Without(rest, NewClass) /\ Without(rest, NewFixed)
    BY DEF Steps, Calls, Quiet, Without, Marks, NewClass, NewFixed
  <1>3. ClassTop' BY <1>0, <1>2, ClassStep DEF CInv, Steps
  <1>4. FixedVar' BY <1>0, <1>1, <1>2, FixedVarStep
  <1>. QED BY <1>0, <1>3, <1>4, TakeCore

(* and one that takes none.                                                *)
LEMMA GoKeeps ==
  ASSUME CInv, cs # <<>>, BInv', NEW rest, NEW wrong, Steps(rest, FALSE, wrong),
         Live /\ Hot => ~wrong /\ (cs' = <<>> \/ Hot'),
         OddToken /\ ~told /\ Head(cs) \in Calm =>
           ~told' /\ (cs' = <<>> \/ Head(cs') \in Calm \/ Aimed(cs)'),
         OddToken /\ Aimed(cs) => Aimed(cs)'
  PROVE  CInv'
  <1>0. BInv /\ Acts(rest, FALSE, wrong) /\ Fits(Head(cs), rest) BY DEF CInv, Steps, Calls
  <1>1. cs' = rest \o Tail(cs) BY <1>0, ActsEffect
  <1>2. /\ Without(rest, NewClass) /\ Without(rest, NewFixed)
        /\ Without(rest, {"Methods", "SubMethods"})
    BY DEF Steps, Calls, Quiet, Without, Marks, NewClass, NewFixed
  <1>3. ClassTop' BY <1>0, <1>2, ClassStep DEF CInv, Steps
  <1>4. FixedVar' BY <1>0, <1>1, <1>2, FixedVarStep
  <1>5. DecStart' = DecStart BY <1>0, <1>1, <1>2, SameClass DEF Steps
  <1>. QED BY <1>0, <1>3, <1>4, <1>5, GoCore

(* Everywhere else a step keeps CInv unless it takes a semicolon.          *)
AllAims == Aims(".") \cup Aims("=") \cup Aims(",")
Marked  == Calm \cup Passing \cup AllAims

(* The goal in front of an odd token it is aimed at is one of few.         *)
LEMMA AimedHead ==
  ASSUME BInv, cs # <<>>, Aimed(cs), OddToken
  PROVE  Head(cs) \in Passing \cup Aims(curr)
  <1>1. cs[1] \in Passing \/ \E k \in 1 .. 1 : cs[k] \in Aims(curr)
    <2>1. Len(cs) \in Nat \ {0} BY LenProperties, EmptySeq DEF BInv
    <2>2. 1 \in 1 .. Len(cs) BY <2>1
    <2>. QED BY <2>2 DEF Aimed
  <1>2. Head(cs) = cs[1] BY HeadTailProperties DEF BInv
  <1>. QED BY <1>1, <1>2

(* So are those where dec may be.                                          *)
LEMMA HotHead ==
  Hot => Head(cs) \in {"Skip", "Script", "Block", "Dec", "Stm", "Exprstm", "Suffixed",
                       "Primary"}
  BY DEF Hot

(* A step of any other goal.                                               *)
LEMMA DullStep ==
  ASSUME CInv, cs # <<>>, BInv', NEW rest, NEW take \in BOOLEAN, NEW wrong,
         Steps(rest, take, wrong), take => curr # ";", Head(cs) \notin Marked
  PROVE  CInv'
  <1>1. ~Hot BY HotHead DEF Marked, Calm, Passing, AllAims, Aims
  <1>2. ~(OddToken /\ Aimed(cs))
    <2>1. OddToken => Aims(curr) \subseteq AllAims
      BY DEF OddToken, Odd, AllAims, Aims
    <2>. QED BY <2>1, AimedHead DEF Marked, CInv
  <1>3. CASE take
    <2>1. Steps(rest, TRUE, wrong) /\ curr # ";" BY <1>3
    <2>. QED BY <2>1, <1>1, TakeKeeps
  <1>4. CASE ~take
    <2>1. Steps(rest, FALSE, wrong) /\ Head(cs) \notin Calm BY <1>4 DEF Marked
    <2>. QED BY <2>1, <1>1, <1>2, GoKeeps
  <1>. QED BY <1>3, <1>4

(* The goals behind which, and in whose place, anything may be called.     *)
LEMMA FreeGoals ==
  /\ Free \subseteq Words /\ Bound \subseteq Words /\ Marks \subseteq Words
  /\ \A g \in Goals : g \in Bound \/ g \in Marks \/ g \in Free
  /\ Brackets \subseteq Free
  /\ \A g \in {":", ".", "=", "fn", "id", "in"} : g \in Free
  <1>1. Free \subseteq Words BY DEF Free
  <1>2. Bound \subseteq Words BY ZenonT(60) DEF Bound, Words, Goals
  <1>3. Marks \subseteq Words BY ZenonT(60) DEF Marks, Words, Goals
  <1>4. \A g \in Goals : g \in Bound \/ g \in Marks \/ g \in Free BY DEF Free, Words
  <1>5. Brackets \subseteq Free BY DEF Free, Words, Brackets, Openers, Bound, Marks
  <1>6. \A g \in {":", ".", "=", "fn", "id", "in"} : g \in Free
    BY DEF Free, Words, Bound, Marks
  <1>. QED BY <1>1, <1>2, <1>3, <1>4, <1>5, <1>6

(* Whatever may be behind a goal is a word, and behind a free one any is.  *)
LEMMA BehindWords ==
  /\ \A g : Behind(g) \subseteq Words
  /\ \A g \in Free : Behind(g) = Words
  <1>1. {"Sync", "Else", "Cases", "MoreCases"} \subseteq Words
    BY ZenonT(60) DEF Words, Goals
  <1>2. {"Leave", "ForCond", "ForLast", "Script", "Block"} \subseteq Words
    BY ZenonT(60) DEF Words, Goals
  <1>3. \A g : Behind(g) \subseteq Words BY <1>1, <1>2 DEF Behind
  <1>4. \A g \in Free : Behind(g) = Words BY DEF Behind, Free, Bound
  <1>. QED BY <1>3, <1>4

(* A literal sequence of goals: when it may be in the place of one, and    *)
(* what it is without.  One goal,                                          *)
LEMMA Row1 ==
  ASSUME NEW a \in Words
  PROVE  /\ \A g : Behind(g) \subseteq Behind(a)
                  => Fits(g, <<a>>)
         /\ \A S : a \notin S => Without(<<a>>, S)
  <1>. DEFINE c == <<a>>
  <1>1. c \in Seq(Words) BY Tuple1, Zenon
  <1>2. Len(c) = 1 /\ c[1] = a OBVIOUS
  <1>. HIDE DEF c
  <1>0. Len(c) = 1 BY <1>2
  <1>4. \A i \in 1 .. Len(c) : i = 1 BY ONLY <1>0
  <1>5. Grammar(c) BY <1>2 DEF Grammar
  <1>6. ASSUME NEW g, Behind(g) \subseteq Behind(a)
        PROVE  Fits(g, c)
    BY <1>1, <1>2, <1>5, <1>6 DEF Fits
  <1>7. ASSUME NEW S, a \notin S PROVE Without(c, S)
    BY <1>1, <1>2, <1>4, <1>7 DEF Without
  <1>. QED BY <1>6, <1>7 DEF c

(* two,                                                                    *)
LEMMA Row2 ==
  ASSUME NEW a \in Words, NEW b \in Words
  PROVE  /\ \A g : b \in Behind(a) /\ Behind(g) \subseteq Behind(b)
                  => Fits(g, <<a, b>>)
         /\ \A S : a \notin S /\ b \notin S => Without(<<a, b>>, S)
  <1>. DEFINE c == <<a, b>>
  <1>1. c \in Seq(Words) BY Tuple2, Zenon
  <1>2. Len(c) = 2 /\ c[1] = a /\ c[2] = b OBVIOUS
  <1>. HIDE DEF c
  <1>0. Len(c) = 2 BY <1>2
  <1>3. \A i \in 1 .. Len(c) - 1 : i = 1 BY ONLY <1>0
  <1>4. \A i \in 1 .. Len(c) : i = 1 \/ i = 2 BY ONLY <1>0
  <1>5. b \in Behind(a) => Grammar(c)
    BY <1>2, <1>3 DEF Grammar
  <1>6. ASSUME NEW g, b \in Behind(a), Behind(g) \subseteq Behind(b)
        PROVE  Fits(g, c)
    BY <1>1, <1>2, <1>5, <1>6 DEF Fits
  <1>7. ASSUME NEW S, a \notin S, b \notin S PROVE Without(c, S)
    BY <1>1, <1>2, <1>4, <1>7 DEF Without
  <1>. QED BY <1>6, <1>7 DEF c

(* three,                                                                  *)
LEMMA Row3 ==
  ASSUME NEW a \in Words, NEW b \in Words, NEW d \in Words
  PROVE  /\ \A g : b \in Behind(a) /\ d \in Behind(b) /\ Behind(g) \subseteq Behind(d)
                  => Fits(g, <<a, b, d>>)
         /\ \A S : a \notin S /\ b \notin S /\ d \notin S => Without(<<a, b, d>>, S)
  <1>. DEFINE c == <<a, b, d>>
  <1>1. c \in Seq(Words) BY Tuple3, Zenon
  <1>2. Len(c) = 3 /\ c[1] = a /\ c[2] = b /\ c[3] = d OBVIOUS
  <1>. HIDE DEF c
  <1>0. Len(c) = 3 BY <1>2
  <1>3. \A i \in 1 .. Len(c) - 1 : i = 1 \/ i = 2 BY ONLY <1>0
  <1>4. \A i \in 1 .. Len(c) : i = 1 \/ i = 2 \/ i = 3 BY ONLY <1>0
  <1>5. b \in Behind(a) /\ d \in Behind(b) => Grammar(c)
    BY <1>2, <1>3 DEF Grammar
  <1>6. ASSUME NEW g, b \in Behind(a), d \in Behind(b), Behind(g) \subseteq Behind(d)
        PROVE  Fits(g, c)
    BY <1>1, <1>2, <1>5, <1>6 DEF Fits
  <1>7. ASSUME NEW S, a \notin S, b \notin S, d \notin S PROVE Without(c, S)
    BY <1>1, <1>2, <1>4, <1>7 DEF Without
  <1>. QED BY <1>6, <1>7 DEF c

(* or four.                                                                *)
LEMMA Row4 ==
  ASSUME NEW a \in Words, NEW b \in Words, NEW d \in Words, NEW e \in Words
  PROVE  /\ \A g : b \in Behind(a) /\ d \in Behind(b) /\ e \in Behind(d)
                   /\ Behind(g) \subseteq Behind(e)
                  => Fits(g, <<a, b, d, e>>)
         /\ \A S : a \notin S /\ b \notin S /\ d \notin S /\ e \notin S
                  => Without(<<a, b, d, e>>, S)
  <1>. DEFINE c == <<a, b, d, e>>
  <1>1. c \in Seq(Words) BY Tuple4, Zenon
  <1>2. Len(c) = 4 /\ c[1] = a /\ c[2] = b /\ c[3] = d /\ c[4] = e OBVIOUS
  <1>. HIDE DEF c
  <1>0. Len(c) = 4 BY <1>2
  <1>3. \A i \in 1 .. Len(c) - 1 : i = 1 \/ i = 2 \/ i = 3 BY ONLY <1>0
  <1>4. \A i \in 1 .. Len(c) : i = 1 \/ i = 2 \/ i = 3 \/ i = 4 BY ONLY <1>0
  <1>5. b \in Behind(a) /\ d \in Behind(b) /\ e \in Behind(d) => Grammar(c)
    BY <1>2, <1>3 DEF Grammar
  <1>6. ASSUME NEW g, b \in Behind(a), d \in Behind(b), e \in Behind(d),
               Behind(g) \subseteq Behind(e)
        PROVE  Fits(g, c)
    BY <1>1, <1>2, <1>5, <1>6 DEF Fits
  <1>7. ASSUME NEW S, a \notin S, b \notin S, d \notin S, e \notin S PROVE Without(c, S)
    BY <1>1, <1>2, <1>4, <1>7 DEF Without
  <1>. QED BY <1>6, <1>7 DEF c

(* Goals one of which may be behind the other, and the last where the goal *)
(* was that they replace: one,                                             *)
LEMMA Calls1 ==
  ASSUME NEW g, NEW a \in Words,
         a \notin Marks,
         Behind(g) \subseteq Behind(a)
  PROVE  Calls(g, <<a>>)
  <1>1. Fits(g, <<a>>) BY Row1
  <1>2. Without(<<a>>, Marks) BY Row1
  <1>. QED BY <1>1, <1>2 DEF Calls, Quiet

(* two,                                                                    *)
LEMMA Calls2 ==
  ASSUME NEW g, NEW a \in Words, NEW b \in Words,
         a \notin Marks, b \notin Marks,
         b \in Behind(a), Behind(g) \subseteq Behind(b)
  PROVE  Calls(g, <<a, b>>)
  <1>1. Fits(g, <<a, b>>) BY Row2
  <1>2. Without(<<a, b>>, Marks) BY Row2
  <1>. QED BY <1>1, <1>2 DEF Calls, Quiet

(* three,                                                                  *)
LEMMA Calls3 ==
  ASSUME NEW g, NEW a \in Words, NEW b \in Words, NEW d \in Words,
         a \notin Marks, b \notin Marks, d \notin Marks,
         b \in Behind(a), d \in Behind(b), Behind(g) \subseteq Behind(d)
  PROVE  Calls(g, <<a, b, d>>)
  <1>1. Fits(g, <<a, b, d>>) BY Row3
  <1>2. Without(<<a, b, d>>, Marks) BY Row3
  <1>. QED BY <1>1, <1>2 DEF Calls, Quiet

(* four,                                                                   *)
LEMMA Calls4 ==
  ASSUME NEW g, NEW a \in Words, NEW b \in Words, NEW d \in Words, NEW e \in Words,
         a \notin Marks, b \notin Marks, d \notin Marks, e \notin Marks,
         b \in Behind(a), d \in Behind(b), e \in Behind(d), Behind(g) \subseteq Behind(e)
  PROVE  Calls(g, <<a, b, d, e>>)
  <1>1. Fits(g, <<a, b, d, e>>) BY Row4
  <1>2. Without(<<a, b, d, e>>, Marks) BY Row4
  <1>. QED BY <1>1, <1>2 DEF Calls, Quiet

(* five,                                                                   *)
LEMMA Calls5 ==
  ASSUME NEW g, NEW a \in Words, NEW b \in Words, NEW d \in Words, NEW e \in Words,
         NEW f \in Words, a \notin Marks, b \notin Marks, d \notin Marks, e \notin Marks,
         f \notin Marks, b \in Behind(a), d \in Behind(b), e \in Behind(d),
         f \in Behind(e), Behind(g) \subseteq Behind(f)
  PROVE  Calls(g, <<a, b, d, e, f>>)
  <1>. DEFINE c == <<a, b, d, e, f>>
  <1>1. c \in Seq(Words) BY Tuple5, Zenon
  <1>2. Len(c) = 5 /\ c[1] = a /\ c[2] = b /\ c[3] = d /\ c[4] = e /\ c[5] = f OBVIOUS
  <1>. HIDE DEF c
  <1>0. Len(c) = 5 BY <1>2
  <1>3. \A i \in 1 .. Len(c) - 1 : i = 1 \/ i = 2 \/ i = 3 \/ i = 4 BY ONLY <1>0
  <1>4. \A i \in 1 .. Len(c) : i = 1 \/ i = 2 \/ i = 3 \/ i = 4 \/ i = 5 BY ONLY <1>0
  <1>5. Grammar(c) BY <1>2, <1>3 DEF Grammar
  <1>6. Fits(g, c) BY <1>1, <1>2, <1>5 DEF Fits
  <1>7. Quiet(c) BY <1>1, <1>2, <1>4 DEF Quiet, Without
  <1>. QED BY <1>6, <1>7 DEF Calls, c

(* or any number of free ones,                                             *)
LEMMA FreeCalls ==
  ASSUME NEW g, NEW c \in Seq(Free)
  PROVE  Calls(g, c)
  <1>1. c \in Seq(Words) BY FreeGoals, SeqMonotonic
  <1>2. Len(c) \in Nat /\ \A i \in 1 .. Len(c) : c[i] \in Free
    BY LenProperties, ElementOfSeq
  <1>3. Grammar(c)
    <2>. SUFFICES ASSUME NEW i \in 1 .. Len(c) - 1 PROVE c[i + 1] \in Behind(c[i])
      BY DEF Grammar
    <2>1. i \in 1 .. Len(c) /\ i + 1 \in 1 .. Len(c) BY <1>2
    <2>. QED BY <2>1, <1>2, BehindWords, FreeGoals
  <1>4. c # <<>> => Len(c) \in 1 .. Len(c) BY <1>1, <1>2, EmptySeq
  <1>5. Fits(g, c) BY <1>1, <1>2, <1>3, <1>4, BehindWords DEF Fits
  <1>6. Quiet(c) BY <1>1, <1>2 DEF Quiet, Without, Free
  <1>. QED BY <1>5, <1>6 DEF Calls

(* and free ones in front of goals that may be there.                      *)
LEMMA FreeJoin ==
  ASSUME NEW g, NEW c \in Seq(Free), NEW d, d # <<>>, Calls(g, d)
  PROVE  Calls(g, c \o d)
  <1>1. c \in Seq(Words) /\ d \in Seq(Words) /\ Grammar(c) /\ Grammar(d)
        /\ Quiet(c) /\ Quiet(d)
    BY FreeCalls DEF Calls, Fits
  <1>2. /\ c \o d \in Seq(Words) /\ Len(c \o d) = Len(c) + Len(d)
        /\ \A i \in 1 .. Len(c) + Len(d) :
             (c \o d)[i] = IF i <= Len(c) THEN c[i] ELSE d[i - Len(c)]
        /\ Len(c) \in Nat /\ Len(d) \in Nat \ {0}
    BY <1>1, ConcatProperties, LenProperties, EmptySeq
  <1>3. \A i \in 1 .. Len(c) : (c \o d)[i] = c[i] BY <1>2
  <1>4. \A i \in 1 .. Len(d) : (c \o d)[Len(c) + i] = d[i] BY <1>2
  <1>5. Grammar(c \o d)
    <2>. SUFFICES ASSUME NEW i \in 1 .. Len(c) + Len(d) - 1
                  PROVE  (c \o d)[i + 1] \in Behind((c \o d)[i])
      BY <1>2 DEF Grammar
    <2>1. CASE i <= Len(c)
      <3>1. i \in 1 .. Len(c) /\ i + 1 \in 1 .. Len(c) + Len(d) BY <2>1, <1>2
      <3>2. (c \o d)[i] \in Free BY <3>1, <1>3, ElementOfSeq
      <3>3. (c \o d)[i + 1] \in Words BY <3>1, <1>2, ElementOfSeq
      <3>. QED BY <3>2, <3>3, BehindWords
    <2>2. CASE i > Len(c)
      <3>. DEFINE j == i - Len(c)
      <3>1. j \in 1 .. Len(d) - 1 /\ j \in 1 .. Len(d) /\ j + 1 \in 1 .. Len(d)
            /\ i = Len(c) + j /\ i + 1 = Len(c) + (j + 1)
        BY <2>2, <1>2
      <3>2. (c \o d)[i] = d[j] BY <3>1, <1>4
      <3>3. (c \o d)[i + 1] = d[j + 1] BY <3>1, <1>4
      <3>4. d[j + 1] \in Behind(d[j]) BY <3>1, <1>1 DEF Grammar
      <3>. QED BY <3>2, <3>3, <3>4
    <2>. QED BY <2>1, <2>2, <1>2
  <1>6. (c \o d)[Len(c \o d)] = d[Len(d)] BY <1>2, <1>4
  <1>7. Fits(g, c \o d) BY <1>2, <1>5, <1>6 DEF Calls, Fits
  <1>8. Quiet(c \o d)
    <2>. SUFFICES ASSUME NEW i \in 1 .. Len(c) + Len(d) PROVE (c \o d)[i] \notin Marks
      BY <1>2 DEF Quiet, Without
    <2>1. CASE i \in 1 .. Len(c) BY <2>1, <1>1, <1>3 DEF Quiet, Without
    <2>2. CASE i \notin 1 .. Len(c)
      <3>1. i - Len(c) \in 1 .. Len(d) /\ i = Len(c) + (i - Len(c)) BY <2>2, <1>2
      <3>2. (c \o d)[i] = d[i - Len(c)] BY <3>1, <1>4
      <3>. QED BY <3>1, <3>2, <1>1 DEF Quiet, Without
    <2>. QED BY <2>1, <2>2
  <1>. QED BY <1>7, <1>8 DEF Calls

(* What is called when a goal has returned.                                *)
LEMMA Returned ==
  ASSUME CInv, cs # <<>>, cs' = Tail(cs), cs' # <<>>
  PROVE  Head(cs') \in Behind(Head(cs))
  <1>1. /\ cs \in Seq(Words) /\ Len(cs) \in Nat \ {0} /\ Head(cs) = cs[1]
        /\ Tail(cs) \in Seq(Words) /\ Len(Tail(cs)) = Len(cs) - 1
        /\ \A i \in 1 .. Len(Tail(cs)) : Tail(cs)[i] = cs[i + 1]
    BY HeadTailProperties, LenProperties, EmptySeq DEF CInv, BInv
  <1>2. Len(cs') \in Nat \ {0} /\ Head(cs') = cs'[1]
    BY <1>1, HeadTailProperties, LenProperties, EmptySeq
  <1>3. Head(cs') = cs[2] /\ 1 \in 1 .. Len(cs) - 1
    <2>1. 1 \in 1 .. Len(Tail(cs)) BY <1>1, <1>2
    <2>2. Tail(cs)[1] = cs[1 + 1] BY <2>1, <1>1
    <2>. QED BY <2>1, <2>2, <1>1, <1>2
  <1>4. cs[1 + 1] \in Behind(cs[1]) BY <1>3 DEF CInv, Grammar
  <1>. QED BY <1>1, <1>3, <1>4

(* Behind the first semicolon of a for, its other parts take the token.    *)
LEMMA AimedFor ==
  ASSUME CInv, BInv', cs # <<>>, NEW rest, Fits(Head(cs), rest), cs' = rest \o Tail(cs),
         cs' # <<>>, Head(cs') \in {"ForCond", "ForLast"}
  PROVE  Aimed(cs)'
  <1>1. cs' \in Seq(Words) /\ Len(cs') \in Nat \ {0} /\ Head(cs') = cs'[1]
    BY HeadTailProperties, LenProperties, EmptySeq DEF BInv
  <1>2. Grammar(cs)' BY GrammarStep DEF CInv
  <1>3. "ForLast" \in Aims(curr') BY DEF Aims
  <1>4. "ForCond" \in Passing BY DEF Passing
  <1>. SUFFICES ASSUME NEW i \in 1 .. Len(cs')
                PROVE  cs'[i] \in Passing \/ \E k \in 1 .. i : cs'[k] \in Aims(curr')
    BY DEF Aimed, Aims
  <1>5. CASE cs'[1] = "ForLast"
    <2>1. 1 \in 1 .. i OBVIOUS
    <2>. QED BY <2>1, <1>3, <1>5
  <1>6. CASE cs'[1] = "ForCond" /\ i = 1 BY <1>4, <1>6
  <1>7. CASE cs'[1] = "ForCond" /\ i # 1
    <2>1. 1 \in 1 .. Len(cs') - 1 /\ 2 \in 1 .. i BY <1>1, <1>7
    <2>2. cs'[1 + 1] \in Behind(cs'[1]) BY <2>1, <1>2 DEF Grammar
    <2>3. cs'[2] = "ForLast" BY <2>2, <1>7 DEF Behind
    <2>. QED BY <2>1, <2>3, <1>3
  <1>. QED BY <1>1, <1>5, <1>6, <1>7

(* The first goal is the first of those just put there.                    *)
LEMMA NewHead ==
  ASSUME BInv, cs # <<>>, NEW rest \in Seq(Words), rest # <<>>, cs' = rest \o Tail(cs)
  PROVE  Head(cs') = rest[1] /\ cs' # <<>>
  <1>1. /\ cs' \in Seq(Words) /\ Len(rest) \in Nat /\ Len(cs) \in Nat \ {0}
        /\ Len(cs') = Len(rest) + Len(cs) - 1
    BY Rear
  <1>2. \A i \in 1 .. Len(rest) : cs'[i] = rest[i] BY Rear
  <1>3. Len(rest) # 0 BY EmptySeq
  <1>4. cs' # <<>> /\ cs'[1] = rest[1] BY <1>1, <1>2, <1>3, EmptySeq
  <1>5. Head(cs') = cs'[1] BY <1>1, <1>4, HeadTailProperties
  <1>. QED BY <1>4, <1>5

(* Goals that have nothing to do with classes leave what dec goes forward  *)
(* on as it is.                                                            *)
LEMMA QuietStart ==
  ASSUME BInv, cs # <<>>, NEW rest, Quiet(rest), cs' = rest \o Tail(cs),
         Head(cs) \notin {"Methods", "SubMethods"}
  PROVE  DecStart' = DecStart /\ StmStart' = StmStart
  <1>1. Without(rest, {"Methods", "SubMethods"}) BY DEF Quiet, Without, Marks
  <1>. QED BY <1>1, SameClass

(* The goals that no part of CInv but the order of calls is about.         *)
Dull == Goals \ (Marked \cup {"Methods", "SubMethods", "Named"})

(* Steps of those that go on with free goals: they take a token that is no *)
(* semicolon or none at all,                                               *)
LEMMA DullFree ==
  ASSUME CInv, cs # <<>>, BInv', Head(cs) \in Dull, NEW rest \in Seq(Free),
         NEW take \in BOOLEAN, NEW wrong, Acts(rest, take, wrong), take => curr # ";"
  PROVE  CInv'
  <1>1. Calls(Head(cs), rest) BY FreeCalls
  <1>2. Head(cs) \notin {"id", "Named", "Methods", "SubMethods"} BY DEF Dull, Goals
  <1>3. Steps(rest, take, wrong) BY <1>1, <1>2 DEF Steps
  <1>4. Head(cs) \notin Marked BY DEF Dull
  <1>. QED BY <1>3, <1>4, DullStep

(* by Match,                                                               *)
LEMMA DullMatch ==
  ASSUME CInv, cs # <<>>, BInv', Head(cs) \in Dull, NEW yes \in Seq(Free),
         NEW no \in Seq(Free), NEW t, t # ";", Match(t, yes, no)
  PROVE  CInv'
  <1>1. CASE curr = t
    <2>1. Acts(yes, TRUE, FALSE) BY <1>1 DEF Match, Take, Acts
    <2>. QED BY <1>1, <2>1, DullFree
  <1>2. CASE curr # t
    <2>1. Acts(no, FALSE, FALSE) BY <1>2 DEF Match, Go, Acts
    <2>. QED BY <1>2, <2>1, DullFree
  <1>. QED BY <1>1, <1>2

(* by Go,                                                                  *)
LEMMA DullGo ==
  ASSUME CInv, cs # <<>>, BInv', Head(cs) \in Dull, NEW rest \in Seq(Free), Go(rest)
  PROVE  CInv'
  <1>1. Acts(rest, FALSE, FALSE) BY DEF Go, Acts
  <1>. QED BY <1>1, DullFree

(* by Take                                                                 *)
LEMMA DullTake ==
  ASSUME CInv, cs # <<>>, BInv', Head(cs) \in Dull, NEW rest \in Seq(Free), Take(rest),
         curr # ";"
  PROVE  CInv'
  <1>1. Acts(rest, TRUE, FALSE) BY DEF Take, Acts
  <1>. QED BY <1>1, DullFree

(* or by Complain.                                                         *)
LEMMA DullComplain ==
  ASSUME CInv, cs # <<>>, BInv', Head(cs) \in Dull, NEW rest \in Seq(Free),
         NEW wrong \in BOOLEAN, Complain(rest, wrong)
  PROVE  CInv'
  <1>1. Acts(rest, FALSE, wrong) BY DEF Acts
  <1>. QED BY <1>1, DullFree

(* A goal that the odd token passes by or is taken by, but not at once.    *)
LEMMA PassGo ==
  ASSUME CInv, cs # <<>>, BInv', NEW rest, NEW wrong, Steps(rest, FALSE, wrong),
         Head(cs) \in Passing, rest \in Seq(Passing),
         OddToken /\ Head(cs) \in Aims(curr) => \E k \in 1 .. Len(rest) : rest[k] \in Aims(curr),
         Live /\ Hot => ~wrong /\ (cs' = <<>> \/ Hot')
  PROVE  CInv'
  <1>1. /\ cs' = rest \o Tail(cs) /\ rest \in Seq(Words) /\ BInv /\ Acts(rest, FALSE, wrong)
    BY ActsEffect DEF Steps, Calls, Fits, CInv
  <1>2. curr' = curr BY <1>1 DEF Acts, Do, Complain
  <1>0. Len(rest) \in Nat /\ \A i \in 1 .. Len(rest) : rest[i] \in Passing
    BY LenProperties, ElementOfSeq
  <1>3. Head(cs) \notin Calm BY DEF Passing, Calm
  <1>4. ASSUME OddToken, Aimed(cs) PROVE Aimed(cs)'
    <2>1. CASE Head(cs) \in Aims(curr)
      <3>1. PICK k \in 1 .. Len(rest) : rest[k] \in Aims(curr) BY <1>4, <2>1
      <3>2. \A i \in 1 .. k - 1 : rest[i] \in Passing BY <1>0
      <3>. QED BY <1>1, <1>2, <3>1, <3>2, AimNew
    <2>2. CASE Head(cs) \notin Aims(curr) BY <1>0, <1>1, <1>2, <1>4, <2>2, AimPass
    <2>. QED BY <2>1, <2>2
  <1>. QED BY <1>3, <1>4, GoKeeps

(* A goal that takes a token that is no semicolon.                         *)
LEMMA EasyTake ==
  ASSUME CInv, cs # <<>>, BInv', NEW rest, Calls(Head(cs), rest), Take(rest), curr # ";",
         Head(cs) \notin {"Methods", "SubMethods"},
         rest = <<>> \/ Head(cs) \notin {"id", "Named"}
  PROVE  CInv'
  <1>1. Acts(rest, TRUE, FALSE) BY DEF Take, Acts
  <1>2. Steps(rest, TRUE, FALSE) BY <1>1 DEF Steps
  <1>. QED BY <1>2, TakeKeeps

(* Every function that parses an expression keeps CInv.                    *)
LEMMA ExpressionsCInv ==
  ASSUME CInv, BInv', Expressions
  PROVE  CInv'
  <1>a. /\ "Operand" \in Free /\ "Operators" \in Free /\ "Simple" \in Free
        /\ "Operated" \in Free /\ "Suffixed" \in Free /\ "Primary" \in Free
        /\ "Suffix" \in Free
    BY ZenonT(60), FreeGoals DEF Goals, Bound, Marks
  <1>b. /\ "Expr" \in Free /\ "Super" \in Free /\ "Args" \in Free /\ "Called" \in Free
        /\ "Dot" \in Free /\ "Indexed" \in Free /\ "ConstCall" \in Free
        /\ "Explist" \in Free /\ "MoreExp" \in Free /\ "Limit" \in Free
    BY ZenonT(60), FreeGoals DEF Goals, Bound, Marks
  <1>c. /\ ")" \in Free /\ "]" \in Free /\ "." \in Free /\ "id" \in Free
    BY FreeGoals DEF Brackets, Openers
  <1>d. /\ "Operated" \in Dull /\ "Super" \in Dull /\ "Args" \in Dull /\ "Called" \in Dull
        /\ "Dot" \in Dull /\ "Indexed" \in Dull /\ "ConstCall" \in Dull
    BY ZenonT(60) DEF Dull, Goals, Marked, Calm, Passing, AllAims, Aims
  <1>e. /\ "Explist" \in Dull /\ "MoreExp" \in Dull /\ "Limit" \in Dull
    BY ZenonT(60) DEF Dull, Goals, Marked, Calm, Passing, AllAims, Aims
  <1>f. <<>> \in Seq(Free) /\ <<>> \in Seq(Passing) BY EmptySeq
  <1>p. /\ "Operand" \in Passing /\ "Operators" \in Passing /\ "Simple" \in Passing
        /\ "Suffixed" \in Passing /\ "Primary" \in Passing /\ "Suffix" \in Passing
    BY DEF Passing
  <1>. USE DEF Plain, At
  <1>1. ASSUME Expr PROVE CInv'
    <2>. DEFINE r == <<"Operand", "Operators">>
    <2>0. cs # <<>> /\ Head(cs) = "Expr" BY <1>1 DEF Expr
    <2>1. Calls(Head(cs), r) BY <1>a, Tuple2, FreeCalls
    <2>5. r \in Seq(Passing) BY <1>p, Tuple2
    <2>2. Acts(r, FALSE, FALSE) BY <1>1 DEF Expr, Go, Acts
    <2>3. Len(r) = 2 /\ r[1] = "Operand" /\ r[2] = "Operators" OBVIOUS
    <2>. HIDE DEF r
    <2>4. Steps(r, FALSE, FALSE) BY <2>0, <2>1, <2>2 DEF Steps
    <2>6. "Expr" \in Aims(curr) /\ OddToken => r[1] \in Aims(curr) /\ 1 \in 1 .. Len(r)
      BY <2>3 DEF Aims
    <2>7. "Expr" \in Passing /\ ~Hot BY <2>0, HotHead DEF Passing
    <2>. QED BY <2>0, <2>4, <2>5, <2>6, <2>7, PassGo
  <1>2. ASSUME Operand PROVE CInv'
    <2>0. cs # <<>> /\ Head(cs) = "Operand" BY <1>2 DEF Operand
    <2>1. CASE curr = "-"
      <3>1. Calls(Head(cs), <<"Operand">>) BY <1>a, Tuple1, FreeCalls
      <3>2. Take(<<"Operand">>) BY <1>2, <2>1 DEF Operand, Match
      <3>. QED BY <2>0, <2>1, <3>1, <3>2, EasyTake
    <2>2. CASE curr # "-"
      <3>. DEFINE r == <<"Simple">>
      <3>1. Calls(Head(cs), r) BY <1>a, Tuple1, FreeCalls
      <3>5. r \in Seq(Passing) BY <1>p, Tuple1
      <3>2. Acts(r, FALSE, FALSE) BY <1>2, <2>2 DEF Operand, Match, Go, Acts
      <3>3. Len(r) = 1 /\ r[1] = "Simple" OBVIOUS
      <3>. HIDE DEF r
      <3>4. Steps(r, FALSE, FALSE) BY <2>0, <3>1, <3>2 DEF Steps
      <3>6. "Operand" \in Aims(curr) /\ OddToken => r[1] \in Aims(curr) /\ 1 \in 1 .. Len(r)
        BY <3>3 DEF Aims
      <3>7. "Operand" \in Passing /\ ~Hot BY <2>0, HotHead DEF Passing
      <3>. QED BY <2>0, <3>4, <3>5, <3>6, <3>7, PassGo
    <2>. QED BY <2>1, <2>2
  <1>3. ASSUME Simple PROVE CInv'
    <2>0. cs # <<>> /\ Head(cs) = "Simple" BY <1>3 DEF Simple
    <2>1. CASE curr = "lit"
      <3>1. Calls(Head(cs), <<>>) BY <1>f, FreeCalls
      <3>2. Take(<<>>) BY <1>3, <2>1 DEF Simple, Match
      <3>. QED BY <2>0, <2>1, <3>1, <3>2, EasyTake
    <2>2. CASE curr # "lit"
      <3>. DEFINE r == <<"Suffixed">>
      <3>1. Calls(Head(cs), r) BY <1>a, Tuple1, FreeCalls
      <3>5. r \in Seq(Passing) BY <1>p, Tuple1
      <3>2. Acts(r, FALSE, FALSE) BY <1>3, <2>2 DEF Simple, Match, Go, Acts
      <3>3. Len(r) = 1 /\ r[1] = "Suffixed" OBVIOUS
      <3>. HIDE DEF r
      <3>4. Steps(r, FALSE, FALSE) BY <2>0, <3>1, <3>2 DEF Steps
      <3>6. "Simple" \in Aims(curr) /\ OddToken => r[1] \in Aims(curr) /\ 1 \in 1 .. Len(r)
        BY <3>3 DEF Aims
      <3>7. "Simple" \in Passing /\ ~Hot BY <2>0, HotHead DEF Passing
      <3>. QED BY <2>0, <3>4, <3>5, <3>6, <3>7, PassGo
    <2>. QED BY <2>1, <2>2
  <1>4. ASSUME Operators PROVE CInv'
    <2>0. cs # <<>> /\ Head(cs) = "Operators" BY <1>4 DEF Operators
    <2>1. CASE curr = "-"
      <3>1. Calls(Head(cs), <<"Operand", "Operated", "Operators">>)
        BY <1>a, Tuple3, FreeCalls
      <3>2. Take(<<"Operand", "Operated", "Operators">>)
        BY <1>4, <2>1 DEF Operators, Match
      <3>. QED BY <2>0, <2>1, <3>1, <3>2, EasyTake
    <2>2. CASE curr # "-"
      <3>1. Calls(Head(cs), <<>>) BY <1>f, FreeCalls
      <3>2. Acts(<<>>, FALSE, FALSE) BY <1>4, <2>2 DEF Operators, Match, Go, Acts
      <3>3. Steps(<<>>, FALSE, FALSE) BY <2>0, <3>1, <3>2 DEF Steps
      <3>4. ~("Operators" \in Aims(curr)) BY DEF Aims
      <3>5. "Operators" \in Passing /\ ~Hot BY <2>0, HotHead DEF Passing
      <3>. QED BY <2>0, <1>f, <3>3, <3>4, <3>5, PassGo
    <2>. QED BY <2>1, <2>2
  <1>5. Operated => CInv' BY <1>d, <1>f, DullGo DEF Operated
  <1>6. ASSUME Suffixed PROVE CInv'
    <2>. DEFINE r == <<"Primary", "Suffix">>
    <2>0. cs # <<>> /\ Head(cs) = "Suffixed" BY <1>6 DEF Suffixed
    <2>1. Calls(Head(cs), r) BY <1>a, Tuple2, FreeCalls
    <2>5. r \in Seq(Passing) BY <1>p, Tuple2
    <2>2. Acts(r, FALSE, FALSE) BY <1>6 DEF Suffixed, Go, Acts
    <2>3. Len(r) = 2 /\ r[1] = "Primary" /\ r[2] = "Suffix" /\ r # <<>> OBVIOUS
    <2>. HIDE DEF r
    <2>4. Steps(r, FALSE, FALSE) BY <2>0, <2>1, <2>2 DEF Steps
    <2>6. "Suffixed" \in Aims(curr) /\ OddToken => r[2] \in Aims(curr) /\ 2 \in 1 .. Len(r)
      BY <2>3 DEF Aims
    <2>7. "Suffixed" \in Passing BY DEF Passing
    <2>8. Live /\ Hot => Hot'
      <3>1. cs' = r \o Tail(cs) /\ curr' = curr BY <2>2 DEF Acts, Do, Complain
      <3>2. Head(cs') = "Primary" BY <2>1, <2>3, <3>1, <2>0, NewHead DEF CInv, Calls, Quiet, Without
      <3>3. DecStart' = DecStart BY <2>0, <2>1, <3>1, QuietStart DEF CInv, Calls
      <3>. QED BY <2>0, <3>1, <3>2, <3>3 DEF Hot, Firsts, Odd
    <2>. QED BY <2>0, <2>4, <2>5, <2>6, <2>7, <2>8, PassGo
  <1>7. ASSUME Primary PROVE CInv'
    <2>0. cs # <<>> /\ Head(cs) = "Primary" BY <1>7 DEF Primary
    <2>1. CASE curr = "("
      <3>1. Calls(Head(cs), <<"Expr", ")">>) BY <1>b, <1>c, Tuple2, FreeCalls
      <3>2. Take(<<"Expr", ")">>) BY <1>7, <2>1 DEF Primary
      <3>. QED BY <2>0, <2>1, <3>1, <3>2, EasyTake
    <2>2. CASE curr # ";" /\ Take(<<>>)
      <3>1. Calls(Head(cs), <<>>) BY <1>f, FreeCalls
      <3>. QED BY <2>0, <2>2, <3>1, EasyTake
    <2>3. CASE curr = "super" /\ Take(<<".", "id", "Super">>)
      <3>1. Calls(Head(cs), <<".", "id", "Super">>) BY <1>b, <1>c, Tuple3, FreeCalls
      <3>. QED BY <2>0, <2>3, <3>1, EasyTake
    <2>4. CASE /\ curr \notin {"(", "id"} /\ ~(curr = "self" /\ InClass)
               /\ ~(curr = "super" /\ InSubclass) /\ Do(<<>>, FALSE, TRUE)
      <3>1. Calls(Head(cs), <<>>) BY <1>f, FreeCalls
      <3>2. Acts(<<>>, FALSE, TRUE) BY <2>4 DEF Acts
      <3>3. Steps(<<>>, FALSE, TRUE) BY <2>0, <3>1, <3>2 DEF Steps
      <3>4. ~("Primary" \in Aims(curr)) BY DEF Aims
      <3>5. ~Hot BY <2>0, <2>4 DEF Hot, DecStart, StmStart, Firsts
      <3>. QED BY <2>0, <1>f, <1>p, <3>3, <3>4, <3>5, PassGo
    <2>. QED BY <1>7, <2>1, <2>2, <2>3, <2>4 DEF Primary
  <1>8. ASSUME Super PROVE CInv'
    <2>0. cs # <<>> /\ Head(cs) = "Super" BY <1>8 DEF Super
    <2>1. CASE curr = "("
      <3>1. <<"Args", "Called">> \in Seq(Free) BY <1>b, Tuple2
      <3>2. Take(<<"Args", "Called">>) BY <1>8, <2>1 DEF Super
      <3>. QED BY <2>0, <2>1, <1>d, <3>1, <3>2, DullTake
    <2>2. CASE MayReport(<<>>)
      BY <2>0, <2>2, <1>d, <1>f, DullComplain DEF MayReport
    <2>. QED BY <1>8, <2>1, <2>2 DEF Super
  <1>9. ASSUME Suffix PROVE CInv'
    <2>0. cs # <<>> /\ Head(cs) = "Suffix" BY <1>9 DEF Suffix
    <2>1. CASE curr = "."
      <3>1. Calls(Head(cs), <<"id", "Dot", "Suffix">>)
        BY <1>a, <1>b, <1>c, Tuple3, FreeCalls
      <3>2. Take(<<"id", "Dot", "Suffix">>) BY <1>9, <2>1 DEF Suffix
      <3>. QED BY <2>0, <2>1, <3>1, <3>2, EasyTake
    <2>2. CASE curr = "["
      <3>1. Calls(Head(cs), <<"Expr", "]", "Indexed", "Suffix">>)
        BY <1>a, <1>b, <1>c, Tuple4, FreeCalls
      <3>2. Take(<<"Expr", "]", "Indexed", "Suffix">>) BY <1>9, <2>2 DEF Suffix
      <3>. QED BY <2>0, <2>2, <3>1, <3>2, EasyTake
    <2>3. CASE curr = "("
      <3>1. Calls(Head(cs), <<"Args", "Called", "Suffix">>)
        BY <1>a, <1>b, Tuple3, FreeCalls
      <3>2. Acts(<<"Args", "Called", "Suffix">>, TRUE, et = "const")
        BY <1>9, <2>3 DEF Suffix, Acts
      <3>3. Steps(<<"Args", "Called", "Suffix">>, TRUE, et = "const")
        BY <2>0, <3>1, <3>2 DEF Steps
      <3>4. ~Hot BY <2>0, HotHead
      <3>. QED BY <2>0, <2>3, <3>3, <3>4, TakeKeeps
    <2>4. CASE curr \notin {".", "["} /\ Go(<<>>)
      <3>1. Calls(Head(cs), <<>>) BY <1>f, FreeCalls
      <3>2. Acts(<<>>, FALSE, FALSE) BY <2>4 DEF Acts, Go
      <3>3. Steps(<<>>, FALSE, FALSE) BY <2>0, <3>1, <3>2 DEF Steps
      <3>4. ~("Suffix" \in Aims(curr)) BY <2>4 DEF Aims
      <3>5. ~Hot BY <2>0, HotHead
      <3>. QED BY <2>0, <1>f, <1>p, <3>3, <3>4, <3>5, PassGo
    <2>. QED BY <1>9, <2>1, <2>2, <2>3, <2>4 DEF Suffix
  <1>10. ASSUME Dot PROVE CInv'
    <2>1. <<"Args", "Called">> \in Seq(Free) BY <1>b, Tuple2
    <2>. QED BY <1>10, <1>d, <1>f, <2>1, DullMatch DEF Dot
  <1>11. ASSUME Indexed PROVE CInv'
    <2>1. <<"ConstCall", "Args", "Called">> \in Seq(Free) BY <1>b, Tuple3
    <2>. QED BY <1>11, <1>d, <1>f, <2>1, DullMatch DEF Indexed
  <1>12. ConstCall => CInv' BY <1>d, <1>f, DullComplain DEF ConstCall
  <1>13. ASSUME Args PROVE CInv'
    <2>1. <<")">> \in Seq(Free) /\ <<"Explist", ")">> \in Seq(Free)
      BY <1>b, <1>c, Tuple1, Tuple2
    <2>2. Go(<<")">>) \/ Go(<<"Explist", ")">>) BY <1>13 DEF Args
    <2>. QED BY <1>13, <1>d, <2>1, <2>2, DullGo DEF Args
  <1>14. Called => CInv' BY <1>d, <1>f, DullGo DEF Called
  <1>15. ASSUME Explist PROVE CInv'
    <2>1. <<"Expr", "MoreExp">> \in Seq(Free) BY <1>b, Tuple2
    <2>. QED BY <1>15, <1>e, <2>1, DullGo DEF Explist
  <1>16. ASSUME MoreExp PROVE CInv'
    <2>1. <<"Limit", "Explist">> \in Seq(Free) BY <1>b, Tuple2
    <2>. QED BY <1>16, <1>e, <1>f, <2>1, DullMatch DEF MoreExp
  <1>17. Limit => CInv' BY <1>e, <1>f, DullComplain DEF Limit, MayReport
  <1>. QED
    BY <1>1, <1>2, <1>3, <1>4, <1>5, <1>6, <1>7, <1>8, <1>9, <1>10, <1>11, <1>12,
       <1>13, <1>14, <1>15, <1>16, <1>17 DEF Expressions

(* expect takes the token it was called for or reports that it is missing. *)
LEMMA ExpectCInv ==
  ASSUME CInv, BInv', Expect
  PROVE  CInv'
  <1>0. /\ cs # <<>> /\ Head(cs) \in Tokens /\ Head(cs) \in Words /\ BInv
        /\ Do(<<>>, curr = Head(cs), curr # Head(cs))
    BY HeadTailProperties DEF Expect, CInv, BInv
  <1>1. Head(cs) \notin Goals BY <1>0, RecoveryAssumption DEF RecoveryAssumption
  <1>2. <<>> \in Seq(Free) /\ <<>> \in Seq(Passing) /\ <<>> \in Seq(Words) BY EmptySeq
  <1>3. Calls(Head(cs), <<>>) BY <1>2, FreeCalls
  <1>4. Head(cs) \notin {"Methods", "SubMethods"} BY <1>1 DEF Goals
  <1>5. ~Hot BY <1>1, HotHead DEF Goals
  <1>6. CASE curr = Head(cs)
    <2>1. Acts(<<>>, TRUE, FALSE) BY <1>0, <1>6 DEF Acts
    <2>2. Steps(<<>>, TRUE, FALSE) BY <1>3, <1>4, <2>1 DEF Steps
    <2>3. cs' = Tail(cs) /\ cs' = <<>> \o Tail(cs)
      <3>1. cs' = <<>> \o Tail(cs) BY <2>1, ActsEffect
      <3>2. Tail(cs) \in Seq(Words) BY <1>0, HeadTailProperties DEF BInv
      <3>. QED BY <3>1, <3>2, ConcatEmptySeq
    <2>4. curr = ";" => cs' = <<>> \/ Head(cs') \in Calm \/ Aimed(cs)'
      <3>. SUFFICES ASSUME curr = ";", cs' # <<>> PROVE Head(cs') \in Calm \/ Aimed(cs)'
        OBVIOUS
      <3>1. Head(cs') \in Behind(";") BY <1>0, <1>6, <2>3, Returned
      <3>2. Head(cs') \in Calm \/ Head(cs') \in {"ForCond", "ForLast"}
        BY <3>1 DEF Behind, Calm
      <3>3. Fits(Head(cs), <<>>) BY <1>3 DEF Calls
      <3>. QED BY <1>0, <2>3, <3>2, <3>3, AimedFor
    <2>. QED BY <1>0, <1>5, <1>6, <2>2, <2>4, TakeKeeps
  <1>7. CASE curr # Head(cs)
    <2>1. Acts(<<>>, FALSE, TRUE) BY <1>0, <1>7 DEF Acts
    <2>2. Steps(<<>>, FALSE, TRUE) BY <1>3, <1>4, <2>1 DEF Steps
    <2>3. Head(cs) \notin Calm BY <1>1 DEF Calm, Goals
    <2>4. CASE Head(cs) = ";"
      <3>1. ~(";" \in Aims(curr)) /\ ";" \in Passing BY DEF Aims, Passing
      <3>. QED BY <1>0, <1>2, <1>5, <2>2, <2>4, <3>1, PassGo
    <2>5. CASE Head(cs) # ";"
      <3>1. ASSUME OddToken, Aimed(cs) PROVE FALSE
        <4>1. Head(cs) \in Passing \cup Aims(curr) BY <1>0, <3>1, AimedHead
        <4>2. Head(cs) \notin Passing BY <1>1, <2>5 DEF Passing, Goals
        <4>3. Head(cs) = "=" BY <1>1, <4>1, <4>2 DEF Aims, Goals
        <4>4. curr = "=" BY <3>1, <4>1, <4>2, <4>3 DEF Aims, OddToken, Odd
        <4>. QED BY <1>7, <4>3, <4>4
      <3>. QED BY <1>0, <1>5, <2>2, <2>3, <3>1, GoKeeps
    <2>. QED BY <2>4, <2>5
  <1>. QED BY <1>6, <1>7

(* A calm goal goes on calmly, or with a goal that takes the odd token.    *)
LEMMA CalmAimed ==
  ASSUME CInv, cs # <<>>, Head(cs) \in Calm
  PROVE  /\ ~(OddToken /\ Aimed(cs))
         /\ Head(cs) \notin {"Methods", "SubMethods", "id", "Named"}
  <1>1. Head(cs) \notin Passing \cup AllAims BY DEF Calm, Passing, AllAims, Aims
  <1>2. OddToken => Aims(curr) \subseteq AllAims BY DEF OddToken, Odd, AllAims, Aims
  <1>3. ~(OddToken /\ Aimed(cs)) BY <1>1, <1>2, AimedHead DEF CInv
  <1>4. Head(cs) \notin {"Methods", "SubMethods", "id", "Named"} BY DEF Calm
  <1>. QED BY <1>3, <1>4

(* A calm goal that takes no token and reports nothing.                    *)
LEMMA CalmGo ==
  ASSUME CInv, cs # <<>>, BInv', NEW rest, Calls(Head(cs), rest), Go(rest),
         Head(cs) \in Calm,
         Live /\ Hot => cs' = <<>> \/ Hot',
         OddToken /\ ~told => cs' = <<>> \/ Head(cs') \in Calm \/ Aimed(cs)'
  PROVE  CInv'
  <1>1. Acts(rest, FALSE, FALSE) BY DEF Go, Acts
  <1>2. told' = (told \/ Reports(FALSE)) BY DEF Go, Do
  <1>3. ~told => ~told' BY <1>2 DEF Reports
  <1>4. Steps(rest, FALSE, FALSE) BY <1>1, CalmAimed DEF Steps
  <1>. QED BY <1>3, <1>4, CalmAimed, GoKeeps

(* What a step that only replaces a goal leaves, seen from the front.      *)
LEMMA GoHead ==
  ASSUME CInv, cs # <<>>, NEW rest, Calls(Head(cs), rest), Go(rest)
  PROVE  /\ curr' = curr /\ rest \in Seq(Words) /\ cs' = rest \o Tail(cs)
         /\ rest # <<>> => Head(cs') = rest[1] /\ cs' # <<>>
         /\ rest = <<>> => cs' = Tail(cs)
         /\ Head(cs) \notin {"Methods", "SubMethods"} =>
              DecStart' = DecStart /\ StmStart' = StmStart
  <1>1. BInv /\ rest \in Seq(Words) /\ Quiet(rest) BY DEF CInv, Calls, Fits
  <1>2. cs' = rest \o Tail(cs) /\ curr' = curr BY DEF Go, Do
  <1>3. Tail(cs) \in Seq(Words) BY <1>1, HeadTailProperties DEF BInv
  <1>. QED BY <1>1, <1>2, <1>3, NewHead, QuietStart, ConcatEmptySeq

(* A calm goal that goes on with another.                                  *)
LEMMA CalmCalls ==
  ASSUME CInv, cs # <<>>, BInv', NEW rest, Calls(Head(cs), rest), Go(rest), rest # <<>>,
         Head(cs) \in Calm, rest[1] \in Calm,
         Live /\ Hot => Hot'
  PROVE  CInv'
  <1>1. Head(cs') \in Calm BY GoHead
  <1>. QED BY <1>1, CalmGo

(* The chains of calls that a declaration's function begins with.          *)
LEMMA DeclarationsCalls ==
  /\ \A g \in {"Vardec", "ForVardec", "FixedVardec"} :
       /\ Calls(g, VarRest) /\ Calls(g, <<"Named">> \o VarRest)
       /\ Calls(g, <<"Twice">> \o VarRest)
  /\ Calls("FixedDec", <<"FixedVardec">>)
  /\ Calls("Dec", <<"Vardec", "Sync">>) /\ Calls("Dec", <<"Stm", "Sync">>)
  /\ Calls("Dec", <<"id", "Named", "Function", "Sync">>)
  /\ Calls("Script", <<"Dec", "Script">>) /\ Calls("Block", <<"Dec", "Block">>)
  /\ Calls("Skip", <<"Skip">>)
  <1>1. /\ "Names" \in Free /\ "Init" \in Free /\ "Named" \in Free /\ "Twice" \in Free
        /\ "Function" \in Free /\ "Script" \in Free /\ "Block" \in Free /\ "id" \in Free
    BY ZenonT(60), FreeGoals DEF Goals, Bound, Marks
  <1>2. /\ ";" \in Words /\ "FixedVardec" \in Words /\ "Vardec" \in Words
        /\ "Sync" \in Words /\ "Stm" \in Words /\ "Dec" \in Words /\ "Skip" \in Words
    BY FreeGoals DEF Bound
  <1>3. /\ ";" \notin Marks /\ "FixedVardec" \notin Marks /\ "Vardec" \notin Marks
        /\ "Sync" \notin Marks /\ "Stm" \notin Marks /\ "Dec" \notin Marks
        /\ "Skip" \notin Marks
    BY DEF Marks
  <1>4. \A f \in Free : f \in Words /\ f \notin Marks /\ Behind(f) = Words
    BY BehindWords DEF Free
  <1>5. \A g : Behind(g) \subseteq Words BY BehindWords
  <1>6. ASSUME NEW g \in {"Vardec", "ForVardec", "FixedVardec"}
        PROVE  /\ Calls(g, VarRest) /\ Calls(g, <<"Named">> \o VarRest)
               /\ Calls(g, <<"Twice">> \o VarRest)
    <2>1. Behind(g) \subseteq Behind(";") BY DEF Behind
    <2>2. Calls(g, VarRest) BY <1>1, <1>2, <1>3, <1>4, <2>1, Calls3 DEF VarRest
    <2>3. VarRest # <<>> BY DEF VarRest
    <2>4. <<"Named">> \in Seq(Free) /\ <<"Twice">> \in Seq(Free) BY <1>1, Tuple1
    <2>. QED BY <2>2, <2>3, <2>4, FreeJoin
  <1>7. Calls("FixedDec", <<"FixedVardec">>)
    <2>1. Behind("FixedDec") \subseteq Behind("FixedVardec") BY DEF Behind
    <2>. QED BY <1>2, <1>3, <2>1, Calls1
  <1>8. /\ Calls("Dec", <<"Vardec", "Sync">>) /\ Calls("Dec", <<"Stm", "Sync">>)
        /\ Calls("Dec", <<"id", "Named", "Function", "Sync">>)
    <2>1. /\ Behind("Dec") \subseteq Behind("Sync")
          /\ "Sync" \in Behind("Vardec") /\ "Sync" \in Behind("Stm")
      BY DEF Behind
    <2>. QED BY <1>1, <1>2, <1>3, <1>4, <2>1, Calls2, Calls4
  <1>9. Calls("Script", <<"Dec", "Script">>) /\ Calls("Block", <<"Dec", "Block">>)
    <2>1. "Script" \in Behind("Dec") /\ "Block" \in Behind("Dec") BY DEF Behind
    <2>. QED BY <1>1, <1>2, <1>3, <1>4, <1>5, <2>1, Calls2
  <1>10. Calls("Skip", <<"Skip">>) BY <1>2, <1>3, Calls1
  <1>. QED BY <1>6, <1>7, <1>8, <1>9, <1>10

(* fixed is followed by var or the end, where it is followed by anything.  *)
LEMMA TakeFixed ==
  ASSUME CInv, cs # <<>>, BInv', "fixed_any" \in Avoid, curr = "fixed",
         NEW rest \in Seq(Words), rest = <<"FixedDec">> \/ rest = <<"FixedDec", "Sync">>,
         Take(rest), Behind(Head(cs)) \subseteq Behind(rest[Len(rest)]),
         Head(cs) \notin {"id", "Named"}
  PROVE  CInv'
  <1>1. Acts(rest, TRUE, FALSE) BY DEF Take, Acts
  <1>2. curr' \in {"var", Eof} /\ cs' = rest \o Tail(cs)
    BY <1>1 DEF Acts, Do, Advance, Following, Text
  <1>3. BInv /\ cs' \in Seq(Words) BY DEF CInv, BInv
  <1>4. \A i \in 1 .. Len(rest) : rest[i] = "FixedDec" => i = 1
    <2>1. CASE rest = <<"FixedDec">> BY <2>1
    <2>2. CASE rest = <<"FixedDec", "Sync">>
      <3>1. Len(rest) = 2 /\ rest[2] = "Sync" BY <2>2
      <3>2. \A i \in 1 .. 2 : i = 1 \/ i = 2 OBVIOUS
      <3>. QED BY <3>1, <3>2
    <2>. QED BY <2>1, <2>2
  <1>5. FixedVar'
    <2>1. \A i \in DOMAIN cs' : cs'[i] = "FixedDec" => i \in 1 .. Len(rest)
                                                         /\ rest[i] = "FixedDec"
      BY <1>2, <1>3, OneFixed
    <2>. QED BY <1>2, <1>3, <1>4, <2>1, LenProperties DEF FixedVar
  <1>6. Grammar(rest)
    <2>1. CASE rest = <<"FixedDec">> BY <2>1 DEF Grammar
    <2>2. CASE rest = <<"FixedDec", "Sync">>
      <3>1. Len(rest) = 2 /\ rest[1] = "FixedDec" /\ rest[1 + 1] = "Sync" BY <2>2
      <3>2. \A i \in 1 .. Len(rest) - 1 : i = 1 BY <3>1
      <3>. QED BY <3>1, <3>2 DEF Grammar, Behind
    <2>. QED BY <2>1, <2>2
  <1>7. Fits(Head(cs), rest) BY <1>6 DEF Fits
  <1>8. \A i \in 1 .. Len(rest) : rest[i] # "Classdec"
    <2>1. CASE rest = <<"FixedDec">> BY <2>1
    <2>2. CASE rest = <<"FixedDec", "Sync">>
      <3>1. Len(rest) = 2 /\ rest[1] = "FixedDec" /\ rest[2] = "Sync" BY <2>2
      <3>2. \A i \in 1 .. 2 : i = 1 \/ i = 2 OBVIOUS
      <3>. QED BY <3>1, <3>2
    <2>. QED BY <2>1, <2>2
  <1>9. ClassTop'
    <2>1. Without(rest, NewClass) BY <1>8 DEF Without, NewClass
    <2>. QED BY <1>1, <1>3, <2>1, ClassStep DEF CInv
  <1>. QED BY <1>1, <1>5, <1>7, <1>9, TakeCore

(* A class's name is read right before what follows it.                    *)
LEMMA TakeClass ==
  ASSUME CInv, cs # <<>>, BInv', Head(cs) = "Dec", curr = "class",
         Take(<<"id", "Named", "Classdec", "Sync">>)
  PROVE  CInv'
  <1>. DEFINE r == <<"id", "Named", "Classdec", "Sync">>
  <1>1. Acts(r, TRUE, FALSE) BY DEF Take, Acts
  <1>2. Len(r) = 4 /\ r[1] = "id" /\ r[2] = "Named" /\ r[3] = "Classdec" /\ r[4] = "Sync"
    OBVIOUS
  <1>3. "id" \in Words /\ "Named" \in Words /\ "Classdec" \in Words /\ "Sync" \in Words
    BY ZenonT(60) DEF Words, Goals
  <1>4. r \in Seq(Words) BY <1>3, Tuple4
  <1>. HIDE DEF r
  <1>5. cs' = r \o Tail(cs) /\ ~semi' BY <1>1 DEF Acts, Do, Advance
  <1>6. BInv BY DEF CInv
  <1>7. /\ Len(cs) \in Nat \ {0} /\ Len(cs') = Len(r) + Len(cs) - 1 /\ Head(cs) = cs[1]
    BY <1>4, <1>5, <1>6, Rear
  <1>8. \A i \in 1 .. Len(r) : cs'[i] = r[i] BY <1>4, <1>5, <1>6, Rear
  <1>9. \A i \in Len(r) + 1 .. Len(cs') :
              i - Len(r) + 1 \in 2 .. Len(cs) /\ cs'[i] = cs[i - Len(r) + 1]
    BY <1>4, <1>5, <1>6, Rear
  <1>10. \A i \in 2 .. Len(cs) : cs[i] # "Classdec"
    <2>. SUFFICES ASSUME NEW i \in 2 .. Len(cs), cs[i] = "Classdec" PROVE FALSE OBVIOUS
    <2>1. i \in 1 .. Len(cs) BY <1>7
    <2>2. i <= 3 /\ (i = 2 => cs[1] = "Named") /\ (i = 3 => cs[1] = "id")
      BY <2>1 DEF CInv, ClassTop
    <2>3. i = 2 \/ i = 3 BY ONLY <2>2, <1>7, i \in 2 .. Len(cs)
    <2>. QED BY <2>2, <2>3, <1>7
  <1>11. \A i \in 1 .. Len(cs') : cs'[i] = "Classdec" => i = 3
    <2>. SUFFICES ASSUME NEW i \in 1 .. Len(cs'), i # 3 PROVE cs'[i] # "Classdec" OBVIOUS
    <2>1. CASE i \in 1 .. 4
      <3>1. i = 1 \/ i = 2 \/ i = 4 BY ONLY <2>1, i # 3
      <3>. QED BY <3>1, <1>2, <1>8
    <2>2. CASE i \notin 1 .. 4
      <3>1. i \in Len(r) + 1 .. Len(cs') BY ONLY <2>2, <1>2, <1>7, i \in 1 .. Len(cs')
      <3>. QED BY <3>1, <1>9, <1>10
    <2>. QED BY <2>1, <2>2
  <1>12. ClassTop' BY <1>2, <1>5, <1>8, <1>11 DEF ClassTop
  <1>14. FixedVar'
    <2>1. Without(r, NewFixed) BY <1>3, Row4 DEF r, NewFixed
    <2>. QED BY <1>5, <1>6, <2>1, FixedVarStep
  <1>15. Fits(Head(cs), r)
    <2>2. "Named" \in Behind("id") /\ "Classdec" \in Behind("Named")
          /\ "Sync" \in Behind("Classdec") /\ Behind("Dec") \subseteq Behind("Sync")
      BY <1>3 DEF Behind
    <2>. QED BY <1>3, <2>2, Row4 DEF r
  <1>. QED BY <1>1, <1>12, <1>14, <1>15, TakeCore

(* The braces of a class.                                                  *)
LEMMA ClassdecCInv ==
  ASSUME CInv, BInv', Classdec
  PROVE  CInv'
  <1>0. cs # <<>> /\ Head(cs) = "Classdec" /\ BInv BY DEF Classdec, Plain, At, CInv
  <1>1. ~semi
    <2>1. Len(cs) \in Nat \ {0} /\ Head(cs) = cs[1]
      BY <1>0, HeadTailProperties, LenProperties, EmptySeq DEF BInv
    <2>2. 1 \in 1 .. Len(cs) BY <2>1
    <2>. QED BY <1>0, <2>1, <2>2 DEF CInv, ClassTop
  <1>2. /\ "id" \in Words /\ "Named" \in Words /\ "{" \in Words /\ "SubMethods" \in Words
        /\ "Methods" \in Words
    BY ZenonT(60) DEF Words, Goals, Brackets, Openers
  <1>n. /\ "id" \notin NewClass /\ "Named" \notin NewClass /\ "{" \notin NewClass
        /\ "SubMethods" \notin NewClass /\ "Methods" \notin NewClass
        /\ "id" \notin NewFixed /\ "Named" \notin NewFixed /\ "{" \notin NewFixed
        /\ "SubMethods" \notin NewFixed /\ "Methods" \notin NewFixed
    BY DEF NewClass, NewFixed
  <1>3. ~Hot BY <1>0, HotHead
  <1>4. Behind("id") = Words /\ Behind("Named") = Words /\ Behind("{") = Words
        /\ Behind("SubMethods") = Words /\ Behind("Methods") = Words
        /\ Behind("Classdec") = Words
    BY DEF Behind
  <1>5. CASE curr = "impl"
    <2>. DEFINE r == <<"id", "Named", "{", "SubMethods">>
    <2>1. Acts(r, TRUE, FALSE) BY <1>5 DEF Classdec, Plain, Match, Take, Acts
    <2>3. Without(r, NewFixed) BY <1>2, Row4, <1>n
    <2>5. Without(r, NewClass) BY <1>2, Row4, <1>n
    <2>9. Fits(Head(cs), r) BY <1>0, <1>2, <1>4, Row4
    <2>. HIDE DEF r
    <2>4. cs' = r \o Tail(cs) BY <2>1, ActsEffect
    <2>7. FixedVar' BY <1>0, <2>3, <2>4, FixedVarStep
    <2>8. ClassTop' BY <1>0, <2>1, <2>5, ClassStep DEF CInv
    <2>. QED BY <1>0, <1>3, <1>5, <2>1, <2>7, <2>8, <2>9, TakeCore
  <1>6. CASE curr # "impl"
    <2>. DEFINE r == <<"{", "Methods">>
    <2>1. Acts(r, FALSE, FALSE) BY <1>6 DEF Classdec, Plain, Match, Go, Acts
    <2>3. Without(r, NewFixed) BY <1>2, Row2, <1>n
    <2>5. Without(r, NewClass) BY <1>2, Row2, <1>n
    <2>9. Fits(Head(cs), r) BY <1>0, <1>2, <1>4, Row2
    <2>. HIDE DEF r
    <2>4. cs' = r \o Tail(cs) BY <2>1, ActsEffect
    <2>7. FixedVar' BY <1>0, <2>3, <2>4, FixedVarStep
    <2>8. ClassTop' BY <1>0, <2>1, <2>5, ClassStep DEF CInv
    <2>10. ~OddToken BY <1>1 DEF OddToken
    <2>. QED BY <1>0, <1>1, <1>3, <2>1, <2>7, <2>8, <2>9, <2>10, GoCore
  <1>. QED BY <1>5, <1>6

(* A class that is left has no method, or none but those read.             *)
LEMMA MethodsCInv ==
  ASSUME CInv, BInv', NEW g \in {"Methods", "SubMethods"}, Methods(g)
  PROVE  CInv'
  <1>0. cs # <<>> /\ Head(cs) = g /\ BInv BY DEF Methods, Plain, At, CInv
  <1>1. /\ "fn" \in Words /\ "id" \in Words /\ "Function" \in Words /\ g \in Words
        /\ "}" \in Words
    BY ZenonT(60) DEF Words, Goals, Brackets, Openers
  <1>n. /\ "fn" \notin NewClass /\ "id" \notin NewClass /\ "Function" \notin NewClass
        /\ g \notin NewClass /\ "}" \notin NewClass
        /\ "fn" \notin NewFixed /\ "id" \notin NewFixed /\ "Function" \notin NewFixed
        /\ g \notin NewFixed /\ "}" \notin NewFixed
    BY DEF NewClass, NewFixed
  <1>2. ~Hot BY <1>0, HotHead
  <1>3. Behind("fn") = Words /\ Behind("id") = Words /\ Behind("Function") = Words
        /\ Behind(g) = Words /\ Behind("}") = Words
    BY DEF Behind
  <1>4. Head(cs) \notin Calm BY <1>0 DEF Calm
  <1>5. ~(OddToken /\ Aimed(cs))
    <2>1. Head(cs) \notin Passing \cup Aims(curr) BY <1>0 DEF Passing, Aims
    <2>. QED BY <1>0, <2>1, AimedHead
  <1>6. CASE curr \in {"}", Eof}
    <2>. DEFINE r == <<"}">>
    <2>1. Acts(r, FALSE, FALSE) BY <1>6 DEF Methods, Plain, Go, Acts
    <2>3. Without(r, NewFixed) BY <1>1, Row1, <1>n
    <2>5. Without(r, NewClass) BY <1>1, Row1, <1>n
    <2>9. Fits(Head(cs), r) BY <1>0, <1>1, <1>3, Row1
    <2>. HIDE DEF r
    <2>4. cs' = r \o Tail(cs) BY <2>1, ActsEffect
    <2>7. FixedVar' BY <1>0, <2>3, <2>4, FixedVarStep
    <2>8. ClassTop' BY <1>0, <2>1, <2>5, ClassStep DEF CInv
    <2>10. curr \notin DecStart' BY <1>6 DEF DecStart, StmStart, Eof
    <2>. QED BY <1>0, <1>2, <1>4, <1>5, <2>1, <2>7, <2>8, <2>9, <2>10, GoCore
  <1>7. CASE curr \notin {"}", Eof}
    <2>. DEFINE r == <<"fn", "id", "Function", g>>
    <2>1. Acts(r, FALSE, FALSE) BY <1>7 DEF Methods, Plain, Go, Acts
    <2>2. Len(r) = 4 /\ r[1] = "fn" /\ r[2] = "id" /\ r[3] = "Function" /\ r[4] = g
      OBVIOUS
    <2>6. r \in Seq(Words) BY <1>1, Tuple4
    <2>3. Without(r, NewFixed) BY <1>1, Row4, <1>n
    <2>5. Without(r, NewClass) BY <1>1, Row4, <1>n
    <2>9. Fits(Head(cs), r) BY <1>0, <1>1, <1>3, Row4
    <2>. HIDE DEF r
    <2>4. cs' = r \o Tail(cs) BY <2>1, ActsEffect
    <2>7. FixedVar' BY <1>0, <2>3, <2>4, FixedVarStep
    <2>8. ClassTop' BY <1>0, <2>1, <2>5, ClassStep DEF CInv
    <2>10. /\ Len(cs) \in Nat \ {0} /\ Head(cs) = cs[1] /\ cs' \in Seq(Words)
           /\ DOMAIN cs = 1 .. Len(cs) /\ DOMAIN cs' = 1 .. Len(cs')
      BY <1>0, HeadTailProperties, LenProperties, EmptySeq DEF BInv
    <2>11. InClass
      <3>1. 1 \in DOMAIN cs BY <2>10
      <3>. QED BY <1>0, <2>10, <3>1 DEF InClass
    <2>12. InSubclass' => InSubclass
      <3>1. CASE g = "SubMethods"
        <4>1. 1 \in DOMAIN cs /\ cs[1] = "SubMethods" BY <1>0, <2>10, <3>1
        <4>2. \A j \in 1 .. 1 - 1 : cs[j] # "Methods" OBVIOUS
        <4>. QED BY <4>1, <4>2 DEF InSubclass
      <3>2. CASE g = "Methods"
        <4>. SUFFICES ASSUME NEW i \in DOMAIN cs', cs'[i] = "SubMethods",
                             \A j \in 1 .. i - 1 : cs'[j] # "Methods"
                      PROVE  FALSE
          BY DEF InSubclass
        <4>1. \A k \in 1 .. Len(r) : cs'[k] = r[k] BY <1>0, <2>4, <2>6, Rear
        <4>2. i \notin 1 .. 4
          <5>. SUFFICES ASSUME i \in 1 .. 4 PROVE FALSE OBVIOUS
          <5>1. i = 1 \/ i = 2 \/ i = 3 \/ i = 4 OBVIOUS
          <5>. QED BY <2>2, <3>2, <4>1, <5>1
        <4>3. 4 \in 1 .. i - 1 BY ONLY <2>10, <4>2, i \in DOMAIN cs', LenProperties
        <4>. QED BY <2>2, <3>2, <4>1, <4>3
      <3>. QED BY <3>1, <3>2
    <2>13. curr' = curr BY <2>1 DEF Acts, Do, Complain
    <2>14. curr \in DecStart' => curr \in DecStart
      BY <2>11, <2>12 DEF DecStart, StmStart
    <2>. QED BY <1>0, <1>2, <1>4, <1>5, <2>1, <2>7, <2>8, <2>9, <2>14, GoCore
  <1>. QED BY <1>6, <1>7

(* sync clears panic, and looks for the next declaration if it was set.    *)
LEMMA SyncCInv ==
  ASSUME CInv, BInv', Sync
  PROVE  CInv'
  <1>0. /\ cs # <<>> /\ Head(cs) = "Sync" /\ BInv /\ ~panic'
        /\ UNCHANGED <<curr, semi, told, again>>
    BY DEF Sync, At, CInv
  <1>1. PICK r : /\ r = IF panic THEN <<"Skip">> ELSE <<>>
                 /\ cs' = r \o Tail(cs)
    <2>1. CASE panic BY <2>1 DEF Sync
    <2>2. CASE ~panic
      <3>1. Tail(cs) \in Seq(Words) BY <1>0, HeadTailProperties DEF BInv
      <3>2. <<>> \o Tail(cs) = Tail(cs) BY <3>1, ConcatEmptySeq
      <3>. QED BY <2>2, <3>2 DEF Sync
    <2>. QED BY <2>1, <2>2
  <1>2. Calls(Head(cs), r)
    <2>1. "Skip" \in Words /\ "Skip" \notin Marks BY FreeGoals DEF Bound, Marks
    <2>2. Behind("Sync") \subseteq Behind("Skip") BY DEF Behind
    <2>3. <<>> \in Seq(Free) BY EmptySeq
    <2>. QED BY <1>0, <1>1, <2>1, <2>2, <2>3, Calls1, FreeCalls
  <1>3. Fits(Head(cs), r) /\ Quiet(r) /\ r \in Seq(Words) BY <1>2 DEF Calls, Fits
  <1>4. Grammar(cs)' BY <1>0, <1>1, <1>3, GrammarStep DEF CInv
  <1>5. ClassTop' /\ FixedVar'
    <2>1. /\ Without(r, NewFixed) /\ Without(r, NewClass)
      BY <1>3 DEF Quiet, Without, Marks, NewClass, NewFixed
    <2>2. FixedVar' BY <1>0, <1>1, <2>1, FixedVarStep
    <2>3. /\ Len(r) \in Nat /\ Len(cs) \in Nat \ {0}
          /\ Len(cs') = Len(r) + Len(cs) - 1 /\ Head(cs) = cs[1]
      BY <1>0, <1>1, <1>3, Rear
    <2>4. \A i \in 1 .. Len(r) : cs'[i] = r[i] BY <1>0, <1>1, <1>3, Rear
    <2>5. \A i \in Len(r) + 1 .. Len(cs') :
              i - Len(r) + 1 \in 2 .. Len(cs) /\ cs'[i] = cs[i - Len(r) + 1]
      BY <1>0, <1>1, <1>3, Rear
    <2>6. \A i \in 2 .. Len(cs) : cs[i] # "Classdec"
      <3>. SUFFICES ASSUME NEW i \in 2 .. Len(cs), cs[i] = "Classdec" PROVE FALSE OBVIOUS
      <3>1. i \in 1 .. Len(cs) BY <2>3
      <3>2. i <= 3 /\ (i = 2 => cs[1] = "Named") /\ (i = 3 => cs[1] = "id")
        BY <3>1 DEF CInv, ClassTop
      <3>3. i = 2 \/ i = 3 BY ONLY <3>2, <2>3, i \in 2 .. Len(cs)
      <3>. QED BY <1>0, <3>2, <3>3, <2>3
    <2>7. ASSUME NEW i \in 1 .. Len(cs') PROVE cs'[i] # "Classdec"
      <3>1. CASE i \in 1 .. Len(r) BY <2>1, <2>4, <3>1 DEF Without, NewClass
      <3>2. CASE i \notin 1 .. Len(r)
        <4>1. i \in Len(r) + 1 .. Len(cs') BY ONLY <3>2, <2>3, i \in 1 .. Len(cs')
        <4>. QED BY <4>1, <2>5, <2>6
      <3>. QED BY <3>1, <3>2
    <2>. QED BY <2>2, <2>7 DEF ClassTop
  <1>6. DecStart' = DecStart BY <1>0, <1>1, <1>3, QuietStart
  <1>7. r # <<>> => Head(cs') = "Skip" BY <1>0, <1>1, <1>3, NewHead
  <1>8. r = <<>> => cs' = Tail(cs)
    <2>1. Tail(cs) \in Seq(Words) BY <1>0, HeadTailProperties DEF BInv
    <2>. QED BY <1>1, <2>1, ConcatEmptySeq
  <1>9. r = <<>> /\ cs' # <<>> => Head(cs') \in {"Script", "Block"}
    <2>1. r = <<>> /\ cs' # <<>> => Head(cs') \in Behind("Sync") BY <1>0, <1>8, Returned
    <2>. QED BY <2>1 DEF Behind
  <1>10. OddShape'
    <2>. SUFFICES ASSUME OddToken' PROVE ~told' /\ Head(cs') \in Calm BY DEF OddShape
    <2>1. OddToken BY <1>0 DEF OddToken
    <2>2. ~Aimed(cs) BY <1>0, <2>1, CalmAimed DEF Calm
    <2>3. ~told BY <2>1, <2>2 DEF CInv, OddShape
    <2>4. cs' # <<>> BY DEF OddToken
    <2>. QED BY <1>0, <1>7, <1>9, <2>3, <2>4 DEF Calm
  <1>11. Live' => Hot'
    <2>. SUFFICES ASSUME Live' PROVE Hot' OBVIOUS
    <2>1. CASE panic BY <1>1, <1>7, <2>1 DEF Hot
    <2>2. CASE ~panic
      <3>1. Live BY <1>0, <1>6, <2>2 DEF Live
      <3>2. Hot BY <3>1 DEF CInv
      <3>. QED BY <1>0, <3>2, HotHead
    <2>. QED BY <2>1, <2>2
  <1>12. NoCascade' BY <1>0 DEF CInv, NoCascade
  <1>. QED BY <1>4, <1>5, <1>10, <1>11, <1>12 DEF CInv

(* dec calls the function its token begins with, or stm.                   *)
LEMMA DecCInv ==
  ASSUME CInv, BInv', "fixed_any" \in Avoid, Dec
  PROVE  CInv'
  <1>0. cs # <<>> /\ Head(cs) = "Dec" BY DEF Dec, Plain, At
  <1>1. CASE curr = "var"
    <2>1. Take(<<"Vardec", "Sync">>) BY <1>1 DEF Dec, Plain
    <2>. QED BY <1>0, <1>1, <2>1, DeclarationsCalls, EasyTake
  <1>2. CASE curr = "fixed"
    <2>. DEFINE r == <<"FixedDec", "Sync">>
    <2>1. Take(r) BY <1>2 DEF Dec, Plain
    <2>2. "FixedDec" \in Words /\ "Sync" \in Words BY FreeGoals DEF Bound
    <2>3. r \in Seq(Words) BY <2>2, Tuple2
    <2>4. r[Len(r)] = "Sync" OBVIOUS
    <2>5. Behind(Head(cs)) \subseteq Behind(r[Len(r)]) BY <1>0, <2>4 DEF Behind
    <2>6. Head(cs) \notin {"id", "Named"} BY <1>0
    <2>. QED BY <1>0, <1>2, <2>1, <2>3, <2>5, <2>6, TakeFixed
  <1>3. CASE curr = "fn"
    <2>1. Take(<<"id", "Named", "Function", "Sync">>) BY <1>3 DEF Dec, Plain
    <2>. QED BY <1>0, <1>3, <2>1, DeclarationsCalls, EasyTake
  <1>4. CASE curr = "class"
    <2>1. Take(<<"id", "Named", "Classdec", "Sync">>) BY <1>4 DEF Dec, Plain
    <2>. QED BY <1>0, <1>4, <2>1, TakeClass
  <1>5. CASE curr \notin {"var", "fixed", "fn", "class"}
    <2>. DEFINE r == <<"Stm", "Sync">>
    <2>1. Go(r) BY <1>5 DEF Dec, Plain
    <2>2. r # <<>> /\ r[1] = "Stm" OBVIOUS
    <2>3. Calls(Head(cs), r) BY <1>0, DeclarationsCalls
    <2>. HIDE DEF r
    <2>4. "Stm" \in Calm /\ "Dec" \in Calm BY DEF Calm
    <2>5. /\ curr' = curr /\ Head(cs') = "Stm" /\ DecStart' = DecStart
      BY <1>0, <2>1, <2>2, <2>3, GoHead
    <2>6. Hot => Hot' BY <1>0, <1>5, <2>5 DEF Hot
    <2>. QED BY <1>0, <2>1, <2>2, <2>3, <2>4, <2>6, CalmCalls
  <1>. QED BY <1>1, <1>2, <1>3, <1>4, <1>5

(* The loop of sync ends in front of a token that dec goes forward on, or  *)
(* behind a semicolon.                                                     *)
LEMMA SkipCInv ==
  ASSUME CInv, BInv', Skip
  PROVE  CInv'
  <1>0. cs # <<>> /\ Head(cs) = "Skip" BY DEF Skip, Plain, At
  <1>c. "Skip" \in Calm /\ "Script" \in Calm /\ "Block" \in Calm BY DEF Calm
  <1>1. CASE Boundary
    <2>1. Go(<<>>) BY <1>1 DEF Skip
    <2>2. <<>> \in Seq(Free) BY EmptySeq
    <2>3. Calls(Head(cs), <<>>) BY <2>2, FreeCalls
    <2>4. cs' = Tail(cs) /\ curr' = curr /\ DecStart' = DecStart
      BY <1>0, <2>1, <2>3, GoHead
    <2>5. cs' # <<>> => Head(cs') \in {"Script", "Block"}
      <3>1. cs' # <<>> => Head(cs') \in Behind("Skip") BY <1>0, <2>4, Returned
      <3>. QED BY <3>1 DEF Behind
    <2>6. ASSUME Live, cs' # <<>> PROVE Hot'
      <3>1. curr \in DecStart
        <4>1. curr \in SyncSet \/ semi BY <1>1, <2>6 DEF Boundary, Live
        <4>2. SyncSet \subseteq DecStart BY DEF SyncSet, DecStart, StmStart
        <4>. QED BY <4>1, <4>2, <2>6 DEF Live
      <3>2. curr \notin Odd
        <4>1. CASE semi BY <4>1, <2>6 DEF Live, CInv, OddShape, OddToken
        <4>2. CASE ~semi BY <1>1, <2>6, <4>2 DEF Boundary, Live, SyncSet, Odd
        <4>. QED BY <4>1, <4>2
      <3>. QED BY <2>4, <2>5, <2>6, <3>1, <3>2 DEF Hot
    <2>. QED BY <1>0, <1>c, <2>1, <2>3, <2>5, <2>6, CalmGo
  <1>2. CASE ~Boundary
    <2>. DEFINE r == <<"Skip">>
    <2>1. Take(r) BY <1>2 DEF Skip
    <2>2. Acts(r, TRUE, FALSE) BY <2>1 DEF Take, Acts
    <2>3. Calls(Head(cs), r) BY <1>0, DeclarationsCalls
    <2>4. r # <<>> /\ r[1] = "Skip" OBVIOUS
    <2>. HIDE DEF r
    <2>5. Steps(r, TRUE, FALSE) BY <1>0, <2>2, <2>3 DEF Steps
    <2>6. cs' = r \o Tail(cs) BY <2>2, ActsEffect
    <2>7. Head(cs') = "Skip" BY <1>0, <2>3, <2>4, <2>6, NewHead DEF CInv, Calls, Fits
    <2>. QED BY <1>0, <1>c, <2>5, <2>7, TakeKeeps
  <1>. QED BY <1>1, <1>2

(* compile returns at the end of the file.                                 *)
LEMMA ScriptCInv ==
  ASSUME CInv, BInv', Script
  PROVE  CInv'
  <1>0. cs # <<>> /\ Head(cs) = "Script" BY DEF Script, Plain, At
  <1>c. "Script" \in Calm /\ "Dec" \in Calm BY DEF Calm
  <1>1. CASE curr = Eof
    <2>1. Go(<<>>) BY <1>1 DEF Script, Plain
    <2>2. <<>> \in Seq(Free) BY EmptySeq
    <2>3. Calls(Head(cs), <<>>) BY <2>2, FreeCalls
    <2>4. ~Live /\ ~OddToken BY <1>1 DEF Live, OddToken, Odd, Eof
    <2>. QED BY <1>0, <1>c, <2>1, <2>3, <2>4, CalmGo
  <1>2. CASE curr # Eof
    <2>. DEFINE r == <<"Dec", "Script">>
    <2>1. Go(r) BY <1>2 DEF Script, Plain
    <2>2. r # <<>> /\ r[1] = "Dec" OBVIOUS
    <2>3. Calls(Head(cs), r) BY <1>0, DeclarationsCalls
    <2>. HIDE DEF r
    <2>5. /\ curr' = curr /\ Head(cs') = "Dec" /\ DecStart' = DecStart
      BY <1>0, <2>1, <2>2, <2>3, GoHead
    <2>6. Hot => Hot' BY <1>0, <2>5 DEF Hot
    <2>. QED BY <1>0, <1>c, <2>1, <2>2, <2>3, <2>6, CalmCalls
  <1>. QED BY <1>1, <1>2

(* Every function that parses a declaration keeps CInv.                    *)
LEMMA DeclarationsCInv ==
  ASSUME CInv, BInv', "fixed_any" \in Avoid, Declarations
  PROVE  CInv'
  <1>a. /\ "id" \in Free /\ "Named" \in Free /\ "MoreNames" \in Free /\ "Names" \in Free
        /\ "Explist" \in Free /\ "Params" \in Free /\ "Block" \in Free
        /\ "(" \in Free /\ ")" \in Free /\ "{" \in Free
    BY ZenonT(60), FreeGoals DEF Goals, Bound, Marks, Brackets, Openers
  <1>d. /\ "Names" \in Dull /\ "MoreNames" \in Dull /\ "Init" \in Dull
        /\ "Function" \in Dull /\ "Params" \in Dull /\ "Twice" \in Dull
    BY ZenonT(60) DEF Dull, Goals, Marked, Calm, Passing, AllAims, Aims
  <1>m. /\ "Named" \notin Marked /\ "Vardec" \notin Marked /\ "ForVardec" \notin Marked
        /\ "FixedVardec" \notin Marked
    BY DEF Marked, Calm, Passing, AllAims, Aims
  <1>f. <<>> \in Seq(Free) BY EmptySeq
  <1>. USE DEF Plain, At
  <1>1. ASSUME Names PROVE CInv'
    <2>1. <<"id", "Named", "MoreNames">> \in Seq(Free) BY <1>a, Tuple3
    <2>. QED BY <1>1, <1>d, <2>1, DullGo DEF Names
  <1>2. ASSUME Named PROVE CInv'
    <2>0. cs # <<>> /\ Head(cs) = "Named" BY <1>2 DEF Named
    <2>1. PICK wrong \in BOOLEAN : Complain(<<>>, wrong) BY <1>2 DEF Named, MayReport
    <2>2. Acts(<<>>, FALSE, wrong) BY <2>1 DEF Acts
    <2>3. Calls(Head(cs), <<>>) BY <1>f, FreeCalls
    <2>4. Steps(<<>>, FALSE, wrong) BY <2>0, <2>2, <2>3 DEF Steps
    <2>. QED BY <2>0, <2>4, <1>m, DullStep
  <1>3. ASSUME MoreNames PROVE CInv'
    <2>1. <<"Names">> \in Seq(Free) BY <1>a, Tuple1
    <2>. QED BY <1>3, <1>d, <1>f, <2>1, DullMatch DEF MoreNames
  <1>4. ASSUME InitRest PROVE CInv'
    <2>1. <<"Explist">> \in Seq(Free) BY <1>a, Tuple1
    <2>. QED BY <1>4, <1>d, <1>f, <2>1, DullMatch DEF InitRest
  <1>5. ASSUME Function PROVE CInv'
    <2>. DEFINE r == <<"(", "Params", ")">> \o <<"{", "Block">>
    <2>1. r \in Seq(Free) BY <1>a, Tuple2, Tuple3, ConcatProperties
    <2>2. Go(r) BY <1>5 DEF Function
    <2>. HIDE DEF r
    <2>. QED BY <1>5, <1>d, <2>1, <2>2, DullGo DEF Function
  <1>6. ASSUME Params PROVE CInv'
    <2>1. <<"Names">> \in Seq(Free) BY <1>a, Tuple1
    <2>2. Go(<<>>) \/ Go(<<"Names">>) BY <1>6 DEF Params
    <2>. QED BY <1>6, <1>d, <1>f, <2>1, <2>2, DullGo DEF Params
  <1>7. ASSUME Twice PROVE CInv'
    BY <1>7, <1>d, <1>f, DullComplain DEF Twice
  <1>8. ASSUME NEW g \in {"Vardec", "ForVardec", "FixedVardec"}, NEW a, NEW b,
               a = VarRest \/ a = <<"Named">> \o VarRest \/ a = <<"Twice">> \o VarRest,
               b = VarRest, Plain(g), Match("fixed", a, b)
        PROVE  CInv'
    <2>0. cs # <<>> /\ Head(cs) = g BY <1>8
    <2>1. Calls(Head(cs), a) /\ Calls(Head(cs), b) BY <1>8, <2>0, DeclarationsCalls
    <2>2. Head(cs) \notin {"id", "Named", "Methods", "SubMethods"} BY <2>0
    <2>3. CASE curr = "fixed"
      <3>1. Acts(a, TRUE, FALSE) BY <1>8, <2>3 DEF Match, Take, Acts
      <3>2. Steps(a, TRUE, FALSE) BY <2>1, <2>2, <3>1 DEF Steps
      <3>. QED BY <2>0, <2>3, <3>2, <1>m, DullStep
    <2>4. CASE curr # "fixed"
      <3>1. Acts(b, FALSE, FALSE) BY <1>8, <2>4 DEF Match, Go, Acts
      <3>2. Steps(b, FALSE, FALSE) BY <2>1, <2>2, <3>1 DEF Steps
      <3>. QED BY <2>0, <3>2, <1>m, DullStep
    <2>. QED BY <2>3, <2>4
  <1>9. Vardec \/ ForVardec \/ FixedVardec => CInv'
    BY <1>8 DEF Vardec, ForVardec, FixedVardec
  <1>10. ASSUME FixedDec PROVE CInv'
    <2>0. cs # <<>> /\ Head(cs) = "FixedDec" /\ Take(<<"FixedVardec">>)
      BY <1>10 DEF FixedDec
    <2>1. curr # ";"
      <3>1. Len(cs) \in Nat \ {0} /\ Head(cs) = cs[1]
        BY <2>0, HeadTailProperties, LenProperties, EmptySeq DEF CInv, BInv
      <3>2. 1 \in 1 .. Len(cs) BY <3>1
      <3>3. curr \in {"var", Eof} BY <2>0, <3>1, <3>2 DEF CInv, FixedVar
      <3>. QED BY <3>3 DEF Eof
    <2>. QED BY <2>0, <2>1, DeclarationsCalls, EasyTake
  <1>. QED
    BY <1>1, <1>2, <1>3, <1>4, <1>5, <1>6, <1>7, <1>9, <1>10, ClassdecCInv, MethodsCInv,
       SyncCInv, DecCInv, SkipCInv, ScriptCInv DEF Declarations

(* The chains of calls that a statement's function begins with.            *)
LEMMA StatementsCalls ==
  /\ Calls("Stm", Cond \o <<"Stm">>) /\ Calls("Stm", Cond \o <<"Stm", "Else">>)
  /\ Calls("Stm", Cond \o <<"{", "First", "Cases">>)
  /\ Calls("Stm", <<"(", "ForInit", "ForCond", "ForLast", "Stm">>)
  /\ Calls("Stm", <<"Names", "in", "Expr", "Factory", "Stm">>)
  /\ Calls("Stm", <<";", "Leave">>) /\ Calls("Stm", <<"Return">>)
  /\ Calls("Stm", <<"Stm">>) /\ Calls("Else", <<"Stm">>)
  /\ \A g \in {"Stm", "ForInit"} : Calls(g, <<"Exprstm", ";">>)
  /\ Calls("Return", <<"Explist", ";">>) /\ Calls("ForCond", <<"Expr", ";">>)
  /\ Calls("ForInit", <<"ForVardec">>)
  /\ \A g \in {"Cases", "MoreCases"} : Calls(g, <<"Stm", g>>)
  <1>1. /\ "(" \in Free /\ ")" \in Free /\ "{" \in Free /\ "in" \in Free
        /\ "Expr" \in Free /\ "First" \in Free /\ "Cases" \in Free
        /\ "MoreCases" \in Free /\ "ForLast" \in Free /\ "Names" \in Free
    BY ZenonT(60), FreeGoals DEF Goals, Bound, Marks, Brackets, Openers
  <1>2. /\ "Factory" \in Free /\ "Exprstm" \in Free /\ "Explist" \in Free
    BY ZenonT(60), FreeGoals DEF Goals, Bound, Marks
  <1>3. /\ ";" \in Words /\ "Leave" \in Words /\ "Return" \in Words /\ "Stm" \in Words
        /\ "Else" \in Words /\ "ForInit" \in Words /\ "ForCond" \in Words
        /\ "ForVardec" \in Words
    BY FreeGoals DEF Bound
  <1>4. /\ ";" \notin Marks /\ "Leave" \notin Marks /\ "Return" \notin Marks
        /\ "Stm" \notin Marks /\ "Else" \notin Marks /\ "ForInit" \notin Marks
        /\ "ForCond" \notin Marks /\ "ForVardec" \notin Marks
    BY DEF Marks
  <1>5. \A f \in Free : f \in Words /\ f \notin Marks /\ Behind(f) = Words
    BY BehindWords DEF Free
  <1>6. \A g : Behind(g) \subseteq Words BY BehindWords
  <1>7. /\ Behind("Stm") = Behind("Else") /\ Behind("Stm") = Behind("Leave")
        /\ Behind("Stm") = Behind("Return") /\ "Else" \in Behind("Stm")
        /\ "Cases" \in Behind("Stm") /\ "MoreCases" \in Behind("Stm")
        /\ "Leave" \in Behind(";") /\ "ForCond" \in Behind("ForInit")
        /\ "ForLast" \in Behind("ForCond") /\ Behind("Stm") \subseteq Behind(";")
        /\ Behind("Return") \subseteq Behind(";") /\ Behind("ForInit") \subseteq Behind(";")
        /\ Behind("ForCond") \subseteq Behind(";")
        /\ Behind("ForInit") \subseteq Behind("ForVardec")
    BY DEF Behind
  <1>8. Cond \in Seq(Free) BY <1>1, Tuple3 DEF Cond
  <1>9. Calls("Stm", Cond \o <<"Stm">>)
    <2>1. Calls("Stm", <<"Stm">>) BY <1>3, <1>4, Calls1
    <2>2. <<"Stm">> # <<>> OBVIOUS
    <2>. QED BY <1>8, <2>1, <2>2, FreeJoin
  <1>10. Calls("Stm", Cond \o <<"Stm", "Else">>)
    <2>1. Calls("Stm", <<"Stm", "Else">>) BY <1>3, <1>4, <1>7, Calls2
    <2>2. <<"Stm", "Else">> # <<>> OBVIOUS
    <2>. QED BY <1>8, <2>1, <2>2, FreeJoin
  <1>11. Calls("Stm", Cond \o <<"{", "First", "Cases">>)
    <2>1. Calls("Stm", <<"{", "First", "Cases">>) BY <1>1, Tuple3, FreeCalls
    <2>2. <<"{", "First", "Cases">> # <<>> OBVIOUS
    <2>. QED BY <1>8, <2>1, <2>2, FreeJoin
  <1>12. Calls("Stm", <<"(", "ForInit", "ForCond", "ForLast", "Stm">>)
    <2>1. "ForInit" \in Behind("(") /\ "Stm" \in Behind("ForLast") BY <1>1, <1>3, <1>5
    <2>. QED BY <1>1, <1>3, <1>4, <1>5, <1>7, <2>1, Calls5
  <1>13. Calls("Stm", <<"Names", "in", "Expr", "Factory", "Stm">>)
    <2>1. /\ "in" \in Behind("Names") /\ "Expr" \in Behind("in")
          /\ "Factory" \in Behind("Expr") /\ "Stm" \in Behind("Factory")
      BY <1>1, <1>2, <1>3, <1>5
    <2>. QED BY <1>1, <1>2, <1>3, <1>4, <1>5, <2>1, Calls5
  <1>14. /\ Calls("Stm", <<";", "Leave">>) /\ Calls("Stm", <<"Return">>)
         /\ Calls("Stm", <<"Stm">>) /\ Calls("Else", <<"Stm">>)
         /\ Calls("ForInit", <<"ForVardec">>)
    BY <1>3, <1>4, <1>7, Calls1, Calls2
  <1>15. \A g \in {"Stm", "ForInit"} : Calls(g, <<"Exprstm", ";">>)
    BY <1>2, <1>3, <1>4, <1>5, <1>7, Calls2
  <1>16. Calls("Return", <<"Explist", ";">>) /\ Calls("ForCond", <<"Expr", ";">>)
    BY <1>1, <1>2, <1>3, <1>4, <1>5, <1>7, Calls2
  <1>17. \A g \in {"Cases", "MoreCases"} : Calls(g, <<"Stm", g>>)
    BY <1>1, <1>3, <1>4, <1>5, <1>6, <1>7, Calls2
  <1>. QED BY <1>9, <1>10, <1>11, <1>12, <1>13, <1>14, <1>15, <1>16, <1>17

(* A semicolon that is a whole goal is taken with what was called for it.  *)
LEMMA TakeEnd ==
  ASSUME CInv, cs # <<>>, BInv', Take(<<>>),
         Head(cs) \notin {"Methods", "SubMethods", "id", "Named"},
         Behind(Head(cs)) \subseteq Calm \cup {"ForCond", "ForLast"}
  PROVE  CInv'
  <1>1. Acts(<<>>, TRUE, FALSE) BY DEF Take, Acts
  <1>2. <<>> \in Seq(Free) BY EmptySeq
  <1>3. Calls(Head(cs), <<>>) BY <1>2, FreeCalls
  <1>4. Steps(<<>>, TRUE, FALSE) BY <1>1, <1>3 DEF Steps
  <1>5. cs' = Tail(cs) /\ cs' = <<>> \o Tail(cs)
    <2>1. cs' = <<>> \o Tail(cs) BY <1>1, ActsEffect
    <2>2. Tail(cs) \in Seq(Words) BY HeadTailProperties DEF CInv, BInv
    <2>. QED BY <2>1, <2>2, ConcatEmptySeq
  <1>6. cs' = <<>> \/ Head(cs') \in Calm \/ Aimed(cs)'
    <2>. SUFFICES ASSUME cs' # <<>> PROVE Head(cs') \in Calm \/ Aimed(cs)' OBVIOUS
    <2>1. Head(cs') \in Calm \/ Head(cs') \in {"ForCond", "ForLast"} BY <1>5, Returned
    <2>2. Fits(Head(cs), <<>>) BY <1>3 DEF Calls
    <2>. QED BY <1>5, <2>1, <2>2, AimedFor
  <1>. QED BY <1>4, <1>6, TakeKeeps

(* stm calls the function its token begins with, or exprstm.               *)
LEMMA StmCInv ==
  ASSUME CInv, BInv', Stm
  PROVE  CInv'
  <1>0. cs # <<>> /\ Head(cs) = "Stm" BY DEF Stm, Plain, At
  <1>1. CASE curr \in {"while", "for", "foreach", "if", "switch", "{", "continue", "break",
                       "return", "loop"}
    <2>1. "Block" \in Free BY ZenonT(60), FreeGoals DEF Goals, Bound, Marks
    <2>2. Calls("Stm", <<"Block">>) BY <2>1, Tuple1, FreeCalls
    <2>3. \E r : Take(r) /\ Calls("Stm", r)
      <3>1. curr = "while" => Take(Cond \o <<"Stm">>) BY DEF Stm, Plain
      <3>2. curr = "for" => Take(<<"(", "ForInit", "ForCond", "ForLast", "Stm">>)
        BY DEF Stm, Plain
      <3>3. curr = "foreach" => Take(<<"Names", "in", "Expr", "Factory", "Stm">>)
        BY DEF Stm, Plain
      <3>4. curr = "if" => Take(Cond \o <<"Stm", "Else">>) BY DEF Stm, Plain
      <3>5. curr = "switch" => Take(Cond \o <<"{", "First", "Cases">>) BY DEF Stm, Plain
      <3>6. curr = "{" => Take(<<"Block">>) BY DEF Stm, Plain
      <3>7. curr \in {"continue", "break"} => Take(<<";", "Leave">>) BY DEF Stm, Plain
      <3>8. curr = "return" => Take(<<"Return">>) BY DEF Stm, Plain
      <3>9. curr = "loop" => Take(<<"Stm">>) BY DEF Stm, Plain
      <3>. QED
        BY <1>1, <2>2, <3>1, <3>2, <3>3, <3>4, <3>5, <3>6, <3>7, <3>8, <3>9,
           StatementsCalls
    <2>4. PICK r : Take(r) /\ Calls("Stm", r) BY <2>3
    <2>. QED BY <1>0, <1>1, <2>4, EasyTake
  <1>2. CASE curr = ";"
    <2>1. Take(<<>>) BY <1>2 DEF Stm, Plain
    <2>2. Behind(Head(cs)) \subseteq Calm BY <1>0 DEF Behind, Calm
    <2>. QED BY <1>0, <2>1, <2>2, TakeEnd
  <1>3. CASE curr \notin {"while", "for", "foreach", "if", "switch", "{", "continue", "break",
                          "return", "loop", ";"}
    <2>. DEFINE r == <<"Exprstm", ";">>
    <2>1. Go(r) BY <1>3 DEF Stm, Plain
    <2>2. r # <<>> /\ r[1] = "Exprstm" /\ 1 \in 1 .. Len(r) OBVIOUS
    <2>3. Calls(Head(cs), r) BY <1>0, StatementsCalls
    <2>. HIDE DEF r
    <2>4. "Stm" \in Calm /\ "Exprstm" \in Aims(curr) BY DEF Calm, Aims
    <2>5. /\ curr' = curr /\ Head(cs') = "Exprstm" /\ DecStart' = DecStart
          /\ r \in Seq(Words) /\ cs' = r \o Tail(cs)
      BY <1>0, <2>1, <2>2, <2>3, GoHead
    <2>6. Hot => Hot' BY <1>0, <1>3, <2>5 DEF Hot, DecStart, StmStart, Odd, Firsts
    <2>7. \A i \in 1 .. 1 - 1 : r[i] \in Passing OBVIOUS
    <2>8. Aimed(cs)' BY <1>0, <2>2, <2>4, <2>5, <2>7, AimNew DEF CInv
    <2>. QED BY <1>0, <2>1, <2>3, <2>4, <2>6, <2>8, CalmGo
  <1>. QED BY <1>1, <1>2, <1>3

(* The three parts of a for, which take the token behind a semicolon.      *)
LEMMA ForCInv ==
  ASSUME CInv, BInv', "fixed_any" \in Avoid, ForInit \/ ForCond \/ ForLast
  PROVE  CInv'
  <1>f. <<>> \in Seq(Free) BY EmptySeq
  <1>1. ASSUME ForInit PROVE CInv'
    <2>0. cs # <<>> /\ Head(cs) = "ForInit" BY <1>1 DEF ForInit, Plain, At
    <2>1. CASE curr = ";"
      <3>1. Take(<<>>) BY <1>1, <2>1 DEF ForInit, Plain
      <3>2. Behind(Head(cs)) \subseteq Calm \cup {"ForCond", "ForLast"}
        BY <2>0 DEF Behind
      <3>. QED BY <2>0, <3>1, <3>2, TakeEnd
    <2>2. CASE curr = "var"
      <3>1. Take(<<"ForVardec">>) BY <1>1, <2>2 DEF ForInit, Plain
      <3>. QED BY <2>0, <2>2, <3>1, StatementsCalls, EasyTake
    <2>3. CASE curr = "fixed"
      <3>. DEFINE r == <<"FixedDec">>
      <3>1. Take(r) BY <1>1, <2>3 DEF ForInit, Plain
      <3>2. "FixedDec" \in Words BY FreeGoals DEF Bound
      <3>3. r \in Seq(Words) BY <3>2, Tuple1
      <3>4. r[Len(r)] = "FixedDec" OBVIOUS
      <3>5. Behind(Head(cs)) \subseteq Behind(r[Len(r)]) BY <2>0, <3>4 DEF Behind
      <3>6. Head(cs) \notin {"id", "Named"} BY <2>0
      <3>. QED BY <2>0, <2>3, <3>1, <3>3, <3>5, <3>6, TakeFixed
    <2>4. CASE curr \notin {";", "var", "fixed"}
      <3>1. Go(<<"Exprstm", ";">>) BY <1>1, <2>4 DEF ForInit, Plain
      <3>2. Acts(<<"Exprstm", ";">>, FALSE, FALSE) BY <3>1 DEF Go, Acts
      <3>3. Steps(<<"Exprstm", ";">>, FALSE, FALSE)
        BY <2>0, <3>2, StatementsCalls DEF Steps
      <3>4. Head(cs) \notin Marked BY <2>0 DEF Marked, Calm, Passing, AllAims, Aims
      <3>. QED BY <2>0, <3>3, <3>4, DullStep
    <2>. QED BY <2>1, <2>2, <2>3, <2>4
  <1>2. ASSUME ForCond PROVE CInv'
    <2>0. cs # <<>> /\ Head(cs) = "ForCond" BY <1>2 DEF ForCond, Plain, At
    <2>1. CASE curr = ";"
      <3>1. Take(<<>>) BY <1>2, <2>1 DEF ForCond, Plain, Match
      <3>2. Behind(Head(cs)) \subseteq Calm \cup {"ForCond", "ForLast"}
        BY <2>0 DEF Behind
      <3>. QED BY <2>0, <3>1, <3>2, TakeEnd
    <2>2. CASE curr # ";"
      <3>. DEFINE r == <<"Expr", ";">>
      <3>1. Acts(r, FALSE, FALSE) BY <1>2, <2>2 DEF ForCond, Plain, Match, Go, Acts
      <3>2. Calls(Head(cs), r) BY <2>0, StatementsCalls
      <3>3. "Expr" \in Passing /\ ";" \in Passing BY DEF Passing
      <3>4. r \in Seq(Passing) BY <3>3, Tuple2
      <3>5. Len(r) = 2 /\ r[1] = "Expr" OBVIOUS
      <3>. HIDE DEF r
      <3>6. Steps(r, FALSE, FALSE) BY <2>0, <3>1, <3>2 DEF Steps
      <3>7. "ForCond" \in Aims(curr) /\ OddToken => r[1] \in Aims(curr) /\ 1 \in 1 .. Len(r)
        BY <3>5 DEF Aims
      <3>8. "ForCond" \in Passing /\ ~Hot BY <2>0, HotHead DEF Passing
      <3>. QED BY <2>0, <3>4, <3>6, <3>7, <3>8, PassGo
    <2>. QED BY <2>1, <2>2
  <1>3. ASSUME ForLast PROVE CInv'
    <2>0. cs # <<>> /\ Head(cs) = "ForLast" BY <1>3 DEF ForLast, Plain, At
    <2>1. CASE curr = ")"
      <3>1. Take(<<>>) BY <1>3, <2>1 DEF ForLast, Plain, Match
      <3>2. Calls(Head(cs), <<>>) BY <1>f, FreeCalls
      <3>. QED BY <2>0, <2>1, <3>1, <3>2, EasyTake
    <2>2. CASE curr # ")"
      <3>. DEFINE r == <<"Exprstm", ")">>
      <3>0. "Exprstm" \in Free /\ ")" \in Free
        BY ZenonT(60), FreeGoals DEF Goals, Bound, Marks, Brackets
      <3>1. Go(r) BY <1>3, <2>2 DEF ForLast, Plain, Match
      <3>2. Calls(Head(cs), r) BY <3>0, Tuple2, FreeCalls
      <3>3. r # <<>> /\ r[1] = "Exprstm" /\ 1 \in 1 .. Len(r) OBVIOUS
      <3>. HIDE DEF r
      <3>4. Acts(r, FALSE, FALSE) BY <3>1 DEF Go, Acts
      <3>5. Steps(r, FALSE, FALSE) BY <2>0, <3>2, <3>4 DEF Steps
      <3>6. ~Hot /\ Head(cs) \notin Calm BY <2>0, HotHead DEF Calm
      <3>7. curr' = curr /\ r \in Seq(Words) /\ cs' = r \o Tail(cs)
        BY <2>0, <3>1, <3>2, GoHead
      <3>8. \A i \in 1 .. 1 - 1 : r[i] \in Passing OBVIOUS
      <3>9. "Exprstm" \in Aims(curr) BY DEF Aims
      <3>10. Aimed(cs)' BY <2>0, <3>3, <3>7, <3>8, <3>9, AimNew DEF CInv
      <3>. QED BY <2>0, <3>5, <3>6, <3>10, GoKeeps
    <2>. QED BY <2>1, <2>2
  <1>. QED BY <1>1, <1>2, <1>3

(* exprstm takes what is left of an odd token's expression.                *)
LEMMA ExprstmCInv ==
  ASSUME CInv, BInv', Exprstm
  PROVE  CInv'
  <1>. DEFINE r == <<"Suffixed", "Assign">>
  <1>0. cs # <<>> /\ Head(cs) = "Exprstm" /\ Go(r) BY DEF Exprstm, Plain, At
  <1>1. "Suffixed" \in Free /\ "Assign" \in Free
    BY ZenonT(60), FreeGoals DEF Goals, Bound, Marks
  <1>2. Calls(Head(cs), r) BY <1>1, Tuple2, FreeCalls
  <1>3. r # <<>> /\ r[1] = "Suffixed" /\ r[2] = "Assign" /\ 1 \in 1 .. Len(r)
        /\ 2 \in 1 .. Len(r)
    OBVIOUS
  <1>. HIDE DEF r
  <1>4. Acts(r, FALSE, FALSE) BY <1>0 DEF Go, Acts
  <1>5. Steps(r, FALSE, FALSE) BY <1>0, <1>2, <1>4 DEF Steps
  <1>6. Head(cs) \notin Calm BY <1>0 DEF Calm
  <1>7. curr' = curr /\ r \in Seq(Words) /\ cs' = r \o Tail(cs)
        /\ Head(cs') = "Suffixed" /\ DecStart' = DecStart
    BY <1>0, <1>2, <1>3, GoHead
  <1>8. Hot => Hot' BY <1>0, <1>7 DEF Hot
  <1>9. ASSUME OddToken PROVE Aimed(cs)'
    <2>1. CASE curr \in {".", "["}
      <3>1. "Suffixed" \in Aims(curr) BY <2>1 DEF Aims
      <3>2. \A i \in 1 .. 1 - 1 : r[i] \in Passing OBVIOUS
      <3>. QED BY <1>0, <1>3, <1>7, <3>1, <3>2, AimNew DEF CInv
    <2>2. CASE curr \notin {".", "["}
      <3>1. "Assign" \in Aims(curr) /\ "Suffixed" \in Passing BY <2>2 DEF Aims, Passing
      <3>2. \A i \in 1 .. 2 - 1 : r[i] \in Passing BY <1>3, <3>1
      <3>. QED BY <1>0, <1>3, <1>7, <3>1, <3>2, AimNew DEF CInv
    <2>. QED BY <2>1, <2>2
  <1>. QED BY <1>0, <1>5, <1>6, <1>8, <1>9, GoKeeps

(* So does an assignment.                                                  *)
LEMMA AssignCInv ==
  ASSUME CInv, BInv', Assign \/ Targets
  PROVE  CInv'
  <1>f. <<>> \in Seq(Free) /\ <<>> \in Seq(Passing) BY EmptySeq
  <1>e. Calls(Head(cs), <<>>) BY <1>f, FreeCalls
  <1>g. /\ "Targets" \in Free /\ "=" \in Free /\ "Explist" \in Free
        /\ "Suffixed" \in Free /\ "Target" \in Free
    BY ZenonT(60), FreeGoals DEF Goals, Bound, Marks
  <1>1. ASSUME Assign PROVE CInv'
    <2>0. cs # <<>> /\ Head(cs) = "Assign" BY <1>1 DEF Assign, Plain, At
    <2>a. ~Hot /\ Head(cs) \notin Calm BY <2>0, HotHead DEF Calm
    <2>1. CASE curr \in {"=", ","}
      <3>. DEFINE r == <<"Targets", "=", "Explist">>
      <3>1. Acts(r, FALSE, et # "var") /\ Complain(r, et # "var")
        BY <1>1, <2>1 DEF Assign, Plain, Acts
      <3>2. Calls(Head(cs), r) BY <1>g, Tuple3, FreeCalls
      <3>3. r[1] = "Targets" /\ r[2] = "=" /\ 1 \in 1 .. Len(r) /\ 2 \in 1 .. Len(r) OBVIOUS
      <3>. HIDE DEF r
      <3>4. Steps(r, FALSE, et # "var") BY <2>0, <3>1, <3>2 DEF Steps
      <3>5. curr' = curr /\ r \in Seq(Words) /\ cs' = r \o Tail(cs)
        BY <3>1, <3>2 DEF Complain, Calls, Fits
      <3>6. Aimed(cs)'
        <4>1. CASE curr = ","
          <5>1. "Targets" \in Aims(curr) BY <4>1 DEF Aims
          <5>2. \A i \in 1 .. 1 - 1 : r[i] \in Passing OBVIOUS
          <5>. QED BY <2>0, <3>3, <3>5, <5>1, <5>2, AimNew DEF CInv
        <4>2. CASE curr = "="
          <5>1. "=" \in Aims(curr) /\ "Targets" \in Passing BY <4>2 DEF Aims, Passing
          <5>2. \A i \in 1 .. 2 - 1 : r[i] \in Passing BY <3>3, <5>1
          <5>. QED BY <2>0, <3>3, <3>5, <5>1, <5>2, AimNew DEF CInv
        <4>. QED BY <2>1, <4>1, <4>2
      <3>. QED BY <2>0, <2>a, <3>4, <3>6, GoKeeps
    <2>2. CASE curr \notin {"=", ","}
      <3>1. Acts(<<>>, FALSE, FALSE) BY <1>1, <2>2 DEF Assign, Plain, Go, Acts
      <3>2. Steps(<<>>, FALSE, FALSE) BY <1>e, <2>0, <3>1 DEF Steps
      <3>3. ASSUME OddToken, Aimed(cs) PROVE FALSE
        <4>1. "Assign" \in Passing \cup Aims(curr) BY <2>0, <3>3, AimedHead DEF CInv
        <4>2. curr \in {".", "["} BY <2>2, <3>3 DEF OddToken, Odd
        <4>. QED BY <4>1, <4>2 DEF Passing, Aims
      <3>. QED BY <2>0, <2>a, <3>2, <3>3, GoKeeps
    <2>. QED BY <2>1, <2>2
  <1>2. ASSUME Targets PROVE CInv'
    <2>0. cs # <<>> /\ Head(cs) = "Targets" BY <1>2 DEF Targets, Plain, At
    <2>1. CASE curr = ","
      <3>1. Take(<<"Suffixed", "Target", "Targets">>)
        BY <1>2, <2>1 DEF Targets, Plain, Match
      <3>2. Calls(Head(cs), <<"Suffixed", "Target", "Targets">>)
        BY <1>g, Tuple3, FreeCalls
      <3>. QED BY <2>0, <2>1, <3>1, <3>2, EasyTake
    <2>2. CASE curr # ","
      <3>1. Acts(<<>>, FALSE, FALSE) BY <1>2, <2>2 DEF Targets, Plain, Match, Go, Acts
      <3>2. Steps(<<>>, FALSE, FALSE) BY <1>e, <2>0, <3>1 DEF Steps
      <3>3. ~("Targets" \in Aims(curr)) BY <2>2 DEF Aims
      <3>4. "Targets" \in Passing /\ ~Hot BY <2>0, HotHead DEF Passing
      <3>. QED BY <2>0, <1>f, <3>2, <3>3, <3>4, PassGo
    <2>. QED BY <2>1, <2>2
  <1>. QED BY <1>1, <1>2

(* The body of a switch, which does not sync.                              *)
LEMMA CasesCInv ==
  ASSUME CInv, BInv', NEW g \in {"Cases", "MoreCases"}, Cases(g)
  PROVE  CInv'
  <1>0. cs # <<>> /\ Head(cs) = g BY DEF Cases, At
  <1>f. <<>> \in Seq(Free) BY EmptySeq
  <1>e. Calls(Head(cs), <<>>) BY <1>f, FreeCalls
  <1>g. g \in Calm /\ "Stm" \in Calm BY DEF Calm
  <1>h. Head(cs) \notin {"Methods", "SubMethods", "id", "Named"} BY <1>0
  <1>i. ~Hot BY <1>0, HotHead
  <1>j. /\ "Cases" \in Free /\ "MoreCases" \in Free /\ "Expr" \in Free /\ "Label" \in Free
        /\ "Twice" \in Free /\ ":" \in Free /\ g \in Free
    BY ZenonT(60), FreeGoals DEF Goals, Bound, Marks
  <1>1. CASE curr = "}"
    <2>1. Take(<<>>) BY <1>1 DEF Cases, Eof
    <2>. QED BY <1>0, <1>1, <1>e, <1>h, <2>1, EasyTake
  <1>2. CASE curr = Eof
    <2>1. Go(<<>>) BY <1>2 DEF Cases, Eof
    <2>2. ~OddToken BY <1>2 DEF OddToken, Odd, Eof
    <2>. QED BY <1>0, <1>e, <1>g, <1>i, <2>1, <2>2, CalmGo
  <1>3. CASE curr = "case"
    <2>1. Take(<<"Expr", ":", "Label", g>>) BY <1>3 DEF Cases, Eof
    <2>2. Calls(Head(cs), <<"Expr", ":", "Label", g>>) BY <1>j, Tuple4, FreeCalls
    <2>. QED BY <1>0, <1>3, <1>h, <2>1, <2>2, EasyTake
  <1>4. CASE curr = "default"
    <2>1. CASE g = "Cases"
      <3>1. Take(<<":", "MoreCases">>) BY <1>4, <2>1 DEF Cases, Eof
      <3>2. Calls(Head(cs), <<":", "MoreCases">>) BY <1>j, Tuple2, FreeCalls
      <3>. QED BY <1>0, <1>4, <1>h, <3>1, <3>2, EasyTake
    <2>2. CASE g # "Cases"
      <3>1. Take(<<"Twice", g>>) BY <1>4, <2>2 DEF Cases, Eof
      <3>2. Calls(Head(cs), <<"Twice", g>>) BY <1>j, Tuple2, FreeCalls
      <3>. QED BY <1>0, <1>4, <1>h, <3>1, <3>2, EasyTake
    <2>. QED BY <2>1, <2>2
  <1>5. CASE curr \notin {"}", Eof, "case", "default"}
    <2>. DEFINE r == <<"Stm", g>>
    <2>1. Go(r) BY <1>5 DEF Cases
    <2>2. Calls(Head(cs), r) BY <1>0, StatementsCalls
    <2>3. r # <<>> /\ r[1] = "Stm" OBVIOUS
    <2>. HIDE DEF r
    <2>. QED BY <1>0, <1>g, <1>i, <2>1, <2>2, <2>3, CalmCalls
  <1>. QED BY <1>1, <1>2, <1>3, <1>4, <1>5

(* Every function that parses a statement keeps CInv.                      *)
LEMMA StatementsCInv ==
  ASSUME CInv, BInv', "fixed_any" \in Avoid, Statements
  PROVE  CInv'
  <1>f. <<>> \in Seq(Free) BY EmptySeq
  <1>e. Calls(Head(cs), <<>>) BY <1>f, FreeCalls
  <1>d. /\ "Factory" \in Dull /\ "Target" \in Dull /\ "First" \in Dull /\ "Label" \in Dull
    BY ZenonT(60) DEF Dull, Goals, Marked, Calm, Passing, AllAims, Aims
  <1>c. /\ "Else" \in Calm /\ "Leave" \in Calm /\ "Block" \in Calm /\ "Stm" \in Calm
        /\ "Dec" \in Calm
    BY DEF Calm
  <1>g. "MoreExp" \in Free /\ "}" \in Free
    BY ZenonT(60), FreeGoals DEF Goals, Bound, Marks, Brackets
  <1>. USE DEF Plain, At
  <1>1. ASSUME Else PROVE CInv'
    <2>0. cs # <<>> /\ Head(cs) = "Else" BY <1>1 DEF Else
    <2>1. CASE curr = "else"
      <3>1. Take(<<"Stm">>) BY <1>1, <2>1 DEF Else, Match
      <3>. QED BY <2>0, <2>1, <3>1, StatementsCalls, EasyTake
    <2>2. CASE curr # "else"
      <3>1. Go(<<>>) BY <1>1, <2>2 DEF Else, Match
      <3>2. cs' = Tail(cs) BY <2>0, <3>1, <1>e, GoHead
      <3>3. cs' # <<>> => Head(cs') \in Calm
        <4>1. cs' # <<>> => Head(cs') \in Behind("Else") BY <2>0, <3>2, Returned
        <4>. QED BY <4>1 DEF Behind, Calm
      <3>4. ~Hot BY <2>0, HotHead
      <3>. QED BY <2>0, <1>c, <1>e, <3>1, <3>3, <3>4, CalmGo
    <2>. QED BY <2>1, <2>2
  <1>2. ASSUME Leave PROVE CInv'
    <2>0. cs # <<>> /\ Head(cs) = "Leave" BY <1>2 DEF Leave
    <2>1. PICK wrong \in BOOLEAN : Complain(<<>>, wrong) BY <1>2 DEF Leave, MayReport
    <2>2. Acts(<<>>, FALSE, wrong) /\ told' = told BY <2>1 DEF Acts, Complain
    <2>3. Steps(<<>>, FALSE, wrong) BY <1>e, <2>0, <2>2 DEF Steps
    <2>4. cs' = Tail(cs)
      <3>1. cs' = <<>> \o Tail(cs) BY <2>2, ActsEffect
      <3>2. Tail(cs) \in Seq(Words) BY <2>0, HeadTailProperties DEF CInv, BInv
      <3>. QED BY <3>1, <3>2, ConcatEmptySeq
    <2>5. cs' # <<>> => Head(cs') \in Calm
      <3>1. cs' # <<>> => Head(cs') \in Behind("Leave") BY <2>0, <2>4, Returned
      <3>. QED BY <3>1 DEF Behind, Calm
    <2>6. ~Hot BY <2>0, HotHead
    <2>7. ~(OddToken /\ Aimed(cs)) BY <1>c, <2>0, CalmAimed
    <2>. QED BY <2>0, <2>2, <2>3, <2>5, <2>6, <2>7, GoKeeps
  <1>3. ASSUME Block PROVE CInv'
    <2>0. cs # <<>> /\ Head(cs) = "Block" BY <1>3 DEF Block
    <2>1. CASE BlockOver
      <3>1. Go(<<"}">>) BY <1>3, <2>1 DEF Block, BlockEnd
      <3>2. Calls(Head(cs), <<"}">>) BY <1>g, Tuple1, FreeCalls
      <3>3. curr \notin DecStart /\ curr \notin Odd
        BY <2>1 DEF BlockOver, Eof, DecStart, StmStart, Odd
      <3>4. ~Hot /\ ~OddToken BY <2>0, <3>3 DEF Hot, OddToken
      <3>. QED BY <2>0, <1>c, <3>1, <3>2, <3>4, CalmGo
    <2>2. CASE ~BlockOver
      <3>. DEFINE r == <<"Dec", "Block">>
      <3>1. Go(r) BY <1>3, <2>2 DEF Block
      <3>2. r # <<>> /\ r[1] = "Dec" OBVIOUS
      <3>3. Calls(Head(cs), r) BY <2>0, DeclarationsCalls
      <3>. HIDE DEF r
      <3>4. curr' = curr /\ Head(cs') = "Dec" /\ DecStart' = DecStart
        BY <2>0, <3>1, <3>2, <3>3, GoHead
      <3>5. Hot => Hot' BY <2>0, <3>4 DEF Hot
      <3>. QED BY <2>0, <1>c, <3>1, <3>2, <3>3, <3>5, CalmCalls
    <2>. QED BY <2>1, <2>2
  <1>4. ASSUME Return PROVE CInv'
    <2>0. cs # <<>> /\ Head(cs) = "Return" BY <1>4 DEF Return
    <2>1. CASE curr = ";"
      <3>1. Take(<<>>) BY <1>4, <2>1 DEF Return
      <3>2. Behind(Head(cs)) \subseteq Calm BY <2>0 DEF Behind, Calm
      <3>. QED BY <2>0, <3>1, <3>2, TakeEnd
    <2>2. CASE curr # ";"
      <3>1. PICK wrong \in {FALSE, InClass} : Complain(<<"Explist", ";">>, wrong)
        BY <1>4, <2>2 DEF Return
      <3>2. wrong \in BOOLEAN BY DEF InClass
      <3>3. Acts(<<"Explist", ";">>, FALSE, wrong) BY <3>1, <3>2 DEF Acts
      <3>4. Steps(<<"Explist", ";">>, FALSE, wrong)
        BY <2>0, <3>3, StatementsCalls DEF Steps
      <3>5. Head(cs) \notin Marked BY <2>0 DEF Marked, Calm, Passing, AllAims, Aims
      <3>. QED BY <2>0, <3>4, <3>5, DullStep
    <2>. QED BY <2>1, <2>2
  <1>5. ASSUME Factory PROVE CInv'
    <2>1. <<"MoreExp">> \in Seq(Free) BY <1>g, Tuple1
    <2>2. (et = "const") \in BOOLEAN OBVIOUS
    <2>. QED BY <1>5, <1>d, <2>1, <2>2, DullComplain DEF Factory
  <1>6. ASSUME Target PROVE CInv'
    <2>1. (et # "var") \in BOOLEAN OBVIOUS
    <2>. QED BY <1>6, <1>d, <1>f, <2>1, DullComplain DEF Target
  <1>7. ASSUME Label PROVE CInv'
    BY <1>7, <1>d, <1>f, DullComplain DEF Label, MayReport
  <1>8. ASSUME First PROVE CInv'
    <2>0. cs # <<>> /\ Head(cs) = "First" BY <1>8 DEF First
    <2>1. PICK wrong \in BOOLEAN : Do(<<>>, FALSE, wrong) BY <1>8 DEF First
    <2>2. Acts(<<>>, FALSE, wrong) BY <2>1 DEF Acts
    <2>. QED BY <2>0, <2>2, <1>d, <1>f, DullFree
  <1>. QED
    BY <1>1, <1>2, <1>3, <1>4, <1>5, <1>6, <1>7, <1>8, StmCInv, ForCInv, ExprstmCInv,
       AssignCInv, CasesCInv DEF Statements

(* compile begins with nothing called but itself.                          *)
LEMMA InitCInv == ASSUME Init PROVE CInv
  <1>1. cs = <<"Script">> /\ ~semi /\ ~told /\ ~again BY DEF Init
  <1>2. Len(cs) = 1 /\ cs[1] = "Script" BY <1>1
  <1>3. \A i \in 1 .. Len(cs) : i = 1 BY ONLY <1>2
  <1>4. Grammar(cs) BY <1>2 DEF Grammar
  <1>5. ClassTop /\ FixedVar BY <1>2, <1>3 DEF ClassTop, FixedVar
  <1>6. OddShape /\ ~Live /\ NoCascade BY <1>1 DEF OddShape, OddToken, Live, NoCascade
  <1>. QED BY <1>4, <1>5, <1>6, InitBInv DEF CInv

(* Every step keeps CInv.                                                  *)
LEMMA NextCInv ==
  ASSUME "fixed_any" \in Avoid, CInv, [Next]_vars
  PROVE  CInv'
  <1>1. BInv' BY NextBInv DEF CInv
  <1>2. CASE Next
    BY <1>1, <1>2, ExpectCInv, ExpressionsCInv, DeclarationsCInv, StatementsCInv DEF Next
  <1>3. CASE UNCHANGED vars
    <2>1. UNCHANGED <<cs, curr, semi, panic, told, again>> BY <1>3 DEF vars
    <2>2. DecStart' = DecStart
      BY <2>1 DEF DecStart, StmStart, InClass, InSubclass
    <2>3. Grammar(cs)' /\ ClassTop' /\ FixedVar'
      BY <2>1 DEF CInv, Grammar, ClassTop, FixedVar
    <2>4. OddShape' BY <2>1 DEF CInv, OddShape, OddToken, Aimed
    <2>5. (Live => Hot)' BY <2>1, <2>2 DEF CInv, Live, Hot
    <2>6. NoCascade' BY <2>1 DEF CInv, NoCascade
    <2>. QED BY <1>1, <2>3, <2>4, <2>5, <2>6 DEF CInv
  <1>. QED BY <1>2, <1>3

(* NoCascade in every behaviour of the parser, for any tokens and any text,*)
(* wherever only var is written behind fixed: one mistake, one message.    *)
THEOREM OneMistakeOneMessage == "fixed_any" \in Avoid => (Spec => []NoCascade)
  <1>. SUFFICES ASSUME "fixed_any" \in Avoid PROVE Spec => []NoCascade OBVIOUS
  <1>1. Init => CInv BY InitCInv
  <1>2. CInv /\ [Next]_vars => CInv' BY NextCInv
  <1>3. CInv => NoCascade BY DEF CInv
  <1>. QED BY <1>1, <1>2, <1>3, PTL DEF Spec
=============================================================================
