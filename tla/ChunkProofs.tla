---------------------------- MODULE ChunkProofs -----------------------------
(***************************************************************************)
(* What the compiler writes into a chunk: the line table and the jumps.    *)
(*                                                                         *)
(* LinesRight, for every sequence of writes and deletions.  What makes it  *)
(* inductive is that the pairs' lines never exceed the compiler's: a write *)
(* that adds no pair is on the line of the last one, and that pair points  *)
(* at the new byte or in front of it unless the write is one of those that *)
(* SameLine admits.                                                        *)
(*                                                                         *)
(* AllPatched and NoStalePatch, for every function, however long and deep. *)
(* An instruction is patched from a note of where it is, in the locals of  *)
(* a C function or in a list of breaks.  What is inductive ties the three  *)
(* stacks together: each list of breaks and each scope belongs to one of   *)
(* the C functions that run, in their order.  Then every open jump is noted*)
(* (Noted), and every note is of a jump that lies in front of all code that*)
(* can be deleted before it is patched (Stands).                           *)
(***************************************************************************)
EXTENDS LineTable, Statements, SequenceFacts

(* Index i is found, in pair j, with the line it was written for.          *)
FoundAt(j, i) == Finds(j, i) /\ lines[j].line = written[i + 1]
AllFound == \A i \in 0 .. CodeLen - 1 : \E j \in DOMAIN lines : FoundAt(j, i)
PairsPassed == lines # <<>> => LastPair.line <= prevline
LInv == TableTypeOK /\ AllFound /\ PairsPassed

(* At most one pair is the one found.                                      *)
LEMMA FindsUnique ==
  ASSUME TableTypeOK, NEW i \in Int, NEW j \in DOMAIN lines, NEW k \in DOMAIN lines,
         Finds(j, i), Finds(k, i)
  PROVE  j = k
  <1>t. /\ lines \in Seq([at : Nat, line : Nat])
        /\ j \in 1 .. Len(lines) /\ k \in 1 .. Len(lines)
        /\ lines[j].at \in Nat /\ lines[k].at \in Nat
    <2>1. lines \in Seq([at : Nat, line : Nat]) BY DEF TableTypeOK
    <2>2. DOMAIN lines = 1 .. Len(lines) BY <2>1
    <2>3. \A m \in 1 .. Len(lines) : lines[m] \in [at : Nat, line : Nat]
      BY <2>1, ElementOfSeq
    <2>. QED BY <2>1, <2>2, <2>3
  <1>1. ~(j < k) /\ ~(k < j) BY <1>t DEF Finds
  <1>2. j \in Int /\ k \in Int BY <1>t
  <1>. QED BY <1>1, <1>2

(* When every byte is found somewhere, getline finds it.                   *)
LEMMA FoundIsRight == LInv => LinesRight
  <1>. SUFFICES ASSUME LInv, NEW i \in 0 .. CodeLen - 1
                PROVE  /\ \E j \in DOMAIN lines : Finds(j, i)
                       /\ Getline(i) = written[i + 1]
    BY DEF LinesRight
  <1>1. PICK j \in DOMAIN lines : FoundAt(j, i) BY DEF LInv, AllFound
  <1>2. i \in Int BY DEF LInv, TableTypeOK, CodeLen
  <1>3. \A k \in DOMAIN lines : Finds(k, i) => k = j
    BY <1>1, <1>2, FindsUnique DEF LInv, FoundAt
  <1>4. (CHOOSE k \in DOMAIN lines : Finds(k, i)) = j BY <1>1, <1>3 DEF FoundAt
  <1>. QED BY <1>1, <1>4 DEF Getline, FoundAt

(* The last pair, if there is one.                                         *)
LEMMA LastPairType ==
  ASSUME TableTypeOK, lines # <<>>
  PROVE  LastPair.at \in Nat /\ LastPair.line \in Nat
  <1>1. Len(lines) \in 1 .. Len(lines) BY DEF TableTypeOK
  <1>2. LastPair \in [at : Nat, line : Nat] BY <1>1, ElementOfSeq DEF TableTypeOK, LastPair
  <1>. QED BY <1>2

(* A new byte: either the last pair is for its line and not behind it, or  *)
(* there is a new pair, which hides no pair from the bytes in front of it. *)
LEMMA WriteKeeps ==
  ASSUME LInv, ~SameLine, NEW l \in Nat, Write(l)
  PROVE  LInv'
  <1>. USE DEF TableTypeOK, CodeLen, LastPair
  <1>t. TableTypeOK BY DEF LInv
  <1>1. /\ written' = Append(written, l) /\ Len(written') = Len(written) + 1
        /\ prevline' = l /\ l >= prevline
        /\ written'[Len(written) + 1] = l
        /\ \A i \in 1 .. Len(written) : written'[i] = written[i]
    BY <1>t DEF Write
  <1>2. CASE NewPair(l)
    <2>1. /\ lines' = Append(lines, [at |-> Len(written), line |-> l])
          /\ Len(lines') = Len(lines) + 1
          /\ lines'[Len(lines) + 1] = [at |-> Len(written), line |-> l]
          /\ \A j \in 1 .. Len(lines) : lines'[j] = lines[j]
      BY <1>t, <1>2 DEF Write
    <2>2. TableTypeOK' BY <1>t, <1>1, <2>1
    <2>3. PairsPassed' BY <1>t, <1>1, <2>1 DEF PairsPassed
    <2>4. AllFound'
      <3>. SUFFICES ASSUME NEW i \in 0 .. Len(written)
                    PROVE  \E j \in DOMAIN lines' : FoundAt(j, i)'
        BY <1>t, <1>1 DEF AllFound
      <3>1. CASE i = Len(written)
        <4>1. PICK m \in Nat : m = Len(lines) + 1 BY <1>t
        <4>2. m \in DOMAIN lines' /\ \A k \in DOMAIN lines' : k <= m
          BY <1>t, <2>1, <4>1
        <4>3. FoundAt(m, i)' BY <1>t, <1>1, <2>1, <3>1, <4>1, <4>2 DEF FoundAt, Finds
        <4>. QED BY <4>2, <4>3
      <3>2. CASE i # Len(written)
        <4>1. i \in 0 .. CodeLen - 1 BY <3>2, <1>t
        <4>2. PICK j \in DOMAIN lines : FoundAt(j, i) BY <4>1 DEF LInv, AllFound
        <4>3. j \in 1 .. Len(lines) /\ i + 1 \in 1 .. Len(written) BY <1>t, <4>1
        <4>4. j \in DOMAIN lines' /\ lines'[j] = lines[j] BY <1>t, <2>1, <4>3
        <4>5. \A k \in DOMAIN lines' : k > j => lines'[k].at > i
          <5>0. DOMAIN lines' = 1 .. Len(lines) + 1 BY <1>t, <2>1
          <5>. SUFFICES ASSUME NEW k \in DOMAIN lines', k > j PROVE lines'[k].at > i
            OBVIOUS
          <5>1. CASE k \in 1 .. Len(lines) BY SMTT(60), <5>1, <1>t, <2>1, <4>2 DEF FoundAt, Finds
          <5>2. CASE k = Len(lines) + 1 BY <5>2, <1>t, <2>1, <4>1
          <5>. QED BY <5>0, <5>1, <5>2, <1>t
        <4>6. FoundAt(j, i)' BY <1>1, <4>2, <4>3, <4>4, <4>5 DEF FoundAt, Finds
        <4>. QED BY <4>4, <4>6
      <3>. QED BY <3>1, <3>2
    <2>. QED BY <2>2, <2>3, <2>4 DEF LInv
  <1>3. CASE ~NewPair(l)
    <2>1. lines' = lines /\ lines # <<>> /\ l <= LastPair.line
      BY <1>t, <1>3, LastPairType DEF Write, NewPair
    <2>l. LastPair.at \in Nat /\ LastPair.line \in Nat BY <1>t, <2>1, LastPairType
    <2>2. LastPair.line = l BY <1>t, <1>1, <2>1, <2>l DEF LInv, PairsPassed
    <2>3. LastPair.at <= Len(written) BY <1>t, <2>1, <2>2, <2>l DEF Write, Stale
    <2>4. TableTypeOK' BY <1>t, <1>1, <2>1
    <2>5. PairsPassed' BY <1>t, <1>1, <2>1, <2>2 DEF PairsPassed
    <2>6. AllFound'
      <3>. SUFFICES ASSUME NEW i \in 0 .. Len(written)
                    PROVE  \E j \in DOMAIN lines : FoundAt(j, i)'
        BY <1>t, <1>1, <2>1 DEF AllFound
      <3>1. CASE i = Len(written)
        <4>1. PICK m \in Nat : m = Len(lines) BY <1>t
        <4>2. m \in DOMAIN lines /\ \A k \in DOMAIN lines : k <= m
          BY <1>t, <2>1, <4>1
        <4>3. FoundAt(m, i)' BY <1>t, <1>1, <2>1, <2>2, <2>3, <3>1, <4>1, <4>2 DEF FoundAt, Finds
        <4>. QED BY <4>2, <4>3
      <3>2. CASE i # Len(written)
        <4>1. i \in 0 .. CodeLen - 1 BY <3>2, <1>t
        <4>2. PICK j \in DOMAIN lines : FoundAt(j, i) BY <4>1 DEF LInv, AllFound
        <4>3. FoundAt(j, i)' BY <1>t, <1>1, <2>1, <4>1, <4>2 DEF FoundAt, Finds
        <4>. QED BY <4>3
      <3>. QED BY <3>1, <3>2
    <2>. QED BY <2>4, <2>5, <2>6 DEF LInv
  <1>. QED BY <1>2, <1>3

(* Deleting bytes leaves the search for the others as it was.              *)
LEMMA TrimKeeps ==
  ASSUME LInv, NEW n \in Nat, Trim(n)
  PROVE  LInv'
  <1>. USE DEF TableTypeOK, CodeLen, LastPair
  <1>t. TableTypeOK BY DEF LInv
  <1>1. /\ lines' = lines /\ prevline' = prevline /\ n < Len(written)
        /\ written' = SubSeq(written, 1, n)
    BY DEF Trim
  <1>2. /\ written' \in Seq(Nat) /\ Len(written') = n
        /\ \A i \in 1 .. n : written'[i] = written[i]
    BY <1>t, <1>1
  <1>3. AllFound'
    <2>. SUFFICES ASSUME NEW i \in 0 .. n - 1
                  PROVE  \E j \in DOMAIN lines : FoundAt(j, i)'
      BY <1>1, <1>2 DEF AllFound
    <2>0. i \in 0 .. Len(written) - 1 BY <1>t, <1>1
    <2>1. PICK j \in DOMAIN lines : FoundAt(j, i) BY <2>0 DEF LInv, AllFound
    <2>2. FoundAt(j, i)' BY <1>1, <1>2, <2>1 DEF FoundAt, Finds
    <2>. QED BY <2>2
  <1>4. PairsPassed' BY <1>1 DEF LInv, PairsPassed
  <1>. QED BY <1>t, <1>1, <1>2, <1>3, <1>4 DEF LInv

(* Every instruction keeps the line it was written for, unless code is     *)
(* written on the line of a pair that points behind it.                    *)
THEOREM LinesAlwaysRight == ASSUME ~SameLine PROVE TableSpec => []LinesRight
  <1>1. TableInit => LInv
    BY DEF TableInit, LInv, TableTypeOK, AllFound, PairsPassed, CodeLen
  <1>2. LInv /\ [TableNext]_tvars => LInv'
    <2>. SUFFICES ASSUME LInv, [TableNext]_tvars PROVE LInv'
      OBVIOUS
    <2>1. CASE \E l \in Nat : Write(l) BY <2>1, WriteKeeps
    <2>2. CASE \E n \in Nat : Trim(n) BY <2>2, TrimKeeps
    <2>3. CASE UNCHANGED tvars
      BY <2>3 DEF tvars, LInv, TableTypeOK, AllFound, PairsPassed, FoundAt, Finds,
                  CodeLen, LastPair
    <2>. QED BY <2>1, <2>2, <2>3 DEF TableNext
  <1>. QED BY <1>1, <1>2, FoundIsRight, PTL DEF TableSpec
(***************************************************************************)
(* The jumps of a function.  Which instructions the compiler means to      *)
(* patch is noted in two places: the C functions that run (cs) note a jump *)
(* each, and each list of breaks belongs to one of the loops and switches  *)
(* among them, in order.  Code is deleted down to where one of these began.*)
(***************************************************************************)
BreakStms == Loops \cup {"switch"}
ScopeStms == BreakStms \cup {"block"}

IsCode(c) == \E X : c \in Seq([op : X, n : X, to : X])
(* Instruction i still goes nowhere.                                       *)
Open(c, i) == c[i].op \in {"jif", "break"} /\ c[i].to = 0
(* Code c becomes d: nothing of it is lost, the jumps S are patched, and of*)
(* the new instructions only those at N are open.                          *)
Changes(c, d, S, N) ==
  /\ IsCode(d) /\ Len(c) <= Len(d)
  /\ \A i \in 1 .. Len(c) : /\ d[i].op = c[i].op
                            /\ Open(d, i) => Open(c, i) /\ i \notin S
  /\ \A i \in Len(c) + 1 .. Len(d) : Open(d, i) => i \in N

(* The instructions of code are numbered from 1.                           *)
LEMMA CodeFacts ==
  ASSUME NEW c, IsCode(c)
  PROVE  Len(c) \in Nat /\ DOMAIN c = 1 .. Len(c)
  BY LenProperties DEF IsCode

(* Code over some values is code over more.                                *)
LEMMA CodeWiden ==
  ASSUME NEW X, NEW Y, NEW c \in Seq([op : X, n : X, to : X]), X \subseteq Y
  PROVE  c \in Seq([op : Y, n : Y, to : Y])
  <1>1. Len(c) \in Nat /\ c \in [1 .. Len(c) -> [op : X, n : X, to : X]] BY LenProperties
  <1>. DEFINE R == [op : Y, n : Y, to : Y]
  <1>2. c \in [1 .. Len(c) -> R] BY <1>1
  <1>. HIDE DEF R
  <1>3. c \in Seq(R) BY <1>1, <1>2, FunctionSeq
  <1>. QED BY <1>3 DEF R

(* One instruction is code.                                                *)
LEMMA OneInstruction ==
  ASSUME NEW a, NEW b, NEW t
  PROVE  IsCode(<<[op |-> a, n |-> b, to |-> t]>>)
  <1>1. <<[op |-> a, n |-> b, to |-> t]>> \in Seq([op : {a, b, t}, n : {a, b, t}, to : {a, b, t}])
    OBVIOUS
  <1>. QED BY <1>1 DEF IsCode

(* Two pieces of code one behind the other.                                *)
LEMMA CodeJoined ==
  ASSUME NEW c, NEW d, IsCode(c), IsCode(d)
  PROVE  /\ IsCode(c \o d) /\ Len(c \o d) = Len(c) + Len(d)
         /\ \A i \in 1 .. Len(c) : (c \o d)[i] = c[i]
         /\ \A j \in 1 .. Len(d) : (c \o d)[Len(c) + j] = d[j]
  <1>1. PICK X : c \in Seq([op : X, n : X, to : X]) BY DEF IsCode
  <1>2. PICK Y : d \in Seq([op : Y, n : Y, to : Y]) BY DEF IsCode
  <1>. DEFINE Z == X \cup Y
              R == [op : Z, n : Z, to : Z]
  <1>3. c \in Seq(R) BY <1>1, CodeWiden
  <1>4. d \in Seq(R) BY <1>2, CodeWiden
  <1>5. /\ c \o d \in Seq(R) /\ Len(c \o d) = Len(c) + Len(d)
        /\ \A i \in 1 .. Len(c) : (c \o d)[i] = c[i]
        /\ \A j \in 1 .. Len(d) : (c \o d)[Len(c) + j] = d[j]
    <2>. HIDE DEF R
    <2>. QED BY <1>3, <1>4, Joined
  <1>. QED BY <1>5 DEF IsCode

(* An instruction appended is a piece of one joined.                       *)
LEMMA CodeAppended ==
  ASSUME NEW c, IsCode(c), NEW a, NEW b, NEW t
  PROVE  LET e == [op |-> a, n |-> b, to |-> t]
         IN  Append(c, e) = c \o <<e>>
  <1>. DEFINE e == [op |-> a, n |-> b, to |-> t]
  <1>1. PICK X : c \in Seq([op : X, n : X, to : X]) BY DEF IsCode
  <1>. DEFINE Z == X \cup {a, b, t}
              R == [op : Z, n : Z, to : Z]
  <1>2. c \in Seq(R) BY <1>1, CodeWiden
  <1>3. e \in R OBVIOUS
  <1>. HIDE DEF R, e
  <1>4. Append(c, e) = c \o <<e>> BY <1>2, <1>3, AppendIsConcat
  <1>. QED BY <1>4 DEF e

(* patchjmp and patchbreaklist change only where the jumps go.             *)
LEMMA CodePatched ==
  ASSUME NEW c, IsCode(c), NEW S
  PROVE  /\ IsCode(Patch(c, S)) /\ Len(Patch(c, S)) = Len(c)
         /\ \A i \in 1 .. Len(c) :
              /\ Patch(c, S)[i].op = c[i].op
              /\ Patch(c, S)[i].to = IF i \in S THEN Len(c) + 1 ELSE c[i].to
  <1>1. PICK X : c \in Seq([op : X, n : X, to : X]) BY DEF IsCode
  <1>2. Len(c) \in Nat /\ DOMAIN c = 1 .. Len(c)
        /\ \A i \in 1 .. Len(c) : c[i] \in [op : X, n : X, to : X]
    BY <1>1, LenProperties, ElementOfSeq
  <1>. DEFINE Z == X \cup {Len(c) + 1}
              R == [op : Z, n : Z, to : Z]
              p == Patch(c, S)
  <1>3. \A i \in 1 .. Len(c) :
          /\ p[i] \in R /\ p[i].op = c[i].op
          /\ p[i].to = IF i \in S THEN Len(c) + 1 ELSE c[i].to
    BY <1>2 DEF Patch
  <1>4. p \in [1 .. Len(c) -> R]
    <2>1. p = [i \in 1 .. Len(c) |-> p[i]] BY <1>2 DEF Patch
    <2>. HIDE DEF p, R
    <2>. QED BY <2>1, <1>3
  <1>5. p \in Seq(R) /\ Len(p) = Len(c)
    <2>. HIDE DEF p, R
    <2>. QED BY <1>2, <1>4, FunctionSeq
  <1>. QED BY <1>3, <1>5 DEF IsCode

(* The code restorecontext keeps.                                          *)
LEMMA CodeCut ==
  ASSUME NEW c, IsCode(c), NEW n \in 0 .. Len(c)
  PROVE  /\ IsCode(SubSeq(c, 1, n)) /\ Len(SubSeq(c, 1, n)) = n
         /\ \A i \in 1 .. n : SubSeq(c, 1, n)[i] = c[i]
  BY Prefix DEF IsCode

(* Nothing, some code behind it, patches, and one after the other.         *)
LEMMA NoChange ==
  ASSUME NEW c, IsCode(c), NEW N
  PROVE  Changes(c, c, {}, N)
  BY CodeFacts DEF Changes

(* Code behind code changes nothing of what is there.                      *)
LEMMA JoinChanges ==
  ASSUME NEW c, NEW d, IsCode(c), IsCode(d), NEW N,
         \A i \in 1 .. Len(d) : Open(d, i) => Len(c) + i \in N
  PROVE  Changes(c, c \o d, {}, N)
  <1>1. Len(c) \in Nat /\ Len(d) \in Nat BY CodeFacts
  <1>2. /\ IsCode(c \o d) /\ Len(c \o d) = Len(c) + Len(d)
        /\ \A i \in 1 .. Len(c) : (c \o d)[i] = c[i]
        /\ \A j \in 1 .. Len(d) : (c \o d)[Len(c) + j] = d[j]
    BY CodeJoined
  <1>3. ASSUME NEW i \in Len(c) + 1 .. Len(c \o d), Open(c \o d, i) PROVE i \in N
    <2>1. i - Len(c) \in 1 .. Len(d) /\ i = Len(c) + (i - Len(c)) BY <1>1, <1>2
    <2>2. Open(d, i - Len(c)) BY <1>2, <1>3, <2>1 DEF Open
    <2>. QED BY <2>1, <2>2
  <1>. QED BY <1>1, <1>2, <1>3 DEF Changes, Open

(* A patch closes the jumps it patches.                                    *)
LEMMA PatchChanges ==
  ASSUME NEW c, IsCode(c), NEW S, NEW N
  PROVE  Changes(c, Patch(c, S), S, N)
  <1>1. Len(c) \in Nat BY CodeFacts
  <1>2. /\ IsCode(Patch(c, S)) /\ Len(Patch(c, S)) = Len(c)
        /\ \A i \in 1 .. Len(c) :
              /\ Patch(c, S)[i].op = c[i].op
              /\ Patch(c, S)[i].to = IF i \in S THEN Len(c) + 1 ELSE c[i].to
    BY CodePatched
  <1>. QED BY <1>1, <1>2 DEF Changes, Open

(* One change after another.                                               *)
LEMMA ChangesTwice ==
  ASSUME NEW c, NEW d, NEW e, NEW S, NEW T, NEW N, NEW U, NEW M, IsCode(c),
         Changes(c, d, S, N), Changes(d, e, T, M), U \subseteq S \cup T
  PROVE  Changes(c, e, U, N \cup M)
  <1>1. Len(c) \in Nat /\ Len(d) \in Nat /\ Len(e) \in Nat BY CodeFacts DEF Changes
  <1>2. Len(c) <= Len(d) /\ Len(d) <= Len(e) BY DEF Changes
  <1>3. ASSUME NEW i \in 1 .. Len(c)
        PROVE  e[i].op = c[i].op /\ (Open(e, i) => Open(c, i) /\ i \notin U)
    <2>1. i \in 1 .. Len(d) BY <1>1, <1>2
    <2>. QED BY <2>1 DEF Changes
  <1>4. ASSUME NEW i \in Len(c) + 1 .. Len(e), Open(e, i) PROVE i \in N \cup M
    <2>1. CASE i <= Len(d)
      <3>1. i \in 1 .. Len(d) /\ i \in Len(c) + 1 .. Len(d) BY <2>1, <1>1
      <3>. QED BY <3>1, <1>4 DEF Changes
    <2>2. CASE ~(i <= Len(d))
      <3>1. i \in Len(d) + 1 .. Len(e) BY <2>2, <1>1
      <3>. QED BY <3>1, <1>4 DEF Changes
    <2>. QED BY <2>1, <2>2
  <1>5. IsCode(e) /\ Len(c) <= Len(e) BY <1>1, <1>2 DEF Changes
  <1>. QED BY <1>3, <1>4, <1>5 DEF Changes

(* The frame of a C function, and the jump it notes.                       *)
FrameOK(f) ==
  \E X : \/ f \in [stm : {"block"}]
         \/ f \in [stm : {"if"}, branch : X, cond : X, jump : Nat, saved : Nat, locals : X]
         \/ /\ f \in [stm : Loops, cond : X, lstart : X, ldepth : X, saved : Nat,
                      jump : Nat, var : X]
            /\ f.stm = "loop" => f.jump = 0
         \/ /\ f \in [stm : {"switch"}, state : X, patch : Nat, dflt : X, matched : X,
                      saved : Nat, locals : X]
            /\ f.state = "case" => f.patch > f.saved
Note(f) == IF f.stm = "block" THEN {}
           ELSE IF f.stm = "switch" THEN IF f.state = "case" THEN {f.patch} ELSE {}
           ELSE IF f.cond # "false" THEN {f.jump} \ {0} ELSE {}

(* g counts, from lo to hi, the frames of s that are of the kinds K.       *)
Counts(g, lo, hi, s, K) ==
  /\ g \in [lo .. hi -> 1 .. Len(s)]
  /\ \A k, m \in lo .. hi : k < m => g[k] < g[m]
  /\ \A j \in 1 .. Len(s) : s[j].stm \in K <=> \E k \in lo .. hi : g[k] = j
More(g, lo, hi, x) == [k \in lo .. hi + 1 |-> IF k <= hi THEN g[k] ELSE x]
Less(g, lo, hi)    == [k \in lo .. hi - 1 |-> g[k]]

(* The frames of stack s, begun at code of length n; the break lists b and *)
(* the scopes sc that go with them.                                        *)
Stack(s, n) ==
  /\ \E S : s \in Seq(S)
  /\ \A j \in 1 .. Len(s) : /\ FrameOK(s[j])
                            /\ s[j].stm # "block" => s[j].saved <= n
  /\ \A i, j \in 1 .. Len(s) :
       i < j /\ s[i].stm # "block" /\ s[j].stm # "block" => s[i].saved <= s[j].saved
Lists(g, s, b) ==
  /\ b \in Seq(Seq(Nat)) /\ Counts(g, 1, Len(b), s, BreakStms)
  /\ \A k \in 1 .. Len(b) : \A e \in ToSet(b[k]) : e > s[g[k]].saved
Opened(q, s, sc) ==
  /\ (\E S : sc \in Seq(S)) /\ sc # <<>> /\ Counts(q, 2, Len(sc), s, ScopeStms)
  /\ \A m \in 1 .. Len(sc) : sc[m].isloop \/ sc[m].isswitch =>
                               m # 1 /\ s[q[m]].stm \in BreakStms

(* What every frame has, and where the jump it notes may be.               *)
LEMMA FrameFacts ==
  ASSUME NEW f, FrameOK(f)
  PROVE  /\ f.stm \in ScopeStms \cup {"if"}
         /\ f.stm # "block" => f.saved \in Nat
         /\ Note(f) \subseteq Nat
         /\ f.stm = "switch" => \A p \in Note(f) : p > f.saved
         /\ f.stm \in Loops \cup {"if"} => Note(f) \subseteq {f.jump}
         /\ f.stm = "loop" => Note(f) = {}
  <1>1. PICK X :
         \/ f \in [stm : {"block"}]
         \/ f \in [stm : {"if"}, branch : X, cond : X, jump : Nat, saved : Nat, locals : X]
         \/ /\ f \in [stm : Loops, cond : X, lstart : X, ldepth : X, saved : Nat,
                      jump : Nat, var : X]
            /\ f.stm = "loop" => f.jump = 0
         \/ /\ f \in [stm : {"switch"}, state : X, patch : Nat, dflt : X, matched : X,
                      saved : Nat, locals : X]
            /\ f.state = "case" => f.patch > f.saved
    BY DEF FrameOK
  <1>2. CASE f \in [stm : {"block"}] BY <1>2 DEF Note, ScopeStms, Loops
  <1>3. CASE f \in [stm : {"if"}, branch : X, cond : X, jump : Nat, saved : Nat, locals : X]
    BY <1>3 DEF Note, Loops
  <1>4. CASE /\ f \in [stm : Loops, cond : X, lstart : X, ldepth : X, saved : Nat,
                       jump : Nat, var : X]
             /\ f.stm = "loop" => f.jump = 0
    BY <1>4 DEF Note, ScopeStms, BreakStms, Loops
  <1>5. CASE /\ f \in [stm : {"switch"}, state : X, patch : Nat, dflt : X, matched : X,
                       saved : Nat, locals : X]
             /\ f.state = "case" => f.patch > f.saved
    BY <1>5 DEF Note, ScopeStms, BreakStms, Loops
  <1>. QED BY <1>1, <1>2, <1>3, <1>4, <1>5

(* A frame more.                                                           *)
LEMMA OneMore ==
  ASSUME NEW S, NEW s \in Seq(S), NEW f
  PROVE  /\ Append(s, f) \in Seq(S \cup {f}) /\ Len(Append(s, f)) = Len(s) + 1
         /\ Append(s, f)[Len(s) + 1] = f
         /\ \A j \in 1 .. Len(s) : Append(s, f)[j] = s[j]
         /\ Len(s) \in Nat
  <1>1. Len(s) \in Nat /\ s \in [1 .. Len(s) -> S] BY LenProperties
  <1>2. s \in [1 .. Len(s) -> S \cup {f}] BY <1>1
  <1>3. s \in Seq(S \cup {f}) BY <1>1, <1>2, FunctionSeq
  <1>. QED BY <1>1, <1>3, AppendProperties

(* Counting goes on with a frame of the kinds counted pushed,              *)
LEMMA CountMore ==
  ASSUME NEW g, NEW lo \in Nat, NEW hi \in Int, lo <= hi + 1, NEW S, NEW s \in Seq(S),
         NEW K, NEW f, f.stm \in K, Counts(g, lo, hi, s, K)
  PROVE  LET h == More(g, lo, hi, Len(s) + 1)
         IN  /\ Counts(h, lo, hi + 1, Append(s, f), K)
             /\ \A k \in lo .. hi : h[k] = g[k] /\ h[k] \in 1 .. Len(s)
             /\ h[hi + 1] = Len(s) + 1
  <1>. DEFINE h == More(g, lo, hi, Len(s) + 1)
              t == Append(s, f)
  <1>1. /\ Len(t) = Len(s) + 1 /\ t[Len(s) + 1] = f /\ Len(s) \in Nat
        /\ \A j \in 1 .. Len(s) : t[j] = s[j]
    BY OneMore
  <1>2. /\ g \in [lo .. hi -> 1 .. Len(s)]
        /\ \A k, m \in lo .. hi : k < m => g[k] < g[m]
        /\ \A j \in 1 .. Len(s) : s[j].stm \in K <=> \E k \in lo .. hi : g[k] = j
    BY DEF Counts
  <1>3. /\ \A k \in lo .. hi : h[k] = g[k] /\ g[k] \in 1 .. Len(s)
        /\ h[hi + 1] = Len(s) + 1 /\ hi + 1 \in lo .. hi + 1
    BY <1>1, <1>2 DEF More
  <1>4. h \in [lo .. hi + 1 -> 1 .. Len(t)]
    <2>1. h = [k \in lo .. hi + 1 |-> h[k]] BY DEF More
    <2>2. ASSUME NEW k \in lo .. hi + 1 PROVE h[k] \in 1 .. Len(t)
      <3>1. k \in lo .. hi \/ k = hi + 1 OBVIOUS
      <3>. HIDE DEF h, t
      <3>. QED BY <3>1, <1>1, <1>3
    <2>. HIDE DEF h, t
    <2>. QED BY <2>1, <2>2
  <1>. HIDE DEF h, t
  <1>5. ASSUME NEW k \in lo .. hi + 1, NEW m \in lo .. hi + 1, k < m PROVE h[k] < h[m]
    <2>1. k \in lo .. hi /\ (m \in lo .. hi \/ m = hi + 1) BY <1>5
    <2>. QED BY <2>1, <1>1, <1>2, <1>3, <1>5
  <1>6. ASSUME NEW j \in 1 .. Len(t)
        PROVE  t[j].stm \in K <=> \E k \in lo .. hi + 1 : h[k] = j
    <2>1. CASE j = Len(s) + 1 BY <2>1, <1>1, <1>3
    <2>2. CASE j # Len(s) + 1
      <3>1. j \in 1 .. Len(s) /\ t[j] = s[j] BY <2>2, <1>1
      <3>2. \A k \in lo .. hi + 1 : h[k] = j <=> k \in lo .. hi /\ g[k] = j
        <4>. TAKE k \in lo .. hi + 1
        <4>1. k \in lo .. hi \/ k = hi + 1 OBVIOUS
        <4>2. k = hi + 1 => k \notin lo .. hi OBVIOUS
        <4>. QED BY <4>1, <4>2, <3>1, <2>2, <1>3
      <3>3. \A k \in lo .. hi : k \in lo .. hi + 1 OBVIOUS
      <3>. QED BY <3>1, <3>2, <3>3, <1>2
    <2>. QED BY <2>1, <2>2
  <1>7. Counts(h, lo, hi + 1, t, K) BY <1>4, <1>5, <1>6 DEF Counts
  <1>. QED BY <1>3, <1>7 DEF h, t

(* with the other frames pushed, popped or exchanged at will,              *)
LEMMA CountSame ==
  ASSUME NEW g, NEW lo \in Nat, NEW hi \in Int, NEW s, NEW t, NEW K,
         Len(s) \in Nat, Len(t) \in Nat,
         \A j \in 1 .. Len(s) : j \in 1 .. Len(t) => (t[j].stm \in K <=> s[j].stm \in K),
         \A j \in Len(t) + 1 .. Len(s) : s[j].stm \notin K,
         \A j \in Len(s) + 1 .. Len(t) : t[j].stm \notin K,
         Counts(g, lo, hi, s, K)
  PROVE  Counts(g, lo, hi, t, K)
  <1>1. /\ g \in [lo .. hi -> 1 .. Len(s)]
        /\ \A k, m \in lo .. hi : k < m => g[k] < g[m]
        /\ \A j \in 1 .. Len(s) : s[j].stm \in K <=> \E k \in lo .. hi : g[k] = j
    BY DEF Counts
  <1>2. ASSUME NEW k \in lo .. hi PROVE g[k] \in 1 .. Len(t)
    <2>1. g[k] \in 1 .. Len(s) /\ s[g[k]].stm \in K BY <1>1
    <2>2. g[k] \notin Len(t) + 1 .. Len(s) BY <2>1
    <2>. QED BY <2>1, <2>2
  <1>3. g \in [lo .. hi -> 1 .. Len(t)] BY <1>1, <1>2
  <1>4. ASSUME NEW j \in 1 .. Len(t)
        PROVE  t[j].stm \in K <=> \E k \in lo .. hi : g[k] = j
    <2>1. CASE j \in 1 .. Len(s) BY <2>1, <1>1
    <2>2. CASE j \notin 1 .. Len(s)
      <3>1. j \in Len(s) + 1 .. Len(t) BY <2>2
      <3>2. \A k \in lo .. hi : g[k] # j BY <1>1, <2>2
      <3>. QED BY <3>1, <3>2
    <2>. QED BY <2>1, <2>2
  <1>. QED BY <1>1, <1>3, <1>4 DEF Counts

(* and with a frame of the kinds counted popped.                           *)
LEMMA CountLess ==
  ASSUME NEW g, NEW lo \in Nat, NEW hi \in Int, NEW S, NEW s \in Seq(S), s # <<>>,
         NEW K, s[Len(s)].stm \in K, Counts(g, lo, hi, s, K)
  PROVE  LET h == Less(g, lo, hi)
         IN  /\ hi \in lo .. hi /\ g[hi] = Len(s)
             /\ Counts(h, lo, hi - 1, Front(s), K)
             /\ \A k \in lo .. hi - 1 : h[k] = g[k] /\ g[k] \in 1 .. Len(s) - 1
  <1>. DEFINE h == Less(g, lo, hi)
              t == Front(s)
  <1>1. /\ Len(s) \in Nat \ {0} /\ Len(t) = Len(s) - 1
        /\ \A i \in 1 .. Len(s) - 1 : t[i] = s[i]
    BY Ends
  <1>2. /\ g \in [lo .. hi -> 1 .. Len(s)]
        /\ \A k, m \in lo .. hi : k < m => g[k] < g[m]
        /\ \A j \in 1 .. Len(s) : s[j].stm \in K <=> \E k \in lo .. hi : g[k] = j
    BY DEF Counts
  <1>3. PICK x \in lo .. hi : g[x] = Len(s)
    <2>1. Len(s) \in 1 .. Len(s) BY <1>1
    <2>. QED BY <2>1, <1>2
  <1>4. hi \in lo .. hi OBVIOUS
  <1>5. ~(x < hi)
    <2>1. \A k \in lo .. hi : g[k] <= Len(s) /\ g[k] \in Int BY <1>1, <1>2
    <2>. QED BY <2>1, <1>2, <1>3, <1>4, <1>1
  <1>6. x = hi BY <1>3, <1>5
  <1>7. ASSUME NEW k \in lo .. hi - 1 PROVE h[k] = g[k] /\ g[k] \in 1 .. Len(s) - 1
    <2>1. k \in lo .. hi /\ k < hi OBVIOUS
    <2>2. g[k] < Len(s) /\ g[k] \in 1 .. Len(s) BY <2>1, <1>2, <1>3, <1>4, <1>6
    <2>. QED BY <2>2, <1>1 DEF Less
  <1>8. h \in [lo .. hi - 1 -> 1 .. Len(t)]
    <2>1. h = [k \in lo .. hi - 1 |-> h[k]] BY DEF Less
    <2>. HIDE DEF h, t
    <2>. QED BY <2>1, <1>1, <1>7
  <1>. HIDE DEF h, t
  <1>9. ASSUME NEW k \in lo .. hi - 1, NEW m \in lo .. hi - 1, k < m PROVE h[k] < h[m]
    <2>1. k \in lo .. hi /\ m \in lo .. hi OBVIOUS
    <2>. QED BY <2>1, <1>2, <1>7, <1>9
  <1>10. ASSUME NEW j \in 1 .. Len(t)
         PROVE  t[j].stm \in K <=> \E k \in lo .. hi - 1 : h[k] = j
    <2>1. j \in 1 .. Len(s) /\ j \in 1 .. Len(s) - 1 /\ j # Len(s) /\ t[j] = s[j] BY <1>1
    <2>2. \A k \in lo .. hi : g[k] = j => k \in lo .. hi - 1
      <3>. TAKE k \in lo .. hi
      <3>1. k = hi \/ k \in lo .. hi - 1 OBVIOUS
      <3>. QED BY <3>1, <2>1, <1>3, <1>6
    <2>3. \A k \in lo .. hi - 1 : k \in lo .. hi OBVIOUS
    <2>. QED BY <2>1, <2>2, <2>3, <1>2, <1>7
  <1>11. Counts(h, lo, hi - 1, t, K) BY <1>8, <1>9, <1>10 DEF Counts
  <1>. QED BY <1>3, <1>4, <1>6, <1>7, <1>11 DEF h, t

(* What a step can do.  Frame f may have the code since its beginning      *)
(* deleted:                                                                *)
Trims(f) == f.stm \in BreakStms \/ (f.stm = "if" /\ f.cond = "false")
AtJump(c, p) == p \in 1 .. Len(c) /\ c[p].op \in JumpOps
(* a C function begins, with frame f,                                      *)
Enters(f) ==
  /\ FrameOK(f) /\ cs' = Append(cs, f)
  /\ Changes(code, code', {}, Note(f))
  /\ f.stm # "block" => Len(code) <= f.saved /\ f.saved <= Len(code')
  /\ \A p \in Note(f) : AtJump(code', p)
  /\ breaks' = IF f.stm \in BreakStms THEN Append(breaks, <<>>) ELSE breaks
  /\ IF f.stm = "if" THEN scopes' = scopes
     ELSE \E x : /\ scopes' = Append(scopes, x)
                 /\ x.isloop \/ x.isswitch => f.stm \in BreakStms
(* goes on, as f,                                                          *)
Deletes == \/ Top.stm \in Loops \cup {"if"} /\ Top.cond = "false"
           \/ Top.stm = "switch" /\ "switch_match" \notin Avoid
GoesOn(f) ==
  /\ cs # <<>> /\ FrameOK(f) /\ cs' = Append(Front(cs), f)
  /\ f.stm = Top.stm /\ f.stm \in {"if", "switch"} /\ f.saved = Top.saved
  /\ f.stm = "if" => f.cond = Top.cond
  /\ \A p \in Note(f) : AtJump(code', p)
  /\ breaks' = breaks /\ scopes' = scopes
  /\ \/ Changes(code, code', Note(Top), Note(f))
     \/ Deletes /\ Note(f) = {} /\ Changes(SavedCode(Top), code', {}, {})
(* or ends,                                                                *)
Ended == (IF Top.stm = "switch" THEN {} ELSE Note(Top))
           \cup (IF Top.stm \in BreakStms THEN ToSet(Last(breaks)) ELSE {})
Leaves ==
  /\ cs # <<>> /\ cs' = Front(cs)
  /\ breaks' = IF Top.stm \in BreakStms THEN Front(breaks) ELSE breaks
  /\ scopes' = IF Top.stm = "if" THEN scopes ELSE Front(scopes)
  /\ "last_case" \in Avoid /\ Top.stm = "switch" => Note(Top) = {}
  /\ \/ Changes(code, code', Ended, {})
     \/ Deletes /\ Top.stm # "switch" /\ Changes(SavedCode(Top), code', {}, {})
(* there is a break,                                                       *)
Breaks ==
  /\ cs' = cs /\ scopes' = scopes /\ breaks # <<>>
  /\ Len(code) < Len(code') /\ Changes(code, code', {}, {Len(code')})
  /\ code'[Len(code')].op \in JumpOps
  /\ breaks' = Append(Front(breaks), Append(Last(breaks), Len(code')))
  /\ "dead_break" \in Avoid =>
       \A i \in 1 .. Len(cs) :
         (\A j \in i .. Len(cs) : cs[j].stm \notin BreakStms) => ~Trims(cs[i])
(* or code without jumps to patch is added.                                *)
Adds == /\ cs' = cs /\ scopes' = scopes /\ breaks' = breaks
        /\ Changes(code, code', {}, {})

Shape == /\ IsCode(code) /\ Stack(cs, Len(code))
         /\ \E g : Lists(g, cs, breaks)
         /\ \E q : Opened(q, cs, scopes)

(* The last frame is one of the stack.                                     *)
LEMMA StackFacts ==
  ASSUME NEW s, NEW n, Stack(s, n)
  PROVE  /\ Len(s) \in Nat
         /\ s # <<>> => /\ Len(s) \in Nat \ {0} /\ Len(s) \in 1 .. Len(s)
                        /\ Last(s) = s[Len(s)] /\ FrameOK(Last(s))
  <1>1. PICK S : s \in Seq(S) BY DEF Stack
  <1>2. Len(s) \in Nat BY <1>1, LenProperties
  <1>3. s # <<>> => Len(s) \in Nat \ {0} /\ Last(s) = s[Len(s)] BY <1>1, Ends
  <1>4. s # <<>> => Len(s) \in 1 .. Len(s) BY <1>3
  <1>. QED BY <1>2, <1>3, <1>4 DEF Stack

(* The stack when a C function begins,                                     *)
LEMMA StackMore ==
  ASSUME NEW s, NEW n \in Nat, NEW m \in Nat, NEW f, Stack(s, n), n <= m, FrameOK(f),
         f.stm # "block" => n <= f.saved /\ f.saved <= m
  PROVE  Stack(Append(s, f), m)
  <1>. DEFINE t == Append(s, f)
  <1>1. PICK S : s \in Seq(S) BY DEF Stack
  <1>2. /\ t \in Seq(S \cup {f}) /\ Len(t) = Len(s) + 1 /\ t[Len(s) + 1] = f
        /\ \A j \in 1 .. Len(s) : t[j] = s[j]
        /\ Len(s) \in Nat
    BY <1>1, OneMore
  <1>. HIDE DEF t
  <1>3. ASSUME NEW j \in 1 .. Len(t)
        PROVE  FrameOK(t[j]) /\ (t[j].stm # "block" => t[j].saved <= m)
    <2>1. CASE j = Len(s) + 1 BY <2>1, <1>2
    <2>2. CASE j # Len(s) + 1
      <3>1. j \in 1 .. Len(s) /\ t[j] = s[j] BY <2>2, <1>2
      <3>2. FrameOK(s[j]) /\ (s[j].stm # "block" => s[j].saved <= n) BY <3>1 DEF Stack
      <3>3. s[j].stm # "block" => s[j].saved \in Nat BY <3>2, FrameFacts
      <3>. QED BY <3>1, <3>2, <3>3
    <2>. QED BY <2>1, <2>2
  <1>4. ASSUME NEW i \in 1 .. Len(t), NEW j \in 1 .. Len(t), i < j,
               t[i].stm # "block", t[j].stm # "block"
        PROVE  t[i].saved <= t[j].saved
    <2>1. i \in 1 .. Len(s) /\ t[i] = s[i] BY <1>2, <1>4
    <2>2. FrameOK(s[i]) /\ s[i].saved <= n BY <2>1, <1>4 DEF Stack
    <2>3. s[i].saved \in Nat /\ t[j].saved \in Nat BY <2>1, <2>2, <1>3, <1>4, FrameFacts
    <2>4. CASE j = Len(s) + 1 BY <2>1, <2>2, <2>3, <2>4, <1>2, <1>4
    <2>5. CASE j # Len(s) + 1
      <3>1. j \in 1 .. Len(s) /\ t[j] = s[j] BY <2>5, <1>2
      <3>. QED BY <3>1, <2>1, <1>4 DEF Stack
    <2>. QED BY <2>4, <2>5
  <1>5. \E U : t \in Seq(U) BY <1>2
  <1>6. Stack(t, m) BY <1>3, <1>4, <1>5 DEF Stack
  <1>. QED BY <1>6 DEF t

(* when the last one returns, though code was deleted down to its start,   *)
LEMMA StackLess ==
  ASSUME NEW s, NEW n \in Nat, NEW m \in Nat, Stack(s, n), s # <<>>,
         n <= m \/ (Last(s).stm # "block" /\ Last(s).saved <= m)
  PROVE  /\ Stack(Front(s), m) /\ Len(Front(s)) = Len(s) - 1
         /\ \A j \in 1 .. Len(s) - 1 : Front(s)[j] = s[j]
  <1>. DEFINE t == Front(s)
  <1>1. PICK S : s \in Seq(S) BY DEF Stack
  <1>2. /\ t \in Seq(S) /\ Len(t) = Len(s) - 1 /\ Len(s) \in Nat \ {0}
        /\ \A j \in 1 .. Len(s) - 1 : t[j] = s[j]
        /\ Last(s) = s[Len(s)]
    BY <1>1, Ends
  <1>. HIDE DEF t
  <1>3. ASSUME NEW j \in 1 .. Len(t)
        PROVE  FrameOK(t[j]) /\ (t[j].stm # "block" => t[j].saved <= m)
    <2>1. /\ j \in 1 .. Len(s) /\ t[j] = s[j] /\ j < Len(s)
          /\ Len(s) \in 1 .. Len(s)
      BY <1>2
    <2>2. FrameOK(s[j]) /\ (s[j].stm # "block" => s[j].saved <= n) BY <2>1 DEF Stack
    <2>3. s[j].stm # "block" => s[j].saved \in Nat BY <2>2, FrameFacts
    <2>4. CASE n <= m BY <2>1, <2>2, <2>3, <2>4
    <2>5. CASE Last(s).stm # "block" /\ Last(s).saved <= m
      <3>1. FrameOK(s[Len(s)]) BY <2>1 DEF Stack
      <3>2. s[Len(s)].saved \in Nat BY <3>1, <2>5, <1>2, FrameFacts
      <3>3. s[j].stm # "block" => s[j].saved <= s[Len(s)].saved
        BY <2>1, <2>5, <1>2 DEF Stack
      <3>. QED BY <3>2, <3>3, <2>1, <2>2, <2>3, <2>5, <1>2
    <2>. QED BY <2>4, <2>5
  <1>4. ASSUME NEW i \in 1 .. Len(t), NEW j \in 1 .. Len(t), i < j,
               t[i].stm # "block", t[j].stm # "block"
        PROVE  t[i].saved <= t[j].saved
    <2>1. i \in 1 .. Len(s) /\ j \in 1 .. Len(s) /\ t[i] = s[i] /\ t[j] = s[j] BY <1>2
    <2>. QED BY <2>1, <1>4 DEF Stack
  <1>5. Stack(t, m) BY <1>2, <1>3, <1>4 DEF Stack
  <1>. QED BY <1>2, <1>5 DEF t

(* when code is added                                                      *)
LEMMA StackGrows ==
  ASSUME NEW s, NEW n \in Nat, NEW m \in Nat, Stack(s, n), n <= m
  PROVE  Stack(s, m)
  <1>1. ASSUME NEW j \in 1 .. Len(s), s[j].stm # "block" PROVE s[j].saved <= m
    <2>1. FrameOK(s[j]) /\ s[j].saved <= n BY <1>1 DEF Stack
    <2>2. s[j].saved \in Nat BY <2>1, <1>1, FrameFacts
    <2>. QED BY <2>1, <2>2
  <1>. QED BY <1>1 DEF Stack

(* and when the last one changes what it notes.                            *)
LEMMA StackOther ==
  ASSUME NEW s, NEW n \in Nat, NEW m \in Nat, NEW f, Stack(s, n), s # <<>>, FrameOK(f),
         f.stm = Last(s).stm, f.stm # "block", f.saved = Last(s).saved, f.saved <= m,
         NEW r, r = Front(s), NEW t, t = Append(r, f)
  PROVE  /\ Stack(t, m) /\ Len(t) = Len(s) /\ t[Len(s)] = f
         /\ \A j \in 1 .. Len(s) - 1 : t[j] = s[j]
  <1>1. PICK S : s \in Seq(S) BY DEF Stack
  <1>2. /\ t \in Seq(S \cup {f}) /\ Len(t) = Len(s) /\ t[Len(s)] = f
        /\ \A j \in 1 .. Len(s) - 1 : t[j] = s[j]
    <2>1. /\ Len(s) \in Nat \ {0} /\ Front(s) \in Seq(S) /\ Len(Front(s)) = Len(s) - 1
          /\ \A i \in 1 .. Len(s) - 1 : Front(s)[i] = s[i]
      BY <1>1, Ends
    <2>. QED BY <2>1, OneMore
  <1>3. f.saved \in Nat BY FrameFacts
  <1>4. Stack(Front(s), f.saved)
    BY <1>3, StackLess
  <1>5. Stack(t, m) BY <1>3, <1>4, StackMore
  <1>. QED BY <1>2, <1>5

(* The jumps of a list with one more.                                      *)
LEMMA ToSetFacts ==
  ASSUME NEW l \in Seq(Nat), NEW e
  PROVE  /\ ToSet(Append(l, e)) = ToSet(l) \cup {e} /\ ToSet(l) \subseteq Nat
  <1>1. /\ Len(Append(l, e)) = Len(l) + 1 /\ Append(l, e)[Len(l) + 1] = e
        /\ \A j \in 1 .. Len(l) : Append(l, e)[j] = l[j]
        /\ Len(l) \in Nat /\ Append(l, e) \in Seq(Nat \cup {e})
    BY OneMore
  <1>2. DOMAIN l = 1 .. Len(l) /\ DOMAIN Append(l, e) = 1 .. Len(l) + 1
    BY <1>1, LenProperties
  <1>3. \A i \in 1 .. Len(l) : l[i] \in Nat BY ElementOfSeq
  <1>. DEFINE t == Append(l, e)
  <1>. HIDE DEF t
  <1>4. ToSet(t) \subseteq ToSet(l) \cup {e}
    <2>. SUFFICES ASSUME NEW i \in 1 .. Len(l) + 1 PROVE t[i] \in ToSet(l) \cup {e}
      BY <1>2 DEF ToSet, t
    <2>1. CASE i = Len(l) + 1 BY <2>1, <1>1 DEF t
    <2>2. CASE i # Len(l) + 1
      <3>1. i \in 1 .. Len(l) BY <2>2, <1>1
      <3>. QED BY <3>1, <1>1, <1>2 DEF ToSet, t
    <2>. QED BY <2>1, <2>2
  <1>5. ToSet(l) \subseteq ToSet(t)
    <2>. SUFFICES ASSUME NEW i \in 1 .. Len(l) PROVE l[i] \in ToSet(t)
      BY <1>2 DEF ToSet
    <2>1. i \in 1 .. Len(l) + 1 /\ t[i] = l[i] BY <1>1 DEF t
    <2>. QED BY <2>1, <1>2 DEF ToSet, t
  <1>6. e \in ToSet(t)
    <2>1. Len(l) + 1 \in 1 .. Len(l) + 1 BY <1>1
    <2>. QED BY <2>1, <1>1, <1>2 DEF ToSet, t
  <1>. QED BY <1>2, <1>3, <1>4, <1>5, <1>6 DEF ToSet, t

(* Frames that are no loops and switches come and go without the lists.    *)
LEMMA ListsKept ==
  ASSUME NEW g, NEW s, NEW t, NEW b, Len(s) \in Nat, Len(t) \in Nat, Lists(g, s, b),
         \A j \in 1 .. Len(s) : j \in 1 .. Len(t) =>
           /\ t[j].stm = s[j].stm
           /\ s[j].stm \in BreakStms => t[j].saved = s[j].saved,
         \A j \in Len(t) + 1 .. Len(s) : s[j].stm \notin BreakStms,
         \A j \in Len(s) + 1 .. Len(t) : t[j].stm \notin BreakStms
  PROVE  Lists(g, t, b)
  <1>1. /\ b \in Seq(Seq(Nat)) /\ Len(b) \in Nat /\ Counts(g, 1, Len(b), s, BreakStms)
        /\ \A k \in 1 .. Len(b) : \A e \in ToSet(b[k]) : e > s[g[k]].saved
    BY LenProperties DEF Lists
  <1>2. Counts(g, 1, Len(b), t, BreakStms) BY <1>1, CountSame
  <1>3. ASSUME NEW k \in 1 .. Len(b)
        PROVE  t[g[k]].saved = s[g[k]].saved
    <2>1. g[k] \in 1 .. Len(s) /\ s[g[k]].stm \in BreakStms BY <1>1 DEF Counts
    <2>2. g[k] \in 1 .. Len(t) BY <1>2 DEF Counts
    <2>. QED BY <2>1, <2>2
  <1>. QED BY <1>1, <1>2, <1>3 DEF Lists

(* Break lists b and owners g, of n frames, with one list more: d and h.   *)
ListAdded(g, b, n, h, d) ==
  /\ Len(d) = Len(b) + 1 /\ Len(b) \in Nat
  /\ \A k \in 1 .. Len(b) : h[k] = g[k] /\ d[k] = b[k]
  /\ h[Len(b) + 1] = n + 1 /\ ToSet(d[Len(b) + 1]) = {}
(* With one list less.                                                     *)
ListGone(g, b, n, h, d) ==
  /\ b # <<>> /\ Len(b) \in Nat \ {0} /\ Last(b) = b[Len(b)]
  /\ g[Len(b)] = n /\ Len(d) = Len(b) - 1
  /\ \A k \in 1 .. Len(b) - 1 : h[k] = g[k] /\ d[k] = b[k] /\ g[k] \in 1 .. n - 1

(* startbreaklist: the new list goes with the frame that starts it.        *)
LEMMA ListsMore ==
  ASSUME NEW g, NEW s, NEW n, NEW b, NEW f, Stack(s, n), Lists(g, s, b), f.stm \in BreakStms,
         NEW t, t = Append(s, f), NEW d, d = Append(b, <<>>)
  PROVE  \E h : Lists(h, t, d) /\ ListAdded(g, b, Len(s), h, d)
  <1>. DEFINE h == More(g, 1, Len(b), Len(s) + 1)
  <1>1. PICK S : s \in Seq(S) BY DEF Stack
  <1>2. /\ b \in Seq(Seq(Nat)) /\ Counts(g, 1, Len(b), s, BreakStms)
        /\ \A k \in 1 .. Len(b) : \A e \in ToSet(b[k]) : e > s[g[k]].saved
    BY DEF Lists
  <1>3. <<>> \in Seq(Nat) /\ ToSet(<<>>) = {} BY DEF ToSet
  <1>4. /\ d \in Seq(Seq(Nat)) /\ Len(d) = Len(b) + 1 /\ d[Len(b) + 1] = <<>>
        /\ \A k \in 1 .. Len(b) : d[k] = b[k]
        /\ Len(b) \in Nat
    <2>1. /\ Len(d) = Len(b) + 1 /\ d[Len(b) + 1] = <<>> /\ Len(b) \in Nat
          /\ \A k \in 1 .. Len(b) : d[k] = b[k]
      BY <1>2, OneMore
    <2>2. d \in Seq(Seq(Nat)) BY <1>2, <1>3, AppendProperties
    <2>. QED BY <2>1, <2>2
  <1>5. /\ Counts(h, 1, Len(b) + 1, t, BreakStms)
        /\ \A k \in 1 .. Len(b) : h[k] = g[k] /\ h[k] \in 1 .. Len(s)
        /\ h[Len(b) + 1] = Len(s) + 1
    <2>1. 1 \in Nat /\ Len(b) \in Int /\ 1 <= Len(b) + 1 BY <1>4
    <2>2. Counts(g, 1, Len(b), s, BreakStms) /\ f.stm \in BreakStms BY <1>2
    <2>3. /\ Counts(h, 1, Len(b) + 1, Append(s, f), BreakStms)
          /\ \A k \in 1 .. Len(b) : h[k] = g[k] /\ h[k] \in 1 .. Len(s)
          /\ h[Len(b) + 1] = Len(s) + 1
      BY ONLY <2>1, <2>2, <1>1, CountMore
    <2>. HIDE DEF h
    <2>. QED BY ONLY <2>3, t = Append(s, f), Zenon
  <1>6. \A j \in 1 .. Len(s) : t[j] = s[j] BY <1>1, OneMore
  <1>. HIDE DEF h
  <1>7. ASSUME NEW k \in 1 .. Len(d), NEW e \in ToSet(d[k]) PROVE e > t[h[k]].saved
    <2>1. k # Len(b) + 1 BY <1>3, <1>4, <1>7
    <2>2. k \in 1 .. Len(b) BY <2>1, <1>4
    <2>. QED BY <2>2, <1>2, <1>4, <1>5, <1>6, <1>7
  <1>8. Lists(h, t, d) BY <1>4, <1>5, <1>7 DEF Lists
  <1>. QED BY <1>3, <1>4, <1>5, <1>8 DEF ListAdded

(* endbreaklist: the last list goes with the last frame of its kinds.      *)
LEMMA ListsLess ==
  ASSUME NEW g, NEW s, NEW n, NEW b, Stack(s, n), Lists(g, s, b),
         s # <<>>, Last(s).stm \in BreakStms, NEW t, t = Front(s), NEW d, d = Front(b)
  PROVE  \E h : Lists(h, t, d) /\ ListGone(g, b, Len(s), h, d)
  <1>. DEFINE h == Less(g, 1, Len(b))
  <1>1. PICK S : s \in Seq(S) BY DEF Stack
  <1>2. /\ b \in Seq(Seq(Nat)) /\ Counts(g, 1, Len(b), s, BreakStms)
        /\ \A k \in 1 .. Len(b) : \A e \in ToSet(b[k]) : e > s[g[k]].saved
        /\ Len(b) \in Nat
    BY LenProperties DEF Lists
  <1>3. /\ Last(s) = s[Len(s)]
        /\ \A j \in 1 .. Len(s) - 1 : t[j] = s[j]
    BY <1>1, Ends
  <1>4. /\ Len(b) \in 1 .. Len(b) /\ g[Len(b)] = Len(s)
        /\ Counts(h, 1, Len(b) - 1, t, BreakStms)
        /\ \A k \in 1 .. Len(b) - 1 : h[k] = g[k] /\ g[k] \in 1 .. Len(s) - 1
    BY <1>1, <1>2, <1>3, CountLess, SMTT(40)
  <1>5. b # <<>> BY <1>4
  <1>6. /\ Len(b) \in Nat \ {0} /\ Last(b) = b[Len(b)]
        /\ d \in Seq(Seq(Nat)) /\ Len(d) = Len(b) - 1
        /\ \A k \in 1 .. Len(b) - 1 : d[k] = b[k]
    BY <1>2, <1>5, Ends
  <1>. HIDE DEF h
  <1>7. ASSUME NEW k \in 1 .. Len(d), NEW e \in ToSet(d[k]) PROVE e > t[h[k]].saved
    <2>1. k \in 1 .. Len(b) - 1 /\ k \in 1 .. Len(b) BY <1>6
    <2>. QED BY <2>1, <1>2, <1>3, <1>4, <1>6, <1>7
  <1>8. Lists(h, t, d) BY <1>4, <1>6, <1>7 DEF Lists
  <1>. QED BY <1>4, <1>5, <1>6, <1>8 DEF ListGone

(* A break is noted in the last list.                                      *)
LastGrows(b, d, e) ==
  /\ Len(d) = Len(b) /\ Len(b) \in Nat \ {0}
  /\ \A k \in 1 .. Len(b) - 1 : d[k] = b[k]
  /\ ToSet(d[Len(b)]) = ToSet(b[Len(b)]) \cup {e}

(* breakstm: the break lies behind the start of the list's own frame.      *)
LEMMA ListsBreak ==
  ASSUME NEW g, NEW s, NEW n \in Nat, NEW b, NEW e \in Nat, Stack(s, n), Lists(g, s, b),
         b # <<>>, e > n, NEW r, r = Front(b), NEW l, l = Append(Last(b), e),
         NEW d, d = Append(r, l)
  PROVE  Lists(g, s, d) /\ LastGrows(b, d, e)
  <1>2. /\ b \in Seq(Seq(Nat)) /\ Counts(g, 1, Len(b), s, BreakStms)
        /\ \A k \in 1 .. Len(b) : \A x \in ToSet(b[k]) : x > s[g[k]].saved
        /\ Len(b) \in Nat
    BY LenProperties DEF Lists
  <1>3. /\ Len(b) \in Nat \ {0} /\ Last(b) = b[Len(b)] /\ Last(b) \in Seq(Nat)
        /\ Front(b) \in Seq(Seq(Nat)) /\ Len(Front(b)) = Len(b) - 1
        /\ \A k \in 1 .. Len(b) - 1 : Front(b)[k] = b[k]
    BY <1>2, Ends
  <1>4. Append(Last(b), e) \in Seq(Nat) BY <1>3, AppendProperties
  <1>5. /\ d \in Seq(Seq(Nat)) /\ Len(d) = Len(b) /\ d[Len(b)] = Append(Last(b), e)
        /\ \A k \in 1 .. Len(b) - 1 : d[k] = b[k]
    <2>1. /\ Len(d) = Len(Front(b)) + 1 /\ d[Len(Front(b)) + 1] = Append(Last(b), e)
          /\ \A k \in 1 .. Len(Front(b)) : d[k] = Front(b)[k]
      BY <1>3, OneMore
    <2>2. d \in Seq(Seq(Nat)) BY <1>3, <1>4, AppendProperties
    <2>3. Len(Front(b)) + 1 = Len(b) BY <1>3
    <2>. QED BY <2>1, <2>2, <2>3, <1>3
  <1>6. ToSet(d[Len(b)]) = ToSet(b[Len(b)]) \cup {e} BY <1>3, <1>5, ToSetFacts
  <1>7. ASSUME NEW k \in 1 .. Len(d), NEW x \in ToSet(d[k]) PROVE x > s[g[k]].saved
    <2>1. k \in 1 .. Len(b) BY <1>5
    <2>2. CASE x \in ToSet(b[k]) BY <2>1, <2>2, <1>2
    <2>3. CASE x \notin ToSet(b[k])
      <3>1. x = e
        <4>1. k = Len(b) \/ k \in 1 .. Len(b) - 1 BY <2>1
        <4>. QED BY <4>1, <2>3, <1>5, <1>6, <1>7
      <3>2. g[k] \in 1 .. Len(s) /\ s[g[k]].stm \in BreakStms BY <2>1, <1>2 DEF Counts
      <3>3. s[g[k]].stm # "block" BY <3>2 DEF BreakStms, Loops
      <3>4. FrameOK(s[g[k]]) /\ s[g[k]].saved <= n BY <3>2, <3>3 DEF Stack
      <3>5. s[g[k]].saved \in Nat BY <3>3, <3>4, FrameFacts
      <3>. QED BY <3>1, <3>4, <3>5
    <2>. QED BY <2>2, <2>3
  <1>8. Lists(g, s, d) BY <1>2, <1>5, <1>7 DEF Lists
  <1>. QED BY <1>3, <1>5, <1>6, <1>8 DEF LastGrows

(* The same for the scopes.                                                *)
LEMMA OpenedKept ==
  ASSUME NEW q, NEW s, NEW t, NEW sc, Len(s) \in Nat, Len(t) \in Nat, Opened(q, s, sc),
         \A j \in 1 .. Len(s) : j \in 1 .. Len(t) => t[j].stm = s[j].stm,
         \A j \in Len(t) + 1 .. Len(s) : s[j].stm \notin ScopeStms,
         \A j \in Len(s) + 1 .. Len(t) : t[j].stm \notin ScopeStms
  PROVE  Opened(q, t, sc)
  <1>1. /\ Counts(q, 2, Len(sc), s, ScopeStms)
        /\ \A m \in 1 .. Len(sc) : sc[m].isloop \/ sc[m].isswitch =>
                               m # 1 /\ s[q[m]].stm \in BreakStms
        /\ Len(sc) \in Nat /\ \E S : sc \in Seq(S)
        /\ sc # <<>>
    BY LenProperties DEF Opened
  <1>2. Counts(q, 2, Len(sc), t, ScopeStms) BY <1>1, CountSame
  <1>3. ASSUME NEW m \in 1 .. Len(sc), sc[m].isloop \/ sc[m].isswitch
        PROVE  m # 1 /\ t[q[m]].stm \in BreakStms
    <2>1. m # 1 /\ s[q[m]].stm \in BreakStms BY <1>1, <1>3
    <2>2. m \in 2 .. Len(sc) BY <2>1
    <2>3. q[m] \in 1 .. Len(s) /\ q[m] \in 1 .. Len(t) BY <2>2, <1>1, <1>2 DEF Counts
    <2>. QED BY <2>1, <2>3
  <1>. QED BY <1>1, <1>2, <1>3 DEF Opened

(* startscope goes with its frame too,                                     *)
LEMMA OpenedMore ==
  ASSUME NEW q, NEW s, NEW n, NEW sc, NEW f, NEW x, Stack(s, n), Opened(q, s, sc),
         f.stm \in ScopeStms, x.isloop \/ x.isswitch => f.stm \in BreakStms
  PROVE  \E h : Opened(h, Append(s, f), Append(sc, x))
  <1>. DEFINE h == More(q, 2, Len(sc), Len(s) + 1)
              t == Append(s, f)
              d == Append(sc, x)
  <1>1. PICK S : s \in Seq(S) BY DEF Stack
  <1>2. /\ Counts(q, 2, Len(sc), s, ScopeStms)
        /\ \A m \in 1 .. Len(sc) : sc[m].isloop \/ sc[m].isswitch =>
                               m # 1 /\ s[q[m]].stm \in BreakStms
        /\ sc # <<>>
    BY DEF Opened
  <1>3. PICK U : sc \in Seq(U) BY DEF Opened
  <1>4. /\ d \in Seq(U \cup {x}) /\ Len(d) = Len(sc) + 1 /\ d[Len(sc) + 1] = x
        /\ \A m \in 1 .. Len(sc) : d[m] = sc[m]
        /\ Len(sc) \in Nat /\ Len(sc) # 0
    BY <1>2, <1>3, OneMore, EmptySeq
  <1>5. /\ Counts(h, 2, Len(sc) + 1, t, ScopeStms)
        /\ \A m \in 2 .. Len(sc) : h[m] = q[m] /\ h[m] \in 1 .. Len(s)
        /\ h[Len(sc) + 1] = Len(s) + 1
    BY <1>1, <1>2, <1>4, CountMore
  <1>6. /\ \A j \in 1 .. Len(s) : t[j] = s[j]
        /\ t[Len(s) + 1] = f
    BY <1>1, OneMore
  <1>. HIDE DEF h, t, d
  <1>7. ASSUME NEW m \in 1 .. Len(d), d[m].isloop \/ d[m].isswitch
        PROVE  m # 1 /\ t[h[m]].stm \in BreakStms
    <2>1. CASE m = Len(sc) + 1 BY <2>1, <1>4, <1>5, <1>6, <1>7
    <2>2. CASE m # Len(sc) + 1
      <3>1. m \in 1 .. Len(sc) /\ d[m] = sc[m] BY <2>2, <1>4
      <3>2. m # 1 /\ s[q[m]].stm \in BreakStms BY <3>1, <1>2, <1>7
      <3>3. m \in 2 .. Len(sc) BY <3>1, <3>2
      <3>. QED BY <3>2, <3>3, <1>5, <1>6
    <2>. QED BY <2>1, <2>2
  <1>8. d # <<>> BY <1>4
  <1>9. Opened(h, t, d) BY <1>4, <1>5, <1>7, <1>8 DEF Opened
  <1>. QED BY <1>9 DEF t, d

(* and so does endscope.                                                   *)
LEMMA OpenedLess ==
  ASSUME NEW q, NEW s, NEW n, NEW sc, Stack(s, n), Opened(q, s, sc),
         s # <<>>, Last(s).stm \in ScopeStms
  PROVE  \E h : Opened(h, Front(s), Front(sc))
  <1>. DEFINE h == Less(q, 2, Len(sc))
              t == Front(s)
              d == Front(sc)
  <1>1. PICK S : s \in Seq(S) BY DEF Stack
  <1>2. /\ Counts(q, 2, Len(sc), s, ScopeStms)
        /\ \A m \in 1 .. Len(sc) : sc[m].isloop \/ sc[m].isswitch =>
                               m # 1 /\ s[q[m]].stm \in BreakStms
        /\ sc # <<>>
    BY DEF Opened
  <1>3. PICK U : sc \in Seq(U) BY DEF Opened
  <1>4. /\ d \in Seq(U) /\ Len(d) = Len(sc) - 1 /\ Len(sc) \in Nat \ {0}
        /\ \A m \in 1 .. Len(sc) - 1 : d[m] = sc[m]
    BY <1>2, <1>3, Ends
  <1>5. /\ Last(s) = s[Len(s)] /\ \A j \in 1 .. Len(s) - 1 : t[j] = s[j]
    BY <1>1, Ends
  <1>6. /\ Len(sc) \in 2 .. Len(sc)
        /\ Counts(h, 2, Len(sc) - 1, t, ScopeStms)
        /\ \A m \in 2 .. Len(sc) - 1 : h[m] = q[m] /\ q[m] \in 1 .. Len(s) - 1
    <2>1. 2 \in Nat /\ Len(sc) \in Int BY <1>4
    <2>2. Counts(q, 2, Len(sc), s, ScopeStms) /\ s[Len(s)].stm \in ScopeStms /\ s # <<>>
      BY <1>2, <1>5
    <2>. HIDE DEF d
    <2>. QED BY ONLY <2>1, <2>2, <1>1, CountLess
  <1>. HIDE DEF h, t, d
  <1>7. ASSUME NEW m \in 1 .. Len(d), d[m].isloop \/ d[m].isswitch
        PROVE  m # 1 /\ t[h[m]].stm \in BreakStms
    <2>1. m \in 1 .. Len(sc) /\ d[m] = sc[m] BY <1>4
    <2>2. m # 1 /\ s[q[m]].stm \in BreakStms BY <2>1, <1>2, <1>7
    <2>3. m \in 2 .. Len(sc) - 1 BY <2>2, <1>4
    <2>. QED BY <2>2, <2>3, <1>5, <1>6
  <1>8. d # <<>> BY <1>4, <1>6
  <1>9. Opened(h, t, d) BY <1>4, <1>6, <1>7, <1>8 DEF Opened
  <1>. QED BY <1>9 DEF t, d

(* What waits to be patched; every open jump does, and what waits is a jump*)
(* that no deletion takes away before it is patched.                       *)
Waits(s, b, i) == \/ \E j \in 1 .. Len(s) : i \in Note(s[j])
                  \/ \E k \in 1 .. Len(b) : i \in ToSet(b[k])
Noted(c, s, b) == \A i \in 1 .. Len(c) : Open(c, i) => Waits(s, b, i)
Stands(g, c, s, b) ==
  /\ \A j \in 1 .. Len(s) : \A p \in Note(s[j]) :
       /\ AtJump(c, p)
       /\ \A i \in j + 1 .. Len(s) : s[i].stm # "block" => p <= s[i].saved
  /\ \A k \in 1 .. Len(b) : \A e \in ToSet(b[k]) :
       /\ AtJump(c, e)
       /\ \A j \in g[k] + 1 .. Len(s) : Trims(s[j]) => e <= s[j].saved

(* A jump stays one when code is added, or deleted behind it.              *)
LEMMA AtJumpStays ==
  ASSUME NEW c, NEW d, NEW S, NEW N, NEW p, IsCode(c), Changes(c, d, S, N), AtJump(c, p)
  PROVE  AtJump(d, p)
  <1>1. Len(c) \in Nat /\ Len(d) \in Nat /\ Len(c) <= Len(d) BY CodeFacts DEF Changes
  <1>. QED BY <1>1 DEF Changes, AtJump

(* The code down to where the last frame began.                            *)
LEMMA SavedFacts ==
  ASSUME Shape, cs # <<>>, Top.stm # "block"
  PROVE  /\ Top.saved \in Nat /\ Top.saved <= Len(code)
         /\ IsCode(SavedCode(Top)) /\ Len(SavedCode(Top)) = Top.saved
         /\ \A i \in 1 .. Top.saved : SavedCode(Top)[i] = code[i]
  <1>1. /\ Len(cs) \in Nat \ {0} /\ Len(cs) \in 1 .. Len(cs) /\ Top = cs[Len(cs)]
        /\ FrameOK(Top)
    BY StackFacts DEF Shape, Top
  <1>2. Top.saved <= Len(code) BY <1>1 DEF Shape, Stack
  <1>3. Top.saved \in Nat BY <1>1, FrameFacts
  <1>4. Len(code) \in Nat BY CodeFacts DEF Shape
  <1>5. Top.saved \in 0 .. Len(code) BY <1>2, <1>3, <1>4
  <1>. QED BY <1>2, <1>3, <1>5, CodeCut DEF Shape, SavedCode

(* Code that was cut down to a frame's start still holds that start.       *)
LEMMA TrimmedFits ==
  ASSUME Shape, cs # <<>>, Deletes, NEW S, NEW N, Changes(SavedCode(Top), code', S, N)
  PROVE  Top.stm # "block" /\ IsCode(code') /\ Top.saved <= Len(code')
  <1>1. Top.stm # "block" BY DEF Deletes, Loops
  <1>. QED BY <1>1, SavedFacts DEF Changes

(* Every kind of step keeps the shape.                                     *)
LEMMA EntersShape ==
  ASSUME Shape, NEW f, Enters(f), NEW g, Lists(g, cs, breaks)
  PROVE  /\ Shape'
         /\ f.stm \notin BreakStms => Lists(g, cs', breaks')
  <1>1. IsCode(code') /\ Len(code) \in Nat /\ Len(code') \in Nat /\ Len(code) <= Len(code')
    BY CodeFacts DEF Shape, Enters, Changes
  <1>2. Stack(cs, Len(code)) /\ Len(cs) \in Nat BY StackFacts DEF Shape
  <1>3. Stack(cs', Len(code')) BY <1>1, <1>2, StackMore DEF Enters
  <1>4. PICK S : cs \in Seq(S) BY DEF Shape, Stack
  <1>5. /\ Len(cs') = Len(cs) + 1 /\ cs'[Len(cs) + 1] = f
        /\ \A j \in 1 .. Len(cs) : cs'[j] = cs[j]
    BY <1>4, OneMore DEF Enters
  <1>6. CASE f.stm \in BreakStms
    <2>1. /\ breaks' = Append(breaks, <<>>) /\ f.stm # "if"
          /\ \E x : scopes' = Append(scopes, x) /\ (x.isloop \/ x.isswitch => f.stm \in BreakStms)
      BY <1>6 DEF Enters, BreakStms, Loops
    <2>2. \E h : Lists(h, cs', breaks')
      <3>1. cs' = Append(cs, f) BY DEF Enters
      <3>. QED BY <3>1, <2>1, <1>2, <1>6, ListsMore, Zenon
    <2>3. f.stm \in ScopeStms BY <1>6 DEF ScopeStms
    <2>4. PICK q : Opened(q, cs, scopes) BY DEF Shape
    <2>5. \E h : Opened(h, cs', scopes') BY <2>1, <2>3, <2>4, <1>2, OpenedMore DEF Enters
    <2>. QED BY <2>2, <2>5, <1>1, <1>3, <1>6 DEF Shape
  <1>7. CASE f.stm \notin BreakStms
    <2>1. breaks' = breaks BY <1>7 DEF Enters
    <2>2. Lists(g, cs', breaks')
      <3>1. Len(cs') \in Nat BY <1>2, <1>5
      <3>2. \A j \in Len(cs') + 1 .. Len(cs) : FALSE BY <1>2, <1>5
      <3>3. \A j \in Len(cs) + 1 .. Len(cs') : cs'[j].stm \notin BreakStms
        BY <1>2, <1>5, <1>7
      <3>. QED BY <3>1, <3>2, <3>3, <2>1, <1>2, <1>5, ListsKept
    <2>3. PICK q : Opened(q, cs, scopes) BY DEF Shape
    <2>4. CASE f.stm = "if"
      <3>1. scopes' = scopes BY <2>4 DEF Enters
      <3>2. f.stm \notin ScopeStms BY <2>4 DEF ScopeStms, BreakStms, Loops
      <3>3. Opened(q, cs', scopes')
        <4>1. Len(cs') \in Nat BY <1>2, <1>5
        <4>2. \A j \in Len(cs') + 1 .. Len(cs) : FALSE BY <1>2, <1>5
        <4>3. \A j \in Len(cs) + 1 .. Len(cs') : cs'[j].stm \notin ScopeStms
          BY <1>2, <1>5, <3>2
        <4>. QED BY <4>1, <4>2, <4>3, <3>1, <2>3, <1>2, <1>5, OpenedKept
      <3>. QED BY <3>3, <2>2, <1>1, <1>3 DEF Shape
    <2>5. CASE f.stm # "if"
      <3>1. f.stm \in ScopeStms BY <2>5, FrameFacts DEF Enters
      <3>2. PICK x : scopes' = Append(scopes, x) /\ (x.isloop \/ x.isswitch => f.stm \in BreakStms)
        BY <2>5 DEF Enters
      <3>3. \E h : Opened(h, cs', scopes') BY <3>1, <3>2, <2>3, <1>2, OpenedMore DEF Enters
      <3>. QED BY <3>3, <2>2, <1>1, <1>3 DEF Shape
    <2>. QED BY <2>4, <2>5, <2>2
  <1>. QED BY <1>6, <1>7

(* The same for a step that goes on as another frame,                      *)
LEMMA GoesOnShape ==
  ASSUME Shape, NEW f, GoesOn(f), NEW g, Lists(g, cs, breaks)
  PROVE  /\ Shape' /\ Lists(g, cs', breaks')
         /\ Len(cs) \in Nat \ {0} /\ Top = cs[Len(cs)] /\ FrameOK(Top)
         /\ Len(cs') = Len(cs) /\ cs'[Len(cs)] = f
         /\ \A j \in 1 .. Len(cs) - 1 : cs'[j] = cs[j]
  <1>1. Stack(cs, Len(code)) /\ IsCode(code) /\ Len(code) \in Nat BY CodeFacts DEF Shape
  <1>2. /\ Len(cs) \in Nat \ {0} /\ Len(cs) \in 1 .. Len(cs) /\ Top = cs[Len(cs)]
        /\ FrameOK(Top) /\ Top = Last(cs)
    BY <1>1, StackFacts DEF GoesOn, Top
  <1>3. f.stm # "block" /\ Top.stm # "block" BY DEF GoesOn
  <1>4. IsCode(code') /\ f.saved <= Len(code')
    <2>1. CASE Changes(code, code', Note(Top), Note(f))
      <3>1. Top.saved \in Nat /\ Top.saved <= Len(code) BY <1>3, SavedFacts DEF GoesOn
      <3>2. IsCode(code') /\ Len(code) <= Len(code') /\ Len(code') \in Nat
        BY <2>1, CodeFacts DEF Changes
      <3>. QED BY <3>1, <3>2, <1>1 DEF GoesOn
    <2>2. CASE Deletes /\ Changes(SavedCode(Top), code', {}, {})
      BY <2>2, TrimmedFits DEF GoesOn
    <2>. QED BY <2>1, <2>2 DEF GoesOn
  <1>5. Len(code') \in Nat BY <1>4, CodeFacts
  <1>6. /\ Stack(cs', Len(code')) /\ Len(cs') = Len(cs) /\ cs'[Len(cs)] = f
        /\ \A j \in 1 .. Len(cs) - 1 : cs'[j] = cs[j]
    <2>0. PICK r : r = Front(cs) OBVIOUS
    <2>1. /\ cs' = Append(r, f) /\ cs # <<>> /\ FrameOK(f)
          /\ f.stm = Last(cs).stm /\ f.saved = Last(cs).saved
      BY <1>2, <2>0 DEF GoesOn
    <2>2. Stack(cs, Len(code)) /\ Len(code) \in Nat /\ Len(code') \in Nat
          /\ f.stm # "block" /\ f.saved <= Len(code')
      BY <1>1, <1>3, <1>4, <1>5
    <2>3. Stack(cs', Len(code')) BY ONLY <2>0, <2>1, <2>2, StackOther
    <2>4. Len(cs') = Len(cs) BY ONLY <2>0, <2>1, <2>2, StackOther
    <2>5. cs'[Len(cs)] = f BY ONLY <2>0, <2>1, <2>2, StackOther
    <2>6. \A j \in 1 .. Len(cs) - 1 : cs'[j] = cs[j] BY ONLY <2>0, <2>1, <2>2, StackOther, SMTT(40)
    <2>. QED BY <2>3, <2>4, <2>5, <2>6
  <1>7. \A j \in 1 .. Len(cs) : cs'[j].stm = cs[j].stm /\ cs'[j].saved = cs[j].saved
    <2>. TAKE j \in 1 .. Len(cs)
    <2>1. CASE j = Len(cs) BY <2>1, <1>2, <1>6 DEF GoesOn
    <2>2. CASE j # Len(cs)
      <3>1. j \in 1 .. Len(cs) - 1 BY <2>2, <1>2
      <3>. QED BY <3>1, <2>2, <1>6
    <2>. QED BY <2>1, <2>2
  <1>8. Lists(g, cs', breaks')
    <2>1. \A j \in Len(cs) + 1 .. Len(cs) : FALSE BY <1>2
    <2>. QED BY <2>1, <1>2, <1>6, <1>7, ListsKept DEF GoesOn
  <1>9. PICK q : Opened(q, cs, scopes) BY DEF Shape
  <1>10. Opened(q, cs', scopes')
    <2>1. \A j \in Len(cs) + 1 .. Len(cs) : FALSE BY <1>2
    <2>. QED BY <2>1, <1>2, <1>6, <1>7, <1>9, OpenedKept DEF GoesOn
  <1>. QED BY <1>2, <1>4, <1>6, <1>8, <1>10 DEF Shape

(* for one that returns,                                                   *)
LEMMA LeavesShape ==
  ASSUME Shape, Leaves, NEW g, Lists(g, cs, breaks)
  PROVE  /\ Shape'
         /\ Top.stm \notin BreakStms => Lists(g, cs', breaks')
         /\ Len(cs) \in Nat \ {0} /\ Top = cs[Len(cs)] /\ FrameOK(Top)
         /\ Len(cs') = Len(cs) - 1
         /\ \A j \in 1 .. Len(cs) - 1 : cs'[j] = cs[j]
  <1>1. Stack(cs, Len(code)) /\ IsCode(code) /\ Len(code) \in Nat BY CodeFacts DEF Shape
  <1>2. /\ Len(cs) \in Nat \ {0} /\ Len(cs) \in 1 .. Len(cs) /\ Top = cs[Len(cs)]
        /\ FrameOK(Top) /\ Top = Last(cs)
    BY <1>1, StackFacts DEF Leaves, Top
  <1>3. /\ IsCode(code')
        /\ Len(code) <= Len(code') \/ (Last(cs).stm # "block" /\ Last(cs).saved <= Len(code'))
    <2>1. CASE Changes(code, code', Ended, {}) BY <2>1 DEF Changes
    <2>2. CASE Deletes /\ Changes(SavedCode(Top), code', {}, {})
      BY <2>2, <1>2, TrimmedFits DEF Leaves
    <2>. QED BY <2>1, <2>2 DEF Leaves
  <1>4. Len(code') \in Nat BY <1>3, CodeFacts
  <1>5. /\ Stack(cs', Len(code')) /\ Len(cs') = Len(cs) - 1
        /\ \A j \in 1 .. Len(cs) - 1 : cs'[j] = cs[j]
    BY <1>1, <1>2, <1>3, <1>4, StackLess DEF Leaves
  <1>6. Len(cs') \in Nat BY <1>2, <1>5
  <1>7. \A j \in Len(cs) + 1 .. Len(cs') : FALSE BY <1>2, <1>5
  <1>8. \A j \in 1 .. Len(cs) : j \in 1 .. Len(cs') => cs'[j] = cs[j] BY <1>2, <1>5
  <1>9. \A j \in Len(cs') + 1 .. Len(cs) : j = Len(cs) BY <1>2, <1>5
  <1>10. /\ Top.stm \notin BreakStms => Lists(g, cs', breaks')
         /\ \E h : Lists(h, cs', breaks')
    <2>1. CASE Top.stm \in BreakStms
      <3>1. breaks' = Front(breaks) BY <2>1 DEF Leaves
      <3>. QED BY <3>1, <2>1, <1>1, <1>2, ListsLess DEF Leaves
    <2>2. CASE Top.stm \notin BreakStms
      <3>1. breaks' = breaks BY <2>2 DEF Leaves
      <3>2. \A j \in Len(cs') + 1 .. Len(cs) : cs[j].stm \notin BreakStms
        BY <2>2, <1>2, <1>9
      <3>3. Lists(g, cs', breaks') BY <3>1, <3>2, <1>2, <1>6, <1>7, <1>8, ListsKept
      <3>. QED BY <3>3
    <2>. QED BY <2>1, <2>2
  <1>11. PICK q : Opened(q, cs, scopes) BY DEF Shape
  <1>12. \E h : Opened(h, cs', scopes')
    <2>1. CASE Top.stm = "if"
      <3>1. scopes' = scopes BY <2>1 DEF Leaves
      <3>2. Top.stm \notin ScopeStms BY <2>1 DEF ScopeStms, BreakStms, Loops
      <3>3. \A j \in Len(cs') + 1 .. Len(cs) : cs[j].stm \notin ScopeStms
        BY <3>2, <1>2, <1>9
      <3>4. Opened(q, cs', scopes') BY <3>1, <3>3, <1>2, <1>6, <1>7, <1>8, <1>11, OpenedKept
      <3>. QED BY <3>4
    <2>2. CASE Top.stm # "if"
      <3>1. scopes' = Front(scopes) BY <2>2 DEF Leaves
      <3>2. Last(cs).stm \in ScopeStms BY <2>2, <1>2, FrameFacts
      <3>. QED BY <3>1, <3>2, <1>1, <1>11, OpenedLess DEF Leaves
    <2>. QED BY <2>1, <2>2
  <1>. QED BY <1>2, <1>3, <1>5, <1>10, <1>12 DEF Shape

(* for a break                                                             *)
LEMMA BreaksShape ==
  ASSUME Shape, Breaks, NEW g, Lists(g, cs, breaks)
  PROVE  Shape' /\ Lists(g, cs', breaks') /\ LastGrows(breaks, breaks', Len(code'))
  <1>1. Stack(cs, Len(code)) /\ IsCode(code) /\ Len(code) \in Nat BY CodeFacts DEF Shape
  <1>2. IsCode(code') /\ Len(code') \in Nat /\ Len(code) < Len(code')
    BY CodeFacts DEF Breaks, Changes
  <1>3. Stack(cs', Len(code'))
    <2>1. Len(code) <= Len(code') BY <1>1, <1>2
    <2>. QED BY <2>1, <1>1, <1>2, StackGrows DEF Breaks
  <1>4. Lists(g, cs', breaks') /\ LastGrows(breaks, breaks', Len(code'))
    <2>0. PICK r : r = Front(breaks) OBVIOUS
    <2>l. PICK l : l = Append(Last(breaks), Len(code')) OBVIOUS
    <2>1. /\ breaks' = Append(r, l)
          /\ cs' = cs /\ breaks # <<>> /\ Len(code') > Len(code)
      BY <1>1, <1>2, <2>0, <2>l DEF Breaks
    <2>2. Lists(g, cs, breaks) OBVIOUS
    <2>3. Stack(cs, Len(code)) /\ Len(code) \in Nat /\ Len(code') \in Nat BY <1>1, <1>2
    <2>4. Lists(g, cs', breaks') BY ONLY <2>0, <2>l, <2>1, <2>2, <2>3, ListsBreak
    <2>5. LastGrows(breaks, breaks', Len(code'))
      BY ONLY <2>0, <2>l, <2>1, <2>2, <2>3, ListsBreak
    <2>. QED BY <2>4, <2>5
  <1>5. \E q : Opened(q, cs', scopes') BY DEF Shape, Breaks
  <1>. QED BY <1>2, <1>3, <1>4, <1>5 DEF Shape

(* and for code without jumps to patch.                                    *)
LEMMA AddsShape ==
  ASSUME Shape, Adds
  PROVE  Shape'
  <1>1. Stack(cs, Len(code)) /\ IsCode(code) /\ Len(code) \in Nat BY CodeFacts DEF Shape
  <1>2. IsCode(code') /\ Len(code') \in Nat /\ Len(code) <= Len(code')
    BY CodeFacts DEF Adds, Changes
  <1>3. Stack(cs', Len(code')) BY <1>1, <1>2, StackGrows DEF Adds
  <1>. QED BY <1>2, <1>3 DEF Shape, Adds

(* An open jump behind a step was open before it and not patched, or is new*)
(* and noted; it was noted before and is so still.                         *)
LEMMA OpenBefore ==
  ASSUME NEW c, NEW d, NEW S, NEW N, IsCode(c), Changes(c, d, S, N),
         NEW i \in 1 .. Len(d), Open(d, i)
  PROVE  \/ i \in N
         \/ i \in 1 .. Len(c) /\ Open(c, i) /\ i \notin S
  <1>1. Len(c) \in Nat /\ Len(d) \in Nat BY CodeFacts DEF Changes
  <1>2. CASE i <= Len(c)
    <2>1. i \in 1 .. Len(c) BY <1>1, <1>2
    <2>. QED BY <2>1 DEF Changes
  <1>3. CASE ~(i <= Len(c))
    <2>1. i \in Len(c) + 1 .. Len(d) BY <1>1, <1>3
    <2>. QED BY <2>1 DEF Changes
  <1>. QED BY <1>2, <1>3

(* The same when code is deleted first.                                    *)
LEMMA OpenInSaved ==
  ASSUME Shape, cs # <<>>, Top.stm # "block", Changes(SavedCode(Top), code', {}, {}),
         NEW i \in 1 .. Len(code'), Open(code', i)
  PROVE  i \in 1 .. Len(code) /\ Open(code, i) /\ i <= Top.saved
  <1>1. /\ Top.saved \in Nat /\ Top.saved <= Len(code)
        /\ IsCode(SavedCode(Top)) /\ Len(SavedCode(Top)) = Top.saved
        /\ \A j \in 1 .. Top.saved : SavedCode(Top)[j] = code[j]
    BY SavedFacts
  <1>2. i \in 1 .. Top.saved /\ Open(SavedCode(Top), i) BY <1>1, OpenBefore
  <1>3. Len(code) \in Nat BY CodeFacts DEF Shape
  <1>. QED BY <1>1, <1>2, <1>3 DEF Open

(* A function that begins notes its open jump.                             *)
LEMMA EntersNoted ==
  ASSUME Shape, NEW f, Enters(f), Noted(code, cs, breaks)
  PROVE  Noted(code', cs', breaks')
  <1>. SUFFICES ASSUME NEW i \in 1 .. Len(code'), Open(code', i)
                PROVE  Waits(cs', breaks', i)
    BY DEF Noted
  <1>1. PICK g : Lists(g, cs, breaks) BY DEF Shape
  <1>2. Stack(cs, Len(code)) /\ IsCode(code) BY DEF Shape
  <1>3. PICK S : cs \in Seq(S) BY <1>2 DEF Stack
  <1>4. /\ Len(cs') = Len(cs) + 1 /\ cs'[Len(cs) + 1] = f /\ Len(cs) \in Nat
        /\ \A j \in 1 .. Len(cs) : cs'[j] = cs[j]
    BY <1>3, OneMore DEF Enters
  <1>5. i \in Note(f) \/ (i \in 1 .. Len(code) /\ Open(code, i))
    BY <1>2, OpenBefore DEF Enters
  <1>6. CASE i \in Note(f)
    <2>1. Len(cs) + 1 \in 1 .. Len(cs') BY <1>4
    <2>. QED BY <2>1, <1>4, <1>6 DEF Waits
  <1>7. CASE i \in 1 .. Len(code) /\ Open(code, i)
    <2>1. Waits(cs, breaks, i) BY <1>7 DEF Noted
    <2>2. CASE \E j \in 1 .. Len(cs) : i \in Note(cs[j])
      <3>1. PICK j \in 1 .. Len(cs) : i \in Note(cs[j]) BY <2>2
      <3>2. j \in 1 .. Len(cs') /\ cs'[j] = cs[j] BY <1>4
      <3>. QED BY <3>1, <3>2 DEF Waits
    <2>3. CASE \E k \in 1 .. Len(breaks) : i \in ToSet(breaks[k])
      <3>1. PICK k \in 1 .. Len(breaks) : i \in ToSet(breaks[k]) BY <2>3
      <3>2. k \in 1 .. Len(breaks') /\ breaks'[k] = breaks[k]
        <4>1. CASE f.stm \in BreakStms
          <5>1. breaks' = Append(breaks, <<>>) BY <4>1 DEF Enters
          <5>2. breaks \in Seq(Seq(Nat)) BY <1>1 DEF Lists
          <5>. QED BY <5>1, <5>2, OneMore
        <4>2. CASE f.stm \notin BreakStms BY <4>2 DEF Enters
        <4>. QED BY <4>1, <4>2
      <3>. QED BY <3>1, <3>2 DEF Waits
    <2>. QED BY <2>1, <2>2, <2>3 DEF Waits
  <1>. QED BY <1>5, <1>6, <1>7

(* One that goes on has patched the jump it noted, or deleted it, and      *)
(* notes the next.                                                         *)
LEMMA GoesOnNoted ==
  ASSUME Shape, NEW f, GoesOn(f), Noted(code, cs, breaks)
  PROVE  Noted(code', cs', breaks')
  <1>. SUFFICES ASSUME NEW i \in 1 .. Len(code'), Open(code', i)
                PROVE  Waits(cs', breaks', i)
    BY DEF Noted
  <1>1. PICK g : Lists(g, cs, breaks) BY DEF Shape
  <1>2. IsCode(code) /\ cs # <<>> /\ breaks' = breaks /\ f.stm = Top.stm
        /\ f.stm # "block"
    BY DEF Shape, GoesOn
  <1>3. /\ Len(cs) \in Nat \ {0} /\ Top = cs[Len(cs)] /\ FrameOK(Top)
        /\ Len(cs') = Len(cs) /\ cs'[Len(cs)] = f
        /\ \A j \in 1 .. Len(cs) - 1 : cs'[j] = cs[j]
    BY <1>1, GoesOnShape
  <1>4. \/ i \in Note(f)
        \/ i \in 1 .. Len(code) /\ Open(code, i) /\ i \notin Note(Top)
    <2>1. CASE Changes(code, code', Note(Top), Note(f)) BY <2>1, <1>2, OpenBefore
    <2>2. CASE Deletes /\ Changes(SavedCode(Top), code', {}, {})
      <3>1. i \in 1 .. Len(code) /\ Open(code, i) /\ i <= Top.saved
        BY <2>2, <1>2, OpenInSaved
      <3>2. i \notin Note(Top)
        <4>1. CASE Top.stm = "switch"
          <5>1. \A p \in Note(Top) : p > Top.saved /\ p \in Nat BY <4>1, <1>3, FrameFacts
          <5>2. Top.saved \in Nat BY <4>1, <1>3, FrameFacts
          <5>. QED BY <5>1, <5>2, <3>1
        <4>2. CASE Top.stm # "switch"
          <5>1. Top.cond = "false" BY <2>2, <4>2 DEF Deletes
          <5>. QED BY <5>1, <4>2, <1>2 DEF Note
        <4>. QED BY <4>1, <4>2
      <3>. QED BY <3>1, <3>2
    <2>. QED BY <2>1, <2>2 DEF GoesOn
  <1>5. CASE i \in Note(f)
    <2>1. Len(cs) \in 1 .. Len(cs') BY <1>3
    <2>. QED BY <2>1, <1>3, <1>5 DEF Waits
  <1>6. CASE i \in 1 .. Len(code) /\ Open(code, i) /\ i \notin Note(Top)
    <2>1. Waits(cs, breaks, i) BY <1>6 DEF Noted
    <2>2. CASE \E j \in 1 .. Len(cs) : i \in Note(cs[j])
      <3>1. PICK j \in 1 .. Len(cs) : i \in Note(cs[j]) BY <2>2
      <3>2. j # Len(cs) BY <3>1, <1>3, <1>6
      <3>3. j \in 1 .. Len(cs) - 1 /\ j \in 1 .. Len(cs') BY <3>2, <1>3
      <3>. QED BY <3>1, <3>3, <1>3 DEF Waits
    <2>3. CASE \E k \in 1 .. Len(breaks) : i \in ToSet(breaks[k])
      BY <2>3, <1>2 DEF Waits
    <2>. QED BY <2>1, <2>2, <2>3 DEF Waits
  <1>. QED BY <1>4, <1>5, <1>6

(* One that returns has patched what it noted and its list, or deleted it. *)
LEMMA LeavesNoted ==
  ASSUME "last_case" \in Avoid, Shape, Leaves, Noted(code, cs, breaks)
  PROVE  Noted(code', cs', breaks')
  <1>. SUFFICES ASSUME NEW i \in 1 .. Len(code'), Open(code', i)
                PROVE  Waits(cs', breaks', i)
    BY DEF Noted
  <1>1. PICK g : Lists(g, cs, breaks) BY DEF Shape
  <1>2. IsCode(code) /\ cs # <<>> /\ Stack(cs, Len(code)) BY DEF Shape, Leaves
  <1>3. /\ Len(cs) \in Nat \ {0} /\ Top = cs[Len(cs)] /\ FrameOK(Top)
        /\ Len(cs') = Len(cs) - 1 /\ Len(cs) \in 1 .. Len(cs)
        /\ \A j \in 1 .. Len(cs) - 1 : cs'[j] = cs[j]
    BY <1>1, LeavesShape
  <1>l. /\ Top = Last(cs)
        /\ Top.stm \in BreakStms => \E h : ListGone(g, breaks, Len(cs), h, breaks')
    <2>1. Top.stm \in BreakStms => breaks' = Front(breaks) BY DEF Leaves
    <2>2. cs' = Front(cs) BY DEF Leaves
    <2>. QED BY <2>1, <2>2, <1>1, <1>2, ListsLess DEF Top
  (* Neither noted by the last frame nor in its list.                      *)
  <1>4. /\ i \in 1 .. Len(code) /\ Open(code, i) /\ i \notin Note(Top)
        /\ Top.stm \in BreakStms => i \notin ToSet(breaks[Len(breaks)])
    <2>1. CASE Changes(code, code', Ended, {})
      <3>1. i \in 1 .. Len(code) /\ Open(code, i) /\ i \notin Ended
        BY <2>1, <1>2, OpenBefore
      <3>2. Top.stm = "switch" => Note(Top) = {} BY DEF Leaves
      <3>. QED BY <3>1, <3>2, <1>l DEF Ended, ListGone
    <2>2. CASE Deletes /\ Top.stm # "switch" /\ Changes(SavedCode(Top), code', {}, {})
      <3>1. Top.cond = "false" /\ Top.stm # "block" BY <2>2 DEF Deletes, Loops
      <3>2. i \in 1 .. Len(code) /\ Open(code, i) /\ i <= Top.saved
        BY <2>2, <3>1, <1>2, OpenInSaved
      <3>3. Note(Top) = {} BY <2>2, <3>1 DEF Note
      <3>4. ASSUME Top.stm \in BreakStms PROVE i \notin ToSet(breaks[Len(breaks)])
        <4>1. Len(breaks) \in 1 .. Len(breaks) /\ g[Len(breaks)] = Len(cs) BY <3>4, <1>l DEF ListGone
        <4>2. \A e \in ToSet(breaks[Len(breaks)]) : e > Top.saved
          BY <4>1, <1>1, <1>3 DEF Lists
        <4>3. Top.saved \in Nat BY <3>1, <1>3, FrameFacts
        <4>. QED BY <4>2, <4>3, <3>2
      <3>. QED BY <3>2, <3>3, <3>4
    <2>. QED BY <2>1, <2>2 DEF Leaves
  <1>5. Waits(cs, breaks, i) BY <1>4 DEF Noted
  <1>6. CASE \E j \in 1 .. Len(cs) : i \in Note(cs[j])
    <2>1. PICK j \in 1 .. Len(cs) : i \in Note(cs[j]) BY <1>6
    <2>2. j # Len(cs) BY <2>1, <1>3, <1>4
    <2>3. j \in 1 .. Len(cs) - 1 /\ j \in 1 .. Len(cs') BY <2>2, <1>3
    <2>. QED BY <2>1, <2>3, <1>3 DEF Waits
  <1>7. CASE \E k \in 1 .. Len(breaks) : i \in ToSet(breaks[k])
    <2>1. PICK k \in 1 .. Len(breaks) : i \in ToSet(breaks[k]) BY <1>7
    <2>2. CASE Top.stm \in BreakStms
      <3>1. k # Len(breaks) BY <2>1, <2>2, <1>4
      <3>2. k \in 1 .. Len(breaks) - 1 /\ k \in 1 .. Len(breaks') BY <3>1, <2>2, <1>l DEF ListGone
      <3>. QED BY <3>2, <2>1, <2>2, <1>l DEF Waits, ListGone
    <2>3. CASE Top.stm \notin BreakStms
      <3>1. breaks' = breaks BY <2>3 DEF Leaves
      <3>. QED BY <3>1, <2>1 DEF Waits
    <2>. QED BY <2>2, <2>3
  <1>. QED BY <1>5, <1>6, <1>7 DEF Waits

(* A break is on its list.                                                 *)
LEMMA BreaksNoted ==
  ASSUME Shape, Breaks, Noted(code, cs, breaks)
  PROVE  Noted(code', cs', breaks')
  <1>. SUFFICES ASSUME NEW i \in 1 .. Len(code'), Open(code', i)
                PROVE  Waits(cs', breaks', i)
    BY DEF Noted
  <1>1. PICK g : Lists(g, cs, breaks) BY DEF Shape
  <1>2. /\ Len(breaks') = Len(breaks) /\ Len(breaks) \in Nat \ {0}
        /\ \A k \in 1 .. Len(breaks) - 1 : breaks'[k] = breaks[k]
        /\ ToSet(breaks'[Len(breaks)]) = ToSet(breaks[Len(breaks)]) \cup {Len(code')}
    BY <1>1, BreaksShape DEF LastGrows
  <1>3. i = Len(code') \/ (i \in 1 .. Len(code) /\ Open(code, i))
    BY OpenBefore DEF Breaks, Shape
  <1>4. Len(breaks) \in 1 .. Len(breaks') BY <1>2
  <1>5. CASE i = Len(code') BY <1>2, <1>4, <1>5 DEF Waits
  <1>6. CASE i \in 1 .. Len(code) /\ Open(code, i)
    <2>1. Waits(cs, breaks, i) BY <1>6 DEF Noted
    <2>2. CASE \E k \in 1 .. Len(breaks) : i \in ToSet(breaks[k])
      <3>1. PICK k \in 1 .. Len(breaks) : i \in ToSet(breaks[k]) BY <2>2
      <3>2. k = Len(breaks) \/ k \in 1 .. Len(breaks) - 1 BY <1>2
      <3>. QED BY <3>1, <3>2, <1>2, <1>4 DEF Waits
    <2>. QED BY <2>1, <2>2 DEF Waits, Breaks
  <1>. QED BY <1>3, <1>5, <1>6

(* Code without jumps to patch leaves the notes alone.                     *)
LEMMA AddsNoted ==
  ASSUME Shape, Adds, Noted(code, cs, breaks)
  PROVE  Noted(code', cs', breaks')
  <1>. SUFFICES ASSUME NEW i \in 1 .. Len(code'), Open(code', i)
                PROVE  Waits(cs', breaks', i)
    BY DEF Noted
  <1>1. i \in 1 .. Len(code) /\ Open(code, i) BY OpenBefore DEF Adds, Shape
  <1>2. Waits(cs, breaks, i) BY <1>1 DEF Noted
  <1>. QED BY <1>2 DEF Adds

(* A jump in front of a frame's start survives the deletion down to it.    *)
LEMMA AtJumpSaved ==
  ASSUME Shape, cs # <<>>, Top.stm # "block", Changes(SavedCode(Top), code', {}, {}),
         NEW p, AtJump(code, p), p <= Top.saved
  PROVE  AtJump(code', p)
  <1>1. /\ Top.saved \in Nat /\ Top.saved <= Len(code)
        /\ IsCode(SavedCode(Top)) /\ Len(SavedCode(Top)) = Top.saved
        /\ \A i \in 1 .. Top.saved : SavedCode(Top)[i] = code[i]
    BY SavedFacts
  <1>2. p \in 1 .. Top.saved BY <1>1 DEF AtJump
  <1>3. AtJump(SavedCode(Top), p) BY <1>1, <1>2 DEF AtJump
  <1>. QED BY <1>1, <1>3, AtJumpStays

(* What is noted is still a jump when a function begins,                   *)
LEMMA EntersStands ==
  ASSUME Shape, NEW f, Enters(f), NEW g, Lists(g, cs, breaks), Stands(g, code, cs, breaks)
  PROVE  \E h : Lists(h, cs', breaks') /\ Stands(h, code', cs', breaks')
  <1>2. Stack(cs, Len(code)) /\ IsCode(code) /\ Len(code) \in Nat BY CodeFacts DEF Shape
  <1>3. PICK S : cs \in Seq(S) BY <1>2 DEF Stack
  <1>4. /\ Len(cs') = Len(cs) + 1 /\ cs'[Len(cs) + 1] = f /\ Len(cs) \in Nat
        /\ \A j \in 1 .. Len(cs) : cs'[j] = cs[j]
    BY <1>3, OneMore DEF Enters
  <1>5. f.stm # "block" => f.saved \in Nat /\ Len(code) <= f.saved BY FrameFacts DEF Enters
  (* What stood stands, the new frame included.                            *)
  <1>6. ASSUME NEW p, AtJump(code, p), NEW j \in Int, j >= 0,
               NEW i \in j + 1 .. Len(cs'), cs'[i].stm # "block",
               i \in j + 1 .. Len(cs) => p <= cs[i].saved
        PROVE  p <= cs'[i].saved
    <2>1. CASE i = Len(cs) + 1
      <3>1. p \in Nat /\ p <= Len(code) BY <1>2, <1>6 DEF AtJump
      <3>2. cs'[i] = f BY <2>1, <1>4
      <3>. QED BY <3>1, <3>2, <1>2, <1>5, <1>6
    <2>2. CASE i # Len(cs) + 1
      <3>1. i \in j + 1 .. Len(cs) /\ i \in 1 .. Len(cs) BY <2>2, <1>4, <1>6
      <3>. QED BY <3>1, <1>4, <1>6
    <2>. QED BY <2>1, <2>2
  <1>7. \A p : AtJump(code, p) => AtJump(code', p) BY <1>2, AtJumpStays DEF Enters
  <1>8. ASSUME NEW j \in 1 .. Len(cs'), NEW p \in Note(cs'[j])
        PROVE  /\ AtJump(code', p)
               /\ \A i \in j + 1 .. Len(cs') : cs'[i].stm # "block" => p <= cs'[i].saved
    <2>1. CASE j = Len(cs) + 1
      <3>1. cs'[j] = f BY <2>1, <1>4
      <3>2. \A i \in j + 1 .. Len(cs') : FALSE BY <2>1, <1>4
      <3>. QED BY <3>1, <3>2, <1>8 DEF Enters
    <2>2. CASE j # Len(cs) + 1
      <3>1. j \in 1 .. Len(cs) /\ cs'[j] = cs[j] BY <2>2, <1>4
      <3>2. /\ AtJump(code, p)
            /\ \A i \in j + 1 .. Len(cs) : cs[i].stm # "block" => p <= cs[i].saved
        BY <3>1, <1>8 DEF Stands
      <3>3. ASSUME NEW i \in j + 1 .. Len(cs'), cs'[i].stm # "block"
            PROVE  p <= cs'[i].saved
        <4>1. i \in j + 1 .. Len(cs) => p <= cs[i].saved
          <5>1. ASSUME i \in j + 1 .. Len(cs) PROVE cs'[i] = cs[i]
            <6>1. i \in 1 .. Len(cs) BY <5>1, <3>1
            <6>. QED BY <6>1, <1>4
          <5>. QED BY <5>1, <3>2, <3>3
        <4>2. j \in Int /\ j >= 0 BY <3>1
        <4>. QED BY <4>1, <4>2, <3>2, <3>3, <1>6
      <3>. QED BY <3>2, <3>3, <1>7
    <2>. QED BY <2>1, <2>2
  (* Breaks, with h for g.                                                 *)
  <1>9. ASSUME NEW h, Lists(h, cs', breaks'),
               \A k \in 1 .. Len(breaks') :
                 \/ ToSet(breaks'[k]) = {}
                 \/ k \in 1 .. Len(breaks) /\ h[k] = g[k] /\ breaks'[k] = breaks[k]
        PROVE  Stands(h, code', cs', breaks')
    <2>1. ASSUME NEW k \in 1 .. Len(breaks'), NEW e \in ToSet(breaks'[k])
          PROVE  /\ AtJump(code', e)
                 /\ \A j \in h[k] + 1 .. Len(cs') : Trims(cs'[j]) => e <= cs'[j].saved
      <3>1. k \in 1 .. Len(breaks) /\ h[k] = g[k] /\ breaks'[k] = breaks[k] BY <2>1, <1>9
      <3>2. /\ AtJump(code, e)
            /\ \A j \in g[k] + 1 .. Len(cs) : Trims(cs[j]) => e <= cs[j].saved
        BY <3>1, <2>1 DEF Stands
      <3>3. g[k] \in Int /\ g[k] >= 0
        <4>1. g[k] \in 1 .. Len(cs) BY <3>1 DEF Lists, Counts
        <4>. QED BY <4>1
      <3>4. ASSUME NEW j \in h[k] + 1 .. Len(cs'), Trims(cs'[j]) PROVE e <= cs'[j].saved
        <4>1. cs'[j].stm # "block" BY <3>4 DEF Trims, BreakStms, Loops
        <4>2. ASSUME j \in g[k] + 1 .. Len(cs) PROVE e <= cs[j].saved
          <5>1. j \in 1 .. Len(cs) BY <4>2, <3>3
          <5>. QED BY <5>1, <4>2, <3>2, <3>4, <1>4
        <4>. QED BY <4>1, <4>2, <3>1, <3>2, <3>3, <3>4, <1>6
      <3>. QED BY <3>2, <3>4, <1>7
    <2>. QED BY <2>1, <1>8 DEF Stands
  <1>10. CASE f.stm \in BreakStms
    <2>1. cs' = Append(cs, f) /\ breaks' = Append(breaks, <<>>) BY <1>10 DEF Enters
    <2>2. PICK h : Lists(h, cs', breaks') /\ ListAdded(g, breaks, Len(cs), h, breaks')
      BY <2>1, <1>2, <1>10, ListsMore
    <2>3. \A k \in 1 .. Len(breaks') : k \in 1 .. Len(breaks) \/ k = Len(breaks) + 1
      BY <2>2 DEF ListAdded
    <2>. QED BY <2>2, <2>3, <1>9 DEF ListAdded
  <1>11. CASE f.stm \notin BreakStms
    <2>1. Lists(g, cs', breaks') BY <1>11, EntersShape
    <2>2. breaks' = breaks BY <1>11 DEF Enters
    <2>. QED BY <2>1, <2>2, <1>9
  <1>. QED BY <1>10, <1>11

(* when it goes on, with its code or without,                              *)
LEMMA GoesOnStands ==
  ASSUME "switch_match" \in Avoid, Shape, NEW f, GoesOn(f),
         NEW g, Lists(g, cs, breaks), Stands(g, code, cs, breaks)
  PROVE  Stands(g, code', cs', breaks')
  <1>1. IsCode(code) /\ cs # <<>> /\ breaks' = breaks /\ f.stm # "block" /\ Top.stm # "block"
    BY DEF Shape, GoesOn
  <1>2. /\ Len(cs) \in Nat \ {0} /\ Top = cs[Len(cs)] /\ FrameOK(Top)
        /\ Len(cs') = Len(cs) /\ cs'[Len(cs)] = f
        /\ \A j \in 1 .. Len(cs) - 1 : cs'[j] = cs[j]
    BY GoesOnShape
  <1>3. \A i \in 1 .. Len(cs) : /\ cs'[i].stm = cs[i].stm /\ cs'[i].saved = cs[i].saved
                                /\ Trims(cs'[i]) <=> Trims(cs[i])
    <2>. TAKE i \in 1 .. Len(cs)
    <2>1. CASE i = Len(cs) BY <2>1, <1>2 DEF GoesOn, Trims
    <2>2. CASE i # Len(cs)
      <3>1. i \in 1 .. Len(cs) - 1 BY <2>2, <1>2
      <3>. QED BY <3>1, <1>2
    <2>. QED BY <2>1, <2>2
  (* What the last frame would delete stays if it began in front of it.    *)
  <1>4. ASSUME NEW p, AtJump(code, p), Trims(Top) => p <= Top.saved
        PROVE  AtJump(code', p)
    <2>1. CASE Changes(code, code', Note(Top), Note(f)) BY <2>1, <1>1, <1>4, AtJumpStays
    <2>2. CASE Deletes /\ Changes(SavedCode(Top), code', {}, {})
      <3>1. Trims(Top) BY <2>2 DEF Deletes, Trims, BreakStms
      <3>. QED BY <3>1, <2>2, <1>1, <1>4, AtJumpSaved
    <2>. QED BY <2>1, <2>2 DEF GoesOn
  <1>5. ASSUME NEW j \in 1 .. Len(cs'), NEW p \in Note(cs'[j])
        PROVE  /\ AtJump(code', p)
               /\ \A i \in j + 1 .. Len(cs') : cs'[i].stm # "block" => p <= cs'[i].saved
    <2>1. CASE j = Len(cs)
      <3>1. \A i \in j + 1 .. Len(cs') : FALSE BY <2>1, <1>2
      <3>. QED BY <3>1, <2>1, <1>2, <1>5 DEF GoesOn
    <2>2. CASE j # Len(cs)
      <3>1. j \in 1 .. Len(cs) - 1 /\ j \in 1 .. Len(cs) /\ cs'[j] = cs[j]
        BY <2>2, <1>2
      <3>2. /\ AtJump(code, p)
            /\ \A i \in j + 1 .. Len(cs) : cs[i].stm # "block" => p <= cs[i].saved
        BY <3>1, <1>5 DEF Stands
      <3>3. Len(cs) \in j + 1 .. Len(cs) BY <3>1, <1>2
      <3>4. p <= Top.saved BY <3>2, <3>3, <1>1, <1>2
      <3>5. \A i \in j + 1 .. Len(cs) : i \in 1 .. Len(cs) BY <3>1
      <3>. QED BY <3>2, <3>4, <3>5, <1>2, <1>3, <1>4
    <2>. QED BY <2>1, <2>2
  <1>6. ASSUME NEW k \in 1 .. Len(breaks'), NEW e \in ToSet(breaks'[k])
        PROVE  /\ AtJump(code', e)
               /\ \A j \in g[k] + 1 .. Len(cs') : Trims(cs'[j]) => e <= cs'[j].saved
    <2>1. /\ AtJump(code, e)
          /\ \A j \in g[k] + 1 .. Len(cs) : Trims(cs[j]) => e <= cs[j].saved
      BY <1>1, <1>6 DEF Stands
    <2>2. g[k] \in 1 .. Len(cs) /\ cs[g[k]].stm \in BreakStms
      BY <1>1, <1>6 DEF Lists, Counts
    <2>3. \A j \in g[k] + 1 .. Len(cs) : j \in 1 .. Len(cs) BY <2>2
    <2>4. AtJump(code', e)
      <3>1. CASE Changes(code, code', Note(Top), Note(f)) BY <3>1, <2>1, <1>1, AtJumpStays
      <3>2. CASE Deletes /\ Changes(SavedCode(Top), code', {}, {})
        <4>1. Top.stm = "if" /\ Trims(Top)
          BY <3>2 DEF Deletes, Trims, BreakStms, GoesOn, Loops
        <4>2. Top.stm \notin BreakStms BY <4>1 DEF BreakStms, Loops
        <4>3. g[k] # Len(cs) BY <4>2, <2>2, <1>2
        <4>4. Len(cs) \in g[k] + 1 .. Len(cs) BY <4>3, <2>2, <1>2
        <4>5. e <= Top.saved BY <4>1, <4>4, <2>1, <1>2
        <4>. QED BY <4>5, <3>2, <2>1, <1>1, AtJumpSaved
      <3>. QED BY <3>1, <3>2 DEF GoesOn
    <2>. QED BY <2>1, <2>3, <2>4, <1>2, <1>3
  <1>. QED BY <1>5, <1>6 DEF Stands

(* when it returns, with its code or without,                              *)
LEMMA LeavesStands ==
  ASSUME Shape, Leaves, NEW g, Lists(g, cs, breaks), Stands(g, code, cs, breaks)
  PROVE  \E h : Lists(h, cs', breaks') /\ Stands(h, code', cs', breaks')
  <1>1. IsCode(code) /\ cs # <<>> /\ Stack(cs, Len(code)) BY DEF Shape, Leaves
  <1>2. /\ Len(cs) \in Nat \ {0} /\ Top = cs[Len(cs)] /\ FrameOK(Top)
        /\ Len(cs') = Len(cs) - 1
        /\ \A j \in 1 .. Len(cs) - 1 : cs'[j] = cs[j]
    BY LeavesShape
  <1>3. \A i \in 1 .. Len(cs') : i \in 1 .. Len(cs) /\ i < Len(cs) /\ cs'[i] = cs[i]
    BY <1>2
  <1>4. ASSUME NEW p, AtJump(code, p),
               NEW j \in 1 .. Len(cs) - 1,
               \A i \in j + 1 .. Len(cs) : Trims(cs[i]) => p <= cs[i].saved
        PROVE  AtJump(code', p)
    <2>1. CASE Changes(code, code', Ended, {}) BY <2>1, <1>1, <1>4, AtJumpStays
    <2>2. CASE Deletes /\ Top.stm # "switch" /\ Changes(SavedCode(Top), code', {}, {})
      <3>1. Top.stm # "block" /\ Trims(Top) BY <2>2 DEF Deletes, Trims, BreakStms, Loops
      <3>2. Len(cs) \in j + 1 .. Len(cs) BY <1>2
      <3>3. p <= Top.saved BY <3>1, <3>2, <1>2, <1>4
      <3>. QED BY <3>1, <3>3, <2>2, <1>1, <1>4, AtJumpSaved
    <2>. QED BY <2>1, <2>2 DEF Leaves
  <1>5. ASSUME NEW j \in 1 .. Len(cs'), NEW p \in Note(cs'[j])
        PROVE  /\ AtJump(code', p)
               /\ \A i \in j + 1 .. Len(cs') : cs'[i].stm # "block" => p <= cs'[i].saved
    <2>1. j \in 1 .. Len(cs) /\ j \in 1 .. Len(cs) - 1 /\ cs'[j] = cs[j] BY <1>2, <1>3
    <2>2. /\ AtJump(code, p)
          /\ \A i \in j + 1 .. Len(cs) : cs[i].stm # "block" => p <= cs[i].saved
      BY <2>1, <1>5 DEF Stands
    <2>3. \A i \in j + 1 .. Len(cs) : Trims(cs[i]) => p <= cs[i].saved
      BY <2>2 DEF Trims, BreakStms, Loops
    <2>4. \A i \in j + 1 .. Len(cs') : i \in j + 1 .. Len(cs) /\ i \in 1 .. Len(cs')
      BY <2>1, <1>2
    <2>. QED BY <2>1, <2>2, <2>3, <2>4, <1>3, <1>4
  <1>6. ASSUME NEW h, \A k \in 1 .. Len(breaks') :
                        /\ k \in 1 .. Len(breaks) /\ h[k] = g[k] /\ breaks'[k] = breaks[k]
                        /\ g[k] \in 1 .. Len(cs) - 1
        PROVE  Stands(h, code', cs', breaks')
    <2>1. ASSUME NEW k \in 1 .. Len(breaks'), NEW e \in ToSet(breaks'[k])
          PROVE  /\ AtJump(code', e)
                 /\ \A j \in h[k] + 1 .. Len(cs') : Trims(cs'[j]) => e <= cs'[j].saved
      <3>1. /\ k \in 1 .. Len(breaks) /\ h[k] = g[k] /\ breaks'[k] = breaks[k]
            /\ g[k] \in 1 .. Len(cs) - 1
        BY <1>6
      <3>2. /\ AtJump(code, e)
            /\ \A j \in g[k] + 1 .. Len(cs) : Trims(cs[j]) => e <= cs[j].saved
        BY <3>1, <2>1 DEF Stands
      <3>3. \A j \in h[k] + 1 .. Len(cs') : j \in g[k] + 1 .. Len(cs) /\ j \in 1 .. Len(cs')
        BY <3>1, <1>2
      <3>. QED BY <3>1, <3>2, <3>3, <1>3, <1>4
    <2>. QED BY <2>1, <1>5 DEF Stands
  <1>7. CASE Top.stm \in BreakStms
    <2>1. /\ cs' = Front(cs) /\ breaks' = Front(breaks) /\ Last(cs).stm \in BreakStms
      BY <1>7 DEF Leaves, Top
    <2>2. PICK h : Lists(h, cs', breaks') /\ ListGone(g, breaks, Len(cs), h, breaks')
      BY <2>1, <1>1, ListsLess
    <2>3. \A k \in 1 .. Len(breaks') : k \in 1 .. Len(breaks) /\ k \in 1 .. Len(breaks) - 1
      BY <2>2 DEF ListGone
    <2>. QED BY <2>2, <2>3, <1>6 DEF ListGone
  <1>8. CASE Top.stm \notin BreakStms
    <2>1. Lists(g, cs', breaks') BY <1>8, LeavesShape
    <2>2. breaks' = breaks BY <1>8 DEF Leaves
    <2>3. \A k \in 1 .. Len(breaks') : g[k] \in 1 .. Len(cs') BY <2>1 DEF Lists, Counts
    <2>. QED BY <2>1, <2>2, <2>3, <1>2, <1>6
  <1>. QED BY <1>7, <1>8

(* when there is a break, which no frame can delete that its list          *)
(* outlives,                                                               *)
LEMMA BreaksStands ==
  ASSUME "dead_break" \in Avoid, Shape, Breaks,
         NEW g, Lists(g, cs, breaks), Stands(g, code, cs, breaks)
  PROVE  Stands(g, code', cs', breaks')
  <1>1. IsCode(code) /\ cs' = cs /\ Len(cs) \in Nat BY StackFacts DEF Shape, Breaks
  <1>2. /\ Len(breaks') = Len(breaks) /\ Len(breaks) \in Nat \ {0}
        /\ \A k \in 1 .. Len(breaks) - 1 : breaks'[k] = breaks[k]
        /\ ToSet(breaks'[Len(breaks)]) = ToSet(breaks[Len(breaks)]) \cup {Len(code')}
    BY BreaksShape DEF LastGrows
  <1>3. \A p : AtJump(code, p) => AtJump(code', p) BY <1>1, AtJumpStays DEF Breaks
  <1>4. ASSUME NEW j \in 1 .. Len(cs'), NEW p \in Note(cs'[j])
        PROVE  /\ AtJump(code', p)
               /\ \A i \in j + 1 .. Len(cs') : cs'[i].stm # "block" => p <= cs'[i].saved
    BY <1>1, <1>3, <1>4 DEF Stands
  (* No frame above the innermost loop or switch may be deleted.           *)
  <1>5. ASSUME NEW j \in g[Len(breaks)] + 1 .. Len(cs) PROVE ~Trims(cs[j])
    <2>1. /\ Counts(g, 1, Len(breaks), cs, BreakStms)
          /\ Len(breaks) \in 1 .. Len(breaks)
      BY <1>2 DEF Lists
    <2>2. g[Len(breaks)] \in 1 .. Len(cs) BY <2>1 DEF Counts
    <2>3. ASSUME NEW i \in j .. Len(cs) PROVE cs[i].stm \notin BreakStms
      <3>1. i \in 1 .. Len(cs) /\ i > g[Len(breaks)] BY <2>2
      <3>2. ASSUME NEW k \in 1 .. Len(breaks), g[k] = i PROVE FALSE
        <4>1. k = Len(breaks) \/ k < Len(breaks) BY <1>2
        <4>2. k < Len(breaks) => g[k] < g[Len(breaks)] BY <2>1 DEF Counts
        <4>. QED BY <4>1, <4>2, <3>1, <3>2, <2>2
      <3>. QED BY <3>1, <3>2, <2>1 DEF Counts
    <2>4. j \in 1 .. Len(cs) BY <2>2
    <2>. QED BY <2>3, <2>4 DEF Breaks
  <1>6. AtJump(code', Len(code'))
    <2>1. Len(code') \in Nat /\ Len(code) \in Nat /\ Len(code) < Len(code')
      BY <1>1, CodeFacts DEF Breaks, Changes
    <2>2. Len(code') \in 1 .. Len(code') BY <2>1
    <2>. QED BY <2>2 DEF AtJump, Breaks
  <1>7. ASSUME NEW k \in 1 .. Len(breaks'), NEW e \in ToSet(breaks'[k])
        PROVE  /\ AtJump(code', e)
               /\ \A j \in g[k] + 1 .. Len(cs') : Trims(cs'[j]) => e <= cs'[j].saved
    <2>1. CASE k \in 1 .. Len(breaks) /\ e \in ToSet(breaks[k])
      BY <2>1, <1>1, <1>3 DEF Stands
    <2>2. CASE k = Len(breaks) /\ e = Len(code') BY <2>2, <1>1, <1>5, <1>6
    <2>3. k \in 1 .. Len(breaks) - 1 \/ k = Len(breaks) BY <1>2
    <2>4. \A x \in 1 .. Len(breaks) - 1 : x \in 1 .. Len(breaks) BY <1>2
    <2>. QED BY <2>1, <2>2, <2>3, <2>4, <1>2, <1>7
  <1>. QED BY <1>4, <1>7 DEF Stands

(* and when code is added.                                                 *)
LEMMA AddsStands ==
  ASSUME Shape, Adds, NEW g, Stands(g, code, cs, breaks)
  PROVE  Stands(g, code', cs', breaks')
  <1>1. \A p : AtJump(code, p) => AtJump(code', p) BY AtJumpStays DEF Adds, Shape
  <1>. QED BY <1>1 DEF Adds, Stands

(* The pieces of code that the actions add.                                *)
LEMMA Weaker ==
  ASSUME NEW c, NEW d, NEW S, NEW T, NEW N, NEW M, Changes(c, d, S, N), T \subseteq S, N \subseteq M
  PROVE  Changes(c, d, T, M)
  BY DEF Changes

(* One instruction behind code.                                            *)
LEMMA AddsOne ==
  ASSUME NEW c, IsCode(c), NEW a, NEW b, NEW t, NEW N,
         a \in {"jif", "break"} /\ t = 0 => Len(c) + 1 \in N
  PROVE  LET e == [op |-> a, n |-> b, to |-> t]
         IN  /\ Changes(c, Append(c, e), {}, N) /\ IsCode(Append(c, e))
             /\ Len(Append(c, e)) = Len(c) + 1 /\ Append(c, e)[Len(c) + 1].op = a
  <1>. DEFINE e == [op |-> a, n |-> b, to |-> t]
  <1>1. IsCode(<<e>>) BY OneInstruction
  <1>2. Append(c, e) = c \o <<e>> BY CodeAppended
  <1>3. e.op = a /\ e.to = t OBVIOUS
  <1>. HIDE DEF e
  <1>4. Len(<<e>>) = 1 /\ <<e>>[1] = e OBVIOUS
  <1>. DEFINE d == <<e>>
  <1>. HIDE DEF d
  <1>5. \A i \in 1 .. Len(d) : Open(d, i) => Len(c) + i \in N BY <1>3, <1>4 DEF Open, d
  <1>6. Changes(c, c \o d, {}, N) BY <1>1, <1>5, JoinChanges DEF d
  <1>7. /\ IsCode(c \o d) /\ Len(c \o d) = Len(c) + Len(d)
        /\ \A j \in 1 .. Len(d) : (c \o d)[Len(c) + j] = d[j]
    BY <1>1, CodeJoined DEF d
  <1>8. Len(d) = 1 /\ d[1].op = a BY <1>3, <1>4 DEF d
  <1>9. /\ Changes(c, c \o d, {}, N) /\ IsCode(c \o d)
        /\ Len(c \o d) = Len(c) + 1 /\ (c \o d)[Len(c) + 1].op = a
    BY <1>6, <1>7, <1>8
  <1>. QED BY <1>2, <1>9 DEF d, e

(* No code at all.                                                         *)
LEMMA EmptyCode == IsCode(<<>>) /\ Len(<<>>) = 0 /\ \A i \in 1 .. Len(<<>>) : FALSE
  <1>1. <<>> \in Seq([op : {}, n : {}, to : {}]) OBVIOUS
  <1>. QED BY <1>1 DEF IsCode

(* The instructions of a pop have no jumps to patch.                       *)
LEMMA PopsFacts ==
  ASSUME NEW n
  PROVE  /\ IsCode(Pops(n)) /\ Len(Pops(n)) \in Nat
         /\ \A i \in 1 .. Len(Pops(n)) : ~Open(Pops(n), i)
  <1>1. CASE n > 0
    <2>1. Pops(n) = <<[op |-> "pop", n |-> n, to |-> 0]>> BY <1>1 DEF Pops, Ins
    <2>2. IsCode(Pops(n)) BY <2>1, OneInstruction
    <2>3. Len(Pops(n)) = 1 /\ Pops(n)[1].op = "pop" BY <2>1
    <2>. QED BY <2>2, <2>3 DEF Open
  <1>2. CASE ~(n > 0)
    <2>1. Pops(n) = <<>> BY <1>2 DEF Pops
    <2>. QED BY <2>1, EmptyCode
  <1>. QED BY <1>1, <1>2

(* Nor has a jump back.                                                    *)
LEMMA LoopFacts ==
  ASSUME NEW to
  PROVE  /\ IsCode(<<Loop(to)>>) /\ Len(<<Loop(to)>>) = 1
         /\ \A i \in 1 .. Len(<<Loop(to)>>) : ~Open(<<Loop(to)>>, i)
  <1>1. IsCode(<<Loop(to)>>) BY OneInstruction DEF Loop
  <1>2. Len(<<Loop(to)>>) = 1 /\ <<Loop(to)>>[1].op = "loop" BY DEF Loop
  <1>. QED BY <1>1, <1>2 DEF Open

(* Code in which nothing is open, at the end.                              *)
LEMMA AddsClosed ==
  ASSUME NEW b, NEW c, NEW d, IsCode(b), NEW S, NEW N, Changes(b, c, S, N), IsCode(d),
         \A i \in 1 .. Len(d) : ~Open(d, i)
  PROVE  Changes(b, c \o d, S, N)
  <1>1. IsCode(c) BY DEF Changes
  <1>2. Changes(c, c \o d, {}, {}) BY <1>1, JoinChanges
  <1>. QED BY <1>2, ChangesTwice

(* A patch at the end.                                                     *)
LEMMA PatchesMore ==
  ASSUME NEW b, NEW c, IsCode(b), NEW S, NEW N, Changes(b, c, S, N), NEW T
  PROVE  Changes(b, Patch(c, T), S \cup T, N)
  <1>1. IsCode(c) BY DEF Changes
  <1>2. Changes(c, Patch(c, T), T, {}) BY <1>1, PatchChanges
  <1>. QED BY <1>2, ChangesTwice

(* A test of a variable has one jump, its last instruction; a constant has *)
(* no code.                                                                *)
LEMMA TestFacts ==
  ASSUME NEW c, NEW n \in Nat
  PROVE  /\ IsCode(Test(c)) /\ Tested(c, n) \in Nat
         /\ IF c = "var" THEN Len(Test(c)) = 2 /\ Tested(c, n) = n + 2 /\ Test(c)[2].op = "jif"
            ELSE Len(Test(c)) = 0 /\ Tested(c, n) = 0
         /\ \A i \in 1 .. Len(Test(c)) : Open(Test(c), i) => i = 2 /\ c = "var"
  <1>1. CASE c = "var"
    <2>1. Test(c) = <<[op |-> "push", n |-> 1, to |-> 0], [op |-> "jif", n |-> 0, to |-> 0]>>
      BY <1>1 DEF Test, Ins, JumpIfNot
    <2>. DEFINE X == {"push", "jif", 0, 1}
    <2>2. Test(c) \in Seq([op : X, n : X, to : X]) BY <2>1
    <2>3. Len(Test(c)) = 2 /\ Test(c)[1].op = "push" /\ Test(c)[2].op = "jif" BY <2>1
    <2>4. \A i \in 1 .. Len(Test(c)) : Open(Test(c), i) => i = 2
      <3>. SUFFICES ASSUME NEW i \in 1 .. Len(Test(c)), Open(Test(c), i) PROVE i = 2
        OBVIOUS
      <3>1. i = 1 \/ i = 2 BY <2>3
      <3>. QED BY <3>1, <2>3 DEF Open
    <2>5. IsCode(Test(c)) BY <2>2 DEF IsCode
    <2>6. Tested(c, n) = n + 2 /\ n + 2 \in Nat BY <1>1 DEF Tested
    <2>. HIDE DEF X
    <2>. QED BY <2>3, <2>4, <2>5, <2>6, <1>1
  <1>2. CASE c # "var"
    <2>1. Test(c) = <<>> /\ Tested(c, n) = 0 BY <1>2 DEF Test, Tested
    <2>. QED BY <2>1, <1>2, EmptyCode
  <1>. QED BY <1>1, <1>2

(* A test behind code c, with its jump.                                    *)
LEMMA AddsTest ==
  ASSUME NEW c, IsCode(c), NEW k
  PROVE  /\ Changes(c, c \o Test(k), {}, {Tested(k, Len(c))} \ {0}) /\ IsCode(c \o Test(k))
         /\ Tested(k, Len(c)) \in Nat /\ Len(c) <= Len(c \o Test(k))
         /\ k = "var" => AtJump(c \o Test(k), Tested(k, Len(c)))
         /\ k # "var" => Tested(k, Len(c)) = 0
  <1>1. Len(c) \in Nat BY CodeFacts
  <1>2. /\ IsCode(Test(k)) /\ Tested(k, Len(c)) \in Nat
        /\ IF k = "var" THEN /\ Len(Test(k)) = 2 /\ Tested(k, Len(c)) = Len(c) + 2
                             /\ Test(k)[2].op = "jif"
           ELSE Len(Test(k)) = 0 /\ Tested(k, Len(c)) = 0
        /\ \A i \in 1 .. Len(Test(k)) : Open(Test(k), i) => i = 2 /\ k = "var"
    BY <1>1, TestFacts
  <1>. DEFINE N == {Tested(k, Len(c))} \ {0}
  <1>3. \A i \in 1 .. Len(Test(k)) : Open(Test(k), i) => Len(c) + i \in N BY <1>1, <1>2
  <1>. HIDE DEF N
  <1>4. Changes(c, c \o Test(k), {}, N) BY <1>2, <1>3, JoinChanges
  <1>5. /\ IsCode(c \o Test(k)) /\ Len(c \o Test(k)) = Len(c) + Len(Test(k))
        /\ \A j \in 1 .. Len(Test(k)) : (c \o Test(k))[Len(c) + j] = Test(k)[j]
    BY <1>2, CodeJoined
  <1>6. ASSUME k = "var" PROVE AtJump(c \o Test(k), Tested(k, Len(c)))
    <2>1. 2 \in 1 .. Len(Test(k)) BY <1>2, <1>6
    <2>2. (c \o Test(k))[Len(c) + 2].op = "jif" BY <2>1, <1>2, <1>5, <1>6
    <2>3. Len(c) + 2 \in 1 .. Len(c \o Test(k)) BY <1>1, <1>2, <1>5, <1>6
    <2>. QED BY <2>2, <2>3, <1>2, <1>6 DEF AtJump, JumpOps
  <1>7. Len(c) <= Len(c \o Test(k)) BY <1>1, <1>2, <1>5
  <1>. QED BY <1>2, <1>4, <1>5, <1>6, <1>7 DEF N

(***************************************************************************)
(* Each action is a step of one of these kinds.  The statements that begin:*)
(***************************************************************************)
LEMMA CodeLength ==
  ASSUME Shape
  PROVE  IsCode(code) /\ Len(code) \in Nat
  BY CodeFacts DEF Shape

(* The frame of an if statement or a loop notes the jump of its test.      *)
LEMMA TestNoted ==
  ASSUME NEW f, NEW k, NEW n \in Nat, f.stm \in Loops \cup {"if"}, f.cond = k,
         f.jump = Tested(k, n)
  PROVE  Note(f) = {Tested(k, n)} \ {0}
  <1>1. f.stm # "block" /\ f.stm # "switch" BY DEF Loops
  <1>2. k = "false" => Tested(k, n) = 0 BY DEF Tested
  <1>. QED BY <1>1, <1>2 DEF Note

(* The frame a loop begins with.                                           *)
LEMMA LoopFrameFacts ==
  ASSUME NEW k \in Loops, NEW c, NEW n \in Nat, NEW v, k = "loop" => c # "var",
         NEW f, f = [stm |-> k, cond |-> c, lstart |-> lstart, ldepth |-> ldepth,
                     saved |-> n, jump |-> Tested(c, n), var |-> v]
  PROVE  /\ FrameOK(f) /\ f.stm = k /\ f.saved = n
         /\ Note(f) = {Tested(c, n)} \ {0}
  <1>1. Tested(c, n) \in Nat BY TestFacts
  <1>2. c # "var" => Tested(c, n) = 0 BY DEF Tested
  <1>. DEFINE X == {c, lstart, ldepth, v}
  <1>3. f \in [stm : Loops, cond : X, lstart : X, ldepth : X, saved : Nat,
               jump : Nat, var : X]
    BY <1>1
  <1>4. f.stm = k /\ f.cond = c /\ f.saved = n /\ f.jump = Tested(c, n) OBVIOUS
  <1>. HIDE DEF X
  <1>5. f.stm = "loop" => f.jump = 0 BY <1>2, <1>4
  <1>6. FrameOK(f) BY <1>3, <1>5 DEF FrameOK
  <1>7. Note(f) = {Tested(c, n)} \ {0}
    <2>1. f.stm \in Loops \cup {"if"} BY <1>4
    <2>. QED BY ONLY <2>1, <1>4, n \in Nat, TestNoted
  <1>. QED BY <1>4, <1>6, <1>7

(* blockstm begins.                                                        *)
LEMMA BlockEnters ==
  ASSUME Shape, Block
  PROVE  \E f : Enters(f)
  <1>. DEFINE f == [stm |-> "block"]
  <1>1. FrameOK(f) /\ Note(f) = {} /\ f.stm = "block" BY DEF FrameOK, Note
  <1>2. f.stm \notin BreakStms BY DEF BreakStms, Loops
  <1>. HIDE DEF f
  <1>3. cs' = Append(cs, f) /\ code' = code /\ breaks' = breaks
    BY DEF Block, Enter, cflow, f
  <1>4. Changes(code, code', {}, Note(f)) BY <1>3, CodeLength, NoChange
  <1>5. \E x : scopes' = Append(scopes, x) /\ ~(x.isloop \/ x.isswitch)
    <2>1. ~(Scope(FALSE, FALSE, FALSE).isloop \/ Scope(FALSE, FALSE, FALSE).isswitch)
      BY DEF Scope
    <2>2. scopes' = Append(scopes, Scope(FALSE, FALSE, FALSE)) BY DEF Block
    <2>. QED BY <2>1, <2>2
  <1>6. Enters(f) BY <1>1, <1>2, <1>3, <1>4, <1>5 DEF Enters
  <1>. QED BY <1>6

(* ifstm begins: its test is noted.                                        *)
LEMMA IfEnters ==
  ASSUME Shape, NEW c, If(c)
  PROVE  \E f : Enters(f)
  <1>. DEFINE f == IfFrame(c)
              n == Tested(c, Len(code))
  <1>1. IsCode(code) /\ Len(code) \in Nat BY CodeLength
  <1>2. /\ Changes(code, code \o Test(c), {}, {n} \ {0}) /\ IsCode(code \o Test(c))
        /\ n \in Nat /\ Len(code) <= Len(code \o Test(c))
        /\ (c = "var" => AtJump(code \o Test(c), n)) /\ (c # "var" => n = 0)
    BY <1>1, AddsTest
  <1>. DEFINE X == {"then", c, locals}
  <1>3. f \in [stm : {"if"}, branch : X, cond : X, jump : Nat, saved : Nat, locals : X]
    BY <1>1, <1>2 DEF IfFrame
  <1>4. f.stm = "if" /\ f.cond = c /\ f.jump = n /\ f.saved = Len(code) BY DEF IfFrame
  <1>. HIDE DEF X, f, n
  <1>5. FrameOK(f) BY <1>3 DEF FrameOK
  <1>6. Note(f) = {n} \ {0} BY <1>1, <1>4, TestNoted DEF n
  <1>7. /\ code' = code \o Test(c) /\ cs' = Append(cs, f)
        /\ breaks' = breaks /\ scopes' = scopes
    BY DEF If, Enter, cflow, f
  <1>8. f.stm \notin BreakStms /\ f.stm # "block" BY <1>4 DEF BreakStms, Loops
  <1>9. \A p \in Note(f) : AtJump(code', p) BY <1>2, <1>6, <1>7
  <1>10. Enters(f) BY <1>1, <1>2, <1>4, <1>5, <1>6, <1>7, <1>8, <1>9 DEF Enters
  <1>. QED BY <1>10

(* The parts of a loop's beginning that are alike.                         *)
LEMMA LoopEnters ==
  ASSUME NEW f, FrameOK(f), f.stm \in Loops, cs' = Append(cs, f),
         NEW s, NEW g, StartLoop(s, Scope(TRUE, FALSE, g)),
         Changes(code, code', {}, Note(f)),
         Len(code) <= f.saved, f.saved <= Len(code'),
         \A p \in Note(f) : AtJump(code', p)
  PROVE  \E h : Enters(h)
  <1>1. f.stm \in BreakStms /\ f.stm # "if" BY DEF BreakStms, Loops
  <1>2. \E x : scopes' = Append(scopes, x) BY DEF StartLoop
  <1>3. breaks' = Append(breaks, <<>>) BY DEF StartLoop
  <1>4. Enters(f) BY <1>1, <1>2, <1>3 DEF Enters
  <1>. QED BY <1>4

(* whilestm begins.                                                        *)
LEMMA WhileEnters ==
  ASSUME Shape, NEW c, While(c)
  PROVE  \E f : Enters(f)
  <1>. DEFINE f == LoopFrame("while", c, Len(code))
              n == Tested(c, Len(code))
  <1>1. IsCode(code) /\ Len(code) \in Nat BY CodeLength
  <1>2. /\ Changes(code, code \o Test(c), {}, {n} \ {0}) /\ IsCode(code \o Test(c))
        /\ n \in Nat /\ Len(code) <= Len(code \o Test(c))
        /\ (c = "var" => AtJump(code \o Test(c), n)) /\ (c # "var" => n = 0)
    BY <1>1, AddsTest
  <1>3. /\ FrameOK(f) /\ f.stm = "while" /\ f.saved = Len(code)
        /\ Note(f) = {n} \ {0}
    <2>1. f = [stm |-> "while", cond |-> c, lstart |-> lstart, ldepth |-> ldepth,
               saved |-> Len(code), jump |-> Tested(c, Len(code)), var |-> FALSE]
      BY DEF LoopFrame
    <2>. HIDE DEF f
    <2>. QED BY <1>1, <2>1, LoopFrameFacts DEF Loops
  <1>. HIDE DEF f, n
  <1>5. code' = code \o Test(c) /\ cs' = Append(cs, f) BY DEF While, Enter, f
  <1>6. PICK s, g : StartLoop(s, Scope(TRUE, FALSE, g)) BY DEF While
  <1>7. \A p \in Note(f) : AtJump(code', p) BY <1>2, <1>3, <1>5
  <1>8. f.stm \in Loops /\ Len(code) <= f.saved /\ f.saved <= Len(code')
        /\ Changes(code, code', {}, Note(f))
    BY <1>1, <1>2, <1>3, <1>5 DEF Loops
  <1>. QED BY <1>3, <1>5, <1>6, <1>7, <1>8, LoopEnters

(* loopstm begins: there is no jump to note.                               *)
LEMMA LoopStmEnters ==
  ASSUME Shape, LoopStm
  PROVE  \E f : Enters(f)
  <1>. DEFINE f == LoopFrame("loop", "true", Len(code))
  <1>1. IsCode(code) /\ Len(code) \in Nat BY CodeLength
  <1>2. Tested("true", Len(code)) = 0 BY DEF Tested
  <1>3. FrameOK(f) /\ f.stm = "loop" /\ f.saved = Len(code) /\ Note(f) = {}
    <2>. DEFINE c == "true"
    <2>1. f = [stm |-> "loop", cond |-> c, lstart |-> lstart, ldepth |-> ldepth,
               saved |-> Len(code), jump |-> Tested(c, Len(code)), var |-> FALSE]
      BY DEF LoopFrame
    <2>2. "loop" \in Loops /\ c # "var" /\ Tested(c, Len(code)) = 0 BY <1>2 DEF Loops
    <2>. HIDE DEF f, c
    <2>3. FrameOK(f) BY <1>1, <2>1, <2>2, LoopFrameFacts
    <2>4. Note(f) = {Tested(c, Len(code))} \ {0} BY <1>1, <2>1, <2>2, LoopFrameFacts
    <2>5. f.stm = "loop" /\ f.saved = Len(code) BY <2>1
    <2>. QED BY <2>2, <2>3, <2>4, <2>5
  <1>. HIDE DEF f
  <1>5. code' = code /\ cs' = Append(cs, f) BY DEF LoopStm, Enter, f
  <1>6. PICK s, g : StartLoop(s, Scope(TRUE, FALSE, g)) BY DEF LoopStm
  <1>7. Changes(code, code', {}, Note(f)) BY <1>1, <1>5, NoChange
  <1>8. f.stm \in Loops /\ Len(code) <= f.saved /\ f.saved <= Len(code')
    BY <1>1, <1>3, <1>5 DEF Loops
  <1>. QED BY <1>3, <1>5, <1>6, <1>7, <1>8, LoopEnters

(* forstm begins: the jump over the increment is patched at once, only the *)
(* test's is noted.                                                        *)
LEMMA ForEnters ==
  ASSUME Shape, NEW v \in BOOLEAN, NEW c, NEW incr \in BOOLEAN, For(v, c, incr)
  PROVE  \E f : Enters(f)
  <1>. DEFINE init == IF v THEN Append(code, Var) ELSE code
              n    == Len(init)
              use  == Ins("use", locals + (IF v THEN 1 ELSE 0) + Switches)
              step == c = "var" /\ incr
              f    == [LoopFrame("for", c, n) EXCEPT !.var = v]
              t    == Tested(c, n)
              skip == IF step THEN <<[Jump EXCEPT !.to = n + 6], use, Loop(n + 1)>>
                      ELSE IF incr THEN <<use>> ELSE <<>>
  <1>1. IsCode(code) /\ Len(code) \in Nat BY CodeLength
  <1>2. /\ IsCode(init) /\ n \in Nat /\ Len(code) <= n /\ Changes(code, init, {}, {})
    <2>1. CASE v
      <3>1. /\ Changes(code, Append(code, Var), {}, {}) /\ IsCode(Append(code, Var))
            /\ Len(Append(code, Var)) = Len(code) + 1
        BY <1>1, AddsOne DEF Var, Ins
      <3>. HIDE DEF n
      <3>2. init = Append(code, Var) BY <2>1
      <3>. QED BY <3>1, <3>2, <1>1 DEF n
    <2>2. CASE ~v BY <2>2, <1>1, NoChange
    <2>. QED BY <2>1, <2>2
  <1>3. IsCode(skip) /\ \A i \in 1 .. Len(skip) : ~Open(skip, i)
    <2>1. CASE step
      <3>. DEFINE Y == {"jmp", "use", "loop", 0, n + 6, n + 1, locals + (IF v THEN 1 ELSE 0) + Switches}
      <3>1. skip = <<[op |-> "jmp", n |-> 0, to |-> n + 6],
                     [op |-> "use", n |-> locals + (IF v THEN 1 ELSE 0) + Switches, to |-> 0],
                     [op |-> "loop", n |-> 0, to |-> n + 1]>>
        BY <2>1 DEF Jump, Ins, Loop
      <3>. HIDE DEF skip
      <3>2. skip \in Seq([op : Y, n : Y, to : Y]) BY <3>1
      <3>3. Len(skip) = 3 /\ skip[1].op = "jmp" /\ skip[2].op = "use" /\ skip[3].op = "loop"
        BY <3>1
      <3>4. IsCode(skip) BY <3>2 DEF IsCode
      <3>5. \A i \in 1 .. Len(skip) : i = 1 \/ i = 2 \/ i = 3 BY <3>3
      <3>. QED BY <3>3, <3>4, <3>5 DEF Open
    <2>2. CASE ~step /\ incr
      <3>1. skip = <<[op |-> "use", n |-> locals + (IF v THEN 1 ELSE 0) + Switches, to |-> 0]>>
        BY <2>2 DEF Ins
      <3>. HIDE DEF skip
      <3>2. IsCode(skip) BY <3>1, OneInstruction
      <3>3. Len(skip) = 1 /\ skip[1].op = "use" BY <3>1
      <3>. QED BY <3>2, <3>3 DEF Open
    <2>3. CASE ~step /\ ~incr
      <3>1. skip = <<>> BY <2>3
      <3>. HIDE DEF skip
      <3>. QED BY <3>1, EmptyCode
    <2>. QED BY <2>1, <2>2, <2>3
  <1>4. code' = (init \o Test(c)) \o skip /\ cs' = Append(cs, f) BY DEF For, Enter
  <1>5. PICK s, g : StartLoop(s, Scope(TRUE, FALSE, g)) BY DEF For
  <1>6. /\ FrameOK(f) /\ f.stm = "for" /\ f.saved = n /\ Note(f) = {t} \ {0}
    <2>1. f = [stm |-> "for", cond |-> c, lstart |-> lstart, ldepth |-> ldepth,
               saved |-> n, jump |-> Tested(c, n), var |-> v]
      BY DEF LoopFrame
    <2>2. "for" \in Loops BY DEF Loops
    <2>. HIDE DEF f, n
    <2>. QED BY <1>2, <2>1, <2>2, LoopFrameFacts
  <1>. HIDE DEF init, n, skip, f
  <1>. DEFINE d == init \o Test(c)
  <1>7. /\ Changes(init, d, {}, {t} \ {0}) /\ IsCode(d)
        /\ t \in Nat /\ n <= Len(d)
        /\ (c = "var" => AtJump(d, t)) /\ (c # "var" => t = 0)
    BY <1>2, AddsTest DEF n
  <1>. HIDE DEF t
  <1>8. Changes(code, d, {}, Note(f))
    <2>1. Changes(code, d, {}, {} \cup ({t} \ {0})) BY <1>1, <1>2, <1>7, ChangesTwice
    <2>. QED BY <2>1, <1>6
  <1>9. Changes(code, d \o skip, {}, Note(f)) BY <1>1, <1>3, <1>8, AddsClosed
  <1>10. Changes(d, d \o skip, {}, {}) BY <1>3, <1>7, JoinChanges
  <1>11. \A p \in Note(f) : AtJump(code', p)
    <2>. SUFFICES ASSUME NEW p \in Note(f) PROVE AtJump(d \o skip, p) BY <1>4
    <2>1. AtJump(d, p) BY <1>6, <1>7
    <2>. QED BY <2>1, <1>7, <1>10, AtJumpStays
  <1>12. Len(d) \in Nat /\ Len(d) <= Len(d \o skip) /\ Len(d \o skip) \in Nat
    <2>1. Len(d) <= Len(d \o skip) /\ IsCode(d \o skip) BY <1>10 DEF Changes
    <2>. HIDE DEF d
    <2>. QED BY <2>1, <1>7, CodeFacts
  <1>13. code' = d \o skip BY <1>4
  <1>. HIDE DEF d
  <1>14. /\ f.stm \in Loops /\ Len(code) <= f.saved /\ f.saved <= Len(code')
         /\ Changes(code, code', {}, Note(f))
    BY <1>1, <1>2, <1>6, <1>7, <1>9, <1>12, <1>13 DEF Loops
  <1>. QED BY <1>4, <1>5, <1>6, <1>11, <1>14, LoopEnters

(* A loop's frame with another jump.                                       *)
LEMMA FrameWithJump ==
  ASSUME NEW k, NEW c, NEW a, NEW b, NEW n, NEW i, NEW v, NEW j, NEW r,
         r = [stm |-> k, cond |-> c, lstart |-> a, ldepth |-> b, saved |-> n,
              jump |-> i, var |-> v]
  PROVE  [r EXCEPT !.jump = j] =
           [stm |-> k, cond |-> c, lstart |-> a, ldepth |-> b, saved |-> n,
            jump |-> j, var |-> v]
  OBVIOUS

(* The frame foreachstm begins with.                                       *)
LEMMA ForeachFrame ==
  ASSUME NEW n, NEW j
  PROVE  [LoopFrame("foreach", "none", n) EXCEPT !.jump = j] =
           [stm |-> "foreach", cond |-> "none", lstart |-> lstart, ldepth |-> ldepth,
            saved |-> n, jump |-> j, var |-> FALSE]
  <1>. DEFINE r == LoopFrame("foreach", "none", n)
              i == Tested("none", n)
              k == "foreach"
              c == "none"
              v == FALSE
  <1>1. r = [stm |-> k, cond |-> c, lstart |-> lstart, ldepth |-> ldepth,
             saved |-> n, jump |-> i, var |-> v]
    BY DEF LoopFrame
  <1>2. ASSUME NEW x, x = v
        PROVE  [r EXCEPT !.jump = j] =
                 [stm |-> k, cond |-> c, lstart |-> lstart, ldepth |-> ldepth,
                  saved |-> n, jump |-> j, var |-> x]
    <2>. HIDE DEF r, i, v, k, c
    <2>. QED BY <1>1, <1>2, FrameWithJump
  <1>. QED BY <1>2 DEF v

(* foreachstm begins: the jump behind OP_FOREACH is noted.                 *)
LEMMA ForeachEnters ==
  ASSUME Shape, Foreach
  PROVE  \E f : Enters(f)
  <1>. DEFINE n == Len(code) + 1
              f == [LoopFrame("foreach", "none", n) EXCEPT !.jump = n + 3]
              d == <<Ins("push", 3), Ins("push", 1), Ins("each", 0), Jump>>
  <1>1. IsCode(code) /\ Len(code) \in Nat /\ n \in Nat BY CodeLength
  <1>2. f = [stm |-> "foreach", cond |-> "none", lstart |-> lstart, ldepth |-> ldepth,
             saved |-> n, jump |-> n + 3, var |-> FALSE]
    BY ForeachFrame
  <1>3. cs' = Append(cs, f) /\ code' = code \o d BY DEF Foreach, Enter
  <1>4. PICK s, g : StartLoop(s, Scope(TRUE, FALSE, g)) BY DEF Foreach
  <1>. DEFINE X == {"none", lstart, ldepth, FALSE}
  <1>. HIDE DEF f
  <1>5. f \in [stm : Loops, cond : X, lstart : X, ldepth : X, saved : Nat, jump : Nat, var : X]
    BY <1>1, <1>2 DEF Loops
  <1>6. f.stm = "foreach" /\ f.saved = n /\ Note(f) = {n + 3}
    BY <1>1, <1>2 DEF Note
  <1>7. FrameOK(f)
    <2>. HIDE DEF X
    <2>. QED BY <1>5, <1>6 DEF FrameOK
  <1>. DEFINE Y == {"push", "each", "jmp", 0, 1, 3}
  <1>8. d \in Seq([op : Y, n : Y, to : Y]) BY DEF Ins, Jump
  <1>9. Len(d) = 4 /\ d[1].op = "push" /\ d[2].op = "push" /\ d[3].op = "each" /\ d[4].op = "jmp"
    BY DEF Ins, Jump
  <1>. HIDE DEF d, Y
  <1>10. IsCode(d) BY <1>8 DEF IsCode
  <1>11. \A i \in 1 .. Len(d) : ~Open(d, i)
    <2>1. \A i \in 1 .. Len(d) : i = 1 \/ i = 2 \/ i = 3 \/ i = 4 BY <1>9
    <2>. QED BY <2>1, <1>9 DEF Open
  <1>12. Changes(code, code', {}, Note(f)) BY <1>1, <1>3, <1>10, <1>11, JoinChanges
  <1>13. /\ Len(code \o d) = Len(code) + Len(d)
         /\ \A j \in 1 .. Len(d) : (code \o d)[Len(code) + j] = d[j]
    BY <1>1, <1>10, CodeJoined
  <1>14. Len(code') = Len(code) + 4 /\ code'[Len(code) + 4].op = "jmp"
    BY <1>3, <1>9, <1>13
  <1>15. AtJump(code', n + 3) BY <1>1, <1>14 DEF AtJump, JumpOps
  <1>16. f.stm \in Loops /\ Len(code) <= f.saved /\ f.saved <= Len(code')
    BY <1>1, <1>6, <1>14 DEF Loops
  <1>17. \A p \in Note(f) : AtJump(code', p) BY <1>6, <1>15
  <1>. QED BY <1>3, <1>4, <1>7, <1>12, <1>16, <1>17, LoopEnters

(* switchstm begins: nothing is noted before the first case.               *)
LEMMA SwitchEnters ==
  ASSUME Shape, Switch
  PROVE  \E f : Enters(f)
  <1>. DEFINE f == SwitchFrame
              X == {"none", FALSE, locals}
  <1>1. IsCode(code) /\ Len(code) \in Nat BY CodeLength
  <1>2. f \in [stm : {"switch"}, state : X, patch : Nat, dflt : X, matched : X,
               saved : Nat, locals : X]
    BY <1>1 DEF SwitchFrame
  <1>3. f.stm = "switch" /\ f.state = "none" /\ f.saved = Len(code) BY DEF SwitchFrame
  <1>4. cs' = Append(cs, f) /\ breaks' = Append(breaks, <<>>) BY DEF Switch, Enter
  <1>5. \E x : scopes' = Append(scopes, x) BY DEF Switch
  <1>6. /\ Changes(code, code', {}, {}) /\ Len(code') = Len(code) + 1
    BY <1>1, AddsOne DEF Switch, Ins
  <1>. HIDE DEF f, X
  <1>7. FrameOK(f) BY <1>2, <1>3 DEF FrameOK
  <1>8. Note(f) = {} /\ f.stm \in BreakStms /\ f.stm # "if" BY <1>3 DEF Note, BreakStms
  <1>9. Len(code) <= f.saved /\ f.saved <= Len(code') BY <1>1, <1>3, <1>6
  <1>10. Enters(f) BY <1>4, <1>5, <1>6, <1>7, <1>8, <1>9 DEF Enters
  <1>. QED BY <1>10

(* The statements that only add code, and breakstm.                        *)
LEMMA OneAdded ==
  ASSUME Shape, NEW a, a \notin {"jif", "break"}, NEW b, code' = Append(code, Ins(a, b)),
         UNCHANGED <<cs, scopes, breaks>>
  PROVE  Adds
  <1>1. Changes(code, code', {}, {}) BY CodeLength, AddsOne DEF Ins
  <1>. QED BY <1>1 DEF Adds

(* A step that leaves the code, the frames, the scopes and the lists       *)
(* alone.                                                                  *)
LEMMA NoneAdded ==
  ASSUME Shape, UNCHANGED <<code, cs, scopes, breaks>>
  PROVE  Adds
  BY CodeLength, NoChange DEF Adds

(* An expression statement has no open jumps when it ends.                 *)
LEMMA ExprstmAdds ==
  ASSUME Shape, Exprstm
  PROVE  Adds
  BY OneAdded DEF Exprstm, Finish, cflow, Use

(* A declaration.                                                          *)
LEMMA VardecAdds ==
  ASSUME Shape, Vardec
  PROVE  Adds
  BY OneAdded DEF Vardec, Finish, cflow, Var

(* A return, whether its code is kept or dropped.                          *)
LEMMA ReturnstmAdds ==
  ASSUME Shape, Returnstm
  PROVE  Adds
  <1>1. UNCHANGED <<cs, scopes, breaks>> BY DEF Returnstm, Finish, cflow
  <1>2. code' = code \/ code' = Append(code, Ins("ret", 0)) BY DEF Returnstm
  <1>. QED BY <1>1, <1>2, OneAdded, NoneAdded

(* The implicit return.                                                    *)
LEMMA CompileEndAdds ==
  ASSUME Shape, CompileEnd
  PROVE  Adds
  <1>1. UNCHANGED <<cs, scopes, breaks>> BY DEF CompileEnd, cflow
  <1>2. code' = code \/ code' = Append(code, Ins("ret", 0)) BY DEF CompileEnd
  <1>. QED BY <1>1, <1>2, OneAdded, NoneAdded

(* continue jumps back, to a place that is known.                          *)
LEMMA ContinuestmAdds ==
  ASSUME Shape, Continuestm
  PROVE  Adds
  <1>1. UNCHANGED <<cs, scopes, breaks>> BY DEF Continuestm, Finish, cflow
  <1>2. PICK n, t : code' = code \o Pops(n) \o <<Loop(t)>> BY DEF Continuestm
  <1>. DEFINE p == Pops(n)
              l == <<Loop(t)>>
  <1>3. IsCode(p) /\ \A i \in 1 .. Len(p) : ~Open(p, i) BY PopsFacts
  <1>4. IsCode(l) /\ \A i \in 1 .. Len(l) : ~Open(l, i) BY LoopFacts
  <1>5. code' = code \o p \o l BY <1>2
  <1>. HIDE DEF p, l
  <1>6. Changes(code, code, {}, {}) /\ IsCode(code) BY CodeLength, NoChange
  <1>7. Changes(code, code \o p, {}, {}) BY <1>3, <1>6, AddsClosed
  <1>8. Changes(code, (code \o p) \o l, {}, {}) BY <1>4, <1>6, <1>7, AddsClosed
  <1>. QED BY <1>1, <1>5, <1>8 DEF Adds

(* The last frame of some kinds.                                           *)
LEMMA LastFrame ==
  ASSUME NEW K, Len(cs) \in Nat
  PROVE  /\ Frame(K) \in 0 .. Len(cs)
         /\ Frame(K) # 0 => cs[Frame(K)].stm \in K
  <1>. DEFINE I == {i \in 1 .. Len(cs) : cs[i].stm \in K}
  <1>1. Frame(K) = IF I # {} THEN Max(I) ELSE 0 BY DEF Frame, SelectLastInSeq
  <1>2. CASE I = {} BY <1>1, <1>2
  <1>3. CASE I # {}
    <2>1. \E i \in I : \A j \in I : i >= j
      <3>1. I \subseteq 0 .. Len(cs) OBVIOUS
      <3>. HIDE DEF I
      <3>. QED BY <1>3, <3>1, GreatestExists
    <2>2. Max(I) \in I BY <2>1 DEF Max
    <2>. QED BY <1>1, <1>3, <2>2
  <1>. QED BY <1>2, <1>3

(* Where a break is allowed there is a list for it.                        *)
LEMMA BreakHasList ==
  ASSUME Shape, InWhat # 0
  PROVE  breaks # <<>>
  <1>. DEFINE I == {i \in 1 .. Len(scopes) : scopes[i].isloop \/ scopes[i].isswitch}
  <1>1. InWhat = IF I # {} THEN Max(I) ELSE 0 BY DEF InWhat, SelectLastInSeq
  <1>2. PICK m \in 1 .. Len(scopes) : scopes[m].isloop \/ scopes[m].isswitch BY <1>1
  <1>3. PICK q : Opened(q, cs, scopes) BY DEF Shape
  <1>4. m # 1 /\ cs[q[m]].stm \in BreakStms BY <1>2, <1>3 DEF Opened
  <1>5. m \in 2 .. Len(scopes)
    <2>1. Len(scopes) \in Nat BY <1>3, LenProperties DEF Opened
    <2>. QED BY <2>1, <1>4
  <1>6. q[m] \in 1 .. Len(cs) BY <1>3, <1>5 DEF Opened, Counts
  <1>7. PICK g : Lists(g, cs, breaks) BY DEF Shape
  <1>8. PICK k \in 1 .. Len(breaks) : g[k] = q[m]
    BY <1>4, <1>6, <1>7 DEF Lists, Counts
  <1>. QED BY <1>8

(* breakstm, with the list of the loop or switch around it.                *)
LEMMA BreakstmBreaks ==
  ASSUME Shape, Breakstm
  PROVE  Breaks
  <1>1. UNCHANGED <<cs, scopes>> /\ InWhat # 0 BY DEF Breakstm, Finish
  <1>2. PICK n : code' = code \o Pops(n) \o <<Ins("break", 0)>> BY DEF Breakstm
  <1>. DEFINE p == Pops(n)
              b == <<Ins("break", 0)>>
              d == code \o p
  <1>3. IsCode(p) /\ \A i \in 1 .. Len(p) : ~Open(p, i) BY PopsFacts
  <1>4. code' = d \o b BY <1>2
  <1>5. IsCode(b) BY OneInstruction DEF Ins
  <1>6. Len(b) = 1 /\ b[1].op = "break" BY DEF Ins
  <1>. HIDE DEF p, b, d
  <1>7. Changes(code, code, {}, {}) /\ IsCode(code) /\ Len(code) \in Nat
    BY CodeLength, NoChange
  <1>8. Changes(code, d, {}, {}) BY <1>3, <1>7, AddsClosed DEF d
  <1>9. IsCode(d) /\ Len(code) <= Len(d) /\ Len(d) \in Nat BY <1>8, CodeFacts DEF Changes
  <1>10. /\ Len(code') = Len(d) + 1 /\ IsCode(code')
         /\ code'[Len(d) + 1].op = "break"
    <2>1. /\ IsCode(d \o b) /\ Len(d \o b) = Len(d) + Len(b)
          /\ \A j \in 1 .. Len(b) : (d \o b)[Len(d) + j] = b[j]
      BY <1>5, <1>9, CodeJoined
    <2>2. 1 \in 1 .. Len(b) BY <1>6
    <2>. QED BY <2>1, <2>2, <1>4, <1>6
  <1>11. Changes(d, code', {}, {Len(code')})
    <2>1. \A i \in 1 .. Len(b) : Len(d) + i \in {Len(code')} BY <1>6, <1>9, <1>10
    <2>. QED BY <2>1, <1>4, <1>5, <1>9, JoinChanges
  <1>12. Changes(code, code', {}, {Len(code')})
    <2>1. Changes(code, code', {}, {} \cup {Len(code')}) BY <1>7, <1>8, <1>11, ChangesTwice
    <2>. QED BY <2>1
  <1>13. Len(code) < Len(code') BY <1>7, <1>9, <1>10
  <1>14. code'[Len(code')].op \in JumpOps BY <1>10 DEF JumpOps
  <1>15. breaks # <<>> BY <1>1, BreakHasList
  <1>16. breaks' = Append(Front(breaks), Append(Last(breaks), Len(code'))) BY DEF Breakstm
  <1>17. ASSUME "dead_break" \in Avoid, NEW i \in 1 .. Len(cs),
                \A j \in i .. Len(cs) : cs[j].stm \notin BreakStms
         PROVE  ~Trims(cs[i])
    <2>. DEFINE F == Frame(Loops \cup {"switch"})
    <2>1. Len(cs) \in Nat BY StackFacts DEF Shape
    <2>2. F \in 0 .. Len(cs) /\ (F # 0 => cs[F].stm \in BreakStms)
      BY <2>1, LastFrame DEF BreakStms
    <2>3. \A k \in F + 1 .. Len(cs) : cs[k].stm = "if" => cs[k].cond # "false"
      BY <1>17 DEF Breakstm
    <2>. HIDE DEF F
    <2>4. ~(F >= i)
      <3>1. F >= i => F \in i .. Len(cs) /\ F # 0 BY <2>1, <2>2
      <3>. QED BY <3>1, <2>2, <1>17
    <2>5. i \in F + 1 .. Len(cs) /\ i \in i .. Len(cs) BY <2>1, <2>2, <2>4
    <2>. QED BY <2>3, <2>5, <1>17 DEF Trims
  <1>. QED BY <1>1, <1>12, <1>13, <1>14, <1>15, <1>16, <1>17 DEF Breaks

(***************************************************************************)
(* The middle of a statement: an if after its first branch, a switch at a  *)
(* label.                                                                  *)
(***************************************************************************)
LEMMA TopFacts ==
  ASSUME Shape, cs # <<>>
  PROVE  FrameOK(Top)
  BY StackFacts DEF Shape, Top

(* The jump around the second branch, and the failed test's patch.         *)
LEMMA JumpAround ==
  ASSUME NEW c, IsCode(c), NEW S
  PROVE  /\ Changes(c, Patch(Append(c, Jump), S), S, {})
         /\ IsCode(Patch(Append(c, Jump), S)) /\ Len(Patch(Append(c, Jump), S)) = Len(c) + 1
         /\ AtJump(Patch(Append(c, Jump), S), Len(c) + 1)
  <1>. DEFINE d == Append(c, Jump)
              e == Patch(d, S)
  <1>1. Len(c) \in Nat BY CodeFacts
  <1>2. /\ Changes(c, d, {}, {}) /\ IsCode(d) /\ Len(d) = Len(c) + 1
        /\ d[Len(c) + 1].op = "jmp"
    BY AddsOne DEF Jump, Ins
  <1>. HIDE DEF d
  <1>3. Changes(c, e, {} \cup S, {}) BY <1>2, PatchesMore
  <1>4. IsCode(e) /\ Len(e) = Len(d) BY <1>2, CodePatched
  <1>5. AtJump(d, Len(c) + 1) BY <1>1, <1>2 DEF AtJump, JumpOps
  <1>6. AtJump(e, Len(c) + 1)
    <2>1. Changes(d, e, S, {}) BY <1>2, PatchChanges
    <2>. QED BY <2>1, <1>2, <1>5, AtJumpStays
  <1>7. {} \cup S = S OBVIOUS
  <1>. QED BY <1>2, <1>3, <1>4, <1>6, <1>7 DEF d

(* ifstm after its first branch, with a second to come.                    *)
LEMMA ThenGoesOn ==
  ASSUME Shape, cs # <<>>, Then(TRUE)
  PROVE  \E f : GoesOn(f)
  <1>. DEFINE f == [Top EXCEPT !.branch = "else", !.jump = Here]
  <1>1. IsCode(code) /\ Len(code) \in Nat BY CodeLength
  <1>2. /\ Top.stm = "if" /\ cs' = Append(Front(cs), f)
        /\ breaks' = breaks /\ scopes' = scopes
        /\ code' = IF Top.cond = "false" THEN SavedCode(Top)
                   ELSE Patch(Append(code, Jump), {Top.jump})
    BY DEF Then, cflow
  <1>3. FrameOK(Top) BY TopFacts
  <1>4. Here \in Nat /\ Here = Len(code) + 1 BY <1>1 DEF Here
  <1>5. FrameOK(f) /\ f.stm = "if" /\ f.cond = Top.cond /\ f.saved = Top.saved /\ f.jump = Here
    <2>1. PICK X :
            Top \in [stm : {"if"}, branch : X, cond : X, jump : Nat, saved : Nat, locals : X]
      BY <1>2, <1>3 DEF FrameOK, Loops
    <2>. DEFINE Y == X \cup {"else"}
    <2>2. f \in [stm : {"if"}, branch : Y, cond : Y, jump : Nat, saved : Nat, locals : Y]
      BY <2>1, <1>4
    <2>3. f.stm = "if" /\ f.cond = Top.cond /\ f.saved = Top.saved /\ f.jump = Here
      BY <2>1
    <2>. HIDE DEF Y, f
    <2>. QED BY <2>2, <2>3 DEF FrameOK
  <1>. HIDE DEF f
  <1>6. Note(f) = IF Top.cond = "false" THEN {} ELSE {Len(code) + 1}
    <2>1. Note(f) = IF Top.cond = "false" THEN {} ELSE {Here} \ {0}
      BY <1>5 DEF Note
    <2>2. Here = Len(code) + 1 /\ {Here} \ {0} = {Here} BY <1>1, <1>4
    <2>. QED BY <2>1, <2>2
  <1>7. CASE Top.cond = "false"
    <2>1. IsCode(SavedCode(Top)) BY <1>2, SavedFacts
    <2>2. code' = SavedCode(Top) BY <1>2, <1>7
    <2>3. Changes(SavedCode(Top), code', {}, {}) BY <2>1, <2>2, NoChange
    <2>4. Note(f) = {} BY <1>6, <1>7
    <2>5. Deletes BY <1>2, <1>7 DEF Deletes
    <2>6. \A p \in Note(f) : AtJump(code', p) BY <2>4
    <2>7. GoesOn(f) BY <1>2, <1>5, <2>3, <2>4, <2>5, <2>6 DEF GoesOn
    <2>. QED BY <2>7
  <1>8. CASE Top.cond # "false"
    <2>1. code' = Patch(Append(code, Jump), {Top.jump}) BY <1>2, <1>8
    <2>2. Changes(code, code', {Top.jump}, {}) /\ AtJump(code', Len(code) + 1)
      BY <1>1, <2>1, JumpAround
    <2>3. Note(Top) \subseteq {Top.jump} BY <1>2, <1>3, FrameFacts
    <2>4. Changes(code, code', Note(Top), Note(f)) BY <2>2, <2>3, Weaker
    <2>5. \A p \in Note(f) : AtJump(code', p) BY <1>6, <1>8, <2>2
    <2>6. GoesOn(f) BY <1>2, <1>5, <2>4, <2>5 DEF GoesOn
    <2>. QED BY <2>6
  <1>. QED BY <1>7, <1>8

(* The frame of a switch after a label.                                    *)
LEMMA SwitchFacts ==
  ASSUME NEW X, NEW f,
         f \in [stm : {"switch"}, state : X, patch : Nat, dflt : X, matched : X,
                saved : Nat, locals : X],
         f.state = "case" => f.patch > f.saved
  PROVE  FrameOK(f) /\ Note(f) = IF f.state = "case" THEN {f.patch} ELSE {}
  <1>1. FrameOK(f) BY DEF FrameOK
  <1>2. f.stm = "switch" OBVIOUS
  <1>. QED BY <1>1, <1>2 DEF Note

(* The code of a label, with a test of which the last instruction may be   *)
(* open: the test before it is patched.                                    *)
LEMMA LabelFacts ==
  ASSUME Shape, NEW r, FrameOK(r), r.stm = "switch", NEW test, IsCode(test),
         \A i \in 1 .. Len(test) : Open(test, i) => i = Len(test),
         NEW d, d = Label(test, r)
  PROVE  /\ Changes(code, d, Note(r), IF test = <<>> THEN {} ELSE {Len(d)})
         /\ Len(d) >= Len(code) + Len(test)
         /\ test # <<>> => d[Len(d)].op = test[Len(test)].op
  <1>. DEFINE fall == r.state # "none"
              S == IF r.state = "case" THEN {r.patch} ELSE {}
              c == IF fall THEN Patch(Append(code, Jump), S) ELSE code
              T == IF fall THEN {Here} ELSE {}
              N == IF test = <<>> THEN {} ELSE {Len(d)}
  <1>1. IsCode(code) /\ Len(code) \in Nat BY CodeLength
  <1>2. Note(r) = S BY DEF Note
  <1>3. d = Patch(c \o test, T) BY DEF Label
  <1>4. Changes(code, c, S, {}) /\ IsCode(c) /\ Len(c) >= Len(code) /\ Len(c) \in Nat
    <2>1. CASE fall
      <3>1. c = Patch(Append(code, Jump), S) BY <2>1
      <3>. HIDE DEF c, S
      <3>. QED BY <1>1, <3>1, JumpAround
    <2>2. CASE ~fall
      <3>1. c = code /\ S = {} BY <2>2
      <3>. HIDE DEF c, S
      <3>. QED BY <1>1, <3>1, NoChange
    <2>. QED BY <2>1, <2>2
  <1>. HIDE DEF S, c, T
  <1>5. Len(test) \in Nat /\ (test # <<>> => Len(test) \in 1 .. Len(test))
    <2>1. PICK X : test \in Seq([op : X, n : X, to : X]) BY DEF IsCode
    <2>2. Len(test) \in Nat BY <2>1, LenProperties
    <2>3. test # <<>> => Len(test) # 0 BY <2>1, EmptySeq
    <2>. QED BY <2>2, <2>3
  <1>6. /\ IsCode(c \o test) /\ Len(c \o test) = Len(c) + Len(test)
        /\ \A j \in 1 .. Len(test) : (c \o test)[Len(c) + j] = test[j]
    BY <1>4, CodeJoined
  <1>7. /\ IsCode(d) /\ Len(d) = Len(c) + Len(test)
        /\ \A i \in 1 .. Len(d) : d[i].op = (c \o test)[i].op
    <2>. DEFINE x == c \o test
    <2>1. IsCode(x) /\ Len(x) = Len(c) + Len(test) /\ d = Patch(x, T) BY <1>3, <1>6
    <2>. HIDE DEF x
    <2>2. IsCode(d) /\ Len(d) = Len(x) /\ \A i \in 1 .. Len(x) : d[i].op = x[i].op
      BY <2>1, CodePatched
    <2>. QED BY <2>1, <2>2 DEF x
  <1>8. \A i \in 1 .. Len(test) : Open(test, i) => Len(c) + i \in N
    <2>1. \A i \in 1 .. Len(test) : test # <<>> OBVIOUS
    <2>. QED BY <2>1, <1>7
  <1>. HIDE DEF N
  <1>9. Changes(c, c \o test, {}, N) BY <1>4, <1>8, JoinChanges
  <1>10. Changes(code, c \o test, S, {} \cup N) BY <1>1, <1>4, <1>9, ChangesTwice
  <1>11. Changes(code, d, S \cup T, {} \cup N) BY <1>1, <1>3, <1>10, PatchesMore
  <1>12. Changes(code, d, S, N) BY <1>11, Weaker
  <1>13. ASSUME test # <<>> PROVE d[Len(d)].op = test[Len(test)].op
    <2>1. Len(d) \in 1 .. Len(d) BY <1>4, <1>5, <1>7, <1>13
    <2>. QED BY <2>1, <1>5, <1>6, <1>7, <1>13
  <1>14. Len(d) >= Len(code) + Len(test) BY <1>1, <1>4, <1>5, <1>7
  <1>. QED BY <1>2, <1>12, <1>13, <1>14 DEF N

(* default patches the test before it and has none of its own.             *)
LEMMA DefaultGoesOn ==
  ASSUME Shape, Default
  PROVE  \E f : GoesOn(f)
  <1>. DEFINE f == [Top EXCEPT !.state = "default", !.dflt = TRUE]
  <1>1. /\ cs # <<>> /\ Top.stm = "switch" /\ cs' = Append(Front(cs), f)
        /\ code' = Label(<<>>, Top) /\ breaks' = breaks /\ scopes' = scopes
    BY DEF Default, AtLabel, cflow
  <1>2. FrameOK(Top) BY <1>1, TopFacts
  <1>3. /\ FrameOK(f) /\ f.stm = "switch" /\ f.saved = Top.saved /\ Note(f) = {}
    <2>1. PICK X :
           Top \in [stm : {"switch"}, state : X, patch : Nat, dflt : X, matched : X,
                    saved : Nat, locals : X]
      BY <1>1, <1>2 DEF FrameOK, Loops
    <2>. DEFINE Y == X \cup {"default", TRUE}
    <2>2. f \in [stm : {"switch"}, state : Y, patch : Nat, dflt : Y, matched : Y,
                saved : Nat, locals : Y]
      BY <2>1
    <2>3. f.stm = "switch" /\ f.state = "default" /\ f.saved = Top.saved BY <2>1
    <2>. HIDE DEF f, Y
    <2>4. f.state # "case" BY <2>3
    <2>. QED BY <2>2, <2>3, <2>4, SwitchFacts
  <1>. HIDE DEF f
  <1>4. Changes(code, code', Note(Top), Note(f))
    <2>1. IsCode(<<>>) /\ \A i \in 1 .. Len(<<>>) : Open(<<>>, i) => i = Len(<<>>)
      BY EmptyCode
    <2>. DEFINE e == <<>>
    <2>2. code' = Label(e, Top) BY <1>1
    <2>3. e = <<>> OBVIOUS
    <2>4. IsCode(e) /\ \A i \in 1 .. Len(e) : Open(e, i) => i = Len(e) BY <2>1
    <2>. HIDE DEF e
    <2>5. Changes(code, code', Note(Top), IF e = <<>> THEN {} ELSE {Len(code')})
      BY <1>1, <1>2, <2>2, <2>4, LabelFacts
    <2>. QED BY <2>3, <2>5, <1>3
  <1>5. \A p \in Note(f) : AtJump(code', p) BY <1>3
  <1>6. GoesOn(f) BY <1>1, <1>3, <1>4, <1>5 DEF GoesOn
  <1>. QED BY <1>6

(* case patches the test before it and notes its own, or deletes the code. *)
LEMMA CaseGoesOn ==
  ASSUME Shape, Case
  PROVE  \E f : GoesOn(f)
  <1>1. /\ cs # <<>> /\ Top.stm = "switch" /\ breaks' = breaks /\ scopes' = scopes
    BY DEF Case, AtLabel, cflow
  <1>2. PICK m \in Matches :
          /\ code' = IF m THEN SavedCode(Top) ELSE Label(Test("var"), Top)
          /\ cs' = Append(Front(cs),
                     [Top EXCEPT !.state = IF m THEN "match" ELSE "case",
                                 !.patch = IF m THEN @ ELSE Len(code'),
                                 !.matched = @ \/ m])
    BY DEF Case
  <1>. DEFINE t == IF m THEN "match" ELSE "case"
              p == IF m THEN Top.patch ELSE Len(code')
              v == Top.matched \/ m
              f == [Top EXCEPT !.state = t, !.patch = p, !.matched = v]
  <1>3. cs' = Append(Front(cs), f) BY <1>2
  <1>4. FrameOK(Top) BY <1>1, TopFacts
  <1>5. PICK X :
          Top \in [stm : {"switch"}, state : X, patch : Nat, dflt : X, matched : X,
                   saved : Nat, locals : X]
    BY <1>1, <1>4 DEF FrameOK, Loops
  <1>6. Top.patch \in Nat /\ Top.saved \in Nat BY <1>5
  <1>. HIDE DEF t, p, v
  <1>. DEFINE Y == X \cup {t, v}
  <1>7. ASSUME p \in Nat
        PROVE  /\ f \in [stm : {"switch"}, state : Y, patch : Nat, dflt : Y, matched : Y,
                         saved : Nat, locals : Y]
               /\ f.stm = "switch" /\ f.state = t /\ f.patch = p /\ f.saved = Top.saved
    BY <1>5, <1>7
  <1>. HIDE DEF f, Y
  <1>8. CASE m
    <2>1. t # "case" /\ p \in Nat BY <1>6, <1>8 DEF t, p
    <2>2. FrameOK(f) /\ f.stm = "switch" /\ f.saved = Top.saved /\ Note(f) = {}
      BY <1>7, <2>1, SwitchFacts
    <2>3. code' = SavedCode(Top) BY <1>2, <1>8
    <2>4. Changes(SavedCode(Top), code', {}, {}) BY <1>1, <2>3, SavedFacts, NoChange
    <2>5. "switch_match" \notin Avoid BY <1>8 DEF Matches
    <2>6. Deletes BY <1>1, <2>5 DEF Deletes
    <2>7. \A x \in Note(f) : AtJump(code', x) BY <2>2
    <2>8. GoesOn(f) BY <1>1, <1>3, <2>2, <2>4, <2>6, <2>7 DEF GoesOn
    <2>. QED BY <2>8
  <1>9. CASE ~m
    <2>. DEFINE d == Test("var")
    <2>1. code' = Label(d, Top) BY <1>2, <1>9
    <2>2. IsCode(d) /\ Len(d) = 2 /\ d[2].op = "jif"
          /\ \A i \in 1 .. Len(d) : Open(d, i) => i = Len(d)
      <3>. DEFINE z == "var"
      <3>1. z = "var" /\ 0 \in Nat OBVIOUS
      <3>. HIDE DEF z
      <3>2. IsCode(Test(z)) /\ Len(Test(z)) = 2 /\ Test(z)[2].op = "jif"
            /\ \A i \in 1 .. Len(Test(z)) : Open(Test(z), i) => i = 2
        BY <3>1, TestFacts
      <3>. QED BY <3>2 DEF z
    <2>. HIDE DEF d
    <2>3. d # <<>> BY <2>2
    <2>4. /\ Changes(code, code', Note(Top), IF d = <<>> THEN {} ELSE {Len(code')})
          /\ Len(code') >= Len(code) + Len(d)
          /\ d # <<>> => code'[Len(code')].op = d[Len(d)].op
      <3>1. PICK r : r = Top OBVIOUS
      <3>2. PICK e : e = code' OBVIOUS
      <3>3. /\ Shape /\ FrameOK(r) /\ r.stm = "switch" /\ IsCode(d) /\ e = Label(d, r)
            /\ \A i \in 1 .. Len(d) : Open(d, i) => i = Len(d)
        BY <1>1, <1>4, <2>1, <2>2, <3>1, <3>2
      <3>4. Changes(code, e, Note(r), IF d = <<>> THEN {} ELSE {Len(e)})
        BY ONLY <3>3, LabelFacts
      <3>5. Len(e) >= Len(code) + Len(d) BY ONLY <3>3, LabelFacts
      <3>6. d # <<>> => e[Len(e)].op = d[Len(d)].op BY ONLY <3>3, LabelFacts, ZenonT(40)
      <3>. QED BY <3>1, <3>2, <3>4, <3>5, <3>6
    <2>5. Changes(code, code', Note(Top), {Len(code')}) /\ code'[Len(code')].op = "jif"
      BY <2>2, <2>3, <2>4
    <2>6. Len(code') \in Nat /\ Len(code) \in Nat
      BY <2>5, CodeLength, CodeFacts DEF Changes
    <2>7. Top.saved <= Len(code) BY <1>1, SavedFacts
    <2>8. p \in Nat /\ p > Top.saved /\ p = Len(code') /\ t = "case"
      BY <1>6, <1>9, <2>2, <2>4, <2>6, <2>7 DEF p, t
    <2>9. FrameOK(f) /\ f.stm = "switch" /\ f.saved = Top.saved /\ Note(f) = {Len(code')}
      <3>1. f.state = "case" => f.patch > f.saved BY <1>7, <2>8
      <3>2. FrameOK(f) /\ Note(f) = IF f.state = "case" THEN {f.patch} ELSE {}
        BY <1>7, <2>8, <3>1, SwitchFacts
      <3>. QED BY <1>7, <2>8, <3>2
    <2>10. \A x \in Note(f) : AtJump(code', x)
      BY <2>2, <2>4, <2>5, <2>6, <2>9, CodeLength DEF AtJump, JumpOps
    <2>11. GoesOn(f) BY <1>1, <1>3, <2>5, <2>9, <2>10 DEF GoesOn
    <2>. QED BY <2>11
  <1>10. m \in BOOLEAN BY DEF Matches
  <1>. QED BY <1>8, <1>9, <1>10

(***************************************************************************)
(* The statements that end.                                                *)
(***************************************************************************)
LEMMA ScopePopsFacts ==
  IsCode(ScopePops) /\ \A i \in 1 .. Len(ScopePops) : ~Open(ScopePops, i)
  <1>1. PICK n : ScopePops = Pops(n) BY DEF ScopePops
  <1>. QED BY <1>1, PopsFacts

(* A block ends.                                                           *)
LEMMA BlockLeaves ==
  ASSUME Shape, EndBlock
  PROVE  Leaves
  <1>1. /\ cs # <<>> /\ Top.stm = "block" /\ cs' = Front(cs) /\ breaks' = breaks
        /\ scopes' = Front(scopes) /\ code' = code \o ScopePops
    BY DEF EndBlock, Leave, EndScope, cflow
  <1>2. Top.stm \notin BreakStms /\ Top.stm # "if" /\ Top.stm # "switch"
    BY <1>1 DEF BreakStms, Loops
  <1>3. Note(Top) = {} BY <1>1 DEF Note
  <1>4. Ended = {} BY <1>2, <1>3 DEF Ended
  <1>5. Changes(code, code', {}, {})
    <2>1. IsCode(code) /\ Changes(code, code, {}, {}) BY CodeLength, NoChange
    <2>. QED BY <1>1, <2>1, ScopePopsFacts, AddsClosed
  <1>. QED BY <1>1, <1>2, <1>3, <1>4, <1>5 DEF Leaves

(* An if statement ends after its first branch or after its second.        *)
LEMMA IfLeaves ==
  ASSUME Shape, cs # <<>>, Top.stm = "if", cs' = Front(cs), UNCHANGED <<breaks, scopes>>,
         \/ Changes(code, code', Note(Top), {})
         \/ Top.cond = "false" /\ Changes(SavedCode(Top), code', {}, {})
  PROVE  Leaves
  <1>1. Top.stm \notin BreakStms /\ Top.stm # "switch" BY DEF BreakStms, Loops
  <1>2. Ended = Note(Top) BY <1>1 DEF Ended
  <1>3. Top.cond = "false" => Deletes BY DEF Deletes
  <1>. QED BY <1>1, <1>2, <1>3 DEF Leaves

(* ifstm without a second branch.                                          *)
LEMMA ThenLeaves ==
  ASSUME Shape, cs # <<>>, Then(FALSE)
  PROVE  Leaves
  <1>1. /\ Top.stm = "if" /\ cs' = Front(cs) /\ UNCHANGED <<breaks, scopes>>
        /\ code' = IF Top.cond = "false" THEN SavedCode(Top)
                   ELSE Patch(Append(code, Jump), {Top.jump})
    BY DEF Then, Leave, cflow
  <1>2. CASE Top.cond = "false"
    <2>1. code' = SavedCode(Top) /\ IsCode(SavedCode(Top)) BY <1>1, <1>2, SavedFacts
    <2>2. Changes(SavedCode(Top), code', {}, {}) BY <2>1, NoChange
    <2>. QED BY <1>1, <1>2, <2>2, IfLeaves
  <1>3. CASE Top.cond # "false"
    <2>1. code' = Patch(Append(code, Jump), {Top.jump}) BY <1>1, <1>3
    <2>2. Changes(code, code', {Top.jump}, {}) BY <2>1, CodeLength, JumpAround
    <2>3. Note(Top) \subseteq {Top.jump} BY <1>1, TopFacts, FrameFacts
    <2>4. Changes(code, code', Note(Top), {}) BY <2>2, <2>3, Weaker
    <2>. QED BY <1>1, <2>4, IfLeaves
  <1>. QED BY <1>2, <1>3

(* ifstm after its second branch: the jump over it is patched, if there is *)
(* one.                                                                    *)
LEMMA EndIfLeaves ==
  ASSUME Shape, cs # <<>>, EndIf
  PROVE  Leaves
  <1>1. /\ Top.stm = "if" /\ cs' = Front(cs) /\ UNCHANGED <<breaks, scopes>>
        /\ code' = IF Top.cond = "false" THEN code ELSE Patch(code, {Top.jump})
    BY DEF EndIf, Leave, cflow
  <1>2. IsCode(code) BY CodeLength
  <1>3. CASE Top.cond = "false"
    <2>1. Note(Top) = {} BY <1>1, <1>3 DEF Note
    <2>2. code' = code BY <1>1, <1>3
    <2>3. Changes(code, code', Note(Top), {}) BY <1>2, <2>1, <2>2, NoChange
    <2>. QED BY <1>1, <2>3, IfLeaves
  <1>4. CASE Top.cond # "false"
    <2>1. code' = Patch(code, {Top.jump}) BY <1>1, <1>4
    <2>2. Changes(code, code', {Top.jump}, {}) BY <1>2, <2>1, PatchChanges
    <2>3. Note(Top) \subseteq {Top.jump} BY <1>1, TopFacts, FrameFacts
    <2>4. Changes(code, code', Note(Top), {}) BY <2>2, <2>3, Weaker
    <2>. QED BY <1>1, <2>4, IfLeaves
  <1>. QED BY <1>3, <1>4

(* The parts of a loop's end that are alike.                               *)
LEMMA LoopLeaves ==
  ASSUME Shape, cs # <<>>, Top.stm \in Loops, cs' = Front(cs), EndScope, EndLoop,
         \/ \E S : /\ Changes(code, code', S, {})
                   /\ Note(Top) \subseteq S /\ ToSet(Last(breaks)) \subseteq S
         \/ Top.cond = "false" /\ Changes(SavedCode(Top), code', {}, {})
  PROVE  Leaves
  <1>1. Top.stm \in BreakStms /\ Top.stm # "switch" /\ Top.stm # "if"
    BY DEF BreakStms, Loops
  <1>2. Ended = Note(Top) \cup ToSet(Last(breaks)) BY <1>1 DEF Ended
  <1>3. Top.cond = "false" => Deletes BY DEF Deletes
  <1>4. breaks' = Front(breaks) /\ scopes' = Front(scopes)
    BY DEF EndLoop, OuterBreaks, EndScope
  <1>5. \/ Changes(code, code', Ended, {})
        \/ Top.cond = "false" /\ Changes(SavedCode(Top), code', {}, {})
    BY <1>2, Weaker
  <1>. QED BY <1>1, <1>3, <1>4, <1>5 DEF Leaves

(* whilestm ends: the test and the breaks are patched, or all of it is     *)
(* deleted.                                                                *)
LEMMA WhileLeaves ==
  ASSUME Shape, cs # <<>>, EndWhile
  PROVE  Leaves
  <1>. DEFINE l == <<Loop(lstart)>>
              c == code \o ScopePops
              d == c \o l
              e == Patch(d, {Top.jump})
              T == ToSet(Last(breaks))
  <1>1. /\ Top.stm = "while" /\ cs' = Front(cs) /\ EndScope /\ EndLoop
        /\ code' = IF Top.cond = "false" THEN SavedCode(Top) ELSE Patch(e, T)
    BY DEF EndWhile, Leave, PatchBreaks
  <1>2. Top.stm \in Loops /\ Top.stm # "block" BY <1>1 DEF Loops
  <1>3. CASE Top.cond = "false"
    <2>1. code' = SavedCode(Top) /\ IsCode(SavedCode(Top)) BY <1>1, <1>2, <1>3, SavedFacts
    <2>2. Changes(SavedCode(Top), code', {}, {}) BY <2>1, NoChange
    <2>. QED BY <1>1, <1>2, <1>3, <2>2, LoopLeaves
  <1>4. CASE Top.cond # "false"
    <2>1. IsCode(code) /\ Changes(code, code, {}, {}) BY CodeLength, NoChange
    <2>2. Changes(code, c, {}, {}) BY <2>1, ScopePopsFacts, AddsClosed
    <2>3. IsCode(l) /\ \A i \in 1 .. Len(l) : ~Open(l, i) BY LoopFacts
    <2>4. code' = Patch(e, T) BY <1>1, <1>4
    <2>. HIDE DEF l, c, T
    <2>5. Changes(code, d, {}, {}) BY <2>1, <2>2, <2>3, AddsClosed
    <2>. HIDE DEF d
    <2>6. Changes(code, e, {} \cup {Top.jump}, {}) BY <2>1, <2>5, PatchesMore
    <2>. HIDE DEF e
    <2>7. Changes(code, code', ({} \cup {Top.jump}) \cup T, {})
      BY <2>1, <2>4, <2>6, PatchesMore
    <2>8. Note(Top) \subseteq {Top.jump} BY <1>2, TopFacts, FrameFacts
    <2>9. \E S : /\ Changes(code, code', S, {})
                 /\ Note(Top) \subseteq S /\ ToSet(Last(breaks)) \subseteq S
      BY <2>7, <2>8 DEF T
    <2>. QED BY <1>1, <1>2, <2>9, LoopLeaves
  <1>. QED BY <1>3, <1>4

(* forstm ends, likewise.                                                  *)
LEMMA ForLeaves ==
  ASSUME Shape, cs # <<>>, EndFor
  PROVE  Leaves
  <1>. DEFINE d == Append(code, Loop(lstart))
              e == Patch(d, {Top.jump})
              T == ToSet(Last(breaks))
              body == IF Top.cond = "false" THEN SavedCode(Top) ELSE Patch(e, T)
  <1>1. /\ Top.stm = "for" /\ cs' = Front(cs) /\ EndScope /\ EndLoop
        /\ code' = body \o ScopePops
    BY DEF EndFor, Leave, PatchBreaks
  <1>2. Top.stm \in Loops /\ Top.stm # "block" BY <1>1 DEF Loops
  <1>3. CASE Top.cond = "false"
    <2>1. body = SavedCode(Top) /\ IsCode(SavedCode(Top)) BY <1>2, <1>3, SavedFacts
    <2>. HIDE DEF body
    <2>2. Changes(SavedCode(Top), body, {}, {}) BY <2>1, NoChange
    <2>3. Changes(SavedCode(Top), code', {}, {})
      BY <1>1, <2>1, <2>2, ScopePopsFacts, AddsClosed
    <2>. QED BY <1>1, <1>2, <1>3, <2>3, LoopLeaves
  <1>4. CASE Top.cond # "false"
    <2>1. IsCode(code) BY CodeLength
    <2>2. Changes(code, d, {}, {}) BY <2>1, AddsOne DEF Loop
    <2>4. body = Patch(e, T) BY <1>4
    <2>. HIDE DEF T, d, body
    <2>6. Changes(code, e, {} \cup {Top.jump}, {}) BY <2>1, <2>2, PatchesMore
    <2>. HIDE DEF e
    <2>7. Changes(code, body, ({} \cup {Top.jump}) \cup T, {})
      BY <2>1, <2>4, <2>6, PatchesMore
    <2>8. Changes(code, code', ({} \cup {Top.jump}) \cup T, {})
      BY <2>1, <1>1, <2>7, ScopePopsFacts, AddsClosed
    <2>9. Note(Top) \subseteq {Top.jump} BY <1>2, TopFacts, FrameFacts
    <2>10. \E S : /\ Changes(code, code', S, {})
                  /\ Note(Top) \subseteq S /\ ToSet(Last(breaks)) \subseteq S
      BY <2>8, <2>9 DEF T
    <2>. QED BY <1>1, <1>2, <2>10, LoopLeaves
  <1>. QED BY <1>3, <1>4

(* foreachstm ends.                                                        *)
LEMMA ForeachLeaves ==
  ASSUME Shape, cs # <<>>, EndForeach
  PROVE  Leaves
  <1>. DEFINE q == Pops(1)
              l == <<Loop(lstart)>>
              c == code \o q
              d == c \o l
              e == Patch(d, {Top.jump})
              h == e \o ScopePops
              T == ToSet(Last(breaks))
  <1>1. /\ Top.stm = "foreach" /\ cs' = Front(cs) /\ EndScope /\ EndLoop
        /\ code' = Patch(h, T)
    BY DEF EndForeach, Leave, PatchBreaks
  <1>2. Top.stm \in Loops BY <1>1 DEF Loops
  <1>3. IsCode(code) /\ Changes(code, code, {}, {}) BY CodeLength, NoChange
  <1>4. IsCode(q) /\ \A i \in 1 .. Len(q) : ~Open(q, i) BY PopsFacts
  <1>5. IsCode(l) /\ \A i \in 1 .. Len(l) : ~Open(l, i) BY LoopFacts
  <1>. HIDE DEF q, l, T
  <1>6. Changes(code, c, {}, {}) BY <1>3, <1>4, AddsClosed
  <1>. HIDE DEF c
  <1>7. Changes(code, d, {}, {}) BY <1>3, <1>5, <1>6, AddsClosed
  <1>. HIDE DEF d
  <1>8. Changes(code, e, {} \cup {Top.jump}, {}) BY <1>3, <1>7, PatchesMore
  <1>. HIDE DEF e
  <1>9. Changes(code, h, {} \cup {Top.jump}, {})
    BY <1>3, <1>8, ScopePopsFacts, AddsClosed
  <1>. HIDE DEF h
  <1>10. Changes(code, code', ({} \cup {Top.jump}) \cup T, {})
    BY <1>1, <1>3, <1>9, PatchesMore
  <1>11. Note(Top) \subseteq {Top.jump} BY <1>2, TopFacts, FrameFacts
  <1>12. \E S : /\ Changes(code, code', S, {})
                /\ Note(Top) \subseteq S /\ ToSet(Last(breaks)) \subseteq S
    BY <1>10, <1>11 DEF T
  <1>. QED BY <1>1, <1>2, <1>12, LoopLeaves

(* loopstm ends.                                                           *)
LEMMA LoopStmLeaves ==
  ASSUME Shape, cs # <<>>, EndLoopStm
  PROVE  Leaves
  <1>. DEFINE l == <<Loop(lstart)>>
              c == code \o l
              d == c \o ScopePops
              T == ToSet(Last(breaks))
  <1>1. /\ Top.stm = "loop" /\ cs' = Front(cs) /\ EndScope /\ EndLoop
        /\ code' = Patch(d, T)
    BY DEF EndLoopStm, Leave, PatchBreaks
  <1>2. Top.stm \in Loops BY <1>1 DEF Loops
  <1>3. IsCode(code) /\ Changes(code, code, {}, {}) BY CodeLength, NoChange
  <1>4. IsCode(l) /\ \A i \in 1 .. Len(l) : ~Open(l, i) BY LoopFacts
  <1>. HIDE DEF l, T
  <1>5. Changes(code, c, {}, {}) BY <1>3, <1>4, AddsClosed
  <1>. HIDE DEF c
  <1>6. Changes(code, d, {}, {}) BY <1>3, <1>5, ScopePopsFacts, AddsClosed
  <1>. HIDE DEF d
  <1>7. Changes(code, code', {} \cup T, {}) BY <1>1, <1>3, <1>6, PatchesMore
  <1>8. Note(Top) = {} BY <1>1, TopFacts, FrameFacts
  <1>9. \E S : /\ Changes(code, code', S, {})
               /\ Note(Top) \subseteq S /\ ToSet(Last(breaks)) \subseteq S
    BY <1>7, <1>8 DEF T
  <1>. QED BY <1>1, <1>2, <1>9, LoopLeaves

(* switchstm ends: the breaks are patched, the last case's test is not.    *)
LEMMA SwitchLeaves ==
  ASSUME Shape, EndSwitch
  PROVE  Leaves
  <1>. DEFINE q == Pops(1)
              c == code \o ScopePops
              d == c \o q
              T == ToSet(Last(breaks))
  <1>1. /\ cs # <<>> /\ Top.stm = "switch" /\ cs' = Front(cs)
        /\ scopes' = Front(scopes) /\ breaks' = Front(breaks)
        /\ code' = Patch(d, T)
        /\ "last_case" \in Avoid => Top.state # "case"
    BY DEF EndSwitch, Leave, PatchBreaks, EndScope, OuterBreaks
  <1>2. Top.stm \in BreakStms /\ Top.stm # "if" BY <1>1 DEF BreakStms
  <1>3. IsCode(code) /\ Changes(code, code, {}, {}) BY CodeLength, NoChange
  <1>4. IsCode(q) /\ \A i \in 1 .. Len(q) : ~Open(q, i) BY PopsFacts
  <1>. HIDE DEF q, T
  <1>5. Changes(code, c, {}, {}) BY <1>3, ScopePopsFacts, AddsClosed
  <1>. HIDE DEF c
  <1>6. Changes(code, d, {}, {}) BY <1>3, <1>4, <1>5, AddsClosed
  <1>. HIDE DEF d
  <1>7. Changes(code, code', {} \cup T, {}) BY <1>1, <1>3, <1>6, PatchesMore
  <1>8. "last_case" \in Avoid => Note(Top) = {} BY <1>1 DEF Note
  <1>9. Ended = T BY <1>1, <1>2 DEF Ended, T
  <1>10. Changes(code, code', Ended, {}) BY <1>7, <1>9, Weaker
  <1>. QED BY <1>1, <1>2, <1>8, <1>10 DEF Leaves

(***************************************************************************)
(* The theorems.                                                           *)
(***************************************************************************)
Running == (pc = "end" => cs # <<>>) /\ (pc = "done" => cs = <<>>)

(* Every action is a step of one of the kinds.                             *)
LEMMA EveryStep ==
  ASSUME Shape, Running, [Next]_vars
  PROVE  \/ Adds \/ Leaves \/ Breaks
         \/ \E f : Enters(f)
         \/ \E f : GoesOn(f)
  <1>1. CASE UNCHANGED vars
    <2>1. UNCHANGED <<code, cs, scopes, breaks>> BY <1>1 DEF vars, cflow
    <2>. QED BY <2>1, NoneAdded
  <1>2. CASE Exprstm \/ Vardec \/ Returnstm \/ Continuestm \/ CompileEnd
    BY <1>2, ExprstmAdds, VardecAdds, ReturnstmAdds, ContinuestmAdds, CompileEndAdds
  <1>3. CASE Breakstm BY <1>3, BreakstmBreaks
  <1>4. CASE Block \/ Foreach \/ LoopStm \/ Switch
    BY <1>4, BlockEnters, ForeachEnters, LoopStmEnters, SwitchEnters
  <1>5. CASE \E c \in Conds : If(c) \/ While(c) BY <1>5, IfEnters, WhileEnters
  <1>6. CASE \E v, incr \in BOOLEAN, c \in Conds : For(v, c, incr) BY <1>6, ForEnters
  <1>7. CASE \E else \in BOOLEAN : Then(else)
    <2>1. cs # <<>> BY <1>7 DEF Running, Then
    <2>2. PICK else \in BOOLEAN : Then(else) BY <1>7
    <2>3. CASE else
      <3>1. Then(TRUE)
        <4>1. else = TRUE BY <2>3
        <4>. QED BY <4>1, <2>2
      <3>. QED BY <2>1, <3>1, ThenGoesOn
    <2>4. CASE ~else
      <3>1. Then(FALSE)
        <4>1. else = FALSE BY <2>4
        <4>. QED BY <4>1, <2>2
      <3>. QED BY <2>1, <3>1, ThenLeaves
    <2>. QED BY <2>3, <2>4
  <1>8. CASE Case \/ Default BY <1>8, CaseGoesOn, DefaultGoesOn
  <1>9. CASE EndBlock \/ EndSwitch BY <1>9, BlockLeaves, SwitchLeaves
  <1>10. CASE EndIf \/ EndWhile \/ EndFor \/ EndForeach \/ EndLoopStm
    <2>1. cs # <<>> BY <1>10 DEF Running, EndIf, EndWhile, EndFor, EndForeach, EndLoopStm
    <2>. QED BY <1>10, <2>1, EndIfLeaves, WhileLeaves, ForLeaves, ForeachLeaves, LoopStmLeaves
  <1>. QED BY <1>1, <1>2, <1>3, <1>4, <1>5, <1>6, <1>7, <1>8, <1>9, <1>10 DEF Next

(* A step that returns to the caller has one.                              *)
LEMMA RunningStep ==
  ASSUME Running, [Next]_vars
  PROVE  Running'
  <1>1. CASE UNCHANGED vars BY <1>1 DEF Running, vars
  <1>2. \A c : After(c) \in {"stm", "end"} /\ (After(c) = "end" => c # <<>>)
    BY DEF After
  <1>3. ASSUME Finish \/ Leave PROVE Running' BY <1>2, <1>3 DEF Finish, Leave, Running
  <1>4. ASSUME pc' = "stm" PROVE Running' BY <1>4 DEF Running
  <1>5. CASE Exprstm \/ Vardec \/ Returnstm \/ Continuestm \/ Breakstm
    BY <1>3, <1>5 DEF Exprstm, Vardec, Returnstm, Continuestm, Breakstm
  <1>6. CASE CompileEnd BY <1>6 DEF CompileEnd, Running
  <1>7. CASE Block \/ Foreach \/ LoopStm \/ Switch
    BY <1>4, <1>7 DEF Block, Foreach, LoopStm, Switch, Enter
  <1>8. CASE \E c \in Conds : If(c) \/ While(c) BY <1>4, <1>8 DEF If, While, Enter
  <1>9. CASE \E v, incr \in BOOLEAN, c \in Conds : For(v, c, incr)
    BY <1>4, <1>9 DEF For, Enter
  <1>10. CASE \E else \in BOOLEAN : Then(else) BY <1>3, <1>4, <1>10 DEF Then
  <1>11. CASE Case \/ Default BY <1>4, <1>11 DEF Case, Default, AtLabel
  <1>12. CASE EndBlock \/ EndSwitch BY <1>3, <1>12 DEF EndBlock, EndSwitch
  <1>13. CASE EndIf \/ EndWhile \/ EndFor \/ EndForeach \/ EndLoopStm
    BY <1>3, <1>13 DEF EndIf, EndWhile, EndFor, EndForeach, EndLoopStm
  <1>. QED BY <1>1, <1>5, <1>6, <1>7, <1>8, <1>9, <1>10, <1>11, <1>12, <1>13 DEF Next

(* So every step keeps the shape.                                          *)
LEMMA ShapeStep ==
  ASSUME Shape, Running, [Next]_vars
  PROVE  Shape' /\ Running'
  <1>1. Running' BY RunningStep
  <1>2. PICK g : Lists(g, cs, breaks) BY DEF Shape
  <1>3. CASE Adds BY <1>1, <1>3, AddsShape
  <1>4. CASE Leaves BY <1>1, <1>2, <1>4, LeavesShape
  <1>5. CASE Breaks BY <1>1, <1>2, <1>5, BreaksShape
  <1>6. CASE \E f : Enters(f) BY <1>1, <1>2, <1>6, EntersShape
  <1>7. CASE \E f : GoesOn(f) BY <1>1, <1>2, <1>7, GoesOnShape
  <1>. QED BY <1>1, <1>3, <1>4, <1>5, <1>6, <1>7, EveryStep

(* A function begins with no code, no frames and no lists.                 *)
LEMMA ShapeAtFirst ==
  ASSUME Init
  PROVE  /\ Shape /\ Running /\ Noted(code, cs, breaks)
         /\ \E g : Lists(g, cs, breaks) /\ Stands(g, code, cs, breaks)
  <1>1. code = <<>> /\ cs = <<>> /\ breaks = <<>> /\ pc = "stm"
    BY DEF Init, ControlFlowInit
  <1>2. Running BY <1>1 DEF Running
  <1>3. IsCode(code) /\ Len(code) = 0 /\ Len(cs) = 0 /\ Len(breaks) = 0 BY <1>1, EmptyCode
  <1>4. Stack(cs, Len(code))
    <2>1. cs \in Seq({}) BY <1>1
    <2>. QED BY <1>3, <2>1 DEF Stack
  <1>. DEFINE g == [k \in 1 .. 0 |-> 1]
              q == [k \in 2 .. 1 |-> 1]
  <1>5. Lists(g, cs, breaks)
    <2>1. breaks \in Seq(Seq(Nat)) BY <1>1
    <2>2. Counts(g, 1, 0, cs, BreakStms) BY <1>3 DEF Counts
    <2>. HIDE DEF g
    <2>. QED BY <1>3, <2>1, <2>2 DEF Lists
  <1>6. Opened(q, cs, scopes)
    <2>. DEFINE x == [localc |-> 1, isloop |-> FALSE, isswitch |-> FALSE, isgloop |-> FALSE]
    <2>1. scopes = <<x>> /\ ~x.isloop /\ ~x.isswitch BY DEF Init
    <2>. HIDE DEF x
    <2>2. scopes \in Seq({x}) /\ scopes # <<>> /\ Len(scopes) = 1 /\ scopes[1] = x
      BY <2>1
    <2>3. Counts(q, 2, 1, cs, ScopeStms) BY <1>3 DEF Counts
    <2>. HIDE DEF q
    <2>4. \A m \in 1 .. Len(scopes) : ~(scopes[m].isloop \/ scopes[m].isswitch)
      <3>1. \A m \in 1 .. Len(scopes) : m = 1 BY <2>2
      <3>. QED BY <2>1, <2>2, <3>1
    <2>. QED BY <2>2, <2>3, <2>4 DEF Opened
  <1>7. Noted(code, cs, breaks) BY <1>3 DEF Noted
  <1>8. Stands(g, code, cs, breaks)
    <2>. HIDE DEF g
    <2>. QED BY <1>3 DEF Stands
  <1>. QED BY <1>2, <1>3, <1>4, <1>5, <1>6, <1>7, <1>8 DEF Shape

(* Every step keeps note of the jumps that are open.                       *)
LEMMA NotedStep ==
  ASSUME "last_case" \in Avoid, Shape, Running, Noted(code, cs, breaks), [Next]_vars
  PROVE  Noted(code', cs', breaks')
  BY EveryStep, AddsNoted, LeavesNoted, BreaksNoted, EntersNoted, GoesOnNoted

(* Every step keeps what is noted a jump.                                  *)
LEMMA StandsStep ==
  ASSUME "dead_break" \in Avoid, "switch_match" \in Avoid, Shape, Running, [Next]_vars,
         NEW g, Lists(g, cs, breaks), Stands(g, code, cs, breaks)
  PROVE  \E h : Lists(h, cs', breaks') /\ Stands(h, code', cs', breaks')
  <1>1. CASE Adds
    <2>1. cs' = cs /\ breaks' = breaks BY <1>1 DEF Adds
    <2>2. Stands(g, code', cs', breaks') BY <1>1, AddsStands
    <2>. QED BY <2>1, <2>2
  <1>2. CASE Leaves BY <1>2, LeavesStands
  <1>3. CASE Breaks BY <1>3, BreaksShape, BreaksStands
  <1>4. CASE \E f : Enters(f) BY <1>4, EntersStands
  <1>5. CASE \E f : GoesOn(f) BY <1>5, GoesOnShape, GoesOnStands
  <1>. QED BY <1>1, <1>2, <1>3, <1>4, <1>5, EveryStep

(* All that is noted is patched, and in the end nothing is noted.          *)
LEMMA NothingLeft ==
  ASSUME Shape, Running, Noted(code, cs, breaks)
  PROVE  AllPatched
  <1>. SUFFICES ASSUME pc = "done", NEW i \in DOMAIN code, code[i].op \in {"jif", "break"},
                       code[i].to = 0
                PROVE  FALSE
    BY DEF AllPatched
  <1>1. Len(cs) = 0 BY DEF Running
  <1>2. PICK g : Lists(g, cs, breaks) BY DEF Shape
  <1>3. \A k \in 1 .. Len(breaks) : g[k] \in 1 .. Len(cs) BY <1>2 DEF Lists, Counts
  <1>4. \A k \in 1 .. Len(breaks) : FALSE BY <1>1, <1>3
  <1>5. i \in 1 .. Len(code) BY CodeFacts DEF Shape
  <1>6. Waits(cs, breaks, i) BY <1>5 DEF Noted, Open
  <1>. QED BY <1>1, <1>4, <1>6 DEF Waits

(* Every note in the frames and the lists is one of those that stand.      *)
LEMMA NotesStand ==
  ASSUME Shape, NEW g, Lists(g, cs, breaks), Stands(g, code, cs, breaks)
  PROVE  NoStalePatch
  <1>. DEFINE B == UNION {ToSet(b) : b \in ToSet(breaks)}
              J == {f.jump : f \in {h \in ToSet(cs) : h.stm \notin {"block", "switch"}
                                                       /\ h.cond # "false"}}
              P == {f.patch : f \in {h \in ToSet(cs) : h.stm = "switch" /\ h.state = "case"}}
  <1>1. DOMAIN code = 1 .. Len(code) BY CodeFacts DEF Shape
  <1>2. DOMAIN cs = 1 .. Len(cs)
    <2>1. PICK S : cs \in Seq(S) BY DEF Shape, Stack
    <2>. QED BY <2>1, LenProperties
  <1>3. DOMAIN breaks = 1 .. Len(breaks) BY LenProperties DEF Lists
  <1>4. ASSUME NEW i, AtJump(code, i) PROVE i \in DOMAIN code /\ code[i].op \in JumpOps
    BY <1>1, <1>4 DEF AtJump
  <1>5. ASSUME NEW i \in B PROVE AtJump(code, i)
    <2>1. PICK k \in 1 .. Len(breaks) : i \in ToSet(breaks[k]) BY <1>3 DEF ToSet
    <2>. QED BY <2>1 DEF Stands
  <1>6. \A j \in 1 .. Len(cs) : \A p \in Note(cs[j]) : AtJump(code, p) BY DEF Stands
  <1>7. ASSUME NEW i \in J, i # 0 PROVE AtJump(code, i)
    <2>1. PICK j \in 1 .. Len(cs) : /\ cs[j].stm \notin {"block", "switch"}
                                    /\ cs[j].cond # "false" /\ i = cs[j].jump
      BY <1>2 DEF ToSet
    <2>2. i \in Note(cs[j]) BY <2>1, <1>7 DEF Note
    <2>. QED BY <2>2, <1>6
  <1>8. ASSUME NEW i \in P PROVE AtJump(code, i)
    <2>1. PICK j \in 1 .. Len(cs) : /\ cs[j].stm = "switch" /\ cs[j].state = "case"
                                    /\ i = cs[j].patch
      BY <1>2 DEF ToSet
    <2>2. i \in Note(cs[j]) BY <2>1 DEF Note
    <2>. QED BY <2>2, <1>6
  <1>9. ASSUME NEW i \in (B \cup J \cup P) \ {0}
        PROVE  i \in DOMAIN code /\ code[i].op \in JumpOps
    <2>. HIDE DEF B, J, P
    <2>. QED BY <1>4, <1>5, <1>7, <1>8
  <1>. QED BY <1>9 DEF NoStalePatch

(* AllPatched, when no switch ends with a case: patchjmp and patchbreaklist*)
(* find every jump out of a test and every break of the function.          *)
THEOREM JumpsArePatched ==
  ASSUME "last_case" \in Avoid
  PROVE  Spec => []AllPatched
  <1>. DEFINE IInv == Shape /\ Running /\ Noted(code, cs, breaks)
  <1>1. Init => IInv BY ShapeAtFirst
  <1>2. IInv /\ [Next]_vars => IInv'
    <2>. SUFFICES ASSUME IInv, [Next]_vars PROVE IInv'
      OBVIOUS
    <2>1. Shape' /\ Running' BY ShapeStep
    <2>2. Noted(code', cs', breaks') BY NotedStep
    <2>. QED BY <2>1, <2>2 DEF Noted, Waits, Open, Note
  <1>3. IInv => AllPatched BY NothingLeft
  <1>. QED BY <1>1, <1>2, <1>3, PTL DEF Spec

(* NoStalePatch, when no break is under a constant condition that does not *)
(* hold and no case matches at compile time: what is noted is a jump, and  *)
(* stays one until it is patched, whatever code is deleted in between.     *)
THEOREM NotesOfJumpsStand ==
  ASSUME "dead_break" \in Avoid, "switch_match" \in Avoid
  PROVE  Spec => []NoStalePatch
  <1>. DEFINE Standing == \E g : Lists(g, cs, breaks) /\ Stands(g, code, cs, breaks)
              IInv == Shape /\ Running /\ Standing
  <1>1. Init => IInv BY ShapeAtFirst
  <1>2. IInv /\ [Next]_vars => IInv'
    <2>. SUFFICES ASSUME IInv, [Next]_vars PROVE IInv'
      OBVIOUS
    <2>1. Shape' /\ Running' BY ShapeStep
    <2>2. \E h : Lists(h, cs', breaks') /\ Stands(h, code', cs', breaks') BY StandsStep
    <2>. QED BY <2>1, <2>2
  <1>3. IInv => NoStalePatch BY NotesStand
  <1>. QED BY <1>1, <1>2, <1>3, PTL DEF Spec
=============================================================================
