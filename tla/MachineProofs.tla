--------------------------- MODULE MachineProofs ---------------------------
(***************************************************************************)
(* Open upvalues, for stacks, frames and programs of any size.  What keeps *)
(* them right is the discipline of marks: between a mark of callstart or   *)
(* retstart and an open upvalue above it there is always the frame of a    *)
(* callee, and that frame closes the upvalue when it returns.  The second  *)
(* part shows that the interpreter implements the boxes of module Boxes:   *)
(* View says element by element what the refinement mapping yields in each *)
(* phase of an instruction; every action of Machine is then an action of   *)
(* Boxes or leaves the mapped state alone.                                 *)
(***************************************************************************)
EXTENDS Machine, SequenceFacts

Alive         == pc \notin {"done", "error"}
Between(m, i) == \E k \in 1 .. Len(frames) : m < frames[k].base /\ frames[k].base <= i

(* The stack may be cut down to n values: frames, marks and open upvalues  *)
(* are all at or below it.                                                 *)
Held(n) == /\ \A k \in 1 .. Len(frames) : frames[k].base <= n
           /\ \A i \in 1 .. Len(callstart) : callstart[i] <= n
           /\ \A i \in 1 .. Len(retstart) : retstart[i] <= n
           /\ \A u \in Upval : loc[u] <= n

FramesInv == /\ frames # <<>> /\ frames[1].base = 0
             /\ \A j, k \in 1 .. Len(frames) : j < k => frames[j].base < frames[k].base

(* Each frame has at most one mark of retstart; what it captures is below  *)
(* its marks.                                                              *)
MarksInv ==
  /\ \A i, j \in 1 .. Len(callstart) : i < j => callstart[i] < callstart[j]
  /\ \A i, j \in 1 .. Len(retstart) : i < j => Between(retstart[i], retstart[j])
  /\ \A i \in 1 .. Len(callstart) :
       callstart[i] >= 1 /\ \A k \in 1 .. Len(frames) : frames[k].base # callstart[i]
  /\ \A u \in Upval : loc[u] # 0 =>
       /\ \A i \in 1 .. Len(callstart) : loc[u] >= callstart[i] => Between(callstart[i], loc[u])
       /\ \A i \in 1 .. Len(retstart) : loc[u] > retstart[i] => Between(retstart[i], loc[u])

(* Between the steps of OP_CLOSURE and OP_RET.                             *)
PhaseInv ==
  /\ pc \in {"run", "capture"} => temp = <<>>
  /\ pc = "capture" => stack # <<>> /\ Top \in Clo /\ ups[Top] # Unallocated
  /\ pc = "save" =>
       /\ Len(temp) <= Frame.retcnt /\ Frame.base <= Len(stack) - Left
       /\ Len(stack) + Len(temp) <= MaxStack
       /\ \A u \in Upval : loc[u] <= Len(stack) - Left
       /\ \A i \in 1 .. Len(callstart) : callstart[i] < Frame.base
       /\ \A i \in 1 .. Len(retstart) : retstart[i] < Frame.base
  /\ pc = "restore" => Len(stack) + Len(temp) <= MaxStack

StackInv == FramesInv /\ MarksInv /\ PhaseInv /\ Held(Len(stack))

(* What is open, captured or in an upvalue is allocated.                   *)
UpvalInv ==
  /\ \A u \in Upval : loc[u] # 0 => closed[u] # None
  /\ \A c \in Clo : ups[c] # Unallocated => \A u \in ups[c] : closed[u] # None

MInv == /\ TypeOK /\ OpenSorted /\ UpvalInv
        /\ Alive => StackInv
        /\ pc = "done" => \A u \in Upval : loc[u] = 0
----------------------------------------------------------------------------
(* Heights are natural numbers.                                            *)
LEMMA Heights ==
  ASSUME TypeOK
  PROVE  /\ MaxStack \in Nat
         /\ Len(stack) \in Nat /\ Len(frames) \in Nat /\ Len(callstart) \in Nat
         /\ Len(retstart) \in Nat /\ Len(temp) \in Nat /\ Len(open) \in Nat
         /\ \A k \in 1 .. Len(frames) :
              /\ frames[k] \in [base : 0..MaxStack, retcnt : Nat, clo : Clo]
              /\ frames[k].base \in 0 .. MaxStack /\ frames[k].base \in Nat
              /\ frames[k].retcnt \in Nat /\ frames[k].clo \in Clo
         /\ \A i \in 1 .. Len(callstart) : callstart[i] \in 0 .. MaxStack /\ callstart[i] \in Nat
         /\ \A i \in 1 .. Len(retstart) : retstart[i] \in 0 .. MaxStack /\ retstart[i] \in Nat
         /\ \A u \in Upval : loc[u] \in 0 .. MaxStack /\ loc[u] \in Nat
         /\ \A i \in 1 .. Len(stack) : stack[i] \in Value
         /\ \A i \in 1 .. Len(open) : open[i] \in Upval
  <1>1. MaxStack \in Nat BY MachineAssumption DEF MachineAssumption
  <1>2. /\ Len(stack) \in Nat /\ Len(frames) \in Nat /\ Len(callstart) \in Nat
        /\ Len(retstart) \in Nat /\ Len(temp) \in Nat /\ Len(open) \in Nat
    BY LenProperties DEF TypeOK
  <1>3. \A k \in 1 .. Len(frames) : frames[k] \in [base : 0..MaxStack, retcnt : Nat, clo : Clo]
    BY ElementOfSeq DEF TypeOK
  <1>4. \A i \in 1 .. Len(callstart) : callstart[i] \in 0 .. MaxStack
    BY ElementOfSeq DEF TypeOK
  <1>5. \A i \in 1 .. Len(retstart) : retstart[i] \in 0 .. MaxStack
    BY ElementOfSeq DEF TypeOK
  <1>6. \A u \in Upval : loc[u] \in 0 .. MaxStack BY DEF TypeOK
  <1>7. \A i \in 1 .. Len(stack) : stack[i] \in Value BY ElementOfSeq DEF TypeOK
  <1>8. \A i \in 1 .. Len(open) : open[i] \in Upval BY ElementOfSeq DEF TypeOK
  <1>. QED BY <1>1, <1>2, <1>3, <1>4, <1>5, <1>6, <1>7, <1>8

(* The running frame and the marks it has open.                            *)
LEMMA TopFacts ==
  ASSUME TypeOK, StackInv
  PROVE  /\ Len(frames) \in Nat \ {0} /\ Len(stack) \in Nat
         /\ Frame = frames[Len(frames)] /\ Frame.base \in 0 .. MaxStack
         /\ Frame.retcnt \in Nat /\ Frame.clo \in Clo
         /\ \A k \in 1 .. Len(frames) : frames[k].base \in Nat /\ frames[k].base <= Frame.base
         /\ Calling => callstart # <<>> /\ Last(callstart) = callstart[Len(callstart)]
                       /\ Len(callstart) \in Nat \ {0} /\ Last(callstart) \in 0 .. MaxStack
                       /\ \A i \in 1 .. Len(callstart) : callstart[i] <= Last(callstart)
         /\ ~Calling => \A i \in 1 .. Len(callstart) : callstart[i] < Frame.base
         /\ Returning => retstart # <<>> /\ Last(retstart) = retstart[Len(retstart)]
                       /\ Len(retstart) \in Nat \ {0} /\ Last(retstart) \in 0 .. MaxStack
                       /\ \A i \in 1 .. Len(retstart) : retstart[i] <= Last(retstart)
         /\ ~Returning => \A i \in 1 .. Len(retstart) : retstart[i] < Frame.base
  <1>1. /\ Len(frames) \in Nat \ {0} /\ Len(stack) \in Nat
        /\ Frame = frames[Len(frames)] /\ frames[Len(frames)] \in [base : 0..MaxStack, retcnt : Nat, clo : Clo]
        /\ Frame.base \in 0 .. MaxStack
        /\ Frame.retcnt \in Nat /\ Frame.clo \in Clo
    <2>1. frames # <<>> /\ frames \in Seq([base : 0..MaxStack, retcnt : Nat, clo : Clo])
      BY DEF StackInv, FramesInv, TypeOK
    <2>2. Len(frames) \in Nat \ {0} /\ Last(frames) = frames[Len(frames)] BY <2>1, Ends
    <2>. QED BY <2>2, Heights DEF Frame
  <1>2. ASSUME NEW k \in 1 .. Len(frames)
        PROVE  frames[k].base \in Nat /\ frames[k].base <= Frame.base
    <2>1. frames[k] \in [base : 0..MaxStack, retcnt : Nat, clo : Clo]
      BY ElementOfSeq DEF TypeOK
    <2>. QED BY <1>1, <2>1, MachineAssumption DEF StackInv, FramesInv, MachineAssumption
  <1>3. ASSUME callstart # <<>>
        PROVE  /\ Len(callstart) \in Nat \ {0} /\ Last(callstart) = callstart[Len(callstart)]
               /\ Last(callstart) \in 0 .. MaxStack
               /\ \A i \in 1 .. Len(callstart) : callstart[i] \in Nat /\ callstart[i] <= Last(callstart)
    <2>1. /\ Len(callstart) \in Nat \ {0} /\ Last(callstart) = callstart[Len(callstart)]
          /\ Last(callstart) \in 0 .. MaxStack
          /\ \A i \in 1 .. Len(callstart) : callstart[i] \in Nat
      <3>1. callstart \in Seq(0 .. MaxStack) BY DEF TypeOK
      <3>2. /\ Len(callstart) \in Nat \ {0} /\ Last(callstart) = callstart[Len(callstart)]
            /\ Last(callstart) \in 0 .. MaxStack
        BY <1>3, <3>1, Ends
      <3>. QED BY <3>2, Heights
    <2>. QED BY <2>1 DEF StackInv, MarksInv
  <1>4. ASSUME retstart # <<>>
        PROVE  /\ Len(retstart) \in Nat \ {0} /\ Last(retstart) = retstart[Len(retstart)]
               /\ Last(retstart) \in 0 .. MaxStack
               /\ \A i \in 1 .. Len(retstart) : retstart[i] \in Nat /\ retstart[i] <= Last(retstart)
    <2>1. /\ Len(retstart) \in Nat \ {0} /\ Last(retstart) = retstart[Len(retstart)]
          /\ Last(retstart) \in 0 .. MaxStack
          /\ \A i \in 1 .. Len(retstart) : retstart[i] \in Nat
      <3>1. retstart \in Seq(0 .. MaxStack) BY DEF TypeOK
      <3>2. /\ Len(retstart) \in Nat \ {0} /\ Last(retstart) = retstart[Len(retstart)]
            /\ Last(retstart) \in 0 .. MaxStack
        BY <1>4, <3>1, Ends
      <3>. QED BY <3>2, Heights
    <2>. QED BY SMTT(60), <2>1, <1>2 DEF StackInv, MarksInv, Between
  <1>5. ASSUME ~Calling, NEW i \in 1 .. Len(callstart) PROVE callstart[i] < Frame.base
    <2>1. callstart # <<>> BY EmptySeq
    <2>2. Last(callstart) <= Frame.base BY <1>1, <1>3, <1>5, <2>1 DEF Calling
    <2>3. Last(callstart) # Frame.base BY <1>1, <1>3, <2>1 DEF StackInv, MarksInv
    <2>. QED BY <1>1, <1>3, <2>1, <2>2, <2>3
  <1>6. ASSUME ~Returning, NEW i \in 1 .. Len(retstart) PROVE retstart[i] < Frame.base
    <2>1. retstart # <<>> BY EmptySeq
    <2>. QED BY <1>1, <1>4, <1>6, <2>1 DEF Returning
  <1>7. Calling => callstart # <<>> BY DEF Calling
  <1>8. Returning => retstart # <<>> BY DEF Returning
  <1>. QED BY <1>1, <1>2, <1>3, <1>4, <1>5, <1>6, <1>7, <1>8

(* Floor is the highest of them, so everything is held at it but variables.*)
LEMMA FloorFacts ==
  ASSUME TypeOK, StackInv
  PROVE  /\ Floor \in Nat /\ Floor <= Len(stack) /\ Frame.base <= Floor
         /\ \A k \in 1 .. Len(frames) : frames[k].base <= Floor
         /\ \A i \in 1 .. Len(callstart) : callstart[i] <= Floor
         /\ \A i \in 1 .. Len(retstart) : retstart[i] <= Floor
  <1>. DEFINE hs == {Frame.base} \cup (IF Calling THEN {Last(callstart)} ELSE {})
                                  \cup (IF Returning THEN {Last(retstart)} ELSE {})
  <1>1. /\ Frame.base \in Nat /\ (Calling => Last(callstart) \in Nat)
        /\ (Returning => Last(retstart) \in Nat)
    BY TopFacts, MachineAssumption DEF MachineAssumption
  <1>2. \E m \in hs : \A n \in hs : n <= m
    <2>1. CASE Calling /\ Returning
      <3>1. hs = {Frame.base, Last(callstart), Last(retstart)} BY <2>1
      <3>. QED BY <1>1, <2>1, <3>1
    <2>2. CASE Calling /\ ~Returning
      <3>1. hs = {Frame.base, Last(callstart)} BY <2>2
      <3>. QED BY <1>1, <2>2, <3>1
    <2>3. CASE ~Calling /\ Returning
      <3>1. hs = {Frame.base, Last(retstart)} BY <2>3
      <3>. QED BY <1>1, <2>3, <3>1
    <2>4. CASE ~Calling /\ ~Returning
      <3>1. hs = {Frame.base} BY <2>4
      <3>. QED BY <1>1, <2>4, <3>1
    <2>. QED BY <2>1, <2>2, <2>3, <2>4
  <1>3. Floor \in hs /\ \A n \in hs : n <= Floor
    <2>. HIDE DEF hs
    <2>1. Floor = CHOOSE m \in hs : \A n \in hs : n <= m BY DEF Floor, hs
    <2>. QED BY <1>2, <2>1
  <1>4. Frame.base <= Floor /\ (Calling => Last(callstart) <= Floor)
        /\ (Returning => Last(retstart) <= Floor)
    BY <1>3
  <1>5. Floor \in Nat BY <1>1, <1>3
  <1>6. Floor <= Len(stack)
    <2>1. /\ Frame.base <= Len(stack) /\ (Calling => Last(callstart) <= Len(stack))
          /\ (Returning => Last(retstart) <= Len(stack))
      BY TopFacts DEF StackInv, Held
    <2>. QED BY <1>3, <2>1
  <1>. HIDE DEF hs
  <1>7. /\ \A k \in 1 .. Len(frames) : frames[k].base \in Nat
        /\ \A i \in 1 .. Len(callstart) : callstart[i] \in Nat
        /\ \A i \in 1 .. Len(retstart) : retstart[i] \in Nat
    BY Heights
  <1>8. \A k \in 1 .. Len(frames) : frames[k].base <= Floor BY SMTT(60), <1>1, <1>4, <1>5, <1>7, TopFacts
  <1>9. \A i \in 1 .. Len(callstart) : callstart[i] <= Floor BY <1>1, <1>4, <1>5, <1>7, TopFacts
  <1>10. \A i \in 1 .. Len(retstart) : retstart[i] <= Floor BY <1>1, <1>4, <1>5, <1>7, TopFacts
  <1>. QED BY <1>4, <1>5, <1>6, <1>8, <1>9, <1>10
----------------------------------------------------------------------------
(* Values that no closure has captured may be dropped down to Floor.       *)
LEMMA HeldAbove ==
  ASSUME TypeOK, OpenSorted, StackInv, NEW n \in Nat, Floor <= n, n <= Len(stack),
         \A i \in (n + 1) .. Len(stack) : OpenAt(i) = {}
  PROVE  Held(n)
  <1>1. ASSUME NEW u \in Upval PROVE loc[u] <= n
    <2>. SUFFICES ASSUME loc[u] > n PROVE FALSE BY Heights
    <2>1. loc[u] \in (n + 1) .. Len(stack) BY Heights DEF StackInv, Held
    <2>2. u \in ToSet(open) BY <2>1 DEF OpenSorted
    <2>. QED BY <2>1, <2>2 DEF OpenAt
  <1>2. \A k \in 1 .. Len(frames) : frames[k].base <= n BY Heights, FloorFacts
  <1>3. \A i \in 1 .. Len(callstart) : callstart[i] <= n BY Heights, FloorFacts
  <1>4. \A i \in 1 .. Len(retstart) : retstart[i] <= n BY Heights, FloorFacts
  <1>. QED BY <1>1, <1>2, <1>3, <1>4 DEF Held

(* A push leaves held what was.                                            *)
LEMMA HeldHigher ==
  ASSUME TypeOK, NEW m \in Nat, NEW n \in Nat, m <= n, Held(m)
  PROVE  Held(n)
  <1>1. \A k \in 1 .. Len(frames) : frames[k].base <= n BY Heights DEF Held
  <1>2. \A i \in 1 .. Len(callstart) : callstart[i] <= n BY Heights DEF Held
  <1>3. \A i \in 1 .. Len(retstart) : retstart[i] <= n BY Heights DEF Held
  <1>4. \A u \in Upval : loc[u] <= n BY Heights DEF Held
  <1>. QED BY <1>1, <1>2, <1>3, <1>4 DEF Held

(* Whatever a captured variable is, it is a value.                         *)
LEMMA DerefValue ==
  ASSUME TypeOK, StackInv, NEW u \in Upval, closed[u] # None
  PROVE  Deref(u) \in Value
  <1>1. CASE loc[u] = 0 BY <1>1 DEF Deref, TypeOK
  <1>2. CASE loc[u] # 0
    <2>1. loc[u] \in 1 .. Len(stack) BY <1>2, Heights DEF StackInv, Held
    <2>. QED BY <1>2, <2>1, Heights DEF Deref
  <1>. QED BY <1>1, <1>2

(* Steps that move values only: frames, marks and open upvalues stay.      *)
LEMMA QuietStep ==
  ASSUME MInv, UNCHANGED <<frames, marks, temp, tcap, open, loc>>,
         pc \in {"run", "capture"}, pc' \in {"run", "capture"},
         stack' \in Seq(Value), Len(stack') <= MaxStack, Held(Len(stack')),
         closed' \in [Upval -> Value \cup {None}],
         \A u \in Upval : closed[u] # None /\ closed'[u] = None => loc[u] = 0,
         ups' \in [Clo -> (SUBSET Upval) \cup {Unallocated}],
         \A c \in Clo : ups'[c] # Unallocated => \A u \in ups'[c] : closed'[u] # None,
         pc' = "capture" => stack' # <<>> /\ Top' \in Clo /\ ups'[Top'] # Unallocated
  PROVE  MInv'
  <1>1. TypeOK' BY DEF MInv, TypeOK, marks
  <1>2. OpenSorted' BY DEF MInv, OpenSorted
  <1>3. UpvalInv' BY DEF MInv, UpvalInv
  <1>4. StackInv
    BY DEF MInv, Alive
  <1>5. FramesInv' BY <1>4 DEF StackInv, FramesInv
  <1>6. MarksInv' BY <1>4 DEF StackInv, MarksInv, Between, marks
  <1>7. PhaseInv'
    <2>1. pc' # "save" /\ pc' # "restore" OBVIOUS
    <2>2. temp' = <<>> BY <1>4 DEF StackInv, PhaseInv
    <2>. QED BY <2>1, <2>2 DEF PhaseInv
  <1>8. Held(Len(stack))' BY DEF Held, marks
  <1>. QED BY <1>1, <1>2, <1>3, <1>5, <1>6, <1>7, <1>8 DEF MInv, StackInv

(* closeupval takes every open upvalue at or above the slot out of the     *)
(* list and gives it the value of its slot.                                *)
LEMMA Closing ==
  ASSUME TypeOK, OpenSorted, \A u \in Upval : loc[u] <= Len(stack),
         NEW last \in Nat, CloseUpval(last)
  PROVE  /\ open' \in Seq(Upval) /\ loc' \in [Upval -> 0 .. MaxStack]
         /\ closed' \in [Upval -> Value \cup {None}]
         /\ \A u \in Upval : loc'[u] = IF loc[u] >= last THEN 0 ELSE loc[u]
         /\ \A u \in Upval : closed'[u] = IF loc[u] # 0 /\ loc[u] >= last THEN stack[loc[u]]
                                          ELSE closed[u]
         /\ OpenSorted'
  <1>. DEFINE S(n) == {open[i] : i \in 1 .. n}
  <1>1. PICK n \in 0 .. Len(open) :
          /\ AtOrAbove(n, last)
          /\ closed' = [u \in Upval |-> IF u \in S(n) THEN stack[loc[u]] ELSE closed[u]]
          /\ loc' = [u \in Upval |-> IF u \in S(n) THEN 0 ELSE loc[u]]
          /\ open' = SubSeq(open, n + 1, Len(open))
    BY DEF CloseUpval
  <1>2. Len(open) \in Nat /\ n \in Nat /\ n <= Len(open) BY Heights
  <1>3. ToSet(open) = {open[i] : i \in 1 .. Len(open)}
    BY LenProperties DEF TypeOK, ToSet
  <1>4. \A u \in Upval : u \in S(n) <=> loc[u] # 0 /\ loc[u] >= last
    <2>1. ASSUME NEW j \in 1 .. n PROVE loc[open[j]] # 0 /\ loc[open[j]] >= last
      <3>1. open[j] \in ToSet(open) /\ open[j] \in Upval BY <1>2, <1>3, Heights
      <3>. QED BY <1>1, <3>1 DEF AtOrAbove, OpenSorted
    <2>2. ASSUME NEW u \in Upval, loc[u] # 0, loc[u] >= last PROVE u \in S(n)
      <3>1. PICK k \in 1 .. Len(open) : u = open[k] BY <1>3, <2>2 DEF OpenSorted
      <3>2. CASE k <= n BY <1>2, <3>1, <3>2
      <3>3. CASE k > n
        <4>1. n < Len(open) /\ n + 1 \in 1 .. Len(open) BY <1>2, <3>3
        <4>2. loc[open[n + 1]] < last BY <1>1, <4>1 DEF AtOrAbove
        <4>3. k = n + 1 \/ loc[open[n + 1]] > loc[open[k]]
          <5>1. DOMAIN open = 1 .. Len(open) BY LenProperties DEF TypeOK
          <5>. QED BY <1>2, <3>3, <4>1, <5>1 DEF OpenSorted
        <4>4. loc[open[n + 1]] \in Nat /\ loc[open[k]] \in Nat BY <4>1, Heights
        <4>. QED BY <2>2, <3>1, <4>2, <4>3, <4>4
      <3>. QED BY <1>2, <3>2, <3>3
    <2>. QED BY <2>1, <2>2
  <1>. HIDE DEF S
  <1>5. \A u \in Upval : loc'[u] = IF loc[u] >= last THEN 0 ELSE loc[u]
    BY <1>1, <1>4
  <1>6. \A u \in Upval : closed'[u] = IF loc[u] # 0 /\ loc[u] >= last THEN stack[loc[u]]
                                       ELSE closed[u]
    BY <1>1, <1>4
  <1>7. loc' \in [Upval -> 0 .. MaxStack] BY <1>1, Heights
  <1>8. closed' \in [Upval -> Value \cup {None}]
    <2>1. \A u \in Upval : loc[u] # 0 => stack[loc[u]] \in Value BY Heights
    <2>. QED BY <1>1, <1>4, <2>1 DEF TypeOK
  <1>9. /\ open' \in Seq(Upval) /\ Len(open') = Len(open) - n
        /\ \A i \in 1 .. Len(open) - n : open'[i] = open[n + i]
    <2>1. open \in Seq(Upval) BY DEF TypeOK
    <2>. QED BY <1>1, <2>1, Suffix
  <1>10. OpenSorted'
    <2>1. /\ DOMAIN open = 1 .. Len(open) /\ DOMAIN open' = 1 .. Len(open) - n
          /\ ToSet(open)' = {open'[i] : i \in 1 .. Len(open) - n}
      BY <1>9, LenProperties DEF TypeOK, ToSet
    <2>2. ASSUME NEW i \in 1 .. Len(open) - n
          PROVE  loc'[open'[i]] = loc[open[n + i]] /\ loc[open[n + i]] # 0
      <3>1. n + i \in 1 .. Len(open) /\ open[n + i] \in Upval BY <1>2, Heights
      <3>2. n + 1 \in 1 .. Len(open) /\ loc[open[n + 1]] < last
        BY <1>1, <1>2 DEF AtOrAbove
      <3>3. i = 1 \/ loc[open[n + 1]] > loc[open[n + i]]
        <4>1. n + 1 \in DOMAIN open /\ n + i \in DOMAIN open BY ONLY <2>1, <3>1, <3>2
        <4>2. n + 1 < n + i => loc[open[n + 1]] > loc[open[n + i]]
          BY ONLY OpenSorted, <4>1 DEF OpenSorted
        <4>3. n \in Nat /\ i \in Nat /\ i >= 1 BY <1>2
        <4>4. i = 1 \/ n + 1 < n + i BY ONLY <4>3
        <4>. QED BY ONLY <4>2, <4>4
      <3>4. loc[open[n + i]] < last
        <4>1. open[n + 1] \in Upval BY <3>2, Heights
        <4>. QED BY <3>1, <3>2, <3>3, <4>1, Heights
      <3>5. loc'[open[n + i]] = loc[open[n + i]]
        BY <1>5, <3>1, <3>4, Heights
      <3>6. loc[open[n + i]] # 0 BY <1>3, <3>1 DEF OpenSorted
      <3>. QED BY <1>9, <3>5, <3>6
    <2>3. ASSUME NEW i \in 1 .. Len(open) - n, NEW j \in 1 .. Len(open) - n, i < j
          PROVE  loc'[open'[i]] > loc'[open'[j]]
      <3>1. n + i \in 1 .. Len(open) /\ n + j \in 1 .. Len(open) /\ n + i < n + j
        BY <1>2, <2>3
      <3>2. loc[open[n + i]] > loc[open[n + j]] BY <2>1, <3>1 DEF OpenSorted
      <3>. QED BY <2>2, <3>2
    <2>4. ASSUME NEW u \in Upval, loc'[u] # 0
          PROVE  \E i \in 1 .. Len(open) - n : u = open'[i]
      <3>1. u \notin S(n) /\ loc[u] # 0 BY <1>1, <2>4
      <3>2. PICK k \in 1 .. Len(open) : u = open[k] BY <1>3, <3>1 DEF OpenSorted
      <3>3. k > n BY <1>2, <3>1, <3>2 DEF S
      <3>4. k - n \in 1 .. Len(open) - n /\ n + (k - n) = k BY <1>2, <3>3
      <3>. QED BY <1>9, <3>2, <3>4
    <2>5. ASSUME NEW u \in Upval, NEW i \in 1 .. Len(open) - n, u = open'[i]
          PROVE  loc'[u] # 0
      BY <2>2, <2>5
    <2>6. \A u \in Upval : loc'[u] # 0 <=> u \in ToSet(open)' BY <2>1, <2>4, <2>5
    <2>. QED BY <2>1, <2>3, <2>6 DEF OpenSorted
  <1>. QED BY <1>5, <1>6, <1>7, <1>8, <1>9, <1>10

(* An element put between two sequences.                                   *)
LEMMA Inserted ==
  ASSUME NEW S, NEW a \in Seq(S), NEW b \in Seq(S), NEW e \in S
  PROVE  /\ Append(a, e) \o b \in Seq(S)
         /\ Len(Append(a, e) \o b) = Len(a) + 1 + Len(b)
         /\ (Append(a, e) \o b)[Len(a) + 1] = e
         /\ \A i \in 1 .. Len(a) : (Append(a, e) \o b)[i] = a[i]
         /\ \A i \in 1 .. Len(b) : (Append(a, e) \o b)[Len(a) + 1 + i] = b[i]
  <1>. DEFINE c == Append(a, e)
  <1>1. /\ c \in Seq(S) /\ Len(c) = Len(a) + 1 /\ c[Len(a) + 1] = e
        /\ \A i \in 1 .. Len(a) : c[i] = a[i]
    BY AppendProperties
  <1>. HIDE DEF c
  <1>2. /\ c \o b \in Seq(S) /\ Len(c \o b) = Len(c) + Len(b)
        /\ \A i \in 1 .. Len(c) + Len(b) :
             (c \o b)[i] = IF i <= Len(c) THEN c[i] ELSE b[i - Len(c)]
        /\ Len(a) \in Nat /\ Len(b) \in Nat
    BY <1>1, ConcatProperties, LenProperties
  <1>3. (c \o b)[Len(a) + 1] = e BY <1>1, <1>2
  <1>4. \A i \in 1 .. Len(a) : (c \o b)[i] = a[i] BY <1>1, <1>2
  <1>5. ASSUME NEW i \in 1 .. Len(b) PROVE (c \o b)[Len(a) + 1 + i] = b[i]
    <2>1. /\ Len(a) + 1 + i \in 1 .. Len(c) + Len(b) /\ ~(Len(a) + 1 + i <= Len(c))
          /\ Len(a) + 1 + i - Len(c) = i
      BY <1>1, <1>2
    <2>. QED BY <1>2, <2>1
  <1>. QED BY <1>1, <1>2, <1>3, <1>4, <1>5 DEF c

(* captureupval finds the upvalue of a slot, or links a new one for it in  *)
(* its place in the list.                                                  *)
LEMMA Capturing ==
  ASSUME TypeOK, OpenSorted, UpvalInv, MachineAssumption,
         NEW i \in 1 .. MaxStack, NEW u \in Upval, CaptureUpval(i, u)
  PROVE  /\ open' \in Seq(Upval) /\ loc' \in [Upval -> 0 .. MaxStack]
         /\ closed' \in [Upval -> Value \cup {None}]
         /\ \/ UNCHANGED <<open, loc, closed>> /\ loc[u] = i
            \/ /\ loc[u] = 0 /\ closed[u] = None /\ \A v \in Upval : loc[v] # i
               /\ loc' = [loc EXCEPT ![u] = i] /\ closed' = [closed EXCEPT ![u] = Nil]
         /\ closed'[u] # None /\ loc'[u] = i
         /\ OpenSorted'
  <1>1. PICK n \in 0 .. Len(open) :
          /\ AtOrAbove(n, i + 1)
          /\ IF n < Len(open) /\ loc[open[n + 1]] = i
             THEN u = open[n + 1] /\ UNCHANGED <<open, loc, closed>>
             ELSE LinkUpval(n, i, u)
    BY DEF CaptureUpval
  <1>2. /\ Len(open) \in Nat /\ n \in Nat /\ n <= Len(open) /\ i \in Nat
        /\ DOMAIN open = 1 .. Len(open) /\ ToSet(open) = {open[j] : j \in 1 .. Len(open)}
    BY ONLY Heights, LenProperties DEF TypeOK, ToSet
  <1>3. CASE n < Len(open) /\ loc[open[n + 1]] = i
    <2>1. u = open[n + 1] /\ UNCHANGED <<open, loc, closed>> /\ loc[u] = i BY <1>1, <1>3
    <2>2. closed[u] # None BY <2>1, <1>2 DEF UpvalInv
    <2>3. OpenSorted' BY <2>1 DEF OpenSorted
    <2>. QED BY <2>1, <2>2, <2>3 DEF TypeOK
  <1>4. CASE ~(n < Len(open) /\ loc[open[n + 1]] = i)
    <2>1. /\ closed[u] = None /\ closed' = [closed EXCEPT ![u] = Nil]
          /\ loc' = [loc EXCEPT ![u] = i]
          /\ open' = Append(SubSeq(open, 1, n), u) \o SubSeq(open, n + 1, Len(open))
      BY <1>1, <1>4 DEF LinkUpval
    <2>2. loc[u] = 0 /\ u \notin ToSet(open) BY <2>1 DEF UpvalInv, OpenSorted
    <2>3. \A j \in 1 .. n : loc[open[j]] > i
      <3>. SUFFICES ASSUME NEW j \in 1 .. n PROVE loc[open[j]] > i OBVIOUS
      <3>1. loc[open[j]] >= i + 1 BY <1>1 DEF AtOrAbove
      <3>2. loc[open[j]] \in Nat BY <1>2, Heights
      <3>. QED BY <3>1, <3>2, <1>2
    <2>4. \A j \in n + 1 .. Len(open) : loc[open[j]] < i
      <3>. SUFFICES ASSUME NEW j \in n + 1 .. Len(open) PROVE loc[open[j]] < i OBVIOUS
      <3>1. n + 1 \in 1 .. Len(open) /\ j \in 1 .. Len(open) BY <1>2
      <3>2. loc[open[n + 1]] \in Nat /\ loc[open[j]] \in Nat BY <3>1, Heights
      <3>3. loc[open[n + 1]] < i BY <1>1, <1>2, <1>4, <3>1, <3>2 DEF AtOrAbove
      <3>4. j = n + 1 \/ loc[open[n + 1]] > loc[open[j]] BY <1>2, <3>1 DEF OpenSorted
      <3>. QED BY <1>2, <3>2, <3>3, <3>4
    <2>5. \A v \in Upval : loc[v] # i
      <3>. SUFFICES ASSUME NEW v \in Upval, loc[v] = i PROVE FALSE OBVIOUS
      <3>1. PICK j \in 1 .. Len(open) : v = open[j] BY <1>2 DEF OpenSorted
      <3>2. loc[open[j]] > i \/ loc[open[j]] < i BY <1>2, <2>3, <2>4
      <3>. QED BY <1>2, <3>1, <3>2
    <2>6. /\ open' \in Seq(Upval) /\ Len(open') = Len(open) + 1
          /\ \A j \in 1 .. Len(open) + 1 :
               open'[j] = IF j <= n THEN open[j] ELSE IF j = n + 1 THEN u ELSE open[j - 1]
      <3>1. open \in Seq(Upval) BY DEF TypeOK
      <3>. DEFINE a == SubSeq(open, 1, n)
                  b == SubSeq(open, n + 1, Len(open))
      <3>2. a \in Seq(Upval) /\ Len(a) = n /\ \A j \in 1 .. n : a[j] = open[j]
        BY <3>1, <1>2, Prefix
      <3>3. /\ b \in Seq(Upval) /\ Len(b) = Len(open) - n
            /\ \A j \in 1 .. Len(open) - n : b[j] = open[n + j]
        BY <3>1, <1>2, Suffix
      <3>4. open' = Append(a, u) \o b BY <2>1
      <3>. HIDE DEF a, b
      <3>5. /\ open' \in Seq(Upval) /\ Len(open') = n + 1 + Len(b)
            /\ open'[n + 1] = u /\ \A j \in 1 .. n : open'[j] = a[j]
            /\ \A j \in 1 .. Len(b) : open'[n + 1 + j] = b[j]
        <4>1. /\ Append(a, u) \o b \in Seq(Upval)
              /\ Len(Append(a, u) \o b) = Len(a) + 1 + Len(b)
              /\ (Append(a, u) \o b)[Len(a) + 1] = u
              /\ \A j \in 1 .. Len(a) : (Append(a, u) \o b)[j] = a[j]
              /\ \A j \in 1 .. Len(b) : (Append(a, u) \o b)[Len(a) + 1 + j] = b[j]
          <5>1. a \in Seq(Upval) /\ b \in Seq(Upval) BY <3>2, <3>3
          <5>. QED BY <5>1, Inserted
        <4>. QED BY <3>2, <3>4, <4>1
      <3>6. Len(open') = Len(open) + 1 BY <1>2, <3>3, <3>5
      <3>7. ASSUME NEW j \in 1 .. Len(open) + 1
            PROVE  open'[j] = IF j <= n THEN open[j]
                              ELSE IF j = n + 1 THEN u ELSE open[j - 1]
        <4>1. CASE j <= n BY <1>2, <3>2, <3>5, <4>1
        <4>2. CASE j = n + 1 BY <1>2, <3>5, <4>2
        <4>3. CASE j > n + 1
          <5>1. /\ j - (n + 1) \in 1 .. Len(open) - n /\ n + 1 + (j - (n + 1)) = j
                /\ n + (j - (n + 1)) = j - 1
            BY <1>2, <4>3
          <5>2. open'[n + 1 + (j - (n + 1))] = open[n + (j - (n + 1))]
            BY <3>3, <3>5, <5>1
          <5>3. open'[j] = open[j - 1] BY <5>1, <5>2
          <5>. QED BY <1>2, <4>3, <5>3
        <4>4. j <= n \/ j = n + 1 \/ j > n + 1 BY <1>2
        <4>. QED BY <4>1, <4>2, <4>3, <4>4
      <3>. QED BY <3>5, <3>6, <3>7
    <2>7. loc' \in [Upval -> 0 .. MaxStack] BY <2>1 DEF TypeOK
    <2>8. closed' \in [Upval -> Value \cup {None}] /\ closed'[u] # None
      BY <2>1 DEF TypeOK, Value, MachineAssumption
    <2>9. loc'[u] = i /\ \A v \in Upval : v # u => loc'[v] = loc[v] BY <2>1 DEF TypeOK
    <2>10. /\ DOMAIN open' = 1 .. Len(open) + 1
           /\ ToSet(open)' = {open'[j] : j \in 1 .. Len(open) + 1}
      BY <2>6, LenProperties DEF ToSet
    <2>11. \A j \in 1 .. Len(open) : open[j] \in Upval /\ open[j] # u /\ loc'[open[j]] = loc[open[j]]
      BY <1>2, <2>2, <2>9, Heights
    <2>12. ASSUME NEW j \in 1 .. Len(open) + 1
           PROVE  /\ j <= n => loc'[open'[j]] = loc[open[j]] /\ j \in 1 .. Len(open)
                  /\ j = n + 1 => loc'[open'[j]] = i
                  /\ j > n + 1 => /\ loc'[open'[j]] = loc[open[j - 1]]
                                  /\ j - 1 \in n + 1 .. Len(open)
      BY ONLY <1>2, <2>6, <2>9, <2>11
    <2>13. ASSUME NEW j \in 1 .. Len(open) + 1, NEW k \in 1 .. Len(open) + 1, j < k
           PROVE  loc'[open'[j]] > loc'[open'[k]]
      <3>1. CASE k <= n
        <4>1. loc[open[j]] > loc[open[k]] BY <1>2, <2>13, <3>1 DEF OpenSorted
        <4>. QED BY <1>2, <2>12, <2>13, <3>1, <4>1
      <3>2. CASE k = n + 1 BY <1>2, <2>3, <2>12, <2>13, <3>2
      <3>3. CASE k > n + 1 /\ j <= n
        <4>1. k - 1 \in 1 .. Len(open) /\ j < k - 1 BY <1>2, <3>3
        <4>2. loc[open[j]] > loc[open[k - 1]] BY <1>2, <2>13, <3>3, <4>1 DEF OpenSorted
        <4>. QED BY <1>2, <2>12, <2>13, <3>3, <4>2
      <3>4. CASE k > n + 1 /\ j = n + 1
        <4>1. loc[open[k - 1]] < i /\ k - 1 \in 1 .. Len(open) BY <1>2, <2>4, <3>4
        <4>. QED BY <1>2, <2>12, <3>4, <4>1, Heights
      <3>5. CASE k > n + 1 /\ j > n + 1
        <4>1. j - 1 \in 1 .. Len(open) /\ k - 1 \in 1 .. Len(open) /\ j - 1 < k - 1
          BY <1>2, <2>13, <3>5
        <4>2. loc[open[j - 1]] > loc[open[k - 1]] BY <1>2, <4>1 DEF OpenSorted
        <4>. QED BY <1>2, <2>12, <3>5, <4>2
      <3>. QED BY <1>2, <3>1, <3>2, <3>3, <3>4, <3>5
    <2>14. ASSUME NEW v \in Upval PROVE loc'[v] # 0 <=> v \in ToSet(open)'
      <3>1. CASE v = u
        <4>1. open'[n + 1] = u /\ n + 1 \in 1 .. Len(open) + 1 BY <1>2, <2>6
        <4>. QED BY <1>2, <2>9, <2>10, <3>1, <4>1
      <3>2. CASE v # u
        <4>1. loc'[v] = loc[v] BY <2>9, <3>2
        <4>2. ASSUME v \in ToSet(open) PROVE v \in ToSet(open)'
          <5>1. PICK j \in 1 .. Len(open) : v = open[j] BY <1>2, <4>2
          <5>2. CASE j <= n BY <1>2, <2>6, <2>10, <5>1, <5>2
          <5>3. CASE j > n
            <6>1. j + 1 \in 1 .. Len(open) + 1 /\ j + 1 > n + 1 /\ j + 1 - 1 = j
              BY <1>2, <5>3
            <6>2. open'[j + 1] = open[j] BY <1>2, <2>6, <6>1
            <6>. QED BY <2>10, <5>1, <6>1, <6>2
          <5>. QED BY <1>2, <5>2, <5>3
        <4>3. ASSUME v \in ToSet(open)' PROVE v \in ToSet(open)
          <5>1. PICK j \in 1 .. Len(open) + 1 : v = open'[j] BY <2>10, <4>3
          <5>2. \E k \in 1 .. Len(open) : v = open[k]
            <6>1. j # n + 1 BY <2>6, <3>2, <5>1
            <6>2. CASE j <= n BY <1>2, <2>6, <5>1, <6>2
            <6>3. CASE j > n + 1
              <7>1. j - 1 \in 1 .. Len(open) BY <1>2, <6>3
              <7>. QED BY <1>2, <2>6, <5>1, <6>3, <7>1
            <6>. QED BY <1>2, <6>1, <6>2, <6>3
          <5>. QED BY <1>2, <5>2
        <4>. QED BY <4>1, <4>2, <4>3 DEF OpenSorted
      <3>. QED BY <3>1, <3>2
    <2>15. OpenSorted' BY <2>10, <2>13, <2>14 DEF OpenSorted
    <2>. QED BY <2>1, <2>2, <2>5, <2>6, <2>7, <2>8, <2>9, <2>15
  <1>. QED BY <1>3, <1>4
----------------------------------------------------------------------------
(* The instructions that push one value.                                   *)
LEMMA PushStep ==
  ASSUME MInv, pc = "run", Room, NEW v \in Value, stack' = Append(stack, v),
         UNCHANGED <<frames, marks, temp, tcap, open, loc, closed>>,
         \/ ups' = ups /\ pc' = "run"
         \/ v \in Clo /\ ups' = [ups EXCEPT ![v] = {}] /\ pc' = "capture"
  PROVE  MInv'
  <1>0. TypeOK /\ UpvalInv /\ StackInv BY DEF MInv, Alive
  <1>1. /\ stack' \in Seq(Value) /\ Len(stack') = Len(stack) + 1 /\ stack' # <<>>
        /\ stack'[Len(stack) + 1] = v
    <2>1. stack \in Seq(Value) /\ stack' = Append(stack, v) BY <1>0 DEF TypeOK
    <2>2. /\ Append(stack, v) \in Seq(Value) /\ Append(stack, v) # <<>>
          /\ Len(Append(stack, v)) = Len(stack) + 1 /\ Append(stack, v)[Len(stack) + 1] = v
      BY ONLY v \in Value, <2>1, AppendProperties
    <2>. QED BY ONLY <2>1, <2>2
  <1>2. Len(stack') <= MaxStack /\ Top' = v
    <2>1. Top' = stack'[Len(stack')] BY DEF Top, Last
    <2>. QED BY <1>0, <1>1, <2>1, Heights DEF Room
  <1>3. Held(Len(stack')) BY <1>0, <1>1, Heights, HeldHigher DEF StackInv
  <1>4. /\ ups' \in [Clo -> (SUBSET Upval) \cup {Unallocated}]
        /\ \A c \in Clo : ups'[c] # Unallocated => \A u \in ups'[c] : closed'[u] # None
        /\ pc' = "capture" => ups'[Top'] # Unallocated
    BY <1>0, <1>2 DEF TypeOK, UpvalInv, Unallocated
  <1>. QED BY <1>0, <1>1, <1>2, <1>3, <1>4, QuietStep DEF TypeOK, UpvalInv

(* The instructions that drop values no closure has captured, and assign   *)
(* one to a slot below or to an upvalue.                                   *)
LEMMA DropStep ==
  ASSUME MInv, pc = "run", NEW n \in Nat, Len(stack) - n >= Floor,
         \A i \in (Len(stack) - n + 1) .. Len(stack) : OpenAt(i) = {},
         stack' \in Seq(Value), Len(stack') = Len(stack) - n,
         closed' \in [Upval -> Value \cup {None}],
         \A u \in Upval : closed[u] # None => closed'[u] # None,
         UNCHANGED <<frames, marks, temp, tcap, open, loc, ups, pc>>
  PROVE  MInv'
  <1>0. TypeOK /\ OpenSorted /\ UpvalInv /\ StackInv BY DEF MInv, Alive
  <1>1. Len(stack) - n \in Nat /\ Len(stack) - n <= Len(stack)
    BY <1>0, Heights, FloorFacts
  <1>2. Held(Len(stack')) BY <1>0, <1>1, HeldAbove
  <1>3. Len(stack') <= MaxStack BY <1>0, <1>1, Heights DEF TypeOK
  <1>4. \A c \in Clo : ups'[c] # Unallocated => \A u \in ups'[c] : closed'[u] # None
    BY <1>0 DEF UpvalInv, TypeOK
  <1>. QED BY <1>0, <1>2, <1>3, <1>4, QuietStep DEF TypeOK

(* The stack without its last n values.                                    *)
LEMMA PopnFacts ==
  ASSUME NEW S, stack \in Seq(S), NEW n \in 0 .. Len(stack)
  PROVE  /\ Popn(n) \in Seq(S) /\ Len(Popn(n)) = Len(stack) - n
         /\ \A i \in 1 .. Len(stack) - n : Popn(n)[i] = stack[i]
  <1>1. Len(stack) - n \in 0 .. Len(stack) BY LenProperties
  <1>. QED BY <1>1, Prefix DEF Popn

(* OP_SET_LOCAL drops the value on top, which no closure has captured.     *)
LEMMA SetLocalStep ==
  ASSUME MInv, NEW i \in 1 .. MaxStack, SetLocal(i)
  PROVE  MInv'
  <1>0. TypeOK /\ StackInv /\ pc = "run" BY DEF MInv, Alive, SetLocal
  <1>1. Len(stack) >= 1 /\ i < Len(stack) /\ 1 \in 0 .. Len(stack) /\ Len(stack) \in Nat
    BY <1>0, FloorFacts, Heights DEF SetLocal
  <1>2. Top \in Value BY <1>0, <1>1, Heights DEF Top, Last
  <1>3. stack' \in Seq(Value) /\ Len(stack') = Len(stack) - 1
    <2>1. /\ Popn(1) \in Seq(Value) /\ Len(Popn(1)) = Len(stack) - 1
          /\ i \in 1 .. Len(Popn(1))
      BY <1>0, <1>1, PopnFacts DEF TypeOK
    <2>. QED BY <1>2, <2>1, ExceptSeq DEF SetLocal
  <1>4. \A j \in (Len(stack) - 1 + 1) .. Len(stack) : OpenAt(j) = {}
    BY <1>1 DEF SetLocal
  <1>. QED BY <1>0, <1>3, <1>4, DropStep DEF SetLocal, heap, TypeOK

(* OP_POP drops values that no closure has captured.                       *)
LEMMA PopStep ==
  ASSUME MInv, NEW n \in 1 .. MaxStack, Pop(n)
  PROVE  MInv'
  <1>0. TypeOK /\ StackInv /\ pc = "run" BY DEF MInv, Alive, Pop
  <1>1. n \in 0 .. Len(stack) BY <1>0, FloorFacts, Heights DEF Pop
  <1>2. stack' \in Seq(Value) /\ Len(stack') = Len(stack) - n
    BY <1>0, <1>1, PopnFacts DEF Pop, TypeOK
  <1>3. n \in Nat /\ Len(stack) - n >= Floor BY <1>1, Heights DEF Pop
  <1>4. UNCHANGED <<frames, marks, temp, tcap, open, loc, closed, ups, pc>>
    BY DEF Pop, heap
  <1>5. closed' \in [Upval -> Value \cup {None}] BY <1>0, <1>4 DEF TypeOK
  <1>6. \A i \in (Len(stack) - n + 1) .. Len(stack) : OpenAt(i) = {} BY DEF Pop
  <1>. QED BY <1>0, <1>2, <1>3, <1>4, <1>5, <1>6, DropStep

(* OP_SET_UPVALUE drops the value on top, into a slot or an upvalue.       *)
LEMMA SetUpvalueStep ==
  ASSUME MInv, NEW u \in Upval, SetUpvalue(u)
  PROVE  MInv'
  <1>0. TypeOK /\ StackInv /\ OpenSorted /\ pc = "run" BY DEF MInv, Alive, SetUpvalue
  <1>1. Len(stack) >= 1 /\ 1 \in 0 .. Len(stack) /\ Len(stack) \in Nat
    BY <1>0, FloorFacts, Heights DEF SetUpvalue
  <1>2. Top \in Value /\ Top # None
    <2>1. Top \in Value BY <1>0, <1>1, Heights DEF Top, Last
    <2>. QED BY <2>1, MachineAssumption DEF MachineAssumption
  <1>3. Popn(1) \in Seq(Value) /\ Len(Popn(1)) = Len(stack) - 1
    BY <1>0, <1>1, PopnFacts DEF TypeOK
  <1>4. \A j \in (Len(stack) - 1 + 1) .. Len(stack) : OpenAt(j) = {}
    BY <1>1 DEF SetUpvalue
  <1>5. CASE loc[u] = 0
    <2>1. stack' = Popn(1) /\ closed' = [closed EXCEPT ![u] = Top] BY <1>5 DEF SetUpvalue
    <2>2. /\ closed' \in [Upval -> Value \cup {None}]
          /\ \A v \in Upval : closed[v] # None => closed'[v] # None
      BY <1>0, <1>2, <2>1 DEF TypeOK
    <2>. QED BY <1>0, <1>3, <1>4, <2>1, <2>2, DropStep DEF SetUpvalue
  <1>6. CASE loc[u] # 0
    <2>1. stack' = [Popn(1) EXCEPT ![loc[u]] = Top] /\ closed' = closed
      BY <1>6 DEF SetUpvalue
    <2>2. loc[u] \in 1 .. Len(Popn(1))
      <3>1. loc[u] <= Len(stack) /\ loc[u] \in Nat BY <1>0, Heights DEF StackInv, Held
      <3>2. loc[u] # Len(stack)
        <4>1. u \in ToSet(open) BY <1>0, <1>6 DEF OpenSorted
        <4>. QED BY <1>1, <1>4, <4>1 DEF OpenAt
      <3>. QED BY <1>1, <1>3, <1>6, <3>1, <3>2
    <2>3. stack' \in Seq(Value) /\ Len(stack') = Len(stack) - 1
      BY <1>2, <1>3, <2>1, <2>2, ExceptSeq
    <2>. QED BY <1>0, <1>4, <2>1, <2>3, DropStep DEF SetUpvalue, TypeOK
  <1>. QED BY <1>5, <1>6

(* A captured variable goes out of scope: its upvalue is closed.           *)
LEMMA CloseStep ==
  ASSUME MInv, NEW n \in 1 .. MaxStack, Close(n)
  PROVE  MInv'
  <1>0. TypeOK /\ OpenSorted /\ UpvalInv /\ StackInv /\ pc = "run" BY DEF MInv, Alive, Close
  <1>. DEFINE m == Len(stack) - n
  <1>1. /\ n \in 0 .. Len(stack) /\ m \in Nat /\ Len(stack) \in Nat /\ Floor \in Nat
        /\ m + 1 \in Nat /\ Floor <= m /\ m <= Len(stack) /\ Len(stack) <= MaxStack
    BY <1>0, FloorFacts, Heights DEF Close, TypeOK
  <1>2. stack' \in Seq(Value) /\ Len(stack') = m BY <1>0, <1>1, PopnFacts DEF Close, TypeOK
  <1>. HIDE DEF m
  <1>3. CloseUpval(m + 1) /\ UNCHANGED <<frames, marks, temp, tcap, ups, pc>>
    BY DEF Close, m
  <1>4. /\ open' \in Seq(Upval) /\ loc' \in [Upval -> 0 .. MaxStack]
        /\ closed' \in [Upval -> Value \cup {None}]
        /\ \A u \in Upval : loc'[u] = IF loc[u] >= m + 1 THEN 0 ELSE loc[u]
        /\ \A u \in Upval : closed'[u] = IF loc[u] # 0 /\ loc[u] >= m + 1 THEN stack[loc[u]]
                                         ELSE closed[u]
        /\ OpenSorted'
    <2>1. \A u \in Upval : loc[u] <= Len(stack) BY <1>0 DEF StackInv, Held
    <2>. QED BY <1>0, <1>1, <1>3, <2>1, Closing
  <1>5. TypeOK' BY SMTT(60), <1>0, <1>1, <1>2, <1>3, <1>4, Heights DEF TypeOK, marks
  <1>6. \A u \in Upval : closed[u] # None => closed'[u] # None
    <2>1. \A u \in Upval : loc[u] # 0 => stack[loc[u]] \in Value
      BY <1>0, Heights DEF StackInv, Held
    <2>. QED BY <1>4, <2>1, MachineAssumption DEF MachineAssumption
  <1>7. UpvalInv' BY <1>0, <1>3, <1>4, <1>6 DEF UpvalInv, TypeOK
  <1>8. \A u \in Upval : loc'[u] # 0 => loc'[u] = loc[u] BY <1>4
  <1>9. FramesInv' /\ PhaseInv'
    BY <1>0, <1>3 DEF StackInv, FramesInv, PhaseInv
  <1>10. MarksInv' BY <1>0, <1>3, <1>8 DEF StackInv, MarksInv, Between, marks
  <1>11. Held(Len(stack))'
    <2>1. ASSUME NEW u \in Upval PROVE loc'[u] <= m
      <3>1. loc[u] \in Nat BY <1>0, Heights
      <3>. QED BY <1>1, <1>4, <3>1
    <2>2. \A k \in 1 .. Len(frames) : frames[k].base <= m
      BY <1>0, <1>1, FloorFacts, Heights
    <2>3. \A i \in 1 .. Len(callstart) : callstart[i] <= m
      BY <1>0, <1>1, FloorFacts, Heights
    <2>4. \A i \in 1 .. Len(retstart) : retstart[i] <= m
      BY <1>0, <1>1, FloorFacts, Heights
    <2>. QED BY <1>2, <1>3, <2>1, <2>2, <2>3, <2>4 DEF Held, marks
  <1>. QED BY <1>0, <1>3, <1>4, <1>5, <1>7, <1>9, <1>10, <1>11 DEF MInv, StackInv

(* A closure captures a variable of the running frame, below its marks.    *)
LEMMA CaptureLocalStep ==
  ASSUME MInv, NEW i \in 1 .. MaxStack, NEW u \in Upval, CaptureLocal(i, u)
  PROVE  MInv'
  <1>0. /\ TypeOK /\ OpenSorted /\ UpvalInv /\ StackInv /\ pc = "capture"
        /\ IsVariable(i) /\ CaptureUpval(i, u)
        /\ ups' = [ups EXCEPT ![Top] = @ \cup {u}]
        /\ UNCHANGED <<stack, frames, marks, temp, tcap, pc>>
    BY DEF MInv, Alive, CaptureLocal
  <1>1. /\ stack # <<>> /\ Top \in Clo /\ ups[Top] \in SUBSET Upval /\ temp = <<>>
        /\ ups[Top] # Unallocated
    BY <1>0 DEF StackInv, PhaseInv, TypeOK
  <1>2. /\ open' \in Seq(Upval) /\ loc' \in [Upval -> 0 .. MaxStack]
        /\ closed' \in [Upval -> Value \cup {None}]
        /\ closed'[u] # None /\ loc'[u] = i /\ OpenSorted'
        /\ \/ UNCHANGED <<open, loc, closed>>
           \/ loc' = [loc EXCEPT ![u] = i] /\ closed' = [closed EXCEPT ![u] = Nil]
    BY <1>0, MachineAssumption, Capturing
  <1>3. \A v \in Upval : v # u => loc'[v] = loc[v] /\ closed'[v] = closed[v]
    BY <1>0, <1>2 DEF TypeOK
  <1>4. /\ ups'[Top] = ups[Top] \cup {u} /\ \A c \in Clo : c # Top => ups'[c] = ups[c]
        /\ ups' \in [Clo -> (SUBSET Upval) \cup {Unallocated}]
    BY <1>0, <1>1 DEF TypeOK
  <1>5. TypeOK' BY <1>0, <1>2, <1>4 DEF TypeOK, marks
  <1>6. UpvalInv'
    <2>1. \A v \in Upval : loc'[v] # 0 => closed'[v] # None
      BY <1>0, <1>2, <1>3 DEF UpvalInv
    <2>2. ASSUME NEW c \in Clo, ups'[c] # Unallocated, NEW v \in ups'[c]
          PROVE  closed'[v] # None
      <3>1. v \in Upval BY <1>4, <2>2
      <3>2. v = u \/ (ups[c] # Unallocated /\ v \in ups[c]) BY <1>1, <1>4, <2>2
      <3>. QED BY <1>0, <1>2, <1>3, <3>1, <3>2 DEF UpvalInv
    <2>. QED BY <2>1, <2>2 DEF UpvalInv
  <1>7. FramesInv' BY <1>0 DEF StackInv, FramesInv
  <1>8. MarksInv'
    <2>1. ASSUME NEW j \in 1 .. Len(callstart), i >= callstart[j]
          PROVE  Between(callstart[j], i)
      <3>1. callstart[j] \in ToSet(callstart) BY <1>0, LenProperties DEF TypeOK, ToSet
      <3>2. ~(callstart[j] > Frame.base)
        BY <1>0, <2>1, <3>1, Heights DEF IsVariable
      <3>3. callstart[j] # Frame.base BY <1>0, TopFacts DEF StackInv, MarksInv
      <3>4. callstart[j] < Frame.base BY <1>0, <3>2, <3>3, TopFacts, Heights
      <3>5. Frame.base < i BY <1>0 DEF IsVariable
      <3>. QED BY <1>0, <3>4, <3>5, TopFacts DEF Between
    <2>2. ASSUME NEW j \in 1 .. Len(retstart), i > retstart[j]
          PROVE  Between(retstart[j], i)
      <3>1. retstart[j] \in ToSet(retstart) BY <1>0, LenProperties DEF TypeOK, ToSet
      <3>2. ~(retstart[j] >= Frame.base)
        BY <1>0, <2>2, <3>1, Heights DEF IsVariable
      <3>3. retstart[j] < Frame.base BY SMTT(60), <1>0, <3>2, TopFacts, Heights
      <3>4. Frame.base < i BY <1>0 DEF IsVariable
      <3>. QED BY <1>0, <3>3, <3>4, TopFacts DEF Between
    <2>. QED BY <1>0, <1>2, <1>3, <2>1, <2>2 DEF StackInv, MarksInv, Between, marks
  <1>9. PhaseInv'
    <2>1. Top' = Top BY <1>0 DEF Top, Last
    <2>2. ups'[Top] # Unallocated
      BY <1>1, <1>4, MachineAssumption DEF MachineAssumption, Unallocated
    <2>. QED BY <1>0, <1>1, <2>1, <2>2 DEF PhaseInv
  <1>10. Held(Len(stack))'
    <2>1. i <= Len(stack) BY <1>0, Heights DEF IsVariable
    <2>. QED BY <1>0, <1>2, <1>3, <2>1 DEF StackInv, Held, marks
  <1>. QED BY <1>0, <1>2, <1>5, <1>6, <1>7, <1>8, <1>9, <1>10 DEF MInv, StackInv

(* A closure shares an upvalue of the running one.                         *)
LEMMA CaptureOuterStep ==
  ASSUME MInv, NEW u \in Upval, CaptureOuter(u)
  PROVE  MInv'
  <1>0. /\ TypeOK /\ UpvalInv /\ StackInv /\ pc = "capture" /\ u \in ups[Frame.clo]
        /\ ups' = [ups EXCEPT ![Top] = @ \cup {u}]
        /\ UNCHANGED <<stack, frames, marks, temp, tcap, open, loc, closed, pc>>
    BY DEF MInv, Alive, CaptureOuter
  <1>1. stack # <<>> /\ Top \in Clo /\ ups[Top] \in SUBSET Upval /\ ups[Top] # Unallocated
    BY <1>0 DEF StackInv, PhaseInv, TypeOK
  <1>2. Frame.clo \in Clo /\ ups[Frame.clo] # Unallocated
    BY <1>0, TopFacts, MachineAssumption DEF MachineAssumption, Unallocated
  <1>3. ups' \in [Clo -> (SUBSET Upval) \cup {Unallocated}]
    BY <1>0, <1>1 DEF TypeOK
  <1>4. \A c \in Clo : ups'[c] # Unallocated => \A v \in ups'[c] : closed'[v] # None
    BY <1>0, <1>1, <1>2 DEF UpvalInv, TypeOK
  <1>5. Top' = Top /\ ups'[Top] # Unallocated
    BY <1>0, <1>1, MachineAssumption DEF MachineAssumption, Unallocated, Top, Last, TypeOK
  <1>. QED BY <1>0, <1>1, <1>3, <1>4, <1>5, QuietStep DEF TypeOK, StackInv, UpvalInv
----------------------------------------------------------------------------
(* OP_CALLSTART puts its mark above all others and above what is captured. *)
LEMMA CallStartStep ==
  ASSUME MInv, CallStart
  PROVE  MInv'
  <1>0. /\ TypeOK /\ OpenSorted /\ UpvalInv /\ StackInv /\ pc = "run"
        /\ Len(stack) > Floor /\ OpenAt(Len(stack)) = {}
        /\ callstart' = Append(callstart, Len(stack))
        /\ UNCHANGED <<stack, frames, retstart, temp, tcap, open, loc, closed, ups, pc>>
    BY DEF MInv, Alive, CallStart, heap
  <1>1. Len(stack) \in 0 .. MaxStack BY <1>0, Heights DEF TypeOK
  <1>2. /\ callstart' \in Seq(0 .. MaxStack) /\ Len(callstart') = Len(callstart) + 1
        /\ callstart'[Len(callstart) + 1] = Len(stack)
        /\ \A i \in 1 .. Len(callstart) : callstart'[i] = callstart[i]
    BY <1>0, <1>1, AppendProperties DEF TypeOK
  <1>3. TypeOK' BY <1>0, <1>2 DEF TypeOK
  <1>4. OpenSorted' /\ UpvalInv' BY <1>0 DEF OpenSorted, UpvalInv
  <1>5. FramesInv' BY <1>0 DEF StackInv, FramesInv
  <1>6. PhaseInv' BY <1>0 DEF StackInv, PhaseInv
  <1>7. \A i \in 1 .. Len(callstart) + 1 :
          \/ i \in 1 .. Len(callstart) /\ callstart'[i] = callstart[i] /\ i # Len(callstart) + 1
          \/ i = Len(callstart) + 1 /\ callstart'[i] = Len(stack)
    BY <1>0, <1>2, Heights
  <1>8. \A i \in 1 .. Len(callstart) : callstart[i] < Len(stack)
    BY <1>0, Heights, FloorFacts
  <1>9. \A k \in 1 .. Len(frames) : frames[k].base < Len(stack)
    BY <1>0, Heights, FloorFacts
  <1>10. \A u \in Upval : loc[u] # 0 => loc[u] < Len(stack)
    <2>. SUFFICES ASSUME NEW u \in Upval, loc[u] # 0 PROVE loc[u] < Len(stack) OBVIOUS
    <2>1. loc[u] # Len(stack) BY <1>0 DEF OpenSorted, OpenAt
    <2>. QED BY <1>0, <2>1, Heights DEF StackInv, Held
  <1>11. Len(stack) >= 1 BY <1>0, Heights, FloorFacts
  <1>12. MarksInv'
    <2>1. ASSUME NEW i \in 1 .. Len(callstart'), NEW j \in 1 .. Len(callstart'), i < j
          PROVE  callstart'[i] < callstart'[j]
      <3>1. i \in 1 .. Len(callstart) /\ callstart'[i] = callstart[i]
        BY <1>0, <1>2, <1>7, <2>1, Heights
      <3>2. CASE j \in 1 .. Len(callstart)
        BY <1>0, <1>2, <2>1, <3>1, <3>2 DEF StackInv, MarksInv
      <3>3. CASE callstart'[j] = Len(stack) BY <1>8, <3>1, <3>3
      <3>. QED BY <1>2, <1>7, <3>2, <3>3
    <2>2. ASSUME NEW i \in 1 .. Len(callstart')
          PROVE  callstart'[i] >= 1 /\ \A k \in 1 .. Len(frames) : frames[k].base # callstart'[i]
      <3>1. CASE i \in 1 .. Len(callstart) /\ callstart'[i] = callstart[i]
        BY <1>0, <3>1 DEF StackInv, MarksInv
      <3>2. CASE callstart'[i] = Len(stack) BY <1>0, <1>9, <1>11, <3>2, Heights
      <3>. QED BY <1>2, <1>7, <3>1, <3>2
    <2>3. ASSUME NEW u \in Upval, loc[u] # 0, NEW i \in 1 .. Len(callstart'),
                 loc[u] >= callstart'[i]
          PROVE  Between(callstart'[i], loc[u])
      <3>1. CASE i \in 1 .. Len(callstart) /\ callstart'[i] = callstart[i]
        BY <1>0, <2>3, <3>1 DEF StackInv, MarksInv
      <3>2. CASE callstart'[i] = Len(stack)
        BY <1>0, <1>10, <2>3, <3>2, Heights
      <3>. QED BY <1>2, <1>7, <3>1, <3>2
    <2>. QED BY <1>0, <2>1, <2>2, <2>3 DEF StackInv, MarksInv, Between
  <1>13. Held(Len(stack))'
    <2>1. \A i \in 1 .. Len(callstart') : callstart'[i] <= Len(stack)
      BY <1>0, <1>2, <1>7, <1>8, Heights
    <2>. QED BY <1>0, <2>1 DEF StackInv, Held
  <1>. QED BY <1>0, <1>3, <1>4, <1>5, <1>6, <1>12, <1>13 DEF MInv, StackInv

(* A new frame stays between what it was between.                          *)
LEMMA MoreFrames ==
  ASSUME TypeOK, NEW f, frames' = Append(frames, f),
         f \in [base : 0..MaxStack, retcnt : Nat, clo : Clo]
  PROVE  /\ frames' \in Seq([base : 0..MaxStack, retcnt : Nat, clo : Clo])
         /\ Len(frames') = Len(frames) + 1 /\ frames'[Len(frames) + 1] = f
         /\ \A k \in 1 .. Len(frames) : frames'[k] = frames[k]
         /\ \A m, i : Between(m, i) => Between(m, i)'
         /\ \A m, i : m < f.base /\ f.base <= i => Between(m, i)'
  <1>1. /\ frames' \in Seq([base : 0..MaxStack, retcnt : Nat, clo : Clo])
        /\ Len(frames') = Len(frames) + 1 /\ frames'[Len(frames) + 1] = f
        /\ \A k \in 1 .. Len(frames) : frames'[k] = frames[k]
    BY AppendProperties DEF TypeOK
  <1>2. Len(frames) \in Nat BY Heights
  <1>3. ASSUME NEW m, NEW i, Between(m, i) PROVE Between(m, i)'
    <2>1. PICK k \in 1 .. Len(frames) : m < frames[k].base /\ frames[k].base <= i
      BY <1>3 DEF Between
    <2>2. k \in 1 .. Len(frames') /\ frames'[k] = frames[k] BY <1>1, <1>2
    <2>. QED BY <2>1, <2>2 DEF Between
  <1>4. ASSUME NEW m, NEW i, m < f.base, f.base <= i PROVE Between(m, i)'
    <2>1. Len(frames) + 1 \in 1 .. Len(frames') BY <1>1, <1>2
    <2>. QED BY <1>1, <1>4, <2>1 DEF Between
  <1>. QED BY <1>1, <1>3, <1>4

(* OP_CALL turns the last mark into the slot of a frame.                   *)
LEMMA CallStep ==
  ASSUME MInv, NEW w \in Wants, Call(w)
  PROVE  MInv'
  <1>0. /\ TypeOK /\ OpenSorted /\ UpvalInv /\ StackInv /\ pc = "run"
        /\ Calling /\ Callee \in Clo /\ Len(frames) < MaxFrames
        /\ callstart' = Front(callstart)
        /\ frames' = Append(frames,
                       [base |-> Len(stack) - Argc, retcnt |-> w, clo |-> Callee])
        /\ UNCHANGED <<stack, retstart, temp, tcap, open, loc, closed, ups, pc>>
    BY DEF MInv, Alive, Call, heap
  <1>. DEFINE at == Last(callstart)
              f  == [base |-> Len(stack) - Argc, retcnt |-> w, clo |-> Callee]
  <1>1. /\ callstart # <<>> /\ at \in 0 .. MaxStack /\ at > Frame.base
        /\ at = callstart[Len(callstart)] /\ Len(callstart) \in Nat \ {0}
    BY <1>0, TopFacts DEF Calling
  <1>2. /\ f.base = at /\ f.retcnt = w /\ f.clo = Callee
        /\ f \in [base : 0..MaxStack, retcnt : Nat, clo : Clo]
    <2>1. w \in Nat BY MachineAssumption DEF MachineAssumption
    <2>2. Len(stack) - Argc = at BY <1>0, <1>1, Heights DEF Argc
    <2>. QED BY <1>0, <1>1, <2>1, <2>2
  <1>. HIDE DEF at, f
  <1>3. /\ callstart' \in Seq(0 .. MaxStack) /\ Len(callstart') = Len(callstart) - 1
        /\ \A i \in 1 .. Len(callstart) - 1 : callstart'[i] = callstart[i]
    <2>1. callstart \in Seq(0 .. MaxStack) BY <1>0 DEF TypeOK
    <2>. QED BY <1>0, <1>1, <2>1, Ends
  <1>4. /\ frames' \in Seq([base : 0..MaxStack, retcnt : Nat, clo : Clo])
        /\ Len(frames') = Len(frames) + 1 /\ frames'[Len(frames) + 1] = f
        /\ \A k \in 1 .. Len(frames) : frames'[k] = frames[k]
        /\ \A m, i : Between(m, i) => Between(m, i)'
        /\ \A m, i : m < at /\ at <= i => Between(m, i)'
    BY <1>0, <1>2, MoreFrames DEF f
  <1>5. TypeOK'
    <2>1. Len(frames') <= MaxFrames
      BY <1>0, <1>4, Heights, MachineAssumption DEF MachineAssumption
    <2>. QED BY <1>0, <1>3, <1>4, <2>1 DEF TypeOK
  <1>6. OpenSorted' /\ UpvalInv' BY <1>0 DEF OpenSorted, UpvalInv
  <1>7. /\ Len(frames) \in Nat \ {0}
        /\ \A k \in 1 .. Len(frames) : frames[k].base \in Nat /\ frames[k].base < at
    <2>1. \A k \in 1 .. Len(frames) : frames[k].base <= Frame.base BY <1>0, TopFacts
    <2>. QED BY SMTT(60), <1>0, <1>1, <2>1, TopFacts, Heights
  <1>8. \A k \in 1 .. Len(frames') :
          \/ k \in 1 .. Len(frames) /\ frames'[k] = frames[k]
          \/ k = Len(frames) + 1 /\ frames'[k].base = at
    BY <1>2, <1>4, <1>7
  <1>9. FramesInv'
    <2>1. frames' # <<>>
      <3>1. Len(frames') # 0 BY <1>4, <1>7
      <3>. QED BY <3>1, EmptySeq
    <2>2. 1 \in 1 .. Len(frames) /\ frames'[1] = frames[1] BY <1>4, <1>7
    <2>3. ASSUME NEW j \in 1 .. Len(frames'), NEW k \in 1 .. Len(frames'), j < k
          PROVE  frames'[j].base < frames'[k].base
      <3>1. j \in 1 .. Len(frames) /\ frames'[j] = frames[j]
        <4>1. j \in 1 .. Len(frames) BY <1>4, <1>7, <2>3
        <4>. QED BY <1>4, <4>1
      <3>2. CASE k \in 1 .. Len(frames) /\ frames'[k] = frames[k]
        BY <1>0, <2>3, <3>1, <3>2 DEF StackInv, FramesInv
      <3>3. CASE frames'[k].base = at BY <1>7, <3>1, <3>3
      <3>. QED BY <1>8, <3>2, <3>3
    <2>. QED BY <1>0, <2>1, <2>2, <2>3 DEF StackInv, FramesInv
  <1>10. \A i \in 1 .. Len(callstart') : i \in 1 .. Len(callstart) /\ i < Len(callstart)
                                          /\ callstart'[i] = callstart[i] /\ callstart[i] < at
    <2>. SUFFICES ASSUME NEW i \in 1 .. Len(callstart')
                  PROVE  i \in 1 .. Len(callstart) /\ i < Len(callstart)
                         /\ callstart'[i] = callstart[i] /\ callstart[i] < at
      OBVIOUS
    <2>1. i \in 1 .. Len(callstart) /\ i < Len(callstart) BY <1>1, <1>3
    <2>2. Len(callstart) \in 1 .. Len(callstart) BY <1>1
    <2>3. callstart[i] < callstart[Len(callstart)]
      BY <1>0, <2>1, <2>2 DEF StackInv, MarksInv
    <2>. QED BY <1>1, <1>3, <2>1, <2>3
  <1>11. MarksInv'
    <2>1. ASSUME NEW i \in 1 .. Len(callstart')
          PROVE  callstart'[i] >= 1 /\ \A k \in 1 .. Len(frames') : frames'[k].base # callstart'[i]
      <3>1. callstart[i] >= 1 /\ \A k \in 1 .. Len(frames) : frames[k].base # callstart[i]
        BY <1>0, <1>10 DEF StackInv, MarksInv
      <3>. QED BY <1>0, <1>8, <1>10, <3>1, Heights
    <2>2. \A i, j \in 1 .. Len(callstart') : i < j => callstart'[i] < callstart'[j]
      BY <1>0, <1>10 DEF StackInv, MarksInv
    <2>3. \A i, j \in 1 .. Len(retstart) : i < j => Between(retstart[i], retstart[j])'
      BY <1>0, <1>4 DEF StackInv, MarksInv
    <2>4. ASSUME NEW u \in Upval, loc[u] # 0
          PROVE  /\ \A i \in 1 .. Len(callstart') :
                      loc[u] >= callstart'[i] => Between(callstart[i], loc[u])'
                 /\ \A i \in 1 .. Len(retstart) :
                      loc[u] > retstart[i] => Between(retstart[i], loc[u])'
      BY <1>0, <1>4, <1>10, <2>4 DEF StackInv, MarksInv
    <2>. QED BY <1>0, <1>10, <2>1, <2>2, <2>3, <2>4 DEF MarksInv, Between
  <1>12. PhaseInv' BY <1>0 DEF StackInv, PhaseInv
  <1>13. Held(Len(stack))'
    <2>1. at <= Len(stack) BY <1>0, <1>1 DEF StackInv, Held
    <2>2. \A k \in 1 .. Len(frames') : frames'[k].base <= Len(stack)
      BY <1>0, <1>8, <2>1 DEF StackInv, Held
    <2>. QED BY <1>0, <1>10, <2>2 DEF StackInv, Held
  <1>. QED BY <1>0, <1>5, <1>6, <1>9, <1>11, <1>12, <1>13 DEF MInv, StackInv

(* A run-time error stops the interpreter with an empty stack.             *)
LEMMA RunErrorStep ==
  ASSUME MInv, RunError
  PROVE  MInv'
  <1>0. /\ TypeOK /\ OpenSorted /\ UpvalInv /\ StackInv /\ Calling
        /\ stack' = <<>> /\ callstart' = Front(callstart) /\ pc' = "error"
        /\ UNCHANGED <<frames, retstart, temp, tcap, open, loc, closed, ups>>
    BY DEF MInv, Alive, RunError, heap
  <1>1. callstart' \in Seq(0 .. MaxStack)
    <2>1. callstart \in Seq(0 .. MaxStack) /\ callstart # <<>>
      BY <1>0 DEF TypeOK, Calling
    <2>. QED BY <1>0, <2>1, Ends
  <1>2. stack' \in Seq(Value) /\ Len(stack') <= MaxStack
    BY <1>0, EmptySeq, Heights
  <1>3. TypeOK' BY <1>0, <1>1, <1>2 DEF TypeOK
  <1>4. OpenSorted' /\ UpvalInv' BY <1>0 DEF OpenSorted, UpvalInv
  <1>. QED BY <1>0, <1>3, <1>4 DEF MInv, Alive

(* A return statement marks the stack above all its frame has captured.    *)
LEMMA RetStartStep ==
  ASSUME MInv, RetStart
  PROVE  MInv'
  <1>0. /\ TypeOK /\ OpenSorted /\ UpvalInv /\ StackInv /\ pc = "run" /\ ~Returning
        /\ retstart' = Append(retstart, Len(stack))
        /\ UNCHANGED <<stack, frames, callstart, temp, tcap, open, loc, closed, ups, pc>>
    BY DEF MInv, Alive, RetStart, heap
  <1>1. Len(stack) \in 0 .. MaxStack BY <1>0, Heights DEF TypeOK
  <1>2. /\ retstart' \in Seq(0 .. MaxStack) /\ Len(retstart') = Len(retstart) + 1
        /\ retstart'[Len(retstart) + 1] = Len(stack)
        /\ \A i \in 1 .. Len(retstart) : retstart'[i] = retstart[i]
    BY <1>0, <1>1, AppendProperties DEF TypeOK
  <1>3. TypeOK' BY <1>0, <1>2 DEF TypeOK
  <1>4. OpenSorted' /\ UpvalInv' BY <1>0 DEF OpenSorted, UpvalInv
  <1>5. FramesInv' BY <1>0 DEF StackInv, FramesInv
  <1>6. PhaseInv' BY <1>0 DEF StackInv, PhaseInv
  <1>7. \A i \in 1 .. Len(retstart) + 1 :
          \/ i \in 1 .. Len(retstart) /\ retstart'[i] = retstart[i] /\ i # Len(retstart) + 1
          \/ i = Len(retstart) + 1 /\ retstart'[i] = Len(stack)
    BY <1>0, <1>2, Heights
  <1>8. \A u \in Upval : loc[u] <= Len(stack) BY <1>0 DEF StackInv, Held
  <1>9. \A i \in 1 .. Len(retstart) : Between(retstart[i], Len(stack))
    <2>1. Len(frames) \in 1 .. Len(frames) /\ Frame.base <= Len(stack)
          /\ Frame = frames[Len(frames)]
      BY <1>0, TopFacts DEF StackInv, Held
    <2>. QED BY <1>0, <2>1, TopFacts DEF Between
  <1>10. MarksInv'
    <2>1. ASSUME NEW i \in 1 .. Len(retstart'), NEW j \in 1 .. Len(retstart'), i < j
          PROVE  Between(retstart'[i], retstart'[j])
      <3>1. i \in 1 .. Len(retstart) /\ retstart'[i] = retstart[i]
        BY <1>0, <1>2, <1>7, <2>1, Heights
      <3>2. CASE j \in 1 .. Len(retstart)
        BY <1>0, <1>2, <2>1, <3>1, <3>2 DEF StackInv, MarksInv
      <3>3. CASE retstart'[j] = Len(stack) BY <1>9, <3>1, <3>3
      <3>. QED BY <1>2, <1>7, <3>2, <3>3
    <2>2. ASSUME NEW u \in Upval, loc[u] # 0, NEW i \in 1 .. Len(retstart'),
                 loc[u] > retstart'[i]
          PROVE  Between(retstart'[i], loc[u])
      <3>1. CASE i \in 1 .. Len(retstart) /\ retstart'[i] = retstart[i]
        BY <1>0, <2>2, <3>1 DEF StackInv, MarksInv
      <3>2. CASE retstart'[i] = Len(stack) BY <1>0, <1>8, <2>2, <3>2, Heights
      <3>. QED BY <1>2, <1>7, <3>1, <3>2
    <2>. QED BY <1>0, <2>1, <2>2 DEF StackInv, MarksInv, Between
  <1>11. Held(Len(stack))'
    <2>1. \A i \in 1 .. Len(retstart) : retstart[i] <= Len(stack)
      BY <1>0 DEF StackInv, Held
    <2>2. \A i \in 1 .. Len(retstart') : retstart'[i] <= Len(stack)
      BY <1>0, <1>2, <1>7, <2>1, Heights
    <2>. QED BY <1>0, <2>2 DEF StackInv, Held
  <1>. QED BY <1>0, <1>3, <1>4, <1>5, <1>6, <1>10, <1>11 DEF MInv, StackInv

(* OP_RET fixes the number of results above its mark.                      *)
LEMMA RetStep ==
  ASSUME MInv, Ret
  PROVE  MInv'
  <1>. DEFINE r    == Last(retstart)
              got  == Len(stack) - r
              want == IF Frame.retcnt = 0 THEN got ELSE Frame.retcnt
              vs   == [i \in 1 .. want |-> IF i <= got THEN stack[r + i] ELSE Nil]
  <1>0. /\ TypeOK /\ OpenSorted /\ UpvalInv /\ StackInv /\ pc = "run"
        /\ Returning /\ ~Calling /\ got > 0 /\ r + want <= MaxStack
        /\ stack' = SubSeq(stack, 1, r) \o vs
        /\ frames' = [frames EXCEPT ![Len(frames)].retcnt = want]
        /\ retstart' = Front(retstart) /\ pc' = "save"
        /\ UNCHANGED <<callstart, temp, tcap, open, loc, closed, ups>>
    BY DEF MInv, Alive, Ret, heap
  <1>1. /\ retstart # <<>> /\ r \in 0 .. MaxStack /\ r >= Frame.base /\ r \in Nat
        /\ r = retstart[Len(retstart)] /\ Len(retstart) \in Nat \ {0}
    BY <1>0, TopFacts, Heights DEF Returning
  <1>2. r <= Len(stack) /\ got \in Nat
    <2>1. r <= Len(stack) BY <1>0, <1>1 DEF StackInv, Held
    <2>. QED BY <1>0, <1>1, <2>1, Heights
  <1>3. want \in Nat BY <1>0, <1>2, TopFacts
  <1>4. vs \in Seq(Value) /\ Len(vs) = want
    <2>1. ASSUME NEW i \in 1 .. want PROVE (IF i <= got THEN stack[r + i] ELSE Nil) \in Value
      <3>1. Nil \in Value BY MachineAssumption DEF MachineAssumption, Value
      <3>2. i <= got => r + i \in 1 .. Len(stack) BY SMTT(60), <1>0, <1>1, <1>2, Heights
      <3>. QED BY <1>0, <3>1, <3>2, Heights
    <2>2. vs \in [1 .. want -> Value] BY <2>1
    <2>. HIDE DEF vs, want
    <2>. QED BY <1>3, <2>2, FunctionSeq
  <1>. HIDE DEF r, got, want, vs
  <1>5. /\ stack' \in Seq(Value) /\ Len(stack') = r + want
        /\ \A i \in 1 .. r : stack'[i] = stack[i]
    <2>1. /\ SubSeq(stack, 1, r) \in Seq(Value) /\ Len(SubSeq(stack, 1, r)) = r
          /\ \A i \in 1 .. r : SubSeq(stack, 1, r)[i] = stack[i]
      <3>1. stack \in Seq(Value) /\ r \in 0 .. Len(stack)
        BY <1>0, <1>1, <1>2, Heights DEF TypeOK
      <3>. QED BY <3>1, Prefix
    <2>. DEFINE p == SubSeq(stack, 1, r)
    <2>. HIDE DEF p
    <2>2. p \in Seq(Value) /\ Len(p) = r /\ \A i \in 1 .. r : p[i] = stack[i]
      BY <2>1 DEF p
    <2>3. /\ p \o vs \in Seq(Value) /\ Len(p \o vs) = Len(p) + Len(vs)
          /\ \A i \in 1 .. Len(p) + Len(vs) :
               (p \o vs)[i] = IF i <= Len(p) THEN p[i] ELSE vs[i - Len(p)]
      BY <1>4, <2>2, ConcatProperties
    <2>4. stack' = p \o vs BY <1>0 DEF p
    <2>5. \A i \in 1 .. r : i \in 1 .. Len(p) + Len(vs) /\ i <= Len(p)
      BY <1>1, <1>3, <1>4, <2>2
    <2>. QED BY <1>4, <2>2, <2>3, <2>4, <2>5
  <1>6. /\ retstart' \in Seq(0 .. MaxStack) /\ Len(retstart') = Len(retstart) - 1
        /\ \A i \in 1 .. Len(retstart) - 1 : retstart'[i] = retstart[i]
    <2>1. retstart \in Seq(0 .. MaxStack) BY <1>0 DEF TypeOK
    <2>. QED BY <1>0, <1>1, <2>1, Ends
  <1>7. /\ frames' \in Seq([base : 0..MaxStack, retcnt : Nat, clo : Clo])
        /\ Len(frames') = Len(frames)
        /\ \A k \in 1 .. Len(frames) : frames'[k].base = frames[k].base
        /\ frames'[Len(frames)].retcnt = want
    <2>1. Len(frames) \in 1 .. Len(frames) /\ frames[Len(frames)] = Frame BY <1>0, TopFacts
    <2>. DEFINE f == [Frame EXCEPT !.retcnt = want]
    <2>2. /\ f \in [base : 0..MaxStack, retcnt : Nat, clo : Clo]
          /\ f.base = Frame.base /\ f.retcnt = want
      BY <1>0, <1>3, <2>1, Heights
    <2>3. frames' = [frames EXCEPT ![Len(frames)] = f] BY <1>0, <2>1
    <2>. HIDE DEF f
    <2>4. frames \in Seq([base : 0..MaxStack, retcnt : Nat, clo : Clo]) BY <1>0 DEF TypeOK
    <2>5. /\ frames' \in Seq([base : 0..MaxStack, retcnt : Nat, clo : Clo])
          /\ Len(frames') = Len(frames)
          /\ \A k \in 1 .. Len(frames) :
               frames'[k] = IF k = Len(frames) THEN f ELSE frames[k]
      BY <2>1, <2>2, <2>3, <2>4, ExceptSeq
    <2>. QED BY <2>1, <2>2, <2>5
  <1>8. TypeOK' BY <1>0, <1>5, <1>6, <1>7 DEF TypeOK
  <1>9. OpenSorted' /\ UpvalInv' BY <1>0 DEF OpenSorted, UpvalInv
  <1>10. /\ Frame' = frames'[Len(frames)] /\ Len(frames) \in 1 .. Len(frames)
         /\ Frame'.base = Frame.base /\ Frame'.retcnt = want
    <2>1. Frame' = frames'[Len(frames')] BY DEF Frame, Last
    <2>. QED BY <1>0, <1>7, <2>1, TopFacts
  <1>11. FramesInv'
    <2>1. frames' # <<>> BY <1>0, <1>7, TopFacts, EmptySeq
    <2>2. 1 \in 1 .. Len(frames) BY <1>0, TopFacts
    <2>. QED BY <1>0, <1>7, <2>1, <2>2 DEF StackInv, FramesInv
  <1>12. \A i \in 1 .. Len(retstart') : /\ i \in 1 .. Len(retstart) /\ i < Len(retstart)
                                         /\ retstart'[i] = retstart[i]
    BY <1>1, <1>6
  <1>13. MarksInv'
    <2>1. \A m, i : Between(m, i) => Between(m, i)' BY <1>7 DEF Between
    <2>2. \A i, j \in 1 .. Len(callstart) : i < j => callstart[i] < callstart[j]
      BY <1>0 DEF StackInv, MarksInv
    <2>3. \A i, j \in 1 .. Len(retstart') : i < j => Between(retstart[i], retstart[j])'
      BY <1>0, <1>12, <2>1 DEF StackInv, MarksInv
    <2>4. ASSUME NEW i \in 1 .. Len(callstart)
          PROVE  callstart[i] >= 1 /\ \A k \in 1 .. Len(frames') : frames'[k].base # callstart[i]
      BY <1>0, <1>7 DEF StackInv, MarksInv
    <2>5. ASSUME NEW u \in Upval, loc[u] # 0
          PROVE  /\ \A i \in 1 .. Len(callstart) :
                      loc[u] >= callstart[i] => Between(callstart[i], loc[u])'
                 /\ \A i \in 1 .. Len(retstart') :
                      loc[u] > retstart'[i] => Between(retstart[i], loc[u])'
      BY <1>0, <1>12, <2>1, <2>5 DEF StackInv, MarksInv
    <2>. QED BY <1>0, <1>12, <2>2, <2>3, <2>4, <2>5 DEF MarksInv, Between
  <1>14. \A u \in Upval : loc[u] <= r
    <2>. SUFFICES ASSUME NEW u \in Upval, loc[u] > r PROVE FALSE BY <1>0, <1>1, Heights
    <2>1. /\ loc[u] # 0 /\ loc[u] > retstart[Len(retstart)]
          /\ Len(retstart) \in 1 .. Len(retstart)
      BY <1>0, <1>1, Heights
    <2>2. Between(r, loc[u]) BY <1>0, <1>1, <2>1 DEF StackInv, MarksInv
    <2>. QED BY <1>0, <1>1, <2>2, TopFacts DEF Between
  <1>15. \A i \in 1 .. Len(retstart') : retstart'[i] < Frame.base
    <2>. SUFFICES ASSUME NEW i \in 1 .. Len(retstart') PROVE retstart[i] < Frame.base
      BY <1>12
    <2>1. Len(retstart) \in 1 .. Len(retstart) BY <1>1
    <2>2. Between(retstart[i], retstart[Len(retstart)])
      BY <1>0, <1>12, <2>1 DEF StackInv, MarksInv
    <2>3. PICK k \in 1 .. Len(frames) :
            retstart[i] < frames[k].base /\ frames[k].base <= r
      BY <1>1, <2>2 DEF Between
    <2>4. /\ frames[k].base \in Nat /\ frames[k].base <= Frame.base /\ Frame.base \in Nat
          /\ retstart[i] \in Nat
      BY SMTT(60), <1>0, <1>12, TopFacts, Heights
    <2>. QED BY <2>3, <2>4
  <1>16. \A i \in 1 .. Len(callstart) : callstart[i] < Frame.base BY <1>0, TopFacts
  <1>17. PhaseInv'
    <2>1. temp' = <<>> /\ Len(temp') = 0 BY <1>0, EmptySeq DEF StackInv, PhaseInv
    <2>2. Left' = want /\ Len(stack') - Left' = r
      BY <1>1, <1>3, <1>5, <1>10, <2>1 DEF Left
    <2>3. Len(stack') + Len(temp') <= MaxStack BY <1>0, <1>1, <1>3, <1>5, <2>1
    <2>. QED BY SMTT(60), <1>0, <1>1, <1>3, <1>10, <1>14, <1>15, <1>16, <2>1, <2>2, <2>3 DEF PhaseInv
  <1>18. Held(Len(stack))'
    <2>0. Frame.base \in Nat /\ Frame.base <= r + want BY <1>0, <1>1, <1>3, TopFacts, Heights
    <2>1. ASSUME NEW k \in 1 .. Len(frames') PROVE frames'[k].base <= r + want
      <3>1. /\ frames'[k].base = frames[k].base /\ frames[k].base \in Nat
            /\ frames[k].base <= Frame.base
        BY <1>0, <1>7, TopFacts
      <3>. QED BY <1>1, <1>3, <2>0, <3>1
    <2>2. ASSUME NEW i \in 1 .. Len(callstart) PROVE callstart[i] <= r + want
      <3>1. callstart[i] < Frame.base /\ callstart[i] \in Nat BY <1>0, <1>16, Heights
      <3>. QED BY <1>1, <1>3, <2>0, <3>1
    <2>3. ASSUME NEW i \in 1 .. Len(retstart') PROVE retstart'[i] <= r + want
      <3>1. retstart'[i] < Frame.base /\ retstart'[i] \in Nat
        BY <1>0, <1>12, <1>15, Heights
      <3>. QED BY <1>1, <1>3, <2>0, <3>1
    <2>4. ASSUME NEW u \in Upval PROVE loc[u] <= r + want
      BY SMTT(60), <1>0, <1>1, <1>3, <1>14, Heights
    <2>. QED BY <1>0, <1>5, <2>1, <2>2, <2>3, <2>4 DEF Held
  <1>. QED BY <1>0, <1>8, <1>9, <1>11, <1>13, <1>17, <1>18 DEF MInv, StackInv

(* The results leave the stack one by one, down to the mark.               *)
LEMMA SaveStep ==
  ASSUME MInv, Save
  PROVE  MInv'
  <1>0. /\ TypeOK /\ OpenSorted /\ UpvalInv /\ StackInv /\ pc = "save"
        /\ Left > 0 /\ Len(temp) < tcap
        /\ temp' = Append(temp, Top) /\ stack' = Popn(1)
        /\ UNCHANGED <<frames, callstart, retstart, tcap, open, loc, closed, ups, pc>>
    BY DEF MInv, Alive, Save, heap, marks
  <1>1. /\ Left \in Nat /\ Left = Frame.retcnt - Len(temp) /\ Len(stack) \in Nat
        /\ Len(temp) \in Nat /\ Frame.retcnt \in Nat /\ Frame.base \in Nat
        /\ Frame.base <= Len(stack) - Left /\ Len(stack) + Len(temp) <= MaxStack
        /\ Len(temp) <= Frame.retcnt /\ MaxStack \in Nat /\ tcap \in Nat
    <2>1. /\ Frame.base <= Len(stack) - Left /\ Len(stack) + Len(temp) <= MaxStack
          /\ Len(temp) <= Frame.retcnt
      BY <1>0 DEF StackInv, PhaseInv
    <2>2. /\ Len(stack) \in Nat /\ Len(temp) \in Nat /\ Frame.retcnt \in Nat
          /\ Frame.base \in 0 .. MaxStack /\ MaxStack \in Nat /\ tcap \in Nat
      BY <1>0, Heights, TopFacts DEF TypeOK
    <2>. QED BY <2>1, <2>2 DEF Left
  <1>2. Len(stack) >= 1 /\ 1 \in 0 .. Len(stack) BY <1>0, <1>1
  <1>3. Top \in Value BY <1>0, <1>1, <1>2, Heights DEF Top, Last
  <1>4. stack' \in Seq(Value) /\ Len(stack') = Len(stack) - 1 BY <1>0, <1>2, PopnFacts DEF TypeOK
  <1>5. temp' \in Seq(Value) /\ Len(temp') = Len(temp) + 1
    BY <1>0, <1>3, AppendProperties DEF TypeOK
  <1>6. TypeOK'
    <2>1. Len(stack') <= MaxStack /\ Len(temp') <= tcap
      BY SMTT(60), <1>0, <1>1, <1>4, <1>5, Heights
    <2>. QED BY <1>0, <1>4, <1>5, <2>1 DEF TypeOK
  <1>7. OpenSorted' /\ UpvalInv' BY <1>0 DEF OpenSorted, UpvalInv
  <1>8. FramesInv' BY <1>0 DEF StackInv, FramesInv
  <1>9. MarksInv' BY <1>0 DEF StackInv, MarksInv, Between
  <1>10. /\ Frame' = Frame /\ Left' = Left - 1
         /\ Len(stack') - Left' = Len(stack) - Left
         /\ Len(stack') + Len(temp') = Len(stack) + Len(temp)
    <2>1. Frame' = Frame BY <1>0 DEF Frame, Last
    <2>2. Left' = Frame.retcnt - (Len(temp) + 1) BY <1>5, <2>1 DEF Left
    <2>3. Left' = Left - 1 BY SMTT(60), <1>1, <2>2
    <2>4. Len(stack') - Left' = Len(stack) - Left BY <1>1, <1>4, <2>3
    <2>5. Len(stack') + Len(temp') = Len(stack) + Len(temp) BY <1>1, <1>4, <1>5
    <2>. QED BY <2>1, <2>3, <2>4, <2>5
  <1>11. PhaseInv'
    <2>1. Len(temp') <= Frame'.retcnt
      <3>1. Left > 0 BY <1>0
      <3>2. Len(temp) + 1 <= Frame.retcnt BY <1>1, <3>1
      <3>. QED BY <1>5, <1>10, <3>2
    <2>. QED BY <1>0, <1>1, <1>10, <2>1 DEF StackInv, PhaseInv
  <1>12. Held(Len(stack) - 1)
    <2>1. Len(stack) - 1 \in Nat /\ Len(stack) - Left <= Len(stack) - 1
          /\ Frame.base <= Len(stack) - 1
      BY SMTT(60), <1>0, <1>1
    <2>2. ASSUME NEW k \in 1 .. Len(frames) PROVE frames[k].base <= Len(stack) - 1
      <3>1. frames[k].base \in Nat /\ frames[k].base <= Frame.base BY <1>0, TopFacts
      <3>. QED BY SMTT(60), <1>1, <2>1, <3>1
    <2>3. ASSUME NEW i \in 1 .. Len(callstart) PROVE callstart[i] <= Len(stack) - 1
      <3>1. callstart[i] < Frame.base BY <1>0 DEF StackInv, PhaseInv
      <3>2. callstart[i] \in Nat BY <1>0, Heights
      <3>. QED BY SMTT(60), <1>1, <2>1, <3>1, <3>2
    <2>4. ASSUME NEW i \in 1 .. Len(retstart) PROVE retstart[i] <= Len(stack) - 1
      <3>1. retstart[i] < Frame.base BY <1>0 DEF StackInv, PhaseInv
      <3>2. retstart[i] \in Nat BY <1>0, Heights
      <3>. QED BY SMTT(60), <1>1, <2>1, <3>1, <3>2
    <2>5. ASSUME NEW u \in Upval PROVE loc[u] <= Len(stack) - 1
      <3>1. loc[u] <= Len(stack) - Left BY <1>0 DEF StackInv, PhaseInv
      <3>2. loc[u] \in Nat BY <1>0, Heights
      <3>. QED BY SMTT(60), <1>0, <1>1, <2>1, <3>1, <3>2
    <2>. QED BY <2>2, <2>3, <2>4, <2>5 DEF Held
  <1>13. Held(Len(stack))' BY <1>0, <1>4, <1>12 DEF Held
  <1>. QED BY <1>0, <1>6, <1>7, <1>8, <1>9, <1>11, <1>13 DEF MInv, StackInv

(* vm->temp grows until the next result fits.                              *)
LEMMA GrowStep ==
  ASSUME MInv, Grow
  PROVE  MInv'
  <1>0. /\ TypeOK /\ OpenSorted /\ UpvalInv /\ StackInv /\ pc = "save"
        /\ Len(temp) = tcap /\ tcap' = IF tcap < TempInit THEN TempInit ELSE 2 * tcap
        /\ UNCHANGED <<stack, frames, callstart, retstart, temp, open, loc, closed, ups, pc>>
    BY DEF MInv, Alive, Grow, heap, marks
  <1>1. tcap' \in Nat /\ Len(temp) <= tcap'
    BY <1>0, MachineAssumption DEF MachineAssumption, TypeOK
  <1>2. TypeOK' BY <1>0, <1>1 DEF TypeOK
  <1>3. OpenSorted' /\ UpvalInv' BY <1>0 DEF OpenSorted, UpvalInv
  <1>4. FramesInv' /\ MarksInv' BY <1>0 DEF StackInv, FramesInv, MarksInv, Between
  <1>5. PhaseInv' /\ Held(Len(stack))'
    BY <1>0 DEF StackInv, PhaseInv, Held, Left, Frame, Last
  <1>. QED BY <1>0, <1>2, <1>3, <1>4, <1>5 DEF MInv, StackInv

(* The frame that returns takes its captured variables with it.            *)
LEMMA LeaveStep ==
  ASSUME MInv, Leave
  PROVE  MInv'
  <1>0. /\ TypeOK /\ OpenSorted /\ UpvalInv /\ StackInv /\ pc = "save" /\ Left = 0
        /\ CloseUpval(Frame.base) /\ frames' = Front(frames)
        /\ UNCHANGED <<callstart, retstart, temp, tcap, ups>>
        /\ Len(frames) = 1 => stack' = <<>> /\ pc' = "done"
        /\ Len(frames) # 1 => stack' = SubSeq(stack, 1, Frame.base - 1) /\ pc' = "restore"
    BY DEF MInv, Alive, Leave, marks
  <1>1. /\ Len(frames) \in Nat \ {0} /\ Frame = frames[Len(frames)] /\ Frame.base \in Nat
        /\ Len(stack) \in Nat /\ Len(temp) \in Nat /\ MaxStack \in Nat
        /\ Len(frames) \in 1 .. Len(frames)
    BY <1>0, TopFacts, Heights
  <1>2. /\ Frame.base <= Len(stack) /\ Len(stack) + Len(temp) <= MaxStack
        /\ Len(stack) <= MaxStack
        /\ \A i \in 1 .. Len(callstart) : callstart[i] < Frame.base
        /\ \A i \in 1 .. Len(retstart) : retstart[i] < Frame.base
    BY ONLY SMTT(60), <1>0, <1>1 DEF StackInv, PhaseInv, TypeOK
  <1>3. /\ open' \in Seq(Upval) /\ loc' \in [Upval -> 0 .. MaxStack]
        /\ closed' \in [Upval -> Value \cup {None}] /\ OpenSorted'
        /\ \A u \in Upval : loc'[u] = IF loc[u] >= Frame.base THEN 0 ELSE loc[u]
        /\ \A u \in Upval : closed'[u] = IF loc[u] # 0 /\ loc[u] >= Frame.base
                                         THEN stack[loc[u]] ELSE closed[u]
    <2>1. \A u \in Upval : loc[u] <= Len(stack) BY <1>0 DEF StackInv, Held
    <2>2. TypeOK /\ OpenSorted /\ Frame.base \in Nat /\ CloseUpval(Frame.base)
      BY <1>0, <1>1
    <2>. QED BY <2>1, <2>2, Closing
  <1>4. /\ frames' \in Seq([base : 0..MaxStack, retcnt : Nat, clo : Clo])
        /\ Len(frames') = Len(frames) - 1
        /\ \A k \in 1 .. Len(frames) - 1 : frames'[k] = frames[k]
    <2>1. /\ frames \in Seq([base : 0..MaxStack, retcnt : Nat, clo : Clo])
          /\ frames # <<>>
      BY <1>0 DEF TypeOK, StackInv, FramesInv
    <2>. QED BY <1>0, <2>1, Ends
  <1>5. \A u \in Upval : closed[u] # None => closed'[u] # None
    <2>1. \A u \in Upval : loc[u] # 0 => stack[loc[u]] \in Value
      BY <1>0, Heights DEF StackInv, Held
    <2>. QED BY <1>3, <2>1, MachineAssumption DEF MachineAssumption
  <1>6. UpvalInv' BY <1>0, <1>3, <1>5 DEF UpvalInv, TypeOK
  <1>7. Len(frames') <= MaxFrames
    BY <1>0, <1>1, <1>4, MachineAssumption DEF MachineAssumption, TypeOK
  <1>8. CASE Len(frames) = 1
    <2>1. stack' \in Seq(Value) /\ Len(stack') <= MaxStack BY <1>0, <1>1, <1>8, EmptySeq
    <2>2. TypeOK' BY <1>0, <1>3, <1>4, <1>7, <1>8, <2>1 DEF TypeOK
    <2>3. \A u \in Upval : loc'[u] = 0
      <3>1. Frame.base = 0 BY <1>0, <1>1, <1>8 DEF StackInv, FramesInv
      <3>. QED BY ONLY <1>0, <1>3, <3>1, Heights
    <2>. QED BY <1>0, <1>3, <1>6, <1>8, <2>2, <2>3 DEF MInv, Alive
  <1>9. CASE Len(frames) # 1
    <2>1. /\ \A k \in 1 .. Len(frames) - 1 : frames[k].base < Frame.base
          /\ 1 \in 1 .. Len(frames) - 1 /\ Frame.base >= 1 /\ frames[1].base = 0
      <3>0. Len(frames) \in Nat /\ Len(frames) > 1
        <4>1. Len(frames) \in Nat \ {0} BY <1>1
        <4>. QED BY <1>9, <4>1
      <3>1. 1 \in 1 .. Len(frames) - 1 BY <3>0
      <3>2. ASSUME NEW k \in 1 .. Len(frames) - 1 PROVE frames[k].base < Frame.base
        <4>1. k \in 1 .. Len(frames) /\ k < Len(frames) BY <3>0
        <4>. QED BY <1>0, <1>1, <4>1 DEF StackInv, FramesInv
      <3>3. frames[1].base = 0 BY <1>0 DEF StackInv, FramesInv
      <3>. QED BY <1>1, <3>1, <3>2, <3>3
    <2>2. stack' \in Seq(Value) /\ Len(stack') = Frame.base - 1
      <3>0. stack \in Seq(Value) BY <1>0 DEF TypeOK
      <3>1. Frame.base - 1 \in 0 .. Len(stack) BY <1>1, <1>2, <2>1
      <3>. QED BY ZenonT(60), <1>0, <1>9, <3>0, <3>1, Prefix
    <2>3. Len(stack') <= MaxStack /\ Len(stack') + Len(temp) <= MaxStack
      BY <1>1, <1>2, <2>2
    <2>4. TypeOK' BY <1>0, <1>3, <1>4, <1>7, <1>9, <2>2, <2>3 DEF TypeOK
    <2>5. \A u \in Upval : loc'[u] < Frame.base /\ (loc'[u] # 0 => loc'[u] = loc[u])
      <3>. SUFFICES ASSUME NEW u \in Upval
                    PROVE  loc'[u] < Frame.base /\ (loc'[u] # 0 => loc'[u] = loc[u])
        OBVIOUS
      <3>1. loc[u] \in Nat BY <1>0, Heights
      <3>. QED BY <1>1, <1>3, <2>1, <3>1
    <2>6. FramesInv'
      <3>1. frames' # <<>> BY <1>1, <1>4, <1>9, EmptySeq
      <3>2. ASSUME NEW j \in 1 .. Len(frames'), NEW k \in 1 .. Len(frames'), j < k
            PROVE  frames'[j].base < frames'[k].base
        <4>1. /\ j \in 1 .. Len(frames) /\ k \in 1 .. Len(frames)
              /\ frames'[j] = frames[j] /\ frames'[k] = frames[k]
          BY <1>1, <1>4
        <4>. QED BY <1>0, <3>2, <4>1 DEF StackInv, FramesInv
      <3>. QED BY <1>4, <2>1, <3>1, <3>2 DEF FramesInv
    <2>7. ASSUME NEW m, NEW i \in Nat, i < Frame.base, Between(m, i)
          PROVE  \E k \in 1 .. Len(frames') : m < frames'[k].base /\ frames'[k].base <= i
      <3>1. PICK k \in 1 .. Len(frames) : m < frames[k].base /\ frames[k].base <= i
        BY <2>7 DEF Between
      <3>2. k # Len(frames)
        <4>. SUFFICES ASSUME k = Len(frames) PROVE FALSE OBVIOUS
        <4>1. Frame.base <= i BY <1>1, <3>1
        <4>. QED BY <1>1, <2>7, <4>1
      <3>3. k \in 1 .. Len(frames) - 1 BY <1>1, <3>2
      <3>. QED BY <1>4, <3>1, <3>3
    <2>8. MarksInv'
      <3>1. \A i, j \in 1 .. Len(callstart) : i < j => callstart[i] < callstart[j]
        BY <1>0 DEF StackInv, MarksInv
      <3>2. ASSUME NEW i \in 1 .. Len(retstart), NEW j \in 1 .. Len(retstart), i < j
            PROVE  Between(retstart[i], retstart[j])'
        <4>1. Between(retstart[i], retstart[j]) BY <1>0, <3>2 DEF StackInv, MarksInv
        <4>2. retstart[j] \in Nat /\ retstart[j] < Frame.base BY <1>0, <1>2, Heights
        <4>3. \E k \in 1 .. Len(frames') :
                retstart[i] < frames'[k].base /\ frames'[k].base <= retstart[j]
          BY <2>7, <4>1, <4>2
        <4>. QED BY <1>0, <4>3 DEF Between
      <3>3. ASSUME NEW i \in 1 .. Len(callstart)
            PROVE  callstart[i] >= 1 /\ \A k \in 1 .. Len(frames') : frames'[k].base # callstart[i]
        <4>1. callstart[i] >= 1 /\ \A k \in 1 .. Len(frames) : frames[k].base # callstart[i]
          BY <1>0 DEF StackInv, MarksInv
        <4>2. \A k \in 1 .. Len(frames') : k \in 1 .. Len(frames) /\ frames'[k] = frames[k]
          BY <1>1, <1>4
        <4>. QED BY <4>1, <4>2
      <3>4. ASSUME NEW u \in Upval, loc'[u] # 0
            PROVE  /\ \A i \in 1 .. Len(callstart) :
                        loc'[u] >= callstart[i] => Between(callstart[i], loc[u])'
                   /\ \A i \in 1 .. Len(retstart) :
                        loc'[u] > retstart[i] => Between(retstart[i], loc[u])'
        <4>1. loc'[u] = loc[u] /\ loc[u] < Frame.base /\ loc[u] \in Nat
          BY <1>0, <2>5, <3>4, Heights
        <4>2. /\ \A i \in 1 .. Len(callstart) : loc[u] >= callstart[i] => Between(callstart[i], loc[u])
              /\ \A i \in 1 .. Len(retstart) : loc[u] > retstart[i] => Between(retstart[i], loc[u])
          BY <1>0, <3>4, <4>1 DEF StackInv, MarksInv
        <4>. QED BY <1>0, <2>7, <4>1, <4>2 DEF Between
      <3>. QED BY <1>0, <3>1, <3>2, <3>3, <3>4 DEF MarksInv, Between
    <2>9. PhaseInv' BY <1>0, <1>9, <2>3 DEF PhaseInv
    <2>10. Held(Len(stack))'
      <3>1. ASSUME NEW k \in 1 .. Len(frames') PROVE frames'[k].base <= Frame.base - 1
        <4>1. k \in 1 .. Len(frames) - 1 /\ k \in 1 .. Len(frames) BY <1>1, <1>4
        <4>2. frames[k].base \in Nat /\ frames[k].base < Frame.base /\ frames'[k] = frames[k]
          BY <1>0, <1>4, <2>1, <4>1, Heights
        <4>. QED BY <1>1, <4>2
      <3>2. ASSUME NEW i \in 1 .. Len(callstart) PROVE callstart[i] <= Frame.base - 1
        <4>1. callstart[i] \in Nat /\ callstart[i] < Frame.base BY <1>0, <1>2, Heights
        <4>. QED BY <1>1, <4>1
      <3>3. ASSUME NEW i \in 1 .. Len(retstart) PROVE retstart[i] <= Frame.base - 1
        <4>1. retstart[i] \in Nat /\ retstart[i] < Frame.base BY <1>0, <1>2, Heights
        <4>. QED BY <1>1, <4>1
      <3>4. ASSUME NEW u \in Upval PROVE loc'[u] <= Frame.base - 1
        <4>1. loc'[u] \in Nat /\ loc'[u] < Frame.base BY <1>1, <1>3, <2>5
        <4>. QED BY <1>1, <4>1
      <3>. QED BY <1>0, <2>2, <3>1, <3>2, <3>3, <3>4 DEF Held
    <2>. QED BY <1>0, <1>3, <1>9, <1>6, <2>4, <2>6, <2>8, <2>9, <2>10 DEF MInv, StackInv
  <1>. QED BY <1>8, <1>9

(* The results go back on the stack in their order.                        *)
LEMMA RestoreStep ==
  ASSUME MInv, Restore
  PROVE  MInv'
  <1>. DEFINE back == [i \in 1 .. Len(temp) |-> temp[Len(temp) + 1 - i]]
  <1>0. /\ TypeOK /\ OpenSorted /\ UpvalInv /\ StackInv /\ pc = "restore"
        /\ stack' = stack \o back /\ temp' = <<>> /\ pc' = "run"
        /\ UNCHANGED <<frames, callstart, retstart, tcap, open, loc, closed, ups>>
    BY DEF MInv, Alive, Restore, heap, marks
  <1>1. /\ Len(temp) \in Nat /\ Len(stack) \in Nat /\ Len(stack) + Len(temp) <= MaxStack
        /\ stack \in Seq(Value) /\ temp \in Seq(Value)
    BY <1>0, Heights DEF TypeOK, StackInv, PhaseInv
  <1>2. back \in Seq(Value) /\ Len(back) = Len(temp)
    <2>1. ASSUME NEW i \in 1 .. Len(temp) PROVE temp[Len(temp) + 1 - i] \in Value
      <3>1. Len(temp) + 1 - i \in 1 .. Len(temp) BY <1>1
      <3>. QED BY <1>1, <3>1, ElementOfSeq
    <2>2. back \in [1 .. Len(temp) -> Value] BY <2>1
    <2>. HIDE DEF back
    <2>. QED BY <1>1, <2>2, FunctionSeq
  <1>. HIDE DEF back
  <1>3. stack' \in Seq(Value) /\ Len(stack') = Len(stack) + Len(temp)
    <2>1. stack \in Seq(Value) /\ back \in Seq(Value) BY <1>1, <1>2
    <2>2. /\ stack \o back \in Seq(Value)
          /\ Len(stack \o back) = Len(stack) + Len(back)
      BY <2>1, ConcatProperties
    <2>. QED BY <1>0, <1>2, <2>2
  <1>4. temp' \in Seq(Value) /\ Len(temp') = 0 BY <1>0, EmptySeq
  <1>5. TypeOK'
    <2>1. Len(stack') <= MaxStack BY <1>1, <1>3
    <2>2. Len(temp') <= tcap BY <1>0, <1>4 DEF TypeOK
    <2>. QED BY <1>0, <1>3, <1>4, <2>1, <2>2 DEF TypeOK
  <1>6. OpenSorted' /\ UpvalInv' BY <1>0 DEF OpenSorted, UpvalInv
  <1>7. FramesInv' /\ MarksInv' BY <1>0 DEF StackInv, FramesInv, MarksInv, Between
  <1>8. PhaseInv' BY <1>0 DEF PhaseInv
  <1>9. Held(Len(stack) + Len(temp))
    <2>1. Held(Len(stack)) BY <1>0 DEF StackInv
    <2>2. Len(stack) + Len(temp) \in Nat /\ Len(stack) <= Len(stack) + Len(temp) BY <1>1
    <2>. QED BY <1>0, <1>1, <2>1, <2>2, HeldHigher
  <1>10. Held(Len(stack))' BY <1>0, <1>3, <1>9 DEF Held
  <1>. QED BY <1>0, <1>5, <1>6, <1>7, <1>8, <1>10 DEF MInv, StackInv
----------------------------------------------------------------------------
(* What the collector marks holds its roots and all they refer to.         *)
LEMMA Marked ==
  /\ Roots \subseteq Live /\ Live \subseteq Clo \cup Upval
  /\ \A c \in Clo \cap Live : ups[c] # Unallocated => ups[c] \cap (Clo \cup Upval) \subseteq Live
  /\ \A u \in Upval \cap Live : closed[u] \in Clo => closed[u] \in Live
  <1>1. Roots \subseteq Live /\ Live \subseteq Clo \cup Upval BY DEF Live, Roots
  <1>2. ASSUME NEW c \in Clo \cap Live, ups[c] # Unallocated,
               NEW x \in ups[c] \cap (Clo \cup Upval)
        PROVE  x \in Live
    <2>. SUFFICES ASSUME NEW S \in SUBSET (Clo \cup Upval), Roots \subseteq S, Follows(S)
                  PROVE  x \in S
      BY <1>2 DEF Live
    <2>1. c \in S BY <1>2 DEF Live
    <2>. QED BY <1>2, <2>1 DEF Follows
  <1>3. ASSUME NEW u \in Upval \cap Live, closed[u] \in Clo PROVE closed[u] \in Live
    <2>. SUFFICES ASSUME NEW S \in SUBSET (Clo \cup Upval), Roots \subseteq S, Follows(S)
                  PROVE  closed[u] \in S
      BY <1>3 DEF Live
    <2>1. u \in S BY <1>3 DEF Live
    <2>. QED BY <1>3, <2>1 DEF Follows
  <1>. QED BY <1>1, <1>2, <1>3

(* A collection frees nothing the open upvalues or live closures need.     *)
LEMMA CollectStep ==
  ASSUME MInv, Collect
  PROVE  MInv'
  <1>0. /\ TypeOK /\ OpenSorted /\ UpvalInv
        /\ ups' = [c \in Clo |-> IF c \in Live THEN ups[c] ELSE Unallocated]
        /\ closed' = [u \in Upval |-> IF u \in Live THEN closed[u] ELSE None]
        /\ UNCHANGED <<stack, frames, callstart, retstart, temp, tcap, open, loc, pc>>
        /\ StackInv /\ Alive
    BY DEF MInv, Alive, Collect, marks
  <1>1. TypeOK'
    <2>1. ups' \in [Clo -> (SUBSET Upval) \cup {Unallocated}] BY <1>0 DEF TypeOK
    <2>2. closed' \in [Upval -> Value \cup {None}] BY <1>0 DEF TypeOK
    <2>. QED BY <1>0, <2>1, <2>2 DEF TypeOK
  <1>2. OpenSorted' BY <1>0 DEF OpenSorted
  <1>3. UpvalInv'
    <2>1. ASSUME NEW u \in Upval, loc[u] # 0 PROVE closed'[u] # None
      <3>1. u \in Live BY <1>0, <2>1, Marked DEF OpenSorted, Roots
      <3>. QED BY <1>0, <2>1, <3>1 DEF UpvalInv
    <2>2. ASSUME NEW c \in Clo, ups'[c] # Unallocated, NEW u \in ups'[c]
          PROVE  closed'[u] # None
      <3>1. c \in Live /\ ups'[c] = ups[c] BY <1>0, <2>2
      <3>2. u \in Upval BY <1>0, <2>2, <3>1 DEF TypeOK
      <3>3. u \in Live BY <2>2, <3>1, <3>2, Marked
      <3>. QED BY <1>0, <2>2, <3>1, <3>2, <3>3 DEF UpvalInv
    <2>. QED BY <1>0, <2>1, <2>2 DEF UpvalInv
  <1>4. FramesInv' /\ MarksInv' BY <1>0 DEF StackInv, FramesInv, MarksInv, Between
  <1>5. PhaseInv'
    <2>1. ASSUME pc = "capture" PROVE Top \in Clo /\ ups'[Top] # Unallocated
      <3>1. stack # <<>> /\ Top \in Clo /\ ups[Top] # Unallocated
        BY <1>0, <2>1 DEF StackInv, PhaseInv
      <3>2. Top \in ToSet(stack)
        <4>1. /\ Len(stack) \in Nat /\ Len(stack) # 0 /\ DOMAIN stack = 1 .. Len(stack)
              /\ Top = stack[Len(stack)]
          BY <1>0, <3>1, EmptySeq, LenProperties DEF TypeOK, Top, Last
        <4>. QED BY <4>1 DEF ToSet
      <3>3. Top \in Live BY <3>1, <3>2, Marked DEF Roots
      <3>. QED BY <1>0, <3>1, <3>3
    <2>2. Top' = Top /\ Frame' = Frame /\ Left' = Left
      BY <1>0 DEF Top, Frame, Left, Last
    <2>. QED BY <1>0, <2>1, <2>2 DEF StackInv, PhaseInv
  <1>6. Held(Len(stack))' BY <1>0 DEF StackInv, Held
  <1>. QED BY <1>0, <1>1, <1>2, <1>3, <1>4, <1>5, <1>6 DEF MInv, StackInv, Alive

(* The interpreter starts with an empty stack and the frame of the script. *)
LEMMA InitMInv == Init => MInv
  <1>. SUFFICES ASSUME Init PROVE MInv OBVIOUS
  <1>. DEFINE f == [base |-> 0, retcnt |-> 1, clo |-> Main]
  <1>1. /\ MaxStack \in Nat /\ MaxFrames \in Nat \ {0} /\ Main \in Clo
        /\ Len(<<>>) = 0 /\ \A S : <<>> \in Seq(S)
    BY MachineAssumption, EmptySeq DEF MachineAssumption
  <1>2. /\ frames \in Seq([base : 0..MaxStack, retcnt : Nat, clo : Clo]) /\ Len(frames) = 1
        /\ frames # <<>> /\ frames[1].base = 0
        /\ \A k \in 1 .. Len(frames) : k = 1 /\ frames[k].base = 0
    <2>1. f \in [base : 0..MaxStack, retcnt : Nat, clo : Clo] /\ f.base = 0 BY <1>1
    <2>2. frames = <<f>> BY DEF Init
    <2>. HIDE DEF f
    <2>. QED BY <2>1, <2>2
  <1>3. TypeOK
    <2>1. /\ loc \in [Upval -> 0 .. MaxStack] /\ closed \in [Upval -> Value \cup {None}]
          /\ ups \in [Clo -> (SUBSET Upval) \cup {Unallocated}] /\ tcap \in Nat
          /\ pc \in {"run", "capture", "save", "restore", "done", "error"}
      BY <1>1 DEF Init
    <2>2. /\ stack \in Seq(Value) /\ Len(stack) <= MaxStack
          /\ callstart \in Seq(0 .. MaxStack) /\ retstart \in Seq(0 .. MaxStack)
          /\ temp \in Seq(Value) /\ Len(temp) <= tcap /\ open \in Seq(Upval)
      BY <1>1 DEF Init
    <2>3. Len(frames) <= MaxFrames BY <1>1, <1>2
    <2>. QED BY <1>2, <2>1, <2>2, <2>3 DEF TypeOK
  <1>4. OpenSorted
    <2>1. DOMAIN open = {} BY <1>1, <1>3, LenProperties DEF Init, TypeOK
    <2>. QED BY <2>1 DEF OpenSorted, Init, ToSet
  <1>5. UpvalInv BY DEF UpvalInv, Init
  <1>6. FramesInv BY <1>2 DEF FramesInv
  <1>7. MarksInv BY <1>1 DEF MarksInv, Init
  <1>8. PhaseInv BY DEF PhaseInv, Init
  <1>9. Held(Len(stack)) BY <1>1, <1>2 DEF Held, Init
  <1>. QED BY <1>3, <1>4, <1>5, <1>6, <1>7, <1>8, <1>9 DEF MInv, StackInv, Init

(* A captured variable that can be read is a value.                        *)
LEMMA GetUpvalueStep ==
  ASSUME MInv, NEW u \in Upval, GetUpvalue(u)
  PROVE  MInv'
  <1>0. TypeOK /\ UpvalInv /\ StackInv /\ pc = "run" /\ u \in ups[Frame.clo]
    BY DEF MInv, Alive, GetUpvalue
  <1>1. Frame.clo \in Clo /\ ups[Frame.clo] # Unallocated
    BY <1>0, TopFacts, MachineAssumption DEF MachineAssumption, Unallocated
  <1>2. closed[u] # None BY <1>0, <1>1 DEF UpvalInv
  <1>3. Deref(u) \in Value BY <1>0, <1>2, DerefValue
  <1>4. /\ Room /\ stack' = Append(stack, Deref(u)) /\ ups' = ups /\ pc' = "run"
        /\ UNCHANGED <<frames, marks, temp, tcap, open, loc, closed>>
    BY <1>0 DEF GetUpvalue, heap
  <1>. QED BY <1>0, <1>3, <1>4, PushStep

(* Every step keeps the invariant.                                         *)
LEMMA NextMInv == MInv /\ [Next]_vars => MInv'
  <1>. SUFFICES ASSUME MInv, [Next]_vars PROVE MInv' OBVIOUS
  <1>1. ASSUME NEW v \in Data, Const(v) PROVE MInv'
    <2>1. v \in Value BY DEF Value
    <2>. QED BY <1>1, <2>1, PushStep DEF Const, heap
  <1>2. ASSUME NEW i \in 1 .. MaxStack, GetLocal(i) PROVE MInv'
    <2>1. stack[i] \in Value BY <1>2, Heights DEF MInv, GetLocal, IsVariable
    <2>. QED BY <1>2, <2>1, PushStep DEF GetLocal, heap
  <1>3. ASSUME NEW c \in Clo, Closure(c) PROVE MInv'
    <2>1. c \in Value BY DEF Value
    <2>. QED BY <1>3, <2>1, PushStep DEF Closure
  <1>4. CASE CaptureEnd
    <2>1. TypeOK /\ UpvalInv /\ StackInv BY <1>4 DEF MInv, Alive, CaptureEnd
    <2>. QED BY <1>4, <2>1, QuietStep DEF CaptureEnd, heap, TypeOK, UpvalInv, StackInv
  <1>5. CASE UNCHANGED vars
    <2>1. Held(Len(stack))' <=> Held(Len(stack))
      BY <1>5 DEF vars, Held
    <2>. QED BY <1>5, <2>1 DEF vars, MInv, TypeOK, OpenSorted, UpvalInv, Alive, StackInv,
           FramesInv, MarksInv, Between, PhaseInv, Frame, Left, Top, Last
  <1>. QED
    BY <1>1, <1>2, <1>3, <1>4, <1>5, SetLocalStep, PopStep, CloseStep, GetUpvalueStep,
       SetUpvalueStep, CaptureOuterStep, CaptureLocalStep, CallStartStep, RunErrorStep,
       RetStartStep, CallStep, RetStep, GrowStep, SaveStep, LeaveStep, RestoreStep, CollectStep
    DEF Next

(* The invariant is one of the specification.                              *)
THEOREM Invariant == Spec => []MInv
  BY InitMInv, NextMInv, PTL DEF Spec

(* The stack, the frames and the marks keep their types and their bounds.  *)
THEOREM TypeCorrect == Spec => []TypeOK
  BY Invariant, PTL DEF MInv

(* vm->open_upvals stays sorted by slot, with one upvalue a slot.          *)
THEOREM UpvalsSorted == Spec => []OpenSorted
  BY Invariant, PTL DEF MInv

(* No open upvalue points above the stack, whatever was popped or returned.*)
THEOREM UpvalsOnStack == Spec => []OpenOnStack
  <1>1. MInv => OpenOnStack
    <2>. SUFFICES ASSUME MInv, pc # "error", NEW u \in Upval PROVE loc[u] <= Len(stack)
      BY DEF OpenOnStack
    <2>1. CASE Alive BY <2>1 DEF MInv, StackInv, Held
    <2>2. CASE pc = "done" BY <2>2, Heights DEF MInv
    <2>. QED BY <2>1, <2>2 DEF Alive
  <1>. QED BY <1>1, Invariant, PTL
----------------------------------------------------------------------------
(* Every value the interpreter holds is allocated.  A collection does not  *)
(* see vm->temp: it must find it empty, as it does as long as no return    *)
(* has more results than the array is created for.                         *)
Allocated  == Data \cup {c \in Clo : ups[c] # Unallocated}
FewResults == pc = "save" => Frame.retcnt <= TempInit

HeldInv == /\ stack \in Seq(Allocated) /\ temp \in Seq(Allocated)
           /\ \A k \in 1 .. Len(frames) : frames[k].clo \in Allocated
           /\ closed \in [Upval -> Allocated \cup {None}]
           /\ tcap = 0 \/ tcap >= TempInit

(* A sequence is one over any set its elements are in.                     *)
LEMMA Retyped ==
  ASSUME NEW S, NEW T, NEW s \in Seq(S), \A i \in 1 .. Len(s) : s[i] \in T
  PROVE  s \in Seq(T)
  <1>1. Len(s) \in Nat /\ s \in [1 .. Len(s) -> S] BY LenProperties
  <1>2. s \in [1 .. Len(s) -> T] BY <1>1
  <1>. QED BY <1>1, <1>2, FunctionSeq

(* The elements of what HeldInv says is a sequence.                        *)
LEMMA HeldFacts ==
  ASSUME MInv, HeldInv
  PROVE  /\ Len(stack) \in Nat /\ \A i \in 1 .. Len(stack) : stack[i] \in Allocated
         /\ Len(temp) \in Nat /\ \A i \in 1 .. Len(temp) : temp[i] \in Allocated
         /\ Nil \in Allocated /\ Data \subseteq Allocated
         /\ \A u \in Upval : closed[u] # None => closed[u] \in Allocated
         /\ Alive => \A u \in Upval : loc[u] # 0 => stack[loc[u]] \in Allocated
  <1>1. /\ Len(stack) \in Nat /\ \A i \in 1 .. Len(stack) : stack[i] \in Allocated
        /\ Len(temp) \in Nat /\ \A i \in 1 .. Len(temp) : temp[i] \in Allocated
    BY ElementOfSeq, LenProperties DEF HeldInv
  <1>2. Alive => \A u \in Upval : loc[u] # 0 => loc[u] \in 1 .. Len(stack)
    BY Heights DEF MInv, StackInv, Held
  <1>. QED BY <1>1, <1>2, MachineAssumption DEF HeldInv, MachineAssumption, Allocated

(* A push of an allocated value.                                           *)
LEMMA HeldPush ==
  ASSUME MInv, HeldInv, NEW v \in Allocated, stack' = Append(stack, v),
         UNCHANGED <<frames, temp, tcap, closed, ups>>
  PROVE  HeldInv'
  <1>1. stack' \in Seq(Allocated) BY AppendProperties DEF HeldInv
  <1>2. Allocated' = Allocated BY DEF Allocated
  <1>. QED BY <1>1, <1>2 DEF HeldInv

(* The stack is cut, and what was in a slot may go to another or to an     *)
(* upvalue.                                                                *)
LEMMA HeldMove ==
  ASSUME MInv, HeldInv, stack' \in Seq(Allocated),
         closed' \in [Upval -> Allocated \cup {None}],
         UNCHANGED <<frames, temp, tcap, ups>>
  PROVE  HeldInv'
  <1>1. Allocated' = Allocated BY DEF Allocated
  <1>. QED BY <1>1 DEF HeldInv

(* closeupval copies what its slots hold.                                  *)
LEMMA HeldClosing ==
  ASSUME MInv, HeldInv, Alive, NEW last \in Nat, CloseUpval(last)
  PROVE  closed' \in [Upval -> Allocated \cup {None}]
  <1>0. TypeOK /\ OpenSorted /\ StackInv BY DEF MInv
  <1>1. \A u \in Upval : loc[u] <= Len(stack) BY <1>0 DEF StackInv, Held
  <1>2. /\ closed' \in [Upval -> Value \cup {None}]
        /\ \A u \in Upval : closed'[u] = IF loc[u] # 0 /\ loc[u] >= last THEN stack[loc[u]]
                                         ELSE closed[u]
    BY <1>0, <1>1, Closing
  <1>3. \A u \in Upval : closed'[u] \in Allocated \cup {None} BY <1>2, HeldFacts
  <1>. QED BY <1>2, <1>3

(* The instructions that pop.                                              *)
LEMMA HeldDrops ==
  ASSUME MInv, HeldInv,
         \/ \E i \in 1 .. MaxStack : SetLocal(i) \/ Pop(i) \/ Close(i)
         \/ \E u \in Upval : SetUpvalue(u)
  PROVE  HeldInv'
  <1>0. TypeOK /\ OpenSorted /\ StackInv /\ Alive /\ stack \in Seq(Allocated)
    BY DEF MInv, HeldInv, Alive, SetLocal, Pop, Close, SetUpvalue
  <1>1. closed \in [Upval -> Allocated \cup {None}] BY DEF HeldInv
  <1>2. ASSUME NEW i \in 1 .. MaxStack, SetLocal(i) PROVE HeldInv'
    <2>1. Len(stack) >= 1 /\ i < Len(stack) /\ 1 \in 0 .. Len(stack) /\ Len(stack) \in Nat
      BY <1>0, <1>2, FloorFacts, Heights DEF SetLocal
    <2>2. Top \in Allocated BY <2>1, HeldFacts DEF Top, Last
    <2>3. Popn(1) \in Seq(Allocated) /\ i \in 1 .. Len(Popn(1))
      BY <1>0, <2>1, PopnFacts
    <2>4. stack' \in Seq(Allocated) BY <1>2, <2>2, <2>3, ExceptSeq DEF SetLocal
    <2>. QED BY <1>1, <1>2, <2>4, HeldMove DEF SetLocal, heap
  <1>3. ASSUME NEW n \in 1 .. MaxStack, Pop(n) PROVE HeldInv'
    <2>1. n \in 0 .. Len(stack) BY <1>0, <1>3, FloorFacts, Heights DEF Pop
    <2>2. stack' \in Seq(Allocated) BY <1>0, <1>3, <2>1, PopnFacts DEF Pop
    <2>. QED BY <1>1, <1>3, <2>2, HeldMove DEF Pop, heap
  <1>4. ASSUME NEW n \in 1 .. MaxStack, Close(n) PROVE HeldInv'
    <2>1. n \in 0 .. Len(stack) BY <1>0, <1>4, FloorFacts, Heights DEF Close
    <2>2. stack' \in Seq(Allocated) BY <1>0, <1>4, <2>1, PopnFacts DEF Close
    <2>3. closed' \in [Upval -> Allocated \cup {None}]
      <3>1. Len(stack) - n + 1 \in Nat BY <1>0, <2>1, Heights
      <3>. QED BY <1>0, <1>4, <3>1, HeldClosing DEF Close
    <2>. QED BY <1>4, <2>2, <2>3, HeldMove DEF Close
  <1>5. ASSUME NEW u \in Upval, SetUpvalue(u) PROVE HeldInv'
    <2>1. Len(stack) >= 1 /\ 1 \in 0 .. Len(stack) /\ Len(stack) \in Nat
      BY <1>0, <1>5, FloorFacts, Heights DEF SetUpvalue
    <2>2. Top \in Allocated BY <2>1, HeldFacts DEF Top, Last
    <2>3. Popn(1) \in Seq(Allocated) /\ Len(Popn(1)) = Len(stack) - 1
      BY <1>0, <2>1, PopnFacts
    <2>4. CASE loc[u] = 0
      <3>1. stack' \in Seq(Allocated) BY <1>5, <2>3, <2>4 DEF SetUpvalue
      <3>2. closed' \in [Upval -> Allocated \cup {None}]
        BY <1>1, <1>5, <2>2, <2>4 DEF SetUpvalue
      <3>. QED BY <1>5, <3>1, <3>2, HeldMove DEF SetUpvalue
    <2>5. CASE loc[u] # 0
      <3>1. loc[u] \in 1 .. Len(Popn(1))
        <4>1. loc[u] <= Len(stack) /\ loc[u] \in Nat BY <1>0, Heights DEF StackInv, Held
        <4>2. loc[u] # Len(stack)
          BY <1>0, <1>5, <2>5 DEF OpenSorted, OpenAt, SetUpvalue
        <4>. QED BY <2>1, <2>3, <2>5, <4>1, <4>2
      <3>2. stack' \in Seq(Allocated)
        BY <1>5, <2>2, <2>3, <2>5, <3>1, ExceptSeq DEF SetUpvalue
      <3>. QED BY <1>1, <1>5, <2>5, <3>2, HeldMove DEF SetUpvalue
    <2>. QED BY <2>4, <2>5
  <1>. QED BY <1>2, <1>3, <1>4, <1>5

(* Calls and returns move values between the stack and vm->temp.           *)
LEMMA HeldCalls ==
  ASSUME MInv, HeldInv,
         (\E w \in Wants : Call(w)) \/ RunError \/ Ret \/ Save \/ Leave \/ Restore \/ Grow
  PROVE  HeldInv'
  <1>0. /\ TypeOK /\ OpenSorted /\ StackInv /\ Alive
        /\ stack \in Seq(Allocated) /\ temp \in Seq(Allocated)
        /\ \A k \in 1 .. Len(frames) : frames[k].clo \in Allocated
        /\ closed \in [Upval -> Allocated \cup {None}]
        /\ tcap = 0 \/ tcap >= TempInit
    BY DEF MInv, HeldInv, Alive, Call, RunError, Ret, Save, Leave, Restore, Grow
  <1>1. Len(stack) \in Nat /\ Len(temp) \in Nat BY HeldFacts
  <1>2. ASSUME ups' = ups PROVE Allocated' = Allocated BY <1>2 DEF Allocated
  <1>3. ASSUME NEW w \in Wants, Call(w) PROVE HeldInv'
    <2>1. /\ UNCHANGED <<stack, temp, tcap, closed, ups>> /\ Calling
          /\ frames' = Append(frames,
                         [base |-> Len(stack) - Argc, retcnt |-> w, clo |-> Callee])
      BY <1>3 DEF Call, heap
    <2>2. Callee \in Allocated
      <3>1. /\ Last(callstart) = callstart[Len(callstart)] /\ Last(callstart) \in Nat
            /\ Last(callstart) > Frame.base /\ Frame.base \in Nat
            /\ Len(callstart) \in 1 .. Len(callstart)
        BY <1>0, <2>1, TopFacts DEF Calling
      <3>2. Last(callstart) <= Len(stack) BY <1>0, <3>1 DEF StackInv, Held
      <3>3. Last(callstart) \in 1 .. Len(stack) BY <1>1, <3>1, <3>2
      <3>. QED BY <3>3, HeldFacts DEF Callee
    <2>. DEFINE f == [base |-> Len(stack) - Argc, retcnt |-> w, clo |-> Callee]
    <2>3. f.clo \in Allocated BY <2>2
    <2>4. frames' = Append(frames, f) BY <2>1
    <2>. HIDE DEF f
    <2>5. /\ Len(frames') = Len(frames) + 1 /\ frames'[Len(frames) + 1] = f
          /\ \A k \in 1 .. Len(frames) : frames'[k] = frames[k] /\ Len(frames) \in Nat
      BY <1>0, <2>4, AppendProperties, LenProperties DEF TypeOK
    <2>6. \A k \in 1 .. Len(frames') : frames'[k].clo \in Allocated
      <3>. SUFFICES ASSUME NEW k \in 1 .. Len(frames') PROVE frames'[k].clo \in Allocated
        OBVIOUS
      <3>1. Len(frames) \in Nat BY <1>0, Heights
      <3>2. k \in 1 .. Len(frames) \/ k = Len(frames) + 1 BY <2>5, <3>1
      <3>. QED BY <1>0, <2>3, <2>5, <3>2
    <2>. QED BY <1>0, <1>2, <2>1, <2>6 DEF HeldInv
  <1>4. CASE RunError
    <2>1. stack' = <<>> /\ UNCHANGED <<frames, temp, tcap, closed, ups>>
      BY <1>4 DEF RunError, heap
    <2>2. stack' \in Seq(Allocated) BY <2>1, EmptySeq
    <2>. QED BY <1>0, <2>1, <2>2, HeldMove
  <1>5. CASE Ret
    <2>. DEFINE r    == Last(retstart)
                got  == Len(stack) - r
                want == IF Frame.retcnt = 0 THEN got ELSE Frame.retcnt
                vs   == [i \in 1 .. want |-> IF i <= got THEN stack[r + i] ELSE Nil]
    <2>0. /\ UNCHANGED <<temp, tcap, closed, ups>> /\ Returning
          /\ stack' = SubSeq(stack, 1, r) \o vs
          /\ frames' = [frames EXCEPT ![Len(frames)].retcnt = want]
      BY <1>5 DEF Ret, heap
    <2>1. r \in Nat /\ r <= Len(stack) /\ Frame.retcnt \in Nat
      <3>1. /\ r = retstart[Len(retstart)] /\ Len(retstart) \in 1 .. Len(retstart)
            /\ r \in Nat /\ Frame.retcnt \in Nat
        BY <1>0, <2>0, TopFacts, Heights DEF Returning
      <3>. QED BY <1>0, <3>1 DEF StackInv, Held
    <2>2. want \in Nat /\ got \in Nat /\ r \in 0 .. Len(stack) BY <1>1, <2>1
    <2>3. vs \in Seq(Allocated)
      <3>1. ASSUME NEW i \in 1 .. want
            PROVE  (IF i <= got THEN stack[r + i] ELSE Nil) \in Allocated
        <4>1. i <= got => r + i \in 1 .. Len(stack) BY <1>1, <2>1, <2>2
        <4>. QED BY <4>1, HeldFacts
      <3>2. vs \in [1 .. want -> Allocated] BY <3>1
      <3>. HIDE DEF vs, want
      <3>. QED BY <2>2, <3>2, FunctionSeq
    <2>. HIDE DEF vs, want, got, r
    <2>4. SubSeq(stack, 1, r) \in Seq(Allocated) BY <1>0, <2>2, Prefix
    <2>5. SubSeq(stack, 1, r) \o vs \in Seq(Allocated) BY <2>3, <2>4, ConcatProperties
    <2>6. /\ Len(frames') = Len(frames)
          /\ \A k \in 1 .. Len(frames) : frames'[k].clo = frames[k].clo
      <3>1. frames \in Seq([base : 0..MaxStack, retcnt : Nat, clo : Clo])
        BY <1>0 DEF TypeOK
      <3>2. Len(frames) \in Nat /\ DOMAIN frames = 1 .. Len(frames) BY <3>1, LenProperties
      <3>3. Len(frames) \in 1 .. Len(frames) /\ frames[Len(frames)] = Frame
        BY <1>0, TopFacts
      <3>. DEFINE f == [Frame EXCEPT !.retcnt = want]
      <3>4. /\ f \in [base : 0..MaxStack, retcnt : Nat, clo : Clo]
            /\ f.clo = Frame.clo
        BY <1>0, <2>2, <3>3, Heights
      <3>5. frames' = [frames EXCEPT ![Len(frames)] = f] BY <2>0, <3>3
      <3>. HIDE DEF f
      <3>6. /\ Len(frames') = Len(frames)
            /\ \A k \in 1 .. Len(frames) :
                 frames'[k] = IF k = Len(frames) THEN f ELSE frames[k]
        BY <3>1, <3>3, <3>4, <3>5, ExceptSeq
      <3>. QED BY <3>3, <3>4, <3>6
    <2>. QED BY <1>0, <1>2, <2>0, <2>5, <2>6 DEF HeldInv
  <1>6. CASE Save
    <2>0. /\ UNCHANGED <<frames, tcap, closed, ups>> /\ pc = "save" /\ Left > 0
          /\ temp' = Append(temp, Top) /\ stack' = Popn(1)
      BY <1>6 DEF Save, heap
    <2>1. Len(stack) >= 1
      <3>1. Frame.base <= Len(stack) - Left BY <1>0, <2>0 DEF StackInv, PhaseInv
      <3>2. Left = Frame.retcnt - Len(temp) BY DEF Left
      <3>3. Frame.base \in Nat /\ Frame.retcnt \in Nat
        BY <1>0, TopFacts, MachineAssumption DEF MachineAssumption
      <3>4. Left \in Int BY <1>1, <3>2, <3>3
      <3>. QED BY <1>1, <2>0, <3>1, <3>3, <3>4
    <2>2. Top \in Allocated BY <1>1, <2>1, HeldFacts DEF Top, Last
    <2>3. temp' \in Seq(Allocated) BY <1>0, <2>0, <2>2, AppendProperties
    <2>4. stack' \in Seq(Allocated)
      <3>1. 1 \in 0 .. Len(stack) BY <1>1, <2>1
      <3>. QED BY <1>0, <2>0, <3>1, PopnFacts
    <2>. QED BY <1>0, <1>2, <2>0, <2>3, <2>4 DEF HeldInv
  <1>7. CASE Leave
    <2>0. /\ UNCHANGED <<temp, tcap, ups>> /\ CloseUpval(Frame.base)
          /\ frames' = Front(frames)
          /\ stack' = <<>> \/ stack' = SubSeq(stack, 1, Frame.base - 1)
      BY <1>7 DEF Leave
    <2>1. Frame.base \in Nat /\ Frame.base <= Len(stack)
      <3>1. Len(frames) \in 1 .. Len(frames) /\ Frame = frames[Len(frames)]
        BY <1>0, TopFacts
      <3>. QED BY <1>0, <3>1, Heights DEF StackInv, Held
    <2>2. closed' \in [Upval -> Allocated \cup {None}]
      BY <1>0, <2>0, <2>1, HeldClosing
    <2>3. stack' \in Seq(Allocated)
      <3>1. <<>> \in Seq(Allocated) BY EmptySeq
      <3>2. ASSUME Frame.base >= 1 PROVE SubSeq(stack, 1, Frame.base - 1) \in Seq(Allocated)
        <4>1. Frame.base - 1 \in 0 .. Len(stack) BY <1>1, <2>1, <3>2
        <4>. QED BY <1>0, <4>1, Prefix
      <3>3. ASSUME Frame.base = 0 PROVE SubSeq(stack, 1, Frame.base - 1) = <<>>
        <4>1. Frame.base - 1 < 1 BY <2>1, <3>3
        <4>2. Frame.base - 1 \in Int BY <2>1
        <4>. QED BY <4>1, <4>2, SubSeqEmpty
      <3>4. Frame.base = 0 \/ Frame.base >= 1 BY <2>1
      <3>. QED BY <2>0, <3>1, <3>2, <3>3, <3>4
    <2>4. /\ Len(frames') = Len(frames) - 1 /\ Len(frames) \in Nat
          /\ \A k \in 1 .. Len(frames) - 1 : frames'[k] = frames[k]
      <3>1. /\ frames \in Seq([base : 0..MaxStack, retcnt : Nat, clo : Clo])
            /\ frames # <<>>
        BY <1>0 DEF TypeOK, StackInv, FramesInv
      <3>. QED BY <2>0, <3>1, Ends
    <2>5. \A k \in 1 .. Len(frames') : frames'[k].clo \in Allocated
      <3>1. \A k \in 1 .. Len(frames') : k \in 1 .. Len(frames) /\ frames'[k] = frames[k]
        BY <2>4
      <3>. QED BY <1>0, <3>1
    <2>. QED BY <1>0, <1>2, <2>0, <2>2, <2>3, <2>5 DEF HeldInv
  <1>8. CASE Restore
    <2>. DEFINE back == [i \in 1 .. Len(temp) |-> temp[Len(temp) + 1 - i]]
    <2>0. /\ UNCHANGED <<frames, tcap, closed, ups>>
          /\ stack' = stack \o back /\ temp' = <<>>
      BY <1>8 DEF Restore, heap
    <2>1. back \in Seq(Allocated)
      <3>1. ASSUME NEW i \in 1 .. Len(temp) PROVE temp[Len(temp) + 1 - i] \in Allocated
        <4>1. Len(temp) + 1 - i \in 1 .. Len(temp) BY <1>1
        <4>. QED BY <4>1, HeldFacts
      <3>2. back \in [1 .. Len(temp) -> Allocated] BY <3>1
      <3>. HIDE DEF back
      <3>. QED BY <1>1, <3>2, FunctionSeq
    <2>. HIDE DEF back
    <2>2. stack \o back \in Seq(Allocated) BY <1>0, <2>1, ConcatProperties
    <2>3. temp' \in Seq(Allocated) BY <2>0, EmptySeq
    <2>. QED BY <1>0, <1>2, <2>0, <2>2, <2>3 DEF HeldInv
  <1>9. CASE Grow
    <2>1. /\ UNCHANGED <<stack, frames, temp, closed, ups>>
          /\ tcap' = IF tcap < TempInit THEN TempInit ELSE 2 * tcap
      BY <1>9 DEF Grow, heap
    <2>2. tcap' >= TempInit
      BY <1>0, <2>1, MachineAssumption DEF MachineAssumption, TypeOK
    <2>. QED BY <1>0, <1>2, <2>1, <2>2 DEF HeldInv
  <1>. QED BY <1>3, <1>4, <1>5, <1>6, <1>7, <1>8, <1>9

(* A new closure is allocated before it is pushed, and stays so while it   *)
(* captures.                                                               *)
LEMMA HeldClosures ==
  ASSUME MInv, HeldInv,
         \/ \E c \in Clo : Closure(c)
         \/ \E u \in Upval : CaptureOuter(u) \/ \E i \in 1 .. MaxStack : CaptureLocal(i, u)
  PROVE  HeldInv'
  <1>0. /\ TypeOK /\ OpenSorted /\ UpvalInv /\ StackInv
        /\ stack \in Seq(Allocated) /\ temp \in Seq(Allocated)
        /\ \A k \in 1 .. Len(frames) : frames[k].clo \in Allocated
        /\ closed \in [Upval -> Allocated \cup {None}]
        /\ tcap = 0 \/ tcap >= TempInit
    BY DEF MInv, HeldInv, Alive, Closure, CaptureOuter, CaptureLocal
  <1>1. ASSUME NEW c \in Clo, Closure(c) PROVE HeldInv'
    <2>0. /\ ups' = [ups EXCEPT ![c] = {}] /\ stack' = Append(stack, c)
          /\ UNCHANGED <<frames, temp, tcap, closed>>
      BY <1>1 DEF Closure
    <2>1. c \in Allocated' /\ Allocated \subseteq Allocated'
      BY <1>0, <2>0 DEF Allocated, TypeOK, Unallocated
    <2>2. stack \in Seq(Allocated') /\ temp \in Seq(Allocated')
      <3>1. /\ \A i \in 1 .. Len(stack) : stack[i] \in Allocated'
            /\ \A i \in 1 .. Len(temp) : temp[i] \in Allocated'
        BY <2>1, HeldFacts
      <3>. QED BY <1>0, <3>1, Retyped
    <2>3. stack' \in Seq(Allocated') BY <2>0, <2>1, <2>2, AppendProperties
    <2>4. closed \in [Upval -> Allocated' \cup {None}] BY <1>0, <2>1
    <2>5. \A k \in 1 .. Len(frames) : frames[k].clo \in Allocated' BY <1>0, <2>1
    <2>. QED BY <1>0, <2>0, <2>2, <2>3, <2>4, <2>5 DEF HeldInv
  <1>2. ASSUME NEW u \in Upval, pc = "capture", ups' = [ups EXCEPT ![Top] = @ \cup {u}]
        PROVE  Allocated' = Allocated
    <2>1. Top \in Clo /\ ups[Top] # Unallocated /\ ups[Top] \in SUBSET Upval
      BY <1>0, <1>2 DEF StackInv, PhaseInv, TypeOK
    <2>2. /\ ups'[Top] # Unallocated /\ \A c \in Clo : c # Top => ups'[c] = ups[c]
      BY <1>0, <1>2, <2>1, MachineAssumption DEF MachineAssumption, Unallocated, TypeOK
    <2>. QED BY <2>1, <2>2 DEF Allocated
  <1>3. ASSUME NEW u \in Upval, CaptureOuter(u) PROVE HeldInv'
    <2>1. /\ pc = "capture" /\ ups' = [ups EXCEPT ![Top] = @ \cup {u}]
          /\ UNCHANGED <<stack, frames, temp, tcap, closed>>
      BY <1>3 DEF CaptureOuter
    <2>. QED BY <1>0, <1>2, <2>1 DEF HeldInv
  <1>4. ASSUME NEW u \in Upval, NEW i \in 1 .. MaxStack, CaptureLocal(i, u) PROVE HeldInv'
    <2>1. /\ pc = "capture" /\ ups' = [ups EXCEPT ![Top] = @ \cup {u}]
          /\ UNCHANGED <<stack, frames, temp, tcap>> /\ CaptureUpval(i, u)
      BY <1>4 DEF CaptureLocal
    <2>2. closed' = closed \/ closed' = [closed EXCEPT ![u] = Nil]
      BY <1>0, <2>1, MachineAssumption, Capturing
    <2>3. closed' \in [Upval -> Allocated \cup {None}] BY <1>0, <2>2, HeldFacts
    <2>. QED BY <1>0, <1>2, <2>1, <2>3 DEF HeldInv
  <1>. QED BY <1>1, <1>3, <1>4

(* The collector never runs with a value in vm->temp.                      *)
LEMMA CollectTemp ==
  ASSUME MInv, HeldInv, FewResults, Collect
  PROVE  temp = <<>>
  <1>0. TypeOK /\ StackInv /\ (tcap = 0 \/ tcap >= TempInit)
    BY DEF MInv, HeldInv, Alive, Collect
  <1>1. CASE pc \in {"run", "capture"} BY <1>0, <1>1 DEF StackInv, PhaseInv
  <1>2. CASE pc = "save" /\ Left > 0 /\ Len(temp) = tcap
    <2>1. Frame.retcnt <= TempInit /\ Left = Frame.retcnt - Len(temp)
      BY <1>2 DEF FewResults, Left
    <2>2. Frame.retcnt \in Nat /\ Len(temp) \in Nat /\ TempInit \in Nat
      BY <1>0, TopFacts, Heights, MachineAssumption DEF MachineAssumption
    <2>3. Len(temp) = 0 BY <1>0, <1>2, <2>1, <2>2
    <2>4. temp \in Seq(Value) BY <1>0 DEF TypeOK
    <2>. QED BY <2>3, <2>4, EmptySeq
  <1>. QED BY <1>1, <1>2 DEF Collect

(* A collection keeps what the stack, the frames and what is closed hold.  *)
LEMMA HeldCollect ==
  ASSUME MInv, HeldInv, FewResults, Collect
  PROVE  HeldInv'
  <1>0. /\ TypeOK /\ OpenSorted /\ StackInv
        /\ ups' = [c \in Clo |-> IF c \in Live THEN ups[c] ELSE Unallocated]
        /\ closed' = [u \in Upval |-> IF u \in Live THEN closed[u] ELSE None]
        /\ UNCHANGED <<stack, frames, temp, tcap>>
        /\ stack \in Seq(Allocated)
        /\ \A k \in 1 .. Len(frames) : frames[k].clo \in Allocated
        /\ closed \in [Upval -> Allocated \cup {None}]
        /\ tcap = 0 \/ tcap >= TempInit
    BY DEF MInv, HeldInv, Alive, Collect
  <1>1. ASSUME NEW v \in Allocated, v \in Clo => v \in Live PROVE v \in Allocated'
    BY <1>0, <1>1 DEF Allocated
  <1>2. temp = <<>> BY CollectTemp
  <1>3. temp' \in Seq(Allocated') BY <1>0, <1>2, EmptySeq
  <1>4. stack' \in Seq(Allocated')
    <2>1. ASSUME NEW i \in 1 .. Len(stack) PROVE stack[i] \in Allocated'
      <3>1. stack[i] \in ToSet(stack) BY <1>0, LenProperties DEF ToSet
      <3>2. stack[i] \in Clo => stack[i] \in Live BY <3>1, Marked DEF Roots
      <3>. QED BY <1>1, <3>2, HeldFacts
    <2>. QED BY <1>0, <2>1, Retyped
  <1>5. ASSUME NEW k \in 1 .. Len(frames) PROVE frames[k].clo \in Allocated'
    <2>1. k \in DOMAIN frames BY <1>0, LenProperties DEF TypeOK
    <2>2. frames[k].clo \in Clo => frames[k].clo \in Live BY <2>1, Marked DEF Roots
    <2>. QED BY <1>0, <1>1, <2>2
  <1>6. closed' \in [Upval -> Allocated' \cup {None}]
    <2>1. ASSUME NEW u \in Upval, u \in Live, closed[u] # None PROVE closed[u] \in Allocated'
      BY <1>0, <1>1, <2>1, Marked
    <2>. QED BY <1>0, <2>1
  <1>. QED BY <1>0, <1>3, <1>4, <1>5, <1>6 DEF HeldInv

(* Every step keeps what is held allocated.                                *)
LEMMA NextHeldInv == MInv /\ HeldInv /\ FewResults /\ [Next]_vars => HeldInv'
  <1>. SUFFICES ASSUME MInv, HeldInv, FewResults, [Next]_vars PROVE HeldInv' OBVIOUS
  <1>1. ASSUME NEW v \in Data, Const(v) PROVE HeldInv'
    <2>1. v \in Allocated BY DEF Allocated
    <2>. QED BY <1>1, <2>1, HeldPush DEF Const, heap
  <1>2. ASSUME NEW i \in 1 .. MaxStack, GetLocal(i) PROVE HeldInv'
    <2>1. stack[i] \in Allocated BY <1>2, HeldFacts DEF GetLocal, IsVariable
    <2>. QED BY <1>2, <2>1, HeldPush DEF GetLocal, heap
  <1>3. ASSUME NEW u \in Upval, GetUpvalue(u) PROVE HeldInv'
    <2>0. TypeOK /\ UpvalInv /\ StackInv /\ Alive /\ u \in ups[Frame.clo]
      BY <1>3 DEF MInv, Alive, GetUpvalue
    <2>1. Frame.clo \in Clo /\ ups[Frame.clo] # Unallocated
      BY <2>0, TopFacts, MachineAssumption DEF MachineAssumption, Unallocated
    <2>2. Deref(u) \in Allocated BY <2>0, <2>1, HeldFacts DEF UpvalInv, Deref
    <2>. QED BY <1>3, <2>2, HeldPush DEF GetUpvalue, heap
  <1>4. CASE CaptureEnd \/ CallStart \/ RetStart \/ UNCHANGED vars
    <2>1. UNCHANGED <<stack, frames, temp, tcap, closed, ups>>
      BY <1>4 DEF CaptureEnd, CallStart, RetStart, heap, marks, vars
    <2>. QED BY <2>1, HeldMove DEF HeldInv
  <1>. QED
    BY <1>1, <1>2, <1>3, <1>4, HeldDrops, HeldCalls, HeldClosures, HeldCollect DEF Next

(* What is held stays allocated.                                           *)
LEMMA HeldInvariant == Spec /\ []FewResults => []HeldInv
  <1>1. Init => HeldInv
    <2>. SUFFICES ASSUME Init PROVE HeldInv OBVIOUS
    <2>1. MInv BY InitMInv
    <2>2. stack = <<>> /\ temp = <<>> /\ tcap = 0 /\ \A S : <<>> \in Seq(S)
      BY EmptySeq DEF Init
    <2>3. closed \in [Upval -> Allocated \cup {None}] BY DEF Init
    <2>4. Main \in Allocated /\ \A k \in 1 .. Len(frames) : frames[k].clo = Main
      <3>1. Main \in Clo /\ ups[Main] = {} /\ {} # Unallocated
        BY MachineAssumption DEF MachineAssumption, Init, Unallocated
      <3>2. Len(frames) = 1 /\ frames[1].clo = Main BY DEF Init
      <3>. QED BY <3>1, <3>2 DEF Allocated
    <2>. QED BY <2>2, <2>3, <2>4 DEF HeldInv
  <1>. QED BY <1>1, NextHeldInv, Invariant, PTL DEF Spec

(* No value that the interpreter holds, no upvalue that is open and none   *)
(* that a closure refers to is ever freed, as long as no return hands over *)
(* more results than vm->temp has room for when it is first allocated.     *)
THEOREM HeldIsAllocated == Spec /\ []FewResults => []NoDangling
  <1>1. MInv /\ HeldInv => NoDangling
    <2>. SUFFICES ASSUME MInv, HeldInv PROVE NoDangling OBVIOUS
    <2>0. TypeOK /\ OpenSorted /\ UpvalInv BY DEF MInv
    <2>. DEFINE held == ToSet(stack) \cup ToSet(temp)
                        \cup {frames[i].clo : i \in DOMAIN frames} \cup {closed[u] : u \in Upval}
                refs == ToSet(open) \cup UNION {ups[c] : c \in {d \in Clo : ups[d] # Unallocated}}
    <2>1. held \subseteq Allocated \cup {None}
      <3>1. ToSet(stack) \cup ToSet(temp) \subseteq Allocated
        BY <2>0, HeldFacts, LenProperties DEF ToSet, TypeOK
      <3>2. \A k \in DOMAIN frames : frames[k].clo \in Allocated
        BY <2>0, LenProperties DEF HeldInv, TypeOK
      <3>3. \A u \in Upval : closed[u] \in Allocated \cup {None} BY DEF HeldInv
      <3>. QED BY <3>1, <3>2, <3>3
    <2>2. \A c \in (Allocated \cup {None}) \cap Clo : ups[c] # Unallocated
      BY MachineAssumption DEF MachineAssumption, Allocated, Value
    <2>3. \A u \in refs : closed[u] # None
      <3>1. ASSUME NEW u \in ToSet(open) PROVE closed[u] # None
        <4>1. u \in Upval BY <2>0, Heights, LenProperties DEF ToSet, TypeOK
        <4>. QED BY <2>0, <4>1 DEF OpenSorted, UpvalInv
      <3>. QED BY <2>0, <3>1 DEF UpvalInv
    <2>. QED BY <2>1, <2>2, <2>3 DEF NoDangling
  <1>. QED BY <1>1, HeldInvariant, Invariant, PTL
----------------------------------------------------------------------------
(* The boxes that the open upvalues and the slots of the stack stand for.  *)
Slot     == Box!Boxed \cup Box!Plain
AbsFrame == [base : 0 .. MaxStack, want : Nat, clo : Clo]

(* What a slot of the stack is for Boxes: the box of the upvalue that is   *)
(* open on it, or its value.                                               *)
IsSlot(s, i) == /\ (\A u \in Upval : loc[u] # i) => s = [val |-> stack[i]]
                /\ \A u \in Upval : loc[u] = i => s = [box |-> u]

SlotsView ==
  /\ AbsSlots \in Seq(Slot)
  /\ pc \in {"run", "capture"} =>
       /\ Len(AbsSlots) = Len(stack)
       /\ \A i \in 1 .. Len(stack) : IsSlot(AbsSlots[i], i)
  /\ pc = "save" /\ Len(frames) # 1 =>
       /\ Len(AbsSlots) = Frame.base - 1 + Frame.retcnt
       /\ \A i \in 1 .. Frame.base - 1 : IsSlot(AbsSlots[i], i)
       /\ \A j \in 1 .. Frame.retcnt :
            AbsSlots[Frame.base - 1 + j] =
              [val |-> IF j <= Left THEN stack[Len(stack) - Left + j]
                       ELSE temp[Frame.retcnt + 1 - j]]
  /\ pc = "restore" =>
       /\ Len(AbsSlots) = Len(stack) + Len(temp)
       /\ \A i \in 1 .. Len(stack) : IsSlot(AbsSlots[i], i)
       /\ \A j \in 1 .. Len(temp) :
            AbsSlots[Len(stack) + j] = [val |-> temp[Len(temp) + 1 - j]]
  /\ (pc = "save" /\ Len(frames) = 1) \/ ~Alive => AbsSlots = <<>>

FramesView ==
  /\ AbsFrames \in Seq(AbsFrame)
  /\ Len(AbsFrames) = CASE pc = "save"  -> Len(frames) - 1
                        [] pc = "error" -> 0
                        [] OTHER        -> Len(frames)
  /\ \A k \in 1 .. Len(AbsFrames) :
       AbsFrames[k] = [base |-> frames[k].base, want |-> frames[k].retcnt, clo |-> frames[k].clo]

View == SlotsView /\ FramesView
----------------------------------------------------------------------------
(* The first n slots.                                                      *)
LEMMA SlotsFacts ==
  ASSUME TypeOK, OpenSorted, NEW n \in 0 .. Len(stack)
  PROVE  /\ Slots(n) \in Seq(Slot) /\ Len(Slots(n)) = n
         /\ \A i \in 1 .. n : IsSlot(Slots(n)[i], i)
  <1>1. n \in Nat /\ n <= Len(stack) /\ Len(stack) \in Nat BY Heights
  <1>2. ASSUME NEW i \in 1 .. n
        PROVE  /\ \A u \in Upval : u \in OpenAt(i) <=> loc[u] = i
               /\ OpenAt(i) \subseteq Upval
               /\ \A u, v \in OpenAt(i) : u = v
    <2>1. ToSet(open) = {open[j] : j \in 1 .. Len(open)} /\ DOMAIN open = 1 .. Len(open)
      BY LenProperties DEF TypeOK, ToSet
    <2>2. \A j \in 1 .. Len(open) : open[j] \in Upval /\ loc[open[j]] \in Nat BY Heights
    <2>3. \A u \in Upval : u \in OpenAt(i) <=> loc[u] = i
      BY <1>1 DEF OpenAt, OpenSorted
    <2>4. ASSUME NEW u \in OpenAt(i), NEW v \in OpenAt(i) PROVE u = v
      <3>1. PICK j \in 1 .. Len(open) : u = open[j] BY <2>1 DEF OpenAt
      <3>2. PICK k \in 1 .. Len(open) : v = open[k] BY <2>1 DEF OpenAt
      <3>3. loc[open[j]] = i /\ loc[open[k]] = i BY <3>1, <3>2 DEF OpenAt
      <3>4. ~(j < k) /\ ~(k < j) BY <1>1, <2>1, <2>2, <3>3 DEF OpenSorted
      <3>5. Len(open) \in Nat BY Heights
      <3>6. j = k BY <3>4, <3>5
      <3>. QED BY <3>1, <3>2, <3>6
    <2>5. OpenAt(i) \subseteq Upval BY <2>1, <2>2 DEF OpenAt
    <2>. QED BY <2>3, <2>4, <2>5
  <1>. DEFINE s(i) == IF OpenAt(i) = {} THEN [val |-> stack[i]]
                      ELSE [box |-> CHOOSE u \in OpenAt(i) : TRUE]
  <1>3. ASSUME NEW i \in 1 .. n PROVE s(i) \in Slot /\ IsSlot(s(i), i)
    <2>1. CASE OpenAt(i) = {}
      <3>1. s(i) = [val |-> stack[i]] /\ stack[i] \in Value BY <1>1, <2>1, Heights
      <3>2. s(i) \in Slot BY <3>1 DEF Slot, Box!Plain, Box!Value, Value
      <3>3. \A u \in Upval : loc[u] # i BY <1>2, <2>1
      <3>. QED BY <3>1, <3>2, <3>3 DEF IsSlot
    <2>2. CASE OpenAt(i) # {}
      <3>1. PICK u \in OpenAt(i) : u = CHOOSE v \in OpenAt(i) : TRUE BY <2>2
      <3>2. s(i) = [box |-> u] BY <2>2, <3>1
      <3>3. u \in Upval /\ loc[u] = i BY <1>2
      <3>4. \A v \in Upval : loc[v] = i => v = u BY <1>2
      <3>5. s(i) \in Slot BY <3>2, <3>3 DEF Slot, Box!Boxed
      <3>. QED BY <3>2, <3>3, <3>4, <3>5 DEF IsSlot
    <2>. QED BY <2>1, <2>2
  <1>4. Slots(n) = [i \in 1 .. n |-> s(i)] BY DEF Slots
  <1>. HIDE DEF s
  <1>5. Slots(n) \in [1 .. n -> Slot] BY <1>3, <1>4
  <1>. QED BY <1>1, <1>3, <1>4, <1>5, FunctionSeq

(* The results that wait in vm->temp, in their order.                      *)
LEMMA ResultsFacts ==
  ASSUME TypeOK
  PROVE  /\ Results \in Seq(Slot) /\ Len(Results) = Len(temp) /\ Len(temp) \in Nat
         /\ \A j \in 1 .. Len(temp) : Results[j] = [val |-> temp[Len(temp) + 1 - j]]
         /\ temp = <<>> => Results = <<>>
  <1>1. Len(temp) \in Nat /\ temp \in Seq(Value) BY Heights DEF TypeOK
  <1>. DEFINE r(i) == [val |-> temp[Len(temp) + 1 - i]]
  <1>2. ASSUME NEW i \in 1 .. Len(temp) PROVE r(i) \in Slot
    <2>1. Len(temp) + 1 - i \in 1 .. Len(temp) BY <1>1
    <2>2. temp[Len(temp) + 1 - i] \in Value BY <1>1, <2>1, ElementOfSeq
    <2>. QED BY <2>2 DEF Slot, Box!Plain, Box!Value, Value
  <1>3. Results = [i \in 1 .. Len(temp) |-> r(i)] BY DEF Results
  <1>4. \A j \in 1 .. Len(temp) : Results[j] = [val |-> temp[Len(temp) + 1 - j]] BY <1>3
  <1>. HIDE DEF r
  <1>5. Results \in [1 .. Len(temp) -> Slot] BY <1>2, <1>3
  <1>6. Results \in Seq(Slot) /\ Len(Results) = Len(temp) BY <1>1, <1>5, FunctionSeq
  <1>7. temp = <<>> => Results = <<>> BY <1>6, EmptySeq
  <1>. QED BY <1>1, <1>4, <1>6, <1>7

(* The slots, phase by phase.                                              *)
LEMMA SlotsViewed == MInv => SlotsView
  <1>. SUFFICES ASSUME MInv PROVE SlotsView OBVIOUS
  <1>0. /\ TypeOK /\ OpenSorted /\ Len(stack) \in Nat /\ Len(stack) \in 0 .. Len(stack)
        /\ pc \in {"run", "capture", "save", "restore", "done", "error"}
    BY Heights DEF MInv, TypeOK
  <1>1. /\ Slots(Len(stack)) \in Seq(Slot) /\ Len(Slots(Len(stack))) = Len(stack)
        /\ \A i \in 1 .. Len(stack) : IsSlot(Slots(Len(stack))[i], i)
    BY <1>0, SlotsFacts
  <1>2. CASE pc \in {"run", "capture"}
    <2>1. Results = <<>> BY <1>0, <1>2, ResultsFacts DEF MInv, Alive, StackInv, PhaseInv
    <2>2. AbsSlots = Slots(Len(stack)) \o Results BY <1>2 DEF AbsSlots
    <2>3. AbsSlots = Slots(Len(stack)) BY <1>1, <2>1, <2>2, ConcatEmptySeq
    <2>. QED BY <1>1, <1>2, <2>3 DEF SlotsView, Alive
  <1>3. CASE pc = "restore"
    <2>1. AbsSlots = Slots(Len(stack)) \o Results BY <1>3 DEF AbsSlots
    <2>. DEFINE a == Slots(Len(stack))
                b == Results
    <2>2. /\ b \in Seq(Slot) /\ Len(b) = Len(temp)
          /\ \A j \in 1 .. Len(temp) : b[j] = [val |-> temp[Len(temp) + 1 - j]]
      BY <1>0, ResultsFacts
    <2>3. /\ a \in Seq(Slot) /\ Len(a) = Len(stack)
          /\ \A i \in 1 .. Len(stack) : IsSlot(a[i], i)
      BY <1>1
    <2>4. AbsSlots = a \o b BY <2>1
    <2>. HIDE DEF a, b
    <2>5. /\ a \o b \in Seq(Slot) /\ Len(a \o b) = Len(a) + Len(b)
          /\ \A i \in 1 .. Len(a) : (a \o b)[i] = a[i]
          /\ \A j \in 1 .. Len(b) : (a \o b)[Len(a) + j] = b[j]
      <3>1. a \in Seq(Slot) /\ b \in Seq(Slot) BY <2>2, <2>3
      <3>. QED BY <3>1, Joined
    <2>. QED BY <1>3, <2>2, <2>3, <2>4, <2>5 DEF SlotsView, Alive
  <1>4. CASE pc = "save" /\ Len(frames) # 1
    <2>0. StackInv BY <1>4 DEF MInv, Alive
    <2>1. /\ Frame.base \in Nat /\ Frame.base <= Len(stack) /\ Frame.retcnt \in Nat
          /\ Len(temp) \in Nat /\ Len(temp) <= Frame.retcnt
          /\ Frame.base <= Len(stack) - Left
          /\ Len(frames) \in Nat \ {0} /\ Frame = frames[Len(frames)]
      <3>1. /\ Frame.base \in 0 .. MaxStack /\ Frame.retcnt \in Nat
            /\ Len(frames) \in Nat \ {0} /\ Frame = frames[Len(frames)]
        BY <1>0, <2>0, TopFacts
      <3>2. Frame.base \in Nat BY <3>1, MachineAssumption DEF MachineAssumption
      <3>3. Len(frames) \in 1 .. Len(frames) BY <3>1
      <3>4. Frame.base <= Len(stack) BY <2>0, <3>1, <3>3 DEF StackInv, Held
      <3>. QED BY <1>0, <1>4, <2>0, <3>1, <3>2, <3>4, Heights DEF StackInv, PhaseInv
    <2>2. Frame.base >= 1
      <3>0. Len(frames) # 1 BY <1>4
      <3>1. Len(frames) \in Nat \ {0} BY <2>1
      <3>2. 1 \in 1 .. Len(frames) /\ Len(frames) \in 1 .. Len(frames) /\ 1 < Len(frames)
        <4>0. \A n \in Nat \ {0} : n # 1 => n \in Nat /\ n > 1 OBVIOUS
        <4>1. Len(frames) \in Nat /\ Len(frames) > 1 BY <3>0, <3>1, <4>0
        <4>. QED BY <4>1
      <3>3. frames[1].base < Frame.base /\ frames[1].base = 0
        BY <2>0, <2>1, <3>2 DEF StackInv, FramesInv
      <3>. QED BY <2>1, <3>3
    <2>3. /\ Left \in Nat /\ Left = Frame.retcnt - Len(temp) /\ Len(stack) - Left \in Nat
          /\ Frame.base - 1 \in 0 .. Len(stack)
      <3>1. Left = Frame.retcnt - Len(temp) BY DEF Left
      <3>. QED BY <1>0, <2>1, <2>2, <3>1
    <2>. DEFINE a == Slots(Frame.base - 1)
                b == [i \in 1 .. Left |-> [val |-> stack[Len(stack) - Left + i]]]
                c == Results
    <2>4. /\ a \in Seq(Slot) /\ Len(a) = Frame.base - 1
          /\ \A i \in 1 .. Frame.base - 1 : IsSlot(a[i], i)
      BY <1>0, <2>3, SlotsFacts
    <2>5. /\ b \in Seq(Slot) /\ Len(b) = Left
          /\ \A j \in 1 .. Left : b[j] = [val |-> stack[Len(stack) - Left + j]]
      <3>1. ASSUME NEW i \in 1 .. Left PROVE [val |-> stack[Len(stack) - Left + i]] \in Slot
        <4>1. Len(stack) - Left + i \in 1 .. Len(stack) BY <1>0, <2>3
        <4>2. stack[Len(stack) - Left + i] \in Value BY <1>0, <4>1, Heights
        <4>. QED BY <4>2 DEF Slot, Box!Plain, Box!Value, Value
      <3>2. b \in [1 .. Left -> Slot] BY <3>1
      <3>3. \A j \in 1 .. Left : b[j] = [val |-> stack[Len(stack) - Left + j]] OBVIOUS
      <3>. HIDE DEF b
      <3>. QED BY <2>3, <3>2, <3>3, FunctionSeq
    <2>6. /\ c \in Seq(Slot) /\ Len(c) = Len(temp)
          /\ \A j \in 1 .. Len(temp) : c[j] = [val |-> temp[Len(temp) + 1 - j]]
      BY <1>0, ResultsFacts
    <2>7. AbsSlots = (a \o b) \o c BY <1>4 DEF AbsSlots
    <2>. HIDE DEF a, b, c
    <2>8. /\ a \o b \in Seq(Slot) /\ Len(a \o b) = Len(a) + Len(b)
          /\ \A i \in 1 .. Len(a) : (a \o b)[i] = a[i]
          /\ \A j \in 1 .. Len(b) : (a \o b)[Len(a) + j] = b[j]
      <3>1. a \in Seq(Slot) /\ b \in Seq(Slot) BY <2>4, <2>5
      <3>. QED BY <3>1, Joined
    <2>. DEFINE ab == a \o b
    <2>9. /\ ab \in Seq(Slot) /\ Len(ab) = Frame.base - 1 + Left
          /\ \A i \in 1 .. Frame.base - 1 : IsSlot(ab[i], i)
          /\ \A j \in 1 .. Left :
               ab[Frame.base - 1 + j] = [val |-> stack[Len(stack) - Left + j]]
      BY <2>4, <2>5, <2>8
    <2>10. AbsSlots = ab \o c BY <2>7
    <2>. HIDE DEF ab
    <2>11. /\ ab \o c \in Seq(Slot) /\ Len(ab \o c) = Len(ab) + Len(c)
           /\ \A i \in 1 .. Len(ab) : (ab \o c)[i] = ab[i]
           /\ \A j \in 1 .. Len(c) : (ab \o c)[Len(ab) + j] = c[j]
      <3>1. ab \in Seq(Slot) /\ c \in Seq(Slot) BY <2>6, <2>9
      <3>. QED BY <3>1, Joined
    <2>15. /\ Frame.base - 1 \in Nat /\ Left \in Nat /\ Len(temp) \in Nat
          /\ Frame.retcnt \in Nat /\ Left = Frame.retcnt - Len(temp)
      BY <2>1, <2>2, <2>3
    <2>12. AbsSlots \in Seq(Slot) /\ Len(AbsSlots) = Frame.base - 1 + Frame.retcnt
      <3>1. Len(AbsSlots) = Frame.base - 1 + Left + Len(temp) BY <2>6, <2>9, <2>10, <2>11
      <3>2. Frame.base - 1 + Left + Len(temp) = Frame.base - 1 + Frame.retcnt BY <2>15
      <3>. QED BY <2>10, <2>11, <3>1, <3>2
    <2>13. ASSUME NEW i \in 1 .. Frame.base - 1 PROVE IsSlot(AbsSlots[i], i)
      <3>1. i \in 1 .. Frame.base - 1 + Left BY <2>15
      <3>2. AbsSlots[i] = ab[i] BY <2>9, <2>10, <2>11, <3>1
      <3>. QED BY <2>9, <3>2
    <2>14. ASSUME NEW j \in 1 .. Frame.retcnt
           PROVE  AbsSlots[Frame.base - 1 + j] =
                    [val |-> IF j <= Left THEN stack[Len(stack) - Left + j]
                             ELSE temp[Frame.retcnt + 1 - j]]
      <3>1. CASE j <= Left
        <4>1. j \in 1 .. Left /\ Frame.base - 1 + j \in 1 .. Len(ab)
          <5>1. j \in 1 .. Left /\ Frame.base - 1 + j \in 1 .. Frame.base - 1 + Left
            BY <2>15, <3>1
          <5>. QED BY <2>9, <5>1
        <4>. QED BY <2>9, <2>10, <2>11, <3>1, <4>1
      <3>2. CASE ~(j <= Left)
        <4>1. /\ j - Left \in 1 .. Len(temp)
              /\ Frame.base - 1 + j = Len(ab) + (j - Left)
              /\ Len(temp) + 1 - (j - Left) = Frame.retcnt + 1 - j
          <5>1. /\ j - Left \in 1 .. Len(temp)
                /\ Frame.base - 1 + j = Frame.base - 1 + Left + (j - Left)
                /\ Len(temp) + 1 - (j - Left) = Frame.retcnt + 1 - j
            BY SMTT(60), <2>15, <3>2
          <5>. QED BY <2>9, <5>1
        <4>2. (ab \o c)[Len(ab) + (j - Left)] = c[j - Left] BY <2>6, <2>11, <4>1
        <4>3. c[j - Left] = [val |-> temp[Frame.retcnt + 1 - j]] BY <2>6, <4>1
        <4>. QED BY <2>10, <3>2, <4>1, <4>2, <4>3
      <3>. QED BY <3>1, <3>2
    <2>. QED BY <1>4, <2>12, <2>13, <2>14 DEF SlotsView, Alive
  <1>5. CASE (pc = "save" /\ Len(frames) = 1) \/ pc \in {"done", "error"}
    <2>1. AbsSlots = <<>> BY <1>5 DEF AbsSlots
    <2>2. AbsSlots \in Seq(Slot) BY <2>1, EmptySeq
    <2>. QED BY <1>5, <2>1, <2>2 DEF SlotsView, Alive
  <1>. QED BY <1>0, <1>2, <1>3, <1>4, <1>5

(* The frames: OP_RET has dropped the last one as soon as it begins.       *)
LEMMA FramesViewed == MInv => FramesView
  <1>. SUFFICES ASSUME MInv PROVE FramesView OBVIOUS
  <1>. DEFINE fs == CASE pc = "save"  -> Front(frames)
                      [] pc = "error" -> <<>>
                      [] OTHER        -> frames
              n  == CASE pc = "save"  -> Len(frames) - 1
                      [] pc = "error" -> 0
                      [] OTHER        -> Len(frames)
              R  == [base : 0..MaxStack, retcnt : Nat, clo : Clo]
              f(k) == [base |-> frames[k].base, want |-> frames[k].retcnt,
                       clo |-> frames[k].clo]
  <1>0. TypeOK /\ frames \in Seq(R) BY DEF MInv, TypeOK
  <1>1. /\ fs \in Seq(R) /\ Len(fs) = n /\ n \in Nat /\ n <= Len(frames)
        /\ \A k \in 1 .. n : fs[k] = frames[k] /\ k \in 1 .. Len(frames)
    <2>1. CASE pc = "save"
      <3>1. frames # <<>> BY <2>1 DEF MInv, Alive, StackInv, FramesInv
      <3>2. /\ Front(frames) \in Seq(R) /\ Len(Front(frames)) = Len(frames) - 1
            /\ Len(frames) \in Nat \ {0}
            /\ \A k \in 1 .. Len(frames) - 1 : Front(frames)[k] = frames[k]
        BY <1>0, <3>1, Ends
      <3>3. fs = Front(frames) /\ n = Len(frames) - 1 BY <2>1
      <3>. QED BY <3>2, <3>3
    <2>2. CASE pc = "error"
      <3>1. fs = <<>> /\ n = 0 BY <2>2
      <3>2. <<>> \in Seq(R) /\ Len(<<>>) = 0 BY EmptySeq
      <3>3. Len(frames) \in Nat BY <1>0, LenProperties
      <3>4. 0 <= Len(frames) /\ 1 .. 0 = {} BY <3>3
      <3>. HIDE DEF fs, n
      <3>. QED BY <3>1, <3>2, <3>4
    <2>3. CASE pc \notin {"save", "error"}
      <3>1. fs = frames /\ n = Len(frames) BY <2>3
      <3>. QED BY <1>0, <3>1, LenProperties
    <2>. QED BY <2>1, <2>2, <2>3
  <1>2. \A k \in 1 .. n : f(k) \in AbsFrame /\ f(k) = [base |-> fs[k].base,
                                                       want |-> fs[k].retcnt, clo |-> fs[k].clo]
    <2>1. \A k \in 1 .. Len(frames) : frames[k] \in R BY <1>0, ElementOfSeq
    <2>. QED BY <1>1, <2>1 DEF AbsFrame
  <1>3. AbsFrames = [i \in DOMAIN fs |->
                       [base |-> fs[i].base, want |-> fs[i].retcnt, clo |-> fs[i].clo]]
    BY DEF AbsFrames
  <1>4. n = CASE pc = "save"  -> Len(frames) - 1
              [] pc = "error" -> 0
              [] OTHER        -> Len(frames)
    OBVIOUS
  <1>. HIDE DEF fs, n
  <1>5. DOMAIN fs = 1 .. n BY <1>1, LenProperties
  <1>6. /\ AbsFrames \in [1 .. n -> AbsFrame]
        /\ \A k \in 1 .. n : AbsFrames[k] = f(k)
    BY <1>2, <1>3, <1>5
  <1>7. AbsFrames \in Seq(AbsFrame) /\ Len(AbsFrames) = n BY <1>1, <1>6, FunctionSeq
  <1>. QED BY <1>4, <1>6, <1>7 DEF FramesView

(* Both views hold in every state of MInv, and so after every step.        *)
LEMMA Viewed == MInv => View
  BY SlotsViewed, FramesViewed DEF View

(* Viewed, for the state a step leads to.                                  *)
LEMMA ViewedNext == MInv' => View'
  BY Viewed, PTL
----------------------------------------------------------------------------
(* Equal slots stand for the same value or for the same box.               *)
LEMMA Kept ==
  ASSUME NEW i, IsSlot(AbsSlots[i], i), IsSlot(AbsSlots[i], i)',
         \A u \in Upval : loc'[u] = i <=> loc[u] = i,
         (\A u \in Upval : loc[u] # i) => stack'[i] = stack[i]
  PROVE  AbsSlots'[i] = AbsSlots[i]
  <1>1. CASE \A u \in Upval : loc[u] # i
    <2>1. AbsSlots[i] = [val |-> stack[i]] BY <1>1 DEF IsSlot
    <2>2. AbsSlots'[i] = [val |-> stack'[i]] BY <1>1 DEF IsSlot
    <2>. QED BY <1>1, <2>1, <2>2
  <1>2. CASE \E u \in Upval : loc[u] = i
    <2>1. PICK u \in Upval : loc[u] = i BY <1>2
    <2>2. AbsSlots[i] = [box |-> u] BY <2>1 DEF IsSlot
    <2>3. AbsSlots'[i] = [box |-> u] BY <2>1 DEF IsSlot
    <2>. QED BY <2>2, <2>3
  <1>. QED BY <1>1, <1>2

(* The boxes and what closures have captured, until an error.              *)
LEMMA HeapView ==
  ASSUME TypeOK, pc # "error"
  PROVE  /\ AbsEnv = ups
         /\ AbsBox = [u \in Upval |-> IF closed[u] = None THEN None ELSE Deref(u)]
  BY DEF AbsEnv, AbsBox, TypeOK

(* What a box holds, wherever the interpreter keeps it.                    *)
LEMMA BoxKept ==
  ASSUME MInv, Alive, TypeOK', pc' # "error",
         \A u \in Upval :
           \/ /\ loc'[u] = loc[u] /\ closed'[u] = closed[u]
              /\ loc[u] # 0 => stack'[loc[u]] = stack[loc[u]]
           \/ loc[u] # 0 /\ loc'[u] = 0 /\ closed'[u] = stack[loc[u]]
  PROVE  AbsBox' = AbsBox
  <1>0. TypeOK /\ StackInv /\ UpvalInv /\ pc # "error" BY DEF MInv, Alive
  <1>1. AbsBox = [u \in Upval |-> IF closed[u] = None THEN None ELSE Deref(u)]
    BY <1>0, HeapView
  <1>2. AbsBox' = [u \in Upval |-> IF closed'[u] = None THEN None ELSE Deref(u)']
    BY DEF AbsBox
  <1>3. ASSUME NEW u \in Upval
        PROVE  (IF closed[u] = None THEN None ELSE Deref(u))
                 = IF closed'[u] = None THEN None ELSE Deref(u)'
    <2>1. loc[u] # 0 => stack[loc[u]] # None /\ closed[u] # None
      <3>1. loc[u] # 0 => stack[loc[u]] \in Value
        BY <1>0, Heights DEF StackInv, Held
      <3>. QED BY <1>0, <3>1, MachineAssumption DEF MachineAssumption, UpvalInv
    <2>. QED BY <2>1 DEF Deref
  <1>. QED BY <1>1, <1>2, <1>3

(* The frames, while the interpreter runs and none comes or goes.          *)
LEMMA FramesKept ==
  ASSUME MInv, MInv', frames' = frames, pc \in {"run", "capture", "restore"},
         pc' \in {"run", "capture", "restore"}
  PROVE  AbsFrames' = AbsFrames
  BY DEF AbsFrames

(* A value is pushed.                                                      *)
LEMMA Pushed ==
  ASSUME MInv, MInv', pc \in {"run", "capture"}, pc' \in {"run", "capture"},
         NEW v \in Value, stack' = Append(stack, v), UNCHANGED <<frames, loc, closed>>
  PROVE  /\ AbsSlots' = Append(AbsSlots, [val |-> v])
         /\ AbsBox' = AbsBox /\ AbsFrames' = AbsFrames
  <1>0. TypeOK /\ StackInv /\ Alive /\ pc' # "error" /\ SlotsView /\ SlotsView'
    BY Viewed, ViewedNext DEF MInv, Alive, View
  <1>1. /\ Len(stack) \in Nat /\ Len(stack') = Len(stack) + 1
        /\ stack'[Len(stack) + 1] = v
        /\ \A i \in 1 .. Len(stack) : stack'[i] = stack[i]
    BY <1>0, AppendProperties, LenProperties DEF TypeOK
  <1>2. \A u \in Upval : loc[u] \in Nat /\ loc[u] <= Len(stack)
    BY <1>0, Heights DEF StackInv, Held
  <1>3. /\ AbsSlots \in Seq(Slot) /\ Len(AbsSlots) = Len(stack)
        /\ \A i \in 1 .. Len(stack) : IsSlot(AbsSlots[i], i)
    BY <1>0 DEF SlotsView
  <1>4. /\ AbsSlots' \in Seq(Slot) /\ Len(AbsSlots') = Len(stack) + 1
        /\ \A i \in 1 .. Len(stack) + 1 : IsSlot(AbsSlots[i], i)'
    BY <1>0, <1>1 DEF SlotsView
  <1>5. \A i \in 1 .. Len(stack) : AbsSlots'[i] = AbsSlots[i]
    <2>. SUFFICES ASSUME NEW i \in 1 .. Len(stack) PROVE AbsSlots'[i] = AbsSlots[i] OBVIOUS
    <2>1. i \in 1 .. Len(stack) + 1 BY <1>1
    <2>. QED BY <1>1, <1>3, <1>4, <2>1, Kept
  <1>6. AbsSlots'[Len(stack) + 1] = [val |-> v]
    <2>1. Len(stack) + 1 \in 1 .. Len(stack) + 1 BY <1>1
    <2>2. \A u \in Upval : loc'[u] # Len(stack) + 1 BY <1>1, <1>2
    <2>. QED BY <1>1, <1>4, <2>1, <2>2 DEF IsSlot
  <1>7. AbsSlots' = Append(AbsSlots, [val |-> v])
    <2>1. [val |-> v] \in Slot BY DEF Slot, Box!Plain, Box!Value, Value
    <2>. DEFINE t == Append(AbsSlots, [val |-> v])
    <2>2. /\ t \in Seq(Slot) /\ Len(t) = Len(stack) + 1
          /\ t[Len(stack) + 1] = [val |-> v]
          /\ \A i \in 1 .. Len(stack) : t[i] = AbsSlots[i]
      BY <1>3, <2>1, AppendProperties
    <2>. HIDE DEF t
    <2>3. \A i \in 1 .. Len(stack) + 1 : i \in 1 .. Len(stack) \/ i = Len(stack) + 1
      BY <1>1
    <2>4. \A i \in 1 .. Len(stack) + 1 : AbsSlots'[i] = t[i] BY <1>5, <1>6, <2>2, <2>3
    <2>5. AbsSlots' = t BY <1>4, <2>2, <2>4, SeqEqual
    <2>. QED BY <2>5 DEF t
  <1>8. AbsBox' = AbsBox
    <2>1. \A u \in Upval : loc[u] # 0 => stack'[loc[u]] = stack[loc[u]] BY <1>1, <1>2
    <2>2. TypeOK' BY DEF MInv
    <2>. QED BY <1>0, <2>1, <2>2, BoxKept
  <1>. QED BY <1>7, <1>8, FramesKept

(* The slots above are dropped; a slot that no upvalue is open on keeps    *)
(* its value.                                                              *)
LEMMA Dropped ==
  ASSUME MInv, MInv', pc = "run", pc' = "run", NEW n \in 1 .. Len(stack),
         Len(stack') = Len(stack) - n,
         \A i \in 1 .. Len(stack) - n :
           (\A u \in Upval : loc[u] # i) => stack'[i] = stack[i],
         \A u \in Upval : loc'[u] = IF loc[u] > Len(stack) - n THEN 0 ELSE loc[u]
  PROVE  AbsSlots' = SubSeq(AbsSlots, 1, Len(AbsSlots) - n) /\ n \in 1 .. Len(AbsSlots)
  <1>. DEFINE m == Len(stack) - n
  <1>0. TypeOK /\ SlotsView /\ SlotsView' BY Viewed, ViewedNext DEF MInv, View
  <1>1. Len(stack) \in Nat /\ m \in Nat /\ m \in 0 .. Len(stack) BY <1>0, Heights
  <1>2. /\ AbsSlots \in Seq(Slot) /\ Len(AbsSlots) = Len(stack)
        /\ \A i \in 1 .. Len(stack) : IsSlot(AbsSlots[i], i)
    BY <1>0 DEF SlotsView
  <1>3. /\ AbsSlots' \in Seq(Slot) /\ Len(AbsSlots') = m
        /\ \A i \in 1 .. m : IsSlot(AbsSlots[i], i)'
    BY <1>0 DEF SlotsView
  <1>4. ASSUME NEW i \in 1 .. m PROVE AbsSlots'[i] = AbsSlots[i]
    <2>1. i \in 1 .. Len(stack) /\ i <= m /\ i # 0 BY <1>1
    <2>2. \A u \in Upval : loc'[u] = i <=> loc[u] = i
      <3>1. \A u \in Upval : loc[u] \in Nat BY <1>0, Heights
      <3>. QED BY <1>1, <2>1, <3>1
    <2>. QED BY <1>2, <1>3, <2>1, <2>2, Kept
  <1>5. /\ SubSeq(AbsSlots, 1, m) \in Seq(Slot) /\ Len(SubSeq(AbsSlots, 1, m)) = m
        /\ \A i \in 1 .. m : SubSeq(AbsSlots, 1, m)[i] = AbsSlots[i]
    <2>1. AbsSlots \in Seq(Slot) /\ m \in 0 .. Len(AbsSlots) BY <1>1, <1>2
    <2>. QED BY <2>1, Prefix
  <1>6. AbsSlots' = SubSeq(AbsSlots, 1, m)
    <2>. DEFINE t == SubSeq(AbsSlots, 1, m)
    <2>1. /\ t \in Seq(Slot) /\ Len(t) = m
          /\ \A i \in 1 .. m : AbsSlots'[i] = t[i]
      BY <1>4, <1>5
    <2>. HIDE DEF t
    <2>2. AbsSlots' = t BY <1>3, <2>1, SeqEqual
    <2>. QED BY <2>2 DEF t
  <1>. QED BY <1>2, <1>6

(* What closures have captured, while no closure comes or goes.            *)
LEMMA EnvKept ==
  ASSUME ups' = ups, pc # "error", pc' # "error"
  PROVE  AbsEnv' = AbsEnv
  BY DEF AbsEnv

(* HeapView's first half, for the state a step leads to.                   *)
LEMMA EnvNext ==
  ASSUME TypeOK', pc' # "error"
  PROVE  AbsEnv' = ups'
  BY DEF AbsEnv, TypeOK

(* Boxes reads a slot as the interpreter does.                             *)
LEMMA ContentIs ==
  ASSUME MInv, pc \in {"run", "capture"}, NEW i \in 1 .. Len(stack)
  PROVE  /\ Box!Content(AbsSlots[i]) = stack[i]
         /\ (\A u \in Upval : loc[u] # i) =>
              AbsSlots[i] = [val |-> stack[i]] /\ ~Box!InBox(AbsSlots[i])
         /\ \A u \in Upval : loc[u] = i =>
              AbsSlots[i] = [box |-> u] /\ Box!InBox(AbsSlots[i])
  <1>0. TypeOK /\ UpvalInv /\ SlotsView /\ pc # "error" BY Viewed DEF MInv, View
  <1>1. IsSlot(AbsSlots[i], i) BY <1>0 DEF SlotsView
  <1>2. ASSUME \A u \in Upval : loc[u] # i
        PROVE  /\ AbsSlots[i] = [val |-> stack[i]] /\ ~Box!InBox(AbsSlots[i])
               /\ Box!Content(AbsSlots[i]) = stack[i]
    <2>1. AbsSlots[i] = [val |-> stack[i]] BY <1>1, <1>2 DEF IsSlot
    <2>2. DOMAIN [val |-> stack[i]] = {"val"} OBVIOUS
    <2>3. ~Box!InBox(AbsSlots[i]) BY <2>1, <2>2 DEF Box!InBox
    <2>. QED BY <2>1, <2>3 DEF Box!Content
  <1>3. ASSUME NEW u \in Upval, loc[u] = i
        PROVE  /\ AbsSlots[i] = [box |-> u] /\ Box!InBox(AbsSlots[i])
               /\ Box!Content(AbsSlots[i]) = stack[i]
    <2>1. AbsSlots[i] = [box |-> u] BY <1>1, <1>3 DEF IsSlot
    <2>2. DOMAIN [box |-> u] = {"box"} OBVIOUS
    <2>3. Box!InBox(AbsSlots[i]) BY <2>1, <2>2 DEF Box!InBox
    <2>4. AbsBox[u] = stack[i]
      <3>1. loc[u] # 0 /\ closed[u] # None BY <1>0, <1>3 DEF UpvalInv
      <3>2. AbsBox[u] = Deref(u) BY <1>0, <3>1, HeapView
      <3>. QED BY <1>3, <3>1, <3>2 DEF Deref
    <2>. QED BY <2>1, <2>3, <2>4 DEF Box!Content
  <1>. QED BY <1>2, <1>3

(* The running frame.                                                      *)
LEMMA CurrentIs ==
  ASSUME MInv, pc \in {"run", "capture"}
  PROVE  /\ AbsFrames \in Seq(AbsFrame) /\ Len(AbsFrames) = Len(frames)
         /\ AbsFrames # <<>> /\ Len(frames) \in Nat \ {0}
         /\ Box!Current.base = Frame.base /\ Box!Current.want = Frame.retcnt
         /\ Box!Current.clo = Frame.clo
  <1>0. TypeOK /\ StackInv /\ FramesView BY Viewed DEF MInv, Alive, View
  <1>1. Len(AbsFrames) = Len(frames) /\ AbsFrames \in Seq(AbsFrame) BY <1>0 DEF FramesView
  <1>2. /\ Len(frames) \in Nat \ {0} /\ Frame = frames[Len(frames)]
        /\ Len(frames) \in 1 .. Len(frames)
    BY <1>0, TopFacts
  <1>3. AbsFrames[Len(frames)] = [base |-> Frame.base, want |-> Frame.retcnt,
                                  clo |-> Frame.clo]
    BY <1>0, <1>1, <1>2 DEF FramesView
  <1>4. AbsFrames # <<>> BY <1>1, <1>2, EmptySeq
  <1>. QED BY <1>1, <1>2, <1>3, <1>4 DEF Box!Current
----------------------------------------------------------------------------
(* The instructions that push a value.                                     *)
LEMMA PushesBox ==
  ASSUME MInv, MInv',
         \/ \E v \in Data : Const(v)
         \/ \E i \in 1 .. MaxStack : GetLocal(i)
         \/ \E u \in Upval : GetUpvalue(u)
  PROVE  Box!Next
  <1>0. TypeOK /\ UpvalInv /\ StackInv /\ pc = "run" /\ pc' = "run"
    BY DEF MInv, Alive, Const, GetLocal, GetUpvalue
  <1>1. PICK v \in Value : stack' = Append(stack, v)
    <2>1. ASSUME NEW v \in Data, Const(v) PROVE \E w \in Value : stack' = Append(stack, w)
      <3>1. v \in Value BY DEF Value
      <3>. QED BY <2>1, <3>1 DEF Const
    <2>2. ASSUME NEW i \in 1 .. MaxStack, GetLocal(i)
          PROVE  \E w \in Value : stack' = Append(stack, w)
      <3>1. stack[i] \in Value BY <1>0, <2>2, Heights DEF GetLocal, IsVariable
      <3>. QED BY <2>2, <3>1 DEF GetLocal
    <2>3. ASSUME NEW u \in Upval, GetUpvalue(u)
          PROVE  \E w \in Value : stack' = Append(stack, w)
      <3>1. Frame.clo \in Clo /\ ups[Frame.clo] # Unallocated
        BY <1>0, <2>3, TopFacts, MachineAssumption
        DEF MachineAssumption, Unallocated, GetUpvalue
      <3>2. closed[u] # None BY <1>0, <2>3, <3>1 DEF UpvalInv, GetUpvalue
      <3>3. Deref(u) \in Value BY <1>0, <3>2, DerefValue
      <3>. QED BY <2>3, <3>3 DEF GetUpvalue
    <2>. QED BY <2>1, <2>2, <2>3
  <1>2. UNCHANGED <<frames, loc, closed, ups>>
    BY DEF Const, GetLocal, GetUpvalue, heap
  <1>3. /\ AbsSlots' = Append(AbsSlots, [val |-> v])
        /\ AbsBox' = AbsBox /\ AbsFrames' = AbsFrames
    BY <1>0, <1>1, <1>2, Pushed
  <1>4. AbsEnv' = AbsEnv BY <1>0, <1>2, EnvKept
  <1>5. v \in Box!Value BY DEF Box!Value, Value
  <1>. QED BY <1>3, <1>4, <1>5 DEF Box!Next, Box!Push

(* Variables go out of scope, with or without an upvalue to close.         *)
LEMMA DropsBox ==
  ASSUME MInv, MInv', NEW n \in 1 .. MaxStack, Pop(n) \/ Close(n)
  PROVE  Box!Next
  <1>0. /\ TypeOK /\ OpenSorted /\ StackInv /\ Alive /\ pc = "run" /\ pc' = "run"
        /\ TypeOK' /\ pc' # "error"
        /\ UNCHANGED <<frames, ups>> /\ stack' = Popn(n) /\ Len(stack) - n >= Floor
    BY DEF MInv, Alive, Pop, Close, heap
  <1>1. n \in 1 .. Len(stack) /\ n \in 0 .. Len(stack) /\ Len(stack) \in Nat
    BY <1>0, FloorFacts, Heights
  <1>2. /\ Len(stack') = Len(stack) - n
        /\ \A i \in 1 .. Len(stack) - n : stack'[i] = stack[i]
    BY <1>0, <1>1, PopnFacts DEF TypeOK
  <1>3. \A u \in Upval : loc[u] \in Nat /\ loc[u] <= Len(stack)
    BY <1>0, Heights DEF StackInv, Held
  <1>4. /\ \A u \in Upval : loc'[u] = IF loc[u] > Len(stack) - n THEN 0 ELSE loc[u]
        /\ \A u \in Upval : closed'[u] = IF loc[u] # 0 /\ loc[u] > Len(stack) - n
                                         THEN stack[loc[u]] ELSE closed[u]
    <2>1. CASE Pop(n)
      <3>1. loc' = loc /\ closed' = closed BY <2>1 DEF Pop, heap
      <3>2. ASSUME NEW u \in Upval PROVE ~(loc[u] > Len(stack) - n)
        <4>. SUFFICES ASSUME loc[u] > Len(stack) - n PROVE FALSE OBVIOUS
        <4>1. loc[u] \in (Len(stack) - n + 1) .. Len(stack) /\ loc[u] # 0
          BY <1>1, <1>3
        <4>2. OpenAt(loc[u]) = {} BY <2>1, <4>1 DEF Pop
        <4>. QED BY <1>0, <4>1, <4>2 DEF OpenAt, OpenSorted
      <3>. QED BY <3>1, <3>2
    <2>2. CASE Close(n)
      <3>. DEFINE m == Len(stack) - n + 1
      <3>1. m \in Nat /\ CloseUpval(m) BY <1>1, <2>2 DEF Close
      <3>2. \A u \in Upval : loc[u] >= m <=> loc[u] > Len(stack) - n BY <1>1, <1>3
      <3>. HIDE DEF m
      <3>3. /\ \A u \in Upval : loc'[u] = IF loc[u] >= m THEN 0 ELSE loc[u]
            /\ \A u \in Upval : closed'[u] = IF loc[u] # 0 /\ loc[u] >= m
                                             THEN stack[loc[u]] ELSE closed[u]
        BY <1>0, <1>3, <3>1, Closing
      <3>. QED BY <3>2, <3>3
    <2>. QED BY <2>1, <2>2
  <1>5. AbsSlots' = SubSeq(AbsSlots, 1, Len(AbsSlots) - n) /\ n \in 1 .. Len(AbsSlots)
    BY <1>0, <1>1, <1>2, <1>4, Dropped
  <1>6. AbsBox' = AbsBox
    <2>. SUFFICES ASSUME NEW u \in Upval
                  PROVE  \/ /\ loc'[u] = loc[u] /\ closed'[u] = closed[u]
                            /\ loc[u] # 0 => stack'[loc[u]] = stack[loc[u]]
                         \/ loc[u] # 0 /\ loc'[u] = 0 /\ closed'[u] = stack[loc[u]]
      BY <1>0, BoxKept
    <2>1. CASE loc[u] > Len(stack) - n
      <3>1. loc[u] # 0 BY <1>1, <1>3, <2>1
      <3>. QED BY <1>4, <2>1, <3>1
    <2>2. CASE ~(loc[u] > Len(stack) - n)
      <3>1. loc[u] # 0 => loc[u] \in 1 .. Len(stack) - n BY <1>1, <1>3, <2>2
      <3>. QED BY <1>2, <1>4, <2>2, <3>1
    <2>. QED BY <2>1, <2>2
  <1>7. AbsEnv' = AbsEnv BY <1>0, EnvKept
  <1>8. AbsFrames' = AbsFrames BY <1>0, FramesKept
  <1>. QED BY <1>5, <1>6, <1>7, <1>8 DEF Box!Next, Box!Drop, Box!Upto

(* What an instruction leaves of the stack that stores the top in slot i.  *)
LEMMA Stored ==
  ASSUME TypeOK, NEW i \in 1 .. Len(stack) - 1, stack' = [Popn(1) EXCEPT ![i] = Top],
         Len(stack) >= 1
  PROVE  /\ Len(stack') = Len(stack) - 1
         /\ \A j \in 1 .. Len(stack) - 1 : stack'[j] = IF j = i THEN Top ELSE stack[j]
  <1>1. 1 \in 0 .. Len(stack) /\ stack \in Seq(Value) /\ Len(stack) \in Nat
    BY Heights DEF TypeOK
  <1>2. /\ Popn(1) \in Seq(Value) /\ Len(Popn(1)) = Len(stack) - 1
        /\ \A j \in 1 .. Len(stack) - 1 : Popn(1)[j] = stack[j]
    BY <1>1, PopnFacts
  <1>3. Top \in Value
    <2>1. Len(stack) \in 1 .. Len(stack) BY <1>1
    <2>. QED BY <2>1, Heights DEF Top, Last
  <1>. DEFINE p == Popn(1)
              v == Top
  <1>4. stack' = [p EXCEPT ![i] = v] /\ p \in Seq(Value) /\ v \in Value /\ i \in 1 .. Len(p)
    BY <1>2, <1>3
  <1>5. Len(p) = Len(stack) - 1 /\ \A j \in 1 .. Len(stack) - 1 : p[j] = stack[j] BY <1>2
  <1>. HIDE DEF p, v
  <1>6. Len(stack') = Len(p) /\ \A j \in 1 .. Len(p) : stack'[j] = IF j = i THEN v ELSE p[j]
    BY <1>4, ExceptSeq
  <1>. QED BY <1>5, <1>6 DEF v

(* OP_SET_LOCAL: the slot or its box.                                      *)
LEMMA SetLocalBox ==
  ASSUME MInv, MInv', NEW i \in 1 .. MaxStack, SetLocal(i)
  PROVE  Box!Next
  <1>0. /\ TypeOK /\ OpenSorted /\ UpvalInv /\ StackInv /\ Alive
        /\ pc = "run" /\ pc' = "run" /\ TypeOK' /\ pc' # "error"
        /\ UNCHANGED <<frames, loc, closed, ups>> /\ OpenAt(Len(stack)) = {}
        /\ stack' = [Popn(1) EXCEPT ![i] = Top]
        /\ SlotsView /\ SlotsView'
    BY Viewed, ViewedNext DEF MInv, Alive, SetLocal, heap, View
  <1>1. /\ Len(stack) >= 1 /\ Len(stack) \in Nat /\ i \in 1 .. Len(stack) - 1
        /\ 1 \in 1 .. Len(stack) /\ Len(stack) \in 1 .. Len(stack) /\ i \in 1 .. Len(stack)
    BY <1>0, FloorFacts, Heights DEF SetLocal
  <1>2. /\ Len(stack') = Len(stack) - 1
        /\ \A j \in 1 .. Len(stack) - 1 : stack'[j] = IF j = i THEN Top ELSE stack[j]
    BY <1>0, <1>1, Stored
  <1>3. /\ \A u \in Upval : loc[u] \in Nat /\ loc[u] <= Len(stack)
        /\ \A u \in Upval : loc[u] # Len(stack)
    BY <1>0, <1>1, Heights DEF StackInv, Held, OpenSorted, OpenAt
  <1>4. /\ AbsSlots \in Seq(Slot) /\ Len(AbsSlots) = Len(stack)
        /\ AbsSlots' \in Seq(Slot) /\ Len(AbsSlots') = Len(stack) - 1
        /\ \A j \in 1 .. Len(stack) : IsSlot(AbsSlots[j], j)
        /\ \A j \in 1 .. Len(stack) - 1 : IsSlot(AbsSlots[j], j)'
    BY <1>0, <1>2 DEF SlotsView
  <1>5. Box!Content(AbsSlots[Len(AbsSlots)]) = Top
    BY <1>0, <1>1, <1>4, ContentIs DEF Top, Last
  <1>6. AbsEnv' = AbsEnv /\ AbsFrames' = AbsFrames BY <1>0, EnvKept, FramesKept
  <1>7. i \in 1 .. (Len(AbsSlots) - 1) BY <1>1, <1>4
  <1>8. CASE \E u \in Upval : loc[u] = i
    <2>1. PICK u \in Upval : loc[u] = i BY <1>8
    <2>2. AbsSlots[i] = [box |-> u] /\ Box!InBox(AbsSlots[i])
      BY <1>0, <1>1, <2>1, ContentIs
    <2>3. AbsSlots' = SubSeq(AbsSlots, 1, Len(AbsSlots) - 1)
      <3>1. \A j \in 1 .. Len(stack) - 1 :
              (\A w \in Upval : loc[w] # j) => stack'[j] = stack[j]
        BY <1>2, <2>1
      <3>2. \A w \in Upval : loc'[w] = IF loc[w] > Len(stack) - 1 THEN 0 ELSE loc[w]
        BY <1>0, <1>1, <1>3
      <3>. QED BY <1>0, <1>1, <1>2, <3>1, <3>2, Dropped
    <2>4. AbsBox' = [AbsBox EXCEPT ![u] = Top]
      <3>1. AbsBox = [w \in Upval |-> IF closed[w] = None THEN None ELSE Deref(w)]
        BY <1>0, HeapView
      <3>2. AbsBox' = [w \in Upval |-> IF closed'[w] = None THEN None ELSE Deref(w)']
        BY <1>0 DEF AbsBox
      <3>3. closed'[u] # None /\ Deref(u)' = Top
        BY <1>0, <1>1, <1>2, <2>1 DEF Deref, UpvalInv
      <3>4. ASSUME NEW w \in Upval, w # u PROVE Deref(w)' = Deref(w)
        <4>1. loc[w] # i
          <5>. SUFFICES ASSUME loc[w] = i PROVE FALSE OBVIOUS
          <5>1. AbsSlots[i] = [box |-> w] BY <1>0, <1>1, ContentIs
          <5>. QED BY <2>2, <3>4, <5>1
        <4>2. loc[w] = 0 \/ loc[w] \in 1 .. Len(stack) - 1 BY <1>1, <1>3
        <4>. QED BY <1>0, <1>2, <4>1, <4>2 DEF Deref
      <3>. QED BY <1>0, <3>1, <3>2, <3>3, <3>4
    <2>5. AbsSlots[i].box = u BY <2>2
    <2>6. Box!Assign(i) BY <1>5, <1>6, <2>2, <2>3, <2>4, <2>5 DEF Box!Assign, Box!Upto
    <2>. QED BY <1>7, <2>6 DEF Box!Next
  <1>9. CASE \A u \in Upval : loc[u] # i
    <2>1. ~Box!InBox(AbsSlots[i]) BY <1>0, <1>1, <1>9, ContentIs
    <2>2. AbsBox' = AbsBox
      <3>1. \A u \in Upval : loc[u] # 0 => stack'[loc[u]] = stack[loc[u]]
        <4>. SUFFICES ASSUME NEW u \in Upval, loc[u] # 0
                      PROVE  stack'[loc[u]] = stack[loc[u]]
          OBVIOUS
        <4>1. loc[u] \in 1 .. Len(stack) - 1 BY <1>1, <1>3
        <4>. QED BY <1>2, <1>9, <4>1
      <3>. QED BY <1>0, <3>1, BoxKept
    <2>3. AbsSlots' = [SubSeq(AbsSlots, 1, Len(AbsSlots) - 1) EXCEPT ![i] = [val |-> Top]]
      <3>. DEFINE p == SubSeq(AbsSlots, 1, Len(AbsSlots) - 1)
                  v == [val |-> Top]
                  t == [p EXCEPT ![i] = v]
      <3>1. /\ p \in Seq(Slot) /\ Len(p) = Len(stack) - 1
            /\ \A j \in 1 .. Len(stack) - 1 : p[j] = AbsSlots[j]
        <4>1. Len(stack) - 1 \in 0 .. Len(AbsSlots) /\ AbsSlots \in Seq(Slot)
          BY <1>1, <1>4
        <4>2. Len(AbsSlots) - 1 = Len(stack) - 1 BY <1>4
        <4>. QED BY <4>1, <4>2, Prefix
      <3>2. v \in Slot
        <4>1. Top \in Value BY <1>0, <1>1, Heights DEF Top, Last
        <4>. QED BY <4>1 DEF Slot, Box!Plain, Box!Value, Value
      <3>. HIDE DEF p, v
      <3>3. /\ t \in Seq(Slot) /\ Len(t) = Len(stack) - 1
            /\ \A j \in 1 .. Len(stack) - 1 : t[j] = IF j = i THEN v ELSE AbsSlots[j]
        <4>1. /\ t \in Seq(Slot) /\ Len(t) = Len(p)
              /\ \A j \in 1 .. Len(p) : t[j] = IF j = i THEN v ELSE p[j]
          BY <1>1, <3>1, <3>2, ExceptSeq
        <4>. QED BY <3>1, <4>1
      <3>4. ASSUME NEW j \in 1 .. Len(stack) - 1 PROVE AbsSlots'[j] = t[j]
        <4>0. j \in 1 .. Len(stack) BY <1>1
        <4>1. CASE j = i
          <5>1. \A u \in Upval : loc'[u] # i BY <1>0, <1>9
          <5>2. AbsSlots'[i] = [val |-> stack'[i]] BY <1>1, <1>4, <5>1 DEF IsSlot
          <5>. QED BY <1>1, <1>2, <3>3, <4>1, <5>2 DEF v
        <4>2. CASE j # i
          <5>1. \A u \in Upval : loc'[u] = j <=> loc[u] = j BY <1>0
          <5>2. stack'[j] = stack[j] BY <1>2, <4>2
          <5>3. AbsSlots'[j] = AbsSlots[j] BY <1>4, <4>0, <5>1, <5>2, Kept
          <5>. QED BY <3>3, <4>2, <5>3
        <4>. QED BY <4>1, <4>2
      <3>. HIDE DEF t
      <3>5. AbsSlots' = t BY <1>4, <3>3, <3>4, SeqEqual
      <3>. QED BY <3>5 DEF t, p, v
    <2>4. Box!Assign(i) BY <1>5, <1>6, <2>1, <2>2, <2>3 DEF Box!Assign, Box!Upto
    <2>. QED BY <1>7, <2>4 DEF Box!Next
  <1>. QED BY <1>8, <1>9

(* OP_SET_UPVALUE: the box, wherever its content is.                       *)
LEMMA SetUpvalueBox ==
  ASSUME MInv, MInv', NEW u \in Upval, SetUpvalue(u)
  PROVE  Box!Next
  <1>0. /\ TypeOK /\ OpenSorted /\ UpvalInv /\ StackInv /\ Alive
        /\ pc = "run" /\ pc' = "run" /\ TypeOK' /\ pc' # "error"
        /\ UNCHANGED <<frames, loc, ups>> /\ OpenAt(Len(stack)) = {}
        /\ SlotsView /\ u \in ups[Frame.clo] /\ Len(stack) - 1 >= Floor
    BY Viewed DEF MInv, Alive, SetUpvalue, View
  <1>1. /\ Len(stack) >= 1 /\ Len(stack) \in Nat /\ Len(stack) \in 1 .. Len(stack)
        /\ 1 \in 1 .. Len(stack) /\ 1 \in 0 .. Len(stack) /\ Len(stack) - 1 \in Nat
    BY <1>0, FloorFacts, Heights
  <1>2. /\ \A w \in Upval : loc[w] \in Nat /\ loc[w] <= Len(stack)
        /\ \A w \in Upval : loc[w] # Len(stack)
    BY <1>0, <1>1, Heights DEF StackInv, Held, OpenSorted, OpenAt
  <1>3. \A w \in Upval : loc[w] = 0 \/ loc[w] \in 1 .. Len(stack) - 1 BY <1>1, <1>2
  <1>4. Frame.clo \in Clo /\ ups[Frame.clo] # Unallocated /\ closed[u] # None
    <2>1. Frame.clo \in Clo /\ ups[Frame.clo] # Unallocated
      BY <1>0, TopFacts, MachineAssumption DEF MachineAssumption, Unallocated
    <2>. QED BY <1>0, <2>1 DEF UpvalInv
  <1>5. Top \in Value /\ Top # None
    <2>1. Top \in Value BY <1>0, <1>1, Heights DEF Top, Last
    <2>. QED BY <2>1, MachineAssumption DEF MachineAssumption
  <1>6. /\ Len(stack') = Len(stack) - 1
        /\ \A j \in 1 .. Len(stack) - 1 :
             stack'[j] = IF loc[u] # 0 /\ j = loc[u] THEN Top ELSE stack[j]
        /\ \A w \in Upval : closed'[w] = IF loc[u] = 0 /\ w = u THEN Top ELSE closed[w]
    <2>1. CASE loc[u] = 0
      <3>1. stack' = Popn(1) /\ closed' = [closed EXCEPT ![u] = Top]
        BY <2>1 DEF SetUpvalue
      <3>2. /\ Len(stack') = Len(stack) - 1
            /\ \A j \in 1 .. Len(stack) - 1 : stack'[j] = stack[j]
        BY <1>0, <1>1, <3>1, PopnFacts DEF TypeOK
      <3>. QED BY <1>0, <2>1, <3>1, <3>2 DEF TypeOK
    <2>2. CASE loc[u] # 0
      <3>1. stack' = [Popn(1) EXCEPT ![loc[u]] = Top] /\ closed' = closed
        BY <2>2 DEF SetUpvalue
      <3>2. loc[u] \in 1 .. Len(stack) - 1 BY <1>3, <2>2
      <3>3. /\ Len(stack') = Len(stack) - 1
            /\ \A j \in 1 .. Len(stack) - 1 : stack'[j] = IF j = loc[u] THEN Top ELSE stack[j]
        BY <1>0, <1>1, <3>1, <3>2, Stored
      <3>. QED BY <2>2, <3>1, <3>3
    <2>. QED BY <2>1, <2>2
  <1>7. Len(AbsSlots) = Len(stack) /\ Box!Content(AbsSlots[Len(AbsSlots)]) = Top
    BY <1>0, <1>1, ContentIs DEF Top, Last, SlotsView
  <1>8. AbsSlots' = SubSeq(AbsSlots, 1, Len(AbsSlots) - 1)
    <2>1. \A j \in 1 .. Len(stack) - 1 :
            (\A w \in Upval : loc[w] # j) => stack'[j] = stack[j]
      BY <1>6
    <2>2. \A w \in Upval : loc'[w] = IF loc[w] > Len(stack) - 1 THEN 0 ELSE loc[w]
      BY <1>0, <1>1, <1>2
    <2>. QED BY <1>0, <1>1, <1>6, <2>1, <2>2, Dropped
  <1>9. AbsBox' = [AbsBox EXCEPT ![u] = Top]
    <2>1. AbsBox = [w \in Upval |-> IF closed[w] = None THEN None ELSE Deref(w)]
      BY <1>0, HeapView
    <2>2. AbsBox' = [w \in Upval |-> IF closed'[w] = None THEN None ELSE Deref(w)']
      BY <1>0 DEF AbsBox
    <2>3. closed'[u] # None /\ Deref(u)' = Top
      BY <1>0, <1>3, <1>4, <1>5, <1>6 DEF Deref
    <2>4. ASSUME NEW w \in Upval, w # u PROVE Deref(w)' = Deref(w) /\ closed'[w] = closed[w]
      <3>1. ASSUME loc[w] # 0 PROVE loc[w] # loc[u]
        <4>. SUFFICES ASSUME loc[w] = loc[u] PROVE FALSE OBVIOUS
        <4>1. loc[w] \in 1 .. Len(stack) BY <1>1, <1>3, <3>1
        <4>2. AbsSlots[loc[w]] = [box |-> w] /\ AbsSlots[loc[w]] = [box |-> u]
          BY ZenonT(60), <1>0, <4>1, ContentIs
        <4>. QED BY <2>4, <4>2
      <3>2. closed'[w] = closed[w] BY <1>6, <2>4
      <3>. QED BY <1>0, <1>3, <1>6, <3>1, <3>2 DEF Deref
    <2>. QED BY <2>1, <2>2, <2>3, <2>4
  <1>10. AbsEnv' = AbsEnv /\ AbsFrames' = AbsFrames BY <1>0, EnvKept, FramesKept
  <1>11. AbsFrames # <<>> /\ u \in AbsEnv[Box!Current.clo]
    BY <1>0, CurrentIs, HeapView
  <1>12. Box!AssignBox(u)
    BY <1>7, <1>8, <1>9, <1>10, <1>11 DEF Box!AssignBox, Box!Upto
  <1>. QED BY <1>12 DEF Box!Next
----------------------------------------------------------------------------
(* A new closure is pushed with no captures.                               *)
LEMMA ClosureBox ==
  ASSUME MInv, MInv', NEW c \in Clo, Closure(c)
  PROVE  Box!Next
  <1>0. /\ TypeOK /\ pc = "run" /\ pc' = "capture" /\ TypeOK' /\ pc # "error" /\ pc' # "error"
        /\ ups[c] = Unallocated /\ ups' = [ups EXCEPT ![c] = {}]
        /\ stack' = Append(stack, c) /\ UNCHANGED <<frames, loc, closed>>
    BY DEF MInv, Closure
  <1>1. c \in Value BY DEF Value
  <1>2. /\ AbsSlots' = Append(AbsSlots, [val |-> c])
        /\ AbsBox' = AbsBox /\ AbsFrames' = AbsFrames
    BY <1>0, <1>1, Pushed
  <1>3. AbsEnv = ups /\ AbsEnv' = ups' BY <1>0, HeapView, EnvNext
  <1>4. Box!NewClosure(c)
    BY <1>0, <1>2, <1>3 DEF Box!NewClosure, Box!Unallocated, Unallocated
  <1>. QED BY <1>4 DEF Box!Next

(* A variable moves to a new box as a new upvalue is opened on it.         *)
LEMMA CaptureLocalBox ==
  ASSUME MInv, MInv', NEW u \in Upval, NEW i \in 1 .. MaxStack, CaptureLocal(i, u)
  PROVE  Box!Next
  <1>0. /\ TypeOK /\ OpenSorted /\ UpvalInv /\ StackInv /\ Alive
        /\ pc = "capture" /\ pc' = "capture" /\ TypeOK' /\ pc # "error" /\ pc' # "error"
        /\ IsVariable(i) /\ CaptureUpval(i, u) /\ ups' = [ups EXCEPT ![Top] = @ \cup {u}]
        /\ UNCHANGED <<stack, frames>> /\ SlotsView /\ SlotsView'
    BY Viewed, ViewedNext DEF MInv, Alive, CaptureLocal, View
  <1>1. i \in 1 .. Len(stack) /\ Top \in Clo
    BY <1>0 DEF IsVariable, StackInv, PhaseInv
  <1>2. AbsEnv' = [AbsEnv EXCEPT ![Top] = @ \cup {u}] BY <1>0, HeapView, EnvNext
  <1>3. AbsFrames' = AbsFrames BY <1>0, FramesKept
  <1>4. \/ UNCHANGED <<open, loc, closed>> /\ loc[u] = i
        \/ /\ loc[u] = 0 /\ closed[u] = None /\ \A v \in Upval : loc[v] # i
           /\ loc' = [loc EXCEPT ![u] = i] /\ closed' = [closed EXCEPT ![u] = Nil]
    BY <1>0, MachineAssumption, Capturing
  <1>5. /\ AbsSlots \in Seq(Slot) /\ Len(AbsSlots) = Len(stack)
        /\ AbsSlots' \in Seq(Slot) /\ Len(AbsSlots') = Len(stack)
        /\ \A j \in 1 .. Len(stack) : IsSlot(AbsSlots[j], j)
        /\ \A j \in 1 .. Len(stack) : IsSlot(AbsSlots[j], j)'
    BY <1>0 DEF SlotsView
  <1>6. ASSUME UNCHANGED <<open, loc, closed>>, loc[u] = i
        PROVE  Box!Capture(Top, i, u)
    <2>1. AbsSlots[i] = [box |-> u] /\ Box!InBox(AbsSlots[i])
      BY <1>0, <1>1, <1>6, ContentIs
    <2>2. AbsBox' = AbsBox BY <1>0, <1>6, BoxKept
    <2>3. \A j \in 1 .. Len(stack) : AbsSlots'[j] = AbsSlots[j] BY <1>0, <1>5, <1>6, Kept
    <2>4. AbsSlots' = AbsSlots BY <1>5, <2>3, SeqEqual
    <2>5. u = AbsSlots[i].box BY <2>1
    <2>. QED BY <1>2, <1>3, <2>1, <2>2, <2>4, <2>5 DEF Box!Capture
  <1>7. ASSUME loc[u] = 0, closed[u] = None, \A v \in Upval : loc[v] # i,
               loc' = [loc EXCEPT ![u] = i], closed' = [closed EXCEPT ![u] = Nil]
        PROVE  Box!Capture(Top, i, u)
    <2>1. AbsSlots[i] = [val |-> stack[i]] /\ ~Box!InBox(AbsSlots[i])
      BY <1>0, <1>1, <1>7, ContentIs
    <2>2. AbsBox[u] = None BY <1>0, <1>7, HeapView
    <2>3. loc'[u] = i /\ \A w \in Upval : w # u => loc'[w] = loc[w] /\ closed'[w] = closed[w]
      BY <1>0, <1>7 DEF TypeOK
    <2>4. AbsBox' = [AbsBox EXCEPT ![u] = stack[i]]
      <3>1. AbsBox = [w \in Upval |-> IF closed[w] = None THEN None ELSE Deref(w)]
        BY <1>0, HeapView
      <3>2. AbsBox' = [w \in Upval |-> IF closed'[w] = None THEN None ELSE Deref(w)']
        BY <1>0 DEF AbsBox
      <3>3. closed'[u] = Nil /\ Nil # None
        BY <1>0, <1>7, MachineAssumption DEF MachineAssumption, TypeOK, Value
      <3>4. Deref(u)' = stack[i] BY <1>0, <1>1, <2>3 DEF Deref
      <3>5. \A w \in Upval : w # u => Deref(w)' = Deref(w) BY <1>0, <2>3 DEF Deref
      <3>. QED BY <2>3, <3>1, <3>2, <3>3, <3>4, <3>5
    <2>5. AbsSlots' = [AbsSlots EXCEPT ![i] = [box |-> u]]
      <3>. DEFINE b == [box |-> u]
                  t == [AbsSlots EXCEPT ![i] = b]
      <3>1. b \in Slot BY DEF Slot, Box!Boxed
      <3>. HIDE DEF b
      <3>2. /\ t \in Seq(Slot) /\ Len(t) = Len(stack)
            /\ \A j \in 1 .. Len(stack) : t[j] = IF j = i THEN b ELSE AbsSlots[j]
        <4>1. /\ t \in Seq(Slot) /\ Len(t) = Len(AbsSlots)
              /\ \A j \in 1 .. Len(AbsSlots) : t[j] = IF j = i THEN b ELSE AbsSlots[j]
          BY <1>1, <1>5, <3>1, ExceptSeq
        <4>. QED BY <1>5, <4>1
      <3>3. ASSUME NEW j \in 1 .. Len(stack) PROVE AbsSlots'[j] = t[j]
        <4>1. CASE j = i
          <5>1. AbsSlots'[i] = [box |-> u] BY <1>1, <1>5, <2>3 DEF IsSlot
          <5>. QED BY <3>2, <4>1, <5>1 DEF b
        <4>2. CASE j # i
          <5>1. \A w \in Upval : loc'[w] = j <=> loc[w] = j
            <6>1. j # 0 BY <1>0, Heights
            <6>. QED BY <1>7, <2>3, <4>2, <6>1
          <5>2. AbsSlots'[j] = AbsSlots[j] BY <1>0, <1>5, <5>1, Kept
          <5>. QED BY <3>2, <4>2, <5>2
        <4>. QED BY <4>1, <4>2
      <3>. HIDE DEF t
      <3>4. AbsSlots' = t BY <1>5, <3>2, <3>3, SeqEqual
      <3>. QED BY <3>4 DEF t, b
    <2>6. AbsSlots[i].val = stack[i] BY <2>1
    <2>. QED BY <1>2, <1>3, <2>1, <2>2, <2>4, <2>5, <2>6 DEF Box!Capture
  <1>8. Box!Capture(Top, i, u) BY <1>4, <1>6, <1>7
  <1>9. i \in DOMAIN AbsSlots BY <1>1, <1>5, LenProperties
  <1>. QED BY <1>1, <1>8, <1>9 DEF Box!Next

(* A box that the running closure has captured is shared.                  *)
LEMMA CaptureOuterBox ==
  ASSUME MInv, MInv', NEW u \in Upval, CaptureOuter(u)
  PROVE  Box!Next
  <1>0. /\ TypeOK /\ OpenSorted /\ StackInv /\ Alive
        /\ pc = "capture" /\ pc' = "capture" /\ TypeOK' /\ pc # "error" /\ pc' # "error"
        /\ ups' = [ups EXCEPT ![Top] = @ \cup {u}] /\ u \in ups[Frame.clo]
        /\ UNCHANGED <<stack, frames, temp, open, loc, closed, pc>> /\ SlotsView /\ SlotsView'
    BY Viewed, ViewedNext DEF MInv, Alive, CaptureOuter, View
  <1>1. Top \in Clo BY <1>0 DEF StackInv, PhaseInv
  <1>2. AbsEnv' = [AbsEnv EXCEPT ![Top] = @ \cup {u}] BY <1>0, HeapView, EnvNext
  <1>3. AbsFrames' = AbsFrames /\ AbsBox' = AbsBox BY <1>0, FramesKept, BoxKept
  <1>4. AbsSlots' = AbsSlots
    <2>1. /\ AbsSlots \in Seq(Slot) /\ Len(AbsSlots) = Len(stack)
          /\ AbsSlots' \in Seq(Slot) /\ Len(AbsSlots') = Len(stack)
          /\ \A j \in 1 .. Len(stack) : IsSlot(AbsSlots[j], j)
          /\ \A j \in 1 .. Len(stack) : IsSlot(AbsSlots[j], j)'
      BY <1>0 DEF SlotsView
    <2>2. \A j \in 1 .. Len(stack) : AbsSlots'[j] = AbsSlots[j] BY <1>0, <2>1, Kept
    <2>. QED BY <2>1, <2>2, SeqEqual
  <1>5. AbsFrames # <<>> /\ u \in AbsEnv[Box!Current.clo]
    BY <1>0, CurrentIs, HeapView
  <1>6. Box!Share(Top, u) BY <1>2, <1>3, <1>4, <1>5 DEF Box!Share
  <1>. QED BY <1>1, <1>6 DEF Box!Next

(* Marks, and the end of OP_CLOSURE, are nothing to Boxes; nor is a larger *)
(* vm->temp.                                                               *)
LEMMA QuietBox ==
  ASSUME MInv, MInv', CaptureEnd \/ CallStart \/ RetStart \/ Grow \/ UNCHANGED vars
  PROVE  UNCHANGED Box!bvars
  <1>0. /\ UNCHANGED <<stack, frames, temp, open, loc, closed, ups>>
        /\ \/ pc = "capture" /\ pc' = "run"
           \/ pc' = pc
    BY DEF CaptureEnd, CallStart, RetStart, Grow, vars, heap, marks
  <1>1. AbsSlots' = AbsSlots
    <2>1. CASE pc' = pc
      BY <1>0, <2>1 DEF AbsSlots, Slots, Results, OpenAt, Left, Frame, Last
    <2>2. CASE pc = "capture" /\ pc' = "run"
      BY <1>0, <2>2 DEF AbsSlots, Slots, Results, OpenAt
    <2>. QED BY <1>0, <2>1, <2>2
  <1>2. AbsFrames' = AbsFrames
    <2>1. CASE pc' = pc BY <1>0, <2>1 DEF AbsFrames
    <2>2. CASE pc = "capture" /\ pc' = "run" BY <1>0, <2>2 DEF AbsFrames
    <2>. QED BY <1>0, <2>1, <2>2
  <1>3. AbsEnv' = AbsEnv BY <1>0 DEF AbsEnv
  <1>4. AbsBox' = AbsBox BY <1>0 DEF AbsBox, Deref
  <1>. QED BY <1>1, <1>2, <1>3, <1>4 DEF Box!bvars
----------------------------------------------------------------------------
(* OP_CALL: the callee and its arguments stay where they are.              *)
LEMMA CallBox ==
  ASSUME MInv, MInv', NEW w \in Wants, Call(w)
  PROVE  Box!Next
  <1>0. /\ TypeOK /\ StackInv /\ pc = "run" /\ pc' = "run" /\ TypeOK' /\ pc # "error"
        /\ Calling /\ Callee \in Clo
        /\ frames' = Append(frames,
                       [base |-> Len(stack) - Argc, retcnt |-> w, clo |-> Callee])
        /\ UNCHANGED <<stack, temp, open, loc, closed, ups, pc>>
        /\ SlotsView /\ FramesView /\ FramesView'
    BY Viewed, ViewedNext DEF MInv, Alive, Call, heap, View
  <1>. DEFINE at == Last(callstart)
  <1>1. at \in 1 .. Len(stack) /\ Argc \in 0 .. Len(stack) - 1 /\ Len(stack) - Argc = at
    <2>1. /\ at = callstart[Len(callstart)] /\ Len(callstart) \in 1 .. Len(callstart)
          /\ at \in Nat /\ Len(stack) \in Nat
      BY <1>0, TopFacts, Heights
    <2>2. 1 <= at /\ at <= Len(stack) BY <1>0, <2>1 DEF StackInv, MarksInv, Held
    <2>. HIDE DEF at
    <2>3. Argc = Len(stack) - at BY DEF Argc, at
    <2>. QED BY <2>1, <2>2, <2>3
  <1>2. Len(AbsSlots) = Len(stack) BY <1>0 DEF SlotsView
  <1>3. Box!Content(AbsSlots[Len(AbsSlots) - Argc]) = Callee
    BY <1>0, <1>1, <1>2, ContentIs DEF Callee
  <1>4. UNCHANGED <<AbsSlots, AbsEnv, AbsBox>>
    BY <1>0 DEF AbsSlots, Slots, Results, OpenAt, AbsEnv, AbsBox, Deref
  <1>5. AbsFrames' = Append(AbsFrames, [base |-> Len(AbsSlots) - Argc, want |-> w, clo |-> Callee])
    <2>. DEFINE f == [base |-> Len(stack) - Argc, retcnt |-> w, clo |-> Callee]
                g == [base |-> Len(stack) - Argc, want |-> w, clo |-> Callee]
                t == Append(AbsFrames, g)
    <2>1. at \in 0 .. MaxStack BY <1>0, TopFacts
    <2>2. w \in Nat BY MachineAssumption DEF MachineAssumption
    <2>3. g \in AbsFrame BY <1>0, <1>1, <2>1, <2>2 DEF AbsFrame
    <2>4. f \in [base : 0..MaxStack, retcnt : Nat, clo : Clo] BY <1>0, <1>1, <2>1, <2>2
    <2>5. frames' = Append(frames, f) BY <1>0
    <2>6. g = [base |-> f.base, want |-> f.retcnt, clo |-> f.clo] OBVIOUS
    <2>. HIDE DEF f, g
    <2>7. /\ Len(frames') = Len(frames) + 1 /\ frames'[Len(frames) + 1] = f
          /\ \A k \in 1 .. Len(frames) : frames'[k] = frames[k]
      BY <1>0, <2>4, <2>5, AppendProperties DEF TypeOK
    <2>8. /\ AbsFrames \in Seq(AbsFrame) /\ Len(AbsFrames) = Len(frames)
          /\ Len(frames) \in Nat
          /\ \A k \in 1 .. Len(frames) :
               AbsFrames[k] = [base |-> frames[k].base, want |-> frames[k].retcnt,
                               clo |-> frames[k].clo]
      BY <1>0, Heights DEF FramesView
    <2>9. /\ AbsFrames' \in Seq(AbsFrame) /\ Len(AbsFrames') = Len(frames) + 1
          /\ \A k \in 1 .. Len(frames) + 1 :
               AbsFrames'[k] = [base |-> frames'[k].base, want |-> frames'[k].retcnt,
                                clo |-> frames'[k].clo]
      BY <1>0, <2>7 DEF FramesView
    <2>10. /\ t \in Seq(AbsFrame) /\ Len(t) = Len(frames) + 1 /\ t[Len(frames) + 1] = g
           /\ \A k \in 1 .. Len(frames) : t[k] = AbsFrames[k]
      BY <2>3, <2>8, AppendProperties
    <2>. HIDE DEF t
    <2>11. ASSUME NEW k \in 1 .. Len(frames) PROVE AbsFrames'[k] = t[k]
      <3>1. k \in 1 .. Len(frames) + 1 BY <2>8
      <3>. QED BY <2>7, <2>8, <2>9, <2>10, <3>1
    <2>12. AbsFrames'[Len(frames) + 1] = t[Len(frames) + 1]
      <3>1. Len(frames) + 1 \in 1 .. Len(frames) + 1 BY <2>8
      <3>. QED BY <2>6, <2>7, <2>9, <2>10, <3>1
    <2>13. \A j \in 1 .. 1 : AbsFrames'[Len(frames) + j] = t[Len(frames) + j] BY <2>12
    <2>14. AbsFrames' = t BY <2>8, <2>9, <2>10, <2>11, <2>13, TwoParts
    <2>. QED BY <1>2, <2>14 DEF t, g
  <1>6. Box!Enter(Callee, Argc, w) BY <1>3, <1>4, <1>5 DEF Box!Enter
  <1>7. Argc \in 0 .. (Len(AbsSlots) - 1) BY <1>1, <1>2
  <1>. QED BY <1>0, <1>6, <1>7 DEF Box!Next

(* A run-time error.                                                       *)
LEMMA RunErrorBox ==
  ASSUME MInv, MInv', RunError
  PROVE  Box!Next
  <1>0. pc' = "error" /\ ~Alive' /\ SlotsView' /\ FramesView'
    BY ViewedNext DEF RunError, Alive, View
  <1>1. AbsSlots' = <<>> BY <1>0 DEF SlotsView
  <1>2. AbsFrames' = <<>>
    <2>1. AbsFrames' \in Seq(AbsFrame) /\ Len(AbsFrames') = 0 BY <1>0 DEF FramesView
    <2>. QED BY <2>1, EmptySeq
  <1>3. AbsBox' = [u \in Upval |-> None] BY <1>0 DEF AbsBox
  <1>4. AbsEnv' = [c \in Clo |-> Box!Unallocated]
    BY <1>0 DEF AbsEnv, Unallocated, Box!Unallocated
  <1>5. Box!Abort BY <1>1, <1>2, <1>3, <1>4 DEF Box!Abort
  <1>. QED BY <1>5 DEF Box!Next
----------------------------------------------------------------------------
(* OP_RET: from here on the mapped state is that of the caller, with the   *)
(* results it wants.                                                       *)
LEMMA RetBox ==
  ASSUME MInv, MInv', Ret
  PROVE  Box!Next
  <1>. DEFINE r    == Last(retstart)
              got  == Len(stack) - r
              want == IF Frame.retcnt = 0 THEN got ELSE Frame.retcnt
              val(i) == IF i <= got THEN stack[r + i] ELSE Nil
              vs   == [i \in 1 .. want |-> val(i)]
  <1>0. /\ TypeOK /\ StackInv /\ Alive /\ pc = "run" /\ pc' = "save" /\ TypeOK'
        /\ pc # "error" /\ pc' # "error"
        /\ Returning /\ ~Calling /\ got > 0
        /\ stack' = SubSeq(stack, 1, r) \o vs
        /\ frames' = [frames EXCEPT ![Len(frames)].retcnt = want]
        /\ UNCHANGED <<temp, open, loc, closed, ups>>
        /\ SlotsView /\ SlotsView' /\ FramesView /\ FramesView'
    BY Viewed, ViewedNext DEF MInv, Alive, Ret, heap, View
  <1>1. /\ r \in Nat /\ r >= Frame.base /\ r <= Len(stack) /\ Len(stack) \in Nat
        /\ got \in 1 .. Len(stack) /\ want \in Nat /\ Frame.base \in Nat
        /\ \A i \in 1 .. got : r + i \in 1 .. Len(stack)
    <2>1. r = retstart[Len(retstart)] /\ Len(retstart) \in 1 .. Len(retstart)
      BY <1>0, TopFacts
    <2>2. r <= Len(stack) BY <1>0, <2>1 DEF StackInv, Held
    <2>3. r \in Nat /\ Len(stack) \in Nat /\ Frame.base \in 0 .. MaxStack /\ r >= Frame.base
      BY <1>0, <2>1, TopFacts, Heights DEF Returning
    <2>4. Frame.retcnt \in Nat /\ MaxStack \in Nat BY <1>0, TopFacts, Heights
    <2>5. got > 0 BY <1>0
    <2>. HIDE DEF r
    <2>6. got \in 1 .. Len(stack) BY <2>2, <2>3, <2>5
    <2>. QED BY <2>2, <2>3, <2>4, <2>6
  <1>2. /\ Len(stack') = r + want /\ \A i \in 1 .. r : stack'[i] = stack[i]
        /\ \A j \in 1 .. want : stack'[r + j] = val(j)
    <2>. DEFINE p == SubSeq(stack, 1, r)
    <2>1. p \in Seq(Value) /\ Len(p) = r /\ \A i \in 1 .. r : p[i] = stack[i]
      <3>1. stack \in Seq(Value) /\ r \in 0 .. Len(stack) BY <1>0, <1>1 DEF TypeOK
      <3>. HIDE DEF r
      <3>. QED BY <3>1, Prefix
    <2>2. \A i \in 1 .. want : val(i) \in Value
      <3>1. Nil \in Value BY MachineAssumption DEF MachineAssumption, Value
      <3>2. \A i \in 1 .. Len(stack) : stack[i] \in Value BY <1>0, Heights
      <3>. HIDE DEF r, got
      <3>3. ASSUME NEW i \in 1 .. want PROVE val(i) \in Value
        <4>1. i <= got => i \in 1 .. got BY <1>1
        <4>. QED BY <1>1, <3>1, <3>2, <4>1
      <3>. QED BY <3>3
    <2>3. stack' = p \o vs BY <1>0
    <2>. HIDE DEF p, r, got, want, val
    <2>4. vs \in [1 .. want -> Value] /\ \A j \in 1 .. want : vs[j] = val(j) BY <2>2
    <2>. HIDE DEF vs
    <2>5. vs \in Seq(Value) /\ Len(vs) = want BY <1>1, <2>4, FunctionSeq
    <2>6. p \in Seq(Value) /\ vs \in Seq(Value) BY <2>1, <2>5
    <2>7. /\ Len(p \o vs) = Len(p) + Len(vs)
          /\ \A i \in 1 .. Len(p) : (p \o vs)[i] = p[i]
          /\ \A j \in 1 .. Len(vs) : (p \o vs)[Len(p) + j] = vs[j]
      BY <2>6, Joined
    <2>. QED BY <2>1, <2>3, <2>4, <2>5, <2>7
  <1>3. /\ Len(frames) \in Nat \ {0} /\ Len(frames') = Len(frames)
        /\ \A k \in 1 .. Len(frames) - 1 : frames'[k] = frames[k]
        /\ Frame'.base = Frame.base /\ Frame'.retcnt = want
    <2>1. /\ Len(frames) \in 1 .. Len(frames) /\ frames[Len(frames)] = Frame
          /\ Len(frames) \in Nat \ {0}
      BY <1>0, TopFacts
    <2>. DEFINE f == [Frame EXCEPT !.retcnt = want]
    <2>2. frames' = [frames EXCEPT ![Len(frames)] = f] BY <1>0, <2>1
    <2>3. Frame \in [base : 0..MaxStack, retcnt : Nat, clo : Clo] BY <1>0, <2>1, Heights
    <2>4. want \in Nat BY <1>1
    <2>. HIDE DEF want
    <2>5. f \in [base : 0..MaxStack, retcnt : Nat, clo : Clo] /\ f.base = Frame.base
          /\ f.retcnt = want
      BY <2>3, <2>4
    <2>. HIDE DEF f
    <2>6. frames \in Seq([base : 0..MaxStack, retcnt : Nat, clo : Clo]) BY <1>0 DEF TypeOK
    <2>7. /\ Len(frames') = Len(frames)
          /\ \A k \in 1 .. Len(frames) : frames'[k] = IF k = Len(frames) THEN f ELSE frames[k]
      BY <2>1, <2>2, <2>5, <2>6, ExceptSeq
    <2>8. Frame' = f BY <2>1, <2>7 DEF Frame, Last
    <2>9. \A k \in 1 .. Len(frames) - 1 : k \in 1 .. Len(frames) /\ k # Len(frames)
      BY <2>1
    <2>. QED BY <2>1, <2>5, <2>7, <2>8, <2>9
  <1>4. temp' = <<>> /\ Left' = want /\ Len(stack') - Left' = r
    <2>1. temp' = <<>> /\ Len(temp') = 0 BY <1>0, EmptySeq DEF StackInv, PhaseInv
    <2>. HIDE DEF r, want
    <2>2. Left' = want BY <1>1, <1>3, <2>1 DEF Left
    <2>. QED BY <1>1, <1>2, <2>1, <2>2
  <1>5. /\ Len(AbsSlots) = Len(stack) /\ AbsSlots \in Seq(Slot)
        /\ \A i \in 1 .. Len(stack) : IsSlot(AbsSlots[i], i)
    BY <1>0 DEF SlotsView
  <1>. DEFINE res == [i \in 1 .. got |-> Box!Content(AbsSlots[Len(AbsSlots) - got + i])]
              del == Box!Deliver(res, Box!Current.want)
  <1>6. /\ AbsFrames # <<>> /\ Len(AbsFrames) = Len(frames) /\ AbsFrames \in Seq(AbsFrame)
        /\ Box!Current.base = Frame.base /\ Box!Current.want = Frame.retcnt
    BY <1>0, CurrentIs
  <1>7. del = vs
    <2>1. \A i \in 1 .. got : res[i] = stack[r + i]
      <3>. SUFFICES ASSUME NEW i \in 1 .. got PROVE res[i] = stack[r + i] OBVIOUS
      <3>1. Len(AbsSlots) - got + i = r + i BY <1>1, <1>5
      <3>2. Box!Content(AbsSlots[r + i]) = stack[r + i] BY <1>0, <1>1, ContentIs
      <3>. HIDE DEF r, got
      <3>. QED BY <3>1, <3>2
    <2>2. res = [i \in 1 .. got |-> stack[r + i]]
      <3>. HIDE DEF r, got
      <3>. QED BY <2>1
    <2>3. got \in Nat /\ Len(res) = got
      <3>0. got \in Nat BY <1>1
      <3>1. \A i \in 1 .. got : stack[r + i] \in Value
        <4>1. \A i \in 1 .. Len(stack) : stack[i] \in Value BY <1>0, Heights
        <4>. HIDE DEF r, got
        <4>. QED BY <1>1, <4>1
      <3>. HIDE DEF r, got
      <3>2. res \in [1 .. got -> Value] BY <2>2, <3>1
      <3>. HIDE DEF res
      <3>. QED BY <3>0, <3>2, FunctionSeq
    <2>. HIDE DEF r, got, res
    <2>4. CASE Frame.retcnt = 0
      <3>1. del = res BY <1>6, <2>4 DEF Box!Deliver
      <3>2. vs = [i \in 1 .. got |-> stack[r + i]] BY <2>3, <2>4
      <3>. QED BY <2>2, <3>1, <3>2
    <2>5. CASE Frame.retcnt # 0
      <3>1. del = [i \in 1 .. Frame.retcnt |-> IF i <= got THEN res[i] ELSE Nil]
        BY <1>6, <2>3, <2>5 DEF Box!Deliver
      <3>2. vs = [i \in 1 .. Frame.retcnt |-> IF i <= got THEN stack[r + i] ELSE Nil]
        BY <2>5
      <3>3. \A i \in 1 .. Frame.retcnt : i <= got => res[i] = stack[r + i]
        <4>1. Frame.retcnt \in Nat BY <1>0, TopFacts
        <4>2. \A i \in 1 .. Frame.retcnt : i <= got => i \in 1 .. got BY <2>3, <4>1
        <4>. QED BY <2>1, <4>2
      <3>. QED BY <3>1, <3>2, <3>3
    <2>. QED BY <2>4, <2>5
  <1>8. AbsFrames' = SubSeq(AbsFrames, 1, Len(AbsFrames) - 1)
    <2>. DEFINE t == SubSeq(AbsFrames, 1, Len(AbsFrames) - 1)
    <2>1. /\ t \in Seq(AbsFrame) /\ Len(t) = Len(frames) - 1
          /\ \A k \in 1 .. Len(frames) - 1 : t[k] = AbsFrames[k]
      <3>1. Len(AbsFrames) - 1 \in 0 .. Len(AbsFrames) BY <1>3, <1>6
      <3>. QED BY <1>6, <3>1, Prefix
    <2>. HIDE DEF t
    <2>2. /\ AbsFrames' \in Seq(AbsFrame) /\ Len(AbsFrames') = Len(frames) - 1
          /\ \A k \in 1 .. Len(frames) - 1 :
               AbsFrames'[k] = [base |-> frames'[k].base, want |-> frames'[k].retcnt,
                                clo |-> frames'[k].clo]
      BY <1>0, <1>3 DEF FramesView
    <2>3. \A k \in 1 .. Len(frames) - 1 :
            AbsFrames[k] = [base |-> frames[k].base, want |-> frames[k].retcnt,
                            clo |-> frames[k].clo]
      <3>1. \A k \in 1 .. Len(frames) - 1 : k \in 1 .. Len(AbsFrames) BY <1>3, <1>6
      <3>. QED BY <1>0, <3>1 DEF FramesView
    <2>4. \A k \in 1 .. Len(frames) - 1 : AbsFrames'[k] = t[k] BY <1>3, <2>1, <2>2, <2>3
    <2>5. AbsFrames' = t BY <2>1, <2>2, <2>4, SeqEqual
    <2>. QED BY <2>5 DEF t
  <1>9. AbsBox' = AbsBox /\ AbsEnv' = AbsEnv
    <2>1. \A u \in Upval : loc[u] # 0 => loc[u] \in 1 .. r
      <3>1. \A u \in Upval : loc[u] <= Len(stack') - Left'
        BY <1>0, ViewedNext DEF MInv, Alive, StackInv, PhaseInv
      <3>2. \A u \in Upval : loc[u] \in Nat BY <1>0, Heights
      <3>. HIDE DEF r
      <3>. QED BY <1>1, <1>4, <3>1, <3>2
    <2>. HIDE DEF r
    <2>2. \A u \in Upval : loc[u] # 0 => stack'[loc[u]] = stack[loc[u]] BY <1>2, <2>1
    <2>. QED BY <1>0, <2>2, BoxKept, EnvKept
  <1>10. AbsSlots' = IF Len(AbsFrames) = 1 THEN <<>>
                     ELSE SubSeq(AbsSlots, 1, Box!Current.base - 1) \o Box!Vals(del)
    <2>1. CASE Len(frames) = 1
      <3>1. Len(frames') = 1 BY <1>3, <2>1
      <3>2. AbsSlots' = <<>> BY <1>0, <3>1 DEF SlotsView
      <3>. QED BY <1>6, <2>1, <3>2
    <2>2. CASE Len(frames) # 1
      <3>0. Len(frames') # 1 BY <1>3, <2>2
      <3>1. /\ AbsSlots' \in Seq(Slot) /\ Len(AbsSlots') = Frame.base - 1 + want
            /\ \A i \in 1 .. Frame.base - 1 : IsSlot(AbsSlots[i], i)'
            /\ \A j \in 1 .. want :
                 AbsSlots'[Frame.base - 1 + j] =
                   [val |-> IF j <= Left' THEN stack'[Len(stack') - Left' + j]
                            ELSE temp'[want + 1 - j]]
        <4>1. SlotsView' /\ pc' = "save" /\ Frame'.base = Frame.base /\ Frame'.retcnt = want
          BY <1>0, <1>3
        <4>. HIDE DEF r, got, want
        <4>. QED BY <3>0, <4>1 DEF SlotsView
      <3>2. Frame.base - 1 \in 0 .. Len(AbsSlots) /\ Frame.base - 1 \in Nat
        <4>1. /\ frames[1].base = 0 /\ frames[1].base < Frame.base
          <5>1. 1 \in 1 .. Len(frames) /\ Len(frames) \in 1 .. Len(frames) /\ 1 < Len(frames)
            <6>0. \A n \in Nat \ {0} : n # 1 => n \in Nat /\ n > 1 OBVIOUS
            <6>1. Len(frames) \in Nat /\ Len(frames) > 1 BY <1>3, <2>2, <6>0
            <6>. QED BY <6>1
          <5>2. Frame = frames[Len(frames)] BY <1>0, TopFacts
          <5>. QED BY <1>0, <5>1, <5>2 DEF StackInv, FramesInv
        <4>. HIDE DEF r
        <4>. QED BY <1>1, <1>5, <4>1
      <3>. DEFINE a == SubSeq(AbsSlots, 1, Frame.base - 1)
                  b == Box!Vals(vs)
                  n == Frame.base - 1
      <3>3. /\ a \in Seq(Slot) /\ Len(a) = n
            /\ \A i \in 1 .. n : a[i] = AbsSlots[i]
        BY <1>5, <3>2, Prefix
      <3>4. /\ b \in Seq(Slot) /\ Len(b) = want
            /\ \A j \in 1 .. want : b[j] = [val |-> stack'[r + j]]
        <4>1. want \in Nat BY <1>1
        <4>2. \A j \in 1 .. want : vs[j] = stack'[r + j] BY <1>2
        <4>3. \A j \in 1 .. want : r + j \in 1 .. Len(stack')
          <5>. HIDE DEF r, want
          <5>. QED BY <1>1, <1>2
        <4>4. \A i \in 1 .. Len(stack') : stack'[i] \in Value
          BY <1>0, ElementOfSeq DEF TypeOK
        <4>5. DOMAIN vs = 1 .. want OBVIOUS
        <4>. HIDE DEF r, want, vs
        <4>6. b = [j \in 1 .. want |-> [val |-> vs[j]]] BY <4>5 DEF Box!Vals
        <4>7. b \in [1 .. want -> Slot]
          BY <4>2, <4>3, <4>4, <4>6 DEF Slot, Box!Plain, Box!Value, Value
        <4>8. \A j \in 1 .. want : b[j] = [val |-> stack'[r + j]] BY <4>2, <4>6
        <4>. HIDE DEF b
        <4>. QED BY <4>1, <4>7, <4>8, FunctionSeq
      <3>. HIDE DEF a, b
      <3>5. /\ a \o b \in Seq(Slot) /\ Len(a \o b) = Len(a) + Len(b)
            /\ \A i \in 1 .. Len(a) : (a \o b)[i] = a[i]
            /\ \A j \in 1 .. Len(b) : (a \o b)[Len(a) + j] = b[j]
        <4>1. a \in Seq(Slot) /\ b \in Seq(Slot) BY <3>3, <3>4
        <4>. QED BY <4>1, Joined
      <3>6. ASSUME NEW i \in 1 .. n PROVE AbsSlots'[i] = (a \o b)[i]
        <4>1. i \in 1 .. Len(stack) /\ i \in 1 .. r
          <5>. HIDE DEF r
          <5>. QED BY <1>1, <3>2
        <4>2. stack'[i] = stack[i] /\ \A u \in Upval : loc'[u] = i <=> loc[u] = i
          BY <1>0, <1>2, <4>1
        <4>3. AbsSlots'[i] = AbsSlots[i] BY <1>5, <3>1, <4>1, <4>2, Kept
        <4>. QED BY <3>3, <3>5, <4>3
      <3>7. ASSUME NEW j \in 1 .. want PROVE AbsSlots'[n + j] = (a \o b)[n + j]
        <4>1. j <= Left' BY <1>1, <1>4
        <4>2. AbsSlots'[n + j] = [val |-> stack'[r + j]] BY <1>4, <3>1, <4>1
        <4>. QED BY <3>3, <3>4, <3>5, <4>2
      <3>8. n \in Nat /\ want \in Nat /\ Len(AbsSlots') = n + want /\ Len(a \o b) = n + want
        BY <1>1, <3>1, <3>2, <3>3, <3>4, <3>5
      <3>. DEFINE ab == a \o b
      <3>9. ab \in Seq(Slot) /\ AbsSlots' \in Seq(Slot) /\ Len(ab) = n + want
        BY <3>1, <3>5, <3>8
      <3>. HIDE DEF n, want, r
      <3>10. /\ \A i \in 1 .. n : AbsSlots'[i] = ab[i]
             /\ \A j \in 1 .. want : AbsSlots'[n + j] = ab[n + j]
        BY <3>6, <3>7
      <3>. HIDE DEF ab
      <3>11. AbsSlots' = ab BY <3>8, <3>9, <3>10, TwoParts
      <3>. QED BY <1>6, <1>7, <2>2, <3>11 DEF ab, a, b
    <2>. QED BY <2>1, <2>2
  <1>11. Box!Leave(got)
    <2>. HIDE DEF got
    <2>. QED BY <1>6, <1>8, <1>9, <1>10 DEF Box!Leave, Box!Upto
  <1>12. got \in 0 .. Len(AbsSlots)
    <2>. HIDE DEF got
    <2>. QED BY <1>1, <1>5
  <1>. HIDE DEF got
  <1>. QED BY <1>11, <1>12 DEF Box!Next

(* The frame while OP_RET runs.                                            *)
LEMMA SaveFacts ==
  ASSUME MInv, pc = "save"
  PROVE  /\ Len(frames) \in Nat \ {0} /\ Frame.base \in Nat /\ Frame.retcnt \in Nat
         /\ Len(stack) \in Nat /\ Len(temp) \in Nat /\ Left \in Nat
         /\ Left = Frame.retcnt - Len(temp) /\ Frame.base <= Len(stack) - Left
         /\ \A u \in Upval : loc[u] \in Nat /\ loc[u] <= Len(stack) - Left
         /\ Len(frames) # 1 => Frame.base >= 1
  <1>0. TypeOK /\ StackInv BY DEF MInv, Alive
  <1>1. /\ Len(frames) \in Nat \ {0} /\ Frame = frames[Len(frames)]
        /\ Frame.base \in 0 .. MaxStack /\ Frame.retcnt \in Nat
    BY <1>0, TopFacts
  <1>2. /\ Len(stack) \in Nat /\ Len(temp) \in Nat /\ MaxStack \in Nat
        /\ \A u \in Upval : loc[u] \in Nat
    BY <1>0, Heights
  <1>3. /\ Len(temp) <= Frame.retcnt /\ Frame.base <= Len(stack) - Left
        /\ \A u \in Upval : loc[u] <= Len(stack) - Left
    BY <1>0 DEF StackInv, PhaseInv
  <1>4. Left = Frame.retcnt - Len(temp) BY DEF Left
  <1>5. ASSUME Len(frames) # 1 PROVE Frame.base >= 1
    <2>0. \A n \in Nat \ {0} : n # 1 => 1 \in 1 .. n /\ n \in 1 .. n /\ 1 < n OBVIOUS
    <2>1. 1 \in 1 .. Len(frames) /\ Len(frames) \in 1 .. Len(frames) /\ 1 < Len(frames)
      BY <1>1, <1>5, <2>0
    <2>2. frames[1].base = 0 /\ frames[1].base < Frame.base
      BY <1>0, <1>1, <2>1 DEF StackInv, FramesInv
    <2>. QED BY <1>1, <1>2, <2>2
  <1>6. Frame.base \in Nat /\ Left \in Nat BY <1>1, <1>2, <1>3, <1>4
  <1>. QED BY <1>1, <1>2, <1>3, <1>4, <1>5, <1>6

(* Nor does it matter to Boxes where a result waits.                       *)
LEMMA SaveBox ==
  ASSUME MInv, MInv', Save
  PROVE  UNCHANGED Box!bvars
  <1>0. /\ TypeOK /\ Alive /\ TypeOK' /\ pc = "save" /\ pc' = "save"
        /\ pc # "error" /\ pc' # "error"
        /\ Left > 0 /\ temp' = Append(temp, Top) /\ stack' = Popn(1)
        /\ UNCHANGED <<frames, open, loc, closed, ups, pc>>
        /\ SlotsView /\ SlotsView'
    BY Viewed, ViewedNext DEF MInv, Alive, Save, heap, View
  <1>1. /\ Frame.base \in Nat /\ Frame.retcnt \in Nat /\ Len(stack) \in Nat
        /\ Len(temp) \in Nat /\ Left \in Nat
        /\ Left = Frame.retcnt - Len(temp) /\ Frame.base <= Len(stack) - Left
        /\ \A u \in Upval : loc[u] \in Nat /\ loc[u] <= Len(stack) - Left
        /\ Len(frames) # 1 => Frame.base >= 1
    BY <1>0, SaveFacts
  <1>2. Left \in 1 .. Len(stack) /\ 1 \in 0 .. Len(stack) BY <1>0, <1>1
  <1>3. /\ Len(stack') = Len(stack) - 1
        /\ \A i \in 1 .. Len(stack) - 1 : stack'[i] = stack[i]
    BY <1>0, <1>2, PopnFacts DEF TypeOK
  <1>4. /\ Len(temp') = Len(temp) + 1 /\ temp'[Len(temp) + 1] = stack[Len(stack)]
        /\ \A i \in 1 .. Len(temp) : temp'[i] = temp[i]
    BY <1>0, AppendProperties DEF TypeOK, Top, Last
  <1>5. Frame' = Frame /\ Left' = Left - 1 /\ Len(stack') - Left' = Len(stack) - Left
    <2>1. Frame' = Frame BY <1>0 DEF Frame, Last
    <2>2. Left' = Frame.retcnt - (Len(temp) + 1) BY <1>4, <2>1 DEF Left
    <2>3. Left' = Left - 1 BY SMTT(60), <1>1, <2>2
    <2>. QED BY <1>1, <1>3, <2>1, <2>3
  <1>6. AbsSlots' = AbsSlots
    <2>1. CASE Len(frames) = 1
      <3>1. AbsSlots = <<>> /\ AbsSlots' = <<>> BY <1>0, <2>1 DEF SlotsView
      <3>. QED BY <3>1
    <2>2. CASE Len(frames) # 1
      <3>. DEFINE n == Frame.base - 1
                  m == Frame.retcnt
      <3>1. /\ AbsSlots \in Seq(Slot) /\ Len(AbsSlots) = n + m
            /\ \A i \in 1 .. n : IsSlot(AbsSlots[i], i)
            /\ \A j \in 1 .. m : AbsSlots[n + j] =
                 [val |-> IF j <= Left THEN stack[Len(stack) - Left + j] ELSE temp[m + 1 - j]]
        BY <1>0, <2>2 DEF SlotsView
      <3>2. /\ AbsSlots' \in Seq(Slot) /\ Len(AbsSlots') = n + m
            /\ \A i \in 1 .. n : IsSlot(AbsSlots[i], i)'
            /\ \A j \in 1 .. m : AbsSlots'[n + j] =
                 [val |-> IF j <= Left - 1 THEN stack'[Len(stack) - Left + j]
                          ELSE temp'[m + 1 - j]]
        <4>1. SlotsView' /\ pc' = "save" /\ Len(frames') # 1 /\ Frame' = Frame
              /\ Left' = Left - 1 /\ Len(stack') - Left' = Len(stack) - Left
          BY <1>0, <1>5, <2>2
        <4>. QED BY <4>1 DEF SlotsView
      <3>3. n \in Nat /\ m \in Nat BY <1>1, <2>2
      <3>4. ASSUME NEW i \in 1 .. n PROVE AbsSlots'[i] = AbsSlots[i]
        <4>1. i \in 1 .. Len(stack) - 1 BY <1>1, <1>2, <3>3
        <4>. QED BY <1>0, <1>3, <3>1, <3>2, <4>1, Kept
      <3>5. ASSUME NEW j \in 1 .. m PROVE AbsSlots'[n + j] = AbsSlots[n + j]
        <4>1. CASE j <= Left - 1
          <5>1. j <= Left /\ Len(stack) - Left + j \in 1 .. Len(stack) - 1
            BY SMTT(60), <1>1, <1>2, <4>1
          <5>. QED BY <1>3, <3>1, <3>2, <4>1, <5>1
        <4>2. CASE j = Left
          <5>1. Left \in Nat /\ Len(stack) \in Nat /\ Len(temp) \in Nat BY <1>1
          <5>2. Frame.retcnt = Left + Len(temp) BY <1>1
          <5>3. Len(stack) - Left + Left = Len(stack) BY <5>1
          <5>4. Left + Len(temp) + 1 - Left = Len(temp) + 1 BY <5>1
          <5>5. Left <= Left /\ ~(Left <= Left - 1) BY <5>1
          <5>6. AbsSlots[n + j] = [val |-> stack[Len(stack)]]
            BY <3>1, <4>2, <5>3, <5>5
          <5>7. m + 1 - j = Len(temp) + 1 BY <4>2, <5>2, <5>4
          <5>8. AbsSlots'[n + j] = [val |-> temp'[m + 1 - j]] BY <3>2, <4>2, <5>5
          <5>. QED BY <1>4, <5>6, <5>7, <5>8
        <4>3. CASE j > Left
          <5>1. m + 1 - j \in 1 .. Len(temp) /\ ~(j <= Left) /\ ~(j <= Left - 1)
            BY SMTT(60), <1>1, <4>3
          <5>. QED BY <1>4, <3>1, <3>2, <5>1
        <4>4. j <= Left - 1 \/ j = Left \/ j > Left BY <1>1, <3>3
        <4>. QED BY <4>1, <4>2, <4>3, <4>4
      <3>. HIDE DEF n, m
      <3>. QED BY <3>1, <3>2, <3>3, <3>4, <3>5, TwoParts
    <2>. QED BY <2>1, <2>2
  <1>7. AbsFrames' = AbsFrames BY <1>0 DEF AbsFrames
  <1>8. AbsBox' = AbsBox
    <2>1. \A u \in Upval : loc[u] # 0 => stack'[loc[u]] = stack[loc[u]]
      <3>. SUFFICES ASSUME NEW u \in Upval, loc[u] # 0 PROVE stack'[loc[u]] = stack[loc[u]]
        OBVIOUS
      <3>1. loc[u] \in 1 .. Len(stack) - 1 BY <1>1, <1>2
      <3>. QED BY <1>3, <3>1
    <2>. QED BY <1>0, <2>1, BoxKept
  <1>9. AbsEnv' = AbsEnv BY <1>0, EnvKept
  <1>. QED BY <1>6, <1>7, <1>8, <1>9 DEF Box!bvars

(* The variables of the frame that returns leave the stack, those that are *)
(* captured for their upvalues.                                            *)
LEMMA LeaveBox ==
  ASSUME MInv, MInv', Leave
  PROVE  UNCHANGED Box!bvars
  <1>0. /\ TypeOK /\ OpenSorted /\ StackInv /\ Alive /\ TypeOK' /\ pc = "save"
        /\ pc # "error" /\ pc' # "error" /\ pc' # "save"
        /\ Left = 0 /\ CloseUpval(Frame.base) /\ frames' = Front(frames)
        /\ UNCHANGED <<temp, ups>>
        /\ SlotsView /\ SlotsView'
    BY Viewed, ViewedNext DEF MInv, Alive, Leave, View
  <1>1. /\ Len(frames) \in Nat \ {0} /\ Frame.base \in Nat /\ Frame.retcnt \in Nat
        /\ Len(stack) \in Nat /\ Len(temp) \in Nat
        /\ Left = Frame.retcnt - Len(temp) /\ Frame.base <= Len(stack) - Left
        /\ Len(frames) # 1 => Frame.base >= 1
    BY <1>0, SaveFacts
  <1>2. /\ Len(temp) = Frame.retcnt /\ Frame.base <= Len(stack) /\ stack \in Seq(Value)
        /\ Len(frames) # 1 => Frame.base - 1 \in 0 .. Len(stack)
    <2>1. stack \in Seq(Value) BY <1>0 DEF TypeOK
    <2>2. Left = 0 BY <1>0
    <2>3. Len(temp) = Frame.retcnt /\ Frame.base <= Len(stack) BY <1>1, <2>2
    <2>. QED BY <1>1, <2>1, <2>3
  <1>3. /\ \A u \in Upval : loc'[u] = IF loc[u] >= Frame.base THEN 0 ELSE loc[u]
        /\ \A u \in Upval : closed'[u] = IF loc[u] # 0 /\ loc[u] >= Frame.base
                                         THEN stack[loc[u]] ELSE closed[u]
    <2>1. \A u \in Upval : loc[u] <= Len(stack) BY <1>0 DEF StackInv, Held
    <2>. QED BY <1>0, <1>1, <2>1, Closing
  <1>4. \A u \in Upval : loc[u] \in Nat BY <1>0, Heights
  <1>5. AbsFrames' = AbsFrames BY <1>0 DEF AbsFrames
  <1>6. AbsEnv' = AbsEnv BY <1>0, EnvKept
  <1>7. \A i \in 1 .. Frame.base - 1 : stack'[i] = stack[i] \/ Len(frames) = 1
    <2>. SUFFICES ASSUME Len(frames) # 1
                  PROVE  \A i \in 1 .. Frame.base - 1 : stack'[i] = stack[i]
      OBVIOUS
    <2>1. stack' = SubSeq(stack, 1, Frame.base - 1) BY DEF Leave
    <2>. QED BY <1>2, <2>1, Prefix
  <1>8. AbsBox' = AbsBox
    <2>. SUFFICES ASSUME NEW u \in Upval
                  PROVE  \/ /\ loc'[u] = loc[u] /\ closed'[u] = closed[u]
                            /\ loc[u] # 0 => stack'[loc[u]] = stack[loc[u]]
                         \/ loc[u] # 0 /\ loc'[u] = 0 /\ closed'[u] = stack[loc[u]]
      BY <1>0, BoxKept
    <2>1. CASE loc[u] # 0 /\ loc[u] >= Frame.base BY <1>3, <2>1
    <2>2. CASE loc[u] = 0 BY <1>3, <2>2
    <2>3. CASE loc[u] # 0 /\ ~(loc[u] >= Frame.base)
      <3>1. loc[u] \in 1 .. Frame.base - 1 BY <1>1, <1>4, <2>3
      <3>2. Len(frames) # 1
        <4>1. frames[1].base = 0 /\ Frame = frames[Len(frames)]
          BY <1>0, TopFacts DEF StackInv, FramesInv
        <4>2. Frame.base # 0 BY <1>1, <3>1
        <4>. QED BY <4>1, <4>2
      <3>. QED BY <1>3, <1>7, <2>3, <3>1, <3>2
    <2>. QED BY <2>1, <2>2, <2>3
  <1>9. AbsSlots' = AbsSlots
    <2>1. CASE Len(frames) = 1
      <3>1. pc' = "done" /\ ~Alive' BY <2>1 DEF Leave, Alive
      <3>2. AbsSlots = <<>> /\ AbsSlots' = <<>> BY <1>0, <2>1, <3>1 DEF SlotsView
      <3>. QED BY <3>2
    <2>2. CASE Len(frames) # 1
      <3>. DEFINE n == Frame.base - 1
                  m == Frame.retcnt
      <3>0. pc' = "restore" /\ Len(stack') = n /\ Len(temp') = m
        <4>1. pc' = "restore" /\ stack' = SubSeq(stack, 1, n) BY <2>2 DEF Leave
        <4>2. n \in 0 .. Len(stack) /\ stack \in Seq(Value) BY <1>2, <2>2
        <4>. QED BY <1>0, <1>2, <4>1, <4>2, Prefix
      <3>1. /\ AbsSlots \in Seq(Slot) /\ Len(AbsSlots) = n + m
            /\ \A i \in 1 .. n : IsSlot(AbsSlots[i], i)
            /\ \A j \in 1 .. m : AbsSlots[n + j] =
                 [val |-> IF j <= Left THEN stack[Len(stack) - Left + j] ELSE temp[m + 1 - j]]
        BY <1>0, <2>2 DEF SlotsView
      <3>2. /\ AbsSlots' \in Seq(Slot) /\ Len(AbsSlots') = n + m
            /\ \A i \in 1 .. n : IsSlot(AbsSlots[i], i)'
            /\ \A j \in 1 .. m : AbsSlots'[n + j] = [val |-> temp[m + 1 - j]]
        <4>1. SlotsView' /\ temp' = temp BY <1>0
        <4>. HIDE DEF n, m
        <4>. QED BY <3>0, <4>1 DEF SlotsView
      <3>3. n \in Nat /\ m \in Nat BY <1>1, <2>2
      <3>4. ASSUME NEW i \in 1 .. n PROVE AbsSlots'[i] = AbsSlots[i]
        <4>1. \A u \in Upval : loc'[u] = i <=> loc[u] = i
          <5>1. i # 0 /\ i < Frame.base BY <1>1, <3>3
          <5>. QED BY <1>1, <1>3, <1>4, <5>1
        <4>2. stack'[i] = stack[i] BY <1>7, <2>2
        <4>. QED BY <3>1, <3>2, <4>1, <4>2, Kept
      <3>5. ASSUME NEW j \in 1 .. m PROVE AbsSlots'[n + j] = AbsSlots[n + j]
        <4>1. ~(j <= Left) BY <1>0, <3>3
        <4>. QED BY <3>1, <3>2, <4>1
      <3>. HIDE DEF n, m
      <3>. QED BY <3>1, <3>2, <3>3, <3>4, <3>5, TwoParts
    <2>. QED BY <2>1, <2>2
  <1>. QED BY <1>5, <1>6, <1>8, <1>9 DEF Box!bvars

(* The results are back on the stack, where they were all along.           *)
LEMMA RestoreBox ==
  ASSUME MInv, MInv', Restore
  PROVE  UNCHANGED Box!bvars
  <1>. DEFINE back == [i \in 1 .. Len(temp) |-> temp[Len(temp) + 1 - i]]
  <1>0. /\ TypeOK /\ StackInv /\ Alive /\ TypeOK' /\ pc = "restore" /\ pc' = "run"
        /\ pc # "error" /\ pc' # "error"
        /\ stack' = stack \o back
        /\ UNCHANGED <<frames, open, loc, closed, ups>>
        /\ SlotsView /\ SlotsView'
    BY Viewed, ViewedNext DEF MInv, Alive, Restore, heap, marks, View
  <1>1. /\ Len(stack) \in Nat /\ Len(temp) \in Nat
        /\ \A u \in Upval : loc[u] \in Nat /\ loc[u] <= Len(stack)
    BY <1>0, Heights DEF StackInv, Held
  <1>2. /\ Len(stack') = Len(stack) + Len(temp)
        /\ \A i \in 1 .. Len(stack) : stack'[i] = stack[i]
        /\ \A j \in 1 .. Len(temp) : stack'[Len(stack) + j] = temp[Len(temp) + 1 - j]
    <2>1. \A i \in 1 .. Len(temp) : temp[Len(temp) + 1 - i] \in Value
      <3>1. \A i \in 1 .. Len(temp) : Len(temp) + 1 - i \in 1 .. Len(temp) BY <1>1
      <3>. QED BY <1>0, <3>1, ElementOfSeq DEF TypeOK
    <2>2. back \in [1 .. Len(temp) -> Value] BY <2>1
    <2>3. \A j \in 1 .. Len(temp) : back[j] = temp[Len(temp) + 1 - j] OBVIOUS
    <2>4. stack' = stack \o back BY <1>0
    <2>. HIDE DEF back
    <2>5. Len(back) = Len(temp) /\ back \in Seq(Value) BY <1>1, <2>2, FunctionSeq
    <2>6. stack \in Seq(Value) /\ back \in Seq(Value) BY <1>0, <2>5 DEF TypeOK
    <2>7. /\ Len(stack \o back) = Len(stack) + Len(back)
          /\ \A i \in 1 .. Len(stack) : (stack \o back)[i] = stack[i]
          /\ \A j \in 1 .. Len(back) : (stack \o back)[Len(stack) + j] = back[j]
      BY <2>6, Joined
    <2>. QED BY <2>3, <2>4, <2>5, <2>7
  <1>. DEFINE n == Len(stack)
              m == Len(temp)
  <1>3. /\ AbsSlots \in Seq(Slot) /\ Len(AbsSlots) = n + m
        /\ \A i \in 1 .. n : IsSlot(AbsSlots[i], i)
        /\ \A j \in 1 .. m : AbsSlots[n + j] = [val |-> temp[m + 1 - j]]
    BY <1>0 DEF SlotsView
  <1>4. /\ AbsSlots' \in Seq(Slot) /\ Len(AbsSlots') = n + m
        /\ \A i \in 1 .. n + m : IsSlot(AbsSlots[i], i)'
    BY <1>0, <1>2 DEF SlotsView
  <1>5. ASSUME NEW i \in 1 .. n PROVE AbsSlots'[i] = AbsSlots[i]
    <2>1. i \in 1 .. n + m BY <1>1
    <2>. QED BY <1>0, <1>2, <1>3, <1>4, <2>1, Kept
  <1>6. ASSUME NEW j \in 1 .. m PROVE AbsSlots'[n + j] = AbsSlots[n + j]
    <2>1. n + j \in 1 .. n + m /\ \A u \in Upval : loc[u] # n + j BY <1>1
    <2>2. AbsSlots'[n + j] = [val |-> stack'[n + j]] BY <1>0, <1>4, <2>1 DEF IsSlot
    <2>. QED BY <1>2, <1>3, <2>2
  <1>7. n \in Nat /\ m \in Nat BY <1>1
  <1>8. AbsSlots' = AbsSlots
    <2>. HIDE DEF n, m
    <2>. QED BY <1>3, <1>4, <1>5, <1>6, <1>7, TwoParts
  <1>9. AbsFrames' = AbsFrames BY <1>0, FramesKept
  <1>10. AbsBox' = AbsBox
    <2>1. \A u \in Upval : loc[u] # 0 => stack'[loc[u]] = stack[loc[u]]
      <3>. SUFFICES ASSUME NEW u \in Upval, loc[u] # 0 PROVE stack'[loc[u]] = stack[loc[u]]
        OBVIOUS
      <3>1. loc[u] \in 1 .. Len(stack) BY <1>1
      <3>. QED BY <1>2, <3>1
    <2>. QED BY <1>0, <2>1, BoxKept
  <1>11. AbsEnv' = AbsEnv BY <1>0, EnvKept
  <1>. QED BY <1>8, <1>9, <1>10, <1>11 DEF Box!bvars
----------------------------------------------------------------------------
(* A collection forgets what nothing can name any more: the marked objects *)
(* hold whatever Boxes can name and are closed under what it can reach.    *)
LEMMA CollectBox ==
  ASSUME MInv, MInv', HeldInv, FewResults, Collect
  PROVE  Box!Next
  <1>. DEFINE S == Live \cup Data
  <1>0. /\ TypeOK /\ OpenSorted /\ UpvalInv /\ StackInv /\ Alive
        /\ pc # "error" /\ pc' # "error" /\ TypeOK' /\ pc' = pc
        /\ pc \in {"run", "capture", "save"}
        /\ ups' = [c \in Clo |-> IF c \in Live THEN ups[c] ELSE Unallocated]
        /\ closed' = [u \in Upval |-> IF u \in Live THEN closed[u] ELSE None]
        /\ UNCHANGED <<stack, frames, temp, open, loc, pc>>
        /\ SlotsView /\ FramesView
    BY Viewed DEF MInv, Alive, Collect, View
  <1>1. temp = <<>> /\ Len(temp) = 0 BY CollectTemp, EmptySeq
  <1>2. /\ DOMAIN stack = 1 .. Len(stack) /\ DOMAIN frames = 1 .. Len(frames)
        /\ Len(stack) \in Nat /\ \A i \in 1 .. Len(stack) : stack[i] \in Value
        /\ \A u \in Upval : loc[u] \in Nat /\ loc[u] <= Len(stack)
    BY <1>0, Heights, LenProperties DEF TypeOK, StackInv, Held
  <1>3. \A i \in 1 .. Len(stack) : stack[i] \in S
    <2>1. \A i \in 1 .. Len(stack) : stack[i] \in ToSet(stack) BY <1>2 DEF ToSet
    <2>. QED BY <1>2, <2>1, Marked DEF Roots, Value
  <1>4. \A u \in Upval : loc[u] # 0 => u \in Live /\ stack[loc[u]] \in S
    <2>1. \A u \in Upval : loc[u] # 0 => u \in ToSet(open) BY <1>0 DEF OpenSorted
    <2>2. \A u \in Upval : loc[u] # 0 => loc[u] \in 1 .. Len(stack) BY <1>2
    <2>. QED BY <1>3, <2>1, <2>2, Marked DEF Roots
  <1>5. AbsEnv = ups /\ AbsEnv' = ups' BY <1>0, HeapView, EnvNext
  <1>6. AbsBox = [u \in Upval |-> IF closed[u] = None THEN None ELSE Deref(u)]
    BY <1>0, HeapView
  <1>7. AbsBox' = [u \in Upval |-> IF closed'[u] = None THEN None ELSE Deref(u)']
    BY <1>0 DEF AbsBox
  <1>8. AbsSlots' = AbsSlots /\ AbsFrames' = AbsFrames
    BY <1>0 DEF AbsSlots, AbsFrames, Slots, Results, OpenAt, Left, Frame, Last
  <1>9. ASSUME NEW i \in DOMAIN AbsSlots
        PROVE  \/ ~Box!InBox(AbsSlots[i]) /\ AbsSlots[i].val \in S
               \/ \E u \in Upval : Box!InBox(AbsSlots[i]) /\ AbsSlots[i].box = u /\ loc[u] # 0
    <2>0. i \in 1 .. Len(AbsSlots) BY <1>0, LenProperties DEF SlotsView
    <2>1. ASSUME NEW x, AbsSlots[i] = [val |-> x], x \in S
          PROVE  ~Box!InBox(AbsSlots[i]) /\ AbsSlots[i].val \in S
      <3>1. DOMAIN [val |-> x] = {"val"} OBVIOUS
      <3>. QED BY <2>1, <3>1 DEF Box!InBox
    <2>2. ASSUME NEW u \in Upval, AbsSlots[i] = [box |-> u], loc[u] # 0
          PROVE  Box!InBox(AbsSlots[i]) /\ AbsSlots[i].box = u
      <3>1. DOMAIN [box |-> u] = {"box"} OBVIOUS
      <3>. QED BY <2>2, <3>1 DEF Box!InBox
    <2>3. ASSUME i \in 1 .. Len(stack), IsSlot(AbsSlots[i], i)
          PROVE  \/ \E x \in S : AbsSlots[i] = [val |-> x]
                 \/ \E u \in Upval : AbsSlots[i] = [box |-> u] /\ loc[u] # 0
      <3>1. i # 0 BY <1>2, <2>3
      <3>. QED BY <1>3, <2>3, <3>1 DEF IsSlot
    <2>4. \/ \E x \in S : AbsSlots[i] = [val |-> x]
          \/ \E u \in Upval : AbsSlots[i] = [box |-> u] /\ loc[u] # 0
      <3>1. CASE pc \in {"run", "capture"} BY <1>0, <2>0, <2>3, <3>1 DEF SlotsView
      <3>2. CASE pc = "save" /\ Len(frames) = 1
        <4>1. AbsSlots = <<>> BY <1>0, <3>2 DEF SlotsView
        <4>2. Len(AbsSlots) = 0 BY <4>1
        <4>. QED BY <2>0, <4>2
      <3>3. CASE pc = "save" /\ Len(frames) # 1
        <4>1. /\ Len(AbsSlots) = Frame.base - 1 + Frame.retcnt
              /\ \A k \in 1 .. Frame.base - 1 : IsSlot(AbsSlots[k], k)
              /\ \A j \in 1 .. Frame.retcnt :
                   AbsSlots[Frame.base - 1 + j] =
                     [val |-> IF j <= Left THEN stack[Len(stack) - Left + j]
                              ELSE temp[Frame.retcnt + 1 - j]]
          BY <1>0, <3>3 DEF SlotsView
        <4>2. /\ Frame.base \in Nat /\ Frame.retcnt \in Nat /\ Left \in Nat
              /\ Left = Frame.retcnt - Len(temp) /\ Frame.base <= Len(stack) - Left
              /\ Frame.base >= 1
          BY <3>3, SaveFacts
        <4>3. Left = Frame.retcnt BY <1>1, <4>2
        <4>4. CASE i <= Frame.base - 1
          <5>1. i \in 1 .. Frame.base - 1 /\ i \in 1 .. Len(stack)
            BY <1>2, <2>0, <4>2, <4>4
          <5>. QED BY <2>3, <4>1, <5>1
        <4>5. CASE ~(i <= Frame.base - 1)
          <5>. DEFINE j == i - (Frame.base - 1)
          <5>1. j \in 1 .. Frame.retcnt /\ Frame.base - 1 + j = i
            BY <2>0, <4>1, <4>2, <4>5
          <5>. HIDE DEF j
          <5>2. j <= Left /\ Len(stack) - Left + j \in 1 .. Len(stack)
            <6>1. j \in 1 .. Left BY <4>3, <5>1
            <6>2. Left \in Nat /\ Len(stack) \in Nat /\ Left <= Len(stack) BY <1>2, <4>2
            <6>. QED BY <6>1, <6>2
          <5>3. AbsSlots[i] = [val |-> stack[Len(stack) - Left + j]] BY <4>1, <5>1, <5>2
          <5>. QED BY <1>3, <5>2, <5>3
        <4>. QED BY <4>4, <4>5
      <3>. QED BY <1>0, <3>1, <3>2, <3>3
    <2>. QED BY <2>1, <2>2, <2>4
  <1>10. Box!Named \subseteq S
    <2>1. ASSUME NEW i \in DOMAIN AbsSlots
          PROVE  /\ ~Box!InBox(AbsSlots[i]) => AbsSlots[i].val \in S
                 /\ Box!InBox(AbsSlots[i]) =>
                      AbsSlots[i].box \in S /\ AbsBox[AbsSlots[i].box] \in S
      <3>1. CASE ~Box!InBox(AbsSlots[i]) BY <1>9, <3>1
      <3>2. CASE Box!InBox(AbsSlots[i])
        <4>1. PICK u \in Upval : AbsSlots[i].box = u /\ loc[u] # 0 BY <1>9, <3>2
        <4>2. AbsBox[u] = stack[loc[u]] BY <1>0, <1>6, <4>1 DEF UpvalInv, Deref
        <4>. QED BY <1>4, <3>2, <4>1, <4>2
      <3>. QED BY <3>1, <3>2
    <2>2. ASSUME NEW k \in DOMAIN AbsFrames PROVE AbsFrames[k].clo \in S
      <3>1. k \in 1 .. Len(AbsFrames) BY <1>0, LenProperties DEF FramesView
      <3>2. AbsFrames[k].clo = frames[k].clo
        <4>1. AbsFrames[k] = [base |-> frames[k].base, want |-> frames[k].retcnt,
                              clo |-> frames[k].clo]
          BY <1>0, <3>1 DEF FramesView
        <4>. QED BY <4>1
      <3>3. k \in 1 .. Len(frames)
        <4>1. Len(AbsFrames) \in {Len(frames), Len(frames) - 1} BY <1>0 DEF FramesView
        <4>2. Len(frames) \in Nat BY <1>0, Heights
        <4>. QED BY <3>1, <4>1, <4>2
      <3>4. frames[k].clo \in Clo BY <1>0, <3>3, Heights
      <3>. QED BY <1>2, <3>2, <3>3, <3>4, Marked DEF Roots
    <2>. HIDE DEF S
    <2>. QED BY <2>1, <2>2 DEF Box!Named
  <1>11. Box!Closed(S)
    <2>1. ASSUME NEW c \in Clo \cap S, NEW u \in Upval, ups[c] # Unallocated, u \in ups[c]
          PROVE  u \in S /\ AbsBox[u] \in S \cup {None}
      <3>1. c \in Live BY <2>1, MachineAssumption DEF MachineAssumption
      <3>2. u \in Live BY <2>1, <3>1, Marked
      <3>3. CASE closed[u] = None BY <1>6, <3>2, <3>3
      <3>4. CASE closed[u] # None /\ loc[u] # 0 BY <1>4, <1>6, <3>2, <3>4 DEF Deref
      <3>5. CASE closed[u] # None /\ loc[u] = 0
        <4>1. closed[u] \in Value BY <1>0, <3>5 DEF TypeOK
        <4>2. closed[u] \in S BY <3>2, <4>1, Marked DEF Value
        <4>. QED BY <1>6, <3>2, <3>5, <4>2 DEF Deref
      <3>. QED BY <3>3, <3>4, <3>5
    <2>. HIDE DEF S
    <2>. QED BY <1>5, <2>1 DEF Box!Closed, Box!Unallocated, Unallocated
  <1>12. ASSUME NEW u \in Upval
         PROVE  AbsBox'[u] = AbsBox[u] \/ (AbsBox'[u] = None /\ u \notin S)
    <2>1. CASE u \in Live
      <3>1. closed'[u] = closed[u] /\ Deref(u)' = Deref(u) BY <1>0, <2>1 DEF Deref
      <3>. QED BY <1>6, <1>7, <3>1
    <2>2. CASE u \notin Live
      <3>1. closed'[u] = None BY <1>0, <2>2
      <3>2. u \notin Data BY MachineAssumption DEF MachineAssumption
      <3>. QED BY <1>7, <2>2, <3>1, <3>2
    <2>. QED BY <2>1, <2>2
  <1>13. ASSUME NEW c \in Clo
         PROVE  AbsEnv'[c] = AbsEnv[c] \/ (AbsEnv'[c] = Box!Unallocated /\ c \notin S)
    BY <1>0, <1>5, MachineAssumption DEF MachineAssumption, Unallocated, Box!Unallocated
  <1>14. DOMAIN AbsBox' = Upval /\ DOMAIN AbsEnv' = Clo BY <1>0, <1>5, <1>7
  <1>15. S \in SUBSET (Clo \cup Upval \cup Data) BY Marked
  <1>. HIDE DEF S
  <1>16. Box!Forget BY <1>8, <1>10, <1>11, <1>12, <1>13, <1>14, <1>15 DEF Box!Forget
  <1>. QED BY <1>16 DEF Box!Next

(* The interpreter starts as Boxes does.                                   *)
LEMMA InitBox == Init => Box!Init
  <1>. SUFFICES ASSUME Init PROVE Box!Init OBVIOUS
  <1>0. /\ MInv /\ SlotsView /\ pc = "run" /\ stack = <<>> /\ Len(stack) = 0 /\ TypeOK
        /\ pc # "error"
    BY InitMInv, Viewed, EmptySeq DEF Init, View, MInv
  <1>1. AbsSlots = <<>>
    <2>1. AbsSlots \in Seq(Slot) /\ Len(AbsSlots) = 0 BY <1>0 DEF SlotsView
    <2>. QED BY <2>1, EmptySeq
  <1>2. AbsBox = [u \in Upval |-> None] BY <1>0 DEF AbsBox, Init
  <1>3. AbsEnv = [c \in Clo |-> IF c = Main THEN {} ELSE Box!Unallocated]
    BY <1>0 DEF AbsEnv, Init, Unallocated, Box!Unallocated
  <1>4. AbsFrames = <<[base |-> 0, want |-> 1, clo |-> Main]>>
    <2>1. frames = <<[base |-> 0, retcnt |-> 1, clo |-> Main]>> BY DEF Init
    <2>2. AbsFrames = [i \in DOMAIN frames |->
                         [base |-> frames[i].base, want |-> frames[i].retcnt,
                          clo |-> frames[i].clo]]
      BY <1>0 DEF AbsFrames
    <2>. QED BY <2>1, <2>2
  <1>. QED BY <1>1, <1>2, <1>3, <1>4 DEF Box!Init

(* Every step of the interpreter is a step of Boxes, or none.              *)
LEMMA NextBox ==
  MInv /\ MInv' /\ HeldInv /\ FewResults /\ [Next]_vars => [Box!Next]_(Box!bvars)
  <1>. SUFFICES ASSUME MInv, MInv', HeldInv, FewResults, [Next]_vars
                PROVE  Box!Next \/ UNCHANGED Box!bvars
    OBVIOUS
  <1>1. ASSUME NEW i \in 1 .. MaxStack, GetLocal(i) \/ SetLocal(i) \/ Pop(i) \/ Close(i)
        PROVE  Box!Next
    BY <1>1, PushesBox, SetLocalBox, DropsBox
  <1>2. ASSUME NEW u \in Upval,
               GetUpvalue(u) \/ SetUpvalue(u) \/ CaptureOuter(u)
                 \/ \E i \in 1 .. MaxStack : CaptureLocal(i, u)
        PROVE  Box!Next
    BY <1>2, PushesBox, SetUpvalueBox, CaptureOuterBox, CaptureLocalBox
  <1>3. CASE \E v \in Data : Const(v) BY <1>3, PushesBox
  <1>4. CASE \E c \in Clo : Closure(c) BY <1>4, ClosureBox
  <1>5. CASE \E w \in Wants : Call(w) BY <1>5, CallBox
  <1>. QED
    BY <1>1, <1>2, <1>3, <1>4, <1>5, QuietBox, RunErrorBox, RetBox, SaveBox, LeaveBox,
       RestoreBox, CollectBox
    DEF Next

(* The stack, the open upvalues and the loops of OP_RET implement boxes    *)
(* that live as long as anyone can name them, and calls that leave what    *)
(* their callers want; with results as few as for HeldIsAllocated.         *)
THEOREM ImplementsBoxes == Spec /\ []FewResults => BoxSpec
  <1>. QED BY InitBox, NextBox, Invariant, HeldInvariant, PTL DEF Spec, BoxSpec, Box!Spec
=============================================================================
