------------------------------- MODULE Boxes -------------------------------
(***************************************************************************)
(* What closures and calls promise a Skooma program, without the stack     *)
(* tricks of the VM.  A variable that a closure captures lives in a box of *)
(* its own, shared by everyone who can name it, for as long as anyone can; *)
(* a call leaves as many values as its caller asked for.  Module Machine   *)
(* implements this with open upvalues.                                     *)
(***************************************************************************)
EXTENDS Sequences, Integers

CONSTANTS
  Clo,      (* closures                                                    *)
  Upval,    (* boxes                                                       *)
  Data,     (* values that are not closures                                *)
  Wants,    (* the result counts a caller can ask for, 0 for all of them   *)
  Nil,      (* the value nil, in Data                                      *)
  Main,     (* the closure of the script, in Clo                           *)
  None      (* no content, neither a value nor a box: not allocated        *)

Value == Data \cup Clo
Unallocated == {None}
Boxed == [box : Upval]
Plain == [val : Value]

VARIABLES
  slots,    (* the variables and temporaries: a value, or a box            *)
  box,      (* the content of each box                                     *)
  env,      (* the boxes each closure has captured                         *)
  frames    (* the calls in progress: first slot, wanted results, closure  *)

bvars == <<slots, box, env, frames>>

InBox(s)   == "box" \in DOMAIN s
Content(s) == IF InBox(s) THEN box[s.box] ELSE s.val
Upto(n)    == SubSeq(slots, 1, n)
Vals(vs)   == [i \in DOMAIN vs |-> [val |-> vs[i]]]
Current    == frames[Len(frames)]

(* A call that wants n results gets n, the missing ones nil; n = 0 asks    *)
(* for all there are.                                                      *)
Deliver(vs, n) ==
  IF n = 0 THEN vs ELSE [i \in 1..n |-> IF i <= Len(vs) THEN vs[i] ELSE Nil]

Init == /\ slots = <<>>
        /\ box = [u \in Upval |-> None]
        /\ env = [c \in Clo |-> IF c = Main THEN {} ELSE Unallocated]
        /\ frames = <<[base |-> 0, want |-> 1, clo |-> Main]>>

Push(v) == /\ slots' = Append(slots, [val |-> v])
           /\ UNCHANGED <<box, env, frames>>

(* Variables go out of scope; their boxes stay.                            *)
Drop(n) == /\ slots' = Upto(Len(slots) - n)
           /\ UNCHANGED <<box, env, frames>>

(* Assign the value on top to a variable, by its slot or by its box.       *)
Assign(i) ==
  LET v == Content(slots[Len(slots)]) IN
  /\ IF InBox(slots[i])
     THEN box' = [box EXCEPT ![slots[i].box] = v] /\ slots' = Upto(Len(slots) - 1)
     ELSE slots' = [Upto(Len(slots) - 1) EXCEPT ![i] = [val |-> v]] /\ UNCHANGED box
  /\ UNCHANGED <<env, frames>>

AssignBox(u) == /\ frames # <<>> /\ u \in env[Current.clo]
                /\ box' = [box EXCEPT ![u] = Content(slots[Len(slots)])]
                /\ slots' = Upto(Len(slots) - 1)
                /\ UNCHANGED <<env, frames>>

NewClosure(c) == /\ env[c] = Unallocated
                 /\ env' = [env EXCEPT ![c] = {}]
                 /\ slots' = Append(slots, [val |-> c])
                 /\ UNCHANGED <<box, frames>>

(* The closure on top captures a variable, which moves to a new box unless *)
(* it is in one; or a box its creator has captured.                        *)
Capture(c, i, u) ==
  /\ IF InBox(slots[i])
     THEN u = slots[i].box /\ UNCHANGED <<slots, box>>
     ELSE /\ box[u] = None
          /\ box' = [box EXCEPT ![u] = slots[i].val]
          /\ slots' = [slots EXCEPT ![i] = [box |-> u]]
  /\ env' = [env EXCEPT ![c] = @ \cup {u}]
  /\ UNCHANGED frames

Share(c, u) == /\ frames # <<>> /\ u \in env[Current.clo]
               /\ env' = [env EXCEPT ![c] = @ \cup {u}]
               /\ UNCHANGED <<slots, box, frames>>

(* The callee sits below its n arguments, which become its variables.      *)
Enter(c, n, w) ==
  /\ Content(slots[Len(slots) - n]) = c
  /\ frames' = Append(frames, [base |-> Len(slots) - n, want |-> w, clo |-> c])
  /\ UNCHANGED <<slots, box, env>>

(* The last n values are the results; the caller gets what it wants.       *)
Leave(n) ==
  LET vs == [i \in 1..n |-> Content(slots[Len(slots) - n + i])] IN
  /\ frames # <<>>
  /\ frames' = SubSeq(frames, 1, Len(frames) - 1)
  /\ slots' = IF Len(frames) = 1 THEN <<>>
              ELSE Upto(Current.base - 1) \o Vals(Deliver(vs, Current.want))
  /\ UNCHANGED <<box, env>>

(* A run-time error ends the program.                                      *)
Abort == /\ slots' = <<>> /\ frames' = <<>>
         /\ box' = [u \in Upval |-> None]
         /\ env' = [c \in Clo |-> Unallocated]

(* What the program can still name: see Forget.                            *)
Closed(S) == \A c \in Clo \cap S, u \in Upval :
               env[c] # Unallocated /\ u \in env[c] => u \in S /\ box[u] \in S \cup {None}
Named == {slots[i].val : i \in {j \in DOMAIN slots : ~InBox(slots[j])}}
         \cup {slots[i].box : i \in {j \in DOMAIN slots : InBox(slots[j])}}
         \cup {box[slots[i].box] : i \in {j \in DOMAIN slots : InBox(slots[j])}}
         \cup {frames[i].clo : i \in DOMAIN frames}

(* Closures and boxes that nothing can name may be reused.                 *)
Forget ==
  /\ \E S \in SUBSET (Clo \cup Upval \cup Data) :
       /\ Named \subseteq S /\ Closed(S)
       /\ \A u \in Upval : box'[u] = box[u] \/ (box'[u] = None /\ u \notin S)
       /\ \A c \in Clo : env'[c] = env[c] \/ (env'[c] = Unallocated /\ c \notin S)
  /\ DOMAIN box' = Upval /\ DOMAIN env' = Clo
  /\ UNCHANGED <<slots, frames>>

Next ==
  \/ \E v \in Value : Push(v)
  \/ \E n \in 1..Len(slots) : Drop(n)
  \/ \E i \in 1..(Len(slots) - 1) : Assign(i)
  \/ \E u \in Upval : AssignBox(u)
  \/ \E c \in Clo : NewClosure(c)
  \/ \E c \in Clo, u \in Upval : Share(c, u) \/ \E i \in DOMAIN slots : Capture(c, i, u)
  \/ \E n \in 0..(Len(slots) - 1), c \in Clo, w \in Wants : Enter(c, n, w)
  \/ \E n \in 0..Len(slots) : Leave(n)
  \/ Abort
  \/ Forget

Spec == Init /\ [][Next]_bvars
============================================================================
