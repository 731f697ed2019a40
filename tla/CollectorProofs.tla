-------------------------- MODULE CollectorProofs --------------------------
(***************************************************************************)
(* The collector frees nothing the program can reach and keeps nothing it  *)
(* cannot, for every heap.  The invariant says, phase by phase, what the   *)
(* mark bits mean; the refinement of ManagedHeap follows from it.          *)
(***************************************************************************)
EXTENDS Collector, TLAPS

(* Outside a collection nothing is left over from the last one.            *)
IdleInv == pc = "idle" =>
  marked = {} /\ gray = {} /\ pending = {} /\ unswept = {}

(* While marking, mark bits are set on reachable objects only.             *)
MarkInv == pc \in {"roots", "trace", "weak"} =>
  /\ gray \subseteq marked /\ marked \subseteq Reachable
  /\ pc \in {"trace", "weak"} => pending = {}
  /\ pc = "weak" => gray = {}

(* In the unswept part of the object list the mark bits tell exactly what  *)
(* the program can reach; what has been swept and kept is reachable.       *)
SweepInv == pc = "sweep" =>
  /\ gray = {} /\ pending = {}
  /\ unswept \subseteq objects /\ marked \subseteq unswept
  /\ Reachable \cap unswept = marked
  /\ objects \ unswept \subseteq Reachable
  /\ strings \subseteq Reachable

(* Freed cells leave no reference behind, and the compiler's roots are     *)
(* empty whenever the collector skips them.                                *)
HeapInv ==
  /\ NoDangling
  /\ \A e \in edges : e[1] \in objects
  /\ ~compiling /\ "compiler" \in RootKinds => roots["compiler"] = {}

IInv == TypeOK /\ HeapInv /\ IdleInv /\ MarkInv /\ TriColour /\ SweepInv
----------------------------------------------------------------------------
(* Reachable is the least set with the roots that follows every reference. *)
LEMMA ReachFacts ==
  ASSUME TypeOK
  PROVE  /\ Reachable \subseteq Obj
         /\ RootSet \subseteq Reachable
         /\ Closed(Reachable)
         /\ \A S \in SUBSET Obj : RootSet \subseteq S /\ Closed(S)
                                    => Reachable \subseteq S
<1>1. RootSet \subseteq Obj
  BY DEF TypeOK, RootSet
<1>2. RootSet \subseteq Reachable
  BY <1>1 DEF Reachable
<1>3. Closed(Reachable)
  <2>1. ASSUME NEW e \in edges, e[1] \in Reachable
        PROVE  e[3] \in Reachable
    <3>1. e[3] \in Obj
      BY DEF TypeOK, Edges
    <3>2. ASSUME NEW S \in SUBSET Obj, RootSet \subseteq S, Closed(S)
          PROVE  e[3] \in S
      <4>1. e[1] \in S
        BY <2>1, <3>2 DEF Reachable
      <4> QED BY <4>1, <3>2 DEF Closed
    <3> QED BY <3>1, <3>2 DEF Reachable
  <2> QED BY <2>1 DEF Closed
<1>4. ASSUME NEW S \in SUBSET Obj, RootSet \subseteq S, Closed(S)
      PROVE  Reachable \subseteq S
  BY <1>4 DEF Reachable
<1>5. Reachable \subseteq Obj
  BY DEF Reachable
<1> QED BY <1>2, <1>3, <1>4, <1>5

(* After a step the reachable set is within any set closed after it.       *)
LEMMA ReachNext ==
  ASSUME NEW STATE S, S \subseteq Obj, RootSet' \subseteq S,
         \A e \in edges' : e[1] \in S => e[3] \in S
  PROVE  Reachable' \subseteq S
<1>1. ASSUME NEW o \in Reachable'
      PROVE  o \in S
  <2>1. \A T \in SUBSET Obj :
          RootSet' \subseteq T /\ (\A e \in edges' : e[1] \in T => e[3] \in T)
            => o \in T
    BY <1>1 DEF Reachable, Closed
  <2> QED BY <2>1
<1> QED BY <1>1

(* A step that leaves roots and references alone leaves the reachable set. *)
LEMMA ReachSame ==
  ASSUME UNCHANGED <<edges, roots>>
  PROVE  Reachable' = Reachable
BY DEF Reachable, RootSet, Closed

(* Freeing an object the program cannot reach changes nothing it can.      *)
LEMMA ReachFree ==
  ASSUME TypeOK, NEW o \in Obj, o \notin Reachable,
         edges' = {e \in edges : e[1] # o}, roots' = roots
  PROVE  Reachable' = Reachable
<1>1. RootSet' = RootSet
  BY DEF RootSet
<1>2. Reachable' \subseteq Reachable
  <2>1. Reachable \subseteq Obj /\ RootSet \subseteq Reachable
    BY ReachFacts
  <2>2. \A e \in edges' : e[1] \in Reachable => e[3] \in Reachable
    BY ReachFacts DEF Closed
  <2> QED BY ONLY <2>1, <2>2, <1>1, ReachNext
<1>3. ASSUME NEW p \in Reachable
      PROVE  p \in Reachable'
  <2>1. p \in Obj
    BY DEF Reachable
  <2>2. ASSUME NEW T \in SUBSET Obj, RootSet \subseteq T,
               \A e \in edges' : e[1] \in T => e[3] \in T
        PROVE  p \in T
    <3> DEFINE U == T \ {o}
    <3>1. RootSet \subseteq U
      BY <2>2, ReachFacts
    <3>2. Closed(U \cap Reachable)
      <4>1. ASSUME NEW e \in edges, e[1] \in U, e[1] \in Reachable
            PROVE  e[3] \in U /\ e[3] \in Reachable
        <5>1. e \in edges'
          BY <4>1
        <5>2. e[3] \in Reachable
          BY <4>1, ReachFacts DEF Closed
        <5> QED BY <5>1, <5>2, <4>1, <2>2
      <4> QED BY <4>1 DEF Closed
    <3>3. RootSet \subseteq U \cap Reachable
      BY <3>1, ReachFacts
    <3>4. Reachable \subseteq U \cap Reachable
      BY <3>2, <3>3, ReachFacts
    <3> QED BY <3>4
  <2> QED BY <2>1, <2>2, <1>1 DEF Reachable, Closed
<1> QED BY <1>2, <1>3
----------------------------------------------------------------------------
(* One step of the program keeps the heap whole: it reaches nothing it did *)
(* not reach, but a new object or an interned string.                      *)
LEMMA MutateFacts ==
  ASSUME IInv, Mutator
  PROVE  TypeOK' /\ HeapInv'
<1> USE DEF Mutator, gcvars
<1>0. TypeOK /\ HeapInv
  BY DEF IInv
<1>t. \A r \in RootKinds : roots[r] \subseteq RootSet
  BY DEF RootSet
<1>1. ASSUME NEW o \in Obj, Allocate(o)
      PROVE  TypeOK' /\ HeapInv'
  <2> DEFINE S == Reachable \cup {o}
  <2>1. TypeOK'
    BY <1>0, <1>1 DEF Allocate, TypeOK
  <2>2. Reachable' \subseteq S
    <3>1. S \subseteq Obj
      BY <1>0, ReachFacts
    <3>2. RootSet' \subseteq S
      <4>1. RootSet' \subseteq RootSet \cup {o}
        BY <1>0, <1>1 DEF Allocate, RootSet, TypeOK
      <4> QED BY <4>1, <1>0, ReachFacts
    <3>3. \A e \in edges' : e[1] \in S => e[3] \in S
      BY <1>0, <1>1, ReachFacts DEF Allocate, HeapInv, Closed
    <3> HIDE DEF S
    <3> QED BY <3>1, <3>2, <3>3, ReachNext
  <2>3. NoDangling'
    BY <2>2, <1>0, <1>1 DEF NoDangling, HeapInv, Allocate
  <2>4. (\A e \in edges : e[1] \in objects)'
    BY <1>0, <1>1 DEF HeapInv, Allocate
  <2>5. (~compiling /\ "compiler" \in RootKinds => roots["compiler"] = {})'
    BY <1>0, <1>1 DEF HeapInv, Allocate, TypeOK, Home
  <2> QED BY <2>1, <2>3, <2>4, <2>5 DEF HeapInv
<1>2. ASSUME NEW e \in Edges, SetField(e) \/ ClearField(e)
      PROVE  TypeOK' /\ HeapInv'
  <2>1. TypeOK'
    BY <1>0, <1>2 DEF SetField, ClearField, TypeOK
  <2>2. RootSet' = RootSet
    BY <1>2 DEF SetField, ClearField, RootSet
  <2>3. \A d \in edges' : d[1] \in Reachable => d[3] \in Reachable
    BY <1>0, <1>2, ReachFacts DEF SetField, ClearField, Closed
  <2>4. Reachable \subseteq Obj /\ RootSet \subseteq Reachable
    BY <1>0, ReachFacts
  <2>5. Reachable' \subseteq Reachable
    BY ONLY <2>2, <2>3, <2>4, ReachNext
  <2>6. NoDangling' /\ (\A d \in edges : d[1] \in objects)'
    BY <2>5, <1>0, <1>2 DEF NoDangling, HeapInv, SetField, ClearField
  <2> QED BY <2>1, <2>6, <1>0, <1>2 DEF HeapInv, SetField, ClearField
<1>3. ASSUME NEW r \in RootKinds, NEW o \in Obj, AddRoot(r, o)
      PROVE  TypeOK' /\ HeapInv'
  <2> DEFINE S == Reachable \cup {o}
  <2>1. TypeOK'
    BY <1>0, <1>3 DEF AddRoot, TypeOK
  <2>2. S \subseteq Obj
    BY <1>0, ReachFacts
  <2>3. RootSet' \subseteq S
    <3>1. RootSet' \subseteq RootSet \cup {o}
      BY <1>0, <1>3 DEF AddRoot, RootSet, TypeOK
    <3> QED BY <3>1, <1>0, ReachFacts
  <2>4. \A e \in edges' : e[1] \in S => e[3] \in S
    <3>1. ASSUME NEW e \in edges, e[1] \in strings
          PROVE  FALSE
      BY <3>1, <1>0 DEF TypeOK, Edges, FieldsOf
    <3> QED BY <3>1, <1>0, <1>3, ReachFacts DEF AddRoot, Closed
  <2>5. Reachable' \subseteq S
    <3> HIDE DEF S
    <3> QED BY <2>2, <2>3, <2>4, ReachNext
  <2>6. NoDangling' /\ (\A e \in edges : e[1] \in objects)'
    BY <2>5, <1>0, <1>3 DEF NoDangling, HeapInv, AddRoot
  <2>7. (~compiling /\ "compiler" \in RootKinds => roots["compiler"] = {})'
    BY <1>0, <1>3 DEF HeapInv, AddRoot, TypeOK
  <2> QED BY <2>1, <2>6, <2>7 DEF HeapInv
<1>4. ASSUME NEW r \in RootKinds, NEW o \in Obj, DropRoot(r, o)
      PROVE  TypeOK' /\ HeapInv'
  <2>1. TypeOK'
    BY <1>0, <1>4 DEF DropRoot, TypeOK
  <2>2. RootSet' \subseteq RootSet
    BY <1>0, <1>4 DEF DropRoot, RootSet, TypeOK
  <2>3. Reachable' \subseteq Reachable
    <3>1. RootSet' \subseteq Reachable /\ Reachable \subseteq Obj
      BY <2>2, <1>0, ReachFacts
    <3>2. \A e \in edges' : e[1] \in Reachable => e[3] \in Reachable
      BY <1>0, <1>4, ReachFacts DEF DropRoot, Closed
    <3> QED BY ONLY <3>1, <3>2, ReachNext
  <2>4. NoDangling' /\ (\A e \in edges : e[1] \in objects)'
    BY <2>3, <1>0, <1>4 DEF NoDangling, HeapInv, DropRoot
  <2>5. (~compiling /\ "compiler" \in RootKinds => roots["compiler"] = {})'
    BY <1>0, <1>4 DEF HeapInv, DropRoot, TypeOK
  <2> QED BY <2>1, <2>4, <2>5 DEF HeapInv
<1>5. CASE Toggle
  <2>1. TypeOK'
    BY <1>0, <1>5 DEF Toggle, TypeOK
  <2>2. RootSet' \subseteq RootSet
    BY <1>0, <1>5 DEF Toggle, RootSet, TypeOK
  <2>3. Reachable' \subseteq Reachable
    <3>1. RootSet' \subseteq Reachable /\ Reachable \subseteq Obj
      BY <2>2, <1>0, ReachFacts
    <3>2. \A e \in edges' : e[1] \in Reachable => e[3] \in Reachable
      BY <1>0, <1>5, ReachFacts DEF Toggle, Closed
    <3> QED BY ONLY <3>1, <3>2, ReachNext
  <2>4. HeapInv'
    BY <2>3, <1>0, <1>5 DEF NoDangling, HeapInv, Toggle, TypeOK
  <2> QED BY <2>1, <2>4
<1> QED BY <1>1, <1>2, <1>3, <1>4, <1>5 DEF Mutate
----------------------------------------------------------------------------
(* mark_black looks at every reference an object holds.                    *)
LEMMA ChildrenFact ==
  ASSUME TypeOK, NEW o \in Obj
  PROVE  Children(o) = {e[3] : e \in {d \in edges : d[1] = o}}
<1>1. ASSUME NEW e \in edges, e[1] = o
      PROVE  e[3] \in Children(o)
  <2>1. e = <<o, e[2], e[3]>> /\ e[2] \in FieldsOf(Kind[o]) /\ e[3] \in Obj
    BY <1>1 DEF TypeOK, Edges
  <2>2. e[2] \in Traced(Kind[o])
    BY <2>1 DEF FieldsOf, Traced
  <2> QED BY <2>1, <2>2 DEF Children
<1>2. ASSUME NEW p \in Children(o)
      PROVE  p \in {e[3] : e \in {d \in edges : d[1] = o}}
  <2>1. PICK f \in Traced(Kind[o]) : <<o, f, p>> \in edges
    BY <1>2 DEF Children
  <2> QED BY <2>1
<1> QED BY <1>1, <1>2

(* Marking, one root or one gray object at a time.                         *)
LEMMA MarkFacts ==
  ASSUME IInv,
         (\E r \in RootKinds : MarkRoots(r)) \/ (\E o \in Obj : MarkBlack(o))
  PROVE  IInv'
<1>0. TypeOK /\ HeapInv /\ pc \in {"roots", "trace"} /\ UNCHANGED <<hvars, pc, unswept>>
  BY DEF IInv, MarkRoots, MarkBlack
<1>1. Reachable' = Reachable
  BY <1>0, ReachSame DEF hvars
<1>2. HeapInv'
  BY <1>0, <1>1 DEF HeapInv, NoDangling, hvars
<1>m. gray \subseteq marked /\ marked \subseteq Reachable /\ (pc = "trace" => pending = {})
  BY <1>0 DEF IInv, MarkInv
<1>c. /\ \A e \in edges : e[1] \in marked \ gray => e[3] \in marked
      /\ \A r \in RootKinds \ pending : roots[r] \subseteq marked
  BY <1>0 DEF IInv, TriColour
<1>3. ASSUME NEW r \in RootKinds, MarkRoots(r)
      PROVE  TypeOK' /\ MarkInv' /\ TriColour'
  <2>1. roots[r] \subseteq Reachable /\ roots[r] \subseteq Obj
    BY <1>0, ReachFacts DEF RootSet, TypeOK
  <2>2. TypeOK'
    BY <1>0, <1>3, <2>1 DEF MarkRoots, OMarkAll, TypeOK, hvars
  <2>3. MarkInv'
    BY <1>0, <1>1, <1>m, <1>3, <2>1 DEF MarkRoots, OMarkAll, MarkInv
  <2>4. ASSUME NEW e \in edges', e[1] \in marked' \ gray'
        PROVE  e[3] \in marked'
    <3>1. Kind[e[1]] # "string" /\ e \in edges
      BY <1>0, <2>4 DEF TypeOK, Edges, FieldsOf, hvars
    <3>2. e[1] \in marked \ gray
      BY <3>1, <2>4, <1>0, <1>3, <2>1 DEF MarkRoots, OMarkAll, TypeOK
    <3> QED BY <3>1, <3>2, <1>c, <1>3 DEF MarkRoots, OMarkAll
  <2>5. \A q \in RootKinds \ pending' : roots'[q] \subseteq marked'
    BY <1>0, <1>c, <1>3 DEF MarkRoots, OMarkAll, hvars
  <2> QED BY <2>2, <2>3, <2>4, <2>5 DEF TriColour
<1>4. ASSUME NEW o \in Obj, MarkBlack(o)
      PROVE  TypeOK' /\ MarkInv' /\ TriColour'
  <2>0. /\ o \in gray /\ o \in Reachable /\ pc = "trace"
        /\ marked' = marked \cup Children(o)
        /\ gray' = (gray \ {o}) \cup {p \in Children(o) \ marked : Kind[p] # "string"}
        /\ pending' = pending
    BY <1>4, <1>m DEF MarkBlack, OMarkAll
  <2>1. Children(o) \subseteq Reachable /\ Children(o) \subseteq Obj
    <3>1. Children(o) \subseteq Reachable
      BY <1>0, <2>0, ChildrenFact, ReachFacts DEF Closed
    <3> QED BY <3>1 DEF Children
  <2>2. TypeOK'
    BY <1>0, <2>0, <2>1 DEF TypeOK, hvars
  <2>3. MarkInv'
    BY <1>0, <1>1, <1>m, <2>0, <2>1 DEF MarkInv
  <2>4. ASSUME NEW e \in edges', e[1] \in marked' \ gray'
        PROVE  e[3] \in marked'
    <3>1. Kind[e[1]] # "string" /\ e \in edges
      BY <1>0, <2>4 DEF TypeOK, Edges, FieldsOf, hvars
    <3>2. CASE e[1] = o
      BY <3>1, <3>2, <1>0, <2>0, ChildrenFact
    <3>3. CASE e[1] # o
      BY <3>1, <3>3, <2>4, <2>0, <1>c
    <3> QED BY <3>2, <3>3
  <2>5. \A q \in RootKinds \ pending' : roots'[q] \subseteq marked'
    BY <1>0, <1>c, <2>0 DEF hvars
  <2> QED BY <2>2, <2>3, <2>4, <2>5 DEF TriColour
<1>5. IdleInv' /\ SweepInv'
  BY <1>0 DEF IdleInv, SweepInv
<1> QED BY <1>2, <1>3, <1>4, <1>5 DEF IInv

(* When the gray stack is empty the mark bits are the reachable objects.   *)
LEMMA AllMarked ==
  ASSUME IInv, pc = "weak"
  PROVE  marked = Reachable
<1>0. /\ TypeOK /\ gray = {} /\ pending = {} /\ marked \subseteq Reachable
  BY DEF IInv, MarkInv
<1>1. RootSet \subseteq marked
  BY <1>0 DEF IInv, TriColour, RootSet
<1>2. Closed(marked)
  BY <1>0 DEF IInv, TriColour, Closed
<1>3. marked \in SUBSET Obj
  BY <1>0 DEF TypeOK
<1> QED BY <1>0, <1>1, <1>2, <1>3, ReachFacts

(* Starting a collection, and passing from one loop of gc() to the next.   *)
LEMMA PhaseFacts ==
  ASSUME IInv, StartGC \/ RootsDone \/ TraceDone \/ WeakDone \/ SweepDone
  PROVE  IInv'
<1>0. TypeOK /\ HeapInv /\ UNCHANGED <<hvars, marked, gray>>
  BY DEF IInv, StartGC, RootsDone, TraceDone, WeakDone, SweepDone
<1>1. Reachable' = Reachable
  BY <1>0, ReachSame DEF hvars
<1>2. HeapInv'
  BY <1>0, <1>1 DEF HeapInv, NoDangling, hvars
<1>3. CASE StartGC
  <2>1. marked = {} /\ gray = {} /\ pending = {} /\ unswept = {}
    BY <1>3 DEF IInv, IdleInv, StartGC
  <2>2. TypeOK'
    BY <1>0, <1>3 DEF StartGC, GCRoots, TypeOK, hvars
  <2>3. TriColour'
    BY <1>0, <1>3, <2>1 DEF StartGC, GCRoots, TriColour, HeapInv, hvars
  <2> QED BY <1>0, <1>2, <1>3, <2>1, <2>2, <2>3
          DEF IInv, IdleInv, MarkInv, SweepInv, StartGC
<1>4. CASE RootsDone
  BY <1>0, <1>1, <1>2, <1>4
     DEF RootsDone, IInv, TypeOK, IdleInv, MarkInv, TriColour, SweepInv, hvars
<1>5. CASE TraceDone
  BY <1>0, <1>1, <1>2, <1>5
     DEF TraceDone, IInv, TypeOK, IdleInv, MarkInv, TriColour, SweepInv, hvars
<1>6. CASE WeakDone
  <2>1. marked = Reachable /\ gray = {} /\ pending = {} /\ Reachable \subseteq objects
    BY <1>6, AllMarked DEF WeakDone, IInv, MarkInv, HeapInv, NoDangling
  <2> QED BY <1>0, <1>1, <1>2, <1>6, <2>1
         DEF WeakDone, IInv, TypeOK, IdleInv, MarkInv, TriColour, SweepInv, hvars
<1>7. CASE SweepDone
  BY <1>0, <1>1, <1>2, <1>7
     DEF SweepDone, IInv, TypeOK, IdleInv, MarkInv, TriColour, SweepInv, hvars
<1> QED BY <1>3, <1>4, <1>5, <1>6, <1>7

(* rmweakrefs drops only strings the program cannot reach.                 *)
LEMMA WeakFacts ==
  ASSUME IInv, NEW s \in Obj, RemoveWeak(s)
  PROVE  IInv' /\ Forget(s)
<1>0. marked = Reachable /\ TypeOK /\ HeapInv
  BY AllMarked DEF RemoveWeak, IInv
<1>1. Reachable' = Reachable
  BY ReachSame DEF RemoveWeak
<1> QED BY <1>0, <1>1
       DEF RemoveWeak, Forget, IInv, TypeOK, HeapInv, NoDangling, IdleInv,
           MarkInv, TriColour, SweepInv, gcvars

(* sweep frees only what the program can neither reach nor intern.         *)
LEMMA SweepFacts ==
  ASSUME IInv, NEW o \in Obj, Sweep(o)
  PROVE  IInv' /\ (UNCHANGED hvars \/ Free(o))
<1>0. /\ TypeOK /\ HeapInv /\ pc = "sweep" /\ o \in unswept
      /\ UNCHANGED <<pc, gray, pending>> /\ unswept' = unswept \ {o}
  BY DEF Sweep, IInv
<1>s. /\ gray = {} /\ pending = {}
      /\ unswept \subseteq objects /\ marked \subseteq unswept
      /\ Reachable \cap unswept = marked
      /\ objects \ unswept \subseteq Reachable
      /\ strings \subseteq Reachable
  BY <1>0 DEF IInv, SweepInv
<1>1. IdleInv' /\ MarkInv' /\ TriColour'
  BY <1>0 DEF IdleInv, MarkInv, TriColour
<1>2. CASE Survive(o)
  <2>1. Reachable' = Reachable /\ UNCHANGED hvars
    BY <1>2, ReachSame DEF Survive, hvars
  <2>2. TypeOK' /\ HeapInv'
    BY <1>0, <1>2, <2>1 DEF Survive, TypeOK, HeapInv, NoDangling, hvars
  <2>3. SweepInv'
    BY <1>0, <1>s, <1>2, <2>1 DEF Survive, SweepInv, hvars
  <2> QED BY <1>1, <2>1, <2>2, <2>3 DEF IInv
<1>3. CASE Reclaim(o)
  <2>0. o \notin Reachable /\ o \notin strings /\ o \in objects
    BY <1>0, <1>s, <1>3 DEF Reclaim
  <2>1. Reachable' = Reachable
    BY <1>0, <1>3, <2>0, ReachFree DEF Reclaim
  <2>2. Free(o)
    BY <1>3, <2>0 DEF Reclaim, Free
  <2>3. TypeOK' /\ HeapInv'
    BY <1>0, <1>3, <2>0, <2>1 DEF Reclaim, TypeOK, HeapInv, NoDangling
  <2>4. SweepInv'
    BY <1>0, <1>s, <1>3, <2>0, <2>1 DEF Reclaim, SweepInv
  <2> QED BY <1>1, <2>2, <2>3, <2>4 DEF IInv
<1> QED BY <1>2, <1>3 DEF Sweep
----------------------------------------------------------------------------
(* The invariant holds initially.                                          *)
LEMMA InitFacts ==
  ASSUME GCInit
  PROVE  IInv
<1>1. TypeOK
  BY DEF GCInit, Init, TypeOK
<1>2. Reachable = {}
  <2>1. RootSet = {} /\ Closed({})
    BY DEF GCInit, Init, RootSet, Closed
  <2> QED BY <1>1, <2>1, ReachFacts
<1> QED BY <1>1, <1>2
       DEF GCInit, Init, IInv, HeapInv, NoDangling, IdleInv, MarkInv, TriColour, SweepInv

(* Every step keeps the invariant and is a step of the heap it implements. *)
LEMMA StepFacts ==
  ASSUME IInv, [GCNext]_vars
  PROVE  IInv' /\ [Next]_hvars
<1>1. CASE Mutator
  <2>1. IdleInv' /\ MarkInv' /\ TriColour' /\ SweepInv'
    BY <1>1 DEF IInv, Mutator, gcvars, IdleInv, MarkInv, TriColour, SweepInv
  <2> QED BY <1>1, <2>1, MutateFacts DEF IInv, Mutator, Next
<1>2. CASE StartGC \/ RootsDone \/ TraceDone \/ WeakDone \/ SweepDone
  BY <1>2, PhaseFacts DEF StartGC, RootsDone, TraceDone, WeakDone, SweepDone
<1>3. CASE (\E r \in RootKinds : MarkRoots(r)) \/ (\E o \in Obj : MarkBlack(o))
  BY <1>3, MarkFacts DEF MarkRoots, MarkBlack
<1>4. CASE \E o \in Obj : RemoveWeak(o)
  BY <1>4, WeakFacts DEF Next
<1>5. CASE \E o \in Obj : Sweep(o)
  BY <1>5, SweepFacts DEF Next
<1>6. CASE UNCHANGED vars
  <2>1. Reachable' = Reachable
    BY <1>6, ReachSame DEF vars, hvars
  <2> QED BY <1>6, <2>1
         DEF vars, hvars, gcvars, IInv, TypeOK, HeapInv, NoDangling, IdleInv,
             MarkInv, TriColour, SweepInv
<1> QED BY <1>1, <1>2, <1>3, <1>4, <1>5, <1>6 DEF GCNext, GCStep

(* Together, for every execution. *)
LEMMA Inductive == GCSpec => []IInv
<1>1. GCInit => IInv
  BY InitFacts
<1>2. IInv /\ [GCNext]_vars => IInv'
  BY StepFacts
<1> QED BY <1>1, <1>2, PTL DEF GCSpec

(* Types hold, and no string gets to the gray stack, whatever the heap.    *)
THEOREM TypeCorrect == GCSpec => []TypeOK
<1>1. IInv => TypeOK
  BY DEF IInv
<1> QED BY <1>1, Inductive, PTL

(* gc() never frees an object that the program can reach, nor a string     *)
(* that the intern table can still return.                                 *)
THEOREM Safety == GCSpec => []NoDangling
<1>1. IInv => NoDangling
  BY DEF IInv, HeapInv
<1> QED BY <1>1, Inductive, PTL

(* The loop over the gray stack keeps the tri-colour invariant.            *)
THEOREM TriColourHolds == GCSpec => []TriColour
<1>1. IInv => TriColour
  BY DEF IInv
<1> QED BY <1>1, Inductive, PTL

(* The mutator never runs with a mark bit left set.                        *)
THEOREM MarksAlwaysCleared == GCSpec => []MarksCleared
<1>1. IInv => MarksCleared
  BY DEF IInv, IdleInv, MarksCleared
<1> QED BY <1>1, Inductive, PTL

(* A collection that ends has freed everything the program cannot reach.   *)
THEOREM Completeness == GCSpec => CollectsAll
<1>1. IInv /\ [GCNext]_vars =>
        [pc = "sweep" /\ pc' = "idle" => objects = Reachable /\ strings \subseteq Reachable]_vars
  <2> SUFFICES ASSUME IInv, GCNext, pc = "sweep", pc' = "idle"
               PROVE  objects = Reachable /\ strings \subseteq Reachable
    BY DEF vars
  <2>1. SweepDone
    BY DEF GCNext, GCStep, Mutator, gcvars, StartGC, MarkRoots, RootsDone, MarkBlack,
           TraceDone, RemoveWeak, WeakDone, Sweep, SweepDone
  <2> QED BY <2>1 DEF SweepDone, IInv, SweepInv, HeapInv, NoDangling
<1> QED BY <1>1, Inductive, PTL DEF GCSpec, CollectsAll

(* The mark-and-sweep collector implements the heap of ManagedHeap: every  *)
(* step frees or forgets only what that heap lets go, or changes nothing.  *)
THEOREM Refinement == GCSpec => HeapSpec
<1>1. GCInit => Init
  BY DEF GCInit
<1>2. IInv /\ [GCNext]_vars => [Next]_hvars
  BY StepFacts
<1> QED BY <1>1, <1>2, Inductive, PTL DEF GCSpec, HeapSpec, Spec
============================================================================
