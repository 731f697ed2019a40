----------------------------- MODULE Collector -----------------------------
(***************************************************************************)
(* The tri-colour mark-and-sweep collector of mem.c.  The interpreter is   *)
(* stopped while gc() runs, so the mutator acts only when pc = "idle"; the *)
(* collector's loops are modelled one iteration per step.                  *)
(***************************************************************************)
EXTENDS ManagedHeap

VARIABLES
  pc,        (* the loop of gc() that is running                           *)
  marked,    (* objects whose mark bit is set                              *)
  gray,      (* vm->gray_stack: marked, children not looked at yet         *)
  pending,   (* kinds of roots markroots has still to mark                 *)
  unswept    (* the rest of the object list sweep has still to visit       *)

gcvars == <<pc, marked, gray, pending, unswept>>
vars   == <<hvars, gcvars>>

GCInit == /\ Init
         /\ pc = "idle" /\ marked = {} /\ gray = {}
         /\ pending = {} /\ unswept = {}

Mutator == pc = "idle" /\ Mutate /\ UNCHANGED gcvars

(* jmptable[runtime]: the compiler's roots are marked only at compile time.*)
GCRoots == IF compiling THEN RootKinds ELSE RootKinds \ {"compiler"}

(* gc() starts, from gcrealloc or from the native gccollect.               *)
StartGC == /\ pc = "idle"
           /\ pc' = "roots" /\ pending' = GCRoots
           /\ UNCHANGED <<hvars, marked, gray, unswept>>

(* Mutant: omark pushes an object it has already marked.                   *)
OMarkAgain(S, g) ==
  /\ marked' = marked \cup S
  /\ gray' = g \cup {o \in S : Kind[o] # "string"}

(* omark on every member of S, with g the gray stack: an object that is    *)
(* already marked is left alone, and a string is never pushed.             *)
OMarkAll(S, g) ==
  /\ marked' = marked \cup S
  /\ gray' = g \cup {o \in S \ marked : Kind[o] # "string"}

MarkRoots(r) == /\ pc = "roots" /\ r \in pending
                /\ OMarkAll(roots[r], gray)
                /\ pending' = pending \ {r}
                /\ UNCHANGED <<hvars, pc, unswept>>

RootsDone == /\ pc = "roots" /\ pending = {}
             /\ pc' = "trace"
             /\ UNCHANGED <<hvars, marked, gray, pending, unswept>>

(* Mutants: mark_black forgets the class of an instance, or the methods of *)
(* a class.                                                                *)
TracedNoClass(k)   == FieldsOf(k) \ {"oclass"}
TracedNoMethods(k) == FieldsOf(k) \ {"methods"}

(* mark_black: the fields it marks, by type of object.                     *)
Traced(k) ==
  CASE k = "upvalue"      -> {"closed"}
    [] k = "function"     -> {"name", "constants"}
    [] k = "closure"      -> {"fn", "upvals"}
    [] k = "class"        -> {"name", "methods", "overloaded"}
    [] k = "instance"     -> {"oclass", "fields"}
    [] k = "bound_method" -> {"receiver", "method"}
    [] k = "native"       -> {"name"}
    [] OTHER              -> {}

Children(o) == {p \in Obj : \E f \in Traced(Kind[o]) : <<o, f, p>> \in edges}

MarkBlack(o) == /\ pc = "trace" /\ o \in gray
                /\ OMarkAll(Children(o), gray \ {o})
                /\ UNCHANGED <<hvars, pc, pending, unswept>>

TraceDone == /\ pc = "trace" /\ gray = {}
             /\ pc' = "weak"
             /\ UNCHANGED <<hvars, marked, gray, pending, unswept>>

(* rmweakrefs drops the interned strings that were not marked.             *)
RemoveWeak(s) == /\ pc = "weak" /\ s \in strings \ marked
                 /\ strings' = strings \ {s}
                 /\ UNCHANGED <<objects, edges, roots, compiling, gcvars>>

(* Mutant: sweep starts without rmweakrefs.                                *)
NoWeakRemoval == /\ pc = "weak"
                 /\ pc' = "sweep" /\ unswept' = objects
                 /\ UNCHANGED <<hvars, marked, gray, pending>>

WeakDone == /\ pc = "weak" /\ strings \subseteq marked
            /\ pc' = "sweep" /\ unswept' = objects
            /\ UNCHANGED <<hvars, marked, gray, pending>>

(* Mutant: the mark bit of a survivor stays set.                           *)
KeepMark(o) == o \in marked /\ UNCHANGED <<hvars, marked>>

(* sweep: unmark the survivors, unlink and free the others.                *)
Survive(o) == /\ o \in marked
              /\ marked' = marked \ {o}
              /\ UNCHANGED hvars

Reclaim(o) == /\ o \notin marked
              /\ objects' = objects \ {o}
              /\ edges' = {e \in edges : e[1] # o}
              /\ UNCHANGED <<roots, strings, compiling, marked>>

(* Mutant: after an unlinked object the loop advances twice.               *)
SkipNext(o) == /\ pc = "sweep" /\ o \in unswept
               /\ \/ Survive(o) /\ unswept' = unswept \ {o}
                  \/ /\ Reclaim(o)
                     /\ \/ unswept' = unswept \ {o}
                        \/ \E p \in unswept : unswept' = unswept \ {o, p}
               /\ UNCHANGED <<pc, gray, pending>>

Sweep(o) == /\ pc = "sweep" /\ o \in unswept
            /\ Survive(o) \/ Reclaim(o)
            /\ unswept' = unswept \ {o}
            /\ UNCHANGED <<pc, gray, pending>>

SweepDone == /\ pc = "sweep" /\ unswept = {}
             /\ pc' = "idle"
             /\ UNCHANGED <<hvars, marked, gray, pending, unswept>>

GCStep == \/ \E r \in RootKinds : MarkRoots(r)
          \/ RootsDone
          \/ \E o \in Obj : MarkBlack(o) \/ RemoveWeak(o) \/ Sweep(o)
          \/ TraceDone \/ WeakDone \/ SweepDone

GCNext == Mutator \/ StartGC \/ GCStep

(* gc() is a plain call: once entered, it runs to its end.                 *)
GCSpec == GCInit /\ [][GCNext]_vars /\ WF_vars(GCStep)
----------------------------------------------------------------------------
(* Types; only strings are interned, and a string is never on the gray     *)
(* stack: mark_black would run into its "unreachable".                     *)
TypeOK ==
  /\ objects \subseteq Obj
  /\ strings \subseteq {o \in Obj : Kind[o] = "string"}
  /\ edges \subseteq Edges
  /\ roots \in [RootKinds -> SUBSET Obj]
  /\ compiling \in BOOLEAN
  /\ pc \in {"idle", "roots", "trace", "weak", "sweep"}
  /\ marked \subseteq Obj
  /\ gray \subseteq {o \in Obj : Kind[o] # "string"}
  /\ pending \subseteq RootKinds /\ unswept \subseteq Obj

(* No dangling reference: whatever the program can reach, or look up in    *)
(* the intern table, is allocated.                                         *)
NoDangling == Reachable \subseteq objects /\ strings \subseteq objects

(* The tri-colour invariant: while marking, no black object refers to a    *)
(* white one, and the roots already visited are not white.                 *)
TriColour ==
  pc \in {"roots", "trace", "weak"} =>
    /\ \A e \in edges : e[1] \in marked \ gray => e[3] \in marked
    /\ \A r \in RootKinds \ pending : roots[r] \subseteq marked

(* Between collections no mark bit is set: a stale one would make the next *)
(* collection stop at that object and free what it refers to.              *)
MarksCleared == pc = "idle" => marked = {} /\ gray = {}

(* A collection is complete: when it ends exactly the objects the program  *)
(* can reach are left, and the intern table holds no other string.         *)
CollectsAll ==
  [][pc = "sweep" /\ pc' = "idle" =>
       objects = Reachable /\ strings \subseteq Reachable]_vars

(* Every collection ends. *)
Terminates == pc # "idle" ~> pc = "idle"

(* The collector frees only what ManagedHeap lets go.                      *)
HeapSpec == Spec
============================================================================
