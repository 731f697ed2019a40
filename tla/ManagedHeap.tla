---------------------------- MODULE ManagedHeap ----------------------------
(***************************************************************************)
(* The heap as the interpreter may rely on it, with no collector in sight: *)
(* objects come and go, but one goes only when the program can no longer   *)
(* reach it.  The intern table (vm->strings) refers to its strings weakly. *)
(* The mark-and-sweep collector of mem.c implements this specification     *)
(* (module Collector).                                                     *)
(***************************************************************************)
EXTENDS FiniteSets

CONSTANTS
  Obj,        (* heap cells                                                *)
  Kind,       (* the type tag of the object a cell holds                   *)
  RootKinds   (* where the VM keeps references outside the heap            *)

(* Values never refer to an upvalue: only a closure does.                  *)
ValueKinds == {"string", "function", "closure", "class", "instance",
               "bound_method", "native"}
Kinds == ValueKinds \cup {"upvalue"}

(* The references each type of object holds (object.h), and what they may  *)
(* refer to.                                                               *)
FieldsOf(k) ==
  CASE k = "upvalue"      -> {"closed"}
    [] k = "function"     -> {"name", "constants"}
    [] k = "closure"      -> {"fn", "upvals"}
    [] k = "class"        -> {"name", "methods", "overloaded"}
    [] k = "instance"     -> {"oclass", "fields"}
    [] k = "bound_method" -> {"receiver", "method"}
    [] k = "native"       -> {"name"}
    [] OTHER              -> {}

Holds(f) ==
  CASE f \in {"closed", "constants", "fields", "receiver"} -> ValueKinds
    [] f = "name"                     -> {"string"}
    [] f = "fn"                       -> {"function"}
    [] f = "upvals"                   -> {"upvalue"}
    [] f = "methods"                  -> {"string", "closure", "native"}
    [] f = "oclass"                   -> {"class"}
    [] OTHER                          -> {"closure"}

Fields == UNION {FieldsOf(k) : k \in Kinds}

(* What each kind of root can hold: vm->frames, vm->open_upvals, the names  *)
(* in vm->statics, vm->script, the functions and tokens of the compiler;   *)
(* the stack, the globals and vm->loaded hold any value.                   *)
HeldBy(r) ==
  CASE r = "frames"              -> {"closure"}
    [] r = "upvals"              -> {"upvalue"}
    [] r \in {"statics", "script"} -> {"string"}
    [] r = "compiler"            -> {"function", "string"}
    [] OTHER                     -> ValueKinds

(* Where a new object goes first: captureupval links an upvalue, F_init    *)
(* stores a function, everything else is pushed.                           *)
Home(k) == CASE k = "upvalue"  -> "upvals"
             [] k = "function" -> "compiler"
             [] OTHER          -> "stack"

ASSUME HeapAssumption ==
  \A o \in Obj : Kind[o] \in Kinds /\ Home(Kind[o]) \in RootKinds

VARIABLES
  objects,    (* allocated cells: the vm->objects list                     *)
  edges,      (* <<o, f, p>>: field f of object o refers to object p       *)
  roots,      (* the references held in each kind of root                  *)
  strings,    (* the keys of vm->strings                                   *)
  compiling   (* runtime = 0: a compiler is active                         *)

hvars == <<objects, edges, roots, strings, compiling>>

Edges == {e \in Obj \X Fields \X Obj :
            e[2] \in FieldsOf(Kind[e[1]]) /\ Kind[e[3]] \in Holds(e[2])}

(* The least set that holds the roots and follows every reference.         *)
Closed(S) == \A e \in edges : e[1] \in S => e[3] \in S
RootSet   == UNION {roots[r] : r \in RootKinds}
Reachable == {o \in Obj : \A S \in SUBSET Obj :
                            RootSet \subseteq S /\ Closed(S) => o \in S}

Init == /\ objects = {} /\ edges = {} /\ strings = {}
        /\ roots = [r \in RootKinds |-> {}]
        /\ compiling = TRUE

(* onew, and the reference that is then kept; a new string is interned.    *)
Allocate(o) ==
  /\ o \notin objects
  /\ Kind[o] = "function" => compiling
  /\ objects' = objects \cup {o}
  /\ roots' = [roots EXCEPT ![Home(Kind[o])] = @ \cup {o}]
  /\ strings' = IF Kind[o] = "string" THEN strings \cup {o} ELSE strings
  /\ UNCHANGED <<edges, compiling>>

(* The program stores and drops references between objects it can reach.   *)
SetField(e) ==
  /\ e[1] \in Reachable /\ e[3] \in Reachable
  /\ edges' = edges \cup {e}
  /\ UNCHANGED <<objects, roots, strings, compiling>>

ClearField(e) ==
  /\ e[1] \in Reachable
  /\ edges' = edges \ {e}
  /\ UNCHANGED <<objects, roots, strings, compiling>>

(* A reference is copied to a root; OString_from may also bring back an    *)
(* interned string nothing refers to any more.                             *)
AddRoot(r, o) ==
  /\ o \in Reachable \cup strings
  /\ Kind[o] \in HeldBy(r) \ {"upvalue"}
  /\ r = "compiler" => compiling
  /\ roots' = [roots EXCEPT ![r] = @ \cup {o}]
  /\ UNCHANGED <<objects, edges, strings, compiling>>

DropRoot(r, o) ==
  /\ roots' = [roots EXCEPT ![r] = @ \ {o}]
  /\ UNCHANGED <<objects, edges, strings, compiling>>

(* compile_script and run toggle "runtime"; a compiler that is done has    *)
(* freed its Function states.                                              *)
Toggle == /\ compiling' = ~compiling
          /\ roots' = [roots EXCEPT !["compiler"] = {}]
          /\ UNCHANGED <<objects, edges, strings>>

Mutate == \/ \E o \in Obj : Allocate(o)
          \/ \E e \in Edges : SetField(e) \/ ClearField(e)
          \/ \E r \in RootKinds, o \in Obj : AddRoot(r, o) \/ DropRoot(r, o)
          \/ Toggle

(* What a collection may do, one object at a time.                         *)
Forget(s) == /\ s \in strings \ Reachable
             /\ strings' = strings \ {s}
             /\ UNCHANGED <<objects, edges, roots, compiling>>

Free(o) == /\ o \in objects \ (Reachable \cup strings)
           /\ objects' = objects \ {o}
           /\ edges' = {e \in edges : e[1] # o}
           /\ UNCHANGED <<roots, strings, compiling>>

Next == Mutate \/ \E o \in Obj : Forget(o) \/ Free(o)

Spec == Init /\ [][Next]_hvars
============================================================================
