--------------------------- MODULE MCHashTable ---------------------------
(* TLC instances of HashTable: few keys with chosen collisions.            *)
EXTENDS HashTable, TLC

CONSTANTS k1, k2, k3, k4, k5

(* k1, k2 and k4 share a home in every small array; k3 is their neighbour. *)
MCHash == (k1 :> 3) @@ (k2 :> 3) @@ (k3 :> 0) @@ (k4 :> 7) @@ (k5 :> 5)

(* A superclass table after two insertions and one expansion, and one with *)
(* a single method.                                                        *)
MCSources ==
  { (0 :> [key |-> k3, val |-> True]) @@ (1 :> FreeEntry) @@
      (2 :> FreeEntry) @@ (3 :> [key |-> k1, val |-> True]),
    (0 :> FreeEntry) @@ (1 :> [key |-> k2, val |-> Nil]) }

(* Five strings in vm->strings, three keys in a table of fields.           *)
MCActive == (TRUE :> Keys) @@ (FALSE :> {k1, k2, k3})
MCMaxCap == (TRUE :> 16) @@ (FALSE :> 8)
==========================================================================
