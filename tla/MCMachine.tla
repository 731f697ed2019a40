----------------------------- MODULE MCMachine -----------------------------
(* A script, two functions of one parameter and two upvalues.  Functions   *)
(* and upvalues are interchangeable.                                       *)
EXTENDS Machine, TLC

CONSTANTS main, c1, c2, u1, u2

MCArity  == [c \in Clo |-> IF c = main THEN 0 ELSE 1]
Symmetry == Permutations({c1, c2}) \cup Permutations({u1, u2})
============================================================================
