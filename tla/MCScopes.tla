------------------------------ MODULE MCScopes ------------------------------
(* Small programs: how deep functions and scopes nest.                     *)
EXTENDS Scopes

CONSTANTS x, y, f

(* Locals in functions, captured by the functions directly inside them.    *)
OneLevel == <<0, 2, 1>>

(* Blocks in the script, one level of functions.                           *)
Blocks == <<2, 1>>

(* A block in the script, functions in functions.                          *)
Nested == <<1, 1, 1>>
============================================================================
