---------------------------- MODULE MCExpressions ---------------------------
(* Statements of a few tokens, without those that are compiled wrongly.    *)
EXTENDS Expressions

Known == Kinds
============================================================================
