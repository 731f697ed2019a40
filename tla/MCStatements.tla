---------------------------- MODULE MCStatements ----------------------------
(* Functions of a few statements.  Known names the kinds of program that   *)
(* the compiler gets wrong.                                                *)
EXTENDS Statements

Known == Kinds
============================================================================
