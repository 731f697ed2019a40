---------------------------- MODULE MCCollector ----------------------------
(* A small heap: an instance, its class and a string.  MCKind says which   *)
(* cell holds what.                                                        *)
EXTENDS Collector, TLC

CONSTANTS ins, cls, str

MCKind == (ins :> "instance") @@ (cls :> "class") @@ (str :> "string")

MCRootKinds == {"stack", "compiler"}
============================================================================
