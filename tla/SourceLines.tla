---------------------------- MODULE SourceLines -----------------------------
(***************************************************************************)
(* From the source text to the line of an error: the scanner gives each    *)
(* token its line, the compiler writes code with the line of the token     *)
(* before, and deletes code now and then.                                  *)
(***************************************************************************)
EXTENDS Lexer, LineTable

CONSTANTS MaxTrims    (* bound: deletions                                  *)
ASSUME SourceLinesAssumption == MaxTrims \in Nat

VARIABLE trims        (* deletions so far                                  *)
vars == <<lvars, tvars, trims>>

Init == LexInit /\ TableInit /\ trims = 0

(* advance() and CODE(): the compiler goes on to a token and writes code.  *)
Compile == /\ NextToken
           /\ IF tok'.type = "eof" THEN UNCHANGED tvars ELSE Write(tok'.line)
           /\ UNCHANGED trims

(* restorecontext(), PARAM_POP and so on.                                  *)
Delete == /\ trims < MaxTrims /\ trims' = trims + 1
          /\ \E n \in 0 .. CodeLen - 1 : Trim(n)
          /\ UNCHANGED lvars

Next == Compile \/ Delete
Spec == Init /\ [][Next]_vars
=============================================================================
