------------------------------ MODULE Recovery ------------------------------
(***************************************************************************)
(* The parser of parser.c as a reader of tokens: which token each C        *)
(* function takes, what it reports, and how it goes on after an error.     *)
(* One behaviour compiles one source text.  cs is what the C functions     *)
(* that are running have still to do: a token on it is an expect() of that *)
(* token, a capitalised word the rest of a C function.                     *)
(***************************************************************************)
EXTENDS SequencesExt, Integers

CONSTANTS
  Tokens,       (* the types of token in the sources compiled              *)
  Openings,     (* bound: the tokens a source text may begin with ...      *)
  MaxToks,      (* ... and how many follow them, any of Tokens             *)
  Avoid         (* bound: kinds of source left out, see Following          *)

Eof == "eof"
Openers == {"(", "[", "{"}
Closes == [c \in {")", "]", "}"} |-> CASE c = ")" -> "(" [] c = "]" -> "["
                                       [] c = "}" -> "{"]

(* The tokens sync() stops at.                                             *)
SyncSet == {"for", "fn", "var", "class", "if", "return", "continue", "break",
            "while", "foreach", "loop", "switch"}

(* The C functions, whole or from some point on.                           *)
Goals == {"Args", "Assign", "Block", "Called", "Cases", "Classdec", "ConstCall",
          "Dec", "Dot", "Else", "Explist", "Expr", "Exprstm", "Factory", "First",
          "FixedDec", "FixedVardec", "ForCond", "ForInit", "ForLast", "ForVardec",
          "Function", "Indexed", "Init", "Label", "Leave", "Limit", "Methods",
          "MoreCases", "MoreExp", "MoreNames", "Named", "Names", "Operand",
          "Operated", "Operators", "Params", "Primary", "Return", "Script", "Simple",
          "Skip", "Stm", "SubMethods", "Suffix", "Suffixed", "Super", "Sync",
          "Target", "Targets", "Twice", "Vardec"}

ASSUME RecoveryAssumption ==
  /\ {"id", ";"} \subseteq Tokens /\ Tokens \cap (Goals \cup {Eof}) = {}
  /\ Openings \subseteq Seq(Tokens) \ {<<>>} /\ MaxToks \in Nat
  /\ Avoid \subseteq {"fixed_any"}

VARIABLES
  cs,           (* what the running C functions have still to do           *)
  curr,         (* the type of CURRT                                       *)
  semi,         (* is PREVT a semicolon? nothing else is asked of it       *)
  panic, error, (* the flags of the Lexer                                  *)
  et,           (* what the last Exp is: a variable, constant, call, other *)
  opening, left,(* tokens the source goes on with, and how many after them *)
  nest,         (* history: brackets open in the tokens taken              *)
  told,         (* history: a message about the current token              *)
  again,        (* history: two messages about one token                   *)
  unclosed      (* history: bodies of switches that ended with the file    *)

vars == <<cs, curr, semi, panic, error, et, opening, left, nest, told, again,
          unclosed>>

ExpTypes == {"var", "const", "call", "other"}

----------------------------------------------------------------------------
(* scan(): any token, or the end of the source.  Under "fixed_any" nothing *)
(* but var follows fixed: see FixedDec.                                    *)
Text == IF opening # <<>> THEN {Head(opening)}
        ELSE IF left = 0 \/ curr = Eof THEN {Eof}
        ELSE Tokens \cup {Eof}
Following == IF curr = "fixed" /\ "fixed_any" \in Avoid THEN Text \cap {"var", Eof}
             ELSE Text

Shut(t) == IF nest # <<>> /\ Last(nest) = Closes[t] THEN Front(nest) ELSE <<"bad">>
Nested(t) == IF nest = <<"bad">> THEN nest
             ELSE IF t \in Openers THEN Append(nest, t)
             ELSE IF t \in DOMAIN Closes THEN Shut(t) ELSE nest

(* advance().  The scanner may have complained about characters before the *)
(* next token (TOK_ERROR), or about the token itself: this too sets panic. *)
Advance(p) ==
  \E t \in Following, bad \in BOOLEAN :
    /\ bad => curr # Eof
    /\ opening' = IF opening # <<>> THEN Tail(opening) ELSE <<>>
    /\ left' = IF opening # <<>> \/ left = 0 THEN left ELSE left - 1
    /\ curr' = t /\ semi' = (curr = ";")
    /\ panic' = (p \/ bad) /\ error' = (error \/ p \/ bad)
    /\ told' = FALSE
    /\ nest' = IF error \/ p \/ bad THEN <<>> ELSE Nested(curr)

(* error(): silent while panic is set (mutant: whatever panic is).         *)
AlwaysTold(wrong) == wrong
Reports(wrong)    == wrong /\ ~panic

(* The class whose methods are being read, and whether it has a superclass.*)
InClass    == \E i \in DOMAIN cs : cs[i] \in {"Methods", "SubMethods"}
InSubclass == \E i \in DOMAIN cs : cs[i] = "SubMethods"
                                   /\ \A j \in 1 .. i - 1 : cs[j] # "Methods"

(* The tokens that dec and stm go forward on, whatever follows.            *)
StmStart == {"while", "for", "foreach", "if", "switch", "{", "continue", "break",
             "return", "loop", ";", "(", "id", ".", "[", "=", ","}
              \cup (IF InClass THEN {"self"} ELSE {})
              \cup (IF InSubclass THEN {"super"} ELSE {})
DecStart == StmStart \cup {"var", "fixed", "fn", "class"}

(* One step of a C function: it reports an error or not, takes the current *)
(* token or not, and has rest still to do.                                 *)
Do(rest, take, wrong) ==
  /\ cs' = rest \o Tail(cs)
  /\ again' = (again \/ (Reports(wrong) /\ told /\ curr # Eof
                       /\ ~(semi /\ curr \notin DecStart)))
  /\ IF take THEN Advance(panic \/ wrong)
     ELSE /\ panic' = (panic \/ wrong) /\ error' = (error \/ wrong)
          /\ told' = (told \/ Reports(wrong))
          /\ nest' = IF error' THEN <<>> ELSE nest
          /\ UNCHANGED <<curr, semi, opening, left>>

Take(rest) == Do(rest, TRUE, FALSE)
Go(rest)   == Do(rest, FALSE, FALSE)
(* match(): take t and go on with yes, or go on with no.                   *)
Match(t, yes, no) == IF curr = t THEN Take(yes) ELSE Go(no)
(* An error about tokens that have been taken already ...                  *)
Complain(rest, wrong) ==
  /\ cs' = rest \o Tail(cs)
  /\ panic' = (panic \/ wrong) /\ error' = (error \/ wrong)
  /\ nest' = IF error' THEN <<>> ELSE nest
  /\ UNCHANGED <<curr, semi, opening, left, told, again>>
(* ... which, if it depends on what the model does not follow (names,      *)
(* limits, values), is reported or not.                                    *)
MayReport(rest) == \E wrong \in BOOLEAN : Complain(rest, wrong)

At(goal) == cs # <<>> /\ Head(cs) = goal
Plain(goal) == At(goal) /\ UNCHANGED <<et, unclosed>>

(* expect() *)
Expect == /\ cs # <<>> /\ Head(cs) \in Tokens
          /\ Do(<<>>, curr = Head(cs), curr # Head(cs))
          /\ UNCHANGED <<et, unclosed>>

----------------------------------------------------------------------------
(* Expressions.  Priorities decide how operators group, not which tokens   *)
(* are read; "-" stands for the operators, unary and binary, "lit" for     *)
(* numbers, strings, nil, true and false.                                  *)
Expr    == Plain("Expr") /\ Go(<<"Operand", "Operators">>)
Operand == Plain("Operand") /\ Match("-", <<"Operand">>, <<"Simple">>)
Simple  == /\ At("Simple") /\ Match("lit", <<>>, <<"Suffixed">>)
           /\ et' = IF curr = "lit" THEN "const" ELSE et
           /\ UNCHANGED unclosed

(* An operation is folded, has the Exp of its last operand (and, or), or is*)
(* an expression of its own.                                               *)
Operators == /\ Plain("Operators")
             /\ Match("-", <<"Operand", "Operated", "Operators">>, <<>>)
Operated  == /\ At("Operated") /\ Go(<<>>)
             /\ et' \in {et, "other"} /\ UNCHANGED unclosed

Suffixed == Plain("Suffixed") /\ Go(<<"Primary", "Suffix">>)

(* primaryexp(): an unexpected symbol is reported and not taken.           *)
Primary ==
  /\ At("Primary")
  /\ CASE curr = "(" -> Take(<<"Expr", ")">>)
       [] curr = "id" -> Take(<<>>)
       [] curr = "self" /\ InClass -> Take(<<>>)
       [] curr = "super" /\ InSubclass -> Take(<<".", "id", "Super">>)
       [] OTHER -> Do(<<>>, FALSE, TRUE)
  /\ et' = IF curr \in {"id", "self"} THEN "var" ELSE "other"
  /\ UNCHANGED unclosed

(* The end of _super().  A method of the superclass cannot be assigned to. *)
Super == /\ At("Super")
         /\ IF curr = "(" THEN Take(<<"Args", "Called">>) ELSE MayReport(<<>>)
         /\ et' = "var" /\ UNCHANGED unclosed

Suffix ==
  /\ Plain("Suffix")
  /\ CASE curr = "." -> Take(<<"id", "Dot", "Suffix">>)
       [] curr = "[" -> Take(<<"Expr", "]", "Indexed", "Suffix">>)
       [] curr = "(" -> Do(<<"Args", "Called", "Suffix">>, TRUE, et = "const")
       [] OTHER -> Go(<<>>)
Dot     == /\ At("Dot") /\ Match("(", <<"Args", "Called">>, <<>>)
           /\ et' = "var" /\ UNCHANGED unclosed
Indexed == /\ At("Indexed")
           /\ Match("(", <<"ConstCall", "Args", "Called">>, <<>>)
           /\ et' = (IF curr = "(" THEN et ELSE "var") /\ UNCHANGED unclosed
ConstCall == Plain("ConstCall") /\ Complain(<<>>, et = "const")

(* call() and explist(), which counts its elements against a limit.        *)
Args    == Plain("Args") /\ Go(IF curr = ")" THEN <<")">> ELSE <<"Explist", ")">>)
Called  == At("Called") /\ Go(<<>>) /\ et' = "call" /\ UNCHANGED unclosed
Explist == Plain("Explist") /\ Go(<<"Expr", "MoreExp">>)
MoreExp == /\ Plain("MoreExp")
           /\ Match(",", <<"Limit", "Explist">>, <<>>)
Limit   == Plain("Limit") /\ MayReport(<<>>)

----------------------------------------------------------------------------
(* Declarations.                                                           *)
(* name() declares what expect() has left in PREVT.                        *)
Names     == Plain("Names") /\ Go(<<"id", "Named", "MoreNames">>)
Named     == Plain("Named") /\ MayReport(<<>>)
MoreNames == Plain("MoreNames") /\ Match(",", <<"Names">>, <<>>)

VarRest     == <<"Names", "Init", ";">>
Vardec      == Plain("Vardec") /\ Match("fixed", VarRest, VarRest)
(* In a for, the flag of an enclosing for may still be set.                *)
ForVardec   == Plain("ForVardec") /\ Match("fixed", <<"Named">> \o VarRest, VarRest)
FixedVardec == /\ Plain("FixedVardec")
               /\ Match("fixed", <<"Twice">> \o VarRest, VarRest)
Twice       == Plain("Twice") /\ Complain(<<>>, TRUE)
InitRest    == Plain("Init") /\ Match("=", <<"Explist">>, <<>>)
(* fvardec(): advance() takes the token after fixed, whatever it is.       *)
FixedDec    == Plain("FixedDec") /\ Take(<<"FixedVardec">>)

Function == Plain("Function") /\ Go(<<"(", "Params", ")">> \o <<"{", "Block">>)
Params   == Plain("Params") /\ Go(IF curr = ")" THEN <<>> ELSE <<"Names">>)

Classdec == /\ Plain("Classdec")
            /\ Match("impl", <<"id", "Named", "{", "SubMethods">>, <<"{", "Methods">>)
Methods(g) ==
  /\ Plain(g)
  /\ Go(IF curr \in {"}", Eof} THEN <<"}">> ELSE <<"fn", "id", "Function", g>>)

(* dec(): one declaration or statement, and sync() if panic is set.        *)
Dec ==
  /\ Plain("Dec")
  /\ CASE curr = "var" -> Take(<<"Vardec", "Sync">>)
       [] curr = "fixed" -> Take(<<"FixedDec", "Sync">>)
       [] curr = "fn" -> Take(<<"id", "Named", "Function", "Sync">>)
       [] curr = "class" -> Take(<<"id", "Named", "Classdec", "Sync">>)
       [] OTHER -> Go(<<"Stm", "Sync">>)

Sync == /\ At("Sync")
        /\ cs' = IF panic THEN <<"Skip">> \o Tail(cs) ELSE Tail(cs)
        /\ panic' = FALSE
        /\ UNCHANGED <<curr, semi, error, et, opening, left, nest, told, again, unclosed>>
(* The loop of sync().                                                     *)
Boundary == curr \in SyncSet \cup {Eof} \/ semi
Skip == Plain("Skip") /\ IF Boundary THEN Go(<<>>) ELSE Take(<<"Skip">>)

(* compile() *)
Script == Plain("Script") /\ Go(IF curr = Eof THEN <<>> ELSE <<"Dec", "Script">>)

----------------------------------------------------------------------------
(* Statements.                                                             *)
Cond == <<"(", "Expr", ")">>

Stm ==
  /\ Plain("Stm")
  /\ CASE curr = "while" -> Take(Cond \o <<"Stm">>)
       [] curr = "for" -> Take(<<"(", "ForInit", "ForCond", "ForLast", "Stm">>)
       [] curr = "foreach" -> Take(<<"Names", "in", "Expr", "Factory", "Stm">>)
       [] curr = "if" -> Take(Cond \o <<"Stm", "Else">>)
       [] curr = "switch" -> Take(Cond \o <<"{", "First", "Cases">>)
       [] curr = "{" -> Take(<<"Block">>)
       [] curr \in {"continue", "break"} -> Take(<<";", "Leave">>)
       [] curr = "return" -> Take(<<"Return">>)
       [] curr = "loop" -> Take(<<"Stm">>)
       [] curr = ";" -> Take(<<>>)
       [] OTHER -> Go(<<"Exprstm", ";">>)

Else  == Plain("Else") /\ Match("else", <<"Stm">>, <<>>)
Leave == Plain("Leave") /\ MayReport(<<>>)        (* break outside a loop  *)

(* block(), and its mutants: it ends with the file as switchstm does, or   *)
(* not at all with the file.                                               *)
OnlyBrace == curr = "}"
BlockOver == curr \in {"}", Eof}
OpenEnd  == IF curr = Eof THEN <<>> ELSE <<"}">>
BlockEnd == <<"}">>
Block == Plain("Block") /\ Go(IF BlockOver THEN BlockEnd ELSE <<"Dec", "Block">>)

(* An initializer cannot return a value.                                   *)
Return == /\ Plain("Return")
          /\ IF curr = ";" THEN Take(<<>>)
             ELSE \E wrong \in {FALSE, InClass} : Complain(<<"Explist", ";">>, wrong)

ForInit ==
  /\ Plain("ForInit")
  /\ CASE curr = ";" -> Take(<<>>)
       [] curr = "var" -> Take(<<"ForVardec">>)
       [] curr = "fixed" -> Take(<<"FixedDec">>)
       [] OTHER -> Go(<<"Exprstm", ";">>)
ForCond == Plain("ForCond") /\ Match(";", <<>>, <<"Expr", ";">>)
ForLast == Plain("ForLast") /\ Match(")", <<>>, <<"Exprstm", ")">>)
Factory == /\ Plain("Factory")
           /\ Complain(<<"MoreExp">>, et = "const")

(* exprstm().  A single expression is accepted whatever it is, because     *)
(* etiscall() holds of every type.                                         *)
Exprstm == Plain("Exprstm") /\ Go(<<"Suffixed", "Assign">>)
Assign  == /\ Plain("Assign")
           /\ IF curr \in {"=", ","}
                THEN Complain(<<"Targets", "=", "Explist">>, et # "var")
                ELSE Go(<<>>)
Targets == Plain("Targets") /\ Match(",", <<"Suffixed", "Target", "Targets">>, <<>>)
Target  == Plain("Target") /\ Complain(<<>>, et # "var")

(* switchstm(): the labels and statements of the body, until the brace or  *)
(* the end of the file.  A second default is reported.                     *)
First == /\ Plain("First")
         /\ Do(<<>>, FALSE, curr \notin {"}", Eof, "case", "default"})
Cases(g) ==
  /\ At(g)
  /\ CASE curr = "}" -> Take(<<>>)
       [] curr = Eof -> Go(<<>>)
       [] curr = "case" -> Take(<<"Expr", ":", "Label", g>>)
       [] curr = "default" -> Take(IF g = "Cases" THEN <<":", "MoreCases">>
                                   ELSE <<"Twice", g>>)
       [] OTHER -> Go(<<"Stm", g>>)
  /\ unclosed' = IF curr = Eof /\ ~error THEN unclosed + 1 ELSE unclosed
  /\ UNCHANGED et
Label == Plain("Label") /\ MayReport(<<>>)         (* a duplicate constant  *)

----------------------------------------------------------------------------
(* compile(): the first advance().                                         *)
Init ==
  /\ cs = <<"Script">> /\ semi = FALSE /\ et = "other"
  /\ \E s \in Openings : curr = Head(s) /\ opening = Tail(s)
  /\ left = MaxToks
  /\ panic \in BOOLEAN /\ error = panic
  /\ nest = <<>> /\ told = FALSE /\ again = FALSE /\ unclosed = 0

Expressions  == \/ Expr \/ Operand \/ Simple \/ Operators \/ Operated \/ Suffixed
                \/ Primary \/ Super \/ Suffix \/ Dot \/ Indexed \/ ConstCall \/ Args \/ Called
                \/ Explist \/ MoreExp \/ Limit
Declarations == \/ Names \/ Named \/ MoreNames \/ Vardec \/ ForVardec \/ FixedVardec
                \/ Twice \/ InitRest \/ FixedDec \/ Function \/ Params \/ Classdec
                \/ Methods("Methods") \/ Methods("SubMethods")
                \/ Dec \/ Sync \/ Skip \/ Script
Statements   == \/ Stm \/ Else \/ Leave \/ Block \/ Return \/ ForInit \/ ForCond
                \/ ForLast \/ Factory \/ Exprstm \/ Assign \/ Targets \/ Target
                \/ First \/ Cases("Cases") \/ Cases("MoreCases") \/ Label

Next == Expect \/ Expressions \/ Declarations \/ Statements
Spec == Init /\ [][Next]_vars
(* The compiler is one straight-line call of the only thread.              *)
FairSpec == Spec /\ WF_vars(Next)

----------------------------------------------------------------------------
Done == cs = <<>>

(* Where compile never returns: sync() stops behind a semicolon even when  *)
(* the statement it goes on with is the one that has just failed there;    *)
(* and the body of a switch, which calls stm and not dec, does not sync.   *)
Hung == \/ At("Dec") /\ semi /\ curr \notin DecStart \cup {Eof}
        \/ /\ At("Cases") \/ At("MoreCases")
           /\ curr \notin StmStart \cup {Eof, "}", "case", "default"}

(* compile returns for every source: no loop of the parser goes on for ever*)
(* without taking a token, except in the two places of Hung.               *)
Ends == <>(Done \/ Hung)

(* The same without the exception, as sync() promises.                     *)
Returns == <>Done

(* What compiles without an error has its brackets in pairs: recovery, the *)
(* ends of loops at the end of the file and the optional parts of the      *)
(* grammar never let one slip, except the brace of a switch's body.        *)
Balanced == (Done /\ ~error) => nest = [i \in 1 .. unclosed |-> "{"]

(* One mistake is one message: after it the parser is silent until it has  *)
(* taken a token, though it may have returned from many functions since.   *)
NoCascade == ~again
============================================================================
