------------------------------- MODULE Lexer --------------------------------
(***************************************************************************)
(* The scanner (lexer.c) over character classes, one token per step.  A    *)
(* source is a sequence of characters; the NUL behind it is at position    *)
(* Len(src) + 1, and what follows is not the scanner's to read.  Positions *)
(* are those of _current; line is counted by nextchar and advance, which   *)
(* pass every character, and once more by hexdigit when it steps back.     *)
(***************************************************************************)
EXTENDS Integers, Sequences, FiniteSets

CONSTANTS
  Sources,      (* bound: the source texts                                 *)
  Avoid         (* bound: kinds of text left out, by name; see Left        *)

(* The characters a source is made of.  Any other letter, digit or sign is *)
(* treated as one of these: "8" is a digit that is not octal, "a", "c", "e"*)
(* and "f" are hexadecimal, "a" to "r" spell or, in, if, fn, for, foreach, *)
(* "+" is a token of one character, "=" may follow "!" or "=" in one; "@"  *)
(* is no token at all.                                                     *)
Digits  == {"0", "7", "8"}
Letters == {"a", "c", "e", "f", "h", "i", "n", "o", "r", "x"}
Alnum   == Digits \cup Letters
Hex     == Digits \cup {"a", "c", "e", "f"}
Blanks  == {"sp", "nl", "cr"}
Symbols == {"+", ".", "/"}
Chars   == Alnum \cup Blanks \cup Symbols \cup {"!", "=", "quote", "bslash", "@"}
Nul     == "NUL"

ASSUME LexerAssumption ==
  /\ Sources \subseteq Seq(Chars)
  /\ Avoid \subseteq {"hex_newline", "escape_end", "exponent", "ellipsis", "octal_digit"}

VARIABLES
  src,          (* the source                                              *)
  from, pos,    (* _current before the last call of scan(), and now        *)
  line,         (* the line the scanner counts                             *)
  tok           (* the last token                                          *)

lvars == <<src, from, pos, line, tok>>

Char(p) == IF p <= Len(src) THEN src[p] ELSE IF p = Len(src) + 1 THEN Nul ELSE "beyond"
(* The first position from p on with a character outside of C.             *)
Past(p, C) == CHOOSE q \in p .. Len(src) + 2 :
                Char(q) \notin C /\ \A r \in p .. q - 1 : Char(r) \in C
(* Mutant of Newlines: advance() does not count.                           *)
NoNewlines(p, q) == 0
(* Newlines that nextchar counts on the way from p to q.                   *)
Newlines(p, q) == Cardinality({r \in p .. q - 1 : Char(r) = "nl"})

(* token(): type, slice and line; err says that lexerror was called.       *)
Token(type, start, end, ln, err) ==
  [type |-> type, start |-> start, end |-> end, line |-> ln, err |-> err]

----------------------------------------------------------------------------
(* skipws(): where the next token begins.                                  *)
RECURSIVE SkipWs(_)
SkipWs(p) ==
  IF Char(p) \in Blanks THEN SkipWs(p + 1)
  ELSE IF Char(p) = "/" /\ Char(p + 1) = "/" THEN SkipWs(Past(p, Chars \ {"nl"}))
  ELSE p

(* idtoken() and the decision tree of TokenType_identifier(), for the words*)
(* that the letters above can spell: the first characters select a keyword,*)
(* keyword() compares the length and the rest.                             *)
Text(p, q) == SubSeq(src, p, q - 1)
(* Mutant: the rest is compared and the length is not.                     *)
PrefixWord(p, q, n, rest, type) ==
  IF q - p >= n + Len(rest) /\ Text(p + n, p + n + Len(rest)) = rest THEN type ELSE "id"
Keyword(p, q, n, rest, type) ==
  IF q - p = n + Len(rest) /\ Text(p + n, q) = rest THEN type ELSE "id"
WordType(p, q) ==
  CASE src[p] = "o" -> Keyword(p, q, 1, <<"r">>, "or")
    [] src[p] = "i" /\ Char(p + 1) = "f" -> Keyword(p, q, 2, <<>>, "if")
    [] src[p] = "i" /\ Char(p + 1) = "n" -> Keyword(p, q, 2, <<>>, "in")
    [] src[p] = "f" /\ Char(p + 1) = "n" -> Keyword(p, q, 2, <<>>, "fn")
    [] src[p] = "f" /\ Char(p + 1) = "o" ->
         IF q - p > 3 THEN Keyword(p, q, 2, <<"r", "e", "a", "c", "h">>, "foreach")
         ELSE Keyword(p, q, 2, <<"r">>, "for")
    [] OTHER -> "id"
IdToken(p, ln) == LET q == Past(p, Alnum)
                  IN  Token(WordType(p, q), p, q, ln, FALSE)

(* octal(), behind the 0: passes the next digit whatever it is, then stops,*)
(* with an error, at a digit that is not octal.                            *)
Octal(p, ln) == LET q == Past(p + 2, {"0", "7"}) IN Token("oct", p, q, ln, Char(q) = "8")

(* hex(), from the 0.  hexdigit() passes the first character that is no    *)
(* digit with nextchar(), which counts a newline, and steps back.          *)
HexLine(q, ln) == IF Char(q) = "nl" THEN ln + 1 ELSE ln
HexToken(p, ln) == LET q == Past(p + 2, Hex)
                   IN  Token("hex", p, q, HexLine(q, ln), q = p + 2)

(* decimal(): digits, a fraction, and only behind a fraction an exponent.  *)
Exponent(q) == IF Char(q + 1) = "+" THEN q + 2 ELSE q + 1
Decimal(p, ln) ==
  LET a == Past(p, Digits)
      b == Past(a + 1, Digits)
      c == Exponent(b)
  IN  IF Char(a) # "." THEN Token("dec", p, a, ln, FALSE)
      ELSE IF Char(b) # "e" THEN Token("dec", p, b, ln, FALSE)
      ELSE IF Char(c) \notin Digits THEN Token("dec", p, c, ln, TRUE)
      ELSE Token("dec", p, Past(c, Digits), ln, FALSE)

(* eschex(): at most two digits from p on.  Before the end of the string it*)
(* steps back one character; at any other it stops.                        *)
RECURSIVE EscHex(_, _, _)
EscHex(p, k, ln) ==
  IF k = 0 THEN [pos |-> p, line |-> ln, err |-> FALSE]
  ELSE IF Char(p) \in {"quote", Nul} THEN [pos |-> p - 1, line |-> ln, err |-> TRUE]
  ELSE IF Char(p) \notin Hex THEN [pos |-> p, line |-> HexLine(p, ln), err |-> TRUE]
  ELSE EscHex(p + 1, k - 1, ln)

(* string() steps back over the NUL.  Mutant: it does not.                 *)
BehindNul(p) == p + 1
BeforeNul(p) == p

(* string(), the rest from p on.  The character behind a backslash is taken*)
(* whatever it is; beyond the NUL anything may be read, and is not.        *)
RECURSIVE StringRest(_, _, _, _)
StringRest(s, p, ln, err) ==
  CASE Char(p) \in {Nul, "beyond"} -> Token("string", s, BeforeNul(p), ln, TRUE)
    [] Char(p) = "quote" -> Token("string", s, p + 1, ln, err)
    [] Char(p) = "bslash" /\ Char(p + 1) = "x" ->
         LET h == EscHex(p + 2, 2, ln) IN StringRest(s, h.pos, h.line, err \/ h.err)
    [] Char(p) = "bslash" -> StringRest(s, p + 2, ln + Newlines(p, p + 2), err)
    [] OTHER -> StringRest(s, p + 1, ln + Newlines(p, p + 1), err)

(* scan().  The three dots of '...' are looked for with the code of a token*)
(* in place of the character, so that no text has them.                    *)
LMatch(p, yes, no, ln) == IF Char(p + 1) = "=" THEN Token(yes, p, p + 2, ln, FALSE)
                          ELSE Token(no, p, p + 1, ln, FALSE)
Scan(p0, ln0) ==
  LET p  == SkipWs(p0)
      ln == ln0 + Newlines(p0, p)
      c  == Char(p)
  IN  CASE c = Nul -> Token("eof", p, p, ln, FALSE)
        [] c \in Letters -> IdToken(p, ln)
        [] c = "0" /\ Char(p + 1) = "x" -> HexToken(p, ln)
        [] c = "0" /\ Char(p + 1) \in Digits -> Octal(p, ln)
        [] c \in Digits -> Decimal(p, ln)
        [] c = "quote" -> StringRest(p, p + 1, ln, FALSE)
        [] c = "!" -> LMatch(p, "!=", "!", ln)
        [] c = "=" -> LMatch(p, "==", "=", ln)
        [] c \in Symbols -> Token(c, p, p + 1, ln, FALSE)
        [] OTHER -> Token("error", p, p + 1, ln, TRUE)

----------------------------------------------------------------------------
(* Texts that the scanner gets wrong: a hexadecimal digit looked for at a  *)
(* newline counts it twice; a backslash before the end of the source takes *)
(* the NUL for an escape and string() goes on behind it; a number without a*)
(* fraction is scanned without an exponent that strtod() then reads; the   *)
(* digit behind a leading 0 is not looked at.                              *)
Span(s, i, j, C) == \A k \in i .. j : s[k] \in C
HexNewline(s) == \E i, j \in DOMAIN s : i < j /\ s[i] = "x" /\ s[j] = "nl"
                                         /\ Span(s, i + 1, j - 1, Hex)
EscapeEnd(s)  == s # <<>> /\ s[Len(s)] = "bslash"
(* Digits are known for a fraction when the text begins with the number.   *)
LeadingDot(s, i) == i > 1 /\ s[i] = "." /\ Span(s, 1, i - 1, Digits)
                          /\ (i > 2 => s[1] # "0")
NoFraction(s) ==
  \E i, j \in DOMAIN s :
    /\ i < j /\ s[j] = "e" /\ Span(s, i, j - 1, Digits)
    /\ i = 1 \/ (s[i - 1] \notin Digits /\ ~LeadingDot(s, i - 1))
OctalDigit(s) ==
  \E i \in 2 .. Len(s) : /\ s[i - 1] = "0" /\ s[i] = "8"
                         /\ i = 2 \/ s[i - 2] \notin Alnum
Dots(s)       == \E i \in 1 .. Len(s) - 2 : Span(s, i, i + 2, {"."})
Left(s) == \/ "hex_newline" \in Avoid /\ HexNewline(s)
           \/ "escape_end"  \in Avoid /\ EscapeEnd(s)
           \/ "exponent"    \in Avoid /\ NoFraction(s)
           \/ "ellipsis"    \in Avoid /\ Dots(s)
           \/ "octal_digit" \in Avoid /\ OctalDigit(s)

(* L_new()                                                                 *)
LexInit == /\ src \in {s \in Sources : ~Left(s)}
           /\ from = 1 /\ pos = 1 /\ line = 1
           /\ tok = Token("none", 1, 1, 1, FALSE)

(* The compiler asks for the next token.                                   *)
NextToken == /\ tok.type # "eof"
             /\ tok' = Scan(pos, line)
             /\ from' = pos /\ pos' = tok'.end /\ line' = tok'.line
             /\ UNCHANGED src
----------------------------------------------------------------------------
(* The language's tokens, each as a set of texts.                          *)
Spelling == [or |-> <<"o", "r">>, if |-> <<"i", "f">>, in |-> <<"i", "n">>,
             fn |-> <<"f", "n">>, for |-> <<"f", "o", "r">>,
             foreach |-> <<"f", "o", "r", "e", "a", "c", "h">>]
All(s, C)  == Span(s, 1, Len(s), C)
IsWord(s)  == s # <<>> /\ s[1] \in Letters /\ All(s, Alnum)
IsHex(s)   == Len(s) > 2 /\ s[1] = "0" /\ s[2] = "x" /\ Span(s, 3, Len(s), Hex)
IsOctal(s) == Len(s) > 1 /\ s[1] = "0" /\ All(s, {"0", "7"})
IsDigits(s) == s # <<>> /\ All(s, Digits)
IsExponent(s) == \/ s = <<>>
                 \/ s[1] = "e" /\ IsDigits(SubSeq(s, 2, Len(s)))
                 \/ Len(s) > 2 /\ s[1] = "e" /\ s[2] = "+" /\ IsDigits(SubSeq(s, 3, Len(s)))
IsDecimal(s) ==
  /\ s # <<>> /\ s[1] \in Digits
  /\ ~(Len(s) > 1 /\ s[1] = "0" /\ s[2] \in Digits)
  /\ \/ All(s, Digits)
     \/ \E i \in 2 .. Len(s), j \in 2 .. Len(s) :
          /\ i <= j /\ s[i] = "." /\ Span(s, 1, i - 1, Digits) /\ Span(s, i + 1, j, Digits)
          /\ IsExponent(SubSeq(s, j + 1, Len(s)))
(* A quote or backslash counts for itself behind an odd run of backslashes.*)
Escaped(s, i) == \E n \in 0 .. i : n % 2 = 1 /\ n < i /\ Span(s, i - n, i - 1, {"bslash"})
                                   /\ (n + 1 < i => s[i - n - 1] # "bslash")
IsString(s) == /\ Len(s) > 1 /\ s[1] = "quote" /\ s[Len(s)] = "quote"
               /\ \A i \in 2 .. Len(s) : s[i] = "quote" => (Escaped(s, i) <=> i < Len(s))
IsSymbol(s) == s \in {<<c>> : c \in Symbols \cup {"!", "="}}
                      \cup {<<"!", "=">>, <<"=", "=">>, <<".", ".", ".">>}
Lexeme(s) == IsWord(s) \/ IsHex(s) \/ IsOctal(s) \/ IsDecimal(s) \/ IsString(s) \/ IsSymbol(s)

(* Of which type is a token with this text?                                *)
Types(s) == CASE IsWord(s) -> IF \E k \in DOMAIN Spelling : Spelling[k] = s
                              THEN {k \in DOMAIN Spelling : Spelling[k] = s} ELSE {"id"}
              [] IsHex(s) -> {"hex"} [] IsOctal(s) -> {"oct"} [] IsDecimal(s) -> {"dec"}
              [] IsString(s) -> {"string"}
              [] OTHER -> {IF Len(s) = 1 THEN s[1] ELSE IF s[1] = "." THEN "..." ELSE
                           IF s[1] = "!" THEN "!=" ELSE "=="}

(* How far strtod() and strtoll() read from the start of a number: the     *)
(* former takes an exponent with or without a fraction before it.          *)
ReadTo(t) ==
  LET a == Past(t.start, Digits)
      b == IF Char(a) = "." THEN Past(a + 1, Digits) ELSE a
  IN  CASE t.type = "hex" -> Past(t.start + 2, Hex)
        [] t.type = "oct" -> Past(t.start, {"0", "7"})
        [] Char(b) = "e" /\ Char(Exponent(b)) \in Digits -> Past(Exponent(b), Digits)
        [] OTHER -> b

(* Every token that is not reported is the longest piece of text that is a *)
(* token at all, of the type the language gives it, a word a keyword only  *)
(* if it is spelled out; the value of a number is that of its text.        *)
LongestMatch ==
  tok.type \notin {"none", "eof"} /\ ~tok.err =>
    /\ Lexeme(Text(tok.start, tok.end)) /\ tok.type \in Types(Text(tok.start, tok.end))
    /\ \A q \in tok.end + 1 .. Len(src) + 1 : ~Lexeme(Text(tok.start, q))
    /\ tok.type \in {"hex", "oct", "dec"} => ReadTo(tok) = tok.end

(* No text is lost and none invented: between two tokens there are only    *)
(* blanks and comments, every token but the last takes some text, and the  *)
(* scanner never reads behind the NUL.                                     *)
InComment(i) == \E k \in from .. i : /\ Char(k) = "/" /\ Char(k + 1) = "/"
                                      /\ \A r \in k .. i : Char(r) # "nl"
NothingLost ==
  /\ \A i \in from .. tok.start - 1 : Char(i) \in Blanks \/ InComment(i)
  /\ pos \in 1 .. Len(src) + 1
  /\ tok.type \notin {"none", "eof"} => tok.start < pos
  /\ tok.type = "eof" => pos = Len(src) + 1

(* The line of a token is the line on which it ends.                       *)
TokenLine == tok.line = 1 + Cardinality({i \in 1 .. pos - 1 : Char(i) = "nl"})
=============================================================================
