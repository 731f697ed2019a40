------------------------------ MODULE MCLines -------------------------------
(* The texts that SourceLines is checked on.                               *)
EXTENDS SourceLines

UpTo(C, n) == UNION {[1 .. k -> C] : k \in 0 .. n}
MCSources ==
  UpTo({"f", "o", "r", "0"}, 6) \cup UpTo({"i", "f", "n", "sp"}, 4)
    \cup {<<"f", "o", "r", "e", "a", "c", "h">> \o s : s \in UpTo({"a", "0", "+"}, 2)}
    \cup UpTo({"0", "7", ".", "e", "+"}, 6) \cup UpTo({"0", "8", "x", "a", "nl"}, 5)
    \cup UpTo({"quote", "bslash", "x", "a", "nl"}, 6)
    \cup UpTo({"/", "nl", "sp", "!", "=", "."}, 4) \cup UpTo({"/", "nl", "@"}, 6)
=============================================================================
