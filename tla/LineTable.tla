----------------------------- MODULE LineTable ------------------------------
(***************************************************************************)
(* The line table of a chunk (chunk.c): pairs of an index into the code    *)
(* and a line, written along with the code and searched when an error is   *)
(* reported.  The compiler deletes code from the end of a chunk, under a   *)
(* constant condition for example, and the table is not told.  Indices     *)
(* start at 0, as in C.                                                    *)
(***************************************************************************)
EXTENDS Integers, Sequences

CONSTANTS
  SameLine     (* bound: may code be written, in front of where the last   *)
               (* pair points, on the line of that pair?                   *)

ASSUME LineTableAssumption == SameLine \in BOOLEAN

VARIABLES
  written,     (* of each byte of the code, the line it was written with;  *)
               (* a history, the code itself does not matter               *)
  lines,       (* chunk.lines, pair by pair                                *)
  prevline     (* PREVT(F).line, the line of the last token                *)

tvars == <<written, lines, prevline>>

CodeLen  == Len(written)
LastPair == lines[Len(lines)]

(* Code was deleted from in front of where the last pair points.           *)
Stale == lines # <<>> /\ CodeLen < LastPair.at

(* LineArray_write()                                                       *)
(* Mutant: only the first line is noted.                                   *)
OnlyFirst(l) == lines = <<>>
NewPair(l) == lines = <<>> \/ LastPair.line < l

TableInit == written = <<>> /\ lines = <<>> /\ prevline = 1

(* Chunk_write()                                                           *)
Write(l) ==
  /\ l >= prevline
  /\ ~SameLine /\ Stale => l > LastPair.line
  /\ prevline' = l
  /\ written' = Append(written, l)
  /\ lines' = IF NewPair(l) THEN Append(lines, [at |-> CodeLen, line |-> l]) ELSE lines

(* concatcode() and the macros that pop an instruction.                    *)
Trim(n) == /\ n < CodeLen
           /\ written' = SubSeq(written, 1, n)
           /\ UNCHANGED <<lines, prevline>>

TableNext == (\E l \in Nat : Write(l)) \/ (\E n \in Nat : Trim(n))
TableSpec == TableInit /\ [][TableNext]_tvars

(* Chunk_getline(): from the back, the first pair not behind index i.      *)
Finds(j, i)   == /\ j \in DOMAIN lines /\ lines[j].at <= i
                 /\ \A k \in DOMAIN lines : k > j => lines[k].at > i
Getline(i) == lines[CHOOSE j \in DOMAIN lines : Finds(j, i)].line

TableTypeOK == /\ written \in Seq(Nat) /\ prevline \in Nat
               /\ lines \in Seq([at : Nat, line : Nat])

(* Whatever code has been deleted, an error in any instruction is reported *)
(* on the line the instruction was written for, and the search for it ends.*)
LinesRight == \A i \in 0 .. CodeLen - 1 :
                (\E j \in DOMAIN lines : Finds(j, i)) /\ Getline(i) = written[i + 1]
=============================================================================
