------------------------------ MODULE JsonlFile ------------------------------
(***************************************************************************)
(* A file of JSON lines as the journals and logs of the coding agent use   *)
(* it.  A file is its complete lines and the bytes behind the last         *)
(* newline.  A line is a record, or Broken when it does not parse; so is   *)
(* the tail, which is Empty when the file ends with a newline.             *)
(*                                                                         *)
(* An append that is cut short (power loss, a full disk) leaves a prefix   *)
(* of what was to be written: some of the lines, then a piece of the next  *)
(* one, which is a whole record when only its newline is missing.          *)
(***************************************************************************)
EXTENDS Naturals, Sequences

CONSTANTS Broken, Empty

NewFile == [lines |-> << >>, tail |-> Empty]

(* The lines a reader gets by splitting at the newlines. *)
Parsed(f) == f.lines \o (IF f.tail = Empty THEN << >> ELSE <<f.tail>>)

(* A line is written behind whatever the file ends with. *)
AppendLine(f, line) ==
  [lines |-> Append(f.lines, IF f.tail = Empty THEN line ELSE Broken), tail |-> Empty]

(* An append of the lines p, at most two of them here. *)
AppendLines(f, p) ==
  LET first == AppendLine(f, p[1])
  IN  IF Len(p) = 1 THEN first ELSE AppendLine(first, p[2])

(* A line of which only a piece is written. *)
CutLine(f, line) ==
  {f, [f EXCEPT !.tail = Broken]} \cup
  {[f EXCEPT !.tail = IF @ = Empty THEN line ELSE Broken]}

(* All that an append of p may leave when it is cut short. *)
CutAppends(f, p) ==
  CutLine(f, p[1]) \cup
  (IF Len(p) = 1 THEN {} ELSE CutLine(AppendLine(f, p[1]), p[2]))
=============================================================================
