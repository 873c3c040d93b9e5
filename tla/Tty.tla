-------------------------------- MODULE Tty ---------------------------------
(***************************************************************************)
(* What console input promises: a typed character joins the line being     *)
(* edited, unless the input is full; the line can be edited until it is    *)
(* ended by a newline, an end of file or a full buffer; ended lines are    *)
(* delivered to readers one character at a time, in order and once.        *)
(***************************************************************************)
EXTENDS Naturals, Sequences

CONSTANTS Letters, Newline, Eof, Capacity

VARIABLES
  lines,   \* the characters of ended lines, not yet delivered
  edit     \* the line being edited

Init == lines = <<>> /\ edit = <<>>

Type(c) ==
  LET full == Len(lines) + Len(edit) + 1 = Capacity IN
  /\ Len(lines) + Len(edit) < Capacity
  /\ IF c \in {Newline, Eof} \/ full
     THEN lines' = lines \o Append(edit, c) /\ edit' = <<>>
     ELSE edit' = Append(edit, c) /\ UNCHANGED lines

Erase ==
  /\ edit # <<>>
  /\ edit' = SubSeq(edit, 1, Len(edit) - 1)
  /\ UNCHANGED lines

Deliver ==
  /\ lines # <<>>
  /\ lines' = Tail(lines)
  /\ UNCHANGED edit

Next == Erase \/ Deliver \/ \E c \in Letters \cup {Newline, Eof} : Type(c)

Spec == Init /\ [][Next]_<<lines, edit>>
=============================================================================
