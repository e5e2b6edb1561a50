----------------------------- MODULE LineEditor -----------------------------
(***************************************************************************)
(* What the shell may expect of the keyboard: the user edits one line of   *)
(* at most MAX characters at its end, and what is submitted is that line,  *)
(* nothing of an earlier one.                                              *)
(***************************************************************************)
EXTENDS Sequences, Naturals

CONSTANTS
  Chars,
  MAX

VARIABLES
  line,
  given  \* the line the shell works on, if any

vars == <<line, given>>

Init == line = <<>> /\ given = <<>>

\* One key may type two characters: an accent and the letter after it.
Insert(s) ==
  /\ Len(line) + Len(s) <= MAX
  /\ line' = line \o s
  /\ UNCHANGED given

Erase ==
  /\ line # <<>>
  /\ line' = SubSeq(line, 1, Len(line) - 1)
  /\ UNCHANGED given

Submit == given' = line /\ line' = <<>>

Return == given' = <<>> /\ UNCHANGED line

Cancel == line' = <<>> /\ UNCHANGED given

Next ==
  \/ \E c \in Chars : Insert(<<c>>)
  \/ \E c, d \in Chars : Insert(<<c, d>>)
  \/ Erase \/ Submit \/ Return \/ Cancel

Spec == Init /\ [][Next]_vars
=============================================================================
