------------------------------ MODULE MCConsole ------------------------------
(***************************************************************************)
(* A small console for TLC: a screen of two lines, a buffer that is full   *)
(* before the line is, and the main program about to enable interrupts and *)
(* print the prompt.                                                       *)
(***************************************************************************)
EXTENDS Console

AllGlyphs == Chars \cup {BLANK, PROMPT, MESSAGE}

BootMessages == <<STI, NEWLINE, PROMPT>>

\* A command that prints a line, and one that clears the screen.
Answers == {<<NEWLINE, MESSAGE, NEWLINE>>, <<CLEAR>>}
=============================================================================
