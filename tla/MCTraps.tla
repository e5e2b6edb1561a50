------------------------------- MODULE MCTraps ------------------------------
(* Values of the constants of Traps for TLC. *)
EXTENDS Traps

\* A write, a call with no case of its own; all arguments are different.
MCCalls == {<<1, 21, 22, 23>>, <<2, 24, 25, 26>>}
=============================================================================
