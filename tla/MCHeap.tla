------------------------------- MODULE MCHeap -------------------------------
(***************************************************************************)
(* A small arena for TLC.  The header, the smallest remainder and the      *)
(* alignment are those of memory.c; the arena holds five small blocks, and *)
(* size_t is 10 bits wide.                                                 *)
(***************************************************************************)
EXTENDS Heap

\* One byte; a size that leaves a remainder too small to split off; half of
\* size_t, so that two elements of it wrap around to a few bytes; one that
\* wraps around to 0 when it is rounded up.
MixedSizes == {1, 36, 514, 1022}
=============================================================================
