------------------------------ MODULE Allocator ------------------------------
(***************************************************************************)
(* What a caller of kmalloc and kfree relies on, with no list and no       *)
(* headers: a grant is a run of bytes inside the arena that overlaps no    *)
(* other grant and keeps clear of the GAP bytes in front of every grant    *)
(* (where an allocator keeps its own records), and it stays where it is    *)
(* and as long as it is until its holder gives it back.                    *)
(***************************************************************************)
EXTENDS Integers

CONSTANTS
  LO, HI,  \* the arena is the bytes LO .. HI-1
  GAP      \* bytes in front of a grant that no grant may cover

VARIABLE granted  \* address of a grant -> its length

\* n bytes at p and m bytes at q, and the GAP in front of either, are apart.
Apart(p, n, q, m) == p + n + GAP <= q \/ q + m + GAP <= p

Init == granted = [p \in {} |-> 0]

\* The length of the new grant is whatever granted' says it is.
Alloc ==
  \E p \in DOMAIN granted' \ DOMAIN granted :
    LET n == granted'[p]
    IN  /\ LO + GAP <= p
        /\ n \in Nat
        /\ p + n <= HI
        /\ \A q \in DOMAIN granted : Apart(p, n, q, granted[q])
        /\ granted' = [q \in DOMAIN granted \cup {p} |->
                         IF q = p THEN n ELSE granted[q]]

Free ==
  \E p \in DOMAIN granted :
    granted' = [q \in DOMAIN granted \ {p} |-> granted[q]]

Next == Alloc \/ Free

Spec == Init /\ [][Next]_granted
=============================================================================
