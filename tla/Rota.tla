-------------------------------- MODULE Rota --------------------------------
(***************************************************************************)
(* What scheduler.c promises to be, with no pointers: a list that whoever  *)
(* is added to heads, whose first goes to the end when it yields, and      *)
(* which keeps its order when somebody is taken out.                       *)
(***************************************************************************)
EXTENDS Sequences, Naturals

CONSTANT Procs

VARIABLE list

Listed == {list[i] : i \in DOMAIN list}

Init == list = <<>>

Clear == list' = <<>>

Add(p) == p \notin Listed /\ list' = <<p>> \o list

Remove(p) ==
  \E i \in DOMAIN list :
    /\ list[i] = p
    /\ list' = SubSeq(list, 1, i - 1) \o SubSeq(list, i + 1, Len(list))

Rotate == Len(list) > 1 /\ list' = Append(Tail(list), Head(list))

Next == Clear \/ Rotate \/ \E p \in Procs : Add(p) \/ Remove(p)

Spec == Init /\ [][Next]_list
=============================================================================
