------------------------------ MODULE RunQueue ------------------------------
(***************************************************************************)
(* What the kernel's processes may expect of its scheduler, with no table  *)
(* and no pointers: one process runs, the others that can run wait in a    *)
(* queue, and each is in one place.  The process that yields goes to the   *)
(* back; one that is created or woken goes to the front.                   *)
(***************************************************************************)
EXTENDS Sequences, Naturals

CONSTANTS Procs, NoProc

VARIABLES running, ready

vars == <<running, ready>>

Waiting == {ready[i] : i \in DOMAIN ready}

Init == running = NoProc /\ ready = <<>>

\* A process is created or woken.
Enter(p) ==
  /\ p \notin Waiting \cup {running}
  /\ ready' = <<p>> \o ready
  /\ UNCHANGED running

\* The process at the front takes over; the running one goes to the back.
Switch ==
  /\ ready # <<>>
  /\ running' = Head(ready)
  /\ ready' = Tail(ready) \o (IF running = NoProc THEN <<>> ELSE <<running>>)

\* The same when the running one goes to sleep or exits.
Leave ==
  /\ ready # <<>> /\ running # NoProc
  /\ running' = Head(ready)
  /\ ready' = Tail(ready)

Next == (\E p \in Procs : Enter(p)) \/ Switch \/ Leave

Spec == Init /\ [][Next]_vars
=============================================================================
