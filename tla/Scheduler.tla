------------------------------ MODULE Scheduler -----------------------------
(***************************************************************************)
(* The scheduler of core/scheduler.c, on the table of Process: it keeps a  *)
(* list of its own through the same next fields, and sets the same state.  *)
(*                                                                         *)
(* Nothing in the kernel decides which of the two is used, so callers use  *)
(* the functions of both: those of the process manager in the orderly way, *)
(* those of the scheduler in any order.  All they have to know is that a   *)
(* process in one of the lists must not be handed to the other, nor twice  *)
(* to the scheduler: that closes a list in itself, and the next loop over  *)
(* it never ends.  tick_count is written and never read, and is left out.  *)
(*                                                                         *)
(* A definition called a slip is a mistake in the one that follows it,     *)
(* kept to show that a property would notice; nothing uses it.             *)
(***************************************************************************)
EXTENDS Process

VARIABLE ready_list   \* the head of the scheduler's list, or NIL

schedVars == <<vars, ready_list>>

Listed == Reach(next, ready_list)

\* Somebody has a pointer to p from process_create.
Known(p) == pid[p] # 0

-----------------------------------------------------------------------------
(* The operations.                                                         *)

SchedInit == Init /\ ready_list = NIL

\* scheduler_init: the list is forgotten, its links stay.
SchedulerInit ==
  /\ ready_list' = NIL
  /\ UNCHANGED vars

\* scheduler_add makes the process READY, whatever it was before.
Add(p) ==
  /\ Known(p)
  /\ state' = [state EXCEPT ![p] = "READY"]
  /\ next' = [next EXCEPT ![p] = ready_list]
  /\ ready_list' = p
  /\ UNCHANGED <<pid, kernel_stack, current_process, ready_queue, next_pid,
                 allocated, hung>>

\* Slips: the link is cleared before it is passed on; it is cleared although
\* the process was not found.
RemoveRest(p) ==
  /\ Known(p)
  /\ ready_list' = IF p = ready_list THEN NIL ELSE ready_list
  /\ next' = [s \in Slots |->
                IF p \in Listed /\ (s = p \/ (s \in Listed /\ next[s] = p)) THEN NIL
                ELSE next[s]]
  /\ UNCHANGED <<state, pid, kernel_stack, current_process, ready_queue,
                 next_pid, allocated, hung>>

RemoveAnyway(p) ==
  /\ Known(p)
  /\ ready_list' = IF p = ready_list THEN next[p] ELSE ready_list
  /\ next' = [s \in Slots |-> IF s = p THEN NIL
                              ELSE IF s \in Listed /\ next[s] = p THEN next[p]
                              ELSE next[s]]
  /\ UNCHANGED <<state, pid, kernel_stack, current_process, ready_queue,
                 next_pid, allocated, hung>>

\* scheduler_remove changes the first link to the process: that of the head,
\* or else that of the entry in front of it.  Not to find the process in a
\* list that never ends is not to return.
Remove(p) ==
  /\ Known(p)
  /\ \/ /\ p = ready_list
        /\ ready_list' = next[p]
        /\ next' = [next EXCEPT ![p] = NIL]
        /\ UNCHANGED hung
     \/ \E s \in Reach([next EXCEPT ![p] = NIL], ready_list) \ {p} :
          /\ p # ready_list /\ next[s] = p
          /\ next' = [next EXCEPT ![s] = next[p], ![p] = NIL]
          /\ UNCHANGED <<ready_list, hung>>
     \/ /\ p \notin Listed
        /\ hung' = ~Ends(ready_list)
        /\ UNCHANGED <<ready_list, next>>
  /\ UNCHANGED <<state, pid, kernel_stack, current_process, ready_queue,
                 next_pid, allocated>>

\* Slips: the last link is not cleared; the first goes behind the second only.
RotateOpen ==
  /\ ready_list # NIL /\ next[ready_list] # NIL
  /\ ready_list' = next[ready_list]
  /\ next' = [s \in Slots |-> IF s \in Listed /\ next[s] = NIL THEN ready_list ELSE next[s]]
  /\ UNCHANGED <<state, pid, kernel_stack, current_process, ready_queue,
                 next_pid, allocated, hung>>

RotateSecond ==
  /\ ready_list # NIL /\ next[ready_list] # NIL
  /\ ready_list' = next[ready_list]
  /\ next' = [next EXCEPT ![next[ready_list]] = ready_list,
                         ![ready_list] = next[next[ready_list]]]
  /\ UNCHANGED <<state, pid, kernel_stack, current_process, ready_queue,
                 next_pid, allocated, hung>>

\* scheduler_yield: the first goes to the end of the list.  In a list that
\* never ends the loop looks for the end for good.
Rotate ==
  /\ ready_list # NIL /\ next[ready_list] # NIL
  /\ ready_list' = next[ready_list]
  /\ hung' = ~Ends(ready_list)
  /\ LET last == {s \in Listed : next[s] = NIL}
     IN  next' = [s \in Slots |-> IF s \in last THEN ready_list
                                  ELSE IF s = ready_list /\ last # {} THEN NIL
                                  ELSE next[s]]
  /\ UNCHANGED <<state, pid, kernel_stack, current_process, ready_queue,
                 next_pid, allocated>>

SchedulerStep ==
  \/ SchedulerInit \/ Rotate
  \/ \E p \in Slots : Remove(p) \/ (p \notin Queued \cup Listed /\ Add(p))

\* Whoever is on the scheduler's list is neither destroyed nor woken.
ManagerStep ==
  /\ \/ Create \/ GiveUp
     \/ \E p \in Slots \ Listed : Reap(p) \/ Wakeup(p)
  /\ UNCHANGED ready_list

SchedNext == ~hung /\ (ManagerStep \/ SchedulerStep)

SchedSpec == SchedInit /\ [][SchedNext]_schedVars

\* The timer interrupt that should call it is masked: that scheduler_yield
\* is called again and again is an assumption about the rest of the kernel.
FairSchedSpec == SchedSpec /\ WF_schedVars(~hung /\ Rotate)

-----------------------------------------------------------------------------
(* What is checked.                                                        *)

\* The two lists that share the next fields stay apart and come to their
\* ends, and with them the loops, whatever functions of the scheduler are
\* called between those of the process manager.
ListsApart ==
  /\ ready_list \in Slots \cup {NIL}
  /\ Queued \cap Listed = {}
  /\ Ends(ready_queue) /\ Ends(ready_list)
  /\ ~hung

RotaChain == ListFrom(next, ready_list)

AbstractRota == INSTANCE Rota WITH Procs <- Slots, list <- RotaChain

\* The pointers of scheduler.c implement the list one would write down, also
\* while process.c works on the same next fields; and the pointers of
\* process.c still implement their queue (RunQueueSpec).
RotaSpec == AbstractRota!Spec

\* Somebody is put in front of the scheduler's list.
Added == \E s \in Slots : ready_list' = s /\ s \notin Listed

\* scheduler.c prints "Initializing round-robin scheduler": once nobody is
\* added any more, whoever is on the list comes to its head, if it is not
\* removed before.
RotaTurns ==
  <>[][~Added]_schedVars =>
    \A s \in Slots : s \in Listed ~> (ready_list = s \/ s \notin Listed)
=============================================================================
