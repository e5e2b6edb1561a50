------------------------------ MODULE Process -------------------------------
(***************************************************************************)
(* The process manager of core/process.c: the table of processes, the      *)
(* current process, and the ready queue that runs through the next fields  *)
(* of the table's entries.                                                 *)
(*                                                                         *)
(* process_t pointers are slots of the table, NIL the null pointer.  Of    *)
(* process_t the fields that some operation reads are kept; kernel stacks  *)
(* are tokens kmalloc hands out, and kmalloc may fail at any time, because *)
(* the shell takes whatever it is told to from the same heap.  process.c   *)
(* holds every function twice; the second copies differ in what they       *)
(* print and count.  What nothing ever reads is left out: priority,        *)
(* sleep_until, the context.                                               *)
(*                                                                         *)
(* A definition called a slip is a mistake in the one that follows it,     *)
(* kept to show that a property would notice; nothing uses it.             *)
(***************************************************************************)
EXTENDS Integers, Sequences

CONSTANTS
  MAX_PROCS,   \* entries of the table (256)
  Stacks,      \* kernel stacks the heap has room for
  MaxPid       \* bound of the model: how many processes are ever created

ASSUME ProcessAssumption ==
  /\ MAX_PROCS \in Nat \ {0}
  /\ MaxPid \in Nat
  /\ Stacks \subseteq Nat \ {0}

NIL == 0

Slots == 1 .. MAX_PROCS

States == {"UNUSED", "READY", "RUNNING", "SLEEPING", "ZOMBIE", "DEAD"}

VARIABLES
  state, pid, next, kernel_stack,  \* the fields of processes[s]
  current_process, ready_queue,    \* slots or NIL
  next_pid,
  allocated,                       \* stacks taken from the heap
  hung                             \* a loop over next never ends

table == <<state, pid, next, kernel_stack>>
vars == <<table, current_process, ready_queue, next_pid, allocated, hung>>

-----------------------------------------------------------------------------
(* The ready queue.                                                        *)

\* What a loop over the links nx passes from head on: the entries in every
\* set that has head and the successor of each of its entries.
Closed(nx, head) ==
  {set \in SUBSET Slots :
     head \in set \cup {NIL} /\ \A t \in set : nx[t] \in set \cup {NIL}}

Reach(nx, head) ==
  IF head = NIL THEN {}
  ELSE LET closed == Closed(nx, head)
       IN  {s \in Slots : \A set \in closed : s \in set}

Queued == Reach(next, ready_queue)

\* The loop comes to an entry without a successor.
Ends(head) == head = NIL \/ \E s \in Reach(next, head) : next[s] = NIL

\* find_free_process.
Free(s) == state[s] \in {"UNUSED", "DEAD"}
FirstFree(s) == s \in Slots /\ Free(s) /\ \A t \in Slots : Free(t) => s <= t

-----------------------------------------------------------------------------
(* The operations.                                                         *)

\* The table as the loader's zeroes or process_init leave it.
Init ==
  /\ state = [s \in Slots |-> "UNUSED"]
  /\ pid = [s \in Slots |-> 0]
  /\ next = [s \in Slots |-> NIL]
  /\ kernel_stack = [s \in Slots |-> NIL]
  /\ current_process = NIL /\ ready_queue = NIL
  /\ next_pid = 1
  /\ allocated = {}
  /\ hung = FALSE

\* A slip: next_pid is not incremented.
FillSamePid(s, k) ==
  /\ FirstFree(s)
  /\ pid' = [pid EXCEPT ![s] = next_pid]
  /\ state' = [state EXCEPT ![s] = "READY"]
  /\ kernel_stack' = [kernel_stack EXCEPT ![s] = k]
  /\ UNCHANGED next_pid

\* The entry is filled in before the stack is asked for.  Without a stack
\* process_create returns NULL and leaves it so.
Fill(s, k) ==
  /\ FirstFree(s)
  /\ pid' = [pid EXCEPT ![s] = next_pid]
  /\ next_pid' = next_pid + 1
  /\ state' = [state EXCEPT ![s] = "READY"]
  /\ kernel_stack' = [kernel_stack EXCEPT ![s] = k]

\* A slip: the result of kmalloc is not tested.
CreateUntested ==
  /\ next_pid <= MaxPid
  /\ \E s \in Slots, k \in (Stacks \ allocated) \cup {NIL} :
       /\ Fill(s, k)
       /\ allocated' = allocated \cup {k}
       /\ next' = [next EXCEPT ![s] = ready_queue]
       /\ ready_queue' = s
  /\ UNCHANGED <<current_process, hung>>

Create ==
  /\ next_pid <= MaxPid
  /\ \E s \in Slots :
       \/ \E k \in Stacks \ allocated :
            /\ Fill(s, k)
            /\ allocated' = allocated \cup {k}
            /\ next' = [next EXCEPT ![s] = ready_queue]
            /\ ready_queue' = s
       \/ /\ Fill(s, NIL)
          /\ next' = [next EXCEPT ![s] = NIL]
          /\ UNCHANGED <<allocated, ready_queue>>
  /\ UNCHANGED <<current_process, hung>>

\* Slips: the stack is not freed; the process becomes a zombie.
DestroyKeepsStack(p) ==
  /\ state[p] # "UNUSED"
  /\ state' = [state EXCEPT ![p] = "DEAD"]
  /\ UNCHANGED <<pid, next, kernel_stack, allocated,
                 current_process, ready_queue, next_pid, hung>>

DestroyToZombie(p) ==
  /\ state[p] # "UNUSED"
  /\ allocated' = allocated \ {kernel_stack[p]}
  /\ state' = [state EXCEPT ![p] = "ZOMBIE"]
  /\ UNCHANGED <<pid, next, kernel_stack,
                 current_process, ready_queue, next_pid, hung>>

\* kernel_stack keeps its value, and the entry its place in the queue.
Destroy(p) ==
  /\ state[p] # "UNUSED"
  /\ allocated' = allocated \ {kernel_stack[p]}
  /\ state' = [state EXCEPT ![p] = "DEAD"]
  /\ UNCHANGED <<pid, next, kernel_stack,
                 current_process, ready_queue, next_pid, hung>>

\* A slip: the new process is not marked.
DispatchUnmarked(st, nx) ==
  LET first == ready_queue
  IN  /\ current_process' = first
      /\ ready_queue' = nx[first]
      /\ next' = [nx EXCEPT ![first] = NIL]
      /\ state' = st

\* current_process becomes the first of the queue, in the table where st
\* and nx are the state and next fields.
Dispatch(st, nx) ==
  LET first == ready_queue
  IN  /\ current_process' = first
      /\ ready_queue' = nx[first]
      /\ next' = [nx EXCEPT ![first] = NIL]
      /\ state' = [st EXCEPT ![first] = "RUNNING"]

\* Slips: the process that yields stays marked; it goes behind the first of
\* the queue, cutting off the rest, or in between.
YieldFromMarked(st) ==
  /\ IF ready_queue = NIL
     THEN state' = st /\ UNCHANGED <<next, current_process, ready_queue, hung>>
     ELSE IF current_process # NIL /\ st[current_process] = "RUNNING"
     THEN \E last \in Queued :
            /\ next[last] = NIL
            /\ Dispatch(st, [next EXCEPT ![last] = current_process,
                                         ![current_process] = NIL])
            /\ UNCHANGED hung
     ELSE Dispatch(st, next) /\ UNCHANGED hung
  /\ UNCHANGED <<pid, kernel_stack, next_pid, allocated>>

YieldFromSecond(st, rest) ==
  /\ IF ready_queue = NIL
     THEN state' = st /\ UNCHANGED <<next, current_process, ready_queue, hung>>
     ELSE IF current_process # NIL /\ st[current_process] = "RUNNING"
     THEN /\ Dispatch([st EXCEPT ![current_process] = "READY"],
                      [next EXCEPT ![ready_queue] = current_process,
                                   ![current_process] = rest])
          /\ UNCHANGED hung
     ELSE Dispatch(st, next) /\ UNCHANGED hung
  /\ UNCHANGED <<pid, kernel_stack, next_pid, allocated>>

YieldFromCut(st) == YieldFromSecond(st, NIL)
YieldFromBetween(st) ==
  YieldFromSecond(st, IF ready_queue = NIL THEN NIL ELSE next[ready_queue])

\* process_yield, called with the state fields st: a running process goes to
\* the end of the queue, which the loop over next has to find.
YieldFrom(st) ==
  /\ IF ready_queue = NIL
     THEN state' = st /\ UNCHANGED <<next, current_process, ready_queue, hung>>
     ELSE IF current_process # NIL /\ st[current_process] = "RUNNING"
     THEN LET back == [st EXCEPT ![current_process] = "READY"]
          IN  \/ \E last \in Queued :
                   /\ next[last] = NIL
                   /\ Dispatch(back, [next EXCEPT ![last] = current_process,
                                                  ![current_process] = NIL])
                   /\ UNCHANGED hung
              \/ /\ \A last \in Queued : next[last] # NIL
                 /\ state' = back /\ hung' = TRUE
                 /\ UNCHANGED <<next, current_process, ready_queue>>
     ELSE Dispatch(st, next) /\ UNCHANGED hung
  /\ UNCHANGED <<pid, kernel_stack, next_pid, allocated>>

Yield == YieldFrom(state)

\* process_exit and process_sleep differ in the state they leave behind.
Stop(st) ==
  /\ current_process # NIL
  /\ YieldFrom([state EXCEPT ![current_process] = st])

Exit == Stop("ZOMBIE")
Sleep == Stop("SLEEPING")

\* A slip: whoever it is gets woken.
WakeupAnyone(p) ==
  /\ state[p] # "UNUSED"
  /\ state' = [state EXCEPT ![p] = "READY"]
  /\ next' = [next EXCEPT ![p] = ready_queue]
  /\ ready_queue' = p
  /\ UNCHANGED <<pid, kernel_stack, current_process, next_pid,
                 allocated, hung>>

Wakeup(p) ==
  /\ state[p] = "SLEEPING"
  /\ state' = [state EXCEPT ![p] = "READY"]
  /\ next' = [next EXCEPT ![p] = ready_queue]
  /\ ready_queue' = p
  /\ UNCHANGED <<pid, kernel_stack, current_process, next_pid,
                 allocated, hung>>

\* A hung kernel does nothing more.
Next ==
  /\ ~hung
  /\ \/ Create
     \/ \E p \in Slots : Destroy(p) \/ Wakeup(p)
     \/ Yield \/ Exit \/ Sleep

Spec == Init /\ [][Next]_vars

-----------------------------------------------------------------------------
(* Callers that use the manager as it has to be used: they destroy only    *)
(* processes that neither run nor wait in the queue, each once, and a      *)
(* process sleeps or exits only while another is ready, as an idle process *)
(* would be.                                                               *)

Reap(p) ==
  /\ p # current_process /\ p \notin Queued /\ state[p] # "DEAD"
  /\ Destroy(p)

\* The current process hands the processor over.
GiveUp == Yield \/ (ready_queue # NIL /\ (Exit \/ Sleep))

OrderlyNext ==
  /\ ~hung
  /\ \/ Create
     \/ \E p \in Slots : Reap(p) \/ Wakeup(p)
     \/ GiveUp

OrderlySpec == Init /\ [][OrderlyNext]_vars

\* Nothing preempts a process (the timer interrupt is masked): that it hands
\* the processor over in the end is an assumption about the processes.
FairSpec == OrderlySpec /\ WF_vars(~hung /\ GiveUp)
-----------------------------------------------------------------------------
(* What is checked.                                                        *)

\* The fields of the table, the two pointers and the set of stacks have
\* their types.
TypeOK ==
  /\ state \in [Slots -> States]
  /\ pid \in [Slots -> Nat]
  /\ next \in [Slots -> Slots \cup {NIL}]
  /\ kernel_stack \in [Slots -> Stacks \cup {NIL}]
  /\ current_process \in Slots \cup {NIL}
  /\ ready_queue \in Slots \cup {NIL}
  /\ next_pid \in Nat \ {0}
  /\ allocated \subseteq Stacks
  /\ hung \in BOOLEAN

\* No two processes are RUNNING, however the functions are called: when one
\* is, process_get_current returns it.
OnlyCurrentRuns == \A s \in Slots : state[s] = "RUNNING" => s = current_process

\* process_get_by_pid is unambiguous: a process id names one entry, even
\* after entries are used again.
PidsUnique ==
  \A s, t \in Slots :
    /\ pid[s] < next_pid
    /\ pid[s] # 0 /\ pid[s] = pid[t] => s = t

\* A kernel stack is never leaked: as long as it is allocated, an entry that
\* is in use knows it, even when entries are destroyed twice, or reused.
StacksKnown ==
  \A k \in allocated : \E s \in Slots : ~Free(s) /\ kernel_stack[s] = k

\* With orderly callers the next fields from ready_queue on are a list that
\* ends and passes each process once, and on it are exactly the processes
\* that can run: the READY ones, but for those whose stack kmalloc refused.
QueueExact ==
  /\ Queued = {s \in Slots : state[s] = "READY" /\ kernel_stack[s] # NIL}
  /\ Ends(ready_queue)
  /\ ~hung

\* With orderly callers the processor always has a running process to
\* execute once the first was dispatched.
CurrentRuns == current_process # NIL => state[current_process] = "RUNNING"

\* With orderly callers two processes never share a kernel stack, and none
\* works on a stack that was given back to the heap.
StacksExclusive ==
  \A s \in Slots :
    ~Free(s) /\ kernel_stack[s] # NIL =>
      /\ kernel_stack[s] \in allocated
      /\ \A t \in Slots \ {s} : ~Free(t) => kernel_stack[t] # kernel_stack[s]

\* q are the entries that the links nx lead to from head on, in their order.
IsList(nx, head, q) ==
  /\ head = (IF q = <<>> THEN NIL ELSE q[1])
  /\ \A i \in DOMAIN q : nx[q[i]] = (IF i = Len(q) THEN NIL ELSE q[i + 1])

ListFrom(nx, head) ==
  LET lists == {q \in UNION {[1 .. n -> Slots] : n \in 0 .. MAX_PROCS} :
                  IsList(nx, head, q)}
  IN  IF lists = {} THEN <<>> ELSE CHOOSE q \in lists : TRUE

\* The queue as a sequence.
Chain == ListFrom(next, ready_queue)

Abstract == INSTANCE RunQueue
              WITH Procs <- Slots, NoProc <- NIL,
                   running <- current_process, ready <- Chain

\* With orderly callers the pointers of the table implement the abstract run
\* queue.
RunQueueSpec == Abstract!Spec

\* Somebody is put in front of the queue.
Overtakes ==
  \/ next_pid' # next_pid
  \/ \E s \in Slots : state[s] = "SLEEPING" /\ state'[s] = "READY"

Waits(s) == s \in Queued
Runs(s) == current_process = s

\* s will be dispatched before t: t is further down the links, or runs and
\* will go behind them all.
InFrontOf(s, t) == Waits(s) /\ (Runs(t) \/ t \in Reach(next, next[s]))

\* With orderly callers nobody is passed by a process that already waits or
\* runs: only by one that is created or woken.
FirstComeFirstServed ==
  [][\A s, t \in Slots :
       InFrontOf(s, t) /\ Waits(t)' => Runs(s)' \/ InFrontOf(s, t)']_vars

\* Once no more processes are created or woken, whoever waits in the queue
\* gets to run.  The "simple round robin" of process.c:113 is no more than
\* this: process_create and process_wakeup put a process in front of all.
TurnComes == <>[][~Overtakes]_vars => \A s \in Slots : Waits(s) ~> Runs(s)

-----------------------------------------------------------------------------
(* What the header says, and the code does not do.                         *)

\* process.h:17-18 describe PROC_ZOMBIE as "Terminado, aguardando wait" and
\* PROC_DEAD as "Morto, slot pode ser reutilizado": neither runs again.  But
\* process_destroy leaves the process in the queue, and process_yield
\* dispatches it.
TerminatedStaysDown ==
  [][\A s \in Slots :
       state[s] \in {"ZOMBIE", "DEAD"} => state'[s] # "RUNNING"]_vars
=============================================================================
