---------------------------- MODULE ProcessProofs ----------------------------
(***************************************************************************)
(* Proofs about the process manager, for every size of the table, set of   *)
(* stacks and number of processes: first for callers that use its          *)
(* functions in any order whatever, then for orderly ones, with whom the   *)
(* ready queue is a list without repetition.                               *)
(***************************************************************************)
EXTENDS Process, SequenceTheorems, FiniteSetTheorems, WellFoundedInduction, TLAPS

Safe == TypeOK /\ OnlyCurrentRuns

-----------------------------------------------------------------------------
(* The scheduler.                                                          *)

\* A dispatch, from a table in which nobody runs.
LEMMA DispatchStep ==
  ASSUME TypeOK, ready_queue # NIL,
         NEW st \in [Slots -> States], NEW nx \in [Slots -> Slots \cup {NIL}],
         \A s \in Slots : st[s] # "RUNNING",
         Dispatch(st, nx)
  PROVE  /\ state' \in [Slots -> States]
         /\ next' \in [Slots -> Slots \cup {NIL}]
         /\ current_process' \in Slots /\ ready_queue' \in Slots \cup {NIL}
         /\ \A s \in Slots : state'[s] \in {st[s], "RUNNING"}
         /\ OnlyCurrentRuns'
<1>1. ready_queue \in Slots
  BY DEF TypeOK
<1>2. /\ state' = [st EXCEPT ![ready_queue] = "RUNNING"]
      /\ next' = [nx EXCEPT ![ready_queue] = NIL]
      /\ current_process' = ready_queue /\ ready_queue' = nx[ready_queue]
  BY DEF Dispatch
<1>3. QED
  BY <1>1, <1>2 DEF States, OnlyCurrentRuns

\* A yield from the state fields st, in which at most the current process
\* runs.  Whatever field it changes becomes READY or RUNNING.
LEMMA YieldStep ==
  ASSUME TypeOK, NEW st \in [Slots -> States],
         \A s \in Slots : st[s] = "RUNNING" => s = current_process,
         YieldFrom(st)
  PROVE  /\ TypeOK'
         /\ OnlyCurrentRuns'
         /\ \A s \in Slots : state'[s] \in {st[s], "READY", "RUNNING"}
<1>1. UNCHANGED <<pid, kernel_stack, next_pid, allocated>>
  BY DEF YieldFrom
<1>2. CASE ready_queue = NIL
  BY <1>1, <1>2 DEF YieldFrom, TypeOK, OnlyCurrentRuns
<1>3. CASE ready_queue # NIL /\ current_process # NIL /\ st[current_process] = "RUNNING"
  <2> DEFINE back == [st EXCEPT ![current_process] = "READY"]
  <2>1. current_process \in Slots
    BY <1>3 DEF TypeOK
  <2>2. /\ back \in [Slots -> States]
        /\ \A s \in Slots : back[s] # "RUNNING" /\ back[s] \in {st[s], "READY"}
    BY <2>1 DEF States
  <2> HIDE DEF back
  <2>3. ASSUME NEW last \in Queued,
               Dispatch(back, [next EXCEPT ![last] = current_process,
                                           ![current_process] = NIL]),
               UNCHANGED hung
        PROVE  TypeOK' /\ OnlyCurrentRuns'
               /\ \A s \in Slots : state'[s] \in {st[s], "READY", "RUNNING"}
    <3> DEFINE nx == [next EXCEPT ![last] = current_process,
                                  ![current_process] = NIL]
    <3>1. nx \in [Slots -> Slots \cup {NIL}]
      BY <2>1 DEF TypeOK, Queued
    <3> HIDE DEF nx
    <3>2. Dispatch(back, nx)
      BY <2>3 DEF nx
    <3>3. /\ state' \in [Slots -> States]
          /\ next' \in [Slots -> Slots \cup {NIL}]
          /\ current_process' \in Slots /\ ready_queue' \in Slots \cup {NIL}
          /\ \A s \in Slots : state'[s] \in {back[s], "RUNNING"}
          /\ OnlyCurrentRuns'
      BY <1>3, <2>2, <3>1, <3>2, DispatchStep
    <3>4. QED
      BY <3>3, <2>2, <2>3, <1>1 DEF TypeOK
  <2>4. ASSUME state' = back, hung' = TRUE,
               UNCHANGED <<next, current_process, ready_queue>>
        PROVE  TypeOK' /\ OnlyCurrentRuns'
               /\ \A s \in Slots : state'[s] \in {st[s], "READY", "RUNNING"}
    <3>1. hung' \in BOOLEAN
      BY <2>4
    <3>2. QED
      BY <3>1, <2>2, <2>4, <1>1 DEF TypeOK, OnlyCurrentRuns
  <2>5. QED
    BY <1>3, <2>3, <2>4 DEF YieldFrom, back
<1>4. CASE ready_queue # NIL /\ ~(current_process # NIL /\ st[current_process] = "RUNNING")
  <2>1. Dispatch(st, next) /\ UNCHANGED hung
    BY <1>4 DEF YieldFrom
  <2>2. \A s \in Slots : st[s] # "RUNNING"
    BY <1>4 DEF Slots, NIL
  <2>3. next \in [Slots -> Slots \cup {NIL}]
    BY DEF TypeOK
  <2>4. /\ state' \in [Slots -> States]
        /\ next' \in [Slots -> Slots \cup {NIL}]
        /\ current_process' \in Slots /\ ready_queue' \in Slots \cup {NIL}
        /\ \A s \in Slots : state'[s] \in {st[s], "RUNNING"}
        /\ OnlyCurrentRuns'
    BY <1>4, <2>1, <2>2, <2>3, DispatchStep
  <2>5. QED
    BY <2>1, <2>4, <1>1 DEF TypeOK
<1>5. QED
  BY <1>2, <1>3, <1>4

\* process_exit and process_sleep.
LEMMA StopStep ==
  ASSUME Safe, NEW x \in {"ZOMBIE", "SLEEPING"}, Stop(x)
  PROVE  /\ Safe'
         /\ \A s \in Slots : state'[s] \in {state[s], x, "READY", "RUNNING"}
         /\ UNCHANGED <<pid, kernel_stack, next_pid, allocated>>
<1> DEFINE st == [state EXCEPT ![current_process] = x]
<1>1. /\ current_process \in Slots /\ state \in [Slots -> States]
      /\ YieldFrom(st)
  BY DEF Safe, TypeOK, Stop
<1>2. /\ st \in [Slots -> States]
      /\ \A s \in Slots : st[s] = "RUNNING" => s = current_process
      /\ \A s \in Slots : st[s] \in {state[s], x}
  BY <1>1 DEF Safe, OnlyCurrentRuns, States
<1> HIDE DEF st
<1>3. TypeOK' /\ OnlyCurrentRuns' /\ \A s \in Slots : state'[s] \in {st[s], "READY", "RUNNING"}
  BY <1>1, <1>2, YieldStep DEF Safe
<1>4. QED
  BY <1>1, <1>2, <1>3 DEF Safe, YieldFrom

\* process_yield called by the current process.
LEMMA YieldKeeps ==
  ASSUME Safe, Yield
  PROVE  /\ Safe'
         /\ \A s \in Slots : state'[s] \in {state[s], "READY", "RUNNING"}
         /\ UNCHANGED <<pid, kernel_stack, next_pid, allocated>>
<1>1. YieldFrom(state) /\ state \in [Slots -> States]
  BY DEF Safe, TypeOK, Yield
<1>2. /\ TypeOK' /\ OnlyCurrentRuns'
      /\ \A s \in Slots : state'[s] \in {state[s], "READY", "RUNNING"}
  BY <1>1, YieldStep DEF Safe, OnlyCurrentRuns
<1>3. QED
  BY <1>1, <1>2 DEF Safe, YieldFrom

-----------------------------------------------------------------------------
(* The table.                                                              *)

\* Filling entry s for a new process, with stack k or without.
LEMMA FillStep ==
  ASSUME Safe, NEW s \in Slots,
         NEW k \in Stacks \cup {NIL}, Fill(s, k),
         UNCHANGED current_process
  PROVE  /\ pid' \in [Slots -> Nat] /\ next_pid' \in Nat \ {0}
         /\ state' \in [Slots -> States]
         /\ kernel_stack' \in [Slots -> Stacks \cup {NIL}]
         /\ OnlyCurrentRuns'
         /\ Free(s) /\ state'[s] = "READY" /\ kernel_stack'[s] = k
         /\ pid'[s] = next_pid /\ next_pid' = next_pid + 1
         /\ \A t \in Slots \ {s} :
              /\ state'[t] = state[t] /\ pid'[t] = pid[t]
              /\ kernel_stack'[t] = kernel_stack[t]
<1>1. /\ pid' = [pid EXCEPT ![s] = next_pid] /\ next_pid' = next_pid + 1
      /\ state' = [state EXCEPT ![s] = "READY"]
      /\ kernel_stack' = [kernel_stack EXCEPT ![s] = k]
      /\ Free(s)
  BY DEF Fill, FirstFree
<1>3. /\ pid \in [Slots -> Nat] /\ next_pid \in Nat \ {0}
      /\ state \in [Slots -> States]
      /\ kernel_stack \in [Slots -> Stacks \cup {NIL}]
  BY DEF Safe, TypeOK
<1>4. /\ pid' \in [Slots -> Nat] /\ next_pid' \in Nat \ {0}
      /\ state' \in [Slots -> States]
      /\ kernel_stack' \in [Slots -> Stacks \cup {NIL}]
  BY <1>1, <1>3 DEF States
<1>5. OnlyCurrentRuns'
  BY <1>1, <1>3 DEF Safe, OnlyCurrentRuns
<1>6. QED
  BY <1>1, <1>3, <1>4, <1>5

\* process_create fills one free entry; the stack it gets, if any, was
\* nobody's.
LEMMA CreateStep ==
  ASSUME Safe, Create
  PROVE  /\ Safe'
         /\ \E s \in Slots :
              /\ Free(s) /\ state'[s] = "READY"
              /\ pid'[s] = next_pid /\ next_pid' = next_pid + 1
              /\ allocated' = allocated \cup ({kernel_stack'[s]} \ {NIL})
              /\ \A t \in Slots \ {s} :
                   /\ state'[t] = state[t] /\ pid'[t] = pid[t]
                   /\ kernel_stack'[t] = kernel_stack[t]
<1>1. UNCHANGED <<current_process, hung>>
  BY DEF Create
<1>2. \A k \in Stacks : k # NIL
  BY ProcessAssumption DEF NIL
<1>3. ASSUME NEW s \in Slots, NEW k \in Stacks \ allocated,
             Fill(s, k), allocated' = allocated \cup {k},
             next' = [next EXCEPT ![s] = ready_queue], ready_queue' = s
      PROVE  /\ Safe'
             /\ Free(s) /\ state'[s] = "READY"
             /\ pid'[s] = next_pid /\ next_pid' = next_pid + 1
             /\ allocated' = allocated \cup ({kernel_stack'[s]} \ {NIL})
             /\ \A t \in Slots \ {s} :
                  /\ state'[t] = state[t] /\ pid'[t] = pid[t]
                  /\ kernel_stack'[t] = kernel_stack[t]
  <2>1. /\ next' \in [Slots -> Slots \cup {NIL}]
        /\ allocated' \subseteq Stacks
    BY <1>3 DEF Safe, TypeOK
  <2>2. /\ pid' \in [Slots -> Nat] /\ next_pid' \in Nat \ {0}
        /\ state' \in [Slots -> States]
        /\ kernel_stack' \in [Slots -> Stacks \cup {NIL}]
        /\ OnlyCurrentRuns'
        /\ Free(s) /\ state'[s] = "READY" /\ kernel_stack'[s] = k
        /\ pid'[s] = next_pid /\ next_pid' = next_pid + 1
        /\ \A t \in Slots \ {s} :
             /\ state'[t] = state[t] /\ pid'[t] = pid[t]
             /\ kernel_stack'[t] = kernel_stack[t]
    BY <1>1, <1>3, FillStep
  <2>3. Safe'
    BY <1>1, <1>3, <2>1, <2>2 DEF Safe, TypeOK
  <2>4. QED
    BY <1>2, <1>3, <2>2, <2>3
<1>4. ASSUME NEW s \in Slots, Fill(s, NIL),
             next' = [next EXCEPT ![s] = NIL],
             UNCHANGED <<allocated, ready_queue>>
      PROVE  /\ Safe'
             /\ Free(s) /\ state'[s] = "READY"
             /\ pid'[s] = next_pid /\ next_pid' = next_pid + 1
             /\ allocated' = allocated \cup ({kernel_stack'[s]} \ {NIL})
             /\ \A t \in Slots \ {s} :
                  /\ state'[t] = state[t] /\ pid'[t] = pid[t]
                  /\ kernel_stack'[t] = kernel_stack[t]
  <2>1. next' \in [Slots -> Slots \cup {NIL}]
    BY <1>4 DEF Safe, TypeOK
  <2>2. /\ pid' \in [Slots -> Nat] /\ next_pid' \in Nat \ {0}
        /\ state' \in [Slots -> States]
        /\ kernel_stack' \in [Slots -> Stacks \cup {NIL}]
        /\ OnlyCurrentRuns'
        /\ Free(s) /\ state'[s] = "READY" /\ kernel_stack'[s] = NIL
        /\ pid'[s] = next_pid /\ next_pid' = next_pid + 1
        /\ \A t \in Slots \ {s} :
             /\ state'[t] = state[t] /\ pid'[t] = pid[t]
             /\ kernel_stack'[t] = kernel_stack[t]
    BY <1>1, <1>4, FillStep
  <2>3. Safe'
    BY <1>1, <1>4, <2>1, <2>2 DEF Safe, TypeOK
  <2>4. QED
    BY <1>4, <2>2, <2>3
<1>5. QED
  BY <1>3, <1>4 DEF Create

LEMMA DestroyKeepsSafe ==
  ASSUME Safe, NEW p \in Slots, Destroy(p)
  PROVE  Safe'
<1>1. /\ state' = [state EXCEPT ![p] = "DEAD"]
      /\ allocated' = allocated \ {kernel_stack[p]}
      /\ UNCHANGED <<pid, next, kernel_stack,
                     current_process, ready_queue, next_pid, hung>>
  BY DEF Destroy
<1>2. state' \in [Slots -> States] /\ allocated' \subseteq Stacks
  BY <1>1 DEF Safe, TypeOK, States
<1>3. OnlyCurrentRuns'
  BY <1>1 DEF Safe, TypeOK, OnlyCurrentRuns
<1>4. QED
  BY <1>1, <1>2, <1>3 DEF Safe, TypeOK

LEMMA WakeupKeepsSafe ==
  ASSUME Safe, NEW p \in Slots, Wakeup(p)
  PROVE  Safe'
<1>1. /\ state' = [state EXCEPT ![p] = "READY"]
      /\ next' = [next EXCEPT ![p] = ready_queue]
      /\ ready_queue' = p
      /\ UNCHANGED <<pid, kernel_stack, current_process, next_pid,
                     allocated, hung>>
  BY DEF Wakeup
<1>2. /\ state' \in [Slots -> States]
      /\ next' \in [Slots -> Slots \cup {NIL}]
  BY <1>1 DEF Safe, TypeOK, States
<1>3. OnlyCurrentRuns'
  BY <1>1 DEF Safe, TypeOK, OnlyCurrentRuns
<1>4. QED
  BY <1>1, <1>2, <1>3 DEF Safe, TypeOK

-----------------------------------------------------------------------------
(* Safety.                                                                 *)

LEMMA SafeInit == Init => Safe
<1> SUFFICES ASSUME Init PROVE Safe
  OBVIOUS
<1>1. TypeOK
  <2>1. /\ state \in [Slots -> States]
        /\ next \in [Slots -> Slots \cup {NIL}]
        /\ kernel_stack \in [Slots -> Stacks \cup {NIL}]
    BY DEF Init, States
  <2>2. /\ pid \in [Slots -> Nat]
        /\ next_pid \in Nat \ {0}
    BY DEF Init
  <2>3. hung \in BOOLEAN
    BY DEF Init
  <2>4. QED
    BY <2>1, <2>2, <2>3 DEF Init, TypeOK
<1>2. OnlyCurrentRuns
  BY DEF Init, OnlyCurrentRuns
<1>3. QED
  BY <1>1, <1>2 DEF Safe

LEMMA SafeNext == Safe /\ [Next]_vars => Safe'
<1> SUFFICES ASSUME Safe, [Next]_vars PROVE Safe'
  OBVIOUS
<1>1. CASE Create
  BY <1>1, CreateStep
<1>2. ASSUME NEW p \in Slots, Destroy(p) PROVE Safe'
  BY <1>2, DestroyKeepsSafe
<1>3. ASSUME NEW p \in Slots, Wakeup(p) PROVE Safe'
  BY <1>3, WakeupKeepsSafe
<1>4. CASE Yield
  BY <1>4, YieldKeeps
<1>5. CASE Exit
  BY <1>5, StopStep DEF Exit
<1>6. CASE Sleep
  BY <1>6, StopStep DEF Sleep
<1>7. CASE UNCHANGED vars
  BY <1>7 DEF vars, table, Safe, TypeOK, OnlyCurrentRuns
<1>8. QED
  BY <1>1, <1>2, <1>3, <1>4, <1>5, <1>6, <1>7 DEF Next

LEMMA SafeAlways == Spec => []Safe
BY SafeInit, SafeNext, PTL DEF Spec

\* The table, the pointers and the counter keep their types.
THEOREM TypeCorrect == Spec => []TypeOK
BY SafeAlways, PTL DEF Safe

\* At most one process is ever RUNNING, and it is the current one, however
\* the functions of the manager are called.
THEOREM OneRuns == Spec => []OnlyCurrentRuns
BY SafeAlways, PTL DEF Safe

\* What the steps but process_create do to ids and stacks.
LEMMA OtherSteps ==
  ASSUME Safe, [Next]_vars
  PROVE  \/ Create
         \/ \E p \in Slots :
              /\ UNCHANGED <<pid, next_pid, kernel_stack>>
              /\ allocated' = allocated \ {kernel_stack[p]}
              /\ \A s \in Slots \ {p} : state'[s] = state[s]
         \/ /\ UNCHANGED <<pid, next_pid, kernel_stack, allocated>>
            /\ \A s \in Slots : ~Free(s) => ~Free(s)'
<1>1. state \in [Slots -> States]
  BY DEF Safe, TypeOK
<1>2. ASSUME NEW p \in Slots, Destroy(p)
      PROVE  /\ UNCHANGED <<pid, next_pid, kernel_stack>>
             /\ allocated' = allocated \ {kernel_stack[p]}
             /\ \A s \in Slots \ {p} : state'[s] = state[s]
  BY <1>1, <1>2 DEF Destroy
<1>3. ASSUME NEW p \in Slots, Wakeup(p)
      PROVE  /\ UNCHANGED <<pid, next_pid, kernel_stack, allocated>>
             /\ \A s \in Slots : ~Free(s) => ~Free(s)'
  BY <1>1, <1>3 DEF Wakeup, Free
<1>4. ASSUME Yield \/ Exit \/ Sleep
      PROVE  /\ UNCHANGED <<pid, next_pid, kernel_stack, allocated>>
             /\ \A s \in Slots : ~Free(s) => ~Free(s)'
  <2>1. CASE Yield
    BY <2>1, YieldKeeps DEF Free
  <2>2. CASE Exit
    BY <2>2, StopStep DEF Exit, Free
  <2>3. CASE Sleep
    BY <2>3, StopStep DEF Sleep, Free
  <2>4. QED
    BY <1>4, <2>1, <2>2, <2>3
<1>5. CASE UNCHANGED vars
  BY <1>5 DEF vars, table, Free
<1>6. QED
  BY <1>2, <1>3, <1>4, <1>5 DEF Next

\* A process id never names two entries.
THEOREM PidsAreUnique == Spec => []PidsUnique
<1>1. Init => PidsUnique
  BY DEF Init, PidsUnique
<1>2. Safe /\ PidsUnique /\ [Next]_vars => PidsUnique'
  <2> SUFFICES ASSUME Safe, PidsUnique, [Next]_vars PROVE PidsUnique'
    OBVIOUS
  <2>1. next_pid \in Nat \ {0} /\ pid \in [Slots -> Nat]
    BY DEF Safe, TypeOK
  <2>2. CASE Create
    <3>1. PICK s \in Slots :
            /\ pid'[s] = next_pid /\ next_pid' = next_pid + 1
            /\ \A t \in Slots \ {s} : pid'[t] = pid[t]
      BY <2>2, CreateStep
    <3>2. \A t \in Slots : pid[t] \in Nat /\ pid[t] < next_pid
      BY <2>1 DEF PidsUnique
    <3>3. QED
      BY <2>1, <3>1, <3>2 DEF PidsUnique
  <2>3. ASSUME UNCHANGED <<pid, next_pid>>
        PROVE  PidsUnique'
    BY <2>3 DEF PidsUnique
  <2>4. QED
    BY <2>2, <2>3, OtherSteps
<1>3. QED
  BY <1>1, <1>2, SafeAlways, PTL DEF Spec

\* No kernel stack is ever leaked.
THEOREM NoStackLeak == Spec => []StacksKnown
<1>1. Init => StacksKnown
  BY DEF Init, StacksKnown
<1>2. Safe /\ StacksKnown /\ [Next]_vars => StacksKnown'
  <2> SUFFICES ASSUME Safe, StacksKnown, [Next]_vars PROVE StacksKnown'
    OBVIOUS
  <2>1. CASE Create
    <3>1. PICK s \in Slots :
            /\ Free(s) /\ state'[s] = "READY"
            /\ allocated' = allocated \cup ({kernel_stack'[s]} \ {NIL})
            /\ \A t \in Slots \ {s} :
                 state'[t] = state[t] /\ kernel_stack'[t] = kernel_stack[t]
      BY <2>1, CreateStep
    <3>2. QED
      BY <3>1 DEF StacksKnown, Free
  <2>2. ASSUME NEW p \in Slots,
               UNCHANGED kernel_stack, allocated' = allocated \ {kernel_stack[p]},
               \A s \in Slots \ {p} : state'[s] = state[s]
        PROVE  StacksKnown'
    BY <2>2 DEF StacksKnown, Free
  <2>3. ASSUME UNCHANGED <<kernel_stack, allocated>>,
               \A s \in Slots : ~Free(s) => ~Free(s)'
        PROVE  StacksKnown'
    BY <2>3 DEF StacksKnown
  <2>4. QED
    BY <2>1, <2>2, <2>3, OtherSteps
<1>3. QED
  BY <1>1, <1>2, SafeAlways, PTL DEF Spec

-----------------------------------------------------------------------------
(* Lists.                                                                  *)

\* The links nx lead from head through the entries q[1] to q[n] and end there.
Leads(nx, head, q, n) ==
  /\ n \in Nat
  /\ \A i \in 1 .. n : q[i] \in Slots
  /\ head = (IF n = 0 THEN NIL ELSE q[1])
  /\ \A i \in 1 .. n : nx[q[i]] = (IF i = n THEN NIL ELSE q[i + 1])

Different(q, n) == \A i, j \in 1 .. n : q[i] = q[j] => i = j

Lists(nx, head, q, n) == Leads(nx, head, q, n) /\ Different(q, n)

Listing(nx, head, q) == q \in Seq(Slots) /\ Lists(nx, head, q, Len(q))

Passed(q) == {q[i] : i \in 1 .. Len(q)}

\* A set of numbers that is not empty has a least element.
LEMMA Least ==
  ASSUME NEW S, S \subseteq Nat, S # {}
  PROVE  \E x \in S : \A y \in S : x <= y
<1>1. \E x \in S : \A y \in S : ~ (<<y, x>> \in OpToRel(<, Nat))
  BY NatLessThanWellFounded, WFMin, Zenon
<1>2. \A x, y \in S : <<y, x>> \in OpToRel(<, Nat) <=> y < x
  BY DEF OpToRel
<1>3. PICK x \in S : \A y \in S : ~ (y < x)
  BY <1>1, <1>2, Zenon
<1>4. QED
  BY <1>3

LEMMA SlotsNotNil == NIL \notin Slots /\ Slots \subseteq Nat
BY ProcessAssumption DEF NIL, Slots

\* A sequence of different entries is a list if each leads to the next.
LEMMA ListingIsList ==
  ASSUME NEW nx, NEW head, NEW q, Listing(nx, head, q)
  PROVE  IsList(nx, head, q)
<1>1. q \in Seq(Slots) /\ Len(q) \in Nat /\ DOMAIN q = 1 .. Len(q)
  BY LenProperties DEF Listing
<1>2. q = <<>> <=> Len(q) = 0
  BY <1>1, EmptySeq
<1>3. QED
  BY <1>1, <1>2 DEF Listing, Lists, Leads, Different, IsList

\* Two lists from one entry on agree as far as the first goes.
LEMMA ListsAgree ==
  ASSUME NEW nx, NEW head, NEW q, NEW r, NEW n, NEW m,
         Leads(nx, head, q, n), Leads(nx, head, r, m)
  PROVE  n <= m /\ \A i \in 1 .. n : q[i] = r[i]
<1> USE DEF Leads
<1> DEFINE bad == {i \in 1 .. n : ~(i <= m /\ q[i] = r[i])}
<1>1. bad = {}
  <2> SUFFICES ASSUME bad # {} PROVE FALSE
    OBVIOUS
  <2>1. bad \subseteq Nat
    OBVIOUS
  <2>2. PICK x \in bad : \A y \in bad : x <= y
    <3> HIDE DEF bad
    <3>1. QED BY <2>1, Least
  <2>3. CASE x = 1
    BY <2>2, <2>3, SlotsNotNil
  <2>4. CASE x > 1
    <3>1. x - 1 \in 1 .. n /\ x - 1 \notin bad /\ x \in 1 .. n
      BY <2>2, <2>4
    <3>2. x - 1 <= m /\ q[x - 1] = r[x - 1] /\ x - 1 \in 1 .. m /\ x - 1 # n
      BY <3>1
    <3>3. nx[q[x - 1]] = q[x] /\ q[x] \in Slots
      BY <3>1, <3>2
    <3>4. x - 1 # m /\ nx[r[x - 1]] = r[x]
      BY <3>2, <3>3, SlotsNotNil
    <3>5. x <= m
      BY <3>2, <3>4
    <3>6. QED
      BY <2>2, <3>2, <3>3, <3>4, <3>5
  <2>5. QED
    BY <2>2, <2>3, <2>4
<1>2. \A i \in 1 .. n : i <= m /\ q[i] = r[i]
  BY <1>1
<1>3. n <= m
  BY <1>2
<1>4. QED
  BY <1>2, <1>3

\* What a loop over the links passes are the entries of the list.
LEMMA ReachOfList ==
  ASSUME NEW nx, NEW head, NEW q, Listing(nx, head, q)
  PROVE  Reach(nx, head) = Passed(q)
<1> DEFINE n == Len(q)
<1>1. Lists(nx, head, q, n)
  BY DEF Listing
<1> HIDE DEF n
<1>2. CASE head = NIL
  <2>1. n = 0
    BY <1>1, <1>2, SlotsNotNil DEF Lists, Leads, Different
  <2>2. QED
    BY <1>2, <2>1 DEF Reach, Passed, n
<1>3. CASE head # NIL
  <2>1. n \in Nat /\ n >= 1 /\ head = q[1] /\ \A i \in 1 .. n : q[i] \in Slots
    BY <1>1, <1>3 DEF Lists, Leads, Different
  <2>2. Passed(q) \in Closed(nx, head)
    <3>1. Passed(q) = {q[i] : i \in 1 .. n}
      BY DEF Passed, n
    <3>2. head \in Passed(q) /\ Passed(q) \subseteq Slots
      BY <2>1, <3>1
    <3>3. \A i \in 1 .. n : nx[q[i]] \in Passed(q) \cup {NIL}
      BY <1>1, <2>1, <3>1 DEF Lists, Leads, Different
    <3>4. \A t \in Passed(q) : nx[t] \in Passed(q) \cup {NIL}
      BY <3>1, <3>3
    <3>5. QED
      BY <3>2, <3>4 DEF Closed
  <2>3. ASSUME NEW set \in Closed(nx, head)
        PROVE  \A i \in 1 .. n : q[i] \in set
    <3> DEFINE bad == {i \in 1 .. n : q[i] \notin set}
    <3>1. head \in set /\ \A t \in set : nx[t] \in set \cup {NIL}
      BY <1>3, <2>3 DEF Closed
    <3>2. bad = {}
      <4> SUFFICES ASSUME bad # {} PROVE FALSE
        OBVIOUS
      <4>1. bad \subseteq Nat
        BY <2>1
      <4>2. PICK x \in bad : \A y \in bad : x <= y
        <5> HIDE DEF bad
        <5>1. QED BY <4>1, Least
      <4>3. x \in 1 .. n /\ x # 1
        BY <2>1, <3>1, <4>2
      <4>4. x - 1 \in 1 .. n /\ x - 1 # n /\ x - 1 \notin bad
        BY <2>1, <4>2, <4>3
      <4>5. q[x - 1] \in set
        BY <4>4
      <4>6. nx[q[x - 1]] = q[x]
        BY <1>1, <2>1, <4>3, <4>4 DEF Lists, Leads, Different
      <4>7. q[x] \in set
        BY <2>1, <3>1, <4>3, <4>5, <4>6, SlotsNotNil
      <4>8. QED
        BY <4>2, <4>7
    <3>3. QED
      BY <3>2
  <2>4. Reach(nx, head) = {s \in Slots : \A set \in Closed(nx, head) : s \in set}
    BY <1>3 DEF Reach
  <2>5. Reach(nx, head) \subseteq Passed(q)
    BY <2>2, <2>4
  <2>6. Passed(q) \subseteq Reach(nx, head)
    BY <2>1, <2>3, <2>4 DEF Passed, n
  <2>7. QED
    BY <2>5, <2>6
<1>4. QED
  BY <1>2, <1>3

\* Entries lead to one list at most.
LEMMA ListUnique ==
  ASSUME NEW nx, NEW head, NEW q, NEW r \in Seq(Slots),
         Listing(nx, head, q), IsList(nx, head, r)
  PROVE  r = q
<1> DEFINE n == Len(q)
           m == Len(r)
<1>1. Leads(nx, head, q, n)
  BY DEF Listing, Lists
<1>2. /\ m \in Nat /\ \A i \in 1 .. m : r[i] \in Slots
      /\ DOMAIN r = 1 .. m /\ (r = <<>> <=> m = 0)
  BY LenProperties, ElementOfSeq, EmptySeq
<1>3. Leads(nx, head, r, m)
  BY <1>2 DEF IsList, Leads
<1>4. n \in Nat
  BY <1>1 DEF Leads
<1> HIDE DEF n, m
<1>5. n <= m /\ \A i \in 1 .. n : q[i] = r[i]
  BY <1>1, <1>3, ListsAgree
<1>6. m <= n
  BY <1>1, <1>3, ListsAgree
<1>7. n = m
  BY <1>2, <1>4, <1>5, <1>6
<1>8. q \in Seq(Slots)
  BY DEF Listing
<1>9. QED
  BY <1>5, <1>7, <1>8, SeqEqual DEF n, m

\* A list has no more entries than the table.
LEMMA ListFits ==
  ASSUME NEW nx, NEW head, NEW q, Listing(nx, head, q)
  PROVE  q \in UNION {[1 .. n -> Slots] : n \in 0 .. MAX_PROCS}
<1>1. /\ q \in [1 .. Len(q) -> Slots] /\ Len(q) \in Nat
      /\ \A i, j \in 1 .. Len(q) : q[i] = q[j] => i = j
  BY LenProperties DEF Listing, Lists, Leads, Different
<1>2. q \in Injection(1 .. Len(q), Slots)
  BY <1>1 DEF Injection, IsInjective
<1>3. IsFiniteSet(Slots) /\ Cardinality(Slots) = MAX_PROCS
  BY FS_Interval, ProcessAssumption DEF Slots
<1>4. Cardinality(1 .. Len(q)) = Len(q)
  <2>1. 1 \in Int /\ Len(q) \in Int
    BY <1>1
  <2>2. Cardinality(1 .. Len(q)) = IF 1 > Len(q) THEN 0 ELSE Len(q) - 1 + 1
    BY <2>1, FS_Interval, Zenon
  <2>3. QED
    BY <1>1, <2>2
<1>5. Cardinality(1 .. Len(q)) <= Cardinality(Slots)
  BY <1>2, <1>3, FS_Injection
<1>6. Len(q) \in 0 .. MAX_PROCS
  BY <1>1, <1>3, <1>4, <1>5, ProcessAssumption
<1>7. QED
  BY <1>1, <1>6

\* Chain and its like are the list there is.
LEMMA ListFound ==
  ASSUME NEW nx, NEW head, NEW q, Listing(nx, head, q)
  PROVE  ListFrom(nx, head) = q
<1> DEFINE lists == {r \in UNION {[1 .. n -> Slots] : n \in 0 .. MAX_PROCS} :
                       IsList(nx, head, r)}
<1>1. q \in lists
  BY ListFits, ListingIsList
<1>2. \A r \in lists : r = q
  <2> TAKE r \in lists
  <2>1. PICK n \in 0 .. MAX_PROCS : r \in [1 .. n -> Slots]
    OBVIOUS
  <2>2. r \in Seq(Slots)
    <3>1. n \in Nat
      BY ProcessAssumption
    <3>2. QED
      BY <2>1, <3>1, SeqDef
  <2>3. IsList(nx, head, r)
    OBVIOUS
  <2>4. QED
    BY <2>2, <2>3, ListUnique
<1>3. ListFrom(nx, head) = IF lists = {} THEN <<>> ELSE CHOOSE r \in lists : TRUE
  BY DEF ListFrom
<1> HIDE DEF lists
<1>4. QED
  BY <1>1, <1>2, <1>3

\* Links outside of a list may change.
LEMMA ListFrame ==
  ASSUME NEW nx, NEW ny, NEW head, NEW q, Listing(nx, head, q),
         \A s \in Passed(q) : ny[s] = nx[s]
  PROVE  Listing(ny, head, q)
BY DEF Listing, Lists, Leads, Different, Passed

\* An entry is put in front.
LEMMA ListPush ==
  ASSUME NEW nx, NEW ny, NEW head, NEW q, Listing(nx, head, q),
         NEW s \in Slots, s \notin Passed(q),
         ny[s] = head, \A t \in Slots \ {s} : ny[t] = nx[t]
  PROVE  /\ Listing(ny, s, <<s>> \o q)
         /\ Passed(<<s>> \o q) = Passed(q) \cup {s}
<1> DEFINE n == Len(q)
           r == <<s>> \o q
<1>1. q \in Seq(Slots) /\ Lists(nx, head, q, n)
  BY DEF Listing
<1>2. <<s>> \in Seq(Slots) /\ Len(<<s>>) = 1 /\ <<s>>[1] = s
  OBVIOUS
<1>3. /\ r \in Seq(Slots) /\ Len(r) = 1 + n
      /\ \A i \in 1 .. 1 + n : r[i] = IF i <= 1 THEN <<s>>[i] ELSE q[i - 1]
  BY <1>1, <1>2, ConcatProperties
<1>4. \A i \in 1 .. n : q[i] # s
  BY DEF Passed
<1> HIDE DEF r, n
<1>5. n \in Nat /\ r[1] = s /\ \A i \in 1 .. n : r[i + 1] = q[i]
  BY <1>1, <1>2, <1>3 DEF Lists, Leads, Different
<1>6. Lists(ny, s, r, 1 + n)
  <2>1. 1 + n \in Nat /\ \A i \in 1 .. 1 + n : i = 1 \/ (i - 1 \in 1 .. n /\ r[i] = q[i - 1])
    BY <1>5
  <2>2. \A i \in 1 .. 1 + n : r[i] \in Slots
    BY <1>1, <1>5, <2>1 DEF Lists, Leads, Different
  <2>3. \A i, j \in 1 .. 1 + n : r[i] = r[j] => i = j
    <3> TAKE i, j \in 1 .. 1 + n
    <3> HAVE r[i] = r[j]
    <3>1. CASE i = 1 \/ j = 1
      BY <1>4, <1>5, <2>1, <3>1
    <3>2. CASE i # 1 /\ j # 1
      <4>1. i - 1 \in 1 .. n /\ j - 1 \in 1 .. n /\ q[i - 1] = q[j - 1]
        BY <2>1, <3>2
      <4>2. i - 1 = j - 1
        BY <1>1, <4>1 DEF Lists, Different
      <4>3. QED
        BY <1>5, <4>2
    <3>3. QED
      BY <3>1, <3>2
  <2>4. ny[s] = head /\ \A t \in Slots \ {s} : ny[t] = nx[t]
    OBVIOUS
  <2>5. \A i \in 1 .. 1 + n : ny[r[i]] = (IF i = 1 + n THEN NIL ELSE r[i + 1])
    <3> TAKE i \in 1 .. 1 + n
    <3>1. CASE i = 1
      BY <1>1, <1>5, <2>4, <3>1 DEF Lists, Leads, Different
    <3>2. CASE i # 1
      <4>1. i - 1 \in 1 .. n /\ r[i] = q[i - 1]
        BY <2>1, <3>2
      <4>2. ny[r[i]] = nx[q[i - 1]]
        BY <1>1, <1>4, <2>4, <4>1 DEF Lists, Leads, Different
      <4>3. nx[q[i - 1]] = IF i - 1 = n THEN NIL ELSE q[i]
        BY <1>1, <4>1 DEF Lists, Leads, Different
      <4>4. i - 1 # n => i \in 1 .. n /\ r[i + 1] = q[i]
        BY <1>5, <4>1
      <4>5. QED
        BY <1>5, <4>1, <4>2, <4>3, <4>4
    <3>3. QED
      BY <3>1, <3>2
  <2>6. QED
    BY <1>5, <2>1, <2>2, <2>3, <2>5 DEF Lists, Leads, Different
<1>7. Passed(r) = Passed(q) \cup {s}
  <2>1. Passed(r) = {r[i] : i \in 1 .. 1 + n} /\ Passed(q) = {q[i] : i \in 1 .. n}
    BY <1>3 DEF Passed, n
  <2>2. \A i \in 1 .. 1 + n : i = 1 \/ (i - 1 \in 1 .. n /\ r[i] = q[i - 1])
    BY <1>3, <1>5
  <2>3. \A i \in 1 .. n : i + 1 \in 1 .. 1 + n
    BY <1>5
  <2>4. 1 \in 1 .. 1 + n
    BY <1>5
  <2>5. QED
    BY <1>5, <2>1, <2>2, <2>3, <2>4
<1>8. QED
  BY <1>3, <1>6, <1>7 DEF Listing, r

\* The first is taken off.
LEMMA ListPop ==
  ASSUME NEW nx \in [Slots -> Slots \cup {NIL}], NEW head, NEW q,
         Listing(nx, head, q), head # NIL
  PROVE  /\ q # <<>> /\ head = Head(q) /\ head \in Slots
         /\ Listing([nx EXCEPT ![head] = NIL], nx[head], Tail(q))
         /\ Passed(Tail(q)) = Passed(q) \ {head}
<1> DEFINE n == Len(q)
           r == Tail(q)
           ny == [nx EXCEPT ![head] = NIL]
<1>1. q \in Seq(Slots) /\ Lists(nx, head, q, n)
  BY DEF Listing
<1>2. n \in Nat /\ n >= 1 /\ head = q[1] /\ head \in Slots
  <2> HIDE DEF n
  <2>1. QED BY <1>1 DEF Lists, Leads, Different
<1>3. q # <<>> /\ Head(q) = head
  BY <1>1, <1>2, EmptySeq
<1>4. r \in Seq(Slots) /\ Len(r) = n - 1 /\ \A i \in 1 .. n - 1 : r[i] = q[i + 1]
  BY <1>1, <1>3, HeadTailProperties
<1> HIDE DEF n, r
<1>5. Lists(ny, nx[head], r, n - 1)
  <2>1. \A i \in 1 .. n - 1 : i \in 1 .. n /\ i + 1 \in 1 .. n
    BY <1>2
  <2>2. \A i \in 1 .. n - 1 : r[i] \in Slots
    BY <1>1, <1>4, <2>1 DEF Lists, Leads, Different
  <2>3. \A i, j \in 1 .. n - 1 : r[i] = r[j] => i = j
    BY <1>1, <1>4, <2>1 DEF Lists, Leads, Different
  <2>4. nx[head] = (IF n - 1 = 0 THEN NIL ELSE r[1])
    BY <1>1, <1>2, <1>4 DEF Lists, Leads, Different
  <2>5. \A i \in 1 .. n - 1 : ny[r[i]] = (IF i = n - 1 THEN NIL ELSE r[i + 1])
    <3> TAKE i \in 1 .. n - 1
    <3>1. r[i] = q[i + 1] /\ i + 1 \in 1 .. n /\ q[i + 1] \in Slots
      BY <1>1, <1>4, <2>1 DEF Lists, Leads, Different
    <3>2. q[i + 1] # head
      BY <1>1, <1>2, <3>1 DEF Lists, Leads, Different
    <3>3. ny[r[i]] = nx[q[i + 1]]
      BY <3>1, <3>2
    <3> HIDE DEF ny
    <3>4. nx[q[i + 1]] = (IF i + 1 = n THEN NIL ELSE q[i + 2])
      BY <1>1, <3>1 DEF Lists, Leads, Different
    <3>5. i + 1 # n => i + 1 \in 1 .. n - 1 /\ r[i + 1] = q[i + 2]
      BY <1>2, <1>4, <3>1
    <3>6. i + 1 = n <=> i = n - 1
      BY <1>2
    <3>7. QED
      BY <3>3, <3>4, <3>5, <3>6
  <2> HIDE DEF ny
  <2>6. QED
    BY <1>2, <2>2, <2>3, <2>4, <2>5 DEF Lists, Leads, Different
<1>6. Passed(r) = Passed(q) \ {head}
  <2>1. Passed(r) = {r[i] : i \in 1 .. n - 1} /\ Passed(q) = {q[i] : i \in 1 .. n}
    BY <1>4 DEF Passed, n
  <2>2. \A i \in 1 .. n - 1 : i + 1 \in 1 .. n /\ r[i] = q[i + 1]
    BY <1>2, <1>4
  <2>3. \A i \in 1 .. n : q[i] = head <=> i = 1
    BY <1>1, <1>2 DEF Lists, Leads, Different
  <2>4. \A i \in 1 .. n : i # 1 => i - 1 \in 1 .. n - 1 /\ r[i - 1] = q[i]
    BY <1>2, <1>4
  <2>5. Passed(r) \subseteq Passed(q) \ {head}
    BY <1>2, <2>1, <2>2, <2>3
  <2>6. Passed(q) \ {head} \subseteq Passed(r)
    BY <2>1, <2>3, <2>4
  <2>7. QED
    BY <2>5, <2>6
<1>7. QED
  BY <1>2, <1>3, <1>4, <1>5, <1>6 DEF Listing, r

\* An entry is linked to the one that leads nowhere.
LEMMA ListAppend ==
  ASSUME NEW nx, NEW ny, NEW head, NEW q, Listing(nx, head, q),
         NEW s \in Slots, s \notin Passed(q),
         NEW last \in Passed(q), nx[last] = NIL,
         ny[s] = NIL, ny[last] = s,
         \A t \in Slots \ {s, last} : ny[t] = nx[t]
  PROVE  /\ Listing(ny, head, Append(q, s))
         /\ Passed(Append(q, s)) = Passed(q) \cup {s}
<1> DEFINE n == Len(q)
           r == Append(q, s)
<1>1. q \in Seq(Slots) /\ Lists(nx, head, q, n)
  BY DEF Listing
<1>2. /\ r \in Seq(Slots) /\ Len(r) = n + 1 /\ r[n + 1] = s
      /\ \A i \in 1 .. n : r[i] = q[i]
  BY <1>1, AppendProperties
<1>3. Passed(q) = {q[i] : i \in 1 .. n}
  BY DEF Passed
<1> HIDE DEF n, r
<1>4. n \in Nat /\ n >= 1 /\ last = q[n] /\ last \in Slots
  <2>1. PICK i \in 1 .. n : last = q[i]
    BY <1>3
  <2>2. /\ n \in Nat /\ q[i] \in Slots
        /\ nx[q[i]] = IF i = n THEN NIL ELSE q[i + 1]
    BY <1>1, <2>1 DEF Lists, Leads
  <2>3. i + 1 \in 1 .. n \/ i = n
    BY <2>1, <2>2
  <2>4. i = n
    BY <1>1, <2>1, <2>2, <2>3, SlotsNotNil DEF Lists, Leads
  <2> QED  BY <2>1, <2>2, <2>4
<1>5. \A i \in 1 .. n : q[i] # s
  BY <1>3
<1>6. \A i \in 1 .. n + 1 : i = n + 1 \/ i \in 1 .. n
  BY <1>4
<1>7. Lists(ny, head, r, n + 1)
  <2>1. \A i \in 1 .. n + 1 : r[i] \in Slots
    BY <1>1, <1>2, <1>6 DEF Lists, Leads, Different
  <2>2. \A i, j \in 1 .. n + 1 : r[i] = r[j] => i = j
    BY <1>1, <1>2, <1>5, <1>6 DEF Lists, Leads, Different
  <2>3. head = r[1]
    BY <1>1, <1>2, <1>4 DEF Lists, Leads, Different
  <2>4. /\ last # s /\ ny[s] = NIL /\ ny[last] = s
        /\ \A t \in Slots \ {s, last} : ny[t] = nx[t]
    BY <1>4
  <2>5. \A i \in 1 .. n + 1 : ny[r[i]] = (IF i = n + 1 THEN NIL ELSE r[i + 1])
    <3> TAKE i \in 1 .. n + 1
    <3>1. CASE i = n + 1
      BY <1>2, <2>4, <3>1
    <3>2. CASE i = n
      BY <1>2, <1>4, <2>4, <3>2
    <3>3. CASE i # n + 1 /\ i # n
      <4>1. i \in 1 .. n /\ n \in 1 .. n /\ i + 1 \in 1 .. n
        BY <1>4, <3>3
      <4>2. q[i] \in Slots \ {s, last} /\ nx[q[i]] = q[i + 1]
        BY <1>1, <1>4, <1>5, <3>3, <4>1 DEF Lists, Leads, Different
      <4>3. r[i] = q[i] /\ r[i + 1] = q[i + 1]
        BY <1>2, <4>1
      <4>4. QED
        BY <2>4, <3>3, <4>2, <4>3
    <3>4. QED
      BY <3>1, <3>2, <3>3
  <2>6. n + 1 \in Nat /\ n + 1 # 0
    BY <1>4
  <2>7. QED
    BY <2>1, <2>2, <2>3, <2>5, <2>6 DEF Lists, Leads, Different
<1>8. Passed(r) = Passed(q) \cup {s}
  <2>1. Passed(r) = {r[i] : i \in 1 .. n + 1}
    BY <1>2 DEF Passed
  <2>2. \A i \in 1 .. n : i \in 1 .. n + 1
    BY <1>4
  <2>3. n + 1 \in 1 .. n + 1
    BY <1>4
  <2>4. QED
    BY <1>2, <1>3, <1>6, <2>1, <2>2, <2>3
<1>9. QED
  BY <1>2, <1>7, <1>8 DEF Listing, r

\* A loop over the links comes to an end.
LEMMA ListEnds ==
  ASSUME NEW nx, NEW head, NEW q, Listing(nx, head, q), head # NIL
  PROVE  \E last \in Passed(q) : nx[last] = NIL
<1> DEFINE n == Len(q)
<1>1. Lists(nx, head, q, n) /\ Passed(q) = {q[i] : i \in 1 .. n}
  BY DEF Listing, Passed
<1> HIDE DEF n
<1>2. n \in Nat /\ n >= 1
  BY <1>1 DEF Lists, Leads, Different
<1>3. n \in 1 .. n
  BY <1>2
<1>4. nx[q[n]] = NIL
  BY <1>1, <1>3 DEF Lists, Leads, Different
<1>5. QED
  BY <1>1, <1>3, <1>4

\* The first of a list is on it.
LEMMA ListHead ==
  ASSUME NEW nx, NEW head, NEW q, Listing(nx, head, q)
  PROVE  /\ q # <<>> => head = Head(q) /\ head \in Passed(q)
         /\ q = <<>> => head = NIL
<1>1. q \in Seq(Slots) /\ Len(q) \in Nat
  BY LenProperties DEF Listing
<1>2. CASE q = <<>>
  BY <1>1, <1>2, EmptySeq DEF Listing, Lists, Leads
<1>3. CASE q # <<>>
  <2>1. Len(q) # 0 /\ 1 \in 1 .. Len(q)
    BY <1>1, <1>3, EmptySeq
  <2>2. head = q[1]
    BY <2>1 DEF Listing, Lists, Leads
  <2>3. QED
    BY <1>1, <1>3, <2>1, <2>2 DEF Passed
<1>4. QED
  BY <1>2, <1>3

-----------------------------------------------------------------------------
(* The ready queue as a list.                                              *)

\* The first of the queue q takes over and r is left.
Handed(q, r) ==
  /\ q # <<>> /\ ready_queue \in Slots
  /\ ready_queue = Head(q) /\ current_process' = Head(q)
  /\ Listing(next', ready_queue', r)

\* A dispatch takes the first off.
LEMMA DispatchList ==
  ASSUME TypeOK, ready_queue # NIL,
         NEW st, NEW nx \in [Slots -> Slots \cup {NIL}],
         NEW q, Listing(nx, ready_queue, q), Dispatch(st, nx)
  PROVE  /\ Handed(q, Tail(q))
         /\ Passed(Tail(q)) = Passed(q) \ {ready_queue}
         /\ state' = [st EXCEPT ![ready_queue] = "RUNNING"]
         /\ \A t \in Slots \ {ready_queue} : next'[t] = nx[t]
<1>1. /\ q # <<>> /\ ready_queue = Head(q) /\ ready_queue \in Slots
      /\ Listing([nx EXCEPT ![ready_queue] = NIL], nx[ready_queue], Tail(q))
      /\ Passed(Tail(q)) = Passed(q) \ {ready_queue}
  BY ListPop
<1>2. /\ state' = [st EXCEPT ![ready_queue] = "RUNNING"]
      /\ next' = [nx EXCEPT ![ready_queue] = NIL]
      /\ current_process' = ready_queue /\ ready_queue' = nx[ready_queue]
  BY DEF Dispatch
<1>3. Handed(q, Tail(q))
  BY <1>1, <1>2 DEF Handed
<1>4. \A t \in Slots \ {ready_queue} : next'[t] = nx[t]
  BY <1>2
<1>5. QED
  BY <1>1, <1>2, <1>3, <1>4

\* The process that gives the processor up is not on the queue, and goes
\* behind it if it still runs.
LEMMA YieldList ==
  ASSUME TypeOK, NEW st \in [Slots -> States],
         NEW q, Listing(next, ready_queue, q),
         current_process \notin Passed(q), YieldFrom(st)
  PROVE  /\ \/ /\ ready_queue = NIL /\ state' = st
               /\ UNCHANGED <<next, current_process, ready_queue>>
            \/ /\ ~(current_process # NIL /\ st[current_process] = "RUNNING")
               /\ Handed(q, Tail(q))
               /\ Passed(Tail(q)) = Passed(q) \ {ready_queue}
               /\ state' = [st EXCEPT ![ready_queue] = "RUNNING"]
            \/ /\ current_process \in Slots /\ st[current_process] = "RUNNING"
               /\ Handed(q, Tail(q) \o <<current_process>>)
               /\ Passed(Tail(q) \o <<current_process>>)
                    = (Passed(q) \ {ready_queue}) \cup {current_process}
               /\ state' = [st EXCEPT ![current_process] = "READY",
                                      ![ready_queue] = "RUNNING"]
         /\ \A t \in Slots \ Passed(q) :
              next'[t] = next[t] \/ (t = current_process /\ st[t] = "RUNNING")
         /\ UNCHANGED <<pid, kernel_stack, next_pid, allocated, hung>>
<1>1. UNCHANGED <<pid, kernel_stack, next_pid, allocated>>
  BY DEF YieldFrom
<1>2. /\ next \in [Slots -> Slots \cup {NIL}] /\ q \in Seq(Slots)
      /\ Queued = Passed(q)
  BY ReachOfList DEF TypeOK, Queued, Listing
<1>3. CASE ready_queue = NIL
  BY <1>1, <1>3 DEF YieldFrom
<1>4. CASE ready_queue # NIL /\ ~(current_process # NIL /\ st[current_process] = "RUNNING")
  <2>1. Dispatch(st, next) /\ UNCHANGED hung
    BY <1>4 DEF YieldFrom
  <2>2. /\ Handed(q, Tail(q))
        /\ Passed(Tail(q)) = Passed(q) \ {ready_queue}
        /\ state' = [st EXCEPT ![ready_queue] = "RUNNING"]
        /\ \A t \in Slots \ {ready_queue} : next'[t] = next[t]
    BY <1>2, <1>4, <2>1, DispatchList
  <2>3. ready_queue \in Passed(q)
    BY <2>2, ListHead DEF Handed
  <2>4. QED
    BY <1>1, <1>4, <2>1, <2>2, <2>3
<1>5. CASE ready_queue # NIL /\ current_process # NIL /\ st[current_process] = "RUNNING"
  <2> DEFINE back == [st EXCEPT ![current_process] = "READY"]
  <2>1. current_process \in Slots
    BY <1>5 DEF TypeOK
  <2>2. \E last \in Passed(q) : next[last] = NIL
    BY <1>5, ListEnds
  <2>3. PICK last \in Passed(q) :
          /\ next[last] = NIL
          /\ Dispatch(back, [next EXCEPT ![last] = current_process,
                                         ![current_process] = NIL])
          /\ UNCHANGED hung
    BY <1>2, <1>5, <2>2 DEF YieldFrom
  <2> DEFINE nx == [next EXCEPT ![last] = current_process, ![current_process] = NIL]
  <2>4. /\ Listing(nx, ready_queue, Append(q, current_process))
        /\ Passed(Append(q, current_process)) = Passed(q) \cup {current_process}
    <3>1. /\ nx[current_process] = NIL /\ nx[last] = current_process
          /\ \A t \in Slots \ {current_process, last} : nx[t] = next[t]
      <4>1. last \in Slots /\ last # current_process
        BY DEF Passed, Listing, Lists, Leads
      <4>2. QED
        BY <1>2, <2>1, <4>1
    <3> HIDE DEF nx
    <3>2. next[last] = NIL
      BY <2>3
    <3>3. QED
      BY <2>1, <3>1, <3>2, ListAppend
  <2>5. nx \in [Slots -> Slots \cup {NIL}]
    BY <1>2, <2>1
  <2>6. \A t \in Slots \ (Passed(q) \cup {current_process}) : nx[t] = next[t]
    BY <1>2, <2>1, <2>3
  <2> HIDE DEF nx, back
  <2>7. Dispatch(back, nx)
    BY <2>3 DEF nx, back
  <2> DEFINE r == Append(q, current_process)
  <2> HIDE DEF r
  <2>8. Listing(nx, ready_queue, r)
    BY <2>4 DEF r
  <2>9. /\ Handed(r, Tail(r))
        /\ Passed(Tail(r)) = Passed(r) \ {ready_queue}
        /\ state' = [back EXCEPT ![ready_queue] = "RUNNING"]
        /\ \A t \in Slots \ {ready_queue} : next'[t] = nx[t]
    BY <1>5, <2>5, <2>7, <2>8, DispatchList
  <2>10. q # <<>> /\ ready_queue \in Passed(q) /\ ready_queue = Head(q)
    BY <1>5, ListPop, ListHead
  <2>11. Tail(r) = Tail(q) \o <<current_process>>
    <3>1. Tail(r) = Append(Tail(q), current_process)
      BY <1>2, <2>1, <2>10, HeadTailAppend DEF r
    <3>2. Tail(q) \in Seq(Slots)
      BY <1>2, <2>10, HeadTailProperties
    <3>3. QED
      BY <2>1, <3>1, <3>2, AppendIsConcat
  <2>12. Handed(q, Tail(q) \o <<current_process>>)
    BY <2>9, <2>10, <2>11 DEF Handed
  <2>13. Passed(Tail(q) \o <<current_process>>)
           = (Passed(q) \ {ready_queue}) \cup {current_process}
    BY <2>4, <2>9, <2>10, <2>11 DEF r
  <2>14. state' = [st EXCEPT ![current_process] = "READY",
                             ![ready_queue] = "RUNNING"]
    BY <2>9 DEF back
  <2>15. \A t \in Slots \ (Passed(q) \cup {current_process}) : next'[t] = next[t]
    BY <2>6, <2>9, <2>10
  <2>16. QED
    BY <1>1, <1>5, <2>1, <2>3, <2>12, <2>13, <2>14, <2>15
<1>6. QED
  BY <1>3, <1>4, <1>5

-----------------------------------------------------------------------------
(* Orderly callers.                                                        *)

\* The processes that can run, but for the one that does.
Ready == {s \in Slots : state[s] = "READY" /\ kernel_stack[s] # NIL}

\* Only processes that got a stack were ever dispatched.
Stacked == \A s \in Slots : state[s] \in {"RUNNING", "SLEEPING"} => kernel_stack[s] # NIL

\* q is the queue, and exactly the processes that can run are on it.
IsQueue(q) == Listing(next, ready_queue, q) /\ Passed(q) = Ready

Orderly == Safe /\ ~hung /\ CurrentRuns /\ StacksExclusive /\ Stacked

\* What a step does to the queue q, that becomes r.
QueueStep(q, r) ==
  \/ /\ r = q /\ UNCHANGED current_process
  \/ /\ \E p \in Slots : p \notin Passed(q) \cup {current_process} /\ r = <<p>> \o q
     /\ UNCHANGED current_process
  \/ /\ q # <<>> /\ current_process' = Head(q)
     /\ r = Tail(q) \o (IF current_process = NIL THEN <<>> ELSE <<current_process>>)
  \/ /\ q # <<>> /\ current_process' = Head(q) /\ current_process # NIL
     /\ r = Tail(q)

LEMMA CurrentNotQueued ==
  ASSUME Orderly, NEW q, IsQueue(q)
  PROVE  current_process \notin Passed(q)
BY SlotsNotNil DEF Orderly, CurrentRuns, IsQueue, Ready

\* process_create.
LEMMA CreateOrderly ==
  ASSUME Orderly, NEW q, IsQueue(q), Create
  PROVE  Orderly' /\ \E r : IsQueue(r)' /\ QueueStep(q, r)
<1>1. Safe /\ Safe' /\ UNCHANGED <<current_process, hung>>
  BY CreateStep DEF Orderly, Create
<1>2. /\ next \in [Slots -> Slots \cup {NIL}] /\ state \in [Slots -> States]
      /\ kernel_stack \in [Slots -> Stacks \cup {NIL}] /\ allocated \subseteq Stacks
      /\ current_process \in Slots \cup {NIL}
  BY <1>1 DEF Safe, TypeOK
<1>3. Listing(next, ready_queue, q) /\ Passed(q) = Ready /\ q \in Seq(Slots)
  BY DEF IsQueue, Listing
<1>4. NIL \notin Stacks
  BY ProcessAssumption DEF NIL
<1>5. ASSUME NEW s \in Slots, NEW k \in Stacks \cup {NIL}, k \notin allocated,
             Fill(s, k), allocated' = allocated \cup ({k} \ {NIL})
      PROVE  /\ Orderly'
             /\ s \notin Passed(q) /\ s # current_process
             /\ Ready' = Ready \cup (IF k = NIL THEN {} ELSE {s})
  <2>1. /\ state'[s] = "READY" /\ kernel_stack'[s] = k /\ Free(s)
        /\ \A t \in Slots \ {s} :
             state'[t] = state[t] /\ kernel_stack'[t] = kernel_stack[t]
    BY <1>1, <1>5, FillStep
  <2>2. s \notin Ready /\ s # current_process
    BY <1>4, <2>1, SlotsNotNil DEF Free, Ready, Orderly, CurrentRuns
  <2>3. Ready' = Ready \cup (IF k = NIL THEN {} ELSE {s})
    BY <2>1, <2>2 DEF Ready
  <2>4. CurrentRuns' /\ Stacked'
    BY <1>1, <1>2, <2>1, <2>2 DEF Orderly, CurrentRuns, Stacked
  <2>5. StacksExclusive'
    <3>1. \A t \in Slots : ~Free(t) /\ kernel_stack[t] # NIL => kernel_stack[t] \in allocated
      BY DEF Orderly, StacksExclusive
    <3>2. \A t \in Slots \ {s} : Free(t)' = Free(t)
      BY <2>1 DEF Free
    <3>3. \A t \in Slots \ {s} : ~Free(t) => kernel_stack[t] # k \/ k = NIL
      BY <1>5, <3>1
    <3>4. ASSUME NEW t \in Slots, ~Free(t)', kernel_stack'[t] # NIL
          PROVE  /\ kernel_stack'[t] \in allocated'
                 /\ \A u \in Slots \ {t} : ~Free(u)' => kernel_stack'[u] # kernel_stack'[t]
      <4>1. CASE t = s
        BY <1>5, <2>1, <3>2, <3>3, <3>4, <4>1
      <4>2. CASE t # s
        <5>1. ~Free(t) /\ kernel_stack'[t] = kernel_stack[t]
          BY <2>1, <3>2, <3>4, <4>2
        <5>2. \A u \in Slots \ {t} : ~Free(u) => kernel_stack[u] # kernel_stack[t]
          BY <3>4, <5>1 DEF Orderly, StacksExclusive
        <5>3. QED
          BY <1>5, <2>1, <3>1, <3>2, <3>3, <3>4, <4>2, <5>1, <5>2
      <4>3. QED
        BY <4>1, <4>2
    <3>5. QED
      BY <3>4 DEF StacksExclusive
  <2>6. QED
    BY <1>1, <1>3, <2>2, <2>3, <2>4, <2>5 DEF Orderly
<1>6. ASSUME NEW s \in Slots, NEW k \in Stacks \ allocated,
             Fill(s, k), allocated' = allocated \cup {k},
             next' = [next EXCEPT ![s] = ready_queue], ready_queue' = s
      PROVE  Orderly' /\ IsQueue(<<s>> \o q)' /\ QueueStep(q, <<s>> \o q)
  <2>1. /\ Orderly' /\ s \notin Passed(q) /\ s # current_process
        /\ Ready' = Ready \cup {s}
    <3>1. k \notin allocated /\ k # NIL /\ allocated' = allocated \cup ({k} \ {NIL})
      BY <1>4, <1>6
    <3>2. QED
      BY <1>5, <1>6, <3>1
  <2>2. /\ Listing(next', s, <<s>> \o q)
        /\ Passed(<<s>> \o q) = Passed(q) \cup {s}
    <3>1. next'[s] = ready_queue /\ \A t \in Slots \ {s} : next'[t] = next[t]
      BY <1>2, <1>6
    <3>2. QED
      BY <1>3, <2>1, <3>1, ListPush
  <2>3. IsQueue(<<s>> \o q)'
    BY <1>3, <1>6, <2>1, <2>2 DEF IsQueue
  <2>4. QED
    BY <1>1, <2>1, <2>3 DEF QueueStep
<1>7. ASSUME NEW s \in Slots, Fill(s, NIL), next' = [next EXCEPT ![s] = NIL],
             UNCHANGED <<allocated, ready_queue>>
      PROVE  Orderly' /\ IsQueue(q)' /\ QueueStep(q, q)
  <2>1. Orderly' /\ s \notin Passed(q) /\ Ready' = Ready
    <3>1. NIL \notin allocated /\ allocated' = allocated \cup ({NIL} \ {NIL})
      BY <1>2, <1>4, <1>7
    <3>2. QED
      BY <1>5, <1>7, <3>1
  <2>2. \A t \in Passed(q) : next'[t] = next[t]
    BY <1>2, <1>7, <2>1 DEF IsQueue, Ready
  <2>3. Listing(next', ready_queue, q)
    BY <1>3, <2>2, ListFrame
  <2>4. QED
    BY <1>1, <1>3, <1>7, <2>1, <2>3 DEF IsQueue, QueueStep
<1>8. QED
  BY <1>6, <1>7 DEF Create

\* process_wakeup.
LEMMA WakeupOrderly ==
  ASSUME Orderly, NEW q, IsQueue(q), NEW p \in Slots, Wakeup(p)
  PROVE  Orderly' /\ \E r : IsQueue(r)' /\ QueueStep(q, r)
<1>1. /\ state[p] = "SLEEPING" /\ state' = [state EXCEPT ![p] = "READY"]
      /\ next' = [next EXCEPT ![p] = ready_queue] /\ ready_queue' = p
      /\ UNCHANGED <<kernel_stack, current_process, allocated, hung>>
  BY DEF Wakeup
<1>2. Safe /\ Safe'
  BY WakeupKeepsSafe DEF Orderly
<1>3. next \in [Slots -> Slots \cup {NIL}] /\ state \in [Slots -> States]
  BY <1>2 DEF Safe, TypeOK
<1>4. p \notin Passed(q) /\ p # current_process
  BY <1>1, SlotsNotNil DEF Orderly, CurrentRuns, IsQueue, Ready
<1>5. Ready' = Ready \cup {p}
  BY <1>1, <1>3 DEF Ready, Orderly, Stacked
<1>6. /\ Listing(next', p, <<p>> \o q)
      /\ Passed(<<p>> \o q) = Passed(q) \cup {p}
  <2>1. next'[p] = ready_queue /\ \A t \in Slots \ {p} : next'[t] = next[t]
    BY <1>1, <1>3
  <2>2. QED
    BY <1>4, <2>1, ListPush DEF IsQueue
<1>7. IsQueue(<<p>> \o q)'
  BY <1>1, <1>5, <1>6 DEF IsQueue
<1>8. CurrentRuns' /\ Stacked'
  BY <1>1, <1>3, <1>4 DEF Orderly, CurrentRuns, Stacked
<1>9. StacksExclusive'
  <2>1. \A t \in Slots : Free(t)' = Free(t)
    BY <1>1, <1>3 DEF Free
  <2>2. QED
    BY <1>1, <2>1 DEF Orderly, StacksExclusive
<1>10. QED
  BY <1>1, <1>2, <1>4, <1>7, <1>8, <1>9 DEF Orderly, QueueStep

\* process_destroy of a process that neither runs nor waits.
LEMMA ReapOrderly ==
  ASSUME Orderly, NEW q, IsQueue(q), NEW p \in Slots, Reap(p)
  PROVE  Orderly' /\ IsQueue(q)' /\ QueueStep(q, q)
<1>1. /\ state' = [state EXCEPT ![p] = "DEAD"]
      /\ allocated' = allocated \ {kernel_stack[p]}
      /\ UNCHANGED <<pid, next, kernel_stack,
                     current_process, ready_queue, next_pid, hung>>
  BY DEF Reap, Destroy
<1>2. Safe /\ Safe' /\ state \in [Slots -> States]
  BY DestroyKeepsSafe DEF Orderly, Reap, Safe, TypeOK
<1>3. p \notin Passed(q) /\ p # current_process /\ ~Free(p)
  <2>1. Queued = Passed(q)
    BY ReachOfList DEF IsQueue, Queued
  <2>2. QED
    BY <2>1 DEF Reap, Destroy, Free
<1>4. Ready' = Ready
  BY <1>1, <1>2, <1>3 DEF Ready, IsQueue
<1>5. CurrentRuns' /\ Stacked'
  BY <1>1, <1>2, <1>3 DEF Orderly, CurrentRuns, Stacked
<1>6. StacksExclusive'
  <2>1. \A t \in Slots : ~Free(t)' => ~Free(t) /\ t # p
    BY <1>1, <1>2 DEF Free
  <2>2. \A t \in Slots \ {p} : ~Free(t) /\ kernel_stack[t] # NIL => kernel_stack[p] # kernel_stack[t]
    BY <1>3 DEF Orderly, StacksExclusive
  <2>3. QED
    BY <1>1, <2>1, <2>2 DEF Orderly, StacksExclusive
<1>7. QED
  BY <1>1, <1>2, <1>4, <1>5, <1>6 DEF Orderly, IsQueue, QueueStep

\* process_yield, process_exit and process_sleep: the first of the queue
\* takes over from the current process, which is left in the state st says.
LEMMA HandOver ==
  ASSUME Orderly, NEW q, IsQueue(q), Safe',
         NEW st \in [Slots -> States],
         \/ st = state
         \/ /\ ready_queue # NIL /\ current_process # NIL
            /\ \E x \in {"ZOMBIE", "SLEEPING"} : st = [state EXCEPT ![current_process] = x],
         YieldFrom(st)
  PROVE  Orderly' /\ \E r : IsQueue(r)' /\ QueueStep(q, r)
<1>1. current_process \notin Passed(q)
  BY CurrentNotQueued
<1>2. Safe /\ TypeOK /\ Listing(next, ready_queue, q) /\ Passed(q) = Ready
  BY DEF Orderly, Safe, IsQueue
<1>3. state \in [Slots -> States] /\ kernel_stack \in [Slots -> Stacks \cup {NIL}]
  BY <1>2 DEF TypeOK
<1>4. /\ \/ /\ ready_queue = NIL /\ state' = st
            /\ UNCHANGED <<next, current_process, ready_queue>>
         \/ /\ ~(current_process # NIL /\ st[current_process] = "RUNNING")
            /\ Handed(q, Tail(q))
            /\ Passed(Tail(q)) = Passed(q) \ {ready_queue}
            /\ state' = [st EXCEPT ![ready_queue] = "RUNNING"]
         \/ /\ current_process \in Slots /\ st[current_process] = "RUNNING"
            /\ Handed(q, Tail(q) \o <<current_process>>)
            /\ Passed(Tail(q) \o <<current_process>>)
                 = (Passed(q) \ {ready_queue}) \cup {current_process}
            /\ state' = [st EXCEPT ![current_process] = "READY",
                                   ![ready_queue] = "RUNNING"]
      /\ UNCHANGED <<pid, kernel_stack, next_pid, allocated, hung>>
  BY <1>1, <1>2, YieldList
<1>5. ready_queue # NIL => ready_queue \in Ready
  BY <1>2, ListHead
<1>6. current_process # NIL => /\ current_process \in Slots
                               /\ state[current_process] = "RUNNING"
                               /\ kernel_stack[current_process] # NIL
  BY <1>2 DEF Orderly, CurrentRuns, Stacked, TypeOK
<1>7. CASE ready_queue = NIL
  <2>1. st = state
    BY <1>7
  <2>2. UNCHANGED <<state, next, current_process, ready_queue>>
    BY <1>4, <1>7, <2>1, SlotsNotNil DEF Handed
  <2>3. Orderly' /\ IsQueue(q)' /\ QueueStep(q, q)
    <3>1. Ready' = Ready
      BY <1>4, <2>2 DEF Ready
    <3>2. CurrentRuns' /\ Stacked' /\ StacksExclusive'
      BY <1>4, <2>2 DEF Orderly, CurrentRuns, Stacked, StacksExclusive, Free
    <3>3. QED
      BY <1>2, <1>4, <2>2, <3>1, <3>2 DEF Orderly, IsQueue, QueueStep
  <2>4. QED
    BY <2>3
<1>8. CASE ready_queue # NIL
  <2>1. PICK r :
          /\ Handed(q, r)
          /\ \/ /\ ~(current_process # NIL /\ st[current_process] = "RUNNING")
                /\ r = Tail(q) /\ Passed(r) = Passed(q) \ {ready_queue}
                /\ state' = [st EXCEPT ![ready_queue] = "RUNNING"]
             \/ /\ current_process \in Slots /\ st[current_process] = "RUNNING"
                /\ r = Tail(q) \o <<current_process>>
                /\ Passed(r) = (Passed(q) \ {ready_queue}) \cup {current_process}
                /\ state' = [st EXCEPT ![current_process] = "READY",
                                       ![ready_queue] = "RUNNING"]
    BY <1>4, <1>8
  <2>2. /\ q # <<>> /\ current_process' = ready_queue /\ ready_queue = Head(q)
        /\ Listing(next', ready_queue', r)
    BY <2>1 DEF Handed
  <2>3. /\ ready_queue \in Slots /\ state[ready_queue] = "READY"
        /\ kernel_stack[ready_queue] # NIL
    BY <1>5, <1>8 DEF Ready
  <2>4. \A s \in Slots \ {current_process, ready_queue} : state'[s] = state[s]
    BY <1>3, <2>1, <2>3
  <2>5. state'[ready_queue] = "RUNNING" /\ ready_queue # current_process
    BY <1>3, <1>6, <2>1, <2>3, SlotsNotNil
  <2>6. current_process # NIL =>
          \/ /\ st = state /\ state'[current_process] = "READY"
             /\ r = Tail(q) \o <<current_process>>
             /\ Passed(r) = (Passed(q) \ {ready_queue}) \cup {current_process}
          \/ /\ state'[current_process] \in {"ZOMBIE", "SLEEPING"}
             /\ r = Tail(q) /\ Passed(r) = Passed(q) \ {ready_queue}
    BY <1>3, <1>6, <2>1, <2>3, <2>5
  <2>7. current_process = NIL => r = Tail(q) /\ Passed(r) = Passed(q) \ {ready_queue}
    BY <2>1, SlotsNotNil
  <2>8. Passed(r) = Ready'
    <3>1. \A s \in Slots : s \in Ready' <=>
            \/ s \in Ready \ {ready_queue}
            \/ s = current_process /\ state'[current_process] = "READY"
      BY <1>4, <1>6, <2>3, <2>4, <2>5, SlotsNotNil DEF Ready
    <3>2. CASE current_process = NIL
      BY <1>2, <2>7, <3>1, <3>2, SlotsNotNil DEF Ready
    <3>3. CASE current_process # NIL /\ state'[current_process] = "READY"
      BY <1>2, <1>6, <2>6, <3>1, <3>3 DEF Ready
    <3>4. CASE current_process # NIL /\ state'[current_process] # "READY"
      BY <1>2, <1>6, <2>6, <3>1, <3>4 DEF Ready
    <3>5. QED
      BY <3>2, <3>3, <3>4
  <2>9. IsQueue(r)'
    BY <2>2, <2>8 DEF IsQueue
  <2>10. CurrentRuns' /\ Stacked'
    BY <1>4, <1>6, <2>2, <2>3, <2>4, <2>5, <2>6 DEF Orderly, CurrentRuns, Stacked
  <2>11. StacksExclusive'
    <3>1. \A s \in Slots : Free(s)' <=> Free(s)
      <4> TAKE s \in Slots
      <4>1. CASE s = ready_queue
        BY <2>3, <2>5, <4>1 DEF Free
      <4>2. CASE s = current_process /\ s # ready_queue
        BY <1>6, <2>6, <4>2, SlotsNotNil DEF Free
      <4>3. CASE s # current_process /\ s # ready_queue
        BY <2>4, <4>3 DEF Free
      <4>4. QED
        BY <4>1, <4>2, <4>3
    <3>2. QED
      BY <1>4, <3>1 DEF Orderly, StacksExclusive
  <2>12. QueueStep(q, r)
    <3>1. CASE current_process = NIL
      <4>1. Tail(q) \in Seq(Slots)
        BY <1>2, <2>2, HeadTailProperties DEF Listing
      <4>2. Tail(q) = Tail(q) \o <<>>
        BY <4>1, ConcatEmptySeq
      <4>3. QED
        BY <2>2, <2>7, <3>1, <4>2 DEF QueueStep
    <3>2. CASE current_process # NIL
      BY <2>2, <2>6, <3>2 DEF QueueStep
    <3>3. QED
      BY <3>1, <3>2
  <2>13. QED
    BY <1>4, <2>9, <2>10, <2>11, <2>12 DEF Orderly
<1>9. QED
  BY <1>7, <1>8

\* Every step of orderly callers.
LEMMA OrderlyStep ==
  ASSUME Orderly, NEW q, IsQueue(q), [OrderlyNext]_vars
  PROVE  Orderly' /\ \E r : IsQueue(r)' /\ QueueStep(q, r)
<1>1. Safe /\ state \in [Slots -> States]
  BY DEF Orderly, Safe, TypeOK
<1>2. CASE Create
  BY <1>2, CreateOrderly
<1>3. ASSUME NEW p \in Slots, Reap(p)
      PROVE  Orderly' /\ \E r : IsQueue(r)' /\ QueueStep(q, r)
  BY <1>3, ReapOrderly
<1>4. ASSUME NEW p \in Slots, Wakeup(p)
      PROVE  Orderly' /\ \E r : IsQueue(r)' /\ QueueStep(q, r)
  BY <1>4, WakeupOrderly
<1>5. CASE Yield
  <2>1. Safe' /\ YieldFrom(state)
    BY <1>1, <1>5, YieldKeeps DEF Yield
  <2>2. QED
    BY <1>1, <2>1, HandOver
<1>6. ASSUME NEW x \in {"ZOMBIE", "SLEEPING"}, Stop(x), ready_queue # NIL
      PROVE  Orderly' /\ \E r : IsQueue(r)' /\ QueueStep(q, r)
  <2> DEFINE st == [state EXCEPT ![current_process] = x]
  <2>1. Safe' /\ current_process # NIL /\ YieldFrom(st)
    BY <1>1, <1>6, StopStep DEF Stop
  <2>2. st \in [Slots -> States]
    BY <1>1 DEF States
  <2>3. \E y \in {"ZOMBIE", "SLEEPING"} : st = [state EXCEPT ![current_process] = y]
    OBVIOUS
  <2> HIDE DEF st
  <2>4. QED
    BY <1>6, <2>1, <2>2, <2>3, HandOver
<1>7. CASE UNCHANGED vars
  <2>1. Orderly'
    BY <1>7 DEF vars, table, Orderly, Safe, TypeOK, OnlyCurrentRuns, CurrentRuns,
                StacksExclusive, Stacked, Free
  <2>2. IsQueue(q)' /\ QueueStep(q, q)
    BY <1>7 DEF vars, table, IsQueue, Ready, QueueStep
  <2>3. QED
    BY <2>1, <2>2
<1>8. QED
  BY <1>2, <1>3, <1>4, <1>5, <1>6, <1>7 DEF OrderlyNext, GiveUp, Exit, Sleep

LEMMA OrderlyInit == Init => Orderly /\ IsQueue(<<>>)
<1> SUFFICES ASSUME Init PROVE Orderly /\ IsQueue(<<>>)
  OBVIOUS
<1>1. Safe
  BY SafeInit
<1>2. ~hung /\ CurrentRuns /\ StacksExclusive /\ Stacked
  BY DEF Init, CurrentRuns, StacksExclusive, Stacked, Free
<1>3. Ready = {} /\ ready_queue = NIL
  BY DEF Init, Ready
<1>4. <<>> \in Seq(Slots) /\ Len(<<>>) = 0
  OBVIOUS
<1>5. Listing(next, ready_queue, <<>>)
  BY <1>3, <1>4 DEF Listing, Lists, Leads, Different
<1>6. Passed(<<>>) = {}
  BY <1>4 DEF Passed
<1>7. QED
  BY <1>1, <1>2, <1>3, <1>5, <1>6 DEF Orderly, IsQueue

Inv == Orderly /\ \E q : IsQueue(q)

LEMMA OrderlyAlways == OrderlySpec => []Inv
<1>1. Init => Inv
  BY OrderlyInit DEF Inv
<1>2. Inv /\ [OrderlyNext]_vars => Inv'
  <2> SUFFICES ASSUME Inv, [OrderlyNext]_vars PROVE Inv'
    OBVIOUS
  <2>1. Orderly
    BY DEF Inv
  <2>2. PICK q : IsQueue(q)
    BY DEF Inv
  <2>3. Orderly' /\ \E r : IsQueue(r)'
    BY <2>1, <2>2, OrderlyStep
  <2>4. QED
    BY <2>3 DEF Inv
<1>3. QED
  BY <1>1, <1>2, PTL DEF OrderlySpec

\* With orderly callers the queue ends, passes each process once, and on it
\* are exactly the processes that can run; no loop over it runs for ever.
THEOREM QueueIsExact == OrderlySpec => []QueueExact
<1>1. Inv => QueueExact
  <2> SUFFICES ASSUME Inv PROVE QueueExact
    OBVIOUS
  <2>1. ~hung /\ \E q : IsQueue(q)
    BY DEF Inv, Orderly
  <2>2. PICK q : IsQueue(q)
    BY <2>1
  <2>3. Queued = Passed(q) /\ Passed(q) = Ready
    BY <2>2, ReachOfList DEF IsQueue, Queued
  <2>4. ready_queue = NIL \/ \E s \in Passed(q) : next[s] = NIL
    BY <2>2, ListEnds DEF IsQueue
  <2>5. Ends(ready_queue)
    BY <2>3, <2>4 DEF Ends, Queued
  <2>6. QED
    BY <2>1, <2>3, <2>5 DEF QueueExact, Ready
<1>2. QED
  BY <1>1, OrderlyAlways, PTL

\* With orderly callers there is always a running process once the first was
\* dispatched.
THEOREM SomebodyRuns == OrderlySpec => []CurrentRuns
<1>1. Inv => CurrentRuns
  BY DEF Inv, Orderly
<1>2. QED
  BY <1>1, OrderlyAlways, PTL

\* With orderly callers no kernel stack is shared, or used after it was freed.
THEOREM StacksAreExclusive == OrderlySpec => []StacksExclusive
<1>1. Inv => StacksExclusive
  BY DEF Inv, Orderly
<1>2. QED
  BY <1>1, OrderlyAlways, PTL

\* With orderly callers the pointers of the table implement the abstract run
\* queue: one runs, the others wait in their order.
THEOREM RunQueueImplemented == OrderlySpec => RunQueueSpec
<1>1. Init => Abstract!Init
  <2> SUFFICES ASSUME Init PROVE Abstract!Init
    OBVIOUS
  <2>1. Listing(next, ready_queue, <<>>)
    BY OrderlyInit DEF IsQueue
  <2>2. Chain = <<>>
    BY <2>1, ListFound DEF Chain
  <2>3. QED
    BY <2>2 DEF Abstract!Init, Init
<1>2. Inv /\ [OrderlyNext]_vars => [Abstract!Next]_(Abstract!vars)
  <2> SUFFICES ASSUME Inv, [OrderlyNext]_vars PROVE [Abstract!Next]_(Abstract!vars)
    OBVIOUS
  <2>1. Orderly
    BY DEF Inv
  <2>2. PICK q : IsQueue(q)
    BY DEF Inv
  <2>3. PICK r : IsQueue(r)' /\ QueueStep(q, r)
    BY <2>1, <2>2, OrderlyStep
  <2>4. Chain = q
    BY <2>2, ListFound DEF Chain, IsQueue
  <2>5. Chain' = r
    BY <2>3, ListFound DEF Chain, IsQueue
  <2>6. Abstract!Waiting = Passed(q)
    <3>1. DOMAIN q = 1 .. Len(q)
      BY <2>2, LenProperties DEF IsQueue, Listing
    <3>2. QED
      BY <2>4, <3>1 DEF Abstract!Waiting, Passed
  <2>7. QED
    BY <2>3, <2>4, <2>5, <2>6
    DEF QueueStep, Abstract!Next, Abstract!vars, Abstract!Enter, Abstract!Switch,
        Abstract!Leave
<1>3. QED
  BY <1>1, <1>2, OrderlyAlways, PTL DEF OrderlySpec, RunQueueSpec, Abstract!Spec

-----------------------------------------------------------------------------
(* The order in which processes are dispatched.                            *)

InOrder(q, s, t) == \E i, j \in 1 .. Len(q) : i < j /\ q[i] = s /\ q[j] = t

\* t is further down q than its i-th entry.
Behind(q, i, t) == \E j \in 1 .. Len(q) : i < j /\ q[j] = t

\* What a loop that starts behind an entry of a list passes.
LEMMA ReachBehind ==
  ASSUME NEW nx, NEW head, NEW q, Listing(nx, head, q), NEW i \in 1 .. Len(q)
  PROVE  \A t : t \in Reach(nx, nx[q[i]]) <=> Behind(q, i, t)
<1> DEFINE n == Len(q)
           u == [k \in 1 .. n - i |-> q[i + k]]
<1>1. /\ q \in Seq(Slots) /\ n \in Nat /\ DOMAIN q = 1 .. n
      /\ \A k \in 1 .. n : nx[q[k]] = (IF k = n THEN NIL ELSE q[k + 1])
      /\ \A k, l \in 1 .. n : q[k] = q[l] => k = l
  BY LenProperties DEF Listing, Lists, Leads, Different
<1>3. i \in 1 .. n
  OBVIOUS
<1> HIDE DEF n
<1>2. u \in Seq(Slots) /\ Len(u) = n - i /\ \A k \in 1 .. n - i : u[k] = q[i + k]
  <2>1. n - i \in Nat /\ \A k \in 1 .. n - i : i + k \in 1 .. n /\ q[i + k] \in Slots
    BY <1>1, <1>3
  <2>2. QED
    BY <2>1
<1> HIDE DEF u
<1>4. Leads(nx, nx[q[i]], u, n - i)
  <2>1. n - i \in Nat /\ \A k \in 1 .. n - i : i + k \in 1 .. n
    BY <1>1, <1>3
  <2>2. \A k \in 1 .. n - i : u[k] \in Slots
    BY <1>2
  <2>3. nx[q[i]] = IF n - i = 0 THEN NIL ELSE u[1]
    <3>1. CASE i = n
      BY <1>1, <1>3, <3>1
    <3>2. CASE i # n
      <4>1. 1 \in 1 .. n - i /\ n - i # 0
        BY <1>1, <1>3, <3>2
      <4>2. nx[q[i]] = q[i + 1] /\ u[1] = q[i + 1]
        BY <1>1, <1>2, <1>3, <3>2, <4>1
      <4>3. QED
        BY <4>1, <4>2
    <3>3. QED
      BY <3>1, <3>2
  <2>4. ASSUME NEW k \in 1 .. n - i
        PROVE  nx[u[k]] = IF k = n - i THEN NIL ELSE u[k + 1]
    <3>1. u[k] = q[i + k] /\ i + k \in 1 .. n
      BY <1>2, <2>1
    <3>2. nx[q[i + k]] = IF i + k = n THEN NIL ELSE q[i + k + 1]
      BY <1>1, <3>1
    <3>3. i + k = n <=> k = n - i
      BY <1>1, <1>3
    <3>4. CASE k = n - i
      BY <3>1, <3>2, <3>3, <3>4
    <3>5. CASE k # n - i
      <4>1. k + 1 \in 1 .. n - i /\ i + (k + 1) = i + k + 1
        BY <1>1, <1>3, <3>5
      <4>2. u[k + 1] = q[i + k + 1]
        BY <1>2, <4>1
      <4>3. QED
        BY <3>1, <3>2, <3>3, <3>5, <4>2
    <3>6. QED
      BY <3>4, <3>5
  <2>5. QED
    BY <2>1, <2>2, <2>3, <2>4 DEF Leads
<1>5. Different(u, n - i)
  <2> SUFFICES ASSUME NEW k \in 1 .. n - i, NEW l \in 1 .. n - i, u[k] = u[l]
               PROVE  k = l
    BY DEF Different
  <2>1. q[i + k] = q[i + l] /\ i + k \in 1 .. n /\ i + l \in 1 .. n
    BY <1>1, <1>2, <1>3
  <2>2. i + k = i + l
    BY <1>1, <2>1
  <2>3. QED
    BY <1>3, <2>2
<1>6. Reach(nx, nx[q[i]]) = Passed(u)
  BY <1>2, <1>4, <1>5, ReachOfList DEF Listing, Lists
<1>7. ASSUME NEW t
      PROVE  t \in Passed(u) <=> \E j \in 1 .. n : i < j /\ q[j] = t
  <2>1. t \in Passed(u) <=> \E k \in 1 .. n - i : u[k] = t
    BY <1>2 DEF Passed
  <2>2. \A k \in 1 .. n - i : i + k \in 1 .. n /\ i < i + k
    BY <1>1, <1>3
  <2>3. \A j \in 1 .. n : i < j => j - i \in 1 .. n - i /\ i + (j - i) = j
    BY <1>1, <1>3
  <2>4. ASSUME NEW k \in 1 .. n - i, u[k] = t
        PROVE  \E j \in 1 .. n : i < j /\ q[j] = t
    BY <1>2, <2>2, <2>4, Zenon
  <2>5. ASSUME NEW j \in 1 .. n, i < j, q[j] = t
        PROVE  \E k \in 1 .. n - i : u[k] = t
    <3>1. u[j - i] = q[i + (j - i)]
      BY <1>2, <2>3, <2>5, Zenon
    <3>2. QED
      BY <2>3, <2>5, <3>1, Zenon
  <2>6. QED
    BY <2>1, <2>4, <2>5, Zenon
<1>8. QED
  BY <1>6, <1>7 DEF n, Behind

LEMMA OrderOfList ==
  ASSUME NEW nx, NEW head, NEW q, Listing(nx, head, q), NEW s, NEW t
  PROVE  s \in Passed(q) /\ t \in Reach(nx, nx[s]) <=> InOrder(q, s, t)
<1>1. ASSUME NEW i \in 1 .. Len(q), q[i] = s
      PROVE  t \in Reach(nx, nx[s]) <=> Behind(q, i, t)
  <2>1. \A x : x \in Reach(nx, nx[q[i]]) <=> Behind(q, i, x)
    BY ReachBehind
  <2>2. QED
    BY <1>1, <2>1
<1>2. ASSUME s \in Passed(q), t \in Reach(nx, nx[s]) PROVE InOrder(q, s, t)
  <2>1. PICK i \in 1 .. Len(q) : q[i] = s
    BY <1>2 DEF Passed
  <2>2. PICK j \in 1 .. Len(q) : i < j /\ q[j] = t
    BY <1>1, <1>2, <2>1, Zenon DEF Behind
  <2>3. QED
    BY <2>1, <2>2, Zenon DEF InOrder
<1>3. ASSUME InOrder(q, s, t) PROVE s \in Passed(q) /\ t \in Reach(nx, nx[s])
  <2>1. PICK i \in 1 .. Len(q), j \in 1 .. Len(q) : i < j /\ q[i] = s /\ q[j] = t
    BY <1>3 DEF InOrder
  <2>2. t \in Reach(nx, nx[s])
    BY <1>1, <2>1, Zenon DEF Behind
  <2>3. QED
    BY <2>1, <2>2, Zenon DEF Passed
<1>4. QED
  BY <1>2, <1>3

\* What a step does to the queue leaves the order of those on it.
LEMMA OrderKept ==
  ASSUME NEW q \in Seq(Slots), NEW r \in Seq(Slots), QueueStep(q, r),
         current_process \notin Passed(q), current_process \in Slots \cup {NIL},
         NEW s \in Passed(q), NEW t \in Slots,
         t = current_process \/ InOrder(q, s, t),
         t \in Passed(r), s # current_process'
  PROVE  s \in Passed(r) /\ InOrder(r, s, t)
<1> DEFINE n == Len(q)
<1>1. n \in Nat /\ Len(r) \in Nat
  BY LenProperties
<1>2. InOrder(q, s, t) => t \in Passed(q)
  BY DEF InOrder, Passed
<1>3. \A a, b : InOrder(r, a, b) => a \in Passed(r)
  BY DEF InOrder, Passed
<1>4. CASE r = q /\ UNCHANGED current_process
  BY <1>4
<1>5. CASE \E p \in Slots : p \notin Passed(q) \cup {current_process} /\ r = <<p>> \o q
  <2>1. PICK p \in Slots : p \notin Passed(q) \cup {current_process} /\ r = <<p>> \o q
    BY <1>5
  <2>2. /\ Len(r) = 1 + n /\ r[1] = p
        /\ \A i \in 1 .. n : i + 1 \in 1 .. 1 + n /\ r[i + 1] = q[i]
    BY <1>1, <2>1
  <2>3. Passed(r) \subseteq Passed(q) \cup {p}
    <3>1. \A k \in 1 .. Len(r) : k = 1 \/ (k - 1 \in 1 .. n /\ (k - 1) + 1 = k)
      BY <1>1, <2>2
    <3>2. \A k \in 1 .. Len(r) : r[k] = p \/ \E i \in 1 .. n : r[k] = q[i]
      BY <2>2, <3>1
    <3>3. \A x : x \in Passed(r) => \E k \in 1 .. Len(r) : r[k] = x
      BY Zenon DEF Passed
    <3>4. \A i \in 1 .. n : q[i] \in Passed(q)
      BY Zenon DEF Passed
    <3>5. QED
      BY <3>2, <3>3, <3>4, Zenon
  <2>4. t \in Passed(q) /\ InOrder(q, s, t)
    BY <1>2, <2>1, <2>3
  <2>5. PICK i \in 1 .. n, j \in 1 .. n : i < j /\ q[i] = s /\ q[j] = t
    BY <2>4 DEF InOrder
  <2>6. InOrder(r, s, t)
    BY <1>1, <2>2, <2>5 DEF InOrder
  <2>7. QED
    BY <1>3, <2>6
<1>6. ASSUME q # <<>>, current_process' = Head(q)
      PROVE  /\ Tail(q) \in Seq(Slots) /\ n \in Nat \ {0} /\ Len(Tail(q)) = n - 1
             /\ \A i \in 1 .. n - 1 : i + 1 \in 1 .. n /\ Tail(q)[i] = q[i + 1]
             /\ InOrder(q, s, t) => InOrder(Tail(q), s, t)
             /\ \E i \in 1 .. n - 1 : Tail(q)[i] = s
             /\ Passed(Tail(q)) \subseteq Passed(q)
  <2>1. /\ Tail(q) \in Seq(Slots) /\ n \in Nat \ {0} /\ Len(Tail(q)) = n - 1
        /\ \A i \in 1 .. n - 1 : i + 1 \in 1 .. n /\ Tail(q)[i] = q[i + 1]
        /\ Head(q) = q[1]
    BY <1>1, <1>6, EmptySeq
  <2>2. \A i \in 2 .. n : i - 1 \in 1 .. n - 1 /\ (i - 1) + 1 = i
    BY <1>1
  <2>3. \A i \in 1 .. n : q[i] = s => i \in 2 .. n
    BY <1>1, <1>6, <2>1
  <2>4. \A i \in 2 .. n : Tail(q)[i - 1] = q[i]
    BY <2>1, <2>2
  <2>5. \E i \in 1 .. n - 1 : Tail(q)[i] = s
    <3>1. PICK i \in 1 .. n : q[i] = s
      BY DEF Passed
    <3>2. QED
      BY <2>2, <2>3, <2>4, <3>1
  <2>6. ASSUME InOrder(q, s, t) PROVE InOrder(Tail(q), s, t)
    <3>1. PICK i \in 1 .. n, j \in 1 .. n : i < j /\ q[i] = s /\ q[j] = t
      BY <2>6 DEF InOrder
    <3>2. i \in 2 .. n /\ j \in 2 .. n /\ i - 1 < j - 1
      BY <1>1, <2>3, <3>1
    <3>3. Tail(q)[i - 1] = s /\ Tail(q)[j - 1] = t
      BY <2>4, <3>1, <3>2
    <3>4. i - 1 \in 1 .. Len(Tail(q)) /\ j - 1 \in 1 .. Len(Tail(q))
      BY <2>1, <2>2, <3>2
    <3>5. QED
      BY <3>2, <3>3, <3>4, Zenon DEF InOrder
  <2>7. Passed(Tail(q)) \subseteq Passed(q)
    BY <2>1 DEF Passed
  <2>8. QED
    BY <2>1, <2>5, <2>6, <2>7
<1>7. CASE q # <<>> /\ current_process' = Head(q) /\ r = Tail(q)
  BY <1>2, <1>3, <1>6, <1>7
<1>8. CASE /\ q # <<>> /\ current_process' = Head(q) /\ current_process # NIL
           /\ r = Tail(q) \o <<current_process>>
  <2>1. current_process \in Slots
    BY <1>8
  <2>2. /\ Len(r) = n /\ n - 1 \in Nat /\ r[n] = current_process
        /\ \A i \in 1 .. n - 1 : r[i] = Tail(q)[i]
    <3> DEFINE u == Tail(q)
    <3>1. u \in Seq(Slots) /\ n \in Nat \ {0} /\ Len(u) = n - 1
      BY <1>6, <1>8
    <3>2. r = u \o <<current_process>>
      BY <1>8
    <3> HIDE DEF u, n
    <3>3. QED
      BY <2>1, <3>1, <3>2 DEF u
  <2>3. CASE t = current_process
    <3>1. PICK i \in 1 .. n - 1 : Tail(q)[i] = s
      BY <1>6, <1>8
    <3>2. i \in 1 .. Len(r) /\ n \in 1 .. Len(r) /\ i < n
      BY <1>1, <2>2
    <3>3. InOrder(r, s, t)
      BY <2>2, <2>3, <3>1, <3>2, Zenon DEF InOrder
    <3>4. QED
      BY <1>3, <3>3
  <2>4. CASE InOrder(q, s, t)
    <3>1. PICK i \in 1 .. n - 1, j \in 1 .. n - 1 :
            i < j /\ Tail(q)[i] = s /\ Tail(q)[j] = t
      BY <1>6, <1>8, <2>4 DEF InOrder
    <3>2. i \in 1 .. Len(r) /\ j \in 1 .. Len(r)
      BY <1>1, <2>2
    <3>3. InOrder(r, s, t)
      BY <2>2, <3>1, <3>2, Zenon DEF InOrder
    <3>4. QED
      BY <1>3, <3>3
  <2>5. QED
    BY <2>3, <2>4
<1>9. CASE /\ q # <<>> /\ current_process' = Head(q) /\ current_process = NIL
           /\ r = Tail(q) \o <<>>
  <2>1. Tail(q) \o <<>> = Tail(q)
    BY <1>6, <1>9, ConcatEmptySeq
  <2>2. QED
    BY <1>7, <1>9, <2>1
<1>10. QED
  BY <1>4, <1>5, <1>7, <1>8, <1>9 DEF QueueStep

\* With orderly callers processes are dispatched in the order in which they
\* came to wait: process_yield sends the current one behind all others, and
\* only process_create and process_wakeup let somebody in further in front.
THEOREM NobodyPasses == OrderlySpec => FirstComeFirstServed
<1>1. Inv /\ [OrderlyNext]_vars =>
        [\A s, t \in Slots :
           InFrontOf(s, t) /\ Waits(t)' => Runs(s)' \/ InFrontOf(s, t)']_vars
  <2> SUFFICES ASSUME Inv, [OrderlyNext]_vars,
                      NEW s \in Slots, NEW t \in Slots,
                      InFrontOf(s, t), Waits(t)', ~Runs(s)'
               PROVE  InFrontOf(s, t)'
    OBVIOUS
  <2>1. Orderly
    BY DEF Inv
  <2>2. PICK q : IsQueue(q)
    BY DEF Inv
  <2>3. PICK r : IsQueue(r)' /\ QueueStep(q, r)
    BY <2>1, <2>2, OrderlyStep
  <2>4. s \in Passed(q) /\ (t = current_process \/ InOrder(q, s, t))
    <3>1. s \in Passed(q)
      BY <2>2, ReachOfList DEF IsQueue, Queued, InFrontOf, Waits
    <3>2. t \in Reach(next, next[s]) => InOrder(q, s, t)
      BY <2>2, <3>1, OrderOfList DEF IsQueue
    <3>3. QED
      BY <3>1, <3>2 DEF InFrontOf, Runs
  <2>5. t \in Passed(r)
    <3>1. Queued' = Passed(r)
      BY <2>3, ReachOfList DEF IsQueue, Queued
    <3>2. QED
      BY <3>1 DEF Waits
  <2>6. current_process \notin Passed(q) /\ current_process \in Slots \cup {NIL}
    BY <2>1, <2>2, CurrentNotQueued DEF Orderly, Safe, TypeOK
  <2>7. q \in Seq(Slots) /\ r \in Seq(Slots)
    BY <2>2, <2>3 DEF IsQueue, Listing
  <2>8. s \in Passed(r) /\ InOrder(r, s, t)
    BY <2>3, <2>4, <2>5, <2>6, <2>7, OrderKept DEF Runs
  <2>9. s \in Queued' /\ t \in Reach(next', next'[s])
    <3>1. Queued' = Passed(r)
      BY <2>3, ReachOfList DEF IsQueue, Queued
    <3>2. t \in Reach(next', next'[s])
      BY <2>3, <2>8, OrderOfList DEF IsQueue
    <3>3. QED
      BY <2>8, <3>1, <3>2
  <2>10. QED
    BY <2>9 DEF InFrontOf, Waits
<1>2. QED
  BY <1>1, OrderlyAlways, PTL DEF OrderlySpec, FirstComeFirstServed
=============================================================================
