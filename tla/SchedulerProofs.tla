--------------------------- MODULE SchedulerProofs ---------------------------
(***************************************************************************)
(* Proofs about scheduler.c and process.c on the same table, for every     *)
(* size of the table, set of stacks and number of processes.               *)
(*                                                                         *)
(* Where the scheduler is used too, the queue of process.c is not exact    *)
(* any more: a process that scheduler_add made READY need not be on it.    *)
(* What is left, and what the two lists need to stay apart, is what the    *)
(* states of the processes on them may be: Apart.                          *)
(***************************************************************************)
EXTENDS Scheduler, ProcessProofs

-----------------------------------------------------------------------------
(* More about lists.                                                       *)

\* One entry of a list leads nowhere.
LEMMA LastUnique ==
  ASSUME NEW nx, NEW head, NEW q, Listing(nx, head, q),
         NEW s \in Passed(q), NEW t \in Passed(q), nx[s] = NIL, nx[t] = NIL
  PROVE  s = t
<1> DEFINE n == Len(q)
<1>1. Lists(nx, head, q, n) /\ Passed(q) = {q[i] : i \in 1 .. n}
  BY DEF Listing, Passed
<1> HIDE DEF n
<1>2. n \in Nat
  BY <1>1 DEF Lists, Leads
<1>3. \A i \in 1 .. n : nx[q[i]] = NIL => i = n
  <2> TAKE i \in 1 .. n
  <2>1. i # n => i + 1 \in 1 .. n /\ nx[q[i]] = q[i + 1]
    BY <1>1, <1>2 DEF Lists, Leads
  <2>2. \A j \in 1 .. n : q[j] # NIL
    BY <1>1, SlotsNotNil DEF Lists, Leads
  <2>3. QED
    BY <2>1, <2>2
<1>4. QED
  BY <1>1, <1>3

\* The sequence without its i-th entry.
Without(q, i) == SubSeq(q, 1, i - 1) \o SubSeq(q, i + 1, Len(q))

LEMMA WithoutSeq ==
  ASSUME NEW q \in Seq(Slots), NEW i \in 1 .. Len(q)
  PROVE  /\ Without(q, i) \in Seq(Slots)
         /\ Len(Without(q, i)) = Len(q) - 1
         /\ \A j \in 1 .. Len(q) - 1 :
              Without(q, i)[j] = IF j < i THEN q[j] ELSE q[j + 1]
<1> DEFINE n == Len(q)
           a == SubSeq(q, 1, i - 1)
           b == SubSeq(q, i + 1, n)
<1>1. n \in Nat /\ \A j \in 1 .. n : q[j] \in Slots
  BY LenProperties, ElementOfSeq
<1> HIDE DEF n
<1>2. i \in 1 .. n
  BY DEF n
<1>3. ASSUME NEW m \in Nat \ {0}, NEW k \in Nat, k <= n
      PROVE  /\ SubSeq(q, m, k) \in Seq(Slots)
             /\ Len(SubSeq(q, m, k)) = IF m <= k THEN k - m + 1 ELSE 0
             /\ \A j \in 1 .. k - m + 1 : SubSeq(q, m, k)[j] = q[m + j - 1]
  <2>1. m \in Int /\ k \in Int /\ \A j \in m .. k : q[j] \in Slots
    BY <1>1, <1>3
  <2>2. QED
    BY <2>1, SubSeqProperties
<1>4. /\ a \in Seq(Slots) /\ Len(a) = i - 1
      /\ \A j \in 1 .. i - 1 : a[j] = q[j]
      /\ b \in Seq(Slots) /\ Len(b) = n - i
      /\ \A j \in 1 .. n - i : b[j] = q[i + j]
  <2>1. 1 \in Nat \ {0} /\ i + 1 \in Nat \ {0} /\ i - 1 \in Nat /\ i - 1 <= n /\ n <= n
    BY <1>1, <1>2
  <2>2. /\ a \in Seq(Slots) /\ Len(a) = IF 1 <= i - 1 THEN i - 1 - 1 + 1 ELSE 0
        /\ \A j \in 1 .. i - 1 - 1 + 1 : a[j] = q[1 + j - 1]
    BY <1>3, <2>1
  <2>3. /\ b \in Seq(Slots) /\ Len(b) = IF i + 1 <= n THEN n - (i + 1) + 1 ELSE 0
        /\ \A j \in 1 .. n - (i + 1) + 1 : b[j] = q[(i + 1) + j - 1]
    BY <1>1, <1>3, <2>1
  <2> HIDE DEF a, b
  <2>4. QED
    BY <1>1, <1>2, <2>2, <2>3
<1>5. Without(q, i) = a \o b
  BY DEF Without, n
<1> HIDE DEF a, b
<1>6. /\ a \o b \in Seq(Slots) /\ Len(a \o b) = Len(a) + Len(b)
      /\ \A j \in 1 .. Len(a) + Len(b) :
           (a \o b)[j] = IF j <= Len(a) THEN a[j] ELSE b[j - Len(a)]
  BY <1>4, ConcatProperties
<1>7. Len(a) + Len(b) = n - 1
  BY <1>1, <1>2, <1>4
<1>8. \A j \in 1 .. n - 1 : (a \o b)[j] = IF j < i THEN q[j] ELSE q[j + 1]
  <2> TAKE j \in 1 .. n - 1
  <2>1. (a \o b)[j] = IF j <= i - 1 THEN a[j] ELSE b[j - (i - 1)]
    BY <1>4, <1>6, <1>7
  <2>2. CASE j < i
    <3>1. j <= i - 1 /\ j \in 1 .. i - 1
      BY <1>2, <2>2
    <3>2. QED
      BY <1>4, <2>1, <2>2, <3>1
  <2>3. CASE ~(j < i)
    <3>1. ~(j <= i - 1) /\ j - (i - 1) \in 1 .. n - i /\ i + (j - (i - 1)) = j + 1
      BY <1>1, <1>2, <2>3
    <3>2. QED
      BY <1>4, <2>1, <2>3, <3>1
  <2>4. QED
    BY <2>2, <2>3
<1>9. QED
  BY <1>5, <1>6, <1>7, <1>8 DEF n

\* An entry is taken out of a list.
LEMMA ListDrop ==
  ASSUME NEW nx, NEW ny, NEW head, NEW q, Listing(nx, head, q),
         NEW i \in 1 .. Len(q), ny[q[i]] = NIL,
         i > 1 => ny[q[i - 1]] = nx[q[i]],
         \A t \in Slots : t = q[i] \/ (i > 1 /\ t = q[i - 1]) \/ ny[t] = nx[t]
  PROVE  /\ Listing(ny, IF i = 1 THEN nx[head] ELSE head, Without(q, i))
         /\ Passed(Without(q, i)) = Passed(q) \ {q[i]}
<1> DEFINE n == Len(q)
           r == Without(q, i)
           h == IF i = 1 THEN nx[head] ELSE head
<1>1. q \in Seq(Slots) /\ Lists(nx, head, q, n)
  BY DEF Listing
<1>2. /\ r \in Seq(Slots) /\ Len(r) = n - 1
      /\ \A j \in 1 .. n - 1 : r[j] = IF j < i THEN q[j] ELSE q[j + 1]
  BY <1>1, WithoutSeq
<1>3. Passed(q) = {q[j] : j \in 1 .. n} /\ Passed(r) = {r[j] : j \in 1 .. n - 1}
  BY <1>2 DEF Passed
<1>4. i \in 1 .. n
  OBVIOUS
<1> HIDE DEF n, r
<1>5. /\ n \in Nat /\ n >= 1 /\ head = q[1]
      /\ \A j \in 1 .. n : q[j] \in Slots
      /\ \A j, k \in 1 .. n : q[j] = q[k] => j = k
      /\ \A j \in 1 .. n : nx[q[j]] = IF j = n THEN NIL ELSE q[j + 1]
  BY <1>1, <1>4 DEF Lists, Leads, Different
<1> DEFINE at(j) == IF j < i THEN j ELSE j + 1
<1>6. \A j \in 1 .. n - 1 : at(j) \in 1 .. n /\ at(j) # i /\ r[j] = q[at(j)]
  BY <1>2, <1>4, <1>5
<1>7. \A j \in 1 .. n - 1 : r[j] \in Slots
  BY <1>5, <1>6
<1>8. \A j, k \in 1 .. n - 1 : r[j] = r[k] => j = k
  <2> TAKE j, k \in 1 .. n - 1
  <2> HAVE r[j] = r[k]
  <2>1. at(j) = at(k)
    BY <1>5, <1>6
  <2>2. QED
    BY <1>4, <1>5, <2>1
<1>9. h = (IF n - 1 = 0 THEN NIL ELSE r[1])
  <2>1. CASE i = 1
    BY <1>2, <1>5, <2>1
  <2>2. CASE i # 1
    BY <1>2, <1>4, <1>5, <2>2
  <2>3. QED
    BY <2>1, <2>2
<1>10. \A j \in 1 .. n - 1 : ny[r[j]] = (IF j = n - 1 THEN NIL ELSE r[j + 1])
  <2> TAKE j \in 1 .. n - 1
  <2>1. CASE j = i - 1
    <3>1. i > 1 /\ r[j] = q[i - 1] /\ ny[r[j]] = nx[q[i]]
      BY <1>2, <1>4, <1>5, <2>1
    <3>2. nx[q[i]] = IF i = n THEN NIL ELSE q[i + 1]
      BY <1>4, <1>5
    <3>3. i # n => j + 1 \in 1 .. n - 1 /\ r[j + 1] = q[i + 1]
      BY <1>2, <1>4, <1>5, <2>1
    <3>4. j = n - 1 <=> i = n
      BY <1>4, <1>5, <2>1
    <3>5. QED
      BY <3>1, <3>2, <3>3, <3>4
  <2>2. CASE j # i - 1
    <3>1. at(j) \in 1 .. n /\ at(j) # i /\ at(j) # i - 1 /\ r[j] = q[at(j)]
      BY <1>4, <1>5, <1>6, <2>2
    <3>2. q[at(j)] # q[i] /\ ~(i > 1 /\ q[at(j)] = q[i - 1])
      <4>1. i > 1 => i - 1 \in 1 .. n
        BY <1>4, <1>5
      <4> HIDE DEF at
      <4>2. QED
        BY <1>4, <1>5, <3>1, <4>1
    <3>3. ny[r[j]] = nx[q[at(j)]]
      <4> HIDE DEF at
      <4>1. QED
        BY <1>5, <3>1, <3>2
    <3>4. nx[q[at(j)]] = IF at(j) = n THEN NIL ELSE q[at(j) + 1]
      <4> HIDE DEF at
      <4>1. QED
        BY <1>5, <3>1
    <3>5. at(j) = n <=> j = n - 1
      BY <1>4, <1>5, <2>2
    <3>6. j # n - 1 => /\ j + 1 \in 1 .. n - 1 /\ at(j + 1) = at(j) + 1
                       /\ r[j + 1] = q[at(j + 1)]
      <4>1. j # n - 1 => j + 1 \in 1 .. n - 1 /\ at(j + 1) = at(j) + 1
        BY <1>4, <1>5, <2>2
      <4> HIDE DEF at
      <4>2. QED
        BY <1>6, <4>1
    <3> HIDE DEF at
    <3>7. QED
      BY <3>3, <3>4, <3>5, <3>6
  <2>3. QED
    BY <2>1, <2>2
<1> HIDE DEF h
<1>11. Lists(ny, h, r, n - 1)
  BY <1>5, <1>7, <1>8, <1>9, <1>10 DEF Lists, Leads, Different
<1>12. Passed(r) = Passed(q) \ {q[i]}
  <2>1. ASSUME NEW j \in 1 .. n - 1
        PROVE  r[j] \in Passed(q) \ {q[i]}
    <3>1. at(j) \in 1 .. n /\ at(j) # i /\ r[j] = q[at(j)]
      BY <1>6
    <3> HIDE DEF at
    <3>2. q[at(j)] # q[i]
      BY <1>4, <1>5, <3>1
    <3>3. QED
      BY <1>3, <3>1, <3>2
  <2>2. ASSUME NEW k \in 1 .. n, k # i
        PROVE  q[k] \in Passed(r)
    <3>1. CASE k < i
      <4>1. k \in 1 .. n - 1 /\ r[k] = q[k]
        BY <1>2, <1>4, <1>5, <2>2, <3>1
      <4>2. QED
        BY <1>3, <4>1
    <3>2. CASE ~(k < i)
      <4>1. k - 1 \in 1 .. n - 1 /\ r[k - 1] = q[k]
        BY <1>2, <1>4, <1>5, <2>2, <3>2
      <4>2. QED
        BY <1>3, <4>1
    <3>3. QED
      BY <3>1, <3>2
  <2>3. QED
    BY <1>3, <2>1, <2>2
<1>13. QED
  BY <1>2, <1>11, <1>12 DEF Listing, r, h

-----------------------------------------------------------------------------
(* Two lists on one table.                                                 *)

\* Neither loop hung, and the current process was not put to sleep.
Sane ==
  /\ Safe /\ ~hung
  /\ current_process # NIL => state[current_process] \in {"RUNNING", "READY"}

\* q is the queue of process.c and r the list of scheduler.c.
Apart(q, r) ==
  /\ Listing(next, ready_queue, q) /\ Listing(next, ready_list, r)
  /\ Passed(q) \cap Passed(r) = {}
  /\ current_process \notin Passed(q)
  /\ \A s \in Passed(q) : state[s] = "READY"
  /\ \A s \in Passed(r) : state[s] \in {"READY", "ZOMBIE", "SLEEPING"}

\* What a step does to the list r, that becomes u.
ListStep(r, u) ==
  \/ u = r
  \/ u = <<>>
  \/ \E p \in Slots : p \notin Passed(r) /\ u = <<p>> \o r
  \/ \E i \in 1 .. Len(r) : u = Without(r, i)
  \/ Len(r) > 1 /\ u = Append(Tail(r), Head(r))

LEMMA PassedSlots ==
  ASSUME NEW nx, NEW head, NEW q, Listing(nx, head, q)
  PROVE  Passed(q) \subseteq Slots
BY DEF Listing, Lists, Leads, Passed

\* The sets of the loops are the entries of the lists.
LEMMA ApartSets ==
  ASSUME NEW q, NEW r, Apart(q, r)
  PROVE  /\ Queued = Passed(q) /\ Listed = Passed(r)
         /\ Passed(q) \subseteq Slots /\ Passed(r) \subseteq Slots
<1>1. Listing(next, ready_queue, q) /\ Listing(next, ready_list, r)
  BY DEF Apart
<1>2. QED
  BY <1>1, ReachOfList, PassedSlots DEF Queued, Listed

-----------------------------------------------------------------------------
(* Steps of the process manager.                                           *)

\* A process that is on neither list goes to the front of the queue.
LEMMA EnterApart ==
  ASSUME NEW q, NEW r, Apart(q, r), NEW p \in Slots,
         p \notin Passed(q) \cup Passed(r), p # current_process,
         next'[p] = ready_queue, \A t \in Slots \ {p} : next'[t] = next[t],
         ready_queue' = p,
         state'[p] = "READY", \A s \in Slots \ {p} : state'[s] = state[s],
         UNCHANGED <<current_process, ready_list>>
  PROVE  Apart(<<p>> \o q, r)' /\ QueueStep(q, <<p>> \o q)
<1>1. /\ Listing(next, ready_queue, q) /\ Listing(next, ready_list, r)
      /\ Passed(q) \cap Passed(r) = {}
      /\ \A s \in Passed(q) : state[s] = "READY"
      /\ \A s \in Passed(r) : state[s] \in {"READY", "ZOMBIE", "SLEEPING"}
      /\ Passed(q) \subseteq Slots /\ Passed(r) \subseteq Slots
      /\ current_process \notin Passed(q)
  BY ApartSets DEF Apart
<1>2. next'[p] = ready_queue /\ \A t \in Slots \ {p} : next'[t] = next[t]
  OBVIOUS
<1>3. Listing(next', p, <<p>> \o q) /\ Passed(<<p>> \o q) = Passed(q) \cup {p}
  <2>1. p \notin Passed(q) /\ Listing(next, ready_queue, q)
    BY <1>1
  <2>2. QED
    BY <1>2, <2>1, ListPush
<1>4. \A t \in Passed(r) : next'[t] = next[t]
  BY <1>1, <1>2
<1>5. Listing(next', ready_list, r)
  BY <1>1, <1>4, ListFrame
<1>6. Apart(<<p>> \o q, r)'
  <2>1. \A s \in Passed(<<p>> \o q) : state'[s] = "READY"
    BY <1>1, <1>3
  <2>2. \A s \in Passed(r) : state'[s] \in {"READY", "ZOMBIE", "SLEEPING"}
    BY <1>1
  <2>3. QED
    BY <1>1, <1>3, <1>5, <2>1, <2>2 DEF Apart
<1>7. QED
  BY <1>6 DEF QueueStep

\* process_create.
LEMMA CreateApart ==
  ASSUME Sane, NEW q, NEW r, Apart(q, r), Create, UNCHANGED ready_list
  PROVE  Sane' /\ \E u : Apart(u, r)' /\ QueueStep(q, u)
<1>1. Safe /\ TypeOK /\ Safe' /\ UNCHANGED <<current_process, hung>>
  BY CreateStep DEF Sane, Safe, Create
<1>2. ASSUME NEW s \in Slots, NEW k \in Stacks \cup {NIL}, Fill(s, k)
      PROVE  /\ Sane' /\ state'[s] = "READY"
             /\ \A t \in Slots \ {s} : state'[t] = state[t]
             /\ s \notin Passed(q) \cup Passed(r) /\ s # current_process
  <2>1. Free(s) /\ state'[s] = "READY" /\ \A t \in Slots \ {s} : state'[t] = state[t]
    BY <1>1, <1>2, FillStep
  <2>2. s \notin Passed(q) \cup Passed(r) /\ s # current_process
    BY <2>1, SlotsNotNil DEF Free, Apart, Sane
  <2>3. current_process # NIL => current_process \in Slots
    BY <1>1 DEF TypeOK
  <2>4. Sane'
    BY <1>1, <2>1, <2>2, <2>3 DEF Sane
  <2>5. QED
    BY <2>1, <2>2, <2>4
<1>3. ASSUME NEW s \in Slots, NEW k \in Stacks, Fill(s, k),
             next' = [next EXCEPT ![s] = ready_queue], ready_queue' = s
      PROVE  Sane' /\ \E u : Apart(u, r)' /\ QueueStep(q, u)
  <2>1. /\ Sane' /\ state'[s] = "READY"
        /\ \A t \in Slots \ {s} : state'[t] = state[t]
        /\ s \notin Passed(q) \cup Passed(r) /\ s # current_process
    BY <1>2, <1>3
  <2>2. QED
    <3>1. next'[s] = ready_queue /\ \A t \in Slots \ {s} : next'[t] = next[t]
      BY <1>1, <1>3 DEF TypeOK
    <3>2. QED
      BY <1>1, <1>3, <2>1, <3>1, EnterApart
<1>4. ASSUME NEW s \in Slots, Fill(s, NIL), next' = [next EXCEPT ![s] = NIL],
             UNCHANGED ready_queue
      PROVE  Sane' /\ Apart(q, r)' /\ QueueStep(q, q)
  <2>1. /\ Sane' /\ state'[s] = "READY"
        /\ \A t \in Slots \ {s} : state'[t] = state[t]
        /\ s \notin Passed(q) \cup Passed(r) /\ s # current_process
    BY <1>2, <1>4
  <2>2. Passed(q) \subseteq Slots \ {s} /\ Passed(r) \subseteq Slots \ {s}
    BY <2>1, ApartSets
  <2>3. \A t \in Slots \ {s} : next'[t] = next[t]
    BY <1>1, <1>4 DEF TypeOK
  <2>4. Listing(next', ready_queue, q) /\ Listing(next', ready_list, r)
    <3>1. /\ \A t \in Passed(q) : next'[t] = next[t]
          /\ \A t \in Passed(r) : next'[t] = next[t]
      BY <2>2, <2>3
    <3>2. QED
      BY <3>1, ListFrame DEF Apart
  <2>5. /\ \A t \in Passed(q) : state'[t] = "READY"
        /\ \A t \in Passed(r) : state'[t] \in {"READY", "ZOMBIE", "SLEEPING"}
    BY <2>1, <2>2 DEF Apart
  <2>6. Apart(q, r)'
    BY <1>1, <1>4, <2>4, <2>5 DEF Apart
  <2>7. QED
    BY <1>1, <2>1, <2>6 DEF QueueStep
<1>5. QED
  BY <1>3, <1>4 DEF Create

\* process_wakeup of a process that is not on the scheduler's list.
LEMMA WakeupApart ==
  ASSUME Sane, NEW q, NEW r, Apart(q, r), NEW p \in Slots \ Listed, Wakeup(p),
         UNCHANGED ready_list
  PROVE  Sane' /\ \E u : Apart(u, r)' /\ QueueStep(q, u)
<1>1. /\ state[p] = "SLEEPING" /\ state' = [state EXCEPT ![p] = "READY"]
      /\ next' = [next EXCEPT ![p] = ready_queue] /\ ready_queue' = p
      /\ UNCHANGED <<current_process, hung>>
  BY DEF Wakeup
<1>2. TypeOK /\ Safe' /\ state \in [Slots -> States]
      /\ current_process \in Slots \cup {NIL}
  BY WakeupKeepsSafe DEF Sane, Safe, TypeOK
<1>3. p \notin Passed(q) \cup Passed(r) /\ p # current_process
  <2>1. p \notin Passed(r)
    BY ApartSets
  <2>2. p \notin Passed(q)
    BY <1>1 DEF Apart
  <2>3. p # current_process
    BY <1>1, SlotsNotNil DEF Sane
  <2>4. QED
    BY <2>1, <2>2, <2>3
<1>4. state'[p] = "READY" /\ \A s \in Slots \ {p} : state'[s] = state[s]
  BY <1>1, <1>2
<1>5. Apart(<<p>> \o q, r)' /\ QueueStep(q, <<p>> \o q)
  <2>1. next'[p] = ready_queue /\ \A t \in Slots \ {p} : next'[t] = next[t]
    BY <1>1, <1>2 DEF TypeOK
  <2>2. QED
    BY <1>1, <1>3, <1>4, <2>1, EnterApart
<1>6. Sane'
  BY <1>1, <1>2, <1>3, <1>4 DEF Sane
<1>7. QED
  BY <1>5, <1>6

\* process_destroy of a process that is on no list.
LEMMA ReapApart ==
  ASSUME Sane, NEW q, NEW r, Apart(q, r), NEW p \in Slots \ Listed, Reap(p),
         UNCHANGED ready_list
  PROVE  Sane' /\ Apart(q, r)' /\ QueueStep(q, q)
<1>1. /\ state' = [state EXCEPT ![p] = "DEAD"]
      /\ UNCHANGED <<next, current_process, ready_queue, hung>>
      /\ p # current_process /\ p \notin Queued
  BY DEF Reap, Destroy
<1>2. Safe' /\ state \in [Slots -> States] /\ current_process \in Slots \cup {NIL}
  BY DestroyKeepsSafe DEF Sane, Safe, TypeOK, Reap
<1>3. /\ p \notin Passed(q) \cup Passed(r)
      /\ Passed(q) \subseteq Slots /\ Passed(r) \subseteq Slots
  BY <1>1, ApartSets
<1>4. \A s \in Slots \ {p} : state'[s] = state[s]
  BY <1>1, <1>2
<1>5. Sane'
  BY <1>1, <1>2, <1>4 DEF Sane
<1>6. Apart(q, r)'
  <2>1. /\ \A s \in Passed(q) : state'[s] = "READY"
        /\ \A s \in Passed(r) : state'[s] \in {"READY", "ZOMBIE", "SLEEPING"}
    BY <1>3, <1>4 DEF Apart
  <2>2. QED
    BY <1>1, <2>1 DEF Apart
<1>7. QED
  BY <1>1, <1>5, <1>6 DEF QueueStep

\* process_yield, process_exit and process_sleep, which leave the current
\* process in the state st says.
LEMMA HandOverApart ==
  ASSUME Sane, NEW q, NEW r, Apart(q, r), Safe', UNCHANGED ready_list,
         NEW st \in [Slots -> States],
         \/ st = state
         \/ /\ ready_queue # NIL /\ current_process # NIL
            /\ \E x \in {"ZOMBIE", "SLEEPING"} : st = [state EXCEPT ![current_process] = x],
         YieldFrom(st)
  PROVE  Sane' /\ \E u : Apart(u, r)' /\ QueueStep(q, u)
<1>1. /\ TypeOK /\ state \in [Slots -> States] /\ current_process \in Slots \cup {NIL}
      /\ next \in [Slots -> Slots \cup {NIL}]
  BY DEF Sane, Safe, TypeOK
<1>2. /\ Listing(next, ready_queue, q) /\ Listing(next, ready_list, r)
      /\ Passed(q) \cap Passed(r) = {} /\ current_process \notin Passed(q)
      /\ \A s \in Passed(q) : state[s] = "READY"
      /\ \A s \in Passed(r) : state[s] \in {"READY", "ZOMBIE", "SLEEPING"}
      /\ Passed(q) \subseteq Slots /\ Passed(r) \subseteq Slots
  BY ApartSets DEF Apart
<1>3. /\ \/ /\ ready_queue = NIL /\ state' = st
            /\ UNCHANGED <<next, current_process, ready_queue>>
         \/ /\ ~(current_process # NIL /\ st[current_process] = "RUNNING")
            /\ Handed(q, Tail(q))
            /\ Passed(Tail(q)) = Passed(q) \ {ready_queue}
            /\ state' = [st EXCEPT ![ready_queue] = "RUNNING"]
         \/ /\ current_process \in Slots /\ st[current_process] = "RUNNING"
            /\ Handed(q, Tail(q) \o <<current_process>>)
            /\ Passed(Tail(q) \o <<current_process>>)
                 = (Passed(q) \ {ready_queue}) \cup {current_process}
            /\ state' = [st EXCEPT ![current_process] = "READY",
                                   ![ready_queue] = "RUNNING"]
      /\ \A t \in Slots \ Passed(q) :
           next'[t] = next[t] \/ (t = current_process /\ st[t] = "RUNNING")
      /\ hung' = hung
  BY <1>1, <1>2, YieldList
<1>4. \A s \in Slots : \/ st[s] = state[s]
                       \/ s = current_process /\ st[s] \in {"ZOMBIE", "SLEEPING"}
  BY <1>1
<1>5. \A s \in Passed(r) : st[s] \in {"READY", "ZOMBIE", "SLEEPING"}
  BY <1>2, <1>4
<1>6. Listing(next', ready_list, r)
  <2>1. \A t \in Passed(r) : next'[t] = next[t]
    BY <1>2, <1>3, <1>5
  <2>2. QED
    BY <1>2, <2>1, ListFrame
<1>7. CASE ready_queue = NIL
  <2>1. UNCHANGED <<state, next, current_process, ready_queue>>
    BY <1>3, <1>7, SlotsNotNil DEF Handed
  <2>2. QED
    BY <1>3, <2>1 DEF Sane, Apart, QueueStep
<1>8. CASE ready_queue # NIL
  <2>1. PICK u :
          /\ Handed(q, u)
          /\ \/ /\ ~(current_process # NIL /\ st[current_process] = "RUNNING")
                /\ u = Tail(q) /\ Passed(u) = Passed(q) \ {ready_queue}
                /\ state' = [st EXCEPT ![ready_queue] = "RUNNING"]
             \/ /\ current_process \in Slots /\ st[current_process] = "RUNNING"
                /\ u = Tail(q) \o <<current_process>>
                /\ Passed(u) = (Passed(q) \ {ready_queue}) \cup {current_process}
                /\ state' = [st EXCEPT ![current_process] = "READY",
                                       ![ready_queue] = "RUNNING"]
    BY <1>3, <1>8
  <2>2. /\ q # <<>> /\ current_process' = ready_queue /\ ready_queue = Head(q)
        /\ ready_queue \in Slots /\ Listing(next', ready_queue', u)
    BY <2>1 DEF Handed
  <2>3. ready_queue \in Passed(q) /\ ready_queue # current_process
    BY <1>2, <2>2, ListHead
  <2>4. state'[ready_queue] = "RUNNING"
    BY <2>1, <2>2, <2>3
  <2>5. /\ \A s \in Slots \ {current_process, ready_queue} : state'[s] = state[s]
        /\ \/ /\ ~(current_process # NIL /\ st[current_process] = "RUNNING")
              /\ Passed(u) = Passed(q) \ {ready_queue}
              /\ \A s \in Slots \ {ready_queue} : state'[s] = st[s]
           \/ /\ st[current_process] = "RUNNING"
              /\ Passed(u) = (Passed(q) \ {ready_queue}) \cup {current_process}
              /\ state'[current_process] = "READY"
    BY <1>1, <1>4, <2>1, <2>2, <2>3
  <2>6. \A s \in Passed(u) : state'[s] = "READY"
    BY <1>2, <2>2, <2>5
  <2>7. \A s \in Passed(r) : s # ready_queue /\ (s = current_process => st[s] # "RUNNING")
    BY <1>2, <1>5, <2>3
  <2>8. \A s \in Passed(r) : state'[s] \in {"READY", "ZOMBIE", "SLEEPING"}
    BY <1>2, <1>5, <2>5, <2>7
  <2>9. Passed(u) \cap Passed(r) = {}
    BY <1>2, <2>5, <2>7
  <2>10. ready_queue \notin Passed(u)
    BY <2>3, <2>5
  <2>11. Apart(u, r)'
    BY <1>6, <2>2, <2>6, <2>8, <2>9, <2>10 DEF Apart
  <2>12. Sane'
    BY <1>3, <2>2, <2>4 DEF Sane
  <2>13. QueueStep(q, u)
    <3>1. Tail(q) \in Seq(Slots)
      BY <1>2, <2>2, HeadTailProperties DEF Listing
    <3>2. Tail(q) = Tail(q) \o <<>>
      BY <3>1, ConcatEmptySeq
    <3>3. CASE current_process = NIL
      BY <2>1, <2>2, <3>2, <3>3, SlotsNotNil DEF QueueStep
    <3>4. CASE current_process # NIL
      BY <2>1, <2>2, <3>4 DEF QueueStep
    <3>5. QED
      BY <3>3, <3>4
  <2>14. QED
    BY <2>11, <2>12, <2>13
<1>9. QED
  BY <1>7, <1>8

LEMMA ManagerApart ==
  ASSUME Sane, NEW q, NEW r, Apart(q, r), ManagerStep
  PROVE  Sane' /\ \E u : Apart(u, r)' /\ QueueStep(q, u)
<1>1. Safe /\ state \in [Slots -> States] /\ UNCHANGED ready_list
  BY DEF Sane, Safe, TypeOK, ManagerStep
<1>2. CASE Create
  BY <1>1, <1>2, CreateApart
<1>3. ASSUME NEW p \in Slots \ Listed, Reap(p)
      PROVE  Sane' /\ \E u : Apart(u, r)' /\ QueueStep(q, u)
  BY <1>1, <1>3, ReapApart
<1>4. ASSUME NEW p \in Slots \ Listed, Wakeup(p)
      PROVE  Sane' /\ \E u : Apart(u, r)' /\ QueueStep(q, u)
  BY <1>1, <1>4, WakeupApart
<1>5. CASE Yield
  <2>1. Safe' /\ YieldFrom(state)
    BY <1>1, <1>5, YieldKeeps DEF Yield
  <2>2. QED
    BY <1>1, <2>1, HandOverApart
<1>6. ASSUME NEW x \in {"ZOMBIE", "SLEEPING"}, Stop(x), ready_queue # NIL
      PROVE  Sane' /\ \E u : Apart(u, r)' /\ QueueStep(q, u)
  <2> DEFINE st == [state EXCEPT ![current_process] = x]
  <2>1. Safe' /\ current_process # NIL /\ YieldFrom(st)
    BY <1>1, <1>6, StopStep DEF Stop
  <2>2. st \in [Slots -> States]
    BY <1>1 DEF States
  <2>3. \E y \in {"ZOMBIE", "SLEEPING"} : st = [state EXCEPT ![current_process] = y]
    OBVIOUS
  <2> HIDE DEF st
  <2>4. QED
    BY <1>1, <1>6, <2>1, <2>2, <2>3, HandOverApart
<1>7. QED
  BY <1>2, <1>3, <1>4, <1>5, <1>6 DEF ManagerStep, GiveUp, Exit, Sleep

-----------------------------------------------------------------------------
(* Steps of the scheduler.                                                 *)

\* None of them touches the queue of process.c.
LEMMA QueueKept ==
  ASSUME NEW q, NEW r, Apart(q, r), NEW u,
         UNCHANGED <<ready_queue, current_process>>,
         \A t \in Slots : t \in Passed(r) \cup Passed(u) \/ next'[t] = next[t],
         \A t \in Slots : t \in Passed(r) \cup Passed(u) \/ state'[t] = state[t],
         Passed(q) \cap Passed(u) = {},
         Listing(next', ready_list', u),
         \A s \in Passed(u) : state'[s] \in {"READY", "ZOMBIE", "SLEEPING"}
  PROVE  Apart(q, u)' /\ QueueStep(q, q)
<1>1. /\ \A t \in Passed(q) : next'[t] = next[t]
      /\ \A t \in Passed(q) : state'[t] = state[t]
  BY ApartSets DEF Apart
<1>2. Listing(next', ready_queue', q)
  BY <1>1, ListFrame DEF Apart
<1>3. QED
  BY <1>1, <1>2 DEF Apart, QueueStep

\* scheduler_init.
LEMMA InitApart ==
  ASSUME Sane, NEW q, NEW r, Apart(q, r), SchedulerInit
  PROVE  Sane' /\ Apart(q, <<>>)' /\ QueueStep(q, q) /\ ListStep(r, <<>>)
<1>1. ready_list' = NIL /\ UNCHANGED vars
  BY DEF SchedulerInit
<1>2. Sane'
  BY <1>1 DEF vars, table, Sane, Safe, TypeOK, OnlyCurrentRuns
<1>3. <<>> \in Seq(Slots) /\ Len(<<>>) = 0
  OBVIOUS
<1>4. Passed(<<>>) = {} /\ Listing(next', ready_list', <<>>)
  BY <1>1, <1>3 DEF Passed, Listing, Lists, Leads, Different
<1>5. Apart(q, <<>>)' /\ QueueStep(q, q)
  BY <1>1, <1>4, QueueKept DEF vars, table
<1>6. QED
  BY <1>2, <1>5 DEF ListStep

\* scheduler_add of a process that is on no list.
LEMMA AddApart ==
  ASSUME Sane, NEW q, NEW r, Apart(q, r),
         NEW p \in Slots, p \notin Queued \cup Listed, Add(p)
  PROVE  /\ Sane' /\ Apart(q, <<p>> \o r)'
         /\ QueueStep(q, q) /\ ListStep(r, <<p>> \o r)
<1>1. /\ state' = [state EXCEPT ![p] = "READY"]
      /\ next' = [next EXCEPT ![p] = ready_list] /\ ready_list' = p
      /\ UNCHANGED <<pid, kernel_stack, current_process, ready_queue, next_pid,
                     allocated, hung>>
  BY DEF Add
<1>2. TypeOK /\ OnlyCurrentRuns /\ ~hung
  BY DEF Sane, Safe
<1>3. /\ state \in [Slots -> States] /\ next \in [Slots -> Slots \cup {NIL}]
      /\ current_process \in Slots \cup {NIL}
  BY <1>2 DEF TypeOK
<1>4. /\ p \notin Passed(q) /\ p \notin Passed(r)
      /\ Passed(q) \subseteq Slots /\ Passed(r) \subseteq Slots
  BY ApartSets
<1>5. ready_list \in Slots \cup {NIL}
  <2>1. Listing(next, ready_list, r)
    BY DEF Apart
  <2>2. QED
    BY <1>4, <2>1, ListHead
<1>6. /\ next'[p] = ready_list /\ state'[p] = "READY"
      /\ \A t \in Slots \ {p} : next'[t] = next[t]
      /\ \A t \in Slots \ {p} : state'[t] = state[t]
  BY <1>1, <1>3
<1>7. Sane'
  <2>1. state' \in [Slots -> States] /\ next' \in [Slots -> Slots \cup {NIL}]
    BY <1>1, <1>3, <1>5 DEF States
  <2>2. TypeOK'
    BY <1>1, <1>2, <2>1 DEF TypeOK
  <2>3. OnlyCurrentRuns'
    BY <1>1, <1>2, <1>6 DEF OnlyCurrentRuns
  <2>4. current_process # NIL => state'[current_process] \in {"RUNNING", "READY"}
    BY <1>3, <1>6 DEF Sane
  <2>5. QED
    BY <1>1, <1>2, <2>2, <2>3, <2>4 DEF Sane, Safe
<1>8. Listing(next', p, <<p>> \o r) /\ Passed(<<p>> \o r) = Passed(r) \cup {p}
  <2>1. Listing(next, ready_list, r) /\ p \notin Passed(r)
    BY <1>4 DEF Apart
  <2>2. next'[p] = ready_list /\ \A t \in Slots \ {p} : next'[t] = next[t]
    BY <1>6
  <2>3. QED
    BY <2>1, <2>2, ListPush
<1>9. Apart(q, <<p>> \o r)' /\ QueueStep(q, q)
  <2> DEFINE u == <<p>> \o r
  <2>1. Passed(u) = Passed(r) \cup {p} /\ Listing(next', ready_list', u)
    BY <1>1, <1>8
  <2> HIDE DEF u
  <2>2. Passed(q) \cap Passed(u) = {}
    BY <1>4, <2>1 DEF Apart
  <2>3. \A s \in Passed(u) : state'[s] \in {"READY", "ZOMBIE", "SLEEPING"}
    BY <1>4, <1>6, <2>1 DEF Apart
  <2>4. /\ \A t \in Slots : t \in Passed(r) \cup Passed(u) \/ next'[t] = next[t]
        /\ \A t \in Slots : t \in Passed(r) \cup Passed(u) \/ state'[t] = state[t]
    BY <1>6, <2>1
  <2>5. Apart(q, u)' /\ QueueStep(q, q)
    BY <1>1, <2>1, <2>2, <2>3, <2>4, QueueKept
  <2>6. QED
    BY <2>5 DEF u
<1>10. ListStep(r, <<p>> \o r)
  BY <1>4 DEF ListStep
<1>11. QED
  BY <1>7, <1>9, <1>10

\* A step of the scheduler that only changes links of its list.
LEMMA LinksApart ==
  ASSUME Sane, NEW q, NEW r, Apart(q, r), NEW u,
         next' \in [Slots -> Slots \cup {NIL}], hung' = FALSE,
         UNCHANGED <<state, pid, kernel_stack, current_process, ready_queue,
                     next_pid, allocated>>,
         \A t \in Slots : t \in Passed(r) \/ next'[t] = next[t],
         Passed(u) \subseteq Passed(r), Listing(next', ready_list', u)
  PROVE  Sane' /\ Apart(q, u)' /\ QueueStep(q, q)
<1>1. Sane'
  <2>1. TypeOK' /\ OnlyCurrentRuns' /\ ~hung'
    BY DEF Sane, Safe, TypeOK, OnlyCurrentRuns
  <2>2. QED
    BY <2>1 DEF Sane, Safe
<1>2. Passed(q) \cap Passed(u) = {}
  BY DEF Apart
<1>3. \A s \in Passed(u) : state'[s] \in {"READY", "ZOMBIE", "SLEEPING"}
  BY DEF Apart
<1>4. Apart(q, u)' /\ QueueStep(q, q)
  BY <1>2, <1>3, QueueKept
<1>5. QED
  BY <1>1, <1>4

\* scheduler_remove.
LEMMA RemoveApart ==
  ASSUME Sane, NEW q, NEW r, Apart(q, r), NEW p \in Slots, Remove(p)
  PROVE  /\ Sane' /\ QueueStep(q, q)
         /\ \E u : Apart(q, u)' /\ ListStep(r, u)
<1>1. /\ Listing(next, ready_list, r) /\ Listed = Passed(r)
      /\ Passed(r) \subseteq Slots
  BY ApartSets DEF Apart
<1>2. /\ UNCHANGED <<state, pid, kernel_stack, current_process, ready_queue,
                     next_pid, allocated>>
      /\ next \in [Slots -> Slots \cup {NIL}] /\ ~hung
      /\ ready_list \in Slots \cup {NIL}
  BY <1>1, ListHead, SlotsNotNil DEF Remove, Sane, Safe, TypeOK
<1>3. Ends(ready_list)
  BY <1>1, ListEnds DEF Ends, Listed
<1>4. ASSUME NEW i \in 1 .. Len(r), r[i] = p, next'[p] = NIL,
             i > 1 => next'[r[i - 1]] = next[p],
             \A t \in Slots : t = p \/ (i > 1 /\ t = r[i - 1]) \/ next'[t] = next[t],
             ready_list' = (IF i = 1 THEN next[ready_list] ELSE ready_list),
             next' \in [Slots -> Slots \cup {NIL}], hung' = FALSE
      PROVE  /\ Sane' /\ QueueStep(q, q)
             /\ \E u : Apart(q, u)' /\ ListStep(r, u)
  <2> DEFINE u == Without(r, i)
  <2>1. Listing(next', ready_list', u) /\ Passed(u) = Passed(r) \ {p}
    <3>1. \A t \in Slots : t = r[i] \/ (i > 1 /\ t = r[i - 1]) \/ next'[t] = next[t]
      BY <1>4
    <3>2. next'[r[i]] = NIL /\ (i > 1 => next'[r[i - 1]] = next[r[i]])
      BY <1>4
    <3>3. /\ Listing(next', IF i = 1 THEN next[ready_list] ELSE ready_list, Without(r, i))
          /\ Passed(Without(r, i)) = Passed(r) \ {r[i]}
      BY <1>1, <3>1, <3>2, ListDrop
    <3>4. QED
      BY <1>4, <3>3
  <2>2. \A t \in Slots : t \in Passed(r) \/ next'[t] = next[t]
    <3>1. Len(r) \in Nat
      BY <1>1 DEF Listing, Lists, Leads
    <3>2. i > 1 => i - 1 \in 1 .. Len(r)
      BY <3>1
    <3>3. QED
      BY <1>4, <3>2 DEF Passed
  <2>3. ListStep(r, u)
    BY DEF ListStep
  <2> HIDE DEF u
  <2>4. Passed(u) \subseteq Passed(r)
    BY <2>1
  <2>5. Sane' /\ Apart(q, u)' /\ QueueStep(q, q)
    BY <1>2, <1>4, <2>1, <2>2, <2>4, LinksApart
  <2>6. QED
    BY <2>3, <2>5
<1>5. ASSUME p = ready_list, ready_list' = next[p],
             next' = [next EXCEPT ![p] = NIL], UNCHANGED hung
      PROVE  /\ Sane' /\ QueueStep(q, q)
             /\ \E u : Apart(q, u)' /\ ListStep(r, u)
  <2>1. 1 \in 1 .. Len(r) /\ r[1] = p
    <3>1. Lists(next, ready_list, r, Len(r))
      BY <1>1 DEF Listing
    <3>2. QED
      BY <1>5, <3>1, SlotsNotNil DEF Lists, Leads
  <2>2. /\ next'[p] = NIL /\ hung' = FALSE
        /\ \A t \in Slots : t = p \/ next'[t] = next[t]
        /\ next' \in [Slots -> Slots \cup {NIL}]
    BY <1>2, <1>5
  <2>3. ready_list' = (IF 1 = 1 THEN next[ready_list] ELSE ready_list)
    BY <1>5
  <2>4. ~(1 > 1)
    OBVIOUS
  <2>5. QED
    BY <1>4, <2>1, <2>2, <2>3, <2>4
<1>6. ASSUME NEW s \in Reach([next EXCEPT ![p] = NIL], ready_list) \ {p},
             p # ready_list, next[s] = p,
             next' = [next EXCEPT ![s] = next[p], ![p] = NIL],
             UNCHANGED <<ready_list, hung>>
      PROVE  /\ Sane' /\ QueueStep(q, q)
             /\ \E u : Apart(q, u)' /\ ListStep(r, u)
  <2> DEFINE cut == [next EXCEPT ![p] = NIL]
  <2>1. \A t \in Passed(r) : next[t] \in Passed(r) \cup {NIL}
    <3> DEFINE n == Len(r)
    <3>1. Lists(next, ready_list, r, n) /\ Passed(r) = {r[i] : i \in 1 .. n}
      BY <1>1 DEF Listing, Passed
    <3> HIDE DEF n
    <3>2. \A i \in 1 .. n : i = n \/ i + 1 \in 1 .. n
      BY <3>1 DEF Lists, Leads
    <3>3. QED
      BY <3>1, <3>2 DEF Lists, Leads
  <2>2. Passed(r) \in Closed(cut, ready_list)
    <3>1. ready_list \in Passed(r) \cup {NIL}
      BY <1>1, ListHead
    <3>2. \A t \in Passed(r) : cut[t] \in Passed(r) \cup {NIL}
      BY <1>1, <1>2, <2>1
    <3>3. QED
      BY <1>1, <3>1, <3>2 DEF Closed
  <2>3. s \in Passed(r) \ {p} /\ s \in Slots
    <3>1. s \in Reach(cut, ready_list) /\ s # p
      BY <1>6
    <3> HIDE DEF cut
    <3>2. s \in Passed(r)
      BY <2>2, <3>1 DEF Reach
    <3>3. QED
      BY <1>1, <3>1, <3>2
  <2>4. PICK j \in 1 .. Len(r) : s = r[j]
    BY <2>3 DEF Passed
  <2>5. j + 1 \in 1 .. Len(r) /\ r[j + 1] = p
    <3> DEFINE n == Len(r)
    <3>1. Lists(next, ready_list, r, n) /\ j \in 1 .. n
      BY <1>1 DEF Listing
    <3> HIDE DEF n
    <3>2. next[r[j]] = p /\ p # NIL
      BY <1>6, <2>4, SlotsNotNil
    <3>3. j + 1 \in 1 .. n /\ r[j + 1] = p
      BY <3>1, <3>2 DEF Lists, Leads
    <3>4. QED
      BY <3>3 DEF n
  <2>6. /\ next'[p] = NIL /\ next'[s] = next[p] /\ hung' = FALSE
        /\ \A t \in Slots : t = p \/ t = s \/ next'[t] = next[t]
        /\ next' \in [Slots -> Slots \cup {NIL}]
    BY <1>2, <1>6, <2>3
  <2>7. j + 1 > 1 /\ (j + 1) - 1 = j /\ j + 1 # 1
    BY <2>4
  <2>8. ready_list' = (IF j + 1 = 1 THEN next[ready_list] ELSE ready_list)
    BY <1>6, <2>7
  <2>9. r[(j + 1) - 1] = s
    BY <2>4, <2>7
  <2>10. QED
    BY <1>4, <2>5, <2>6, <2>7, <2>8, <2>9
<1>7. ASSUME p \notin Listed, hung' = ~Ends(ready_list),
             UNCHANGED <<ready_list, next>>
      PROVE  /\ Sane' /\ QueueStep(q, q)
             /\ \E u : Apart(q, u)' /\ ListStep(r, u)
  <2>1. hung' = FALSE
    BY <1>3, <1>7
  <2>2. Sane' /\ Apart(q, r)' /\ QueueStep(q, q)
    <3>1. Listing(next', ready_list', r)
      BY <1>1, <1>7
    <3>2. \A t \in Slots : t \in Passed(r) \/ next'[t] = next[t]
      BY <1>7
    <3>3. next' \in [Slots -> Slots \cup {NIL}]
      BY <1>2, <1>7
    <3>4. QED
      BY <1>2, <2>1, <3>1, <3>2, <3>3, LinksApart
  <2>3. QED
    BY <2>2 DEF ListStep
<1>8. QED
  BY <1>5, <1>6, <1>7 DEF Remove

\* scheduler_yield.
LEMMA RotateApart ==
  ASSUME Sane, NEW q, NEW r, Apart(q, r), Rotate
  PROVE  /\ Sane' /\ QueueStep(q, q)
         /\ \E u : Apart(q, u)' /\ ListStep(r, u)
<1> DEFINE h == ready_list
           cut == [next EXCEPT ![h] = NIL]
<1>1. /\ Listing(next, h, r) /\ Listed = Passed(r) /\ Passed(r) \subseteq Slots
      /\ r \in Seq(Slots)
  BY ApartSets DEF Apart, Listing
<1>2. /\ h # NIL /\ next[h] # NIL /\ ready_list' = next[h]
      /\ hung' = ~Ends(h)
      /\ UNCHANGED <<state, pid, kernel_stack, current_process, ready_queue,
                     next_pid, allocated>>
  BY DEF Rotate
<1>3. next \in [Slots -> Slots \cup {NIL}] /\ ~hung
  BY DEF Sane, Safe, TypeOK
<1>4. hung' = FALSE
  BY <1>1, <1>2, ListEnds DEF Ends, Listed
<1>5. /\ r # <<>> /\ h = Head(r) /\ h \in Slots
      /\ Listing(cut, next[h], Tail(r))
      /\ Passed(Tail(r)) = Passed(r) \ {h}
  BY <1>1, <1>2, <1>3, ListPop
<1>6. h \in Passed(r)
  BY <1>1, <1>5, ListHead
<1>7. PICK last \in Passed(r) : next[last] = NIL
  BY <1>1, <1>2, ListEnds
<1>8. \A s \in Slots : s \in {t \in Listed : next[t] = NIL} <=> s = last
  BY <1>1, <1>7, LastUnique
<1>9. last # h /\ last \in Slots /\ last \in Passed(Tail(r))
  BY <1>1, <1>2, <1>5, <1>7
<1>10. /\ next' \in [Slots -> Slots \cup {NIL}]
       /\ next'[last] = h /\ next'[h] = NIL
       /\ \A t \in Slots : t = h \/ t = last \/ next'[t] = next[t]
  <2> DEFINE ends == {t \in Listed : next[t] = NIL}
  <2>1. next' = [s \in Slots |-> IF s \in ends THEN h
                                 ELSE IF s = h /\ ends # {} THEN NIL
                                 ELSE next[s]]
    BY DEF Rotate
  <2>2. last \in ends /\ \A s \in Slots : s \in ends <=> s = last
    BY <1>8, <1>9
  <2> HIDE DEF ends
  <2>3. QED
    BY <1>3, <1>5, <1>9, <2>1, <2>2
<1> DEFINE u == Append(Tail(r), Head(r))
<1>11. Listing(next', next[h], u) /\ Passed(u) = Passed(r)
  <2>1. cut[last] = NIL /\ \A t \in Slots \ {h, last} : next'[t] = cut[t]
    BY <1>3, <1>7, <1>9, <1>10
  <2>2. h \notin Passed(Tail(r)) /\ next'[h] = NIL /\ next'[last] = h
    BY <1>5, <1>10
  <2> DEFINE v == Tail(r)
  <2>3. Listing(cut, next[h], v) /\ last \in Passed(v) /\ h \notin Passed(v)
    BY <1>5, <1>9, <2>2
  <2> HIDE DEF cut, v
  <2>4. Listing(next', next[h], Append(v, h)) /\ Passed(Append(v, h)) = Passed(v) \cup {h}
    BY <1>5, <2>1, <2>2, <2>3, ListAppend
  <2>5. Passed(v) = Passed(r) \ {h}
    BY <1>5 DEF v
  <2>6. QED
    BY <1>5, <1>6, <2>4, <2>5 DEF v
<1>12. ListStep(r, u)
  <2>1. Len(r) > 1
    <3> DEFINE n == Len(r)
    <3>1. Lists(next, h, r, n)
      BY <1>1 DEF Listing
    <3> HIDE DEF n
    <3>2. n \in Nat /\ n # 0 /\ n # 1
      BY <1>2, <3>1 DEF Lists, Leads
    <3>3. n > 1
      BY <3>2
    <3>4. QED
      BY <3>3 DEF n
  <2>2. QED
    BY <1>5, <2>1 DEF ListStep
<1> HIDE DEF u, cut
<1>13. Sane' /\ Apart(q, u)' /\ QueueStep(q, q)
  <2>1. /\ \A t \in Slots : t \in Passed(r) \/ next'[t] = next[t]
        /\ Passed(u) \subseteq Passed(r) /\ Listing(next', ready_list', u)
    BY <1>2, <1>6, <1>7, <1>10, <1>11
  <2>2. QED
    BY <1>2, <1>4, <1>10, <2>1, LinksApart
<1>14. QED
  BY <1>12, <1>13

-----------------------------------------------------------------------------
(* Safety and refinement.                                                  *)

LEMMA ApartStep ==
  ASSUME Sane, NEW q, NEW r, Apart(q, r), [SchedNext]_schedVars
  PROVE  Sane' /\ \E u, v : Apart(u, v)' /\ QueueStep(q, u) /\ ListStep(r, v)
<1>1. CASE ManagerStep
  BY <1>1, ManagerApart DEF ListStep
<1>2. CASE SchedulerInit
  BY <1>2, InitApart
<1>3. CASE Rotate
  BY <1>3, RotateApart
<1>4. ASSUME NEW p \in Slots, Remove(p)
      PROVE  Sane' /\ \E u, v : Apart(u, v)' /\ QueueStep(q, u) /\ ListStep(r, v)
  BY <1>4, RemoveApart
<1>5. ASSUME NEW p \in Slots, p \notin Queued \cup Listed, Add(p)
      PROVE  Sane' /\ \E u, v : Apart(u, v)' /\ QueueStep(q, u) /\ ListStep(r, v)
  BY <1>5, AddApart
<1>6. CASE UNCHANGED schedVars
  <2>1. Sane'
    BY <1>6 DEF schedVars, vars, table, Sane, Safe, TypeOK, OnlyCurrentRuns
  <2>2. Apart(q, r)' /\ QueueStep(q, q) /\ ListStep(r, r)
    BY <1>6 DEF schedVars, vars, table, Apart, QueueStep, ListStep
  <2>3. QED
    BY <2>1, <2>2
<1>7. QED
  BY <1>1, <1>2, <1>3, <1>4, <1>5, <1>6 DEF SchedNext, SchedulerStep

LEMMA ApartInit == SchedInit => Sane /\ Apart(<<>>, <<>>)
<1> SUFFICES ASSUME SchedInit PROVE Sane /\ Apart(<<>>, <<>>)
  OBVIOUS
<1>1. Init /\ ready_list = NIL
  BY DEF SchedInit
<1>2. Safe /\ ~hung /\ current_process = NIL /\ ready_queue = NIL
  BY <1>1, SafeInit DEF Init
<1>3. <<>> \in Seq(Slots) /\ Len(<<>>) = 0
  OBVIOUS
<1>4. Passed(<<>>) = {} /\ Listing(next, NIL, <<>>)
  BY <1>3 DEF Passed, Listing, Lists, Leads, Different
<1>5. QED
  BY <1>1, <1>2, <1>4 DEF Sane, Apart

SchedInv == Sane /\ \E q, r : Apart(q, r)

LEMMA SchedAlways == SchedSpec => []SchedInv
<1>1. SchedInit => SchedInv
  BY ApartInit DEF SchedInv
<1>2. SchedInv /\ [SchedNext]_schedVars => SchedInv'
  <2> SUFFICES ASSUME SchedInv, [SchedNext]_schedVars PROVE SchedInv'
    OBVIOUS
  <2>1. Sane
    BY DEF SchedInv
  <2>2. PICK q, r : Apart(q, r)
    BY DEF SchedInv
  <2>3. Sane' /\ \E u, v : Apart(u, v)'
    BY <2>1, <2>2, ApartStep
  <2>4. QED
    BY <2>3 DEF SchedInv
<1>3. QED
  BY <1>1, <1>2, PTL DEF SchedSpec

\* The list of scheduler.c and the queue of process.c never share an entry,
\* and no loop over either runs for ever.
THEOREM ListsStayApart == SchedSpec => []ListsApart
<1>1. SchedInv => ListsApart
  <2> SUFFICES ASSUME SchedInv PROVE ListsApart
    OBVIOUS
  <2>1. ~hung
    BY DEF SchedInv, Sane
  <2>2. PICK q, r : Apart(q, r)
    BY DEF SchedInv
  <2>3. /\ Queued = Passed(q) /\ Listed = Passed(r) /\ Passed(r) \subseteq Slots
        /\ Passed(q) \cap Passed(r) = {}
        /\ Listing(next, ready_queue, q) /\ Listing(next, ready_list, r)
    BY <2>2, ApartSets DEF Apart
  <2>4. Ends(ready_queue) /\ Ends(ready_list)
    BY <2>3, ListEnds DEF Ends, Queued, Listed
  <2>5. ready_list \in Slots \cup {NIL}
    BY <2>3, ListHead
  <2>6. QED
    BY <2>1, <2>3, <2>4, <2>5 DEF ListsApart
<1>2. QED
  BY <1>1, SchedAlways, PTL

\* The pointers of scheduler.c implement the list that turns, while process.c
\* works on the same next fields.
THEOREM RotaImplemented == SchedSpec => RotaSpec
<1>1. SchedInit => AbstractRota!Init
  <2> SUFFICES ASSUME SchedInit PROVE AbstractRota!Init
    OBVIOUS
  <2>1. Listing(next, ready_list, <<>>)
    BY ApartInit DEF Apart
  <2>2. RotaChain = <<>>
    BY <2>1, ListFound DEF RotaChain
  <2>3. QED
    BY <2>2 DEF AbstractRota!Init
<1>2. SchedInv /\ [SchedNext]_schedVars => [AbstractRota!Next]_RotaChain
  <2> SUFFICES ASSUME SchedInv, [SchedNext]_schedVars
               PROVE  [AbstractRota!Next]_RotaChain
    OBVIOUS
  <2>1. Sane
    BY DEF SchedInv
  <2>2. PICK q, r : Apart(q, r)
    BY DEF SchedInv
  <2>3. PICK u, v : Apart(u, v)' /\ ListStep(r, v)
    BY <2>1, <2>2, ApartStep
  <2>4. RotaChain = r
    BY <2>2, ListFound DEF RotaChain, Apart
  <2>5. RotaChain' = v
    BY <2>3, ListFound DEF RotaChain, Apart
  <2>6. DOMAIN r = 1 .. Len(r)
    BY <2>2, LenProperties DEF Apart, Listing
  <2>7. AbstractRota!Listed = Passed(r)
    BY <2>4, <2>6 DEF AbstractRota!Listed, Passed
  <2>8. CASE v = r \/ v = <<>>
    BY <2>4, <2>5, <2>8 DEF AbstractRota!Next, AbstractRota!Clear
  <2>9. CASE \E p \in Slots : p \notin Passed(r) /\ v = <<p>> \o r
    BY <2>4, <2>5, <2>7, <2>9 DEF AbstractRota!Next, AbstractRota!Add
  <2>10. CASE \E i \in 1 .. Len(r) : v = Without(r, i)
    <3>1. PICK i \in 1 .. Len(r) : v = Without(r, i)
      BY <2>10
    <3>2. r[i] \in Slots
      BY <2>2, ElementOfSeq DEF Apart, Listing
    <3>3. AbstractRota!Remove(r[i])
      BY <2>4, <2>5, <2>6, <3>1 DEF AbstractRota!Remove, Without
    <3>4. QED
      BY <3>2, <3>3 DEF AbstractRota!Next
  <2>11. CASE Len(r) > 1 /\ v = Append(Tail(r), Head(r))
    BY <2>4, <2>5, <2>11 DEF AbstractRota!Next, AbstractRota!Rotate
  <2>12. QED
    BY <2>3, <2>8, <2>9, <2>10, <2>11 DEF ListStep
<1>3. QED
  BY <1>1, <1>2, SchedAlways, PTL DEF SchedSpec, RotaSpec, AbstractRota!Spec

\* The pointers of process.c still implement the run queue.
THEOREM RunQueueStaysImplemented == SchedSpec => RunQueueSpec
<1>1. SchedInit => Abstract!Init
  <2> SUFFICES ASSUME SchedInit PROVE Abstract!Init
    OBVIOUS
  <2>1. Listing(next, ready_queue, <<>>) /\ current_process = NIL
    BY ApartInit DEF Apart, SchedInit, Init
  <2>2. Chain = <<>>
    BY <2>1, ListFound DEF Chain
  <2>3. QED
    BY <2>1, <2>2 DEF Abstract!Init
<1>2. SchedInv /\ [SchedNext]_schedVars => [Abstract!Next]_(Abstract!vars)
  <2> SUFFICES ASSUME SchedInv, [SchedNext]_schedVars
               PROVE  [Abstract!Next]_(Abstract!vars)
    OBVIOUS
  <2>1. Sane
    BY DEF SchedInv
  <2>2. PICK q, r : Apart(q, r)
    BY DEF SchedInv
  <2>3. PICK u, v : Apart(u, v)' /\ QueueStep(q, u)
    BY <2>1, <2>2, ApartStep
  <2>4. Chain = q
    BY <2>2, ListFound DEF Chain, Apart
  <2>5. Chain' = u
    BY <2>3, ListFound DEF Chain, Apart
  <2>6. Abstract!Waiting = Passed(q)
    <3>1. DOMAIN q = 1 .. Len(q)
      BY <2>2, LenProperties DEF Apart, Listing
    <3>2. QED
      BY <2>4, <3>1 DEF Abstract!Waiting, Passed
  <2>7. QED
    BY <2>3, <2>4, <2>5, <2>6
    DEF QueueStep, Abstract!Next, Abstract!vars, Abstract!Enter, Abstract!Switch,
        Abstract!Leave
<1>3. QED
  BY <1>1, <1>2, SchedAlways, PTL DEF SchedSpec, RunQueueSpec, Abstract!Spec
=============================================================================
