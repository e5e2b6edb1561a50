-------------------------- MODULE InterruptsProofs --------------------------
(***************************************************************************)
(* Proofs about module Interrupts, for every set of devices and exceptions. *)
(*                                                                         *)
(* The invariant describes the stack of activations: below may lie one     *)
(* handler that returns, and everything above is an exception, which never *)
(* does.  Interrupts are off in all of them, so nothing else can come on   *)
(* top, and the bits in service are those of the lowest one.               *)
(***************************************************************************)
EXTENDS Interrupts, SequenceTheorems, TLAPS

\* The in-service bits that vector v may have set.
LinesOf(v) ==
  IF v \in 32 .. 39 THEN {v - 32}
  ELSE IF v \in 40 .. 47 THEN {v - 32, CASCADE}
  ELSE {}

Layers ==
  \A k \in Depth :
    /\ k > 1 => acts[k].vector < 32
    /\ acts[k].vector < 32 => acts[k].phase \in {"entry", "handler", "halted"}
    /\ acts[k].phase \in {"keyboard", "command"} => acts[k].vector = 33
    /\ acts[k].lines \subseteq LinesOf(acts[k].vector)

FlagsKept ==
  IF acts = <<>> THEN interrupts = (boot = "on")
  ELSE interrupts = FALSE /\ acts[1].flag = (boot = "on")

Inv == TypeOK /\ Layers /\ FlagsKept /\ InServiceIsHandled /\ RequestPerByte

-----------------------------------------------------------------------------
(* The gate keeps a handler's address.                                     *)

\* A handler is where its gate says: the three parts in which idt_set_gate
\* stores an address make it up again, for every address of 64 bits.
THEOREM GateAddress ==
  ASSUME NEW base \in Nat, base < (WORD * WORD) * (WORD * WORD)
  PROVE  LET g == idt_set_gate(base)
         IN  base = g.base_low + WORD * (g.base_mid + WORD * g.base_high)
<1> DEFINE q == base \div WORD
           p == q \div WORD
<1>1. base = WORD * q + (base % WORD) /\ q \in Nat
  BY SMT DEF WORD
<1>2. q = WORD * p + (q % WORD) /\ p \in Nat
  BY <1>1, SMT DEF WORD
<1>3. p < WORD * WORD
  BY <1>1, <1>2, SMT DEF WORD
<1>4. p % (WORD * WORD) = p
  BY <1>2, <1>3, SMT DEF WORD
<1> QED  BY <1>1, <1>2, <1>4, SMT DEF idt_set_gate, WORD

-----------------------------------------------------------------------------
(* What the steps do to the activations.                                   *)

\* The handler that vector v has, as the gates of idt_init tell.
HandlerOf(v) ==
  /\ Gate(v).handler = "isr" <=> v < 32
  /\ Gate(v).handler = "irq" <=> v \in 32 .. 47
  /\ Gate(v).handler = "syscall" <=> v = SYSCALL

LEMMA GateHandler ==
  ASSUME NEW v \in 0 .. 255
  PROVE  HandlerOf(v) /\ Gate(v).flags % 2 = 0
<1>1. Gate(v).flags % 2 = 0
  BY SMT DEF Gate, SYSCALL
<1>2. Gate(v).handler = "isr" <=> v < 32
  BY SMT DEF Gate, SYSCALL
<1>3. Gate(v).handler = "irq" <=> v \in 32 .. 47
  BY SMT DEF Gate, SYSCALL
<1>4. Gate(v).handler = "syscall" <=> v = SYSCALL
  BY SMT DEF Gate, SYSCALL
<1> QED  BY <1>1, <1>2, <1>3, <1>4, Zenon DEF HandlerOf

\* What is known of the top, of the step that enters a handler, and of the
\* step to another phase.
TopFacts ==
  /\ Len(acts) \in Depth /\ Len(acts) \in Nat \ {0}
  /\ Top = acts[Len(acts)] /\ Top.vector \in 0 .. 255 /\ Top \in Activation
  /\ Depth = 1 .. Len(acts)

EnterFacts(v, lines) ==
  /\ acts' \in Seq(Activation)
  /\ Len(acts') = Len(acts) + 1 /\ Len(acts) \in Nat
  /\ \A k \in Depth : acts'[k] = acts[k]
  /\ acts'[Len(acts')] = [vector |-> v, phase |-> "entry",
                          flag |-> interrupts, lines |-> lines]
  /\ Depth' = 1 .. Len(acts) + 1 /\ Depth = 1 .. Len(acts)
  /\ interrupts' = FALSE
  /\ acts = <<>> <=> Len(acts) = 0

GotoFacts(ph) ==
  /\ acts' \in Seq(Activation)
  /\ Len(acts') = Len(acts) /\ acts' # <<>>
  /\ Depth' = Depth /\ Depth = 1 .. Len(acts) /\ Len(acts) \in Nat \ {0}
  /\ \A k \in Depth : /\ acts'[k].vector = acts[k].vector
                      /\ acts'[k].lines = acts[k].lines
                      /\ acts'[k].flag = acts[k].flag
                      /\ k # Len(acts) => acts'[k].phase = acts[k].phase
  /\ acts'[Len(acts)].phase = ph
  /\ acts'[Len(acts)].vector = Top.vector
  /\ acts'[Len(acts)].lines = Top.lines

LEMMA TopType ==
  ASSUME TypeOK, acts # <<>>
  PROVE  TopFacts
<1>1. /\ Len(acts) \in Depth /\ Len(acts) \in Nat \ {0}
      /\ Top \in Activation /\ Top = acts[Len(acts)]
      /\ Depth = 1 .. Len(acts)
  BY SMT DEF TypeOK, Top, Depth
<1>2. Top.vector \in 0 .. 255
  BY <1>1, Zenon DEF Activation
<1> QED  BY <1>1, <1>2 DEF TopFacts

LEMMA EnterActs ==
  ASSUME TypeOK, NEW v \in 0 .. 255, NEW lines \in SUBSET (Master \cup Slave),
         Enter(v, lines)
  PROVE  EnterFacts(v, lines)
<1> DEFINE a == [vector |-> v, phase |-> "entry", flag |-> interrupts, lines |-> lines]
<1>1. a \in Activation
  BY SMT DEF Activation, Phases, TypeOK
<1>2. acts \in Seq(Activation) /\ interrupts \in BOOLEAN /\ acts' = Append(acts, a)
  BY DEF TypeOK, Enter
<1>3. interrupts' = FALSE
  <2>0. Gate(v).flags % 2 = 0
    BY GateHandler, Zenon
  <2>1. Gate(v).flags % 2 # 1
    BY <2>0, SMT
  <2> QED  BY <2>1, Zenon DEF Enter
<1> HIDE DEF a
<1>4. /\ acts' \in Seq(Activation) /\ Len(acts') = Len(acts) + 1 /\ Len(acts) \in Nat
      /\ \A k \in 1 .. Len(acts) : acts'[k] = acts[k]
      /\ acts'[Len(acts) + 1] = a
      /\ DOMAIN acts' = 1 .. Len(acts) + 1 /\ DOMAIN acts = 1 .. Len(acts)
  BY <1>1, <1>2, AppendProperties, LenProperties, SMT
<1>5. acts = <<>> <=> Len(acts) = 0
  BY <1>2, EmptySeq, SMT
<1> QED  BY <1>3, <1>4, <1>5, SMT DEF a, Depth, EnterFacts

LEMMA GotoActs ==
  ASSUME TypeOK, acts # <<>>, NEW ph \in Phases, Goto(ph)
  PROVE  GotoFacts(ph)
<1>1. Len(acts) \in 1 .. Len(acts) /\ Top \in Activation /\ Depth = 1 .. Len(acts)
  BY TopType, SMT DEF TopFacts
<1>2. acts' = [acts EXCEPT ![Len(acts)] = [acts[Len(acts)] EXCEPT !.phase = ph]]
  BY DEF Goto
<1> DEFINE a == [acts[Len(acts)] EXCEPT !.phase = ph]
<1>3. /\ a \in Activation /\ a.phase = ph /\ a.vector = acts[Len(acts)].vector
      /\ a.lines = acts[Len(acts)].lines /\ a.flag = acts[Len(acts)].flag
  <2> DEFINE b == acts[Len(acts)]
  <2>1. b \in [vector : 0 .. 255, phase : Phases, flag : BOOLEAN,
                lines : SUBSET (Master \cup Slave)]
    BY <1>1 DEF Activation, Top
  <2> HIDE DEF b
  <2>2. /\ [b EXCEPT !.phase = ph] \in
             [vector : 0 .. 255, phase : Phases, flag : BOOLEAN,
              lines : SUBSET (Master \cup Slave)]
        /\ [b EXCEPT !.phase = ph].phase = ph
        /\ [b EXCEPT !.phase = ph].vector = b.vector
        /\ [b EXCEPT !.phase = ph].lines = b.lines
        /\ [b EXCEPT !.phase = ph].flag = b.flag
    BY <2>1, Zenon
  <2> QED  BY <2>2 DEF b, Activation
<1> HIDE DEF a
<1>4. acts' = [acts EXCEPT ![Len(acts)] = a]
  BY <1>2 DEF a
<1>5. acts' \in Seq(Activation) /\ Len(acts') = Len(acts)
  BY <1>1, <1>3, <1>4, ExceptSeq DEF TypeOK
<1>6. \A k \in 1 .. Len(acts) : acts'[k] = IF k = Len(acts) THEN a ELSE acts[k]
  BY <1>1, <1>4, LenProperties, SMT DEF TypeOK
<1>7. DOMAIN acts' = 1 .. Len(acts) /\ acts' # <<>> /\ Len(acts) \in Nat \ {0}
  BY <1>1, <1>5, LenProperties, SMT DEF TypeOK
<1>8. Depth' = Depth /\ Depth = 1 .. Len(acts)
  BY <1>1, <1>7 DEF Depth
<1>9. \A k \in Depth : /\ acts'[k].vector = acts[k].vector
                       /\ acts'[k].lines = acts[k].lines
                       /\ acts'[k].flag = acts[k].flag
                       /\ k # Len(acts) => acts'[k].phase = acts[k].phase
  BY <1>3, <1>6, <1>8
<1>10. /\ acts'[Len(acts)].phase = ph
       /\ acts'[Len(acts)].vector = Top.vector
       /\ acts'[Len(acts)].lines = Top.lines
  BY <1>1, <1>3, <1>6, Zenon DEF Top
<1> QED  BY <1>5, <1>7, <1>8, <1>9, <1>10 DEF GotoFacts

\* What returns lies alone at the bottom.
LEMMA AboveOnlyExceptions ==
  ASSUME TypeOK, Layers, acts # <<>>, Top.vector >= 32 \/ Top.phase \notin {"entry", "handler", "halted"}
  PROVE  Len(acts) = 1 /\ Depth = {1} /\ Top = acts[1] /\ Top.vector >= 32
<1>1. /\ Len(acts) \in Depth /\ Len(acts) \in Nat \ {0} /\ Top = acts[Len(acts)]
      /\ Depth = 1 .. Len(acts) /\ Top.vector \in 0 .. 255
  BY TopType DEF TopFacts
<1>0. \A n \in 0 .. 255 : n >= 32 <=> ~(n < 32)
  BY SMT
<1>2. Top.vector >= 32
  <2>0. Top.vector >= 32 \/ Top.phase \notin {"entry", "handler", "halted"}
    BY Zenon
  <2>1. CASE Top.vector >= 32
    BY <2>1
  <2>2. CASE Top.phase \notin {"entry", "handler", "halted"}
    <3>1. acts[Len(acts)].vector < 32 => acts[Len(acts)].phase \in {"entry", "handler", "halted"}
      BY <1>1, Zenon DEF Layers
    <3>2. ~(Top.vector < 32)
      BY <1>1, <2>2, <3>1, Zenon
    <3> QED  BY <1>0, <1>1, <3>2, Zenon
  <2> QED  BY <2>0, <2>1, <2>2, Zenon
<1>3. ~(Len(acts) > 1)
  <2>1. ~(Top.vector < 32)
    BY <1>0, <1>1, <1>2, Zenon
  <2> QED  BY <1>1, <2>1, Zenon DEF Layers
<1>4. Len(acts) = 1
  BY <1>1, <1>3, SMT
<1>5. 1 .. Len(acts) = {1}
  BY <1>4, SMT
<1> QED  BY <1>1, <1>2, <1>4, <1>5, Zenon

LEMMA EnterLayers ==
  ASSUME TypeOK, Layers, NEW v \in 0 .. 255, NEW lines \in SUBSET (Master \cup Slave),
         Enter(v, lines), acts # <<>> => v < 32, lines \subseteq LinesOf(v)
  PROVE  Layers'
<1>1. EnterFacts(v, lines)
  BY EnterActs
<1> USE <1>1 DEF EnterFacts
<1> SUFFICES ASSUME NEW k \in Depth'
             PROVE  /\ k > 1 => acts'[k].vector < 32
                    /\ acts'[k].vector < 32 => acts'[k].phase \in {"entry", "handler", "halted"}
                    /\ acts'[k].phase \in {"keyboard", "command"} => acts'[k].vector = 33
                    /\ acts'[k].lines \subseteq LinesOf(acts'[k].vector)
  BY DEF Layers
<1>2. CASE k \in Depth
  BY <1>2 DEF Layers
<1>3. CASE k = Len(acts')
  <2>1. k > 1 => v < 32
    BY <1>3, SMT
  <2>2. acts'[k].vector = v /\ acts'[k].phase = "entry" /\ acts'[k].lines = lines
    BY <1>3
  <2> QED  BY <2>1, <2>2
<1> QED  BY <1>2, <1>3, SMT

LEMMA GotoLayers ==
  ASSUME TypeOK, Layers, acts # <<>>, NEW ph \in Phases, Goto(ph),
         Top.vector < 32 => ph \in {"handler", "halted"},
         ph \in {"keyboard", "command"} => Top.vector = 33
  PROVE  Layers'
<1>1. TopFacts /\ GotoFacts(ph)
  BY TopType, GotoActs
<1> SUFFICES ASSUME NEW k \in Depth
             PROVE  /\ k > 1 => acts'[k].vector < 32
                    /\ acts'[k].vector < 32 => acts'[k].phase \in {"entry", "handler", "halted"}
                    /\ acts'[k].phase \in {"keyboard", "command"} => acts'[k].vector = 33
                    /\ acts'[k].lines \subseteq LinesOf(acts'[k].vector)
  BY <1>1 DEF Layers, GotoFacts
<1>2. CASE k = Len(acts)
  <2>1. /\ acts'[k].vector = Top.vector /\ acts'[k].lines = Top.lines /\ acts'[k].phase = ph
    BY <1>1, <1>2, Zenon DEF GotoFacts
  <2>2. (k > 1 => Top.vector < 32) /\ Top.lines \subseteq LinesOf(Top.vector)
    BY <1>1, <1>2, Zenon DEF Layers, TopFacts
  <2> QED  BY <2>1, <2>2, Zenon
<1>3. CASE k # Len(acts)
  <2>1. /\ acts'[k].phase = acts[k].phase /\ acts'[k].lines = acts[k].lines
        /\ acts'[k].vector = acts[k].vector
    BY <1>1, <1>3 DEF GotoFacts
  <2> QED  BY <2>1, Zenon DEF Layers
<1> QED  BY <1>2, <1>3

-----------------------------------------------------------------------------
(* The bits in service, and the handler that is going to read.             *)

ServedBy(a) == UNION {a[k].lines : k \in {d \in DOMAIN a : a[d].phase # "return"}}

ToRead == {"entry", "handler", "keyboard"}

LEMMA ServedByElement ==
  ASSUME NEW a, NEW x
  PROVE  x \in ServedBy(a) <=> \E k \in DOMAIN a : a[k].phase # "return" /\ x \in a[k].lines
BY Zenon DEF ServedBy

LEMMA EnterServed ==
  ASSUME TypeOK, NEW v \in 0 .. 255, NEW lines \in SUBSET (Master \cup Slave),
         Enter(v, lines)
  PROVE  ServedBy(acts') = ServedBy(acts) \cup lines
<1>0. EnterFacts(v, lines)
  BY EnterActs
<1> USE <1>0 DEF EnterFacts, Depth
<1> SUFFICES ASSUME NEW x
             PROVE  x \in ServedBy(acts') <=> x \in ServedBy(acts) \/ x \in lines
  OBVIOUS
<1>1. \A k \in DOMAIN acts' : k \in DOMAIN acts \/ k = Len(acts')
  BY SMT
<1>2. DOMAIN acts \subseteq DOMAIN acts' /\ Len(acts') \in DOMAIN acts'
  BY SMT
<1>3. acts'[Len(acts')].phase = "entry" /\ acts'[Len(acts')].lines = lines
  BY SMT
<1>4. \A k \in DOMAIN acts : acts'[k] = acts[k]
  OBVIOUS
<1>5. \A k \in DOMAIN acts' : acts'[k].phase # "return" /\ x \in acts'[k].lines
        => (\E j \in DOMAIN acts : acts[j].phase # "return" /\ x \in acts[j].lines) \/ x \in lines
  BY <1>1, <1>3, <1>4, Zenon
<1>6. (\E j \in DOMAIN acts : acts[j].phase # "return" /\ x \in acts[j].lines) \/ x \in lines
        => \E k \in DOMAIN acts' : acts'[k].phase # "return" /\ x \in acts'[k].lines
  <2>1. "entry" # "return"
    OBVIOUS
  <2> HIDE <1>0
  <2> QED  BY <2>1, <1>2, <1>3, <1>4, Zenon
<1> HIDE <1>0
<1> QED  BY <1>5, <1>6, ServedByElement, Zenon

LEMMA GotoServed ==
  ASSUME TypeOK, acts # <<>>, NEW ph \in Phases, Goto(ph),
         \/ ph # "return" /\ Top.phase # "return"
         \/ Top.lines = {}
  PROVE  ServedBy(acts') = ServedBy(acts)
<1>0. TopFacts /\ GotoFacts(ph)
  BY TopType, GotoActs
<1> SUFFICES ASSUME NEW x
             PROVE  x \in ServedBy(acts') <=> x \in ServedBy(acts)
  OBVIOUS
<1>1. ASSUME NEW k \in DOMAIN acts
      PROVE  acts'[k].phase # "return" /\ x \in acts'[k].lines
               <=> acts[k].phase # "return" /\ x \in acts[k].lines
  <2>1. CASE k = Len(acts)
    <3>1. acts'[k].phase = ph /\ acts'[k].lines = Top.lines /\ acts[k] = Top
      BY <1>0, <2>1, Zenon DEF TopFacts, GotoFacts
    <3> QED  BY <3>1, Zenon
  <2>2. CASE k # Len(acts)
    <3>1. acts'[k].phase = acts[k].phase /\ acts'[k].lines = acts[k].lines
      BY <1>0, <2>2 DEF GotoFacts, Depth
    <3> QED  BY <3>1, Zenon
  <2> QED  BY <2>1, <2>2, Zenon
<1>2. DOMAIN acts' = DOMAIN acts
  BY <1>0 DEF GotoFacts, Depth
<1> QED  BY <1>1, <1>2, ServedByElement, Zenon

LEMMA EnterReading ==
  ASSUME TypeOK, NEW v \in 0 .. 255, NEW lines \in SUBSET (Master \cup Slave),
         Enter(v, lines)
  PROVE  Reading' <=> Reading \/ v = 33
<1>0. EnterFacts(v, lines)
  BY EnterActs
<1> USE <1>0 DEF EnterFacts
<1>1. \A k \in Depth' : k \in Depth \/ k = Len(acts')
  BY SMT
<1>2. Depth \subseteq Depth' /\ Len(acts') \in Depth'
  BY SMT
<1>3. acts'[Len(acts')].phase = "entry" /\ acts'[Len(acts')].vector = v
  BY SMT
<1>4. 32 + KEYBOARD = 33
  BY SMT DEF KEYBOARD
<1> DEFINE Reads(a, k) == a[k].vector = 33 /\ a[k].phase \in {"entry", "handler", "keyboard"}
<1>5. \A k \in Depth : Reads(acts', k) <=> Reads(acts, k)
  OBVIOUS
<1>6. Reads(acts', Len(acts')) <=> v = 33
  BY <1>3, Zenon
<1>7. Reading <=> \E k \in Depth : Reads(acts, k)
  BY <1>4, Zenon DEF Reading
<1>8. Reading' <=> \E k \in Depth' : Reads(acts', k)
  BY <1>4, Zenon DEF Reading
<1> HIDE <1>0 DEF Reads
<1> QED  BY <1>1, <1>2, <1>5, <1>6, <1>7, <1>8, Zenon

LEMMA GotoReading ==
  ASSUME TypeOK, acts # <<>>, NEW ph \in Phases, Goto(ph),
         Top.vector = 33 => (ph \in ToRead <=> Top.phase \in ToRead)
  PROVE  Reading' <=> Reading
<1>0. TopFacts /\ GotoFacts(ph)
  BY TopType, GotoActs
<1>1. ASSUME NEW k \in Depth
      PROVE  acts'[k].vector = 33 /\ acts'[k].phase \in ToRead
               <=> acts[k].vector = 33 /\ acts[k].phase \in ToRead
  <2>1. CASE k = Len(acts)
    <3>1. acts'[k].phase = ph /\ acts'[k].vector = Top.vector /\ acts[k] = Top
      BY <1>0, <2>1, Zenon DEF TopFacts, GotoFacts
    <3> QED  BY <3>1, Zenon
  <2>2. CASE k # Len(acts)
    <3>1. acts'[k].phase = acts[k].phase /\ acts'[k].vector = acts[k].vector
      BY <1>0, <2>2 DEF GotoFacts
    <3> QED  BY <3>1, Zenon
  <2> QED  BY <2>1, <2>2, Zenon
<1>2. 32 + KEYBOARD = 33
  BY SMT DEF KEYBOARD
<1>3. Depth' = Depth
  BY <1>0 DEF GotoFacts
<1> QED  BY <1>1, <1>2, <1>3, Zenon DEF Reading, ToRead

\* What every step that enters a handler, and every one to another phase,
\* leaves of the invariant to look at.
Common ==
  /\ acts' \in Seq(Activation) /\ interrupts' = FALSE
  /\ Layers' /\ FlagsKept'

\* The invariant, put together from what a step keeps.
LEMMA InvParts ==
  ASSUME Common, TypeOK', InServiceIsHandled', RequestPerByte'
  PROVE  Inv'
<1>1. Layers' /\ FlagsKept'
  BY DEF Common
<1> QED  BY <1>1 DEF Inv

LEMMA TopGate ==
  ASSUME TypeOK, acts # <<>>
  PROVE  TopFacts /\ Top.vector \in 0 .. 255 /\ HandlerOf(Top.vector)
<1>1. TopFacts
  BY TopType
<1>2. Top.vector \in 0 .. 255
  BY <1>1 DEF TopFacts
<1> QED  BY <1>1, <1>2, GateHandler, Zenon

LEMMA EnterKeeps ==
  ASSUME Inv, NEW v \in 0 .. 255, NEW lines \in SUBSET (Master \cup Slave),
         Enter(v, lines), acts # <<>> => v < 32, lines \subseteq LinesOf(v),
         UNCHANGED boot
  PROVE  /\ Common
         /\ ServedBy(acts') = ServedBy(acts) \cup lines
         /\ Reading' <=> Reading \/ v = 33
<1>1. EnterFacts(v, lines)
  BY EnterActs DEF Inv
<1>2. Layers'
  BY EnterLayers DEF Inv
<1>3. ServedBy(acts') = ServedBy(acts) \cup lines /\ (Reading' <=> Reading \/ v = 33)
  BY EnterServed, EnterReading DEF Inv
<1>4. acts' # <<>>
  BY <1>1, EmptySeq, SMT DEF EnterFacts
<1>5. acts'[1].flag = (boot = "on")
  <2>1. CASE acts = <<>>
    <3>1. interrupts = (boot = "on") /\ Len(acts) + 1 = 1
      BY <1>1, <2>1, SMT DEF Inv, FlagsKept, EnterFacts
    <3>2. acts'[1] = [vector |-> v, phase |-> "entry", flag |-> interrupts, lines |-> lines]
      BY <1>1, <3>1 DEF EnterFacts
    <3>3. acts'[1].flag = interrupts
      BY <3>2
    <3> QED  BY <3>1, <3>3, Zenon
  <2>2. CASE acts # <<>>
    <3>1. 1 \in Depth
      BY <1>1, <2>2, SMT DEF EnterFacts
    <3>2. acts'[1] = acts[1]
      BY <1>1, <3>1 DEF EnterFacts
    <3> QED  BY <2>2, <3>2, Zenon DEF Inv, FlagsKept
  <2> QED  BY <2>1, <2>2, Zenon
<1>6. FlagsKept'
  BY <1>1, <1>4, <1>5, Zenon DEF FlagsKept, EnterFacts
<1> QED  BY <1>1, <1>2, <1>3, <1>6, Zenon DEF Common, EnterFacts

LEMMA GotoKeeps ==
  ASSUME Inv, acts # <<>>, NEW ph \in Phases, Goto(ph), UNCHANGED boot,
         interrupts' = interrupts \/ interrupts' = FALSE,
         Top.vector < 32 => ph \in {"handler", "halted"},
         ph \in {"keyboard", "command"} => Top.vector = 33
  PROVE  Common
<1>1. TopFacts /\ GotoFacts(ph) /\ Layers'
  BY TopType, GotoActs, GotoLayers DEF Inv
<1>2. interrupts = FALSE /\ acts[1].flag = (boot = "on")
  BY Zenon DEF Inv, FlagsKept
<1>3. 1 \in Depth
  BY <1>1, SMT DEF TopFacts
<1>4. acts'[1].flag = acts[1].flag /\ acts' # <<>> /\ acts' \in Seq(Activation)
  BY <1>1, <1>3, Zenon DEF GotoFacts
<1> QED  BY <1>1, <1>2, <1>4, Zenon DEF Common, FlagsKept

LEMMA EmptyActs ==
  /\ ServedBy(<<>>) = {}
  /\ \A k \in DOMAIN <<>> : FALSE
<1>1. DOMAIN <<>> = {}
  BY SMT
<1> QED  BY <1>1, Zenon DEF ServedBy

LEMMA ReturnKeeps ==
  ASSUME Inv, acts # <<>>, Top.phase = "return", NEW flag, flag = Top.flag,
         Return(flag)
  PROVE  /\ acts' = <<>> /\ interrupts' = (boot = "on")
         /\ ServedBy(acts) = {} /\ ~Reading
<1>1. Len(acts) = 1 /\ Depth = {1} /\ Top = acts[1]
  <2>1. Top.phase \notin {"entry", "handler", "halted"}
    OBVIOUS
  <2> QED  BY <2>1, AboveOnlyExceptions, Zenon DEF Inv
<1>2. acts' = <<>>
  <2>1. acts' = SubSeq(acts, 1, 0)
    BY <1>1, SMT DEF Return
  <2> QED  BY <2>1, SubSeqEmpty, SMT DEF Inv, TypeOK
<1>3. interrupts' = (boot = "on")
  BY <1>1, Zenon DEF Return, Inv, FlagsKept
<1>4. ServedBy(acts) = {}
  BY <1>1, Zenon DEF ServedBy, Depth
<1>5. ~Reading
  <2>1. "return" \notin {"entry", "handler", "keyboard"}
    OBVIOUS
  <2> QED  BY <1>1, <2>1, Zenon DEF Reading
<1> QED  BY <1>2, <1>3, <1>4, <1>5

LEMMA SameActs ==
  ASSUME Inv, UNCHANGED <<acts, interrupts, boot>>
  PROVE  /\ Layers' /\ FlagsKept'
         /\ ServedBy(acts') = ServedBy(acts)
         /\ Reading' <=> Reading
BY DEF Inv, Layers, FlagsKept, Depth, Reading

LEMMA Constants ==
  /\ KEYBOARD = 1 /\ CASCADE = 2 /\ NMI = 2 /\ SYSCALL = 128
  /\ Master = 0 .. 7 /\ Slave = 8 .. 15
  /\ Irqs \subseteq 0 .. 15 /\ 1 \notin Irqs
  /\ Faults \subseteq 0 .. 31 /\ Others \subseteq 48 .. 255
  /\ 128 \notin Others
  /\ Master \cup Slave = 0 .. 15
BY InterruptsAssumption, SMT DEF KEYBOARD, CASCADE, NMI, SYSCALL, Master, Slave

-----------------------------------------------------------------------------
(* The steps.                                                              *)

LEMMA InitInv ==
  ASSUME Init
  PROVE  Inv
<1>1. TypeOK
  <2>1. <<>> \in Seq(Activation)
    BY EmptySeq
  <2>2. 0 \in 0 .. MaxHeld
    BY InterruptsAssumption, SMT
  <2> QED  BY <2>1, <2>2, Zenon DEF Init, TypeOK
<1>2. Layers
  BY EmptyActs, Zenon DEF Init, Layers, Depth
<1>3. FlagsKept
  BY Zenon DEF Init, FlagsKept
<1>4. InServiceIsHandled
  BY EmptyActs, Zenon DEF Init, InServiceIsHandled, ServedBy, Depth
<1>5. RequestPerByte
  BY Zenon DEF Init, RequestPerByte
<1> QED  BY <1>1, <1>2, <1>3, <1>4, <1>5 DEF Inv

LEMMA BootInv ==
  ASSUME Inv, Boot
  PROVE  Inv'
<1>1. acts = <<>> /\ acts' = <<>>
  BY Zenon DEF Boot, IdtInit, PicRemap, Sti
<1>2. ServedBy(acts) = {} /\ ~Reading /\ ~Reading' /\ Layers'
  BY <1>1, EmptyActs, Zenon DEF Reading, Layers, Depth
<1>3. in_service = {} /\ interrupts = (boot = "on")
  BY <1>1, <1>2, Zenon DEF Inv, InServiceIsHandled, ServedBy, Depth, FlagsKept
<1>4. in_service' = {}
  BY <1>3, Zenon DEF Boot, IdtInit, PicRemap, Sti, pic
<1>5. InServiceIsHandled'
  BY <1>1, <1>4, EmptyActs, Zenon DEF InServiceIsHandled, ServedBy, Depth
<1>6. CASE IdtInit
  <2>1. TypeOK'
    BY <1>6, SMT DEF IdtInit, Inv, TypeOK, pic, controller
  <2>2. FlagsKept'
    BY <1>1, <1>3, <1>6, Zenon DEF IdtInit, FlagsKept
  <2>3. RequestPerByte'
    BY <1>6, Zenon DEF IdtInit, RequestPerByte
  <2> QED  BY <1>2, <1>5, <2>1, <2>2, <2>3, Zenon DEF Inv
<1>7. CASE PicRemap
  <2>1. TypeOK'
    BY <1>7, SMT DEF PicRemap, Inv, TypeOK, controller
  <2>2. FlagsKept'
    BY <1>1, <1>3, <1>7, Zenon DEF PicRemap, FlagsKept
  <2>3. requested' = {} /\ stale' = buffer_full /\ buffer_full' = buffer_full
    BY <1>7, Zenon DEF PicRemap, controller
  <2>4. buffer_full \in BOOLEAN /\ KEYBOARD \notin requested'
    BY <2>3 DEF Inv, TypeOK
  <2>5. RequestPerByte'
    BY <1>2, <2>3, <2>4, Zenon DEF RequestPerByte
  <2> QED  BY <1>2, <1>5, <2>1, <2>2, <2>5, Zenon DEF Inv
<1>8. CASE Sti
  <2>1. TypeOK'
    BY <1>8, SMT DEF Sti, Inv, TypeOK, pic, controller
  <2>2. FlagsKept'
    BY <1>1, <1>8, Zenon DEF Sti, FlagsKept
  <2>3. RequestPerByte'
    BY <1>2, <1>8, Zenon DEF Sti, pic, controller, Inv, RequestPerByte
  <2> QED  BY <1>2, <1>5, <2>1, <2>2, <2>3, Zenon DEF Inv
<1> QED  BY <1>6, <1>7, <1>8, Zenon DEF Boot

LEMMA DriverInv ==
  ASSUME Inv, NEW i \in Irqs \cup {KEYBOARD, CASCADE}, EnableIrq(i) \/ DisableIrq(i)
  PROVE  Inv'
<1>1. i \in Master \cup Slave
  BY Constants, SMT
<1>2. UNCHANGED <<boot, interrupts, acts, requested, in_service, buffer_full, held, stale>>
  BY Zenon DEF EnableIrq, DisableIrq, controller
<1>3. masked' = masked \ {i} \/ masked' = masked \cup {i}
  BY Zenon DEF EnableIrq, DisableIrq
<1>4. TypeOK'
  BY <1>1, <1>2, <1>3, SMT DEF Inv, TypeOK
<1>5. Layers' /\ FlagsKept' /\ (Reading' <=> Reading)
  BY <1>2, SameActs
<1>6. InServiceIsHandled'
  BY <1>2, SMT DEF Inv, InServiceIsHandled, Depth
<1>7. RequestPerByte'
  BY <1>2, <1>5, Zenon DEF Inv, RequestPerByte
<1> QED  BY <1>4, <1>5, <1>6, <1>7, Zenon DEF Inv

LEMMA HardwareInv ==
  ASSUME Inv, Hardware
  PROVE  Inv'
<1>1. UNCHANGED <<boot, interrupts, acts, masked, in_service, stale>>
  BY Zenon DEF Hardware, Key, Fetch, Device, pic, controller
<1>2. Layers' /\ FlagsKept' /\ (Reading' <=> Reading)
  BY <1>1, SameActs
<1>3. InServiceIsHandled'
  BY <1>1, SMT DEF Inv, InServiceIsHandled, Depth
<1>4. CASE Key
  <2>1. TypeOK'
    BY <1>4, InterruptsAssumption, SMT DEF Key, Inv, TypeOK, pic
  <2>2. RequestPerByte'
    BY <1>2, <1>4, Zenon DEF Key, pic, Inv, RequestPerByte
  <2> QED  BY <1>2, <1>3, <2>1, <2>2, Zenon DEF Inv
<1>5. CASE Fetch
  <2>1. TypeOK'
    <3>1. held' \in 0 .. MaxHeld
      BY <1>5, InterruptsAssumption, SMT DEF Fetch, Inv, TypeOK
    <3>2. requested' \subseteq Irqs \cup {KEYBOARD}
      BY <1>5, Zenon DEF Fetch, Inv, TypeOK
    <3>3. buffer_full' \in BOOLEAN
      BY <1>5 DEF Fetch
    <3> QED  BY <1>1, <3>1, <3>2, <3>3, Zenon DEF Inv, TypeOK
  <2>2. buffer_full' = TRUE /\ KEYBOARD \in requested' /\ ~buffer_full
    BY <1>5 DEF Fetch
  <2>3. RequestPerByte'
    BY <1>1, <1>2, <2>2, Zenon DEF Inv, RequestPerByte
  <2> QED  BY <1>2, <1>3, <2>1, <2>3, Zenon DEF Inv
<1>6. CASE \E i \in Irqs : Device(i)
  <2> PICK i \in Irqs : Device(i)
    BY <1>6
  <2>1. TypeOK'
    BY SMT DEF Device, Inv, TypeOK, controller
  <2>2. i # KEYBOARD
    BY Constants
  <2>3. (KEYBOARD \in requested' <=> KEYBOARD \in requested) /\ buffer_full' = buffer_full
    BY <2>2 DEF Device, controller
  <2>4. RequestPerByte'
    BY <1>1, <1>2, <2>3, Zenon DEF Inv, RequestPerByte
  <2> QED  BY <1>2, <1>3, <2>1, <2>4, Zenon DEF Inv
<1> QED  BY <1>4, <1>5, <1>6, Zenon DEF Hardware

\* A handler is entered with in-service bits only when interrupts are on.
LEMMA InterruptsOn ==
  ASSUME Inv, interrupts
  PROVE  acts = <<>> /\ boot = "on" /\ in_service = {} /\ ~Reading
<1>1. acts = <<>> /\ boot = "on"
  BY Zenon DEF Inv, FlagsKept
<1>2. in_service = {}
  BY <1>1, EmptyActs, Zenon DEF Inv, InServiceIsHandled, ServedBy, Depth
<1>3. ~Reading
  BY <1>1, EmptyActs, Zenon DEF Reading, Depth
<1> QED  BY <1>1, <1>2, <1>3

LEMMA AcknowledgeInv ==
  ASSUME Inv, NEW i \in Irqs \cup {KEYBOARD}, Acknowledge(i)
  PROVE  Inv'
<1>1. acts = <<>> /\ boot = "on" /\ in_service = {} /\ ~Reading
  BY InterruptsOn DEF Acknowledge
<1>2. i \in 0 .. 15 /\ 32 + i \in 0 .. 255 /\ Vector(i) = 32 + i
  BY <1>1, Constants, SMT DEF Vector
<1>3. Bits(i) \subseteq Master \cup Slave /\ Bits(i) \subseteq LinesOf(32 + i)
  <2>1. Bits(i) = {i} \/ (i \in 8 .. 15 /\ Bits(i) = {i, 2})
    <3>1. i \in 8 .. 15 => MasterLine(i) = 2
      BY Constants, Zenon DEF MasterLine
    <3>2. i \notin 8 .. 15 => MasterLine(i) = i
      BY Constants, Zenon DEF MasterLine
    <3> QED  BY <3>1, <3>2 DEF Bits
  <2>2. i \in 0 .. 7 => LinesOf(32 + i) = {i}
    BY SMT DEF LinesOf
  <2>3. i \in 8 .. 15 => LinesOf(32 + i) = {i, 2}
    BY Constants, SMT DEF LinesOf
  <2>4. i \in 0 .. 7 \/ i \in 8 .. 15
    BY <1>2, SMT
  <2>5. Bits(i) \subseteq 0 .. 15
    BY <2>1, <1>2, SMT
  <2> QED  BY <2>1, <2>2, <2>3, <2>4, <2>5, Constants, Zenon
<1>4. Enter(32 + i, Bits(i)) /\ UNCHANGED boot
  BY <1>2, Zenon DEF Acknowledge
<1>5. /\ Common
      /\ ServedBy(acts') = ServedBy(acts) \cup Bits(i)
      /\ Reading' <=> Reading \/ 32 + i = 33
  BY <1>1, <1>2, <1>3, <1>4, EnterKeeps, Zenon
<1>6. UNCHANGED <<boot, masked, buffer_full, held, stale>>
  BY DEF Acknowledge, controller
<1>7. requested' = requested \ {i} /\ in_service' = in_service \cup Bits(i) /\ i \in requested
  BY DEF Acknowledge, Pending
<1>8. TypeOK'
  BY <1>3, <1>5, <1>6, <1>7, Zenon DEF Inv, TypeOK, Common
<1>9. InServiceIsHandled'
  <2>1. in_service' = ServedBy(acts')
    BY <1>1, <1>5, <1>7, EmptyActs
  <2> QED  BY <2>1, Zenon DEF InServiceIsHandled, ServedBy, Depth
<1>10. RequestPerByte'
  <2>1. 32 + i = 33 <=> i = KEYBOARD
    BY <1>2, Constants, SMT
  <2>2. KEYBOARD \in requested' <=> KEYBOARD \in requested /\ i # KEYBOARD
    BY <1>7
  <2> QED  BY <1>1, <1>5, <1>6, <1>7, <2>1, <2>2, Zenon DEF Inv, RequestPerByte
<1> QED  BY <1>5, <1>8, <1>9, <1>10, InvParts

LEMMA SpuriousInv ==
  ASSUME Inv, NEW i \in {7, 15}, Spurious(i)
  PROVE  Inv'
<1>1. acts = <<>> /\ boot = "on" /\ in_service = {} /\ ~Reading
  BY InterruptsOn DEF Spurious
<1>2. /\ 32 + i \in 0 .. 255 /\ Vector(i) = 32 + i /\ 32 + i # 33
      /\ 32 + i \in 40 .. 47 \/ i = 7
  BY <1>1, SMT DEF Vector
<1> DEFINE lines == Bits(i) \ {i}
<1>3. lines \subseteq Master \cup Slave /\ lines \subseteq LinesOf(32 + i)
  <2>1. lines \subseteq IF i = 15 THEN {CASCADE} ELSE {}
    BY Constants, SMT DEF Bits, MasterLine
  <2>2. i = 15 => LinesOf(32 + i) = {i, CASCADE}
    BY SMT DEF LinesOf
  <2>3. CASCADE \in Master
    BY Constants, SMT
  <2> QED  BY <2>1, <2>2, <2>3, Zenon
<1>4. Enter(32 + i, lines) /\ UNCHANGED boot
  BY <1>2, Zenon DEF Spurious
<1>5. in_service' = in_service \cup lines
  BY DEF Spurious
<1> HIDE DEF lines
<1>6. /\ Common
      /\ ServedBy(acts') = ServedBy(acts) \cup lines
      /\ Reading' <=> Reading \/ 32 + i = 33
  BY <1>1, <1>2, <1>3, <1>4, EnterKeeps, Zenon
<1>7. UNCHANGED <<boot, requested, masked, buffer_full, held, stale>>
  BY DEF Spurious, controller
<1>8. TypeOK'
  BY <1>3, <1>5, <1>6, <1>7, Zenon DEF Inv, TypeOK, Common
<1>9. InServiceIsHandled'
  <2>1. in_service' = ServedBy(acts')
    BY <1>1, <1>5, <1>6, EmptyActs
  <2> QED  BY <2>1, Zenon DEF InServiceIsHandled, ServedBy, Depth
<1>10. RequestPerByte'
  BY <1>2, <1>6, <1>7, Zenon DEF Inv, RequestPerByte
<1> QED  BY <1>6, <1>8, <1>9, <1>10, InvParts

LEMMA RequestKept ==
  ASSUME RequestPerByte, Reading' <=> Reading,
         UNCHANGED <<boot, requested, buffer_full, stale>>
  PROVE  RequestPerByte'
BY Zenon DEF RequestPerByte

LEMMA ExceptionInv ==
  ASSUME Inv, NEW v \in 0 .. 255, v # 33, acts # <<>> => v < 32,
         Enter(v, {}), UNCHANGED <<boot, pic, controller, stale>>
  PROVE  Inv'
<1>1. /\ Common
      /\ ServedBy(acts') = ServedBy(acts) \cup {}
      /\ Reading' <=> Reading \/ v = 33
  BY EnterKeeps
<1>2. UNCHANGED <<boot, requested, masked, in_service, buffer_full, held, stale>>
  BY DEF pic, controller
<1>3. TypeOK'
  BY <1>1, <1>2, Zenon DEF Inv, TypeOK, Common
<1>4. InServiceIsHandled'
  <2>1. in_service = ServedBy(acts)
    BY DEF Inv, InServiceIsHandled, ServedBy, Depth
  <2>2. in_service' = ServedBy(acts')
    BY <1>1, <1>2, <2>1
  <2> QED  BY <2>2, Zenon DEF InServiceIsHandled, ServedBy, Depth
<1>5. RequestPerByte'
  <2>1. RequestPerByte /\ UNCHANGED <<boot, requested, buffer_full, stale>>
    BY <1>2 DEF Inv
  <2>2. Reading' <=> Reading
    BY <1>1
  <2> QED  BY <2>1, <2>2, RequestKept
<1> QED  BY <1>1, <1>3, <1>4, <1>5, InvParts

LEMMA InterruptedInv ==
  ASSUME Inv, Interrupted
  PROVE  Inv'
<1>1. CASE \E i \in Irqs \cup {KEYBOARD} : Acknowledge(i)
  BY <1>1, AcknowledgeInv
<1>2. CASE \E i \in {7, 15} : Spurious(i)
  BY <1>2, SpuriousInv
<1>3. CASE NonMaskable
  <2>1. NMI \in 0 .. 255 /\ NMI # 33 /\ NMI < 32
    BY Constants, SMT
  <2> QED  BY <1>3, <2>1, ExceptionInv DEF NonMaskable
<1>4. CASE \E v \in Faults : Fault(v)
  <2> PICK v \in Faults : Fault(v)
    BY <1>4
  <2>1. v \in 0 .. 255 /\ v # 33 /\ v < 32
    BY Constants, SMT
  <2> QED  BY <2>1, ExceptionInv DEF Fault
<1>5. CASE \E v \in Others \cup {SYSCALL} : SoftwareInterrupt(v)
  <2> PICK v \in Others \cup {SYSCALL} : SoftwareInterrupt(v)
    BY <1>5
  <2>1. v \in 0 .. 255 /\ v # 33
    BY Constants, SMT
  <2>2. acts = <<>>
    BY DEF SoftwareInterrupt, Program
  <2> QED  BY <2>1, <2>2, ExceptionInv DEF SoftwareInterrupt
<1> QED  BY <1>1, <1>2, <1>3, <1>4, <1>5, Zenon DEF Interrupted

\* A phase that sets no bit and reads nothing.
LEMMA PhaseInv ==
  ASSUME Inv, acts # <<>>, NEW ph \in Phases, Goto(ph),
         UNCHANGED <<boot, pic, controller, stale>>,
         interrupts' = interrupts \/ interrupts' = FALSE,
         Top.vector < 32 => ph \in {"handler", "halted"},
         ph \in {"keyboard", "command"} => Top.vector = 33,
         (ph # "return" /\ Top.phase # "return") \/ Top.lines = {},
         Top.vector = 33 => (ph \in ToRead <=> Top.phase \in ToRead)
  PROVE  Inv'
<1>1. /\ Common
      /\ ServedBy(acts') = ServedBy(acts)
      /\ Reading' <=> Reading
  BY GotoKeeps, GotoServed, GotoReading DEF Inv
<1>2. UNCHANGED <<boot, requested, masked, in_service, buffer_full, held, stale>>
  BY DEF pic, controller
<1>3. TypeOK'
  BY <1>1, <1>2, Zenon DEF Inv, TypeOK, Common
<1>4. InServiceIsHandled'
  <2>1. in_service = ServedBy(acts)
    BY DEF Inv, InServiceIsHandled, ServedBy, Depth
  <2>2. in_service' = ServedBy(acts')
    BY <1>1, <1>2, <2>1
  <2> QED  BY <2>2, Zenon DEF InServiceIsHandled, ServedBy, Depth
<1>5. RequestPerByte'
  <2>1. RequestPerByte /\ UNCHANGED <<boot, requested, buffer_full, stale>>
    BY <1>2 DEF Inv
  <2>2. Reading' <=> Reading
    BY <1>1
  <2> QED  BY <2>1, <2>2, RequestKept
<1> QED  BY <1>1, <1>3, <1>4, <1>5, InvParts

\* What the handlers without in-service bits have in common.
LEMMA NoLines ==
  ASSUME Inv, acts # <<>>, Top.vector \notin 32 .. 47
  PROVE  Top.lines = {}
<1>0. TypeOK /\ Layers
  BY DEF Inv
<1>1. Len(acts) \in Depth /\ Top = acts[Len(acts)] /\ Top.vector \in 0 .. 255
  BY <1>0, TopType DEF TopFacts
<1>2. Top.lines \subseteq LinesOf(Top.vector)
  <2>1. acts[Len(acts)].lines \subseteq LinesOf(acts[Len(acts)].vector)
    BY <1>0, <1>1 DEF Layers
  <2> QED  BY <1>1, <2>1
<1>3. LinesOf(Top.vector) = {}
  <2>1. \A w \in 0 .. 255 : w \notin 32 .. 47 => w \notin 32 .. 39 /\ w \notin 40 .. 47
    BY SMT
  <2>2. Top.vector \in 0 .. 255
    BY <1>1
  <2>3. Top.vector \notin 32 .. 39 /\ Top.vector \notin 40 .. 47
    BY <2>1, <2>2
  <2> QED  BY <2>3, Zenon DEF LinesOf
<1> QED  BY <1>2, <1>3

LEMMA PhaseFacts ==
  /\ Phases = {"entry", "handler", "keyboard", "command", "eoi", "return", "halted"}
  /\ ToRead = {"entry", "handler", "keyboard"}
BY DEF Phases, ToRead

LEMMA StubInv ==
  ASSUME Inv, Stub
  PROVE  Inv'
<1>1. acts # <<>> /\ Top.phase = "entry" /\ Goto("handler")
  BY DEF Stub
<1>2. UNCHANGED <<interrupts, boot, pic, controller, stale>>
  BY DEF Stub
<1> QED  BY <1>1, <1>2, PhaseInv, PhaseFacts, Zenon

LEMMA IsrInv ==
  ASSUME Inv, acts # <<>>, IsrHandler(Top.vector)
  PROVE  Inv'
<1>1. TopFacts /\ Top.vector \in 0 .. 255
  BY TopType DEF Inv, TopFacts
<1>2. Top.phase = "handler" /\ Top.vector \notin 32 .. 47
  <2>1. Gate(Top.vector).handler \in {"isr", "default"} /\ Top.phase = "handler"
    BY DEF IsrHandler, In
  <2>2. Top.vector \in 32 .. 47 => Gate(Top.vector).handler = "irq"
    BY TopGate DEF Inv, HandlerOf
  <2> QED  BY <2>1, <2>2
<1>3. Top.lines = {} /\ Top.vector # 33
  <2>1. 33 \in 32 .. 47
    BY SMT
  <2> QED  BY <1>2, <2>1, NoLines, Zenon
<1>4. Goto(IF Top.vector < 32 THEN "halted" ELSE "return")
  BY DEF IsrHandler
<1>5. UNCHANGED <<interrupts, boot, pic, controller, stale>>
  BY DEF IsrHandler
<1>6. CASE Top.vector < 32
  BY <1>3, <1>4, <1>5, <1>6, PhaseInv, PhaseFacts, Zenon
<1>7. CASE ~(Top.vector < 32)
  BY <1>3, <1>4, <1>5, <1>7, PhaseInv, PhaseFacts, Zenon
<1> QED  BY <1>6, <1>7, Zenon

LEMMA IrqVector ==
  ASSUME Inv, NEW ph, In("irq", ph)
  PROVE  /\ acts # <<>> /\ Top.phase = ph /\ Top.vector \in 32 .. 47
         /\ ~(Top.vector < 32)
         /\ Len(acts) = 1 /\ Depth = {1} /\ Top = acts[1]
<1>1. acts # <<>> /\ Top.phase = ph /\ Gate(Top.vector).handler = "irq"
  BY DEF In
<1>2. TypeOK
  BY DEF Inv
<1>3. Top.vector \in 32 .. 47
  BY <1>1, <1>2, TopGate DEF HandlerOf
<1>4. \A w \in 32 .. 47 : w >= 32 /\ ~(w < 32)
  BY SMT
<1> QED  BY <1>1, <1>3, <1>4, AboveOnlyExceptions, Zenon DEF Inv

LEMMA IrqInv ==
  ASSUME Inv, acts # <<>>, IrqHandler(Top.vector)
  PROVE  Inv'
<1>1. Top.phase = "handler" /\ ~(Top.vector < 32)
  BY IrqVector DEF IrqHandler
<1>2. Goto(IF Top.vector = 33 THEN "keyboard" ELSE "eoi")
  BY DEF IrqHandler
<1>3. UNCHANGED <<interrupts, boot, pic, controller, stale>>
  BY DEF IrqHandler
<1>4. CASE Top.vector = 33
  BY <1>1, <1>2, <1>3, <1>4, PhaseInv, PhaseFacts, Zenon
<1>5. CASE Top.vector # 33
  BY <1>1, <1>2, <1>3, <1>5, PhaseInv, PhaseFacts, Zenon
<1> QED  BY <1>4, <1>5, Zenon

LEMMA CommandInv ==
  ASSUME Inv, Command
  PROVE  Inv'
<1>1. acts # <<>> /\ Top.phase = "command" /\ ~(Top.vector < 32)
  BY IrqVector DEF Command
<1>2. UNCHANGED <<boot, pic, controller, stale>>
  BY DEF Command
<1>3. \/ Goto("eoi") /\ interrupts' = interrupts
      \/ Goto("halted") /\ interrupts' = FALSE
  BY DEF Command
<1> QED  BY <1>1, <1>2, <1>3, PhaseInv, PhaseFacts, Zenon

LEMMA DispatchInv ==
  ASSUME Inv, Dispatch
  PROVE  Inv'
<1>1. acts # <<>> /\ Top.phase = "handler" /\ Gate(Top.vector).handler = "syscall"
  BY DEF Dispatch, In
<1>2. Top.vector = 128
  <2>1. TypeOK
    BY DEF Inv
  <2> QED  BY <1>1, <2>1, TopGate, Constants DEF HandlerOf
<1>3. 128 \notin 32 .. 47 /\ 128 # 33 /\ ~(128 < 32)
  BY SMT
<1>4. Top.lines = {}
  BY <1>1, <1>2, <1>3, NoLines
<1>5. UNCHANGED <<interrupts, boot, pic, controller, stale>> /\ Goto("return")
  BY DEF Dispatch
<1> QED  BY <1>1, <1>2, <1>3, <1>4, <1>5, PhaseInv, PhaseFacts, Zenon

LEMMA ReadInv ==
  ASSUME Inv, ReadScancode
  PROVE  Inv'
<1>1. /\ acts # <<>> /\ Top.phase = "keyboard" /\ ~(Top.vector < 32)
      /\ Depth = {1} /\ Top = acts[1]
  BY IrqVector DEF ReadScancode
<1>2. UNCHANGED <<interrupts, boot, requested, masked, in_service, held, stale>>
  BY DEF ReadScancode, pic
<1>3. Goto("command") /\ buffer_full' = FALSE
  BY DEF ReadScancode
<1>4. TopFacts /\ GotoFacts("command")
  BY <1>1, <1>3, TopType, GotoActs, PhaseFacts DEF Inv
<1>5. Top.vector = 33
  BY <1>1, <1>4, Zenon DEF TopFacts, Inv, Layers
<1>6. Common /\ ServedBy(acts') = ServedBy(acts)
  BY <1>1, <1>2, <1>3, <1>5, GotoKeeps, GotoServed, PhaseFacts, Zenon DEF Inv
<1>7. Reading
  <2>1. 33 = 32 + KEYBOARD /\ "keyboard" \in {"entry", "handler", "keyboard"}
    BY Constants, SMT
  <2> QED  BY <1>1, <1>5, <2>1, Zenon DEF Reading
<1>8. ~Reading'
  <2>1. acts'[1].phase = "command" /\ Depth' = {1}
    <3>1. Len(acts) = 1
      BY <1>1, <1>4, AboveOnlyExceptions, PhaseFacts, Zenon DEF Inv
    <3> QED  BY <1>1, <1>4, <3>1, Zenon DEF GotoFacts
  <2>2. "command" \notin {"entry", "handler", "keyboard"}
    OBVIOUS
  <2> QED  BY <2>1, <2>2, Zenon DEF Reading
<1>9. RequestPerByte'
  BY <1>2, <1>3, <1>7, <1>8, Zenon DEF Inv, RequestPerByte
<1>10. TypeOK'
  BY <1>2, <1>3, <1>6, Zenon DEF Inv, TypeOK, Common
<1>11. InServiceIsHandled'
  <2>1. in_service = ServedBy(acts)
    BY DEF Inv, InServiceIsHandled, ServedBy, Depth
  <2>2. in_service' = ServedBy(acts')
    BY <1>2, <1>6, <2>1
  <2> QED  BY <2>2, Zenon DEF InServiceIsHandled, ServedBy, Depth
<1> QED  BY <1>6, <1>9, <1>10, <1>11, InvParts

\* The end of interrupt clears the bits of the only handler that has any.
LEMMA EoiClears ==
  ASSUME NEW v \in 32 .. 47, NEW bits, bits \subseteq LinesOf(v)
  PROVE  EndOfInterrupt(Master, IF v >= 40 THEN EndOfInterrupt(Slave, bits) ELSE bits) = {}
<1>1. CASE v \in 32 .. 39
  <2>1. v - 32 \in Master /\ LinesOf(v) = {v - 32} /\ ~(v >= 40)
    BY <1>1, Constants, SMT DEF LinesOf
  <2>2. \A i \in bits : i = v - 32 /\ i \in Master /\ i <= i
    BY <2>1, Constants, SMT
  <2>3. EndOfInterrupt(Master, bits) = {}
    BY <2>2, Zenon DEF EndOfInterrupt
  <2> QED  BY <2>1, <2>3
<1>2. CASE v \in 40 .. 47
  <2>1. /\ v - 32 \in Slave /\ LinesOf(v) = {v - 32, CASCADE} /\ v >= 40
        /\ CASCADE \in Master /\ CASCADE \notin Slave
    BY <1>2, Constants, SMT DEF LinesOf
  <2> DEFINE rest == EndOfInterrupt(Slave, bits)
  <2>2. \A i \in bits \cap Slave : i = v - 32 /\ i <= i
    BY <2>1, Constants, SMT
  <2>3. \A i \in rest : i = CASCADE
    BY <2>1, <2>2, Zenon DEF EndOfInterrupt
  <2> HIDE DEF rest
  <2>4. CASCADE <= CASCADE
    BY Constants, SMT
  <2>5. EndOfInterrupt(Master, rest) = {}
    BY <2>1, <2>3, <2>4, Zenon DEF EndOfInterrupt
  <2> QED  BY <2>1, <2>5 DEF rest
<1> QED  BY <1>1, <1>2, SMT

LEMMA EoiInv ==
  ASSUME Inv, acts # <<>>, SendEoi(Top.vector)
  PROVE  Inv'
<1>1. /\ Top.phase = "eoi" /\ ~(Top.vector < 32) /\ Top.vector \in 32 .. 47
      /\ Depth = {1} /\ Top = acts[1] /\ Len(acts) = 1
  BY IrqVector DEF SendEoi
<1>2. UNCHANGED <<interrupts, boot, requested, masked, buffer_full, held, stale>>
  BY DEF SendEoi, controller
<1>3. Goto("return")
  BY DEF SendEoi
<1>4. TopFacts /\ GotoFacts("return")
  BY <1>1, <1>3, TopType, GotoActs, PhaseFacts DEF Inv
<1>5. Common
  BY <1>1, <1>2, <1>3, GotoKeeps, PhaseFacts, Zenon
<1>6. Reading' <=> Reading
  BY <1>1, <1>3, GotoReading, PhaseFacts, Zenon DEF Inv
<1>7. in_service \subseteq LinesOf(Top.vector)
  <2>1. in_service \subseteq acts[1].lines
    BY <1>1, Zenon DEF Inv, InServiceIsHandled
  <2>2. acts[1].lines \subseteq LinesOf(acts[1].vector)
    BY <1>1, Zenon DEF Inv, Layers
  <2> QED  BY <1>1, <2>1, <2>2, Zenon
<1>8. in_service' = {}
  <2>1. in_service' = EndOfInterrupt(Master, IF Top.vector >= 40
                        THEN EndOfInterrupt(Slave, in_service) ELSE in_service)
    BY DEF SendEoi
  <2> QED  BY <1>1, <1>7, <2>1, EoiClears
<1>9. InServiceIsHandled'
  <2>1. acts'[1].phase = "return" /\ Depth' = {1}
    BY <1>1, <1>4, Zenon DEF GotoFacts
  <2> QED  BY <1>8, <2>1, Zenon DEF InServiceIsHandled
<1>10. TypeOK'
  BY <1>2, <1>5, <1>8, Zenon DEF Inv, TypeOK, Common
<1>11. RequestPerByte'
  BY <1>2, <1>6, RequestKept DEF Inv
<1> QED  BY <1>5, <1>9, <1>10, <1>11, InvParts

LEMMA ReturnInv ==
  ASSUME Inv, acts # <<>>, Return(Top.flag)
  PROVE  Inv'
<1>1. /\ acts' = <<>> /\ interrupts' = (boot = "on")
      /\ ServedBy(acts) = {} /\ ~Reading
  BY ReturnKeeps, Zenon DEF Return
<1>2. UNCHANGED <<boot, requested, masked, in_service, buffer_full, held, stale>>
  BY DEF Return, pic, controller
<1>3. Layers' /\ ~Reading'
  BY <1>1, EmptyActs, Zenon DEF Layers, Reading, Depth
<1>4. FlagsKept'
  BY <1>1, <1>2, Zenon DEF FlagsKept
<1>5. InServiceIsHandled'
  <2>1. in_service' = {} /\ ServedBy(acts') = {}
    BY <1>1, <1>2, EmptyActs DEF Inv, InServiceIsHandled, ServedBy, Depth
  <2> QED  BY <2>1, Zenon DEF InServiceIsHandled, ServedBy, Depth
<1>6. RequestPerByte'
  BY <1>1, <1>2, <1>3, RequestKept DEF Inv
<1>7. TypeOK'
  <2>1. acts' \in Seq(Activation) /\ interrupts' \in BOOLEAN
    BY <1>1, EmptySeq
  <2> QED  BY <1>2, <2>1, Zenon DEF Inv, TypeOK
<1> QED  BY <1>3, <1>4, <1>5, <1>6, <1>7, Zenon DEF Inv

LEMMA NextInv ==
  ASSUME Inv, [Next]_vars
  PROVE  Inv'
<1>1. CASE Boot
  BY <1>1, BootInv
<1>2. CASE Handler
  BY <1>2, StubInv, ReadInv, CommandInv, DispatchInv, IsrInv, IrqInv, EoiInv,
     ReturnInv, Zenon DEF Handler
<1>3. CASE Hardware
  BY <1>3, HardwareInv
<1>4. CASE Interrupted
  BY <1>4, InterruptedInv
<1>5. CASE Driver
  BY <1>5, DriverInv DEF Driver
<1>6. CASE UNCHANGED vars
  <2>1. UNCHANGED <<boot, interrupts, acts, requested, masked, in_service,
                    buffer_full, held, stale>>
    BY <1>6 DEF vars, pic, controller
  <2>2. Layers' /\ FlagsKept' /\ (Reading' <=> Reading)
    BY <2>1, SameActs
  <2>3. TypeOK' /\ InServiceIsHandled'
    BY <2>1, SMT DEF Inv, TypeOK, InServiceIsHandled, Depth
  <2>4. RequestPerByte'
    BY <2>1, <2>2, RequestKept DEF Inv
  <2> QED  BY <2>2, <2>3, <2>4, Zenon DEF Inv
<1> QED  BY <1>1, <1>2, <1>3, <1>4, <1>5, <1>6, Zenon DEF Next

LEMMA InvHolds == Spec => []Inv
BY InitInv, NextInv, PTL DEF Spec

-----------------------------------------------------------------------------
(* What follows.                                                           *)

\* The flags, the PICs' registers and the activations always have their
\* types; in particular only the vectors of idt.c are ever entered.
THEOREM TypeCorrect == Spec => []TypeOK
<1>1. Inv => TypeOK
  BY DEF Inv
<1> QED  BY <1>1, InvHolds, PTL

\* No handler of isr.asm that returns is ever interrupted by another, on
\* whatever lines there are devices: keyboard_handler and what it calls are
\* never entered twice.
THEOREM HandlersDoNotNest == Spec => []OnlyExceptionsNest
<1>1. Inv => OnlyExceptionsNest
  BY Zenon DEF Inv, Layers, OnlyExceptionsNest
<1> QED  BY <1>1, InvHolds, PTL

\* The two commands at the end of irq_handler, sent for spurious interrupts
\* too, end the service of the line that was served and of no other.
THEOREM EveryServiceEnds == Spec => []InServiceIsHandled
<1>1. Inv => InServiceIsHandled
  BY DEF Inv
<1> QED  BY <1>1, InvHolds, PTL

\* keyboard_read_scancode, which polls without a limit, is entered exactly
\* for the scancodes that the controller has, but for one that was waiting
\* when pic_remap forgot its request.
THEOREM HandlerFindsByte == Spec => []RequestPerByte
<1>1. Inv => RequestPerByte
  BY DEF Inv
<1> QED  BY <1>1, InvHolds, PTL
=============================================================================
