----------------------------- MODULE Interrupts -----------------------------
(***************************************************************************)
(* Interrupts: the boot order of kernel_main, the gates of idt.c, the two  *)
(* PICs as pic.c programs them, the handlers of isr.asm, isr_default.asm   *)
(* and isr.c, and the keyboard's controller, whose byte the handler reads. *)
(*                                                                         *)
(* This module is about control: which code runs, which requests are       *)
(* latched, masked and in service.  A handler is an activation, and the    *)
(* activations are a stack; each goes through the phases of its code.      *)
(* Module Traps adds the registers and the words of the kernel's stack.    *)
(*                                                                         *)
(* The PICs and the controller are hardware, modelled as the code programs *)
(* them: edge triggered, fixed priorities, non-specific end of interrupt.  *)
(* The lines of the slave are 8 to 15; it hangs on line 2 of the master.   *)
(*                                                                         *)
(* A definition called a slip is a mistake in the one that follows it,     *)
(* kept to show that a property would notice; nothing uses it.             *)
(***************************************************************************)
EXTENDS Integers, Sequences

CONSTANTS
  Irqs,      \* lines with a device, other than the keyboard's
  Faults,    \* exceptions that the running code may cause
  Others,    \* vectors without a handler of their own that a program uses
  MaxHeld    \* scancodes the keyboard keeps while its controller is full

KEYBOARD == 1
CASCADE == 2
NMI == 2
SYSCALL == 128

ASSUME InterruptsAssumption ==
  /\ Irqs \subseteq 0 .. 15 \ {KEYBOARD, CASCADE}
  /\ Faults \subseteq 0 .. 31 \ {NMI}
  /\ Others \subseteq 48 .. 255 \ {SYSCALL}
  /\ MaxHeld \in Nat

Master == 0 .. 7
Slave == 8 .. 15

VARIABLES
  boot,         \* how far kernel_main is
  interrupts,   \* the interrupt flag of the processor
  acts,         \* the handlers that have been entered and not left
  requested,    \* lines whose edge is latched (IRR)
  masked,       \* lines masked (IMR)
  in_service,   \* lines accepted and not ended (ISR)
  buffer_full,  \* the keyboard controller has a scancode to read
  held,         \* scancodes the keyboard itself still holds
  stale         \* a scancode was waiting when the PICs were initialized

pic == <<requested, masked, in_service>>
controller == <<buffer_full, held>>
vars == <<boot, interrupts, acts, pic, controller, stale>>

Top == acts[Len(acts)]
Depth == DOMAIN acts

-----------------------------------------------------------------------------
(* The descriptor table.                                                   *)

\* The parts in which idt_set_gate stores the address of a handler.
WORD == 65536

idt_set_gate(base) ==
  [base_low |-> base % WORD,
   base_mid |-> (base \div WORD) % WORD,
   base_high |-> ((base \div WORD) \div WORD) % (WORD * WORD)]

\* A slip: 0x8F, the gate leaves interrupts on.
TrapGate(v) ==
  [handler |-> CASE v \in 0 .. 31 -> "isr"
                 [] v \in 32 .. 47 -> "irq"
                 [] v = SYSCALL -> "syscall"
                 [] OTHER -> "default",
   flags |-> IF v = SYSCALL THEN 238 ELSE 143]

\* The table as idt_init leaves it.
Gate(v) ==
  [handler |-> CASE v \in 0 .. 31 -> "isr"
                 [] v \in 32 .. 47 -> "irq"
                 [] v = SYSCALL -> "syscall"
                 [] OTHER -> "default",
   flags |-> IF v = SYSCALL THEN 238 ELSE 142]

\* The processor calls the handler of vector v; lines are the in-service
\* bits that were set for it.
Enter(v, lines) ==
  /\ acts' = Append(acts, [vector |-> v, phase |-> "entry",
                           flag |-> interrupts, lines |-> lines])
  /\ interrupts' = (interrupts /\ Gate(v).flags % 2 = 1)

-----------------------------------------------------------------------------
(* kernel_main.                                                            *)

\* Multiboot hands over with interrupts off, the PICs as the BIOS uses
\* them, and perhaps a scancode nobody has read.
Init ==
  /\ boot = "start" /\ interrupts = FALSE /\ acts = <<>>
  /\ buffer_full \in BOOLEAN
  /\ requested \in SUBSET (Irqs \cup {KEYBOARD})
  /\ KEYBOARD \in requested => buffer_full
  /\ masked = {} /\ in_service = {}
  /\ held = 0 /\ stale = FALSE

IdtInit ==
  /\ boot = "start" /\ acts = <<>>
  /\ boot' = "idt"
  /\ UNCHANGED <<interrupts, acts, pic, controller, stale>>

\* pic_remap.  The first command word resets the edge detection: a request
\* that came before is forgotten, and a line that is high has to fall before
\* it can request again.  keyboard_init, which comes next, reads nothing.
PicRemap ==
  /\ boot = "idt" /\ acts = <<>>
  /\ boot' = "pic"
  /\ requested' = {} /\ in_service' = {}
  /\ masked' = (Master \cup Slave) \ {KEYBOARD}
  /\ stale' = buffer_full
  /\ UNCHANGED <<interrupts, acts, controller>>

Sti ==
  /\ boot = "pic" /\ acts = <<>>
  /\ boot' = "on" /\ interrupts' = TRUE
  /\ UNCHANGED <<acts, pic, controller, stale>>

\* What a driver or a program on top of the booted kernel may do.
Program == boot = "on" /\ acts = <<>>

EnableIrq(i) ==
  /\ Program
  /\ masked' = masked \ {i}
  /\ UNCHANGED <<boot, interrupts, acts, requested, in_service,
                 controller, stale>>

DisableIrq(i) ==
  /\ Program
  /\ masked' = masked \cup {i}
  /\ UNCHANGED <<boot, interrupts, acts, requested, in_service,
                 controller, stale>>

\* int n.
SoftwareInterrupt(v) ==
  /\ Program
  /\ Enter(v, {})
  /\ UNCHANGED <<boot, pic, controller, stale>>

-----------------------------------------------------------------------------
(* The hardware.                                                           *)

\* A key is pressed or released; a keyboard that is full drops it.
Key ==
  /\ held < MaxHeld
  /\ held' = held + 1
  /\ UNCHANGED <<boot, interrupts, acts, pic, buffer_full, stale>>

\* The next scancode goes into the controller's empty buffer, and the line
\* rises.
Fetch ==
  /\ ~buffer_full /\ held > 0
  /\ buffer_full' = TRUE /\ held' = held - 1
  /\ requested' = requested \cup {KEYBOARD}
  /\ UNCHANGED <<boot, interrupts, acts, masked, in_service, stale>>

Device(i) ==
  /\ requested' = requested \cup {i}
  /\ UNCHANGED <<boot, interrupts, acts, masked, in_service,
                 controller, stale>>

MasterLine(i) == IF i \in Slave THEN CASCADE ELSE i

\* Line i may interrupt: it is not masked, nor is the way through the
\* master, and nothing of its priority or above is in service.
MayInterrupt(i) ==
  /\ i \notin masked /\ MasterLine(i) \notin masked
  /\ \A j \in in_service \cap Master : MasterLine(i) < j
  /\ i \in Slave => \A j \in in_service \cap Slave : i < j

Before(i, j) ==
  \/ MasterLine(i) < MasterLine(j)
  \/ MasterLine(i) = MasterLine(j) /\ i <= j

Pending == {i \in requested : MayInterrupt(i)}

\* The in-service bits that an accepted request of line i sets.
Bits(i) == {i, MasterLine(i)}

Vector(i) ==
  IF boot \in {"pic", "on"} THEN 32 + i
  ELSE IF i \in Slave THEN 104 + i ELSE 8 + i

\* The processor accepts the pending request of the highest priority.
Acknowledge(i) ==
  /\ interrupts
  /\ i \in Pending /\ \A j \in Pending : Before(i, j)
  /\ requested' = requested \ {i}
  /\ in_service' = in_service \cup Bits(i)
  /\ Enter(Vector(i), Bits(i))
  /\ UNCHANGED <<boot, masked, controller, stale>>

\* A request that is gone when it is accepted: the PIC answers with its
\* last line and sets no bit for it.
Spurious(i) ==
  /\ interrupts /\ Pending = {}
  /\ i \in Slave => CASCADE \notin masked
  /\ in_service' = in_service \cup (Bits(i) \ {i})
  /\ Enter(Vector(i), Bits(i) \ {i})
  /\ UNCHANGED <<boot, requested, masked, controller, stale>>

\* An exception of the running code; the code that reports one causes none.
Fault(v) ==
  /\ boot # "start"
  /\ \A k \in Depth : Gate(acts[k].vector).handler # "isr"
  /\ acts # <<>> => Top.phase # "halted"
  /\ Enter(v, {})
  /\ UNCHANGED <<boot, pic, controller, stale>>

\* The interrupt that no flag masks; the next one has to wait for iretq.
NonMaskable ==
  /\ boot # "start"
  /\ \A k \in Depth : acts[k].vector # NMI
  /\ Enter(NMI, {})
  /\ UNCHANGED <<boot, pic, controller, stale>>

-----------------------------------------------------------------------------
(* The handlers.  n is the number the handler finds in its frame.          *)

Goto(phase) == acts' = [acts EXCEPT ![Len(acts)].phase = phase]

In(handler, phase) ==
  acts # <<>> /\ Gate(Top.vector).handler = handler /\ Top.phase = phase

\* The assembly in front of the C function: everything is saved.
Stub ==
  /\ acts # <<>> /\ Top.phase = "entry"
  /\ Goto("handler")
  /\ UNCHANGED <<boot, interrupts, pic, controller, stale>>

\* isr_handler, also called by isr_default: an exception is reported and
\* the kernel halts with interrupts off.
IsrHandler(n) ==
  /\ In("isr", "handler") \/ In("default", "handler")
  /\ Goto(IF n < 32 THEN "halted" ELSE "return")
  /\ UNCHANGED <<boot, interrupts, pic, controller, stale>>

\* A slip: the line is looked up one too low.
IrqHandlerOffByOne(n) ==
  /\ In("irq", "handler")
  /\ Goto(IF n = 32 THEN "keyboard" ELSE "eoi")
  /\ UNCHANGED <<boot, interrupts, pic, controller, stale>>

IrqHandler(n) ==
  /\ In("irq", "handler")
  /\ Goto(IF n = 33 THEN "keyboard" ELSE "eoi")
  /\ UNCHANGED <<boot, interrupts, pic, controller, stale>>

\* keyboard_read_scancode waits for a byte, and reads one.
ReadScancode ==
  /\ In("irq", "keyboard")
  /\ buffer_full /\ buffer_full' = FALSE
  /\ Goto("command")
  /\ UNCHANGED <<boot, interrupts, pic, held, stale>>

\* The key is processed; Enter runs a command, and one of them never
\* returns.
Command ==
  /\ In("irq", "command")
  /\ \/ Goto("eoi") /\ UNCHANGED interrupts
     \/ Goto("halted") /\ interrupts' = FALSE
  /\ UNCHANGED <<boot, pic, controller, stale>>

\* The PIC clears the bit of the highest priority.
EndOfInterrupt(chip, bits) ==
  bits \ {i \in bits \cap chip : \A j \in bits \cap chip : i <= j}

\* Slips: for a line of the slave only the slave is told; only the slave is
\* told at all.
EoiToOne(n) ==
  /\ In("irq", "eoi")
  /\ in_service' = EndOfInterrupt(IF n >= 40 THEN Slave ELSE Master, in_service)
  /\ Goto("return")
  /\ UNCHANGED <<boot, interrupts, requested, masked, controller, stale>>

EoiToSlave(n) ==
  /\ In("irq", "eoi")
  /\ in_service' = EndOfInterrupt(Slave, in_service)
  /\ Goto("return")
  /\ UNCHANGED <<boot, interrupts, requested, masked, controller, stale>>

\* The end of interrupt comes when everything is done: the slave is told of
\* its lines, the master always.
SendEoi(n) ==
  /\ In("irq", "eoi")
  /\ in_service' =
       EndOfInterrupt(Master, IF n >= 40 THEN EndOfInterrupt(Slave, in_service)
                                         ELSE in_service)
  /\ Goto("return")
  /\ UNCHANGED <<boot, interrupts, requested, masked, controller, stale>>

\* syscall_dispatcher; it changes nothing but registers and the screen.
Dispatch ==
  /\ In("syscall", "handler")
  /\ Goto("return")
  /\ UNCHANGED <<boot, interrupts, pic, controller, stale>>

\* iretq, which takes the interrupt flag from the frame.
Return(flag) ==
  /\ acts # <<>> /\ Top.phase = "return"
  /\ acts' = SubSeq(acts, 1, Len(acts) - 1)
  /\ interrupts' = flag
  /\ UNCHANGED <<boot, pic, controller, stale>>

-----------------------------------------------------------------------------
Boot == IdtInit \/ PicRemap \/ Sti

Handler ==
  \/ Stub \/ ReadScancode \/ Command \/ Dispatch
  \/ /\ acts # <<>>
     /\ \/ IsrHandler(Top.vector) \/ IrqHandler(Top.vector)
        \/ SendEoi(Top.vector) \/ Return(Top.flag)

Hardware ==
  \/ Key \/ Fetch
  \/ \E i \in Irqs : Device(i)

\* The processor enters a handler.
Interrupted ==
  \/ \E i \in Irqs \cup {KEYBOARD} : Acknowledge(i)
  \/ \E i \in {7, 15} : Spurious(i)
  \/ NonMaskable
  \/ \E v \in Faults : Fault(v)
  \/ \E v \in Others \cup {SYSCALL} : SoftwareInterrupt(v)

Driver == \E i \in Irqs \cup {KEYBOARD, CASCADE} : EnableIrq(i) \/ DisableIrq(i)

Next == Boot \/ Handler \/ Hardware \/ Interrupted \/ Driver

Spec == Init /\ [][Next]_vars

-----------------------------------------------------------------------------
(* What is checked.                                                        *)

Phases == {"entry", "handler", "keyboard", "command", "eoi", "return", "halted"}

Activation ==
  [vector : 0 .. 255, phase : Phases, flag : BOOLEAN,
   lines : SUBSET (Master \cup Slave)]

\* The flags, the PICs' registers and the activations have their types.
TypeOK ==
  /\ boot \in {"start", "idt", "pic", "on"}
  /\ interrupts \in BOOLEAN /\ buffer_full \in BOOLEAN /\ stale \in BOOLEAN
  /\ acts \in Seq(Activation)
  /\ requested \subseteq Irqs \cup {KEYBOARD}
  /\ masked \subseteq Master \cup Slave
  /\ in_service \subseteq Master \cup Slave
  /\ held \in 0 .. MaxHeld

\* A handler that returns is never interrupted by one that returns: the
\* data of keyboard.c, the terminal and the heap are never used by two
\* handlers at once.  Only exceptions, which end everything, come on top.
OnlyExceptionsNest ==
  \A k \in Depth : k > 1 => acts[k].vector < 32

\* The in-service bits are those of the handlers that have not sent their
\* end of interrupt: none stays set for good, which would silence its line
\* and those behind it, and no end of interrupt, not even one sent for a
\* spurious interrupt, ends the service of another line.
InServiceIsHandled ==
  in_service = UNION {acts[k].lines : k \in {d \in Depth : acts[d].phase # "return"}}

\* The keyboard's handler is on its way to read.
Reading ==
  \E k \in Depth : /\ acts[k].vector = 32 + KEYBOARD
                   /\ acts[k].phase \in {"entry", "handler", "keyboard"}

\* For each scancode in the controller exactly one interrupt is on its way:
\* none is forgotten, and the handler, which waits for a scancode without a
\* limit and with interrupts off, never waits for one that does not come.
\* The exception is a scancode that was waiting when pic_remap ran: its
\* request is gone, keyboard_init does not read it, and nothing is said of
\* what becomes of the keyboard then.
RequestPerByte ==
  boot \in {"pic", "on"} /\ ~stale =>
    /\ buffer_full <=> KEYBOARD \in requested \/ Reading
    /\ ~(KEYBOARD \in requested /\ Reading)

Halted == \E k \in Depth : acts[k].vector < 32 \/ acts[k].phase = "halted"

\* A line that keeps the keyboard's from ever being served: its own mask, a
\* line of higher priority, a scancode nobody was told about.
KeyboardOpen ==
  /\ ~stale /\ KEYBOARD \notin masked
  /\ \A i \in Irqs : Before(i, KEYBOARD) => i \in masked

\* Every scancode is read in the end, whatever commands run in the handler
\* and whatever other devices do, unless an exception or a reboot stops the
\* machine: the handler of a command that returns is not the last.
KeysServed == <>[]KeyboardOpen => (buffer_full ~> (~buffer_full \/ Halted))
=============================================================================
