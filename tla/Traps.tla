-------------------------------- MODULE Traps -------------------------------
(***************************************************************************)
(* Interrupts, with the registers and the words of the kernel's stack: what *)
(* the processor and the stubs of isr.asm and isr_default.asm push, where  *)
(* the C handlers find it, and what is popped again.                       *)
(*                                                                         *)
(* The handlers decide by what they read, and iretq goes where the words   *)
(* on the stack say; that this is the control of module Interrupts is a    *)
(* property.  The stack grows at its head; rsp is its length.              *)
(***************************************************************************)
EXTENDS Interrupts, SequencesExt

CONSTANTS
  Calls   \* system calls that programs make: <<number, arg1, arg2, arg3>>

ASSUME TrapsAssumption == Calls \subseteq [1 .. 4 -> Nat]

VARIABLES
  reg,    \* the registers
  stack,
  mine,   \* the registers of the program when it was last interrupted
  served  \* history: the arguments with which the dispatcher was called for
          \* the program's last int 0x80, and its result; else <<>>

trapVars == <<vars, reg, stack, mine, served>>

\* General purpose registers as the C handlers' registers_t has them, and
\* as syscall_handler saves them; the top of the stack first.
General == <<"r15", "r14", "r13", "r12", "r11", "r10", "r9", "r8",
             "rbp", "rdi", "rsi", "rdx", "rcx", "rbx", "rax">>
Some == <<"r11", "r10", "r9", "r8", "rbp", "rdi", "rsi", "rdx", "rcx",
          "rbx", "rax">>

Regs == ToSet(General) \cup {"rip", "rflags"}
CallerSaved == {"rax", "rcx", "rdx", "rsi", "rdi", "r8", "r9", "r10", "r11"}

\* Values: the registers of the program are told apart, code lies above the
\* first MB, and of the flags only the interrupt flag is kept.
CODE == 8
DATA == 16
PROGRAM == 1048576
HANDLER == 1048577
ERROR == 77
Flags(on) == IF on THEN 512 ELSE 0

-----------------------------------------------------------------------------
(* Entry.                                                                  *)

\* Exceptions for which the processor pushes an error code, of those that a
\* kernel without control-flow protection and without virtualization meets.
HasErrorCode == {8, 10, 11, 12, 13, 14, 17}

\* The processor's part of the frame.
Frame(v) ==
  (IF v \in HasErrorCode THEN <<ERROR>> ELSE <<>>)
    \o <<reg["rip"], CODE, reg["rflags"], Len(stack), DATA>>

\* What goes with every step that enters a handler.
Push ==
  LET v == acts'[Len(acts')].vector
  IN  /\ stack' = Frame(v) \o stack
      /\ reg' = [reg EXCEPT !["rip"] = HANDLER, !["rflags"] = Flags(interrupts')]
      /\ mine' = IF acts = <<>> THEN reg ELSE mine
      /\ served' = IF acts = <<>> THEN <<>> ELSE served

\* A slip: the stub of the page fault pushes a dummy error code as well.
NumbersDummy(v) ==
  IF Gate(v).handler \in {"isr", "irq"} THEN <<v, 0>> ELSE <<>>

\* ISR_ERRCODE, ISR_NOERRCODE and IRQ push the number, and a dummy where the
\* processor pushed no error code; the other two entries push neither.
Numbers(v) ==
  IF Gate(v).handler \in {"isr", "irq"}
  THEN IF v \in {8, 10, 11, 12, 13, 14, 17} THEN <<v>> ELSE <<v, 0>>
  ELSE <<>>

Saved(v) == IF Gate(v).handler = "syscall" THEN Some ELSE General

\* A slip: two registers pop swapped.
PopSwapped(order, s) ==
  [r \in Regs |->
     IF r \in ToSet(order)
     THEN s[CHOOSE i \in DOMAIN order :
              order[i] = (IF r = "rdi" THEN "rsi" ELSE IF r = "rsi" THEN "rdi"
                                                  ELSE r)]
     ELSE reg[r]]

\* The moves in front of syscall_dispatcher: rcx is loaded when rdx already
\* has its new value.
Move(r) ==
  LET moved == [r EXCEPT !["rdi"] = r["rax"], !["rsi"] = r["rbx"], !["rdx"] = r["rcx"]]
  IN  [moved EXCEPT !["rcx"] = moved["rdx"]]

\* The registers after those of order are popped from s.
Pop(order, s) ==
  [r \in Regs |->
     IF r \in ToSet(order) THEN s[CHOOSE i \in DOMAIN order : order[i] = r]
     ELSE reg[r]]

StubTrap ==
  /\ Stub
  /\ LET v == Top.vector
     IN  /\ stack' = [i \in DOMAIN Saved(v) |-> reg[Saved(v)[i]]]
                       \o Numbers(v) \o stack
         /\ reg' = IF Gate(v).handler = "syscall" THEN Move(reg)
                   ELSE [reg EXCEPT !["rdi"] = Len(stack')]
  /\ UNCHANGED <<mine, served>>

-----------------------------------------------------------------------------
(* The handlers.                                                           *)

\* A slip: registers_t with two fields exchanged.
FieldsExchanged ==
  General \o <<"err_code", "int_no", "rip", "cs", "rflags", "rsp", "ss">>

\* registers_t.
Fields == General \o <<"int_no", "err_code", "rip", "cs", "rflags", "rsp", "ss">>
Field(f) == stack[CHOOSE i \in DOMAIN Fields : Fields[i] = f]

\* A C function leaves anything in the registers it need not preserve.
Clobbered(rax) ==
  [r \in Regs |-> IF r = "rax" THEN rax ELSE IF r \in CallerSaved THEN 0 ELSE reg[r]]

\* syscall_dispatcher; -1 stands for 2^64 - 1.
Result ==
  CASE reg["rdi"] = 1 -> reg["rdx"]
    [] reg["rdi"] \in {3, 4, 5} -> 0
    [] OTHER -> -1

DispatchTrap ==
  /\ Dispatch
  /\ reg' = Clobbered(Result)
  /\ served' = <<reg["rdi"], reg["rsi"], reg["rdx"], reg["rcx"], Result>>

HandlerTrap ==
  /\ \/ DispatchTrap
     \/ /\ \/ In("isr", "handler") /\ IsrHandler(Field("int_no")) /\ reg' = Clobbered(0)
           \/ In("default", "handler") /\ IsrHandler(Field("int_no")) /\ reg' = Clobbered(0)
           \/ In("irq", "handler") /\ IrqHandler(Field("int_no")) /\ UNCHANGED reg
           \/ ReadScancode /\ UNCHANGED reg
           \/ Command /\ UNCHANGED reg
           \/ In("irq", "eoi") /\ SendEoi(Field("int_no")) /\ reg' = Clobbered(0)
        /\ UNCHANGED served
  /\ UNCHANGED <<stack, mine>>

\* Pops, the two numbers dropped, and iretq.
ReturnTrap ==
  /\ acts # <<>> /\ Top.phase = "return"
  /\ LET v == Top.vector
         dropped == IF Gate(v).handler \in {"isr", "irq"} THEN 2 ELSE 0
         at == Len(Saved(v)) + dropped
         rsp == stack[at + 4]
     IN  /\ Return(stack[at + 3] = Flags(TRUE))
         /\ reg' = [Pop(Saved(v), stack) EXCEPT !["rip"] = stack[at + 1],
                                                !["rflags"] = stack[at + 3]]
         /\ stack' = SubSeq(stack, Len(stack) - rsp + 1, Len(stack))
  /\ UNCHANGED <<mine, served>>

-----------------------------------------------------------------------------
TrapInit ==
  /\ Init
  /\ reg = [r \in Regs |-> IF r = "rip" THEN PROGRAM ELSE IF r = "rflags" THEN Flags(FALSE)
                           ELSE 1000 + CHOOSE i \in DOMAIN General : General[i] = r]
  /\ stack = <<>> /\ mine = reg /\ served = <<>>

BootTrap ==
  \/ (IdtInit \/ PicRemap) /\ UNCHANGED <<reg, stack, mine, served>>
  \/ /\ Sti
     /\ reg' = [reg EXCEPT !["rflags"] = Flags(TRUE)]
     /\ mine' = reg' /\ UNCHANGED <<stack, served>>

\* syscall() of include/syscall.h: the registers are loaded, then int 0x80.
SystemCall(c) ==
  /\ SoftwareInterrupt(SYSCALL)
  /\ mine' = [reg EXCEPT !["rax"] = c[1], !["rbx"] = c[2],
                         !["rcx"] = c[3], !["rdx"] = c[4]]
  /\ served' = <<>>
  /\ stack' = Frame(SYSCALL) \o stack
  /\ reg' = [mine' EXCEPT !["rip"] = HANDLER, !["rflags"] = Flags(interrupts')]

AcknowledgeTrap(i) == Acknowledge(i) /\ Push

InterruptTrap ==
  \/ \E i \in Irqs \cup {KEYBOARD} : AcknowledgeTrap(i)
  \/ /\ \/ \E i \in {7, 15} : Spurious(i)
        \/ NonMaskable
        \/ \E v \in Faults : Fault(v)
        \/ \E v \in Others : SoftwareInterrupt(v)
     /\ Push
  \/ \E c \in Calls : SystemCall(c)

TrapNext ==
  \/ BootTrap \/ InterruptTrap
  \/ StubTrap \/ HandlerTrap \/ ReturnTrap
  \/ (Hardware \/ Driver) /\ UNCHANGED <<reg, stack, mine, served>>

\* The processor executes: the code it is in, and the handler of a request
\* that it finds pending again and again.
Fairness ==
  /\ WF_trapVars(BootTrap) /\ WF_trapVars(StubTrap \/ HandlerTrap \/ ReturnTrap)
  /\ SF_trapVars(\E i \in Irqs \cup {KEYBOARD} : AcknowledgeTrap(i))

TrapSpec == TrapInit /\ [][TrapNext]_trapVars /\ Fairness

-----------------------------------------------------------------------------
(* What is checked.                                                        *)

\* The handler of a vector that has one finds in registers_t the number of
\* that vector, the processor's error code or a dummy, and the address of
\* the interrupted instruction, although only some exceptions push a code.
FrameRead ==
  In("isr", "handler") \/ In("irq", "handler") =>
    /\ Field("int_no") = Top.vector
    /\ Field("err_code") = (IF Top.vector \in HasErrorCode THEN ERROR ELSE 0)
    /\ Field("rip") = (IF Len(acts) = 1 THEN PROGRAM ELSE HANDLER)

\* A program that was interrupted goes on where it was, with the stack, the
\* flags and every register it had, however many other interrupts came
\* before.  Only a register in which the program waits for a result is left
\* out: rax, after int 0x80, of which SystemCallHonoured speaks.
ContextRestored ==
  /\ acts = <<>> =>
       /\ stack = <<>>
       /\ \A r \in Regs : reg[r] = mine[r] \/ (r = "rax" /\ served # <<>>)
  /\ interrupts <=> reg["rflags"] = Flags(TRUE)

\* What syscall() of include/syscall.h says of int 0x80: the dispatcher is
\* called with the number in rax and the three arguments in rbx, rcx and
\* rdx, and its result is in rax when the program goes on.  The code breaks
\* both halves: isr.asm:204 loads the third argument from a register that
\* has been overwritten, and isr.asm:219 pops the number over the result.
SystemCallHonoured ==
  acts = <<>> /\ served # <<>> =>
    served = <<mine["rax"], mine["rbx"], mine["rcx"], mine["rdx"], reg["rax"]>>

\* The handlers, which know only what is on the stack, take the ways module
\* Interrupts says; isr_default gets by without a number because what it
\* reads instead, an address of the kernel, is above all exceptions.
ControlSpec == Spec
=============================================================================
