----------------------------- MODULE TrapsProofs -----------------------------
(***************************************************************************)
(* Proofs about module Traps, for every set of devices, exceptions and     *)
(* system calls.                                                           *)
(*                                                                         *)
(* Only the frame of the top activation is ever used, and only the bottom  *)
(* activation ever returns: what comes on top of another is an exception,  *)
(* and halts.  So the invariant describes the words of the top frame, and  *)
(* compares them with the program's registers when that frame is the only  *)
(* one.                                                                    *)
(***************************************************************************)
EXTENDS Traps, InterruptsProofs

\* Words on top of the processor's part of the frame: when the handler is
\* entered, and when everything is saved.
CodeOf(v) == IF v \in HasErrorCode THEN 1 ELSE 0
SavedOf(v) == IF Gate(v).handler \in {"isr", "irq"} THEN 17
              ELSE IF Gate(v).handler = "syscall" THEN 11 ELSE 15

\* The processor's part lies below n words.
FrameBelow(n) ==
  /\ n + 5 <= Len(stack)
  /\ stack[n + 1] = (IF Len(acts) = 1 THEN PROGRAM ELSE HANDLER)
  /\ stack[n + 3] = Flags(Top.flag)
  /\ Len(acts) = 1 => stack[n + 4] = 0

Entered ==
  /\ FrameBelow(CodeOf(Top.vector))
  /\ Top.vector \in HasErrorCode => stack[1] = ERROR
  /\ Len(acts) = 1 => \A r \in ToSet(General) : reg[r] = mine[r]

NumbersPushed ==
  Gate(Top.vector).handler \in {"isr", "irq"} =>
    /\ stack[16] = Top.vector
    /\ stack[17] = (IF Top.vector \in HasErrorCode THEN ERROR ELSE 0)

RegistersSaved ==
  LET order == Saved(Top.vector)
  IN  /\ \A i \in DOMAIN order : stack[i] = mine[order[i]]
      /\ \A r \in ToSet(General) \ ToSet(order) : reg[r] = mine[r]

Handling ==
  /\ FrameBelow(SavedOf(Top.vector)) /\ NumbersPushed
  /\ Len(acts) = 1 => RegistersSaved

RegsTypeOK ==
  /\ reg \in [Regs -> Int] /\ mine \in [Regs -> Int] /\ stack \in Seq(Int)

RegsKnown ==
  /\ mine["rip"] = PROGRAM /\ mine["rflags"] = Flags(boot = "on")
  /\ reg["rflags"] = Flags(interrupts)
  /\ acts = <<>> => reg = mine /\ stack = <<>>
  /\ acts # <<>> => reg["rip"] = HANDLER

TopFrame == acts # <<>> => IF Top.phase = "entry" THEN Entered ELSE Handling

TrapInv == Inv /\ RegsTypeOK /\ RegsKnown /\ TopFrame

-----------------------------------------------------------------------------
(* The tables of registers, and the words that are pushed.                 *)

LEMMA GeneralNames ==
  /\ \A r \in ToSet(General) :
        r \in {"r15", "r14", "r13", "r12", "r11", "r10", "r9", "r8", "rbp",
              "rdi", "rsi", "rdx", "rcx", "rbx", "rax"}
  /\ {"rax", "rbx", "rcx", "rdx", "rdi", "rsi"} \subseteq ToSet(General)
<1>1. \A r \in ToSet(General) :
        r \in {"r15", "r14", "r13", "r12", "r11", "r10", "r9", "r8", "rbp",
              "rdi", "rsi", "rdx", "rcx", "rbx", "rax"}
  BY SMT DEF General, ToSet
<1>2. {"rax", "rbx", "rcx", "rdx", "rdi", "rsi"} \subseteq ToSet(General)
  BY SMT DEF General, ToSet
<1> QED  BY <1>1, <1>2

\* What C functions overwrite is always saved; what syscall_handler does not
\* save they leave alone.
LEMMA SomeNames ==
  /\ ToSet(Some) \subseteq ToSet(General)
  /\ CallerSaved \subseteq ToSet(Some)
  /\ {"rax", "rbx", "rcx", "rdx", "rdi", "rsi"} \subseteq ToSet(Some)
<1>1. ToSet(Some) \subseteq ToSet(General)
  BY SMT DEF Some, General, ToSet
<1>2. CallerSaved \subseteq ToSet(Some)
  BY SMT DEF Some, CallerSaved, ToSet
<1>3. {"rax", "rbx", "rcx", "rdx", "rdi", "rsi"} \subseteq ToSet(Some)
  BY SMT DEF Some, ToSet
<1> QED  BY <1>1, <1>2, <1>3

LEMMA RegNames ==
  /\ ToSet(General) \subseteq Regs /\ "rip" \in Regs /\ "rflags" \in Regs
  /\ "rip" \notin ToSet(General) /\ "rflags" \notin ToSet(General)
  /\ \A r \in Regs : r \in ToSet(General) \/ r = "rip" \/ r = "rflags"
<1>1. "rip" \notin ToSet(General) /\ "rflags" \notin ToSet(General)
  BY GeneralNames
<1> QED  BY <1>1 DEF Regs

\* Where registers_t has the numbers and the return address.
LEMMA FieldPlaces ==
  /\ Field("int_no") = stack[16]
  /\ Field("err_code") = stack[17]
  /\ Field("rip") = stack[18]
<1>1. (CHOOSE i \in DOMAIN Fields : Fields[i] = "int_no") = 16
  BY SMT DEF Fields, General
<1>2. (CHOOSE i \in DOMAIN Fields : Fields[i] = "err_code") = 17
  BY SMT DEF Fields, General
<1>3. (CHOOSE i \in DOMAIN Fields : Fields[i] = "rip") = 18
  BY SMT DEF Fields, General
<1> QED  BY <1>1, <1>2, <1>3 DEF Field

\* The registers a stub saves.
LEMMA SavedFacts ==
  ASSUME NEW v \in 0 .. 255
  PROVE  /\ Len(Saved(v)) = (IF Gate(v).handler = "syscall" THEN 11 ELSE 15)
         /\ DOMAIN Saved(v) = 1 .. Len(Saved(v))
         /\ \A i \in DOMAIN Saved(v) : Saved(v)[i] \in ToSet(Saved(v))
         /\ ToSet(Saved(v)) \subseteq ToSet(General)
<1>1. Len(General) = 15 /\ DOMAIN General = 1 .. 15
  BY SMT DEF General
<1>2. Len(Some) = 11 /\ DOMAIN Some = 1 .. 11
  BY SMT DEF Some
<1>3. \A i \in DOMAIN Saved(v) : Saved(v)[i] \in ToSet(Saved(v))
  BY Zenon DEF ToSet
<1> QED  BY <1>1, <1>2, <1>3, SomeNames DEF Saved

\* How many words lie above the processor's.
LEMMA Places ==
  ASSUME NEW v \in 0 .. 255
  PROVE  /\ Numbers(v) \in Seq(Int)
         /\ SavedOf(v) = Len(Saved(v)) + Len(Numbers(v)) + CodeOf(v)
         /\ SavedOf(v) = Len(Saved(v)) +
                           (IF Gate(v).handler \in {"isr", "irq"} THEN 2 ELSE 0)
         /\ CodeOf(v) \in {0, 1} /\ SavedOf(v) \in Nat
<1>1. /\ Gate(v).handler = "isr" <=> v < 32
      /\ Gate(v).handler = "irq" <=> v \in 32 .. 47
      /\ Gate(v).handler = "syscall" <=> v = 128
  <2>1. HandlerOf(v)
    BY GateHandler
  <2> QED  BY <2>1 DEF HandlerOf, SYSCALL
<1>2. Numbers(v) \in Seq(Int)
  <2>1. <<v>> \in Seq(Int) /\ <<v, 0>> \in Seq(Int)
    BY SMT
  <2>2. <<>> \in Seq(Int)
    BY EmptySeq
  <2> QED  BY <2>1, <2>2, Zenon DEF Numbers
<1>3. CASE v < 48
  <2>1. Gate(v).handler \in {"isr", "irq"} /\ Gate(v).handler # "syscall"
    BY <1>1, <1>3, SMT
  <2>2. Len(Numbers(v)) + CodeOf(v) = 2
    BY <2>1, SMT DEF Numbers, CodeOf, HasErrorCode
  <2>3. Len(Saved(v)) = 15 /\ SavedOf(v) = 17
    BY <2>1, SavedFacts DEF SavedOf
  <2>4. CodeOf(v) \in {0, 1} /\ Len(Numbers(v)) \in Nat
    BY <1>2, SMT DEF CodeOf
  <2> QED  BY <1>2, <2>1, <2>2, <2>3, <2>4, SMT
<1>4. CASE ~(v < 48)
  <2>1. Gate(v).handler \notin {"isr", "irq"} /\ v \notin HasErrorCode
    BY <1>1, <1>4, SMT DEF HasErrorCode
  <2>2. Len(Numbers(v)) = 0 /\ CodeOf(v) = 0
    BY <2>1, SMT DEF Numbers, CodeOf
  <2>3. Len(Saved(v)) = SavedOf(v) /\ SavedOf(v) \in {11, 15}
    BY <2>1, SavedFacts DEF SavedOf
  <2> QED  BY <1>2, <2>1, <2>2, <2>3, SMT
<1> QED  BY <1>3, <1>4

LEMMA Joined ==
  ASSUME NEW a \in Seq(Int), NEW b \in Seq(Int)
  PROVE  /\ a \o b \in Seq(Int) /\ Len(a \o b) = Len(a) + Len(b)
         /\ Len(a) \in Nat /\ Len(b) \in Nat
         /\ \A i \in 1 .. Len(a) : (a \o b)[i] = a[i]
         /\ \A i \in 1 .. Len(b) : (a \o b)[Len(a) + i] = b[i]
<1>1. /\ a \o b \in Seq(Int) /\ Len(a \o b) = Len(a) + Len(b)
      /\ \A i \in 1 .. Len(a) + Len(b) :
           (a \o b)[i] = IF i <= Len(a) THEN a[i] ELSE b[i - Len(a)]
  BY ConcatProperties, Zenon
<1>2. Len(a) \in Nat /\ Len(b) \in Nat
  BY LenProperties, Zenon
<1>3. ASSUME NEW i \in 1 .. Len(a)
      PROVE  (a \o b)[i] = a[i]
  BY <1>1, <1>2
<1>4. ASSUME NEW i \in 1 .. Len(b)
      PROVE  (a \o b)[Len(a) + i] = b[i]
  <2>1. Len(a) + i \in 1 .. Len(a) + Len(b) /\ ~(Len(a) + i <= Len(a))
        /\ Len(a) + i - Len(a) = i
    BY <1>2
  <2> QED  BY <1>1, <2>1
<1> QED  BY <1>1, <1>2, <1>3, <1>4

\* The words that the processor pushes.
LEMMA FrameWords ==
  ASSUME RegsTypeOK, NEW v \in 0 .. 255, NEW s, s = Frame(v) \o stack
  PROVE  /\ s \in Seq(Int) /\ Len(s) = Len(stack) + 5 + CodeOf(v)
         /\ s[CodeOf(v) + 1] = reg["rip"] /\ s[CodeOf(v) + 3] = reg["rflags"]
         /\ s[CodeOf(v) + 4] = Len(stack)
         /\ v \in HasErrorCode => s[1] = ERROR
<1> DEFINE code == IF v \in HasErrorCode THEN <<ERROR>> ELSE <<>>
           rest == <<reg["rip"], CODE, reg["rflags"], Len(stack), DATA>>
<1>1. code \in Seq(Int) /\ Len(code) = CodeOf(v) /\ (v \in HasErrorCode => code[1] = ERROR)
  <2>1. <<ERROR>> \in Seq(Int) /\ Len(<<ERROR>>) = 1 /\ <<ERROR>>[1] = ERROR
    BY SMT DEF ERROR
  <2>2. <<>> \in Seq(Int) /\ Len(<<>>) = 0
    BY EmptySeq
  <2>3. CASE v \in HasErrorCode
    BY <2>1, <2>3, Zenon DEF CodeOf
  <2>4. CASE v \notin HasErrorCode
    <3>1. code = <<>> /\ CodeOf(v) = 0
      BY <2>4 DEF CodeOf
    <3> HIDE DEF code
    <3> QED  BY <2>2, <2>4, <3>1, Zenon
  <2> QED  BY <2>3, <2>4
<1>2. rest \in Seq(Int)
  <2>1. reg["rip"] \in Int /\ reg["rflags"] \in Int /\ Len(stack) \in Int
    BY RegNames, LenProperties, SMT DEF RegsTypeOK
  <2> QED  BY <2>1, SMT DEF CODE, DATA
<1>3. /\ Len(rest) = 5 /\ rest[1] = reg["rip"] /\ rest[3] = reg["rflags"]
      /\ rest[4] = Len(stack)
  BY SMT
<1>4. s = (code \o rest) \o stack /\ stack \in Seq(Int)
  BY DEF Frame, RegsTypeOK
<1> HIDE DEF code, rest
<1> DEFINE top == code \o rest
<1>5. /\ top \in Seq(Int) /\ Len(top) = CodeOf(v) + 5
      /\ \A i \in 1 .. CodeOf(v) : top[i] = code[i]
      /\ \A i \in 1 .. 5 : top[CodeOf(v) + i] = rest[i]
  <2>1. /\ code \o rest \in Seq(Int) /\ Len(code \o rest) = Len(code) + Len(rest)
        /\ \A i \in 1 .. Len(code) : (code \o rest)[i] = code[i]
        /\ \A i \in 1 .. Len(rest) : (code \o rest)[Len(code) + i] = rest[i]
    BY <1>1, <1>2, Joined
  <2> QED  BY <1>1, <1>3, <2>1
<1>6. s = top \o stack
  BY <1>4
<1> HIDE DEF top
<1>7. CodeOf(v) \in {0, 1} /\ (v \in HasErrorCode => CodeOf(v) = 1)
  BY DEF CodeOf
<1>8. /\ s \in Seq(Int) /\ Len(s) = CodeOf(v) + 5 + Len(stack)
      /\ \A i \in 1 .. CodeOf(v) + 5 : s[i] = top[i]
  BY <1>4, <1>5, <1>6, Joined
<1>9. /\ s[CodeOf(v) + 1] = rest[1] /\ s[CodeOf(v) + 3] = rest[3]
      /\ s[CodeOf(v) + 4] = rest[4]
  <2>1. \A i \in 1 .. 5 : CodeOf(v) + i \in 1 .. CodeOf(v) + 5
    BY <1>7
  <2>2. \A i \in 1 .. 5 : s[CodeOf(v) + i] = rest[i]
    BY <1>5, <1>8, <2>1
  <2>3. 1 \in 1 .. 5 /\ 3 \in 1 .. 5 /\ 4 \in 1 .. 5
    BY SMT
  <2> QED  BY <2>2, <2>3, Zenon
<1>10. v \in HasErrorCode => s[1] = code[1]
  <2>1. v \in HasErrorCode => 1 \in 1 .. CodeOf(v) /\ 1 \in 1 .. CodeOf(v) + 5
    BY <1>7
  <2> QED  BY <1>5, <1>8, <2>1
<1>11. Len(s) = Len(stack) + 5 + CodeOf(v)
  <2>1. Len(stack) \in Nat
    BY <1>4, LenProperties
  <2> QED  BY <1>7, <1>8, <2>1
<1> QED  BY <1>1, <1>3, <1>8, <1>9, <1>10, <1>11

\* The words that a stub pushes on top of them: the registers in the order
\* of its frame, the numbers under them.
Values(order) == [i \in DOMAIN order |-> reg[order[i]]]
StubStack(v) == Values(Saved(v)) \o Numbers(v) \o stack

LEMMA StubWords ==
  ASSUME RegsTypeOK, NEW v \in 0 .. 255
  PROVE  /\ StubStack(v) \in Seq(Int)
         /\ Len(StubStack(v)) = Len(Saved(v)) + Len(Numbers(v)) + Len(stack)
         /\ \A i \in DOMAIN Saved(v) : StubStack(v)[i] = reg[Saved(v)[i]]
         /\ \A i \in 1 .. Len(Numbers(v)) :
              StubStack(v)[Len(Saved(v)) + i] = Numbers(v)[i]
         /\ \A i \in 1 .. Len(stack) :
              StubStack(v)[Len(Saved(v)) + Len(Numbers(v)) + i] = stack[i]
<1> DEFINE s == StubStack(v)
           regs == Values(Saved(v))
           k == Len(Saved(v))
           d == Len(Numbers(v))
           top == regs \o Numbers(v)
<1>1. k \in Nat /\ DOMAIN Saved(v) = 1 .. k
  <2>1. Len(Saved(v)) \in {11, 15}
    BY SavedFacts
  <2>2. DOMAIN Saved(v) = 1 .. Len(Saved(v))
    BY SavedFacts, Zenon
  <2> QED  BY <2>1, <2>2
<1>2. \A i \in 1 .. k : reg[Saved(v)[i]] \in Int
  BY <1>1, SavedFacts, RegNames, Zenon DEF RegsTypeOK
<1> HIDE DEF k
<1>3. regs \in Seq(Int) /\ Len(regs) = k /\ \A i \in 1 .. k : regs[i] = reg[Saved(v)[i]]
  BY <1>1, <1>2, SMT DEF Values
<1>4. Numbers(v) \in Seq(Int) /\ d \in Nat /\ stack \in Seq(Int)
  BY Places, LenProperties DEF RegsTypeOK
<1>5. s = top \o stack
  BY DEF StubStack
<1> HIDE DEF regs, s
<1>6. /\ top \in Seq(Int) /\ Len(top) = k + d
      /\ \A i \in 1 .. k : top[i] = regs[i]
      /\ \A i \in 1 .. d : top[k + i] = Numbers(v)[i]
  BY <1>3, <1>4, Joined
<1> HIDE DEF top, d
<1>7. /\ s \in Seq(Int) /\ Len(s) = k + d + Len(stack)
      /\ \A i \in 1 .. k + d : s[i] = top[i]
      /\ \A i \in 1 .. Len(stack) : s[k + d + i] = stack[i]
  <2>1. /\ top \o stack \in Seq(Int) /\ Len(top \o stack) = Len(top) + Len(stack)
        /\ \A i \in 1 .. Len(top) : (top \o stack)[i] = top[i]
        /\ \A i \in 1 .. Len(stack) : (top \o stack)[Len(top) + i] = stack[i]
    BY <1>4, <1>6, Joined
  <2> QED  BY <1>5, <1>6, <2>1
<1>8. \A i \in 1 .. k : s[i] = reg[Saved(v)[i]]
  <2>1. \A i \in 1 .. k : i \in 1 .. k + d
    BY <1>1, <1>4
  <2> QED  BY <1>3, <1>6, <1>7, <2>1
<1>9. \A i \in 1 .. d : s[k + i] = Numbers(v)[i]
  <2>1. \A i \in 1 .. d : k + i \in 1 .. k + d
    BY <1>1, <1>4
  <2> QED  BY <1>6, <1>7, <2>1
<1> QED  BY <1>1, <1>7, <1>8, <1>9 DEF k, d, s

-----------------------------------------------------------------------------
(* The steps of the handlers are those of module Interrupts.               *)

\* A handler of isr.asm finds the number it was entered for.
LEMMA NumberFound ==
  ASSUME TrapInv, acts # <<>>, Top.phase # "entry",
         Gate(Top.vector).handler \in {"isr", "irq"}
  PROVE  Field("int_no") = Top.vector
<1>1. stack[16] = Top.vector
  BY Zenon DEF TrapInv, TopFrame, Handling, NumbersPushed
<1> QED  BY <1>1, FieldPlaces

\* isr_default finds an address of the kernel where the number should be.
LEMMA NumberMissing ==
  ASSUME TrapInv, acts # <<>>, Top.phase # "entry",
         Gate(Top.vector).handler = "default"
  PROVE  ~(Field("int_no") < 32) /\ ~(Top.vector < 32)
<1>1. Handling
  BY Zenon DEF TrapInv, TopFrame
<1>2. FrameBelow(15)
  BY <1>1 DEF Handling, SavedOf
<1>3. stack[16] \in {PROGRAM, HANDLER}
  BY <1>2, SMT DEF FrameBelow
<1>4. ~(stack[16] < 32)
  BY <1>3, SMT DEF PROGRAM, HANDLER
<1>5. HandlerOf(Top.vector)
  BY TopGate DEF TrapInv, Inv
<1>6. ~(Top.vector < 32)
  BY <1>5, Zenon DEF HandlerOf
<1> QED  BY <1>4, <1>6, FieldPlaces

LEMMA InFacts ==
  ASSUME NEW h, NEW ph, In(h, ph)
  PROVE  acts # <<>> /\ Gate(Top.vector).handler = h /\ Top.phase = ph
BY DEF In

\* What a step of a C function does to the registers.
Compute == reg' = reg \/ \E x \in Int : reg' = Clobbered(x)

LEMMA HandlerControl ==
  ASSUME TrapInv, HandlerTrap
  PROVE  /\ acts # <<>> /\ Top.phase # "entry" /\ Handler
         /\ Compute /\ stack' = stack /\ mine' = mine /\ boot' = boot
         /\ \E ph \in Phases \ {"entry", "handler"} : Goto(ph)
<1>0. stack' = stack /\ mine' = mine
  BY DEF HandlerTrap
<1>1. 0 \in Int /\ Result \in Int
  <2>1. reg["rdx"] \in Int
    BY GeneralNames, RegNames, Zenon DEF TrapInv, RegsTypeOK
  <2>2. 0 \in Int /\ -1 \in Int
    BY SMT
  <2>3. CASE reg["rdi"] = 1
    BY <2>1, <2>2, <2>3 DEF Result
  <2>4. CASE reg["rdi"] # 1 /\ reg["rdi"] \in {3, 4, 5}
    BY <2>2, <2>4 DEF Result
  <2>5. CASE reg["rdi"] # 1 /\ reg["rdi"] \notin {3, 4, 5}
    BY <2>2, <2>5 DEF Result
  <2> QED  BY <2>2, <2>3, <2>4, <2>5, Zenon
<1>2. CASE In("isr", "handler") /\ IsrHandler(Field("int_no")) /\ reg' = Clobbered(0)
  <2>1. acts # <<>> /\ Top.phase = "handler" /\ Field("int_no") = Top.vector
    BY <1>2, InFacts, NumberFound
  <2>2. IsrHandler(Top.vector) /\ Compute
    BY <1>1, <1>2, <2>1 DEF Compute
  <2>3. boot' = boot /\ Goto(IF Top.vector < 32 THEN "halted" ELSE "return")
    BY <2>2 DEF IsrHandler
  <2> QED  BY <1>0, <2>1, <2>2, <2>3, PhaseFacts DEF Handler
<1>3. CASE In("default", "handler") /\ IsrHandler(Field("int_no")) /\ reg' = Clobbered(0)
  <2>1. /\ acts # <<>> /\ Top.phase = "handler"
        /\ ~(Field("int_no") < 32) /\ ~(Top.vector < 32)
    BY <1>3, InFacts, NumberMissing
  <2>2. IsrHandler(Field("int_no")) => IsrHandler(Top.vector) /\ Goto("return") /\ boot' = boot
    BY <2>1, Zenon DEF IsrHandler
  <2>3. Compute
    BY <1>1, <1>3 DEF Compute
  <2> QED  BY <1>0, <1>3, <2>1, <2>2, <2>3, PhaseFacts DEF Handler
<1>4. CASE In("irq", "handler") /\ IrqHandler(Field("int_no")) /\ UNCHANGED reg
  <2>1. acts # <<>> /\ Top.phase = "handler" /\ Field("int_no") = Top.vector
    BY <1>4, InFacts, NumberFound
  <2>2. IrqHandler(Top.vector) /\ Compute
    BY <1>4, <2>1 DEF Compute
  <2>3. boot' = boot /\ Goto(IF Top.vector = 33 THEN "keyboard" ELSE "eoi")
    BY <2>2 DEF IrqHandler
  <2> QED  BY <1>0, <2>1, <2>2, <2>3, PhaseFacts DEF Handler
<1>5. CASE ReadScancode /\ UNCHANGED reg
  <2>1. acts # <<>> /\ Top.phase = "keyboard" /\ Goto("command") /\ boot' = boot
    BY <1>5, InFacts DEF ReadScancode
  <2>2. Compute /\ Handler
    BY <1>5 DEF Compute, Handler
  <2> QED  BY <1>0, <2>1, <2>2, PhaseFacts
<1>6. CASE Command /\ UNCHANGED reg
  <2>1. acts # <<>> /\ Top.phase = "command" /\ boot' = boot
    BY <1>6, InFacts DEF Command
  <2>2. Goto("eoi") \/ Goto("halted")
    BY <1>6 DEF Command
  <2>3. Compute /\ Handler
    BY <1>6 DEF Compute, Handler
  <2> QED  BY <1>0, <2>1, <2>2, <2>3, PhaseFacts
<1>7. CASE In("irq", "eoi") /\ SendEoi(Field("int_no")) /\ reg' = Clobbered(0)
  <2>1. acts # <<>> /\ Top.phase = "eoi" /\ Field("int_no") = Top.vector
    BY <1>7, InFacts, NumberFound
  <2>2. SendEoi(Top.vector) /\ Compute
    BY <1>1, <1>7, <2>1 DEF Compute
  <2>3. boot' = boot /\ Goto("return")
    BY <2>2 DEF SendEoi
  <2> QED  BY <1>0, <2>1, <2>2, <2>3, PhaseFacts DEF Handler
<1>8. CASE DispatchTrap
  <2>1. acts # <<>> /\ Top.phase = "handler" /\ Goto("return") /\ boot' = boot
    BY <1>8, InFacts DEF DispatchTrap, Dispatch
  <2>2. Compute /\ Handler
    BY <1>1, <1>8 DEF DispatchTrap, Compute, Handler
  <2> QED  BY <1>0, <2>1, <2>2, PhaseFacts
<1> QED  BY <1>2, <1>3, <1>4, <1>5, <1>6, <1>7, <1>8, Zenon DEF HandlerTrap

\* iretq takes the flag from the word that the processor pushed, and the
\* return lies at the bottom of the stack.
LEMMA ReturnControl ==
  ASSUME TrapInv, ReturnTrap
  PROVE  /\ acts # <<>> /\ Top.phase = "return" /\ Return(Top.flag)
         /\ Len(acts) = 1 /\ Top = acts[1]
         /\ acts' = <<>> /\ interrupts' = (boot = "on") /\ boot' = boot
<1> DEFINE dropped == IF Gate(Top.vector).handler \in {"isr", "irq"} THEN 2 ELSE 0
           at == Len(Saved(Top.vector)) + dropped
<1>1. acts # <<>> /\ Top.phase = "return" /\ TypeOK /\ Layers
  BY DEF ReturnTrap, TrapInv, Inv
<1>2. TopFacts /\ Top.vector \in 0 .. 255
  BY <1>1, TopGate
<1>3. Return(stack[at + 3] = Flags(TRUE))
  BY DEF ReturnTrap
<1>4. at = SavedOf(Top.vector)
  BY <1>2, Places
<1> HIDE DEF at
<1>5. Handling
  BY <1>1, Zenon DEF TrapInv, TopFrame
<1>6. stack[at + 3] = Flags(Top.flag)
  BY <1>4, <1>5 DEF Handling, FrameBelow
<1>7. Top.flag \in BOOLEAN
  BY <1>2 DEF TopFacts, Activation
<1>8. (stack[at + 3] = Flags(TRUE)) = Top.flag
  BY <1>6, <1>7, SMT DEF Flags
<1>9. Return(Top.flag)
  BY <1>3, <1>8, Zenon
<1>10. Len(acts) = 1 /\ Top = acts[1]
  <2>1. Top.phase \notin {"entry", "handler", "halted"}
    BY <1>1
  <2> QED  BY <1>1, <2>1, AboveOnlyExceptions
<1>11. acts' = <<>> /\ interrupts' = (boot = "on")
  BY <1>1, <1>9, ReturnKeeps DEF TrapInv
<1>12. boot' = boot
  BY <1>9 DEF Return
<1> QED  BY <1>1, <1>9, <1>10, <1>11, <1>12

\* Every step is a step of module Interrupts.
LEMMA StepControl ==
  ASSUME TrapInv, [TrapNext]_trapVars
  PROVE  [Next]_vars
<1>1. CASE BootTrap
  BY <1>1, Zenon DEF BootTrap, Boot, Next
<1>2. CASE InterruptTrap
  <2>1. CASE \E i \in Irqs \cup {KEYBOARD} : AcknowledgeTrap(i)
    BY <2>1, Zenon DEF AcknowledgeTrap, Interrupted, Next
  <2>2. CASE \E c \in Calls : SystemCall(c)
    BY <2>2, Zenon DEF SystemCall, Interrupted, Next
  <2>3. CASE \/ \E i \in {7, 15} : Spurious(i)
             \/ NonMaskable
             \/ \E v \in Faults : Fault(v)
             \/ \E v \in Others : SoftwareInterrupt(v)
    BY <2>3, Zenon DEF Interrupted, Next
  <2> QED  BY <1>2, <2>1, <2>2, <2>3, Zenon DEF InterruptTrap
<1>3. CASE StubTrap
  BY <1>3, Zenon DEF StubTrap, Handler, Next
<1>4. CASE HandlerTrap
  BY <1>4, HandlerControl DEF Next
<1>5. CASE ReturnTrap
  BY <1>5, ReturnControl, Zenon DEF Handler, Next
<1>6. CASE Hardware \/ Driver
  BY <1>6, Zenon DEF Next
<1>7. CASE UNCHANGED trapVars
  BY <1>7 DEF trapVars
<1> QED  BY <1>1, <1>2, <1>3, <1>4, <1>5, <1>6, <1>7, Zenon DEF TrapNext

-----------------------------------------------------------------------------
(* The invariant.                                                          *)

\* A handler is entered; base is what the registers of the interrupted code
\* are by then.
LEMMA EnterTrap ==
  ASSUME TrapInv, NEW v \in 0 .. 255, NEW lines \in SUBSET (Master \cup Slave),
         Enter(v, lines), UNCHANGED boot,
         stack' = Frame(v) \o stack,
         NEW base \in [Regs -> Int],
         reg' = [base EXCEPT !["rip"] = HANDLER, !["rflags"] = Flags(interrupts')],
         mine' \in [Regs -> Int],
         mine'["rip"] = mine["rip"], mine'["rflags"] = mine["rflags"],
         acts = <<>> => \A r \in ToSet(General) : base[r] = mine'[r]
  PROVE  RegsTypeOK' /\ RegsKnown' /\ TopFrame'
<1>1. EnterFacts(v, lines)
  BY EnterActs DEF TrapInv, Inv
<1>2. /\ Top'.vector = v /\ Top'.phase = "entry" /\ Top'.flag = interrupts
      /\ acts' # <<>> /\ (Len(acts') = 1 <=> acts = <<>>)
  <2>1. Top' = [vector |-> v, phase |-> "entry", flag |-> interrupts, lines |-> lines]
    BY <1>1 DEF EnterFacts, Top
  <2>2. Len(acts') = Len(acts) + 1 /\ Len(acts) \in Nat /\ (acts = <<>> <=> Len(acts) = 0)
    BY <1>1 DEF EnterFacts
  <2>3. Len(acts') = 1 <=> acts = <<>>
    BY <2>2
  <2>4. acts' # <<>>
    BY <2>2, EmptySeq, SMT
  <2> QED  BY <2>1, <2>3, <2>4
<1>3. /\ stack' \in Seq(Int) /\ Len(stack') = Len(stack) + 5 + CodeOf(v)
      /\ stack'[CodeOf(v) + 1] = reg["rip"] /\ stack'[CodeOf(v) + 3] = reg["rflags"]
      /\ stack'[CodeOf(v) + 4] = Len(stack)
      /\ v \in HasErrorCode => stack'[1] = ERROR
  BY FrameWords DEF TrapInv
<1>4. /\ reg' \in [Regs -> Int] /\ reg'["rip"] = HANDLER
      /\ reg'["rflags"] = Flags(interrupts')
      /\ \A r \in ToSet(General) : reg'[r] = base[r]
  <2>1. HANDLER \in Int /\ Flags(interrupts') \in Int
    BY SMT DEF HANDLER, Flags
  <2> HIDE DEF HANDLER
  <2> DEFINE f == Flags(interrupts')
  <2>2. reg' = [base EXCEPT !["rip"] = HANDLER, !["rflags"] = f] /\ f \in Int
    BY <2>1
  <2> HIDE DEF f
  <2>3. \A r \in Regs : reg'[r] = IF r = "rflags" THEN f ELSE IF r = "rip" THEN HANDLER
                                                              ELSE base[r]
    BY <2>2
  <2>4. reg' \in [Regs -> Int]
    BY <2>1, <2>2
  <2>5. reg'["rip"] = HANDLER /\ reg'["rflags"] = f
    BY <2>3, RegNames
  <2>6. \A r \in ToSet(General) : reg'[r] = base[r]
    BY <2>3, RegNames
  <2> QED  BY <2>4, <2>5, <2>6 DEF f
<1>5. RegsTypeOK'
  BY <1>3, <1>4 DEF RegsTypeOK
<1>6. RegsKnown'
  BY <1>2, <1>4, Zenon DEF RegsKnown, TrapInv
<1>7. FrameBelow(CodeOf(Top.vector))'
  <2>1. CodeOf(v) + 5 <= Len(stack')
    <3>1. Len(stack) \in Nat /\ CodeOf(v) \in {0, 1}
      BY LenProperties, Places DEF TrapInv, RegsTypeOK
    <3> QED  BY <1>3, <3>1
  <2>2. stack'[CodeOf(v) + 1] = IF Len(acts') = 1 THEN PROGRAM ELSE HANDLER
    BY <1>2, <1>3, Zenon DEF TrapInv, RegsKnown
  <2>3. stack'[CodeOf(v) + 3] = Flags(interrupts)
    BY <1>3, Zenon DEF TrapInv, RegsKnown
  <2>4. Len(acts') = 1 => stack'[CodeOf(v) + 4] = 0
    <3>1. acts = <<>> => Len(stack) = 0
      BY EmptySeq, Zenon DEF TrapInv, RegsKnown
    <3> QED  BY <1>2, <1>3, <3>1
  <2> QED  BY <1>2, <2>1, <2>2, <2>3, <2>4, Zenon DEF FrameBelow, CodeOf
<1>8. Entered'
  BY <1>2, <1>3, <1>4, <1>7, Zenon DEF Entered
<1>9. TopFrame'
  BY <1>2, <1>8, Zenon DEF TopFrame
<1> QED  BY <1>5, <1>6, <1>9

\* Program, or handler, is interrupted.
LEMMA PushTrap ==
  ASSUME TrapInv, NEW v \in 0 .. 255, NEW lines \in SUBSET (Master \cup Slave),
         Enter(v, lines), UNCHANGED boot, Push
  PROVE  RegsTypeOK' /\ RegsKnown' /\ TopFrame'
<1>1. acts'[Len(acts')].vector = v
  <2>1. EnterFacts(v, lines)
    BY EnterActs DEF TrapInv, Inv
  <2> QED  BY <2>1 DEF EnterFacts
<1>2. /\ stack' = Frame(v) \o stack
      /\ reg' = [reg EXCEPT !["rip"] = HANDLER, !["rflags"] = Flags(interrupts')]
  BY <1>1, Zenon DEF Push
<1>3. reg \in [Regs -> Int] /\ mine' \in [Regs -> Int] /\ mine' = IF acts = <<>> THEN reg ELSE mine
  BY DEF TrapInv, RegsTypeOK, Push
<1>4. mine' = mine
  BY <1>3, Zenon DEF TrapInv, RegsKnown
<1>5. acts = <<>> => \A r \in ToSet(General) : reg[r] = mine'[r]
  BY <1>3, Zenon
<1> QED  BY <1>2, <1>3, <1>4, <1>5, EnterTrap

LEMMA CallTrap ==
  ASSUME TrapInv, NEW c \in Calls, SystemCall(c)
  PROVE  RegsTypeOK' /\ RegsKnown' /\ TopFrame'
<1>1. c[1] \in Int /\ c[2] \in Int /\ c[3] \in Int /\ c[4] \in Int
  BY TrapsAssumption, SMT
<1>2. acts = <<>> /\ Enter(SYSCALL, {}) /\ UNCHANGED boot
  BY DEF SystemCall, SoftwareInterrupt, Program
<1>3. SYSCALL \in 0 .. 255
  BY Constants, SMT
<1>4. reg = mine /\ reg \in [Regs -> Int]
  BY <1>2, Zenon DEF TrapInv, RegsKnown, RegsTypeOK
<1>5. mine' = [reg EXCEPT !["rax"] = c[1], !["rbx"] = c[2], !["rcx"] = c[3], !["rdx"] = c[4]]
  BY DEF SystemCall
<1>6. mine' \in [Regs -> Int]
  BY <1>1, <1>4, <1>5
<1>7. mine'["rip"] = mine["rip"] /\ mine'["rflags"] = mine["rflags"]
  BY <1>4, <1>5, RegNames
<1>8. /\ stack' = Frame(SYSCALL) \o stack
      /\ reg' = [mine' EXCEPT !["rip"] = HANDLER, !["rflags"] = Flags(interrupts')]
  BY DEF SystemCall
<1> QED  BY <1>2, <1>3, <1>6, <1>7, <1>8, EnterTrap

LEMMA InterruptTrapKeeps ==
  ASSUME TrapInv, InterruptTrap
  PROVE  RegsTypeOK' /\ RegsKnown' /\ TopFrame'
<1>1. ASSUME NEW i \in Irqs \cup {KEYBOARD}, AcknowledgeTrap(i)
      PROVE  RegsTypeOK' /\ RegsKnown' /\ TopFrame'
  <2>1. interrupts /\ Enter(Vector(i), Bits(i)) /\ UNCHANGED boot /\ Push
    BY <1>1 DEF AcknowledgeTrap, Acknowledge
  <2>2. boot = "on"
    BY <2>1, InterruptsOn DEF TrapInv
  <2>3. i \in 0 .. 15 /\ Vector(i) = 32 + i
    BY <2>2, Constants, SMT DEF Vector
  <2>4. Vector(i) \in 0 .. 255
    BY <2>3
  <2>5. Bits(i) \subseteq Master \cup Slave
    BY <2>3, Constants, SMT DEF Bits, MasterLine
  <2> QED  BY <2>1, <2>4, <2>5, PushTrap
<1>2. ASSUME Push, NEW i \in {7, 15}, Spurious(i)
      PROVE  RegsTypeOK' /\ RegsKnown' /\ TopFrame'
  <2>1. interrupts /\ Enter(Vector(i), Bits(i) \ {i}) /\ UNCHANGED boot
    BY <1>2 DEF Spurious
  <2>2. boot = "on"
    BY <2>1, InterruptsOn DEF TrapInv
  <2>3. Vector(i) \in 0 .. 255
    BY <2>2, SMT DEF Vector
  <2>4. Bits(i) \ {i} \subseteq Master \cup Slave
    BY Constants, SMT DEF Bits, MasterLine
  <2> QED  BY <1>2, <2>1, <2>3, <2>4, PushTrap
<1>3. ASSUME Push, NEW v \in 0 .. 255, Enter(v, {}), UNCHANGED boot
      PROVE  RegsTypeOK' /\ RegsKnown' /\ TopFrame'
  BY <1>3, PushTrap
<1>4. CASE Push /\ NonMaskable
  <2>1. NMI \in 0 .. 255
    BY Constants, SMT
  <2> QED  BY <1>3, <1>4, <2>1 DEF NonMaskable
<1>5. CASE Push /\ \E v \in Faults : Fault(v)
  <2>1. Faults \subseteq 0 .. 255
    BY Constants, SMT
  <2> QED  BY <1>3, <1>5, <2>1 DEF Fault
<1>6. CASE Push /\ \E v \in Others : SoftwareInterrupt(v)
  <2>1. Others \subseteq 0 .. 255
    BY Constants, SMT
  <2> QED  BY <1>3, <1>6, <2>1 DEF SoftwareInterrupt
<1> QED  BY <1>1, <1>2, <1>4, <1>5, <1>6, CallTrap, Zenon DEF InterruptTrap

\* The top of the stack after a step to another phase.
LEMMA GotoTop ==
  ASSUME TrapInv, acts # <<>>, NEW ph \in Phases, Goto(ph)
  PROVE  /\ acts' # <<>> /\ Len(acts') = Len(acts) /\ Top.vector \in 0 .. 255
         /\ Top'.vector = Top.vector /\ Top'.phase = ph /\ Top'.flag = Top.flag
<1>1. TopFacts /\ GotoFacts(ph)
  BY TopType, GotoActs DEF TrapInv, Inv
<1>2. /\ acts' # <<>> /\ Len(acts') = Len(acts) /\ Len(acts) \in Depth
      /\ Top' = acts'[Len(acts)] /\ Top = acts[Len(acts)] /\ Top.vector \in 0 .. 255
  BY <1>1 DEF TopFacts, GotoFacts, Top
<1>3. /\ acts'[Len(acts)].vector = acts[Len(acts)].vector
      /\ acts'[Len(acts)].flag = acts[Len(acts)].flag
      /\ acts'[Len(acts)].phase = ph
  BY <1>1, <1>2, Zenon DEF GotoFacts
<1> QED  BY <1>2, <1>3

\* The interrupt flag is off in every handler, and stays off.
LEMMA FlagOff ==
  ASSUME TrapInv, acts # <<>>, Inv', acts' # <<>>
  PROVE  interrupts = FALSE /\ interrupts' = FALSE
BY Zenon DEF TrapInv, Inv, FlagsKept

\* What is on the stack stays; the registers that C functions overwrite have
\* been saved.
LEMMA HandlerTrapKeeps ==
  ASSUME TrapInv, HandlerTrap, Inv'
  PROVE  RegsTypeOK' /\ RegsKnown' /\ TopFrame'
<1>1. /\ acts # <<>> /\ Top.phase # "entry"
      /\ Compute /\ stack' = stack /\ mine' = mine /\ boot' = boot
  BY HandlerControl
<1> PICK ph \in Phases \ {"entry", "handler"} : Goto(ph)
  BY HandlerControl
<1>2. /\ acts' # <<>> /\ Len(acts') = Len(acts) /\ Top.vector \in 0 .. 255
      /\ Top'.vector = Top.vector /\ Top'.phase = ph /\ Top'.flag = Top.flag
  BY <1>1, GotoTop
<1>3. interrupts = FALSE /\ interrupts' = FALSE
  BY <1>1, <1>2, FlagOff
<1>4. ToSet(Saved(Top.vector)) \subseteq ToSet(General) /\ CallerSaved \subseteq ToSet(Saved(Top.vector))
  <2>1. ToSet(Saved(Top.vector)) \subseteq ToSet(General)
    BY <1>2, SavedFacts
  <2>2. CallerSaved \subseteq ToSet(Saved(Top.vector))
    BY SomeNames, Zenon DEF Saved
  <2> QED  BY <2>1, <2>2
<1>5. /\ reg' \in [Regs -> Int] /\ reg'["rip"] = reg["rip"] /\ reg'["rflags"] = reg["rflags"]
      /\ \A r \in ToSet(General) \ ToSet(Saved(Top.vector)) : reg'[r] = reg[r]
  <2>1. reg \in [Regs -> Int]
    BY DEF TrapInv, RegsTypeOK
  <2>2. CASE reg' = reg
    BY <2>1, <2>2
  <2>3. ASSUME NEW x \in Int, reg' = Clobbered(x)
        PROVE  /\ reg' \in [Regs -> Int]
               /\ \A r \in Regs : r \notin CallerSaved => reg'[r] = reg[r]
    <3>1. reg' = [r \in Regs |-> IF r = "rax" THEN x ELSE IF r \in CallerSaved THEN 0 ELSE reg[r]]
      BY <2>3 DEF Clobbered
    <3>2. "rax" \in CallerSaved
      BY DEF CallerSaved
    <3>3. \A r \in Regs : r \notin CallerSaved => reg'[r] = reg[r]
      BY <3>1, <3>2
    <3>4. reg' \in [Regs -> Int]
      BY <2>1, <3>1
    <3> QED  BY <3>3, <3>4
  <2>4. "rip" \notin CallerSaved /\ "rflags" \notin CallerSaved
    BY <1>4, RegNames
  <2>5. \A r \in ToSet(General) \ ToSet(Saved(Top.vector)) : r \in Regs /\ r \notin CallerSaved
    BY <1>4, RegNames
  <2> QED  BY <1>1, <2>2, <2>3, <2>4, <2>5, RegNames, Zenon DEF Compute
<1>6. RegsTypeOK'
  BY <1>1, <1>5 DEF RegsTypeOK, TrapInv
<1>7. RegsKnown'
  BY <1>1, <1>2, <1>3, <1>5, Zenon DEF RegsKnown, TrapInv
<1>8. Handling
  BY <1>1, Zenon DEF TrapInv, TopFrame
<1>9. FrameBelow(SavedOf(Top.vector))'
  <2>1. FrameBelow(SavedOf(Top.vector))
    BY <1>8 DEF Handling
  <2>2. SavedOf(Top'.vector) = SavedOf(Top.vector)
    BY <1>2
  <2> QED  BY <1>1, <1>2, <2>1, <2>2, Zenon DEF FrameBelow
<1>10. NumbersPushed'
  BY <1>1, <1>2, <1>8, Zenon DEF Handling, NumbersPushed
<1>11. Len(acts) = 1 => RegistersSaved'
  <2>1. Saved(Top'.vector) = Saved(Top.vector)
    BY <1>2
  <2> QED  BY <1>1, <1>5, <1>8, <2>1, Zenon DEF Handling, RegistersSaved
<1>12. TopFrame'
  <2>1. Handling'
    BY <1>2, <1>9, <1>10, <1>11, Zenon DEF Handling
  <2> QED  BY <1>2, <2>1, Zenon DEF TopFrame
<1> QED  BY <1>6, <1>7, <1>12

\* The stub saves the registers on top of the processor's words, and moves
\* the arguments of a system call.
LEMMA StubTrapKeeps ==
  ASSUME TrapInv, StubTrap, Inv'
  PROVE  RegsTypeOK' /\ RegsKnown' /\ TopFrame'
<1> DEFINE v == Top.vector
<1>1. /\ acts # <<>> /\ Top.phase = "entry" /\ Goto("handler") /\ boot' = boot
      /\ mine' = mine
  BY DEF StubTrap, Stub
<1>2. /\ acts' # <<>> /\ Len(acts') = Len(acts) /\ v \in 0 .. 255
      /\ Top'.vector = v /\ Top'.phase = "handler" /\ Top'.flag = Top.flag
  BY <1>1, GotoTop, PhaseFacts
<1>3. interrupts = FALSE /\ interrupts' = FALSE
  BY <1>1, <1>2, FlagOff
<1>4. Entered /\ RegsTypeOK /\ RegsKnown
  BY <1>1, Zenon DEF TrapInv, TopFrame
<1>5. reg' = IF Gate(v).handler = "syscall" THEN Move(reg)
             ELSE [reg EXCEPT !["rdi"] = Len(stack')]
  BY DEF StubTrap
<1>15. stack' = [i \in DOMAIN Saved(v) |-> reg[Saved(v)[i]]] \o Numbers(v) \o stack
  BY DEF StubTrap
<1> HIDE DEF v
<1>6. /\ stack' \in Seq(Int)
      /\ Len(stack') = Len(Saved(v)) + Len(Numbers(v)) + Len(stack)
      /\ \A i \in DOMAIN Saved(v) : stack'[i] = reg[Saved(v)[i]]
      /\ \A i \in 1 .. Len(Numbers(v)) : stack'[Len(Saved(v)) + i] = Numbers(v)[i]
      /\ \A i \in 1 .. Len(stack) : stack'[Len(Saved(v)) + Len(Numbers(v)) + i] = stack[i]
  <2>1. RegsTypeOK /\ v \in 0 .. 255
    BY <1>2, <1>4
  <2> DEFINE s == StubStack(v)
  <2>2. stack' = s
    BY <1>15 DEF Values, StubStack
  <2>3. /\ s \in Seq(Int)
        /\ Len(s) = Len(Saved(v)) + Len(Numbers(v)) + Len(stack)
        /\ \A i \in DOMAIN Saved(v) : s[i] = reg[Saved(v)[i]]
        /\ \A i \in 1 .. Len(Numbers(v)) : s[Len(Saved(v)) + i] = Numbers(v)[i]
        /\ \A i \in 1 .. Len(stack) : s[Len(Saved(v)) + Len(Numbers(v)) + i] = stack[i]
    BY <2>1, StubWords
  <2> HIDE DEF s
  <2> QED  BY <2>2, <2>3
<1>7. /\ Len(Saved(v)) \in Nat /\ Len(Numbers(v)) \in Nat /\ Len(stack) \in Nat
      /\ SavedOf(v) = Len(Saved(v)) + Len(Numbers(v)) + CodeOf(v) /\ CodeOf(v) \in {0, 1}
  <2>1. Len(Saved(v)) \in {11, 15}
    BY <1>2, SavedFacts
  <2>2. Len(Numbers(v)) \in Nat /\ Len(stack) \in Nat
    BY <1>2, <1>4, Places, LenProperties DEF RegsTypeOK
  <2>3. SavedOf(v) = Len(Saved(v)) + Len(Numbers(v)) + CodeOf(v) /\ CodeOf(v) \in {0, 1}
    BY <1>2, Places
  <2> QED  BY <2>1, <2>2, <2>3
<1>8. /\ reg' \in [Regs -> Int] /\ reg'["rip"] = reg["rip"] /\ reg'["rflags"] = reg["rflags"]
      /\ \A r \in ToSet(General) : r \in {"rdi", "rsi", "rdx", "rcx"} \/ reg'[r] = reg[r]
  <2>1. reg \in [Regs -> Int] /\ Len(stack') \in Int
    BY <1>4, <1>6, <1>7 DEF RegsTypeOK
  <2>2. {"rax", "rbx", "rcx", "rdx", "rdi", "rsi"} \subseteq Regs
    BY GeneralNames, RegNames
  <2>3. reg["rax"] \in Int /\ reg["rbx"] \in Int /\ reg["rcx"] \in Int
    BY <2>1, <2>2
  <2>4. CASE Gate(v).handler = "syscall"
    <3>1. reg' = Move(reg)
      BY <1>5, <2>4
    <3>2. reg' \in [Regs -> Int]
      BY <2>1, <2>2, <2>3, <3>1 DEF Move
    <3>3. \A r \in Regs : r \notin {"rdi", "rsi", "rdx", "rcx"} => reg'[r] = reg[r]
      BY <2>1, <3>1 DEF Move
    <3> QED  BY <3>2, <3>3, RegNames, Zenon
  <2>5. CASE Gate(v).handler # "syscall"
    <3>1. reg' = [reg EXCEPT !["rdi"] = Len(stack')]
      BY <1>5, <2>5
    <3>2. reg' \in [Regs -> Int]
      BY <2>1, <2>2, <3>1
    <3>3. \A r \in Regs : r \notin {"rdi", "rsi", "rdx", "rcx"} => reg'[r] = reg[r]
      BY <2>1, <3>1
    <3> QED  BY <3>2, <3>3, RegNames, Zenon
  <2> QED  BY <2>4, <2>5
<1>9. RegsTypeOK'
  BY <1>1, <1>4, <1>6, <1>8 DEF RegsTypeOK
<1>10. RegsKnown'
  BY <1>1, <1>2, <1>3, <1>4, <1>8, Zenon DEF RegsKnown
<1>11. FrameBelow(SavedOf(Top.vector))'
  <2>1. FrameBelow(CodeOf(v))
    BY <1>4 DEF Entered, v
  <2>2. /\ CodeOf(v) + 1 \in 1 .. Len(stack) /\ CodeOf(v) + 3 \in 1 .. Len(stack)
        /\ CodeOf(v) + 4 \in 1 .. Len(stack)
    BY <1>7, <2>1 DEF FrameBelow
  <2> DEFINE n == Len(Saved(v)) + Len(Numbers(v))
  <2>3. /\ stack'[n + (CodeOf(v) + 1)] = stack[CodeOf(v) + 1]
        /\ stack'[n + (CodeOf(v) + 3)] = stack[CodeOf(v) + 3]
        /\ stack'[n + (CodeOf(v) + 4)] = stack[CodeOf(v) + 4]
    BY <1>6, <2>2, Zenon
  <2>4. /\ n + (CodeOf(v) + 1) = SavedOf(v) + 1 /\ n + (CodeOf(v) + 3) = SavedOf(v) + 3
        /\ n + (CodeOf(v) + 4) = SavedOf(v) + 4
    BY <1>7
  <2>5. SavedOf(v) + 5 <= Len(stack')
    <3>1. CodeOf(v) + 5 <= Len(stack)
      BY <2>1 DEF FrameBelow
    <3> QED  BY <1>6, <1>7, <3>1
  <2> HIDE DEF n
  <2>6. /\ stack'[SavedOf(v) + 1] = stack[CodeOf(v) + 1]
        /\ stack'[SavedOf(v) + 3] = stack[CodeOf(v) + 3]
        /\ stack'[SavedOf(v) + 4] = stack[CodeOf(v) + 4]
    BY <2>3, <2>4, Zenon
  <2>7. SavedOf(Top'.vector) = SavedOf(v)
    BY <1>2
  <2> QED  BY <1>2, <2>1, <2>5, <2>6, <2>7, Zenon DEF FrameBelow
<1>12. NumbersPushed'
  <2>1. SUFFICES ASSUME Gate(v).handler \in {"isr", "irq"}
                 PROVE  /\ stack'[16] = v
                        /\ stack'[17] = IF v \in HasErrorCode THEN ERROR ELSE 0
    BY <1>2, Zenon DEF NumbersPushed
  <2>2. Len(Saved(v)) = 15
    BY <1>2, <2>1, SavedFacts
  <2>3. CASE v \in HasErrorCode
    <3>1. Numbers(v) = <<v>>
      BY <2>1, <2>3 DEF Numbers, HasErrorCode
    <3>2. Len(Numbers(v)) = 1 /\ Numbers(v)[1] = v
      BY <3>1
    <3>3. stack'[15 + 1] = Numbers(v)[1]
      <4>1. 1 \in 1 .. Len(Numbers(v))
        BY <3>2
      <4> QED  BY <1>6, <2>2, <4>1, Zenon
    <3>4. stack'[15 + 1 + 1] = stack[1]
      <4>1. 1 \in 1 .. Len(stack)
        <5>1. CodeOf(v) + 5 <= Len(stack)
          BY <1>4 DEF Entered, FrameBelow, v
        <5> QED  BY <1>7, <5>1
      <4>2. stack'[Len(Saved(v)) + Len(Numbers(v)) + 1] = stack[1]
        BY <1>6, <4>1, Zenon
      <4> QED  BY <2>2, <3>2, <4>2
    <3>5. stack[1] = ERROR
      BY <1>4, <2>3 DEF Entered, v
    <3>6. 15 + 1 = 16 /\ 15 + 1 + 1 = 17
      OBVIOUS
    <3> QED  BY <2>3, <3>2, <3>3, <3>4, <3>5, <3>6, Zenon
  <2>4. CASE v \notin HasErrorCode
    <3>1. Numbers(v) = <<v, 0>>
      BY <2>1, <2>4 DEF Numbers, HasErrorCode
    <3>2. Len(Numbers(v)) = 2 /\ Numbers(v)[1] = v /\ Numbers(v)[2] = 0
      BY <3>1
    <3>3. stack'[15 + 1] = Numbers(v)[1] /\ stack'[15 + 2] = Numbers(v)[2]
      <4>1. 1 \in 1 .. Len(Numbers(v)) /\ 2 \in 1 .. Len(Numbers(v))
        BY <3>2
      <4> QED  BY <1>6, <2>2, <4>1, Zenon
    <3>4. 15 + 1 = 16 /\ 15 + 2 = 17
      OBVIOUS
    <3> QED  BY <2>4, <3>2, <3>3, <3>4, Zenon
  <2> QED  BY <2>3, <2>4
<1>13. ASSUME Len(acts) = 1
       PROVE  RegistersSaved'
  <2>1. \A r \in ToSet(General) : reg[r] = mine[r]
    BY <1>4, <1>13 DEF Entered
  <2>2. \A i \in DOMAIN Saved(v) : stack'[i] = mine'[Saved(v)[i]]
    <3>1. \A i \in DOMAIN Saved(v) : Saved(v)[i] \in ToSet(General)
      BY <1>2, SavedFacts, Zenon
    <3> QED  BY <1>1, <1>6, <2>1, <3>1, Zenon
  <2>3. \A r \in ToSet(General) \ ToSet(Saved(v)) : reg'[r] = mine'[r]
    <3>1. {"rdi", "rsi", "rdx", "rcx"} \subseteq ToSet(Saved(v))
      BY SomeNames, Zenon DEF Saved
    <3>2. \A r \in ToSet(General) \ ToSet(Saved(v)) : reg'[r] = reg[r]
      BY <1>8, <3>1, Zenon
    <3> QED  BY <1>1, <2>1, <3>2, Zenon
  <2>4. Saved(Top'.vector) = Saved(v)
    BY <1>2
  <2> QED  BY <2>2, <2>3, <2>4, Zenon DEF RegistersSaved
<1>14. TopFrame'
  <2>1. Handling'
    BY <1>2, <1>11, <1>12, <1>13, Zenon DEF Handling
  <2> QED  BY <1>2, <2>1, Zenon DEF TopFrame
<1> QED  BY <1>9, <1>10, <1>14

\* The program has its registers and its stack again.
LEMMA ReturnTrapKeeps ==
  ASSUME TrapInv, ReturnTrap, Inv'
  PROVE  RegsTypeOK' /\ RegsKnown' /\ TopFrame'
<1> DEFINE v == Top.vector
           order == Saved(v)
           n == SavedOf(v)
<1>1. /\ acts # <<>> /\ Top.phase = "return" /\ Len(acts) = 1 /\ Top = acts[1]
      /\ acts' = <<>> /\ interrupts' = (boot = "on") /\ boot' = boot
  BY ReturnControl
<1>2. v \in 0 .. 255
  BY <1>1, TopGate DEF TrapInv, Inv
<1>3. Handling /\ RegsTypeOK /\ RegsKnown /\ RegistersSaved
  BY <1>1, Zenon DEF TrapInv, TopFrame, Handling
<1>4. mine' = mine
  BY DEF ReturnTrap
<1>5. /\ reg' = [Pop(order, stack) EXCEPT !["rip"] = stack[n + 1], !["rflags"] = stack[n + 3]]
      /\ stack' = SubSeq(stack, Len(stack) - stack[n + 4] + 1, Len(stack))
  <2>1. n = Len(Saved(v)) + (IF Gate(v).handler \in {"isr", "irq"} THEN 2 ELSE 0)
    BY <1>2, Places
  <2> QED  BY <2>1 DEF ReturnTrap
<1> HIDE DEF v, order, n
<1>6. stack[n + 1] = PROGRAM /\ stack[n + 3] = Flags(Top.flag) /\ stack[n + 4] = 0
  BY <1>1, <1>3, Zenon DEF Handling, FrameBelow, n, v
<1>7. Top.flag = (boot = "on")
  BY <1>1, Zenon DEF TrapInv, Inv, FlagsKept
<1>8. stack' = <<>>
  <2>1. Len(stack) \in Nat
    BY <1>3, LenProperties DEF RegsTypeOK
  <2>2. stack' = SubSeq(stack, Len(stack) + 1, Len(stack))
    BY <1>5, <1>6, <2>1
  <2> QED  BY <2>1, <2>2, SubSeqEmpty
<1>9. ASSUME NEW r \in Regs, r \notin {"rip", "rflags"}
      PROVE  Pop(order, stack)[r] = mine[r]
  <2>1. Pop(order, stack)[r] = IF r \in ToSet(order)
                               THEN stack[CHOOSE i \in DOMAIN order : order[i] = r]
                               ELSE reg[r]
    BY DEF Pop
  <2>2. CASE r \in ToSet(order)
    <3> DEFINE i == CHOOSE j \in DOMAIN order : order[j] = r
    <3>1. i \in DOMAIN order /\ order[i] = r
      BY <2>2, Zenon DEF ToSet
    <3> HIDE DEF i
    <3>2. stack[i] = mine[order[i]]
      BY <1>3, <3>1, Zenon DEF RegistersSaved, order, v
    <3> QED  BY <2>1, <2>2, <3>1, <3>2 DEF i
  <2>3. CASE r \notin ToSet(order)
    <3>1. r \in ToSet(General)
      BY <1>9, RegNames, Zenon
    <3>2. reg[r] = mine[r]
      BY <1>3, <2>3, <3>1, Zenon DEF RegistersSaved, order, v
    <3> QED  BY <2>1, <2>3, <3>2
  <2> QED  BY <2>2, <2>3
<1>10. reg' = mine
  <2>1. Pop(order, stack) = [r \in Regs |-> Pop(order, stack)[r]]
    BY DEF Pop
  <2>2. mine["rip"] = PROGRAM /\ mine["rflags"] = Flags(boot = "on") /\ mine \in [Regs -> Int]
    BY <1>3, Zenon DEF RegsKnown, RegsTypeOK
  <2>3. ASSUME NEW r \in Regs
        PROVE  reg'[r] = mine[r]
    <3>1. CASE r = "rip"
      BY <1>5, <1>6, <2>1, <2>2, <3>1, RegNames
    <3>2. CASE r = "rflags"
      BY <1>5, <1>6, <1>7, <2>1, <2>2, <3>2, RegNames
    <3>3. CASE r \notin {"rip", "rflags"}
      BY <1>5, <1>9, <2>1, <3>3
    <3> QED  BY <3>1, <3>2, <3>3
  <2>4. reg' = [r \in Regs |-> reg'[r]]
    BY <1>5, <2>1
  <2> QED  BY <2>2, <2>3, <2>4
<1>11. RegsTypeOK'
  BY <1>3, <1>4, <1>8, <1>10, EmptySeq DEF RegsTypeOK
<1>12. RegsKnown'
  <2>1. interrupts' = (boot' = "on")
    BY <1>1
  <2>2. mine'["rip"] = PROGRAM /\ mine'["rflags"] = Flags(boot' = "on")
    BY <1>1, <1>3, <1>4, Zenon DEF RegsKnown
  <2>3. reg' = mine'
    BY <1>4, <1>10
  <2>4. reg'["rflags"] = Flags(interrupts')
    BY <2>1, <2>2, <2>3, Zenon
  <2> QED  BY <1>1, <1>8, <2>2, <2>3, <2>4, Zenon DEF RegsKnown
<1>13. TopFrame'
  BY <1>1, Zenon DEF TopFrame
<1> QED  BY <1>11, <1>12, <1>13

LEMMA BootTrapKeeps ==
  ASSUME TrapInv, BootTrap
  PROVE  RegsTypeOK' /\ RegsKnown' /\ TopFrame'
<1>1. acts = <<>> /\ acts' = <<>> /\ boot # "on"
  BY DEF BootTrap, IdtInit, PicRemap, Sti
<1>2. TopFrame'
  BY <1>1, Zenon DEF TopFrame
<1>3. RegsTypeOK /\ RegsKnown
  BY DEF TrapInv
<1>4. CASE (IdtInit \/ PicRemap) /\ UNCHANGED <<reg, stack, mine, served>>
  <2>1. boot' # "on" /\ interrupts' = interrupts /\ UNCHANGED <<reg, stack, mine>>
    BY <1>4 DEF IdtInit, PicRemap
  <2>2. Flags(boot' = "on") = Flags(boot = "on") /\ Flags(interrupts') = Flags(interrupts)
    BY <1>1, <2>1 DEF Flags
  <2>3. RegsTypeOK'
    BY <1>3, <2>1 DEF RegsTypeOK
  <2>4. RegsKnown'
    BY <1>1, <1>3, <2>1, <2>2, Zenon DEF RegsKnown
  <2> QED  BY <1>2, <2>3, <2>4
<1>5. CASE Sti /\ reg' = [reg EXCEPT !["rflags"] = Flags(TRUE)] /\ mine' = reg'
                /\ UNCHANGED <<stack, served>>
  <2>1. boot' = "on" /\ interrupts' = TRUE
    BY <1>5 DEF Sti
  <2>2. Flags(boot' = "on") = Flags(TRUE) /\ Flags(interrupts') = Flags(TRUE) /\ Flags(TRUE) \in Int
    BY <2>1 DEF Flags
  <2>3. reg \in [Regs -> Int] /\ stack \in Seq(Int) /\ stack = <<>> /\ reg["rip"] = PROGRAM
    BY <1>1, <1>3, Zenon DEF RegsTypeOK, RegsKnown
  <2>4. reg' \in [Regs -> Int] /\ reg'["rflags"] = Flags(TRUE) /\ reg'["rip"] = PROGRAM
    <3> DEFINE f == Flags(TRUE)
    <3>1. f \in Int /\ reg' = [reg EXCEPT !["rflags"] = f]
      BY <1>5, <2>2
    <3> HIDE DEF f
    <3>2. reg' \in [Regs -> Int] /\ reg'["rflags"] = f /\ reg'["rip"] = PROGRAM
      BY <2>3, <3>1, RegNames
    <3> QED  BY <3>2 DEF f
  <2>5. RegsTypeOK'
    BY <1>5, <2>3, <2>4 DEF RegsTypeOK
  <2>6. RegsKnown'
    BY <1>1, <1>5, <2>2, <2>3, <2>4, Zenon DEF RegsKnown
  <2> QED  BY <1>2, <2>5, <2>6
<1> QED  BY <1>4, <1>5, Zenon DEF BootTrap

\* What the registers hold at first: different words, whatever they are.
Start(r) ==
  IF r = "rip" THEN PROGRAM
  ELSE IF r = "rflags" THEN Flags(FALSE)
  ELSE 1000 + CHOOSE i \in DOMAIN General : General[i] = r

LEMMA StartWords ==
  ASSUME NEW r \in Regs
  PROVE  Start(r) \in Int
<1>1. CASE r = "rip"
  BY <1>1 DEF Start, PROGRAM
<1>2. CASE r = "rflags"
  BY <1>2 DEF Start, Flags
<1>3. CASE r # "rip" /\ r # "rflags"
  <2>1. \E i \in DOMAIN General : General[i] = r
    BY <1>3, RegNames, Zenon DEF ToSet
  <2> DEFINE place == CHOOSE i \in DOMAIN General : General[i] = r
  <2>2. place \in DOMAIN General
    BY <2>1, Zenon
  <2>3. Start(r) = 1000 + place
    BY <1>3 DEF Start
  <2> HIDE DEF place
  <2>4. DOMAIN General = 1 .. 15
    BY SMT DEF General
  <2> QED  BY <2>2, <2>3, <2>4
<1> QED  BY <1>1, <1>2, <1>3, Zenon

LEMMA TrapInitInv ==
  ASSUME TrapInit
  PROVE  TrapInv
<1>1. Inv
  BY InitInv DEF TrapInit
<1>2. acts = <<>> /\ interrupts = FALSE /\ boot = "start"
  BY DEF TrapInit, Init
<1>3. mine = reg /\ stack = <<>>
  BY DEF TrapInit
<1>4. reg = [r \in Regs |-> Start(r)]
  BY DEF TrapInit, Start
<1>5. RegsTypeOK
  <2>1. reg \in [Regs -> Int]
    BY <1>4, StartWords
  <2> QED  BY <1>3, <2>1, EmptySeq DEF RegsTypeOK
<1>6. RegsKnown
  <2>1. reg["rip"] = PROGRAM /\ reg["rflags"] = Flags(FALSE)
    BY <1>4, RegNames DEF Start
  <2>2. Flags(boot = "on") = Flags(FALSE) /\ Flags(interrupts) = Flags(FALSE)
    BY <1>2 DEF Flags
  <2> QED  BY <1>2, <1>3, <2>1, <2>2, Zenon DEF RegsKnown
<1>7. TopFrame
  BY <1>2, Zenon DEF TopFrame
<1> QED  BY <1>1, <1>5, <1>6, <1>7 DEF TrapInv

LEMMA TrapNextInv ==
  ASSUME TrapInv, [TrapNext]_trapVars
  PROVE  TrapInv'
<1>1. Inv'
  BY StepControl, NextInv DEF TrapInv
<1>2. CASE UNCHANGED <<boot, interrupts, acts, reg, stack, mine>>
  <2>1. RegsTypeOK' /\ RegsKnown'
    BY <1>2 DEF TrapInv, RegsTypeOK, RegsKnown
  <2>2. TopFrame'
    BY <1>2 DEF TrapInv, TopFrame, Entered, Handling, FrameBelow, NumbersPushed,
                RegistersSaved, Top
  <2> QED  BY <1>1, <2>1, <2>2 DEF TrapInv
<1>3. CASE (Hardware \/ Driver) /\ UNCHANGED <<reg, stack, mine, served>>
  <2>1. UNCHANGED <<boot, interrupts, acts>>
    BY <1>3 DEF Hardware, Key, Fetch, Device, Driver, EnableIrq, DisableIrq
  <2> QED  BY <1>2, <1>3, <2>1
<1>4. CASE UNCHANGED trapVars
  BY <1>2, <1>4 DEF trapVars, vars
<1>5. CASE BootTrap \/ InterruptTrap \/ StubTrap \/ HandlerTrap \/ ReturnTrap
  <2>1. RegsTypeOK' /\ RegsKnown' /\ TopFrame'
    BY <1>1, <1>5, BootTrapKeeps, InterruptTrapKeeps, StubTrapKeeps,
       HandlerTrapKeeps, ReturnTrapKeeps, Zenon
  <2> QED  BY <1>1, <2>1 DEF TrapInv
<1> QED  BY <1>3, <1>4, <1>5, Zenon DEF TrapNext

LEMMA TrapInvHolds == TrapSpec => []TrapInv
BY TrapInitInv, TrapNextInv, PTL DEF TrapSpec

-----------------------------------------------------------------------------
(* What follows.                                                           *)

\* The handlers of isr.asm and isr_default.asm, which decide by the number
\* they find in registers_t and return by the words they find on the stack,
\* take exactly the ways module Interrupts says.
THEOREM ControlImplemented == TrapSpec => ControlSpec
<1>1. TrapInit => Init
  BY DEF TrapInit
<1>2. TrapInv /\ [TrapNext]_trapVars => [Next]_vars
  BY StepControl
<1> QED  BY <1>1, <1>2, TrapInvHolds, PTL DEF TrapSpec, ControlSpec, Spec

\* With or without an error code from the processor, the handlers find the
\* number, the error code and the interrupted instruction in registers_t.
THEOREM FramesAreRead == TrapSpec => []FrameRead
<1>1. ASSUME TrapInv, In("isr", "handler") \/ In("irq", "handler")
      PROVE  /\ Field("int_no") = Top.vector
             /\ Field("err_code") = (IF Top.vector \in HasErrorCode THEN ERROR ELSE 0)
             /\ Field("rip") = (IF Len(acts) = 1 THEN PROGRAM ELSE HANDLER)
  <2>1. acts # <<>> /\ Top.phase = "handler" /\ Gate(Top.vector).handler \in {"isr", "irq"}
    BY <1>1, InFacts
  <2>2. Handling
    BY <1>1, <2>1, Zenon DEF TrapInv, TopFrame
  <2>3. FrameBelow(17) /\ NumbersPushed
    BY <2>1, <2>2 DEF Handling, SavedOf
  <2>4. stack[17 + 1] = IF Len(acts) = 1 THEN PROGRAM ELSE HANDLER
    BY <2>3, Zenon DEF FrameBelow
  <2>5. 17 + 1 = 18
    OBVIOUS
  <2> QED  BY <2>1, <2>3, <2>4, <2>5, FieldPlaces, Zenon DEF NumbersPushed
<1>2. TrapInv => FrameRead
  BY <1>1, Zenon DEF FrameRead
<1> QED  BY <1>2, TrapInvHolds, PTL

\* Whatever interrupts a program, and however often, it goes on with its
\* flags, its stack and all its registers, rax after a system call excepted.
THEOREM ProgramsResume == TrapSpec => []ContextRestored
<1>1. TrapInv => ContextRestored
  <2> SUFFICES ASSUME TrapInv PROVE ContextRestored
    OBVIOUS
  <2>1. acts = <<>> => stack = <<>> /\ \A r \in Regs : reg[r] = mine[r]
    BY Zenon DEF TrapInv, RegsKnown
  <2>2. reg["rflags"] = Flags(interrupts) /\ interrupts \in BOOLEAN
    BY Zenon DEF TrapInv, RegsKnown, Inv, TypeOK
  <2>3. Flags(interrupts) = Flags(TRUE) <=> interrupts
    BY <2>2 DEF Flags
  <2> QED  BY <2>1, <2>2, <2>3, Zenon DEF ContextRestored
<1> QED  BY <1>1, TrapInvHolds, PTL

\* With the registers and words that the code really uses, handlers nest,
\* end their service and find their scancodes as module Interrupts promises.
THEOREM ControlIsSafe ==
  TrapSpec => [](TypeOK /\ OnlyExceptionsNest /\ InServiceIsHandled /\ RequestPerByte)
BY ControlImplemented, TypeCorrect, HandlersDoNotNest, EveryServiceEnds, HandlerFindsByte, PTL DEF ControlSpec
=============================================================================
