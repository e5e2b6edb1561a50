# Zer0S in TLA+

A verification project for the Zer0S kernel: TLA+ models of its components, TLC configurations that check them on
small instances, and proofs, checked by TLAPS, of what holds for every size of memory, heap, table and screen.

Paths are relative to the repository; `memory.c`, `keyboard.c`, `shell.c`, `isr.*` and `boot.asm` are in
`src/kernel/arch/x86_64/`, `process.*`, `scheduler.*`, `syscall.c` and `ipc.c` in `src/kernel/core/`.

## The system

Zer0S boots with GRUB, enters long mode (`boot.asm`), and runs `kernel_main`: it prints messages, sets up the IDT, the
PIC, the keyboard and the memory manager, enables interrupts, prints the shell's prompt and halts in a loop. From then on
everything happens in the keyboard's interrupt handler: the line editor of `keyboard.c` and, on Enter, the whole shell
command. All interrupts but the keyboard's are masked, and interrupt gates keep interrupts off while a handler runs.

| component | state | operations | hard because | correct when |
|---|---|---|---|---|
| heap (`memory.c:155-240`) | list of block headers in an 8 MB arena | kmalloc, kfree, kcalloc | splits and merges in every order; `size_t` wraps | blocks tile the arena, used blocks are the held ones, a holder has what it asked for |
| frames (`memory.c:8-153`) | bitmap of the pages, two counters | memory_init, alloc_frame, free_frame | double and foreign frees, frame 0 is NULL, roundings at the ends of the reserved range | counters, bitmap and holders agree; nothing in use is handed out |
| process manager (`process.c`) | table, `current_process`, `ready_queue` through the `next` fields | create, destroy, yield, exit, sleep, wakeup | callers in any order; slots are used again while something still points to them | one runs; the queue is exact; stacks are exclusive; whoever waits runs |
| scheduler (`scheduler.c`) | `ready_list`, through the *same* `next` fields | init, add, remove, yield, tick | two lists through one field | the lists stay apart and end, and everybody comes to the head |
| terminal (`kernel_main.c:10-58`) | cursor, 80x25 cells | writechar, writestring, clear | the boot code can be interrupted inside writechar by a handler that prints | cursor inside the screen; text goes onto empty cells |
| keyboard (`keyboard.c`) | modifiers, dead key, `cmd_buffer`, `cmd_pos` | one handler | buffer and screen are edited separately; the buffer fills up; old contents stay | what is seen is what is submitted |
| shell (`shell.c`) | none | shell_handle_command, 12 commands | runs inside the interrupt handler | every command returns to the prompt |
| interrupts and PIC (`isr.*`, `isr_default.asm`, `idt.c`, `pic.c`) | IDT, request, mask and in-service bits, the stack of handlers and its words | idt_init, pic_remap, enable and disable, the entries, the C handlers, the exits | the shell runs before the end of interrupt; some exceptions push an error code; spurious interrupts | handlers do not nest, each scancode is read, programs go on where they were |
| system calls (`isr.asm:178-225`, `syscall.c`) | registers | syscall_handler | arguments are moved between registers in order, and what was saved is popped over the result | number and arguments arrive, the result comes back, the caller goes on where it was |
| context switch (`switch.asm`) | registers, stacks | switch_context (called by nothing) | the iretq frame | a process resumes as it stopped |
| boot, `string.c`, IPC stubs, HAL (empty files) | - | - | - | - |

They interact by direct calls and shared memory: `process.c` takes its stacks from the heap; the shell allocates from the
same heap, in interrupt context; the keyboard handler prints on the terminal the boot code is printing on.

## The modules

| module | models | with |
|---|---|---|
| `Heap` (`MCHeap`) | kmalloc, kfree, kcalloc | `Allocator`, the abstract allocator it implements |
| `Frames` | memory_init, alloc_frame, free_frame | `Allocator` again, with pages for bytes |
| `Process` | the process manager | `RunQueue`, the abstract run queue it implements |
| `Scheduler` (extends `Process`) | scheduler.c, between the calls of process.c | `Rota`, the abstract list it implements, and `RunQueue` |
| `Terminal` | terminal_writechar and terminal_clear, interrupted and not | |
| `Console` (`MCConsole`) | keyboard handler, shell and boot code on top of `Terminal` | `LineEditor`, the abstract editor it implements |
| `Interrupts` | boot order, gates, PICs, keyboard controller, phases of the handlers | |
| `Traps` (`MCTraps`, extends `Interrupts`) | the registers and the words on the stack; system calls | `Interrupts`, the control it implements |
| `HeapProofs`, `FramesProofs`, `ProcessProofs`, `SchedulerProofs`, `TerminalProofs`, `ConsoleProofs`, `InterruptsProofs`, `TrapsProofs` | the proofs | |

Next to a definition a *slip* may stand: the same definition with a plausible mistake. It is used nowhere; putting it in
the place of the definition makes one of the checked properties fail, which shows that the property can.

**Heap.** `heap` maps the address of every header that can be reached from `heap_head` to its three fields; it is empty
while `heap_head` is NULL, and the first kmalloc fills it, also when it then fails. A merge removes a header from the map.
`RoundUp` is `(size + 7) & ~7` in arithmetic modulo `SIZE_MOD`. First fit is by address: the list is in address order,
which is part of `HeapTiled`. `live` records what callers asked for, for kcalloc `num * size` as a number and not as the product
in `size_t` that kmalloc is asked for; `zeroed` is the range of the last fill of kcalloc.
kfree is called only with pointers that are held: the code cannot tell others, and no property could survive them.
`ReportedSizeIsGranted` states what the shell prints after kmalloc. (It prints the line for a NULL pointer too,
`shell.c:99-103`; there is then no holder, and the property says nothing.)

**Frames.** `frame_bitmap` is the set of set bits, with `ready` for "the pointer is set"; the counters are variables of
their own because the code keeps them by increments. alloc_frame's two NULL results (not initialized, none free) are
`NoFrame`. Frame 0 is free after memory_init, so alloc_frame once returns address 0, which a caller takes for a failure:
the frame is used and nobody holds it. `held` counts, for each page, the callers that were given it and have not given it back, so a page
given to two callers is a state of its own; `granted`, the value of the abstract allocator, has such a page twice. Callers
free what they hold, NULL, freed addresses and addresses past the end.

**Process.** Slots stand for `process_t` pointers. `Fill` and `Create` keep the code's order: the entry is READY and has
a pid before the stack is asked for, and stays so when there is none. `Destroy` frees the stack, marks the entry DEAD and
changes nothing else: not the queue, not `kernel_stack`, not `current_process`. What a loop over the links passes is `Reach`: the
entries that are in every set closed under `next` with the list's head in it, which makes sense for a list that runs into
a circle too. The loop that process_yield runs to the end of the queue either finds an entry without successor (`Ends`)
or never ends (`hung`). `ListFrom` is the list that the links make up, and the value of the abstract queue. `Spec` lets callers use the functions in any
order; `OrderlySpec` is the use they were written for (see below). `process.c` contains two definitions of each
function; the first are modelled, and the second differ only in what they print and count. kmalloc may fail at any time.

**Scheduler.** `scheduler.c` keeps a second list, `ready_list`, through the `next` fields of the same table and sets the same
`state`. Nothing in the kernel decides which of the two files is in charge, so callers use both: the functions of
process.c in the orderly way, those of scheduler.c at any time. What they have to know is the *contract* written in
`SchedulerStep` and `ManagerStep`: a process that is in one list is not handed to the other, nor twice to scheduler_add,
and whoever is on the scheduler's list is not destroyed or woken. Without it the first call closes a list in itself, and
the next loop never ends; the code has no test that would prevent it. scheduler_remove may be called with anybody.
scheduler_tick counts a number up that nothing reads and is left out.

**Interrupts.** Handlers that were entered and not left are activations on a stack, each with its vector, its phase (entry,
C handler, waiting for a scancode, shell command, end of interrupt, return, halted), the interrupt flag it interrupted and
the in-service bits set for it. `Gate` is the table of idt_init, `PicRemap` what pic_remap leaves in the PICs. The PICs are
modelled as they are programmed: edge triggered, fixed priorities, the slave on line 2, non-specific end of interrupt,
spurious interrupts on lines 7 and 15. The keyboard's controller holds one byte; the next one waits in the keyboard.
pic_remap forgets a request that came before it (on an Intel 8259 the first command word resets the edge detection; some
emulators raise the interrupt again with the next key): `stale` marks a scancode that then waits with no interrupt, as
keyboard_init does not read it. Device lines are enabled and masked in any order by drivers, which may use
pic_enable_irq and pic_disable_irq; programs may use `int` with any vector of the configuration. Exceptions can happen at
any instruction outside an exception handler, the NMI anywhere outside its own.

**Traps.** Adds the registers and the words of the stack to every step of `Interrupts`: what the processor pushes (an error
code for some exceptions only), what the macros of isr.asm push (a dummy code for the others, the number, the registers),
where the fields of registers_t fall on it, what C functions may overwrite, what is popped, and iretq, which goes where
the words say. The C handlers decide by the number they *read* and the flag comes from the word that is popped;
`ControlSpec` says that the result is the control of `Interrupts`. `mine` is what the program's registers held when it was
last interrupted, and `ContextRestored` compares with them when it goes on. `SystemCall` is `syscall()` of
include/syscall.h, and `served` remembers with which arguments the dispatcher was called for it and what it returned.
`SystemCallHonoured` is the promise of that header; the code breaks it twice: `Move` keeps the order of the moves in syscall_handler, so
the third argument is lost (`isr.asm:204`), and the final pop of rax puts the number of the call where the result was
(`isr.asm:219`). Either alone violates the property. swapgs is left out, as nothing uses gs.

**Terminal.** A call from the handler is one step. A call of the main program is one step for each access to memory, with
the registers it holds in between (`cpu`): the C code leaves the accesses to the compiler, and the steps are those of the
repository's own build (`src/build/obj/kernel_main.o`), which loads the column and the row, stores the cell, stores the
column (never one past the end), the row, scrolls in place and stores the row. `torn` remembers that a handler wrote in
the middle of a call.

**Console.** Extends `Terminal`. A key is one step on the keyboard's state (interrupts are off), which leaves in `out`
what the handler prints; that is then printed a character at a time, before anybody else runs. Keys are told apart as far
as the handler does: `a` is a small letter that takes the waiting accent, `b` one that takes none, `A` everything else
that is printable, `~` the accents. A letter that takes the accent becomes a negative char and is lost, as in the code.
Commands are what they print: some lines, or a clear, or the reboot that stops the machine. `exact` is a history variable:
the line has met no limit (buffer full, end of the screen's line, boot messages still being printed).

## The runs

| run | bounds | what it shows |
|---|---|---|
| `heap` | arena of five small blocks, header 24, smallest remainder 32, sizes 1, 36, 514 and 1022 in a 10-bit `size_t`, kcalloc of two | tiling, ownership, sizes, alignment and fills, and that the list implements `Allocator` |
| `heap_wrap` | the same, a slightly larger arena | counterexample: a size that wraps is "allocated" with 0 bytes |
| `frames` | 12 pages of 4 bytes, kernel at page 4, bitmap at page 5 | counters, bitmap and holders agree; the bitmap is never granted; no page has two holders (`Allocator`) |
| `frames_kernel` | the same | counterexample: the boot page tables and the heap are granted |
| `process` | 3 slots, 2 stacks, 4 processes ever created | what holds for callers that do anything: one RUNNING process, unique pids, no leaked stack |
| `process_orderly` | 3 slots, 3 stacks, 5 processes ever created | what holds for orderly callers: exact queue, running current process, exclusive stacks, `RunQueue`, dispatch in the order of waiting, and that turns come |
| `process_terminated` | 2 slots, 3 processes | counterexample: a destroyed process is dispatched |
| `scheduler` | 3 slots, 3 stacks, 3 processes ever created | the lists of process.c and scheduler.c stay apart and end, each implements its abstract list, and scheduler_yield brings everybody to the head |
| `interrupts` | keyboard, a device on line 0 and one on line 12, page fault, NMI, `int` 48, two system calls, one waiting scancode | no nesting but of exceptions, in-service bits end, one interrupt per scancode, frames found, programs resumed, control of `Interrupts`, keys served |
| `system_call` | the same | counterexample: an argument and the result of a system call are lost |
| `console` | screen of 2 lines of 4 cells, buffer of 2 characters, 5 keys, boot code about to execute `sti` | no overrun, text onto empty cells, echo exact, `LineEditor` |
| `console_screen` | the same | counterexample: a character is stored below the screen |

Why the bounds are enough. *Heap*: the arena holds five blocks of 8 bytes, so every shape of merge occurs (neighbour
free, used, absent; the two sides freed in both orders), remainders fall on both sides of the split limit, 1022 wraps when it is rounded, and
twice 514 wraps to 4 bytes in kcalloc.
*Frames*: the reserved range has free pages on both sides, the bitmap covers part of a page, and all pages can be used up.
*Process*: three slots are the least with a queue of two behind a running process; fewer stacks than slots make kmalloc
fail, more pids than slots make slots be used again. *Scheduler*: three processes give either list a head, a middle and an end,
and let one be empty while the other is full; slots used again are the matter of `process_orderly`. *Interrupts*: one
line before the keyboard's (0), one of the slave (12, which goes through the master's line 2), page fault and NMI for an
exception with and one without an error code and for one on top of the other, vector 48 for the default gate, a call that
has a case of its own and one that has none, with arguments that are all different; a second scancode that waits shows that the line rises again after a read.
*Console*: the buffer is full before the line is, two lines make
every scroll and wrap happen, and five keys suffice to fill the buffer, overflow it, correct it, submit it, and begin a
shorter line after a longer one. Deadlock is checked (in `interrupts` the hardware can
always act) except in `process`, `process_terminated` (the kernel can hang in its own loop) and `console` (a reboot halts
the machine, and the bound on keys stops the user).

`MaxPid`, `MaxKeys` and `MaxHeld` are bounds of the model only; everything else is a size of the system.

**Orderly callers.** `process.c` relies on its callers, and the first run shows how little it promises otherwise. Orderly
ones destroy a process only when it neither runs nor waits and is not dead, and let a process sleep or exit only while
another is ready, as an idle process would guarantee.

**Fairness.** Four assumptions, in three specifications.

- `FairSpec`: `WF(~hung /\ GiveUp)`, the current process eventually calls process_yield, process_exit or process_sleep. The
  timer interrupt is masked and nothing preempts, so the kernel cannot enforce it; it is an assumption about cooperative
  processes. `TurnComes` also assumes that from some moment on no process is created or woken, since both go in front of
  the queue: two processes that sleep and wake each other in turn can keep a third from running for ever. `FirstComeFirstServed`
  says that only such steps can delay a turn.
- `FairSchedSpec`: `WF(~hung /\ Rotate)`, scheduler_yield is called again and again. Nothing in the kernel calls it, so this
  too is an assumption about its user. `RotaTurns` assumes besides that nobody is added any more, since scheduler_add puts
  the new one in front.
- `TrapSpec`: weak fairness of the boot code and of the handlers, that is, the processor executes the code it is in; and
  strong fairness of accepting a request, that is, a request found pending again and again is not passed over for ever by
  programs that keep interrupting themselves with `int`. A handler that waits for a scancode that never comes does
  nothing, so fairness does not hide it. `KeysServed` assumes that in the end the keyboard's line is not masked, that lines
  of higher priority are (a device there may request without end), and that no scancode was forgotten by pic_remap.

The other specifications have no liveness property and no fairness.

## Where code and documentation disagree

1. `memory.c:167`: rounding up wraps to 0 for the seven largest sizes; the shell reports the full size (`shell.c:100`).
2. `memory.c:76-89` "marks the kernel's pages as used", but neither the page tables at 0x1000 nor the heap at 32 MB.
3. `process.h:18` a DEAD process has ended, but process_destroy leaves it in the queue and it is dispatched again.
4. `kernel_main.c:84` announces 80x25 cells, but a newline on the last line does not scroll (`:18-22`).
5. `isr.asm:204` is commented "arg3" and `syscall.h:19` passes three arguments, but the dispatcher gets the second one twice.
6. `syscall.h:18-22` returns what rax holds after `int 0x80`, but `isr.asm:219` has popped the number of the call into it.

## What is proved

The proofs assume only the named assumptions on the constants (`HeapAssumption`, `HeaderAssumption`,
`FramesAssumption`, `ProcessAssumption`, `TerminalAssumption`, `ConsoleAssumption`,
`ClearAssumption`, `InterruptsAssumption`, `TrapsAssumption`), which TLC evaluates on every run that uses their module.

- **HeapProofs.** `TypeCorrect`, `Tiling`, `Ownership`: the inductive invariant is the conjunction of the type invariant, tiling
  (the list in address order, with no gap and no overlap) and ownership. Each needs the others: a merge absorbs the right
  bytes because the next block begins where this one ends, and nobody's block because a free block is nobody's. The
  central lemmas say that `Take` and `Release` turn a tiled list into a tiled list. `RequestCovered` and `FillContained`
  build on it, with the arithmetic of rounding up. Both make exceptions where size_t wraps: what a holder has is less than it asked for when
  the rounding or the product of kcalloc wraps, and the fill leaves its block when the rounding does. `Alignment` adds that every header is a multiple of `ALIGN` away from
  the first, because a header and a rounded size are multiples of it; it is the only proof that uses `HeaderAssumption`.
  `Refinement` shows that the list implements `Allocator`.
  `LifoCoalesces`: for callers that free the newest allocation first, all free memory is in the last block, although
  kfree merges forward only; `LifoRestores`: when they have freed everything, the heap is one block again, because
  blocks that tile the arena and all are the last can only be one.
- **FramesProofs.** `TypeCorrect`, `CountersCorrect`, `Ownership`, `BitmapSafe`, `Refinement`. The invariant joins types,
  counters and ownership with `Pristine` (before memory_init nothing is set, counted or held), which is what makes the
  base of the counters right. `OneHolder` adds that no page has two holders, for which ownership is needed: a page that
  is held has its bit set, and alloc_frame takes one whose bit is clear.
- **ProcessProofs.** For callers in any order: `TypeCorrect`, `OneRuns` (invariant `Safe`: types and OnlyCurrentRuns; the
  step that matters is the dispatch after the current process was put back), `PidsAreUnique`, `NoStackLeak` (a stack in use is
  known to an entry that is not free, which create and destroy keep because only free entries are filled in).
  For orderly callers: `QueueIsExact`, `SomebodyRuns`, `StacksAreExclusive`, `RunQueueImplemented`. The invariant says that
  there is a sequence q without repetition such that `next` leads from ready_queue through q and ends, and that its entries are exactly
  the READY processes with a stack; besides, the current process is RUNNING and has a stack, as sleeping ones do, and
  stacks are exclusive. None of the parts is inductive alone: process_yield links the current process behind the last, which closes a circle unless it
  is known not to wait; process_wakeup puts a SLEEPING process in front, which is not there already because those there are
  READY; process_create fills a free entry, which is in no list. The lemmas say that a list is determined by links and
  head, that a loop passes exactly its entries (`ReachOfList`), and what pushing, popping and appending do to it; a list has
  no more entries than the table, by counting, so that `ListFrom` finds it. `NobodyPasses` (`FirstComeFirstServed`) is the safety half of
  `TurnComes`: no step lets a process that already waits or runs get in front of one that waits, so only process_create
  and process_wakeup can delay a turn. It follows from what each step does to q, with a lemma (`OrderOfList`) that says
  that t is reached from the successor of s exactly when it is further down q.
- **SchedulerProofs.** With scheduler.c between the calls of process.c: `ListsStayApart`, `RotaImplemented`, `RunQueueStaysImplemented`. Here the
  queue is not exact any more, since scheduler_add makes processes READY that are not on it. What is left is the
  invariant `SchedInv`: the two lists are sequences without a common entry, those in the queue are READY, those on the
  scheduler's list READY, ZOMBIE or SLEEPING, and the current process does not wait. A change of the links of one list leaves the
  other as it is, because it touches none of its entries.
- **InterruptsProofs.** `TypeCorrect`, `HandlersDoNotNest`, `EveryServiceEnds`, `HandlerFindsByte`, and `GateAddress`: the three parts of a gate make up the
  handler's address. The invariant describes the stack of activations: at the bottom may lie one handler that returns, everything above
  is an exception, which never does. All gates turn interrupts off, so nothing else comes on top; the bits in service are
  those of the bottom handler; so the non-specific end of interrupt ends the right one.
- **TrapsProofs.** `ControlImplemented`, `FramesAreRead`, `ProgramsResume`, `ControlIsSafe`. The
  invariant `TrapInv` joins that of `Interrupts` with what lies on the stack. It need not describe one frame for each
  activation: only the bottom activation ever returns, and only the top one reads. So it says of the top activation, from
  its entry on, where the processor's words lie (below the error code, where there is one), and once the stub has run,
  that the two numbers lie where `registers_t` has them; and of a handler that interrupted the program itself, that the words
  saved are the program's registers, and the registers not saved still hold them. syscall_handler saves only
  eleven: the dispatcher, compiled C, keeps the other four. The handlers' guards read the number on the stack, those of `Interrupts` the vector; that both
  agree is the step-by-step refinement `StepControl`, through which `ControlIsSafe` carries the theorems of
  `Interrupts` over to `TrapSpec`.
- **TerminalProofs.** `TypeCorrect`: the column is inside the line at every step of an interrupted call. `BlankAheadHolds`: the
  invariant `Ahead` adds to `BlankAhead`, for each place inside a call, what the registers hold and which cells are
  blank.
- **ConsoleProofs.** `ConsoleTypes` (the command never outgrows its buffer), `ConsoleBlankAhead`, `EditsLines` (`keyboard.c`
  implements `LineEditor`), and `SeenIsSubmitted` (`EchoExact`). The invariant adds to the types that the first `cmd_pos` places of the buffer hold
  characters and no NUL: only then does the string that Enter terminates end where the line does. Nothing is said of
  the places behind, where earlier lines remain. Every step of the console maps to a step of `Terminal` or leaves the
  screen alone, which carries `BlankAheadHolds` over. `EchoExact` only speaks of moments at which the handler has printed
  everything; in between the invariant `Echo` says that what is left in `out` is the end of the line, for which the rest of
  the screen's line has room, or one of the three steps that erase a cell. Only its proof uses `ClearAssumption`.

Only model-checked: what is temporal (`TurnComes`, `RotaTurns`, `KeysServed`), because liveness under fairness is out of
the prover's reach. Every other property of a passing run is also a theorem; `TypeOK` of `Interrupts` is a theorem only.
`LifoSpec` has no run of its own: what is said of it is a theorem.

## What is not modelled, and the plan

Not modelled, with the reasons:

- *Context switch* (`switch.asm`): nothing calls it, and no process has a context that was ever filled in, so no use says what
  it should do. Its code returns with iretq on two words of a frame of five, which would show in the first use.
- *Boot* (`boot.asm` and the set-up in `kernel_main`): straight-line code before anything runs besides. Its order is in
  `Interrupts`, where the page tables are in `Frames`.
- *`string.c`*: loops over bytes with no state of their own.
- *IPC* and the *HAL*: stubs that return 0, and empty files.
- Of the shell, what commands compute and how a line is split; of everything, wording and colours.
- process_wait is declared and defined nowhere, `sleep_until` is written and never read: there is no code to model.

`PROJECT.json` lists the hazards of the code, each with the properties that would catch it going wrong. A hazard that an invariant
makes an exception of, or that a specification's callers are assumed to avoid, is listed with the reason instead: the
code falls into it, so the property could not be stated without the exception.

What is left: the context switch, once something calls it; process_wait and waking sleepers, once they exist.
