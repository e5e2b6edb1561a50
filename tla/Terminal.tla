------------------------------ MODULE Terminal ------------------------------
(***************************************************************************)
(* The VGA text terminal of kernel_main.c: terminal_writechar and          *)
(* terminal_clear, called by the main program and, on top of it, by the    *)
(* keyboard's interrupt handler.                                           *)
(*                                                                         *)
(* The handler runs with interrupts off: a call of its is one step.  The   *)
(* main program can be interrupted between any two accesses to memory, so  *)
(* its call is a step for each, with the values it holds in registers in   *)
(* between.  The C code leaves open when row and col are read and written; *)
(* the steps are those of the repository's build, build/obj/kernel_main.o, *)
(* which reads each once and never stores a column past the last.          *)
(*                                                                         *)
(* cells is the visible part of VGA_MEMORY.  Writes below it are dropped:  *)
(* for some 180 lines they fall into video memory that nothing reads.      *)
(*                                                                         *)
(* A definition called a slip is a mistake in the one that follows it,     *)
(* kept to show that a property would notice; nothing uses it.             *)
(***************************************************************************)
EXTENDS Integers

CONSTANTS
  VGA_WIDTH, VGA_HEIGHT,
  Glyphs,  \* characters other than newline and backspace
  BLANK, NEWLINE, BACKSPACE

ASSUME TerminalAssumption ==
  /\ VGA_WIDTH \in Nat \ {0}
  /\ VGA_HEIGHT \in Nat \ {0}
  /\ BLANK \in Glyphs
  /\ {NEWLINE, BACKSPACE} \cap Glyphs = {}
  /\ NEWLINE # BACKSPACE

Rows == 0 .. VGA_HEIGHT - 1
Cols == 0 .. VGA_WIDTH - 1

VARIABLES
  row, col, cells,
  cpu,  \* the main program inside terminal_writechar: where, and registers
  torn  \* a handler wrote while the main program was inside

screen == <<row, col, cells, cpu, torn>>

-----------------------------------------------------------------------------
(* What is on the screen.                                                  *)

Stored(r, c, g) ==
  IF r \in Rows THEN [cells EXCEPT ![r][c] = g] ELSE cells

BlankRow == [c \in Cols |-> BLANK]

\* A slip: the last line is not cleared.
ScrolledStale(cs) ==
  [r \in Rows |-> IF r = VGA_HEIGHT - 1 THEN cs[r] ELSE cs[r + 1]]

\* Every line moves up by one, and the last is cleared.
Scrolled(cs) ==
  [r \in Rows |-> IF r = VGA_HEIGHT - 1 THEN BlankRow ELSE cs[r + 1]]

-----------------------------------------------------------------------------
(* Calls that are not interrupted.                                         *)

PutNewline == col' = 0 /\ row' = row + 1 /\ UNCHANGED cells

\* At the first column it does nothing.
PutBackspace ==
  IF col > 0
  THEN /\ col' = col - 1
       /\ cells' = Stored(row, col - 1, BLANK)
       /\ UNCHANGED row
  ELSE UNCHANGED <<row, col, cells>>

\* The character is stored first; then the cursor moves and the screen
\* scrolls, by one line, if the cursor is below it.
PutGlyph(g) ==
  LET wraps == col + 1 >= VGA_WIDTH
      r     == IF wraps THEN row + 1 ELSE row
  IN  /\ col' = IF wraps THEN 0 ELSE col + 1
      /\ row' = IF r >= VGA_HEIGHT THEN VGA_HEIGHT - 1 ELSE r
      /\ cells' = IF r >= VGA_HEIGHT THEN Scrolled(Stored(row, col, g))
                  ELSE Stored(row, col, g)

Put(c) ==
  \/ c = NEWLINE /\ PutNewline
  \/ c = BACKSPACE /\ PutBackspace
  \/ c \in Glyphs /\ PutGlyph(c)

\* The handler writes a character, or clears the screen.
HandlerPut(c) ==
  /\ Put(c)
  /\ torn' = (torn \/ cpu.at # "out")
  /\ UNCHANGED cpu

HandlerClear ==
  /\ cells' = [r \in Rows |-> BlankRow]
  /\ row' = 0 /\ col' = 0
  /\ torn' = (cpu.at # "out")
  /\ UNCHANGED cpu

-----------------------------------------------------------------------------
(* A call of the main program, step by step.                               *)

Outside == [at |-> "out", char |-> BLANK, row |-> 0, col |-> 0, line |-> 0]

\* Where the call goes once the cursor is stored: the scroll, or the end.
After(r) ==
  IF r >= VGA_HEIGHT THEN [Outside EXCEPT !.at = "scroll"] ELSE Outside

Newline ==
  /\ cpu.at = "out"
  /\ col' = 0
  /\ cpu' = [cpu EXCEPT !.at = "newline"]
  /\ UNCHANGED <<row, cells, torn>>

NewlineRow ==
  /\ cpu.at = "newline"
  /\ row' = row + 1
  /\ cpu' = Outside
  /\ UNCHANGED <<col, cells, torn>>

LoadCol(g) ==
  /\ cpu.at = "out"
  /\ cpu' = [cpu EXCEPT !.at = "load", !.char = g, !.col = col]
  /\ UNCHANGED <<row, col, cells, torn>>

LoadRow ==
  /\ cpu.at = "load"
  /\ cpu' = [cpu EXCEPT !.at = "store", !.row = row]
  /\ UNCHANGED <<row, col, cells, torn>>

StoreCell ==
  /\ cpu.at = "store"
  /\ cells' = Stored(cpu.row, cpu.col, cpu.char)
  /\ cpu' = [cpu EXCEPT !.at = "advance"]
  /\ UNCHANGED <<row, col, torn>>

Advance ==
  /\ cpu.at = "advance"
  /\ IF cpu.col + 1 >= VGA_WIDTH
     THEN col' = 0 /\ cpu' = [cpu EXCEPT !.at = "wrap", !.row = @ + 1]
     ELSE col' = cpu.col + 1 /\ cpu' = After(cpu.row)
  /\ UNCHANGED <<row, cells, torn>>

Wrap ==
  /\ cpu.at = "wrap"
  /\ row' = cpu.row
  /\ cpu' = After(cpu.row)
  /\ UNCHANGED <<col, cells, torn>>

\* The loop over the cells, a line at a time; then the last line is cleared.
Scroll ==
  /\ cpu.at = "scroll"
  /\ IF cpu.line < VGA_HEIGHT - 1
     THEN /\ cells' = [cells EXCEPT ![cpu.line] = cells[cpu.line + 1]]
          /\ cpu' = [cpu EXCEPT !.line = @ + 1]
     ELSE /\ cells' = [cells EXCEPT ![VGA_HEIGHT - 1] = BlankRow]
          /\ cpu' = [Outside EXCEPT !.at = "last"]
  /\ UNCHANGED <<row, col, torn>>

LastRow ==
  /\ cpu.at = "last"
  /\ row' = VGA_HEIGHT - 1
  /\ cpu' = Outside
  /\ UNCHANGED <<col, cells, torn>>

Inside ==
  NewlineRow \/ LoadRow \/ StoreCell \/ Advance \/ Wrap \/ Scroll \/ LastRow

\* The screen as terminal_clear leaves it when the kernel starts.
ScreenInit ==
  /\ row = 0 /\ col = 0
  /\ cells = [r \in Rows |-> BlankRow]
  /\ cpu = Outside
  /\ torn = FALSE

ScreenNext ==
  \/ Newline \/ (\E g \in Glyphs : LoadCol(g)) \/ Inside
  \/ (\E c \in Glyphs \cup {NEWLINE, BACKSPACE} : HandlerPut(c))
  \/ HandlerClear

ScreenSpec == ScreenInit /\ [][ScreenNext]_screen
-----------------------------------------------------------------------------
(* What is checked.                                                        *)

\* The cursor and the registers have their types.  At no moment is the
\* column outside the line, whoever interrupts whom; the row may be.
ScreenTypeOK ==
  /\ row \in Nat /\ col \in Cols
  /\ cells \in [Rows -> [Cols -> Glyphs]]
  /\ cpu \in [at : {"out", "newline", "load", "store", "advance", "wrap",
                    "scroll", "last"},
              char : Glyphs, row : Nat, col : Cols, line : Rows]
  /\ torn \in BOOLEAN

\* The cells from column c of line r on.
BlankFrom(r, c) ==
  \A i \in Rows, j \in Cols :
    i > r \/ (i = r /\ j >= c) => cells[i][j] = BLANK

\* Text is written onto an empty screen: between two calls there is nothing
\* in the cells from the cursor on, whatever was scrolled, wrapped, erased
\* or cleared before.  The exception is a handler that wrote in the middle
\* of a call of the main program: the two overwrite each other, until the
\* screen is cleared.
BlankAhead == cpu.at = "out" /\ ~torn => BlankFrom(row, col)
=============================================================================
