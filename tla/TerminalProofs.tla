--------------------------- MODULE TerminalProofs ---------------------------
(***************************************************************************)
(* Proofs about the terminal: the cursor stays in its line, and text is    *)
(* written onto an empty part of the screen, for every size of the screen  *)
(* and every interleaving of the main program with the handler.            *)
(*                                                                         *)
(* BlankAhead says nothing of the moments when the main program is inside  *)
(* terminal_writechar.  Ahead adds, for each of them, what its registers   *)
(* hold and which cells are blank; with ScreenTypeOK it is inductive.      *)
(***************************************************************************)
EXTENDS Terminal, TLAPS

Ahead ==
  ~torn =>
    /\ cpu.at = "out" => BlankFrom(row, col)
    /\ cpu.at = "newline" => col = 0 /\ BlankFrom(row + 1, 0)
    /\ cpu.at = "load" => cpu.col = col /\ BlankFrom(row, col)
    /\ cpu.at = "store" =>
         cpu.col = col /\ cpu.row = row /\ BlankFrom(row, col)
    /\ cpu.at = "advance" =>
         cpu.col = col /\ cpu.row = row /\ BlankFrom(row, col + 1)
    /\ cpu.at = "wrap" =>
         col = 0 /\ cpu.row = row + 1 /\ BlankFrom(row + 1, 0)
    /\ cpu.at = "last" => cells[VGA_HEIGHT - 1] = BlankRow

Places == {"out", "newline", "load", "store", "advance", "wrap",
           "scroll", "last"}

Cpu == [at : Places, char : Glyphs, row : Nat, col : Cols, line : Rows]

-----------------------------------------------------------------------------
(* Types.                                                                  *)

\* A cell store, a blank line and a scroll keep the screen a screen.
LEMMA StoredType ==
  ASSUME ScreenTypeOK, NEW r \in Nat, NEW c \in Cols, NEW g \in Glyphs
  PROVE  Stored(r, c, g) \in [Rows -> [Cols -> Glyphs]]
BY DEF Stored, ScreenTypeOK

LEMMA BlankRowType == BlankRow \in [Cols -> Glyphs]
BY TerminalAssumption DEF BlankRow

LEMMA ScrolledType ==
  ASSUME NEW cs \in [Rows -> [Cols -> Glyphs]]
  PROVE  Scrolled(cs) \in [Rows -> [Cols -> Glyphs]]
<1>1. \A r \in Rows : r # VGA_HEIGHT - 1 => r + 1 \in Rows
  BY TerminalAssumption DEF Rows
<1> QED BY <1>1, BlankRowType DEF Scrolled

LEMMA OutsideType == Outside \in Cpu
BY TerminalAssumption DEF Outside, Cpu, Places, Rows, Cols

LEMMA AfterType == ASSUME NEW r PROVE After(r) \in Cpu
BY OutsideType DEF After, Cpu, Places

LEMMA InitType == ScreenInit => ScreenTypeOK
<1> SUFFICES ASSUME ScreenInit PROVE ScreenTypeOK
  OBVIOUS
<1>1. row \in Nat /\ col \in Cols
  BY TerminalAssumption DEF ScreenInit, Cols
<1>4. torn \in BOOLEAN
  BY DEF ScreenInit
<1>2. cells \in [Rows -> [Cols -> Glyphs]]
  BY BlankRowType DEF ScreenInit
<1>3. cpu \in Cpu
  BY OutsideType DEF ScreenInit
<1> QED BY <1>1, <1>2, <1>3, <1>4 DEF ScreenTypeOK, Cpu, Places

\* Whatever the handler writes.
LEMMA PutType ==
  ASSUME ScreenTypeOK, NEW c \in Glyphs \cup {NEWLINE, BACKSPACE}, Put(c)
  PROVE  row' \in Nat /\ col' \in Cols /\ cells' \in [Rows -> [Cols -> Glyphs]]
<1> USE TerminalAssumption DEF ScreenTypeOK, Cols
<1>1. CASE c = NEWLINE /\ PutNewline
  BY <1>1 DEF PutNewline
<1>2. CASE c = BACKSPACE /\ PutBackspace
  <2>1. CASE col > 0
    <3>1. col - 1 \in Cols
      BY <2>1
    <3>2. cells' = Stored(row, col - 1, BLANK)
      BY <1>2, <2>1 DEF PutBackspace
    <3> QED BY <1>2, <2>1, <3>1, <3>2, StoredType DEF PutBackspace
  <2>2. CASE ~(col > 0)
    BY <1>2, <2>2 DEF PutBackspace
  <2> QED BY <2>1, <2>2
<1>3. CASE c \in Glyphs /\ PutGlyph(c)
  <2>1. Stored(row, col, c) \in [Rows -> [Cols -> Glyphs]]
    BY <1>3, StoredType
  <2>2. Scrolled(Stored(row, col, c)) \in [Rows -> [Cols -> Glyphs]]
    BY <2>1, ScrolledType
  <2> QED BY <1>3, <2>1, <2>2 DEF PutGlyph
<1> QED BY <1>1, <1>2, <1>3 DEF Put

LEMMA NextType == ScreenTypeOK /\ [ScreenNext]_screen => ScreenTypeOK'
<1> SUFFICES ASSUME ScreenTypeOK, [ScreenNext]_screen PROVE ScreenTypeOK'
  OBVIOUS
<1> USE TerminalAssumption DEF ScreenTypeOK
<1>1. CASE Newline
  BY <1>1 DEF Newline, Cols
<1>2. CASE \E g \in Glyphs : LoadCol(g)
  BY <1>2 DEF LoadCol
<1>3. CASE NewlineRow
  BY <1>3, OutsideType DEF NewlineRow, Cpu, Places
<1>4. CASE LoadRow
  BY <1>4 DEF LoadRow
<1>5. CASE StoreCell
  <2>1. cells' \in [Rows -> [Cols -> Glyphs]]
    BY <1>5, StoredType DEF StoreCell
  <2> QED BY <1>5, <2>1 DEF StoreCell
<1>6. CASE Advance
  <2>1. CASE cpu.col + 1 >= VGA_WIDTH
    <3>1. col' = 0 /\ cpu' = [cpu EXCEPT !.at = "wrap", !.row = @ + 1]
      BY <1>6, <2>1 DEF Advance
    <3>2. col' \in Cols
      BY <3>1 DEF Cols
    <3>3. cpu' \in Cpu
      <4>1. cpu.row + 1 \in Nat
        OBVIOUS
      <4> QED BY <3>1, <4>1, Zenon DEF Cpu, Places
    <3> QED BY <1>6, <3>2, <3>3 DEF Advance, Cpu, Places
  <2>2. CASE ~(cpu.col + 1 >= VGA_WIDTH)
    <3>1. col' \in Cols
      BY <1>6, <2>2 DEF Advance, Cols
    <3>2. cpu' \in Cpu
      BY <1>6, <2>2, AfterType DEF Advance
    <3> QED BY <1>6, <3>1, <3>2 DEF Advance, Cpu, Places
  <2> QED BY <2>1, <2>2
<1>7. CASE Wrap
  <2>1. cpu' \in Cpu
    BY <1>7, AfterType DEF Wrap
  <2> QED BY <1>7, <2>1 DEF Wrap, Cpu, Places
<1>8. CASE Scroll
  <2>1. CASE cpu.line < VGA_HEIGHT - 1
    <3>1. cpu.line + 1 \in Rows
      BY <2>1 DEF Rows
    <3> QED BY <1>8, <2>1, <3>1 DEF Scroll
  <2>2. CASE ~(cpu.line < VGA_HEIGHT - 1)
    <3>1. [Outside EXCEPT !.at = "last"] \in Cpu
      BY OutsideType DEF Cpu, Places
    <3>2. cells' \in [Rows -> [Cols -> Glyphs]]
      BY <1>8, <2>2, BlankRowType DEF Scroll
    <3>3. cpu' = [Outside EXCEPT !.at = "last"] /\ UNCHANGED <<row, col, torn>>
      BY <1>8, <2>2, Zenon DEF Scroll
    <3>4. cpu' \in Cpu
      BY <3>1, <3>3, Zenon
    <3> HIDE DEF ScreenTypeOK
    <3> QED BY <3>2, <3>3, <3>4, Zenon DEF ScreenTypeOK, Cpu, Places
  <2> QED BY <2>1, <2>2
<1>9. CASE LastRow
  BY <1>9, OutsideType DEF LastRow, Cpu, Places
<1>10. CASE \E c \in Glyphs \cup {NEWLINE, BACKSPACE} : HandlerPut(c)
  BY <1>10, PutType DEF HandlerPut
<1>11. CASE HandlerClear
  BY <1>11, BlankRowType DEF HandlerClear, Cols
<1>12. CASE UNCHANGED screen
  BY <1>12 DEF screen
<1> QED
  BY <1>1, <1>2, <1>3, <1>4, <1>5, <1>6, <1>7, <1>8, <1>9, <1>10, <1>11, <1>12
     DEF ScreenNext, Inside

\* The column is inside the line at every moment, also between two steps of
\* an interrupted terminal_writechar.
THEOREM TypeCorrect == ScreenSpec => []ScreenTypeOK
BY InitType, NextType, PTL DEF ScreenSpec

-----------------------------------------------------------------------------
(* The screen ahead of the cursor.                                         *)

\* The lines below the cursor's.
LEMMA BlankBelow ==
  ASSUME NEW r \in Nat, NEW c \in Nat, BlankFrom(r, c)
  PROVE  BlankFrom(r + 1, 0)
BY DEF BlankFrom, Rows, Cols

\* A character that the handler writes while the main program is outside.
LEMMA PutAhead ==
  ASSUME ScreenTypeOK, BlankFrom(row, col),
         NEW c \in Glyphs \cup {NEWLINE, BACKSPACE}, Put(c)
  PROVE  BlankFrom(row, col)'
<1> USE TerminalAssumption DEF ScreenTypeOK
<1>1. CASE c = NEWLINE /\ PutNewline
  <2>1. BlankFrom(row + 1, 0)
    BY BlankBelow DEF Cols
  <2> QED BY <1>1, <2>1 DEF PutNewline, BlankFrom
<1>2. CASE c = BACKSPACE /\ PutBackspace
  BY <1>2 DEF PutBackspace, BlankFrom, Stored, Rows, Cols
<1>3. CASE c \in Glyphs /\ PutGlyph(c)
  <2> DEFINE wraps == col + 1 >= VGA_WIDTH
             r == IF wraps THEN row + 1 ELSE row
  <2>1. /\ col' = IF wraps THEN 0 ELSE col + 1
        /\ row' = IF r >= VGA_HEIGHT THEN VGA_HEIGHT - 1 ELSE r
        /\ cells' = IF r >= VGA_HEIGHT THEN Scrolled(Stored(row, col, c))
                    ELSE Stored(row, col, c)
    BY <1>3 DEF PutGlyph
  <2>2. CASE r >= VGA_HEIGHT
    <3>1. cells'[VGA_HEIGHT - 1] = BlankRow
      BY <2>1, <2>2 DEF Scrolled, Rows
    <3>2. col' \in Nat
      BY <2>1 DEF Cols
    <3> QED BY <2>1, <2>2, <3>1, <3>2 DEF BlankFrom, BlankRow, Rows, Cols
  <2>3. CASE ~(r >= VGA_HEIGHT)
    <3>1. cells' = Stored(row, col, c)
      BY <2>1, <2>3
    <3>2. \A i \in Rows, j \in Cols :
            i > row \/ (i = row /\ j >= col + 1) => cells'[i][j] = BLANK
      BY <1>3, <3>1 DEF BlankFrom, Stored, Rows, Cols
    <3>3. row' > row \/ (row' = row /\ col' = col + 1)
      BY <2>1, <2>3
    <3>4. row' \in Nat /\ col' \in Nat
      BY <2>1, <2>3 DEF Cols
    <3> QED BY <3>2, <3>3, <3>4 DEF BlankFrom, Rows, Cols
  <2> QED BY <2>2, <2>3
<1> QED BY <1>1, <1>2, <1>3 DEF Put

\* Every step keeps what Ahead says.
LEMMA NextAhead == ScreenTypeOK /\ Ahead /\ [ScreenNext]_screen => Ahead'
<1> SUFFICES ASSUME ScreenTypeOK, Ahead, [ScreenNext]_screen, ~torn'
             PROVE  Ahead'
  BY DEF Ahead
<1> USE TerminalAssumption
<1> USE DEF ScreenTypeOK
<1>1. CASE Newline
  <2>1. cpu.at = "out" /\ ~torn
    BY <1>1 DEF Newline
  <2>2. BlankFrom(row, col)
    BY <2>1 DEF Ahead
  <2>3. BlankFrom(row + 1, 0)
    BY <2>2, BlankBelow DEF Cols
  <2>4. cpu'.at = "newline" /\ col' = 0 /\ row' = row /\ cells' = cells
    BY <1>1 DEF Newline
  <2> QED BY <2>3, <2>4 DEF Ahead, BlankFrom
<1>2. CASE \E g \in Glyphs : LoadCol(g)
  <2>1. /\ cpu.at = "out" /\ ~torn
        /\ cpu'.at = "load" /\ cpu'.col = col
        /\ UNCHANGED <<row, col, cells>>
    BY <1>2 DEF LoadCol
  <2> QED BY <2>1 DEF Ahead, BlankFrom
<1>3. CASE NewlineRow
  <2>1. /\ cpu.at = "newline" /\ ~torn
        /\ cpu'.at = "out" /\ row' = row + 1
        /\ UNCHANGED <<col, cells>>
    BY <1>3 DEF NewlineRow, Outside
  <2> QED BY <2>1 DEF Ahead, BlankFrom
<1>4. CASE LoadRow
  <2>1. /\ cpu.at = "load" /\ ~torn
        /\ cpu'.at = "store" /\ cpu'.col = cpu.col /\ cpu'.row = row
        /\ UNCHANGED <<row, col, cells>>
    BY <1>4 DEF LoadRow
  <2> QED BY <2>1 DEF Ahead, BlankFrom
<1>5. CASE StoreCell
  <2>1. /\ cpu.at = "store" /\ ~torn
        /\ cpu'.at = "advance" /\ cpu'.col = cpu.col /\ cpu'.row = cpu.row
        /\ cells' = Stored(cpu.row, cpu.col, cpu.char)
        /\ UNCHANGED <<row, col>>
    BY <1>5 DEF StoreCell
  <2>2. cpu.row = row /\ cpu.col = col /\ BlankFrom(row, col)
    BY <2>1 DEF Ahead
  <2>3. \A i \in Rows, j \in Cols :
          i > row \/ (i = row /\ j >= col + 1) => cells'[i][j] = BLANK
    BY <2>1, <2>2 DEF BlankFrom, Stored, Rows, Cols
  <2> QED BY <2>1, <2>2, <2>3 DEF Ahead, BlankFrom
<1>6. CASE Advance
  <2>1. /\ cpu.at = "advance" /\ ~torn
        /\ UNCHANGED <<row, cells>>
    BY <1>6 DEF Advance
  <2>2. cpu.row = row /\ cpu.col = col /\ BlankFrom(row, col + 1)
    BY <2>1 DEF Ahead
  <2>3. CASE cpu.col + 1 >= VGA_WIDTH
    <3>1. col' = 0 /\ cpu'.at = "wrap" /\ cpu'.row = cpu.row + 1
      BY <1>6, <2>3 DEF Advance
    <3>2. BlankFrom(row + 1, 0)
      BY <2>2, BlankBelow DEF Cols
    <3> QED BY <2>1, <2>2, <3>1, <3>2 DEF Ahead, BlankFrom
  <2>4. CASE ~(cpu.col + 1 >= VGA_WIDTH)
    <3>1. col' = col + 1 /\ cpu'.at \in {"out", "scroll"}
      BY <1>6, <2>2, <2>4 DEF Advance, After, Outside
    <3> QED BY <2>1, <2>2, <3>1 DEF Ahead, BlankFrom
  <2> QED BY <2>3, <2>4
<1>7. CASE Wrap
  <2>1. /\ cpu.at = "wrap" /\ ~torn
        /\ cpu'.at \in {"out", "scroll"} /\ row' = cpu.row
        /\ UNCHANGED <<col, cells>>
    BY <1>7 DEF Wrap, After, Outside
  <2> QED BY <2>1 DEF Ahead, BlankFrom
<1>8. CASE Scroll
  <2>1. CASE cpu.line < VGA_HEIGHT - 1
    <3>1. cpu'.at = "scroll"
      BY <1>8, <2>1 DEF Scroll
    <3> QED BY <3>1 DEF Ahead
  <2>2. CASE ~(cpu.line < VGA_HEIGHT - 1)
    <3>1. cpu'.at = "last" /\ cells'[VGA_HEIGHT - 1] = BlankRow
      BY <1>8, <2>2 DEF Scroll, Outside, Rows
    <3> QED BY <3>1 DEF Ahead, BlankRow
  <2> QED BY <2>1, <2>2
<1>9. CASE LastRow
  <2>1. /\ cpu.at = "last" /\ ~torn
        /\ cpu'.at = "out" /\ row' = VGA_HEIGHT - 1
        /\ UNCHANGED <<col, cells>>
    BY <1>9 DEF LastRow, Outside
  <2>2. cells[VGA_HEIGHT - 1] = BlankRow
    BY <2>1 DEF Ahead
  <2>3. \A i \in Rows, j \in Cols :
          i > VGA_HEIGHT - 1 \/ (i = VGA_HEIGHT - 1 /\ j >= col)
            => cells[i][j] = BLANK
    <3>1. \A j \in Cols : cells[VGA_HEIGHT - 1][j] = BLANK
      BY <2>2 DEF BlankRow
    <3> QED BY <3>1 DEF Rows
  <2> QED BY <2>1, <2>3 DEF Ahead, BlankFrom
<1>10. CASE \E c \in Glyphs \cup {NEWLINE, BACKSPACE} : HandlerPut(c)
  <2>1. PICK c \in Glyphs \cup {NEWLINE, BACKSPACE} : HandlerPut(c)
    BY <1>10
  <2>2. cpu.at = "out" /\ ~torn /\ cpu' = cpu
    BY <2>1 DEF HandlerPut
  <2>3. BlankFrom(row, col)
    BY <2>2 DEF Ahead
  <2>4. BlankFrom(row, col)'
    BY <2>1, <2>3, PutAhead DEF HandlerPut
  <2> QED BY <2>2, <2>4 DEF Ahead
<1>11. CASE HandlerClear
  <2>1. cpu.at = "out" /\ cpu' = cpu /\ cells' = [r \in Rows |-> BlankRow]
    BY <1>11 DEF HandlerClear
  <2> QED BY <2>1 DEF Ahead, BlankFrom, BlankRow
<1>12. CASE UNCHANGED screen
  BY <1>12 DEF screen, Ahead, BlankFrom
<1> QED
  BY <1>1, <1>2, <1>3, <1>4, <1>5, <1>6, <1>7, <1>8, <1>9, <1>10, <1>11, <1>12
     DEF ScreenNext, Inside

\* What terminal_writechar prints goes onto empty cells: nothing is ahead of
\* the cursor between two calls, unless a handler wrote in the middle of a
\* call of the main program.
THEOREM BlankAheadHolds == ScreenSpec => []BlankAhead
<1>1. ScreenInit => Ahead
  BY DEF ScreenInit, Ahead, Outside, BlankFrom, BlankRow
<1>2. Ahead => BlankAhead
  BY DEF Ahead, BlankAhead
<1> QED BY <1>1, <1>2, TypeCorrect, NextAhead, PTL DEF ScreenSpec
=============================================================================
