---------------------------- MODULE ConsoleProofs ----------------------------
(***************************************************************************)
(* Proofs about the console, for every size of the buffer and the screen   *)
(* and any number of keys: the command never outgrows its buffer, the      *)
(* console drives the terminal as Terminal says, so that text goes onto    *)
(* empty cells, keyboard.c implements the line editor, and the line on the *)
(* screen is the line in the buffer.                                       *)
(*                                                                         *)
(* TypeOK is not inductive: the string that Enter passes to the shell ends *)
(* before the first NUL, and is the line only if no NUL is in the line.    *)
(* LineFull says so; nothing is said of the buffer behind the line, where  *)
(* characters of earlier lines stay.                                       *)
(***************************************************************************)
EXTENDS Console, TerminalProofs, SequenceTheorems

LineFull == \A i \in 0 .. CMD_MAX : i < cmd_pos => cmd_buffer[i] \in Chars

IInv == TypeOK /\ LineFull

-----------------------------------------------------------------------------
(* The buffer.                                                             *)

LEMMA NulIsNoChar == NUL \notin Chars
BY DEF NUL, Chars, Lower, Other, TAB, Accents

LEMMA LineType == ASSUME IInv PROVE line \in Seq(Chars) /\ Len(line) = cmd_pos
<1> USE ConsoleAssumption DEF IInv, TypeOK
<1>1. cmd_pos \in Nat
  OBVIOUS
<1>2. \A i \in 1 .. cmd_pos : cmd_buffer[i - 1] \in Chars
  BY DEF LineFull
<1> QED BY <1>1, <1>2 DEF line

\* The string up to a NUL that is put behind the line is the line.
LEMMA Terminated ==
  ASSUME IInv PROVE CString([cmd_buffer EXCEPT ![cmd_pos] = NUL]) = line
<1> USE ConsoleAssumption DEF IInv, TypeOK
<1> DEFINE b == [cmd_buffer EXCEPT ![cmd_pos] = NUL]
           IsEnd(n) == b[n] = NUL /\ \A m \in 0 .. n - 1 : b[m] # NUL
           end == CHOOSE n \in 0 .. CMD_MAX : IsEnd(n)
<1>1. \A m \in 0 .. cmd_pos - 1 : b[m] = cmd_buffer[m] /\ b[m] # NUL
  BY NulIsNoChar DEF LineFull
<1>2. b[cmd_pos] = NUL
  OBVIOUS
<1> HIDE DEF b
<1>3. \A n \in 0 .. CMD_MAX : IsEnd(n) <=> n = cmd_pos
  <2> SUFFICES ASSUME NEW n \in 0 .. CMD_MAX PROVE IsEnd(n) <=> n = cmd_pos
    OBVIOUS
  <2>1. CASE n < cmd_pos
    BY <1>1, <2>1
  <2>2. CASE n = cmd_pos
    BY <1>1, <1>2, <2>2
  <2>3. CASE n > cmd_pos
    <3>1. cmd_pos \in 0 .. n - 1
      BY <2>3
    <3> QED BY <1>2, <2>3, <3>1
  <2> QED BY <2>1, <2>2, <2>3
<1> HIDE DEF IsEnd
<1>4. end = cmd_pos
  BY <1>3
<1>5. CString(b) = [i \in 1 .. end |-> b[i - 1]]
  BY DEF CString, IsEnd
<1> HIDE DEF end, b
<1>6. CString(b) = [i \in 1 .. cmd_pos |-> b[i - 1]]
  BY <1>4, <1>5
<1>7. \A i \in 1 .. cmd_pos : b[i - 1] = cmd_buffer[i - 1]
  BY <1>1
<1> QED BY <1>6, <1>7 DEF line, b

\* What a key appends fits into the buffer.
LEMMA RoomType ==
  ASSUME TypeOK, NEW s \in Seq(Chars)
  PROVE  /\ Room(s) \in 0 .. Len(s) /\ cmd_pos + Room(s) \in 0 .. CMD_MAX
BY ConsoleAssumption DEF Room, TypeOK

LEMMA AddKeeps ==
  ASSUME IInv, NEW s \in Seq(Chars), Add(s)
  PROVE  /\ cmd_buffer' \in [0 .. CMD_MAX -> Chars \cup {NUL}]
         /\ cmd_pos' \in 0 .. CMD_MAX
         /\ LineFull'
<1> USE ConsoleAssumption DEF IInv, TypeOK
<1> DEFINE n == Room(s)
<1>1. n \in 0 .. Len(s) /\ cmd_pos + n \in 0 .. CMD_MAX
  BY RoomType
<1>2. \A i \in cmd_pos .. cmd_pos + n - 1 : s[i - cmd_pos + 1] \in Chars
  BY <1>1
<1>3. /\ cmd_buffer' = [i \in 0 .. CMD_MAX |->
                          IF i \in cmd_pos .. cmd_pos + n - 1
                          THEN s[i - cmd_pos + 1] ELSE cmd_buffer[i]]
      /\ cmd_pos' = cmd_pos + n
  BY DEF Add
<1> HIDE DEF n
<1>4. cmd_buffer' \in [0 .. CMD_MAX -> Chars \cup {NUL}]
  BY <1>2, <1>3
<1>5. LineFull'
  BY <1>1, <1>2, <1>3 DEF LineFull
<1> QED BY <1>1, <1>3, <1>4, <1>5

\* The line after it.
LEMMA AddLine ==
  ASSUME IInv, NEW s \in Seq(Chars), Add(s)
  PROVE  line' = line \o SubSeq(s, 1, Room(s))
<1> USE ConsoleAssumption DEF IInv, TypeOK
<1> DEFINE n == Room(s)
           t == SubSeq(s, 1, n)
<1>1. n \in 0 .. Len(s) /\ cmd_pos + n \in 0 .. CMD_MAX
  BY RoomType
<1>2. /\ cmd_buffer' = [i \in 0 .. CMD_MAX |->
                          IF i \in cmd_pos .. cmd_pos + n - 1
                          THEN s[i - cmd_pos + 1] ELSE cmd_buffer[i]]
      /\ cmd_pos' = cmd_pos + n
  BY DEF Add
<1>3. t \in Seq(Chars) /\ Len(t) = n /\ \A i \in 1 .. n : t[i] = s[i]
  BY <1>1
<1>4. line \in Seq(Chars) /\ Len(line) = cmd_pos
  BY LineType
<1> HIDE DEF n, t
<1>5. line' = [i \in 1 .. cmd_pos + n |-> cmd_buffer'[i - 1]]
  BY <1>2 DEF line
<1>6. \A i \in 1 .. cmd_pos + n :
        cmd_buffer'[i - 1] = IF i <= cmd_pos THEN line[i] ELSE t[i - cmd_pos]
  BY <1>1, <1>2, <1>3 DEF line
<1>7. line' \in Seq(Chars) /\ Len(line') = cmd_pos + n
  <2>1. LineFull'
    BY AddKeeps
  <2>2. \A i \in 1 .. cmd_pos + n : cmd_buffer'[i - 1] \in Chars
    BY <1>1, <1>2, <2>1 DEF LineFull
  <2> QED BY <1>1, <1>5, <2>2
<1>8. /\ line \o t \in Seq(Chars) /\ Len(line \o t) = cmd_pos + n
      /\ \A i \in 1 .. cmd_pos + n :
           (line \o t)[i] = IF i <= cmd_pos THEN line[i] ELSE t[i - cmd_pos]
  <2>1. /\ line \o t \in Seq(Chars) /\ Len(line \o t) = Len(line) + Len(t)
        /\ \A i \in 1 .. Len(line) + Len(t) :
             (line \o t)[i] = IF i <= Len(line) THEN line[i] ELSE t[i - Len(line)]
    <3>1. \A a, b \in Seq(Chars) :
            /\ a \o b \in Seq(Chars) /\ Len(a \o b) = Len(a) + Len(b)
            /\ \A i \in 1 .. Len(a) + Len(b) :
                 (a \o b)[i] = IF i <= Len(a) THEN a[i] ELSE b[i - Len(a)]
      BY ConcatProperties
    <3> QED BY <1>3, <1>4, <3>1, Zenon
  <2>2. Len(line) = cmd_pos /\ Len(t) = n
    BY <1>3, <1>4
  <2> QED BY <2>1, <2>2
<1>9. \A i \in 1 .. cmd_pos + n : line'[i] = (line \o t)[i]
  BY <1>5, <1>6, <1>8
<1>10. line' = line \o t
  BY <1>7, <1>8, <1>9, SeqEqual
<1> QED BY <1>10 DEF n, t

-----------------------------------------------------------------------------
(* Types.                                                                  *)

\* What such a key leaves, the buffer aside.
Sane ==
  dead_key \in Accents \cup {NUL} /\ exact \in BOOLEAN /\ out \in Seq(Chars)

\* What Echoed leaves is a truth value.
LEMMA EchoedType == ASSUME NEW s, Echoed(s) PROVE exact' \in BOOLEAN
BY DEF Echoed

\* A key with a character of its own appends nothing, one or two characters.
LEMMA CharacterTypes ==
  ASSUME IInv, NEW normal \in Chars, NEW shifted \in Chars,
         Character(normal, shifted)
  PROVE  /\ Sane'
         /\ \/ UNCHANGED buffer
            \/ \E c \in Chars : Add(<<c>>)
            \/ \E d, c \in Chars : Add(<<d, c>>)
<1> USE DEF IInv, TypeOK
<1> DEFINE ascii == IF shift_pressed THEN shifted ELSE normal
           c == IF caps_lock /\ ~shift_pressed /\ ascii \in Lower
                THEN Other ELSE ascii
<1>1. ascii \in Chars /\ c \in Chars
  BY DEF Chars
<1>2. Accents \subseteq Chars
  BY DEF Chars
<1>3. exact \in BOOLEAN
  OBVIOUS
<1>4. \/ /\ dead_key' = NUL /\ out' = <<>>
         /\ UNCHANGED <<buffer, exact>>
      \/ dead_key # NUL /\ AccentApart(c)
      \/ /\ ascii \in Accents
         /\ dead_key' = ascii /\ out' = <<>>
         /\ UNCHANGED <<buffer, exact>>
      \/ Plain(c)
  BY DEF Character
<1> HIDE DEF c, ascii
<1>5. CASE dead_key # NUL /\ AccentApart(c)
  <2>1. dead_key \in Chars
    BY <1>2, <1>5
  <2>2. Add(<<dead_key, c>>) /\ Echoed(<<dead_key, c>>)
    BY <1>5 DEF AccentApart
  <2>3. dead_key' = NUL /\ out' \in {<<dead_key, c>>, <<dead_key>>}
    BY <1>5 DEF AccentApart
  <2>4. exact' \in BOOLEAN
    BY <2>2, EchoedType
  <2>5. Sane'
    <3>1. out' \in Seq(Chars)
      <4>1. out' = <<dead_key, c>> \/ out' = <<dead_key>>
        BY <2>3, Zenon
      <4>2. <<dead_key, c>> \in Seq(Chars) /\ <<dead_key>> \in Seq(Chars)
        BY <1>1, <2>1
      <4> QED BY <4>1, <4>2, Zenon
    <3>2. dead_key' \in Accents \cup {NUL}
      BY <2>3
    <3> QED BY <3>1, <3>2, <2>4, Zenon DEF Sane
  <2>6. \E d, e \in Chars : Add(<<d, e>>)
    BY <1>1, <2>1, <2>2
  <2> QED BY <2>5, <2>6
<1>6. CASE Plain(c)
  <2>1. Add(<<c>>) /\ Echoed(<<c>>)
    BY <1>6 DEF Plain
  <2>2. dead_key' = dead_key /\ out' \in {<<>>, <<c>>}
    BY <1>6 DEF Plain
  <2>3. exact' \in BOOLEAN
    BY <2>1, EchoedType
  <2>4. Sane'
    <3>1. out' \in Seq(Chars)
      <4>1. out' = <<>> \/ out' = <<c>>
        BY <2>2, Zenon
      <4>2. <<>> \in Seq(Chars) /\ <<c>> \in Seq(Chars)
        BY <1>1
      <4> QED BY <4>1, <4>2, Zenon
    <3>2. dead_key' \in Accents \cup {NUL}
      BY <2>2
    <3> QED BY <3>1, <3>2, <2>3, Zenon DEF Sane
  <2>5. \E d \in Chars : Add(<<d>>)
    BY <1>1, <2>1
  <2> QED BY <2>4, <2>5
<1>7. CASE /\ out' = <<>> /\ UNCHANGED <<buffer, exact>>
           /\ dead_key' \in Accents \cup {NUL}
  BY <1>3, <1>7 DEF Sane
<1> QED BY <1>4, <1>5, <1>6, <1>7

-----------------------------------------------------------------------------
(* The screen.                                                             *)

\* Every step of the console is one of the terminal's, or leaves it alone.
LEMMA ScreenStep == TypeOK /\ [Next]_vars => [ScreenNext]_screen
<1> SUFFICES ASSUME TypeOK, [Next]_vars PROVE [ScreenNext]_screen
  OBVIOUS
<1>1. CASE MainStep
  <2>1. CASE MainPrints
    <3>1. main # <<>> /\ main \in Seq(Glyphs \cup {NEWLINE, STI})
      BY <2>1 DEF MainPrints, TypeOK
    <3>2. Head(main) \in Glyphs \cup {NEWLINE, STI}
      BY <3>1, HeadTailProperties
    <3> QED BY <2>1, <3>2 DEF MainPrints, ScreenNext
  <2> QED BY <1>1, <2>1 DEF MainStep, ScreenNext
<1>2. CASE HandlerStep
  <2>1. out # <<>> /\ out \in Seq(Glyphs \cup {NEWLINE, BACKSPACE, CLEAR})
    BY <1>2 DEF HandlerStep, TypeOK
  <2>2. Head(out) \in Glyphs \cup {NEWLINE, BACKSPACE, CLEAR}
    BY <2>1, HeadTailProperties
  <2> QED BY <1>2, <2>2 DEF HandlerStep, ScreenNext
<1>3. CASE Key
  BY <1>3 DEF Key, Shift, CapsLock, Character, Tab, Backspace, Escape, Enter,
              Submit, Edits, Pressed
<1>4. CASE UNCHANGED vars
  BY <1>4 DEF vars
<1> QED BY <1>1, <1>2, <1>3, <1>4 DEF Next

-----------------------------------------------------------------------------
(* The invariant.                                                          *)

\* TypeOK without the screen and without the line.
Flags ==
  /\ interrupts \in BOOLEAN /\ stopped \in BOOLEAN /\ exact \in BOOLEAN
  /\ shift_pressed \in BOOLEAN /\ caps_lock \in BOOLEAN
  /\ dead_key \in Accents \cup {NUL}

Printing ==
  /\ main \in Seq(Glyphs \cup {NEWLINE, STI})
  /\ out \in Seq(Glyphs \cup {NEWLINE, BACKSPACE, CLEAR})

Buffer ==
  /\ cmd_buffer \in [0 .. CMD_MAX -> Chars \cup {NUL}]
  /\ cmd_pos \in 0 .. CMD_MAX
  /\ given \in Seq(Chars)
  /\ LineFull

LEMMA Parts == IInv <=> ScreenTypeOK /\ Flags /\ Printing /\ Buffer
BY DEF IInv, TypeOK, Flags, Printing, Buffer

LEMMA InitIInv == Init => IInv
<1> SUFFICES ASSUME Init PROVE IInv
  OBVIOUS
<1>1. ScreenTypeOK
  BY InitType DEF Init
<1>2. Flags
  BY DEF Init, Flags
<1>3. Printing
  BY ConsoleAssumption DEF Init, Printing
<1>4. Buffer
  BY ConsoleAssumption DEF Init, Buffer, LineFull
<1> QED BY <1>1, <1>2, <1>3, <1>4, Parts

\* What the handler prints for a command.
LEMMA CommandType ==
  ASSUME Command, stopped \in BOOLEAN
  PROVE  /\ out' \in Seq(Glyphs \cup {NEWLINE, BACKSPACE, CLEAR})
         /\ stopped' \in BOOLEAN
<1> DEFINE P == Glyphs \cup {NEWLINE, BACKSPACE, CLEAR}
<1>1. NEWLINE \in P /\ PROMPT \in P /\ MESSAGE \in P
  BY ConsoleAssumption
<1>2. \A r \in Responses : r \in Seq(P)
  BY ConsoleAssumption, SeqMonotonic
<1> HIDE DEF P
<1>3. /\ <<NEWLINE>> \in Seq(P) /\ <<NEWLINE, PROMPT>> \in Seq(P)
      /\ <<NEWLINE, NEWLINE, MESSAGE, NEWLINE>> \in Seq(P)
  BY <1>1
<1>4. \A r \in Responses : <<NEWLINE>> \o r \o <<NEWLINE, PROMPT>> \in Seq(P)
  BY <1>2, <1>3, ConcatProperties
<1>5. out' \in Seq(P)
  BY <1>3, <1>4 DEF Command
<1>6. stopped' \in BOOLEAN
  BY DEF Command
<1> QED BY <1>5, <1>6 DEF P

\* Enter hands over the line, and leaves none.
LEMMA EnterGives ==
  ASSUME IInv, Enter
  PROVE  /\ given' = line
         /\ Flags' /\ Printing' /\ Buffer'
         /\ IF stopped' THEN line' = line ELSE cmd_pos' = 0
<1> DEFINE b == [cmd_buffer EXCEPT ![cmd_pos] = NUL]
<1>1. Flags /\ Printing /\ Buffer
  BY Parts
<1>2. given' = line
  BY Terminated DEF Enter, Submit
<1>3. out' \in Seq(Glyphs \cup {NEWLINE, BACKSPACE, CLEAR}) /\ stopped' \in BOOLEAN
  BY <1>1, CommandType DEF Enter, Submit, Flags
<1>4. Printing'
  BY <1>1, <1>3 DEF Enter, Submit, Pressed, Printing
<1>5. Flags'
  BY <1>1, <1>3 DEF Enter, Submit, Pressed, modifiers, Flags
<1>6. line \in Seq(Chars)
  BY LineType
<1>7. b \in [0 .. CMD_MAX -> Chars \cup {NUL}]
      /\ \A i \in 0 .. CMD_MAX : i < cmd_pos => b[i] = cmd_buffer[i]
  BY <1>1 DEF Buffer
<1>8. CASE stopped'
  <2>1. cmd_pos' = cmd_pos /\ cmd_buffer' = b
    BY <1>8 DEF Enter, Submit
  <2>2. LineFull'
    BY <1>1, <1>7, <2>1 DEF Buffer, LineFull
  <2>3. \A i \in 1 .. cmd_pos : b[i - 1] = cmd_buffer[i - 1]
    BY <1>1, <1>7, ConsoleAssumption DEF Buffer
  <2>4. line' = line
    BY <2>1, <2>3 DEF line
  <2> HIDE DEF b
  <2>5. Buffer'
    BY <1>1, <1>2, <1>6, <1>7, <2>1, <2>2 DEF Buffer
  <2> QED BY <1>2, <1>4, <1>5, <1>8, <2>4, <2>5
<1>9. CASE ~stopped'
  <2>1. cmd_pos' = 0 /\ cmd_buffer' = [b EXCEPT ![0] = NUL]
    BY <1>9 DEF Enter, Submit
  <2>2. Buffer'
    BY <1>2, <1>6, <1>7, <2>1, ConsoleAssumption DEF Buffer, LineFull
  <2> QED BY <1>2, <1>4, <1>5, <1>9, <2>1, <2>2
<1> QED BY <1>8, <1>9

LEMMA CharacterKeeps ==
  ASSUME IInv, NEW normal \in Chars, NEW shifted \in Chars,
         Character(normal, shifted)
  PROVE  Flags' /\ Printing' /\ Buffer'
<1>1. Flags /\ Printing /\ Buffer
  BY Parts
<1>2. Sane'
  BY CharacterTypes
<1>3. UNCHANGED <<modifiers, stopped, given, main, interrupts>>
  BY DEF Character, Edits, Pressed
<1>4. Flags'
  BY <1>1, <1>2, <1>3 DEF Flags, Sane, modifiers
<1>5. Printing'
  <2>1. Chars \subseteq Glyphs \cup {NEWLINE, BACKSPACE, CLEAR}
    BY ConsoleAssumption
  <2>2. out' \in Seq(Chars)
    BY <1>2 DEF Sane
  <2> HIDE DEF Chars
  <2>3. out' \in Seq(Glyphs \cup {NEWLINE, BACKSPACE, CLEAR})
    BY <2>1, <2>2, SeqMonotonic
  <2> QED BY <1>1, <1>3, <2>3 DEF Printing
<1>6. Buffer'
  <2>1. CASE UNCHANGED buffer
    BY <1>1, <1>3, <2>1 DEF Buffer, LineFull, buffer
  <2>2. CASE \E c \in Chars : Add(<<c>>)
    <3>1. PICK c \in Chars : Add(<<c>>)
      BY <2>2
    <3>2. <<c>> \in Seq(Chars)
      OBVIOUS
    <3> QED BY <1>1, <1>3, <3>1, <3>2, AddKeeps DEF Buffer
  <2>3. CASE \E d, c \in Chars : Add(<<d, c>>)
    <3>1. PICK d \in Chars, c \in Chars : Add(<<d, c>>)
      BY <2>3
    <3>2. <<d, c>> \in Seq(Chars)
      OBVIOUS
    <3> QED BY <1>1, <1>3, <3>1, <3>2, AddKeeps DEF Buffer
  <2> QED BY <2>1, <2>2, <2>3, CharacterTypes
<1> QED BY <1>4, <1>5, <1>6

LEMMA NextIInv == IInv /\ [Next]_vars => IInv'
<1> SUFFICES ASSUME IInv, [Next]_vars PROVE IInv'
  OBVIOUS
<1>1. ScreenTypeOK'
  BY ScreenStep, NextType, Parts DEF IInv
<1>2. Flags /\ Printing /\ Buffer
  BY Parts
<1> SUFFICES Flags' /\ Printing' /\ Buffer'
  BY <1>1 DEF IInv, TypeOK, Flags, Printing, Buffer
<1>3. CASE MainStep
  <2>1. Flags' /\ Buffer'
    BY <1>2, <1>3 DEF MainStep, MainPrints, Flags, Buffer, LineFull,
                      modifiers, buffer
  <2>2. main' \in Seq(Glyphs \cup {NEWLINE, STI})
    BY <1>2, <1>3, HeadTailProperties DEF MainStep, MainPrints, Printing
  <2> QED BY <1>2, <1>3, <2>1, <2>2 DEF MainStep, Printing
<1>4. CASE HandlerStep
  <2>1. Flags'
    BY <1>2, <1>4 DEF HandlerStep, Flags, modifiers
  <2>2. Printing'
    BY <1>2, <1>4, HeadTailProperties DEF HandlerStep, Printing
  <2>3. given' \in Seq(Chars)
    BY <1>2, <1>4, EmptySeq DEF HandlerStep, Buffer
  <2> QED BY <1>2, <1>4, <2>1, <2>2, <2>3 DEF HandlerStep, Buffer, LineFull, buffer
<1>5. CASE Shift \/ CapsLock
  BY <1>2, <1>5 DEF Shift, CapsLock, Pressed, Flags, Printing, Buffer, LineFull,
                    modifiers, buffer
<1>6. CASE \E c \in Lower \cup {Other} : Character(c, Other)
  BY <1>6, CharacterKeeps DEF Chars
<1>7. CASE \E c \in Accents : Character(c, c)
  BY <1>7, CharacterKeeps DEF Chars
<1>8. CASE Tab
  <2>1. TAB \in Chars
    BY DEF Chars
  <2>2. <<TAB>> \in Seq(Chars)
    BY <2>1
  <2>3. Buffer'
    BY <1>2, <1>8, <2>2, AddKeeps DEF Tab, Edits, Buffer
  <2>4. Flags'
    BY <1>2, <1>8, EchoedType DEF Tab, Edits, Pressed, Flags, modifiers
  <2>5. out' \in Seq(Glyphs \cup {NEWLINE, BACKSPACE, CLEAR})
    BY <1>8, <2>1, ConsoleAssumption DEF Tab
  <2> QED BY <1>2, <1>8, <2>3, <2>4, <2>5 DEF Tab, Edits, Pressed, Printing
<1>9. CASE Backspace
  <2>1. cmd_pos' \in 0 .. CMD_MAX /\ cmd_pos' <= cmd_pos /\ UNCHANGED cmd_buffer
    BY <1>2, <1>9, ConsoleAssumption DEF Backspace, Buffer
  <2>2. Buffer'
    BY <1>2, <1>9, <2>1 DEF Backspace, Edits, Buffer, LineFull
  <2>3. Flags'
    BY <1>2, <1>9 DEF Backspace, Edits, Pressed, Flags, modifiers
  <2>4. out' \in Seq(Glyphs \cup {NEWLINE, BACKSPACE, CLEAR})
    <3>1. /\ <<BACKSPACE, BLANK, BACKSPACE>>
                \in Seq(Glyphs \cup {NEWLINE, BACKSPACE, CLEAR})
          /\ <<>> \in Seq(Glyphs \cup {NEWLINE, BACKSPACE, CLEAR})
      BY TerminalAssumption
    <3> QED BY <1>9, <3>1 DEF Backspace
  <2> QED BY <1>2, <1>9, <2>2, <2>3, <2>4
          DEF Backspace, Edits, Pressed, Printing
<1>10. CASE Escape
  <2>1. Buffer'
    BY <1>2, <1>10, ConsoleAssumption DEF Escape, Buffer, LineFull
  <2>2. Flags'
    BY <1>2, <1>10 DEF Escape, Pressed, Flags, modifiers
  <2>3. out' \in Seq(Glyphs \cup {NEWLINE, BACKSPACE, CLEAR})
    BY <1>10, ConsoleAssumption DEF Escape
  <2> QED BY <1>2, <1>10, <2>1, <2>2, <2>3 DEF Escape, Pressed, Printing
<1>11. CASE Enter
  BY <1>11, EnterGives
<1>12. CASE UNCHANGED vars
  BY <1>2, <1>12 DEF vars, modifiers, buffer, Flags, Printing, Buffer, LineFull
<1> QED
  BY <1>3, <1>4, <1>5, <1>6, <1>7, <1>8, <1>9, <1>10, <1>11, <1>12 DEF Next, Key

LEMMA IInvAlways == Spec => []IInv
BY InitIInv, NextIInv, PTL DEF Spec

\* The command never outgrows its buffer, whatever keys are pressed, and the
\* terminator that Enter writes always has a place in it.
THEOREM ConsoleTypes == Spec => []TypeOK
BY IInvAlways, PTL DEF IInv

\* The console uses the terminal as Terminal describes it.
LEMMA Drives == Spec => ScreenSpec
<1>1. Init => ScreenInit
  BY DEF Init
<1> QED BY <1>1, ScreenStep, ConsoleTypes, PTL DEF Spec, ScreenSpec

\* Whatever the boot code, the echo of keys and the shell print, between two
\* calls of terminal_writechar the cells from the cursor on are blank,
\* unless a handler wrote in the middle of a call of the boot code.
THEOREM ConsoleBlankAhead == Spec => []BlankAhead
BY Drives, BlankAheadHolds, PTL

-----------------------------------------------------------------------------
(* The line editor.                                                        *)

\* The line of the abstract editor.
Shown == IF stopped THEN <<>> ELSE line

\* A line of no characters.
LEMMA EmptyLine == cmd_pos = 0 => line = <<>>
BY DEF line

LEMMA Prefixes ==
  ASSUME NEW s \in Seq(Chars), s # <<>>
  PROVE  SubSeq(s, 1, 1) = <<s[1]>> /\ SubSeq(s, 1, Len(s)) = s
<1>1. Len(s) \in Nat \ {0} /\ \A i \in 1 .. Len(s) : s[i] \in Chars
  BY EmptySeq, ElementOfSeq
<1>2. SubSeq(s, 1, 1) = <<s[1]>>
  <2>1. /\ SubSeq(s, 1, 1) \in Seq(Chars) /\ Len(SubSeq(s, 1, 1)) = 1
        /\ SubSeq(s, 1, 1)[1] = s[1]
    BY <1>1
  <2>2. <<s[1]>> \in Seq(Chars) /\ Len(<<s[1]>>) = 1 /\ <<s[1]>>[1] = s[1]
    BY <1>1
  <2> DEFINE t == SubSeq(s, 1, 1)
             u == <<s[1]>>
  <2>3. /\ t \in Seq(Chars) /\ u \in Seq(Chars) /\ Len(t) = Len(u)
        /\ \A i \in 1 .. Len(t) : t[i] = u[i]
    BY <2>1, <2>2
  <2> HIDE DEF t, u
  <2>4. t = u
    BY <2>3, SeqEqual
  <2> QED BY <2>4 DEF t, u
<1> QED BY <1>2, SubSeqFull

\* Appending one or two characters, or as many as there is room for.
LEMMA AppendOne ==
  ASSUME IInv, NEW c \in Chars, Add(<<c>>)
  PROVE  \/ line' = line
         \/ Len(line) + 1 <= CMD_MAX /\ line' = line \o <<c>>
<1>1. <<c>> \in Seq(Chars) /\ Len(<<c>>) = 1
  OBVIOUS
<1>2. line' = line \o SubSeq(<<c>>, 1, Room(<<c>>))
  BY <1>1, AddLine
<1>3. Room(<<c>>) \in 0 .. 1 /\ cmd_pos + Room(<<c>>) <= CMD_MAX
  <2>1. /\ Room(<<c>>) \in 0 .. Len(<<c>>)
        /\ cmd_pos + Room(<<c>>) \in 0 .. CMD_MAX
    BY <1>1, RoomType DEF IInv
  <2> QED BY <1>1, <2>1, ConsoleAssumption DEF IInv, TypeOK
<1>4. line \in Seq(Chars) /\ Len(line) = cmd_pos
  BY LineType
<1>5. CASE Room(<<c>>) = 0
  <2>1. SubSeq(<<c>>, 1, 0) = <<>>
    BY SubSeqEmpty
  <2> QED BY <1>2, <1>4, <1>5, <2>1, ConcatEmptySeq
<1>6. CASE Room(<<c>>) = 1
  <2>1. <<c>> # <<>> /\ <<c>>[1] = c
    OBVIOUS
  <2>2. SubSeq(<<c>>, 1, 1) = <<c>>
    BY <1>1, <2>1, Prefixes
  <2> QED BY <1>2, <1>3, <1>4, <1>6, <2>2
<1> QED BY <1>3, <1>5, <1>6

LEMMA AppendTwo ==
  ASSUME IInv, NEW c \in Chars, NEW d \in Chars, Add(<<c, d>>)
  PROVE  \/ line' = line
         \/ Len(line) + 1 <= CMD_MAX /\ line' = line \o <<c>>
         \/ Len(line) + 2 <= CMD_MAX /\ line' = line \o <<c, d>>
<1> DEFINE s == <<c, d>>
<1>1. s \in Seq(Chars) /\ Len(s) = 2
  OBVIOUS
<1>8. s # <<>> /\ s[1] = c
  OBVIOUS
<1>2. line' = line \o SubSeq(s, 1, Room(s))
  BY <1>1, AddLine
<1>3. Room(s) \in 0 .. 2 /\ cmd_pos + Room(s) <= CMD_MAX
  <2>1. Room(s) \in 0 .. Len(s) /\ cmd_pos + Room(s) \in 0 .. CMD_MAX
    BY <1>1, RoomType DEF IInv
  <2> QED BY <1>1, <2>1, ConsoleAssumption DEF IInv, TypeOK
<1>4. line \in Seq(Chars) /\ Len(line) = cmd_pos
  BY LineType
<1>5. CASE Room(s) = 0
  <2>1. SubSeq(s, 1, 0) = <<>>
    BY SubSeqEmpty
  <2> QED BY <1>2, <1>4, <1>5, <2>1, ConcatEmptySeq
<1>6. CASE Room(s) = 1
  <2>1. SubSeq(s, 1, 1) = <<c>>
    BY <1>1, <1>8, Prefixes
  <2> QED BY <1>2, <1>3, <1>4, <1>6, <2>1
<1>7. CASE Room(s) = 2
  <2>1. SubSeq(s, 1, 2) = s
    BY <1>1, <1>8, Prefixes
  <2> QED BY <1>2, <1>3, <1>4, <1>7, <2>1
<1> QED BY <1>3, <1>5, <1>6, <1>7

\* Every step of the console is one of the editor's, or changes neither the
\* line nor what the shell was given.
LEMMA EditorStep == IInv /\ [Next]_vars => [Editor!Next]_(Editor!vars)
<1> SUFFICES ASSUME IInv, [Next]_vars PROVE [Editor!Next]_(Editor!vars)
  OBVIOUS
<1> USE DEF Editor!vars
<1>1. line \in Seq(Chars) /\ Len(line) = cmd_pos /\ cmd_pos \in 0 .. CMD_MAX
  BY LineType DEF IInv, TypeOK
<1>2. ASSUME UNCHANGED <<buffer, stopped>> PROVE UNCHANGED Shown
  BY <1>2 DEF buffer, Shown, line
<1>3. CASE MainStep \/ Shift \/ CapsLock \/ UNCHANGED vars
  BY <1>2, <1>3 DEF MainStep, Shift, CapsLock, vars, Shown
<1>4. CASE HandlerStep
  BY <1>2, <1>4 DEF HandlerStep, Shown, Editor!Next, Editor!Return
<1>5. ASSUME NEW normal \in Chars, NEW shifted \in Chars,
             Character(normal, shifted)
      PROVE  [Editor!Next]_(Editor!vars)
  <2>1. UNCHANGED <<given, stopped>> /\ ~stopped
    BY <1>5 DEF Character, Edits, Pressed
  <2>2. CASE UNCHANGED buffer
    BY <1>2, <2>1, <2>2 DEF Shown
  <2>3. ASSUME NEW c \in Chars, Add(<<c>>) PROVE [Editor!Next]_(Editor!vars)
    BY <2>1, <2>3, AppendOne DEF Editor!Next, Editor!Insert
  <2>4. ASSUME NEW c \in Chars, NEW d \in Chars, Add(<<c, d>>)
        PROVE  [Editor!Next]_(Editor!vars)
    <3>1. Len(<<c>>) = 1 /\ Len(<<c, d>>) = 2
      OBVIOUS
    <3> QED BY <2>1, <2>4, <3>1, AppendTwo DEF Editor!Next, Editor!Insert
  <2> QED BY <1>5, <2>2, <2>3, <2>4, CharacterTypes
<1>6. CASE Tab
  <2>1. UNCHANGED <<given, stopped>> /\ ~stopped /\ Add(<<TAB>>)
    BY <1>6 DEF Tab, Edits, Pressed
  <2>2. TAB \in Chars
    BY DEF Chars
  <2> QED BY <2>1, <2>2, AppendOne DEF Editor!Next, Editor!Insert
<1>7. CASE Backspace
  <2>1. UNCHANGED <<given, cmd_buffer, stopped>> /\ ~stopped
    BY <1>7 DEF Backspace, Edits, Pressed
  <2>2. CASE cmd_pos > 0
    <3>1. line # <<>> /\ cmd_pos' = cmd_pos - 1
      BY <1>1, <1>7, <2>2 DEF Backspace
    <3>2. line' = [i \in 1 .. cmd_pos - 1 |-> cmd_buffer[i - 1]]
      BY <2>1, <3>1 DEF line
    <3>3. SubSeq(line, 1, cmd_pos - 1)
            = [i \in 1 .. cmd_pos - 1 |-> cmd_buffer[i - 1]]
      BY <1>1, <2>2 DEF line
    <3> QED BY <1>1, <2>1, <3>1, <3>2, <3>3 DEF Editor!Next, Editor!Erase
  <2>3. CASE ~(cmd_pos > 0)
    BY <1>2, <1>7, <2>1, <2>3 DEF Backspace, Shown, buffer
  <2> QED BY <2>2, <2>3
<1>8. CASE Escape
  <2>1. line' = <<>>
    BY <1>8 DEF Escape, line
  <2> QED BY <1>8, <2>1 DEF Escape, Editor!Next, Editor!Cancel
<1>9. CASE Enter
  <2>1. given' = line /\ ~stopped
    BY <1>9, EnterGives DEF Enter, Submit, Pressed
  <2>2. Shown' = <<>>
    BY <1>9, EnterGives DEF Shown, line
  <2> QED BY <2>1, <2>2 DEF Shown, Editor!Next, Editor!Submit
<1> QED
  BY <1>3, <1>4, <1>5, <1>6, <1>7, <1>8, <1>9 DEF Next, Key, Chars

\* Whatever keys are pressed, the shell is handed the line as the user edited
\* it: keyboard.c implements the abstract line editor.
THEOREM EditsLines == Spec => LineEditorSpec
<1>1. Init => Editor!Init
  BY EmptyLine DEF Init, Editor!Init
<1> QED
  BY <1>1, EditorStep, IInvAlways, PTL DEF Spec, LineEditorSpec, Editor!Spec

-----------------------------------------------------------------------------
(* The echo.                                                               *)
(*                                                                         *)
(* EchoExact is about moments at which nothing is left to be printed.  In  *)
(* between, what is left is the end of the line, or one of the three steps *)
(* of an erasure: Echo.                                                    *)

\* The first n characters of the line are on the screen in front of column c.
Here(n, c) ==
  /\ row < VGA_HEIGHT /\ n <= c
  /\ \A i \in 0 .. n - 1 : cells[row][c - n + i] = cmd_buffer[i]

Typed ==
  \/ /\ out = <<cmd_buffer[cmd_pos - 1]>>
     /\ col + 1 < VGA_WIDTH /\ Here(cmd_pos - 1, col)
  \/ /\ cmd_pos > 1
     /\ out = <<cmd_buffer[cmd_pos - 2], cmd_buffer[cmd_pos - 1]>>
     /\ col + 2 < VGA_WIDTH /\ Here(cmd_pos - 2, col)

Erased ==
  \/ out = <<BACKSPACE, BLANK, BACKSPACE>> /\ Here(cmd_pos, col - 1)
  \/ out = <<BLANK, BACKSPACE>> /\ Here(cmd_pos, col) /\ col + 1 < VGA_WIDTH
  \/ out = <<BACKSPACE>> /\ Here(cmd_pos, col - 1)

Echo == (out = <<>> /\ Here(cmd_pos, col)) \/ Typed \/ Erased

EInv ==
  exact /\ ~stopped /\ cmd_pos > 0 => main = <<>> /\ cpu.at = "out" /\ Echo

\* A character inside a line goes into its cell and into no other.
LEMMA GlyphHere ==
  ASSUME ScreenTypeOK, row < VGA_HEIGHT, col + 1 < VGA_WIDTH,
         NEW g \in Glyphs, Put(g)
  PROVE  /\ row' = row /\ col' = col + 1
         /\ cells'[row][col] = g
         /\ \A j \in Cols : j # col => cells'[row][j] = cells[row][j]
<1> USE TerminalAssumption
<1>1. PutGlyph(g)
  BY DEF Put
<1>2. row' = row /\ col' = col + 1 /\ cells' = Stored(row, col, g)
  BY <1>1 DEF PutGlyph, ScreenTypeOK, Cols
<1>3. row \in Rows /\ col \in Cols /\ cells \in [Rows -> [Cols -> Glyphs]]
  BY DEF ScreenTypeOK, Rows
<1>4. cells' = [cells EXCEPT ![row][col] = g]
  BY <1>2, <1>3 DEF Stored
<1> QED BY <1>2, <1>3, <1>4

LEMMA BackHere ==
  ASSUME ScreenTypeOK, row < VGA_HEIGHT, col > 0, Put(BACKSPACE)
  PROVE  /\ row' = row /\ col' = col - 1
         /\ \A j \in Cols : j # col - 1 => cells'[row][j] = cells[row][j]
<1> USE TerminalAssumption
<1>1. PutBackspace
  BY DEF Put
<1>2. row' = row /\ col' = col - 1 /\ cells' = Stored(row, col - 1, BLANK)
  BY <1>1 DEF PutBackspace
<1>3. row \in Rows /\ col - 1 \in Cols /\ cells \in [Rows -> [Cols -> Glyphs]]
  BY DEF ScreenTypeOK, Rows, Cols
<1>4. cells' = [cells EXCEPT ![row][col - 1] = BLANK]
  BY <1>2, <1>3 DEF Stored
<1> QED BY <1>2, <1>3, <1>4

\* The next character of the line is printed.
LEMMA HereGrows ==
  ASSUME IInv, NEW n \in 0 .. CMD_MAX - 1, Here(n, col), n < cmd_pos,
         col + 1 < VGA_WIDTH, Put(cmd_buffer[n]), UNCHANGED cmd_buffer
  PROVE  Here(n + 1, col)'  /\ col' = col + 1
<1> USE ConsoleAssumption
<1>1. ScreenTypeOK /\ col \in Nat /\ cmd_buffer[n] \in Glyphs
  BY DEF IInv, TypeOK, ScreenTypeOK, LineFull, Cols
<1>2. /\ row' = row /\ col' = col + 1 /\ cells'[row][col] = cmd_buffer[n]
      /\ \A j \in Cols : j # col => cells'[row][j] = cells[row][j]
  BY <1>1, GlyphHere DEF Here
<1>3. ASSUME NEW i \in 0 .. n PROVE cells'[row][col - n + i] = cmd_buffer[i]
  <2>1. CASE i = n
    BY <1>1, <1>2, <2>1
  <2>2. CASE i # n
    <3>1. i \in 0 .. n - 1 /\ col - n + i \in Cols /\ col - n + i # col
      BY <1>1, <2>2, TerminalAssumption DEF Here, Cols
    <3> QED BY <1>2, <3>1 DEF Here
  <2> QED BY <2>1, <2>2
<1>4. row' < VGA_HEIGHT /\ n + 1 <= col'
  BY <1>1, <1>2 DEF Here
<1>5. \A i \in 0 .. n : cells'[row'][col' - (n + 1) + i] = cmd_buffer'[i]
  <2> SUFFICES ASSUME NEW i \in 0 .. n
               PROVE  cells'[row'][col' - (n + 1) + i] = cmd_buffer'[i]
    OBVIOUS
  <2>1. col' - (n + 1) + i = col - n + i
    BY <1>1, <1>2
  <2> QED BY <1>2, <1>3, <2>1
<1> QED BY <1>2, <1>4, <1>5 DEF Here

\* One more step of an erasure: the cursor goes back over one cell.
LEMMA HereAfterBack ==
  ASSUME IInv, cmd_pos > 0, Here(cmd_pos, col - 1), Put(BACKSPACE),
         UNCHANGED <<cmd_buffer, cmd_pos>>
  PROVE  Here(cmd_pos, col)' /\ col' + 1 < VGA_WIDTH
<1> USE ConsoleAssumption
<1>1. /\ ScreenTypeOK /\ col \in Nat /\ col < VGA_WIDTH /\ cmd_pos \in Nat
      /\ VGA_WIDTH \in Nat
  BY TerminalAssumption DEF IInv, TypeOK, ScreenTypeOK, Cols
<1>2. row < VGA_HEIGHT /\ cmd_pos <= col - 1 /\ col > 0
  BY <1>1 DEF Here
<1>3. /\ row' = row /\ col' = col - 1
      /\ \A j \in Cols : j # col - 1 => cells'[row][j] = cells[row][j]
  BY <1>1, <1>2, BackHere
<1>4. \A i \in 0 .. cmd_pos - 1 : cells'[row][col - 1 - cmd_pos + i] = cmd_buffer[i]
  <2> SUFFICES ASSUME NEW i \in 0 .. cmd_pos - 1
               PROVE  cells'[row][col - 1 - cmd_pos + i] = cmd_buffer[i]
    OBVIOUS
  <2> DEFINE j == col - 1 - cmd_pos + i
  <2>1. j \in Cols /\ j # col - 1
    BY <1>1, <1>2 DEF Cols
  <2>2. cells[row][j] = cmd_buffer[i]
    BY DEF Here
  <2> HIDE DEF j
  <2>3. cells'[row][j] = cmd_buffer[i]
    BY <1>3, <2>1, <2>2
  <2> QED BY <2>3 DEF j
<1> QED BY <1>1, <1>2, <1>3, <1>4 DEF Here

\* And forth over it, with a blank.
LEMMA HereAfterBlank ==
  ASSUME IInv, cmd_pos > 0, Here(cmd_pos, col), col + 1 < VGA_WIDTH, Put(BLANK),
         UNCHANGED <<cmd_buffer, cmd_pos>>
  PROVE  Here(cmd_pos, col - 1)'
<1> USE ConsoleAssumption, TerminalAssumption
<1>1. /\ ScreenTypeOK /\ col \in Nat /\ col < VGA_WIDTH /\ cmd_pos \in Nat
      /\ VGA_WIDTH \in Nat
  BY DEF IInv, TypeOK, ScreenTypeOK, Cols
<1>2. row < VGA_HEIGHT /\ cmd_pos <= col
  BY DEF Here
<1>3. /\ row' = row /\ col' = col + 1
      /\ \A j \in Cols : j # col => cells'[row][j] = cells[row][j]
  BY <1>1, <1>2, GlyphHere
<1>4. \A i \in 0 .. cmd_pos - 1 : cells'[row][col - cmd_pos + i] = cmd_buffer[i]
  <2> SUFFICES ASSUME NEW i \in 0 .. cmd_pos - 1
               PROVE  cells'[row][col - cmd_pos + i] = cmd_buffer[i]
    OBVIOUS
  <2> DEFINE j == col - cmd_pos + i
  <2>1. j \in Cols /\ j # col
    BY <1>1, <1>2 DEF Cols
  <2>2. cells[row][j] = cmd_buffer[i]
    BY DEF Here
  <2> HIDE DEF j
  <2>3. cells'[row][j] = cmd_buffer[i]
    BY <1>3, <2>1, <2>2
  <2> QED BY <2>3 DEF j
<1>5. col' - 1 = col
  BY <1>1, <1>3
<1> QED BY <1>2, <1>3, <1>4, <1>5 DEF Here

\* A step of the handler that prints.
LEMMA EchoPrinted ==
  ASSUME IInv, EInv, HandlerStep PROVE EInv'
<1> SUFFICES ASSUME exact', ~stopped', cmd_pos' > 0
             PROVE  main' = <<>> /\ cpu'.at = "out" /\ Echo'
  BY DEF EInv
<1>1. /\ UNCHANGED <<main, stopped, cmd_buffer, cmd_pos, exact, cpu>>
      /\ out # <<>> /\ out' = Tail(out)
      /\ IF Head(out) = CLEAR THEN HandlerClear ELSE Put(Head(out))
  BY DEF HandlerStep, HandlerClear, HandlerPut, buffer
<1>2. main = <<>> /\ cpu.at = "out" /\ Echo /\ cmd_pos > 0
  BY <1>1 DEF EInv
<1>3. cmd_pos \in 0 .. CMD_MAX /\ CMD_MAX \in Nat /\ col \in Nat /\ VGA_WIDTH \in Nat
  BY ConsoleAssumption, TerminalAssumption DEF IInv, TypeOK, ScreenTypeOK, Cols
<1>4. \A i \in 0 .. CMD_MAX : i < cmd_pos => cmd_buffer[i] \in Glyphs
  BY ConsoleAssumption DEF IInv, LineFull
<1>5. BLANK \in Glyphs
  BY TerminalAssumption
<1>6. \A c \in Glyphs \cup {BACKSPACE} : Head(out) = c => Put(c)
  BY <1>1, ClearAssumption
<1>7. CASE Typed
  <2>1. CASE /\ out = <<cmd_buffer[cmd_pos - 1]>>
             /\ col + 1 < VGA_WIDTH /\ Here(cmd_pos - 1, col)
    <3>1. Head(out) = cmd_buffer[cmd_pos - 1] /\ out' = <<>>
      BY <1>1, <2>1
    <3>2. cmd_pos - 1 \in 0 .. CMD_MAX - 1 /\ (cmd_pos - 1) + 1 = cmd_pos
      BY <1>2, <1>3
    <3>3. Put(cmd_buffer[cmd_pos - 1])
      BY <1>3, <1>4, <1>6, <3>1, <3>2
    <3>4. cmd_pos - 1 < cmd_pos
      BY <1>3
    <3> DEFINE n == cmd_pos - 1
    <3>5. n \in 0 .. CMD_MAX - 1 /\ Here(n, col) /\ n < cmd_pos /\ Put(cmd_buffer[n])
      BY <2>1, <3>2, <3>3, <3>4
    <3>6. \A m \in 0 .. CMD_MAX - 1 :
            Here(m, col) /\ m < cmd_pos /\ Put(cmd_buffer[m]) => Here(m + 1, col)'
      BY <1>1, <2>1, HereGrows, Zenon
    <3>7. ASSUME NEW m \in 0 .. CMD_MAX - 1, m + 1 = cmd_pos, Here(m + 1, col)'
          PROVE  Here(cmd_pos, col)'
      BY <1>1, <3>7 DEF Here
    <3>8. Here(cmd_pos, col)'
      BY <3>2, <3>5, <3>6, <3>7
    <3> QED BY <1>1, <1>2, <3>1, <3>8 DEF Echo
  <2>2. CASE /\ cmd_pos > 1
             /\ out = <<cmd_buffer[cmd_pos - 2], cmd_buffer[cmd_pos - 1]>>
             /\ col + 2 < VGA_WIDTH /\ Here(cmd_pos - 2, col)
    <3>1. Head(out) = cmd_buffer[cmd_pos - 2] /\ out' = <<cmd_buffer[cmd_pos - 1]>>
      BY <1>1, <2>2
    <3>2. cmd_pos - 2 \in 0 .. CMD_MAX - 1 /\ (cmd_pos - 2) + 1 = cmd_pos - 1
      BY <1>3, <2>2
    <3>3. Put(cmd_buffer[cmd_pos - 2])
      BY <1>3, <1>4, <1>6, <3>1, <3>2
    <3>4. cmd_pos - 2 < cmd_pos /\ col + 1 < VGA_WIDTH
      BY <1>3, <2>2
    <3> DEFINE n == cmd_pos - 2
    <3>5. n \in 0 .. CMD_MAX - 1 /\ Here(n, col) /\ n < cmd_pos /\ Put(cmd_buffer[n])
      BY <2>2, <3>2, <3>3, <3>4
    <3>6. \A m \in 0 .. CMD_MAX - 1 :
            Here(m, col) /\ m < cmd_pos /\ Put(cmd_buffer[m])
              => Here(m + 1, col)' /\ col' = col + 1
      BY <1>1, <3>4, HereGrows, Zenon
    <3>7. ASSUME NEW m \in 0 .. CMD_MAX - 1, m + 1 = cmd_pos - 1, Here(m + 1, col)'
          PROVE  Here(cmd_pos - 1, col)'
      BY <1>1, <3>7 DEF Here
    <3>8. Here(cmd_pos - 1, col)' /\ col' + 1 < VGA_WIDTH
      BY <1>3, <2>2, <3>2, <3>5, <3>6, <3>7
    <3>9. Typed'
      BY <1>1, <3>1, <3>8 DEF Typed
    <3> QED BY <1>1, <1>2, <3>9 DEF Echo
  <2> QED BY <1>7, <2>1, <2>2 DEF Typed
<1>8. CASE Erased
  <2>1. CASE out = <<BACKSPACE, BLANK, BACKSPACE>> /\ Here(cmd_pos, col - 1)
    <3>1. Head(out) = BACKSPACE /\ out' = <<BLANK, BACKSPACE>>
      BY <1>1, <2>1
    <3>2. Here(cmd_pos, col)' /\ col' + 1 < VGA_WIDTH
      BY <1>1, <1>2, <1>6, <2>1, <3>1, HereAfterBack
    <3> QED BY <1>1, <1>2, <3>1, <3>2 DEF Echo, Erased
  <2>2. CASE out = <<BLANK, BACKSPACE>> /\ Here(cmd_pos, col) /\ col + 1 < VGA_WIDTH
    <3>1. Head(out) = BLANK /\ out' = <<BACKSPACE>>
      BY <1>1, <2>2
    <3>2. Here(cmd_pos, col - 1)'
      BY <1>1, <1>2, <1>5, <1>6, <2>2, <3>1, HereAfterBlank
    <3> QED BY <1>1, <1>2, <3>1, <3>2 DEF Echo, Erased
  <2>3. CASE out = <<BACKSPACE>> /\ Here(cmd_pos, col - 1)
    <3>1. Head(out) = BACKSPACE /\ out' = <<>>
      BY <1>1, <2>3
    <3>2. Here(cmd_pos, col)'
      BY <1>1, <1>2, <1>6, <2>3, <3>1, HereAfterBack
    <3> QED BY <1>1, <1>2, <3>1, <3>2 DEF Echo
  <2> QED BY <1>8, <2>1, <2>2, <2>3 DEF Erased
<1> QED BY <1>1, <1>2, <1>7, <1>8 DEF Echo

\* One or two characters are added, where nothing limits the line.
LEMMA EchoTyped ==
  ASSUME IInv, EInv, Pressed, UNCHANGED stopped,
         NEW s \in Seq(Chars), Len(s) \in {1, 2}, Add(s), Echoed(s),
         Room(s) = Len(s) => out' = s
  PROVE  EInv'
<1> SUFFICES ASSUME exact', ~stopped', cmd_pos' > 0
             PROVE  main' = <<>> /\ cpu'.at = "out" /\ Echo'
  BY DEF EInv
<1>1. /\ UNCHANGED <<row, col, cells, cpu, main>>
      /\ out = <<>> /\ ~stopped
  BY DEF Pressed, screen
<1>2. /\ exact /\ main = <<>> /\ cpu.at = "out"
      /\ cmd_pos + Len(s) <= CMD_MAX
      /\ row < VGA_HEIGHT /\ col + Len(s) < VGA_WIDTH
  BY DEF Echoed
<1>3. /\ cmd_pos \in 0 .. CMD_MAX /\ CMD_MAX \in Nat /\ col \in Nat
      /\ Len(s) \in 1 .. 2 /\ s = [i \in 1 .. Len(s) |-> s[i]]
  BY ConsoleAssumption, TerminalAssumption DEF IInv, TypeOK, ScreenTypeOK, Cols
<1>4. Room(s) = Len(s) /\ out' = s
  BY <1>2 DEF Room
<1>5. /\ cmd_pos' = cmd_pos + Len(s)
      /\ \A i \in 0 .. cmd_pos - 1 : cmd_buffer'[i] = cmd_buffer[i]
      /\ \A i \in 1 .. Len(s) : cmd_buffer'[cmd_pos + i - 1] = s[i]
  <2>1. /\ cmd_pos' = cmd_pos + Len(s)
        /\ cmd_buffer' = [i \in 0 .. CMD_MAX |->
                            IF i \in cmd_pos .. cmd_pos + Len(s) - 1
                            THEN s[i - cmd_pos + 1] ELSE cmd_buffer[i]]
    BY <1>4 DEF Add
  <2>2. \A i \in 0 .. cmd_pos - 1 :
          i \in 0 .. CMD_MAX /\ i \notin cmd_pos .. cmd_pos + Len(s) - 1
    BY <1>2, <1>3
  <2>3. \A i \in 1 .. Len(s) :
          /\ cmd_pos + i - 1 \in 0 .. CMD_MAX
          /\ cmd_pos + i - 1 \in cmd_pos .. cmd_pos + Len(s) - 1
          /\ (cmd_pos + i - 1) - cmd_pos + 1 = i
    BY <1>2, <1>3
  <2> QED BY <2>1, <2>2, <2>3
<1>6. Here(cmd_pos, col)
  <2>1. CASE cmd_pos = 0
    BY <1>2, <1>3, <2>1 DEF Here
  <2>2. CASE cmd_pos > 0
    BY <1>1, <1>2, <2>2 DEF EInv, Echo, Typed, Erased
  <2> QED BY <1>3, <2>1, <2>2
<1>7. \A n : n = cmd_pos =>
        /\ row' < VGA_HEIGHT /\ n <= col'
        /\ \A i \in 0 .. n - 1 : cells'[row'][col' - n + i] = cmd_buffer'[i]
  BY <1>1, <1>5, <1>6 DEF Here
<1>8. CASE Len(s) = 1
  <2>1. cmd_pos' - 1 = cmd_pos /\ col' + 1 < VGA_WIDTH
    BY <1>1, <1>2, <1>3, <1>5, <1>8
  <2>2. s = <<s[1]>> /\ cmd_buffer'[cmd_pos] = s[1]
    BY <1>3, <1>5, <1>8
  <2>3. Here(cmd_pos - 1, col)'
    BY <1>7, <2>1 DEF Here
  <2>4. out' = <<cmd_buffer'[cmd_pos' - 1]>>
    BY <1>4, <2>1, <2>2
  <2>5. Typed'
    BY <2>1, <2>3, <2>4 DEF Typed
  <2> QED BY <1>1, <1>2, <2>5 DEF Echo
<1>9. CASE Len(s) = 2
  <2>1. /\ cmd_pos' - 2 = cmd_pos /\ cmd_pos' - 1 = cmd_pos + 1 /\ cmd_pos' > 1
        /\ col' + 2 < VGA_WIDTH
    BY <1>1, <1>2, <1>3, <1>5, <1>9
  <2>2. s = <<s[1], s[2]>> /\ cmd_buffer'[cmd_pos] = s[1] /\ cmd_buffer'[cmd_pos + 1] = s[2]
    BY <1>3, <1>5, <1>9
  <2>3. Here(cmd_pos - 2, col)'
    BY <1>7, <2>1 DEF Here
  <2>4. out' = <<cmd_buffer'[cmd_pos' - 2], cmd_buffer'[cmd_pos' - 1]>>
    BY <1>4, <2>1, <2>2
  <2>5. Typed'
    BY <2>1, <2>3, <2>4 DEF Typed
  <2> QED BY <1>1, <1>2, <2>5 DEF Echo
<1> QED BY <1>8, <1>9

\* A key that leaves line, screen and exact alone and prints nothing.
LEMMA EchoKept ==
  ASSUME EInv, Pressed, UNCHANGED <<buffer, exact, stopped>>, out' = <<>>
  PROVE  EInv'
<1> SUFFICES ASSUME exact', ~stopped', cmd_pos' > 0
             PROVE  main' = <<>> /\ cpu'.at = "out" /\ Echo'
  BY DEF EInv
<1>1. /\ UNCHANGED <<row, col, cells, cpu, main, cmd_buffer, cmd_pos>>
      /\ out = <<>> /\ exact /\ ~stopped /\ cmd_pos > 0
  BY DEF Pressed, screen, buffer
<1>2. main = <<>> /\ cpu.at = "out" /\ Here(cmd_pos, col)
  BY <1>1 DEF EInv, Echo, Typed, Erased
<1> QED BY <1>1, <1>2 DEF Echo, Here

LEMMA EchoErases == ASSUME IInv, EInv, Backspace PROVE EInv'
<1>1. CASE cmd_pos > 0
  <2> SUFFICES ASSUME exact', ~stopped', cmd_pos' > 0
               PROVE  main' = <<>> /\ cpu'.at = "out" /\ Echo'
    BY DEF EInv
  <2>1. /\ UNCHANGED <<row, col, cells, cpu, main, cmd_buffer>>
        /\ out = <<>> /\ exact /\ ~stopped /\ cmd_pos' = cmd_pos - 1
        /\ out' = <<BACKSPACE, BLANK, BACKSPACE>>
    BY <1>1 DEF Backspace, Edits, Pressed, screen
  <2>2. main = <<>> /\ cpu.at = "out" /\ Here(cmd_pos, col)
    BY <1>1, <2>1 DEF EInv, Echo, Typed, Erased
  <2>3. cmd_pos \in Nat /\ col \in Nat
    BY ConsoleAssumption DEF IInv, TypeOK, ScreenTypeOK, Cols
  <2>4. /\ row < VGA_HEIGHT /\ cmd_pos - 1 <= col - 1
        /\ \A i \in 0 .. (cmd_pos - 1) - 1 :
             cells[row][(col - 1) - (cmd_pos - 1) + i] = cmd_buffer[i]
    <3>1. \A i \in 0 .. (cmd_pos - 1) - 1 :
            i \in 0 .. cmd_pos - 1 /\ (col - 1) - (cmd_pos - 1) + i = col - cmd_pos + i
      BY <2>3
    <3> QED BY <2>2, <2>3, <3>1 DEF Here
  <2>5. Here(cmd_pos, col - 1)'
    BY <2>1, <2>4 DEF Here
  <2> QED BY <2>1, <2>2, <2>5 DEF Echo, Erased
<1>2. CASE ~(cmd_pos > 0)
  BY <1>2 DEF Backspace, EInv
<1> QED BY <1>1, <1>2

\* A key with a character of its own.
LEMMA EchoCharacter ==
  ASSUME IInv, EInv, NEW normal \in Chars, NEW shifted \in Chars,
         Character(normal, shifted)
  PROVE  EInv'
<1> DEFINE ascii == IF shift_pressed THEN shifted ELSE normal
           c == IF caps_lock /\ ~shift_pressed /\ ascii \in Lower
                THEN Other ELSE ascii
<1>1. c \in Chars
  BY DEF Chars
<1>2. Pressed /\ UNCHANGED stopped
  BY DEF Character, Edits
<1>3. \/ out' = <<>> /\ UNCHANGED <<buffer, exact>>
      \/ dead_key # NUL /\ AccentApart(c)
      \/ Plain(c)
  BY DEF Character
<1> HIDE DEF c, ascii
<1>4. CASE out' = <<>> /\ UNCHANGED <<buffer, exact>>
  BY <1>2, <1>4, EchoKept
<1>5. CASE dead_key # NUL /\ AccentApart(c)
  <2>1. dead_key \in Chars
    BY <1>5 DEF IInv, TypeOK, Chars
  <2> DEFINE s == <<dead_key, c>>
  <2>2. s \in Seq(Chars) /\ Len(s) = 2
    BY <1>1, <2>1
  <2>3. Add(s) /\ Echoed(s) /\ (Room(s) = 2 => out' = s)
    BY <1>5 DEF AccentApart
  <2> HIDE DEF s
  <2> QED BY <1>2, <2>2, <2>3, EchoTyped
<1>6. CASE Plain(c)
  <2> DEFINE s == <<c>>
  <2>1. s \in Seq(Chars) /\ Len(s) = 1
    BY <1>1
  <2>2. Add(s) /\ Echoed(s) /\ (Room(s) = 1 => out' = s)
    BY <1>6 DEF Plain
  <2> HIDE DEF s
  <2> QED BY <1>2, <2>1, <2>2, EchoTyped
<1> QED BY <1>3, <1>4, <1>5, <1>6

LEMMA EchoNext == IInv /\ EInv /\ [Next]_vars => EInv'
<1> SUFFICES ASSUME IInv, EInv, [Next]_vars PROVE EInv'
  OBVIOUS
<1>1. CASE MainStep
  <2> SUFFICES ASSUME exact', ~stopped', cmd_pos' > 0 PROVE FALSE
    BY DEF EInv
  <2>1. exact /\ ~stopped /\ cmd_pos > 0
    BY <1>1 DEF MainStep, buffer
  <2>2. main = <<>> /\ cpu.at = "out"
    BY <2>1 DEF EInv
  <2>3. ~MainPrints /\ ~Inside
    BY <2>2 DEF MainPrints, Inside, NewlineRow, LoadRow, StoreCell, Advance, Wrap,
                Scroll, LastRow
  <2> QED BY <1>1, <2>3 DEF MainStep
<1>2. CASE HandlerStep
  BY <1>2, EchoPrinted
<1>3. CASE Shift \/ CapsLock
  BY <1>3, EchoKept DEF Shift, CapsLock, Pressed, buffer
<1>4. CASE \E c \in Lower \cup {Other} : Character(c, Other)
  BY <1>4, EchoCharacter DEF Chars
<1>5. CASE \E c \in Accents : Character(c, c)
  BY <1>5, EchoCharacter DEF Chars
<1>6. CASE Tab
  <2> DEFINE s == <<TAB>>
  <2>1. s \in Seq(Chars) /\ Len(s) = 1
    BY DEF Chars
  <2>2. Add(s) /\ Echoed(s) /\ out' = s /\ Pressed /\ UNCHANGED stopped
    BY <1>6 DEF Tab, Edits
  <2> HIDE DEF s
  <2> QED BY <2>1, <2>2, EchoTyped
<1>7. CASE Backspace
  BY <1>7, EchoErases
<1>8. CASE Escape
  BY <1>8 DEF Escape, EInv
<1>9. CASE Enter
  BY <1>9 DEF Enter, Submit, EInv
<1>10. CASE UNCHANGED vars
  BY <1>10 DEF vars, screen, buffer, EInv, Echo, Typed, Erased, Here
<1> QED BY <1>1, <1>2, <1>3, <1>4, <1>5, <1>6, <1>7, <1>8, <1>9, <1>10
        DEF Next, Key

\* What the user sees on the line is what the shell will get, for every size
\* of buffer and screen and however many keys, until the line meets a limit.
THEOREM SeenIsSubmitted == Spec => []EchoExact
<1>1. Init => EInv
  BY DEF Init, EInv
<1>2. IInv /\ EInv => EchoExact
  <2> SUFFICES ASSUME IInv, EInv, exact, cmd_pos > 0, out = <<>>, ~stopped
               PROVE  /\ row < VGA_HEIGHT /\ cmd_pos <= col
                      /\ \A i \in 1 .. cmd_pos : cells[row][col - cmd_pos + i - 1] = line[i]
    BY DEF EchoExact
  <2>1. Here(cmd_pos, col)
    BY DEF EInv, Echo, Typed, Erased
  <2>2. cmd_pos \in Nat /\ col \in Nat
    BY ConsoleAssumption DEF IInv, TypeOK, ScreenTypeOK, Cols
  <2>3. ASSUME NEW i \in 1 .. cmd_pos
        PROVE  cells[row][col - cmd_pos + i - 1] = line[i]
    <3>1. i - 1 \in 0 .. cmd_pos - 1 /\ col - cmd_pos + i - 1 = col - cmd_pos + (i - 1)
      BY <2>2
    <3> QED BY <2>1, <3>1 DEF Here, line
  <2> QED BY <2>1, <2>3 DEF Here
<1> QED BY <1>1, <1>2, EchoNext, IInvAlways, PTL DEF Spec
=============================================================================
