------------------------------ MODULE Console -------------------------------
(***************************************************************************)
(* The user's side of the kernel: keyboard.c reads scancodes in the        *)
(* keyboard interrupt, edits the command line in cmd_buffer, echoes it on  *)
(* the terminal, and on Enter calls shell.c, still in the interrupt, which *)
(* answers and prints the next prompt.  Underneath, the main program of    *)
(* kernel_main.c prints its boot messages and the first prompt.            *)
(*                                                                         *)
(* The handler runs with interrupts off: its work on the keyboard's state  *)
(* is one step, and what it prints then leaves out, a character at a time, *)
(* before anybody else runs.                                               *)
(*                                                                         *)
(* Characters are told apart as far as the handler does: "a" is a small    *)
(* letter that takes the accent, "b" one that takes none, "A" a capital or *)
(* anything else that is printable, "~" the accent.  An accented letter is *)
(* two bytes in the source; the char it is stored in keeps the second,     *)
(* which is negative and thus not printable.                               *)
(*                                                                         *)
(* A definition called a slip is a mistake in the one that follows it,     *)
(* kept to show that a property would notice; nothing uses it.             *)
(***************************************************************************)
EXTENDS Terminal, Sequences

CONSTANTS
  CMD_MAX,    \* characters cmd_buffer holds besides the terminator (255)
  Banner,     \* what kernel_main prints, with STI where it enables interrupts
  Responses,  \* what commands print, with CLEAR where they clear the screen
  MaxKeys     \* bound of the model: how many keys are pressed or released

Lower == {"a", "b"}
Other == "A"
Accents == {"~"}
TAB == "tab"
Chars == Lower \cup {Other, TAB} \cup Accents

NUL == "nul"
STI == "sti"
CLEAR == "clear"
PROMPT == ">"
MESSAGE == "x"  \* one character for whatever message

ASSUME ConsoleAssumption ==
  /\ Chars \cup {PROMPT, MESSAGE} \subseteq Glyphs
  /\ CMD_MAX \in Nat \ {0}
  /\ Banner \in Seq(Glyphs \cup {NEWLINE, STI})
  /\ \A r \in Responses : r \in Seq(Glyphs \cup {NEWLINE, CLEAR})
  /\ MaxKeys \in Nat

\* Clearing the screen is no character.
ASSUME ClearAssumption == CLEAR \notin Glyphs \cup {BACKSPACE}

VARIABLES
  main,         \* what the main program has still to print
  interrupts,   \* they are enabled
  out,          \* what the running handler has still to print
  stopped,      \* cmd_reboot halted the machine
  shift_pressed, caps_lock,
  dead_key,     \* the accent that waits for its letter, or NUL
  cmd_buffer, cmd_pos,
  given,        \* the string passed to shell_handle_command, until it returns
  exact,        \* the line met no limit since it was begun
  keys          \* what MaxKeys bounds

modifiers == <<shift_pressed, caps_lock>>
buffer == <<cmd_buffer, cmd_pos>>
vars == <<screen, main, interrupts, out, stopped,
          modifiers, dead_key, buffer, given, exact, keys>>

\* What the user has typed of the command.
line == [i \in 1 .. cmd_pos |-> cmd_buffer[i - 1]]

\* The C string in b: it ends before the first NUL.
CString(b) ==
  LET IsEnd(n) == b[n] = NUL /\ \A m \in 0 .. n - 1 : b[m] # NUL
      end == CHOOSE n \in 0 .. CMD_MAX : IsEnd(n)
  IN  [i \in 1 .. end |-> b[i - 1]]

-----------------------------------------------------------------------------
(* Printing.                                                               *)

\* The main program runs when no handler does.
MainPrints ==
  /\ main # <<>> /\ cpu.at = "out"
  /\ CASE Head(main) = STI     -> UNCHANGED screen
       [] Head(main) = NEWLINE -> Newline
       [] OTHER                -> LoadCol(Head(main))
  /\ interrupts' = (interrupts \/ Head(main) = STI)
  /\ main' = Tail(main)

MainStep ==
  /\ out = <<>> /\ ~stopped
  /\ MainPrints \/ (Inside /\ UNCHANGED <<main, interrupts>>)
  /\ UNCHANGED <<out, stopped, modifiers, dead_key, buffer, given, exact, keys>>

\* The handler returns when everything is printed.
HandlerStep ==
  /\ out # <<>>
  /\ IF Head(out) = CLEAR THEN HandlerClear
     ELSE HandlerPut(Head(out))
  /\ out' = Tail(out)
  /\ given' = IF out' = <<>> /\ ~stopped THEN <<>> ELSE given
  /\ UNCHANGED <<main, interrupts, stopped, modifiers, dead_key, buffer, exact,
                 keys>>

-----------------------------------------------------------------------------
(* The handler: one action for every kind of key.                          *)

Pressed ==
  /\ interrupts /\ out = <<>> /\ ~stopped
  /\ keys < MaxKeys /\ keys' = keys + 1
  /\ UNCHANGED <<screen, main, interrupts>>

Edits == Pressed /\ UNCHANGED <<modifiers, stopped, given>>

\* One flag for two keys.
Shift ==
  /\ Pressed
  /\ shift_pressed' \in BOOLEAN
  /\ UNCHANGED <<caps_lock, dead_key, buffer, given, out, stopped, exact>>

CapsLock ==
  /\ Pressed
  /\ caps_lock' = ~caps_lock
  /\ UNCHANGED <<shift_pressed, dead_key, buffer, given, out, stopped, exact>>

\* A slip: the terminator gets no room.
RoomForOneMore(s) ==
  IF cmd_pos + Len(s) <= CMD_MAX + 1 THEN Len(s) ELSE CMD_MAX - cmd_pos

\* How many characters of s the buffer has room for.
Room(s) == IF cmd_pos + Len(s) <= CMD_MAX THEN Len(s) ELSE CMD_MAX - cmd_pos

Add(s) ==
  /\ cmd_buffer' = [i \in 0 .. CMD_MAX |->
                      IF i \in cmd_pos .. cmd_pos + Room(s) - 1
                      THEN s[i - cmd_pos + 1] ELSE cmd_buffer[i]]
  /\ cmd_pos' = cmd_pos + Room(s)

\* The line stays exact if there is room for s, in the buffer and up to the
\* end of a visible line, and the main program does not print as well.
Echoed(s) ==
  exact' = (/\ exact
            /\ main = <<>> /\ cpu.at = "out"
            /\ cmd_pos + Len(s) <= CMD_MAX
            /\ row < VGA_HEIGHT /\ col + Len(s) < VGA_WIDTH)

\* The accent is printed even if the buffer is full.
AccentApart(c) ==
  /\ dead_key' = NUL
  /\ Add(<<dead_key, c>>)
  /\ out' = IF Room(<<dead_key, c>>) = 2 THEN <<dead_key, c>> ELSE <<dead_key>>
  /\ Echoed(<<dead_key, c>>)

Plain(c) ==
  /\ Add(<<c>>)
  /\ out' = IF Room(<<c>>) = 1 THEN <<c>> ELSE <<>>
  /\ Echoed(<<c>>)
  /\ UNCHANGED dead_key

\* handle_dead_key: the letters that an accent changes.
Combines(c) == c = "a"

\* A key with a character of its own.  An accent waits for the next letter.
\* A letter that takes it becomes a char that is not printable and is lost
\* with it; before any other letter the accent stands apart.
Character(normal, shifted) ==
  LET ascii == IF shift_pressed THEN shifted ELSE normal
      c     == IF caps_lock /\ ~shift_pressed /\ ascii \in Lower
               THEN Other ELSE ascii
  IN  /\ \/ /\ dead_key # NUL /\ ascii \in Lower /\ Combines(ascii)
            /\ dead_key' = NUL /\ out' = <<>>
            /\ UNCHANGED <<buffer, exact>>
         \/ /\ dead_key # NUL /\ ascii \in Lower /\ ~Combines(ascii)
            /\ AccentApart(c)
         \/ /\ dead_key = NUL /\ ascii \in Accents
            /\ dead_key' = ascii /\ out' = <<>>
            /\ UNCHANGED <<buffer, exact>>
         \/ dead_key # NUL /\ ascii \notin Lower /\ Plain(c)
         \/ dead_key = NUL /\ ascii \notin Accents /\ Plain(c)
      /\ Edits

\* Printed even if the buffer is full.
Tab ==
  /\ dead_key' = NUL
  /\ Add(<<TAB>>)
  /\ out' = <<TAB>>
  /\ Echoed(<<TAB>>)
  /\ Edits

\* A slip: one cell is erased without the character.
BackspaceScreenOnly ==
  /\ dead_key' = NUL
  /\ out' = IF cmd_pos > 0 THEN <<BACKSPACE, BLANK, BACKSPACE>> ELSE <<>>
  /\ Edits /\ UNCHANGED <<buffer, exact>>

Backspace ==
  /\ dead_key' = NUL
  /\ IF cmd_pos > 0
     THEN /\ cmd_pos' = cmd_pos - 1
          /\ out' = <<BACKSPACE, BLANK, BACKSPACE>>
     ELSE cmd_pos' = cmd_pos /\ out' = <<>>
  /\ Edits /\ UNCHANGED <<cmd_buffer, exact>>

Escape ==
  /\ Pressed
  /\ dead_key' = NUL
  /\ cmd_pos' = 0 /\ cmd_buffer' = [cmd_buffer EXCEPT ![0] = NUL]
  /\ out' = <<NEWLINE, MESSAGE, NEWLINE, PROMPT>>
  /\ exact' = TRUE
  /\ UNCHANGED <<modifiers, stopped, given>>

\* shell_handle_command: an empty line gets no prompt, and a reboot never
\* returns.
Command ==
  \/ given' = <<>> /\ out' = <<NEWLINE>> /\ UNCHANGED stopped
  \/ /\ given' # <<>>
     /\ \E answer \in Responses :
          out' = <<NEWLINE>> \o answer \o <<NEWLINE, PROMPT>>
     /\ UNCHANGED stopped
  \/ /\ given' # <<>>
     /\ out' = <<NEWLINE, NEWLINE, MESSAGE, NEWLINE>>
     /\ stopped' = TRUE

\* The shell runs on the string b; once it returns the line is empty again.
Submit(b) ==
  /\ Pressed
  /\ dead_key' = NUL
  /\ given' = CString(b)
  /\ Command
  /\ IF stopped'
     THEN cmd_pos' = cmd_pos /\ cmd_buffer' = b
     ELSE cmd_pos' = 0 /\ cmd_buffer' = [b EXCEPT ![0] = NUL]
  /\ exact' = TRUE
  /\ UNCHANGED modifiers

\* A slip: the string is not terminated.
EnterUnended == Submit(cmd_buffer)

Enter == Submit([cmd_buffer EXCEPT ![cmd_pos] = NUL])

Key ==
  \/ Shift \/ CapsLock
  \/ \E c \in Lower \cup {Other} : Character(c, Other)
  \/ \E c \in Accents : Character(c, c)
  \/ Tab \/ Backspace \/ Escape \/ Enter

-----------------------------------------------------------------------------

Init ==
  /\ ScreenInit
  /\ main = Banner /\ interrupts = FALSE
  /\ out = <<>> /\ stopped = FALSE
  /\ shift_pressed = FALSE /\ caps_lock = FALSE /\ dead_key = NUL
  /\ cmd_buffer = [i \in 0 .. CMD_MAX |-> NUL] /\ cmd_pos = 0
  /\ given = <<>>
  /\ exact = TRUE
  /\ keys = 0

Next == MainStep \/ HandlerStep \/ Key

Spec == Init /\ [][Next]_vars
-----------------------------------------------------------------------------
(* What is checked.                                                        *)

\* The variables have their types; the command never outgrows its buffer,
\* where Enter needs one more place for the terminator.
TypeOK ==
  /\ ScreenTypeOK
  /\ main \in Seq(Glyphs \cup {NEWLINE, STI})
  /\ out \in Seq(Glyphs \cup {NEWLINE, BACKSPACE, CLEAR})
  /\ {interrupts, stopped, shift_pressed, caps_lock, exact} \subseteq BOOLEAN
  /\ dead_key \in Accents \cup {NUL}
  /\ cmd_buffer \in [0 .. CMD_MAX -> Chars \cup {NUL}]
  /\ cmd_pos \in 0 .. CMD_MAX
  /\ given \in Seq(Chars)

\* What the user sees is what the shell will get: the characters before the
\* cursor are those in cmd_buffer, through any sequence of keys, accents and
\* corrections, until the line meets a limit of the buffer or the screen or
\* is typed into the boot messages.
EchoExact ==
  /\ exact /\ cmd_pos > 0
  /\ main = <<>> /\ cpu.at = "out" /\ out = <<>> /\ ~stopped
  =>
    /\ row < VGA_HEIGHT /\ cmd_pos <= col
    /\ \A i \in 1 .. cmd_pos : cells[row][col - cmd_pos + i - 1] = line[i]

\* keyboard.c implements the line editor: the shell is handed the line as it
\* was edited, and nothing that an earlier, longer line left in cmd_buffer.
\* A machine that was halted has no line.
Editor == INSTANCE LineEditor WITH
  MAX <- CMD_MAX, line <- IF stopped THEN <<>> ELSE line

LineEditorSpec == Editor!Spec

\* kernel_main.c:84 announces "VGA Text Mode: 80x25": what is printed appears
\* on that screen.  But a newline on the last line moves the cursor below it
\* without scrolling, and the character that comes next is lost.
Visible ==
  /\ out # <<>> /\ Head(out) \in Glyphs => row < VGA_HEIGHT
  /\ cpu.at = "store" => cpu.row < VGA_HEIGHT
=============================================================================
