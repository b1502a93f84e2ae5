------------------------------ MODULE Terminal -------------------------------
(***************************************************************************)
(* The screen and the keyboard, and who shares them: the demonstration     *)
(* tasks (kernel.c), the shell that blocks them and reads its command      *)
(* lines (shell.c, keyboard.c), and the program suma.c, which the shell    *)
(* calls and which reads and prints through system calls (syscall.c).      *)
(*                                                                         *)
(* The tasks write the screen in steps of one store, and a tick may give   *)
(* the processor to any process that is not blocked; Scheduler has which   *)
(* one, and when.  Its quanta are of 50 ms and more: a tick takes the      *)
(* processor from a task at most once within one call of vga_print_at.     *)
(***************************************************************************)
EXTENDS Vga, Suma, FiniteSets

CONSTANTS
    Task,           \* the demonstration tasks, 1 .. n
    DemoRow,        \* the row a task writes on
    DemoCols,       \* and the columns: 40
    CMD_MAX,        \* size of the shell's line: 64
    ReadMax,        \* size of the program's line: 32
    Text,           \* what is printed, by name: sequences of characters
    Scancodes,      \* keys as they arrive: the character a press is mapped to,
                    \* NoChar for a press that is mapped to 0, Release
    FifoSize,       \* scancodes the keyboard holds
    MaxKeys         \* bound: keys typed and not yet part of a finished line

Letter == <<"A", "B", "C">>
Letters == {Letter[t] : t \in Task}
NUL == "NUL"
Texts == {"banner", "prompt", "enter", "output", "loading", "ask", "again",
          "a", "b", "sum", "end", "ended"}

ASSUME TerminalAssumption ==
    /\ Task \subseteq 1..Len(Letter)
    /\ DemoRow \in [Task -> 0..LastRow] /\ DemoCols \in 1..VGA_COLS
    /\ CMD_MAX \in Nat \ {0, 1} /\ ReadMax \in Nat \ {0}
    /\ Text \in [Texts -> Seq(STRING)]

\* The demonstration leaves as many columns free as there are tasks, and a
\* letter on the screen is a task's: the other characters are told apart from it.
ASSUME DemoAssumption ==
    /\ DemoCols + Cardinality(Task) <= VGA_COLS
    /\ Scancodes \cap Letters = {}
    /\ Text \in [Texts -> Seq(STRING \ Letters)]

\* No key is a carriage return or a zero, there is room for a line above the last
\* row, what comes before a line or a sum ends with a character that is seen, and
\* every number fits the buffer it is converted in, which has a line's size.
ASSUME LineAssumption ==
    /\ "\r" \notin Scancodes /\ NUL \notin Scancodes
    /\ CMD_MAX <= LastRow * VGA_COLS /\ ReadMax <= LastRow * VGA_COLS
    /\ \A name \in {"prompt", "ask", "again", "sum"} :
         Text[name] # <<>> /\ Last(Text[name]) \notin {"\n", "\r", "\t"}
    /\ \A num \in INT_MIN..INT_MAX : Len(int_to_str(num)) < ReadMax

VARIABLES
    owner,          \* the process on the processor
    blocked,        \* the tasks blocked so far
    at,             \* where each task is
    loaded,         \* what each task loaded last: a row, a cell or a column
    col,            \* local variable of a task, modulo DemoCols
    cut,            \* tasks a tick interrupted inside vga_print_at
    keyboard,       \* scancodes not read yet
    pc,             \* where the shell, or the program it called, is
    buf,            \* the line being read, as an array of characters
    i,              \* local variable of the loop that reads it
    first,          \* variable a of suma.c
    typed           \* characters typed since the last line was finished

taskVars == <<at, loaded, col, cut>>
lineVars == <<buf, i, typed>>
tvars == <<display, owner, blocked, taskVars, keyboard, pc, lineVars, first>>

Shell == 0
NoChar == "none"
Release == "release"
Silent == {NoChar, Release}
\* "BS" is '\b', the character of the backspace key.

Uninitialized(max) == [k \in 0..(max - 1) |-> "?"]

TerminalInit ==
    /\ display = Blank
    /\ owner \in Task \cup {Shell}
    /\ blocked = {} /\ cut = {}
    /\ at = [t \in Task |-> "delay"]
    /\ loaded = [t \in Task |-> 0]
    /\ col = [t \in Task |-> 0]
    /\ keyboard = <<>>
    /\ pc = "esperar_tecla"
    /\ buf = Uninitialized(CMD_MAX) /\ i = 0
    /\ first = 0
    /\ typed = <<>>

-----------------------------------------------------------------------------
\* A tick, while interrupts are enabled.
Tick ==
    /\ pc \notin {"first", "second", "exit"}
    /\ owner \in Task /\ at[owner] # "delay" => owner \notin cut
    /\ \E p \in (Task \ blocked) \cup {Shell} : p # owner /\ owner' = p
    /\ cut' = IF owner \in Task /\ at[owner] # "delay" THEN cut \cup {owner} ELSE cut
    /\ UNCHANGED <<display, blocked, at, loaded, col, keyboard, pc, lineVars, first>>

\* Task t goes on from one step of vga_print_at to the next.
TaskGoes(t, from, to) ==
    /\ owner = t /\ at[t] = from
    /\ at' = [at EXCEPT ![t] = to]
    /\ UNCHANGED <<owner, blocked, keyboard, pc, lineVars, first>>

Load(t, value) ==
    /\ loaded' = [loaded EXCEPT ![t] = value]
    /\ UNCHANGED <<display, col, cut>>

Store(t, d) ==
    /\ display' = d
    /\ UNCHANGED <<loaded, col, cut>>

StoreX(t) == TaskGoes(t, "delay", "y") /\ Store(t, [display EXCEPT !.x = col[t]])

StoreY(t) == TaskGoes(t, "y", "row") /\ Store(t, [display EXCEPT !.y = DemoRow[t]])

LoadRow(t) == TaskGoes(t, "row", "column") /\ Load(t, display.y)

LoadColumn(t) ==
    TaskGoes(t, "column", "cell") /\ Load(t, loaded[t] * VGA_COLS + display.x)

StoreCell(t) ==
    /\ TaskGoes(t, "cell", "x")
    /\ Store(t, [display EXCEPT !.cells[loaded[t]] = Letter[t]])

LoadX(t) == TaskGoes(t, "x", "end") /\ Load(t, display.x)

\* cursor_x++, the tests for the end of a row and of the screen, col++
EndPrintAt(t) ==
    /\ TaskGoes(t, "end", "delay")
    /\ display' = Scrolled(Wrapped([display EXCEPT !.x = loaded[t] + 1]))
    /\ loaded' = [loaded EXCEPT ![t] = 0]
    /\ col' = [col EXCEPT ![t] = (@ + 1) % DemoCols]
    /\ cut' = cut \ {t}

TaskStep(t) ==
    \/ StoreX(t) \/ StoreY(t) \/ LoadRow(t) \/ LoadColumn(t)
    \/ StoreCell(t) \/ LoadX(t) \/ EndPrintAt(t)

-----------------------------------------------------------------------------
Reading == pc \in {"line", "first", "second"}
LineMax == IF pc = "line" THEN CMD_MAX ELSE ReadMax

\* The character of a scancode, if it has one, and the characters of some.
Mapped(sc) == IF sc \in Silent THEN <<>> ELSE <<sc>>

Characters(codes) ==
    LET upto[n \in 0..Len(codes)] ==
            IF n = 0 THEN <<>> ELSE upto[n - 1] \o Mapped(codes[n])
    IN  upto[Len(codes)]

\* The user presses or releases a key; the keyboard drops what it cannot hold.
KeyArrives ==
    /\ Len(keyboard) < FifoSize /\ Len(typed) < MaxKeys
    /\ \E sc \in Scancodes :
         /\ keyboard' = Append(keyboard, sc)
         /\ typed' = typed \o Mapped(sc)
    /\ UNCHANGED <<display, owner, blocked, taskVars, pc, buf, i, first>>

ShellGoes(from, to) ==
    /\ owner = Shell /\ pc = from
    /\ pc' = to
    /\ UNCHANGED <<owner, taskVars>>

\* Any key that is pressed, whether it has a character or not; not one that is
\* released.
esperar_tecla ==
    /\ keyboard # <<>>
    /\ ShellGoes("esperar_tecla", IF Head(keyboard) = Release THEN pc ELSE "block_others")
    /\ keyboard' = Tail(keyboard)
    /\ typed' = Characters(keyboard')
    /\ UNCHANGED <<display, blocked, buf, i, first>>

\* One turn of the loop of process_block_others.
process_block_others ==
    /\ blocked # Task
    /\ ShellGoes("block_others", "block_others")
    /\ blocked' = blocked \cup {CHOOSE t \in Task \ blocked : \A u \in Task \ blocked : t <= u}
    /\ UNCHANGED <<display, keyboard, lineVars, first>>

\* Mutant: the loop ends one PCB early.
BlockingDone_Early ==
    /\ ShellGoes("block_others", "prompt")
    /\ \E t \in Task : Task \ {t} \subseteq blocked
    /\ display' = vga_print(Blank, Text["banner"])
    /\ UNCHANGED <<blocked, keyboard, lineVars, first>>

BlockingDone ==
    /\ blocked = Task
    /\ ShellGoes("block_others", "prompt")
    /\ display' = vga_print(Blank, Text["banner"])
    /\ UNCHANGED <<blocked, keyboard, lineVars, first>>

Prompt ==
    /\ ShellGoes("prompt", "line")
    /\ display' = vga_print(display, Text["prompt"])
    /\ i' = 0
    /\ UNCHANGED <<blocked, keyboard, buf, typed, first>>

-----------------------------------------------------------------------------
\* One scancode of a line that is being read: esperar_tecla_char and what
\* leer_linea or SYS_READ do with its result.
NextCode ==
    /\ Reading /\ i < LineMax - 1 /\ keyboard # <<>>
    /\ keyboard' = Tail(keyboard)
    /\ UNCHANGED <<owner, blocked, taskVars, typed, first>>

Ignored ==
    /\ NextCode /\ Head(keyboard) \in Silent
    /\ UNCHANGED <<display, pc, buf, i>>

Erase ==
    /\ NextCode /\ Head(keyboard) = "BS"
    /\ IF i > 0
       THEN i' = i - 1 /\ display' = vga_print(display, <<"BS", Space, "BS">>)
       ELSE UNCHANGED <<i, display>>
    /\ UNCHANGED <<pc, buf>>

Echo ==
    /\ NextCode /\ Head(keyboard) \notin Silent \cup {"BS", "\n"}
    /\ display' = vga_print(display, <<Head(keyboard)>>)
    /\ buf' = [buf EXCEPT ![i] = Head(keyboard)]
    /\ i' = i + 1
    /\ UNCHANGED pc

\* The loop ends, with Enter or because the line is full; leer_linea goes on to
\* a new line of the screen, SYS_READ does not.
LoopEnds ==
    /\ Reading
    /\ IF i < LineMax - 1
       THEN keyboard # <<>> /\ Head(keyboard) = "\n" /\ keyboard' = Tail(keyboard)
       ELSE UNCHANGED keyboard
    /\ display' = vga_print(display, (IF i < LineMax - 1 THEN Text["enter"] ELSE <<>>)
                                       \o (IF pc = "line" THEN <<"\n">> ELSE <<>>))
    /\ pc' = CASE pc = "line" -> "command"
               [] pc = "first" -> "first_read"
               [] pc = "second" -> "second_read"
    /\ typed' = Characters(keyboard')
    /\ UNCHANGED <<owner, blocked, taskVars, i, first>>

\* Mutant: the line is not ended by a zero.
LineEnds_Open == LoopEnds /\ UNCHANGED buf

LineEnds == LoopEnds /\ buf' = [buf EXCEPT ![i] = NUL]

\* An array as the reader of a string sees it: up to the first zero.
AsString(array) ==
    LET end == Cardinality(DOMAIN array)
        size == CHOOSE n \in 0..end : /\ \A k \in 0..(n - 1) : array[k] # NUL
                                      /\ n < end => array[n] = NUL
    IN  [k \in 1..size |-> array[k - 1]]

Line == AsString(buf)

-----------------------------------------------------------------------------
EmptyCommand ==
    /\ ShellGoes("command", "prompt")
    /\ Line = <<>>
    /\ UNCHANGED <<display, blocked, keyboard, lineVars, first>>

\* Any command that prints something and comes back to the prompt.
Command ==
    /\ ShellGoes("command", "prompt")
    /\ Line # <<>>
    /\ display' = vga_print(display, Text["output"])
    /\ UNCHANGED <<blocked, keyboard, lineVars, first>>

\* run: suma's first stores and prints, up to its first SYS_READ.
RunSuma ==
    /\ ShellGoes("command", "first")
    /\ Line # <<>>
    /\ LET screen == vga_print(display, Text["loading"])
       IN  display' = vga_print([screen EXCEPT !.cells[0] = "X"], Text["ask"])
    /\ buf' = Uninitialized(ReadMax) /\ i' = 0
    /\ UNCHANGED <<blocked, keyboard, typed, first>>

FirstNumber ==
    /\ ShellGoes("first_read", "second")
    /\ first' = str_to_int(Line)
    /\ display' = vga_print(display, Text["again"])
    /\ i' = 0
    /\ UNCHANGED <<blocked, keyboard, buf, typed>>

\* The two numbers and their sum; the cursor is behind the sum.
PrintSum ==
    /\ ShellGoes("second_read", "exit")
    /\ LET b == str_to_int(Line)
       IN  display' = vga_print(display,
                         Text["a"] \o int_to_str(first) \o Text["b"] \o int_to_str(b)
                           \o Text["sum"] \o int_to_str(AsInt(first + b)))
    /\ UNCHANGED <<blocked, keyboard, lineVars, first>>

\* The last prints, and SYS_EXIT, which does not come back.
SYS_EXIT ==
    /\ ShellGoes("exit", "halted")
    /\ display' = vga_print(display, Text["end"] \o int_to_str(0) \o Text["ended"])
    /\ UNCHANGED <<blocked, keyboard, lineVars, first>>

-----------------------------------------------------------------------------
TerminalNext ==
    \/ Tick
    \/ \E t \in Task : TaskStep(t)
    \/ KeyArrives
    \/ esperar_tecla \/ process_block_others \/ BlockingDone
    \/ Prompt \/ Ignored \/ Erase \/ Echo \/ LineEnds
    \/ EmptyCommand \/ Command
    \/ RunSuma \/ FirstNumber \/ PrintSum \/ SYS_EXIT

TerminalSpec == TerminalInit /\ [][TerminalNext]_tvars

-----------------------------------------------------------------------------
\* Type invariant: the cursor is on the screen, every store a task is about to
\* make is inside it, and so is the index of the line (vga.c, shell.c 66-87).
TerminalTypeOK ==
    /\ DOMAIN display.cells = Cells
    /\ display.x \in 0..(VGA_COLS - 1) /\ display.y \in 0..LastRow
    /\ owner \in Task \cup {Shell} /\ blocked \subseteq Task /\ cut \subseteq Task
    /\ \A t \in Task :
         /\ at[t] \in {"delay", "y", "row", "column", "cell", "x", "end"}
         /\ loaded[t] \in CASE at[t] = "column" -> 0..LastRow
                            [] at[t] = "cell" -> Cells
                            [] OTHER -> Nat
         /\ col[t] \in 0..(DemoCols - 1)
    /\ Reading => i \in 0..(LineMax - 1) /\ DOMAIN buf = 0..(LineMax - 1)
    /\ first \in INT_MIN..INT_MAX

\* The tasks share one cursor, and a tick between the two stores of
\* vga_print_at makes a letter land where another task meant its own; but no
\* letter ever lands outside the rows of the demonstration or more than a few
\* columns beyond its last one, and none is on the screen once the shell has
\* cleared it (vga.c 52-85, kernel.c 53-84, shell.c 101-109).
DemoInItsRows ==
    \A k \in Cells : display.cells[k] \in Letters =>
        /\ pc \in {"esperar_tecla", "block_others"}
        /\ k \div VGA_COLS \in {DemoRow[t] : t \in Task}
        /\ k % VGA_COLS < DemoCols + Cardinality(Task)

Consumed == SubSeq(typed, 1, Len(typed) - Len(Characters(keyboard)))

\* The n characters before the cursor.
BeforeCursor(d, n) ==
    [k \in 1..n |-> d.cells[Position(d) - n + k - 1]]

ShowsLine ==
    BeforeCursor(display, i + 1) =
        <<Last(Text[CASE pc = "line" -> "prompt"
                      [] pc = "first" -> "ask"
                      [] pc = "second" -> "again"])>>
            \o [k \in 1..i |-> buf[k - 1]]

\* While a line is read, what is before the cursor is the prompt and the line
\* so far, over the ends of rows and of the screen, whatever the demonstration
\* tasks were interrupted in (keyboard.c 88-114, vga.c 39-73).
EchoShowsLine ==
    (Reading /\ \A k \in DOMAIN Consumed : Consumed[k] \notin {"BS", "\t"}) => ShowsLine

\* What the characters of s leave of each other: a backspace takes back the
\* last one that is left, if there is one.
Pressed(line, c) ==
    IF c # "BS" THEN Append(line, c) ELSE IF line = <<>> THEN line ELSE Front(line)

Edited(s) ==
    LET upto[n \in 0..Len(s)] == IF n = 0 THEN <<>> ELSE Pressed(upto[n - 1], s[n])
    IN  upto[Len(s)]

\* A finished line, as the shell or the program will read it from its buffer,
\* is what the user has typed since the line before, with backspaces applied:
\* no key is lost, none is read twice, and nothing of an older line in the same
\* buffer is left, also when the line ends because it is full
\* (shell.c 66-87, syscall.c 39-62, keyboard.c 88-114).
LinesAsTyped ==
    [][(Reading /\ ~Reading') =>
          LET keys == SubSeq(typed, 1, Len(typed) - Len(typed'))
              entered == keys # <<>> /\ Last(keys) = "\n"
              line == Edited(IF entered THEN Front(keys) ELSE keys)
          IN  /\ Line' = line
              /\ entered \/ Len(line) = LineMax - 1]_tvars

\* What suma shows is the sum of the two numbers typed, as far as 32 bits go:
\* the text behind its last "=" means a + b modulo 2^32.  INT_MIN is the one
\* sum that is not shown (suma.c 57-105, 126-147).
SumShown ==
    [][/\ (pc = "first_read" /\ pc' = "second" /\ IsNumeral(Line)) =>
             first' = AsInt(Meaning(Line))
       /\ (pc = "second_read" /\ pc' = "exit" /\ IsNumeral(Line)) =>
             LET sum == AsInt(first + Meaning(Line))
             IN  sum # INT_MIN =>
                   \E n \in 1..(Position(display') - 1) :
                      LET shown == BeforeCursor(display', n + 1)
                      IN  /\ shown[1] = Last(Text["sum"])
                          /\ IsNumeral(Tail(shown))
                          /\ Meaning(Tail(shown)) = sum]_tvars

-----------------------------------------------------------------------------
(* What a comment of the source says of the program, and its code does not do. *)

\* shell.c 77: a backspace erases the character on the screen as well.
BackspaceErases ==
    (Reading /\ \A k \in DOMAIN Consumed : Consumed[k] # "\t") => ShowsLine
=============================================================================
