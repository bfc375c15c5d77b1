------------------------------- MODULE Console -------------------------------
(***************************************************************************)
(* The kernel's output: the VGA writer, the serial port, the log macros    *)
(* that write to both, and the panic handler that writes to both without   *)
(* taking their locks (kernel/src/vga.rs, log.rs, lang.rs, lib.rs).        *)
(*                                                                         *)
(* The thread that is running has a queue of output still to do; it works  *)
(* on it one character at a time, because an exception may end it at any   *)
(* character with a lock held.  A character is its code point, and the     *)
(* colours are left out.  The module that EXTENDS this one says what       *)
(* follows when the queue is empty.                                        *)
(***************************************************************************)
EXTENDS Integers, Sequences, FiniteSets, FiniteSetsExt, SequencesExt

CONSTANTS
    Width, Height,    \* RESOLUTION (80, 25)
    Label, Newline,   \* "[info]  " and "\n", as sequences of characters
    PanicMessage      \* what panic_fmt writes

VARIABLES
    screen,   \* the VGA buffer: row -> column -> byte
    cursor,   \* of VGA_WRITER: x, and y counted from the bottom
    locked,   \* which of VGA_WRITER and SERIAL_WRITER are locked
    serial,   \* what was sent to the serial port
    out,      \* the queue: a sequence of [to, chars]
    panic,    \* what panic_fmt has left to write, with its own cursor
    text      \* history: what was written through VGA_WRITER

consoleVars == <<screen, cursor, locked, serial, out, panic, text>>

Blank == 32
NL == 10
Rows == 0 .. Height - 1
Columns == 0 .. Width - 1
BlankRow == [x \in Columns |-> Blank]

\* `character as u8'
Byte(c) == c % 256

\* The layout of a text, for reference: a line ends at a newline, and after every Width
\* characters. LineStart is the last newline before a position, or 0.
LineStart(chars, i) == Max({0} \cup {k \in 1 .. i - 1 : chars[k] = NL})
Breaks(chars) ==
    {i \in DOMAIN chars : chars[i] = NL \/ (i - LineStart(chars, i)) % Width = 0}
Line(chars, i) == Cardinality({k \in Breaks(chars) : k < i})
Column(chars, i) == (i - LineStart(chars, i) - 1) % Width
Visible(chars) == {i \in DOMAIN chars : chars[i] # NL}

\* A panic message fits on the screen.
ASSUME ConsoleAssumption ==
    /\ Width \in Nat \ {0} /\ Height \in Nat \ {0}
    /\ Newline = <<NL>>
    /\ PanicMessage \in Seq(Nat) /\ PanicMessage # <<>>
    /\ Cardinality(Breaks(PanicMessage)) < Height

NoPanic == [left |-> <<>>, cursor |-> [x |-> 0, y |-> 0], to |-> "none"]

\* A terminal is a screen with a cursor; VgaWriter::new puts it at the top left.
Start == [x |-> 0, y |-> Height - 1]

\* VgaBuffer::scroll_down(1): rotate_left, then the last row is cleared.
scroll_down(s) == [r \in Rows |-> IF r = Height - 1 THEN BlankRow ELSE s[r + 1]]

new_line(t) ==
    IF t.cursor.y > 0
    THEN [t EXCEPT !.cursor = [x |-> 0, y |-> t.cursor.y - 1]]
    ELSE [screen |-> scroll_down(t.screen), cursor |-> [x |-> 0, y |-> 0]]

\* Mutant: the line breaks only before the character that does not fit, one column late.
write_coloured_late(t, c) ==
    IF c = NL THEN new_line(t)
    ELSE LET set == [t EXCEPT !.screen[Height - 1 - t.cursor.y][t.cursor.x % Width] = Byte(c),
                              !.cursor.x = @ + 1]
         IN  IF set.cursor.x > Width THEN new_line(set) ELSE set

\* The line breaks as soon as its last column is written; the character is compared with
\* '\n' before it is cut down to a byte.
write_coloured(t, c) ==
    IF c = NL THEN new_line(t)
    ELSE LET set == [t EXCEPT !.screen[Height - 1 - t.cursor.y][t.cursor.x] = Byte(c),
                              !.cursor.x = @ + 1]
         IN  IF set.cursor.x >= Width THEN new_line(set) ELSE set

ToVga(chars) == [to |-> "vga", chars |-> chars]
ToSerial(chars) == [to |-> "serial", chars |-> chars]

\* The info! macro: each write takes its lock anew.
info(message) ==
    <<ToVga(Label), ToVga(message \o Newline),
      ToSerial(Label), ToSerial(message), ToSerial(Newline)>>

\* kmain clears what the boot loader left; the cursor is where it was.
ConsoleInit ==
    /\ screen = [r \in Rows |-> BlankRow]
    /\ cursor = Start
    /\ locked = {} /\ serial = <<>> /\ out = <<>> /\ panic = NoPanic /\ text = <<>>

----------------------------------------------------------------------------
(* One step of the running thread's output.                                  *)

OutLock ==
    /\ out # <<>> /\ Head(out).to \notin locked
    /\ locked' = locked \cup {Head(out).to}
    /\ UNCHANGED <<screen, cursor, serial, out, panic, text>>

OutVga ==
    /\ out # <<>> /\ Head(out).to = "vga" /\ "vga" \in locked /\ Head(out).chars # <<>>
    /\ LET c == Head(Head(out).chars)
           t == write_coloured([screen |-> screen, cursor |-> cursor], c)
       IN  screen' = t.screen /\ cursor' = t.cursor /\ text' = Append(text, c)
    /\ out' = [out EXCEPT ![1].chars = Tail(@)]
    /\ UNCHANGED <<locked, serial, panic>>

OutSerial ==
    /\ out # <<>> /\ Head(out).to = "serial" /\ "serial" \in locked /\ Head(out).chars # <<>>
    /\ serial' = Append(serial, Head(Head(out).chars))
    /\ out' = [out EXCEPT ![1].chars = Tail(@)]
    /\ UNCHANGED <<screen, cursor, locked, panic, text>>

OutUnlock ==
    /\ out # <<>> /\ Head(out).to \in locked /\ Head(out).chars = <<>>
    /\ locked' = locked \ {Head(out).to}
    /\ out' = Tail(out)
    /\ UNCHANGED <<screen, cursor, serial, panic, text>>

Output == OutLock \/ OutVga \/ OutSerial \/ OutUnlock

\* Mutant: panic_fmt takes VGA_WRITER's lock.
PanicVgaLocking ==
    /\ panic.to = "vga" /\ panic.left # <<>> /\ "vga" \notin locked
    /\ LET t == write_coloured([screen |-> screen, cursor |-> panic.cursor], Head(panic.left))
       IN  /\ screen' = t.screen
           /\ panic' = [panic EXCEPT !.left = Tail(@), !.cursor = t.cursor]
    /\ UNCHANGED <<cursor, locked, serial, out, text>>

\* panic_fmt makes a writer of its own, and another SerialPort, whatever is locked.
PanicBegins ==
    panic' = [left |-> PanicMessage, cursor |-> Start, to |-> "vga"]

PanicVga ==
    /\ panic.to = "vga" /\ panic.left # <<>>
    /\ LET t == write_coloured([screen |-> screen, cursor |-> panic.cursor], Head(panic.left))
       IN  /\ screen' = t.screen
           /\ panic' = [panic EXCEPT !.left = Tail(@), !.cursor = t.cursor]
    /\ UNCHANGED <<cursor, locked, serial, out, text>>

PanicToSerial ==
    /\ panic.to = "vga" /\ panic.left = <<>>
    /\ panic' = [panic EXCEPT !.to = "serial", !.left = PanicMessage]
    /\ UNCHANGED <<screen, cursor, locked, serial, out, text>>

PanicSerial ==
    /\ panic.to = "serial" /\ panic.left # <<>>
    /\ serial' = Append(serial, Head(panic.left))
    /\ panic' = [panic EXCEPT !.left = Tail(@)]
    /\ UNCHANGED <<screen, cursor, locked, out, text>>

PanicOutput == PanicVga \/ PanicToSerial \/ PanicSerial
PanicDone == panic.to = "serial" /\ panic.left = <<>>

----------------------------------------------------------------------------
\* A screen whose first row is line `skip' of a text, and that shows nothing else.
ShowsFrom(s, chars, skip) ==
    /\ \A i \in Visible(chars) :
          Line(chars, i) >= skip => s[Line(chars, i) - skip][Column(chars, i)] = Byte(chars[i])
    /\ \A r \in Rows, x \in Columns :
          (\A i \in Visible(chars) : <<Line(chars, i), Column(chars, i)>> # <<skip + r, x>>)
             => s[r][x] = Blank

\* The lines of a text that no longer fit.
Skipped(chars) ==
    IF Cardinality(Breaks(chars)) >= Height THEN Cardinality(Breaks(chars)) + 1 - Height ELSE 0

\* Until a panic, the screen shows the end of all that was written through VGA_WRITER, broken
\* into lines and scrolled, whoever wrote it (vga.rs write_coloured, new_line, scroll_down).
ScreenShowsTail == panic = NoPanic => ShowsFrom(screen, text, Skipped(text))

\* The panic message can be read: all of it, from the top left of the screen, and at the end
\* of the serial output.
PanicShown ==
    /\ \A i \in Visible(PanicMessage) :
          screen[Line(PanicMessage, i)][Column(PanicMessage, i)] = Byte(PanicMessage[i])
    /\ IsSuffix(PanicMessage, serial)

=============================================================================
