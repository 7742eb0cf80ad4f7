------------------------------ MODULE Terminal ------------------------------
(***************************************************************************)
(* The text screen of drivers/fb.c with the line editor of bin/shell.c,    *)
(* which the keyboard handler of drivers/keyboard.c calls for every key.   *)
(*                                                                         *)
(* The screen has VGA_SIZE cells.  frame_buf is the video memory, fb_out a *)
(* copy of its characters, attrs the set of cells marked non_deletable.    *)
(* Cell VGA_SIZE is what lies behind these arrays: the cursor rests there  *)
(* when the last cell has been written, and the code reads and writes it.  *)
(* Colours and the hardware cursor are left out.  0 is the empty cell.     *)
(***************************************************************************)
EXTENDS Integers, Sequences, FiniteSets, SequencesExt, FiniteSetsExt

CONSTANTS
    COLS, ROWS,
    Prompt,         \* the characters of the prompt
    TabStop,        \* blanks that a tab is printed as
    CMD_SIZE,       \* the size of cur_cmd
    Chars,          \* bound: the characters that are typed
    MaxWritten      \* bound: cells written since the last prompt

VGA_SIZE == COLS * ROWS
Cells == 0 .. VGA_SIZE

ASSUME TerminalAssumption ==
    /\ COLS \in Nat /\ ROWS \in Nat \ {0, 1}
    \* A prompt of one character, printed with the cursor behind the last cell,
    \* would leave its only mark there.
    /\ Prompt \in Seq(STRING) /\ Len(Prompt) \in 2 .. COLS - 1
    /\ TabStop \in Nat /\ CMD_SIZE \in Nat /\ MaxWritten \in Nat
    /\ Chars \cap {"\n", "\t", "DEL"} = {}

VARIABLES
    fb,         \* the screen: [frame_buf, fb_out, attrs, fb_pos, fault]
    cur_cmd,    \* the array that UP saves a line in, up to the last byte it wrote
    overrun,    \* UP or DOWN has gone past the end of cur_cmd
    written,    \* ghost: the cells written since the last prompt
    most        \* ghost: the largest number of them so far

vars == <<fb, cur_cmd, overrun, written, most>>

Empty == "0"
Blank == " "

----------------------------------------------------------------------------
\* fb.c.  s is a screen; fault is set where the code leaves its arrays.

\* write_fb_local
write_fb(s, i, c) == [s EXCEPT !.frame_buf[i] = c, !.fb_out[i] = c]

\* Every cell takes the character and the mark of the one below; fb_out follows
\* frame_buf.
\* Faulty variant: the marks stay where they are.
scroll_MarksStay(s) ==
    LET moved == [i \in Cells |-> IF i + COLS < VGA_SIZE THEN s.frame_buf[i + COLS]
                                  ELSE IF i < VGA_SIZE THEN Empty ELSE s.frame_buf[i]]
    IN  [s EXCEPT !.frame_buf = moved,
                  !.fb_out = [i \in Cells |-> IF i < VGA_SIZE THEN moved[i] ELSE @[i]],
                  !.fb_pos = @ - COLS]

scroll(s) ==
    LET moved == [i \in Cells |-> IF i + COLS < VGA_SIZE THEN s.frame_buf[i + COLS]
                                  ELSE IF i < VGA_SIZE THEN Empty ELSE s.frame_buf[i]]
    IN  [s EXCEPT !.frame_buf = moved,
                  !.fb_out = [i \in Cells |-> IF i < VGA_SIZE THEN moved[i] ELSE @[i]],
                  !.attrs = {i - COLS : i \in @ \cap COLS .. VGA_SIZE - 1} \cup (@ \cap {VGA_SIZE}),
                  !.fb_pos = @ - COLS]

\* fb_newline
fb_newline(s) ==
    LET below == [s EXCEPT !.fb_pos = (@ \div COLS) * COLS + COLS]
    IN  IF below.fb_pos >= VGA_SIZE THEN scroll(below) ELSE below

\* fb_print_char of a visible character: the scroll comes before the character
\* that needs it, not after the one that fills the screen.
put(s, c) ==
    LET at == IF s.fb_pos >= VGA_SIZE THEN scroll(s) ELSE s
        next == [write_fb(at, at.fb_pos, c) EXCEPT !.fb_pos = @ + 1]
    IN  IF next.frame_buf[next.fb_pos] = Empty THEN write_fb(next, next.fb_pos, Empty) ELSE next

\* fb_delete_char: at cell 0 the mark that is read lies before the array.
\* Faulty variant: marked cells are deleted as well.
fb_delete_char_Any(s) ==
    IF s.fb_pos = 0 THEN [s EXCEPT !.fault = TRUE]
    ELSE write_fb([s EXCEPT !.fb_pos = @ - 1], s.fb_pos - 1, Empty)

fb_delete_char(s) ==
    IF s.fb_pos = 0 THEN [s EXCEPT !.fault = TRUE]
    ELSE IF s.fb_pos - 1 \in s.attrs THEN s
    ELSE write_fb([s EXCEPT !.fb_pos = @ - 1], s.fb_pos - 1, Empty)

\* The screen after k rounds of the loop of fb_print, and of fb_delete_last.
fb_print(s, msg) ==
    LET after[k \in 0 .. Len(msg)] == IF k = 0 THEN s ELSE put(after[k - 1], msg[k])
    IN  after[Len(msg)]

fb_delete_last(s, len) ==
    LET after[k \in 0 .. len] == IF k = 0 THEN s ELSE fb_delete_char(after[k - 1])
    IN  after[len]

Blanks == [k \in 1 .. TabStop |-> Blank]

fb_putc(s, c) ==
    CASE c = "\n" -> fb_newline(s)
      [] c = "\t" -> fb_print(s, Blanks)
      [] c = "DEL" -> fb_delete_char(s)
      [] OTHER -> put(s, c)

\* fb_putc_attrs: the mark is set at the cursor before the character is printed.
fb_putc_attrs(s, c) == put([s EXCEPT !.attrs = @ \cup {s.fb_pos}], c)

\* fb_last_written_buf: what fb_out has between the last mark and the cursor.  The
\* walk has no end if there is no mark; a mark at the cursor, which is possible in
\* cell VGA_SIZE only, gives a length of -1.
Mark(s) == {i \in s.attrs : i <= s.fb_pos}

fb_last_written_buf(s) == SubSeq([k \in 1 .. VGA_SIZE |-> s.fb_out[k - 1]], Max(Mark(s)) + 2, s.fb_pos)

Lost(s) == Mark(s) = {} \/ s.fb_pos \in s.attrs

----------------------------------------------------------------------------
\* shell.c

\* fb_print_attrs, round by round.
shell_prompt(s) ==
    LET after[k \in 0 .. Len(Prompt)] ==
          IF k = 0 THEN s ELSE fb_putc_attrs(after[k - 1], Prompt[k])
    IN  after[Len(Prompt)]

\* fb_clear and shell_start.  What is behind the arrays is not known.
Init ==
    /\ \E behind \in SUBSET {VGA_SIZE} :
         fb = shell_prompt([frame_buf |-> [i \in Cells |-> Empty], fb_out |-> [i \in Cells |-> Empty],
                            attrs |-> behind, fb_pos |-> 0, fault |-> FALSE])
    /\ cur_cmd = <<>> /\ overrun = FALSE
    /\ written = <<>>
    /\ most = 0

\* Cells from the end of what is written to the end of its row.
RestOfRow == COLS - ((Len(Prompt) + Len(written)) % COLS)

\* What follows an access outside of the arrays is not modelled.
Room(n) == ~fb.fault /\ ~overrun /\ Len(written) + n <= MaxWritten

Write(cells) == written' = cells /\ most' = Max({most, Len(cells)})

\* kbd_interrupt hands a key to read_stream, which prints it.
Key(c) ==
    /\ Room(IF c = "\t" THEN TabStop ELSE 1)
    /\ fb' = fb_putc(fb, c)
    /\ Write(CASE c = "\t" -> written \o Blanks
               [] c = "DEL" -> IF written = <<>> THEN written ELSE Front(written)
               [] OTHER -> Append(written, c))
    /\ UNCHANGED <<cur_cmd, overrun>>

\* The newline is followed by a prompt.
Enter ==
    /\ Room(0)
    /\ fb' = shell_prompt(fb_putc(fb, "\n"))
    /\ written' = <<>> /\ most' = 0
    /\ UNCHANGED <<cur_cmd, overrun>>

\* UP and DOWN on a screen whose line is not found, and on a line they have no
\* room or no end for.
NoLine == Lost(fb) /\ fb' = [fb EXCEPT !.fault = TRUE] /\ UNCHANGED <<cur_cmd, overrun, written, most>>
LeaveArray == overrun' = TRUE /\ UNCHANGED <<fb, cur_cmd, written, most>>

\* UP saves the line over the beginning of the one saved before, and removes it;
\* last_cmd, which it prints, is never set.  memcpy is given the length of the line,
\* whatever the size of cur_cmd.
SaveLine(cmd) ==
    IF Len(cmd) > CMD_SIZE THEN LeaveArray
    ELSE /\ cur_cmd' = cmd \o SubSeq(cur_cmd, Len(cmd) + 1, Len(cur_cmd))
         /\ fb' = fb_delete_last(fb, Len(cmd))
         /\ Write(<<>>)
         /\ UNCHANGED overrun

Up ==
    /\ Room(0)
    /\ NoLine \/ (~Lost(fb) /\ SaveLine(fb_last_written_buf(fb)))

\* DOWN removes the line and prints the saved one, up to its first empty cell: a
\* line that fills cur_cmd has none, and fb_print reads on behind the array.
Ends == {k \in DOMAIN cur_cmd : cur_cmd[k] = Empty}
Unended == Len(cur_cmd) = CMD_SIZE /\ Ends = {}
Saved == IF Ends = {} THEN cur_cmd ELSE SubSeq(cur_cmd, 1, Min(Ends) - 1)

PrintSaved(len) ==
    IF Unended THEN LeaveArray
    ELSE /\ fb' = fb_print(fb_delete_last(fb, len), Saved)
         /\ Write(Saved)
         /\ UNCHANGED <<cur_cmd, overrun>>

Down ==
    /\ Room(0)
    /\ NoLine \/ (~Lost(fb) /\ PrintSaved(Len(fb_last_written_buf(fb))))

\* A program starts a new line (sys_write): no prompt follows.
Output ==
    /\ Room(RestOfRow)
    /\ fb' = fb_putc(fb, "\n")
    /\ Write(written \o [k \in 1 .. RestOfRow |-> Empty])
    /\ UNCHANGED <<cur_cmd, overrun>>

Next ==
    \/ \E c \in Chars \cup {"\t", "DEL"} : Key(c)
    \/ Enter \/ Up \/ Down \/ Output

Spec == Init /\ [][Next]_vars

----------------------------------------------------------------------------
\* Properties.

\* Since the prompt, it and the line have taken less than a screenful.
Fits == Len(Prompt) + most < VGA_SIZE

\* The line that the editor takes from the screen is what was written since the
\* prompt, through wrapped lines, scrolls, tabs, deletions and the newlines of
\* programs: as long as line and prompt fit on the screen, deletion stops at the
\* prompt, and the copy in fb_out has what the screen shows.
LineExact == (Fits /\ ~Lost(fb)) => fb_last_written_buf(fb) = written

\* fb.c leaves its arrays only when the prompt has been scrolled off by a line of a
\* screenful, or when the cursor is behind the last cell; and UP and DOWN leave
\* cur_cmd only when the line typed is longer than it, or fills it: what they count
\* on the screen has nothing but that line.
FaultsOnlyAtEdges ==
    /\ (fb.fault \/ Lost(fb)) => ~Fits \/ fb.fb_pos = VGA_SIZE
    /\ overrun => ~Fits \/ Len(written) > CMD_SIZE \/ Unended

=============================================================================
