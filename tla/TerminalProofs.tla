--------------------------- MODULE TerminalProofs ---------------------------
(***************************************************************************)
(* The line that the editor takes from the screen is the line that was     *)
(* written, for a screen of any size and any prompt and keys.              *)
(***************************************************************************)
EXTENDS Terminal, SequenceTheorems, WellFoundedInduction, TLAPS

----------------------------------------------------------------------------
\* The inductive invariant.

\* The characters that can be in a cell.
Glyphs == Chars \cup {Empty, Blank} \cup {Prompt[k] : k \in 1 .. Len(Prompt)}
Text == Seq(Glyphs)

Screen(s, last) ==
    s \in [frame_buf : [Cells -> Glyphs], fb_out : [Cells -> Glyphs],
           attrs : SUBSET Cells, fb_pos : 0 .. last, fault : BOOLEAN]

\* The screen and its copy agree, and there is nothing at or behind the cursor.
Clean(s, last) ==
    /\ Screen(s, last)
    /\ \A i \in Cells : i < VGA_SIZE => s.fb_out[i] = s.frame_buf[i]
    /\ \A i \in Cells : i < VGA_SIZE /\ s.fb_pos <= i => s.frame_buf[i] = Empty

\* In the arrays, marks are before the cursor.
Behind(s) == \A i \in s.attrs : i < s.fb_pos \/ i = VGA_SIZE
Tidy(s) == Clean(s, VGA_SIZE) /\ Behind(s)

\* The first cells of the rows, and of the one behind the last.
RowStart(x) == \E r \in 0 .. ROWS : x = r * COLS

\* The first and the last cell of the prompt, when w has been written after it.
Start(s, w) == s.fb_pos - Len(w) - Len(Prompt)
Base(s, w) == s.fb_pos - Len(w) - 1

\* The prompt is all there, in a row of its own, its last cell has the last mark,
\* and w follows.  (Between the two halves of fb_newline w may reach beyond the
\* last cell, with nothing there.)
Line(s, w) ==
    /\ RowStart(Start(s, w))
    /\ Base(s, w) \in s.attrs
    /\ \A i \in s.attrs : i <= Base(s, w) \/ i = VGA_SIZE
    /\ \A k \in 1 .. Len(w) :
          w[k] = IF Base(s, w) + k < VGA_SIZE THEN s.frame_buf[Base(s, w) + k] ELSE Empty

TInv ==
    /\ Tidy(fb)
    /\ written \in Text /\ cur_cmd \in Text
    /\ Len(cur_cmd) <= CMD_SIZE /\ overrun \in BOOLEAN
    /\ most \in Nat /\ Len(written) <= most
    /\ Fits => Line(fb, written) /\ (fb.fault => fb.fb_pos = VGA_SIZE)
    /\ Fits /\ overrun => Len(written) > CMD_SIZE \/ Unended

----------------------------------------------------------------------------
\* Rows and columns.

LEMMA Sizes ==
  /\ COLS \in Nat /\ ROWS \in Nat /\ ROWS >= 2 /\ VGA_SIZE \in Nat /\ VGA_SIZE >= 2 * COLS
  /\ Len(Prompt) \in Nat /\ 2 <= Len(Prompt) /\ Len(Prompt) < COLS
  /\ Cells = 0 .. VGA_SIZE
<1>1. /\ COLS \in Nat /\ ROWS \in Nat /\ ROWS >= 2
      /\ Len(Prompt) \in Nat /\ 2 <= Len(Prompt) /\ Len(Prompt) < COLS
  BY TerminalAssumption
<1>2. ASSUME NEW c \in Nat, NEW r \in Nat, r >= 2 PROVE c * r \in Nat /\ c * r >= 2 * c
  <2>1. PICK d \in Nat : r = 2 + d
    BY <1>2
  <2>2. c * r = 2 * c + c * d /\ c * d \in Nat
    BY <2>1
  <2> QED
    BY <2>2
<1> QED
  BY <1>1, <1>2 DEF VGA_SIZE, Cells

LEMMA Rows ==
  /\ RowStart(0) /\ RowStart(VGA_SIZE)
  /\ \A x : RowStart(x) =>
        /\ x \in Nat /\ x <= VGA_SIZE
        /\ x > 0 => x >= COLS /\ RowStart(x - COLS)
        /\ x < VGA_SIZE => x + COLS <= VGA_SIZE /\ RowStart(x + COLS)
  /\ \A x, y : RowStart(x) /\ RowStart(y) /\ x < y => x + COLS <= y
<1>1. PICK c \in Nat, n \in Nat : c = COLS /\ n = ROWS /\ VGA_SIZE = n * c /\ n >= 2
  <2>1. COLS \in Nat /\ ROWS \in Nat /\ ROWS >= 2 /\ VGA_SIZE = COLS * ROWS
    BY Sizes DEF VGA_SIZE
  <2>2. COLS * ROWS = ROWS * COLS
    BY <2>1
  <2> QED
    BY <2>1, <2>2
<1>2. 0 = 0 * c /\ 0 \in 0 .. n /\ n \in 0 .. n
  OBVIOUS
<1>3. ASSUME NEW i \in Nat, NEW j \in Nat, i < j PROVE i * c + c <= j * c
  <2>1. PICK d \in Nat : j = i + 1 + d
    BY <1>3
  <2>2. j * c = i * c + c + d * c /\ d * c \in Nat
    BY <2>1
  <2> QED
    BY <2>2
<1>4. ASSUME NEW i \in 0 .. n
      PROVE  /\ i * c \in Nat /\ i * c <= n * c
             /\ i > 0 => i - 1 \in 0 .. n /\ i * c - c = (i - 1) * c /\ (i - 1) * c \in Nat
             /\ i < n => i + 1 \in 0 .. n /\ i * c + c = (i + 1) * c
  <2>1. i * c \in Nat /\ n * c \in Nat
    BY <1>4
  <2>2. i = n \/ i * c + c <= n * c
    BY <1>3, <1>4
  <2>3. i > 0 => i - 1 \in 0 .. n /\ i * c - c = (i - 1) * c /\ (i - 1) * c \in Nat
    BY <1>4
  <2>4. i < n => i + 1 \in 0 .. n /\ i * c + c = (i + 1) * c
    BY <1>4
  <2> QED
    BY <2>1, <2>2, <2>3, <2>4
<1>5. RowStart(0) /\ RowStart(VGA_SIZE)
  BY <1>1, <1>2 DEF RowStart
<1>6. ASSUME NEW x, RowStart(x)
      PROVE  /\ x \in Nat /\ x <= VGA_SIZE
             /\ x > 0 => x >= COLS /\ RowStart(x - COLS)
             /\ x < VGA_SIZE => x + COLS <= VGA_SIZE /\ RowStart(x + COLS)
  <2>1. PICK i \in 0 .. n : x = i * c
    BY <1>1, <1>6 DEF RowStart
  <2>2. x > 0 => i > 0
    BY <2>1, <1>2
  <2>3. x < VGA_SIZE => i < n
    BY <2>1, <1>1
  <2>4. x > 0 => x >= c /\ x - c = (i - 1) * c /\ i - 1 \in 0 .. n
    BY <2>1, <2>2, <1>4
  <2>5. x < VGA_SIZE => x + c <= n * c /\ x + c = (i + 1) * c /\ i + 1 \in 0 .. n
    BY <2>1, <2>3, <1>3, <1>4
  <2> QED
    BY <1>1, <1>4, <2>1, <2>4, <2>5 DEF RowStart
<1>7. ASSUME NEW x, NEW y, RowStart(x), RowStart(y), x < y PROVE x + COLS <= y
  <2>1. PICK i \in 0 .. n, j \in 0 .. n : x = i * c /\ y = j * c
    BY <1>1, <1>7 DEF RowStart
  <2>2. i \in Nat /\ j \in Nat /\ i * c \in Nat /\ j * c \in Nat
    BY <1>4
  <2>3. i < j
    <3>1. i = j \/ i < j \/ j < i
      BY <2>2
    <3>2. ~ (j < i)
      BY <2>1, <2>2, <1>3, <1>7
    <3> QED
      BY <3>1, <3>2, <2>1, <2>2, <1>7
  <2> QED
    BY <1>1, <1>3, <2>1, <2>2, <2>3
<1> QED
  BY <1>5, <1>6, <1>7

\* The start of the row after the cursor.
Down1(pos) == (pos \div COLS) * COLS + COLS

LEMMA Division ==
  ASSUME NEW a \in Nat, NEW b \in Nat \ {0}
  PROVE  \E q \in Nat, r \in 0 .. b - 1 : q = a \div b /\ r = a % b /\ a = q * b + r
<1>1. a \div b \in Nat /\ a % b \in 0 .. b - 1
  OBVIOUS
<1>2. a % b = a - (a \div b) * b
  OBVIOUS
<1>3. PICK q \in Nat, r \in 0 .. b - 1 : q = a \div b /\ r = a % b /\ r = a - q * b
  BY <1>1, <1>2
<1>4. a = q * b + r
  BY <1>3
<1> QED
  BY <1>3, <1>4

LEMMA NextRow ==
  ASSUME NEW pos \in 0 .. VGA_SIZE
  PROVE  /\ Down1(pos) \in Nat /\ pos < Down1(pos) /\ Down1(pos) <= pos + COLS
         /\ pos < VGA_SIZE => RowStart(Down1(pos))
         /\ pos = VGA_SIZE => Down1(pos) = VGA_SIZE + COLS
<1>1. /\ COLS \in Nat \ {0} /\ pos \in Nat /\ VGA_SIZE \in Nat /\ pos <= VGA_SIZE /\ ROWS \in Nat
      /\ VGA_SIZE = ROWS * COLS
  <2>1. COLS \in Nat /\ ROWS \in Nat /\ VGA_SIZE \in Nat /\ 2 < COLS
    BY Sizes
  <2>2. COLS * ROWS = ROWS * COLS
    BY <2>1
  <2> QED
    BY <2>1, <2>2 DEF VGA_SIZE
<1>2. PICK c \in Nat \ {0}, n \in Nat : c = COLS /\ n = ROWS /\ VGA_SIZE = n * c
  BY <1>1
<1>3. PICK q \in Nat, r \in 0 .. c - 1 : q = pos \div c /\ pos = q * c + r
  BY <1>1, Division
<1>4. Down1(pos) = q * c + c /\ q * c \in Nat
  BY <1>2, <1>3 DEF Down1
<1>5. ASSUME NEW i \in Nat, NEW j \in Nat, i < j PROVE i * c + c <= j * c
  <2>1. PICK d \in Nat : j = i + 1 + d
    BY <1>5
  <2>2. j * c = i * c + c + d * c /\ d * c \in Nat
    BY <2>1
  <2> QED
    BY <2>2
<1>6. n * c \in Nat
  OBVIOUS
<1>7. ~ (n < q)
  <2>1. SUFFICES ASSUME n < q PROVE FALSE
    OBVIOUS
  <2>2. n * c + c <= q * c
    BY <2>1, <1>5
  <2> QED
    BY <2>2, <1>1, <1>2, <1>3, <1>4, <1>6
<1>8. q < n => RowStart(Down1(pos))
  <2>1. q * c + c = (q + 1) * c
    OBVIOUS
  <2>2. q < n => q + 1 \in 0 .. n
    OBVIOUS
  <2> QED
    BY <2>1, <2>2, <1>2, <1>4 DEF RowStart
<1>9. q = n => pos = VGA_SIZE /\ Down1(pos) = VGA_SIZE + COLS
  BY <1>1, <1>2, <1>3, <1>4, <1>6
<1>10. q < n => pos < VGA_SIZE
  <2>1. q < n => q * c + c <= n * c
    BY <1>5
  <2> QED
    BY <2>1, <1>2, <1>3, <1>4, <1>6
<1>11. q < n \/ q = n
  BY <1>7
<1> QED
  BY <1>1, <1>2, <1>3, <1>4, <1>8, <1>9, <1>10, <1>11

\* Counted from the start of a row, the rest of the row is the same.
LEMMA RestIs ==
  ASSUME NEW x, RowStart(x), NEW n \in Nat, x + n <= VGA_SIZE
  PROVE  /\ n % COLS \in 0 .. COLS - 1
         /\ Down1(x + n) = x + n + (COLS - (n % COLS))
<1>1. PICK c \in Nat \ {0}, i \in Nat : c = COLS /\ x = i * c
  <2>1. COLS \in Nat \ {0} /\ 0 .. ROWS \subseteq Nat
    BY Sizes
  <2> QED
    BY <2>1 DEF RowStart
<1>2. i * c \in Nat /\ x + n \in Nat
  BY <1>1
<1>3. PICK q \in Nat, r \in 0 .. c - 1 : r = n % c /\ n = q * c + r
  BY Division
<1>4. PICK k \in Nat, t \in 0 .. c - 1 : k = (x + n) \div c /\ x + n = k * c + t
  BY <1>2, Division
<1>5. (i + q) * c + r = k * c + t
  BY <1>1, <1>3, <1>4
<1>6. ASSUME NEW u \in Nat, NEW v \in Nat, u < v PROVE u * c + c <= v * c
  <2>1. PICK d \in Nat : v = u + 1 + d
    BY <1>6
  <2>2. v * c = u * c + c + d * c /\ d * c \in Nat
    BY <2>1
  <2> QED
    BY <2>2
<1>7. i + q = k
  <2>1. i + q \in Nat /\ (i + q) * c \in Nat /\ k * c \in Nat
    OBVIOUS
  <2>2. ~ (i + q < k)
    BY <2>1, <1>5, <1>6
  <2>3. ~ (k < i + q)
    BY <2>1, <1>5, <1>6
  <2> QED
    BY <2>1, <2>2, <2>3
<1>8. r = t
  <2>1. k * c \in Nat
    OBVIOUS
  <2> QED
    BY <2>1, <1>5, <1>7
<1>9. Down1(x + n) = k * c + c /\ k * c \in Nat
  BY <1>1, <1>4 DEF Down1
<1> QED
  BY <1>1, <1>2, <1>3, <1>4, <1>8, <1>9

----------------------------------------------------------------------------
\* The loops.  g is what one of them leaves after each round.

IsPrint(g, s, msg, n) ==
    g = [k \in 0 .. n |-> IF k = 0 THEN s ELSE put(g[k - 1], msg[k])]
IsDelete(g, s, n) ==
    g = [k \in 0 .. n |-> IF k = 0 THEN s ELSE fb_delete_char(g[k - 1])]
IsPrompt(g, s, n) ==
    g = [k \in 0 .. n |-> IF k = 0 THEN s ELSE fb_putc_attrs(g[k - 1], Prompt[k])]

LEMMA LeastOf ==
  ASSUME NEW S \in SUBSET Nat, S # {}
  PROVE  \E x \in S : \A y \in S : x <= y
<1> DEFINE R == OpToRel(<, Nat)
<1>1. PICK x \in S : \A y \in S : ~(<<y, x>> \in R)
  <2>1. IsWellFoundedOn(R, Nat)
    BY NatLessThanWellFounded
  <2> HIDE DEF R
  <2> QED
    BY <2>1, WFMin
<1>2. \A y \in S : ~(y < x)
  BY <1>1 DEF OpToRel
<1> QED
  BY <1>2

\* A set of numbers that has 0 and every next one has all up to n.
LEMMA Rounds ==
  ASSUME NEW n \in Nat, NEW S, 0 \in S, \A k \in 1 .. n : k - 1 \in S => k \in S
  PROVE  \A k \in 0 .. n : k \in S
<1>1. SUFFICES ASSUME (0 .. n) \ S # {} PROVE FALSE
  OBVIOUS
<1>2. PICK k \in (0 .. n) \ S : \A y \in (0 .. n) \ S : k <= y
  <2>1. (0 .. n) \ S \in SUBSET Nat
    OBVIOUS
  <2> QED
    BY <2>1, <1>1, LeastOf
<1>3. k \in 1 .. n /\ k - 1 \in 0 .. n /\ ~ (k <= k - 1)
  BY <1>2
<1> QED
  BY <1>2, <1>3

\* fb_print leaves the last of the screens g.
Printed(g, s, msg) ==
    /\ fb_print(s, msg) = g[Len(msg)] /\ g[0] = s
    /\ \A k \in 1 .. Len(msg) : g[k] = put(g[k - 1], msg[k])

LEMMA PrintLoop ==
  ASSUME NEW s, NEW msg, Len(msg) \in Nat
  PROVE  \E g : Printed(g, s, msg)
<1> DEFINE n == Len(msg)
           S == {m \in Nat : \E g : IsPrint(g, s, msg, m)}
<1>1. 0 \in S
  <2>1. IsPrint([k \in 0 .. 0 |-> s], s, msg, 0)
    BY DEF IsPrint
  <2> QED
    BY <2>1
<1>2. ASSUME NEW k \in 1 .. n, k - 1 \in S PROVE k \in S
  <2>1. PICK g : IsPrint(g, s, msg, k - 1)
    BY <1>2
  <2> DEFINE h == [j \in 0 .. k |-> IF j = k THEN put(g[k - 1], msg[k]) ELSE g[j]]
  <2>2. ASSUME NEW j \in 0 .. k
        PROVE  h[j] = IF j = 0 THEN s ELSE put(h[j - 1], msg[j])
    <3>1. CASE j = k
      BY <3>1, <2>2
    <3>2. CASE j # k
      <4>1. j \in 0 .. k - 1 /\ (j # 0 => j - 1 \in 0 .. k /\ j - 1 # k)
        BY <3>2
      <4>2. g[j] = IF j = 0 THEN s ELSE put(g[j - 1], msg[j])
        BY <2>1, <4>1 DEF IsPrint
      <4> QED
        BY <4>1, <4>2, <3>2
    <3> QED
      BY <3>1, <3>2
  <2>3. h = [j \in 0 .. k |-> h[j]]
    OBVIOUS
  <2> HIDE DEF h
  <2>4. IsPrint(h, s, msg, k)
    BY <2>2, <2>3 DEF IsPrint
  <2> QED
    BY <2>4
<1>3. n \in S
  <2> HIDE DEF S
  <2>1. \A k \in 0 .. n : k \in S
    BY <1>1, <1>2, Rounds
  <2> QED
    BY <2>1
<1>4. PICK g : g = CHOOSE f : IsPrint(f, s, msg, n)
  OBVIOUS
<1>5. IsPrint(g, s, msg, n)
  BY <1>3, <1>4
<1>6. fb_print(s, msg) = g[n]
  BY <1>4 DEF fb_print, IsPrint
<1>7. g[0] = s /\ \A k \in 1 .. n : g[k] = put(g[k - 1], msg[k])
  BY <1>5 DEF IsPrint
<1> QED
  BY <1>6, <1>7 DEF Printed

LEMMA DeleteLoop ==
  ASSUME NEW s, NEW len \in Nat
  PROVE  \E g : /\ fb_delete_last(s, len) = g[len] /\ g[0] = s
                /\ \A k \in 1 .. len : g[k] = fb_delete_char(g[k - 1])
<1> DEFINE n == len
           S == {m \in Nat : \E g : IsDelete(g, s, m)}
<1>1. 0 \in S
  <2>1. IsDelete([k \in 0 .. 0 |-> s], s, 0)
    BY DEF IsDelete
  <2> QED
    BY <2>1
<1>2. ASSUME NEW k \in 1 .. n, k - 1 \in S PROVE k \in S
  <2>1. PICK g : IsDelete(g, s, k - 1)
    BY <1>2
  <2> DEFINE h == [j \in 0 .. k |-> IF j = k THEN fb_delete_char(g[k - 1]) ELSE g[j]]
  <2>2. ASSUME NEW j \in 0 .. k
        PROVE  h[j] = IF j = 0 THEN s ELSE fb_delete_char(h[j - 1])
    <3>1. CASE j = k
      BY <3>1, <2>2
    <3>2. CASE j # k
      <4>1. j \in 0 .. k - 1 /\ (j # 0 => j - 1 \in 0 .. k /\ j - 1 # k)
        BY <3>2
      <4>2. g[j] = IF j = 0 THEN s ELSE fb_delete_char(g[j - 1])
        BY <2>1, <4>1 DEF IsDelete
      <4> QED
        BY <4>1, <4>2, <3>2
    <3> QED
      BY <3>1, <3>2
  <2>3. h = [j \in 0 .. k |-> h[j]]
    OBVIOUS
  <2> HIDE DEF h
  <2>4. IsDelete(h, s, k)
    BY <2>2, <2>3 DEF IsDelete
  <2> QED
    BY <2>4
<1>3. n \in S
  <2> HIDE DEF S
  <2>1. \A k \in 0 .. n : k \in S
    BY <1>1, <1>2, Rounds
  <2> QED
    BY <2>1
<1>4. PICK g : g = CHOOSE f : IsDelete(f, s, n)
  OBVIOUS
<1>5. IsDelete(g, s, n)
  BY <1>3, <1>4
<1>6. fb_delete_last(s, len) = g[n]
  BY <1>4 DEF fb_delete_last, IsDelete
<1>7. g[0] = s /\ \A k \in 1 .. n : g[k] = fb_delete_char(g[k - 1])
  BY <1>5 DEF IsDelete
<1> QED
  BY <1>6, <1>7

LEMMA PromptLoop ==
  ASSUME NEW s
  PROVE  \E g : /\ shell_prompt(s) = g[Len(Prompt)] /\ g[0] = s
                /\ \A k \in 1 .. Len(Prompt) : g[k] = fb_putc_attrs(g[k - 1], Prompt[k])
<1> DEFINE n == Len(Prompt)
           S == {m \in Nat : \E g : IsPrompt(g, s, m)}
<1>1. 0 \in S
  <2>1. IsPrompt([k \in 0 .. 0 |-> s], s, 0)
    BY DEF IsPrompt
  <2> QED
    BY <2>1
<1>2. ASSUME NEW k \in 1 .. n, k - 1 \in S PROVE k \in S
  <2>1. PICK g : IsPrompt(g, s, k - 1)
    BY <1>2
  <2> DEFINE h == [j \in 0 .. k |-> IF j = k THEN fb_putc_attrs(g[k - 1], Prompt[k]) ELSE g[j]]
  <2>2. ASSUME NEW j \in 0 .. k
        PROVE  h[j] = IF j = 0 THEN s ELSE fb_putc_attrs(h[j - 1], Prompt[j])
    <3>1. CASE j = k
      BY <3>1, <2>2
    <3>2. CASE j # k
      <4>1. j \in 0 .. k - 1 /\ (j # 0 => j - 1 \in 0 .. k /\ j - 1 # k)
        BY <3>2
      <4>2. g[j] = IF j = 0 THEN s ELSE fb_putc_attrs(g[j - 1], Prompt[j])
        BY <2>1, <4>1 DEF IsPrompt
      <4> QED
        BY <4>1, <4>2, <3>2
    <3> QED
      BY <3>1, <3>2
  <2>3. h = [j \in 0 .. k |-> h[j]]
    OBVIOUS
  <2> HIDE DEF h
  <2>4. IsPrompt(h, s, k)
    BY <2>2, <2>3 DEF IsPrompt
  <2> QED
    BY <2>4
<1>3. n \in S
  <2> HIDE DEF S
  <2>1. n \in Nat /\ \A k \in 0 .. n : k \in S
    BY <1>1, <1>2, Rounds, Sizes
  <2> QED
    BY <2>1
<1>4. PICK g : g = CHOOSE f : IsPrompt(f, s, n)
  OBVIOUS
<1>5. IsPrompt(g, s, n)
  BY <1>3, <1>4
<1>6. shell_prompt(s) = g[n]
  BY <1>4 DEF shell_prompt, IsPrompt
<1>7. g[0] = s /\ \A k \in 1 .. n : g[k] = fb_putc_attrs(g[k - 1], Prompt[k])
  BY <1>5 DEF IsPrompt
<1> QED
  BY <1>6, <1>7

----------------------------------------------------------------------------
\* What the operations of fb.c do to the cells.

LEMMA ScrollEffect ==
  ASSUME NEW s, Screen(s, VGA_SIZE + COLS), s.fb_pos >= COLS
  PROVE  LET t == scroll(s) IN
         /\ Screen(t, VGA_SIZE)
         /\ t.fb_pos = s.fb_pos - COLS /\ t.fault = s.fault
         /\ \A i \in Cells : i < VGA_SIZE =>
               /\ t.frame_buf[i] = IF i + COLS < VGA_SIZE THEN s.frame_buf[i + COLS] ELSE Empty
               /\ t.fb_out[i] = t.frame_buf[i]
         /\ \A i \in t.attrs : (i + COLS < VGA_SIZE /\ i + COLS \in s.attrs) \/ i = VGA_SIZE
         /\ \A i \in s.attrs : i >= COLS /\ i < VGA_SIZE => i - COLS \in t.attrs
<1> DEFINE t == scroll(s)
           moved == [i \in Cells |-> IF i + COLS < VGA_SIZE THEN s.frame_buf[i + COLS]
                                     ELSE IF i < VGA_SIZE THEN Empty ELSE s.frame_buf[i]]
           out == [i \in Cells |-> IF i < VGA_SIZE THEN moved[i] ELSE s.fb_out[i]]
           marks == {i - COLS : i \in s.attrs \cap COLS .. VGA_SIZE - 1} \cup (s.attrs \cap {VGA_SIZE})
<1>1. /\ s.frame_buf \in [Cells -> Glyphs] /\ s.fb_out \in [Cells -> Glyphs]
      /\ s.attrs \in SUBSET Cells /\ s.fb_pos \in 0 .. VGA_SIZE + COLS /\ s.fault \in BOOLEAN
  BY DEF Screen
<1>2. /\ t = [s EXCEPT !.frame_buf = moved, !.fb_out = out, !.attrs = marks, !.fb_pos = s.fb_pos - COLS]
      /\ t.frame_buf = moved /\ t.fb_out = out /\ t.attrs = marks
      /\ t.fb_pos = s.fb_pos - COLS /\ t.fault = s.fault
  BY DEF scroll, Screen
<1>3. Empty \in Glyphs
  BY DEF Glyphs
<1>4. moved \in [Cells -> Glyphs]
  BY <1>1, <1>3, Sizes
<1>5. out \in [Cells -> Glyphs]
  BY <1>1, <1>4
<1>6. marks \in SUBSET Cells
  BY <1>1, Sizes
<1>7. s.fb_pos - COLS \in 0 .. VGA_SIZE
  BY <1>1, Sizes
<1>8. Screen(t, VGA_SIZE)
  <2> HIDE DEF moved, out, marks
  <2> QED
    BY <1>2, <1>4, <1>5, <1>6, <1>7 DEF Screen
<1>9. ASSUME NEW i \in Cells, i < VGA_SIZE
      PROVE  /\ t.frame_buf[i] = IF i + COLS < VGA_SIZE THEN s.frame_buf[i + COLS] ELSE Empty
             /\ t.fb_out[i] = t.frame_buf[i]
  BY <1>2, <1>9
<1>10. \A i \in marks : (i + COLS < VGA_SIZE /\ i + COLS \in s.attrs) \/ i = VGA_SIZE
  BY <1>1, Sizes
<1>11. \A i \in s.attrs : i >= COLS /\ i < VGA_SIZE => i - COLS \in marks
  BY <1>1, Sizes
<1> HIDE DEF t, moved, out, marks
<1> QED
  BY <1>2, <1>8, <1>9, <1>10, <1>11 DEF t

\* t is s with c in cell i.
Wrote(t, s, i, c) ==
    /\ Screen(t, VGA_SIZE) /\ t.fb_pos = s.fb_pos /\ t.attrs = s.attrs /\ t.fault = s.fault
    /\ \A j \in Cells : t.frame_buf[j] = IF j = i THEN c ELSE s.frame_buf[j]
    /\ \A j \in Cells : t.fb_out[j] = IF j = i THEN c ELSE s.fb_out[j]

LEMMA WriteEffect ==
  ASSUME NEW s, Screen(s, VGA_SIZE), NEW i \in Cells, NEW c \in Glyphs
  PROVE  Wrote(write_fb(s, i, c), s, i, c)
BY DEF write_fb, Screen, Wrote

LEMMA PutEffect ==
  ASSUME NEW s, Screen(s, VGA_SIZE), s.fb_pos < VGA_SIZE, NEW c \in Glyphs
  PROVE  LET t == put(s, c) IN
         /\ Screen(t, VGA_SIZE)
         /\ t.fb_pos = s.fb_pos + 1 /\ t.attrs = s.attrs /\ t.fault = s.fault
         /\ \A i \in Cells : t.frame_buf[i] = IF i = s.fb_pos THEN c ELSE s.frame_buf[i]
         /\ \A i \in Cells : s.fb_out[i] = s.frame_buf[i] \/ i = s.fb_pos => t.fb_out[i] = t.frame_buf[i]
<1> DEFINE p == s.fb_pos
           w == write_fb(s, p, c)
           n == [w EXCEPT !.fb_pos = @ + 1]
<1>1. p \in Cells /\ p + 1 \in Cells
  BY Sizes DEF Screen
<1>2. /\ Screen(w, VGA_SIZE) /\ w.fb_pos = p /\ w.attrs = s.attrs /\ w.fault = s.fault
      /\ \A j \in Cells : w.frame_buf[j] = IF j = p THEN c ELSE s.frame_buf[j]
      /\ \A j \in Cells : w.fb_out[j] = IF j = p THEN c ELSE s.fb_out[j]
  BY <1>1, WriteEffect DEF Wrote
<1> HIDE DEF w
<1>3. /\ Screen(n, VGA_SIZE) /\ n.fb_pos = p + 1 /\ n.attrs = s.attrs /\ n.fault = s.fault
      /\ \A j \in Cells : n.frame_buf[j] = IF j = p THEN c ELSE s.frame_buf[j]
      /\ \A j \in Cells : n.fb_out[j] = IF j = p THEN c ELSE s.fb_out[j]
  BY <1>1, <1>2, Sizes DEF Screen
<1>4. put(s, c) = IF n.frame_buf[p + 1] = Empty THEN write_fb(n, p + 1, Empty) ELSE n
  <2>1. ~ (s.fb_pos >= VGA_SIZE)
    BY Sizes, <1>1
  <2>2. n.fb_pos = p + 1
    BY <1>3
  <2> QED
    BY <2>1, <2>2 DEF put, w
<1> HIDE DEF n
<1>5. s.frame_buf \in [Cells -> Glyphs] /\ s.fb_out \in [Cells -> Glyphs]
  BY DEF Screen
<1>6. CASE n.frame_buf[p + 1] # Empty
  <2>1. put(s, c) = n
    BY <1>4, <1>6
  <2> QED
    BY <1>1, <1>3, <1>5, <2>1
<1>7. CASE n.frame_buf[p + 1] = Empty
  <2>1. put(s, c) = write_fb(n, p + 1, Empty)
    BY <1>4, <1>7
  <2>2. Empty \in Glyphs
    BY DEF Glyphs
  <2>3. PICK t : t = write_fb(n, p + 1, Empty)
    OBVIOUS
  <2>4. Wrote(t, n, p + 1, Empty)
    BY <1>1, <1>3, <2>2, <2>3, WriteEffect
  <2> QED
    BY <1>1, <1>3, <1>5, <1>7, <2>1, <2>3, <2>4 DEF Wrote
<1> QED
  BY <1>6, <1>7

\* At the end of the screen the character goes where it would after a scroll.
LEMMA PutScrolls ==
  ASSUME NEW s, Screen(s, VGA_SIZE), s.fb_pos = VGA_SIZE, NEW c
  PROVE  /\ put(s, c) = put(scroll(s), c)
         /\ Screen(s, VGA_SIZE + COLS) /\ s.fb_pos >= COLS
<1>1. Screen(s, VGA_SIZE + COLS) /\ s.fb_pos >= COLS
  BY Sizes DEF Screen
<1>2. scroll(s).fb_pos = VGA_SIZE - COLS
  BY <1>1, ScrollEffect
<1>3. s.fb_pos >= VGA_SIZE /\ ~ (scroll(s).fb_pos >= VGA_SIZE)
  BY <1>2, Sizes
<1> QED
  BY <1>1, <1>3 DEF put

----------------------------------------------------------------------------
\* What they keep.

LEMMA ScrollTidy ==
  ASSUME NEW s, Clean(s, VGA_SIZE + COLS), s.fb_pos >= VGA_SIZE
  PROVE  Tidy(scroll(s)) /\ scroll(s).fault = s.fault /\ scroll(s).fb_pos = s.fb_pos - COLS
<1> DEFINE t == scroll(s)
<1>1. Screen(s, VGA_SIZE + COLS) /\ s.fb_pos \in Nat /\ s.fb_pos >= COLS
  BY Sizes DEF Clean, Screen
<1>2. /\ Screen(t, VGA_SIZE)
      /\ t.fb_pos = s.fb_pos - COLS /\ t.fault = s.fault
      /\ \A i \in Cells : i < VGA_SIZE =>
            /\ t.frame_buf[i] = IF i + COLS < VGA_SIZE THEN s.frame_buf[i + COLS] ELSE Empty
            /\ t.fb_out[i] = t.frame_buf[i]
      /\ \A i \in t.attrs : (i + COLS < VGA_SIZE /\ i + COLS \in s.attrs) \/ i = VGA_SIZE
  BY <1>1, ScrollEffect
<1> HIDE DEF t
<1>3. t.attrs \subseteq Cells
  BY <1>2 DEF Screen
<1>4. Behind(t)
  BY <1>1, <1>2, <1>3, Sizes DEF Behind
<1>5. \A i \in Cells : i < VGA_SIZE /\ t.fb_pos <= i => t.frame_buf[i] = Empty
  BY <1>1, <1>2, Sizes
<1> QED
  BY <1>2, <1>4, <1>5 DEF Tidy, Clean, t

LEMMA PutTidy ==
  ASSUME NEW s, Clean(s, VGA_SIZE), \A i \in s.attrs : i <= s.fb_pos \/ i = VGA_SIZE, NEW c \in Glyphs
  PROVE  Tidy(put(s, c)) /\ put(s, c).fault = s.fault
<1>1. ASSUME NEW u, Clean(u, VGA_SIZE), u.fb_pos < VGA_SIZE,
             \A i \in u.attrs : i <= u.fb_pos \/ i = VGA_SIZE
      PROVE  Tidy(put(u, c)) /\ put(u, c).fault = u.fault
  <2> DEFINE t == put(u, c)
  <2>1. Screen(u, VGA_SIZE) /\ u.fb_pos \in Cells /\ u.attrs \subseteq Cells
    BY <1>1, Sizes DEF Clean, Screen
  <2>2. /\ Screen(t, VGA_SIZE)
        /\ t.fb_pos = u.fb_pos + 1 /\ t.attrs = u.attrs /\ t.fault = u.fault
        /\ \A i \in Cells : t.frame_buf[i] = IF i = u.fb_pos THEN c ELSE u.frame_buf[i]
        /\ \A i \in Cells : u.fb_out[i] = u.frame_buf[i] \/ i = u.fb_pos => t.fb_out[i] = t.frame_buf[i]
    BY <1>1, <2>1, PutEffect
  <2> HIDE DEF t
  <2>3. Behind(t)
    BY <1>1, <2>1, <2>2, Sizes DEF Behind
  <2>4. \A i \in Cells : i < VGA_SIZE => t.fb_out[i] = t.frame_buf[i]
    BY <1>1, <2>2 DEF Clean
  <2>5. \A i \in Cells : i < VGA_SIZE /\ t.fb_pos <= i => t.frame_buf[i] = Empty
    BY <1>1, <2>1, <2>2, Sizes DEF Clean
  <2> QED
    BY <2>2, <2>3, <2>4, <2>5 DEF Tidy, Clean, t
<1>2. Screen(s, VGA_SIZE) /\ s.fb_pos \in 0 .. VGA_SIZE
  BY DEF Clean, Screen
<1>3. CASE s.fb_pos < VGA_SIZE
  BY <1>1, <1>3
<1>4. CASE s.fb_pos = VGA_SIZE
  <2>1. /\ put(s, c) = put(scroll(s), c)
        /\ Screen(s, VGA_SIZE + COLS)
    BY <1>2, <1>4, PutScrolls
  <2>2. Clean(s, VGA_SIZE + COLS) /\ s.fb_pos >= VGA_SIZE
    BY <2>1, <1>4, Sizes DEF Clean
  <2>3. /\ Tidy(scroll(s)) /\ scroll(s).fault = s.fault
        /\ scroll(s).fb_pos = VGA_SIZE - COLS
    BY <2>2, <1>4, ScrollTidy
  <2>4. scroll(s).fb_pos < VGA_SIZE
    BY <2>3, Sizes
  <2>5. scroll(s).attrs \subseteq Cells /\ scroll(s).fb_pos \in Cells
    BY <2>3, Sizes DEF Tidy, Clean, Screen
  <2>6. \A i \in scroll(s).attrs : i <= scroll(s).fb_pos \/ i = VGA_SIZE
    BY <2>3, <2>5, Sizes DEF Tidy, Behind
  <2> QED
    BY <1>1, <2>1, <2>3, <2>4, <2>6 DEF Tidy
<1> QED
  BY <1>2, <1>3, <1>4, Sizes

LEMMA TidyLoose ==
  ASSUME NEW s, Tidy(s)
  PROVE  /\ Clean(s, VGA_SIZE) /\ Screen(s, VGA_SIZE) /\ s.fb_pos \in Cells /\ s.attrs \subseteq Cells
         /\ \A i \in s.attrs : i <= s.fb_pos \/ i = VGA_SIZE
<1>1. Screen(s, VGA_SIZE) /\ Clean(s, VGA_SIZE) /\ s.fb_pos \in Cells /\ s.attrs \subseteq Cells
  BY Sizes DEF Tidy, Clean, Screen
<1> QED
  BY <1>1, Sizes DEF Tidy, Behind

LEMMA DeleteTidy ==
  ASSUME NEW s, Tidy(s)
  PROVE  Tidy(fb_delete_char(s))
<1> DEFINE t == [s EXCEPT !.fb_pos = @ - 1]
           u == write_fb(t, s.fb_pos - 1, Empty)
<1>1. Screen(s, VGA_SIZE) /\ s.fb_pos \in Cells /\ s.attrs \subseteq Cells
  BY TidyLoose
<1>2. CASE s.fb_pos = 0
  <2>1. fb_delete_char(s) = [s EXCEPT !.fault = TRUE]
    BY <1>2 DEF fb_delete_char
  <2> QED
    BY <2>1 DEF Tidy, Clean, Behind, Screen
<1>3. CASE s.fb_pos # 0 /\ s.fb_pos - 1 \in s.attrs
  BY <1>3 DEF fb_delete_char
<1>4. CASE s.fb_pos # 0 /\ s.fb_pos - 1 \notin s.attrs
  <2>1. fb_delete_char(s) = u
    BY <1>4 DEF fb_delete_char
  <2>2. s.fb_pos - 1 \in Cells /\ s.fb_pos - 1 < VGA_SIZE /\ Empty \in Glyphs
    BY <1>1, <1>4, Sizes DEF Glyphs
  <2>3. /\ Screen(t, VGA_SIZE) /\ t.fb_pos = s.fb_pos - 1 /\ t.attrs = s.attrs
        /\ t.frame_buf = s.frame_buf /\ t.fb_out = s.fb_out
    BY <1>1, <2>2, Sizes DEF Screen
  <2> HIDE DEF t
  <2>4. /\ Screen(u, VGA_SIZE) /\ u.fb_pos = t.fb_pos /\ u.attrs = t.attrs
        /\ \A j \in Cells : u.frame_buf[j] = IF j = s.fb_pos - 1 THEN Empty ELSE t.frame_buf[j]
        /\ \A j \in Cells : u.fb_out[j] = IF j = s.fb_pos - 1 THEN Empty ELSE t.fb_out[j]
    BY <2>2, <2>3, WriteEffect DEF Wrote
  <2> HIDE DEF u
  <2>5. s.frame_buf \in [Cells -> Glyphs] /\ s.fb_out \in [Cells -> Glyphs]
    BY <1>1 DEF Screen
  <2>6. Behind(u)
    BY <1>1, <1>4, <2>3, <2>4, Sizes DEF Tidy, Behind
  <2>7. \A i \in Cells : i < VGA_SIZE => u.fb_out[i] = u.frame_buf[i]
    BY <2>2, <2>3, <2>4, <2>5 DEF Tidy, Clean
  <2>8. \A i \in Cells : i < VGA_SIZE /\ u.fb_pos <= i => u.frame_buf[i] = Empty
    <3>1. ASSUME NEW i \in Cells, i < VGA_SIZE, u.fb_pos <= i PROVE u.frame_buf[i] = Empty
      <4>1. i = s.fb_pos - 1 \/ s.fb_pos <= i
        BY <1>1, <2>3, <2>4, <3>1, Sizes
      <4>2. s.fb_pos <= i => s.frame_buf[i] = Empty
        BY <3>1 DEF Tidy, Clean
      <4> QED
        BY <2>3, <2>4, <4>1, <4>2
    <3> QED
      BY <3>1
  <2> QED
    BY <2>1, <2>4, <2>6, <2>7, <2>8 DEF Tidy, Clean
<1> QED
  BY <1>2, <1>3, <1>4

LEMMA Shift ==
  ASSUME NEW s, NEW t, NEW w, s.fb_pos \in Nat, Len(w) \in Nat, NEW d \in Int, t.fb_pos = s.fb_pos - d
  PROVE  Base(t, w) = Base(s, w) - d /\ Start(t, w) = Start(s, w) - d
<1>1. PICK a \in Int, l \in Int, p \in Int : a = s.fb_pos /\ l = Len(w) /\ p = Len(Prompt)
  BY Sizes
<1>2. (a - d) - l - 1 = (a - l - 1) - d /\ (a - d) - l - p = (a - l - p) - d
  OBVIOUS
<1> QED
  BY <1>1, <1>2 DEF Base, Start

LEMMA ShiftWord ==
  ASSUME NEW s, NEW t, NEW w, NEW v, s.fb_pos \in Nat, Len(w) \in Nat, NEW d \in Int,
         t.fb_pos = s.fb_pos + d, Len(v) = Len(w) + d
  PROVE  Base(t, v) = Base(s, w) /\ Start(t, v) = Start(s, w)
<1>1. PICK a \in Int, l \in Int, p \in Int : a = s.fb_pos /\ l = Len(w) /\ p = Len(Prompt)
  BY Sizes
<1>2. (a + d) - (l + d) - 1 = a - l - 1 /\ (a + d) - (l + d) - p = a - l - p
  OBVIOUS
<1> QED
  BY <1>1, <1>2 DEF Base, Start

\* With the line on the screen, the numbers that Line speaks of.
LEMMA LineCells ==
  ASSUME NEW s, s.fb_pos \in Nat, NEW w \in Text, Line(s, w)
  PROVE  /\ Len(w) \in Nat /\ Base(s, w) \in Nat /\ Base(s, w) + Len(w) + 1 = s.fb_pos
         /\ Start(s, w) \in Nat
         /\ Base(s, w) = Start(s, w) + Len(Prompt) - 1
<1>1. Len(w) \in Nat
  BY DEF Text
<1>2. Start(s, w) \in Nat
  BY Rows DEF Line
<1>3. PICK f \in Int, l \in Int, p \in Int : f = s.fb_pos /\ l = Len(w) /\ p = Len(Prompt) /\ p >= 2
  BY <1>1, Sizes
<1>4. Base(s, w) = f - l - 1 /\ Start(s, w) = f - l - p
  BY <1>3 DEF Base, Start
<1>5. \A a, b, c \in Int : (a - b - 1) + b + 1 = a /\ a - b - 1 = (a - b - c) + c - 1
  OBVIOUS
<1>6. (f - l - 1) + l + 1 = f /\ f - l - 1 = (f - l - p) + p - 1
  BY <1>5
<1>7. (f - l - p) + p - 1 \in Nat
  <2>1. PICK x \in Nat : x = f - l - p
    BY <1>2, <1>4
  <2>2. x + p - 1 \in Nat
    BY <1>3
  <2> QED
    BY <2>1, <2>2
<1> QED
  BY <1>1, <1>2, <1>3, <1>4, <1>6, <1>7

\* A scroll takes the line along, as long as the prompt is not in the first row.
LEMMA ScrollLine ==
  ASSUME NEW s, Screen(s, VGA_SIZE + COLS), s.fb_pos >= VGA_SIZE, NEW w \in Text, Line(s, w),
         Len(Prompt) + Len(w) < VGA_SIZE, Base(s, w) < VGA_SIZE
  PROVE  Line(scroll(s), w)
<1> DEFINE t == scroll(s)
<1>1. s.fb_pos \in Nat /\ s.fb_pos >= COLS
  BY Sizes DEF Screen
<1>2. /\ Screen(t, VGA_SIZE)
      /\ t.fb_pos = s.fb_pos - COLS
      /\ \A i \in Cells : i < VGA_SIZE =>
            t.frame_buf[i] = IF i + COLS < VGA_SIZE THEN s.frame_buf[i + COLS] ELSE Empty
      /\ \A i \in t.attrs : (i + COLS < VGA_SIZE /\ i + COLS \in s.attrs) \/ i = VGA_SIZE
      /\ \A i \in s.attrs : i >= COLS /\ i < VGA_SIZE => i - COLS \in t.attrs
  BY <1>1, ScrollEffect
<1> HIDE DEF t
<1>3. /\ Len(w) \in Nat /\ Base(s, w) \in Nat /\ Base(s, w) + Len(w) + 1 = s.fb_pos
      /\ Start(s, w) \in Nat /\ Base(s, w) = Start(s, w) + Len(Prompt) - 1
  BY <1>1, LineCells
<1>4. Start(s, w) > 0
  BY <1>1, <1>3, Sizes
<1>5. RowStart(Start(s, w)) /\ Start(s, w) >= COLS /\ RowStart(Start(s, w) - COLS)
  BY <1>3, <1>4, Rows DEF Line
<1>6. Base(t, w) = Base(s, w) - COLS /\ Start(t, w) = Start(s, w) - COLS
  <2>1. t.fb_pos = s.fb_pos - COLS /\ COLS \in Int /\ s.fb_pos \in Nat /\ Len(w) \in Nat
    BY <1>1, <1>2, <1>3, Sizes
  <2> QED
    BY <2>1, Shift
<1>7. Base(s, w) >= COLS /\ Base(t, w) \in Nat
  <2>1. PICK b \in Nat, x \in Nat, p \in Nat, c \in Nat :
           b = Base(s, w) /\ x = Start(s, w) /\ p = Len(Prompt) /\ c = COLS /\ p >= 2
    BY <1>3, Sizes
  <2>2. b = x + p - 1 /\ x >= c
    BY <1>3, <1>5, <2>1
  <2>3. b >= c /\ b - c \in Nat
    BY <2>1, <2>2
  <2> QED
    BY <1>6, <2>1, <2>3
<1>8. Base(t, w) \in t.attrs
  BY <1>2, <1>6, <1>7 DEF Line
<1>9. t.attrs \subseteq Cells
  BY <1>2 DEF Screen
<1>10. \A i \in t.attrs : i <= Base(t, w) \/ i = VGA_SIZE
  <2>1. ASSUME NEW i \in t.attrs, i # VGA_SIZE PROVE i <= Base(t, w)
    <3>1. i + COLS < VGA_SIZE /\ i + COLS \in s.attrs
      BY <1>2, <2>1
    <3>2. i + COLS <= Base(s, w) \/ i + COLS = VGA_SIZE
      BY <3>1 DEF Line
    <3>3. i \in Int /\ COLS \in Int /\ VGA_SIZE \in Int /\ Base(s, w) \in Int
      BY <1>3, <1>9, Sizes
    <3> QED
      BY <3>1, <3>2, <3>3, <1>6
  <2> QED
    BY <2>1
<1>11. ASSUME NEW k \in 1 .. Len(w)
       PROVE  w[k] = IF Base(t, w) + k < VGA_SIZE THEN t.frame_buf[Base(t, w) + k] ELSE Empty
  <2>1. w[k] = IF Base(s, w) + k < VGA_SIZE THEN s.frame_buf[Base(s, w) + k] ELSE Empty
    BY DEF Line
  <2>2. Base(t, w) + k \in Nat /\ (Base(t, w) + k) + COLS = Base(s, w) + k /\ k \in Nat
    <3>1. k \in Nat /\ COLS \in Nat /\ Base(t, w) \in Nat /\ Base(s, w) = Base(t, w) + COLS
      <4>1. COLS \in Int /\ Base(s, w) \in Int /\ \A a, c \in Int : a = (a - c) + c
        BY <1>3, Sizes
      <4> QED
        BY <4>1, <1>6, <1>7, Sizes
    <3>2. \A a, b, c \in Nat : a + b \in Nat /\ (a + b) + c = (a + c) + b
      OBVIOUS
    <3> QED
      BY <3>1, <3>2
  <2>3. CASE Base(t, w) + k < VGA_SIZE
    <3>1. Base(t, w) + k \in Cells
      BY <2>2, <2>3, Sizes
    <3>2. t.frame_buf[Base(t, w) + k] = IF (Base(t, w) + k) + COLS < VGA_SIZE
                                        THEN s.frame_buf[(Base(t, w) + k) + COLS] ELSE Empty
      BY <3>1, <2>3, <1>2
    <3> QED
      BY <3>2, <2>1, <2>2, <2>3
  <2>4. CASE ~ (Base(t, w) + k < VGA_SIZE)
    <3>1. ~ (Base(s, w) + k < VGA_SIZE)
      <4>1. \A a, c, z \in Nat : ~ (a < z) => ~ (a + c < z)
        OBVIOUS
      <4> QED
        BY <2>2, <2>4, <4>1, Sizes
    <3> QED
      BY <3>1, <2>1, <2>4
  <2> QED
    BY <2>3, <2>4
<1> QED
  BY <1>5, <1>6, <1>8, <1>10, <1>11 DEF Line, t

LEMMA PutLine ==
  ASSUME NEW s, Tidy(s), NEW w \in Text, Line(s, w), NEW c \in Glyphs,
         Len(Prompt) + Len(w) < VGA_SIZE
  PROVE  Append(w, c) \in Text /\ Line(put(s, c), Append(w, c))
<1>1. /\ Append(w, c) \in Text /\ Len(Append(w, c)) = Len(w) + 1 /\ Len(w) \in Nat
      /\ \A k \in 1 .. Len(w) + 1 : Append(w, c)[k] = IF k = Len(w) + 1 THEN c ELSE w[k]
  BY DEF Text
<1>2. ASSUME NEW u, Screen(u, VGA_SIZE), u.fb_pos < VGA_SIZE, Line(u, w)
      PROVE  Line(put(u, c), Append(w, c))
  <2> DEFINE t == put(u, c)
             v == Append(w, c)
  <2>1. /\ t.fb_pos = u.fb_pos + 1 /\ t.attrs = u.attrs
        /\ \A i \in Cells : t.frame_buf[i] = IF i = u.fb_pos THEN c ELSE u.frame_buf[i]
    BY <1>2, PutEffect
  <2> HIDE DEF t, v
  <2>2. u.fb_pos \in Nat
    BY <1>2 DEF Screen
  <2>3. Base(u, w) \in Nat /\ Base(u, w) + Len(w) + 1 = u.fb_pos
    BY <1>2, <2>2, LineCells
  <2>4. Len(v) = Len(w) + 1 /\ \A k \in 1 .. Len(w) + 1 : v[k] = IF k = Len(w) + 1 THEN c ELSE w[k]
    BY <1>1 DEF v
  <2>5. /\ Base(t, v) = Base(u, w)
        /\ Start(t, v) = Start(u, w)
    BY <1>1, <2>1, <2>2, <2>4, ShiftWord
  <2>6. ASSUME NEW k \in 1 .. Len(v)
        PROVE  v[k] = IF Base(t, v) + k < VGA_SIZE THEN t.frame_buf[Base(t, v) + k] ELSE Empty
    <3>1. /\ Base(u, w) + k \in Cells /\ Base(u, w) + k < VGA_SIZE
          /\ (Base(u, w) + k = u.fb_pos <=> k = Len(w) + 1)
      <4>1. PICK b \in Nat, l \in Nat, z \in Nat : b = Base(u, w) /\ l = Len(w) /\ z = VGA_SIZE
        BY <1>1, <2>3, Sizes
      <4>2. b + l + 1 = u.fb_pos /\ b + l + 1 < z /\ k \in 1 .. l + 1
        BY <1>2, <2>3, <2>4, <4>1
      <4>3. b + k \in 0 .. z /\ b + k < z /\ (b + k = b + l + 1 <=> k = l + 1)
        BY <4>2
      <4> QED
        BY <4>1, <4>2, <4>3, Sizes
    <3>2. k = Len(w) + 1 \/ (k \in 1 .. Len(w) /\ k # Len(w) + 1)
      BY <1>1, <2>4
    <3>3. k \in 1 .. Len(w) => w[k] = u.frame_buf[Base(u, w) + k]
      BY <1>2, <3>1 DEF Line
    <3>4. t.frame_buf[Base(u, w) + k] = IF Base(u, w) + k = u.fb_pos THEN c ELSE u.frame_buf[Base(u, w) + k]
      BY <2>1, <3>1
    <3> QED
      BY <1>1, <2>4, <2>5, <3>1, <3>2, <3>3, <3>4
  <2>7. /\ RowStart(Start(t, v)) /\ Base(t, v) \in t.attrs
        /\ \A i \in t.attrs : i <= Base(t, v) \/ i = VGA_SIZE
    BY <1>2, <2>1, <2>5 DEF Line
  <2> QED
    BY <2>6, <2>7 DEF Line, t, v
<1>3. Clean(s, VGA_SIZE) /\ Screen(s, VGA_SIZE) /\ s.fb_pos \in Cells
  BY TidyLoose
<1>4. CASE s.fb_pos < VGA_SIZE
  BY <1>1, <1>2, <1>3, <1>4
<1>5. CASE s.fb_pos = VGA_SIZE
  <2>1. put(s, c) = put(scroll(s), c) /\ Screen(s, VGA_SIZE + COLS)
    BY <1>3, <1>5, PutScrolls
  <2>2. Clean(s, VGA_SIZE + COLS) /\ s.fb_pos >= VGA_SIZE
    BY <1>3, <2>1, <1>5, Sizes DEF Clean
  <2>3. Screen(scroll(s), VGA_SIZE) /\ scroll(s).fb_pos < VGA_SIZE
    <3>1. Tidy(scroll(s)) /\ scroll(s).fb_pos = VGA_SIZE - COLS
      BY <2>2, <1>5, ScrollTidy
    <3> QED
      BY <3>1, TidyLoose, Sizes
  <2>4. Base(s, w) < VGA_SIZE
    <3>1. s.fb_pos \in Nat
      BY <1>3, Sizes
    <3>2. Base(s, w) \in Nat /\ Base(s, w) + Len(w) + 1 = s.fb_pos
      BY <3>1, LineCells
    <3> QED
      BY <1>1, <1>5, <3>2, Sizes
  <2>5. Line(scroll(s), w)
    BY <2>1, <2>2, <2>4, ScrollLine
  <2> QED
    BY <1>1, <1>2, <2>1, <2>3, <2>5
<1> QED
  BY <1>3, <1>4, <1>5, Sizes

\* The first n characters of a text.
LEMMA Prefix ==
  ASSUME NEW w \in Text, NEW n \in 0 .. Len(w)
  PROVE  /\ SubSeq(w, 1, n) \in Text /\ Len(SubSeq(w, 1, n)) = n
         /\ \A k \in 1 .. n : SubSeq(w, 1, n)[k] = w[k]
<1>1. w \in Seq(Glyphs) /\ Len(w) \in Nat
  BY DEF Text
<1>2. n \in Int /\ n >= 0 /\ \A k \in 1 .. n : w[k] \in Glyphs
  BY <1>1
<1>3. /\ SubSeq(w, 1, n) \in Seq(Glyphs)
      /\ Len(SubSeq(w, 1, n)) = IF 1 <= n THEN n - 1 + 1 ELSE 0
      /\ \A k \in 1 .. n - 1 + 1 : SubSeq(w, 1, n)[k] = w[1 + k - 1]
  BY <1>2, SubSeqProperties
<1>4. (IF 1 <= n THEN n - 1 + 1 ELSE 0) = n /\ n - 1 + 1 = n /\ \A k \in 1 .. n : 1 + k - 1 = k
  BY <1>2
<1> QED
  BY <1>3, <1>4 DEF Text

LEMMA DeleteLine ==
  ASSUME NEW s, Tidy(s), NEW w \in Text, Line(s, w)
  PROVE  /\ fb_delete_char(s).fault = s.fault
         /\ w = <<>> => fb_delete_char(s) = s
         /\ w # <<>> => Front(w) \in Text /\ Len(Front(w)) = Len(w) - 1 /\ Line(fb_delete_char(s), Front(w))
<1>1. Screen(s, VGA_SIZE) /\ s.fb_pos \in Cells /\ s.fb_pos \in Nat
  BY TidyLoose, Sizes
<1>2. Len(w) \in Nat /\ Base(s, w) \in Nat /\ Base(s, w) + Len(w) + 1 = s.fb_pos
  BY <1>1, LineCells
<1>3. CASE w = <<>>
  <2>1. s.fb_pos # 0 /\ s.fb_pos - 1 \in s.attrs
    <3>1. Len(w) = 0
      BY <1>3
    <3>2. s.fb_pos - 1 = Base(s, w)
      BY <1>1, <1>2, <3>1
    <3> QED
      BY <1>1, <1>2, <3>1, <3>2 DEF Line
  <2> QED
    BY <1>3, <2>1 DEF fb_delete_char
<1>4. CASE w # <<>>
  <2>0. PICK p : p = s.fb_pos - 1
    OBVIOUS
  <2> DEFINE v == Front(w)
             t == [s EXCEPT !.fb_pos = @ - 1]
             u == write_fb(t, p, Empty)
  <2>1. Len(w) > 0
    <3>1. Len(w) # 0
      BY <1>4, EmptySeq DEF Text
    <3> QED
      BY <3>1, <1>2
  <2>2. v \in Text /\ Len(v) = Len(w) - 1 /\ \A k \in 1 .. Len(w) - 1 : v[k] = w[k]
    <3>1. Len(w) - 1 \in 0 .. Len(w)
      BY <1>2, <2>1
    <3> QED
      BY <3>1, Prefix DEF Front
  <2>3. /\ s.fb_pos # 0 /\ p \in Cells /\ p < VGA_SIZE /\ p > Base(s, w) /\ Empty \in Glyphs
    BY <1>1, <1>2, <2>0, <2>1, Sizes DEF Glyphs
  <2>4. p \notin s.attrs
    <3>1. p \in Nat /\ p # VGA_SIZE /\ ~ (p <= Base(s, w))
      BY <1>2, <2>3, Sizes
    <3> QED
      BY <3>1 DEF Line
  <2>5. fb_delete_char(s) = u
    BY <2>0, <2>3, <2>4 DEF fb_delete_char
  <2>6. /\ Screen(t, VGA_SIZE) /\ t.fb_pos = p /\ t.attrs = s.attrs /\ t.fault = s.fault
        /\ t.frame_buf = s.frame_buf
    BY <1>1, <2>0, <2>3, Sizes DEF Screen
  <2> HIDE DEF t, v
  <2>7. /\ u.fb_pos = p /\ u.attrs = s.attrs /\ u.fault = s.fault
        /\ \A j \in Cells : u.frame_buf[j] = IF j = p THEN Empty ELSE s.frame_buf[j]
    <3>1. /\ u.fb_pos = t.fb_pos /\ u.attrs = t.attrs /\ u.fault = t.fault
          /\ \A j \in Cells : u.frame_buf[j] = IF j = p THEN Empty ELSE t.frame_buf[j]
      BY <2>3, <2>6, WriteEffect DEF Wrote
    <3> QED
      BY <2>6, <3>1
  <2> HIDE DEF u
  <2>8. /\ Base(u, v) = Base(s, w)
        /\ Start(u, v) = Start(s, w)
    <3>1. u.fb_pos = s.fb_pos + (-1) /\ Len(v) = Len(w) + (-1) /\ -1 \in Int
      BY <1>1, <1>2, <2>0, <2>2, <2>7
    <3> QED
      BY <3>1, <1>1, <1>2, ShiftWord
  <2>9. ASSUME NEW k \in 1 .. Len(v)
        PROVE  v[k] = IF Base(u, v) + k < VGA_SIZE THEN u.frame_buf[Base(u, v) + k] ELSE Empty
    <3>1. /\ k \in 1 .. Len(w) /\ k \in 1 .. Len(w) - 1
          /\ Base(s, w) + k \in Cells /\ Base(s, w) + k < VGA_SIZE /\ Base(s, w) + k # p
      <4>1. PICK b \in Nat, l \in Nat, z \in Nat : b = Base(s, w) /\ l = Len(w) /\ z = VGA_SIZE
        BY <1>2, Sizes
      <4>2. p \in Int /\ b + l + 1 = p + 1 /\ p + 1 <= z /\ k \in 1 .. l - 1
        <5>1. PICK f \in 0 .. z : f = s.fb_pos
          BY <1>1, <4>1, Sizes
        <5>2. p = f - 1 /\ b + l + 1 = f
          BY <1>2, <2>0, <4>1, <5>1
        <5>3. k \in 1 .. l - 1
          BY <2>2, <4>1
        <5> QED
          BY <5>2, <5>3
      <4>3. k \in 1 .. l /\ b + k \in 0 .. z /\ b + k < z /\ b + k # p
        BY <4>2
      <4> QED
        BY <4>1, <4>2, <4>3, Sizes
    <3>2. w[k] = s.frame_buf[Base(s, w) + k]
      BY <3>1 DEF Line
    <3>3. s.frame_buf \in [Cells -> Glyphs]
      BY <1>1 DEF Screen
    <3>4. u.frame_buf[Base(s, w) + k] = s.frame_buf[Base(s, w) + k]
      BY <2>7, <3>1, <3>3
    <3> QED
      BY <2>2, <2>8, <3>1, <3>2, <3>4
  <2>10. Line(u, v)
    BY <2>7, <2>8, <2>9 DEF Line
  <2> QED
    BY <1>4, <2>2, <2>5, <2>7, <2>10 DEF v
<1> QED
  BY <1>3, <1>4

----------------------------------------------------------------------------
\* Newlines and prompts.

LEMMA BelowEffect ==
  ASSUME NEW s, Tidy(s)
  PROVE  LET u == [s EXCEPT !.fb_pos = Down1(s.fb_pos)] IN
         /\ fb_newline(s) = IF u.fb_pos >= VGA_SIZE THEN scroll(u) ELSE u
         /\ Clean(u, VGA_SIZE + COLS) /\ u.fb_pos = Down1(s.fb_pos) /\ u.fault = s.fault
         /\ u.attrs = s.attrs /\ u.frame_buf = s.frame_buf
<1> DEFINE u == [s EXCEPT !.fb_pos = Down1(s.fb_pos)]
<1>1. Screen(s, VGA_SIZE) /\ Clean(s, VGA_SIZE) /\ s.fb_pos \in 0 .. VGA_SIZE
  BY TidyLoose, Sizes
<1>2. Down1(s.fb_pos) \in Nat /\ s.fb_pos < Down1(s.fb_pos) /\ Down1(s.fb_pos) <= s.fb_pos + COLS
  BY <1>1, NextRow
<1>3. Down1(s.fb_pos) \in 0 .. VGA_SIZE + COLS
  BY <1>1, <1>2, Sizes
<1>4. fb_newline(s) = IF u.fb_pos >= VGA_SIZE THEN scroll(u) ELSE u
  BY DEF fb_newline, Down1
<1>5. /\ Screen(u, VGA_SIZE + COLS) /\ u.fb_pos = Down1(s.fb_pos) /\ u.fault = s.fault
      /\ u.attrs = s.attrs /\ u.frame_buf = s.frame_buf /\ u.fb_out = s.fb_out
  BY <1>1, <1>3 DEF Screen
<1> HIDE DEF u
<1>6. \A i \in Cells : i < VGA_SIZE /\ u.fb_pos <= i => u.frame_buf[i] = Empty
  BY <1>1, <1>2, <1>5, Sizes DEF Clean
<1>7. Clean(u, VGA_SIZE + COLS)
  BY <1>1, <1>5, <1>6 DEF Clean
<1> QED
  BY <1>4, <1>5, <1>7 DEF u

LEMMA NewlineTidy ==
  ASSUME NEW s, Tidy(s)
  PROVE  Tidy(fb_newline(s)) /\ RowStart(fb_newline(s).fb_pos) /\ fb_newline(s).fault = s.fault
<1>1. PICK u :
         /\ fb_newline(s) = IF u.fb_pos >= VGA_SIZE THEN scroll(u) ELSE u
         /\ Clean(u, VGA_SIZE + COLS) /\ u.fb_pos = Down1(s.fb_pos) /\ u.fault = s.fault
         /\ u.attrs = s.attrs
  BY BelowEffect
<1>2. /\ s.fb_pos \in 0 .. VGA_SIZE /\ s.attrs \subseteq Cells
      /\ \A i \in s.attrs : i < s.fb_pos \/ i = VGA_SIZE
  BY TidyLoose, Sizes DEF Tidy, Behind
<1>3. /\ Down1(s.fb_pos) \in Nat /\ s.fb_pos < Down1(s.fb_pos)
      /\ s.fb_pos < VGA_SIZE => RowStart(Down1(s.fb_pos))
      /\ s.fb_pos = VGA_SIZE => Down1(s.fb_pos) = VGA_SIZE + COLS
  BY <1>2, NextRow
<1>4. CASE u.fb_pos >= VGA_SIZE
  <2>1. Tidy(scroll(u)) /\ scroll(u).fault = u.fault /\ scroll(u).fb_pos = u.fb_pos - COLS
    BY <1>1, <1>4, ScrollTidy
  <2>2. RowStart(u.fb_pos - COLS)
    <3>1. CASE s.fb_pos = VGA_SIZE
      <4>1. u.fb_pos - COLS = VGA_SIZE
        BY <1>1, <1>3, <3>1, Sizes
      <4> QED
        BY <4>1, Rows
    <3>2. CASE s.fb_pos < VGA_SIZE
      <4>1. RowStart(u.fb_pos) /\ u.fb_pos > 0
        BY <1>1, <1>2, <1>3, <3>2
      <4> QED
        BY <4>1, Rows
    <3> QED
      BY <3>1, <3>2, <1>2, Sizes
  <2> QED
    BY <1>1, <1>4, <2>1, <2>2
<1>5. CASE ~ (u.fb_pos >= VGA_SIZE)
  <2>1. fb_newline(s) = u
    BY <1>1, <1>5
  <2>2. s.fb_pos < VGA_SIZE /\ u.fb_pos \in 0 .. VGA_SIZE
    BY <1>1, <1>2, <1>3, <1>5, Sizes
  <2>3. Clean(u, VGA_SIZE)
    BY <1>1, <2>2 DEF Clean, Screen
  <2>4. Behind(u)
    BY <1>1, <1>2, <1>3, Sizes DEF Behind
  <2> QED
    BY <1>1, <1>3, <2>1, <2>2, <2>3, <2>4 DEF Tidy
<1> QED
  BY <1>4, <1>5

\* The cells that a newline passes count as written, and are empty.
LEMMA NewlineLine ==
  ASSUME NEW s, Tidy(s), NEW w \in Text, Line(s, w), NEW v \in Text, NEW n \in Nat,
         n = COLS - ((Len(Prompt) + Len(w)) % COLS), Len(v) = Len(w) + n,
         \A k \in 1 .. Len(w) + n : v[k] = IF k <= Len(w) THEN w[k] ELSE Empty,
         Len(Prompt) + Len(v) < VGA_SIZE
  PROVE  Line(fb_newline(s), v)
<1>1. PICK u :
         /\ fb_newline(s) = IF u.fb_pos >= VGA_SIZE THEN scroll(u) ELSE u
         /\ Clean(u, VGA_SIZE + COLS) /\ u.fb_pos = Down1(s.fb_pos)
         /\ u.attrs = s.attrs /\ u.frame_buf = s.frame_buf
  BY BelowEffect
<1>2. s.fb_pos \in 0 .. VGA_SIZE /\ s.fb_pos \in Nat /\ s.fb_pos <= VGA_SIZE
  BY TidyLoose, Sizes
<1>3. /\ Len(w) \in Nat /\ Base(s, w) \in Nat /\ Base(s, w) + Len(w) + 1 = s.fb_pos
      /\ Start(s, w) \in Nat /\ Base(s, w) = Start(s, w) + Len(Prompt) - 1
  BY <1>2, LineCells
<1>4. u.fb_pos = s.fb_pos + n
  <2>1. PICK m \in Nat : m = Len(Prompt) + Len(w)
    BY <1>3, Sizes
  <2>2. Start(s, w) + m = s.fb_pos
    <3>1. PICK x \in Nat, b \in Nat, l \in Nat, p \in Nat :
             x = Start(s, w) /\ b = Base(s, w) /\ l = Len(w) /\ p = Len(Prompt)
      BY <1>3, Sizes
    <3>2. b + l + 1 = s.fb_pos /\ b = x + p - 1 /\ m = p + l
      BY <1>3, <2>1, <3>1
    <3>3. x + m = b + l + 1
      BY <3>2
    <3> QED
      BY <3>1, <3>2, <3>3
  <2>3. RowStart(Start(s, w)) /\ Start(s, w) + m <= VGA_SIZE
    BY <1>2, <2>2 DEF Line
  <2>4. Down1(Start(s, w) + m) = Start(s, w) + m + (COLS - (m % COLS))
    BY <2>3, RestIs
  <2> QED
    BY <1>1, <2>1, <2>2, <2>4
<1>5. /\ Len(v) = Len(w) + n
      /\ \A k \in 1 .. Len(w) + n : v[k] = IF k <= Len(w) THEN w[k] ELSE Empty
  OBVIOUS
<1>6. Base(u, v) = Base(s, w) /\ Start(u, v) = Start(s, w)
  <2>1. Len(v) = Len(w) + n /\ n \in Int /\ s.fb_pos \in Nat /\ Len(w) \in Nat
    BY <1>2, <1>3, <1>5
  <2> QED
    BY <2>1, <1>4, ShiftWord
<1>7. ASSUME NEW k \in 1 .. Len(v)
      PROVE  v[k] = IF Base(u, v) + k < VGA_SIZE THEN u.frame_buf[Base(u, v) + k] ELSE Empty
  <2>1. k \in Nat /\ k \in 1 .. Len(w) + n /\ k >= 1
    BY <1>3, <1>5
  <2>2. CASE k <= Len(w)
    <3>1. k \in 1 .. Len(w) /\ v[k] = w[k]
      BY <1>3, <1>5, <2>1, <2>2
    <3> QED
      BY <1>1, <1>6, <3>1 DEF Line
  <2>3. CASE ~ (k <= Len(w))
    <3>1. v[k] = Empty
      BY <1>5, <2>1, <2>3
    <3>2. Base(s, w) + k \in Nat /\ Base(s, w) + k >= s.fb_pos
      <4>1. PICK b \in Nat, l \in Nat, p \in Nat : b = Base(s, w) /\ l = Len(w) /\ p = s.fb_pos
        BY <1>2, <1>3
      <4>2. b + l + 1 = p
        BY <1>3, <4>1
      <4>3. ~ (k <= l)
        BY <2>3, <4>1
      <4>4. b + k \in Nat /\ b + k >= p
        BY <2>1, <4>2, <4>3
      <4> QED
        BY <4>1, <4>4
    <3>3. ASSUME Base(s, w) + k < VGA_SIZE PROVE s.frame_buf[Base(s, w) + k] = Empty
      <4>1. Base(s, w) + k \in Cells /\ s.fb_pos <= Base(s, w) + k
        BY <1>2, <3>2, <3>3, Sizes
      <4> QED
        BY <4>1, <3>3 DEF Tidy, Clean
    <3> QED
      BY <1>1, <1>6, <3>1, <3>3
  <2> QED
    BY <2>2, <2>3
<1>8. Line(u, v)
  BY <1>1, <1>6, <1>7 DEF Line
<1>9. Base(u, v) < VGA_SIZE
  <2>1. PICK b \in Nat, l \in Nat, p \in Nat, z \in Nat :
           b = Base(s, w) /\ l = Len(w) /\ p = s.fb_pos /\ z = VGA_SIZE
    BY <1>2, <1>3, Sizes
  <2>2. b + l + 1 = p /\ p <= z
    BY <1>2, <1>3, <2>1
  <2>3. b < z
    BY <2>2
  <2> QED
    BY <1>6, <2>1, <2>3
<1>10. CASE u.fb_pos >= VGA_SIZE
  <2>1. Line(scroll(u), v)
    BY <1>1, <1>8, <1>9, <1>10, ScrollLine DEF Clean
  <2> QED
    BY <1>1, <1>10, <2>1
<1>11. CASE ~ (u.fb_pos >= VGA_SIZE)
  BY <1>1, <1>8, <1>11
<1> QED
  BY <1>10, <1>11

\* One character of the prompt.
LEMMA PromptRound ==
  ASSUME NEW s, Tidy(s), NEW j \in 0 .. Len(Prompt) - 1, RowStart(s.fb_pos - j), NEW c \in Glyphs
  PROVE  LET t == fb_putc_attrs(s, c) IN
         /\ Tidy(t) /\ RowStart(t.fb_pos - (j + 1)) /\ t.fault = s.fault
         /\ j >= 1 => t.fb_pos - 1 \in t.attrs
<1> DEFINE u == [s EXCEPT !.attrs = @ \cup {s.fb_pos}]
           t == put(u, c)
<1>1. fb_putc_attrs(s, c) = t
  BY DEF fb_putc_attrs
<1>2. Clean(s, VGA_SIZE) /\ Screen(s, VGA_SIZE) /\ s.fb_pos \in Cells /\ s.attrs \subseteq Cells
  BY TidyLoose
<1>3. /\ Screen(u, VGA_SIZE) /\ u.fb_pos = s.fb_pos /\ u.fault = s.fault
      /\ u.frame_buf = s.frame_buf /\ u.fb_out = s.fb_out /\ u.attrs = s.attrs \cup {s.fb_pos}
  BY <1>2 DEF Screen
<1> HIDE DEF u
<1>4. Clean(u, VGA_SIZE)
  BY <1>2, <1>3 DEF Clean
<1>5. \A i \in u.attrs : i <= u.fb_pos \/ i = VGA_SIZE
  BY <1>2, <1>3, TidyLoose, Sizes
<1>6. Tidy(t) /\ t.fault = s.fault
  BY <1>3, <1>4, <1>5, PutTidy
<1>7. CASE s.fb_pos < VGA_SIZE
  <2>1. t.fb_pos = u.fb_pos + 1 /\ t.attrs = u.attrs
    BY <1>3, <1>7, PutEffect
  <2>2. t.fb_pos - (j + 1) = s.fb_pos - j /\ t.fb_pos - 1 = s.fb_pos
    <3>1. \A a, b \in Int : (a + 1) - (b + 1) = a - b /\ (a + 1) - 1 = a
      OBVIOUS
    <3>2. s.fb_pos \in Int /\ j \in Int
      BY <1>2, Sizes
    <3> QED
      BY <1>3, <2>1, <3>1, <3>2
  <2> QED
    BY <1>1, <1>3, <1>6, <2>1, <2>2
<1>8. CASE s.fb_pos = VGA_SIZE
  <2>1. j = 0
    <3>1. SUFFICES ASSUME j >= 1 PROVE FALSE
      BY Sizes
    <3>2. s.fb_pos - j < VGA_SIZE
      BY <1>8, <3>1, Sizes
    <3>3. (s.fb_pos - j) + COLS <= VGA_SIZE
      BY <3>2, Rows
    <3> QED
      BY <1>8, <3>3, Sizes
  <2>2. put(u, c) = put(scroll(u), c) /\ Screen(u, VGA_SIZE + COLS) /\ u.fb_pos >= COLS
    BY <1>3, <1>8, PutScrolls
  <2>3. Screen(scroll(u), VGA_SIZE) /\ scroll(u).fb_pos = VGA_SIZE - COLS
    BY <1>3, <1>8, <2>2, ScrollEffect
  <2>4. scroll(u).fb_pos < VGA_SIZE
    BY <2>3, Sizes
  <2>5. t.fb_pos = scroll(u).fb_pos + 1
    BY <2>2, <2>3, <2>4, PutEffect
  <2>6. t.fb_pos - (j + 1) = VGA_SIZE - COLS
    BY <2>1, <2>3, <2>5, Sizes
  <2>7. RowStart(VGA_SIZE - COLS)
    <3>1. VGA_SIZE > 0
      BY Sizes
    <3> QED
      BY <3>1, Rows
  <2> QED
    BY <1>1, <1>6, <2>1, <2>6, <2>7
<1> QED
  BY <1>2, <1>7, <1>8, Sizes

LEMMA PromptLine ==
  ASSUME NEW s, Tidy(s), RowStart(s.fb_pos)
  PROVE  Tidy(shell_prompt(s)) /\ Line(shell_prompt(s), <<>>) /\ shell_prompt(s).fault = s.fault
<1> DEFINE n == Len(Prompt)
<1>1. PICK g : /\ shell_prompt(s) = g[n] /\ g[0] = s
               /\ \A k \in 1 .. n : g[k] = fb_putc_attrs(g[k - 1], Prompt[k])
  BY PromptLoop
<1> DEFINE S == {k \in 0 .. n : /\ Tidy(g[k]) /\ RowStart(g[k].fb_pos - k) /\ g[k].fault = s.fault
                                /\ k >= 2 => g[k].fb_pos - 1 \in g[k].attrs}
<1>2. n \in Nat /\ n >= 2
  BY Sizes
<1>3. 0 \in S
  <2>1. s.fb_pos - 0 = s.fb_pos
    BY TidyLoose, Sizes
  <2> QED
    BY <1>1, <1>2, <2>1
<1>4. ASSUME NEW k \in 1 .. n, k - 1 \in S PROVE k \in S
  <2>1. /\ k - 1 \in 0 .. n - 1 /\ (k - 1) + 1 = k /\ (k >= 2 => k - 1 >= 1)
    BY <1>2
  <2>2. Prompt[k] \in Glyphs
    BY DEF Glyphs
  <2>3. Tidy(g[k - 1]) /\ RowStart(g[k - 1].fb_pos - (k - 1)) /\ g[k - 1].fault = s.fault
    BY <1>4
  <2>4. LET t == fb_putc_attrs(g[k - 1], Prompt[k]) IN
        /\ Tidy(t) /\ RowStart(t.fb_pos - ((k - 1) + 1)) /\ t.fault = g[k - 1].fault
        /\ k - 1 >= 1 => t.fb_pos - 1 \in t.attrs
    BY <2>1, <2>2, <2>3, PromptRound
  <2>5. g[k] = fb_putc_attrs(g[k - 1], Prompt[k])
    BY <1>1
  <2> QED
    BY <2>1, <2>3, <2>4, <2>5
<1>5. n \in S
  <2> HIDE DEF S
  <2>1. \A k \in 0 .. n : k \in S
    BY <1>2, <1>3, <1>4, Rounds
  <2> QED
    BY <1>2, <2>1
<1>6. PICK t : t = g[n]
  OBVIOUS
<1>7. /\ Tidy(t) /\ RowStart(t.fb_pos - n) /\ t.fault = s.fault /\ t.fb_pos - 1 \in t.attrs
  BY <1>2, <1>5, <1>6
<1>8. t.fb_pos \in Nat /\ t.attrs \subseteq Cells /\ Cells \subseteq Nat
  BY <1>7, TidyLoose, Sizes
<1>9. Start(t, <<>>) = t.fb_pos - n /\ Base(t, <<>>) = t.fb_pos - 1
  BY <1>8, Sizes DEF Start, Base
<1>10. \A i \in t.attrs : i <= t.fb_pos - 1 \/ i = VGA_SIZE
  <2>1. \A i \in t.attrs : i < t.fb_pos \/ i = VGA_SIZE
    BY <1>7 DEF Tidy, Behind
  <2>2. \A i, p \in Nat : i < p => i <= p - 1
    OBVIOUS
  <2> QED
    BY <1>8, <2>1, <2>2
<1>11. \A k \in 1 .. Len(<<>>) :
          <<>>[k] = IF Base(t, <<>>) + k < VGA_SIZE THEN t.frame_buf[Base(t, <<>>) + k] ELSE Empty
  OBVIOUS
<1>12. Line(t, <<>>)
  BY <1>7, <1>9, <1>10, <1>11 DEF Line
<1> QED
  BY <1>1, <1>6, <1>7, <1>12

----------------------------------------------------------------------------
\* Texts printed and removed.

LEMMA PrintTidy ==
  ASSUME NEW s, Tidy(s), NEW msg \in Text
  PROVE  Tidy(fb_print(s, msg)) /\ fb_print(s, msg).fault = s.fault
<1>1. Len(msg) \in Nat /\ \A k \in 1 .. Len(msg) : msg[k] \in Glyphs
  BY DEF Text
<1>2. PICK g : /\ fb_print(s, msg) = g[Len(msg)] /\ g[0] = s
               /\ \A k \in 1 .. Len(msg) : g[k] = put(g[k - 1], msg[k])
  <2>1. PICK g : Printed(g, s, msg)
    BY <1>1, PrintLoop
  <2> QED
    BY <2>1 DEF Printed
<1> DEFINE S == {k \in 0 .. Len(msg) : Tidy(g[k]) /\ g[k].fault = s.fault}
<1>3. 0 \in S
  BY <1>1, <1>2
<1>4. ASSUME NEW k \in 1 .. Len(msg), k - 1 \in S PROVE k \in S
  <2>1. Tidy(g[k - 1]) /\ g[k - 1].fault = s.fault /\ k \in 0 .. Len(msg)
    BY <1>1, <1>4
  <2>2. /\ Clean(g[k - 1], VGA_SIZE)
        /\ \A i \in g[k - 1].attrs : i <= g[k - 1].fb_pos \/ i = VGA_SIZE
    BY <2>1, TidyLoose
  <2>3. Tidy(put(g[k - 1], msg[k])) /\ put(g[k - 1], msg[k]).fault = g[k - 1].fault
    BY <1>1, <2>2, PutTidy
  <2> QED
    BY <1>2, <2>1, <2>3
<1>5. Len(msg) \in S
  <2> HIDE DEF S
  <2>1. \A k \in 0 .. Len(msg) : k \in S
    BY <1>1, <1>3, <1>4, Rounds
  <2> QED
    BY <1>1, <2>1
<1> QED
  BY <1>2, <1>5

\* v is w with msg behind it.
Joined(v, w, msg) ==
    /\ Len(v) = Len(w) + Len(msg)
    /\ \A k \in 1 .. Len(w) : v[k] = w[k]
    /\ \A k \in 1 .. Len(msg) : v[Len(w) + k] = msg[k]

LEMMA PrintLine ==
  ASSUME NEW s, Tidy(s), NEW w \in Text, NEW msg \in Text, NEW v \in Text, Joined(v, w, msg),
         Line(s, w), Len(Prompt) + Len(v) < VGA_SIZE
  PROVE  Line(fb_print(s, msg), v)
<1>1. Len(msg) \in Nat /\ Len(w) \in Nat /\ Len(v) \in Nat /\ \A k \in 1 .. Len(msg) : msg[k] \in Glyphs
  BY DEF Text
<1>2. PICK g : /\ fb_print(s, msg) = g[Len(msg)] /\ g[0] = s
               /\ \A k \in 1 .. Len(msg) : g[k] = put(g[k - 1], msg[k])
  <2>1. PICK g : Printed(g, s, msg)
    BY <1>1, PrintLoop
  <2> QED
    BY <2>1 DEF Printed
<1>3. PICK n \in Nat, m \in Nat : n = Len(msg) /\ m = Len(w)
  BY <1>1
<1>4. Len(v) = m + n /\ Len(Prompt) + (m + n) < VGA_SIZE
  BY <1>3 DEF Joined
<1> DEFINE Upto(k) == SubSeq(v, 1, m + k)
<1>5. ASSUME NEW k \in 0 .. n
      PROVE  /\ m + k \in 0 .. Len(v) /\ Upto(k) \in Text /\ Len(Upto(k)) = m + k
             /\ \A i \in 1 .. m + k : Upto(k)[i] = v[i]
  <2>1. m + k \in 0 .. Len(v)
    BY <1>4
  <2> QED
    BY <2>1, Prefix
<1> HIDE DEF Upto
<1> DEFINE S == {k \in 0 .. n : Tidy(g[k]) /\ Line(g[k], Upto(k))}
<1>6. 0 \in S
  <2>1. Upto(0) \in Text /\ Len(Upto(0)) = m /\ \A i \in 1 .. m : Upto(0)[i] = v[i]
    BY <1>5
  <2>2. Upto(0) = w
    <3>1. \A i \in 1 .. m : Upto(0)[i] = w[i]
      BY <1>3, <2>1 DEF Joined
    <3> QED
      BY <1>3, <2>1, <3>1, SeqEqual DEF Text
  <2> QED
    BY <1>2, <2>2
<1>7. ASSUME NEW k \in 1 .. n, k - 1 \in S PROVE k \in S
  <2>1. Tidy(g[k - 1]) /\ Line(g[k - 1], Upto(k - 1)) /\ k \in 0 .. n /\ k - 1 \in 0 .. n
    BY <1>7
  <2>2. /\ Upto(k - 1) \in Text /\ Len(Upto(k - 1)) = m + (k - 1)
        /\ \A i \in 1 .. m + (k - 1) : Upto(k - 1)[i] = v[i]
    BY <2>1, <1>5
  <2>3. msg[k] \in Glyphs /\ v[m + k] = msg[k] /\ g[k] = put(g[k - 1], msg[k])
    BY <1>1, <1>2, <1>3 DEF Joined
  <2>4. Len(Prompt) + Len(Upto(k - 1)) < VGA_SIZE
    BY <1>4, <2>2, Sizes
  <2>5. Append(Upto(k - 1), msg[k]) \in Text /\ Line(g[k], Append(Upto(k - 1), msg[k]))
    BY <2>1, <2>2, <2>3, <2>4, PutLine
  <2>6. Upto(k) \in Text /\ Len(Upto(k)) = m + k /\ \A i \in 1 .. m + k : Upto(k)[i] = v[i]
    BY <2>1, <1>5
  <2>7. Append(Upto(k - 1), msg[k]) = Upto(k)
    <3>1. PICK x : x = Append(Upto(k - 1), msg[k])
      OBVIOUS
    <3>2. /\ x \in Seq(Glyphs) /\ Len(x) = (m + (k - 1)) + 1
          /\ \A i \in 1 .. (m + (k - 1)) + 1 :
                x[i] = IF i = (m + (k - 1)) + 1 THEN msg[k] ELSE Upto(k - 1)[i]
      BY <2>2, <2>3, <3>1 DEF Text
    <3>3. (m + (k - 1)) + 1 = m + k /\ \A i \in 1 .. m + k : i = m + k \/ i \in 1 .. m + (k - 1)
      OBVIOUS
    <3>4. Len(x) = m + k /\ \A i \in 1 .. m + k : x[i] = v[i]
      BY <2>2, <2>3, <3>2, <3>3
    <3>5. \A i \in 1 .. m + k : x[i] = Upto(k)[i]
      BY <2>6, <3>4
    <3> QED
      BY <2>6, <3>1, <3>2, <3>4, <3>5, SeqEqual DEF Text
  <2>8. Tidy(g[k])
    <3>1. /\ Clean(g[k - 1], VGA_SIZE)
          /\ \A i \in g[k - 1].attrs : i <= g[k - 1].fb_pos \/ i = VGA_SIZE
      BY <2>1, TidyLoose
    <3> QED
      BY <2>3, <3>1, PutTidy
  <2> QED
    BY <2>1, <2>5, <2>7, <2>8
<1>8. n \in S
  <2> HIDE DEF S
  <2>1. \A k \in 0 .. n : k \in S
    BY <1>6, <1>7, Rounds
  <2> QED
    BY <2>1
<1>9. Upto(n) = v
  <2>1. Upto(n) \in Text /\ Len(Upto(n)) = m + n /\ \A i \in 1 .. m + n : Upto(n)[i] = v[i]
    BY <1>5
  <2> QED
    BY <1>4, <2>1, SeqEqual DEF Text
<1> QED
  BY <1>2, <1>3, <1>8, <1>9

LEMMA DeleteLastTidy ==
  ASSUME NEW s, Tidy(s), NEW len \in Nat
  PROVE  Tidy(fb_delete_last(s, len))
<1>1. PICK g : /\ fb_delete_last(s, len) = g[len] /\ g[0] = s
               /\ \A k \in 1 .. len : g[k] = fb_delete_char(g[k - 1])
  BY DeleteLoop
<1> DEFINE S == {k \in 0 .. len : Tidy(g[k])}
<1>2. 0 \in S
  BY <1>1
<1>3. ASSUME NEW k \in 1 .. len, k - 1 \in S PROVE k \in S
  <2>1. Tidy(g[k - 1]) /\ k \in 0 .. len
    BY <1>3
  <2> QED
    BY <1>1, <2>1, DeleteTidy
<1>4. len \in S
  <2> HIDE DEF S
  <2>1. \A k \in 0 .. len : k \in S
    BY <1>2, <1>3, Rounds
  <2> QED
    BY <2>1
<1> QED
  BY <1>1, <1>4

\* As many deletions as the line has characters leave the prompt.
LEMMA DeleteLastLine ==
  ASSUME NEW s, Tidy(s), NEW w \in Text, Line(s, w)
  PROVE  Line(fb_delete_last(s, Len(w)), <<>>) /\ fb_delete_last(s, Len(w)).fault = s.fault
<1>1. PICK n \in Nat : n = Len(w)
  BY DEF Text
<1>2. PICK g : /\ fb_delete_last(s, n) = g[n] /\ g[0] = s
               /\ \A k \in 1 .. n : g[k] = fb_delete_char(g[k - 1])
  BY DeleteLoop
<1> DEFINE Left(u, k) == u \in Text /\ Len(u) = n - k /\ Line(g[k], u)
           S == {k \in 0 .. n : Tidy(g[k]) /\ g[k].fault = s.fault /\ \E u : Left(u, k)}
<1>3. 0 \in S
  <2>1. Left(w, 0)
    BY <1>1, <1>2
  <2> QED
    BY <1>2, <2>1
<1>4. ASSUME NEW k \in 1 .. n, k - 1 \in S PROVE k \in S
  <2>1. Tidy(g[k - 1]) /\ g[k - 1].fault = s.fault /\ k \in 0 .. n
    BY <1>4
  <2>2. PICK u : Left(u, k - 1)
    BY <1>4
  <2>3. u # <<>>
    <3>1. Len(u) # 0
      BY <2>2
    <3> QED
      BY <3>1
  <2>4. /\ fb_delete_char(g[k - 1]).fault = g[k - 1].fault
        /\ Front(u) \in Text /\ Len(Front(u)) = Len(u) - 1 /\ Line(fb_delete_char(g[k - 1]), Front(u))
    BY <2>1, <2>2, <2>3, DeleteLine
  <2>5. Left(Front(u), k)
    <3>1. n - (k - 1) - 1 = n - k
      OBVIOUS
    <3> QED
      BY <1>2, <2>2, <2>4, <3>1
  <2> QED
    BY <1>2, <2>1, <2>4, <2>5, DeleteTidy
<1>5. n \in S
  <2> HIDE DEF S
  <2>1. \A k \in 0 .. n : k \in S
    BY <1>3, <1>4, Rounds
  <2> QED
    BY <2>1
<1>6. PICK u : Left(u, n)
  BY <1>5
<1>7. u = <<>>
  BY <1>6, EmptySeq DEF Text
<1> QED
  BY <1>1, <1>2, <1>5, <1>6, <1>7

----------------------------------------------------------------------------
\* The line that is read back.

LEMMA MaxOf ==
  ASSUME NEW n \in Nat, NEW S \in SUBSET (0 .. n), S # {}
  PROVE  Max(S) \in S /\ \A y \in S : y <= Max(S)
<1> DEFINE T == {k \in 0 .. n : n - k \in S}
<1>1. T # {} /\ T \in SUBSET Nat
  <2>1. PICK x \in S : TRUE
    OBVIOUS
  <2>2. PICK k \in 0 .. n : n - k = x
    <3>1. n - x \in 0 .. n /\ n - (n - x) = x
      BY <2>1
    <3> QED
      BY <3>1
  <2>3. k \in T
    BY <2>2, <2>1
  <2>4. T \in SUBSET Nat
    OBVIOUS
  <2> HIDE DEF T
  <2> QED
    BY <2>3, <2>4
<1>2. PICK k \in T : \A y \in T : k <= y
  <2> HIDE DEF T
  <2> QED
    BY <1>1, LeastOf
<1>3. n - k \in S /\ k \in 0 .. n
  BY <1>2
<1>4. ASSUME NEW y \in S PROVE n - k >= y
  <2>1. y \in 0 .. n /\ n - y \in 0 .. n /\ n - (n - y) = y
    BY <1>4
  <2>2. n - y \in T
    BY <2>1, <1>4
  <2>3. k <= n - y
    BY <1>2, <2>2
  <2> QED
    BY <1>3, <2>1, <2>3
<1>5. Max(S) \in S /\ \A y \in S : Max(S) >= y
  BY <1>3, <1>4 DEF Max
<1>6. S \subseteq Int
  OBVIOUS
<1> QED
  BY <1>5, <1>6

LEMMA LastMark ==
  ASSUME NEW s, Tidy(s), ~Lost(s)
  PROVE  /\ Max(Mark(s)) \in Mark(s) /\ \A y \in Mark(s) : y <= Max(Mark(s))
         /\ Max(Mark(s)) \in Nat /\ Max(Mark(s)) < s.fb_pos
<1>1. s.attrs \subseteq Cells /\ s.fb_pos \in Cells
  BY TidyLoose
<1>2. Mark(s) \in SUBSET (0 .. VGA_SIZE) /\ Mark(s) # {} /\ VGA_SIZE \in Nat
  BY <1>1, Sizes DEF Mark, Lost
<1>3. Max(Mark(s)) \in Mark(s) /\ \A y \in Mark(s) : y <= Max(Mark(s))
  BY <1>2, MaxOf
<1>4. PICK m : m = Max(Mark(s))
  OBVIOUS
<1>5. m \in s.attrs /\ m <= s.fb_pos /\ m # s.fb_pos
  BY <1>3, <1>4 DEF Mark, Lost
<1>6. m \in Nat /\ m < s.fb_pos
  BY <1>1, <1>5, Sizes
<1> QED
  BY <1>3, <1>4, <1>6

LEMMA ReadsText ==
  ASSUME NEW s, Tidy(s), ~Lost(s)
  PROVE  LET m == Max(Mark(s)) IN
         /\ fb_last_written_buf(s) \in Text /\ Len(fb_last_written_buf(s)) = s.fb_pos - m - 1
         /\ \A i \in 1 .. s.fb_pos - m - 1 : fb_last_written_buf(s)[i] = s.fb_out[m + i]
<1>1. PICK m \in Nat : m = Max(Mark(s)) /\ m < s.fb_pos
  BY LastMark
<1>2. PICK p \in Nat : p = s.fb_pos /\ p <= VGA_SIZE /\ m < p
  BY <1>1, TidyLoose, Sizes
<1>3. s.fb_out \in [Cells -> Glyphs]
  BY TidyLoose DEF Screen
<1> DEFINE out == [k \in 1 .. VGA_SIZE |-> s.fb_out[k - 1]]
<1>4. ASSUME NEW i \in m + 2 .. p PROVE out[i] = s.fb_out[i - 1] /\ s.fb_out[i - 1] \in Glyphs
  <2>1. i \in 1 .. VGA_SIZE /\ i - 1 \in Cells
    BY <1>2, Sizes
  <2> QED
    BY <2>1, <1>3
<1>5. fb_last_written_buf(s) = SubSeq(out, m + 2, p)
  BY <1>1, <1>2 DEF fb_last_written_buf
<1> HIDE DEF out
<1>6. PICK a \in Int, b \in Int : a = m + 2 /\ b = p
  OBVIOUS
<1>7. \A i \in a .. b : out[i] \in Glyphs
  BY <1>4, <1>6
<1>8. /\ SubSeq(out, a, b) \in Seq(Glyphs)
      /\ Len(SubSeq(out, a, b)) = IF a <= b THEN b - a + 1 ELSE 0
      /\ \A i \in 1 .. b - a + 1 : SubSeq(out, a, b)[i] = out[a + i - 1]
  BY <1>7, SubSeqProperties
<1>9. (IF a <= b THEN b - a + 1 ELSE 0) = p - m - 1 /\ b - a + 1 = p - m - 1
  BY <1>2, <1>6
<1>10. ASSUME NEW i \in 1 .. p - m - 1 PROVE out[a + i - 1] = s.fb_out[m + i]
  <2>1. a + i - 1 \in m + 2 .. p /\ (a + i - 1) - 1 = m + i
    BY <1>6
  <2> QED
    BY <1>4, <2>1
<1>11. /\ fb_last_written_buf(s) \in Text /\ Len(fb_last_written_buf(s)) = p - m - 1
       /\ \A i \in 1 .. p - m - 1 : fb_last_written_buf(s)[i] = s.fb_out[m + i]
  BY <1>5, <1>6, <1>8, <1>9, <1>10, Zenon DEF Text
<1> QED
  BY <1>1, <1>2, <1>11, Zenon

\* While the line is on the screen, the last mark is at the end of the prompt: what
\* is read is the line, and no mark is found only with the cursor behind the screen.
LEMMA ReadsLine ==
  ASSUME NEW s, Tidy(s), NEW w \in Text, Line(s, w)
  PROVE  /\ Lost(s) => s.fb_pos = VGA_SIZE
         /\ ~Lost(s) => fb_last_written_buf(s) = w
<1>1. s.attrs \subseteq Cells /\ s.fb_pos \in Cells /\ s.fb_pos \in Nat
  BY TidyLoose, Sizes
<1>2. PICK b \in Nat, l \in Nat, p \in Nat :
         b = Base(s, w) /\ l = Len(w) /\ p = s.fb_pos /\ b + l + 1 = p
  BY <1>1, LineCells
<1>3. b \in s.attrs /\ (\A i \in s.attrs : i <= b \/ i = VGA_SIZE) /\ b < p /\ b <= p /\ p <= VGA_SIZE
  BY <1>1, <1>2, Sizes DEF Line
<1>4. Lost(s) => s.fb_pos = VGA_SIZE
  <2>1. Mark(s) # {}
    BY <1>2, <1>3 DEF Mark
  <2>2. p \in s.attrs => p = VGA_SIZE
    BY <1>2, <1>3
  <2> QED
    BY <1>2, <2>1, <2>2 DEF Lost
<1>5. ASSUME ~Lost(s) PROVE fb_last_written_buf(s) = w
  <2>1. PICK m \in Nat : m = Max(Mark(s)) /\ m \in Mark(s) /\ m < p /\ \A y \in Mark(s) : y <= m
    BY <1>2, <1>5, LastMark
  <2>2. m = b
    <3>1. b \in Mark(s)
      BY <1>2, <1>3 DEF Mark
    <3>2. b <= m
      BY <2>1, <3>1
    <3>3. m \in s.attrs /\ m # VGA_SIZE
      <4>1. VGA_SIZE \in Nat
        BY Sizes
      <4> QED
        BY <4>1, <1>3, <2>1 DEF Mark
    <3>4. m <= b
      BY <1>3, <3>3
    <3> QED
      BY <3>2, <3>4
  <2>3. PICK x : x = fb_last_written_buf(s)
    OBVIOUS
  <2>4. /\ x \in Text /\ Len(x) = p - b - 1
        /\ \A i \in 1 .. p - b - 1 : x[i] = s.fb_out[b + i]
    <3>1. /\ x \in Text /\ Len(x) = s.fb_pos - Max(Mark(s)) - 1
          /\ \A i \in 1 .. s.fb_pos - Max(Mark(s)) - 1 : x[i] = s.fb_out[Max(Mark(s)) + i]
      BY <1>5, <2>3, ReadsText
    <3>2. Max(Mark(s)) = b /\ s.fb_pos = p
      BY <1>2, <2>1, <2>2
    <3> QED
      BY <3>1, <3>2, Zenon
  <2>5. p - b - 1 = l
    BY <1>2
  <2>6. ASSUME NEW i \in 1 .. l PROVE x[i] = w[i]
    <3>1. b + i < VGA_SIZE /\ b + i \in Cells
      <4>1. PICK z \in Nat : z = VGA_SIZE /\ p <= z /\ b + l + 1 = p
        BY <1>2, <1>3, Sizes
      <4>2. b + i < z /\ b + i \in 0 .. z
        BY <4>1
      <4> QED
        BY <4>1, <4>2, Sizes
    <3>2. w[i] = s.frame_buf[b + i]
      BY <1>2, <3>1 DEF Line
    <3>3. s.fb_out[b + i] = s.frame_buf[b + i]
      BY <3>1 DEF Tidy, Clean
    <3> QED
      BY <2>4, <2>5, <3>2, <3>3
  <2> QED
    BY <1>2, <2>3, <2>4, <2>5, <2>6, SeqEqual DEF Text
<1> QED
  BY <1>4, <1>5

----------------------------------------------------------------------------
\* The steps.

LEMMA Larger ==
  ASSUME NEW a \in Nat, NEW b \in Nat
  PROVE  Max({a, b}) \in Nat /\ Max({a, b}) >= a /\ Max({a, b}) >= b
<1>1. PICK x \in {a, b} : \A y \in {a, b} : x >= y
  <2>1. a >= b \/ b >= a
    OBVIOUS
  <2>2. a >= a /\ b >= b
    OBVIOUS
  <2> QED
    BY <2>1, <2>2
<1>2. Max({a, b}) \in {a, b} /\ \A y \in {a, b} : Max({a, b}) >= y
  BY <1>1 DEF Max
<1> QED
  BY <1>2

\* Until the next prompt, a line that has once been too long stays so.
LEMMA WriteEffects ==
  ASSUME TInv, NEW v \in Text, Write(v)
  PROVE  /\ written' = v /\ most' \in Nat /\ Len(v) <= most'
         /\ Fits' => Fits /\ Len(Prompt) + Len(v) < VGA_SIZE
<1>1. PICK l \in Nat, m \in Nat : l = Len(v) /\ m = most
  BY DEF Text, TInv
<1>2. most' = Max({m, l}) /\ written' = v
  BY <1>1 DEF Write
<1>3. most' \in Nat /\ most' >= m /\ most' >= l
  BY <1>2, Larger
<1>4. Fits' <=> Len(Prompt) + most' < VGA_SIZE
  BY DEF Fits, VGA_SIZE
<1>5. (Len(Prompt) + most' < VGA_SIZE) => Len(Prompt) + m < VGA_SIZE /\ Len(Prompt) + l < VGA_SIZE
  BY <1>3, Sizes
<1> QED
  BY <1>1, <1>2, <1>3, <1>4, <1>5 DEF Fits

\* The step that writes v keeps the invariant if it leaves the screen with v on it.
SavedFits == cur_cmd \in Text /\ Len(cur_cmd) <= CMD_SIZE /\ overrun = FALSE

LEMMA SaveKeeps ==
  ASSUME TInv, NEW v \in Text, Write(v), Tidy(fb'), SavedFits',
         Fits /\ Len(Prompt) + Len(v) < VGA_SIZE =>
            Line(fb', v) /\ (fb'.fault => fb'.fb_pos = VGA_SIZE)
  PROVE  TInv'
<1>1. /\ written' = v /\ most' \in Nat /\ Len(v) <= most'
      /\ Fits' => Fits /\ Len(Prompt) + Len(v) < VGA_SIZE
  BY WriteEffects
<1>2. Tidy(fb)' <=> Tidy(fb')
  BY DEF Tidy, Clean, Behind, Screen, Cells, Glyphs, VGA_SIZE
<1>3. Line(fb, written)' <=> Line(fb', written')
  BY DEF Line, Base, Start, RowStart, VGA_SIZE
<1>4. Text' = Text /\ VGA_SIZE' = VGA_SIZE
  BY DEF Text, Glyphs, VGA_SIZE
<1> QED
  BY <1>1, <1>2, <1>3, <1>4 DEF TInv, SavedFits

\* Of the actions that write, only UP changes cur_cmd.
Untouched == ~overrun /\ UNCHANGED <<cur_cmd, overrun>>

LEMMA WriteKeeps ==
  ASSUME TInv, NEW v \in Text, Write(v), Tidy(fb'), Untouched,
         Fits /\ Len(Prompt) + Len(v) < VGA_SIZE =>
            Line(fb', v) /\ (fb'.fault => fb'.fb_pos = VGA_SIZE)
  PROVE  TInv'
<1>1. cur_cmd \in Text /\ Len(cur_cmd) <= CMD_SIZE /\ overrun = FALSE
  BY DEF TInv, Untouched
<1>2. Text' = Text
  BY DEF Text, Glyphs
<1>3. SavedFits'
  BY <1>1, <1>2 DEF SavedFits, Untouched
<1> QED
  BY <1>3, SaveKeeps

LEMMA InitTInv ==
  ASSUME Init
  PROVE  TInv
<1>1. PICK behind \in SUBSET {VGA_SIZE} :
         fb = shell_prompt([frame_buf |-> [i \in Cells |-> Empty], fb_out |-> [i \in Cells |-> Empty],
                            attrs |-> behind, fb_pos |-> 0, fault |-> FALSE])
  BY DEF Init
<1> DEFINE s == [frame_buf |-> [i \in Cells |-> Empty], fb_out |-> [i \in Cells |-> Empty],
                 attrs |-> behind, fb_pos |-> 0, fault |-> FALSE]
<1>2. Empty \in Glyphs /\ VGA_SIZE \in Cells /\ 0 \in 0 .. VGA_SIZE
  BY Sizes DEF Glyphs
<1>3. behind \in SUBSET Cells /\ \A i \in behind : i = VGA_SIZE
  BY <1>2
<1>4. Tidy(s) /\ s.fb_pos = 0 /\ s.fault = FALSE
  BY <1>2, <1>3 DEF Tidy, Clean, Behind, Screen
<1> HIDE DEF s
<1>5. RowStart(s.fb_pos)
  BY <1>4, Rows
<1>6. Tidy(shell_prompt(s)) /\ Line(shell_prompt(s), <<>>) /\ shell_prompt(s).fault = s.fault
  BY <1>4, <1>5, PromptLine
<1>7. fb = shell_prompt(s)
  BY <1>1 DEF s
<1>8. cur_cmd = <<>> /\ overrun = FALSE /\ written = <<>> /\ most = 0 /\ <<>> \in Text /\ Len(<<>>) = 0
  BY EmptySeq DEF Init, Text
<1>9. Len(cur_cmd) <= CMD_SIZE /\ overrun \in BOOLEAN /\ ~overrun
  <2>1. CMD_SIZE \in Nat /\ Len(cur_cmd) = 0
    BY <1>8, TerminalAssumption
  <2>2. overrun \in BOOLEAN /\ ~overrun
    BY <1>8
  <2> QED
    BY <2>1, <2>2
<1>10. Tidy(fb) /\ Line(fb, written) /\ fb.fault = FALSE
  BY <1>4, <1>6, <1>7, <1>8
<1>11. most \in Nat /\ Len(written) <= most /\ written \in Text /\ cur_cmd \in Text
  BY <1>8
<1> QED
  BY <1>9, <1>10, <1>11 DEF TInv

\* A key other than a tab and DEL.
LEMMA CharKeeps ==
  ASSUME TInv, NEW c \in Chars, Key(c)
  PROVE  TInv'
<1>1. c # "\n" /\ c # "\t" /\ c # "DEL" /\ c \in Glyphs
  BY TerminalAssumption DEF Glyphs
<1>2. fb' = put(fb, c) /\ Write(Append(written, c)) /\ ~fb.fault /\ Untouched
  BY <1>1 DEF Key, fb_putc, Room, Untouched
<1>3. Tidy(fb) /\ written \in Text /\ cur_cmd \in Text
  BY DEF TInv
<1>4. Append(written, c) \in Text /\ Len(Append(written, c)) = Len(written) + 1 /\ Len(written) \in Nat
  BY <1>1, <1>3 DEF Text
<1>5. Tidy(fb') /\ fb'.fault = fb.fault
  <2>1. Clean(fb, VGA_SIZE) /\ \A i \in fb.attrs : i <= fb.fb_pos \/ i = VGA_SIZE
    BY <1>3, TidyLoose
  <2> QED
    BY <1>1, <1>2, <2>1, PutTidy
<1>6. ASSUME Fits, Len(Prompt) + Len(Append(written, c)) < VGA_SIZE PROVE Line(fb', Append(written, c))
  <2>1. Line(fb, written) /\ Len(Prompt) + Len(written) < VGA_SIZE
    BY <1>4, <1>6, Sizes DEF TInv
  <2> QED
    BY <1>1, <1>2, <1>3, <2>1, PutLine
<1> QED
  BY <1>2, <1>3, <1>4, <1>5, <1>6, WriteKeeps

LEMMA BlanksText ==
  Blanks \in Text /\ Len(Blanks) = TabStop
<1>1. Blank \in Glyphs /\ TabStop \in Nat
  BY TerminalAssumption DEF Glyphs
<1>2. Blanks \in [1 .. TabStop -> Glyphs]
  BY <1>1 DEF Blanks
<1> QED
  BY <1>1, <1>2 DEF Text, Blanks

LEMMA Concat ==
  ASSUME NEW w \in Text, NEW msg \in Text
  PROVE  w \o msg \in Text /\ Joined(w \o msg, w, msg)
<1>1. PICK v : v = w \o msg
  OBVIOUS
<1>2. PICK m \in Nat, n \in Nat : m = Len(w) /\ n = Len(msg)
  BY DEF Text
<1>3. /\ v \in Text /\ Len(v) = m + n
      /\ \A i \in 1 .. m + n : v[i] = IF i <= m THEN w[i] ELSE msg[i - m]
  BY <1>1, <1>2, ConcatProperties DEF Text
<1>4. \A k \in 1 .. m : v[k] = w[k]
  BY <1>3
<1>5. ASSUME NEW k \in 1 .. n PROVE v[m + k] = msg[k]
  <2>1. m + k \in 1 .. m + n /\ ~ (m + k <= m) /\ (m + k) - m = k
    OBVIOUS
  <2> QED
    BY <1>3, <2>1
<1> QED
  BY <1>1, <1>2, <1>3, <1>4, <1>5 DEF Joined

LEMMA TabKeeps ==
  ASSUME TInv, Key("\t")
  PROVE  TInv'
<1>1. fb' = fb_print(fb, Blanks) /\ Write(written \o Blanks) /\ ~fb.fault /\ Untouched
  BY DEF Key, fb_putc, Room, Untouched
<1>2. Tidy(fb) /\ written \in Text /\ cur_cmd \in Text
  BY DEF TInv
<1>3. PICK v : v = written \o Blanks
  OBVIOUS
<1>4. v \in Text /\ Joined(v, written, Blanks)
  BY <1>2, <1>3, BlanksText, Concat
<1>5. Tidy(fb') /\ fb'.fault = fb.fault
  BY <1>1, <1>2, BlanksText, PrintTidy
<1>6. ASSUME Fits, Len(Prompt) + Len(v) < VGA_SIZE PROVE Line(fb', v)
  <2>1. Line(fb, written)
    BY <1>6 DEF TInv
  <2> QED
    BY <1>1, <1>2, <1>4, <1>6, <2>1, BlanksText, PrintLine
<1> QED
  BY <1>1, <1>2, <1>3, <1>4, <1>5, <1>6, WriteKeeps

LEMMA DelKeeps ==
  ASSUME TInv, Key("DEL")
  PROVE  TInv'
<1> DEFINE v == IF written = <<>> THEN written ELSE Front(written)
<1>1. fb' = fb_delete_char(fb) /\ Write(v) /\ ~fb.fault /\ Untouched
  BY DEF Key, fb_putc, Room, Untouched
<1>2. Tidy(fb) /\ written \in Text /\ cur_cmd \in Text
  BY DEF TInv
<1>3. v \in Text
  <2>1. ASSUME written # <<>> PROVE Front(written) \in Text
    <3>1. Len(written) \in Nat \ {0}
      BY <1>2, <2>1, EmptySeq DEF Text
    <3>2. Len(written) - 1 \in 0 .. Len(written)
      BY <3>1
    <3> QED
      BY <1>2, <3>2, Prefix DEF Front
  <2> QED
    BY <1>2, <2>1
<1>4. Tidy(fb')
  BY <1>1, <1>2, DeleteTidy
<1>5. ASSUME Fits PROVE Line(fb', v) /\ fb'.fault = fb.fault
  <2>1. Line(fb, written)
    BY <1>5 DEF TInv
  <2>2. /\ fb'.fault = fb.fault
        /\ written = <<>> => fb' = fb
        /\ written # <<>> => Line(fb', Front(written))
    BY <1>1, <1>2, <2>1, DeleteLine
  <2> QED
    BY <2>1, <2>2
<1> HIDE DEF v
<1> QED
  BY <1>1, <1>2, <1>3, <1>4, <1>5, WriteKeeps

LEMMA EnterKeeps ==
  ASSUME TInv, Enter
  PROVE  TInv'
<1>1. /\ fb' = shell_prompt(fb_newline(fb)) /\ written' = <<>> /\ most' = 0
      /\ cur_cmd' = cur_cmd /\ overrun' = overrun /\ ~fb.fault /\ ~overrun
  BY DEF Enter, fb_putc, Room
<1>2. Tidy(fb) /\ cur_cmd \in Text /\ <<>> \in Text /\ Len(<<>>) = 0
  BY EmptySeq DEF TInv, Text
<1>3. Tidy(fb_newline(fb)) /\ RowStart(fb_newline(fb).fb_pos) /\ fb_newline(fb).fault = fb.fault
  BY <1>2, NewlineTidy
<1>4. Tidy(fb') /\ Line(fb', <<>>) /\ fb'.fault = fb.fault
  BY <1>1, <1>3, PromptLine
<1>5. Tidy(fb)' <=> Tidy(fb')
  BY DEF Tidy, Clean, Behind, Screen, Cells, Glyphs, VGA_SIZE
<1>6. Line(fb, written)' <=> Line(fb', written')
  BY DEF Line, Base, Start, RowStart, VGA_SIZE
<1>7. Text' = Text
  BY DEF Text, Glyphs
<1>8. most' \in Nat /\ Len(written') <= most'
  BY <1>1, <1>2
<1>9. ~fb'.fault
  BY <1>1, <1>4
<1>10. Len(cur_cmd') <= CMD_SIZE /\ overrun' \in BOOLEAN /\ ~overrun'
  BY <1>1 DEF TInv
<1> QED
  BY <1>1, <1>2, <1>4, <1>5, <1>6, <1>7, <1>8, <1>9, <1>10 DEF TInv

\* UP and DOWN on a screen whose line is not found.
LEMMA LostKeeps ==
  ASSUME TInv, NoLine
  PROVE  TInv'
<1>1. Tidy(fb) /\ written \in Text /\ Lost(fb) /\ fb' = [fb EXCEPT !.fault = TRUE]
  BY DEF TInv, NoLine
<1>2. Screen(fb, VGA_SIZE)
  BY <1>1, TidyLoose
<1>3. /\ Screen(fb', VGA_SIZE) /\ fb'.frame_buf = fb.frame_buf /\ fb'.fb_out = fb.fb_out
      /\ fb'.attrs = fb.attrs /\ fb'.fb_pos = fb.fb_pos
  BY <1>1, <1>2 DEF Screen
<1>4. Tidy(fb')
  BY <1>1, <1>3 DEF Tidy, Clean, Behind
<1>5. Fits => fb.fb_pos = VGA_SIZE /\ Line(fb', written)
  <2>1. Fits => Line(fb, written)
    BY DEF TInv
  <2>2. Line(fb, written) => Line(fb', written)
    BY <1>3 DEF Line, Base, Start
  <2> QED
    BY <1>1, <2>1, <2>2, ReadsLine
<1>6. Tidy(fb)' <=> Tidy(fb')
  BY DEF Tidy, Clean, Behind, Screen, Cells, Glyphs, VGA_SIZE
<1>7. Line(fb, written)' <=> Line(fb', written')
  BY DEF Line, Base, Start, RowStart, VGA_SIZE
<1>8. Text' = Text /\ VGA_SIZE' = VGA_SIZE /\ (Fits' <=> Fits)
  BY DEF Text, Glyphs, VGA_SIZE, Fits, NoLine
<1>9. /\ cur_cmd' = cur_cmd /\ overrun' = overrun /\ written' = written /\ most' = most
      /\ Unended' <=> Unended
  BY DEF NoLine, Unended, Ends
<1> QED
  BY <1>3, <1>4, <1>5, <1>6, <1>7, <1>8, <1>9 DEF TInv

\* UP and DOWN that leave cur_cmd.
LEMMA LeaveKeeps ==
  ASSUME TInv, LeaveArray, Fits => Len(written) > CMD_SIZE \/ Unended
  PROVE  TInv'
<1>1. /\ overrun' = TRUE /\ fb' = fb /\ cur_cmd' = cur_cmd /\ written' = written /\ most' = most
  BY DEF LeaveArray
<1>2. /\ Tidy(fb)' <=> Tidy(fb)
      /\ Line(fb, written)' <=> Line(fb, written)
      /\ Unended' <=> Unended
  BY <1>1 DEF Tidy, Clean, Behind, Screen, Cells, Glyphs, VGA_SIZE, Line, Base, Start, RowStart,
              Unended, Ends
<1>3. Text' = Text /\ VGA_SIZE' = VGA_SIZE /\ (Fits' <=> Fits)
  BY <1>1 DEF Text, Glyphs, VGA_SIZE, Fits
<1> QED
  BY <1>1, <1>2, <1>3 DEF TInv

\* Removing what is read back removes the line.
LEMMA RemoveLine ==
  ASSUME TInv, ~Lost(fb)
  PROVE  LET cmd == fb_last_written_buf(fb)
             t == fb_delete_last(fb, Len(cmd))
         IN  /\ cmd \in Text /\ Tidy(t)
             /\ Fits => Line(t, <<>>) /\ t.fault = fb.fault
<1> DEFINE cmd == fb_last_written_buf(fb)
<1>1. Tidy(fb) /\ written \in Text
  BY DEF TInv
<1>2. cmd \in Text
  BY <1>1, ReadsText
<1>3. Fits => cmd = written /\ Line(fb, written)
  BY <1>1, ReadsLine DEF TInv
<1> HIDE DEF cmd
<1>4. Tidy(fb_delete_last(fb, Len(cmd)))
  <2>1. Len(cmd) \in Nat
    BY <1>2 DEF Text
  <2> QED
    BY <1>1, <2>1, DeleteLastTidy
<1>5. ASSUME Fits PROVE Line(fb_delete_last(fb, Len(cmd)), <<>>) /\ fb_delete_last(fb, Len(cmd)).fault = fb.fault
  <2>1. Line(fb, cmd)
    BY <1>3, <1>5
  <2> QED
    BY <1>1, <1>2, <2>1, DeleteLastLine
<1> QED
  BY <1>2, <1>4, <1>5 DEF cmd

\* A line written over the beginning of a text that fits fits.
LEMMA Overwritten ==
  ASSUME NEW cmd \in Text, NEW old \in Text, Len(cmd) <= CMD_SIZE, Len(old) <= CMD_SIZE
  PROVE  LET new == cmd \o SubSeq(old, Len(cmd) + 1, Len(old))
         IN  new \in Text /\ Len(new) <= CMD_SIZE
<1>1. PICK l \in Nat, n \in Nat, c \in Nat :
         l = Len(cmd) /\ n = Len(old) /\ c = CMD_SIZE /\ l <= c /\ n <= c
  BY TerminalAssumption DEF Text
<1>2. PICK m \in Int : m = l + 1 /\ m >= 1
  OBVIOUS
<1>3. PICK rest : rest = SubSeq(old, m, n)
  OBVIOUS
<1>4. \A i \in m .. n : old[i] \in Glyphs
  <2>1. \A i \in m .. n : i \in 1 .. n
    BY <1>2
  <2> QED
    BY <1>1, <2>1 DEF Text
<1>5. rest \in Text /\ Len(rest) = (IF m <= n THEN n - m + 1 ELSE 0)
  BY <1>3, <1>4, SubSeqProperties DEF Text
<1>6. PICK r \in Nat : r = Len(rest) /\ l + r <= c
  <2>1. CASE m <= n
    <3>1. Len(rest) = n - m + 1 /\ n - m + 1 \in Nat /\ l + (n - m + 1) <= c
      BY <1>1, <1>2, <1>5, <2>1
    <3> QED
      BY <3>1
  <2>2. CASE ~ (m <= n)
    <3>1. Len(rest) = 0 /\ l + 0 <= c
      BY <1>1, <1>5, <2>2
    <3> QED
      BY <3>1
  <2> QED
    BY <2>1, <2>2
<1>7. cmd \o rest \in Text /\ Len(cmd \o rest) = l + r
  BY <1>1, <1>5, <1>6, Concat DEF Joined
<1> QED
  BY <1>1, <1>2, <1>3, <1>6, <1>7

LEMMA UpKeeps ==
  ASSUME TInv, Up
  PROVE  TInv'
<1>1. CASE NoLine
  BY <1>1, LostKeeps
<1>2. CASE ~Lost(fb) /\ SaveLine(fb_last_written_buf(fb))
  <2>1. PICK cmd : cmd = fb_last_written_buf(fb)
    OBVIOUS
  <2>2. cmd \in Text
    BY <1>2, <2>1, RemoveLine
  <2>3. CASE Len(cmd) > CMD_SIZE
    <3>1. LeaveArray
      BY <1>2, <2>1, <2>3 DEF SaveLine
    <3>2. Fits => cmd = written
      BY <1>2, <2>1, ReadsLine DEF TInv
    <3> QED
      BY <2>3, <3>1, <3>2, LeaveKeeps
  <2>4. CASE ~ (Len(cmd) > CMD_SIZE)
    <3>1. /\ cur_cmd' = cmd \o SubSeq(cur_cmd, Len(cmd) + 1, Len(cur_cmd))
          /\ fb' = fb_delete_last(fb, Len(cmd)) /\ Write(<<>>) /\ ~fb.fault
          /\ overrun' = overrun /\ ~overrun /\ overrun \in BOOLEAN
      BY <1>2, <2>1, <2>4 DEF Up, SaveLine, Room, TInv
    <3>2. Tidy(fb') /\ (Fits => Line(fb', <<>>) /\ fb'.fault = fb.fault)
      BY <1>2, <2>1, <3>1, RemoveLine
    <3>3. Len(cmd) <= CMD_SIZE
      BY <2>2, <2>4, TerminalAssumption DEF Text
    <3>4. cur_cmd \in Text /\ Len(cur_cmd) <= CMD_SIZE
      BY DEF TInv
    <3>5. cur_cmd' \in Text /\ Len(cur_cmd') <= CMD_SIZE
      BY <2>2, <3>1, <3>3, <3>4, Overwritten
    <3>6. Text' = Text
      BY DEF Text, Glyphs
    <3>7. SavedFits'
      BY <3>1, <3>5, <3>6 DEF SavedFits
    <3>8. <<>> \in Text
      BY EmptySeq DEF Text
    <3> QED
      BY <3>1, <3>2, <3>7, <3>8, SaveKeeps
  <2> QED
    BY <2>3, <2>4
<1> QED
  BY <1>1, <1>2 DEF Up

LEMMA SavedText ==
  ASSUME TInv
  PROVE  Saved \in Text
<1>1. cur_cmd \in Text /\ Len(cur_cmd) \in Nat /\ DOMAIN cur_cmd = 1 .. Len(cur_cmd)
  BY DEF TInv, Text
<1>2. CASE Ends = {}
  BY <1>1, <1>2 DEF Saved
<1>3. CASE Ends # {}
  <2>1. Ends \in SUBSET Nat /\ Ends \in SUBSET (1 .. Len(cur_cmd))
    BY <1>1 DEF Ends
  <2>2. Saved = SubSeq(cur_cmd, 1, Min(Ends) - 1)
    BY <1>3 DEF Saved
  <2>3. \E x \in Ends : \A y \in Ends : x <= y
    BY <1>3, <2>1, LeastOf
  <2>4. Min(Ends) \in Ends
    BY <2>3 DEF Min
  <2>5. Min(Ends) - 1 \in 0 .. Len(cur_cmd)
    <3>1. PICK n \in Nat : n = Len(cur_cmd)
      BY <1>1
    <3>2. PICK x \in 1 .. n : x = Min(Ends)
      BY <2>1, <2>4, <3>1
    <3>3. x - 1 \in 0 .. n
      OBVIOUS
    <3> QED
      BY <3>1, <3>2, <3>3
  <2> QED
    BY <1>1, <2>2, <2>5, Prefix
<1> QED
  BY <1>2, <1>3

LEMMA DownKeeps ==
  ASSUME TInv, Down
  PROVE  TInv'
<1>1. CASE NoLine
  BY <1>1, LostKeeps
<1>2. CASE ~Lost(fb) /\ Unended /\ LeaveArray
  BY <1>2, LeaveKeeps
<1>3. CASE ~Lost(fb) /\ ~Unended /\ PrintSaved(Len(fb_last_written_buf(fb)))
  <2>1. PICK t : t = fb_delete_last(fb, Len(fb_last_written_buf(fb)))
    OBVIOUS
  <2>2. fb' = fb_print(t, Saved) /\ Write(Saved) /\ ~fb.fault /\ Untouched
    BY <1>3, <2>1 DEF Down, Room, PrintSaved, Untouched
  <2>3. Tidy(t) /\ (Fits => Line(t, <<>>) /\ t.fault = fb.fault)
    BY <1>3, <2>1, RemoveLine
  <2>4. PICK v : v = Saved
    OBVIOUS
  <2>5. v \in Text
    BY <2>4, SavedText
  <2>6. Tidy(fb') /\ fb'.fault = t.fault
    BY <2>2, <2>3, <2>4, <2>5, PrintTidy
  <2>7. Joined(v, <<>>, v) /\ <<>> \in Text
    <3>1. PICK n \in Nat : n = Len(v)
      BY <2>5 DEF Text
    <3>2. 0 + n = n /\ \A k \in 1 .. n : 0 + k = k
      OBVIOUS
    <3>3. <<>> \in Text /\ Len(<<>>) = 0
      BY EmptySeq DEF Text
    <3> QED
      BY <3>1, <3>2, <3>3 DEF Joined
  <2>8. ASSUME Fits, Len(Prompt) + Len(v) < VGA_SIZE PROVE Line(fb', v)
    BY <2>2, <2>3, <2>4, <2>5, <2>7, <2>8, PrintLine
  <2> QED
    BY <2>2, <2>3, <2>4, <2>5, <2>6, <2>8, WriteKeeps
<1> QED
  BY <1>1, <1>2, <1>3 DEF Down, PrintSaved

LEMMA OutputKeeps ==
  ASSUME TInv, Output
  PROVE  TInv'
<1>1. PICK n : n = RestOfRow
  OBVIOUS
<1> DEFINE e == [k \in 1 .. n |-> Empty]
<1>2. fb' = fb_newline(fb) /\ Write(written \o e) /\ ~fb.fault /\ Untouched
  BY <1>1 DEF Output, fb_putc, Room, Untouched
<1>3. Tidy(fb) /\ written \in Text /\ cur_cmd \in Text
  BY DEF TInv
<1>4. PICK m \in Nat : m = Len(written)
  BY <1>3 DEF Text
<1>5. n \in Nat /\ n = COLS - ((Len(Prompt) + Len(written)) % COLS)
  <2>1. PICK c \in Nat \ {0}, p \in Nat : c = COLS /\ p = Len(Prompt)
    BY Sizes
  <2>2. p + m \in Nat
    OBVIOUS
  <2>3. (p + m) % c \in 0 .. c - 1
    BY <2>2
  <2>4. c - ((p + m) % c) \in Nat
    BY <2>3
  <2> QED
    BY <1>1, <1>4, <2>1, <2>4 DEF RestOfRow
<1>6. e \in Text /\ Len(e) = n /\ \A k \in 1 .. n : e[k] = Empty
  <2>1. Empty \in Glyphs
    BY DEF Glyphs
  <2>2. e \in [1 .. n -> Glyphs]
    BY <2>1
  <2> QED
    BY <1>5, <2>2 DEF Text
<1> HIDE DEF e
<1>7. PICK v : v = written \o e
  OBVIOUS
<1>8. v \in Text /\ Joined(v, written, e)
  BY <1>3, <1>6, <1>7, Concat
<1>9. Len(v) = m + n /\ \A k \in 1 .. m + n : v[k] = IF k <= m THEN written[k] ELSE Empty
  <2>1. /\ Len(v) = m + n
        /\ \A k \in 1 .. m : v[k] = written[k]
        /\ \A k \in 1 .. n : v[m + k] = Empty
    BY <1>4, <1>6, <1>8 DEF Joined
  <2>2. ASSUME NEW k \in 1 .. m + n, ~ (k <= m) PROVE v[k] = Empty
    <3>1. k - m \in 1 .. n /\ m + (k - m) = k
      BY <1>5, <2>2
    <3> QED
      BY <2>1, <3>1
  <2> QED
    BY <1>5, <2>1, <2>2
<1>10. Tidy(fb') /\ fb'.fault = fb.fault
  BY <1>2, <1>3, NewlineTidy
<1>11. ASSUME Fits, Len(Prompt) + Len(v) < VGA_SIZE PROVE Line(fb', v)
  <2>1. Line(fb, written)
    BY <1>11 DEF TInv
  <2>2. /\ Len(v) = Len(written) + n
        /\ \A k \in 1 .. Len(written) + n : v[k] = IF k <= Len(written) THEN written[k] ELSE Empty
    BY <1>4, <1>9
  <2> QED
    BY <1>2, <1>3, <1>5, <1>8, <1>11, <2>1, <2>2, NewlineLine
<1> QED
  BY <1>2, <1>3, <1>7, <1>8, <1>10, <1>11, WriteKeeps

----------------------------------------------------------------------------
\* The results.

\* The invariant holds in every reachable state: after every key, newline, prompt
\* and saved line, the copy in fb_out agrees with the screen, marks are before the
\* cursor, and as long as prompt and line fit on the screen both are there, in one
\* piece and with the last mark between them.
THEOREM TerminalInvariance == Spec => []TInv
<1>1. Init => TInv
  BY InitTInv
<1>2. TInv /\ [Next]_vars => TInv'
  <2> SUFFICES ASSUME TInv, [Next]_vars PROVE TInv'
    OBVIOUS
  <2>1. ASSUME NEW c \in Chars \cup {"\t", "DEL"}, Key(c) PROVE TInv'
    BY <2>1, CharKeeps, TabKeeps, DelKeeps
  <2>2. CASE Enter
    BY <2>2, EnterKeeps
  <2>3. CASE Up
    BY <2>3, UpKeeps
  <2>4. CASE Down
    BY <2>4, DownKeeps
  <2>5. CASE Output
    BY <2>5, OutputKeeps
  <2>6. CASE UNCHANGED vars
    BY <2>6 DEF vars, TInv, Tidy, Clean, Behind, Screen, Fits, Line, Base, Start, RowStart,
                Text, Glyphs, Cells, VGA_SIZE, Unended, Ends
  <2> QED
    BY <2>1, <2>2, <2>3, <2>4, <2>5, <2>6 DEF Next
<1> QED
  BY <1>1, <1>2, PTL DEF Spec

\* On a screen of any size, what fb_last_written_buf takes from the screen is what
\* was written since the prompt, through every scroll, tab, deletion and saved line.
THEOREM LineTakenIsTyped == Spec => []LineExact
<1>1. TInv => LineExact
  <2> SUFFICES ASSUME TInv, Fits, ~Lost(fb) PROVE fb_last_written_buf(fb) = written
    BY DEF LineExact
  <2>1. Tidy(fb) /\ written \in Text /\ Line(fb, written)
    BY DEF TInv
  <2> QED
    BY <2>1, ReadsLine
<1> QED
  BY <1>1, TerminalInvariance, PTL

\* fb_delete_char never reads the mark before cell 0, and fb_last_written_buf finds a
\* mark, unless line and prompt have filled the screen or the cursor is behind it; and
\* the memcpy of UP stays in cur_cmd unless the line typed is longer, the printing of
\* DOWN unless a line has filled it.
THEOREM EditorStaysInside == Spec => []FaultsOnlyAtEdges
<1>1. TInv => FaultsOnlyAtEdges
  <2>1. ASSUME TInv, fb.fault \/ Lost(fb), Fits PROVE fb.fb_pos = VGA_SIZE
    <3>1. Tidy(fb) /\ written \in Text /\ Line(fb, written) /\ (fb.fault => fb.fb_pos = VGA_SIZE)
      BY <2>1 DEF TInv
    <3> QED
      BY <2>1, <3>1, ReadsLine
  <2>2. ASSUME TInv, overrun, Fits PROVE Len(written) > CMD_SIZE \/ Unended
    BY <2>2 DEF TInv
  <2> QED
    BY <2>1, <2>2 DEF FaultsOnlyAtEdges
<1> QED
  BY <1>1, TerminalInvariance, PTL

=============================================================================
