--------------------------- MODULE TerminalProofs ----------------------------
(***************************************************************************)
(* Machine-checked proofs about Terminal, for every size of the screen and *)
(* of the two line buffers, every number of tasks and every text and key   *)
(* that satisfy its assumptions: the cursor and all stores stay inside the *)
(* screen and the buffers; however the tasks are interrupted between the   *)
(* stores of vga_print_at, their letters stay in their rows; a line that   *)
(* is read is what the user sees before the cursor; a finished line is     *)
(* what was typed; and the sum that is shown is that of the two numbers.   *)
(***************************************************************************)
EXTENDS Terminal, LeastNumber, SequenceTheorems, FiniteSetTheorems

-----------------------------------------------------------------------------
(* The screen (vga.c).                                                     *)

\* The screens that hold characters of S, and where a cursor may stand on
\* them; in vga_putchar it may stand behind a row or below the last one.
Screen(S) ==
    [cells : [Cells -> S], x : 0..(VGA_COLS - 1), y : 0..LastRow]

Unscrolled(S) ==
    {d \in [cells : [Cells -> S], x : Nat, y : 0..VGA_ROWS] :
        d.y = VGA_ROWS => d.x = 0}

\* The cell of a row and a column is on the screen.
LEMMA RowColumn ==
    ASSUME NEW y \in 0..LastRow, NEW x \in 0..(VGA_COLS - 1)
    PROVE  /\ y * VGA_COLS + x \in Cells
           /\ (y * VGA_COLS + x) \div VGA_COLS = y
           /\ (y * VGA_COLS + x) % VGA_COLS = x
<1>1. VGA_COLS \in Nat \ {0} /\ VGA_ROWS \in Nat \ {0} /\ x \in Nat /\ y \in Nat
  BY VgaAssumption DEF LastRow
<1>2. PICK z \in Nat : y + z = LastRow
  <2>1. LastRow - y \in Nat /\ y + (LastRow - y) = LastRow
    BY <1>1 DEF LastRow
  <2> QED BY <2>1
<1>3. VGA_ROWS = y + z + 1
  BY <1>1, <1>2 DEF LastRow
<1>4. VGA_COLS * VGA_ROWS = y * VGA_COLS + VGA_COLS * z + VGA_COLS
  BY <1>1, <1>3
<1>5. VGA_COLS * z \in Nat /\ y * VGA_COLS \in Nat
  BY <1>1
<1>6. y * VGA_COLS + x \in Cells
  <2> HIDE DEF LastRow
  <2> QED BY <1>1, <1>4, <1>5 DEF Cells
<1>7. y * VGA_COLS = VGA_COLS * y
  BY <1>1
<1> QED BY <1>1, <1>6, <1>7, QuotientUnique

LEMMA EarlierCell ==
    ASSUME NEW k \in Cells, NEW m \in Nat, m <= k
    PROVE  m \in Cells
<1>1. PICK n \in Int : n = VGA_COLS * VGA_ROWS
  BY VgaAssumption
<1> QED BY <1>1 DEF Cells

\* A cell that is not in the last row has one below it.
LEMMA CellBelow ==
    ASSUME NEW k \in Cells, k \div VGA_COLS # LastRow
    PROVE  k + VGA_COLS \in Cells
<1>1. VGA_COLS \in Nat \ {0} /\ VGA_ROWS \in Nat \ {0} /\ k \in Nat
  BY VgaAssumption DEF Cells
<1>2. PICK q \in Nat, r \in Nat :
        q = k \div VGA_COLS /\ r < VGA_COLS /\ k = VGA_COLS * q + r
  BY <1>1, Division
<1>3. CASE q < LastRow
  <2>1. q + 1 \in 0..LastRow /\ r \in 0..(VGA_COLS - 1)
    BY <1>1, <1>2, <1>3 DEF LastRow
  <2>2. (q + 1) * VGA_COLS + r = k + VGA_COLS
    BY <1>1, <1>2
  <2> QED BY <2>1, <2>2, RowColumn
<1>4. CASE q > LastRow
  <2>1. PICK z \in Nat : q = VGA_ROWS + z
    <3>1. q - VGA_ROWS \in Nat /\ q = VGA_ROWS + (q - VGA_ROWS)
      BY <1>1, <1>4 DEF LastRow
    <3> QED BY <3>1
  <2>2. VGA_COLS * q = VGA_COLS * VGA_ROWS + VGA_COLS * z
    BY <1>1, <2>1
  <2>3. VGA_COLS * z \in Nat /\ VGA_COLS * VGA_ROWS \in Nat
    BY <1>1
  <2> QED BY <1>1, <1>2, <2>2, <2>3 DEF Cells
<1> QED BY <1>1, <1>2, <1>3, <1>4 DEF LastRow

\* Whatever a character does to the cursor, it is on the screen afterwards.
LEMMA WrapAndScroll ==
    ASSUME NEW S, Space \in S, NEW d \in Unscrolled(S)
    PROVE  Scrolled(Wrapped(d)) \in Screen(S)
<1>1. VGA_COLS \in Nat \ {0} /\ VGA_ROWS \in Nat \ {0}
  BY VgaAssumption
<1>2. PICK w : w = Wrapped(d)
  OBVIOUS
<1>3. /\ w \in [cells : [Cells -> S], x : 0..(VGA_COLS - 1), y : 0..VGA_ROWS]
      /\ w.y # VGA_ROWS => w.y \in 0..LastRow
  <2>1. d \in [cells : [Cells -> S], x : Nat, y : 0..VGA_ROWS] /\ (d.y = VGA_ROWS => d.x = 0)
    BY DEF Unscrolled
  <2>2. CASE d.x >= VGA_COLS
    <3>1. w = [d EXCEPT !.x = 0, !.y = @ + 1]
      BY <1>2, <2>2 DEF Wrapped
    <3>2. d.y + 1 \in 0..VGA_ROWS /\ 0 \in 0..(VGA_COLS - 1)
      BY <1>1, <2>1, <2>2
    <3>3. w \in [cells : [Cells -> S], x : 0..(VGA_COLS - 1), y : 0..VGA_ROWS]
      BY <2>1, <3>1, <3>2
    <3> QED BY <1>1, <3>3 DEF LastRow
  <2>3. CASE ~(d.x >= VGA_COLS)
    BY <1>1, <1>2, <2>1, <2>3 DEF Wrapped, LastRow
  <2> QED BY <2>2, <2>3
<1>4. CASE w.y >= VGA_ROWS
  <2>1. LastRow \in 0..LastRow
    BY <1>1 DEF LastRow
  <2>2. PICK c : c = [k \in Cells |->
                        IF k \div VGA_COLS = LastRow THEN Space ELSE w.cells[k + VGA_COLS]]
    OBVIOUS
  <2>3. c \in [Cells -> S]
    BY <1>3, <2>2, CellBelow
  <2>4. Scrolled(w) = [w EXCEPT !.cells = c, !.y = LastRow]
    BY <1>4, <2>2 DEF Scrolled, vga_scroll
  <2> QED BY <1>2, <1>3, <2>1, <2>3, <2>4 DEF Screen
<1>5. CASE ~(w.y >= VGA_ROWS)
  BY <1>1, <1>2, <1>3, <1>5 DEF Scrolled, Screen
<1> QED BY <1>4, <1>5

\* A character, and a text, of S on a screen of S.
LEMMA PutType ==
    ASSUME NEW S, Space \in S, NEW d \in Screen(S), NEW c \in S
    PROVE  vga_putchar(d, c) \in Screen(S)
<1>1. VGA_COLS \in Nat \ {0} /\ VGA_ROWS \in Nat \ {0}
  BY VgaAssumption
<1>2. Position(d) \in Cells
  BY RowColumn DEF Position, Screen
<1>3. /\ d \in [cells : [Cells -> S], x : Nat, y : 0..VGA_ROWS]
      /\ d.y + 1 \in 0..VGA_ROWS /\ d.y # VGA_ROWS
      /\ d.x + 1 \in Nat /\ ((d.x + 4) \div 4) * 4 \in Nat
  BY <1>1 DEF Screen, LastRow
<1>4. [d EXCEPT !.x = 0, !.y = @ + 1] \in Unscrolled(S)
  BY <1>3 DEF Unscrolled
<1>5. [d EXCEPT !.x = 0] \in Unscrolled(S)
  BY <1>3 DEF Unscrolled
<1>6. [d EXCEPT !.x = ((@ + 4) \div 4) * 4] \in Unscrolled(S)
  BY <1>3 DEF Unscrolled
<1>7. [d EXCEPT !.cells[Position(d)] = c, !.x = @ + 1] \in Unscrolled(S)
  <2>1. [d.cells EXCEPT ![Position(d)] = c] \in [Cells -> S]
    BY <1>2, <1>3
  <2> QED BY <1>3, <2>1 DEF Unscrolled
<1> QED BY <1>4, <1>5, <1>6, <1>7, WrapAndScroll DEF vga_putchar

\* The screen after the first n characters of a text.
Printed(d, str, f) ==
    f = [n \in 0..Len(str) |->
            IF n = 0 THEN d ELSE vga_putchar(f[n - 1], str[n])]

\* There is such a function: an induction over the length of the text.
LEMMA PrintedExists ==
    ASSUME NEW d, NEW S, NEW str \in Seq(S)
    PROVE  \E f : Printed(d, str, f)
<1>1. PICK N \in Nat : N = Len(str)
  OBVIOUS
<1> DEFINE Upto(m, f) == f = [n \in 0..m |->
                                IF n = 0 THEN d ELSE vga_putchar(f[n - 1], str[n])]
<1> DEFINE W == {m \in 0..N : \E f : Upto(m, f)}
<1>2. 0 \in W
  <2> DEFINE f == [n \in 0..0 |-> d]
  <2>1. f = [n \in 0..0 |-> IF n = 0 THEN d ELSE vga_putchar(f[n - 1], str[n])]
    OBVIOUS
  <2>2. 0 \in 0..N /\ Upto(0, f)
    BY <1>1, <2>1
  <2> QED BY <2>2
<1>3. ASSUME NEW m \in 0..(N - 1), m \in W PROVE m + 1 \in W
  <2>1. PICK f : Upto(m, f)
    BY <1>3
  <2>2. m + 1 \in 0..N
    BY <1>1
  <2> DEFINE g == [n \in 0..(m + 1) |->
                      IF n <= m THEN f[n] ELSE vga_putchar(f[m], str[m + 1])]
  <2>3. \A n \in 0..m : g[n] = f[n]
    BY <1>1
  <2>4. \A n \in 0..(m + 1) :
          g[n] = IF n = 0 THEN d ELSE vga_putchar(g[n - 1], str[n])
    BY <1>1, <2>1, <2>3
  <2>5. Upto(m + 1, g)
    BY <1>1, <2>4
  <2> QED BY <2>2, <2>5
<1>4. N \in W
  <2> HIDE DEF W
  <2>1. \A n \in 0..N : n \in W
    BY <1>1, <1>2, <1>3, IntervalInduction
  <2> QED BY <1>1, <2>1
<1> QED BY <1>1, <1>4 DEF Printed

\* Printing a text is putting its characters one after the other.
LEMMA PrintIsPrinted ==
    ASSUME NEW d, NEW S, NEW str \in Seq(S)
    PROVE  \E f : Printed(d, str, f) /\ vga_print(d, str) = f[Len(str)]
<1>1. PICK f : Printed(d, str, f)
  BY PrintedExists
<1>2. Printed(d, str, CHOOSE g : Printed(d, str, g))
  <2> HIDE DEF Printed
  <2> QED BY <1>1, Zenon
<1>3. vga_print(d, str) = (CHOOSE g : Printed(d, str, g))[Len(str)]
  BY DEF vga_print, Printed
<1> QED BY <1>2, <1>3

LEMMA PrintedType ==
    ASSUME NEW S, Space \in S, NEW d \in Screen(S), NEW str \in Seq(S),
           NEW f, Printed(d, str, f), NEW n \in 0..Len(str)
    PROVE  f[n] \in Screen(S)
<1>1. PICK N \in Nat : N = Len(str)
  OBVIOUS
<1> DEFINE W == {m \in 0..N : f[m] \in Screen(S)}
<1>2. 0 \in W
  BY <1>1 DEF Printed
<1>3. ASSUME NEW m \in 0..(N - 1), m \in W PROVE m + 1 \in W
  <2>1. f[m + 1] = vga_putchar(f[m], str[m + 1]) /\ str[m + 1] \in S
    BY <1>1 DEF Printed
  <2> QED BY <1>1, <1>3, <2>1, PutType
<1>4. n \in W
  <2> HIDE DEF W
  <2> QED BY <1>1, <1>2, <1>3, IntervalInduction
<1> QED BY <1>4

LEMMA PrintType ==
    ASSUME NEW S, Space \in S, NEW d \in Screen(S), NEW str \in Seq(S)
    PROVE  vga_print(d, str) \in Screen(S)
<1>1. PICK f : Printed(d, str, f) /\ vga_print(d, str) = f[Len(str)]
  BY PrintIsPrinted
<1>2. Len(str) \in 0..Len(str)
  OBVIOUS
<1> QED BY <1>1, <1>2, PrintedType

\* A cursor, and the characters with it, moved.
LEMMA MoveParts ==
    ASSUME NEW C, NEW u \in [cells : C, x : Nat, y : Nat],
           NEW cells \in C, NEW m \in Nat, NEW n \in Nat,
           NEW e, \/ e = [u EXCEPT !.x = m, !.y = n] /\ cells = u.cells
                  \/ e = [u EXCEPT !.cells = cells, !.x = m] /\ n = u.y
    PROVE  e \in [cells : C, x : Nat, y : Nat] /\ e.cells = cells /\ e.x = m /\ e.y = n
<1>1. CASE e = [u EXCEPT !.x = m, !.y = n] /\ cells = u.cells
  BY <1>1
<1>2. CASE e = [u EXCEPT !.cells = cells, !.x = m] /\ n = u.y
  BY <1>2
<1> QED BY <1>1, <1>2

\* The end of a row is the start of the next one.
LEMMA WrapParts ==
    ASSUME NEW C, NEW u \in [cells : C, x : Nat, y : Nat], u.x >= VGA_COLS
    PROVE  /\ Wrapped(u) \in [cells : C, x : Nat, y : Nat]
           /\ Wrapped(u).cells = u.cells /\ Wrapped(u).x = 0 /\ Wrapped(u).y = u.y + 1
<1>1. Wrapped(u) = [u EXCEPT !.x = 0, !.y = u.y + 1]
  BY DEF Wrapped
<1>2. u.cells \in C /\ 0 \in Nat /\ u.y + 1 \in Nat
  OBVIOUS
<1> QED BY <1>1, <1>2, MoveParts

\* The character j places before the last one before the cursor.
Back(d, j) == d.cells[Position(d) - 1 - j]

Seen(c) == c \notin {"\n", "\r", "\t"}

\* A character that is seen stands before the cursor, and what was before it
\* moves with it, over the end of a row and of the screen.
LEMMA PutSeen ==
    ASSUME NEW S, Space \in S, NEW d \in Screen(S), NEW c \in S, Seen(c),
           NEW e, e = vga_putchar(d, c)
    PROVE  /\ Position(d) \in Nat /\ Position(e) \in Nat
           /\ Position(e) = Position(d) + 1 \/ Position(e) = LastRow * VGA_COLS
           /\ Position(e) > 0 => Back(e, 0) = c
           /\ \A j \in Nat : j + 1 < Position(e) => Back(e, j + 1) = Back(d, j)
<1>1. /\ VGA_COLS \in Nat \ {0} /\ VGA_ROWS \in Nat \ {0} /\ LastRow \in Nat
      /\ LastRow + 1 = VGA_ROWS
  BY VgaAssumption DEF LastRow
<1>2. /\ d.x \in 0..(VGA_COLS - 1) /\ d.y \in 0..LastRow /\ d.cells \in [Cells -> S]
      /\ Position(d) = d.y * VGA_COLS + d.x
  BY DEF Screen, Position
<1>3. Position(d) \in Cells /\ Position(d) \in Nat
  <2>1. Position(d) \in Cells
    BY <1>2, RowColumn
  <2> QED BY <2>1 DEF Cells
<1>4. PICK p \in Nat : p = Position(d)
  BY <1>3
<1>5. PICK cells : cells = [d.cells EXCEPT ![p] = c]
  OBVIOUS
<1>6. cells[p] = c /\ (\A k \in Cells : k # p => cells[k] = d.cells[k])
  BY <1>2, <1>3, <1>4, <1>5
<1>7. PICK u \in [cells : [Cells -> S], x : Nat, y : Nat] :
         /\ u = [d EXCEPT !.cells = cells, !.x = @ + 1]
         /\ u.cells = cells /\ u.x = d.x + 1 /\ u.y = d.y
  <2>1. d \in [cells : [Cells -> S], x : Nat, y : Nat]
    BY <1>1, <1>2 DEF Screen
  <2>2. cells \in [Cells -> S]
    BY <1>2, <1>5
  <2>3. d.x + 1 \in Nat /\ d.y \in Nat
    BY <2>1
  <2>4. PICK a : a = [d EXCEPT !.cells = cells, !.x = d.x + 1]
    OBVIOUS
  <2>5. /\ a \in [cells : [Cells -> S], x : Nat, y : Nat]
        /\ a.cells = cells /\ a.x = d.x + 1 /\ a.y = d.y
    BY <2>1, <2>2, <2>3, <2>4, MoveParts
  <2> QED BY <2>4, <2>5
<1>8. /\ u.x >= VGA_COLS => /\ Wrapped(u) \in [cells : [Cells -> S], x : Nat, y : Nat]
                              /\ Wrapped(u).cells = u.cells /\ Wrapped(u).x = 0
                              /\ Wrapped(u).y = u.y + 1
  BY WrapParts
<1>9. e = Scrolled(Wrapped(u))
  BY <1>4, <1>5, <1>7 DEF vga_putchar, Seen
<1>10. ASSUME e.cells = cells, Position(e) = p + 1
      PROVE  /\ Back(e, 0) = c
             /\ \A j \in Nat : j + 1 < Position(e) => Back(e, j + 1) = Back(d, j)
  <2>1. Back(e, 0) = c
    BY <1>4, <1>6, <1>10 DEF Back
  <2>2. ASSUME NEW j \in Nat, j + 1 < Position(e) PROVE Back(e, j + 1) = Back(d, j)
    <3>1. /\ p - 1 - j \in Nat /\ p - 1 - j <= p /\ p - 1 - j # p
          /\ (p + 1) - 1 - (j + 1) = p - 1 - j
      BY <1>10, <2>2
    <3>2. p - 1 - j \in Cells
      BY <1>3, <1>4, <3>1, EarlierCell
    <3> QED BY <1>4, <1>6, <1>10, <3>1, <3>2 DEF Back
  <2> QED BY <2>1, <2>2
<1>11. CASE d.x + 1 < VGA_COLS
  <2>1. Wrapped(u) = u
    BY <1>1, <1>2, <1>7, <1>11 DEF Wrapped
  <2>2. Scrolled(u) = u
    BY <1>1, <1>2, <1>7 DEF Scrolled
  <2>3. e.cells = cells /\ Position(e) = d.y * VGA_COLS + (d.x + 1)
    BY <1>7, <1>9, <2>1, <2>2 DEF Position
  <2>4. d.y * VGA_COLS \in Nat
    BY <1>1, <1>2
  <2>5. Position(e) = p + 1
    BY <1>2, <1>4, <2>3, <2>4
  <2> QED BY <1>4, <1>10, <2>3, <2>5
<1>12. CASE d.x + 1 = VGA_COLS /\ d.y < LastRow
  <2>1. PICK w : w = Wrapped(u) /\ w.cells = cells /\ w.x = 0 /\ w.y = d.y + 1
    BY <1>1, <1>2, <1>7, <1>12, <1>8
  <2>2. Scrolled(w) = w
    BY <1>1, <1>2, <1>12, <2>1 DEF Scrolled
  <2>3. e.cells = cells /\ Position(e) = (d.y + 1) * VGA_COLS + 0
    BY <1>9, <2>1, <2>2 DEF Position
  <2>4. (d.y + 1) * VGA_COLS = d.y * VGA_COLS + VGA_COLS /\ d.y * VGA_COLS \in Nat
    BY <1>1, <1>2
  <2>5. Position(e) = p + 1
    BY <1>1, <1>2, <1>4, <1>12, <2>3, <2>4
  <2> QED BY <1>4, <1>10, <2>3, <2>5
<1>13. CASE d.x + 1 = VGA_COLS /\ d.y = LastRow
  <2>1. PICK w \in [cells : [Cells -> S], x : Nat, y : Nat] :
           w = Wrapped(u) /\ w.cells = cells /\ w.x = 0 /\ w.y = VGA_ROWS
    BY <1>1, <1>2, <1>7, <1>13, <1>8
  <2>2. e = vga_scroll(w)
    BY <1>1, <1>9, <2>1 DEF Scrolled
  <2>3. /\ \A k \in Cells : e.cells[k] = IF k \div VGA_COLS = LastRow THEN Space
                                         ELSE cells[k + VGA_COLS]
        /\ e.x = 0 /\ e.y = LastRow
    BY <2>1, <2>2 DEF vga_scroll
  <2>4. PICK q \in Nat : q = LastRow * VGA_COLS
    BY <1>1
  <2>5. Position(e) = q /\ p = q + VGA_COLS - 1 /\ q \in Cells
    <3>1. Position(e) = q + 0 /\ p = q + d.x
      BY <1>2, <1>4, <1>13, <2>3, <2>4 DEF Position
    <3>2. q + 0 \in Cells
      <4>1. LastRow \in 0..LastRow /\ 0 \in 0..(VGA_COLS - 1)
        BY <1>1
      <4> QED BY <2>4, <4>1, RowColumn
    <3> QED BY <1>1, <1>2, <1>13, <3>1, <3>2
  <2>6. ASSUME NEW k \in Nat, k < q
        PROVE  k \in Cells /\ e.cells[k] = cells[k + VGA_COLS] /\ k + VGA_COLS \in Cells
    <3>1. k \in Cells
      BY <2>5, <2>6, EarlierCell
    <3>2. k \div VGA_COLS # LastRow
      <4>1. k = VGA_COLS * (k \div VGA_COLS) + (k % VGA_COLS) /\ k % VGA_COLS \in Nat
        BY <1>1, Division
      <4>2. VGA_COLS * LastRow = q
        BY <1>1, <2>4
      <4> QED BY <2>6, <4>1, <4>2
    <3> QED BY <2>3, <3>1, <3>2, CellBelow
  <2>7. ASSUME q > 0 PROVE Back(e, 0) = c
    <3>1. q - 1 \in Nat /\ q - 1 < q /\ (q - 1) + VGA_COLS = p /\ q - 1 - 0 = q - 1
      BY <1>1, <2>5, <2>7
    <3> QED BY <1>6, <2>5, <2>6, <3>1 DEF Back
  <2>8. ASSUME NEW j \in Nat, j + 1 < q PROVE Back(e, j + 1) = Back(d, j)
    <3>1. PICK k \in Nat : k = q - 1 - (j + 1)
      BY <2>8
    <3>2. k < q /\ k + VGA_COLS = p - 1 - j /\ p - 1 - j # p
      BY <1>1, <2>5, <2>8, <3>1
    <3> QED BY <1>4, <1>6, <2>5, <2>6, <3>1, <3>2 DEF Back
  <2> QED BY <1>4, <2>4, <2>5, <2>7, <2>8
<1> QED BY <1>1, <1>2, <1>11, <1>12, <1>13

\* A text that ends with a character that is seen ends before the cursor.
LEMMA PrintSeen ==
    ASSUME NEW S, Space \in S, NEW d \in Screen(S), NEW str \in Seq(S),
           str # <<>>, Seen(Last(str)), LastRow * VGA_COLS > 0
    PROVE  /\ Position(vga_print(d, str)) \in Nat \ {0}
           /\ Back(vga_print(d, str), 0) = Last(str)
<1>1. PICK f : Printed(d, str, f) /\ vga_print(d, str) = f[Len(str)]
  BY PrintIsPrinted
<1>2. PICK N \in Nat \ {0} : N = Len(str)
  BY EmptySeq
<1>3. f[N] = vga_putchar(f[N - 1], str[N]) /\ N - 1 \in 0..N
  BY <1>1, <1>2 DEF Printed
<1>4. f[N - 1] \in Screen(S) /\ str[N] \in S /\ Last(str) = str[N]
  BY <1>1, <1>2, <1>3, PrintedType DEF Last
<1>5. /\ Position(f[N - 1]) \in Nat /\ Position(f[N]) \in Nat
      /\ \/ Position(f[N]) = Position(f[N - 1]) + 1
         \/ Position(f[N]) = LastRow * VGA_COLS
      /\ Position(f[N]) > 0 => Back(f[N], 0) = str[N]
  BY <1>3, <1>4, PutSeen
<1> QED BY <1>1, <1>2, <1>4, <1>5

LEMMA PrintOne ==
    ASSUME NEW S, NEW d, NEW c \in S
    PROVE  vga_print(d, <<c>>) = vga_putchar(d, c)
<1>1. <<c>> \in Seq(S) /\ Len(<<c>>) = 1 /\ <<c>>[1] = c
  OBVIOUS
<1>2. PICK f : Printed(d, <<c>>, f) /\ vga_print(d, <<c>>) = f[1]
  BY <1>1, PrintIsPrinted
<1>3. f[0] = d /\ f[1] = vga_putchar(f[0], <<c>>[1])
  BY <1>1, <1>2 DEF Printed
<1> QED BY <1>1, <1>2, <1>3

-----------------------------------------------------------------------------
(* Numbers and text (suma.c).                                              *)

LEMMA AsIntType ==
    ASSUME NEW n \in Int
    PROVE  AsInt(n) \in INT_MIN..INT_MAX
<1>1. INT_MAX \in Nat /\ 2 * (INT_MAX + 1) \in Nat \ {0}
  BY SumaAssumption
<1>2. PICK w \in Nat \ {0} : w = 2 * (INT_MAX + 1)
  BY <1>1
<1>3. n - INT_MIN \in Int
  BY <1>1 DEF INT_MIN
<1>4. (n - INT_MIN) % w \in 0..(w - 1)
  BY <1>2, <1>3
<1> QED BY <1>1, <1>2, <1>4 DEF AsInt, INT_MIN

LEMMA DigitOf ==
    ASSUME NEW num \in Nat
    PROVE  DigitChars[(num % 10) + 1] \in Digits
<1>1. (num % 10) + 1 \in 1..10
  OBVIOUS
<1> QED BY <1>1 DEF Digits

\* Backwards is what its definition says: an induction over the numbers.
LEMMA BackwardsIs ==
    Backwards = [num \in 0..INT_MAX |->
                    IF num = 0 THEN <<>>
                    ELSE <<DigitChars[(num % 10) + 1]>> \o Backwards[num \div 10]]
<1> DEFINE Upto(m, f) == f = [num \in 0..m |->
                                IF num = 0 THEN <<>>
                                ELSE <<DigitChars[(num % 10) + 1]>> \o f[num \div 10]]
<1> DEFINE W == {m \in 0..INT_MAX : \E f : Upto(m, f)}
<1>0. INT_MAX \in Nat
  BY SumaAssumption
<1>1. 0 \in W
  <2> DEFINE f == [num \in 0..0 |-> <<>>]
  <2>1. 0 \in 0..INT_MAX /\ Upto(0, f)
    BY <1>0
  <2> QED BY <2>1
<1>2. ASSUME NEW m \in 0..(INT_MAX - 1), m \in W PROVE m + 1 \in W
  <2>1. PICK f : Upto(m, f)
    BY <1>2
  <2>2. m + 1 \in 0..INT_MAX /\ m \in Nat
    BY <1>0
  <2> DEFINE g == [num \in 0..(m + 1) |->
                      IF num <= m THEN f[num]
                      ELSE <<DigitChars[(num % 10) + 1]>> \o f[num \div 10]]
  <2>3. \A num \in 0..m : g[num] = f[num]
    BY <2>2
  <2>4. \A num \in 0..(m + 1) : num # 0 => num \div 10 \in 0..m
    BY <2>2
  <2>5. ASSUME NEW num \in 0..(m + 1)
        PROVE  g[num] = IF num = 0 THEN <<>>
                        ELSE <<DigitChars[(num % 10) + 1]>> \o g[num \div 10]
    <3>1. CASE num <= m
      <4>1. num \in 0..m
        BY <3>1, <2>2
      <4> QED BY <2>1, <2>3, <2>4, <4>1
    <3>2. CASE ~(num <= m)
      <4>1. num # 0 /\ g[num \div 10] = f[num \div 10]
        BY <2>2, <2>3, <2>4, <3>2
      <4> QED BY <3>2, <4>1
    <3> QED BY <3>1, <3>2
  <2>6. Upto(m + 1, g)
    BY <2>5
  <2> QED BY <2>2, <2>6
<1>3. INT_MAX \in W
  <2> HIDE DEF W
  <2>1. \A n \in 0..INT_MAX : n \in W
    BY <1>0, <1>1, <1>2, IntervalInduction
  <2> QED BY <1>0, <2>1
<1>4. PICK f : Upto(INT_MAX, f)
  BY <1>3
<1>5. Upto(INT_MAX, CHOOSE g : Upto(INT_MAX, g))
  <2> HIDE DEF Upto
  <2> QED BY <1>4, Zenon
<1> QED BY <1>5, Zenon DEF Backwards

LEMMA BackwardsType ==
    ASSUME NEW n \in 0..INT_MAX
    PROVE  Backwards[n] \in Seq(Digits)
<1> DEFINE W == {m \in 0..INT_MAX : \A k \in 0..m : Backwards[k] \in Seq(Digits)}
<1>0. INT_MAX \in Nat
  BY SumaAssumption
<1> DEFINE Digit(k) == <<DigitChars[(k % 10) + 1]>>
<1>a. \A k \in 0..INT_MAX :
        Backwards[k] = IF k = 0 THEN <<>> ELSE Digit(k) \o Backwards[k \div 10]
  BY BackwardsIs
<1>1. 0 \in W
  <2>1. 0 \in 0..INT_MAX /\ \A k \in 0..0 : k = 0
    BY <1>0
  <2>2. Backwards[0] = <<>>
    BY <1>a, <2>1, Zenon
  <2>3. Backwards[0] \in Seq(Digits)
    BY <2>2
  <2> QED BY <2>1, <2>3
<1>2. ASSUME NEW m \in 0..(INT_MAX - 1), m \in W PROVE m + 1 \in W
  <2>1. m + 1 \in 0..INT_MAX /\ m \in Nat /\ (m + 1) \div 10 \in 0..m
    BY <1>0
  <2>2. Backwards[m + 1] = Digit(m + 1) \o Backwards[(m + 1) \div 10]
    <3> HIDE DEF Digit
    <3>1. m + 1 # 0
      BY <2>1
    <3> QED BY <1>a, <2>1, <3>1, Zenon
  <2>3. Backwards[m + 1] \in Seq(Digits)
    BY <1>2, <2>1, <2>2, DigitOf
  <2>4. \A k \in 0..(m + 1) : k \in 0..m \/ k = m + 1
    BY <2>1
  <2> QED BY <1>2, <2>1, <2>3, <2>4
<1>3. n \in W
  <2> HIDE DEF W
  <2> QED BY <1>0, <1>1, <1>2, IntervalInduction
<1>4. n \in 0..n
  BY <1>0
<1> QED BY <1>3, <1>4

Numerals == Digits \cup {"-"}

LEMMA ReverseType ==
    ASSUME NEW S, NEW s \in Seq(S)
    PROVE  Reverse(s) \in Seq(S) /\ Len(Reverse(s)) = Len(s)
  BY SMT DEF Reverse

LEMMA TextOfInt ==
    ASSUME NEW num \in INT_MIN..INT_MAX
    PROVE  int_to_str(num) \in Seq(Numerals)
<1>1. INT_MAX \in Nat /\ num \in Int /\ -num \in Int
  BY SumaAssumption DEF INT_MIN
<1>2. PICK n \in INT_MIN..INT_MAX : n = IF num < 0 THEN AsInt(-num) ELSE num
  BY <1>1, AsIntType
<1>3. CASE num = 0
  <2>1. DigitChars[(0 % 10) + 1] = "0"
    BY DEF DigitChars
  <2>2. "0" \in Numerals
    BY <2>1, DigitOf DEF Numerals
  <2> QED BY <1>3, <2>2 DEF int_to_str
<1>4. CASE num # 0 /\ n > 0
  <2>1. n \in 0..INT_MAX
    BY <1>1, <1>2, <1>4 DEF INT_MIN
  <2>2. Reverse(Backwards[n]) \in Seq(Numerals)
    BY <2>1, BackwardsType, ReverseType, SeqMonotonic DEF Numerals
  <2>3. (IF num < 0 THEN <<"-">> ELSE <<>>) \in Seq(Numerals)
    <3>1. <<"-">> \in Seq(Numerals) /\ <<>> \in Seq(Numerals)
      BY DEF Numerals
    <3> QED BY <3>1
  <2>4. int_to_str(num) = (IF num < 0 THEN <<"-">> ELSE <<>>) \o Reverse(Backwards[n])
    BY <1>2, <1>4, Zenon DEF int_to_str
  <2> QED BY <2>2, <2>3, <2>4
<1>5. CASE num # 0 /\ ~(n > 0)
  <2>1. int_to_str(num) = <<"-">>
    BY <1>2, <1>5, Zenon DEF int_to_str
  <2> QED BY <2>1 DEF Numerals
<1> QED BY <1>3, <1>4, <1>5

\* The characters of a run are in the set, and no others of the text.
LEMMA RunType ==
    ASSUME NEW S, NEW s \in Seq(S), NEW k \in 1..(Len(s) + 1), NEW set
    PROVE  Run(s, k, set) \in Seq(set) /\ Len(Run(s, k, set)) \in 0..(Len(s) + 1 - k)
<1>1. PICK N \in Nat : N = Len(s)
  OBVIOUS
<1> DEFINE Ends(l) == l < N => s[l + 1] \notin set
           W == {l \in (k - 1)..N : Ends(l)}
           Is(l) == (\A j \in k..l : s[j] \in set) /\ Ends(l)
<1>2. PICK m \in W : \A l \in W : m <= l
  <2>1. N \in W
    BY <1>1
  <2>2. W \in SUBSET Nat
    BY <1>1
  <2> HIDE DEF W
  <2> QED BY <2>1, <2>2, MinIsMember
<1>3. ASSUME NEW j \in k..m PROVE s[j] \in set
  <2>1. j - 1 \in (k - 1)..N /\ ~(m <= j - 1) /\ (j - 1) + 1 = j /\ j - 1 < N
    BY <1>1, <1>2
  <2>2. j - 1 \notin W
    BY <1>2, <2>1
  <2> QED BY <2>1, <2>2
<1>4. PICK l : l \in (k - 1)..N /\ Is(l) /\ Run(s, k, set) = SubSeq(s, k, l)
  <2>1. Run(s, k, set) = SubSeq(s, k, CHOOSE l \in (k - 1)..N : Is(l))
    BY <1>1, Zenon DEF Run
  <2>2. m \in (k - 1)..N /\ Is(m)
    BY <1>2, <1>3
  <2> HIDE DEF Is
  <2>3. \E l \in (k - 1)..N : Is(l)
    BY <2>2
  <2>4. LET c == CHOOSE l \in (k - 1)..N : Is(l) IN c \in (k - 1)..N /\ Is(c)
    BY <2>3, Zenon
  <2> QED BY <2>1, <2>4
<1>5. k \in Int /\ l \in Int /\ \A j \in k..l : s[j] \in set
  BY <1>1, <1>4
<1>6. /\ SubSeq(s, k, l) \in Seq(set)
      /\ Len(SubSeq(s, k, l)) = IF k <= l THEN l - k + 1 ELSE 0
  BY <1>5, SubSeqProperties
<1> QED BY <1>1, <1>4, <1>6

LEMMA DigitValueType ==
    ASSUME NEW c \in Digits
    PROVE  DigitValue(c) \in 0..9
<1>1. \E j \in 1..10 : DigitChars[j] = c
  BY DEF Digits
<1>2. (CHOOSE k \in 1..10 : DigitChars[k] = c) \in 1..10
  BY <1>1, Zenon
<1> QED BY <1>2 DEF DigitValue

\* The number read after the first n digits of a text.
Read(digits, f) ==
    f = [n \in 0..Len(digits) |->
            IF n = 0 THEN 0 ELSE AsInt(f[n - 1] * 10 + DigitValue(digits[n]))]

LEMMA ReadExists ==
    ASSUME NEW S, NEW str \in Seq(S)
    PROVE  \E f : Read(str, f)
<1>1. PICK N \in Nat : N = Len(str)
  OBVIOUS
<1> DEFINE Upto(m, f) ==
              f = [n \in 0..m |->
                     IF n = 0 THEN 0 ELSE AsInt(f[n - 1] * 10 + DigitValue(str[n]))]
<1> DEFINE W == {m \in 0..N : \E f : Upto(m, f)}
<1>2. 0 \in W
  <2> DEFINE f == [n \in 0..0 |-> 0]
  <2>1. 0 \in 0..N /\ Upto(0, f)
    BY <1>1
  <2> QED BY <2>1
<1>3. ASSUME NEW m \in 0..(N - 1), m \in W PROVE m + 1 \in W
  <2>1. PICK f : Upto(m, f)
    BY <1>3
  <2>2. m + 1 \in 0..N
    BY <1>1
  <2> DEFINE g == [n \in 0..(m + 1) |->
                      IF n <= m THEN f[n]
                      ELSE AsInt(f[m] * 10 + DigitValue(str[m + 1]))]
  <2>3. \A n \in 0..m : g[n] = f[n]
    BY <1>1
  <2>4. \A n \in 0..(m + 1) :
          g[n] = IF n = 0 THEN 0 ELSE AsInt(g[n - 1] * 10 + DigitValue(str[n]))
    BY <1>1, <2>1, <2>3
  <2>5. Upto(m + 1, g)
    BY <1>1, <2>4
  <2> QED BY <2>2, <2>5
<1>4. N \in W
  <2> HIDE DEF W
  <2>1. \A n \in 0..N : n \in W
    BY <1>1, <1>2, <1>3, IntervalInduction
  <2> QED BY <1>1, <2>1
<1> QED BY <1>1, <1>4 DEF Read

\* What is read from a text is an int.
LEMMA IntOfText ==
    ASSUME NEW S, NEW s \in Seq(S)
    PROVE  str_to_int(s) \in INT_MIN..INT_MAX
<1> DEFINE spaces == Len(Run(s, 1, Spaces))
           signed == Len(s) > spaces /\ s[spaces + 1] \in {"-", "+"}
           digits == Run(s, spaces + (IF signed THEN 2 ELSE 1), Digits)
           f == CHOOSE g : Read(digits, g)
<1>1. str_to_int(s) = IF signed /\ s[spaces + 1] = "-" THEN AsInt(-f[Len(digits)])
                      ELSE f[Len(digits)]
  BY Zenon DEF str_to_int, Read
<1>2. spaces \in 0..Len(s) /\ Len(s) \in Nat
  BY RunType
<1>3. digits \in Seq(Digits)
  <2> HIDE DEF spaces
  <2>1. spaces + (IF signed THEN 2 ELSE 1) \in 1..(Len(s) + 1)
    BY <1>2
  <2> QED BY <2>1, RunType
<1> HIDE DEF spaces, signed, digits
<1>4. Read(digits, f)
  <2>1. \E g : Read(digits, g)
    BY <1>3, ReadExists
  <2> HIDE DEF Read
  <2> QED BY <2>1, Zenon
<1> HIDE DEF f
<1>5. INT_MAX \in Nat /\ 0 \in INT_MIN..INT_MAX /\ INT_MIN..INT_MAX \subseteq Int
  BY SumaAssumption DEF INT_MIN
<1> DEFINE N == Len(digits)
           W == {m \in 0..N : f[m] \in INT_MIN..INT_MAX}
<1>6. N \in W
  <2>1. N \in Nat
    BY <1>3
  <2>2. 0 \in W
    BY <1>4, <1>5, <2>1 DEF Read
  <2>3. ASSUME NEW m \in 0..(N - 1), m \in W PROVE m + 1 \in W
    <3>1. f[m + 1] = AsInt(f[m] * 10 + DigitValue(digits[m + 1]))
      BY <1>4, <2>1 DEF Read
    <3>2. digits[m + 1] \in Digits
      BY <1>3, <2>1
    <3>3. f[m] * 10 + DigitValue(digits[m + 1]) \in Int
      <4>1. f[m] \in Int
        BY <1>5, <2>3
      <4>2. DigitValue(digits[m + 1]) \in Int
        BY <3>2, DigitValueType
      <4> QED BY <4>1, <4>2
    <3>4. f[m + 1] \in INT_MIN..INT_MAX
      BY <3>1, <3>3, AsIntType
    <3>5. m + 1 \in 0..N
      BY <2>1
    <3> QED BY <3>4, <3>5
  <2> HIDE DEF W, N
  <2>4. \A n \in 0..N : n \in W
    BY <2>1, <2>2, <2>3, IntervalInduction
  <2> QED BY <2>1, <2>4
<1>7. f[Len(digits)] \in INT_MIN..INT_MAX
  BY <1>6
<1>8. AsInt(-f[Len(digits)]) \in INT_MIN..INT_MAX
  <2>1. -f[Len(digits)] \in Int
    BY <1>5, <1>7
  <2> QED BY <2>1, AsIntType
<1> QED BY <1>1, <1>7, <1>8

\* A string is the characters of its array up to the first zero.
LEMMA StringIs ==
    ASSUME NEW n \in Nat, NEW S, NEW b \in [0..(n - 1) -> S]
    PROVE  \E m \in 0..n :
              /\ \A k \in 0..(m - 1) : b[k] # NUL
              /\ m < n => b[m] = NUL
              /\ AsString(b) = [k \in 1..m |-> b[k - 1]]
              /\ AsString(b) \in Seq(S)
<1>1. Cardinality(DOMAIN b) = n
  <2>1. DOMAIN b = 0..(n - 1)
    OBVIOUS
  <2>2. 0 \in Int /\ n - 1 \in Int
    OBVIOUS
  <2>3. Cardinality(0..(n - 1)) = IF 0 > n - 1 THEN 0 ELSE n - 1 - 0 + 1
    BY <2>2, FS_Interval
  <2> QED BY <2>1, <2>3
<1> DEFINE Ends(m) == m < n => b[m] = NUL
           W == {m \in 0..n : Ends(m)}
           Is(m) == (\A k \in 0..(m - 1) : b[k] # NUL) /\ Ends(m)
<1>2. PICK m \in W : \A l \in W : m <= l
  <2>1. n \in W
    OBVIOUS
  <2>2. W \in SUBSET Nat
    OBVIOUS
  <2> HIDE DEF W
  <2> QED BY <2>1, <2>2, MinIsMember
<1>3. m \in 0..n /\ Is(m)
  <2>1. ASSUME NEW k \in 0..(m - 1) PROVE b[k] # NUL
    <3>1. k \in 0..n /\ ~(m <= k)
      BY <1>2
    <3>2. k \notin W
      BY <1>2, <3>1
    <3> QED BY <3>1, <3>2
  <2> QED BY <1>2, <2>1
<1>4. PICK c : c \in 0..n /\ Is(c) /\ AsString(b) = [k \in 1..c |-> b[k - 1]]
  <2>1. AsString(b) = [k \in 1..(CHOOSE c \in 0..n : Is(c)) |-> b[k - 1]]
    BY <1>1, Zenon DEF AsString
  <2> HIDE DEF Is
  <2>2. \E c \in 0..n : Is(c)
    BY <1>3
  <2>3. LET c == CHOOSE c \in 0..n : Is(c) IN c \in 0..n /\ Is(c)
    BY <2>2, Zenon
  <2> QED BY <2>1, <2>3
<1>5. AsString(b) \in Seq(S)
  <2>1. c \in Nat /\ \A k \in 1..c : k - 1 \in 0..(n - 1)
    BY <1>4
  <2>2. AsString(b) \in [1..c -> S]
    BY <1>4, <2>1
  <2> QED BY <2>1, <2>2, SeqDef
<1> QED BY <1>4, <1>5

LEMMA LineIs ==
    ASSUME NEW n \in Nat, NEW S, buf \in [0..(n - 1) -> S]
    PROVE  Line \in Seq(S)
  BY StringIs DEF Line

-----------------------------------------------------------------------------
(* Types.                                                                  *)

\* The characters there are, and the ones that are no letter of a task.
Char ==
    STRING \cup Scancodes \cup Letters \cup Numerals
        \cup {"BS", Space, "\n", "X", "?", NUL}
Plain == Char \ Letters

ShellPc == {"esperar_tecla", "block_others", "prompt", "line", "command"}
ProgramPc == {"first", "first_read", "second", "second_read", "exit", "halted"}

TaskTypes ==
    /\ owner \in Task \cup {Shell} /\ blocked \subseteq Task /\ cut \subseteq Task
    /\ at \in [Task -> {"delay", "y", "row", "column", "cell", "x", "end"}]
    /\ loaded \in [Task -> Nat]
    /\ \A t \in Task : at[t] = "column" => loaded[t] \in 0..LastRow
    /\ \A t \in Task : at[t] = "cell" => loaded[t] \in Cells
    /\ col \in [Task -> 0..(DemoCols - 1)]

LineTypes ==
    /\ keyboard \in Seq(Scancodes)
    /\ pc \in ShellPc \cup ProgramPc
    /\ pc \in ShellPc => buf \in [0..(CMD_MAX - 1) -> Char]
    /\ pc \in ProgramPc => buf \in [0..(ReadMax - 1) -> Char]
    /\ i \in Nat
    /\ Reading => i < LineMax
    /\ first \in INT_MIN..INT_MAX

TerminalTypes == display \in Screen(Char) /\ TaskTypes /\ LineTypes

LEMMA Sizes ==
    /\ VGA_COLS \in Nat \ {0} /\ VGA_ROWS \in Nat \ {0}
    /\ DemoCols \in 1..VGA_COLS /\ CMD_MAX \in Nat \ {0, 1} /\ ReadMax \in Nat \ {0}
    /\ \A t \in Task : DemoRow[t] \in 0..LastRow /\ Letter[t] \in Letters /\ t # Shell
  BY VgaAssumption, TerminalAssumption DEF Letters, Shell

LEMMA TypesGiveTypeOK ==
    ASSUME TerminalTypes
    PROVE  TerminalTypeOK
<1>1. TaskTypes /\ LineTypes /\ display \in Screen(Char)
  BY DEF TerminalTypes
<1>2. \A t \in Task :
        /\ at[t] \in {"delay", "y", "row", "column", "cell", "x", "end"}
        /\ loaded[t] \in CASE at[t] = "column" -> 0..LastRow
                           [] at[t] = "cell" -> Cells
                           [] OTHER -> Nat
        /\ col[t] \in 0..(DemoCols - 1)
  BY <1>1 DEF TaskTypes
<1>3. Reading => i \in 0..(LineMax - 1) /\ DOMAIN buf = 0..(LineMax - 1)
  <2>1. ASSUME Reading PROVE i \in 0..(LineMax - 1)
    BY <1>1, <2>1, Sizes DEF LineTypes, LineMax
  <2>2. ASSUME Reading PROVE DOMAIN buf = 0..(LineMax - 1)
    BY <1>1, <2>2 DEF LineTypes, LineMax, Reading, ShellPc, ProgramPc
  <2> QED BY <2>1, <2>2
<1>4. DOMAIN display.cells = Cells /\ display.x \in 0..(VGA_COLS - 1) /\ display.y \in 0..LastRow
  BY <1>1 DEF Screen
<1> QED BY <1>1, <1>2, <1>3, <1>4 DEF TerminalTypeOK, TaskTypes, LineTypes

LEMMA TypesInit ==
    ASSUME TerminalInit
    PROVE  TerminalTypes
<1>1. Blank \in Screen(Char)
  <2>1. 0 \in 0..(VGA_COLS - 1) /\ 0 \in 0..LastRow
    BY Sizes DEF LastRow
  <2>2. Space \in Char
    BY DEF Char
  <2> QED BY <2>1, <2>2 DEF Blank, Screen
<1>2. "?" \in Char
  BY DEF Char
<1>3. 0 \in INT_MIN..INT_MAX /\ 0 \in 0..(DemoCols - 1)
  BY SumaAssumption, Sizes DEF INT_MIN
<1>4. TaskTypes
  BY <1>3 DEF TerminalInit, TaskTypes
<1>5. LineTypes
  BY <1>2, <1>3 DEF TerminalInit, LineTypes, Uninitialized, ShellPc, ProgramPc, Reading
<1> QED BY <1>1, <1>4, <1>5 DEF TerminalInit, TerminalTypes

\* The characters that a text, a number, a key or a program shows are in S.
Alphabet(S) ==
    /\ {"BS", Space, "\n", "X"} \cup Numerals \cup Scancodes \subseteq S
    /\ Text \in [Texts -> Seq(S)]

LEMMA CharAlphabet == Alphabet(Char)
<1>1. {"BS", Space, "\n", "X"} \cup Numerals \cup Scancodes \subseteq Char
  BY DEF Char
<1>2. STRING \subseteq Char
  BY DEF Char
<1>3. ASSUME NEW name \in Texts PROVE Text[name] \in Seq(Char)
  <2>1. Text[name] \in Seq(STRING)
    BY TerminalAssumption
  <2> QED BY <1>2, <2>1, SeqMonotonic
<1> QED BY <1>1, <1>3, TerminalAssumption DEF Alphabet

\* What a tick and the steps of a task leave alone.
LEMMA TaskStepFrame ==
    ASSUME Tick \/ \E t \in Task : TaskStep(t)
    PROVE  UNCHANGED <<blocked, keyboard, pc, buf, i, typed, first>>
  BY DEF Tick, TaskStep, StoreX, StoreY, LoadRow, LoadColumn, StoreCell, LoadX,
         EndPrintAt, TaskGoes, Load, Store, lineVars

LEMMA TickTypes ==
    ASSUME TaskTypes, Tick
    PROVE  TaskTypes' /\ display' = display
<1>1. UNCHANGED <<display, blocked, at, loaded, col>>
  BY DEF Tick
<1>2. owner' \in Task \cup {Shell}
  BY DEF Tick
<1>3. cut' \subseteq Task
  BY DEF Tick, TaskTypes
<1> QED BY <1>1, <1>2, <1>3 DEF TaskTypes

\* One step of vga_print_at.
LEMMA TaskStepTypes ==
    ASSUME TaskTypes, display \in Screen(Char), NEW t \in Task, TaskStep(t)
    PROVE  TaskTypes' /\ display' \in Screen(Char)
<1>1. /\ owner \in Task \cup {Shell} /\ blocked \subseteq Task /\ cut \subseteq Task
      /\ at \in [Task -> {"delay", "y", "row", "column", "cell", "x", "end"}]
      /\ loaded \in [Task -> Nat]
      /\ \A u \in Task : at[u] = "column" => loaded[u] \in 0..LastRow
      /\ \A u \in Task : at[u] = "cell" => loaded[u] \in Cells
      /\ col \in [Task -> 0..(DemoCols - 1)]
  BY DEF TaskTypes
<1>2. display.x \in 0..(VGA_COLS - 1) /\ display.y \in 0..LastRow
      /\ display.cells \in [Cells -> Char]
  BY DEF Screen
<1>3. CASE StoreX(t)
  <2>1. /\ at' = [at EXCEPT ![t] = "y"] /\ UNCHANGED <<owner, blocked, loaded, col, cut>>
        /\ display' = [display EXCEPT !.x = col[t]]
    BY <1>3 DEF StoreX, TaskGoes, Store
  <2>2. TaskTypes'
    BY <1>1, <2>1 DEF TaskTypes
  <2>3. col[t] \in 0..(VGA_COLS - 1)
    BY <1>1, Sizes
  <2> QED BY <2>1, <2>2, <2>3 DEF Screen
<1>4. CASE StoreY(t)
  <2>1. /\ at' = [at EXCEPT ![t] = "row"] /\ UNCHANGED <<owner, blocked, loaded, col, cut>>
        /\ display' = [display EXCEPT !.y = DemoRow[t]]
    BY <1>4 DEF StoreY, TaskGoes, Store
  <2>2. TaskTypes'
    BY <1>1, <2>1 DEF TaskTypes
  <2> QED BY <2>1, <2>2, Sizes DEF Screen
<1>5. CASE LoadRow(t)
  <2>1. /\ at' = [at EXCEPT ![t] = "column"] /\ UNCHANGED <<display, owner, blocked, col, cut>>
        /\ loaded' = [loaded EXCEPT ![t] = display.y]
    BY <1>5 DEF LoadRow, TaskGoes, Load
  <2>2. display.y \in Nat
    BY <1>2, Sizes DEF LastRow
  <2> QED BY <1>1, <1>2, <2>1, <2>2 DEF TaskTypes
<1>6. CASE LoadColumn(t)
  <2>1. /\ at' = [at EXCEPT ![t] = "cell"] /\ UNCHANGED <<display, owner, blocked, col, cut>>
        /\ loaded' = [loaded EXCEPT ![t] = loaded[t] * VGA_COLS + display.x]
        /\ at[t] = "column"
    BY <1>6 DEF LoadColumn, TaskGoes, Load
  <2>2. loaded[t] * VGA_COLS + display.x \in Cells
    BY <1>1, <1>2, <2>1, RowColumn
  <2>3. loaded[t] * VGA_COLS + display.x \in Nat
    BY <2>2 DEF Cells
  <2> QED BY <1>1, <2>1, <2>2, <2>3 DEF TaskTypes
<1>7. CASE StoreCell(t)
  <2>1. /\ at' = [at EXCEPT ![t] = "x"] /\ UNCHANGED <<owner, blocked, loaded, col, cut>>
        /\ display' = [display EXCEPT !.cells[loaded[t]] = Letter[t]]
        /\ at[t] = "cell"
    BY <1>7 DEF StoreCell, TaskGoes, Store
  <2>2. TaskTypes'
    BY <1>1, <2>1 DEF TaskTypes
  <2>3. Letter[t] \in Char
    BY Sizes DEF Char
  <2>4. [display.cells EXCEPT ![loaded[t]] = Letter[t]] \in [Cells -> Char]
    BY <1>2, <2>3
  <2> QED BY <2>1, <2>2, <2>4 DEF Screen
<1>8. CASE LoadX(t)
  <2>1. /\ at' = [at EXCEPT ![t] = "end"] /\ UNCHANGED <<display, owner, blocked, col, cut>>
        /\ loaded' = [loaded EXCEPT ![t] = display.x]
    BY <1>8 DEF LoadX, TaskGoes, Load
  <2>2. display.x \in Nat
    BY <1>2
  <2> QED BY <1>1, <2>1, <2>2 DEF TaskTypes
<1>9. CASE EndPrintAt(t)
  <2>1. /\ at' = [at EXCEPT ![t] = "delay"] /\ UNCHANGED <<owner, blocked>>
        /\ cut' = cut \ {t}
        /\ loaded' = [loaded EXCEPT ![t] = 0]
        /\ col' = [col EXCEPT ![t] = (@ + 1) % DemoCols]
        /\ display' = Scrolled(Wrapped([display EXCEPT !.x = loaded[t] + 1]))
    BY <1>9 DEF EndPrintAt, TaskGoes
  <2>2. (col[t] + 1) % DemoCols \in 0..(DemoCols - 1)
    <3>1. DemoCols \in Nat \ {0} /\ col[t] + 1 \in Nat
      BY <1>1, Sizes
    <3> QED BY <3>1
  <2>3. TaskTypes'
    BY <1>1, <2>1, <2>2 DEF TaskTypes
  <2>4. [display EXCEPT !.x = loaded[t] + 1] \in Unscrolled(Char)
    <3>1. loaded[t] + 1 \in Nat /\ display.y \in 0..VGA_ROWS /\ display.y # VGA_ROWS
      BY <1>1, <1>2, Sizes DEF LastRow
    <3> QED BY <1>2, <3>1 DEF Unscrolled, Screen
  <2>5. Space \in Char
    BY DEF Char
  <2> QED BY <2>1, <2>3, <2>4, <2>5, WrapAndScroll
<1> QED BY <1>3, <1>4, <1>5, <1>6, <1>7, <1>8, <1>9 DEF TaskStep

\* The steps of the user, of the shell and of the program.
ShellStep ==
    \/ KeyArrives \/ esperar_tecla \/ process_block_others \/ BlockingDone
    \/ Prompt \/ Ignored \/ Erase \/ Echo \/ LineEnds
    \/ EmptyCommand \/ Command
    \/ RunSuma \/ FirstNumber \/ PrintSum \/ SYS_EXIT

LEMMA NextIs ==
    TerminalNext <=> Tick \/ (\E t \in Task : TaskStep(t)) \/ ShellStep
  BY DEF TerminalNext, ShellStep

LEMMA ShellStepFrame ==
    ASSUME ShellStep
    PROVE  UNCHANGED <<owner, at, loaded, col, cut>>
  BY DEF ShellStep, KeyArrives, esperar_tecla, process_block_others, BlockingDone,
         Prompt, Ignored, Erase, Echo, LineEnds, LoopEnds, EmptyCommand, Command,
         RunSuma, FirstNumber, PrintSum, SYS_EXIT, NextCode, ShellGoes, taskVars

\* A line is read to its end in the same buffer.
LEMMA LineStepTypes ==
    ASSUME LineTypes, ShellStep
    PROVE  LineTypes'
<1>1. /\ keyboard \in Seq(Scancodes) /\ i \in Nat
      /\ pc \in ShellPc \cup ProgramPc
      /\ pc \in ShellPc => buf \in [0..(CMD_MAX - 1) -> Char]
      /\ pc \in ProgramPc => buf \in [0..(ReadMax - 1) -> Char]
      /\ Reading => i < LineMax
      /\ first \in INT_MIN..INT_MAX
  BY DEF LineTypes
<1>2. /\ keyboard # <<>> => Head(keyboard) \in Scancodes /\ Tail(keyboard) \in Seq(Scancodes)
      /\ Scancodes \subseteq Char
      /\ NUL \in Char /\ "?" \in Char
  BY <1>1, HeadTailProperties DEF Char
<1>3. CASE KeyArrives
  <2>1. UNCHANGED <<pc, buf, i, first>> /\ keyboard' \in Seq(Scancodes)
    BY <1>1, <1>3 DEF KeyArrives
  <2> QED BY <1>1, <2>1 DEF LineTypes, Reading, LineMax
<1>4. CASE esperar_tecla
  <2>1. /\ UNCHANGED <<buf, i, first>> /\ keyboard' \in Seq(Scancodes)
        /\ pc = "esperar_tecla" /\ pc' \in {"esperar_tecla", "block_others"}
    BY <1>2, <1>4 DEF esperar_tecla, ShellGoes
  <2> QED BY <1>1, <2>1 DEF LineTypes, Reading, LineMax, ShellPc, ProgramPc
<1>5. CASE process_block_others \/ BlockingDone
  <2>1. /\ UNCHANGED <<keyboard, buf, i, first>>
        /\ pc = "block_others" /\ pc' \in {"block_others", "prompt"}
    BY <1>5 DEF process_block_others, BlockingDone, ShellGoes, lineVars
  <2> QED BY <1>1, <2>1 DEF LineTypes, Reading, LineMax, ShellPc, ProgramPc
<1>6. CASE Prompt
  <2>1. UNCHANGED <<keyboard, buf, first>> /\ pc = "prompt" /\ pc' = "line" /\ i' = 0
    BY <1>6 DEF Prompt, ShellGoes
  <2> QED BY <1>1, <2>1, Sizes DEF LineTypes, Reading, LineMax, ShellPc, ProgramPc
<1>7. CASE Ignored
  <2>1. UNCHANGED <<pc, buf, i, first>> /\ keyboard' \in Seq(Scancodes)
    BY <1>2, <1>7 DEF Ignored, NextCode
  <2> QED BY <1>1, <2>1 DEF LineTypes, Reading, LineMax
<1>8. CASE Erase
  <2>1. /\ UNCHANGED <<pc, buf, first>> /\ keyboard' \in Seq(Scancodes)
        /\ i' \in Nat /\ i' <= i
    BY <1>1, <1>2, <1>8 DEF Erase, NextCode
  <2>2. Reading' => i' < LineMax'
    BY <1>1, <2>1, Sizes DEF Reading, LineMax
  <2> QED BY <1>1, <2>1, <2>2 DEF LineTypes
<1>9. CASE Echo
  <2>1. /\ UNCHANGED <<pc, first>> /\ keyboard' \in Seq(Scancodes)
        /\ Reading /\ i < LineMax - 1 /\ i' = i + 1
        /\ buf' = [buf EXCEPT ![i] = Head(keyboard)] /\ Head(keyboard) \in Char
    BY <1>2, <1>9 DEF Echo, NextCode
  <2>2. i' \in Nat /\ i' < LineMax'
    BY <1>1, <2>1, Sizes DEF LineMax
  <2>3. /\ pc' \in ShellPc => buf' \in [0..(CMD_MAX - 1) -> Char]
        /\ pc' \in ProgramPc => buf' \in [0..(ReadMax - 1) -> Char]
    BY <1>1, <2>1
  <2> QED BY <1>1, <2>1, <2>2, <2>3 DEF LineTypes
<1>10. CASE LineEnds
  <2>1. /\ UNCHANGED <<i, first>> /\ keyboard' \in Seq(Scancodes)
        /\ buf' = [buf EXCEPT ![i] = NUL]
    BY <1>1, <1>2, <1>10 DEF LineEnds, LoopEnds
  <2>2. \/ pc = "line" /\ pc' = "command"
        \/ pc = "first" /\ pc' = "first_read"
        \/ pc = "second" /\ pc' = "second_read"
    BY <1>10 DEF LineEnds, LoopEnds, Reading
  <2>3. pc' \in ShellPc \cup ProgramPc /\ ~Reading'
    BY <2>2 DEF Reading, ShellPc, ProgramPc
  <2>4. pc' \in ShellPc => buf' \in [0..(CMD_MAX - 1) -> Char]
    BY <1>1, <1>2, <2>1, <2>2 DEF ShellPc
  <2>5. pc' \in ProgramPc => buf' \in [0..(ReadMax - 1) -> Char]
    BY <1>1, <1>2, <2>1, <2>2 DEF ProgramPc
  <2> QED BY <1>1, <2>1, <2>3, <2>4, <2>5 DEF LineTypes
<1>11. CASE EmptyCommand \/ Command
  <2>1. UNCHANGED <<keyboard, buf, i, first>> /\ pc = "command" /\ pc' = "prompt"
    BY <1>11 DEF EmptyCommand, Command, ShellGoes, lineVars
  <2> QED BY <1>1, <2>1 DEF LineTypes, Reading, LineMax, ShellPc, ProgramPc
<1>12. CASE RunSuma
  <2>1. /\ UNCHANGED <<keyboard, first>> /\ pc = "command" /\ pc' = "first" /\ i' = 0
        /\ buf' = Uninitialized(ReadMax)
    BY <1>12 DEF RunSuma, ShellGoes
  <2> QED BY <1>1, <1>2, <2>1, Sizes
          DEF LineTypes, Reading, LineMax, ShellPc, ProgramPc, Uninitialized
<1>13. CASE FirstNumber
  <2>1. /\ UNCHANGED <<keyboard, buf>> /\ pc = "first_read" /\ pc' = "second" /\ i' = 0
        /\ first' = str_to_int(Line)
    BY <1>13 DEF FirstNumber, ShellGoes
  <2>2. Line \in Seq(Char)
    BY <1>1, <2>1, LineIs, Sizes DEF ProgramPc
  <2>3. first' \in INT_MIN..INT_MAX
    BY <2>1, <2>2, IntOfText
  <2> QED BY <1>1, <2>1, <2>3, Sizes DEF LineTypes, Reading, LineMax, ShellPc, ProgramPc
<1>14. CASE PrintSum \/ SYS_EXIT
  <2>1. /\ UNCHANGED <<keyboard, buf, i, first>>
        /\ pc \in {"second_read", "exit"} /\ pc' \in {"exit", "halted"}
    BY <1>14 DEF PrintSum, SYS_EXIT, ShellGoes, lineVars
  <2> QED BY <1>1, <2>1 DEF LineTypes, Reading, LineMax, ShellPc, ProgramPc
<1> QED BY <1>3, <1>4, <1>5, <1>6, <1>7, <1>8, <1>9, <1>10, <1>11, <1>12, <1>13, <1>14
        DEF ShellStep

\* The shell blocks one task more.
LEMMA BlocksOne ==
    ASSUME TaskTypes, process_block_others
    PROVE  \E t \in Task \ blocked : blocked' = blocked \cup {t}
<1> DEFINE Least(t) == \A u \in Task \ blocked : t <= u
<1>1. blocked' = blocked \cup {CHOOSE t \in Task \ blocked : Least(t)}
  BY Zenon DEF process_block_others
<1>2. PICK t \in Task \ blocked : Least(t)
  <2>1. Task \ blocked \in SUBSET Nat
    <3>1. 1..Len(Letter) \subseteq Nat
      BY DEF Letter
    <3> QED BY <3>1, TerminalAssumption
  <2>2. Task \ blocked # {}
    BY DEF process_block_others, TaskTypes
  <2> QED BY <2>1, <2>2, MinIsMember
<1> HIDE DEF Least
<1>3. (CHOOSE u \in Task \ blocked : Least(u)) \in Task \ blocked
  BY <1>2, Zenon
<1> QED BY <1>1, <1>3

LEMMA ShellStepBlocks ==
    ASSUME TaskTypes, ShellStep
    PROVE  \/ blocked' = blocked
           \/ /\ process_block_others
              /\ \E t \in Task \ blocked : blocked' = blocked \cup {t}
<1>1. CASE process_block_others
  BY <1>1, BlocksOne
<1>2. CASE ~process_block_others
  BY <1>2 DEF ShellStep, KeyArrives, esperar_tecla, BlockingDone,
         Prompt, Ignored, Erase, Echo, LineEnds, LoopEnds, EmptyCommand, Command,
         RunSuma, FirstNumber, PrintSum, SYS_EXIT, NextCode, ShellGoes
<1> QED BY <1>1, <1>2

LEMMA ShellStepTasks ==
    ASSUME TaskTypes, ShellStep
    PROVE  TaskTypes'
<1>1. UNCHANGED <<owner, at, loaded, col, cut>>
  BY ShellStepFrame
<1>2. blocked' \subseteq Task
  BY ShellStepBlocks DEF TaskTypes
<1> QED BY <1>1, <1>2 DEF TaskTypes

\* A screen of an alphabet stays one: its texts, its numbers and the echo of
\* its keys are all that the shell and the program show.
LEMMA ShellStepScreen ==
    ASSUME NEW S, Alphabet(S), LineTypes, ShellStep,
           display \in Screen(S) \/ BlockingDone
    PROVE  display' \in Screen(S)
<1>1. Space \in S /\ Numerals \subseteq S /\ Scancodes \subseteq S /\ "BS" \in S
      /\ "\n" \in S /\ "X" \in S
  BY DEF Alphabet
<1>2. \A name \in Texts : Text[name] \in Seq(S)
  BY DEF Alphabet
<1>3. \A d \in Screen(S) : \A str \in Seq(S) : vga_print(d, str) \in Screen(S)
  BY <1>1, PrintType
<1>4. /\ "banner" \in Texts /\ "prompt" \in Texts /\ "enter" \in Texts
      /\ "output" \in Texts /\ "loading" \in Texts /\ "ask" \in Texts
      /\ "again" \in Texts /\ "a" \in Texts /\ "b" \in Texts
      /\ "sum" \in Texts /\ "end" \in Texts /\ "ended" \in Texts
  BY DEF Texts
<1>5. \A s, u \in Seq(S) : s \o u \in Seq(S)
  OBVIOUS
<1>6. keyboard # <<>> => Head(keyboard) \in Scancodes
  BY HeadTailProperties DEF LineTypes
<1>7. CASE KeyArrives \/ esperar_tecla \/ process_block_others \/ Ignored \/ EmptyCommand
  <2>1. display' = display
    BY <1>7 DEF KeyArrives, esperar_tecla, process_block_others, Ignored, EmptyCommand
  <2>2. ~BlockingDone \/ display \in Screen(S)
    BY <1>7, <2>1 DEF KeyArrives, esperar_tecla, process_block_others, Ignored, EmptyCommand,
                BlockingDone, ShellGoes, NextCode, Reading
  <2> QED BY <2>1, <2>2
<1>8. CASE BlockingDone
  <2>1. Blank \in Screen(S)
    <3>1. 0 \in 0..(VGA_COLS - 1) /\ 0 \in 0..LastRow
      BY Sizes DEF LastRow
    <3> QED BY <1>1, <3>1 DEF Blank, Screen
  <2>2. display' = vga_print(Blank, Text["banner"])
    BY <1>8 DEF BlockingDone
  <2> QED BY <1>2, <1>3, <1>4, <2>1, <2>2
<1>9. CASE display \in Screen(S) /\ (Prompt \/ Command \/ FirstNumber)
  <2>1. \E name \in Texts : display' = vga_print(display, Text[name])
    BY <1>4, <1>9 DEF Prompt, Command, FirstNumber
  <2> QED BY <1>2, <1>3, <1>9, <2>1
<1>10. CASE display \in Screen(S) /\ Erase
  <2>1. \/ display' = display
        \/ display' = vga_print(display, <<"BS", Space, "BS">>)
    BY <1>10 DEF Erase
  <2>2. <<"BS", Space, "BS">> \in Seq(S)
    BY <1>1
  <2> QED BY <1>3, <1>10, <2>1, <2>2
<1>11. CASE display \in Screen(S) /\ Echo
  <2>1. display' = vga_print(display, <<Head(keyboard)>>) /\ keyboard # <<>>
    BY <1>11 DEF Echo, NextCode
  <2>2. <<Head(keyboard)>> \in Seq(S)
    BY <1>1, <1>6, <2>1
  <2> QED BY <1>3, <1>11, <2>1, <2>2
<1>12. CASE display \in Screen(S) /\ LineEnds
  <2>1. PICK u, v : /\ display' = vga_print(display, u \o v)
                    /\ u \in {Text["enter"], <<>>} /\ v \in {<<"\n">>, <<>>}
    BY <1>12 DEF LineEnds, LoopEnds
  <2>2. <<"\n">> \in Seq(S) /\ <<>> \in Seq(S)
    BY <1>1
  <2>3. u \o v \in Seq(S)
    BY <1>2, <1>4, <1>5, <2>1, <2>2
  <2> QED BY <1>3, <1>12, <2>1, <2>3
<1>13. CASE display \in Screen(S) /\ RunSuma
  <2>1. PICK screen \in Screen(S) :
          display' = vga_print([screen EXCEPT !.cells[0] = "X"], Text["ask"])
    BY <1>2, <1>3, <1>4, <1>13 DEF RunSuma
  <2>2. 0 \in Cells
    <3>1. 0 \in 0..LastRow /\ 0 \in 0..(VGA_COLS - 1) /\ 0 * VGA_COLS + 0 = 0
      BY Sizes DEF LastRow
    <3> QED BY <3>1, RowColumn
  <2>3. [screen EXCEPT !.cells[0] = "X"] \in Screen(S)
    <3>1. [screen.cells EXCEPT ![0] = "X"] \in [Cells -> S]
      BY <1>1, <2>1, <2>2 DEF Screen
    <3> QED BY <2>1, <3>1 DEF Screen
  <2> QED BY <1>2, <1>3, <1>4, <2>1, <2>3
<1>14. CASE display \in Screen(S) /\ PrintSum
  <2>1. PICK b : /\ b = str_to_int(Line) /\ pc = "second_read"
                 /\ display' = vga_print(display,
                       Text["a"] \o int_to_str(first) \o Text["b"] \o int_to_str(b)
                         \o Text["sum"] \o int_to_str(AsInt(first + b)))
    BY <1>14 DEF PrintSum, ShellGoes
  <2>2. b \in INT_MIN..INT_MAX
    <3>1. Line \in Seq(Char)
      BY <2>1, LineIs, Sizes DEF LineTypes, ProgramPc
    <3> QED BY <2>1, <3>1, IntOfText
  <2>3. first \in INT_MIN..INT_MAX /\ first + b \in Int
    BY <2>2, SumaAssumption DEF LineTypes, INT_MIN
  <2>4. AsInt(first + b) \in INT_MIN..INT_MAX
    BY <2>3, AsIntType
  <2>5. /\ int_to_str(first) \in Seq(S) /\ int_to_str(b) \in Seq(S)
        /\ int_to_str(AsInt(first + b)) \in Seq(S)
    BY <1>1, <2>2, <2>3, <2>4, TextOfInt, SeqMonotonic
  <2>6. Text["a"] \in Seq(S) /\ Text["b"] \in Seq(S) /\ Text["sum"] \in Seq(S)
    BY <1>2, <1>4
  <2>7. Text["a"] \o int_to_str(first) \o Text["b"] \o int_to_str(b)
          \o Text["sum"] \o int_to_str(AsInt(first + b)) \in Seq(S)
    BY <1>5, <2>5, <2>6
  <2> QED BY <1>3, <1>14, <2>1, <2>7
<1>15. CASE display \in Screen(S) /\ SYS_EXIT
  <2>1. display' = vga_print(display, Text["end"] \o int_to_str(0) \o Text["ended"])
    BY <1>15 DEF SYS_EXIT
  <2>2. int_to_str(0) \in Seq(S)
    <3>1. 0 \in INT_MIN..INT_MAX
      BY SumaAssumption DEF INT_MIN
    <3> QED BY <1>1, <3>1, TextOfInt, SeqMonotonic
  <2>3. Text["end"] \o int_to_str(0) \o Text["ended"] \in Seq(S)
    BY <1>2, <1>4, <1>5, <2>2
  <2> QED BY <1>3, <1>15, <2>1, <2>3
<1> QED BY <1>7, <1>8, <1>9, <1>10, <1>11, <1>12, <1>13, <1>14, <1>15 DEF ShellStep

LEMMA TypesStep ==
    ASSUME TerminalTypes, [TerminalNext]_tvars
    PROVE  TerminalTypes'
<1>1. TaskTypes /\ LineTypes /\ display \in Screen(Char)
  BY DEF TerminalTypes
<1>2. CASE Tick
  <2>1. UNCHANGED <<keyboard, pc, buf, i, first>>
    BY <1>2, TaskStepFrame
  <2>2. LineTypes'
    BY <1>1, <2>1 DEF LineTypes, Reading, LineMax
  <2> QED BY <1>1, <1>2, <2>2, TickTypes DEF TerminalTypes
<1>3. CASE \E t \in Task : TaskStep(t)
  <2>1. UNCHANGED <<keyboard, pc, buf, i, first>>
    BY <1>3, TaskStepFrame
  <2>2. LineTypes'
    BY <1>1, <2>1 DEF LineTypes, Reading, LineMax
  <2>3. TaskTypes' /\ display' \in Screen(Char)
    BY <1>1, <1>3, TaskStepTypes
  <2> QED BY <2>2, <2>3 DEF TerminalTypes
<1>4. CASE ShellStep
  BY <1>1, <1>4, LineStepTypes, ShellStepTasks, ShellStepScreen, CharAlphabet DEF TerminalTypes
<1>5. CASE UNCHANGED tvars
  BY <1>1, <1>5 DEF tvars, taskVars, lineVars, TerminalTypes, TaskTypes, LineTypes,
                    Reading, LineMax
<1> QED BY <1>2, <1>3, <1>4, <1>5, NextIs

LEMMA TypesHold == TerminalSpec => []TerminalTypes
<1> QED BY TypesInit, TypesStep, PTL DEF TerminalSpec

\* TerminalTypeOK holds: the cursor never leaves the screen and no store of a
\* task, of an echo or of the end of a line is outside the screen or the buffer
\* (vga.c 26-73, shell.c 66-87, syscall.c 39-62).
THEOREM TerminalTypeCorrect == TerminalSpec => []TerminalTypeOK
<1> QED BY TypesHold, TypesGiveTypeOK, PTL

-----------------------------------------------------------------------------
(* The demonstration: one cursor and several tasks.                        *)

Demo == {"esperar_tecla", "block_others"}
DemoRows == {DemoRow[t] : t \in Task}
Idle == {t \in Task : at[t] = "delay"}

\* No process that is blocked has the processor, and once the shell has
\* blocked the others, nobody else has it.
Alone ==
    /\ owner \in Task => owner \notin blocked
    /\ pc \notin Demo => blocked = Task

\* How far right the cursor is.  A task that was not interrupted since it has
\* set cursor_x finds it there.  One that was loads another's, up to one column
\* further for each task that is between two letters; but it was interrupted
\* once already, so it will store it before another task runs.
CursorNear ==
    /\ display.x <= DemoCols - 1 + Cardinality(Idle)
    /\ \A t \in Task : (at[t] # "delay" /\ t # owner) => t \in cut
    /\ \A t \in cut : at[t] # "delay"
    /\ (owner \in Task \ cut /\ at[owner] # "delay") => display.x <= DemoCols - 1
    /\ \A t \in Task : at[t] = "end" =>
          IF t = owner /\ t \in cut THEN loaded[t] <= DemoCols - 1 + Cardinality(Idle)
          ELSE loaded[t] <= DemoCols - 1

\* Once a task has set cursor_y, it is a row of the demonstration.
RowsKept ==
    /\ (\E t \in Task : at[t] \notin {"delay", "y"}) => display.y \in DemoRows
    /\ \A t \in Task : at[t] = "column" => loaded[t] \in DemoRows

InDemo(k) ==
    k \div VGA_COLS \in DemoRows /\ k % VGA_COLS < DemoCols + Cardinality(Task)

LettersKept ==
    /\ \A t \in Task : at[t] = "cell" => InDemo(loaded[t])
    /\ \A k \in Cells : display.cells[k] \in Letters => InDemo(k)

Demonstration == CursorNear /\ RowsKept /\ LettersKept

DemoInv ==
    /\ TerminalTypes
    /\ Alone
    /\ pc \in Demo => Demonstration
    /\ pc \notin Demo => display \in Screen(Plain)

LEMMA PlainAlphabet == Alphabet(Plain)
<1>1. Letters \subseteq {"A", "B", "C"}
  <2>1. ASSUME NEW t \in Task PROVE Letter[t] \in {"A", "B", "C"}
    <3>1. t \in 1..3
      BY TerminalAssumption DEF Letter
    <3> QED BY <3>1 DEF Letter
  <2> QED BY <2>1 DEF Letters
<1>2. Space \notin Letters
  <2>1. " " # "A" /\ " " # "B" /\ " " # "C"
    OBVIOUS
  <2>2. Space # "A" /\ Space # "B" /\ Space # "C"
    BY <2>1, Zenon DEF Space
  <2> QED BY <1>1, <2>2
<1>3. "BS" \notin Letters /\ "\n" \notin Letters /\ "X" \notin Letters /\ "-" \notin Letters
  BY <1>1
<1>4. Digits \cap Letters = {}
  <2>1. ASSUME NEW k \in 1..10 PROVE DigitChars[k] \notin {"A", "B", "C"}
    BY DEF DigitChars
  <2> QED BY <1>1, <2>1 DEF Digits
<1>5. {"BS", Space, "\n", "X"} \cup Numerals \cup Scancodes \subseteq Plain
  BY <1>2, <1>3, <1>4, DemoAssumption DEF Plain, Char, Numerals
<1>6. STRING \ Letters \subseteq Plain
  BY DEF Plain, Char
<1>7. ASSUME NEW name \in Texts PROVE Text[name] \in Seq(Plain)
  <2>1. Text[name] \in Seq(STRING \ Letters)
    BY DemoAssumption
  <2> QED BY <1>6, <2>1, SeqMonotonic
<1> QED BY <1>5, <1>7, TerminalAssumption DEF Alphabet

LEMMA TasksAreFew ==
    ASSUME NEW S \in SUBSET Task
    PROVE  IsFiniteSet(S) /\ Cardinality(S) \in Nat /\ Cardinality(S) <= Cardinality(Task)
<1>1. IsFiniteSet(1..3)
  <2>1. 1 \in Int /\ 3 \in Int
    OBVIOUS
  <2> QED BY <2>1, FS_Interval
<1>2. Task \subseteq 1..3
  BY TerminalAssumption DEF Letter
<1>3. IsFiniteSet(Task)
  BY <1>1, <1>2, FS_Subset
<1> QED BY <1>3, FS_Subset, FS_CardinalityType

\* What the demonstration is about is left alone by the shell.
LEMMA DemonstrationFrame ==
    ASSUME TaskTypes, Demonstration, UNCHANGED <<display, owner, at, loaded, cut>>
    PROVE  Demonstration'
  BY DEF Demonstration, CursorNear, RowsKept, LettersKept, InDemo, Idle

LEMMA DemonstrationTick ==
    ASSUME TaskTypes, Demonstration, Tick
    PROVE  Demonstration'
<1>1. UNCHANGED <<display, at, loaded>> /\ owner' # owner
  BY DEF Tick
<1>2. cut' = IF owner \in Task /\ at[owner] # "delay" THEN cut \cup {owner} ELSE cut
  BY DEF Tick
<1>3. owner \in Task /\ at[owner] # "delay" => owner \notin cut
  BY DEF Tick
<1>4. Idle' = Idle /\ Cardinality(Idle) \in Nat /\ DemoCols \in Nat
  BY <1>1, TasksAreFew, Sizes DEF Idle
<1>5. /\ display.x <= DemoCols - 1 + Cardinality(Idle)
      /\ \A t \in Task : (at[t] # "delay" /\ t # owner) => t \in cut
      /\ \A t \in cut : at[t] # "delay"
      /\ \A t \in Task : at[t] = "end" =>
            IF t = owner /\ t \in cut THEN loaded[t] <= DemoCols - 1 + Cardinality(Idle)
            ELSE loaded[t] <= DemoCols - 1
  BY DEF Demonstration, CursorNear
<1>6. \A t \in Task : (at'[t] # "delay" /\ t # owner') => t \in cut'
  BY <1>1, <1>2, <1>5
<1>7. \A t \in cut' : at'[t] # "delay"
  BY <1>1, <1>2, <1>5
<1>8. ~(owner' \in Task \ cut' /\ at'[owner'] # "delay")
  BY <1>1, <1>2, <1>5
<1>9. ASSUME NEW t \in Task, at'[t] = "end" PROVE loaded'[t] <= DemoCols - 1
  BY <1>1, <1>3, <1>5, <1>9
<1>10. DemoCols - 1 <= DemoCols - 1 + Cardinality(Idle)
  BY <1>4
<1>11. \A t \in Task : at'[t] = "end" => loaded'[t] <= DemoCols - 1 + Cardinality(Idle')
  <2> SUFFICES ASSUME NEW t \in Task, at'[t] = "end"
               PROVE  loaded'[t] <= DemoCols - 1 + Cardinality(Idle')
    OBVIOUS
  <2>1. loaded'[t] \in Nat
    BY <1>1 DEF TaskTypes
  <2> QED BY <1>4, <1>9, <2>1
<1>12. CursorNear'
  BY <1>1, <1>4, <1>5, <1>6, <1>7, <1>8, <1>9, <1>11 DEF CursorNear
<1>13. RowsKept' /\ LettersKept'
  BY <1>1 DEF Demonstration, RowsKept, LettersKept, InDemo
<1> QED BY <1>12, <1>13 DEF Demonstration

\* The step of a task that sets out: cursor_x is its column.
LEMMA DemonstrationStoreX ==
    ASSUME TaskTypes, display \in Screen(Char), Demonstration, NEW t \in Task, StoreX(t)
    PROVE  Demonstration'
<1>1. /\ owner = t /\ at[t] = "delay" /\ at' = [at EXCEPT ![t] = "y"]
      /\ UNCHANGED <<owner, loaded, col, cut>>
      /\ display' = [display EXCEPT !.x = col[t]]
  BY DEF StoreX, TaskGoes, Store
<1>2. /\ at \in [Task -> {"delay", "y", "row", "column", "cell", "x", "end"}]
      /\ col[t] \in 0..(DemoCols - 1)
  BY DEF TaskTypes
<1>3. /\ display'.x = col[t] /\ display'.y = display.y /\ display'.cells = display.cells
  BY <1>1 DEF Screen
<1>4. Cardinality(Idle') \in Nat /\ DemoCols \in Nat
  <2>1. Idle' \in SUBSET Task
    BY DEF Idle
  <2> QED BY <2>1, TasksAreFew, Sizes
<1>5. CursorNear'
  <2>1. display'.x <= DemoCols - 1 /\ display'.x <= DemoCols - 1 + Cardinality(Idle')
    BY <1>2, <1>3, <1>4
  <2>2. t \notin cut
    BY <1>1 DEF Demonstration, CursorNear
  <2>3. \A u \in Task : (at'[u] # "delay" /\ u # owner') => u \in cut'
    BY <1>1, <1>2 DEF Demonstration, CursorNear
  <2>4. \A u \in cut' : at'[u] # "delay"
    BY <1>1, <1>2, <2>2 DEF Demonstration, CursorNear
  <2>5. \A u \in Task : at'[u] = "end" => u # t /\ at[u] = "end"
    BY <1>1, <1>2
  <2>6. \A u \in Task : at'[u] = "end" =>
           ~(u = owner' /\ u \in cut') /\ loaded'[u] <= DemoCols - 1
    BY <1>1, <2>5 DEF Demonstration, CursorNear
  <2> QED BY <2>1, <2>3, <2>4, <2>6 DEF CursorNear
<1>6. RowsKept' /\ LettersKept'
  BY <1>1, <1>2, <1>3 DEF Demonstration, RowsKept, LettersKept, InDemo
<1> QED BY <1>5, <1>6 DEF Demonstration

\* A step of a task on its way that moves neither cursor_x nor the mark of an
\* interruption keeps the cursor where it was.
LEMMA CursorNearFrame ==
    ASSUME TaskTypes, CursorNear, NEW t \in Task, owner = t,
           NEW from, NEW to, from # "delay", to \notin {"delay", "end"}, at[t] = from,
           at' = [at EXCEPT ![t] = to], UNCHANGED <<owner, cut>>,
           display'.x = display.x, \A u \in Task : u # t => loaded'[u] = loaded[u]
    PROVE  CursorNear'
<1>1. at \in [Task -> {"delay", "y", "row", "column", "cell", "x", "end"}]
  BY DEF TaskTypes
<1>2. \A u \in Task : u # t => at'[u] = at[u]
  BY <1>1
<1>3. at'[t] = to
  BY <1>1
<1>4. Idle' = Idle
  BY <1>2, <1>3 DEF Idle
<1>5. \A u \in Task : at'[u] = "end" =>
         u # t /\ at[u] = "end" /\ loaded'[u] = loaded[u]
  BY <1>2, <1>3
<1>6. cut \subseteq Task
  BY DEF TaskTypes
<1> QED BY <1>2, <1>3, <1>4, <1>5, <1>6 DEF CursorNear

LEMMA DemonstrationStoreY ==
    ASSUME TaskTypes, display \in Screen(Char), Demonstration, NEW t \in Task, StoreY(t)
    PROVE  Demonstration'
<1>1. /\ owner = t /\ at[t] = "y" /\ at' = [at EXCEPT ![t] = "row"]
      /\ UNCHANGED <<owner, loaded, col, cut>>
      /\ display' = [display EXCEPT !.y = DemoRow[t]]
  BY DEF StoreY, TaskGoes, Store
<1>2. at \in [Task -> {"delay", "y", "row", "column", "cell", "x", "end"}]
  BY DEF TaskTypes
<1>3. display'.y = DemoRow[t] /\ display'.x = display.x /\ display'.cells = display.cells
  BY <1>1 DEF Screen
<1>4. CursorNear'
  BY <1>1, <1>3, CursorNearFrame DEF Demonstration
<1>5. RowsKept' /\ LettersKept'
  BY <1>1, <1>2, <1>3 DEF Demonstration, RowsKept, LettersKept, InDemo, DemoRows
<1> QED BY <1>4, <1>5 DEF Demonstration

LEMMA DemonstrationLoadRow ==
    ASSUME TaskTypes, display \in Screen(Char), Demonstration, NEW t \in Task, LoadRow(t)
    PROVE  Demonstration'
<1>1. /\ owner = t /\ at[t] = "row" /\ at' = [at EXCEPT ![t] = "column"]
      /\ UNCHANGED <<display, owner, col, cut>>
      /\ loaded' = [loaded EXCEPT ![t] = display.y]
  BY DEF LoadRow, TaskGoes, Load
<1>2. /\ at \in [Task -> {"delay", "y", "row", "column", "cell", "x", "end"}]
      /\ loaded \in [Task -> Nat]
  BY DEF TaskTypes
<1>3. CursorNear'
  <2>1. \A u \in Task : u # t => loaded'[u] = loaded[u]
    BY <1>1, <1>2
  <2> QED BY <1>1, <2>1, CursorNearFrame DEF Demonstration
<1>4. display.y \in DemoRows
  BY <1>1 DEF Demonstration, RowsKept
<1>5. RowsKept'
  BY <1>1, <1>2, <1>4 DEF Demonstration, RowsKept
<1>6. LettersKept'
  BY <1>1, <1>2 DEF Demonstration, LettersKept, InDemo
<1> QED BY <1>3, <1>5, <1>6 DEF Demonstration

\* The cell a task is about to store to is in the demonstration.
LEMMA DemonstrationLoadColumn ==
    ASSUME TaskTypes, display \in Screen(Char), Demonstration, NEW t \in Task, LoadColumn(t)
    PROVE  Demonstration'
<1>1. /\ owner = t /\ at[t] = "column" /\ at' = [at EXCEPT ![t] = "cell"]
      /\ UNCHANGED <<display, owner, col, cut>>
      /\ loaded' = [loaded EXCEPT ![t] = loaded[t] * VGA_COLS + display.x]
  BY DEF LoadColumn, TaskGoes, Load
<1>2. /\ at \in [Task -> {"delay", "y", "row", "column", "cell", "x", "end"}]
      /\ loaded \in [Task -> Nat] /\ loaded[t] \in 0..LastRow
  BY <1>1 DEF TaskTypes
<1>3. CursorNear'
  <2>1. \A u \in Task : u # t => loaded'[u] = loaded[u]
    BY <1>1, <1>2
  <2> QED BY <1>1, <2>1, CursorNearFrame DEF Demonstration
<1>4. loaded[t] \in DemoRows
  BY <1>1 DEF Demonstration, RowsKept
<1>5. display.x \in 0..(VGA_COLS - 1) /\ display.x < DemoCols + Cardinality(Task)
  <2>1. display.x \in 0..(VGA_COLS - 1)
    BY DEF Screen
  <2>2. display.x <= DemoCols - 1 + Cardinality(Idle)
    BY DEF Demonstration, CursorNear
  <2>3. /\ Cardinality(Idle) \in Nat /\ Cardinality(Idle) <= Cardinality(Task)
        /\ Cardinality(Task) \in Nat
    <3>1. Idle \in SUBSET Task /\ Task \in SUBSET Task
      BY DEF Idle
    <3> QED BY <3>1, TasksAreFew
  <2> QED BY <2>1, <2>2, <2>3, Sizes
<1>6. InDemo(loaded'[t])
  <2>1. loaded'[t] = loaded[t] * VGA_COLS + display.x
    BY <1>1, <1>2
  <2>2. loaded'[t] \div VGA_COLS = loaded[t] /\ loaded'[t] % VGA_COLS = display.x
    BY <1>2, <1>5, <2>1, RowColumn
  <2> QED BY <1>4, <1>5, <2>2 DEF InDemo
<1>7. RowsKept'
  BY <1>1, <1>2 DEF Demonstration, RowsKept
<1>8. LettersKept'
  <2>1. \A u \in Task : at'[u] = "cell" => InDemo(loaded'[u])
    BY <1>1, <1>2, <1>6 DEF Demonstration, LettersKept
  <2> QED BY <1>1, <2>1 DEF Demonstration, LettersKept, InDemo
<1> QED BY <1>3, <1>7, <1>8 DEF Demonstration

LEMMA DemonstrationStoreCell ==
    ASSUME TaskTypes, display \in Screen(Char), Demonstration, NEW t \in Task, StoreCell(t)
    PROVE  Demonstration'
<1>1. /\ owner = t /\ at[t] = "cell" /\ at' = [at EXCEPT ![t] = "x"]
      /\ UNCHANGED <<owner, loaded, col, cut>>
      /\ display' = [display EXCEPT !.cells[loaded[t]] = Letter[t]]
  BY DEF StoreCell, TaskGoes, Store
<1>2. /\ at \in [Task -> {"delay", "y", "row", "column", "cell", "x", "end"}]
      /\ loaded[t] \in Cells
  BY <1>1 DEF TaskTypes
<1>3. /\ display'.y = display.y /\ display'.x = display.x
      /\ display'.cells = [display.cells EXCEPT ![loaded[t]] = Letter[t]]
      /\ display.cells \in [Cells -> Char]
  BY <1>1 DEF Screen
<1>4. CursorNear'
  BY <1>1, <1>3, CursorNearFrame DEF Demonstration
<1>5. RowsKept'
  BY <1>1, <1>2, <1>3 DEF Demonstration, RowsKept
<1>6. LettersKept'
  <2>1. InDemo(loaded[t])
    BY <1>1 DEF Demonstration, LettersKept
  <2>2. \A k \in Cells : display'.cells[k] \in Letters => InDemo(k)
    <3> SUFFICES ASSUME NEW k \in Cells, display'.cells[k] \in Letters PROVE InDemo(k)
      OBVIOUS
    <3>1. k = loaded[t] \/ display'.cells[k] = display.cells[k]
      BY <1>2, <1>3
    <3> QED BY <2>1, <3>1 DEF Demonstration, LettersKept
  <2>3. \A u \in Task : at'[u] = "cell" => InDemo(loaded'[u])
    BY <1>1, <1>2 DEF Demonstration, LettersKept
  <2> QED BY <2>2, <2>3 DEF LettersKept, InDemo
<1> QED BY <1>4, <1>5, <1>6 DEF Demonstration

LEMMA DemonstrationLoadX ==
    ASSUME TaskTypes, display \in Screen(Char), Demonstration, NEW t \in Task, LoadX(t)
    PROVE  Demonstration'
<1>1. /\ owner = t /\ at[t] = "x" /\ at' = [at EXCEPT ![t] = "end"]
      /\ UNCHANGED <<display, owner, col, cut>>
      /\ loaded' = [loaded EXCEPT ![t] = display.x]
  BY DEF LoadX, TaskGoes, Load
<1>2. /\ at \in [Task -> {"delay", "y", "row", "column", "cell", "x", "end"}]
      /\ loaded \in [Task -> Nat] /\ cut \subseteq Task
  BY DEF TaskTypes
<1>3. Idle' = Idle
  BY <1>1, <1>2 DEF Idle
<1>4. \A u \in Task : u # t => at'[u] = at[u] /\ loaded'[u] = loaded[u]
  BY <1>1, <1>2
<1>5. at'[t] = "end" /\ loaded'[t] = display.x
  BY <1>1, <1>2
<1>6. CursorNear'
  <2>1. /\ display.x <= DemoCols - 1 + Cardinality(Idle)
        /\ \A u \in Task : (at[u] # "delay" /\ u # owner) => u \in cut
        /\ \A u \in cut : at[u] # "delay"
        /\ (owner \in Task \ cut /\ at[owner] # "delay") => display.x <= DemoCols - 1
        /\ \A u \in Task : at[u] = "end" =>
              IF u = owner /\ u \in cut THEN loaded[u] <= DemoCols - 1 + Cardinality(Idle)
              ELSE loaded[u] <= DemoCols - 1
    BY DEF Demonstration, CursorNear
  <2>2. \A u \in Task : (at'[u] # "delay" /\ u # owner') => u \in cut'
    BY <1>1, <1>4, <2>1
  <2>3. \A u \in cut' : at'[u] # "delay"
    BY <1>1, <1>2, <1>4, <1>5, <2>1
  <2>4. (owner' \in Task \ cut' /\ at'[owner'] # "delay") => display'.x <= DemoCols - 1
    BY <1>1, <2>1
  <2>5. \A u \in Task : at'[u] = "end" =>
           IF u = owner' /\ u \in cut' THEN loaded'[u] <= DemoCols - 1 + Cardinality(Idle')
           ELSE loaded'[u] <= DemoCols - 1
    BY <1>1, <1>3, <1>4, <1>5, <2>1
  <2> QED BY <1>1, <1>3, <2>1, <2>2, <2>3, <2>4, <2>5 DEF CursorNear
<1>7. RowsKept'
  BY <1>1, <1>4, <1>5 DEF Demonstration, RowsKept
<1>8. LettersKept'
  BY <1>1, <1>4, <1>5 DEF Demonstration, LettersKept, InDemo
<1> QED BY <1>6, <1>7, <1>8 DEF Demonstration

\* The row is never full: the next column is still on the screen.
LEMMA DemonstrationEnd ==
    ASSUME TaskTypes, display \in Screen(Char), Demonstration, NEW t \in Task, EndPrintAt(t)
    PROVE  Demonstration'
<1>1. /\ owner = t /\ at[t] = "end" /\ at' = [at EXCEPT ![t] = "delay"]
      /\ UNCHANGED owner /\ cut' = cut \ {t}
      /\ loaded' = [loaded EXCEPT ![t] = 0]
      /\ display' = Scrolled(Wrapped([display EXCEPT !.x = loaded[t] + 1]))
  BY DEF EndPrintAt, TaskGoes
<1>2. /\ at \in [Task -> {"delay", "y", "row", "column", "cell", "x", "end"}]
      /\ loaded \in [Task -> Nat] /\ cut \subseteq Task
  BY DEF TaskTypes
<1>3. /\ Idle' = Idle \cup {t} /\ t \notin Idle
      /\ Cardinality(Idle) \in Nat /\ Cardinality(Idle') = Cardinality(Idle) + 1
      /\ Cardinality(Idle') <= Cardinality(Task) /\ Cardinality(Task) \in Nat
  <2>1. Idle' = Idle \cup {t} /\ t \notin Idle
    BY <1>1, <1>2 DEF Idle
  <2>2. Idle \in SUBSET Task /\ Idle' \in SUBSET Task /\ Task \in SUBSET Task
    BY DEF Idle
  <2>3. /\ IsFiniteSet(Idle) /\ Cardinality(Idle) \in Nat
        /\ Cardinality(Idle') <= Cardinality(Task) /\ Cardinality(Task) \in Nat
    BY <2>2, TasksAreFew
  <2> QED BY <2>1, <2>3, FS_AddElement
<1>4. loaded[t] <= DemoCols - 1 + Cardinality(Idle) /\ loaded[t] \in Nat
  <2>1. IF t \in cut THEN loaded[t] <= DemoCols - 1 + Cardinality(Idle)
        ELSE loaded[t] <= DemoCols - 1
    BY <1>1 DEF Demonstration, CursorNear
  <2> QED BY <1>2, <1>3, <2>1, Sizes
<1>5. loaded[t] + 1 < VGA_COLS
  BY <1>3, <1>4, Sizes, DemoAssumption
<1>6. display' = [display EXCEPT !.x = loaded[t] + 1]
  <2>1. PICK d : d = [display EXCEPT !.x = loaded[t] + 1]
    OBVIOUS
  <2>2. d.x = loaded[t] + 1 /\ d.y = display.y /\ display.y \in 0..LastRow
    BY <2>1 DEF Screen
  <2>3. Wrapped(d) = d
    BY <1>4, <1>5, <2>2, Sizes DEF Wrapped
  <2>4. Scrolled(d) = d
    BY <2>2, Sizes DEF Scrolled, LastRow
  <2> QED BY <1>1, <2>1, <2>3, <2>4
<1>7. /\ display'.x = loaded[t] + 1 /\ display'.y = display.y
      /\ display'.cells = display.cells
  BY <1>6 DEF Screen
<1>8. \A u \in Task : u # t => at'[u] = at[u] /\ loaded'[u] = loaded[u]
  BY <1>1, <1>2
<1>9. at'[t] = "delay"
  BY <1>1, <1>2
<1>10. CursorNear'
  <2>1. display'.x <= DemoCols - 1 + Cardinality(Idle')
    BY <1>3, <1>4, <1>7, Sizes
  <2>2. \A u \in Task : (at'[u] # "delay" /\ u # owner') => u \in cut'
    BY <1>1, <1>8 DEF Demonstration, CursorNear
  <2>3. \A u \in cut' : at'[u] # "delay"
    BY <1>1, <1>2, <1>8 DEF Demonstration, CursorNear
  <2>4. ~(owner' \in Task \ cut' /\ at'[owner'] # "delay")
    BY <1>1, <1>9
  <2>5. \A u \in Task : at'[u] = "end" => u # t /\ loaded'[u] <= DemoCols - 1
    BY <1>1, <1>8, <1>9 DEF Demonstration, CursorNear
  <2> QED BY <1>1, <2>1, <2>2, <2>3, <2>4, <2>5 DEF CursorNear
<1>11. RowsKept'
  BY <1>7, <1>8, <1>9 DEF Demonstration, RowsKept
<1>12. LettersKept'
  BY <1>7, <1>8, <1>9 DEF Demonstration, LettersKept, InDemo
<1> QED BY <1>10, <1>11, <1>12 DEF Demonstration

LEMMA DemoInit ==
    ASSUME TerminalInit
    PROVE  DemoInv
<1>1. /\ pc = "esperar_tecla" /\ blocked = {} /\ cut = {} /\ display = Blank
      /\ at = [t \in Task |-> "delay"]
  BY DEF TerminalInit
<1>2. Alone
  BY <1>1 DEF Alone, Demo
<1>3. Cardinality(Idle) \in Nat
  <2>1. Idle \in SUBSET Task
    BY DEF Idle
  <2> QED BY <2>1, TasksAreFew
<1>4. CursorNear
  BY <1>1, <1>3, Sizes DEF CursorNear, Blank
<1>5. RowsKept
  BY <1>1 DEF RowsKept
<1>6. Space \notin Letters
  BY PlainAlphabet DEF Alphabet, Plain
<1>7. LettersKept
  <2>1. \A k \in Cells : display.cells[k] = Space
    BY <1>1 DEF Blank
  <2> QED BY <1>1, <1>6, <2>1 DEF LettersKept
<1>8. pc \in Demo
  BY <1>1 DEF Demo
<1> QED BY <1>2, <1>4, <1>5, <1>7, <1>8, TypesInit DEF DemoInv, Demonstration

LEMMA AloneStep ==
    ASSUME TaskTypes, LineTypes, Alone, [TerminalNext]_tvars
    PROVE  Alone'
<1>1. CASE Tick
  <2>1. UNCHANGED <<blocked, pc>> /\ owner' \in (Task \ blocked) \cup {Shell}
    BY <1>1 DEF Tick
  <2>2. Shell \notin Task
    BY Sizes
  <2> QED BY <2>1, <2>2 DEF Alone
<1>2. CASE \E t \in Task : TaskStep(t)
  <2>1. UNCHANGED <<blocked, pc>>
    BY <1>2, TaskStepFrame
  <2>2. UNCHANGED owner
    BY <1>2 DEF TaskStep, StoreX, StoreY, LoadRow, LoadColumn, StoreCell, LoadX,
                EndPrintAt, TaskGoes
  <2> QED BY <2>1, <2>2 DEF Alone
<1>3. CASE ShellStep
  <2>1. owner' = owner
    BY <1>3, ShellStepFrame
  <2>2. CASE process_block_others
    <3>1. owner = Shell /\ pc = "block_others" /\ pc' = "block_others" /\ Shell \notin Task
      BY <2>2, Sizes DEF process_block_others, ShellGoes
    <3> QED BY <2>1, <3>1 DEF Alone, Demo
  <2>3. CASE BlockingDone
    <3>1. blocked' = blocked /\ blocked = Task
      BY <2>3 DEF BlockingDone
    <3> QED BY <2>1, <3>1 DEF Alone
  <2>4. CASE ~process_block_others /\ ~BlockingDone
    <3>1. blocked' = blocked
      BY <1>3, <2>4, ShellStepBlocks
    <3>2. pc \in Demo => pc' \in Demo
      BY <1>3, <2>4 DEF ShellStep, KeyArrives, esperar_tecla,
         Prompt, Ignored, Erase, Echo, LineEnds, LoopEnds, EmptyCommand, Command,
         RunSuma, FirstNumber, PrintSum, SYS_EXIT, NextCode, ShellGoes, Demo, Reading
    <3> QED BY <2>1, <3>1, <3>2 DEF Alone
  <2> QED BY <2>2, <2>3, <2>4
<1>4. CASE UNCHANGED tvars
  BY <1>4 DEF tvars, Alone
<1> QED BY <1>1, <1>2, <1>3, <1>4, NextIs

LEMMA DemoStep ==
    ASSUME DemoInv, [TerminalNext]_tvars
    PROVE  DemoInv'
<1>1. TerminalTypes /\ TaskTypes /\ LineTypes /\ display \in Screen(Char) /\ Alone
      /\ (pc \in Demo => Demonstration) /\ (pc \notin Demo => display \in Screen(Plain))
  BY DEF DemoInv, TerminalTypes
<1>2. TerminalTypes' /\ Alone'
  BY <1>1, TypesStep, AloneStep
<1>3. CASE Tick
  <2>1. UNCHANGED <<pc, display>>
    BY <1>3 DEF Tick
  <2> QED BY <1>1, <1>2, <1>3, <2>1, DemonstrationTick DEF DemoInv
<1>4. CASE \E t \in Task : TaskStep(t)
  <2>1. PICK t \in Task : TaskStep(t)
    BY <1>4
  <2>2. pc' = pc
    BY <1>4, TaskStepFrame
  <2>3. owner = t
    BY <2>1 DEF TaskStep, StoreX, StoreY, LoadRow, LoadColumn, StoreCell, LoadX,
                EndPrintAt, TaskGoes
  <2>4. pc \in Demo
    BY <1>1, <2>3 DEF Alone
  <2>5. Demonstration'
    BY <1>1, <2>1, <2>4, DemonstrationStoreX, DemonstrationStoreY, DemonstrationLoadRow,
       DemonstrationLoadColumn, DemonstrationStoreCell, DemonstrationLoadX,
       DemonstrationEnd DEF TaskStep
  <2> QED BY <1>2, <2>2, <2>4, <2>5 DEF DemoInv
<1>5. CASE ShellStep
  <2>1. CASE pc \in Demo /\ ~BlockingDone
    <3>1. UNCHANGED <<display, owner, at, loaded, cut>> /\ pc' \in Demo
      BY <1>5, <2>1, ShellStepFrame
         DEF ShellStep, KeyArrives, esperar_tecla, process_block_others,
         Prompt, Ignored, Erase, Echo, LineEnds, LoopEnds, EmptyCommand, Command,
         RunSuma, FirstNumber, PrintSum, SYS_EXIT, NextCode, ShellGoes, Demo, Reading
    <3> QED BY <1>1, <1>2, <2>1, <3>1, DemonstrationFrame DEF DemoInv
  <2>2. CASE pc \notin Demo \/ BlockingDone
    <3>1. display' \in Screen(Plain)
      BY <1>1, <1>5, <2>2, PlainAlphabet, ShellStepScreen
    <3>2. pc' \notin Demo
      BY <1>5, <2>2
         DEF ShellStep, KeyArrives, esperar_tecla, process_block_others, BlockingDone,
         Prompt, Ignored, Erase, Echo, LineEnds, LoopEnds, EmptyCommand, Command,
         RunSuma, FirstNumber, PrintSum, SYS_EXIT, NextCode, ShellGoes, Demo, Reading
    <3> QED BY <1>2, <3>1, <3>2 DEF DemoInv
  <2> QED BY <2>1, <2>2
<1>6. CASE UNCHANGED tvars
  <2>1. UNCHANGED <<display, owner, at, loaded, cut, pc>>
    BY <1>6 DEF tvars, taskVars
  <2> QED BY <1>1, <1>2, <2>1, DemonstrationFrame DEF DemoInv
<1> QED BY <1>3, <1>4, <1>5, <1>6, NextIs

LEMMA DemoInvHolds == TerminalSpec => []DemoInv
<1> QED BY DemoInit, DemoStep, PTL DEF TerminalSpec

\* DemoInItsRows: however the tasks are interrupted between the stores of
\* vga_print_at, every letter is in a row of the demonstration and at most a
\* column further right per task, and none is left when the shell has cleared
\* the screen (vga.c 52-85, kernel.c 53-84, shell.c 101-109).
THEOREM LettersInTheirRows == TerminalSpec => []DemoInItsRows
<1>1. DemoInv => DemoInItsRows
  <2> SUFFICES ASSUME DemoInv, NEW k \in Cells, display.cells[k] \in Letters
               PROVE  /\ pc \in {"esperar_tecla", "block_others"}
                      /\ k \div VGA_COLS \in {DemoRow[t] : t \in Task}
                      /\ k % VGA_COLS < DemoCols + Cardinality(Task)
    BY DEF DemoInItsRows
  <2>1. pc \in Demo
    BY DEF DemoInv, Screen, Plain
  <2>2. InDemo(k)
    BY <2>1 DEF DemoInv, Demonstration, LettersKept
  <2> QED BY <2>1, <2>2 DEF InDemo, DemoRows, Demo
<1> QED BY <1>1, DemoInvHolds, PTL

-----------------------------------------------------------------------------
(* The line that is read, and what is seen of it.                          *)

\* The characters of the first n scancodes.
Upto(codes, f) ==
    f = [n \in 0..Len(codes) |->
            IF n = 0 THEN <<>> ELSE f[n - 1] \o Mapped(codes[n])]

LEMMA UptoExists ==
    ASSUME NEW S, NEW codes \in Seq(S)
    PROVE  \E f : Upto(codes, f)
<1>1. PICK N \in Nat : N = Len(codes)
  OBVIOUS
<1> DEFINE First(m, f) == f = [n \in 0..m |->
                                 IF n = 0 THEN <<>> ELSE f[n - 1] \o Mapped(codes[n])]
<1> DEFINE W == {m \in 0..N : \E f : First(m, f)}
<1>2. 0 \in W
  <2> DEFINE f == [n \in 0..0 |-> <<>>]
  <2>1. 0 \in 0..N /\ First(0, f)
    BY <1>1
  <2> QED BY <2>1
<1>3. ASSUME NEW m \in 0..(N - 1), m \in W PROVE m + 1 \in W
  <2>1. PICK f : First(m, f)
    BY <1>3
  <2>2. m + 1 \in 0..N
    BY <1>1
  <2> DEFINE g == [n \in 0..(m + 1) |->
                      IF n <= m THEN f[n] ELSE f[m] \o Mapped(codes[m + 1])]
  <2>3. \A n \in 0..m : g[n] = f[n]
    BY <1>1
  <2>4. \A n \in 0..(m + 1) :
          g[n] = IF n = 0 THEN <<>> ELSE g[n - 1] \o Mapped(codes[n])
    BY <1>1, <2>1, <2>3
  <2>5. First(m + 1, g)
    BY <1>1, <2>4
  <2> QED BY <2>2, <2>5
<1>4. N \in W
  <2> HIDE DEF W
  <2>1. \A n \in 0..N : n \in W
    BY <1>1, <1>2, <1>3, IntervalInduction
  <2> QED BY <1>1, <2>1
<1> QED BY <1>1, <1>4 DEF Upto

LEMMA CharactersAreUpto ==
    ASSUME NEW S, NEW codes \in Seq(S)
    PROVE  \E f : Upto(codes, f) /\ Characters(codes) = f[Len(codes)]
<1>1. PICK f : Upto(codes, f)
  BY UptoExists
<1>2. Upto(codes, CHOOSE g : Upto(codes, g))
  <2> HIDE DEF Upto
  <2> QED BY <1>1, Zenon
<1>3. Characters(codes) = (CHOOSE g : Upto(codes, g))[Len(codes)]
  BY DEF Characters, Upto
<1> QED BY <1>2, <1>3

LEMMA UptoType ==
    ASSUME NEW S, NEW codes \in Seq(S), NEW f, Upto(codes, f), NEW n \in 0..Len(codes)
    PROVE  f[n] \in Seq(S)
<1>1. PICK N \in Nat : N = Len(codes)
  OBVIOUS
<1> DEFINE W == {m \in 0..N : f[m] \in Seq(S)}
<1>2. 0 \in W
  <2>1. 0 \in 0..N
    BY <1>1
  <2>2. f[0] = <<>>
    BY <1>1, <2>1, Zenon DEF Upto
  <2>3. f[0] \in Seq(S)
    BY <2>2
  <2> QED BY <2>1, <2>3
<1>3. ASSUME NEW m \in 0..(N - 1), m \in W PROVE m + 1 \in W
  <2>1. f[m + 1] = f[m] \o Mapped(codes[m + 1]) /\ codes[m + 1] \in S
    <3>1. m + 1 \in 0..Len(codes) /\ m + 1 # 0 /\ (m + 1) - 1 = m /\ m + 1 \in 1..Len(codes)
      BY <1>1
    <3>2. f[m + 1] = f[m] \o Mapped(codes[m + 1])
      BY <3>1, Zenon DEF Upto
    <3> QED BY <3>1, <3>2
  <2>2. f[m] \in Seq(S) /\ Mapped(codes[m + 1]) \in Seq(S)
    BY <1>3, <2>1 DEF Mapped
  <2>3. f[m + 1] \in Seq(S) /\ m + 1 \in 0..N
    BY <1>1, <2>1, <2>2
  <2> QED BY <2>3
<1>4. n \in W
  <2> HIDE DEF W
  <2> QED BY <1>1, <1>2, <1>3, IntervalInduction
<1> QED BY <1>4

LEMMA MappedType ==
    ASSUME NEW S, NEW c \in S
    PROVE  Mapped(c) \in Seq(S)
  BY DEF Mapped

LEMMA CharactersType ==
    ASSUME NEW S, NEW codes \in Seq(S)
    PROVE  Characters(codes) \in Seq(S)
<1>1. Len(codes) \in 0..Len(codes)
  OBVIOUS
<1> QED BY <1>1, CharactersAreUpto, UptoType

\* One scancode more, and one less.
LEMMA CharactersOfNothing == Characters(<<>>) = <<>>
<1>1. <<>> \in Seq({}) /\ Len(<<>>) = 0
  BY EmptySeq
<1>2. PICK f : Upto(<<>>, f) /\ Characters(<<>>) = f[0]
  BY <1>1, CharactersAreUpto
<1> QED BY <1>1, <1>2 DEF Upto

LEMMA CharactersAppend ==
    ASSUME NEW S, NEW codes \in Seq(S), NEW c \in S
    PROVE  Characters(Append(codes, c)) = Characters(codes) \o Mapped(c)
<1>1. PICK N \in Nat : N = Len(codes)
  OBVIOUS
<1>2. PICK more \in Seq(S) : more = Append(codes, c)
  <2>1. Append(codes, c) \in Seq(S)
    OBVIOUS
  <2> QED BY <2>1
<1>3. /\ Len(more) = N + 1 /\ more[N + 1] = c
      /\ \A n \in 1..N : more[n] = codes[n]
  BY <1>1, <1>2
<1>4. PICK f : Upto(codes, f) /\ Characters(codes) = f[N]
  BY <1>1, CharactersAreUpto
<1>5. PICK g : Upto(more, g) /\ Characters(more) = g[N + 1]
  BY <1>3, CharactersAreUpto
<1> DEFINE W == {n \in 0..N : g[n] = f[n]}
<1>6. 0 \in W
  <2>1. 0 \in 0..N /\ 0 \in 0..Len(codes) /\ 0 \in 0..Len(more)
    BY <1>1, <1>3
  <2>2. f[0] = <<>>
    BY <1>4, <2>1, Zenon DEF Upto
  <2>3. g[0] = <<>>
    BY <1>5, <2>1, Zenon DEF Upto
  <2> QED BY <2>1, <2>2, <2>3
<1>7. ASSUME NEW n \in 0..(N - 1), n \in W PROVE n + 1 \in W
  <2>1. f[n + 1] = f[n] \o Mapped(codes[n + 1])
    <3>1. n + 1 \in 0..Len(codes) /\ n + 1 # 0 /\ (n + 1) - 1 = n
      BY <1>1
    <3> QED BY <1>4, <3>1 DEF Upto
  <2>2. g[n + 1] = g[n] \o Mapped(more[n + 1])
    <3>1. n + 1 \in 0..Len(more) /\ n + 1 # 0 /\ (n + 1) - 1 = n
      BY <1>1, <1>3
    <3> QED BY <1>5, <3>1, Zenon DEF Upto
  <2>3. more[n + 1] = codes[n + 1] /\ n + 1 \in 0..N
    BY <1>1, <1>3
  <2> QED BY <1>7, <2>1, <2>2, <2>3
<1>8. g[N] = f[N]
  <2> HIDE DEF W
  <2>1. N \in W
    <3>1. \A n \in 0..N : n \in W
      BY <1>1, <1>6, <1>7, IntervalInduction
    <3> QED BY <1>1, <3>1
  <2> QED BY <2>1 DEF W
<1>9. g[N + 1] = g[N] \o Mapped(c)
  <2>1. N + 1 \in 0..Len(more) /\ N + 1 # 0 /\ (N + 1) - 1 = N
    BY <1>1, <1>3
  <2>2. g[N + 1] = g[N] \o Mapped(more[N + 1])
    BY <1>5, <2>1, Zenon DEF Upto
  <2> QED BY <1>3, <2>2
<1> QED BY <1>2, <1>4, <1>5, <1>8, <1>9

\* ConcatAssociative, for sequences that are known by their names.
LEMMA Regroup ==
    ASSUME NEW S, NEW h \in Seq(S), NEW a \in Seq(S), NEW b \in Seq(S)
    PROVE  (h \o a) \o b = h \o (a \o b)
BY ConcatAssociative

LEMMA CharactersHead ==
    ASSUME NEW S, NEW codes \in Seq(S), codes # <<>>
    PROVE  Characters(codes) = Mapped(Head(codes)) \o Characters(Tail(codes))
<1>1. PICK N \in Nat : N + 1 = Len(codes)
  <2>1. Len(codes) - 1 \in Nat /\ (Len(codes) - 1) + 1 = Len(codes)
    BY EmptySeq
  <2> QED BY <2>1
<1>2. PICK rest \in Seq(S) : rest = Tail(codes)
  BY HeadTailProperties
<1>3. Len(rest) = N /\ \A n \in 1..N : rest[n] = codes[n + 1]
  BY <1>1, <1>2, HeadTailProperties
<1>4. PICK f : Upto(codes, f) /\ Characters(codes) = f[N + 1]
  BY <1>1, CharactersAreUpto
<1>5. PICK g : Upto(rest, g) /\ Characters(rest) = g[N]
  BY <1>3, CharactersAreUpto
<1>6. PICK h \in Seq(S) : h = Mapped(codes[1]) /\ codes[1] = Head(codes)
  <2>1. codes[1] \in S /\ codes[1] = Head(codes)
    BY <1>1
  <2> QED BY <2>1, MappedType
<1> DEFINE W == {n \in 0..N : f[n + 1] = h \o g[n]}
<1>7. 0 \in W
  <2>1. /\ 0 \in 0..Len(codes) /\ 1 \in 0..Len(codes) /\ 1 # 0 /\ 1 - 1 = 0
        /\ 0 \in 0..Len(rest) /\ 0 + 1 = 1
    BY <1>1, <1>3
  <2>2. f[0] = <<>> /\ f[1] = f[0] \o Mapped(codes[1])
    BY <1>4, <2>1, Zenon DEF Upto
  <2>3. g[0] = <<>>
    BY <1>5, <2>1, Zenon DEF Upto
  <2>4. <<>> \o h = h /\ h \o <<>> = h
    BY <1>6, ConcatEmptySeq
  <2>5. f[1] = h \o g[0]
    BY <1>6, <2>2, <2>3, <2>4
  <2> QED BY <1>1, <2>1, <2>5
<1>8. ASSUME NEW n \in 0..(N - 1), n \in W PROVE n + 1 \in W
  <2>1. f[n + 2] = f[n + 1] \o Mapped(codes[n + 2])
    <3>1. n + 2 \in 0..Len(codes) /\ n + 2 # 0 /\ (n + 2) - 1 = n + 1
      BY <1>1
    <3> QED BY <1>4, <3>1 DEF Upto
  <2>2. g[n + 1] = g[n] \o Mapped(rest[n + 1])
    <3>1. n + 1 \in 0..Len(rest) /\ n + 1 # 0 /\ (n + 1) - 1 = n
      BY <1>3
    <3> QED BY <1>5, <3>1, Zenon DEF Upto
  <2>3. rest[n + 1] = codes[n + 2] /\ codes[n + 2] \in S /\ n + 1 \in 0..N
    BY <1>1, <1>3
  <2>4. g[n] \in Seq(S)
    BY <1>1, <1>3, <1>5, UptoType
  <2>5. PICK a \in Seq(S), b \in Seq(S) : a = g[n] /\ b = Mapped(codes[n + 2])
    BY <2>3, <2>4, MappedType
  <2>6. (h \o a) \o b = h \o (a \o b)
    BY Regroup
  <2>7. f[n + 2] = h \o g[n + 1]
    <3>1. f[n + 1] = h \o a
      BY <1>8, <2>5
    <3>2. f[n + 2] = (h \o a) \o b
      BY <2>1, <2>5, <3>1
    <3>3. g[n + 1] = a \o b
      BY <2>2, <2>3, <2>5
    <3> QED BY <2>6, <3>2, <3>3
  <2>8. (n + 1) + 1 = n + 2
    BY <1>1
  <2> QED BY <2>3, <2>7, <2>8
<1>9. f[N + 1] = h \o g[N]
  <2> HIDE DEF W
  <2>1. N \in W
    <3>1. \A n \in 0..N : n \in W
      BY <1>1, <1>7, <1>8, IntervalInduction
    <3> QED BY <1>1, <3>1
  <2> QED BY <2>1 DEF W
<1> QED BY <1>2, <1>4, <1>5, <1>6, <1>9

\* What was typed is what was read, and then what is still in the keyboard.
TypedInv ==
    \E read \in Seq(Scancodes) : typed = read \o Characters(keyboard)

\* What asks for the line that is read.
Question ==
    Last(Text[CASE pc = "line" -> "prompt"
                [] pc = "first" -> "ask"
                [] pc = "second" -> "again"])

Plainly(s) == \A k \in DOMAIN s : s[k] \notin {"BS", "\t"}

LineSeen ==
    /\ Position(display) > i
    /\ Back(display, i) = Question
    /\ \A k \in 0..(i - 1) : Back(display, i - 1 - k) = buf[k]

EchoInv ==
    /\ DemoInv
    /\ TypedInv
    /\ Reading /\ Plainly(Consumed) => LineSeen

\* Consumed is what was read.
LEMMA ConsumedIs ==
    ASSUME NEW S, NEW read \in Seq(S), NEW rest \in Seq(S),
           NEW all, all = read \o rest
    PROVE  SubSeq(all, 1, Len(all) - Len(rest)) = read
<1>1. all \in Seq(S) /\ Len(all) = Len(read) + Len(rest)
  BY ConcatProperties
<1>2. \A k \in 1..Len(read) : all[k] = read[k]
  BY ConcatProperties
<1>3. PICK n \in Nat : n = Len(read)
  OBVIOUS
<1>4. PICK part : part = SubSeq(all, 1, n)
  OBVIOUS
<1>5. n <= Len(all) /\ Len(all) \in Nat
  BY <1>1, <1>3
<1>6. part \in Seq(S) /\ Len(part) = n /\ \A k \in 1..n : part[k] = all[k]
  <2>1. PICK m \in Int : m = 1
    OBVIOUS
  <2>2. m \in Int /\ n \in Int /\ \A k \in m..n : all[k] \in S
    BY <1>1, <1>3, <1>5, <2>1
  <2>3. /\ SubSeq(all, m, n) \in Seq(S)
        /\ Len(SubSeq(all, m, n)) = IF m <= n THEN n - m + 1 ELSE 0
    BY <2>2, SubSeqProperties
  <2>5. \A k \in 1..n : part[k] = all[k]
    BY <1>1, <1>3, <1>4, <1>5
  <2>6. Len(part) = n
    BY <1>4, <2>1, <2>3
  <2> QED BY <1>4, <2>1, <2>3, <2>5, <2>6
<1>7. Len(part) = Len(read) /\ \A k \in 1..Len(part) : part[k] = read[k]
  BY <1>2, <1>3, <1>6
<1>8. part = read
  BY <1>6, <1>7, SeqEqual
<1>9. Len(all) - Len(rest) = n
  BY <1>1, <1>3
<1> QED BY <1>4, <1>8, <1>9

LEMMA SeenGivesShown ==
    ASSUME EchoInv
    PROVE  EchoShowsLine
<1> SUFFICES ASSUME Reading, \A k \in DOMAIN Consumed : Consumed[k] \notin {"BS", "\t"}
             PROVE  ShowsLine
  BY DEF EchoShowsLine
<1>1. LineSeen
  BY DEF EchoInv, Plainly
<1>2. /\ i \in Nat /\ i < LineMax /\ LineMax \in Nat
      /\ buf \in [0..(LineMax - 1) -> Char]
  BY Sizes DEF EchoInv, DemoInv, TerminalTypes, LineTypes, Reading, LineMax, ShellPc, ProgramPc
<1>3. display \in Screen(Char) /\ Position(display) \in Nat
  <2>1. display \in Screen(Char)
    BY DEF EchoInv, DemoInv, TerminalTypes
  <2>2. Position(display) \in Cells
    BY <2>1, RowColumn DEF Position, Screen
  <2> QED BY <2>1, <2>2 DEF Cells
<1>4. PICK p \in Nat : p = Position(display)
  BY <1>3
<1>5. p > i /\ display.cells[p - 1 - i] = Question
      /\ \A k \in 0..(i - 1) : display.cells[p - 1 - (i - 1 - k)] = buf[k]
  BY <1>1, <1>4 DEF LineSeen, Back
<1>6. PICK line \in Seq(Char) : line = [k \in 1..i |-> buf[k - 1]] /\ Len(line) = i
  <2>1. [k \in 1..i |-> buf[k - 1]] \in [1..i -> Char]
    BY <1>2
  <2>2. [k \in 1..i |-> buf[k - 1]] \in Seq(Char)
    BY <1>2, <2>1, SeqDef
  <2> QED BY <1>2, <2>2
<1>7. p - 1 - i \in Cells
  <2>1. p \in Cells
    BY <1>3, <1>4, RowColumn DEF Position, Screen
  <2> QED BY <1>2, <1>5, <2>1, EarlierCell
<1>8. Question \in Char
  BY <1>3, <1>5, <1>7 DEF Screen
<1>9. PICK asked \in Seq(Char) : asked = <<Question>> /\ Len(asked) = 1 /\ asked[1] = Question
  <2>1. <<Question>> \in Seq(Char)
    BY <1>8
  <2> QED BY <2>1
<1>10. /\ asked \o line \in Seq(Char) /\ Len(asked \o line) = i + 1
       /\ \A k \in 1..(i + 1) :
             (asked \o line)[k] = IF k <= 1 THEN Question ELSE line[k - 1]
  <2>1. /\ asked \o line \in Seq(Char) /\ Len(asked \o line) = Len(asked) + Len(line)
        /\ \A k \in 1..(Len(asked) + Len(line)) :
              (asked \o line)[k] = IF k <= Len(asked) THEN asked[k] ELSE line[k - Len(asked)]
    BY ConcatProperties
  <2>2. Len(asked) + Len(line) = i + 1
    BY <1>2, <1>6, <1>9
  <2>3. \A k \in 1..(i + 1) : k <= 1 => k = 1
    BY <1>2
  <2> QED BY <1>9, <2>1, <2>2, <2>3
<1>11. PICK shown : shown = BeforeCursor(display, i + 1)
  OBVIOUS
<1>12. shown = [k \in 1..(i + 1) |-> display.cells[p - (i + 1) + k - 1]]
  BY <1>4, <1>11 DEF BeforeCursor
<1>13. ASSUME NEW k \in 1..(i + 1) PROVE shown[k] = (asked \o line)[k]
  <2>1. CASE k = 1
    <3>1. p - (i + 1) + k - 1 = p - 1 - i
      BY <1>2, <2>1
    <3> QED BY <1>5, <1>10, <1>12, <2>1, <3>1
  <2>2. CASE k # 1
    <3>1. PICK j \in 0..(i - 1) : j = k - 2
      <4>1. k - 2 \in 0..(i - 1)
        BY <1>2, <2>2
      <4> QED BY <4>1
    <3>2. p - (i + 1) + k - 1 = p - 1 - (i - 1 - j)
      BY <1>2, <3>1
    <3>3. shown[k] = buf[j]
      BY <1>5, <1>12, <3>2
    <3>4. k - 1 \in 1..i /\ (k - 1) - 1 = j /\ ~(k <= 1)
      BY <1>2, <2>2, <3>1
    <3>5. line[k - 1] = buf[j]
      BY <1>6, <3>4
    <3> QED BY <1>10, <3>3, <3>4, <3>5
  <2> QED BY <2>1, <2>2
<1>14. shown \in Seq(Char) /\ Len(shown) = i + 1
  <2>1. \A k \in 1..(i + 1) : shown[k] \in Char
    <3>1. \A k \in 1..Len(asked \o line) : (asked \o line)[k] \in Char
      BY <1>10
    <3> QED BY <1>10, <1>13, <3>1
  <2>2. shown \in [1..(i + 1) -> Char] /\ i + 1 \in Nat
    <3>1. shown = [k \in 1..(i + 1) |-> shown[k]]
      BY <1>12
    <3> QED BY <1>2, <2>1, <3>1
  <2>3. shown \in Seq(Char)
    BY <2>2, SeqDef
  <2> QED BY <2>2, <2>3
<1>15. shown = asked \o line
  BY <1>10, <1>13, <1>14, SeqEqual
<1> QED BY <1>6, <1>9, <1>11, <1>15 DEF ShowsLine, Question

\* What was read grows by the character that is read, or a new line begins.
LEMMA TypedStep ==
    ASSUME LineTypes, [TerminalNext]_tvars,
           NEW read \in Seq(Scancodes), typed = read \o Characters(keyboard)
    PROVE  \E later \in Seq(Scancodes) :
              /\ typed' = later \o Characters(keyboard')
              /\ NextCode => later = read \o Mapped(Head(keyboard))
              /\ ~NextCode => later = read \/ (later = <<>> /\ ~Reading')
<1>1. keyboard \in Seq(Scancodes) /\ <<>> \in Seq(Scancodes)
  BY EmptySeq DEF LineTypes
<1>2. PICK rest \in Seq(Scancodes) : rest = Characters(keyboard)
  BY <1>1, CharactersType
<1>3. CASE NextCode
  <2>1. keyboard # <<>> /\ keyboard' = Tail(keyboard) /\ typed' = typed
    BY <1>3 DEF NextCode
  <2>2. Head(keyboard) \in Scancodes /\ Tail(keyboard) \in Seq(Scancodes)
    BY <1>1, <2>1, HeadTailProperties
  <2>3. PICK a \in Seq(Scancodes), b \in Seq(Scancodes) :
          a = Mapped(Head(keyboard)) /\ b = Characters(Tail(keyboard))
    BY <2>2, MappedType, CharactersType
  <2>4. rest = a \o b
    BY <1>1, <1>2, <2>1, <2>3, CharactersHead
  <2>5. (read \o a) \o b = read \o (a \o b) /\ read \o a \in Seq(Scancodes)
    BY ConcatAssociative, ConcatProperties
  <2>6. typed' = (read \o a) \o Characters(keyboard')
    BY <1>2, <2>1, <2>3, <2>4, <2>5
  <2> QED BY <1>3, <2>3, <2>5, <2>6
<1>4. CASE ~NextCode /\ KeyArrives
  <2>1. PICK sc \in Scancodes :
          keyboard' = Append(keyboard, sc) /\ typed' = typed \o Mapped(sc)
    BY <1>4 DEF KeyArrives
  <2>2. PICK a \in Seq(Scancodes) : a = Mapped(sc)
    BY MappedType
  <2>3. Characters(keyboard') = rest \o a
    BY <1>1, <1>2, <2>1, <2>2, CharactersAppend
  <2>4. (read \o rest) \o a = read \o (rest \o a)
    BY ConcatAssociative
  <2>5. typed' = read \o Characters(keyboard')
    BY <1>2, <2>1, <2>2, <2>3, <2>4
  <2> QED BY <1>4, <2>5
<1>5. CASE ~NextCode /\ (esperar_tecla \/ LineEnds)
  <2>1. typed' = Characters(keyboard')
    BY <1>5 DEF esperar_tecla, LineEnds, LoopEnds
  <2>2. ~Reading'
    BY <1>5 DEF esperar_tecla, LineEnds, LoopEnds, ShellGoes, Reading
  <2>3. keyboard' \in Seq(Scancodes)
    <3>1. keyboard # <<>> => Tail(keyboard) \in Seq(Scancodes)
      BY <1>1, HeadTailProperties
    <3> QED BY <1>1, <1>5, <3>1 DEF esperar_tecla, LineEnds, LoopEnds
  <2>4. typed' = <<>> \o Characters(keyboard')
    <3>1. PICK a \in Seq(Scancodes) : a = Characters(keyboard')
      BY <2>3, CharactersType
    <3>2. <<>> \o a = a
      BY ConcatEmptySeq
    <3> QED BY <2>1, <3>1, <3>2
  <2> QED BY <1>1, <1>5, <2>2, <2>4
<1>6. CASE ~NextCode /\ ~KeyArrives /\ ~esperar_tecla /\ ~LineEnds
  <2>1. UNCHANGED <<keyboard, typed>>
    <3>1. CASE UNCHANGED tvars
      BY <3>1 DEF tvars, lineVars
    <3>2. CASE Tick \/ \E t \in Task : TaskStep(t)
      BY <3>2, TaskStepFrame
    <3>3. CASE ShellStep
      BY <1>6, <3>3
         DEF ShellStep, process_block_others, BlockingDone, Prompt, Ignored, Erase, Echo,
             EmptyCommand, Command, RunSuma, FirstNumber, PrintSum, SYS_EXIT, lineVars
    <3> QED BY <3>1, <3>2, <3>3, NextIs
  <2> QED BY <1>6, <2>1
<1> QED BY <1>3, <1>4, <1>5, <1>6

LEMMA AskedFor ==
    ASSUME NEW name \in {"prompt", "ask", "again"}, NEW d \in Screen(Char)
    PROVE  /\ Position(vga_print(d, Text[name])) \in Nat \ {0}
           /\ Back(vga_print(d, Text[name]), 0) = Last(Text[name])
<1>1. Text[name] \in Seq(Char) /\ Space \in Char
  BY CharAlphabet DEF Alphabet, Texts
<1>2. Text[name] # <<>> /\ Seen(Last(Text[name]))
  BY LineAssumption DEF Seen
<1>3. LastRow * VGA_COLS > 0
  <2>1. LastRow \in Nat /\ VGA_COLS \in Nat /\ CMD_MAX \in Nat \ {0, 1}
    BY Sizes DEF LastRow
  <2>2. PICK n \in Nat : n = LastRow * VGA_COLS
    BY <2>1
  <2>3. CMD_MAX <= n
    BY <2>2, LineAssumption
  <2> QED BY <2>1, <2>2, <2>3
<1> QED BY <1>1, <1>2, <1>3, PrintSeen

\* The echo of a key: the line moves, and the key is behind it.
LEMMA EchoSeen ==
    ASSUME DemoInv, Echo, LineSeen, Head(keyboard) # "\t"
    PROVE  LineSeen'
<1>1. /\ Reading /\ i < LineMax - 1 /\ keyboard # <<>> /\ UNCHANGED pc
      /\ Head(keyboard) \notin Silent \cup {"BS", "\n"}
      /\ display' = vga_print(display, <<Head(keyboard)>>)
      /\ buf' = [buf EXCEPT ![i] = Head(keyboard)] /\ i' = i + 1
  BY DEF Echo, NextCode
<1>2. /\ i \in Nat /\ LineMax \in Nat /\ buf \in [0..(LineMax - 1) -> Char]
      /\ keyboard \in Seq(Scancodes) /\ display \in Screen(Char)
  BY <1>1, Sizes DEF DemoInv, TerminalTypes, LineTypes, Reading, LineMax, ShellPc, ProgramPc
<1>3. PICK c \in Scancodes : c = Head(keyboard)
  BY <1>1, <1>2, HeadTailProperties
<1>4. c \in Char /\ Space \in Char /\ Seen(c)
  BY <1>1, <1>3, LineAssumption DEF Char, Seen
<1>5. display' = vga_putchar(display, c)
  BY <1>1, <1>3, <1>4, PrintOne
<1>6. PICK e : e = display' /\ e = vga_putchar(display, c)
  BY <1>5
<1>7. /\ Position(display) \in Nat /\ Position(e) \in Nat
      /\ Position(e) = Position(display) + 1 \/ Position(e) = LastRow * VGA_COLS
      /\ Position(e) > 0 => Back(e, 0) = c
      /\ \A j \in Nat : j + 1 < Position(e) => Back(e, j + 1) = Back(display, j)
  BY <1>2, <1>4, <1>6, PutSeen
<1>8. LineMax <= LastRow * VGA_COLS
  BY LineAssumption DEF LineMax
<1>9. Position(e) > i + 1
  <2>1. Position(display) > i
    BY DEF LineSeen
  <2>2. LastRow \in Nat /\ VGA_COLS \in Nat
    BY Sizes DEF LastRow
  <2>3. PICK n \in Nat : n = LastRow * VGA_COLS
    BY <2>2
  <2> QED BY <1>1, <1>2, <1>7, <1>8, <2>1, <2>3
<1>10. Back(e, i + 1) = Question
  BY <1>2, <1>7, <1>9 DEF LineSeen
<1>11. ASSUME NEW k \in 0..i PROVE Back(e, i - k) = buf'[k]
  <2>1. CASE k = i
    <3>1. Back(e, 0) = c /\ i - k = 0
      BY <1>2, <1>7, <1>9, <2>1
    <3>2. buf'[k] = c
      BY <1>1, <1>2, <1>3, <2>1
    <3> QED BY <3>1, <3>2
  <2>2. CASE k # i
    <3>1. k \in 0..(i - 1) /\ i - 1 - k \in Nat /\ (i - 1 - k) + 1 = i - k
      BY <1>2, <2>2
    <3>2. i - k < Position(e)
      BY <1>2, <1>7, <1>9
    <3>3. Back(e, i - k) = Back(display, i - 1 - k)
      BY <1>7, <3>1, <3>2
    <3>4. buf'[k] = buf[k]
      BY <1>1, <1>2, <2>2
    <3> QED BY <3>1, <3>3, <3>4 DEF LineSeen
  <2> QED BY <2>1, <2>2
<1>12. Question' = Question
  BY <1>1 DEF Question
<1>13. (i + 1) - 1 = i
  BY <1>2
<1>14. \A k \in 0..(i' - 1) : Back(e, i' - 1 - k) = buf'[k]
  BY <1>1, <1>11, <1>13
<1> QED BY <1>1, <1>6, <1>9, <1>10, <1>12, <1>14 DEF LineSeen, Back, Position

LEMMA EchoInit ==
    ASSUME TerminalInit
    PROVE  EchoInv
<1>1. typed = <<>> /\ keyboard = <<>> /\ ~Reading
  BY DEF TerminalInit, Reading
<1>2. typed = <<>> \o Characters(keyboard)
  <2>1. <<>> \o <<>> = <<>>
    BY EmptySeq, ConcatEmptySeq
  <2> QED BY <1>1, <2>1, CharactersOfNothing
<1>3. TypedInv
  BY <1>2, EmptySeq DEF TypedInv
<1> QED BY <1>1, <1>3, DemoInit DEF EchoInv

\* What has just asked for a line is seen before it.
LEMMA AskSeen ==
    ASSUME DemoInv, Prompt \/ RunSuma \/ FirstNumber
    PROVE  LineSeen'
<1>1. display \in Screen(Char)
  BY DEF DemoInv, TerminalTypes
<1>2. CASE Prompt
  <2>1. display' = vga_print(display, Text["prompt"]) /\ pc' = "line" /\ i' = 0
    BY <1>2 DEF Prompt, ShellGoes
  <2>2. Position(display') > 0 /\ Back(display', 0) = Last(Text["prompt"])
    BY <1>1, <2>1, AskedFor
  <2> QED BY <2>1, <2>2 DEF LineSeen, Question, Back, Position
<1>3. CASE RunSuma
  <2>1. PICK screen : /\ screen = [vga_print(display, Text["loading"]) EXCEPT !.cells[0] = "X"]
                      /\ display' = vga_print(screen, Text["ask"]) /\ pc' = "first" /\ i' = 0
    BY <1>3 DEF RunSuma, ShellGoes
  <2>2. screen \in Screen(Char)
    <3>1. vga_print(display, Text["loading"]) \in Screen(Char)
      BY <1>1, CharAlphabet, PrintType DEF Alphabet, Texts
    <3>2. "X" \in Char
      BY DEF Char
    <3> QED BY <2>1, <3>1, <3>2 DEF Screen
  <2>3. Position(display') > 0 /\ Back(display', 0) = Last(Text["ask"])
    BY <2>1, <2>2, AskedFor
  <2> QED BY <2>1, <2>3 DEF LineSeen, Question, Back, Position
<1>4. CASE FirstNumber
  <2>1. display' = vga_print(display, Text["again"]) /\ pc' = "second" /\ i' = 0
    BY <1>4 DEF FirstNumber, ShellGoes
  <2>2. Position(display') > 0 /\ Back(display', 0) = Last(Text["again"])
    BY <1>1, <2>1, AskedFor
  <2> QED BY <2>1, <2>2 DEF LineSeen, Question, Back, Position
<1> QED BY <1>2, <1>3, <1>4

\* A step that reads no scancode shows nothing new of a line, or asks for one.
LEMMA OtherStep ==
    ASSUME DemoInv, [TerminalNext]_tvars, ~NextCode, Reading'
    PROVE  UNCHANGED <<display, pc, buf, i>> \/ LineSeen'
<1>1. TaskTypes /\ Alone
  BY DEF DemoInv, TerminalTypes
<1>2. CASE UNCHANGED tvars
  BY <1>2 DEF tvars, lineVars
<1>3. CASE Tick
  BY <1>3 DEF Tick, lineVars
<1>4. CASE \E t \in Task : TaskStep(t)
  <2>1. owner \in Task
    BY <1>4 DEF TaskStep, StoreX, StoreY, LoadRow, LoadColumn, StoreCell, LoadX,
                EndPrintAt, TaskGoes
  <2>2. pc \in Demo
    BY <1>1, <2>1 DEF Alone
  <2>3. pc' = pc
    BY <1>4, TaskStepFrame
  <2> QED BY <2>2, <2>3 DEF Demo, Reading
<1>5. CASE Prompt \/ RunSuma \/ FirstNumber
  BY <1>5, AskSeen
<1>6. CASE ShellStep /\ ~(Prompt \/ RunSuma \/ FirstNumber \/ KeyArrives)
  <2>1. ~Reading'
    BY <1>6 DEF ShellStep, esperar_tecla, process_block_others, BlockingDone, Ignored, Erase,
                Echo, LineEnds, LoopEnds, EmptyCommand, Command, PrintSum, SYS_EXIT,
                ShellGoes, Reading
  <2> QED BY <2>1
<1>7. CASE KeyArrives
  BY <1>7 DEF KeyArrives
<1> QED BY <1>2, <1>3, <1>4, <1>5, <1>6, <1>7, NextIs

\* A step that reads a scancode ignores it, erases with it, or echoes it.
LEMMA CodeStep ==
    ASSUME DemoInv, [TerminalNext]_tvars, NextCode, Reading'
    PROVE  Ignored \/ Erase \/ Echo
<1>1. /\ Reading /\ i < LineMax - 1 /\ keyboard # <<>> /\ keyboard' = Tail(keyboard)
      /\ UNCHANGED <<owner, blocked, at, loaded, col, cut, typed, first>>
  BY DEF NextCode, taskVars
<1>2. keyboard' # keyboard
  <2>1. keyboard \in Seq(Scancodes)
    BY DEF DemoInv, TerminalTypes, LineTypes
  <2>2. Len(Tail(keyboard)) = Len(keyboard) - 1
    BY <1>1, <2>1, HeadTailProperties
  <2>3. Len(keyboard) \in Nat
    BY <2>1, LenProperties
  <2>4. Len(Tail(keyboard)) # Len(keyboard)
    BY <2>2, <2>3
  <2> QED BY <1>1, <2>4
<1>3. ~(UNCHANGED tvars) /\ ~Tick /\ ~(\E t \in Task : TaskStep(t))
  <2>1. ~(UNCHANGED tvars)
    BY <1>2 DEF tvars
  <2> QED BY <1>2, <2>1, TaskStepFrame
<1>4. ~KeyArrives
  <2>1. keyboard \in Seq(Scancodes)
    BY DEF DemoInv, TerminalTypes, LineTypes
  <2>2. ASSUME NEW sc \in Scancodes PROVE Append(keyboard, sc) # Tail(keyboard)
    <3>1. Len(Append(keyboard, sc)) = Len(keyboard) + 1 /\ Len(keyboard) \in Nat
      BY <2>1
    <3>2. Len(Tail(keyboard)) = Len(keyboard) - 1
      BY <1>1, <2>1, HeadTailProperties
    <3> QED BY <3>1, <3>2
  <2> QED BY <1>1, <2>2 DEF KeyArrives
<1>5. ~(\/ esperar_tecla \/ process_block_others \/ BlockingDone \/ Prompt \/ EmptyCommand
        \/ Command \/ RunSuma \/ FirstNumber \/ PrintSum \/ SYS_EXIT)
  BY <1>1 DEF esperar_tecla, process_block_others, BlockingDone, Prompt, EmptyCommand,
              Command, RunSuma, FirstNumber, PrintSum, SYS_EXIT, ShellGoes, Reading
<1>6. ~LineEnds
  BY DEF LineEnds, LoopEnds, Reading
<1> QED BY <1>3, <1>4, <1>5, <1>6, NextIs DEF ShellStep

LEMMA EchoStep ==
    ASSUME EchoInv, [TerminalNext]_tvars
    PROVE  EchoInv'
<1>1. DemoInv /\ TaskTypes /\ LineTypes /\ Alone /\ (Reading /\ Plainly(Consumed) => LineSeen)
  BY DEF EchoInv, DemoInv, TerminalTypes
<1>2. PICK read \in Seq(Scancodes) : typed = read \o Characters(keyboard)
  BY DEF EchoInv, TypedInv
<1>3. PICK later \in Seq(Scancodes) :
        /\ typed' = later \o Characters(keyboard')
        /\ NextCode => later = read \o Mapped(Head(keyboard))
        /\ ~NextCode => later = read \/ ~Reading'
  BY <1>1, <1>2, TypedStep
<1>4. DemoInv' /\ LineTypes'
  <2>1. DemoInv'
    BY <1>1, DemoStep
  <2> QED BY <2>1 DEF DemoInv, TerminalTypes
<1>5. Consumed = read
  <2>1. Characters(keyboard) \in Seq(Scancodes)
    BY <1>1, CharactersType DEF LineTypes
  <2> QED BY <1>2, <2>1, ConsumedIs DEF Consumed
<1>6. Consumed' = later
  <2>1. PICK rest \in Seq(Scancodes) : rest = Characters(keyboard')
    BY <1>4, CharactersType DEF LineTypes
  <2>2. PICK all : all = typed'
    OBVIOUS
  <2>3. SubSeq(all, 1, Len(all) - Len(rest)) = later
    BY <1>3, <2>1, <2>2, ConsumedIs
  <2>4. Consumed' = SubSeq(typed', 1, Len(typed') - Len(Characters(keyboard')))
    BY DEF Consumed, Characters
  <2> QED BY <2>1, <2>2, <2>3, <2>4
<1>7. TypedInv'
  BY <1>3 DEF TypedInv, Characters
<1>8. ASSUME Reading', Plainly(later) PROVE LineSeen'
  <2>1. CASE ~NextCode
    <3>1. CASE UNCHANGED <<display, pc, buf, i>>
      <4>1. Reading /\ Plainly(Consumed)
        BY <1>3, <1>5, <1>8, <2>1, <3>1 DEF Reading
      <4> QED BY <1>1, <3>1, <4>1 DEF LineSeen, Question, Back, Position
    <3> QED BY <1>1, <1>8, <2>1, <3>1, OtherStep
  <2>2. CASE NextCode
    <3>1. keyboard # <<>> /\ Reading /\ keyboard \in Seq(Scancodes)
      BY <1>1, <2>2 DEF NextCode, LineTypes
    <3>2. PICK c \in Scancodes : c = Head(keyboard)
      BY <3>1, HeadTailProperties
    <3>3. CASE c \in Silent
      <4>1. later = read
        <5>1. Mapped(c) = <<>> /\ read \o <<>> = read
          BY <3>3, ConcatEmptySeq DEF Mapped
        <5> QED BY <1>3, <2>2, <3>2, <5>1
      <4>2. Ignored
        BY <1>1, <1>8, <2>2, <3>2, <3>3, CodeStep DEF Erase, Echo, Silent, NoChar, Release
      <4>3. UNCHANGED <<display, pc, buf, i>>
        BY <4>2 DEF Ignored
      <4>4. LineSeen
        BY <1>1, <1>5, <1>8, <3>1, <4>1
      <4> QED BY <4>3, <4>4 DEF LineSeen, Question, Back, Position
    <3>4. CASE c \notin Silent
      <4>1. PICK one \in Seq(Scancodes) : one = <<c>> /\ Len(one) = 1 /\ one[1] = c
        <5>1. <<c>> \in Seq(Scancodes)
          OBVIOUS
        <5> QED BY <5>1
      <4>2. later = read \o one
        BY <1>3, <2>2, <3>2, <3>4, <4>1 DEF Mapped
      <4>3. /\ Len(later) = Len(read) + 1 /\ later[Len(read) + 1] = c
            /\ \A k \in 1..Len(read) : later[k] = read[k]
        BY <4>1, <4>2, ConcatProperties
      <4>4. c \notin {"BS", "\t"} /\ Plainly(read)
        <5>1. DOMAIN later = 1..(Len(read) + 1) /\ DOMAIN read = 1..Len(read)
              /\ Len(read) \in Nat
          BY <4>3
        <5> QED BY <1>8, <4>3, <5>1 DEF Plainly
      <4>5. Echo
        BY <1>1, <1>8, <2>2, <3>2, <3>4, <4>4, CodeStep DEF Ignored, Erase
      <4> QED BY <1>1, <1>5, <3>1, <3>2, <4>4, <4>5, EchoSeen
    <3> QED BY <3>3, <3>4
  <2> QED BY <2>1, <2>2
<1> QED BY <1>4, <1>6, <1>7, <1>8 DEF EchoInv, Plainly

LEMMA EchoInvHolds == TerminalSpec => []EchoInv
<1> QED BY EchoInit, EchoStep, PTL DEF TerminalSpec

\* EchoShowsLine: as long as nothing is erased and no tab is typed, the prompt
\* and the line in the buffer are what stands before the cursor, over the ends
\* of rows and of the screen, while the user types on and whatever the tasks
\* were interrupted in (shell.c 66-87, syscall.c 39-62, vga.c 39-73).
THEOREM LineIsShown == TerminalSpec => []EchoShowsLine
<1> QED BY EchoInvHolds, SeenGivesShown, PTL

-----------------------------------------------------------------------------
(* The line that is entered, and what was typed.                           *)

\* What is left of the first n characters.
Kept(s, f) ==
    f = [n \in 0..Len(s) |-> IF n = 0 THEN <<>> ELSE Pressed(f[n - 1], s[n])]

LEMMA KeptExists ==
    ASSUME NEW S, NEW s \in Seq(S)
    PROVE  \E f : Kept(s, f)
<1>1. PICK N \in Nat : N = Len(s)
  OBVIOUS
<1> DEFINE First(m, f) ==
             f = [n \in 0..m |-> IF n = 0 THEN <<>> ELSE Pressed(f[n - 1], s[n])]
<1> DEFINE W == {m \in 0..N : \E f : First(m, f)}
<1>2. 0 \in W
  <2> DEFINE f == [n \in 0..0 |-> <<>>]
  <2>1. 0 \in 0..N /\ First(0, f)
    BY <1>1
  <2> QED BY <2>1
<1>3. ASSUME NEW m \in 0..(N - 1), m \in W PROVE m + 1 \in W
  <2>1. PICK f : First(m, f)
    BY <1>3
  <2>2. m + 1 \in 0..N
    BY <1>1
  <2> DEFINE g == [n \in 0..(m + 1) |->
                      IF n <= m THEN f[n] ELSE Pressed(f[m], s[m + 1])]
  <2>3. \A n \in 0..m : g[n] = f[n]
    BY <1>1
  <2>4. \A n \in 0..(m + 1) :
          g[n] = IF n = 0 THEN <<>> ELSE Pressed(g[n - 1], s[n])
    BY <1>1, <2>1, <2>3
  <2>5. First(m + 1, g)
    BY <1>1, <2>4
  <2> QED BY <2>2, <2>5
<1>4. N \in W
  <2> HIDE DEF W
  <2>1. \A n \in 0..N : n \in W
    BY <1>1, <1>2, <1>3, IntervalInduction
  <2> QED BY <1>1, <2>1
<1> QED BY <1>1, <1>4 DEF Kept

LEMMA EditedIsKept ==
    ASSUME NEW S, NEW s \in Seq(S)
    PROVE  \E f : Kept(s, f) /\ Edited(s) = f[Len(s)]
<1>1. PICK f : Kept(s, f)
  BY KeptExists
<1>2. Kept(s, CHOOSE g : Kept(s, g))
  <2> HIDE DEF Kept
  <2> QED BY <1>1, Zenon
<1>3. Edited(s) = (CHOOSE g : Kept(s, g))[Len(s)]
  BY DEF Edited, Kept
<1> QED BY <1>2, <1>3

LEMMA EditedOfNothing == Edited(<<>>) = <<>>
<1>1. <<>> \in Seq({}) /\ Len(<<>>) = 0
  BY EmptySeq
<1>2. PICK f : Kept(<<>>, f) /\ Edited(<<>>) = f[0]
  BY <1>1, EditedIsKept
<1> QED BY <1>1, <1>2 DEF Kept

LEMMA EditedAppend ==
    ASSUME NEW S, NEW s \in Seq(S), NEW c \in S
    PROVE  Edited(Append(s, c)) = Pressed(Edited(s), c)
<1>1. PICK N \in Nat : N = Len(s)
  OBVIOUS
<1>2. PICK more \in Seq(S) : more = Append(s, c)
  <2>1. Append(s, c) \in Seq(S)
    OBVIOUS
  <2> QED BY <2>1
<1>3. /\ Len(more) = N + 1 /\ more[N + 1] = c
      /\ \A n \in 1..N : more[n] = s[n]
  BY <1>1, <1>2
<1>4. PICK f : Kept(s, f) /\ Edited(s) = f[N]
  BY <1>1, EditedIsKept
<1>5. PICK g : Kept(more, g) /\ Edited(more) = g[N + 1]
  BY <1>3, EditedIsKept
<1> DEFINE W == {n \in 0..N : g[n] = f[n]}
<1>6. 0 \in W
  <2>1. 0 \in 0..N /\ 0 \in 0..Len(s) /\ 0 \in 0..Len(more)
    BY <1>1, <1>3
  <2>2. f[0] = <<>>
    BY <1>4, <2>1, Zenon DEF Kept
  <2>3. g[0] = <<>>
    BY <1>5, <2>1, Zenon DEF Kept
  <2> QED BY <2>1, <2>2, <2>3
<1>7. ASSUME NEW n \in 0..(N - 1), n \in W PROVE n + 1 \in W
  <2>1. f[n + 1] = Pressed(f[n], s[n + 1])
    <3>1. n + 1 \in 0..Len(s) /\ n + 1 # 0 /\ (n + 1) - 1 = n
      BY <1>1
    <3> QED BY <1>4, <3>1, Zenon DEF Kept
  <2>2. g[n + 1] = Pressed(g[n], more[n + 1])
    <3>1. n + 1 \in 0..Len(more) /\ n + 1 # 0 /\ (n + 1) - 1 = n
      BY <1>1, <1>3
    <3> QED BY <1>5, <3>1, Zenon DEF Kept
  <2>3. more[n + 1] = s[n + 1] /\ n + 1 \in 0..N
    BY <1>1, <1>3
  <2> QED BY <1>7, <2>1, <2>2, <2>3
<1>8. g[N] = f[N]
  <2> HIDE DEF W
  <2>1. N \in W
    <3>1. \A n \in 0..N : n \in W
      BY <1>1, <1>6, <1>7, IntervalInduction
    <3> QED BY <1>1, <3>1
  <2> QED BY <2>1 DEF W
<1>9. g[N + 1] = Pressed(g[N], c)
  <2>1. N + 1 \in 0..Len(more) /\ N + 1 # 0 /\ (N + 1) - 1 = N
    BY <1>1, <1>3
  <2>2. g[N + 1] = Pressed(g[N], more[N + 1])
    BY <1>5, <2>1, Zenon DEF Kept
  <2> QED BY <1>3, <2>2
<1> QED BY <1>2, <1>4, <1>5, <1>8, <1>9

\* The first n characters of an array.
Beginning(b, n) == [k \in 1..n |-> b[k - 1]]

\* One more character fits into the array b of the given size.
Fits(b, n, size, S) ==
    size \in Nat /\ n \in 0..(size - 1) /\ b \in [0..(size - 1) -> S]

\* Then d is b with c put behind its first n elements.
Puts(b, n, c, d) == d = [b EXCEPT ![n] = c]
Grows(b, n, c, d) ==
    Len(Beginning(b, n)) = n /\ Beginning(d, n + 1) = Append(Beginning(b, n), c)

LEMMA BeginningGrows ==
    ASSUME NEW S, NEW size, NEW n, NEW b, Fits(b, n, size, S),
           NEW c \in S, NEW d, Puts(b, n, c, d)
    PROVE  Beginning(b, n) \in Seq(S) /\ Grows(b, n, c, d)
<1>1. size \in Nat /\ n \in 0..(size - 1) /\ b \in [0..(size - 1) -> S]
  BY DEF Fits
<1>2. PICK now \in Seq(S) :
        now = Beginning(b, n) /\ Len(now) = n /\ \A k \in 1..n : now[k] = b[k - 1]
  <2>1. \A k \in 1..n : k - 1 \in 0..(size - 1)
    BY <1>1
  <2>2. Beginning(b, n) \in [1..n -> S] /\ n \in Nat
    BY <1>1, <2>1 DEF Beginning
  <2>3. Beginning(b, n) \in Seq(S)
    BY <2>2, SeqDef
  <2>4. Len(Beginning(b, n)) = n
    BY <2>2, <2>3
  <2> QED BY <2>3, <2>4 DEF Beginning
<1>3. PICK next \in Seq(S) : next = Append(now, c)
  <2>1. Append(now, c) \in Seq(S)
    OBVIOUS
  <2> QED BY <2>1, Zenon
<1>4. Len(next) = n + 1 /\ next[n + 1] = c /\ \A k \in 1..n : next[k] = now[k]
  BY <1>1, <1>2, <1>3
<1>5. d[n] = c /\ \A k \in 0..(n - 1) : d[k] = b[k]
  BY <1>1 DEF Puts
<1>6. ASSUME NEW k \in 1..(n + 1) PROVE next[k] = d[k - 1]
  <2>1. CASE k = n + 1
    BY <1>1, <1>5, <1>4, <2>1
  <2>2. CASE k # n + 1
    <3>1. k \in 1..n /\ k - 1 \in 0..(n - 1)
      BY <1>1, <2>2
    <3> QED BY <1>2, <1>5, <1>4, <3>1
  <2> QED BY <2>1, <2>2
<1>7. next = [k \in 1..(n + 1) |-> d[k - 1]]
  <2>1. next = [k \in 1..(n + 1) |-> next[k]]
    <3>1. PICK m \in Nat : next \in [1..m -> S]
      BY SeqDef
    <3>2. m = n + 1
      BY <1>1, <1>4, <3>1
    <3> QED BY <3>1, <3>2
  <2> QED BY <1>6, <2>1, Zenon
<1> QED BY <1>2, <1>3, <1>7 DEF Beginning, Grows

\* Taking back what was put at the end.
LEMMA FrontOfAppend ==
    ASSUME NEW S, NEW t \in Seq(S), NEW c \in S
    PROVE  Append(t, c) # <<>> /\ Front(Append(t, c)) = t
<1>1. PICK n \in Nat : n = Len(t)
  OBVIOUS
<1>2. PICK u \in Seq(S) : u = Append(t, c)
  <2>1. Append(t, c) \in Seq(S)
    OBVIOUS
  <2> QED BY <2>1, Zenon
<1>3. Len(u) = n + 1 /\ \A k \in 1..n : u[k] = t[k]
  BY <1>1, <1>2
<1>4. Front(u) = SubSeq(u, 1, n)
  <2>1. (n + 1) - 1 = n
    OBVIOUS
  <2> QED BY <1>3, <2>1, Zenon DEF Front
<1>5. PICK v \in Seq(S) : v = SubSeq(u, 1, n) /\ Len(v) = n /\ \A k \in 1..n : v[k] = u[k]
  <2>1. \A k \in 1..n : u[k] \in S
    BY <1>3
  <2>2. /\ SubSeq(u, 1, n) \in Seq(S)
        /\ \A k \in 1..n : SubSeq(u, 1, n)[k] = u[k]
        /\ Len(SubSeq(u, 1, n)) = n
    BY <1>3, <2>1
  <2> QED BY <2>2
<1>6. v = t
  BY <1>1, <1>5, <1>3, SeqEqual
<1>7. u # <<>>
  BY <1>3
<1> QED BY <1>2, <1>4, <1>5, <1>6, <1>7

LEMMA BeginningShrinks ==
    ASSUME NEW S, NEW size \in Nat, NEW n \in 1..size, NEW b \in [0..(size - 1) -> S]
    PROVE  Beginning(b, n) # <<>> /\ Front(Beginning(b, n)) = Beginning(b, n - 1)
<1>1. PICK m \in Nat : m = n - 1 /\ n = m + 1 /\ m \in 0..(size - 1)
  <2>1. n - 1 \in Nat /\ n = (n - 1) + 1 /\ n - 1 \in 0..(size - 1)
    OBVIOUS
  <2> QED BY <2>1
<1>2. PICK t \in Seq(S) : t = Beginning(b, m) /\ Len(t) = m
  <2>1. Fits(b, m, size, S) /\ b[m] \in S /\ Puts(b, m, b[m], b)
    BY <1>1 DEF Fits, Puts
  <2>2. Beginning(b, m) \in Seq(S) /\ Grows(b, m, b[m], b)
    BY <2>1, BeginningGrows, Zenon
  <2> QED BY <2>2 DEF Grows
<1>3. PICK c \in S : c = b[m]
  BY <1>1
<1>4. Puts(b, m, c, b) /\ Fits(b, m, size, S)
  BY <1>1, <1>3 DEF Fits, Puts
<1>5. Beginning(b, n) = Append(t, c)
  <2>1. Beginning(b, m + 1) = Append(Beginning(b, m), c)
    <3>1. Grows(b, m, c, b)
      BY <1>4, BeginningGrows, Zenon
    <3> QED BY <3>1, Zenon DEF Grows
  <2> QED BY <1>1, <1>2, <2>1, Zenon
<1>6. Append(t, c) # <<>> /\ Front(Append(t, c)) = t
  BY FrontOfAppend
<1> QED BY <1>1, <1>2, <1>5, <1>6

NoEnter(s) == \A k \in DOMAIN s : s[k] # "\n"

\* What was read since the last line is what the line consists of.
KeysInv ==
    \E read \in Seq(Scancodes) :
        /\ typed = read \o Characters(keyboard)
        /\ ~Reading => read = <<>>
        /\ Reading => /\ Edited(read) = Beginning(buf, i) /\ NoEnter(read)
                      /\ \A k \in 0..(i - 1) : buf[k] # NUL

\* A line ends only in LineEnds, begins only at one of three places, and grows
\* and shrinks only with the keys.
LEMMA LineLeft ==
    ASSUME Reading, [TerminalNext]_tvars, ~Reading'
    PROVE  LineEnds
<1>1. ~UNCHANGED tvars
  BY DEF tvars, Reading
<1>2. ~Tick /\ ~(\E t \in Task : TaskStep(t))
  <2>1. pc' # pc
    BY DEF Reading
  <2> QED BY <2>1, TaskStepFrame
<1>3. ~(KeyArrives \/ Ignored \/ Erase \/ Echo)
  BY DEF KeyArrives, Ignored, Erase, Echo, Reading
<1>4. ~(\/ esperar_tecla \/ process_block_others \/ BlockingDone \/ Prompt \/ EmptyCommand
        \/ Command \/ RunSuma \/ FirstNumber \/ PrintSum \/ SYS_EXIT)
  BY DEF esperar_tecla, process_block_others, BlockingDone, Prompt, EmptyCommand,
         Command, RunSuma, FirstNumber, PrintSum, SYS_EXIT, ShellGoes, Reading
<1> QED BY <1>1, <1>2, <1>3, <1>4, NextIs DEF ShellStep

LEMMA LineBegun ==
    ASSUME ~Reading, [TerminalNext]_tvars, Reading'
    PROVE  i' = 0 /\ ~NextCode
<1>1. ~NextCode
  BY DEF NextCode
<1>2. ~UNCHANGED tvars
  BY DEF tvars, Reading
<1>3. ~Tick /\ ~(\E t \in Task : TaskStep(t))
  <2>1. pc' # pc
    BY DEF Reading
  <2> QED BY <2>1, TaskStepFrame
<1>4. ~(KeyArrives \/ Ignored \/ Erase \/ Echo \/ LineEnds)
  BY DEF KeyArrives, Ignored, Erase, Echo, Reading, NextCode, LineEnds, LoopEnds
<1>5. ~(\/ esperar_tecla \/ process_block_others \/ BlockingDone \/ EmptyCommand
        \/ Command \/ PrintSum \/ SYS_EXIT)
  BY DEF esperar_tecla, process_block_others, BlockingDone, EmptyCommand,
         Command, PrintSum, SYS_EXIT, ShellGoes, Reading
<1>6. Prompt \/ RunSuma \/ FirstNumber => i' = 0
  BY DEF Prompt, RunSuma, FirstNumber
<1> QED BY <1>1, <1>2, <1>3, <1>4, <1>5, <1>6, NextIs DEF ShellStep

LEMMA LineWaits ==
    ASSUME Reading, [TerminalNext]_tvars, Reading', ~NextCode
    PROVE  UNCHANGED <<pc, buf, i>>
<1>1. CASE UNCHANGED tvars
  BY <1>1 DEF tvars, lineVars
<1>2. CASE Tick \/ \E t \in Task : TaskStep(t)
  BY <1>2, TaskStepFrame
<1>3. CASE KeyArrives
  BY <1>3 DEF KeyArrives
<1>4. ~(Ignored \/ Erase \/ Echo \/ LineEnds)
  BY DEF Ignored, Erase, Echo, LineEnds, LoopEnds, Reading
<1>5. ~(\/ esperar_tecla \/ process_block_others \/ BlockingDone \/ Prompt \/ EmptyCommand
        \/ Command \/ RunSuma \/ FirstNumber \/ PrintSum \/ SYS_EXIT)
  BY DEF esperar_tecla, process_block_others, BlockingDone, Prompt, EmptyCommand,
         Command, RunSuma, FirstNumber, PrintSum, SYS_EXIT, ShellGoes, Reading
<1> QED BY <1>1, <1>2, <1>3, <1>4, <1>5, NextIs DEF ShellStep

\* A key that is read does to the line what Pressed says.
LEMMA KeyPressed ==
    ASSUME LineTypes, Reading, NextCode, Ignored \/ Erase \/ Echo,
           NEW read \in Seq(Scancodes), NEW later \in Seq(Scancodes),
           later = read \o Mapped(Head(keyboard)),
           Edited(read) = Beginning(buf, i), NoEnter(read), \A k \in 0..(i - 1) : buf[k] # NUL
    PROVE  /\ Edited(later) = Beginning(buf', i') /\ NoEnter(later)
           /\ \A k \in 0..(i' - 1) : buf'[k] # NUL
<1>1. PICK c \in Scancodes : c = Head(keyboard) /\ later = read \o Mapped(c)
  <2>1. keyboard # <<>> /\ keyboard \in Seq(Scancodes)
    BY DEF NextCode, LineTypes
  <2> QED BY <2>1, HeadTailProperties
<1>2. buf \in [0..(LineMax - 1) -> Char] /\ i \in 0..(LineMax - 1) /\ i < LineMax - 1
      /\ LineMax \in Nat
  BY Sizes DEF NextCode, LineTypes, LineMax, Reading, ShellPc, ProgramPc
<1>3. Fits(buf, i, LineMax, Char)
  BY <1>2 DEF Fits
<1>4. CASE c \in Silent
  <2>1. later = read
    <3>1. Mapped(c) = <<>> /\ read \o <<>> = read
      BY <1>4, ConcatEmptySeq DEF Mapped
    <3> QED BY <1>1, <3>1
  <2>2. buf' = buf /\ i' = i
    BY <1>1, <1>4 DEF Ignored, Erase, Echo, Silent, NoChar, Release
  <2> QED BY <2>1, <2>2
<1>5. CASE c \notin Silent
  <2>1. later = Append(read, c)
    <3>1. Mapped(c) = <<c>>
      BY <1>5 DEF Mapped
    <3>2. later = read \o <<c>>
      BY <1>1, <3>1, Zenon
    <3> QED BY <3>2, AppendIsConcat
  <2>2. Edited(later) = Pressed(Beginning(buf, i), c)
    <3>1. Edited(Append(read, c)) = Pressed(Edited(read), c)
      BY EditedAppend
    <3> QED BY <2>1, <3>1, Zenon
  <2>3. c # "\n"
    BY <1>1, <1>5 DEF Ignored, Erase, Echo
  <2>4. NoEnter(later)
    <3>1. PICK n \in Nat : n = Len(read)
      OBVIOUS
    <3>2. Len(later) = n + 1 /\ later[n + 1] = c /\ \A k \in 1..n : later[k] = read[k]
      BY <2>1, <3>1
    <3>3. DOMAIN later = 1..(n + 1) /\ DOMAIN read = 1..n
      BY <3>1, <3>2
    <3>4. ASSUME NEW k \in 1..(n + 1) PROVE later[k] # "\n"
      <4>1. CASE k = n + 1
        BY <2>3, <3>2, <4>1
      <4>2. CASE k \in 1..n
        BY <3>2, <3>3, <4>2 DEF NoEnter
      <4>3. k = n + 1 \/ k \in 1..n
        BY <3>1
      <4> QED BY <4>1, <4>2, <4>3
    <3> QED BY <3>3, <3>4 DEF NoEnter
  <2>5. CASE c # "BS"
    <3>1. buf' = [buf EXCEPT ![i] = c] /\ i' = i + 1
      BY <1>1, <1>5, <2>5 DEF Ignored, Erase, Echo
    <3>2. c \in Char
      BY CharAlphabet DEF Alphabet
    <3>3. Beginning(buf', i + 1) = Append(Beginning(buf, i), c)
      <4>1. Puts(buf, i, c, buf')
        BY <3>1 DEF Puts
      <4>2. Grows(buf, i, c, buf')
        BY <1>3, <3>2, <4>1, BeginningGrows, Zenon
      <4> QED BY <4>2, Zenon DEF Grows
    <3>4. Edited(later) = Beginning(buf', i')
      BY <2>2, <2>5, <3>1, <3>3, Zenon DEF Pressed
    <3>5. ASSUME NEW k \in 0..(i' - 1) PROVE buf'[k] # NUL
      <4>1. k \in 0..i /\ i \in Nat
        BY <1>2, <3>1
      <4>2. buf'[k] = IF k = i THEN c ELSE buf[k]
        BY <1>2, <3>1, <4>1
      <4>3. c # NUL
        BY LineAssumption
      <4>4. k # i => k \in 0..(i - 1)
        BY <4>1
      <4> QED BY <4>2, <4>3, <4>4
    <3> QED BY <2>4, <3>4, <3>5
  <2>6. CASE c = "BS"
    <3>1. buf' = buf /\ i' = IF i > 0 THEN i - 1 ELSE i
      BY <1>1, <1>5, <2>6 DEF Ignored, Erase, Echo
    <3>2. CASE i > 0
      <4>1. i \in 1..LineMax
        BY <1>2, <3>2
      <4>2. Beginning(buf, i) # <<>> /\ Front(Beginning(buf, i)) = Beginning(buf, i - 1)
        BY <1>2, <4>1, BeginningShrinks
      <4>3. Edited(later) = Beginning(buf', i')
        BY <2>2, <2>6, <3>1, <3>2, <4>2, Zenon DEF Pressed
      <4>4. \A k \in 0..(i' - 1) : k \in 0..(i - 1)
        BY <1>2, <3>1, <3>2
      <4> QED BY <2>4, <3>1, <4>3, <4>4
    <3>3. CASE ~(i > 0)
      <4>1. i = 0 /\ i' = i
        BY <1>2, <3>1, <3>3
      <4>2. Beginning(buf, i) = <<>>
        <5>1. Beginning(buf, i) \in Seq(Char) /\ Len(Beginning(buf, i)) = 0
          <6>1. "?" \in Char
            BY DEF Char
          <6>2. PICK d : Puts(buf, i, "?", d)
            BY DEF Puts
          <6>3. Beginning(buf, i) \in Seq(Char) /\ Grows(buf, i, "?", d)
            BY <1>3, <6>1, <6>2, BeginningGrows, Zenon
          <6>4. Len(Beginning(buf, i)) = i
            BY <6>3, Zenon DEF Grows
          <6> QED BY <4>1, <6>3, <6>4, Zenon
        <5> QED BY <5>1, EmptySeq
      <4>3. Edited(later) = Beginning(buf', i')
        BY <2>2, <2>6, <3>1, <4>1, <4>2, Zenon DEF Pressed
      <4> QED BY <2>4, <3>1, <4>1, <4>3
    <3> QED BY <3>2, <3>3
  <2> QED BY <2>5, <2>6
<1> QED BY <1>4, <1>5

LEMMA KeysInit ==
    ASSUME TerminalInit
    PROVE  KeysInv
<1>1. typed = <<>> /\ keyboard = <<>> /\ ~Reading
  BY DEF TerminalInit, Reading
<1>2. <<>> \o Characters(<<>>) = <<>> /\ <<>> \in Seq(Scancodes)
  <2>1. <<>> \in Seq(Scancodes) /\ <<>> \o <<>> = <<>>
    BY EmptySeq, ConcatEmptySeq
  <2> QED BY <2>1, CharactersOfNothing, Zenon
<1> QED BY <1>1, <1>2 DEF KeysInv

LEMMA KeysStep ==
    ASSUME LineTypes, LineTypes', DemoInv, KeysInv, [TerminalNext]_tvars
    PROVE  KeysInv'
<1>1. PICK read \in Seq(Scancodes) :
        /\ typed = read \o Characters(keyboard)
        /\ ~Reading => read = <<>>
        /\ Reading => /\ Edited(read) = Beginning(buf, i) /\ NoEnter(read)
                      /\ \A k \in 0..(i - 1) : buf[k] # NUL
  BY DEF KeysInv
<1>2. PICK later \in Seq(Scancodes) :
        /\ typed' = later \o Characters(keyboard')
        /\ NextCode => later = read \o Mapped(Head(keyboard))
        /\ ~NextCode => later = read \/ (later = <<>> /\ ~Reading')
  BY <1>1, TypedStep
<1>3. <<>> \in Seq(Scancodes)
  BY EmptySeq
<1> DEFINE Is(r) == /\ typed' = r \o Characters(keyboard')
                    /\ ~Reading' => r = <<>>
                    /\ Reading' => /\ Edited(r) = Beginning(buf', i') /\ NoEnter(r)
                                   /\ \A k \in 0..(i' - 1) : buf'[k] # NUL
<1>4. SUFFICES \E r \in Seq(Scancodes) : Is(r)
  BY DEF KeysInv, Beginning, Characters, NoEnter, Edited
<1>5. CASE Reading /\ ~Reading'
  <2>1. typed' = Characters(keyboard')
    BY <1>5, LineLeft DEF LineEnds, LoopEnds
  <2>2. Is(<<>>)
    <3>1. PICK a \in Seq(Scancodes) : a = Characters(keyboard')
      BY CharactersType DEF LineTypes
    <3>2. <<>> \o a = a
      BY ConcatEmptySeq
    <3> QED BY <1>5, <2>1, <3>1, <3>2
  <2> QED BY <1>3, <2>2
<1>6. CASE Reading /\ Reading' /\ NextCode
  <2>1. Ignored \/ Erase \/ Echo
    BY <1>6, CodeStep
  <2>2. /\ Edited(later) = Beginning(buf', i') /\ NoEnter(later)
        /\ \A k \in 0..(i' - 1) : buf'[k] # NUL
    BY <1>1, <1>2, <1>6, <2>1, KeyPressed, Zenon
  <2>3. Is(later)
    BY <1>2, <1>6, <2>2
  <2> QED BY <2>3
<1>7. CASE Reading /\ Reading' /\ ~NextCode
  <2>1. UNCHANGED <<buf, i>> /\ later = read
    BY <1>2, <1>7, LineWaits
  <2> QED BY <1>1, <1>2, <1>7, <2>1
<1>8. CASE ~Reading /\ Reading'
  <2>1. i' = 0 /\ ~NextCode
    BY <1>8, LineBegun
  <2>2. later = <<>>
    BY <1>1, <1>2, <1>8, <2>1
  <2>3. Edited(<<>>) = Beginning(buf', 0)
    BY EditedOfNothing DEF Beginning
  <2>4. NoEnter(<<>>) /\ \A k \in 0..(0 - 1) : buf'[k] # NUL
    BY DEF NoEnter
  <2> QED BY <1>2, <1>8, <2>1, <2>2, <2>3, <2>4
<1>9. CASE ~Reading /\ ~Reading'
  <2>1. ~NextCode
    BY <1>9 DEF NextCode
  <2>2. later = <<>>
    BY <1>1, <1>2, <1>9, <2>1
  <2> QED BY <1>2, <1>9, <2>2
<1> QED BY <1>5, <1>6, <1>7, <1>8, <1>9

\* The line that ends is what the keys read since the last one leave.
LEMMA LineAtEnd ==
    ASSUME LineTypes, Reading, LineEnds, \A k \in 0..(i - 1) : buf[k] # NUL
    PROVE  /\ Line' = Beginning(buf, i)
           /\ ~(i < LineMax - 1) => Len(Line') = LineMax - 1
<1>1. buf \in [0..(LineMax - 1) -> Char] /\ i \in 0..(LineMax - 1) /\ LineMax \in Nat
  BY Sizes DEF LineTypes, LineMax, Reading, ShellPc, ProgramPc
<1>2. PICK b : b = [buf EXCEPT ![i] = NUL] /\ Line' = AsString(b)
  <2>1. buf' = [buf EXCEPT ![i] = NUL]
    BY DEF LineEnds
  <2>2. Line' = AsString(buf')
    BY Zenon DEF Line, AsString
  <2> QED BY <2>1, <2>2
<1>3. PICK n \in Nat : n = LineMax
  BY <1>1
<1>4. b \in [0..(n - 1) -> Char] /\ b[i] = NUL /\ \A k \in 0..(i - 1) : b[k] = buf[k]
  <2>1. NUL \in Char
    BY DEF Char
  <2> QED BY <1>1, <1>2, <1>3, <2>1
<1>5. PICK m \in 0..n :
        /\ \A k \in 0..(m - 1) : b[k] # NUL
        /\ m < n => b[m] = NUL
        /\ AsString(b) = [k \in 1..m |-> b[k - 1]]
  <2> HIDE DEF Char
  <2> QED BY <1>4, StringIs
<1>6. m = i
  <2>1. CASE m < i
    <3>1. m \in 0..(i - 1) /\ m < n
      BY <1>1, <1>3, <2>1
    <3> QED BY <1>4, <1>5, <3>1
  <2>2. CASE m > i
    <3>1. i \in 0..(m - 1)
      BY <1>1, <2>2
    <3> QED BY <1>4, <1>5, <3>1
  <2>3. m < i \/ m > i \/ m = i
    BY <1>1, <1>3
  <2> QED BY <2>1, <2>2, <2>3
<1>7. Line' = Beginning(buf, i)
  <2>1. \A k \in 1..i : b[k - 1] = buf[k - 1]
    <3>1. \A k \in 1..i : k - 1 \in 0..(i - 1)
      BY <1>1
    <3> QED BY <1>4, <3>1
  <2> QED BY <1>2, <1>5, <1>6, <2>1 DEF Beginning
<1>8. Len(Line') = i
  <2>1. Fits(buf, i, n, Char) /\ "?" \in Char
    BY <1>1, <1>3 DEF Fits, Char
  <2>2. PICK d : Puts(buf, i, "?", d)
    BY DEF Puts
  <2>3. Grows(buf, i, "?", d)
    BY <2>1, <2>2, BeginningGrows, Zenon
  <2> QED BY <1>7, <2>3 DEF Grows
<1>9. ~(i < LineMax - 1) => i = LineMax - 1
  BY <1>1
<1> QED BY <1>7, <1>8, <1>9

\* What was typed is what was read and what is left of it.
LEMMA KeysOfLine ==
    ASSUME NEW keys \in Seq(Scancodes), NEW rest \in Seq(Scancodes),
           typed = keys \o rest, typed' = rest
    PROVE  SubSeq(typed, 1, Len(typed) - Len(typed')) = keys
<1>1. PICK all : all = typed
  OBVIOUS
<1>2. SubSeq(all, 1, Len(all) - Len(rest)) = keys
  BY <1>1, ConsumedIs, Zenon
<1> QED BY <1>1, <1>2, Zenon

LEMMA LineStep ==
    ASSUME LineTypes, LineTypes', KeysInv, [TerminalNext]_tvars, Reading, ~Reading'
    PROVE  LET keys == SubSeq(typed, 1, Len(typed) - Len(typed'))
               entered == keys # <<>> /\ Last(keys) = "\n"
               line == Edited(IF entered THEN Front(keys) ELSE keys)
           IN  /\ Line' = line
               /\ entered \/ Len(line) = LineMax - 1
<1>1. PICK read \in Seq(Scancodes) :
        /\ typed = read \o Characters(keyboard)
        /\ Edited(read) = Beginning(buf, i) /\ NoEnter(read)
        /\ \A k \in 0..(i - 1) : buf[k] # NUL
  BY DEF KeysInv
<1>2. LineEnds
  BY LineLeft
<1>3. Line' = Edited(read) /\ (~(i < LineMax - 1) => Len(Line') = LineMax - 1)
  BY <1>1, <1>2, LineAtEnd, Zenon
<1> DEFINE keys == SubSeq(typed, 1, Len(typed) - Len(typed'))
<1>4. typed' = Characters(keyboard')
  BY <1>2 DEF LineEnds, LoopEnds
<1>5. CASE ~(i < LineMax - 1)
  <2>1. keyboard' = keyboard
    BY <1>2, <1>5 DEF LineEnds, LoopEnds
  <2>2. PICK rest \in Seq(Scancodes) : rest = Characters(keyboard)
    BY CharactersType DEF LineTypes
  <2>3. typed = read \o rest /\ typed' = rest
    BY <1>1, <1>4, <2>1, <2>2, Zenon
  <2>4. keys = read
    BY <2>3, KeysOfLine, Zenon
  <2>5. ~(read # <<>> /\ Last(read) = "\n")
    <3>1. SUFFICES ASSUME read # <<>> PROVE Last(read) # "\n"
      OBVIOUS
    <3>2. PICK n \in Nat : n = Len(read) /\ n # 0
      BY <3>1
    <3>3. n \in DOMAIN read
      BY <3>2
    <3> QED BY <1>1, <3>2, <3>3 DEF NoEnter, Last
  <2> QED BY <1>3, <1>5, <2>4, <2>5, Zenon
<1>6. CASE i < LineMax - 1
  <2>1. keyboard # <<>> /\ Head(keyboard) = "\n" /\ keyboard' = Tail(keyboard)
    BY <1>2, <1>6 DEF LineEnds, LoopEnds
  <2>2. PICK c \in Scancodes : c = "\n" /\ c = Head(keyboard)
    BY <2>1, HeadTailProperties DEF LineTypes
  <2>3. PICK rest \in Seq(Scancodes) : rest = Characters(Tail(keyboard))
    <3>1. Tail(keyboard) \in Seq(Scancodes)
      BY <2>1, HeadTailProperties DEF LineTypes
    <3> QED BY <3>1, CharactersType
  <2>4. PICK one \in Seq(Scancodes) : one = <<c>> /\ Characters(keyboard) = one \o rest
    <3>1. Mapped(c) = <<c>>
      BY <2>2 DEF Mapped, Silent, NoChar, Release
    <3>2. <<c>> \in Seq(Scancodes) /\ keyboard \in Seq(Scancodes)
      BY DEF LineTypes
    <3>3. Characters(keyboard) = Mapped(Head(keyboard)) \o Characters(Tail(keyboard))
      BY <2>1, <3>2, CharactersHead, Zenon
    <3> QED BY <2>2, <2>3, <3>1, <3>2, <3>3, Zenon
  <2>5. PICK line \in Seq(Scancodes) : line = read \o one
    BY ConcatProperties, Zenon
  <2>6. typed = line \o rest /\ typed' = rest
    <3>1. (read \o one) \o rest = read \o (one \o rest)
      BY Regroup
    <3> QED BY <1>1, <1>4, <2>1, <2>3, <2>4, <2>5, <3>1, Zenon
  <2>7. keys = line
    BY <2>6, KeysOfLine, Zenon
  <2>8. line = Append(read, c)
    <3>1. Append(read, c) = read \o <<c>>
      BY AppendIsConcat
    <3> QED BY <2>4, <2>5, <3>1, Zenon
  <2>9. line # <<>> /\ Front(line) = read
    <3>1. Append(read, c) # <<>> /\ Front(Append(read, c)) = read
      BY FrontOfAppend
    <3> QED BY <2>8, <3>1, Zenon
  <2>10. Last(line) = "\n"
    <3>1. Len(line) = Len(read) + 1 /\ line[Len(read) + 1] = c
      BY <2>8
    <3> QED BY <2>2, <3>1 DEF Last
  <2> QED BY <1>3, <2>7, <2>9, <2>10, Zenon
<1> QED BY <1>5, <1>6

LEMMA KeysInvHolds == TerminalSpec => [](DemoInv /\ KeysInv)
<1>1. TerminalInit => DemoInv /\ KeysInv
  BY DemoInit, KeysInit
<1>2. DemoInv /\ KeysInv /\ [TerminalNext]_tvars => (DemoInv /\ KeysInv)'
  <2> SUFFICES ASSUME DemoInv, KeysInv, [TerminalNext]_tvars
               PROVE  (DemoInv /\ KeysInv)'
    OBVIOUS
  <2>1. DemoInv'
    BY DemoStep
  <2>2. LineTypes /\ LineTypes'
    BY <2>1 DEF DemoInv, TerminalTypes
  <2> QED BY <2>1, <2>2, KeysStep
<1> QED BY <1>1, <1>2, PTL DEF TerminalSpec

\* LinesAsTyped: for every size of the two buffers and every sequence of keys,
\* however the presses fall between the steps that read them, a finished line is
\* what the keys since the last one leave of each other, and it ends with Enter
\* or because the buffer is full (shell.c 66-87, syscall.c 39-62).
THEOREM LinesAreTyped == TerminalSpec => LinesAsTyped
<1>1. DemoInv /\ KeysInv /\ (DemoInv /\ KeysInv)' /\ [TerminalNext]_tvars
        => [(Reading /\ ~Reading') =>
              LET keys == SubSeq(typed, 1, Len(typed) - Len(typed'))
                  entered == keys # <<>> /\ Last(keys) = "\n"
                  line == Edited(IF entered THEN Front(keys) ELSE keys)
              IN  /\ Line' = line
                  /\ entered \/ Len(line) = LineMax - 1]_tvars
  <2> SUFFICES ASSUME DemoInv, KeysInv, DemoInv', [TerminalNext]_tvars, Reading, ~Reading'
               PROVE  LET keys == SubSeq(typed, 1, Len(typed) - Len(typed'))
                          entered == keys # <<>> /\ Last(keys) = "\n"
                          line == Edited(IF entered THEN Front(keys) ELSE keys)
                      IN  /\ Line' = line
                          /\ entered \/ Len(line) = LineMax - 1
    BY Zenon
  <2>1. LineTypes /\ LineTypes'
    BY DEF DemoInv, TerminalTypes
  <2> QED BY <2>1, LineStep, Zenon
<1> QED BY <1>1, KeysInvHolds, PTL DEF TerminalSpec, LinesAsTyped

-----------------------------------------------------------------------------
(* What the numbers of suma.c mean: arithmetic modulo 2^32.                *)

\* Two numbers that an int cannot tell apart.
Width == 2 * (INT_MAX + 1)
Alike(m, n) == \E q \in Int : m = n + q * Width

LEMMA WidthType == Width \in Nat \ {0} /\ INT_MAX \in Nat /\ INT_MIN \in Int
                   /\ INT_MAX - INT_MIN = Width - 1
  BY SumaAssumption DEF Width, INT_MIN

LEMMA AlikeSelf ==
    ASSUME NEW m \in Int
    PROVE  Alike(m, m)
<1>1. m = m + 0 * Width
  BY WidthType
<1> QED BY <1>1 DEF Alike

LEMMA AlikeSwap ==
    ASSUME NEW m \in Int, NEW n \in Int, Alike(m, n)
    PROVE  Alike(n, m)
<1>1. PICK q \in Int, w \in Int : m = n + q * w /\ w = Width
  BY WidthType DEF Alike
<1>2. n = m + (-q) * w /\ -q \in Int
  <2>1. (-q) * w = -(q * w)
    BY <1>1
  <2>2. PICK p \in Int : p = q * w
    BY <1>1
  <2> QED BY <1>1, <2>1, <2>2
<1> QED BY <1>1, <1>2 DEF Alike

LEMMA AlikeTwice ==
    ASSUME NEW k \in Int, NEW m \in Int, NEW n \in Int, Alike(k, m), Alike(m, n)
    PROVE  Alike(k, n)
<1>1. PICK q \in Int, r \in Int, w \in Int : k = m + q * w /\ m = n + r * w /\ w = Width
  <2>1. PICK w \in Int : w = Width
    BY WidthType
  <2>2. PICK q \in Int : k = m + q * w
    BY <2>1 DEF Alike
  <2>3. PICK r \in Int : m = n + r * w
    BY <2>1 DEF Alike
  <2> QED BY <2>1, <2>2, <2>3
<1>2. (q + r) * w = q * w + r * w /\ q + r \in Int
  BY <1>1
<1>3. PICK a \in Int, b \in Int : a = q * w /\ b = r * w
  BY <1>1
<1>4. k = n + (q + r) * w
  BY <1>1, <1>2, <1>3
<1> QED BY <1>1, <1>2, <1>4 DEF Alike

\* The operations of suma.c do not tell them apart either.
LEMMA AlikeNegated ==
    ASSUME NEW m \in Int, NEW n \in Int, Alike(m, n)
    PROVE  Alike(-m, -n)
<1>1. PICK q \in Int, w \in Int : m = n + q * w /\ w = Width
  BY WidthType DEF Alike
<1>2. (-q) * w = -(q * w) /\ -q \in Int
  BY <1>1
<1>3. PICK p \in Int : p = q * w
  BY <1>1
<1>4. -m = (-n) + (-q) * w
  BY <1>1, <1>2, <1>3
<1> QED BY <1>1, <1>2, <1>4 DEF Alike

LEMMA AlikeAdded ==
    ASSUME NEW m \in Int, NEW n \in Int, NEW k \in Int, Alike(m, n)
    PROVE  Alike(k + m, k + n)
<1>1. PICK q \in Int, w \in Int : m = n + q * w /\ w = Width
  BY WidthType DEF Alike
<1>2. PICK p \in Int : p = q * w
  BY <1>1
<1>3. k + m = (k + n) + q * w
  BY <1>1, <1>2
<1> QED BY <1>1, <1>3 DEF Alike

LEMMA AlikeTimesTen ==
    ASSUME NEW m \in Int, NEW n \in Int, NEW k \in Int, Alike(m, n)
    PROVE  Alike(m * 10 + k, 10 * n + k)
<1>1. PICK q \in Int, w \in Int : m = n + q * w /\ w = Width
  BY WidthType DEF Alike
<1>2. (10 * q) * w = 10 * (q * w) /\ 10 * q \in Int
  BY <1>1
<1>3. PICK p \in Int : p = q * w
  BY <1>1
<1>4. m * 10 + k = (10 * n + k) + (10 * q) * w
  BY <1>1, <1>2, <1>3
<1> QED BY <1>1, <1>2, <1>4 DEF Alike

\* AsInt chooses one int among the numbers that are alike.
LEMMA AsIntAlike ==
    ASSUME NEW n \in Int
    PROVE  AsInt(n) \in INT_MIN..INT_MAX /\ Alike(AsInt(n), n)
<1>1. PICK w \in Nat \ {0}, m \in Int : w = Width /\ m = INT_MIN
  BY WidthType
<1>2. PICK x \in Int : x = n - m
  BY <1>1
<1>3. x % w \in Int /\ x \div w \in Int /\ x = w * (x \div w) + (x % w)
  BY <1>1
<1>4. PICK q \in Int, r \in Int : q = x \div w /\ r = x % w /\ x = w * q + r
  BY <1>3
<1>5. AsInt(n) = r + m
  BY <1>1, <1>2, <1>4 DEF AsInt, Width
<1>6. w * q = q * w /\ (-q) * w = -(q * w) /\ -q \in Int
  BY <1>1
<1>7. PICK p \in Int : p = q * w
  BY <1>1
<1>8. AsInt(n) = n + (-q) * w
  BY <1>1, <1>2, <1>4, <1>5, <1>6, <1>7
<1> QED BY <1>1, <1>6, <1>8, AsIntType DEF Alike

LEMMA IntsAlike ==
    ASSUME NEW m \in INT_MIN..INT_MAX, NEW n \in INT_MIN..INT_MAX, Alike(m, n)
    PROVE  m = n
<1>1. PICK w \in Nat \ {0}, q \in Int : w = Width /\ m = n + q * w
  BY WidthType DEF Alike
<1>2. m \in Int /\ n \in Int /\ m - n < w /\ n - m < w
  BY <1>1, WidthType
<1>3. PICK p \in Int : p = q * w
  BY <1>1
<1>4. CASE q >= 1
  <2>1. q * w >= w
    BY <1>1, <1>4
  <2> QED BY <1>1, <1>2, <1>3, <2>1
<1>5. CASE q <= -1
  <2>1. q * w <= -w
    BY <1>1, <1>5
  <2> QED BY <1>1, <1>2, <1>3, <2>1
<1>6. CASE q = 0
  <2>1. q * w = 0
    BY <1>1, <1>6
  <2> QED BY <1>1, <1>2, <2>1
<1> QED BY <1>4, <1>5, <1>6

LEMMA AsIntOfAlike ==
    ASSUME NEW m \in Int, NEW n \in Int, Alike(m, n)
    PROVE  AsInt(m) = AsInt(n)
<1>1. /\ AsInt(m) \in INT_MIN..INT_MAX /\ AsInt(n) \in INT_MIN..INT_MAX
      /\ AsInt(m) \in Int /\ AsInt(n) \in Int
  BY AsIntType, WidthType
<1>2. Alike(AsInt(m), n)
  BY <1>1, AsIntAlike, AlikeTwice, Zenon
<1>3. Alike(n, AsInt(n))
  BY <1>1, AsIntAlike, AlikeSwap, Zenon
<1>4. Alike(AsInt(m), AsInt(n))
  BY <1>1, <1>2, <1>3, AlikeTwice, Zenon
<1> QED BY <1>1, <1>4, IntsAlike, Zenon

LEMMA AsIntOfInt ==
    ASSUME NEW n \in INT_MIN..INT_MAX
    PROVE  AsInt(n) = n
<1>1. n \in Int
  BY WidthType
<1> QED BY <1>1, AsIntAlike, IntsAlike, Zenon

\* What the first n digits are worth.
WorthOf(u, f) ==
    f = [n \in 0..Len(u) |-> IF n = 0 THEN 0 ELSE 10 * f[n - 1] + DigitValue(u[n])]

LEMMA WorthExists ==
    ASSUME NEW S, NEW u \in Seq(S)
    PROVE  \E f : WorthOf(u, f)
<1>1. PICK N \in Nat : N = Len(u)
  OBVIOUS
<1> DEFINE First(m, f) ==
             f = [n \in 0..m |-> IF n = 0 THEN 0 ELSE 10 * f[n - 1] + DigitValue(u[n])]
<1> DEFINE W == {m \in 0..N : \E f : First(m, f)}
<1>2. 0 \in W
  <2> DEFINE f == [n \in 0..0 |-> 0]
  <2>1. 0 \in 0..N /\ First(0, f)
    BY <1>1
  <2> QED BY <2>1
<1>3. ASSUME NEW m \in 0..(N - 1), m \in W PROVE m + 1 \in W
  <2>1. PICK f : First(m, f)
    BY <1>3
  <2>2. m + 1 \in 0..N
    BY <1>1
  <2> DEFINE g == [n \in 0..(m + 1) |->
                      IF n <= m THEN f[n] ELSE 10 * f[m] + DigitValue(u[m + 1])]
  <2>3. \A n \in 0..m : g[n] = f[n]
    BY <1>1
  <2>4. \A n \in 0..(m + 1) :
          g[n] = IF n = 0 THEN 0 ELSE 10 * g[n - 1] + DigitValue(u[n])
    BY <1>1, <2>1, <2>3
  <2>5. First(m + 1, g)
    BY <1>1, <2>4
  <2> QED BY <2>2, <2>5
<1>4. N \in W
  <2> HIDE DEF W
  <2>1. \A n \in 0..N : n \in W
    BY <1>1, <1>2, <1>3, IntervalInduction
  <2> QED BY <1>1, <2>1
<1> QED BY <1>1, <1>4 DEF WorthOf

LEMMA MagnitudeIsWorth ==
    ASSUME NEW S, NEW u \in Seq(S)
    PROVE  \E f : WorthOf(u, f) /\ Magnitude(u) = f[Len(u)]
<1>1. PICK f : WorthOf(u, f)
  BY WorthExists
<1>2. WorthOf(u, CHOOSE g : WorthOf(u, g))
  <2> HIDE DEF WorthOf
  <2> QED BY <1>1, Zenon
<1>3. Magnitude(u) = (CHOOSE g : WorthOf(u, g))[Len(u)]
  BY DEF Magnitude, WorthOf
<1> QED BY <1>2, <1>3

LEMMA MagnitudeOfNothing == Magnitude(<<>>) = 0
<1>1. <<>> \in Seq({}) /\ Len(<<>>) = 0
  BY EmptySeq
<1>2. PICK f : WorthOf(<<>>, f) /\ Magnitude(<<>>) = f[0]
  BY <1>1, MagnitudeIsWorth
<1> QED BY <1>1, <1>2 DEF WorthOf

LEMMA MagnitudeAppend ==
    ASSUME NEW S, NEW u \in Seq(S), NEW c \in S
    PROVE  Magnitude(Append(u, c)) = 10 * Magnitude(u) + DigitValue(c)
<1>1. PICK N \in Nat : N = Len(u)
  OBVIOUS
<1>2. PICK more \in Seq(S) : more = Append(u, c)
  <2>1. Append(u, c) \in Seq(S)
    OBVIOUS
  <2> QED BY <2>1
<1>3. /\ Len(more) = N + 1 /\ more[N + 1] = c
      /\ \A n \in 1..N : more[n] = u[n]
  BY <1>1, <1>2
<1>4. PICK f : WorthOf(u, f) /\ Magnitude(u) = f[N]
  BY <1>1, MagnitudeIsWorth
<1>5. PICK g : WorthOf(more, g) /\ Magnitude(more) = g[N + 1]
  BY <1>3, MagnitudeIsWorth
<1> DEFINE W == {n \in 0..N : g[n] = f[n]}
<1>6. 0 \in W
  <2>1. 0 \in 0..N /\ 0 \in 0..Len(u) /\ 0 \in 0..Len(more)
    BY <1>1, <1>3
  <2>2. f[0] = 0
    BY <1>4, <2>1, Zenon DEF WorthOf
  <2>3. g[0] = 0
    BY <1>5, <2>1, Zenon DEF WorthOf
  <2> QED BY <2>1, <2>2, <2>3
<1>7. ASSUME NEW n \in 0..(N - 1), n \in W PROVE n + 1 \in W
  <2>1. f[n + 1] = 10 * f[n] + DigitValue(u[n + 1])
    <3>1. n + 1 \in 0..Len(u) /\ n + 1 # 0 /\ (n + 1) - 1 = n
      BY <1>1
    <3> QED BY <1>4, <3>1, Zenon DEF WorthOf
  <2>2. g[n + 1] = 10 * g[n] + DigitValue(more[n + 1])
    <3>1. n + 1 \in 0..Len(more) /\ n + 1 # 0 /\ (n + 1) - 1 = n
      BY <1>1, <1>3
    <3> QED BY <1>5, <3>1, Zenon DEF WorthOf
  <2>3. more[n + 1] = u[n + 1] /\ n + 1 \in 0..N
    BY <1>1, <1>3
  <2> QED BY <1>7, <2>1, <2>2, <2>3, Zenon
<1>8. g[N] = f[N]
  <2> HIDE DEF W
  <2>1. N \in W
    <3>1. \A n \in 0..N : n \in W
      BY <1>1, <1>6, <1>7, IntervalInduction
    <3> QED BY <1>1, <3>1
  <2> QED BY <2>1 DEF W
<1>9. g[N + 1] = 10 * g[N] + DigitValue(c)
  <2>1. N + 1 \in 0..Len(more) /\ N + 1 # 0 /\ (N + 1) - 1 = N
    BY <1>1, <1>3
  <2>2. g[N + 1] = 10 * g[N] + DigitValue(more[N + 1])
    BY <1>5, <2>1, Zenon DEF WorthOf
  <2> QED BY <1>3, <2>2, Zenon
<1> QED BY <1>2, <1>4, <1>5, <1>8, <1>9, Zenon

\* What reading digits keeps is what they are worth, as far as an int goes.
LEMMA ReadIsWorth ==
    ASSUME NEW u \in Seq(Digits), NEW f, NEW g, Read(u, f), WorthOf(u, g), NEW n \in 0..Len(u)
    PROVE  f[n] \in INT_MIN..INT_MAX /\ g[n] \in Nat /\ Alike(f[n], g[n])
<1>1. PICK N \in Nat : N = Len(u)
  OBVIOUS
<1> DEFINE W == {m \in 0..N : f[m] \in INT_MIN..INT_MAX /\ g[m] \in Nat /\ Alike(f[m], g[m])}
<1>2. 0 \in W
  <2>1. 0 \in 0..N /\ f[0] = 0 /\ g[0] = 0
    BY <1>1 DEF Read, WorthOf
  <2>2. 0 \in INT_MIN..INT_MAX /\ Alike(0, 0)
    BY SumaAssumption, AlikeSelf DEF INT_MIN
  <2> QED BY <2>1, <2>2
<1>3. ASSUME NEW m \in 0..(N - 1), m \in W PROVE m + 1 \in W
  <2>1. m + 1 \in 0..N /\ m + 1 \in 0..Len(u) /\ m + 1 # 0 /\ (m + 1) - 1 = m
        /\ u[m + 1] \in Digits
    BY <1>1
  <2>2. f[m + 1] = AsInt(f[m] * 10 + DigitValue(u[m + 1]))
    BY <2>1, Zenon DEF Read
  <2>3. g[m + 1] = 10 * g[m] + DigitValue(u[m + 1])
    BY <2>1, Zenon DEF WorthOf
  <2>4. PICK k \in Nat : k = DigitValue(u[m + 1])
    BY <2>1, DigitValueType
  <2>5. PICK a \in Int, b \in Nat : a = f[m] /\ b = g[m]
    BY <1>3, WidthType
  <2>6. Alike(a * 10 + k, 10 * b + k)
    <3>1. a \in Int /\ b \in Int /\ k \in Int
      OBVIOUS
    <3>2. Alike(a, b)
      BY <1>3, <2>5
    <3> QED BY <3>1, <3>2, AlikeTimesTen, Zenon
  <2>7. a * 10 + k \in Int /\ 10 * b + k \in Nat /\ 10 * b + k \in Int
    OBVIOUS
  <2>8. /\ AsInt(a * 10 + k) \in INT_MIN..INT_MAX /\ AsInt(a * 10 + k) \in Int
        /\ Alike(AsInt(a * 10 + k), a * 10 + k)
    <3>1. AsInt(a * 10 + k) \in INT_MIN..INT_MAX /\ Alike(AsInt(a * 10 + k), a * 10 + k)
      BY <2>7, AsIntAlike, Zenon
    <3>2. \A r \in INT_MIN..INT_MAX : r \in Int
      BY WidthType
    <3> QED BY <3>1, <3>2, Zenon
  <2>9. Alike(AsInt(a * 10 + k), 10 * b + k)
    BY <2>6, <2>7, <2>8, AlikeTwice, Zenon
  <2>10. f[m + 1] = AsInt(a * 10 + k) /\ g[m + 1] = 10 * b + k
    BY <2>2, <2>3, <2>4, <2>5, Zenon
  <2> QED BY <2>1, <2>7, <2>8, <2>9, <2>10, Zenon
<1>4. n \in W
  <2> HIDE DEF W
  <2>1. \A m \in 0..N : m \in W
    BY <1>1, <1>2, <1>3, IntervalInduction
  <2> QED BY <1>1, <2>1
<1> QED BY <1>4

LEMMA MagnitudeType ==
    ASSUME NEW u \in Seq(Digits)
    PROVE  Magnitude(u) \in Nat
<1>1. PICK g : WorthOf(u, g) /\ Magnitude(u) = g[Len(u)]
  BY MagnitudeIsWorth
<1>2. PICK f : Read(u, f)
  BY ReadExists
<1>3. Len(u) \in 0..Len(u)
  OBVIOUS
<1> QED BY <1>1, <1>2, <1>3, ReadIsWorth, Zenon

\* A run goes on to the first character that is not in the set.
LEMMA RunIs ==
    ASSUME NEW S, NEW s \in Seq(S), NEW k \in 1..(Len(s) + 1), NEW set
    PROVE  \E l \in (k - 1)..Len(s) :
              /\ Run(s, k, set) = SubSeq(s, k, l)
              /\ \A j \in k..l : s[j] \in set
              /\ l < Len(s) => s[l + 1] \notin set
<1>1. PICK N \in Nat : N = Len(s)
  OBVIOUS
<1> DEFINE Ends(l) == l < N => s[l + 1] \notin set
           W == {l \in (k - 1)..N : Ends(l)}
           Is(l) == (\A j \in k..l : s[j] \in set) /\ Ends(l)
<1>2. PICK m \in W : \A l \in W : m <= l
  <2>1. N \in W
    BY <1>1
  <2>2. W \in SUBSET Nat
    BY <1>1
  <2> HIDE DEF W
  <2> QED BY <2>1, <2>2, MinIsMember
<1>3. ASSUME NEW j \in k..m PROVE s[j] \in set
  <2>1. j - 1 \in (k - 1)..N /\ ~(m <= j - 1) /\ (j - 1) + 1 = j /\ j - 1 < N
    BY <1>1, <1>2
  <2>2. j - 1 \notin W
    BY <1>2, <2>1
  <2> QED BY <2>1, <2>2
<1>4. PICK l : l \in (k - 1)..N /\ Is(l) /\ Run(s, k, set) = SubSeq(s, k, l)
  <2>1. Run(s, k, set) = SubSeq(s, k, CHOOSE l \in (k - 1)..N : Is(l))
    BY <1>1, Zenon DEF Run
  <2>2. m \in (k - 1)..N /\ Is(m)
    BY <1>2, <1>3
  <2> HIDE DEF Is
  <2>3. \E l \in (k - 1)..N : Is(l)
    BY <2>2
  <2>4. LET c == CHOOSE l \in (k - 1)..N : Is(l) IN c \in (k - 1)..N /\ Is(c)
    BY <2>3, Zenon
  <2> QED BY <2>1, <2>4
<1> QED BY <1>1, <1>4

\* A run that ends where it starts is empty, and one that never ends is the rest.
LEMMA RunOfNone ==
    ASSUME NEW S, NEW s \in Seq(S), s # <<>>, NEW set, s[1] \notin set
    PROVE  Len(Run(s, 1, set)) = 0
<1>1. PICK N \in Nat \ {0} : N = Len(s)
  BY EmptySeq
<1>2. PICK l \in 0..N : Run(s, 1, set) = SubSeq(s, 1, l) /\ \A j \in 1..l : s[j] \in set
  <2>1. 1 \in 1..(Len(s) + 1) /\ 1 - 1 = 0
    BY <1>1
  <2> QED BY <1>1, <2>1, RunIs
<1>3. l = 0
  <2>1. l # 0 => 1 \in 1..l
    BY <1>1
  <2> QED BY <1>2, <2>1
<1>4. Run(s, 1, set) = <<>>
  BY <1>2, <1>3, SubSeqEmpty
<1> QED BY <1>4

LEMMA RunOfAll ==
    ASSUME NEW S, NEW s \in Seq(S), NEW k \in 1..(Len(s) + 1), NEW set,
           \A j \in k..Len(s) : s[j] \in set
    PROVE  Run(s, k, set) = SubSeq(s, k, Len(s))
<1>1. PICK N \in Nat : N = Len(s)
  OBVIOUS
<1>2. PICK l \in (k - 1)..N : Run(s, k, set) = SubSeq(s, k, l) /\ (l < N => s[l + 1] \notin set)
  BY <1>1, RunIs
<1>3. l = N
  <2>1. l < N => l + 1 \in k..N
    BY <1>1
  <2>2. ~(l < N)
    BY <1>1, <1>2, <2>1
  <2> QED BY <1>1, <2>2
<1> QED BY <1>1, <1>2, <1>3, Zenon

\* Characters that a number is made of.
Minus == "-"
Plus == "+"

LEMMA DigitCharsAre ==
    /\ DigitChars[1] = "0" /\ DigitChars[2] = "1" /\ DigitChars[3] = "2"
    /\ DigitChars[4] = "3" /\ DigitChars[5] = "4" /\ DigitChars[6] = "5"
    /\ DigitChars[7] = "6" /\ DigitChars[8] = "7" /\ DigitChars[9] = "8"
    /\ DigitChars[10] = "9"
  BY DEF DigitChars

LEMMA ToTen ==
    ASSUME NEW k \in 1..10
    PROVE  \/ k = 1 \/ k = 2 \/ k = 3 \/ k = 4 \/ k = 5
           \/ k = 6 \/ k = 7 \/ k = 8 \/ k = 9 \/ k = 10
  OBVIOUS

LEMMA DigitsAre == Digits = {"0", "1", "2", "3", "4", "5", "6", "7", "8", "9"}
<1>1. ASSUME NEW k \in 1..10
      PROVE  DigitChars[k] \in {"0", "1", "2", "3", "4", "5", "6", "7", "8", "9"}
  BY ToTen, DigitCharsAre
<1>2. {"0", "1", "2", "3", "4", "5", "6", "7", "8", "9"} \subseteq Digits
  BY DigitCharsAre DEF Digits
<1> QED BY <1>1, <1>2 DEF Digits

LEMMA DigitsAreDigits ==
    /\ Digits \cap Spaces = {}
    /\ Minus \notin Digits /\ Plus \notin Digits /\ Minus \notin Spaces /\ Minus # Plus
<1>1. Minus \notin Digits /\ Plus \notin Digits /\ Minus # Plus
  BY DigitsAre DEF Minus, Plus
<1>2. Minus \notin Spaces
  BY Zenon DEF Minus, Spaces
<1>3. ASSUME NEW c \in Digits PROVE c \notin Spaces
  BY <1>3, DigitsAre, Zenon DEF Spaces
<1> HIDE DEF Minus, Plus
<1> QED BY <1>1, <1>2, <1>3, Zenon

LEMMA DigitsHaveValues ==
    ASSUME NEW d \in 0..9
    PROVE  DigitValue(DigitChars[d + 1]) = d
<1>1. \A j \in 1..10, k \in 1..10 : DigitChars[j] = DigitChars[k] => j = k
  BY DigitCharsAre, ToTen
<1>2. d + 1 \in 1..10
  OBVIOUS
<1>3. PICK c : c = DigitChars[d + 1]
  OBVIOUS
<1>4. (CHOOSE k \in 1..10 : DigitChars[k] = c) = d + 1
  <2>1. LET m == CHOOSE k \in 1..10 : DigitChars[k] = c IN m \in 1..10 /\ DigitChars[m] = c
    BY <1>2, <1>3, Zenon
  <2> QED BY <1>1, <1>2, <1>3, <2>1, Zenon
<1>5. DigitValue(c) = (d + 1) - 1
  BY <1>4, Zenon DEF DigitValue
<1> QED BY <1>3, <1>5

\* A sequence is one of what its elements are.
LEMMA Retyped ==
    ASSUME NEW S, NEW T, NEW u \in Seq(S), \A k \in DOMAIN u : u[k] \in T
    PROVE  u \in Seq(T)
<1>1. PICK n \in Nat : u \in [1..n -> S]
  BY SeqDef
<1>2. u \in [1..n -> T]
  BY <1>1
<1> QED BY <1>1, <1>2, SeqDef

\* The parts of a numeral.
LEMMA NumeralParts ==
    ASSUME NEW S, NEW s \in Seq(S), IsNumeral(s)
    PROVE  \E u \in Seq(Digits) :
              /\ u = Unsigned(s) /\ u # <<>> /\ s # <<>>
              /\ \/ s[1] = Minus /\ u = SubSeq(s, 2, Len(s)) /\ u # s
                 \/ s[1] \in Digits /\ u = s
<1>1. PICK u : u = Unsigned(s) /\ u # <<>> /\ \A k \in DOMAIN u : u[k] \in Digits
  BY DEF IsNumeral
<1>2. CASE s # <<>> /\ s[1] = Minus
  <2>1. u = Tail(s) /\ u \in Seq(S) /\ Len(u) = Len(s) - 1 /\ Len(s) \in Nat
    <3>1. u = Tail(s)
      BY <1>1, <1>2 DEF Unsigned, Minus
    <3> QED BY <1>2, <3>1, HeadTailProperties
  <2>2. u = SubSeq(s, 2, Len(s))
    <3>1. PICK n \in Nat : n = Len(s) /\ n # 0
      BY <1>2, EmptySeq
    <3>2. PICK v \in Seq(S) :
            v = SubSeq(s, 2, n) /\ Len(v) = n - 1 /\ \A k \in 1..(n - 1) : v[k] = s[k + 1]
      <4>1. /\ SubSeq(s, 2, n) \in Seq(S) /\ Len(SubSeq(s, 2, n)) = n - 1
            /\ \A k \in 1..(n - 1) : SubSeq(s, 2, n)[k] = s[k + 1]
        BY <3>1
      <4> QED BY <4>1
    <3>3. Len(u) = n - 1 /\ \A k \in 1..(n - 1) : u[k] = s[k + 1]
      BY <1>2, <2>1, <3>1, HeadTailProperties
    <3>4. u = v
      BY <2>1, <3>2, <3>3, SeqEqual
    <3> QED BY <3>1, <3>2, <3>4
  <2>3. u # s
    <3>1. SUFFICES ASSUME u = s PROVE FALSE
      OBVIOUS
    <3>2. PICK n \in Nat : n = Len(s) /\ Len(u) = n - 1
      BY <2>1
    <3>3. n = n - 1
      BY <3>1, <3>2, Zenon
    <3> QED BY <3>2, <3>3
  <2>4. u \in Seq(Digits)
    BY <1>1, <2>1, Retyped
  <2> QED BY <1>1, <1>2, <2>2, <2>3, <2>4
<1>3. CASE ~(s # <<>> /\ s[1] = Minus)
  <2>1. u = s
    BY <1>1, <1>3 DEF Unsigned, Minus
  <2>2. 1 \in DOMAIN s
    <3>1. Len(s) \in Nat \ {0}
      BY <1>1, <2>1, EmptySeq
    <3> QED BY <3>1
  <2>3. u \in Seq(Digits)
    BY <1>1, <2>1, Retyped
  <2> QED BY <1>1, <2>1, <2>2, <2>3
<1> QED BY <1>2, <1>3

\* A numeral starts with no space, and its sign is a minus or there is none.
LEMMA NumeralStart ==
    ASSUME NEW S, NEW s \in Seq(S), IsNumeral(s)
    PROVE  /\ Len(s) \in Nat \ {0} /\ Len(Run(s, 1, Spaces)) = 0
           /\ s[1] \in {"-", "+"} <=> s[1] = Minus
           /\ s[1] = "-" <=> s[1] = Minus
<1>1. PICK u \in Seq(Digits) :
        /\ u = Unsigned(s) /\ u # <<>> /\ s # <<>>
        /\ \/ s[1] = Minus /\ u = SubSeq(s, 2, Len(s)) /\ u # s
           \/ s[1] \in Digits /\ u = s
  BY NumeralParts
<1>2. Len(s) \in Nat \ {0}
  BY <1>1, EmptySeq
<1>3. s[1] \notin Spaces
  BY <1>1, DigitsAreDigits, Zenon
<1>4. Len(Run(s, 1, Spaces)) = 0
  BY <1>1, <1>3, RunOfNone, Zenon
<1>5. s[1] \in Digits => s[1] # Minus /\ s[1] # Plus
  BY DigitsAreDigits, Zenon
<1>6. s[1] \in {Minus, Plus} <=> s[1] = Minus
  BY <1>1, <1>5, DigitsAreDigits, Zenon
<1>7. {"-", "+"} = {Minus, Plus} /\ "-" = Minus
  BY Zenon DEF Minus, Plus
<1> QED BY <1>2, <1>4, <1>6, <1>7, Zenon

\* What follows the sign is the digits, up to the end.
LEMMA NumeralDigits ==
    ASSUME NEW S, NEW s \in Seq(S), IsNumeral(s)
    PROVE  /\ Run(s, IF s[1] = Minus THEN 2 ELSE 1, Digits) = Unsigned(s)
           /\ Unsigned(s) \in Seq(Digits)
           /\ Unsigned(s) = s <=> s[1] # Minus
<1>1. PICK u \in Seq(Digits) :
        /\ u = Unsigned(s) /\ u # <<>> /\ s # <<>>
        /\ \/ s[1] = Minus /\ u = SubSeq(s, 2, Len(s)) /\ u # s
           \/ s[1] \in Digits /\ u = s
  BY NumeralParts
<1>2. PICK n \in Nat \ {0} : n = Len(s)
  BY <1>1, EmptySeq
<1>3. CASE s[1] = Minus
  <2>1. u = SubSeq(s, 2, n) /\ u # s
    BY <1>1, <1>2, <1>3, DigitsAreDigits, Zenon
  <2>2. ASSUME NEW j \in 2..n PROVE s[j] \in Digits
    <3>1. Len(SubSeq(s, 2, n)) = n - 1 /\ \A k \in 1..(n - 1) : SubSeq(s, 2, n)[k] = s[k + 1]
      BY <1>2
    <3>2. PICK k \in 1..(n - 1) : j = k + 1
      <4>1. j - 1 \in 1..(n - 1) /\ j = (j - 1) + 1
        OBVIOUS
      <4> QED BY <4>1
    <3>3. k \in 1..Len(u) /\ u[k] = s[j]
      BY <2>1, <3>1, <3>2
    <3>4. u[k] \in Digits
      BY <3>3
    <3> QED BY <3>3, <3>4, Zenon
  <2>3. Run(s, 2, Digits) = SubSeq(s, 2, n)
    <3>1. 2 \in 1..(Len(s) + 1)
      BY <1>2
    <3> QED BY <1>2, <2>2, <3>1, RunOfAll, Zenon
  <2> QED BY <1>1, <1>3, <2>1, <2>3, Zenon
<1>4. CASE s[1] # Minus
  <2>1. u = s
    BY <1>1, <1>4, Zenon
  <2>2. 1 \in 1..(Len(s) + 1) /\ \A j \in 1..Len(s) : s[j] \in Digits
    BY <1>2, <2>1
  <2>3. Run(s, 1, Digits) = SubSeq(s, 1, Len(s))
    BY <2>2, RunOfAll, Zenon
  <2>4. SubSeq(s, 1, Len(s)) = s
    BY SubSeqFull
  <2> QED BY <1>1, <1>4, <2>1, <2>3, <2>4, Zenon
<1> QED BY <1>3, <1>4

\* What the program reads from a numeral is what the numeral means, modulo 2^32.
LEMMA NumeralIsRead ==
    ASSUME NEW S, NEW s \in Seq(S), IsNumeral(s)
    PROVE  /\ Meaning(s) \in Int
           /\ str_to_int(s) = AsInt(Meaning(s))
<1> DEFINE spaces == Len(Run(s, 1, Spaces))
           signed == Len(s) > spaces /\ s[spaces + 1] \in {"-", "+"}
           digits == Run(s, spaces + (IF signed THEN 2 ELSE 1), Digits)
           f == CHOOSE g : Read(digits, g)
<1>1. str_to_int(s) = IF signed /\ s[spaces + 1] = "-" THEN AsInt(-f[Len(digits)])
                      ELSE f[Len(digits)]
  BY Zenon DEF str_to_int, Read
<1>2. spaces = 0 /\ spaces + 1 = 1 /\ Len(s) > spaces
  BY NumeralStart
<1>3. signed <=> s[1] = Minus
  BY <1>2, NumeralStart, Zenon
<1>4. signed /\ s[spaces + 1] = "-" <=> s[1] = Minus
  BY <1>2, <1>3, NumeralStart, Zenon
<1> HIDE DEF spaces, signed
<1>5. PICK u \in Seq(Digits) : u = Unsigned(s) /\ u = digits
  <2>1. spaces + (IF signed THEN 2 ELSE 1) = IF s[1] = Minus THEN 2 ELSE 1
    BY <1>2, <1>3
  <2>2. digits = Run(s, IF s[1] = Minus THEN 2 ELSE 1, Digits)
    BY <2>1
  <2> HIDE DEF digits
  <2>3. digits = Unsigned(s) /\ Unsigned(s) \in Seq(Digits)
    BY <2>2, NumeralDigits
  <2> QED BY <2>3
<1> HIDE DEF digits
<1>6. Read(u, f)
  <2>1. \E g : Read(digits, g)
    BY <1>5, ReadExists
  <2>2. Read(digits, f)
    <3> HIDE DEF Read
    <3> QED BY <2>1, Zenon
  <2> QED BY <1>5, <2>2, Zenon
<1> HIDE DEF f
<1>7. PICK g : WorthOf(u, g) /\ Magnitude(u) = g[Len(u)]
  BY MagnitudeIsWorth
<1>8. PICK r \in INT_MIN..INT_MAX, m \in Nat :
        r = f[Len(u)] /\ m = Magnitude(u) /\ Alike(r, m)
  <2>1. Len(u) \in 0..Len(u)
    OBVIOUS
  <2>2. f[Len(u)] \in INT_MIN..INT_MAX /\ g[Len(u)] \in Nat /\ Alike(f[Len(u)], g[Len(u)])
    BY <1>6, <1>7, <2>1, ReadIsWorth, Zenon
  <2> QED BY <1>7, <2>2, Zenon
<1>9. r \in Int /\ m \in Int /\ -r \in Int /\ -m \in Int
  BY WidthType
<1>10. r = AsInt(m)
  <2>1. AsInt(r) = r
    BY AsIntOfInt, Zenon
  <2>2. AsInt(r) = AsInt(m)
    BY <1>8, <1>9, AsIntOfAlike, Zenon
  <2> QED BY <2>1, <2>2, Zenon
<1>11. AsInt(-r) = AsInt(-m)
  <2>1. Alike(-r, -m)
    BY <1>8, <1>9, AlikeNegated, Zenon
  <2> QED BY <1>9, <2>1, AsIntOfAlike, Zenon
<1>12. CASE s[1] = Minus
  <2>1. Meaning(s) = -m
    BY <1>5, <1>8, <1>12, NumeralDigits, Zenon DEF Meaning
  <2>2. str_to_int(s) = AsInt(-r)
    BY <1>1, <1>4, <1>5, <1>8, <1>12, Zenon
  <2> QED BY <1>9, <1>11, <2>1, <2>2, Zenon
<1>13. CASE s[1] # Minus
  <2>1. Meaning(s) = m
    BY <1>5, <1>8, <1>13, NumeralDigits, Zenon DEF Meaning
  <2>2. str_to_int(s) = r
    BY <1>1, <1>4, <1>5, <1>8, <1>13, Zenon
  <2> QED BY <1>9, <1>10, <2>1, <2>2, Zenon
<1> QED BY <1>12, <1>13

\* What comes first is last in the reverse.
LEMMA ReverseIs ==
    ASSUME NEW S, NEW s \in Seq(S), NEW n \in Nat, n = Len(s)
    PROVE  /\ Reverse(s) \in Seq(S) /\ Len(Reverse(s)) = n
           /\ \A k \in 1..n : Reverse(s)[k] = s[(n - k) + 1]
<1>1. Reverse(s) \in Seq(S) /\ Len(Reverse(s)) = n
  BY ReverseType
<1>2. Reverse(s) = [k \in 1..n |-> s[(n - k) + 1]]
  BY DEF Reverse
<1>3. \A k \in 1..n : Reverse(s)[k] = s[(n - k) + 1]
  BY <1>2
<1> QED BY <1>1, <1>3

LEMMA ReverseOfFirst ==
    ASSUME NEW S, NEW c \in S, NEW b \in Seq(S)
    PROVE  Reverse(<<c>> \o b) = Append(Reverse(b), c)
<1>1. PICK n \in Nat : n = Len(b)
  OBVIOUS
<1>2. PICK t \in Seq(S) :
        /\ t = <<c>> \o b /\ Len(t) = n + 1 /\ t[1] = c
        /\ \A k \in 1..n : t[k + 1] = b[k]
  <2>1. PICK one \in Seq(S) : one = <<c>> /\ Len(one) = 1 /\ one[1] = c
    <3>1. <<c>> \in Seq(S)
      OBVIOUS
    <3> QED BY <3>1
  <2>2. /\ one \o b \in Seq(S) /\ Len(one \o b) = 1 + n
        /\ \A k \in 1..(1 + n) : (one \o b)[k] = IF k <= 1 THEN one[k] ELSE b[k - 1]
    BY <1>1, <2>1, ConcatProperties
  <2>3. PICK t : t = one \o b
    OBVIOUS
  <2>4. t \in Seq(S) /\ Len(t) = n + 1
    BY <2>2, <2>3
  <2>5. t[1] = c
    <3>1. 1 \in 1..(1 + n) /\ 1 <= 1
      OBVIOUS
    <3> QED BY <2>1, <2>2, <2>3, <3>1
  <2>6. ASSUME NEW k \in 1..n PROVE t[k + 1] = b[k]
    <3>1. k + 1 \in 1..(1 + n) /\ ~(k + 1 <= 1) /\ (k + 1) - 1 = k
      OBVIOUS
    <3> QED BY <2>2, <2>3, <3>1
  <2> QED BY <2>1, <2>3, <2>4, <2>5, <2>6
<1>3. PICK r \in Seq(S) :
        r = Reverse(t) /\ Len(r) = n + 1 /\ \A k \in 1..(n + 1) : r[k] = t[((n + 1) - k) + 1]
  <2>1. PICK m \in Nat : m = n + 1
    OBVIOUS
  <2>2. /\ Reverse(t) \in Seq(S) /\ Len(Reverse(t)) = m
        /\ \A k \in 1..m : Reverse(t)[k] = t[(m - k) + 1]
    BY <1>2, <2>1, ReverseIs
  <2> QED BY <2>1, <2>2
<1>4. PICK v \in Seq(S) :
        v = Reverse(b) /\ Len(v) = n /\ \A k \in 1..n : v[k] = b[(n - k) + 1]
  BY <1>1, ReverseIs
<1>5. PICK w \in Seq(S) :
        /\ w = Append(v, c) /\ Len(w) = n + 1 /\ w[n + 1] = c
        /\ \A k \in 1..n : w[k] = v[k]
  <2>1. Append(v, c) \in Seq(S)
    OBVIOUS
  <2>2. /\ Len(Append(v, c)) = n + 1 /\ Append(v, c)[n + 1] = c
        /\ \A k \in 1..n : Append(v, c)[k] = v[k]
    BY <1>4
  <2> QED BY <2>1, <2>2
<1>6. ASSUME NEW k \in 1..(n + 1) PROVE r[k] = w[k]
  <2>1. CASE k = n + 1
    <3>1. ((n + 1) - k) + 1 = 1
      BY <1>1, <2>1
    <3>2. r[k] = t[1]
      BY <1>3, <3>1
    <3> QED BY <1>2, <1>5, <2>1, <3>2
  <2>2. CASE k # n + 1
    <3>1. PICK j \in 1..n : j = (n - k) + 1 /\ ((n + 1) - k) + 1 = j + 1
      <4>1. (n - k) + 1 \in 1..n /\ ((n + 1) - k) + 1 = ((n - k) + 1) + 1
        BY <2>2
      <4> QED BY <4>1
    <3>2. k \in 1..n
      BY <2>2
    <3>3. r[k] = t[j + 1] /\ t[j + 1] = b[j]
      BY <1>2, <1>3, <3>1
    <3>4. w[k] = v[k] /\ v[k] = b[j]
      BY <1>4, <1>5, <3>1, <3>2
    <3> QED BY <3>3, <3>4
  <2> QED BY <2>1, <2>2
<1>7. r = w
  BY <1>3, <1>5, <1>6, SeqEqual
<1> QED BY <1>2, <1>3, <1>4, <1>5, <1>7

\* The digits of a number are worth the number.
LEMMA BackwardsStep ==
    ASSUME NEW n \in 1..INT_MAX
    PROVE  /\ n \div 10 \in 0..(n - 1) /\ n \div 10 \in 0..INT_MAX
           /\ n % 10 \in 0..9 /\ 10 * (n \div 10) + (n % 10) = n
           /\ Backwards[n] = <<DigitChars[(n % 10) + 1]>> \o Backwards[n \div 10]
<1>1. INT_MAX \in Nat
  BY SumaAssumption
<1>2. /\ n \div 10 \in 0..(n - 1) /\ n \div 10 \in 0..INT_MAX
      /\ n % 10 \in 0..9 /\ 10 * (n \div 10) + (n % 10) = n
  BY <1>1
<1>3. n \in 0..INT_MAX /\ n # 0
  BY <1>1
<1>4. Backwards[n] = <<DigitChars[(n % 10) + 1]>> \o Backwards[n \div 10]
  BY <1>3, BackwardsIs, Zenon
<1> QED BY <1>2, <1>4

LEMMA BackwardsWorth ==
    ASSUME NEW n \in 0..INT_MAX
    PROVE  Magnitude(Reverse(Backwards[n])) = n
<1> DEFINE Worth(k) == Magnitude(Reverse(Backwards[k])) = k
           W == {m \in 0..INT_MAX : \A k \in 0..m : Worth(k)}
<1>1. INT_MAX \in Nat
  BY SumaAssumption
<1>2. 0 \in W
  <2>1. 0 \in 0..INT_MAX /\ \A k \in 0..0 : k = 0
    BY <1>1
  <2>2. Backwards[0] = <<>>
    BY <2>1, BackwardsIs, Zenon
  <2>3. Reverse(<<>>) = <<>>
    <3>1. <<>> \in Seq({}) /\ Len(<<>>) = 0
      BY EmptySeq
    <3>2. Reverse(<<>>) \in Seq({}) /\ Len(Reverse(<<>>)) = 0
      BY <3>1, ReverseType
    <3> QED BY <3>2, EmptySeq
  <2>4. Worth(0)
    BY <2>2, <2>3, MagnitudeOfNothing
  <2> HIDE DEF Worth
  <2> QED BY <2>1, <2>4
<1>3. ASSUME NEW m \in 0..(INT_MAX - 1), m \in W PROVE m + 1 \in W
  <2>1. m + 1 \in 1..INT_MAX /\ m + 1 \in 0..INT_MAX /\ m \in Nat
    BY <1>1
  <2>2. PICK q \in 0..m, d \in 0..9 :
          /\ q \in 0..INT_MAX /\ 10 * q + d = m + 1
          /\ Backwards[m + 1] = <<DigitChars[d + 1]>> \o Backwards[q]
    <3>1. (m + 1) \div 10 \in 0..m
      BY <2>1
    <3> QED BY <2>1, <3>1, BackwardsStep
  <2>3. Worth(q)
    <3> HIDE DEF Worth
    <3> QED BY <1>3, <2>2
  <2>4. PICK b \in Seq(Digits) : b = Backwards[q]
    BY <2>2, BackwardsType
  <2>5. PICK c \in Digits : c = DigitChars[d + 1] /\ DigitValue(c) = d
    <3>1. d + 1 \in 1..10
      BY <2>2
    <3>2. DigitChars[d + 1] \in Digits
      BY <3>1 DEF Digits
    <3> QED BY <2>2, <3>2, DigitsHaveValues
  <2>6. Reverse(Backwards[m + 1]) = Append(Reverse(b), c)
    BY <2>2, <2>4, <2>5, ReverseOfFirst, Zenon
  <2>7. Reverse(b) \in Seq(Digits)
    BY ReverseType
  <2>8. Magnitude(Append(Reverse(b), c)) = 10 * Magnitude(Reverse(b)) + DigitValue(c)
    BY <2>7, MagnitudeAppend, Zenon
  <2>9. Worth(m + 1)
    BY <2>2, <2>3, <2>4, <2>5, <2>6, <2>8
  <2>10. \A k \in 0..(m + 1) : k \in 0..m \/ k = m + 1
    BY <2>1
  <2> HIDE DEF Worth
  <2> QED BY <1>3, <2>1, <2>9, <2>10
<1>4. n \in W
  <2> HIDE DEF W
  <2> QED BY <1>1, <1>2, <1>3, IntervalInduction
<1>5. n \in 0..n
  BY <1>1
<1> QED BY <1>4, <1>5

\* What digits mean, without and with a minus before them.
LEMMA DigitsMean ==
    ASSUME NEW u \in Seq(Digits), u # <<>>
    PROVE  IsNumeral(u) /\ Meaning(u) = Magnitude(u)
<1>1. \A k \in DOMAIN u : u[k] \in Digits
  OBVIOUS
<1>2. u[1] # Minus
  <2>1. 1 \in DOMAIN u
    <3>1. Len(u) \in Nat \ {0}
      BY EmptySeq
    <3> QED BY <3>1
  <2> QED BY <1>1, <2>1, DigitsAreDigits, Zenon
<1>3. Unsigned(u) = u
  BY <1>2, Zenon DEF Unsigned, Minus
<1> QED BY <1>1, <1>3, Zenon DEF IsNumeral, Meaning

LEMMA SignBefore ==
    ASSUME NEW u \in Seq(Digits)
    PROVE  LET s == <<Minus>> \o u
           IN  /\ s \in Seq(Digits \cup {Minus}) /\ s # <<>> /\ s[1] = Minus
               /\ Tail(s) = u /\ u # s
<1> DEFINE S == Digits \cup {Minus}
<1>1. u \in Seq(S)
  BY SeqMonotonic
<1>2. PICK n \in Nat : n = Len(u)
  OBVIOUS
<1>3. PICK one \in Seq(S) : one = <<Minus>> /\ Len(one) = 1 /\ one[1] = Minus
  <2>1. <<Minus>> \in Seq(S)
    OBVIOUS
  <2> QED BY <2>1
<1> HIDE DEF S
<1>4. PICK s \in Seq(S) :
        /\ s = one \o u /\ Len(s) = 1 + n
        /\ \A k \in 1..(1 + n) : s[k] = IF k <= 1 THEN one[k] ELSE u[k - 1]
  <2>1. /\ one \o u \in Seq(S) /\ Len(one \o u) = 1 + n
        /\ \A k \in 1..(1 + n) : (one \o u)[k] = IF k <= 1 THEN one[k] ELSE u[k - 1]
    BY <1>1, <1>2, <1>3, ConcatProperties
  <2> QED BY <2>1
<1>5. s # <<>> /\ s[1] = Minus
  <2>1. 1 \in 1..(1 + n) /\ 1 <= 1 /\ 1 + n # 0
    OBVIOUS
  <2> QED BY <1>3, <1>4, <2>1, EmptySeq
<1>6. PICK t \in Seq(S) : t = Tail(s) /\ Len(t) = n /\ \A k \in 1..n : t[k] = s[k + 1]
  <2>1. Len(s) - 1 = n
    BY <1>4
  <2>2. /\ Tail(s) \in Seq(S) /\ Len(Tail(s)) = Len(s) - 1
        /\ \A k \in 1..(Len(s) - 1) : Tail(s)[k] = s[k + 1]
    BY <1>5, HeadTailProperties
  <2>3. /\ Tail(s) \in Seq(S) /\ Len(Tail(s)) = n
        /\ \A k \in 1..n : Tail(s)[k] = s[k + 1]
    BY <2>1, <2>2
  <2> HIDE DEF S
  <2> QED BY <2>3, Zenon
<1>7. ASSUME NEW k \in 1..n PROVE t[k] = u[k]
  <2>1. k + 1 \in 1..(1 + n) /\ ~(k + 1 <= 1) /\ (k + 1) - 1 = k
    OBVIOUS
  <2>2. s[k + 1] = u[k]
    BY <1>4, <2>1
  <2> QED BY <1>6, <2>2
<1>8. t = u
  BY <1>1, <1>2, <1>6, <1>7, SeqEqual
<1>9. u # s
  <2>1. 1 + n # n
    OBVIOUS
  <2> QED BY <1>2, <1>4, <2>1
<1> QED BY <1>3, <1>4, <1>5, <1>6, <1>8, <1>9 DEF S

LEMMA SignedMean ==
    ASSUME NEW u \in Seq(Digits), u # <<>>
    PROVE  IsNumeral(<<Minus>> \o u) /\ Meaning(<<Minus>> \o u) = -Magnitude(u)
<1>1. PICK s : s = <<Minus>> \o u
  OBVIOUS
<1>2. s # <<>> /\ s[1] = Minus /\ Tail(s) = u /\ u # s
  BY <1>1, SignBefore
<1>3. Unsigned(s) = u
  BY <1>2, Zenon DEF Unsigned, Minus
<1>4. \A k \in DOMAIN u : u[k] \in Digits
  OBVIOUS
<1> QED BY <1>1, <1>2, <1>3, <1>4, Zenon DEF IsNumeral, Meaning

\* A number other than the least one is what its text means.
LEMMA TextMeans ==
    ASSUME NEW num \in INT_MIN..INT_MAX, num # INT_MIN
    PROVE  IsNumeral(int_to_str(num)) /\ Meaning(int_to_str(num)) = num
<1>1. INT_MAX \in Nat /\ num \in Int /\ -num \in INT_MIN..INT_MAX
  BY SumaAssumption DEF INT_MIN
<1>2. PICK n \in 0..INT_MAX : n = (IF num < 0 THEN -num ELSE num) /\ (num # 0 => n > 0)
  BY <1>1 DEF INT_MIN
<1>3. n = IF num < 0 THEN AsInt(-num) ELSE num
  <2>1. AsInt(-num) = -num
    BY <1>1, AsIntOfInt, Zenon
  <2> QED BY <1>2, <2>1
<1>4. CASE num = 0
  <2>1. int_to_str(num) = <<"0">>
    BY <1>4 DEF int_to_str
  <2>2. DigitChars[0 + 1] = "0" /\ "0" \in Digits
    BY DigitCharsAre, DigitsAre
  <2>3. PICK c \in Digits : c = "0" /\ DigitValue(c) = 0
    <3>1. 0 \in 0..9
      OBVIOUS
    <3>2. DigitValue(DigitChars[0 + 1]) = 0
      BY <3>1, DigitsHaveValues, Zenon
    <3> QED BY <2>2, <3>2
  <2>4. <<c>> = Append(<<>>, c) /\ <<c>> \in Seq(Digits) /\ <<c>> # <<>> /\ <<>> \in Seq(Digits)
    OBVIOUS
  <2>5. Magnitude(<<c>>) = 10 * 0 + 0
    <3>1. Magnitude(Append(<<>>, c)) = 10 * Magnitude(<<>>) + DigitValue(c)
      BY <2>4, MagnitudeAppend, Zenon
    <3> QED BY <2>3, <2>4, <3>1, MagnitudeOfNothing
  <2>6. IsNumeral(<<c>>) /\ Meaning(<<c>>) = Magnitude(<<c>>)
    BY <2>4, DigitsMean, Zenon
  <2> QED BY <1>4, <2>1, <2>3, <2>5, <2>6
<1>5. CASE num # 0
  <2>1. PICK u \in Seq(Digits) : u = Reverse(Backwards[n]) /\ Magnitude(u) = n
    <3>1. Reverse(Backwards[n]) \in Seq(Digits)
      BY BackwardsType, ReverseType
    <3> QED BY <3>1, BackwardsWorth
  <2>2. u # <<>>
    BY <1>2, <1>5, <2>1, MagnitudeOfNothing
  <2>3. int_to_str(num) = (IF num < 0 THEN <<Minus>> ELSE <<>>) \o u
    BY <1>2, <1>3, <1>5, <2>1, Zenon DEF int_to_str, Minus
  <2>4. CASE num < 0
    <3>1. int_to_str(num) = <<Minus>> \o u /\ -n = num
      BY <1>1, <1>2, <2>3, <2>4
    <3> QED BY <2>1, <2>2, <3>1, SignedMean
  <2>5. CASE ~(num < 0)
    <3>1. int_to_str(num) = u /\ n = num
      BY <1>2, <2>3, <2>5, ConcatEmptySeq
    <3> QED BY <2>1, <2>2, <3>1, DigitsMean
  <2> QED BY <2>4, <2>5
<1> QED BY <1>4, <1>5

\* The end of a text, as long as it is seen and fits above the last row, stands
\* before the cursor when the text is printed.
LEMMA PrintEnd ==
    ASSUME NEW S, Space \in S, NEW d \in Screen(S), NEW str \in Seq(S),
           NEW n \in 0..Len(str), n <= LastRow * VGA_COLS,
           \A k \in (Len(str) - n + 1)..Len(str) : Seen(str[k])
    PROVE  LET e == vga_print(d, str)
           IN  /\ e \in Screen(S) /\ Position(e) \in Nat /\ Position(e) >= n
               /\ \A j \in 0..(n - 1) : Back(e, j) = str[Len(str) - j]
<1>1. PICK f : Printed(d, str, f) /\ vga_print(d, str) = f[Len(str)]
  BY PrintIsPrinted
<1>2. PICK N \in Nat : N = Len(str)
  OBVIOUS
<1>3. PICK M \in Nat : M + n = N
  <2>1. N - n \in Nat /\ (N - n) + n = N
    BY <1>2
  <2> QED BY <2>1
<1>4. PICK room \in Nat : room = LastRow * VGA_COLS /\ n <= room
  <2>1. LastRow \in Nat /\ VGA_COLS \in Nat
    BY Sizes DEF LastRow
  <2> QED BY <2>1
<1>5. \A m \in 0..n : M + m \in 0..Len(str) /\ f[M + m] \in Screen(S)
  <2>1. \A m \in 0..n : M + m \in 0..Len(str)
    BY <1>2, <1>3
  <2> QED BY <1>1, <2>1, PrintedType
<1>6. \A m \in 0..n : Position(f[M + m]) \in Nat
  <2>1. \A m \in 0..n : Position(f[M + m]) \in Cells
    BY <1>5, RowColumn DEF Position, Screen
  <2>2. Cells \subseteq Nat
    <3>1. PICK z \in Int : z = VGA_COLS * VGA_ROWS
      BY VgaAssumption
    <3> QED BY <3>1 DEF Cells
  <2> QED BY <2>1, <2>2
<1> DEFINE Stands(m) == /\ Position(f[M + m]) >= m
                        /\ \A j \in 0..(m - 1) : Back(f[M + m], j) = str[(M + m) - j]
           W == {m \in 0..n : Stands(m)}
<1>7. 0 \in W
  <2>1. 0 \in 0..n
    BY <1>2
  <2> QED BY <1>6, <2>1
<1>8. ASSUME NEW m \in 0..(n - 1), m \in W PROVE m + 1 \in W
  <2>1. PICK p \in Nat : p = M + m /\ p + 1 = M + (m + 1) /\ m \in 0..n /\ m + 1 \in 0..n
    <3>1. M + m \in Nat /\ (M + m) + 1 = M + (m + 1) /\ m \in 0..n /\ m + 1 \in 0..n
      BY <1>2
    <3> QED BY <3>1
  <2>2. /\ p + 1 \in 0..Len(str) /\ p + 1 \in 1..Len(str) /\ p + 1 # 0 /\ (p + 1) - 1 = p
        /\ p + 1 \in (Len(str) - n + 1)..Len(str)
    BY <1>2, <1>3, <2>1
  <2>3. PICK c \in S : c = str[p + 1] /\ Seen(c)
    BY <2>2
  <2>4. f[p + 1] = vga_putchar(f[p], c)
    BY <1>1, <2>2, <2>3, Zenon DEF Printed
  <2>5. PICK u \in Screen(S) : u = f[p] /\ Position(u) \in Nat
    BY <1>5, <1>6, <2>1
  <2>6. PICK e \in Screen(S) : e = f[p + 1] /\ Position(e) \in Nat
    BY <1>5, <1>6, <2>1
  <2>7. /\ Position(e) = Position(u) + 1 \/ Position(e) = room
        /\ Position(e) > 0 => Back(e, 0) = c
        /\ \A j \in Nat : j + 1 < Position(e) => Back(e, j + 1) = Back(u, j)
    BY <1>4, <2>3, <2>4, <2>5, <2>6, PutSeen
  <2>8. /\ Position(u) >= m /\ \A j \in 0..(m - 1) : Back(u, j) = str[p - j]
    BY <1>8, <2>1, <2>5
  <2>9. Position(e) >= m + 1
    BY <1>2, <1>4, <2>5, <2>6, <2>7, <2>8
  <2>10. ASSUME NEW j \in 0..m PROVE Back(e, j) = str[(p + 1) - j]
    <3>1. CASE j = 0
      <4>1. (p + 1) - j = p + 1 /\ Position(e) > 0
        BY <1>2, <2>6, <2>9, <3>1
      <4> QED BY <2>3, <2>7, <3>1, <4>1
    <3>2. CASE j # 0
      <4>1. PICK k \in 0..(m - 1) : j = k + 1 /\ (p + 1) - j = p - k
        <5>1. j - 1 \in 0..(m - 1) /\ j = (j - 1) + 1 /\ (p + 1) - j = p - (j - 1)
          BY <3>2
        <5> QED BY <5>1
      <4>2. k \in Nat /\ k + 1 < Position(e)
        BY <2>6, <2>9
      <4> QED BY <2>7, <2>8, <4>1, <4>2
    <3> QED BY <3>1, <3>2
  <2>11. Stands(m + 1)
    <3>1. (m + 1) - 1 = m
      BY <1>2
    <3> QED BY <2>1, <2>6, <2>9, <2>10, <3>1
  <2> HIDE DEF Stands
  <2> QED BY <2>1, <2>11
<1>9. Stands(n)
  <2> HIDE DEF W
  <2>1. n \in W
    <3>1. n \in Nat
      BY <1>2
    <3>2. \A m \in 0..n : m \in W
      BY <3>1, <1>7, <1>8, IntervalInduction
    <3> QED BY <3>1, <3>2
  <2> QED BY <2>1 DEF W
<1>10. n \in 0..n /\ M + n = Len(str)
  BY <1>2, <1>3
<1> QED BY <1>1, <1>5, <1>6, <1>9, <1>10

LEMMA NumeralsAreSeen ==
    ASSUME NEW c \in Numerals
    PROVE  c \in Char /\ Seen(c)
<1>1. c \in {"0", "1", "2", "3", "4", "5", "6", "7", "8", "9"} \/ c = "-"
  BY DigitsAre DEF Numerals
<1>2. Seen(c)
  BY <1>1, Zenon DEF Seen
<1> QED BY <1>2 DEF Char

LEMMA LastOfConcat ==
    ASSUME NEW S, NEW s \in Seq(S), NEW t \in Seq(S), t # <<>>
    PROVE  s \o t \in Seq(S) /\ s \o t # <<>> /\ Last(s \o t) = Last(t)
<1>1. PICK m \in Nat, n \in Nat \ {0} : m = Len(s) /\ n = Len(t)
  BY EmptySeq
<1>2. PICK u \in Seq(S) : u = s \o t /\ Len(u) = m + n /\ u[m + n] = t[n]
  <2>1. /\ s \o t \in Seq(S) /\ Len(s \o t) = m + n
        /\ \A k \in 1..(m + n) : (s \o t)[k] = IF k <= m THEN s[k] ELSE t[k - m]
    BY <1>1, ConcatProperties
  <2>2. m + n \in 1..(m + n) /\ ~(m + n <= m) /\ (m + n) - m = n
    BY <1>1
  <2> QED BY <2>1, <2>2
<1>3. u # <<>>
  BY <1>1, <1>2, EmptySeq
<1> QED BY <1>1, <1>2, <1>3 DEF Last

\* Numeral num stands between character c and the cursor.
ShownBehind(e, c, num) ==
    \E n \in 1..(Position(e) - 1) :
       LET shown == BeforeCursor(e, n + 1)
       IN  /\ shown[1] = c
           /\ IsNumeral(Tail(shown))
           /\ Meaning(Tail(shown)) = num

\* A number is shown behind the last character printed before it.
LEMMA NumberShown ==
    ASSUME NEW d \in Screen(Char), NEW before \in Seq(Char),
           before # <<>>, Seen(Last(before)),
           NEW num \in INT_MIN..INT_MAX, num # INT_MIN
    PROVE  ShownBehind(vga_print(d, before \o int_to_str(num)), Last(before), num)
<1>1. PICK s \in Seq(Char) :
        /\ s = int_to_str(num) /\ s # <<>> /\ IsNumeral(s) /\ Meaning(s) = num
        /\ \A k \in DOMAIN s : Seen(s[k])
  <2>1. PICK t \in Seq(Numerals) : t = int_to_str(num)
    BY TextOfInt
  <2>2. \A k \in DOMAIN t : t[k] \in Char /\ Seen(t[k])
    BY NumeralsAreSeen
  <2>3. t \in Seq(Char)
    BY <2>2, Retyped
  <2>4. IsNumeral(t) /\ Meaning(t) = num
    BY <2>1, TextMeans
  <2>5. t # <<>>
    BY <2>3, <2>4, NumeralStart, EmptySeq
  <2> QED BY <2>1, <2>2, <2>3, <2>4, <2>5
<1>2. PICK m \in Nat \ {0}, n \in Nat \ {0} : m = Len(before) /\ n = Len(s)
  BY <1>1, EmptySeq
<1>3. PICK str \in Seq(Char) :
        /\ str = before \o s /\ Len(str) = m + n
        /\ str[m] = Last(before) /\ \A k \in 1..n : str[m + k] = s[k]
  <2>1. /\ before \o s \in Seq(Char) /\ Len(before \o s) = m + n
        /\ \A k \in 1..(m + n) : (before \o s)[k] = IF k <= m THEN before[k] ELSE s[k - m]
    BY <1>2, ConcatProperties
  <2>2. m \in 1..(m + n) /\ m <= m
    BY <1>2
  <2>3. \A k \in 1..n : m + k \in 1..(m + n) /\ ~(m + k <= m) /\ (m + k) - m = k
    BY <1>2
  <2>4. (before \o s)[m] = Last(before)
    BY <1>2, <2>1, <2>2 DEF Last
  <2> QED BY <2>1, <2>3, <2>4
<1>4. ASSUME NEW k \in ((m + n) - (n + 1) + 1)..(m + n) PROVE Seen(str[k])
  <2>1. CASE k = m
    BY <1>3, <2>1
  <2>2. CASE k # m
    <3>1. PICK j \in 1..n : k = m + j
      <4>1. k - m \in 1..n /\ k = m + (k - m)
        BY <1>2, <2>2
      <4> QED BY <4>1
    <3>2. j \in DOMAIN s
      BY <1>2
    <3> QED BY <1>1, <1>3, <3>1, <3>2
  <2> QED BY <2>1, <2>2
<1>5. n + 1 <= LastRow * VGA_COLS
  <2>1. n < ReadMax /\ ReadMax <= LastRow * VGA_COLS /\ ReadMax \in Nat
    BY <1>1, <1>2, LineAssumption, TerminalAssumption
  <2>2. PICK z \in Int : z = LastRow * VGA_COLS
    <3>1. LastRow \in Nat /\ VGA_COLS \in Nat
      BY Sizes DEF LastRow
    <3> QED BY <3>1
  <2> QED BY <2>1, <2>2
<1>6. PICK e \in Screen(Char) :
        /\ e = vga_print(d, before \o s) /\ Position(e) \in Nat /\ Position(e) >= n + 1
        /\ \A j \in 0..n : Back(e, j) = str[(m + n) - j]
  <2>1. PICK w : w = n + 1 /\ w \in 0..Len(str) /\ w - 1 = n
    BY <1>2, <1>3
  <2>2. \A k \in (Len(str) - w + 1)..Len(str) : Seen(str[k])
    BY <1>3, <1>4, <2>1
  <2>3. Space \in Char
    BY DEF Char
  <2>4. LET p == vga_print(d, str)
        IN  /\ p \in Screen(Char) /\ Position(p) \in Nat /\ Position(p) >= w
            /\ \A j \in 0..(w - 1) : Back(p, j) = str[Len(str) - j]
    BY <1>5, <2>1, <2>2, <2>3, PrintEnd
  <2> QED BY <1>3, <2>1, <2>4
<1>7. PICK p \in Nat : p = Position(e) /\ p >= n + 1
  BY <1>6
<1>8. PICK shown : shown = BeforeCursor(e, n + 1)
  OBVIOUS
<1>9. shown = [k \in 1..(n + 1) |-> e.cells[p - (n + 1) + k - 1]]
  BY <1>7, <1>8 DEF BeforeCursor
<1>10. ASSUME NEW k \in 1..(n + 1) PROVE shown[k] = str[(m + k) - 1]
  <2>1. PICK j \in 0..n : j = (n + 1) - k
    <3>1. (n + 1) - k \in 0..n
      BY <1>2
    <3> QED BY <3>1
  <2>2. p - (n + 1) + k - 1 = p - 1 - j /\ (m + n) - j = (m + k) - 1
    BY <1>2, <1>7, <2>1
  <2>3. e.cells[p - 1 - j] = str[(m + n) - j]
    BY <1>6, <1>7 DEF Back
  <2> QED BY <1>9, <2>2, <2>3
<1>11. shown \in Seq(Char) /\ Len(shown) = n + 1
  <2>1. ASSUME NEW k \in 1..(n + 1) PROVE shown[k] \in Char
    <3>1. (m + k) - 1 \in 1..(m + n)
      BY <1>2
    <3>2. str[(m + k) - 1] \in Char
      BY <1>3, <3>1
    <3> QED BY <1>10, <3>2
  <2>2. shown \in [1..(n + 1) -> Char] /\ n + 1 \in Nat
    <3>1. shown = [k \in 1..(n + 1) |-> shown[k]]
      BY <1>9
    <3> QED BY <1>2, <2>1, <3>1
  <2>3. shown \in Seq(Char)
    BY <2>2, SeqDef
  <2> QED BY <2>2, <2>3
<1>12. shown[1] = Last(before)
  <2>1. 1 \in 1..(n + 1) /\ (m + 1) - 1 = m
    BY <1>2
  <2> QED BY <1>3, <1>10, <2>1
<1>13. Tail(shown) = s
  <2>1. shown # <<>> /\ Len(shown) - 1 = n
    BY <1>2, <1>11, EmptySeq
  <2>2. PICK t \in Seq(Char) : t = Tail(shown) /\ Len(t) = n /\ \A k \in 1..n : t[k] = shown[k + 1]
    <3>1. /\ Tail(shown) \in Seq(Char) /\ Len(Tail(shown)) = Len(shown) - 1
          /\ \A k \in 1..Len(Tail(shown)) : Tail(shown)[k] = shown[k + 1]
      BY <1>11, <2>1, HeadTailProperties
    <3>2. /\ Tail(shown) \in Seq(Char) /\ Len(Tail(shown)) = n
          /\ \A k \in 1..n : Tail(shown)[k] = shown[k + 1]
      BY <2>1, <3>1
    <3> QED BY <3>2, Zenon
  <2>3. ASSUME NEW k \in 1..n PROVE t[k] = s[k]
    <3>1. k + 1 \in 1..(n + 1) /\ (m + (k + 1)) - 1 = m + k
      BY <1>2
    <3>2. shown[k + 1] = str[m + k]
      BY <1>10, <3>1
    <3> QED BY <1>3, <2>2, <3>2
  <2>4. t = s
    BY <1>2, <2>2, <2>3, SeqEqual
  <2> QED BY <2>2, <2>4
<1>14. n \in 1..(Position(e) - 1)
  BY <1>2, <1>7
<1> QED BY <1>1, <1>6, <1>8, <1>12, <1>13, <1>14 DEF ShownBehind

\* The steps that read a number from a finished line.
LEMMA NumberRead ==
    ASSUME [TerminalNext]_tvars
    PROVE  /\ pc = "first_read" /\ pc' = "second" => FirstNumber
           /\ pc = "second_read" /\ pc' = "exit" => PrintSum
<1>1. CASE UNCHANGED tvars
  <2>1. pc' = pc
    BY <1>1 DEF tvars
  <2> QED BY <2>1
<1>2. CASE Tick
  <2>1. pc' = pc
    BY <1>2 DEF Tick
  <2> QED BY <2>1
<1>3. CASE \E t \in Task : TaskStep(t)
  <2>1. pc' = pc
    BY <1>3, TaskStepFrame
  <2> QED BY <2>1
<1>4. CASE ShellStep
  BY <1>4 DEF ShellStep, KeyArrives, esperar_tecla, process_block_others, BlockingDone,
              Prompt, Ignored, Erase, Echo, LineEnds, LoopEnds, EmptyCommand, Command,
              RunSuma, FirstNumber, PrintSum, SYS_EXIT, NextCode, ShellGoes, Reading
<1> QED BY <1>1, <1>2, <1>3, <1>4, NextIs

LEMMA LineOfProgram ==
    ASSUME TerminalTypes, pc \in {"first_read", "second_read"}
    PROVE  /\ Line \in Seq(Char) /\ first \in INT_MIN..INT_MAX
           /\ display \in Screen(Char)
<1>1. /\ buf \in [0..(ReadMax - 1) -> Char] /\ first \in INT_MIN..INT_MAX
      /\ display \in Screen(Char)
  BY DEF TerminalTypes, LineTypes, ProgramPc
<1>2. ReadMax \in Nat
  BY Sizes
<1> QED BY <1>1, <1>2, LineIs

\* The sum of what was read is the sum of what the two lines mean.
LEMMA SumOfRead ==
    ASSUME NEW a \in Int, NEW m \in Int
    PROVE  AsInt(a + AsInt(m)) = AsInt(a + m) /\ AsInt(a + m) \in INT_MIN..INT_MAX
<1>1. AsInt(m) \in Int /\ Alike(AsInt(m), m)
  <2>1. AsInt(m) \in INT_MIN..INT_MAX /\ Alike(AsInt(m), m)
    BY AsIntAlike
  <2> QED BY <2>1, WidthType
<1>2. PICK b \in Int : b = AsInt(m)
  BY <1>1
<1>3. Alike(a + b, a + m)
  BY <1>1, <1>2, AlikeAdded, Zenon
<1>4. a + b \in Int /\ a + m \in Int
  OBVIOUS
<1>5. AsInt(a + b) = AsInt(a + m)
  BY <1>3, <1>4, AsIntOfAlike, Zenon
<1> QED BY <1>2, <1>4, <1>5, AsIntType, Zenon

\* What PrintSum prints before the sum ends with the text "sum".
LEMMA BeforeSum ==
    ASSUME NEW a \in INT_MIN..INT_MAX, NEW b \in INT_MIN..INT_MAX
    PROVE  LET before == Text["a"] \o int_to_str(a) \o Text["b"] \o int_to_str(b) \o Text["sum"]
           IN  /\ before \in Seq(Char) /\ before # <<>>
               /\ Last(before) = Last(Text["sum"]) /\ Seen(Last(before))
<1>1. Text["a"] \in Seq(Char) /\ Text["b"] \in Seq(Char) /\ Text["sum"] \in Seq(Char)
  BY CharAlphabet DEF Alphabet, Texts
<1>2. int_to_str(a) \in Seq(Char) /\ int_to_str(b) \in Seq(Char)
  <2>1. Numerals \subseteq Char
    BY DEF Char
  <2>2. int_to_str(a) \in Seq(Numerals) /\ int_to_str(b) \in Seq(Numerals)
    BY TextOfInt
  <2> QED BY <2>1, <2>2, SeqMonotonic
<1>3. PICK s \in Seq(Char) : s = Text["a"] \o int_to_str(a) \o Text["b"] \o int_to_str(b)
  <2>1. Text["a"] \o int_to_str(a) \in Seq(Char)
    BY <1>1, <1>2, ConcatProperties, Zenon
  <2>2. Text["a"] \o int_to_str(a) \o Text["b"] \in Seq(Char)
    BY <1>1, <2>1, ConcatProperties, Zenon
  <2>3. Text["a"] \o int_to_str(a) \o Text["b"] \o int_to_str(b) \in Seq(Char)
    BY <1>2, <2>2, ConcatProperties, Zenon
  <2> QED BY <2>3, Zenon
<1>4. PICK t \in Seq(Char) : t = Text["sum"] /\ t # <<>> /\ Seen(Last(t))
  BY <1>1, LineAssumption DEF Seen
<1>5. s \o t \in Seq(Char) /\ s \o t # <<>> /\ Last(s \o t) = Last(t)
  BY <1>4, LastOfConcat
<1> QED BY <1>3, <1>4, <1>5, Zenon

LEMMA FirstStep ==
    ASSUME TerminalTypes, [TerminalNext]_tvars, pc = "first_read", pc' = "second", IsNumeral(Line)
    PROVE  first' = AsInt(Meaning(Line))
<1>1. first' = str_to_int(Line)
  BY NumberRead DEF FirstNumber
<1>2. Line \in Seq(Char)
  BY LineOfProgram
<1> QED BY <1>1, <1>2, NumeralIsRead, Zenon

LEMMA SumStep ==
    ASSUME TerminalTypes, [TerminalNext]_tvars, pc = "second_read", pc' = "exit", IsNumeral(Line),
           NEW sum, sum = AsInt(first + Meaning(Line)), sum # INT_MIN
    PROVE  ShownBehind(display', Last(Text["sum"]), sum)
<1>1. PrintSum
  BY NumberRead
<1>2. PICK line \in Seq(Char) : line = Line
  BY LineOfProgram
<1>3. PICK a \in INT_MIN..INT_MAX : a = first
  BY LineOfProgram
<1>4. PICK d \in Screen(Char) : d = display
  BY LineOfProgram
<1>5. PICK b \in INT_MIN..INT_MAX : b = str_to_int(line)
  BY IntOfText
<1>6. PICK m \in Int : m = Meaning(line) /\ b = AsInt(m)
  BY <1>2, <1>5, NumeralIsRead
<1>7. sum \in INT_MIN..INT_MAX /\ AsInt(a + b) = sum
  <2>1. a \in Int
    BY WidthType
  <2>2. AsInt(a + AsInt(m)) = AsInt(a + m) /\ AsInt(a + m) \in INT_MIN..INT_MAX
    BY <2>1, SumOfRead, Zenon
  <2> QED BY <1>2, <1>3, <1>6, <2>2, Zenon
<1>8. PICK before \in Seq(Char) :
        /\ before = Text["a"] \o int_to_str(a) \o Text["b"] \o int_to_str(b) \o Text["sum"]
        /\ before # <<>> /\ Last(before) = Last(Text["sum"]) /\ Seen(Last(before))
  BY BeforeSum, Zenon
<1>9. display' = vga_print(d, before \o int_to_str(sum))
  BY <1>1, <1>2, <1>3, <1>4, <1>5, <1>7, <1>8, Zenon DEF PrintSum
<1>10. ShownBehind(vga_print(d, before \o int_to_str(sum)), Last(before), sum)
  BY <1>7, <1>8, NumberShown, Zenon
<1> QED BY <1>8, <1>9, <1>10, Zenon

\* SumShown: for every size of an int, every text around the numbers and every
\* screen with a row above the last one that a number fits in, what stands behind
\* the last "=" is the sum of the two lines modulo the width of an int, whatever
\* was typed before (suma.c 57-105, 126-147).
THEOREM SumIsShown == TerminalSpec => SumShown
<1>1. TerminalTypes /\ [TerminalNext]_tvars
        => [/\ (pc = "first_read" /\ pc' = "second" /\ IsNumeral(Line)) =>
                  first' = AsInt(Meaning(Line))
            /\ (pc = "second_read" /\ pc' = "exit" /\ IsNumeral(Line)) =>
                  LET sum == AsInt(first + Meaning(Line))
                  IN  sum # INT_MIN =>
                        \E n \in 1..(Position(display') - 1) :
                           LET shown == BeforeCursor(display', n + 1)
                           IN  /\ shown[1] = Last(Text["sum"])
                               /\ IsNumeral(Tail(shown))
                               /\ Meaning(Tail(shown)) = sum]_tvars
  <2> SUFFICES ASSUME TerminalTypes, [TerminalNext]_tvars
               PROVE  /\ (pc = "first_read" /\ pc' = "second" /\ IsNumeral(Line)) =>
                             first' = AsInt(Meaning(Line))
                      /\ (pc = "second_read" /\ pc' = "exit" /\ IsNumeral(Line)) =>
                             LET sum == AsInt(first + Meaning(Line))
                             IN  sum # INT_MIN => ShownBehind(display', Last(Text["sum"]), sum)
    BY Zenon DEF ShownBehind
  <2> QED BY FirstStep, SumStep, Zenon
<1> QED BY <1>1, TypesHold, PTL DEF TerminalSpec, SumShown
=============================================================================
