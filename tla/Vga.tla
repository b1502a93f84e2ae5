--------------------------------- MODULE Vga ---------------------------------
(***************************************************************************)
(* The text screen (vga.c): the characters in video memory and the cursor  *)
(* all output goes through.  Colours are left out.                         *)
(***************************************************************************)
EXTENDS Integers, Sequences

CONSTANTS VGA_COLS, VGA_ROWS    \* 80 and 50

ASSUME VgaAssumption == VGA_COLS \in Nat \ {0} /\ VGA_ROWS \in Nat \ {0}

VARIABLE display    \* vga, cursor_x and cursor_y

Space == " "

Cells == 0..(VGA_COLS * VGA_ROWS - 1)
LastRow == VGA_ROWS - 1

Position(d) == d.y * VGA_COLS + d.x

Blank == [cells |-> [k \in Cells |-> Space], x |-> 0, y |-> 0]

vga_clear == display' = Blank

\* Mutant: the rows stay where they are, only the last one is cleared.
vga_scroll_InPlace(d) ==
    [d EXCEPT !.cells = [k \in Cells |->
                            IF k \div VGA_COLS = LastRow THEN Space ELSE @[k]],
              !.y = LastRow]

vga_scroll(d) ==
    [d EXCEPT !.cells = [k \in Cells |->
                            IF k \div VGA_COLS = LastRow THEN Space
                            ELSE @[k + VGA_COLS]],
              !.y = LastRow]

\* The two tests at the end of vga_putchar.
Wrapped(d) == IF d.x >= VGA_COLS THEN [d EXCEPT !.x = 0, !.y = @ + 1] ELSE d

\* Mutant: the cursor may stand below the last row.
Scrolled_OneLate(d) == IF d.y > VGA_ROWS THEN vga_scroll(d) ELSE d

Scrolled(d) == IF d.y >= VGA_ROWS THEN vga_scroll(d) ELSE d

\* '\b' has no case of its own: like a letter, it is a cell of the screen.
vga_putchar(d, c) ==
    Scrolled(Wrapped(
        CASE c = "\n" -> [d EXCEPT !.x = 0, !.y = @ + 1]
          [] c = "\r" -> [d EXCEPT !.x = 0]
          [] c = "\t" -> [d EXCEPT !.x = ((@ + 4) \div 4) * 4]
          [] OTHER    -> [d EXCEPT !.cells[Position(d)] = c, !.x = @ + 1]))

vga_print(d, str) ==
    LET after[n \in 0..Len(str)] == IF n = 0 THEN d ELSE vga_putchar(after[n - 1], str[n])
    IN  after[Len(str)]
=============================================================================
