--------------------------------- MODULE Screen ---------------------------------
(***************************************************************************)
(* The text screen (arch/i686/vga_text.c): the characters of the VGA       *)
(* buffer row by row, the cursor, the position the VGA shows it at, and    *)
(* whether a character outside the buffer was touched, where it stops.     *)
(***************************************************************************)
EXTENDS Integers, Sequences, SequencesExt

CONSTANTS
  ScreenWidth,  \* SCREEN_WIDTH
  ScreenHeight  \* SCREEN_HEIGHT

ASSUME ScreenAssumption ==
  ScreenWidth \in Nat \ {0} /\ ScreenHeight \in Nat \ {0}

Cells == 0..ScreenWidth * ScreenHeight - 1

set_char(s, x, y, c) == [s EXCEPT !.cells[y * ScreenWidth + x] = c]
get_char(s, x, y) == s.cells[y * ScreenWidth + x]

update_cursor(s) == [s EXCEPT !.shown = s.y * ScreenWidth + s.x]

\* vga_clear_screen, on a buffer with whatever the firmware left there.
ClearScreen ==
  [cells |-> [i \in Cells |-> "NUL"], x |-> 0, y |-> 0, shown |-> 0,
   outside |-> FALSE]

\* Fault: the lines move up, the cursor does not.
ScrollKeepsCursor(s, lines) ==
  [s EXCEPT !.cells = [i \in Cells |->
     IF i + lines * ScreenWidth \in Cells THEN s.cells[i + lines * ScreenWidth] ELSE "NUL"]]

vga_scrollback(s, lines) ==
  update_cursor([s EXCEPT
    !.cells = [i \in Cells |->
                 IF i + lines * ScreenWidth \in Cells THEN s.cells[i + lines * ScreenWidth]
                 ELSE "NUL"],
    !.y = @ - lines])

\* Fault: a backspace stops at the left edge.
BackspaceStopsAtEdge(s) ==
  LET back == [s EXCEPT !.x = IF @ = 0 THEN 0 ELSE @ - 1]
  IN set_char(back, back.x, back.y, "NUL")

\* A backspace at the left edge goes behind the last character of the row above; from
\* the first row it leaves the buffer.
Backspace(s) ==
  LET row == s.y - 1
      written == {x \in 0..ScreenWidth - 1 : get_char(s, x, row) # "NUL"}
      last == IF written = {} THEN 0 ELSE CHOOSE x \in written : \A z \in written : z <= x
      back == IF s.x > 0 THEN [s EXCEPT !.x = @ - 1]
              ELSE [s EXCEPT !.y = row,
                             !.x = IF written = {} THEN 0
                                   ELSE IF last < ScreenWidth - 1 THEN last + 1 ELSE last]
  IN IF s.x = 0 /\ s.y = 0 THEN [s EXCEPT !.outside = TRUE]
     ELSE set_char(back, back.x, back.y, "NUL")

put_char(s, c) ==
  LET moved ==
        CASE c = "NL" -> [s EXCEPT !.y = @ + 1, !.x = 0]
          [] c = "CR" -> [s EXCEPT !.x = 0]
          [] c = "TAB" -> [s EXCEPT !.x = @ + 4 - ((@ + 4) % 4)]
          [] c = "BS" -> Backspace(s)
          [] OTHER -> [set_char(s, s.x, s.y, c) EXCEPT !.x = @ + 1]
      wrapped == IF moved.x >= ScreenWidth THEN [moved EXCEPT !.x = 0, !.y = @ + 1]
                 ELSE moved
  IN IF wrapped.y >= ScreenHeight THEN vga_scrollback(wrapped, 1) ELSE wrapped

vga_putc(s, c) == update_cursor(put_char(s, c))

\* A text written to stdout: fputc and vfs_write for each character.
Write(s, text) == FoldLeft(vga_putc, s, text)
=============================================================================
