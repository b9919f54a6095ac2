-------------------------------- MODULE Text --------------------------------
(***************************************************************************)
(* The text console, Kernel/textModule.c, over the frame buffer of         *)
(* Kernel/drivers/videoDriver.c.                                           *)
(*                                                                         *)
(* A console t is a record: the cursor x, y (x_pos, y_pos), fontSize, the  *)
(* screen, and wild, which says that something was ever drawn outside the  *)
(* frame buffer.  Lengths are in units of 8 pixels, the size of a glyph of *)
(* font size 1, so that a glyph is a square of fontSize units.  screen is  *)
(* the set of the glyphs that can be seen: [x, y, size, ch].               *)
(*                                                                         *)
(* A character is a name; "NL", "BS" and "TAB" are the control characters, *)
(* "NUL" and "EOF" are the bytes 0 and -1.                                 *)
(***************************************************************************)
EXTENDS Integers, Sequences

CONSTANTS Width, Height      \* getWidth() and getHeight()

ASSUME ScreenAssumption == Width \in Nat \ {0} /\ Height \in Nat \ {0}

TOPE_FONT == 5

\* The glyphs without a pixel.
Blank == {" ", "TAB", "BS", "NUL"}

\* The state main() finds: an empty screen and font size 2.
EmptyConsole == [x |-> 0, y |-> 0, fontSize |-> 2, screen |-> {}, wild |-> FALSE]

\* putPixel and drawSquare do not look at the limits of the frame buffer.
Outside(t) == \/ t.x < 0 \/ t.x + t.fontSize > Width
              \/ t.y < 0 \/ t.y + t.fontSize > Height

\* A glyph is drawn over what is there.
DrawGlyph(t, ch) ==
  IF ch \in Blank THEN t
  ELSE [t EXCEPT !.screen = @ \cup {[x |-> t.x, y |-> t.y, size |-> t.fontSize, ch |-> ch]},
                 !.wild   = @ \/ Outside(t)]

\* A square at the cursor is painted black.
Erase(t) ==
  [t EXCEPT !.screen = {g \in @ : \/ g.x + g.size <= t.x \/ t.x + t.fontSize <= g.x
                                  \/ g.y + g.size <= t.y \/ t.y + t.fontSize <= g.y},
            !.wild   = @ \/ Outside(t)]

ClearText(t) == [t EXCEPT !.screen = {}, !.x = 0, !.y = 0]

\* Mutant: the screen does not scroll.
NoScroll(t) == t

\* moveScreenUpIfFull: the cursor never stays on the last line.  What
\* leaves the screen at the top is gone, and the last line is black.
MoveScreenUpIfFull(t) ==
  IF t.y >= Height - t.fontSize
  THEN [t EXCEPT !.screen = {[g EXCEPT !.y = @ - t.fontSize] :
                               g \in {h \in @ : h.y + h.size > t.fontSize}},
                 !.y = @ - t.fontSize]
  ELSE t

LineFeed(t) == MoveScreenUpIfFull([t EXCEPT !.y = @ + t.fontSize, !.x = 0])

\* The cursor goes back by one glyph, over the start of a line to the end of
\* the line above, and what is there is erased.
DeleteChar(t) ==
  LET back == IF t.x > 0 THEN [t EXCEPT !.x = @ - t.fontSize]
              ELSE IF t.y > 0 THEN [t EXCEPT !.x = Width - t.fontSize, !.y = @ - t.fontSize]
              ELSE t
  IN  Erase(back)

\* putChar.  At the right edge any character but a newline first goes to the
\* next line and is then drawn, a backspace as well.
PutChar(t, ch) ==
  LET edge == t.x + t.fontSize > Width
      next == IF ch = "NL" \/ edge THEN LineFeed(t)
              ELSE IF ch \notin {"TAB", "BS"} /\ t.y + t.fontSize > Height THEN ClearText(t)
              ELSE t
  IN  IF ch = "NL" THEN next
      ELSE IF ch = "BS" /\ ~edge THEN DeleteChar(t)
      ELSE [DrawGlyph(next, ch) EXCEPT !.x = @ + t.fontSize]

\* syscall_write to the terminal: up to the first byte -1.
Printed(text) == LET eof == {i \in DOMAIN text : text[i] = "EOF"}
                 IN  IF eof = {} THEN text
                     ELSE SubSeq(text, 1, (CHOOSE i \in eof : \A j \in eof : i <= j) - 1)

\* (f[i] holds the console after i characters, alone in a set: TLC evaluates
\* the members of a set once, and a parameter wherever it is used.)
Write(t, text) ==
  LET out == Printed(text)
      f[i \in 0..Len(out)] == IF i = 0 THEN {t} ELSE {PutChar(u, out[i]) : u \in f[i - 1]}
  IN  CHOOSE u \in f[Len(out)] : TRUE

\* The size is unsigned: only a result of 0 is below 1.
FontSizeUp(t, n)   == IF t.fontSize + n <= TOPE_FONT THEN [t EXCEPT !.fontSize = @ + n] ELSE t
FontSizeDown(t, n) == IF t.fontSize # n THEN [t EXCEPT !.fontSize = @ - n] ELSE t

\* What is drawn in the place of a glyph that ends where the cursor is, n
\* glyphs back: the place is counted along the lines.
GlyphBack(t, n) ==
  LET columns == Width \div t.fontSize
      place   == (t.y \div t.fontSize) * columns + (t.x \div t.fontSize) - n
      x0      == (place % columns) * t.fontSize
      y0      == (place \div columns) * t.fontSize
  IN  {g.ch : g \in {h \in t.screen : h.x = x0 /\ h.y = y0}}
=============================================================================
