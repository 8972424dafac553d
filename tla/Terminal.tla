------------------------------ MODULE Terminal ------------------------------
(***************************************************************************)
(* What a console promises to whoever prints on it: a screen of ROWS lines *)
(* and a cursor that never leaves it.  A glyph goes where the cursor is; at*)
(* the end of a line, and for a newline, the cursor goes to the next line, *)
(* and on the last one the text moves up and a blank line appears.         *)
(***************************************************************************)
EXTENDS Integers

CONSTANTS Columns, Lines, Stop,   \* the screen; distance of the tab stops
          Glyphs, Blank

Column == 0 .. Columns - 1
Line   == 0 .. Lines - 1

VARIABLE terminal                 \* [screen, x, y]

BlankLine == [i \in Column |-> Blank]

NextLine(t) ==
    IF t.y < Lines - 1 THEN [t EXCEPT !.x = 0, !.y = @ + 1]
    ELSE [t EXCEPT !.x = 0,
                   !.screen = [l \in Line |-> IF l = t.y THEN BlankLine ELSE @[l + 1]]]

CursorTo(t, x) == IF x < Columns THEN [t EXCEPT !.x = x] ELSE NextLine(t)

\* The terminal after ch has been printed on it.
After(t, ch) ==
    CASE ch \in Glyphs    -> CursorTo([t EXCEPT !.screen[t.y][t.x] = ch], t.x + 1)
      [] ch = "newline"   -> NextLine(t)
      [] ch = "return"    -> CursorTo(t, 0)
      [] ch = "tab"       -> CursorTo(t, (t.x - (t.x % Stop)) + Stop)
      [] ch = "backspace" -> IF t.x = 0 THEN t ELSE CursorTo(t, t.x - 1)
      [] OTHER            -> t

TerminalInit == terminal = [screen |-> [l \in Line |-> BlankLine], x |-> 0, y |-> 0]

TerminalNext ==
    \E ch \in Glyphs \cup {"newline", "return", "tab", "backspace"} :
        terminal' = After(terminal, ch)

TerminalSpec == TerminalInit /\ [][TerminalNext]_terminal

=============================================================================
