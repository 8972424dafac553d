------------------------------ MODULE Console -------------------------------
(***************************************************************************)
(* FrogOS's console, lib/conio.c, as tasks use it: putch is linked into    *)
(* every one of them, the cursor csr_x, csr_y is shared, and a tick may    *)
(* take the CPU from a task between any two of its instructions.           *)
(*                                                                         *)
(* csr_x and csr_y are plain variables, so what a writer sees of the others*)
(* is up to the compiler.  The steps are those of gcc -O3 (lib/Makefile):  *)
(* putch loads csr_y once, at the start, and csr_x when it needs it, works *)
(* on the copies, and stores what it changes.  Each load and store is a    *)
(* step.  memcpy and memsetw are one step each, and move_csr, which only   *)
(* tells the hardware where to blink, is left out.                         *)
(***************************************************************************)
EXTENDS Integers

CONSTANTS
    WRITERS,      \* the tasks that print
    COLS, ROWS,   \* the screen (80 by 25)
    TAB,          \* distance of the tab stops (8)
    GLYPHS,       \* the printable characters
    MAX_COL,      \* bound: csr_x is loaded only below it
    MAX_ROW       \* bound: csr_y is loaded only below it

\* The characters that are no glyphs; "other" are those putch does not know.
Controls == {"newline", "return", "tab", "backspace", "other"}

ASSUME ConsoleAssumption ==
    /\ COLS \in Nat \ {0}
    /\ ROWS \in Nat \ {0}
    /\ TAB \in Nat \ {0}
    /\ MAX_COL \in Nat /\ MAX_COL > COLS
    /\ MAX_ROW \in Nat /\ MAX_ROW > ROWS
    /\ GLYPHS \cap Controls = {}

BLANK    == " "
Char     == GLYPHS \cup Controls
Cell     == 0 .. MAX_ROW * COLS + MAX_COL    \* video memory, beyond the screen too

Place == {"idle", "load_x", "write", "store_x", "return", "wrap", "down",
          "scroll", "copy", "blank", "last_row"}

\* A writer: where it is in putch, its argument, its copies of the cursor.
Writer == [at : Place, c : Char, x : 0 .. MAX_COL + TAB, y : 0 .. MAX_ROW]

VARIABLES
    csr_x, csr_y,
    video,        \* the characters in video memory
    writer,       \* the writers
    overrun       \* a copy of "minus some lines" has destroyed the memory

vars == <<csr_x, csr_y, video, writer, overrun>>

Idle(c) == [at |-> "idle", c |-> c, x |-> 0, y |-> 0]

\* The state cls leaves.
Init ==
    /\ csr_x = 0
    /\ csr_y = 0
    /\ video = [i \in Cell |-> BLANK]
    /\ writer = [w \in WRITERS |-> Idle("other")]
    /\ overrun = FALSE

At(w, place) == writer[w].at = place
In(w, place) == ~overrun /\ At(w, place)
Goto(w, place) == writer' = [writer EXCEPT ![w].at = place]

-----------------------------------------------------------------------------
(* putch, for writer w.                                                    *)

\* putch(c): csr_y is loaded.
Putch(w, c) ==
    /\ In(w, "idle")
    /\ csr_y < MAX_ROW
    /\ writer' = [writer EXCEPT ![w] =
           [at |-> CASE c = "newline" -> "wrap"
                     [] c = "return"  -> "return"
                     [] OTHER         -> "load_x",
            c |-> c, x |-> 0, y |-> csr_y]]
    /\ UNCHANGED <<csr_x, csr_y, video, overrun>>

\* Where a writer whose csr_x is x goes on: csr_x >= 80 makes a new line.
EdgePast(x) == IF x > COLS THEN "wrap" ELSE "scroll"     \* faulty variant
Edge(x) == IF x >= COLS THEN "wrap" ELSE "scroll"

\* csr_x is loaded.  A backspace in column 0 and the characters below ' ' that
\* putch does not know change nothing.
LoadX(w) ==
    /\ In(w, "load_x")
    /\ csr_x < MAX_COL
    /\ writer' = [writer EXCEPT ![w].x = csr_x,
           ![w].at = CASE writer[w].c \in GLYPHS -> "write"
                       [] writer[w].c = "tab"    -> "store_x"
                       [] writer[w].c = "backspace" /\ csr_x # 0 -> "store_x"
                       [] OTHER -> Edge(csr_x)]
    /\ UNCHANGED <<csr_x, csr_y, video, overrun>>

\* *where = c, where = video + (csr_y * 80 + csr_x).
Write(w) ==
    /\ In(w, "write")
    /\ video' = [video EXCEPT ![writer[w].y * COLS + writer[w].x] = writer[w].c]
    /\ Goto(w, "store_x")
    /\ UNCHANGED <<csr_x, csr_y, overrun>>

\* Faulty variant of Moved: the tab adds eight columns.
MovedBadTab(w) ==
    CASE writer[w].c = "tab"       -> writer[w].x + TAB
      [] writer[w].c = "backspace" -> writer[w].x - 1
      [] OTHER                     -> writer[w].x + 1

\* (x + 8) & ~(8 - 1).
NextStop(x) == (x + TAB) - ((x + TAB) % TAB)

\* The column after a tab, a backspace or a glyph.
Moved(w) ==
    CASE writer[w].c = "tab"       -> NextStop(writer[w].x)
      [] writer[w].c = "backspace" -> writer[w].x - 1
      [] OTHER                     -> writer[w].x + 1

StoreX(w) ==
    /\ In(w, "store_x")
    /\ csr_x' = Moved(w)
    /\ writer' = [writer EXCEPT ![w].x = Moved(w), ![w].at = Edge(Moved(w))]
    /\ UNCHANGED <<csr_y, video, overrun>>

Return(w) ==
    /\ In(w, "return")
    /\ csr_x' = 0
    /\ Goto(w, "scroll")
    /\ UNCHANGED <<csr_y, video, overrun>>

\* csr_x = 0; csr_y++, for a newline and at the edge.
Wrap(w) ==
    /\ In(w, "wrap")
    /\ csr_x' = 0
    /\ Goto(w, "down")
    /\ UNCHANGED <<csr_y, video, overrun>>

Down(w) ==
    /\ In(w, "down")
    /\ csr_y' = writer[w].y + 1
    /\ writer' = [writer EXCEPT ![w].y = @ + 1, ![w].at = "scroll"]
    /\ UNCHANGED <<csr_x, video, overrun>>

\* scroll(): if(csr_y >= 25) ...
Scroll(w) ==
    /\ In(w, "scroll")
    /\ writer' = [writer EXCEPT ![w] =
           IF writer[w].y >= ROWS THEN [@ EXCEPT !.at = "copy"] ELSE Idle("other")]
    /\ UNCHANGED <<csr_x, csr_y, video, overrun>>

\* temp = csr_y - 25 + 1.
Temp(w) == writer[w].y - ROWS + 1

\* memcpy(video, video + temp * 80, (25 - temp) * 80 * 2).
Copy(w) ==
    /\ In(w, "copy")
    /\ Temp(w) <= ROWS
    /\ video' = [i \in Cell |-> IF i < (ROWS - Temp(w)) * COLS
                                THEN video[i + Temp(w) * COLS] ELSE video[i]]
    /\ Goto(w, "blank")
    /\ UNCHANGED <<csr_x, csr_y, overrun>>

\* The same with temp > 25: the length is unsigned and wraps to some gigabytes.
Overrun(w) ==
    /\ In(w, "copy")
    /\ Temp(w) > ROWS
    /\ overrun' = TRUE
    /\ UNCHANGED <<csr_x, csr_y, video, writer>>

\* memsetw(video + (25 - temp) * 80, blank, 80).
Blanked(w) == (ROWS - Temp(w)) * COLS .. (ROWS - Temp(w) + 1) * COLS - 1

BlankLine(w) ==
    /\ In(w, "blank")
    /\ video' = [i \in Cell |-> IF i \in Blanked(w) THEN BLANK ELSE video[i]]
    /\ Goto(w, "last_row")
    /\ UNCHANGED <<csr_x, csr_y, overrun>>

\* Faulty variant of LastRow: csr_y stays.
LastRowForgotten(w) ==
    /\ In(w, "last_row")
    /\ writer' = [writer EXCEPT ![w] = Idle("other")]
    /\ UNCHANGED <<csr_x, csr_y, video, overrun>>

\* csr_y = 25 - 1.
LastRow(w) ==
    /\ In(w, "last_row")
    /\ csr_y' = ROWS - 1
    /\ writer' = [writer EXCEPT ![w] = Idle("other")]
    /\ UNCHANGED <<csr_x, video, overrun>>

Step(w) ==
    \/ \E c \in Char : Putch(w, c)
    \/ LoadX(w) \/ Write(w) \/ StoreX(w) \/ Return(w) \/ Wrap(w) \/ Down(w)
    \/ Scroll(w) \/ Copy(w) \/ Overrun(w) \/ BlankLine(w) \/ LastRow(w)

Next == \E w \in WRITERS : Step(w)

Spec == Init /\ [][Next]_vars

-----------------------------------------------------------------------------
(* Properties.                                                             *)

\* Every variable stays within its range.
TypeOK ==
    /\ csr_x \in 0 .. MAX_COL + TAB
    /\ csr_y \in 0 .. MAX_ROW
    /\ video \in [Cell -> GLYPHS \cup {BLANK}]
    /\ writer \in [WRITERS -> Writer]
    /\ overrun \in BOOLEAN

\* Whoever takes the cursor off the screen brings it back: however writers
\* overtake one another, it is off the screen only while one of them is on the
\* way to the assignment that corrects it.
Recovering ==
    /\ csr_x >= COLS => \E w \in WRITERS : At(w, "wrap")
    /\ csr_y >= ROWS => \E w \in WRITERS :
           /\ writer[w].at \in {"scroll", "copy", "blank", "last_row"}
           /\ writer[w].y >= ROWS

\* What the registers hold on the way.
RegistersOK ==
    \A w \in WRITERS :
        /\ writer[w].at \in {"load_x", "write", "store_x", "return", "wrap", "down"}
               => writer[w].y < MAX_ROW
        /\ writer[w].at \in {"write", "store_x"} => writer[w].x < MAX_COL
        /\ At(w, "write") => writer[w].c \in GLYPHS
        /\ writer[w].at \in {"copy", "blank", "last_row"} => writer[w].y >= ROWS
        /\ At(w, "store_x") /\ writer[w].c = "backspace" => writer[w].x > 0

\* The inductive invariant of ConsoleProof: writers that overtake one another
\* spoil neither their registers nor the way back to the screen.
ConsoleInv == TypeOK /\ RegistersOK /\ Recovering

\* With one writer: its copy of csr_y is csr_y, one line below the screen at most.
AloneInv ==
    /\ ~overrun
    /\ csr_y <= ROWS
    /\ \A w \in WRITERS : ~At(w, "idle") => writer[w].y = csr_y

\* When nobody prints the cursor is on the screen, whatever has been printed
\* before and in whatever interleaving.
AllIdle == \A w \in WRITERS : At(w, "idle")

CursorOnScreen == AllIdle => csr_x < COLS /\ csr_y < ROWS

\* "... the last line of text": scroll leaves the last line of the screen blank.
LastLineBlank ==
    [][\A w \in WRITERS : BlankLine(w) =>
        \A i \in (ROWS - 1) * COLS .. ROWS * COLS - 1 : video'[i] = BLANK]_vars

=============================================================================
