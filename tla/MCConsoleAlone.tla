--------------------------- MODULE MCConsoleAlone ---------------------------
(***************************************************************************)
(* Console with one task, and its refinement of Terminal: shown is a       *)
(* history variable, the terminal as it was when the task was last outside *)
(* putch.                                                                  *)
(***************************************************************************)
EXTENDS Console

VARIABLE shown

\* What a memory and a cursor show.
Text(memory) == [l \in 0 .. ROWS - 1 |-> [i \in 0 .. COLS - 1 |-> memory[l * COLS + i]]]

Drawn(memory, x, y) == [screen |-> Text(memory), x |-> x, y |-> y]

Screen == Drawn(video, csr_x, csr_y)

ShownSpec ==
    /\ Init /\ shown = Screen
    /\ [][Next /\ shown' = IF AllIdle' THEN Screen' ELSE shown]_<<vars, shown>>

T == INSTANCE Terminal WITH
        Columns <- COLS, Lines <- ROWS, Stop <- TAB,
        Glyphs <- GLYPHS, Blank <- BLANK, terminal <- shown

\* A task that prints alone finds the terminal it expects.
ImplementsTerminal == T!TerminalSpec

-----------------------------------------------------------------------------
(* The inductive invariant of ConsoleProof.                                *)

TerminalType == [screen : [0 .. ROWS - 1 -> [0 .. COLS - 1 -> GLYPHS \cup {BLANK}]],
                 x : 0 .. COLS - 1, y : 0 .. ROWS - 1]

\* A terminal with the character under its cursor replaced.
Marked(t, c) == [t EXCEPT !.screen[t.y][t.x] = c]

\* A terminal whose last line has been blanked.
Cleared(t) == [t EXCEPT !.screen[ROWS - 1] = T!BlankLine]

\* How much of its character a writer r has printed on the terminal t: the memory and
\* the cursor show t, or what t is going to be, or what lies between.
Underway(r, t, memory, x, y) ==
    LET here == Drawn(memory, x, y)
        last == Drawn(memory, x, ROWS - 1)
        goal == T!After(t, r.c)
    IN /\ r.at \in {"idle", "load_x", "write", "return"} => here = t
       /\ r.at = "load_x" => r.c \notin {"newline", "return"}
       /\ r.at = "return" => r.c = "return"
       /\ r.at \in {"write", "store_x"} => r.x = x
       /\ r.at = "store_x" =>
              /\ r.c \in GLYPHS \cup {"tab", "backspace"}
              /\ here = IF r.c \in GLYPHS THEN Marked(t, r.c) ELSE t
       /\ r.at \in {"wrap", "down"} => T!NextLine(here) = goal
       /\ r.at = "scroll" /\ y < ROWS => here = goal
       /\ r.at = "down" \/ y = ROWS => x = 0
       /\ (r.at = "scroll" /\ y = ROWS) \/ r.at = "copy" => T!NextLine(last) = goal
       /\ r.at = "blank" => Cleared(last) = goal
       /\ r.at = "last_row" => last = goal

ShownInv ==
    /\ shown \in TerminalType
    /\ \A w \in WRITERS : Underway(writer[w], shown, video, csr_x, csr_y)

=============================================================================
