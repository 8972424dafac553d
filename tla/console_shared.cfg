\* Two tasks print blanks, so the screen does not matter.  After an overrun
\* the system has stopped.
SPECIFICATION Spec
CONSTANTS
    WRITERS = {w1, w2}
    COLS = 2
    ROWS = 2
    TAB = 1
    GLYPHS = {" "}
    MAX_COL = 4
    MAX_ROW = 5
SYMMETRY Symmetry
INVARIANT ConsoleInv
INVARIANT CursorOnScreen
CHECK_DEADLOCK FALSE
