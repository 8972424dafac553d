\* Does scroll blank the last line?
SPECIFICATION Spec
CONSTANTS
    WRITERS = {w1, w2}
    COLS = 2
    ROWS = 2
    TAB = 2
    GLYPHS = {"a"}
    MAX_COL = 4
    MAX_ROW = 4
PROPERTY LastLineBlank
CHECK_DEADLOCK FALSE
