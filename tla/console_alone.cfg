\* One task prints.
SPECIFICATION ShownSpec
CONSTANTS
    WRITERS = {w1}
    COLS = 4
    ROWS = 2
    TAB = 2
    GLYPHS = {"a", "b"}
    MAX_COL = 5
    MAX_ROW = 5
PROPERTY ImplementsTerminal
