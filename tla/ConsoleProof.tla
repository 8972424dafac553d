---------------------------- MODULE ConsoleProof ----------------------------
(***************************************************************************)
(* However many tasks print at once and wherever ticks interrupt them, the *)
(* cursor is back on the screen when the last of them has finished.        *)
(***************************************************************************)
EXTENDS MCConsoleAlone, TLAPS

USE DEF In

\* The next tab stop is at most TAB columns away.
LEMMA NextStopBounds ==
    ASSUME NEW x \in Nat
    PROVE  NextStop(x) \in 0 .. x + TAB
<1>1. TAB \in Nat /\ TAB > 0
  BY ConsoleAssumption
<1>2. (x + TAB) % TAB \in 0 .. TAB - 1
  BY <1>1
<1> QED
  BY <1>1, <1>2 DEF NextStop

\* cls leaves the invariant true.
LEMMA ConsoleInit == Init => ConsoleInv
<1> SUFFICES ASSUME Init PROVE ConsoleInv
  OBVIOUS
<1>1. TypeOK
  <2>1. Idle("other") \in Writer
    BY ConsoleAssumption DEF Idle, Writer, Place, Char, Controls
  <2> QED
    <3>1. 0 \in 0 .. MAX_COL + TAB /\ 0 \in 0 .. MAX_ROW
      BY ConsoleAssumption
    <3>2. writer \in [WRITERS -> Writer]
      BY <2>1 DEF Init
    <3>3. video \in [Cell -> GLYPHS \cup {BLANK}]
      BY DEF Init
    <3> QED
      BY <3>1, <3>2, <3>3 DEF Init, TypeOK
<1>2. RegistersOK
  BY DEF Init, RegistersOK, Idle, At
<1>3. Recovering
  BY ConsoleAssumption DEF Init, Recovering
<1> QED
  BY <1>1, <1>2, <1>3 DEF ConsoleInv

\* One writer's step preserves its type and that of what it shares.
LEMMA ConsoleType ==
    ASSUME ConsoleInv, NEW w \in WRITERS, Step(w)
    PROVE  TypeOK'
<1> USE ConsoleAssumption DEF TypeOK, Writer, Place
<1>0. /\ TypeOK
      /\ writer[w].y < MAX_ROW \/ writer[w].at \in {"idle", "scroll", "copy", "blank", "last_row"}
      /\ writer[w].at \in {"write", "store_x"} => writer[w].x < MAX_COL
      /\ At(w, "write") => writer[w].c \in GLYPHS
      /\ At(w, "store_x") /\ writer[w].c = "backspace" => writer[w].x > 0
      /\ At(w, "copy") => writer[w].y >= ROWS
  BY DEF ConsoleInv, RegistersOK, At
<1>1. ASSUME NEW c \in Char, Putch(w, c) PROVE TypeOK'
  BY <1>0, <1>1 DEF Putch, At
<1>2. CASE LoadX(w)
  BY <1>0, <1>2, ZenonT(30) DEF LoadX, Edge
<1>3. CASE Write(w)
  BY <1>0, <1>3, ZenonT(30) DEF Write, At, Goto
<1>4. CASE StoreX(w)
  <2>1. Moved(w) \in 0 .. MAX_COL + TAB
    BY <1>0, <1>4, NextStopBounds DEF StoreX, Moved, At
  <2>2. Edge(Moved(w)) \in Place
    BY DEF Edge
  <2> QED
    BY <1>0, <1>4, <2>1, <2>2, ZenonT(30) DEF StoreX
<1>5. CASE Return(w)
  BY <1>0, <1>5 DEF Return, Goto
<1>6. CASE Wrap(w)
  BY <1>0, <1>6 DEF Wrap, Goto
<1>7. CASE Down(w)
  BY <1>0, <1>7 DEF Down, At
<1>8. CASE Scroll(w)
  BY <1>0, <1>8 DEF Scroll, Idle, Char, Controls
<1>9. CASE Copy(w)
  <2>1. Temp(w) \in Int /\ Temp(w) >= 0
    BY <1>0, <1>9 DEF Copy, Temp, At
  <2>2. ASSUME NEW i \in Cell, i < (ROWS - Temp(w)) * COLS
        PROVE  i + Temp(w) * COLS \in Cell
    <3>1. (ROWS - Temp(w)) * COLS + Temp(w) * COLS = ROWS * COLS
      BY <2>1
    <3>2. ROWS * COLS \in Nat /\ ROWS * COLS <= MAX_ROW * COLS
      OBVIOUS
    <3>3. Temp(w) * COLS \in Nat /\ (ROWS - Temp(w)) * COLS \in Int
      BY <2>1
    <3> QED
      BY <2>2, <3>1, <3>2, <3>3 DEF Cell
  <2>3. video' \in [Cell -> GLYPHS \cup {BLANK}]
    BY <1>0, <1>9, <2>2 DEF Copy
  <2> QED
    BY <1>0, <1>9, <2>3 DEF Copy, Goto
<1>10. CASE Overrun(w)
  BY <1>0, <1>10 DEF Overrun
<1>11. CASE BlankLine(w)
  BY <1>0, <1>11 DEF BlankLine, Goto
<1>12. CASE LastRow(w)
  BY <1>0, <1>12 DEF LastRow, Idle, Char, Controls
<1> QED
  BY <1>1, <1>2, <1>3, <1>4, <1>5, <1>6, <1>7, <1>8, <1>9, <1>10, <1>11, <1>12 DEF Step

\* What a writer's registers hold is nobody else's business.
LEMMA ConsoleRegisters ==
    ASSUME ConsoleInv, NEW w \in WRITERS, Step(w)
    PROVE  RegistersOK'
<1> USE ConsoleAssumption DEF TypeOK, Writer, Place
<1>0. TypeOK /\ RegistersOK
  BY DEF ConsoleInv
<1> SUFFICES ASSUME NEW v \in WRITERS
             PROVE  /\ writer'[v].at \in {"load_x", "write", "store_x", "return", "wrap", "down"}
                           => writer'[v].y < MAX_ROW
                    /\ writer'[v].at \in {"write", "store_x"} => writer'[v].x < MAX_COL
                    /\ writer'[v].at = "write" => writer'[v].c \in GLYPHS
                    /\ writer'[v].at \in {"copy", "blank", "last_row"} => writer'[v].y >= ROWS
                    /\ writer'[v].at = "store_x" /\ writer'[v].c = "backspace"
                           => writer'[v].x > 0
  BY DEF RegistersOK, At
<1>1. CASE v # w
  <2>1. writer'[v] = writer[v]
    BY <1>0, <1>1 DEF Step, Putch, LoadX, Write, StoreX, Return, Wrap, Down, Scroll,
                      Copy, Overrun, BlankLine, LastRow, Goto
  <2> QED
    BY <1>0, <2>1 DEF RegistersOK, At
<1>2. CASE v = w
  <2> USE <1>0, <1>2 DEF RegistersOK, At
  <2>1. ASSUME NEW c \in Char, Putch(w, c)
        PROVE  writer'[w].at \in {"wrap", "return", "load_x"} /\ writer'[w].y < MAX_ROW
    BY <2>1 DEF Putch
  <2>2. CASE LoadX(w)
    BY <2>2 DEF LoadX, Edge
  <2>3. CASE Write(w)
    BY <2>3 DEF Write, Goto, Controls
  <2>4. CASE StoreX(w)
    BY <2>4 DEF StoreX, Edge
  <2>5. CASE Return(w)
    BY <2>5 DEF Return, Goto
  <2>6. CASE Wrap(w)
    BY <2>6 DEF Wrap, Goto
  <2>7. CASE Down(w)
    BY <2>7 DEF Down
  <2>8. CASE Scroll(w)
    BY <2>8 DEF Scroll, Idle
  <2>9. CASE Copy(w)
    BY <2>9 DEF Copy, Goto
  <2>10. CASE Overrun(w)
    BY <2>10 DEF Overrun
  <2>11. CASE BlankLine(w)
    BY <2>11 DEF BlankLine, Goto
  <2>12. CASE LastRow(w)
    BY <2>12 DEF LastRow, Idle
  <2> QED
    BY <2>1, <2>2, <2>3, <2>4, <2>5, <2>6, <2>7, <2>8, <2>9, <2>10, <2>11, <2>12 DEF Step
<1> QED
  BY <1>1, <1>2

\* Whoever takes csr_x past the edge is then at the assignment that resets it, and
\* whoever leaves that place has reset it.
LEMMA ColumnRecovers ==
    ASSUME ConsoleInv, NEW w \in WRITERS, Step(w), csr_x' >= COLS
    PROVE  \E v \in WRITERS : writer'[v].at = "wrap"
<1> USE ConsoleAssumption DEF TypeOK, Writer
<1>0. TypeOK /\ (csr_x >= COLS => \E v \in WRITERS : At(v, "wrap"))
  BY DEF ConsoleInv, Recovering
<1>1. CASE StoreX(w)
  <2>1. csr_x' = Moved(w) /\ Moved(w) >= COLS
    BY <1>1 DEF StoreX
  <2>2. writer'[w].at = "wrap"
    BY <1>0, <1>1, <2>1 DEF StoreX, Edge
  <2> QED
    BY <2>2
<1>2. CASE Wrap(w) \/ Return(w)
  BY <1>2 DEF Wrap, Return
<1>3. CASE ~StoreX(w) /\ ~Wrap(w) /\ ~Return(w)
  <2>1. csr_x' = csr_x /\ ~At(w, "wrap")
    BY <1>3 DEF Step, Putch, LoadX, Write, Down, Scroll, Copy, Overrun, BlankLine, LastRow, At
  <2>2. PICK v \in WRITERS : At(v, "wrap")
    BY <1>0, <2>1
  <2>3. v # w
    BY <2>1, <2>2
  <2>4. writer'[v] = writer[v]
    BY <1>0, <1>3, <2>3 DEF Step, Putch, LoadX, Write, Down, Scroll, Copy, Overrun,
                            BlankLine, LastRow, Goto
  <2> QED
    BY <2>2, <2>4 DEF At
<1> QED
  BY <1>1, <1>2, <1>3

\* The same for csr_y and the end of scroll.
LEMMA RowRecovers ==
    ASSUME ConsoleInv, NEW w \in WRITERS, Step(w), csr_y' >= ROWS
    PROVE  \E v \in WRITERS :
               /\ writer'[v].at \in {"scroll", "copy", "blank", "last_row"}
               /\ writer'[v].y >= ROWS
<1> USE ConsoleAssumption DEF TypeOK, Writer
<1> DEFINE Below(v) == /\ writer[v].at \in {"scroll", "copy", "blank", "last_row"}
                       /\ writer[v].y >= ROWS
<1>0. TypeOK /\ (csr_y >= ROWS => \E v \in WRITERS : Below(v))
  BY DEF ConsoleInv, Recovering
<1>1. CASE Down(w)
  <2>1. writer'[w].at = "scroll" /\ writer'[w].y = csr_y'
    BY <1>0, <1>1 DEF Down
  <2> QED
    BY <2>1
<1>2. CASE LastRow(w)
  BY <1>2 DEF LastRow
<1>3. CASE ~Down(w) /\ ~LastRow(w)
  <2>1. csr_y' = csr_y
    BY <1>3 DEF Step, Putch, LoadX, Write, StoreX, Return, Wrap, Scroll, Copy, Overrun, BlankLine
  <2>2. PICK v \in WRITERS : Below(v)
    BY <1>0, <2>1
  <2>3. CASE v # w
    <3>1. writer'[v] = writer[v]
      BY <1>0, <1>3, <2>3 DEF Step, Putch, LoadX, Write, StoreX, Return, Wrap, Scroll, Copy,
                              Overrun, BlankLine, Goto
    <3> QED
      BY <2>2, <3>1
  <2>4. CASE v = w
    <3>1. Scroll(w) \/ Copy(w) \/ Overrun(w) \/ BlankLine(w)
      BY <1>3, <2>2, <2>4 DEF Step, Putch, LoadX, Write, StoreX, Return, Wrap, At
    <3>2. writer'[w].at \in {"copy", "blank", "last_row"} /\ writer'[w].y = writer[w].y
      BY <1>0, <2>2, <2>4, <3>1 DEF Scroll, Copy, Overrun, BlankLine, Goto, At
    <3> QED
      BY <2>2, <2>4, <3>2
  <2> QED
    BY <2>3, <2>4
<1> QED
  BY <1>1, <1>2, <1>3

LEMMA ConsoleStep == ConsoleInv /\ [Next]_vars => ConsoleInv'
<1> SUFFICES ASSUME ConsoleInv, [Next]_vars PROVE ConsoleInv'
  OBVIOUS
<1>1. ASSUME NEW w \in WRITERS, Step(w) PROVE ConsoleInv'
  <2>1. TypeOK'
    BY <1>1, ConsoleType
  <2>2. RegistersOK'
    BY <1>1, ConsoleRegisters
  <2>3. Recovering'
    BY <1>1, ColumnRecovers, RowRecovers DEF Recovering, At
  <2> QED
    BY <2>1, <2>2, <2>3 DEF ConsoleInv
<1>2. CASE UNCHANGED vars
  BY <1>2 DEF vars, ConsoleInv, TypeOK, RegistersOK, Recovering, At
<1> QED
  BY <1>1, <1>2 DEF Next

\* Writers that overtake one another leave every variable in its range, their
\* registers fit for the next step, and the way back to the screen open.
THEOREM ConsoleCorrect == Spec => []ConsoleInv
BY ConsoleInit, ConsoleStep, PTL DEF Spec

\* When nobody prints the cursor is on the screen.
THEOREM CursorComesBack == Spec => []CursorOnScreen
<1>1. ConsoleInv => CursorOnScreen
  <2> SUFFICES ASSUME ConsoleInv, AllIdle PROVE csr_x < COLS /\ csr_y < ROWS
    BY DEF CursorOnScreen
  <2>1. \A w \in WRITERS : writer[w].at = "idle"
    BY DEF AllIdle, At
  <2>2. ~(csr_x >= COLS) /\ ~(csr_y >= ROWS)
    BY <2>1 DEF ConsoleInv, Recovering, At
  <2> QED
    BY <2>2, ConsoleAssumption DEF ConsoleInv, TypeOK
<1> QED
  BY <1>1, ConsoleCorrect, PTL

-----------------------------------------------------------------------------
(* One task that prints alone.                                             *)

\* Its step changes its own copy of csr_y and csr_y itself alike.
LEMMA AloneStep ==
    ASSUME ConsoleInv, AloneInv, NEW w \in WRITERS, WRITERS = {w}, Step(w)
    PROVE  AloneInv'
<1> USE ConsoleAssumption
<1>1. TypeOK /\ RegistersOK /\ Recovering
  BY DEF ConsoleInv
<1>2. /\ ~overrun /\ csr_y \in Nat /\ csr_y <= ROWS
      /\ ~At(w, "idle") => writer[w].y = csr_y
      /\ writer \in [WRITERS -> Writer]
  BY <1>1 DEF AloneInv, TypeOK
<1>3. /\ At(w, "down") => csr_y < ROWS
      /\ At(w, "copy") => writer[w].y = ROWS
  BY <1>1, <1>2 DEF RegistersOK, Recovering, At
<1> SUFFICES ~overrun' /\ csr_y' <= ROWS /\ (writer'[w].at # "idle" => writer'[w].y = csr_y')
  BY DEF AloneInv, At
<1>4. ASSUME NEW c \in Char, Putch(w, c)
      PROVE  ~overrun' /\ csr_y' <= ROWS /\ writer'[w].y = csr_y'
  BY <1>2, <1>4 DEF Putch
<1>5. CASE LoadX(w) \/ Write(w) \/ StoreX(w) \/ Return(w) \/ Wrap(w)
           \/ Copy(w) \/ BlankLine(w)
  <2>1. ~At(w, "idle") /\ writer'[w].y = writer[w].y /\ csr_y' = csr_y /\ ~overrun'
    BY <1>2, <1>5
    DEF LoadX, Write, StoreX, Return, Wrap, Copy, BlankLine, Goto, At, Writer
  <2> QED
    BY <1>2, <2>1
<1>6. CASE Down(w)
  BY <1>2, <1>3, <1>6 DEF Down, At
<1>7. CASE Scroll(w)
  BY <1>2, <1>7 DEF Scroll, Idle, At
<1>8. CASE Overrun(w)
  <2>1. Temp(w) = 1
    BY <1>3, <1>8 DEF Overrun, Temp
  <2> QED
    BY <1>8, <2>1 DEF Overrun
<1>9. CASE LastRow(w)
  BY <1>2, <1>9 DEF LastRow, Idle
<1> QED
  BY <1>4, <1>5, <1>6, <1>7, <1>8, <1>9 DEF Step

LEMMA AloneAlways ==
    ASSUME NEW w \in WRITERS, WRITERS = {w}
    PROVE  Spec => [](ConsoleInv /\ AloneInv)
<1>1. Init => AloneInv
  BY ConsoleAssumption DEF Init, AloneInv, At, Idle
<1>2. ConsoleInv /\ AloneInv /\ [Next]_vars => (ConsoleInv /\ AloneInv)'
  <2> SUFFICES ASSUME ConsoleInv, AloneInv, [Next]_vars PROVE ConsoleInv' /\ AloneInv'
    OBVIOUS
  <2>1. CASE UNCHANGED vars
    BY <2>1, ConsoleStep DEF vars, AloneInv, At
  <2>2. CASE Next
    BY <2>2, ConsoleStep, AloneStep DEF Next
  <2> QED
    BY <2>1, <2>2
<1> QED
  BY <1>1, <1>2, ConsoleInit, PTL DEF Spec

-----------------------------------------------------------------------------
(* What it sees is Terminal.                                               *)

Pictures == [Cell -> GLYPHS \cup {BLANK}]

\* The lines lie one behind the other.
LEMMA CellPlaces ==
    ASSUME NEW l \in 0 .. ROWS - 1, NEW i \in 0 .. COLS - 1
    PROVE  /\ l * COLS + i \in Cell /\ l * COLS + i \in Nat
           /\ (l + 1) * COLS + i = l * COLS + i + COLS
           /\ \A k \in 0 .. ROWS : l < k <=> l * COLS + i < k * COLS
           /\ \A k \in 0 .. ROWS - 1, j \in 0 .. COLS - 1 :
                  l * COLS + i = k * COLS + j <=> l = k /\ i = j
<1>1. COLS \in Nat /\ COLS > 0 /\ ROWS \in Nat /\ MAX_ROW \in Nat /\ MAX_COL \in Nat
      /\ MAX_ROW > ROWS /\ MAX_COL > COLS
  BY ConsoleAssumption
<1>2. \A a, b \in Nat : a < b => a * COLS + COLS <= b * COLS
  <2> SUFFICES ASSUME NEW a \in Nat, NEW b \in Nat, a < b
               PROVE  a * COLS + COLS <= b * COLS
    OBVIOUS
  <2>1. PICK k \in Nat : b = a + 1 + k
    BY b - a - 1 \in Nat
  <2>2. b * COLS = a * COLS + COLS + k * COLS /\ k * COLS \in Nat
    BY <1>1, <2>1
  <2> QED
    BY <1>1, <2>2
<1>3. \A a \in Nat : a * COLS \in Nat
  BY <1>1
<1>4. l \in Nat /\ i \in Nat /\ i < COLS /\ l < ROWS /\ l * COLS \in Nat
  BY <1>1, <1>3
<1>5. l * COLS + i \in Cell
  <2>1. l * COLS + COLS <= MAX_ROW * COLS /\ MAX_ROW * COLS \in Nat
    BY <1>1, <1>2, <1>3, <1>4
  <2> QED
    BY <1>1, <1>4, <2>1 DEF Cell
<1>6. (l + 1) * COLS + i = l * COLS + i + COLS
  BY <1>1, <1>4
<1>7. ASSUME NEW k \in 0 .. ROWS
      PROVE  l < k <=> l * COLS + i < k * COLS
  <2>1. k \in Nat /\ k * COLS \in Nat
    BY <1>1, <1>3
  <2>2. CASE l < k
    BY <1>1, <1>2, <1>4, <2>1, <2>2
  <2>3. CASE l = k
    BY <1>1, <1>4, <2>1, <2>3
  <2>4. CASE k < l
    BY <1>1, <1>2, <1>4, <2>1, <2>4
  <2> QED
    BY <1>4, <2>1, <2>2, <2>3, <2>4
<1>8. ASSUME NEW k \in 0 .. ROWS - 1, NEW j \in 0 .. COLS - 1, l * COLS + i = k * COLS + j
      PROVE  l = k /\ i = j
  <2>1. k \in Nat /\ j \in Nat /\ j < COLS /\ k * COLS \in Nat
    BY <1>1, <1>3
  <2>2. CASE l < k
    BY <1>1, <1>2, <1>4, <1>8, <2>1, <2>2
  <2>3. CASE l = k
    BY <1>4, <1>8, <2>1, <2>3
  <2>4. CASE k < l
    BY <1>1, <1>2, <1>4, <1>8, <2>1, <2>4
  <2> QED
    BY <1>4, <2>1, <2>2, <2>3, <2>4
<1> QED
  BY <1>4, <1>5, <1>6, <1>7, <1>8

\* What putch does to the memory is what Terminal does to the screen: a glyph ...
LEMMA DrawnGlyph ==
    ASSUME NEW memory \in Pictures, NEW x \in 0 .. COLS - 1, NEW y \in 0 .. ROWS - 1,
           NEW c \in GLYPHS
    PROVE  Drawn([memory EXCEPT ![y * COLS + x] = c], x, y) = Marked(Drawn(memory, x, y), c)
<1> DEFINE other == [memory EXCEPT ![y * COLS + x] = c]
<1>1. \A l \in 0 .. ROWS - 1, i \in 0 .. COLS - 1 :
          other[l * COLS + i] = IF l = y /\ i = x THEN c ELSE memory[l * COLS + i]
  <2>1. TAKE l \in 0 .. ROWS - 1, i \in 0 .. COLS - 1
  <2>2. l * COLS + i \in Cell /\ (l * COLS + i = y * COLS + x <=> l = y /\ i = x)
    BY CellPlaces
  <2> QED
    BY <2>2 DEF Pictures
<1> HIDE DEF other
<1> DEFINE old == Drawn(memory, x, y)
           new == Drawn(other, x, y)
<1>2. /\ old.screen \in [0 .. ROWS - 1 -> [0 .. COLS - 1 -> GLYPHS \cup {BLANK}]]
      /\ new.screen = [old.screen EXCEPT ![y][x] = c]
  <2>1. \A l \in 0 .. ROWS - 1, i \in 0 .. COLS - 1 :
            memory[l * COLS + i] \in GLYPHS \cup {BLANK}
    BY CellPlaces DEF Pictures
  <2>2. old.screen \in [0 .. ROWS - 1 -> [0 .. COLS - 1 -> GLYPHS \cup {BLANK}]]
    BY <2>1 DEF Drawn, Text
  <2>3. \A l \in 0 .. ROWS - 1 : new.screen[l] = [old.screen EXCEPT ![y][x] = c][l]
    <3>1. TAKE l \in 0 .. ROWS - 1
    <3>2. /\ new.screen[l] = [i \in 0 .. COLS - 1 |-> other[l * COLS + i]]
          /\ old.screen[l] = [i \in 0 .. COLS - 1 |-> memory[l * COLS + i]]
      BY DEF Drawn, Text
    <3>3. CASE l = y
      <4>1. [old.screen EXCEPT ![y][x] = c][l] = [old.screen[l] EXCEPT ![x] = c]
        BY <2>2, <3>3
      <4>2. \A i \in 0 .. COLS - 1 : new.screen[l][i] = [old.screen[l] EXCEPT ![x] = c][i]
        BY <1>1, <3>2, <3>3
      <4>3. new.screen[l] = [old.screen[l] EXCEPT ![x] = c]
        BY <3>2, <4>2
      <4> QED
        BY <4>1, <4>3
    <3>4. CASE l # y
      BY <1>1, <2>2, <3>2, <3>4
    <3> QED
      BY <3>3, <3>4
  <2> QED
    BY <2>2, <2>3 DEF Drawn, Text
<1>3. /\ old = [screen |-> old.screen, x |-> x, y |-> y]
      /\ new = [screen |-> new.screen, x |-> x, y |-> y]
  BY DEF Drawn, Text
<1> HIDE DEF old, new
<1>4. \A s : [[screen |-> s, x |-> x, y |-> y] EXCEPT !.screen[y][x] = c]
                = [screen |-> [s EXCEPT ![y][x] = c], x |-> x, y |-> y]
  OBVIOUS
<1>5. new = [old EXCEPT !.screen[y][x] = c]
  BY <1>2, <1>3, <1>4
<1>6. old.x = x /\ old.y = y
  BY <1>3
<1>7. new = Marked(old, c)
  BY <1>5, <1>6 DEF Marked
<1> QED
  BY <1>7 DEF old, new, other

\* ... the lines that move up ...
LEMMA DrawnCopied ==
    ASSUME NEW memory \in Pictures, NEW other \in Pictures, NEW x, NEW y,
           \A i \in Cell : i < (ROWS - 1) * COLS => other[i] = memory[i + COLS],
           NEW l \in 0 .. ROWS - 2
    PROVE  Drawn(other, x, y).screen[l] = Drawn(memory, x, y).screen[l + 1]
<1>1. l \in 0 .. ROWS - 1 /\ l + 1 \in 0 .. ROWS - 1 /\ ROWS - 1 \in 0 .. ROWS /\ l < ROWS - 1
  BY ConsoleAssumption
<1>2. \A i \in 0 .. COLS - 1 : other[l * COLS + i] = memory[(l + 1) * COLS + i]
  BY <1>1, CellPlaces
<1> QED
  BY <1>1, <1>2 DEF Drawn, Text

\* ... and the blank one.
LEMMA DrawnBlank ==
    ASSUME NEW memory \in Pictures, NEW other \in Pictures, NEW x, NEW y,
           other = [i \in Cell |-> IF i \in (ROWS - 1) * COLS .. ROWS * COLS - 1 THEN BLANK
                                   ELSE memory[i]]
    PROVE  Drawn(other, x, y) = Cleared(Drawn(memory, x, y))
<1>1. \A l \in 0 .. ROWS - 1, i \in 0 .. COLS - 1 :
          other[l * COLS + i] = IF l = ROWS - 1 THEN BLANK ELSE memory[l * COLS + i]
  <2>1. TAKE l \in 0 .. ROWS - 1, i \in 0 .. COLS - 1
  <2>2. /\ ROWS \in 0 .. ROWS /\ ROWS - 1 \in 0 .. ROWS /\ COLS \in Nat /\ ROWS \in Nat
    BY ConsoleAssumption
  <2>3. /\ l * COLS + i \in Cell /\ l * COLS + i \in Nat
        /\ l < ROWS <=> l * COLS + i < ROWS * COLS
        /\ l < ROWS - 1 <=> l * COLS + i < (ROWS - 1) * COLS
    BY <2>2, CellPlaces
  <2>4. ROWS * COLS \in Nat /\ (ROWS - 1) * COLS \in Int
    BY <2>2
  <2>5. l * COLS + i \in (ROWS - 1) * COLS .. ROWS * COLS - 1 <=> l = ROWS - 1
    BY <2>2, <2>3, <2>4
  <2> QED
    BY <2>3, <2>5
<1>2. \A l \in 0 .. ROWS - 1 :
          Drawn(other, x, y).screen[l]
              = IF l = ROWS - 1 THEN T!BlankLine ELSE Drawn(memory, x, y).screen[l]
  <2>1. TAKE l \in 0 .. ROWS - 1
  <2> QED
    BY <1>1 DEF Drawn, Text, T!BlankLine, T!Column
<1> DEFINE old == Drawn(memory, x, y)
           new == Drawn(other, x, y)
<1>3. new.screen = [old.screen EXCEPT ![ROWS - 1] = T!BlankLine]
  BY <1>2 DEF Drawn, Text
<1>4. /\ old = [screen |-> old.screen, x |-> x, y |-> y]
      /\ new = [screen |-> new.screen, x |-> x, y |-> y]
  BY DEF Drawn, Text
<1> HIDE DEF old, new
<1>5. \A s : [[screen |-> s, x |-> x, y |-> y] EXCEPT !.screen[ROWS - 1] = T!BlankLine]
                = [screen |-> [s EXCEPT ![ROWS - 1] = T!BlankLine], x |-> x, y |-> y]
  OBVIOUS
<1>6. new = [old EXCEPT !.screen[ROWS - 1] = T!BlankLine]
  BY <1>3, <1>4, <1>5
<1>7. new = Cleared(old)
  BY <1>6 DEF Cleared
<1> QED
  BY <1>7 DEF old, new

\* (x + 8) & ~(8 - 1) is the next multiple of 8.
LEMMA SameStop ==
    ASSUME NEW x \in Nat
    PROVE  NextStop(x) = (x - (x % TAB)) + TAB
<1>1. TAB \in Nat /\ TAB > 0
  BY ConsoleAssumption
<1> DEFINE q == x \div TAB
           r == x % TAB
           Q == (x + TAB) \div TAB
           R == (x + TAB) % TAB
<1>2. /\ x = TAB * q + r /\ q \in Nat /\ r \in 0 .. TAB - 1
      /\ x + TAB = TAB * Q + R /\ Q \in Nat /\ R \in 0 .. TAB - 1
  BY <1>1
<1> HIDE DEF q, r, Q, R
<1>3. \A a, b \in Nat : a < b => TAB * a + TAB <= TAB * b
  <2> SUFFICES ASSUME NEW a \in Nat, NEW b \in Nat, a < b
               PROVE  TAB * a + TAB <= TAB * b
    OBVIOUS
  <2>1. PICK k \in Nat : b = a + 1 + k
    BY b - a - 1 \in Nat
  <2>2. TAB * b = TAB * a + TAB + TAB * k /\ TAB * k \in Nat /\ TAB * a \in Nat
    BY <1>1, <2>1
  <2> QED
    BY <1>1, <2>2
<1>4. TAB * (q + 1) = TAB * q + TAB /\ TAB * q \in Nat /\ TAB * Q \in Nat
  BY <1>1, <1>2
<1>5. Q = q + 1
  <2>1. CASE Q < q + 1
    <3>1. TAB * Q + TAB <= TAB * q + TAB
      BY <1>2, <1>3, <1>4, <2>1
    <3> QED
      BY <1>1, <1>2, <1>4, <3>1
  <2>2. CASE q + 1 < Q
    <3>1. TAB * q + TAB + TAB <= TAB * Q
      BY <1>2, <1>3, <1>4, <2>2
    <3> QED
      BY <1>1, <1>2, <1>4, <3>1
  <2> QED
    BY <1>2, <2>1, <2>2
<1>6. R = r
  BY <1>1, <1>2, <1>4, <1>5
<1> QED
  BY <1>1, <1>2, <1>6 DEF NextStop, r, R

\* The fields of a terminal can be changed one by one.
LEMMA EachField ==
    ASSUME NEW s, NEW x, NEW y, NEW new
    PROVE  /\ [[screen |-> s, x |-> x, y |-> y] EXCEPT !.x = new]
                  = [screen |-> s, x |-> new, y |-> y]
           /\ [[screen |-> s, x |-> x, y |-> y] EXCEPT !.y = new]
                  = [screen |-> s, x |-> x, y |-> new]
           /\ [[screen |-> s, x |-> x, y |-> y] EXCEPT !.screen = new]
                  = [screen |-> new, x |-> x, y |-> y]
OBVIOUS

\* The terminal's operators on what is drawn.
LEMMA LineBelow ==
    ASSUME NEW memory, NEW x, NEW y
    PROVE  T!NextLine(Drawn(memory, x, y)) =
               IF y < ROWS - 1 THEN Drawn(memory, 0, y + 1)
               ELSE [screen |-> [l \in 0 .. ROWS - 1 |->
                                    IF l = y THEN T!BlankLine ELSE Text(memory)[l + 1]],
                     x |-> 0, y |-> y]
<1> DEFINE t == Drawn(memory, x, y)
           moved == [l \in 0 .. ROWS - 1 |->
                        IF l = y THEN T!BlankLine ELSE Text(memory)[l + 1]]
<1>1. t.y = y /\ t.screen = Text(memory)
  BY DEF Drawn
<1>2. CASE y < ROWS - 1
  <2>1. T!NextLine(t) = [t EXCEPT !.x = 0, !.y = y + 1]
    <3> HIDE DEF t
    <3> QED
      BY <1>1, <1>2 DEF T!NextLine
  <2>2. [t EXCEPT !.x = 0] = Drawn(memory, 0, y)
    BY EachField DEF Drawn
  <2>3. [Drawn(memory, 0, y) EXCEPT !.y = y + 1] = Drawn(memory, 0, y + 1)
    BY EachField DEF Drawn
  <2>4. [t EXCEPT !.x = 0, !.y = y + 1] = Drawn(memory, 0, y + 1)
    <3> HIDE DEF t
    <3> QED
      BY <2>2, <2>3
  <2> QED
    BY <1>2, <2>1, <2>4
<1>3. CASE ~(y < ROWS - 1)
  <2>1. T!NextLine(t) = [t EXCEPT !.x = 0, !.screen = moved]
    <3>1. [l \in T!Line |-> IF l = t.y THEN T!BlankLine ELSE t.screen[l + 1]] = moved
      BY <1>1 DEF T!Line
    <3> HIDE DEF t, moved
    <3> QED
      BY <1>1, <1>3, <3>1 DEF T!NextLine
  <2> HIDE DEF moved
  <2>2. [t EXCEPT !.x = 0] = Drawn(memory, 0, y)
    BY EachField DEF Drawn
  <2>3. [Drawn(memory, 0, y) EXCEPT !.screen = moved] = [screen |-> moved, x |-> 0, y |-> y]
    BY EachField DEF Drawn
  <2>4. [t EXCEPT !.x = 0, !.screen = moved] = [screen |-> moved, x |-> 0, y |-> y]
    <3> HIDE DEF t
    <3> QED
      BY <2>2, <2>3
  <2> QED
    BY <1>3, <2>1, <2>4 DEF moved
<1> QED
  BY <1>2, <1>3

LEMMA CursorAt ==
    ASSUME NEW memory, NEW x, NEW y, NEW to
    PROVE  T!CursorTo(Drawn(memory, x, y), to) =
               IF to < COLS THEN Drawn(memory, to, y) ELSE T!NextLine(Drawn(memory, x, y))
BY DEF T!CursorTo, Drawn

\* Each character has one meaning.
LEMMA EachCharacter ==
    ASSUME NEW t
    PROVE  /\ T!After(t, "newline") = T!NextLine(t)
           /\ T!After(t, "return") = T!CursorTo(t, 0)
           /\ T!After(t, "tab") = T!CursorTo(t, (t.x - (t.x % TAB)) + TAB)
           /\ T!After(t, "backspace") = IF t.x = 0 THEN t ELSE T!CursorTo(t, t.x - 1)
           /\ T!After(t, "other") = t
           /\ \A c \in GLYPHS :
                  T!After(t, c) = T!CursorTo(Marked(t, c), t.x + 1)
<1>1. \A c \in {"newline", "return", "tab", "backspace", "other"} : c \notin GLYPHS
  BY ConsoleAssumption DEF Controls
<1>2. \A c \in GLYPHS : c \notin {"newline", "return", "tab", "backspace", "other"}
  BY <1>1
<1> QED
  BY <1>1, <1>2 DEF T!After, Marked

\* What is known of the one writer and of what it shares with nobody.
LEMMA ShownFacts ==
    ASSUME ConsoleInv, AloneInv, ShownInv, NEW w \in WRITERS, WRITERS = {w}
    PROVE  /\ video \in Pictures /\ writer \in [WRITERS -> Writer] /\ writer[w] \in Writer
           /\ csr_x \in Nat /\ csr_y \in 0 .. ROWS /\ ~overrun
           /\ shown \in TerminalType
           /\ Underway(writer[w], shown, video, csr_x, csr_y)
           /\ writer[w].at # "idle" => writer[w].y = csr_y
           /\ writer[w].at # "wrap" => csr_x < COLS
           /\ writer[w].at \notin {"scroll", "copy", "blank", "last_row"} => csr_y < ROWS
           /\ writer[w].at \in {"copy", "blank", "last_row"} => csr_y = ROWS
           /\ writer[w].at = "write" => writer[w].c \in GLYPHS
           /\ writer[w].at = "store_x" /\ writer[w].c = "backspace" => writer[w].x > 0
<1>1. TypeOK /\ RegistersOK /\ Recovering
  BY DEF ConsoleInv
<1> QED
  BY <1>1, ConsoleAssumption
  DEF TypeOK, RegistersOK, Recovering, AloneInv, ShownInv, Pictures, At

\* The character is read, with the first instruction.
LEMMA ShownPutch ==
    ASSUME ConsoleInv, AloneInv, ShownInv, NEW w \in WRITERS, WRITERS = {w},
           NEW c \in Char, Putch(w, c)
    PROVE  /\ writer'[w].at # "idle"
           /\ Underway(writer'[w], shown, video', csr_x', csr_y')
<1>1. /\ writer[w].at = "idle" /\ UNCHANGED <<csr_x, csr_y, video>>
      /\ writer \in [WRITERS -> Writer] /\ csr_y < ROWS
      /\ Drawn(video, csr_x, csr_y) = shown
  BY ShownFacts DEF Putch, At, Underway
<1>2. /\ writer'[w].c = c
      /\ writer'[w].at = CASE c = "newline" -> "wrap"
                           [] c = "return"  -> "return"
                           [] OTHER         -> "load_x"
  BY <1>1 DEF Putch
<1>3. csr_y' # ROWS
  BY <1>1, ConsoleAssumption, ShownFacts
<1>4. CASE c = "newline"
  BY <1>1, <1>2, <1>3, <1>4, EachCharacter DEF Underway
<1>5. CASE c = "return"
  BY <1>1, <1>2, <1>3, <1>5 DEF Underway
<1>6. CASE c \notin {"newline", "return"}
  BY <1>1, <1>2, <1>3, <1>6 DEF Underway
<1> QED
  BY <1>4, <1>5, <1>6

\* csr_x is read: a backspace in column 0 and the characters that putch does not
\* know are printed.
LEMMA ShownLoadX ==
    ASSUME ConsoleInv, AloneInv, ShownInv, NEW w \in WRITERS, WRITERS = {w}, LoadX(w)
    PROVE  /\ writer'[w].at # "idle"
           /\ Underway(writer'[w], shown, video', csr_x', csr_y')
<1> DEFINE c == writer[w].c
<1>1. /\ writer[w].at = "load_x" /\ UNCHANGED <<csr_x, csr_y, video>>
      /\ writer[w] \in Writer /\ writer \in [WRITERS -> Writer]
      /\ csr_y < ROWS /\ csr_x < COLS /\ csr_y # ROWS
      /\ Drawn(video, csr_x, csr_y) = shown
      /\ c \in Char \ {"newline", "return"}
  BY ShownFacts, ConsoleAssumption DEF LoadX, At, Underway, Writer
<1>2. /\ writer'[w].c = c /\ writer'[w].x = csr_x
      /\ writer'[w].at = CASE c \in GLYPHS -> "write"
                           [] c = "tab"    -> "store_x"
                           [] c = "backspace" /\ csr_x # 0 -> "store_x"
                           [] OTHER -> Edge(csr_x)
  BY <1>1 DEF LoadX, Writer
<1>3. shown.x = csr_x
  BY <1>1 DEF Drawn
<1>4. Edge(csr_x) = "scroll"
  BY <1>1, ShownFacts, ConsoleAssumption DEF Edge
<1>5. c \in GLYPHS => c \notin {"tab", "backspace", "other"}
  BY ConsoleAssumption DEF Controls
<1> HIDE DEF c
<1>6. CASE c \in GLYPHS
  BY <1>1, <1>2, <1>5, <1>6 DEF Underway
<1>7. CASE c = "tab" \/ (c = "backspace" /\ csr_x # 0)
  BY <1>1, <1>2, <1>5, <1>7 DEF Underway
<1>8. CASE (c = "backspace" /\ csr_x = 0) \/ c = "other"
  <2>1. T!After(shown, c) = shown
    BY <1>3, <1>8, EachCharacter
  <2> QED
    BY <1>1, <1>2, <1>4, <1>5, <1>8, <2>1 DEF Underway
<1> QED
  BY <1>1, <1>6, <1>7, <1>8 DEF Char, Controls

\* The glyph is stored.
LEMMA ShownWrite ==
    ASSUME ConsoleInv, AloneInv, ShownInv, NEW w \in WRITERS, WRITERS = {w}, Write(w)
    PROVE  /\ writer'[w].at # "idle"
           /\ Underway(writer'[w], shown, video', csr_x', csr_y')
<1> DEFINE c == writer[w].c
<1>1. /\ writer[w].at = "write" /\ UNCHANGED <<csr_x, csr_y>>
      /\ writer[w] \in Writer /\ writer \in [WRITERS -> Writer] /\ video \in Pictures
      /\ csr_y \in 0 .. ROWS - 1 /\ csr_x \in 0 .. COLS - 1 /\ csr_y # ROWS
      /\ Drawn(video, csr_x, csr_y) = shown
      /\ c \in GLYPHS /\ writer[w].x = csr_x /\ writer[w].y = csr_y
  BY ShownFacts, ConsoleAssumption DEF Write, At, Underway
<1>2. /\ video' = [video EXCEPT ![csr_y * COLS + csr_x] = c]
      /\ writer'[w].at = "store_x" /\ writer'[w].c = c /\ writer'[w].x = csr_x
  BY <1>1 DEF Write, Goto, Writer
<1> HIDE DEF c
<1>3. Drawn(video', csr_x', csr_y') = Marked(shown, c)
  BY <1>1, <1>2, DrawnGlyph
<1> QED
  BY <1>1, <1>2, <1>3 DEF Underway

\* The new column is stored: the character is printed, but for the end of the line.
LEMMA ShownStoreX ==
    ASSUME ConsoleInv, AloneInv, ShownInv, NEW w \in WRITERS, WRITERS = {w}, StoreX(w)
    PROVE  /\ writer'[w].at # "idle"
           /\ Underway(writer'[w], shown, video', csr_x', csr_y')
<1> DEFINE c == writer[w].c
           to == Moved(w)
           here == Drawn(video, csr_x, csr_y)
<1>1. /\ writer[w].at = "store_x" /\ csr_x' = to /\ UNCHANGED <<csr_y, video>>
      /\ writer[w] \in Writer /\ writer \in [WRITERS -> Writer]
      /\ csr_y < ROWS /\ csr_y # ROWS /\ csr_x \in 0 .. COLS - 1
      /\ c \in GLYPHS \cup {"tab", "backspace"} /\ writer[w].x = csr_x
      /\ here = IF c \in GLYPHS THEN Marked(shown, c) ELSE shown
      /\ c = "backspace" => csr_x > 0
      /\ shown \in TerminalType
  BY ShownFacts, ConsoleAssumption DEF StoreX, At, Underway
<1>2. /\ writer'[w].at = Edge(to) /\ writer'[w].c = c
  BY <1>1 DEF StoreX, Writer
<1>3. to = CASE c = "tab"       -> NextStop(csr_x)
             [] c = "backspace" -> csr_x - 1
             [] OTHER           -> csr_x + 1
  BY <1>1 DEF Moved
<1>4. c \in GLYPHS => c \notin {"tab", "backspace"}
  BY ConsoleAssumption DEF Controls
<1>5. shown.x = csr_x
  <2>1. here.x = csr_x
    BY DEF Drawn
  <2>2. Marked(shown, c).x = shown.x
    BY <1>1 DEF TerminalType, Marked
  <2> QED
    BY <1>1, <2>1, <2>2
<1> HIDE DEF c, to, here
<1>6. T!After(shown, c) = T!CursorTo(here, to)
  <2>1. CASE c \in GLYPHS
    <3>1. T!After(shown, c)
              = T!CursorTo(Marked(shown, c), shown.x + 1)
      BY <2>1, EachCharacter
    <3>2. here = Marked(shown, c) /\ to = csr_x + 1
      BY <1>1, <1>3, <1>4, <2>1
    <3> QED
      BY <1>5, <3>1, <3>2
  <2>2. CASE c = "tab"
    BY <1>1, <1>3, <1>4, <1>5, <2>2, EachCharacter, SameStop
  <2>3. CASE c = "backspace"
    BY <1>1, <1>3, <1>4, <1>5, <2>3, EachCharacter
  <2> QED
    BY <1>1, <2>1, <2>2, <2>3
<1>7. T!CursorTo(here, to) = IF to < COLS THEN Drawn(video, to, csr_y) ELSE T!NextLine(here)
  BY CursorAt DEF here
<1>8. T!NextLine(here) = T!NextLine(Drawn(video, to, csr_y))
  BY LineBelow DEF here
<1>9. CASE to < COLS
  <2>1. writer'[w].at = "scroll"
    <3>1. to \in Int
      BY <1>1, <1>3, SameStop, NextStopBounds, ConsoleAssumption
    <3> QED
      BY <1>2, <1>9, <3>1, ConsoleAssumption DEF Edge
  <2> QED
    BY <1>1, <1>2, <1>6, <1>7, <1>9, <2>1 DEF Underway
<1>10. CASE ~(to < COLS)
  <2>1. writer'[w].at = "wrap"
    <3>1. to \in Int
      BY <1>1, <1>3, SameStop, NextStopBounds, ConsoleAssumption
    <3> QED
      BY <1>2, <1>10, <3>1, ConsoleAssumption DEF Edge
  <2> QED
    BY <1>1, <1>2, <1>6, <1>7, <1>8, <1>10, <2>1 DEF Underway
<1> QED
  BY <1>9, <1>10

\* A carriage return.
LEMMA ShownReturn ==
    ASSUME ConsoleInv, AloneInv, ShownInv, NEW w \in WRITERS, WRITERS = {w}, Return(w)
    PROVE  /\ writer'[w].at # "idle"
           /\ Underway(writer'[w], shown, video', csr_x', csr_y')
<1>1. /\ writer[w].at = "return" /\ UNCHANGED <<csr_y, video>> /\ csr_x' = 0
      /\ writer[w] \in Writer /\ writer \in [WRITERS -> Writer]
      /\ csr_y < ROWS /\ csr_y # ROWS
      /\ Drawn(video, csr_x, csr_y) = shown /\ writer[w].c = "return"
  BY ShownFacts, ConsoleAssumption DEF Return, At, Underway
<1>2. writer'[w].at = "scroll" /\ writer'[w].c = writer[w].c
  BY <1>1 DEF Return, Goto, Writer
<1>3. T!After(shown, "return") = Drawn(video, 0, csr_y)
  BY <1>1, EachCharacter, CursorAt, ConsoleAssumption
<1> QED
  BY <1>1, <1>2, <1>3 DEF Underway

\* The next line: the column, which does not matter to it, ...
LEMMA ShownWrap ==
    ASSUME ConsoleInv, AloneInv, ShownInv, NEW w \in WRITERS, WRITERS = {w}, Wrap(w)
    PROVE  /\ writer'[w].at # "idle"
           /\ Underway(writer'[w], shown, video', csr_x', csr_y')
<1>1. /\ writer[w].at = "wrap" /\ UNCHANGED <<csr_y, video>> /\ csr_x' = 0
      /\ writer[w] \in Writer /\ writer \in [WRITERS -> Writer] /\ csr_y # ROWS
      /\ T!NextLine(Drawn(video, csr_x, csr_y)) = T!After(shown, writer[w].c)
  BY ShownFacts, ConsoleAssumption DEF Wrap, At, Underway
<1>2. writer'[w].at = "down" /\ writer'[w].c = writer[w].c
  BY <1>1 DEF Wrap, Goto, Writer
<1>3. T!NextLine(Drawn(video, csr_x, csr_y)) = T!NextLine(Drawn(video, 0, csr_y))
  BY LineBelow
<1> QED
  BY <1>1, <1>2, <1>3 DEF Underway

\* ... and the row, which may be the one below the screen.
LEMMA ShownDown ==
    ASSUME ConsoleInv, AloneInv, ShownInv, NEW w \in WRITERS, WRITERS = {w}, Down(w)
    PROVE  /\ writer'[w].at # "idle"
           /\ Underway(writer'[w], shown, video', csr_x', csr_y')
<1>1. /\ writer[w].at = "down" /\ UNCHANGED <<csr_x, video>> /\ csr_y' = csr_y + 1
      /\ writer[w] \in Writer /\ writer \in [WRITERS -> Writer]
      /\ csr_y \in 0 .. ROWS - 1 /\ csr_x = 0
      /\ T!NextLine(Drawn(video, csr_x, csr_y)) = T!After(shown, writer[w].c)
  BY ShownFacts, ConsoleAssumption DEF Down, At, Underway
<1>2. writer'[w].at = "scroll" /\ writer'[w].c = writer[w].c
  BY <1>1 DEF Down, Writer
<1>3. CASE csr_y < ROWS - 1
  <2>1. T!NextLine(Drawn(video, csr_x, csr_y)) = Drawn(video', csr_x', csr_y')
    BY <1>1, <1>3, LineBelow
  <2>2. csr_y' # ROWS
    BY <1>1, <1>3, ConsoleAssumption
  <2> QED
    BY <1>1, <1>2, <2>1, <2>2 DEF Underway
<1>4. CASE csr_y = ROWS - 1
  <2>1. csr_y' = ROWS /\ ~(csr_y' < ROWS)
    BY <1>1, <1>4, ConsoleAssumption
  <2>2. T!NextLine(Drawn(video', csr_x', ROWS - 1)) = T!After(shown, writer[w].c)
    BY <1>1, <1>4
  <2> QED
    BY <1>1, <1>2, <2>1, <2>2 DEF Underway
<1> QED
  BY <1>1, <1>3, <1>4, ConsoleAssumption

\* scroll(): the character is printed unless the cursor is below the screen.
LEMMA ShownScroll ==
    ASSUME ConsoleInv, AloneInv, ShownInv, NEW w \in WRITERS, WRITERS = {w}, Scroll(w)
    PROVE  \/ /\ writer'[w].at # "idle"
              /\ Underway(writer'[w], shown, video', csr_x', csr_y')
           \/ /\ writer'[w].at = "idle"
              /\ Screen' = T!After(shown, writer[w].c)
<1>1. /\ writer[w].at = "scroll" /\ UNCHANGED <<csr_x, csr_y, video>>
      /\ writer[w] \in Writer /\ writer \in [WRITERS -> Writer]
      /\ csr_y \in 0 .. ROWS /\ writer[w].y = csr_y
      /\ Underway(writer[w], shown, video, csr_x, csr_y)
  BY ShownFacts DEF Scroll, At
<1>2. CASE csr_y < ROWS
  <2>1. Drawn(video, csr_x, csr_y) = T!After(shown, writer[w].c)
    BY <1>1, <1>2 DEF Underway
  <2>2. writer'[w].at = "idle"
    BY <1>1, <1>2, ConsoleAssumption DEF Scroll, Idle
  <2> QED
    BY <1>1, <2>1, <2>2 DEF Screen
<1>3. CASE csr_y = ROWS
  <2>1. /\ T!NextLine(Drawn(video, csr_x, ROWS - 1)) = T!After(shown, writer[w].c)
        /\ csr_x = 0
    BY <1>1, <1>3 DEF Underway
  <2>2. writer'[w].at = "copy" /\ writer'[w].c = writer[w].c
    BY <1>1, <1>3, ConsoleAssumption DEF Scroll, Writer
  <2> QED
    BY <1>1, <1>3, <2>1, <2>2 DEF Underway
<1> QED
  BY <1>1, <1>2, <1>3, ConsoleAssumption

\* The lines move up by one.
LEMMA ShownCopy ==
    ASSUME ConsoleInv, AloneInv, ShownInv, NEW w \in WRITERS, WRITERS = {w}, Copy(w)
    PROVE  /\ writer'[w].at # "idle"
           /\ Underway(writer'[w], shown, video', csr_x', csr_y')
<1> DEFINE old == Drawn(video, 0, ROWS - 1)
           new == Drawn(video', 0, ROWS - 1)
<1>1. /\ writer[w].at = "copy" /\ UNCHANGED <<csr_x, csr_y>>
      /\ writer[w] \in Writer /\ writer \in [WRITERS -> Writer]
      /\ csr_y = ROWS /\ writer[w].y = ROWS /\ csr_x = 0
      /\ video \in Pictures /\ video' \in Pictures
      /\ T!NextLine(old) = T!After(shown, writer[w].c)
  <2>1. video' \in Pictures
    BY ConsoleType DEF Step, TypeOK, Pictures
  <2> QED
    BY <2>1, ShownFacts DEF Copy, At, Underway
<1>2. writer'[w].at = "blank" /\ writer'[w].c = writer[w].c
  BY <1>1 DEF Copy, Goto, Writer
<1>3. Temp(w) = 1
  BY <1>1, ConsoleAssumption DEF Temp
<1>4. \A i \in Cell : i < (ROWS - 1) * COLS => video'[i] = video[i + COLS]
  <2>1. 1 * COLS = COLS
    BY ConsoleAssumption
  <2> QED
    BY <1>3, <2>1 DEF Copy
<1>5. \A l \in 0 .. ROWS - 2 : Text(video')[l] = Text(video)[l + 1]
  <2>1. \A l \in 0 .. ROWS - 2 : new.screen[l] = old.screen[l + 1]
    BY <1>1, <1>4, DrawnCopied
  <2> QED
    BY <2>1 DEF Drawn
<1>6. Cleared(new) = [screen |-> [l \in 0 .. ROWS - 1 |->
                                    IF l = ROWS - 1 THEN T!BlankLine ELSE Text(video)[l + 1]],
                      x |-> 0, y |-> ROWS - 1]
  <2>1. \A s : [[screen |-> s, x |-> 0, y |-> ROWS - 1] EXCEPT !.screen[ROWS - 1] = T!BlankLine]
                   = [screen |-> [s EXCEPT ![ROWS - 1] = T!BlankLine], x |-> 0, y |-> ROWS - 1]
    OBVIOUS
  <2>2. [Text(video') EXCEPT ![ROWS - 1] = T!BlankLine]
            = [l \in 0 .. ROWS - 1 |->
                   IF l = ROWS - 1 THEN T!BlankLine ELSE Text(video)[l + 1]]
    <3>1. \A l \in 0 .. ROWS - 1 : l # ROWS - 1 => l \in 0 .. ROWS - 2
      BY ConsoleAssumption
    <3> QED
      BY <1>5, <3>1 DEF Text
  <2>3. Cleared(new) = [screen |-> [Text(video') EXCEPT ![ROWS - 1] = T!BlankLine],
                        x |-> 0, y |-> ROWS - 1]
    BY <2>1 DEF Cleared, Drawn
  <2> QED
    BY <2>2, <2>3
<1>7. Cleared(new) = T!NextLine(old)
  BY <1>6, LineBelow, ConsoleAssumption
<1> QED
  BY <1>1, <1>2, <1>7 DEF Underway

\* The last one becomes blank.
LEMMA ShownBlankLine ==
    ASSUME ConsoleInv, AloneInv, ShownInv, NEW w \in WRITERS, WRITERS = {w}, BlankLine(w)
    PROVE  /\ writer'[w].at # "idle"
           /\ Underway(writer'[w], shown, video', csr_x', csr_y')
<1>1. /\ writer[w].at = "blank" /\ UNCHANGED <<csr_x, csr_y>>
      /\ writer[w] \in Writer /\ writer \in [WRITERS -> Writer]
      /\ csr_y = ROWS /\ writer[w].y = ROWS /\ csr_x = 0
      /\ video \in Pictures /\ video' \in Pictures
      /\ Cleared(Drawn(video, csr_x, ROWS - 1)) = T!After(shown, writer[w].c)
  <2>1. video' \in Pictures
    BY ConsoleType DEF Step, TypeOK, Pictures
  <2> QED
    BY <2>1, ShownFacts DEF BlankLine, At, Underway
<1>2. writer'[w].at = "last_row" /\ writer'[w].c = writer[w].c
  BY <1>1 DEF BlankLine, Goto, Writer
<1>3. video' = [i \in Cell |-> IF i \in (ROWS - 1) * COLS .. ROWS * COLS - 1 THEN BLANK
                               ELSE video[i]]
  <2>1. Temp(w) = 1 /\ ROWS - 1 + 1 = ROWS
    BY <1>1, ConsoleAssumption DEF Temp
  <2>2. Blanked(w) = (ROWS - 1) * COLS .. ROWS * COLS - 1
    BY <2>1 DEF Blanked
  <2> QED
    BY <2>2 DEF BlankLine
<1>4. Drawn(video', csr_x, ROWS - 1) = Cleared(Drawn(video, csr_x, ROWS - 1))
  BY <1>1, <1>3, DrawnBlank
<1> QED
  BY <1>1, <1>2, <1>4 DEF Underway

\* The cursor is brought back to it: the character is printed.
LEMMA ShownLastRow ==
    ASSUME ConsoleInv, AloneInv, ShownInv, NEW w \in WRITERS, WRITERS = {w}, LastRow(w)
    PROVE  /\ writer'[w].at = "idle"
           /\ Screen' = T!After(shown, writer[w].c)
<1>1. /\ writer[w].at = "last_row" /\ UNCHANGED <<csr_x, video>> /\ csr_y' = ROWS - 1
      /\ Drawn(video, csr_x, ROWS - 1) = T!After(shown, writer[w].c)
  BY ShownFacts DEF LastRow, At, Underway
<1>2. writer'[w].at = "idle"
  BY ShownFacts DEF LastRow, Idle
<1> QED
  BY <1>1, <1>2 DEF Screen

\* A step inside putch leaves the terminal alone, the last one prints the character.
LEMMA ShownStep ==
    ASSUME ConsoleInv, AloneInv, ShownInv, NEW w \in WRITERS, WRITERS = {w}, Step(w)
    PROVE  \/ /\ writer'[w].at # "idle"
              /\ Underway(writer'[w], shown, video', csr_x', csr_y')
           \/ /\ writer'[w].at = "idle"
              /\ Screen' = T!After(shown, writer[w].c)
<1>1. ~Overrun(w)
  BY AloneStep DEF Overrun, AloneInv
<1> QED
  BY <1>1, ShownPutch, ShownLoadX, ShownWrite, ShownStoreX, ShownReturn, ShownWrap, ShownDown,
     ShownScroll, ShownCopy, ShownBlankLine, ShownLastRow DEF Step

\* What is on the screen when nobody prints is a terminal.
LEMMA ScreenIsTerminal ==
    ASSUME ConsoleInv, csr_x < COLS, csr_y < ROWS
    PROVE  Screen \in TerminalType
<1>1. /\ csr_x \in 0 .. COLS - 1 /\ csr_y \in 0 .. ROWS - 1
      /\ video \in [Cell -> GLYPHS \cup {BLANK}]
  BY ConsoleAssumption DEF ConsoleInv, TypeOK
<1>2. Text(video) \in [0 .. ROWS - 1 -> [0 .. COLS - 1 -> GLYPHS \cup {BLANK}]]
  <2>1. \A l \in 0 .. ROWS - 1, i \in 0 .. COLS - 1 : l * COLS + i \in Cell
    BY CellPlaces
  <2> QED
    BY <1>1, <2>1 DEF Text
<1> QED
  BY <1>1, <1>2 DEF Screen, Drawn, TerminalType

\* A writer outside putch shows the terminal.
LEMMA ShownIdle ==
    ASSUME NEW r, r.at = "idle", NEW t, NEW memory, NEW x, NEW y, y # ROWS, Drawn(memory, x, y) = t
    PROVE  Underway(r, t, memory, x, y)
BY DEF Underway

\* cls shows the empty terminal.
LEMMA ShownInit ==
    ASSUME Init, shown = Screen
    PROVE  ShownInv /\ T!TerminalInit
<1>1. ConsoleInv /\ csr_x = 0 /\ csr_y = 0 /\ csr_x < COLS /\ csr_y < ROWS /\ csr_y # ROWS
  BY ConsoleInit, ConsoleAssumption DEF Init
<1>2. ShownInv
  <2>1. shown \in TerminalType
    BY <1>1, ScreenIsTerminal
  <2>2. \A w \in WRITERS : writer[w].at = "idle"
    BY DEF Init, Idle
  <2> QED
    BY <1>1, <2>1, <2>2, ShownIdle DEF ShownInv, Screen
<1>3. Text(video) = [l \in 0 .. ROWS - 1 |-> T!BlankLine]
  <2>1. \A l \in 0 .. ROWS - 1, i \in 0 .. COLS - 1 : video[l * COLS + i] = BLANK
    BY CellPlaces DEF Init
  <2> QED
    BY <2>1 DEF Text, T!BlankLine, T!Column
<1> QED
  BY <1>1, <1>2, <1>3 DEF T!TerminalInit, T!Line, Screen, Drawn

\* Every step of the task is a step of the terminal or none.
LEMMA TerminalStep ==
    ASSUME ConsoleInv, AloneInv, ShownInv, NEW w \in WRITERS, WRITERS = {w}, Step(w),
           shown' = IF AllIdle' THEN Screen' ELSE shown
    PROVE  ShownInv' /\ [T!TerminalNext]_shown
<1>1. ConsoleInv' /\ AloneInv'
  BY ConsoleStep, AloneStep DEF Next
<1>2. AllIdle' <=> writer'[w].at = "idle"
  BY DEF AllIdle, At
<1>3. CASE writer'[w].at # "idle"
  <2>1. shown' = shown
    BY <1>2, <1>3
  <2>2. Underway(writer'[w], shown, video', csr_x', csr_y')
    BY <1>3, ShownStep
  <2> QED
    BY <2>1, <2>2 DEF ShownInv
<1>4. CASE writer'[w].at = "idle"
  <2>1. shown' = Screen' /\ Screen' = T!After(shown, writer[w].c)
    BY <1>2, <1>4, ShownStep
  <2>2. csr_x' < COLS /\ csr_y' < ROWS /\ csr_y' # ROWS
    BY <1>1, <1>4, ConsoleAssumption DEF ConsoleInv, TypeOK, Recovering, At
  <2>3. ShownInv'
    <3>1. (csr_x < COLS)' /\ (csr_y < ROWS)'
      BY <2>2
    <3>2. Screen' \in TerminalType
      <4>1. (Screen \in TerminalType)'
        BY <1>1, <3>1, ScreenIsTerminal, PTL
      <4> QED
        BY <4>1 DEF TerminalType
    <3>3. Underway(writer'[w], shown', video', csr_x', csr_y')
      BY <1>4, <2>1, <2>2, ShownIdle DEF Screen
    <3> QED
      BY <2>1, <3>2, <3>3 DEF ShownInv, TerminalType
  <2>4. writer[w].c \in Char
    BY ShownFacts DEF Writer
  <2>5. [T!TerminalNext]_shown
    BY <2>1, <2>4, EachCharacter DEF T!TerminalNext, Char, Controls
  <2> QED
    BY <2>3, <2>5
<1> QED
  BY <1>3, <1>4

\* A task that prints alone, stopped between any two instructions of putch, finds what
\* Terminal promises: the text where it wrote it, the tab stops, the cursor on the
\* screen, and the lines that move up when the last one is full.
THEOREM AloneIsTerminal ==
    ASSUME NEW w \in WRITERS, WRITERS = {w}
    PROVE  ShownSpec => ImplementsTerminal
<1> DEFINE Prints == Next /\ shown' = IF AllIdle' THEN Screen' ELSE shown
           Inv == ConsoleInv /\ AloneInv /\ ShownInv
<1>1. Init /\ shown = Screen => Inv /\ T!TerminalInit
  <2>1. Init => AloneInv
    BY ConsoleAssumption DEF Init, AloneInv, At, Idle
  <2> QED
    BY <2>1, ConsoleInit, ShownInit
<1>2. Inv /\ [Prints]_<<vars, shown>> => Inv' /\ [T!TerminalNext]_shown
  <2> SUFFICES ASSUME Inv, [Prints]_<<vars, shown>> PROVE Inv' /\ [T!TerminalNext]_shown
    OBVIOUS
  <2>1. CASE UNCHANGED <<vars, shown>>
    <3>1. ConsoleInv' /\ AloneInv'
      BY <2>1, ConsoleStep DEF vars, AloneInv, At
    <3>2. ShownInv'
      BY <2>1 DEF vars, ShownInv, TerminalType
    <3> QED
      BY <2>1, <3>1, <3>2
  <2>2. CASE Prints
    <3>1. Step(w)
      BY <2>2 DEF Next
    <3> QED
      BY <2>2, <3>1, ConsoleStep, AloneStep, TerminalStep
  <2> QED
    BY <2>1, <2>2
<1> QED
  BY <1>1, <1>2, PTL DEF ShownSpec, ImplementsTerminal, T!TerminalSpec

=============================================================================
