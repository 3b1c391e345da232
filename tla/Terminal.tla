---------------------------- MODULE Terminal ----------------------------
(***************************************************************************)
(* The text terminal of services/display/terminal/term.go: the escape      *)
(* parser, the cell grid with its scrolling region and alternate screen,   *)
(* and the rendering that Flush does when something is pending.            *)
(*                                                                         *)
(* Input is a sequence of symbols [c, n]: a byte, or a whole decimal       *)
(* number, c = "num".  A cell is a space or an "x" with its two colours.   *)
(* The text of a window title and the replies to the host are left out.    *)
(***************************************************************************)
EXTENDS Integers, Sequences

CONSTANTS Cols, Rows, TabStop,
          Input,      \* the symbols that arrive
          RegionMax,  \* the last row programs ask a scrolling region to have
          MaxParams,  \* bound: parameters of a control sequence
          MaxDone     \* bound: characters and sequences completed

VARIABLES t,          \* the terminal
          shown,      \* what the last Flush drew: [grid, cursor]
          kept,       \* ghost: the screen when the alternate one was entered
          done        \* characters and sequences completed

vars == <<t, shown, kept, done>>

Cells == (0 .. Rows - 1) \X (0 .. Cols - 1)
Empty == -1           \* a parameter that was left out
Broken == -2          \* one that is not a number
NoCursor == <<-1, -1>>

Blank(s) == [ch |-> " ", fg |-> s.fg, bg |-> s.bg]

\* The cells of a set become blank, in the current colours.
Erased(s, set) ==
  [s EXCEPT !.grid = [p \in Cells |-> IF p \in set THEN Blank(s) ELSE @[p]],
            !.dirty = TRUE]

Home(s) == [s EXCEPT !.x = 0, !.y = 0]

Clear(s) == Home(Erased(s, Cells))

Max0(n) == IF n < 0 THEN 0 ELSE n
AtMost(n, top) == IF n > top THEN top ELSE n

clampPos(s) ==
  [s EXCEPT !.x = AtMost(Max0(@), Cols - 1), !.y = AtMost(Max0(@), Rows - 1)]

moveCursor(s, dx, dy) == clampPos([s EXCEPT !.x = @ + dx, !.y = @ + dy])

-----------------------------------------------------------------------------
(* Writing and scrolling.                                                  *)

InGrid(s) == <<s.y, s.x>> \in Cells

\* Outside the grid the slice index panics.
setCell(s, ch) ==
  IF InGrid(s) THEN [s EXCEPT !.grid[<<s.y, s.x>>] = [ch |-> ch, fg |-> s.fg, bg |-> s.bg],
                              !.dirty = TRUE]
  ELSE [s EXCEPT !.panic = TRUE]

\* The rows of a region move up by one and the last becomes blank.
Moved(s, top, bottom) ==
  [s EXCEPT !.grid = [p \in Cells |->
      IF p[1] = bottom THEN Blank(s)
      ELSE IF p[1] \in top .. bottom - 1 THEN @[<<p[1] + 1, p[2]>>]
      ELSE @[p]]]

\* A region that reaches past the last row makes the slice index panic.
scrollUp(s) ==
  IF s.top <= 0 /\ s.bottom >= Rows - 1
  THEN [Moved(s, 0, Rows - 1) EXCEPT !.y = Rows - 1]
  ELSE IF s.y < s.bottom THEN s
  ELSE IF s.bottom >= Rows THEN [s EXCEPT !.panic = TRUE]
  ELSE [Moved(s, s.top, s.bottom) EXCEPT !.y = s.bottom]

newLine(s) ==
  LET at == [s EXCEPT !.x = 0, !.dirty = TRUE]
  IN IF s.y >= s.bottom THEN scrollUp(at) ELSE [at EXCEPT !.y = @ + 1]

advance(s) ==
  IF s.x + 1 < Cols THEN [s EXCEPT !.x = @ + 1]
  ELSE IF s.wrap THEN newLine([s EXCEPT !.x = 0])
  ELSE [s EXCEPT !.x = Cols - 1]

advanceToTabStop(s) ==
  LET next == (s.x \div TabStop + 1) * TabStop
      spaces == {p \in Cells : p[1] = s.y /\ p[2] >= s.x /\ p[2] < next}
  IN [Erased(s, spaces) EXCEPT !.x = AtMost(next, Cols - 1)]

-----------------------------------------------------------------------------
(* Erasing.                                                                *)

\* Mode 1 keeps what is left of the cursor on its row, as the code does.
eraseDisplay(s, n) ==
  LET right == {p \in Cells : p[1] = s.y /\ p[2] >= s.x}
      set == CASE n = 0 -> right \cup {p \in Cells : p[1] > s.y}
               [] n = 1 -> right \cup {p \in Cells : p[1] < s.y}
               [] n = 2 -> Cells
               [] OTHER -> {}
  IN Home(Erased(s, set))

\* Fault: erasing the line is not a pending change.
eraseLineQuiet(s, n) ==
  [s EXCEPT !.grid = [p \in Cells |-> IF p[1] = s.y /\ p[2] >= s.x THEN Blank(s) ELSE @[p]]]

eraseLine(s, n) ==
  Erased(s, {p \in Cells : /\ p[1] = s.y
                           /\ \/ n = 0 /\ p[2] >= s.x
                              \/ n = 1 /\ p[2] <= s.x
                              \/ n = 2})

eraseChars(s, n) ==
  LET count == IF n <= 0 THEN 1 ELSE n
  IN Erased(s, {p \in Cells : p[1] = s.y /\ p[2] >= s.x /\ p[2] < s.x + count})

-----------------------------------------------------------------------------
(* Modes and colours.                                                      *)

SGR(s, n) ==
  CASE n = 0 -> [s EXCEPT !.fg = 7, !.bg = 0]
    [] n = 1 -> [s EXCEPT !.fg = IF @ < 8 THEN @ + 8 ELSE @]
    [] n \in 30..37 -> [s EXCEPT !.fg = n - 30]
    [] n \in 40..47 -> [s EXCEPT !.bg = n - 40]
    [] OTHER -> s

RECURSIVE applySGR(_, _)
applySGR(s, params) ==
  IF params = <<>> THEN s
  ELSE applySGR(IF Head(params) < 0 THEN s ELSE SGR(s, Head(params)), Tail(params))

WholeScreen(s) == [s EXCEPT !.top = 0, !.bottom = Rows - 1]

\* Fault: entering it again saves the alternate screen over the other.
switchToAltScreenAgain(s) ==
  WholeScreen(Clear([s EXCEPT !.alt = TRUE, !.altGrid = s.grid, !.altAt = <<s.x, s.y>>]))

switchToAltScreen(s) ==
  IF s.alt THEN s
  ELSE WholeScreen(Clear([s EXCEPT !.alt = TRUE, !.altGrid = s.grid, !.altAt = <<s.x, s.y>>]))

switchToNormalScreen(s) ==
  IF ~s.alt THEN s
  ELSE WholeScreen([s EXCEPT !.alt = FALSE, !.grid = s.altGrid, !.dirty = TRUE,
                             !.x = s.altAt[1], !.y = s.altAt[2]])

ShowCursor(s) == [s EXCEPT !.visible = TRUE, !.on = TRUE, !.dirty = TRUE]

HideCursor(s) == [s EXCEPT !.visible = FALSE, !.on = FALSE, !.dirty = TRUE]

\* Press, press and motion, SGR: the highest mode asked for is kept.
Mouse(s, n, set) ==
  [s EXCEPT !.mouse =
     CASE n = 1000 /\ set  -> IF @ = 0 THEN 1000 ELSE @
       [] n = 1000 /\ ~set -> 0
       [] n = 1002 /\ ~set -> IF @ = 1002 THEN 1000 ELSE @
       [] n = 1006 /\ ~set -> @
       [] OTHER -> IF @ < n THEN n ELSE @]

DEC(s, n, set) ==
  CASE n = 25 -> IF set THEN ShowCursor(s) ELSE HideCursor(s)
    [] n = 1049 -> IF set THEN switchToAltScreen(s) ELSE switchToNormalScreen(s)
    [] n = 7 -> [s EXCEPT !.wrap = set]
    [] n \in {1000, 1002, 1006} -> Mouse(s, n, set)
    [] OTHER -> s

RECURSIVE applyDECSet(_, _, _)
applyDECSet(s, params, set) ==
  IF params = <<>> THEN s ELSE applyDECSet(DEC(s, Head(params), set), Tail(params), set)

\* The region is taken as it is asked for, even past the last row.
SetRegion(s, top, bottom) ==
  LET first == IF top <= 0 THEN 1 ELSE top
      last == IF bottom <= 0 THEN Rows ELSE bottom
  IN IF first > last THEN WholeScreen(s)
     ELSE [s EXCEPT !.top = first - 1, !.bottom = last - 1]

-----------------------------------------------------------------------------
(* The parser.                                                             *)

Param(s, i, def) ==
  IF i > Len(s.buf) \/ s.buf[i] = Empty THEN def
  ELSE IF s.buf[i] = Broken THEN 0 ELSE s.buf[i]

\* The byte that ends a control sequence.
Final(s, c) ==
  CASE c = "m" -> IF s.buf = <<Empty>> THEN [s EXCEPT !.fg = 7, !.bg = 0] ELSE applySGR(s, s.buf)
    [] s.private -> IF c \in {"h", "l"} THEN applyDECSet(s, s.buf, c = "h") ELSE s
    [] c = "J" -> eraseDisplay(s, Param(s, 1, 0))
    [] c = "K" -> eraseLine(s, Param(s, 1, 0))
    [] c = "H" -> clampPos([s EXCEPT !.y = Param(s, 1, 1) - 1, !.x = Param(s, 2, 1) - 1])
    [] c = "A" -> moveCursor(s, 0, -Param(s, 1, 1))
    [] c = "B" -> moveCursor(s, 0, Param(s, 1, 1))
    [] c = "C" -> moveCursor(s, Param(s, 1, 1), 0)
    [] c = "D" -> moveCursor(s, -Param(s, 1, 1), 0)
    [] c = "s" -> [s EXCEPT !.saved = <<s.x, s.y>>]
    [] c = "u" -> clampPos([s EXCEPT !.x = s.saved[1], !.y = s.saved[2]])
    [] c = "r" -> SetRegion(s, Param(s, 1, 0), Param(s, 2, 0))
    [] c = "X" -> eraseChars(s, Param(s, 1, 0))
    [] OTHER -> s

InEscape(s, c) ==
  CASE c = "[" -> [s EXCEPT !.mode = "csi", !.private = FALSE, !.buf = <<Empty>>]
    [] c = "]" -> [s EXCEPT !.mode = "osc", !.oscEsc = FALSE]
    [] OTHER -> [s EXCEPT !.mode = "text"]

InCsi(s, in) ==
  CASE in.c = "num" -> [s EXCEPT !.buf[Len(s.buf)] = IF @ = Empty THEN in.n ELSE Broken]
    [] in.c = ";" -> [s EXCEPT !.buf = Append(@, Empty)]
    [] in.c = "?" -> IF s.buf = <<Empty>> THEN [s EXCEPT !.private = TRUE]
                     ELSE [s EXCEPT !.buf[Len(s.buf)] = Broken]
    [] OTHER -> Final([s EXCEPT !.mode = "text"], in.c)

\* A title string ends with BEL or with ESC \.
InOsc(s, c) ==
  CASE c = "BEL" -> [s EXCEPT !.mode = "text"]
    [] c = "ESC" -> [s EXCEPT !.oscEsc = TRUE]
    [] c = "\\" /\ s.oscEsc -> [s EXCEPT !.mode = "text"]
    [] OTHER -> [s EXCEPT !.oscEsc = FALSE]

InText(s, c) ==
  CASE c = "ESC" -> [s EXCEPT !.mode = "esc"]
    [] c = "NL" -> newLine(s)
    [] c = "CR" -> [s EXCEPT !.x = 0]
    [] c = "TAB" -> advanceToTabStop(s)
    [] c = "BS" -> IF s.x > 0 THEN setCell([s EXCEPT !.x = @ - 1], " ") ELSE s
    [] c = "BEL" -> s
    [] OTHER -> LET put == setCell(s, "x") IN IF put.panic THEN put ELSE advance(put)

putc(s, in) ==
  CASE s.mode = "esc" -> InEscape(s, in.c)
    [] s.mode = "csi" -> InCsi(s, in)
    [] s.mode = "osc" -> InOsc(s, in.c)
    [] OTHER -> InText(s, in.c)

-----------------------------------------------------------------------------
New ==
  [grid |-> [p \in Cells |-> [ch |-> " ", fg |-> 7, bg |-> 0]], x |-> 0, y |-> 0,
   fg |-> 7, bg |-> 0, dirty |-> TRUE, panic |-> FALSE,
   mode |-> "text", private |-> FALSE, buf |-> <<Empty>>, oscEsc |-> FALSE,
   visible |-> TRUE, blink |-> TRUE, on |-> TRUE, ticker |-> 0, saved |-> <<0, 0>>,
   alt |-> FALSE, altGrid |-> [p \in Cells |-> [ch |-> " ", fg |-> 7, bg |-> 0]],
   altAt |-> <<0, 0>>, top |-> 0, bottom |-> Rows - 1, mouse |-> 0, wrap |-> TRUE]

Cursor(s) == IF s.visible /\ s.on THEN <<s.x, s.y>> ELSE NoCursor

Screen(s) == [grid |-> s.grid, at |-> <<s.x, s.y>>]

Init ==
  /\ t = New
  /\ shown = [grid |-> New.grid, cursor |-> NoCursor]
  /\ kept = Screen(New)
  /\ done = 0

Write(in) ==
  /\ done < MaxDone
  /\ ~t.panic
  /\ t.mode = "csi" /\ in.c = ";" => Len(t.buf) < MaxParams
  /\ t.mode = "csi" /\ in.c = "r" => \A i \in DOMAIN t.buf : t.buf[i] <= RegionMax
  /\ t' = putc(t, in)
  /\ kept' = IF t'.alt /\ ~t.alt THEN Screen(t) ELSE kept
  /\ done' = IF t'.mode = "text" THEN done + 1 ELSE done
  /\ UNCHANGED shown

\* A flush or a tick inside an escape or a control sequence finds the grid and
\* the cursor as they were before it, and is left out.
Between == t.mode \in {"text", "osc"} /\ ~t.panic

\* The display service asks for the cursor to blink, and ticks.
Tick ==
  /\ Between
  /\ t.blink /\ t.visible
  /\ t' = IF t.ticker = 0 THEN [t EXCEPT !.ticker = 1]
          ELSE [t EXCEPT !.ticker = 0, !.on = ~@, !.dirty = TRUE]
  /\ UNCHANGED <<shown, kept, done>>

Flush ==
  /\ Between
  /\ t.dirty
  /\ shown' = [grid |-> t.grid, cursor |-> Cursor(t)]
  /\ t' = [t EXCEPT !.dirty = FALSE]
  /\ UNCHANGED <<kept, done>>

Next == (\E in \in Input : Write(in)) \/ Tick \/ Flush

Spec == Init /\ [][Next]_vars

-----------------------------------------------------------------------------
\* The cursor stays on the grid, so that no byte makes the terminal index
\* past its cells, and the screen a program found when it entered the
\* alternate one is there, cursor and all, when it leaves (term.go setCell,
\* newLine, switchToAltScreen, switchToNormalScreen).
ScreenHolds ==
  /\ ~t.panic /\ InGrid(t)
  /\ t.alt => t.altGrid = kept.grid /\ t.altAt = kept.at

\* When no change is pending, the pixels show the grid (term.go dirty, Flush).
NothingUnseen == ~t.dirty => shown.grid = t.grid

\* When no change is pending, the cursor is drawn where it is: dirty is "any
\* pending change since last Flush" (term.go).
CursorUnseen == ~t.dirty => shown.cursor = Cursor(t)
=============================================================================
