---------------------------- MODULE ScreenBuffer ----------------------------
(***************************************************************************)
(* The terminal screen (class ScreenBuffer): a grid of cells, a cursor,    *)
(* margins, a scrollback and an alternate screen.  A method is an operator *)
(* from the screen before the call to the screen after it.  Rows and       *)
(* columns count from 0.  A cell is blank, holds a narrow glyph, or is one *)
(* half of a double-width glyph; colours and attributes are left out.      *)
(***************************************************************************)
EXTENDS Integers, Sequences, FiniteSets

CONSTANTS
    Sizes,          \* the sizes <<cols, rows>> a window may have
    ScrollbackMax,  \* m_scrollbackMax
    Counts,         \* the counts that escape sequences carry
    MaxInk          \* bound: cells that are not blank

VARIABLE screen

\* What is assumed of the constants: a window has a cell, counts are digits.
ScreenBounds ==
    /\ Sizes \subseteq (Nat \ {0}) \X (Nat \ {0})
    /\ ScrollbackMax \in Nat
    /\ Counts \subseteq Nat

Blank == "blank"
Cells == {Blank, "glyph", "wide", "trailer"}
Widths == {1, 2}  \* charWidth() of what is written

LesserOf(a, b) == IF a < b THEN a ELSE b
GreaterOf(a, b) == IF a > b THEN a ELSE b
Clamp(x, low, high) == GreaterOf(low, LesserOf(x, high))

BlankLine(cols) == [c \in 0 .. cols - 1 |-> Blank]
BlankGrid(cols, rows) == [r \in 0 .. rows - 1 |-> BlankLine(cols)]

NewScreen(cols, rows) ==
    [cols |-> cols, rows |-> rows, lines |-> BlankGrid(cols, rows), scrollback |-> << >>,
     row |-> 0, col |-> 0, pendingWrap |-> FALSE, savedRow |-> 0, savedCol |-> 0,
     top |-> 0, bottom |-> rows - 1, autoWrap |-> TRUE,
     alt |-> FALSE, primary |-> << >>, primaryRow |-> 0, primaryCol |-> 0]

Settled(s) == [s EXCEPT !.pendingWrap = FALSE]
At(s, row, col) == [Settled(s) EXCEPT !.row = row, !.col = col]
Clamped(s) == [s EXCEPT !.row = Clamp(@, 0, s.rows - 1), !.col = Clamp(@, 0, s.cols - 1)]

-----------------------------------------------------------------------------
(* Scrolling. *)

ShiftedUp(s, top, bottom, n) ==
    [r \in 0 .. s.rows - 1 |->
        IF r \notin top .. bottom THEN s.lines[r]
        ELSE IF r + n <= bottom THEN s.lines[r + n] ELSE BlankLine(s.cols)]

ShiftedDown(s, top, bottom, n) ==
    [r \in 0 .. s.rows - 1 |->
        IF r \notin top .. bottom THEN s.lines[r]
        ELSE IF r - n >= top THEN s.lines[r - n] ELSE BlankLine(s.cols)]

Newest(lines) ==
    SubSeq(lines, GreaterOf(1, Len(lines) - ScrollbackMax + 1), Len(lines))

ToScrollback_OnAlt(s, top, bottom) == top = 0 /\ bottom = s.rows - 1 /\ ScrollbackMax > 0
ToScrollback(s, top, bottom) ==
    ~s.alt /\ top = 0 /\ bottom = s.rows - 1 /\ ScrollbackMax > 0

ScrollRegionUp(s, top, bottom, count) ==
    LET n == LesserOf(count, bottom - top + 1)
        evicted == [i \in 1 .. n |-> s.lines[top + i - 1]]
    IN  [s EXCEPT !.lines = ShiftedUp(s, top, bottom, n),
                  !.scrollback = IF ToScrollback(s, top, bottom)
                                 THEN Newest(@ \o evicted) ELSE @]

ScrollRegionDown(s, top, bottom, count) ==
    [s EXCEPT !.lines = ShiftedDown(s, top, bottom, LesserOf(count, bottom - top + 1))]

-----------------------------------------------------------------------------
(* Cursor movement. *)

CarriageReturn(s) == At(s, s.row, 0)

LineFeed(s) ==
    IF s.row = s.bottom THEN ScrollRegionUp(Settled(s), s.top, s.bottom, 1)
    ELSE At(s, LesserOf(s.row + 1, s.rows - 1), s.col)

ReverseIndex(s) ==
    IF s.row = s.top THEN ScrollRegionDown(Settled(s), s.top, s.bottom, 1)
    ELSE At(s, GreaterOf(s.row - 1, 0), s.col)

Backspace(s) == At(s, s.row, GreaterOf(s.col - 1, 0))
Tab(s) == At(s, s.row, LesserOf((s.col \div 8 + 1) * 8, s.cols - 1))
MoveCursor(s, row, col) == Clamped(At(s, row, col))
MoveUp(s, n) == At(s, GreaterOf(s.top, s.row - GreaterOf(1, n)), s.col)
MoveDown(s, n) == At(s, LesserOf(s.bottom, s.row + GreaterOf(1, n)), s.col)
MoveForward(s, n) == At(s, s.row, LesserOf(s.cols - 1, s.col + GreaterOf(1, n)))
MoveBack(s, n) == At(s, s.row, GreaterOf(0, s.col - GreaterOf(1, n)))
SetColumn(s, col) == At(s, s.row, Clamp(col, 0, s.cols - 1))
SetRow(s, row) == At(s, Clamp(row, 0, s.rows - 1), s.col)
SaveCursor(s) == [s EXCEPT !.savedRow = s.row, !.savedCol = s.col]
RestoreCursor(s) == Clamped(At(s, s.savedRow, s.savedCol))

-----------------------------------------------------------------------------
(* Writing.  A glyph that lands on one half of a double-width glyph blanks *)
(* the other half.                                                         *)

Partner(line, c) ==
    {d \in DOMAIN line : \/ d = c + 1 /\ line[c] = "wide" /\ line[d] = "trailer"
                         \/ d = c - 1 /\ line[c] = "trailer" /\ line[d] = "wide"}

ClearPair(line, c) ==
    [d \in DOMAIN line |-> IF d \in Partner(line, c) THEN Blank ELSE line[d]]

OnLine(s, line) == [s EXCEPT !.lines[s.row] = line]

\* The wrap that the last glyph on a line left pending.
Wrapped(s) ==
    IF s.pendingWrap /\ s.autoWrap THEN LineFeed([s EXCEPT !.col = 0]) ELSE s

\* A double-width glyph that would straddle the margin goes to the next line.
Straddled(s) ==
    LET line == [ClearPair(s.lines[s.row], s.col) EXCEPT ![s.col] = Blank]
    IN  LineFeed([OnLine(s, line) EXCEPT !.col = 0])

Freed_LeadOnly(s, width) == ClearPair(s.lines[s.row], s.col)
Freed(s, width) ==
    LET line == ClearPair(s.lines[s.row], s.col)
    IN  IF width = 2 /\ s.col + 1 < s.cols THEN ClearPair(line, s.col + 1) ELSE line

Placed(s, width) ==
    [c \in 0 .. s.cols - 1 |->
        IF c = s.col THEN (IF width = 2 THEN "wide" ELSE "glyph")
        ELSE IF c = s.col + 1 /\ width = 2 THEN "trailer" ELSE Freed(s, width)[c]]

Advanced(s, width) ==
    IF s.col + width > s.cols - 1
    THEN [s EXCEPT !.col = s.cols - 1, !.pendingWrap = TRUE]
    ELSE [s EXCEPT !.col = @ + width]

WriteChar(s, width) ==
    LET wrapped == Wrapped(s)
        start == IF width = 2 /\ wrapped.col = s.cols - 1 THEN Straddled(wrapped) ELSE wrapped
    IN  Advanced(OnLine(start, Placed(start, width)), width)
-----------------------------------------------------------------------------
(* Erasing and editing.  None of it looks for the other half of a glyph.   *)

Erased(s, cells) ==
    [s EXCEPT !.lines = [r \in 0 .. s.rows - 1 |->
                            [c \in 0 .. s.cols - 1 |->
                                IF <<r, c>> \in cells THEN Blank ELSE s.lines[r][c]]]]

Before(s) == {p \in (0 .. s.rows - 1) \X (0 .. s.cols - 1) :
                \/ p[1] < s.row
                \/ p[1] = s.row /\ p[2] <= s.col}
After(s) == {p \in (0 .. s.rows - 1) \X (0 .. s.cols - 1) :
                \/ p[1] > s.row
                \/ p[1] = s.row /\ p[2] >= s.col}
CursorLine(s) == {s.row} \X (0 .. s.cols - 1)

EraseInDisplay(s, mode) ==
    LET cells == CASE mode = 0 -> After(s)
                   [] mode = 1 -> Before(s)
                   [] mode \in {2, 3} -> (0 .. s.rows - 1) \X (0 .. s.cols - 1)
                   [] OTHER -> {}
    IN  [Settled(Erased(s, cells)) EXCEPT !.scrollback = IF mode = 3 THEN << >> ELSE @]

EraseInLine(s, mode) ==
    LET cells == CASE mode = 0 -> After(s) \cap CursorLine(s)
                   [] mode = 1 -> Before(s) \cap CursorLine(s)
                   [] mode = 2 -> CursorLine(s)
                   [] OTHER -> {}
    IN  Settled(Erased(s, cells))

EraseChars(s, n) == Settled(Erased(s, {s.row} \X (s.col .. s.col + GreaterOf(1, n) - 1)))

InsertChars(s, n) ==
    LET line == s.lines[s.row]
        count == GreaterOf(1, n)
    IN  Settled(OnLine(s, [c \in DOMAIN line |->
            IF c < s.col THEN line[c]
            ELSE IF c < s.col + count THEN Blank ELSE line[c - count]]))

DeleteChars(s, n) ==
    LET line == s.lines[s.row]
        count == GreaterOf(1, n)
    IN  Settled(OnLine(s, [c \in DOMAIN line |->
            IF c < s.col THEN line[c]
            ELSE IF c + count < s.cols THEN line[c + count] ELSE Blank]))

InMargins(s) == s.row \in s.top .. s.bottom

InsertLines(s, n) ==
    IF InMargins(s) THEN Settled(ScrollRegionDown(s, s.row, s.bottom, GreaterOf(1, n))) ELSE s
DeleteLines(s, n) ==
    IF InMargins(s) THEN Settled(ScrollRegionUp(s, s.row, s.bottom, GreaterOf(1, n))) ELSE s

ScrollUp(s, n) == ScrollRegionUp(s, s.top, s.bottom, GreaterOf(1, n))
ScrollDown(s, n) == ScrollRegionDown(s, s.top, s.bottom, GreaterOf(1, n))

\* Arguments count from 1; 0 and what is off the screen stand for its edges.
SetScrollRegion(s, first, last) ==
    LET top == GreaterOf(first, 1)
        bottom == IF last \in 1 .. s.rows THEN last ELSE s.rows
        margins == IF top < bottom THEN <<top - 1, bottom - 1>> ELSE <<0, s.rows - 1>>
    IN  [At(s, margins[1], 0) EXCEPT !.top = margins[1], !.bottom = margins[2]]

-----------------------------------------------------------------------------
(* Whole-screen operations. *)

Unconfined(s) == [Settled(s) EXCEPT !.top = 0, !.bottom = s.rows - 1]

EnterAlt(s, clear) ==
    Clamped(Unconfined([s EXCEPT
        !.primary = s.lines, !.primaryRow = s.row, !.primaryCol = s.col, !.alt = TRUE,
        !.lines = IF clear THEN BlankGrid(s.cols, s.rows) ELSE @,
        !.row = IF clear THEN 0 ELSE @, !.col = IF clear THEN 0 ELSE @]))

LeaveAlt(s) ==
    Clamped(Unconfined([s EXCEPT
        !.lines = s.primary, !.row = s.primaryRow, !.col = s.primaryCol,
        !.primary = << >>, !.primaryRow = 0, !.primaryCol = 0, !.alt = FALSE]))

UseAltScreen(s, on, clear) ==
    IF on = s.alt THEN s ELSE IF on THEN EnterAlt(s, clear) ELSE LeaveAlt(s)

\* The text of a grid stays at its top left corner.
Resized(grid, cols, rows) ==
    [r \in 0 .. rows - 1 |->
        [c \in 0 .. cols - 1 |->
            IF r \in DOMAIN grid /\ c \in DOMAIN grid[r] THEN grid[r][c] ELSE Blank]]

ResizedPrimary_Kept(s, cols, rows) == s.primary
ResizedPrimary(s, cols, rows) ==
    IF s.primary = << >> THEN << >> ELSE Resized(s.primary, cols, rows)

Resize(s, cols, rows) ==
    IF cols = s.cols /\ rows = s.rows THEN s
    ELSE Clamped(Unconfined([s EXCEPT
            !.lines = Resized(@, cols, rows), !.primary = ResizedPrimary(s, cols, rows),
            !.cols = cols, !.rows = rows]))

Reset(s) == NewScreen(s.cols, s.rows)

-----------------------------------------------------------------------------
(* The screen as a machine: any method, in any order. *)

Init == \E size \in Sizes : screen = NewScreen(size[1], size[2])

\* The cells of the lines a screen keeps anywhere that are not blank.
Ink(s) ==
    LET Of(lines) == Cardinality({p \in (DOMAIN lines) \X (0 .. s.cols - 1) :
                                    p[2] \in DOMAIN lines[p[1]] /\ lines[p[1]][p[2]] # Blank})
    IN  Of(s.lines) + Of(s.primary) + Of(s.scrollback)

Write == /\ \E width \in Widths : screen' = WriteChar(screen, width)
         /\ Ink(screen') <= MaxInk

Control == screen' \in {CarriageReturn(screen), LineFeed(screen), ReverseIndex(screen),
                        Backspace(screen), Tab(screen), RestoreCursor(screen)}

\* Bound: the cursor is saved, by itself or with the primary screen, only in
\* the last cell, which is the one that a smaller window lacks.
InLastCell == screen.row = screen.rows - 1 /\ screen.col = screen.cols - 1

Save == InLastCell /\ screen' = SaveCursor(screen)

Move == \E n, m \in Counts :
            screen' \in {MoveUp(screen, n), MoveDown(screen, n), MoveForward(screen, n),
                        MoveBack(screen, n), SetColumn(screen, n), SetRow(screen, n),
                        MoveCursor(screen, n, m)}

Erase == \E mode \in 0 .. 3 :
            screen' \in {EraseInDisplay(screen, mode), EraseInLine(screen, mode)}

Edit == \E n \in Counts :
            screen' \in {EraseChars(screen, n), InsertChars(screen, n), DeleteChars(screen, n)}

Scroll == \E n \in Counts :
            screen' \in {InsertLines(screen, n), DeleteLines(screen, n),
                        ScrollUp(screen, n), ScrollDown(screen, n)}

Margins == \E n, m \in Counts : screen' = SetScrollRegion(screen, n, m)

Alternate == \E on, clear \in BOOLEAN :
                /\ on => InLastCell
                /\ screen' = UseAltScreen(screen, on, clear)

AutoWrap == \E on \in BOOLEAN : screen' = [screen EXCEPT !.autoWrap = on]

Window == \/ \E size \in Sizes : screen' = Resize(screen, size[1], size[2])
          \/ screen' \in {Reset(screen), [screen EXCEPT !.scrollback = << >>]}

Next == Write \/ Control \/ Save \/ Move \/ Erase \/ Edit \/ Scroll \/ Margins
        \/ Alternate \/ AutoWrap \/ Window

Spec == Init /\ [][Next]_screen

-----------------------------------------------------------------------------
(* Properties. *)

Grids(cols, rows) == [0 .. rows - 1 -> [0 .. cols - 1 -> Cells]]

\* No method leaves the screen in a shape that another would index out of: the
\* grid, and the one kept under the alternate screen, have the window's size
\* through every resize, the margins enclose a line, the cursor is on the
\* screen, and a wrap is only pending in the last column.
Shaped(s) ==
    /\ <<s.cols, s.rows>> \in Sizes
    /\ s.lines \in Grids(s.cols, s.rows)
    /\ s.primary \in IF s.alt THEN Grids(s.cols, s.rows) ELSE {<< >>}
    /\ s.row \in 0 .. s.rows - 1 /\ s.col \in 0 .. s.cols - 1
    /\ s.pendingWrap => s.col = s.cols - 1
    /\ 0 <= s.top /\ s.top <= s.bottom /\ s.bottom < s.rows
    /\ Len(s.scrollback) <= ScrollbackMax
ScreenShape == Shaped(screen)

Orphans(s) ==
    {p \in (0 .. s.rows - 1) \X (0 .. s.cols - 1) :
        /\ s.lines[p[1]][p[2]] \in {"wide", "trailer"}
        /\ Partner(s.lines[p[1]], p[2]) = {}}

\* Overwriting or wrapping never leaves more orphaned halves than there were.
WritesKeepPairs ==
    screen.cols > 1 =>
        \A width \in Widths :
            Cardinality(Orphans(WriteChar(screen, width))) <= Cardinality(Orphans(screen))

Visible(s) == [r \in 1 .. s.rows |-> s.lines[r - 1]]
Text(s) == s.scrollback \o Visible(s)
Whole(s) == ~s.alt /\ s.top = 0 /\ s.bottom = s.rows - 1

\* What the methods that scroll make of a screen.
ScrolledScreens ==
    {LineFeed(screen), ReverseIndex(screen)}
        \union UNION {{ScrollUp(screen, n), ScrollDown(screen, n),
                       InsertLines(screen, n), DeleteLines(screen, n)} : n \in Counts}

\* Whatever scrolls stays in the margins: lines above and below them do not
\* change, and text goes to the scrollback only from a primary screen that
\* scrolls as a whole.
ScrollStaysInMargins ==
    \A s \in ScrolledScreens :
        /\ \A r \in (0 .. screen.rows - 1) \ (screen.top .. screen.bottom) :
              s.lines[r] = screen.lines[r]
        /\ s.scrollback # screen.scrollback => Whole(screen)

\* What scrolls off a whole primary screen can be read in the scrollback, in
\* order and next to what is still on the screen, up to its limit.
HistoryKept ==
    Whole(screen) =>
        \A n \in {GreaterOf(1, m) : m \in Counts} :
            LET after == ScrollUp(screen, n)
                blanks == LesserOf(n, screen.rows)
                text == Text(screen) \o [i \in 1 .. blanks |-> BlankLine(screen.cols)]
            IN  /\ Len(after.scrollback) =
                        LesserOf(ScrollbackMax, Len(screen.scrollback) + blanks)
                /\ Text(after) = SubSeq(text, Len(text) - Len(Text(after)) + 1, Len(text))
=============================================================================
