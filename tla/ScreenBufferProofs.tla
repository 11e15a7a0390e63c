------------------------- MODULE ScreenBufferProofs -------------------------
(***************************************************************************)
(* Proofs about the terminal screen, for windows of any size, scrollbacks  *)
(* of any length and sequences with any counts, about the fields of a 3270 *)
(* screen of any size, and about the telnet records of any content.        *)
(***************************************************************************)
EXTENDS MCScreens, FiniteSetTheorems, SequenceTheorems, TLAPS

FieldNames == {"cols", "rows", "lines", "scrollback", "row", "col", "pendingWrap", "savedRow",
           "savedCol", "top", "bottom", "autoWrap", "alt", "primary", "primaryRow", "primaryCol"}

Lines == UNION {[0 .. n - 1 -> Cells] : n \in Nat}

\* The shape with the types it rests on: the positions that were saved may be
\* anywhere, as they are clamped when they are restored.
Typed(s) ==
    /\ DOMAIN s = FieldNames
    /\ s.autoWrap \in BOOLEAN /\ s.alt \in BOOLEAN /\ s.pendingWrap \in BOOLEAN
    /\ s.cols \in Nat \ {0} /\ s.rows \in Nat \ {0} /\ s.top \in Int /\ s.bottom \in Int
    /\ s.savedRow \in Int /\ s.savedCol \in Int /\ s.primaryRow \in Int /\ s.primaryCol \in Int
    /\ s.scrollback \in Seq(Lines)
Sound(s) == Typed(s) /\ Shaped(s)

\* The same of a screen whose cursor is still to be clamped.
Framed(s) ==
    /\ <<s.cols, s.rows>> \in Sizes
    /\ s.lines \in Grids(s.cols, s.rows)
    /\ s.primary \in IF s.alt THEN Grids(s.cols, s.rows) ELSE {<< >>}
    /\ 0 <= s.top /\ s.top <= s.bottom /\ s.bottom < s.rows
    /\ Len(s.scrollback) <= ScrollbackMax
Loose(s) == Typed(s) /\ Framed(s) /\ s.row \in Int /\ s.col \in Int /\ ~s.pendingWrap

Inv == ScreenBounds /\ Sound(screen)

-----------------------------------------------------------------------------
(* The cursor. *)

LEMMA ClampIn ==
    ASSUME NEW x \in Int, NEW high \in Nat
    PROVE  Clamp(x, 0, high) \in 0 .. high
BY DEF Clamp, LesserOf, GreaterOf

LEMMA SettledSound == ASSUME NEW s, Sound(s) PROVE Sound(Settled(s))
BY DEF Sound, Typed, Shaped, Settled, FieldNames

LEMMA AtSound ==
    ASSUME NEW s, Sound(s), NEW row \in 0 .. s.rows - 1, NEW col \in 0 .. s.cols - 1
    PROVE  Sound(At(s, row, col))
BY DEF Sound, Typed, Shaped, At, Settled, FieldNames

LEMMA ClampedSound == ASSUME NEW s, Loose(s) PROVE Sound(Clamped(s))
<1>1. s.rows - 1 \in Nat /\ s.cols - 1 \in Nat BY DEF Loose, Typed
<1>2. /\ Clamp(s.row, 0, s.rows - 1) \in 0 .. s.rows - 1
      /\ Clamp(s.col, 0, s.cols - 1) \in 0 .. s.cols - 1
  BY <1>1, ClampIn DEF Loose
<1> QED BY <1>2 DEF Sound, Typed, Shaped, Loose, Framed, FieldNames, Clamped

LEMMA AtLoose ==
    ASSUME NEW s, Sound(s), NEW row \in Int, NEW col \in Int
    PROVE  Loose(At(s, row, col))
BY DEF Sound, Typed, Shaped, Loose, Framed, At, Settled, FieldNames

\* Every movement of the cursor ends on the screen.
LEMMA MovesSound ==
    ASSUME NEW s, Sound(s), NEW n \in Nat, NEW m \in Nat
    PROVE  /\ Sound(CarriageReturn(s)) /\ Sound(Backspace(s)) /\ Sound(Tab(s))
           /\ Sound(MoveCursor(s, n, m)) /\ Sound(RestoreCursor(s))
           /\ Sound(MoveUp(s, n)) /\ Sound(MoveDown(s, n))
           /\ Sound(MoveForward(s, n)) /\ Sound(MoveBack(s, n))
           /\ Sound(SetColumn(s, n)) /\ Sound(SetRow(s, n))
<1> DEFINE R == 0 .. s.rows - 1
           C == 0 .. s.cols - 1
<1>1. /\ s.row \in R /\ s.col \in C /\ s.rows \in Nat \ {0} /\ s.cols \in Nat \ {0}
      /\ s.top \in R /\ s.bottom \in R /\ s.savedRow \in Int /\ s.savedCol \in Int
  BY DEF Sound, Typed, Shaped
<1> HIDE DEF R, C
<1>2. \A row \in R, col \in C : Sound(At(s, row, col)) BY AtSound DEF R, C
<1>3. 0 \in C /\ GreaterOf(s.col - 1, 0) \in C /\ LesserOf((s.col \div 8 + 1) * 8, s.cols - 1) \in C
  BY <1>1 DEF R, C, GreaterOf, LesserOf
<1>4. /\ GreaterOf(s.top, s.row - GreaterOf(1, n)) \in R
      /\ LesserOf(s.bottom, s.row + GreaterOf(1, n)) \in R
  BY <1>1 DEF R, C, GreaterOf, LesserOf
<1>5. /\ LesserOf(s.cols - 1, s.col + GreaterOf(1, n)) \in C
      /\ GreaterOf(0, s.col - GreaterOf(1, n)) \in C
  BY <1>1 DEF R, C, GreaterOf, LesserOf
<1>6. Clamp(n, 0, s.cols - 1) \in C /\ Clamp(n, 0, s.rows - 1) \in R
  <2>1. s.cols - 1 \in Nat /\ s.rows - 1 \in Nat /\ n \in Int BY <1>1
  <2>2. Clamp(n, 0, s.cols - 1) \in 0 .. s.cols - 1 BY <2>1, ClampIn
  <2>3. Clamp(n, 0, s.rows - 1) \in 0 .. s.rows - 1 BY <2>1, ClampIn
  <2> QED BY <2>2, <2>3 DEF R, C
<1>7. Sound(MoveCursor(s, n, m)) /\ Sound(RestoreCursor(s))
  BY <1>1, AtLoose, ClampedSound DEF MoveCursor, RestoreCursor
<1> QED BY <1>1, <1>2, <1>3, <1>4, <1>5, <1>6, <1>7
        DEF CarriageReturn, Backspace, Tab, MoveUp, MoveDown, MoveForward, MoveBack,
            SetColumn, SetRow

-----------------------------------------------------------------------------
(* Scrolling. *)

LEMMA BlankTypes ==
    ASSUME NEW cols \in Nat, NEW rows \in Nat
    PROVE  BlankLine(cols) \in [0 .. cols - 1 -> Cells] /\ BlankGrid(cols, rows) \in Grids(cols, rows)
BY DEF BlankLine, BlankGrid, Grids, Cells, Blank

LEMMA ShiftsType ==
    ASSUME NEW s, Sound(s), NEW top \in Nat, NEW bottom \in Nat, bottom < s.rows, NEW n \in Nat
    PROVE  /\ ShiftedUp(s, top, bottom, n) \in Grids(s.cols, s.rows)
           /\ ShiftedDown(s, top, bottom, n) \in Grids(s.cols, s.rows)
<1> DEFINE L == [0 .. s.cols - 1 -> Cells]
<1>1. BlankLine(s.cols) \in L BY BlankTypes DEF Sound, Typed
<1>2. s.rows \in Nat /\ \A r \in 0 .. s.rows - 1 : s.lines[r] \in L
  BY DEF Sound, Typed, Shaped, Grids
<1> HIDE DEF L
<1>3. \A r \in top .. bottom : /\ r + n <= bottom => r + n \in 0 .. s.rows - 1
                             /\ r - n >= top => r - n \in 0 .. s.rows - 1
  BY <1>2
<1>4. ShiftedUp(s, top, bottom, n) \in [0 .. s.rows - 1 -> L] BY <1>1, <1>2, <1>3 DEF ShiftedUp
<1>5. ShiftedDown(s, top, bottom, n) \in [0 .. s.rows - 1 -> L] BY <1>1, <1>2, <1>3 DEF ShiftedDown
<1> QED BY <1>4, <1>5 DEF Grids, L

LEMMA NewestType ==
    ASSUME ScrollbackMax \in Nat, NEW lines \in Seq(Lines)
    PROVE  Newest(lines) \in Seq(Lines) /\ Len(Newest(lines)) <= ScrollbackMax
<1> DEFINE first == GreaterOf(1, Len(lines) - ScrollbackMax + 1)
<1>1. first \in 1 .. Len(lines) + 1 BY DEF GreaterOf
<1>2. /\ SubSeq(lines, first, Len(lines)) \in Seq(Lines)
      /\ Len(SubSeq(lines, first, Len(lines))) =
             IF first <= Len(lines) THEN Len(lines) - first + 1 ELSE 0
  BY <1>1
<1> QED BY <1>1, <1>2 DEF Newest, GreaterOf

LEMMA RegionUpSound ==
    ASSUME ScreenBounds, NEW s, Sound(s), NEW top \in Nat, NEW bottom \in Nat,
           top <= bottom, bottom < s.rows, NEW count \in Nat
    PROVE  Sound(ScrollRegionUp(s, top, bottom, count))
<1> DEFINE n == LesserOf(count, bottom - top + 1)
           evicted == [i \in 1 .. n |-> s.lines[top + i - 1]]
           scrollback == IF ToScrollback(s, top, bottom)
                         THEN Newest(s.scrollback \o evicted) ELSE s.scrollback
<1>1. n \in Nat /\ top + n - 1 <= bottom BY DEF LesserOf
<1>2. ShiftedUp(s, top, bottom, n) \in Grids(s.cols, s.rows) BY <1>1, ShiftsType
<1>3. evicted \in Seq(Lines)
  <2>1. \A i \in 1 .. n : s.lines[top + i - 1] \in Lines
    <3> TAKE i \in 1 .. n
    <3>1. top + i - 1 \in 0 .. s.rows - 1 BY <1>1 DEF Sound, Typed
    <3>2. s.lines[top + i - 1] \in [0 .. s.cols - 1 -> Cells] BY <3>1 DEF Sound, Shaped, Grids
    <3> QED BY <3>2 DEF Lines, Sound, Typed
  <2> QED BY <1>1, <2>1
<1>4. scrollback \in Seq(Lines) /\ Len(scrollback) <= ScrollbackMax
  <2>1. s.scrollback \in Seq(Lines) BY DEF Sound, Typed
  <2>2. s.scrollback \o evicted \in Seq(Lines)
    <3> HIDE DEF evicted
    <3> QED BY <1>3, <2>1
  <2> QED BY <2>1, <2>2, NewestType DEF Sound, Shaped, ScreenBounds
<1>5. ScrollRegionUp(s, top, bottom, count) =
          [s EXCEPT !.lines = ShiftedUp(s, top, bottom, n), !.scrollback = scrollback]
  BY DEF ScrollRegionUp
<1> HIDE DEF n, evicted, scrollback
<1> QED BY <1>2, <1>4, <1>5 DEF Sound, Typed, Shaped, FieldNames

LEMMA RegionDownSound ==
    ASSUME NEW s, Sound(s), NEW top \in Nat, NEW bottom \in Nat,
           top <= bottom, bottom < s.rows, NEW count \in Nat
    PROVE  Sound(ScrollRegionDown(s, top, bottom, count))
<1> DEFINE n == LesserOf(count, bottom - top + 1)
<1>1. n \in Nat BY DEF LesserOf
<1>2. ShiftedDown(s, top, bottom, n) \in Grids(s.cols, s.rows) BY <1>1, ShiftsType
<1> HIDE DEF n
<1> QED BY <1>2 DEF ScrollRegionDown, n, Sound, Typed, Shaped, FieldNames

\* The cursor of s may stand where a pending wrap does not belong: a line feed
\* settles it.
LEMMA LineFeedSound ==
    ASSUME ScreenBounds, NEW s, Sound(Settled(s)), DOMAIN s = FieldNames
    PROVE  Sound(LineFeed(s))
<1> DEFINE t == Settled(s)
<1>1. /\ t.row = s.row /\ t.bottom = s.bottom /\ t.top = s.top /\ t.rows = s.rows /\ t.col = s.col
      /\ Settled(t) = t
  BY DEF Settled, FieldNames
<1>2. /\ t.row \in 0 .. t.rows - 1 /\ t.col \in 0 .. t.cols - 1 /\ t.rows \in Nat
      /\ t.top \in Nat /\ t.bottom \in Nat /\ t.top <= t.bottom /\ t.bottom < t.rows
  BY DEF Sound, Typed, Shaped
<1>3. CASE s.row = s.bottom
  <2>1. Sound(ScrollRegionUp(t, t.top, t.bottom, 1)) BY <1>2, RegionUpSound
  <2> QED BY <1>1, <1>3, <2>1 DEF LineFeed
<1>4. CASE s.row # s.bottom
  <2>1. LesserOf(t.row + 1, t.rows - 1) \in 0 .. t.rows - 1 BY <1>2 DEF LesserOf
  <2>2. Sound(At(t, LesserOf(t.row + 1, t.rows - 1), t.col)) BY <1>2, <2>1, AtSound
  <2> QED BY <1>1, <1>4, <2>2 DEF LineFeed, At
<1> QED BY <1>3, <1>4

LEMMA ReverseIndexSound == ASSUME NEW s, Sound(s) PROVE Sound(ReverseIndex(s))
<1> DEFINE t == Settled(s)
<1>1. /\ s.row \in 0 .. s.rows - 1 /\ s.col \in 0 .. s.cols - 1 /\ s.rows \in Nat
      /\ s.top \in Nat /\ s.bottom \in Nat /\ s.top <= s.bottom /\ s.bottom < s.rows
      /\ DOMAIN s = FieldNames
  BY DEF Sound, Typed, Shaped
<1>2. Sound(t) /\ t.rows = s.rows BY <1>1, SettledSound DEF Settled, FieldNames
<1>3. Sound(ScrollRegionDown(t, s.top, s.bottom, 1)) BY <1>1, <1>2, RegionDownSound
<1>4. GreaterOf(s.row - 1, 0) \in 0 .. s.rows - 1 BY <1>1 DEF GreaterOf
<1> QED BY <1>1, <1>3, <1>4, AtSound DEF ReverseIndex

LEMMA ScrollsSound ==
    ASSUME ScreenBounds, NEW s, Sound(s), NEW n \in Nat
    PROVE  /\ Sound(InsertLines(s, n)) /\ Sound(DeleteLines(s, n))
           /\ Sound(ScrollUp(s, n)) /\ Sound(ScrollDown(s, n))
<1>1. /\ s.row \in Nat /\ s.rows \in Nat
      /\ s.top \in Nat /\ s.bottom \in Nat /\ s.top <= s.bottom /\ s.bottom < s.rows
  BY DEF Sound, Typed, Shaped
<1>2. GreaterOf(1, n) \in Nat BY DEF GreaterOf
<1>3. Sound(ScrollUp(s, n)) /\ Sound(ScrollDown(s, n))
  BY <1>1, <1>2, RegionUpSound, RegionDownSound DEF ScrollUp, ScrollDown
<1>4. CASE ~InMargins(s) BY <1>3, <1>4 DEF InsertLines, DeleteLines
<1>5. CASE InMargins(s)
  <2>1. s.row <= s.bottom BY <1>1, <1>5 DEF InMargins
  <2>2. /\ Sound(ScrollRegionDown(s, s.row, s.bottom, GreaterOf(1, n)))
        /\ Sound(ScrollRegionUp(s, s.row, s.bottom, GreaterOf(1, n)))
    BY <1>1, <1>2, <2>1, RegionUpSound, RegionDownSound
  <2> QED BY <1>3, <1>5, <2>2, SettledSound DEF InsertLines, DeleteLines
<1> QED BY <1>4, <1>5

-----------------------------------------------------------------------------
(* Writing. *)

LineOf(s) == [0 .. s.cols - 1 -> Cells]

LEMMA ClearPairType ==
    ASSUME NEW s, NEW line \in LineOf(s), NEW c
    PROVE  ClearPair(line, c) \in LineOf(s)
BY DEF ClearPair, LineOf, Cells, Blank

LEMMA OnLineSound ==
    ASSUME NEW s, Sound(s), NEW line \in LineOf(s)
    PROVE  Sound(OnLine(s, line))
BY DEF Sound, Typed, Shaped, OnLine, LineOf, Grids, FieldNames

LEMMA CursorLineType ==
    ASSUME NEW s, Sound(s)
    PROVE  /\ s.lines[s.row] \in LineOf(s) /\ s.col \in 0 .. s.cols - 1
           /\ s.cols \in Nat \ {0} /\ DOMAIN s = FieldNames
BY DEF Sound, Typed, Shaped, LineOf, Grids

\* A line feed from the first column, wherever the cursor was.
LEMMA NextLineSound ==
    ASSUME ScreenBounds, NEW s, Sound(s)
    PROVE  Sound(LineFeed([s EXCEPT !.col = 0]))
<1> DEFINE t == [s EXCEPT !.col = 0]
<1>1. Sound(Settled(t)) BY DEF Sound, Typed, Shaped, Settled, FieldNames
<1>2. DOMAIN t = FieldNames BY DEF Sound, Typed
<1> HIDE DEF t
<1>3. Sound(LineFeed(t)) BY <1>1, <1>2, LineFeedSound
<1> QED BY <1>3 DEF t

LEMMA StraddledSound == ASSUME ScreenBounds, NEW s, Sound(s) PROVE Sound(Straddled(s))
<1> DEFINE line == [ClearPair(s.lines[s.row], s.col) EXCEPT ![s.col] = Blank]
<1>1. ClearPair(s.lines[s.row], s.col) \in LineOf(s) BY CursorLineType, ClearPairType
<1>2. line \in LineOf(s) BY <1>1 DEF LineOf, Cells, Blank
<1>3. Sound(OnLine(s, line)) BY <1>2, OnLineSound
<1> QED BY <1>3, NextLineSound DEF Straddled

LEMMA PlacedType ==
    ASSUME NEW s, Sound(s), NEW width \in Widths
    PROVE  Placed(s, width) \in LineOf(s)
<1>1. Freed(s, width) \in LineOf(s) BY CursorLineType, ClearPairType DEF Freed
<1> QED BY <1>1 DEF Placed, LineOf, Cells

LEMMA AdvancedSound ==
    ASSUME NEW s, Sound(s), NEW width \in Widths
    PROVE  Sound(Advanced(s, width))
<1>1. s.col \in 0 .. s.cols - 1 /\ s.cols \in Nat \ {0} /\ DOMAIN s = FieldNames /\ width \in 1 .. 2
  BY CursorLineType DEF Widths
<1>2. CASE s.col + width > s.cols - 1
  <2>1. Sound([s EXCEPT !.col = s.cols - 1, !.pendingWrap = TRUE])
    BY <1>1 DEF Sound, Typed, Shaped, FieldNames
  <2> QED BY <1>2, <2>1 DEF Advanced
<1>3. CASE ~(s.col + width > s.cols - 1)
  <2>1. ~s.pendingWrap BY <1>1, <1>3 DEF Sound, Shaped
  <2>2. s.col + width \in 0 .. s.cols - 1 BY <1>1, <1>3
  <2>3. Sound([s EXCEPT !.col = s.col + width])
    BY <1>1, <2>1, <2>2 DEF Sound, Typed, Shaped, FieldNames
  <2> QED BY <1>3, <2>3 DEF Advanced
<1> QED BY <1>2, <1>3

LEMMA WriteSound ==
    ASSUME ScreenBounds, NEW s, Sound(s), NEW width \in Widths
    PROVE  Sound(WriteChar(s, width))
<1> DEFINE wrapped == Wrapped(s)
           start == IF width = 2 /\ wrapped.col = s.cols - 1 THEN Straddled(wrapped) ELSE wrapped
<1>1. Sound(wrapped) BY NextLineSound DEF Wrapped
<1> HIDE DEF wrapped
<1>2. Sound(start) BY <1>1, StraddledSound
<1> HIDE DEF start
<1>3. Sound(OnLine(start, Placed(start, width))) BY <1>2, PlacedType, OnLineSound
<1>4. Sound(Advanced(OnLine(start, Placed(start, width)), width)) BY <1>3, AdvancedSound
<1> QED BY <1>4 DEF WriteChar, start, wrapped

-----------------------------------------------------------------------------
(* Erasing and editing. *)

LEMMA ErasedSound == ASSUME NEW s, Sound(s), NEW erased PROVE Sound(Erased(s, erased))
<1>1. Erased(s, erased).lines \in Grids(s.cols, s.rows)
  BY DEF Sound, Typed, Shaped, Erased, Grids, FieldNames, Cells, Blank
<1> QED BY <1>1 DEF Sound, Typed, Shaped, Erased, FieldNames

LEMMA ErasesSound ==
    ASSUME ScreenBounds, NEW s, Sound(s), NEW mode \in 0 .. 3, NEW n \in Nat
    PROVE  Sound(EraseInDisplay(s, mode)) /\ Sound(EraseInLine(s, mode)) /\ Sound(EraseChars(s, n))
<1>1. \A erased : Sound(Settled(Erased(s, erased))) BY ErasedSound, SettledSound
<1>2. \A t : Sound(t) => Sound([t EXCEPT !.scrollback = << >>])
  BY DEF Sound, Typed, Shaped, FieldNames, ScreenBounds
<1>3. \A t : Sound(t) => Sound([t EXCEPT !.scrollback = IF mode = 3 THEN << >> ELSE @])
  BY DEF Sound, Typed, Shaped, FieldNames, ScreenBounds
<1>4. Sound(EraseInDisplay(s, mode)) BY <1>1, <1>3 DEF EraseInDisplay
<1> QED BY <1>1, <1>4 DEF EraseInLine, EraseChars

LEMMA EditsSound ==
    ASSUME NEW s, Sound(s), NEW n \in Nat
    PROVE  Sound(InsertChars(s, n)) /\ Sound(DeleteChars(s, n))
<1> DEFINE line == s.lines[s.row]
           count == GreaterOf(1, n)
           inserted == [c \in DOMAIN line |-> IF c < s.col THEN line[c]
                           ELSE IF c < s.col + count THEN Blank ELSE line[c - count]]
           deleted == [c \in DOMAIN line |-> IF c < s.col THEN line[c]
                           ELSE IF c + count < s.cols THEN line[c + count] ELSE Blank]
<1>1. line \in LineOf(s) /\ s.col \in 0 .. s.cols - 1 /\ s.cols \in Nat BY CursorLineType
<1>2. count \in Nat \ {0} BY DEF GreaterOf
<1> HIDE DEF line, count
<1>3. inserted \in LineOf(s) BY <1>1, <1>2 DEF LineOf, Cells, Blank
<1>4. deleted \in LineOf(s) BY <1>1, <1>2 DEF LineOf, Cells, Blank
<1>5. Sound(Settled(OnLine(s, inserted))) /\ Sound(Settled(OnLine(s, deleted)))
  BY <1>3, <1>4, OnLineSound, SettledSound
<1> QED BY <1>5 DEF InsertChars, DeleteChars, line, count

-----------------------------------------------------------------------------
(* Margins, the alternate screen, the window. *)

LEMMA MarginsSound ==
    ASSUME NEW s, Sound(s), NEW first \in Nat, NEW last \in Nat
    PROVE  Sound(SetScrollRegion(s, first, last))
<1> DEFINE top == GreaterOf(first, 1)
           bottom == IF last \in 1 .. s.rows THEN last ELSE s.rows
           margins == IF top < bottom THEN <<top - 1, bottom - 1>> ELSE <<0, s.rows - 1>>
<1>1. s.rows \in Nat \ {0} /\ s.cols \in Nat \ {0} BY DEF Sound, Typed
<1>2. /\ margins[1] \in 0 .. s.rows - 1 /\ margins[2] \in 0 .. s.rows - 1
      /\ margins[1] <= margins[2]
  BY <1>1 DEF GreaterOf
<1> HIDE DEF margins
<1>3. ASSUME NEW t, Sound(t), t.rows = s.rows
      PROVE  Sound([t EXCEPT !.top = margins[1], !.bottom = margins[2]])
  <2> DEFINE u == [t EXCEPT !.top = margins[1], !.bottom = margins[2]]
  <2>1. DOMAIN t = FieldNames /\ t.rows \in Nat BY <1>3 DEF Sound, Typed
  <2>2. /\ DOMAIN u = FieldNames /\ u.top = margins[1] /\ u.bottom = margins[2]
        /\ \A f \in FieldNames \ {"top", "bottom"} : u[f] = t[f]
    BY <2>1 DEF FieldNames
  <2>3. margins[1] \in Int /\ margins[2] \in Int /\ 0 <= margins[1] /\ margins[2] < s.rows
    BY <1>1, <1>2
  <2> HIDE DEF u
  <2>4. Typed(u) BY <1>3, <2>2, <2>3 DEF Sound, Typed, FieldNames
  <2>5. Shaped(u) BY <1>2, <1>3, <2>2, <2>3 DEF Sound, Shaped, FieldNames
  <2> QED BY <2>4, <2>5 DEF Sound, u
<1>4. Sound(At(s, margins[1], 0))
  <2>1. 0 \in 0 .. s.cols - 1 BY <1>1
  <2> QED BY <1>2, <2>1, AtSound
<1>5. At(s, margins[1], 0).rows = s.rows BY DEF At, Settled, Sound, Typed, FieldNames
<1>6. Sound([At(s, margins[1], 0) EXCEPT !.top = margins[1], !.bottom = margins[2]])
  BY <1>3, <1>4, <1>5
<1> QED BY <1>6 DEF SetScrollRegion, margins

\* A screen whose size, grids or cursor were replaced, before it is clamped.
LEMMA ReplacedLoose ==
    ASSUME NEW s, Typed(s), Len(s.scrollback) <= ScrollbackMax,
           NEW cols \in Nat \ {0}, NEW rows \in Nat \ {0}, <<cols, rows>> \in Sizes,
           NEW lines \in Grids(cols, rows), NEW alt \in BOOLEAN,
           NEW primary \in IF alt THEN Grids(cols, rows) ELSE {<< >>},
           NEW row \in Int, NEW col \in Int, NEW primaryRow \in Int, NEW primaryCol \in Int,
           NEW t, DOMAIN t = FieldNames, t.cols = cols, t.rows = rows, t.lines = lines, t.alt = alt,
           t.primary = primary, t.row = row, t.col = col, t.primaryRow = primaryRow,
           t.primaryCol = primaryCol, t.savedRow = s.savedRow, t.savedCol = s.savedCol,
           t.scrollback = s.scrollback, t.autoWrap = s.autoWrap, t.pendingWrap = FALSE,
           t.top = 0, t.bottom = rows - 1
    PROVE  Loose(t)
<1>1. /\ s.savedRow \in Int /\ s.savedCol \in Int /\ s.scrollback \in Seq(Lines)
      /\ s.autoWrap \in BOOLEAN /\ FALSE \in BOOLEAN /\ 0 \in Int /\ rows - 1 \in Int
  BY DEF Typed
<1>2. Typed(t) BY <1>1 DEF Typed
<1>3. Framed(t) BY DEF Framed
<1> QED BY <1>2, <1>3 DEF Loose

LEMMA AlternateSound ==
    ASSUME NEW s, Sound(s), NEW on \in BOOLEAN, NEW clear \in BOOLEAN
    PROVE  Sound(UseAltScreen(s, on, clear))
<1>0. BlankGrid(s.cols, s.rows) \in Grids(s.cols, s.rows) BY BlankTypes DEF Sound, Typed
<1>1. /\ Typed(s) /\ Len(s.scrollback) <= ScrollbackMax /\ DOMAIN s = FieldNames
      /\ s.cols \in Nat \ {0} /\ s.rows \in Nat \ {0} /\ <<s.cols, s.rows>> \in Sizes
      /\ s.lines \in Grids(s.cols, s.rows) /\ s.row \in Int /\ s.col \in Int
      /\ s.primaryRow \in Int /\ s.primaryCol \in Int /\ s.alt \in BOOLEAN
      /\ s.primary \in IF s.alt THEN Grids(s.cols, s.rows) ELSE {<< >>}
  BY DEF Sound, Typed, Shaped
<1>2. CASE on # s.alt
  <2>1. CASE on
    <3> DEFINE lines == IF clear THEN BlankGrid(s.cols, s.rows) ELSE s.lines
               row == IF clear THEN 0 ELSE s.row
               col == IF clear THEN 0 ELSE s.col
               t == Unconfined([s EXCEPT
        !.primary = s.lines, !.primaryRow = s.row, !.primaryCol = s.col, !.alt = TRUE,
        !.lines = lines, !.row = row, !.col = col])
    <3>1. lines \in Grids(s.cols, s.rows) /\ row \in Int /\ col \in Int BY <1>0, <1>1
    <3>2. EnterAlt(s, clear) = Clamped(t) BY <1>1 DEF EnterAlt, FieldNames
    <3> HIDE DEF lines, row, col
    <3>3. Loose(t)
      <4>1. /\ DOMAIN t = FieldNames /\ t.cols = s.cols /\ t.rows = s.rows /\ t.lines = lines
            /\ t.alt = TRUE /\ t.primary = s.lines /\ t.row = row /\ t.col = col
            /\ t.primaryRow = s.row /\ t.primaryCol = s.col /\ t.savedRow = s.savedRow
            /\ t.savedCol = s.savedCol /\ t.scrollback = s.scrollback /\ t.top = 0
            /\ t.autoWrap = s.autoWrap /\ t.pendingWrap = FALSE /\ t.bottom = s.rows - 1
        BY <1>1 DEF Unconfined, Settled, FieldNames
      <4> HIDE DEF t
      <4>2. s.lines \in IF TRUE THEN Grids(s.cols, s.rows) ELSE {<< >>} BY <1>1
      <4> QED BY <1>1, <3>1, <4>1, <4>2, ReplacedLoose
    <3> HIDE DEF t
    <3>4. Sound(Clamped(t)) BY <3>3, ClampedSound
    <3> QED BY <1>2, <2>1, <3>2, <3>4 DEF UseAltScreen
  <2>2. CASE ~on
    <3> DEFINE t == Unconfined([s EXCEPT
        !.lines = s.primary, !.row = s.primaryRow, !.col = s.primaryCol,
        !.primary = << >>, !.primaryRow = 0, !.primaryCol = 0, !.alt = FALSE])
    <3>1. s.alt = TRUE /\ s.primary \in Grids(s.cols, s.rows) BY <1>1, <1>2, <2>2
    <3>2. Loose(t)
      <4>1. /\ DOMAIN t = FieldNames /\ t.cols = s.cols /\ t.rows = s.rows /\ t.lines = s.primary
            /\ t.alt = FALSE /\ t.primary = << >> /\ t.row = s.primaryRow
            /\ t.col = s.primaryCol /\ t.primaryRow = 0 /\ t.primaryCol = 0
            /\ t.savedRow = s.savedRow /\ t.savedCol = s.savedCol
            /\ t.scrollback = s.scrollback /\ t.top = 0
            /\ t.autoWrap = s.autoWrap /\ t.pendingWrap = FALSE /\ t.bottom = s.rows - 1
        BY <1>1 DEF Unconfined, Settled, FieldNames
      <4> HIDE DEF t
      <4>2. t.alt \in BOOLEAN /\ ~t.alt BY <4>1
      <4>3. t.primaryRow \in Int /\ t.primaryCol \in Int BY <4>1
      <4>4. t.primary \in {<< >>} BY <4>1
      <4>5. t.primary \in IF t.alt THEN Grids(s.cols, s.rows) ELSE {<< >>} BY <4>2, <4>4, Zenon
      <4> QED BY <1>1, <3>1, <4>1, <4>2, <4>3, <4>5, ReplacedLoose
    <3> HIDE DEF t
    <3>3. Sound(Clamped(t)) BY <3>2, ClampedSound
    <3> QED BY <1>2, <2>2, <3>3 DEF UseAltScreen, LeaveAlt, t
  <2> QED BY <2>1, <2>2
<1>3. CASE on = s.alt BY <1>3 DEF UseAltScreen
<1> QED BY <1>2, <1>3

LEMMA ResizedType ==
    ASSUME NEW cols \in Nat, NEW rows \in Nat, NEW c \in Nat, NEW r \in Nat,
           NEW grid \in Grids(c, r)
    PROVE  Resized(grid, cols, rows) \in Grids(cols, rows)
BY DEF Resized, Grids, Cells, Blank

LEMMA ResizeSound ==
    ASSUME ScreenBounds, NEW s, Sound(s), NEW size \in Sizes
    PROVE  Sound(Resize(s, size[1], size[2]))
<1> DEFINE cols == size[1]
           rows == size[2]
           t == Unconfined([s EXCEPT
                    !.lines = Resized(s.lines, cols, rows), !.primary = ResizedPrimary(s, cols, rows),
                    !.cols = cols, !.rows = rows])
<1>1. cols \in Nat \ {0} /\ rows \in Nat \ {0} /\ <<cols, rows>> \in Sizes BY DEF ScreenBounds
<1>2. s.cols \in Nat \ {0} /\ s.rows \in Nat \ {0} /\ DOMAIN s = FieldNames BY DEF Sound, Typed
<1> HIDE DEF cols, rows
<1>3. Resized(s.lines, cols, rows) \in Grids(cols, rows)
  BY <1>1, <1>2, ResizedType DEF Sound, Shaped
<1>4. ResizedPrimary(s, cols, rows) \in IF s.alt THEN Grids(cols, rows) ELSE {<< >>}
  <2>1. CASE s.alt
    <3>1. s.primary \in Grids(s.cols, s.rows) BY <2>1 DEF Sound, Shaped
    <3>2. s.primary # << >>
      <4>1. 0 \in DOMAIN s.primary BY <1>2, <3>1 DEF Grids
      <4>2. DOMAIN << >> = {} OBVIOUS
      <4> QED BY <4>1, <4>2
    <3> QED BY <1>1, <1>2, <2>1, <3>1, <3>2, ResizedType DEF ResizedPrimary
  <2>2. CASE ~s.alt BY <2>2 DEF Sound, Shaped, ResizedPrimary
  <2> QED BY <2>1, <2>2
<1>5. Loose(t)
  <2>1. /\ Typed(s) /\ Len(s.scrollback) <= ScrollbackMax /\ s.alt \in BOOLEAN /\ s.row \in Int
        /\ s.col \in Int /\ s.primaryRow \in Int /\ s.primaryCol \in Int
    BY DEF Sound, Typed, Shaped
  <2> DEFINE lines == Resized(s.lines, cols, rows)
             primary == ResizedPrimary(s, cols, rows)
  <2>2. t = Unconfined([s EXCEPT !.lines = lines, !.primary = primary,
                                 !.cols = cols, !.rows = rows])
    OBVIOUS
  <2>3. lines \in Grids(cols, rows) /\ primary \in IF s.alt THEN Grids(cols, rows) ELSE {<< >>}
    BY <1>3, <1>4
  <2> HIDE DEF t, lines, primary
  <2>4. /\ DOMAIN t = FieldNames /\ t.cols = cols /\ t.rows = rows /\ t.lines = lines
        /\ t.alt = s.alt /\ t.primary = primary /\ t.row = s.row /\ t.col = s.col
        /\ t.primaryRow = s.primaryRow /\ t.primaryCol = s.primaryCol
        /\ t.savedRow = s.savedRow /\ t.savedCol = s.savedCol
        /\ t.scrollback = s.scrollback /\ t.top = 0
        /\ t.autoWrap = s.autoWrap /\ t.pendingWrap = FALSE /\ t.bottom = rows - 1
    BY <1>2, <2>2 DEF Unconfined, Settled, FieldNames
  <2> QED BY <1>1, <2>1, <2>3, <2>4, ReplacedLoose
<1> HIDE DEF t
<1>6. Sound(Clamped(t)) BY <1>5, ClampedSound
<1> QED BY <1>6 DEF Resize, cols, rows, t

LEMMA NewScreenSound ==
    ASSUME ScreenBounds, NEW cols, NEW rows, <<cols, rows>> \in Sizes
    PROVE  Sound(NewScreen(cols, rows))
<1>1. cols \in Nat \ {0} /\ rows \in Nat \ {0} BY DEF ScreenBounds
<1>2. BlankGrid(cols, rows) \in Grids(cols, rows) BY <1>1, BlankTypes
<1> QED BY <1>1, <1>2 DEF NewScreen, Sound, Typed, Shaped, FieldNames, ScreenBounds

-----------------------------------------------------------------------------

LEMMA StepSound == ASSUME ScreenBounds, Sound(screen), Next PROVE Sound(screen')
<1>1. CASE Write BY <1>1, WriteSound DEF Write
<1>2. CASE Control
  <2>1. Sound(Settled(screen)) /\ DOMAIN screen = FieldNames BY SettledSound DEF Sound, Typed
  <2> QED BY <1>2, <2>1, MovesSound, LineFeedSound, ReverseIndexSound DEF Control
<1>3. CASE Save BY <1>3 DEF Save, SaveCursor, Sound, Typed, Shaped, FieldNames
<1>4. CASE Move BY <1>4, MovesSound DEF Move, ScreenBounds
<1>5. CASE Erase BY <1>5, ErasesSound DEF Erase
<1>6. CASE Edit BY <1>6, 0 \in 0 .. 3, ErasesSound, EditsSound DEF Edit, ScreenBounds
<1>7. CASE Scroll BY <1>7, ScrollsSound DEF Scroll, ScreenBounds
<1>8. CASE Margins BY <1>8, MarginsSound DEF Margins, ScreenBounds
<1>9. CASE Alternate BY <1>9, AlternateSound DEF Alternate
<1>10. CASE AutoWrap BY <1>10 DEF AutoWrap, Sound, Typed, Shaped, FieldNames
<1>11. CASE Window
  <2>1. CASE \E size \in Sizes : screen' = Resize(screen, size[1], size[2]) BY <2>1, ResizeSound
  <2>2. CASE screen' = Reset(screen) BY <2>2, NewScreenSound DEF Reset, Sound, Shaped
  <2>3. CASE screen' = [screen EXCEPT !.scrollback = << >>]
    BY <2>3 DEF Sound, Typed, Shaped, FieldNames, ScreenBounds
  <2> QED BY <1>11, <2>1, <2>2, <2>3 DEF Window
<1> QED BY <1>1, <1>2, <1>3, <1>4, <1>5, <1>6, <1>7, <1>8, <1>9, <1>10, <1>11 DEF Next

LEMMA InitInv == ScreenBounds /\ Init => Inv
<1> SUFFICES ASSUME ScreenBounds, NEW size \in Sizes, screen = NewScreen(size[1], size[2])
             PROVE  Sound(screen)
  BY DEF Init, Inv
<1>1. <<size[1], size[2]>> \in Sizes BY DEF ScreenBounds
<1> QED BY <1>1, NewScreenSound

LEMMA StepInv == Inv /\ [Next]_screen => Inv'
<1> SUFFICES ASSUME Inv, [Next]_screen PROVE Inv' OBVIOUS
<1>1. ScreenBounds' BY DEF Inv, ScreenBounds
<1>2. Sound(screen') BY StepSound DEF Inv
<1> QED BY <1>1, <1>2 DEF Inv

\* Through every order of writing, control characters, sequences and resizes
\* the grids, margins, cursor and pending wrap agree with the window's size.
THEOREM ShapeKept == ScreenBounds /\ Spec => []ScreenShape
<1>1. Inv => ScreenShape BY DEF Inv, Sound, ScreenShape
<1> QED BY <1>1, InitInv, StepInv, PTL DEF Spec

-----------------------------------------------------------------------------
(* What scrolls stays in the margins. *)

Outside(s) == (0 .. s.rows - 1) \ (s.top .. s.bottom)

\* What ScrollStaysInMargins says of one screen t that scrolling made of s.
Confined(s, t) ==
    /\ \A r \in Outside(s) : t.lines[r] = s.lines[r]
    /\ t.scrollback # s.scrollback => Whole(s)

LEMMA RegionConfined ==
    ASSUME NEW s, Sound(s), NEW top \in s.top .. s.bottom, NEW count \in Nat
    PROVE  /\ Confined(s, ScrollRegionUp(s, top, s.bottom, count))
           /\ Confined(s, ScrollRegionDown(s, top, s.bottom, count))
<1>1. /\ DOMAIN s = FieldNames /\ s.top \in Nat /\ s.bottom \in Nat /\ s.rows \in Nat
      /\ s.bottom < s.rows /\ s.alt \in BOOLEAN
  BY DEF Sound, Typed, Shaped
<1>2. \A r \in Outside(s) : r \in 0 .. s.rows - 1 /\ r \notin top .. s.bottom
  BY <1>1 DEF Outside
<1>3. ASSUME NEW n PROVE \A r \in Outside(s) :
          /\ ShiftedUp(s, top, s.bottom, n)[r] = s.lines[r]
          /\ ShiftedDown(s, top, s.bottom, n)[r] = s.lines[r]
  BY <1>2 DEF ShiftedUp, ShiftedDown
<1>4. ToScrollback(s, top, s.bottom) => Whole(s) BY <1>1 DEF ToScrollback, Whole
<1> DEFINE n == LesserOf(count, s.bottom - top + 1)
           up == ScrollRegionUp(s, top, s.bottom, count)
           down == ScrollRegionDown(s, top, s.bottom, count)
<1>5. /\ up.lines = ShiftedUp(s, top, s.bottom, n)
      /\ ~ToScrollback(s, top, s.bottom) => up.scrollback = s.scrollback
  BY <1>1 DEF ScrollRegionUp, FieldNames
<1>6. down.lines = ShiftedDown(s, top, s.bottom, n) /\ down.scrollback = s.scrollback
  BY <1>1 DEF ScrollRegionDown, FieldNames
<1> HIDE DEF n, up, down
<1>7. Confined(s, up) BY <1>3, <1>4, <1>5 DEF Confined
<1>8. Confined(s, down) BY <1>3, <1>6 DEF Confined
<1> QED BY <1>7, <1>8 DEF up, down

\* Settling a screen before or after it scrolls changes neither.
LEMMA SettledConfined ==
    ASSUME NEW s, NEW t, DOMAIN s = FieldNames, DOMAIN t = FieldNames
    PROVE  /\ Confined(s, t) => Confined(s, Settled(t))
           /\ Confined(Settled(s), t) => Confined(s, t)
BY DEF Confined, Outside, Whole, Settled, FieldNames

LEMMA MethodsConfined ==
    ASSUME ScreenBounds, NEW s, Sound(s), NEW n \in Nat
    PROVE  /\ Confined(s, LineFeed(s)) /\ Confined(s, ReverseIndex(s))
           /\ Confined(s, ScrollUp(s, n)) /\ Confined(s, ScrollDown(s, n))
           /\ Confined(s, InsertLines(s, n)) /\ Confined(s, DeleteLines(s, n))
<1>1. /\ DOMAIN s = FieldNames /\ s.top \in Nat /\ s.bottom \in Nat /\ s.rows \in Nat
      /\ s.top <= s.bottom /\ s.row \in Nat
  BY DEF Sound, Typed, Shaped
<1> DEFINE t == Settled(s)
<1>2. Sound(t) /\ t.top = s.top /\ t.bottom = s.bottom /\ DOMAIN t = FieldNames
  BY <1>1, SettledSound DEF Settled, FieldNames
<1>3. Confined(s, s) BY DEF Confined
<1>4. Confined(s, At(s, LesserOf(s.row + 1, s.rows - 1), s.col))
      /\ Confined(s, At(s, GreaterOf(s.row - 1, 0), s.col))
  BY <1>1 DEF Confined, At, Settled, FieldNames
<1>5. s.top \in s.top .. s.bottom /\ GreaterOf(1, n) \in Nat BY <1>1 DEF GreaterOf
<1>6. Confined(s, ScrollUp(s, n)) /\ Confined(s, ScrollDown(s, n))
  BY <1>5, RegionConfined DEF ScrollUp, ScrollDown
<1> DEFINE fed == ScrollRegionUp(t, t.top, t.bottom, 1)
           back == ScrollRegionDown(t, t.top, t.bottom, 1)
<1>7. Confined(t, fed) /\ Confined(t, back) BY <1>2, <1>5, RegionConfined
<1>8. DOMAIN fed = FieldNames /\ DOMAIN back = FieldNames
  BY <1>2 DEF ScrollRegionUp, ScrollRegionDown
<1>9. Confined(s, fed) /\ Confined(s, back)
  <2> HIDE DEF fed, back
  <2> QED BY <1>1, <1>7, <1>8, SettledConfined DEF t
<1>10. Confined(s, LineFeed(s)) /\ Confined(s, ReverseIndex(s))
  BY <1>2, <1>4, <1>9 DEF LineFeed, ReverseIndex
<1>11. CASE ~InMargins(s) BY <1>3, <1>6, <1>10, <1>11 DEF InsertLines, DeleteLines
<1>12. CASE InMargins(s)
  <2> DEFINE inserted == ScrollRegionDown(s, s.row, s.bottom, GreaterOf(1, n))
             deleted == ScrollRegionUp(s, s.row, s.bottom, GreaterOf(1, n))
  <2>1. s.row \in s.top .. s.bottom BY <1>12 DEF InMargins
  <2>2. Confined(s, inserted) /\ Confined(s, deleted) BY <1>5, <2>1, RegionConfined
  <2>3. DOMAIN inserted = FieldNames /\ DOMAIN deleted = FieldNames
    BY <1>1 DEF ScrollRegionUp, ScrollRegionDown
  <2> HIDE DEF inserted, deleted
  <2>4. Confined(s, Settled(inserted)) /\ Confined(s, Settled(deleted))
    BY <1>1, <2>2, <2>3, SettledConfined
  <2> QED BY <1>6, <1>10, <1>12, <2>4 DEF InsertLines, DeleteLines, inserted, deleted
<1> QED BY <1>6, <1>10, <1>11, <1>12

LEMMA InMarginsAll == Inv => ScrollStaysInMargins
<1> SUFFICES ASSUME Inv, NEW s \in ScrolledScreens PROVE Confined(screen, s)
  BY DEF ScrollStaysInMargins, Confined, Outside
<1>1. \A n \in Counts : n \in Nat BY DEF Inv, ScreenBounds
<1>2. 0 \in Nat OBVIOUS
<1>3. Sound(screen) /\ ScreenBounds BY DEF Inv
<1> QED BY <1>1, <1>2, <1>3, MethodsConfined DEF ScrolledScreens

\* No method that scrolls touches a line outside the margins, and only a whole
\* primary screen gives text to the scrollback.
THEOREM MarginsHold == ScreenBounds /\ Spec => []ScrollStaysInMargins
BY InMarginsAll, InitInv, StepInv, PTL DEF Spec

-----------------------------------------------------------------------------
(* The halves of double-width glyphs. *)

\* A cell has one partner at most, and is the partner of its partner.
LEMMA PartnerIs ==
    ASSUME NEW n \in Nat, NEW line \in [0 .. n - 1 -> Cells],
           NEW a \in 0 .. n - 1, NEW d \in Partner(line, a)
    PROVE  /\ d \in 0 .. n - 1 /\ d # a /\ a \in Partner(line, d)
           /\ line[a] # Blank /\ line[d] # Blank
           /\ \A b \in 0 .. n - 1 : d \in Partner(line, b) => b = a
<1>1. d \in 0 .. n - 1 /\ a \in DOMAIN line /\ DOMAIN line = 0 .. n - 1 BY DEF Partner
<1>2. \/ d = a + 1 /\ line[a] = "wide" /\ line[d] = "trailer"
      \/ d = a - 1 /\ line[a] = "trailer" /\ line[d] = "wide"
  BY DEF Partner
<1>3. a \in Partner(line, d) BY <1>1, <1>2 DEF Partner
<1>4. ASSUME NEW b \in 0 .. n - 1, d \in Partner(line, b) PROVE b = a
  <2>1. \/ d = b + 1 /\ line[b] = "wide" /\ line[d] = "trailer"
        \/ d = b - 1 /\ line[b] = "trailer" /\ line[d] = "wide"
    BY <1>4 DEF Partner
  <2> QED BY <1>2, <2>1
<1> QED BY <1>1, <1>2, <1>3, <1>4 DEF Blank

\* A half of a glyph whose other half is not there.
Orphan(line, c) == line[c] \in {"wide", "trailer"} /\ Partner(line, c) = {}

\* A line and what became of it: what halves are kept and what became of their
\* partners decides on new orphans.
LEMMA NoNewOrphan ==
    ASSUME NEW n \in Nat, NEW line \in [0 .. n - 1 -> Cells], NEW new \in [0 .. n - 1 -> Cells],
           NEW c \in 0 .. n - 1, Orphan(new, c), new[c] = line[c],
           \A d \in Partner(line, c) : new[d] = line[d]
    PROVE  Orphan(line, c)
<1> SUFFICES ASSUME NEW d \in Partner(line, c) PROVE FALSE BY DEF Orphan
<1>1. d \in 0 .. n - 1 BY PartnerIs
<1>2. d \in Partner(new, c) BY <1>1 DEF Partner
<1> QED BY <1>2 DEF Orphan

LEMMA ClearPairIs ==
    ASSUME NEW n \in Nat, NEW line \in [0 .. n - 1 -> Cells], NEW p
    PROVE  /\ ClearPair(line, p) \in [0 .. n - 1 -> Cells]
           /\ \A c \in 0 .. n - 1 : ClearPair(line, p)[c] = IF c \in Partner(line, p) THEN Blank ELSE line[c]
BY DEF ClearPair, Cells, Blank

LEMMA PlacedOrphans ==
    ASSUME NEW s, Sound(s), NEW width \in Widths, width = 2 => s.col # s.cols - 1,
           NEW c \in 0 .. s.cols - 1, Orphan(Placed(s, width), c)
    PROVE  Orphan(s.lines[s.row], c)
<1> DEFINE n == s.cols
           p == s.col
           line == s.lines[s.row]
           once == ClearPair(line, p)
           freed == Freed(s, width)
           new == Placed(s, width)
<1>1. line \in [0 .. n - 1 -> Cells] /\ p \in 0 .. n - 1 /\ n \in Nat BY CursorLineType DEF LineOf
<1>2. width \in {1, 2} /\ (width = 2 => p + 1 \in 0 .. n - 1) BY <1>1 DEF Widths
<1>3. /\ once \in [0 .. n - 1 -> Cells]
      /\ \A d \in 0 .. n - 1 : once[d] = IF d \in Partner(line, p) THEN Blank ELSE line[d]
  <2> HIDE DEF line, p, n
  <2> QED BY <1>1, ClearPairIs
<1>4. freed = IF width = 2 THEN ClearPair(once, p + 1) ELSE once
  <2>1. width = 2 => s.col + 1 < s.cols BY <1>1, <1>2
  <2> QED BY <2>1 DEF Freed
<1>5. new = [d \in 0 .. n - 1 |-> IF d = p THEN (IF width = 2 THEN "wide" ELSE "glyph")
                                  ELSE IF d = p + 1 /\ width = 2 THEN "trailer" ELSE freed[d]]
  BY DEF Placed
<1>6. Orphan(new, c) /\ c \in 0 .. n - 1 OBVIOUS
<1> HIDE DEF n, p, line, once, freed, new
<1>7. freed \in [0 .. n - 1 -> Cells]
  BY <1>1, <1>3, <1>4, ClearPairIs
<1>8. new \in [0 .. n - 1 -> Cells] BY <1>5, <1>7 DEF Cells
<1>9. c # p /\ ~(width = 2 /\ c = p + 1)
  <2>1. ASSUME c = p PROVE FALSE
    <3>1. new[c] = IF width = 2 THEN "wide" ELSE "glyph" BY <1>1, <1>5, <2>1
    <3>2. width = 2 /\ new[p] = "wide" BY <1>2, <1>6, <2>1, <3>1 DEF Orphan
    <3>3. new[p + 1] = "trailer" /\ p + 1 # p BY <1>1, <1>2, <1>5, <3>2
    <3>4. p + 1 \in Partner(new, p) BY <1>2, <1>8, <3>2, <3>3 DEF Partner
    <3> QED BY <1>6, <2>1, <3>4 DEF Orphan
  <2>2. ASSUME width = 2, c = p + 1 PROVE FALSE
    <3>1. new[p] = "wide" /\ new[p + 1] = "trailer" BY <1>1, <1>2, <1>5, <2>2
    <3>2. p = (p + 1) - 1 BY <1>1
    <3>3. p \in Partner(new, p + 1) BY <1>1, <1>8, <3>1, <3>2 DEF Partner
    <3> QED BY <1>6, <2>2, <3>3 DEF Orphan
  <2> QED BY <2>1, <2>2
<1>10. new[c] = freed[c] /\ new[c] # Blank BY <1>5, <1>6, <1>9 DEF Orphan, Blank
<1>11. /\ freed[c] = once[c] /\ once[c] = line[c] /\ c \notin Partner(line, p)
       /\ width = 2 => c \notin Partner(once, p + 1)
  <2>1. CASE width = 2
    <3>1. freed[c] = IF c \in Partner(once, p + 1) THEN Blank ELSE once[c]
      BY <1>1, <1>3, <1>4, <1>6, <2>1, ClearPairIs
    <3> QED BY <1>3, <1>6, <1>10, <3>1
  <2>2. CASE width # 2 BY <1>3, <1>4, <1>6, <1>10, <2>2
  <2> QED BY <2>1, <2>2
<1>12. ASSUME NEW d \in Partner(line, c) PROVE new[d] = line[d]
  <2>1. /\ d \in 0 .. n - 1 /\ d # c /\ c \in Partner(line, d) /\ line[c] # Blank /\ line[d] # Blank
        /\ \A b \in 0 .. n - 1 : d \in Partner(line, b) => b = c
    BY <1>1, <1>6, <1>12, PartnerIs
  <2>2. d # p BY <1>11, <2>1
  <2>3. d \notin Partner(line, p) BY <1>1, <1>9, <2>1
  <2>4. once[d] = line[d] BY <1>3, <2>1, <2>3
  <2>5. CASE width = 2
    <3>1. d # p + 1
      <4> SUFFICES ASSUME d = p + 1 PROVE FALSE OBVIOUS
      <4>1. c \in Partner(once, d)
        BY <1>1, <1>3, <1>6, <1>11, <2>1, <2>4 DEF Partner
      <4> QED BY <1>11, <2>5, <4>1
    <3>2. d \notin Partner(once, p + 1)
      <4> SUFFICES ASSUME d \in Partner(once, p + 1) PROVE FALSE OBVIOUS
      <4>1. once[p + 1] # Blank BY <1>2, <1>3, <2>5, PartnerIs, <1>1
      <4>2. once[p + 1] = line[p + 1] BY <1>2, <1>3, <2>5, <4>1
      <4>3. d \in Partner(line, p + 1) BY <1>1, <1>3, <2>4, <4>2 DEF Partner
      <4> QED BY <1>2, <1>9, <2>1, <2>5, <4>3
    <3>3. freed[d] = once[d] BY <1>1, <1>3, <1>4, <2>1, <2>5, <3>2, ClearPairIs
    <3> QED BY <1>5, <2>1, <2>2, <2>4, <3>1, <3>3
  <2>6. CASE width # 2 BY <1>4, <1>5, <2>1, <2>2, <2>4, <2>6
  <2> QED BY <2>5, <2>6
<1>13. Orphan(line, c) BY <1>1, <1>6, <1>8, <1>10, <1>11, <1>12, NoNewOrphan
<1> QED BY <1>13 DEF line

\* A straddling glyph leaves its cell blank.
LEMMA BlankedOrphans ==
    ASSUME NEW s, Sound(s), NEW c \in 0 .. s.cols - 1,
           Orphan([ClearPair(s.lines[s.row], s.col) EXCEPT ![s.col] = Blank], c)
    PROVE  Orphan(s.lines[s.row], c)
<1> DEFINE n == s.cols
           p == s.col
           line == s.lines[s.row]
           once == ClearPair(line, p)
           new == [once EXCEPT ![p] = Blank]
<1>1. line \in [0 .. n - 1 -> Cells] /\ p \in 0 .. n - 1 /\ n \in Nat BY CursorLineType DEF LineOf
<1>2. Orphan(new, c) /\ c \in 0 .. n - 1 OBVIOUS
<1> HIDE DEF line, n, p
<1>3. /\ once \in [0 .. n - 1 -> Cells]
      /\ \A d \in 0 .. n - 1 : once[d] = IF d \in Partner(line, p) THEN Blank ELSE line[d]
  BY <1>1, ClearPairIs
<1> HIDE DEF once
<1>4. /\ new \in [0 .. n - 1 -> Cells]
      /\ \A d \in 0 .. n - 1 : new[d] = IF d = p THEN Blank ELSE once[d]
  BY <1>3 DEF Cells, Blank
<1> HIDE DEF new
<1>5. new[c] # Blank BY <1>2 DEF Orphan, Blank
<1>6. c # p /\ c \notin Partner(line, p) /\ new[c] = line[c] BY <1>2, <1>3, <1>4, <1>5
<1>7. ASSUME NEW d \in Partner(line, c) PROVE new[d] = line[d]
  <2>1. /\ d \in 0 .. n - 1 /\ c \in Partner(line, d)
        /\ \A b \in 0 .. n - 1 : d \in Partner(line, b) => b = c
    BY <1>1, <1>2, <1>7, PartnerIs
  <2> QED BY <1>1, <1>3, <1>4, <1>6, <2>1
<1>8. Orphan(line, c) BY <1>1, <1>2, <1>4, <1>6, <1>7, NoNewOrphan
<1> QED BY <1>8 DEF line

\* The part of a screen that its orphans depend on.
Grid(s) == DOMAIN s = FieldNames /\ s.rows \in Nat /\ s.cols \in Nat /\ s.lines \in Grids(s.cols, s.rows)

LEMMA OrphansAre ==
    ASSUME NEW s, Grid(s)
    PROVE  /\ Orphans(s) = {q \in (0 .. s.rows - 1) \X (0 .. s.cols - 1) : Orphan(s.lines[q[1]], q[2])}
           /\ IsFiniteSet(Orphans(s)) /\ Cardinality(Orphans(s)) \in Nat
<1>1. Orphans(s) = {q \in (0 .. s.rows - 1) \X (0 .. s.cols - 1) : Orphan(s.lines[q[1]], q[2])}
  BY DEF Orphans, Orphan
<1>2. s.rows - 1 \in Int /\ s.cols - 1 \in Int /\ 0 \in Int BY DEF Grid
<1>3. IsFiniteSet(0 .. s.rows - 1) /\ IsFiniteSet(0 .. s.cols - 1) BY <1>2, FS_Interval
<1>4. IsFiniteSet((0 .. s.rows - 1) \X (0 .. s.cols - 1)) BY <1>3, FS_Product
<1>5. Orphans(s) \in SUBSET ((0 .. s.rows - 1) \X (0 .. s.cols - 1)) BY <1>1
<1>6. IsFiniteSet(Orphans(s)) BY <1>4, <1>5, FS_Subset
<1> QED BY <1>1, <1>6, FS_CardinalityType

\* A line that is written to leaves no more orphans than there were.
LEMMA OnLineOrphans ==
    ASSUME NEW s, Sound(s), NEW new \in LineOf(s), NEW t, Grid(t),
           t.rows = s.rows, t.cols = s.cols, t.lines = [s.lines EXCEPT ![s.row] = new],
           \A c \in 0 .. s.cols - 1 : Orphan(new, c) => Orphan(s.lines[s.row], c)
    PROVE  Cardinality(Orphans(t)) <= Cardinality(Orphans(s))
<1>1. Grid(s) /\ s.row \in 0 .. s.rows - 1 BY DEF Sound, Typed, Shaped, Grid
<1>2. Orphans(t) \in SUBSET Orphans(s)
  <2> SUFFICES ASSUME NEW q \in Orphans(t) PROVE q \in Orphans(s) OBVIOUS
  <2>1. q \in (0 .. s.rows - 1) \X (0 .. s.cols - 1) /\ Orphan(t.lines[q[1]], q[2]) BY OrphansAre
  <2>2. q[1] \in 0 .. s.rows - 1 /\ q[2] \in 0 .. s.cols - 1 BY <2>1
  <2>3. s.lines \in Grids(s.cols, s.rows) BY <1>1 DEF Grid
  <2>4. t.lines[q[1]] = IF q[1] = s.row THEN new ELSE s.lines[q[1]] BY <2>2, <2>3 DEF Grids
  <2>5. Orphan(s.lines[q[1]], q[2]) BY <2>1, <2>2, <2>4
  <2> QED BY <1>1, <2>1, <2>5, OrphansAre
<1>3. IsFiniteSet(Orphans(s)) BY <1>1, OrphansAre
<1> QED BY <1>2, <1>3, FS_Subset

LEMMA ScrollOrphans ==
    ASSUME NEW s, Grid(s), NEW top \in Nat, NEW bottom \in Nat, top <= bottom, bottom < s.rows
    PROVE  LET t == ScrollRegionUp(s, top, bottom, 1)
           IN  /\ Grid(t) /\ t.rows = s.rows /\ t.cols = s.cols /\ t.col = s.col
               /\ Cardinality(Orphans(t)) <= Cardinality(Orphans(s))
<1> DEFINE t == ScrollRegionUp(s, top, bottom, 1)
           R == 0 .. s.rows - 1
           C == 0 .. s.cols - 1
<1>1. LesserOf(1, bottom - top + 1) = 1 BY DEF LesserOf
<1>2. /\ DOMAIN t = FieldNames /\ t.rows = s.rows /\ t.cols = s.cols /\ t.col = s.col
      /\ t.lines = ShiftedUp(s, top, bottom, 1)
  BY <1>1 DEF ScrollRegionUp, Grid, FieldNames
<1>3. s.lines \in [R -> [C -> Cells]] /\ s.rows \in Nat /\ s.cols \in Nat BY DEF Grid, Grids
<1>4. BlankLine(s.cols) \in [C -> Cells] BY <1>3, BlankTypes
<1>5. \A r \in R : t.lines[r] = IF r \notin top .. bottom THEN s.lines[r]
                               ELSE IF r + 1 <= bottom THEN s.lines[r + 1] ELSE BlankLine(s.cols)
  BY <1>2 DEF ShiftedUp
<1>6. \A r \in R : r \in top .. bottom /\ r + 1 <= bottom => r + 1 \in R BY <1>3
<1>7. t.lines \in [R -> [C -> Cells]]
  <2>1. t.lines = [r \in R |-> t.lines[r]] BY <1>2 DEF ShiftedUp
  <2>2. \A r \in R : t.lines[r] \in [C -> Cells] BY <1>3, <1>4, <1>5, <1>6
  <2> HIDE DEF t
  <2> QED BY <2>1, <2>2
<1>8. Grid(t) BY <1>2, <1>3, <1>7 DEF Grid, Grids
<1>9. Orphans(t) = {q \in R \X C : Orphan(t.lines[q[1]], q[2])} BY <1>2, <1>8, OrphansAre
<1>10. Orphans(s) = {q \in R \X C : Orphan(s.lines[q[1]], q[2])} /\ IsFiniteSet(Orphans(s)) BY OrphansAre
<1> HIDE DEF t
<1>11. ASSUME NEW q \in Orphans(t)
       PROVE  /\ q \in R \X C /\ q = <<q[1], q[2]>> /\ q[1] \in R /\ q[2] \in C
              /\ q[1] \notin top .. bottom => q \in Orphans(s)
              /\ q[1] \in top .. bottom => q[1] + 1 <= bottom /\ <<q[1] + 1, q[2]>> \in Orphans(s)
  <2>1. q \in R \X C /\ Orphan(t.lines[q[1]], q[2]) BY <1>9
  <2>2. q = <<q[1], q[2]>> /\ q[1] \in R /\ q[2] \in C BY <2>1
  <2>3. CASE q[1] \notin top .. bottom
    <3>1. Orphan(s.lines[q[1]], q[2]) BY <1>5, <2>1, <2>2, <2>3
    <3> QED BY <1>10, <2>1, <2>2, <2>3, <3>1
  <2>4. CASE q[1] \in top .. bottom
    <3>1. q[1] + 1 <= bottom
      <4> SUFFICES ASSUME ~(q[1] + 1 <= bottom) PROVE FALSE OBVIOUS
      <4>1. t.lines[q[1]] = BlankLine(s.cols) BY <1>5, <2>2, <2>4
      <4>2. t.lines[q[1]][q[2]] = Blank BY <2>2, <4>1 DEF BlankLine
      <4> QED BY <2>1, <4>2 DEF Orphan, Blank
    <3>2. t.lines[q[1]] = s.lines[q[1] + 1] /\ q[1] + 1 \in R BY <1>5, <1>6, <2>2, <2>4, <3>1
    <3>3. PICK z : z = <<q[1] + 1, q[2]>> OBVIOUS
    <3>4. z \in R \X C /\ z[1] = q[1] + 1 /\ z[2] = q[2] BY <2>2, <3>2, <3>3
    <3>5. Orphan(s.lines[z[1]], z[2]) BY <2>1, <3>2, <3>4
    <3>6. z \in Orphans(s) BY <1>10, <3>4, <3>5
    <3> QED BY <2>1, <2>2, <2>4, <3>1, <3>3, <3>6
  <2> QED BY <2>1, <2>2, <2>3, <2>4
<1> DEFINE Old(q) == IF q[1] \in top .. bottom THEN <<q[1] + 1, q[2]>> ELSE q
           f == [q \in Orphans(t) |-> Old(q)]
<1>12. f \in [Orphans(t) -> Orphans(s)] BY <1>11
<1>13. ASSUME NEW a \in Orphans(t), NEW b \in Orphans(t), f[a] = f[b] PROVE a = b
  <2>1. /\ a = <<a[1], a[2]>> /\ a[1] \in R /\ (a[1] \in top .. bottom => a[1] + 1 <= bottom)
        /\ b = <<b[1], b[2]>> /\ b[1] \in R /\ (b[1] \in top .. bottom => b[1] + 1 <= bottom)
    BY <1>11
  <2>2. Old(a) = Old(b) BY <1>13
  <2>3. /\ Old(a)[2] = a[2] /\ Old(b)[2] = b[2]
        /\ Old(a)[1] = IF a[1] \in top .. bottom THEN a[1] + 1 ELSE a[1]
        /\ Old(b)[1] = IF b[1] \in top .. bottom THEN b[1] + 1 ELSE b[1]
    OBVIOUS
  <2> HIDE DEF Old, f
  <2>4. a[1] = b[1]
    <3>1. PICK x \in R, y \in R : x = a[1] /\ y = b[1] BY <2>1
    <3>2. (IF x \in top .. bottom THEN x + 1 ELSE x) = (IF y \in top .. bottom THEN y + 1 ELSE y)
      BY <2>2, <2>3, <3>1
    <3>3. (x \in top .. bottom => x + 1 <= bottom) /\ (y \in top .. bottom => y + 1 <= bottom)
      BY <2>1, <3>1
    <3>4. x = y BY <1>3, <3>2, <3>3
    <3> QED BY <3>1, <3>4
  <2>5. a[2] = b[2] BY <2>2, <2>3
  <2> QED BY <2>1, <2>4, <2>5
<1>14. f \in Injection(Orphans(t), Orphans(s))
  <2> HIDE DEF f
  <2> QED BY <1>12, <1>13 DEF Injection, IsInjective
<1>15. Cardinality(Orphans(t)) <= Cardinality(Orphans(s))
  <2> HIDE DEF f
  <2> QED BY <1>10, <1>14, FS_Injection
<1> QED BY <1>2, <1>8, <1>15 DEF t

LEMMA SameOrphans ==
    ASSUME NEW s, NEW t, t.rows = s.rows, t.cols = s.cols, t.lines = s.lines
    PROVE  Orphans(t) = Orphans(s)
BY DEF Orphans

\* What a step of writing makes t of s: a screen with no more orphans.
Tidier(s, t) ==
    /\ Grid(s) /\ Grid(t) /\ t.cols = s.cols
    /\ Cardinality(Orphans(t)) <= Cardinality(Orphans(s))

LEMMA TidierChain ==
    ASSUME NEW s, NEW t, NEW u, Tidier(s, t), Tidier(t, u)
    PROVE  Tidier(s, u)
<1>1. /\ Cardinality(Orphans(s)) \in Nat /\ Cardinality(Orphans(t)) \in Nat
      /\ Cardinality(Orphans(u)) \in Nat
  BY OrphansAre DEF Tidier
<1> QED BY <1>1 DEF Tidier

LEMMA SameTidy ==
    ASSUME NEW s, NEW t, Grid(s), DOMAIN t = FieldNames, t.rows = s.rows, t.cols = s.cols, t.lines = s.lines
    PROVE  Tidier(s, t)
<1>1. Grid(t) BY DEF Grid
<1>2. Orphans(t) = Orphans(s) BY SameOrphans
<1>3. Cardinality(Orphans(s)) \in Nat BY OrphansAre
<1> QED BY <1>1, <1>2, <1>3 DEF Tidier

LEMMA FeedTidy ==
    ASSUME NEW s, Grid(s), s.top \in Nat, s.bottom \in Nat, s.top <= s.bottom, s.bottom < s.rows
    PROVE  Tidier(s, LineFeed(s)) /\ LineFeed(s).col = s.col
<1> DEFINE t == Settled(s)
<1>1. /\ DOMAIN s = FieldNames /\ DOMAIN t = FieldNames /\ t.rows = s.rows /\ t.cols = s.cols
      /\ t.lines = s.lines /\ t.col = s.col
  BY DEF Grid, Settled, FieldNames
<1>2. CASE s.row = s.bottom
  <2>1. Tidier(s, t) /\ Grid(t) BY <1>1, SameTidy DEF Tidier
  <2> HIDE DEF t
  <2> DEFINE u == ScrollRegionUp(t, s.top, s.bottom, 1)
  <2>2. Grid(u) /\ u.cols = t.cols /\ u.col = t.col /\ Cardinality(Orphans(u)) <= Cardinality(Orphans(t))
    BY <1>1, <2>1, ScrollOrphans
  <2>3. u = LineFeed(s) BY <1>2 DEF LineFeed, t
  <2> HIDE DEF u
  <2>4. Tidier(t, u) BY <2>1, <2>2 DEF Tidier
  <2>5. Tidier(s, u) BY <2>1, <2>4, TidierChain
  <2> QED BY <1>1, <2>2, <2>3, <2>5
<1>3. CASE s.row # s.bottom
  <2> DEFINE u == At(s, LesserOf(s.row + 1, s.rows - 1), s.col)
  <2>1. u = LineFeed(s) BY <1>3 DEF LineFeed
  <2>2. /\ DOMAIN u = FieldNames /\ u.rows = s.rows /\ u.cols = s.cols /\ u.lines = s.lines
        /\ u.col = s.col
    BY <1>1 DEF At, Settled, FieldNames
  <2> HIDE DEF u
  <2>3. Tidier(s, u) BY <2>2, SameTidy
  <2> QED BY <2>1, <2>2, <2>3
<1> QED BY <1>2, <1>3

LEMMA NextLineTidy ==
    ASSUME NEW s, Sound(s)
    PROVE  /\ Tidier(s, LineFeed([s EXCEPT !.col = 0]))
           /\ LineFeed([s EXCEPT !.col = 0]).col = 0
<1> DEFINE t == [s EXCEPT !.col = 0]
<1>1. Grid(s) /\ DOMAIN s = FieldNames BY DEF Sound, Typed, Shaped, Grid
<1>2. /\ DOMAIN t = FieldNames /\ t.rows = s.rows /\ t.cols = s.cols /\ t.lines = s.lines /\ t.col = 0
      /\ t.top = s.top /\ t.bottom = s.bottom
  BY <1>1 DEF FieldNames
<1>3. s.top \in Nat /\ s.bottom \in Nat /\ s.top <= s.bottom /\ s.bottom < s.rows
  BY DEF Sound, Typed, Shaped
<1> HIDE DEF t
<1>4. Tidier(s, t) /\ Grid(t) BY <1>1, <1>2, SameTidy DEF Tidier
<1>5. Tidier(t, LineFeed(t)) /\ LineFeed(t).col = 0 BY <1>2, <1>3, <1>4, FeedTidy
<1>6. Tidier(s, LineFeed(t)) BY <1>4, <1>5, TidierChain
<1> QED BY <1>5, <1>6 DEF t

\* What is written to the line of the cursor.
LEMMA OnLineTidy ==
    ASSUME NEW s, Sound(s), NEW new \in LineOf(s),
           \A c \in 0 .. s.cols - 1 : Orphan(new, c) => Orphan(s.lines[s.row], c)
    PROVE  Tidier(s, OnLine(s, new)) /\ OnLine(s, new).col = s.col
<1> DEFINE t == OnLine(s, new)
<1>1. /\ DOMAIN t = FieldNames /\ t.rows = s.rows /\ t.cols = s.cols /\ t.col = s.col
      /\ t.lines = [s.lines EXCEPT ![s.row] = new]
  BY CursorLineType DEF OnLine, FieldNames
<1>2. Grid(s) BY DEF Sound, Typed, Shaped, Grid
<1>3. Sound(t) BY OnLineSound
<1> HIDE DEF t
<1>4. Grid(t) BY <1>3 DEF Sound, Typed, Shaped, Grid
<1>5. Cardinality(Orphans(t)) <= Cardinality(Orphans(s)) BY <1>1, <1>4, OnLineOrphans
<1> QED BY <1>1, <1>2, <1>4, <1>5 DEF Tidier, t

LEMMA StraddledTidy ==
    ASSUME NEW s, Sound(s)
    PROVE  Tidier(s, Straddled(s)) /\ Straddled(s).col = 0
<1> DEFINE line == [ClearPair(s.lines[s.row], s.col) EXCEPT ![s.col] = Blank]
           t == OnLine(s, line)
<1>1. ClearPair(s.lines[s.row], s.col) \in LineOf(s) BY CursorLineType, ClearPairType
<1>2. line \in LineOf(s) BY <1>1 DEF LineOf, Cells, Blank
<1>3. \A c \in 0 .. s.cols - 1 : Orphan(line, c) => Orphan(s.lines[s.row], c) BY BlankedOrphans
<1>4. Straddled(s) = LineFeed([t EXCEPT !.col = 0]) BY DEF Straddled
<1> HIDE DEF line
<1>5. Tidier(s, t) /\ Sound(t) BY <1>2, <1>3, OnLineTidy, OnLineSound
<1> HIDE DEF t
<1>6. Tidier(t, LineFeed([t EXCEPT !.col = 0])) /\ LineFeed([t EXCEPT !.col = 0]).col = 0
  BY <1>5, NextLineTidy
<1> QED BY <1>4, <1>5, <1>6, TidierChain

LEMMA AdvancedTidy ==
    ASSUME NEW s, Grid(s), NEW width
    PROVE  Tidier(s, Advanced(s, width))
<1> DEFINE t == Advanced(s, width)
<1>1. DOMAIN t = FieldNames /\ t.rows = s.rows /\ t.cols = s.cols /\ t.lines = s.lines
  BY DEF Advanced, Grid, FieldNames
<1> HIDE DEF t
<1>2. Tidier(s, t) BY <1>1, SameTidy
<1> QED BY <1>2 DEF t

LEMMA WriteTidy ==
    ASSUME ScreenBounds, NEW s, Sound(s), s.cols > 1, NEW width \in Widths
    PROVE  Tidier(s, WriteChar(s, width))
<1> DEFINE wrapped == Wrapped(s)
           start == IF width = 2 /\ wrapped.col = s.cols - 1 THEN Straddled(wrapped) ELSE wrapped
           placed == Placed(start, width)
           written == OnLine(start, placed)
<1>0. Grid(s) /\ DOMAIN s = FieldNames /\ s.cols \in Nat BY DEF Sound, Typed, Shaped, Grid
<1>1. Sound(wrapped) /\ Tidier(s, wrapped)
  <2>1. Tidier(s, s) BY <1>0, SameTidy
  <2> QED BY <2>1, NextLineSound, NextLineTidy DEF Wrapped
<1>2. WriteChar(s, width) = Advanced(written, width)
  BY <1>1 DEF WriteChar, Tidier
<1> HIDE DEF wrapped
<1>3. Sound(start) /\ Tidier(wrapped, start) /\ (width = 2 => start.col # s.cols - 1)
  <2>1. CASE width = 2 /\ wrapped.col = s.cols - 1
    <3>1. 0 # s.cols - 1 BY <1>0
    <3> QED BY <1>1, <2>1, <3>1, StraddledSound, StraddledTidy
  <2>2. CASE ~(width = 2 /\ wrapped.col = s.cols - 1)
    <3>1. Grid(wrapped) /\ DOMAIN wrapped = FieldNames BY <1>1 DEF Tidier, Grid
    <3>2. Tidier(wrapped, wrapped) BY <3>1, SameTidy
    <3> QED BY <1>1, <2>2, <3>2
  <2> QED BY <2>1, <2>2
<1>4. start.cols = s.cols BY <1>1, <1>3 DEF Tidier
<1> HIDE DEF start
<1>5. placed \in LineOf(start) BY <1>3, PlacedType
<1>6. \A c \in 0 .. start.cols - 1 : Orphan(placed, c) => Orphan(start.lines[start.row], c)
  BY <1>3, <1>4, PlacedOrphans
<1> HIDE DEF placed
<1>7. Tidier(start, written) BY <1>3, <1>5, <1>6, OnLineTidy
<1> HIDE DEF written
<1>8. Tidier(written, Advanced(written, width)) BY <1>7, AdvancedTidy DEF Tidier
<1>9. Tidier(s, start) BY <1>1, <1>3, TidierChain
<1>10. Tidier(s, written) BY <1>7, <1>9, TidierChain
<1>11. Tidier(s, Advanced(written, width)) BY <1>8, <1>10, TidierChain
<1> QED BY <1>2, <1>11

\* Writing a glyph of either width, at any place and with any wrap pending,
\* never leaves more halves of double-width glyphs alone than there were: the
\* other half of what it lands on is blanked, and so is the cell in the last
\* column that a glyph would straddle.
THEOREM PairsKept == ScreenBounds /\ Spec => []WritesKeepPairs
<1>1. Inv => WritesKeepPairs
  <2> SUFFICES ASSUME Inv, screen.cols > 1, NEW width \in Widths
               PROVE  Cardinality(Orphans(WriteChar(screen, width))) <= Cardinality(Orphans(screen))
    BY DEF WritesKeepPairs
  <2>1. Tidier(screen, WriteChar(screen, width)) BY WriteTidy DEF Inv
  <2> QED BY <2>1 DEF Tidier
<1> QED BY <1>1, InitInv, StepInv, PTL DEF Spec

-----------------------------------------------------------------------------
(* What scrolls off the screen can be read back. *)

\* The lines `shown`, scrolled by the first of them, `evicted`, and filled up
\* with blank ones.
Rolls(shown, blank, evicted, after) ==
    /\ Len(after) = Len(shown) /\ Len(evicted) = Len(blank) /\ Len(blank) <= Len(shown)
    /\ \A i \in 1 .. Len(evicted) : evicted[i] = shown[i]
    /\ \A i \in 1 .. Len(after) :
            after[i] = IF i + Len(blank) <= Len(shown) THEN shown[i + Len(blank)]
                       ELSE blank[i + Len(blank) - Len(shown)]

\* It is another look at the same text.
LEMMA Rolled ==
    ASSUME NEW S, NEW shown \in Seq(S), NEW blank \in Seq(S), NEW evicted \in Seq(S), NEW after \in Seq(S),
           Rolls(shown, blank, evicted, after)
    PROVE  shown \o blank = evicted \o after
<1> DEFINE old == shown \o blank
           new == evicted \o after
<1>1. /\ old \in Seq(S) /\ Len(old) = Len(shown) + Len(blank)
      /\ \A i \in 1 .. Len(shown) + Len(blank) :
            old[i] = IF i <= Len(shown) THEN shown[i] ELSE blank[i - Len(shown)]
  BY ConcatProperties
<1>2. /\ new \in Seq(S) /\ Len(new) = Len(evicted) + Len(after)
      /\ \A i \in 1 .. Len(evicted) + Len(after) :
            new[i] = IF i <= Len(evicted) THEN evicted[i] ELSE after[i - Len(evicted)]
  BY ConcatProperties
<1> HIDE DEF old, new
<1>3. PICK n \in Nat, b \in Nat : n = Len(shown) /\ b = Len(blank) OBVIOUS
<1>4. /\ Len(after) = n /\ Len(evicted) = b /\ b <= n
      /\ \A i \in 1 .. b : evicted[i] = shown[i]
      /\ \A i \in 1 .. n : after[i] = IF i + b <= n THEN shown[i + b] ELSE blank[i + b - n]
  BY <1>3 DEF Rolls
<1>5. ASSUME NEW i \in 1 .. n + b PROVE old[i] = new[i]
  <2>1. old[i] = IF i <= n THEN shown[i] ELSE blank[i - n] BY <1>1, <1>3
  <2>2. new[i] = IF i <= b THEN evicted[i] ELSE after[i - b] BY <1>2, <1>3, <1>4
  <2>3. CASE i <= b BY <1>3, <1>4, <2>1, <2>2, <2>3
  <2>4. CASE ~(i <= b)
    <3>1. i - b \in 1 .. n BY <1>3, <2>4
    <3>2. after[i - b] = IF (i - b) + b <= n THEN shown[(i - b) + b] ELSE blank[(i - b) + b - n]
      BY <1>4, <3>1
    <3>3. (i - b) + b = i BY <1>3
    <3> QED BY <2>1, <2>2, <2>4, <3>2, <3>3
  <2> QED BY <2>3, <2>4
<1>6. Len(old) = n + b /\ Len(new) = n + b BY <1>1, <1>2, <1>3, <1>4
<1>7. old = new BY <1>1, <1>2, <1>5, <1>6, SeqEqual
<1> QED BY <1>7 DEF old, new

\* The last lines of a text are the last ones of its beginning and its end.
LEMMA LastOf ==
    ASSUME NEW S, NEW text \in Seq(S), NEW shown \in Seq(S), NEW kept \in 0 .. Len(text)
    PROVE  /\ Len(SubSeq(text, Len(text) - kept + 1, Len(text))) = kept
           /\ SubSeq(text, Len(text) - kept + 1, Len(text)) \o shown =
                SubSeq(text \o shown, Len(text) - kept + 1, Len(text) + Len(shown))
<1> DEFINE all == text \o shown
           from == Len(text) - kept + 1
           end == SubSeq(text, from, Len(text))
           new == end \o shown
           old == SubSeq(all, from, Len(text) + Len(shown))
<1>1. /\ Len(text) \in Nat /\ Len(shown) \in Nat /\ kept \in Nat /\ from \in Int
      /\ from \in 1 .. Len(text) + 1
  OBVIOUS
<1>2. /\ all \in Seq(S) /\ Len(all) = Len(text) + Len(shown)
      /\ \A i \in 1 .. Len(text) + Len(shown) :
            all[i] = IF i <= Len(text) THEN text[i] ELSE shown[i - Len(text)]
  BY ConcatProperties
<1>3. /\ end \in Seq(S) /\ Len(end) = kept
      /\ \A i \in 1 .. kept : end[i] = text[from + i - 1]
  <2>1. \A i \in from .. Len(text) : text[i] \in S BY <1>1
  <2>2. /\ end \in Seq(S)
        /\ Len(end) = IF from <= Len(text) THEN Len(text) - from + 1 ELSE 0
        /\ \A i \in 1 .. Len(text) - from + 1 : end[i] = text[from + i - 1]
    BY <1>1, <2>1, SubSeqProperties
  <2> HIDE DEF end
  <2> QED BY <1>1, <2>2
<1> HIDE DEF all, end
<1>4. /\ old \in Seq(S) /\ Len(old) = kept + Len(shown)
      /\ \A i \in 1 .. kept + Len(shown) : old[i] = all[from + i - 1]
  <2> DEFINE last == Len(text) + Len(shown)
  <2>1. \A i \in from .. last : all[i] \in S BY <1>1, <1>2
  <2>2. last \in Int BY <1>1
  <2>3. /\ SubSeq(all, from, last) \in Seq(S)
        /\ Len(SubSeq(all, from, last)) = IF from <= last THEN last - from + 1 ELSE 0
        /\ \A i \in 1 .. last - from + 1 : SubSeq(all, from, last)[i] = all[from + i - 1]
    <3> HIDE DEF last, from
    <3> QED BY <1>1, <2>1, <2>2, SubSeqProperties
  <2>4. last - from + 1 = kept + Len(shown) /\ (from <= last \/ kept + Len(shown) = 0) BY <1>1
  <2> HIDE DEF from
  <2> QED BY <2>3, <2>4
<1>5. /\ new \in Seq(S) /\ Len(new) = kept + Len(shown)
      /\ \A i \in 1 .. kept + Len(shown) : new[i] = IF i <= kept THEN end[i] ELSE shown[i - kept]
  BY <1>3, ConcatProperties
<1> HIDE DEF old, new
<1>6. ASSUME NEW i \in 1 .. kept + Len(shown) PROVE new[i] = old[i]
  <2>1. PICK k : k = from + i - 1 OBVIOUS
  <2>2. k \in 1 .. Len(text) + Len(shown) BY <1>1, <2>1
  <2>3. old[i] = all[k] BY <1>4, <2>1
  <2>4. old[i] = IF k <= Len(text) THEN text[k] ELSE shown[k - Len(text)] BY <1>2, <2>2, <2>3
  <2>5. CASE i <= kept
    <3>1. i \in 1 .. kept /\ k <= Len(text) BY <1>1, <2>1, <2>5
    <3> QED BY <1>3, <1>5, <2>1, <2>4, <3>1
  <2>6. CASE ~(i <= kept)
    <3>1. ~(k <= Len(text)) /\ k - Len(text) = i - kept BY <1>1, <2>1, <2>6
    <3> QED BY <1>5, <2>4, <2>6, <3>1
  <2> QED BY <2>5, <2>6
<1>7. new = old BY <1>1, <1>4, <1>5, <1>6, SeqEqual
<1> QED BY <1>3, <1>7 DEF new, old, all, end

LEMMA ScrolledHistory ==
    ASSUME ScreenBounds, NEW s, Sound(s), Whole(s), NEW n \in Nat \ {0}
    PROVE  LET after == ScrollUp(s, n)
               blanks == LesserOf(n, s.rows)
               text == Text(s) \o [i \in 1 .. blanks |-> BlankLine(s.cols)]
           IN  /\ Len(after.scrollback) = LesserOf(ScrollbackMax, Len(s.scrollback) + blanks)
               /\ Text(after) = SubSeq(text, Len(text) - Len(Text(after)) + 1, Len(text))
<1> DEFINE after == ScrollUp(s, n)
           b == LesserOf(n, s.rows)
           empty == [i \in 1 .. b |-> BlankLine(s.cols)]
           evicted == [i \in 1 .. b |-> s.lines[i - 1]]
           shown == Visible(s)
           next == Visible(after)
           sb == s.scrollback
           kept == LesserOf(ScrollbackMax, Len(sb) + b)
           gone == sb \o evicted
           text == Text(s) \o empty
<1>1. /\ DOMAIN s = FieldNames /\ s.rows \in Nat \ {0} /\ s.cols \in Nat \ {0} /\ ~s.alt
      /\ s.top = 0 /\ s.bottom = s.rows - 1 /\ sb \in Seq(Lines) /\ Len(sb) <= ScrollbackMax
      /\ s.lines \in Grids(s.cols, s.rows) /\ ScrollbackMax \in Nat
  BY DEF Sound, Typed, Shaped, Whole, ScreenBounds
<1>2. b \in 1 .. s.rows /\ GreaterOf(1, n) = n /\ LesserOf(n, s.bottom - s.top + 1) = b
  BY <1>1 DEF LesserOf, GreaterOf
<1>3. \A r \in 0 .. s.rows - 1 : s.lines[r] \in Lines BY <1>1 DEF Grids, Lines
<1>4. BlankLine(s.cols) \in Lines BY <1>1, BlankTypes DEF Lines
<1>5. /\ after.lines = ShiftedUp(s, 0, s.rows - 1, b) /\ after.rows = s.rows
      /\ after.scrollback = IF ScrollbackMax > 0 THEN Newest(gone) ELSE sb
  <2>1. \A i \in 1 .. b : s.top + i - 1 = i - 1 BY <1>1, <1>2
  <2>2. [i \in 1 .. b |-> s.lines[s.top + i - 1]] = evicted BY <2>1
  <2>3. ToScrollback(s, s.top, s.bottom) <=> ScrollbackMax > 0 BY <1>1 DEF ToScrollback
  <2>4. after = ScrollRegionUp(s, s.top, s.bottom, n) BY <1>2 DEF ScrollUp
  <2>5. after = [s EXCEPT !.lines = ShiftedUp(s, s.top, s.bottom, b),
                          !.scrollback = IF ScrollbackMax > 0 THEN Newest(gone) ELSE sb]
    BY <1>2, <2>2, <2>3, <2>4 DEF ScrollRegionUp
  <2> HIDE DEF after, gone, b
  <2> QED BY <1>1, <2>5 DEF FieldNames
<1>6. empty \in Seq(Lines) /\ Len(empty) = b /\ \A i \in 1 .. b : empty[i] = BlankLine(s.cols)
  <2> HIDE DEF b
  <2> QED BY <1>2, <1>4
<1>7. /\ evicted \in Seq(Lines) /\ Len(evicted) = b
      /\ \A i \in 1 .. b : evicted[i] = s.lines[i - 1]
  <2>1. \A i \in 1 .. b : s.lines[i - 1] \in Lines BY <1>1, <1>2, <1>3
  <2> HIDE DEF b
  <2> QED BY <1>2, <2>1
<1>8. /\ shown \in Seq(Lines) /\ Len(shown) = s.rows
      /\ \A i \in 1 .. s.rows : shown[i] = s.lines[i - 1]
  <2>1. \A i \in 1 .. s.rows : s.lines[i - 1] \in Lines BY <1>1, <1>3
  <2> QED BY <1>1, <2>1 DEF Visible
<1> HIDE DEF after, empty, evicted, shown
<1>9. ASSUME NEW i \in 1 .. s.rows
      PROVE  after.lines[i - 1] = IF i + b <= s.rows THEN shown[i + b] ELSE BlankLine(s.cols)
  <2>1. i - 1 \in 0 .. s.rows - 1 BY <1>1
  <2>2. after.lines[i - 1] = IF i - 1 + b <= s.rows - 1 THEN s.lines[i - 1 + b] ELSE BlankLine(s.cols)
    <3> HIDE DEF b
    <3> QED BY <1>5, <2>1 DEF ShiftedUp
  <2>3. CASE i + b <= s.rows
    <3>1. i + b \in 1 .. s.rows /\ i - 1 + b <= s.rows - 1 /\ i - 1 + b = (i + b) - 1 BY <1>1, <1>2, <2>3
    <3> QED BY <1>8, <2>2, <2>3, <3>1
  <2>4. CASE ~(i + b <= s.rows)
    <3>1. ~(i - 1 + b <= s.rows - 1) BY <1>1, <1>2, <2>4
    <3> QED BY <2>2, <2>4, <3>1
  <2> QED BY <2>3, <2>4
<1>10. /\ next \in Seq(Lines) /\ Len(next) = s.rows
       /\ \A i \in 1 .. s.rows : next[i] = IF i + b <= s.rows THEN shown[i + b] ELSE BlankLine(s.cols)
  <2>1. next = [i \in 1 .. s.rows |-> after.lines[i - 1]] BY <1>5 DEF Visible
  <2>2. \A i \in 1 .. s.rows : after.lines[i - 1] \in Lines
    <3> TAKE i \in 1 .. s.rows
    <3>1. i + b <= s.rows => i + b \in 1 .. s.rows BY <1>1, <1>2
    <3>2. i + b <= s.rows => shown[i + b] \in Lines BY <1>8, <3>1
    <3> QED BY <1>4, <1>9, <3>2
  <2> HIDE DEF next, b
  <2>3. next \in Seq(Lines) /\ Len(next) = s.rows BY <1>1, <2>1, <2>2
  <2>4. \A i \in 1 .. s.rows : next[i] = after.lines[i - 1] BY <2>1
  <2> QED BY <1>9, <2>3, <2>4
<1> HIDE DEF next, b, sb
<1>11. shown \o empty = evicted \o next
  <2>1. \A i \in 1 .. Len(evicted) : evicted[i] = shown[i]
    <3>1. \A i \in 1 .. b : i \in 1 .. s.rows BY <1>1, <1>2
    <3> QED BY <1>7, <1>8, <3>1
  <2>2. \A i \in 1 .. Len(next) :
            next[i] = IF i + Len(empty) <= Len(shown) THEN shown[i + Len(empty)]
                      ELSE empty[i + Len(empty) - Len(shown)]
    <3> TAKE i \in 1 .. Len(next)
    <3>1. ~(i + b <= s.rows) => i + b - s.rows \in 1 .. b BY <1>1, <1>2, <1>10
    <3> QED BY <1>6, <1>8, <1>10, <3>1
  <2>3. Len(empty) <= Len(shown) BY <1>2, <1>6, <1>8
  <2>4. Rolls(shown, empty, evicted, next) BY <1>6, <1>7, <1>8, <1>10, <2>1, <2>2, <2>3 DEF Rolls
  <2> QED BY <1>6, <1>7, <1>8, <1>10, <2>4, Rolled
<1>12. text = gone \o next
  <2>1. Text(s) = sb \o shown BY DEF Text, shown, sb
  <2>2. sb \in Seq(Lines) /\ shown \in Seq(Lines) /\ empty \in Seq(Lines) BY <1>1, <1>6, <1>8
  <2>3. evicted \in Seq(Lines) /\ next \in Seq(Lines) BY <1>7, <1>10
  <2>4. (sb \o shown) \o empty = sb \o (shown \o empty) BY <2>2, ConcatAssociative
  <2>5. (sb \o evicted) \o next = sb \o (evicted \o next) BY <2>2, <2>3, ConcatAssociative
  <2> QED BY <1>11, <2>1, <2>4, <2>5
<1>13. gone \in Seq(Lines) /\ Len(gone) = Len(sb) + b /\ Len(sb) \in Nat
  <2>1. sb \in Seq(Lines) /\ evicted \in Seq(Lines) /\ Len(evicted) = b BY <1>1, <1>7
  <2>2. gone \in Seq(Lines) /\ Len(gone) = Len(sb) + Len(evicted) BY <2>1, ConcatProperties
  <2> QED BY <2>1, <2>2
<1> HIDE DEF gone
<1>14. kept \in 0 .. Len(gone) BY <1>1, <1>2, <1>13 DEF LesserOf
<1>15. after.scrollback = SubSeq(gone, Len(gone) - kept + 1, Len(gone))
  <2>1. CASE ScrollbackMax > 0
    <3>1. Len(gone) \in Nat /\ ScrollbackMax \in Nat /\ kept = LesserOf(ScrollbackMax, Len(gone))
      BY <1>1, <1>13
    <3>2. GreaterOf(1, Len(gone) - ScrollbackMax + 1) = Len(gone) - kept + 1
      BY <2>1, <3>1 DEF GreaterOf, LesserOf
    <3> QED BY <1>5, <2>1, <3>2 DEF Newest
  <2>2. CASE ~(ScrollbackMax > 0)
    <3>1. kept = 0 /\ Len(sb) = 0 BY <1>1, <1>2, <2>2 DEF LesserOf
    <3>2. sb = << >> BY <1>1, <3>1
    <3>3. SubSeq(gone, Len(gone) + 1, Len(gone)) = << >> BY <1>13
    <3>4. Len(gone) - kept + 1 = Len(gone) + 1 BY <1>13, <3>1
    <3> QED BY <1>5, <2>2, <3>2, <3>3, <3>4
  <2> QED BY <2>1, <2>2
<1> HIDE DEF kept
<1>16. /\ Len(after.scrollback) = kept
       /\ after.scrollback \o next =
            SubSeq(gone \o next, Len(gone) - kept + 1, Len(gone) + Len(next))
  <2>1. gone \in Seq(Lines) /\ next \in Seq(Lines) /\ kept \in 0 .. Len(gone) BY <1>10, <1>13, <1>14
  <2> HIDE DEF text
  <2> QED BY <1>15, <2>1, LastOf
<1>17. Text(after) = after.scrollback \o next BY DEF Text, next
<1>18. Len(text) = Len(gone) + Len(next) BY <1>10, <1>12, <1>13, ConcatProperties
<1>19. Len(Text(after)) = kept + Len(next)
  <2>1. after.scrollback \in Seq(Lines)
    <3>1. \A i \in Len(gone) - kept + 1 .. Len(gone) : gone[i] \in Lines BY <1>13, <1>14
    <3>2. Len(gone) - kept + 1 \in Int /\ Len(gone) \in Int BY <1>13, <1>14
    <3> QED BY <1>15, <3>1, <3>2, SubSeqProperties
  <2> QED BY <1>10, <1>16, <1>17, <2>1, ConcatProperties
<1>20. Text(after) = SubSeq(text, Len(text) - Len(Text(after)) + 1, Len(text))
  <2> HIDE DEF text
  <2>1. Text(after) = SubSeq(text, Len(gone) - kept + 1, Len(gone) + Len(next)) BY <1>12, <1>16, <1>17
  <2>2. Len(text) - Len(Text(after)) + 1 = Len(gone) - kept + 1
    <3>1. Len(gone) \in Nat /\ Len(next) \in Nat /\ kept \in Nat BY <1>1, <1>10, <1>13, <1>14
    <3> QED BY <1>18, <1>19, <3>1
  <2> QED BY <1>18, <2>1, <2>2
<1> QED BY <1>16, <1>20 DEF after, b, empty, kept, text, sb

\* Of a screen of any size with a scrollback of any length: what scrolls stays
\* in the margins, and the lines that leave a whole primary screen are those
\* that the scrollback gains, in order and next to what is still shown, up to
\* its limit.
THEOREM HistoryHolds == MCSpec => []ScrollSound
<1> DEFINE SInv == op = "screen" => Inv
<1>1. MCInit => SInv BY BoundsAssumption, InitInv DEF MCInit
<1>2. SInv /\ [MCNext]_mcVars => SInv'
  <2> SUFFICES ASSUME SInv, [MCNext]_mcVars, op' = "screen" PROVE Inv' OBVIOUS
  <2>1. CASE op = "screen" /\ Next BY <2>1, StepInv
  <2>2. CASE UNCHANGED mcVars
    <3>1. op' = op /\ screen' = screen BY <2>2 DEF mcVars
    <3> QED BY <3>1, StepInv
  <2>3. CASE MCNext /\ op # "screen" BY <2>3 DEF MCNext
  <2>4. MCNext /\ op = "screen" => Next BY DEF MCNext
  <2> QED BY <2>1, <2>2, <2>3, <2>4
<1>3. SInv => ScrollSound
  <2> SUFFICES ASSUME Inv PROVE ScrollStaysInMargins /\ HistoryKept BY DEF ScrollSound
  <2>1. ScrollStaysInMargins BY InMarginsAll
  <2>2. HistoryKept
    <3> SUFFICES ASSUME Whole(screen), NEW m \in Counts
                 PROVE  LET n == GreaterOf(1, m)
                            after == ScrollUp(screen, n)
                            blanks == LesserOf(n, screen.rows)
                            text == Text(screen) \o [i \in 1 .. blanks |-> BlankLine(screen.cols)]
                        IN  /\ Len(after.scrollback) =
                                    LesserOf(ScrollbackMax, Len(screen.scrollback) + blanks)
                            /\ Text(after) = SubSeq(text, Len(text) - Len(Text(after)) + 1, Len(text))
      BY DEF HistoryKept
    <3>1. GreaterOf(1, m) \in Nat \ {0} BY DEF GreaterOf, Inv, ScreenBounds
    <3> QED BY <3>1, ScrolledHistory DEF Inv
  <2> QED BY <2>1, <2>2
<1> HIDE DEF SInv
<1> QED BY <1>1, <1>2, <1>3, PTL DEF MCSpec

-----------------------------------------------------------------------------
(* The records of a telnet host. *)

TelnetVerbs == {Records!DO, Records!DONT, Records!WILL, Records!WONT}
Unanswered(asks) == answers = << >> /\ expected = asks

\* What is still to come of the item that the host sends, with the state that
\* the connection is in: of a byte of the record,
ByteComes ==
    \E b \in Int :
        /\ building = Append(record, b) /\ Unanswered(<< >>)
        /\ \/ tnState = "Data" /\ b # 255 /\ feed = <<b>>
           \/ tnState = "Data" /\ b = 255 /\ feed = <<255, 255>>
           \/ tnState = "Iac" /\ b = 255 /\ feed = <<255>>
\* of its end,
EndComes ==
    /\ building = << >> /\ Unanswered(<<[show |-> record]>>)
    /\ \/ tnState = "Data" /\ feed = <<255, 239>>
       \/ tnState = "Iac" /\ feed = <<239>>
\* of a negotiation,
VerbComes ==
    \E asked \in TelnetVerbs : \E option \in Int :
        /\ record = building
        /\ Unanswered(<<[reply |-> <<Records!Reply(asked, option), option>>]>>)
        /\ \/ tnState = "Data" /\ feed = <<255, asked, option>>
           \/ tnState = "Iac" /\ feed = <<asked, option>>
           \/ tnState = "Verb" /\ verb = asked /\ feed = <<option>>
\* and of a subnegotiation.
AtSub(option) ==
    /\ tnState = "Data"
    /\ \/ feed = <<255, 250, option, 1, 255, 240>>
       \/ feed = <<255, 250, option, 255, 255, 255, 240>>
InSub(option) ==
    /\ tnState = "Iac"
    /\ feed = <<250, option, 1, 255, 240>> \/ feed = <<250, option, 255, 255, 255, 240>>
AtOption(option) ==
    /\ tnState = "SubOption" /\ subBuffer = << >>
    /\ feed = <<option, 1, 255, 240>> \/ feed = <<option, 255, 255, 255, 240>>
AtContent(option) ==
    /\ tnState = "SubData" /\ subBuffer # << >> /\ Head(subBuffer) = option
    /\ feed = <<1, 255, 240>> \/ feed = <<255, 255, 255, 240>> \/ feed = <<255, 240>>
AfterIac(option) ==
    /\ tnState = "SubIac" /\ subBuffer # << >> /\ Head(subBuffer) = option
    /\ feed = <<255, 255, 240>> \/ feed = <<240>>
TypeAnswer(option) == IF option = 24 THEN <<[terminalType |-> TRUE]>> ELSE << >>
SubComes ==
    \E option \in {24, 1} :
        /\ record = building /\ Unanswered(TypeAnswer(option))
        /\ \/ AtSub(option) \/ InSub(option) \/ AtOption(option) \/ AtContent(option)
           \/ AfterIac(option)
ItemDone == feed = << >> /\ tnState = "Data" /\ record = building /\ answers = expected

RecordTypes == record \in Seq(Int) /\ building \in Seq(Int) /\ subBuffer \in Seq(Int)
RecordInv == RecordTypes /\ (ItemDone \/ ByteComes \/ EndComes \/ VerbComes \/ SubComes)

LEMMA TelnetNumbers ==
    /\ Records!IAC = 255 /\ Records!EOR = 239 /\ Records!SB = 250 /\ Records!SE = 240 /\ Records!TTYPE = 24
    /\ TelnetVerbs = {253, 254, 251, 252} /\ Records!BINARY = 0
    /\ Records!DO = 253 /\ Records!DONT = 254 /\ Records!WILL = 251 /\ Records!WONT = 252
BY DEF TelnetVerbs, Records!IAC, Records!EOR, Records!SB, Records!SE, Records!TTYPE, Records!BINARY,
       Records!DO, Records!DONT, Records!WILL, Records!WONT

LEMMA Added == \A x : << >> \o <<x>> = <<x>> /\ << >> \o << >> = << >>
<1> TAKE x
<1>1. <<x>> \in Seq({x}) /\ << >> \in Seq({x}) OBVIOUS
<1> QED BY <1>1, ConcatEmptySeq

\* A byte comes, and the handler of the state takes it.
LEMMA ByteTaken ==
    ASSUME Records!ProcessIncoming
    PROVE  /\ feed' = Tail(feed) /\ building' = building /\ expected' = expected
           /\ tnState = "Data" => Records!Data(Head(feed))
           /\ tnState = "Iac" => Records!Iac(Head(feed))
           /\ tnState = "Verb" => Records!Verb(Head(feed))
           /\ tnState = "SubOption" => Records!SubOption(Head(feed))
           /\ tnState = "SubData" => Records!SubData(Head(feed))
           /\ tnState = "SubIac" => Records!SubIac(Head(feed))
BY DEF Records!ProcessIncoming, Records!Data, Records!Iac, Records!Verb, Records!SubOption,
       Records!SubData, Records!SubIac

LEMMA ByteGoes == ASSUME RecordTypes, ByteComes, Records!ProcessIncoming PROVE RecordInv'
<1>1. PICK b \in Int :
        /\ building = Append(record, b) /\ Unanswered(<< >>)
        /\ \/ tnState = "Data" /\ b # 255 /\ feed = <<b>>
           \/ tnState = "Data" /\ b = 255 /\ feed = <<255, 255>>
           \/ tnState = "Iac" /\ b = 255 /\ feed = <<255>>
  BY DEF ByteComes
<1>2. CASE tnState = "Data" /\ b # 255 /\ feed = <<b>>
  <2>1. Head(feed) = b /\ Tail(feed) = << >> BY <1>2
  <2>2. feed' = << >> /\ building' = building /\ expected' = expected /\ Records!Data(b)
    BY <1>2, <2>1, ByteTaken
  <2>3. record' = Append(record, b) /\ tnState' = "Data" /\ answers' = answers /\ subBuffer' = subBuffer
    BY <1>2, <2>2, TelnetNumbers DEF Records!Data
  <2> QED BY <1>1, <2>2, <2>3 DEF RecordInv, RecordTypes, ItemDone, Unanswered
<1>3. CASE tnState = "Data" /\ b = 255 /\ feed = <<255, 255>>
  <2>1. Head(feed) = 255 /\ Tail(feed) = <<255>> BY <1>3
  <2>2. feed' = <<255>> /\ building' = building /\ expected' = expected /\ Records!Data(255)
    BY <1>3, <2>1, ByteTaken
  <2>3. record' = record /\ tnState' = "Iac" /\ answers' = answers /\ subBuffer' = subBuffer
    BY <1>3, <2>2, TelnetNumbers DEF Records!Data, Records!Enter
  <2>4. ByteComes' BY <1>1, <1>3, <2>2, <2>3 DEF ByteComes, Unanswered
  <2> QED BY <2>2, <2>3, <2>4 DEF RecordInv, RecordTypes
<1>4. CASE tnState = "Iac" /\ b = 255 /\ feed = <<255>>
  <2>1. Head(feed) = 255 /\ Tail(feed) = << >> BY <1>4
  <2>2. feed' = << >> /\ building' = building /\ expected' = expected /\ Records!Iac(255)
    BY <1>4, <2>1, ByteTaken
  <2>3. /\ record' = record \o <<255>> /\ tnState' = "Data" /\ answers' = answers
        /\ subBuffer' = subBuffer
    BY <1>4, <2>2, TelnetNumbers DEF Records!Iac, Records!Enter, Records!Doubled
  <2>4. record \o <<255>> = Append(record, 255) BY DEF RecordTypes
  <2> QED BY <1>1, <1>4, <2>2, <2>3, <2>4 DEF RecordInv, RecordTypes, ItemDone, Unanswered
<1> QED BY <1>1, <1>2, <1>3, <1>4

LEMMA EndGoes == ASSUME RecordTypes, EndComes, Records!ProcessIncoming PROVE RecordInv'
<1>1. CASE tnState = "Data" /\ feed = <<255, 239>>
  <2>1. Head(feed) = 255 /\ Tail(feed) = <<239>> BY <1>1
  <2>2. feed' = <<239>> /\ building' = building /\ expected' = expected /\ Records!Data(255)
    BY <1>1, <2>1, ByteTaken
  <2>3. record' = record /\ tnState' = "Iac" /\ answers' = answers /\ subBuffer' = subBuffer
    BY <1>1, <2>2, TelnetNumbers DEF Records!Data, Records!Enter
  <2>4. EndComes' BY <2>2, <2>3 DEF EndComes, Unanswered
  <2> QED BY <2>2, <2>3, <2>4 DEF RecordInv, RecordTypes
<1>2. CASE tnState = "Iac" /\ feed = <<239>>
  <2>1. Head(feed) = 239 /\ Tail(feed) = << >> BY <1>2
  <2>2. feed' = << >> /\ building' = building /\ expected' = expected /\ Records!Iac(239)
    BY <1>2, <2>1, ByteTaken
  <2>3. /\ record' = << >> /\ tnState' = "Data" /\ answers' = answers \o <<[show |-> record]>>
        /\ subBuffer' = subBuffer
    BY <1>2, <2>2, TelnetNumbers DEF Records!Iac, Records!Enter, Records!Answered
  <2>4. answers' = expected' BY <2>2, <2>3, Added DEF EndComes, Unanswered
  <2> QED BY <2>2, <2>3, <2>4 DEF RecordInv, RecordTypes, ItemDone, EndComes
<1> QED BY <1>1, <1>2 DEF EndComes

LEMMA VerbGoes == ASSUME RecordTypes, VerbComes, Records!ProcessIncoming PROVE RecordInv'
<1>1. PICK asked \in TelnetVerbs :
        \E option \in Int :
            /\ record = building
            /\ Unanswered(<<[reply |-> <<Records!Reply(asked, option), option>>]>>)
            /\ \/ tnState = "Data" /\ feed = <<255, asked, option>>
               \/ tnState = "Iac" /\ feed = <<asked, option>>
               \/ tnState = "Verb" /\ verb = asked /\ feed = <<option>>
  BY DEF VerbComes
<1>2. PICK option \in Int :
        /\ record = building
        /\ Unanswered(<<[reply |-> <<Records!Reply(asked, option), option>>]>>)
        /\ \/ tnState = "Data" /\ feed = <<255, asked, option>>
           \/ tnState = "Iac" /\ feed = <<asked, option>>
           \/ tnState = "Verb" /\ verb = asked /\ feed = <<option>>
  BY <1>1
<1>3. CASE tnState = "Data" /\ feed = <<255, asked, option>>
  <2>1. Head(feed) = 255 /\ Tail(feed) = <<asked, option>> BY <1>3
  <2>2. /\ feed' = <<asked, option>> /\ building' = building /\ expected' = expected
        /\ Records!Data(255)
    BY <1>3, <2>1, ByteTaken
  <2>3. record' = record /\ tnState' = "Iac" /\ answers' = answers /\ subBuffer' = subBuffer
    BY <1>3, <2>2, TelnetNumbers DEF Records!Data, Records!Enter
  <2>4. VerbComes' BY <1>2, <2>2, <2>3 DEF VerbComes, Unanswered
  <2> QED BY <2>2, <2>3, <2>4 DEF RecordInv, RecordTypes
<1>4. CASE tnState = "Iac" /\ feed = <<asked, option>>
  <2>1. Head(feed) = asked /\ Tail(feed) = <<option>> BY <1>4
  <2>2. /\ feed' = <<option>> /\ building' = building /\ expected' = expected /\ Records!Iac(asked)
    BY <1>4, <2>1, ByteTaken
  <2>3. /\ record' = record /\ tnState' = "Verb" /\ verb' = asked /\ answers' = answers
        /\ subBuffer' = subBuffer
    BY <1>4, <2>2, TelnetNumbers DEF Records!Iac, Records!Enter
  <2>4. VerbComes' BY <1>2, <2>2, <2>3 DEF VerbComes, Unanswered
  <2> QED BY <2>2, <2>3, <2>4 DEF RecordInv, RecordTypes
<1>5. CASE tnState = "Verb" /\ verb = asked /\ feed = <<option>>
  <2>1. Head(feed) = option /\ Tail(feed) = << >> BY <1>5
  <2>2. /\ feed' = << >> /\ building' = building /\ expected' = expected /\ Records!Verb(option)
    BY <1>5, <2>1, ByteTaken
  <2>3. /\ record' = record /\ tnState' = "Data" /\ subBuffer' = subBuffer
        /\ answers' = answers \o <<[reply |-> <<Records!Reply(asked, option), option>>]>>
    BY <1>5, <2>2 DEF Records!Verb, Records!Enter, Records!Answered
  <2>4. answers' = expected' BY <1>2, <2>2, <2>3, Added DEF Unanswered
  <2> QED BY <1>2, <2>2, <2>3, <2>4 DEF RecordInv, RecordTypes, ItemDone
<1> QED BY <1>2, <1>3, <1>4, <1>5

LEMMA SubGoes == ASSUME RecordTypes, SubComes, Records!ProcessIncoming PROVE RecordInv'
<1>1. PICK o \in {24, 1} :
        /\ record = building /\ Unanswered(TypeAnswer(o))
        /\ AtSub(o) \/ InSub(o) \/ AtOption(o) \/ AtContent(o) \/ AfterIac(o)
  BY DEF SubComes
<1>2. feed' = Tail(feed) /\ building' = building /\ expected' = expected BY ByteTaken
<1>3. ASSUME record' = record, answers' = answers, subBuffer' \in Seq(Int),
             InSub(o)' \/ AtOption(o)' \/ AtContent(o)' \/ AfterIac(o)'
      PROVE  RecordInv'
  <2>1. Unanswered(TypeAnswer(o))' BY <1>1, <1>2, <1>3 DEF Unanswered, TypeAnswer
  <2>2. SubComes' BY <1>1, <1>2, <1>3, <2>1 DEF SubComes
  <2> QED BY <1>2, <1>3, <2>2 DEF RecordInv, RecordTypes
<1>4. CASE AtSub(o)
  <2>1. Head(feed) = 255 BY <1>4 DEF AtSub
  <2>2. Tail(feed) = <<250, o, 1, 255, 240>> \/ Tail(feed) = <<250, o, 255, 255, 255, 240>>
    <3>1. CASE feed = <<255, 250, o, 1, 255, 240>> BY <3>1
    <3>2. CASE feed = <<255, 250, o, 255, 255, 255, 240>> BY <3>2
    <3> QED BY <1>4, <3>1, <3>2 DEF AtSub
  <2>3. Records!Data(255) BY <1>4, <2>1, ByteTaken DEF AtSub
  <2>4. record' = record /\ tnState' = "Iac" /\ answers' = answers /\ subBuffer' = subBuffer
    BY <2>3, TelnetNumbers DEF Records!Data, Records!Enter
  <2>5. InSub(o)' BY <1>2, <2>2, <2>4 DEF InSub
  <2> QED BY <1>3, <2>4, <2>5 DEF RecordTypes
<1>5. CASE InSub(o)
  <2>1. Head(feed) = 250 BY <1>5 DEF InSub
  <2>2. Tail(feed) = <<o, 1, 255, 240>> \/ Tail(feed) = <<o, 255, 255, 255, 240>>
    <3>1. CASE feed = <<250, o, 1, 255, 240>> BY <3>1
    <3>2. CASE feed = <<250, o, 255, 255, 255, 240>> BY <3>2
    <3> QED BY <1>5, <3>1, <3>2 DEF InSub
  <2>3. Records!Iac(250) BY <1>5, <2>1, ByteTaken DEF InSub
  <2>4. record' = record /\ tnState' = "SubOption" /\ answers' = answers /\ subBuffer' = << >>
    BY <2>3, TelnetNumbers DEF Records!Iac, Records!Enter
  <2>5. AtOption(o)' BY <1>2, <2>2, <2>4 DEF AtOption
  <2> QED BY <1>3, <2>4, <2>5
<1>6. CASE AtOption(o)
  <2>1. Head(feed) = o BY <1>6 DEF AtOption
  <2>2. Tail(feed) = <<1, 255, 240>> \/ Tail(feed) = <<255, 255, 255, 240>>
    <3>1. CASE feed = <<o, 1, 255, 240>> BY <3>1
    <3>2. CASE feed = <<o, 255, 255, 255, 240>> BY <3>2
    <3> QED BY <1>6, <3>1, <3>2 DEF AtOption
  <2>3. Records!SubOption(o) BY <1>6, <2>1, ByteTaken DEF AtOption
  <2>4. /\ record' = record /\ tnState' = "SubData" /\ answers' = answers
        /\ subBuffer' = Append(subBuffer, o)
    BY <2>3 DEF Records!SubOption, Records!Enter
  <2>5. subBuffer' = <<o>> /\ o \in Int BY <1>6, <2>4 DEF AtOption
  <2>6. AtContent(o)' BY <1>2, <2>2, <2>4, <2>5 DEF AtContent
  <2> QED BY <1>3, <2>4, <2>5, <2>6
<1>7. CASE AtContent(o)
  <2>1. Records!SubData(Head(feed)) BY <1>7, ByteTaken DEF AtContent
  <2>2. CASE feed = <<1, 255, 240>>
    <3>1. Head(feed) = 1 /\ Tail(feed) = <<255, 240>> BY <2>2
    <3>2. /\ record' = record /\ tnState' = "SubData" /\ answers' = answers
          /\ subBuffer' = Append(subBuffer, 1)
      BY <1>7, <2>1, <3>1, TelnetNumbers DEF AtContent, Records!SubData
    <3>3. subBuffer' \in Seq(Int) /\ subBuffer' # << >> /\ Head(subBuffer') = o
      BY <1>7, <3>2 DEF AtContent, RecordTypes
    <3>4. AtContent(o)' BY <1>2, <3>1, <3>2, <3>3 DEF AtContent
    <3> QED BY <1>3, <3>2, <3>3, <3>4
  <2>3. CASE feed = <<255, 255, 255, 240>> \/ feed = <<255, 240>>
    <3>1. Head(feed) = 255 BY <2>3
    <3>2. Tail(feed) = <<255, 255, 240>> \/ Tail(feed) = <<240>>
      <4>1. CASE feed = <<255, 255, 255, 240>> BY <4>1
      <4>2. CASE feed = <<255, 240>> BY <4>2
      <4> QED BY <2>3, <4>1, <4>2
    <3>3. record' = record /\ tnState' = "SubIac" /\ answers' = answers /\ subBuffer' = subBuffer
      BY <2>1, <3>1, TelnetNumbers DEF Records!SubData, Records!Enter
    <3>4. AfterIac(o)' BY <1>2, <1>7, <3>2, <3>3 DEF AtContent, AfterIac
    <3> QED BY <1>3, <3>3, <3>4 DEF RecordTypes
  <2> QED BY <1>7, <2>2, <2>3 DEF AtContent
<1>8. CASE AfterIac(o)
  <2>1. Records!SubIac(Head(feed)) BY <1>8, ByteTaken DEF AfterIac
  <2>2. CASE feed = <<255, 255, 240>>
    <3>1. Head(feed) = 255 /\ Tail(feed) = <<255, 240>> BY <2>2
    <3>2. /\ record' = record /\ tnState' = "SubData" /\ answers' = answers
          /\ subBuffer' = subBuffer \o <<255, 255>>
      BY <2>1, <3>1, TelnetNumbers DEF Records!SubIac, Records!Enter
    <3>3. subBuffer' \in Seq(Int) /\ subBuffer' # << >> /\ Head(subBuffer') = o
      <4>1. subBuffer \in Seq(Int) /\ <<255, 255>> \in Seq(Int) /\ Len(subBuffer) > 0
        BY <1>8 DEF AfterIac, RecordTypes
      <4>2. /\ subBuffer \o <<255, 255>> \in Seq(Int)
            /\ Len(subBuffer \o <<255, 255>>) = Len(subBuffer) + 2
            /\ (subBuffer \o <<255, 255>>)[1] = subBuffer[1]
        BY <4>1
      <4> QED BY <1>8, <3>2, <4>1, <4>2 DEF AfterIac
    <3>4. AtContent(o)' BY <1>2, <3>1, <3>2, <3>3 DEF AtContent
    <3> QED BY <1>3, <3>2, <3>3, <3>4
  <2>3. CASE feed = <<240>>
    <3>1. Head(feed) = 240 /\ Tail(feed) = << >> BY <2>3
    <3>2. /\ record' = record /\ tnState' = "Data" /\ subBuffer' = subBuffer
          /\ answers' = answers \o TypeAnswer(o)
      BY <1>8, <2>1, <3>1, TelnetNumbers
         DEF AfterIac, TypeAnswer, Records!SubIac, Records!Enter, Records!Answered
    <3>3. answers' = expected' BY <1>1, <1>2, <3>2, Added DEF Unanswered, TypeAnswer
    <3> QED BY <1>1, <1>2, <3>1, <3>2, <3>3 DEF RecordInv, RecordTypes, ItemDone
  <2> QED BY <1>8, <2>2, <2>3 DEF AfterIac
<1> QED BY <1>1, <1>4, <1>5, <1>6, <1>7, <1>8

Splices(a, b, all) ==
    /\ Len(all) = Len(a) + Len(b)
    /\ \A i \in 1 .. Len(a) : all[i] = a[i]
    /\ \A i \in 1 .. Len(b) : all[i + Len(a)] = b[i]

LEMMA SplicesIs ==
    ASSUME NEW S, NEW a \in Seq(S), NEW b \in Seq(S), NEW all \in Seq(S), Splices(a, b, all)
    PROVE  a \o b = all
<1> DEFINE ab == a \o b
<1>1. /\ ab \in Seq(S) /\ Len(ab) = Len(a) + Len(b)
      /\ \A i \in 1 .. Len(a) + Len(b) : ab[i] = IF i <= Len(a) THEN a[i] ELSE b[i - Len(a)]
  BY ConcatProperties
<1> HIDE DEF ab
<1>2. PICK n \in Nat, m \in Nat : n = Len(a) /\ m = Len(b) OBVIOUS
<1>3. ASSUME NEW i \in 1 .. n + m PROVE ab[i] = all[i]
  <2>1. CASE i <= n BY <1>1, <1>2, <2>1 DEF Splices
  <2>2. CASE ~(i <= n)
    <3>1. i - n \in 1 .. m /\ (i - n) + n = i BY <1>2, <2>2
    <3>2. ab[i] = b[i - n] BY <1>1, <1>2, <2>2
    <3>3. all[(i - n) + n] = b[i - n] BY <1>2, <3>1 DEF Splices
    <3> QED BY <3>1, <3>2, <3>3
  <2> QED BY <2>1, <2>2
<1>4. Len(all) = n + m BY <1>2 DEF Splices
<1>5. ab = all BY <1>1, <1>2, <1>3, <1>4, SeqEqual
<1> QED BY <1>5 DEF ab

\* The two subnegotiations of a host, written out.
LEMMA Spliced ==
    ASSUME NEW o \in Int
    PROVE  /\ <<255, 250, o>> \o <<1>> \o <<255, 240>> = <<255, 250, o, 1, 255, 240>>
           /\ <<255, 250, o>> \o <<255, 255>> \o <<255, 240>> = <<255, 250, o, 255, 255, 255, 240>>
<1>1. <<255, 250, o>> \o <<1>> = <<255, 250, o, 1>>
  <2> DEFINE a == <<255, 250, o>>
             b == <<1>>
             all == <<255, 250, o, 1>>
  <2>1. a \in Seq(Int) /\ b \in Seq(Int) /\ all \in Seq(Int) OBVIOUS
  <2>2. Splices(a, b, all) BY DEF Splices
  <2> HIDE DEF a, b, all
  <2>3. a \o b = all BY <2>1, <2>2, SplicesIs
  <2> QED BY <2>3 DEF a, b, all
<1>2. <<255, 250, o, 1>> \o <<255, 240>> = <<255, 250, o, 1, 255, 240>>
  <2> DEFINE a == <<255, 250, o, 1>>
             b == <<255, 240>>
             all == <<255, 250, o, 1, 255, 240>>
  <2>1. a \in Seq(Int) /\ b \in Seq(Int) /\ all \in Seq(Int) OBVIOUS
  <2>2. Splices(a, b, all) BY DEF Splices
  <2> HIDE DEF a, b, all
  <2>3. a \o b = all BY <2>1, <2>2, SplicesIs
  <2> QED BY <2>3 DEF a, b, all
<1>3. <<255, 250, o>> \o <<255, 255>> = <<255, 250, o, 255, 255>>
  <2> DEFINE a == <<255, 250, o>>
             b == <<255, 255>>
             all == <<255, 250, o, 255, 255>>
  <2>1. a \in Seq(Int) /\ b \in Seq(Int) /\ all \in Seq(Int) OBVIOUS
  <2>2. Splices(a, b, all) BY DEF Splices
  <2> HIDE DEF a, b, all
  <2>3. a \o b = all BY <2>1, <2>2, SplicesIs
  <2> QED BY <2>3 DEF a, b, all
<1>4. <<255, 250, o, 255, 255>> \o <<255, 240>> = <<255, 250, o, 255, 255, 255, 240>>
  <2> DEFINE a == <<255, 250, o, 255, 255>>
             b == <<255, 240>>
             all == <<255, 250, o, 255, 255, 255, 240>>
  <2>1. a \in Seq(Int) /\ b \in Seq(Int) /\ all \in Seq(Int) OBVIOUS
  <2>2. Splices(a, b, all) BY DEF Splices
  <2> HIDE DEF a, b, all
  <2>3. a \o b = all BY <2>1, <2>2, SplicesIs
  <2> QED BY <2>3 DEF a, b, all
<1> DEFINE start == <<255, 250, o>>
           one == <<1>>
           two == <<255, 255>>
           end == <<255, 240>>
           more == <<255, 250, o, 1>>
           most == <<255, 250, o, 255, 255>>
           short == <<255, 250, o, 1, 255, 240>>
           long == <<255, 250, o, 255, 255, 255, 240>>
<1>5. start \o one = more /\ more \o end = short BY <1>1, <1>2
<1>6. start \o two = most /\ most \o end = long BY <1>3, <1>4
<1>7. start \o one \o end = short /\ start \o two \o end = long
  <2> HIDE DEF start, one, two, end, more, most, short, long
  <2> QED BY <1>5, <1>6
<1> QED BY <1>7

LEMMA RecordStep == ASSUME RecordInv, Records!Next PROVE RecordInv'
<1>1. CASE Records!ProcessIncoming
  <2>1. feed # << >> BY <1>1 DEF Records!ProcessIncoming
  <2> QED BY <1>1, <2>1, ByteGoes, EndGoes, VerbGoes, SubGoes DEF RecordInv, ItemDone
<1>2. ASSUME feed = << >>
      PROVE  tnState = "Data" /\ record = building /\ RecordTypes
  <2>1. ~ByteComes BY <1>2 DEF ByteComes
  <2>2. ~EndComes BY <1>2 DEF EndComes
  <2>3. ~VerbComes BY <1>2 DEF VerbComes
  <2>4. ~SubComes BY <1>2 DEF SubComes, AtSub, InSub, AtOption, AtContent, AfterIac
  <2> QED BY <2>1, <2>2, <2>3, <2>4 DEF RecordInv, ItemDone
<1>3. ASSUME NEW bytes, NEW asks, Records!Sends(bytes, asks)
      PROVE  /\ tnState = "Data" /\ record = building /\ RecordTypes
             /\ feed' = bytes /\ expected' = asks /\ answers' = << >>
             /\ tnState' = tnState /\ record' = record /\ subBuffer' = subBuffer
  BY <1>2, <1>3 DEF Records!Sends
<1>4. CASE Records!HostEndsRecord
  <2>1. Records!Sends(<<255, 239>>, <<[show |-> building]>>) /\ building' = << >>
    BY <1>4, TelnetNumbers DEF Records!HostEndsRecord
  <2>2. EndComes' BY <1>3, <2>1 DEF EndComes, Unanswered
  <2> QED BY <1>3, <2>1, <2>2 DEF RecordInv, RecordTypes
<1>5. ASSUME NEW b \in Contents, Records!HostSendsByte(b) PROVE RecordInv'
  <2>1. b \in Int BY BoundsAssumption
  <2>2. /\ building' = Append(building, b)
        /\ Records!Sends(IF b = 255 THEN <<255, 255>> ELSE <<b>>, << >>)
    BY <1>5, TelnetNumbers DEF Records!HostSendsByte
  <2>3. ByteComes'
    <3>1. building' = Append(record', b) /\ Unanswered(<< >>)' /\ tnState' = "Data"
      BY <1>3, <2>2 DEF Unanswered
    <3>2. feed' = IF b = 255 THEN <<255, 255>> ELSE <<b>> BY <1>3, <2>2
    <3> QED BY <2>1, <3>1, <3>2 DEF ByteComes
  <2>4. building' \in Seq(Int) BY <1>3, <2>1, <2>2 DEF RecordTypes
  <2> QED BY <1>3, <2>2, <2>3, <2>4 DEF RecordInv, RecordTypes
<1>6. ASSUME NEW asked \in TelnetVerbs, NEW option \in {0, 24, 1}, Records!HostNegotiates(asked, option)
      PROVE  RecordInv'
  <2>1. /\ building' = building
        /\ Records!Sends(<<255, asked, option>>,
                         <<[reply |-> <<Records!Reply(asked, option), option>>]>>)
    BY <1>6, TelnetNumbers DEF Records!HostNegotiates
  <2>2. VerbComes' BY <1>3, <2>1 DEF VerbComes, Unanswered
  <2> QED BY <1>3, <2>1, <2>2 DEF RecordInv, RecordTypes
<1>7. ASSUME NEW option \in {24, 1}, NEW within \in {<< 1 >>, <<255, 255>>},
             Records!HostSubnegotiates(option, within)
      PROVE  RecordInv'
  <2>1. /\ building' = building
        /\ Records!Sends(<<255, 250, option>> \o within \o <<255, 240>>, TypeAnswer(option))
    BY <1>7, TelnetNumbers DEF Records!HostSubnegotiates, TypeAnswer
  <2>2. feed' = <<255, 250, option>> \o within \o <<255, 240>> BY <1>3, <2>1
  <2>3. feed' = <<255, 250, option, 1, 255, 240>> \/ feed' = <<255, 250, option, 255, 255, 255, 240>>
    <3>1. CASE within = <<1>> BY <2>2, <3>1, Spliced
    <3>2. CASE within = <<255, 255>> BY <2>2, <3>2, Spliced
    <3> QED BY <3>1, <3>2
  <2>4. AtSub(option)' BY <1>3, <2>1, <2>3 DEF AtSub
  <2>5. record' = building' /\ Unanswered(TypeAnswer(option))' BY <1>3, <2>1 DEF Unanswered, TypeAnswer
  <2>6. SubComes' BY <2>4, <2>5 DEF SubComes
  <2> QED BY <1>3, <2>1, <2>6 DEF RecordInv, RecordTypes
<1> QED BY <1>1, <1>4, <1>5, <1>6, <1>7, TelnetNumbers DEF Records!Next, TelnetVerbs

-----------------------------------------------------------------------------
(* The fields of a 3270 screen. *)

LEMMA LeastOf ==
    ASSUME NEW T, T \subseteq Nat, T # {}
    PROVE  \E x \in T : \A y \in T : x <= y
<1> DEFINE R == {ss \in Nat \X Nat : ss[1] < ss[2]}
<1>1. IsWellFoundedOn(R, Nat) BY NatLessThanWellFounded DEF OpToRel
<1> HIDE DEF R
<1>2. PICK x \in T : \A y \in T : ~(<<y, x>> \in R) BY <1>1, WFMin
<1>3. ASSUME NEW y \in T PROVE x <= y
  <2>1. ~(<<y, x>> \in R) /\ x \in Nat /\ y \in Nat BY <1>2
  <2>2. y < x => <<y, x>> \in R BY <2>1 DEF R
  <2> QED BY <2>1, <2>2
<1> QED BY <1>2, <1>3

LEMMA GreatestOf ==
    ASSUME NEW T, NEW n \in Nat, T \subseteq 0 .. n, T # {}
    PROVE  \E x \in T : \A y \in T : x >= y
<1> DEFINE M == {n - x : x \in T}
<1>1. \A x \in T : n - x \in Nat OBVIOUS
<1>2. M \subseteq Nat /\ M # {} BY <1>1
<1> HIDE DEF M
<1>3. PICK m \in M : \A y \in M : m <= y BY <1>2, LeastOf
<1>4. PICK x \in T : m = n - x BY <1>3 DEF M
<1>5. ASSUME NEW y \in T PROVE x >= y
  <2>1. n - y \in M BY DEF M
  <2>2. n - x <= n - y BY <1>3, <1>4, <2>1
  <2>3. x \in 0 .. n /\ y \in 0 .. n OBVIOUS
  <2> QED BY <2>2, <2>3
<1> QED BY <1>5

CellTotal == Fields!CellCount
CellMarks == {Fields!Blank, Fields!Host, Fields!Typed}
FieldSet == [start : Fields!AllCells, end : 0 .. CellTotal, protected : BOOLEAN, modified : BOOLEAN]

LEMMA CellTotals == CellTotal \in Nat \ {0} /\ Fields!AllCells = 0 .. CellTotal - 1 /\ 0 \in Fields!AllCells
<1>1. Rows \in Nat \ {0} /\ Cols \in Nat \ {0} BY BoundsAssumption
<1>2. \A a, b \in Nat \ {0} : a * b \in Nat \ {0} OBVIOUS
<1>3. Rows * Cols \in Nat \ {0} BY <1>1, <1>2
<1>4. CellTotal = Rows * Cols BY DEF CellTotal, Fields!CellCount
<1>5. Fields!AllCells = 0 .. CellTotal - 1 BY DEF Fields!AllCells, CellTotal
<1>6. CellTotal \in Nat \ {0} BY <1>3, <1>4
<1> QED BY <1>5, <1>6

LEMMA AtCursorType ==
    ASSUME NEW cell \in Int
    PROVE  /\ Fields!AtCursor(cell) \in Fields!AllCells
           /\ cell \in Fields!AllCells => Fields!AtCursor(cell) = cell
<1>1. PICK n \in Nat \ {0} : n = CellTotal BY CellTotals
<1>2. Fields!AllCells = 0 .. n - 1 BY <1>1, CellTotals
<1>3. Fields!AtCursor(cell) = IF cell < 0 THEN 0 ELSE cell % n
  BY <1>1 DEF Fields!AtCursor, CellTotal
<1>4. cell % n \in 0 .. n - 1 OBVIOUS
<1>5. cell \in 0 .. n - 1 => cell % n = cell OBVIOUS
<1>6. 0 \in 0 .. n - 1 OBVIOUS
<1> QED BY <1>2, <1>3, <1>4, <1>5, <1>6

LEMMA FieldIs ==
    ASSUME NEW f \in FieldSet
    PROVE  /\ f.start \in Nat /\ f.start < CellTotal /\ f.start \in Fields!AllCells
           /\ f.end \in Nat /\ f.end <= CellTotal
           /\ f.protected \in BOOLEAN /\ f.modified \in BOOLEAN
           /\ CellTotal \in Nat
BY CellTotals DEF FieldSet

LEMMA FirstInputType ==
    ASSUME NEW fs \in Seq(FieldSet)
    PROVE  Fields!FirstInputCell(fs) \in Fields!AllCells
<1> DEFINE inputs == {i \in DOMAIN fs : ~fs[i].protected /\ fs[i].start + 1 < fs[i].end}
           first == CHOOSE i \in inputs : \A j \in inputs : i <= j
<1>1. Fields!FirstInputCell(fs) = IF inputs = {} THEN 0 ELSE fs[first].start + 1
  BY DEF Fields!FirstInputCell
<1>2. CASE inputs # {}
  <2>1. inputs \subseteq Nat OBVIOUS
  <2>2. first \in inputs
    <3> HIDE DEF inputs
    <3>1. \E i \in inputs : \A j \in inputs : i <= j BY <1>2, <2>1, LeastOf
    <3> QED BY <3>1
  <2> HIDE DEF first
  <2>3. fs[first] \in FieldSet /\ fs[first].start + 1 < fs[first].end BY <2>2
  <2>4. fs[first].start + 1 \in Fields!AllCells BY <2>3, FieldIs, CellTotals
  <2> QED BY <1>1, <1>2, <2>4 DEF first
<1>3. CASE inputs = {} BY <1>1, <1>3, CellTotals
<1> QED BY <1>2, <1>3

-----------------------------------------------------------------------------

Apart(fs) == \A i, j \in DOMAIN fs : fs[i].start = fs[j].start => i = j

\* Fields in order, each up to the next one or to the end of the screen.
Divided(fs) ==
    /\ \A i, j \in DOMAIN fs : i < j => fs[i].end <= fs[j].start
    /\ \A i \in DOMAIN fs : fs[i].start < fs[i].end
    /\ \A i \in DOMAIN fs : fs[i].end = CellTotal \/ \E j \in DOMAIN fs : fs[j].start = fs[i].end

\* Field i is one that Enter sends, and holds the cell.
Holds(fs, i, cell) ==
    /\ i \in DOMAIN fs /\ fs[i].start < cell /\ cell < fs[i].end
    /\ ~fs[i].protected /\ fs[i].modified

\* Where the screen is not what the host knows, such a field holds it.
Untold(mine, theirs, fs) ==
    \A c \in Fields!AllCells : mine[c] # theirs[c] => \E i \in DOMAIN fs : Holds(fs, i, c)

FieldTypes ==
    /\ cells \in [Fields!AllCells -> CellMarks] /\ hostCells \in [Fields!AllCells -> CellMarks]
    /\ cursor \in Fields!AllCells /\ fields \in Seq(FieldSet) /\ orders \in Int /\ orders >= -1

\* In a record, either the fields are still those that the last one left, or one
\* was started and the host knows the screen.
FieldInv ==
    /\ FieldTypes
    /\ Apart(fields) => \/ cells = hostCells /\ orders # -1
                        \/ Divided(fields) /\ Untold(cells, hostCells, fields)

LEMMA NothingUnsentHolds == FieldInv => Fields!NothingUnsent
<1> SUFFICES ASSUME FieldInv, orders = -1, Apart(fields)
             PROVE  /\ \A i, j \in DOMAIN fields : i < j => fields[i].end <= fields[j].start
                    /\ \A c \in Fields!AllCells :
                          cells[c] # hostCells[c] => \E i \in Fields!FieldAt(c) : Fields!Sent(i)
  BY DEF Fields!NothingUnsent, Fields!StartsDiffer, Apart
<1>1. Divided(fields) /\ Untold(cells, hostCells, fields) /\ fields \in Seq(FieldSet)
  BY DEF FieldInv, FieldTypes
<1>2. ASSUME NEW c \in Fields!AllCells, cells[c] # hostCells[c]
      PROVE  \E i \in Fields!FieldAt(c) : Fields!Sent(i)
  <2>1. PICK i \in DOMAIN fields : Holds(fields, i, c) BY <1>1, <1>2 DEF Untold
  <2>2. c \in Nat /\ Fields!Clamped(c) = c
    BY CellTotals DEF Fields!Clamped, CellTotal
  <2>3. \A j \in DOMAIN fields : fields[j] \in FieldSet BY <1>1
  <2>4. fields[i].start \in Nat /\ fields[i].end \in Nat BY <2>3, FieldIs
  <2>5. ASSUME NEW j \in DOMAIN fields, Fields!Inside(c, fields[j]) PROVE i <= j
    <3>1. fields[j].start \in Nat /\ fields[j].end \in Nat BY <2>3, FieldIs
    <3>2. c < fields[j].end /\ fields[i].start < c BY <2>1, <2>5 DEF Fields!Inside, Holds
    <3>3. ~(j < i)
      <4>1. j < i => fields[j].end <= fields[i].start BY <1>1 DEF Divided
      <4> QED BY <2>2, <2>4, <3>1, <3>2, <4>1
    <3>4. i \in Nat /\ j \in Nat BY <1>1
    <3> QED BY <3>3, <3>4
  <2>6. Fields!Inside(c, fields[i]) BY <2>1 DEF Fields!Inside, Holds
  <2>7. i \in Fields!FieldAt(c) BY <2>2, <2>5, <2>6 DEF Fields!FieldAt
  <2>8. Fields!Sent(i)
    BY <2>1, <2>2, <2>4 DEF Fields!Sent, Holds
  <2> QED BY <2>7, <2>8
<1> QED BY <1>1, <1>2 DEF Divided

-----------------------------------------------------------------------------
(* The end of a record. *)

\* What rebuildFieldEnds() made of the fields, by the order it found.
EndedBy(q, fs) ==
    /\ q \in [DOMAIN fields -> DOMAIN fields]
    /\ \A k \in DOMAIN fields : \E i \in DOMAIN fields : q[i] = k
    /\ \A i, j \in DOMAIN fields : q[i] = q[j] => i = j
    /\ \A i, j \in DOMAIN fields : i < j => fields[q[i]].start <= fields[q[j]].start
    /\ DOMAIN fs = DOMAIN fields
    /\ \A i \in DOMAIN fields :
          fs[i] = [fields[q[i]] EXCEPT !.end = IF i < Len(fields) THEN fields[q[i + 1]].start
                                               ELSE CellTotal]

LEMMA EndedIs ==
    ASSUME fields \in Seq(FieldSet), NEW sorted \in Fields!Orderings
    PROVE  \E q : EndedBy(q, Fields!Ended(sorted))
<1> DEFINE D == DOMAIN fields
           n == Len(fields)
<1>1. PICK q \in [D -> D] :
        /\ sorted = [i \in D |-> fields[q[i]]]
        /\ \A i, j \in D : i < j => fields[q[i]].start <= fields[q[j]].start
        /\ \A i, j \in D : q[i] = q[j] => i = j
  BY DEF Fields!Orderings
<1>2. D = 1 .. n /\ n \in Nat OBVIOUS
<1>3. \A k \in D : \E i \in D : q[i] = k
  <2>1. IsFiniteSet(D) BY <1>2, FS_Interval
  <2>2. q \in Injection(D, D) BY <1>1 DEF Injection, IsInjective
  <2>3. q \in Surjection(D, D)
    <3> HIDE DEF D
    <3> QED BY <2>1, <2>2, FS_Injection
  <2> QED BY <2>3 DEF Surjection
<1>4. DOMAIN sorted = D /\ Len(sorted) = n /\ \A i \in D : sorted[i] = fields[q[i]]
  <2>1. DOMAIN sorted = D /\ \A i \in D : sorted[i] = fields[q[i]] BY <1>1
  <2>2. sorted \in Seq(FieldSet)
    <3>1. \A i \in 1 .. n : fields[q[i]] \in FieldSet BY <1>1, <1>2
    <3>2. sorted = [i \in 1 .. n |-> fields[q[i]]] BY <1>1, <1>2
    <3> HIDE DEF n, D
    <3> QED BY <1>2, <3>1, <3>2
  <2>3. DOMAIN sorted = 1 .. Len(sorted) /\ Len(sorted) \in Nat BY <2>2
  <2> QED BY <1>2, <2>1, <2>3
<1> DEFINE fs == Fields!Ended(sorted)
<1>5. fs = [i \in D |-> [sorted[i] EXCEPT !.end = IF i < n THEN sorted[i + 1].start ELSE CellTotal]]
  BY <1>4 DEF Fields!Ended, CellTotal
<1>6. \A i \in D : i < n => i + 1 \in D BY <1>2
<1>7. \A i \in D : fs[i] = [fields[q[i]] EXCEPT !.end = IF i < n THEN fields[q[i + 1]].start ELSE CellTotal]
  <2> TAKE i \in D
  <2>1. fs[i] = [sorted[i] EXCEPT !.end = IF i < n THEN sorted[i + 1].start ELSE CellTotal]
    BY <1>5
  <2>2. i < n => sorted[i + 1] = fields[q[i + 1]] BY <1>4, <1>6
  <2> HIDE DEF fs, n
  <2> QED BY <1>4, <2>1, <2>2
<1>8. DOMAIN fs = D BY <1>5
<1> HIDE DEF fs
<1>9. EndedBy(q, fs) BY <1>1, <1>3, <1>7, <1>8 DEF EndedBy
<1> QED BY <1>9 DEF fs

LEMMA EndedType ==
    ASSUME fields \in Seq(FieldSet), NEW q, NEW fs, fs = [i \in DOMAIN fields |-> fs[i]], EndedBy(q, fs)
    PROVE  /\ fs \in Seq(FieldSet)
           /\ Apart(fs) => Apart(fields)
<1> DEFINE n == Len(fields)
<1>1. DOMAIN fields = 1 .. n /\ n \in Nat OBVIOUS
<1>2. ASSUME NEW i \in DOMAIN fields
      PROVE  fs[i] \in FieldSet /\ fs[i].start = fields[q[i]].start
  <2>1. q[i] \in DOMAIN fields /\ fields[q[i]] \in FieldSet BY DEF EndedBy
  <2>2. i < n => fields[q[i + 1]] \in FieldSet
    <3>1. i < n => i + 1 \in DOMAIN fields BY <1>1
    <3> QED BY <3>1 DEF EndedBy
  <2>3. (IF i < n THEN fields[q[i + 1]].start ELSE CellTotal) \in 0 .. CellTotal
    BY <2>2, FieldIs, CellTotals
  <2>4. fs[i] = [fields[q[i]] EXCEPT !.end = IF i < n THEN fields[q[i + 1]].start ELSE CellTotal]
    BY DEF EndedBy
  <2> DEFINE e == IF i < n THEN fields[q[i + 1]].start ELSE CellTotal
  <2> HIDE DEF e, n
  <2>5. fs[i] = [fields[q[i]] EXCEPT !.end = e] /\ e \in 0 .. CellTotal BY <2>3, <2>4 DEF e
  <2> QED BY <2>1, <2>5 DEF FieldSet
<1>3. fs \in Seq(FieldSet)
  <2> HIDE DEF n
  <2>1. fs = [i \in 1 .. n |-> fs[i]] /\ \A i \in 1 .. n : fs[i] \in FieldSet BY <1>1, <1>2
  <2> QED BY <1>1, <2>1
<1>4. ASSUME Apart(fs), NEW i \in DOMAIN fields, NEW j \in DOMAIN fields, fields[i].start = fields[j].start
      PROVE  i = j
  <2>1. PICK a \in DOMAIN fields : q[a] = i BY DEF EndedBy
  <2>2. PICK b \in DOMAIN fields : q[b] = j BY DEF EndedBy
  <2>3. fs[a].start = fs[b].start BY <1>2, <1>4, <2>1, <2>2
  <2>4. a = b BY <1>4, <2>3 DEF Apart, EndedBy
  <2> QED BY <2>1, <2>2, <2>4
<1> QED BY <1>3, <1>4 DEF Apart

\* Of fields that start apart, in that order.
LEMMA EndedOrder ==
    ASSUME fields \in Seq(FieldSet), Apart(fields), NEW q, NEW fs, EndedBy(q, fs)
    PROVE  /\ \A i \in DOMAIN fields : fields[q[i]] \in FieldSet /\ fields[q[i]].start \in Nat
           /\ \A i, j \in DOMAIN fields : i < j => fields[q[i]].start < fields[q[j]].start
<1>1. \A i \in DOMAIN fields : q[i] \in DOMAIN fields /\ fields[q[i]] \in FieldSet BY DEF EndedBy
<1>2. \A i \in DOMAIN fields : fields[q[i]].start \in Nat BY <1>1, FieldIs
<1>3. ASSUME NEW i \in DOMAIN fields, NEW j \in DOMAIN fields, i < j
      PROVE  fields[q[i]].start < fields[q[j]].start
  <2>1. i # j BY <1>3
  <2>2. q[i] # q[j] BY <2>1 DEF EndedBy
  <2>3. fields[q[i]].start # fields[q[j]].start BY <1>1, <2>2 DEF Apart
  <2>4. fields[q[i]].start <= fields[q[j]].start BY <1>3 DEF EndedBy
  <2> QED BY <1>2, <2>3, <2>4
<1> QED BY <1>1, <1>2, <1>3

LEMMA EndedDivides ==
    ASSUME fields \in Seq(FieldSet), Apart(fields), NEW q, NEW fs, EndedBy(q, fs)
    PROVE  Divided(fs)
<1> DEFINE n == Len(fields)
           D == DOMAIN fields
           s(i) == fields[q[i]].start
<1>1. D = 1 .. n /\ n \in Nat /\ DOMAIN fs = D BY DEF EndedBy
<1>2. \A i \in D : fields[q[i]] \in FieldSet /\ s(i) \in Nat BY EndedOrder
<1>3. \A i, j \in D : i < j => s(i) < s(j) BY EndedOrder
<1>4. \A i \in D : s(i) < CellTotal BY <1>2, FieldIs
<1>5. \A i \in D : fs[i].start = s(i) /\ fs[i].end = IF i < n THEN s(i + 1) ELSE CellTotal
  <2> TAKE i \in D
  <2>1. fs[i] = [fields[q[i]] EXCEPT !.end = IF i < n THEN s(i + 1) ELSE CellTotal] BY DEF EndedBy
  <2> DEFINE e == IF i < n THEN s(i + 1) ELSE CellTotal
  <2>2. fs[i] = [fields[q[i]] EXCEPT !.end = e] BY <2>1
  <2> HIDE DEF e, n
  <2>3. fs[i].start = fields[q[i]].start /\ fs[i].end = e BY <1>2, <2>2 DEF FieldSet
  <2> QED BY <2>3 DEF e
<1> HIDE DEF s, n, D
<1>6. ASSUME NEW i \in D, NEW j \in D, i < j PROVE fs[i].end <= fs[j].start
  <2>1. i < n /\ i + 1 \in D /\ (i + 1 = j \/ i + 1 < j) BY <1>1, <1>6
  <2>2. s(i + 1) <= s(j) BY <1>2, <1>3, <2>1
  <2> QED BY <1>5, <2>1, <2>2
<1>7. ASSUME NEW i \in D PROVE fs[i].start < fs[i].end
  <2>1. i < n => i + 1 \in D /\ i < i + 1 BY <1>1
  <2> QED BY <1>3, <1>4, <1>5, <2>1
<1>8. ASSUME NEW i \in D PROVE fs[i].end = CellTotal \/ \E j \in D : fs[j].start = fs[i].end
  <2>1. i < n => i + 1 \in D BY <1>1
  <2> QED BY <1>5, <2>1
<1> QED BY <1>1, <1>6, <1>7, <1>8 DEF Divided

\* A field that was up to the next one has the same end again.
LEMMA EndedAgain ==
    ASSUME fields \in Seq(FieldSet), Apart(fields), Divided(fields), NEW q, NEW fs, EndedBy(q, fs),
           NEW m \in DOMAIN fields
    PROVE  fs[m] = fields[q[m]]
<1> DEFINE n == Len(fields)
           D == DOMAIN fields
           s(i) == fields[q[i]].start
           k == q[m]
           e == IF m < n THEN s(m + 1) ELSE CellTotal
<1>1. D = 1 .. n /\ n \in Nat /\ k \in D /\ m \in D BY DEF EndedBy
<1>2. \A i \in D : fields[q[i]] \in FieldSet /\ s(i) \in Nat BY EndedOrder
<1>3. \A i, j \in D : i < j => s(i) < s(j) BY EndedOrder
<1>4. fs[m] = [fields[k] EXCEPT !.end = e] BY DEF EndedBy
<1>5. \A i \in D : /\ fields[i] \in FieldSet /\ fields[i].start \in Nat /\ fields[i].end \in Nat
                  /\ fields[i].start < CellTotal /\ CellTotal \in Nat
  BY FieldIs
<1>6. \A j \in D : \E b \in D : q[b] = j BY DEF EndedBy
<1>7. /\ fields[k].start < fields[k].end
      /\ fields[k].end = CellTotal \/ \E j \in D : fields[j].start = fields[k].end
  BY <1>1 DEF Divided
<1>8. ASSUME NEW j \in D, fields[j].start > fields[k].start PROVE fields[k].end <= fields[j].start
  <2>1. j # k BY <1>1, <1>5, <1>8
  <2>2. CASE k < j BY <1>1, <2>2 DEF Divided
  <2>3. CASE j < k
    <3>1. fields[j].end <= fields[k].start /\ fields[j].start < fields[j].end BY <1>1, <2>3 DEF Divided
    <3> QED BY <1>1, <1>5, <1>8, <3>1
  <2>4. j \in Nat /\ k \in Nat BY <1>1
  <2> QED BY <2>1, <2>2, <2>3, <2>4
<1>9. ASSUME NEW b \in D, s(b) > s(m) PROVE b > m
  <2>1. b < m => s(b) < s(m) BY <1>3
  <2>2. b \in Nat /\ m \in Nat BY <1>1
  <2> QED BY <1>2, <1>9, <2>1, <2>2
<1>10. s(m) = fields[k].start OBVIOUS
<1>11. fields[k].end = e
  <2>1. CASE m < n
    <3>1. m + 1 \in D /\ m < m + 1 BY <1>1, <2>1
    <3>2. q[m + 1] \in D BY <3>1 DEF EndedBy
    <3>3. s(m) < s(m + 1) BY <1>3, <3>1
    <3>4. fields[k].end <= s(m + 1) BY <1>8, <1>10, <3>2, <3>3
    <3>5. s(m + 1) <= fields[k].end
      <4>1. CASE fields[k].end = CellTotal BY <1>5, <3>2, <4>1
      <4>2. ASSUME NEW j \in D, fields[j].start = fields[k].end PROVE s(m + 1) <= fields[k].end
        <5>1. PICK b \in D : q[b] = j BY <1>6
        <5>2. s(b) = fields[k].end BY <4>2, <5>1
        <5>3. b > m BY <1>7, <1>9, <1>10, <5>2
        <5>4. b = m + 1 \/ m + 1 < b BY <1>1, <5>3
        <5>5. s(m + 1) <= s(b) BY <1>2, <1>3, <3>1, <5>4
        <5> QED BY <5>2, <5>5
      <4> QED BY <1>7, <4>1, <4>2
    <3> QED BY <1>1, <1>2, <1>5, <2>1, <3>1, <3>4, <3>5
  <2>2. CASE ~(m < n)
    <3>1. ASSUME NEW j \in D, fields[j].start = fields[k].end PROVE FALSE
      <4>1. PICK b \in D : q[b] = j BY <1>6
      <4>2. s(b) = fields[k].end BY <3>1, <4>1
      <4>3. b > m BY <1>7, <1>9, <1>10, <4>2
      <4> QED BY <1>1, <2>2, <4>3
    <3> QED BY <1>7, <2>2, <3>1
  <2> QED BY <2>1, <2>2
<1>12. fields[k] \in FieldSet BY <1>1, <1>5
<1> HIDE DEF e, k
<1>13. fs[m] = fields[k] BY <1>4, <1>11, <1>12 DEF FieldSet
<1> QED BY <1>13 DEF k

LEMMA EndRecordStep == ASSUME FieldInv, Fields!EndRecord PROVE FieldInv'
<1>1. PICK sorted \in Fields!Orderings :
        /\ fields' = Fields!Ended(sorted)
        /\ cursor' = IF fields = << >> THEN cursor ELSE Fields!FirstInputCell(fields')
  BY DEF Fields!EndRecord
<1>2. orders' = -1 /\ cells' = cells /\ hostCells' = hostCells BY DEF Fields!EndRecord
<1>3. fields \in Seq(FieldSet) /\ FieldTypes BY DEF FieldInv, FieldTypes
<1>4. PICK q : EndedBy(q, fields') BY <1>1, <1>3, EndedIs
<1>5. fields' = [i \in DOMAIN fields |-> fields'[i]]
  <2>1. fields' = [i \in DOMAIN sorted |-> fields'[i]] BY <1>1 DEF Fields!Ended
  <2>2. DOMAIN fields' = DOMAIN fields BY <1>4 DEF EndedBy
  <2> QED BY <2>1, <2>2
<1>6. fields' \in Seq(FieldSet) /\ (Apart(fields') => Apart(fields)) BY <1>3, <1>4, <1>5, EndedType
<1>7. FieldTypes' BY <1>1, <1>2, <1>3, <1>6, FirstInputType DEF FieldTypes
<1>8. ASSUME Apart(fields')
      PROVE  Divided(fields') /\ Untold(cells', hostCells', fields')
  <2>1. Apart(fields) BY <1>6, <1>8
  <2>2. Divided(fields') BY <1>3, <1>4, <2>1, EndedDivides
  <2>3. CASE cells = hostCells BY <1>2, <2>2, <2>3 DEF Untold
  <2>4. CASE Divided(fields) /\ Untold(cells, hostCells, fields)
    <3>1. ASSUME NEW c \in Fields!AllCells, cells[c] # hostCells[c]
          PROVE  \E i \in DOMAIN fields' : Holds(fields', i, c)
      <4>1. PICK k \in DOMAIN fields : Holds(fields, k, c) BY <2>4, <3>1 DEF Untold
      <4>2. PICK m \in DOMAIN fields : q[m] = k BY <1>4 DEF EndedBy
      <4>3. fields'[m] = fields[q[m]] BY <1>3, <1>4, <2>1, <2>4, EndedAgain
      <4>4. m \in DOMAIN fields' BY <1>4 DEF EndedBy
      <4>5. Holds(fields', m, c) BY <4>1, <4>2, <4>3, <4>4 DEF Holds
      <4> QED BY <4>4, <4>5
    <3> QED BY <1>2, <2>2, <3>1 DEF Untold
  <2> QED BY <2>1, <2>3, <2>4 DEF FieldInv
<1> QED BY <1>7, <1>8 DEF FieldInv

-----------------------------------------------------------------------------
(* Drawing and typing. *)

\* What is drawn is drawn for both.
LEMMA DrawStep ==
    ASSUME FieldInv, NEW where, NEW what \in CellMarks, Fields!Draw(where, what),
           fields' = fields, orders' \in Nat, cursor' \in Fields!AllCells
    PROVE  FieldInv'
<1>1. FieldTypes BY DEF FieldInv
<1>2. /\ cells' = [c \in Fields!AllCells |-> IF c \in where THEN what ELSE cells[c]]
      /\ hostCells' = [c \in Fields!AllCells |-> IF c \in where THEN what ELSE hostCells[c]]
  BY DEF Fields!Draw, Fields!Drawn
<1>3. FieldTypes' BY <1>1, <1>2 DEF FieldTypes
<1>4. cells = hostCells => cells' = hostCells' BY <1>2
<1>5. Untold(cells, hostCells, fields) => Untold(cells', hostCells', fields')
  <2> SUFFICES ASSUME Untold(cells, hostCells, fields), NEW c \in Fields!AllCells, cells'[c] # hostCells'[c]
               PROVE  \E i \in DOMAIN fields : Holds(fields, i, c)
    BY DEF Untold
  <2>1. cells[c] # hostCells[c] BY <1>2
  <2> QED BY <2>1 DEF Untold
<1>6. orders' # -1 OBVIOUS
<1> QED BY <1>3, <1>4, <1>5, <1>6 DEF FieldInv

LEMMA MarksAre == /\ Fields!Blank \in CellMarks /\ Fields!Host \in CellMarks /\ Fields!Typed \in CellMarks
BY DEF CellMarks

LEMMA PastType ==
    ASSUME NEW address \in Fields!AllCells, Fields!Taken, FieldTypes
    PROVE  Fields!Past(address) \in Fields!AllCells /\ orders' \in Nat
BY CellTotals DEF Fields!Past, Fields!Taken, FieldTypes

\* A step of a record that draws nothing.
LEMMA QuietStep ==
    ASSUME FieldInv, cells' = cells, hostCells' = hostCells, fields' = fields,
           cursor' \in Fields!AllCells,
           orders' \in Nat \/ orders' = orders
    PROVE  FieldInv'
<1>1. FieldTypes' BY DEF FieldInv, FieldTypes
<1>2. orders = -1 => orders' = -1 \/ orders' # -1 OBVIOUS
<1>3. orders # -1 => orders' # -1 OBVIOUS
<1> QED BY <1>1, <1>3 DEF FieldInv

LEMMA BeginStep ==
    ASSUME FieldInv, NEW erases \in BOOLEAN, Fields!BeginRecord(erases) PROVE FieldInv'
<1>1. FieldTypes /\ MaxOrders \in Nat BY BoundsAssumption DEF FieldInv
<1>2. orders' = MaxOrders /\ orders' \in Nat /\ orders' # -1 BY <1>1 DEF Fields!BeginRecord
<1>3. CASE erases
  <2>1. /\ cells' = [c \in Fields!AllCells |-> Fields!Blank] /\ hostCells' = cells'
        /\ cursor' = 0 /\ fields' = << >>
    BY <1>3 DEF Fields!BeginRecord
  <2>2. FieldTypes' BY <1>2, <2>1, CellTotals, MarksAre DEF FieldTypes
  <2> QED BY <1>2, <2>1, <2>2 DEF FieldInv
<1>4. CASE ~erases
  <2>1. cells' = cells /\ hostCells' = hostCells /\ cursor' = cursor /\ fields' = fields
    BY <1>4 DEF Fields!BeginRecord
  <2> QED BY <1>1, <1>2, <2>1, QuietStep DEF FieldTypes
<1> QED BY <1>3, <1>4

LEMMA StartStep ==
    ASSUME FieldInv, NEW protected \in BOOLEAN, Fields!StartField(protected) PROVE FieldInv'
<1>1. FieldTypes BY DEF FieldInv
<1>2. orders' \in Nat BY <1>1 DEF Fields!StartField, Fields!Taken, FieldTypes
<1>3. /\ cells' = [c \in Fields!AllCells |-> IF c \in {cursor} THEN Fields!Blank ELSE cells[c]]
      /\ hostCells' = cells'
  BY DEF Fields!StartField, Fields!Drawn
<1> DEFINE field == [start |-> cursor, end |-> 0, protected |-> protected, modified |-> FALSE]
<1>4. fields' = Append(fields, field) /\ cursor' = Fields!AtCursor(cursor + 1)
  BY DEF Fields!StartField
<1>5. field \in FieldSet BY <1>1, CellTotals DEF FieldTypes, FieldSet
<1> HIDE DEF field
<1>6. fields' \in Seq(FieldSet) BY <1>1, <1>4, <1>5 DEF FieldTypes
<1>7. cursor' \in Fields!AllCells
  <2>1. cursor + 1 \in Int BY <1>1, CellTotals DEF FieldTypes
  <2> QED BY <1>4, <2>1, AtCursorType
<1>8. FieldTypes' BY <1>1, <1>2, <1>3, <1>6, <1>7, MarksAre DEF FieldTypes
<1>9. orders' # -1 BY <1>2
<1> QED BY <1>3, <1>8, <1>9 DEF FieldInv

LEMMA RecordOrderStep == ASSUME FieldInv, Fields!ProcessRecord PROVE FieldInv'
<1>1. FieldTypes BY DEF FieldInv
<1>2. cursor \in Int /\ cursor + 1 \in Int BY <1>1, CellTotals DEF FieldTypes
<1>3. ASSUME Fields!Taken PROVE orders' \in Nat BY <1>1, <1>3 DEF Fields!Taken, FieldTypes
<1>4. CASE \E erases \in BOOLEAN : Fields!BeginRecord(erases) BY <1>4, BeginStep
<1>5. CASE Fields!PutChar
  <2>1. Fields!Taken /\ Fields!Draw({cursor}, Fields!Host) /\ fields' = fields
        /\ cursor' = Fields!AtCursor(cursor + 1)
    BY <1>5 DEF Fields!PutChar
  <2>2. cursor' \in Fields!AllCells BY <1>2, <2>1, AtCursorType
  <2> QED BY <1>3, <2>1, <2>2, MarksAre, DrawStep
<1>6. CASE Fields!ProgramTab
  <2>1. Fields!FirstInputCell(fields) \in Fields!AllCells BY <1>1, FirstInputType DEF FieldTypes
  <2> QED BY <1>3, <1>6, <2>1, QuietStep DEF Fields!ProgramTab
<1>7. CASE Fields!SkippedOrder BY <1>1, <1>3, <1>7, QuietStep DEF Fields!SkippedOrder, FieldTypes
<1>8. CASE Fields!EndRecord BY <1>8, EndRecordStep
<1>9. CASE \E protected \in BOOLEAN : Fields!StartField(protected) BY <1>9, StartStep
<1>10. ASSUME NEW address \in Fields!AllCells, Fields!SetBufferAddress(address) PROVE FieldInv'
  BY <1>3, <1>10, QuietStep DEF Fields!SetBufferAddress
<1>11. ASSUME NEW address \in Fields!AllCells, Fields!RepeatToAddress(address) PROVE FieldInv'
  <2>1. Fields!Taken /\ Fields!Draw(Fields!Span(address), Fields!Host) /\ fields' = fields
        /\ cursor' = Fields!Past(address)
    BY <1>11 DEF Fields!RepeatToAddress
  <2>2. cursor' \in Fields!AllCells /\ orders' \in Nat BY <1>1, <2>1, PastType
  <2> QED BY <2>1, <2>2, MarksAre, DrawStep
<1>12. ASSUME NEW address \in Fields!AllCells, Fields!EraseUnprotectedToAddress(address) PROVE FieldInv'
  <2> DEFINE where == {c \in Fields!Span(address) : Fields!InputAt(c) # {}}
  <2>1. Fields!Taken /\ Fields!Draw(where, Fields!Blank) /\ fields' = fields
        /\ cursor' = Fields!Past(address)
    BY <1>12 DEF Fields!EraseUnprotectedToAddress
  <2> HIDE DEF where
  <2>2. cursor' \in Fields!AllCells /\ orders' \in Nat BY <1>1, <2>1, PastType
  <2> QED BY <2>1, <2>2, MarksAre, DrawStep
<1> QED BY <1>4, <1>5, <1>6, <1>7, <1>8, <1>9, <1>10, <1>11, <1>12 DEF Fields!ProcessRecord

\* A character put into, or taken out of, field i marks it.
LEMMA TypeStep ==
    ASSUME FieldInv, orders = -1, orders' = orders, hostCells' = hostCells,
           NEW i \in DOMAIN fields, NEW cell \in Fields!AllCells, NEW mark \in CellMarks,
           ~fields[i].protected, Fields!Inside(cell, fields[i]),
           cells' = [cells EXCEPT ![cell] = mark], fields' = Fields!Modified(i),
           cursor' \in Fields!AllCells
    PROVE  FieldInv'
<1>1. FieldTypes BY DEF FieldInv
<1>2. fields \in Seq(FieldSet) /\ \A j \in DOMAIN fields : fields[j] \in FieldSet
  BY <1>1 DEF FieldTypes
<1>3. /\ DOMAIN fields' = DOMAIN fields
      /\ \A j \in DOMAIN fields : fields'[j] = IF j = i THEN [fields[i] EXCEPT !.modified = TRUE] ELSE fields[j]
      /\ fields' = [fields EXCEPT ![i].modified = TRUE]
  BY DEF Fields!Modified
<1>4. /\ [fields[i] EXCEPT !.modified = TRUE] \in FieldSet
      /\ \A j \in DOMAIN fields :
            /\ fields'[j].start = fields[j].start /\ fields'[j].end = fields[j].end
            /\ fields'[j].protected = fields[j].protected
            /\ fields[j].modified => fields'[j].modified
      /\ fields'[i].modified
  BY <1>2, <1>3 DEF FieldSet
<1>5. fields' \in Seq(FieldSet)
  <2>1. \A j \in 1 .. Len(fields) : fields'[j] \in FieldSet BY <1>2, <1>3, <1>4
  <2>2. fields' = [j \in DOMAIN fields |-> fields'[j]] BY <1>3
  <2>3. Len(fields) \in Nat /\ DOMAIN fields = 1 .. Len(fields) BY <1>2, LenProperties
  <2>4. fields' = [j \in 1 .. Len(fields) |-> fields'[j]] BY <2>2, <2>3
  <2>5. fields' \in [1 .. Len(fields) -> FieldSet] BY <2>1, <2>4
  <2> QED BY <2>3, <2>5, SeqDef
<1>6. FieldTypes' BY <1>1, <1>5 DEF FieldTypes
<1>7. ASSUME Apart(fields') PROVE Divided(fields') /\ Untold(cells', hostCells', fields')
  <2>1. Apart(fields) BY <1>3, <1>4, <1>7 DEF Apart
  <2>2. Divided(fields) /\ Untold(cells, hostCells, fields) BY <2>1 DEF FieldInv
  <2>3. Divided(fields')
    <3>1. \A a, b \in DOMAIN fields' : a < b => fields'[a].end <= fields'[b].start
      BY <1>3, <1>4, <2>2 DEF Divided
    <3>2. \A a \in DOMAIN fields' : fields'[a].start < fields'[a].end
      BY <1>3, <1>4, <2>2 DEF Divided
    <3>3. \A a \in DOMAIN fields' :
              fields'[a].end = CellTotal \/ \E b \in DOMAIN fields' : fields'[b].start = fields'[a].end
      BY <1>3, <1>4, <2>2 DEF Divided
    <3> QED BY <3>1, <3>2, <3>3 DEF Divided
  <2>4. ASSUME NEW c \in Fields!AllCells, cells'[c] # hostCells'[c]
        PROVE  \E j \in DOMAIN fields' : Holds(fields', j, c)
    <3>1. CASE c = cell
      <4>1. Holds(fields', i, c) BY <1>3, <1>4, <3>1 DEF Holds, Fields!Inside
      <4> QED BY <1>3, <4>1
    <3>2. CASE c # cell
      <4>1. cells[c] # hostCells[c] BY <1>1, <2>4, <3>2 DEF FieldTypes
      <4>2. PICK j \in DOMAIN fields : Holds(fields, j, c) BY <2>2, <4>1 DEF Untold
      <4>3. Holds(fields', j, c) BY <1>3, <1>4, <4>2 DEF Holds
      <4> QED BY <1>3, <4>3
    <3> QED BY <3>1, <3>2
  <2> QED BY <2>3, <2>4 DEF Untold
<1> QED BY <1>6, <1>7 DEF FieldInv

\* The input field at a place of the screen.
LEMMA InputIs ==
    ASSUME FieldTypes, NEW cell \in Int, NEW i \in Fields!InputAt(cell)
    PROVE  /\ i \in DOMAIN fields /\ ~fields[i].protected /\ fields[i] \in FieldSet
           /\ Fields!Clamped(cell) \in Fields!AllCells
           /\ Fields!Inside(Fields!Clamped(cell), fields[i])
<1>1. i \in Fields!FieldAt(cell) /\ ~fields[i].protected BY DEF Fields!InputAt
<1>2. i \in DOMAIN fields /\ Fields!Inside(Fields!Clamped(cell), fields[i]) BY <1>1 DEF Fields!FieldAt
<1>3. Fields!Clamped(cell) \in Fields!AllCells BY CellTotals DEF Fields!Clamped, CellTotal
<1>4. fields[i] \in FieldSet BY <1>2 DEF FieldTypes
<1> QED BY <1>1, <1>2, <1>3, <1>4

LEMMA InsertStep == ASSUME FieldInv, Fields!InsertText PROVE FieldInv'
<1>1. FieldTypes /\ cursor \in Fields!AllCells /\ cursor \in Int /\ cursor + 1 \in Int
  BY CellTotals DEF FieldInv, FieldTypes
<1>2. orders = -1 /\ orders' = orders /\ hostCells' = hostCells BY DEF Fields!InsertText
<1>3. CASE cursor' = Fields!FirstInputCell(fields) /\ cells' = cells /\ fields' = fields
  <2>1. cursor' \in Fields!AllCells BY <1>1, <1>3, FirstInputType DEF FieldTypes
  <2> QED BY <1>2, <1>3, <2>1, QuietStep
<1>4. ASSUME NEW i \in Fields!InputAt(cursor),
             cells' = [cells EXCEPT ![cursor] = Fields!Typed], fields' = Fields!Modified(i),
             cursor' = LET next == Fields!AtCursor(cursor + 1)
                       IN  IF next >= fields[i].end THEN fields[i].end - 1 ELSE next
      PROVE  FieldInv'
  <2>1. Fields!Clamped(cursor) = cursor BY <1>1, CellTotals DEF Fields!Clamped, CellTotal
  <2>2. /\ i \in DOMAIN fields /\ ~fields[i].protected /\ fields[i] \in FieldSet
        /\ Fields!Inside(cursor, fields[i])
    BY <1>1, <2>1, InputIs
  <2>3. Fields!AtCursor(cursor + 1) \in Fields!AllCells BY <1>1, AtCursorType
  <2>4. fields[i].end - 1 \in Fields!AllCells
    <3>1. fields[i].end \in Nat /\ fields[i].end <= CellTotal /\ CellTotal \in Nat BY <2>2, FieldIs
    <3>2. cursor < fields[i].end /\ cursor \in Nat BY <1>1, <2>2, CellTotals DEF Fields!Inside
    <3> QED BY <3>1, <3>2, CellTotals
  <2>5. cursor' \in Fields!AllCells BY <1>4, <2>3, <2>4
  <2> QED BY <1>1, <1>2, <1>4, <2>2, <2>5, MarksAre, TypeStep
<1> QED BY <1>3, <1>4 DEF Fields!InsertText

LEMMA BackspaceStep == ASSUME FieldInv, Fields!Backspace PROVE FieldInv'
<1>1. FieldTypes /\ cursor \in Fields!AllCells /\ cursor \in Int /\ cursor - 1 \in Int
  BY CellTotals DEF FieldInv, FieldTypes
<1>2. orders = -1 /\ orders' = orders /\ hostCells' = hostCells BY DEF Fields!Backspace
<1>3. PICK i \in Fields!InputAt(cursor - 1) :
        /\ cursor' = Fields!AtCursor(cursor - 1)
        /\ cells' = [cells EXCEPT ![cursor'] = Fields!Blank] /\ fields' = Fields!Modified(i)
  BY DEF Fields!Backspace
<1>4. /\ i \in DOMAIN fields /\ ~fields[i].protected /\ fields[i] \in FieldSet
      /\ Fields!Inside(Fields!Clamped(cursor - 1), fields[i])
  BY <1>1, <1>3, InputIs
<1>5. cursor - 1 \in Fields!AllCells
  <2>1. CASE cursor = 0
    <3>1. Fields!Clamped(cursor - 1) = 0 BY <2>1 DEF Fields!Clamped
    <3>2. fields[i].start < 0 BY <1>4, <3>1 DEF Fields!Inside
    <3>3. fields[i].start \in Nat BY <1>4, FieldIs
    <3> QED BY <3>2, <3>3
  <2>2. CASE cursor # 0 BY <1>1, <2>2, CellTotals
  <2> QED BY <2>1, <2>2
<1>6. cursor' = cursor - 1 BY <1>1, <1>3, <1>5, AtCursorType
<1>7. Fields!Clamped(cursor - 1) = cursor - 1 BY <1>5, CellTotals DEF Fields!Clamped, CellTotal
<1>8. Fields!Inside(cursor', fields[i]) /\ cursor' \in Fields!AllCells BY <1>4, <1>5, <1>6, <1>7
<1> QED BY <1>2, <1>3, <1>4, <1>8, MarksAre, TypeStep

LEMMA MoveStep == ASSUME FieldInv, Fields!MoveCursor PROVE FieldInv'
<1>1. FieldTypes /\ cursor \in Int /\ Cols \in Int
  BY CellTotals, BoundsAssumption DEF FieldInv, FieldTypes
<1>2. orders' = orders /\ cells' = cells /\ hostCells' = hostCells /\ fields' = fields
  BY DEF Fields!MoveCursor
<1>3. Fields!FirstInputCell(fields) \in Fields!AllCells BY <1>1, FirstInputType DEF FieldTypes
<1>4. Fields!InputStarts \subseteq 0 .. CellTotal - 1 /\ CellTotal - 1 \in Nat
  <2>1. \A i \in DOMAIN fields : fields[i] \in FieldSet BY <1>1 DEF FieldTypes
  <2>2. \A i \in DOMAIN fields : fields[i].start \in 0 .. CellTotal - 1 BY <2>1, FieldIs
  <2> QED BY <2>2, CellTotals DEF Fields!InputStarts
<1>5. Fields!NextField \in Fields!AllCells
  <2> DEFINE after == {s \in Fields!InputStarts : s > cursor}
  <2>1. Fields!NextField = IF after = {} THEN Fields!FirstInputCell(fields)
                           ELSE Fields!AtCursor(Fields!Least(after) + 1)
    BY DEF Fields!NextField
  <2>2. CASE after # {}
    <3>0. \A s \in Fields!InputStarts : s \in Nat BY <1>4
    <3>1. after \subseteq Nat BY <3>0
    <3> HIDE DEF after
    <3>2. \E x \in after : \A y \in after : x <= y BY <2>2, <3>1, LeastOf
    <3>3. Fields!Least(after) \in after BY <3>2 DEF Fields!Least
    <3>4. \A x \in after : x + 1 \in Int BY <3>1
    <3>5. Fields!Least(after) + 1 \in Int BY <3>3, <3>4
    <3> QED BY <2>1, <2>2, <3>5, AtCursorType
  <2> QED BY <1>3, <2>1, <2>2
<1>6. Fields!PrevField \in Fields!AllCells
  <2> DEFINE before == {s \in Fields!InputStarts : s < cursor - 1}
             among == IF before = {} THEN Fields!InputStarts ELSE before
  <2>1. Fields!PrevField = IF Fields!InputStarts = {} THEN cursor
                           ELSE Fields!AtCursor(Fields!Greatest(among) + 1)
    BY DEF Fields!PrevField
  <2>2. CASE Fields!InputStarts # {}
    <3>1. among # {} /\ among \subseteq 0 .. CellTotal - 1 BY <1>4, <2>2
    <3> HIDE DEF among
    <3>2. \E x \in among : \A y \in among : x >= y BY <1>4, <3>1, GreatestOf
    <3>3. Fields!Greatest(among) \in among BY <3>2 DEF Fields!Greatest
    <3>4. \A x \in among : x + 1 \in Int BY <1>4, <3>1
    <3>5. Fields!Greatest(among) + 1 \in Int BY <3>3, <3>4
    <3> QED BY <2>1, <2>2, <3>5, AtCursorType
  <2> QED BY <1>1, <2>1, <2>2 DEF FieldTypes
<1>7. cursor' \in Fields!AllCells
  <2>1. CASE cursor' \in {Fields!AtCursor(cursor + delta) : delta \in {1, -1, Cols, -Cols}}
    <3>1. PICK delta \in {1, -1, Cols, -Cols} : cursor' = Fields!AtCursor(cursor + delta) BY <2>1
    <3>2. cursor + delta \in Int BY <1>1
    <3> QED BY <3>1, <3>2, AtCursorType
  <2> QED BY <1>3, <1>5, <1>6, <2>1 DEF Fields!MoveCursor
<1> QED BY <1>2, <1>7, QuietStep

LEMMA SubmitStep == ASSUME FieldInv, Fields!Submit PROVE FieldInv'
<1>1. FieldTypes BY DEF FieldInv
<1>2. orders = -1 /\ orders' = orders /\ cells' = cells /\ cursor' = cursor BY DEF Fields!Submit
<1>3. hostCells' = [c \in Fields!AllCells |->
          IF \E i \in DOMAIN fields : Fields!Sent(i) /\ Fields!Inside(c, fields[i])
          THEN cells[c] ELSE hostCells[c]]
  BY DEF Fields!Submit
<1>4. fields' = [i \in DOMAIN fields |-> IF Fields!Sent(i) THEN [fields[i] EXCEPT !.modified = FALSE]
                                         ELSE fields[i]]
  BY DEF Fields!Submit
<1>5. \A i \in DOMAIN fields : fields[i] \in FieldSet BY <1>1 DEF FieldTypes
<1>6. \A i \in DOMAIN fields :
          /\ fields'[i] \in FieldSet
          /\ fields'[i].start = fields[i].start /\ fields'[i].end = fields[i].end
  BY <1>4, <1>5 DEF FieldSet
<1>7. fields' \in Seq(FieldSet) /\ DOMAIN fields' = DOMAIN fields
  <2>1. fields' = [i \in 1 .. Len(fields) |-> fields'[i]] BY <1>1, <1>4 DEF FieldTypes
  <2>2. \A i \in 1 .. Len(fields) : fields'[i] \in FieldSet BY <1>1, <1>6 DEF FieldTypes
  <2>3. Len(fields) \in Nat BY <1>1 DEF FieldTypes
  <2>4. fields' \in Seq(FieldSet) BY <2>1, <2>2, <2>3
  <2> QED BY <1>4, <2>4
<1>8. hostCells' \in [Fields!AllCells -> CellMarks] BY <1>1, <1>3 DEF FieldTypes
<1>9. FieldTypes' BY <1>1, <1>2, <1>7, <1>8 DEF FieldTypes
<1>10. ASSUME Apart(fields') PROVE Divided(fields') /\ Untold(cells', hostCells', fields')
  <2>1. Apart(fields) BY <1>6, <1>7, <1>10 DEF Apart
  <2>2. Divided(fields) /\ Untold(cells, hostCells, fields) BY <1>2, <2>1 DEF FieldInv
  <2>3. Divided(fields')
    <3>1. \A a, b \in DOMAIN fields' : a < b => fields'[a].end <= fields'[b].start
      BY <1>6, <1>7, <2>2 DEF Divided
    <3>2. \A a \in DOMAIN fields' : fields'[a].start < fields'[a].end
      BY <1>6, <1>7, <2>2 DEF Divided
    <3>3. \A a \in DOMAIN fields' :
              fields'[a].end = CellTotal \/ \E b \in DOMAIN fields' : fields'[b].start = fields'[a].end
      BY <1>6, <1>7, <2>2 DEF Divided
    <3> QED BY <3>1, <3>2, <3>3 DEF Divided
  <2>4. ASSUME NEW c \in Fields!AllCells PROVE cells'[c] = hostCells'[c]
    <3>1. CASE \E i \in DOMAIN fields : Fields!Sent(i) /\ Fields!Inside(c, fields[i])
      BY <1>2, <1>3, <3>1
    <3>2. CASE ~\E i \in DOMAIN fields : Fields!Sent(i) /\ Fields!Inside(c, fields[i])
      <4>1. ASSUME NEW i \in DOMAIN fields, Holds(fields, i, c) PROVE FALSE
        <5>1. fields[i].start \in Nat /\ fields[i].end \in Nat /\ c \in Nat
          BY <1>5, FieldIs, CellTotals
        <5>2. Fields!Inside(c, fields[i]) BY <4>1 DEF Holds, Fields!Inside
        <5>3. Fields!Sent(i) BY <4>1, <5>1 DEF Holds, Fields!Sent
        <5> QED BY <3>2, <5>2, <5>3
      <4>2. cells[c] = hostCells[c] BY <2>2, <4>1 DEF Untold
      <4>3. hostCells'[c] = hostCells[c] BY <1>3, <3>2
      <4> QED BY <1>2, <4>2, <4>3
    <3> QED BY <3>1, <3>2
  <2> QED BY <2>3, <2>4 DEF Untold
<1> QED BY <1>9, <1>10 DEF FieldInv

LEMMA FieldStep == FieldInv /\ [Fields!Next]_fieldVars => FieldInv'
<1> SUFFICES ASSUME FieldInv, [Fields!Next]_fieldVars PROVE FieldInv' OBVIOUS
<1>1. CASE Fields!Next
  BY <1>1, RecordOrderStep, InsertStep, BackspaceStep, MoveStep, SubmitStep DEF Fields!Next
<1>2. CASE UNCHANGED fieldVars
  <2>1. /\ cells' = cells /\ hostCells' = hostCells /\ fields' = fields /\ cursor' = cursor
        /\ orders' = orders /\ cursor \in Fields!AllCells
    BY <1>2 DEF fieldVars, FieldInv, FieldTypes
  <2> QED BY <2>1, QuietStep
<1> QED BY <1>1, <1>2

LEMMA FieldStart == Fields!Init => FieldInv
<1> SUFFICES ASSUME Fields!Init PROVE FieldInv OBVIOUS
<1>1. /\ cells = [c \in Fields!AllCells |-> Fields!Blank] /\ hostCells = cells /\ cursor = 0
      /\ fields = << >> /\ orders = -1
  BY DEF Fields!Init
<1>2. FieldTypes BY <1>1, CellTotals, MarksAre DEF FieldTypes
<1>3. Divided(fields) /\ Untold(cells, hostCells, fields) BY <1>1 DEF Divided, Untold
<1> QED BY <1>2, <1>3 DEF FieldInv

\* The telnet records come whole to the 3270 screen, and what was typed there is
\* sent by the next Enter, whatever the host draws meanwhile.
THEOREM HostScreenHolds == MCSpec => []HostScreenSound
<1> DEFINE HInv == /\ op = "records" => RecordInv
                   /\ op = "fields" => FieldInv
<1>1. MCInit => HInv
  <2>1. Records!Init => RecordInv
    BY DEF Records!Init, RecordInv, RecordTypes, ItemDone
  <2> QED BY <2>1, FieldStart DEF MCInit
<1>2. HInv /\ [MCNext]_mcVars => HInv'
  <2> SUFFICES ASSUME HInv, [MCNext]_mcVars PROVE HInv' OBVIOUS
  <2>1. ASSUME op' = "records" PROVE RecordInv'
    <3>1. CASE op = "records" /\ Records!Next BY <3>1, RecordStep
    <3>2. CASE UNCHANGED mcVars
      <4>1. op' = op /\ feed' = feed /\ UNCHANGED recordVars BY <3>2 DEF mcVars
      <4>2. RecordInv BY <2>1, <4>1
      <4>3. /\ tnState' = tnState /\ verb' = verb /\ subBuffer' = subBuffer /\ record' = record
            /\ building' = building /\ answers' = answers /\ expected' = expected /\ feed' = feed
        BY <4>1 DEF recordVars
      <4>4. (RecordTypes' <=> RecordTypes) /\ (ItemDone' <=> ItemDone) /\ (EndComes' <=> EndComes)
        BY <4>3 DEF RecordTypes, ItemDone, EndComes, Unanswered
      <4>5. ByteComes' <=> ByteComes BY <4>3 DEF ByteComes, Unanswered
      <4>6. VerbComes' <=> VerbComes BY <4>3 DEF VerbComes, Unanswered
      <4>7. SubComes' <=> SubComes
        BY <4>3 DEF SubComes, Unanswered, AtSub, InSub, AtOption, AtContent, AfterIac
      <4> QED BY <4>2, <4>4, <4>5, <4>6, <4>7 DEF RecordInv
    <3>3. MCNext => op = "records" /\ Records!Next BY <2>1 DEF MCNext
    <3> QED BY <3>1, <3>2, <3>3
  <2>2. ASSUME op' = "fields" PROVE FieldInv'
    <3>1. CASE op = "fields" /\ Fields!Next BY <3>1, FieldStep
    <3>2. CASE UNCHANGED mcVars
      <4>1. op' = op /\ fieldVars' = fieldVars BY <3>2 DEF mcVars
      <4> QED BY <2>2, <4>1, FieldStep
    <3>3. MCNext => op = "fields" /\ Fields!Next BY <2>2 DEF MCNext
    <3> QED BY <3>1, <3>2, <3>3
  <2> QED BY <2>1, <2>2
<1>3. HInv => HostScreenSound
  <2>1. RecordInv => Records!RecordsWhole
    BY DEF RecordInv, Records!RecordsWhole, ItemDone, ByteComes, EndComes, VerbComes, SubComes,
           AtSub, InSub, AtOption, AtContent, AfterIac
  <2>2. FieldInv => Fields!NothingUnsent BY NothingUnsentHolds
  <2> QED BY <2>1, <2>2 DEF HostScreenSound
<1> HIDE DEF HInv
<1> QED BY <1>1, <1>2, <1>3, PTL DEF MCSpec
=============================================================================
