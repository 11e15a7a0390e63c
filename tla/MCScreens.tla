------------------------------ MODULE MCScreens ------------------------------
(***************************************************************************)
(* What a host sends to a terminal, for TLC: the screen that is drawn on,  *)
(* the parser of escape sequences, the 3270 screen with its fields and the *)
(* telnet records below it.  A behaviour is one of the machines, and the   *)
(* variables of the others keep one value.                                 *)
(***************************************************************************)
EXTENDS ScreenBuffer

CONSTANTS
    Rows, Cols, MaxFields, MaxOrders,  \* 3270 screen
    Contents, MaxRecord                \* telnet records

VARIABLES
    op,  \* the machine that runs
    state, params, privateMarker, paramStarted, osc, utf8, pen, savedPen, feed,
    meant, calls,
    cells, cursor, fields, orders, hostCells,
    tnState, verb, subBuffer, record, building, answers, expected

\* A line of three cells, and three of one: neighbouring pairs, wraps that
\* scroll, lines on both sides of the margins, and a window that shrinks in one
\* direction while it grows in the other.
WindowSizes == {<<3, 1>>, <<1, 3>>}

-----------------------------------------------------------------------------
(* Tokens: their bytes, and what they mean. *)

Digits(n) == IF n < 10 THEN <<48 + n>>
             ELSE IF n < 100 THEN <<48 + (n \div 10), 48 + (n % 10)>>
             ELSE <<48 + (n \div 1000), 48 + ((n \div 100) % 10), 48 + ((n \div 10) % 10), 48 + (n % 10)>>

Absent == -1
Field(n) == IF n = Absent THEN << >> ELSE Digits(n)
Joined(ps) == CASE Len(ps) = 0 -> << >>
                [] Len(ps) = 1 -> Field(ps[1])
                [] Len(ps) = 2 -> Field(ps[1]) \o <<59>> \o Field(ps[2])

Token(bytes, made) == [bytes |-> bytes, calls |-> made, items |-> << >>, cursor |-> "kept"]
Sequence(marker, ps, final, made) ==
    Token(<<27, 91>> \o marker \o Joined(ps) \o <<final>>, made)

Given(n) == IF n \in {Absent, 0} THEN 1 ELSE n
Numbers == {Absent, 0, 12}

Texts ==
    {Token(<<65>>, <<<<"writeChar", 65>>>>),                        \* A
     Token(<<195, 169>>, <<<<"writeChar", 233>>>>),                 \* two bytes
     Token(<<228, 184, 173>>, <<<<"writeChar", 20013>>>>),          \* three
     Token(<<195, 65>>, <<<<"writeChar", 65533>>, <<"writeChar", 65>>>>),  \* cut short
     Token(<<169>>, <<<<"writeChar", 65533>>>>),
     Token(<<13, 10>>, <<<<"carriageReturn">>, <<"lineFeed">>>>),
     Token(<<7>>, <<<<"bell">>>>)}

Escapes ==
    {Token(<<27, 69>>, <<<<"carriageReturn">>, <<"lineFeed">>>>),
     Token(<<27, 40, 66>>, << >>),
     [bytes |-> <<27, 99>>, calls |-> <<<<"reset">>>>, items |-> <<[part |-> "all", value |-> 0]>>,
      cursor |-> "forgotten"]}

\* A title with the byte 156 in a character of UTF-8 is not sent: the parser
\* takes that byte for the end of the title.
Titles ==
    {Token(<<27, 93>> \o code \o <<59, 65>> \o end, <<<<"title", <<65>>>>>>) :
        code \in {<<48>>, << >>}, end \in {<<7>>, <<27, 92>>, <<156>>}}
    \union {Token(<<27, 93, 52, 59, 65, 7>>, << >>)}

SavedCursors ==
    {[Token(<<27, 55>>, <<<<"saveCursor">>>>) EXCEPT !.cursor = "saved"],
     [Token(<<27, 56>>, <<<<"restoreCursor">>>>) EXCEPT !.cursor = "restored"],
     [Sequence(<< >>, << >>, 115, <<<<"saveCursor">>>>) EXCEPT !.cursor = "saved"],
     [Sequence(<< >>, << >>, 117, <<<<"restoreCursor">>>>) EXCEPT !.cursor = "restored"],
     [Sequence(<<63>>, <<1049>>, 104, <<<<"saveCursor">>, <<"useAltScreen", TRUE, TRUE>>>>)
         EXCEPT !.cursor = "saved"],
     [Sequence(<<63>>, <<1049>>, 108, <<<<"useAltScreen", FALSE, TRUE>>, <<"restoreCursor">>>>)
         EXCEPT !.cursor = "restored"]}

ControlSequences ==
    {Sequence(<< >>, <<n>>, 65, <<<<"moveCursorUp", Given(n)>>>>) : n \in Numbers}
    \union UNION {{Sequence(<< >>, <<n, m>>, 72, <<<<"moveCursor", Given(n) - 1, Given(m) - 1>>>>) :
                n \in Numbers \ {m}} : m \in Numbers}
    \union {Sequence(<< >>, << >>, 72, <<<<"moveCursor", 0, 0>>>>),
            Sequence(<< >>, <<2>>, 74, <<<<"eraseInDisplay", 2>>>>),
            Sequence(<< >>, <<2, Absent>>, 114, <<<<"setScrollRegion", 2, 0>>>>),
            Sequence(<<63>>, <<7, 25>>, 108, <<<<"setAutoWrap", FALSE>>, <<"setCursorVisible", FALSE>>>>),
            Sequence(<< >>, <<7>>, 104, << >>),                     \* not private
            Token(<<27, 91, 32, 113>>, << >>)}                      \* an intermediate byte

Item(ps, part, value) == [ps |-> ps, part |-> part, value |-> value]
Items ==
    {Item(<<0>>, "all", 0), Item(<<1>>, "on", 1), Item(<<31>>, "fg", <<1>>),
     Item(<<38, 5, 1>>, "fg", <<1>>),
     Item(<<48, 2, 0, 31, 1>>, "bg", <<0, 31, 1>>)}

\* ESC [ m has no parameters; any other list is joined with semicolons.
Parameters(items) ==
    LET ps == items[1].ps \o (IF Len(items) = 2 THEN items[2].ps ELSE << >>)
        Bytes[i \in 1 .. Len(ps)] == Digits(ps[i]) \o
            (IF i = Len(ps) THEN << >> ELSE <<59>> \o Bytes[i + 1])
    IN  Bytes[1]

Renditions ==
    {[bytes |-> <<27, 91>> \o Parameters(items) \o <<109>>, calls |-> << >>, items |-> items,
      cursor |-> "kept"] :
        items \in {<<i>> : i \in Items} \union {pair \in Items \X Items : pair[1] # pair[2]}}
    \union {[bytes |-> <<27, 91, 109>>, calls |-> << >>, items |-> <<Item(<<0>>, "all", 0)>>,
             cursor |-> "kept"]}

Tokens == Texts \union Escapes \union Titles \union SavedCursors \union ControlSequences \union Renditions

-----------------------------------------------------------------------------

Parser  == INSTANCE VtParser
Fields  == INSTANCE Tn3270Stream
Records == INSTANCE TnRecords

ASSUME BoundsAssumption ==
    /\ ScreenBounds /\ MaxInk \in Nat
    /\ {Rows, Cols} \subseteq Nat \ {0} /\ {MaxFields, MaxOrders, MaxRecord} \subseteq Nat
    /\ Contents \subseteq 0 .. 255

parserVars == <<state, params, privateMarker, paramStarted, osc, utf8, pen, savedPen,
                meant, calls>>
fieldVars == <<cells, cursor, fields, orders, hostCells>>
recordVars == <<tnState, verb, subBuffer, record, building, answers, expected>>
mcVars == <<op, screen, feed, parserVars, fieldVars, recordVars>>

\* The screen of the machines that do not draw on it.
NoScreen == screen = NewScreen(1, 3)
NoParser == /\ state = 0 /\ params = 0 /\ privateMarker = 0 /\ paramStarted = 0 /\ osc = 0
            /\ utf8 = 0 /\ pen = 0 /\ savedPen = 0 /\ meant = 0 /\ calls = 0
NoFields == cells = 0 /\ cursor = 0 /\ fields = 0 /\ orders = 0 /\ hostCells = 0
NoRecords == /\ tnState = 0 /\ verb = 0 /\ subBuffer = 0 /\ record = 0 /\ building = 0
             /\ answers = 0 /\ expected = 0

MCInit ==
    \/ op = "screen" /\ Init /\ NoParser /\ NoFields /\ NoRecords /\ feed = 0
    \/ op = "parser" /\ Parser!Init /\ NoScreen /\ NoFields /\ NoRecords
    \/ op = "fields" /\ Fields!Init /\ NoScreen /\ NoParser /\ NoRecords /\ feed = 0
    \/ op = "records" /\ Records!Init /\ NoScreen /\ NoParser /\ NoFields

MCNext ==
    \/ op = "screen" /\ Next /\ UNCHANGED <<op, feed, parserVars, fieldVars, recordVars>>
    \/ op = "parser" /\ Parser!Next /\ UNCHANGED <<op, screen, fieldVars, recordVars>>
    \/ op = "fields" /\ Fields!Next /\ UNCHANGED <<op, screen, feed, parserVars, recordVars>>
    \/ op = "records" /\ Records!Next /\ UNCHANGED <<op, screen, parserVars, fieldVars>>

MCSpec == MCInit /\ [][MCNext]_mcVars

-----------------------------------------------------------------------------
(* The properties of the machines; ScreenShape and WritesKeepPairs are      *)
(* stated in ScreenBuffer and hold where it rests.                          *)

\* Every token has the effect it means, whatever came before it.
TokensAsMeant == op = "parser" => Parser!TokensAsMeant

\* Scrolling stays in the margins, and what leaves the screen can be read back.
ScrollSound == op = "screen" => ScrollStaysInMargins /\ HistoryKept

\* Telnet records come whole to the 3270 screen, and what is typed there is sent.
HostScreenSound ==
    /\ op = "records" => Records!RecordsWhole
    /\ op = "fields" => Fields!NothingUnsent
=============================================================================
