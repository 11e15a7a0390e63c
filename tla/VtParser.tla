------------------------------ MODULE VtParser ------------------------------
(***************************************************************************)
(* The parser of terminal output (class VtParser): bytes in, calls of the  *)
(* screen and of the owner's callbacks out.  Whatever a sequence leaves    *)
(* behind - parameters, a half-read character, a title - is there when the *)
(* next one begins.  The server sends tokens, each of which means certain  *)
(* calls; the parser sees bytes only, in chunks of any length.  The pen    *)
(* and the pen saved with the cursor are the screen's: the rest of what a  *)
(* call does to the screen is in ScreenBuffer.                             *)
(***************************************************************************)
EXTENDS Integers, Sequences, SequencesExt

CONSTANT Tokens  \* what the server may send: [bytes, calls, items, cursor]

VARIABLES
    state,          \* m_state
    params,         \* m_params
    privateMarker,  \* m_privateMarker
    paramStarted,   \* m_paramStarted
    osc,            \* m_oscBuffer
    utf8,           \* [acc |-> m_utf8Acc, left |-> m_utf8Remaining]
    pen,            \* the screen's pen: colours and the attributes that are on
    savedPen,       \* the pen that was saved with the cursor
    feed,           \* the bytes of the current token still to come
    meant,          \* history: the calls and the pens that the token means
    calls           \* history: the calls made since the token began

parserVars == <<state, params, privateMarker, paramStarted, osc, utf8, pen, savedPen>>
vtVars == <<parserVars, feed, meant, calls>>

ESC == 27
BEL == 7
ST == 156
Replacement == 65533
Default == << >>  \* a colour is its components: an index, or red, green and blue
NewPen == [fg |-> Default, bg |-> Default, attributes |-> {}]

Init ==
    /\ state = "ground" /\ params = << >> /\ privateMarker = FALSE /\ paramStarted = FALSE
    /\ osc = << >> /\ utf8 = [acc |-> 0, left |-> 0] /\ pen = NewPen /\ savedPen = NewPen
    /\ feed = << >> /\ calls = << >>
    /\ meant = [calls |-> << >>, pen |-> NewPen, saved |-> NewPen]

\* What a call of the screen does to the pens.
Pens(pens, call) ==
    CASE call[1] = "saveCursor" -> [pens EXCEPT !.saved = pens.now]
      [] call[1] = "restoreCursor" -> [pens EXCEPT !.now = pens.saved]
      [] call[1] = "reset" -> [now |-> NewPen, saved |-> NewPen]
      [] OTHER -> pens

Calls(made) ==
    LET pens == FoldLeft(Pens, [now |-> pen, saved |-> savedPen], made)
    IN  calls' = calls \o made /\ pen' = pens.now /\ savedPen' = pens.saved

Silent == UNCHANGED <<calls, pen, savedPen>>
Enter(next) == state' = next

-----------------------------------------------------------------------------
(* Text and controls. *)

Write(ch) == <<"writeChar", ch>>

Lead == [b \in 192 .. 247 |->
            CASE b < 224 -> [acc |-> b % 32, left |-> 1]
              [] b \in 224 .. 239 -> [acc |-> b % 16, left |-> 2]
              [] OTHER -> [acc |-> b % 8, left |-> 3]]

Continues(b) == utf8.left > 0 /\ b \in 128 .. 191

FeedContinuation(b) ==
    LET acc == (utf8.acc * 64) + (b % 64)
    IN  /\ Continues(b)
        /\ utf8' = [acc |-> acc, left |-> utf8.left - 1]
        /\ Calls(IF utf8.left = 1 THEN <<Write(acc)>> ELSE << >>)

\* The character that a byte cuts short; the byte then starts anew.
Interrupted == IF utf8.left > 0 THEN <<Write(Replacement)>> ELSE << >>

FeedStarter(b) ==
    /\ b >= 32 /\ ~Continues(b)
    /\ \/ /\ b \in DOMAIN Lead
          /\ utf8' = Lead[b] /\ Calls(Interrupted)
       \/ /\ b \notin DOMAIN Lead
          /\ utf8' = [utf8 EXCEPT !.left = 0]
          /\ Calls(Interrupted \o <<Write(IF b < 128 THEN b ELSE Replacement)>>)

ControlCalls(b) ==
    CASE b = BEL -> <<<<"bell">>>>
      [] b = 8 -> <<<<"backspace">>>>
      [] b = 9 -> <<<<"tab">>>>
      [] b \in {10, 11, 12} -> <<<<"lineFeed">>>>
      [] b = 13 -> <<<<"carriageReturn">>>>
      [] OTHER -> << >>

Ground(b) ==
    /\ state = "ground"
    /\ \/ b = ESC /\ Enter("escape") /\ UNCHANGED utf8 /\ Silent
       \/ b < 32 /\ b # ESC /\ Calls(ControlCalls(b)) /\ UNCHANGED <<state, utf8>>
       \/ (FeedContinuation(b) \/ FeedStarter(b)) /\ UNCHANGED state
    /\ UNCHANGED <<params, privateMarker, paramStarted, osc>>

-----------------------------------------------------------------------------
(* Escape sequences. *)

EscapeCalls ==
    [b \in {77, 68, 69, 55, 56, 99} |->
        CASE b = 77 -> <<<<"reverseIndex">>>>
          [] b = 68 -> <<<<"lineFeed">>>>
          [] b = 69 -> <<<<"carriageReturn">>, <<"lineFeed">>>>
          [] b = 55 -> <<<<"saveCursor">>>>
          [] b = 56 -> <<<<"restoreCursor">>>>
          [] b = 99 -> <<<<"reset">>>>]

Collected_Kept == UNCHANGED <<params, privateMarker, paramStarted>>
\* '[' forgets what the sequence before it collected.
Collected == params' = << >> /\ privateMarker' = FALSE /\ paramStarted' = FALSE

Escape(b) ==
    /\ state = "escape"
    /\ \/ b = 91 /\ Enter("csi") /\ Collected /\ Silent /\ UNCHANGED osc
       \/ b = 93 /\ Enter("osc") /\ osc' = << >> /\ Silent
                 /\ UNCHANGED <<params, privateMarker, paramStarted>>
       \/ b \in 40 .. 43 /\ Enter("intermediate") /\ Silent
                 /\ UNCHANGED <<params, privateMarker, paramStarted, osc>>
       \/ /\ b \notin {91, 93} \union (40 .. 43) /\ Enter("ground")
          /\ Calls(IF b \in DOMAIN EscapeCalls THEN EscapeCalls[b] ELSE << >>)
          /\ UNCHANGED <<params, privateMarker, paramStarted, osc>>
    /\ UNCHANGED utf8

Intermediate(b) ==
    /\ state = "intermediate" /\ Enter("ground") /\ Silent
    /\ UNCHANGED <<params, privateMarker, paramStarted, osc, utf8>>

-----------------------------------------------------------------------------
(* Control sequences. *)

\* An absent parameter and an explicit 0 stand for the default.
Param(i, fallback) ==
    IF i \in DOMAIN params /\ params[i] # 0 THEN params[i] ELSE fallback

CountCall(b) ==
    CASE b = 65 -> "moveCursorUp"     [] b = 66 -> "moveCursorDown"
      [] b = 67 -> "moveCursorForward" [] b = 68 -> "moveCursorBack"
      [] b = 76 -> "insertLines"      [] b = 77 -> "deleteLines"
      [] b = 80 -> "deleteChars"      [] b = 64 -> "insertChars"
      [] b = 88 -> "eraseChars"       [] b = 83 -> "scrollUp"
      [] b = 84 -> "scrollDown"

Dispatch(b) ==
    CASE b \in {65, 66, 67, 68, 76, 77, 80, 64, 88, 83, 84} -> <<<<CountCall(b), Param(1, 1)>>>>
      [] b = 69 -> <<<<"moveCursorDown", Param(1, 1)>>, <<"carriageReturn">>>>
      [] b = 70 -> <<<<"moveCursorUp", Param(1, 1)>>, <<"carriageReturn">>>>
      [] b \in {71, 96} -> <<<<"setCursorColumn", Param(1, 1) - 1>>>>
      [] b = 100 -> <<<<"setCursorRow", Param(1, 1) - 1>>>>
      [] b \in {72, 102} -> <<<<"moveCursor", Param(1, 1) - 1, Param(2, 1) - 1>>>>
      [] b = 74 -> <<<<"eraseInDisplay", Param(1, 0)>>>>
      [] b = 75 -> <<<<"eraseInLine", Param(1, 0)>>>>
      [] b = 114 -> <<<<"setScrollRegion", Param(1, 0), Param(2, 0)>>>>
      [] b = 115 -> <<<<"saveCursor">>>>
      [] b = 117 -> <<<<"restoreCursor">>>>
      [] OTHER -> << >>

ModeCalls(p, set) ==
    CASE p = 1 -> <<<<"applicationCursorKeys", set>>>>
      [] p = 7 -> <<<<"setAutoWrap", set>>>>
      [] p = 25 -> <<<<"setCursorVisible", set>>>>
      [] p \in {47, 1047} -> <<<<"useAltScreen", set, set>>>>
      [] p = 1049 /\ set -> <<<<"saveCursor">>, <<"useAltScreen", TRUE, TRUE>>>>
      [] p = 1049 /\ ~set -> <<<<"useAltScreen", FALSE, TRUE>>, <<"restoreCursor">>>>
      [] p = 2004 -> <<<<"bracketedPaste", set>>>>
      [] OTHER -> << >>

SetMode(set) ==
    IF privateMarker THEN FlattenSeq([i \in DOMAIN params |-> ModeCalls(params[i], set)])
    ELSE << >>

\* How many parameters after the i-th belong to it: those of a colour.
Operands(ps, i) ==
    CASE ps[i] \in {38, 48} /\ i + 2 <= Len(ps) /\ ps[i + 1] = 5 -> 2
      [] ps[i] \in {38, 48} /\ i + 4 <= Len(ps) /\ ps[i + 1] = 2 -> 4
      [] OTHER -> 0

Attributes == [p \in {1, 2, 3, 4, 5, 7, 8, 9} |-> {p}]
Cleared(p) == CASE p = 22 -> {1, 2} [] p \in {23, 24, 25, 27, 28, 29} -> {p - 20} [] OTHER -> {}

Colour(ps, i) == [k \in 1 .. Operands(ps, i) - 1 |-> ps[i + 1 + k] % 256]

Applied(old, ps, i) ==
    LET p == ps[i]
        colour == IF Operands(ps, i) > 0 THEN Colour(ps, i) ELSE <<(p % 10) + (IF p >= 90 THEN 8 ELSE 0)>>
    IN  CASE p = 0 -> NewPen
          [] p = 39 -> [old EXCEPT !.fg = Default]
          [] p = 49 -> [old EXCEPT !.bg = Default]
          [] p \in (30 .. 37) \union (90 .. 97) \/ (p = 38 /\ Operands(ps, i) > 0) ->
                [old EXCEPT !.fg = colour]
          [] p \in (40 .. 47) \union (100 .. 107) \/ (p = 48 /\ Operands(ps, i) > 0) ->
                [old EXCEPT !.bg = colour]
          [] p \in DOMAIN Attributes -> [old EXCEPT !.attributes = @ \union {p}]
          [] OTHER -> [old EXCEPT !.attributes = @ \ Cleared(p)]

\* The pen and the index after k rounds of the loop over the parameters.
Sgr(old, ps) ==
    LET round[k \in 0 .. Len(ps)] ==
            IF k = 0 THEN [pen |-> old, i |-> 1]
            ELSE LET r == round[k - 1]
                 IN  IF r.i > Len(ps) THEN r
                     ELSE [pen |-> Applied(r.pen, ps, r.i), i |-> r.i + 1 + Operands(ps, r.i)]
    IN  round[Len(ps)].pen

Csi(b) ==
    /\ state = "csi"
    /\ \/ b = 63 /\ privateMarker' = TRUE /\ Silent /\ UNCHANGED <<state, params, paramStarted>>
       \/ /\ b \in 48 .. 57
          /\ LET ps == IF paramStarted THEN params ELSE Append(params, 0)
             IN  params' = [ps EXCEPT ![Len(ps)] = (@ * 10) + (b - 48)]
          /\ paramStarted' = TRUE /\ Silent /\ UNCHANGED <<state, privateMarker>>
       \/ /\ b = 59
          /\ params' = IF paramStarted THEN params ELSE Append(params, 0)
          /\ paramStarted' = FALSE /\ Silent /\ UNCHANGED <<state, privateMarker>>
       \/ b \in 32 .. 47 /\ Silent /\ UNCHANGED <<state, params, privateMarker, paramStarted>>
       \/ /\ b \in (64 .. 126) \ {109} /\ Enter("ground")
          /\ Calls(IF b \in {104, 108} THEN SetMode(b = 104) ELSE Dispatch(b))
          /\ UNCHANGED <<params, privateMarker, paramStarted>>
       \/ /\ b = 109 /\ Enter("ground")
          /\ params' = IF params = << >> THEN <<0>> ELSE params
          /\ pen' = Sgr(pen, params')
          /\ UNCHANGED <<privateMarker, paramStarted, calls, savedPen>>
       \/ /\ b \notin {63, 59} \union (32 .. 57) \union (64 .. 126) /\ Enter("ground")
          /\ Silent /\ UNCHANGED <<params, privateMarker, paramStarted>>
    /\ UNCHANGED <<osc, utf8>>

-----------------------------------------------------------------------------
(* Operating system commands: 0, 1 and 2 set the title. *)

\* The number that a text reads, 0 when it reads none, as an empty one.  Bound:
\* no code has a sign, a blank or more digits than an int.
Code(text) ==
    IF \A k \in DOMAIN text : text[k] \in 48 .. 57
    THEN FoldLeft(LAMBDA n, b : (n * 10) + (b - 48), 0, text) ELSE 0

TitleCalls ==
    LET sep == SelectInSeq(osc, LAMBDA b : b = 59)
    IN  IF sep > 0 /\ Code(SubSeq(osc, 1, sep - 1)) \in 0 .. 2
        THEN <<<<"title", SubSeq(osc, sep + 1, Len(osc))>>>> ELSE << >>

\* ST ends the string wherever it comes, inside a character of UTF-8 too.
Osc(b) ==
    /\ state = "osc"
    /\ \/ b \in {BEL, ST} /\ Enter("ground") /\ Calls(TitleCalls) /\ UNCHANGED osc
       \/ b = ESC /\ Enter("escape") /\ Calls(TitleCalls) /\ UNCHANGED osc
       \/ b \notin {BEL, ST, ESC} /\ osc' = Append(osc, b) /\ Silent /\ UNCHANGED state
    /\ UNCHANGED <<params, privateMarker, paramStarted, utf8>>

-----------------------------------------------------------------------------
(* The server sends a token; the parser takes it byte by byte. *)

\* What a token's rendition items leave of the pen: of each colour the last
\* that was set since the last reset.
MeantPen(items) ==
    LET resets == {i \in DOMAIN items : items[i].part = "all"}
        from == CHOOSE i \in resets \union {0} : \A j \in resets : j <= i
        Set(part) == {i \in DOMAIN items : i > from /\ items[i].part = part}
        Latest(part, old) ==
            IF Set(part) = {} THEN old
            ELSE items[CHOOSE i \in Set(part) : \A j \in Set(part) : j <= i].value
        base == IF from = 0 THEN meant.pen ELSE NewPen
    IN  [fg |-> Latest("fg", base.fg), bg |-> Latest("bg", base.bg),
         attributes |-> base.attributes \union {items[i].value : i \in Set("on")}]

\* Bound: a pen that is saved differs from the default in the colour it draws
\* with only; it may be any pen when the saved one comes back.
SendToken(token) ==
    /\ feed = << >>
    /\ token.cursor = "saved" => pen = [NewPen EXCEPT !.fg = pen.fg]
    /\ feed' = token.bytes /\ calls' = << >>
    /\ meant' = [calls |-> token.calls,
                 pen |-> IF token.cursor = "restored" THEN meant.saved ELSE MeantPen(token.items),
                 saved |-> CASE token.cursor = "saved" -> meant.pen
                             [] token.cursor = "forgotten" -> NewPen
                             [] OTHER -> meant.saved]
    /\ UNCHANGED parserVars

TakeByte ==
    /\ feed # << >>
    /\ LET b == Head(feed)
       IN  Ground(b) \/ Escape(b) \/ Intermediate(b) \/ Csi(b) \/ Osc(b)
    /\ feed' = Tail(feed)
    /\ UNCHANGED meant

Next == TakeByte \/ \E token \in Tokens : SendToken(token)

Spec == Init /\ [][Next]_vtVars

-----------------------------------------------------------------------------
(* Properties. *)

\* Each token has the effect it means, after any other, and leaves the parser
\* ready for text: nothing that one sequence leaves behind changes the next.
\* A restored cursor brings back the pen it was saved with, whichever of the
\* sequences saved it and whatever was drawn since.
TokensAsMeant ==
    feed = << >> => /\ state = "ground" /\ utf8.left = 0
                    /\ calls = meant.calls /\ pen = meant.pen /\ savedPen = meant.saved
=============================================================================
