----------------------------- MODULE TnRecords -----------------------------
(***************************************************************************)
(* The telnet layer below the 3270 and 5250 screens (processIncoming() of  *)
(* Tn3270Connection and Tn5250Connection): records that end with IAC EOR,  *)
(* a doubled IAC for a byte of that value, and negotiation anywhere in     *)
(* between, also in the middle of a record.  A behaviour may stop between  *)
(* any two bytes, as the chunks of the socket do.                          *)
(***************************************************************************)
EXTENDS Integers, Sequences, SequencesExt

CONSTANTS
    Contents,   \* bytes that occur in records
    MaxRecord   \* bound: bytes of a record

VARIABLES
    tnState,    \* m_state
    verb,       \* m_verb
    subBuffer,  \* m_subBuffer
    record,     \* m_record
    feed,       \* bytes of the host's current item still to come
    building,   \* history: the record that the host is sending
    answers,    \* what was answered or shown since the item began
    expected    \* history: what the item asks to be answered or shown

tnVars == <<tnState, verb, subBuffer, record, feed, building, answers, expected>>

IAC == 255
DONT == 254
DO == 253
WONT == 252
WILL == 251
SB == 250
SE == 240
EOR == 239
BINARY == 0
TTYPE == 24
Supported == {BINARY, TTYPE, 25}  \* 25 is EOR

Init ==
    /\ tnState = "Data" /\ verb = 0 /\ subBuffer = << >> /\ record = << >>
    /\ feed = << >> /\ building = << >> /\ answers = << >> /\ expected = << >>

Enter(next) == tnState' = next
Answered(what) == answers' = answers \o what

-----------------------------------------------------------------------------
(* The connection, a byte at a time. *)

\* What an IAC after an IAC adds to the record.
Doubled == <<IAC>>

Data(b) ==
    /\ tnState = "Data"
    /\ \/ b = IAC /\ Enter("Iac") /\ UNCHANGED record
       \/ b # IAC /\ record' = Append(record, b) /\ UNCHANGED tnState
    /\ UNCHANGED <<verb, subBuffer, answers>>

Iac(b) ==
    /\ tnState = "Iac"
    /\ \/ b = IAC /\ record' = record \o Doubled /\ Enter("Data") /\ UNCHANGED <<verb, subBuffer, answers>>
       \/ b = EOR /\ Answered(<<[show |-> record]>>) /\ record' = << >> /\ Enter("Data")
                  /\ UNCHANGED <<verb, subBuffer>>
       \/ b = SB /\ subBuffer' = << >> /\ Enter("SubOption") /\ UNCHANGED <<verb, record, answers>>
       \/ b \in {DO, DONT, WILL, WONT} /\ verb' = b /\ Enter("Verb")
                  /\ UNCHANGED <<subBuffer, record, answers>>
       \/ b \notin {IAC, EOR, SB, DO, DONT, WILL, WONT} /\ Enter("Data")
                  /\ UNCHANGED <<verb, subBuffer, record, answers>>

\* Whether an option is supported decides on a request or an offer only.
Reply(asked, option) ==
    CASE asked = DO -> IF option \in Supported THEN WILL ELSE WONT
      [] asked = WILL -> IF option \in Supported THEN DO ELSE DONT
      [] asked = DONT -> WONT
      [] asked = WONT -> DONT

Verb(b) ==
    /\ tnState = "Verb" /\ Answered(<<[reply |-> <<Reply(verb, b), b>>]>>) /\ Enter("Data")
    /\ UNCHANGED <<verb, subBuffer, record>>

SubOption(b) ==
    /\ tnState = "SubOption" /\ subBuffer' = Append(subBuffer, b) /\ Enter("SubData")
    /\ UNCHANGED <<verb, record, answers>>

SubData(b) ==
    /\ tnState = "SubData"
    /\ \/ b = IAC /\ Enter("SubIac") /\ UNCHANGED subBuffer
       \/ b # IAC /\ subBuffer' = Append(subBuffer, b) /\ UNCHANGED tnState
    /\ UNCHANGED <<verb, record, answers>>

SubIac(b) ==
    /\ tnState = "SubIac"
    /\ \/ /\ b = SE /\ Enter("Data") /\ UNCHANGED subBuffer
          /\ Answered(IF subBuffer # << >> /\ Head(subBuffer) = TTYPE
                      THEN <<[terminalType |-> TRUE]>> ELSE << >>)
       \/ /\ b # SE /\ Enter("SubData") /\ subBuffer' = subBuffer \o <<IAC, b>>
          /\ UNCHANGED answers
    /\ UNCHANGED <<verb, record>>

ProcessIncoming ==
    /\ feed # << >> /\ feed' = Tail(feed)
    /\ LET b == Head(feed)
       IN  Data(b) \/ Iac(b) \/ Verb(b) \/ SubOption(b) \/ SubData(b) \/ SubIac(b)
    /\ UNCHANGED <<building, expected>>

-----------------------------------------------------------------------------
(* The host, an item at a time. *)

Sends(bytes, asks) ==
    /\ feed = << >> /\ feed' = bytes /\ expected' = asks /\ answers' = << >>
    /\ UNCHANGED <<tnState, verb, subBuffer, record>>

HostSendsByte(b) ==
    /\ Len(building) < MaxRecord /\ building' = Append(building, b)
    /\ Sends(IF b = IAC THEN <<IAC, IAC>> ELSE <<b>>, << >>)

HostEndsRecord == Sends(<<IAC, EOR>>, <<[show |-> building]>>) /\ building' = << >>

HostNegotiates(asked, option) ==
    /\ Sends(<<IAC, asked, option>>, <<[reply |-> <<Reply(asked, option), option>>]>>)
    /\ UNCHANGED building

\* A subnegotiation, which may hold a doubled IAC; only that of the terminal
\* type is answered.
HostSubnegotiates(option, within) ==
    /\ Sends(<<IAC, SB, option>> \o within \o <<IAC, SE>>,
             IF option = TTYPE THEN <<[terminalType |-> TRUE]>> ELSE << >>)
    /\ UNCHANGED building

Next ==
    \/ ProcessIncoming \/ HostEndsRecord
    \/ \E b \in Contents : HostSendsByte(b)
    \/ \E asked \in {DO, DONT, WILL, WONT}, option \in {BINARY, TTYPE, 1} : HostNegotiates(asked, option)
    \/ \E option \in {TTYPE, 1}, within \in {<<1>>, <<IAC, IAC>>} : HostSubnegotiates(option, within)

Spec == Init /\ [][Next]_tnVars

-----------------------------------------------------------------------------
(* Properties. *)

\* Once an item has come, the connection has answered it and is ready for the
\* next, and the record that it gathers is the host's, whatever was negotiated
\* in its midst.
RecordsWhole ==
    feed = << >> => tnState = "Data" /\ record = building /\ answers = expected
=============================================================================
