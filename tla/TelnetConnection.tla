-------------------------- MODULE TelnetConnection --------------------------
(***************************************************************************)
(* A telnet terminal: the byte-by-byte decoder of TelnetConnection with its *)
(* answers to option negotiation, and a server by the book (RFC 854), which *)
(* asks for options when it likes and answers only what changes them.       *)
(* Chunks do not matter to a decoder that keeps all its state in members,   *)
(* so bytes come one at a time.                                            *)
(***************************************************************************)
EXTENDS Naturals, Sequences, SequencesExt

CONSTANTS
    Requests,  \* bound: options the server asks for
    Texts,     \* bound: text bytes, of both directions
    Options,   \* the options the server asks for, of AllOptions
    Resizes,   \* bound: window sizes sent
    TextBytes  \* bytes of texts and low bytes of sizes: a letter, a command's, 0xFF

AllOptions == {"ECHO", "SGA", "TTYPE", "NAWS", "OTHER"}

VARIABLES
    state,      \* m_state
    verb,       \* m_verb
    subBuffer,  \* m_subBuffer
    size,       \* m_cols and m_rows
    bare,       \* history: a size with a byte 255 has been sent
    toClient, toServer,   \* the two byte streams
    shown, typed,         \* histories: text delivered, text typed
    sentText, heardText,  \* the server's: text sent, text decoded
    serverState,          \* the server's decoder
    local, remote,        \* the server's view: options of its own, of the client
    requests, resizes

decoder == <<state, verb, subBuffer>>
window == <<size, bare>>
view == <<local, remote>>
vars == <<decoder, window, toClient, toServer, shown, typed, sentText, heardText, serverState,
          view, requests, resizes>>

\* The low bytes of a size; the high ones are small.  "0" is any byte that is no
\* command's, as of the 80 columns and 24 rows to begin with.
FirstSize == [cols |-> "0", rows |-> "0"]
Sizes == {FirstSize} \cup [cols : TextBytes, rows : TextBytes]

\* A terminal may be resized before it is connected.
Init ==
    /\ bare = FALSE /\ size \in Sizes /\ resizes \in 0 .. Resizes
    /\ resizes = 0 => size = FirstSize
    /\ state = "Data" /\ verb = "none" /\ subBuffer = << >>
    /\ toClient = << >> /\ toServer = << >>
    /\ shown = << >> /\ typed = << >> /\ sentText = << >> /\ heardText = << >>
    /\ serverState = << >>
    /\ local = [o \in Options |-> "no"] /\ remote = [o \in Options |-> "no"]
    /\ requests = 0

-----------------------------------------------------------------------------
(* TelnetConnection. *)

Verbs == {"WILL", "WONT", "DO", "DONT"}

Escaped_Never(byte) == <<byte>>
Escaped(byte) == IF byte = "IAC" THEN <<"IAC", "IAC">> ELSE <<byte>>

\* A byte of the size that is 255 is not doubled, and ends or hides what follows.
Naws(s) == <<"IAC", "SB", "NAWS", "0", s.cols, "0", s.rows, "IAC", "SE">>
Marred(s) == s.cols = "IAC" \/ s.rows = "IAC"
TerminalType == <<"IAC", "SB", "TTYPE", "IS", "IAC", "SE">>

SendData ==
    /\ Len(typed) + Len(sentText) < Texts
    /\ \E byte \in TextBytes :
          typed' = Append(typed, byte) /\ toServer' = toServer \o Escaped(byte)
    /\ UNCHANGED <<decoder, window, toClient, shown, sentText, heardText, serverState, view, requests, resizes>>

Resize ==
    /\ resizes < Resizes
    /\ size' \in Sizes /\ bare' = (bare \/ Marred(size'))
    /\ resizes' = resizes + 1 /\ toServer' = toServer \o Naws(size')
    /\ UNCHANGED <<decoder, toClient, shown, typed, sentText, heardText, serverState, view, requests>>

Supported == {"TTYPE", "NAWS", "SGA"}
Wanted == {"ECHO", "SGA"}

Answer(v, option) ==
    CASE v = "DO"   -> <<"IAC", IF option \in Supported THEN "WILL" ELSE "WONT", option>>
                         \o (IF option = "NAWS" THEN Naws(size) ELSE << >>)
      [] v = "WILL" -> <<"IAC", IF option \in Wanted THEN "DO" ELSE "DONT", option>>
      [] v = "DONT" -> <<"IAC", "WONT", option>>
      [] v = "WONT" -> <<"IAC", "DONT", option>>

Byte == Head(toClient)
Arrives(s) == state = s /\ toClient # << >> /\ toClient' = Tail(toClient)

Deliver(byte) == shown' = Append(shown, byte)

OnData ==
    /\ Arrives("Data")
    /\ IF Byte = "IAC" THEN state' = "Iac" /\ UNCHANGED shown
                       ELSE Deliver(Byte) /\ UNCHANGED state
    /\ UNCHANGED <<verb, subBuffer, toServer>>

OnIac ==
    /\ Arrives("Iac")
    /\ \/ Byte = "IAC" /\ Deliver(Byte) /\ state' = "Data" /\ UNCHANGED <<verb, subBuffer>>
       \/ Byte = "SB" /\ subBuffer' = << >> /\ state' = "SubOption" /\ UNCHANGED <<verb, shown>>
       \/ Byte \in Verbs /\ verb' = Byte /\ state' = "Verb" /\ UNCHANGED <<subBuffer, shown>>
       \/ /\ Byte \notin Verbs \cup {"IAC", "SB"}
          /\ state' = "Data" /\ UNCHANGED <<verb, subBuffer, shown>>
    /\ UNCHANGED toServer

OnVerb ==
    /\ Arrives("Verb")
    /\ toServer' = toServer \o Answer(verb, Byte)
    /\ bare' = (bare \/ (verb = "DO" /\ Byte = "NAWS" /\ Marred(size)))
    /\ state' = "Data"
    /\ UNCHANGED <<verb, subBuffer, shown>>

OnSubOption ==
    /\ Arrives("SubOption")
    /\ subBuffer' = Append(subBuffer, Byte) /\ state' = "SubData"
    /\ UNCHANGED <<verb, shown, toServer>>

OnSubData ==
    /\ Arrives("SubData")
    /\ IF Byte = "IAC" THEN state' = "SubIac" /\ UNCHANGED subBuffer
                       ELSE subBuffer' = Append(subBuffer, Byte) /\ UNCHANGED state
    /\ UNCHANGED <<verb, shown, toServer>>

AfterSub == "Data"

OnSubIac ==
    /\ Arrives("SubIac")
    /\ IF Byte = "SE"
         THEN /\ state' = AfterSub /\ UNCHANGED subBuffer
              /\ toServer' = IF subBuffer # << >> /\ Head(subBuffer) = "TTYPE"
                               THEN toServer \o TerminalType ELSE toServer
         ELSE /\ subBuffer' = subBuffer \o <<"IAC", Byte>>
              /\ state' = "SubData" /\ UNCHANGED toServer
    /\ UNCHANGED <<verb, shown>>

ProcessIncoming ==
    /\ \/ OnVerb
       \/ (OnData \/ OnIac \/ OnSubOption \/ OnSubData \/ OnSubIac) /\ UNCHANGED bare
    /\ UNCHANGED <<size, typed, sentText, heardText, serverState, view, requests, resizes>>

-----------------------------------------------------------------------------
(* The server.  It decodes whole commands: serverState is what it has of one. *)
(* A subnegotiation ends for it at the first 255, SE after a byte that is not *)
(* 255; another 255 in it is data.                                            *)

ServerText ==
    /\ Len(typed) + Len(sentText) < Texts
    /\ \E byte \in TextBytes :
          /\ sentText' = Append(sentText, byte)
          /\ toClient' = toClient \o (IF byte = "IAC" THEN <<"IAC", "IAC">> ELSE <<byte>>)
    /\ UNCHANGED <<decoder, window, toServer, shown, typed, heardText, serverState, view, requests, resizes>>

Asks(o, v) == toClient' = toClient \o <<"IAC", v, o>>

\* It turns an option of either side on or off; one request at a time for each.
ServerRequest ==
    /\ requests < Requests /\ requests' = requests + 1
    /\ \E o \in Options :
       \/ local[o] = "no" /\ local' = [local EXCEPT ![o] = "wantYes"] /\ Asks(o, "WILL") /\ UNCHANGED remote
       \/ local[o] = "yes" /\ local' = [local EXCEPT ![o] = "wantNo"] /\ Asks(o, "WONT") /\ UNCHANGED remote
       \/ remote[o] = "no" /\ remote' = [remote EXCEPT ![o] = "wantYes"] /\ Asks(o, "DO") /\ UNCHANGED local
       \/ remote[o] = "yes" /\ remote' = [remote EXCEPT ![o] = "wantNo"] /\ Asks(o, "DONT") /\ UNCHANGED local
    /\ UNCHANGED <<decoder, window, toServer, shown, typed, sentText, heardText, serverState, resizes>>

ServerSub ==
    /\ "TTYPE" \in Options /\ remote["TTYPE"] = "yes"
    /\ requests < Requests /\ requests' = requests + 1
    /\ toClient' = toClient \o <<"IAC", "SB", "TTYPE", "SEND", "IAC", "SE">>
    /\ UNCHANGED <<decoder, window, toServer, shown, typed, sentText, heardText, serverState, view, resizes>>

\* What a verb of the client does to the server's view of one side's option.
Changed(v, mine, o) ==
    CASE v \in {"DO", "WILL"} -> [mine EXCEPT ![o] = IF @ = "wantYes" THEN "yes" ELSE @]
      [] OTHER -> [mine EXCEPT ![o] = IF @ = "wantNo" THEN "no"
                                       ELSE IF @ = "wantYes" THEN "no" ELSE @]

Complete(bytes) ==
    \/ Len(bytes) = 1 /\ bytes[1] # "IAC"
    \/ Len(bytes) = 2 /\ bytes[2] \notin Verbs \cup {"SB"}
    \/ Len(bytes) = 3 /\ bytes[2] \in Verbs
    \/ /\ Len(bytes) > 3 /\ bytes[Len(bytes)] = "SE"
       /\ bytes[Len(bytes) - 1] = "IAC" /\ bytes[Len(bytes) - 2] # "IAC"

ServerReads ==
    /\ toServer # << >> /\ toServer' = Tail(toServer)
    /\ LET bytes == Append(serverState, Head(toServer)) IN
       IF ~Complete(bytes)
         THEN serverState' = bytes /\ UNCHANGED <<heardText, view>>
         ELSE /\ serverState' = << >>
              /\ heardText' = IF Len(bytes) < 3 THEN Append(heardText, Last(bytes)) ELSE heardText
              /\ IF Len(bytes) # 3 THEN UNCHANGED view
                 ELSE IF bytes[2] \in {"DO", "DONT"}
                   THEN local' = Changed(bytes[2], local, bytes[3]) /\ UNCHANGED remote
                   ELSE remote' = Changed(bytes[2], remote, bytes[3]) /\ UNCHANGED local
    /\ UNCHANGED <<decoder, window, toClient, shown, typed, sentText, requests, resizes>>

Next == SendData \/ Resize \/ ProcessIncoming \/ ServerText \/ ServerRequest \/ ServerSub \/ ServerReads

Spec == Init /\ [][Next]_vars /\ WF_vars(ProcessIncoming) /\ WF_vars(ServerReads)

-----------------------------------------------------------------------------

\* The types of the variables.
TypeOK ==
    /\ state \in {"Data", "Iac", "Verb", "SubOption", "SubData", "SubIac"}
    /\ verb \in Verbs \cup {"none"}
    /\ Len(subBuffer) \in 0 .. 2 /\ size \in Sizes /\ bare \in BOOLEAN
    /\ shown \in Seq(TextBytes) /\ typed \in Seq(TextBytes)
    /\ sentText \in Seq(TextBytes) /\ (~bare => heardText \in Seq(TextBytes))
    /\ local \in [Options -> {"no", "yes", "wantYes", "wantNo"}]
    /\ remote \in [Options -> {"no", "yes", "wantYes", "wantNo"}]
    /\ requests \in 0 .. Requests /\ resizes \in 0 .. Resizes

\* Text comes through whole in both directions, whatever bytes it has and
\* whatever is negotiated between them; what is typed does, until a window with
\* 255 columns or rows has told its size.
TextIntact ==
    /\ IsPrefix(shown, sentText) /\ (toClient = << >> => shown = sentText)
    /\ ~bare => IsPrefix(heardText, typed) /\ (toServer = << >> => heardText = typed)

\* Whatever the server turns on or off, it comes to have an answer for every
\* option, and the answers to answers come to an end, unless such a size hides
\* the answers from it.
Settled == \A o \in Options : local[o] \in {"yes", "no"} /\ remote[o] \in {"yes", "no"}
OptionsSettle == ~Settled ~> bare \/ (Settled /\ toClient = << >> /\ toServer = << >>)
=============================================================================
