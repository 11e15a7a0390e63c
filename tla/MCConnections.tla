--------------------------- MODULE MCConnections ---------------------------
(***************************************************************************)
(* The program at the other end of a network, for TLC: an SSH terminal tab, *)
(* a transfer of the TFTP server, a telnet terminal, a forwarded port.  A   *)
(* behaviour is one of the machines; the variables of the others keep one  *)
(* value.                                                                  *)
(***************************************************************************)
EXTENDS Naturals, Sequences

CONSTANTS
    Keys, Outputs, Failures,                \* terminal
    Blocks, Width, MaxRetries, Faults,      \* TFTP
    Requests, Texts, Options, Resizes, TextBytes,  \* telnet
    Clients, Units, Window                  \* port forwarding

ASSUME BoundsAssumption ==
    /\ Keys \in Nat /\ Outputs \in Nat /\ Failures \in Nat
    /\ Blocks \in Nat \ {0} /\ MaxRetries \in Nat /\ Faults \in Nat
    /\ Width \in Nat /\ Width > Faults + 1
    /\ Requests \in Nat /\ Texts \in Nat /\ Resizes \in Nat /\ Units \in Nat
    /\ Window \in Nat \ {0}
    /\ Options \subseteq {"ECHO", "SGA", "TTYPE", "NAWS", "OTHER"}
    /\ TextBytes \subseteq {"x", "SE", "IAC"}

VARIABLES
    op,  \* the machine
    timer, shown, typed, toServer, toClient,
    connected, autoReconnect, userClosing, reconnecting, exited, delay, closed, calls, signals,
    worker, writeBuf, host, unread, produced, accepted, connections, failures,
    writing, block, last, retries, done, diskOk, copy,
    peerBlock, peerLast, peerRetries, peerDone, faults,
    state, verb, subBuffer, size, bare, sentText, heardText, serverState, local, remote, requests,
    resizes, thread, script, said, left, pipe, batch, room

Terminal == INSTANCE TerminalSession
Tftp     == INSTANCE TftpTransfer
Telnet   == INSTANCE TelnetConnection
Forward  == INSTANCE PortForwarder

terminalVars == <<connected, autoReconnect, userClosing, reconnecting, exited, delay, closed, calls,
                  signals, worker, writeBuf, host, unread, produced, accepted, connections, failures>>
tftpVars == <<writing, block, last, retries, done, diskOk, copy,
              peerBlock, peerLast, peerRetries, peerDone, faults>>
telnetVars == <<state, verb, subBuffer, size, bare, sentText, heardText, serverState, local, remote,
                requests, resizes>>
forwardVars == <<thread, script, said, left, pipe, batch, room>>
textVars == <<shown, typed>>
wireVars == <<toServer, toClient>>
vars == <<op, timer, textVars, wireVars, terminalVars, tftpVars, telnetVars,
          forwardVars>>

NoTerminal ==
    /\ connected = FALSE /\ autoReconnect = FALSE /\ userClosing = FALSE /\ reconnecting = FALSE
    /\ exited = FALSE /\ delay = 0 /\ closed = FALSE /\ calls = << >> /\ signals = << >>
    /\ worker = "off" /\ writeBuf = << >> /\ host = "off" /\ unread = << >> /\ produced = 0
    /\ accepted = << >> /\ connections = 0 /\ failures = 0
NoTftp ==
    /\ writing = FALSE /\ block = 0 /\ last = 0 /\ retries = 0 /\ done = "off" /\ diskOk = FALSE
    /\ copy = << >> /\ peerBlock = 0 /\ peerLast = 0 /\ peerRetries = 0 /\ peerDone = FALSE
    /\ faults = 0
NoTelnet ==
    /\ local = [o \in Options |-> "off"] /\ remote = local
    /\ state = "off" /\ verb = "off" /\ subBuffer = << >> /\ sentText = << >> /\ heardText = << >>
    /\ size = "off" /\ bare = FALSE /\ serverState = << >> /\ requests = 0 /\ resizes = 0
NoForward == /\ thread = "off" /\ script = << >> /\ said = << >> /\ left = {}
             /\ pipe = [c \in Clients |-> Forward!NoPipe]
             /\ batch = [c \in Clients |-> 0] /\ room = batch

Init ==
    \/ /\ op = "terminal" /\ Terminal!Init /\ NoTftp /\ NoTelnet /\ NoForward
       /\ toServer = << >> /\ toClient = << >>
    \/ /\ op = "tftp" /\ Tftp!Init /\ NoTerminal /\ NoTelnet /\ NoForward
       /\ shown = << >> /\ typed = << >>
    \/ op = "telnet" /\ Telnet!Init /\ NoTerminal /\ NoTftp /\ NoForward /\ timer = FALSE
    \/ /\ op = "forward" /\ Forward!Init /\ NoTerminal /\ NoTftp /\ NoTelnet /\ timer = FALSE
       /\ shown = << >> /\ typed = << >> /\ toServer = << >> /\ toClient = << >>

Terminals(A) == op = "terminal" /\ A /\ UNCHANGED <<op, wireVars, tftpVars, telnetVars, forwardVars>>
Tftps(A) == op = "tftp" /\ A /\ UNCHANGED <<op, textVars, terminalVars, telnetVars, forwardVars>>
Telnets(A) == op = "telnet" /\ A /\ UNCHANGED <<op, timer, terminalVars, tftpVars, forwardVars>>
Forwards(A) == op = "forward" /\ A
               /\ UNCHANGED <<op, timer, textVars, wireVars, terminalVars, tftpVars, telnetVars>>

Next == \/ Terminals(Terminal!Next) \/ Tftps(Tftp!Next) \/ Telnets(Telnet!Next)
        \/ Forwards(Forward!Next)

Spec ==
    /\ Init /\ [][Next]_vars
    /\ WF_vars(Terminals(Terminal!Worker)) /\ WF_vars(Terminals(Terminal!Widget))
    /\ WF_vars(Tftps(Tftp!OnTimeout))
    /\ WF_vars(Telnets(Telnet!ProcessIncoming)) /\ WF_vars(Telnets(Telnet!ServerReads))
    /\ \A c \in Clients : /\ SF_vars(Forwards(Forward!Pump(c)))
                         /\ WF_vars(Forwards(Forward!Write(c)))
                         /\ SF_vars(Forwards(Forward!Disconnected(c)))

-----------------------------------------------------------------------------
(* The properties of the machines, each of the one that runs. *)

\* The keys that a connection takes are a run of those typed, and the output of
\* a shell that exits is on the screen when its end is known.
TerminalText ==
    op = "terminal" => Terminal!TypeOK /\ Terminal!KeysInOrder /\ Terminal!OutputComplete

\* A connection is tried again only after a drop that nobody asked for.
WantedRetry == [][op = "terminal" => Terminal!WantedRetry]_vars

\* A TFTP transfer that ends well has copied the file.
CorrectTransfer == op = "tftp" => Tftp!TypeOK /\ Tftp!CorrectTransfer

\* Telnet text comes through whole in both directions.
TextIntact == op = "telnet" => Telnet!TypeOK /\ Telnet!TextIntact

\* A forwarded port relays each client's data and nothing else.
RelayInOrder == op = "forward" => Forward!RelayInOrder

\* A dropped session is tried again, a TFTP transfer ends, a telnet option is
\* settled, a forwarded client that leaves is let go.
Progress ==
    /\ op = "terminal" => Terminal!DropRetried
    /\ op = "tftp" => Tftp!TransferEnds
    /\ op = "telnet" => Telnet!OptionsSettle
    /\ op = "forward" => Forward!PipesEnd
=============================================================================
