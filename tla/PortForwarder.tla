--------------------------- MODULE PortForwarder ---------------------------
(***************************************************************************)
(* Port forwarding (class ForwardWorker) with the SOCKS5 handshake         *)
(* (Socks5.cpp).  One thread holds a pipe per client: what the client says *)
(* goes to a channel of the SSH session and what the channel brings goes   *)
(* to the client, once a client of a SOCKS port has asked for its target.  *)
(* Half a greeting or request is a message of its own here, since either   *)
(* may come in pieces.                                                     *)
(***************************************************************************)
EXTENDS Integers, Sequences, SequencesExt

CONSTANTS
    Clients,  \* programs that connect
    Units,    \* bound: pieces of data per client and direction
    Window    \* pieces that a target takes before it has read some

VARIABLES
    thread,  \* the forwarder's thread; "undefined" once it has used a deleted pipe
    script,  \* per client: what it is going to say
    said,    \* per client: how much of it it has said
    left,    \* clients that have closed their connection
    pipe,    \* per client: Pipe, its socket and its channel
    batch,   \* per client: pieces read from its socket that pump() is writing
    room     \* per client: pieces that the window of its channel still takes

writeVars == <<batch, room>>
forwardVars == <<thread, script, said, left, pipe, writeVars>>

Piece(of, number) == [of |-> of, number |-> number]
Greeting == <<Piece("greeting", 1), Piece("greeting", 2)>>
Request == <<Piece("request", 1), Piece("request", 2)>>
Bad == <<Piece("bad", 1)>>
DataUpTo(n) == [i \in 1 .. n |-> Piece("data", i)]
Reply(of) == Piece(of, 0)

\* A client of a local port only has data; one of a SOCKS port may ask for
\* what the proxy does not do.
Scripts == {DataUpTo(Units), Greeting \o Request \o DataUpTo(Units), Bad, Greeting \o Bad}
IsLocal(c) == script[c] = DataUpTo(Units)

\* step: "absent", the stages of the handshake, "relay" with a channel, "closed".
NoPipe == [step |-> "absent", unread |-> << >>, socksBuf |-> << >>, unsent |-> << >>,
           got |-> << >>, target |-> << >>, incoming |-> << >>, produced |-> 0, eof |-> FALSE]

Init ==
    /\ thread = "new" /\ script \in [Clients -> Scripts] /\ said = [c \in Clients |-> 0]
    /\ left = {} /\ pipe = [c \in Clients |-> NoPipe]
    /\ batch = [c \in Clients |-> 0] /\ room = [c \in Clients |-> Window]

Running == thread = "running"
\* A write that waits for its window holds the thread: no timer, no signal, no other pipe.
NoWrite == \A c \in Clients : batch[c] = 0
AtRest == Running /\ NoWrite
Live(p) == p.step \notin {"absent", "closed"}
Tell(p, reply) == [p EXCEPT !.unsent = Append(@, Reply(reply))]

\* closePipe() deletes the socket: what it has not sent yet may go with it.
Closings(p) ==
    {[p EXCEPT !.step = "closed", !.unsent = << >>, !.unread = << >>, !.got = @ \o told] :
        told \in {<< >>, p.unsent}}

-----------------------------------------------------------------------------
(* The handshake. *)

Rest_Kept(p) == p.socksBuf
\* What follows the greeting in socksBuf.
Rest(p) == SubSeq(p.socksBuf, 3, Len(p.socksBuf))

Buffered(p) == [p EXCEPT !.socksBuf = @ \o p.unread, !.unread = << >>]
Incomplete(p, what) == IsStrictPrefix(p.socksBuf, what)

Greeted(p) ==
    IF Incomplete(p, Greeting) THEN {p}
    ELSE IF IsPrefix(Greeting, p.socksBuf)
         THEN {[Tell(p, "accepted") EXCEPT !.step = "request", !.socksBuf = Rest(p)]}
         ELSE Closings(Tell(p, "refused"))

\* The channel is open; what else socksBuf holds is forgotten.
Requested(p) ==
    IF Incomplete(p, Request) THEN {p}
    ELSE IF IsPrefix(Request, p.socksBuf)
         THEN {[Tell(p, "succeeded") EXCEPT !.step = "relay", !.socksBuf = << >>]}
         ELSE Closings(Tell(p, "unsupported"))

HandleSocks(p) ==
    UNION {IF q.step = "request" THEN Requested(q) ELSE {q} :
              q \in IF p.step = "greeting" THEN Greeted(Buffered(p)) ELSE {Buffered(p)}}

-----------------------------------------------------------------------------
(* The relay. *)

ToChannel(p) == [p EXCEPT !.target = Append(@, Head(p.unread)), !.unread = Tail(@)]

\* All that the channel holds; its end closes the pipe.
FromChannel(p) ==
    LET q == [p EXCEPT !.unsent = @ \o p.incoming, !.incoming = << >>]
    IN  IF p.eof THEN Closings(q) ELSE {q}

\* pump(), every 10 ms, for each pipe: the handshake; then what the socket has is
\* to be written, or the channel is read.  A pipe that the handshake has closed is
\* deleted, and read once more: if the memory still says that it has no channel,
\* the next one has its turn.
Pump(c) ==
    /\ AtRest /\ Live(pipe[c])
    /\ \E q \in IF pipe[c].step # "relay" /\ pipe[c].unread # << >>
                THEN HandleSocks(pipe[c]) ELSE {pipe[c]} :
          /\ thread' \in IF Live(q) THEN {thread} ELSE {thread, "undefined"}
          /\ IF q.step = "relay" /\ q.unread # << >>
               THEN pipe' = [pipe EXCEPT ![c] = q] /\ batch' = [batch EXCEPT ![c] = Len(q.unread)]
               ELSE /\ \E r \in IF q.step = "relay" THEN FromChannel(q) ELSE {q} :
                          pipe' = [pipe EXCEPT ![c] = r]
                    /\ UNCHANGED batch
    /\ UNCHANGED <<script, said, left, room>>

\* libssh2_channel_write() takes a piece if the window has room and is called again
\* and again until it does; after the last piece the channel is read.
Write(c) ==
    /\ Running /\ batch[c] > 0 /\ room[c] > 0
    /\ batch' = [batch EXCEPT ![c] = @ - 1] /\ room' = [room EXCEPT ![c] = @ - 1]
    /\ LET q == ToChannel(pipe[c]) IN
       \E r \in IF batch[c] = 1 THEN FromChannel(q) ELSE {q} : pipe' = [pipe EXCEPT ![c] = r]
    /\ UNCHANGED <<thread, script, said, left>>

\* A failed write, or no channel for a SOCKS request: the pipe is deleted and
\* then used, and what the program does next is not defined.
UseAfterClose ==
    /\ Running
    /\ \E c \in Clients : \/ batch[c] > 0
                          \/ AtRest /\ pipe[c].step = "request" /\ pipe[c].unread # << >>
    /\ thread' = "undefined" /\ UNCHANGED <<script, said, left, pipe, writeVars>>

-----------------------------------------------------------------------------
(* Events. *)

Run == /\ thread = "new" /\ thread' \in {"running", "failed"}
       /\ UNCHANGED <<script, said, left, pipe, writeVars>>

\* onNewConnection(): a local port's channel is opened at once, or the pipe is
\* closed.
Connected(c) ==
    /\ AtRest /\ pipe[c].step = "absent"
    /\ \E step \in IF IsLocal(c) THEN {"relay", "closed"} ELSE {"greeting"} :
          pipe' = [pipe EXCEPT ![c].step = step]
    /\ UNCHANGED <<thread, script, said, left, writeVars>>

Disconnected(c) ==
    /\ AtRest /\ c \in left /\ Live(pipe[c])
    /\ \E q \in Closings(pipe[c]) : pipe' = [pipe EXCEPT ![c] = q]
    /\ UNCHANGED <<thread, script, said, left, writeVars>>

\* The socket sends what was written to it.
Flush(c) ==
    /\ AtRest /\ Live(pipe[c]) /\ pipe[c].unsent # << >>
    /\ pipe' = [pipe EXCEPT ![c].got = @ \o pipe[c].unsent, ![c].unsent = << >>]
    /\ UNCHANGED <<thread, script, said, left, writeVars>>

Closed(p) == IF Live(p) THEN Closings(p) ELSE {p}

\* cleanup(), also from the destructor, which waits for the thread.
Shutdown ==
    /\ thread \in {"new", "running", "failed"} /\ NoWrite
    /\ thread' = "stopped"
    /\ pipe' \in {f \in [Clients -> UNION {Closed(pipe[c]) : c \in Clients}] :
                    \A c \in Clients : f[c] \in Closed(pipe[c])}
    /\ UNCHANGED <<script, said, left, writeVars>>

-----------------------------------------------------------------------------
(* The clients, which wait for a reply before they go on, and the targets. *)

Awaited(c) ==
    LET next == script[c][said[c] + 1]
    IN  CASE IsLocal(c) \/ said[c] < Len(Greeting) -> 0
          [] next.of = "data" -> 2
          [] OTHER -> 1

ClientSays(c) ==
    /\ Live(pipe[c]) /\ c \notin left /\ said[c] < Len(script[c])
    /\ Len(pipe[c].got) >= Awaited(c)
    /\ pipe' = [pipe EXCEPT ![c].unread = Append(@, script[c][said[c] + 1])]
    /\ said' = [said EXCEPT ![c] = @ + 1]
    /\ UNCHANGED <<thread, script, left, writeVars>>

ClientLeaves(c) ==
    /\ Live(pipe[c]) /\ left' = left \union {c}
    /\ UNCHANGED <<thread, script, said, pipe, writeVars>>

TargetSays(c) ==
    /\ pipe[c].step = "relay" /\ ~pipe[c].eof
    /\ \/ /\ pipe[c].produced < Units
          /\ pipe' = [pipe EXCEPT ![c].produced = @ + 1,
                                  ![c].incoming = Append(@, Piece("data", pipe[c].produced + 1))]
       \/ pipe' = [pipe EXCEPT ![c].eof = TRUE]
    /\ UNCHANGED <<thread, script, said, left, writeVars>>

\* It reads, and the window is extended, which a write that waits for it sees.
TargetReads(c) ==
    /\ pipe[c].step = "relay" /\ room[c] < Window
    /\ room' = [room EXCEPT ![c] = @ + 1]
    /\ UNCHANGED <<thread, script, said, left, pipe, batch>>

Next ==
    \/ Run \/ UseAfterClose \/ Shutdown
    \/ \E c \in Clients : \/ Pump(c) \/ Write(c) \/ Connected(c) \/ Disconnected(c) \/ Flush(c)
                          \/ ClientSays(c) \/ ClientLeaves(c) \/ TargetSays(c) \/ TargetReads(c)

\* Each round of the timer comes to each pipe, once no write holds the thread.
Fairness == \A c \in Clients : /\ SF_forwardVars(Pump(c)) /\ WF_forwardVars(Write(c))
                               /\ SF_forwardVars(Disconnected(c))

Spec == Init /\ [][Next]_forwardVars /\ Fairness

-----------------------------------------------------------------------------
(* Properties. *)

Replies(c) ==
    CASE IsLocal(c) -> << >>
      [] script[c] = Bad -> <<Reply("refused")>>
      [] script[c] = Greeting \o Bad -> <<Reply("accepted"), Reply("unsupported")>>
      [] OTHER -> <<Reply("accepted"), Reply("succeeded")>>

\* What a client has said after its handshake; a bad one never comes to data.
Handshake(c) == IF IsLocal(c) THEN << >> ELSE Greeting \o Request
DataSaid(c) == SubSeq(script[c], Len(Handshake(c)) + 1, said[c])

\* The target of a client hears its data in order and nothing of the handshake;
\* the client hears the replies to its handshake and then the target's data in
\* order, however both come in pieces and whoever closes: until the program has
\* used a pipe that it had deleted.
RelayInOrder ==
    thread # "undefined" =>
        \A c \in Clients :
            /\ IsPrefix(pipe[c].target, DataSaid(c))
            /\ IsPrefix(pipe[c].got, Replies(c) \o DataUpTo(pipe[c].produced))

\* If no target stops reading while a write waits for it, the pipe of a client that
\* leaves, or whose target ends, does not stay open while the forwarder runs.  One
\* target that does stops the whole forwarder.
TargetsRead == \A c \in Clients : []<>(batch[c] = 0 \/ room[c] > 0)
PipesEnd ==
    TargetsRead =>
        \A c \in Clients :
            (Live(pipe[c]) /\ (c \in left \/ (pipe[c].step = "relay" /\ pipe[c].eof)))
                ~> (~Live(pipe[c]) \/ ~Running)
=============================================================================
