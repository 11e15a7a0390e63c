-------------------------- MODULE TerminalSession --------------------------
(***************************************************************************)
(* An SSH terminal tab: the TerminalWidget on the GUI thread, which retries *)
(* a dropped connection with backoff, and the SshWorker on the thread of    *)
(* its SshConnection.  The two talk only by queued calls and signals, each  *)
(* in order.  A retry makes a new SshConnection, so worker and queues start *)
(* afresh; the widget's flags stay.                                        *)
(***************************************************************************)
EXTENDS Naturals, Sequences, SequencesExt

CONSTANTS
    Keys,      \* bound: keystrokes
    Outputs,   \* bound: pieces of output per connection
    Failures   \* bound: connections that fail or drop

VARIABLES
    connected,      \* TerminalWidget::m_connected
    autoReconnect,  \* m_autoReconnect
    userClosing,    \* m_userClosing
    reconnecting,   \* m_reconnecting
    exited,         \* m_remoteExitedCleanly
    delay,          \* m_reconnectDelayMs, in seconds
    timer,          \* is m_reconnectTimer active?
    closed,         \* the tab was closed: ~SshConnection waits for the thread
    calls,          \* calls posted to the worker
    signals,        \* signals posted to the widget
    worker,         \* the worker: "idle", "key" (asks the owner), "open", "down"
    writeBuf,       \* m_writeBuf
    host,           \* the server's end: "none", "shell", "exited", "dropped"
    unread,         \* output that the worker has not read
    produced,       \* how much the shell has put out
    typed, accepted, shown,  \* histories: keys typed, keys the channel took, output shown
    connections, failures    \* histories: connections made, connections that failed

widget == <<connected, autoReconnect, userClosing, reconnecting, exited, delay, timer>>
remote == <<host, unread, produced>>
vars == <<widget, closed, calls, signals, worker, writeBuf, remote,
          typed, accepted, shown, connections, failures>>

Call(op, arg) == [op |-> op, arg |-> arg]
Signal(op, arg) == [op |-> op, arg |-> arg]
Signals(ops) == [i \in 1 .. Len(ops) |-> Signal(ops[i], 0)]
Lesser(a, b) == IF a < b THEN a ELSE b

NewConnection ==
    /\ calls' = <<Call("start", 0)>>
    /\ signals' = << >>
    /\ worker' = "idle" /\ writeBuf' = << >>
    /\ host' = "none" /\ unread' = << >> /\ produced' = 0
    /\ accepted' = << >> /\ shown' = << >>
    /\ connections' = connections + 1

Init ==
    /\ connected = FALSE /\ autoReconnect = TRUE /\ userClosing = FALSE
    /\ reconnecting = FALSE /\ exited = FALSE /\ delay = 2 /\ timer = FALSE
    /\ closed = FALSE
    /\ calls = <<Call("start", 0)>> /\ signals = << >>
    /\ worker = "idle" /\ writeBuf = << >>
    /\ host = "none" /\ unread = << >> /\ produced = 0
    /\ typed = 0 /\ accepted = << >> /\ shown = << >>
    /\ connections = 1 /\ failures = 0

-----------------------------------------------------------------------------
(* The worker's slots. *)

Fails == failures < Failures /\ failures' = failures + 1

Takes(op) ==
    /\ calls # << >> /\ Head(calls).op = op
    /\ calls' = Tail(calls)

Emit(ops) == signals' = signals \o Signals(ops)

\* teardown(): whatever there was, the signal is emitted.
Teardown(ops) ==
    /\ worker' = "down"
    /\ Emit(Append(ops, "disconnected"))

StartOpens ==
    /\ Takes("start")
    /\ worker' = "key"
    /\ Emit(<<"hostKeyFingerprint">>)
    /\ UNCHANGED <<widget, closed, writeBuf, remote, typed, accepted, shown, connections, failures>>

\* No socket: an error, and no teardown.
StartUnreachable ==
    /\ Takes("start")
    /\ Fails
    /\ Emit(<<"errorOccurred">>)
    /\ UNCHANGED <<widget, closed, worker, writeBuf, remote, typed, accepted, shown, connections>>

StartFails ==
    /\ Takes("start")
    /\ Fails
    /\ Teardown(<<"errorOccurred">>)
    /\ UNCHANGED <<widget, closed, writeBuf, remote, typed, accepted, shown, connections>>

\* proceed(true) succeeds, or fails at the authentication or at the shell.
ProceedOpens ==
    /\ Takes("proceed") /\ worker = "key" /\ Head(calls).arg = 1
    /\ worker' = "open" /\ host' = "shell"
    /\ Emit(<<"connected">>)
    /\ UNCHANGED <<widget, closed, writeBuf, unread, produced, typed, accepted, shown,
                   connections, failures>>

ProceedFails ==
    /\ Takes("proceed") /\ worker = "key"
    /\ Fails
    /\ IF Head(calls).arg = 1
         THEN Teardown(<<"authenticationFailed">>) \/ Teardown(<<"errorOccurred">>)
         ELSE Teardown(<<"errorOccurred">>)
    /\ UNCHANGED <<widget, closed, writeBuf, remote, typed, accepted, shown, connections>>

ProceedTooLate ==
    /\ Takes("proceed") /\ worker # "key"
    /\ UNCHANGED <<widget, closed, signals, worker, writeBuf, remote, typed, accepted, shown,
                   connections, failures>>

\* flushWrite() leaves in the buffer what the channel does not take.
Left_Dropped(buf, n) == << >>
Left(buf, n) == SubSeq(buf, n + 1, Len(buf))

Flush(buf) ==
    \E n \in 0 .. (IF host = "shell" THEN Len(buf) ELSE 0) :
       /\ accepted' = accepted \o SubSeq(buf, 1, n)
       /\ writeBuf' = Left(buf, n)

FlushFails == writeBuf' = << >> /\ UNCHANGED accepted

QueueData ==
    /\ Takes("queueData")
    /\ LET buf == Append(writeBuf, Head(calls).arg) IN
       IF worker # "open"
         THEN UNCHANGED <<accepted, writeBuf, signals>>
         ELSE \/ Flush(buf) /\ UNCHANGED signals
              \/ host # "shell" /\ FlushFails /\ Emit(<<"errorOccurred">>)
    /\ UNCHANGED <<widget, closed, worker, remote, typed, shown, connections, failures>>

Stop ==
    /\ Takes("stop")
    /\ Teardown(<< >>)
    /\ UNCHANGED <<widget, closed, writeBuf, remote, typed, accepted, shown, connections, failures>>

\* What a drain of the channel posts: the output, then how the channel ended.
Posted(end) == [i \in 1 .. Len(unread) |-> Signal("dataReceived", unread[i])] \o Signals(end)

PumpReads ==
    /\ worker = "open" /\ host = "shell"
    /\ unread # << >> \/ writeBuf # << >>
    /\ Flush(writeBuf)
    /\ signals' = signals \o Posted(<< >>)
    /\ unread' = << >>
    /\ UNCHANGED <<widget, closed, calls, worker, host, produced, typed, shown, connections, failures>>

PumpSeesExit ==
    /\ worker = "open" /\ host = "exited"
    /\ worker' = "down"
    /\ Flush(writeBuf)
    /\ signals' = signals \o Posted(<<"remoteExited", "disconnected">>)
    /\ unread' = << >>
    /\ UNCHANGED <<widget, closed, calls, host, produced, typed, shown, connections, failures>>

\* A fatal read, or a keepalive that cannot be sent.
PumpSeesDrop ==
    /\ worker = "open" /\ host = "dropped"
    /\ Teardown(<< >>)
    /\ UNCHANGED <<widget, closed, calls, writeBuf, remote, typed, accepted, shown,
                   connections, failures>>

\* After quit() the thread ends between two slots; ~SshWorker tears down.
ThreadEnds ==
    /\ closed /\ worker # "ended"
    /\ worker' = "ended"
    /\ UNCHANGED <<widget, closed, calls, signals, writeBuf, remote, typed, accepted, shown,
                   connections, failures>>

Slots == StartOpens \/ StartUnreachable \/ StartFails \/ ProceedOpens \/ ProceedFails
         \/ ProceedTooLate \/ QueueData \/ Stop
Worker == worker # "ended" /\ (Slots \/ PumpReads \/ PumpSeesExit \/ PumpSeesDrop \/ ThreadEnds)

-----------------------------------------------------------------------------
(* The server's end. *)

Output ==
    /\ host = "shell" /\ worker = "open" /\ produced < Outputs
    /\ produced' = produced + 1 /\ unread' = Append(unread, produced')
    /\ UNCHANGED <<widget, closed, calls, signals, worker, writeBuf, host, typed, accepted, shown,
                   connections, failures>>

Exit ==
    /\ host = "shell"
    /\ host' = "exited"
    /\ UNCHANGED <<widget, closed, calls, signals, worker, writeBuf, unread, produced,
                   typed, accepted, shown, connections, failures>>

Drop ==
    /\ host = "shell" /\ Fails
    /\ host' = "dropped"
    /\ UNCHANGED <<widget, closed, calls, signals, worker, writeBuf, unread, produced,
                   typed, accepted, shown, connections>>

Server == Output \/ Exit \/ Drop

-----------------------------------------------------------------------------
(* The widget. *)

Handles(op) ==
    /\ ~closed
    /\ signals # << >> /\ Head(signals).op = op
    /\ signals' = Tail(signals)

ShowData ==
    /\ Handles("dataReceived")
    /\ shown' = Append(shown, Head(signals).arg)
    /\ UNCHANGED <<widget, closed, calls, worker, writeBuf, remote, typed, accepted,
                   connections, failures>>

\* The verifier knows the key, or asks in a modal dialog.
OnHostKey ==
    /\ Handles("hostKeyFingerprint")
    /\ \E accept \in {0, 1} : calls' = Append(calls, Call("proceed", accept))
    /\ UNCHANGED <<widget, closed, worker, writeBuf, remote, typed, accepted, shown,
                   connections, failures>>

OnConnected ==
    /\ Handles("connected")
    /\ connected' = TRUE /\ reconnecting' = FALSE /\ delay' = 2
    /\ UNCHANGED <<autoReconnect, userClosing, exited, timer, closed, calls, worker, writeBuf,
                   remote, typed, accepted, shown, connections, failures>>

OnError ==
    /\ Handles("errorOccurred")
    /\ UNCHANGED <<widget, closed, calls, worker, writeBuf, remote, typed, accepted, shown,
                   connections, failures>>

OnAuthenticationFailed ==
    /\ Handles("authenticationFailed")
    /\ autoReconnect' = FALSE
    /\ UNCHANGED <<connected, userClosing, reconnecting, exited, delay, timer, closed, calls,
                   worker, writeBuf, remote, typed, accepted, shown, connections, failures>>

OnRemoteExited ==
    /\ Handles("remoteExited")
    /\ exited' = TRUE
    /\ UNCHANGED <<connected, autoReconnect, userClosing, reconnecting, delay, timer, closed,
                   calls, worker, writeBuf, remote, typed, accepted, shown, connections, failures>>

Retries == autoReconnect /\ ~userClosing /\ ~exited

\* scheduleReconnect(), or the end.
OnDisconnected ==
    /\ Handles("disconnected")
    /\ connected' = FALSE
    /\ IF Retries
         THEN reconnecting' = TRUE /\ timer' = TRUE /\ delay' = Lesser(2 * delay, 30)
         ELSE UNCHANGED <<reconnecting, timer, delay>>
    /\ UNCHANGED <<autoReconnect, userClosing, exited, closed, calls, worker, writeBuf, remote,
                   typed, accepted, shown, connections, failures>>

\* startSshConnection() from the timer.
Reconnect ==
    /\ ~closed /\ timer
    /\ timer' = FALSE
    /\ NewConnection
    /\ exited' = FALSE
    /\ UNCHANGED <<connected, autoReconnect, userClosing, reconnecting, delay, closed, typed, failures>>

Widget == ShowData \/ OnHostKey \/ OnConnected \/ OnError \/ OnAuthenticationFailed
          \/ OnRemoteExited \/ OnDisconnected \/ Reconnect

-----------------------------------------------------------------------------
(* The user. *)

Type ==
    /\ ~closed /\ typed < Keys
    /\ typed' = typed + 1
    /\ calls' = Append(calls, Call("queueData", typed'))
    /\ UNCHANGED <<widget, closed, signals, worker, writeBuf, remote, accepted, shown,
                   connections, failures>>

StopTimer_Kept == timer
StopTimer == FALSE

Pending(queue, op) == \E i \in DOMAIN queue : queue[i].op = op

\* disconnectSession(), at any time; again (a bound) if it has shown no effect.
DisconnectSession ==
    /\ ~closed
    /\ ~userClosing \/ (connected /\ ~Pending(calls, "stop") /\ ~Pending(signals, "disconnected"))
    /\ userClosing' = TRUE /\ timer' = StopTimer /\ reconnecting' = FALSE
    /\ calls' = IF connected THEN Append(calls, Call("stop", 0)) ELSE calls
    /\ UNCHANGED <<connected, autoReconnect, exited, delay, closed, signals, worker, writeBuf,
                   remote, typed, accepted, shown, connections, failures>>

\* The tab goes and ~SshConnection with it: a stop, and the end of the thread.
CloseTab ==
    /\ ~closed
    /\ closed' = TRUE
    /\ calls' = Append(calls, Call("stop", 0))
    /\ UNCHANGED <<widget, signals, worker, writeBuf, remote, typed, accepted, shown,
                   connections, failures>>

User == Type \/ DisconnectSession \/ CloseTab

Next == Worker \/ Server \/ Widget \/ User

Spec == Init /\ [][Next]_vars /\ WF_vars(Worker) /\ WF_vars(Widget)

-----------------------------------------------------------------------------

OneOf(ops) == [op : ops, arg : 0 .. Keys + Outputs + 1]

\* The types of the variables.
TypeOK ==
    /\ <<connected, autoReconnect, userClosing, reconnecting, exited, timer, closed>>
         \in BOOLEAN \X BOOLEAN \X BOOLEAN \X BOOLEAN \X BOOLEAN \X BOOLEAN \X BOOLEAN
    /\ delay \in {2, 4, 8, 16, 30}
    /\ calls \in Seq(OneOf({"start", "proceed", "queueData", "stop"}))
    /\ signals \in Seq(OneOf({"errorOccurred", "hostKeyFingerprint", "connected", "dataReceived",
                              "authenticationFailed", "remoteExited", "disconnected"}))
    /\ worker \in {"idle", "key", "open", "down", "ended"}
    /\ host \in {"none", "shell", "exited", "dropped"}
    /\ writeBuf \in Seq(1 .. Keys) /\ accepted \in Seq(1 .. Keys)
    /\ unread \in Seq(1 .. Outputs) /\ shown \in Seq(1 .. Outputs)
    /\ typed \in 0 .. Keys /\ produced \in 0 .. Outputs
    /\ failures \in 0 .. Failures /\ connections \in 1 .. Failures + 1

Consecutive(s) == \A i \in 1 .. Len(s) - 1 : s[i + 1] = s[i] + 1

\* A queue carries the numbers after "from" up to "to", each once and in order.
Carries(queue, what, from, to) ==
    LET carriers == {i \in DOMAIN queue : queue[i].op = what}
    IN  /\ {queue[i].arg : i \in carriers} = from + 1 .. to
        /\ \A i, j \in carriers : i < j => queue[i].arg < queue[j].arg

\* The keys that a connection's channel has taken and those still to be sent are
\* a run of what the user typed, up to the last one: congestion drops none and
\* reorders none (flushWrite(), queueData()).
KeysInOrder ==
    worker = "open" /\ host = "shell" =>
       LET taken == accepted \o writeBuf
       IN  \E n \in 0 .. typed :
              /\ Consecutive(taken) /\ (taken # << >> => Last(taken) = n)
              /\ Carries(calls, "queueData", n, typed)

\* When the widget learns that the shell ended, all its output is on the screen
\* (pumpIo() posts what it drained before it reports the end).
OutputComplete == exited => Len(shown) = produced /\ Consecutive(shown)

\* A new connection is made only after a drop, never after the user asked for a
\* disconnect, the shell exited or the credentials were rejected, and nothing of
\* the one before is left to lose.
WantedRetry ==
    connections' > connections =>
        /\ ~userClosing /\ ~exited /\ autoReconnect
        /\ worker = "down" /\ ~connected

\* An open session that drops is tried again unless the user closes it.
DropRetried ==
    \A n \in 1 .. Failures :
       connections = n /\ worker = "open" /\ host = "dropped"
         ~> connections > n \/ userClosing \/ closed

\* "a retry is pending or in flight"; what m_reconnecting claims.
RetryPending ==
    reconnecting /\ autoReconnect /\ ~closed =>
        timer \/ calls # << >> \/ signals # << >> \/ worker \in {"key", "open"}
=============================================================================
