----------------------------- MODULE SftpSession -----------------------------
(***************************************************************************)
(* One transfer session: the facade the GUI thread calls (SftpSession) and *)
(* the worker object living on its own QThread (SftpWorker).  Every call   *)
(* of the facade is a queued invocation: it appends an event to the        *)
(* worker's event queue and returns.  The worker's loop takes events one   *)
(* by one; the slot pump() runs a whole transfer before it returns, so     *)
(* while a transfer is under way no other slot of the worker runs.         *)
(*                                                                         *)
(* m_queueMutex is not modelled: only slots of the worker thread take it.  *)
(* A transfer is a number of chunks, in one or two stages; how the engine  *)
(* moves a chunk is the subject of DownloadFile and its neighbours.        *)
(***************************************************************************)
EXTENDS Naturals, Sequences, FiniteSets

CONSTANTS
    MaxItems,  \* bound: transfers the user enqueues
    MaxPosts,  \* bound: other calls the user makes
    Kinds,     \* the kinds of transfer the user enqueues
    Requests,  \* the remote operations the user asks for
    Chunks,    \* chunks in one stage of a transfer
    Retries    \* TERMSYNC_SSH_CONNECT_RETRIES

AllKinds == {"fileDown", "fileUp", "dirDown", "dirUp"}
AllRequests == {"connect", "sudoOn", "sudoOff", "list", "mkdir", "remove",
                "rename", "chmod", "syncListing"}

ASSUME ConstantsAssumption ==
    /\ MaxItems \in Nat
    /\ MaxPosts \in Nat
    /\ Kinds \subseteq AllKinds
    /\ Requests \subseteq AllRequests
    /\ Chunks \in Nat
    /\ Retries \in Nat

VARIABLES
    gui,         \* "open"; "waiting" in the destructor; "closed"
    nextId,      \* m_nextId
    posts,       \* calls made so far, other than enqueue
    asks,        \* remote operations asked for so far
    events,      \* the worker thread's posted-event queue
    pass,        \* events left in the dispatcher's current pass
    pc,          \* what the worker thread is doing
    queue,       \* m_queue
    cancelled,   \* m_cancelled
    activeId,    \* m_activeId
    cancelFlag,  \* m_cancelFlag
    pauseFlag,   \* m_pauseFlag
    sudo,        \* m_sudo
    attempt,     \* doConnect's loop counter
    job,         \* the transfer under way: its kind, route, stage and chunks left
    temp,        \* does a temporary of the last started transfer exist?
    finished,    \* the transferFinished signals, in the order emitted
    answers,     \* the requests answered by a signal, in the order emitted
    cancelAsked, \* history: ids the user has asked to cancel
    stopAsk,     \* history: what the user wants of the transfer under way
    overrun      \* history: chunks moved since the user asked it to stop

guiVars     == <<gui, nextId, posts, asks>>
flagVars    == <<cancelFlag, pauseFlag>>
queueVars   == <<queue, cancelled, activeId>>
jobVars     == <<job, temp>>
outVars     == <<finished, answers>>
historyVars == <<cancelAsked, stopAsk, overrun>>
vars == <<guiVars, events, pass, pc, queueVars, flagVars, sudo, attempt,
          jobVars, outVars, historyVars>>

Ids == 1 .. MaxItems

Event(op, id, kind) == [op |-> op, id |-> id, kind |-> kind]
PumpEvent == Event("pump", 0, "none")

\* m_busy: pump() holds the worker thread from start to end of a transfer.
busy == pc = "transfer"

NoJob == [kind |-> "none", sudo |-> FALSE, stage |-> 0, left |-> 0]

Init ==
    /\ gui = "open" /\ nextId = 1 /\ posts = 0 /\ asks = 0
    /\ events = << >> /\ pass = 0 /\ pc = "loop"
    /\ queue = << >> /\ cancelled = {} /\ activeId = 0
    /\ cancelFlag = FALSE /\ pauseFlag = FALSE
    /\ sudo = FALSE /\ attempt = 0
    /\ job = NoJob /\ temp = FALSE
    /\ finished = << >> /\ answers = << >>
    /\ cancelAsked = {} /\ stopAsk = "none" /\ overrun = 0

-----------------------------------------------------------------------------
(* The facade, on the GUI thread. *)

Post(e) == events' = Append(events, e)

\* enqueue(), and the bulk calls that build a BulkDir item and call it.
Enqueue(kind) ==
    /\ gui = "open" /\ nextId \in Ids
    /\ nextId' = nextId + 1
    /\ Post(Event("enqueue", nextId, kind))
    /\ UNCHANGED <<gui, posts, asks, pass, pc, queueVars, flagVars, sudo, attempt,
                   jobVars, outVars, historyVars>>

\* A call other than enqueue, within the bound.
Calls == /\ gui = "open" /\ posts < MaxPosts
         /\ posts' = posts + 1
         /\ UNCHANGED <<gui, nextId, pass, pc, queueVars, flagVars, sudo, attempt,
                        jobVars, outVars>>

\* connectToHost(), listDirectory(), ..., setSudo(): answered by a signal.
Request(op) ==
    /\ Calls
    /\ asks' = asks + 1
    /\ Post(Event(op, asks', "none"))
    /\ UNCHANGED historyVars

CancelItem(id) ==
    /\ Calls /\ id < nextId
    /\ Post(Event("cancel", id, "none"))
    /\ cancelAsked' = cancelAsked \union {id}
    /\ stopAsk' = IF id = activeId THEN "cancel" ELSE stopAsk
    /\ UNCHANGED <<asks, overrun>>

CancelAll ==
    /\ Calls
    /\ Post(Event("cancelAll", 0, "none"))
    /\ cancelAsked' = cancelAsked \union 1 .. (nextId - 1)
    /\ stopAsk' = IF busy THEN "cancel" ELSE stopAsk
    /\ UNCHANGED <<asks, overrun>>

PauseItem(id) ==
    /\ Calls /\ id < nextId
    /\ Post(Event("pause", id, "none"))
    /\ stopAsk' = IF id = activeId /\ stopAsk = "none" THEN "pause" ELSE stopAsk
    /\ UNCHANGED <<asks, cancelAsked, overrun>>

ResumeItem(id) ==
    /\ Calls /\ id < nextId
    /\ Post(Event("resume", id, "none"))
    /\ stopAsk' = IF id = activeId /\ stopAsk = "pause" THEN "none" ELSE stopAsk
    /\ overrun' = IF id = activeId /\ stopAsk = "pause" THEN 0 ELSE overrun
    /\ UNCHANGED <<asks, cancelAsked>>

\* ~SftpSession(): quit() the loop, then wait() for the thread.
Destroy ==
    /\ gui = "open"
    /\ gui' = "waiting"
    /\ UNCHANGED <<nextId, posts, asks, events, pass, pc, queueVars, flagVars, sudo,
                   attempt, jobVars, outVars, historyVars>>

User == \/ \E k \in Kinds : Enqueue(k)
        \/ \E r \in Requests : Request(r)
        \/ \E id \in Ids : CancelItem(id) \/ PauseItem(id) \/ ResumeItem(id)
        \/ CancelAll
        \/ Destroy

-----------------------------------------------------------------------------
(***************************************************************************)
(* The worker thread's event loop (Qt's, as QThread::exec() runs it): a    *)
(* pass delivers the events posted before it began, and the request to     *)
(* quit is looked at between passes.                                       *)
(***************************************************************************)
quit == gui # "open"

StartPass ==
    /\ pc = "loop" /\ pass = 0 /\ ~quit
    /\ events # << >>
    /\ pass' = Len(events)
    /\ UNCHANGED <<guiVars, events, pc, queueVars, flagVars, sudo, attempt, jobVars,
                   outVars, historyVars>>

MayStop_WhenDrained == pass = 0 /\ events = << >>
MayStop == pass = 0

\* exec() returns; events still posted are never delivered, wait() returns.
StopThread ==
    /\ pc = "loop" /\ quit /\ MayStop
    /\ pc' = "stopped"
    /\ gui' = "closed"
    /\ UNCHANGED <<nextId, posts, asks, events, pass, queueVars, flagVars, sudo,
                   attempt, jobVars, outVars, historyVars>>

Take(op) == /\ pc = "loop" /\ pass > 0
            /\ Head(events).op = op
            /\ pass' = pass - 1

-----------------------------------------------------------------------------
(* The worker's slots that take an answer from the server. *)

Answer_NotOnConnect ==
    answers' = IF Head(events).op = "connect" THEN answers
               ELSE Append(answers, Head(events).id)
Answer == answers' = Append(answers, Head(events).id)

\* doList(), doMkdir(), doRemove(), doRename(), doChmod(), doSyncListing():
\* one remote operation and one signal, whether it succeeds or fails.
SlotOperation ==
    /\ \E op \in {"list", "mkdir", "remove", "rename", "chmod", "syncListing"} :
           Take(op)
    /\ Answer
    /\ events' = Tail(events)
    /\ UNCHANGED <<guiVars, pc, queueVars, flagVars, sudo, attempt, jobVars, finished,
                   historyVars>>

\* doSetSudo(): the mode is on only if the server took the password.
SlotSudo ==
    /\ \/ Take("sudoOff") /\ sudo' = FALSE
       \/ Take("sudoOn") /\ sudo' \in BOOLEAN
    /\ Answer
    /\ events' = Tail(events)
    /\ UNCHANGED <<guiVars, pc, queueVars, flagVars, attempt, jobVars, finished,
                   historyVars>>

\* doConnect() keeps the thread while it tries, sleeps and tries again.
SlotConnect ==
    /\ Take("connect")
    /\ pc' = "connecting"
    /\ UNCHANGED <<guiVars, events, queueVars, flagVars, sudo, attempt, jobVars, outVars,
                   historyVars>>

\* A transient failure, with attempts left.
ConnectAgain ==
    /\ pc = "connecting" /\ attempt < Retries
    /\ attempt' = attempt + 1
    /\ UNCHANGED <<guiVars, events, pass, pc, queueVars, flagVars, sudo, jobVars,
                   outVars, historyVars>>

\* connected(), or connectionFailed() after a permanent or the last failure.
ConnectEnds ==
    /\ pc = "connecting"
    /\ pc' = "loop"
    /\ attempt' = 0
    /\ Answer
    /\ events' = Tail(events)
    /\ UNCHANGED <<guiVars, pass, queueVars, flagVars, sudo, jobVars, finished,
                   historyVars>>

-----------------------------------------------------------------------------
(* The worker's slots that steer the transfer queue. *)

\* The kick that makes the worker look at its queue.
WithPump_Lost(s) == s
WithPump(s) == Append(s, PumpEvent)

Queued_Front(i) == <<i>> \o queue
Queued(i) == Append(queue, i)

SlotEnqueue ==
    /\ Take("enqueue")
    /\ queue' = Queued([id |-> Head(events).id, kind |-> Head(events).kind])
    /\ events' = WithPump(Tail(events))
    /\ UNCHANGED <<guiVars, pc, cancelled, activeId, flagVars, sudo, attempt, jobVars,
                   outVars, historyVars>>

SlotCancel ==
    /\ Take("cancel")
    /\ cancelled' = cancelled \union {Head(events).id}
    /\ cancelFlag' = (cancelFlag \/ Head(events).id = activeId)
    /\ events' = Tail(events)
    /\ UNCHANGED <<guiVars, pc, queue, activeId, pauseFlag, sudo, attempt, jobVars,
                   outVars, historyVars>>

SlotCancelAll ==
    /\ Take("cancelAll")
    /\ cancelled' = cancelled \union {queue[i].id : i \in DOMAIN queue}
    /\ cancelFlag' = TRUE
    /\ events' = Tail(events)
    /\ UNCHANGED <<guiVars, pc, queue, activeId, pauseFlag, sudo, attempt, jobVars,
                   outVars, historyVars>>

\* pause() and resume() look at the id of the transfer under way only.
SlotPause ==
    /\ \/ Take("pause") /\ pauseFlag' = (pauseFlag \/ Head(events).id = activeId)
       \/ Take("resume") /\ pauseFlag' = (pauseFlag /\ Head(events).id # activeId)
    /\ events' = Tail(events)
    /\ UNCHANGED <<guiVars, pc, queueVars, cancelFlag, sudo, attempt, jobVars, outVars,
                   historyVars>>

-----------------------------------------------------------------------------
(* pump(): drop cancelled heads, start the first other item, run it. *)

SlotPump ==
    /\ Take("pump")
    /\ pc' = "pumping"
    /\ events' = Tail(events)
    /\ UNCHANGED <<guiVars, queueVars, flagVars, sudo, attempt, jobVars, outVars,
                   historyVars>>

\* The transferFinished signal.
Finished_SilentCancel(id, outcome) ==
    IF outcome = "cancelled" THEN finished
    ELSE Append(finished, [id |-> id, outcome |-> outcome])
Finished(id, outcome) == Append(finished, [id |-> id, outcome |-> outcome])

Dropped_Never(i) == FALSE
Dropped(i) == i.id \in cancelled

DropHead ==
    /\ pc = "pumping" /\ queue # << >> /\ Dropped(Head(queue))
    /\ queue' = Tail(queue)
    /\ finished' = Finished(Head(queue).id, "cancelled")
    /\ UNCHANGED <<guiVars, events, pass, pc, cancelled, activeId, flagVars, sudo,
                   attempt, jobVars, answers, historyVars>>

PumpIdle ==
    /\ pc = "pumping" /\ queue = << >>
    /\ pc' = "loop"
    /\ UNCHANGED <<guiVars, events, pass, queueVars, flagVars, sudo, attempt, jobVars,
                   outVars, historyVars>>

\* A cancel or a pause meant for an earlier item must not reach this one.
ResetFlags_PauseOnly == cancelFlag' = cancelFlag /\ pauseFlag' = FALSE
ResetFlags == cancelFlag' = FALSE /\ pauseFlag' = FALSE

\* A folder goes through a local archive, a sudo upload through a remote file.
Temporary(kind, asRoot) == kind \in {"dirDown", "dirUp"} \/ (kind = "fileUp" /\ asRoot)

StartHead ==
    /\ pc = "pumping" /\ queue # << >> /\ ~Dropped(Head(queue))
    /\ queue' = Tail(queue)
    /\ activeId' = Head(queue).id
    /\ ResetFlags
    /\ pc' = "transfer"
    /\ job' = [kind |-> Head(queue).kind, sudo |-> sudo, stage |-> 1, left |-> Chunks]
    /\ temp' = Temporary(Head(queue).kind, sudo)
    /\ UNCHANGED <<guiVars, events, pass, cancelled, sudo, attempt, outVars,
                   historyVars>>

ChunkLeft_OffByOne == job.left >= 0
ChunkLeft == job.left > 0

\* The engine looks at both flags before every chunk.
MoveChunk ==
    /\ busy /\ ~cancelFlag /\ ~pauseFlag
    /\ ChunkLeft
    /\ job' = [job EXCEPT !.left = @ - 1]
    /\ overrun' = IF stopAsk = "none" THEN overrun ELSE overrun + 1
    /\ UNCHANGED <<guiVars, events, pass, pc, queueVars, flagVars, sudo, attempt, temp,
                   outVars, cancelAsked, stopAsk>>

TwoStages == Temporary(job.kind, job.sudo)

\* The archive is unpacked or sent; a sudo upload is put in place by one command.
SecondStage ==
    /\ busy /\ job.stage = 1 /\ job.left = 0 /\ TwoStages
    /\ job' = [job EXCEPT !.stage = 2, !.left = IF job.kind = "fileUp" THEN 0 ELSE Chunks]
    /\ UNCHANGED <<guiVars, events, pass, pc, queueVars, flagVars, sudo, attempt, temp,
                   outVars, historyVars>>

EndTransfer(outcome) ==
    /\ finished' = Finished(activeId, outcome)
    /\ pc' = "loop"
    /\ activeId' = 0
    /\ events' = WithPump(events)
    /\ job' = NoJob
    /\ stopAsk' = "none" /\ overrun' = 0
    /\ UNCHANGED <<guiVars, pass, queue, cancelled, flagVars, sudo, attempt, answers,
                   cancelAsked>>

TransferDone ==
    /\ busy /\ job.left = 0
    /\ job.stage = IF TwoStages THEN 2 ELSE 1
    /\ temp' = FALSE
    /\ EndTransfer("ok")

\* An archive is removed on every path, a sudo upload's file on the last one only.
TransferStops ==
    /\ busy /\ (pauseFlag => cancelFlag)
    /\ temp' = (temp /\ job.kind = "fileUp" /\ job.stage = 1)
    /\ EndTransfer(IF cancelFlag THEN "cancelled" ELSE "failed")

-----------------------------------------------------------------------------
Worker ==
    \/ StartPass \/ StopThread
    \/ SlotOperation \/ SlotSudo \/ SlotConnect \/ ConnectAgain \/ ConnectEnds
    \/ SlotEnqueue \/ SlotCancel \/ SlotCancelAll \/ SlotPause
    \/ SlotPump \/ DropHead \/ PumpIdle \/ StartHead
    \/ MoveChunk \/ SecondStage \/ TransferDone \/ TransferStops

Next == User \/ Worker

\* The worker thread is scheduled; the user may stop calling at any time.
Spec == Init /\ [][Next]_vars /\ WF_vars(Worker)

-----------------------------------------------------------------------------
(* Properties. *)

Outcomes == {"ok", "failed", "cancelled"}
EventOps == {"enqueue", "cancel", "cancelAll", "pause", "resume", "pump"} \union AllRequests
EventSet == [op : EventOps, id : Nat, kind : AllKinds \union {"none"}]
JobSet == [kind : AllKinds \union {"none"}, sudo : BOOLEAN, stage : 0 .. 2, left : 0 .. Chunks]

\* What is posted is a call of the facade or a pump.
EventsOK ==
    /\ events \in Seq(EventSet)
    /\ \A i \in 1 .. Len(events) : events[i].op = "enqueue" => events[i].kind \in AllKinds

\* Every variable of the session keeps to its type; a stage never moves more
\* chunks than it has, and no pass is longer than the event queue.
TypeOK ==
    /\ gui \in {"open", "waiting", "closed"}
    /\ nextId \in Nat \ {0} /\ posts \in Nat /\ asks \in Nat
    /\ EventsOK
    /\ pass \in 0 .. Len(events)
    /\ pc \in {"loop", "pumping", "connecting", "transfer", "stopped"}
    /\ queue \in Seq([id : Nat, kind : AllKinds])
    /\ cancelled \subseteq Nat /\ activeId \in Nat
    /\ cancelFlag \in BOOLEAN /\ pauseFlag \in BOOLEAN /\ sudo \in BOOLEAN
    /\ attempt \in 0 .. Retries
    /\ job \in JobSet
    /\ temp \in BOOLEAN
    /\ finished \in Seq([id : Nat, outcome : Outcomes])
    /\ answers \in Seq(Nat)
    /\ cancelAsked \subseteq Nat
    /\ stopAsk \in {"none", "pause", "cancel"} /\ overrun \in Nat

\* How many items have left m_queue: those that ended and the one under way.
Served == Len(finished) + (IF busy THEN 1 ELSE 0)

\* The last id that has reached the worker.
LastTaken == Served + Len(queue)

Posted(i) == i \in 1 .. Len(events) /\ events[i].op = "enqueue"

\* The enqueue events still to be delivered carry the ids issued since, in order.
PostedInOrder ==
    /\ \A i \in 1 .. Len(events) : Posted(i) => events[i].id \in (LastTaken + 1) .. (nextId - 1)
    /\ \A i, j \in 1 .. Len(events) :
           Posted(i) /\ Posted(j) /\ i < j => events[i].id < events[j].id
    /\ \A n \in (LastTaken + 1) .. (nextId - 1) :
           \E i \in 1 .. Len(events) : Posted(i) /\ events[i].id = n

\* No transfer is lost, served twice or out of turn: the ids that ended, the
\* one under way, those in m_queue and those in events not yet delivered are,
\* in this order, exactly 1, 2, ..., nextId - 1 (enqueue, pump, cancelAll).
ConservedInOrder ==
    /\ \A k \in 1 .. Len(finished) : finished[k].id = k
    /\ activeId = IF busy THEN Len(finished) + 1 ELSE 0
    /\ \A k \in 1 .. Len(queue) : queue[k].id = Served + k
    /\ LastTaken < nextId
    /\ PostedInOrder

\* No lost wake-up: a worker back in its loop with items in m_queue has a
\* pump() still to come, so the queue cannot be forgotten.
PumpPending ==
    pc \in {"loop", "connecting"} /\ queue # << >> =>
        \E i \in 1 .. Len(events) : events[i].op = "pump"

\* A stale flag never reaches a later item: a transfer reported as cancelled
\* is one the user asked to cancel, by id or with all those then issued.
NoSpuriousCancel ==
    \A k \in 1 .. Len(finished) :
        finished[k].outcome = "cancelled" => finished[k].id \in cancelAsked

\* A cancel delivered before the item's turn comes stops the item: pump()
\* never runs a transfer that is in m_cancelled.
HandledCancelHolds == busy => activeId \notin cancelled

\* The worker answers every remote operation with exactly one signal, in the
\* order the user asked, whatever transfers and failures come in between.
AnswersInOrder ==
    /\ \A k \in 1 .. Len(answers) : answers[k] = k
    /\ Cardinality({i \in 1 .. Len(events) : events[i].op \in AllRequests})
           = asks - Len(answers)

\* The destructor's wait() for the worker thread ends.
CloseEnds == gui = "waiting" ~> gui = "closed"

\* The session implements the promise of TransferJobs: as long as it is held,
\* every transfer issued comes to an end, in its turn and once.
Jobs == INSTANCE TransferJobs WITH
            issued <- nextId - 1, ended <- finished, running <- activeId,
            open <- gui = "open"
JobsSpec == Jobs!Spec

-----------------------------------------------------------------------------
(* What the header promises, and the code does not keep. *)

\* SftpSession.h: pause() parks the active transfer (a chunk may be in flight).
PauseParks == stopAsk = "pause" => overrun <= 1
=============================================================================
