----------------------------- MODULE BufferPipe -----------------------------
(***************************************************************************)
(* The bounded hand-off of buffers between one producer thread and one     *)
(* consumer thread (class BufferPipe).  Every method is one critical       *)
(* section of m_mutex; a thread whose wait predicate is false joins the    *)
(* waiting set and leaves it when the other thread notifies it.  The       *)
(* module has no next-state relation: the two pumps compose these          *)
(* operations with the steps of their threads.                             *)
(***************************************************************************)
EXTENDS Naturals, Sequences

CONSTANT Depth  \* transferPipeDepth()

ASSUME DepthAssumption == Depth \in Nat \ {0}

VARIABLES
    queue,    \* m_queue
    closed,   \* m_closed
    failed,   \* m_failed
    waiting   \* threads blocked on m_notFull (producer) or m_notEmpty (consumer)

pipeVars == <<queue, closed, failed, waiting>>

PipeInit == queue = << >> /\ closed = FALSE /\ failed = FALSE /\ waiting = {}

\* notify_one / notify_all on m_notEmpty and on m_notFull: one thread waits on each.
WakeConsumer == waiting' = waiting \ {"consumer"}
WakeProducer == waiting' = waiting \ {"producer"}

Full == Len(queue) >= Depth

Enqueued_Front(b) == <<b>> \o queue
Enqueued(b) == Append(queue, b)

Push(b) ==
    /\ "producer" \notin waiting /\ ~failed /\ ~Full
    /\ queue' = Enqueued(b)
    /\ WakeConsumer
    /\ UNCHANGED <<closed, failed>>

\* push() returns false.
PushAborted == "producer" \notin waiting /\ failed /\ UNCHANGED pipeVars

PushWaits ==
    /\ "producer" \notin waiting /\ ~failed /\ Full
    /\ waiting' = waiting \union {"producer"}
    /\ UNCHANGED <<queue, closed, failed>>

Close == closed' = TRUE /\ WakeConsumer /\ UNCHANGED <<queue, failed>>

\* pop() hands out the oldest buffer; Head(queue) is *out.
Pop ==
    /\ "consumer" \notin waiting /\ ~failed /\ queue # << >>
    /\ queue' = Tail(queue)
    /\ WakeProducer
    /\ UNCHANGED <<closed, failed>>

Drained == queue = << >> /\ closed

\* pop() returns false: aborted, or drained and closed.
PopEnds == "consumer" \notin waiting /\ (failed \/ Drained) /\ UNCHANGED pipeVars

PopWaits ==
    /\ "consumer" \notin waiting /\ ~failed /\ queue = << >> /\ ~closed
    /\ waiting' = waiting \union {"consumer"}
    /\ UNCHANGED <<queue, closed, failed>>

\* fail() notifies both sides.
Fail == failed' = TRUE /\ waiting' = {} /\ UNCHANGED <<queue, closed>>

PipeType ==
    /\ Len(queue) <= Depth
    /\ closed \in BOOLEAN /\ failed \in BOOLEAN
    /\ waiting \subseteq {"producer", "consumer"}
=============================================================================
