-------------------------- MODULE SftpSessionProofs --------------------------
(***************************************************************************)
(* Proofs about SftpSession for every number of items, calls, chunks and   *)
(* retries: types, the order in which transfers are served, the pending    *)
(* pump(), the reach of a cancel, the answers, and the safety part of      *)
(* TransferJobs.                                                           *)
(***************************************************************************)
EXTENDS SftpSession, SequenceTheorems, FiniteSetTheorems, TLAPS

\* While doConnect() runs, its event is the one being delivered: it is still
\* at the head of the queue, and the pass no longer counts it.
ConnectAtHead ==
    pc = "connecting" => /\ pass < Len(events)
                         /\ events[1].op = "connect"

TypeInv == TypeOK /\ ConnectAtHead

USE ConstantsAssumption DEF ConstantsAssumption

LEMMA TypeInit == Init => TypeInv
<1> SUFFICES ASSUME Init PROVE TypeInv
    OBVIOUS
<1>1. EventsOK
    BY DEF Init, EventsOK
<1>2. NoJob \in JobSet
    BY DEF NoJob, JobSet
<1>3. ConnectAtHead
    BY DEF Init, ConnectAtHead
<1>4. pass \in 0 .. Len(events) /\ attempt \in 0 .. Retries
    BY DEF Init
<1>5. /\ queue \in Seq([id : Nat, kind : AllKinds])
      /\ finished \in Seq([id : Nat, outcome : Outcomes]) /\ answers \in Seq(Nat)
    BY DEF Init
<1>6. job \in JobSet
    BY <1>2 DEF Init
<1>7. cancelFlag \in BOOLEAN /\ pauseFlag \in BOOLEAN /\ sudo \in BOOLEAN
    BY DEF Init
<1>8. temp \in BOOLEAN
    BY DEF Init
<1>9. stopAsk \in {"none", "pause", "cancel"}
    BY DEF Init
<1>10. /\ gui \in {"open", "waiting", "closed"}
       /\ nextId \in Nat \ {0} /\ posts \in Nat /\ asks \in Nat
       /\ pc \in {"loop", "pumping", "connecting", "transfer", "stopped"}
       /\ cancelled \subseteq Nat /\ activeId \in Nat
       /\ cancelAsked \subseteq Nat /\ overrun \in Nat
    BY DEF Init
<1> QED
    BY <1>1, <1>3, <1>4, <1>5, <1>6, <1>7, <1>8, <1>9, <1>10 DEF TypeInv, TypeOK

\* Appending one event keeps the event queue well formed, and its head.
LEMMA TypePost ==
    ASSUME EventsOK, NEW e \in EventSet, Post(e), e.op = "enqueue" => e.kind \in AllKinds
    PROVE  /\ EventsOK'
           /\ Len(events) \in Nat
           /\ Len(events') = Len(events) + 1
           /\ Len(events) > 0 => events'[1] = events[1]
BY DEF Post, EventsOK

\* The calls of the facade only append an event.
LEMMA TypeUser == TypeInv /\ User => TypeInv'
<1> SUFFICES ASSUME TypeInv, User PROVE TypeInv'
    OBVIOUS
<1>0. EventsOK /\ nextId \in Nat \ {0} /\ asks \in Nat /\ pass \in 0 .. Len(events)
    BY DEF TypeInv, TypeOK
<1>1. ASSUME NEW e \in EventSet, Post(e), e.op = "enqueue" => e.kind \in AllKinds,
             UNCHANGED <<pass, pc>>
      PROVE  EventsOK' /\ pass' \in 0 .. Len(events') /\ ConnectAtHead'
    <2>1. /\ EventsOK' /\ Len(events) \in Nat /\ Len(events') = Len(events) + 1
          /\ Len(events) > 0 => events'[1] = events[1]
        BY <1>0, <1>1, TypePost
    <2> QED
        BY <1>0, <1>1, <2>1 DEF TypeInv, ConnectAtHead
<1> USE DEF TypeInv, TypeOK, queueVars, flagVars, jobVars, outVars, historyVars
<1>2. ASSUME NEW k \in Kinds, Enqueue(k) PROVE TypeInv'
    <2>1. Event("enqueue", nextId, k) \in EventSet /\ Event("enqueue", nextId, k).kind \in AllKinds
        BY <1>0 DEF Event, EventSet, EventOps
    <2>2. EventsOK' /\ pass' \in 0 .. Len(events') /\ ConnectAtHead'
        BY <1>1, <1>2, <2>1 DEF Enqueue
    <2> QED
        BY <1>2, <2>2 DEF Enqueue
<1>3. ASSUME NEW r \in Requests, Request(r) PROVE TypeInv'
    <2>1. Event(r, asks', "none") \in EventSet /\ Event(r, asks', "none").op # "enqueue"
        BY <1>0, <1>3 DEF Event, EventSet, EventOps, AllRequests, Request
    <2>2. EventsOK' /\ pass' \in 0 .. Len(events') /\ ConnectAtHead'
        BY <1>1, <1>3, <2>1 DEF Request, Calls
    <2> QED
        BY <1>3, <2>2 DEF Request, Calls
<1>4. ASSUME NEW id \in Ids, CancelItem(id) \/ PauseItem(id) \/ ResumeItem(id) PROVE TypeInv'
    <2>1. ASSUME NEW op \in {"cancel", "pause", "resume"}
          PROVE  Event(op, id, "none") \in EventSet /\ Event(op, id, "none").op # "enqueue"
        BY DEF Event, EventSet, EventOps, Ids
    <2>2. EventsOK' /\ pass' \in 0 .. Len(events') /\ ConnectAtHead'
        BY <1>1, <1>4, <2>1 DEF CancelItem, PauseItem, ResumeItem, Calls
    <2>3. id \in Nat
        BY DEF Ids
    <2>4. CASE CancelItem(id)
        BY <2>2, <2>3, <2>4 DEF CancelItem, Calls
    <2>5. CASE PauseItem(id)
        BY <2>2, <2>5 DEF PauseItem, Calls
    <2>6. CASE ResumeItem(id)
        BY <2>2, <2>6 DEF ResumeItem, Calls
    <2> QED
        BY <1>4, <2>4, <2>5, <2>6
<1>5. CASE CancelAll
    <2>1. Event("cancelAll", 0, "none") \in EventSet /\ Event("cancelAll", 0, "none").op # "enqueue"
        BY DEF Event, EventSet, EventOps
    <2>2. EventsOK' /\ pass' \in 0 .. Len(events') /\ ConnectAtHead'
        BY <1>1, <1>5, <2>1 DEF CancelAll, Calls
    <2> QED
        BY <1>5, <2>2 DEF CancelAll, Calls
<1>6. CASE Destroy
    BY <1>6 DEF Destroy, EventsOK, ConnectAtHead
<1> QED
    BY <1>2, <1>3, <1>4, <1>5, <1>6 DEF User

\* Delivering the head of the event queue, with or without a pump() posted.
LEMMA TypeTake ==
    ASSUME EventsOK, Len(events) > 0,
           \/ events' = Tail(events)
           \/ events' = WithPump(Tail(events))
    PROVE  /\ EventsOK'
           /\ Len(events) \in Nat /\ Len(events) > 0
           /\ Len(events') \in {Len(events) - 1, Len(events)}
           /\ events[1] = Head(events) /\ Head(events) \in EventSet
           /\ Head(events).op = "enqueue" => Head(events).kind \in AllKinds
<1>1. PumpEvent \in EventSet /\ PumpEvent.op # "enqueue"
    BY DEF PumpEvent, Event, EventSet, EventOps
<1>2. /\ events \in Seq(EventSet) /\ Len(events) \in Nat
      /\ \A i \in 1 .. Len(events) : events[i].op = "enqueue" => events[i].kind \in AllKinds
    BY DEF EventsOK
<1>3. /\ Tail(events) \in Seq(EventSet) /\ Len(Tail(events)) = Len(events) - 1
      /\ \A i \in 1 .. Len(Tail(events)) : Tail(events)[i] = events[i + 1]
      /\ events[1] = Head(events) /\ Head(events) \in EventSet
    BY <1>2
<1>4. CASE events' = Tail(events)
    BY <1>2, <1>3, <1>4 DEF EventsOK
<1>5. CASE events' = WithPump(Tail(events))
    <2>1. /\ events' \in Seq(EventSet) /\ Len(events') = Len(events)
          /\ \A i \in 1 .. Len(events) - 1 : events'[i] = events[i + 1]
          /\ events'[Len(events)] = PumpEvent
        BY <1>1, <1>2, <1>3, <1>5 DEF WithPump
    <2> QED
        BY <1>1, <1>2, <1>3, <2>1 DEF EventsOK
<1> QED
    BY <1>4, <1>5

\* Each step of the worker keeps the types.
LEMMA TypeWorker == TypeInv /\ Worker => TypeInv'
<1> SUFFICES ASSUME TypeInv, Worker PROVE TypeInv'
    OBVIOUS
<1>0. /\ EventsOK /\ pass \in Nat /\ pass <= Len(events) /\ pass \in 0 .. Len(events)
      /\ Len(events) \in Nat /\ pc \in {"loop", "pumping", "connecting", "transfer", "stopped"}
    BY DEF TypeInv, TypeOK, EventsOK
<1>a. ASSUME queue # << >>
      PROVE  /\ Tail(queue) \in Seq([id : Nat, kind : AllKinds])
             /\ Head(queue) \in [id : Nat, kind : AllKinds]
    <2>1. queue \in Seq([id : Nat, kind : AllKinds])
        BY DEF TypeInv, TypeOK
    <2> HIDE DEF TypeInv, TypeOK
    <2> QED
        BY <1>a, <2>1, HeadTailProperties
<1>b. /\ job.kind \in AllKinds \union {"none"} /\ job.sudo \in BOOLEAN /\ job.stage \in 0 .. 2
      /\ job.left \in 0 .. Chunks /\ job = [kind |-> job.kind, sudo |-> job.sudo,
                                           stage |-> job.stage, left |-> job.left]
    BY DEF TypeInv, TypeOK, JobSet
<1>1. ASSUME NEW op, Take(op),
             \/ events' = Tail(events)
             \/ events' = WithPump(Tail(events))
      PROVE  /\ EventsOK' /\ pass' \in 0 .. Len(events') /\ pc = "loop"
             /\ Head(events).id \in Nat /\ Head(events).op = op
             /\ Head(events).op = "enqueue" => Head(events).kind \in AllKinds
    <2>1. /\ pc = "loop" /\ pass > 0 /\ pass' = pass - 1 /\ Head(events).op = op
        BY <1>1 DEF Take
    <2>2. /\ EventsOK' /\ Len(events') \in {Len(events) - 1, Len(events)}
          /\ Head(events) \in EventSet
          /\ Head(events).op = "enqueue" => Head(events).kind \in AllKinds
        BY <1>0, <1>1, <2>1, TypeTake
    <2> QED
        BY <1>0, <2>1, <2>2 DEF EventSet
<1> USE DEF TypeInv, TypeOK, ConnectAtHead, guiVars, queueVars, flagVars, jobVars, outVars, historyVars
<1>2. CASE StartPass
    BY <1>0, <1>2 DEF StartPass, EventsOK
<1>3. CASE StopThread
    BY <1>3 DEF StopThread, EventsOK
<1>4. CASE SlotOperation
    <2>1. /\ EventsOK' /\ pass' \in 0 .. Len(events') /\ pc = "loop" /\ Head(events).id \in Nat
        BY <1>1, <1>4 DEF SlotOperation
    <2> QED
        BY <1>4, <2>1 DEF SlotOperation, Answer
<1>5. CASE SlotSudo
    <2>1. /\ EventsOK' /\ pass' \in 0 .. Len(events') /\ pc = "loop" /\ Head(events).id \in Nat
        BY <1>1, <1>5 DEF SlotSudo
    <2>2. sudo' \in BOOLEAN
        BY <1>5 DEF SlotSudo
    <2> QED
        BY <1>5, <2>1, <2>2 DEF SlotSudo, Answer
<1>6. CASE SlotConnect
    <2>1. /\ pass' \in 0 .. Len(events) /\ pass' < Len(events) /\ pc = "loop"
          /\ events[1].op = "connect" /\ EventsOK'
        BY <1>0, <1>6 DEF SlotConnect, Take, EventsOK
    <2> QED
        BY <1>6, <2>1 DEF SlotConnect
<1>7. CASE ConnectAgain
    BY <1>7 DEF ConnectAgain, EventsOK
<1>8. CASE ConnectEnds
    <2>1. /\ events' = Tail(events) /\ Len(events) > pass /\ pc' = "loop" /\ pass' = pass
          /\ Len(events) > 0
        BY <1>0, <1>8 DEF ConnectEnds
    <2>2. /\ EventsOK' /\ Len(events') = Len(events) - 1 /\ Head(events).id \in Nat
        BY <1>0, <2>1, TypeTake DEF EventSet
    <2>3. pass' \in 0 .. Len(events')
        BY <1>0, <2>1, <2>2
    <2> QED
        BY <1>8, <2>2, <2>3 DEF ConnectEnds, Answer
<1>9. CASE SlotEnqueue
    <2>1. /\ EventsOK' /\ pass' \in 0 .. Len(events') /\ pc = "loop" /\ Head(events).id \in Nat
          /\ Head(events).kind \in AllKinds
        BY <1>1, <1>9 DEF SlotEnqueue
    <2>2. queue' \in Seq([id : Nat, kind : AllKinds])
        BY <1>9, <2>1 DEF SlotEnqueue, Queued
    <2> QED
        BY <1>9, <2>1, <2>2 DEF SlotEnqueue
<1>10. CASE SlotCancel
    <2>1. /\ EventsOK' /\ pass' \in 0 .. Len(events') /\ pc = "loop" /\ Head(events).id \in Nat
        BY <1>1, <1>10 DEF SlotCancel
    <2>2. cancelFlag' \in BOOLEAN
        BY <1>10 DEF SlotCancel
    <2> QED
        BY <1>10, <2>1, <2>2 DEF SlotCancel
<1>11. CASE SlotCancelAll
    <2>1. /\ EventsOK' /\ pass' \in 0 .. Len(events') /\ pc = "loop"
        BY <1>1, <1>11 DEF SlotCancelAll
    <2>2. cancelled' \subseteq Nat
        <3>1. \A i \in DOMAIN queue : queue[i].id \in Nat
            <4>1. queue \in Seq([id : Nat, kind : AllKinds])
                BY DEF TypeInv, TypeOK
            <4> HIDE DEF TypeInv, TypeOK
            <4>2. \A i \in DOMAIN queue : queue[i] \in [id : Nat, kind : AllKinds]
                BY <4>1, ElementOfSeq, LenProperties
            <4> QED
                BY <4>2
        <3> QED
            BY <1>11, <3>1 DEF SlotCancelAll
    <2>3. cancelFlag' \in BOOLEAN
        BY <1>11 DEF SlotCancelAll
    <2> QED
        BY <1>11, <2>1, <2>2, <2>3 DEF SlotCancelAll
<1>12. CASE SlotPause
    <2>1. /\ EventsOK' /\ pass' \in 0 .. Len(events') /\ pc = "loop"
        BY <1>1, <1>12 DEF SlotPause
    <2>2. pauseFlag' \in BOOLEAN
        BY <1>12 DEF SlotPause
    <2> QED
        BY <1>12, <2>1, <2>2 DEF SlotPause
<1>13. CASE SlotPump
    <2>1. /\ EventsOK' /\ pass' \in 0 .. Len(events') /\ pc = "loop"
        BY <1>1, <1>13 DEF SlotPump
    <2> QED
        BY <1>13, <2>1 DEF SlotPump
<1>14. CASE DropHead
    <2>1. /\ queue' \in Seq([id : Nat, kind : AllKinds]) /\ Head(queue).id \in Nat
        BY <1>14, <1>a DEF DropHead
    <2>2. finished' \in Seq([id : Nat, outcome : Outcomes])
        BY <1>14, <2>1 DEF DropHead, Finished, Outcomes
    <2> QED
        BY <1>14, <2>1, <2>2 DEF DropHead, EventsOK
<1>15. CASE PumpIdle
    BY <1>15 DEF PumpIdle, EventsOK
<1>16. CASE StartHead
    <2>1. /\ queue' \in Seq([id : Nat, kind : AllKinds]) /\ Head(queue).id \in Nat
          /\ Head(queue).kind \in AllKinds
        BY <1>16, <1>a DEF StartHead
    <2>2. job' \in JobSet
        BY <1>16, <2>1 DEF StartHead, JobSet
    <2>3. temp' \in BOOLEAN
        BY <1>16 DEF StartHead, Temporary
    <2>4. cancelFlag' \in BOOLEAN /\ pauseFlag' \in BOOLEAN
        BY <1>16 DEF StartHead, ResetFlags
    <2> QED
        BY <1>16, <2>1, <2>2, <2>3, <2>4 DEF StartHead, EventsOK
<1>17. CASE MoveChunk
    <2>1. job' \in JobSet
        <3>1. /\ job' = [job EXCEPT !.left = job.left - 1] /\ job.left > 0
            BY <1>17 DEF MoveChunk, ChunkLeft
        <3> HIDE DEF TypeInv, TypeOK
        <3> QED
            BY <1>b, <3>1 DEF JobSet
    <2>2. overrun' \in Nat
        BY <1>17 DEF MoveChunk
    <2> QED
        BY <1>17, <2>1, <2>2 DEF MoveChunk, EventsOK
<1>18. CASE SecondStage
    <2>1. job' \in JobSet
        <3>1. /\ job'.kind = job.kind /\ job'.sudo = job.sudo /\ job'.stage = 2
              /\ job'.left \in {0, Chunks}
              /\ job' = [kind |-> job'.kind, sudo |-> job'.sudo,
                         stage |-> job'.stage, left |-> job'.left]
            BY <1>b, <1>18 DEF SecondStage
        <3> HIDE DEF TypeInv, TypeOK
        <3> QED
            BY <1>b, <3>1 DEF JobSet
    <2> QED
        BY <1>18, <2>1 DEF SecondStage, EventsOK
<1>19. ASSUME NEW o \in Outcomes, EndTransfer(o), temp' \in BOOLEAN PROVE TypeInv'
    <2>1. finished' \in Seq([id : Nat, outcome : Outcomes])
        BY <1>19 DEF EndTransfer, Finished
    <2>2. job' \in JobSet
        BY <1>19 DEF EndTransfer, JobSet, NoJob
    <2>3. PumpEvent \in EventSet /\ PumpEvent.op # "enqueue"
        BY DEF PumpEvent, Event, EventSet, EventOps
    <2>4. EventsOK' /\ Len(events') = Len(events) + 1
        BY <1>0, <1>19, <2>3, TypePost DEF EndTransfer, WithPump, Post
    <2>5. pass' \in 0 .. Len(events')
        BY <1>0, <1>19, <2>4 DEF EndTransfer
    <2> QED
        BY <1>19, <2>1, <2>2, <2>4, <2>5 DEF EndTransfer
<1>20. CASE TransferDone
    BY <1>19, <1>20 DEF TransferDone, Outcomes
<1>21. CASE TransferStops
    <2>1. temp' \in BOOLEAN
        BY <1>21 DEF TransferStops
    <2> QED
        BY <1>19, <1>21, <2>1 DEF TransferStops, Outcomes
<1> QED
    BY <1>2, <1>3, <1>4, <1>5, <1>6, <1>7, <1>8, <1>9, <1>10, <1>11, <1>12, <1>13, <1>14,
       <1>15, <1>16, <1>17, <1>18, <1>20, <1>21 DEF Worker

LEMMA TypeStep == TypeInv /\ [Next]_vars => TypeInv'
<1>1. CASE UNCHANGED vars
    BY <1>1 DEF vars, TypeInv, TypeOK, EventsOK, ConnectAtHead, guiVars, queueVars, flagVars,
                jobVars, outVars, historyVars
<1> QED
    BY <1>1, TypeUser, TypeWorker DEF Next

\* Types hold for every number of items, calls, chunks and retries.
THEOREM TypeCorrect == Spec => []TypeOK
<1>1. TypeInv => TypeOK
    BY DEF TypeInv
<1> QED
    BY TypeInit, TypeStep, <1>1, PTL DEF Spec

-----------------------------------------------------------------------------
(***************************************************************************)
(* The order of service.  ConservedInOrder is inductive given the types:   *)
(* an id moves from the events to m_queue, to m_activeId and to the ended, *)
(* and no step moves any but the lowest of its place.                      *)
(***************************************************************************)

\* Removing an event other than an enqueue, appending one, or leaving the
\* queue of events alone: the ids still posted are the same.
LEMMA PostedFrame ==
    ASSUME EventsOK, PostedInOrder, LastTaken \in Nat, LastTaken' = LastTaken, nextId' = nextId,
           \/ events' = events
           \/ events' = Tail(events) /\ Len(events) > 0 /\ events[1].op # "enqueue"
           \/ \E e \in EventSet : e.op # "enqueue" /\ events' = Append(events, e)
    PROVE  PostedInOrder'
<1>1. events \in Seq(EventSet) /\ Len(events) \in Nat
    BY DEF EventsOK
<1>2. CASE events' = events
    BY <1>2 DEF PostedInOrder, Posted
<1>3. CASE events' = Tail(events) /\ Len(events) > 0 /\ events[1].op # "enqueue"
    <2>1. /\ Len(events') = Len(events) - 1
          /\ \A i \in 1 .. Len(events') : events'[i] = events[i + 1]
        BY <1>1, <1>3
    <2>2. \A i \in 1 .. Len(events') : Posted(i)' <=> Posted(i + 1)
        BY <1>1, <2>1 DEF Posted
    <2>3. ASSUME NEW i \in 1 .. Len(events), Posted(i)
          PROVE  i - 1 \in 1 .. Len(events') /\ Posted(i - 1)' /\ events'[i - 1] = events[i]
        BY <1>1, <1>3, <2>1, <2>3 DEF Posted
    <2>4. \A i \in 1 .. Len(events') : Posted(i)' => events'[i].id \in (LastTaken' + 1) .. (nextId' - 1)
        BY <1>1, <2>1, <2>2 DEF PostedInOrder
    <2>5. ASSUME NEW i \in 1 .. Len(events'), NEW j \in 1 .. Len(events'),
                 Posted(i)', Posted(j)', i < j
          PROVE  events'[i].id < events'[j].id
        <3>1. Posted(i + 1) /\ Posted(j + 1) /\ i + 1 < j + 1
            BY <2>2, <2>5
        <3>2. events[i + 1].id < events[j + 1].id
            BY <3>1 DEF PostedInOrder, Posted
        <3> QED
            BY <2>1, <3>2
    <2>6. \A n \in (LastTaken' + 1) .. (nextId' - 1) :
              \E i \in 1 .. Len(events') : Posted(i)' /\ events'[i].id = n
        BY <1>1, <2>3 DEF PostedInOrder
    <2> QED
        BY <2>4, <2>5, <2>6 DEF PostedInOrder
<1>4. ASSUME NEW e \in EventSet, e.op # "enqueue", events' = Append(events, e)
      PROVE  PostedInOrder'
    <2>1. /\ Len(events') = Len(events) + 1 /\ events'[Len(events) + 1].op # "enqueue"
          /\ \A i \in 1 .. Len(events) : events'[i] = events[i]
        BY <1>1, <1>4
    <2>2. \A i \in 1 .. Len(events') : Posted(i)' <=> i \in 1 .. Len(events) /\ Posted(i)
        BY <1>1, <2>1 DEF Posted
    <2>3. \A i \in 1 .. Len(events') : Posted(i)' => events'[i].id \in (LastTaken' + 1) .. (nextId' - 1)
        BY <1>1, <2>1, <2>2 DEF PostedInOrder
    <2>4. \A i, j \in 1 .. Len(events') :
              Posted(i)' /\ Posted(j)' /\ i < j => events'[i].id < events'[j].id
        BY <1>1, <2>1, <2>2 DEF PostedInOrder
    <2>5. \A n \in (LastTaken' + 1) .. (nextId' - 1) :
              \E i \in 1 .. Len(events') : Posted(i)' /\ events'[i].id = n
        BY <1>1, <2>1, <2>2 DEF PostedInOrder
    <2> QED
        BY <2>3, <2>4, <2>5 DEF PostedInOrder
<1> QED
    BY <1>2, <1>3, <1>4

\* Issuing an id appends it to the ids still posted.
LEMMA PostedIssue ==
    ASSUME EventsOK, PostedInOrder, nextId \in Nat \ {0}, LastTaken \in Nat, LastTaken' = LastTaken,
           LastTaken < nextId, nextId' = nextId + 1, NEW k \in AllKinds,
           events' = Append(events, Event("enqueue", nextId, k))
    PROVE  PostedInOrder'
<1>1. /\ events \in Seq(EventSet) /\ Len(events) \in Nat
      /\ Event("enqueue", nextId, k) \in EventSet
    BY DEF EventsOK, Event, EventSet, EventOps
<1>2. /\ Len(events') = Len(events) + 1
      /\ events'[Len(events) + 1].op = "enqueue" /\ events'[Len(events) + 1].id = nextId
      /\ \A i \in 1 .. Len(events) : events'[i] = events[i]
    BY <1>1 DEF Event
<1>3. \A i \in 1 .. Len(events') : Posted(i)' <=> Posted(i) \/ i = Len(events) + 1
    BY <1>1, <1>2 DEF Posted
<1>4. \A i \in 1 .. Len(events) : Posted(i) => events[i].id \in Nat /\ events[i].id < nextId
    BY <1>1 DEF PostedInOrder
<1>5. \A i \in 1 .. Len(events') : Posted(i)' => events'[i].id \in (LastTaken' + 1) .. (nextId' - 1)
    BY <1>1, <1>2, <1>3, <1>4 DEF PostedInOrder, Posted
<1>6. ASSUME NEW i \in 1 .. Len(events'), NEW j \in 1 .. Len(events'),
             Posted(i)', Posted(j)', i < j
      PROVE  events'[i].id < events'[j].id
    <2>1. i \in 1 .. Len(events) /\ Posted(i)
        BY <1>1, <1>2, <1>3, <1>6
    <2>2. CASE j = Len(events) + 1
        BY <1>2, <1>4, <2>1, <2>2
    <2>3. CASE j # Len(events) + 1
        BY <1>1, <1>2, <1>3, <1>6, <2>1, <2>3 DEF PostedInOrder
    <2> QED
        BY <2>2, <2>3
<1>7. ASSUME NEW n \in (LastTaken' + 1) .. (nextId' - 1)
      PROVE  \E i \in 1 .. Len(events') : Posted(i)' /\ events'[i].id = n
    <2>1. CASE n = nextId
        BY <1>1, <1>2, <1>3, <2>1
    <2>2. CASE n # nextId
        <3>1. PICK i \in 1 .. Len(events) : Posted(i) /\ events[i].id = n
            BY <2>2 DEF PostedInOrder
        <3> QED
            BY <1>1, <1>2, <1>3, <3>1
    <2> QED
        BY <2>1, <2>2
<1> QED
    BY <1>5, <1>6, <1>7 DEF PostedInOrder

\* Delivering an enqueue event delivers the lowest id still posted.
LEMMA PostedTaken ==
    ASSUME EventsOK, PostedInOrder, nextId \in Nat \ {0}, LastTaken \in Nat, Len(events) > 0,
           events[1].op = "enqueue", events' = Append(Tail(events), PumpEvent), nextId' = nextId,
           LastTaken' = LastTaken + 1
    PROVE  events[1].id = LastTaken + 1 /\ LastTaken' < nextId /\ PostedInOrder'
<1>1. /\ events \in Seq(EventSet) /\ Len(events) \in Nat
      /\ PumpEvent \in EventSet /\ PumpEvent.op = "pump"
    BY DEF EventsOK, PumpEvent, Event, EventSet, EventOps
<1>2. Posted(1) /\ events[1].id \in (LastTaken + 1) .. (nextId - 1)
    BY <1>1 DEF Posted, PostedInOrder
<1>3. events[1].id = LastTaken + 1
    <2>1. LastTaken + 1 \in (LastTaken + 1) .. (nextId - 1)
        BY <1>2
    <2>2. PICK i \in 1 .. Len(events) : Posted(i) /\ events[i].id = LastTaken + 1
        BY <2>1 DEF PostedInOrder
    <2> QED
        BY <1>1, <1>2, <2>2 DEF PostedInOrder
<1>4. /\ Len(events') = Len(events)
      /\ \A i \in 1 .. Len(events) - 1 : events'[i] = events[i + 1]
      /\ events'[Len(events)].op = "pump"
    BY <1>1
<1>5. \A i \in 1 .. Len(events') : Posted(i)' <=> i < Len(events) /\ Posted(i + 1)
    BY <1>1, <1>4 DEF Posted
<1>6. \A i \in 1 .. Len(events') : Posted(i)' => events'[i].id \in (LastTaken' + 1) .. (nextId' - 1)
    BY <1>1, <1>2, <1>3, <1>4, <1>5 DEF PostedInOrder
<1>7. ASSUME NEW i \in 1 .. Len(events'), NEW j \in 1 .. Len(events'),
             Posted(i)', Posted(j)', i < j
      PROVE  events'[i].id < events'[j].id
    <2>1. Posted(i + 1) /\ Posted(j + 1) /\ i < Len(events) /\ j < Len(events)
        BY <1>5, <1>7
    <2>2. /\ i + 1 \in 1 .. Len(events) /\ j + 1 \in 1 .. Len(events) /\ i + 1 < j + 1
        BY <1>1, <1>4, <1>7, <2>1
    <2>3. events[i + 1].id < events[j + 1].id
        BY <2>1, <2>2 DEF PostedInOrder
    <2> QED
        BY <1>4, <2>1, <2>3
<1>8. ASSUME NEW n \in (LastTaken' + 1) .. (nextId' - 1)
      PROVE  \E i \in 1 .. Len(events') : Posted(i)' /\ events'[i].id = n
    <2>1. PICK i \in 1 .. Len(events) : Posted(i) /\ events[i].id = n
        BY DEF PostedInOrder
    <2>2. i # 1
        BY <1>3, <2>1
    <2>3. i - 1 \in 1 .. Len(events') /\ Posted(i - 1)' /\ events'[i - 1].id = n
        BY <1>1, <1>4, <1>5, <2>1, <2>2
    <2> QED
        BY <2>3
<1>9. LastTaken' < nextId
    BY <1>2, <1>3
<1>10. PostedInOrder'
    BY <1>6, <1>7, <1>8 DEF PostedInOrder
<1> QED
    BY <1>3, <1>9, <1>10

\* A step that moves no id from its place keeps the order.
LEMMA OrderFrame ==
    ASSUME TypeInv, ConservedInOrder, UNCHANGED <<finished, activeId, queue, nextId>>,
           busy' <=> busy,
           \/ events' = events
           \/ events' = Tail(events) /\ Len(events) > 0 /\ events[1].op # "enqueue"
           \/ \E e \in EventSet : e.op # "enqueue" /\ events' = Append(events, e)
    PROVE  ConservedInOrder'
<1>1. EventsOK /\ Served \in Nat /\ LastTaken \in Nat
    BY DEF TypeInv, TypeOK, Served, LastTaken
<1>2. Served' = Served /\ LastTaken' = LastTaken
    BY DEF Served, LastTaken
<1>3. PostedInOrder'
    BY <1>1, <1>2, PostedFrame DEF ConservedInOrder
<1> QED
    BY <1>2, <1>3 DEF ConservedInOrder

LEMMA OrderUser == TypeInv /\ ConservedInOrder /\ User => ConservedInOrder'
<1> SUFFICES ASSUME TypeInv, ConservedInOrder, User PROVE ConservedInOrder'
    OBVIOUS
<1>0. /\ EventsOK /\ nextId \in Nat \ {0} /\ asks \in Nat
      /\ Served \in Nat /\ LastTaken \in Nat
    BY DEF TypeInv, TypeOK, Served, LastTaken
<1>1. ASSUME NEW k \in Kinds, Enqueue(k) PROVE ConservedInOrder'
    <2>1. /\ UNCHANGED <<finished, activeId, queue, pc>> /\ nextId' = nextId + 1
          /\ events' = Append(events, Event("enqueue", nextId, k))
        BY <1>1 DEF Enqueue, Post, queueVars, outVars
    <2>2. Served' = Served /\ LastTaken' = LastTaken
        BY <2>1 DEF Served, LastTaken, busy
    <2>3. PostedInOrder'
        BY <1>0, <2>1, <2>2, PostedIssue DEF ConservedInOrder
    <2> QED
        BY <1>0, <2>1, <2>2, <2>3 DEF ConservedInOrder, busy
<1>2. ASSUME NEW e \in EventSet, e.op # "enqueue", Post(e), Calls PROVE ConservedInOrder'
    <2>1. UNCHANGED <<finished, activeId, queue, nextId, pc>>
        BY <1>2 DEF Calls, queueVars, outVars
    <2> QED
        BY <1>2, <2>1, OrderFrame DEF Post, busy
<1>3. ASSUME NEW r \in Requests, Request(r) PROVE ConservedInOrder'
    <2>1. Event(r, asks', "none") \in EventSet /\ Event(r, asks', "none").op # "enqueue"
        BY <1>0, <1>3 DEF Event, EventSet, EventOps, AllRequests, Request
    <2> QED
        BY <1>2, <1>3, <2>1 DEF Request
<1>4. ASSUME NEW id \in Ids, CancelItem(id) \/ PauseItem(id) \/ ResumeItem(id)
      PROVE  ConservedInOrder'
    <2>1. ASSUME NEW op \in {"cancel", "pause", "resume"}
          PROVE  Event(op, id, "none") \in EventSet /\ Event(op, id, "none").op # "enqueue"
        BY DEF Event, EventSet, EventOps, Ids
    <2> QED
        BY <1>2, <1>4, <2>1 DEF CancelItem, PauseItem, ResumeItem
<1>5. CASE CancelAll
    <2>1. Event("cancelAll", 0, "none") \in EventSet /\ Event("cancelAll", 0, "none").op # "enqueue"
        BY DEF Event, EventSet, EventOps
    <2> QED
        BY <1>2, <1>5, <2>1 DEF CancelAll
<1>6. CASE Destroy
    <2>1. UNCHANGED <<finished, activeId, queue, nextId, pc, events>>
        BY <1>6 DEF Destroy, queueVars, outVars
    <2> QED
        BY <2>1, OrderFrame DEF busy
<1> QED
    BY <1>1, <1>3, <1>4, <1>5, <1>6 DEF User

LEMMA OrderWorker == TypeInv /\ ConservedInOrder /\ Worker => ConservedInOrder'
<1> SUFFICES ASSUME TypeInv, ConservedInOrder, Worker PROVE ConservedInOrder'
    OBVIOUS
<1>0. /\ EventsOK /\ nextId \in Nat \ {0} /\ Len(events) \in Nat /\ pass \in 0 .. Len(events)
      /\ Served \in Nat /\ LastTaken \in Nat /\ Len(queue) \in Nat /\ Len(finished) \in Nat
      /\ queue \in Seq([id : Nat, kind : AllKinds])
      /\ finished \in Seq([id : Nat, outcome : Outcomes])
    BY DEF TypeInv, TypeOK, EventsOK, Served, LastTaken
<1>d. Served \in Nat /\ LastTaken \in Nat /\ Len(queue) \in Nat /\ Len(finished) \in Nat
    BY <1>0
<1>1. ASSUME NEW op, Take(op), op # "enqueue"
      PROVE  ~busy /\ Len(events) > 0 /\ events[1].op # "enqueue"
    BY <1>0, <1>1 DEF Take, busy, EventsOK
<1>2. CASE StartPass \/ StopThread \/ SlotConnect \/ ConnectAgain \/ PumpIdle \/ MoveChunk \/ SecondStage
    <2>1. UNCHANGED <<finished, activeId, queue, nextId, events>> /\ (busy' <=> busy)
        BY <1>2 DEF StartPass, StopThread, SlotConnect, ConnectAgain, PumpIdle, MoveChunk,
                    SecondStage, Take, busy, guiVars, queueVars, outVars
    <2> QED
        BY <2>1, OrderFrame
<1>3. CASE SlotOperation \/ SlotSudo \/ SlotCancel \/ SlotCancelAll \/ SlotPause \/ SlotPump
    <2>1. Len(events) > 0 /\ events[1].op # "enqueue" /\ ~busy
        BY <1>1, <1>3 DEF SlotOperation, SlotSudo, SlotCancel, SlotCancelAll, SlotPause, SlotPump
    <2>2. UNCHANGED <<finished, activeId, queue, nextId>> /\ events' = Tail(events) /\ ~busy'
        BY <1>3, <2>1 DEF SlotOperation, SlotSudo, SlotCancel, SlotCancelAll, SlotPause, SlotPump,
                          busy, guiVars, queueVars, outVars
    <2> QED
        BY <2>1, <2>2, OrderFrame
<1>4. CASE ConnectEnds
    <2>1. Len(events) > 0 /\ events[1].op # "enqueue"
        BY <1>0, <1>4 DEF ConnectEnds, TypeInv, ConnectAtHead
    <2>2. UNCHANGED <<finished, activeId, queue, nextId>> /\ events' = Tail(events) /\ ~busy /\ ~busy'
        BY <1>4 DEF ConnectEnds, busy, guiVars, queueVars
    <2> QED
        BY <2>1, <2>2, OrderFrame
<1>5. CASE SlotEnqueue
    <2>1. /\ UNCHANGED <<finished, activeId, nextId, pc>> /\ Len(events) > 0
          /\ events[1] = Head(events) /\ events[1].op = "enqueue"
          /\ events' = Append(Tail(events), PumpEvent)
          /\ queue' = Append(queue, [id |-> events[1].id, kind |-> events[1].kind])
        BY <1>0, <1>5 DEF SlotEnqueue, Take, Queued, WithPump, EventsOK, guiVars, outVars
    <2>2. /\ Len(queue') = Len(queue) + 1 /\ queue'[Len(queue) + 1].id = events[1].id
          /\ \A k \in 1 .. Len(queue) : queue'[k] = queue[k]
        BY <1>0, <2>1
    <2>a. Served' = Served
        BY <2>1 DEF Served, busy
    <2>3. LastTaken' = LastTaken + 1 /\ LastTaken = Served + Len(queue)
        BY <1>0, <2>2, <2>a DEF LastTaken
    <2>4. events[1].id = LastTaken + 1 /\ LastTaken' < nextId /\ PostedInOrder'
        BY <1>0, <2>1, <2>3, PostedTaken DEF ConservedInOrder
    <2>5. ASSUME NEW k \in 1 .. Len(queue') PROVE queue'[k].id = Served' + k
        <3>1. CASE k = Len(queue) + 1
            <4>1. queue'[k].id = LastTaken + 1
                BY <2>2, <2>4, <3>1
            <4> QED
                BY <1>d, <2>a, <2>3, <3>1, <4>1
        <3>2. CASE k # Len(queue) + 1
            <4>1. k \in 1 .. Len(queue) /\ queue'[k] = queue[k]
                BY <1>d, <2>2, <3>2
            <4>2. queue[k].id = Served + k
                BY <4>1 DEF ConservedInOrder
            <4> QED
                BY <2>a, <4>1, <4>2
        <3> QED
            BY <3>1, <3>2
    <2> QED
        BY <2>1, <2>3, <2>4, <2>5 DEF ConservedInOrder, busy
<1>6. ASSUME queue # << >>
      PROVE  /\ Len(queue) > 0 /\ Head(queue) = queue[1] /\ Len(Tail(queue)) = Len(queue) - 1
             /\ \A k \in 1 .. Len(queue) - 1 : Tail(queue)[k] = queue[k + 1]
    BY <1>0, <1>6
<1>7. CASE DropHead
    <2>1. /\ UNCHANGED <<activeId, nextId, pc, events>> /\ ~busy /\ queue # << >>
          /\ queue' = Tail(queue)
          /\ finished' = Append(finished, [id |-> queue[1].id, outcome |-> "cancelled"])
        BY <1>6, <1>7 DEF DropHead, Finished, busy, guiVars
    <2>2. /\ Len(finished') = Len(finished) + 1
          /\ finished'[Len(finished) + 1].id = queue[1].id
          /\ \A k \in 1 .. Len(finished) : finished'[k] = finished[k]
        BY <1>0, <2>1
    <2>3. Served = Len(finished) /\ Served' = Served + 1 /\ LastTaken' = LastTaken
        BY <1>0, <1>6, <2>1, <2>2 DEF Served, LastTaken, busy
    <2>4. queue[1].id = Len(finished) + 1
        BY <1>0, <1>6, <2>1, <2>3 DEF ConservedInOrder
    <2>5. ASSUME NEW k \in 1 .. Len(finished') PROVE finished'[k].id = k
        <3>1. CASE k = Len(finished) + 1
            BY <2>1, <2>2, <2>4, <3>1
        <3>2. CASE k # Len(finished) + 1
            <4>1. k \in 1 .. Len(finished) /\ finished'[k] = finished[k]
                BY <1>d, <2>2, <3>2
            <4>2. finished[k].id = k
                BY <4>1 DEF ConservedInOrder
            <4> QED
                BY <4>1, <4>2
        <3> QED
            BY <3>1, <3>2
    <2>6. ASSUME NEW k \in 1 .. Len(queue') PROVE queue'[k].id = Served' + k
        <3>1. k \in 1 .. Len(queue) - 1 /\ queue'[k] = queue[k + 1]
            BY <1>6, <2>1
        <3>2. k + 1 \in 1 .. Len(queue)
            BY <1>d, <3>1
        <3>3. queue[k + 1].id = Served + (k + 1)
            BY <3>2 DEF ConservedInOrder
        <3> QED
            BY <1>d, <2>3, <3>1, <3>3
    <2>7. PostedInOrder'
        BY <1>0, <2>1, <2>3, PostedFrame DEF ConservedInOrder
    <2> QED
        BY <1>0, <2>1, <2>3, <2>5, <2>6, <2>7 DEF ConservedInOrder, busy
<1>8. CASE StartHead
    <2>1. /\ UNCHANGED <<finished, nextId, events>> /\ ~busy /\ busy' /\ queue # << >>
          /\ queue' = Tail(queue) /\ activeId' = queue[1].id
        BY <1>6, <1>8 DEF StartHead, busy, guiVars, outVars
    <2>2. Served = Len(finished) /\ Served' = Served + 1 /\ LastTaken' = LastTaken
        BY <1>0, <1>6, <2>1 DEF Served, LastTaken
    <2>3. queue[1].id = Len(finished) + 1
        BY <1>0, <1>6, <2>1, <2>2 DEF ConservedInOrder
    <2>4. ASSUME NEW k \in 1 .. Len(queue') PROVE queue'[k].id = Served' + k
        <3>1. k \in 1 .. Len(queue) - 1 /\ queue'[k] = queue[k + 1]
            BY <1>6, <2>1
        <3>2. k + 1 \in 1 .. Len(queue)
            BY <1>d, <3>1
        <3>3. queue[k + 1].id = Served + (k + 1)
            BY <3>2 DEF ConservedInOrder
        <3> QED
            BY <1>d, <2>2, <3>1, <3>3
    <2>5. PostedInOrder'
        BY <1>0, <2>1, <2>2, PostedFrame DEF ConservedInOrder
    <2> QED
        BY <1>0, <2>1, <2>2, <2>3, <2>4, <2>5 DEF ConservedInOrder
<1>9. ASSUME NEW o \in Outcomes, EndTransfer(o), busy PROVE ConservedInOrder'
    <2>1. /\ UNCHANGED <<nextId, queue>> /\ busy /\ ~busy' /\ activeId' = 0
          /\ events' = Append(events, PumpEvent)
          /\ finished' = Append(finished, [id |-> activeId, outcome |-> o])
        BY <1>9 DEF EndTransfer, Finished, WithPump, busy, guiVars
    <2>2. /\ Len(finished') = Len(finished) + 1
          /\ finished'[Len(finished) + 1].id = activeId
          /\ \A k \in 1 .. Len(finished) : finished'[k] = finished[k]
        BY <1>0, <2>1
    <2>3. Served' = Served /\ LastTaken' = LastTaken
        BY <1>0, <2>1, <2>2 DEF Served, LastTaken
    <2>4. activeId = Len(finished) + 1
        BY <1>0, <2>1 DEF ConservedInOrder
    <2>5. ASSUME NEW k \in 1 .. Len(finished') PROVE finished'[k].id = k
        <3>1. CASE k = Len(finished) + 1
            BY <2>1, <2>2, <2>4, <3>1
        <3>2. CASE k # Len(finished) + 1
            <4>1. k \in 1 .. Len(finished) /\ finished'[k] = finished[k]
                BY <1>d, <2>2, <3>2
            <4>2. finished[k].id = k
                BY <4>1 DEF ConservedInOrder
            <4> QED
                BY <4>1, <4>2
        <3> QED
            BY <3>1, <3>2
    <2>6. PumpEvent \in EventSet /\ PumpEvent.op # "enqueue"
        BY DEF PumpEvent, Event, EventSet, EventOps
    <2>7. PostedInOrder'
        BY <1>0, <2>1, <2>3, <2>6, PostedFrame DEF ConservedInOrder
    <2> QED
        BY <1>0, <2>1, <2>3, <2>5, <2>7 DEF ConservedInOrder
<1>10. CASE TransferDone \/ TransferStops
    BY <1>9, <1>10 DEF TransferDone, TransferStops, Outcomes
<1> QED
    BY <1>2, <1>3, <1>4, <1>5, <1>7, <1>8, <1>10 DEF Worker

OrderInv == TypeInv /\ ConservedInOrder

LEMMA OrderInit == Init => ConservedInOrder
<1> SUFFICES ASSUME Init PROVE ConservedInOrder
    OBVIOUS
<1>1. events = << >> /\ queue = << >> /\ finished = << >> /\ ~busy /\ activeId = 0 /\ nextId = 1
    BY DEF Init, busy
<1>2. Served = 0 /\ LastTaken = 0
    BY <1>1 DEF Served, LastTaken
<1>3. PostedInOrder
    BY <1>1, <1>2 DEF PostedInOrder, Posted
<1> QED
    BY <1>1, <1>2, <1>3 DEF ConservedInOrder

LEMMA OrderStep == OrderInv /\ [Next]_vars => OrderInv'
<1>1. CASE UNCHANGED vars
    BY <1>1, TypeStep, OrderFrame
       DEF OrderInv, vars, busy, guiVars, queueVars, outVars
<1> QED
    BY <1>1, TypeStep, OrderUser, OrderWorker DEF OrderInv, Next

\* No transfer is lost, served twice or out of turn, however many there are.
THEOREM ServedInOrder == Spec => []ConservedInOrder
<1>1. OrderInv => ConservedInOrder
    BY DEF OrderInv
<1>2. Init => OrderInv
    BY TypeInit, OrderInit DEF OrderInv
<1> QED
    BY OrderStep, <1>1, <1>2, PTL DEF Spec

-----------------------------------------------------------------------------
(***************************************************************************)
(* The reach of a cancel.  Every id in m_cancelled, in a cancel event, or  *)
(* that a cancelAll event will find in m_queue is one the user has named,  *)
(* and m_cancelFlag is clear whenever a transfer runs.                     *)
(***************************************************************************)

\* What is in m_queue, or will be when the i-th event is delivered, was issued
\* before that event was posted.
ReachOf(i) ==
    /\ \A k \in 1 .. Len(queue) : queue[k].id \in cancelAsked
    /\ \A j \in 1 .. Len(events) : Posted(j) /\ j < i => events[j].id \in cancelAsked

CancelKnown ==
    /\ busy => cancelFlag = FALSE
    /\ cancelled \subseteq cancelAsked
    /\ \A i \in 1 .. Len(events) : events[i].op = "cancel" => events[i].id \in cancelAsked
    /\ \A i \in 1 .. Len(events) : events[i].op = "cancelAll" => ReachOf(i)

CancelInv == OrderInv /\ CancelKnown /\ NoSpuriousCancel /\ HandledCancelHolds

\* The first two steps every lemma below needs.
LEMMA InvFacts ==
    ASSUME OrderInv
    PROVE  /\ events \in Seq(EventSet) /\ Len(events) \in Nat /\ pass \in 0 .. Len(events)
           /\ queue \in Seq([id : Nat, kind : AllKinds]) /\ Len(queue) \in Nat
           /\ finished \in Seq([id : Nat, outcome : Outcomes]) /\ Len(finished) \in Nat
           /\ nextId \in Nat \ {0} /\ Served \in Nat /\ LastTaken = Served + Len(queue)
           /\ \A k \in 1 .. Len(queue) : queue[k].id \in 1 .. (nextId - 1)
           /\ \A i \in 1 .. Len(events) : Posted(i) => events[i].id \in 1 .. (nextId - 1)
<1>1. /\ events \in Seq(EventSet) /\ Len(events) \in Nat /\ pass \in 0 .. Len(events)
      /\ queue \in Seq([id : Nat, kind : AllKinds]) /\ Len(queue) \in Nat
      /\ finished \in Seq([id : Nat, outcome : Outcomes]) /\ Len(finished) \in Nat
      /\ nextId \in Nat \ {0}
    BY DEF OrderInv, TypeInv, TypeOK, EventsOK
<1>2. Len(queue) \in Nat /\ Len(finished) \in Nat /\ Served \in Nat /\ LastTaken = Served + Len(queue)
    BY <1>1 DEF Served, LastTaken
<1>3. nextId \in Nat \ {0}
    BY <1>1
<1>4. ASSUME NEW k \in 1 .. Len(queue) PROVE queue[k].id \in 1 .. (nextId - 1)
    <2>1. queue[k].id = Served + k /\ LastTaken < nextId
        BY DEF OrderInv, ConservedInOrder
    <2> QED
        BY <1>2, <1>3, <2>1
<1>5. ASSUME NEW i \in 1 .. Len(events), Posted(i) PROVE events[i].id \in 1 .. (nextId - 1)
    <2>1. events[i].id \in (LastTaken + 1) .. (nextId - 1)
        BY <1>5 DEF OrderInv, ConservedInOrder, PostedInOrder
    <2> QED
        BY <1>2, <1>3, <2>1
<1> QED
    BY <1>1, <1>2, <1>4, <1>5

\* Appending an event that steers no cancel, asking for more cancels.
LEMMA ReachPost ==
    ASSUME OrderInv, CancelKnown, NEW e \in EventSet, events' = Append(events, e),
           UNCHANGED <<queue, cancelled, cancelFlag, pc>>, cancelAsked \subseteq cancelAsked',
           e.op = "cancel" => e.id \in cancelAsked',
           e.op = "cancelAll" => 1 .. (nextId - 1) \subseteq cancelAsked'
    PROVE  CancelKnown'
<1>1. /\ Len(events) \in Nat /\ Len(events') = Len(events) + 1
      /\ events'[Len(events) + 1] = e
      /\ \A i \in 1 .. Len(events) : events'[i] = events[i]
    BY InvFacts
<1>2. \A i \in 1 .. Len(events) : Posted(i)' <=> Posted(i)
    BY <1>1 DEF Posted
<1>3. (busy => cancelFlag = FALSE)' /\ cancelled' \subseteq cancelAsked'
    BY DEF CancelKnown, busy
<1>4. ASSUME NEW i \in 1 .. Len(events'), events'[i].op = "cancel" PROVE events'[i].id \in cancelAsked'
    <2>1. CASE i = Len(events) + 1
        BY <1>1, <1>4, <2>1
    <2>2. CASE i # Len(events) + 1
        <3>1. i \in 1 .. Len(events)
            BY <1>1, <2>2
        <3> QED
            BY <1>1, <1>4, <3>1 DEF CancelKnown
    <2> QED
        BY <2>1, <2>2
<1>5. ASSUME NEW i \in 1 .. Len(events'), events'[i].op = "cancelAll" PROVE ReachOf(i)'
    <2>1. CASE i = Len(events) + 1
        <3>1. 1 .. (nextId - 1) \subseteq cancelAsked'
            BY <1>1, <1>5, <2>1
        <3>2. \A k \in 1 .. Len(queue) : queue[k].id \in cancelAsked'
            BY <3>1, InvFacts
        <3>3. ASSUME NEW j \in 1 .. Len(events'), Posted(j)', j < i
              PROVE  events'[j].id \in cancelAsked'
            <4>1. j \in 1 .. Len(events)
                BY <1>1, <2>1, <3>3
            <4>2. Posted(j) /\ events'[j] = events[j]
                BY <1>1, <1>2, <3>3, <4>1
            <4> QED
                BY <3>1, <4>1, <4>2, InvFacts
        <3> QED
            BY <3>2, <3>3 DEF ReachOf
    <2>2. CASE i # Len(events) + 1
        <3>1. i \in 1 .. Len(events) /\ events[i].op = "cancelAll"
            BY <1>1, <1>5, <2>2
        <3>2. ReachOf(i)
            BY <3>1 DEF CancelKnown
        <3>3. ASSUME NEW j \in 1 .. Len(events'), Posted(j)', j < i
              PROVE  events'[j].id \in cancelAsked'
            <4>1. j \in 1 .. Len(events)
                BY <1>1, <3>1, <3>3
            <4>2. Posted(j) /\ events'[j] = events[j]
                BY <1>1, <1>2, <3>3, <4>1
            <4> QED
                BY <3>2, <3>3, <4>1, <4>2 DEF ReachOf
        <3> QED
            BY <3>2, <3>3 DEF ReachOf
    <2> QED
        BY <2>1, <2>2
<1> QED
    BY <1>3, <1>4, <1>5 DEF CancelKnown

\* Delivering an event: what the later ones reach is unchanged, and an item
\* that moves to m_queue was within reach of every cancelAll behind it.
LEMMA ReachTake ==
    ASSUME OrderInv, CancelKnown, Len(events) > 0,
           \/ /\ events' = Tail(events) /\ queue' = queue
           \/ /\ events' = Append(Tail(events), PumpEvent) /\ events[1].op = "enqueue"
              /\ queue' = Append(queue, [id |-> events[1].id, kind |-> events[1].kind]),
           cancelAsked' = cancelAsked, cancelled' \subseteq cancelAsked, ~busy'
    PROVE  CancelKnown'
<1>1. /\ Len(events) \in Nat /\ Len(queue) \in Nat /\ Len(events') \in {Len(events) - 1, Len(events)}
      /\ \A i \in 1 .. Len(events) - 1 : events'[i] = events[i + 1]
      /\ Len(events') = Len(events) => events'[Len(events)].op = "pump"
    <2>1. PumpEvent \in EventSet /\ PumpEvent.op = "pump"
        BY DEF PumpEvent, Event, EventSet, EventOps
    <2>2. /\ events \in Seq(EventSet) /\ Len(events) \in Nat /\ Len(queue) \in Nat
          /\ Tail(events) \in Seq(EventSet) /\ Len(Tail(events)) = Len(events) - 1
          /\ \A i \in 1 .. Len(events) - 1 : Tail(events)[i] = events[i + 1]
        BY InvFacts
    <2>n. Len(events) \in Nat /\ Len(queue) \in Nat
        BY InvFacts
    <2>3. CASE events' = Tail(events)
        <3>1. /\ Len(events') = Len(events) - 1
              /\ \A i \in 1 .. Len(events) - 1 : events'[i] = events[i + 1]
            BY <2>2, <2>3
        <3> QED
            BY <2>n, <3>1
    <2>4. CASE events' = Append(Tail(events), PumpEvent)
        <3> DEFINE t == Tail(events)
        <3>1. /\ t \in Seq(EventSet) /\ Len(t) = Len(events) - 1
              /\ \A i \in 1 .. Len(events) - 1 : t[i] = events[i + 1]
            BY <2>2
        <3> HIDE DEF t
        <3>2. /\ Len(Append(t, PumpEvent)) = Len(t) + 1 /\ Append(t, PumpEvent)[Len(t) + 1] = PumpEvent
              /\ \A i \in 1 .. Len(t) : Append(t, PumpEvent)[i] = t[i]
            BY <2>1, <3>1, AppendProperties
        <3>3. events' = Append(t, PumpEvent)
            BY <2>4 DEF t
        <3>4. Len(events') = Len(events) /\ events'[Len(events)] = PumpEvent
            BY <2>n, <3>1, <3>2, <3>3
        <3>5. ASSUME NEW i \in 1 .. Len(events) - 1 PROVE events'[i] = events[i + 1]
            BY <3>1, <3>2, <3>3
        <3> QED
            BY <2>1, <2>n, <3>4, <3>5
    <2> QED
        BY <2>3, <2>4
<1>2. \A i \in 1 .. Len(events') : events'[i].op # "pump" => i \in 1 .. Len(events) - 1
    BY <1>1
<1>3. ASSUME NEW i \in 1 .. Len(events'), events'[i].op = "cancel" PROVE events'[i].id \in cancelAsked'
    <2>1. i \in 1 .. Len(events) - 1 /\ i + 1 \in 1 .. Len(events) /\ events'[i] = events[i + 1]
        BY <1>1, <1>2, <1>3
    <2> QED
        BY <1>3, <2>1 DEF CancelKnown
<1>4. ASSUME NEW i \in 1 .. Len(events'), events'[i].op = "cancelAll" PROVE ReachOf(i)'
    <2>1. i \in 1 .. Len(events) - 1 /\ i + 1 \in 1 .. Len(events) /\ events'[i] = events[i + 1]
        BY <1>1, <1>2, <1>4
    <2>2. ReachOf(i + 1)
        BY <1>4, <2>1 DEF CancelKnown
    <2>3. ASSUME NEW k \in 1 .. Len(queue') PROVE queue'[k].id \in cancelAsked'
        <3>1. CASE queue' = queue
            BY <2>2, <3>1 DEF ReachOf
        <3>2. CASE /\ events[1].op = "enqueue"
                   /\ queue' = Append(queue, [id |-> events[1].id, kind |-> events[1].kind])
            <4>1. /\ Len(queue') = Len(queue) + 1 /\ queue'[Len(queue) + 1].id = events[1].id
                  /\ \A n \in 1 .. Len(queue) : queue'[n] = queue[n]
                BY <3>2, InvFacts
            <4>2. Posted(1) /\ 1 < i + 1 /\ 1 \in 1 .. Len(events)
                BY <1>1, <2>1, <3>2 DEF Posted
            <4>3. events[1].id \in cancelAsked
                BY <2>2, <4>2 DEF ReachOf
            <4>4. CASE k = Len(queue) + 1
                BY <4>1, <4>3, <4>4
            <4>5. CASE k # Len(queue) + 1
                <5>1. k \in 1 .. Len(queue)
                    BY <1>1, <4>1, <4>5
                <5> QED
                    BY <2>2, <4>1, <5>1 DEF ReachOf
            <4> QED
                BY <4>4, <4>5
        <3> QED
            BY <3>1, <3>2
    <2>4. ASSUME NEW j \in 1 .. Len(events'), Posted(j)', j < i
          PROVE  events'[j].id \in cancelAsked'
        <3>1. j \in 1 .. Len(events) - 1 /\ j + 1 \in 1 .. Len(events) /\ events'[j] = events[j + 1]
            BY <1>1, <2>1, <2>4
        <3>2. Posted(j + 1) /\ j + 1 < i + 1
            BY <2>1, <2>4, <3>1 DEF Posted
        <3> QED
            BY <2>2, <3>1, <3>2 DEF ReachOf
    <2> QED
        BY <2>3, <2>4 DEF ReachOf
<1> QED
    BY <1>3, <1>4 DEF CancelKnown

LEMMA CancelUser == CancelInv /\ User => CancelKnown' /\ NoSpuriousCancel' /\ HandledCancelHolds'
<1> SUFFICES ASSUME CancelInv, User
             PROVE  CancelKnown' /\ NoSpuriousCancel' /\ HandledCancelHolds'
    OBVIOUS
<1>0. /\ OrderInv /\ CancelKnown /\ NoSpuriousCancel /\ HandledCancelHolds
      /\ nextId \in Nat \ {0} /\ asks \in Nat
    BY DEF CancelInv, OrderInv, TypeInv, TypeOK
<1>1. ASSUME UNCHANGED <<finished, pc, activeId, cancelled>>, cancelAsked \subseteq cancelAsked'
      PROVE  NoSpuriousCancel' /\ HandledCancelHolds'
    BY <1>0, <1>1 DEF NoSpuriousCancel, HandledCancelHolds, busy
<1>2. ASSUME NEW k \in Kinds, Enqueue(k)
      PROVE  CancelKnown' /\ NoSpuriousCancel' /\ HandledCancelHolds'
    <2>1. Event("enqueue", nextId, k) \in EventSet /\ Event("enqueue", nextId, k).op = "enqueue"
        BY <1>0 DEF Event, EventSet, EventOps
    <2>2. /\ UNCHANGED <<queue, cancelled, cancelFlag, pc, finished, activeId, cancelAsked>>
          /\ events' = Append(events, Event("enqueue", nextId, k))
        BY <1>2 DEF Enqueue, Post, queueVars, flagVars, outVars, historyVars
    <2> QED
        BY <1>0, <1>1, <2>1, <2>2, ReachPost
<1>3. ASSUME NEW e \in EventSet, Post(e), Calls, cancelAsked \subseteq cancelAsked',
             e.op = "cancel" => e.id \in cancelAsked',
             e.op = "cancelAll" => 1 .. (nextId - 1) \subseteq cancelAsked'
      PROVE  CancelKnown' /\ NoSpuriousCancel' /\ HandledCancelHolds'
    <2>1. /\ UNCHANGED <<queue, cancelled, cancelFlag, pc, finished, activeId>>
          /\ events' = Append(events, e)
        BY <1>3 DEF Calls, Post, queueVars, flagVars, outVars
    <2> QED
        BY <1>0, <1>1, <1>3, <2>1, ReachPost
<1>4. ASSUME NEW r \in Requests, Request(r)
      PROVE  CancelKnown' /\ NoSpuriousCancel' /\ HandledCancelHolds'
    <2>1. /\ Event(r, asks', "none") \in EventSet
          /\ Event(r, asks', "none").op \notin {"cancel", "cancelAll"}
        BY <1>0, <1>4 DEF Event, EventSet, EventOps, AllRequests, Request
    <2> QED
        BY <1>3, <1>4, <2>1 DEF Request, historyVars
<1>5. ASSUME NEW id \in Ids, CancelItem(id) \/ PauseItem(id) \/ ResumeItem(id)
      PROVE  CancelKnown' /\ NoSpuriousCancel' /\ HandledCancelHolds'
    <2>1. ASSUME NEW op \in {"cancel", "pause", "resume"}
          PROVE  /\ Event(op, id, "none") \in EventSet /\ Event(op, id, "none").op = op
                 /\ Event(op, id, "none").id = id
        BY DEF Event, EventSet, EventOps, Ids
    <2>2. CASE CancelItem(id)
        BY <1>3, <2>1, <2>2 DEF CancelItem
    <2>3. CASE PauseItem(id)
        BY <1>3, <2>1, <2>3 DEF PauseItem
    <2>4. CASE ResumeItem(id)
        BY <1>3, <2>1, <2>4 DEF ResumeItem
    <2> QED
        BY <1>5, <2>2, <2>3, <2>4
<1>6. CASE CancelAll
    <2>1. Event("cancelAll", 0, "none") \in EventSet /\ Event("cancelAll", 0, "none").op = "cancelAll"
        BY DEF Event, EventSet, EventOps
    <2> QED
        BY <1>3, <1>6, <2>1 DEF CancelAll
<1>7. CASE Destroy
    <2>1. UNCHANGED <<queue, cancelled, cancelFlag, pc, finished, activeId, cancelAsked, events>>
        BY <1>7 DEF Destroy, queueVars, flagVars, outVars, historyVars
    <2> QED
        BY <1>0, <1>1, <2>1 DEF CancelKnown, ReachOf, Posted, busy
<1> QED
    BY <1>2, <1>4, <1>5, <1>6, <1>7 DEF User

LEMMA CancelWorker == CancelInv /\ Worker => CancelKnown' /\ NoSpuriousCancel' /\ HandledCancelHolds'
<1> SUFFICES ASSUME CancelInv, Worker
             PROVE  CancelKnown' /\ NoSpuriousCancel' /\ HandledCancelHolds'
    OBVIOUS
<1>0. /\ OrderInv /\ CancelKnown /\ NoSpuriousCancel /\ HandledCancelHolds
      /\ Len(events) \in Nat /\ events \in Seq(EventSet) /\ pass \in 0 .. Len(events)
    BY InvFacts DEF CancelInv
<1>1. ASSUME NEW op, Take(op)
      PROVE  ~busy /\ Len(events) > 0 /\ events[1] = Head(events) /\ events[1].op = op
    BY <1>0, <1>1 DEF Take, busy
<1>2. ASSUME UNCHANGED finished, cancelAsked' = cancelAsked PROVE NoSpuriousCancel'
    BY <1>0, <1>2 DEF NoSpuriousCancel
<1>3. CASE StartPass \/ StopThread \/ SlotConnect \/ ConnectAgain \/ PumpIdle \/ MoveChunk \/ SecondStage
    <2>1. /\ UNCHANGED <<queue, cancelled, cancelFlag, finished, activeId, cancelAsked, events>>
          /\ busy' <=> busy
        BY <1>3 DEF StartPass, StopThread, SlotConnect, ConnectAgain, PumpIdle, MoveChunk, SecondStage,
                    Take, busy, queueVars, flagVars, outVars, historyVars
    <2>2. HandledCancelHolds'
        BY <1>0, <2>1 DEF HandledCancelHolds
    <2>3. CancelKnown'
        BY <1>0, <2>1 DEF CancelKnown, ReachOf, Posted
    <2> QED
        BY <1>2, <2>1, <2>2, <2>3
<1>4. CASE SlotOperation \/ SlotSudo \/ SlotPause \/ SlotPump \/ ConnectEnds
    <2>1. Len(events) > 0
        BY <1>0, <1>1, <1>4 DEF SlotOperation, SlotSudo, SlotPause, SlotPump, ConnectEnds,
                                CancelInv, OrderInv, TypeInv, ConnectAtHead
    <2>2. /\ UNCHANGED <<queue, cancelled, finished, cancelAsked>> /\ events' = Tail(events) /\ ~busy'
        BY <1>1, <1>4 DEF SlotOperation, SlotSudo, SlotPause, SlotPump, ConnectEnds, busy,
                          queueVars, flagVars, outVars, historyVars
    <2>3. CancelKnown'
        BY <1>0, <2>1, <2>2, ReachTake DEF CancelKnown
    <2> QED
        BY <1>2, <2>2, <2>3 DEF HandledCancelHolds
<1>5. CASE SlotEnqueue
    <2>1. /\ Len(events) > 0 /\ events[1].op = "enqueue" /\ ~busy'
          /\ UNCHANGED <<cancelled, finished, cancelAsked>>
          /\ events' = Append(Tail(events), PumpEvent)
          /\ queue' = Append(queue, [id |-> events[1].id, kind |-> events[1].kind])
        BY <1>1, <1>5 DEF SlotEnqueue, WithPump, Queued, busy, outVars, historyVars
    <2>2. CancelKnown'
        BY <1>0, <2>1, ReachTake DEF CancelKnown
    <2> QED
        BY <1>2, <2>1, <2>2 DEF HandledCancelHolds
<1>6. CASE SlotCancel
    <2>1. /\ Len(events) > 0 /\ events[1].op = "cancel" /\ ~busy'
          /\ UNCHANGED <<queue, finished, cancelAsked>> /\ events' = Tail(events)
          /\ cancelled' = cancelled \union {events[1].id}
        BY <1>1, <1>6 DEF SlotCancel, busy, outVars, historyVars
    <2>2. cancelled' \subseteq cancelAsked
        BY <1>0, <2>1 DEF CancelKnown
    <2>3. CancelKnown'
        BY <1>0, <2>1, <2>2, ReachTake
    <2> QED
        BY <1>2, <2>1, <2>3 DEF HandledCancelHolds
<1>7. CASE SlotCancelAll
    <2>1. /\ Len(events) > 0 /\ events[1].op = "cancelAll" /\ ~busy'
          /\ UNCHANGED <<queue, finished, cancelAsked>> /\ events' = Tail(events)
          /\ cancelled' = cancelled \union {queue[i].id : i \in DOMAIN queue}
        BY <1>1, <1>7 DEF SlotCancelAll, busy, outVars, historyVars
    <2>2. \A k \in 1 .. Len(queue) : queue[k].id \in cancelAsked
        BY <1>0, <2>1 DEF CancelKnown, ReachOf
    <2>3. DOMAIN queue = 1 .. Len(queue)
        BY <1>0, InvFacts
    <2>4. cancelled' \subseteq cancelAsked
        BY <1>0, <2>1, <2>2, <2>3 DEF CancelKnown
    <2>5. CancelKnown'
        BY <1>0, <2>1, <2>4, ReachTake
    <2> QED
        BY <1>2, <2>1, <2>5 DEF HandledCancelHolds
<1>8. ASSUME NEW id, NEW o, finished' = Append(finished, [id |-> id, outcome |-> o]),
             o = "cancelled" => id \in cancelAsked, cancelAsked' = cancelAsked
      PROVE  NoSpuriousCancel'
    <2>1. finished \in Seq([id : Nat, outcome : Outcomes]) /\ Len(finished) \in Nat
        BY <1>0, InvFacts
    <2>2. /\ Len(finished') = Len(finished) + 1
          /\ finished'[Len(finished) + 1] = [id |-> id, outcome |-> o]
          /\ \A k \in 1 .. Len(finished) : finished'[k] = finished[k]
        BY <1>8, <2>1, AppendProperties
    <2>3. ASSUME NEW k \in 1 .. Len(finished'), finished'[k].outcome = "cancelled"
          PROVE  finished'[k].id \in cancelAsked'
        <3>1. CASE k = Len(finished) + 1
            BY <1>8, <2>2, <2>3, <3>1
        <3>2. CASE k # Len(finished) + 1
            <4>1. k \in 1 .. Len(finished)
                BY <2>1, <2>2, <3>2
            <4> QED
                BY <1>0, <1>8, <2>2, <2>3, <4>1 DEF NoSpuriousCancel
        <3> QED
            BY <3>1, <3>2
    <2> QED
        BY <2>3 DEF NoSpuriousCancel
<1>9. ASSUME queue # << >>
      PROVE  /\ Len(queue) \in Nat /\ Len(queue) > 0 /\ Head(queue) = queue[1]
             /\ Len(Tail(queue)) = Len(queue) - 1
             /\ \A k \in 1 .. Len(queue) - 1 : Tail(queue)[k] = queue[k + 1]
    BY <1>0, <1>9, InvFacts
<1>10. ASSUME queue # << >>, queue' = Tail(queue), UNCHANGED <<events, cancelAsked>>,
              NEW i \in 1 .. Len(events), ReachOf(i)
       PROVE  ReachOf(i)'
    <2>1. ASSUME NEW k \in 1 .. Len(queue') PROVE queue'[k].id \in cancelAsked'
        <3>1. k + 1 \in 1 .. Len(queue) /\ queue'[k] = queue[k + 1]
            BY <1>9, <1>10
        <3> QED
            BY <1>10, <3>1 DEF ReachOf
    <2> QED
        BY <1>10, <2>1 DEF ReachOf, Posted
<1>11. CASE DropHead
    <2>1. /\ UNCHANGED <<events, cancelled, cancelAsked>> /\ ~busy' /\ queue # << >>
          /\ queue' = Tail(queue) /\ Head(queue).id \in cancelled
          /\ finished' = Append(finished, [id |-> Head(queue).id, outcome |-> "cancelled"])
        BY <1>11 DEF DropHead, Dropped, Finished, busy, historyVars
    <2>2. CancelKnown'
        BY <1>0, <1>10, <2>1 DEF CancelKnown
    <2>3. NoSpuriousCancel'
        BY <1>0, <1>8, <2>1 DEF CancelKnown
    <2> QED
        BY <2>1, <2>2, <2>3 DEF HandledCancelHolds
<1>12. CASE StartHead
    <2>1. /\ UNCHANGED <<events, cancelled, cancelAsked, finished>> /\ queue # << >>
          /\ queue' = Tail(queue) /\ Head(queue).id \notin cancelled
          /\ activeId' = Head(queue).id /\ cancelFlag' = FALSE
        BY <1>12 DEF StartHead, Dropped, ResetFlags, outVars, historyVars
    <2>2. CancelKnown'
        BY <1>0, <1>10, <2>1 DEF CancelKnown
    <2> QED
        BY <1>2, <2>1, <2>2 DEF HandledCancelHolds
<1>13. ASSUME NEW o \in Outcomes, EndTransfer(o), o # "cancelled"
       PROVE  CancelKnown' /\ NoSpuriousCancel' /\ HandledCancelHolds'
    <2>1. /\ UNCHANGED <<queue, cancelled, cancelAsked>> /\ ~busy'
          /\ events' = Append(events, PumpEvent)
          /\ finished' = Append(finished, [id |-> activeId, outcome |-> o])
        BY <1>13 DEF EndTransfer, Finished, WithPump, busy
    <2>2. PumpEvent \in EventSet /\ PumpEvent.op = "pump"
        BY DEF PumpEvent, Event, EventSet, EventOps
    <2>3. /\ Len(events') = Len(events) + 1 /\ events'[Len(events) + 1].op = "pump"
          /\ \A i \in 1 .. Len(events) : events'[i] = events[i]
        BY <1>0, <2>1, <2>2
    <2>4. \A i \in 1 .. Len(events') : events'[i].op # "pump" => i \in 1 .. Len(events)
        BY <1>0, <2>3
    <2>5. ASSUME NEW i \in 1 .. Len(events'), events'[i].op = "cancelAll" PROVE ReachOf(i)'
        <3>1. i \in 1 .. Len(events) /\ ReachOf(i)
            BY <1>0, <2>3, <2>4, <2>5 DEF CancelKnown
        <3>2. ASSUME NEW j \in 1 .. Len(events'), Posted(j)' PROVE j \in 1 .. Len(events) /\ Posted(j)
            BY <2>3, <2>4, <3>2 DEF Posted
        <3> QED
            BY <2>1, <2>3, <3>1, <3>2 DEF ReachOf
    <2>6. ASSUME NEW i \in 1 .. Len(events'), events'[i].op = "cancel" PROVE events'[i].id \in cancelAsked'
        BY <1>0, <2>1, <2>3, <2>4, <2>6 DEF CancelKnown
    <2>7. CancelKnown'
        BY <1>0, <2>1, <2>5, <2>6 DEF CancelKnown
    <2> QED
        BY <1>8, <1>13, <2>1, <2>7 DEF HandledCancelHolds
<1>14. CASE TransferDone
    BY <1>13, <1>14 DEF TransferDone, Outcomes
<1>15. CASE TransferStops
    <2>1. EndTransfer("failed")
        BY <1>0, <1>15 DEF TransferStops, CancelKnown
    <2> QED
        BY <1>13, <2>1 DEF Outcomes
<1> QED
    BY <1>3, <1>4, <1>5, <1>6, <1>7, <1>11, <1>12, <1>14, <1>15 DEF Worker

LEMMA CancelStep == CancelInv /\ [Next]_vars => CancelInv'
<1>1. CASE UNCHANGED vars
    BY <1>1, OrderStep DEF CancelInv, CancelKnown, ReachOf, Posted, NoSpuriousCancel, HandledCancelHolds,
                           vars, busy, queueVars, flagVars, outVars, historyVars
<1> QED
    BY <1>1, OrderStep, CancelUser, CancelWorker DEF CancelInv, Next

LEMMA CancelInit == Init => CancelInv
<1> SUFFICES ASSUME Init PROVE CancelInv
    OBVIOUS
<1>1. OrderInv
    BY TypeInit, OrderInit DEF OrderInv
<1>2. events = << >> /\ finished = << >> /\ cancelled = {} /\ ~busy
    BY DEF Init, busy
<1> QED
    BY <1>1, <1>2 DEF CancelInv, CancelKnown, NoSpuriousCancel, HandledCancelHolds

\* A transfer reported as cancelled is one the user asked to cancel, whatever
\* flag an earlier cancelAll has left behind.
THEOREM CancelsAreAsked == Spec => []NoSpuriousCancel
<1>1. CancelInv => NoSpuriousCancel
    BY DEF CancelInv
<1> QED
    BY CancelInit, CancelStep, <1>1, PTL DEF Spec

\* pump() never runs a transfer whose cancel the worker has already taken.
THEOREM CancelledNeverRuns == Spec => []HandledCancelHolds
<1>1. CancelInv => HandledCancelHolds
    BY DEF CancelInv
<1> QED
    BY CancelInit, CancelStep, <1>1, PTL DEF Spec

-----------------------------------------------------------------------------
(* No lost wake-up. *)

PumpPosted == \E i \in 1 .. Len(events) : events[i].op = "pump"

\* Only delivering the last pump takes the last pump away.
LEMMA PumpFrame ==
    ASSUME OrderInv,
           \/ events' = events /\ PumpPosted
           \/ events' = Tail(events) /\ Len(events) > 0 /\ events[1].op # "pump" /\ PumpPosted
           \/ \E e \in EventSet : events' = Append(events, e) /\ (PumpPosted \/ e.op = "pump")
           \/ events' = Append(Tail(events), PumpEvent) /\ Len(events) > 0
    PROVE  PumpPosted'
<1>1. events \in Seq(EventSet) /\ Len(events) \in Nat
    BY InvFacts
<1>2. CASE events' = events /\ PumpPosted
    BY <1>2 DEF PumpPosted
<1>3. CASE events' = Tail(events) /\ Len(events) > 0 /\ events[1].op # "pump" /\ PumpPosted
    <2>1. PICK i \in 1 .. Len(events) : events[i].op = "pump"
        BY <1>3 DEF PumpPosted
    <2>2. i - 1 \in 1 .. Len(events') /\ events'[i - 1] = events[i]
        BY <1>1, <1>3, <2>1
    <2> QED
        BY <2>1, <2>2 DEF PumpPosted
<1>4. ASSUME NEW e \in EventSet, events' = Append(events, e), PumpPosted \/ e.op = "pump"
      PROVE  PumpPosted'
    <2>1. /\ Len(events') = Len(events) + 1 /\ events'[Len(events) + 1] = e
          /\ \A i \in 1 .. Len(events) : events'[i] = events[i]
        BY <1>1, <1>4
    <2>2. CASE e.op = "pump"
        BY <1>1, <2>1, <2>2 DEF PumpPosted
    <2>3. CASE PumpPosted
        <3>1. PICK i \in 1 .. Len(events) : events[i].op = "pump"
            BY <2>3 DEF PumpPosted
        <3>2. i \in 1 .. Len(events')
            BY <1>1, <2>1
        <3> QED
            BY <2>1, <3>1, <3>2 DEF PumpPosted
    <2> QED
        BY <1>4, <2>2, <2>3
<1>5. CASE events' = Append(Tail(events), PumpEvent) /\ Len(events) > 0
    <2>1. PumpEvent \in EventSet /\ PumpEvent.op = "pump"
        BY DEF PumpEvent, Event, EventSet, EventOps
    <2>2. Tail(events) \in Seq(EventSet) /\ Len(Tail(events)) \in Nat
        BY <1>1, <1>5
    <2>3. /\ Len(events') = Len(Tail(events)) + 1
          /\ events'[Len(Tail(events)) + 1] = PumpEvent
        BY <1>5, <2>1, <2>2, AppendProperties
    <2>4. Len(Tail(events)) + 1 \in 1 .. Len(events')
        BY <2>2, <2>3
    <2> QED
        BY <2>1, <2>3, <2>4 DEF PumpPosted
<1> QED
    BY <1>2, <1>3, <1>4, <1>5

LEMMA PumpStep == OrderInv /\ PumpPending /\ [Next]_vars => PumpPending'
<1> SUFFICES ASSUME OrderInv, PumpPending, [Next]_vars,
                    pc' \in {"loop", "connecting"}, queue' # << >>
             PROVE  PumpPosted'
    BY DEF PumpPending, PumpPosted
<1>0. /\ pc \in {"loop", "connecting"} /\ queue # << >> => PumpPosted
      /\ events \in Seq(EventSet) /\ Len(events) \in Nat /\ pass \in 0 .. Len(events)
      /\ nextId \in Nat /\ asks \in Nat
    BY InvFacts DEF PumpPending, PumpPosted, OrderInv, TypeInv, TypeOK
<1>1. ASSUME NEW op, Take(op)
      PROVE  pc = "loop" /\ Len(events) > 0 /\ events[1].op = op
    BY <1>0, <1>1 DEF Take
<1>2. ASSUME NEW e \in EventSet, Post(e), UNCHANGED <<pc, queue>> PROVE PumpPosted'
    BY <1>0, <1>2, PumpFrame DEF Post
<1>3. CASE User
    <2>1. ASSUME NEW k \in Kinds, Enqueue(k) PROVE PumpPosted'
        <3>1. Event("enqueue", nextId, k) \in EventSet
            BY <1>0 DEF Event, EventSet, EventOps
        <3> QED
            BY <1>2, <2>1, <3>1 DEF Enqueue, queueVars
    <2>2. ASSUME NEW r \in Requests, Request(r) PROVE PumpPosted'
        <3>1. Event(r, asks', "none") \in EventSet
            BY <1>0, <2>2 DEF Event, EventSet, EventOps, AllRequests, Request
        <3> QED
            BY <1>2, <2>2, <3>1 DEF Request, Calls, queueVars
    <2>3. ASSUME NEW id \in Ids, CancelItem(id) \/ PauseItem(id) \/ ResumeItem(id) PROVE PumpPosted'
        <3>1. ASSUME NEW op \in {"cancel", "pause", "resume"} PROVE Event(op, id, "none") \in EventSet
            BY DEF Event, EventSet, EventOps, Ids
        <3> QED
            BY <1>2, <2>3, <3>1 DEF CancelItem, PauseItem, ResumeItem, Calls, queueVars
    <2>4. CASE CancelAll
        <3>1. Event("cancelAll", 0, "none") \in EventSet
            BY DEF Event, EventSet, EventOps
        <3> QED
            BY <1>2, <2>4, <3>1 DEF CancelAll, Calls, queueVars
    <2>5. CASE Destroy
        BY <1>0, <2>5, PumpFrame DEF Destroy, queueVars
    <2> QED
        BY <1>3, <2>1, <2>2, <2>3, <2>4, <2>5 DEF User
<1>4. CASE StartPass \/ SlotConnect \/ ConnectAgain \/ UNCHANGED vars
    BY <1>0, <1>4, PumpFrame DEF StartPass, SlotConnect, ConnectAgain, Take, vars, queueVars
<1>5. CASE SlotOperation \/ SlotSudo \/ SlotCancel \/ SlotCancelAll \/ SlotPause
    <2>1. /\ pc = "loop" /\ Len(events) > 0 /\ events[1].op # "pump"
        BY <1>1, <1>5 DEF SlotOperation, SlotSudo, SlotCancel, SlotCancelAll, SlotPause
    <2>2. queue' = queue /\ events' = Tail(events)
        BY <1>5 DEF SlotOperation, SlotSudo, SlotCancel, SlotCancelAll, SlotPause, queueVars
    <2> QED
        BY <1>0, <2>1, <2>2, PumpFrame
<1>6. CASE ConnectEnds
    <2>1. /\ pc = "connecting" /\ Len(events) > 0 /\ events[1].op = "connect"
          /\ queue' = queue /\ events' = Tail(events)
        BY <1>0, <1>6 DEF ConnectEnds, queueVars, OrderInv, TypeInv, ConnectAtHead
    <2> QED
        BY <1>0, <2>1, PumpFrame
<1>7. CASE SlotEnqueue
    <2>1. Len(events) > 0 /\ events' = Append(Tail(events), PumpEvent)
        BY <1>1, <1>7 DEF SlotEnqueue, WithPump
    <2> QED
        BY <2>1, PumpFrame
<1>8. CASE TransferDone \/ TransferStops
    <2>1. PumpEvent \in EventSet /\ PumpEvent.op = "pump"
        BY DEF PumpEvent, Event, EventSet, EventOps
    <2>2. events' = Append(events, PumpEvent)
        BY <1>8 DEF TransferDone, TransferStops, EndTransfer, WithPump
    <2> QED
        BY <2>1, <2>2, PumpFrame
<1>9. CASE PumpIdle
    BY <1>9 DEF PumpIdle, queueVars
<1>10. CASE StopThread \/ SlotPump \/ DropHead \/ StartHead \/ MoveChunk \/ SecondStage
    BY <1>10 DEF StopThread, SlotPump, DropHead, StartHead, MoveChunk, SecondStage, busy
<1> QED
    BY <1>3, <1>4, <1>5, <1>6, <1>7, <1>8, <1>9, <1>10 DEF Next, Worker

\* The queue is never forgotten: an idle worker has a pump() coming.
THEOREM PumpAlwaysPending == Spec => []PumpPending
<1>1. Init => OrderInv /\ PumpPending
    BY TypeInit, OrderInit DEF OrderInv, Init, PumpPending
<1>2. OrderInv /\ PumpPending /\ [Next]_vars => (OrderInv /\ PumpPending)'
    BY OrderStep, PumpStep
<1> QED
    BY <1>1, <1>2, PTL DEF Spec

-----------------------------------------------------------------------------
(***************************************************************************)
(* Every request has its answer.  The requests still in events carry, in   *)
(* order, exactly the numbers that have not been answered.                 *)
(***************************************************************************)

Asked(i) == i \in 1 .. Len(events) /\ events[i].op \in AllRequests

\* With a count of its events this is AnswersInOrder; counting does not survive
\* a step, which shifts every event by one place.
AskedInOrder ==
    /\ Len(answers) <= asks
    /\ \A k \in 1 .. Len(answers) : answers[k] = k
    /\ \A i \in 1 .. Len(events) : Asked(i) => events[i].id \in (Len(answers) + 1) .. asks
    /\ \A i, j \in 1 .. Len(events) :
           Asked(i) /\ Asked(j) /\ i < j => events[i].id < events[j].id
    /\ \A n \in (Len(answers) + 1) .. asks :
           \E i \in 1 .. Len(events) : Asked(i) /\ events[i].id = n

\* Steps that add or take away no request.
LEMMA AskedFrame ==
    ASSUME TypeInv, AskedInOrder, UNCHANGED <<asks, answers>>,
           \/ events' = events
           \/ events' = Tail(events) /\ Len(events) > 0 /\ events[1].op \notin AllRequests
           \/ \E e \in EventSet : e.op \notin AllRequests /\ events' = Append(events, e)
           \/ /\ Len(events) > 0 /\ events[1].op \notin AllRequests
              /\ events' = Append(Tail(events), PumpEvent)
    PROVE  AskedInOrder'
<1>1. /\ events \in Seq(EventSet) /\ Len(events) \in Nat /\ asks \in Nat
      /\ answers \in Seq(Nat) /\ Len(answers) \in Nat
    BY DEF TypeInv, TypeOK, EventsOK
<1>2. CASE events' = events
    BY <1>2 DEF AskedInOrder, Asked
<1>3. ASSUME NEW m \in {0, 1}, NEW n \in Nat, n = Len(events) - m,
             \A i \in 1 .. n : events'[i] = events[i + m],
             m = 1 => events[1].op \notin AllRequests,
             Len(events') \in {n, n + 1},
             Len(events') = n + 1 => events'[n + 1].op \notin AllRequests
      PROVE  AskedInOrder'
    <2>1. \A i \in 1 .. Len(events') :
              Asked(i)' <=> i \in 1 .. n /\ Asked(i + m)
        BY <1>1, <1>3 DEF Asked
    <2>2. ASSUME NEW i \in 1 .. Len(events'), Asked(i)'
          PROVE  events'[i].id \in (Len(answers') + 1) .. asks'
        <3>1. i \in 1 .. n /\ Asked(i + m) /\ i + m \in 1 .. Len(events) /\ events'[i] = events[i + m]
            BY <1>1, <1>3, <2>1, <2>2
        <3> QED
            BY <3>1 DEF AskedInOrder
    <2>3. ASSUME NEW i \in 1 .. Len(events'), NEW j \in 1 .. Len(events'),
                 Asked(i)', Asked(j)', i < j
          PROVE  events'[i].id < events'[j].id
        <3>1. /\ Asked(i + m) /\ i + m \in 1 .. Len(events) /\ events'[i] = events[i + m]
              /\ Asked(j + m) /\ j + m \in 1 .. Len(events) /\ events'[j] = events[j + m]
              /\ i + m < j + m
            BY <1>1, <1>3, <2>1, <2>3
        <3> QED
            BY <3>1 DEF AskedInOrder
    <2>4. ASSUME NEW k \in (Len(answers') + 1) .. asks'
          PROVE  \E i \in 1 .. Len(events') : Asked(i)' /\ events'[i].id = k
        <3>1. PICK i \in 1 .. Len(events) : Asked(i) /\ events[i].id = k
            BY DEF AskedInOrder
        <3>2. i - m \in 1 .. n
            BY <1>1, <1>3, <3>1 DEF Asked
        <3>3. i - m \in 1 .. Len(events') /\ events'[i - m] = events[i] /\ Asked(i - m)'
            BY <1>1, <1>3, <2>1, <3>1, <3>2
        <3> QED
            BY <3>1, <3>3
    <2> QED
        BY <1>1, <2>2, <2>3, <2>4 DEF AskedInOrder
<1>4. CASE events' = Tail(events) /\ Len(events) > 0 /\ events[1].op \notin AllRequests
    <2>1. /\ Len(events') = Len(events) - 1
          /\ \A i \in 1 .. Len(events) - 1 : events'[i] = events[i + 1]
        BY <1>1, <1>4
    <2>2. 1 \in {0, 1} /\ Len(events) - 1 \in Nat /\ Len(events') # Len(events) - 1 + 1
        BY <1>1, <1>4, <2>1
    <2> QED
        BY <1>3, <1>4, <2>1, <2>2
<1>5. ASSUME NEW e \in EventSet, e.op \notin AllRequests, events' = Append(events, e)
      PROVE  AskedInOrder'
    <2>1. /\ Len(events') = Len(events) + 1 /\ events'[Len(events) + 1] = e
          /\ \A i \in 1 .. Len(events) : events'[i] = events[i + 0]
        BY <1>1, <1>5
    <2>2. 0 \in {0, 1} /\ Len(events) = Len(events) - 0 /\ 0 # 1
        BY <1>1
    <2> QED
        BY <1>1, <1>3, <1>5, <2>1, <2>2
<1>6. CASE /\ Len(events) > 0 /\ events[1].op \notin AllRequests
           /\ events' = Append(Tail(events), PumpEvent)
    <2>1. PumpEvent \in EventSet /\ PumpEvent.op \notin AllRequests
        BY DEF PumpEvent, Event, EventSet, EventOps, AllRequests
    <2>2. /\ Len(events') = Len(events) /\ events'[Len(events)] = PumpEvent
          /\ \A i \in 1 .. Len(events) - 1 : events'[i] = events[i + 1]
        BY <1>1, <1>6, <2>1
    <2>3. 1 \in {0, 1} /\ Len(events) - 1 \in Nat /\ Len(events') = Len(events) - 1 + 1
        BY <1>1, <1>6, <2>2
    <2> QED
        BY <1>3, <1>6, <2>1, <2>2, <2>3
<1> QED
    BY <1>2, <1>4, <1>5, <1>6

\* A new request has the next number.
LEMMA AskedIssue ==
    ASSUME TypeInv, AskedInOrder, NEW r \in AllRequests, asks' = asks + 1, answers' = answers,
           events' = Append(events, Event(r, asks', "none"))
    PROVE  AskedInOrder'
<1>1. /\ events \in Seq(EventSet) /\ Len(events) \in Nat /\ asks \in Nat
      /\ answers \in Seq(Nat) /\ Len(answers) \in Nat
    BY DEF TypeInv, TypeOK, EventsOK
<1>2. Event(r, asks', "none") \in EventSet
    BY <1>1 DEF Event, EventSet, EventOps
<1>3. /\ Len(events') = Len(events) + 1
      /\ events'[Len(events) + 1].op = r /\ events'[Len(events) + 1].id = asks + 1
      /\ \A i \in 1 .. Len(events) : events'[i] = events[i]
    BY <1>1, <1>2 DEF Event
<1>4. \A i \in 1 .. Len(events') : Asked(i)' <=> Asked(i) \/ i = Len(events) + 1
    BY <1>1, <1>3 DEF Asked
<1>5. \A i \in 1 .. Len(events) : Asked(i) => events[i].id \in (Len(answers) + 1) .. asks
    BY DEF AskedInOrder
<1>6. \A i \in 1 .. Len(events') : Asked(i)' => events'[i].id \in (Len(answers') + 1) .. asks'
    BY <1>1, <1>3, <1>4, <1>5 DEF AskedInOrder, Asked
<1>7. ASSUME NEW i \in 1 .. Len(events'), NEW j \in 1 .. Len(events'),
             Asked(i)', Asked(j)', i < j
      PROVE  events'[i].id < events'[j].id
    <2>1. i \in 1 .. Len(events) /\ Asked(i)
        BY <1>1, <1>3, <1>4, <1>7
    <2>2. CASE j = Len(events) + 1
        BY <1>1, <1>3, <1>5, <2>1, <2>2
    <2>3. CASE j # Len(events) + 1
        BY <1>1, <1>3, <1>4, <1>7, <2>1, <2>3 DEF AskedInOrder
    <2> QED
        BY <2>2, <2>3
<1>8. ASSUME NEW n \in (Len(answers') + 1) .. asks'
      PROVE  \E i \in 1 .. Len(events') : Asked(i)' /\ events'[i].id = n
    <2>1. CASE n = asks + 1
        BY <1>1, <1>3, <1>4, <2>1
    <2>2. CASE n # asks + 1
        <3>1. n \in (Len(answers) + 1) .. asks
            BY <1>1, <2>2
        <3>2. PICK i \in 1 .. Len(events) : Asked(i) /\ events[i].id = n
            BY <3>1 DEF AskedInOrder
        <3> QED
            BY <1>1, <1>3, <1>4, <3>2
    <2> QED
        BY <2>1, <2>2
<1> QED
    BY <1>1, <1>6, <1>7, <1>8 DEF AskedInOrder

\* The request that is delivered is the first that has no answer.
LEMMA AskedTaken ==
    ASSUME TypeInv, AskedInOrder, Len(events) > 0, events[1].op \in AllRequests, asks' = asks,
           answers' = Append(answers, events[1].id), events' = Tail(events)
    PROVE  AskedInOrder'
<1>1. /\ events \in Seq(EventSet) /\ Len(events) \in Nat /\ asks \in Nat
      /\ answers \in Seq(Nat) /\ Len(answers) \in Nat
    BY DEF TypeInv, TypeOK, EventsOK
<1>2. Asked(1) /\ 1 \in 1 .. Len(events)
    BY <1>1 DEF Asked
<1>3. events[1].id \in (Len(answers) + 1) .. asks
    BY <1>2 DEF AskedInOrder
<1>4. events[1].id = Len(answers) + 1
    <2>1. Len(answers) + 1 \in (Len(answers) + 1) .. asks
        BY <1>1, <1>3
    <2>2. PICK i \in 1 .. Len(events) : Asked(i) /\ events[i].id = Len(answers) + 1
        BY <2>1 DEF AskedInOrder
    <2>3. 1 < i => events[1].id < events[i].id
        BY <1>2, <2>2 DEF AskedInOrder
    <2> QED
        BY <1>1, <1>3, <2>2, <2>3
<1>5. /\ Len(events') = Len(events) - 1
      /\ \A i \in 1 .. Len(events') : events'[i] = events[i + 1]
    BY <1>1
<1>6. /\ Len(answers') = Len(answers) + 1 /\ answers'[Len(answers) + 1] = Len(answers) + 1
      /\ \A k \in 1 .. Len(answers) : answers'[k] = answers[k]
    BY <1>1, <1>4
<1>7. \A i \in 1 .. Len(events') : Asked(i)' <=> Asked(i + 1)
    BY <1>1, <1>5 DEF Asked
<1>8. ASSUME NEW i \in 1 .. Len(events'), Asked(i)'
      PROVE  events'[i].id \in (Len(answers') + 1) .. asks'
    <2>1. /\ Asked(i + 1) /\ i + 1 \in 1 .. Len(events) /\ 1 < i + 1
          /\ events'[i] = events[i + 1]
        BY <1>1, <1>5, <1>7, <1>8
    <2>2. /\ events[1].id < events[i + 1].id
          /\ events[i + 1].id \in (Len(answers) + 1) .. asks
        BY <1>2, <2>1 DEF AskedInOrder
    <2> QED
        BY <1>1, <1>4, <1>6, <2>1, <2>2
<1>9. ASSUME NEW i \in 1 .. Len(events'), NEW j \in 1 .. Len(events'),
             Asked(i)', Asked(j)', i < j
      PROVE  events'[i].id < events'[j].id
    <2>1. /\ Asked(i + 1) /\ i + 1 \in 1 .. Len(events) /\ events'[i] = events[i + 1]
          /\ Asked(j + 1) /\ j + 1 \in 1 .. Len(events) /\ events'[j] = events[j + 1]
          /\ i + 1 < j + 1
        BY <1>1, <1>5, <1>7, <1>9
    <2> QED
        BY <2>1 DEF AskedInOrder
<1>10. ASSUME NEW n \in (Len(answers') + 1) .. asks'
       PROVE  \E i \in 1 .. Len(events') : Asked(i)' /\ events'[i].id = n
    <2>1. n \in (Len(answers) + 1) .. asks /\ n # Len(answers) + 1
        BY <1>1, <1>6
    <2>2. PICK i \in 1 .. Len(events) : Asked(i) /\ events[i].id = n
        BY <2>1 DEF AskedInOrder
    <2>3. i # 1
        BY <1>4, <2>1, <2>2
    <2>4. i - 1 \in 1 .. Len(events') /\ events'[i - 1] = events[i] /\ Asked(i - 1)'
        BY <1>1, <1>5, <1>7, <2>2, <2>3
    <2> QED
        BY <2>2, <2>4
<1>11. \A k \in 1 .. Len(answers') : answers'[k] = k
    BY <1>1, <1>6 DEF AskedInOrder
<1> QED
    BY <1>1, <1>3, <1>4, <1>6, <1>8, <1>9, <1>10, <1>11 DEF AskedInOrder

LEMMA AskedStep == TypeInv /\ AskedInOrder /\ [Next]_vars => AskedInOrder'
<1> SUFFICES ASSUME TypeInv, AskedInOrder, [Next]_vars PROVE AskedInOrder'
    OBVIOUS
<1>0. /\ events \in Seq(EventSet) /\ Len(events) \in Nat /\ pass \in 0 .. Len(events)
      /\ nextId \in Nat \ {0} /\ asks \in Nat /\ activeId \in Nat
    BY DEF TypeInv, TypeOK, EventsOK
<1>1. ASSUME NEW op, Take(op) PROVE Len(events) > 0 /\ events[1] = Head(events) /\ events[1].op = op
    BY <1>0, <1>1 DEF Take
<1>2. ASSUME NEW op \in EventOps \ AllRequests, NEW id \in Nat, NEW k \in AllKinds \union {"none"},
             Post(Event(op, id, k)), UNCHANGED <<asks, answers>>
      PROVE  AskedInOrder'
    <2>1. Event(op, id, k) \in EventSet /\ Event(op, id, k).op \notin AllRequests
        BY DEF Event, EventSet
    <2> QED
        BY <1>2, <2>1, AskedFrame DEF Post
<1>3. CASE User
    <2>1. {"enqueue", "cancel", "cancelAll", "pause", "resume"} \subseteq EventOps \ AllRequests
        BY DEF EventOps, AllRequests
    <2>2. ASSUME NEW k \in Kinds, Enqueue(k) PROVE AskedInOrder'
        BY <1>0, <1>2, <2>1, <2>2 DEF Enqueue, outVars
    <2>3. ASSUME NEW r \in Requests, Request(r) PROVE AskedInOrder'
        <3>1. /\ r \in AllRequests /\ asks' = asks + 1 /\ answers' = answers
              /\ events' = Append(events, Event(r, asks', "none"))
            BY <2>3 DEF Request, Calls, Post, outVars
        <3> QED
            BY <3>1, AskedIssue
    <2>4. ASSUME NEW id \in Ids, CancelItem(id) \/ PauseItem(id) \/ ResumeItem(id) PROVE AskedInOrder'
        <3>1. id \in Nat /\ UNCHANGED <<asks, answers>>
            BY <2>4 DEF CancelItem, PauseItem, ResumeItem, Calls, Ids, outVars
        <3> QED
            BY <1>2, <2>1, <2>4, <3>1 DEF CancelItem, PauseItem, ResumeItem
    <2>5. CASE CancelAll
        BY <1>2, <2>1, <2>5 DEF CancelAll, Calls, outVars
    <2>6. CASE Destroy
        BY <2>6, AskedFrame DEF Destroy, outVars
    <2> QED
        BY <1>3, <2>2, <2>3, <2>4, <2>5, <2>6 DEF User
<1>4. CASE \/ StartPass \/ StopThread \/ SlotConnect \/ ConnectAgain \/ DropHead \/ PumpIdle
           \/ StartHead \/ MoveChunk \/ SecondStage \/ UNCHANGED vars
    <2>1. UNCHANGED <<events, asks, answers>>
        BY <1>4 DEF StartPass, StopThread, SlotConnect, ConnectAgain, DropHead, PumpIdle, StartHead,
                    MoveChunk, SecondStage, vars, guiVars, outVars
    <2> QED
        BY <2>1, AskedFrame
<1>5. CASE SlotOperation \/ SlotSudo \/ ConnectEnds
    <2>1. /\ Len(events) > 0 /\ events[1].op \in AllRequests /\ events[1] = Head(events)
        BY <1>0, <1>1, <1>5 DEF SlotOperation, SlotSudo, ConnectEnds, TypeInv, ConnectAtHead, AllRequests
    <2>2. /\ asks' = asks /\ answers' = Append(answers, events[1].id) /\ events' = Tail(events)
        BY <1>5, <2>1 DEF SlotOperation, SlotSudo, ConnectEnds, Answer, guiVars
    <2> QED
        BY <2>1, <2>2, AskedTaken
<1>6. CASE SlotCancel \/ SlotCancelAll \/ SlotPause \/ SlotPump
    <2>1. Len(events) > 0 /\ events[1].op \notin AllRequests
        BY <1>1, <1>6 DEF SlotCancel, SlotCancelAll, SlotPause, SlotPump, AllRequests
    <2>2. UNCHANGED <<asks, answers>> /\ events' = Tail(events)
        BY <1>6 DEF SlotCancel, SlotCancelAll, SlotPause, SlotPump, guiVars, outVars
    <2> QED
        BY <2>1, <2>2, AskedFrame
<1>7. CASE SlotEnqueue
    <2>1. Len(events) > 0 /\ events[1].op \notin AllRequests
        BY <1>1, <1>7 DEF SlotEnqueue, AllRequests
    <2>2. UNCHANGED <<asks, answers>> /\ events' = Append(Tail(events), PumpEvent)
        BY <1>7 DEF SlotEnqueue, WithPump, guiVars, outVars
    <2> QED
        BY <2>1, <2>2, AskedFrame
<1>8. CASE TransferDone \/ TransferStops
    <2>1. PumpEvent \in EventSet /\ PumpEvent.op \notin AllRequests
        BY DEF PumpEvent, Event, EventSet, EventOps, AllRequests
    <2>2. UNCHANGED <<asks, answers>> /\ events' = Append(events, PumpEvent)
        BY <1>8 DEF TransferDone, TransferStops, EndTransfer, WithPump, guiVars
    <2> QED
        BY <2>1, <2>2, AskedFrame
<1> QED
    BY <1>3, <1>4, <1>5, <1>6, <1>7, <1>8 DEF Next, Worker

\* As many requests wait as have no answer: their numbers count them.
LEMMA AskedCounted == TypeInv /\ AskedInOrder => AnswersInOrder
<1> SUFFICES ASSUME TypeInv, AskedInOrder PROVE AnswersInOrder
    OBVIOUS
<1> DEFINE Waiting == {i \in 1 .. Len(events) : events[i].op \in AllRequests}
           Numbers == (Len(answers) + 1) .. asks
           number == [i \in Waiting |-> events[i].id]
<1>1. /\ Len(events) \in Nat /\ Len(answers) \in Nat /\ asks \in Nat /\ Len(answers) <= asks
    BY DEF TypeInv, TypeOK, EventsOK, AskedInOrder
<1>2. \A i \in 1 .. Len(events) : i \in Waiting <=> Asked(i)
    BY DEF Asked
<1>3. number \in [Waiting -> Numbers]
    BY <1>2 DEF AskedInOrder
<1>4. ASSUME NEW i \in Waiting, NEW j \in Waiting, number[i] = number[j] PROVE i = j
    <2>1. Asked(i) /\ Asked(j) /\ i \in 1 .. Len(events) /\ j \in 1 .. Len(events)
        BY <1>2
    <2>2. events[i].id = events[j].id /\ events[i].id \in Numbers
        BY <1>3, <1>4
    <2>3. ~(i < j) /\ ~(j < i)
        BY <1>1, <2>1, <2>2 DEF AskedInOrder
    <2> QED
        BY <1>1, <2>1, <2>3
<1>5. \A n \in Numbers : \E i \in Waiting : number[i] = n
    BY <1>2 DEF AskedInOrder
<1>6. number \in Bijection(Waiting, Numbers)
    <2> HIDE DEF Waiting, Numbers, number
    <2> QED
        BY <1>3, <1>4, <1>5 DEF Bijection, Injection, Surjection, IsInjective
<1>7. IsFiniteSet(Waiting)
    <2>1. IsFiniteSet(1 .. Len(events))
        BY <1>1, FS_Interval
    <2> QED
        BY <2>1, FS_Subset
<1>8. Cardinality(Numbers) = Cardinality(Waiting)
    BY <1>6, <1>7, FS_Bijection DEF ExistsBijection
<1>9. Cardinality(Numbers) = asks - Len(answers)
    <2>1. Len(answers) + 1 \in Int /\ asks \in Int
        BY <1>1
    <2>2. Cardinality(Numbers) = IF Len(answers) + 1 > asks THEN 0 ELSE asks - (Len(answers) + 1) + 1
        BY <2>1, FS_Interval
    <2> HIDE DEF Numbers
    <2> QED
        BY <1>1, <2>2
<1> QED
    BY <1>8, <1>9 DEF AnswersInOrder, AskedInOrder

\* Every remote operation is answered once and in the order asked, through any
\* transfers, failures and reconnections in between.
THEOREM RequestsAnswered == Spec => []AnswersInOrder
<1>1. Init => TypeInv /\ AskedInOrder
    BY TypeInit DEF Init, AskedInOrder
<1>2. TypeInv /\ AskedInOrder /\ [Next]_vars => (TypeInv /\ AskedInOrder)'
    BY TypeStep, AskedStep
<1> QED
    BY <1>1, <1>2, AskedCounted, PTL DEF Spec

-----------------------------------------------------------------------------
(* The session implements the safety part of TransferJobs. *)

LEMMA JobsStep == OrderInv /\ [Next]_vars => [Jobs!Next]_(Jobs!jobVars)
<1> SUFFICES ASSUME OrderInv, [Next]_vars PROVE [Jobs!Next]_(Jobs!jobVars)
    OBVIOUS
<1>0. /\ nextId \in Nat \ {0} /\ Len(finished) \in Nat /\ Len(queue) \in Nat
      /\ queue \in Seq([id : Nat, kind : AllKinds])
      /\ ConservedInOrder
    BY InvFacts DEF OrderInv
<1>1. ASSUME UNCHANGED <<nextId, finished, activeId>>, (gui' = "open") <=> (gui = "open")
      PROVE  UNCHANGED Jobs!jobVars
    BY <1>1 DEF Jobs!jobVars
<1>2. ASSUME queue # << >>, ~busy
      PROVE  /\ Head(queue).id = Jobs!Turn
             /\ Jobs!Waiting
    <2>1. Len(queue) > 0 /\ Head(queue) = queue[1]
        BY <1>0, <1>2
    <2>2. /\ Served = Len(finished) /\ activeId = 0 /\ LastTaken < nextId
          /\ LastTaken = Served + Len(queue) /\ queue[1].id = Served + 1
        BY <1>0, <1>2, <2>1 DEF ConservedInOrder, Served, LastTaken
    <2> QED
        BY <1>0, <2>1, <2>2 DEF Jobs!Waiting, Jobs!Turn
<1>3. ASSUME NEW k \in Kinds, Enqueue(k) PROVE Jobs!Issue
    BY <1>0, <1>3 DEF Jobs!Issue, Enqueue, queueVars, outVars
<1>4. CASE Destroy
    <2>1. /\ UNCHANGED <<nextId, finished, activeId>> /\ gui = "open" /\ gui' = "waiting"
        BY <1>4 DEF Destroy, queueVars, outVars
    <2>2. (gui' = "open") = FALSE
        BY <2>1
    <2>3. Jobs!Close
        BY <2>1, <2>2 DEF Jobs!Close
    <2> QED
        BY <2>3 DEF Jobs!Next
<1>5. CASE DropHead
    <2>1. /\ ~busy /\ queue # << >> /\ UNCHANGED <<nextId, activeId, gui>>
          /\ finished' = Append(finished, [id |-> Head(queue).id, outcome |-> "cancelled"])
        BY <1>5 DEF DropHead, Finished, busy, guiVars
    <2>2. Head(queue).id = Jobs!Turn /\ Jobs!Waiting
        BY <1>2, <2>1
    <2>3. Jobs!End("cancelled")
        BY <2>1, <2>2 DEF Jobs!End
    <2>4. Jobs!Drop
        BY <2>1, <2>2, <2>3 DEF Jobs!Drop
    <2> QED
        BY <2>4 DEF Jobs!Next
<1>6. CASE StartHead
    <2>1. /\ ~busy /\ queue # << >> /\ UNCHANGED <<nextId, finished, gui>>
          /\ activeId' = Head(queue).id
        BY <1>6 DEF StartHead, busy, guiVars, outVars
    <2>2. Head(queue).id = Jobs!Turn /\ Jobs!Waiting
        BY <1>2, <2>1
    <2>3. Jobs!Start
        BY <2>1, <2>2 DEF Jobs!Start
    <2> QED
        BY <2>3 DEF Jobs!Next
<1>7. ASSUME NEW o \in Outcomes, EndTransfer(o), busy PROVE Jobs!Finish
    <2>1. /\ UNCHANGED <<nextId, gui>> /\ activeId' = 0
          /\ finished' = Append(finished, [id |-> activeId, outcome |-> o])
        BY <1>7 DEF EndTransfer, Finished, guiVars
    <2>2. activeId = Jobs!Turn /\ activeId # 0
        BY <1>0, <1>7 DEF ConservedInOrder, Jobs!Turn
    <2>3. Jobs!End(o)
        BY <2>1, <2>2 DEF Jobs!End
    <2> QED
        BY <1>7, <2>1, <2>2, <2>3 DEF Jobs!Finish
<1>8. CASE TransferDone \/ TransferStops
    <2>1. Jobs!Finish
        BY <1>7, <1>8 DEF TransferDone, TransferStops, Outcomes
    <2> QED
        BY <2>1 DEF Jobs!Next
<1>9. CASE \/ StartPass \/ SlotOperation \/ SlotSudo \/ SlotConnect \/ ConnectAgain
           \/ ConnectEnds \/ SlotEnqueue \/ SlotCancel \/ SlotCancelAll \/ SlotPause
           \/ SlotPump \/ PumpIdle \/ MoveChunk \/ SecondStage \/ UNCHANGED vars
    <2>1. UNCHANGED <<nextId, finished, activeId, gui>>
        BY <1>9 DEF StartPass, SlotOperation, SlotSudo, SlotConnect, ConnectAgain, ConnectEnds,
                    SlotEnqueue, SlotCancel, SlotCancelAll, SlotPause, SlotPump, PumpIdle,
                    MoveChunk, SecondStage, vars, guiVars, queueVars, outVars
    <2> QED
        BY <1>1, <2>1
<1>10. CASE StopThread
    BY <1>1, <1>10 DEF StopThread, quit, queueVars, outVars
<1>11. ASSUME Calls PROVE UNCHANGED Jobs!jobVars
    BY <1>1, <1>11 DEF Calls, queueVars, outVars
<1>12. CASE User
    BY <1>3, <1>4, <1>11, <1>12 DEF User, Request, CancelItem, PauseItem, ResumeItem, CancelAll, Jobs!Next
<1> QED
    BY <1>5, <1>6, <1>8, <1>9, <1>10, <1>12 DEF Next, Worker

\* Every step of the session is a step TransferJobs allows: one transfer at a
\* time, in the order issued, each ending exactly once.
THEOREM ImplementsJobs == Spec => Jobs!Init /\ [][Jobs!Next]_(Jobs!jobVars)
<1>1. Init => Jobs!Init
    BY DEF Init, Jobs!Init
<1>2. Init => OrderInv
    BY TypeInit, OrderInit DEF OrderInv
<1> QED
    BY <1>1, <1>2, OrderStep, JobsStep, PTL DEF Spec
=============================================================================
