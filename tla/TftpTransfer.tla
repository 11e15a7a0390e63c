---------------------------- MODULE TftpTransfer ----------------------------
(***************************************************************************)
(* One transfer of the TFTP server, a read (RRQ) or a write (WRQ), with its *)
(* client and the datagrams between them, which may be lost, duplicated or  *)
(* overtaken.  A file is the blocks 1 .. Blocks, of which only the last is  *)
(* short; block numbers are 16 bits wide, Width here.                      *)
(***************************************************************************)
EXTENDS Naturals, Sequences, SequencesExt

CONSTANTS
    Blocks,      \* blocks of the file, the short one included
    Width,       \* block numbers are modulo Width
    MaxRetries,  \* kMaxRetries; the client's too
    Faults       \* bound: datagrams lost, duplicated or overtaken

VARIABLES
    writing,     \* m_writing: the client writes
    block,       \* m_block
    last,        \* m_lastData: which block of the file, 0 when none
    retries,     \* m_retries
    timer,       \* is m_timer active?
    done,        \* "no", or how finished() was emitted: "ok", "failed"; "deleted"
    diskOk,      \* no read or write of the file has failed
    copy,        \* the blocks at the receiving end
    toServer, toClient,  \* datagrams under way
    peerBlock, peerLast, peerRetries, peerDone,  \* the client's
    faults

server == <<writing, block, last, retries, timer, done, diskOk>>
peer == <<peerBlock, peerLast, peerRetries, peerDone>>
vars == <<server, copy, toServer, toClient, peer, faults>>

Data(number, payload) == [op |-> "data", block |-> number, payload |-> payload]
Ack(number) == [op |-> "ack", block |-> number, payload |-> 0]
Succ(number) == (number + 1) % Width
Short(payload) == payload = Blocks

\* startRead() sends the first block, startWrite() acknowledges the request.
Init ==
    /\ writing \in BOOLEAN
    /\ retries = 0 /\ timer = TRUE /\ done = "no" /\ copy = << >>
    /\ toServer = << >>
    /\ IF writing
         THEN block = 0 /\ last = 0 /\ diskOk = TRUE /\ toClient = <<Ack(0)>>
         ELSE block = 1 /\ last \in {1, Blocks} /\ diskOk = (last = 1) /\ toClient = <<Data(1, last)>>
    /\ peerBlock = 0 /\ peerLast = 0 /\ peerRetries = 0 /\ peerDone = FALSE
    /\ faults = 0

-----------------------------------------------------------------------------
(* TftpTransfer::onReadyRead() and onTimeout(). *)

Takes(op) ==
    /\ done = "no"
    /\ toServer # << >> /\ Head(toServer).op = op
    /\ toServer' = Tail(toServer)

Send(datagram) == toClient' = Append(toClient, datagram)

Current_Any(datagram) == TRUE
Current(datagram) == datagram.block = block

\* A read that fails hands out nothing, which goes out as a short block.
NextBlock ==
    /\ block' = Succ(block)
    /\ \/ last' = last + 1 /\ UNCHANGED diskOk
       \/ last' = Blocks /\ last + 1 < Blocks /\ diskOk' = FALSE
    /\ Send(Data(block', last'))

OnAck ==
    /\ ~writing /\ Takes("ack")
    /\ IF ~Current(Head(toServer))
         THEN UNCHANGED <<block, last, retries, timer, done, diskOk, toClient>>
         ELSE /\ retries' = 0 /\ timer' = ~Short(last)
              /\ IF Short(last)
                   THEN done' = "ok" /\ UNCHANGED <<block, last, diskOk, toClient>>
                   ELSE NextBlock /\ UNCHANGED done
    /\ UNCHANGED <<writing, copy, peer, faults>>

\* The result of write() is not looked at.
Stored(payload) ==
    \/ copy' = Append(copy, payload) /\ UNCHANGED diskOk
    \/ diskOk' = FALSE /\ UNCHANGED copy

OnData ==
    /\ writing /\ Takes("data")
    /\ LET d == Head(toServer) IN
       \/ /\ d.block = Succ(block)
          /\ Stored(d.payload)
          /\ block' = d.block /\ retries' = 0 /\ Send(Ack(d.block))
          /\ done' = (IF Short(d.payload) THEN "ok" ELSE done)
          /\ timer' = ~Short(d.payload)
       \/ /\ d.block # Succ(block) /\ Current(d)
          /\ Send(Ack(block))
          /\ UNCHANGED <<block, retries, timer, done, diskOk, copy>>
       \/ /\ d.block # Succ(block) /\ ~Current(d)
          /\ UNCHANGED <<block, retries, timer, done, diskOk, copy, toClient>>
    /\ UNCHANGED <<writing, last, peer, faults>>

\* The single-shot timer is started again with what is sent again.
Rearmed_OnRead == ~writing
Rearmed == TRUE

OnTimeout ==
    /\ done = "no" /\ timer
    /\ IF retries >= MaxRetries
         THEN done' = "failed" /\ timer' = FALSE /\ UNCHANGED <<retries, toClient>>
         ELSE /\ retries' = retries + 1 /\ timer' = Rearmed
              /\ Send(IF writing THEN Ack(block) ELSE Data(block, last))
              /\ UNCHANGED done
    /\ UNCHANGED <<writing, block, last, diskOk, copy, toServer, peer, faults>>

\* TftpServer::stop() deletes its transfers.
ServerStops ==
    /\ done = "no"
    /\ done' = "deleted" /\ timer' = FALSE
    /\ UNCHANGED <<writing, block, last, retries, diskOk, copy, toServer, toClient, peer, faults>>

-----------------------------------------------------------------------------
(* A client by the book (RFC 1350): it takes a block once, acknowledges it   *)
(* again when it comes again, and sends no block for an old acknowledgement. *)

Reply(datagram) == toServer' = Append(toServer, datagram)

PeerOnData ==
    /\ ~writing /\ toClient # << >> /\ Head(toClient).op = "data"
    /\ toClient' = Tail(toClient)
    /\ LET d == Head(toClient) IN
       \/ /\ d.block = Succ(peerBlock) /\ ~peerDone
          /\ copy' = Append(copy, d.payload) /\ peerBlock' = d.block /\ peerRetries' = 0
          /\ peerDone' = Short(d.payload)
          /\ Reply(Ack(d.block))
       \/ /\ d.block = peerBlock
          /\ Reply(Ack(d.block))
          /\ UNCHANGED <<copy, peerBlock, peerRetries, peerDone>>
       \/ /\ d.block # peerBlock /\ (d.block = Succ(peerBlock) => peerDone)
          /\ UNCHANGED <<copy, peerBlock, peerRetries, peerDone, toServer>>
    /\ UNCHANGED <<server, peerLast, faults>>

PeerOnAck ==
    /\ writing /\ toClient # << >> /\ Head(toClient).op = "ack"
    /\ toClient' = Tail(toClient)
    /\ IF Head(toClient).block # peerBlock \/ peerDone
         THEN UNCHANGED <<peer, toServer>>
         ELSE /\ peerRetries' = 0
              /\ IF peerLast = Blocks
                   THEN peerDone' = TRUE /\ UNCHANGED <<peerBlock, peerLast, toServer>>
                   ELSE /\ peerBlock' = Succ(peerBlock) /\ peerLast' = peerLast + 1
                        /\ Reply(Data(peerBlock', peerLast'))
                        /\ UNCHANGED peerDone
    /\ UNCHANGED <<server, copy, faults>>

PeerOnTimeout ==
    /\ ~peerDone /\ peerBlock # 0 /\ peerRetries < MaxRetries
    /\ peerRetries' = peerRetries + 1
    /\ Reply(IF writing THEN Data(peerBlock, peerLast) ELSE Ack(peerBlock))
    /\ UNCHANGED <<server, copy, toClient, peerBlock, peerLast, peerDone, faults>>

-----------------------------------------------------------------------------
(* The network. *)

Disturbed(queue) ==
    {Tail(queue), <<Head(queue)>> \o queue}
        \cup (IF Len(queue) > 1 THEN {<<queue[2], queue[1]>> \o SubSeq(queue, 3, Len(queue))} ELSE {})

Fault ==
    /\ faults < Faults
    /\ faults' = faults + 1
    /\ \/ toServer # << >> /\ toServer' \in Disturbed(toServer) /\ UNCHANGED toClient
       \/ toClient # << >> /\ toClient' \in Disturbed(toClient) /\ UNCHANGED toServer
    /\ UNCHANGED <<server, copy, peer>>

Server == OnAck \/ OnData \/ OnTimeout
Peer == PeerOnData \/ PeerOnAck \/ PeerOnTimeout
Next == Server \/ ServerStops \/ Peer \/ Fault

\* The server's timer fires; nothing is asked of the client or of the network.
Spec == Init /\ [][Next]_vars /\ WF_vars(OnTimeout)

-----------------------------------------------------------------------------

Numbers == 0 .. Width - 1
Datagrams == [op : {"data"}, block : Numbers, payload : 1 .. Blocks]
                 \cup [op : {"ack"}, block : Numbers, payload : {0}]

\* The types of the variables; a read holds a block, a write none.
TypeOK ==
    /\ writing \in BOOLEAN /\ diskOk \in BOOLEAN /\ peerDone \in BOOLEAN /\ timer \in BOOLEAN
    /\ block \in Numbers /\ peerBlock \in Numbers
    /\ last \in (IF writing THEN {0} ELSE 1 .. Blocks)
    /\ peerLast \in (IF writing THEN 0 .. Blocks ELSE {0})
    /\ retries \in 0 .. MaxRetries /\ peerRetries \in 0 .. MaxRetries
    /\ done \in {"no", "ok", "failed", "deleted"}
    /\ copy \in Seq(1 .. Blocks)
    /\ toServer \in Seq(Datagrams) /\ toClient \in Seq(Datagrams)
    /\ faults \in 0 .. Faults

File == [k \in 1 .. Blocks |-> k]

\* What has arrived is the beginning of the file, whatever the network did, and
\* it is all of it once the server reports success or the client has ended;
\* unless the disk failed, which the code does not look at.  A client whose
\* write was acknowledged to the end is not one whose transfer failed.
CorrectTransfer ==
    /\ diskOk =>
         /\ IsPrefix(copy, File)
         /\ done = "ok" \/ peerDone => copy = File
    /\ writing /\ peerDone => done = "ok"

\* Whatever the client and the network do, the transfer ends.
TransferEnds == <>(done # "no")
=============================================================================
