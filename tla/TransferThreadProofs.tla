------------------------ MODULE TransferThreadProofs ------------------------
(***************************************************************************)
(* Proofs about the threads inside one call of the engine.  Of a download, *)
(* for pipes of any depth and files of any length: types, the order of the *)
(* buffers, the watermark a retry resumes from, and the safety of          *)
(* OrderedCopy.  Of the rate limiter, for any number of lanes, any rate    *)
(* and any sizes of what they read and write: the rate is that of the      *)
(* whole transfer.                                                         *)
(***************************************************************************)
EXTENDS DownloadPump, RateLimiter, SequenceTheorems, TLAPS

\* What is assumed of the constants.
DownloadBounds == Source \in Nat /\ Lengths \subseteq Nat

-----------------------------------------------------------------------------
(* The inductive invariant. *)

\* What the disk thread holds where it stands.
HandFits ==
    /\ disk \in {"pop", "count"} => hand = 0
    /\ disk \in {"write", "fail"} => hand = Len(file) + 1

\* Between the write and the count the watermark is one buffer behind.
Counted == diskProgress = IF disk = "count" THEN Len(file) - 1 ELSE Len(file)

\* No buffer comes from nowhere, and no more are read than were asked for.
NeverAhead ==
    /\ Taken + Len(queue) <= nread
    /\ bounded => nread <= length
    /\ net = "read" /\ bounded => nread < length

\* The pipe is closed by a loop that ended well, and failed by one that did
\* not or by a disk thread with an error.  An error ends the loop.
EndsKnown ==
    /\ closed => net \in {"join", "done"} /\ ok
    /\ failed => ~diskOk \/ (net \in {"join", "done"} /\ ~ok)
    /\ disk = "fail" => ~diskOk
    /\ net \in {"check", "read", "push"} => ok

\* A loop that ended well has read all there is to read.
AllFetched == net \in {"end", "join", "done"} /\ ok => nread = Total

\* A disk thread that ended well in a transfer that goes well has drained the pipe.
AllTaken == disk = "exit" /\ diskOk /\ ok => closed /\ queue = << >> /\ hand = 0

Returned ==
    /\ result = "none" <=> net # "done"
    /\ net = "done" => disk = "exit"

Inv ==
    /\ DownloadBounds /\ TypeOK /\ PipeInOrder
    /\ HandFits /\ Counted /\ NeverAhead /\ EndsKnown /\ AllFetched /\ AllTaken /\ Returned

USE DepthAssumption

LEMMA InitInv == DownloadBounds /\ Init => Inv
<1> SUFFICES ASSUME DownloadBounds, Init PROVE Inv OBVIOUS
<1> USE DEF Init, PipeInit, DownloadBounds
<1>1. queue \in Seq(Nat) /\ Len(queue) = 0 /\ file \in Seq(Nat) /\ Len(file) = 0 OBVIOUS
<1>2. length \in Nat /\ source \in Nat /\ 0 \in 0 .. source OBVIOUS
<1>3. PipeType
  <2>1. Len(queue) <= Depth BY <1>1
  <2>2. closed \in BOOLEAN /\ failed \in BOOLEAN /\ waiting \subseteq {"producer", "consumer"}
    OBVIOUS
  <2> QED BY <2>1, <2>2 DEF PipeType
<1>4. TypeOK BY <1>1, <1>2, <1>3 DEF TypeOK
<1>5. PipeInOrder BY <1>1 DEF PipeInOrder, Taken, Pushed
<1>6. NeverAhead BY <1>1, <1>2 DEF NeverAhead, Taken, bounded
<1>7. HandFits /\ Counted /\ EndsKnown /\ AllFetched /\ AllTaken /\ Returned
  BY <1>1 DEF HandFits, Counted, EndsKnown, AllFetched, AllTaken, Returned
<1> QED BY <1>4, <1>5, <1>6, <1>7 DEF Inv

-----------------------------------------------------------------------------
(* The calling thread reads ahead, pushes, and ends by closing or failing.  *)

LEMMA NetInv == Inv /\ Net => Inv'
<1> SUFFICES ASSUME Inv, Net PROVE Inv' OBVIOUS
<1> USE DEF Inv, DownloadBounds, Net, callVars, diskVars, userVars
<1>1. CASE Cancelled \/ ReadError
  <2>1. /\ net \in {"check", "read"} /\ net' = "end" /\ ok' = FALSE
        /\ UNCHANGED <<pipeVars, nread, result, diskVars, userVars, callVars>>
    BY <1>1 DEF Cancelled, ReadError
  <2>2. TypeOK' BY <2>1 DEF TypeOK, PipeType, pipeVars
  <2>3. (PipeInOrder /\ NeverAhead)'
    BY <2>1 DEF PipeInOrder, NeverAhead, Taken, Pushed, bounded, pipeVars
  <2>4. (HandFits /\ Counted /\ EndsKnown /\ AllFetched /\ AllTaken /\ Returned)'
    BY <2>1 DEF HandFits, Counted, EndsKnown, AllFetched, AllTaken, Returned, pipeVars
  <2> QED BY <2>2, <2>3, <2>4
<1>2. CASE AllRead \/ ReadEof
  <2>1. /\ net \in {"check", "read"} /\ net' = "end" /\ ok' \in BOOLEAN
        /\ ok' => ok /\ nread = Total
        /\ UNCHANGED <<pipeVars, nread, result, diskVars, userVars, callVars>>
    <3>1. CASE AllRead BY <1>2, <3>1 DEF AllRead, Total, TypeOK
    <3>2. CASE ReadEof
      <4>1. ok BY <3>2 DEF ReadEof, EndsKnown
      <4> QED BY <1>2, <3>2, <4>1 DEF ReadEof, EofOk, Total, bounded
    <3> QED BY <1>2, <3>1, <3>2
  <2>2. TypeOK' BY <2>1 DEF TypeOK, PipeType, pipeVars
  <2>3. (PipeInOrder /\ NeverAhead)'
    BY <2>1 DEF PipeInOrder, NeverAhead, Taken, Pushed, bounded, pipeVars
  <2>4. (HandFits /\ Counted /\ EndsKnown /\ AllFetched /\ AllTaken /\ Returned)'
    BY <2>1 DEF HandFits, Counted, EndsKnown, AllFetched, AllTaken, Returned, Total, bounded,
                pipeVars
  <2> QED BY <2>2, <2>3, <2>4
<1>3. CASE ReadOn
  <2>1. /\ net = "check" /\ net' = "read" /\ ~(bounded /\ nread = length)
        /\ UNCHANGED <<pipeVars, nread, ok, result, diskVars, userVars, callVars>>
    BY <1>3 DEF ReadOn
  <2>2. TypeOK' BY <2>1 DEF TypeOK, PipeType, pipeVars
  <2>3. PipeInOrder' BY <2>1 DEF PipeInOrder, Taken, Pushed, pipeVars
  <2>4. NeverAhead' BY <2>1 DEF NeverAhead, Taken, bounded, TypeOK, pipeVars
  <2>5. (HandFits /\ Counted /\ EndsKnown /\ AllFetched /\ AllTaken /\ Returned)'
    BY <2>1 DEF HandFits, Counted, EndsKnown, AllFetched, AllTaken, Returned, pipeVars
  <2> QED BY <2>2, <2>3, <2>4, <2>5
<1>4. CASE Read
  <2>1. /\ net = "read" /\ net' = "push" /\ nread < source /\ nread' = nread + 1
        /\ UNCHANGED <<pipeVars, ok, result, diskVars, userVars, callVars>>
    BY <1>4 DEF Read
  <2>2. TypeOK' BY <2>1 DEF TypeOK, PipeType, pipeVars
  <2>3. PipeInOrder' BY <2>1 DEF PipeInOrder, Taken, Pushed, TypeOK, pipeVars
  <2>4. NeverAhead'
    <3>1. Taken' = Taken /\ Taken \in Nat /\ Len(queue) \in Nat /\ nread \in Nat
      BY <2>1 DEF Taken, TypeOK
    <3> QED BY <2>1, <3>1 DEF NeverAhead, bounded, TypeOK, pipeVars
  <2>5. (HandFits /\ Counted /\ EndsKnown /\ AllFetched /\ AllTaken /\ Returned)'
    BY <2>1 DEF HandFits, Counted, EndsKnown, AllFetched, AllTaken, Returned, pipeVars
  <2> QED BY <2>2, <2>3, <2>4, <2>5
<1>5. CASE NetPush
  <2>1. CASE Push(nread) /\ net' = "check" /\ UNCHANGED ok
    <3>1. /\ queue \in Seq(Nat) /\ nread \in Nat /\ net = "push" /\ net' = "check"
          /\ UNCHANGED <<nread, ok, result, diskVars, userVars, callVars, closed, failed>>
          /\ ~failed /\ Len(queue) < Depth /\ queue' = Append(queue, nread)
      BY <1>5, <2>1 DEF NetPush, Push, Enqueued, Full, TypeOK, PipeType
    <3>2. /\ queue' \in Seq(Nat) /\ Len(queue') = Len(queue) + 1 /\ Len(queue) \in Nat
          /\ \A k \in 1 .. Len(queue) : queue'[k] = queue[k]
          /\ queue'[Len(queue) + 1] = nread
      BY <3>1
    <3>3. TypeOK'
      BY <2>1, <3>1, <3>2 DEF TypeOK, PipeType, Push, WakeConsumer
    <3>4. Taken' = Taken /\ Taken \in Nat BY <3>1 DEF Taken, TypeOK
    <3>5. Taken + Len(queue) = nread - 1 BY <3>1 DEF PipeInOrder, Pushed
    <3>6. PipeInOrder'
      <4>1. ASSUME NEW k \in 1 .. Len(queue') PROVE queue'[k] = Taken' + k
        <5>1. CASE k \in 1 .. Len(queue)
          BY <3>2, <3>4, <5>1 DEF PipeInOrder
        <5>2. CASE k = Len(queue) + 1
          BY <3>1, <3>2, <3>4, <3>5, <5>2
        <5> QED BY <3>1, <3>2, <5>1, <5>2
      <4>2. (~failed => Taken + Len(queue) = Pushed)' BY <3>1, <3>2, <3>4, <3>5 DEF Pushed
      <4> QED BY <3>1, <4>1, <4>2 DEF PipeInOrder
    <3>7. NeverAhead' BY <3>1, <3>2, <3>4, <3>5 DEF NeverAhead, bounded
    <3>8. (HandFits /\ Counted /\ EndsKnown /\ AllFetched /\ Returned)'
      BY <3>1 DEF HandFits, Counted, EndsKnown, AllFetched, Returned
    <3>9. AllTaken' BY <3>1 DEF AllTaken, EndsKnown
    <3> QED BY <3>3, <3>6, <3>7, <3>8, <3>9
  <2>2. CASE PushAborted /\ net' = "end" /\ ok' = FALSE
    <3>1. /\ net = "push" /\ net' = "end" /\ ok' = FALSE /\ failed
          /\ UNCHANGED <<pipeVars, nread, result, diskVars, userVars, callVars>>
      BY <1>5, <2>2 DEF NetPush, PushAborted
    <3>2. TypeOK' BY <3>1 DEF TypeOK, PipeType, pipeVars
    <3>3. (PipeInOrder /\ NeverAhead)'
      BY <3>1 DEF PipeInOrder, NeverAhead, Taken, Pushed, bounded, pipeVars
    <3>4. (HandFits /\ Counted /\ EndsKnown /\ AllFetched /\ AllTaken /\ Returned)'
      BY <3>1 DEF HandFits, Counted, EndsKnown, AllFetched, AllTaken, Returned, pipeVars
    <3> QED BY <3>2, <3>3, <3>4
  <2>3. CASE PushWaits /\ UNCHANGED <<net, ok>>
    <3>1. /\ net' = net /\ waiting' \subseteq {"producer", "consumer"}
          /\ UNCHANGED <<queue, closed, failed, ok, nread, result, diskVars, userVars, callVars>>
      BY <1>5, <2>3 DEF NetPush, PushWaits, TypeOK, PipeType
    <3>2. TypeOK' BY <3>1 DEF TypeOK, PipeType
    <3>3. (PipeInOrder /\ NeverAhead)'
      BY <3>1 DEF PipeInOrder, NeverAhead, Taken, Pushed, bounded
    <3>4. (HandFits /\ Counted /\ EndsKnown /\ AllFetched /\ AllTaken /\ Returned)'
      BY <3>1 DEF HandFits, Counted, EndsKnown, AllFetched, AllTaken, Returned, Total, bounded
    <3> QED BY <3>2, <3>3, <3>4
  <2> QED BY <1>5, <2>1, <2>2, <2>3 DEF NetPush
<1>6. CASE EndOfLoop
  <2>1. /\ net = "end" /\ net' = "join" /\ waiting' \subseteq {"producer", "consumer"}
        /\ UNCHANGED <<queue, nread, ok, result, diskVars, userVars, callVars>>
        /\ ok => closed' = TRUE /\ failed' = failed
        /\ ~ok => failed' = TRUE /\ closed' = closed
    BY <1>6 DEF EndOfLoop, Close, Fail, WakeConsumer, TypeOK, PipeType
  <2>2. closed' \in BOOLEAN /\ failed' \in BOOLEAN BY <2>1 DEF TypeOK, PipeType
  <2>3. TypeOK' BY <2>1, <2>2 DEF TypeOK, PipeType
  <2>4. PipeInOrder' BY <2>1 DEF PipeInOrder, Taken, Pushed
  <2>5. NeverAhead' BY <2>1 DEF NeverAhead, Taken, bounded
  <2>6. EndsKnown' BY <2>1 DEF EndsKnown
  <2>7. (HandFits /\ Counted /\ AllFetched /\ AllTaken /\ Returned)'
    BY <2>1 DEF HandFits, Counted, AllFetched, AllTaken, Returned, Total, bounded
  <2> QED BY <2>3, <2>4, <2>5, <2>6, <2>7
<1>7. CASE Join
  <2>1. /\ net = "join" /\ net' = "done" /\ disk = "exit" /\ result' \in {"true", "false"}
        /\ UNCHANGED <<pipeVars, nread, ok, diskVars, userVars, callVars>>
    BY <1>7 DEF Join, Joinable
  <2>2. TypeOK' BY <2>1 DEF TypeOK, PipeType, pipeVars
  <2>3. (PipeInOrder /\ NeverAhead)'
    BY <2>1 DEF PipeInOrder, NeverAhead, Taken, Pushed, bounded, pipeVars
  <2>4. (HandFits /\ Counted /\ EndsKnown /\ AllFetched /\ AllTaken /\ Returned)'
    BY <2>1 DEF HandFits, Counted, EndsKnown, AllFetched, AllTaken, Returned, Total, bounded,
                pipeVars
  <2> QED BY <2>2, <2>3, <2>4
<1> QED BY <1>1, <1>2, <1>3, <1>4, <1>5, <1>6, <1>7 DEF NetStep

-----------------------------------------------------------------------------
(* The disk thread pops and writes, and ends when the pipe does or at an error. *)

LEMMA DiskInv == Inv /\ Disk => Inv'
<1> SUFFICES ASSUME Inv, Disk PROVE Inv' OBVIOUS
<1> USE DEF Inv, DownloadBounds, Disk, callVars, netVars, userVars
<1>1. CASE DiskPop
  <2>1. CASE Pop /\ hand' = Head(queue) /\ disk' = "write"
    <3>1. /\ queue \in Seq(Nat) /\ queue # << >> /\ disk = "pop" /\ hand = 0 /\ ~failed
          /\ queue' = Tail(queue) /\ hand' = Head(queue) /\ disk' = "write"
          /\ UNCHANGED <<netVars, file, diskProgress, diskOk, userVars, callVars, closed, failed>>
      BY <1>1, <2>1 DEF DiskPop, Pop, TypeOK, PipeType, HandFits
    <3>2. /\ queue' \in Seq(Nat) /\ Len(queue') = Len(queue) - 1 /\ Len(queue) > 0
          /\ \A k \in 1 .. Len(queue') : queue'[k] = queue[k + 1]
          /\ Head(queue) = queue[1]
      BY <3>1
    <3>3. Taken = Len(file) /\ Len(file) \in Nat BY <3>1 DEF Taken, TypeOK
    <3>4. hand' = Len(file) + 1 BY <3>1, <3>2, <3>3 DEF PipeInOrder
    <3>5. Taken' = Taken + 1 BY <3>1, <3>3, <3>4 DEF Taken
    <3>6. TypeOK' BY <2>1, <3>1, <3>2, <3>3, <3>4 DEF TypeOK, PipeType, Pop, WakeProducer
    <3>7. PipeInOrder'
      <4>1. ASSUME NEW k \in 1 .. Len(queue') PROVE queue'[k] = Taken' + k
        BY <3>2, <3>3, <3>5 DEF PipeInOrder
      <4>2. Pushed' = Pushed /\ Taken + Len(queue) = Pushed
        BY <3>1 DEF Pushed, PipeInOrder
      <4>3. Taken' + Len(queue') = Pushed' BY <3>2, <3>3, <3>5, <4>2
      <4> QED BY <3>1, <3>4, <4>1, <4>3 DEF PipeInOrder
    <3>8. NeverAhead' BY <3>1, <3>2, <3>3, <3>5 DEF NeverAhead, bounded
    <3>9. (HandFits /\ Counted /\ EndsKnown /\ AllFetched /\ AllTaken /\ Returned)'
      BY <3>1, <3>4 DEF HandFits, Counted, EndsKnown, AllFetched, AllTaken, Returned, Total, bounded
    <3> QED BY <3>6, <3>7, <3>8, <3>9
  <2>2. CASE PopEnds /\ disk' = "exit" /\ UNCHANGED hand
    <3>1. /\ disk = "pop" /\ hand = 0 /\ (failed \/ (queue = << >> /\ closed)) /\ disk' = "exit"
          /\ UNCHANGED <<pipeVars, hand, netVars, file, diskProgress, diskOk, userVars, callVars>>
      BY <1>1, <2>2 DEF DiskPop, PopEnds, Drained, HandFits
    <3>2. TypeOK' BY <3>1 DEF TypeOK, PipeType, pipeVars
    <3>3. (PipeInOrder /\ NeverAhead)'
      BY <3>1 DEF PipeInOrder, NeverAhead, Taken, Pushed, bounded, pipeVars
    <3>4. (HandFits /\ Counted /\ EndsKnown /\ AllFetched /\ Returned)'
      BY <3>1 DEF HandFits, Counted, EndsKnown, AllFetched, Returned, Total, bounded, pipeVars
    <3>5. AllTaken' BY <3>1 DEF AllTaken, EndsKnown, pipeVars
    <3> QED BY <3>2, <3>3, <3>4, <3>5
  <2>3. CASE PopWaits /\ UNCHANGED <<disk, hand>>
    <3>1. /\ disk' = disk /\ hand' = hand /\ waiting' \subseteq {"producer", "consumer"}
          /\ UNCHANGED <<queue, closed, failed, netVars, file, diskProgress, diskOk, userVars,
                         callVars>>
      BY <1>1, <2>3 DEF DiskPop, PopWaits, TypeOK, PipeType
    <3>2. TypeOK' BY <3>1 DEF TypeOK, PipeType
    <3>3. (PipeInOrder /\ NeverAhead)'
      BY <3>1 DEF PipeInOrder, NeverAhead, Taken, Pushed, bounded
    <3>4. (HandFits /\ Counted /\ EndsKnown /\ AllFetched /\ AllTaken /\ Returned)'
      BY <3>1 DEF HandFits, Counted, EndsKnown, AllFetched, AllTaken, Returned, Total, bounded
    <3> QED BY <3>2, <3>3, <3>4
  <2> QED BY <1>1, <2>1, <2>2, <2>3 DEF DiskPop
<1>2. CASE DiskWrite
  <2>1. /\ disk = "write" /\ disk' = "count" /\ hand = Len(file) + 1 /\ hand' = 0
        /\ file \in Seq(Nat) /\ file' = Append(file, hand) /\ hand \in Nat
        /\ UNCHANGED <<pipeVars, netVars, diskProgress, diskOk, userVars, callVars>>
    BY <1>2 DEF DiskWrite, HandFits, TypeOK
  <2>2. /\ file' \in Seq(Nat) /\ Len(file') = Len(file) + 1 /\ Len(file) \in Nat
        /\ \A k \in 1 .. Len(file) : file'[k] = file[k]
        /\ file'[Len(file) + 1] = hand
    BY <2>1
  <2>3. Taken' = Taken BY <2>1, <2>2 DEF Taken
  <2>4. TypeOK' BY <2>1, <2>2 DEF TypeOK, PipeType, pipeVars
  <2>5. PipeInOrder'
    <3>1. ASSUME NEW k \in 1 .. Len(file') PROVE file'[k] = k BY <2>1, <2>2 DEF PipeInOrder
    <3> QED BY <2>1, <2>3, <3>1 DEF PipeInOrder, Pushed, pipeVars
  <2>6. NeverAhead' BY <2>1, <2>3 DEF NeverAhead, bounded, pipeVars
  <2>7. Counted' BY <2>1, <2>2 DEF Counted, TypeOK
  <2>8. (HandFits /\ EndsKnown /\ AllFetched /\ AllTaken /\ Returned)'
    BY <2>1 DEF HandFits, EndsKnown, AllFetched, AllTaken, Returned, Total, bounded, pipeVars
  <2> QED BY <2>4, <2>5, <2>6, <2>7, <2>8
<1>3. CASE DiskCount
  <2>1. /\ disk = "count" /\ disk' = "pop" /\ diskProgress' = diskProgress + 1 /\ hand = 0
        /\ UNCHANGED <<pipeVars, netVars, hand, file, diskOk, userVars, callVars>>
    BY <1>3 DEF DiskCount, HandFits
  <2>2. TypeOK' BY <2>1 DEF TypeOK, PipeType, pipeVars
  <2>3. (PipeInOrder /\ NeverAhead)'
    BY <2>1 DEF PipeInOrder, NeverAhead, Taken, Pushed, bounded, pipeVars
  <2>4. Counted' BY <2>1 DEF Counted, TypeOK
  <2>5. (HandFits /\ EndsKnown /\ AllFetched /\ AllTaken /\ Returned)'
    BY <2>1 DEF HandFits, EndsKnown, AllFetched, AllTaken, Returned, Total, bounded, pipeVars
  <2> QED BY <2>2, <2>3, <2>4, <2>5
<1>4. CASE DiskError
  <2>1. /\ disk = "write" /\ disk' = "fail" /\ diskOk' = FALSE /\ hand = Len(file) + 1
        /\ UNCHANGED <<pipeVars, netVars, hand, file, diskProgress, userVars, callVars>>
    BY <1>4 DEF DiskError, HandFits
  <2>2. TypeOK' BY <2>1 DEF TypeOK, PipeType, pipeVars
  <2>3. (PipeInOrder /\ NeverAhead)'
    BY <2>1 DEF PipeInOrder, NeverAhead, Taken, Pushed, bounded, pipeVars
  <2>4. (HandFits /\ Counted /\ EndsKnown /\ AllFetched /\ AllTaken /\ Returned)'
    BY <2>1 DEF HandFits, Counted, EndsKnown, AllFetched, AllTaken, Returned, Total, bounded,
                pipeVars
  <2> QED BY <2>2, <2>3, <2>4
<1>5. CASE DiskFail
  <2>1. /\ disk = "fail" /\ disk' = "exit" /\ ~diskOk /\ hand = Len(file) + 1 /\ Len(file) \in Nat
        /\ failed' = TRUE /\ waiting' = {}
        /\ UNCHANGED <<queue, closed, netVars, hand, file, diskProgress, diskOk, userVars, callVars>>
    BY <1>5 DEF DiskFail, Fail, HandFits, EndsKnown, TypeOK
  <2>2. TypeOK' BY <2>1 DEF TypeOK, PipeType
  <2>3. Taken' = Taken BY <2>1 DEF Taken
  <2>4. (PipeInOrder /\ NeverAhead)'
    BY <2>1, <2>3 DEF PipeInOrder, NeverAhead, bounded
  <2>5. (HandFits /\ Counted /\ EndsKnown /\ AllFetched /\ AllTaken /\ Returned)'
    BY <2>1 DEF HandFits, Counted, EndsKnown, AllFetched, AllTaken, Returned, Total, bounded
  <2> QED BY <2>2, <2>4, <2>5
<1> QED BY <1>1, <1>2, <1>3, <1>4, <1>5 DEF DiskStep

LEMMA StepInv == Inv /\ [Next]_vars => Inv'
<1> SUFFICES ASSUME Inv, [Next]_vars PROVE Inv' OBVIOUS
<1>1. CASE User \/ UNCHANGED vars
  <2>1. /\ UNCHANGED <<callVars, pipeVars, diskVars, netVars>>
        /\ cancel' \in BOOLEAN /\ pause' \in BOOLEAN /\ pauses' \in Nat
    <3>1. cancel \in BOOLEAN /\ pause \in BOOLEAN /\ pauses \in Nat BY DEF Inv, TypeOK
    <3>2. CASE User /\ Cancel BY <3>1, <3>2 DEF User, Cancel
    <3>3. CASE User /\ Pause BY <3>1, <3>3 DEF User, Pause
    <3>4. CASE User /\ Resume BY <3>1, <3>4 DEF User, Resume
    <3>5. CASE UNCHANGED vars BY <3>1, <3>5 DEF vars, userVars
    <3> QED BY <1>1, <3>2, <3>3, <3>4, <3>5 DEF User
  <2>2. TypeOK' BY <2>1 DEF Inv, TypeOK, PipeType, callVars, pipeVars, diskVars, netVars
  <2>3. (PipeInOrder /\ NeverAhead)'
    BY <2>1 DEF Inv, PipeInOrder, NeverAhead, Taken, Pushed, bounded, callVars, pipeVars, diskVars,
                netVars
  <2>4. (HandFits /\ Counted /\ EndsKnown /\ AllFetched /\ AllTaken /\ Returned)'
    BY <2>1 DEF Inv, HandFits, Counted, EndsKnown, AllFetched, AllTaken, Returned, Total, bounded,
                callVars, pipeVars, diskVars, netVars
  <2> QED BY <2>2, <2>3, <2>4 DEF Inv, DownloadBounds
<1> QED BY <1>1, DiskInv, NetInv DEF Next

-----------------------------------------------------------------------------

\* No buffer of a download is lost, repeated or out of order between the threads.
THEOREM DownloadInOrder == DownloadBounds /\ Spec => [](TypeOK /\ PipeInOrder)
<1>1. Inv => TypeOK /\ PipeInOrder BY DEF Inv
<1> QED BY <1>1, InitInv, StepInv, PTL DEF Spec

\* *diskProgress, from which a retry resumes, is never ahead of the file and is
\* its length when the pump returns, however it ends.
THEOREM WatermarkHolds == DownloadBounds /\ Spec => []WatermarkExact
<1>1. Inv => WatermarkExact
  BY DEF Inv, Counted, Returned, WatermarkExact, TypeOK
<1> QED BY <1>1, InitInv, StepInv, PTL DEF Spec

\* A download implements OrderedCopy: the file gets the next buffer or nothing,
\* true is returned only when it has got all of them, and nothing follows.
THEOREM DownloadCopies == DownloadBounds /\ Spec => CopySpec
<1>1. DownloadBounds /\ Init => Copied!Init
  BY DEF DownloadBounds, Init, Copied!Init, Total, bounded
<1>2. Inv /\ [Next]_vars => [Copied!Next]_(Copied!copyVars)
  <2> SUFFICES ASSUME Inv, [Next]_vars PROVE [Copied!Next]_(Copied!copyVars) OBVIOUS
  <2>1. CASE DiskWrite /\ Disk
    <3>1. /\ hand = Len(file) + 1 /\ result = "none" /\ file' = Append(file, hand)
          /\ UNCHANGED <<length, source, result>> /\ Len(file) \in Nat /\ disk = "write"
      BY <2>1 DEF Inv, TypeOK, HandFits, Returned, DiskWrite, Disk, callVars, netVars
    <3>2. Len(file) < Total
      <4>1. Taken = Len(file) + 1 BY <3>1 DEF Taken
      <4>2. Taken + Len(queue) <= nread /\ nread <= source /\ (bounded => nread <= length)
            /\ Len(queue) \in Nat /\ nread \in Nat /\ length \in Nat /\ source \in Nat
        BY DEF Inv, DownloadBounds, NeverAhead, TypeOK
      <4> QED BY <3>1, <4>1, <4>2 DEF Total
    <3>3. UNCHANGED Total BY <3>1 DEF Total, bounded
    <3> QED BY <3>1, <3>2, <3>3 DEF Copied!Next, Copied!Copy
  <2>2. CASE Join /\ Net
    <3>1. /\ net = "join" /\ disk = "exit" /\ result = "none" /\ UNCHANGED <<file, length, source>>
          /\ result' = IF ok /\ diskOk THEN "true" ELSE "false"
      BY <2>2 DEF Inv, Returned, Join, Joinable, Net, callVars, diskVars
    <3>2. ok /\ diskOk => Len(file) = Total
      <4> SUFFICES ASSUME ok, diskOk PROVE Len(file) = Total OBVIOUS
      <4>1. queue = << >> /\ hand = 0 /\ ~failed /\ nread = Total
        BY <3>1 DEF Inv, AllTaken, AllFetched, EndsKnown
      <4>2. Taken = Len(file) /\ Len(file) \in Nat /\ Len(queue) = 0 /\ Pushed = nread
        BY <3>1, <4>1 DEF Taken, Pushed, Inv, TypeOK
      <4> QED BY <4>1, <4>2 DEF Inv, PipeInOrder
    <3>3. UNCHANGED Total BY <3>1 DEF Total, bounded
    <3> QED BY <3>1, <3>2, <3>3 DEF Copied!Next, Copied!Return
  <2>3. CASE \/ Net /\ (Cancelled \/ AllRead \/ ReadOn \/ Read \/ ReadEof \/ ReadError
                        \/ NetPush \/ EndOfLoop)
             \/ Disk /\ (DiskPop \/ DiskCount \/ DiskError \/ DiskFail)
             \/ User \/ UNCHANGED vars
    <3>1. UNCHANGED <<length, source, file, result>>
      BY <2>3 DEF Disk, DiskPop, DiskCount, DiskError, DiskFail, User, Cancel, Pause, Resume, Net,
                  Cancelled, AllRead, ReadOn, Read, ReadEof, ReadError, NetPush, EndOfLoop, vars,
                  callVars, netVars, diskVars
    <3> QED BY <3>1 DEF Copied!copyVars, Total, bounded
  <2> QED BY <2>1, <2>2, <2>3 DEF Next, Net, NetStep, Disk, DiskStep
<1> QED BY <1>1, <1>2, InitInv, StepInv, PTL DEF Spec, CopySpec, Copied!Spec

-----------------------------------------------------------------------------
(* The rate limiter. *)

\* What is assumed of the constants.
LimiterBounds == Rate \in Nat /\ Chunks \subseteq Nat

\* What has passed beyond the rate and what the next look will find in the
\* bucket are together never more than one second's worth: a grant moves bytes
\* from the one to the other, and a tick takes from the first what it gives to
\* the second.
Saved == excess + Refilled <= Rate

LimiterInv == LimiterBounds /\ LimiterTypeOK /\ Saved

LEMMA LimiterStarts == LimiterBounds /\ LimiterInit => LimiterInv
BY DEF LimiterBounds, LimiterInit, LimiterInv, LimiterTypeOK, Saved, Refilled, Lesser

LEMMA LimiterStep == LimiterInv /\ [LimiterNext]_limiterVars => LimiterInv'
<1> SUFFICES ASSUME LimiterInv, [LimiterNext]_limiterVars PROVE LimiterInv' OBVIOUS
<1> USE DEF LimiterInv, LimiterBounds, LimiterTypeOK
<1>1. CASE Tick
  <2>1. sleep' \in [Lanes -> Nat] BY <1>1 DEF Tick
  <2>2. Saved' BY <1>1 DEF Tick, Saved, Refilled, Lesser
  <2> QED BY <1>1, <2>1, <2>2 DEF Tick, Lesser
<1>2. ASSUME NEW l \in Lanes, Consume(l) PROVE LimiterInv'
  <2>1. want' \in [Lanes -> {0} \union Chunks] BY <1>2 DEF Consume
  <2> QED BY <1>2, <2>1 DEF Consume, Saved, Refilled
<1>3. ASSUME NEW l \in Lanes, Grant(l) PROVE LimiterInv'
  <2>1. want' \in [Lanes -> {0} \union Chunks] /\ want[l] \in Nat BY <1>3 DEF Grant
  <2>2. Refilled \in 0 .. Rate BY DEF Refilled, Lesser
  <2>3. tokens' \in 0 .. Rate /\ excess' \in Nat BY <1>3, <2>1, <2>2 DEF Grant
  <2>4. Saved' BY <1>3, <2>1, <2>2, <2>3 DEF Grant, Saved, Refilled, Lesser, SinceLook
  <2> QED BY <1>3, <2>1, <2>3, <2>4 DEF Grant, SinceLook
<1>4. ASSUME NEW l \in Lanes, Sleep(l) PROVE LimiterInv'
  <2>1. want[l] \in Nat BY <1>4 DEF Sleep
  <2>2. Refilled \in 0 .. Rate BY DEF Refilled, Lesser
  <2>3. sleep' \in [Lanes -> Nat] BY <1>4, <2>1, <2>2 DEF Sleep, Deficit
  <2>4. Saved' BY <1>4, <2>2 DEF Sleep, Saved, Refilled, Lesser, SinceLook, Kept
  <2> QED BY <1>4, <2>2, <2>3, <2>4 DEF Sleep, SinceLook, Kept
<1>5. CASE UNCHANGED limiterVars BY <1>5 DEF limiterVars, Saved, Refilled
<1> QED BY <1>1, <1>2, <1>3, <1>4, <1>5 DEF LimiterNext, Look

\* In any interval no more bytes pass than its length allows and one second's
\* worth that was saved up, however many lanes share the limiter.
THEOREM Capped == LimiterBounds /\ LimiterSpec => []AggregateCapped
<1>1. LimiterInv => AggregateCapped
  BY DEF LimiterInv, LimiterBounds, LimiterTypeOK, Saved, Refilled, Lesser, AggregateCapped
<1> QED BY <1>1, LimiterStarts, LimiterStep, PTL DEF LimiterSpec
=============================================================================
