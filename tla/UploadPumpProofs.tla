-------------------------- MODULE UploadPumpProofs --------------------------
(***************************************************************************)
(* Proofs about the two threads of an upload, for pipes of any depth and   *)
(* files of any length: types, the order of the buffers, and the safety    *)
(* of OrderedCopy.                                                         *)
(***************************************************************************)
EXTENDS UploadPump, SequenceTheorems, TLAPS

\* What is assumed of the constants.
UploadBounds == Lengths \subseteq Nat

-----------------------------------------------------------------------------
(* The inductive invariant. *)

\* What the calling thread holds where it stands.
HandFits ==
    /\ net = "pop" => hand = 0
    /\ net \in {"check", "write"} => hand = Len(sent) + 1

\* No buffer comes from nowhere, also when those in the pipe are dropped.
NeverAhead == Taken + Len(queue) <= nread

\* The pipe is closed by a disk thread that has read and pushed everything,
\* and failed either by one that could not or by the end of the upload.
EndsKnown ==
    /\ closed => nread = length /\ disk = "exit"
    /\ failed => ~diskOk \/ net \in {"join", "done"}
    /\ disk = "fail" => ~diskOk

\* A loop that ended well although the disk thread had no error has sent all.
AllSent ==
    net \in {"end", "join", "done"} /\ ok /\ diskOk =>
        disk = "exit" /\ Len(sent) = length /\ hand = 0

Returned == result = "none" <=> net # "done"

Inv ==
    /\ UploadBounds /\ TypeOK /\ PipeInOrder
    /\ HandFits /\ NeverAhead /\ EndsKnown /\ AllSent /\ Returned

USE DepthAssumption

LEMMA InitInv == UploadBounds /\ Init => Inv
<1> SUFFICES ASSUME UploadBounds, Init PROVE Inv OBVIOUS
<1> USE DEF Init, PipeInit, UploadBounds
<1>1. TypeOK
  <2>1. queue \in Seq(Nat) /\ Len(queue) = 0 /\ sent \in Seq(Nat) OBVIOUS
  <2>2. length \in Nat /\ 0 \in 0 .. source OBVIOUS
  <2>3. PipeType
    <3>1. Len(queue) <= Depth BY <2>1
    <3>2. closed \in BOOLEAN /\ failed \in BOOLEAN /\ waiting \subseteq {"producer", "consumer"}
      OBVIOUS
    <3> QED BY <3>1, <3>2 DEF PipeType
  <2> QED BY <2>1, <2>2, <2>3 DEF TypeOK
<1>2. PipeInOrder /\ NeverAhead BY <1>1 DEF TypeOK, PipeInOrder, NeverAhead, Taken, Pushed
<1>3. HandFits /\ EndsKnown /\ AllSent /\ Returned BY DEF HandFits, EndsKnown, AllSent, Returned
<1> QED BY <1>1, <1>2, <1>3 DEF Inv

\* The disk thread reads ahead, pushes, and ends by closing or failing.
LEMMA DiskInv == Inv /\ Disk => Inv'
<1> SUFFICES ASSUME Inv, Disk PROVE Inv' OBVIOUS
<1> USE DEF Inv, UploadBounds, Disk, callVars, netVars, userVars
<1>1. CASE Read
  <2>1. TypeOK' BY <1>1 DEF Read, TypeOK, PipeType, pipeVars
  <2>2. PipeInOrder'
    BY <1>1 DEF Read, TypeOK, PipeType, pipeVars, PipeInOrder, Taken, Pushed
  <2>3. (HandFits /\ NeverAhead /\ EndsKnown /\ AllSent /\ Returned)'
    BY <1>1 DEF Read, TypeOK, PipeType, pipeVars, HandFits, NeverAhead, EndsKnown, AllSent,
                Returned, Taken
  <2> QED BY <2>1, <2>2, <2>3
<1>2. CASE ReadShort
  BY <1>2 DEF ReadShort, TypeOK, PipeType, pipeVars, PipeInOrder, HandFits, NeverAhead, EndsKnown,
              AllSent, Returned, Taken, Pushed
<1>3. CASE DiskFail
  BY <1>3 DEF DiskFail, Fail, TypeOK, PipeType, PipeInOrder, HandFits, NeverAhead, EndsKnown,
              AllSent, Returned, Taken, Pushed
<1>4. CASE DiskClose
  BY <1>4 DEF DiskClose, Close, WakeConsumer, TypeOK, PipeType, PipeInOrder, HandFits,
              NeverAhead, EndsKnown, AllSent, Returned, Taken, Pushed
<1>5. CASE DiskPush
  <2>1. CASE Push(nread) /\ disk' = "read"
    <3>1. /\ queue \in Seq(Nat) /\ nread \in Nat /\ disk = "push" /\ disk' = "read"
          /\ UNCHANGED <<nread, diskOk, netVars, userVars, callVars, closed, failed>>
          /\ ~failed /\ Len(queue) < Depth /\ queue' = Append(queue, nread)
      BY <1>5, <2>1 DEF DiskPush, Push, Enqueued, Full, TypeOK, PipeType
    <3>2. /\ queue' \in Seq(Nat) /\ Len(queue') = Len(queue) + 1
          /\ \A k \in 1 .. Len(queue) : queue'[k] = queue[k]
          /\ queue'[Len(queue) + 1] = nread
      BY <3>1
    <3>3. TypeOK'
      BY <2>1, <3>1, <3>2 DEF TypeOK, PipeType, Push, WakeConsumer
    <3>4. Taken' = Taken /\ Taken \in Nat BY <3>1 DEF Taken, TypeOK
    <3>5. Taken + Len(queue) = nread - 1 BY <3>1 DEF PipeInOrder, Pushed
    <3>6. PipeInOrder'
      <4>1. ASSUME NEW k \in 1 .. Len(queue') PROVE queue'[k] = Taken' + k
        <5>1. CASE k \in 1 .. Len(queue)
          BY <3>2, <3>4, <5>1 DEF PipeInOrder
        <5>2. CASE k = Len(queue) + 1
          BY <3>1, <3>2, <3>4, <3>5, <5>2
        <5> QED BY <3>1, <3>2, <5>1, <5>2
      <4>2. (~failed => Taken + Len(queue) = Pushed)' BY <3>1, <3>2, <3>4, <3>5 DEF Pushed
      <4> QED BY <3>1, <4>1, <4>2 DEF PipeInOrder
    <3>7. NeverAhead' BY <3>1, <3>2, <3>4, <3>5 DEF NeverAhead
    <3>8. (HandFits /\ EndsKnown /\ AllSent /\ Returned)'
      BY <3>1 DEF HandFits, EndsKnown, AllSent, Returned
    <3> QED BY <3>3, <3>6, <3>7, <3>8
  <2>2. CASE PushAborted /\ disk' = "exit"
    BY <1>5, <2>2 DEF DiskPush, PushAborted, pipeVars, TypeOK, PipeType, PipeInOrder, HandFits,
                      NeverAhead, EndsKnown, AllSent, Returned, Taken, Pushed
  <2>3. CASE PushWaits /\ UNCHANGED disk
    BY <1>5, <2>3 DEF DiskPush, PushWaits, TypeOK, PipeType, PipeInOrder, HandFits,
                      NeverAhead, EndsKnown, AllSent, Returned, Taken, Pushed
  <2> QED BY <1>5, <2>1, <2>2, <2>3 DEF DiskPush
<1> QED BY <1>1, <1>2, <1>3, <1>4, <1>5 DEF DiskStep

\* The calling thread pops and sends, and ends when the pipe does, at a cancel
\* or at an error.
LEMMA NetInv == Inv /\ Net => Inv'
<1> SUFFICES ASSUME Inv, Net PROVE Inv' OBVIOUS
<1> USE DEF Inv, UploadBounds, Net, callVars, diskVars, userVars
<1>1. CASE NetPop
  <2>1. CASE Pop /\ hand' = Head(queue) /\ net' = "check"
    <3>1. /\ queue \in Seq(Nat) /\ queue # << >> /\ net = "pop" /\ hand = 0 /\ ~failed
          /\ queue' = Tail(queue) /\ hand' = Head(queue) /\ net' = "check"
          /\ UNCHANGED <<diskVars, sent, ok, result, userVars, callVars, closed, failed>>
      BY <1>1, <2>1 DEF NetPop, Pop, TypeOK, PipeType, HandFits
    <3>2. /\ queue' \in Seq(Nat) /\ Len(queue') = Len(queue) - 1 /\ Len(queue) > 0
          /\ \A k \in 1 .. Len(queue') : queue'[k] = queue[k + 1]
          /\ Head(queue) = queue[1]
      BY <3>1
    <3>3. Taken = Len(sent) /\ Len(sent) \in Nat BY <3>1 DEF Taken, TypeOK
    <3>4. hand' = Len(sent) + 1 BY <3>1, <3>2, <3>3 DEF PipeInOrder
    <3>5. Taken' = Taken + 1 BY <3>1, <3>3, <3>4 DEF Taken
    <3>6. TypeOK' BY <2>1, <3>1, <3>2, <3>3, <3>4 DEF TypeOK, PipeType, Pop, WakeProducer
    <3>7. PipeInOrder'
      <4>1. ASSUME NEW k \in 1 .. Len(queue') PROVE queue'[k] = Taken' + k
        BY <3>2, <3>3, <3>5 DEF PipeInOrder
      <4>2. Pushed' = Pushed /\ Taken + Len(queue) = Pushed
        BY <3>1 DEF Pushed, PipeInOrder
      <4>3. Taken' + Len(queue') = Pushed' BY <3>2, <3>3, <3>5, <4>2
      <4> QED BY <3>1, <3>4, <4>1, <4>3 DEF PipeInOrder
    <3>8. NeverAhead' BY <3>1, <3>2, <3>3, <3>5 DEF NeverAhead
    <3>9. (HandFits /\ EndsKnown /\ AllSent /\ Returned)'
      BY <3>1, <3>4 DEF HandFits, EndsKnown, AllSent, Returned
    <3> QED BY <3>6, <3>7, <3>8, <3>9
  <2>2. CASE PopEnds /\ net' = "end" /\ UNCHANGED hand
    <3>1. /\ net = "pop" /\ hand = 0 /\ (failed \/ (queue = << >> /\ closed))
          /\ net' = "end" /\ UNCHANGED <<pipeVars, hand, diskVars, sent, ok, result, userVars, callVars>>
      BY <1>1, <2>2 DEF NetPop, PopEnds, Drained, HandFits
    <3>2. TypeOK' BY <3>1 DEF TypeOK, PipeType, pipeVars
    <3>3. (PipeInOrder /\ HandFits /\ NeverAhead /\ EndsKnown /\ Returned)'
      BY <3>1 DEF PipeInOrder, HandFits, NeverAhead, EndsKnown, Returned, Taken, Pushed, pipeVars
    <3>4. AllSent'
      <4>1. CASE failed BY <3>1, <4>1 DEF AllSent, EndsKnown, pipeVars
      <4>2. CASE ~failed
        <5>1. Taken + Len(queue) = Pushed /\ Pushed = nread /\ Len(queue) = 0 /\ Taken = Len(sent)
          BY <3>1, <4>2 DEF PipeInOrder, EndsKnown, Pushed, Taken
        <5>2. Len(sent) = length BY <3>1, <4>2, <5>1 DEF EndsKnown, TypeOK
        <5> QED BY <3>1, <4>2, <5>2 DEF AllSent, EndsKnown
      <4> QED BY <4>1, <4>2
    <3> QED BY <3>2, <3>3, <3>4
  <2>3. CASE PopWaits /\ UNCHANGED <<net, hand>>
    BY <1>1, <2>3 DEF NetPop, PopWaits, TypeOK, PipeType, PipeInOrder, HandFits,
                      NeverAhead, EndsKnown, AllSent, Returned, Taken, Pushed
  <2> QED BY <1>1, <2>1, <2>2, <2>3 DEF NetPop
<1>2. CASE Cancelled
  BY <1>2 DEF Cancelled, pipeVars, TypeOK, PipeType, PipeInOrder, HandFits,
              NeverAhead, EndsKnown, AllSent, Returned, Taken, Pushed
<1>3. CASE SendOn
  BY <1>3 DEF SendOn, pipeVars, TypeOK, PipeType, PipeInOrder, HandFits,
              NeverAhead, EndsKnown, AllSent, Returned, Taken, Pushed
<1>4. CASE Write
  <2>1. /\ net = "write" /\ net' = "pop" /\ hand = Len(sent) + 1 /\ hand' = 0
        /\ sent \in Seq(Nat) /\ sent' = Append(sent, hand) /\ hand \in Nat
        /\ UNCHANGED <<pipeVars, diskVars, ok, result, userVars, callVars>>
    BY <1>4 DEF Write, HandFits, TypeOK
  <2>2. /\ sent' \in Seq(Nat) /\ Len(sent') = Len(sent) + 1
        /\ \A k \in 1 .. Len(sent) : sent'[k] = sent[k]
        /\ sent'[Len(sent) + 1] = hand
    BY <2>1
  <2>3. Taken' = Taken BY <2>1, <2>2 DEF Taken
  <2>4. TypeOK' BY <2>1, <2>2 DEF TypeOK, PipeType, pipeVars
  <2>5. PipeInOrder'
    <3>1. ASSUME NEW k \in 1 .. Len(sent') PROVE sent'[k] = k BY <2>1, <2>2 DEF PipeInOrder
    <3> QED BY <2>1, <2>3, <3>1 DEF PipeInOrder, Pushed, pipeVars
  <2>6. NeverAhead' BY <2>1, <2>3 DEF NeverAhead, pipeVars
  <2>7. (HandFits /\ EndsKnown /\ AllSent /\ Returned)'
    BY <2>1 DEF HandFits, EndsKnown, AllSent, Returned, pipeVars
  <2> QED BY <2>4, <2>5, <2>6, <2>7
<1>5. CASE WriteError
  <2>1. /\ net = "write" /\ net' = "end" /\ ok' = FALSE
        /\ UNCHANGED <<pipeVars, diskVars, hand, sent, result, userVars, callVars>>
    BY <1>5 DEF WriteError
  <2>2. TypeOK' BY <2>1 DEF TypeOK, PipeType, pipeVars
  <2>3. (PipeInOrder /\ NeverAhead)'
    BY <2>1 DEF PipeInOrder, NeverAhead, Taken, Pushed, pipeVars
  <2>4. (HandFits /\ EndsKnown /\ AllSent /\ Returned)'
    BY <2>1 DEF HandFits, EndsKnown, AllSent, Returned, pipeVars
  <2> QED BY <2>1, <2>2, <2>3, <2>4
<1>6. CASE EndOfLoop
  <2>1. /\ net = "end" /\ net' = "join" /\ failed' = TRUE /\ waiting' = {}
        /\ UNCHANGED <<queue, closed, diskVars, hand, sent, ok, result, userVars, callVars>>
    BY <1>6 DEF EndOfLoop, UnblockDisk, Fail
  <2>2. TypeOK' BY <2>1 DEF TypeOK, PipeType
  <2>3. (PipeInOrder /\ NeverAhead)'
    BY <2>1 DEF PipeInOrder, NeverAhead, Taken, Pushed
  <2>4. (HandFits /\ EndsKnown /\ AllSent /\ Returned)'
    BY <2>1 DEF HandFits, EndsKnown, AllSent, Returned
  <2> QED BY <2>1, <2>2, <2>3, <2>4
<1>7. CASE Join
  BY <1>7 DEF Join, pipeVars, TypeOK, PipeType, PipeInOrder, HandFits,
              NeverAhead, EndsKnown, AllSent, Returned, Taken, Pushed
<1> QED BY <1>1, <1>2, <1>3, <1>4, <1>5, <1>6, <1>7 DEF NetStep

LEMMA StepInv == Inv /\ [Next]_vars => Inv'
<1> SUFFICES ASSUME Inv, [Next]_vars PROVE Inv' OBVIOUS
<1>1. CASE User
  <2>1. /\ UNCHANGED <<callVars, pipeVars, diskVars, netVars>>
        /\ cancel' \in BOOLEAN /\ pause' \in BOOLEAN /\ pauses' \in Nat
    <3>1. UNCHANGED callVars /\ cancel \in BOOLEAN /\ pause \in BOOLEAN /\ pauses \in Nat
      BY <1>1 DEF Inv, User, TypeOK
    <3>2. CASE Cancel BY <3>1, <3>2 DEF Cancel
    <3>3. CASE Pause BY <3>1, <3>3 DEF Pause
    <3>4. CASE Resume BY <3>1, <3>4 DEF Resume
    <3> QED BY <1>1, <3>2, <3>3, <3>4 DEF User
  <2>2. TypeOK' BY <2>1 DEF Inv, TypeOK, PipeType, callVars, pipeVars, diskVars, netVars
  <2>3. (PipeInOrder /\ NeverAhead)'
    BY <2>1 DEF Inv, PipeInOrder, NeverAhead, Taken, Pushed, pipeVars, diskVars, netVars
  <2>4. (HandFits /\ EndsKnown /\ AllSent /\ Returned)'
    BY <2>1 DEF Inv, HandFits, EndsKnown, AllSent, Returned, callVars, pipeVars, diskVars, netVars
  <2> QED BY <2>2, <2>3, <2>4 DEF Inv, UploadBounds
<1>2. CASE UNCHANGED vars
  BY <1>2 DEF Inv, UploadBounds, vars, callVars, pipeVars, diskVars, netVars, userVars,
              TypeOK, PipeType, PipeInOrder, HandFits, NeverAhead, EndsKnown, AllSent, Returned,
              Taken, Pushed
<1> QED BY <1>1, <1>2, DiskInv, NetInv DEF Next

-----------------------------------------------------------------------------

\* No buffer of an upload is lost, repeated or out of order between the threads.
THEOREM UploadInOrder == UploadBounds /\ Spec => [](TypeOK /\ PipeInOrder)
<1>1. Inv => TypeOK /\ PipeInOrder BY DEF Inv
<1> QED BY <1>1, InitInv, StepInv, PTL DEF Spec

\* An upload implements OrderedCopy: the server gets the next buffer or nothing,
\* and true is returned only when it has got all of them.
THEOREM UploadCopies == UploadBounds /\ Spec => CopySpec
<1>1. UploadBounds /\ Init => Copied!Init
  BY DEF UploadBounds, Init, Copied!Init
<1>2. Inv /\ [Next]_vars => [Copied!Next]_(Copied!copyVars)
  <2> SUFFICES ASSUME Inv, [Next]_vars PROVE [Copied!Next]_(Copied!copyVars) OBVIOUS
  <2>1. CASE Write /\ Net
    <3>1. /\ hand = Len(sent) + 1 /\ result = "none" /\ sent' = Append(sent, hand)
          /\ UNCHANGED <<length, result>> /\ Len(sent) \in Nat /\ net = "write"
      BY <2>1 DEF Inv, TypeOK, HandFits, Returned, Write, Net, callVars
    <3>2. Len(sent) < length
      <4>1. Taken = Len(sent) + 1 BY <3>1 DEF Taken
      <4>2. Taken + Len(queue) <= nread /\ nread <= length /\ Len(queue) \in Nat /\ nread \in Nat
            /\ length \in Nat
        BY DEF Inv, UploadBounds, NeverAhead, TypeOK
      <4> QED BY <3>1, <4>1, <4>2
    <3> QED BY <3>1, <3>2 DEF Copied!Next, Copied!Copy
  <2>2. CASE Join /\ Net
    <3>1. /\ net = "join" /\ result = "none" /\ UNCHANGED <<sent, length>>
          /\ result' = IF ok /\ diskOk THEN "true" ELSE "false"
      BY <2>2 DEF Inv, Returned, Join, Outcome, Net, callVars
    <3>2. ok /\ diskOk => Len(sent) = length BY <3>1 DEF Inv, AllSent
    <3> QED BY <3>1, <3>2 DEF Copied!Next, Copied!Return
  <2>3. CASE \/ Disk \/ User \/ UNCHANGED vars
             \/ Net /\ (NetPop \/ Cancelled \/ SendOn \/ WriteError \/ EndOfLoop)
    <3>1. UNCHANGED <<length, sent, result>>
      BY <2>3 DEF Disk, DiskStep, Read, ReadShort, DiskFail, DiskPush, DiskClose, User, Cancel,
                  Pause, Resume, Net, NetPop, Cancelled, SendOn, WriteError, EndOfLoop, vars,
                  callVars, netVars
    <3> QED BY <3>1 DEF Copied!copyVars
  <2> QED BY <2>1, <2>2, <2>3 DEF Next, Net, NetStep
<1> QED BY <1>1, <1>2, InitInv, StepInv, PTL DEF Spec, CopySpec, Copied!Spec
=============================================================================
