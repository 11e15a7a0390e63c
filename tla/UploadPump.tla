----------------------------- MODULE UploadPump -----------------------------
(***************************************************************************)
(* uploadPump(): a second thread reads buffers from the local file and     *)
(* pushes them into a BufferPipe, the calling thread pops them and writes  *)
(* them to the server.  The local file may turn out shorter than Length.   *)
(***************************************************************************)
EXTENDS BufferPipe

CONSTANTS
    Lengths,  \* bound: the buffers to copy
    Pauses    \* bound: how often the user sets the pause flag

VARIABLES
    source,   \* buffers the local file can deliver
    length,   \* length: buffers to copy
    disk,     \* what the disk thread does next
    nread,    \* buffers read so far; the latest is the one to push
    diskOk,   \* diskOk
    net,      \* what the calling thread does next
    hand,     \* the buffer the calling thread has popped, or 0
    sent,     \* the buffers written to the server
    ok,       \* ok
    result,   \* the return value
    cancel,   \* the cancel flag, or the stop flag of a parallel transfer
    pause,    \* the pause flag
    pauses    \* times the pause flag was set

diskVars == <<disk, nread, diskOk>>
netVars  == <<net, hand, sent, ok, result>>
userVars == <<cancel, pause, pauses>>
callVars == <<source, length>>
vars == <<callVars, pipeVars, diskVars, netVars, userVars>>

Init ==
    /\ PipeInit /\ length \in Lengths /\ source \in 0 .. length
    /\ disk = "read" /\ nread = 0 /\ diskOk = TRUE
    /\ net = "pop" /\ hand = 0 /\ sent = << >> /\ ok = TRUE /\ result = "none"
    /\ cancel = FALSE /\ pause = FALSE /\ pauses = 0

-----------------------------------------------------------------------------
(* The disk thread. *)

Read ==
    /\ disk = "read" /\ nread < length /\ nread < source
    /\ nread' = nread + 1
    /\ disk' = "push"
    /\ UNCHANGED <<pipeVars, diskOk, netVars, userVars>>

\* "Unexpected EOF while uploading"
ReadShort ==
    /\ disk = "read" /\ nread < length /\ nread = source
    /\ diskOk' = FALSE
    /\ disk' = "fail"
    /\ UNCHANGED <<pipeVars, nread, netVars, userVars>>

DiskFail ==
    /\ disk = "fail"
    /\ Fail
    /\ disk' = "exit"
    /\ UNCHANGED <<nread, diskOk, netVars, userVars>>

DiskPush ==
    /\ disk = "push"
    /\ \/ Push(nread) /\ disk' = "read"
       \/ PushAborted /\ disk' = "exit"
       \/ PushWaits /\ UNCHANGED disk
    /\ UNCHANGED <<nread, diskOk, netVars, userVars>>

DiskClose ==
    /\ disk = "read" /\ nread = length
    /\ Close
    /\ disk' = "exit"
    /\ UNCHANGED <<nread, diskOk, netVars, userVars>>

DiskStep == Read \/ ReadShort \/ DiskFail \/ DiskPush \/ DiskClose

Disk == DiskStep /\ UNCHANGED callVars

-----------------------------------------------------------------------------
(* The calling thread. *)

NetPop ==
    /\ net = "pop"
    /\ \/ Pop /\ hand' = Head(queue) /\ net' = "check"
       \/ PopEnds /\ net' = "end" /\ UNCHANGED hand
       \/ PopWaits /\ UNCHANGED <<net, hand>>
    /\ UNCHANGED <<diskVars, sent, ok, result, userVars>>

Cancelled ==
    /\ net = "check" /\ cancel
    /\ ok' = FALSE /\ net' = "end"
    /\ UNCHANGED <<pipeVars, diskVars, hand, sent, result, userVars>>

SendOn ==
    /\ net = "check" /\ ~cancel /\ ~pause
    /\ net' = "write"
    /\ UNCHANGED <<pipeVars, diskVars, hand, sent, ok, result, userVars>>

Write ==
    /\ net = "write"
    /\ sent' = Append(sent, hand)
    /\ hand' = 0
    /\ net' = "pop"
    /\ UNCHANGED <<pipeVars, diskVars, ok, result, userVars>>

WriteError ==
    /\ net = "write"
    /\ ok' = FALSE /\ net' = "end"
    /\ UNCHANGED <<pipeVars, diskVars, hand, sent, result, userVars>>

\* Unblock the disk thread, finished or not.
UnblockDisk_OnSuccess == IF ok THEN Fail ELSE UNCHANGED pipeVars
UnblockDisk == Fail

EndOfLoop ==
    /\ net = "end"
    /\ UnblockDisk
    /\ net' = "join"
    /\ UNCHANGED <<diskVars, hand, sent, ok, result, userVars>>

Outcome_NetOnly == ok
Outcome == ok /\ diskOk

Join ==
    /\ net = "join" /\ disk = "exit"
    /\ result' = IF Outcome THEN "true" ELSE "false"
    /\ net' = "done"
    /\ UNCHANGED <<pipeVars, diskVars, hand, sent, ok, userVars>>

NetStep == NetPop \/ Cancelled \/ SendOn \/ Write \/ WriteError \/ EndOfLoop \/ Join

Net == NetStep /\ UNCHANGED callVars

-----------------------------------------------------------------------------
(* The flags belong to other threads. *)

Cancel ==
    /\ ~cancel
    /\ cancel' = TRUE
    /\ UNCHANGED <<pipeVars, diskVars, netVars, pause, pauses>>

Pause ==
    /\ ~pause /\ pauses < Pauses
    /\ pause' = TRUE /\ pauses' = pauses + 1
    /\ UNCHANGED <<pipeVars, diskVars, netVars, cancel>>

Resume ==
    /\ pause
    /\ pause' = FALSE
    /\ UNCHANGED <<pipeVars, diskVars, netVars, cancel, pauses>>

User == (Cancel \/ Pause \/ Resume) /\ UNCHANGED callVars

Next == Net \/ Disk \/ User

\* Both threads are scheduled; the user owes nothing, not even a resume.
Spec == Init /\ [][Next]_vars /\ WF_vars(Net) /\ WF_vars(Disk)

-----------------------------------------------------------------------------
(* Properties. *)

TypeOK ==
    /\ PipeType /\ queue \in Seq(Nat)
    /\ length \in Lengths /\ source \in 0 .. length /\ nread \in 0 .. source
    /\ disk \in {"read", "push", "fail", "exit"}
    /\ net \in {"pop", "check", "write", "end", "join", "done"}
    /\ hand \in Nat /\ sent \in Seq(Nat)
    /\ diskOk \in BOOLEAN /\ ok \in BOOLEAN
    /\ result \in {"none", "true", "false"}
    /\ cancel \in BOOLEAN /\ pause \in BOOLEAN /\ pauses \in Nat

\* The buffers that have left the pipe, and those that have entered it.
Taken == Len(sent) + (IF hand = 0 THEN 0 ELSE 1)
Pushed == IF disk = "push" THEN nread - 1 ELSE nread

\* No buffer is lost, repeated or out of order between the two threads: the
\* server, the buffer in hand and the pipe hold exactly the buffers pushed.
PipeInOrder ==
    /\ \A k \in 1 .. Len(sent) : sent[k] = k
    /\ hand \in {0, Len(sent) + 1}
    /\ \A k \in 1 .. Len(queue) : queue[k] = Taken + k
    /\ ~failed => Taken + Len(queue) = Pushed

\* True is returned only with every buffer asked for on the server, even when
\* the local file ends early while the calling thread is waiting for a buffer.
Copied == INSTANCE OrderedCopy WITH copied <- sent, total <- length
CopySpec == Copied!Spec

\* Unless it stays paused, the pump returns, whatever fails first.
Terminates == <>[]~pause => <>(result # "none")

\* A cancel ends the pump, whichever of its threads waits for the other then.
\* It is looked at when a buffer is popped, and the disk thread supplies one.
CancelEnds == cancel ~> result # "none"
=============================================================================
