---------------------------- MODULE DownloadPump ----------------------------
(***************************************************************************)
(* downloadPump(): the calling thread reads buffers from the server and    *)
(* pushes them into a BufferPipe, a second thread pops them and writes     *)
(* them to the local file.  A buffer is what one read returned, so the     *)
(* source is the buffers 1 .. source and a short read is just another      *)
(* buffer.  The caller sees true or false and, in *diskProgress, how far   *)
(* the file is known to be written: a retry resumes the range from there.  *)
(***************************************************************************)
EXTENDS BufferPipe

CONSTANTS
    Source,   \* bound: buffers the server can deliver before end of file
    Lengths,  \* bound: the buffers asked for; 0 asks for the whole file
    Pauses    \* bound: how often the user sets the pause flag

VARIABLES
    source,        \* buffers the server delivers before end of file
    length,        \* length: buffers asked for
    net,           \* what the calling thread does next
    disk,          \* what the disk thread does next
    nread,         \* buffers read so far; the latest is the one to push
    hand,          \* the buffer the disk thread has popped, or 0
    file,          \* the buffers written to the local file
    diskProgress,  \* *diskProgress
    diskOk,        \* diskOk
    ok,            \* ok
    result,        \* the return value
    cancel,        \* the cancel flag, or the stop flag of a parallel transfer
    pause,         \* the pause flag
    pauses         \* times the pause flag was set

netVars  == <<net, nread, ok, result>>
diskVars == <<disk, hand, file, diskProgress, diskOk>>
userVars == <<cancel, pause, pauses>>
callVars == <<source, length>>
vars == <<callVars, pipeVars, netVars, diskVars, userVars>>

Init ==
    /\ PipeInit /\ source \in 0 .. Source /\ length \in Lengths
    /\ net = "check" /\ nread = 0 /\ ok = TRUE /\ result = "none"
    /\ disk = "pop" /\ hand = 0 /\ file = << >> /\ diskProgress = 0 /\ diskOk = TRUE
    /\ cancel = FALSE /\ pause = FALSE /\ pauses = 0

-----------------------------------------------------------------------------
(* The calling thread. *)

bounded == length # 0

\* The head of the loop: cancelled, parked, all read, or one more to read.
Cancelled ==
    /\ net = "check" /\ cancel
    /\ ok' = FALSE /\ net' = "end"
    /\ UNCHANGED <<pipeVars, nread, result, diskVars, userVars>>

MayRead == ~cancel /\ ~pause

AllRead ==
    /\ net = "check" /\ MayRead
    /\ bounded /\ nread = length
    /\ net' = "end"
    /\ UNCHANGED <<pipeVars, nread, ok, result, diskVars, userVars>>

ReadOn ==
    /\ net = "check" /\ MayRead
    /\ ~(bounded /\ nread = length)
    /\ net' = "read"
    /\ UNCHANGED <<pipeVars, nread, ok, result, diskVars, userVars>>

Read ==
    /\ net = "read" /\ nread < source
    /\ nread' = nread + 1
    /\ net' = "push"
    /\ UNCHANGED <<pipeVars, ok, result, diskVars, userVars>>

\* End of file is an error only when a known length was asked for.
EofOk_Always == TRUE
EofOk == ~bounded

ReadEof ==
    /\ net = "read" /\ nread = source
    /\ ok' = EofOk /\ net' = "end"
    /\ UNCHANGED <<pipeVars, nread, result, diskVars, userVars>>

ReadError ==
    /\ net = "read"
    /\ ok' = FALSE /\ net' = "end"
    /\ UNCHANGED <<pipeVars, nread, result, diskVars, userVars>>

NetPush ==
    /\ net = "push"
    /\ \/ Push(nread) /\ net' = "check" /\ UNCHANGED ok
       \/ PushAborted /\ net' = "end" /\ ok' = FALSE
       \/ PushWaits /\ UNCHANGED <<net, ok>>
    /\ UNCHANGED <<nread, result, diskVars, userVars>>

\* Let the disk thread drain the pipe, or make it drop what is there.
EndOfLoop ==
    /\ net = "end"
    /\ IF ok THEN Close ELSE Fail
    /\ net' = "join"
    /\ UNCHANGED <<nread, ok, result, diskVars, userVars>>

Joinable_Early == TRUE
Joinable == disk = "exit"

Join ==
    /\ net = "join" /\ Joinable
    /\ result' = IF ok /\ diskOk THEN "true" ELSE "false"
    /\ net' = "done"
    /\ UNCHANGED <<pipeVars, nread, ok, diskVars, userVars>>

NetStep == \/ Cancelled \/ AllRead \/ ReadOn \/ Read \/ ReadEof \/ ReadError
           \/ NetPush \/ EndOfLoop \/ Join

Net == NetStep /\ UNCHANGED callVars

-----------------------------------------------------------------------------
(* The disk thread. *)

DiskPop ==
    /\ disk = "pop"
    /\ \/ Pop /\ hand' = Head(queue) /\ disk' = "write"
       \/ PopEnds /\ disk' = "exit" /\ UNCHANGED hand
       \/ PopWaits /\ UNCHANGED <<disk, hand>>
    /\ UNCHANGED <<netVars, file, diskProgress, diskOk, userVars>>

DiskWrite ==
    /\ disk = "write"
    /\ file' = Append(file, hand)
    /\ hand' = 0
    /\ disk' = "count"
    /\ UNCHANGED <<pipeVars, netVars, diskProgress, diskOk, userVars>>

\* The watermark moves after the write.
DiskCount ==
    /\ disk = "count"
    /\ diskProgress' = diskProgress + 1
    /\ disk' = "pop"
    /\ UNCHANGED <<pipeVars, netVars, hand, file, diskOk, userVars>>

DiskError ==
    /\ disk = "write"
    /\ diskOk' = FALSE
    /\ disk' = "fail"
    /\ UNCHANGED <<pipeVars, netVars, hand, file, diskProgress, userVars>>

DiskFail ==
    /\ disk = "fail"
    /\ Fail
    /\ disk' = "exit"
    /\ UNCHANGED <<netVars, hand, file, diskProgress, diskOk, userVars>>

DiskStep == DiskPop \/ DiskWrite \/ DiskCount \/ DiskError \/ DiskFail

Disk == DiskStep /\ UNCHANGED callVars

-----------------------------------------------------------------------------
(* The flags belong to other threads. *)

Cancel ==
    /\ ~cancel
    /\ cancel' = TRUE
    /\ UNCHANGED <<pipeVars, netVars, diskVars, pause, pauses>>

Pause ==
    /\ ~pause /\ pauses < Pauses
    /\ pause' = TRUE /\ pauses' = pauses + 1
    /\ UNCHANGED <<pipeVars, netVars, diskVars, cancel>>

Resume ==
    /\ pause
    /\ pause' = FALSE
    /\ UNCHANGED <<pipeVars, netVars, diskVars, cancel, pauses>>

User == (Cancel \/ Pause \/ Resume) /\ UNCHANGED callVars

Next == Net \/ Disk \/ User

\* Both threads are scheduled; the user owes nothing, not even a resume.
Spec == Init /\ [][Next]_vars /\ WF_vars(Net) /\ WF_vars(Disk)

-----------------------------------------------------------------------------
(* Properties. *)

TypeOK ==
    /\ PipeType /\ queue \in Seq(Nat)
    /\ net \in {"check", "read", "push", "end", "join", "done"}
    /\ disk \in {"pop", "write", "count", "fail", "exit"}
    /\ source \in 0 .. Source /\ length \in Lengths /\ nread \in 0 .. source /\ hand \in Nat
    /\ file \in Seq(Nat) /\ diskProgress \in Nat
    /\ diskOk \in BOOLEAN /\ ok \in BOOLEAN
    /\ result \in {"none", "true", "false"}
    /\ cancel \in BOOLEAN /\ pause \in BOOLEAN /\ pauses \in Nat

\* The buffers that have left the pipe, and those that have entered it.
Taken == Len(file) + (IF disk \in {"write", "fail"} \/ hand # 0 THEN 1 ELSE 0)
Pushed == IF net = "push" THEN nread - 1 ELSE nread

\* No buffer is lost, repeated or out of order between the two threads: the
\* file, the buffer in hand and the pipe hold exactly the buffers pushed.
PipeInOrder ==
    /\ \A k \in 1 .. Len(file) : file[k] = k
    /\ hand \in {0, Len(file) + 1}
    /\ \A k \in 1 .. Len(queue) : queue[k] = Taken + k
    /\ ~failed => Taken + Len(queue) = Pushed

\* The watermark a retry resumes from: never ahead of the file, and exact by
\* the time the pump returns, even when buffers were dropped on an abort.
WatermarkExact ==
    /\ diskProgress <= Len(file)
    /\ result # "none" => diskProgress = Len(file)

\* The number of buffers the caller is to get.
Total == IF bounded THEN length ELSE source

\* True is returned only with every buffer in the file, and the disk thread
\* touches neither the file nor its caller's variables after the return.
Copied == INSTANCE OrderedCopy WITH copied <- file, total <- Total
CopySpec == Copied!Spec

\* Unless it stays paused, the pump returns, whatever fails first.
Terminates == <>[]~pause => <>(result # "none")

\* A cancel ends the pump, whichever of its threads waits for the other then.
CancelEnds == cancel ~> result # "none"
=============================================================================
