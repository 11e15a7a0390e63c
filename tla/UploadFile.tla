----------------------------- MODULE UploadFile -----------------------------
(***************************************************************************)
(* uploadFile() on its sequential path: attempts of uploadFileSequential() *)
(* with backoff and reconnection between them, each resuming from the size *)
(* the server reports.  Blocks sent are in flight until the server commits *)
(* them, in order; a connection that goes takes them with it.              *)
(***************************************************************************)
EXTENDS Naturals, Sequences

CONSTANTS
    Blocks,       \* blocks of the local file
    MaxAttempts,  \* relentlessMaxAttempts()
    Unrelated,    \* bound: blocks of an unrelated file at the destination
    StaleRetries  \* may a relentless transfer find an unrelated file there?

VARIABLES
    resume,       \* m_resume
    maxAttempts,  \* maxAttempts: 1 unless relentless
    connected,    \* m_sftp is not null
    pc,           \* what the engine does next
    startOffset,  \* startOffset
    attempt,      \* attempt
    drop,         \* looksLikeConnectionDrop(lastError())
    sent,         \* position in the local file
    committed,    \* position up to which the server has written
    dest,         \* the remote file: "new" blocks are the local file's
    result,       \* the return value
    cancel        \* the cancel flag

options == <<resume, maxAttempts>>
vars == <<options, connected, pc, startOffset, attempt, drop, sent, committed, dest, result, cancel>>
file == <<sent, committed, dest>>

Filled(block, n) == [k \in 1 .. n |-> block]
Lesser(a, b) == IF a < b THEN a ELSE b

\* A resumed upload starts from a prefix its caller trusts; any other may find
\* a file to be overwritten.
Init ==
    /\ resume \in BOOLEAN /\ maxAttempts \in {1, MaxAttempts}
    /\ dest \in (IF resume THEN {Filled("new", n) : n \in 0 .. Blocks}
                           ELSE {Filled("old", n) : n \in 0 .. Unrelated})
    /\ (\E k \in DOMAIN dest : dest[k] = "old") => maxAttempts = 1 \/ StaleRetries
    /\ connected = TRUE /\ pc = "start" /\ startOffset = 0 /\ attempt = 1
    /\ drop = FALSE /\ sent = 0 /\ committed = 0 /\ result = "none" /\ cancel = FALSE

Return(r) == pc' = "done" /\ result' = r

\* statSize(): the size of the remote file, or nothing.
Reported == {Len(dest)} \union {0}

Start ==
    /\ pc = "start"
    /\ \E size \in IF resume THEN Reported ELSE {0} :
          /\ startOffset' = Lesser(size, Blocks)
          /\ IF startOffset' = Blocks /\ Blocks > 0
               THEN Return("true")
               ELSE pc' = "open" /\ UNCHANGED result
    /\ UNCHANGED <<options, connected, attempt, drop, file, cancel>>

-----------------------------------------------------------------------------
(* uploadFileSequential(). *)

Opened == IF startOffset = 0 THEN << >> ELSE dest

\* The local file, then the remote one.
Open ==
    /\ pc = "open" /\ connected
    /\ dest' = Opened
    /\ sent' = startOffset /\ committed' = startOffset
    /\ pc' = "copy"
    /\ UNCHANGED <<options, connected, startOffset, attempt, drop, result, cancel>>

\* "SFTP is not connected" is taken for a drop; other errors are or are not.
OpenFails ==
    /\ pc = "open"
    /\ drop' \in BOOLEAN /\ (~connected => drop')
    /\ pc' = "failed"
    /\ UNCHANGED <<options, connected, startOffset, attempt, file, result, cancel>>

Send ==
    /\ pc = "copy" /\ sent < Blocks
    /\ sent' = sent + 1
    /\ UNCHANGED <<options, connected, pc, startOffset, attempt, drop, committed, dest, result, cancel>>

\* The server writes at the offset it was given; past the end it leaves a hole.
Written(at) ==
    [k \in 1 .. (IF at < Len(dest) THEN Len(dest) ELSE at + 1) |->
        IF k = at + 1 THEN "new" ELSE IF k <= Len(dest) THEN dest[k] ELSE "hole"]

Commit ==
    /\ pc \in {"copy", "close"} /\ committed < sent
    /\ dest' = Written(committed)
    /\ committed' = committed + 1
    /\ UNCHANGED <<options, connected, pc, startOffset, attempt, drop, sent, result, cancel>>

CopyEnds ==
    /\ pc = "copy" /\ sent >= Blocks
    /\ pc' = "close"
    /\ UNCHANGED <<options, connected, startOffset, attempt, drop, file, result, cancel>>

\* The server answers the close after everything sent before it.
Acknowledged == committed = sent

Close ==
    /\ pc = "close" /\ Acknowledged
    /\ Return("true")
    /\ UNCHANGED <<options, connected, startOffset, attempt, drop, file, cancel>>

\* A read, a write or the close fails, or the pump sees the cancel flag.
CopyFails ==
    /\ pc \in {"copy", "close"}
    /\ drop' \in BOOLEAN
    /\ pc' = "failed"
    /\ UNCHANGED <<options, connected, startOffset, attempt, file, result, cancel>>

-----------------------------------------------------------------------------
(* The attempt loop. *)

GiveUp == cancel \/ attempt >= maxAttempts \/ ~drop

Failed ==
    /\ pc = "failed"
    /\ IF GiveUp THEN Return("false") ELSE pc' = "backoff" /\ UNCHANGED result
    /\ UNCHANGED <<options, connected, startOffset, attempt, drop, file, cancel>>

Backoff ==
    /\ pc = "backoff"
    /\ IF cancel THEN Return("false") ELSE pc' = "reconnect" /\ UNCHANGED result
    /\ UNCHANGED <<options, connected, startOffset, attempt, drop, file, cancel>>

ResumeAt_Sent(size) == sent
ResumeAt(size) == Lesser(size, Blocks)

NextAttempt == attempt + 1

\* Without a connection there is no size and the next attempt starts over.
Reconnect ==
    /\ pc = "reconnect"
    /\ connected' \in BOOLEAN
    /\ \E size \in IF connected' THEN Reported ELSE {0} : startOffset' = ResumeAt(size)
    /\ attempt' = NextAttempt
    /\ pc' = "open"
    /\ UNCHANGED <<options, drop, file, result, cancel>>

Cancel ==
    /\ ~cancel /\ pc # "done"
    /\ cancel' = TRUE
    /\ UNCHANGED <<options, connected, pc, startOffset, attempt, drop, file, result>>

Engine == \/ Start \/ Open \/ OpenFails
          \/ Send \/ Commit \/ CopyEnds \/ Close \/ CopyFails
          \/ Failed \/ Backoff \/ Reconnect

Next == Engine \/ Cancel

\* Every call of the engine returns: reads and writes time out.
Spec == Init /\ [][Next]_vars /\ WF_vars(Engine)

-----------------------------------------------------------------------------
(* Properties. *)

TypeOK ==
    /\ resume \in BOOLEAN /\ maxAttempts \in {1, MaxAttempts} /\ connected \in BOOLEAN /\ drop \in BOOLEAN /\ cancel \in BOOLEAN
    /\ pc \in {"start", "open", "copy", "close", "failed", "backoff", "reconnect", "done"}
    /\ startOffset \in 0 .. Blocks /\ sent \in 0 .. Blocks /\ committed \in 0 .. sent
    /\ attempt \in 1 .. maxAttempts
    /\ dest \in Seq({"new", "old", "hole"})
    /\ result \in {"none", "true", "false"}

\* An upload that reports success has left the local file on the server: no
\* block lost with a connection, none of an older file left in it.
CorrectCopy == result = "true" => dest = Filled("new", Blocks)

\* However often the connection drops, the upload ends.
Ends == <>(pc = "done")
=============================================================================
