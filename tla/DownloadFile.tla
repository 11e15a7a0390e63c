---------------------------- MODULE DownloadFile ----------------------------
(***************************************************************************)
(* downloadFile() on its sequential path: attempts of                      *)
(* downloadFileSequential() with backoff and reconnection between them,    *)
(* each resuming from the size of the local file.  The threads inside one  *)
(* attempt are DownloadPump's; here an attempt writes blocks one by one    *)
(* until the end of file, an error or a cancel.                            *)
(***************************************************************************)
EXTENDS Naturals, Sequences, SequencesExt

CONSTANTS
    Blocks,       \* blocks of the remote file
    MaxAttempts,  \* relentlessMaxAttempts()
    Unrelated,    \* bound: blocks of an unrelated file at the destination
    StaleRetries  \* may a relentless transfer find an unrelated file there?

VARIABLES
    resume,       \* m_resume
    maxAttempts,  \* maxAttempts: 1 unless relentless
    connected,    \* m_sftp is not null
    pc,           \* what the engine does next
    total,        \* total; 0 when the stat failed
    startOffset,  \* startOffset
    attempt,      \* attempt
    drop,         \* looksLikeConnectionDrop(lastError())
    pos,          \* position in both files
    dest,         \* the local file: "new" blocks are the remote file's
    result,       \* the return value
    cancel        \* the cancel flag

options == <<resume, maxAttempts>>
vars == <<options, connected, pc, total, startOffset, attempt, drop, pos, dest, result, cancel>>

Filled(block, n) == [k \in 1 .. n |-> block]
Lesser(a, b) == IF a < b THEN a ELSE b

\* A resumed download starts from a prefix its caller trusts; any other may
\* find a file to be overwritten.
Init ==
    /\ resume \in BOOLEAN /\ maxAttempts \in {1, MaxAttempts}
    /\ dest \in (IF resume THEN {Filled("new", n) : n \in 0 .. Blocks}
                           ELSE {Filled("old", n) : n \in 0 .. Unrelated})
    /\ (\E k \in DOMAIN dest : dest[k] = "old") => maxAttempts = 1 \/ StaleRetries
    /\ connected = TRUE /\ pc = "start" /\ total = 0 /\ startOffset = 0 /\ attempt = 1
    /\ drop = FALSE /\ pos = 0 /\ result = "none" /\ cancel = FALSE

Return(r) == pc' = "done" /\ result' = r

Start ==
    /\ pc = "start"
    /\ total' \in {0, Blocks}
    /\ startOffset' = IF resume /\ total' > 0 THEN Lesser(Len(dest), total') ELSE 0
    /\ IF resume /\ total' > 0 /\ startOffset' = total'
         THEN Return("true")
         ELSE pc' = "open" /\ UNCHANGED result
    /\ UNCHANGED <<options, connected, attempt, drop, pos, dest, cancel>>

-----------------------------------------------------------------------------
(* downloadFileSequential(). *)

OpenRemote ==
    /\ pc = "open" /\ connected
    /\ pc' = "openLocal"
    /\ UNCHANGED <<options, connected, total, startOffset, attempt, drop, pos, dest, result, cancel>>

\* "SFTP is not connected" is taken for a drop; other errors are or are not.
OpenRemoteFails ==
    /\ pc = "open"
    /\ drop' \in BOOLEAN /\ (~connected => drop')
    /\ pc' = "failed"
    /\ UNCHANGED <<options, connected, total, startOffset, attempt, pos, dest, result, cancel>>

Opened == IF startOffset > 0 THEN dest ELSE << >>

OpenLocal ==
    /\ pc = "openLocal"
    /\ dest' = Opened
    /\ pos' = startOffset
    /\ pc' = "copy"
    /\ UNCHANGED <<options, connected, total, startOffset, attempt, drop, result, cancel>>

OpenLocalFails ==
    /\ pc = "openLocal"
    /\ drop' = FALSE
    /\ pc' = "failed"
    /\ UNCHANGED <<options, connected, total, startOffset, attempt, pos, dest, result, cancel>>

CopyBlock ==
    /\ pc = "copy" /\ pos < Blocks
    /\ dest' = IF pos < Len(dest) THEN [dest EXCEPT ![pos + 1] = "new"] ELSE Append(dest, "new")
    /\ pos' = pos + 1
    /\ UNCHANGED <<options, connected, pc, total, startOffset, attempt, drop, result, cancel>>

AtEnd == pos >= Blocks

CopyEnds ==
    /\ pc = "copy" /\ AtEnd
    /\ pc' = "close"
    /\ UNCHANGED <<options, connected, total, startOffset, attempt, drop, pos, dest, result, cancel>>

Close ==
    /\ pc = "close"
    /\ Return("true")
    /\ UNCHANGED <<options, connected, total, startOffset, attempt, drop, pos, dest, cancel>>

\* A read, the disk or the close fails, or the pump sees the cancel flag.
CopyFails ==
    /\ pc \in {"copy", "close"}
    /\ drop' \in BOOLEAN
    /\ pc' = "failed"
    /\ UNCHANGED <<options, connected, total, startOffset, attempt, pos, dest, result, cancel>>

-----------------------------------------------------------------------------
(* The attempt loop. *)

GiveUp == cancel \/ attempt >= maxAttempts \/ ~drop

Failed ==
    /\ pc = "failed"
    /\ IF GiveUp THEN Return("false") ELSE pc' = "backoff" /\ UNCHANGED result
    /\ UNCHANGED <<options, connected, total, startOffset, attempt, drop, pos, dest, cancel>>

Backoff ==
    /\ pc = "backoff"
    /\ IF cancel THEN Return("false") ELSE pc' = "reconnect" /\ UNCHANGED result
    /\ UNCHANGED <<options, connected, total, startOffset, attempt, drop, pos, dest, cancel>>

ResumeAt_Unchanged == startOffset
ResumeAt == IF total > 0 THEN Lesser(Len(dest), total) ELSE startOffset

NextAttempt == attempt + 1

\* A reconnection that fails is left to the next attempt to notice.
Reconnect ==
    /\ pc = "reconnect"
    /\ connected' \in BOOLEAN
    /\ startOffset' = ResumeAt
    /\ attempt' = NextAttempt
    /\ pc' = "open"
    /\ UNCHANGED <<options, total, drop, pos, dest, result, cancel>>

Cancel ==
    /\ ~cancel /\ pc # "done"
    /\ cancel' = TRUE
    /\ UNCHANGED <<options, connected, pc, total, startOffset, attempt, drop, pos, dest, result>>

Engine == \/ Start \/ OpenRemote \/ OpenRemoteFails \/ OpenLocal \/ OpenLocalFails
          \/ CopyBlock \/ CopyEnds \/ Close \/ CopyFails
          \/ Failed \/ Backoff \/ Reconnect

Next == Engine \/ Cancel

\* Every call of the engine returns: reads and writes time out.
Spec == Init /\ [][Next]_vars /\ WF_vars(Engine)

-----------------------------------------------------------------------------
(* Properties. *)

TypeOK ==
    /\ resume \in BOOLEAN /\ maxAttempts \in {1, MaxAttempts} /\ connected \in BOOLEAN /\ drop \in BOOLEAN /\ cancel \in BOOLEAN
    /\ pc \in {"start", "open", "openLocal", "copy", "close", "failed", "backoff", "reconnect", "done"}
    /\ total \in {0, Blocks} /\ startOffset \in 0 .. Blocks /\ pos \in 0 .. Blocks
    /\ attempt \in 1 .. maxAttempts
    /\ dest \in Seq({"new", "old"})
    /\ result \in {"none", "true", "false"}

\* A download that reports success has left the remote file at the
\* destination, nothing missing, nothing of an older file in it.
CorrectCopy == result = "true" => dest = Filled("new", Blocks)

\* A retry of a file of known size keeps what the attempts before it wrote:
\* the local file never shrinks again and none of its blocks is fetched twice.
Keeps == attempt > 1 /\ total > 0 => IsPrefix(dest, dest')
RetryKeeps == [][Keeps]_vars

\* However often the connection drops, the download ends.
Ends == <>(pc = "done")
=============================================================================
