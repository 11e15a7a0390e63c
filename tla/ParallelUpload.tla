--------------------------- MODULE ParallelUpload ---------------------------
(***************************************************************************)
(* uploadFile() on its parallel path: ranges of the local file are sent by *)
(* lanes, each over connections of its own.  The server commits what a     *)
(* connection sent in order, up to Window blocks late; a connection that   *)
(* goes takes the rest with it.  A lane therefore counts what it sent and  *)
(* goes back by Margin blocks when it tries again.                         *)
(* After a failure the user may ask for the upload again, with resume.     *)
(***************************************************************************)
EXTENDS Naturals, Sequences

CONSTANTS
    Blocks,       \* blocks of the local file
    Workers,      \* parallelTransferCount()
    MaxAttempts,  \* relentlessMaxAttempts(): 1 unless relentless
    Margin,       \* uploadResumeMargin()
    Window,       \* blocks libssh2 counts as written before they are
    Resumes       \* bound: how often a failed upload is asked for again

VARIABLES
    startOffset,  \* startOffset
    dest,         \* the remote file, "hole" where nothing was written
    main,         \* what the calling thread does next
    lane,         \* what each lane does next
    attempt,      \* attempt of each lane
    base,         \* base of each lane
    resumeFrom,   \* resumeFrom of each lane
    sent,         \* sent of each lane
    committed,    \* blocks of sent that the server has written
    error,        \* the last error of each lane
    firstError,   \* firstError
    stop,         \* stop
    cancel,       \* the cancel flag
    result,       \* the return value
    asked         \* times the upload was asked for

laneVars == <<lane, attempt, base, resumeFrom, sent, committed, error>>
vars == <<startOffset, dest, main, laneVars, firstError, stop, cancel, result, asked>>

Lanes == 0 .. Workers - 1
Span == (Blocks - startOffset + Workers - 1) \div Workers
Offset(i) == startOffset + Span * i
Length(i) == IF Span < Blocks - Offset(i) THEN Span ELSE Blocks - Offset(i)
Used(i) == Offset(i) < Blocks

Zero == [i \in Lanes |-> 0]

Init ==
    /\ dest \in {[k \in 1 .. n |-> "new"] : n \in 0 .. Blocks}
    /\ startOffset = 0
    /\ main = "start" /\ result = "none" /\ asked = 1
    /\ lane = [i \in Lanes |-> "off"] /\ attempt = [i \in Lanes |-> 1]
    /\ base = Zero /\ resumeFrom = Zero /\ sent = Zero /\ committed = Zero
    /\ error = [i \in Lanes |-> "none"] /\ firstError = "none"
    /\ stop = FALSE /\ cancel = FALSE

-----------------------------------------------------------------------------
(* The calling thread. *)

\* With resume the upload goes on at the size the server reports, if it does.
Resumed == {0, Len(dest)}

\* From the start, the remote file is created or truncated first.
Start ==
    /\ main = "start"
    /\ startOffset' \in Resumed
    /\ \/ /\ startOffset' = Blocks
          /\ main' = "done" /\ result' = "true" /\ UNCHANGED dest
       \/ /\ startOffset' # Blocks
          /\ main' = "spawn" /\ UNCHANGED result
          /\ dest' = IF startOffset' = 0 THEN << >> ELSE dest
       \/ /\ startOffset' = 0  \* "Could not open remote file for writing"
          /\ main' = "done" /\ result' = "false" /\ UNCHANGED dest
    /\ UNCHANGED <<laneVars, firstError, stop, cancel, asked>>

Spawn ==
    /\ main = "spawn"
    /\ main' = "join"
    /\ lane' = [i \in Lanes |-> IF Used(i) THEN "check" ELSE "off"]
    /\ attempt' = [i \in Lanes |-> 1]
    /\ base' = Zero /\ resumeFrom' = Zero /\ sent' = Zero /\ committed' = Zero
    /\ error' = [i \in Lanes |-> "none"]
    /\ firstError' = "none" /\ stop' = FALSE
    /\ UNCHANGED <<startOffset, dest, cancel, result, asked>>

\* The size is asked for at the end and must be the whole.
Accepted == ~cancel /\ firstError = "none" /\ Len(dest) = Blocks

Join ==
    /\ main = "join" /\ \A i \in Lanes : lane[i] = "off"
    /\ main' = "done"
    /\ result' \in {"true", "false"} /\ (result' = "true" => Accepted)
    /\ UNCHANGED <<startOffset, dest, laneVars, firstError, stop, cancel, asked>>

-----------------------------------------------------------------------------
(* A lane. *)

Goes(i, state) == lane' = [lane EXCEPT ![i] = state]
Stopped == cancel \/ stop

Rewound_None(i) == base[i]
Rewound(i) == IF base[i] > Margin THEN base[i] - Margin ELSE 0

Check(i) ==
    /\ lane[i] = "check"
    /\ IF Stopped \/ base[i] >= Length(i)
         THEN Goes(i, "off") /\ UNCHANGED <<resumeFrom, sent, committed>>
         ELSE /\ Goes(i, "connect")
              /\ resumeFrom' = [resumeFrom EXCEPT ![i] = Rewound(i)]
              /\ sent' = [sent EXCEPT ![i] = 0]
              /\ committed' = [committed EXCEPT ![i] = 0]
    /\ UNCHANGED <<startOffset, dest, main, attempt, base, error, firstError, stop, cancel, result, asked>>

Connect(i) ==
    /\ lane[i] = "connect"
    /\ Goes(i, "send")
    /\ UNCHANGED <<startOffset, dest, main, attempt, base, resumeFrom, sent, committed, error, firstError, stop, cancel, result, asked>>

Send(i) ==
    /\ lane[i] = "send"
    /\ resumeFrom[i] + sent[i] < Length(i)
    /\ sent[i] - committed[i] < Window
    /\ sent' = [sent EXCEPT ![i] = @ + 1]
    /\ UNCHANGED <<startOffset, dest, main, lane, attempt, base, resumeFrom, committed, error, firstError, stop, cancel, result, asked>>

\* The server writes at the offset it was given; past the end it leaves a hole.
Written(at) ==
    [k \in 1 .. (IF at < Len(dest) THEN Len(dest) ELSE at + 1) |->
        IF k = at + 1 THEN "new" ELSE IF k <= Len(dest) THEN dest[k] ELSE "hole"]

Commit(i) ==
    /\ lane[i] = "send" /\ committed[i] < sent[i]
    /\ dest' = Written(Offset(i) + resumeFrom[i] + committed[i])
    /\ committed' = [committed EXCEPT ![i] = @ + 1]
    /\ UNCHANGED <<startOffset, main, lane, attempt, base, resumeFrom, sent, error, firstError, stop, cancel, result, asked>>

\* The server answers the close after everything sent before it.
Acknowledged(i) == committed[i] = sent[i]

RangeDone(i) ==
    /\ lane[i] = "send"
    /\ resumeFrom[i] + sent[i] = Length(i) /\ Acknowledged(i)
    /\ Goes(i, "off")
    /\ UNCHANGED <<startOffset, dest, main, attempt, base, resumeFrom, sent, committed, error, firstError, stop, cancel, result, asked>>

\* The connection is not made ("Could not connect to ..." is not an error
\* looksLikeConnectionDrop() knows, "SSH handshake failed" is), or a write or
\* the close fails, or the pump sees cancel or stop.
LaneFails(i) ==
    /\ lane[i] \in {"connect", "send"}
    /\ Goes(i, "failed")
    /\ \E e \in {"drop", "hard"} : error' = [error EXCEPT ![i] = e]
    /\ UNCHANGED <<startOffset, dest, main, attempt, base, resumeFrom, sent, committed, firstError, stop, cancel, result, asked>>

GivesUp(i) == attempt[i] >= MaxAttempts \/ error[i] # "drop"

NextAttempt(i) == attempt[i] + 1

Failed(i) ==
    /\ lane[i] = "failed"
    /\ IF Stopped
         THEN Goes(i, "off") /\ UNCHANGED <<attempt, base, firstError, stop>>
         ELSE IF GivesUp(i)
         THEN /\ Goes(i, "off")
              /\ firstError' = IF firstError = "none" THEN error[i] ELSE firstError
              /\ stop' = TRUE
              /\ UNCHANGED <<attempt, base>>
         ELSE /\ Goes(i, "check")
              /\ attempt' = [attempt EXCEPT ![i] = NextAttempt(i)]
              /\ base' = [base EXCEPT ![i] = resumeFrom[i] + sent[i]]
              /\ UNCHANGED <<firstError, stop>>
    /\ UNCHANGED <<startOffset, dest, main, resumeFrom, sent, committed, error, cancel, result, asked>>

Lane(i) == \/ Check(i) \/ Connect(i) \/ Send(i) \/ Commit(i)
           \/ RangeDone(i) \/ LaneFails(i) \/ Failed(i)

Cancel ==
    /\ ~cancel /\ main # "done"
    /\ cancel' = TRUE
    /\ UNCHANGED <<startOffset, dest, main, laneVars, firstError, stop, result, asked>>

Again ==
    /\ main = "done" /\ result = "false" /\ asked <= Resumes
    /\ main' = "start" /\ result' = "none" /\ cancel' = FALSE
    /\ asked' = asked + 1
    /\ UNCHANGED <<startOffset, dest, laneVars, firstError, stop>>

Main == Start \/ Spawn \/ Join

Next == Main \/ (\E i \in Lanes : Lane(i)) \/ Cancel \/ Again

\* Each thread is scheduled and each call of the engine returns.
Spec == Init /\ [][Next]_vars /\ WF_vars(Main) /\ \A i \in Lanes : WF_vars(Lane(i))

-----------------------------------------------------------------------------
(* Properties. *)

TypeOK ==
    /\ startOffset \in 0 .. Blocks /\ asked \in 1 .. Resumes + 1
    /\ main \in {"start", "spawn", "join", "done"} /\ result \in {"none", "true", "false"}
    /\ lane \in [Lanes -> {"off", "check", "connect", "send", "failed"}]
    /\ attempt \in [Lanes -> 1 .. MaxAttempts]
    /\ base \in [Lanes -> 0 .. Blocks] /\ resumeFrom \in [Lanes -> 0 .. Blocks]
    /\ sent \in [Lanes -> 0 .. Blocks] /\ committed \in [Lanes -> 0 .. Blocks]
    /\ error \in [Lanes -> {"none", "drop", "hard"}] /\ firstError \in {"none", "drop", "hard"}
    /\ stop \in BOOLEAN /\ cancel \in BOOLEAN
    /\ dest \in Seq({"new", "hole"}) /\ Len(dest) <= Blocks

\* An upload that reports success without a retry has every block on the
\* server: the final size is no proof of that, a hole has the size of a block.
CorrectCopy ==
    asked = 1 /\ (\A i \in Lanes : attempt[i] = 1) /\ result = "true" =>
        dest = [k \in 1 .. Blocks |-> "new"]

\* An upload that reports success has every block on the server, whatever its
\* lanes had to send again.
CorrectAfterRetry == asked = 1 /\ result = "true" => dest = [k \in 1 .. Blocks |-> "new"]

\* The blocks a retry does not send again are on the server: going back by the
\* margin makes up for what was counted as written and lost with a connection.
SkippedIsCommitted ==
    \A i \in Lanes : lane[i] \in {"connect", "send"} =>
        \A k \in 1 .. resumeFrom[i] :
            Offset(i) + k <= Len(dest) /\ dest[Offset(i) + k] = "new"

\* However the lanes drop, fail or stop each other, the call returns.
Ends == <>(main = "done")
=============================================================================
