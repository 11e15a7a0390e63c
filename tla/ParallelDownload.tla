-------------------------- MODULE ParallelDownload --------------------------
(***************************************************************************)
(* downloadFile() on its parallel path: the local file is sized to the     *)
(* whole, cut in ranges and each range is fetched by a thread of its own   *)
(* (a lane) over a connection of its own, with its own attempts.  A lane   *)
(* that gives up records its error and stops the others.                   *)
(* After a failure the user may ask for the file again, with resume.       *)
(***************************************************************************)
EXTENDS Naturals, Sequences

CONSTANTS
    Blocks,       \* blocks of the remote file
    Workers,      \* parallelTransferCount()
    MaxAttempts,  \* relentlessMaxAttempts(): 1 unless relentless
    Resumes       \* bound: how often a failed download is asked for again

VARIABLES
    startOffset,  \* startOffset
    dest,         \* the local file, "hole" where nothing was written
    main,         \* what the calling thread does next
    lane,         \* what each lane does next
    attempt,      \* attempt of each lane
    laneDone,     \* laneDone: blocks each lane has on disk
    pos,          \* position of each lane in both files
    error,        \* the last error of each lane
    firstError,   \* firstError
    stop,         \* stop
    cancel,       \* the cancel flag
    result,       \* the return value
    asked         \* times the file was asked for

laneVars == <<lane, attempt, laneDone, pos, error>>
vars == <<startOffset, dest, main, laneVars, firstError, stop, cancel, result, asked>>

Lanes == 0 .. Workers - 1

\* ceil((total - startOffset) / workers)
Span == (Blocks - startOffset + Workers - 1) \div Workers

Offset(i) == startOffset + Span * i
Length(i) == IF Span < Blocks - Offset(i) THEN Span ELSE Blocks - Offset(i)
Used(i) == Offset(i) < Blocks

Init ==
    /\ dest \in {[k \in 1 .. n |-> "new"] : n \in 0 .. Blocks}
    /\ startOffset = 0
    /\ main = "start" /\ result = "none" /\ asked = 1
    /\ lane = [i \in Lanes |-> "off"]
    /\ attempt = [i \in Lanes |-> 1]
    /\ laneDone = [i \in Lanes |-> 0] /\ pos = [i \in Lanes |-> 0]
    /\ error = [i \in Lanes |-> "none"] /\ firstError = "none"
    /\ stop = FALSE /\ cancel = FALSE

-----------------------------------------------------------------------------
(* The calling thread. *)

\* With resume, a file that is there goes on at its size, and one as long as
\* the remote one is complete.  Then the file is sized to the whole.
Sized == [k \in 1 .. Blocks |-> IF k <= startOffset' THEN dest[k] ELSE "hole"]

Start ==
    /\ main = "start"
    /\ startOffset' \in IF asked = 1 THEN {0, Len(dest)} ELSE {Len(dest)}
    /\ \/ /\ startOffset' = Blocks
          /\ main' = "done" /\ result' = "true" /\ UNCHANGED dest
       \/ /\ startOffset' # Blocks
          /\ main' = "spawn" /\ dest' = Sized /\ UNCHANGED result
       \/ /\ startOffset' # Blocks  \* the local file cannot be opened or sized
          /\ main' = "done" /\ result' = "false"
          /\ dest' \in {dest, SubSeq(dest, 1, startOffset')}
    /\ UNCHANGED <<laneVars, firstError, stop, cancel, asked>>

Spawn ==
    /\ main = "spawn"
    /\ main' = "join"
    /\ lane' = [i \in Lanes |-> IF Used(i) THEN "check" ELSE "off"]
    /\ attempt' = [i \in Lanes |-> 1]
    /\ laneDone' = [i \in Lanes |-> 0] /\ pos' = [i \in Lanes |-> 0]
    /\ error' = [i \in Lanes |-> "none"]
    /\ firstError' = "none" /\ stop' = FALSE
    /\ UNCHANGED <<startOffset, dest, cancel, result, asked>>

Outcome == IF cancel \/ firstError # "none" THEN "false" ELSE "true"

Join ==
    /\ main = "join" /\ \A i \in Lanes : lane[i] = "off"
    /\ main' = "done"
    /\ result' = Outcome
    /\ UNCHANGED <<startOffset, dest, laneVars, firstError, stop, cancel, asked>>

-----------------------------------------------------------------------------
(* A lane. *)

Goes(i, state) == lane' = [lane EXCEPT ![i] = state]
Stopped == cancel \/ stop

\* Where downloadRange() is to go on.
ResumeFrom_Start(i) == Offset(i)
ResumeFrom(i) == Offset(i) + laneDone[i]

Check(i) ==
    /\ lane[i] = "check"
    /\ IF Stopped \/ laneDone[i] >= Length(i)
         THEN Goes(i, "off") /\ UNCHANGED pos
         ELSE Goes(i, "connect") /\ pos' = [pos EXCEPT ![i] = ResumeFrom(i)]
    /\ UNCHANGED <<startOffset, dest, main, attempt, laneDone, error, firstError, stop, cancel, result, asked>>

Connect(i) ==
    /\ lane[i] = "connect"
    /\ Goes(i, "fetch")
    /\ UNCHANGED <<startOffset, dest, main, attempt, laneDone, pos, error, firstError, stop, cancel, result, asked>>

Fails(i, e) == Goes(i, "failed") /\ error' = [error EXCEPT ![i] = e]

\* "Could not connect to ..." is not an error looksLikeConnectionDrop() knows;
\* "SSH handshake failed" is.
ConnectFails(i) ==
    /\ lane[i] = "connect"
    /\ \E e \in {"refused", "drop"} : Fails(i, e)
    /\ UNCHANGED <<startOffset, dest, main, attempt, laneDone, pos, firstError, stop, cancel, result, asked>>

Fetch(i) ==
    /\ lane[i] = "fetch" /\ laneDone[i] < Length(i)
    /\ dest' = [dest EXCEPT ![pos[i] + 1] = "new"]
    /\ pos' = [pos EXCEPT ![i] = @ + 1]
    /\ laneDone' = [laneDone EXCEPT ![i] = @ + 1]
    /\ UNCHANGED <<startOffset, main, lane, attempt, error, firstError, stop, cancel, result, asked>>

RangeDone(i) ==
    /\ lane[i] = "fetch" /\ laneDone[i] = Length(i)
    /\ Goes(i, "off")
    /\ UNCHANGED <<startOffset, dest, main, attempt, laneDone, pos, error, firstError, stop, cancel, result, asked>>

\* A read, the disk or the close fails, or the pump sees cancel or stop.
FetchFails(i) ==
    /\ lane[i] = "fetch"
    /\ \E e \in {"drop", "hard"} : Fails(i, e)
    /\ UNCHANGED <<startOffset, dest, main, attempt, laneDone, pos, firstError, stop, cancel, result, asked>>

GivesUp(i) == attempt[i] >= MaxAttempts \/ error[i] # "drop"

NextAttempt_Same(i) == attempt[i]
NextAttempt(i) == attempt[i] + 1

\* The loop tests the flags again after the backoff.
Failed(i) ==
    /\ lane[i] = "failed"
    /\ IF Stopped
         THEN Goes(i, "off") /\ UNCHANGED <<attempt, firstError, stop>>
         ELSE IF GivesUp(i)
         THEN /\ Goes(i, "off")
              /\ firstError' = IF firstError = "none" THEN error[i] ELSE firstError
              /\ stop' = TRUE
              /\ UNCHANGED attempt
         ELSE /\ Goes(i, "check")
              /\ attempt' = [attempt EXCEPT ![i] = NextAttempt(i)]
              /\ UNCHANGED <<firstError, stop>>
    /\ UNCHANGED <<startOffset, dest, main, laneDone, pos, error, cancel, result, asked>>

Lane(i) == \/ Check(i) \/ Connect(i) \/ ConnectFails(i)
           \/ Fetch(i) \/ RangeDone(i) \/ FetchFails(i) \/ Failed(i)

Cancel ==
    /\ ~cancel /\ main # "done"
    /\ cancel' = TRUE
    /\ UNCHANGED <<startOffset, dest, main, laneVars, firstError, stop, result, asked>>

Again ==
    /\ main = "done" /\ result = "false" /\ asked <= Resumes
    /\ main' = "start" /\ result' = "none" /\ cancel' = FALSE
    /\ asked' = asked + 1
    /\ UNCHANGED <<startOffset, dest, laneVars, firstError, stop>>

Main == Start \/ Spawn \/ Join

Next == Main \/ (\E i \in Lanes : Lane(i)) \/ Cancel \/ Again

\* Each thread is scheduled and each call of the engine returns.
Spec == Init /\ [][Next]_vars /\ WF_vars(Main) /\ \A i \in Lanes : WF_vars(Lane(i))

-----------------------------------------------------------------------------
(* Properties. *)

TypeOK ==
    /\ startOffset \in 0 .. Blocks /\ asked \in 1 .. Resumes + 1
    /\ main \in {"start", "spawn", "join", "done"} /\ result \in {"none", "true", "false"}
    /\ lane \in [Lanes -> {"off", "check", "connect", "fetch", "failed"}]
    /\ attempt \in [Lanes -> 1 .. MaxAttempts]
    /\ laneDone \in [Lanes -> 0 .. Blocks] /\ pos \in [Lanes -> 0 .. Blocks]
    /\ error \in [Lanes -> {"none", "drop", "refused", "hard"}]
    /\ firstError \in {"none", "drop", "refused", "hard"}
    /\ stop \in BOOLEAN /\ cancel \in BOOLEAN
    /\ dest \in Seq({"new", "hole"}) /\ Len(dest) <= Blocks

\* A download that reports success has every block: no lane that failed or
\* was stopped, no range between two lanes, leaves a hole in it.  (Asked for
\* again after a failure, it takes the size the failure left for a prefix.)
CorrectCopy == asked = 1 /\ result = "true" => dest = [k \in 1 .. Blocks |-> "new"]

\* A lane's watermark is the blocks of its own range on disk, contiguous from
\* its start, and what other lanes do never touches them.
LaneOnDisk ==
    main = "join" =>
        \A i \in Lanes : Used(i) =>
            /\ laneDone[i] <= Length(i)
            /\ \A k \in 1 .. Length(i) : (dest[Offset(i) + k] = "new") <=> k <= laneDone[i]

\* However the lanes drop, fail or stop each other, the call returns.
Ends == <>(main = "done")
=============================================================================
