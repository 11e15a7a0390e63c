-------------------------- MODULE MCTransferThreads --------------------------
(***************************************************************************)
(* The threads inside one call of the engine, for TLC.  A behaviour is one *)
(* of three machines, which share no step: a download pump, an upload pump *)
(* or the lanes that share a rate limiter.  The variables of the others    *)
(* keep their initial values.                                              *)
(***************************************************************************)
EXTENDS DownloadPump, RateLimiter

ASSUME BoundsAssumption ==
    /\ Source \in Nat /\ Lengths \subseteq Nat /\ 0 \in Lengths /\ Pauses \in Nat
    /\ Rate \in Nat \ {0} /\ Chunks \subseteq 1 .. Rate

VARIABLES
    op,  \* the machine under way
    upQueue, upClosed, upFailed, upWaiting,                    \* the pipe of an upload
    upSource, upLength, upNet, upDisk, upRead, upHand, upSent,  \* its threads
    upDiskOk, upOk, upResult

Upload == INSTANCE UploadPump WITH
    queue <- upQueue, closed <- upClosed, failed <- upFailed, waiting <- upWaiting,
    source <- upSource, length <- upLength, net <- upNet, disk <- upDisk, nread <- upRead,
    hand <- upHand, sent <- upSent, diskOk <- upDiskOk, ok <- upOk, result <- upResult

\* The user's flags are those of the pump that runs.
downloadVars == <<callVars, pipeVars, netVars, diskVars>>
uploadVars == <<upQueue, upClosed, upFailed, upWaiting, upSource, upLength, upNet, upDisk, upRead,
                upHand, upSent, upDiskOk, upOk, upResult>>
mcVars == <<op, downloadVars, uploadVars, userVars, limiterVars>>

NoDownload == source = 0 /\ length = 0
NoUpload == upSource = 0 /\ upLength = 0

MCInit ==
    /\ Init /\ Upload!Init /\ LimiterInit
    /\ \/ op = "download" /\ NoUpload
       \/ op = "upload" /\ NoDownload
       \/ op = "limit" /\ NoDownload /\ NoUpload

Downloads(A) == op = "download" /\ A /\ UNCHANGED <<op, uploadVars, limiterVars>>
Uploads(A) == op = "upload" /\ A /\ UNCHANGED <<op, downloadVars, limiterVars>>
Limits(A) == op = "limit" /\ A /\ UNCHANGED <<op, downloadVars, uploadVars, userVars>>

MCNext == Downloads(Next) \/ Uploads(Upload!Next) \/ Limits(LimiterNext)

MCSpec ==
    /\ MCInit /\ [][MCNext]_mcVars
    /\ WF_mcVars(Downloads(Net)) /\ WF_mcVars(Downloads(Disk))
    /\ WF_mcVars(Uploads(Upload!Net)) /\ WF_mcVars(Uploads(Upload!Disk))
    /\ WF_mcVars(Limits(Tick))
    /\ \A l \in Lanes : WF_mcVars(Limits(Look(l)))

-----------------------------------------------------------------------------
(* PipeInOrder, WatermarkExact and CopySpec are stated in DownloadPump and  *)
(* AggregateCapped in RateLimiter; they hold where these rest.              *)

\* An upload copies its file in order, returns true only when all of it is
\* copied, and leaves nothing running behind.
UploadCopied == Upload!CopySpec

\* Nobody waits for ever.  Unless it stays paused, a pump returns, whatever
\* fails first; a cancel ends it, whichever of its threads waits for the other
\* then; and while lanes wait for the limiter, one of them is let through
\* again, which is the one lane that waits alone.
Returned == result # "none" \/ upResult # "none"
Ends ==
    /\ op # "limit" /\ <>[]~pause => <>Returned
    /\ cancel ~> Returned
    /\ SomeLaneMoves /\ ConsumeReturns
=============================================================================
