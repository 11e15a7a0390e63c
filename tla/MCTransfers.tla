---------------------------- MODULE MCTransfers ----------------------------
(***************************************************************************)
(* What copies files, for TLC.  A behaviour is one of several machines: a  *)
(* transfer of the engine, sequential or in parallel lanes; a folder as    *)
(* one bundle; or one of those of SyncJobs.  The variables of the others   *)
(* keep one value.                                                         *)
(***************************************************************************)
EXTENDS ParallelDownload

CONSTANTS
    FileBlocks, FileAttempts, Unrelated, StaleRetries,  \* sequential
    Margin, Window,                                     \* parallel uploads
    Files, LongNames, MaxUnits, OctalLimit,             \* bundles
    Tolerance, Hidden, KeepsTimes, Edits, Errors, Runs, \* synchronization
    WindowEdits, Clicks, Breaks,
    Ids, Intervals, MaxTime, Commands, Crashes          \* scheduler

ASSUME BoundsAssumption ==
    /\ FileBlocks \in Nat /\ Unrelated \in Nat /\ FileAttempts \in Nat \ {0}
    /\ StaleRetries \in BOOLEAN
    /\ Blocks \in Nat \ {0} /\ Workers \in Nat \ {0, 1}
    /\ MaxAttempts \in Nat \ {0} /\ Resumes \in Nat
    /\ Margin \in Nat /\ Window \in 1 .. Margin
    /\ LongNames \subseteq Files /\ MaxUnits \in Nat /\ OctalLimit \in Nat \ {0}
    /\ Tolerance \in Nat /\ KeepsTimes \in BOOLEAN
    /\ Edits \in Nat /\ Errors \in Nat /\ Runs \in Nat \ {0}
    /\ WindowEdits \in Nat /\ Clicks \in Nat /\ Breaks \in Nat
    /\ Intervals \subseteq Nat /\ MaxTime \in Nat \ {0} /\ Commands \in Nat /\ Crashes \in Nat

VARIABLES
    op,  \* the transfer under way
    resume, maxAttempts, connected, pc, total, drop, sent, committed,  \* sequential
    upMain, upAsked, base, resumeFrom,                                 \* parallel uploads
    bundleDown, format, todo, archive, temp, at, longName, out,        \* bundles
    step, outcome, source, misfit, cut,
    local, remote, now, edits, down, deleteOrphans, hidden, localList, \* SyncJobs
    remoteList, plan, failed, syncPc, exitCode, errors, runs, dirty, mirrored,
    dotfile, syncPending, requests, answers, dialog, queue, clicks, breaks, newest, overruled,
    file, daemon, jobs, due, command, list, commands, crashes, lastRan

Download == INSTANCE DownloadFile WITH Blocks <- FileBlocks, MaxAttempts <- FileAttempts
Upload   == INSTANCE UploadFile WITH Blocks <- FileBlocks, MaxAttempts <- FileAttempts
LaneUpload == INSTANCE ParallelUpload WITH main <- upMain, asked <- upAsked
Bundle == INSTANCE FolderBundle WITH down <- bundleDown
ASSUME NamesAssumption == Bundle!None \notin Files  \* a member of a folder has a name
Sync == INSTANCE SyncJobs WITH pc <- syncPc, result <- exitCode
\* Whatever is in a directory that is a dotfile is passed by too.
ASSUME HiddenAssumption ==
    \A h \in Hidden : h \subseteq Sync!OneWay!Paths /\ ("d" \in h => "d/x" \in h)

\* The variables of all transfers, and those of each kind.
sharedVars == <<startOffset, dest, result, cancel, attempt, pos>>
sequentialVars == <<resume, maxAttempts, connected, pc, drop>>
parallelVars == <<lane, error, firstError, stop>>
uploadVars == <<upMain, upAsked, base, resumeFrom>>
fileVars == <<sharedVars, sequentialVars, total, sent, committed, parallelVars, main, asked,
              laneDone, uploadVars>>
bundleVars == <<bundleDown, format, todo, archive, temp, at, longName, out, step, outcome, source,
                misfit, cut>>
syncVars == <<local, remote, now, edits, down, deleteOrphans, hidden, localList, remoteList, plan,
              failed, syncPc, exitCode, errors, runs, dirty, mirrored, dotfile, syncPending, requests,
              answers, dialog, queue, clicks, breaks, newest, overruled, file, daemon, jobs, due,
              command, list, commands, crashes, lastRan>>
mcVars == <<op, fileVars, bundleVars, syncVars>>

NoSequential ==
    /\ resume = FALSE /\ maxAttempts = 1 /\ connected = FALSE /\ pc = "off" /\ drop = FALSE
    /\ total = 0
NoParallel == lane = 0 /\ error = 0 /\ firstError = "none" /\ stop = FALSE
NoLaneDownload == main = "off" /\ asked = 0 /\ laneDone = 0
NoLaneUpload == upMain = "off" /\ upAsked = 0 /\ base = 0 /\ resumeFrom = 0
NothingSent == sent = 0 /\ committed = 0

NoFile ==
    /\ NoSequential /\ NoParallel /\ NoLaneDownload /\ NoLaneUpload /\ NothingSent
    /\ startOffset = 0 /\ dest = << >> /\ result = "none" /\ cancel = FALSE /\ attempt = 0 /\ pos = 0
NoBundle ==
    /\ bundleDown = FALSE /\ format = "off" /\ todo = {} /\ archive = << >> /\ temp = << >> /\ at = 0
    /\ longName = "off" /\ out = << >> /\ step = "off" /\ outcome = "none" /\ source = << >>
    /\ misfit = FALSE /\ cut = FALSE

FileInit ==
    \/ op = "download" /\ Download!Init /\ NoParallel /\ NoLaneDownload /\ NoLaneUpload /\ NothingSent
    \/ op = "upload" /\ Upload!Init /\ NoParallel /\ NoLaneDownload /\ NoLaneUpload
       /\ total = 0 /\ pos = 0
    \/ op = "laneDownload" /\ Init /\ NoSequential /\ NoLaneUpload /\ NothingSent
    \/ op = "laneUpload" /\ LaneUpload!Init /\ NoSequential /\ NoLaneDownload /\ pos = 0
MCInit ==
    \/ FileInit /\ NoBundle /\ Sync!Off
    \/ op = "bundle" /\ Bundle!Init /\ NoFile /\ Sync!Off
    \/ Sync!Init /\ NoFile /\ NoBundle

Downloads(A) ==
    op = "download" /\ A
        /\ UNCHANGED <<op, bundleVars, syncVars, sent, committed, parallelVars, main, asked, laneDone, uploadVars>>
Uploads(A) ==
    op = "upload" /\ A
        /\ UNCHANGED <<op, bundleVars, syncVars, total, pos, parallelVars, main, asked, laneDone, uploadVars>>
LaneDownloads(A) ==
    op = "laneDownload" /\ A
        /\ UNCHANGED <<op, bundleVars, syncVars, sequentialVars, total, sent, committed, uploadVars>>
LaneUploads(A) ==
    op = "laneUpload" /\ A
        /\ UNCHANGED <<op, bundleVars, syncVars, sequentialVars, total, pos, main, asked, laneDone>>

Bundles(A) == op = "bundle" /\ A /\ UNCHANGED <<op, fileVars, syncVars>>
Syncs(A) == A /\ UNCHANGED <<fileVars, bundleVars>>
MCNext == \/ Downloads(Download!Next) \/ Uploads(Upload!Next)
          \/ LaneDownloads(Next) \/ LaneUploads(LaneUpload!Next)
          \/ Bundles(Bundle!Next) \/ Syncs(Sync!Next)

MCSpec ==
    /\ MCInit /\ [][MCNext]_mcVars
    /\ WF_mcVars(Downloads(Download!Engine)) /\ WF_mcVars(Uploads(Upload!Engine))
    /\ WF_mcVars(LaneDownloads(Main)) /\ WF_mcVars(LaneUploads(LaneUpload!Main))
    /\ \A i \in Lanes :
          /\ WF_mcVars(LaneDownloads(Lane(i)))
          /\ WF_mcVars(LaneUploads(LaneUpload!Lane(i)))

-----------------------------------------------------------------------------
(* The properties of the machines, each of the one under way; LaneOnDisk is *)
(* stated in ParallelDownload and speaks of lanes that run.                 *)

TransferTypeOK ==
    /\ op = "download" => Download!TypeOK
    /\ op = "upload" => Upload!TypeOK
    /\ op = "laneDownload" => TypeOK
    /\ op = "laneUpload" => LaneUpload!TypeOK

\* A transfer that reports success has left the source file at the destination,
\* nothing missing and nothing of an older file in it: a sequential one over
\* whatever attempts, a download whose lanes all ended well, an upload whose
\* lanes needed no retry, a bundle whose channel held.
CorrectTransfers ==
    /\ TransferTypeOK
    /\ op = "download" => Download!CorrectCopy
    /\ op = "upload" => Upload!CorrectCopy
    /\ op = "laneDownload" => CorrectCopy
    /\ op = "laneUpload" => LaneUpload!CorrectCopy
    /\ op = "bundle" => Bundle!BundleKept

\* A retry of a sequential download keeps what the attempts before it wrote.
RetryKeeps == [][op = "download" => Download!Keeps]_mcVars

\* The blocks that a lane's retry does not send again are on the server.
SkippedIsCommitted == op = "laneUpload" => LaneUpload!SkippedIsCommitted

\* Whatever drops, fails or is stopped, the call returns.
EngineCall == op \in {"download", "upload", "laneDownload", "laneUpload"}
CallsReturn == EngineCall => <>(pc = "done" \/ main = "done" \/ upMain = "done")

\* A `sync` that exits with 0 has made its target match what it lists of its source.
MirrorComplete == Sync!MirrorComplete

\* "preserving mtime so repeat runs are no-ops": the next one finds no change
\* but in local dotfiles.
RepeatIsNoOp == Sync!RepeatIsNoOp

\* The synchronization of a window removes nothing, and a mirror loses no edit but to a
\* newer one.
KeepsChanges == Sync!KeepsChanges

\* No job runs before its time.
ScheduleKept == Sync!ScheduleKept
=============================================================================
