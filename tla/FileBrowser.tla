---------------------------- MODULE FileBrowser ----------------------------
(***************************************************************************)
(* The browser of remote files (class ExplorerSftpBrowser): navigation,    *)
(* operations that ask first, and copies of a selection to a temporary     *)
(* folder, for the clipboard or for a drag out of the window.  The browser *)
(* asks its session and goes on; answers and ends of transfers come later, *)
(* also while a dialog or a drag runs a nested event loop.                 *)
(***************************************************************************)
EXTENDS Integers, Sequences, FiniteSets

CONSTANTS
    Dirs,        \* remote directories
    MaxRequests, \* bound: requests that wait in the session
    MaxHistory,  \* bound: entries of m_history
    MaxCopies,   \* bound: copies begun
    MaxFiles     \* bound: transfers begun

VARIABLES
    path,        \* m_path, the directory whose listing m_entries is
    history,     \* m_history
    histPos,     \* m_histPos
    requests,    \* the session's requests that are not answered, oldest first
    live,        \* the session's transfers that have not ended
    files,       \* transfers enqueued so far
    batch,       \* m_tempBatch
    bulkDirs,    \* keys of m_tempBulkDirs
    pendingDirs, \* m_tempPendingDirs
    onReady,     \* whose callback m_tempOnReady is: the number of a copy, or 0
    dialog,      \* the question that is open, with the directory it was asked in
    copies,      \* copies begun
    overtaken,   \* history: copies replaced, or begun while one before was walking
    handed       \* history: copies whose callback was called

navVars == <<path, history, histPos>>
tempVars == <<batch, bulkDirs, pendingDirs, onReady>>
historyVars == <<copies, overtaken, handed>>
browserVars == <<navVars, requests, live, files, tempVars, dialog, historyVars>>

NoDialog == "none"
Home == CHOOSE d \in Dirs : TRUE

Init ==
    /\ path = Home /\ history = <<Home>> /\ histPos = 1
    /\ requests = <<[ask |-> "list", dir |-> Home, copy |-> 0]>>
    /\ live = {} /\ files = 0
    /\ batch = {} /\ bulkDirs = {} /\ pendingDirs = 0 /\ onReady = 0
    /\ dialog = NoDialog /\ copies = 0 /\ overtaken = {} /\ handed = {}

Request(ask, dir, copy) == [ask |-> ask, dir |-> dir, copy |-> copy]
Send(asks) == /\ Len(requests) + Len(asks) <= MaxRequests
              /\ requests' = requests \o asks
List(dir) == <<Request("list", dir, 0)>>

Free == dialog = NoDialog

-----------------------------------------------------------------------------
(* Navigation. *)

NavigateTo(dir) ==
    /\ Free /\ histPos < MaxHistory
    /\ history' = Append(SubSeq(history, 1, histPos), dir) /\ histPos' = histPos + 1
    /\ Send(List(dir))
    /\ UNCHANGED <<path, live, files, tempVars, dialog, historyVars>>

GoBackOrForward ==
    /\ Free
    /\ histPos' \in {histPos - 1, histPos + 1} \cap DOMAIN history
    /\ Send(List(history[histPos']))
    /\ UNCHANGED <<path, history, live, files, tempVars, dialog, historyVars>>

Refresh ==
    /\ Free /\ Send(List(path))
    /\ UNCHANGED <<navVars, live, files, tempVars, dialog, historyVars>>

\* Delete, rename, new folder and sudo ask first; the directory is read again
\* once the answer is there.
AskFirst(what) ==
    /\ Free /\ dialog' = what
    /\ UNCHANGED <<navVars, requests, live, files, tempVars, historyVars>>

Answered ==
    /\ dialog \in {"operation", "sudo"} /\ dialog' = NoDialog
    /\ \/ Send(<<Request(dialog, path, 0)>>)
       \/ UNCHANGED requests
    /\ UNCHANGED <<navVars, live, files, tempVars, historyVars>>

-----------------------------------------------------------------------------
(* Transfers. *)

Transfer(id, copy) == [id |-> id, copy |-> copy]
Ids(transfers) == {t.id : t \in transfers}

Begun(n, copy) == {Transfer(files + i, copy) : i \in 1 .. n}

Enqueue(transfers) ==
    /\ files + Cardinality(transfers) <= MaxFiles
    /\ files' = files + Cardinality(transfers) /\ live' = live \union transfers

\* Files and folders dropped, pasted or chosen, in either direction.
UploadOrDownload ==
    /\ Free /\ Enqueue(Begun(1, 0))
    /\ UNCHANGED <<navVars, requests, tempVars, dialog, historyVars>>

Walking == \E i \in DOMAIN requests : requests[i].ask = "walk"

\* downloadSelectedToTemp(): what an earlier copy left is forgotten.
DownloadSelectedToTemp ==
    /\ Free /\ copies < MaxCopies /\ copies' = copies + 1
    /\ \E n \in 1 .. 2 :
          LET begun == Begun(n, copies')
          IN  /\ Enqueue(begun) /\ batch' = Ids(begun)
              /\ bulkDirs' \in {{}, {files + n}}  \* the selection's folder, if any
    /\ pendingDirs' = 0 /\ onReady' = copies'
    /\ overtaken' = overtaken \union ({onReady} \ {0}) \union (IF Walking THEN {copies'} ELSE {})
    /\ UNCHANGED <<navVars, requests, dialog, handed>>

\* maybeFinishTemp(): the callback is called, once, when nothing is pending.
Ready_Early(left, dirs) == left = {}
Ready(left, dirs) == left = {} /\ dirs = 0
MaybeFinishTemp ==
    IF onReady # 0 /\ Ready(batch', pendingDirs')
    THEN onReady' = 0 /\ handed' = handed \union {onReady}
    ELSE UNCHANGED <<onReady, handed>>

\* A bundle that failed without being cancelled, perhaps because the server has
\* no tar: the folder is walked, to be downloaded file by file.
FallsBack(t, outcome) == outcome = "failed" /\ t.id \in bulkDirs

TempFinished(t, outcome) ==
    /\ batch' = batch \ {t.id} /\ bulkDirs' = bulkDirs \ {t.id}
    /\ IF FallsBack(t, outcome)
       THEN /\ pendingDirs' = pendingDirs + 1
            /\ requests' = Append(requests, Request("walk", path, t.copy))
            /\ UNCHANGED <<onReady, handed>>
       ELSE UNCHANGED <<pendingDirs, requests>> /\ MaybeFinishTemp
    /\ UNCHANGED <<navVars, files, dialog, copies, overtaken>>

OnTransferFinished(t, outcome) ==
    /\ live' = live \ {t}
    /\ IF t.id \in batch THEN TempFinished(t, outcome)
       ELSE /\ IF outcome = "done" THEN requests' = requests \o List(path)
                                   ELSE UNCHANGED requests
            /\ UNCHANGED <<navVars, files, tempVars, dialog, historyVars>>

TransferEnds == \E t \in live, outcome \in {"done", "failed", "cancelled"} :
                    OnTransferFinished(t, outcome)

-----------------------------------------------------------------------------
(* Answers to the oldest request. *)

Answer(ask) == requests # << >> /\ Head(requests).ask = ask

OnDirectoryListed(ok) ==
    /\ Answer("list") /\ requests' = Tail(requests)
    /\ path' = IF ok THEN Head(requests).dir ELSE path
    /\ UNCHANGED <<history, histPos, live, files, tempVars, dialog, historyVars>>

\* onOperationFinished(), onSudoModeChanged(): a change that worked is listed.
OnOperationFinished(ok) ==
    /\ Answer("operation") \/ Answer("sudo")
    /\ requests' = Tail(requests) \o (IF ok THEN List(path) ELSE << >>)
    /\ UNCHANGED <<navVars, live, files, tempVars, dialog, historyVars>>

PendingAfter_Kept == pendingDirs
PendingAfter == pendingDirs - 1

OnSyncListingReady(ok) ==
    /\ Answer("walk") /\ requests' = Tail(requests)
    /\ IF pendingDirs = 0 THEN UNCHANGED <<live, files, tempVars, handed>>
       ELSE /\ \E n \in 0 .. (IF ok /\ files < MaxFiles THEN 1 ELSE 0) :
                  LET begun == Begun(n, Head(requests).copy)
                  IN  Enqueue(begun) /\ batch' = batch \union Ids(begun)
            /\ pendingDirs' = PendingAfter /\ UNCHANGED bulkDirs /\ MaybeFinishTemp
    /\ UNCHANGED <<navVars, dialog, copies, overtaken>>

SessionAnswers == \E ok \in BOOLEAN :
                    OnDirectoryListed(ok) \/ OnOperationFinished(ok) \/ OnSyncListingReady(ok)

-----------------------------------------------------------------------------

UserActs ==
    \/ \E dir \in Dirs : NavigateTo(dir)
    \/ GoBackOrForward \/ Refresh
    \/ AskFirst("operation") \/ AskFirst("sudo") \/ Answered
    \/ UploadOrDownload \/ DownloadSelectedToTemp

Next == UserActs \/ TransferEnds \/ SessionAnswers

\* The session answers and ends what it was given (TransferJobs); the user may
\* leave at any time.
Fairness == WF_browserVars(TransferEnds) /\ WF_browserVars(SessionAnswers)

Spec == Init /\ [][Next]_browserVars /\ Fairness

-----------------------------------------------------------------------------
(* Properties. *)

\* What is under way for a copy.
Owed(c) == {t \in live : t.copy = c}
           \union {i \in DOMAIN requests : requests[i].ask = "walk" /\ requests[i].copy = c}

\* The callback of a copy is called when all of its downloads have ended, those
\* of folders that had to be walked included, unless another copy cut across.
HandedOverWhole == \A c \in handed \ overtaken : Owed(c) = {}

\* Every copy that no other replaces is handed over, whatever fails or is
\* cancelled: a drag that waits for it goes on.
CopyHandedOver == \A c \in 1 .. MaxCopies : c = copies ~> c \in handed \union overtaken
=============================================================================
