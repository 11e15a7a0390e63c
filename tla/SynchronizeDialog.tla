-------------------------- MODULE SynchronizeDialog --------------------------
(***************************************************************************)
(* "Synchronize" of the two-pane window, for one file that the user edits   *)
(* on either side meanwhile: the worker lists the remote side, the window   *)
(* the local one when the answer comes, the dialog compares the two without *)
(* a remembered state, and its copies are queued behind whatever the worker *)
(* still has to do.  Copies keep no time.  Directories are made in the      *)
(* order of the plan, before the files in them; they are left out, and the  *)
(* panes stay where they were when the listing was asked for.              *)
(***************************************************************************)
EXTENDS DirectoryDiffer, Sequences

CONSTANTS
    Edits,   \* bound: edits of either side
    Clicks,  \* bound: uses of the button
    Breaks   \* bound: copies that fail for an outer reason

Directions == {"up", "down", "twoWay"}

VARIABLES
    local, remote,   \* the file on the two sides
    dotfile,         \* its name begins with a dot
    syncPending,     \* m_syncPending
    requests,        \* listings that the worker has to make
    answers,         \* remote listings on their way to the window
    dialog,          \* what the open dialog compares: sequence of at most one pair
    queue,           \* copies queued with the session
    now, edits, clicks, breaks,
    newest,          \* history: content of the last edit; of the other side, if it was a deletion
    overruled        \* history: a copy need not be of the newest

sides == <<local, remote, dotfile>>
counts == <<edits, clicks, breaks>>
vars == <<sides, syncPending, requests, answers, dialog, queue, now, counts, newest, overruled>>

Later == Tolerance + 1
Unlisted == [kind |-> "error", data |-> 0, mtime |-> 0]  \* syncListingReady(ok = false)

Init ==
    /\ \E l, r \in {Absent, File(1, 1)} : local = l /\ remote = r
    /\ dotfile \in BOOLEAN
    /\ syncPending = FALSE /\ requests = 0 /\ answers = << >> /\ dialog = << >> /\ queue = << >>
    /\ now = 1 + Later /\ edits = 0 /\ clicks = 0 /\ breaks = 0
    /\ newest = IF Present(local) \/ Present(remote) THEN 1 ELSE 0
    /\ overruled = FALSE

-----------------------------------------------------------------------------

\* Something is under way that an edit may come too late for.
Busy == requests > 0 \/ answers # << >> \/ dialog # << >> \/ queue # << >>

\* Two edits are never closer than a comparison can tell.
Edited(side, other) ==
    /\ edits < Edits /\ edits' = edits + 1
    /\ now' = now + Later
    /\ \E data \in {1 + edits, 3 + edits} :
          \/ side' = File(data, now) /\ newest' = data
          \/ Present(side) /\ side' = Absent /\ newest' = other.data
    /\ overruled' = (overruled \/ Busy)
    /\ UNCHANGED <<dotfile, syncPending, requests, answers, dialog, queue, clicks, breaks>>

EditLocal == Edited(local, remote) /\ UNCHANGED remote
EditRemote == Edited(remote, local) /\ UNCHANGED local

\* onSyncClicked(); the open dialog is modal.
OnSyncClicked ==
    /\ clicks < Clicks /\ clicks' = clicks + 1
    /\ dialog = << >>
    /\ syncPending' = TRUE /\ requests' = requests + 1
    /\ UNCHANGED <<sides, answers, dialog, queue, now, edits, breaks, newest, overruled>>

\* doSyncListing() of the worker, before or after queued copies.
DoSyncListing ==
    /\ requests > 0 /\ requests' = requests - 1
    /\ \/ answers' = Append(answers, remote) /\ UNCHANGED breaks
       \/ breaks < Breaks /\ breaks' = breaks + 1 /\ answers' = Append(answers, Unlisted)
    /\ UNCHANGED <<sides, syncPending, dialog, queue, now, edits, clicks, newest, overruled>>

LocalListing == IF dotfile THEN Absent ELSE local

OnSyncListingReady ==
    /\ answers # << >> /\ answers' = Tail(answers)
    /\ syncPending' = FALSE
    /\ dialog' = IF syncPending /\ Head(answers) # Unlisted
                   THEN << [local |-> LocalListing, remote |-> Head(answers)] >>
                   ELSE dialog
    /\ UNCHANGED <<sides, requests, queue, now, counts, newest, overruled>>

\* compute(): NewerWins, no orphans, no state.
Compute(direction, l, r) ==
    CASE direction = "up"   -> IF CopyAction(l, r) = "copy" THEN "upload" ELSE "skip"
      [] direction = "down" -> IF CopyAction(r, l) = "copy" THEN "download" ELSE "skip"
      [] OTHER              -> DiffTwoWay("NewerWins", l, r, Absent, Absent)

\* preview() enables Start when there is something to copy; execute() queues it.
Start ==
    /\ dialog # << >> /\ dialog' = << >>
    /\ \E direction \in Directions :
       LET d == dialog[1]  type == Compute(direction, d.local, d.remote)
       IN  /\ type \in {"upload", "download"}
           /\ queue' = Append(queue, [type |-> type, direction |-> direction,
                                      local |-> d.local, remote |-> d.remote])
           /\ overruled' = (overruled \/ direction # "twoWay")
    /\ UNCHANGED <<sides, syncPending, requests, answers, now, counts, newest>>

Cancel ==
    /\ dialog # << >> /\ dialog' = << >>
    /\ UNCHANGED <<sides, syncPending, requests, answers, queue, now, counts, newest, overruled>>

\* What pump() runs: the source as it is now, with the time of the copy, which may come
\* at once after the last edit.
From(item) == IF item.type = "upload" THEN local ELSE remote
Written(item, entry) ==
    IF item.type = "upload" THEN remote' = entry /\ UNCHANGED local
                            ELSE local' = entry /\ UNCHANGED remote
Copied(data) ==
    \E time \in {now - Tolerance, now} :
        now' = time + Later /\ Written(Head(queue), File(data, time))

Copy ==
    /\ queue # << >> /\ queue' = Tail(queue)
    /\ Present(From(Head(queue)))
    /\ Copied(From(Head(queue)).data)
    /\ UNCHANGED <<dotfile, syncPending, requests, answers, dialog, counts, newest, overruled>>

\* The source is gone, the transfer is cancelled or cannot begin.
CopyFails ==
    /\ queue # << >> /\ queue' = Tail(queue)
    /\ \/ ~Present(From(Head(queue))) /\ UNCHANGED breaks
       \/ breaks < Breaks /\ breaks' = breaks + 1
    /\ UNCHANGED <<sides, syncPending, requests, answers, dialog, now, edits, clicks, newest, overruled>>

\* A transfer that breaks leaves a part of the file.
CopyBreaks ==
    /\ queue # << >> /\ queue' = Tail(queue)
    /\ Present(From(Head(queue)))
    /\ breaks < Breaks /\ breaks' = breaks + 1
    /\ Copied(0)
    /\ overruled' = TRUE
    /\ UNCHANGED <<dotfile, syncPending, requests, answers, dialog, edits, clicks, newest>>

Next == EditLocal \/ EditRemote \/ OnSyncClicked \/ DoSyncListing \/ OnSyncListingReady
        \/ Start \/ Cancel \/ Copy \/ CopyFails \/ CopyBreaks
Spec == Init /\ [][Next]_vars

-----------------------------------------------------------------------------

Entries == [kind : {"absent", "file"}, data : Nat, mtime : Nat]
Listings == [local : Entries, remote : Entries]

\* The types of the variables.
TypeOK ==
    /\ {local, remote} \subseteq Entries
    /\ answers \in Seq(Entries \union {Unlisted})
    /\ dialog \in Seq(Listings) /\ Len(dialog) <= 1
    /\ queue \in Seq([type : {"upload", "download"}, direction : Directions,
                      local : Entries, remote : Entries])

Gone(side) == Present(side) /\ ~Present(side')
Replaced(side) == Present(side) /\ side' # side

\* "conflict: local newer", "conflict: remote newer": no synchronization removes a file;
\* "Mirror (two-way)" replaces a file that is still as it was listed only by one that was
\* listed as not older; and, dotfiles apart, however many mirrors follow one another, ask
\* for listings while copies are queued or copy the same file to and fro, the content of
\* the last edit stays on a side, as long as nobody edits while one is under way, no copy
\* breaks off, and no one-way synchronization overrules it.
KeepsChanges ==
    /\ edits' = edits => ~Gone(local) /\ ~Gone(remote)
    /\ edits' = edits /\ queue # << >> /\ Head(queue).direction = "twoWay" =>
          LET item == Head(queue) IN
          /\ Replaced(local) /\ local = item.local => item.remote.mtime >= item.local.mtime
          /\ Replaced(remote) /\ remote = item.remote => item.local.mtime >= item.remote.mtime
    /\ ~overruled' /\ ~dotfile' => newest' \in {local'.data, remote'.data}
=============================================================================
