--------------------------- MODULE DirectoryDiffer ---------------------------
(***************************************************************************)
(* What a synchronization does, as DirectoryDiffer computes it from two     *)
(* listings.  A listing gives each path an entry, Absent when it is not     *)
(* there; the content of a file is a number, of which the listing shows     *)
(* only the size.                                                          *)
(***************************************************************************)
EXTENDS Integers

CONSTANT Tolerance  \* m_tolerance, seconds

Absent == [kind |-> "absent", data |-> 0, mtime |-> 0]
Dir == [kind |-> "dir", data |-> 0, mtime |-> 0]
File(data, mtime) == [kind |-> "file", data |-> data, mtime |-> mtime]

\* Contents 1, 3, 5, ... have one size, 2, 4, ... another, a part of a file (0) none.
Size(data) == IF data = 0 THEN 0 ELSE 1 + (data % 2)

Abs(n) == IF n < 0 THEN -n ELSE n

Changed(a, b) == Size(a.data) # Size(b.data) \/ Abs(a.mtime - b.mtime) > Tolerance

Action(type, path) == [type |-> type, path |-> path]

-----------------------------------------------------------------------------

\* diffOneWay() for a path of the source.
CopyAction(from, to) ==
    CASE from.kind = "dir" -> IF to.kind = "absent" THEN "mkdir" ELSE "none"
      [] from.kind = "file" -> IF to.kind = "absent" \/ Changed(from, to) THEN "copy" ELSE "skip"
      [] OTHER -> "none"

\* Copies and directories, and the orphans.
DiffOneWay(paths, from, to, deleteOrphans) ==
    LET copies == {Action(CopyAction(from[p], to[p]), p) : p \in paths}
        orphans == {p \in paths : to[p].kind # "absent" /\ from[p].kind = "absent"}
    IN  {a \in copies : a.type # "none"}
          \union (IF deleteOrphans THEN {Action("delete", p) : p \in orphans} ELSE {})

-----------------------------------------------------------------------------

Present(entry) == entry.kind # "absent"

Conflict_Older(policy, l, r) ==
    CASE policy = "NewerWins" -> IF l.mtime <= r.mtime THEN "upload" ELSE "download"
      [] policy = "Skip" -> "skip"
      [] OTHER -> "conflict"
Conflict(policy, l, r) ==
    CASE policy = "NewerWins" -> IF l.mtime >= r.mtime THEN "upload" ELSE "download"
      [] policy = "Skip" -> "skip"
      [] OTHER -> "conflict"

Modified(now, before) == Present(now) /\ Present(before) /\ Changed(now, before)
Added(now, before) == Present(now) /\ ~Present(before)

\* diffTwoWay() for one path: l and r are the entries of the two sides, pl and pr
\* what they were at the last synchronization.
DiffTwoWay(policy, l, r, pl, pr) ==
    LET lchg == Added(l, pl) \/ Modified(l, pl)
        rchg == Added(r, pr) \/ Modified(r, pr)
    IN  CASE ~Present(l) /\ ~Present(r) -> "none"
          [] l.kind = "dir" \/ r.kind = "dir" ->
               IF ~Present(r) THEN "mkdirRemote" ELSE IF ~Present(l) THEN "mkdirLocal" ELSE "none"
          [] Present(l) /\ Present(r) ->
               IF lchg /\ rchg THEN (IF Changed(l, r) THEN Conflict(policy, l, r) ELSE "skip")
               ELSE IF lchg THEN "upload" ELSE IF rchg THEN "download" ELSE "skip"
          [] Present(l) /\ ~Present(r) ->
               IF ~Present(pr) THEN "upload"
               ELSE IF Modified(l, pl) THEN Conflict(policy, l, r) ELSE "deleteLocal"
          [] OTHER ->
               IF ~Present(pl) THEN "download"
               ELSE IF Modified(r, pr) THEN Conflict(policy, l, r) ELSE "deleteRemote"
=============================================================================
