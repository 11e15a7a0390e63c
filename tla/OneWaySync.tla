----------------------------- MODULE OneWaySync -----------------------------
(***************************************************************************)
(* `sync` of the command line: runSync() lists both trees, diffs them and   *)
(* executes the actions one by one, while the source may be edited.  Runs   *)
(* follow one another.                                                     *)
(***************************************************************************)
EXTENDS DirectoryDiffer

CONSTANTS
    Hidden,      \* sets of paths that may be dotfiles, or in a directory that is one
    KeepsTimes,  \* do setModifiedTime() and setLocalMtime() work?
    Edits,       \* bound: edits of the source
    Errors,      \* bound: actions that fail for an outer reason
    Runs         \* bound: runs

Paths == {"a", "d", "d/x"}    \* a file, a directory and a file in it
Place(p) == CASE p = "a" -> 1 [] p = "d" -> 2 [] p = "d/x" -> 3

VARIABLES
    down, deleteOrphans,       \* the options
    hidden,                    \* the dotfiles
    local, remote,             \* the two trees
    localList, remoteList,     \* what was listed of them
    plan,                      \* actions not yet executed, a set: their paths order them
    failed,                    \* report.failed
    pc,                        \* "local", "remote", "execute", "stamp", "done"
    result,                    \* the exit code
    now,                       \* the clock
    edits, errors, runs,
    dirty,                     \* history: source edited since it was listed, or target not listed
    mirrored                   \* history: the last run ended well and nothing was edited since it listed

options == <<down, deleteOrphans, hidden>>
trees == <<local, remote>>
lists == <<localList, remoteList>>
counts == <<edits, errors, runs>>
vars == <<options, trees, lists, plan, failed, pc, result, now, counts, dirty, mirrored>>

Source(l, r) == IF down THEN r ELSE l
Target(l, r) == IF down THEN l ELSE r

Nothing == [p \in Paths |-> Absent]
Later == Tolerance + 1    \* the least time that a comparison sees
Parent == [p \in Paths |-> IF p = "d/x" THEN "d" ELSE "root"]
HasParent(tree, p) == Parent[p] \in Paths => tree[Parent[p]].kind = "dir"
WellFormed(tree) == \A p \in Paths : tree[p].kind # "absent" => HasParent(tree, p)

\* A source; a target that is empty, older, or has orphans or a file for a directory.
SourceTrees == {t \in [Paths -> {Absent, Dir, File(1, 0)}] :
                  WellFormed(t) /\ t["a"].kind # "dir" /\ t["d"].kind # "file" /\ t["d/x"].kind # "dir"}
TargetTrees == {t \in [Paths -> {Absent, Dir, File(1, Tolerance), File(2, 0)}] :
                  WellFormed(t) /\ t["a"].kind # "dir" /\ t["d/x"].kind # "dir"}

Init ==
    /\ down \in BOOLEAN /\ deleteOrphans \in BOOLEAN /\ hidden \in Hidden
    /\ \E s \in SourceTrees, t \in TargetTrees :
          IF down THEN remote = s /\ local = t ELSE local = s /\ remote = t
    /\ localList = Nothing /\ remoteList = Nothing /\ plan = {} /\ failed = 0
    /\ pc = "local" /\ result = 0 /\ now = 2 * Later
    /\ edits = 0 /\ errors = 0 /\ runs = 1 /\ dirty = FALSE /\ mirrored = FALSE

-----------------------------------------------------------------------------

\* The local lister passes dotfiles by (QDirIterator without QDir::Hidden), the remote
\* one does not.
Visible(tree) == [p \in Paths |-> IF p \in hidden THEN Absent ELSE tree[p]]

ListLocal ==
    /\ pc = "local"
    /\ localList' = Visible(local) /\ pc' = "remote" /\ failed' = 0
    /\ dirty' = IF down THEN dirty ELSE FALSE
    /\ UNCHANGED <<options, trees, remoteList, plan, result, now, counts, mirrored>>

Diffed(l, r) == DiffOneWay(Paths, Source(l, r), Target(l, r), deleteOrphans)

ListRemote ==
    /\ pc = "remote"
    /\ remoteList' = remote /\ plan' = Diffed(localList, remote) /\ pc' = "execute"
    /\ dirty' = IF down THEN FALSE ELSE dirty
    /\ UNCHANGED <<options, trees, localList, failed, result, now, counts, mirrored>>

\* An upload takes a listing that fails for an empty one.
ListRemoteFails ==
    /\ pc = "remote" /\ errors < Errors /\ errors' = errors + 1
    /\ remoteList' = Nothing /\ dirty' = TRUE
    /\ IF down THEN pc' = "done" /\ result' = 1 /\ mirrored' = FALSE /\ UNCHANGED plan
               ELSE pc' = "execute" /\ plan' = Diffed(localList, Nothing) /\ UNCHANGED <<result, mirrored>>
    /\ UNCHANGED <<options, trees, localList, failed, now, edits, runs>>

\* The actions go by their paths, deletes behind the others.
Position(a) == IF a.type = "delete" THEN 3 + Place(a.path) ELSE Place(a.path)
Next1 == CHOOSE a \in plan : \A b \in plan : Position(a) <= Position(b)
Left == plan \ {Next1}

\* One entry of the target becomes another.
InTarget(path, entry) ==
    IF down THEN local' = [local EXCEPT ![path] = entry] /\ UNCHANGED remote
            ELSE remote' = [remote EXCEPT ![path] = entry] /\ UNCHANGED local

Executes(type) == pc = "execute" /\ plan # {} /\ Next1.type = type
Failure == failed' = failed + 1
OuterError == errors < Errors /\ errors' = errors + 1

SkipFile ==
    /\ Executes("skip")
    /\ plan' = Left
    /\ UNCHANGED <<options, trees, lists, failed, pc, result, now, counts, dirty, mirrored>>

\* uploadFile(), downloadFile(): what the source holds now goes to the target.
CanCopy(p) ==
    /\ Source(local, remote)[p].kind = "file"
    /\ Target(local, remote)[p].kind # "dir"
    /\ \/ HasParent(Target(local, remote), p)
       \/ down /\ Parent[p] \in Paths /\ local[Parent[p]].kind = "absent"

\* A download makes the directory of its file (mkpath).
Written(data) ==
    LET p == Next1.path
    IN  IF down THEN /\ local' = [q \in Paths |-> CASE q = p -> File(data, now)
                                                   [] q = Parent[p] -> Dir
                                                   [] OTHER -> local[q]]
                     /\ UNCHANGED remote
                ELSE InTarget(p, File(data, now))

Copy ==
    /\ Executes("copy") /\ CanCopy(Next1.path)
    /\ Written(Source(local, remote)[Next1.path].data)
    /\ now' = now + Later /\ pc' = "stamp"
    /\ UNCHANGED <<options, lists, plan, failed, result, counts, dirty, mirrored>>

\* The copy gets the time that the source had when it was listed.
StampTime_Current == Source(local, remote)[Next1.path].mtime
StampTime_Unset == Target(local, remote)[Next1.path].mtime
StampTime == Source(localList, remoteList)[Next1.path].mtime

Stamp ==
    /\ pc = "stamp" /\ pc' = "execute" /\ plan' = Left
    /\ IF KeepsTimes
         THEN InTarget(Next1.path, [Target(local, remote)[Next1.path] EXCEPT !.mtime = StampTime])
         ELSE UNCHANGED trees
    /\ UNCHANGED <<options, lists, failed, result, now, counts, dirty, mirrored>>

CopyImpossible ==
    /\ Executes("copy") /\ ~CanCopy(Next1.path)
    /\ plan' = Left /\ Failure
    /\ UNCHANGED <<options, trees, lists, pc, result, now, counts, dirty, mirrored>>

\* A transfer that breaks leaves a part of the file.
CopyBreaks ==
    /\ Executes("copy") /\ CanCopy(Next1.path) /\ OuterError
    /\ Written(0)
    /\ plan' = Left /\ Failure
    /\ UNCHANGED <<options, lists, pc, result, now, edits, runs, dirty, mirrored>>

\* makeDirectory() fails over a directory that is there, mkpath() does not.
MakeDir ==
    /\ Executes("mkdir")
    /\ plan' = Left
    /\ LET t == Target(local, remote)
           kind == t[Next1.path].kind
       IN  IF kind = "absent" /\ HasParent(t, Next1.path)
             THEN InTarget(Next1.path, Dir) /\ UNCHANGED failed
             ELSE UNCHANGED trees /\ IF down /\ kind = "dir" THEN UNCHANGED failed ELSE Failure
    /\ UNCHANGED <<options, lists, pc, result, now, counts, dirty, mirrored>>

\* removeFile() and QFile::remove() take no directory.
Delete ==
    /\ Executes("delete")
    /\ plan' = Left
    /\ IF Target(local, remote)[Next1.path].kind = "file"
         THEN InTarget(Next1.path, Absent) /\ UNCHANGED failed
         ELSE Failure /\ UNCHANGED trees
    /\ UNCHANGED <<options, lists, pc, result, now, counts, dirty, mirrored>>

ActionFails ==
    /\ pc = "execute" /\ plan # {} /\ Next1.type \in {"mkdir", "delete"} /\ OuterError
    /\ plan' = Left /\ Failure
    /\ UNCHANGED <<options, trees, lists, pc, result, now, edits, runs, dirty, mirrored>>

ExitCode == IF failed = 0 THEN 0 ELSE 1

Finish ==
    /\ pc = "execute" /\ plan = {}
    /\ pc' = "done" /\ result' = ExitCode
    /\ mirrored' = (result' = 0 /\ ~dirty)
    /\ UNCHANGED <<options, trees, lists, plan, failed, now, counts, dirty>>

Run == ListLocal \/ ListRemote \/ ListRemoteFails \/ SkipFile \/ Copy \/ Stamp \/ CopyImpossible
       \/ CopyBreaks \/ MakeDir \/ Delete \/ ActionFails \/ Finish

Again ==
    /\ pc = "done" /\ runs < Runs
    /\ runs' = runs + 1 /\ pc' = "local"
    /\ UNCHANGED <<options, trees, lists, plan, failed, result, now, edits, errors, dirty, mirrored>>

\* A file of the source is written anew, or goes; two writes are never closer than
\* a comparison can tell.
EditSource ==
    /\ edits < Edits /\ edits' = edits + 1
    /\ now' = now + Later
    /\ \E p \in {"a", "d/x"} :
       LET s == Source(local, remote)
           new == File(s[p].data + 2, now)
       IN  /\ s[p].kind = "file"
           /\ \E e \in {new, Absent} :
                IF down THEN remote' = [remote EXCEPT ![p] = e] /\ UNCHANGED local
                        ELSE local' = [local EXCEPT ![p] = e] /\ UNCHANGED remote
    /\ dirty' = TRUE /\ mirrored' = FALSE
    /\ UNCHANGED <<options, lists, plan, failed, pc, result, errors, runs>>

Next == Run \/ Again \/ EditSource
Spec == Init /\ [][Next]_vars

-----------------------------------------------------------------------------

\* The types of the variables.
TypeOK ==
    /\ local \in [Paths -> [kind : {"absent", "dir", "file"}, data : Nat, mtime : Nat]]
    /\ remote \in [Paths -> [kind : {"absent", "dir", "file"}, data : Nat, mtime : Nat]]
    /\ plan \subseteq [type : {"copy", "mkdir", "delete", "skip"}, path : Paths]
    /\ failed \in 0 .. 3 /\ result \in {0, 1} /\ hidden \in Hidden
    /\ pc \in {"local", "remote", "execute", "stamp", "done"}

\* A directory over which the target has a file: diffOneWay() passes it by.
Clash == \E p \in Paths : Source(Visible(local), remote)[p].kind = "dir" /\ Target(local, remote)[p].kind = "file"

\* "make `to` match `from`": a run that exits with 0, whatever the one before it
\* left or missed, and that could list its target, has made the target hold every file
\* and directory that the source had when it was listed and still has, and with
\* --delete nothing else.  Dotfiles of the local side are as if they were not there:
\* an upload leaves them, and a download deletes none.
MirrorComplete ==
    pc = "done" /\ mirrored /\ ~Clash =>
       \A p \in Paths :
          LET s == Source(Visible(local), remote)[p]  t == Target(local, remote)[p]
          IN  /\ s.kind # "absent" => t.kind = s.kind /\ t.data = s.data
              /\ s.kind = "absent" /\ deleteOrphans => t.kind = "absent" \/ (down /\ p \in hidden)

\* "so repeat runs are no-ops": the run after one that mirrored finds no change, but
\* for dotfiles, which a download fetches every time.
RepeatIsNoOp ==
    pc = "remote" /\ pc' = "execute" /\ mirrored /\ errors' = errors =>
       \A a \in plan' : a.type = "skip" \/ (down /\ a.path \in hidden)

=============================================================================
