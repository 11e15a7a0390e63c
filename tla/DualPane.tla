------------------------------ MODULE DualPane ------------------------------
(***************************************************************************)
(* The two panes of the classic browser (class DualPaneBrowser).  With     *)
(* synchronized browsing a navigation in one pane is mirrored in the       *)
(* other, which for the remote pane means to ask for a listing and to      *)
(* arrive there when it comes.                                             *)
(*                                                                         *)
(* A path is the sequence of its parts between slashes: "/" is <<"", "">>, *)
(* "/x" is <<"", "x">>, "C:/" is <<"C:", "">>, "C:" is <<"C:">>, "./x" is  *)
(* <<".", "x">> and "//x" is <<"", "", "x">>.                              *)
(***************************************************************************)
EXTENDS Integers, Sequences, SequencesExt

CONSTANTS
    LocalDirs,    \* local directories, as absolute paths of one or more drives
    Working,      \* the current directory of the program on the drive "C:"
    Names,        \* names of remote directories
    MaxDepth,     \* bound: parts of a remote path
    MaxRequests,  \* bound: listings that wait in the session
    MaxBookmarks, \* bound: bookmarks
    MaxActs       \* bound: things the user does

VARIABLES
    local,        \* m_localPathEdit
    remote,       \* m_remotePath
    mirrored,     \* m_syncBrowsing
    localRoot, remoteRoot,  \* m_syncLocalRoot, m_syncRemoteRoot
    asked,        \* listings asked for and not answered, oldest first
    syncPending,  \* m_syncPending
    walks,        \* listings of a tree that are not answered
    bookmarks,    \* m_bookmarks
    acts          \* number of things that the user has done

panesVars == <<local, remote, mirrored, localRoot, remoteRoot, asked, syncPending, walks, bookmarks, acts>>
rootVars == <<mirrored, localRoot, remoteRoot>>
syncVars == <<syncPending, walks>>

Slash == <<"", "">>
Dot == <<".">>
Nowhere == << >>  \* the empty string

Init ==
    /\ local \in LocalDirs /\ remote = Dot /\ mirrored = FALSE
    /\ localRoot = Nowhere /\ remoteRoot = Nowhere
    /\ asked = <<Dot>> /\ syncPending = FALSE /\ walks = 0 /\ bookmarks = {} /\ acts = 0

RemoteJoin(dir, name) ==
    IF dir \in {Nowhere, Dot} THEN <<name>>
    ELSE IF dir = Slash THEN <<"", name>> ELSE Append(dir, name)

UpFrom(path) ==
    CASE path = Slash -> Slash
      [] Len(path) = 1 -> <<"..">>
      [] Len(path) = 2 /\ path[1] = "" -> Slash
      [] OTHER -> Front(path)

\* mirrorPath() chops the slash a path ends in, also that of a drive: only "/"
\* keeps it.
Trim(path) == IF Len(path) > 1 /\ path # Slash /\ Last(path) = "" THEN Front(path) ELSE path

\* mirrorPath(): otherRoot with the part of `new' below root.
MirrorPath(root, new, other) ==
    IF Trim(new) = Trim(root) THEN Trim(other)
    ELSE IF ~IsStrictPrefix(Trim(root), Trim(new)) THEN Nowhere
    ELSE Trim(other) \o SubSeq(Trim(new), Len(Trim(root)) + 1, Len(Trim(new)))

\* QDir::absolutePath(), of a directory's path as setLocalPath() gets it: a drive
\* without its slash is the current directory there, and "//x" is "/x".
CleanPath(path) ==
    CASE Len(path) = 1 -> Working
      [] Len(path) > 2 /\ path[2] = "" -> <<path[1]>> \o SubSeq(path, 3, Len(path))
      [] OTHER -> path

-----------------------------------------------------------------------------
(* The panes. *)

MayAsk == Len(asked) < MaxRequests

Asks_Always(target) == target # Nowhere
Asks(target) == target # Nowhere /\ target # remote'

\* mirrorLocalToRemote()
MirroredTo(dir) ==
    LET target == MirrorPath(localRoot', dir, remoteRoot')
    IN  IF mirrored' /\ Asks(target) THEN <<target>> ELSE << >>

\* setLocalPath(): only a directory that exists.  `more' are the listings asked
\* for by the mirror.
SetLocalPath(dir, waiting) ==
    IF CleanPath(dir) \in LocalDirs
    THEN local' = CleanPath(dir) /\ asked' = waiting \o MirroredTo(CleanPath(dir))
    ELSE UNCHANGED local /\ asked' = waiting

LocalNavigation ==
    /\ MayAsk /\ UNCHANGED remote /\ UNCHANGED rootVars
    /\ \E dir \in LocalDirs : dir[1] = local[1] /\ SetLocalPath(dir, asked)
    /\ UNCHANGED <<syncVars, bookmarks>>

RequestRemoteList(dir) == MayAsk /\ Len(dir) <= MaxDepth /\ asked' = Append(asked, dir)

RemoteNavigation ==
    /\ RequestRemoteList(UpFrom(remote))
       \/ \E name \in Names : RequestRemoteList(RemoteJoin(remote, name))
    /\ UNCHANGED <<local, remote, rootVars, syncVars, bookmarks>>

\* An operation that worked; also a transfer or sudo, and the menu's Refresh.
OnOperationFinished ==
    RequestRemoteList(remote) /\ UNCHANGED <<local, remote, rootVars, syncVars, bookmarks>>

SetSyncBrowsing(on) ==
    /\ mirrored' = on
    /\ IF on THEN localRoot' = local /\ remoteRoot' = remote
             ELSE UNCHANGED <<localRoot, remoteRoot>>
    /\ UNCHANGED <<local, remote, asked, syncVars, bookmarks>>

\* onDirectoryListed(), with mirrorRemoteToLocal().
OnDirectoryListed ==
    /\ asked # << >> /\ remote' = Head(asked) /\ UNCHANGED rootVars
    /\ LET target == MirrorPath(remoteRoot, remote', localRoot)
       IN  IF mirrored /\ target # Nowhere /\ target # local
           THEN SetLocalPath(target, Tail(asked))
           ELSE asked' = Tail(asked) /\ UNCHANGED local
    /\ UNCHANGED <<syncVars, bookmarks>>

ListingFailed ==
    /\ asked # << >> /\ asked' = Tail(asked)
    /\ UNCHANGED <<local, remote, rootVars, syncVars, bookmarks>>

-----------------------------------------------------------------------------
(* Bookmarks and synchronization. *)

AddBookmark ==
    /\ Cardinality(bookmarks) < MaxBookmarks
    /\ bookmarks' = bookmarks \union {[local |-> local, remote |-> remote]}
    /\ UNCHANGED <<local, remote, rootVars, asked, syncVars>>

NavigateToBookmark(b) ==
    /\ Len(asked) + 1 < MaxRequests /\ UNCHANGED <<remote, rootVars>>
    /\ local' = b.local
    /\ asked' = asked \o MirroredTo(b.local) \o <<b.remote>>
    /\ UNCHANGED <<syncVars, bookmarks>>

OnSyncClicked ==
    /\ walks < MaxRequests /\ walks' = walks + 1 /\ syncPending' = TRUE
    /\ UNCHANGED <<local, remote, rootVars, asked, bookmarks>>

\* An answer that comes while none is pending, or without a tree, does no more;
\* the dialog that any other one opens is the module SynchronizeDialog.
OnSyncListingReady ==
    /\ walks > 0 /\ walks' = walks - 1 /\ syncPending' = FALSE
    /\ UNCHANGED <<local, remote, rootVars, asked, bookmarks>>

UserDoes ==
    \/ LocalNavigation \/ RemoteNavigation \/ OnOperationFinished \/ (\E on \in BOOLEAN : SetSyncBrowsing(on))
    \/ AddBookmark \/ (\E b \in bookmarks : NavigateToBookmark(b)) \/ OnSyncClicked

UserActs == acts < MaxActs /\ acts' = acts + 1 /\ UserDoes
SessionAnswers ==
    /\ UNCHANGED acts
    /\ OnDirectoryListed \/ ListingFailed \/ OnSyncListingReady

Next == UserActs \/ SessionAnswers

Spec == Init /\ [][Next]_panesVars

-----------------------------------------------------------------------------
(* Properties. *)

AtDrive == Trim(localRoot) # localRoot  \* the panes mirror a drive from its root on

\* The panes do not echo each other: what answers a listing, which may move the
\* local pane, asks for none in turn, so that both come to rest when the user
\* does.  Where a whole drive is mirrored there is one exception.  Back at the
\* remote root the local pane goes to the drive's current directory, not to its
\* root, and the remote pane is sent after it, to another place than that root.
NoEcho ==
    SessionAnswers =>
        \/ IsSuffix(asked', asked)
        \/ /\ AtDrive /\ remote' = remoteRoot /\ asked' # << >>
           /\ Front(asked') = Tail(asked) /\ Last(asked') # remoteRoot
=============================================================================
