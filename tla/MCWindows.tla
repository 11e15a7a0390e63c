----------------------------- MODULE MCWindows -----------------------------
(***************************************************************************)
(* The windows around the sessions, for TLC: the main window with its      *)
(* tabs and hosts, the list of transfers, the browser of remote files, and *)
(* the panes of the classic browser.  A behaviour is one of the machines;  *)
(* the variables of the others keep one value.                             *)
(***************************************************************************)
EXTENDS MainWindow, TransferTable

CONSTANTS
    Dirs, MaxHistory, MaxCopies, MaxFiles,    \* file browser
    Names, MaxDepth, MaxBookmarks, MaxActs, Working,  \* panes
    MaxRequests                               \* both browsers

ASSUME BoundsAssumption ==
    /\ {MaxTabs, MaxRows, MaxHistory, MaxCopies, MaxDepth} \subseteq Nat \ {0}
    /\ {MaxTransfers, MaxFiles, MaxBookmarks, MaxActs} \subseteq Nat
    /\ MaxRequests \in Nat /\ MaxRequests > 1 /\ Dirs # {}

\* A directory has a name.
ASSUME NamesAssumption == "" \notin Names

\* Of a drive and of a tree of Unix: the root, a folder in it, and one in that.
LocalFolders == {<<"C:", "">>, <<"C:", "l">>, <<"C:", "l", "x">>,
                 <<"", "">>, <<"", "l">>, <<"", "l", "x">>}

\* Where the program was started.
ProgramFolder == <<"C:", "l">>

ASSUME WorkingAssumption == Working \in LocalFolders

VARIABLES
    op,  \* the machine
    path, history, histPos, requests, underWay, files, batch, bulkDirs, pendingDirs, onReady,
    question, copies, overtaken, handed,
    local, remote, mirrored, localRoot, remoteRoot, asked, syncPending, walks, bookmarks, acts

Browser == INSTANCE FileBrowser WITH live <- underWay, dialog <- question
Panes   == INSTANCE DualPane WITH LocalDirs <- LocalFolders

browserVars == <<path, history, histPos, requests, underWay, files, batch, bulkDirs, pendingDirs,
                 onReady, question, copies, overtaken, handed>>
panesVars == <<local, remote, mirrored, localRoot, remoteRoot, asked, syncPending, walks,
               bookmarks, acts>>
mcVars == <<op, windowVars, tableVars, browserVars, panesVars>>

NoBrowser ==
    /\ path = 0 /\ history = 0 /\ histPos = 0 /\ requests = 0 /\ underWay = {} /\ files = 0
    /\ batch = 0 /\ bulkDirs = 0 /\ pendingDirs = 0 /\ onReady = 0 /\ question = 0 /\ copies = 0
    /\ overtaken = {} /\ handed = {}
NoPanes ==
    /\ local = 0 /\ remote = 0 /\ mirrored = 0 /\ localRoot = 0 /\ remoteRoot = 0 /\ asked = 0
    /\ syncPending = 0 /\ walks = 0 /\ bookmarks = 0 /\ acts = 0

MCInit ==
    /\ Init /\ TableInit
    /\ \/ op \in {"main", "table"} /\ NoBrowser /\ NoPanes
       \/ op = "browser" /\ Browser!Init /\ NoPanes
       \/ op = "panes" /\ Panes!Init /\ NoBrowser

Mains(A) == op = "main" /\ A /\ UNCHANGED <<op, tableVars, browserVars, panesVars>>
Tables(A) == op = "table" /\ A /\ UNCHANGED <<op, windowVars, browserVars, panesVars>>
Browsers(A) == op = "browser" /\ A /\ UNCHANGED <<op, windowVars, tableVars, panesVars>>
InPanes(A) == op = "panes" /\ A /\ UNCHANGED <<op, windowVars, tableVars, browserVars>>

MCNext == \/ Mains(Next) \/ Tables(TableNext) \/ Browsers(Browser!Next)
          \/ InPanes(Panes!Next)

MCSpec ==
    /\ MCInit /\ [][MCNext]_mcVars
    /\ WF_mcVars(Browsers(Browser!TransferEnds)) /\ WF_mcVars(Browsers(Browser!SessionAnswers))

-----------------------------------------------------------------------------
(* The properties of the browsers; those of the main window and of the list *)
(* of transfers are stated in their modules and hold where they rest.       *)

\* A copy is handed over when all of it has been tried.
HandedOverWhole == op = "browser" => Browser!HandedOverWhole

\* Every copy is handed over.
CopyHandedOver == op = "browser" => Browser!CopyHandedOver

\* The panes do not echo each other.
NoEcho == [][op = "panes" => Panes!NoEcho]_mcVars
=============================================================================
