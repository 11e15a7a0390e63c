# TermSync: a TLA+ model of its transfers, connections, screens and windows

TermSync is a Qt client for SSH, SFTP, FTP, telnet, serial and tn3270 with a command line
beside it. This directory holds TLA+ modules for the parts of it in which threads, event
queues, connections that drop and work that is retried meet; TLC configurations that check
them on small instances; and TLAPS proofs of what matters most for instances of any size.
Every definition is translated from the code under `src/src`; `PROJECT.json` says which
lines each stands for.

## 1. The system

### Parts that are modelled

**Transfer session** (`transfer/queue/SftpSession.cpp`). A facade that the GUI thread calls
and a worker object on a thread of its own. State: the worker's posted events, `m_queue`,
`m_cancelled`, `m_activeId`, the cancel and pause flags, the sudo mode. Operations:
connect, the remote operations, `enqueue`, cancel, pause, resume, destruction. Each facade
call is a queued invocation; `pump()` keeps the thread for a whole transfer and posts
itself again. Hard: what is delivered behind what, flags that outlive a transfer, the
destructor that waits. Correct when: no transfer is lost, doubled or served out of turn; a
cancel hits what was asked and nothing else; every request has its answer; destruction ends.

**Double-buffered copy** (`BufferPipe`, `downloadPump`, `uploadPump` in
`transfer/sftp/SftpFileEngine.cpp`). Two threads around a bounded pipe with two condition
variables; either may meet an error, the end of file, a cancel or a pause. Correct when:
the destination is a prefix of the source in order, `true` means all of it, `*diskProgress`
is exact, and neither thread waits for ever.

**File transfers** (`downloadFile`, `uploadFile`, `downloadRange`, `uploadRange` and their
sequential and parallel paths, same file). Attempts with backoff and reconnection, resume
from a size, lanes over connections of their own with a shared stop flag and first error.
Hard: a size that is not what this transfer wrote, blocks in flight when a connection goes,
one lane failing while others do anything at all.

**Folder bundles** (`transfer/archive/TarArchive.cpp`, `runCommandToFile`, `runCommandFromFile`).
A folder as one tar stream, written here and read by the server's `tar` or the reverse. No
index: a member is where the sizes of those before it say. Hard: files that change while they
are archived, a name that is an entry of its own, a channel that breaks anywhere. Correct when
a bundle reported done has brought every file whole and under its name.

**Rate limiter** (`RateLimiter`, same file). A token bucket under a mutex which lanes poll.

**SSH terminal** (`core/ssh/SshConnection.cpp`, `ui/terminal_view/TerminalWidget.cpp`). A
worker thread that owns the channel, a widget that reconnects with backoff, queued calls
and signals between them. Hard: a drop, a clean exit, a disconnect by the user, a retry
timer and a closing tab in any order; a congested channel.

**Port forwarding** (`core/ssh/PortForwarder.cpp`, `Socks5.cpp`). One thread that holds a pipe
per client between a socket and a channel, with the SOCKS handshake in front. Either side
takes part of what is written, ends, or fails; a write that finds the channel's window full is
repeated until there is room, and holds the thread of all pipes meanwhile. Correct when each
unit passes once and in order, nothing of the handshake among it, and the pipe of a client that
left goes.

**TFTP server** (`core/tftp`). A datagram protocol with timeouts, retries and 16-bit block
numbers. **Telnet** (`core/telnet`). A byte decoder with option negotiation.

**Terminal emulation** (`terminal/vt/VtParser.cpp`, `terminal/screen/ScreenBuffer.cpp`). A
state machine over bytes that come in chunks cut anywhere, which calls a screen with a
cursor, margins, an alternate screen, a scrollback and double-width glyphs. Hard: what one
sequence leaves behind for the next; an operation after a resize, or across half a glyph.
**3270 screens** (`core/tn3270`). Telnet records that negotiation interrupts, and a screen of
fields which the host defines anywhere and the user types into.

**Main window** (`ui/mainwindow/MainWindow.cpp`). Lists that mirror stores, tabs, host keys;
a handler that asks the user runs a nested event loop, in which sessions report.
**Transfer list** (`ui/transfer_view/TransferQueueWidget.cpp`). Rows found through a table
from session and transfer to row, while rows are removed and sessions come and go.
**File browsers** (`ExplorerSftpBrowser.cpp`, `DualPaneBrowser.cpp`, `core/browse`).
Navigation and history over listings that come later; copies of a selection that count down
to a callback; two panes that mirror each other.

**Synchronization** (`transfer/sync`, `cli/main.cpp`). Two listings, a diff, a list of
actions carried out one by one; repeat runs. The two-pane window has one of its own
(`SynchronizeDialog.cpp`, `DualPaneBrowser.cpp`): the plan of a dialog, of which the copies are
queued with the session. Hard: what is edited between listing and copy, clocks that differ.
**Scheduled jobs** (`transfer/schedule`, `cli/main.cpp`). A JSON file that a daemon and
commands load, change and save as a whole, without a lock.

They interact as follows: a session calls the file engine's `downloadFile` and
`uploadFile`, which run the pumps under a rate limiter; the flags of the session are the
`cancel` and `pause` of the engine; `sync` and jobs call the same engine from the command
line. The browsers ask a session and hear of its requests and transfers by signals, as the
transfer list does. A terminal's output goes through the parser to the screen. The main
window owns tabs and stores.

### Parts that are not modelled

- Directory operations, remote commands, text mode and SCP of the SFTP engine, and the FTP
  engine: one library call after another, with no state that outlives the call. The session
  has them as requests that succeed or fail.
- `XYModem`, proxies and X11: bytes of one buffer or one handshake, in one pass of one thread.
- The 5250 stream, which has the shape of the 3270 one; serial and local shells, a relay.
- SQL, encryption and JSON of the stores (what they accept or refuse is in `MainWindow` and
  `DualPane`); session log, scripts, drag-out (OLE), text services, dialogs and painting.

`PROJECT.json` lists each with the reason.

## 2. Modules

| module | models | notes |
|---|---|---|
| `SftpSession` | the session | `events` is the worker thread's queue, `pass` the dispatcher's current pass; slots are actions that take the head event, `MoveChunk` stands for the engine |
| `TransferJobs` | what a session promises | the abstract specification of `SftpSession` (`JobsSpec`) |
| `SftpSessionProofs` | | theorems about `SftpSession` |
| `BufferPipe` | the pipe | each method a critical section; a blocked thread is in `waiting` until notified |
| `DownloadPump`, `UploadPump` | the pumps | compose the pipe with the steps of the two threads |
| `OrderedCopy` | what a pump promises | the abstract specification of both (`CopySpec`) |
| `RateLimiter` | `consume()` | time in ticks of one byte |
| `DownloadFile`, `UploadFile` | sequential transfers | attempts, backoff, reconnection; `sent` and `committed` differ on upload |
| `ParallelDownload`, `ParallelUpload` | parallel transfers | lanes are processes; `dest` shows holes |
| `FolderBundle` | `createTarFile`, `extractTarFile`, the commands that carry a bundle | the stream is a sequence of units of half a block; the server's `tar` writes or reads the other end |
| `TerminalSession` | SSH tab | `calls` and `signals` are the two event queues |
| `TftpTransfer` | one TFTP transfer | with an RFC 1350 client and a network that loses, doubles and swaps |
| `TelnetConnection` | telnet terminal | with a server by RFC 854; bytes of a text and of a window size |
| `DirectoryDiffer` | `changed`, `diffOneWay`, `diffTwoWay` | pure operators |
| `OneWaySync` | `runSync` | trees of a file and a directory with a file; the source may be edited |
| `SynchronizeDialog` | the synchronization of the two-pane window | for one file, as files do not interact |
| `JobScheduler` | jobs file, daemon, commands | a save is truncate, then write; kills |
| `PortForwarder` | `ForwardWorker` with SOCKS5 | a pipe per client; one write at a time, which waits for its window; a deleted pipe that is used ends what is known (`thread = "undefined"`) |
| `VtParser` | the parser | bytes in, calls out; the server sends tokens whose meaning is known |
| `ScreenBuffer` | the screen | a method is an operator from screen to screen |
| `Tn3270Stream` | fields of a 3270 screen | orders of a record one at a time, and the user's keys |
| `TnRecords` | the telnet layer below it | bytes, records, negotiation in their midst |
| `MainWindow` | hosts, credentials, tabs, hex view, host keys | an open dialog is a state between the halves of its handler |
| `TransferTable` | the transfer list | sessions are addresses that may be used again |
| `FileBrowser` | the remote browser | requests wait in the session; transfers end in any order |
| `DualPane` | mirrored panes, bookmarks, the window's synchronization up to its dialog | a path is the sequence of its parts, so that "C:" and "C:/" differ |
| `SyncJobs` | | `sync`, the window's synchronization and the scheduler as one machine of `MCTransfers` |
| `MCTransferThreads`, `MCTransfers`, `MCConnections`, `MCScreens`, `MCWindows` | | one behaviour is one of several machines, chosen by `op`; the variables of the others keep one value. A machine whose properties are proved is extended, so that the run checks the very definition the theorem names; the others are instances |
| `TransferThreadProofs`, `UploadPumpProofs` | | theorems about the pumps and the limiter |
| `TransferProofs` | | theorems about sequential and parallel transfers, bundles, synchronization and jobs |
| `TerminalProofs` | | theorems about the SSH tab and the telnet terminal |
| `ConnectionProofs` | | theorems about the forwarded port and the TFTP transfer |
| `ScreenBufferProofs` | | theorems about the screen, the 3270 fields and their telnet records |
| `WindowProofs` | | theorems about the main window, the transfer list, the remote browser and the panes |

Three habits hold throughout. A message queue of Qt is a sequence, and delivery of its head
is an action of the receiving thread. A file is a sequence of blocks (or one content
number), as the properties only ask whose blocks are where. History variables, marked so,
record what was asked or shown and are read by properties only.

What the file transfers assume of each other: `DownloadFile` and `UploadFile` treat one
attempt as blocks written one by one, which is what the pumps are shown to do
(`OrderedCopy`); `SftpSession` treats a transfer as chunks that end, fail or stop.

## 3. Runs that pass

The runs of MC modules check properties of the machines they extend as these are stated, which
hold trivially while such a machine rests in its initial state; those of the machines they
instance stand under `op = ...`. A name below that is not in the MC module is in the module of
its machine.

**session_queue** (`SftpSession`; three transfers, two other calls, a connect with one
retry). `ConservedInOrder`: ids that ended, the one under way, those queued and those still
in events are 1, 2, ... in order. `PumpPending`: a worker in its loop with items queued has
a pump to come. `NoSpuriousCancel`, `HandledCancelHolds`: a flag set for one transfer never
reaches another, and a cancelled item never starts. `AnswersInOrder`: every remote
operation asked for is answered once, in the order asked. `TypeOK` is the type invariant.

**session_requests** (two transfers of any kind, any request, sudo on or off). `CloseEnds`
under fairness of the worker: the destructor's wait ends. `JobsSpec`: the refinement of
`TransferJobs`, by whose fairness every transfer of a session that is not destroyed ends.

**transfer_threads** (pipe of two, four buffers, one pause, two lanes at a limiter).
`PipeInOrder`: what the file holds, the disk thread's hand, the pipe and the calling thread's
hand are one run of the source. `WatermarkExact`: `*diskProgress` never counts what is not
written. `CopySpec`, `UploadCopied`: downloads and uploads implement `OrderedCopy`.
`AggregateCapped`: over any interval no more passes than its ticks and a second's worth.
`Ends`: no error, cancel or end of file leaves a thread waiting, and while lanes wait one of
them is let through.

**transfers**, the copying of files (three blocks and three attempts; five blocks in two lanes
of two attempts; bundles of two files, one with a long name, of up to three units).
`CorrectTransfers`: success means the source is at the destination; `RetryKeeps`: what the
attempts before a retry wrote stays; `LaneOnDisk`, `SkippedIsCommitted`: the watermarks a retry
goes by are true; `CallsReturn`: whatever drops, fails or is stopped, the call returns. For
lanes `CorrectTransfers` speaks of a file that is asked for once: a resume after a failed
parallel transfer takes holes for data. For uploads in lanes it speaks of transfers without a
retry (`lost_tail` shows the other case). For bundles it says that a whole archive is not
refused; that a bundle which is done has brought each file as it was and under its name; and
that it is the whole folder, or where the channel broke some files of a download, none of them
in part. It leaves out headers that tell another size than their data have (section 4), and
files with long names of a server whose `tar` tells them in pax records.

**transfers**, synchronization and jobs (two runs, two edits, one failing action, any of three
sets of dotfiles; for the window three edits, two uses of the button, one copy that breaks; two
jobs, three commands, one kill, four ticks). `MirrorComplete`: exit code 0 means that the target
holds every entry that the source had when listed and still has, and with `--delete` nothing
else, also when the run before it failed half-way or missed an edit. `RepeatIsNoOp`: then the
next run copies nothing, where times can be set (on Windows `setLocalMtime` does nothing, and FTP
sets none: repeat runs copy again there). The local lister leaves dotfiles out
(`SyncEngine.cpp:20`) and the remote ones do not (`FileEngine.h:131`), and the model has it so:
an upload neither copies dotfiles nor sees that it has, `--delete` removes those of the server,
and a download fetches them on every run; the two properties say what is left when local
dotfiles count as absent. `ScheduleKept`: no job runs before its interval is over, through all
loads and saves.

`KeepsChanges` is about the window: its plan is made without a remembered state (an empty
`SyncState`) and with `NewerWins`, its copies run when the session comes to them, with whatever
the source is by then, and set no times, so that each copy is the newer side of the next
comparison. A synchronization removes no file; a mirror replaces one that is still as listed only
by one listed as not older; and the content of the last edit stays on one side through mirrors
that follow or overlap one another, in the absence of edits under way, copies that break off and
one-way synchronizations, which overrule. The remembered state that `diffTwoWay` can take and its
other policies are in the operator `DiffTwoWay`; only tests give it any, or call `saveSyncState`.

Not part of `MirrorComplete`: a directory over which the target has a file (`Clash`, which
the diff passes by) and an upload whose target could not be listed (taken for empty).
`ScheduleKept` starts anew after a kill of the daemon before its save, and after a command
overlapped its run, since either may lose the mark of a run; that jobs themselves can be lost then
is known and listed as a hazard.

**connections** (two keys, two outputs, two failed connections; a file of five blocks with
numbers modulo four, two faults; the options NAWS and TTYPE, and text and sizes with bytes that
are commands or 0xFF; one client with two units each way and a window of one, which may greet,
ask and speak in pieces).
`TerminalText`: what the channel took, the worker's buffer and the calls under way are a run
of what was typed, up to its end, and a shell's output is on the screen when its end is
known. `WantedRetry`: a new connection only after a drop nobody asked for.
`CorrectTransfer`: what a TFTP transfer has copied is the beginning of the file, and all of it
when either side takes it for done. `TextIntact`: telnet text comes through whole, that of the
user until a size with a byte 255 has been sent: `sendNaws` does not double it, and what follows
is hidden or cut (`bare`). `RelayInOrder`: a target hears its client's data and the client its
replies and then the target's data, each in order, until a deleted pipe is used: a refused
greeting, a request that is not supported and a failed write delete the pipe, and `pump()` goes
on to read its channel (lines 199, 211, 231, 242). The model allows for both outcomes, memory
that still says that there is no channel and a thread that is not known any more. `Progress`: a
dropped session is tried again, a TFTP transfer ends, telnet options settle although the client
answers unconditionally, unless such a size hides its answers, and the pipe of a client that
leaves, or whose target ends, does not stay, provided that no target stops reading while a write
waits for it (`TargetsRead`): such a target holds the one thread, with all pipes, for as long as
it likes.

**screens** (windows of 3 by 1 and 1 by 3 cells with one line of scrollback; pairs of some
hundred tokens; a 3270 screen of 2 by 2 with two fields and records of three orders; telnet
records of two bytes). `TokensAsMeant`: each token - text in one to three bytes, cut short
or not, escapes, titles, sequences with absent, zero and given parameters, renditions - has
the effect it means after any other and leaves the parser ready, the saved pen and titles with
empty or odd codes included. `ScreenShape`: grid,
scrollback and saved screen fit the window, cursor and margins are inside it.
`WritesKeepPairs`: writing never leaves more halves of double-width glyphs without their
partners than there were (erasing, inserting and deleting cells do; it counts them, and does not
say which). `ScrollSound`: what scrolls stays in the margins, and what leaves a whole
primary screen can be read back. `HostScreenSound`: the record that is gathered is the
host's, whatever was negotiated in its midst; fields divide the screen, and what the user
typed is in a field that the next Enter sends.

**windows** (one host and key, three tabs; two sessions, five transfers, three rows; one
directory, as paths make no difference to what copies wait for, two copies, three files, two
waiting requests; panes three folders deep, a drive with its root, five acts of the user).
`HostsShown`: profiles, cards and icons show the store, and no password is kept for a host that
is gone. `HexShown`: there is a current tab, the home tab stays, and the hex view's check is that
of the current tab, through tabs that are closed, moved, cloned and reconnected. `RowsTrue`: the
row that a transfer's signals update is its own, through removed rows and sessions that come back
at an address; it does not tell queued from transferring. `HandedOverWhole`: a copy's callback
comes when all of its downloads, those of folders walked file by file included, have ended;
`CopyHandedOver`: it does come, whatever fails or is cancelled. Both leave out a copy that
another one overtook: the second replaces the callback of the first, which is never called, and
listings still under way for the first count for the second. `NoEcho`: an answer that moves a
pane asks for no listing in turn, so that the panes come to rest; with one exception.
`mirrorPath` turns the root "C:/" into "C:", which `QDir` takes for the current directory of the
drive (`Working`). Where the panes mirror a drive from its root, the local pane goes there when
the remote one is back at its root, and asks for a listing of the directory that mirrors it,
which is another than the remote root.

## 4. Runs that show a disagreement

| run | says | does |
|---|---|---|
| `session_pause` | a pause parks the active transfer (`SftpSession.h:86`) | it is a slot of the thread that the transfer keeps, and comes after it; cancel of the active transfer likewise |
| `reconnect_stops` | a retry is pending or in flight (`TerminalWidget.h:226`) | a retry that finds no server is the last |
| `stale_retry` | a relentless transfer resumes from what it wrote (`SftpFileEngine.cpp:907`) | it takes the size of an older file there for it, when it drops before truncating |
| `bundle_cut` | a read that gives nothing is the end of the stream (`SftpFileEngine.cpp:1573`) | so is one that fails: a folder download whose connection drops between two members is reported done without the rest, and a sudo download of a file without its end |
| `lost_tail` | an un-committed tail is sent again (`SftpFileEngine.cpp:1235`) | not that of a lane which had sent its last block |

Seen while modelling, without a run of their own: the temporary file of a sudo upload stays
when its first stage fails; `ESC [ > c` leaves its `c` on the screen (a `>` is not a
parameter byte of the parser); a resize that loses lines drops those at the bottom, also the
cursor's; a double click on a host opens it more than once; switching "save password" off
leaves the stored one; a client of a SOCKS port that speaks before its reply loses what came
in the same piece as its request; a file that grows while `createTarFile` reads its last buffer,
or one of 8 GiB and more (whose size in octal loses a digit), has a header that does not fit, and
its archive cannot be read past it; pax records are passed over, and long names in them; what
section 3 says of dotfiles, sizes with a byte 255, deleted pipes, targets that do not read and
drive roots; a byte 0x9C in a title ends it, also within a UTF-8 character.

## 5. Bounds and fairness

Each bound is a CONSTANT named in its module. Three transfers are the fewest with one ended, one
under way and one waiting; two calls let a cancel meet a resume or another cancel. A pipe of two
buffers and four to copy fills, empties and wraps; lanes need two to disagree. Three attempts
show a retry of a retry. Two files in a bundle, one with a long name, are the fewest where a name
could stick to the next file; a block has two units, so three let a file end within one and after
one. Five TFTP blocks at width four wrap the block number, and two faults are a loss and its
echo; datagrams that outlive a whole cycle of block numbers are excluded by `Width > Faults + 1`,
as 65536 is by far. Two connections that fail let a retry be followed by another. Two runs and
two edits let a run repair what the one before left, and be overtaken. The three contents of a
file have two sizes, so an edit may keep the size. Two writes of a file are further apart than
the tolerance: closer ones of one size are missed by design. Windows of 3 by 1 and 1 by 3 cells
have the shortest line that holds a wide glyph with a cell beside it and the fewest lines in
which margins leave something outside; a resize goes from each to the other. Two fields are the
fewest between which data can fall, and three orders the fewest that define, address and write.
One client suffices for the forwarder, whose pipes share nothing. Three tabs let one be closed
before and one after the current; an address used by two sessions is all that `TransferTable` has
to tell apart; two copies let one overtake the other. A telnet text of one byte, of each kind
that the decoders tell apart, falls between any two negotiations; the client's bytes are read one
by one, so that longer texts meet no other state. A window of one piece is full after each write.
`Working` is a folder of the mirrored drive below its root, so that the two differ; it is a
constant, and the theorem is for any. The three sets of dotfiles are none, a file, and a
directory with what is in it. A pen that is saved with the cursor differs from the default in its
foreground only; the one that it replaces when it comes back is any.

`SftpSession` assumes weak fairness of the worker thread only: its event loop runs while there
are events; the user may stop at any time. The pumps and the lanes assume it of each thread, the
limiter of the clock and of each lane's sleep. The terminal assumes it of the worker and of the
GUI's event loop, TFTP of the timer, telnet of the reader at each end, and the browser of the
session, which answers requests and ends transfers (`TransferJobs`). The forwarder assumes that
its timer and the signals of its sockets come to each pipe again and again once no write holds the
thread (strong fairness, as writes disable them now and then), and that a write which has room
goes on. Bundles, synchronization, jobs, the main window, the list of
transfers, the panes and the screens have safety properties only and assume none. No run assumes that a
network recovers or that a user acts.

## 6. What is proved

`SftpSessionProofs` holds, for every number of transfers and calls, any kinds and requests,
any chunks and retries (assumption `ConstantsAssumption`: naturals and subsets of the kinds
and requests of the code):

- `TypeCorrect`: `Spec => []TypeOK`. `TypeOK` is not inductive: a connect under way needs
  its event at the head of the queue. `TypeInv` adds that (`ConnectAtHead`).
- `ServedInOrder`: `Spec => []ConservedInOrder`, inductive together with `TypeInv`
  (`OrderInv`). The lemmas `PostedFrame`, `PostedIssue` and `PostedTaken` say what happens
  to the undelivered enqueue events when the queue is appended to or its head taken, which
  is all that any action does to it.
- `CancelsAreAsked` and `CancelledNeverRuns`: `Spec => []NoSpuriousCancel` and
  `Spec => []HandledCancelHolds`. Neither is inductive: a flag or an id in `m_cancelled`
  comes from an event, so `CancelInv` adds `CancelKnown`, by which each cancel event, each
  member of `m_cancelled` and all that a coming `cancelAll` will find were named by the
  user, and no transfer runs with the flag raised.
- `PumpAlwaysPending`: `Spec => []PumpPending`. What is shown inductive is that a worker in
  its loop or in a connect has a pump in its queue while items wait; `PumpFrame` says that
  only delivering the last pump takes it away, and the slot that delivers it either posts
  the next one, finds the queue empty, or is inside a transfer that will.
- `ImplementsJobs`: `Spec => Jobs!Init /\ [][Jobs!Next]_(Jobs!jobVars)`, the safety part of
  the refinement that `session_requests` checks: every step of the session is a step that
  `TransferJobs` allows, or a stutter. `issued` is `m_nextId - 1`, `open` is `gui = "open"`;
  `ServedInOrder` is what makes the head of `m_queue` the turn of the abstract queue.

- `RequestsAnswered`: `Spec => []AnswersInOrder`. Requests and answers are matched by number:
  the undelivered events carry the numbers after the last one served, each once and in order
  (`AskedInOrder`), so that the answers given, the request in hand and the events to come are
  all that was asked. What an event's number is among those before it is counted with a
  bijection, as the prover has no induction.

The other proof modules state their hypotheses about constants in the theorems themselves
(`...Bounds`: naturals, not zero where the code cannot have zero); TLC evaluates them as part
of `BoundsAssumption` of the MC modules.

- `TransferThreadProofs` and `UploadPumpProofs`, for files, lengths, pipes and pauses of any
  size: `DownloadInOrder`, `UploadInOrder` (`Spec => [](TypeOK /\ PipeInOrder)`),
  `WatermarkHolds`, and `DownloadCopies`, `UploadCopies` (`Spec => CopySpec`, the whole of
  `OrderedCopy`, which has no fairness). The inductive invariant says where each thread stands:
  what it holds there (`HandFits`), that neither is ahead of the other (`NeverAhead`), what an
  ended thread knows of the pipe (`EndsKnown`), and what a loop that ended well has moved
  (`AllFetched`, `AllTaken`, `AllSent`): the return value is true only when these meet. `Capped`,
  for any lanes, rate and chunks: what has passed beyond the rate and what the next look will
  find in the bucket are together at most one second's worth (`Saved`); `excess` alone is not
  inductive.
- `TransferProofs`, for any file, number of lanes, attempts and resumes: `WatermarksHold` (what a
  lane counts as done is on the disk) and `NoHoles` (a parallel download that succeeds at the
  first call is the file). The ranges of the lanes are shown to be apart and to cover the file;
  the invariant adds that the file has its whole length while lanes run, what a lane that ended
  leaves, and that a raised stop flag has an error behind it. `RetriesKeep` says the same of a
  retry of a sequential download: the invariant (`DownloadInv`) adds that an attempt writes only
  behind what the file had when it began. `SkipsHold` is about a lane of a parallel upload: what
  is on the server lies between `committed` and `sent`, and these are at most a window apart
  (`LaneSent`), so that backing off by the window (`Margin`) skips no hole. `TransfersCorrect` is
  the whole of `CorrectTransfers`: the four ways to copy a file, from the invariants above and
  those of the uploads, and bundles of any files. It assumes, as the run does, that what a retry
  finds at its destination is of the file it copies (`~StaleRetries`; `stale_retry` shows the
  other case), and that every file has a name (`NamesAssumption`). For a bundle the invariant
  knows where in the stream an entry begins: whatever the reader stands at is such a place or
  inside one entry, so that its header, its name and its data are of one file.
- `TransferProofs`, of what copies many, for any tolerance, times, runs, edits and failures:
  `MirrorsHold` and `RepeatsRest` (the latter where copies keep their times, `KeepsTimes`). That
  the target equals the source is known only at the end of a run that nothing went wrong in, so
  the invariant (`OneWayInv`) follows each path: it is as in the source, or a step of the plan is
  still to come for it (`RunKnown`). A later run repairs what an earlier one left only because
  the comparison is not deceived: a target file that looks like its source has its content
  (`SizesTell`), as writes of the source are further apart than the tolerance (`SourceTimes`) and
  a copy is stamped with the time of what it is a copy of, or of something older (`StampKnown`).
  Dotfiles are as absent on the local side throughout (`Visible`). `ChangesKept` (the window's):
  the content of the last edit is on the newer side, or on both (`Latest`), and what was listed,
  is in the dialog or in a queued item is still what the sides hold, unless a copy has made their
  contents the same since (`NewestKnown`); so a copy goes from the newer side to the other, or
  changes no content. `ScheduleHolds`, for any jobs, commands and kills: every list, in the file
  or in a process, has each id once and marks that are true or forgotten (`MarksIn`), except
  those the daemon has run and not yet saved.
- `TerminalProofs`. The SSH tab, for any keys, output and failures: `TextKept` and
  `RetriesWanted`. Both follow from `TerminalInv`: in either event queue keys and pieces of
  output carry consecutive numbers (`KeysKept`, `OutputKept`), nothing follows a queued
  `disconnected` (`WorkerOrder`), the timer runs only over a worker that is down
  (`TimerMeansDown`) and each end of a worker was counted as a failure (`EndsCounted`). The
  telnet terminal, for any texts, options and sizes: `TextComesThrough`; of what the user types
  until a size with a byte 255 was sent (`bare`). Behind each byte under way is its place in a
  unit - a byte of text, a command, a subnegotiation - and behind each unit the number of text
  bytes up to it (`Coded`). Either decoder stands at the place of the byte it took last: the
  client's state says which (`Decoder`), the server holds the part of the unit up to it
  (`Prefix`). Units are only ever appended whole (`UnitMore`) and bytes only taken from the front
  (`CodedTail`).
- `ConnectionProofs`. The forwarded port, for any clients and pieces: `RelaysInOrder`. What a
  target has, with what the forwarder has not written yet, is what its client said behind the
  handshake until a deleted pipe is used, and what the client got, with what waits for it on
  either side, is the replies and the data (`PipeInv`); a greeting or a request in pieces is in
  one of five states of the buffer (`Partly`). The TFTP transfer, for any number of blocks:
  `TransfersCopy`. Behind each block number under way is the block that it is of; none is of a
  later block than the last one sent, and no two are further out of order, or behind the
  receiver, than the network has faults (`Trail`, `Exchange`). So a number that fits is of the
  block that is due exactly while the numbers do not come round within the faults, which is what
  `BoundsAssumption` has (`Width > Faults + 1`; the code's numbers have 16 bits).
- `ScreenBufferProofs`, for any set of sizes and any scrollback: `ShapeKept` (grid, saved grid
  and scrollback fit the window, the cursor and the margins are inside it) and `MarginsHold`
  (what scrolls leaves the lines outside the margins alone). There is a lemma for each operation
  of the screen, which takes a sound screen to a sound one. `HistoryHolds` is the whole of
  `ScrollSound`: what a scroll takes off the top is at the end of the scrollback, which drops its
  oldest lines only. `PairsKept` (`WritesKeepPairs`): for each step of a write - clearing the
  halves around the cursor, wrapping, scrolling, writing one cell or two - the orphaned halves
  after it are mapped into those before it, one to one, so that their number does not grow.
- `ScreenBufferProofs`, for 3270 records and screens of any size: `HostScreenHolds`. `RecordInv`
  relates what the parser has collected, and what it makes of a doubled or a single 0xFF, to the
  rest of the item that the server is sending. `FieldInv` says that the fields divide the screen,
  each cell in one, and that a cell whose content the host does not know is in an unprotected
  field marked modified; `rebuildFieldEnds` is shown to order the fields by their starts, from
  which their ends follow.
- `WindowProofs`, for any hosts, keys and number of tabs: `ListsTrue` (the lists show the store
  and no secret outlives its host) and `TabsTrue` (current tab, home tab, hex check). For the
  former the invariant knows what an open dialog is about; for the latter, that exactly one tab
  is the home tab (`OneHome`), wherever tabs are moved. For any sessions, transfers and rows of
  the transfer list: `RowsStayTrue`. Numbers given are below the next one (`IdsGiven`), each
  entry of `m_rows` is of a transfer under way (`RowsOwned`), whose row shows it (`LiveShown`)
  through the compaction of finished rows. For the remote browser: `CopiesWhole`; `batch` and
  `pendingDirs` are what the session still owes the copy, however its answers come. For the
  panes, with any names of remote directories at any depth: `PanesRest` (`NoEcho`). A remote path
  has an empty part only at its root (`RemotePlaced`), which every way of asking for a listing
  keeps; so what `mirrorPath` adds to a local folder is clean already, and taking it back gives
  the remote path that was listed (`ThereAndBack`). Only a local root that `mirrorPath` trims,
  and then only the remote root itself, leads elsewhere (`AtDrive`), for any `Working`.
  `NamesAssumption`: a directory has a name.

TLC checked each strengthened invariant on a small instance before its proof. Only
model-checked: all liveness (`CloseEnds`, the fairness of `JobsSpec`, `Ends`, `CallsReturn`,
`Progress`, `CopyHandedOver`), which with fairness is beyond the prover; the parser
(`TokensAsMeant`), where the bytes of a token and the numbers in it are recursive functions of
data.

## 7. Plan

Built, in this order: session, pumps and limiter, file transfers, connections,
synchronization and jobs; then the screens, the windows and the browsers, port forwarding,
the proofs of section 6, and bundles. What is left, most important first:

1. A proof of `TokensAsMeant` for tokens of any numbers.
2. The framings of `XYModem`: reader against writer over bounded inputs.
3. The handshakes of the proxies; SCP and text mode, whose loops over one stream could go wrong
   only in how they count; the 5250 stream.
4. The migrations of the stores, row by row.

## 8. Left out of what is modelled

Of the session: the keepalive tick, which changes no state of it, and the mutex that only the
worker takes. Of the transfers: commits by a server process whose connection is gone, rates below
one read or write (the bucket then never holds enough), the words by which an error is taken for
a drop, except that a refused connection is not. Of bundles: compression and its choice,
directories and links inside, modes and times, checksums, checks of member paths. Of the
terminal: X11, window size, and a handshake that never returns; the host-key question is modal
and so one step. Of TFTP: an error that the client sends, and requests that it repeats. Of
telnet: sizes above 255 columns or rows, whose high bytes are like the low ones. Of
synchronization: listing is one step per side; what happens between two directories of one
listing is as if it came before or after; in the window, directories and orphans, and that the
panes stay where they are between listing and copy (a pane that moves sends the copies elsewhere;
a hazard). Of port forwarding: the authentication, and what happens after a pipe is used that was
freed (the behaviour ends there). Of the terminal emulation: colours and attributes beyond one
pen, the repertoire of modes, text that is wider than two cells, titles with a byte 0x9C. Of the
3270 screen: colours, the keys that only move, and character sets. Of the main window: menus,
docks, appearance, tools, the export of settings, which changes nothing of the window, a password
asked for in quick connect, and a store that fails to open. Telnet, 3270, 5250, serial and local
shells are one kind of tab, without password and host key. Of the browsers: sorting, filters,
icons, and the temporary folders of drags.
