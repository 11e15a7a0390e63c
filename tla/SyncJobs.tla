------------------------------ MODULE SyncJobs ------------------------------
(***************************************************************************)
(* Synchronization and scheduled jobs together: runs of `sync`, the          *)
(* synchronization of a window, and the scheduler.  A behaviour is one of   *)
(* the three machines; the variables of the others keep one value.         *)
(***************************************************************************)
EXTENDS Naturals, Sequences

CONSTANTS
    Tolerance,                                      \* both synchronizations
    Hidden, KeepsTimes, Edits, Errors, Runs,        \* `sync`
    WindowEdits, Clicks, Breaks,                    \* the window
    Ids, Intervals, MaxTime, Commands, Crashes      \* scheduler

VARIABLES
    op,  \* the machine
    local, remote, now, edits,
    down, deleteOrphans, hidden, localList, remoteList, plan, failed, pc, result, errors, runs,
    dirty, mirrored,
    dotfile, syncPending, requests, answers, dialog, queue, clicks, breaks, newest, overruled,
    file, daemon, jobs, due, command, list, commands, crashes, lastRan

OneWay == INSTANCE OneWaySync
Dialog == INSTANCE SynchronizeDialog WITH Edits <- WindowEdits
Schedule == INSTANCE JobScheduler

oneWayVars == <<down, deleteOrphans, hidden, localList, remoteList, plan, failed, pc, result,
                errors, runs, dirty, mirrored>>
windowVars == <<dotfile, syncPending, requests, answers, dialog, queue, clicks, breaks, newest,
                overruled>>
scheduleVars == <<file, daemon, jobs, due, command, list, commands, crashes, lastRan>>
treeVars == <<local, remote, edits>>
vars == <<op, now, treeVars, oneWayVars, windowVars, scheduleVars>>

NoTrees == local = "off" /\ remote = "off" /\ edits = 0
NoOneWay ==
    /\ down = FALSE /\ deleteOrphans = FALSE /\ hidden = {} /\ localList = "off" /\ remoteList = "off"
    /\ plan = {} /\ failed = 0 /\ pc = "off" /\ result = 0 /\ errors = 0 /\ runs = 0
    /\ dirty = FALSE /\ mirrored = FALSE
NoWindow ==
    /\ dotfile = FALSE /\ syncPending = FALSE /\ requests = 0 /\ answers = << >> /\ dialog = << >>
    /\ queue = << >> /\ clicks = 0 /\ breaks = 0 /\ newest = 0 /\ overruled = FALSE
NoSchedule ==
    /\ file = << >> /\ daemon = "off" /\ jobs = << >> /\ due = {} /\ command = "off"
    /\ list = << >> /\ commands = 0 /\ crashes = 0 /\ lastRan = "off"

Init ==
    \/ op = "oneWay" /\ OneWay!Init /\ NoWindow /\ NoSchedule
    \/ op = "window" /\ Dialog!Init /\ NoOneWay /\ NoSchedule
    \/ op = "schedule" /\ Schedule!Init /\ NoTrees /\ NoOneWay /\ NoWindow

\* None of the three.
Off == NoTrees /\ now = 0 /\ NoOneWay /\ NoWindow /\ NoSchedule

OneWays(A) == op = "oneWay" /\ A /\ UNCHANGED <<op, windowVars, scheduleVars>>
Windows(A) == op = "window" /\ A /\ UNCHANGED <<op, oneWayVars, scheduleVars>>
Schedules(A) == op = "schedule" /\ A /\ UNCHANGED <<op, treeVars, oneWayVars, windowVars>>

Next == OneWays(OneWay!Next) \/ Windows(Dialog!Next) \/ Schedules(Schedule!Next)

Spec == Init /\ [][Next]_vars

-----------------------------------------------------------------------------
(* The properties of the machines, each of the one that runs. *)

TypeOK ==
    /\ op = "oneWay" => OneWay!TypeOK
    /\ op = "window" => Dialog!TypeOK
    /\ op = "schedule" => Schedule!TypeOK

\* A `sync` that exits with 0 has made its target match what it lists of its source.
MirrorComplete == TypeOK /\ (op = "oneWay" => OneWay!MirrorComplete)

\* "preserving mtime so repeat runs are no-ops": the next one finds no change
\* but in local dotfiles.
RepeatIsNoOp == [][op = "oneWay" => OneWay!RepeatIsNoOp]_vars

\* The synchronization of a window removes nothing, and a mirror loses no edit but to a
\* newer one.
KeepsChanges == [][op = "window" => Dialog!KeepsChanges]_vars

\* No job runs before its time.
ScheduleKept == [][op = "schedule" => Schedule!ScheduleKept]_vars
=============================================================================
