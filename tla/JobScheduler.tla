---------------------------- MODULE JobScheduler ----------------------------
(***************************************************************************)
(* `schedule` of the command line: a daemon that loads the jobs file, runs  *)
(* the due jobs, marks them and saves the whole list, then sleeps; and the  *)
(* commands that add and remove jobs, each of which loads, changes and      *)
(* saves the whole list.  A save truncates the file and then writes it; the *)
(* processes take no lock, and any of them may be killed.                   *)
(***************************************************************************)
EXTENDS Naturals, Sequences, SequencesExt

CONSTANTS
    Ids,        \* job ids
    Intervals,  \* values of intervalSecs; 0 is a one-shot
    MaxTime,    \* bound: the clock
    Commands,   \* bound: adds and removes
    Crashes     \* bound: kills

VARIABLES
    file,       \* the jobs file, a list of jobs
    daemon,     \* "sleep", "run", "truncated"
    jobs,       \* the daemon's m_jobs
    due,        \* due jobs still to be run, as positions in jobs
    command,    \* "none", "loaded", "truncated"
    list,       \* the command's m_jobs
    now, commands, crashes,
    lastRan     \* history: when a job last ran, 0 if its mark may be lost

bounds == <<commands, crashes>>
vars == <<file, daemon, jobs, due, command, list, now, bounds, lastRan>>

Job(id, interval) == [id |-> id, interval |-> interval, lastRun |-> 0, enabled |-> TRUE]

Init ==
    /\ file = << >> /\ daemon = "sleep" /\ jobs = << >> /\ due = {}
    /\ command = "none" /\ list = << >> /\ now = 1 /\ commands = 0 /\ crashes = 0
    /\ lastRan = [id \in Ids |-> 0]

IsDue(j) == j.enabled /\ (j.lastRun = 0 \/ (j.interval > 0 /\ j.lastRun + j.interval <= now))

\* The daemon and a command both hold a list: one's save undoes the other's.
Overlap == daemon # "sleep" /\ command # "none"
Forgotten == [id \in Ids |-> 0]

Load ==
    /\ daemon = "sleep"
    /\ jobs' = file
    /\ due' = {i \in DOMAIN file : IsDue(file[i])}
    /\ due' # {}
    /\ daemon' = "run"
    /\ UNCHANGED <<file, command, list, now, bounds, lastRan>>

\* markRan(); a one-shot is disabled.
Marked_DisabledOnly(j, at) == [j EXCEPT !.enabled = j.interval > 0]
Marked(j, at) == [j EXCEPT !.lastRun = at, !.enabled = IF j.interval > 0 THEN @ ELSE FALSE]

\* executeJob() of the next of them, whatever it returns.  No two jobs have one
\* id, so that markRan() finds the job in its place.
RunJob ==
    /\ daemon = "run"
    /\ \E i \in due :
          /\ \A k \in due : i <= k
          /\ due' = due \ {i}
          /\ jobs' = [jobs EXCEPT ![i] = Marked(@, now)]
          /\ lastRan' = IF Overlap THEN Forgotten ELSE [lastRan EXCEPT ![jobs[i].id] = now]
    /\ UNCHANGED <<file, daemon, command, list, now, bounds>>

Truncate ==
    /\ daemon = "run" /\ due = {}
    /\ file' = << >> /\ daemon' = "truncated"
    /\ UNCHANGED <<jobs, due, command, list, now, bounds, lastRan>>

Write ==
    /\ daemon = "truncated"
    /\ file' = jobs /\ daemon' = "sleep"
    /\ lastRan' = IF Overlap THEN Forgotten ELSE lastRan
    /\ UNCHANGED <<jobs, due, command, list, now, bounds>>

Daemon == Load \/ RunJob \/ Truncate \/ Write

-----------------------------------------------------------------------------

Has(s, id) == \E i \in DOMAIN s : s[i].id = id

\* JobScheduler::remove() drops the first job of an id, if there is one.
Without(s, id) ==
    {RemoveAt(s, i) : i \in {k \in DOMAIN s : s[k].id = id /\ \A h \in 1 .. k - 1 : s[h].id # id}}

\* JobScheduler::add() replaces a job of the same id in its place.
Added(s, job) ==
    IF Has(s, job.id) THEN [i \in DOMAIN s |-> IF s[i].id = job.id THEN job ELSE s[i]]
                      ELSE Append(s, job)

Starts == command = "none" /\ commands < Commands /\ commands' = commands + 1

AddJob ==
    /\ Starts
    /\ \E id \in Ids, interval \in Intervals :
          /\ list' = Added(file, Job(id, interval))
          /\ lastRan' = [lastRan EXCEPT ![id] = 0]
    /\ command' = "loaded"
    /\ UNCHANGED <<file, daemon, jobs, due, now, crashes>>

RemoveJob ==
    /\ Starts
    /\ \E id \in Ids : list' \in Without(file, id)
    /\ command' = "loaded"
    /\ UNCHANGED <<file, daemon, jobs, due, now, crashes, lastRan>>

CommandTruncates ==
    /\ command = "loaded"
    /\ file' = << >> /\ command' = "truncated"
    /\ UNCHANGED <<daemon, jobs, due, list, now, bounds, lastRan>>

CommandWrites ==
    /\ command = "truncated"
    /\ file' = list /\ command' = "none"
    /\ lastRan' = IF Overlap THEN Forgotten ELSE lastRan
    /\ UNCHANGED <<daemon, jobs, due, list, now, bounds>>

-----------------------------------------------------------------------------

Tick ==
    /\ now < MaxTime /\ now' = now + 1
    /\ UNCHANGED <<file, daemon, jobs, due, command, list, bounds, lastRan>>

\* A process is killed; the daemon is started again.  What it had run and not
\* saved is forgotten.
Crash ==
    /\ crashes < Crashes /\ crashes' = crashes + 1
    /\ \/ /\ daemon # "sleep" /\ daemon' = "sleep"
          /\ lastRan' = [id \in Ids |-> IF Has(jobs, id) THEN 0 ELSE lastRan[id]]
          /\ UNCHANGED command
       \/ command # "none" /\ command' = "none" /\ UNCHANGED <<daemon, lastRan>>
    /\ UNCHANGED <<file, jobs, due, list, now, commands>>

Next == Daemon \/ AddJob \/ RemoveJob \/ CommandTruncates \/ CommandWrites \/ Tick \/ Crash
Spec == Init /\ [][Next]_vars

-----------------------------------------------------------------------------

Jobs == [id : Ids, interval : Intervals, lastRun : 0 .. MaxTime, enabled : BOOLEAN]

\* The types of the variables.
TypeOK ==
    /\ file \in Seq(Jobs) /\ jobs \in Seq(Jobs) /\ list \in Seq(Jobs) /\ due \subseteq DOMAIN jobs
    /\ daemon \in {"sleep", "run", "truncated"}
    /\ command \in {"none", "loaded", "truncated"}
    /\ now \in 1 .. MaxTime /\ lastRan \in [Ids -> 0 .. MaxTime]

Interval(id) == jobs[CHOOSE i \in DOMAIN jobs : jobs[i].id = id].interval

\* Through all the loads and saves, by the daemon and by the commands, a job that
\* ran does not run again before its interval is over, and a one-shot never, unless
\* it was added anew, the daemon was killed before it saved or a command overlapped
\* the daemon's run.
ScheduleKept ==
    \A id \in Ids :
       lastRan'[id] # lastRan[id] /\ lastRan[id] # 0 /\ lastRan'[id] # 0 =>
          Interval(id) > 0 /\ lastRan'[id] >= lastRan[id] + Interval(id)
=============================================================================
