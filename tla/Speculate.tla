----------------------------- MODULE Speculate -----------------------------
(***************************************************************************)
(* The scheduler of model runs (crates/acyclic/src/speculate.rs), the      *)
(* cache it keeps (crates/acyclic-engine/src/spec.rs) and the child        *)
(* processes it starts (crates/acyclic/src/spec_runner.rs): a turn that    *)
(* starts has the turn before it summarised by a command, one run at a     *)
(* time, under a ceiling and an interval, that a moved tree or the end of  *)
(* its session cancels; and a daemon that dies, and the next one, which    *)
(* reaps what the dead one left running.                                   *)
(*                                                                         *)
(* A summary's key is its turn: the generations a turn spans stay          *)
(* (Timeline, TurnsOver).  Briefs, which run no command, are Timeline's.   *)
(* The scheduler, the tasks of its runs and its cache's writes all run on  *)
(* one thread: a step of this module is what it does between two awaits.   *)
(***************************************************************************)
EXTENDS Integers, FiniteSetsExt, SequencesExt

CONSTANTS
  Sessions,    \* the agents' sessions
  Nobody,      \* no session
  Ceiling,     \* `max_runs_per_session`
  QueueDepth,  \* QUEUE_DEPTH
  MaxTurns,    \* bound: the turns of a session
  MaxStarts,   \* bound: the turns of all sessions
  MaxRuns,     \* bound: the runs of the command
  MaxDeaths,   \* bound: the times the daemon is killed
  Trims        \* `max_cache_rows` is so small that gc takes the row of a run under way

ASSUME TrimsAssumption == Trims \in BOOLEAN
ASSUME NobodyAssumption == Nobody \notin Sessions
ASSUME BoundsAssumption == {Ceiling, QueueDepth, MaxTurns, MaxStarts, MaxRuns, MaxDeaths} \subseteq Nat

Keys == Sessions \X (1..MaxTurns - 1)
Runs == 1..MaxRuns

NoKey == <<Nobody, 0>>

Outcomes == {"ready", "failed", "timeout", "overflow", "cancelled"}
States == Outcomes \cup {"none", "running", "orphaned"}

VARIABLES
  up,        \* the daemon serves and speculates
  queue,     \* the events that wait for the scheduler
  turns,     \* per session: its turns so far
  cache,     \* the table: per key, the state, the row's id and the body
  looking,   \* the key and the row that the scheduler awaits a diff for
  inFlight,  \* the run it considers current: its key and row
  spent,     \* per session: the runs spent on it by this daemon
  rested,    \* the interval since the last run is over
  runs,      \* per run of the command: its task and its processes
  reports,   \* the runs that have reported and are not recorded yet
  pids,      \* the runs whose pid file is there; it is named by their row's id
  pidsDir,   \* the directory of the pid files is there
  client,    \* the turn that a caller waits for or was served, and what it got
  deaths     \* how often the daemon was killed

memory == <<looking, inFlight, spent, rested>>
files == <<pids, pidsDir>>
vars == <<up, queue, turns, cache, memory, runs, reports, files, client, deaths>>

None == [key |-> NoKey, id |-> 0]

\* `at` is where the run's task stands: not yet polled ("made"), between the spawn
\* and the pid file ("bare"), waiting for the command ("running"), in the grace of a
\* kill ("killing"), or gone ("over").  `told` when its cancel was sent or dropped,
\* `loose` when the command runs without a pid file, `missed` when a sweep took the
\* file and let the command run.
NoTask ==
  [at |-> "none", key |-> NoKey, id |-> 0, told |-> FALSE, outcome |-> "none",
   leader |-> FALSE, kin |-> FALSE, loose |-> FALSE, missed |-> FALSE]

Entry(state, id, body) == [state |-> state, id |-> id, body |-> body]

Blank == Entry("none", 0, NoKey)

NoAsk == [key |-> NoKey, body |-> NoKey]

Of(at) == {n \in Runs : runs[n].at \in at}

\* Between the spawn and the record nothing is awaited.
Free == up /\ Of({"bare"}) = {}

\* The loop comes back to its queue.
Loop == Free /\ looking = None

-----------------------------------------------------------------------------
(* The cache *)

Held(k) == cache[k].state \in {"running", "ready"}

\* The id of a new row: one above those there are, once begin has deleted the key's
\* own.
NextId(k) == Max({cache[j].id : j \in Keys \ {k}} \cup {0}) + 1

\* finish: out of `running`, and with a body if it is ready.
Finish(id, outcome, body) ==
  [k \in Keys |-> IF cache[k].id = id /\ cache[k].state = "running"
                  THEN Entry(outcome, id, IF outcome = "ready" THEN body ELSE NoKey)
                  ELSE cache[k]]

\* gc that takes whatever does not run.
CollectFresh(k) ==
  /\ up
  /\ cache[k].state \notin {"none", "running"}
  /\ cache' = [cache EXCEPT ![k] = Blank]
  /\ UNCHANGED <<up, queue, turns, memory, runs, reports, files, client, deaths>>

Outstanding(id) ==
  \/ \E n \in Runs : runs[n].id = id /\ runs[n].at \in {"made", "bare", "running", "killing"}
  \/ \E i \in DOMAIN reports : runs[reports[i]].id = id

\* gc, on a timer: an entry that does not run and is past its time to live, a day in
\* which the run that it was made for has ended and has been taken account of; or one
\* of the oldest beyond `max_cache_rows`, whatever its age (spec.rs has 500 by default,
\* more than are made while a run is under way).
Collect(k) ==
  /\ Loop
  /\ cache[k].state \notin {"none", "running"}
  /\ Trims \/ ~ Outstanding(cache[k].id)
  /\ cache' = [cache EXCEPT ![k] = Blank]
  /\ UNCHANGED <<up, queue, turns, memory, runs, reports, files, client, deaths>>

-----------------------------------------------------------------------------
(* The daemon's requests *)

Init ==
  /\ up = TRUE /\ queue = <<>>
  /\ turns = [s \in Sessions |-> 0]
  /\ cache = [k \in Keys |-> Blank]
  /\ looking = None /\ inFlight = None
  /\ spent = [s \in Sessions |-> 0] /\ rested = TRUE
  /\ runs = [n \in Runs |-> NoTask]
  /\ reports = <<>>
  /\ pids = {} /\ pidsDir = FALSE
  /\ client = NoAsk
  /\ deaths = 0

Event(kind, s, t) == [kind |-> kind, session |-> s, turn |-> t]

\* notify: an event that finds the queue full is dropped.
Notify(event) ==
  queue' = IF Len(queue) < QueueDepth THEN Append(queue, event) ELSE queue

TurnStart(s) ==
  /\ up /\ turns[s] < MaxTurns
  /\ MapThenSumSet(LAMBDA other : turns[other], Sessions) < MaxStarts
  /\ turns' = [turns EXCEPT ![s] = @ + 1]
  /\ Notify(Event("turn", s, turns[s] + 1))
  /\ UNCHANGED <<up, cache, memory, runs, reports, files, client, deaths>>

\* A rewind or a restore under way (no session), or a session's end.
Invalidate(s) ==
  /\ up
  /\ Notify(Event("invalidate", s, 0))
  /\ UNCHANGED <<up, turns, cache, memory, runs, reports, files, client, deaths>>

\* A stop awaits a place in the queue.
AskStop ==
  /\ up /\ Len(queue) < QueueDepth
  /\ \A i \in DOMAIN queue : queue[i].kind # "shutdown"
  /\ queue' = Append(queue, Event("shutdown", Nobody, 0))
  /\ UNCHANGED <<up, turns, cache, memory, runs, reports, files, client, deaths>>

Waits == client.key # NoKey /\ client.body = NoKey

\* summary and claim_summary: the body if it is ready; the caller waits while it is
\* being produced, and is told so if there is nothing.
AskSummary(k) ==
  /\ up /\ ~ Waits
  /\ \/ /\ cache[k].state = "ready"
        /\ client' = [key |-> k, body |-> cache[k].body]
     \/ /\ cache[k].state = "running"
        /\ client' = [key |-> k, body |-> NoKey]
  /\ UNCHANGED <<up, queue, turns, cache, memory, runs, reports, files, deaths>>

\* Every tenth of a second it looks again.
Join ==
  /\ Waits /\ cache[client.key].state = "ready"
  /\ client' = [client EXCEPT !.body = cache[client.key].body]
  /\ UNCHANGED <<up, queue, turns, cache, memory, runs, reports, files, deaths>>

Deadline ==
  /\ Waits
  /\ client' = NoAsk
  /\ UNCHANGED <<up, queue, turns, cache, memory, runs, reports, files, deaths>>

-----------------------------------------------------------------------------
(* The scheduler *)

\* Three limits: one run at a time, a ceiling per session, an interval.
MaySpend(s) == inFlight = None /\ spent[s] < Ceiling /\ rested

Rest ==
  /\ up /\ ~ rested /\ rested' = TRUE
  /\ UNCHANGED <<up, queue, turns, cache, looking, inFlight, spent, runs, reports, files,
                 client, deaths>>

\* A turn's start: the turn before it is over.  It is skipped if there is none, it may
\* not be bought, it is there already, or it changed nothing.
SkipTurn ==
  /\ Loop /\ queue # <<>> /\ Head(queue).kind = "turn"
  /\ queue' = Tail(queue)
  /\ UNCHANGED <<up, turns, cache, memory, runs, reports, files, client, deaths>>

\* speculate_summary: begin reserves the key, and a diff is asked of the pipeline.
BeginSummary ==
  /\ Loop /\ queue # <<>> /\ Head(queue).kind = "turn"
  /\ LET s == Head(queue).session
         k == <<s, Head(queue).turn - 1>>
     IN /\ k \in Keys /\ MaySpend(s) /\ ~ Held(k)
        /\ cache' = [cache EXCEPT ![k] = Entry("running", NextId(k), NoKey)]
        /\ looking' = [key |-> k, id |-> NextId(k)]
  /\ queue' = Tail(queue)
  /\ UNCHANGED <<up, turns, inFlight, spent, rested, runs, reports, files, client, deaths>>

\* The pipeline is busy, the diff fails, or there is no scratch directory.
GiveUp ==
  /\ Free /\ looking # None
  /\ cache' = Finish(looking.id, "failed", NoKey)
  /\ looking' = None
  /\ UNCHANGED <<up, queue, turns, inFlight, spent, rested, runs, reports, files, client, deaths>>

\* The diff is there: the run's directories are made and its task is spawned.
StartRun ==
  /\ Free /\ looking # None
  /\ \E n \in Of({"none"}) :
       /\ \A m \in Runs : m < n => runs[m].at # "none"
       /\ runs' = [runs EXCEPT ![n] = [NoTask EXCEPT !.at = "made", !.key = looking.key,
                                                     !.id = looking.id]]
  /\ pidsDir' = TRUE
  /\ inFlight' = looking /\ looking' = None
  /\ spent' = [spent EXCEPT ![looking.key[1]] = @ + 1]
  /\ rested' = FALSE
  /\ UNCHANGED <<up, queue, turns, cache, reports, pids, client, deaths>>

\* Those whose cancel has been sent or dropped.
Tell(id) == [n \in Runs |-> IF runs[n].id = id THEN [runs[n] EXCEPT !.told = TRUE] ELSE runs[n]]

\* A cancel that leaves the row to the run's report.
CancelUnfinished(s) ==
  /\ inFlight # None /\ s \in {Nobody, inFlight.key[1]}
  /\ runs' = Tell(inFlight.id)
  /\ inFlight' = None
  /\ UNCHANGED cache

\* cancel: the run is told, its row is finished, and there is no current run.
Cancel(s) ==
  /\ inFlight # None /\ s \in {Nobody, inFlight.key[1]}
  /\ runs' = Tell(inFlight.id)
  /\ cache' = Finish(inFlight.id, "cancelled", NoKey)
  /\ inFlight' = None

HandleInvalidate ==
  /\ Loop /\ queue # <<>> /\ Head(queue).kind = "invalidate"
  /\ queue' = Tail(queue)
  /\ LET s == Head(queue).session
     IN \/ Cancel(s)
        \/ /\ inFlight = None \/ s \notin {Nobody, inFlight.key[1]}
           /\ UNCHANGED <<cache, inFlight, runs>>
  /\ UNCHANGED <<up, turns, looking, spent, rested, reports, files, client, deaths>>

\* A report that is believed whichever run is current.
RecordAnyway ==
  /\ Loop /\ reports # <<>>
  /\ cache' = Finish(runs[Head(reports)].id, runs[Head(reports)].outcome, runs[Head(reports)].key)
  /\ inFlight' = None
  /\ reports' = Tail(reports)
  /\ UNCHANGED <<up, queue, turns, looking, spent, rested, runs, files, client, deaths>>

\* record: only the current run may write a result.
Record ==
  /\ Loop /\ reports # <<>>
  /\ LET run == runs[Head(reports)]
         current == inFlight # None /\ inFlight.id = run.id
     IN IF current
        THEN /\ cache' = Finish(run.id, run.outcome, run.key)
             /\ inFlight' = None
             /\ runs' = Tell(run.id)
        ELSE UNCHANGED <<cache, inFlight, runs>>
  /\ reports' = Tail(reports)
  /\ UNCHANGED <<up, queue, turns, looking, spent, rested, files, client, deaths>>

-----------------------------------------------------------------------------
(* A run's task and its processes *)

\* The child leads a group of its own, and has children.
Spawn(n) ==
  /\ Free /\ runs[n].at = "made"
  /\ runs' = [runs EXCEPT ![n].at = "bare", ![n].leader = TRUE, ![n].kin = TRUE]
  /\ UNCHANGED <<up, queue, turns, cache, memory, reports, files, client, deaths>>

\* RunSpace::record: a write that fails goes unnoticed.
RecordPid(n) ==
  /\ up /\ runs[n].at = "bare"
  /\ pids' = IF pidsDir THEN {n} \cup {m \in pids : runs[m].id # runs[n].id} ELSE pids
  /\ runs' = [runs EXCEPT ![n].at = "running", ![n].loose = ~ pidsDir]
  /\ UNCHANGED <<up, queue, turns, cache, memory, reports, pidsDir, client, deaths>>

\* RunSpace::clean and drop: its pid file goes, and the directory if that was the last.
Cleaned(ids) ==
  /\ pids' = {m \in pids : runs[m].id \notin ids}
  /\ pidsDir' = (pidsDir /\ pids' # {})

\* The task ends, and reports.
Over(n, outcome, run) ==
  /\ runs' = [runs EXCEPT ![n] = [run EXCEPT !.at = "over", !.outcome = outcome]]
  /\ Cleaned({run.id})
  /\ reports' = Append(reports, n)
  /\ UNCHANGED <<up, queue, turns, cache, memory, client, deaths>>

SpawnFails(n) ==
  /\ Free /\ runs[n].at = "made"
  /\ Over(n, "failed", runs[n])

\* The command ends by itself, and its kin end with it or stay.
Exits(n) ==
  /\ runs[n].leader
  /\ \E stay \in {FALSE, runs[n].kin} :
       runs' = [runs EXCEPT ![n].leader = FALSE, ![n].kin = stay]
  /\ UNCHANGED <<up, queue, turns, cache, memory, reports, files, client, deaths>>

\* The command has ended, and its output too.
Ends(n) ==
  /\ Free /\ runs[n].at = "running" /\ ~ runs[n].leader
  /\ \E outcome \in {"ready", "failed", "overflow"} : Over(n, outcome, runs[n])

\* The wait for the child is dropped, which kills the child, and the group is asked to
\* end.
Terminate(n, outcome) ==
  /\ Free /\ runs[n].at = "running"
  /\ \E stay \in {FALSE, runs[n].kin} :
       runs' = [runs EXCEPT ![n].at = "killing", ![n].outcome = outcome,
                            ![n].leader = FALSE, ![n].kin = stay]
  /\ UNCHANGED <<up, queue, turns, cache, memory, reports, files, client, deaths>>

Timeout(n) == Terminate(n, "timeout")
Cancelled(n) == runs[n].told /\ Terminate(n, "cancelled")

\* The grace is over: the group is killed.
Kill(n) ==
  /\ Free /\ runs[n].at = "killing"
  /\ Over(n, runs[n].outcome, [runs[n] EXCEPT !.kin = FALSE])

-----------------------------------------------------------------------------
(* Shutdown, death, and the next daemon *)

\* What the daemon had in memory, and its connections.
Gone ==
  /\ up' = FALSE
  /\ queue' = <<>> /\ looking' = None /\ inFlight' = None /\ reports' = <<>>
  /\ spent' = [s \in Sessions |-> 0] /\ rested' = TRUE
  /\ client' = NoAsk

\* The loop ends and cancels its run, and with the runtime the tasks are dropped: a
\* child dies with its task, its kin do not, and the pid files go.
Shutdown ==
  /\ Loop /\ queue # <<>> /\ Head(queue).kind = "shutdown"
  /\ cache' = IF inFlight = None THEN cache ELSE Finish(inFlight.id, "cancelled", NoKey)
  /\ runs' = [n \in Runs |-> IF n \in Of({"made", "running", "killing"})
                             THEN [runs[n] EXCEPT !.at = "over", !.leader = FALSE]
                             ELSE runs[n]]
  /\ Cleaned({runs[n].id : n \in Of({"made", "running", "killing"})})
  /\ Gone
  /\ UNCHANGED <<turns, deaths>>

\* The daemon is killed: the groups it started live on.
Die ==
  /\ up /\ deaths < MaxDeaths
  /\ deaths' = deaths + 1
  /\ Gone
  /\ runs' = [n \in Runs |-> IF runs[n].at = "none" THEN runs[n]
                             ELSE [runs[n] EXCEPT !.at = "over",
                                                  !.loose = @ \/ runs[n].at = "bare"]]
  /\ UNCHANGED <<turns, cache, files>>

\* A sweep that forgets the runs and leaves them running.
SweepForgets == runs' = runs

\* sweep_stale_runs: whose pid file is there and whose leader is alive, its group is
\* killed; unless the leader goes by another name than the file says, which is how `ps`
\* shows a script or a long name, or `ps` fails, or the file says nothing.
Sweep ==
  \E strangers \in SUBSET {n \in pids : runs[n].leader} :
    runs' = [n \in Runs |-> IF n \in strangers THEN [runs[n] EXCEPT !.missed = TRUE]
                            ELSE IF runs[n].leader /\ n \in pids
                            THEN [runs[n] EXCEPT !.leader = FALSE, !.kin = FALSE]
                            ELSE runs[n]]

\* The next daemon sweeps, then orphans the rows that still say running.
Restart ==
  /\ ~ up /\ up' = TRUE
  /\ Sweep
  /\ pids' = {} /\ pidsDir' = FALSE
  /\ cache' = [k \in Keys |-> IF cache[k].state = "running"
                              THEN Entry("orphaned", cache[k].id, NoKey) ELSE cache[k]]
  /\ UNCHANGED <<queue, turns, memory, reports, client, deaths>>

Task(n) ==
  \/ Spawn(n) \/ RecordPid(n) \/ SpawnFails(n) \/ Ends(n)
  \/ Timeout(n) \/ Cancelled(n) \/ Kill(n)

Scheduler ==
  \/ SkipTurn \/ BeginSummary \/ GiveUp \/ StartRun
  \/ HandleInvalidate \/ Record \/ Shutdown

Next ==
  \/ \E s \in Sessions : TurnStart(s)
  \/ \E s \in Sessions \cup {Nobody} : Invalidate(s)
  \/ \E k \in Keys : AskSummary(k) \/ Collect(k)
  \/ \E n \in Runs : Task(n) \/ Exits(n)
  \/ Scheduler
  \/ AskStop \/ Join \/ Deadline \/ Rest \/ Die \/ Restart

Spec == Init /\ [][Next]_vars

-----------------------------------------------------------------------------
(* Properties *)

Bodies == Keys \cup {NoKey}

TypeOK ==
  /\ up \in BOOLEAN /\ rested \in BOOLEAN /\ pidsDir \in BOOLEAN
  /\ Len(queue) <= QueueDepth
  /\ turns \in [Sessions -> 0..MaxTurns]
  /\ cache \in [Keys -> [state : States, id : Nat, body : Bodies]]
  /\ looking \in [key : Bodies, id : Nat]
  /\ inFlight \in [key : Bodies, id : Nat]
  /\ spent \in [Sessions -> 0..Ceiling]
  /\ reports \in Seq(Runs)
  /\ pids \subseteq Runs
  /\ deaths \in 0..MaxDeaths

\* The command runs for one turn at a time: whatever is still running beside the
\* current run has been told to stop (speculate.rs: "one run at a time").
OneAtATime ==
  \A n \in Of({"made", "bare", "running"}) :
    ~ runs[n].told => inFlight = [key |-> runs[n].key, id |-> runs[n].id]

\* No command runs on behalf of nobody: while the daemon is up it has a task that
\* awaits it, and when the daemon is gone a pid file by which the next one finds it.
\* The only commands that escape are those of a daemon that is gone whose file was
\* never written or whose name was not the recorded one (spec_runner.rs: "kills
\* anything a dead daemon left running").
Leashed ==
  \A n \in Runs : runs[n].leader =>
    \/ up /\ runs[n].at \in {"bare", "running"}
    \/ ~ up /\ n \in pids
    \/ runs[n].at = "over" /\ (runs[n].loose \/ runs[n].missed)

\* The next daemon kills whatever a dead one recorded and left running (spec_runner.rs:
\* "Kills anything a dead daemon left running").
Swept ==
  up => \A n \in Runs : runs[n].leader /\ runs[n].at = "over" => runs[n].loose

\* What is served for a turn is the summary of that turn, also when the row's id was
\* used before (spec.rs: "if and only if the key matches exactly").
RightBody ==
  /\ \A k \in Keys : cache[k].state = "ready" => cache[k].body = k
  /\ client.body \in {client.key, NoKey}

\* A reserved key has somebody who will give it back: the scheduler that awaits the
\* diff, or a current run whose task is there or has reported (spec.rs: "must not hold
\* the key forever").
KeyHasHolder ==
  up => \A k \in Keys : cache[k].state = "running" =>
    LET row == [key |-> k, id |-> cache[k].id]
    IN \/ looking = row
       \/ /\ inFlight = row
          /\ \E n \in Runs : /\ runs[n].id = row.id /\ ~ runs[n].told
                            /\ \/ runs[n].at \in {"made", "bare", "running", "killing"}
                               \/ n \in ToSet(reports)

\* No process of a run that was stopped outlives its daemon and the next one's start
\* (spec_runner.rs: "a timeout kills the whole tree ... killing only the direct child
\* would leak them").
NothingLeft ==
  up => \A n \in Runs :
    runs[n].kin /\ runs[n].at = "over" => runs[n].outcome \in {"ready", "failed", "overflow"}

\* A session is never charged more runs than the ceiling (spec.rs: "Hard ceiling on
\* model runs in one session").
CeilingHard ==
  \A s \in Sessions : Cardinality({n \in Runs : runs[n].key[1] = s}) <= Ceiling
=============================================================================
