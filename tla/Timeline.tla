------------------------------ MODULE Timeline ------------------------------
(***************************************************************************)
(* The checkpoint index and what is read out of it: the timeline's rows,   *)
(* turns and sessions (crates/acyclic-engine/src/index.rs), the requests   *)
(* of the pipeline that write them, and the previous-session brief that a  *)
(* new session opens with (crates/acyclic/src/server.rs compute_brief),    *)
(* which is computed ahead and served from a cache under a key made of the *)
(* session it is about and of the newest target's generation               *)
(* (crates/acyclic/src/speculate.rs).                                      *)
(*                                                                         *)
(* A tree is a number and a generation is the tree it was taken of: equal  *)
(* trees have equal digests.  A row's id is its place in the index, which  *)
(* nothing deletes from.  The kinds pre, post and manual are all "post".   *)
(***************************************************************************)
EXTENDS Integers, Sequences, FiniteSetsExt

CONSTANTS
  Sessions,    \* the agents' sessions
  Nobody,      \* no session
  Pasts,       \* what the index may hold when the daemon has come up
  MaxTrees,    \* bound: the trees edits can make
  MaxRows,     \* bound: the rows of the index
  MaxTurns,    \* bound: the turns of a session
  MaxCached    \* bound: the entries of the cache

ASSUME NobodyAssumption == Nobody \notin Sessions
ASSUME BoundsAssumption == {MaxTrees, MaxRows, MaxTurns, MaxCached} \subseteq Nat

Trees == 0..MaxTrees

\* What a user would rewind to; the other kinds are bookkeeping.
Targets == {"baseline", "post", "auto"}
Kinds == Targets \cup {"noop", "pre_rewind", "recovered", "failed"}

Records ==
  [kind : Kinds, gen : Trees, session : Sessions \cup {Nobody}, turn : 0..MaxTurns,
   target : 0..MaxRows]

\* An index has the baseline of a daemon, and what came after it.
ASSUME PastsAssumption ==
  \A past \in Pasts :
    /\ past.rows \in Seq(Records) /\ Len(past.rows) \in 1..MaxRows
    /\ past.turns \in [Sessions -> 0..MaxTurns] /\ past.seen \in Seq(Sessions)

VARIABLES
  tree,    \* the working tree
  newest,  \* the newest tree there was
  dirty,   \* the watcher has something for the pipeline
  last,    \* `last_generation`
  rows,    \* the table of checkpoints
  turns,   \* per session: its turns so far
  seen,    \* the table of sessions, by when they started
  cache,   \* the brief that is stored under a key, and the entry's state
  work     \* the brief that the scheduler's thread is computing

pipeline == <<tree, newest, dirty, last>>
tables == <<rows, turns, seen>>
briefs == <<cache, work>>
vars == <<pipeline, tables, briefs>>

-----------------------------------------------------------------------------
(* Queries *)

Newest(ids) == IF ids = {} THEN 0 ELSE Max(ids)
Oldest(ids) == IF ids = {} THEN 0 ELSE Min(ids)

Ids(kinds) == {i \in DOMAIN rows : rows[i].kind \in kinds}
Real == Ids(Targets)
Whole == Ids(Kinds \ {"failed"})
Of(s) == {i \in DOMAIN rows : rows[i].session = s}

LatestTarget == Newest(Real)
LatestTargetBefore(i) == Newest({j \in Real : j < i})
SessionStart(s) == Oldest(Whole \cap Of(s))
SessionEnd(s) == Newest(Real \cap Of(s))

TurnRows(s, t) == {i \in Whole \cap Of(s) : rows[i].turn = t}

\* The generations a turn spans; none when it recorded nothing, had nothing
\* before it, or came back to where it began.
TurnRange(s, t) ==
  LET first == Oldest(TurnRows(s, t))
      base == LatestTargetBefore(first)
      end == Newest(TurnRows(s, t))
  IN IF first = 0 \/ base = 0 THEN <<>>
     ELSE IF rows[base].gen = rows[end].gen THEN <<>>
     ELSE <<rows[base].gen, rows[end].gen>>

\* last_session_with_checkpoints: of those that recorded something, the one that
\* started last, the asking one apart.
Subject(asker) ==
  LET places == {p \in DOMAIN seen : seen[p] # asker /\ Whole \cap Of(seen[p]) # {}}
  IN IF places = {} THEN Nobody ELSE seen[Max(places)]

\* abandoned_branches: per rewind between the session's first row and its last
\* one, the real rows between the rewind's target and the rewind.
Branches(s) ==
  LET rewinds == {i \in Ids({"pre_rewind"}) : SessionStart(s) <= i /\ i <= Newest(Of(s))}
      Left(i) == {j \in Real : rows[i].target < j /\ j < i}
  IN IF SessionStart(s) = 0 THEN {}
     ELSE {<<rows[i].target, Oldest(Left(i)), Newest(Left(i))>> :
             i \in {j \in rewinds : Left(j) # {}}}

\* What a brief says of a session: everything but the drift, which is looked up
\* last.
Report(s) ==
  [subject |-> s,
   end |-> SessionEnd(s),
   changed |-> /\ SessionEnd(s) # 0
               /\ rows[SessionStart(s)].gen # rows[SessionEnd(s)].gen,
   branches |-> Branches(s),
   checkpoints |-> Cardinality(Whole \cap Of(s)),
   turns |-> turns[s]]

\* Whether the newest target differs from where the session ended.
Drift(report) ==
  report.end # 0 /\ rows[LatestTarget].gen # rows[report.end].gen

NoReport ==
  [subject |-> Nobody, end |-> 0, changed |-> FALSE, branches |-> {},
   checkpoints |-> 0, turns |-> 0]

NoBrief == [report |-> NoReport, drift |-> FALSE]

Brief(s) == [report |-> Report(s), drift |-> Drift(Report(s))]

\* brief_key without the generation.
BriefKeySubjectOnly(asker) ==
  IF Subject(asker) = Nobody \/ LatestTarget = 0 THEN <<>> ELSE <<Subject(asker), 0>>

\* brief_key: the session the brief is about, and the newest target's generation.
BriefKey(asker) ==
  IF Subject(asker) = Nobody \/ LatestTarget = 0 THEN <<>>
  ELSE <<Subject(asker), rows[LatestTarget].gen>>

Keys == Sessions \X Trees

-----------------------------------------------------------------------------
(* Writing the tables *)

Row(kind, gen, s, t, target) ==
  [kind |-> kind, gen |-> gen, session |-> s, turn |-> t, target |-> target]

\* A turn that is read off the session's last row.
EffectiveTurnOfLastRow(s) ==
  IF s = Nobody \/ Of(s) = {} THEN 0 ELSE rows[Newest(Of(s))].turn

\* effective_turn: the session's latest turn when the row is written.
EffectiveTurn(s) == IF s = Nobody THEN 0 ELSE turns[s]

EnsureSession(s) ==
  seen' = IF s = Nobody \/ \E p \in DOMAIN seen : seen[p] = s THEN seen ELSE Append(seen, s)

\* checkpoint: a snapshot if anything changed, else a noop row of the last
\* generation.
Record(kind, s) ==
  /\ Len(rows) < MaxRows
  /\ rows' = Append(rows, IF dirty THEN Row(kind, tree, s, EffectiveTurn(s), 0)
                          ELSE Row("noop", last, s, EffectiveTurn(s), 0))
  /\ last' = IF dirty THEN tree ELSE last
  /\ dirty' = FALSE
  /\ EnsureSession(s)

\* `upto` is the last row there was when the key was made, `by` when it was stored.
Missing == [state |-> "none", brief |-> NoBrief, upto |-> 0, by |-> 0]

Idle == [key |-> <<>>, report |-> NoReport, upto |-> 0]

\* The daemon has come up on an index that others may have written before.
Init ==
  /\ \E past \in Pasts :
       /\ rows = past.rows /\ turns = past.turns /\ seen = past.seen
       /\ tree = past.rows[Len(past.rows)].gen /\ last = tree
       /\ newest = Max({past.rows[i].gen : i \in DOMAIN past.rows})
  /\ dirty = FALSE
  /\ cache = [k \in Keys |-> Missing]
  /\ work = Idle

\* The edits between two captures: they make a tree there was not, go back to one
\* there was, or leave things as they are.
Edit ==
  /\ ~ dirty /\ dirty' = TRUE
  /\ \E t \in Trees :
       /\ t <= newest + 1
       /\ tree' = t
       /\ newest' = IF t > newest THEN t ELSE newest
  /\ UNCHANGED <<last, tables, briefs>>

\* A capture that a session's hook asked for.
Checkpoint(s) ==
  /\ Record("post", s)
  /\ UNCHANGED <<tree, newest, turns, briefs>>

\* A capture that fails, here with something to capture, leaves a row that says so
\* and no session.
CheckpointFails(s) ==
  /\ dirty
  /\ Len(rows) < MaxRows
  /\ rows' = Append(rows, Row("failed", last, s, EffectiveTurn(s), 0))
  /\ UNCHANGED <<pipeline, turns, seen, briefs>>

\* The idle timer records when there is something to record.
AutoCheckpoint ==
  /\ dirty
  /\ Record("auto", Nobody)
  /\ UNCHANGED <<tree, newest, turns, briefs>>

SessionStarted(s) ==
  /\ EnsureSession(s)
  /\ UNCHANGED <<pipeline, rows, turns, briefs>>

TurnStarted(s) ==
  /\ turns[s] < MaxTurns
  /\ turns' = [turns EXCEPT ![s] = @ + 1]
  /\ EnsureSession(s)
  /\ UNCHANGED <<pipeline, rows, briefs>>

\* resolve_target: a row by its id, the newest target, or a session's first row, as
\* long as it is no failed one.
RewindTargets == Whole

\* rewind: a safety row, the swap, and the row of the baseline after it.
Rewind ==
  /\ Len(rows) + 1 < MaxRows
  /\ \E i \in RewindTargets :
       /\ rows' = rows \o <<Row("pre_rewind", tree, Nobody, 0, i),
                            Row("recovered", rows[i].gen, Nobody, 0, 0)>>
       /\ tree' = rows[i].gen /\ last' = rows[i].gen
  /\ dirty' = FALSE
  /\ UNCHANGED <<newest, turns, seen, briefs>>

\* The daemon dies; the next one takes a baseline, and orphans what was running.
Restart ==
  /\ Len(rows) < MaxRows
  /\ rows' = Append(rows, Row("baseline", tree, Nobody, 0, 0))
  /\ last' = tree /\ dirty' = FALSE
  /\ cache' = [k \in Keys |-> IF cache[k].state = "running"
                              THEN [cache[k] EXCEPT !.state = "failed"] ELSE cache[k]]
  /\ work' = Idle
  /\ UNCHANGED <<tree, newest, turns, seen>>

-----------------------------------------------------------------------------
(* Briefs *)

Holds(k) == cache[k].state \in {"running", "ready"}

Bounded(stored) == Cardinality({k \in Keys : stored[k].state # "none"}) <= MaxCached

\* speculate_brief, when the scheduler comes to a session's end in its queue: begin
\* is the admission gate; compute_brief reads the session, its ends and its branches,
\* and then has the pipeline diff them.
SpeculateBrief ==
  /\ work = Idle
  /\ LET key == BriefKey(Nobody)
     IN /\ key # <<>> /\ ~ Holds(key)
        /\ cache' = [cache EXCEPT ![key] = [Missing EXCEPT !.state = "running"]]
        /\ work' = [key |-> key, report |-> Report(Subject(Nobody)), upto |-> Len(rows)]
  /\ Bounded(cache')
  /\ UNCHANGED <<pipeline, tables>>

\* The diffs are there, and the drift is looked up.
FinishBrief ==
  /\ work # Idle
  /\ LET brief == [report |-> work.report, drift |-> Drift(work.report)]
     IN cache' = [cache EXCEPT ![work.key] = [state |-> "ready", brief |-> brief,
                                              upto |-> work.upto, by |-> Len(rows)]]
  /\ work' = Idle
  /\ UNCHANGED <<pipeline, tables>>

\* A failure that keeps the key.
BriefFailsKeyed ==
  /\ work # Idle
  /\ work' = Idle
  /\ UNCHANGED <<pipeline, tables, cache>>

\* The pipeline's diff fails: the entry may be tried again.
BriefFails ==
  /\ work # Idle
  /\ cache' = [cache EXCEPT ![work.key].state = "failed"]
  /\ work' = Idle
  /\ UNCHANGED <<pipeline, tables>>

\* A session start asks for a brief that is not there: the request computes it, here
\* in one step, and store_brief keeps it unless somebody has the key.
AskBrief(s) ==
  /\ LET key == BriefKey(s)
     IN /\ key # <<>> /\ ~ Holds(key)
        /\ cache' = [cache EXCEPT ![key] = [state |-> "ready", brief |-> Brief(Subject(s)),
                                            upto |-> Len(rows), by |-> Len(rows)]]
  /\ Bounded(cache')
  /\ UNCHANGED <<pipeline, tables, work>>

\* gc, once the entries are past their time: all but a running one.
Collect ==
  /\ cache' = [k \in Keys |-> IF cache[k].state = "running" THEN cache[k] ELSE Missing]
  /\ UNCHANGED <<pipeline, tables, work>>

Next ==
  \/ Edit \/ AutoCheckpoint \/ Rewind \/ Restart \/ SpeculateBrief \/ FinishBrief \/ BriefFails
  \/ Collect
  \/ \E s \in Sessions : \/ Checkpoint(s) \/ CheckpointFails(s)
                         \/ SessionStarted(s) \/ TurnStarted(s) \/ AskBrief(s)

Spec == Init /\ [][Next]_vars

-----------------------------------------------------------------------------
(* Properties *)

Reports ==
  [subject : Sessions \cup {Nobody}, end : 0..MaxRows, changed : BOOLEAN,
   branches : SUBSET ((0..MaxRows) \X (0..MaxRows) \X (0..MaxRows)),
   checkpoints : 0..MaxRows, turns : 0..MaxTurns]

TypeOK ==
  /\ tree \in Trees /\ newest \in Trees /\ last \in Trees /\ dirty \in BOOLEAN
  /\ rows \in Seq(Records) /\ Len(rows) \in 1..MaxRows
  /\ turns \in [Sessions -> 0..MaxTurns]
  /\ seen \in Seq(Sessions)
  /\ cache \in [Keys -> [state : {"none", "running", "ready", "failed"},
                         brief : [report : Reports, drift : BOOLEAN],
                         upto : 0..MaxRows, by : 0..MaxRows]]
  /\ work \in [key : Keys \cup {<<>>}, report : Reports, upto : 0..MaxRows]

\* The range of a turn does not change once the next one has started, so that its
\* summary's key stays and the summary stays true (speculate.rs: "turn N-1 is over
\* and will not change again").
TurnsOver ==
  [][rows' # rows =>
       \A s \in Sessions : \A t \in 1..(turns[s] - 1) : TurnRange(s, t)' = TurnRange(s, t)]_vars

\* A generation that two real rows have names two places of the timeline.
CameBack ==
  \E i, j \in Real : i < j /\ rows[i].gen = rows[j].gen /\ \E k \in Real :
                        i < k /\ k <= j /\ (rows[k].gen # rows[j].gen \/ rows[k].session # Nobody)

\* A brief that the cache serves is of the session, the end and the drift that
\* computing it now would give, and has no branch that there is not; unless it was
\* computed over rows that came after its key, or a tree came back (speculate.rs:
\* "either way the old entry stops matching").
BriefFits ==
  ~ CameBack =>
    \A s \in Sessions \cup {Nobody} :
      LET key == BriefKey(s)
          entry == cache[key]
          served == entry.brief
          now == Brief(Subject(s))
      IN key # <<>> /\ (key # <<>> => entry.state = "ready" /\ entry.upto = entry.by) =>
           /\ served.report.subject = now.report.subject
           /\ served.report.end = now.report.end
           /\ served.report.changed = now.report.changed
           /\ served.drift = now.drift
           /\ served.report.branches \subseteq now.report.branches
           /\ served.report.checkpoints <= now.report.checkpoints

\* A key is held by somebody who will let go of it: no running entry without the
\* scheduler at work on it (spec.rs: "would otherwise block its key forever").
RunningHasMaker ==
  \A k \in Keys : cache[k].state = "running" => work.key = k

\* A brief computed now says so when the tree is not as its session left it, once
\* the pipeline has recorded the tree (brief.rs: "tree unchanged since then").
DriftTold ==
  \A s \in Sessions :
    ~ dirty /\ Subject(Nobody) = s /\ SessionEnd(s) # 0 /\ last # rows[SessionEnd(s)].gen
      => Drift(Report(s))
=============================================================================
