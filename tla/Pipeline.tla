------------------------------ MODULE Pipeline ------------------------------
(***************************************************************************)
(* The capture pipeline of crates/acyclic-engine/src/pipeline.rs: one      *)
(* thread that serves requests from a queue and, between them, wakes on an *)
(* idle timer.  It keeps a checkout of the working tree current from the   *)
(* hints of a native watcher, snapshots it into generations, and records a *)
(* row of the index for each.  The user edits files all the while.         *)
(*                                                                         *)
(* A generation is identified by its content, so it is a function from     *)
(* Files to Values, and so are the working tree and the checkout.  Requests*)
(* are served one at a time and broken into the steps between which an     *)
(* edit, a hint or a failure can come.  Operators that describe a fault the*)
(* code does not have stand before the definition they would replace.      *)
(***************************************************************************)
EXTENDS Integers, FiniteSets

CONSTANTS
  Files,        \* the tracked paths
  Values,       \* what a path can hold
  Absent,       \* the value of a path with nothing there
  CommitEvery,  \* `commit_every`: checkpoints between two authority commits
  Faults,       \* what can go wrong, a subset of FaultClasses
  MaxEdits,     \* bound: the user's edits
  MaxFaults     \* bound: the faults

FaultClasses ==
  { "overflow",  \* the watcher is invalidated and loses its hints
    "drain",     \* polling the watcher or capturing a batch fails
    "snapshot",  \* a request's checkpoint_engine or index.record fails
    "auto",      \* the same, for the idle timer's own checkpoint
    "commit",    \* the authority commit after a checkpoint fails
    "write",     \* writing a restored file, or a rewind's swap, fails
    "rebuild",   \* a rewind's commit, reopening the watcher or a baseline fails
    "crash" }    \* the daemon dies

\* What can have gone wrong since the last whole capture, by its cause.
Slips ==
  { "batch",    \* a drain failed, and the batch it had polled is lost
    "watcher",  \* reset_watch failed and left a fresh watcher, or one of the old tree
    "unready",  \* a rewind was taken up by a pipeline that was not ready
    "failed",   \* a request failed once its drain may have captured edits
    "raced" }   \* an edit came while a baseline was under way, after its capture

ASSUME FilesAssumption == Files # {}
ASSUME ValuesAssumption == Absent \in Values
ASSUME CommitEveryAssumption == CommitEvery \in Nat \ {0}
ASSUME FaultsAssumption == Faults \subseteq FaultClasses
ASSUME BoundsAssumption == MaxEdits \in Nat /\ MaxFaults \in Nat

Gens == [Files -> Values]
Empty == [f \in Files |-> Absent]
None == {}

VARIABLES
  disk,     \* the working tree
  flying,   \* paths with a hint the watcher has not queued yet
  queue,    \* paths with a hint in the watcher's queue
  invalid,  \* the watcher will answer RescanRequired
  orphan,   \* the watcher is on a tree that a rewind has replaced
  rescan,   \* begin_rescan was called, finish_rescan was not
  view,     \* what the checkout holds
  state,    \* `state`
  lastGen,  \* `last_generation`
  pending,  \* `auto_pending`: None, or {its since_generation}
  since,    \* `checkpoints_since_commit`, counted up to CommitEvery
  rows,     \* the generations the index has a restorable row for
  pc,       \* the step the pipeline is at
  req,      \* the request it serves
  ret,      \* where the baseline under way returns to
  edits,    \* edits the user has left
  faults,   \* faults left
  slips     \* the slips that neither a baseline nor a row has made good

tree == <<disk, flying, queue, invalid, orphan>>
index == <<lastGen, pending, since, rows>>
serve == <<pc, req, ret>>
vars == <<tree, rescan, view, state, index, serve, edits, faults, slips>>

Ops == {"none", "start", "checkpoint", "cut", "rewind", "restore", "land",
        "restored", "auto"}
Steps == {"idle", "dead", "prepare", "drain", "drained", "snap", "commit", "swap",
          "write", "direct", "reset", "base", "baserow", "tail"}
Requests == [op : Ops, gen : Gens, file : Files, changed : BOOLEAN]
NoRequest == [op |-> "none", gen |-> Empty, file |-> CHOOSE f \in Files : TRUE,
              changed |-> FALSE]

\* The store is open and its watcher in the rescan of the first baseline.
Init ==
  /\ disk \in Gens /\ flying = {} /\ queue = {} /\ invalid = FALSE
  /\ orphan = FALSE /\ rescan = TRUE
  /\ view = Empty /\ state = "baselining"
  /\ lastGen = Empty /\ pending = None /\ since = 0 /\ rows = {}
  /\ pc = "base" /\ req = [NoRequest EXCEPT !.op = "start"] /\ ret = "idle"
  /\ edits = MaxEdits /\ faults = MaxFaults /\ slips = {}

\* A marker holds the generation it was made in, and is stale in any other:
\* has_pending_drained_changes.
Mark == {lastGen}
HasPending == pending = Mark

Counted == IF since < CommitEvery THEN since + 1 ELSE since

\* Content `to` takes over for the paths in `seen`.
Captured(from, to, seen) == [f \in Files |-> IF f \in seen THEN to[f] ELSE from[f]]

Record(g) == lastGen' = g /\ rows' = rows \cup {g}

\* A row of what the checkout holds makes good what was captured and not recorded.
RecordView == Record(view) /\ slips' = slips \ {"failed", "raced"}

Goto(step) == pc' = step /\ UNCHANGED <<req, ret>>
Done == pc' = "idle" /\ req' = NoRequest /\ ret' = "idle"

\* A fresh watcher and a recovery baseline first, when `first`; then step `next`.
Begin(first, next) ==
  IF first THEN pc' = "reset" /\ ret' = next ELSE pc' = next /\ UNCHANGED ret

Hits(class) == class \in Faults /\ faults > 0 /\ faults' = faults - 1

\* Every request answers an error.  A tick keeps or starts its marker, and a
\* failed start leaves a thread that only answers errors.
GiveUp ==
  /\ pending' = IF req.op = "auto" THEN Mark ELSE pending
  /\ pc' = IF req.op = "start" THEN "dead" ELSE "idle"
  /\ req' = NoRequest /\ ret' = "idle"

\* A tick that fails leaves a marker, any other request none.
Slip(kinds) ==
  slips' = slips \cup kinds \cup (IF req.op \in {"auto", "start"} THEN {} ELSE {"failed"})

-----------------------------------------------------------------------------
(* Requests and the idle timer *)

\* A hook or a user asks for a checkpoint.  A pipeline that a failed recovery
\* left down retries the recovery first.
Checkpoint ==
  /\ pc = "idle"
  /\ req' = [NoRequest EXCEPT !.op = "checkpoint"]
  /\ Begin(state # "ready", "prepare")
  /\ UNCHANGED <<tree, rescan, view, state, index, edits, faults, slips>>

\* restore_paths of one path: a user's restore, which asks for a safety row, or
\* the landing of a promote, which does not.
Restore(f, g) ==
  /\ pc = "idle" /\ g \in rows
  /\ \/ /\ req' = [NoRequest EXCEPT !.op = "restore", !.gen = g, !.file = f]
        /\ Begin(state # "ready", "prepare")
     \/ /\ req' = [NoRequest EXCEPT !.op = "land", !.gen = g, !.file = f]
        /\ Begin(state # "ready", "write")
  /\ UNCHANGED <<tree, rescan, view, state, index, edits, faults, slips>>

Rewind(g) ==
  /\ pc = "idle" /\ g \in rows
  /\ req' = [NoRequest EXCEPT !.op = "rewind", !.gen = g]
  /\ state' = "rewinding"
  /\ pc' = "drain"
  /\ slips' = IF state = "ready" THEN slips ELSE slips \cup {"unready"}
  /\ UNCHANGED <<tree, rescan, view, index, ret, edits, faults>>

\* fork and publish_head: a row for the tree as it is, unless a failed recovery
\* left the pipeline down.
Cut ==
  /\ pc = "idle" /\ state = "ready"
  /\ req' = [NoRequest EXCEPT !.op = "cut"]
  /\ pc' = "drain"
  /\ UNCHANGED <<tree, rescan, view, state, index, ret, edits, faults, slips>>

\* auto_checkpoint, on a tick of the idle timer.
AutoCheckpoint ==
  /\ pc = "idle" /\ state = "ready"
  /\ req' = [NoRequest EXCEPT !.op = "auto"]
  /\ pc' = "drain"
  /\ UNCHANGED <<tree, rescan, view, state, index, ret, edits, faults, slips>>

\* idle_commit, and the Commit request.
CommitAlone ==
  /\ pc = "idle" /\ since > 0
  /\ since' = 0
  /\ UNCHANGED <<tree, rescan, view, state, lastGen, pending, rows, serve, edits, faults, slips>>

-----------------------------------------------------------------------------
(* drain_watcher *)

\* A drain that ignores what an idle tick already captured.
PrepareBlind ==
  /\ pc = "prepare"
  /\ pending' = IF HasPending THEN pending ELSE None
  /\ Goto("drain")
  /\ UNCHANGED <<tree, rescan, view, state, lastGen, since, rows, edits, faults, slips>>

\* What an idle tick drained and no row has yet counts as a change.
Prepare ==
  /\ pc = "prepare"
  /\ req' = [req EXCEPT !.changed = HasPending]
  /\ pending' = IF HasPending THEN pending ELSE None
  /\ pc' = "drain"
  /\ UNCHANGED <<tree, rescan, view, state, lastGen, since, rows, ret, edits, faults, slips>>

\* An invalidated watcher replaced by a fresh one, with no recovery baseline.
PollReopens ==
  /\ pc = "drain" /\ ~ rescan
  /\ IF queue # {} /\ ~ invalid
       THEN /\ view' = Captured(view, disk, queue)
            /\ req' = [req EXCEPT !.changed = TRUE]
            /\ UNCHANGED <<pc, ret>>
       ELSE Goto("drained") /\ UNCHANGED view
  /\ queue' = {} /\ invalid' = FALSE
  /\ UNCHANGED <<disk, flying, orphan, rescan, state, index, edits, faults, slips>>

\* One poll.  A batch is captured; RescanRequired leads to a fresh watcher and a
\* recovery baseline, and so does a hint that the root was replaced, which an
\* orphan may give; the drain ends on an empty batch.  A watcher still in its
\* rescan answers with an error.  When capturing fails the batch is lost.
Poll ==
  /\ pc = "drain"
  /\ \/ /\ ~ rescan /\ ~ invalid /\ queue # {}
        /\ view' = Captured(view, disk, queue)
        /\ queue' = {}
        /\ req' = [req EXCEPT !.changed = TRUE]
        /\ UNCHANGED <<pending, pc, ret, faults, slips>>
     \/ /\ ~ rescan /\ ~ invalid /\ queue = {}
        /\ Goto("drained")
        /\ UNCHANGED <<view, queue, pending, faults, slips>>
     \/ /\ ~ rescan /\ (invalid \/ orphan)
        /\ req' = [req EXCEPT !.changed = TRUE]
        /\ Begin(TRUE, "drained")
        /\ UNCHANGED <<view, queue, pending, faults, slips>>
     \/ /\ rescan
        /\ GiveUp /\ Slip({})
        /\ UNCHANGED <<view, queue, faults>>
     \/ /\ ~ rescan /\ Hits("drain")
        /\ queue' \in {queue, {}}
        /\ GiveUp /\ Slip(IF queue' = queue THEN {} ELSE {"batch"})
        /\ UNCHANGED view
  /\ UNCHANGED <<disk, flying, invalid, orphan, rescan, state, lastGen, since, rows, edits>>

\* The drain is over.  A restore of an unchanged tree needs no safety row.
Drained ==
  /\ pc = "drained" /\ req.op # "auto"
  /\ Goto(IF req.op = "restore" /\ ~ req.changed THEN "write" ELSE "snap")
  /\ UNCHANGED <<tree, rescan, view, state, index, edits, faults, slips>>

\* A tick that drained something only marks it; one that finds neither a change
\* nor a valid marker has nothing to do.
AutoMarks ==
  /\ pc = "drained" /\ req.op = "auto"
  /\ req.changed \/ ~ HasPending
  /\ pending' = IF req.changed THEN Mark ELSE None
  /\ Done
  /\ UNCHANGED <<tree, rescan, view, state, lastGen, since, rows, edits, faults, slips>>

\* The mark is younger than `auto_checkpoint_idle_ms`.
AutoWaits ==
  /\ pc = "drained" /\ req.op = "auto" /\ ~ req.changed /\ HasPending
  /\ Done
  /\ UNCHANGED <<tree, rescan, view, state, index, edits, faults, slips>>

AutoGoes ==
  /\ pc = "drained" /\ req.op = "auto" /\ ~ req.changed /\ HasPending
  /\ Goto("snap")
  /\ UNCHANGED <<tree, rescan, view, state, index, edits, faults, slips>>

-----------------------------------------------------------------------------
(* checkpoint_engine and index.record, as each request uses them *)

\* A commit is due when `since` has reached `commit_every`.
CommitIfDue == IF since' >= CommitEvery THEN Goto("commit") ELSE Done

\* Nothing changed: a noop row of the last generation.
SnapCheckpoint ==
  /\ pc = "snap" /\ req.op = "checkpoint"
  /\ IF req.changed THEN RecordView ELSE Record(lastGen) /\ UNCHANGED slips
  /\ pending' = IF req.changed THEN None ELSE pending
  /\ since' = Counted
  /\ CommitIfDue
  /\ UNCHANGED <<tree, rescan, view, state, edits, faults>>

\* The row after a restore, and the rows of fork and publish_head.
SnapCounted ==
  /\ pc = "snap" /\ req.op \in {"cut", "restored"}
  /\ RecordView
  /\ since' = Counted
  /\ Done
  /\ UNCHANGED <<tree, rescan, view, state, pending, edits, faults>>

\* A safety row for the last generation, with what the drain captured left out.
SnapSafetyLast ==
  /\ pc = "snap" /\ req.op \in {"restore", "rewind"}
  /\ Record(lastGen) /\ slips' = slips \ {"failed", "raced"}
  /\ pending' = IF req.op = "restore" THEN None ELSE pending
  /\ Goto(IF req.op = "restore" THEN "write" ELSE "commit")
  /\ UNCHANGED <<tree, rescan, view, state, since, edits, faults>>

\* The safety rows before a restore and before a rewind.
SnapSafety ==
  /\ pc = "snap" /\ req.op \in {"restore", "rewind"}
  /\ RecordView
  /\ pending' = IF req.op = "restore" THEN None ELSE pending
  /\ Goto(IF req.op = "restore" THEN "write" ELSE "commit")
  /\ UNCHANGED <<tree, rescan, view, state, since, edits, faults>>

\* try_auto_checkpoint: no row for a tree that hashes as the last row.  The
\* marker goes only once the tick has succeeded, its commit included.
SnapAuto ==
  /\ pc = "snap" /\ req.op = "auto"
  /\ IF view = lastGen
       THEN Done /\ pending' = None /\ UNCHANGED <<lastGen, since, rows, slips>>
       ELSE /\ RecordView
            /\ since' = Counted
            /\ CommitIfDue
            /\ pending' = IF pc' = "idle" THEN None ELSE pending
  /\ UNCHANGED <<tree, rescan, view, state, edits, faults>>

\* A tick that drops its marker whatever came of its checkpoint.
SnapFailsMarkless ==
  /\ pc = "snap"
  /\ Hits(IF req.op = "auto" THEN "auto" ELSE "snapshot")
  /\ pending' = IF req.op = "auto" THEN None ELSE pending
  /\ Done /\ Slip({})
  /\ UNCHANGED <<tree, rescan, view, state, lastGen, since, rows, edits>>

SnapFails ==
  /\ pc = "snap"
  /\ Hits(IF req.op = "auto" THEN "auto" ELSE "snapshot")
  /\ Done /\ Slip({})
  /\ UNCHANGED <<tree, rescan, view, state, index, edits>>

Commit ==
  /\ pc = "commit"
  /\ \/ /\ since' = 0
        /\ pending' = IF req.op = "auto" THEN None ELSE pending
        /\ IF req.op = "rewind" THEN Goto("swap") ELSE Done
        /\ UNCHANGED faults
     \/ /\ Hits(IF req.op = "rewind" THEN "rebuild" ELSE "commit")
        /\ Done
        /\ UNCHANGED <<since, pending>>
  /\ UNCHANGED <<tree, rescan, view, state, lastGen, rows, edits, slips>>

-----------------------------------------------------------------------------
(* What a rewind and a restore do to the working tree *)

\* rewind::execute in one step: module RewindSwap has the steps.  Whatever came
\* of it, the watcher, now on the old tree, is reopened and a baseline taken.
Swap ==
  /\ pc = "swap"
  /\ \/ disk' = req.gen /\ orphan' = TRUE /\ UNCHANGED faults
     \/ UNCHANGED <<disk, orphan>> /\ Hits("write")
  /\ pc' = "reset" /\ ret' = "idle"
  /\ UNCHANGED <<flying, queue, invalid, rescan, view, state, index, req, edits, slips>>

\* rewind::restore_path; the watcher sees the pipeline's own write too.  A path that
\* neither the checkpoint nor the tree has is an error.
Write ==
  /\ pc = "write"
  /\ \/ /\ disk[req.file] # Absent \/ req.gen[req.file] # Absent
        /\ disk' = [disk EXCEPT ![req.file] = req.gen[req.file]]
        /\ flying' = IF invalid \/ orphan THEN flying ELSE flying \cup {req.file}
        /\ Goto("direct")
        /\ UNCHANGED faults
     \/ /\ disk[req.file] = Absent /\ req.gen[req.file] = Absent
        /\ Done
        /\ UNCHANGED <<disk, flying, faults>>
     \/ /\ Hits("write")
        /\ Done
        /\ UNCHANGED <<disk, flying>>
  /\ UNCHANGED <<queue, invalid, orphan, rescan, view, state, index, edits, slips>>

\* A file is captured without waiting for the hint; a path that is now absent
\* waits for the watcher.
Direct ==
  /\ pc = "direct"
  /\ \/ /\ view' = IF disk[req.file] = Absent THEN view ELSE Captured(view, disk, {req.file})
        /\ req' = [req EXCEPT !.op = "restored"]
        /\ pc' = IF disk[req.file] = Absent THEN "drain" ELSE "snap"
        /\ UNCHANGED <<ret, faults>>
     \/ /\ disk[req.file] # Absent /\ Hits("drain")
        /\ Done
        /\ UNCHANGED view
  /\ UNCHANGED <<tree, rescan, state, index, edits, slips>>

-----------------------------------------------------------------------------
(* reset_watch and baseline *)

Reset ==
  /\ pc = "reset"
  /\ \/ /\ flying' = {} /\ queue' = {} /\ invalid' = FALSE
        /\ orphan' = FALSE /\ rescan' = TRUE
        /\ Goto("base")
        /\ UNCHANGED <<pending, faults, slips>>
     \/ /\ Hits("rebuild")
        /\ GiveUp
        /\ \/ /\ UNCHANGED <<flying, queue, invalid, orphan, rescan>>
              /\ Slip(IF orphan THEN {"watcher"} ELSE {})
           \/ /\ flying' = {} /\ queue' = {} /\ invalid' = FALSE
              /\ orphan' = FALSE /\ rescan' = FALSE
              /\ Slip({"watcher"})
  /\ UNCHANGED <<disk, view, state, lastGen, since, rows, edits>>

\* The commit of what the checkout holds, then capture_baseline.
Base ==
  /\ pc = "base"
  /\ state' = "baselining"
  /\ \/ /\ since' = 0
        /\ view' = disk
        /\ Goto("baserow")
        /\ slips' = {}
        /\ UNCHANGED <<pending, faults>>
     \/ /\ Hits("rebuild")
        /\ since' \in {since, 0}
        /\ view' \in {view, disk}
        /\ GiveUp
        /\ UNCHANGED slips
  /\ UNCHANGED <<tree, rescan, lastGen, rows, edits>>

BaseRow ==
  /\ pc = "baserow"
  /\ \/ /\ Record(view)
        /\ Goto("tail")
        /\ UNCHANGED <<pending, faults>>
     \/ /\ Hits("rebuild")
        /\ GiveUp
        /\ UNCHANGED <<lastGen, rows>>
  /\ UNCHANGED <<tree, rescan, view, state, since, edits, slips>>

\* What finish_rescan hands over: nothing, from a watcher invalidated meanwhile.
TailBatch == IF invalid THEN {} ELSE queue

\* A pipeline declared ready before finish_rescan has answered.
TailReadyFirst ==
  /\ pc = "tail"
  /\ state' = "ready"
  /\ \/ /\ rescan' = FALSE
        /\ view' = Captured(view, disk, TailBatch)
        /\ queue' = queue \ TailBatch
        /\ since' = 0
        /\ IF ret = "idle" THEN Done ELSE pc' = ret /\ ret' = "idle" /\ UNCHANGED req
        /\ UNCHANGED <<pending, faults>>
     \/ /\ Hits("rebuild")
        /\ GiveUp
        /\ UNCHANGED <<rescan, view, queue, since>>
  /\ UNCHANGED <<disk, flying, invalid, orphan, lastGen, rows, edits, slips>>

\* finish_rescan, the capture of its batch, and a commit.  The batch enters the
\* checkout after the row was recorded.
Tail ==
  /\ pc = "tail"
  /\ \/ /\ rescan' = FALSE
        /\ view' = Captured(view, disk, TailBatch)
        /\ queue' = queue \ TailBatch
        /\ state' = "ready" /\ since' = 0
        /\ IF ret = "idle" THEN Done ELSE pc' = ret /\ ret' = "idle" /\ UNCHANGED req
        /\ UNCHANGED <<pending, faults>>
     \/ /\ Hits("rebuild")
        /\ GiveUp
        /\ UNCHANGED <<state, since>>
        /\ \/ UNCHANGED <<rescan, view, queue>>
           \/ /\ rescan' = FALSE
              /\ view' \in {view, Captured(view, disk, TailBatch)}
              /\ queue' = queue \ TailBatch
  /\ UNCHANGED <<disk, flying, invalid, orphan, lastGen, rows, edits, slips>>

-----------------------------------------------------------------------------
(* The user, the watcher, the daemon's death *)

Edit(f, v) ==
  /\ edits > 0 /\ v # disk[f]
  /\ edits' = edits - 1
  /\ disk' = [disk EXCEPT ![f] = v]
  /\ flying' = IF invalid \/ orphan THEN flying ELSE flying \cup {f}
  /\ slips' = IF pc \in {"baserow", "tail"} THEN slips \cup {"raced"} ELSE slips
  /\ UNCHANGED <<queue, invalid, orphan, rescan, view, state, index, serve, faults>>

Deliver(f) ==
  /\ f \in flying
  /\ flying' = flying \ {f} /\ queue' = queue \cup {f}
  /\ UNCHANGED <<disk, invalid, orphan, rescan, view, state, index, serve, edits, faults, slips>>

Overflow ==
  /\ ~ invalid /\ Hits("overflow")
  /\ invalid' = TRUE /\ flying' = {} /\ queue' = {}
  /\ UNCHANGED <<disk, orphan, rescan, view, state, index, serve, edits, slips>>

\* The daemon dies, or one that failed to start is stopped, and the next one
\* opens the store: its checkout is at a committed generation, its watcher fresh.
Restart ==
  /\ pc # "dead" => Hits("crash")
  /\ pc = "dead" => UNCHANGED faults
  /\ flying' = {} /\ queue' = {} /\ invalid' = FALSE /\ orphan' = FALSE
  /\ rescan' = TRUE
  /\ view' \in rows \cup {Empty}
  /\ state' = "baselining"
  /\ lastGen' = Empty /\ pending' = None /\ since' = 0
  /\ pc' = "base" /\ req' = [NoRequest EXCEPT !.op = "start"] /\ ret' = "idle"
  /\ slips' = {}
  /\ UNCHANGED <<disk, rows, edits>>

-----------------------------------------------------------------------------
\* What the pipeline's thread does once it has taken a request up.
Serving ==
  \/ Prepare \/ Poll \/ Drained \/ AutoMarks \/ AutoWaits \/ AutoGoes
  \/ SnapCheckpoint \/ SnapCounted \/ SnapSafety \/ SnapAuto \/ SnapFails \/ Commit
  \/ Swap \/ Write \/ Direct \/ Reset \/ Base \/ BaseRow \/ Tail

Next ==
  \/ Checkpoint \/ Cut \/ AutoCheckpoint \/ CommitAlone
  \/ \E g \in Gens : Rewind(g) \/ \E f \in Files : Restore(f, g)
  \/ Serving
  \/ \E f \in Files, v \in Values : Edit(f, v)
  \/ \E f \in Files : Deliver(f)
  \/ Overflow \/ Restart

Spec == Init /\ [][Next]_vars

\* The thread goes on with what it serves, the watcher delivers, the timer's
\* fixed deadline comes between requests, and a mark gets old enough.
Fairness ==
  /\ WF_vars(Serving) /\ SF_vars(AutoCheckpoint) /\ SF_vars(AutoGoes)
  /\ \A f \in Files : WF_vars(Deliver(f))

FairSpec == Spec /\ Fairness

-----------------------------------------------------------------------------
(* Properties *)

ServeOK ==
  /\ pc \in Steps /\ req \in Requests
  /\ ret \in {"idle", "prepare", "drained", "write"}

\* The variables have their types: the marker is a generation or none, and the
\* count of checkpoints is back under `commit_every` after every commit.
TypeOK ==
  /\ disk \in Gens /\ view \in Gens /\ lastGen \in Gens /\ rows \subseteq Gens
  /\ pending = None \/ \E g \in Gens : pending = {g}
  /\ since \in 0..CommitEvery
  /\ flying \subseteq Files /\ queue \subseteq Files
  /\ invalid \in BOOLEAN /\ orphan \in BOOLEAN /\ rescan \in BOOLEAN
  /\ state \in {"baselining", "ready", "rewinding"}
  /\ edits \in 0..MaxEdits /\ faults \in 0..MaxFaults /\ slips \subseteq Slips
  /\ ServeOK

Spared(kinds) == \A k \in kinds : k \notin slips

\* While the watcher is valid, a file the checkout has stale has a hint on its
\* way: an incremental capture never forgets an edit, whatever fails, until a drain
\* loses its batch or reset_watch fails behind a fresh watcher.
EditsTracked ==
  state = "ready" /\ ~ invalid /\ pc \notin {"reset", "base"} /\ Spared({"batch", "watcher"})
    => \A f \in Files : disk[f] # view[f] => f \in flying \cup queue

\* Between requests, a checkout ahead of the last row is marked by a marker of
\* that row's generation: an empty watcher is never taken for a recorded tree.
CaptureIsMarked ==
  pc = "idle" /\ state = "ready" /\ view # lastGen => HasPending

\* The same, until a request fails or an edit races a baseline, and again once the
\* next row or baseline has made that good.
CapturedPending == Spared({"failed", "raced"}) => CaptureIsMarked

\* A checkpoint that found no change records a noop row of the last generation
\* (a checkpoint's noop says the checkout is that generation).
NoopIsTrue ==
  pc = "snap" /\ req.op = "checkpoint" /\ ~ req.changed => view = lastGen

\* The same, with the exceptions of CapturedPending.
NoopTellsTruth == Spared({"failed", "raced"}) => NoopIsTrue

OnRecord(f, v) == \E g \in rows : g[f] = v

\* An edit of f has a hint on its way, or the watcher knows it lost hints.
Due(f) == invalid \/ f \in flying \cup queue

\* Content that a rewind or a user's restore is about to overwrite is on record:
\* some row has it, unless an edit came after the safety row and its hint is due.
\* A lost batch, a watcher not reopened and a rewind of a pipeline that was not
\* ready are its exceptions; for a restore, which takes no safety row of a tree
\* that it thinks unchanged, those of NoopTellsTruth too.
OverwrittenIsOnRecord ==
  Spared({"batch", "watcher", "unready"}) =>
    /\ pc = "write" /\ req.op = "restore" /\ Spared({"failed", "raced"})
         => Due(req.file) \/ OnRecord(req.file, disk[req.file])
    /\ pc = "swap" => \E g \in rows : \A f \in Files : g[f] = disk[f] \/ Due(f)

\* The state before a rewind is itself a checkpoint: once the user has stopped
\* editing, a rewind that is taken up swaps only content some row has.
RewindSafety ==
  [](edits = 0 /\ req.op = "rewind" /\ pc = "drain"
       => [](pc = "swap" => \A f \in Files : Due(f) \/ OnRecord(f, disk[f])))

\* A pipeline that is ready and idle has a watcher it can poll: reusing one in
\* its rescan would make every later drain fail, with no recovery attempted.
NeverWedged == pc = "idle" /\ state = "ready" => ~ rescan

\* The safety net of the idle timer: while the daemon lives, what a file holds
\* gets into a row or is edited again, though nobody ever asks for a checkpoint.  An
\* edit that races a baseline waits for the next one.
AutoNet ==
  \A f \in Files, v \in Values :
    disk[f] = v ~> disk[f] # v \/ OnRecord(f, v) \/ pc = "dead" \/ "raced" \in slips

\* The same of a tick that found the watcher invalid: should its recovery fail,
\* the next tick retries.
TickRetries ==
  \A f \in Files, v \in Values :
    pc = "reset" /\ req.op = "auto" /\ disk[f] = v ~> disk[f] # v \/ OnRecord(f, v)
=============================================================================
