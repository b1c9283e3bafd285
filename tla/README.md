# A verification project for acyclic

`acyclic` keeps a history of a repository's working tree while coding agents
edit it: a daemon per repository captures every change into generations of a
content-addressed volume, records a row of an index for each checkpoint, and
can rewind the tree, restore paths, cut forks and promote them back. This
directory holds TLA+ modules of the parts of the daemon whose failures lose a
user's work, TLC configurations that check them on small instances, and
theorems about them that TLAPS checks for every instance. Every definition is
translated from the Rust source; `PROJECT.json` names the lines of each.

Run `tlc -config X.cfg M` for a run of the table below and `tlapm M.tla` for a
module of proofs, in this directory.

## The system

| Component | State | Operations | Interacts with |
|---|---|---|---|
| Pipeline (`acyclic-engine/src/pipeline.rs`) | checkout, watcher, `state`, `last_generation`, `auto_pending`, `checkpoints_since_commit`, `shadowed` | one request at a time from a queue: checkpoint, commit, rewind, restore, fork, publish_head, merge plans, session resolve/apply; an idle timer between requests | watcher hints (`acyclic-fs`), index, rewind |
| Rewind (`rewind.rs`) | a stage directory, the swap's scratch, a trash, a journal on disk | `execute` in four journalled phases, `recover` at daemon start, `restore_path` | exclusion rules, the pipeline that calls it, the daemon that recovers |
| Index (`index.rs`) | rows of checkpoints, turns, sessions, the published flag | `record`, `mark_published`, timeline queries | pipeline, brief |
| Exclusions, guard, config (`exclude.rs`, `guard.rs`, `config.rs`) | parsed rules | filter hints, scrub captures, judge tool calls | pipeline, hooks, rewind |
| Promote (`acyclic/src/server.rs`, `merge.rs`) | the map of forks, each with base and conflict | fork, promote, drop; merge a fork onto the head, or write markers and rebase it | one task per client, the pipeline's queue |
| Safe Mode (`server.rs`, `pipeline.rs`) | the session slot, its mount, `shadowed` | session fork, resolve, apply, discard | pipeline, mounts |
| Daemon life (`server.rs`, `client.rs`, `ipc.rs`) | socket, pid file, live connections | cold start by any client, ping, Stop, idle exit | all of the above |
| Speculation (`spec.rs`, `speculate.rs`, `spec_runner.rs`) | cache of runs and summaries, run spaces, process groups | begin, finish, claim, gc, cancel | checkpoints, briefs |
| Front ends (`hook.rs`, `mcp.rs`, `main.rs`, `brief.rs`) | none | translate to requests, format | the client |
| Installer (`install.rs`) | none of its own: the hosts' configuration files | merge our entries into them, one adapter per host | the developer and other programs, which write the same files |

The parts meet in four ways. Clients send messages to the daemon, which serves
each connection in a task of its own. Those tasks send requests to the one
thread of the pipeline, which serves them in order, so that what a task does
as several requests (a promote) interleaves with others and what it does as one
(a rewind) does not. The user, the agent and build tools write the working tree
at any time, and the pipeline hears of it through a watcher whose hints are
late and can be lost. And the disk outlives the daemon: the journal, the volume
and the index are what the next daemon starts from.

What is hard to test here, with the line where each bites, is the `hazards`
list of `PROJECT.json`; by component, what makes it correct:

- Rewind: after any crash or failure the repo path names one whole tree, or
  none and a journal that says which to put there; the live copy of an excluded
  path, which no generation has, is never deleted; an edit that races the swap
  survives it.
- Pipeline: no edit is forgotten between the watcher, the checkout and the
  rows; a row that says "nothing changed" is right; nothing is overwritten that
  no row has; a tree left alone gets into a row without being asked; a failure
  does not leave the pipeline stuck.
- Promote: what a fork changed lands or is reported as a conflict; what the
  mainline changed meanwhile is not lost; markers never reach the mainline.
- Safe Mode: the pipeline is shadowed exactly while a session has the root;
  the edits of both sides of a session survive it.
- Daemon: one daemon at a time works on a store; a client that starts one ends
  up served.
- Speculation: an answer is used only for the turn it was computed for; one
  command runs at a time; a reserved key is given back; no command outlives the
  daemon and the start of the next one.
- Index and brief: a finished turn's range does not change; a brief that was
  computed ahead says what computing it now would.
- Installer: what the developer keeps in a file stays there; our entry is there
  once; a configuration is never half written.

## The modules

| Module | What it is |
|---|---|
| `AtomicRewind` | The abstract specification: what a rewind promises its caller. |
| `RewindSwap` | `execute`, `recover` and the file-system calls they make, step by step. |
| `MCRewindSwap` | Its rules for TLC: two excluded paths, siblings or nested. |
| `RewindSwapProofs` | Its theorems. |
| `Pipeline` | The request loop, drain, snapshot, rewind, restore, recovery and idle timer. |
| `MCPipeline` | Its fault sets for TLC. |
| `PipelineProofs` | Its theorems. |
| `Merge` | The three-way merge as operators: the plan's decision table, the merge of a file by hunks, what is written. |
| `Promote` | Forks and their promotion: fork, drop, promote, refuse, rebase, land. |
| `MCPromote` | Its paths, files and ignore rules for TLC. |
| `PromoteProofs` | The theorems of `Merge`, about any three trees, and of `Promote`. |
| `SafeMode` | Sessions over the repo root: open, resolve, apply, discard, and the pipeline's shadow. |
| `SafeModeProofs` | Its theorems. |
| `Daemon` | The daemon's life and its clients: cold start, socket, lock, idle exit, Stop. |
| `MCDaemon` | Its verbs for TLC. |
| `DaemonProofs` | Its theorems. |
| `Timeline` | Rows, turns and sessions of the index, and the briefs read out of them. |
| `MCTimeline` | What the index may hold when the daemon comes up, for TLC. |
| `TimelineProofs` | Its theorems. |
| `Speculate` | The scheduler of model runs, its cache, the commands it starts. |
| `MCSpeculate` | Its sessions for TLC. |
| `SpeculateProofs` | Its theorems. |
| `Install` | The installer's processes, file by file. |
| `MCInstall` | Its processes and repositories for TLC. |
| `InstallProofs` | Its theorems. |

### RewindSwap

A directory is one of four places: the repo, the stage `tmp`, the directory a
dead daemon staged (`old`: the stage's name has the pid in it, so the next
daemon knows it only through the journal) and the Windows scratch. `tree` says
which generation's files a place holds, `at` what it holds at each excluded
path (the user's live copy, something else, nothing). Every file-system call
that can be seen separately is an action: `ClearStage`, `MakeStage`,
`JournalMaterializing`, `Materialize`, `Plan`, one `Carry` per path,
`JournalSwapping`, then `Exchange` (Linux and macOS) or `ClearScratch`,
`Vacate`, `Publish`, `MoveAside` (Windows), `Park`, `ClearJournal`; the error
paths are `MaterializeFails`, `CarryFails` and `Unwind`, `ExchangeFails`;
`Restart` reads the journal and `RecoverBack`, `RecoverLand`, `RecoverDrop`,
`RecoverScratch`, `RecoverDone` are the arms of `recover`. `Crash` is enabled
everywhere, and tears a recursive removal in two. `Faults` selects which calls
may fail, which of the environment's interferences (`edit`, `recreate`) happen.

`AtomicRewind` has four variables and knows neither journal nor stage: a rewind
is asked for, the tree changes in one step to the one asked for, excluded paths
may be away until the rewind settles. `RewindSwap` implements it under the
mapping `Promise`; the one subtle line is `Shown`, which on Windows, while the
repo path is vacant, is the tree set aside.

### Pipeline

A generation is its content, a function from files to values; `disk`, `view`
(the checkout) and `rows` are made of them. A hint is on its way (`flying`) or
in the watcher's queue (`queue`); `invalid`, `orphan` and `rescan` are the
states of the watcher in which a poll does not simply return a batch. A request
sets `pc` and `req`, and each step of its handler between which the user, the
watcher or a failure can come is an action: `Prepare`, `Poll`, `Drained`, the
snapshots `SnapCheckpoint`, `SnapCounted`, `SnapSafety`, `SnapAuto`, `Commit`,
`Swap`, `Write`, `Direct`, and the recovery `Reset`, `Base`, `BaseRow`, `Tail`,
which the drain, a checkpoint, a restore and a rewind all call (`ret` says
where it returns to). `Swap` is `RewindSwap` in one step: `Implements` is why
one step is enough.

A quiesce window, which only delays the end of a drain, is left out: a poll may
return an empty batch while hints are still flying, which is the worst a window
that ran out can do. Ages are left out too: a marker is old enough or not,
nondeterministically (`AutoWaits`, `AutoGoes`).

Nothing keeps the user from editing while a baseline runs, or a request from
failing after its drain, and the code answers neither. `slips` remembers which of
these has happened, each by its cause and no longer than it matters: "raced" and
"failed" end with the next row that is recorded of the checkout. The properties
name the slips they do not survive, and hold again after them; the same properties
without the exceptions are `CaptureIsMarked`, `NoopIsTrue` and `RewindSafety`,
which the code breaks (see the findings).

### Merge and Promote

A generation is a function from paths to nodes: nothing, a directory, a link, a
file that the text gate refuses, or a text. A text is a function from hunks to
texts, which is what is left of a line diff once it has cut the three versions
into regions: a region that both sides changed differently becomes a conflict
block, here the value `Mark`. `Plan` is `merge::plan`: the paths either side
changed, visited from the top, decided as subtrees where only one side touched
them (`Decides`, the code's `decided_root`) and by the table of kinds where both
did (`Settled`, `ByContent`, `Irreconcilable`). `KeepMainline` is the exemption
of ignored paths, `Merged` and `Rebased` are the generations M and R that
`merge_onto_head` builds, `Overlay` is how both the volume's builder and the
restores write a subtree.

`Promote` keeps for each fork what `ForkState` keeps (`base`, `conflict`), its
workspace `dir`, and what a promote in flight holds: the snapshot `snap` (F), the
`head` (H), the `plan`, and the generation `goal` it restores from with the roots
`todo` it has not written yet. `pc` is where the promote is: each request it
makes of the pipeline is an action (`Promote`, `PublishHead`, then `Refuse`,
`LandNothing`, `BeginRebase` with `RebasePath` and `KeepForkRebased`, or
`BeginLanding` with `StartLanding`, `LandPath` and `Landed`), since requests of
other clients and edits come between them. `restore_paths` is one request: no
other runs while a fork is at `land`, but the user edits on. `PromoteFails`,
`Fail`, `RebaseFails` and `MergeStopped` are the error arm, which clears the
conflict. `recorded` says which nodes some row has at each path.

A fork's workspace is one tree, whether it is mounted or copied: what a promote
sees of it is the same. Left out are the mount's routes, the end of a session
and a Stop that drop forks, excluded paths (a landing of one is refused), file
modes, symbolic links above a path, and Safe Mode. The one assumption is that a
fork's agent waits for the promote it asked for.

### SafeMode

A session's fork is mounted over the repo root, so that whoever edits there
edits the session's `overlay`, and the pipeline, which looks at the root too, is
told to leave it alone (`shadowed`). An edit has a name and is made once: a tree
is the set of edits it has, which is enough to say which tree an edit reached.
The server's tasks are `SessionFork` (the check of the slot), `CutFork`,
`Mount`, `OpenFails`, `Shadow`; `Resolve`, `Unmount`, `ResolveSession` or
`ResolveFails`; `Apply`, `Refuse`, `SwapFails`, `ApplyFails`, `BaselineFails`,
`Discard`; `Stop` and `Exit`, `Restart`: one action between two awaits. `state` is
that of the pipeline: ready, or ready on a watcher that was left in its rescan
("wedged", which a resolve whose `finish_rescan` fails makes, and a refused apply
that sets Ready over a baseline that is due), or down, until `Recover`.

Each error arm is there. A resolve that fails after the mount is gone, or an apply
that fails or is refused after the pending entry is gone, costs the session's work;
that is no mishap but part of the action, and `given` remembers whose work was
given up, by a discard or by an answer that was an error. `WorkKept` is that
nothing else is lost; `ResolvedIsReachable`, that a failed resolve loses nothing
either, is what the code breaks.

`amiss` remembers mishaps by their cause, and each property says which of them it
does not survive: two sessions that race for the slot, a resolve that comes before
the shadow, one that names another session, a mount that stays, a request that
comes before the shadow, one that looks at a covered root. A session's id is not
used again while it is pending, and no rewind or restore comes while a session
covers the root.

### Daemon

Each process of the pool lives once: `Sweep`, `Bind`, `Open` or `OpenFails`,
`IdleTick` and `IdleExit` or `Leave`, `Drain`, `Exit`; or `Crash`. What the
processes share is the disk: the socket's path (with the pidfile), the store's
lock, a rewind's journal, the forks' directories. A client runs one verb at a
time (`Connect`, or `Spawn` and `Ping`, `ChildExited`, `NotWaiting`), with the
policies of `Spawn` in `client.rs`; its request is a task of the server, which
goes on when a hook has given up. One operation of each sort that the daemon's
life depends on is modelled: a checkpoint, a session's start and end, a fork, a
rewind, a Stop. The store's lock belongs to the external volume and is taken
for what `Store::open` relies on. A second daemon sweeps before it binds, and so may
undo a rewind that another has in flight: `SwapsUndisturbed` says who alone can do
that to it, and that none is spawned while the path names the one that swaps;
`JournalKept`, that nobody does, is broken. An hour of idling may be over at any time, and
the half hour after which `wait_for_socket` gives up never is.

### Timeline

The tables of the index as sequences, and each query as an operator on them:
the newest target, a session's first and last row, a turn's rows and range, the
branches a rewind abandoned. The actions are the requests that write rows
(`Record` stands for the drain and snapshot that `Pipeline` has in detail), and
those of the briefs: `SpeculateBrief` and `FinishBrief` are two steps of the
scheduler's thread with the pipeline's diffs in between, `AskBrief` is the
request. `Pasts` are indexes that a daemon may find when it comes up: any that
have the baseline of one (`PastsAssumption`).

### Speculate

The scheduler, the tasks of its runs and the writes of its cache share one
thread: an action is what that does between two awaits. `queue` holds the
events (an event that finds it full is dropped), `looking` and `inFlight` are
the run whose diff it waits for and the run it considers current, `runs` the
tasks of all the runs there were, each with its process (`leader`) and what that
started (`kin`). `Terminate` and `Kill` are the two halves of a timeout or a
cancel; `Shutdown` drops the tasks with the runtime; after `Die` only the pid
files are left, and `Restart` sweeps by them: `Sweep` takes every file, and kills
the groups whose leader it recognises by name; the `strangers` are those it does
not (`command_name_matches`), and go on with `missed`. It is assumed that an
entry's time to live outlives its run and report (with `cache_ttl_hours` zero a
row's id can be used again while an old run reports: that is the mutant of
`RightBody`), that writes of the cache succeed and that process ids are not used
again. The cap on the rows is `Trims`: whether `max_cache_rows` is so small that a
row goes while its run is under way. It is 500 by default, so `Trims` is false
but in `SpeculateTrim`.

### Install

A process runs the steps of one adapter, file by file: a configuration is read
and merged (`Read`), and replaced by way of a temporary file (`Make`, `Write`,
`Rename`, the body of `write_atomic`); a cheatsheet and the generated files are
written in place (`Truncate`, `Fill`). A file is the bag of its items: no merge
decides anything by their order, but one may be there twice. `Fail` is an error, a signal or a power
cut between any two. The developer adds items to any file, adds fields to our
server, adds a command to our entry, leaves a file unreadable. `lost` are the
files into which a merge of something else than they held was written, or the
merge of another process; `met` those whose temporary file two processes had at
once: there is no lock, and the properties are about what holds without.
That a developer takes out a server again is not modelled.

## The runs

| Run | Expected | Bounds | What it shows |
|---|---|---|---|
| `RewindCrash` | pass | 2 excluded paths, 2 generations, 2 rewinds, 2 daemon starts, both platforms | With crashes anywhere and the failures the code answers: `NeverMixed`, `LiveKept`, `HomeWhenIdle`, `JournalLeads`, and `Implements` |
| `RewindFaults` | pass | the same, all failures, edits, 1 start | `EditOutlivesItsRewind` |
| `PipelineNet` | pass | 1 file, 2 edits, 2 faults among overflow, tick, commit, write, crash | `AutoNet`, of edits that do not race a baseline |
| `PipelineFaults` | pass | 2 files, 1 edit, 2 faults of every class | `EditsTracked`, `CapturedPending`, `NoopTellsTruth`, `OverwrittenIsOnRecord`, `NeverWedged` |
| `PromoteMerge` | pass | 2 forks, 2 paths, 2 hunks, 1 edit of the tree, 2 of forks, 1 fault of any class | `MarkersStayOut`, `MarksAreOpen`, `MergeIsThreeWay`, `WorkOutlivesFork` |
| `PromoteRace` | violation | 1 fork, no fault | `OverwrittenIsOnRecord`: an edit after `publish_head` is overwritten, and no row has it |
| `SafeMode` | pass | 2 sessions, 2 edits, 1 sort of mishap | `Isolated`, `ShadowFits`, `WorkKept`, `EditsTracked`, `PublishedStays`, `CaptureReturns` |
| `Daemon` | pass | 2 daemons, an agent's client and a user's, 1 sort of mishap | `OneServes`, `Reachable`, `SwapsUndisturbed`, `SessionsServed`, `WaitEnds`, `LeavingEnds` |
| `DaemonTheft` | violation | 3 daemons, 2 clients, 1 sort of mishap | `SecondIsRefused`: the second daemon takes the path |
| `Timeline` | pass | 2 sessions, 2 turns each, 3 trees, 6 rows of which 4 are there at the start, 1 brief cached | `BriefFits`, `RunningHasMaker`, `TurnsOver` |
| `Speculate` | pass | 2 sessions, 3 turns in all, 2 runs, a queue of 1, 1 death | `OneAtATime`, `Leashed`, `RightBody`, `KeyHasHolder` |
| `Install` | pass | 2 processes, 2 repositories, 4 hosts, 3 installs, 1 edit | `TheirsKept`, `OneOfOurs`, `NeverHalf`, `RegistrationsKept` |

Bounds. Two sibling paths are the fewest that can be carried half way, and two
rewinds the fewest in which one meets what another left; a second daemon start
lets a recovery die and be recovered. Two excluded paths nested, inner first,
are the whole of `RewindNested`. In the pipeline one file and two values show
every order of an edit, its hint and its capture, since files do not influence
each other but through the request in progress; `PipelineFaults` has two files.
Two edits let one come after the capture of another, two faults let one hit the
recovery from another. The safety properties also pass with two files, two edits
and one fault of any class, and with one file, two edits and three, which take
longer than a run that is repeated should; their theorems remove the bounds. No request is bounded: a state is bounded by edits, faults and the
finite set of generations, and the counter `since` stops at `CommitEvery`.
In the promote runs a directory and a path below it are the fewest that show
every arm of the plan (a subtree of one side, a kind clash, a deletion of what
the other changed below), and files of two hunks the fewest of which one can
clash and the other merge. Two edits of forks let both change something, or one
resolve its conflict; a fork that is not promoted stands for any other.
`PromoteMerge` does not tell the forks or the hunks apart.
Two sessions are the fewest that can race for the slot, and two daemons the
fewest of which one is a second; `DaemonTheft` has a third. Two installs by one process show
what a second install does to the first, two processes what they do to each
other, and the hosts of the run are one of each way to write: a hooks file and a
cheatsheet, a registration per repository, a file that is ours or nobody's, a
line in a list. In `Speculate` two sessions of two turns give two keys, which
is one to be current and one to be late. In `Timeline` the pasts spare the run
the rows that bring a session to its second turn.
`RewindSwap` may stop, when the last daemon start of the bound has died, so its
runs do not check for deadlock, and so may `Promote`, when every fork is gone and
the edits are used up, and `SafeMode` and `Install`, when their bounds are; the
others never do, and are checked for deadlock.

Fairness. In `SafeMode` weak fairness of `Tasks`: the runtime polls a task that
can go on. In `Daemon` weak fairness of what each process does by itself
(`ClientGoesOn`, `TaskGoesOn`, `DaemonGoesOn`); nobody has to ask, stop, time
out, idle or die. Then `Pipeline` (`FairSpec`). Weak fairness of `Serving`: the thread goes
on with a request it has taken up. Weak fairness of each `Deliver`: the watcher
delivers a hint it has. Strong fairness of `AutoCheckpoint`: requests may come
at any rate, but the timer has a fixed deadline that requests do not push out
(`run`, the comment on `next_tick`), so a tick that is possible again and again
is taken. Strong fairness of `AutoGoes`: a mark that nothing renews gets older
than `auto_checkpoint_idle_ms`. Nothing is assumed of requests, edits or
failures, which are bounded.

## The findings

`PROJECT.json` lists two places where the code does not do what its own comments
say, with the runs that show them: a landing over an edit that came after the
head was captured (`PromoteRace`), and a second daemon that takes the socket
instead of being refused (`DaemonTheft`). The other configurations of this
directory each reproduce one more; TLC finds the property named in them
violated:

| Configuration (module) | Property | What the code does |
|---|---|---|
| `RewindStage` (`MCRewindSwap`) | `StageIsStale` | `rewind.rs:485-489` calls a `tmp` that is there stale by construction. After a failed exchange (`:562`) it holds the live excluded paths, and the next rewind removes it. |
| `RewindNested` (`MCRewindSwap`) | `LiveKept` | With the inner of two nested rules listed first, carrying the outer one (`rewind.rs:394`) removes the inner live copy already carried. |
| `PipelineNoop` (`MCPipeline`) | `NoopIsTrue` | `pipeline.rs:1368-1369`: "a failure above leaves the marker". A request that drained edits itself has no marker to leave, and the next checkpoint records a noop for a changed tree. |
| `PipelineRaced` (`MCPipeline`) | `CaptureIsMarked` | An edit that comes while a baseline is under way enters the checkout with the rescan's batch (`pipeline.rs:982`), after the row; no marker says so, and nothing has to fail. The comment at `:1368-1369` has the marker stay for "what was drained". |
| `PipelineRetry` (`MCPipeline`) | `TickRetries` | `pipeline.rs:1578-1580`: "the next tick retries". A tick whose recovery baseline fails leaves `state` at baselining, where every later tick returns at `:1575`. |
| `PipelineRewind` (`MCPipeline`) | `RewindSafety` | `pipeline.rs:1669`: "the pre-rewind state must itself be a checkpoint". A rewind does not recover first, so after a failed `reset_watch` its safety row is of a stale checkout. |
| `PromoteMarkers` (`MCPromote`) | `MarkersNeverLand` | A promote that fails before it has read the markers closes the conflict (`server.rs:891`), and the next one lands them; `:1497`: "never let a bug write markers anywhere". |
| `SafeModeRefusal` (`SafeMode`) | `ConflictMeansMoved` | The comment at `pipeline.rs:2189-2193` takes a head off the base for a mainline that published; a fork's base may never have been published, so an apply is refused though nothing was, after its pending entry and the checkout's captures are gone. |
| `SafeModeFailure` (`SafeMode`) | `ResolvedIsReachable` | The comment at `pipeline.rs:2146-2151`: "Unpublished checkpoint generations are fully restorable". A resolve that fails after the unmount, in the pipeline or in the server's diff, leaves neither a row nor a pending entry for what the session did. |
| `SafeModePeek` (`SafeMode`) | `MainlineFrozen` | The comment at `pipeline.rs:1319-1320`: "never drain the watcher or snapshot the mainline mid-session". `fork` and `publish_head` do not look at `shadowed`: what they capture is the session's tree. |
| `DaemonSwept` (`MCDaemon`) | `JournalKept` | A daemon spawned before another had bound runs `rewind::recover` (`server.rs:200`) before it binds or opens the store, and takes the journal of the rewind the other has in flight for one "that a crash interrupted" (`:197`). |
| `BriefDrift` (`MCTimeline`) | `DriftTold` | The drift compares the session's end with the newest target (`server.rs:2076`), which skips the rows of a rewind: after one the brief says "tree unchanged since then" (`brief.rs:99`). For the same reason `speculate.rs:252-258`, "if anything touches the tree the generation changes", does not hold of rewinds. |
| `SpeculateLeak` (`MCSpeculate`) | `NothingLeft` | A shutdown drops the task that would kill the group, and with it the pid file: the command's children outlive this daemon and the next one's sweep, `spec_runner.rs`: "killing only the direct child would leak them". |
| `SpeculateStray` (`MCSpeculate`) | `Swept` | `spec_runner.rs:355`: "Kills anything a dead daemon left running". The pid file is removed (`:375`) before the command is compared with it (`:382`): one that goes by another name is left running, and nothing can find it. |
| `SpeculateTrim` (`MCSpeculate`) | `RightBody` | `spec.rs:480-481`: "eviction is about disk, not correctness". With a cap below the rows of the runs under way, a cancelled run's row goes before its report, its id is used again, and the report is taken for the next turn's summary. |
| `SpeculateCeiling` (`MCSpeculate`) | `CeilingHard` | The runs spent are in memory: a restart forgets them; `spec.rs`: "Hard ceiling on model runs in one session". |
| `InstallJoined` (`MCInstall`) | `JoinedKept` | `is_ours` drops a whole entry when one of its commands is ours, so a developer's command added to our entry goes with the next install; `merge_hooks`: "without disturbing anything else in it". |

Met on the way and not a property of a run:

- Two installers share the temporary name that `write_atomic` makes, so that a
  rename can put another's half-written file in place; its doc says a crash can
  never leave one. A cheatsheet that is not UTF-8 is taken for an empty file
  and overwritten (`agents_md`, `unwrap_or_default`); with `"agents"` added to
  `Unreadable`, `TheirsKept` fails. Two registrations at once may choose one key.
- `main.rs:679-713` says "Newest first" and lists the oldest `limit` turns;
  `checkpoint_ref` reads a generation's prefix that is all digits as a row's id.
- `Op::Fork` leaves the forks it has attached in the table when a later one of
  the same request fails. A session that is resumed keeps its `ended_at`.
- A session's last turn is never summarised, since a summary is begun by the
  turn after it; `idle_before_spawn_ms` and `max_concurrent` are never read. The
  prompt is written to the command before its timeout is listened to.

## The proofs

All theorems are about any files, values, rules and generations, any bounds,
and behaviours of any length.

`RewindSwapProofs`, with any failure, any nesting of the rules, any platform:
`TypeCorrect`, `NeverMixedHolds` and `JournalLeadsHolds`. `NeverMixed` is not
inductive: whether the repo path may be vacant depends on where in the swap the
daemon is and on what the journal then says of the stage, so the invariant adds
what each step of `execute` and `recover` knows of the journal's phase and of
the stage's tree. Under `Benign` (no nested rules; no failure among `journal`,
`back`, `exchange`, and no `recreate`): `LiveKeptHolds`, `HomeWhenIdleHolds` and
`ImplementsHolds`. They need, for each step, where every live copy is: in the
repo, or in the stage with its rule listed in the journal, by the loop's
remaining paths `todo`. `Benign` is as weak as it can be in this code:
`RewindStage` and `RewindNested` show what happens without two of its parts, a
failing `move_back` is ignored and its directory removed, and a path that
another process recreates makes `move_back` skip the live one.
`EditOutlivesHolds` needs none of it: with every failure and interference, an edit
nobody checkpointed is only lost where its property says. Its invariant `EditInv`
says where the edit cannot be: it is in a stage only from the exchange until the
parking, or after a parking that failed, and either way the journal says
"swapping", which is what tells that stage from one that may be cleared.

`PipelineProofs`, with any fault: `TypeCorrect` and `NeverWedgedHolds`, from an
invariant `Watching` that ties `rescan` to the recovery steps and to `state`.
With every fault too, and with
edits at every step: `EditsTrackedHolds`, `CapturedPendingHolds`,
`NoopTellsTruthHolds` and `OverwrittenIsOnRecordHolds`, from one invariant
`PipelineInv`. Its parts are `Flow` (which `state` and `ret` go with which step),
`Tracked` (every file whose checkout is stale has a hint on its way or a recovery
ahead of it, while the slips leave the watcher `Whole`) and `Accounted` (a
checkout ahead of the last row is marked, or the request in progress knows it
changed something, while they leave it `Quiet`).
The constants'
assumptions are those of the modules; no theorem assumes anything of the bounds.

The first half of `PromoteProofs` is about any three trees. `PlanSets` says where
the plan puts each path; `AboveWritten` that above a path that is written the head
has a directory, and nothing else is written (`OneRoot`); hence `Pointwise`, what
the outcome holds at each path, though it is built from three overlays, and
`MergeCorrect`: without refusals the outcome is a tree, takes the one side's
version where the other changed nothing, and does so in every hunk of a text both
changed. The paths need only be ordered as directories are (`AboveAssumption`: a
chain above each path, and a topmost path in any set). `HalfStep` and `HalfFits`
say that a rebase that has written some of its roots has a tree, `LandFits` that a
landing on an edited tree leaves one.

The second half is about promotes, with any fault, any number of forks, edits and
ignore rules: `TypeCorrect`, which needs that a promote's plan is the plan of the
generations it holds (`Planned`); `MarkersOut` and `MarksOpen`, whose invariant
`MarkInv` says for each step of a promote which of its trees may have marks;
`ThreeWay`, from `MergeCorrect` and the invariant `FitInv` that every tree is one,
and that a workspace under rebase is the half written one. `MarkersOut` and
`MarksOpen` exempt promotes that were `Blind`, which is what `PromoteMarkers` is
about. `WorkOutlivesHolds`: of a fork that a promote has consumed, each thing it
changed is in some row, was merged into a text that is, or is at an ignored path.
It follows from `Pointwise`, from `FitInv`, and from the invariant `RecordInv`,
that the captured head, and the generation a landing restores from, are on record
all along.

`SafeModeProofs`, for any sessions and edits: `TypeCorrect`, `PublishedStaysHolds`,
`ShadowFitsHolds`, `EditsTrackedHolds`, `IsolatedHolds`, `WorkKeptHolds`, with
every step free to fail. The slot, the mount, the shadow and the steps of opening and closing move one after
the other; the invariant says which combinations there are while no mishap of
the property's list has happened, and that what a session did beyond its base is
in its overlay alone.

`DaemonProofs`, for any daemons, clients and verbs: `TypeCorrect`; `OneServesHolds`
from the lemma that who serves holds the lock, with no mishap excluded;
`ReachableHolds` from `Alone`: unless a daemon was started beside another, one
process lives and the path names it; `SwapsUndisturbedHolds`, of any number of
daemons, from `Sole` (until a daemon was spawned beside another, or one lost the
path, no second one has yet to sweep) and `Undisturbed` (a rewind in flight wrote
the journal, and the lock keeps any other rewind out); `SessionsServedHolds` that a session that was told it
started is in a living daemon's table.

`SpeculateProofs`, for any sessions, ceiling, depth of the queue and bounds:
`OneAtATimeHolds` and `KeyHasHolderHolds` from the invariant `Scheduled`, and
under `~ Trims` `RightBodyHolds` and `LeashedHolds` from `IInv`, which adds four
parts to it. Its heart is `Once` (an event of a
turn comes once and until then nothing is known of its key), from which `Rows` (a
row's id is not used again while a run for it is about) and `Apart` (a key has one
run). That a new id is above the others needs a largest one to exist: `LargestIs`,
from the well-foundedness of the numbers.

`TimelineProofs`, for any sessions, trees and pasts: `TypeCorrect`;
`RunningHasMakerHolds`; `TurnsOverHolds`, that a finished turn's range does not
change, from what every step does to the index: rows are only added, at the end
and of their session's current turn (`RowsGrow`), so that what a query finds among
the old rows stays (`IdsGrow`). `BriefFitsHolds`: a brief that was computed ahead
and stored under the key of its session and tree, before other rows came, says
what computing it at the request would, though rows come between the two. The
invariant `BriefInv` keeps of a stored brief what survives new rows (`Fits`: what
it says of the rows there were is true, and what only grows has not shrunk), and
`EndStays` makes up the difference: as long as no tree has come back, a key that
still matches means that the session has no row which the brief does not know.

`InstallProofs`, for any processes, repositories, hosts and edits: `TypeCorrect`,
`NeverHalfHolds`, `OneOfOursHolds`, `RegistrationsKeptHolds`, `TheirsKeptHolds`.
The lemmas `HooksMerge`, `RegisterMerge` and `LineMerge` say what each merge does
to any bag: one entry of ours in the result, and of the others' none less. The
invariant says of a process at each step what its file, its temporary file and its
merge have to do with each other, for the files that are not in `lost` or `met`:
the temporary file is its own (`Owner`, `Alone`), the merge keeps what was read
(`Faithful`), and a key that was chosen is free in what it was chosen from
(`KeyFree`). `TheirsKeptHolds` is under `Legible`: nobody leaves the cheatsheet in
a form that cannot be read, since that one is taken for an empty file.

Only model-checked: `AutoNet`, `CaptureReturns`, `WaitEnds` and `LeavingEnds`,
which are liveness under fairness, out of this prover's reach, and the violations.
Every invariant and action property of a passing run is proved. No induction over
data is needed by what is stated.

## What is not modelled

Within the components above: `prune_trash` (deletes trash by age), the trash's
names, power loss (as opposed to the death of the process), the published flags
of rows, by which nothing is decided, the exclusion filter on hints, labels, the
Windows build of the daemon and of the runner, and what the sections on the
modules leave out. A rewind or a restore while a session covers the root is
neither in `SafeMode` nor in `Pipeline`.

Not modelled at all, since they keep no state of their own and have no order to
get wrong: parsing and matching of the guard's and the exclusions' rules, the
command line, the MCP front end, diffs, names and product strings, the protocol's
types, packaging and the qualification harness. The line diff that finds the
hunks of a merge is the external `diffy`.

What would come next: an abstract `ForkMerge` as a refinement target of
`Promote`; the composition of `Daemon` with
`RewindSwap`, whose `Restart` is here always a daemon that is alone; exclusion
and guard matching as operators against reference definitions.
