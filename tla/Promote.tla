------------------------------ MODULE Promote -------------------------------
(***************************************************************************)
(* Forks and their promotion onto the mainline: the Fork, ForkDrop and     *)
(* Promote operations of crates/acyclic/src/server.rs.                     *)
(*                                                                         *)
(* A fork is a workspace of its own, cut at a generation of the working    *)
(* tree.  Promoting it merges what its agent did onto the tree as it is by *)
(* then.  The daemon serves every client in a task of its own: promotes of *)
(* different forks interleave, between the requests each makes of the      *)
(* pipeline, with one another and with the user's edits; only the writing  *)
(* of a landing is one request.  A fork under promotion is out of the      *)
(* daemon's table, so nothing else finds it.                               *)
(*                                                                         *)
(* A fork's agent waits for the promote it asked for: it does not edit the *)
(* workspace while it is in flight.                                        *)
(*                                                                         *)
(* Operators that describe a fault the code does not have stand before the *)
(* definition they would replace.                                          *)
(***************************************************************************)
EXTENDS Merge

CONSTANTS
  Forks,      \* the ids that fork workspaces get
  Written,    \* what the user and the agents put at each path
  Ignores,    \* the sets of paths that .gitignore may cover
  Faults,     \* what can go wrong, a subset of FaultClasses
  MaxEdits,   \* bound: edits of the working tree after the start
  MaxWork,    \* bound: edits of fork workspaces
  MaxFaults   \* bound: the faults

FaultClasses ==
  { "early",   \* reading the workspace or its markers fails
    "late",    \* capturing the head, planning, building or recording fails
    "rebase",  \* writing the rebased fork fails
    "land" }   \* writing a landing path, or capturing what was written, fails

ASSUME FaultsAssumption == Faults \subseteq FaultClasses
ASSUME WrittenAssumption == Written \in [Paths -> SUBSET {n \in Nodes : ~ Marked(n)}]
ASSUME IgnoresAssumption == Ignores \subseteq SUBSET Paths
ASSUME BoundsAssumption == MaxEdits \in Nat /\ MaxWork \in Nat /\ MaxFaults \in Nat

VARIABLES
  disk,      \* the working tree
  recorded,  \* the nodes that some row of the timeline holds at each path
  pc,        \* the step each fork is at
  base,      \* `base`: the generation a promote is judged against
  dir,       \* the fork's workspace
  conflict,  \* `conflict`: the paths of the open conflict, {} when there is none
  snap,      \* F, the snapshot a promote in flight works with
  head,      \* H, the head it captured
  goal,      \* the generation it restores from: F or M when it lands, R when it rebases
  todo,      \* the subtree roots it has yet to write
  plan,      \* its plan
  edits,     \* edits of the working tree left
  work,      \* edits of workspaces left
  faults,    \* faults left
  struck     \* the classes of the faults so far

mainline == <<disk, recorded>>
fork == <<base, dir, conflict>>
flight == <<snap, head, goal, todo, plan>>
bounds == <<edits, work, faults, struck>>
vars == <<mainline, pc, fork, flight, bounds>>

Steps == {"unused", "kept", "head", "plan", "rebase", "queued", "land", "gone"}
\* The tree after edits of some of its paths.
Edited(t) == {u \in Trees : WellFormed(u) /\ \A p \in Paths : u[p] \in Written[p] \cup {t[p]}}

Unmarked == {t \in Trees : WellFormed(t) /\ \A p \in Paths : t[p] \in Written[p]}

Init ==
  /\ disk \in Unmarked /\ recorded = [p \in Paths |-> {}]
  /\ pc = [f \in Forks |-> "unused"]
  /\ base = [f \in Forks |-> Empty] /\ dir = [f \in Forks |-> Empty]
  /\ conflict = [f \in Forks |-> {}]
  /\ snap = [f \in Forks |-> Empty] /\ head = [f \in Forks |-> Empty]
  /\ goal = [f \in Forks |-> Empty] /\ todo = [f \in Forks |-> {}]
  /\ plan = [f \in Forks |-> NoPlan]
  /\ edits = MaxEdits /\ work = MaxWork /\ faults = MaxFaults /\ struck = {}

-----------------------------------------------------------------------------

Record(trees) == recorded' = [p \in Paths |-> recorded[p] \cup {t[p] : t \in trees}]

Goto(f, step) == pc' = [pc EXCEPT ![f] = step]

\* The pipeline serves one request at a time, and a landing is one request.
PipelineFree == \A f \in Forks : pc[f] # "land"

Hits(class) ==
  /\ class \in Faults /\ faults > 0
  /\ faults' = faults - 1 /\ struck' = struck \cup {class}

\* The promote is over, and the daemon keeps nothing of it.
Over(f) ==
  /\ snap' = [snap EXCEPT ![f] = Empty] /\ head' = [head EXCEPT ![f] = Empty]
  /\ goal' = [goal EXCEPT ![f] = Empty] /\ todo' = [todo EXCEPT ![f] = {}]
  /\ plan' = [plan EXCEPT ![f] = NoPlan]

\* discard_fork_workspace.
Discard(f) ==
  /\ Goto(f, "gone")
  /\ base' = [base EXCEPT ![f] = Empty] /\ dir' = [dir EXCEPT ![f] = Empty]
  /\ conflict' = [conflict EXCEPT ![f] = {}]

\* The promote answers an error: the fork is kept, and a conflict that was
\* resolved is closed.
KeepFork(f) ==
  /\ Goto(f, "kept") /\ conflict' = [conflict EXCEPT ![f] = {}]
  /\ UNCHANGED <<base, dir>>

-----------------------------------------------------------------------------
(* The user, the agents, and the operations on forks that are at rest *)

Edit ==
  /\ edits > 0 /\ edits' = edits - 1
  /\ disk' \in Edited(disk) \ {disk}
  /\ UNCHANGED <<recorded, pc, fork, flight, work, faults, struck>>

Work(f) ==
  /\ pc[f] = "kept" /\ work > 0 /\ work' = work - 1
  /\ dir' \in {[dir EXCEPT ![f] = u] : u \in Edited(dir[f]) \ {dir[f]}}
  /\ UNCHANGED <<mainline, pc, base, conflict, flight, edits, faults, struck>>

\* Op::Fork: the tree is captured and recorded as the fork's base.
Fork(f) ==
  /\ pc[f] = "unused" /\ PipelineFree
  /\ Record({disk}) /\ Goto(f, "kept")
  /\ base' = [base EXCEPT ![f] = disk] /\ dir' = [dir EXCEPT ![f] = disk]
  /\ UNCHANGED <<disk, conflict, flight, bounds>>

\* Op::ForkDrop
ForkDrop(f) ==
  /\ pc[f] = "kept" /\ Discard(f)
  /\ UNCHANGED <<mainline, flight, bounds>>

-----------------------------------------------------------------------------
(* Op::Promote *)

MarkersLeft(f) == \E p \in conflict[f] : Marked(dir[f][p])

\* The workspace is read, and an open conflict must have been resolved.  (It is also
\* refused, without any change, when nothing at all was written since.)
PromoteUnchecked(f) ==
  /\ pc[f] = "kept" /\ PipelineFree
  /\ snap' = [snap EXCEPT ![f] = dir[f]] /\ Goto(f, "head")
  /\ UNCHANGED <<mainline, fork, head, goal, todo, plan, bounds>>
Promote(f) ==
  /\ pc[f] = "kept" /\ PipelineFree /\ ~ MarkersLeft(f)
  /\ snap' = [snap EXCEPT ![f] = dir[f]] /\ Goto(f, "head")
  /\ UNCHANGED <<mainline, fork, head, goal, todo, plan, bounds>>

\* Capturing the workspace, or reading the conflicted paths, fails.
PromoteFails(f) ==
  /\ pc[f] = "kept" /\ PipelineFree /\ conflict[f] # {} /\ Hits("early")
  /\ KeepFork(f)
  /\ UNCHANGED <<mainline, flight, edits, work>>

\* publish_head, and the plan against it, which nothing that happens later
\* changes.  The ignore rules are read anew by every promote.
PublishHead(f, ignored) ==
  /\ pc[f] = "head" /\ PipelineFree
  /\ Record({disk}) /\ head' = [head EXCEPT ![f] = disk] /\ Goto(f, "plan")
  /\ plan' = [plan EXCEPT ![f] = KeepMainline(Plan(base[f], disk, snap[f]), ignored)]
  /\ UNCHANGED <<disk, fork, snap, goal, todo, bounds>>

\* Refusals, or a conflict with a mainline that did not move: an error.
Refused(f) ==
  plan[f].refused # {} \/ (head[f] = base[f] /\ plan[f].conflicted # {})
Refuse(f) ==
  /\ pc[f] = "plan" /\ Refused(f)
  /\ KeepFork(f) /\ Over(f)
  /\ UNCHANGED <<mainline, bounds>>

\* Nothing was written, or nothing of it lands: the fork is consumed.
LandNothing(f) ==
  /\ pc[f] = "plan" /\ ~ Refused(f) /\ LandsNothing(plan[f])
  /\ Discard(f) /\ Over(f)
  /\ UNCHANGED <<mainline, bounds>>

\* publish_head, the plan, a build or a row fails.
FailForgetting(f) ==
  /\ pc[f] \in {"head", "plan"} /\ PipelineFree /\ Hits("late")
  /\ Discard(f) /\ Over(f)
  /\ UNCHANGED <<mainline, edits, work>>
Fail(f) ==
  /\ pc[f] \in {"head", "plan"} /\ PipelineFree /\ Hits("late")
  /\ KeepFork(f) /\ Over(f)
  /\ UNCHANGED <<mainline, edits, work>>

\* R is built and recorded.
BeginRebase(f) ==
  LET R == Rebased(base[f], head[f], snap[f], plan[f]) IN
  /\ pc[f] = "plan" /\ PipelineFree /\ ~ Refused(f) /\ plan[f].conflicted # {}
  /\ Record({R}) /\ Goto(f, "rebase")
  /\ goal' = [goal EXCEPT ![f] = R] /\ todo' = [todo EXCEPT ![f] = Roots(snap[f], R)]
  /\ UNCHANGED <<disk, fork, snap, head, plan, bounds>>

\* The landing's source is recorded, and the head as the row before it.
BeginLanding(f) ==
  LET M == Merged(base[f], head[f], snap[f], plan[f]) IN
  /\ pc[f] = "plan" /\ PipelineFree /\ ~ Refused(f)
  /\ plan[f].conflicted = {} /\ ~ LandsNothing(plan[f])
  /\ Record({M, head[f]}) /\ Goto(f, "queued")
  /\ goal' = [goal EXCEPT ![f] = M] /\ todo' = [todo EXCEPT ![f] = Landing(plan[f])]
  /\ UNCHANGED <<disk, fork, snap, head, plan, bounds>>

-----------------------------------------------------------------------------
(* A conflict: the fork is rebased *)

\* restore_path_into and materialize_paths: `root` is replaced wholesale.  The roots
\* do not nest, so that their order makes no difference to what is written.
RebasePath(f, root) ==
  /\ pc[f] = "rebase" /\ root \in todo[f] /\ PipelineFree
  /\ dir' = [dir EXCEPT ![f] = Overlay(@, {root}, goal[f])]
  /\ todo' = [todo EXCEPT ![f] = @ \ {root}]
  /\ UNCHANGED <<mainline, pc, base, conflict, snap, head, goal, plan, bounds>>

RebaseFails(f) ==
  /\ pc[f] = "rebase" /\ Hits("rebase") /\ PipelineFree
  /\ KeepFork(f) /\ Over(f)
  /\ UNCHANGED <<mainline, edits, work>>

\* Landed::Conflicted: nothing landed, and the fork is judged against the head
\* it now sits on.
KeepForkRebasedClosed(f) ==
  /\ pc[f] = "rebase" /\ todo[f] = {}
  /\ Goto(f, "kept") /\ base' = [base EXCEPT ![f] = head[f]]
  /\ Over(f)
  /\ UNCHANGED <<mainline, dir, conflict, bounds>>
KeepForkRebased(f) ==
  /\ pc[f] = "rebase" /\ todo[f] = {}
  /\ Goto(f, "kept") /\ base' = [base EXCEPT ![f] = head[f]]
  /\ conflict' = [conflict EXCEPT ![f] = plan[f].conflicted]
  /\ Over(f)
  /\ UNCHANGED <<mainline, dir, bounds>>

-----------------------------------------------------------------------------
(* A landing: restore_paths, without a safety row *)

StartLanding(f) ==
  /\ pc[f] = "queued" /\ PipelineFree /\ Goto(f, "land")
  /\ UNCHANGED <<mainline, fork, flight, bounds>>

\* rewind::restore_path fails when there is nothing to write and nothing to
\* remove, and when something other than a directory is where one must be.
CanRestore(t, root, from) ==
  IF from[root] = Absent THEN t[root] # Absent
  ELSE \A a \in Above[root] : t[a] \in {Absent, Dir}

LandPath(f, root) ==
  /\ pc[f] = "land" /\ root \in todo[f] /\ CanRestore(disk, root, goal[f])
  /\ disk' = Overlay(disk, {root}, goal[f])
  /\ todo' = [todo EXCEPT ![f] = @ \ {root}]
  /\ UNCHANGED <<recorded, pc, fork, snap, head, goal, plan, bounds>>

\* "merge stopped": the paths written so far stay.
MergeStopped(f) ==
  /\ pc[f] = "land"
  /\ \/ (\E root \in todo[f] : ~ CanRestore(disk, root, goal[f])) /\ UNCHANGED <<faults, struck>>
     \/ Hits("land")
  /\ KeepFork(f) /\ Over(f)
  /\ UNCHANGED <<mainline, edits, work>>

\* The row after: of the written paths alone when each is a file or a link,
\* else of whatever the watcher has seen.
Landed(f) ==
  LET written == Landing(plan[f])
      leaves == \A p \in written : Kind(disk[p]) \in {"file", "link"}
      seen == {p \in Paths : \E r \in written : p \in Under(r)}
  IN
  /\ pc[f] = "land" /\ todo[f] = {}
  /\ recorded' = [p \in Paths |-> IF leaves /\ p \notin seen THEN recorded[p]
                                  ELSE recorded[p] \cup {disk[p]}]
  /\ Discard(f) /\ Over(f)
  /\ UNCHANGED <<disk, bounds>>

-----------------------------------------------------------------------------

ForkStep(f) ==
  \/ Work(f) \/ Fork(f) \/ ForkDrop(f)
  \/ Promote(f) \/ PromoteFails(f) \/ (\E ignored \in Ignores : PublishHead(f, ignored))
  \/ Refuse(f) \/ LandNothing(f) \/ Fail(f) \/ BeginRebase(f) \/ BeginLanding(f)
  \/ (\E root \in Paths : RebasePath(f, root)) \/ RebaseFails(f) \/ KeepForkRebased(f)
  \/ StartLanding(f) \/ (\E root \in Paths : LandPath(f, root)) \/ MergeStopped(f)
  \/ Landed(f)

Next == Edit \/ \E f \in Forks : ForkStep(f)

Spec == Init /\ [][Next]_vars

-----------------------------------------------------------------------------
(* Properties *)

TypeOK ==
  /\ disk \in Trees /\ recorded \in [Paths -> SUBSET Nodes]
  /\ pc \in [Forks -> Steps]
  /\ base \in [Forks -> Trees] /\ dir \in [Forks -> Trees]
  /\ conflict \in [Forks -> SUBSET Paths]
  /\ snap \in [Forks -> Trees] /\ head \in [Forks -> Trees] /\ goal \in [Forks -> Trees]
  /\ todo \in [Forks -> SUBSET Paths]
  /\ plan \in [Forks -> Plans]
  /\ edits \in 0..MaxEdits /\ work \in 0..MaxWork /\ faults \in 0..MaxFaults
  /\ struck \subseteq Faults

\* A promote that failed before it had seen the markers, or amid writing them.
Blind == struck \cap {"early", "rebase"} # {}

\* Unless a promote was blind, none puts a generated conflict block into the
\* working tree, whatever was refused, failed and tried again before
\* (refuse_unresolved_markers, and the landing of M rather than R).
MarkersStayOut == Blind \/ \A p \in Paths : ~ Marked(disk[p])

\* Unless a promote was blind, what a fork at rest still holds of a conflict
\* block its open conflict names, so that the next promote looks there.
MarksAreOpen ==
  Blind \/ \A f \in Forks :
    pc[f] = "kept" => {p \in Paths : Marked(dir[f][p])} \subseteq conflict[f]

\* A fork's markers never reach the working tree: `conflict` is "set by a
\* conflicting promote until the markers are gone".
MarkersNeverLand == \A p \in Paths : ~ Marked(disk[p])

\* What f's promote makes of the head: the head with the landing's paths
\* restored, or the generation the fork is rebased to.
Result(f) ==
  IF pc[f] = "rebase" THEN goal[f] ELSE Overlay(head[f], Landing(plan[f]), goal[f])

\* A merge is one by the laws of IsMerge; an ignored path that was contested keeps
\* the mainline's version.  The landing restores only some roots, and from F itself
\* if it can (merge::plan, keep_mainline_for and merge_onto_head).
MergeIsThreeWay ==
  \A f \in Forks : pc[f] \in {"rebase", "queued", "land"} =>
    IsMerge(base[f], head[f], snap[f], plan[f].kept, Result(f))

\* A promote consumes a workspace only when what it changed is on record, is
\* merged into a file that is, or is ignored (a failed landing keeps the fork,
\* and Landed::Nothing has nothing the mainline does not).
WorkOutlivesFork ==
  [][\A f \in Forks : pc[f] \notin {"kept", "gone"} /\ pc'[f] = "gone" =>
       \A p \in Paths :
         \/ snap[f][p] \in {base[f][p], Absent} \cup recorded'[p]
         \/ p \in plan[f].merged \/ \E i \in UNION Ignores : p \in Under(i)]_vars

\* A landing overwrites only files that some row has ("publish_head captured the
\* tree just now, so no safety row either").
OverwrittenIsOnRecord ==
  \A f \in Forks : pc[f] = "land" =>
    \A root \in todo[f] : CanRestore(disk, root, goal[f]) =>
      \A p \in Under(root) : disk[p] \in recorded[p] \cup {Absent, Dir}

=============================================================================
