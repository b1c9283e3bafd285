------------------------------ MODULE SafeMode ------------------------------
(***************************************************************************)
(* Safe Mode: an agent's session works in a fork that is mounted over the  *)
(* real repo root, and what it did reaches the real tree only when the     *)
(* session is resolved and applied.  The daemon (crates/acyclic/src/       *)
(* server.rs) keeps the one session's slot and its mount, and serves each  *)
(* client in a task of its own; the pipeline (crates/acyclic-engine/src/   *)
(* pipeline.rs) serves their requests one at a time and is told to leave   *)
(* the tree alone, `shadowed`, while a session covers it.                  *)
(*                                                                         *)
(* An edit is remembered by its name and made once, so a tree is the set   *)
(* of the edits it has.  `amiss` remembers the mishaps so far, each by what *)
(* caused it, so that each property says which it does not survive.  The   *)
(* operations fail where the code lets them; what a failure costs is no    *)
(* mishap but part of the action.  Operators that describe a fault the code*)
(* does not have stand before the definition they would replace.           *)
(***************************************************************************)
EXTENDS Integers, FiniteSets

CONSTANTS
  Sessions,   \* the ids of Safe Mode sessions
  Edits,      \* the edits the user and the agents can make
  Nobody,     \* no session
  MaxMishaps  \* bound: the kinds of mishap in one behaviour, "deaf" aside

ASSUME SessionsAssumption == Nobody \notin Sessions
ASSUME MaxMishapsAssumption == MaxMishaps \in Nat

Mishaps ==
  { "race",     \* a session opens while another opens or is being resolved
    "early",    \* a resolve came before the pipeline was told of the shadow
    "window",   \* a request came between a mount and the shadow
    "peek",     \* a request that does not look at `shadowed` came under a mount
    "stray",    \* a resolve named another session than the one in the slot
    "unmount",  \* the mount did not go away
    "deaf",     \* a fresh watcher replaced one that had hints, or stood in for
                \* the baseline that the pipeline owed
    "unseen",   \* an apply replaced a tree that no row has
    "refused",  \* an apply found the head elsewhere
    "stop" }    \* the daemon stopped or died

Trees == SUBSET Edits

VARIABLES
  disk,      \* the real tree
  hints,     \* its edits that the watcher has yet to hand over
  view,      \* what the pipeline's checkout holds
  head,      \* the published generation
  recorded,  \* the edits that some row of the index has
  state,     \* `state` is Ready; Ready on a watcher left in its rescan; not Ready
  shadowed,  \* `shadowed`: mainline capture is suspended
  phase,     \* the daemon is up, stopping, or down
  slot,      \* `dry_session`
  mounts,    \* the sessions whose mount covers the repo root
  opening,   \* where the task that opens a session is
  closing,   \* where the task that resolves it is
  base,      \* the generation a session's fork was cut at
  overlay,   \* what its fork holds
  pending,   \* `pending`: sessions resolved and neither applied nor discarded
  made,      \* the edits made so far
  given,     \* the edits of sessions given up: their client asked for it, or
             \* was answered an error
  amiss      \* the mishaps so far

pipeline == <<hints, view, head, recorded, state, shadowed>>
server == <<phase, slot, mounts, opening, closing, pending>>
forks == <<base, overlay>>
history == <<made, given>>
vars == <<disk, pipeline, server, forks, history, amiss>>

Init ==
  /\ disk = {} /\ hints = {} /\ view = {} /\ head = {} /\ recorded = {}
  /\ state = "ready" /\ shadowed = FALSE /\ phase = "up"
  /\ slot = Nobody /\ mounts = {}
  /\ opening = [s \in Sessions |-> "none"] /\ closing = [s \in Sessions |-> "none"]
  /\ base = [s \in Sessions |-> {}] /\ overlay = [s \in Sessions |-> {}]
  /\ pending = {} /\ made = {} /\ given = {}
  /\ amiss = {}

Suffers(mishaps) ==
  /\ amiss' = amiss \cup mishaps
  /\ amiss' # amiss => Cardinality(amiss' \ {"deaf"}) <= MaxMishaps

\* A session's own changes: what its overlay has beyond its base.
Own(s) == overlay[s] \ base[s]

\* A fork that nothing holds on to is gone.
Forget(gone) ==
  /\ base' = [s \in Sessions |-> IF s \in gone THEN {} ELSE base[s]]
  /\ overlay' = [s \in Sessions |-> IF s \in gone THEN {} ELSE overlay[s]]

\* Sessions whose fork the server holds on to.
Held == {slot} \cup pending \cup {s \in Sessions : closing[s] # "none"}

-----------------------------------------------------------------------------
(* The pipeline's requests *)

\* drain_watcher: the edits hinted at are read through the repo root, where a
\* mount, if there is one, shows its overlay instead, and may itself be what the
\* hints are about.
Drained(v) ==
  IF mounts = {} THEN v = view \cup hints
  ELSE \E s \in mounts : \/ v = view \cup (hints \cap overlay[s])
                         \/ v = view \cup overlay[s]

\* What a baseline can capture at the repo root when `tree` is the real one.
Baselined(tree) == IF mounts = {} THEN {tree} ELSE {overlay[s] : s \in mounts}

\* A request that looks at the tree without a look at `shadowed`.
PeekIfCovered == IF mounts = {} THEN {} ELSE {"peek"}

\* A request before set_shadowed has reached the pipeline.
WindowIfOpen ==
  IF \E s \in Sessions : opening[s] = "mounted" THEN {"window"} ELSE {}

\* A row of what was captured; recording it can fail.
Row(v) == recorded' \in {recorded, recorded \cup v}

\* commit_engine.
Publishes(v) == head' = v

\* A checkpoint that does not look at `shadowed`.
CheckpointRegardless ==
  /\ phase # "down" /\ state = "ready"
  /\ \E v \in Trees : Drained(v) /\ view' = v /\ Row(v)
  /\ hints' = {}
  /\ Suffers(WindowIfOpen)
  /\ UNCHANGED <<disk, head, state, shadowed, server, forks, history>>

\* A checkpoint that empties the watcher's queue before it looks at `shadowed`.
CheckpointDrops ==
  /\ phase # "down" /\ state = "ready"
  /\ IF shadowed THEN UNCHANGED <<view, recorded>>
     ELSE \E v \in Trees : Drained(v) /\ view' = v /\ Row(v)
  /\ hints' = {}
  /\ Suffers(IF shadowed THEN {} ELSE WindowIfOpen)
  /\ UNCHANGED <<disk, head, state, shadowed, server, forks, history>>

\* A hook's checkpoint or the idle timer's: a noop while a session covers the
\* root.
Checkpoint ==
  /\ phase # "down" /\ state = "ready"
  /\ ~ shadowed
  /\ \E v \in Trees : Drained(v) /\ view' = v /\ Row(v)
  /\ hints' = {}
  /\ Suffers(WindowIfOpen)
  /\ UNCHANGED <<disk, head, state, shadowed, server, forks, history>>

\* A request finds the pipeline out of Ready, and first takes a recovery baseline
\* on a fresh watcher.  Under `shadowed` a checkpoint is a noop before it looks at
\* the state, and a restore is an error.
Recover ==
  /\ phase # "down" /\ state = "down" /\ ~ shadowed
  /\ view' \in Baselined(disk)
  /\ recorded' = recorded \cup view'
  /\ hints' = {} /\ state' = "ready"
  /\ Publishes(view')
  /\ Suffers(WindowIfOpen)
  /\ UNCHANGED <<disk, shadowed, server, base, overlay, history>>

\* fork and publish_head drain without a look at `shadowed`.
Cut ==
  /\ phase # "down" /\ state = "ready"
  /\ \E v \in Trees : Drained(v) /\ view' = v /\ Row(v)
  /\ hints' = {}
  /\ Suffers(PeekIfCovered)
  /\ UNCHANGED <<disk, head, state, shadowed, server, forks, history>>

\* commit_engine on its own: a Commit, the idle commit, or a session that starts
\* or ends.
Commit ==
  /\ phase # "down" /\ view # head
  /\ Publishes(view)
  /\ UNCHANGED <<disk, hints, view, recorded, state, shadowed, server, base, overlay, history,
                 amiss>>

-----------------------------------------------------------------------------
(* Edits *)

\* Whoever writes under the repo root writes to a mount that covers it.
Edit(e) ==
  /\ e \notin made
  /\ made' = made \cup {e}
  /\ \/ /\ mounts = {}
        /\ disk' = disk \cup {e}
        /\ hints' = hints \cup {e}
        /\ UNCHANGED overlay
     \/ \E s \in mounts :
          /\ phase # "down"
          /\ overlay' = [overlay EXCEPT ![s] = @ \cup {e}]
          /\ UNCHANGED <<disk, hints>>
  /\ UNCHANGED <<view, head, recorded, state, shadowed, server, base, given, amiss>>

-----------------------------------------------------------------------------
(* session_fork *)

\* The check of the slot.  The lock is not held beyond it.
SessionFork(s) ==
  /\ phase # "down" /\ opening[s] = "none" /\ closing[s] = "none" /\ s \notin pending
  /\ slot = Nobody
  /\ opening' = [opening EXCEPT ![s] = "checked"]
  /\ UNCHANGED <<disk, pipeline, phase, slot, mounts, closing, pending, forks, history, amiss>>

\* The pipeline's fork: a row for the tree as it is, and a checkout cut at it,
\* published or not.
CutFork(s) ==
  /\ phase # "down" /\ opening[s] = "checked" /\ state = "ready"
  /\ \E v \in Trees : /\ Drained(v) /\ view' = v /\ recorded' = recorded \cup v
                      /\ base' = [base EXCEPT ![s] = v]
                      /\ overlay' = [overlay EXCEPT ![s] = v]
  /\ hints' = {}
  /\ opening' = [opening EXCEPT ![s] = "cut"]
  /\ Suffers(PeekIfCovered)
  /\ UNCHANGED <<disk, head, state, shadowed, phase, slot, mounts, closing, pending, history>>

\* The mount is made and the slot filled; a session that is there is dropped,
\* with its mount or without.
Mount(s) ==
  /\ phase # "down" /\ opening[s] = "cut"
  /\ mounts' \in {mounts \cup {s}, (mounts \ {slot}) \cup {s}}
  /\ slot' = s
  /\ opening' = [opening EXCEPT ![s] = "mounted"]
  /\ Suffers(IF slot = Nobody /\ mounts = {} /\ \A t \in Sessions : closing[t] = "none"
               THEN {} ELSE {"race"})
  /\ Forget({slot} \ mounts')
  /\ UNCHANGED <<disk, pipeline, phase, closing, pending, history>>

\* The pipeline's fork fails, which may have drained by then, or the host cannot
\* mount, and the fork is gone.
OpenFails(s) ==
  /\ phase # "down" /\ opening[s] \in {"checked", "cut"}
  /\ opening' = [opening EXCEPT ![s] = "none"]
  /\ Forget({s})
  /\ \/ UNCHANGED <<hints, view, recorded, amiss>>
     \/ /\ opening[s] = "checked" /\ state = "ready"
        /\ \E v \in Trees : Drained(v) /\ view' = v /\ Row(v)
        /\ hints' = {}
        /\ Suffers(PeekIfCovered)
  /\ UNCHANGED <<disk, head, state, shadowed, phase, slot, mounts, closing, pending, history>>

\* set_shadowed(true), a request like any other.
Shadow(s) ==
  /\ phase # "down" /\ opening[s] = "mounted"
  /\ shadowed' = TRUE
  /\ opening' = [opening EXCEPT ![s] = "none"]
  /\ Suffers(IF slot = s THEN {} ELSE {"early"})
  /\ UNCHANGED <<disk, hints, view, head, recorded, state, phase, slot, mounts, closing, pending,
                 forks, history>>

-----------------------------------------------------------------------------
(* SessionResolve *)

\* The session is taken out of the slot.
Resolve(s) ==
  /\ phase # "down" /\ slot = s
  /\ slot' = Nobody
  /\ closing' = [closing EXCEPT ![s] = "taken"]
  /\ Suffers(IF opening[s] = "mounted" THEN {"early"} ELSE {})
  /\ UNCHANGED <<disk, pipeline, phase, mounts, opening, pending, forks, history>>

\* The slot is emptied before its session's id is looked at: a client that names
\* another session drops the one that is there, with its mount or without.
ResolveStray ==
  /\ phase # "down" /\ slot # Nobody
  /\ mounts' \in {mounts, mounts \ {slot}}
  /\ slot' = Nobody
  /\ Forget({slot} \ mounts')
  /\ Suffers({"stray"})
  /\ UNCHANGED <<disk, pipeline, phase, opening, closing, pending, history>>

Unmount(s) ==
  /\ phase # "down" /\ closing[s] = "taken"
  /\ \/ /\ mounts' = mounts \ {s}
        /\ closing' = [closing EXCEPT ![s] = "bare"]
        /\ UNCHANGED <<base, overlay, given, amiss>>
     \/ /\ mounts' \in {mounts, mounts \ {s}}
        /\ closing' = [closing EXCEPT ![s] = "none"]
        /\ given' = IF s \in mounts' THEN given ELSE given \cup Own(s)
        /\ Forget({s} \ mounts')
        /\ Suffers({"unmount"})
  /\ UNCHANGED <<disk, pipeline, phase, slot, opening, pending, made>>

\* What the old watcher had is gone with it.
Deafens ==
  amiss' = amiss \cup (IF hints \subseteq hints' /\ (state = "down" => state' = "down")
                         THEN {} ELSE {"deaf"})

\* resolve_session that keeps the queue of the watcher and the shadow.
ResolveSessionShadowed(s) ==
  /\ phase # "down" /\ closing[s] = "bare"
  /\ recorded' = recorded \cup view
  /\ closing' = [closing EXCEPT ![s] = "none"]
  /\ pending' = IF Own(s) = {} THEN pending ELSE pending \cup {s}
  /\ UNCHANGED <<disk, hints, view, head, state, shadowed, phase, slot, mounts, opening, forks,
                 history, amiss>>

\* resolve_session that already compares the head, and drops what it would refuse.
ResolveSessionEager(s) ==
  /\ phase # "down" /\ closing[s] = "bare" /\ shadowed
  /\ recorded' = recorded \cup view
  /\ hints' = {} /\ state' = "ready" /\ shadowed' = FALSE
  /\ closing' = [closing EXCEPT ![s] = "none"]
  /\ pending' = IF Own(s) = {} \/ head # base[s] THEN pending ELSE pending \cup {s}
  /\ Forget(IF s \in pending' THEN {} ELSE {s})
  /\ Deafens
  /\ UNCHANGED <<disk, view, head, phase, slot, mounts, opening, history>>

\* resolve_session: out of the shadow with a fresh watcher and no capture, or, if
\* it was not shadowed, a drain; a safety row; the overlay, if it has changes,
\* becomes a generation.  The server then notes the session as pending.
ResolveSession(s) ==
  /\ phase # "down" /\ closing[s] = "bare"
  /\ hints' = {}
  /\ \/ /\ shadowed
        /\ state' = "ready"
        /\ Deafens
        /\ UNCHANGED view
     \/ /\ ~ shadowed /\ state # "wedged"
        /\ \E v \in Trees : Drained(v) /\ view' = v
        /\ Suffers(PeekIfCovered)
        /\ UNCHANGED state
  /\ recorded' = recorded \cup view'
  /\ shadowed' = FALSE
  /\ closing' = [closing EXCEPT ![s] = "none"]
  /\ pending' = IF Own(s) = {} THEN pending ELSE pending \cup {s}
  /\ Forget(IF Own(s) = {} THEN {s} ELSE {})
  /\ UNCHANGED <<disk, head, phase, slot, mounts, opening, history>>

\* SessionResolve fails after the mount is gone: the watcher is not reopened, or
\* is, and stays in its rescan; the drain fails, or the safety row, the overlay's
\* checkpoint or the server's diff.  The session is in no slot and not pending, so
\* what it did goes with it.
ResolveFails(s) ==
  /\ phase # "down" /\ closing[s] = "bare"
  /\ \/ /\ shadowed
        /\ \/ UNCHANGED <<hints, state, recorded>>
           \/ /\ hints' = {}
              /\ state' \in IF state = "down" THEN {"down"} ELSE {"ready", "wedged"}
              /\ UNCHANGED recorded
           \/ hints' = {} /\ state' = "ready" /\ Row(view)
        /\ Deafens
        /\ UNCHANGED view
     \/ /\ ~ shadowed
        /\ \/ UNCHANGED <<hints, view, recorded, amiss>>
           \/ /\ state # "wedged"
              /\ \E v \in Trees : Drained(v) /\ view' = v /\ Row(v)
              /\ hints' = {}
              /\ Suffers(PeekIfCovered)
        /\ UNCHANGED state
  /\ shadowed' = FALSE
  /\ closing' = [closing EXCEPT ![s] = "none"]
  /\ given' = given \cup Own(s)
  /\ Forget({s})
  /\ UNCHANGED <<disk, head, phase, slot, mounts, opening, pending, made>>

-----------------------------------------------------------------------------
(* SessionApply and SessionDiscard *)

\* apply_session that does not compare the head with the session's base.
ApplyBlindly(s) ==
  /\ phase # "down" /\ s \in pending
  /\ pending' = pending \ {s}
  /\ disk' = overlay[s] /\ view' = overlay[s] /\ hints' = {} /\ state' = "ready"
  /\ recorded' = recorded \cup overlay[s]
  /\ Publishes(overlay[s])
  /\ UNCHANGED <<shadowed, phase, slot, mounts, opening, closing, base, overlay, history, amiss>>

UnseenIfLost(s) ==
  IF disk \subseteq overlay[s] \cup recorded THEN {} ELSE {"unseen"}

\* apply_session on the head the session was forked from: the row, the swap of
\* the tree, a fresh watcher, and a baseline, which publishes.
Apply(s) ==
  /\ phase # "down" /\ s \in pending /\ head = base[s] /\ mounts = {}
  /\ pending' = pending \ {s}
  /\ disk' = overlay[s] /\ view' = overlay[s] /\ hints' = {} /\ state' = "ready"
  /\ recorded' = recorded \cup overlay[s]
  /\ Publishes(overlay[s])
  /\ Forget({s})
  /\ Suffers(UnseenIfLost(s))
  /\ UNCHANGED <<shadowed, phase, slot, mounts, opening, closing, history>>

\* The head is elsewhere.  The checkout has been replaced by one at the head, and
\* the session is no longer pending.
Refuse(s) ==
  /\ phase # "down" /\ s \in pending /\ head # base[s]
  /\ pending' = pending \ {s}
  /\ view' = head /\ state' \in IF state = "down" THEN {"ready", "wedged"} ELSE {state}
  /\ given' = given \cup Own(s)
  /\ Forget({s})
  /\ Suffers({"refused"})
  /\ UNCHANGED <<disk, hints, head, recorded, shadowed, phase, slot, mounts, opening, closing, made>>

\* The swap fails, as it must when another session covers the root.  The row
\* stands, and the baseline that follows captures what is at the root.
SwapFails(s) ==
  /\ phase # "down" /\ s \in pending /\ head = base[s]
  /\ pending' = pending \ {s}
  /\ view' \in Baselined(disk)
  /\ hints' = {} /\ state' = "ready"
  /\ recorded' = recorded \cup overlay[s] \cup view'
  /\ Publishes(view')
  /\ Forget({s})
  /\ Suffers(PeekIfCovered)
  /\ UNCHANGED <<disk, shadowed, phase, slot, mounts, opening, closing, history>>

\* apply_session stops short before the swap: the checkout is not refreshed, or is,
\* and the row fails.  The session is no longer pending, and no row has it.
ApplyFails(s) ==
  /\ phase # "down" /\ s \in pending
  /\ pending' = pending \ {s}
  /\ view' \in {view} \cup (IF head = base[s] THEN {head} ELSE {})
  /\ state' = "down"
  /\ given' = given \cup Own(s)
  /\ Forget({s})
  /\ UNCHANGED <<disk, hints, head, recorded, shadowed, phase, slot, mounts, opening, closing, made, amiss>>

\* After the swap, done or failed, the watcher is not reopened or the baseline
\* fails, at the latest in its commit.
BaselineFails(s) ==
  /\ phase # "down" /\ s \in pending /\ head = base[s]
  /\ pending' = pending \ {s}
  /\ disk' \in IF mounts = {} THEN {disk, overlay[s]} ELSE {disk}
  /\ hints' \in {hints, {}} /\ state' = "down"
  /\ view' \in {head} \cup Baselined(disk')
  /\ recorded' \in {recorded \cup overlay[s], recorded \cup overlay[s] \cup view'}
  /\ Publishes(view') \/ UNCHANGED head
  /\ Forget({s})
  /\ Suffers((IF disk' = disk THEN {} ELSE UnseenIfLost(s)) \cup PeekIfCovered)
  /\ UNCHANGED <<shadowed, phase, slot, mounts, opening, closing, history>>

Discard(s) ==
  /\ phase # "down" /\ s \in pending
  /\ pending' = pending \ {s}
  /\ given' = given \cup Own(s)
  /\ Forget({s})
  /\ UNCHANGED <<disk, pipeline, phase, slot, mounts, opening, closing, made, amiss>>

-----------------------------------------------------------------------------
(* The daemon stops, dies, and starts *)

\* Stop unmounts the session in the slot and forgets the pending ones; a task
\* that is about to mount goes on until the daemon has exited.
Stop ==
  /\ phase = "up"
  /\ mounts' = mounts \ {slot}
  /\ slot' = Nobody /\ pending' = {}
  /\ given' = given \cup UNION {Own(s) : s \in (pending \cup {slot}) \cap Sessions}
  /\ phase' = "stopping"
  /\ Forget({slot} \cup pending)
  /\ Suffers({"stop"})
  /\ UNCHANGED <<disk, pipeline, opening, closing, made>>

\* The end of serve_until_done, with a last commit that can fail; a daemon that
\* dies makes none.  The mount may go with the process.
Exit ==
  /\ phase # "down"
  /\ Publishes(view) \/ UNCHANGED head
  /\ phase' = "down"
  /\ slot' = Nobody /\ pending' = {}
  /\ opening' = [s \in Sessions |-> "none"] /\ closing' = [s \in Sessions |-> "none"]
  /\ mounts' \in {mounts, {}}
  /\ given' = given \cup UNION {Own(s) : s \in Held \cap Sessions}
  /\ Forget(Sessions)
  /\ Suffers({"stop"})
  /\ UNCHANGED <<disk, hints, view, recorded, state, shadowed, made>>

\* run: a mount that a dead daemon left is swept first; the pipeline starts with
\* a baseline.
Restart ==
  /\ phase = "down"
  /\ phase' = "up" /\ mounts' = {} /\ shadowed' = FALSE /\ state' = "ready"
  /\ hints' = {} /\ view' = disk /\ recorded' = recorded \cup disk
  /\ Publishes(disk)
  /\ UNCHANGED <<disk, slot, opening, closing, pending, base, overlay, history, amiss>>

-----------------------------------------------------------------------------
Tasks(s) ==
  \/ CutFork(s) \/ Mount(s) \/ OpenFails(s) \/ Shadow(s)
  \/ Unmount(s) \/ ResolveSession(s) \/ ResolveFails(s)

Applies(s) == Apply(s) \/ Refuse(s) \/ SwapFails(s) \/ ApplyFails(s) \/ BaselineFails(s)

Next ==
  \/ Checkpoint \/ Recover \/ Cut \/ Commit \/ ResolveStray \/ Stop \/ Exit \/ Restart
  \/ \E e \in Edits : Edit(e)
  \/ \E s \in Sessions : Tasks(s) \/ SessionFork(s) \/ Resolve(s) \/ Applies(s) \/ Discard(s)

Spec == Init /\ [][Next]_vars

\* The runtime polls a task that can go on, and the pipeline serves its queue.
FairSpec == Spec /\ \A s \in Sessions : WF_vars(Tasks(s))

Spared(mishaps) == \A m \in mishaps : m \notin amiss

TypeOK ==
  /\ disk \in Trees /\ hints \in Trees /\ view \in Trees /\ head \in Trees
  /\ recorded \in Trees
  /\ state \in {"ready", "wedged", "down"}
  /\ shadowed \in BOOLEAN /\ phase \in {"up", "stopping", "down"}
  /\ slot \in Sessions \cup {Nobody} /\ mounts \subseteq Sessions
  /\ opening \in [Sessions -> {"none", "checked", "cut", "mounted"}]
  /\ closing \in [Sessions -> {"none", "taken", "bare"}]
  /\ base \in [Sessions -> Trees] /\ overlay \in [Sessions -> Trees]
  /\ pending \subseteq Sessions /\ made \in Trees /\ given \in Trees
  /\ amiss \subseteq Mishaps
  /\ \A s \in Sessions : base[s] \subseteq overlay[s]

Mainline == disk \cup view \cup head \cup recorded

\* What a session did is in nothing of the mainline's, neither the tree nor a row,
\* while it can still be discarded, nor after it was given up: "Safe Mode" is that.
\* Checkpoints, edits, stray and early resolves, mounts that stay, failures and
\* deaths may come at any time.  It takes two sessions at once, a request that
\* does not look at `shadowed`, or one that comes before set_shadowed.
Isolated ==
  Spared({"race", "window", "peek"}) =>
    /\ \A s \in Held \cap Sessions : Own(s) \cap Mainline = {}
    /\ given \cap Mainline = {}

\* A session that has the root has the pipeline shadowed, and the shadow does not
\* outlast it: a pipeline left shadowed answers every later checkpoint with a
\* noop.
ShadowFits ==
  phase = "up" /\ Spared({"race", "early", "stray", "unmount"}) =>
    /\ slot # Nobody => mounts = {slot} /\ (shadowed \/ opening[slot] = "mounted")
    /\ shadowed => slot # Nobody \/ \E s \in Sessions : closing[s] # "none"

\* No edit is lost in silence between the mount, the pending generation and the
\* real tree: it is in a tree, in a row, or in a session that can still be
\* applied, or the client of its session gave it up or was told of an error.
WorkKept ==
  Spared({"race", "stray", "unmount", "unseen"}) =>
    made \ given \subseteq disk \cup recorded \cup UNION {overlay[s] : s \in Held \cap Sessions}

\* An edit of the real tree is in the checkout, or the watcher has a hint of it,
\* or a recovery baseline is due.
EditsTracked ==
  phase # "down" /\ state # "down" /\ Spared({"race", "window", "peek", "deaf", "refused"}) =>
    disk \subseteq view \cup hints

\* What is published and in the tree stays in the tree: an apply replaces the tree
\* by one that was forked from what is published now.
PublishedStays == [][head \cap disk \subseteq disk']_vars

\* A session that let go of the root gives the mainline's capture back, also when
\* its resolve fails.
CaptureReturns ==
  slot = Nobody ~>
    \/ ~ shadowed \/ slot # Nobody \/ phase # "up"
    \/ ~ Spared({"early", "stray", "unmount"})

\* apply_session refuses "if the mainline published anything since the fork's
\* base" (pipeline.rs, the comment before the comparison).  The code compares the
\* head with a base that may never have been published, and so refuses a session
\* whose base has everything that was.
ConflictMeansMoved ==
  [][\A s \in pending \ pending' :
       "refused" \in amiss' \ amiss => ~ (head \subseteq base[s])]_vars

\* The overlay of a session that is resolved stays reachable: "Unpublished
\* checkpoint generations are fully restorable" (resolve_session's comment).  A
\* resolve that fails leaves neither a row nor a pending session.
ResolvedIsReachable ==
  [][\A s \in Sessions :
       closing[s] = "bare" /\ closing'[s] = "none" /\ phase' # "down"
         => Own(s) \subseteq recorded' \/ s \in pending']_vars

\* "never drain the watcher or snapshot the mainline mid-session" (pipeline.rs, the
\* comment where a checkpoint looks at `shadowed`).  fork and publish_head do both.
MainlineFrozen ==
  [][shadowed /\ slot # Nobody /\ slot' = slot => UNCHANGED <<view, recorded>>]_vars

=============================================================================
