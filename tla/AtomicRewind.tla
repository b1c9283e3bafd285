---------------------------- MODULE AtomicRewind ----------------------------
(***************************************************************************)
(* What a rewind promises, with no word about how: the repo path holds one *)
(* whole tree at a time, it changes only by becoming -- in one step -- the *)
(* tree of the rewind last asked for, and whenever no rewind is under way  *)
(* every excluded path the user had is in place.  A crash may come at any  *)
(* time; the daemon that follows settles the repo before it serves.        *)
(* RewindSwap.tla is the code's way of keeping this promise.               *)
(***************************************************************************)
CONSTANTS
  Rules,    \* the excluded paths of the configuration
  Gens      \* the trees a rewind can restore

VARIABLES
  shown,    \* the tree at the repo path
  goal,     \* the tree of the rewind last asked for
  mode,     \* "serving", "rewinding" or "dead"
  away      \* excluded paths that are, for now, not at the repo path

vars == <<shown, goal, mode, away>>

Init ==
  /\ shown \in Gens
  /\ goal = shown
  /\ mode = "serving"
  /\ away = {}

Ask(g) ==
  /\ mode = "serving"
  /\ mode' = "rewinding"
  /\ goal' = g
  /\ UNCHANGED <<shown, away>>

\* Excluded paths may be on their way between the two trees.
Carry ==
  /\ mode # "serving"
  /\ away' \in SUBSET Rules
  /\ UNCHANGED <<shown, goal, mode>>

\* The new tree appears, whole.  Recovery may roll an interrupted rewind
\* forward, so a dead daemon's rewind can land too.
Land ==
  /\ mode # "serving"
  /\ shown' = goal
  /\ away' \in SUBSET Rules
  /\ UNCHANGED <<goal, mode>>

\* The rewind ends (well or badly), or the next daemon has recovered.
Settle ==
  /\ mode # "serving"
  /\ mode' = "serving"
  /\ away = {}
  /\ UNCHANGED <<shown, goal, away>>

Crash ==
  /\ mode # "dead"
  /\ mode' = "dead"
  /\ UNCHANGED <<shown, goal, away>>

Next == (\E g \in Gens : Ask(g)) \/ Carry \/ Land \/ Settle \/ Crash

Spec == Init /\ [][Next]_vars
=============================================================================
