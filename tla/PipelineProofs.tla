--------------------------- MODULE PipelineProofs ---------------------------
(***************************************************************************)
(* Proofs about Pipeline, for any paths, values and bounds, whatever fails *)
(* and whenever an edit comes.                                             *)
(*                                                                         *)
(* Their strengthening says which requests come to which steps (Flow), that*)
(* an incremental capture forgets no edit (Tracked), and, for every step at*)
(* which the checkout can be ahead of the last row, who is going to record *)
(* it (Accounted); each in the terms of what `slips` says went wrong.      *)
(***************************************************************************)
EXTENDS Pipeline, TLAPS

Rebuilding == {"reset", "base", "baserow", "tail"}

\* A watcher in its rescan is never taken for one that can be polled.
Watching == state = "ready" /\ rescan => pc = "base"

\* Nothing has happened that loses an edit, and nothing that leaves one captured
\* without a row or a marker.
Whole == "batch" \notin slips /\ "watcher" \notin slips /\ "unready" \notin slips
Quiet == "failed" \notin slips /\ "raced" \notin slips

Unrecorded == view # lastGen

\* Which requests come to which steps, and with which slips.
Flow ==
  /\ pc = "prepare" => req.op \in {"checkpoint", "restore"}
  /\ pc \in {"write", "direct"} => req.op \in {"restore", "land"}
  /\ pc = "commit" => req.op \in {"checkpoint", "auto", "rewind"}
  /\ pc = "swap" => req.op = "rewind"
  /\ pc \notin Rebuilding \cup {"dead", "idle"} /\ req.op # "rewind" => state = "ready"
  /\ pc \in {"dead", "baserow", "tail"} \/ req.op = "start" => state = "baselining"
  /\ pc \notin Rebuilding => ret = "idle"
  /\ ret = "prepare" => req.op \in {"checkpoint", "restore"}
  /\ ret = "write" => req.op = "land"
  /\ req.op = "start" => pc \in {"base", "baserow", "tail"} /\ ret = "idle"
  /\ pc \in {"base", "baserow", "tail"} => ~ orphan
  /\ orphan /\ pc # "reset" => "watcher" \in slips
  /\ "unready" \in slips => state # "ready"
  /\ pc \in {"baserow", "tail"} => slips \subseteq {"raced"}

\* An incremental capture forgets no edit of a tree it has to answer for.
Heeded == state = "ready" \/ req.op = "rewind" \/ pc \in {"baserow", "tail"}

Tracked ==
  Heeded /\ Whole /\ ~ invalid /\ ~ orphan /\ pc \notin {"base", "dead"}
    => \A f \in Files : disk[f] # view[f] => f \in flying \cup queue

\* Whoever runs next records what the checkout holds.
Accounted ==
  /\ Quiet /\ state = "ready" /\ pc \in {"idle", "prepare", "write", "direct"} /\ Unrecorded
       => HasPending
  /\ Quiet /\ pc \in {"drain", "drained", "snap"} /\ req.op \in {"checkpoint", "restore"}
       /\ Unrecorded => req.changed
  /\ Quiet /\ pc \in {"drain", "drained"} /\ req.op = "auto" /\ Unrecorded
       => req.changed \/ HasPending
  /\ pc = "snap" /\ req.op = "auto" => HasPending
  /\ pc \in {"commit", "swap"} /\ (Quiet \/ req.op = "rewind") => ~ Unrecorded
  /\ pc = "tail" => ~ Unrecorded
  /\ Quiet /\ pc = "write" /\ req.op = "restore" => ~ Unrecorded
  /\ Quiet /\ pc \in {"baserow", "tail"} => view = disk
  /\ lastGen \in rows \/ (pc \in {"base", "baserow"} /\ req.op = "start") \/ pc = "dead"

PipelineInv == Flow /\ Tracked /\ Accounted

-----------------------------------------------------------------------------
(* Whatever fails *)

\* Setting fields of a request record leaves a request record.
LEMMA NewRequestOK ==
  ASSUME NEW o \in Ops, NEW g \in Gens, NEW f \in Files
  PROVE  /\ NoRequest \in Requests
         /\ [NoRequest EXCEPT !.op = o] \in Requests
         /\ [NoRequest EXCEPT !.op = o, !.gen = g] \in Requests
         /\ [NoRequest EXCEPT !.op = o, !.gen = g, !.file = f] \in Requests
<1>1. Empty \in Gens BY ValuesAssumption DEF Empty, Gens
<1>2. NoRequest \in Requests BY <1>1 DEF NoRequest, Requests, Ops
<1> QED BY <1>2 DEF Requests

\* The same of the request being served.
LEMMA SetRequestOK ==
  ASSUME ServeOK, NEW o \in Ops, NEW c \in BOOLEAN
  PROVE  [req EXCEPT !.changed = c] \in Requests /\ [req EXCEPT !.op = o] \in Requests
BY DEF ServeOK, Requests

\* There is an empty tree, a path and so a request for none.
LEMMA NoneOK == Empty \in Gens /\ NoRequest \in Requests
<1>1. Empty \in Gens BY ValuesAssumption DEF Empty, Gens
<1>2. PICK f \in Files : TRUE BY FilesAssumption
<1> QED BY <1>1, <1>2, NewRequestOK DEF Ops

\* What a capture leaves in the checkout is a generation.
LEMMA CapturedOK == \A x, y \in Gens : \A S : Captured(x, y, S) \in Gens
BY DEF Captured, Gens

\* The counter of checkpoints stays within `commit_every`.
LEMMA CountedOK == since \in 0..CommitEvery => Counted \in 0..CommitEvery
BY CommitEveryAssumption DEF Counted

\* A fault is taken from those that are left.
LEMMA HitsOK == \A n \in 0..MaxFaults : n > 0 => n - 1 \in 0..MaxFaults
BY BoundsAssumption

\* The pipeline starts with well-typed variables.
LEMMA TypeInit == Init => TypeOK
<1> SUFFICES ASSUME Init PROVE TypeOK OBVIOUS
<1>1. PICK f \in Files : TRUE BY FilesAssumption
<1>2. [NoRequest EXCEPT !.op = "start"] \in Requests
  BY <1>1, NoneOK, NewRequestOK DEF Ops
<1>3. ServeOK BY <1>2 DEF Init, ServeOK, Steps
<1>4. 0 \in 0..CommitEvery /\ MaxEdits \in 0..MaxEdits /\ MaxFaults \in 0..MaxFaults
  BY CommitEveryAssumption, BoundsAssumption
<1> QED BY <1>3, <1>4, NoneOK DEF Init, TypeOK

\* Every step leaves a request at a step of its service.
LEMMA ServeStep ==
  ASSUME TypeOK, [Next]_vars PROVE ServeOK'
<1>a. ServeOK BY DEF TypeOK
<1>b. PICK h \in Files : TRUE BY FilesAssumption
<1>c. \A o \in Ops : \A g \in Gens : \A f \in Files :
        /\ [NoRequest EXCEPT !.op = o] \in Requests
        /\ [NoRequest EXCEPT !.op = o, !.gen = g] \in Requests
        /\ [NoRequest EXCEPT !.op = o, !.gen = g, !.file = f] \in Requests
  BY NewRequestOK
<1>d. \A c \in BOOLEAN : [req EXCEPT !.changed = c] \in Requests
  BY <1>a, SetRequestOK DEF Ops
<1>e. [req EXCEPT !.op = "restored"] \in Requests BY <1>a, SetRequestOK DEF Ops
<1> HIDE DEF Requests
<1> USE <1>a, <1>b, <1>c, <1>d, <1>e, NoneOK
<1>1. CASE Checkpoint BY <1>1 DEF Checkpoint, Begin, Ops, ServeOK, Steps, serve
<1>2. CASE Cut BY <1>2 DEF Cut, Ops, ServeOK, Steps, serve
<1>3. CASE AutoCheckpoint BY <1>3 DEF AutoCheckpoint, Ops, ServeOK, Steps, serve
<1>4. CASE CommitAlone BY <1>4 DEF CommitAlone, ServeOK, Steps, serve
<1>5. CASE Prepare BY <1>5 DEF Prepare, HasPending, ServeOK, Steps, serve
<1>6. CASE Poll BY <1>6 DEF Poll, GiveUp, Goto, Begin, ServeOK, Steps, serve
<1>7. CASE Drained BY <1>7 DEF Drained, Goto, ServeOK, Steps, serve
<1>8. CASE AutoMarks BY <1>8 DEF AutoMarks, Done, HasPending, ServeOK, Steps, serve
<1>9. CASE AutoWaits BY <1>9 DEF AutoWaits, Done, HasPending, ServeOK, Steps, serve
<1>10. CASE AutoGoes BY <1>10 DEF AutoGoes, Goto, HasPending, ServeOK, Steps, serve
<1>11. CASE SnapCheckpoint BY <1>11 DEF SnapCheckpoint, CommitIfDue, Goto, Done,
     ServeOK, Steps, serve
<1>12. CASE SnapCounted BY <1>12 DEF SnapCounted, Done, ServeOK, Steps, serve
<1>13. CASE SnapSafety BY <1>13 DEF SnapSafety, Goto, ServeOK, Steps, serve
<1>14. CASE SnapAuto BY <1>14 DEF SnapAuto, CommitIfDue, Goto, Done, ServeOK, Steps, serve
<1>15. CASE SnapFails BY <1>15 DEF SnapFails, Done, ServeOK, Steps, serve
<1>16. CASE Commit BY <1>16 DEF Commit, Goto, Done, ServeOK, Steps, serve
<1>17. CASE Swap BY <1>17 DEF Swap, ServeOK, Steps, serve
<1>18. CASE Write BY <1>18 DEF Write, Goto, Done, ServeOK, Steps, serve
<1>19. CASE Direct BY <1>19 DEF Direct, Done, ServeOK, Steps, serve
<1>20. CASE Reset BY <1>20 DEF Reset, Goto, GiveUp, ServeOK, Steps, serve
<1>21. CASE Base BY <1>21 DEF Base, Goto, GiveUp, ServeOK, Steps, serve
<1>22. CASE BaseRow BY <1>22 DEF BaseRow, Goto, GiveUp, ServeOK, Steps, serve
<1>23. CASE Tail BY <1>23 DEF Tail, Done, GiveUp, ServeOK, Steps, serve
<1>24. CASE Overflow BY <1>24 DEF Overflow, ServeOK, Steps, serve
<1>25. CASE Restart BY <1>25 DEF Restart, Ops, ServeOK, Steps, serve
<1>26. ASSUME NEW g \in Gens, Rewind(g) PROVE ServeOK'
  BY <1>26 DEF Rewind, Ops, ServeOK, Steps, serve
<1>27. ASSUME NEW f \in Files, NEW g \in Gens, Restore(f, g) PROVE ServeOK'
  <2>1. /\ [NoRequest EXCEPT !.op = "restore", !.gen = g, !.file = f] \in Requests
        /\ [NoRequest EXCEPT !.op = "land", !.gen = g, !.file = f] \in Requests
    BY NewRequestOK DEF Ops
  <2> QED BY <1>27, <2>1 DEF Restore, Begin, ServeOK, Steps
<1>28. ASSUME NEW f \in Files, NEW v \in Values, Edit(f, v) PROVE ServeOK'
  BY <1>28 DEF Edit, ServeOK, Steps, serve
<1>29. ASSUME NEW f \in Files, Deliver(f) PROVE ServeOK'
  BY <1>29 DEF Deliver, ServeOK, Steps, serve
<1>30. CASE UNCHANGED vars BY <1>30 DEF vars, ServeOK, Steps, serve
<1> QED BY <1>1, <1>2, <1>3, <1>4, <1>5, <1>6, <1>7, <1>8, <1>9, <1>10, <1>11, <1>12,
     <1>13, <1>14, <1>15, <1>16, <1>17, <1>18, <1>19, <1>20, <1>21, <1>22, <1>23, <1>24,
     <1>25, <1>26, <1>27, <1>28, <1>29, <1>30 DEF Next, Serving

\* Every step leaves a set of slips.
LEMMA SlipsStep ==
  ASSUME TypeOK, [Next]_vars PROVE (slips \subseteq Slips)'
<1>a. slips \subseteq Slips BY DEF TypeOK
<1> USE <1>a
<1>1. CASE Checkpoint BY <1>1 DEF Checkpoint, Slips
<1>2. CASE Cut BY <1>2 DEF Cut, Slips
<1>3. CASE AutoCheckpoint BY <1>3 DEF AutoCheckpoint, Slips
<1>4. CASE CommitAlone BY <1>4 DEF CommitAlone, Slips
<1>5. CASE Prepare BY <1>5 DEF Prepare, Slips
<1>6. CASE Poll BY <1>6 DEF Poll, GiveUp, Slip, Slips
<1>7. CASE Drained BY <1>7 DEF Drained, Slips
<1>8. CASE AutoMarks BY <1>8 DEF AutoMarks, Slips
<1>9. CASE AutoWaits BY <1>9 DEF AutoWaits, Slips
<1>10. CASE AutoGoes BY <1>10 DEF AutoGoes, Slips
<1>11. CASE SnapCheckpoint BY <1>11 DEF SnapCheckpoint, RecordView, Slips
<1>12. CASE SnapCounted BY <1>12 DEF SnapCounted, RecordView, Slips
<1>13. CASE SnapSafety BY <1>13 DEF SnapSafety, RecordView, Slips
<1>14. CASE SnapAuto BY <1>14 DEF SnapAuto, RecordView, Slips
<1>15. CASE SnapFails BY <1>15 DEF SnapFails, Slip, Slips
<1>16. CASE Commit BY <1>16 DEF Commit, Slips
<1>17. CASE Swap BY <1>17 DEF Swap, Slips
<1>18. CASE Write BY <1>18 DEF Write, Slips
<1>19. CASE Direct BY <1>19 DEF Direct, Slips
<1>20. CASE Reset BY <1>20 DEF Reset, GiveUp, Slip, Slips
<1>21. CASE Base BY <1>21 DEF Base, Slips
<1>22. CASE BaseRow BY <1>22 DEF BaseRow, Slips
<1>23. CASE Tail BY <1>23 DEF Tail, Slips
<1>24. CASE Overflow BY <1>24 DEF Overflow, Slips
<1>25. CASE Restart BY <1>25 DEF Restart, Slips
<1>26. ASSUME NEW g \in Gens, Rewind(g) PROVE (slips \subseteq Slips)'
  BY <1>26 DEF Rewind, Slips
<1>27. ASSUME NEW f \in Files, NEW g \in Gens, Restore(f, g) PROVE (slips \subseteq Slips)'
  BY <1>27 DEF Restore, Slips
<1>28. ASSUME NEW f \in Files, NEW v \in Values, Edit(f, v) PROVE (slips \subseteq Slips)'
  BY <1>28 DEF Edit, Slips
<1>29. ASSUME NEW f \in Files, Deliver(f) PROVE (slips \subseteq Slips)'
  BY <1>29 DEF Deliver, Slips
<1>30. CASE UNCHANGED vars BY <1>30 DEF vars, Slips
<1> QED BY <1>1, <1>2, <1>3, <1>4, <1>5, <1>6, <1>7, <1>8, <1>9, <1>10, <1>11, <1>12,
     <1>13, <1>14, <1>15, <1>16, <1>17, <1>18, <1>19, <1>20, <1>21, <1>22, <1>23, <1>24,
     <1>25, <1>26, <1>27, <1>28, <1>29, <1>30 DEF Next, Serving

\* A step of the service that records, marks or fails keeps the rest typed.
LEMMA MarkOK == lastGen \in Gens => \E g \in Gens : Mark = {g}
BY DEF Mark

\* Every step leaves every variable its type.
LEMMA TypeStep == TypeOK /\ [Next]_vars => TypeOK'
<1> SUFFICES ASSUME TypeOK, [Next]_vars PROVE TypeOK' OBVIOUS
<1>a. ServeOK' BY ServeStep
<1>b. (slips \subseteq Slips)' BY SlipsStep
<1> USE <1>a, <1>b, MarkOK, NoneOK, CapturedOK, CountedOK, HitsOK, CommitEveryAssumption,
        BoundsAssumption
<1>1. CASE Checkpoint BY <1>1 DEF Checkpoint, TypeOK, None, tree, index
<1>2. CASE Cut BY <1>2 DEF Cut, TypeOK, None, tree, index
<1>3. CASE AutoCheckpoint BY <1>3 DEF AutoCheckpoint, TypeOK, None, tree, index
<1>4. CASE CommitAlone BY <1>4 DEF CommitAlone, TypeOK, None, tree, index
<1>5. CASE Prepare BY <1>5 DEF Prepare, TypeOK, None, tree, index
<1>6. CASE Poll
  <2>1. view' \in Gens /\ queue' \subseteq Files
    <3>1. Captured(view, disk, queue) \in Gens BY DEF TypeOK
    <3>2. view' = view \/ view' = Captured(view, disk, queue) BY <1>6 DEF Poll
    <3>3. queue' = queue \/ queue' = {} BY <1>6 DEF Poll
    <3> QED BY <3>1, <3>2, <3>3 DEF TypeOK
  <2>2. pending' = pending \/ pending' = Mark BY <1>6 DEF Poll, GiveUp
  <2>3. faults' = faults \/ (faults > 0 /\ faults' = faults - 1)
    BY <1>6 DEF Poll, Hits
  <2>4. faults' \in 0..MaxFaults BY <2>3 DEF TypeOK
  <2> QED BY <1>6, <2>1, <2>2, <2>4 DEF Poll, TypeOK
<1>7. CASE Drained BY <1>7 DEF Drained, TypeOK, None, tree, index
<1>8. CASE AutoMarks BY <1>8 DEF AutoMarks, TypeOK, None, tree, index
<1>9. CASE AutoWaits BY <1>9 DEF AutoWaits, TypeOK, None, tree, index
<1>10. CASE AutoGoes BY <1>10 DEF AutoGoes, TypeOK, None, tree, index
<1>11. CASE SnapCheckpoint BY <1>11 DEF SnapCheckpoint, Record, RecordView, CommitIfDue, TypeOK,
     None, tree, index
<1>12. CASE SnapCounted BY <1>12 DEF SnapCounted, Record, RecordView, TypeOK, None, tree, index
<1>13. CASE SnapSafety BY <1>13 DEF SnapSafety, Record, RecordView, TypeOK, None, tree, index
<1>14. CASE SnapAuto BY <1>14 DEF SnapAuto, Record, RecordView, CommitIfDue, TypeOK, None, tree, index
<1>15. CASE SnapFails BY <1>15 DEF SnapFails, Hits, TypeOK, None, tree, index
<1>16. CASE Commit BY <1>16 DEF Commit, Hits, TypeOK, None, tree, index
<1>17. CASE Swap BY <1>17 DEF Swap, Hits, ServeOK, Requests, TypeOK, None, tree, index
<1>18. CASE Write BY <1>18 DEF Write, Hits, Gens, ServeOK, Requests, TypeOK, None, tree, index
<1>19. CASE Direct BY <1>19 DEF Direct, Hits, TypeOK, None, tree, index
<1>20. CASE Reset BY <1>20 DEF Reset, Hits, GiveUp, TypeOK, None, tree, index
<1>21. CASE Base BY <1>21 DEF Base, Hits, GiveUp, TypeOK, None, tree, index
<1>22. CASE BaseRow BY <1>22 DEF BaseRow, Hits, Record, GiveUp, TypeOK, None, tree, index
<1>23. CASE Tail
  <2>1. view' \in Gens BY <1>23 DEF Tail, TypeOK
  <2>2. queue' \subseteq Files BY <1>23 DEF Tail, TypeOK
  <2>3. pending' = pending \/ pending' = Mark BY <1>23 DEF Tail, GiveUp
  <2>4. faults' \in 0..MaxFaults BY <1>23 DEF Tail, Hits, TypeOK
  <2>5. rescan' \in BOOLEAN BY <1>23 DEF Tail, TypeOK
  <2>6. since' = since \/ since' = 0 BY <1>23 DEF Tail
  <2>7. since' \in 0..CommitEvery BY <2>6 DEF TypeOK
  <2>8. state' = state \/ state' = "ready" BY <1>23 DEF Tail
  <2> QED BY <1>23, <2>1, <2>2, <2>3, <2>4, <2>5, <2>7, <2>8
    DEF Tail, TypeOK
<1>24. CASE Overflow BY <1>24 DEF Overflow, Hits, TypeOK, None, tree, index
<1>25. CASE Restart
  <2>1. view' \in Gens BY <1>25 DEF Restart, TypeOK
  <2>2. faults' \in 0..MaxFaults BY <1>25 DEF Restart, Hits, TypeOK
  <2>3. 0 \in 0..CommitEvery BY CommitEveryAssumption
  <2> QED BY <1>25, <2>1, <2>2, <2>3 DEF Restart, TypeOK
<1>26. ASSUME NEW g \in Gens, Rewind(g) PROVE TypeOK'
  BY <1>26 DEF Rewind, TypeOK, None, tree, index
<1>27. ASSUME NEW f \in Files, NEW g \in Gens, Restore(f, g) PROVE TypeOK'
  BY <1>27 DEF Restore, TypeOK, None, tree, index
<1>28. ASSUME NEW f \in Files, NEW v \in Values, Edit(f, v) PROVE TypeOK'
  BY <1>28 DEF Edit, Gens, TypeOK, None, tree, index
<1>29. ASSUME NEW f \in Files, Deliver(f) PROVE TypeOK'
  BY <1>29 DEF Deliver, TypeOK, None, tree, index
<1>30. CASE UNCHANGED vars BY <1>30 DEF vars, serve, ServeOK, TypeOK, None, tree, index
<1> QED BY <1>1, <1>2, <1>3, <1>4, <1>5, <1>6, <1>7, <1>8, <1>9, <1>10, <1>11, <1>12,
     <1>13, <1>14, <1>15, <1>16, <1>17, <1>18, <1>19, <1>20, <1>21, <1>22, <1>23, <1>24,
     <1>25, <1>26, <1>27, <1>28, <1>29, <1>30 DEF Next, Serving

\* The variables have their types (TypeOK): the marker of auto_checkpoint is a
\* generation or none, and the counter is back under `commit_every`.
THEOREM TypeCorrect == Spec => []TypeOK
<1>1. Init => TypeOK BY TypeInit
<1>2. TypeOK /\ [Next]_vars => TypeOK' BY TypeStep
<1> QED BY <1>1, <1>2, PTL DEF Spec

\* Only a step into a baseline starts a rescan.
LEMMA WatchingStep == Watching /\ [Next]_vars => Watching'
<1> SUFFICES ASSUME Watching, [Next]_vars PROVE Watching' OBVIOUS
<1>1. CASE Checkpoint BY <1>1 DEF Checkpoint, Begin, Watching, tree, serve
<1>2. CASE Cut BY <1>2 DEF Cut, Watching, tree, serve
<1>3. CASE AutoCheckpoint BY <1>3 DEF AutoCheckpoint, Watching, tree, serve
<1>4. CASE CommitAlone BY <1>4 DEF CommitAlone, Watching, tree, serve
<1>5. CASE Prepare BY <1>5 DEF Prepare, Watching, tree, serve
<1>6. CASE Poll BY <1>6 DEF Poll, GiveUp, Goto, Begin, Watching, tree, serve
<1>7. CASE Drained BY <1>7 DEF Drained, Goto, Watching, tree, serve
<1>8. CASE AutoMarks BY <1>8 DEF AutoMarks, Done, Watching, tree, serve
<1>9. CASE AutoWaits BY <1>9 DEF AutoWaits, Done, Watching, tree, serve
<1>10. CASE AutoGoes BY <1>10 DEF AutoGoes, Goto, Watching, tree, serve
<1>11. CASE SnapCheckpoint BY <1>11 DEF SnapCheckpoint, CommitIfDue, Goto, Done,
     Watching, tree, serve
<1>12. CASE SnapCounted BY <1>12 DEF SnapCounted, Done, Watching, tree, serve
<1>13. CASE SnapSafety BY <1>13 DEF SnapSafety, Goto, Watching, tree, serve
<1>14. CASE SnapAuto BY <1>14 DEF SnapAuto, CommitIfDue, Goto, Done, Watching, tree, serve
<1>15. CASE SnapFails BY <1>15 DEF SnapFails, Done, Watching, tree, serve
<1>16. CASE Commit BY <1>16 DEF Commit, Goto, Done, Watching, tree, serve
<1>17. CASE Swap BY <1>17 DEF Swap, Watching, tree, serve
<1>18. CASE Write BY <1>18 DEF Write, Goto, Done, Watching, tree, serve
<1>19. CASE Direct BY <1>19 DEF Direct, Done, Watching, tree, serve
<1>20. CASE Reset BY <1>20 DEF Reset, Goto, GiveUp, Watching, tree, serve
<1>21. CASE Base BY <1>21 DEF Base, Goto, GiveUp, Watching, tree, serve
<1>22. CASE BaseRow BY <1>22 DEF BaseRow, Goto, GiveUp, Watching, tree, serve
<1>23. CASE Tail BY <1>23 DEF Tail, TailBatch, Done, GiveUp, Watching, tree, serve
<1>24. CASE Overflow BY <1>24 DEF Overflow, Watching, tree, serve
<1>25. CASE Restart BY <1>25 DEF Restart, Watching, tree, serve
<1>26. ASSUME NEW g \in Gens, Rewind(g) PROVE Watching'
  BY <1>26 DEF Rewind, Watching, tree, serve
<1>27. ASSUME NEW f \in Files, NEW g \in Gens, Restore(f, g) PROVE Watching'
  BY <1>27 DEF Restore, Begin, Watching, tree, serve
<1>28. ASSUME NEW f \in Files, NEW v \in Values, Edit(f, v) PROVE Watching'
  BY <1>28 DEF Edit, Watching, tree, serve
<1>29. ASSUME NEW f \in Files, Deliver(f) PROVE Watching'
  BY <1>29 DEF Deliver, Watching, tree, serve
<1>30. CASE UNCHANGED vars BY <1>30 DEF vars, Watching, tree, serve
<1> QED BY <1>1, <1>2, <1>3, <1>4, <1>5, <1>6, <1>7, <1>8, <1>9, <1>10, <1>11, <1>12,
     <1>13, <1>14, <1>15, <1>16, <1>17, <1>18, <1>19, <1>20, <1>21, <1>22, <1>23, <1>24,
     <1>25, <1>26, <1>27, <1>28, <1>29, <1>30 DEF Next, Serving

\* Whatever fails, a pipeline that is ready and idle has a watcher it can poll
\* (NeverWedged): reset_watch and baseline never leave `Ready` with a watcher in
\* its rescan.
THEOREM NeverWedgedHolds == Spec => []NeverWedged
<1>1. Init => Watching BY DEF Init, Watching
<1>2. Watching /\ [Next]_vars => Watching' BY WatchingStep
<1>3. Watching => NeverWedged BY DEF Watching, NeverWedged
<1> QED BY <1>1, <1>2, <1>3, PTL DEF Spec

-----------------------------------------------------------------------------
(* The strengthening *)

\* A request comes only to the steps of its service, and a slip is made good only
\* by what makes it good.
LEMMA FlowStep == TypeOK /\ Flow /\ [Next]_vars => Flow'
<1> SUFFICES ASSUME TypeOK, Flow, [Next]_vars PROVE Flow' OBVIOUS
<1>a. req \in Requests /\ ret \in {"idle", "prepare", "drained", "write"}
  BY DEF TypeOK, ServeOK
<1> USE <1>a
<1>1. CASE Checkpoint BY <1>1 DEF Checkpoint, Begin, NoRequest, Flow, Rebuilding, tree,
     serve
<1>2. CASE Cut BY <1>2 DEF Cut, NoRequest, Flow, Rebuilding, tree, serve
<1>3. CASE AutoCheckpoint BY <1>3 DEF AutoCheckpoint, NoRequest, Flow, Rebuilding, tree,
     serve
<1>4. CASE CommitAlone BY <1>4 DEF CommitAlone, Flow, Rebuilding, tree, serve
<1>5. CASE Prepare BY <1>5 DEF Prepare, Requests, Flow, Rebuilding, tree, serve
<1>6. CASE Poll BY <1>6 DEF Poll, GiveUp, Slip, Goto, Begin, NoRequest, Requests, Flow,
     Rebuilding, tree, serve
<1>7. CASE Drained BY <1>7 DEF Drained, Goto, Flow, Rebuilding, tree, serve
<1>8. CASE AutoMarks BY <1>8 DEF AutoMarks, Done, NoRequest, Flow, Rebuilding, tree,
     serve
<1>9. CASE AutoWaits BY <1>9 DEF AutoWaits, Done, NoRequest, Flow, Rebuilding, tree,
     serve
<1>10. CASE AutoGoes BY <1>10 DEF AutoGoes, Goto, Flow, Rebuilding, tree, serve
<1>11. CASE SnapCheckpoint BY <1>11 DEF SnapCheckpoint, RecordView, CommitIfDue, Goto,
     Done, NoRequest, Flow, Rebuilding, tree, serve
<1>12. CASE SnapCounted BY <1>12 DEF SnapCounted, RecordView, Done, NoRequest, Flow,
     Rebuilding, tree, serve
<1>13. CASE SnapSafety BY <1>13 DEF SnapSafety, RecordView, Goto, Flow, Rebuilding,
     tree, serve
<1>14. CASE SnapAuto BY <1>14 DEF SnapAuto, RecordView, CommitIfDue, Goto, Done,
     NoRequest, Flow, Rebuilding, tree, serve
<1>15. CASE SnapFails BY <1>15 DEF SnapFails, Slip, Done, NoRequest, Flow, Rebuilding,
     tree, serve
<1>16. CASE Commit BY <1>16 DEF Commit, Goto, Done, NoRequest, Flow, Rebuilding, tree,
     serve
<1>17. CASE Swap BY <1>17 DEF Swap, Flow, Rebuilding, tree, serve
<1>18. CASE Write BY <1>18 DEF Write, Goto, Done, NoRequest, Flow, Rebuilding, tree,
     serve
<1>19. CASE Direct BY <1>19 DEF Direct, Done, NoRequest, Requests, Flow, Rebuilding,
     tree, serve
<1>20. CASE Reset BY <1>20 DEF Reset, Goto, GiveUp, Slip, NoRequest, Flow, Rebuilding,
     tree, serve
<1>21. CASE Base BY <1>21 DEF Base, Goto, GiveUp, NoRequest, Flow, Rebuilding, tree,
     serve
<1>22. CASE BaseRow BY <1>22 DEF BaseRow, Goto, GiveUp, NoRequest, Flow, Rebuilding,
     tree, serve
<1>23. CASE Tail BY <1>23 DEF Tail, Done, GiveUp, NoRequest, Flow, Rebuilding, tree,
     serve
<1>24. CASE Overflow BY <1>24 DEF Overflow, Flow, Rebuilding, tree, serve
<1>25. CASE Restart BY <1>25 DEF Restart, NoRequest, Flow, Rebuilding, tree, serve
<1>26. ASSUME NEW g \in Gens, Rewind(g) PROVE Flow'
  BY <1>26 DEF Rewind, NoRequest, Flow, Rebuilding, tree, serve
<1>27. ASSUME NEW f \in Files, NEW g \in Gens, Restore(f, g) PROVE Flow'
  BY <1>27 DEF Restore, Begin, NoRequest, Flow, Rebuilding, tree, serve
<1>28. ASSUME NEW f \in Files, NEW v \in Values, Edit(f, v) PROVE Flow'
  BY <1>28 DEF Edit, Flow, Rebuilding, tree, serve
<1>29. ASSUME NEW f \in Files, Deliver(f) PROVE Flow'
  BY <1>29 DEF Deliver, Flow, Rebuilding, tree, serve
<1>30. CASE UNCHANGED vars BY <1>30 DEF vars, Flow, Rebuilding, tree, serve
<1> QED BY <1>1, <1>2, <1>3, <1>4, <1>5, <1>6, <1>7, <1>8, <1>9, <1>10, <1>11, <1>12,
     <1>13, <1>14, <1>15, <1>16, <1>17, <1>18, <1>19, <1>20, <1>21, <1>22, <1>23, <1>24,
     <1>25, <1>26, <1>27, <1>28, <1>29, <1>30 DEF Next, Serving

\* No step loses track of a file the checkout has stale.
LEMMA TrackedStep == TypeOK /\ Flow /\ Tracked /\ [Next]_vars => Tracked'
<1> SUFFICES ASSUME TypeOK, Flow, Tracked, [Next]_vars PROVE Tracked' OBVIOUS
<1>a. /\ disk \in [Files -> Values] /\ view \in [Files -> Values]
      /\ req \in Requests
  BY DEF TypeOK, ServeOK, Gens
<1> USE <1>a
<1>1. CASE Checkpoint BY <1>1 DEF Checkpoint, Begin, NoRequest, Flow, Rebuilding,
     Tracked, Heeded, Whole, tree, serve
<1>2. CASE Cut BY <1>2 DEF Cut, NoRequest, Flow, Rebuilding, Tracked, Heeded, Whole,
     tree, serve
<1>3. CASE AutoCheckpoint BY <1>3 DEF AutoCheckpoint, NoRequest, Flow, Rebuilding,
     Tracked, Heeded, Whole, tree, serve
<1>4. CASE CommitAlone BY <1>4 DEF CommitAlone, Flow, Rebuilding, Tracked, Heeded,
     Whole, tree, serve
<1>5. CASE Prepare BY <1>5 DEF Prepare, Requests, Flow, Rebuilding, Tracked, Heeded,
     Whole, tree, serve
<1>6. CASE Poll BY <1>6 DEF Poll, GiveUp, Slip, Goto, Begin, NoRequest, Captured,
     Requests, Flow, Rebuilding, Tracked, Heeded, Whole, tree, serve
<1>7. CASE Drained BY <1>7 DEF Drained, Goto, Flow, Rebuilding, Tracked, Heeded, Whole,
     tree, serve
<1>8. CASE AutoMarks BY <1>8 DEF AutoMarks, Done, NoRequest, Flow, Rebuilding, Tracked,
     Heeded, Whole, tree, serve
<1>9. CASE AutoWaits BY <1>9 DEF AutoWaits, Done, NoRequest, Flow, Rebuilding, Tracked,
     Heeded, Whole, tree, serve
<1>10. CASE AutoGoes BY <1>10 DEF AutoGoes, Goto, Flow, Rebuilding, Tracked, Heeded,
     Whole, tree, serve
<1>11. CASE SnapCheckpoint BY <1>11 DEF SnapCheckpoint, RecordView, CommitIfDue, Goto,
     Done, NoRequest, Flow, Rebuilding, Tracked, Heeded, Whole, tree, serve
<1>12. CASE SnapCounted BY <1>12 DEF SnapCounted, RecordView, Done, NoRequest, Flow,
     Rebuilding, Tracked, Heeded, Whole, tree, serve
<1>13. CASE SnapSafety BY <1>13 DEF SnapSafety, RecordView, Goto, Flow, Rebuilding,
     Tracked, Heeded, Whole, tree, serve
<1>14. CASE SnapAuto BY <1>14 DEF SnapAuto, RecordView, CommitIfDue, Goto, Done,
     NoRequest, Flow, Rebuilding, Tracked, Heeded, Whole, tree, serve
<1>15. CASE SnapFails BY <1>15 DEF SnapFails, Slip, Done, NoRequest, Flow, Rebuilding,
     Tracked, Heeded, Whole, tree, serve
<1>16. CASE Commit BY <1>16 DEF Commit, Goto, Done, NoRequest, Flow, Rebuilding,
     Tracked, Heeded, Whole, tree, serve
<1>17. CASE Swap BY <1>17 DEF Swap, Flow, Rebuilding, Tracked, Heeded, Whole, tree,
     serve
<1>18. CASE Write BY <1>18 DEF Write, Goto, Done, NoRequest, Requests, Flow, Rebuilding,
     Tracked, Heeded, Whole, tree, serve
<1>19. CASE Direct BY <1>19 DEF Direct, Done, NoRequest, Captured, Requests, Flow,
     Rebuilding, Tracked, Heeded, Whole, tree, serve
<1>20. CASE Reset BY <1>20 DEF Reset, Goto, GiveUp, Slip, NoRequest, Flow, Rebuilding,
     Tracked, Heeded, Whole, tree, serve
<1>21. CASE Base BY <1>21 DEF Base, Goto, GiveUp, NoRequest, Flow, Rebuilding, Tracked,
     Heeded, Whole, tree, serve
<1>22. CASE BaseRow BY <1>22 DEF BaseRow, Goto, GiveUp, NoRequest, Flow, Rebuilding,
     Tracked, Heeded, Whole, tree, serve
<1>23. CASE Tail BY <1>23 DEF Tail, TailBatch, Done, GiveUp, NoRequest, Captured, Flow,
     Rebuilding, Tracked, Heeded, Whole, tree, serve
<1>24. CASE Overflow BY <1>24 DEF Overflow, Flow, Rebuilding, Tracked, Heeded, Whole,
     tree, serve
<1>25. CASE Restart BY <1>25 DEF Restart, NoRequest, Flow, Rebuilding, Tracked, Heeded,
     Whole, tree, serve
<1>26. ASSUME NEW g \in Gens, Rewind(g) PROVE Tracked'
  BY <1>26 DEF Rewind, NoRequest, Flow, Rebuilding, Tracked, Heeded, Whole, tree, serve
<1>27. ASSUME NEW f \in Files, NEW g \in Gens, Restore(f, g) PROVE Tracked'
  BY <1>27 DEF Restore, Begin, NoRequest, Flow, Rebuilding, Tracked, Heeded, Whole,
     tree, serve
<1>28. ASSUME NEW f \in Files, NEW v \in Values, Edit(f, v) PROVE Tracked'
  BY <1>28 DEF Edit, Flow, Rebuilding, Tracked, Heeded, Whole, tree, serve
<1>29. ASSUME NEW f \in Files, Deliver(f) PROVE Tracked'
  BY <1>29 DEF Deliver, Flow, Rebuilding, Tracked, Heeded, Whole, tree, serve
<1>30. CASE UNCHANGED vars BY <1>30 DEF vars, Flow, Rebuilding, Tracked, Heeded, Whole,
     tree, serve
<1> QED BY <1>1, <1>2, <1>3, <1>4, <1>5, <1>6, <1>7, <1>8, <1>9, <1>10, <1>11, <1>12,
     <1>13, <1>14, <1>15, <1>16, <1>17, <1>18, <1>19, <1>20, <1>21, <1>22, <1>23, <1>24,
     <1>25, <1>26, <1>27, <1>28, <1>29, <1>30 DEF Next, Serving

\* A capture of an unchanged tree changes nothing.
LEMMA CapturedSame == \A x \in Gens : \A S : Captured(x, x, S) = x
BY DEF Captured, Gens

\* Every step leaves someone to record what the checkout holds.
LEMMA AccountedStep == TypeOK /\ Flow /\ Accounted /\ [Next]_vars => Accounted'
<1> SUFFICES ASSUME TypeOK, Flow, Accounted, [Next]_vars PROVE Accounted' OBVIOUS
<1>a. req \in Requests /\ ret \in {"idle", "prepare", "drained", "write"}
  BY DEF TypeOK, ServeOK
<1> USE <1>a, CapturedSame
<1>1. CASE Checkpoint BY <1>1 DEF Checkpoint, Begin, NoRequest, Flow, Rebuilding,
     Accounted, Quiet, Unrecorded, Mark, HasPending, tree, index, serve
<1>2. CASE Cut BY <1>2 DEF Cut, NoRequest, Flow, Rebuilding, Accounted, Quiet,
     Unrecorded, Mark, HasPending, tree, index, serve
<1>3. CASE AutoCheckpoint BY <1>3 DEF AutoCheckpoint, NoRequest, Flow, Rebuilding,
     Accounted, Quiet, Unrecorded, Mark, HasPending, tree, index, serve
<1>4. CASE CommitAlone BY <1>4 DEF CommitAlone, Flow, Rebuilding, Accounted, Quiet,
     Unrecorded, Mark, HasPending, tree, index, serve
<1>5. CASE Prepare BY <1>5 DEF Prepare, Requests, Flow, Rebuilding, Accounted, Quiet,
     Unrecorded, Mark, HasPending, tree, index, serve
<1>6. CASE Poll BY <1>6 DEF Poll, GiveUp, Slip, Goto, Begin, NoRequest, Requests, Flow,
     Rebuilding, Accounted, Quiet, Unrecorded, Mark, HasPending, tree, index, serve
<1>7. CASE Drained BY <1>7 DEF Drained, Goto, Requests, Flow, Rebuilding, Accounted,
     Quiet, Unrecorded, Mark, HasPending, tree, index, serve
<1>8. CASE AutoMarks BY <1>8 DEF AutoMarks, Done, NoRequest, Flow, Rebuilding,
     Accounted, Quiet, Unrecorded, Mark, HasPending, tree, index, serve
<1>9. CASE AutoWaits BY <1>9 DEF AutoWaits, Done, NoRequest, Flow, Rebuilding,
     Accounted, Quiet, Unrecorded, Mark, HasPending, tree, index, serve
<1>10. CASE AutoGoes BY <1>10 DEF AutoGoes, Goto, Flow, Rebuilding, Accounted, Quiet,
     Unrecorded, Mark, HasPending, tree, index, serve
<1>11. CASE SnapCheckpoint BY <1>11 DEF SnapCheckpoint, Record, RecordView, CommitIfDue,
     Goto, Done, NoRequest, Flow, Rebuilding, Accounted, Quiet, Unrecorded, Mark,
     HasPending, tree, index, serve
<1>12. CASE SnapCounted BY <1>12 DEF SnapCounted, Record, RecordView, Done, NoRequest,
     Flow, Rebuilding, Accounted, Quiet, Unrecorded, Mark, HasPending, tree, index,
     serve
<1>13. CASE SnapSafety BY <1>13 DEF SnapSafety, Record, RecordView, Goto, Flow,
     Rebuilding, Accounted, Quiet, Unrecorded, Mark, HasPending, tree, index, serve
<1>14. CASE SnapAuto BY <1>14 DEF SnapAuto, Record, RecordView, CommitIfDue, Goto, Done,
     NoRequest, Flow, Rebuilding, Accounted, Quiet, Unrecorded, Mark, HasPending, tree,
     index, serve
<1>15. CASE SnapFails BY <1>15 DEF SnapFails, Slip, Done, NoRequest, Flow, Rebuilding,
     Accounted, Quiet, Unrecorded, Mark, HasPending, tree, index, serve
<1>16. CASE Commit BY <1>16 DEF Commit, Goto, Done, NoRequest, Flow, Rebuilding,
     Accounted, Quiet, Unrecorded, Mark, HasPending, tree, index, serve
<1>17. CASE Swap BY <1>17 DEF Swap, Flow, Rebuilding, Accounted, Quiet, Unrecorded,
     Mark, HasPending, tree, index, serve
<1>18. CASE Write BY <1>18 DEF Write, Goto, Done, NoRequest, Flow, Rebuilding,
     Accounted, Quiet, Unrecorded, Mark, HasPending, tree, index, serve
<1>19. CASE Direct BY <1>19 DEF Direct, Done, NoRequest, Requests, Flow, Rebuilding,
     Accounted, Quiet, Unrecorded, Mark, HasPending, tree, index, serve
<1>20. CASE Reset BY <1>20 DEF Reset, Goto, GiveUp, Slip, NoRequest, Flow, Rebuilding,
     Accounted, Quiet, Unrecorded, Mark, HasPending, tree, index, serve
<1>21. CASE Base BY <1>21 DEF Base, Goto, GiveUp, NoRequest, Flow, Rebuilding,
     Accounted, Quiet, Unrecorded, Mark, HasPending, tree, index, serve
<1>22. CASE BaseRow BY <1>22 DEF BaseRow, Record, Goto, GiveUp, NoRequest, Flow,
     Rebuilding, Accounted, Quiet, Unrecorded, Mark, HasPending, tree, index, serve
<1>23. CASE Tail BY <1>23 DEF Tail, Done, GiveUp, NoRequest, TypeOK, Flow, Rebuilding,
     Accounted, Quiet, Unrecorded, Mark, HasPending, tree, index, serve
<1>24. CASE Overflow BY <1>24 DEF Overflow, Flow, Rebuilding, Accounted, Quiet,
     Unrecorded, Mark, HasPending, tree, index, serve
<1>25. CASE Restart BY <1>25 DEF Restart, NoRequest, Flow, Rebuilding, Accounted, Quiet,
     Unrecorded, Mark, HasPending, tree, index, serve
<1>26. ASSUME NEW g \in Gens, Rewind(g) PROVE Accounted'
  BY <1>26 DEF Rewind, NoRequest, Flow, Rebuilding, Accounted, Quiet, Unrecorded, Mark,
     HasPending, tree, index, serve
<1>27. ASSUME NEW f \in Files, NEW g \in Gens, Restore(f, g) PROVE Accounted'
  <2>1. req'.op \in {"restore", "land"} BY <1>27 DEF Restore, NoRequest
  <2>2. /\ pc = "idle" /\ pc' \in {"reset", "prepare", "write"}
        /\ pc' = "reset" \/ state = "ready"
        /\ pc' = "write" => req'.op = "land"
    BY <1>27 DEF Restore, Begin, NoRequest
  <2>3. UNCHANGED <<view, lastGen, pending, rows, slips, state>> BY <1>27 DEF Restore, index
  <2> QED BY <2>1, <2>2, <2>3 DEF Accounted, Quiet, Unrecorded, Mark, HasPending
<1>28. ASSUME NEW f \in Files, NEW v \in Values, Edit(f, v) PROVE Accounted'
  BY <1>28 DEF Edit, Flow, Rebuilding, Accounted, Quiet, Unrecorded, Mark, HasPending,
     tree, index, serve
<1>29. ASSUME NEW f \in Files, Deliver(f) PROVE Accounted'
  BY <1>29 DEF Deliver, Flow, Rebuilding, Accounted, Quiet, Unrecorded, Mark,
     HasPending, tree, index, serve
<1>30. CASE UNCHANGED vars BY <1>30 DEF vars, Flow, Rebuilding, Accounted, Quiet,
     Unrecorded, Mark, HasPending, tree, index, serve
<1> QED BY <1>1, <1>2, <1>3, <1>4, <1>5, <1>6, <1>7, <1>8, <1>9, <1>10, <1>11, <1>12,
     <1>13, <1>14, <1>15, <1>16, <1>17, <1>18, <1>19, <1>20, <1>21, <1>22, <1>23, <1>24,
     <1>25, <1>26, <1>27, <1>28, <1>29, <1>30 DEF Next, Serving

\* The three parts of PipelineInv hold together.
LEMMA PipelineInvHolds == Spec => [](TypeOK /\ PipelineInv)
<1>1. Init => PipelineInv
  BY DEF Init, PipelineInv, Flow, Tracked, Heeded, Accounted, Rebuilding, NoRequest
<1>2. TypeOK /\ PipelineInv /\ [Next]_vars => PipelineInv'
  BY FlowStep, TrackedStep, AccountedStep DEF PipelineInv
<1> QED BY <1>1, <1>2, TypeCorrect, PTL DEF Spec

\* An incremental capture forgets no edit (EditsTracked), whatever fails, until a
\* drain loses its batch or reset_watch fails behind a fresh watcher.
THEOREM EditsTrackedHolds == Spec => []EditsTracked
<1>1. PipelineInv => EditsTracked
  BY DEF PipelineInv, Flow, Tracked, Heeded, Whole, Spared, EditsTracked
<1> QED BY <1>1, PipelineInvHolds, PTL

\* Between requests a checkout ahead of the last row is marked (CapturedPending),
\* so the next tick or request records what auto_checkpoint drained: whatever
\* fails, but for a request that fails once it has drained and an edit that races
\* a baseline, until the next row or baseline.
THEOREM CapturedPendingHolds == Spec => []CapturedPending
<1>1. PipelineInv => CapturedPending
  BY DEF PipelineInv, Accounted, Quiet, Unrecorded, Spared, CaptureIsMarked, CapturedPending
<1> QED BY <1>1, PipelineInvHolds, PTL

\* A noop row of `checkpoint` says the checkout is that generation
\* (NoopTellsTruth), with the exceptions of CapturedPending.
THEOREM NoopTellsTruthHolds == Spec => []NoopTellsTruth
<1>1. PipelineInv => NoopTellsTruth
  BY DEF PipelineInv, Accounted, Quiet, Unrecorded, Spared, NoopIsTrue, NoopTellsTruth
<1> QED BY <1>1, PipelineInvHolds, PTL

\* What a rewind or a user's restore overwrites is on record
\* (OverwrittenIsOnRecord): the safety rows of `rewind` and `restore_paths` suffice.
THEOREM OverwrittenIsOnRecordHolds == Spec => []OverwrittenIsOnRecord
<1>1. ASSUME TypeOK, PipelineInv PROVE OverwrittenIsOnRecord
  <2> SUFFICES ASSUME Spared({"batch", "watcher", "unready"}) PROVE OverwrittenIsOnRecord
    BY DEF OverwrittenIsOnRecord
  <2>a. Whole BY DEF Spared, Whole
  <2>1. ASSUME pc = "write", req.op = "restore", Spared({"failed", "raced"})
        PROVE  Due(req.file) \/ OnRecord(req.file, disk[req.file])
    <3>1. req.file \in Files BY <1>1 DEF TypeOK, ServeOK, Requests
    <3>2. view = lastGen /\ lastGen \in rows
      BY <1>1, <2>1 DEF PipelineInv, Accounted, Quiet, Spared, Unrecorded
    <3>3. ~ orphan /\ state = "ready"
      BY <1>1, <2>1, <2>a DEF PipelineInv, Flow, Rebuilding, Whole
    <3>4. Due(req.file) \/ disk[req.file] = view[req.file]
      BY <1>1, <2>1, <2>a, <3>1, <3>3 DEF PipelineInv, Tracked, Heeded, Due
    <3> QED BY <3>2, <3>4 DEF OnRecord
  <2>2. ASSUME pc = "swap"
        PROVE  \E g \in rows : \A f \in Files : g[f] = disk[f] \/ Due(f)
    <3>1. req.op = "rewind" /\ ~ orphan
      BY <1>1, <2>2, <2>a DEF PipelineInv, Flow, Whole
    <3>2. view = lastGen /\ lastGen \in rows
      BY <1>1, <2>2, <3>1 DEF PipelineInv, Accounted, Unrecorded
    <3>3. \A f \in Files : view[f] = disk[f] \/ Due(f)
      BY <1>1, <2>2, <2>a, <3>1 DEF PipelineInv, Tracked, Heeded, Due
    <3> QED BY <3>2, <3>3
  <2> QED BY <2>1, <2>2 DEF OverwrittenIsOnRecord
<1> QED BY <1>1, PipelineInvHolds, PTL
=============================================================================
