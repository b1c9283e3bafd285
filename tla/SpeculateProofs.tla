-------------------------- MODULE SpeculateProofs --------------------------
(***************************************************************************)
(* What TLAPS proves of Speculate, for any sessions, ceiling, depth of the *)
(* queue and bounds: one command runs at a time, a turn is served its own  *)
(* summary, a reserved key has somebody who gives it back, and no command  *)
(* runs that nobody awaits or can find.                                    *)
(***************************************************************************)
EXTENDS Speculate, WellFoundedInduction, TLAPS

\* A set of numbers that has one of its bounds has a largest one.
LEMMA LargestIs ==
  ASSUME NEW S \in SUBSET Nat, S # {}, NEW m \in Nat, \A x \in S : x <= m
  PROVE  Max(S) \in S /\ \A x \in S : x <= Max(S)
<1> DEFINE T == {m - x : x \in S}
<1>1. T \subseteq Nat /\ T # {}
  <2>1. ASSUME NEW x \in S PROVE m - x \in Nat
    <3>1. x \in Nat /\ x <= m
      OBVIOUS
    <3> QED  BY <3>1
  <2> QED  BY <2>1
<1>2. PICK y \in T : \A z \in T : ~ (<<z, y>> \in OpToRel(<, Nat))
  BY <1>1, NatLessThanWellFounded, WFMin
<1>3. \A z \in T : ~ z < y
  BY <1>1, <1>2 DEF OpToRel
<1>4. PICK x \in S : y = m - x
  BY <1>2
<1>5. ASSUME NEW z \in S PROVE x >= z
  <2>1. x \in Nat /\ z \in Nat
    OBVIOUS
  <2>2. ~ m - z < m - x
    BY <1>3, <1>4
  <2> QED  BY <2>1, <2>2
<1> QED  BY <1>4, <1>5 DEF Max

\* A key is a session and a turn, and NoKey is none.
LEMMA KeyIs ==
  /\ \A k \in Keys : k[1] \in Sessions /\ k[2] \in Nat /\ k[2] > 0 /\ k = <<k[1], k[2]>>
  /\ NoKey \notin Keys
<1>1. MaxTurns \in Nat
  BY BoundsAssumption
<1> QED  BY <1>1 DEF Keys, NoKey

-----------------------------------------------------------------------------
(* Types *)

\* Sequences, as the queue and the reports use them.
LEMMA SeqIs ==
  ASSUME NEW S
  PROVE  /\ <<>> \in Seq(S) /\ DOMAIN <<>> = {}
         /\ \A q \in Seq(S), e \in S : Append(q, e) \in Seq(S)
         /\ \A q \in Seq(S) : q # <<>> => Tail(q) \in Seq(S) /\ Head(q) \in S /\ Head(q) = q[1]
         /\ \A q \in Seq(S) : q # <<>> => 1 \in DOMAIN q
         /\ \A q \in Seq(S) : q # <<>> =>
              \A i \in DOMAIN Tail(q) : i \in Nat /\ i + 1 \in DOMAIN q /\ Tail(q)[i] = q[i + 1] /\ i + 1 # 1
OBVIOUS


\* What an appended element leaves where it was.
LEMMA AppendIs ==
  ASSUME NEW S, NEW q \in Seq(S), NEW e
  PROVE  \A i \in DOMAIN Append(q, e) :
           \/ i = Len(q) + 1 /\ Append(q, e)[i] = e
           \/ i \in DOMAIN q /\ Append(q, e)[i] = q[i]
OBVIOUS

\* What waits in the queue.
Events ==
  [kind : {"turn", "invalidate", "shutdown"}, session : Sessions \cup {Nobody}, turn : Nat]

\* Events name a session and a turn, and sessions have turns.
EventsOK ==
  /\ queue \in Seq(Events)
  /\ turns \in [Sessions -> Nat]

\* Every step keeps the events and the turns in order.
LEMMA StepEvents == EventsOK /\ [Next]_vars => EventsOK'
<1> SUFFICES ASSUME EventsOK, [Next]_vars PROVE EventsOK'
  OBVIOUS
<1>1. ASSUME NEW s \in Sessions, TurnStart(s) PROVE EventsOK'
  <2>1. Event("turn", s, turns[s] + 1) \in Events
    BY DEF Event, Events, EventsOK
  <2> QED  BY <1>1, <2>1, SeqIs DEF TurnStart, EventsOK, Notify
<1>2. ASSUME NEW s \in Sessions \cup {Nobody}, Invalidate(s) PROVE EventsOK'
  <2>1. Event("invalidate", s, 0) \in Events
    BY DEF Event, Events, EventsOK
  <2> QED  BY <1>2, <2>1, SeqIs DEF Invalidate, EventsOK, Notify
<1>3. ASSUME NEW k \in Keys, AskSummary(k) PROVE EventsOK'
  BY <1>3, SeqIs DEF AskSummary, Waits, memory, files, EventsOK
<1>4. ASSUME NEW k \in Keys, Collect(k) PROVE EventsOK'
  BY <1>4, SeqIs DEF Collect, memory, files, EventsOK
<1>5. ASSUME NEW n \in Runs, Spawn(n) PROVE EventsOK'
  BY <1>5, SeqIs DEF Spawn, memory, files, EventsOK
<1>6. ASSUME NEW n \in Runs, RecordPid(n) PROVE EventsOK'
  BY <1>6, SeqIs DEF RecordPid, memory, files, EventsOK
<1>7. ASSUME NEW n \in Runs, SpawnFails(n) PROVE EventsOK'
  BY <1>7, SeqIs DEF SpawnFails, Over, memory, files, EventsOK
<1>8. ASSUME NEW n \in Runs, Ends(n) PROVE EventsOK'
  BY <1>8, SeqIs DEF Ends, Over, memory, files, EventsOK
<1>9. ASSUME NEW n \in Runs, Timeout(n) PROVE EventsOK'
  BY <1>9, SeqIs DEF Timeout, Terminate, memory, files, EventsOK
<1>10. ASSUME NEW n \in Runs, Cancelled(n) PROVE EventsOK'
  BY <1>10, SeqIs DEF Cancelled, Terminate, memory, files, EventsOK
<1>11. ASSUME NEW n \in Runs, Kill(n) PROVE EventsOK'
  BY <1>11, SeqIs DEF Kill, Over, memory, files, EventsOK
<1>12. ASSUME NEW n \in Runs, Exits(n) PROVE EventsOK'
  BY <1>12, SeqIs DEF Exits, memory, files, EventsOK
<1>13. CASE SkipTurn
  BY <1>13, SeqIs DEF SkipTurn, memory, files, EventsOK
<1>14. CASE BeginSummary
  BY <1>14, SeqIs DEF BeginSummary, memory, files, EventsOK
<1>15. CASE GiveUp
  BY <1>15, SeqIs DEF GiveUp, memory, files, EventsOK
<1>16. CASE StartRun
  BY <1>16, SeqIs DEF StartRun, memory, files, EventsOK
<1>17. CASE HandleInvalidate
  BY <1>17, SeqIs DEF HandleInvalidate, memory, files, EventsOK
<1>18. CASE Record
  BY <1>18, SeqIs DEF Record, memory, files, EventsOK
<1>19. CASE Shutdown
  BY <1>19, SeqIs DEF Shutdown, Gone, memory, files, EventsOK
<1>20. CASE AskStop
  <2>1. Event("shutdown", Nobody, 0) \in Events
    BY DEF Event, Events, EventsOK
  <2> QED  BY <1>20, <2>1, SeqIs DEF AskStop, EventsOK
<1>21. CASE Join
  BY <1>21, SeqIs DEF Join, Waits, memory, files, EventsOK
<1>22. CASE Deadline
  BY <1>22, SeqIs DEF Deadline, memory, files, EventsOK
<1>23. CASE Rest
  BY <1>23, SeqIs DEF Rest, memory, files, EventsOK
<1>24. CASE Die
  BY <1>24, SeqIs DEF Die, Gone, memory, files, EventsOK
<1>25. CASE Restart
  BY <1>25, SeqIs DEF Restart, memory, files, EventsOK
<1>26. CASE UNCHANGED vars
  BY <1>26, SeqIs DEF vars, memory, files, EventsOK
<1> QED
  BY <1>1, <1>2, <1>3, <1>4, <1>5, <1>6, <1>7, <1>8, <1>9, <1>10, <1>11, <1>12, <1>13,
     <1>14, <1>15, <1>16, <1>17, <1>18, <1>19, <1>20, <1>21, <1>22, <1>23, <1>24, <1>25,
     <1>26 DEF Next, Task, Scheduler

\* A row of the table, and a reference to one.
Row == [state : States, id : Nat, body : Bodies]

Ref == [key : Bodies, id : Nat]

\* The table has a row per key, and the scheduler two references.
TableOK ==
  /\ up \in BOOLEAN
  /\ cache \in [Keys -> Row]
  /\ \E m \in Nat : \A k \in Keys : cache[k].id <= m
  /\ looking \in Ref
  /\ inFlight \in Ref

\* The runs have a task each.
Places == {"none", "made", "bare", "running", "killing", "over"}

\* Where a task stands that has not ended.
Busy == {"made", "bare", "running", "killing"}

Results == Outcomes \cup {"none"}

Job ==
  [at : Places, key : Bodies, id : Nat, told : BOOLEAN, outcome : Results,
   leader : BOOLEAN, kin : BOOLEAN, loose : BOOLEAN, missed : BOOLEAN]

RunsOK == runs \in [Runs -> Job] /\ reports \in Seq(Runs)

\* A run that is being killed, or has reported, has an outcome.
Reported ==
  /\ \A n \in Runs : runs[n].at = "killing" => runs[n].outcome \in Outcomes
  /\ \A i \in DOMAIN reports : /\ runs[reports[i]].at = "over"
                               /\ runs[reports[i]].outcome \in Outcomes

\* A task stays one when a field of it changes.
LEMMA FieldIs ==
  ASSUME NEW r \in Job
  PROVE  /\ \A a \in Places : [r EXCEPT !.at = a] \in Job
         /\ \A b \in BOOLEAN : /\ [r EXCEPT !.told = b] \in Job
                               /\ [r EXCEPT !.leader = b] \in Job
                               /\ [r EXCEPT !.kin = b] \in Job
                               /\ [r EXCEPT !.loose = b] \in Job
                               /\ [r EXCEPT !.missed = b] \in Job
         /\ \A o \in Results : [r EXCEPT !.outcome = o] \in Job
BY DEF Job

\* The types of a task's fields.
LEMMA JobIs ==
  ASSUME RunsOK, NEW n \in Runs
  PROVE  /\ runs[n] \in Job
         /\ runs[n].at \in Places /\ runs[n].key \in Bodies /\ runs[n].id \in Nat
         /\ runs[n].outcome \in Results
         /\ runs[n].told \in BOOLEAN /\ runs[n].leader \in BOOLEAN
         /\ runs[n].kin \in BOOLEAN /\ runs[n].loose \in BOOLEAN
         /\ runs[n].missed \in BOOLEAN
<1>1. runs[n] \in Job
  BY DEF RunsOK
<1> QED  BY <1>1 DEF Job

\* A run whose group was killed.
Reaped(n) == [[runs[n] EXCEPT !.leader = FALSE] EXCEPT !.kin = FALSE]

\* What a sweep leaves of the runs: missed, reaped, or as they were without a file.
LEMMA RestartIs ==
  ASSUME Restart
  PROVE  \E strangers \in SUBSET {n \in pids : runs[n].leader} :
           runs' = [n \in Runs |-> IF n \in strangers THEN [runs[n] EXCEPT !.missed = TRUE]
                                   ELSE IF runs[n].leader /\ n \in pids THEN Reaped(n)
                                   ELSE runs[n]]
BY DEF Restart, Sweep, Reaped

\* A sweep lets a run's command live only if it missed it, or had no file of it.
LEMMA SweepIs ==
  ASSUME RunsOK, Restart
  PROVE  /\ runs' \in [Runs -> Job]
         /\ \A n \in Runs :
              /\ runs'[n].at = runs[n].at /\ runs'[n].outcome = runs[n].outcome
              /\ runs'[n].key = runs[n].key /\ runs'[n].id = runs[n].id
              /\ runs'[n].told = runs[n].told /\ runs'[n].loose = runs[n].loose
              /\ runs[n].missed => runs'[n].missed
              /\ runs'[n].leader => runs[n].leader
              /\ runs'[n].leader /\ n \in pids => runs'[n].missed
<1>1. PICK strangers \in SUBSET {n \in pids : runs[n].leader} :
        runs' = [n \in Runs |-> IF n \in strangers THEN [runs[n] EXCEPT !.missed = TRUE]
                                ELSE IF runs[n].leader /\ n \in pids THEN Reaped(n)
                                ELSE runs[n]]
  BY RestartIs
<1>2. ASSUME NEW n \in Runs
      PROVE  /\ Reaped(n) \in Job /\ ~ Reaped(n).leader
             /\ Reaped(n).at = runs[n].at /\ Reaped(n).outcome = runs[n].outcome
             /\ Reaped(n).key = runs[n].key /\ Reaped(n).id = runs[n].id
             /\ Reaped(n).told = runs[n].told /\ Reaped(n).loose = runs[n].loose
             /\ Reaped(n).missed = runs[n].missed
  BY JobIs DEF Job, Reaped
<1>3. ASSUME NEW n \in Runs
      PROVE  /\ [runs[n] EXCEPT !.missed = TRUE] \in Job
             /\ [runs[n] EXCEPT !.missed = TRUE].at = runs[n].at
             /\ [runs[n] EXCEPT !.missed = TRUE].outcome = runs[n].outcome
             /\ [runs[n] EXCEPT !.missed = TRUE].key = runs[n].key
             /\ [runs[n] EXCEPT !.missed = TRUE].id = runs[n].id
             /\ [runs[n] EXCEPT !.missed = TRUE].told = runs[n].told
             /\ [runs[n] EXCEPT !.missed = TRUE].loose = runs[n].loose
             /\ [runs[n] EXCEPT !.missed = TRUE].leader = runs[n].leader
             /\ [runs[n] EXCEPT !.missed = TRUE].missed
  BY JobIs DEF Job
<1>4. runs' \in [Runs -> Job]
  BY <1>1, <1>2, <1>3, JobIs
<1>5. ASSUME NEW n \in Runs
      PROVE  /\ runs'[n].at = runs[n].at /\ runs'[n].outcome = runs[n].outcome
             /\ runs'[n].key = runs[n].key /\ runs'[n].id = runs[n].id
             /\ runs'[n].told = runs[n].told /\ runs'[n].loose = runs[n].loose
             /\ runs[n].missed => runs'[n].missed
             /\ runs'[n].leader => runs[n].leader
             /\ runs'[n].leader /\ n \in pids => runs'[n].missed
  <2>1. CASE n \in strangers
    <3>1. runs'[n] = [runs[n] EXCEPT !.missed = TRUE]
      BY <1>1, <2>1
    <3> QED  BY <3>1, <1>3
  <2>2. CASE n \notin strangers /\ runs[n].leader /\ n \in pids
    <3>1. runs'[n] = Reaped(n)
      BY <1>1, <2>2
    <3> QED  BY <3>1, <1>2
  <2>3. CASE n \notin strangers /\ ~ (runs[n].leader /\ n \in pids)
    <3>1. runs'[n] = runs[n]
      BY <1>1, <2>3
    <3> QED  BY <3>1, <2>3
  <2> QED  BY <2>1, <2>2, <2>3
<1> QED  BY <1>4, <1>5

\* The types of what a row is made of.
LEMMA RowIs ==
  /\ \A state \in States, id \in Nat, body \in Bodies : Entry(state, id, body) \in Row
  /\ \A row \in Row : row.state \in States /\ row.id \in Nat /\ row.body \in Bodies
  /\ Blank \in Row /\ Blank.id = 0
BY DEF Row, Entry, Blank, States, Bodies, NoKey

\* The types of what a reference is made of.
LEMMA RefIs ==
  /\ \A key \in Bodies, id \in Nat : [key |-> key, id |-> id] \in Ref
  /\ \A ref \in Ref : ref.key \in Bodies /\ ref.id \in Nat
  /\ None \in Ref
BY DEF Ref, None, Bodies

\* finish keeps the ids.
LEMMA FinishIs ==
  ASSUME TableOK, NEW id \in Nat, NEW outcome \in Outcomes, NEW body \in Bodies
  PROVE  /\ Finish(id, outcome, body) \in [Keys -> Row]
         /\ \A k \in Keys : Finish(id, outcome, body)[k].id = cache[k].id
<1> DEFINE new == IF outcome = "ready" THEN body ELSE NoKey
<1>1. Entry(outcome, id, new) \in Row
  BY RowIs DEF States, Bodies
<1>2. Entry(outcome, id, new).id = id
  BY DEF Entry
<1> QED  BY <1>1, <1>2 DEF Finish, TableOK

\* The table keeps its type when its rows keep theirs and their ids.
LEMMA SameIds ==
  ASSUME TableOK, cache' \in [Keys -> Row], \A k \in Keys : cache'[k].id \in {cache[k].id, 0},
         up' \in BOOLEAN, looking' \in Ref, inFlight' \in Ref
  PROVE  TableOK'
<1>1. PICK m \in Nat : \A k \in Keys : cache[k].id <= m
  BY DEF TableOK
<1>2. \A k \in Keys : cache'[k].id <= m
  BY <1>1
<1> QED  BY <1>1, <1>2 DEF TableOK

\* A new row's id is above those of the other rows.
LEMMA NextIs ==
  ASSUME TableOK, NEW k \in Keys
  PROVE  /\ NextId(k) \in Nat /\ NextId(k) > 0
         /\ \A j \in Keys : j # k => cache[j].id < NextId(k)
<1> DEFINE S == {cache[j].id : j \in Keys \ {k}} \cup {0}
<1>1. \A j \in Keys : cache[j].id \in Nat
  BY RowIs DEF TableOK
<1>2. PICK m \in Nat : \A j \in Keys : cache[j].id <= m
  BY DEF TableOK
<1>3. S \in SUBSET Nat /\ S # {} /\ \A x \in S : x <= m
  BY <1>1, <1>2
<1> HIDE DEF S
<1>4. Max(S) \in S /\ \A x \in S : x <= Max(S)
  BY <1>2, <1>3, LargestIs
<1>5. NextId(k) = Max(S) + 1
  BY DEF NextId, S
<1>6. 0 \in S /\ \A j \in Keys : j # k => cache[j].id \in S
  BY DEF S
<1>7. Max(S) \in Nat
  BY <1>3, <1>4
<1> QED  BY <1>1, <1>4, <1>5, <1>6, <1>7

\* Every step keeps the table's types.
LEMMA StepTable == TableOK /\ RunsOK /\ Reported /\ [Next]_vars => TableOK'
<1> SUFFICES ASSUME TableOK, RunsOK, Reported, [Next]_vars PROVE TableOK'
  OBVIOUS
<1>1. ASSUME NEW s \in Sessions, TurnStart(s) PROVE TableOK'
  BY <1>1 DEF TurnStart, Notify, Event, memory, files, TableOK
<1>2. ASSUME NEW s \in Sessions \cup {Nobody}, Invalidate(s) PROVE TableOK'
  BY <1>2 DEF Invalidate, Notify, Event, memory, files, TableOK
<1>3. ASSUME NEW k \in Keys, AskSummary(k) PROVE TableOK'
  BY <1>3 DEF AskSummary, Waits, memory, files, TableOK
<1>4. ASSUME NEW k \in Keys, Collect(k) PROVE TableOK'
  <2>1. cache' \in [Keys -> Row] /\ \A j \in Keys : cache'[j].id \in {cache[j].id, 0}
    BY <1>4, RowIs DEF Collect, TableOK
  <2> QED  BY <1>4, <2>1, SameIds DEF Collect, memory, TableOK
<1>5. ASSUME NEW n \in Runs, Spawn(n) PROVE TableOK'
  BY <1>5 DEF Spawn, memory, files, TableOK
<1>6. ASSUME NEW n \in Runs, RecordPid(n) PROVE TableOK'
  BY <1>6 DEF RecordPid, memory, files, TableOK
<1>7. ASSUME NEW n \in Runs, SpawnFails(n) PROVE TableOK'
  BY <1>7 DEF SpawnFails, Over, memory, files, TableOK
<1>8. ASSUME NEW n \in Runs, Ends(n) PROVE TableOK'
  BY <1>8 DEF Ends, Over, memory, files, TableOK
<1>9. ASSUME NEW n \in Runs, Timeout(n) PROVE TableOK'
  BY <1>9 DEF Timeout, Terminate, memory, files, TableOK
<1>10. ASSUME NEW n \in Runs, Cancelled(n) PROVE TableOK'
  BY <1>10 DEF Cancelled, Terminate, memory, files, TableOK
<1>11. ASSUME NEW n \in Runs, Kill(n) PROVE TableOK'
  BY <1>11 DEF Kill, Over, memory, files, TableOK
<1>12. ASSUME NEW n \in Runs, Exits(n) PROVE TableOK'
  BY <1>12 DEF Exits, memory, files, TableOK
<1>13. CASE SkipTurn
  BY <1>13 DEF SkipTurn, memory, files, TableOK
<1>14. CASE BeginSummary
  <2>1. PICK k \in Keys : /\ cache' = [cache EXCEPT ![k] = Entry("running", NextId(k), NoKey)]
                       /\ looking' = [key |-> k, id |-> NextId(k)]
    BY <1>14 DEF BeginSummary
  <2>2. NextId(k) \in Nat
    BY NextIs
  <2>3. Entry("running", NextId(k), NoKey) \in Row
          /\ Entry("running", NextId(k), NoKey).id = NextId(k)
    BY <2>2, RowIs DEF States, Bodies, Entry
  <2>4. looking' \in Ref
    BY <2>1, <2>2, RefIs DEF Bodies
  <2>5. PICK m \in Nat : \A j \in Keys : cache[j].id <= m
    BY DEF TableOK
  <2>6. \A j \in Keys : cache[j].id \in Nat
    BY RowIs DEF TableOK
  <2>7. cache' \in [Keys -> Row]
    BY <2>1, <2>3 DEF TableOK
  <2>8. \A j \in Keys : cache'[j].id = IF j = k THEN NextId(k) ELSE cache[j].id
    BY <2>1, <2>3 DEF TableOK
  <2>9. \A j \in Keys : cache'[j].id <= m + NextId(k)
    BY <2>2, <2>5, <2>6, <2>8
  <2>10. m + NextId(k) \in Nat
    BY <2>2
  <2> QED  BY <1>14, <2>4, <2>7, <2>9, <2>10 DEF BeginSummary, TableOK
<1>15. CASE GiveUp
  <2>1. looking.id \in Nat /\ "failed" \in Outcomes /\ NoKey \in Bodies
    BY RefIs DEF TableOK, Outcomes, Bodies
  <2>2. cache' \in [Keys -> Row] /\ \A k \in Keys : cache'[k].id = cache[k].id
    BY <1>15, <2>1, FinishIs DEF GiveUp
  <2> QED  BY <1>15, <2>2, SameIds, RefIs DEF GiveUp, TableOK
<1>16. CASE StartRun
  <2> QED  BY <1>16, RefIs DEF StartRun, TableOK
<1>17. CASE HandleInvalidate
  <2>1. inFlight.id \in Nat /\ "cancelled" \in Outcomes /\ NoKey \in Bodies
    BY RefIs DEF TableOK, Outcomes, Bodies
  <2>2. cache' = cache \/ cache' = Finish(inFlight.id, "cancelled", NoKey)
    BY <1>17 DEF HandleInvalidate, Cancel
  <2>3. cache' \in [Keys -> Row] /\ \A k \in Keys : cache'[k].id = cache[k].id
    BY <2>1, <2>2, FinishIs DEF TableOK
  <2>4. looking' \in Ref /\ inFlight' \in Ref /\ up' = up
    BY <1>17, RefIs DEF HandleInvalidate, Cancel, TableOK
  <2> QED  BY <2>3, <2>4, SameIds DEF TableOK
<1>18. CASE Record
  <2>1. looking' \in Ref /\ inFlight' \in Ref /\ up' = up
    BY <1>18, RefIs DEF Record, TableOK
  <2> DEFINE run == runs[Head(reports)]
  <2>2. Head(reports) \in Runs /\ 1 \in DOMAIN reports /\ reports[1] = Head(reports)
    BY <1>18 DEF Record, RunsOK
  <2>3. run.outcome \in Outcomes /\ run.id \in Nat /\ run.key \in Bodies
    BY <2>2, JobIs DEF Reported
  <2>4. cache' = cache \/ cache' = Finish(run.id, run.outcome, run.key)
    BY <1>18 DEF Record
  <2>5. cache' \in [Keys -> Row] /\ \A k \in Keys : cache'[k].id = cache[k].id
    BY <2>3, <2>4, FinishIs DEF TableOK
  <2> QED  BY <2>1, <2>5, SameIds DEF TableOK
<1>19. CASE Shutdown
  <2>1. inFlight.id \in Nat /\ "cancelled" \in Outcomes /\ NoKey \in Bodies
    BY RefIs DEF TableOK, Outcomes, Bodies
  <2>2. cache' = cache \/ cache' = Finish(inFlight.id, "cancelled", NoKey)
    BY <1>19 DEF Shutdown
  <2>3. cache' \in [Keys -> Row] /\ \A k \in Keys : cache'[k].id = cache[k].id
    BY <2>1, <2>2, FinishIs DEF TableOK
  <2> QED  BY <1>19, <2>3, SameIds, RefIs DEF Shutdown, Gone
<1>20. CASE AskStop
  BY <1>20 DEF AskStop, Event, memory, files, TableOK
<1>21. CASE Join
  BY <1>21 DEF Join, Waits, memory, files, TableOK
<1>22. CASE Deadline
  BY <1>22 DEF Deadline, memory, files, TableOK
<1>23. CASE Rest
  BY <1>23 DEF Rest, memory, files, TableOK
<1>24. CASE Die
  <2> QED  BY <1>24, RefIs DEF Die, Gone, TableOK
<1>25. CASE Restart
  <2>1. \A k \in Keys : Entry("orphaned", cache[k].id, NoKey) \in Row
    BY RowIs DEF States, Bodies, TableOK
  <2>2. \A k \in Keys : Entry("orphaned", cache[k].id, NoKey).id = cache[k].id
    BY DEF Entry
  <2>3. cache' \in [Keys -> Row] /\ \A k \in Keys : cache'[k].id = cache[k].id
    BY <1>25, <2>1, <2>2 DEF Restart, TableOK
  <2> QED  BY <1>25, <2>3, SameIds DEF Restart, memory, TableOK
<1>26. CASE UNCHANGED vars
  BY <1>26 DEF vars, memory, files, TableOK
<1> QED
  BY <1>1, <1>2, <1>3, <1>4, <1>5, <1>6, <1>7, <1>8, <1>9, <1>10, <1>11, <1>12, <1>13,
     <1>14, <1>15, <1>16, <1>17, <1>18, <1>19, <1>20, <1>21, <1>22, <1>23, <1>24, <1>25,
     <1>26 DEF Next, Task, Scheduler

\* Every step keeps the runs' types.
LEMMA StepRuns == RunsOK /\ TableOK /\ [Next]_vars => RunsOK'
<1> SUFFICES ASSUME RunsOK, TableOK, [Next]_vars PROVE RunsOK'
  OBVIOUS
<1>1. ASSUME NEW s \in Sessions, TurnStart(s) PROVE RunsOK'
  BY <1>1, SeqIs DEF TurnStart, Notify, Event, memory, files, RunsOK
<1>2. ASSUME NEW s \in Sessions \cup {Nobody}, Invalidate(s) PROVE RunsOK'
  BY <1>2, SeqIs DEF Invalidate, Notify, Event, memory, files, RunsOK
<1>3. ASSUME NEW k \in Keys, AskSummary(k) PROVE RunsOK'
  BY <1>3, SeqIs DEF AskSummary, Waits, memory, files, RunsOK
<1>4. ASSUME NEW k \in Keys, Collect(k) PROVE RunsOK'
  BY <1>4, SeqIs DEF Collect, memory, files, RunsOK
<1>5. ASSUME NEW n \in Runs, Spawn(n) PROVE RunsOK'
  <2>1. [[[runs[n] EXCEPT !.at = "bare"] EXCEPT !.leader = TRUE] EXCEPT !.kin = TRUE] \in Job
    BY JobIs, FieldIs DEF Places
  <2> QED  BY <1>5, <2>1 DEF Spawn, RunsOK
<1>6. ASSUME NEW n \in Runs, RecordPid(n) PROVE RunsOK'
  <2>1. (~ pidsDir) \in BOOLEAN
    OBVIOUS
  <2>2. [[runs[n] EXCEPT !.at = "running"] EXCEPT !.loose = ~ pidsDir] \in Job
    BY <2>1, FieldIs, JobIs DEF Places
  <2>3. runs' = [runs EXCEPT ![n] = [[runs[n] EXCEPT !.at = "running"] EXCEPT !.loose = ~ pidsDir]]
    BY <1>6 DEF RecordPid
  <2> QED  BY <1>6, <2>2, <2>3 DEF RecordPid, RunsOK
<1>7. ASSUME NEW n \in Runs, SpawnFails(n) PROVE RunsOK'
  <2>1. [[runs[n] EXCEPT !.at = "over"] EXCEPT !.outcome = "failed"] \in Job
    BY FieldIs, JobIs DEF Places, Results, Outcomes
  <2>2. runs' = [runs EXCEPT ![n] = [[runs[n] EXCEPT !.at = "over"] EXCEPT !.outcome = "failed"]]
    BY <1>7 DEF SpawnFails, Over
  <2>3. reports' = Append(reports, n)
    BY <1>7 DEF SpawnFails, Over
  <2> QED  BY <2>1, <2>2, <2>3, SeqIs DEF RunsOK
<1>8. ASSUME NEW n \in Runs, Ends(n) PROVE RunsOK'
  <2>1. PICK o \in {"ready", "failed", "overflow"} : Over(n, o, runs[n])
    BY <1>8 DEF Ends
  <2>2. [[runs[n] EXCEPT !.at = "over"] EXCEPT !.outcome = o] \in Job
    BY FieldIs, JobIs DEF Places, Results, Outcomes
  <2>3. runs' = [runs EXCEPT ![n] = [[runs[n] EXCEPT !.at = "over"] EXCEPT !.outcome = o]]
    BY <2>1 DEF Over
  <2>4. reports' = Append(reports, n)
    BY <2>1 DEF Over
  <2> QED  BY <2>2, <2>3, <2>4, SeqIs DEF RunsOK
<1>9. ASSUME NEW n \in Runs, Timeout(n) PROVE RunsOK'
  <2>1. PICK stay \in {FALSE, runs[n].kin} :
          runs' = [runs EXCEPT ![n] = [[[[runs[n] EXCEPT !.at = "killing"]
                     EXCEPT !.outcome = "timeout"] EXCEPT !.leader = FALSE] EXCEPT !.kin = stay]]
    BY <1>9 DEF Timeout, Terminate
  <2>2. stay \in BOOLEAN
    BY JobIs
  <2>3. [[[[runs[n] EXCEPT !.at = "killing"] EXCEPT !.outcome = "timeout"]
           EXCEPT !.leader = FALSE] EXCEPT !.kin = stay] \in Job
    BY <2>2, JobIs, FieldIs DEF Places, Results, Outcomes
  <2> QED  BY <1>9, <2>1, <2>3 DEF Timeout, Terminate, RunsOK
<1>10. ASSUME NEW n \in Runs, Cancelled(n) PROVE RunsOK'
  <2>1. PICK stay \in {FALSE, runs[n].kin} :
          runs' = [runs EXCEPT ![n] = [[[[runs[n] EXCEPT !.at = "killing"]
                     EXCEPT !.outcome = "cancelled"] EXCEPT !.leader = FALSE] EXCEPT !.kin = stay]]
    BY <1>10 DEF Cancelled, Terminate
  <2>2. stay \in BOOLEAN
    BY JobIs
  <2>3. [[[[runs[n] EXCEPT !.at = "killing"] EXCEPT !.outcome = "cancelled"]
           EXCEPT !.leader = FALSE] EXCEPT !.kin = stay] \in Job
    BY <2>2, JobIs, FieldIs DEF Places, Results, Outcomes
  <2> QED  BY <1>10, <2>1, <2>3 DEF Cancelled, Terminate, RunsOK
<1>11. ASSUME NEW n \in Runs, Kill(n) PROVE RunsOK'
  <2>1. [[[runs[n] EXCEPT !.kin = FALSE] EXCEPT !.at = "over"] EXCEPT !.outcome = runs[n].outcome] \in Job
    BY FieldIs, JobIs DEF Places
  <2>2. runs' = [runs EXCEPT ![n] = [[[runs[n] EXCEPT !.kin = FALSE] EXCEPT !.at = "over"]
                                       EXCEPT !.outcome = runs[n].outcome]]
    BY <1>11 DEF Kill, Over
  <2>3. reports' = Append(reports, n)
    BY <1>11 DEF Kill, Over
  <2> QED  BY <2>1, <2>2, <2>3, SeqIs DEF RunsOK
<1>12. ASSUME NEW n \in Runs, Exits(n) PROVE RunsOK'
  <2>1. PICK stay \in {FALSE, runs[n].kin} :
          runs' = [runs EXCEPT ![n] = [[runs[n] EXCEPT !.leader = FALSE] EXCEPT !.kin = stay]]
    BY <1>12 DEF Exits
  <2>2. stay \in BOOLEAN
    BY JobIs
  <2>3. [[runs[n] EXCEPT !.leader = FALSE] EXCEPT !.kin = stay] \in Job
    BY <2>2, JobIs, FieldIs
  <2> QED  BY <1>12, <2>1, <2>3 DEF Exits, RunsOK
<1>13. CASE SkipTurn
  BY <1>13, SeqIs DEF SkipTurn, memory, files, RunsOK
<1>14. CASE BeginSummary
  BY <1>14, SeqIs DEF BeginSummary, memory, files, RunsOK
<1>15. CASE GiveUp
  BY <1>15, SeqIs DEF GiveUp, Finish, memory, files, RunsOK
<1>16. CASE StartRun
  <2>1. PICK n \in Runs :
          runs' = [runs EXCEPT ![n] = [NoTask EXCEPT !.at = "made", !.key = looking.key,
                                                     !.id = looking.id]]
    BY <1>16 DEF StartRun, Of
  <2>2. looking.key \in Bodies /\ looking.id \in Nat
    BY RefIs DEF TableOK
  <2>3. [NoTask EXCEPT !.at = "made", !.key = looking.key, !.id = looking.id] \in Job
    BY <2>2 DEF Job, NoTask, Places, Results
  <2> QED  BY <1>16, <2>1, <2>3 DEF StartRun, RunsOK
<1>17. CASE HandleInvalidate
  <2>1. runs' = runs \/ runs' = Tell(inFlight.id)
    BY <1>17 DEF HandleInvalidate, Cancel
  <2>2. Tell(inFlight.id) \in [Runs -> Job]
    BY FieldIs, JobIs DEF Tell
  <2> QED  BY <1>17, <2>1, <2>2 DEF HandleInvalidate, RunsOK
<1>18. CASE Record
  <2>1. runs' = runs \/ runs' = Tell(runs[Head(reports)].id)
    BY <1>18 DEF Record
  <2>2. ASSUME NEW id PROVE Tell(id) \in [Runs -> Job]
    BY FieldIs, JobIs DEF Tell
  <2>3. reports' \in Seq(Runs)
    BY <1>18, SeqIs DEF Record, RunsOK
  <2> QED  BY <2>1, <2>2, <2>3 DEF RunsOK
<1>19. CASE Shutdown
  <2>1. \A n \in Runs : [[runs[n] EXCEPT !.at = "over"] EXCEPT !.leader = FALSE] \in Job
    BY FieldIs, JobIs DEF Places
  <2>2. runs' \in [Runs -> Job]
    BY <1>19, <2>1, JobIs DEF Shutdown
  <2> QED  BY <1>19, <2>2, SeqIs DEF Shutdown, Gone, RunsOK
<1>20. CASE AskStop
  BY <1>20, SeqIs DEF AskStop, Event, memory, files, RunsOK
<1>21. CASE Join
  BY <1>21, SeqIs DEF Join, Waits, memory, files, RunsOK
<1>22. CASE Deadline
  BY <1>22, SeqIs DEF Deadline, memory, files, RunsOK
<1>23. CASE Rest
  BY <1>23, SeqIs DEF Rest, memory, files, RunsOK
<1>24. CASE Die
  <2>1. \A n \in Runs : (runs[n].loose \/ runs[n].at = "bare") \in BOOLEAN
    OBVIOUS
  <2>2. \A n \in Runs : [[runs[n] EXCEPT !.at = "over"]
                          EXCEPT !.loose = runs[n].loose \/ runs[n].at = "bare"] \in Job
    BY <2>1, FieldIs, JobIs DEF Places
  <2>3. runs' \in [Runs -> Job]
    BY <1>24, <2>2, JobIs DEF Die
  <2> QED  BY <1>24, <2>3, SeqIs DEF Die, Gone, RunsOK
<1>25. CASE Restart
  BY <1>25, SweepIs DEF Restart, RunsOK
<1>26. CASE UNCHANGED vars
  BY <1>26, SeqIs DEF vars, memory, files, RunsOK
<1> QED
  BY <1>1, <1>2, <1>3, <1>4, <1>5, <1>6, <1>7, <1>8, <1>9, <1>10, <1>11, <1>12, <1>13,
     <1>14, <1>15, <1>16, <1>17, <1>18, <1>19, <1>20, <1>21, <1>22, <1>23, <1>24, <1>25,
     <1>26 DEF Next, Task, Scheduler

\* Telling a run changes nothing else about it.
LEMMA TellIs ==
  ASSUME RunsOK, NEW id, NEW n \in Runs
  PROVE  /\ Tell(id)[n].at = runs[n].at /\ Tell(id)[n].outcome = runs[n].outcome
         /\ Tell(id)[n].key = runs[n].key /\ Tell(id)[n].id = runs[n].id
         /\ runs[n].id # id => Tell(id)[n].told = runs[n].told
         /\ runs[n].id = id => Tell(id)[n].told
BY JobIs DEF Tell, Job

\* What a shutdown, a death and a sweep leave of the runs.
LEMMA AfterIs ==
  ASSUME RunsOK, NEW n \in Runs
  PROVE  /\ Shutdown => /\ runs'[n].at \in {"none", "over"} \/ runs'[n].at = runs[n].at
                        /\ runs'[n].at \notin {"made", "running", "killing"}
                        /\ runs[n].at = "over" => runs'[n].at = "over"
                        /\ runs[n].at = "none" => runs'[n].at = "none"
                        /\ runs'[n].at = "none" => runs[n].at = "none"
                        /\ runs'[n].key = runs[n].key /\ runs'[n].id = runs[n].id
         /\ Die => /\ runs'[n].at \in {"none", "over"}
                   /\ runs'[n].at = "none" => runs[n].at = "none"
                   /\ runs'[n].key = runs[n].key /\ runs'[n].id = runs[n].id
         /\ Restart => /\ runs'[n].at = runs[n].at /\ runs'[n].outcome = runs[n].outcome
                       /\ runs'[n].key = runs[n].key /\ runs'[n].id = runs[n].id
                       /\ runs'[n].told = runs[n].told
<1>1. Shutdown => runs'[n] = IF n \in Of({"made", "running", "killing"})
                             THEN [runs[n] EXCEPT !.at = "over", !.leader = FALSE] ELSE runs[n]
  BY DEF Shutdown
<1>2. Die => runs'[n] = IF runs[n].at = "none" THEN runs[n]
                        ELSE [runs[n] EXCEPT !.at = "over", !.loose = @ \/ runs[n].at = "bare"]
  BY DEF Die
<1>3. Restart => /\ runs'[n].at = runs[n].at /\ runs'[n].outcome = runs[n].outcome
                 /\ runs'[n].key = runs[n].key /\ runs'[n].id = runs[n].id
                 /\ runs'[n].told = runs[n].told
  BY SweepIs
<1> HIDE DEF Restart
<1> QED  BY <1>1, <1>2, <1>3, JobIs DEF Job, Of

\* What a step of a task does to the runs: it is for the run that it was, and goes on or
\* reports.
LEMMA TaskIs ==
  ASSUME RunsOK, NEW n \in Runs, Task(n) \/ Exits(n)
  PROVE  /\ \A m \in Runs : runs'[m].key = runs[m].key /\ runs'[m].id = runs[m].id
                            /\ runs'[m].told = runs[m].told
         /\ \A m \in Runs : m # n => runs'[m].at = runs[m].at
         /\ \/ runs[n].at \in Busy
            \/ runs'[n].at = runs[n].at /\ reports' = reports
         /\ \/ runs'[n].at \in Busy /\ reports' = reports
            \/ runs'[n].at = "over" /\ reports' = Append(reports, n)
            \/ runs'[n].at = runs[n].at /\ reports' = reports
         /\ UNCHANGED <<up, queue, turns, cache, memory, client>>
<1> DEFINE Same(m) == runs'[m].key = runs[m].key /\ runs'[m].id = runs[m].id /\ runs'[m].told = runs[m].told
<1>1. CASE Spawn(n)
  <2>1. \A m \in Runs : m # n => runs'[m] = runs[m]
    BY <1>1 DEF Spawn, RunsOK
  <2>2. Same(n) /\ runs'[n].at = "bare"
    BY <1>1 DEF Spawn, RunsOK, Job
  <2>3. /\ reports' = reports /\ UNCHANGED <<up, queue, turns, cache, memory, client>>
        /\ runs[n].at \in Busy
    BY <1>1 DEF Spawn, files, Busy
  <2> QED  BY <2>1, <2>2, <2>3 DEF Busy
<1>2. CASE RecordPid(n)
  <2>1. \A m \in Runs : m # n => runs'[m] = runs[m]
    BY <1>2 DEF RecordPid, RunsOK
  <2>2. Same(n) /\ runs'[n].at = "running"
    BY <1>2 DEF RecordPid, RunsOK, Job
  <2>3. /\ reports' = reports /\ UNCHANGED <<up, queue, turns, cache, memory, client>>
        /\ runs[n].at \in Busy
    BY <1>2 DEF RecordPid, files, Busy
  <2> QED  BY <2>1, <2>2, <2>3 DEF Busy
<1>3. CASE SpawnFails(n)
  <2>1. \A m \in Runs : m # n => runs'[m] = runs[m]
    BY <1>3 DEF SpawnFails, Over, RunsOK
  <2>2. Same(n) /\ runs'[n].at = "over"
    BY <1>3 DEF SpawnFails, Over, RunsOK, Job
  <2>3. /\ reports' = Append(reports, n)
        /\ UNCHANGED <<up, queue, turns, cache, memory, client>>
        /\ runs[n].at \in Busy
    BY <1>3 DEF SpawnFails, Over, files, Busy
  <2> QED  BY <2>1, <2>2, <2>3 DEF Busy
<1>4. CASE Ends(n)
  <2>1. \A m \in Runs : m # n => runs'[m] = runs[m]
    BY <1>4 DEF Ends, Over, RunsOK
  <2>2. Same(n) /\ runs'[n].at = "over"
    BY <1>4 DEF Ends, Over, RunsOK, Job
  <2>3. /\ reports' = Append(reports, n)
        /\ UNCHANGED <<up, queue, turns, cache, memory, client>>
        /\ runs[n].at \in Busy
    BY <1>4 DEF Ends, Over, files, Busy
  <2> QED  BY <2>1, <2>2, <2>3 DEF Busy
<1>5. CASE Timeout(n)
  <2>1. \A m \in Runs : m # n => runs'[m] = runs[m]
    BY <1>5 DEF Timeout, Terminate, RunsOK
  <2>2. Same(n) /\ runs'[n].at = "killing"
    BY <1>5 DEF Timeout, Terminate, RunsOK, Job
  <2>3. /\ reports' = reports /\ UNCHANGED <<up, queue, turns, cache, memory, client>>
        /\ runs[n].at \in Busy
    BY <1>5 DEF Timeout, Terminate, files, Busy
  <2> QED  BY <2>1, <2>2, <2>3 DEF Busy
<1>6. CASE Cancelled(n)
  <2>1. \A m \in Runs : m # n => runs'[m] = runs[m]
    BY <1>6 DEF Cancelled, Terminate, RunsOK
  <2>2. Same(n) /\ runs'[n].at = "killing"
    <3>1. Terminate(n, "cancelled")
      BY <1>6 DEF Cancelled
    <3> QED  BY <3>1 DEF Terminate, RunsOK, Job
  <2>3. /\ reports' = reports /\ UNCHANGED <<up, queue, turns, cache, memory, client>>
        /\ runs[n].at \in Busy
    BY <1>6 DEF Cancelled, Terminate, files, Busy
  <2> QED  BY <2>1, <2>2, <2>3 DEF Busy
<1>7. CASE Kill(n)
  <2>1. \A m \in Runs : m # n => runs'[m] = runs[m]
    BY <1>7 DEF Kill, Over, RunsOK
  <2>2. Same(n) /\ runs'[n].at = "over"
    BY <1>7 DEF Kill, Over, RunsOK, Job
  <2>3. /\ reports' = Append(reports, n)
        /\ UNCHANGED <<up, queue, turns, cache, memory, client>>
        /\ runs[n].at \in Busy
    BY <1>7 DEF Kill, Over, files, Busy
  <2> QED  BY <2>1, <2>2, <2>3 DEF Busy
<1>8. CASE Exits(n)
  <2>1. \A m \in Runs : m # n => runs'[m] = runs[m]
    BY <1>8 DEF Exits, RunsOK
  <2>2. Same(n) /\ runs'[n].at = runs[n].at
    BY <1>8 DEF Exits, RunsOK, Job
  <2>3. /\ reports' = reports /\ UNCHANGED <<up, queue, turns, cache, memory, client>>
    BY <1>8 DEF Exits, files, Busy
  <2> QED  BY <2>1, <2>2, <2>3 DEF Busy
<1> QED  BY <1>1, <1>2, <1>3, <1>4, <1>5, <1>6, <1>7, <1>8 DEF Task

\* A run reports when its task is over.
LEMMA StepReported == RunsOK /\ Reported /\ [Next]_vars => Reported'
<1> SUFFICES ASSUME RunsOK, Reported, [Next]_vars PROVE Reported'
  OBVIOUS
<1>1. ASSUME NEW s \in Sessions, TurnStart(s) PROVE Reported'
  BY <1>1, JobIs DEF TurnStart, Notify, Event, memory, files, Reported, RunsOK, Job,
     Outcomes
<1>2. ASSUME NEW s \in Sessions \cup {Nobody}, Invalidate(s) PROVE Reported'
  BY <1>2, JobIs DEF Invalidate, Notify, Event, memory, files, Reported, RunsOK, Job,
     Outcomes
<1>3. ASSUME NEW k \in Keys, AskSummary(k) PROVE Reported'
  BY <1>3, JobIs DEF AskSummary, Waits, memory, files, Reported, RunsOK, Job, Outcomes
<1>4. ASSUME NEW k \in Keys, Collect(k) PROVE Reported'
  BY <1>4, JobIs DEF Collect, memory, files, Reported, RunsOK, Job, Outcomes
<1>5. ASSUME NEW n \in Runs, Spawn(n) PROVE Reported'
  BY <1>5, JobIs DEF Spawn, memory, files, Reported, RunsOK, Job, Outcomes
<1>6. ASSUME NEW n \in Runs, RecordPid(n) PROVE Reported'
  BY <1>6, JobIs DEF RecordPid, memory, files, Reported, RunsOK, Job, Outcomes
<1>7. ASSUME NEW n \in Runs, SpawnFails(n) PROVE Reported'
  BY <1>7, JobIs DEF SpawnFails, Over, memory, files, Reported, RunsOK, Job, Outcomes
<1>8. ASSUME NEW n \in Runs, Ends(n) PROVE Reported'
  BY <1>8, JobIs DEF Ends, Over, memory, files, Reported, RunsOK, Job, Outcomes
<1>9. ASSUME NEW n \in Runs, Timeout(n) PROVE Reported'
  BY <1>9, JobIs DEF Timeout, Terminate, memory, files, Reported, RunsOK, Job, Outcomes
<1>10. ASSUME NEW n \in Runs, Cancelled(n) PROVE Reported'
  BY <1>10, JobIs DEF Cancelled, Terminate, memory, files, Reported, RunsOK, Job,
     Outcomes
<1>11. ASSUME NEW n \in Runs, Kill(n) PROVE Reported'
  BY <1>11, JobIs DEF Kill, Over, memory, files, Reported, RunsOK, Job, Outcomes
<1>12. ASSUME NEW n \in Runs, Exits(n) PROVE Reported'
  BY <1>12, JobIs DEF Exits, memory, files, Reported, RunsOK, Job, Outcomes
<1>13. CASE SkipTurn
  BY <1>13, JobIs DEF SkipTurn, memory, files, Reported, RunsOK, Job, Outcomes
<1>14. CASE BeginSummary
  BY <1>14, JobIs DEF BeginSummary, memory, files, Reported, RunsOK, Job, Outcomes
<1>15. CASE GiveUp
  BY <1>15, JobIs DEF GiveUp, Finish, memory, files, Reported, RunsOK, Job, Outcomes
<1>16. CASE StartRun
  BY <1>16, JobIs DEF StartRun, Of, memory, files, Reported, RunsOK, Job, Outcomes
<1>17. CASE HandleInvalidate
  <2>1. runs' = runs \/ runs' = Tell(inFlight.id)
    BY <1>17 DEF HandleInvalidate, Cancel
  <2> QED  BY <1>17, <2>1, TellIs DEF HandleInvalidate, Reported, RunsOK
<1>18. CASE Record
  <2>1. runs' = runs \/ runs' = Tell(runs[Head(reports)].id)
    BY <1>18 DEF Record
  <2>2. reports # <<>> /\ reports' = Tail(reports)
    BY <1>18 DEF Record
  <2>3. \A i \in DOMAIN reports' : i + 1 \in DOMAIN reports /\ reports'[i] = reports[i + 1]
    BY <2>2 DEF RunsOK
  <2>4. \A i \in DOMAIN reports : reports[i] \in Runs
    BY DEF RunsOK
  <2> QED  BY <2>1, <2>3, <2>4, TellIs DEF Reported
<1>19. CASE Shutdown
  <2>1. reports' = <<>> /\ DOMAIN reports' = {}
    BY <1>19, SeqIs DEF Shutdown, Gone
  <2>2. \A n \in Runs : runs'[n].at # "killing"
    BY <1>19, AfterIs
  <2> QED  BY <2>1, <2>2 DEF Reported
<1>20. CASE AskStop
  BY <1>20, JobIs DEF AskStop, Event, memory, files, Reported, RunsOK, Job, Outcomes
<1>21. CASE Join
  BY <1>21, JobIs DEF Join, Waits, memory, files, Reported, RunsOK, Job, Outcomes
<1>22. CASE Deadline
  BY <1>22, JobIs DEF Deadline, memory, files, Reported, RunsOK, Job, Outcomes
<1>23. CASE Rest
  BY <1>23, JobIs DEF Rest, memory, files, Reported, RunsOK, Job, Outcomes
<1>24. CASE Die
  <2>1. reports' = <<>> /\ DOMAIN reports' = {}
    BY <1>24, SeqIs DEF Die, Gone
  <2>2. \A n \in Runs : runs'[n].at # "killing"
    BY <1>24, AfterIs
  <2> QED  BY <2>1, <2>2 DEF Reported
<1>25. CASE Restart
  <2>1. \A n \in Runs : runs'[n].at = runs[n].at /\ runs'[n].outcome = runs[n].outcome
    BY <1>25, AfterIs
  <2>2. reports' = reports /\ \A i \in DOMAIN reports : reports[i] \in Runs
    BY <1>25 DEF Restart, RunsOK
  <2> QED  BY <2>1, <2>2 DEF Reported
<1>26. CASE UNCHANGED vars
  BY <1>26, JobIs DEF vars, memory, files, Reported, RunsOK, Job, Outcomes
<1> QED
  BY <1>1, <1>2, <1>3, <1>4, <1>5, <1>6, <1>7, <1>8, <1>9, <1>10, <1>11, <1>12, <1>13,
     <1>14, <1>15, <1>16, <1>17, <1>18, <1>19, <1>20, <1>21, <1>22, <1>23, <1>24, <1>25,
     <1>26 DEF Next, Task, Scheduler

-----------------------------------------------------------------------------
(* One run at a time *)

\* The scheduler awaits a diff only while no run is current; what it awaits is a turn's, and
\* so is every run that was made.
Single ==
  /\ looking # None => inFlight = None /\ looking.key \in Keys
  /\ \A n \in Runs : runs[n].at # "none" => runs[n].key \in Keys
  /\ ~ up => looking = None /\ inFlight = None

\* Only a diff that was awaited makes a run, and it is awaited when there is none.
LEMMA StepSingle == TableOK /\ RunsOK /\ Single /\ [Next]_vars => Single'
<1> SUFFICES ASSUME TableOK, RunsOK, Single, [Next]_vars PROVE Single'
  OBVIOUS
<1>1. ASSUME NEW s \in Sessions, TurnStart(s) PROVE Single'
  BY <1>1, JobIs DEF TurnStart, Notify, Event, memory, files, Single, RunsOK, Job
<1>2. ASSUME NEW s \in Sessions \cup {Nobody}, Invalidate(s) PROVE Single'
  BY <1>2, JobIs DEF Invalidate, Notify, Event, memory, files, Single, RunsOK, Job
<1>3. ASSUME NEW k \in Keys, AskSummary(k) PROVE Single'
  BY <1>3, JobIs DEF AskSummary, Waits, memory, files, Single, RunsOK, Job
<1>4. ASSUME NEW k \in Keys, Collect(k) PROVE Single'
  BY <1>4, JobIs DEF Collect, memory, files, Single, RunsOK, Job
<1>5. ASSUME NEW n \in Runs, Spawn(n) PROVE Single'
  BY <1>5, JobIs DEF Spawn, memory, files, Single, RunsOK, Job
<1>6. ASSUME NEW n \in Runs, RecordPid(n) PROVE Single'
  BY <1>6, JobIs DEF RecordPid, memory, files, Single, RunsOK, Job
<1>7. ASSUME NEW n \in Runs, SpawnFails(n) PROVE Single'
  BY <1>7, JobIs DEF SpawnFails, Over, memory, files, Single, RunsOK, Job
<1>8. ASSUME NEW n \in Runs, Ends(n) PROVE Single'
  BY <1>8, JobIs DEF Ends, Over, memory, files, Single, RunsOK, Job
<1>9. ASSUME NEW n \in Runs, Timeout(n) PROVE Single'
  BY <1>9, JobIs DEF Timeout, Terminate, memory, files, Single, RunsOK, Job
<1>10. ASSUME NEW n \in Runs, Cancelled(n) PROVE Single'
  BY <1>10, JobIs DEF Cancelled, Terminate, memory, files, Single, RunsOK, Job
<1>11. ASSUME NEW n \in Runs, Kill(n) PROVE Single'
  BY <1>11, JobIs DEF Kill, Over, memory, files, Single, RunsOK, Job
<1>12. ASSUME NEW n \in Runs, Exits(n) PROVE Single'
  BY <1>12, JobIs DEF Exits, memory, files, Single, RunsOK, Job
<1>13. CASE SkipTurn
  BY <1>13, JobIs DEF SkipTurn, memory, files, Single, RunsOK, Job
<1>14. CASE BeginSummary
  <2>1. runs' = runs /\ inFlight' = inFlight /\ inFlight = None /\ looking'.key \in Keys /\ up'
    BY <1>14 DEF BeginSummary, MaySpend, Loop, Free
  <2> QED  BY <2>1 DEF Single
<1>15. CASE GiveUp
  BY <1>15, JobIs DEF GiveUp, Finish, memory, files, Single, RunsOK, Job
<1>16. CASE StartRun
  BY <1>16, JobIs DEF StartRun, Of, memory, files, Single, RunsOK, Job
<1>17. CASE HandleInvalidate
  <2>1. runs' = runs \/ runs' = Tell(inFlight.id)
    BY <1>17 DEF HandleInvalidate, Cancel
  <2>2. \A n \in Runs : runs'[n].at = runs[n].at /\ runs'[n].key = runs[n].key
    BY <2>1, TellIs
  <2>3. looking' = looking /\ inFlight' \in {inFlight, None} /\ up' = up
    BY <1>17 DEF HandleInvalidate, Cancel
  <2> QED  BY <2>2, <2>3 DEF Single
<1>18. CASE Record
  BY <1>18, TellIs, SMTT(60) DEF Record, memory, files, Single, RunsOK
<1>19. CASE Shutdown
  BY <1>19, JobIs DEF Shutdown, Finish, Gone, Of, memory, files, Single, RunsOK, Job
<1>20. CASE AskStop
  BY <1>20, JobIs DEF AskStop, Event, memory, files, Single, RunsOK, Job
<1>21. CASE Join
  BY <1>21, JobIs DEF Join, Waits, memory, files, Single, RunsOK, Job
<1>22. CASE Deadline
  BY <1>22, JobIs DEF Deadline, memory, files, Single, RunsOK, Job
<1>23. CASE Rest
  BY <1>23, JobIs DEF Rest, memory, files, Single, RunsOK, Job
<1>24. CASE Die
  BY <1>24, JobIs DEF Die, Gone, memory, files, Single, RunsOK, Job
<1>25. CASE Restart
  BY <1>25, SweepIs, JobIs DEF Restart, memory, files, Single, RunsOK
<1>26. CASE UNCHANGED vars
  BY <1>26, JobIs DEF vars, memory, files, Single, RunsOK, Job
<1> QED
  BY <1>1, <1>2, <1>3, <1>4, <1>5, <1>6, <1>7, <1>8, <1>9, <1>10, <1>11, <1>12, <1>13,
     <1>14, <1>15, <1>16, <1>17, <1>18, <1>19, <1>20, <1>21, <1>22, <1>23, <1>24, <1>25,
     <1>26 DEF Next, Task, Scheduler

\* A run that was not told to stop is the current one.
LEMMA StepOne == TableOK /\ RunsOK /\ Single /\ OneAtATime /\ [Next]_vars => OneAtATime'
<1> SUFFICES ASSUME TableOK, RunsOK, Single, OneAtATime, [Next]_vars PROVE OneAtATime'
  OBVIOUS
<1>1. ASSUME NEW s \in Sessions, TurnStart(s) PROVE OneAtATime'
  BY <1>1, JobIs DEF TurnStart, Notify, Event, memory, files, OneAtATime, Of, RunsOK,
     Job
<1>2. ASSUME NEW s \in Sessions \cup {Nobody}, Invalidate(s) PROVE OneAtATime'
  BY <1>2, JobIs DEF Invalidate, Notify, Event, memory, files, OneAtATime, Of, RunsOK,
     Job
<1>3. ASSUME NEW k \in Keys, AskSummary(k) PROVE OneAtATime'
  BY <1>3, JobIs DEF AskSummary, Waits, memory, files, OneAtATime, Of, RunsOK, Job
<1>4. ASSUME NEW k \in Keys, Collect(k) PROVE OneAtATime'
  BY <1>4, JobIs DEF Collect, memory, files, OneAtATime, Of, RunsOK, Job
<1>5. ASSUME NEW n \in Runs, Spawn(n) PROVE OneAtATime'
  BY <1>5, JobIs DEF Spawn, memory, files, OneAtATime, Of, RunsOK, Job
<1>6. ASSUME NEW n \in Runs, RecordPid(n) PROVE OneAtATime'
  BY <1>6, JobIs DEF RecordPid, memory, files, OneAtATime, Of, RunsOK, Job
<1>7. ASSUME NEW n \in Runs, SpawnFails(n) PROVE OneAtATime'
  BY <1>7, JobIs DEF SpawnFails, Over, memory, files, OneAtATime, Of, RunsOK, Job
<1>8. ASSUME NEW n \in Runs, Ends(n) PROVE OneAtATime'
  BY <1>8, JobIs DEF Ends, Over, memory, files, OneAtATime, Of, RunsOK, Job
<1>9. ASSUME NEW n \in Runs, Timeout(n) PROVE OneAtATime'
  BY <1>9, JobIs DEF Timeout, Terminate, memory, files, OneAtATime, Of, RunsOK, Job
<1>10. ASSUME NEW n \in Runs, Cancelled(n) PROVE OneAtATime'
  BY <1>10, JobIs DEF Cancelled, Terminate, memory, files, OneAtATime, Of, RunsOK, Job
<1>11. ASSUME NEW n \in Runs, Kill(n) PROVE OneAtATime'
  BY <1>11, JobIs DEF Kill, Over, memory, files, OneAtATime, Of, RunsOK, Job
<1>12. ASSUME NEW n \in Runs, Exits(n) PROVE OneAtATime'
  BY <1>12, JobIs DEF Exits, memory, files, OneAtATime, Of, RunsOK, Job
<1>13. CASE SkipTurn
  BY <1>13, JobIs DEF SkipTurn, memory, files, OneAtATime, Of, RunsOK, Job
<1>14. CASE BeginSummary
  BY <1>14, JobIs DEF BeginSummary, memory, files, OneAtATime, Of, RunsOK, Job
<1>15. CASE GiveUp
  BY <1>15, JobIs DEF GiveUp, Finish, memory, files, OneAtATime, Of, RunsOK, Job
<1>16. CASE StartRun
  <2>1. PICK n \in Runs :
          runs' = [runs EXCEPT ![n] = [NoTask EXCEPT !.at = "made", !.key = looking.key,
                                                     !.id = looking.id]]
    BY <1>16 DEF StartRun, Of
  <2>2. inFlight = None /\ inFlight' = looking
    BY <1>16 DEF StartRun, Single
  <2>3. \A m \in Runs : runs[m].at \in {"made", "bare", "running"} => runs[m].told
    BY <2>2, KeyIs DEF Single, OneAtATime, Of, None
  <2>4. runs'[n].key = looking.key /\ runs'[n].id = looking.id
    BY <2>1 DEF NoTask, RunsOK
  <2>5. looking = [key |-> looking.key, id |-> looking.id]
    BY DEF TableOK, Ref
  <2>6. \A m \in Runs : m # n => runs'[m] = runs[m]
    BY <2>1 DEF RunsOK
  <2> QED  BY <2>2, <2>3, <2>4, <2>5, <2>6 DEF OneAtATime, Of
<1>17. CASE HandleInvalidate
  BY <1>17, JobIs DEF HandleInvalidate, Cancel, Finish, Tell, memory, files, OneAtATime,
     Of, RunsOK, Job
<1>18. CASE Record
  BY <1>18, JobIs DEF Record, Finish, Tell, memory, files, OneAtATime, Of, RunsOK, Job
<1>19. CASE Shutdown
  <2>1. \A n \in Runs : runs[n].at # "bare"
    BY <1>19 DEF Shutdown, Loop, Free, Of
  <2>2. \A n \in Runs : runs'[n].at \notin {"made", "bare", "running"}
    BY <1>19, <2>1, AfterIs
  <2> QED  BY <2>2 DEF OneAtATime, Of
<1>20. CASE AskStop
  BY <1>20, JobIs DEF AskStop, Event, memory, files, OneAtATime, Of, RunsOK, Job
<1>21. CASE Join
  BY <1>21, JobIs DEF Join, Waits, memory, files, OneAtATime, Of, RunsOK, Job
<1>22. CASE Deadline
  BY <1>22, JobIs DEF Deadline, memory, files, OneAtATime, Of, RunsOK, Job
<1>23. CASE Rest
  BY <1>23, JobIs DEF Rest, memory, files, OneAtATime, Of, RunsOK, Job
<1>24. CASE Die
  BY <1>24, JobIs DEF Die, Gone, memory, files, OneAtATime, Of, RunsOK, Job
<1>25. CASE Restart
  <2>1. \A n \in Runs : /\ runs'[n].at = runs[n].at /\ runs'[n].told = runs[n].told
                        /\ runs'[n].key = runs[n].key /\ runs'[n].id = runs[n].id
    BY <1>25, SweepIs
  <2>2. inFlight' = inFlight
    BY <1>25 DEF Restart, memory
  <2> QED  BY <2>1, <2>2 DEF OneAtATime, Of
<1>26. CASE UNCHANGED vars
  BY <1>26, JobIs DEF vars, memory, files, OneAtATime, Of, RunsOK, Job
<1> QED
  BY <1>1, <1>2, <1>3, <1>4, <1>5, <1>6, <1>7, <1>8, <1>9, <1>10, <1>11, <1>12, <1>13,
     <1>14, <1>15, <1>16, <1>17, <1>18, <1>19, <1>20, <1>21, <1>22, <1>23, <1>24, <1>25,
     <1>26 DEF Next, Task, Scheduler

-----------------------------------------------------------------------------
(* A turn is begun once *)

\* A key's turn has not been begun: it is ahead, or its event waits.
Ahead(k) ==
  \/ k[2] >= turns[k[1]]
  \/ \E i \in DOMAIN queue : queue[i] = Event("turn", k[1], k[2] + 1)

\* A turn's event comes once, and until it is handled nothing is known of its key.
Once ==
  /\ \A i \in DOMAIN queue : queue[i].kind = "turn" =>
       queue[i].session \in Sessions /\ queue[i].turn <= turns[queue[i].session]
  /\ \A i, j \in DOMAIN queue : queue[i].kind = "turn" /\ queue[i] = queue[j] => i = j
  /\ \A k \in Keys : Ahead(k) =>
       /\ cache[k] = Blank
       /\ looking.key # k
       /\ \A n \in Runs : runs[n].key # k

\* It is kept when no event comes and no turn starts, and what is ahead stays so.
LEMMA OnceKept ==
  ASSUME EventsOK, TableOK, RunsOK, Single, Once, turns' = turns,
         \/ queue' = queue
         \/ queue # <<>> /\ queue' = Tail(queue)
         \/ queue' = <<>>,
         \A k \in Keys : cache[k] = Blank => cache'[k] = Blank,
         looking' \in {looking, None},
         \A n \in Runs : \/ runs'[n].key = runs[n].key
                         \/ looking # None /\ runs'[n].key = looking.key
  PROVE  Once'
<1>1. \A i \in DOMAIN queue' :
        \E j \in DOMAIN queue : queue'[i] = queue[j] /\ (i = j \/ (queue' = Tail(queue) /\ j = i + 1 /\ i \in Nat))
  BY SeqIs DEF EventsOK
<1>2. \A k \in Keys : Ahead(k)' => Ahead(k)
  BY <1>1 DEF Ahead
<1>3. \A k \in Keys : Ahead(k)' =>
        /\ cache'[k] = Blank /\ looking'.key # k
        /\ \A n \in Runs : runs'[n].key # k
  BY <1>2, KeyIs DEF Once, Single, None
<1>4. \A i \in DOMAIN queue' : queue'[i].kind = "turn" =>
        queue'[i].session \in Sessions /\ queue'[i].turn <= turns[queue'[i].session]
  BY <1>1 DEF Once
<1>5. \A i, j \in DOMAIN queue' : queue'[i].kind = "turn" /\ queue'[i] = queue'[j] => i = j
  <2>1. CASE queue' = queue
    BY <2>1 DEF Once
  <2>2. CASE queue' = <<>>
    BY <2>2, SeqIs
  <2>3. CASE queue # <<>> /\ queue' = Tail(queue)
    <3>1. \A i \in DOMAIN queue' : i \in Nat /\ i + 1 \in DOMAIN queue
            /\ queue'[i] = queue[i + 1]
      BY <2>3, SeqIs DEF EventsOK
    <3>2. ASSUME NEW i \in DOMAIN queue', NEW j \in DOMAIN queue',
                 queue'[i].kind = "turn", queue'[i] = queue'[j]
          PROVE  i = j
      <4>1. i + 1 = j + 1
        BY <3>1, <3>2 DEF Once
      <4> QED  BY <3>1, <4>1
    <3> QED  BY <3>2
  <2> QED  BY <2>1, <2>2, <2>3
<1> QED  BY <1>3, <1>4, <1>5 DEF Once

\* finish leaves the rows alone that do not run.
LEMMA FinishSome ==
  ASSUME TableOK, NEW id, NEW outcome, NEW body, NEW k \in Keys
  PROVE  /\ cache[k].state # "running" => Finish(id, outcome, body)[k] = cache[k]
         /\ cache[k].id # id => Finish(id, outcome, body)[k] = cache[k]
         /\ cache[k].state = "running" /\ cache[k].id = id =>
              /\ Finish(id, outcome, body)[k].state = outcome
              /\ Finish(id, outcome, body)[k].id = id
              /\ outcome = "ready" => Finish(id, outcome, body)[k].body = body
BY DEF Finish, Entry

\* finish keeps the ids, and no row comes or goes.
LEMMA FinishRows ==
  ASSUME TableOK, NEW id, NEW outcome, outcome # "none", NEW body, NEW k \in Keys
  PROVE  /\ Finish(id, outcome, body)[k].id = cache[k].id
         /\ Finish(id, outcome, body)[k].state = "none" <=> cache[k].state = "none"
<1>1. CASE cache[k].state = "running" /\ cache[k].id = id
  BY <1>1, FinishSome
<1>2. CASE ~ (cache[k].state = "running" /\ cache[k].id = id)
  BY <1>2, FinishSome
<1> QED  BY <1>1, <1>2

\* A row that is not there does not run.
LEMMA BlankIs == Blank.state = "none" /\ Blank.id = 0 /\ Blank.state # "running"
BY DEF Blank, Entry

\* What is ahead is not touched by anything but its own event.
LEMMA StepOnce == EventsOK /\ TableOK /\ RunsOK /\ Single /\ Once /\ [Next]_vars => Once'
<1> SUFFICES ASSUME EventsOK, TableOK, RunsOK, Single, Once, [Next]_vars PROVE Once'
  OBVIOUS
<1>1. ASSUME NEW s \in Sessions, TurnStart(s) PROVE Once'
  <2> DEFINE e == Event("turn", s, turns[s] + 1)
  <2>1. queue' = queue \/ queue' = Append(queue, e)
    BY <1>1 DEF TurnStart, Notify
  <2>2. e.session = s /\ e.turn = turns[s] + 1
    BY DEF Event
  <2>3. \A i \in DOMAIN queue' :
          \/ i = Len(queue) + 1 /\ queue'[i] = e
          \/ i \in DOMAIN queue /\ queue'[i] = queue[i]
    BY <2>1, AppendIs DEF EventsOK
  <2>4. cache' = cache /\ looking' = looking /\ runs' = runs
    BY <1>1 DEF TurnStart, memory
  <2>5. /\ turns' \in [Sessions -> Nat] /\ turns \in [Sessions -> Nat]
        /\ turns'[s] = turns[s] + 1 /\ \A x \in Sessions : turns'[x] >= turns[x]
    BY <1>1 DEF TurnStart, EventsOK
  <2>6. \A i \in DOMAIN queue : queue[i] \in Events /\ i # Len(queue) + 1
    BY DEF EventsOK
  <2>7. \A k \in Keys : Event("turn", k[1], k[2] + 1) = e => k[1] = s /\ k[2] = turns[s]
    BY <2>5, KeyIs DEF Event
  <2> HIDE DEF e
  <2>8. ASSUME NEW k \in Keys, Ahead(k)' PROVE Ahead(k)
    <3>1. turns[k[1]] \in Nat /\ turns'[k[1]] \in Nat /\ turns'[k[1]] >= turns[k[1]]
            /\ k[2] \in Nat
      BY <2>5, KeyIs
    <3>2. CASE k[2] >= turns'[k[1]]
      BY <3>1, <3>2 DEF Ahead
    <3>3. CASE \E i \in DOMAIN queue' : queue'[i] = Event("turn", k[1], k[2] + 1)
      <4>1. PICK i \in DOMAIN queue' : queue'[i] = Event("turn", k[1], k[2] + 1)
        BY <3>3
      <4>2. CASE queue'[i] = e
        BY <2>5, <2>7, <3>1, <4>1, <4>2 DEF Ahead
      <4> QED  BY <2>3, <4>1, <4>2 DEF Ahead
    <3> QED  BY <2>8, <3>2, <3>3 DEF Ahead
  <2>9. \A i \in DOMAIN queue : queue[i].kind = "turn" => queue[i] # e
    BY <2>2, <2>5, <2>6 DEF Once, Events
  <2>10. \A i, j \in DOMAIN queue' : queue'[i].kind = "turn" /\ queue'[i] = queue'[j] => i = j
    BY <2>3, <2>6, <2>9 DEF Once
  <2>11. \A i \in DOMAIN queue' : queue'[i].kind = "turn" =>
           queue'[i].session \in Sessions /\ queue'[i].turn <= turns'[queue'[i].session]
    BY <2>2, <2>3, <2>5, <2>6 DEF Once, Events
  <2> QED  BY <2>4, <2>8, <2>10, <2>11 DEF Once
<1>2. ASSUME NEW s \in Sessions \cup {Nobody}, Invalidate(s) PROVE Once'
  <2> DEFINE e == Event("invalidate", s, 0)
  <2>1. queue' = queue \/ queue' = Append(queue, e)
    BY <1>2 DEF Invalidate, Notify
  <2>2. e.kind # "turn"
    BY DEF Event
  <2>3. \A i \in DOMAIN queue' : queue'[i] = e \/ (i \in DOMAIN queue /\ queue'[i] = queue[i])
    BY <2>1, AppendIs DEF EventsOK
  <2>4. \A k \in Keys : Event("turn", k[1], k[2] + 1).kind = "turn"
    BY DEF Event
  <2>5. turns' = turns /\ cache' = cache /\ looking' = looking /\ runs' = runs
    BY <1>2 DEF Invalidate, memory
  <2>6. \A k \in Keys : Ahead(k)' => Ahead(k)
    BY <2>2, <2>3, <2>4, <2>5 DEF Ahead
  <2> HIDE DEF e
  <2> QED  BY <2>2, <2>3, <2>5, <2>6 DEF Once
<1>3. ASSUME NEW k \in Keys, AskSummary(k) PROVE Once'
  <2> QED  BY <1>3, OnceKept DEF AskSummary, memory
<1>4. ASSUME NEW k \in Keys, Collect(k) PROVE Once'
  BY <1>4, OnceKept DEF Collect, memory, files
<1>5. ASSUME NEW n \in Runs, Spawn(n) PROVE Once'
  <2> QED  BY <1>5, TaskIs, OnceKept DEF Task, memory
<1>6. ASSUME NEW n \in Runs, RecordPid(n) PROVE Once'
  <2> QED  BY <1>6, TaskIs, OnceKept DEF Task, memory
<1>7. ASSUME NEW n \in Runs, SpawnFails(n) PROVE Once'
  <2> QED  BY <1>7, TaskIs, OnceKept DEF Task, memory
<1>8. ASSUME NEW n \in Runs, Ends(n) PROVE Once'
  <2> QED  BY <1>8, TaskIs, OnceKept DEF Task, memory
<1>9. ASSUME NEW n \in Runs, Timeout(n) PROVE Once'
  <2> QED  BY <1>9, TaskIs, OnceKept DEF Task, memory
<1>10. ASSUME NEW n \in Runs, Cancelled(n) PROVE Once'
  <2> QED  BY <1>10, TaskIs, OnceKept DEF Task, memory
<1>11. ASSUME NEW n \in Runs, Kill(n) PROVE Once'
  <2> QED  BY <1>11, TaskIs, OnceKept DEF Task, memory
<1>12. ASSUME NEW n \in Runs, Exits(n) PROVE Once'
  <2> QED  BY <1>12, TaskIs, OnceKept DEF Task, memory
<1>13. CASE SkipTurn
  BY <1>13, OnceKept DEF SkipTurn, memory, files
<1>14. CASE BeginSummary
  <2>1. PICK k \in Keys :
          /\ k = <<Head(queue).session, Head(queue).turn - 1>>
          /\ queue # <<>> /\ queue' = Tail(queue) /\ Head(queue).kind = "turn"
          /\ cache' = [cache EXCEPT ![k] = Entry("running", NextId(k), NoKey)]
          /\ looking'.key = k /\ turns' = turns /\ runs' = runs
    BY <1>14 DEF BeginSummary
  <2>2. 1 \in DOMAIN queue /\ queue[1] = Head(queue) /\ queue[1] \in Events
    BY <2>1, SeqIs DEF EventsOK
  <2>3. \A i \in DOMAIN queue' : i \in Nat /\ i + 1 \in DOMAIN queue
          /\ queue'[i] = queue[i + 1] /\ i + 1 # 1
    BY <2>1, SeqIs DEF EventsOK
  <2>4. queue[1] = Event("turn", k[1], k[2] + 1)
    <3>1. /\ queue[1].kind = "turn" /\ queue[1].session = k[1] /\ queue[1].turn = k[2] + 1
      BY <2>1, <2>2 DEF Events
    <3> QED  BY <2>2, <3>1 DEF Event, Events
  <2>5. k[2] < turns[k[1]]
    BY <2>1, <2>2 DEF Once, Events, EventsOK
  <2>6. \A j \in Keys : Ahead(j)' => Ahead(j) /\ j # k
    <3>1. ASSUME NEW j \in Keys, Ahead(j)' PROVE Ahead(j)
      BY <2>1, <2>3, <3>1 DEF Ahead
    <3>2. ASSUME Ahead(k)' PROVE FALSE
      <4>0. turns[k[1]] \in Nat /\ k[2] \in Nat
        BY <2>1, KeyIs DEF EventsOK
      <4>1. ~ k[2] >= turns'[k[1]]
        BY <2>1, <2>5, <4>0
      <4>3. PICK i \in DOMAIN queue' : queue'[i] = Event("turn", k[1], k[2] + 1)
        BY <3>2, <4>1 DEF Ahead
      <4>2. queue[i + 1] = queue[1] /\ queue[1].kind = "turn" /\ i + 1 # 1
              /\ i + 1 \in DOMAIN queue
        BY <2>1, <2>2, <2>3, <2>4, <4>3
      <4> QED  BY <2>2, <4>2 DEF Once
    <3> QED  BY <3>1, <3>2 DEF Ahead
  <2>7. \A j \in Keys : Ahead(j)' => cache'[j] = Blank /\ looking'.key # j
          /\ \A n \in Runs : runs'[n].key # j
    BY <2>1, <2>6 DEF Once, TableOK
  <2>8. \A i \in DOMAIN queue' : queue'[i].kind = "turn" =>
          queue'[i].session \in Sessions /\ queue'[i].turn <= turns'[queue'[i].session]
    BY <2>1, <2>3 DEF Once
  <2>9. \A i, j \in DOMAIN queue' : queue'[i].kind = "turn" /\ queue'[i] = queue'[j] => i = j
    <3>1. ASSUME NEW i \in DOMAIN queue', NEW j \in DOMAIN queue',
                 queue'[i].kind = "turn", queue'[i] = queue'[j]
          PROVE  i = j
      <4>1. i + 1 = j + 1
        BY <2>3, <3>1 DEF Once
      <4> QED  BY <2>3, <4>1
    <3> QED  BY <3>1
  <2> QED  BY <2>7, <2>8, <2>9 DEF Once
<1>15. CASE GiveUp
  <2>1. cache' = Finish(looking.id, "failed", NoKey) /\ looking' = None
        /\ turns' = turns /\ queue' = queue /\ runs' = runs
    BY <1>15 DEF GiveUp
  <2> QED  BY <2>1, FinishSome, BlankIs, OnceKept
<1>16. CASE StartRun
  BY <1>16, OnceKept DEF StartRun, Of, memory, files
<1>17. CASE HandleInvalidate
  <2>1. cache' = cache \/ cache' = Finish(inFlight.id, "cancelled", NoKey)
    BY <1>17 DEF HandleInvalidate, Cancel
  <2>2. runs' = runs \/ runs' = Tell(inFlight.id)
    BY <1>17 DEF HandleInvalidate, Cancel
  <2>3. queue # <<>> /\ queue' = Tail(queue) /\ looking' = looking /\ turns' = turns
    BY <1>17 DEF HandleInvalidate
  <2>4. \A n \in Runs : runs'[n].key = runs[n].key
    BY <2>2, TellIs
  <2>5. \A k \in Keys : cache[k] = Blank => cache'[k] = Blank
    BY <2>1, FinishSome, BlankIs
  <2> QED  BY <2>3, <2>4, <2>5, OnceKept
<1>18. CASE Record
  <2> DEFINE run == runs[Head(reports)]
  <2>1. cache' = cache \/ cache' = Finish(run.id, run.outcome, run.key)
    BY <1>18 DEF Record
  <2>2. runs' = runs \/ runs' = Tell(run.id)
    BY <1>18 DEF Record
  <2>3. queue' = queue /\ looking' = looking /\ turns' = turns
    BY <1>18 DEF Record
  <2>4. \A n \in Runs : runs'[n].key = runs[n].key
    BY <2>2, TellIs
  <2>5. \A k \in Keys : cache[k] = Blank => cache'[k] = Blank
    BY <2>1, FinishSome, BlankIs
  <2> QED  BY <2>3, <2>4, <2>5, OnceKept
<1>19. CASE Shutdown
  <2>1. cache' = cache \/ cache' = Finish(inFlight.id, "cancelled", NoKey)
    BY <1>19 DEF Shutdown
  <2>2. queue' = <<>> /\ looking' = None /\ turns' = turns
    BY <1>19 DEF Shutdown, Gone
  <2>3. \A n \in Runs : runs'[n].key = runs[n].key
    BY <1>19, AfterIs
  <2>4. \A k \in Keys : cache[k] = Blank => cache'[k] = Blank
    BY <2>1, FinishSome, BlankIs
  <2> QED  BY <2>2, <2>3, <2>4, OnceKept
<1>20. CASE AskStop
  <2> DEFINE e == Event("shutdown", Nobody, 0)
  <2>1. queue' = queue \/ queue' = Append(queue, e)
    BY <1>20 DEF AskStop, Notify
  <2>2. e.kind # "turn"
    BY DEF Event
  <2>3. \A i \in DOMAIN queue' : queue'[i] = e \/ (i \in DOMAIN queue /\ queue'[i] = queue[i])
    BY <2>1, AppendIs DEF EventsOK
  <2>4. \A k \in Keys : Event("turn", k[1], k[2] + 1).kind = "turn"
    BY DEF Event
  <2>5. turns' = turns /\ cache' = cache /\ looking' = looking /\ runs' = runs
    BY <1>20 DEF AskStop, memory
  <2>6. \A k \in Keys : Ahead(k)' => Ahead(k)
    BY <2>2, <2>3, <2>4, <2>5 DEF Ahead
  <2> HIDE DEF e
  <2> QED  BY <2>2, <2>3, <2>5, <2>6 DEF Once
<1>21. CASE Join
  BY <1>21, OnceKept DEF Join, Waits, memory, files
<1>22. CASE Deadline
  BY <1>22, OnceKept DEF Deadline, memory, files
<1>23. CASE Rest
  BY <1>23, OnceKept DEF Rest, memory, files
<1>24. CASE Die
  <2>1. queue' = <<>> /\ looking' = None /\ turns' = turns /\ cache' = cache
    BY <1>24 DEF Die, Gone
  <2>2. \A n \in Runs : runs'[n].key = runs[n].key
    BY <1>24, AfterIs
  <2> QED  BY <2>1, <2>2, OnceKept
<1>25. CASE Restart
  <2>1. queue' = queue /\ looking' = looking /\ turns' = turns
    BY <1>25 DEF Restart, memory
  <2>2. \A n \in Runs : runs'[n].key = runs[n].key
    BY <1>25, AfterIs
  <2>3. \A k \in Keys : cache[k] = Blank => cache'[k] = Blank
    BY <1>25, BlankIs DEF Restart
  <2> QED  BY <2>1, <2>2, <2>3, OnceKept
<1>26. CASE UNCHANGED vars
  BY <1>26, OnceKept DEF vars, memory, files
<1> QED
  BY <1>1, <1>2, <1>3, <1>4, <1>5, <1>6, <1>7, <1>8, <1>9, <1>10, <1>11, <1>12, <1>13,
     <1>14, <1>15, <1>16, <1>17, <1>18, <1>19, <1>20, <1>21, <1>22, <1>23, <1>24, <1>25,
     <1>26 DEF Next, Task, Scheduler

-----------------------------------------------------------------------------
(* Rows and their runs *)

\* A run that has not ended, or that has reported and is not recorded.
Open(n) ==
  \/ runs[n].at \in Busy
  \/ \E i \in DOMAIN reports : reports[i] = n

\* A row's id is its own, and it is there as long as a run was made for it is about.
Rows ==
  /\ \A k \in Keys : cache[k].state = "none" => cache[k].id = 0
  /\ \A k \in Keys : cache[k].state # "none" => cache[k].id > 0
  /\ \A j, k \in Keys : cache[j].id = cache[k].id /\ j # k => cache[k].id = 0
  /\ \A n \in Runs : Open(n) =>
       /\ runs[n].key \in Keys
       /\ cache[runs[n].key].id = runs[n].id
       /\ runs[n].id > 0

\* The row that the scheduler awaits a diff for, or considers current, says running.
Current ==
  /\ looking # None => /\ cache[looking.key].state = "running"
                       /\ cache[looking.key].id = looking.id
  /\ inFlight # None => /\ inFlight.key \in Keys
                        /\ cache[inFlight.key].state = "running"
                        /\ cache[inFlight.key].id = inFlight.id

\* It is kept when the rows keep their ids and no run is made.
LEMMA RowsKept ==
  ASSUME TableOK, RunsOK, Rows,
         \A k \in Keys : /\ cache'[k].id = cache[k].id
                         /\ cache'[k].state = "none" <=> cache[k].state = "none",
         \A n \in Runs : /\ Open(n)' => Open(n)
                         /\ runs'[n].key = runs[n].key /\ runs'[n].id = runs[n].id
  PROVE  Rows'
BY DEF Rows

\* What reports stays about until it is recorded.
LEMMA OpenIs ==
  ASSUME RunsOK, NEW n \in Runs, Task(n) \/ Exits(n), NEW m \in Runs
  PROVE  Open(m)' => Open(m)
<1>1. \A i \in DOMAIN reports' :
        \/ i \in DOMAIN reports /\ reports'[i] = reports[i]
        \/ reports'[i] = n /\ runs'[n].at = "over" /\ reports' = Append(reports, n)
  <2>1. CASE reports' = Append(reports, n) /\ runs'[n].at = "over"
    BY <2>1, AppendIs DEF RunsOK
  <2>2. CASE reports' = reports
    BY <2>2
  <2> QED  BY <2>1, <2>2, TaskIs
<1>2. n = m => \/ runs[n].at \in Busy
               \/ runs'[n].at = runs[n].at /\ reports' = reports
  BY TaskIs
<1>3. n # m => runs'[m].at = runs[m].at
  BY TaskIs
<1> QED  BY <1>1, <1>2, <1>3 DEF Open

\* A row's id is not used again while a run for it is about.
LEMMA StepRows ==
  ~ Trims /\ EventsOK /\ TableOK /\ RunsOK /\ Reported /\ Single /\ Once /\ Current /\ Rows
    /\ [Next]_vars => Rows'
<1> SUFFICES ASSUME ~ Trims, EventsOK, TableOK, RunsOK, Reported, Single, Once, Current, Rows,
                    [Next]_vars
             PROVE Rows'
  OBVIOUS
<1>1. ASSUME NEW s \in Sessions, TurnStart(s) PROVE Rows'
  BY <1>1, RowsKept DEF TurnStart, Notify, Event, memory, files, Open
<1>2. ASSUME NEW s \in Sessions \cup {Nobody}, Invalidate(s) PROVE Rows'
  BY <1>2, RowsKept DEF Invalidate, Notify, Event, memory, files, Open
<1>3. ASSUME NEW k \in Keys, AskSummary(k) PROVE Rows'
  BY <1>3, RowsKept DEF AskSummary, Waits, memory, files, Open
<1>4. ASSUME NEW k \in Keys, Collect(k) PROVE Rows'
  <2>1. /\ cache' = [cache EXCEPT ![k] = Blank] /\ runs' = runs /\ reports' = reports
        /\ ~ Outstanding(cache[k].id)
    BY <1>4 DEF Collect
  <2>2. \A n \in Runs : Open(n)' = Open(n)
    BY <2>1 DEF Open
  <2>3. \A n \in Runs : Open(n) => runs[n].key # k
    BY <2>1 DEF Rows, Open, Outstanding, Busy
  <2>4. \A j \in Keys : cache'[j] = IF j = k THEN Blank ELSE cache[j]
    BY <2>1 DEF TableOK
  <2> QED  BY <2>1, <2>2, <2>3, <2>4, BlankIs DEF Rows
<1>5. ASSUME NEW n \in Runs, Spawn(n) PROVE Rows'
  <2> QED  BY <1>5, TaskIs, OpenIs, RowsKept DEF Task
<1>6. ASSUME NEW n \in Runs, RecordPid(n) PROVE Rows'
  <2> QED  BY <1>6, TaskIs, OpenIs, RowsKept DEF Task
<1>7. ASSUME NEW n \in Runs, SpawnFails(n) PROVE Rows'
  <2> QED  BY <1>7, TaskIs, OpenIs, RowsKept DEF Task
<1>8. ASSUME NEW n \in Runs, Ends(n) PROVE Rows'
  <2> QED  BY <1>8, TaskIs, OpenIs, RowsKept DEF Task
<1>9. ASSUME NEW n \in Runs, Timeout(n) PROVE Rows'
  <2> QED  BY <1>9, TaskIs, OpenIs, RowsKept DEF Task
<1>10. ASSUME NEW n \in Runs, Cancelled(n) PROVE Rows'
  <2> QED  BY <1>10, TaskIs, OpenIs, RowsKept DEF Task
<1>11. ASSUME NEW n \in Runs, Kill(n) PROVE Rows'
  <2> QED  BY <1>11, TaskIs, OpenIs, RowsKept DEF Task
<1>12. ASSUME NEW n \in Runs, Exits(n) PROVE Rows'
  <2> QED  BY <1>12, TaskIs, OpenIs, RowsKept DEF Task
<1>13. CASE SkipTurn
  BY <1>13, RowsKept DEF SkipTurn, memory, files, Open
<1>14. CASE BeginSummary
  <2>1. PICK k \in Keys :
          /\ k = <<Head(queue).session, Head(queue).turn - 1>>
          /\ queue # <<>> /\ Head(queue).kind = "turn"
          /\ cache' = [cache EXCEPT ![k] = Entry("running", NextId(k), NoKey)]
          /\ runs' = runs /\ reports' = reports
    BY <1>14 DEF BeginSummary
  <2>2. 1 \in DOMAIN queue /\ queue[1] = Head(queue) /\ queue[1] \in Events
    BY <2>1, SeqIs DEF EventsOK
  <2>3. queue[1] = Event("turn", k[1], k[2] + 1)
    BY <2>1, <2>2 DEF Event, Events
  <2>4. \A n \in Runs : runs[n].key # k
    BY <2>2, <2>3 DEF Once, Ahead
  <2>5. \A j \in Keys :
          cache'[j] = IF j = k THEN Entry("running", NextId(k), NoKey) ELSE cache[j]
    BY <2>1 DEF TableOK
  <2>6. /\ Entry("running", NextId(k), NoKey).state = "running"
        /\ Entry("running", NextId(k), NoKey).id = NextId(k)
    BY DEF Entry
  <2>7. \A n \in Runs : Open(n)' = Open(n)
    BY <2>1 DEF Open
  <2>8. NextId(k) > 0 /\ \A j \in Keys : j # k => cache[j].id # NextId(k)
    <3>1. \A j \in Keys : cache[j].id \in Nat
      BY RowIs DEF TableOK
    <3> QED  BY <3>1, NextIs
  <2> QED  BY <2>1, <2>4, <2>5, <2>6, <2>7, <2>8 DEF Rows
<1>15. CASE GiveUp
  <2>1. cache' = Finish(looking.id, "failed", NoKey) /\ runs' = runs /\ reports' = reports
    BY <1>15 DEF GiveUp
  <2>2. \A k \in Keys : cache'[k].id = cache[k].id
          /\ (cache'[k].state = "none" <=> cache[k].state = "none")
    BY <2>1, FinishRows
  <2> QED  BY <2>1, <2>2, RowsKept DEF Open
<1>16. CASE StartRun
  <2>1. PICK n \in Runs :
          runs' = [runs EXCEPT ![n] = [NoTask EXCEPT !.at = "made", !.key = looking.key,
                                                     !.id = looking.id]]
    BY <1>16 DEF StartRun, Of
  <2>2. cache' = cache /\ reports' = reports /\ looking # None
    BY <1>16 DEF StartRun
  <2>3. \A m \in Runs : m # n => runs'[m] = runs[m]
    BY <2>1 DEF RunsOK
  <2>4. runs'[n].key = looking.key /\ runs'[n].id = looking.id
    BY <2>1 DEF RunsOK, NoTask
  <2>5. looking.key \in Keys /\ cache[looking.key].id = looking.id /\ looking.id > 0
    BY <2>2 DEF Single, Current, Rows
  <2>6. \A m \in Runs : m # n => Open(m)' = Open(m)
    BY <2>2, <2>3 DEF Open
  <2> QED  BY <2>2, <2>3, <2>4, <2>5, <2>6 DEF Rows
<1>17. CASE HandleInvalidate
  <2>1. cache' = cache \/ cache' = Finish(inFlight.id, "cancelled", NoKey)
    BY <1>17 DEF HandleInvalidate, Cancel
  <2>2. runs' = runs \/ runs' = Tell(inFlight.id)
    BY <1>17 DEF HandleInvalidate, Cancel
  <2>3. \A k \in Keys : cache'[k].id = cache[k].id
          /\ (cache'[k].state = "none" <=> cache[k].state = "none")
    BY <2>1, FinishRows
  <2>4. reports' = reports
    BY <1>17 DEF HandleInvalidate
  <2>5. \A n \in Runs : runs'[n].at = runs[n].at /\ runs'[n].key = runs[n].key
          /\ runs'[n].id = runs[n].id
    BY <2>2, TellIs
  <2> QED  BY <2>3, <2>4, <2>5, RowsKept DEF Open
<1>18. CASE Record
  <2> DEFINE run == runs[Head(reports)]
  <2>1. cache' = cache \/ cache' = Finish(run.id, run.outcome, run.key)
    BY <1>18 DEF Record
  <2>2. runs' = runs \/ runs' = Tell(run.id)
    BY <1>18 DEF Record
  <2>3. reports # <<>> /\ reports' = Tail(reports) /\ Head(reports) = reports[1]
          /\ 1 \in DOMAIN reports
    BY <1>18, SeqIs DEF Record, RunsOK
  <2>4. run.outcome # "none"
    BY <2>3 DEF Reported, Outcomes
  <2>5. \A k \in Keys : cache'[k].id = cache[k].id
          /\ (cache'[k].state = "none" <=> cache[k].state = "none")
    BY <2>1, <2>4, FinishRows
  <2>6. \A n \in Runs : runs'[n].at = runs[n].at /\ runs'[n].key = runs[n].key
          /\ runs'[n].id = runs[n].id
    BY <2>2, TellIs
  <2>7. \A i \in DOMAIN reports' : i + 1 \in DOMAIN reports /\ reports'[i] = reports[i + 1]
    BY <2>3, SeqIs DEF RunsOK
  <2> QED  BY <2>5, <2>6, <2>7, RowsKept DEF Open
<1>19. CASE Shutdown
  <2>1. cache' = cache \/ cache' = Finish(inFlight.id, "cancelled", NoKey)
    BY <1>19 DEF Shutdown
  <2>2. \A k \in Keys : cache'[k].id = cache[k].id
          /\ (cache'[k].state = "none" <=> cache[k].state = "none")
    BY <2>1, FinishRows
  <2>3. DOMAIN reports' = {}
    BY <1>19, SeqIs DEF Shutdown, Gone
  <2>4. \A n \in Runs : /\ runs'[n].at \in Busy => runs[n].at \in Busy
                       /\ runs'[n].key = runs[n].key /\ runs'[n].id = runs[n].id
    BY <1>19, AfterIs DEF Busy
  <2> QED  BY <2>2, <2>3, <2>4, RowsKept DEF Open
<1>20. CASE AskStop
  BY <1>20, RowsKept DEF AskStop, Event, memory, files, Open
<1>21. CASE Join
  BY <1>21, RowsKept DEF Join, Waits, memory, files, Open
<1>22. CASE Deadline
  BY <1>22, RowsKept DEF Deadline, memory, files, Open
<1>23. CASE Rest
  BY <1>23, RowsKept DEF Rest, memory, files, Open
<1>24. CASE Die
  <2>1. cache' = cache /\ DOMAIN reports' = {}
    BY <1>24, SeqIs DEF Die, Gone
  <2>2. \A n \in Runs : /\ runs'[n].at \notin Busy
                       /\ runs'[n].key = runs[n].key /\ runs'[n].id = runs[n].id
    BY <1>24, AfterIs DEF Busy
  <2> QED  BY <2>1, <2>2, RowsKept DEF Open
<1>25. CASE Restart
  <2>1. \A k \in Keys : cache'[k].id = cache[k].id
          /\ (cache'[k].state = "none" <=> cache[k].state = "none")
    BY <1>25 DEF Restart, Entry
  <2>2. reports' = reports
    BY <1>25 DEF Restart
  <2>3. \A n \in Runs : /\ runs'[n].at = runs[n].at
                       /\ runs'[n].key = runs[n].key /\ runs'[n].id = runs[n].id
    BY <1>25, AfterIs
  <2> QED  BY <2>1, <2>2, <2>3, RowsKept DEF Open
<1>26. CASE UNCHANGED vars
  BY <1>26, RowsKept DEF vars, memory, files, Open
<1> QED
  BY <1>1, <1>2, <1>3, <1>4, <1>5, <1>6, <1>7, <1>8, <1>9, <1>10, <1>11, <1>12, <1>13,
     <1>14, <1>15, <1>16, <1>17, <1>18, <1>19, <1>20, <1>21, <1>22, <1>23, <1>24, <1>25,
     <1>26 DEF Next, Task, Scheduler

\* A row that finish is not about keeps running.
LEMMA CurrentKept ==
  ASSUME TableOK, Single, Current,
         \A k \in Keys : cache[k].state = "running" => cache'[k] = cache[k],
         looking' \in {looking, None}, inFlight' \in {inFlight, None}
  PROVE  Current'
BY DEF Single, Current

\* What the scheduler awaits or considers current runs, as the table has it.
LEMMA StepCurrent == TableOK /\ RunsOK /\ Single /\ Current /\ [Next]_vars => Current'
<1> SUFFICES ASSUME TableOK, RunsOK, Single, Current, [Next]_vars PROVE Current'
  OBVIOUS
<1>1. ASSUME NEW s \in Sessions, TurnStart(s) PROVE Current'
  BY <1>1 DEF TurnStart, Notify, Event, memory, files, Current
<1>2. ASSUME NEW s \in Sessions \cup {Nobody}, Invalidate(s) PROVE Current'
  BY <1>2 DEF Invalidate, Notify, Event, memory, files, Current
<1>3. ASSUME NEW k \in Keys, AskSummary(k) PROVE Current'
  BY <1>3 DEF AskSummary, Waits, memory, files, Current
<1>4. ASSUME NEW k \in Keys, Collect(k) PROVE Current'
  BY <1>4 DEF Collect, memory, files, Current
<1>5. ASSUME NEW n \in Runs, Spawn(n) PROVE Current'
  <2> QED  BY <1>5, TaskIs, CurrentKept DEF Task, memory
<1>6. ASSUME NEW n \in Runs, RecordPid(n) PROVE Current'
  <2> QED  BY <1>6, TaskIs, CurrentKept DEF Task, memory
<1>7. ASSUME NEW n \in Runs, SpawnFails(n) PROVE Current'
  <2> QED  BY <1>7, TaskIs, CurrentKept DEF Task, memory
<1>8. ASSUME NEW n \in Runs, Ends(n) PROVE Current'
  <2> QED  BY <1>8, TaskIs, CurrentKept DEF Task, memory
<1>9. ASSUME NEW n \in Runs, Timeout(n) PROVE Current'
  <2> QED  BY <1>9, TaskIs, CurrentKept DEF Task, memory
<1>10. ASSUME NEW n \in Runs, Cancelled(n) PROVE Current'
  <2> QED  BY <1>10, TaskIs, CurrentKept DEF Task, memory
<1>11. ASSUME NEW n \in Runs, Kill(n) PROVE Current'
  <2> QED  BY <1>11, TaskIs, CurrentKept DEF Task, memory
<1>12. ASSUME NEW n \in Runs, Exits(n) PROVE Current'
  <2> QED  BY <1>12, TaskIs, CurrentKept DEF Task, memory
<1>13. CASE SkipTurn
  BY <1>13 DEF SkipTurn, memory, files, Current
<1>14. CASE BeginSummary
  <2>1. PICK k \in Keys : /\ cache' = [cache EXCEPT ![k] = Entry("running", NextId(k), NoKey)]
                       /\ looking' = [key |-> k, id |-> NextId(k)]
    BY <1>14 DEF BeginSummary
  <2>2. inFlight' = None
    BY <1>14 DEF BeginSummary, MaySpend
  <2>3. cache'[k] = Entry("running", NextId(k), NoKey)
    BY <2>1 DEF TableOK
  <2> QED  BY <2>1, <2>2, <2>3 DEF Current, Entry
<1>15. CASE GiveUp
  <2>1. looking' = None /\ inFlight' = inFlight /\ inFlight = None
    BY <1>15 DEF GiveUp, Single
  <2> QED  BY <2>1 DEF Current
<1>16. CASE StartRun
  <2>1. looking' = None /\ inFlight' = looking /\ cache' = cache /\ looking # None
    BY <1>16 DEF StartRun
  <2> QED  BY <2>1 DEF Current, Single
<1>17. CASE HandleInvalidate
  <2>1. looking' = None
    BY <1>17 DEF HandleInvalidate, Loop
  <2>2. inFlight' = None \/ (inFlight' = inFlight /\ cache' = cache)
    BY <1>17 DEF HandleInvalidate, Cancel
  <2> QED  BY <2>1, <2>2 DEF Current
<1>18. CASE Record
  <2>1. looking' = None
    BY <1>18 DEF Record, Loop
  <2>2. inFlight' = None \/ (inFlight' = inFlight /\ cache' = cache)
    BY <1>18 DEF Record
  <2> QED  BY <2>1, <2>2 DEF Current
<1>19. CASE Shutdown
  BY <1>19 DEF Shutdown, Finish, Gone, Of, memory, files, Current
<1>20. CASE AskStop
  BY <1>20 DEF AskStop, Event, memory, files, Current
<1>21. CASE Join
  BY <1>21 DEF Join, Waits, memory, files, Current
<1>22. CASE Deadline
  BY <1>22 DEF Deadline, memory, files, Current
<1>23. CASE Rest
  BY <1>23 DEF Rest, memory, files, Current
<1>24. CASE Die
  BY <1>24 DEF Die, Gone, memory, files, Current
<1>25. CASE Restart
  <2>1. looking' = None /\ inFlight' = None
    BY <1>25 DEF Restart, memory, Single
  <2> QED  BY <2>1 DEF Current
<1>26. CASE UNCHANGED vars
  BY <1>26 DEF vars, memory, files, Current
<1> QED
  BY <1>1, <1>2, <1>3, <1>4, <1>5, <1>6, <1>7, <1>8, <1>9, <1>10, <1>11, <1>12, <1>13,
     <1>14, <1>15, <1>16, <1>17, <1>18, <1>19, <1>20, <1>21, <1>22, <1>23, <1>24, <1>25,
     <1>26 DEF Next, Task, Scheduler

-----------------------------------------------------------------------------
(* What is served *)

\* A caller asks for a turn and gets one.
Served == client \in [key : Bodies, body : Bodies] /\ RightBody

\* A row that becomes ready has its own turn's body.
LEMMA ServedKept ==
  ASSUME Served, client' = client,
         \A k \in Keys : cache'[k].state = "ready" => cache'[k] = cache[k] \/ cache'[k].body = k
  PROVE  Served'
BY DEF Served, RightBody

\* A body is recorded for the turn that the run was made for.
LEMMA StepServed == TableOK /\ RunsOK /\ Rows /\ Served /\ [Next]_vars => Served'
<1> SUFFICES ASSUME TableOK, RunsOK, Rows, Served, [Next]_vars PROVE Served'
  OBVIOUS
<1>1. ASSUME NEW s \in Sessions, TurnStart(s) PROVE Served'
  BY <1>1 DEF TurnStart, Notify, Event, memory, files, Served, RightBody
<1>2. ASSUME NEW s \in Sessions \cup {Nobody}, Invalidate(s) PROVE Served'
  BY <1>2 DEF Invalidate, Notify, Event, memory, files, Served, RightBody
<1>3. ASSUME NEW k \in Keys, AskSummary(k) PROVE Served'
  <2>1. cache' = cache
          /\ (client' = [key |-> k, body |-> NoKey] \/ client' = [key |-> k, body |-> k])
    BY <1>3 DEF AskSummary, Served, RightBody
  <2> QED  BY <2>1 DEF Served, RightBody, Bodies
<1>4. ASSUME NEW k \in Keys, Collect(k) PROVE Served'
  <2>1. \A j \in Keys : cache'[j] = cache[j] \/ cache'[j] = Blank
    BY <1>4 DEF Collect, TableOK
  <2>2. client' = client
    BY <1>4 DEF Collect
  <2> QED  BY <2>1, <2>2, BlankIs, ServedKept
<1>5. ASSUME NEW n \in Runs, Spawn(n) PROVE Served'
  <2> QED  BY <1>5, TaskIs, ServedKept DEF Task
<1>6. ASSUME NEW n \in Runs, RecordPid(n) PROVE Served'
  <2> QED  BY <1>6, TaskIs, ServedKept DEF Task
<1>7. ASSUME NEW n \in Runs, SpawnFails(n) PROVE Served'
  <2> QED  BY <1>7, TaskIs, ServedKept DEF Task
<1>8. ASSUME NEW n \in Runs, Ends(n) PROVE Served'
  <2> QED  BY <1>8, TaskIs, ServedKept DEF Task
<1>9. ASSUME NEW n \in Runs, Timeout(n) PROVE Served'
  <2> QED  BY <1>9, TaskIs, ServedKept DEF Task
<1>10. ASSUME NEW n \in Runs, Cancelled(n) PROVE Served'
  <2> QED  BY <1>10, TaskIs, ServedKept DEF Task
<1>11. ASSUME NEW n \in Runs, Kill(n) PROVE Served'
  <2> QED  BY <1>11, TaskIs, ServedKept DEF Task
<1>12. ASSUME NEW n \in Runs, Exits(n) PROVE Served'
  <2> QED  BY <1>12, TaskIs, ServedKept DEF Task
<1>13. CASE SkipTurn
  BY <1>13 DEF SkipTurn, memory, files, Served, RightBody
<1>14. CASE BeginSummary
  <2>1. PICK k \in Keys : cache' = [cache EXCEPT ![k] = Entry("running", NextId(k), NoKey)]
    BY <1>14 DEF BeginSummary
  <2>2. \A j \in Keys : cache'[j] = cache[j] \/ cache'[j].state = "running"
    BY <2>1 DEF TableOK, Entry
  <2>3. client' = client
    BY <1>14 DEF BeginSummary
  <2> QED  BY <2>2, <2>3, ServedKept
<1>15. CASE GiveUp
  <2>1. client' = client /\ (cache' = cache \/ cache' = Finish(looking.id, "failed", NoKey))
    BY <1>15 DEF GiveUp
  <2>2. \A k \in Keys : cache'[k].state = "ready" => cache'[k] = cache[k]
    BY <2>1, FinishSome
  <2> QED  BY <2>1, <2>2, ServedKept
<1>16. CASE StartRun
  BY <1>16 DEF StartRun, Of, memory, files, Served, RightBody
<1>17. CASE HandleInvalidate
  <2>1. client' = client /\ (cache' = cache \/ cache' = Finish(inFlight.id, "cancelled", NoKey))
    BY <1>17 DEF HandleInvalidate, Cancel
  <2>2. \A k \in Keys : cache'[k].state = "ready" => cache'[k] = cache[k]
    BY <2>1, FinishSome
  <2> QED  BY <2>1, <2>2, ServedKept
<1>18. CASE Record
  <2> DEFINE n == Head(reports)
  <2>1. n \in Runs /\ n = reports[1] /\ 1 \in DOMAIN reports
    BY <1>18, SeqIs DEF Record, RunsOK
  <2>2. Open(n)
    BY <2>1 DEF Open
  <2>3. client' = client
          /\ (cache' = cache \/ cache' = Finish(runs[n].id, runs[n].outcome, runs[n].key))
    BY <1>18 DEF Record
  <2>4. /\ runs[n].key \in Keys /\ cache[runs[n].key].id = runs[n].id /\ runs[n].id > 0
        /\ \A k \in Keys : cache[k].id = runs[n].id => k = runs[n].key
    BY <2>1, <2>2 DEF Rows
  <2>5. \A k \in Keys : cache'[k].state = "ready" => cache'[k] = cache[k] \/ cache'[k].body = k
    BY <2>3, <2>4, FinishSome
  <2> QED  BY <2>3, <2>5, ServedKept
<1>19. CASE Shutdown
  <2>1. client' = NoAsk /\ (cache' = cache \/ cache' = Finish(inFlight.id, "cancelled", NoKey))
    BY <1>19 DEF Shutdown, Gone
  <2>2. \A k \in Keys : cache'[k].state = "ready" => cache'[k] = cache[k]
    BY <2>1, FinishSome
  <2> QED  BY <2>1, <2>2 DEF Served, RightBody, NoAsk, Bodies
<1>20. CASE AskStop
  BY <1>20 DEF AskStop, Event, memory, files, Served, RightBody
<1>21. CASE Join
  <2>1. client.key \in Keys /\ cache[client.key].state = "ready"
    BY <1>21 DEF Join, Waits, Served, Bodies
  <2>2. cache' = cache /\ client' = [client EXCEPT !.body = client.key]
    BY <1>21, <2>1 DEF Join, Served, RightBody
  <2> QED  BY <2>1, <2>2 DEF Served, RightBody, Bodies
<1>22. CASE Deadline
  <2>1. cache' = cache /\ client' = NoAsk
    BY <1>22 DEF Deadline
  <2> QED  BY <2>1 DEF Served, RightBody, Bodies, NoAsk
<1>23. CASE Rest
  BY <1>23 DEF Rest, memory, files, Served, RightBody
<1>24. CASE Die
  <2>1. client' = NoAsk /\ cache' = cache
    BY <1>24 DEF Die, Gone
  <2> QED  BY <2>1 DEF Served, RightBody, NoAsk, Bodies
<1>25. CASE Restart
  <2>1. client' = client /\ \A k \in Keys : cache'[k].state = "ready" => cache'[k] = cache[k]
    BY <1>25 DEF Restart, Entry
  <2> QED  BY <2>1, ServedKept
<1>26. CASE UNCHANGED vars
  BY <1>26 DEF vars, memory, files, Served, RightBody
<1> QED
  BY <1>1, <1>2, <1>3, <1>4, <1>5, <1>6, <1>7, <1>8, <1>9, <1>10, <1>11, <1>12, <1>13,
     <1>14, <1>15, <1>16, <1>17, <1>18, <1>19, <1>20, <1>21, <1>22, <1>23, <1>24, <1>25,
     <1>26 DEF Next, Task, Scheduler

-----------------------------------------------------------------------------
(* Who holds a key *)

\* A run was made for the row of this id, was not told to stop, and will report or has.
Holds(n, id) == runs[n].id = id /\ ~ runs[n].told /\ Open(n)

\* KeyHasHolder, in these words.
Holder ==
  up => \A k \in Keys : cache[k].state = "running" =>
    LET row == [key |-> k, id |-> cache[k].id]
    IN looking = row \/ (inFlight = row /\ \E n \in Runs : Holds(n, row.id))

\* Holder says what KeyHasHolder says.
LEMMA HolderIs == RunsOK => (Holder <=> KeyHasHolder)
<1> SUFFICES ASSUME RunsOK PROVE Holder <=> KeyHasHolder
  OBVIOUS
<1>1. \A n \in Runs : n \in ToSet(reports) <=> \E i \in DOMAIN reports : reports[i] = n
  BY DEF ToSet
<1>2. \A n \in Runs : \A id : Holds(n, id) <=>
        /\ runs[n].id = id /\ ~ runs[n].told
        /\ \/ runs[n].at \in {"made", "bare", "running", "killing"}
           \/ n \in ToSet(reports)
  BY <1>1 DEF Holds, Open, Busy
<1> QED  BY <1>2 DEF Holder, KeyHasHolder

\* It is kept while the rows that run stay, and their runs.
LEMMA HolderKept ==
  ASSUME Holder, up' = up, looking' = looking, inFlight' = inFlight,
         \A k \in Keys : cache'[k].state = "running" => cache'[k] = cache[k],
         \A n \in Runs : /\ runs'[n].id = runs[n].id /\ runs'[n].told = runs[n].told
                         /\ Open(n) => Open(n)'
  PROVE  Holder'
BY DEF Holder, Holds

\* A run that was open reports before it is gone.
LEMMA StaysOpen ==
  ASSUME RunsOK, NEW n \in Runs, Task(n) \/ Exits(n), NEW m \in Runs, Open(m)
  PROVE  Open(m)'
<1>1. \A i \in DOMAIN reports : i \in DOMAIN reports' /\ reports'[i] = reports[i]
  <2>1. CASE reports' = Append(reports, n)
    BY <2>1 DEF RunsOK
  <2>2. CASE reports' = reports
    BY <2>2
  <2> QED  BY <2>1, <2>2, TaskIs
<1>2. reports' = Append(reports, n) => \E i \in DOMAIN reports' : reports'[i] = n
  <2>1. ASSUME reports' = Append(reports, n)
        PROVE  Len(reports) + 1 \in DOMAIN reports' /\ reports'[Len(reports) + 1] = n
    BY <2>1 DEF RunsOK
  <2> QED  BY <2>1
<1>3. n = m => \/ runs'[n].at \in Busy
               \/ reports' = Append(reports, n)
               \/ runs'[n].at = runs[n].at
  BY TaskIs
<1>4. n # m => runs'[m].at = runs[m].at
  BY TaskIs
<1> QED  BY <1>1, <1>2, <1>3, <1>4 DEF Open

\* A key is held until it is given back.
LEMMA StepHolder == TableOK /\ RunsOK /\ Reported /\ Single /\ Holder /\ [Next]_vars => Holder'
<1> SUFFICES ASSUME TableOK, RunsOK, Reported, Single, Holder, [Next]_vars PROVE Holder'
  OBVIOUS
<1>1. ASSUME NEW s \in Sessions, TurnStart(s) PROVE Holder'
  BY <1>1, HolderKept DEF TurnStart, Notify, Event, memory, files, Open
<1>2. ASSUME NEW s \in Sessions \cup {Nobody}, Invalidate(s) PROVE Holder'
  BY <1>2, HolderKept DEF Invalidate, Notify, Event, memory, files, Open
<1>3. ASSUME NEW k \in Keys, AskSummary(k) PROVE Holder'
  BY <1>3, HolderKept DEF AskSummary, Waits, memory, files, Open
<1>4. ASSUME NEW k \in Keys, Collect(k) PROVE Holder'
  <2>1. \A j \in Keys : cache'[j] = cache[j] \/ cache'[j] = Blank
    BY <1>4 DEF Collect, TableOK
  <2> QED  BY <1>4, <2>1, BlankIs, HolderKept DEF Collect, memory, Open
<1>5. ASSUME NEW n \in Runs, Spawn(n) PROVE Holder'
  <2> QED  BY <1>5, TaskIs, StaysOpen, HolderKept DEF Task, memory
<1>6. ASSUME NEW n \in Runs, RecordPid(n) PROVE Holder'
  <2> QED  BY <1>6, TaskIs, StaysOpen, HolderKept DEF Task, memory
<1>7. ASSUME NEW n \in Runs, SpawnFails(n) PROVE Holder'
  <2> QED  BY <1>7, TaskIs, StaysOpen, HolderKept DEF Task, memory
<1>8. ASSUME NEW n \in Runs, Ends(n) PROVE Holder'
  <2> QED  BY <1>8, TaskIs, StaysOpen, HolderKept DEF Task, memory
<1>9. ASSUME NEW n \in Runs, Timeout(n) PROVE Holder'
  <2> QED  BY <1>9, TaskIs, StaysOpen, HolderKept DEF Task, memory
<1>10. ASSUME NEW n \in Runs, Cancelled(n) PROVE Holder'
  <2> QED  BY <1>10, TaskIs, StaysOpen, HolderKept DEF Task, memory
<1>11. ASSUME NEW n \in Runs, Kill(n) PROVE Holder'
  <2> QED  BY <1>11, TaskIs, StaysOpen, HolderKept DEF Task, memory
<1>12. ASSUME NEW n \in Runs, Exits(n) PROVE Holder'
  <2> QED  BY <1>12, TaskIs, StaysOpen, HolderKept DEF Task, memory
<1>13. CASE SkipTurn
  BY <1>13, HolderKept DEF SkipTurn, memory, files, Open
<1>14. CASE BeginSummary
  <2>1. PICK k \in Keys : /\ cache' = [cache EXCEPT ![k] = Entry("running", NextId(k), NoKey)]
                       /\ looking' = [key |-> k, id |-> NextId(k)]
    BY <1>14 DEF BeginSummary
  <2>2. up /\ looking = None /\ inFlight = None
    BY <1>14 DEF BeginSummary, MaySpend, Loop, Free
  <2>3. \A j \in Keys : cache[j].state # "running"
    BY <2>2, KeyIs DEF Holder, None
  <2>4. \A j \in Keys :
          cache'[j] = IF j = k THEN Entry("running", NextId(k), NoKey) ELSE cache[j]
    BY <2>1 DEF TableOK
  <2>5. Entry("running", NextId(k), NoKey).id = NextId(k)
    BY DEF Entry
  <2> QED  BY <2>1, <2>3, <2>4, <2>5 DEF Holder
<1>15. CASE GiveUp
  <2>1. /\ cache' = Finish(looking.id, "failed", NoKey) /\ up /\ inFlight = None
        /\ looking # None
    BY <1>15 DEF GiveUp, Free, Single
  <2>2. \A k \in Keys : cache[k].state = "running" => looking = [key |-> k, id |-> cache[k].id]
    BY <2>1, KeyIs DEF Holder, None
  <2>3. \A k \in Keys : cache[k].state = "running" => looking.id = cache[k].id
    BY <2>2
  <2>4. \A k \in Keys : cache'[k].state # "running"
    BY <2>1, <2>3, FinishSome
  <2> QED  BY <2>4 DEF Holder
<1>16. CASE StartRun
  <2>1. PICK n \in Runs :
          runs' = [runs EXCEPT ![n] = [NoTask EXCEPT !.at = "made", !.key = looking.key,
                                                     !.id = looking.id]]
    BY <1>16 DEF StartRun, Of
  <2>2. up /\ cache' = cache /\ inFlight' = looking /\ inFlight = None
    BY <1>16 DEF StartRun, Free, Single
  <2>3. runs'[n].id = looking.id /\ ~ runs'[n].told /\ runs'[n].at = "made"
    BY <2>1 DEF NoTask, RunsOK
  <2>4. \A k \in Keys : cache[k].state = "running" => looking = [key |-> k, id |-> cache[k].id]
    BY <2>2, KeyIs DEF Holder, None
  <2>5. Open(n)'
    BY <2>3 DEF Open, Busy
  <2>6. \A k \in Keys : cache[k].state = "running" => looking.id = cache[k].id
    BY <2>4
  <2> QED  BY <2>2, <2>3, <2>4, <2>5, <2>6 DEF Holder, Holds
<1>17. CASE HandleInvalidate
  <2>1. CASE inFlight' = inFlight /\ runs' = runs /\ cache' = cache
    BY <1>17, <2>1, HolderKept DEF HandleInvalidate, Open
  <2>2. CASE cache' = Finish(inFlight.id, "cancelled", NoKey)
    <3>1. up /\ looking = None
      BY <1>17 DEF HandleInvalidate, Loop, Free
    <3>2. \A k \in Keys : cache[k].state = "running" =>
            inFlight = [key |-> k, id |-> cache[k].id]
      BY <3>1, KeyIs DEF Holder, None
    <3>3. \A k \in Keys : cache[k].state = "running" => inFlight.id = cache[k].id
      BY <3>2
    <3>4. \A k \in Keys : cache'[k].state # "running"
      BY <2>2, <3>3, FinishSome
    <3> QED  BY <3>4 DEF Holder
  <2> QED  BY <1>17, <2>1, <2>2 DEF HandleInvalidate, Cancel
<1>18. CASE Record
  <2> DEFINE n == Head(reports)
  <2>1. up /\ looking = None /\ up' = up /\ looking' = looking
    BY <1>18 DEF Record, Loop, Free
  <2>2. \A k \in Keys : cache[k].state = "running" =>
          /\ inFlight = [key |-> k, id |-> cache[k].id]
          /\ \E m \in Runs : Holds(m, cache[k].id)
    BY <2>1, KeyIs DEF Holder, None
  <2>3. \A k \in Keys : cache[k].state = "running" => inFlight # None
          /\ inFlight.id = cache[k].id
    BY <2>2, KeyIs DEF None
  <2>4. reports # <<>> /\ reports' = Tail(reports) /\ n \in Runs /\ n = reports[1]
          /\ 1 \in DOMAIN reports
    BY <1>18, SeqIs DEF Record, RunsOK
  <2>5. CASE inFlight # None /\ inFlight.id = runs[n].id
    <3>1. cache' = Finish(runs[n].id, runs[n].outcome, runs[n].key)
      BY <1>18, <2>5 DEF Record
    <3>2. runs[n].outcome # "running"
      BY <2>4 DEF Reported, Outcomes
    <3>3. \A k \in Keys : cache'[k].state # "running"
      BY <2>3, <2>5, <3>1, <3>2, FinishSome
    <3> QED  BY <3>3 DEF Holder
  <2>6. CASE ~ (inFlight # None /\ inFlight.id = runs[n].id)
    <3>1. cache' = cache /\ inFlight' = inFlight /\ runs' = runs
      BY <1>18, <2>6 DEF Record
    <3>2. \A i \in DOMAIN reports : i # 1 => i - 1 \in DOMAIN reports'
            /\ reports'[i - 1] = reports[i]
      BY <2>4 DEF RunsOK
    <3>3. \A m \in Runs : Open(m) /\ m # n => Open(m)'
      BY <2>4, <3>1, <3>2 DEF Open
    <3>4. ASSUME NEW k \in Keys, cache[k].state = "running"
          PROVE  \E m \in Runs : runs[m].id = cache[k].id /\ ~ runs[m].told /\ Open(m)'
      <4>1. PICK m \in Runs : runs[m].id = cache[k].id /\ ~ runs[m].told /\ Open(m)
        BY <2>2, <3>4 DEF Holds
      <4>2. m # n
        BY <2>3, <2>6, <3>4, <4>1
      <4> QED  BY <3>3, <4>1, <4>2
    <3> QED  BY <2>1, <2>2, <3>1, <3>4 DEF Holder, Holds
  <2> QED  BY <2>5, <2>6
<1>19. CASE Shutdown
  <2>1. ~ up'
    BY <1>19 DEF Shutdown, Gone
  <2> QED  BY <2>1 DEF Holder
<1>20. CASE AskStop
  BY <1>20, HolderKept DEF AskStop, Event, memory, files, Open
<1>21. CASE Join
  BY <1>21, HolderKept DEF Join, Waits, memory, files, Open
<1>22. CASE Deadline
  BY <1>22, HolderKept DEF Deadline, memory, files, Open
<1>23. CASE Rest
  BY <1>23, HolderKept DEF Rest, memory, files, Open
<1>24. CASE Die
  <2>1. ~ up'
    BY <1>24 DEF Die, Gone
  <2> QED  BY <2>1 DEF Holder
<1>25. CASE Restart
  <2>1. \A k \in Keys : cache'[k].state # "running"
    BY <1>25 DEF Restart, Entry
  <2> QED  BY <2>1 DEF Holder
<1>26. CASE UNCHANGED vars
  BY <1>26, HolderKept DEF vars, memory, files, Open
<1> QED
  BY <1>1, <1>2, <1>3, <1>4, <1>5, <1>6, <1>7, <1>8, <1>9, <1>10, <1>11, <1>12, <1>13,
     <1>14, <1>15, <1>16, <1>17, <1>18, <1>19, <1>20, <1>21, <1>22, <1>23, <1>24, <1>25,
     <1>26 DEF Next, Task, Scheduler

-----------------------------------------------------------------------------
(* No command without a leash *)

\* A key has one run at most, and none while its diff is awaited.
Apart ==
  /\ \A m, n \in Runs : runs[m].key = runs[n].key /\ runs[m].key \in Keys => m = n
  /\ looking # None => \A n \in Runs : runs[n].key # looking.key

\* It is kept while no run is made and no diff asked for.
LEMMA ApartKept ==
  ASSUME Apart, looking' \in {looking, None}, \A n \in Runs : runs'[n].key = runs[n].key
  PROVE  Apart'
BY DEF Apart

\* A key is begun once, so it has one run.
LEMMA StepApart ==
  EventsOK /\ TableOK /\ RunsOK /\ Single /\ Once /\ Apart /\ [Next]_vars => Apart'
<1> SUFFICES ASSUME EventsOK, TableOK, RunsOK, Single, Once, Apart, [Next]_vars PROVE Apart'
  OBVIOUS
<1>1. ASSUME NEW s \in Sessions, TurnStart(s) PROVE Apart'
  BY <1>1, ApartKept DEF TurnStart, Notify, Event, memory, files
<1>2. ASSUME NEW s \in Sessions \cup {Nobody}, Invalidate(s) PROVE Apart'
  BY <1>2, ApartKept DEF Invalidate, Notify, Event, memory, files
<1>3. ASSUME NEW k \in Keys, AskSummary(k) PROVE Apart'
  BY <1>3, ApartKept DEF AskSummary, Waits, memory, files
<1>4. ASSUME NEW k \in Keys, Collect(k) PROVE Apart'
  BY <1>4, ApartKept DEF Collect, memory, files
<1>5. ASSUME NEW n \in Runs, Spawn(n) PROVE Apart'
  <2> QED  BY <1>5, TaskIs, ApartKept DEF Task, memory
<1>6. ASSUME NEW n \in Runs, RecordPid(n) PROVE Apart'
  <2> QED  BY <1>6, TaskIs, ApartKept DEF Task, memory
<1>7. ASSUME NEW n \in Runs, SpawnFails(n) PROVE Apart'
  <2> QED  BY <1>7, TaskIs, ApartKept DEF Task, memory
<1>8. ASSUME NEW n \in Runs, Ends(n) PROVE Apart'
  <2> QED  BY <1>8, TaskIs, ApartKept DEF Task, memory
<1>9. ASSUME NEW n \in Runs, Timeout(n) PROVE Apart'
  <2> QED  BY <1>9, TaskIs, ApartKept DEF Task, memory
<1>10. ASSUME NEW n \in Runs, Cancelled(n) PROVE Apart'
  <2> QED  BY <1>10, TaskIs, ApartKept DEF Task, memory
<1>11. ASSUME NEW n \in Runs, Kill(n) PROVE Apart'
  <2> QED  BY <1>11, TaskIs, ApartKept DEF Task, memory
<1>12. ASSUME NEW n \in Runs, Exits(n) PROVE Apart'
  <2> QED  BY <1>12, TaskIs, ApartKept DEF Task, memory
<1>13. CASE SkipTurn
  BY <1>13, ApartKept DEF SkipTurn, memory, files
<1>14. CASE BeginSummary
  <2>1. PICK k \in Keys :
          /\ k = <<Head(queue).session, Head(queue).turn - 1>>
          /\ queue # <<>> /\ Head(queue).kind = "turn"
          /\ looking' = [key |-> k, id |-> NextId(k)]
          /\ runs' = runs
    BY <1>14 DEF BeginSummary
  <2>2. 1 \in DOMAIN queue /\ queue[1] = Head(queue) /\ queue[1] \in Events
    BY <2>1, SeqIs DEF EventsOK
  <2>3. queue[1] = Event("turn", k[1], k[2] + 1)
    BY <2>1, <2>2 DEF Event, Events
  <2>4. \A n \in Runs : runs[n].key # k
    BY <2>2, <2>3 DEF Once, Ahead
  <2> QED  BY <2>1, <2>4 DEF Apart
<1>15. CASE GiveUp
  <2> QED  BY <1>15, ApartKept DEF GiveUp
<1>16. CASE StartRun
  <2>1. PICK n \in Runs :
          runs' = [runs EXCEPT ![n] = [NoTask EXCEPT !.at = "made", !.key = looking.key,
                                                     !.id = looking.id]]
    BY <1>16 DEF StartRun, Of
  <2>2. looking # None /\ looking' = None
    BY <1>16 DEF StartRun
  <2>3. runs'[n].key = looking.key
    BY <2>1 DEF NoTask, RunsOK
  <2>4. \A m \in Runs : m # n => runs'[m] = runs[m]
    BY <2>1 DEF RunsOK
  <2> QED  BY <2>2, <2>3, <2>4 DEF Apart
<1>17. CASE HandleInvalidate
  <2>1. runs' = runs \/ runs' = Tell(inFlight.id)
    BY <1>17 DEF HandleInvalidate, Cancel
  <2> QED  BY <1>17, <2>1, TellIs, ApartKept DEF HandleInvalidate
<1>18. CASE Record
  <2>1. runs' = runs \/ runs' = Tell(runs[Head(reports)].id)
    BY <1>18 DEF Record
  <2> QED  BY <1>18, <2>1, TellIs, ApartKept DEF Record
<1>19. CASE Shutdown
  <2> QED  BY <1>19, AfterIs, ApartKept DEF Shutdown, Gone
<1>20. CASE AskStop
  BY <1>20, ApartKept DEF AskStop, Event, memory, files
<1>21. CASE Join
  BY <1>21, ApartKept DEF Join, Waits, memory, files
<1>22. CASE Deadline
  BY <1>22, ApartKept DEF Deadline, memory, files
<1>23. CASE Rest
  BY <1>23, ApartKept DEF Rest, memory, files
<1>24. CASE Die
  <2> QED  BY <1>24, AfterIs, ApartKept DEF Die, Gone
<1>25. CASE Restart
  <2> QED  BY <1>25, AfterIs, ApartKept DEF Restart, memory
<1>26. CASE UNCHANGED vars
  BY <1>26, ApartKept DEF vars, memory, files
<1> QED
  BY <1>1, <1>2, <1>3, <1>4, <1>5, <1>6, <1>7, <1>8, <1>9, <1>10, <1>11, <1>12, <1>13,
     <1>14, <1>15, <1>16, <1>17, <1>18, <1>19, <1>20, <1>21, <1>22, <1>23, <1>24, <1>25,
     <1>26 DEF Next, Task, Scheduler

\* A command that escapes: its file was never written, or a sweep took it for another.
Escapes(n) == runs[n].loose \/ runs[n].missed

\* A command that runs has its task while the daemon is up, and a pid file from the
\* moment it is awaited; or it has escaped from a daemon that is gone.
Leash ==
  \A n \in Runs : runs[n].leader =>
    /\ runs[n].at \in {"bare", "running", "over"}
    /\ ~ up => runs[n].at = "over"
    /\ up /\ ~ Escapes(n) => runs[n].at # "over"
    /\ ~ Escapes(n) /\ (runs[n].at = "running" \/ ~ up) => n \in pids

\* Two runs that are about have ids of their own.
LEMMA OwnId ==
  ASSUME RunsOK, Rows, Apart, NEW m \in Runs, NEW n \in Runs, Open(m), Open(n), m # n
  PROVE  runs[m].id # runs[n].id
BY DEF Rows, Apart

\* A run's end takes its own pid file and no other's.
LEMMA OverIs ==
  ASSUME RunsOK, Rows, Apart, Leash, NEW n \in Runs, NEW outcome, NEW run \in Job,
         up, Over(n, outcome, run), run.id = runs[n].id, runs[n].at \in Busy,
         ~ run.leader
  PROVE  Leash'
<1>1. /\ runs' = [runs EXCEPT ![n] = [[run EXCEPT !.at = "over"] EXCEPT !.outcome = outcome]]
      /\ pids' = {m \in pids : runs[m].id # runs[n].id} /\ up' = up
  BY DEF Over, Cleaned
<1>2. runs'[n].leader = run.leader
  BY <1>1 DEF RunsOK, Job
<1>3. \A m \in Runs : m # n => runs'[m] = runs[m]
  BY <1>1 DEF RunsOK
<1>4. ASSUME NEW m \in Runs, m # n, runs[m].at = "running" PROVE runs[m].id # runs[n].id
  BY <1>4, OwnId DEF Open, Busy
<1> QED  BY <1>1, <1>2, <1>3, <1>4 DEF Leash, Escapes

\* Telling a run leaves its command alone.
LEMMA TellLeaves ==
  ASSUME RunsOK, NEW id, NEW n \in Runs
  PROVE  /\ Tell(id)[n].at = runs[n].at /\ Tell(id)[n].leader = runs[n].leader
         /\ Tell(id)[n].loose = runs[n].loose /\ Tell(id)[n].missed = runs[n].missed
BY JobIs DEF Tell, Job

\* A command's task or its pid file stays as long as the command.
LEMMA StepLeash == RunsOK /\ Rows /\ Apart /\ Leash /\ [Next]_vars => Leash'
<1> SUFFICES ASSUME RunsOK, Rows, Apart, Leash, [Next]_vars PROVE Leash'
  OBVIOUS
<1>1. ASSUME NEW s \in Sessions, TurnStart(s) PROVE Leash'
  BY <1>1 DEF TurnStart, Notify, Event, memory, files, Leash, Escapes
<1>2. ASSUME NEW s \in Sessions \cup {Nobody}, Invalidate(s) PROVE Leash'
  BY <1>2 DEF Invalidate, Notify, Event, memory, files, Leash, Escapes
<1>3. ASSUME NEW k \in Keys, AskSummary(k) PROVE Leash'
  BY <1>3 DEF AskSummary, Waits, memory, files, Leash, Escapes
<1>4. ASSUME NEW k \in Keys, Collect(k) PROVE Leash'
  BY <1>4 DEF Collect, memory, files, Leash, Escapes
<1>5. ASSUME NEW n \in Runs, Spawn(n) PROVE Leash'
  <2>1. /\ runs'[n].at = "bare" /\ \A m \in Runs : m # n => runs'[m] = runs[m]
        /\ up /\ up' = up /\ pids' = pids
    BY <1>5 DEF Spawn, RunsOK, Job, files, Free
  <2> QED  BY <2>1 DEF Leash, Escapes
<1>6. ASSUME NEW n \in Runs, RecordPid(n) PROVE Leash'
  <2>1. /\ runs'[n].at = "running" /\ runs'[n].loose = ~ pidsDir
        /\ \A m \in Runs : m # n => runs'[m] = runs[m]
    BY <1>6 DEF RecordPid, RunsOK, Job
  <2>2. /\ up /\ up' = up /\ runs[n].at = "bare"
        /\ pids' = IF pidsDir THEN {n} \cup {m \in pids : runs[m].id # runs[n].id} ELSE pids
    BY <1>6 DEF RecordPid
  <2>3. ASSUME NEW m \in Runs, m # n, runs[m].at = "running" PROVE runs[m].id # runs[n].id
    BY <2>2, <2>3, OwnId DEF Open, Busy
  <2> QED  BY <2>1, <2>2, <2>3 DEF Leash, Escapes
<1>7. ASSUME NEW n \in Runs, SpawnFails(n) PROVE Leash'
  <2>1. Over(n, "failed", runs[n]) /\ runs[n].at = "made" /\ up
    BY <1>7 DEF SpawnFails, Free
  <2>2. runs[n] \in Job
    BY JobIs
  <2>3. ~ runs[n].leader
    BY <2>1 DEF Leash, Escapes
  <2> QED  BY <2>1, <2>2, <2>3, OverIs DEF Busy
<1>8. ASSUME NEW n \in Runs, Ends(n) PROVE Leash'
  <2>1. PICK o \in {"ready", "failed", "overflow"} : Over(n, o, runs[n])
    BY <1>8 DEF Ends
  <2>2. runs[n].at = "running" /\ up /\ ~ runs[n].leader /\ runs[n] \in Job
    BY <1>8, JobIs DEF Ends, Free
  <2> QED  BY <2>1, <2>2, OverIs DEF Busy
<1>9. ASSUME NEW n \in Runs, Timeout(n) PROVE Leash'
  <2>1. PICK stay : runs' = [runs EXCEPT ![n] = [[[[runs[n] EXCEPT !.at = "killing"]
                     EXCEPT !.outcome = "timeout"] EXCEPT !.leader = FALSE] EXCEPT !.kin = stay]]
    BY <1>9 DEF Timeout, Terminate
  <2>2. ~ runs'[n].leader /\ \A m \in Runs : m # n => runs'[m] = runs[m]
    BY <2>1 DEF RunsOK, Job
  <2>3. up' = up /\ pids' = pids
    BY <1>9 DEF Timeout, Terminate, files
  <2> QED  BY <2>2, <2>3 DEF Leash, Escapes
<1>10. ASSUME NEW n \in Runs, Cancelled(n) PROVE Leash'
  <2>1. PICK stay : runs' = [runs EXCEPT ![n] = [[[[runs[n] EXCEPT !.at = "killing"]
                     EXCEPT !.outcome = "cancelled"] EXCEPT !.leader = FALSE] EXCEPT !.kin = stay]]
    BY <1>10, ZenonT(40) DEF Cancelled, Terminate
  <2>2. ~ runs'[n].leader /\ \A m \in Runs : m # n => runs'[m] = runs[m]
    BY <2>1 DEF RunsOK, Job
  <2>3. up' = up /\ pids' = pids
    BY <1>10 DEF Cancelled, Terminate, files
  <2> QED  BY <2>2, <2>3 DEF Leash, Escapes
<1>11. ASSUME NEW n \in Runs, Kill(n) PROVE Leash'
  <2>1. Over(n, runs[n].outcome, [runs[n] EXCEPT !.kin = FALSE]) /\ runs[n].at = "killing" /\ up
    BY <1>11 DEF Kill, Free
  <2>2. [runs[n] EXCEPT !.kin = FALSE] \in Job
    BY JobIs, FieldIs
  <2>3. /\ [runs[n] EXCEPT !.kin = FALSE].id = runs[n].id
        /\ [runs[n] EXCEPT !.kin = FALSE].leader = runs[n].leader
        /\ [runs[n] EXCEPT !.kin = FALSE].loose = runs[n].loose
    BY JobIs DEF Job
  <2>4. ~ runs[n].leader
    BY <2>1 DEF Leash, Escapes
  <2> HIDE DEF Over
  <2> QED  BY <2>1, <2>2, <2>3, <2>4, OverIs DEF Busy
<1>12. ASSUME NEW n \in Runs, Exits(n) PROVE Leash'
  <2>1. PICK stay :
          runs' = [runs EXCEPT ![n] = [[runs[n] EXCEPT !.leader = FALSE] EXCEPT !.kin = stay]]
    BY <1>12 DEF Exits
  <2>2. ~ runs'[n].leader /\ \A m \in Runs : m # n => runs'[m] = runs[m]
    BY <2>1 DEF RunsOK, Job
  <2>3. up' = up /\ pids' = pids
    BY <1>12 DEF Exits, files
  <2> QED  BY <2>2, <2>3 DEF Leash, Escapes
<1>13. CASE SkipTurn
  BY <1>13 DEF SkipTurn, memory, files, Leash, Escapes
<1>14. CASE BeginSummary
  BY <1>14 DEF BeginSummary, memory, files, Leash, Escapes
<1>15. CASE GiveUp
  BY <1>15 DEF GiveUp, Finish, memory, files, Leash, Escapes
<1>16. CASE StartRun
  <2>1. PICK n \in Runs :
          runs' = [runs EXCEPT ![n] = [NoTask EXCEPT !.at = "made", !.key = looking.key,
                                                     !.id = looking.id]]
    BY <1>16 DEF StartRun, Of
  <2>2. ~ runs'[n].leader /\ \A m \in Runs : m # n => runs'[m] = runs[m]
    BY <2>1 DEF RunsOK, NoTask
  <2>3. up' = up /\ pids' = pids
    BY <1>16 DEF StartRun
  <2> QED  BY <2>2, <2>3 DEF Leash, Escapes
<1>17. CASE HandleInvalidate
  <2>1. runs' = runs \/ runs' = Tell(inFlight.id)
    BY <1>17 DEF HandleInvalidate, Cancel
  <2> QED  BY <1>17, <2>1, TellLeaves DEF HandleInvalidate, Leash, Escapes, files
<1>18. CASE Record
  <2>1. runs' = runs \/ runs' = Tell(runs[Head(reports)].id)
    BY <1>18 DEF Record
  <2> QED  BY <1>18, <2>1, TellLeaves DEF Record, Leash, Escapes, files
<1>19. CASE Shutdown
  <2>1. \A n \in Runs : runs'[n] = IF n \in Of({"made", "running", "killing"})
                                  THEN [runs[n] EXCEPT !.at = "over", !.leader = FALSE] ELSE runs[n]
    BY <1>19 DEF Shutdown
  <2>2. up /\ \A n \in Runs : runs[n].at # "bare"
    BY <1>19 DEF Shutdown, Loop, Free, Of
  <2>3. \A n \in Runs : \/ ~ runs'[n].leader
                       \/ (runs'[n] = runs[n] /\ runs[n].at \notin {"bare", "running"})
    BY <2>1, <2>2, JobIs DEF Job, Of
  <2> QED  BY <2>2, <2>3 DEF Leash, Escapes
<1>20. CASE AskStop
  BY <1>20 DEF AskStop, Event, memory, files, Leash, Escapes
<1>21. CASE Join
  BY <1>21 DEF Join, Waits, memory, files, Leash, Escapes
<1>22. CASE Deadline
  BY <1>22 DEF Deadline, memory, files, Leash, Escapes
<1>23. CASE Rest
  BY <1>23 DEF Rest, memory, files, Leash, Escapes
<1>24. CASE Die
  <2>1. \A n \in Runs : runs'[n] = IF runs[n].at = "none" THEN runs[n]
                                  ELSE [runs[n] EXCEPT !.at = "over", !.loose = runs[n].loose \/ runs[n].at = "bare"]
    BY <1>24 DEF Die
  <2>2. up /\ ~ up' /\ pids' = pids
    BY <1>24 DEF Die, Gone, files
  <2>3. ASSUME NEW n \in Runs
        PROVE  /\ runs'[n].leader = runs[n].leader /\ runs'[n].missed = runs[n].missed
               /\ \/ runs[n].at = "none" /\ runs'[n].loose = runs[n].loose
                  \/ /\ runs'[n].loose = (runs[n].loose \/ runs[n].at = "bare")
                     /\ runs'[n].at = "over"
    <3>1. CASE runs[n].at = "none"
      BY <2>1, <3>1
    <3>2. CASE runs[n].at # "none"
      BY <2>1, <3>2, JobIs DEF Job
    <3> QED  BY <3>1, <3>2
  <2>4. ASSUME NEW n \in Runs, runs'[n].leader
        PROVE  /\ runs'[n].at = "over"
               /\ ~ runs'[n].loose /\ ~ runs'[n].missed => n \in pids'
    <3>1. runs[n].leader /\ runs[n].at # "none"
      BY <2>3, <2>4 DEF Leash
    <3>2. ~ runs'[n].loose => ~ runs[n].loose /\ runs[n].at # "bare"
      BY <2>3, <3>1, JobIs
    <3>3. ~ runs'[n].loose /\ ~ runs'[n].missed => n \in pids
      BY <2>2, <2>3, <3>1, <3>2, JobIs DEF Leash, Escapes
    <3> QED  BY <2>2, <2>3, <3>1, <3>3
  <2> QED  BY <2>2, <2>4 DEF Leash, Escapes
<1>25. CASE Restart
  <2>1. ~ up /\ up'
    BY <1>25 DEF Restart
  <2>2. ASSUME NEW n \in Runs, runs'[n].leader
        PROVE  runs'[n].at = "over" /\ (runs'[n].loose \/ runs'[n].missed)
    <3>1. runs[n].leader /\ runs'[n].at = runs[n].at /\ runs[n].at = "over"
      BY <1>25, <2>1, <2>2, SweepIs DEF Leash
    <3>2. n \in pids \/ Escapes(n)
      BY <2>1, <3>1 DEF Leash
    <3> QED  BY <1>25, <2>2, <3>1, <3>2, SweepIs DEF Escapes
  <2> QED  BY <2>1, <2>2 DEF Leash, Escapes
<1>26. CASE UNCHANGED vars
  BY <1>26 DEF vars, memory, files, Leash, Escapes
<1> QED
  BY <1>1, <1>2, <1>3, <1>4, <1>5, <1>6, <1>7, <1>8, <1>9, <1>10, <1>11, <1>12, <1>13,
     <1>14, <1>15, <1>16, <1>17, <1>18, <1>19, <1>20, <1>21, <1>22, <1>23, <1>24, <1>25,
     <1>26 DEF Next, Task, Scheduler

-----------------------------------------------------------------------------
(* The theorems *)

\* What holds of the scheduler, also when gc takes the row of a run under way.
Scheduled ==
  /\ EventsOK /\ TableOK /\ RunsOK
  /\ Reported /\ Single /\ Once /\ Current
  /\ OneAtATime /\ Holder

\* With it, what needs a row to stay as long as its run.
IInv == ~ Trims /\ Scheduled /\ Rows /\ Apart /\ Served /\ Leash

\* At the start nothing is asked, begun or running.
LEMMA InitIInv == Init => Scheduled /\ Rows /\ Apart /\ Served /\ Leash
<1> SUFFICES ASSUME Init PROVE Scheduled /\ Rows /\ Apart /\ Served /\ Leash
  OBVIOUS
<1>1. /\ up /\ queue = <<>> /\ DOMAIN queue = {} /\ looking = None /\ inFlight = None
      /\ cache = [k \in Keys |-> Blank] /\ runs = [n \in Runs |-> NoTask]
      /\ reports = <<>> /\ DOMAIN reports = {} /\ client = NoAsk
      /\ turns = [s \in Sessions |-> 0]
  BY SeqIs DEF Init
<1>2. EventsOK
  BY <1>1, SeqIs DEF EventsOK
<1>3. TableOK
  <2>1. \A k \in Keys : cache[k] = Blank
    BY <1>1
  <2>2. \A k \in Keys : cache[k].id <= 0
    BY <2>1, RowIs
  <2> QED  BY <1>1, <2>2, RowIs, RefIs DEF TableOK
<1>4. NoTask \in Job
  BY DEF NoTask, Job, Places, Results, Bodies
<1>5. RunsOK
  BY <1>1, <1>4, SeqIs DEF RunsOK
<1>6. NoTask.at = "none" /\ NoTask.key = NoKey /\ ~ NoTask.leader
  BY DEF NoTask
<1>7. \A n \in Runs : runs[n] = NoTask /\ ~ Open(n)
  BY <1>1, <1>6 DEF Open, Busy
<1>8. \A k \in Keys : cache[k].state = "none" /\ cache[k].id = 0
  BY <1>1, BlankIs
<1>9. None.key = NoKey
  BY DEF None
<1>10. Reported /\ Single /\ Current /\ OneAtATime /\ Holder /\ Leash /\ Rows
  BY <1>1, <1>6, <1>7, <1>8 DEF Reported, Single, Current, OneAtATime, Of, Holder, Leash, Rows
<1>11. Once /\ Apart
  BY <1>1, <1>6, <1>7, <1>9, KeyIs DEF Once, Apart
<1>12. Served
  BY <1>1, <1>8 DEF Served, RightBody, NoAsk, Bodies
<1> QED  BY <1>2, <1>3, <1>5, <1>10, <1>11, <1>12 DEF Scheduled

\* Every step keeps the scheduler's order.
LEMMA StepScheduled == Scheduled /\ [Next]_vars => Scheduled'
BY StepEvents, StepTable, StepRuns, StepReported, StepSingle, StepOnce, StepCurrent, StepOne,
   StepHolder DEF Scheduled

\* Every step keeps them all.
LEMMA StepIInv == IInv /\ [Next]_vars => IInv'
BY StepScheduled, StepRows, StepApart, StepServed, StepLeash DEF IInv, Scheduled

\* The command runs for one turn at a time, whatever was cancelled before it.
THEOREM OneAtATimeHolds == Spec => []OneAtATime
<1>1. Scheduled => OneAtATime
  BY DEF Scheduled
<1>2. Init => Scheduled
  BY InitIInv
<1> QED  BY <1>1, <1>2, StepScheduled, PTL DEF Spec

\* What is served for a turn is the summary of that turn, if gc spares the row of a run
\* under way.
THEOREM RightBodyHolds ==
  ASSUME ~ Trims
  PROVE  Spec => []RightBody
<1>1. IInv => RightBody
  BY DEF IInv, Served
<1>2. Init => IInv
  BY InitIInv DEF IInv
<1> QED  BY <1>1, <1>2, StepIInv, PTL DEF Spec

\* A reserved key has somebody who will give it back.
THEOREM KeyHasHolderHolds == Spec => []KeyHasHolder
<1>1. Scheduled => KeyHasHolder
  BY HolderIs DEF Scheduled
<1>2. Init => Scheduled
  BY InitIInv
<1> QED  BY <1>1, <1>2, StepScheduled, PTL DEF Spec

\* No command runs on behalf of nobody, but one whose file was not written or whose name
\* the sweep did not recognise, if gc spares the row of a run under way.
THEOREM LeashedHolds ==
  ASSUME ~ Trims
  PROVE  Spec => []Leashed
<1>1. IInv => Leashed
  BY DEF IInv, Leash, Escapes, Leashed
<1>2. Init => IInv
  BY InitIInv DEF IInv
<1> QED  BY <1>1, <1>2, StepIInv, PTL DEF Spec
=============================================================================
