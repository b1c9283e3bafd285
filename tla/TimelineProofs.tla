--------------------------- MODULE TimelineProofs ---------------------------
(***************************************************************************)
(* What TLAPS proves of Timeline, for any sessions, any index a daemon     *)
(* comes up on, and any number of trees, rows, turns and briefs.           *)
(***************************************************************************)
EXTENDS Timeline, FiniteSetTheorems, SequenceTheorems, WellFoundedInduction, TLAPS

-----------------------------------------------------------------------------
(* Rows by their ids *)

\* The first of some ids.
LEMMA OldestIs ==
  ASSUME NEW n \in Nat, NEW S \in SUBSET (1..n)
  PROVE  /\ Oldest(S) \in 0..n
         /\ S = {} <=> Oldest(S) = 0
         /\ S # {} => Oldest(S) \in S /\ \A i \in S : Oldest(S) <= i
<1>1. CASE S = {}
  BY <1>1 DEF Oldest
<1>2. CASE S # {}
  <2>1. S \subseteq Nat
    OBVIOUS
  <2>2. PICK i \in S : \A j \in S : ~ (<<j, i>> \in OpToRel(<, Nat))
    BY <1>2, <2>1, NatLessThanWellFounded, WFMin
  <2>3. \A j \in S : i <= j
    <3>1. TAKE j \in S
    <3>2. ~ j < i
      BY <2>1, <2>2 DEF OpToRel
    <3>. QED
      BY <2>1, <3>2
  <2>4. Min(S) \in S /\ \A j \in S : Min(S) <= j
    BY <2>3 DEF Min
  <2>5. Oldest(S) = Min(S)
    BY <1>2 DEF Oldest
  <2>6. Oldest(S) \in 1..n
    BY <2>4, <2>5
  <2>7. 0 \notin 1..n /\ 1..n \subseteq 0..n
    OBVIOUS
  <2>. QED
    BY <1>2, <2>4, <2>5, <2>6, <2>7
<1>. QED
  BY <1>1, <1>2

\* The last of some ids.
LEMMA NewestIs ==
  ASSUME NEW n \in Nat, NEW S \in SUBSET (0..n)
  PROVE  /\ Newest(S) \in 0..n
         /\ S = {} => Newest(S) = 0
         /\ S # {} => /\ Newest(S) \in S /\ Newest(S) = Max(S)
                      /\ \A i \in S : i <= Newest(S)
<1>1. CASE S = {}
  BY <1>1 DEF Newest
<1>2. CASE S # {}
  <2> DEFINE T == {n - i : i \in S}
  <2>1. T \subseteq Nat /\ T # {}
    <3>1. \A i \in S : n - i \in Nat
      OBVIOUS
    <3>. QED
      BY <1>2, <3>1
  <2>2. PICK k \in T : \A j \in T : ~ (<<j, k>> \in OpToRel(<, Nat))
    BY <2>1, NatLessThanWellFounded, WFMin
  <2>3. \A j \in T : ~ j < k
    BY <2>1, <2>2 DEF OpToRel
  <2>4. PICK i \in S : k = n - i
    BY <2>2
  <2>5. \A j \in S : j <= i
    <3>1. TAKE j \in S
    <3>2. ~ n - j < n - i
      BY <2>3, <2>4
    <3>. QED
      BY <3>2
  <2>6. Max(S) \in S /\ \A j \in S : j <= Max(S)
    BY <2>5 DEF Max
  <2>. QED
    BY <1>2, <2>6 DEF Newest
<1>. QED
  BY <1>1, <1>2

\* The ids of the index.
LEMMA IdsAre ==
  ASSUME TypeOK
  PROVE  /\ Len(rows) \in Nat /\ DOMAIN rows = 1..Len(rows) /\ Len(rows) <= MaxRows
         /\ MaxRows \in Nat /\ \A i \in DOMAIN rows : rows[i] \in Records
         /\ \A kinds : Ids(kinds) \subseteq 1..Len(rows)
         /\ \A s : Of(s) \subseteq 1..Len(rows)
         /\ Real \subseteq Whole
BY BoundsAssumption DEF TypeOK, Ids, Of, Real, Whole, Targets, Kinds

\* The session that a brief is about has rows.
LEMMA SubjectIs ==
  ASSUME TypeOK, NEW asker
  PROVE  Subject(asker) = Nobody \/ (Subject(asker) \in Sessions /\ Whole \cap Of(Subject(asker)) # {})
<1> DEFINE places == {p \in DOMAIN seen : seen[p] # asker /\ Whole \cap Of(seen[p]) # {}}
<1>1. Len(seen) \in Nat /\ DOMAIN seen = 1..Len(seen) /\ \A p \in DOMAIN seen : seen[p] \in Sessions
  BY DEF TypeOK
<1>2. CASE places = {}
  BY <1>2 DEF Subject
<1>3. CASE places # {}
  <2>1. places \in SUBSET (0..Len(seen))
    BY <1>1
  <2> HIDE DEF places
  <2>2. Max(places) \in places
    BY <1>1, <1>3, <2>1, NewestIs
  <2>3. Subject(asker) = seen[Max(places)]
    BY <1>3 DEF Subject, places
  <2>. QED
    BY <1>1, <2>2, <2>3 DEF places
<1>. QED
  BY <1>2, <1>3

\* The places of the timeline that a report names are rows.
LEMMA PlacesAre ==
  ASSUME TypeOK, NEW s
  PROVE  /\ LatestTarget \in 0..Len(rows) /\ SessionStart(s) \in 0..Len(rows)
         /\ SessionEnd(s) \in 0..Len(rows)
         /\ LatestTarget # 0 => LatestTarget \in Real
         /\ SessionEnd(s) # 0 => SessionEnd(s) \in Real \cap Of(s)
<1>1. /\ Real \in SUBSET (0..Len(rows)) /\ Real \cap Of(s) \in SUBSET (0..Len(rows))
      /\ Whole \cap Of(s) \in SUBSET (1..Len(rows)) /\ Len(rows) \in Nat
  BY IdsAre DEF Real, Whole
<1>2. LatestTarget \in 0..Len(rows) /\ (LatestTarget # 0 => LatestTarget \in Real)
  BY <1>1, NewestIs DEF LatestTarget
<1>3. SessionEnd(s) \in 0..Len(rows) /\ (SessionEnd(s) # 0 => SessionEnd(s) \in Real \cap Of(s))
  BY <1>1, NewestIs DEF SessionEnd
<1>4. SessionStart(s) \in 0..Len(rows)
  BY <1>1, OldestIs DEF SessionStart
<1>. QED
  BY <1>2, <1>3, <1>4

\* A key names a session that has rows, and the generation of the newest target.
LEMMA KeyIs ==
  ASSUME TypeOK, NEW asker, BriefKey(asker) # <<>>
  PROVE  /\ BriefKey(asker) \in Keys
         /\ BriefKey(asker)[1] = Subject(asker) /\ Subject(asker) \in Sessions
         /\ Whole \cap Of(Subject(asker)) # {}
         /\ LatestTarget \in Real /\ BriefKey(asker)[2] = rows[LatestTarget].gen
<1>1. BriefKey(asker) = <<Subject(asker), rows[LatestTarget].gen>>
  BY DEF BriefKey
<1>2. Subject(asker) # Nobody /\ LatestTarget # 0
  BY DEF BriefKey
<1>3. LatestTarget \in Real
  BY <1>2, PlacesAre
<1>4. rows[LatestTarget].gen \in Trees
  BY <1>3, IdsAre DEF Real, Ids, Records
<1>. QED
  BY <1>1, <1>2, <1>3, <1>4, SubjectIs DEF Keys

LEMMA ReportType ==
  ASSUME TypeOK, NEW s \in Sessions
  PROVE  Report(s) \in Reports
<1> DEFINE n == Len(rows)
<1>1. n \in Nat /\ n <= MaxRows /\ MaxRows \in Nat /\ DOMAIN rows = 1..n
  BY IdsAre
<1>2. SessionEnd(s) \in 0..MaxRows
  BY <1>1, PlacesAre
<1>3. Cardinality(Whole \cap Of(s)) \in 0..MaxRows
  <2>1. IsFiniteSet(1..n) /\ Cardinality(1..n) <= n
    <3>1. 1 \in Int /\ n \in Int
      BY <1>1
    <3> HIDE DEF n
    <3>2. IsFiniteSet(1..n) /\ Cardinality(1..n) = IF 1 > n THEN 0 ELSE n - 1 + 1
      BY <3>1, FS_Interval
    <3>. QED
      BY <1>1, <3>1, <3>2
  <2>2. Whole \cap Of(s) \in SUBSET (1..n)
    BY IdsAre DEF Whole
  <2>3. IsFiniteSet(Whole \cap Of(s)) /\ Cardinality(Whole \cap Of(s)) <= Cardinality(1..n)
    BY <2>1, <2>2, FS_Subset
  <2>4. Cardinality(Whole \cap Of(s)) \in Nat /\ Cardinality(1..n) \in Nat
    BY <2>1, <2>3, FS_CardinalityType
  <2>. QED
    BY <1>1, <2>1, <2>3, <2>4
<1>4. Branches(s) \subseteq (0..MaxRows) \X (0..MaxRows) \X (0..MaxRows)
  <2>1. SUFFICES ASSUME NEW b \in Branches(s), SessionStart(s) # 0
                 PROVE  b \in (0..MaxRows) \X (0..MaxRows) \X (0..MaxRows)
    BY DEF Branches
  <2> DEFINE Left(i) == {j \in Real : rows[i].target < j /\ j < i}
  <2>2. PICK i \in Ids({"pre_rewind"}) : b = <<rows[i].target, Oldest(Left(i)), Newest(Left(i))>>
    BY <2>1 DEF Branches
  <2>3. rows[i].target \in 0..MaxRows
    BY <2>2, IdsAre DEF Ids, Records
  <2>4. Left(i) \in SUBSET (1..n) /\ Left(i) \in SUBSET (0..n)
    BY <1>1, IdsAre DEF Real
  <2>5. Oldest(Left(i)) \in 0..n /\ Newest(Left(i)) \in 0..n
    BY <1>1, <2>4, OldestIs, NewestIs
  <2>. QED
    BY <1>1, <2>2, <2>3, <2>5
<1>5. turns[s] \in 0..MaxTurns
  BY DEF TypeOK
<1>. QED
  BY <1>2, <1>3, <1>4, <1>5 DEF Report, Reports

-----------------------------------------------------------------------------
(* Type correctness *)

LEMMA NothingType == NoReport \in Reports /\ NoBrief.report = NoReport /\ NoBrief.drift = FALSE
BY BoundsAssumption DEF NoReport, NoBrief, Reports

LEMMA TypeInit == Init => TypeOK
<1> SUFFICES ASSUME Init
             PROVE  TypeOK
  OBVIOUS
<1>1. PICK past \in Pasts :
        /\ rows = past.rows /\ turns = past.turns /\ seen = past.seen
        /\ tree = past.rows[Len(past.rows)].gen /\ last = tree
        /\ newest = Max({past.rows[i].gen : i \in DOMAIN past.rows})
  BY DEF Init
<1>2. /\ rows \in Seq(Records) /\ Len(rows) \in 1..MaxRows
      /\ turns \in [Sessions -> 0..MaxTurns] /\ seen \in Seq(Sessions)
  BY <1>1, PastsAssumption
<1>. \A r \in Records : r.gen \in Trees
  BY DEF Records
<1>. \A i \in DOMAIN rows : rows[i] \in Records
  BY <1>2
<1>. 1 \in DOMAIN rows /\ Len(rows) \in DOMAIN rows
  BY <1>2
<1>3. tree \in Trees /\ last \in Trees
  BY <1>1
<1>4. newest \in Trees
  <2> DEFINE gens == {rows[i].gen : i \in DOMAIN rows}
  <2>1. gens \in SUBSET (0..MaxTrees) /\ gens # {}
    BY DEF Trees
  <2> HIDE DEF gens
  <2>2. Max(gens) \in gens
    BY <2>1, NewestIs, BoundsAssumption
  <2>. QED
    BY <1>1, <2>1, <2>2 DEF gens, Trees
<1>5. Missing \in [state : {"none", "running", "ready", "failed"},
                   brief : [report : Reports, drift : BOOLEAN], upto : 0..MaxRows, by : 0..MaxRows]
  BY NothingType, BoundsAssumption DEF Missing, NoBrief
<1>6. Idle \in [key : Keys \cup {<<>>}, report : Reports, upto : 0..MaxRows]
  BY NothingType, BoundsAssumption DEF Idle
<1>. QED
  BY <1>2, <1>3, <1>4, <1>5, <1>6 DEF TypeOK, Init

LEMMA RecordType ==
  ASSUME TypeOK, NEW kind \in {"post", "auto"}, NEW s \in Sessions \cup {Nobody}, Record(kind, s)
  PROVE  /\ rows' \in Seq(Records) /\ Len(rows') \in 1..MaxRows
         /\ last' \in Trees /\ dirty' \in BOOLEAN /\ seen' \in Seq(Sessions)
<1>1. EffectiveTurn(s) \in 0..MaxTurns
  BY BoundsAssumption DEF EffectiveTurn, TypeOK
<1>2. /\ Row(kind, tree, s, EffectiveTurn(s), 0) \in Records
      /\ Row("noop", last, s, EffectiveTurn(s), 0) \in Records
  BY <1>1, BoundsAssumption DEF Row, Records, Kinds, Targets, TypeOK
<1>3. rows' \in Seq(Records) /\ Len(rows') \in 1..MaxRows
  BY <1>2, BoundsAssumption DEF Record, TypeOK
<1>4. last' \in Trees /\ dirty' \in BOOLEAN
  BY DEF Record, TypeOK
<1>5. seen' \in Seq(Sessions)
  BY DEF Record, EnsureSession, TypeOK
<1>. QED
  BY <1>3, <1>4, <1>5

LEMMA TypeStep == TypeOK /\ [Next]_vars => TypeOK'
<1> SUFFICES ASSUME TypeOK, [Next]_vars
             PROVE  TypeOK'
  OBVIOUS
<1> DEFINE Entry == [state : {"none", "running", "ready", "failed"},
                     brief : [report : Reports, drift : BOOLEAN], upto : 0..MaxRows, by : 0..MaxRows]
           Making == [key : Keys \cup {<<>>}, report : Reports, upto : 0..MaxRows]
           Pipeline == tree \in Trees /\ newest \in Trees /\ last \in Trees /\ dirty \in BOOLEAN
           Tables == /\ rows \in Seq(Records) /\ Len(rows) \in 1..MaxRows
                     /\ turns \in [Sessions -> 0..MaxTurns] /\ seen \in Seq(Sessions)
           Briefs == cache \in [Keys -> Entry] /\ work \in Making
<1>0. Pipeline /\ Tables /\ Briefs
  BY DEF TypeOK
<1>00. Pipeline' /\ Tables' /\ Briefs' => TypeOK'
  BY DEF TypeOK
<1>1. CASE Edit
  BY <1>0, <1>00, <1>1 DEF Edit, tables, briefs
<1>2. ASSUME NEW s \in Sessions, Checkpoint(s)
      PROVE  TypeOK'
  BY <1>0, <1>00, <1>2, RecordType DEF Checkpoint, briefs
<1>3. CASE AutoCheckpoint
  BY <1>0, <1>00, <1>3, RecordType DEF AutoCheckpoint, briefs
<1>4. ASSUME NEW s \in Sessions, CheckpointFails(s)
      PROVE  TypeOK'
  <2>1. Row("failed", last, s, EffectiveTurn(s), 0) \in Records
    BY <1>0, BoundsAssumption, NobodyAssumption DEF Row, Records, Kinds, Targets, EffectiveTurn
  <2>2. Tables'
    BY <1>0, <1>4, <2>1, BoundsAssumption DEF CheckpointFails
  <2>. QED
    BY <1>0, <1>00, <1>4, <2>2 DEF CheckpointFails, pipeline, briefs
<1>5. ASSUME NEW s \in Sessions, SessionStarted(s)
      PROVE  TypeOK'
  BY <1>0, <1>00, <1>5 DEF SessionStarted, EnsureSession, pipeline, briefs
<1>6. ASSUME NEW s \in Sessions, TurnStarted(s)
      PROVE  TypeOK'
  BY <1>0, <1>00, <1>6, BoundsAssumption, SMTT(30) DEF TurnStarted, EnsureSession, pipeline, briefs
<1>7. CASE Rewind
  <2>1. PICK i \in Whole :
          /\ rows' = rows \o <<Row("pre_rewind", tree, Nobody, 0, i),
                               Row("recovered", rows[i].gen, Nobody, 0, 0)>>
          /\ tree' = rows[i].gen /\ last' = rows[i].gen
    BY <1>7 DEF Rewind, RewindTargets
  <2>2. i \in 0..MaxRows /\ rows[i].gen \in Trees
    BY IdsAre DEF Whole, Records
  <2>3. /\ Row("pre_rewind", tree, Nobody, 0, i) \in Records
        /\ Row("recovered", rows[i].gen, Nobody, 0, 0) \in Records
    BY <1>0, <2>2, BoundsAssumption DEF Row, Records, Kinds, Targets
  <2> HIDE DEF Pipeline, Briefs
  <2>4. rows' \in Seq(Records) /\ Len(rows') \in 1..MaxRows
    <3> DEFINE new == <<Row("pre_rewind", tree, Nobody, 0, i), Row("recovered", rows[i].gen, Nobody, 0, 0)>>
    <3>1. new \in Seq(Records) /\ Len(new) = 2
      BY <2>3
    <3> HIDE DEF new
    <3>2. rows \o new \in Seq(Records) /\ Len(rows \o new) = Len(rows) + 2
      <4>1. rows \in Seq(Records)
        BY <1>0
      <4>2. /\ rows \o new \in Seq(Records)
            /\ Len(rows \o new) = Len(rows) + Len(new)
        BY <3>1, <4>1, ConcatProperties
      <4>. QED
        BY <3>1, <4>2
    <3>3. Len(rows) + 1 < MaxRows /\ Len(rows) \in Nat /\ MaxRows \in Nat
      BY <1>0, <1>7, BoundsAssumption DEF Rewind
    <3>. QED
      BY <2>1, <3>2, <3>3 DEF new
  <2>. QED
    BY <1>0, <1>00, <1>7, <2>1, <2>2, <2>4 DEF Rewind, briefs, Pipeline, Briefs
<1>8. CASE Restart
  <2>1. Row("baseline", tree, Nobody, 0, 0) \in Records
    BY <1>0, BoundsAssumption DEF Row, Records, Kinds, Targets
  <2>2. Tables'
    BY <1>0, <1>8, <2>1, BoundsAssumption DEF Restart
  <2>3. cache' \in [Keys -> Entry]
    BY <1>0, <1>8, ZenonT(40) DEF Restart
  <2>4. work' \in Making
    BY <1>8, NothingType, BoundsAssumption DEF Restart, Idle
  <2>. QED
    BY <1>0, <1>00, <1>8, <2>2, <2>3, <2>4 DEF Restart
<1>9. CASE SpeculateBrief
  <2> DEFINE key == BriefKey(Nobody)
  <2>1. /\ key # <<>>
        /\ cache' = [cache EXCEPT ![key] = [Missing EXCEPT !.state = "running"]]
        /\ work' = [key |-> key, report |-> Report(Subject(Nobody)), upto |-> Len(rows)]
        /\ UNCHANGED <<pipeline, tables>>
    BY <1>9 DEF SpeculateBrief
  <2>2. key \in Keys /\ Report(Subject(Nobody)) \in Reports
    BY <2>1, KeyIs, ReportType
  <2>3. [Missing EXCEPT !.state = "running"] \in Entry
    <3>1. [Missing EXCEPT !.state = "running"] =
            [state |-> "running", brief |-> NoBrief, upto |-> 0, by |-> 0]
      BY DEF Missing
    <3>2. NoBrief \in [report : Reports, drift : BOOLEAN]
      BY NothingType DEF NoBrief
    <3>. QED
      BY <3>1, <3>2, BoundsAssumption
  <2> HIDE DEF key
  <2>4. cache' \in [Keys -> Entry]
    BY <1>0, <2>1, <2>3
  <2>5. work' \in Making
    BY <1>0, <2>1, <2>2
  <2>. QED
    BY <1>0, <1>00, <2>1, <2>4, <2>5 DEF pipeline, tables
<1>10. CASE FinishBrief
  <2> DEFINE brief == [report |-> work.report, drift |-> Drift(work.report)]
             new == [state |-> "ready", brief |-> brief, upto |-> work.upto, by |-> Len(rows)]
  <2>1. /\ cache' = [cache EXCEPT ![work.key] = new] /\ work' = Idle
        /\ UNCHANGED <<pipeline, tables>>
    BY <1>10 DEF FinishBrief
  <2>2. Drift(work.report) \in BOOLEAN
    BY DEF Drift
  <2>3. new \in Entry
    BY <1>0, <2>2
  <2> HIDE DEF new
  <2>4. cache' \in [Keys -> Entry]
    BY <1>0, <2>1, <2>3
  <2>5. work' \in Making
    BY <2>1, NothingType, BoundsAssumption DEF Idle
  <2>. QED
    BY <1>0, <1>00, <2>1, <2>4, <2>5 DEF pipeline, tables
<1>11. CASE BriefFails
  <2>1. cache' \in [Keys -> Entry]
    BY <1>0, <1>11, ZenonT(40) DEF BriefFails
  <2>2. work' \in Making
    BY <1>11, NothingType, BoundsAssumption DEF BriefFails, Idle
  <2>. QED
    BY <1>0, <1>00, <1>11, <2>1, <2>2 DEF BriefFails, pipeline, tables
<1>12. ASSUME NEW s \in Sessions, AskBrief(s)
       PROVE  TypeOK'
  <2> DEFINE key == BriefKey(s)
             new == [state |-> "ready", brief |-> Brief(Subject(s)), upto |-> Len(rows), by |-> Len(rows)]
  <2>1. /\ key # <<>> /\ cache' = [cache EXCEPT ![key] = new]
        /\ UNCHANGED <<pipeline, tables, work>>
    BY <1>12 DEF AskBrief
  <2>2. Report(Subject(s)) \in Reports
    BY <2>1, KeyIs, ReportType
  <2>3. Brief(Subject(s)) \in [report : Reports, drift : BOOLEAN]
    BY <2>2 DEF Brief, Drift
  <2>4. new \in Entry
    BY <1>0, <2>3
  <2> HIDE DEF new, key
  <2>5. cache' \in [Keys -> Entry]
    BY <1>0, <2>1, <2>4
  <2>. QED
    BY <1>0, <1>00, <2>1, <2>5 DEF pipeline, tables
<1>13. CASE Collect
  <2>1. cache' \in [Keys -> Entry]
    BY <1>0, <1>13, NothingType, BoundsAssumption DEF Collect, Missing, NoBrief
  <2>. QED
    BY <1>0, <1>00, <1>13, <2>1 DEF Collect, pipeline, tables
<1>14. CASE UNCHANGED vars
  BY <1>0, <1>00, <1>14 DEF vars, pipeline, tables, briefs
<1>. QED
  BY <1>1, <1>2, <1>3, <1>4, <1>5, <1>6, <1>7, <1>8, <1>9, <1>10, <1>11, <1>12, <1>13, <1>14 DEF Next

\* Every variable keeps its type, and a key names a session and a tree.
THEOREM TypeCorrect == Spec => []TypeOK
BY TypeInit, TypeStep, PTL DEF Spec

-----------------------------------------------------------------------------
(* Keys and their makers *)

\* spec.rs, orphan and fail: a key that is reserved as running is the scheduler's.
THEOREM RunningHasMakerHolds == Spec => []RunningHasMaker
<1>1. Init => RunningHasMaker
  BY DEF Init, RunningHasMaker, Missing
<1>2. TypeOK /\ RunningHasMaker /\ [Next]_vars => RunningHasMaker'
  <2> SUFFICES ASSUME TypeOK, RunningHasMaker, [Next]_vars,
                      NEW k \in Keys, cache'[k].state = "running"
               PROVE  work'.key = k
    BY DEF RunningHasMaker
  <2>1. DOMAIN cache = Keys /\ \A j \in Keys : cache[j].state = "running" => work.key = j
    BY DEF TypeOK, RunningHasMaker
  <2>2. Idle.key # k
    BY DEF Idle, Keys
  <2>3. CASE UNCHANGED briefs
    BY <2>1, <2>3 DEF briefs
  <2>4. CASE Collect
    BY <2>1, <2>4 DEF Collect, Missing
  <2>8. CASE Restart
    <3>1. cache'[k] = IF cache[k].state = "running" THEN [cache[k] EXCEPT !.state = "failed"]
                      ELSE cache[k]
      BY <2>8 DEF Restart
    <3>2. [cache[k] EXCEPT !.state = "failed"].state = "failed"
      BY DEF TypeOK
    <3>. QED
      BY <3>1, <3>2
  <2>5. CASE SpeculateBrief
    BY <2>1, <2>2, <2>5 DEF SpeculateBrief, Missing
  <2>6. CASE FinishBrief
    BY <2>1, <2>6 DEF FinishBrief
  <2>9. CASE BriefFails
    <3>1. cache' = [cache EXCEPT ![work.key].state = "failed"]
      BY <2>9 DEF BriefFails
    <3>2. CASE work.key = k
      <4>1. cache'[k] = [cache[k] EXCEPT !.state = "failed"]
        BY <2>1, <3>1, <3>2
      <4>2. cache'[k].state = "failed"
        BY <4>1 DEF TypeOK
      <4>. QED
        BY <4>2
    <3>3. CASE work.key # k
      BY <2>1, <3>1, <3>3
    <3>. QED
      BY <3>2, <3>3
  <2>7. ASSUME NEW s \in Sessions, AskBrief(s)
        PROVE  work'.key = k
    BY <2>1, <2>7 DEF AskBrief
  <2>. QED
    BY <2>3, <2>4, <2>5, <2>6, <2>7, <2>8, <2>9
       DEF Next, Edit, AutoCheckpoint, Rewind, Checkpoint, CheckpointFails, SessionStarted,
           TurnStarted, vars
<1>. QED
  BY <1>1, <1>2, TypeInit, TypeStep, PTL DEF Spec

-----------------------------------------------------------------------------
(* The index only grows *)

\* What is in the index stays as it is.
Grown ==
  /\ Len(rows) <= Len(rows')
  /\ \A i \in 1..Len(rows) : rows'[i] = rows[i]

\* A new row is of the turn its session is in.
LEMMA RowsGrow ==
  ASSUME TypeOK, [Next]_vars
  PROVE  /\ Grown
         /\ \A i \in DOMAIN rows' \ DOMAIN rows :
              rows'[i].session # Nobody => rows'[i].turn = turns[rows'[i].session]
<1> DEFINE Goal == /\ Grown
                   /\ \A i \in DOMAIN rows' \ DOMAIN rows :
                        rows'[i].session # Nobody => rows'[i].turn = turns[rows'[i].session]
<1>1. rows \in Seq(Records) /\ Len(rows) \in Nat /\ DOMAIN rows = 1..Len(rows)
  BY IdsAre DEF TypeOK
<1>2. rows' = rows => Goal
  BY <1>1 DEF Grown
<1>3. ASSUME NEW kind, NEW gen, NEW s, NEW target, rows' = Append(rows, Row(kind, gen, s, EffectiveTurn(s), target))
      PROVE  Goal
  <2> DEFINE row == Row(kind, gen, s, EffectiveTurn(s), target)
  <2>1. row.session = s /\ row.turn = EffectiveTurn(s)
    BY DEF Row
  <2> HIDE DEF row
  <2>2. rows' = Append(rows, row)
    BY <1>3 DEF row
  <2>3. /\ Len(rows') = Len(rows) + 1 /\ DOMAIN rows' = 1..(Len(rows) + 1)
        /\ rows'[Len(rows) + 1] = row
        /\ \A i \in 1..Len(rows) : rows'[i] = rows[i]
    BY <1>1, <2>2
  <2>. QED
    BY <1>1, <2>1, <2>3 DEF Grown, EffectiveTurn
<1>4. ASSUME NEW kind, NEW s, Record(kind, s)
      PROVE  Goal
  BY <1>3, <1>4 DEF Record
<1>5. CASE Rewind
  <2>1. PICK i : rows' = rows \o <<Row("pre_rewind", tree, Nobody, 0, i),
                                   Row("recovered", rows[i].gen, Nobody, 0, 0)>>
    BY <1>5 DEF Rewind
  <2> DEFINE a == Row("pre_rewind", tree, Nobody, 0, i)
             b == Row("recovered", rows[i].gen, Nobody, 0, 0)
  <2>2. a.session = Nobody /\ b.session = Nobody
    BY DEF Row
  <2> HIDE DEF a, b
  <2>3. rows' = rows \o <<a, b>>
    BY <2>1 DEF a, b
  <2>4. /\ Len(rows') = Len(rows) + 2 /\ DOMAIN rows' = 1..(Len(rows) + 2)
        /\ \A j \in 1..Len(rows) : rows'[j] = rows[j]
        /\ rows'[Len(rows) + 1] = a /\ rows'[Len(rows) + 2] = b
    BY <1>1, <2>3
  <2>. QED
    BY <1>1, <2>2, <2>4 DEF Grown
<1>6. CASE Restart
  <2>1. rows' = Append(rows, Row("baseline", tree, Nobody, EffectiveTurn(Nobody), 0))
    BY <1>6 DEF Restart, EffectiveTurn
  <2>. QED
    BY <1>3, <2>1
<1>7. CASE UNCHANGED rows
  BY <1>2, <1>7
<1>. QED
  BY <1>3, <1>4, <1>5, <1>6, <1>7
     DEF Next, Edit, AutoCheckpoint, SpeculateBrief, FinishBrief, BriefFails, Collect, Checkpoint,
         CheckpointFails, SessionStarted, TurnStarted, AskBrief, vars, tables

\* Which rows a query picks among those there were does not change.
LEMMA IdsGrow ==
  ASSUME TypeOK, TypeOK', Grown
  PROVE  /\ \A kinds : Ids(kinds) = {i \in Ids(kinds)' : i <= Len(rows)}
         /\ \A s : Of(s) = {i \in Of(s)' : i <= Len(rows)}
         /\ Real = {i \in Real' : i <= Len(rows)} /\ Whole = {i \in Whole' : i <= Len(rows)}
<1>1. /\ Len(rows) \in Nat /\ DOMAIN rows = 1..Len(rows)
      /\ Len(rows') \in Nat /\ DOMAIN rows' = 1..Len(rows')
  BY DEF TypeOK
<1>2. \A i : i \in DOMAIN rows <=> i \in DOMAIN rows' /\ i <= Len(rows)
  BY <1>1 DEF Grown
<1>. QED
  BY <1>1, <1>2 DEF Ids, Of, Real, Whole, Grown

\* The first and the last of some ids, when there are more of them.
LEMMA MoreIds ==
  ASSUME NEW m \in Nat, NEW n \in Nat, m <= n, NEW T \in SUBSET (1..n),
         NEW S \in SUBSET T, \A i \in T : i \in S <=> i <= m
  PROVE  /\ S # {} => Oldest(S) = Oldest(T)
         /\ Newest(S) <= Newest(T)
<1>1. \A i \in T : i \in Nat /\ 1 <= i /\ i <= n
  OBVIOUS
<1>2. S \in SUBSET (1..m) /\ S \in SUBSET (0..m) /\ T \in SUBSET (0..n)
  OBVIOUS
<1>3. ASSUME S # {}
      PROVE  Oldest(S) = Oldest(T)
  <2>1. Oldest(S) \in S /\ \A i \in S : Oldest(S) <= i
    BY <1>2, <1>3, OldestIs
  <2>2. Oldest(T) \in T /\ \A i \in T : Oldest(T) <= i
    BY <1>3, OldestIs
  <2>3. Oldest(S) \in T /\ Oldest(S) \in Nat /\ Oldest(T) \in Nat
    BY <1>1, <2>1, <2>2
  <2>4. Oldest(T) <= Oldest(S) /\ Oldest(S) <= m
    BY <2>1, <2>2, <2>3
  <2>5. Oldest(T) <= m
    BY <2>3, <2>4
  <2>6. Oldest(S) <= Oldest(T)
    BY <2>1, <2>2, <2>5
  <2>. QED
    BY <2>3, <2>4, <2>6
<1>4. Newest(S) <= Newest(T)
  <2>1. Newest(S) \in 0..m /\ Newest(T) \in 0..n
    BY <1>2, NewestIs
  <2>2. CASE S = {}
    BY <1>2, <2>1, <2>2, NewestIs
  <2>3. CASE S # {}
    <3>1. Newest(S) \in S
      BY <1>2, <2>3, NewestIs
    <3>2. \A i \in T : i <= Newest(T)
      BY <1>2, <2>3, NewestIs
    <3>. QED
      BY <3>1, <3>2
  <2>. QED
    BY <2>2, <2>3
<1>. QED
  BY <1>3, <1>4

-----------------------------------------------------------------------------
(* Turns *)

\* index.rs, turn_range: once the next turn of its session has started, no row changes
\* the range of a turn, whatever was captured late, failed, or was rewound.
THEOREM TurnsOverHolds == Spec => TurnsOver
<1>1. ASSUME TypeOK, TypeOK', [Next]_vars, NEW s \in Sessions, NEW t \in 1..(turns[s] - 1)
      PROVE  TurnRange(s, t)' = TurnRange(s, t)
  <2>1. Grown
    BY <1>1, RowsGrow
  <2>2. /\ Len(rows) \in Nat /\ DOMAIN rows = 1..Len(rows)
        /\ Len(rows') \in Nat /\ DOMAIN rows' = 1..Len(rows')
    BY <1>1, SMTT(30) DEF TypeOK
  <2> DEFINE first == Oldest(TurnRows(s, t))
             base == LatestTargetBefore(first)
             end == Newest(TurnRows(s, t))
  <2>3. TurnRows(s, t)' = TurnRows(s, t)
    <3>1. \A i \in DOMAIN rows' \ DOMAIN rows : ~ (rows'[i].session = s /\ rows'[i].turn = t)
      <4>1. t < turns[s] /\ s # Nobody
        BY <1>1, NobodyAssumption, SMTT(30) DEF TypeOK
      <4>2. \A i \in DOMAIN rows' \ DOMAIN rows :
              rows'[i].session # Nobody => rows'[i].turn = turns[rows'[i].session]
        BY <1>1, RowsGrow
      <4>. QED
        BY <4>1, <4>2
    <3>2. \A i \in DOMAIN rows : i \in DOMAIN rows' /\ rows'[i] = rows[i]
      BY <2>1, <2>2 DEF Grown
    <3>. QED
      BY <3>1, <3>2 DEF TurnRows, Whole, Ids, Of
  <2>4. TurnRows(s, t) \in SUBSET (1..Len(rows)) /\ TurnRows(s, t) \in SUBSET (0..Len(rows))
    BY <2>2 DEF TurnRows, Whole, Ids
  <2>5. first \in 0..Len(rows) /\ (first = 0 <=> TurnRows(s, t) = {})
    BY <2>2, <2>4, OldestIs
  <2> DEFINE before == {j \in Real : j < first}
  <2>6. {j \in Real' : j < first} = before
    <3>1. Real = {j \in Real' : j <= Len(rows)}
      BY <1>1, <2>1, IdsGrow
    <3>2. \A j \in Real' : j \in Nat
      BY <2>2 DEF Real, Ids
    <3> HIDE DEF first
    <3>3. \A j \in Real' : j < first => j <= Len(rows)
      BY <2>2, <2>5, <3>2
    <3>. QED
      BY <3>1, <3>3
  <2>7. before \in SUBSET (0..Len(rows))
    BY <2>2 DEF Real, Ids
  <2>8. Newest(before) = 0 \/ Newest(before) \in 1..Len(rows)
    BY <2>2, <2>7, NewestIs
  <2>9. first # 0 => Newest(TurnRows(s, t)) \in 1..Len(rows)
    BY <2>2, <2>4, <2>5, NewestIs
  <2>10. base = Newest(before)
    BY DEF LatestTargetBefore
  <2>11. TurnRange(s, t)' = LET first2 == Oldest(TurnRows(s, t))
                                base2 == Newest({j \in Real' : j < first2})
                                end2 == Newest(TurnRows(s, t))
                            IN IF first2 = 0 \/ base2 = 0 THEN <<>>
                               ELSE IF rows'[base2].gen = rows'[end2].gen THEN <<>>
                               ELSE <<rows'[base2].gen, rows'[end2].gen>>
    BY <2>3 DEF TurnRange, LatestTargetBefore
  <2>12. \A i \in 1..Len(rows) : rows'[i] = rows[i]
    BY <2>1 DEF Grown
  <2>. QED
    BY <2>6, <2>8, <2>9, <2>10, <2>11, <2>12 DEF TurnRange
<1>2. TypeOK /\ TypeOK' /\ [Next]_vars =>
        [rows' # rows =>
           \A s \in Sessions : \A t \in 1..(turns[s] - 1) : TurnRange(s, t)' = TurnRange(s, t)]_vars
  BY <1>1
<1>. QED
  BY <1>2, TypeCorrect, PTL DEF Spec, TurnsOver

-----------------------------------------------------------------------------
(* Briefs *)

\* The last of some ids there was when the index was n rows long.
Latest(ids, n) == Newest({i \in ids : i <= n})

\* A report that was made under a key, of the first n rows: what it says of them is
\* true, and what only grows has not shrunk.
Fits(k, report, n) ==
  /\ n <= Len(rows)
  /\ Latest(Real, n) # 0 /\ rows[Latest(Real, n)].gen = k[2]
  /\ Whole \cap Of(k[1]) # {}
  /\ report.subject = k[1]
  /\ report.end = Latest(Real \cap Of(k[1]), n)
  /\ report.changed = (report.end # 0 /\ rows[SessionStart(k[1])].gen # rows[report.end].gen)
  /\ report.branches \subseteq Branches(k[1])
  /\ report.checkpoints <= Cardinality(Whole \cap Of(k[1]))

\* The ids up to a length that there was are the same ones afterwards.
LEMMA LatestStays ==
  ASSUME TypeOK, TypeOK', Grown, NEW n \in Nat, n <= Len(rows), NEW s
  PROVE  /\ Latest(Real, n)' = Latest(Real, n)
         /\ Latest(Real \cap Of(s), n)' = Latest(Real \cap Of(s), n)
         /\ Latest(Real, n) \in 0..Len(rows)
         /\ Latest(Real \cap Of(s), n) \in 0..Len(rows)
<1>1. /\ Len(rows) \in Nat /\ DOMAIN rows = 1..Len(rows)
      /\ Len(rows') \in Nat /\ DOMAIN rows' = 1..Len(rows')
  BY DEF TypeOK
<1>2. /\ Real = {i \in Real' : i <= Len(rows)}
      /\ Of(s) = {i \in Of(s)' : i <= Len(rows)}
  BY IdsGrow
<1>3. \A i \in Real' : i \in Nat
  BY <1>1 DEF Real, Ids
<1>4. \A i \in Real' : i <= n => i <= Len(rows)
  BY <1>1, <1>3
<1>5. {i \in Real' : i <= n} = {i \in Real : i <= n}
  BY <1>2, <1>4
<1>6. {i \in (Real \cap Of(s))' : i <= n} = {i \in Real \cap Of(s) : i <= n}
  BY <1>2, <1>4
<1>7. Real \subseteq 1..Len(rows)
  BY IdsAre DEF Real
<1>8. /\ {i \in Real : i <= n} \in SUBSET (0..Len(rows))
      /\ {i \in Real \cap Of(s) : i <= n} \in SUBSET (0..Len(rows))
  <2>1. 1..Len(rows) \subseteq 0..Len(rows)
    BY <1>1
  <2>. QED
    BY <1>7, <2>1
<1>9. /\ Newest({i \in Real : i <= n}) \in 0..Len(rows)
      /\ Newest({i \in Real \cap Of(s) : i <= n}) \in 0..Len(rows)
  BY <1>1, <1>8, NewestIs
<1>. QED
  BY <1>5, <1>6, <1>9 DEF Latest

\* The first row of a session stays its first row, and its last one only moves on.
LEMMA SessionGrows ==
  ASSUME TypeOK, TypeOK', Grown, NEW s, Whole \cap Of(s) # {}
  PROVE  /\ SessionStart(s)' = SessionStart(s)
         /\ SessionStart(s) \in 1..Len(rows)
         /\ (Whole \cap Of(s))' # {}
         /\ Newest(Of(s)) <= Newest(Of(s)')
         /\ Cardinality(Whole \cap Of(s)) <= Cardinality((Whole \cap Of(s))')
<1>1. /\ Len(rows) \in Nat /\ DOMAIN rows = 1..Len(rows)
      /\ Len(rows') \in Nat /\ DOMAIN rows' = 1..Len(rows') /\ Len(rows) <= Len(rows')
  BY DEF TypeOK, Grown
<1>2. /\ Whole = {i \in Whole' : i <= Len(rows)}
      /\ Of(s) = {i \in Of(s)' : i <= Len(rows)}
  BY IdsGrow
<1> DEFINE T == (Whole \cap Of(s))'
           S == Whole \cap Of(s)
<1>3. T \in SUBSET (1..Len(rows')) /\ S \in SUBSET T /\ \A i \in T : i \in S <=> i <= Len(rows)
  BY <1>1, <1>2 DEF Whole, Ids
<1>4. Oldest(S) = Oldest(T)
  BY <1>1, <1>3, MoreIds
<1>5. S \in SUBSET (1..Len(rows))
  BY IdsAre DEF Whole
<1>6. Oldest(S) \in 1..Len(rows)
  <2>1. Oldest(S) \in S
    BY <1>1, <1>5, OldestIs
  <2>. QED
    BY <1>5, <2>1
<1>7. Newest(Of(s)) <= Newest(Of(s)')
  <2>1. /\ Of(s)' \in SUBSET (1..Len(rows')) /\ Of(s) \in SUBSET Of(s)'
        /\ \A i \in Of(s)' : i \in Of(s) <=> i <= Len(rows)
    BY <1>1, <1>2 DEF Of
  <2>. QED
    BY <1>1, <2>1, MoreIds
<1>8. Cardinality(S) <= Cardinality(T)
  <2>1. IsFiniteSet(1..Len(rows'))
    <3>1. 1 \in Int /\ Len(rows') \in Int
      BY <1>1
    <3>. QED
      BY <3>1, FS_Interval
  <2>2. IsFiniteSet(T)
    BY <1>3, <2>1, FS_Subset
  <2>. QED
    BY <1>3, <2>2, FS_Subset
<1>. QED
  BY <1>3, <1>4, <1>6, <1>7, <1>8 DEF SessionStart

\* What a rewind abandoned stays abandoned.
LEMMA BranchesGrow ==
  ASSUME TypeOK, TypeOK', Grown, NEW s, Whole \cap Of(s) # {}
  PROVE  Branches(s) \subseteq Branches(s)'
<1>1. /\ Len(rows) \in Nat /\ DOMAIN rows = 1..Len(rows)
      /\ Len(rows') \in Nat /\ DOMAIN rows' = 1..Len(rows')
      /\ \A i \in 1..Len(rows) : rows'[i] = rows[i]
  BY DEF TypeOK, Grown
<1> DEFINE Left(i) == {j \in Real : rows[i].target < j /\ j < i}
           After(i) == {j \in Real' : rows'[i].target < j /\ j < i}
           rewinds == {i \in Ids({"pre_rewind"}) : SessionStart(s) <= i /\ i <= Newest(Of(s))}
           later == {i \in Ids({"pre_rewind"})' : SessionStart(s)' <= i /\ i <= Newest(Of(s)')}
<1>2. /\ SessionStart(s)' = SessionStart(s) /\ SessionStart(s) # 0
      /\ Newest(Of(s)) <= Newest(Of(s)')
  <2>1. SessionStart(s)' = SessionStart(s) /\ SessionStart(s) \in 1..Len(rows)
    BY SessionGrows
  <2>2. Newest(Of(s)) <= Newest(Of(s)')
    BY SessionGrows
  <2>. QED
    BY <1>1, <2>1, <2>2
<1>3. ASSUME NEW i \in rewinds
      PROVE  i \in later /\ After(i) = Left(i) /\ rows'[i].target = rows[i].target
  <2>1. i \in Ids({"pre_rewind"}) /\ i \in 1..Len(rows)
    BY <1>1 DEF Ids
  <2>2. rows'[i] = rows[i]
    BY <1>1, <2>1
  <2>3. i \in Ids({"pre_rewind"})'
    BY IdsGrow, <2>1
  <2>4. i <= Newest(Of(s)')
    <3>1. Of(s) \in SUBSET (0..Len(rows)) /\ Of(s)' \in SUBSET (0..Len(rows'))
      BY <1>1 DEF Of
    <3>2. Newest(Of(s)) \in Nat /\ Newest(Of(s)') \in Nat
      BY <1>1, <3>1, NewestIs
    <3>. QED
      BY <1>2, <1>3, <2>1, <3>2
  <2>5. After(i) = Left(i)
    <3>1. Real = {j \in Real' : j <= Len(rows)}
      BY IdsGrow
    <3>2. \A j \in Real' : j \in Nat
      BY <1>1 DEF Real, Ids
    <3>3. \A j \in Real' : j < i => j <= Len(rows)
      BY <1>1, <2>1, <3>2
    <3>. QED
      BY <2>2, <3>1, <3>3
  <2>. QED
    BY <1>2, <2>2, <2>3, <2>4, <2>5
<1>4. Branches(s) = {<<rows[i].target, Oldest(Left(i)), Newest(Left(i))>> : i \in {j \in rewinds : Left(j) # {}}}
  BY <1>2 DEF Branches
<1>5. Branches(s)' = {<<rows'[i].target, Oldest(After(i)), Newest(After(i))>> : i \in {j \in later : After(j) # {}}}
  BY <1>2 DEF Branches
<1> HIDE DEF rewinds, later, Left, After
<1>. QED
  BY <1>3, <1>4, <1>5

LEMMA FitsStays ==
  ASSUME TypeOK, TypeOK', Grown, NEW k \in Keys, NEW report \in Reports, NEW n \in Nat,
         Fits(k, report, n)
  PROVE  Fits(k, report, n)'
<1> DEFINE s == k[1]
<1>1. /\ n <= Len(rows) /\ Len(rows) <= Len(rows') /\ Len(rows) \in Nat /\ Len(rows') \in Nat
      /\ \A i \in 1..Len(rows) : rows'[i] = rows[i]
  <2>1. n <= Len(rows)
    BY DEF Fits
  <2>2. Len(rows) <= Len(rows') /\ \A i \in 1..Len(rows) : rows'[i] = rows[i]
    BY DEF Grown
  <2>3. Len(rows) \in Nat /\ Len(rows') \in Nat
    BY SMTT(30) DEF TypeOK
  <2>. QED
    BY <2>1, <2>2, <2>3
<1>2. /\ Latest(Real, n)' = Latest(Real, n) /\ Latest(Real, n) \in 0..Len(rows)
      /\ Latest(Real \cap Of(s), n)' = Latest(Real \cap Of(s), n)
      /\ Latest(Real \cap Of(s), n) \in 0..Len(rows)
  BY <1>1, LatestStays
<1>3. Whole \cap Of(s) # {}
  BY DEF Fits
<1>4. /\ SessionStart(s)' = SessionStart(s) /\ SessionStart(s) \in 1..Len(rows)
      /\ (Whole \cap Of(s))' # {}
      /\ Cardinality(Whole \cap Of(s)) <= Cardinality((Whole \cap Of(s))')
  BY <1>3, SessionGrows
<1>5. Branches(s) \subseteq Branches(s)'
  BY <1>3, BranchesGrow
<1>6. report.checkpoints <= Cardinality((Whole \cap Of(s))')
  <2>1. report.checkpoints \in Nat /\ report.checkpoints <= Cardinality(Whole \cap Of(s))
    BY DEF Fits, Reports
  <2>2. Cardinality(Whole \cap Of(s)) \in Nat /\ Cardinality((Whole \cap Of(s))') \in Nat
    <3>0. DOMAIN rows = 1..Len(rows) /\ DOMAIN rows' = 1..Len(rows')
      BY DEF TypeOK
    <3>1. /\ Whole \cap Of(s) \in SUBSET (1..Len(rows))
          /\ (Whole \cap Of(s))' \in SUBSET (1..Len(rows'))
      BY <3>0 DEF Of
    <3>2. 1 \in Int /\ Len(rows) \in Int /\ Len(rows') \in Int
      BY <1>1
    <3>3. IsFiniteSet(1..Len(rows)) /\ IsFiniteSet(1..Len(rows'))
      BY <3>2, FS_Interval
    <3>4. IsFiniteSet(Whole \cap Of(s)) /\ IsFiniteSet((Whole \cap Of(s))')
      BY <3>1, <3>3, FS_Subset
    <3>. QED
      BY <3>4, FS_CardinalityType
  <2>. QED
    BY <1>4, <2>1, <2>2
<1>7. n <= Len(rows')
  BY <1>1
<1>8. Latest(Real', n) # 0 /\ rows'[Latest(Real', n)].gen = k[2]
  BY <1>1, <1>2 DEF Fits
<1>9. report.end = Latest((Real \cap Of(s))', n)
  BY <1>2 DEF Fits
<1>10. report.changed = (report.end # 0 /\ rows'[SessionStart(s)'].gen # rows'[report.end].gen)
  BY <1>1, <1>2, <1>4 DEF Fits
<1>11. report.branches \subseteq Branches(s)'
  BY <1>5 DEF Fits
<1>12. report.subject = s
  BY DEF Fits
<1>. QED
  BY <1>4, <1>6, <1>7, <1>8, <1>9, <1>10, <1>11, <1>12 DEF Fits

\* A brief fits when its report does, and its drift is told of the tree in its key.
Told(k, brief, n) ==
  /\ Fits(k, brief.report, n)
  /\ brief.drift = (brief.report.end # 0 /\ rows[brief.report.end].gen # k[2])

LEMMA ToldStays ==
  ASSUME TypeOK, TypeOK', Grown, NEW k \in Keys, NEW brief \in [report : Reports, drift : BOOLEAN],
         NEW n \in Nat, Told(k, brief, n)
  PROVE  Told(k, brief, n)'
<1>1. Fits(k, brief.report, n) /\ brief.report \in Reports
  BY DEF Told
<1>2. Fits(k, brief.report, n)'
  BY <1>1, FitsStays
<1>3. brief.report.end \in 0..Len(rows)
  <2>1. n <= Len(rows)
    BY <1>1 DEF Fits
  <2>2. Latest(Real \cap Of(k[1]), n) \in 0..Len(rows)
    BY <2>1, LatestStays
  <2>3. brief.report.end = Latest(Real \cap Of(k[1]), n)
    BY <1>1 DEF Fits
  <2>. QED
    BY <2>2, <2>3
<1>4. \A i \in 1..Len(rows) : rows'[i] = rows[i]
  BY DEF Grown
<1>5. Len(rows) \in Nat
  BY IdsAre
<1>6. brief.report.end # 0 => rows'[brief.report.end] = rows[brief.report.end]
  BY <1>3, <1>4, <1>5
<1>. QED
  BY <1>2, <1>6 DEF Told

\* The last id of all.
LEMMA LatestOfAll ==
  ASSUME TypeOK, NEW S \in SUBSET (1..Len(rows))
  PROVE  Latest(S, Len(rows)) = Newest(S)
<1>1. Len(rows) \in Nat
  BY IdsAre
<1>2. \A i \in S : i <= Len(rows)
  BY <1>1
<1>3. {i \in S : i <= Len(rows)} = S
  BY <1>2
<1>. QED
  BY <1>3 DEF Latest

\* What is made under a key fits the key it is made under.
LEMMA FitsNew ==
  ASSUME TypeOK, NEW asker, BriefKey(asker) # <<>>
  PROVE  Fits(BriefKey(asker), Report(Subject(asker)), Len(rows))
<1> DEFINE k == BriefKey(asker)
           s == Subject(asker)
<1>1. /\ k[1] = s /\ Whole \cap Of(s) # {}
      /\ LatestTarget \in Real /\ k[2] = rows[LatestTarget].gen
  BY KeyIs
<1>2. /\ Real \in SUBSET (1..Len(rows)) /\ Real \cap Of(s) \in SUBSET (1..Len(rows))
      /\ Len(rows) \in Nat
  BY IdsAre DEF Real
<1>3. Latest(Real, Len(rows)) = LatestTarget
  BY <1>2, LatestOfAll DEF LatestTarget
<1>4. Latest(Real \cap Of(s), Len(rows)) = SessionEnd(s)
  BY <1>2, LatestOfAll DEF SessionEnd
<1>5. LatestTarget # 0
  BY <1>1, <1>2
<1>6. Cardinality(Whole \cap Of(s)) \in Nat
  <2>1. Report(s) \in Reports
    BY KeyIs, ReportType
  <2>. QED
    BY <2>1 DEF Report, Reports
<1> HIDE DEF k, s
<1>7. /\ Report(s).subject = s /\ Report(s).end = SessionEnd(s)
      /\ Report(s).changed = (SessionEnd(s) # 0 /\ rows[SessionStart(s)].gen # rows[SessionEnd(s)].gen)
      /\ Report(s).branches = Branches(s)
      /\ Report(s).checkpoints = Cardinality(Whole \cap Of(s))
  BY DEF Report
<1>8. Fits(k, Report(s), Len(rows))
  BY <1>1, <1>2, <1>3, <1>4, <1>5, <1>6, <1>7 DEF Fits
<1>. QED
  BY <1>8 DEF k, s

\* The drift that is looked up while the newest target is the one in the key.
LEMMA DriftIs ==
  ASSUME TypeOK, NEW k \in Keys, NEW report, Fits(k, report, Len(rows))
  PROVE  Drift(report) = (report.end # 0 /\ rows[report.end].gen # k[2])
<1>1. Real \in SUBSET (1..Len(rows))
  BY IdsAre DEF Real
<1>2. Latest(Real, Len(rows)) = LatestTarget
  BY <1>1, LatestOfAll DEF LatestTarget
<1>. QED
  BY <1>2 DEF Drift, Fits

\* What is computed and what is stored fits its key.
BriefInv ==
  /\ \A k \in Keys : work.key = k => Fits(k, work.report, work.upto)
  /\ \A k \in Keys : cache[k].state = "ready" /\ cache[k].upto = cache[k].by =>
       Told(k, cache[k].brief, cache[k].upto)

LEMMA BriefInvStep == TypeOK /\ TypeOK' /\ BriefInv /\ [Next]_vars => BriefInv'
<1> SUFFICES ASSUME TypeOK, TypeOK', BriefInv, [Next]_vars
             PROVE  BriefInv'
  OBVIOUS
<1>1. Grown
  BY RowsGrow
<1>2. Len(rows) \in Nat /\ work.report \in Reports /\ work.upto \in Nat
  BY DEF TypeOK
<1>3. Idle.key \notin Keys
  BY DEF Idle, Keys
<1>4. ASSUME NEW k \in Keys, work'.key = k
      PROVE  \E r \in Reports, n \in Nat :
               work'.report = r /\ work'.upto = n /\ Fits(k, r, n)
  <2>1. CASE UNCHANGED work
    <3>1. work.key = k
      BY <1>4, <2>1
    <3>2. Fits(k, work.report, work.upto)
      BY <3>1 DEF BriefInv
    <3>. QED
      BY <1>2, <2>1, <3>2
  <2>2. CASE work' = Idle
    BY <1>3, <1>4, <2>2
  <2>3. CASE SpeculateBrief
    <3>1. /\ BriefKey(Nobody) # <<>>
          /\ work' = [key |-> BriefKey(Nobody), report |-> Report(Subject(Nobody)), upto |-> Len(rows)]
      BY <2>3 DEF SpeculateBrief
    <3>2. Fits(BriefKey(Nobody), Report(Subject(Nobody)), Len(rows))
      BY <3>1, FitsNew
    <3>3. Report(Subject(Nobody)) \in Reports
      BY <3>1, KeyIs, ReportType
    <3>4. k = BriefKey(Nobody)
      BY <1>4, <3>1
    <3>5. work'.report = Report(Subject(Nobody)) /\ work'.upto = Len(rows)
      BY <3>1
    <3>. QED
      BY <1>2, <3>2, <3>3, <3>4, <3>5
  <2>. QED
    BY <2>1, <2>2, <2>3
       DEF Next, Edit, AutoCheckpoint, Rewind, Restart, FinishBrief, BriefFails, Collect, Checkpoint,
           CheckpointFails, SessionStarted, TurnStarted, AskBrief, vars, briefs
<1>5. ASSUME NEW k \in Keys, cache'[k].state = "ready", cache'[k].upto = cache'[k].by
      PROVE  \E brief \in [report : Reports, drift : BOOLEAN], n \in Nat :
               cache'[k].brief = brief /\ cache'[k].upto = n /\ Told(k, brief, n)
  <2>0. /\ cache'[k].brief \in [report : Reports, drift : BOOLEAN] /\ cache'[k].upto \in Nat
        /\ DOMAIN cache = Keys
    BY SMTT(30) DEF TypeOK
  <2>1. CASE cache'[k] = cache[k]
    <3>1. Told(k, cache[k].brief, cache[k].upto)
      BY <1>5, <2>1 DEF BriefInv
    <3>. QED
      BY <2>0, <2>1, <3>1
  <2>2. CASE Restart
    <3>1. cache'[k] = IF cache[k].state = "running" THEN [cache[k] EXCEPT !.state = "failed"]
                      ELSE cache[k]
      BY <2>2 DEF Restart
    <3>2. [cache[k] EXCEPT !.state = "failed"].state = "failed"
      BY DEF TypeOK
    <3>. QED
      BY <1>5, <2>1, <3>1, <3>2
  <2>3. CASE Collect
    BY <1>5, <2>1, <2>3 DEF Collect, Missing
  <2>4. CASE SpeculateBrief
    <3>1. cache' = [cache EXCEPT ![BriefKey(Nobody)] = [Missing EXCEPT !.state = "running"]]
      BY <2>4 DEF SpeculateBrief
    <3>2. CASE k = BriefKey(Nobody)
      <4>1. cache'[k] = [Missing EXCEPT !.state = "running"]
        BY <2>0, <3>1, <3>2
      <4>2. cache'[k].state = "running"
        BY <4>1 DEF Missing
      <4>. QED
        BY <1>5, <4>2
    <3>3. CASE k # BriefKey(Nobody)
      BY <2>0, <2>1, <3>1, <3>3
    <3>. QED
      BY <3>2, <3>3
  <2>5. CASE FinishBrief
    <3> DEFINE brief == [report |-> work.report, drift |-> Drift(work.report)]
    <3>1. /\ work # Idle
          /\ cache' = [cache EXCEPT ![work.key] = [state |-> "ready", brief |-> brief,
                                                   upto |-> work.upto, by |-> Len(rows)]]
      BY <2>5 DEF FinishBrief
    <3>2. CASE k = work.key
      <4>1. cache'[k] = [state |-> "ready", brief |-> brief, upto |-> work.upto, by |-> Len(rows)]
        BY <2>0, <3>1, <3>2
      <4>2. cache'[k].brief = brief /\ cache'[k].upto = work.upto /\ work.upto = Len(rows)
        BY <1>5, <4>1
      <4>3. Fits(k, work.report, Len(rows))
        BY <3>2, <4>2 DEF BriefInv
      <4>4. Drift(work.report) = (work.report.end # 0 /\ rows[work.report.end].gen # k[2])
        BY <4>3, DriftIs
      <4>5. brief.report = work.report /\ brief.drift = Drift(work.report)
        OBVIOUS
      <4> HIDE DEF brief
      <4>6. Told(k, brief, Len(rows))
        BY <4>3, <4>4, <4>5 DEF Told
      <4>. QED
        BY <2>0, <4>2, <4>6
    <3>3. CASE k # work.key
      BY <2>0, <2>1, <3>1, <3>3
    <3>. QED
      BY <3>2, <3>3
  <2>6. CASE BriefFails
    <3>1. cache' = [cache EXCEPT ![work.key].state = "failed"]
      BY <2>6 DEF BriefFails
    <3>2. CASE work.key = k
      <4>1. cache'[k] = [cache[k] EXCEPT !.state = "failed"]
        BY <2>0, <3>1, <3>2
      <4>2. cache'[k].state = "failed"
        BY <4>1 DEF TypeOK
      <4>. QED
        BY <1>5, <4>2
    <3>3. CASE work.key # k
      BY <2>0, <2>1, <3>1, <3>3
    <3>. QED
      BY <3>2, <3>3
  <2>7. ASSUME NEW s \in Sessions, AskBrief(s)
        PROVE  \E brief \in [report : Reports, drift : BOOLEAN], n \in Nat :
                 cache'[k].brief = brief /\ cache'[k].upto = n /\ Told(k, brief, n)
    <3> DEFINE key == BriefKey(s)
               brief == Brief(Subject(s))
    <3>1. /\ key # <<>>
          /\ cache' = [cache EXCEPT ![key] = [state |-> "ready", brief |-> brief,
                                              upto |-> Len(rows), by |-> Len(rows)]]
      BY <2>7 DEF AskBrief
    <3>2. CASE k = key
      <4>1. cache'[k] = [state |-> "ready", brief |-> brief, upto |-> Len(rows), by |-> Len(rows)]
        BY <2>0, <3>1, <3>2
      <4>2. cache'[k].brief = brief /\ cache'[k].upto = Len(rows)
        BY <4>1
      <4>3. Fits(k, Report(Subject(s)), Len(rows))
        BY <3>1, <3>2, FitsNew
      <4>4. Drift(Report(Subject(s)))
              = (Report(Subject(s)).end # 0 /\ rows[Report(Subject(s)).end].gen # k[2])
        BY <4>3, DriftIs
      <4>5. brief.report = Report(Subject(s)) /\ brief.drift = Drift(Report(Subject(s)))
        BY DEF Brief
      <4> HIDE DEF brief, key
      <4>6. Told(k, brief, Len(rows))
        BY <4>3, <4>4, <4>5 DEF Told
      <4>. QED
        BY <2>0, <4>2, <4>6
    <3>3. CASE k # key
      BY <2>0, <2>1, <3>1, <3>3
    <3>. QED
      BY <3>2, <3>3
  <2>8. CASE UNCHANGED cache
    BY <2>1, <2>8
  <2>. QED
    BY <2>2, <2>3, <2>4, <2>5, <2>6, <2>7, <2>8
       DEF Next, Edit, AutoCheckpoint, Rewind, Checkpoint, CheckpointFails, SessionStarted,
           TurnStarted, vars, briefs
<1>6. ASSUME NEW k \in Keys, work'.key = k
      PROVE  Fits(k, work.report, work.upto)'
  <2>1. PICK r \in Reports, n \in Nat : work'.report = r /\ work'.upto = n /\ Fits(k, r, n)
    BY <1>4, <1>6
  <2>2. Fits(k, r, n)'
    BY <1>1, <2>1, FitsStays
  <2>. QED
    BY <2>1, <2>2 DEF Fits
<1>7. ASSUME NEW k \in Keys, cache'[k].state = "ready", cache'[k].upto = cache'[k].by
      PROVE  Told(k, cache[k].brief, cache[k].upto)'
  <2>1. PICK brief \in [report : Reports, drift : BOOLEAN], n \in Nat :
          cache'[k].brief = brief /\ cache'[k].upto = n /\ Told(k, brief, n)
    BY <1>5, <1>7
  <2>2. Told(k, brief, n)'
    BY <1>1, <2>1, ToldStays
  <2>. QED
    BY <2>1, <2>2 DEF Told, Fits
<1>. QED
  BY <1>6, <1>7 DEF BriefInv

\* As long as no tree came back, the end of a session in a key is where it still ends.
LEMMA EndStays ==
  ASSUME TypeOK, ~ CameBack, NEW asker, BriefKey(asker) # <<>>, NEW report, NEW n \in Nat,
         Fits(BriefKey(asker), report, n)
  PROVE  report.end = SessionEnd(Subject(asker))
<1> DEFINE k == BriefKey(asker)
           u == Subject(asker)
           before == Latest(Real, n)
<1>1. /\ k[1] = u /\ u \in Sessions /\ u # Nobody
      /\ LatestTarget \in Real /\ k[2] = rows[LatestTarget].gen
  BY KeyIs, NobodyAssumption
<1>2. before # 0 /\ rows[before].gen = k[2] /\ report.end = Latest(Real \cap Of(u), n)
  BY <1>1 DEF Fits
<1>3. Len(rows) \in Nat /\ Real \in SUBSET (1..Len(rows)) /\ Real \in SUBSET (0..Len(rows))
  <2>1. Len(rows) \in Nat /\ Real \in SUBSET (1..Len(rows))
    BY IdsAre DEF Real
  <2>. QED
    BY <2>1
<1>4. before \in Real /\ before <= n
  <2> DEFINE some == {i \in Real : i <= n}
  <2>1. some \in SUBSET (0..Len(rows)) /\ before = Newest(some)
    BY <1>3 DEF Latest
  <2> HIDE DEF some
  <2>2. before \in some
    BY <1>2, <1>3, <2>1, NewestIs
  <2>. QED
    BY <2>2 DEF some
<1>5. \A i \in Real : i <= LatestTarget
  BY <1>3, NewestIs DEF LatestTarget
<1> HIDE DEF k, u, before
<1>6. ASSUME NEW i \in Real \cap Of(u)
      PROVE  i <= n
  <2>1. rows[i].session = u /\ i \in Real /\ i <= LatestTarget
    BY <1>5, <1>6 DEF Of
  <2>2. i \in Nat /\ before \in Nat /\ LatestTarget \in Nat
    BY <1>1, <1>3, <1>4, <2>1
  <2>3. ~ before < i
    <3>1. SUFFICES ASSUME before < i
                   PROVE  FALSE
      OBVIOUS
    <3>2. before < LatestTarget /\ rows[before].gen = rows[LatestTarget].gen
      BY <1>1, <1>2, <2>1, <2>2, <3>1
    <3>. QED
      BY <1>1, <1>4, <2>1, <3>1, <3>2 DEF CameBack
  <2>. QED
    BY <1>4, <2>2, <2>3
<1>7. {i \in Real \cap Of(u) : i <= n} = Real \cap Of(u)
  BY <1>6
<1>8. Latest(Real \cap Of(u), n) = SessionEnd(u)
  BY <1>7 DEF Latest, SessionEnd
<1>. QED
  BY <1>2, <1>8 DEF u

\* speculate.rs, brief_key: a brief that is served from the cache is what computing it
\* now would give, unless the newest target's tree is one that came back.
THEOREM BriefFitsHolds == Spec => []BriefFits
<1>1. Init => BriefInv
  <2>1. Idle.key \notin Keys /\ Missing.state # "ready"
    BY DEF Idle, Keys, Missing
  <2>. QED
    BY <2>1 DEF Init, BriefInv
<1>2. ASSUME TypeOK, BriefInv
      PROVE  BriefFits
  <2> SUFFICES ASSUME ~ CameBack, NEW s \in Sessions \cup {Nobody}, BriefKey(s) # <<>>,
                      cache[BriefKey(s)].state = "ready",
                      cache[BriefKey(s)].upto = cache[BriefKey(s)].by
               PROVE  LET served == cache[BriefKey(s)].brief
                          now == Brief(Subject(s))
                      IN /\ served.report.subject = now.report.subject
                         /\ served.report.end = now.report.end
                         /\ served.report.changed = now.report.changed
                         /\ served.drift = now.drift
                         /\ served.report.branches \subseteq now.report.branches
                         /\ served.report.checkpoints <= now.report.checkpoints
    BY DEF BriefFits
  <2> DEFINE k == BriefKey(s)
             u == Subject(s)
             served == cache[k].brief
             n == cache[k].upto
  <2>1. k \in Keys /\ k[1] = u /\ k[2] = rows[LatestTarget].gen
    BY <1>2, KeyIs
  <2>2. Told(k, served, n) /\ n \in Nat
    BY <1>2, <2>1 DEF BriefInv, TypeOK
  <2>3. Fits(k, served.report, n)
    BY <2>2 DEF Told
  <2>4. served.report.end = SessionEnd(u)
    BY <1>2, <2>2, <2>3, EndStays
  <2> HIDE DEF k, u, served, n
  <2>5. /\ served.report.subject = u
        /\ served.report.changed = (SessionEnd(u) # 0 /\ rows[SessionStart(u)].gen # rows[SessionEnd(u)].gen)
        /\ served.report.branches \subseteq Branches(u)
        /\ served.report.checkpoints <= Cardinality(Whole \cap Of(u))
    BY <2>1, <2>3, <2>4 DEF Fits
  <2>6. served.drift = (SessionEnd(u) # 0 /\ rows[SessionEnd(u)].gen # rows[LatestTarget].gen)
    BY <2>1, <2>2, <2>4 DEF Told
  <2>7. Brief(u).report = Report(u) /\ Brief(u).drift = Drift(Report(u))
    BY DEF Brief
  <2>8. /\ Report(u).subject = u /\ Report(u).end = SessionEnd(u)
        /\ Report(u).changed = (SessionEnd(u) # 0 /\ rows[SessionStart(u)].gen # rows[SessionEnd(u)].gen)
        /\ Report(u).branches = Branches(u)
        /\ Report(u).checkpoints = Cardinality(Whole \cap Of(u))
    BY DEF Report
  <2>9. Drift(Report(u)) = (SessionEnd(u) # 0 /\ rows[LatestTarget].gen # rows[SessionEnd(u)].gen)
    BY <2>8 DEF Drift
  <2>10. served.drift = Drift(Report(u))
    BY <2>6, <2>9
  <2>. QED
    BY <2>4, <2>5, <2>7, <2>8, <2>10 DEF served, k, u
<1>. QED
  BY <1>1, <1>2, TypeInit, TypeStep, BriefInvStep, PTL DEF Spec
=============================================================================
