--------------------------- MODULE PromoteProofs ----------------------------
(***************************************************************************)
(* What TLAPS proves of Merge, for every three generations, and of         *)
(* Promote, for every set of paths, hunks, texts, forks, faults and        *)
(* bounds.                                                                 *)
(***************************************************************************)
EXTENDS Promote, TLAPS

Marks(t) == {p \in Paths : Marked(t[p])}

-----------------------------------------------------------------------------
(* Lemmas about the merge *)

\* Texts are nodes, and neither an absent path nor a directory is marked.
LEMMA TextNodes ==
  /\ TextFiles \subseteq Nodes /\ Absent \in Nodes /\ Dir \in Nodes
  /\ ~ Marked(Absent) /\ ~ Marked(Dir)
BY NodeAssumption DEF Nodes, Marked

\* A file that the text gate lets through is a text.
LEMMA FilesAreTexts ==
  ASSUME NEW n \in Nodes, Kind(n) \in {"none", "file"}, n \notin Binaries, n # Absent
  PROVE  n \in TextFiles
BY NodeAssumption DEF Nodes, Kind

\* A merge of two texts, or of a text and a deletion, is a text.
LEMMA MergeFileType ==
  ASSUME NEW b, NEW f \in TextFiles \cup {Absent}, NEW t \in TextFiles \cup {Absent}
  PROVE  MergeFile(b, f, t) \in TextFiles
<1>1. CASE f = Absent \/ t = Absent
  BY <1>1 DEF MergeFile, ModifyDelete, TextFiles
<1>2. CASE ~ (f = Absent \/ t = Absent)
  <2>1. f \in TextFiles /\ t \in TextFiles /\ MergeFile(b, f, t) = Merge3(b, f, t)
    BY <1>2 DEF MergeFile
  <2>2. \A h \in Hunks : f[h] \in Texts \cup {Mark} /\ t[h] \in Texts \cup {Mark}
    BY <2>1 DEF TextFiles
  <2>3. \A h \in Hunks :
          (IF Clash(b, f, t, h) THEN Mark
           ELSE IF f[h] = BaseHunk(b, h) THEN t[h] ELSE f[h]) \in Texts \cup {Mark}
    BY <2>2
  <2> QED  BY <2>1, <2>3 DEF Merge3, TextFiles
<1> QED  BY <1>1, <1>2

\* A merge without a clash brings no marker that neither side had.
LEMMA CleanMerge ==
  ASSUME NEW b, NEW f \in TextFiles, NEW t \in TextFiles,
         ~ Marked(f), ~ Marked(t), ~ Conflicts(b, f, t)
  PROVE  ~ Marked(MergeFile(b, f, t))
<1>1. f # Absent /\ t # Absent /\ \A h \in Hunks : ~ Clash(b, f, t, h)
  BY DEF Conflicts
<1>2. \A h \in Hunks : f[h] # Mark /\ t[h] # Mark
  BY DEF Marked
<1>3. \A h \in Hunks : Merge3(b, f, t)[h] # Mark
  BY <1>1, <1>2 DEF Merge3
<1> QED  BY <1>1, <1>3 DEF MergeFile, Marked

\* What the plan merges by content are texts, and deletions where it conflicts.
LEMMA PlanFacts ==
  ASSUME NEW b \in Trees, NEW h \in Trees, NEW f \in Trees, NEW ignored
  PROVE  LET p == KeepMainline(Plan(b, h, f), ignored) IN
         /\ p \in Plans
         /\ \A q \in p.merged \cup p.conflicted :
              f[q] \in TextFiles \cup {Absent} /\ h[q] \in TextFiles \cup {Absent}
         /\ \A q \in p.merged :
              f[q] \in TextFiles /\ h[q] \in TextFiles /\ ~ Conflicts(b[q], f[q], h[q])
<1> DEFINE visited == Visited(b, h, f)
           contested == {q \in visited : Touched(b, f, q) /\ Touched(b, h, q)}
           content == {q \in contested : ByContent(b, h, f, q)}
           text == {q \in content : ~ Opaque(b, h, f, q)}
           clashing == {q \in text : Conflicts(b[q], f[q], h[q])}
           p == KeepMainline(Plan(b, h, f), ignored)
<1>1. visited \subseteq Paths
  BY DEF Visited, Changed
<1>2. /\ p.ours \subseteq visited /\ p.merged = text \ clashing
      /\ p.conflicted = clashing \ ignored /\ p.refused \subseteq visited
      /\ p.kept \subseteq visited
  BY DEF Plan, KeepMainline
<1>3. p \in Plans
  <2>1. p = [ours |-> p.ours, merged |-> p.merged, conflicted |-> p.conflicted,
             refused |-> p.refused, kept |-> p.kept]
    BY DEF KeepMainline
  <2>2. /\ p.ours \in SUBSET Paths /\ p.merged \in SUBSET Paths
        /\ p.conflicted \in SUBSET Paths /\ p.refused \in SUBSET Paths
        /\ p.kept \in SUBSET Paths
    BY <1>1, <1>2
  <2> HIDE DEF p
  <2> QED  BY <2>1, <2>2 DEF Plans
<1>4. ASSUME NEW q \in text
      PROVE  f[q] \in TextFiles \cup {Absent} /\ h[q] \in TextFiles \cup {Absent}
  <2>1. q \in Paths /\ ByContent(b, h, f, q) /\ ~ Opaque(b, h, f, q)
    BY <1>1
  <2>2. /\ Kind(f[q]) \in {"none", "file"} /\ Kind(h[q]) \in {"none", "file"}
        /\ f[q] \notin Binaries /\ h[q] \notin Binaries
    BY <2>1 DEF ByContent, Opaque
  <2>3. f[q] \in Nodes /\ h[q] \in Nodes
    BY <2>1 DEF Trees
  <2> QED  BY <2>2, <2>3, FilesAreTexts
<1>5. ASSUME NEW q \in text \ clashing
      PROVE  f[q] \in TextFiles /\ h[q] \in TextFiles /\ ~ Conflicts(b[q], f[q], h[q])
  <2>1. ~ Conflicts(b[q], f[q], h[q])
    OBVIOUS
  <2>2. f[q] # Absent /\ h[q] # Absent
    BY <2>1 DEF Conflicts
  <2> QED  BY <1>4, <2>1, <2>2
<1> HIDE DEF p, text, clashing
<1> QED
  <2>1. p.merged \cup p.conflicted \subseteq text
    BY <1>2 DEF clashing
  <2> QED  BY <1>2, <1>3, <1>4, <1>5, <2>1 DEF p

\* Writing one tree over another gives a tree.
LEMMA OverlayType ==
  ASSUME NEW t \in Trees, NEW roots, NEW from \in Trees
  PROVE  Overlay(t, roots, from) \in Trees
BY TextNodes DEF Overlay, Trees

\* Writing over a tree brings only the marks of what is written.
LEMMA OverlayMarks ==
  ASSUME NEW t, NEW roots, NEW from
  PROVE  Marks(Overlay(t, roots, from)) \subseteq Marks(t) \cup Marks(from)
BY TextNodes DEF Overlay, Marks

\* The merged files are a tree of their own.
LEMMA ContentsType ==
  ASSUME NEW b, NEW h, NEW f, NEW paths,
         \A q \in paths : f[q] \in TextFiles \cup {Absent} /\ h[q] \in TextFiles \cup {Absent}
  PROVE  Contents(b, h, f, paths) \in Trees
<1>1. \A q \in paths : MergeFile(b[q], f[q], h[q]) \in Nodes
  BY MergeFileType, TextNodes
<1> QED  BY <1>1, TextNodes DEF Contents, Trees

\* Its marks are of the files that were merged, and of those that clash.
LEMMA ContentsMarks ==
  ASSUME NEW b, NEW h, NEW f, NEW paths
  PROVE  /\ Marks(Contents(b, h, f, paths)) \subseteq paths
         /\ (\A q \in paths : ~ Marked(MergeFile(b[q], f[q], h[q])))
              => Marks(Contents(b, h, f, paths)) = {}
BY TextNodes DEF Contents, Marks

-----------------------------------------------------------------------------
(* What a promote builds *)

\* Both generations are trees; M has no marks that the fork and the head have not,
\* and R has none but in the conflicting files.
LEMMA Built ==
  ASSUME NEW b \in Trees, NEW h \in Trees, NEW f \in Trees, NEW ignored
  PROVE  LET p == KeepMainline(Plan(b, h, f), ignored) IN
         /\ Merged(b, h, f, p) \in Trees /\ Rebased(b, h, f, p) \in Trees
         /\ Marks(h) = {} /\ Marks(f) = {} =>
              /\ Marks(Merged(b, h, f, p)) = {}
              /\ Marks(Rebased(b, h, f, p)) \subseteq p.conflicted
<1> DEFINE p == KeepMainline(Plan(b, h, f), ignored)
           M == Merged(b, h, f, p)
           clean == Contents(b, h, f, p.merged)
           marked == Contents(b, h, f, p.conflicted)
<1>1. /\ \A q \in p.merged \cup p.conflicted :
           f[q] \in TextFiles \cup {Absent} /\ h[q] \in TextFiles \cup {Absent}
      /\ \A q \in p.merged :
           f[q] \in TextFiles /\ h[q] \in TextFiles /\ ~ Conflicts(b[q], f[q], h[q])
      /\ p.merged \subseteq Paths
  BY PlanFacts DEF Plans
<1> HIDE DEF p
<1>2. clean \in Trees /\ marked \in Trees
  BY <1>1, ContentsType
<1>3. M \in Trees
  BY <1>2, OverlayType DEF Merged
<1>4. Rebased(b, h, f, p) \in Trees
  BY <1>2, <1>3, OverlayType DEF Rebased
<1>5. ASSUME Marks(h) = {}, Marks(f) = {}
      PROVE  Marks(M) = {} /\ Marks(Rebased(b, h, f, p)) \subseteq p.conflicted
  <2>1. \A q \in p.merged : ~ Marked(f[q]) /\ ~ Marked(h[q])
    BY <1>1, <1>5 DEF Marks
  <2>2. \A q \in p.merged : ~ Marked(MergeFile(b[q], f[q], h[q]))
    BY <1>1, <2>1, CleanMerge
  <2>3. Marks(clean) = {}
    BY <2>2, ContentsMarks
  <2>4. Marks(Overlay(h, p.ours, f)) = {}
    BY <1>5, OverlayMarks
  <2>5. Marks(Overlay(Overlay(h, p.ours, f), p.merged, clean)) = {}
    BY <2>3, <2>4, OverlayMarks
  <2>6. Marks(M) = {}
    BY <1>5, <2>5 DEF Merged
  <2>7. Marks(marked) \subseteq p.conflicted
    BY ContentsMarks
  <2> HIDE DEF M, marked
  <2>8. Marks(Overlay(M, p.conflicted, marked)) \subseteq p.conflicted
    BY <2>6, <2>7, OverlayMarks
  <2> QED  BY <2>6, <2>8 DEF Rebased, M, marked
<1> QED  BY <1>3, <1>4, <1>5 DEF p

-----------------------------------------------------------------------------
(* The merge obeys its laws *)

\* What is below a path has everything above it above.
LEMMA UnderAbove ==
  ASSUME NEW r \in Paths, NEW q \in Under(r)
  PROVE  q \in Paths /\ Above[r] \subseteq Above[q] /\ Under(q) \subseteq Under(r)
BY AboveAssumption DEF Under

\* Nothing is below what is not a directory.
LEMMA NothingBelow ==
  ASSUME NEW t \in Trees, WellFormed(t), NEW a \in Paths, t[a] # Dir,
         NEW q \in Under(a), q # a
  PROVE  t[q] = Absent
BY DEF WellFormed, Under

\* A path that is decided by content is no directory.
LEMMA KindNotDir ==
  ASSUME NEW n, Kind(n) \in {"none", "file"}
  PROVE  n # Dir
BY NodeAssumption DEF Kind

\* What each part of a plan says of its paths, and where every visited path goes.
LEMMA PlanSets ==
  ASSUME NEW b, NEW h, NEW f, NEW ignored
  PROVE  LET p == KeepMainline(Plan(b, h, f), ignored)
             V == Visited(b, h, f)
         IN
         /\ V \subseteq Changed(b, h, f) /\ V \subseteq Paths
         /\ \A q \in p.ours : q \in V /\ Touched(b, f, q) /\ ~ Touched(b, h, q)
         /\ \A q \in p.merged \cup p.conflicted :
              q \in V /\ Touched(b, f, q) /\ Touched(b, h, q) /\ ByContent(b, h, f, q)
         /\ \A q \in p.merged : ~ Conflicts(b[q], f[q], h[q])
         /\ \A q \in V : ~ Touched(b, f, q) \/ q \in p.ours \/ Settled(b, h, f, q)
              \/ q \in p.merged \cup p.conflicted \/ q \in p.refused \cup p.kept
         /\ \A q \in V : Touched(b, f, q) /\ ~ Touched(b, h, q) => q \in p.ours
         /\ \A q \in V : Touched(b, f, q) /\ Touched(b, h, q) /\ Irreconcilable(b, h, f, q)
              => q \in p.refused \cup p.kept
<1> DEFINE V == Visited(b, h, f)
<1>1. V \subseteq Changed(b, h, f) /\ V \subseteq Paths
  BY DEF Visited, Changed
<1> HIDE DEF V
<1> QED  BY <1>1 DEF Plan, KeepMainline, Irreconcilable, V

\* Above a path that the promote writes, there is a directory in the head, and
\* nothing else that it writes.
LEMMA AboveWritten ==
  ASSUME NEW b \in Trees, NEW h \in Trees, NEW f \in Trees, NEW ignored,
         WellFormed(b), WellFormed(h), WellFormed(f)
  PROVE  LET p == KeepMainline(Plan(b, h, f), ignored)
             W == p.ours \cup p.merged \cup p.conflicted
         IN  \A r \in W : \A a \in Above[r] : h[a] = Dir /\ a \notin W
<1> DEFINE p == KeepMainline(Plan(b, h, f), ignored)
           W == p.ours \cup p.merged \cup p.conflicted
           V == Visited(b, h, f)
<1> SUFFICES ASSUME NEW r \in W, NEW a \in Above[r] PROVE h[a] = Dir /\ a \notin W
  OBVIOUS
<1>0. /\ V \subseteq Paths
      /\ \A q \in p.ours : q \in V /\ Touched(b, f, q) /\ ~ Touched(b, h, q)
      /\ \A q \in p.merged \cup p.conflicted :
           q \in V /\ Touched(b, f, q) /\ Touched(b, h, q) /\ ByContent(b, h, f, q)
  BY PlanSets
<1> HIDE DEF p
<1>1. r \in V /\ r \in Paths /\ Touched(b, f, r)
  BY <1>0
<1>2. a \in Paths /\ r \in Under(a) /\ r # a
  BY <1>1, AboveAssumption DEF Under
<1>3. PICK q \in Under(r) : b[q] # f[q]
  BY <1>1 DEF Touched
<1>4. q \in Under(a) /\ q # a /\ q \in Paths
  BY <1>1, <1>2, <1>3, AboveAssumption DEF Under
<1>5. ~ (a \in Changed(b, h, f) /\ Decides(b, h, f, a))
  BY <1>1 DEF Visited, V
<1>6. b[a] = Dir \/ f[a] = Dir
  BY <1>2, <1>3, <1>4, NothingBelow
<1>7. ~ ByContent(b, h, f, a)
  BY <1>6, KindNotDir DEF ByContent
<1>8. h[a] = Dir
  <2>1. CASE a \notin Changed(b, h, f)
    BY <1>2, <1>6, <2>1 DEF Changed
  <2>2. CASE a \in Changed(b, h, f)
    <3>1. Settled(b, h, f, a)
      BY <1>5, <1>7, <2>2 DEF Decides, Irreconcilable
    <3>2. SUFFICES ASSUME h[a] # Dir PROVE FALSE
      OBVIOUS
    <3>3. f[a] # Dir
      BY <3>1, <3>2 DEF Settled
    <3>4. f[q] = Absent /\ h[q] = Absent /\ f[r] = Absent /\ h[r] = Absent
      BY <1>2, <1>4, <3>2, <3>3, NothingBelow
    <3>5. Touched(b, h, r)
      BY <1>3, <3>4 DEF Touched
    <3>6. ~ ByContent(b, h, f, r)
      BY <3>4 DEF ByContent
    <3> QED  BY <1>0, <3>5, <3>6
  <2> QED  BY <2>1, <2>2
<1>9. a \notin W
  <2>1. a \notin p.merged \cup p.conflicted
    BY <1>0, <1>7
  <2>2. a \notin p.ours
    BY <1>0, <1>5, PlanSets DEF Decides, V
  <2> QED  BY <2>1, <2>2
<1> QED  BY <1>8, <1>9

\* Hence nothing is written below two of the roots, and no directory has to be made.
LEMMA OneRoot ==
  ASSUME NEW b \in Trees, NEW h \in Trees, NEW f \in Trees, NEW ignored,
         WellFormed(b), WellFormed(h), WellFormed(f)
  PROVE  LET p == KeepMainline(Plan(b, h, f), ignored)
             W == p.ours \cup p.merged \cup p.conflicted
         IN  /\ W \subseteq Paths
             /\ \A r, s \in W : \A q \in Under(r) \cap Under(s) : r = s
             /\ \A r \in W : \A q \in Paths : q \in Above[r] => h[q] # Absent
<1> DEFINE p == KeepMainline(Plan(b, h, f), ignored)
           W == p.ours \cup p.merged \cup p.conflicted
<1>1. \A r \in W : \A a \in Above[r] : h[a] = Dir /\ a \notin W
  BY AboveWritten
<1>2. W \subseteq Paths
  BY PlanSets
<1> HIDE DEF p
<1>3. ASSUME NEW r \in W, NEW s \in W, NEW q \in Under(r) \cap Under(s) PROVE r = s
  <2>1. q \in Paths /\ (q = r \/ r \in Above[q]) /\ (q = s \/ s \in Above[q])
    BY DEF Under
  <2>2. r = s \/ r \in Above[s] \/ s \in Above[r]
    BY <2>1, AboveAssumption
  <2> QED  BY <1>1, <2>2
<1> QED  BY <1>1, <1>2, <1>3, NodeAssumption DEF p

\* What a promote makes of the head: what it lands, or what it rebases the fork to.
Outcome(b, h, f, p) ==
  IF p.conflicted = {} THEN Overlay(h, Landing(p), Merged(b, h, f, p))
  ELSE Rebased(b, h, f, p)

\* What one path holds after a write.
LEMMA OverlayAt ==
  ASSUME NEW t, NEW roots, NEW from, NEW q \in Paths
  PROVE  /\ (\E r \in roots : q \in Under(r)) => Overlay(t, roots, from)[q] = from[q]
         /\ (\A r \in roots : q \notin Under(r)) /\ (t[q] # Absent \/ \A r \in roots : q \notin Above[r])
              => Overlay(t, roots, from)[q] = t[q]
BY DEF Overlay

\* The outcome is the fork's below what only the fork changed, the merged files
\* with nothing below them, and the mainline's elsewhere.
LEMMA Pointwise ==
  ASSUME NEW b \in Trees, NEW h \in Trees, NEW f \in Trees, NEW ignored,
         WellFormed(b), WellFormed(h), WellFormed(f)
  PROVE  LET p == KeepMainline(Plan(b, h, f), ignored)
             r == Outcome(b, h, f, p)
         IN  \A q \in Paths :
               /\ \A s \in p.ours : q \in Under(s) => r[q] = f[q]
               /\ \A s \in p.merged \cup p.conflicted : q \in Under(s) =>
                    r[q] = IF q = s THEN MergeFile(b[q], f[q], h[q]) ELSE Absent
               /\ (\A s \in p.ours \cup p.merged \cup p.conflicted : q \notin Under(s)) =>
                    r[q] = h[q]
<1> DEFINE p == KeepMainline(Plan(b, h, f), ignored)
           W == p.ours \cup p.merged \cup p.conflicted
           r == Outcome(b, h, f, p)
           clean == Contents(b, h, f, p.merged)
           marked == Contents(b, h, f, p.conflicted)
           A == Overlay(h, p.ours, f)
           B == Overlay(A, p.merged, clean)
           C == Overlay(B, p.conflicted, marked)
<1>1. /\ W \subseteq Paths
      /\ \A s, t \in W : \A q \in Under(s) \cap Under(t) : s = t
      /\ \A s \in W : \A q \in Paths : q \in Above[s] => h[q] # Absent
  BY OneRoot
<1>2. p.ours \cap (p.merged \cup p.conflicted) = {}
  BY PlanSets
<1>3. p.merged \cap p.conflicted = {}
  BY DEF Plan, KeepMainline
<1> SUFFICES ASSUME NEW q \in Paths
             PROVE  /\ \A s \in p.ours : q \in Under(s) => r[q] = f[q]
                    /\ \A s \in p.merged \cup p.conflicted : q \in Under(s) =>
                         r[q] = IF q = s THEN MergeFile(b[q], f[q], h[q]) ELSE Absent
                    /\ (\A s \in W : q \notin Under(s)) => r[q] = h[q]
  OBVIOUS
<1> HIDE DEF p
<1>4. \A s \in Paths : s \in Under(s)
  BY DEF Under
<1>5. \/ p.conflicted = {} /\ p.merged = {} /\ r = Overlay(h, Landing(p), f)
      \/ p.conflicted = {} /\ p.merged # {} /\ r = Overlay(h, Landing(p), B)
      \/ p.conflicted # {} /\ r = C
  BY DEF Outcome, Merged, Rebased
<1> HIDE DEF r, A, B, C, clean, marked
<1> DEFINE in(roots) == \E s \in roots : q \in Under(s)
<1>9. /\ in(p.ours) => ~ in(p.merged) /\ ~ in(p.conflicted)
      /\ in(p.merged) => ~ in(p.conflicted)
  BY <1>1, <1>2, <1>3
<1>10. h[q] # Absent \/ \A s \in W : q \notin Above[s]
  BY <1>1
\* A root above q has q below it, so that no directory is made over f's nodes.
<1>11. ASSUME NEW s \in W, NEW t \in W, q \in Above[s] PROVE q \notin Under(t)
  <2>1. s \in Paths /\ t \in Paths /\ s \notin Above[s]
    BY <1>1, AboveAssumption
  <2>2. SUFFICES ASSUME q = t \/ t \in Above[q] PROVE FALSE
    BY DEF Under
  <2>3. t \in Above[s]
    BY <1>11, <2>1, <2>2, AboveAssumption
  <2>4. s \in Under(t) /\ s \in Under(s)
    BY <2>1, <2>3 DEF Under
  <2> QED  BY <1>1, <2>1, <2>3, <2>4
<1>12. in(W) => \A s \in W : q \notin Above[s]
  BY <1>11
<1>a. (in(p.ours) => A[q] = f[q]) /\ (~ in(W) => A[q] = h[q])
  <2>1. in(p.ours) => A[q] = f[q]
    BY OverlayAt DEF A
  <2>2. ~ in(W) => A[q] = h[q]
    BY <1>10, OverlayAt DEF A
  <2> QED  BY <2>1, <2>2
<1>b. /\ in(p.ours) => B[q] = f[q]
      /\ in(p.merged) => B[q] = clean[q]
      /\ ~ in(W) => B[q] = h[q]
  <2>1. in(p.merged) => B[q] = clean[q]
    BY OverlayAt DEF B
  <2>2. ASSUME ~ in(p.merged), A[q] # Absent \/ \A s \in p.merged : q \notin Above[s]
        PROVE  B[q] = A[q]
    BY <2>2, OverlayAt DEF B
  <2>3. in(p.ours) => B[q] = f[q]
    BY <1>9, <1>12, <1>a, <2>2
  <2>4. ~ in(W) => B[q] = h[q]
    BY <1>10, <1>a, <2>2
  <2> QED  BY <2>1, <2>3, <2>4
<1>c. /\ in(p.ours) => C[q] = f[q]
      /\ in(p.merged) => C[q] = clean[q]
      /\ in(p.conflicted) => C[q] = marked[q]
      /\ ~ in(W) => C[q] = h[q]
  <2>1. in(p.conflicted) => C[q] = marked[q]
    BY OverlayAt DEF C
  <2>2. ASSUME ~ in(p.conflicted), B[q] # Absent \/ \A s \in p.conflicted : q \notin Above[s]
        PROVE  C[q] = B[q]
    BY <2>2, OverlayAt DEF C
  <2>3. in(p.ours) => C[q] = f[q]
    BY <1>9, <1>12, <1>b, <2>2
  <2>4. in(p.merged) => C[q] = clean[q]
    BY <1>9, <1>12, <1>b, <2>2
  <2>5. ~ in(W) => C[q] = h[q]
    BY <1>10, <1>b, <2>2
  <2> QED  BY <2>1, <2>3, <2>4, <2>5
<1>d. ASSUME NEW s \in p.merged, q \in Under(s)
      PROVE  clean[q] = IF q = s THEN MergeFile(b[q], f[q], h[q]) ELSE Absent
  BY <1>1, <1>4, <1>d DEF clean, Contents
<1>e. ASSUME NEW s \in p.conflicted, q \in Under(s)
      PROVE  marked[q] = IF q = s THEN MergeFile(b[q], f[q], h[q]) ELSE Absent
  BY <1>1, <1>4, <1>e DEF marked, Contents
<1>6. CASE p.conflicted = {} /\ p.merged = {} /\ r = Overlay(h, Landing(p), f)
  BY <1>1, <1>6 DEF Overlay, Landing
<1>7. CASE p.conflicted = {} /\ p.merged # {} /\ r = Overlay(h, Landing(p), B)
  <2>1. /\ (\E s \in p.ours \cup p.merged : q \in Under(s)) => r[q] = B[q]
        /\ (\A s \in W : q \notin Under(s)) => r[q] = h[q]
    BY <1>1, <1>7 DEF Overlay, Landing
  <2> QED  BY <2>1, <1>7, <1>b, <1>d
<1>8. CASE p.conflicted # {} /\ r = C
  BY <1>8, <1>c, <1>d, <1>e
<1> QED  BY <1>5, <1>6, <1>7, <1>8

\* The outcome is a tree: what is above a path that is written stays the directory
\* it was.
LEMMA OutcomeFits ==
  ASSUME NEW b \in Trees, NEW h \in Trees, NEW f \in Trees, NEW ignored,
         WellFormed(b), WellFormed(h), WellFormed(f)
  PROVE  WellFormed(Outcome(b, h, f, KeepMainline(Plan(b, h, f), ignored)))
<1> DEFINE p == KeepMainline(Plan(b, h, f), ignored)
           W == p.ours \cup p.merged \cup p.conflicted
           r == Outcome(b, h, f, p)
<1>1. \A q \in Paths :
        /\ \A s \in p.ours : q \in Under(s) => r[q] = f[q]
        /\ \A s \in p.merged \cup p.conflicted : q \in Under(s) =>
             r[q] = IF q = s THEN MergeFile(b[q], f[q], h[q]) ELSE Absent
        /\ (\A s \in W : q \notin Under(s)) => r[q] = h[q]
  BY Pointwise
<1>2. \A s \in W : s \in Paths /\ \A a \in Above[s] : h[a] = Dir /\ a \notin W
  BY AboveWritten, OneRoot
<1> HIDE DEF p, r
<1> SUFFICES ASSUME NEW q \in Paths, r[q] # Absent, NEW a \in Above[q]
             PROVE  r[a] = Dir
  BY DEF WellFormed, r, p
<1>3. a \in Paths /\ Above[a] \subseteq Above[q]
  BY AboveAssumption
<1>4. ASSUME NEW s \in W, a \in Above[s] PROVE r[a] = Dir
  <2>1. \A t \in W : a \notin Under(t)
    BY <1>2, <1>4, AboveAssumption DEF Under
  <2> QED  BY <1>1, <1>2, <1>3, <1>4, <2>1
<1>5. ASSUME NEW s \in W, q \in Under(s) PROVE a \in Under(s) \/ a \in Above[s]
  BY <1>2, <1>3, <1>5, AboveAssumption DEF Under
<1>6. CASE \E s \in p.ours : q \in Under(s)
  <2>1. PICK s \in p.ours : q \in Under(s)
    BY <1>6
  <2>2. f[a] = Dir
    BY <1>1, <2>1 DEF WellFormed
  <2> QED  BY <1>1, <1>3, <1>4, <1>5, <2>1, <2>2
<1>7. CASE \E s \in p.merged \cup p.conflicted : q \in Under(s)
  <2>1. PICK s \in p.merged \cup p.conflicted : q \in Under(s)
    BY <1>7
  <2>2. q = s
    BY <1>1, <2>1
  <2> QED  BY <1>4, <2>1, <2>2
<1>8. CASE \A s \in W : q \notin Under(s)
  <2>1. h[a] = Dir
    BY <1>1, <1>8 DEF WellFormed
  <2>2. \A s \in W : a \notin Under(s)
    BY <1>3, <1>8 DEF Under
  <2> QED  BY <1>1, <1>3, <2>1, <2>2
<1> QED  BY <1>6, <1>7, <1>8

\* Where the promote writes nothing, the fork has no change of its own, or the
\* mainline has it too, or .gitignore leaves the matter to the mainline.
LEMMA Unwritten ==
  ASSUME NEW b \in Trees, NEW h \in Trees, NEW f \in Trees, NEW ignored,
         KeepMainline(Plan(b, h, f), ignored).refused = {}, NEW q \in Paths
  PROVE  LET p == KeepMainline(Plan(b, h, f), ignored) IN
         (\A s \in p.ours \cup p.merged \cup p.conflicted : q \notin Under(s)) =>
           f[q] = b[q] \/ f[q] = h[q] \/ \E k \in p.kept : q \in Under(k)
<1> DEFINE p == KeepMainline(Plan(b, h, f), ignored)
           W == p.ours \cup p.merged \cup p.conflicted
           V == Visited(b, h, f)
           D == {a \in Changed(b, h, f) : Decides(b, h, f, a)}
           S == {a \in D : q \in Under(a)}
<1>1. /\ \A a \in V : ~ Touched(b, f, a) \/ a \in p.ours \/ Settled(b, h, f, a)
              \/ a \in p.merged \cup p.conflicted \/ a \in p.refused \cup p.kept
      /\ \A a \in V : Touched(b, f, a) /\ ~ Touched(b, h, a) => a \in p.ours
      /\ \A a \in V : Touched(b, f, a) /\ Touched(b, h, a) /\ Irreconcilable(b, h, f, a)
              => a \in p.refused \cup p.kept
  BY PlanSets
<1>2. p.refused = {}
  OBVIOUS
<1> HIDE DEF p
<1> SUFFICES ASSUME \A s \in W : q \notin Under(s), f[q] # b[q], f[q] # h[q]
             PROVE  \E k \in p.kept : q \in Under(k)
  BY DEF p
<1>3. q \in Under(q) /\ \A a \in Paths : q \in Under(a) => Touched(b, f, a)
  BY DEF Under, Touched
<1>4. q \in Changed(b, h, f)
  BY DEF Changed
<1>5. CASE S = {}
  <2>1. q \in V
    BY <1>3, <1>4, <1>5 DEF Visited, Under, Changed
  <2>2. ~ Settled(b, h, f, q)
    BY DEF Settled
  <2> QED  BY <1>1, <1>2, <1>3, <2>1, <2>2
<1>6. CASE S # {}
  <2>1. S \subseteq Paths
    BY DEF Changed
  <2>2. PICK s \in S : Above[s] \cap S = {}
    BY <1>6, <2>1, AboveAssumption
  <2>3. s \in Paths /\ s \in D /\ q \in Under(s)
    BY <2>1, <2>2
  <2>4. Above[s] \cap D = {}
    BY <2>1, <2>2, <2>3, AboveAssumption DEF Under
  <2>5. s \in V
    BY <2>3, <2>4 DEF Visited
  <2>6. Touched(b, f, s)
    BY <1>3, <2>3
  <2>7. ~ Touched(b, h, s) \/ Irreconcilable(b, h, f, s)
    BY <2>3, <2>6 DEF Decides
  <2> QED  BY <1>1, <1>2, <2>3, <2>5, <2>6, <2>7
<1> QED  BY <1>5, <1>6

\* The hunks of a merged file obey the laws.
LEMMA HunkLaws ==
  ASSUME NEW b \in TextFiles, NEW f \in TextFiles, NEW t \in TextFiles, NEW k \in Hunks
  PROVE  Laws(b[k], t[k], f[k], MergeFile(b, f, t)[k])
<1>1. f # Absent /\ t # Absent
  BY NodeAssumption
<1>2. MergeFile(b, f, t)[k] = IF Clash(b, f, t, k) THEN Mark
                              ELSE IF f[k] = b[k] THEN t[k] ELSE f[k]
  BY <1>1 DEF MergeFile, Merge3, BaseHunk
<1> QED  BY <1>2 DEF Clash, BaseHunk, Laws

\* Whatever the three generations are, a promote that is not refused makes of them
\* a merge by the laws.
THEOREM MergeCorrect ==
  ASSUME NEW b \in Trees, NEW h \in Trees, NEW f \in Trees, NEW ignored,
         WellFormed(b), WellFormed(h), WellFormed(f),
         KeepMainline(Plan(b, h, f), ignored).refused = {}
  PROVE  LET p == KeepMainline(Plan(b, h, f), ignored) IN
         IsMerge(b, h, f, p.kept, Outcome(b, h, f, p))
<1> DEFINE p == KeepMainline(Plan(b, h, f), ignored)
           W == p.ours \cup p.merged \cup p.conflicted
           r == Outcome(b, h, f, p)
           lawful(q) == /\ Laws(b[q], h[q], f[q], r[q])
                        /\ {b[q], h[q], f[q]} \subseteq TextFiles =>
                             \A k \in Hunks : Laws(b[q][k], h[q][k], f[q][k], r[q][k])
<1>1. WellFormed(r)
  BY OutcomeFits
<1> SUFFICES ASSUME NEW q \in Paths
             PROVE  (r[q] = h[q] /\ \E k \in p.kept : q \in Under(k)) \/ lawful(q)
  BY <1>1 DEF IsMerge
<1>2. /\ \A s \in p.ours : q \in Under(s) => r[q] = f[q]
      /\ \A s \in p.merged \cup p.conflicted : q \in Under(s) =>
           r[q] = IF q = s THEN MergeFile(b[q], f[q], h[q]) ELSE Absent
      /\ (\A s \in W : q \notin Under(s)) => r[q] = h[q]
  BY Pointwise
<1>3. /\ \A s \in p.ours : s \in Paths /\ ~ Touched(b, h, s)
      /\ \A s \in p.merged \cup p.conflicted :
           s \in Paths /\ Touched(b, f, s) /\ Touched(b, h, s) /\ ByContent(b, h, f, s)
  BY PlanSets
<1>4. (\A s \in W : q \notin Under(s)) =>
        f[q] = b[q] \/ f[q] = h[q] \/ \E k \in p.kept : q \in Under(k)
  BY Unwritten
<1> HIDE DEF p, r
<1>5. CASE \E s \in p.ours : q \in Under(s)
  <2>1. r[q] = f[q] /\ b[q] = h[q]
    BY <1>2, <1>3, <1>5 DEF Touched
  <2> QED  BY <2>1 DEF Laws
<1>6. CASE \E s \in p.merged \cup p.conflicted : q \in Under(s)
  <2>1. PICK s \in p.merged \cup p.conflicted : q \in Under(s)
    BY <1>6
  <2>2. b[s] # Dir /\ h[s] # Dir /\ f[s] # Dir /\ s \in Paths
    BY <1>3, KindNotDir DEF ByContent
  <2>3. \A a \in Under(s) : a # s => b[a] = Absent /\ h[a] = Absent /\ f[a] = Absent
    BY <2>2, NothingBelow
  <2>4. CASE q # s
    BY <1>2, <2>1, <2>3, <2>4, NodeAssumption DEF Laws
  <2>5. CASE q = s
    <3>1. f[q] # b[q] /\ h[q] # b[q] /\ f[q] # h[q]
      BY <1>3, <2>3, <2>5 DEF Touched, ByContent
    <3>2. r[q] = MergeFile(b[q], f[q], h[q])
      BY <1>2, <2>1, <2>5
    <3> QED  BY <3>1, <3>2, HunkLaws DEF Laws
  <2> QED  BY <2>4, <2>5
<1>7. CASE \A s \in W : q \notin Under(s)
  <2>1. r[q] = h[q]
    BY <1>2, <1>7
  <2> QED  BY <1>4, <1>7, <2>1 DEF Laws
<1> QED  BY <1>5, <1>6, <1>7

-----------------------------------------------------------------------------
(* Trees that are half written *)

\* What a rebase has made of the fork while the roots of `rest` are unwritten.
Half(from, to, rest) ==
  [q \in Paths |-> IF \E s \in rest : q \in Under(s) THEN from[q] ELSE to[q]]

\* The subtree roots are the topmost paths that differ.
LEMMA RootsFacts ==
  ASSUME NEW from, NEW to
  PROVE  /\ Roots(from, to) \subseteq Paths
         /\ \A s \in Roots(from, to) :
              from[s] # to[s] /\ \A a \in Above[s] : a \in Paths /\ from[a] = to[a]
         /\ \A q \in Paths : from[q] # to[q] => \E s \in Roots(from, to) : q \in Under(s)
<1> DEFINE changed == {p \in Paths : from[p] # to[p]}
<1>1. Roots(from, to) = {p \in changed : Above[p] \cap changed = {}}
  BY DEF Roots
<1>2. \A s \in Paths : Above[s] \subseteq Paths
  BY AboveAssumption
<1>3. ASSUME NEW q \in Paths, from[q] # to[q]
      PROVE  \E s \in Roots(from, to) : q \in Under(s)
  <2> DEFINE S == {a \in changed : q \in Under(a)}
  <2>1. S # {} /\ S \in SUBSET Paths
    BY <1>3 DEF Under
  <2> HIDE DEF S
  <2>2. PICK s \in S : Above[s] \cap S = {}
    BY <2>1, AboveAssumption
  <2>3. s \in changed /\ q \in Under(s)
    BY <2>2 DEF S
  <2>4. Above[s] \cap changed = {}
    BY <1>2, <2>2, <2>3, AboveAssumption DEF S, Under
  <2> QED  BY <1>1, <2>3, <2>4
<1> QED  BY <1>1, <1>2, <1>3

\* Nothing is written yet when every root is to be written.
LEMMA HalfStart ==
  ASSUME NEW from \in Trees, NEW to
  PROVE  Half(from, to, Roots(from, to)) = from
<1>1. \A q \in Paths : (\E s \in Roots(from, to) : q \in Under(s)) \/ from[q] = to[q]
  BY RootsFacts
<1> QED  BY <1>1 DEF Half, Trees

\* A half written tree is a tree: what is above a root is the same on both sides.
LEMMA HalfFits ==
  ASSUME NEW from, NEW to, WellFormed(from), WellFormed(to),
         NEW rest \in SUBSET Roots(from, to)
  PROVE  WellFormed(Half(from, to, rest))
<1> DEFINE half == Half(from, to, rest)
<1>1. \A s \in rest : s \in Paths /\ \A a \in Above[s] : from[a] = to[a]
  BY RootsFacts
<1> SUFFICES ASSUME NEW q \in Paths, half[q] # Absent, NEW a \in Above[q]
             PROVE  half[a] = Dir
  BY DEF WellFormed
<1>2. a \in Paths /\ Above[a] \subseteq Above[q]
  BY AboveAssumption
<1>3. CASE \E s \in rest : q \in Under(s)
  <2>1. PICK s \in rest : q \in Under(s)
    BY <1>3
  <2>2. from[a] = Dir
    BY <1>3 DEF Half, WellFormed
  <2>3. a \in Under(s) \/ a \in Above[s]
    BY <1>1, <1>2, <2>1, AboveAssumption DEF Under
  <2> QED  BY <1>1, <1>2, <2>2, <2>3 DEF Half
<1>4. CASE \A s \in rest : q \notin Under(s)
  <2>1. to[a] = Dir
    BY <1>4 DEF Half, WellFormed
  <2>2. \A s \in rest : a \notin Under(s)
    BY <1>2, <1>4 DEF Under
  <2> QED  BY <1>2, <2>1, <2>2 DEF Half
<1> QED  BY <1>3, <1>4

\* Writing one more root makes no directory above it.
LEMMA HalfStep ==
  ASSUME NEW from, NEW to, WellFormed(from), WellFormed(to),
         NEW rest \in SUBSET Roots(from, to), NEW root \in rest
  PROVE  Overlay(Half(from, to, rest), {root}, to) = Half(from, to, rest \ {root})
<1> DEFINE half == Half(from, to, rest)
<1>1. \A s \in rest : s \in Paths /\ from[s] # to[s]
                      /\ \A a \in Above[s] : a \in Paths /\ from[a] = to[a]
  BY RootsFacts
<1>2. ASSUME NEW q \in Paths
      PROVE  Overlay(half, {root}, to)[q] = Half(from, to, rest \ {root})[q]
  <2>1. CASE q \in Under(root)
    <3>1. \A s \in rest \ {root} : q \notin Under(s)
      BY <1>1, <2>1, AboveAssumption DEF Under
    <3>2. Overlay(half, {root}, to)[q] = to[q]
      BY <2>1, OverlayAt
    <3> QED  BY <3>1, <3>2 DEF Half
  <2>2. CASE q \notin Under(root)
    <3>1. half[q] # Absent \/ q \notin Above[root]
      <4>1. SUFFICES ASSUME half[q] = Absent, q \in Above[root] PROVE FALSE
        OBVIOUS
      <4>2. from[q] = Absent /\ to[q] = Absent
        BY <1>1, <4>1 DEF Half
      <4>3. from[root] = Absent /\ to[root] = Absent
        BY <1>1, <4>1, <4>2, NodeAssumption DEF WellFormed
      <4> QED  BY <1>1, <4>3
    <3>2. Overlay(half, {root}, to)[q] = half[q]
      BY <2>2, <3>1, OverlayAt
    <3> QED  BY <2>2, <3>2 DEF Half
  <2> QED  BY <2>1, <2>2
<1> QED  BY <1>2 DEF Overlay, Half

\* A landing path that can be restored leaves a tree, whatever was edited.
LEMMA LandFits ==
  ASSUME NEW t, WellFormed(t), NEW r, WellFormed(r), NEW root \in Paths, NEW from,
         \A q \in Under(root) : from[q] = r[q],
         IF from[root] = Absent THEN t[root] # Absent
         ELSE \A a \in Above[root] : t[a] \in {Absent, Dir}
  PROVE  WellFormed(Overlay(t, {root}, from))
<1> DEFINE u == Overlay(t, {root}, from)
<1>1. \A q \in Paths : u[q] = IF q \in Under(root) THEN from[q]
                              ELSE IF t[q] = Absent /\ q \in Above[root] THEN Dir ELSE t[q]
  BY DEF Overlay
<1> HIDE DEF u
<1> SUFFICES ASSUME NEW q \in Paths, u[q] # Absent, NEW a \in Above[q]
             PROVE  u[a] = Dir
  BY DEF WellFormed, u
<1>2. a \in Paths /\ Above[a] \subseteq Above[q] /\ a \notin Above[a]
  BY AboveAssumption
<1>3. CASE q \in Under(root)
  <2>1. r[q] # Absent
    BY <1>1, <1>3
  <2>2. r[a] = Dir
    BY <2>1 DEF WellFormed
  <2>3. a \in Under(root) \/ a \in Above[root]
    BY <1>2, <1>3, AboveAssumption DEF Under
  <2>4. CASE a \in Under(root)
    BY <1>1, <1>2, <2>2, <2>4
  <2>5. CASE a \in Above[root] /\ a \notin Under(root)
    <3>1. root \in Under(root)
      BY DEF Under
    <3>2. r[root] # Absent
      BY <1>3, <2>1, NodeAssumption DEF Under, WellFormed
    <3>3. t[a] \in {Absent, Dir}
      BY <2>5, <3>1, <3>2
    <3> QED  BY <1>1, <1>2, <2>5, <3>3
  <2> QED  BY <2>3, <2>4, <2>5
<1>4. CASE q \notin Under(root)
  <2>1. a \notin Under(root)
    BY <1>2, <1>4 DEF Under
  <2>2. CASE t[q] # Absent
    <3>1. t[a] = Dir
      BY <2>2 DEF WellFormed
    <3> QED  BY <1>1, <1>2, <2>1, <3>1, NodeAssumption
  <2>3. CASE t[q] = Absent
    <3>1. q \in Above[root]
      BY <1>1, <1>4, <2>3
    <3>2. a \in Above[root]
      BY <3>1, AboveAssumption
    <3>3. t[root] = Absent
      BY <2>3, <3>1, NodeAssumption DEF WellFormed
    <3>4. t[a] \in {Absent, Dir}
      BY <3>2, <3>3
    <3> QED  BY <1>1, <1>2, <2>1, <3>2, <3>4
  <2> QED  BY <2>2, <2>3
<1> QED  BY <1>3, <1>4

-----------------------------------------------------------------------------
(* Types *)

InFlight == {"head", "plan", "rebase", "queued", "land"}
HasPlan == {"plan", "rebase", "queued", "land"}

\* A promote goes by the plan of the three generations it holds.
Planned ==
  \A f \in Forks : pc[f] \in HasPlan =>
    \E ignored \in SUBSET Paths :
      plan[f] = KeepMainline(Plan(base[f], head[f], snap[f]), ignored)

TypeInv == TypeOK /\ Planned

\* The types hold at the start.
LEMMA InitTypes == Init => TypeInv
<1> SUFFICES ASSUME Init PROVE TypeInv
  OBVIOUS
<1>1. Empty \in Trees /\ NoPlan \in Plans /\ Unmarked \subseteq Trees
  BY TextNodes DEF Empty, Trees, NoPlan, Plans, Unmarked
<1>2. TypeOK
  BY <1>1, BoundsAssumption DEF Init, TypeOK, Steps
<1>3. Planned
  BY DEF Init, Planned, HasPlan
<1> QED  BY <1>2, <1>3 DEF TypeInv

\* Recording trees keeps the rows well typed.
LEMMA RecordType ==
  ASSUME recorded \in [Paths -> SUBSET Nodes], NEW trees \in SUBSET Trees, Record(trees)
  PROVE  recorded' \in [Paths -> SUBSET Nodes]
BY DEF Record, Trees

\* Every step keeps the types.
LEMMA StepTypes == TypeInv /\ [Next]_vars => TypeInv'
<1> SUFFICES ASSUME TypeInv, [Next]_vars PROVE TypeInv'
  OBVIOUS
<1> USE DEF TypeInv
<1>e. Empty \in Trees /\ NoPlan \in Plans
  BY TextNodes DEF Empty, Trees, NoPlan, Plans
<1>1. CASE Edit
  <2>1. disk' \in Trees
    BY <1>1 DEF Edit, Edited
  <2>2. TypeOK'
    BY <1>1, <2>1, BoundsAssumption DEF Edit, TypeOK, fork, flight
  <2>3. Planned'
    BY <1>1 DEF Edit, Planned, fork, flight
  <2> QED  BY <2>2, <2>3
<1>2. ASSUME NEW f \in Forks, Work(f) PROVE TypeInv'
  <2>1. dir' \in [Forks -> Trees]
    BY <1>2 DEF Work, Edited, TypeOK
  <2>2. TypeOK'
    BY <1>2, <2>1, BoundsAssumption DEF Work, TypeOK, mainline, flight
  <2>3. Planned'
    BY <1>2 DEF Work, Planned, mainline, flight
  <2> QED  BY <2>2, <2>3
<1>3. ASSUME NEW f \in Forks, Fork(f) PROVE TypeInv'
  <2>1. recorded' \in [Paths -> SUBSET Nodes]
    BY <1>3, RecordType DEF Fork, TypeOK
  <2>2. TypeOK'
    BY <1>3, <2>1 DEF Fork, TypeOK, Goto, Steps, flight, bounds
  <2>3. Planned'
    BY <1>3 DEF Fork, Planned, TypeOK, Goto, HasPlan, flight, bounds
  <2> QED  BY <2>2, <2>3
<1>4. ASSUME NEW f \in Forks, ForkDrop(f) PROVE TypeInv'
  <2>1. TypeOK'
    BY <1>4, <1>e DEF ForkDrop, Discard, TypeOK, Goto, Steps, mainline, flight, bounds
  <2>2. Planned'
    BY <1>4 DEF ForkDrop, Discard, Planned, TypeOK, Goto, HasPlan, flight
  <2> QED  BY <2>1, <2>2
<1>5. ASSUME NEW f \in Forks, Promote(f) PROVE TypeInv'
  <2>1. TypeOK'
    BY <1>5 DEF Promote, TypeOK, Goto, Steps, mainline, fork, bounds
  <2>2. Planned'
    BY <1>5 DEF Promote, Planned, TypeOK, Goto, HasPlan, fork
  <2> QED  BY <2>1, <2>2
<1>6. ASSUME NEW f \in Forks, PromoteFails(f) PROVE TypeInv'
  <2>1. TypeOK'
    BY <1>6, BoundsAssumption
    DEF PromoteFails, KeepFork, Hits, TypeOK, Goto, Steps, mainline, flight
  <2>2. Planned'
    BY <1>6 DEF PromoteFails, KeepFork, Planned, TypeOK, Goto, HasPlan, flight
  <2> QED  BY <2>1, <2>2
<1>7. ASSUME NEW f \in Forks, NEW ignored \in Ignores, PublishHead(f, ignored) PROVE TypeInv'
  <2>1. recorded' \in [Paths -> SUBSET Nodes]
    BY <1>7, RecordType DEF PublishHead, TypeOK
  <2>2. KeepMainline(Plan(base[f], disk, snap[f]), ignored) \in Plans
    BY PlanFacts DEF TypeOK
  <2>3. TypeOK'
    BY <1>7, <2>1, <2>2 DEF PublishHead, TypeOK, Goto, Steps, fork, bounds
  <2>4. ignored \in SUBSET Paths
    BY IgnoresAssumption
  <2>5. Planned'
    BY <1>7, <2>4 DEF PublishHead, Planned, TypeOK, Goto, HasPlan, fork
  <2> QED  BY <2>3, <2>5
<1>8. ASSUME NEW f \in Forks, Refuse(f) PROVE TypeInv'
  <2>1. TypeOK'
    BY <1>8, <1>e DEF Refuse, KeepFork, Over, TypeOK, Goto, Steps, mainline, bounds
  <2>2. Planned'
    BY <1>8 DEF Refuse, KeepFork, Over, Planned, TypeOK, Goto, HasPlan
  <2> QED  BY <2>1, <2>2
<1>9. ASSUME NEW f \in Forks, LandNothing(f) PROVE TypeInv'
  <2>1. TypeOK'
    BY <1>9, <1>e DEF LandNothing, Discard, Over, TypeOK, Goto, Steps, mainline, bounds
  <2>2. Planned'
    BY <1>9 DEF LandNothing, Discard, Over, Planned, TypeOK, Goto, HasPlan
  <2> QED  BY <2>1, <2>2
<1>10. ASSUME NEW f \in Forks, Fail(f) PROVE TypeInv'
  <2>1. TypeOK'
    BY <1>10, <1>e, BoundsAssumption
    DEF Fail, KeepFork, Over, Hits, TypeOK, Goto, Steps, mainline
  <2>2. Planned'
    BY <1>10 DEF Fail, KeepFork, Over, Planned, TypeOK, Goto, HasPlan
  <2> QED  BY <2>1, <2>2
<1>11. ASSUME NEW f \in Forks, BeginRebase(f) PROVE TypeInv'
  <2> DEFINE R == Rebased(base[f], head[f], snap[f], plan[f])
  <2>1. R \in Trees
    BY <1>11, Built DEF BeginRebase, Planned, HasPlan, TypeOK
  <2> HIDE DEF R
  <2>2. Roots(snap[f], R) \in SUBSET Paths
    BY DEF Roots
  <2>3. recorded' \in [Paths -> SUBSET Nodes]
    BY <1>11, <2>1, RecordType DEF BeginRebase, TypeOK, R
  <2>4. TypeOK'
    BY <1>11, <2>1, <2>2, <2>3 DEF BeginRebase, TypeOK, Goto, Steps, fork, bounds, R
  <2>5. Planned'
    BY <1>11 DEF BeginRebase, Planned, TypeOK, Goto, HasPlan, fork
  <2> QED  BY <2>4, <2>5
<1>12. ASSUME NEW f \in Forks, BeginLanding(f) PROVE TypeInv'
  <2> DEFINE M == Merged(base[f], head[f], snap[f], plan[f])
  <2>1. M \in Trees
    BY <1>12, Built DEF BeginLanding, Planned, HasPlan, TypeOK
  <2> HIDE DEF M
  <2>2. Landing(plan[f]) \in SUBSET Paths
    BY DEF Landing, TypeOK, Plans
  <2>3. recorded' \in [Paths -> SUBSET Nodes]
    BY <1>12, <2>1, RecordType DEF BeginLanding, TypeOK, M
  <2>4. TypeOK'
    BY <1>12, <2>1, <2>2, <2>3 DEF BeginLanding, TypeOK, Goto, Steps, fork, bounds, M
  <2>5. Planned'
    BY <1>12 DEF BeginLanding, Planned, TypeOK, Goto, HasPlan, fork
  <2> QED  BY <2>4, <2>5
<1>13. ASSUME NEW f \in Forks, NEW root \in Paths, RebasePath(f, root) PROVE TypeInv'
  <2>1. Overlay(dir[f], {root}, goal[f]) \in Trees
    BY OverlayType DEF TypeOK
  <2>2. TypeOK'
    BY <1>13, <2>1 DEF RebasePath, TypeOK, mainline, bounds
  <2>3. Planned'
    BY <1>13 DEF RebasePath, Planned
  <2> QED  BY <2>2, <2>3
<1>14. ASSUME NEW f \in Forks, RebaseFails(f) PROVE TypeInv'
  <2>1. TypeOK'
    BY <1>14, <1>e, BoundsAssumption
    DEF RebaseFails, KeepFork, Over, Hits, TypeOK, Goto, Steps, mainline
  <2>2. Planned'
    BY <1>14 DEF RebaseFails, KeepFork, Over, Planned, TypeOK, Goto, HasPlan
  <2> QED  BY <2>1, <2>2
<1>15. ASSUME NEW f \in Forks, KeepForkRebased(f) PROVE TypeInv'
  <2>1. TypeOK'
    BY <1>15, <1>e DEF KeepForkRebased, Over, TypeOK, Plans, Goto, Steps, mainline, bounds
  <2>2. Planned'
    BY <1>15 DEF KeepForkRebased, Over, Planned, TypeOK, Goto, HasPlan
  <2> QED  BY <2>1, <2>2
<1>16. ASSUME NEW f \in Forks, StartLanding(f) PROVE TypeInv'
  <2>1. TypeOK'
    BY <1>16 DEF StartLanding, TypeOK, Goto, Steps, mainline, fork, flight, bounds
  <2>2. Planned'
    BY <1>16 DEF StartLanding, Planned, TypeOK, Goto, HasPlan, fork, flight
  <2> QED  BY <2>1, <2>2
<1>17. ASSUME NEW f \in Forks, NEW root \in Paths, LandPath(f, root) PROVE TypeInv'
  <2>1. Overlay(disk, {root}, goal[f]) \in Trees
    BY OverlayType DEF TypeOK
  <2>2. TypeOK'
    BY <1>17, <2>1 DEF LandPath, TypeOK, fork, bounds
  <2>3. Planned'
    BY <1>17 DEF LandPath, Planned, fork
  <2> QED  BY <2>2, <2>3
<1>18. ASSUME NEW f \in Forks, MergeStopped(f) PROVE TypeInv'
  <2>1. TypeOK'
    BY <1>18, <1>e, BoundsAssumption
    DEF MergeStopped, KeepFork, Over, Hits, TypeOK, Goto, Steps, mainline
  <2>2. Planned'
    BY <1>18 DEF MergeStopped, KeepFork, Over, Planned, TypeOK, Goto, HasPlan
  <2> QED  BY <2>1, <2>2
<1>19. ASSUME NEW f \in Forks, Landed(f) PROVE TypeInv'
  <2>1. recorded' \in [Paths -> SUBSET Nodes]
    BY <1>19 DEF Landed, TypeOK, Trees
  <2>2. TypeOK'
    BY <1>19, <1>e, <2>1 DEF Landed, Discard, Over, TypeOK, Goto, Steps, bounds
  <2>3. Planned'
    BY <1>19 DEF Landed, Discard, Over, Planned, TypeOK, Goto, HasPlan
  <2> QED  BY <2>2, <2>3
<1>20. CASE UNCHANGED vars
  BY <1>20 DEF vars, mainline, fork, flight, bounds, TypeOK, Planned
<1> QED
  BY <1>1, <1>2, <1>3, <1>4, <1>5, <1>6, <1>7, <1>8, <1>9, <1>10, <1>11, <1>12,
     <1>13, <1>14, <1>15, <1>16, <1>17, <1>18, <1>19, <1>20 DEF Next, ForkStep

\* The types hold, and promotes go by their plans.
THEOREM Types == Spec => []TypeInv
<1> QED  BY InitTypes, StepTypes, PTL DEF Spec

\* Every variable of the promotes keeps its type: what a plan merges by content
\* are texts, so that what is built from it are trees.
THEOREM TypeCorrect == Spec => []TypeOK
<1>1. TypeInv => TypeOK
  BY DEF TypeInv
<1> QED  BY <1>1, Types, PTL

-----------------------------------------------------------------------------
(* Markers *)

\* Where marks may be: in the fork's workspace, as far as its conflict is open or
\* being opened, and in the generation it is rebased to.
ForkMarks(f) ==
  /\ pc[f] = "kept" => Marks(dir[f]) \subseteq conflict[f]
  /\ pc[f] \in InFlight \ {"rebase"} => Marks(dir[f]) = {}
  /\ pc[f] \in InFlight => Marks(snap[f]) = {}
  /\ pc[f] \in HasPlan => Marks(head[f]) = {}
  /\ pc[f] \in {"queued", "land"} => Marks(goal[f]) = {}
  /\ pc[f] = "rebase" => /\ Marks(goal[f]) \subseteq plan[f].conflicted
                         /\ Marks(dir[f]) \subseteq plan[f].conflicted

MarkInv == Blind \/ (Marks(disk) = {} /\ \A f \in Forks : ForkMarks(f))

\* Nobody writes markers but a promote: an edit only keeps or removes them.
LEMMA EditMarks ==
  ASSUME NEW t, NEW u \in Edited(t)
  PROVE  Marks(u) \subseteq Marks(t)
BY WrittenAssumption DEF Edited, Marks

\* There are no marks at the start.
LEMMA InitMarks == Init => MarkInv
<1> SUFFICES ASSUME Init PROVE Marks(disk) = {} /\ \A f \in Forks : ForkMarks(f)
  BY DEF MarkInv
<1>1. Marks(disk) = {}
  BY WrittenAssumption DEF Init, Unmarked, Marks
<1>2. \A f \in Forks : pc[f] = "unused"
  BY DEF Init
<1> QED  BY <1>1, <1>2 DEF ForkMarks, InFlight, HasPlan

\* A step that leaves a fork's own state alone keeps its part of the invariant.
LEMMA OtherFork ==
  ASSUME NEW g, ForkMarks(g), pc'[g] = pc[g], dir'[g] = dir[g], conflict'[g] = conflict[g],
         snap'[g] = snap[g], head'[g] = head[g], goal'[g] = goal[g], plan'[g] = plan[g]
  PROVE  ForkMarks(g)'
BY DEF ForkMarks, Marks

\* A step of f that leaves the other forks alone.
OthersKept(f) ==
  \A g \in Forks \ {f} :
    /\ pc'[g] = pc[g] /\ dir'[g] = dir[g] /\ conflict'[g] = conflict[g]
    /\ snap'[g] = snap[g] /\ head'[g] = head[g] /\ goal'[g] = goal[g] /\ plan'[g] = plan[g]

\* Every step keeps the marks where they may be, or is blind.
LEMMA StepMarks == TypeInv /\ MarkInv /\ [Next]_vars => MarkInv'
<1> SUFFICES ASSUME TypeInv, MarkInv, [Next]_vars, ~ Blind'
             PROVE  Marks(disk') = {} /\ \A f \in Forks : ForkMarks(f)'
  BY DEF MarkInv, Marks
<1> USE DEF TypeInv
<1>s. struck \subseteq struck'
  BY ZenonT(40) DEF Next, ForkStep, Edit, Work, Fork, ForkDrop, Promote, PromoteFails, PublishHead,
         Refuse, LandNothing, Fail, BeginRebase, BeginLanding, RebasePath, RebaseFails,
         KeepForkRebased, StartLanding, LandPath, MergeStopped, Landed, Hits, bounds, vars
<1>b. Marks(disk) = {} /\ \A f \in Forks : ForkMarks(f)
  BY <1>s DEF MarkInv, Blind
<1>f. ASSUME NEW f \in Forks, OthersKept(f), ForkMarks(f)'
      PROVE  \A g \in Forks : ForkMarks(g)'
  <2> TAKE g \in Forks
  <2>1. CASE g = f
    BY <1>f, <2>1
  <2>2. CASE g # f
    <3>1. ForkMarks(g)
      BY <1>b
    <3> QED  BY <1>f, <2>2, <3>1, OtherFork DEF OthersKept
  <2> QED  BY <2>1, <2>2
<1>d. disk' = disk => Marks(disk') = {}
  BY <1>b
<1>1. CASE Edit
  <2>1. Marks(disk') = {}
    BY <1>1, <1>b, EditMarks DEF Edit
  <2>2. \A g \in Forks : ForkMarks(g)'
    BY <1>1, <1>b, OtherFork DEF Edit, fork, flight
  <2> QED  BY <2>1, <2>2
<1>2. ASSUME NEW f \in Forks, Work(f) PROVE Marks(disk') = {} /\ \A g \in Forks : ForkMarks(g)'
  <2>1. PICK u \in Edited(dir[f]) : dir' = [dir EXCEPT ![f] = u]
    BY <1>2 DEF Work
  <2>2. Marks(dir'[f]) \subseteq Marks(dir[f])
    BY <2>1, EditMarks DEF TypeOK
  <2>3. ForkMarks(f)'
    BY <1>2, <1>b, <2>2 DEF Work, ForkMarks, InFlight, HasPlan
  <2>4. OthersKept(f)
    BY <1>2, <2>1 DEF Work, OthersKept, TypeOK, flight
  <2> QED  BY <1>2, <1>f, <1>d, <2>3, <2>4 DEF Work, mainline
<1>3. ASSUME NEW f \in Forks, Fork(f) PROVE Marks(disk') = {} /\ \A g \in Forks : ForkMarks(g)'
  <2>1. pc'[f] = "kept" /\ dir'[f] = disk
    BY <1>3 DEF Fork, Goto, TypeOK
  <2>2. ForkMarks(f)'
    BY <1>b, <2>1 DEF ForkMarks, InFlight, HasPlan
  <2>3. OthersKept(f)
    BY <1>3 DEF Fork, Goto, OthersKept, TypeOK, flight
  <2> QED  BY <1>3, <1>f, <1>d, <2>2, <2>3 DEF Fork
<1>4. ASSUME NEW f \in Forks, ForkDrop(f)
      PROVE  Marks(disk') = {} /\ \A g \in Forks : ForkMarks(g)'
  <2>1. ForkMarks(f)'
    BY <1>4 DEF ForkDrop, Discard, Goto, TypeOK, ForkMarks, InFlight, HasPlan
  <2>2. OthersKept(f)
    BY <1>4 DEF ForkDrop, Discard, Goto, OthersKept, TypeOK, flight
  <2> QED  BY <1>4, <1>f, <1>d, <2>1, <2>2 DEF ForkDrop, mainline
<1>5. ASSUME NEW f \in Forks, Promote(f)
      PROVE  Marks(disk') = {} /\ \A g \in Forks : ForkMarks(g)'
  <2>1. Marks(dir[f]) = {}
    BY <1>5, <1>b DEF Promote, ForkMarks, MarkersLeft, Marks
  <2>2. pc'[f] = "head" /\ dir'[f] = dir[f] /\ snap'[f] = dir[f]
    BY <1>5 DEF Promote, Goto, TypeOK, fork
  <2>3. ForkMarks(f)'
    BY <2>1, <2>2 DEF ForkMarks, InFlight, HasPlan
  <2>4. OthersKept(f)
    BY <1>5 DEF Promote, Goto, OthersKept, TypeOK, fork
  <2> QED  BY <1>5, <1>f, <1>d, <2>3, <2>4 DEF Promote, mainline
<1>6. ASSUME NEW f \in Forks, PromoteFails(f) \/ RebaseFails(f) PROVE FALSE
  BY <1>6 DEF PromoteFails, RebaseFails, Hits, Blind
<1>7. ASSUME NEW f \in Forks, NEW ignored \in Ignores, PublishHead(f, ignored)
      PROVE  Marks(disk') = {} /\ \A g \in Forks : ForkMarks(g)'
  <2>1. /\ pc[f] = "head" /\ pc'[f] = "plan" /\ dir'[f] = dir[f] /\ snap'[f] = snap[f]
        /\ head'[f] = disk
    BY <1>7 DEF PublishHead, Goto, TypeOK, fork
  <2>2. ForkMarks(f)'
    BY <1>b, <2>1 DEF ForkMarks, InFlight, HasPlan
  <2>3. OthersKept(f)
    BY <1>7 DEF PublishHead, Goto, OthersKept, TypeOK, fork
  <2> QED  BY <1>7, <1>f, <1>d, <2>2, <2>3 DEF PublishHead
<1>8. ASSUME NEW f \in Forks, Refuse(f) \/ Fail(f) \/ MergeStopped(f)
      PROVE  Marks(disk') = {} /\ \A g \in Forks : ForkMarks(g)'
  <2>1. /\ pc[f] \in InFlight \ {"rebase"} /\ KeepFork(f) /\ Over(f) /\ disk' = disk
    BY <1>8 DEF Refuse, Fail, MergeStopped, InFlight, mainline
  <2>2. pc'[f] = "kept" /\ dir'[f] = dir[f] /\ conflict'[f] = {}
    BY <2>1 DEF KeepFork, Goto, TypeOK
  <2>3. ForkMarks(f)'
    BY <1>b, <2>1, <2>2 DEF ForkMarks, InFlight, HasPlan
  <2>4. OthersKept(f)
    BY <2>1 DEF KeepFork, Over, Goto, OthersKept, TypeOK
  <2> QED  BY <1>f, <1>d, <2>1, <2>3, <2>4
<1>9. ASSUME NEW f \in Forks, LandNothing(f) \/ Landed(f)
      PROVE  Marks(disk') = {} /\ \A g \in Forks : ForkMarks(g)'
  <2>1. Discard(f) /\ Over(f) /\ disk' = disk
    BY <1>9 DEF LandNothing, Landed, mainline
  <2>2. pc'[f] = "gone"
    BY <2>1 DEF Discard, Goto, TypeOK
  <2>3. ForkMarks(f)'
    BY <2>2 DEF ForkMarks, InFlight, HasPlan
  <2>4. OthersKept(f)
    BY <2>1 DEF Discard, Over, Goto, OthersKept, TypeOK
  <2> QED  BY <1>f, <1>d, <2>1, <2>3, <2>4
<1>10. ASSUME NEW f \in Forks, BeginRebase(f)
       PROVE  Marks(disk') = {} /\ \A g \in Forks : ForkMarks(g)'
  <2>1. Marks(Rebased(base[f], head[f], snap[f], plan[f])) \subseteq plan[f].conflicted
    <3>1. pc[f] = "plan"
      BY <1>10 DEF BeginRebase
    <3>2. PICK ignored \in SUBSET Paths :
            plan[f] = KeepMainline(Plan(base[f], head[f], snap[f]), ignored)
      BY <3>1 DEF Planned, HasPlan
    <3>3. Marks(head[f]) = {} /\ Marks(snap[f]) = {}
      BY <1>b, <3>1 DEF ForkMarks, InFlight, HasPlan
    <3>4. base[f] \in Trees /\ head[f] \in Trees /\ snap[f] \in Trees
      BY DEF TypeOK
    <3> QED  BY <3>2, <3>3, <3>4, Built
  <2>2. /\ pc[f] = "plan" /\ pc'[f] = "rebase" /\ dir'[f] = dir[f] /\ snap'[f] = snap[f]
        /\ head'[f] = head[f] /\ plan'[f] = plan[f]
        /\ goal'[f] = Rebased(base[f], head[f], snap[f], plan[f])
    BY <1>10 DEF BeginRebase, Goto, TypeOK, fork
  <2>3. ForkMarks(f)'
    BY <1>b, <2>1, <2>2 DEF ForkMarks, InFlight, HasPlan
  <2>4. OthersKept(f)
    BY <1>10 DEF BeginRebase, Goto, OthersKept, TypeOK, fork
  <2> QED  BY <1>10, <1>f, <1>d, <2>3, <2>4 DEF BeginRebase
<1>11. ASSUME NEW f \in Forks, BeginLanding(f)
       PROVE  Marks(disk') = {} /\ \A g \in Forks : ForkMarks(g)'
  <2>1. Marks(Merged(base[f], head[f], snap[f], plan[f])) = {}
    <3>1. pc[f] = "plan"
      BY <1>11 DEF BeginLanding
    <3>2. PICK ignored \in SUBSET Paths :
            plan[f] = KeepMainline(Plan(base[f], head[f], snap[f]), ignored)
      BY <3>1 DEF Planned, HasPlan
    <3>3. Marks(head[f]) = {} /\ Marks(snap[f]) = {}
      BY <1>b, <3>1 DEF ForkMarks, InFlight, HasPlan
    <3>4. base[f] \in Trees /\ head[f] \in Trees /\ snap[f] \in Trees
      BY DEF TypeOK
    <3> QED  BY <3>2, <3>3, <3>4, Built
  <2>2. /\ pc[f] = "plan" /\ pc'[f] = "queued" /\ dir'[f] = dir[f] /\ snap'[f] = snap[f]
        /\ head'[f] = head[f] /\ plan'[f] = plan[f]
        /\ goal'[f] = Merged(base[f], head[f], snap[f], plan[f])
    BY <1>11 DEF BeginLanding, Goto, TypeOK, fork
  <2>3. ForkMarks(f)'
    BY <1>b, <2>1, <2>2 DEF ForkMarks, InFlight, HasPlan
  <2>4. OthersKept(f)
    BY <1>11 DEF BeginLanding, Goto, OthersKept, TypeOK, fork
  <2> QED  BY <1>11, <1>f, <1>d, <2>3, <2>4 DEF BeginLanding
<1>12. ASSUME NEW f \in Forks, NEW root \in Paths, RebasePath(f, root)
       PROVE  Marks(disk') = {} /\ \A g \in Forks : ForkMarks(g)'
  <2>1. Marks(Overlay(dir[f], {root}, goal[f])) \subseteq plan[f].conflicted
    BY <1>12, <1>b, OverlayMarks DEF RebasePath, ForkMarks
  <2>2. /\ pc[f] = "rebase" /\ pc' = pc /\ dir'[f] = Overlay(dir[f], {root}, goal[f])
        /\ conflict' = conflict /\ snap' = snap /\ head' = head /\ goal' = goal /\ plan' = plan
    BY <1>12 DEF RebasePath, TypeOK
  <2>3. ForkMarks(f)'
    BY <1>b, <2>1, <2>2 DEF ForkMarks, InFlight, HasPlan
  <2>4. OthersKept(f)
    BY <1>12 DEF RebasePath, OthersKept, TypeOK
  <2> QED  BY <1>12, <1>f, <1>d, <2>3, <2>4 DEF RebasePath, mainline
<1>13. ASSUME NEW f \in Forks, KeepForkRebased(f)
       PROVE  Marks(disk') = {} /\ \A g \in Forks : ForkMarks(g)'
  <2>1. /\ pc[f] = "rebase" /\ pc'[f] = "kept" /\ dir'[f] = dir[f]
        /\ conflict'[f] = plan[f].conflicted
    BY <1>13 DEF KeepForkRebased, Goto, TypeOK
  <2>2. ForkMarks(f)'
    BY <1>b, <2>1 DEF ForkMarks, InFlight, HasPlan
  <2>3. OthersKept(f)
    BY <1>13 DEF KeepForkRebased, Over, Goto, OthersKept, TypeOK
  <2> QED  BY <1>13, <1>f, <1>d, <2>2, <2>3 DEF KeepForkRebased, mainline
<1>14. ASSUME NEW f \in Forks, StartLanding(f)
       PROVE  Marks(disk') = {} /\ \A g \in Forks : ForkMarks(g)'
  <2>1. /\ pc[f] = "queued" /\ pc'[f] = "land" /\ dir' = dir /\ snap' = snap /\ head' = head
        /\ goal' = goal
    BY <1>14 DEF StartLanding, Goto, TypeOK, fork, flight
  <2>2. ForkMarks(f)'
    BY <1>b, <2>1 DEF ForkMarks, InFlight, HasPlan
  <2>3. OthersKept(f)
    BY <1>14 DEF StartLanding, Goto, OthersKept, TypeOK, fork, flight
  <2> QED  BY <1>14, <1>f, <1>d, <2>2, <2>3 DEF StartLanding, mainline
<1>15. ASSUME NEW f \in Forks, NEW root \in Paths, LandPath(f, root)
       PROVE  Marks(disk') = {} /\ \A g \in Forks : ForkMarks(g)'
  <2>1. Marks(disk') = {}
    BY <1>15, <1>b, OverlayMarks DEF LandPath, ForkMarks
  <2>2. \A g \in Forks : ForkMarks(g)'
    BY <1>15, <1>b, OtherFork DEF LandPath, fork
  <2> QED  BY <2>1, <2>2
<1>16. CASE UNCHANGED vars
  BY <1>16, <1>b, OtherFork DEF vars, mainline, fork, flight
<1> QED
  BY <1>1, <1>2, <1>3, <1>4, <1>5, <1>6, <1>7, <1>8, <1>9, <1>10, <1>11, <1>12,
     <1>13, <1>14, <1>15, <1>16 DEF Next, ForkStep

\* Hence they always are.
LEMMA MarkInvHolds == Spec => []MarkInv
<1> QED  BY InitMarks, StepMarks, Types, PTL DEF Spec

\* Unless a promote was blind, no conflict block gets into the working tree.
THEOREM MarkersOut == Spec => []MarkersStayOut
<1>1. MarkInv => MarkersStayOut
  BY DEF MarkInv, MarkersStayOut, Marks
<1> QED  BY <1>1, MarkInvHolds, PTL

\* Unless a promote was blind, what is left of a conflict is open.
THEOREM MarksOpen == Spec => []MarksAreOpen
<1>1. MarkInv => MarksAreOpen
  BY DEF MarkInv, MarksAreOpen, ForkMarks, Marks
<1> QED  BY <1>1, MarkInvHolds, PTL

-----------------------------------------------------------------------------
(* Merges *)

\* The generation a promote restores from follows from its plan, its workspace is
\* the snapshot until it is rebased, and everything is a tree.
ForkFits(f) ==
  /\ WellFormed(dir[f]) /\ WellFormed(base[f]) /\ WellFormed(snap[f]) /\ WellFormed(head[f])
  /\ pc[f] \in {"head", "plan"} => dir[f] = snap[f]
  /\ pc[f] \in {"rebase", "queued", "land"} => plan[f].refused = {}
  /\ pc[f] = "rebase" =>
       /\ plan[f].conflicted # {}
       /\ goal[f] = Rebased(base[f], head[f], snap[f], plan[f])
       /\ todo[f] \subseteq Roots(snap[f], goal[f])
       /\ dir[f] = Half(snap[f], goal[f], todo[f])
  /\ pc[f] \in {"queued", "land"} =>
       /\ plan[f].conflicted = {}
       /\ goal[f] = Merged(base[f], head[f], snap[f], plan[f])
       /\ todo[f] \subseteq Landing(plan[f])

FitInv == WellFormed(disk) /\ \A f \in Forks : ForkFits(f)

\* Everything is a tree at the start.
LEMMA InitFits == Init => FitInv
<1> SUFFICES ASSUME Init PROVE FitInv
  OBVIOUS
<1>1. WellFormed(Empty)
  BY DEF WellFormed, Empty
<1>2. WellFormed(disk) /\ \A f \in Forks : pc[f] = "unused"
  BY DEF Init, Unmarked
<1> QED  BY <1>1, <1>2 DEF Init, FitInv, ForkFits

\* What a promote in flight makes of its three generations is the outcome of a
\* merge that was not refused.
LEMMA ResultIsOutcome ==
  ASSUME TypeInv, FitInv, NEW f \in Forks, pc[f] \in {"rebase", "queued", "land"}
  PROVE  /\ Result(f) = Outcome(base[f], head[f], snap[f], plan[f])
         /\ IsMerge(base[f], head[f], snap[f], plan[f].kept, Result(f))
<1>1. ForkFits(f) /\ base[f] \in Trees /\ head[f] \in Trees /\ snap[f] \in Trees
  BY DEF FitInv, TypeInv, TypeOK
<1>2. Result(f) = Outcome(base[f], head[f], snap[f], plan[f])
  BY <1>1 DEF Result, Outcome, Rebased, ForkFits
<1>3. PICK ignored \in SUBSET Paths :
        plan[f] = KeepMainline(Plan(base[f], head[f], snap[f]), ignored)
  BY DEF TypeInv, Planned, HasPlan
<1> QED  BY <1>1, <1>2, <1>3, MergeCorrect DEF ForkFits

\* A step that leaves a fork's trees alone keeps them trees.
LEMMA OtherFits ==
  ASSUME NEW g, ForkFits(g), pc'[g] = pc[g], dir'[g] = dir[g], base'[g] = base[g],
         snap'[g] = snap[g], head'[g] = head[g], goal'[g] = goal[g], plan'[g] = plan[g],
         todo'[g] = todo[g]
  PROVE  ForkFits(g)'
BY DEF ForkFits, WellFormed

\* A step of f that leaves the trees of the other forks alone.
OthersFit(f) ==
  \A g \in Forks \ {f} :
    /\ pc'[g] = pc[g] /\ dir'[g] = dir[g] /\ base'[g] = base[g] /\ todo'[g] = todo[g]
    /\ snap'[g] = snap[g] /\ head'[g] = head[g] /\ goal'[g] = goal[g] /\ plan'[g] = plan[g]

\* Every step keeps everything a tree, half written forks and edited landings too.
LEMMA StepFits == TypeInv /\ FitInv /\ [Next]_vars => FitInv'
<1> SUFFICES ASSUME TypeInv, FitInv, [Next]_vars PROVE FitInv'
  OBVIOUS
<1> USE DEF TypeInv
<1>b. WellFormed(disk) /\ \A f \in Forks : ForkFits(f)
  BY DEF FitInv
<1>e. WellFormed(Empty)
  BY DEF WellFormed, Empty
<1>f. ASSUME NEW f \in Forks, OthersFit(f), ForkFits(f)', WellFormed(disk)' PROVE FitInv'
  <2>1. ASSUME NEW g \in Forks PROVE ForkFits(g)'
    <3>1. CASE g = f
      BY <1>f, <3>1
    <3>2. CASE g # f
      BY <1>b, <1>f, <3>2, OtherFits DEF OthersFit
    <3> QED  BY <3>1, <3>2
  <2> QED  BY <1>f, <2>1 DEF FitInv
<1>d. disk' = disk => WellFormed(disk)'
  BY <1>b DEF WellFormed
<1>1. CASE Edit
  <2>1. WellFormed(disk)'
    BY <1>1 DEF Edit, Edited, WellFormed
  <2>2. \A g \in Forks : ForkFits(g)'
    BY <1>1, <1>b, OtherFits DEF Edit, fork, flight
  <2> QED  BY <2>1, <2>2 DEF FitInv
<1>2. ASSUME NEW f \in Forks, Work(f) PROVE FitInv'
  <2>1. PICK u \in Edited(dir[f]) : dir' = [dir EXCEPT ![f] = u]
    BY <1>2 DEF Work
  <2>2. pc'[f] = "kept" /\ dir'[f] = u /\ WellFormed(u)
    BY <1>2, <2>1 DEF Work, Edited, TypeOK
  <2>3. ForkFits(f)'
    BY <1>2, <1>b, <2>2 DEF Work, ForkFits, flight, WellFormed
  <2>4. OthersFit(f)
    BY <1>2, <2>1 DEF Work, OthersFit, TypeOK, flight
  <2> QED  BY <1>2, <1>f, <1>d, <2>3, <2>4 DEF Work, mainline
<1>3. ASSUME NEW f \in Forks, Fork(f) PROVE FitInv'
  <2>1. pc'[f] = "kept" /\ dir'[f] = disk /\ base'[f] = disk
    BY <1>3 DEF Fork, Goto, TypeOK
  <2>2. ForkFits(f)'
    BY <1>3, <1>b, <2>1 DEF Fork, ForkFits, flight, WellFormed
  <2>3. OthersFit(f)
    BY <1>3 DEF Fork, Goto, OthersFit, TypeOK, flight
  <2> QED  BY <1>3, <1>f, <1>d, <2>2, <2>3 DEF Fork
<1>4. ASSUME NEW f \in Forks, ForkDrop(f) PROVE FitInv'
  <2>1. pc'[f] = "gone" /\ dir'[f] = Empty /\ base'[f] = Empty
    BY <1>4 DEF ForkDrop, Discard, Goto, TypeOK
  <2>2. ForkFits(f)'
    BY <1>4, <1>b, <1>e, <2>1 DEF ForkDrop, ForkFits, flight, WellFormed
  <2>3. OthersFit(f)
    BY <1>4 DEF ForkDrop, Discard, Goto, OthersFit, TypeOK, flight
  <2> QED  BY <1>4, <1>f, <1>d, <2>2, <2>3 DEF ForkDrop, mainline
<1>5. ASSUME NEW f \in Forks, Promote(f) PROVE FitInv'
  <2>1. /\ pc'[f] = "head" /\ dir'[f] = dir[f] /\ base'[f] = base[f] /\ snap'[f] = dir[f]
        /\ head'[f] = head[f]
    BY <1>5 DEF Promote, Goto, TypeOK, fork
  <2>2. ForkFits(f)'
    BY <1>b, <2>1 DEF ForkFits, WellFormed
  <2>3. OthersFit(f)
    BY <1>5 DEF Promote, Goto, OthersFit, TypeOK, fork
  <2> QED  BY <1>5, <1>f, <1>d, <2>2, <2>3 DEF Promote, mainline
<1>6. ASSUME NEW f \in Forks, PromoteFails(f) PROVE FitInv'
  <2>1. pc'[f] = "kept" /\ dir' = dir /\ base' = base
    BY <1>6 DEF PromoteFails, KeepFork, Goto, TypeOK
  <2>2. ForkFits(f)'
    BY <1>6, <1>b, <2>1 DEF PromoteFails, ForkFits, flight, WellFormed
  <2>3. OthersFit(f)
    BY <1>6 DEF PromoteFails, KeepFork, Goto, OthersFit, TypeOK, flight
  <2> QED  BY <1>6, <1>f, <1>d, <2>2, <2>3 DEF PromoteFails, mainline
<1>7. ASSUME NEW f \in Forks, NEW ignored \in Ignores, PublishHead(f, ignored) PROVE FitInv'
  <2>1. /\ pc[f] = "head" /\ pc'[f] = "plan" /\ dir'[f] = dir[f] /\ base'[f] = base[f]
        /\ snap'[f] = snap[f] /\ head'[f] = disk
    BY <1>7 DEF PublishHead, Goto, TypeOK, fork
  <2>2. ForkFits(f)'
    BY <1>b, <2>1 DEF ForkFits, WellFormed
  <2>3. OthersFit(f)
    BY <1>7 DEF PublishHead, Goto, OthersFit, TypeOK, fork
  <2> QED  BY <1>7, <1>f, <1>d, <2>2, <2>3 DEF PublishHead
<1>8. ASSUME NEW f \in Forks, Refuse(f) \/ Fail(f) \/ RebaseFails(f) \/ MergeStopped(f)
      PROVE  FitInv'
  <2>1. KeepFork(f) /\ Over(f) /\ disk' = disk
    BY <1>8 DEF Refuse, Fail, RebaseFails, MergeStopped, mainline
  <2>2. /\ pc'[f] = "kept" /\ dir'[f] = dir[f] /\ base'[f] = base[f]
        /\ snap'[f] = Empty /\ head'[f] = Empty
    BY <2>1 DEF KeepFork, Over, Goto, TypeOK
  <2>3. ForkFits(f)'
    BY <1>b, <1>e, <2>2 DEF ForkFits, WellFormed
  <2>4. OthersFit(f)
    BY <2>1 DEF KeepFork, Over, Goto, OthersFit, TypeOK
  <2> QED  BY <1>f, <1>d, <2>1, <2>3, <2>4
<1>9. ASSUME NEW f \in Forks, LandNothing(f) \/ Landed(f) PROVE FitInv'
  <2>1. Discard(f) /\ Over(f) /\ disk' = disk
    BY <1>9 DEF LandNothing, Landed, mainline
  <2>2. /\ pc'[f] = "gone" /\ dir'[f] = Empty /\ base'[f] = Empty
        /\ snap'[f] = Empty /\ head'[f] = Empty
    BY <2>1 DEF Discard, Over, Goto, TypeOK
  <2>3. ForkFits(f)'
    BY <1>e, <2>2 DEF ForkFits, WellFormed
  <2>4. OthersFit(f)
    BY <2>1 DEF Discard, Over, Goto, OthersFit, TypeOK
  <2> QED  BY <1>f, <1>d, <2>1, <2>3, <2>4
<1>10. ASSUME NEW f \in Forks, BeginRebase(f) PROVE FitInv'
  <2> DEFINE R == Rebased(base[f], head[f], snap[f], plan[f])
  <2>1. /\ pc[f] = "plan" /\ plan[f].refused = {} /\ plan[f].conflicted # {}
        /\ dir[f] = snap[f] /\ snap[f] \in Trees
    BY <1>10, <1>b DEF BeginRebase, Refused, ForkFits, TypeOK
  <2>2. /\ pc'[f] = "rebase" /\ dir'[f] = dir[f] /\ base'[f] = base[f] /\ snap'[f] = snap[f]
        /\ head'[f] = head[f] /\ plan'[f] = plan[f] /\ goal'[f] = R
        /\ todo'[f] = Roots(snap[f], R)
    BY <1>10 DEF BeginRebase, Goto, TypeOK, fork
  <2> HIDE DEF R
  <2>3. dir'[f] = Half(snap'[f], goal'[f], todo'[f])
    BY <2>1, <2>2, HalfStart
  <2>4. ForkFits(f)'
    BY <1>b, <2>1, <2>2, <2>3 DEF ForkFits, WellFormed, R
  <2>5. OthersFit(f)
    BY <1>10 DEF BeginRebase, Goto, OthersFit, TypeOK, fork
  <2> QED  BY <1>10, <1>f, <1>d, <2>4, <2>5 DEF BeginRebase
<1>11. ASSUME NEW f \in Forks, BeginLanding(f) PROVE FitInv'
  <2>1. /\ pc[f] = "plan" /\ plan[f].refused = {} /\ plan[f].conflicted = {}
    BY <1>11 DEF BeginLanding, Refused
  <2>2. /\ pc'[f] = "queued" /\ dir'[f] = dir[f] /\ base'[f] = base[f] /\ snap'[f] = snap[f]
        /\ head'[f] = head[f] /\ plan'[f] = plan[f]
        /\ goal'[f] = Merged(base[f], head[f], snap[f], plan[f])
        /\ todo'[f] = Landing(plan[f])
    BY <1>11 DEF BeginLanding, Goto, TypeOK, fork
  <2>3. ForkFits(f)'
    BY <1>b, <2>1, <2>2 DEF ForkFits, WellFormed
  <2>4. OthersFit(f)
    BY <1>11 DEF BeginLanding, Goto, OthersFit, TypeOK, fork
  <2> QED  BY <1>11, <1>f, <1>d, <2>3, <2>4 DEF BeginLanding
<1>12. ASSUME NEW f \in Forks, NEW root \in Paths, RebasePath(f, root) PROVE FitInv'
  <2>1. /\ pc[f] = "rebase" /\ root \in todo[f]
        /\ todo[f] \subseteq Roots(snap[f], goal[f])
        /\ dir[f] = Half(snap[f], goal[f], todo[f])
    BY <1>12, <1>b DEF RebasePath, ForkFits
  <2>2. WellFormed(snap[f]) /\ WellFormed(goal[f])
    <3>1. Result(f) = goal[f] /\ WellFormed(Result(f))
      BY <2>1, ResultIsOutcome DEF Result, IsMerge
    <3> QED  BY <1>b, <3>1 DEF ForkFits
  <2>3. /\ pc' = pc /\ base' = base /\ snap' = snap /\ head' = head /\ goal' = goal
        /\ plan' = plan /\ todo'[f] = todo[f] \ {root}
        /\ dir'[f] = Overlay(dir[f], {root}, goal[f])
    BY <1>12 DEF RebasePath, TypeOK
  <2>4. dir'[f] = Half(snap[f], goal[f], todo'[f])
    BY <2>1, <2>2, <2>3, HalfStep
  <2>5. WellFormed(dir'[f])
    BY <2>1, <2>2, <2>3, <2>4, HalfFits
  <2>6. ForkFits(f)'
    <3>1. /\ plan[f].refused = {} /\ plan[f].conflicted # {}
          /\ goal[f] = Rebased(base[f], head[f], snap[f], plan[f])
          /\ WellFormed(base[f]) /\ WellFormed(snap[f]) /\ WellFormed(head[f])
      BY <1>b, <2>1 DEF ForkFits
    <3>2. todo'[f] \subseteq Roots(snap[f], goal[f])
      BY <2>1, <2>3
    <3> QED  BY <2>1, <2>3, <2>4, <2>5, <3>1, <3>2 DEF ForkFits
  <2>7. OthersFit(f)
    BY <1>12 DEF RebasePath, OthersFit, TypeOK
  <2> QED  BY <1>12, <1>f, <1>d, <2>6, <2>7 DEF RebasePath, mainline
<1>13. ASSUME NEW f \in Forks, KeepForkRebased(f) PROVE FitInv'
  <2>1. /\ pc'[f] = "kept" /\ dir'[f] = dir[f] /\ base'[f] = head[f]
        /\ snap'[f] = Empty /\ head'[f] = Empty
    BY <1>13 DEF KeepForkRebased, Over, Goto, TypeOK
  <2>2. ForkFits(f)'
    BY <1>b, <1>e, <2>1 DEF ForkFits, WellFormed
  <2>3. OthersFit(f)
    BY <1>13 DEF KeepForkRebased, Over, Goto, OthersFit, TypeOK
  <2> QED  BY <1>13, <1>f, <1>d, <2>2, <2>3 DEF KeepForkRebased, mainline
<1>14. ASSUME NEW f \in Forks, StartLanding(f) PROVE FitInv'
  <2>1. /\ pc[f] = "queued" /\ pc'[f] = "land" /\ dir' = dir /\ base' = base /\ snap' = snap
        /\ head' = head /\ goal' = goal /\ todo' = todo /\ plan' = plan
    BY <1>14 DEF StartLanding, Goto, TypeOK, fork, flight
  <2>2. ForkFits(f)'
    BY <1>b, <2>1 DEF ForkFits, WellFormed
  <2>3. OthersFit(f)
    BY <1>14 DEF StartLanding, Goto, OthersFit, TypeOK, fork, flight
  <2> QED  BY <1>14, <1>f, <1>d, <2>2, <2>3 DEF StartLanding, mainline
<1>15. ASSUME NEW f \in Forks, NEW root \in Paths, LandPath(f, root) PROVE FitInv'
  <2> DEFINE r == Outcome(base[f], head[f], snap[f], plan[f])
  <2>1. /\ pc[f] = "land" /\ root \in Landing(plan[f]) /\ plan[f].conflicted = {}
        /\ goal[f] = Merged(base[f], head[f], snap[f], plan[f])
    BY <1>15, <1>b DEF LandPath, ForkFits
  <2>2. WellFormed(r)
    BY <2>1, ResultIsOutcome DEF IsMerge
  <2>3. \A q \in Under(root) : goal[f][q] = r[q]
    BY <2>1 DEF Outcome, Overlay, Under
  <2> HIDE DEF r
  <2>4. WellFormed(disk)'
    <3>1. WellFormed(Overlay(disk, {root}, goal[f]))
      BY <1>15, <1>b, <2>2, <2>3, LandFits DEF LandPath, CanRestore
    <3> QED  BY <1>15, <3>1 DEF LandPath, WellFormed
  <2>5. /\ pc' = pc /\ dir' = dir /\ base' = base /\ snap' = snap /\ head' = head
        /\ goal' = goal /\ plan' = plan /\ todo'[f] = todo[f] \ {root}
    BY <1>15 DEF LandPath, fork, TypeOK
  <2>6. ForkFits(f)'
    BY <1>b, <2>1, <2>5 DEF ForkFits, WellFormed
  <2>7. OthersFit(f)
    BY <1>15 DEF LandPath, OthersFit, fork, TypeOK
  <2> QED  BY <1>f, <2>4, <2>6, <2>7
<1>16. CASE UNCHANGED vars
  BY <1>16, <1>b, <1>d, OtherFits DEF FitInv, vars, mainline, fork, flight
<1> QED
  BY <1>1, <1>2, <1>3, <1>4, <1>5, <1>6, <1>7, <1>8, <1>9, <1>10, <1>11, <1>12,
     <1>13, <1>14, <1>15, <1>16 DEF Next, ForkStep

\* Every merge that lands, and every one that a fork is rebased to, is a merge by
\* the laws: for any trees, edits and ignore rules, and however promotes interleave.
THEOREM ThreeWay == Spec => []MergeIsThreeWay
<1>1. TypeInv /\ FitInv => MergeIsThreeWay
  BY ResultIsOutcome DEF MergeIsThreeWay
<1> QED  BY <1>1, InitFits, StepFits, Types, PTL DEF Spec
-----------------------------------------------------------------------------
(* Forks that are consumed *)

\* The head of a promote is on record from when it was captured, what it lands from
\* when the landing began, and what it leaves to the mainline is ignored.
OnRecord(f) ==
  /\ pc[f] \in HasPlan =>
       /\ \A p \in Paths : head[f][p] \in recorded[p]
       /\ plan[f].kept \subseteq UNION Ignores
  /\ pc[f] \in {"queued", "land"} => \A p \in Paths : goal[f][p] \in recorded[p]

RecordInv == \A f \in Forks : OnRecord(f)

\* No row is taken back.
LEMMA RecordedGrows ==
  ASSUME TypeInv, [Next]_vars
  PROVE  \A p \in Paths : recorded[p] \subseteq recorded'[p]
<1>0. recorded \in [Paths -> SUBSET Nodes]
  BY DEF TypeInv, TypeOK
<1>1. ASSUME NEW trees, Record(trees)
      PROVE  \A p \in Paths : recorded[p] \subseteq recorded'[p]
  BY <1>1 DEF Record
<1>2. ASSUME NEW f \in Forks, Landed(f)
      PROVE  \A p \in Paths : recorded[p] \subseteq recorded'[p]
  BY <1>2 DEF Landed
<1>3. CASE UNCHANGED recorded
  BY <1>3
<1>. QED
  BY <1>1, <1>2, <1>3
     DEF Next, ForkStep, Edit, Work, Fork, ForkDrop, Promote, PromoteFails, PublishHead, Refuse, LandNothing,
         Fail, BeginRebase, BeginLanding, RebasePath, RebaseFails, KeepForkRebased, StartLanding, LandPath,
         MergeStopped, mainline, vars

\* What is on record stays there, as long as the promote is about the same generations.
LEMMA StillOnRecord ==
  ASSUME TypeInv, [Next]_vars, NEW g \in Forks, OnRecord(g),
         head'[g] = head[g], goal'[g] = goal[g], plan'[g] = plan[g],
         pc'[g] \in HasPlan => pc[g] \in HasPlan,
         pc'[g] \in {"queued", "land"} => pc[g] \in {"queued", "land"}
  PROVE  OnRecord(g)'
<1>1. \A p \in Paths : recorded[p] \subseteq recorded'[p]
  BY RecordedGrows
<1>. QED
  BY <1>1 DEF OnRecord

LEMMA StepRecord == TypeInv /\ RecordInv /\ [Next]_vars => RecordInv'
<1> SUFFICES ASSUME TypeInv, RecordInv, [Next]_vars, NEW g \in Forks
             PROVE  OnRecord(g)'
  BY DEF RecordInv
<1>0. OnRecord(g) /\ TypeOK
  BY DEF RecordInv, TypeInv
<1>1. ASSUME pc'[g] \notin HasPlan
      PROVE  OnRecord(g)'
  BY <1>1 DEF OnRecord, HasPlan
<1>2. CASE UNCHANGED <<pc, flight>>
  BY <1>0, <1>2, StillOnRecord DEF flight
<1>3. ASSUME NEW f \in Forks, OthersFit(f), f # g
      PROVE  OnRecord(g)'
  BY <1>0, <1>3, StillOnRecord DEF OthersFit
<1>4. ASSUME NEW f \in Forks, Fork(f) \/ ForkDrop(f) \/ Promote(f) \/ PromoteFails(f)
      PROVE  OnRecord(g)'
  <2>1. pc'[f] \notin HasPlan
    BY <1>0, <1>4 DEF Fork, ForkDrop, Promote, PromoteFails, Discard, KeepFork, Goto, TypeOK, HasPlan
  <2>2. OthersFit(f)
    BY <1>0, <1>4 DEF Fork, ForkDrop, Promote, PromoteFails, Discard, KeepFork, Goto, OthersFit, TypeOK,
                      flight, fork
  <2>. QED
    BY <1>1, <1>3, <2>1, <2>2
<1>5. ASSUME NEW f \in Forks,
             \/ Refuse(f) \/ LandNothing(f) \/ Fail(f) \/ RebaseFails(f) \/ MergeStopped(f) \/ Landed(f)
             \/ KeepForkRebased(f)
      PROVE  OnRecord(g)'
  <2>1. Over(f) /\ (KeepFork(f) \/ Discard(f) \/ KeepForkRebased(f))
    BY <1>5 DEF Refuse, LandNothing, Fail, RebaseFails, MergeStopped, Landed, KeepForkRebased
  <2>2. pc'[f] \notin HasPlan
    BY <1>0, <2>1 DEF Discard, KeepFork, KeepForkRebased, Goto, TypeOK, HasPlan
  <2>3. OthersFit(f)
    BY <1>0, <2>1 DEF Over, Discard, KeepFork, KeepForkRebased, Goto, OthersFit, TypeOK
  <2>. QED
    BY <1>1, <1>3, <2>2, <2>3
<1>6. ASSUME NEW f \in Forks, NEW ignored \in Ignores, PublishHead(f, ignored)
      PROVE  OnRecord(g)'
  <2>1. OthersFit(f)
    BY <1>0, <1>6 DEF PublishHead, Goto, OthersFit, TypeOK, fork
  <2>2. CASE f = g
    <3>1. /\ pc'[g] = "plan" /\ head'[g] = disk
          /\ plan'[g] = KeepMainline(Plan(base[g], disk, snap[g]), ignored)
          /\ \A p \in Paths : disk[p] \in recorded'[p]
      BY <1>0, <1>6, <2>2 DEF PublishHead, Goto, Record, TypeOK
    <3>2. plan'[g].kept \subseteq ignored
      BY <3>1 DEF KeepMainline
    <3>. QED
      BY <3>1, <3>2 DEF OnRecord
  <2>. QED
    BY <1>3, <2>1, <2>2
<1>7. ASSUME NEW f \in Forks, BeginRebase(f)
      PROVE  OnRecord(g)'
  <2>1. OthersFit(f)
    BY <1>0, <1>7 DEF BeginRebase, Goto, OthersFit, TypeOK, fork
  <2>2. CASE f = g
    <3>1. pc[g] = "plan" /\ pc'[g] = "rebase" /\ head' = head /\ plan' = plan
      BY <1>0, <1>7, <2>2 DEF BeginRebase, Goto, TypeOK
    <3>2. \A p \in Paths : recorded[p] \subseteq recorded'[p]
      BY RecordedGrows
    <3>. QED
      BY <1>0, <3>1, <3>2 DEF OnRecord, HasPlan
  <2>. QED
    BY <1>3, <2>1, <2>2
<1>8. ASSUME NEW f \in Forks, BeginLanding(f)
      PROVE  OnRecord(g)'
  <2>1. OthersFit(f)
    BY <1>0, <1>8 DEF BeginLanding, Goto, OthersFit, TypeOK, fork
  <2>2. CASE f = g
    <3> DEFINE M == Merged(base[g], head[g], snap[g], plan[g])
    <3>1. /\ pc[g] = "plan" /\ pc'[g] = "queued" /\ head' = head /\ plan' = plan /\ goal'[g] = M
          /\ Record({M, head[g]})
      BY <1>0, <1>8, <2>2 DEF BeginLanding, Goto, TypeOK
    <3> HIDE DEF M
    <3>2. \A p \in Paths : M[p] \in recorded'[p]
      BY <3>1 DEF Record
    <3>3. \A p \in Paths : recorded[p] \subseteq recorded'[p]
      BY RecordedGrows
    <3>. QED
      BY <1>0, <3>1, <3>2, <3>3 DEF OnRecord, HasPlan
  <2>. QED
    BY <1>3, <2>1, <2>2
<1>9. ASSUME NEW f \in Forks, StartLanding(f)
      PROVE  OnRecord(g)'
  <2>1. OthersFit(f)
    BY <1>0, <1>9 DEF StartLanding, Goto, OthersFit, TypeOK, fork, flight
  <2>2. CASE f = g
    <3>1. pc[g] = "queued" /\ pc'[g] = "land" /\ UNCHANGED flight
      BY <1>0, <1>9, <2>2 DEF StartLanding, Goto, TypeOK
    <3>. QED
      BY <1>0, <3>1, StillOnRecord DEF HasPlan, flight
  <2>. QED
    BY <1>3, <2>1, <2>2
<1>10. ASSUME NEW f \in Forks, NEW root \in Paths, RebasePath(f, root) \/ LandPath(f, root)
       PROVE  OnRecord(g)'
  BY <1>0, <1>10, StillOnRecord DEF RebasePath, LandPath
<1>. QED
  BY <1>2, <1>4, <1>5, <1>6, <1>7, <1>8, <1>9, <1>10
     DEF Next, ForkStep, Edit, Work, vars

\* Of what a promote that was not refused lands, every change of the fork is the
\* landing's, is merged, was the head's, or is ignored.
LEMMA WorkLands ==
  ASSUME TypeInv, FitInv, NEW f \in Forks, pc[f] \in {"plan", "queued", "land"},
         plan[f].refused = {}, plan[f].conflicted = {}, NEW p \in Paths
  PROVE  \/ snap[f][p] \in {base[f][p], head[f][p], Absent} \/ p \in plan[f].merged
         \/ \E k \in plan[f].kept : p \in Under(k)
         \/ Landing(plan[f]) # {} /\ snap[f][p] = Merged(base[f], head[f], snap[f], plan[f])[p]
<1>1. PICK ignored \in SUBSET Paths :
        plan[f] = KeepMainline(Plan(base[f], head[f], snap[f]), ignored)
  BY DEF TypeInv, Planned, HasPlan
<1> DEFINE b == base[f]
           h == head[f]
           s == snap[f]
           q == KeepMainline(Plan(b, h, s), ignored)
           M == Merged(b, h, s, q)
           r == Outcome(b, h, s, q)
<1>2. b \in Trees /\ h \in Trees /\ s \in Trees
  BY DEF TypeInv, TypeOK
<1>3. WellFormed(b) /\ WellFormed(h) /\ WellFormed(s)
  BY DEF FitInv, ForkFits
<1>4. q.refused = {} /\ q.conflicted = {} /\ plan[f] = q
  BY <1>1
<1>5. /\ \A a \in q.ours : p \in Under(a) => r[p] = s[p]
      /\ (\A a \in q.ours \cup q.merged \cup q.conflicted : p \notin Under(a)) => r[p] = h[p]
  BY <1>2, <1>3, Pointwise
<1>6. \A a \in q.merged : a \in Paths /\ ByContent(b, h, s, a)
  BY PlanSets
<1>7. (\A a \in q.ours \cup q.merged \cup q.conflicted : p \notin Under(a)) =>
        s[p] = b[p] \/ s[p] = h[p] \/ \E k \in q.kept : p \in Under(k)
  BY <1>2, <1>4, Unwritten
<1>8. r = Overlay(h, Landing(q), M)
  BY <1>4 DEF Outcome
<1> HIDE DEF q, r, M
<1>9. CASE \E a \in q.ours : p \in Under(a)
  <2>1. r[p] = s[p] /\ Landing(q) # {} /\ \E a \in Landing(q) : p \in Under(a)
    BY <1>5, <1>9 DEF Landing
  <2>2. r[p] = M[p]
    BY <1>8, <2>1, OverlayAt
  <2>. QED
    BY <1>4, <2>1, <2>2 DEF M
<1>10. CASE \E a \in q.merged : p \in Under(a)
  <2>1. PICK a \in q.merged : p \in Under(a)
    BY <1>10
  <2>2. a \in Paths /\ s[a] # Dir
    BY <1>6, <2>1, KindNotDir DEF ByContent
  <2>3. p # a => s[p] = Absent
    BY <1>2, <1>3, <2>1, <2>2, NothingBelow
  <2>. QED
    BY <1>4, <2>1, <2>3
<1>11. CASE \A a \in q.ours \cup q.merged : p \notin Under(a)
  BY <1>4, <1>7, <1>11
<1>. QED
  BY <1>9, <1>10, <1>11

Consumes ==
  \A f \in Forks : pc[f] \notin {"kept", "gone"} /\ pc'[f] = "gone" =>
    \A p \in Paths :
      \/ snap[f][p] \in {base[f][p], Absent} \cup recorded'[p]
      \/ p \in plan[f].merged \/ \E i \in UNION Ignores : p \in Under(i)

\* server.rs, Op::Promote: a fork's workspace is discarded only when what its agent
\* changed is in a row, in a merged file, or at an ignored path: whatever failed and was
\* tried again before, and however the promotes interleave.
THEOREM WorkOutlivesHolds == Spec => WorkOutlivesFork
<1>1. Init => RecordInv
  BY DEF Init, RecordInv, OnRecord, HasPlan
<1>2. ASSUME TypeInv, FitInv, RecordInv, [Next]_vars
      PROVE  Consumes
  <2> SUFFICES ASSUME NEW f \in Forks, pc[f] \notin {"kept", "gone"}, pc'[f] = "gone", NEW p \in Paths
               PROVE  \/ snap[f][p] \in {base[f][p], Absent} \cup recorded'[p]
                      \/ p \in plan[f].merged \/ \E i \in UNION Ignores : p \in Under(i)
    BY DEF Consumes
  <2>0. TypeOK /\ ForkFits(f) /\ OnRecord(f) /\ recorded[p] \subseteq recorded'[p]
    BY <1>2, RecordedGrows DEF TypeInv, FitInv, RecordInv
  <2>1. LandNothing(f) \/ Landed(f)
    <3>0. pc \in [Forks -> Steps] /\ pc'[f] # pc[f]
      BY <2>0 DEF TypeOK
    <3>1. ~ UNCHANGED pc
      BY <3>0
    <3>2. ASSUME NEW g \in Forks, NEW step, Goto(g, step)
          PROVE  g = f /\ step = "gone"
      BY <3>0, <3>2 DEF Goto
    <3>3. PICK g \in Forks : ForkStep(g)
      BY <1>2, <3>1 DEF Next, Edit, vars
    <3>4. ~ (Fork(g) \/ Promote(g) \/ PromoteFails(g) \/ \E ignored \in Ignores : PublishHead(g, ignored))
      BY <3>2 DEF Fork, Promote, PromoteFails, PublishHead, KeepFork
    <3>5. ~ (BeginRebase(g) \/ BeginLanding(g) \/ KeepForkRebased(g) \/ StartLanding(g))
      BY <3>2 DEF BeginRebase, BeginLanding, KeepForkRebased, StartLanding
    <3>6. ~ (Refuse(g) \/ Fail(g) \/ RebaseFails(g) \/ MergeStopped(g))
      BY <3>2 DEF Refuse, Fail, RebaseFails, MergeStopped, KeepFork
    <3>7. ~ (Work(g) \/ \E root \in Paths : RebasePath(g, root) \/ LandPath(g, root))
      BY <3>1 DEF Work, RebasePath, LandPath
    <3>8. ~ ForkDrop(g)
      BY <3>2 DEF ForkDrop, Discard
    <3>9. LandNothing(g) \/ Landed(g)
      BY <3>3, <3>4, <3>5, <3>6, <3>7, <3>8 DEF ForkStep
    <3>10. g = f
      BY <3>2, <3>9 DEF LandNothing, Landed, Discard
    <3>. QED
      BY <3>9, <3>10
  <2>2. CASE LandNothing(f)
    <3>1. /\ pc[f] = "plan" /\ plan[f].refused = {} /\ plan[f].conflicted = {} /\ Landing(plan[f]) = {}
      BY <2>2 DEF LandNothing, Refused, LandsNothing
    <3>2. \/ snap[f][p] \in {base[f][p], head[f][p], Absent} \/ p \in plan[f].merged
          \/ \E k \in plan[f].kept : p \in Under(k)
      BY <1>2, <3>1, WorkLands
    <3>3. head[f][p] \in recorded'[p] /\ plan[f].kept \subseteq UNION Ignores
      BY <2>0, <3>1 DEF OnRecord, HasPlan
    <3>. QED
      BY <3>2, <3>3
  <2>3. CASE Landed(f)
    <3>1. /\ pc[f] = "land" /\ plan[f].refused = {} /\ plan[f].conflicted = {}
          /\ goal[f] = Merged(base[f], head[f], snap[f], plan[f])
      BY <2>0, <2>3 DEF Landed, ForkFits
    <3>2. \/ snap[f][p] \in {base[f][p], head[f][p], Absent} \/ p \in plan[f].merged
          \/ (\E k \in plan[f].kept : p \in Under(k)) \/ snap[f][p] = goal[f][p]
      BY <1>2, <3>1, WorkLands
    <3>3. /\ head[f][p] \in recorded'[p] /\ goal[f][p] \in recorded'[p]
          /\ plan[f].kept \subseteq UNION Ignores
      BY <2>0, <3>1 DEF OnRecord, HasPlan
    <3>. QED
      BY <3>2, <3>3
  <2>. QED
    BY <2>1, <2>2, <2>3
<1>3. TypeInv /\ FitInv /\ RecordInv /\ [Next]_vars => [Consumes]_vars
  BY <1>2
<1>4. Spec => [][Consumes]_vars
  BY <1>1, <1>3, StepRecord, InitFits, StepFits, Types, PTL DEF Spec
<1>. QED
  BY <1>4 DEF WorkOutlivesFork, Consumes
=============================================================================
