------------------------------- MODULE Merge --------------------------------
(***************************************************************************)
(* The three-way merge of crates/acyclic-engine/src/merge.rs.  A fork      *)
(* ("ours", F) is merged onto the mainline head ("theirs", H) from the     *)
(* generation the fork was cut at (B).  Nothing here has state: `Plan` is  *)
(* what merge::plan computes before anything is written, `Overlay` what    *)
(* apply_entries and the restores do with it.                              *)
(*                                                                         *)
(* A tree gives each path a node: Absent, Dir, a link, a file the text     *)
(* gate refuses, or a text.  A text is cut into Hunks, the regions that    *)
(* the line diff compares; a hunk holds a text or a block of markers.      *)
(*                                                                         *)
(* Operators that describe a fault the code does not have stand before the *)
(* definition they would replace.                                          *)
(***************************************************************************)
EXTENDS Integers, FiniteSets

CONSTANTS
  Paths,     \* the paths of the tree
  Above,     \* the directories above each path
  Hunks,     \* the regions of a text file
  Texts,     \* what a region can hold
  Mark,      \* a region that holds a conflict block
  Absent,    \* nothing at a path
  Dir,       \* a directory
  Links,     \* symbolic links, by their target
  Binaries   \* regular files that the text gate refuses

\* `Above` orders the paths as directories do: what is above a path is a chain, and
\* some path of any set is at the top of it.
ASSUME AboveAssumption ==
  /\ Above \in [Paths -> SUBSET Paths]
  /\ \A p \in Paths : p \notin Above[p] /\ \A q \in Above[p] : Above[q] \subseteq Above[p]
  /\ \A p \in Paths : \A q, r \in Above[p] : q = r \/ q \in Above[r] \/ r \in Above[q]
  /\ \A S \in SUBSET Paths : S # {} => \E p \in S : Above[p] \cap S = {}
ASSUME TextAssumption == Mark \notin Texts /\ Absent \notin Texts \cup {Mark}

TextFiles == [Hunks -> Texts \cup {Mark}]
Nodes == {Absent, Dir} \cup Links \cup Binaries \cup TextFiles

\* The kinds of node are distinct.
ASSUME NodeAssumption ==
  /\ Absent # Dir /\ {Absent, Dir} \cap (Links \cup Binaries \cup TextFiles) = {}
  /\ Links \cap (Binaries \cup TextFiles) = {} /\ Binaries \cap TextFiles = {}

Trees == [Paths -> Nodes]
Empty == [p \in Paths |-> Absent]

Kind(n) == IF n = Absent THEN "none" ELSE IF n = Dir THEN "dir"
           ELSE IF n \in Links THEN "link" ELSE "file"

\* has_conflict_markers, of a file that is UTF-8.
Marked(n) == n \in TextFiles /\ \E h \in Hunks : n[h] = Mark

Under(p) == {q \in Paths : q = p \/ p \in Above[q]}

WellFormed(t) == \A p \in Paths : t[p] # Absent => \A a \in Above[p] : t[a] = Dir

-----------------------------------------------------------------------------
(* merge3 and merge_file *)

\* Two files added with no common base have nothing in common to start from.
BaseHunk(b, h) == IF b \in TextFiles THEN b[h] ELSE Absent

Clash(b, f, t, h) == f[h] # t[h] /\ f[h] # BaseHunk(b, h) /\ t[h] # BaseHunk(b, h)

Merge3(b, f, t) ==
  [h \in Hunks |-> IF Clash(b, f, t, h) THEN Mark
                   ELSE IF f[h] = BaseHunk(b, h) THEN t[h] ELSE f[h]]

\* One side deleted the file the other changed: one block, always a conflict.
ModifyDelete == [h \in Hunks |-> Mark]

MergeFile(b, f, t) == IF f = Absent \/ t = Absent THEN ModifyDelete ELSE Merge3(b, f, t)

Conflicts(b, f, t) ==
  f = Absent \/ t = Absent \/ \E h \in Hunks : Clash(b, f, t, h)

-----------------------------------------------------------------------------
(* plan: the decision table over the three generations *)

\* subtree_changed
Touched(from, to, p) == \E q \in Under(p) : from[q] # to[q]

\* Both sides agree already, or descendants decide.
Settled(b, h, f, p) ==
  f[p] = h[p] /\ (f[p] = Dir => Kind(b[p]) \in {"none", "dir"})

\* Files on the sides that have one.
ByContent(b, h, f, p) ==
  f[p] # h[p] /\ \A t \in {b, h, f} : Kind(t[p]) \in {"none", "file"}

\* KindChange and Ancestry.  A path that is a file on both sides has nothing
\* below it on either, so it does no harm to let every refusal decide its subtree.
Irreconcilable(b, h, f, p) == ~ Settled(b, h, f, p) /\ ~ ByContent(b, h, f, p)

Changed(b, h, f) == {p \in Paths : f[p] # b[p] \/ h[p] # b[p]}

\* decided_root: paths below it are not looked at.
Decides(b, h, f, p) ==
  ~ Touched(b, f, p) \/ ~ Touched(b, h, p) \/ Irreconcilable(b, h, f, p)
Visited(b, h, f) ==
  LET changed == Changed(b, h, f)
      deciding == {p \in changed : Decides(b, h, f, p)}
  IN  {p \in changed : Above[p] \cap deciding = {}}

Opaque(b, h, f, p) == \E t \in {b, h, f} : t[p] \in Binaries

PlanEverywhere(b, h, f) ==
  LET visited == Visited(b, h, f)
      contested == {p \in visited : Touched(b, f, p) /\ Touched(b, h, p)}
      content == {p \in contested : ByContent(b, h, f, p)}
      text == {p \in content : ~ Opaque(b, h, f, p)}
      clashing == {p \in text : Conflicts(b[p], f[p], h[p])}
  IN  [ours |-> visited \ contested,
       merged |-> text \ clashing, conflicted |-> clashing,
       refused |-> {p \in contested : Irreconcilable(b, h, f, p)} \cup (content \ text)]

\* Contested paths are touched by both sides, so that neither side's subtree can
\* be taken whole.  What only the mainline touched needs no writing.
Plan(b, h, f) ==
  LET visited == Visited(b, h, f)
      contested == {p \in visited : Touched(b, f, p) /\ Touched(b, h, p)}
      content == {p \in contested : ByContent(b, h, f, p)}
      text == {p \in content : ~ Opaque(b, h, f, p)}
      clashing == {p \in text : Conflicts(b[p], f[p], h[p])}
  IN  [ours |-> {p \in visited \ contested : Touched(b, f, p)},
       merged |-> text \ clashing, conflicted |-> clashing,
       refused |-> {p \in contested : Irreconcilable(b, h, f, p)} \cup (content \ text)]

\* MergePlan, and the paths that were left to the mainline.
Plans == [ours : SUBSET Paths, merged : SUBSET Paths, conflicted : SUBSET Paths,
          refused : SUBSET Paths, kept : SUBSET Paths]
NoPlan == [ours |-> {}, merged |-> {}, conflicted |-> {}, refused |-> {}, kept |-> {}]

\* keep_mainline_for: a path that .gitignore covers blocks no merge, the mainline
\* keeps its own.
KeepMainline(plan, ignored) ==
  [ours |-> plan.ours, merged |-> plan.merged, conflicted |-> plan.conflicted \ ignored,
   refused |-> plan.refused \ ignored,
   kept |-> (plan.refused \cup plan.conflicted) \cap ignored]

Landing(plan) == plan.ours \cup plan.merged
LandsNothing(plan) == Landing(plan) \cup plan.conflicted = {}

-----------------------------------------------------------------------------
(* Writing what was planned *)

\* The nodes of `from` at and below `roots`, each replaced wholesale, with the
\* directories above them made where there was nothing.
Overlay(t, roots, from) ==
  [q \in Paths |->
     IF \E r \in roots : q \in Under(r) THEN from[q]
     ELSE IF t[q] = Absent /\ \E r \in roots : q \in Above[r] THEN Dir
     ELSE t[q]]

\* The merge of every path of `paths`, marker-bearing where it conflicts.
Contents(b, h, f, paths) ==
  [p \in Paths |-> IF p \in paths THEN MergeFile(b[p], f[p], h[p]) ELSE Absent]

\* The generation M that a landing is restored from.  The fork's own snapshot
\* has every subtree that only the fork changed.
Merged(b, h, f, plan) ==
  IF plan.merged \cup plan.conflicted = {} THEN f
  ELSE Overlay(Overlay(h, plan.ours, f), plan.merged, Contents(b, h, f, plan.merged))

\* The generation R that a conflicting fork is rebased to.
Rebased(b, h, f, plan) ==
  Overlay(Merged(b, h, f, plan), plan.conflicted, Contents(b, h, f, plan.conflicted))

\* subtree_roots of the paths that differ between two generations.
Roots(from, to) ==
  LET changed == {p \in Paths : from[p] # to[p]}
  IN  {p \in changed : Above[p] \cap changed = {}}

-----------------------------------------------------------------------------
(* What a merge is to be, whatever computes it *)

\* A side that left something alone takes the other's version of it, and what the
\* sides agree on stands.
Laws(b, h, f, r) == (f = b => r = h) /\ (h = b => r = f) /\ (f = h => r = f)

\* r is a tree that obeys the laws at every path and, of three texts, in every
\* hunk, but for the mainline's version of what is at or below a path of `kept`.
IsMerge(b, h, f, kept, r) ==
  /\ WellFormed(r)
  /\ \A p \in Paths :
       \/ r[p] = h[p] /\ \E k \in kept : p \in Under(k)
       \/ /\ Laws(b[p], h[p], f[p], r[p])
          /\ {b[p], h[p], f[p]} \subseteq TextFiles =>
               \A k \in Hunks : Laws(b[p][k], h[p][k], f[p][k], r[p][k])

=============================================================================
