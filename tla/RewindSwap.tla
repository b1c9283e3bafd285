----------------------------- MODULE RewindSwap -----------------------------
(***************************************************************************)
(* A full-tree rewind as crates/acyclic-engine/src/rewind.rs performs it:  *)
(* `execute` materializes the target beside the repo, carries the excluded *)
(* paths over, exchanges the two directories and parks the old one, writing*)
(* a journal before each phase; `recover`, at daemon start, reads the      *)
(* journal of a daemon that died in between.                               *)
(*                                                                         *)
(* A directory is described by `tree` (which generation's files it holds,  *)
(* NoTree when it does not exist, Partial while it is being filled or      *)
(* removed) and by `at` (what it holds at each excluded path: the user's   *)
(* live copy, something else, or nothing).                                 *)
(***************************************************************************)
EXTENDS Integers, FiniteSets

CONSTANTS
  Rules,      \* the excluded paths (`exclude` in the configuration)
  Position,   \* Position[r]: where rule r stands in the configured list
  Nested,     \* <<p, q>> when rule q names a path strictly under rule p
  Gens,       \* the generations a rewind can restore
  Platforms,  \* a subset of {"unix", "windows"}
  Faults,     \* the failures that can happen, a subset of FaultClasses
  MaxRewinds, \* bound: rewinds begun over a behaviour
  MaxStarts   \* bound: daemon starts over a behaviour

NoTree == "absent"
Partial == "partial"

FaultClasses ==
  { "journal",    \* write_journal fails
    "fill",       \* staging, opening or materializing the target fails
    "carry",      \* a rename of `carry` fails
    "back",       \* a rename of `move_back` fails, silently
    "exchange",   \* a rename of `atomic_exchange` fails
    "park",       \* the replaced tree can be moved nowhere
    "unlink",     \* the journal cannot be removed
    "recreate",   \* another process makes an excluded path anew
    "edit" }      \* the user edits a tracked file while a rewind runs

ASSUME RulesAssumption ==
  /\ Position \in [Rules -> Nat]
  /\ Nested \subseteq Rules \X Rules
  /\ \A p \in Rules : <<p, p>> \notin Nested
  /\ \A p, q, r \in Rules :
       <<p, q>> \in Nested /\ <<q, r>> \in Nested => <<p, r>> \in Nested
  /\ \A p, q, r \in Rules :
       <<p, r>> \in Nested /\ <<q, r>> \in Nested =>
         p = q \/ <<p, q>> \in Nested \/ <<q, p>> \in Nested
ASSUME GensAssumption == NoTree \notin Gens /\ Partial \notin Gens
ASSUME BoundsAssumption == MaxRewinds \in Nat /\ MaxStarts \in Nat
ASSUME FaultsAssumption ==
  Faults \subseteq FaultClasses /\ Platforms \subseteq {"unix", "windows"}

VARIABLES
  os,         \* which `atomic_exchange` this build has
  pc,         \* where the daemon is
  tree, at,   \* the directories, see above
  journal,    \* the journal on disk
  target,     \* the generation being restored (`target_generation`)
  carried,    \* the excluded paths this rewind carries
  todo,       \* those the current loop has still to visit
  owned,      \* the rules the user had a live copy for (never changes)
  edit,       \* where the user's uncheckpointed edit is
  rewinds, starts   \* counters for the bounds

disk == <<tree, at, edit>>
fixed == <<os, owned>>
bounds == <<rewinds, starts>>
vars == <<os, pc, tree, at, journal, target, carried, todo, owned, edit,
          rewinds, starts>>

\* The places a tree can be.  "tmp" carries the pid of the running daemon in
\* its name, so after a restart the directory a dead daemon staged is another
\* one, "old", known only through the journal.
Places == {"repo", "tmp", "old", "scratch"}
Slots == {"live", "other", "none"}
Phases == {"none", "materializing", "carrying", "swapping"}
Empty == [r \in Rules |-> "none"]

Executing == {"clear", "stage", "journal", "fill", "plan", "carry", "swap",
              "vacate", "publish", "aside", "park", "finish", "unwind", "undo", "abandon"}
Recovering == {"recBack", "recLand", "recDrop", "recScratch", "recDone"}

NoJournal == [phase |-> "none", where |-> "tmp", carried |-> {}]

Under(p) == {q \in Rules : q = p \/ <<p, q>> \in Nested}
Above(p) == {q \in Rules : <<q, p>> \in Nested}

\* The rule whose turn it is: loops visit `host_paths` in configured order.
Turn(r) == r \in todo /\ \A s \in todo : Position[r] =< Position[s]

-----------------------------------------------------------------------------
(* What the file-system calls do. *)

\* remove_any / remove_dir_all of a directory.
Remove(p) ==
  /\ tree' = [tree EXCEPT ![p] = NoTree]
  /\ at' = [at EXCEPT ![p] = Empty]
  /\ edit' = IF edit = p THEN "gone" ELSE edit

\* rename(p, q): q takes everything p had.
Rename(p, q) ==
  /\ tree' = [tree EXCEPT ![q] = tree[p], ![p] = NoTree]
  /\ at' = [at EXCEPT ![q] = at[p], ![p] = Empty]
  /\ edit' = IF edit = p THEN q ELSE IF edit = q THEN "gone" ELSE edit

\* What moving rule r from a directory holding `src` into one holding `dst`
\* leaves in each: r goes with all that is under it, replacing what was there,
\* and create_dir_all makes the parents it needs.
Left(src, r) == [q \in Rules |-> IF q \in Under(r) THEN "none" ELSE src[q]]
Joined(src, dst, r) ==
  [q \in Rules |->
     IF q \in Under(r) THEN src[q]
     ELSE IF q \in Above(r) /\ dst[q] = "none" THEN "other" ELSE dst[q]]

\* rename of one excluded path from one directory to another.
MoveRule(r, from, into) ==
  at' = [at EXCEPT ![from] = Left(at[from], r),
                   ![into] = Joined(at[from], at[into], r)]

\* One turn of the loop of `move_back`: only what is present in `from` and
\* absent in `into` moves, and an error is ignored.
MoveBack(r, from, into) ==
  /\ IF at[from][r] # "none" /\ at[into][r] = "none"
       THEN \/ MoveRule(r, from, into)
            \/ "back" \in Faults /\ UNCHANGED at
       ELSE UNCHANGED at
  /\ UNCHANGED <<tree, edit>>

\* write_journal replaces the file by an atomic rename, or fails before it.
WriteJournal(phase, paths) ==
  journal' = [phase |-> phase, where |-> "tmp", carried |-> paths]

-----------------------------------------------------------------------------
(* execute *)

\* `Pipeline::rewind` has checkpointed what the repo held and calls execute.
\* Without a repo directory that checkpoint fails and execute is not reached.
Begin(g) ==
  /\ pc = "idle" /\ tree["repo"] # NoTree
  /\ rewinds < MaxRewinds
  /\ rewinds' = rewinds + 1
  /\ target' = g
  /\ edit' = IF edit = "repo" THEN "saved" ELSE edit
  /\ pc' = "clear"
  /\ UNCHANGED <<tree, at, journal, carried, todo, fixed, starts>>

\* remove_any(&tmp): whatever an earlier attempt of this daemon left there.
ClearStage ==
  /\ pc = "clear"
  /\ Remove("tmp")
  /\ pc' = "stage"
  /\ UNCHANGED <<journal, target, carried, todo, fixed, bounds>>

\* create_dir(&tmp)
MakeStage ==
  /\ pc = "stage"
  /\ \/ /\ tree' = [tree EXCEPT !["tmp"] = Partial]
        /\ pc' = "journal"
     \/ /\ "fill" \in Faults
        /\ pc' = "idle"
        /\ UNCHANGED tree
  /\ UNCHANGED <<at, edit, journal, target, carried, todo, fixed, bounds>>

JournalMaterializing ==
  /\ pc = "journal"
  /\ \/ WriteJournal("materializing", {}) /\ pc' = "fill"
     \/ "journal" \in Faults /\ pc' = "idle" /\ UNCHANGED journal
  /\ UNCHANGED <<disk, target, carried, todo, fixed, bounds>>

\* The target may hold, at an excluded path, what was captured there before
\* the rule was written.
Materialize ==
  /\ pc = "fill"
  /\ tree' = [tree EXCEPT !["tmp"] = target]
  /\ \E content \in [Rules -> {"other", "none"}] :
       /\ \A r \in Rules, q \in Rules :
            q \in Above(r) /\ content[r] = "other" => content[q] = "other"
       /\ at' = [at EXCEPT !["tmp"] = content]
  /\ pc' = "plan"
  /\ UNCHANGED <<edit, journal, target, carried, todo, fixed, bounds>>

\* checkout_exact fails and returns at once, or materialize_checkout fails and
\* the stage and the journal are cleared first.
MaterializeFails ==
  /\ pc = "fill" /\ "fill" \in Faults
  /\ pc' \in {"idle", "undo"}
  /\ UNCHANGED <<disk, journal, target, carried, todo, fixed, bounds>>

\* Deliberate fault: the paths start to move with no journal that names them.
PlanUnjournalled ==
  LET present == {r \in Rules : at["repo"][r] # "none"} IN
  /\ pc = "plan"
  /\ carried' = present /\ todo' = present
  /\ pc' = "carry"
  /\ UNCHANGED <<disk, journal, target, fixed, bounds>>

\* The excluded paths the repo has are listed; the journal names them before
\* any of them moves.
Plan ==
  LET present == {r \in Rules : at["repo"][r] # "none"} IN
  /\ pc = "plan"
  /\ carried' = present
  /\ \/ /\ todo' = present
        /\ pc' = "carry"
        /\ IF present = {} THEN UNCHANGED journal
                           ELSE WriteJournal("carrying", present)
     \/ /\ "journal" \in Faults /\ present # {}
        /\ pc' = "idle"
        /\ UNCHANGED <<journal, todo>>
  /\ UNCHANGED <<disk, target, fixed, bounds>>

\* One turn of the loop of `carry`.
Carry(r) ==
  /\ pc = "carry" /\ Turn(r)
  /\ IF at["repo"][r] = "none" THEN UNCHANGED at ELSE MoveRule(r, "repo", "tmp")
  /\ todo' = todo \ {r}
  /\ UNCHANGED <<pc, tree, edit, journal, target, carried, fixed, bounds>>

\* Deliberate fault: the error is returned without undoing what moved.
CarryFailsAtOnce(r) ==
  /\ pc = "carry" /\ Turn(r) /\ "carry" \in Faults
  /\ at["repo"][r] # "none"
  /\ pc' = "idle"
  /\ UNCHANGED <<disk, journal, target, carried, todo, fixed, bounds>>

\* The rename fails, perhaps after the destination was removed.
CarryFails(r) ==
  /\ pc = "carry" /\ Turn(r) /\ "carry" \in Faults
  /\ at["repo"][r] # "none"
  /\ \E removed \in BOOLEAN :
       at' = IF removed THEN [at EXCEPT !["tmp"] = Left(at["tmp"], r)] ELSE at
  /\ pc' = "unwind"
  /\ todo' = carried
  /\ UNCHANGED <<tree, edit, journal, target, carried, fixed, bounds>>

Unwind(r) ==
  /\ pc = "unwind" /\ Turn(r)
  /\ MoveBack(r, "tmp", "repo")
  /\ todo' = todo \ {r}
  /\ UNCHANGED <<pc, journal, target, carried, fixed, bounds>>

\* remove_dir_all(&tmp) of a rewind given up.
DropStage ==
  /\ \/ pc = "undo"
     \/ pc = "unwind" /\ todo = {}
  /\ Remove("tmp")
  /\ pc' = "abandon"
  /\ UNCHANGED <<journal, target, carried, todo, fixed, bounds>>

\* The journal goes, or stays behind when it cannot be removed: after a rewind
\* given up (where the error is ignored) as after one that succeeded.
ClearJournal ==
  /\ pc \in {"abandon", "finish"}
  /\ \/ journal' = NoJournal
     \/ "unlink" \in Faults /\ UNCHANGED journal
  /\ pc' = "idle"
  /\ UNCHANGED <<disk, target, carried, todo, fixed, bounds>>

\* Deliberate fault: the swap does not wait for every path to have moved.
JournalSwappingEarly ==
  /\ pc = "carry"
  /\ \/ WriteJournal("swapping", carried) /\ pc' = "swap"
     \/ "journal" \in Faults /\ pc' = "idle" /\ UNCHANGED journal
  /\ UNCHANGED <<disk, target, carried, todo, fixed, bounds>>

JournalSwapping ==
  /\ pc = "carry" /\ todo = {}
  /\ \/ WriteJournal("swapping", carried) /\ pc' = "swap"
     \/ "journal" \in Faults /\ pc' = "idle" /\ UNCHANGED journal
  /\ UNCHANGED <<disk, target, carried, todo, fixed, bounds>>

\* renameat2(RENAME_EXCHANGE) / renamex_np(RENAME_SWAP)
Exchange ==
  /\ pc = "swap" /\ os = "unix"
  /\ tree' = [tree EXCEPT !["repo"] = tree["tmp"], !["tmp"] = tree["repo"]]
  /\ at' = [at EXCEPT !["repo"] = at["tmp"], !["tmp"] = at["repo"]]
  /\ edit' = IF edit = "repo" THEN "tmp"
              ELSE IF edit = "tmp" THEN "repo" ELSE edit
  /\ pc' = "park"
  /\ UNCHANGED <<journal, target, carried, todo, fixed, bounds>>

\* Windows: repo -> scratch, tmp -> repo, scratch -> tmp, after the removal of
\* the scratch an earlier exchange may have left.
ClearScratch ==
  /\ pc = "swap" /\ os = "windows"
  /\ Remove("scratch")
  /\ pc' = "vacate"
  /\ UNCHANGED <<journal, target, carried, todo, fixed, bounds>>

Vacate ==
  /\ pc = "vacate"
  /\ Rename("repo", "scratch")
  /\ pc' = "publish"
  /\ UNCHANGED <<journal, target, carried, todo, fixed, bounds>>

Publish ==
  /\ pc = "publish"
  /\ Rename("tmp", "repo")
  /\ pc' = "aside"
  /\ UNCHANGED <<journal, target, carried, todo, fixed, bounds>>

MoveAside ==
  /\ pc = "aside"
  /\ Rename("scratch", "tmp")
  /\ pc' = "park"
  /\ UNCHANGED <<journal, target, carried, todo, fixed, bounds>>

\* Any of these renames fails: execute returns with the journal as it is. Only
\* the second one is answered, by an attempt to put the repo back.
ExchangeFails ==
  /\ \/ pc \in {"vacate", "publish", "aside"}
     \/ pc = "swap" /\ os = "unix"
  /\ "exchange" \in Faults
  /\ \/ UNCHANGED disk
     \/ pc = "publish" /\ Rename("scratch", "repo")
  /\ pc' = "idle"
  /\ UNCHANGED <<journal, target, carried, todo, fixed, bounds>>

\* Deliberate fault: the replaced tree is deleted, not parked.
ParkDeletes ==
  /\ pc = "park"
  /\ Remove("tmp") /\ pc' = "finish"
  /\ UNCHANGED <<journal, target, carried, todo, fixed, bounds>>

\* The replaced tree goes to the trash of the store or to a sibling of the
\* repo, a new name for each; if neither rename works, execute returns with the
\* journal as it is.
Park ==
  /\ pc = "park"
  /\ \/ /\ tree' = [tree EXCEPT !["tmp"] = NoTree]
        /\ at' = [at EXCEPT !["tmp"] = Empty]
        /\ edit' = IF edit = "tmp" THEN "trash" ELSE edit
        /\ pc' = "finish"
     \/ "park" \in Faults /\ pc' = "idle" /\ UNCHANGED disk
  /\ UNCHANGED <<journal, target, carried, todo, fixed, bounds>>

-----------------------------------------------------------------------------
(* Crash and recovery *)

\* The daemon dies (kill -9) at any point.  A removal it was at may be half
\* done.  Its stage gets out of the reach of later daemons but for the journal.
Crash ==
  /\ pc # "down" /\ starts < MaxStarts
  /\ LET mine == IF journal.where = "old" THEN "old" ELSE "tmp"
         removing == \/ pc \in {"clear", "undo", "recDrop"}
                     \/ pc \in {"unwind", "recBack"} /\ todo = {}
         torn == removing /\ tree[mine] # NoTree IN
     \E half \in BOOLEAN :
       /\ tree' = [tree EXCEPT !["tmp"] = NoTree,
                               !["old"] = IF half /\ torn THEN Partial ELSE tree[mine]]
       /\ at' = [at EXCEPT !["tmp"] = Empty,
                           !["old"] = IF half /\ torn THEN Empty ELSE at[mine]]
       /\ edit' = IF edit = mine THEN IF half /\ torn THEN "gone" ELSE "old"
                  ELSE IF edit \in {"old", "tmp"} THEN "gone" ELSE edit
  /\ journal' = IF journal.phase = "none" THEN journal
                ELSE [journal EXCEPT !.where = "old"]
  /\ pc' = "down"
  /\ UNCHANGED <<target, carried, todo, fixed, bounds>>

\* Deliberate fault: recovery does not look whether the repo path is empty.
RestartBlind ==
  /\ pc = "down" /\ starts < MaxStarts
  /\ starts' = starts + 1
  /\ todo' = journal.carried
  /\ \/ journal.phase = "none" /\ pc' = "idle"
     \/ journal.phase = "materializing" /\ pc' = "recDrop"
     \/ journal.phase \in {"carrying", "swapping"} /\ pc' = "recBack"
  /\ UNCHANGED <<disk, journal, target, carried, fixed, rewinds>>

\* Deliberate fault: recovery drops the stage of a swap that had not happened
\* without bringing the carried paths home.
RestartDrops ==
  /\ pc = "down" /\ starts < MaxStarts
  /\ starts' = starts + 1
  /\ todo' = journal.carried
  /\ \/ journal.phase = "none" /\ pc' = "idle"
     \/ journal.phase \in {"materializing", "carrying"} /\ pc' = "recDrop"
     \/ /\ journal.phase = "swapping"
        /\ pc' = IF tree["repo"] = NoTree /\ tree["old"] # NoTree
                    THEN "recLand" ELSE "recBack"
  /\ UNCHANGED <<disk, journal, target, carried, fixed, rewinds>>

\* A new daemon starts; recover reads the journal.
Restart ==
  /\ pc = "down" /\ starts < MaxStarts
  /\ starts' = starts + 1
  /\ todo' = journal.carried
  /\ \/ journal.phase = "none" /\ pc' = "idle"
     \/ journal.phase = "materializing" /\ pc' = "recDrop"
     \/ journal.phase = "carrying" /\ pc' = "recBack"
     \/ /\ journal.phase = "swapping"
        /\ pc' = IF tree["repo"] = NoTree /\ tree["old"] # NoTree
                    THEN "recLand" ELSE "recBack"
  /\ UNCHANGED <<disk, journal, target, carried, fixed, rewinds>>

RecoverBack(r) ==
  /\ pc = "recBack" /\ Turn(r)
  /\ MoveBack(r, "old", "repo")
  /\ todo' = todo \ {r}
  /\ UNCHANGED <<pc, journal, target, carried, fixed, bounds>>

\* The repo path is empty and the new tree is staged: finish the move.  If that
\* rename fails the daemon does not start.
RecoverLand ==
  /\ pc = "recLand"
  /\ \/ Rename("old", "repo") /\ pc' = "recScratch"
     \/ "exchange" \in Faults /\ pc' = "down" /\ UNCHANGED disk
  /\ UNCHANGED <<journal, target, carried, todo, fixed, bounds>>

RecoverDrop ==
  /\ \/ pc = "recDrop"
     \/ pc = "recBack" /\ todo = {}
  /\ Remove("old")
  /\ pc' = IF journal.phase = "swapping" THEN "recScratch" ELSE "recDone"
  /\ UNCHANGED <<journal, target, carried, todo, fixed, bounds>>

RecoverScratch ==
  /\ pc = "recScratch"
  /\ IF os = "windows" THEN Remove("scratch") ELSE UNCHANGED disk
  /\ pc' = "recDone"
  /\ UNCHANGED <<journal, target, carried, todo, fixed, bounds>>

\* A journal that cannot be removed keeps the daemon from starting.
RecoverDone ==
  /\ pc = "recDone"
  /\ \/ journal' = NoJournal /\ pc' = "idle"
     \/ "unlink" \in Faults /\ pc' = "down" /\ UNCHANGED journal
  /\ UNCHANGED <<disk, target, carried, todo, fixed, bounds>>

-----------------------------------------------------------------------------
(* The other processes at work in the repo *)

\* A tracked file is edited after the rewind's safety checkpoint.
Edit ==
  /\ "edit" \in Faults
  /\ pc \in Executing /\ tree["repo"] # NoTree /\ edit \in {"none", "saved"}
  /\ edit' = "repo"
  /\ UNCHANGED <<pc, tree, at, journal, target, carried, todo, fixed, bounds>>

\* A tool finds its excluded directory missing and makes it again.
Recreate(r) ==
  /\ "recreate" \in Faults
  /\ tree["repo"] # NoTree /\ at["repo"][r] = "none"
  /\ at' = [at EXCEPT !["repo"] =
              [q \in Rules |-> IF q = r \/ (q \in Above(r) /\ @[q] = "none")
                                 THEN "other" ELSE @[q]]]
  /\ UNCHANGED <<pc, tree, edit, journal, target, carried, todo, fixed, bounds>>

-----------------------------------------------------------------------------

Init ==
  /\ os \in Platforms
  /\ pc = "idle"
  /\ \E g \in Gens :
       /\ tree = [p \in Places |-> IF p = "repo" THEN g ELSE NoTree]
       /\ target = g
  /\ owned \in SUBSET Rules
  /\ \A r \in owned : Above(r) \subseteq owned
  /\ at = [p \in Places |-> [r \in Rules |->
             IF p = "repo" /\ r \in owned THEN "live" ELSE "none"]]
  /\ journal = NoJournal
  /\ carried = {} /\ todo = {}
  /\ edit = "none"
  /\ rewinds = 0 /\ starts = 0

Execute ==
  \/ \E g \in Gens : Begin(g)
  \/ ClearStage \/ MakeStage \/ JournalMaterializing
  \/ Materialize \/ MaterializeFails
  \/ Plan
  \/ \E r \in Rules : Carry(r) \/ CarryFails(r) \/ Unwind(r)
  \/ DropStage \/ ClearJournal
  \/ JournalSwapping
  \/ Exchange \/ ClearScratch \/ Vacate \/ Publish \/ MoveAside \/ ExchangeFails
  \/ Park

Recover ==
  \/ Restart
  \/ \E r \in Rules : RecoverBack(r)
  \/ RecoverLand \/ RecoverDrop \/ RecoverScratch \/ RecoverDone

Others == Edit \/ \E r \in Rules : Recreate(r)

Next == Execute \/ Recover \/ Crash \/ Others

Spec == Init /\ [][Next]_vars

-----------------------------------------------------------------------------
(* Properties *)

\* A directory that does not exist holds nothing.
DiskOK ==
  /\ tree \in [Places -> Gens \cup {NoTree, Partial}]
  /\ at \in [Places -> [Rules -> Slots]]
  /\ \A p \in Places : tree[p] = NoTree => at[p] = Empty
  /\ edit \in {"none", "saved", "gone", "trash"} \cup Places

\* Every variable has its type; in particular no step of execute or recover puts an
\* excluded path into a directory that is not there, as bringing the carried paths
\* home to an empty repo path would (create_dir_all in move_back).
TypeOK ==
  /\ os \in Platforms
  /\ pc \in {"idle", "down"} \cup Executing \cup Recovering
  /\ DiskOK
  /\ journal \in [phase : Phases, where : {"tmp", "old"}, carried : SUBSET Rules]
  /\ target \in Gens
  /\ carried \subseteq Rules /\ todo \subseteq Rules /\ owned \subseteq Rules
  /\ rewinds \in 0 .. MaxRewinds /\ starts \in 0 .. MaxStarts

\* The directory the journal is about.
Staged == journal.where

\* "The repo path is either absent or naming exactly one whole tree", and when
\* it is absent the journal leads recovery to a whole tree to put there.
NeverMixed ==
  \/ tree["repo"] \in Gens
  \/ /\ tree["repo"] = NoTree
     /\ journal.phase = "swapping"
     /\ tree[Staged] \in Gens

\* The live copy of an excluded path, the only copy there is, is at any moment
\* in the repo or in the directory the journal names, under a rule it lists --
\* where recover will find it.
LiveKept ==
  \A r \in owned :
    \/ at["repo"][r] = "live"
    \/ /\ at[Staged][r] = "live"
       /\ \E c \in journal.carried : r \in Under(c)

\* However a rewind ended, and whatever recovery had to do, a daemon that
\* serves has every excluded path of the user in place.
HomeWhenIdle ==
  pc = "idle" => \A r \in owned : at["repo"][r] = "live"

\* The journal is ahead of the disk: an excluded path leaves the repo only when
\* a "carrying" journal lists it, and the repo path changes hands only under a
\* "swapping" journal.
JournalLeads ==
  [][/\ \A r \in Rules :
          at["repo"][r] = "live" /\ at'["repo"][r] # "live" =>
            /\ journal.phase = "carrying"
            /\ \E c \in journal.carried : r \in Under(c)
     /\ tree'["repo"] # tree["repo"] => journal.phase = "swapping"]_vars

\* remove_any(&tmp) at the start of a rewind: "a tmp left by an earlier attempt
\* that failed before the swap is stale by construction".
StageIsStale ==
  pc = "clear" => \A r \in owned : at["tmp"][r] # "live"

\* An edit made while a rewind runs -- no checkpoint has it -- outlives that
\* rewind: it ends at the repo path or in the trash.  Only what comes later, the
\* next rewind clearing its stage and its scratch or the recovery of a dead
\* daemon, deletes it.
EditOutlivesItsRewind ==
  [][edit' = "gone" /\ edit # "gone" =>
       pc = "clear" \/ (edit = "scratch" /\ pc = "swap") \/ pc \in Recovering]_vars

\* The swap as its caller sees it.  On Windows, between the first rename and
\* the second, the tree at the repo path is the one set aside.
Shown == IF tree["repo"] = NoTree THEN tree["scratch"] ELSE tree["repo"]
Mode == IF pc = "idle" THEN "serving"
        ELSE IF pc \in Executing THEN "rewinding" ELSE "dead"
Promise == INSTANCE AtomicRewind WITH
             shown <- Shown, goal <- target, mode <- Mode,
             away <- {r \in owned : at["repo"][r] # "live"}

\* The journalled swap keeps the promise of an atomic rewind.
Implements == Promise!Spec
=============================================================================
