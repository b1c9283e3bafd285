-------------------------- MODULE RewindSwapProofs --------------------------
(***************************************************************************)
(* What holds of the journalled swap of RewindSwap.tla for every list of   *)
(* rules, every set of generations and every bound.                        *)
(***************************************************************************)
EXTENDS RewindSwap, TLAPS

(***************************************************************************)
(* What the file-system calls do to a well-formed disk.                    *)
(***************************************************************************)

\* remove_any leaves a well-formed disk.
LEMMA RemoveOK ==
  ASSUME DiskOK, NEW p \in Places, Remove(p)
  PROVE  DiskOK'
BY DEF DiskOK, Remove, Empty, Slots

\* A rename between two places leaves a well-formed disk.
LEMMA RenameOK ==
  ASSUME DiskOK, NEW p \in Places, NEW q \in Places, p # q, Rename(p, q)
  PROVE  DiskOK'
<1>1. tree' \in [Places -> Gens \cup {NoTree, Partial}] BY DEF DiskOK, Rename
<1>2. at' \in [Places -> [Rules -> Slots]]
  BY DEF DiskOK, Rename, Empty, Slots
<1>3. \A w \in Places : tree'[w] = NoTree => at'[w] = Empty
  BY DEF DiskOK, Rename
<1>4. edit' \in {"none", "saved", "gone", "trash"} \cup Places
  BY DEF DiskOK, Rename
<1> QED BY <1>1, <1>2, <1>3, <1>4 DEF DiskOK, Empty

\* Moving a rule between two existing directories leaves a well-formed disk.
LEMMA MoveRuleOK ==
  ASSUME DiskOK, NEW r \in Rules, NEW p \in Places, NEW q \in Places, p # q,
         tree[p] # NoTree, tree[q] # NoTree,
         MoveRule(r, p, q), UNCHANGED <<tree, edit>>
  PROVE  DiskOK'
<1>1. Left(at[p], r) \in [Rules -> Slots] BY DEF DiskOK, Left, Slots
<1>2. Joined(at[p], at[q], r) \in [Rules -> Slots]
  BY DEF DiskOK, Joined, Slots
<1>3. at' \in [Places -> [Rules -> Slots]]
  BY <1>1, <1>2 DEF DiskOK, MoveRule
<1>4. \A w \in Places : tree'[w] = NoTree => at'[w] = Empty
  BY DEF DiskOK, MoveRule
<1> QED BY <1>3, <1>4 DEF DiskOK, Empty

\* One turn of `move_back` leaves a well-formed disk when it moves into an
\* existing directory.
LEMMA MoveBackOK ==
  ASSUME DiskOK, NEW r \in Rules, NEW p \in Places, NEW q \in Places, p # q,
         tree[q] # NoTree, MoveBack(r, p, q)
  PROVE  DiskOK' /\ tree' = tree
<1>1. CASE UNCHANGED at BY <1>1 DEF MoveBack, DiskOK, Empty
<1>2. CASE at[p][r] # "none" /\ MoveRule(r, p, q)
  <2>1. tree[p] # NoTree BY <1>2 DEF DiskOK, Empty
  <2> QED BY <1>2, <2>1, MoveRuleOK DEF MoveBack
<1> QED BY <1>1, <1>2 DEF MoveBack

(***************************************************************************)
(* The state of the directories at every point of execute and recover.     *)
(***************************************************************************)

\* While a rewind runs the journal is about its own stage; after a crash the
\* journal that is left is about the stage of the dead daemon.
JournalNames ==
  /\ pc \in {"idle"} \cup Executing => journal.where = "tmp"
  /\ pc \in Recovering => journal.where = "old" /\ journal.phase # "none"
  /\ pc = "down" => journal.phase = "none" \/ journal.where = "old"
  /\ journal.phase = "none" => journal = NoJournal

\* What is staged.
StageHolds ==
  /\ pc = "stage" => tree["tmp"] = NoTree
  /\ pc \in {"journal", "fill"} => tree["tmp"] = Partial
  /\ pc \in {"plan", "carry", "swap", "vacate", "publish"} => tree["tmp"] = target
  /\ pc \in {"unwind", "park"} => tree["tmp"] \in Gens
  /\ pc \in {"publish", "aside"} => tree["scratch"] \in Gens
  /\ pc \in {"fill", "plan"} => journal.phase = "materializing"
  /\ pc = "carry" => journal.phase \in {"materializing", "carrying"}

\* The repo path is whole, but where a "swapping" journal leads to the tree
\* that is to go there.
RepoHolds ==
  /\ pc \in (Executing \ {"publish"}) => tree["repo"] \in Gens
  /\ pc \in {"swap", "vacate", "publish", "aside", "park"} => journal.phase = "swapping"
  /\ pc = "publish" => tree["repo"] = NoTree
  /\ pc \in {"recDrop", "recBack", "recScratch", "recDone"} => tree["repo"] \in Gens
  /\ pc = "recDrop" => journal.phase = "materializing"
  /\ pc = "recBack" => journal.phase \in {"carrying", "swapping"}
  /\ pc = "recLand" => tree["repo"] = NoTree /\ journal.phase = "swapping"
  /\ tree["repo"] = NoTree => tree["scratch"] \in Gens /\ tree[Staged] = target

SwapInv == TypeOK /\ JournalNames /\ StageHolds /\ RepoHolds /\ NeverMixed

(***************************************************************************)
(* Where the live copies are.                                              *)
(***************************************************************************)

\* Between the plan and the swap, a live copy in the repo is one the loop of
\* `carry` has still to move, and the journal lists it.
StillToCarry ==
  /\ pc = "carry" =>
       /\ todo \subseteq carried
       /\ todo # {} => journal.phase = "carrying"
       /\ \A r \in Rules :
            at["repo"][r] = "live" => \E c \in todo : r \in Under(c)
  /\ pc \in {"carry", "unwind"} /\ journal.phase = "carrying" =>
       journal.carried = carried
  /\ pc = "unwind" => journal.phase = "carrying" /\ todo \subseteq carried
  /\ pc \in {"swap", "vacate"} =>
       \A r \in Rules : at["repo"][r] # "live"

\* What lies under an absent path is absent.
ClosedDir(d) == \A r \in Rules : \A q \in Above(r) : d[r] # "none" => d[q] # "none"
Closed == \A p \in Places : ClosedDir(at[p])

CarryInv == SwapInv /\ Closed /\ StillToCarry

\* The conditions under which the excluded paths are safe: no rule stands under
\* another, and of the failures the code leaves unanswered none happens.
Benign ==
  /\ Nested = {}
  /\ Faults \cap {"journal", "back", "exchange", "recreate"} = {}

Home(r) == at["repo"][r] = "live"

\* A live copy that is not in the repo is staged, where the journal says, and
\* the slot it left is free for it to come back to.
AwayStaged ==
  \A r \in owned :
    \/ Home(r)
    \/ /\ at[Staged][r] = "live" /\ at["repo"][r] = "none"
       /\ journal.phase \in {"carrying", "swapping"}
       /\ r \in journal.carried

HomeInv ==
  /\ AwayStaged
  /\ pc \notin {"carry", "unwind", "swap", "vacate", "publish",
                "down", "recBack", "recLand"} => \A r \in owned : Home(r)
  /\ pc = "carry" => \A r \in owned : Home(r) <=> r \in todo
  /\ pc \in {"unwind", "recBack"} => \A r \in owned \ todo : Home(r)
  /\ pc \in {"swap", "vacate", "publish"} => \A r \in owned : ~ Home(r)

LiveInv == CarryInv /\ HomeInv

-----------------------------------------------------------------------------
(***************************************************************************)
(* SwapInv is inductive, whatever fails and however the rules are nested.  *)
(***************************************************************************)

\* The program starts on a whole repo with no journal.
LEMMA SwapInit == Init => SwapInv
<1> SUFFICES ASSUME Init PROVE SwapInv OBVIOUS
<1>1. tree \in [Places -> Gens \cup {NoTree, Partial}] BY DEF Init
<1>2. at \in [Places -> [Rules -> Slots]]
      /\ \A p \in Places : tree[p] = NoTree => at[p] = Empty
  BY GensAssumption DEF Init, Slots, Empty, Places
<1>3. tree["repo"] \in Gens /\ target \in Gens BY DEF Init, Places
<1>4. TypeOK
  BY <1>1, <1>2, <1>3, BoundsAssumption
  DEF Init, TypeOK, DiskOK, Phases, NoJournal
<1> QED
  BY <1>3, <1>4, GensAssumption
  DEF Init, SwapInv, JournalNames, StageHolds, RepoHolds, NeverMixed, NoJournal,
      Executing, Recovering

\* Every step of the program keeps SwapInv.
LEMMA SwapStep ==
  ASSUME SwapInv, [Next]_vars
  PROVE  SwapInv'
<1> USE GensAssumption DEF NoTree, Partial
<1>0. DiskOK /\ target \in Gens BY DEF SwapInv, TypeOK
<1>1. ASSUME NEW g \in Gens, Begin(g) PROVE SwapInv'
  <2>1. DiskOK' BY <1>0, <1>1 DEF Begin, DiskOK, Empty, Places
  <2> QED
    BY <2>1, <1>1, BoundsAssumption
    DEF Begin, disk, fixed, bounds, SwapInv, TypeOK, JournalNames, StageHolds, RepoHolds, NeverMixed, Staged,
        Executing, Recovering, Phases, NoTree, Partial, Places, NoJournal
<1>2. CASE ClearStage
  <2>1. DiskOK' BY <1>0, <1>2, RemoveOK DEF ClearStage, Places
  <2> QED
    BY <2>1, <1>2, <1>0, BoundsAssumption
    DEF ClearStage, Remove, DiskOK, fixed, bounds, disk, SwapInv, TypeOK, JournalNames, StageHolds, RepoHolds, NeverMixed, Staged,
        Executing, Recovering, Phases, NoTree, Partial, Places, NoJournal
<1>3. CASE MakeStage
  <2>1. DiskOK' BY <1>0, <1>3 DEF MakeStage, DiskOK, Empty, Places
  <2> QED
    BY <2>1, <1>3, <1>0, BoundsAssumption
    DEF MakeStage, DiskOK, fixed, bounds, disk, SwapInv, TypeOK, JournalNames, StageHolds, RepoHolds, NeverMixed, Staged,
        Executing, Recovering, Phases, NoTree, Partial, Places, NoJournal
<1>4. CASE JournalMaterializing
  <2>1. DiskOK' BY <1>0, <1>4 DEF JournalMaterializing, WriteJournal, disk, DiskOK, Empty
  <2> QED
    BY <2>1, <1>4, BoundsAssumption
    DEF JournalMaterializing, WriteJournal, disk, fixed, bounds, SwapInv, TypeOK, JournalNames, StageHolds, RepoHolds, NeverMixed, Staged,
        Executing, Recovering, Phases, NoTree, Partial, Places, NoJournal
<1>5. CASE Materialize
  <2>1. DiskOK' BY <1>0, <1>5 DEF Materialize, DiskOK, Empty, Places, Slots
  <2> QED
    BY <2>1, <1>5, <1>0, BoundsAssumption
    DEF Materialize, DiskOK, fixed, bounds, disk, SwapInv, TypeOK, JournalNames, StageHolds, RepoHolds, NeverMixed, Staged,
        Executing, Recovering, Phases, NoTree, Partial, Places, NoJournal
<1>6. CASE MaterializeFails
  <2>1. DiskOK' BY <1>0, <1>6 DEF MaterializeFails, disk, DiskOK, Empty
  <2> QED
    BY <2>1, <1>6, BoundsAssumption
    DEF MaterializeFails, disk, fixed, bounds, SwapInv, TypeOK, JournalNames, StageHolds, RepoHolds, NeverMixed, Staged,
        Executing, Recovering, Phases, NoTree, Partial, Places, NoJournal
<1>7. CASE Plan
  <2>1. DiskOK' BY <1>0, <1>7 DEF Plan, WriteJournal, disk, DiskOK, Empty
  <2> QED
    BY <2>1, <1>7, BoundsAssumption
    DEF Plan, WriteJournal, disk, fixed, bounds, SwapInv, TypeOK, JournalNames, StageHolds, RepoHolds, NeverMixed, Staged,
        Executing, Recovering, Phases, NoTree, Partial, Places, NoJournal
<1>8. ASSUME NEW r \in Rules, Carry(r) PROVE SwapInv'
  <2>1. DiskOK'
    <3>1. tree["repo"] # NoTree /\ tree["tmp"] # NoTree
      BY <1>8, <1>0 DEF Carry, SwapInv, StageHolds, RepoHolds, Executing
    <3> QED BY <1>0, <1>8, <3>1, MoveRuleOK DEF Carry, DiskOK, Empty, Places
  <2> QED
    BY <2>1, <1>8 DEF Carry, fixed, bounds, SwapInv, TypeOK, JournalNames, StageHolds, RepoHolds, NeverMixed, Staged,
        Executing, Recovering, Phases, NoTree, Partial, Places, NoJournal
<1>9. ASSUME NEW r \in Rules, CarryFails(r) PROVE SwapInv'
  <2>1. DiskOK'
    <3>1. tree["tmp"] # NoTree
      BY <1>9, <1>0 DEF CarryFails, SwapInv, StageHolds
    <3>2. at["tmp"] \in [Rules -> Slots] /\ Left(at["tmp"], r) \in [Rules -> Slots]
      BY <1>0 DEF DiskOK, Left, Slots, Places
    <3> QED BY <1>0, <1>9, <3>1, <3>2 DEF CarryFails, DiskOK, Empty, Places
  <2> QED
    BY <2>1, <1>0, <1>9 DEF CarryFails, fixed, bounds, SwapInv, TypeOK, JournalNames, StageHolds, RepoHolds, NeverMixed, Staged,
        Executing, Recovering, Phases, NoTree, Partial, Places, NoJournal
<1>10. ASSUME NEW r \in Rules, Unwind(r) PROVE SwapInv'
  <2>1. DiskOK' /\ tree' = tree
    <3>1. tree["repo"] # NoTree
      BY <1>10, <1>0 DEF Unwind, SwapInv, RepoHolds, Executing
    <3> QED BY <1>0, <1>10, <3>1, MoveBackOK DEF Unwind, Places
  <2> QED
    BY <2>1, <1>0, <1>10 DEF Unwind, fixed, bounds, SwapInv, TypeOK, JournalNames, StageHolds, RepoHolds, NeverMixed, Staged,
        Executing, Recovering, Phases, NoTree, Partial, Places, NoJournal
<1>11. CASE DropStage
  <2>1. DiskOK' BY <1>0, <1>11, RemoveOK DEF DropStage, Places
  <2> QED
    BY <2>1, <1>11, <1>0, BoundsAssumption
    DEF DropStage, Remove, DiskOK, fixed, bounds, disk, SwapInv, TypeOK, JournalNames, StageHolds, RepoHolds, NeverMixed, Staged,
        Executing, Recovering, Phases, NoTree, Partial, Places, NoJournal
<1>12. CASE ClearJournal
  <2>1. DiskOK' BY <1>0, <1>12 DEF ClearJournal, disk, DiskOK, Empty
  <2> QED
    BY <2>1, <1>12, BoundsAssumption
    DEF ClearJournal, disk, fixed, bounds, SwapInv, TypeOK, JournalNames, StageHolds, RepoHolds, NeverMixed, Staged,
        Executing, Recovering, Phases, NoTree, Partial, Places, NoJournal
<1>13. CASE JournalSwapping
  <2>1. DiskOK' BY <1>0, <1>13 DEF JournalSwapping, WriteJournal, disk, DiskOK, Empty
  <2> QED
    BY <2>1, <1>13, BoundsAssumption
    DEF JournalSwapping, WriteJournal, disk, fixed, bounds, SwapInv, TypeOK, JournalNames, StageHolds, RepoHolds, NeverMixed, Staged,
        Executing, Recovering, Phases, NoTree, Partial, Places, NoJournal
<1>14. CASE Exchange
  <2>1. DiskOK' BY <1>0, <1>14 DEF Exchange, DiskOK, Empty, Places
  <2> QED
    BY <2>1, <1>14, <1>0, BoundsAssumption, ZenonT(40)
    DEF Exchange, DiskOK, fixed, bounds, disk, SwapInv, TypeOK, JournalNames, StageHolds, RepoHolds, NeverMixed, Staged,
        Executing, Recovering, Phases, NoTree, Partial, Places, NoJournal
<1>15. CASE ClearScratch
  <2>1. DiskOK' BY <1>0, <1>15, RemoveOK DEF ClearScratch, Places
  <2> QED
    BY <2>1, <1>15, <1>0, BoundsAssumption
    DEF ClearScratch, Remove, DiskOK, fixed, bounds, disk, SwapInv, TypeOK, JournalNames, StageHolds, RepoHolds, NeverMixed, Staged,
        Executing, Recovering, Phases, NoTree, Partial, Places, NoJournal
<1>16. CASE Vacate
  <2>1. DiskOK' BY <1>0, <1>16, RenameOK DEF Vacate, Places
  <2> QED
    BY <2>1, <1>16, <1>0, BoundsAssumption
    DEF Vacate, Rename, DiskOK, fixed, bounds, disk, SwapInv, TypeOK, JournalNames, StageHolds, RepoHolds, NeverMixed, Staged,
        Executing, Recovering, Phases, NoTree, Partial, Places, NoJournal
<1>17. CASE Publish
  <2>1. DiskOK' BY <1>0, <1>17, RenameOK DEF Publish, Places
  <2> QED
    BY <2>1, <1>17, <1>0, BoundsAssumption
    DEF Publish, Rename, DiskOK, fixed, bounds, disk, SwapInv, TypeOK, JournalNames, StageHolds, RepoHolds, NeverMixed, Staged,
        Executing, Recovering, Phases, NoTree, Partial, Places, NoJournal
<1>18. CASE MoveAside
  <2>1. DiskOK' BY <1>0, <1>18, RenameOK DEF MoveAside, Places
  <2> QED
    BY <2>1, <1>18, <1>0, BoundsAssumption
    DEF MoveAside, Rename, DiskOK, fixed, bounds, disk, SwapInv, TypeOK, JournalNames, StageHolds, RepoHolds, NeverMixed, Staged,
        Executing, Recovering, Phases, NoTree, Partial, Places, NoJournal
<1>19. CASE ExchangeFails
  <2>1. DiskOK'
    <3>1. CASE UNCHANGED disk BY <1>0, <3>1 DEF disk, DiskOK, Empty
    <3>2. CASE Rename("scratch", "repo") BY <1>0, <3>2, RenameOK DEF Places
    <3> QED BY <1>19, <3>1, <3>2 DEF ExchangeFails
  <2> QED
    BY <2>1, <1>19, <1>0, BoundsAssumption
    DEF ExchangeFails, Rename, DiskOK, fixed, bounds, disk, SwapInv, TypeOK, JournalNames, StageHolds, RepoHolds, NeverMixed, Staged,
        Executing, Recovering, Phases, NoTree, Partial, Places, NoJournal
<1>20. CASE Park
  <2>1. DiskOK' BY <1>0, <1>20 DEF Park, disk, DiskOK, Empty, Places, Slots
  <2> QED
    BY <2>1, <1>20, <1>0, BoundsAssumption
    DEF Park, DiskOK, fixed, bounds, disk, SwapInv, TypeOK, JournalNames, StageHolds, RepoHolds, NeverMixed, Staged,
        Executing, Recovering, Phases, NoTree, Partial, Places, NoJournal
<1>21. CASE Crash
  <2>1. DiskOK' BY <1>0, <1>21 DEF Crash, DiskOK, Empty, Places, Slots
  <2>2. /\ pc' = "down" /\ target' = target /\ tree'["repo"] = tree["repo"]
        /\ tree'["scratch"] = tree["scratch"]
        /\ journal' = IF journal.phase = "none" THEN journal
                      ELSE [journal EXCEPT !.where = "old"]
    BY <1>21, <1>0 DEF Crash, DiskOK, Places
  <2>3. /\ journal \in [phase : Phases, where : {"tmp", "old"}, carried : SUBSET Rules]
        /\ journal' \in [phase : Phases, where : {"tmp", "old"}, carried : SUBSET Rules]
        /\ journal'.phase = journal.phase
        /\ journal'.phase # "none" => journal'.where = "old"
    BY <2>2 DEF SwapInv, TypeOK
  <2>4. ASSUME tree["repo"] = NoTree
        PROVE  tree'[journal'.where] = tree[journal.where]
    <3>1. journal.phase = "swapping" BY <2>4 DEF SwapInv, NeverMixed
    <3>2. pc \in {"idle", "publish", "down", "recLand"}
      BY <2>4, <1>0 DEF SwapInv, TypeOK, RepoHolds, Executing, Recovering
    <3>3. tree'["old"] = tree[IF journal.where = "old" THEN "old" ELSE "tmp"]
      BY <3>2, <1>21, <1>0 DEF Crash, DiskOK, Places
    <3> QED BY <2>3, <3>1, <3>3
  <2>5. TypeOK'
    BY <2>1, <2>3, <1>21 DEF Crash, fixed, bounds, SwapInv, TypeOK
  <2>6. JournalNames'
    BY <2>2, <2>3 DEF SwapInv, JournalNames, Executing, Recovering
  <2>7. StageHolds' BY <2>2 DEF StageHolds
  <2>8. RepoHolds'
    BY <2>2, <2>4 DEF SwapInv, RepoHolds, Staged, Executing
  <2>9. NeverMixed'
    BY <2>2, <2>3, <2>4 DEF SwapInv, NeverMixed, Staged
  <2> QED BY <2>5, <2>6, <2>7, <2>8, <2>9 DEF SwapInv
<1>22. CASE Restart
  <2>1. DiskOK' BY <1>0, <1>22 DEF Restart, disk, DiskOK, Empty
  <2>2. /\ pc = "down" /\ journal' = journal /\ tree' = tree /\ target' = target
        /\ journal \in [phase : Phases, where : {"tmp", "old"}, carried : SUBSET Rules]
        /\ journal.where = IF journal.phase = "none" THEN "tmp" ELSE "old"
        /\ tree["repo"] \in Gens \/ tree["repo"] = NoTree
    BY <1>22 DEF Restart, disk, SwapInv, TypeOK, JournalNames, NeverMixed, NoJournal
  <2>3. starts' \in 0 .. MaxStarts
    BY <1>22, BoundsAssumption DEF Restart, SwapInv, TypeOK
  <2>4. TypeOK'
    BY <2>1, <2>2, <2>3, <1>22
    DEF Restart, fixed, SwapInv, TypeOK, Recovering, Executing
  <2>5. NeverMixed' BY <2>2 DEF SwapInv, NeverMixed, Staged
  <2>6. JournalNames'
    BY <2>2, <1>22
    DEF Restart, SwapInv, JournalNames, Recovering, Executing, Phases, NoJournal
  <2>7. StageHolds' /\ RepoHolds'
    BY <2>2, <1>22
    DEF Restart, SwapInv, NeverMixed, Staged, StageHolds, RepoHolds, Executing
  <2> QED BY <2>4, <2>5, <2>6, <2>7 DEF SwapInv
<1>23. ASSUME NEW r \in Rules, RecoverBack(r) PROVE SwapInv'
  <2>1. DiskOK' /\ tree' = tree
    <3>1. tree["repo"] # NoTree
      BY <1>23, <1>0 DEF RecoverBack, SwapInv, RepoHolds
    <3> QED BY <1>0, <1>23, <3>1, MoveBackOK DEF RecoverBack, Places
  <2> QED
    BY <2>1, <1>0, <1>23 DEF RecoverBack, fixed, bounds, SwapInv, TypeOK, JournalNames, StageHolds, RepoHolds, NeverMixed, Staged,
        Executing, Recovering, Phases, NoTree, Partial, Places, NoJournal
<1>24. CASE RecoverLand
  <2>1. DiskOK'
    <3>1. CASE UNCHANGED disk BY <1>0, <3>1 DEF disk, DiskOK, Empty
    <3>2. CASE Rename("old", "repo") BY <1>0, <3>2, RenameOK DEF Places
    <3> QED BY <1>24, <3>1, <3>2 DEF RecoverLand
  <2> QED
    BY <2>1, <1>24, <1>0, BoundsAssumption
    DEF RecoverLand, Rename, DiskOK, fixed, bounds, disk, SwapInv, TypeOK, JournalNames, StageHolds, RepoHolds, NeverMixed, Staged,
        Executing, Recovering, Phases, NoTree, Partial, Places, NoJournal
<1>25. CASE RecoverDrop
  <2>1. DiskOK' BY <1>0, <1>25, RemoveOK DEF RecoverDrop, Places
  <2> QED
    BY <2>1, <1>25, <1>0, BoundsAssumption
    DEF RecoverDrop, Remove, DiskOK, fixed, bounds, disk, SwapInv, TypeOK, JournalNames, StageHolds, RepoHolds, NeverMixed, Staged,
        Executing, Recovering, Phases, NoTree, Partial, Places, NoJournal
<1>26. CASE RecoverScratch
  <2>1. DiskOK'
    <3>1. CASE UNCHANGED disk BY <1>0, <3>1 DEF disk, DiskOK, Empty
    <3>2. CASE Remove("scratch") BY <1>0, <3>2, RemoveOK DEF Places
    <3> QED BY <1>26, <3>1, <3>2 DEF RecoverScratch
  <2> QED
    BY <2>1, <1>26, <1>0, BoundsAssumption
    DEF RecoverScratch, Remove, DiskOK, fixed, bounds, disk, SwapInv, TypeOK, JournalNames, StageHolds, RepoHolds, NeverMixed, Staged,
        Executing, Recovering, Phases, NoTree, Partial, Places, NoJournal
<1>27. CASE RecoverDone
  <2>1. DiskOK' BY <1>0, <1>27 DEF RecoverDone, disk, DiskOK, Empty
  <2> QED
    BY <2>1, <1>27, BoundsAssumption
    DEF RecoverDone, disk, fixed, bounds, SwapInv, TypeOK, JournalNames, StageHolds, RepoHolds, NeverMixed, Staged,
        Executing, Recovering, Phases, NoTree, Partial, Places, NoJournal
<1>28. CASE Edit
  <2>1. DiskOK' BY <1>0, <1>28 DEF Edit, DiskOK, Empty, Places
  <2> QED
    BY <2>1, <1>28, <1>0, BoundsAssumption
    DEF Edit, fixed, bounds, disk, SwapInv, TypeOK, JournalNames, StageHolds, RepoHolds, NeverMixed, Staged,
        Executing, Recovering, Phases, NoTree, Partial, Places, NoJournal
<1>29. ASSUME NEW r \in Rules, Recreate(r) PROVE SwapInv'
  <2>1. DiskOK' BY <1>0, <1>29 DEF Recreate, DiskOK, Empty, Places, Slots
  <2> QED
    BY <2>1, <1>29, <1>0, BoundsAssumption
    DEF Recreate, fixed, bounds, disk, SwapInv, TypeOK, JournalNames, StageHolds, RepoHolds, NeverMixed, Staged,
        Executing, Recovering, Phases, NoTree, Partial, Places, NoJournal
<1>30. CASE UNCHANGED vars
  <2>1. DiskOK' BY <1>0, <1>30 DEF vars, DiskOK, Empty
  <2> QED
    BY <2>1, <1>30 DEF vars, SwapInv, TypeOK, JournalNames, StageHolds, RepoHolds, NeverMixed, Staged
<1> QED
  BY <1>1, <1>2, <1>3, <1>4, <1>5, <1>6, <1>7, <1>8, <1>9, <1>10, <1>11, <1>12, <1>13, <1>14, <1>15, <1>16, <1>17, <1>18, <1>19, <1>20, <1>21, <1>22, <1>23, <1>24, <1>25, <1>26, <1>27, <1>28, <1>29, <1>30
  DEF Next, Execute, Recover, Others

\* The type invariant holds, for every instance of the constants.
THEOREM TypeCorrect == Spec => []TypeOK
<1>1. Init => SwapInv BY SwapInit
<1>2. SwapInv /\ [Next]_vars => SwapInv' BY SwapStep
<1>3. SwapInv => TypeOK BY DEF SwapInv
<1> QED BY <1>1, <1>2, <1>3, PTL DEF Spec

\* The repo path never names a mixture of two trees, and when it names nothing
\* the journal leads recovery to a whole tree: whatever fails, wherever the
\* daemon dies, on every platform.
THEOREM NeverMixedHolds == Spec => []NeverMixed
<1>1. Init => SwapInv BY SwapInit
<1>2. SwapInv /\ [Next]_vars => SwapInv' BY SwapStep
<1>3. SwapInv => NeverMixed BY DEF SwapInv
<1> QED BY <1>1, <1>2, <1>3, PTL DEF Spec

-----------------------------------------------------------------------------
(***************************************************************************)
(* Directories stay closed: no path is present without those above it.     *)
(***************************************************************************)

\* An empty directory holds nothing below a path it does not hold.
LEMMA EmptyClosed == ClosedDir(Empty)
BY DEF ClosedDir, Empty, Above

\* What is left of a directory when a rule moved out is closed.
LEMMA LeftClosed ==
  ASSUME NEW d \in [Rules -> Slots], ClosedDir(d), NEW r \in Rules
  PROVE  ClosedDir(Left(d, r))
BY RulesAssumption DEF ClosedDir, Left, Above, Under

\* So is a directory a rule moved into.
LEMMA JoinedClosed ==
  ASSUME NEW c \in [Rules -> Slots], ClosedDir(c),
         NEW d \in [Rules -> Slots], ClosedDir(d),
         NEW r \in Rules, c[r] # "none"
  PROVE  ClosedDir(Joined(c, d, r))
<1> SUFFICES ASSUME NEW x \in Rules, NEW y \in Above(x),
                    Joined(c, d, r)[x] # "none"
             PROVE  Joined(c, d, r)[y] # "none"
  BY DEF ClosedDir
<1>0. y \in Rules /\ <<y, x>> \in Nested BY DEF Above
<1>1. CASE x \in Under(r)
  <2>1. c[x] # "none" BY <1>1 DEF Joined
  <2>2. c[y] # "none" BY <2>1 DEF ClosedDir
  <2>3. y \in Under(r) \/ y \in Above(r)
    BY <1>0, <1>1, RulesAssumption DEF Under, Above
  <2> QED BY <1>0, <2>2, <2>3, RulesAssumption DEF Joined, Under, Above
<1>2. CASE x \notin Under(r) /\ x \in Above(r)
  <2>1. y \in Above(r) BY <1>0, <1>2, RulesAssumption DEF Above
  <2>2. y \notin Under(r)
    BY <1>0, <2>1, RulesAssumption DEF Above, Under
  <2> QED BY <1>0, <2>1, <2>2 DEF Joined
<1>3. CASE x \notin Under(r) /\ x \notin Above(r)
  <2>1. d[x] # "none" BY <1>3 DEF Joined
  <2>2. d[y] # "none" BY <2>1 DEF ClosedDir
  <2>3. y \notin Under(r)
    BY <1>0, <1>3, RulesAssumption DEF Under
  <2> QED BY <1>0, <2>2, <2>3 DEF Joined
<1> QED BY <1>1, <1>2, <1>3

\* Moving a rule keeps what is below a path where that path is.
LEMMA MoveRuleClosed ==
  ASSUME DiskOK, Closed, NEW r \in Rules, NEW p \in Places, NEW q \in Places,
         p # q, at[p][r] # "none", MoveRule(r, p, q)
  PROVE  Closed'
<1>1. at[p] \in [Rules -> Slots] /\ at[q] \in [Rules -> Slots] BY DEF DiskOK
<1>2. ClosedDir(at[p]) /\ ClosedDir(at[q]) BY DEF Closed
<1>3. ClosedDir(Left(at[p], r)) /\ ClosedDir(Joined(at[p], at[q], r))
  BY <1>1, <1>2, LeftClosed, JoinedClosed
<1>4. \A w \in Places : at'[w] = IF w = q THEN Joined(at[p], at[q], r)
                                 ELSE IF w = p THEN Left(at[p], r) ELSE at[w]
  BY DEF MoveRule, DiskOK
<1> QED BY <1>3, <1>4 DEF Closed, ClosedDir, Above

\* Every step keeps the directories closed.
LEMMA ClosedStep ==
  ASSUME SwapInv, Closed, [Next]_vars
  PROVE  Closed'
<1>0. DiskOK BY DEF SwapInv, TypeOK
<1>1. CASE UNCHANGED at BY <1>1 DEF Closed, ClosedDir, Above
<1>2. ASSUME NEW p \in Places, Remove(p) PROVE Closed'
  BY <1>0, <1>2, EmptyClosed DEF Remove, Closed, ClosedDir, Above, DiskOK
<1>3. ASSUME NEW p \in Places, NEW q \in Places, p # q, Rename(p, q) PROVE Closed'
  BY <1>0, <1>3, EmptyClosed DEF Rename, Closed, ClosedDir, Above, DiskOK
<1>4. ASSUME NEW r \in Rules, NEW p \in Places, NEW q \in Places, p # q,
             MoveBack(r, p, q)
      PROVE  Closed'
  BY <1>0, <1>1, <1>4, MoveRuleClosed DEF MoveBack
<1>5. ASSUME NEW g \in Gens, Begin(g) PROVE Closed' BY <1>1, <1>5 DEF Begin
<1>6. CASE MakeStage BY <1>1, <1>6 DEF MakeStage, disk
<1>7. CASE JournalMaterializing BY <1>1, <1>7 DEF JournalMaterializing, disk
<1>8. CASE MaterializeFails BY <1>1, <1>8 DEF MaterializeFails, disk
<1>9. CASE Plan BY <1>1, <1>9 DEF Plan, disk
<1>10. CASE ClearJournal BY <1>1, <1>10 DEF ClearJournal, disk
<1>11. CASE JournalSwapping BY <1>1, <1>11 DEF JournalSwapping, disk
<1>12. CASE Restart BY <1>1, <1>12 DEF Restart, disk
<1>13. CASE RecoverDone BY <1>1, <1>13 DEF RecoverDone, disk
<1>14. CASE Edit BY <1>1, <1>14 DEF Edit, disk
<1>15. CASE ClearStage BY <1>2, <1>15 DEF ClearStage, Places
<1>16. CASE DropStage BY <1>2, <1>16 DEF DropStage, Places
<1>17. CASE ClearScratch BY <1>2, <1>17 DEF ClearScratch, Places
<1>18. CASE RecoverDrop BY <1>2, <1>18 DEF RecoverDrop, Places
<1>19. CASE RecoverScratch BY <1>1, <1>2, <1>19 DEF RecoverScratch, Places, disk
<1>20. CASE Vacate BY <1>3, <1>20 DEF Vacate, Places
<1>21. CASE Publish BY <1>3, <1>21 DEF Publish, Places
<1>22. CASE MoveAside BY <1>3, <1>22 DEF MoveAside, Places
<1>23. CASE ExchangeFails BY <1>1, <1>3, <1>23 DEF ExchangeFails, Places, disk
<1>24. CASE RecoverLand BY <1>1, <1>3, <1>24 DEF RecoverLand, Places, disk
<1>25. ASSUME NEW r \in Rules, Unwind(r) PROVE Closed'
  BY <1>4, <1>25 DEF Unwind, Places
<1>26. ASSUME NEW r \in Rules, RecoverBack(r) PROVE Closed'
  BY <1>4, <1>26 DEF RecoverBack, Places
<1>27. ASSUME NEW r \in Rules, Carry(r) PROVE Closed'
  BY <1>0, <1>1, <1>27, MoveRuleClosed DEF Carry, Places
<1>28. ASSUME NEW r \in Rules, CarryFails(r) PROVE Closed'
  <2>1. ClosedDir(Left(at["tmp"], r)) BY <1>0, LeftClosed DEF Closed, DiskOK, Places
  <2> QED BY <1>0, <1>1, <1>28, <2>1 DEF CarryFails, Closed, ClosedDir, Above, DiskOK
<1>29. CASE Materialize BY <1>0, <1>29 DEF Materialize, Closed, ClosedDir, Above, DiskOK
<1>30. CASE Exchange BY <1>0, <1>30 DEF Exchange, Closed, ClosedDir, Above, DiskOK, Places
<1>31. CASE Park BY <1>0, <1>1, <1>31, EmptyClosed DEF Park, Closed, ClosedDir, Above, DiskOK, disk
<1>32. CASE Crash
  <2>1. \A w \in Places : at'[w] = Empty \/ \E x \in Places : at'[w] = at[x]
    BY <1>0, <1>32 DEF Crash, DiskOK, Places
  <2> QED BY <1>0, <2>1, EmptyClosed DEF Closed, ClosedDir, Above, Places
<1>33. ASSUME NEW r \in Rules, Recreate(r) PROVE Closed'
  BY <1>0, <1>33, RulesAssumption DEF Recreate, Closed, ClosedDir, Above, DiskOK
<1>34. CASE UNCHANGED vars BY <1>1, <1>34 DEF vars
<1> QED
  BY <1>5, <1>6, <1>7, <1>8, <1>9, <1>10, <1>11, <1>12, <1>13, <1>14, <1>15,
     <1>16, <1>17, <1>18, <1>19, <1>20, <1>21, <1>22, <1>23, <1>24, <1>25,
     <1>26, <1>27, <1>28, <1>29, <1>30, <1>31, <1>32, <1>33, <1>34
  DEF Next, Execute, Recover, Others

-----------------------------------------------------------------------------
(***************************************************************************)
(* The journal is ahead of the disk, for any nesting of the rules and any  *)
(* failure.                                                                *)
(***************************************************************************)

\* Moving a rule into a repo that lacks it takes no live copy away from there.
LEMMA MoveBackKeepsRepo ==
  ASSUME DiskOK, Closed, NEW r \in Rules, NEW p \in Places, p # "repo",
         MoveBack(r, p, "repo"), NEW x \in Rules, at["repo"][x] = "live"
  PROVE  at'["repo"][x] = "live"
<1>1. CASE UNCHANGED at BY <1>1
<1>2. CASE at["repo"][r] = "none" /\ MoveRule(r, p, "repo")
  <2>1. x \notin Under(r)
    BY <1>2 DEF Closed, ClosedDir, Under, Above, Places
  <2>2. at'["repo"] = Joined(at[p], at["repo"], r)
    BY <1>2 DEF MoveRule, DiskOK, Places
  <2> QED BY <2>1, <2>2 DEF Joined
<1> QED BY <1>1, <1>2 DEF MoveBack

\* A turn of `carry` takes from the repo what is at or under its rule, no more.
LEMMA CarryTakes ==
  ASSUME CarryInv, NEW r \in Rules, Carry(r), NEW x \in Rules,
         at["repo"][x] = "live"
  PROVE  at'["repo"][x] = "live" \/ x \in Under(r)
<1>1. DiskOK BY DEF CarryInv, SwapInv, TypeOK
<1>2. CASE UNCHANGED at BY <1>2
<1>3. CASE MoveRule(r, "repo", "tmp")
  <2>1. at'["repo"] = Left(at["repo"], r)
    BY <1>1, <1>3 DEF MoveRule, DiskOK, Places
  <2> QED BY <2>1 DEF Left
<1> QED BY <1>2, <1>3 DEF Carry

\* ... and leaves nothing there that the loop would not visit any more.
LEMMA CarryLeaves ==
  ASSUME CarryInv, NEW r \in Rules, Carry(r), NEW x \in Rules,
         at'["repo"][x] = "live"
  PROVE  at["repo"][x] = "live" /\ x \notin Under(r)
<1>1. DiskOK BY DEF CarryInv, SwapInv, TypeOK
<1>2. CASE at["repo"][r] = "none"
  <2>1. UNCHANGED at BY <1>2 DEF Carry
  <2> QED BY <1>2, <2>1 DEF CarryInv, Closed, ClosedDir, Under, Above, Places
<1>3. CASE at["repo"][r] # "none"
  <2>1. at'["repo"] = Left(at["repo"], r)
    BY <1>1, <1>3 DEF Carry, MoveRule, DiskOK, Places
  <2> QED BY <2>1 DEF Left
<1> QED BY <1>2, <1>3

\* Every step keeps StillToCarry.
LEMMA CarryStep ==
  ASSUME CarryInv, [Next]_vars
  PROVE  CarryInv'
<1>0. SwapInv' /\ Closed' BY SwapStep, ClosedStep DEF CarryInv
<1> SUFFICES StillToCarry' BY <1>0 DEF CarryInv
<1>1. CASE pc' \notin {"carry", "unwind", "swap", "vacate"}
  BY <1>1 DEF StillToCarry
<1>2. ASSUME NEW g \in Gens, Begin(g) PROVE StillToCarry' BY <1>1, <1>2 DEF Begin
<1>3. CASE ClearStage BY <1>1, <1>3 DEF ClearStage
<1>4. CASE MakeStage BY <1>1, <1>4 DEF MakeStage
<1>5. CASE JournalMaterializing BY <1>1, <1>5 DEF JournalMaterializing
<1>6. CASE Materialize BY <1>1, <1>6 DEF Materialize
<1>7. CASE MaterializeFails BY <1>1, <1>7 DEF MaterializeFails
<1>8. CASE DropStage BY <1>1, <1>8 DEF DropStage
<1>9. CASE ClearJournal BY <1>1, <1>9 DEF ClearJournal
<1>10. CASE Exchange BY <1>1, <1>10 DEF Exchange
<1>11. CASE Vacate BY <1>1, <1>11 DEF Vacate
<1>12. CASE Publish BY <1>1, <1>12 DEF Publish
<1>13. CASE MoveAside BY <1>1, <1>13 DEF MoveAside
<1>14. CASE ExchangeFails BY <1>1, <1>14 DEF ExchangeFails
<1>15. CASE Park BY <1>1, <1>15 DEF Park
<1>16. CASE Crash BY <1>1, <1>16 DEF Crash
<1>17. CASE Restart BY <1>1, <1>17 DEF Restart
<1>18. CASE RecoverLand BY <1>1, <1>18 DEF RecoverLand
<1>19. CASE RecoverDrop BY <1>1, <1>19 DEF RecoverDrop
<1>20. CASE RecoverScratch BY <1>1, <1>20 DEF RecoverScratch
<1>21. CASE RecoverDone BY <1>1, <1>21 DEF RecoverDone
<1>22. ASSUME NEW r \in Rules, RecoverBack(r) PROVE StillToCarry' BY <1>1, <1>22 DEF RecoverBack
<1>23. CASE Plan
  <2>1. CASE pc' = "idle" BY <1>1, <2>1
  <2>2. CASE pc' = "carry"
    <3>1. \A r \in Rules : at["repo"][r] = "live" => r \in todo' /\ r \in Under(r)
      BY <1>23, <2>2 DEF Plan, Under
    <3> QED
      BY <1>23, <2>2, <3>1
      DEF Plan, WriteJournal, StillToCarry, disk, CarryInv, SwapInv, StageHolds
  <2> QED BY <1>23, <2>1, <2>2 DEF Plan
<1>24. ASSUME NEW r \in Rules, Carry(r) PROVE StillToCarry'
  <2>1. \A x \in Rules : at'["repo"][x] = "live" =>
          \E c \in todo \ {r} : x \in Under(c)
    BY <1>24, CarryLeaves DEF Carry, CarryInv, StillToCarry
  <2> QED BY <1>24, <2>1 DEF Carry, CarryInv, StillToCarry
<1>25. ASSUME NEW r \in Rules, CarryFails(r) PROVE StillToCarry'
  BY <1>25 DEF CarryFails, Turn, CarryInv, StillToCarry
<1>26. ASSUME NEW r \in Rules, Unwind(r) PROVE StillToCarry'
  BY <1>26 DEF Unwind, CarryInv, StillToCarry
<1>27. CASE JournalSwapping
  <2>1. \A r \in Rules : at["repo"][r] # "live"
    BY <1>27 DEF JournalSwapping, CarryInv, StillToCarry
  <2> QED
    BY <1>27, <2>1 DEF JournalSwapping, disk, StillToCarry
<1>28. CASE ClearScratch
  <2>1. at'["repo"] = at["repo"]
    BY <1>28 DEF ClearScratch, Remove, CarryInv, SwapInv, TypeOK, DiskOK, Places
  <2> QED BY <1>28, <2>1 DEF ClearScratch, CarryInv, StillToCarry
<1>29. CASE Edit BY <1>29 DEF Edit, CarryInv, StillToCarry
<1>30. ASSUME NEW r \in Rules, Recreate(r) PROVE StillToCarry'
  <2>1. \A x \in Rules : at'["repo"][x] = "live" => at["repo"][x] = "live"
    BY <1>30 DEF Recreate, CarryInv, SwapInv, TypeOK, DiskOK, Places
  <2> QED BY <1>30, <2>1 DEF Recreate, CarryInv, StillToCarry
<1>31. CASE UNCHANGED vars BY <1>31 DEF vars, CarryInv, StillToCarry
<1> QED
  BY <1>1, <1>2, <1>3, <1>4, <1>5, <1>6, <1>7, <1>8, <1>9, <1>10, <1>11,
     <1>12, <1>13, <1>14, <1>15, <1>16, <1>17, <1>18, <1>19, <1>20, <1>21,
     <1>22, <1>23, <1>24, <1>25, <1>26, <1>27, <1>28, <1>29, <1>30, <1>31
  DEF Next, Execute, Recover, Others

Leads ==
  /\ \A r \in Rules :
       at["repo"][r] = "live" /\ at'["repo"][r] # "live" =>
         /\ journal.phase = "carrying"
         /\ \E c \in journal.carried : r \in Under(c)
  /\ tree'["repo"] # tree["repo"] => journal.phase = "swapping"

\* No step gets ahead of the journal.
LEMMA LeadsStep ==
  ASSUME CarryInv, [Next]_vars
  PROVE  Leads
<1>0. DiskOK BY DEF CarryInv, SwapInv, TypeOK
<1>1. CASE at'["repo"] = at["repo"] /\ tree'["repo"] = tree["repo"]
  BY <1>1 DEF Leads
<1>2. CASE /\ journal.phase = "swapping"
           /\ \A r \in Rules : at["repo"][r] # "live"
  BY <1>2 DEF Leads
<1>3. ASSUME NEW r \in Rules, NEW p \in Places, p # "repo", MoveBack(r, p, "repo")
      PROVE  Leads
  BY <1>0, <1>3, MoveBackKeepsRepo DEF Leads, MoveBack, CarryInv
<1>4. CASE /\ journal.phase = "swapping"
           /\ tree["repo"] = NoTree
  BY <1>0, <1>2, <1>4 DEF DiskOK, Empty, Places
<1>5. ASSUME NEW g \in Gens, Begin(g) PROVE Leads BY <1>1, <1>5 DEF Begin
<1>6. CASE MakeStage
  BY <1>0, <1>1, <1>6 DEF MakeStage, DiskOK, Places
<1>7. CASE Materialize
  BY <1>0, <1>1, <1>7 DEF Materialize, DiskOK, Places
<1>8. CASE JournalMaterializing BY <1>1, <1>8 DEF JournalMaterializing, disk
<1>9. CASE MaterializeFails BY <1>1, <1>9 DEF MaterializeFails, disk
<1>10. CASE Plan BY <1>1, <1>10 DEF Plan, disk
<1>11. CASE ClearJournal BY <1>1, <1>11 DEF ClearJournal, disk
<1>12. CASE JournalSwapping BY <1>1, <1>12 DEF JournalSwapping, disk
<1>13. CASE Restart BY <1>1, <1>13 DEF Restart, disk
<1>14. CASE RecoverDone BY <1>1, <1>14 DEF RecoverDone, disk
<1>15. CASE Edit BY <1>1, <1>15 DEF Edit, disk
<1>16. CASE ClearStage
  BY <1>0, <1>1, <1>16 DEF ClearStage, Remove, DiskOK, Places
<1>17. CASE DropStage
  BY <1>0, <1>1, <1>17 DEF DropStage, Remove, DiskOK, Places
<1>18. CASE ClearScratch
  BY <1>0, <1>1, <1>18 DEF ClearScratch, Remove, DiskOK, Places
<1>19. CASE RecoverDrop
  BY <1>0, <1>1, <1>19 DEF RecoverDrop, Remove, DiskOK, Places
<1>20. CASE RecoverScratch
  BY <1>0, <1>1, <1>20 DEF RecoverScratch, Remove, disk, DiskOK, Places
<1>21. CASE MoveAside
  BY <1>0, <1>1, <1>21 DEF MoveAside, Rename, DiskOK, Places
<1>22. CASE Park
  BY <1>0, <1>1, <1>22 DEF Park, disk, DiskOK, Places
<1>23. CASE Crash
  BY <1>0, <1>1, <1>23 DEF Crash, DiskOK, Places
<1>24. CASE Exchange
  BY <1>2, <1>24 DEF Exchange, CarryInv, SwapInv, StillToCarry, RepoHolds
<1>25. CASE Vacate
  BY <1>2, <1>25 DEF Vacate, CarryInv, SwapInv, StillToCarry, RepoHolds
<1>26. CASE Publish
  BY <1>4, <1>26 DEF Publish, CarryInv, SwapInv, RepoHolds
<1>27. CASE ExchangeFails
  BY <1>1, <1>4, <1>27 DEF ExchangeFails, disk, CarryInv, SwapInv, RepoHolds
<1>28. CASE RecoverLand
  BY <1>4, <1>28 DEF RecoverLand, CarryInv, SwapInv, RepoHolds
<1>29. ASSUME NEW r \in Rules, Unwind(r) PROVE Leads
  BY <1>3, <1>29 DEF Unwind, Places
<1>30. ASSUME NEW r \in Rules, RecoverBack(r) PROVE Leads
  BY <1>3, <1>30 DEF RecoverBack, Places
<1>31. ASSUME NEW r \in Rules, Carry(r) PROVE Leads
  <2>1. journal.phase = "carrying" /\ r \in journal.carried
    BY <1>31 DEF Carry, Turn, CarryInv, StillToCarry
  <2> QED BY <1>31, <2>1, CarryTakes DEF Carry, Leads
<1>32. ASSUME NEW r \in Rules, CarryFails(r) PROVE Leads
  BY <1>0, <1>1, <1>32 DEF CarryFails, DiskOK, Places
<1>33. ASSUME NEW r \in Rules, Recreate(r) PROVE Leads
  BY <1>0, <1>33 DEF Recreate, Leads, DiskOK, Places
<1>34. CASE UNCHANGED vars BY <1>1, <1>34 DEF vars
<1> QED
  BY <1>5, <1>6, <1>7, <1>8, <1>9, <1>10, <1>11, <1>12, <1>13, <1>14, <1>15,
     <1>16, <1>17, <1>18, <1>19, <1>20, <1>21, <1>22, <1>23, <1>24, <1>25,
     <1>26, <1>27, <1>28, <1>29, <1>30, <1>31, <1>32, <1>33, <1>34
  DEF Next, Execute, Recover, Others

\* Before the first rewind nothing is carried.
LEMMA CarryInit == Init => CarryInv
<1> SUFFICES ASSUME Init PROVE CarryInv OBVIOUS
<1>1. Closed BY DEF Init, Closed, ClosedDir, Above, Places
<1>2. StillToCarry BY DEF Init, StillToCarry
<1> QED BY <1>1, <1>2, SwapInit DEF CarryInv

\* An excluded path leaves the repo only when a "carrying" journal lists it,
\* and the repo path changes hands only under a "swapping" journal: whatever
\* crash comes next, recovery knows of it.
THEOREM JournalLeadsHolds == Spec => JournalLeads
<1>1. Init => CarryInv BY CarryInit
<1>2. CarryInv /\ [Next]_vars => CarryInv' BY CarryStep
<1>3. CarryInv /\ [Next]_vars => [Leads]_vars BY LeadsStep
<1>4. Spec => [][Leads]_vars BY <1>1, <1>2, <1>3, PTL DEF Spec
<1> QED BY <1>4 DEF JournalLeads, Leads

-----------------------------------------------------------------------------
(***************************************************************************)
(* The live copies are safe, under the conditions of Benign.               *)
(***************************************************************************)

\* With no rule under another, a move concerns its own rule only.
LEMMA MoveRuleAlone ==
  ASSUME Benign, DiskOK, NEW r \in Rules, NEW p \in Places, NEW q \in Places,
         p # q, MoveRule(r, p, q)
  PROVE  /\ at'[p] = [at[p] EXCEPT ![r] = "none"]
         /\ at'[q] = [at[q] EXCEPT ![r] = at[p][r]]
         /\ \A w \in Places \ {p, q} : at'[w] = at[w]
<1>1. Under(r) = {r} /\ Above(r) = {} BY DEF Benign, Under, Above
<1>2. /\ at'[p] = Left(at[p], r)
      /\ at'[q] = Joined(at[p], at[q], r)
      /\ \A w \in Places \ {p, q} : at'[w] = at[w]
  BY DEF MoveRule, DiskOK
<1>3. at[p] \in [Rules -> Slots] /\ at[q] \in [Rules -> Slots] BY DEF DiskOK
<1> QED BY <1>1, <1>2, <1>3 DEF Left, Joined

\* With no path left to bring back, every owned path is home.
LEMMA AllHome ==
  ASSUME \A r \in owned' : Home(r)',
         pc' \notin {"carry", "swap", "vacate", "publish"}
  PROVE  HomeInv'
BY DEF HomeInv, AwayStaged

\* A turn of `move_back` brings its rule home and disturbs no other.
LEMMA MoveBackHome ==
  ASSUME Benign, LiveInv, NEW r \in Rules, Staged # "repo",
         MoveBack(r, Staged, "repo")
  PROVE  /\ r \in owned => Home(r)'
         /\ \A x \in owned :
              \/ Home(x)'
              \/ at'[Staged][x] = at[Staged][x] /\ at'["repo"][x] = at["repo"][x]
         /\ \A x \in owned : Home(x) => Home(x)'
<1>1. DiskOK /\ Staged \in Places /\ owned \subseteq Rules
  BY DEF LiveInv, CarryInv, SwapInv, TypeOK, Staged, Places
<1>2. \A x \in owned : Home(x) \/ (at[Staged][x] = "live" /\ at["repo"][x] = "none")
  BY DEF LiveInv, HomeInv, AwayStaged
<1>3. "back" \notin Faults BY DEF Benign
<1>4. CASE at[Staged][r] # "none" /\ at["repo"][r] = "none"
  <2>1. MoveRule(r, Staged, "repo") BY <1>3, <1>4 DEF MoveBack
  <2>2. /\ at'[Staged] = [at[Staged] EXCEPT ![r] = "none"]
        /\ at'["repo"] = [at["repo"] EXCEPT ![r] = at[Staged][r]]
    <3>1. "repo" \in Places BY DEF Places
    <3> QED BY <1>1, <2>1, <3>1, MoveRuleAlone
  <2> QED BY <1>1, <1>2, <1>4, <2>2 DEF Home, DiskOK, Places
<1>5. CASE ~ (at[Staged][r] # "none" /\ at["repo"][r] = "none")
  <2>1. UNCHANGED at BY <1>5 DEF MoveBack
  <2> QED BY <1>2, <1>5, <2>1 DEF Home
<1> QED BY <1>4, <1>5

\* Every step keeps HomeInv.
LEMMA LiveStep ==
  ASSUME Benign, LiveInv, [Next]_vars
  PROVE  LiveInv'
<1>0. CarryInv' BY CarryStep DEF LiveInv
<1> SUFFICES HomeInv' BY <1>0 DEF LiveInv
<1>1. /\ DiskOK /\ owned \subseteq Rules /\ owned' = owned /\ todo \subseteq Rules
      /\ journal \in [phase : Phases, where : {"tmp", "old"}, carried : SUBSET Rules]
  <2>1. owned' = owned
    BY DEF Next, Execute, Recover, Others, vars, fixed, Begin, ClearStage,
       MakeStage, JournalMaterializing, Materialize, MaterializeFails, Plan,
       Carry, CarryFails, Unwind, DropStage, ClearJournal, JournalSwapping,
       Exchange, ClearScratch, Vacate, Publish, MoveAside, ExchangeFails, Park,
       Crash, Restart, RecoverBack, RecoverLand, RecoverDrop, RecoverScratch,
       RecoverDone, Edit, Recreate
  <2> QED BY <2>1 DEF LiveInv, CarryInv, SwapInv, TypeOK
<1>2. ASSUME \A r \in owned : Home(r), at'["repo"] = at["repo"],
             pc' \notin {"carry", "swap", "vacate", "publish"}
      PROVE  HomeInv'
  BY <1>1, <1>2, AllHome DEF Home
<1>3. CASE UNCHANGED <<pc, at, journal, todo>>
  <2>1. \A r : Home(r)' <=> Home(r) BY <1>3 DEF Home
  <2> QED BY <1>1, <1>3, <2>1 DEF LiveInv, HomeInv, AwayStaged, Staged
<1>4. ASSUME NEW g \in Gens, Begin(g) PROVE HomeInv'
  BY <1>2, <1>4 DEF Begin, LiveInv, HomeInv
<1>5. CASE MakeStage
  BY <1>2, <1>5 DEF MakeStage, disk, LiveInv, HomeInv
<1>6. CASE JournalMaterializing
  BY <1>2, <1>6 DEF JournalMaterializing, disk, LiveInv, HomeInv
<1>7. CASE MaterializeFails
  BY <1>2, <1>7 DEF MaterializeFails, disk, LiveInv, HomeInv
<1>8. CASE ClearJournal
  BY <1>2, <1>8 DEF ClearJournal, disk, LiveInv, HomeInv
<1>9. CASE RecoverDone
  BY <1>2, <1>9 DEF RecoverDone, disk, LiveInv, HomeInv
<1>10. CASE ClearStage
  BY <1>1, <1>2, <1>10 DEF ClearStage, Remove, DiskOK, Places, LiveInv, HomeInv
<1>11. CASE Materialize
  BY <1>1, <1>2, <1>11 DEF Materialize, DiskOK, Places, LiveInv, HomeInv
<1>12. CASE DropStage
  BY <1>1, <1>2, <1>12 DEF DropStage, Remove, DiskOK, Places, LiveInv, HomeInv
<1>13. CASE MoveAside
  BY <1>1, <1>2, <1>13 DEF MoveAside, Rename, DiskOK, Places, LiveInv, HomeInv
<1>14. CASE Park
  BY <1>1, <1>2, <1>14 DEF Park, disk, DiskOK, Places, LiveInv, HomeInv
<1>15. CASE RecoverDrop
  BY <1>1, <1>2, <1>15 DEF RecoverDrop, Remove, DiskOK, Places, LiveInv, HomeInv
<1>16. CASE RecoverScratch
  BY <1>1, <1>2, <1>16 DEF RecoverScratch, Remove, disk, DiskOK, Places, LiveInv, HomeInv
<1>17. CASE Plan
  <2>1. CASE pc' = "idle"
    BY <1>2, <1>17, <2>1 DEF Plan, disk, LiveInv, HomeInv
  <2>2. CASE pc' = "carry"
    <3>1. \A r \in owned : Home(r) /\ Home(r)' /\ r \in todo'
      BY <1>1, <1>17, <2>2 DEF Plan, disk, Home, LiveInv, HomeInv
    <3> QED BY <1>1, <2>2, <3>1 DEF HomeInv, AwayStaged
  <2> QED BY <1>17, <2>1, <2>2 DEF Plan
<1>18. ASSUME NEW r \in Rules, Carry(r) PROVE HomeInv'
  <2>1. /\ pc = "carry" /\ pc' = "carry" /\ r \in todo /\ todo' = todo \ {r}
        /\ journal' = journal /\ journal.where = "tmp"
        /\ journal.phase = "carrying" /\ r \in journal.carried
    BY <1>18
    DEF Carry, Turn, LiveInv, CarryInv, SwapInv, StillToCarry, JournalNames, Executing
  <2>2. \A x \in owned :
          /\ Home(x) <=> x \in todo
          /\ Home(x) \/ (/\ at["tmp"][x] = "live" /\ at["repo"][x] = "none"
                         /\ x \in journal.carried)
    BY <2>1 DEF LiveInv, HomeInv, AwayStaged, Staged
  <2>3. CASE UNCHANGED at /\ at["repo"][r] = "none"
    <3>1. r \notin owned BY <2>1, <2>2, <2>3 DEF Home
    <3>2. \A x : Home(x)' <=> Home(x) BY <2>3 DEF Home
    <3> QED BY <1>1, <2>1, <2>2, <2>3, <3>1, <3>2 DEF HomeInv, AwayStaged, Staged
  <2>4. CASE MoveRule(r, "repo", "tmp")
    <3>1. /\ at'["repo"] = [at["repo"] EXCEPT ![r] = "none"]
          /\ at'["tmp"] = [at["tmp"] EXCEPT ![r] = at["repo"][r]]
      BY <1>1, <2>4, MoveRuleAlone DEF Places
    <3>2. /\ at["repo"] \in [Rules -> Slots] /\ at["tmp"] \in [Rules -> Slots]
      BY <1>1 DEF DiskOK, Places
    <3>3. \A x \in owned :
            /\ Home(x)' <=> x \in todo'
            /\ Home(x)' \/ (/\ at'["tmp"][x] = "live" /\ at'["repo"][x] = "none"
                            /\ x \in journal'.carried)
      BY <1>1, <2>1, <2>2, <3>1, <3>2 DEF Home
    <3> QED BY <1>1, <2>1, <3>3 DEF HomeInv, AwayStaged, Staged
  <2> QED BY <1>18, <2>3, <2>4 DEF Carry
<1>19. ASSUME NEW r \in Rules, CarryFails(r) PROVE HomeInv'
  <2>1. /\ pc = "carry" /\ pc' = "unwind" /\ r \in todo /\ todo' = carried
        /\ journal' = journal /\ journal.where = "tmp"
        /\ journal.phase = "carrying" /\ journal.carried = carried
    BY <1>19
    DEF CarryFails, Turn, LiveInv, CarryInv, SwapInv, StillToCarry, JournalNames,
        Executing
  <2>2. \A x \in owned :
          /\ Home(x) <=> x \in todo
          /\ Home(x) \/ (/\ at["tmp"][x] = "live" /\ at["repo"][x] = "none"
                         /\ x \in journal.carried)
    BY <2>1 DEF LiveInv, HomeInv, AwayStaged, Staged
  <2>3. Left(at["tmp"], r) = [at["tmp"] EXCEPT ![r] = "none"]
    BY <1>1 DEF Benign, Left, Under, DiskOK, Places
  <2>4. /\ at'["repo"] = at["repo"]
        /\ at'["tmp"] = at["tmp"] \/ at'["tmp"] = [at["tmp"] EXCEPT ![r] = "none"]
    BY <1>1, <1>19, <2>3 DEF CarryFails, DiskOK, Places
  <2>5. \A x \in owned :
          Home(x)' \/ (/\ at'["tmp"][x] = "live" /\ at'["repo"][x] = "none"
                       /\ x \in journal'.carried)
    BY <1>1, <2>1, <2>2, <2>4 DEF Home, DiskOK, Places
  <2> QED BY <1>1, <2>1, <2>5 DEF HomeInv, AwayStaged, Staged
<1>20. ASSUME NEW r \in Rules, Unwind(r) PROVE HomeInv'
  <2>1. /\ pc = "unwind" /\ pc' = "unwind" /\ todo' = todo \ {r}
        /\ journal' = journal /\ journal.where = "tmp" /\ journal.phase = "carrying"
        /\ MoveBack(r, Staged, "repo")
    BY <1>20
    DEF Unwind, LiveInv, CarryInv, SwapInv, StillToCarry, JournalNames, Executing,
        Staged
  <2> QED
    BY <1>1, <2>1, MoveBackHome DEF LiveInv, HomeInv, AwayStaged, Staged, Home
<1>21. ASSUME NEW r \in Rules, RecoverBack(r) PROVE HomeInv'
  <2>1. /\ pc = "recBack" /\ pc' = "recBack" /\ todo' = todo \ {r}
        /\ journal' = journal /\ journal.where = "old"
        /\ MoveBack(r, Staged, "repo")
    BY <1>21
    DEF RecoverBack, LiveInv, CarryInv, SwapInv, JournalNames, Recovering, Staged
  <2> QED
    BY <1>1, <2>1, MoveBackHome DEF LiveInv, HomeInv, AwayStaged, Staged, Home
<1>22. CASE JournalSwapping
  <2>1. /\ pc = "carry" /\ pc' = "swap" /\ todo = {} /\ at' = at
        /\ journal'.phase = "swapping" /\ journal'.where = "tmp"
        /\ journal'.carried = carried
    BY <1>22 DEF JournalSwapping, WriteJournal, Benign, disk
  <2>2. journal.where = "tmp" /\ journal.phase \in {"materializing", "carrying"}
    BY <2>1
    DEF LiveInv, CarryInv, SwapInv, JournalNames, StageHolds, Executing
  <2>3. journal.phase = "carrying" => journal.carried = carried
    BY <2>1 DEF LiveInv, CarryInv, StillToCarry
  <2>4. \A x \in owned :
          ~ Home(x) /\ at["tmp"][x] = "live" /\ at["repo"][x] = "none"
          /\ x \in carried
    BY <2>1, <2>2, <2>3 DEF LiveInv, HomeInv, AwayStaged, Staged
  <2> QED BY <1>1, <2>1, <2>4 DEF HomeInv, AwayStaged, Staged, Home
<1>23. CASE ClearScratch
  <2>1. /\ pc = "swap" /\ pc' = "vacate" /\ journal' = journal
        /\ journal.where = "tmp" /\ at'["repo"] = at["repo"] /\ at'["tmp"] = at["tmp"]
    BY <1>1, <1>23
    DEF ClearScratch, Remove, DiskOK, Places, LiveInv, CarryInv, SwapInv,
        JournalNames, Executing
  <2> QED BY <1>1, <2>1 DEF LiveInv, HomeInv, AwayStaged, Staged, Home
<1>24. CASE Vacate
  <2>1. /\ pc = "vacate" /\ pc' = "publish" /\ journal' = journal
        /\ journal.where = "tmp" /\ at'["repo"] = Empty /\ at'["tmp"] = at["tmp"]
    BY <1>1, <1>24
    DEF Vacate, Rename, DiskOK, Places, LiveInv, CarryInv, SwapInv, JournalNames,
        Executing
  <2>2. \A x \in owned : ~ Home(x)' /\ at'["repo"][x] = "none"
    BY <1>1, <2>1 DEF Empty, Home
  <2> QED BY <1>1, <2>1, <2>2 DEF LiveInv, HomeInv, AwayStaged, Staged
<1>25. CASE Exchange
  <2>1. /\ pc = "swap" /\ pc' \in {"park", "aside"} /\ at'["repo"] = at["tmp"]
        /\ journal.where = "tmp"
    BY <1>1, <1>25
    DEF Exchange, Rename, DiskOK, Places, LiveInv, CarryInv, SwapInv, JournalNames,
        Executing
  <2>2. \A x \in owned : at["tmp"][x] = "live"
    BY <2>1 DEF LiveInv, HomeInv, AwayStaged, Staged
  <2> QED BY <1>1, <2>1, <2>2, AllHome DEF Home
<1>26. CASE Publish
  <2>1. /\ pc = "publish" /\ pc' \in {"park", "aside"} /\ at'["repo"] = at["tmp"]
        /\ journal.where = "tmp"
    BY <1>1, <1>26
    DEF Publish, Rename, DiskOK, Places, LiveInv, CarryInv, SwapInv, JournalNames,
        Executing
  <2>2. \A x \in owned : at["tmp"][x] = "live"
    BY <2>1 DEF LiveInv, HomeInv, AwayStaged, Staged
  <2> QED BY <1>1, <2>1, <2>2, AllHome DEF Home
<1>27. CASE ExchangeFails BY <1>27 DEF ExchangeFails, Benign
<1>28. CASE Crash
  <2>1. /\ pc' = "down" /\ at'["repo"] = at["repo"]
        /\ journal.phase # "none" => journal' = [journal EXCEPT !.where = "old"]
    BY <1>1, <1>28 DEF Crash, DiskOK, Places
  <2>2. ASSUME NEW x \in owned, ~ Home(x)
        PROVE  at'["old"][x] = "live"
    <3>1. at[Staged][x] = "live" /\ journal.phase # "none"
      BY <2>2 DEF LiveInv, HomeInv, AwayStaged
    <3>2. /\ pc \notin {"clear", "undo", "recDrop"}
          /\ ~ (pc \in {"unwind", "recBack"} /\ todo = {})
      BY <2>2 DEF LiveInv, HomeInv
    <3>3. at'["old"] = at[Staged]
      BY <1>1, <1>28, <3>2 DEF Crash, DiskOK, Places, Staged
    <3> QED BY <3>1, <3>3
  <2> QED
    BY <1>1, <2>1, <2>2 DEF LiveInv, HomeInv, AwayStaged, Staged, Home
<1>29. CASE Restart
  <2>1. /\ pc = "down" /\ at' = at /\ journal' = journal /\ todo' = journal.carried
    BY <1>29 DEF Restart, disk
  <2>2. CASE journal.phase \in {"none", "materializing"}
    <3>1. pc' \in {"idle", "recDrop"} BY <1>29, <2>2 DEF Restart
    <3>2. \A x \in owned : Home(x) BY <2>2 DEF LiveInv, HomeInv, AwayStaged
    <3> QED BY <1>2, <2>1, <3>1, <3>2
  <2>3. CASE journal.phase \in {"carrying", "swapping"}
    <3>1. pc' \in {"recBack", "recLand"} BY <1>29, <2>3 DEF Restart
    <3> QED
      BY <1>1, <2>1, <2>3, <3>1 DEF LiveInv, HomeInv, AwayStaged, Staged, Home
  <2> QED BY <1>1, <2>2, <2>3 DEF Phases
<1>30. CASE RecoverLand
  <2>1. /\ pc = "recLand" /\ pc' = "recScratch" /\ at'["repo"] = at["old"]
        /\ journal.where = "old" /\ at["repo"] = Empty
    BY <1>1, <1>30
    DEF RecoverLand, Benign, Rename, DiskOK, Places, LiveInv, CarryInv, SwapInv,
        JournalNames, RepoHolds, Recovering
  <2>2. \A x \in owned : at["old"][x] = "live"
    BY <1>1, <2>1 DEF LiveInv, HomeInv, AwayStaged, Staged, Home, Empty
  <2> QED BY <1>1, <2>1, <2>2, AllHome DEF Home
<1>31. CASE Edit BY <1>3, <1>31 DEF Edit
<1>32. ASSUME NEW r \in Rules, Recreate(r) PROVE HomeInv' BY <1>32 DEF Recreate, Benign
<1>33. CASE UNCHANGED vars BY <1>3, <1>33 DEF vars
<1> QED
  BY <1>4, <1>5, <1>6, <1>7, <1>8, <1>9, <1>10, <1>11, <1>12, <1>13, <1>14,
     <1>15, <1>16, <1>17, <1>18, <1>19, <1>20, <1>21, <1>22, <1>23, <1>24,
     <1>25, <1>26, <1>27, <1>28, <1>29, <1>30, <1>31, <1>32, <1>33
  DEF Next, Execute, Recover, Others

\* At first every live copy is in the repo.
LEMMA LiveInit == Init => LiveInv
<1> SUFFICES ASSUME Init PROVE LiveInv OBVIOUS
<1>1. \A r \in owned : Home(r) BY DEF Init, Home, Places
<1>2. HomeInv BY <1>1 DEF Init, HomeInv, AwayStaged
<1> QED BY <1>2, CarryInit DEF LiveInv

\* No live copy of an excluded path is ever lost: it is in the repo, or where
\* the journal sends recovery to fetch it.
THEOREM LiveKeptHolds == ASSUME Benign PROVE Spec => []LiveKept
<1>1. Init => LiveInv BY LiveInit
<1>2. LiveInv /\ [Next]_vars => LiveInv' BY LiveStep
<1>3. LiveInv => LiveKept
  BY DEF LiveInv, CarryInv, SwapInv, TypeOK, HomeInv, AwayStaged, LiveKept,
     Home, Under
<1> QED BY <1>1, <1>2, <1>3, PTL DEF Spec

\* A daemon that serves has every excluded path of the user in place, however
\* the rewinds before it ended.
THEOREM HomeWhenIdleHolds == ASSUME Benign PROVE Spec => []HomeWhenIdle
<1>1. Init => LiveInv BY LiveInit
<1>2. LiveInv /\ [Next]_vars => LiveInv' BY LiveStep
<1>3. LiveInv => HomeWhenIdle BY DEF LiveInv, HomeInv, HomeWhenIdle, Home
<1> QED BY <1>1, <1>2, <1>3, PTL DEF Spec

-----------------------------------------------------------------------------
(***************************************************************************)
(* The journalled swap implements the atomic rewind.                       *)
(***************************************************************************)

Away == {r \in owned : at["repo"][r] # "live"}

\* The initial states are initial states of the promise.
LEMMA PromiseInit == Init => Promise!Init
<1> SUFFICES ASSUME Init PROVE Promise!Init OBVIOUS
<1>1. tree["repo"] = target /\ target \in Gens /\ pc = "idle"
  BY DEF Init, Places
<1>2. Away = {} BY DEF Init, Places, Away
<1> QED
  BY <1>1, <1>2, GensAssumption
  DEF Promise!Init, Shown, Mode, Away, NoTree

\* Every step of the code is a step of the promise, or changes nothing of it.
LEMMA PromiseStep ==
  ASSUME Benign, LiveInv, [Next]_vars
  PROVE  [Promise!Next]_(Promise!vars)
<1> USE GensAssumption DEF NoTree, Partial
<1>0. LiveInv' BY LiveStep
<1>1. /\ DiskOK /\ target \in Gens /\ owned' \subseteq Rules
      /\ pc \in {"idle", "down"} \cup Executing \cup Recovering
      /\ journal \in [phase : Phases, where : {"tmp", "old"}, carried : SUBSET Rules]
  BY <1>0 DEF LiveInv, CarryInv, SwapInv, TypeOK
<1>a. Away' \in SUBSET Rules BY <1>1 DEF Away
<1>2. ASSUME Shown' = Shown, target' = target, Mode' = Mode, Mode # "serving"
      PROVE  Promise!Carry
  BY <1>2, <1>a DEF Promise!Carry, Away
<1>3. ASSUME Shown' = target, target' = target, Mode' = Mode, Mode # "serving"
      PROVE  Promise!Land
  BY <1>3, <1>a DEF Promise!Land, Away
<1>4. ASSUME tree'["repo"] = tree["repo"], tree'["scratch"] = tree["scratch"],
             at'["repo"] = at["repo"], owned' = owned, target' = target,
             pc' = "idle", pc # "idle", \A r \in owned : Home(r)
      PROVE  Promise!Settle
  <2>1. Shown' = Shown /\ Away' = Away BY <1>4 DEF Shown, Away
  <2>2. Away = {} BY <1>4 DEF Away, Home
  <2>3. Mode # "serving" /\ Mode' = "serving" BY <1>4 DEF Mode
  <2> QED BY <2>1, <2>2, <2>3, <1>4 DEF Promise!Settle, Away
<1>5. ASSUME tree'["repo"] = tree["repo"],
             tree["repo"] \in Gens \/ tree'["scratch"] = tree["scratch"],
             target' = target, pc' # "idle", pc # "idle",
             pc \in Executing <=> pc' \in Executing
      PROVE  Promise!Carry
  BY <1>2, <1>5 DEF Shown, Mode
<1>6. ASSUME NEW g \in Gens, Begin(g) PROVE Promise!Next
  <2>1. Shown' = Shown /\ Away' = Away /\ Mode = "serving" /\ Mode' = "rewinding"
    BY <1>6 DEF Begin, fixed, Shown, Away, Mode, Executing
  <2> QED BY <1>6, <2>1 DEF Begin, Promise!Next, Promise!Ask, Away
<1>7. CASE ClearStage
  BY <1>1, <1>5, <1>7
  DEF ClearStage, Remove, DiskOK, Places, Executing, Promise!Next
<1>8. CASE Materialize
  BY <1>1, <1>5, <1>8
  DEF Materialize, DiskOK, Places, Executing, Promise!Next
<1>9. CASE DropStage
  BY <1>1, <1>5, <1>9
  DEF DropStage, Remove, DiskOK, Places, Executing, Promise!Next
<1>10. CASE JournalSwapping
  BY <1>1, <1>5, <1>10
  DEF JournalSwapping, disk, DiskOK, Places, Executing, Promise!Next, Benign
<1>11. CASE MakeStage
  <2>1. CASE pc' = "idle"
    BY <1>1, <1>4, <1>11, <2>1
    DEF MakeStage, disk, fixed, LiveInv, HomeInv, Promise!Next
  <2>2. CASE pc' # "idle"
    BY <1>1, <1>5, <1>11, <2>2
    DEF MakeStage, disk, DiskOK, Places, Executing, Promise!Next
  <2> QED BY <2>1, <2>2
<1>12. CASE JournalMaterializing
  <2>1. CASE pc' = "idle"
    BY <1>1, <1>4, <1>12, <2>1
    DEF JournalMaterializing, disk, fixed, LiveInv, HomeInv, Promise!Next
  <2>2. CASE pc' # "idle"
    BY <1>1, <1>5, <1>12, <2>2
    DEF JournalMaterializing, disk, DiskOK, Places, Executing, Promise!Next
  <2> QED BY <2>1, <2>2
<1>13. CASE MaterializeFails
  <2>1. CASE pc' = "idle"
    BY <1>1, <1>4, <1>13, <2>1
    DEF MaterializeFails, disk, fixed, LiveInv, HomeInv, Promise!Next
  <2>2. CASE pc' # "idle"
    BY <1>1, <1>5, <1>13, <2>2
    DEF MaterializeFails, disk, DiskOK, Places, Executing, Promise!Next
  <2> QED BY <2>1, <2>2
<1>14. CASE Plan
  BY <1>5, <1>14 DEF Plan, disk, Benign, Executing, Promise!Next
<1>15. ASSUME NEW r \in Rules, Carry(r) PROVE Promise!Next
  BY <1>5, <1>15 DEF Carry, Executing, Promise!Next
<1>16. ASSUME NEW r \in Rules, CarryFails(r) PROVE Promise!Next
  BY <1>5, <1>16 DEF CarryFails, Executing, Promise!Next
<1>17. ASSUME NEW r \in Rules, Unwind(r) PROVE Promise!Next
  BY <1>5, <1>17 DEF Unwind, MoveBack, Executing, Promise!Next
<1>18. ASSUME NEW r \in Rules, RecoverBack(r) PROVE Promise!Next
  BY <1>5, <1>18 DEF RecoverBack, MoveBack, Executing, Promise!Next
<1>19. CASE ClearJournal
  <2>1. CASE pc' = "idle"
    BY <1>1, <1>4, <1>19, <2>1
    DEF ClearJournal, disk, fixed, LiveInv, HomeInv, Promise!Next
  <2>2. CASE pc' # "idle"
    BY <1>5, <1>19, <2>2 DEF ClearJournal, disk, Executing, Promise!Next
  <2> QED BY <2>1, <2>2
<1>20. CASE RecoverDone
  <2>1. CASE pc' = "idle"
    BY <1>1, <1>4, <1>20, <2>1
    DEF RecoverDone, disk, fixed, LiveInv, HomeInv, Promise!Next
  <2>2. CASE pc' # "idle"
    BY <1>5, <1>20, <2>2 DEF RecoverDone, disk, Executing, Promise!Next
  <2> QED BY <2>1, <2>2
<1>21. CASE Exchange
  <2>1. tree'["repo"] = target /\ target' = target
    BY <1>1, <1>21 DEF Exchange, DiskOK, Places, LiveInv, CarryInv, SwapInv, StageHolds
  <2>2. Shown' = target BY <1>1, <2>1 DEF Shown
  <2>3. Mode = "rewinding" /\ Mode' = Mode BY <1>21 DEF Exchange, Mode, Executing
  <2> QED BY <1>3, <2>1, <2>2, <2>3 DEF Promise!Next
<1>22. CASE Publish
  <2>1. tree'["repo"] = target /\ target' = target
    BY <1>1, <1>22 DEF Publish, Rename, DiskOK, Places, LiveInv, CarryInv, SwapInv, StageHolds
  <2>2. Shown' = target BY <1>1, <2>1 DEF Shown
  <2>3. Mode = "rewinding" /\ Mode' = Mode BY <1>22 DEF Publish, Mode, Executing
  <2> QED BY <1>3, <2>1, <2>2, <2>3 DEF Promise!Next
<1>23. CASE ClearScratch
  <2>1. tree["repo"] \in Gens
    BY <1>23 DEF ClearScratch, LiveInv, CarryInv, SwapInv, RepoHolds, Executing
  <2> QED
    BY <1>1, <1>5, <1>23, <2>1
    DEF ClearScratch, Remove, DiskOK, Places, Executing, Promise!Next
<1>24. CASE Vacate
  <2>1. tree["repo"] \in Gens
    BY <1>24 DEF Vacate, LiveInv, CarryInv, SwapInv, RepoHolds, Executing
  <2>2. /\ tree'["repo"] = NoTree /\ tree'["scratch"] = tree["repo"]
        /\ target' = target
    BY <1>1, <1>24 DEF Vacate, Rename, DiskOK, Places
  <2>3. Shown' = Shown BY <2>1, <2>2 DEF Shown
  <2>4. Mode = "rewinding" /\ Mode' = Mode BY <1>24 DEF Vacate, Mode, Executing
  <2> QED BY <1>2, <2>2, <2>3, <2>4 DEF Promise!Next
<1>25. CASE MoveAside
  <2>1. tree["repo"] \in Gens
    BY <1>25 DEF MoveAside, LiveInv, CarryInv, SwapInv, RepoHolds, Executing
  <2> QED
    BY <1>1, <1>5, <1>25, <2>1
    DEF MoveAside, Rename, DiskOK, Places, Executing, Promise!Next
<1>26. CASE ExchangeFails BY <1>26 DEF ExchangeFails, Benign
<1>27. CASE Park
  <2>0. tree'["repo"] = tree["repo"] /\ tree'["scratch"] = tree["scratch"]
        /\ at'["repo"] = at["repo"] /\ pc = "park" /\ pc' \in {"idle", "finish"}
        /\ target' = target /\ owned' = owned
    BY <1>1, <1>27 DEF Park, disk, fixed, DiskOK, Places
  <2>1. CASE pc' = "idle"
    BY <1>4, <2>0, <2>1 DEF LiveInv, HomeInv, Promise!Next
  <2>2. CASE pc' # "idle"
    BY <1>5, <2>0, <2>2 DEF Executing, Promise!Next
  <2> QED BY <2>1, <2>2
<1>28. CASE Crash
  <2>1. /\ tree'["repo"] = tree["repo"] /\ tree'["scratch"] = tree["scratch"]
        /\ at'["repo"] = at["repo"] /\ owned' = owned /\ target' = target
        /\ pc' = "down"
    BY <1>1, <1>28 DEF Crash, fixed, DiskOK, Places
  <2>2. Shown' = Shown /\ Away' = Away /\ Mode' = "dead"
    BY <2>1 DEF Shown, Away, Mode, Executing
  <2>3. CASE Mode = "dead"
    BY <2>1, <2>2, <2>3 DEF Promise!vars, Away
  <2>4. CASE Mode # "dead"
    BY <2>1, <2>2, <2>4 DEF Promise!Next, Promise!Crash, Away
  <2> QED BY <2>3, <2>4
<1>29. CASE Restart
  <2>1. CASE pc' = "idle"
    <3>1. journal.phase = "none" BY <1>29, <2>1 DEF Restart
    <3>2. \A r \in owned : Home(r) BY <3>1 DEF LiveInv, HomeInv, AwayStaged
    <3> QED BY <1>4, <1>29, <2>1, <3>2 DEF Restart, disk, fixed, Promise!Next
  <2>2. CASE pc' # "idle"
    BY <1>1, <1>5, <1>29, <2>2
    DEF Restart, disk, Phases, Executing, Promise!Next
  <2> QED BY <2>1, <2>2
<1>30. CASE RecoverLand
  <2>1. tree'["repo"] = target /\ target' = target
    BY <1>1, <1>30
    DEF RecoverLand, Benign, Rename, DiskOK, Places, LiveInv, CarryInv, SwapInv, JournalNames,
        RepoHolds, Recovering, Staged
  <2>2. Shown' = target BY <1>1, <2>1 DEF Shown
  <2>3. Mode = "dead" /\ Mode' = Mode
    BY <1>30 DEF RecoverLand, Benign, Mode, Executing
  <2> QED BY <1>3, <2>1, <2>2, <2>3 DEF Promise!Next
<1>31. CASE RecoverDrop
  BY <1>1, <1>5, <1>31
  DEF RecoverDrop, Remove, DiskOK, Places, Executing, Promise!Next
<1>32. CASE RecoverScratch
  <2>1. tree["repo"] \in Gens
    BY <1>32 DEF RecoverScratch, LiveInv, CarryInv, SwapInv, RepoHolds
  <2> QED
    BY <1>1, <1>5, <1>32, <2>1
    DEF RecoverScratch, Remove, disk, DiskOK, Places, Executing, Promise!Next
<1>33. CASE Edit
  BY <1>5, <1>33 DEF Edit, Executing, Promise!Next
<1>34. ASSUME NEW r \in Rules, Recreate(r) PROVE Promise!Next BY <1>34 DEF Recreate, Benign
<1>35. CASE UNCHANGED vars BY <1>35 DEF vars, Promise!vars, Shown, Mode, Away
<1> QED
  BY <1>6, <1>7, <1>8, <1>9, <1>10, <1>11, <1>12, <1>13, <1>14, <1>15,
     <1>16, <1>17, <1>18, <1>19, <1>20, <1>21, <1>22, <1>23, <1>24, <1>25,
     <1>26, <1>27, <1>28, <1>29, <1>30, <1>31, <1>32, <1>33, <1>34, <1>35
  DEF Next, Execute, Recover, Others

\* A caller who knows only the promise -- one whole tree at a time, changed in
\* one step to the tree asked for, the excluded paths in place whenever the
\* daemon serves -- is told no lie, crashes and recoveries included.
THEOREM ImplementsHolds == ASSUME Benign PROVE Spec => Implements
<1>1. Init => LiveInv BY LiveInit
<1>2. LiveInv /\ [Next]_vars => LiveInv' BY LiveStep
<1>3. Init => Promise!Init BY PromiseInit
<1>4. LiveInv /\ [Next]_vars => [Promise!Next]_(Promise!vars) BY PromiseStep
<1>5. Spec => Promise!Spec BY <1>1, <1>2, <1>3, <1>4, PTL DEF Spec, Promise!Spec
<1> QED BY <1>5 DEF Implements

-----------------------------------------------------------------------------
(***************************************************************************)
(* The edit nobody checkpointed.                                           *)
(***************************************************************************)

\* Where the edit cannot be.  It is in a stage only from the exchange to the
\* parking, or after a parking that failed, and in a dead daemon's stage only until
\* recovery has dealt with that one; both are told by a "swapping" journal.  Where a
\* directory is to be replaced by a rename, the edit is not in it.
EditInv ==
  /\ edit = "tmp" => pc \in {"idle", "clear", "park"} /\ journal.phase = "swapping"
  /\ edit = "old" => pc \in {"down", "recBack", "recLand"} /\ journal.phase = "swapping"
  /\ pc = "vacate" => edit # "scratch"
  /\ pc = "publish" => edit # "repo"

Outlives ==
  edit' = "gone" /\ edit # "gone" =>
    pc = "clear" \/ (edit = "scratch" /\ pc = "swap") \/ pc \in Recovering

LEMMA EditStep ==
  ASSUME SwapInv, EditInv, [Next]_vars
  PROVE  EditInv' /\ Outlives
<1> USE DEF EditInv, Outlives
<1>0. /\ pc \in {"idle", "down"} \cup Executing \cup Recovering
      /\ JournalNames /\ RepoHolds
  BY DEF SwapInv, TypeOK
<1>1. ASSUME NEW g \in Gens, Begin(g)
      PROVE  EditInv' /\ Outlives
  BY <1>1 DEF Begin
<1>2. CASE ClearStage
  BY <1>2 DEF ClearStage, Remove
<1>3. CASE MakeStage
  BY <1>3 DEF MakeStage
<1>4. CASE JournalMaterializing
  BY <1>4 DEF JournalMaterializing, disk
<1>5. CASE Materialize \/ MaterializeFails
  BY <1>5 DEF Materialize, MaterializeFails, disk
<1>6. CASE Plan
  BY <1>6 DEF Plan, disk
<1>7. ASSUME NEW r \in Rules, Carry(r) \/ CarryFails(r) \/ Unwind(r)
      PROVE  EditInv' /\ Outlives
  BY <1>7 DEF Carry, CarryFails, Unwind, MoveBack
<1>8. CASE DropStage
  BY <1>8 DEF DropStage, Remove
<1>9. CASE ClearJournal
  BY <1>9 DEF ClearJournal, disk
<1>10. CASE JournalSwapping
  BY <1>10 DEF JournalSwapping, disk
<1>11. CASE Exchange
  <2>1. journal.phase = "swapping"
    BY <1>0, <1>11 DEF Exchange, RepoHolds
  <2>. QED
    BY <1>11, <2>1 DEF Exchange
<1>12. CASE ClearScratch
  BY <1>12 DEF ClearScratch, Remove
<1>13. CASE Vacate
  BY <1>13 DEF Vacate, Rename
<1>14. CASE Publish
  BY <1>14 DEF Publish, Rename
<1>15. CASE MoveAside
  <2>1. journal.phase = "swapping"
    BY <1>0, <1>15 DEF MoveAside, RepoHolds
  <2>. QED
    BY <1>15, <2>1 DEF MoveAside, Rename
<1>16. CASE ExchangeFails
  BY <1>16 DEF ExchangeFails, Rename, disk
<1>17. CASE Park
  BY <1>17 DEF Park, disk
<1>18. CASE Restart
  BY <1>18 DEF Restart, disk
<1>19. ASSUME NEW r \in Rules, RecoverBack(r)
       PROVE  EditInv' /\ Outlives
  BY <1>19 DEF RecoverBack, MoveBack
<1>20. CASE RecoverLand
  BY <1>20 DEF RecoverLand, Rename, disk, Recovering
<1>21. CASE RecoverDrop
  BY <1>0, <1>21 DEF RecoverDrop, Remove, Recovering, RepoHolds
<1>22. CASE RecoverScratch
  BY <1>22 DEF RecoverScratch, Remove, disk, Recovering
<1>23. CASE RecoverDone
  BY <1>23 DEF RecoverDone, disk
<1>24. CASE Crash
  <2> DEFINE mine == IF journal.where = "old" THEN "old" ELSE "tmp"
             removing == \/ pc \in {"clear", "undo", "recDrop"}
                         \/ pc \in {"unwind", "recBack"} /\ todo = {}
             torn == removing /\ tree[mine] # NoTree
  <2>1. PICK half \in BOOLEAN :
          edit' = IF edit = mine THEN IF half /\ torn THEN "gone" ELSE "old"
                  ELSE IF edit \in {"old", "tmp"} THEN "gone" ELSE edit
    BY <1>24 DEF Crash
  <2>2. /\ pc' = "down" /\ pc # "down"
        /\ journal' = IF journal.phase = "none" THEN journal ELSE [journal EXCEPT !.where = "old"]
    BY <1>24 DEF Crash
  <2>3. journal.phase = "swapping" => journal'.phase = "swapping"
    BY <2>2 DEF SwapInv, TypeOK
  <2>4. CASE pc \in Recovering
    <3>1. mine = "old"
      BY <1>0, <2>4 DEF JournalNames
    <3> HIDE DEF torn
    <3>2. edit = "old" => edit' \in {"gone", "old"}
      BY <2>1, <3>1
    <3>3. edit' = "old" => edit = "old"
      BY <2>1, <3>1
    <3>4. edit' # "tmp"
      BY <2>1
    <3>. QED
      BY <2>2, <2>3, <2>4, <3>3, <3>4
  <2>5. CASE pc \in {"idle"} \cup Executing
    <3>1. mine = "tmp"
      BY <1>0, <2>5 DEF JournalNames
    <3>2. edit # "old" /\ pc \notin {"recDrop", "recBack"}
      BY <2>5 DEF Executing
    <3>3. edit = "tmp" /\ torn => pc = "clear"
      BY <3>2
    <3> HIDE DEF torn
    <3>. QED
      BY <2>1, <2>2, <2>3, <3>1, <3>2, <3>3
  <2>. QED
    BY <1>0, <2>2, <2>4, <2>5
<1>25. CASE Edit
  BY <1>0, <1>25 DEF Edit, RepoHolds
<1>26. ASSUME NEW r \in Rules, Recreate(r)
       PROVE  EditInv' /\ Outlives
  BY <1>26 DEF Recreate
<1>27. CASE UNCHANGED vars
  BY <1>27 DEF vars
<1>. QED
  BY <1>1, <1>2, <1>3, <1>4, <1>5, <1>6, <1>7, <1>8, <1>9, <1>10, <1>11, <1>12, <1>13, <1>14, <1>15,
     <1>16, <1>17, <1>18, <1>19, <1>20, <1>21, <1>22, <1>23, <1>24, <1>25, <1>26, <1>27
     DEF Next, Execute, Recover, Others

\* rewind.rs, execute: no step of a rewind deletes the edit that was made while it
\* ran, whatever failed before, and wherever the daemon dies; it is at the repo path, in
\* the trash, or where the next rewind and recovery clear what was left.
THEOREM EditOutlivesHolds == Spec => EditOutlivesItsRewind
<1>1. Init => EditInv
  BY DEF Init, EditInv
<1>2. SwapInv /\ EditInv /\ [Next]_vars => EditInv'
  BY EditStep
<1>3. SwapInv /\ EditInv /\ [Next]_vars => [Outlives]_vars
  BY EditStep
<1>4. Spec => [][Outlives]_vars
  BY SwapInit, SwapStep, <1>1, <1>2, <1>3, PTL DEF Spec
<1>. QED
  BY <1>4 DEF EditOutlivesItsRewind, Outlives
=============================================================================
