--------------------------- MODULE InstallProofs ---------------------------
(***************************************************************************)
(* The theorems about Install: for any processes, repositories, hosts and  *)
(* files, and any number of installs and edits.                            *)
(***************************************************************************)
EXTENDS Install, SequenceTheorems, TLAPS

-----------------------------------------------------------------------------
(* What the files hold *)

Keys == {Named, Product} \cup ({1, 2} \X Repos)

\* What a file may hold: an entry of ours is under "hooks", a server under a key
\* with a repository in it is of that repository.
Entries ==
  {e \in [place : {"hooks", "top"}, commands : SUBSET {"ours", "theirs", "mention"}] :
     IsOurs(e) => e.place = "hooks"}

Registrations ==
  {s \in [key : Keys, repo : Repos \cup {Nobody}, more : BOOLEAN] :
     /\ s.key[1] \in {1, 2} => s.key[2] = s.repo
     /\ s.key = Product => s.repo = Nobody}

ItemsOf(f) ==
  CASE f \in HookFiles -> Entries
    [] f \in Servers -> Registrations
    [] OTHER -> {Line("ours"), Line("theirs")}

\* What of it may be the developer's.
TheirItems(f) ==
  CASE f \in HookFiles -> Things(f) \cup Mixed
    [] f \in Servers -> {s \in ItemsOf(f) : s.more}
    [] OTHER -> Things(f)

IsItems(f, items) == IsABag(items) /\ DOMAIN items \subseteq ItemsOf(f)

IsFile(f, file) ==
  /\ file = File(file.state, file.items)
  /\ file.state \in {"absent", "whole", "torn", "unreadable"}
  /\ file.state \in {"absent", "torn"} => file.items = EmptyBag
  /\ IsItems(f, file.items)

IsTemporary(f, t) ==
  /\ t = [state |-> t.state, items |-> t.items, by |-> t.by]
  /\ t.state \in {"none", "torn", "whole"}
  /\ t.state # "whole" => t.items = EmptyBag
  /\ t.by \in Procs \cup {Nobody}
  /\ IsItems(f, t.items)

Phases == {"next", "read", "made", "written"}

IsProcess(x) ==
  /\ x = [at |-> x.at, plan |-> x.plan, repo |-> x.repo, key |-> x.key,
          read |-> x.read, next |-> x.next]
  /\ x.at \in Phases
  /\ x.plan \in Seq(Files) /\ x.plan # <<>>
  /\ x.repo \in Repos
  /\ x.key # <<>> => /\ Head(x.plan) = "global_mcp"
                     /\ \E i \in 1..3 : x.key = Candidates(x.repo)[i]
  /\ x.at # "next" /\ Head(x.plan) = "global_mcp" => x.key # <<>>
  /\ x.key # <<>> \/ x.at # "next" => x.read = Mismatch \/ IsFile(Head(x.plan), x.read)
  /\ x.at # "next" => IsItems(Head(x.plan), x.next)

TypeInv ==
  /\ DOMAIN disk = Files /\ \A f \in Files : IsFile(f, disk[f])
  /\ DOMAIN tmp = Files /\ \A f \in Files : IsTemporary(f, tmp[f])
  /\ half \in [Files -> Procs \cup {Nobody}]
  /\ DOMAIN theirs = Files /\ \A f \in Files : theirs[f] \subseteq TheirItems(f)
  /\ DOMAIN proc = Procs /\ \A p \in Procs : proc[p] = Idle \/ IsProcess(proc[p])
  /\ registered \subseteq Repos /\ lost \subseteq Files /\ met \subseteq Files
  /\ installs \in 0..MaxInstalls /\ edits \in 0..MaxEdits

-----------------------------------------------------------------------------
(* The invariant *)

\* A process is at work on a file, in one of the phases.
On(p, f, phases) == proc[p].at \in phases /\ proc[p].plan # <<>> /\ Now(p) = f

Merged == {"read", "made", "written"}

\* A temporary file that belongs to a process is the one that it is at.
Owner ==
  \A f \in Files : \A p \in Procs : tmp[f].by = p =>
    /\ f \notin InPlace /\ On(p, f, {"made", "written"})
    /\ proc[p].at = "made" => tmp[f].state = "torn"
    /\ proc[p].at = "written" => tmp[f].state = "whole" /\ tmp[f].items = proc[p].next

\* Unless two had it, the temporary file of a process at work is there and its own.
Alone ==
  \A f \in Files \ (InPlace \cup met) : \A p \in Procs :
    On(p, f, {"made", "written"}) => tmp[f].by = p

\* A file that is about to be written from elsewhere is lost to us.
HalfLost == \A f \in Files : half[f] # Nobody => f \in lost /\ f \notin InPlace

\* Wherever there are items, there is one of ours.
OneEverywhere ==
  \A f \in Files :
    /\ OneIn(f, disk[f].items) /\ OneIn(f, tmp[f].items)
    /\ \A p \in Procs : On(p, f, Merged) => OneIn(f, proc[p].next)

Has(items, repo) == \E s \in DOMAIN items : s.repo = repo

\* A merge keeps what it read.
Faithful ==
  \A f \in Files : \A p \in Procs : On(p, f, Merged) =>
    LET read == proc[p].read
        next == proc[p].next
    IN /\ read.state = "torn" => f \in lost
       /\ read.state = "unreadable" => f \in InPlace
       /\ read.state = "whole" =>
            \A thing \in TheirItems(f) \ Mixed : KeepsIn(f, read.items, thing) => KeepsIn(f, next, thing)
       /\ f = "global_mcp" /\ read.state \in {"whole", "absent"} =>
            /\ Has(next, proc[p].repo)
            /\ \A repo \in Repos : Has(read.items, repo) => Has(next, repo)

\* A key that was chosen is nobody else's in what it was chosen from.
KeyFree ==
  \A p \in Procs : On(p, "global_mcp", {"next"}) /\ proc[p].key # <<>> /\ proc[p].read.state = "whole" =>
    \A s \in DOMAIN proc[p].read.items : s.key = proc[p].key => s.repo = proc[p].repo

\* What is written in place has no temporary file.
Apart == \A p \in Procs : proc[p].at = "made" => Now(p) \notin InPlace

\* Who writes a file in place is alone with it.
InPlaceAlone ==
  \A f \in InPlace \ lost : \A p \in Procs : On(p, f, {"written"}) =>
    /\ disk[f] = Torn
    /\ \A q \in Procs : On(q, f, {"written"}) => q = p

\* Only some files are left in a form that we cannot read.
Readable == \A f \in Files : disk[f].state = "unreadable" => f \in Unreadable

\* What is the developer's is in the file, or in what is being written there.
KeptInv ==
  \A f \in Files \ lost :
    /\ disk[f].state = "absent" => theirs[f] = {}
    /\ Kept(f, theirs[f] \ Mixed)
    /\ \A p \in Procs : f \in InPlace /\ On(p, f, {"written"}) =>
         \A thing \in theirs[f] \ Mixed : KeepsIn(f, proc[p].next, thing)

\* A repository is registered only in a file that is there.
RegisteredInv ==
  "global_mcp" \notin lost =>
    /\ disk["global_mcp"].state = "absent" => registered = {}
    /\ disk["global_mcp"].state = "whole" => \A repo \in registered : Has(disk["global_mcp"].items, repo)

Inv ==
  /\ TypeInv /\ Owner /\ Alone /\ HalfLost /\ NeverHalf /\ OneEverywhere
  /\ KeyFree /\ Faithful /\ Apart /\ InPlaceAlone /\ Readable /\ RegisteredInv

-----------------------------------------------------------------------------
(* Bags *)

\* Adding to a bag.
LEMMA AddIs ==
  ASSUME NEW B, IsABag(B), NEW x
  PROVE  /\ IsABag(BagAdd(B, x))
         /\ DOMAIN BagAdd(B, x) = DOMAIN B \cup {x}
         /\ BagAdd(B, x)[x] = IF x \in DOMAIN B THEN B[x] + 1 ELSE 1
         /\ \A e \in DOMAIN B \ {x} : BagAdd(B, x)[e] = B[e]
<1>1. B \in [DOMAIN B -> {n \in Nat : n > 0}]
  BY DEF IsABag
<1>2. CASE x \in DOMAIN B
  BY <1>1, <1>2, SMTT(30) DEF BagAdd, IsABag
<1>3. CASE x \notin DOMAIN B
  BY <1>1, <1>3 DEF BagAdd, IsABag
<1>. QED
  BY <1>2, <1>3

\* Removing from a bag.
LEMMA RemoveIs ==
  ASSUME NEW B, IsABag(B), NEW x
  PROVE  /\ IsABag(BagRemove(B, x))
         /\ DOMAIN BagRemove(B, x) \subseteq DOMAIN B
         /\ x \notin DOMAIN B \/ B[x] = 1 => x \notin DOMAIN BagRemove(B, x)
         /\ \A e \in DOMAIN B \ {x} : e \in DOMAIN BagRemove(B, x) /\ BagRemove(B, x)[e] = B[e]
<1>1. B \in [DOMAIN B -> {n \in Nat : n > 0}]
  BY DEF IsABag
<1>2. CASE x \notin DOMAIN B
  BY <1>1, <1>2 DEF BagRemove, IsABag
<1>3. CASE x \in DOMAIN B /\ B[x] = 1
  BY <1>1, <1>3 DEF BagRemove, IsABag
<1>4. CASE x \in DOMAIN B /\ B[x] # 1
  <2>1. BagRemove(B, x) = [e \in DOMAIN B |-> IF e = x THEN B[e] - 1 ELSE B[e]]
    BY <1>4 DEF BagRemove
  <2>2. B[x] - 1 \in {n \in Nat : n > 0}
    BY <1>1, <1>4
  <2>. QED
    BY <1>1, <1>4, <2>1, <2>2 DEF IsABag
<1>. QED
  BY <1>2, <1>3, <1>4

\* Leaving some items of a bag.
LEMMA RestrictIs ==
  ASSUME NEW B, IsABag(B), NEW S \in SUBSET DOMAIN B
  PROVE  /\ IsABag(Restrict(B, S))
         /\ DOMAIN Restrict(B, S) = S
         /\ \A e \in S : Restrict(B, S)[e] = B[e]
BY DEF Restrict, IsABag

\* The bags of one item or none.
LEMMA SmallBags ==
  /\ IsABag(EmptyBag) /\ DOMAIN EmptyBag = {}
  /\ \A x : /\ IsABag(SetToBag({x})) /\ DOMAIN SetToBag({x}) = {x}
            /\ SetToBag({x})[x] = 1
BY DEF EmptyBag, SetToBag, IsABag

-----------------------------------------------------------------------------
(* Merges *)

\* The sorts of files, and what is in them.
LEMMA Sorts ==
  /\ \A f \in HookFiles :
       /\ f \notin Servers /\ f \notin InPlace /\ f \notin {"workflow", "requirements", "agents"}
       /\ ItemsOf(f) = Entries
       /\ \A thing \in TheirItems(f) \ Mixed : thing \in Entries /\ ~ IsOurs(thing)
  /\ \A f \in Servers :
       /\ f \notin HookFiles /\ f \notin InPlace /\ f \notin {"workflow", "requirements", "agents"}
       /\ ItemsOf(f) = Registrations
       /\ TheirItems(f) = {s \in Registrations : s.more}
  /\ \A f \in Files \ (HookFiles \cup Servers) :
       /\ ItemsOf(f) = {Line("ours"), Line("theirs")}
       /\ TheirItems(f) \subseteq {Line("theirs")}
       /\ f \in Generated => TheirItems(f) = {}
<1>1. ASSUME NEW f \in HookFiles
      PROVE  /\ f \notin Servers /\ f \notin InPlace
             /\ f \notin {"workflow", "requirements", "agents"} /\ ItemsOf(f) = Entries
             /\ \A thing \in TheirItems(f) \ Mixed : thing \in Entries /\ ~ IsOurs(thing)
  <2>1. /\ f \notin Servers /\ f \notin InPlace /\ f \notin Generated
        /\ f \notin {"workflow", "requirements", "agents"}
    BY DEF HookFiles, Servers, InPlace, Generated
  <2>2. ItemsOf(f) = Entries
    BY <2>1 DEF ItemsOf
  <2>3. TheirItems(f) = Things(f) \cup Mixed
    BY <2>1 DEF TheirItems
  <2>4. Things(f) = {Entry("hooks", {"theirs"}), Entry("hooks", {"mention"}),
                     Entry("top", {"theirs"})}
    BY <2>1 DEF Things
  <2>5. \A thing \in Things(f) : thing \in Entries /\ ~ IsOurs(thing)
    BY <2>4 DEF Entries, Entry, IsOurs
  <2>. QED
    BY <2>1, <2>2, <2>3, <2>5
<1>2. ASSUME NEW f \in Servers
      PROVE  /\ f \notin HookFiles /\ f \notin InPlace
             /\ f \notin {"workflow", "requirements", "agents"} /\ ItemsOf(f) = Registrations
             /\ TheirItems(f) = {s \in Registrations : s.more}
  <2>1. /\ f \notin HookFiles /\ f \notin InPlace
        /\ f \notin {"workflow", "requirements", "agents"}
    BY DEF HookFiles, Servers, InPlace, Generated
  <2>2. ItemsOf(f) = Registrations
    BY <2>1 DEF ItemsOf
  <2>. QED
    BY <2>1, <2>2 DEF TheirItems
<1>3. ASSUME NEW f \in Files \ (HookFiles \cup Servers)
      PROVE  /\ ItemsOf(f) = {Line("ours"), Line("theirs")}
             /\ TheirItems(f) \subseteq {Line("theirs")}
             /\ f \in Generated => TheirItems(f) = {}
  <2>1. TheirItems(f) = Things(f)
    BY DEF TheirItems
  <2>2. CASE f \in Generated
    BY <2>1, <2>2 DEF Things, ItemsOf
  <2>3. CASE f \notin Generated
    BY <2>1, <2>3 DEF Things, ItemsOf
  <2>. QED
    BY <2>2, <2>3
<1>. QED
  BY <1>1, <1>2, <1>3

\* What a merge of items gives: items of the file, one of ours at most, and the
\* developer's.
GoodMerge(f, items, next) ==
  /\ IsItems(f, next)
  /\ OneIn(f, items) => OneIn(f, next)
  /\ \A thing \in TheirItems(f) \ Mixed : KeepsIn(f, items, thing) => KeepsIn(f, next, thing)

\* A merge of hooks replaces our entry and no other.
LEMMA HooksMerge ==
  ASSUME NEW f \in HookFiles, NEW items, IsItems(f, items)
  PROVE  GoodMerge(f, items, MergeHooks(f, items))
<1> DEFINE stay == {entry \in DOMAIN items : \/ entry.place = "top" /\ f # "codex_hooks"
                                             \/ ~ IsOurs(entry)}
           kept == Restrict(items, stay)
           ours == Entry("hooks", {"ours"})
<1>1. /\ IsABag(kept) /\ DOMAIN kept = stay
      /\ \A e \in stay : kept[e] = items[e]
  BY RestrictIs DEF IsItems
<1>2. /\ IsABag(BagAdd(kept, ours)) /\ DOMAIN BagAdd(kept, ours) = stay \cup {ours}
      /\ BagAdd(kept, ours)[ours] = IF ours \in stay THEN kept[ours] + 1 ELSE 1
  BY <1>1, AddIs, ZenonT(40)
<1>3. MergeHooks(f, items) = BagAdd(kept, ours)
  BY DEF MergeHooks
<1>4. \A e \in stay : e \in ItemsOf(f) /\ ~ IsOurs(e)
  BY Sorts DEF IsItems, Entries
<1>5. ours \in ItemsOf(f) /\ IsOurs(ours)
  BY Sorts DEF Entries, IsOurs, Entry
<1>6. IsItems(f, BagAdd(kept, ours))
  BY <1>2, <1>4, <1>5 DEF IsItems
<1>7. OneIn(f, BagAdd(kept, ours))
  <2>1. OursIn(f, BagAdd(kept, ours)) = {item \in DOMAIN BagAdd(kept, ours) : IsOurs(item)}
    BY Sorts DEF OursIn
  <2>. QED
    BY <1>2, <1>4, <1>5, <2>1 DEF OneIn
<1>8. ASSUME NEW thing \in TheirItems(f) \ Mixed, KeepsIn(f, items, thing)
      PROVE  KeepsIn(f, BagAdd(kept, ours), thing)
  <2>1. f \notin Servers
    BY Sorts
  <2>3. ~ IsOurs(thing)
    BY Sorts
  <2>4. thing \in DOMAIN items
    BY <1>8, <2>1 DEF KeepsIn, BagIn, BagToSet
  <2>. QED
    BY <2>1, <2>3, <2>4, <1>2 DEF KeepsIn, BagIn, BagToSet
<1>. QED
  BY <1>3, <1>6, <1>7, <1>8 DEF GoodMerge

\* The keys are different ones.
LEMMA KeysApart ==
  /\ Named # Product /\ Named[1] = 0 /\ Product[1] = 3
  /\ \A k \in {1, 2} : \A repo : <<k, repo>> # Named /\ <<k, repo>> # Product
BY DEF Named, Product

\* A server that is registered is there, the others stay, and the fields that the
\* developer added.
LEMMA RegisterMerge ==
  ASSUME NEW f \in Servers, NEW items, IsItems(f, items),
         NEW key \in Keys, NEW repo \in Repos \cup {Nobody},
         key[1] \in {1, 2} => key[2] = repo,
         key = Product => repo = Nobody
  PROVE  /\ IsItems(f, Register(items, key, repo))
         /\ OneIn(f, items) => OneIn(f, Register(items, key, repo))
         /\ Has(Register(items, key, repo), repo)
         /\ (\A s \in DOMAIN items : s.key = key => s.repo = repo) =>
              /\ GoodMerge(f, items, Register(items, key, repo))
              /\ \A r : Has(items, r) => Has(Register(items, key, repo), r)
<1> DEFINE old == {s \in DOMAIN items : s.key = key}
           kept == Restrict(items, DOMAIN items \ old)
           new == Server(key, repo, \E s \in old : s.more)
           next == BagAdd(kept, new)
<1>1. /\ IsABag(kept) /\ DOMAIN kept = DOMAIN items \ old
      /\ \A e \in DOMAIN items \ old : kept[e] = items[e]
  BY RestrictIs DEF IsItems
<1>2. /\ IsABag(next) /\ DOMAIN next = (DOMAIN items \ old) \cup {new}
      /\ next[new] = IF new \in DOMAIN items \ old THEN kept[new] + 1 ELSE 1
      /\ \A e \in (DOMAIN items \ old) \ {new} : next[e] = items[e]
  <2> HIDE DEF kept, new, old
  <2>1. /\ IsABag(next) /\ DOMAIN next = DOMAIN kept \cup {new}
        /\ next[new] = IF new \in DOMAIN kept THEN kept[new] + 1 ELSE 1
        /\ \A e \in DOMAIN kept \ {new} : next[e] = kept[e]
    BY <1>1, AddIs
  <2> HIDE DEF next
  <2>. QED
    BY <1>1, <2>1
<1>3. next = Register(items, key, repo)
  BY DEF Register
<1>4. f \notin HookFiles /\ ItemsOf(f) = Registrations
  BY Sorts
<1>5. new.key = key /\ new.repo = repo /\ new.more = (\E s \in old : s.more)
  BY DEF Server
<1>6. new \in ItemsOf(f)
  BY <1>4 DEF Registrations, Server
<1>7. new \notin DOMAIN items \ old
  BY <1>5
<1> HIDE DEF next, kept, new
<1>8. IsItems(f, next)
  BY <1>2, <1>6 DEF IsItems
<1>9. ASSUME OneIn(f, items)
      PROVE  OneIn(f, next)
  <2>1. OursIn(f, next) = {s \in DOMAIN next : s.key = Product}
    BY <1>4 DEF OursIn
  <2>2. OursIn(f, items) = {s \in DOMAIN items : s.key = Product}
    BY <1>4 DEF OursIn
  <2>3. SUFFICES ASSUME NEW x \in DOMAIN next, NEW y \in DOMAIN next,
                        x.key = Product, y.key = Product
                 PROVE  x = y /\ next[x] = 1
    BY <2>1 DEF OneIn
  <2>4. CASE key = Product
    BY <1>2, <1>7, <2>3, <2>4
  <2>5. CASE key # Product
    BY <1>2, <1>5, <1>9, <2>2, <2>3, <2>5 DEF OneIn
  <2>. QED
    BY <2>4, <2>5
<1> DEFINE Free == \A s \in DOMAIN items : s.key = key => s.repo = repo
<1>10. ASSUME Free, NEW thing \in TheirItems(f) \ Mixed, KeepsIn(f, items, thing)
       PROVE  KeepsIn(f, next, thing)
  <2>1. PICK s \in DOMAIN items : s.key = thing.key /\ s.repo = thing.repo /\ s.more
    BY <1>10 DEF KeepsIn
  <2>2. CASE s \in old
    BY <1>2, <1>5, <1>10, <2>1, <2>2 DEF KeepsIn
  <2>3. CASE s \notin old
    BY <1>2, <2>1, <2>3 DEF KeepsIn
  <2>. QED
    BY <2>2, <2>3
<1>11. Has(next, repo)
  BY <1>2, <1>5 DEF Has
<1>12. ASSUME Free, NEW r, Has(items, r)
       PROVE  Has(next, r)
  <2>1. PICK s \in DOMAIN items : s.repo = r
    BY <1>12 DEF Has
  <2>. QED
    BY <1>2, <1>5, <1>12, <2>1 DEF Has
<1>. QED
  <2>1. Free => GoodMerge(f, items, next)
    BY <1>8, <1>9, <1>10 DEF GoodMerge
  <2>. QED
    BY <1>3, <1>8, <1>9, <1>11, <1>12, <2>1

\* The key that is chosen is one of the repository's, and nobody else's there.
LEMMA FreeKeyIs ==
  ASSUME NEW items, IsItems("global_mcp", items), NEW repo \in Repos
  PROVE  /\ \E i \in 1..3 : FreeKey(items, repo) = Candidates(repo)[i]
         /\ \A s \in DOMAIN items : s.key = FreeKey(items, repo) => s.repo = repo
<1> DEFINE Occupied(key) == \E s \in DOMAIN items : s.key = key /\ s.repo # repo
           free == {i \in 1..3 : ~ Occupied(Candidates(repo)[i])}
<1>1. ~ Occupied(<<1, repo>>)
  <2>1. ItemsOf("global_mcp") = Registrations
    BY Sorts DEF Servers
  <2>. QED
    BY <2>1 DEF IsItems, Registrations
<1>2. 2 \in free
  BY <1>1 DEF Candidates
<1>3. Min(free) \in free
  <2>1. \E i \in free : \A j \in free : i <= j
    <3>1. CASE 1 \in free
      BY <3>1
    <3>2. CASE 1 \notin free
      BY <1>2, <3>2
    <3>. QED
      BY <3>1, <3>2
  <2>. QED
    BY <2>1 DEF Min
<1>4. FreeKey(items, repo) = Candidates(repo)[Min(free)]
  BY <1>2 DEF FreeKey
<1>. QED
  BY <1>3, <1>4

\* What the keys of a repository are.
LEMMA CandidateIs ==
  ASSUME NEW repo \in Repos, NEW i \in 1..3, NEW key, key = Candidates(repo)[i]
  PROVE  /\ key \in Keys /\ key # Product /\ key # <<>>
         /\ key[1] \in {1, 2} => key[2] = repo
<1>1. key \in {Named, <<1, repo>>, <<2, repo>>}
  BY DEF Candidates
<1>2. CASE key = Named
  BY <1>2, KeysApart DEF Keys, Named
<1>3. CASE key = <<1, repo>>
  BY <1>3, KeysApart DEF Keys
<1>4. CASE key = <<2, repo>>
  BY <1>4, KeysApart DEF Keys
<1>. QED
  BY <1>1, <1>2, <1>3, <1>4

\* The lines of a cheatsheet, a requirement, a workflow or a file we generate.
LEMMA LineMerge ==
  ASSUME NEW f \in Files \ (HookFiles \cup Servers), NEW items, IsItems(f, items)
  PROVE  /\ f \in {"agents", "requirements"} => GoodMerge(f, items, AddLine(items))
         /\ f \in Generated => GoodMerge(f, items, Text)
         /\ f = "workflow" => GoodMerge(f, items, Setup(items))
<1>1. /\ ItemsOf(f) = {Line("ours"), Line("theirs")} /\ Line("ours") # Line("theirs")
      /\ TheirItems(f) \subseteq {Line("theirs")}
      /\ f \in Generated => TheirItems(f) = {}
  BY Sorts DEF Line
<1>2. \A next : OursIn(f, next) = {item \in DOMAIN next : item = Line("ours")}
  BY DEF OursIn
<1>3. \A next, thing : KeepsIn(f, next, thing) <=> thing \in DOMAIN next
  BY DEF KeepsIn, BagIn, BagToSet
<1>4. /\ IsItems(f, Text) /\ OneIn(f, Text) /\ DOMAIN Text = {Line("ours")}
  <2>1. IsABag(Text) /\ DOMAIN Text = {Line("ours")} /\ Text[Line("ours")] = 1
    BY SmallBags DEF Text
  <2>2. IsItems(f, Text)
    BY <1>1, <2>1 DEF IsItems
  <2>3. OneIn(f, Text)
    BY <1>2, <2>1 DEF OneIn
  <2>. QED
    BY <2>1, <2>2, <2>3
<1>5. GoodMerge(f, items, AddLine(items))
  <2>1. CASE Line("ours") \in DOMAIN items
    BY <2>1 DEF AddLine, BagIn, BagToSet, GoodMerge
  <2>2. CASE Line("ours") \notin DOMAIN items
    <3>1. AddLine(items) = BagAdd(items, Line("ours"))
      BY <2>2 DEF AddLine, BagIn, BagToSet
    <3>2. /\ IsABag(BagAdd(items, Line("ours")))
          /\ DOMAIN BagAdd(items, Line("ours")) = DOMAIN items \cup {Line("ours")}
          /\ BagAdd(items, Line("ours"))[Line("ours")] = 1
      BY <2>2, AddIs DEF IsItems
    <3>3. IsItems(f, AddLine(items))
      BY <1>1, <3>1, <3>2 DEF IsItems
    <3>4. OneIn(f, AddLine(items))
      BY <1>2, <3>1, <3>2 DEF OneIn
    <3>5. \A thing : KeepsIn(f, items, thing) => KeepsIn(f, AddLine(items), thing)
      BY <1>3, <3>1, <3>2
    <3>. QED
      BY <3>3, <3>4, <3>5 DEF GoodMerge
  <2>. QED
    BY <2>1, <2>2
<1>6. f \in Generated => GoodMerge(f, items, Text)
  BY <1>1, <1>4 DEF GoodMerge
<1>7. GoodMerge(f, items, Setup(items))
  <2>1. CASE items = EmptyBag \/ items = Text
    BY <1>1, <1>3, <1>4, <2>1, SmallBags DEF GoodMerge, Setup
  <2>2. CASE ~ (items = EmptyBag \/ items = Text)
    BY <2>2 DEF GoodMerge, Setup
  <2>. QED
    BY <2>1, <2>2
<1>. QED
  BY <1>5, <1>6, <1>7

\* Every merge, with the key that the process has.
LEMMA MergeIs ==
  ASSUME NEW f \in Files, NEW items, IsItems(f, items),
         NEW key \in Keys, NEW repo \in Repos \cup {Nobody},
         key[1] \in {1, 2} => key[2] = repo,
         key = Product => repo = Nobody
  PROVE  /\ IsItems(f, Merge(f, items, key, repo))
         /\ OneIn(f, items) => OneIn(f, Merge(f, items, key, repo))
         /\ f \in Servers => Has(Merge(f, items, key, repo), repo)
         /\ (f \in Servers => \A s \in DOMAIN items : s.key = key => s.repo = repo) =>
              /\ GoodMerge(f, items, Merge(f, items, key, repo))
              /\ f \in Servers => \A r : Has(items, r) => Has(Merge(f, items, key, repo), r)
<1>1. CASE f \in HookFiles
  <2>1. Merge(f, items, key, repo) = MergeHooks(f, items)
    BY <1>1, Sorts DEF Merge, InPlace
  <2>. QED
    BY <1>1, <2>1, HooksMerge, Sorts DEF GoodMerge
<1>2. CASE f \in Servers
  <2>1. Merge(f, items, key, repo) = Register(items, key, repo)
    BY <1>2, Sorts DEF Merge, InPlace
  <2>. QED
    BY <1>2, <2>1, RegisterMerge
<1>3. CASE f \in Generated
  <2>1. f \notin HookFiles /\ f \notin Servers /\ f \notin {"agents", "requirements", "workflow"}
    BY <1>3 DEF Generated, HookFiles, Servers
  <2>2. Merge(f, items, key, repo) = Text
    BY <1>3, <2>1 DEF Merge
  <2>. QED
    BY <1>3, <2>1, <2>2, LineMerge DEF GoodMerge
<1>4. CASE f \in {"agents", "requirements"}
  <2>1. f \notin HookFiles /\ f \notin Servers /\ f \notin Generated /\ f # "workflow"
    BY <1>4 DEF Generated, HookFiles, Servers
  <2>2. Merge(f, items, key, repo) = AddLine(items)
    BY <1>4, <2>1 DEF Merge
  <2>. QED
    BY <1>4, <2>1, <2>2, LineMerge DEF GoodMerge
<1>5. CASE f = "workflow"
  <2>1. f \notin HookFiles /\ f \notin Servers /\ f \notin Generated
    BY <1>5 DEF Generated, HookFiles, Servers
  <2>2. Merge(f, items, key, repo) = Setup(items)
    BY <1>5 DEF Merge, Generated, HookFiles, Servers
  <2>. QED
    BY <1>5, <2>1, <2>2, LineMerge DEF GoodMerge
<1>. QED
  BY <1>1, <1>2, <1>3, <1>4, <1>5 DEF Files, InPlace

-----------------------------------------------------------------------------
(* What the steps do to the processes *)

Others(p) == DOMAIN proc' = Procs /\ \A q \in Procs \ {p} : proc'[q] = proc[q]

\* The process has nothing in hand.
Left(p) ==
  proc'[p] = Idle \/ (IsProcess(proc'[p]) /\ proc'[p].at = "next" /\ proc'[p].key = <<>>)

\* The process is one phase on, with all that it had.
Moved(p, at) ==
  /\ IsProcess(proc[p]) /\ IsProcess(proc'[p])
  /\ proc'[p].at = at /\ Now(p)' = Now(p)
  /\ \A field \in {"plan", "repo", "key", "read", "next"} : proc'[p][field] = proc[p][field]

\* Who is at a step is a process at work on a file.
LEMMA AtIs ==
  ASSUME TypeInv, NEW p \in Procs, NEW at \in Phases, At(p, at)
  PROVE  IsProcess(proc[p]) /\ Now(p) \in Files /\ proc[p].at = at
<1>1. IsProcess(proc[p])
  BY DEF TypeInv, At, Idle, Phases
<1>. QED
  BY <1>1 DEF At, Now, IsProcess

\* The plans of the adapters.
LEMMA Plans ==
  \A host \in Hosts : Plan[host] \in Seq(Files) /\ Plan[host] # <<>>
<1>1. \A f, g, h \in Files : /\ <<f>> \in Seq(Files) /\ <<f, g>> \in Seq(Files)
                             /\ <<f, g, h>> \in Seq(Files)
  OBVIOUS
<1>2. \A f, g, h : <<f>> # <<>> /\ <<f, g>> # <<>> /\ <<f, g, h>> # <<>>
  OBVIOUS
<1>3. /\ {"settings", "commands", "codex_hooks", "agents", "cursor_hooks", "rule"} \subseteq Files
      /\ {"project_mcp", "global_mcp", "workflow", "requirements"} \subseteq Files
  BY DEF Files, HookFiles, Servers, InPlace, Generated
<1> DEFINE Adapters == {ClaudeCode, Codex, Cursor, AgentsMd, Opencode, CopilotAgent, PydanticAi,
                        McpHost("global_mcp"), McpHost("project_mcp")}
<1>4. \A plan \in Adapters : plan \in Seq(Files) /\ plan # <<>>
  BY <1>1, <1>2, <1>3, ZenonT(40)
     DEF ClaudeCode, Codex, Cursor, McpHost, Opencode, AgentsMd, CopilotAgent, PydanticAi
<1>5. \A host \in DOMAIN Plan : Plan[host] \in Adapters
  BY DEF Plan
<1>. QED
  BY <1>4, <1>5, HostsAssumption

LEMMA StartIs ==
  ASSUME TypeInv, NEW p \in Procs, NEW host \in Hosts, NEW repo \in Repos, Start(p, host, repo)
  PROVE  Others(p) /\ Left(p)
<1>1. Others(p)
  BY DEF Others, Start, TypeInv
<1>2. proc'[p] = [Idle EXCEPT !.at = "next", !.plan = Plan[host], !.repo = repo, !.key = <<>>]
  BY DEF Start, TypeInv
<1>3. proc'[p] = [at |-> "next", plan |-> Plan[host], repo |-> repo, key |-> <<>>,
                  read |-> Absent, next |-> EmptyBag]
  BY <1>2 DEF Idle
<1>4. IsProcess(proc'[p])
  BY <1>3, Plans DEF IsProcess, Phases
<1>. QED
  BY <1>1, <1>3, <1>4 DEF Left

LEMMA OnwardIs ==
  ASSUME TypeInv, NEW p \in Procs, IsProcess(proc[p]), Onward(p)
  PROVE  Others(p) /\ Left(p)
<1>1. Others(p)
  BY DEF Others, Onward, TypeInv
<1>2. CASE Len(proc[p].plan) = 1
  BY <1>1, <1>2 DEF Onward, TypeInv, Left
<1>3. CASE Len(proc[p].plan) # 1
  <2>1. proc'[p] = [proc[p] EXCEPT !.at = "next", !.plan = Tail(@), !.key = <<>>]
    BY <1>3 DEF Onward, TypeInv
  <2>2. proc'[p] = [at |-> "next", plan |-> Tail(proc[p].plan), repo |-> proc[p].repo,
                    key |-> <<>>, read |-> proc[p].read, next |-> proc[p].next]
    BY <2>1 DEF IsProcess
  <2>3. Tail(proc[p].plan) \in Seq(Files) /\ Tail(proc[p].plan) # <<>>
    <3>1. /\ proc[p].plan \in Seq(Files) /\ proc[p].plan # <<>>
          /\ Len(proc[p].plan) # 1
      BY <1>3 DEF IsProcess
    <3>2. Len(proc[p].plan) \in Nat /\ Len(proc[p].plan) # 0
      BY <3>1, EmptySeq, LenProperties
    <3>3. Tail(proc[p].plan) \in Seq(Files) /\ Len(Tail(proc[p].plan)) = Len(proc[p].plan) - 1
      BY <3>1, HeadTailProperties
    <3>4. Len(Tail(proc[p].plan)) # 0
      BY <3>1, <3>2, <3>3
    <3>5. Len(<<>>) = 0
      OBVIOUS
    <3>. QED
      BY <3>3, <3>4, <3>5
  <2>4. IsProcess(proc'[p])
    BY <2>2, <2>3 DEF IsProcess, Phases
  <2>5. proc'[p].at = "next" /\ proc'[p].key = <<>>
    BY <2>2
  <2>. QED
    BY <1>1, <2>4, <2>5 DEF Left
<1>. QED
  BY <1>1, <1>2, <1>3

LEMMA FailIs ==
  ASSUME TypeInv, NEW p \in Procs, Fail(p)
  PROVE  Others(p) /\ Left(p)
BY DEF Others, Left, Fail, TypeInv

\* A phase that only moves on.
LEMMA MoveIs ==
  ASSUME TypeInv, NEW p \in Procs, IsProcess(proc[p]), NEW at \in Phases \ {"next"},
         proc[p].at # "next",
         proc' = [proc EXCEPT ![p].at = at]
  PROVE  Others(p) /\ Moved(p, at)
<1>1. Others(p)
  BY DEF Others, TypeInv
<1>2. proc'[p] = [proc[p] EXCEPT !.at = at]
  BY DEF TypeInv
<1>3. proc'[p] = [at |-> at, plan |-> proc[p].plan, repo |-> proc[p].repo, key |-> proc[p].key,
                  read |-> proc[p].read, next |-> proc[p].next]
  BY <1>2 DEF IsProcess
<1>4. IsProcess(proc'[p])
  BY <1>3 DEF IsProcess
<1>. QED
  BY <1>1, <1>3, <1>4 DEF Moved, Now

\* A key is chosen from what the file holds.
LEMMA ChooseIs ==
  ASSUME TypeInv, NEW p \in Procs, ChooseKey(p)
  PROVE  /\ Others(p) /\ IsProcess(proc[p]) /\ IsProcess(proc'[p])
         /\ Now(p)' = Now(p) /\ proc'[p].repo = proc[p].repo
         /\ Now(p) = "global_mcp" /\ proc[p].key = <<>> /\ proc'[p].at = "next"
         /\ proc'[p].key # <<>> /\ proc'[p].read = disk["global_mcp"]
         /\ proc'[p].read.state = "whole" =>
              \A s \in DOMAIN proc'[p].read.items : s.key = proc'[p].key => s.repo = proc'[p].repo
<1>1. IsProcess(proc[p]) /\ Now(p) = "global_mcp" /\ proc[p].at = "next" /\ proc[p].key = <<>>
  BY AtIs DEF ChooseKey, Phases
<1> DEFINE there == disk["global_mcp"]
           items == IF there.state = "whole" THEN there.items ELSE EmptyBag
           key == FreeKey(items, proc[p].repo)
<1>2. "global_mcp" \in Files /\ IsFile("global_mcp", there)
  BY DEF TypeInv, Files, Servers
<1>3. IsItems("global_mcp", items)
  BY <1>2, SmallBags DEF IsFile, IsItems
<1>4. /\ \E i \in 1..3 : key = Candidates(proc[p].repo)[i]
      /\ \A s \in DOMAIN items : s.key = key => s.repo = proc[p].repo
  BY <1>1, <1>3, FreeKeyIs DEF IsProcess
<1>5. key # <<>>
  BY <1>1, <1>4, CandidateIs DEF IsProcess
<1>6. proc' = [proc EXCEPT ![p].key = key, ![p].read = there]
  BY <1>1 DEF ChooseKey
<1>7. Others(p)
  BY <1>6 DEF Others, TypeInv
<1>8. proc'[p] = [at |-> "next", plan |-> proc[p].plan, repo |-> proc[p].repo, key |-> key,
                  read |-> there, next |-> proc[p].next]
  BY <1>1, <1>6 DEF TypeInv, IsProcess
<1> HIDE DEF key
<1>9. IsProcess(proc'[p])
  BY <1>1, <1>2, <1>4, <1>8 DEF IsProcess, Phases, Now
<1>. QED
  BY <1>1, <1>4, <1>5, <1>7, <1>8, <1>9 DEF Now

\* A file is read and merged, or left as it is.
LEMMA ReadIs ==
  ASSUME TypeInv, NEW p \in Procs, Read(p)
  PROVE  LET f == Now(p)
             there == disk[f]
             next == proc'[p].next
         IN /\ Others(p) /\ f \in Files
            /\ lost' = IF there.state = "torn" THEN lost \cup {f} ELSE lost
            /\ \/ Left(p)
               \/ /\ IsProcess(proc'[p]) /\ Now(p)' = f /\ proc'[p].at = "read"
                  /\ OneIn(f, there.items) => OneIn(f, next)
                  /\ \/ proc'[p].read = Mismatch
                     \/ /\ proc'[p].read = there
                        /\ there.state = "unreadable" => f \in InPlace
                        /\ (KeyFree /\ there.state = "whole" =>
                              \A thing \in TheirItems(f) \ Mixed :
                                KeepsIn(f, there.items, thing) => KeepsIn(f, next, thing))
                        /\ f = "global_mcp" => Has(next, proc'[p].repo)
                        /\ f = "global_mcp" /\ KeyFree /\ there.state = "whole" =>
                             \A repo : Has(there.items, repo) => Has(next, repo)
<1>1. IsProcess(proc[p]) /\ Now(p) \in Files /\ proc[p].at = "next"
  BY AtIs DEF Read, Phases
<1> DEFINE f == Now(p)
           there == disk[f]
           chosen == proc[p].key # <<>>
           items == IF there.state = "whole" THEN there.items ELSE EmptyBag
           key == IF chosen THEN proc[p].key ELSE Product
           repo == IF chosen THEN proc[p].repo ELSE Nobody
           next == Merge(f, items, key, repo)
           read == IF chosen /\ proc[p].read # there THEN Mismatch ELSE there
<1>2. IsFile(f, there)
  BY <1>1 DEF TypeInv
<1>3. IsItems(f, items)
  BY <1>2, SmallBags DEF IsFile, IsItems
<1>4. OneIn(f, there.items) => OneIn(f, items)
  BY SmallBags DEF OneIn, OursIn
<1>5. chosen <=> f = "global_mcp"
  BY <1>1 DEF Read, IsProcess, Now
<1>6. /\ key \in Keys /\ repo \in Repos \cup {Nobody}
      /\ key[1] \in {1, 2} => key[2] = repo
      /\ key = Product => repo = Nobody
  <2>1. CASE chosen
    BY <1>1, <2>1, CandidateIs DEF IsProcess
  <2>2. CASE ~ chosen
    BY <2>2, KeysApart DEF Keys
  <2>. QED
    BY <2>1, <2>2
<1> DEFINE Free == f \in Servers => \A s \in DOMAIN items : s.key = key => s.repo = repo
<1>7. /\ IsItems(f, next)
      /\ OneIn(f, items) => OneIn(f, next)
      /\ f \in Servers => Has(next, repo)
      /\ Free => /\ GoodMerge(f, items, next)
                 /\ f \in Servers => \A r : Has(items, r) => Has(next, r)
  BY <1>1, <1>3, <1>6, MergeIs
<1>8. KeyFree /\ read = there /\ there.state = "whole" => Free
  <2>1. CASE chosen
    <3>1. On(p, "global_mcp", {"next"})
      BY <1>1, <1>5, <2>1 DEF On, IsProcess
    <3>. QED
      BY <2>1, <3>1 DEF KeyFree, Mismatch, File
  <2>2. CASE ~ chosen
    BY <1>3, <2>2, Sorts DEF IsItems, Registrations
  <2>. QED
    BY <2>1, <2>2
<1> HIDE DEF key, repo, next, items
<1>9. CASE Onward(p)
  BY <1>1, <1>9, OnwardIs DEF Read
<1>10. CASE proc' = [proc EXCEPT ![p].at = "read", ![p].next = next, ![p].read = read]
  <2>1. Others(p)
    BY <1>10 DEF Others, TypeInv
  <2>2. proc'[p] = [at |-> "read", plan |-> proc[p].plan, repo |-> proc[p].repo,
                    key |-> proc[p].key, read |-> read, next |-> next]
    BY <1>1, <1>10 DEF TypeInv, IsProcess
  <2>3. IsProcess(proc'[p])
    BY <1>1, <1>2, <1>5, <1>7, <2>2 DEF IsProcess, Phases, Now
  <2>4. Now(p)' = f
    BY <2>2 DEF Now
  <2>5. there.state = "unreadable" => f \in InPlace
    BY <1>1 DEF Read, Accepts
  <2>6. f = "global_mcp" => f \in Servers /\ repo = proc[p].repo
    BY <1>5 DEF Servers, repo
  <2>7. there.state = "whole" => items = there.items
    BY DEF items
  <2>. QED
    BY <1>1, <1>4, <1>7, <1>8, <2>1, <2>2, <2>3, <2>4, <2>5, <2>6, <2>7 DEF Read, GoodMerge
<1>11. Onward(p) \/ proc' = [proc EXCEPT ![p].at = "read", ![p].next = next, ![p].read = read]
  BY DEF Read, next, key, repo, items
<1>. QED
  BY <1>9, <1>10, <1>11

\* What the developer puts into a file is of its kind.
LEMMA TheirsFit ==
  \A f \in Files : Things(f) \subseteq TheirItems(f) /\ TheirItems(f) \subseteq ItemsOf(f)
<1>1. ASSUME NEW f \in HookFiles
      PROVE  Things(f) \subseteq TheirItems(f) /\ TheirItems(f) \subseteq ItemsOf(f)
  <2>1. TheirItems(f) = Things(f) \cup Mixed
    BY Sorts DEF TheirItems
  <2>2. Mixed \subseteq Entries
    BY DEF Mixed, Entries, Entry, IsOurs
  <2>. QED
    BY <2>1, <2>2, Sorts
<1>2. ASSUME NEW f \in Servers
      PROVE  Things(f) \subseteq TheirItems(f) /\ TheirItems(f) \subseteq ItemsOf(f)
  <2>1. Things(f) = {Server(Named, Nobody, TRUE)}
    BY Sorts DEF Things, InPlace
  <2>2. Server(Named, Nobody, TRUE) \in Registrations
    BY KeysApart DEF Registrations, Server, Keys
  <2>. QED
    BY <2>1, <2>2, Sorts DEF Server
<1>3. ASSUME NEW f \in Files \ (HookFiles \cup Servers)
      PROVE  Things(f) \subseteq TheirItems(f) /\ TheirItems(f) \subseteq ItemsOf(f)
  BY Sorts DEF TheirItems
<1>. QED
  BY <1>1, <1>2, <1>3

\* The developer adds an item, or writes one anew.
EditsOf(f) ==
  /\ disk[f].state \in {"absent", "whole"}
  /\ \E new \in TheirItems(f) :
       /\ theirs' = [theirs EXCEPT ![f] = @ \cup {new}]
       /\ \/ /\ new \in Things(f) /\ disk[f].state \in {"absent", "whole"}
             /\ f \in Servers => \A s \in DOMAIN disk[f].items : s.key # new.key
             /\ disk' = [disk EXCEPT ![f] = File("whole", BagAdd(disk[f].items, new))]
          \/ \E old \in DOMAIN disk[f].items \ (TheirItems(f) \ Mixed) :
               /\ disk[f].state = "whole"
               /\ f \in HookFiles \cup Servers
               /\ f \in HookFiles => IsOurs(old) /\ IsOurs(new) /\ new \in Mixed
               /\ f \in Servers => old.key = new.key /\ old.repo = new.repo /\ ~ old.more
               /\ disk' = [disk EXCEPT ![f].items = BagAdd(BagRemove(disk[f].items, old), new)]

\* What the developer does, short of leaving a file that cannot be read.
LEMMA EditIs ==
  ASSUME TypeInv, NEW f \in Files, Add(f) \/ Extend(f) \/ Join(f)
  PROVE  EditsOf(f)
<1>1. CASE Add(f)
  BY <1>1, TheirsFit DEF Add, Edits, EditsOf, TypeInv, IsFile
<1>2. CASE Extend(f)
  <2>1. f \in Servers /\ disk[f].state \in {"absent", "whole"}
    BY <1>2 DEF Extend, Edits
  <2>2. PICK s \in DOMAIN disk[f].items : ~ s.more /\ Rewrites(f, s, Server(s.key, s.repo, TRUE))
    BY <1>2 DEF Extend
  <2> DEFINE new == Server(s.key, s.repo, TRUE)
  <2>3. disk[f].state = "whole"
    BY <2>1, <2>2, SmallBags DEF TypeInv, IsFile
  <2>4. s \in Registrations
    BY <2>1, Sorts DEF TypeInv, IsFile, IsItems
  <2>5. new \in TheirItems(f) /\ new.key = s.key /\ new.repo = s.repo
    BY <2>1, <2>4, Sorts, ZenonT(40) DEF Registrations, Server
  <2>6. s \notin TheirItems(f)
    BY <2>1, <2>2, Sorts
  <2>7. f \notin HookFiles
    BY <2>1, Sorts
  <2>8. /\ theirs' = [theirs EXCEPT ![f] = @ \cup {new}]
        /\ disk' = [disk EXCEPT ![f].items = BagAdd(BagRemove(disk[f].items, s), new)]
    BY <2>2 DEF Rewrites, TypeInv
  <2> HIDE DEF new
  <2>. QED
    BY <2>1, <2>2, <2>3, <2>5, <2>6, <2>7, <2>8 DEF EditsOf
<1>3. CASE Join(f)
  <2>1. f \in HookFiles /\ disk[f].state \in {"absent", "whole"}
    BY <1>3, FilesAssumption DEF Join, Edits
  <2> DEFINE old == Entry("hooks", {"ours"})
             new == Entry("hooks", {"ours", "theirs"})
  <2>2. old \in DOMAIN disk[f].items /\ Rewrites(f, old, new)
    BY <1>3 DEF Join, BagIn, BagToSet
  <2>3. disk[f].state = "whole"
    BY <2>1, <2>2, SmallBags DEF TypeInv, IsFile
  <2>4. IsOurs(old) /\ IsOurs(new) /\ new \in Mixed
    BY DEF IsOurs, Entry, Mixed
  <2>5. old \notin TheirItems(f) \ Mixed /\ new \in TheirItems(f)
    BY <2>1, <2>4, Sorts DEF TheirItems
  <2>6. f \notin Servers
    BY <2>1, Sorts
  <2>7. /\ theirs' = [theirs EXCEPT ![f] = @ \cup {new}]
        /\ disk' = [disk EXCEPT ![f].items = BagAdd(BagRemove(disk[f].items, old), new)]
    BY <2>2 DEF Rewrites, TypeInv
  <2> HIDE DEF old, new
  <2>. QED
    BY <2>1, <2>2, <2>3, <2>4, <2>5, <2>6, <2>7 DEF EditsOf
<1>. QED
  BY <1>1, <1>2, <1>3

\* The bags of a file's items.
LEMMA ItemsAdded ==
  ASSUME NEW f \in Files, NEW items, IsItems(f, items), NEW new \in ItemsOf(f), NEW old
  PROVE  IsItems(f, BagAdd(items, new)) /\ IsItems(f, BagRemove(items, old))
<1>1. IsABag(items) /\ DOMAIN items \subseteq ItemsOf(f)
  BY DEF IsItems
<1>2. IsABag(BagAdd(items, new)) /\ DOMAIN BagAdd(items, new) = DOMAIN items \cup {new}
  BY <1>1, AddIs
<1>3. IsABag(BagRemove(items, old)) /\ DOMAIN BagRemove(items, old) \subseteq DOMAIN items
  BY <1>1, RemoveIs
<1>. QED
  BY <1>1, <1>2, <1>3 DEF IsItems

\* A file keeps its kind when it is written.
LEMMA FileIs ==
  ASSUME NEW f \in Files, NEW items, IsItems(f, items)
  PROVE  IsFile(f, File("whole", items)) /\ IsFile(f, Torn) /\ IsFile(f, Absent)
BY SmallBags DEF IsFile, File, Torn, Absent, IsItems

\* What a developer leaves is a file of its kind.
LEMMA EditedIs ==
  ASSUME TypeInv, NEW f \in Files, EditsOf(f)
  PROVE  /\ DOMAIN disk' = Files /\ \A g \in Files \ {f} : disk'[g] = disk[g]
         /\ IsFile(f, disk'[f]) /\ disk'[f].state = "whole"
<1>1. PICK new \in TheirItems(f) :
         \/ disk' = [disk EXCEPT ![f] = File("whole", BagAdd(disk[f].items, new))]
         \/ /\ disk[f].state = "whole"
            /\ \E old \in DOMAIN disk[f].items :
                 disk' = [disk EXCEPT ![f].items = BagAdd(BagRemove(disk[f].items, old), new)]
  BY DEF EditsOf
<1>2. IsItems(f, disk[f].items) /\ new \in ItemsOf(f) /\ disk[f] = File(disk[f].state, disk[f].items)
  BY TheirsFit DEF TypeInv, IsFile
<1>3. CASE disk' = [disk EXCEPT ![f] = File("whole", BagAdd(disk[f].items, new))]
  <2>1. IsItems(f, BagAdd(disk[f].items, new))
    BY <1>2, ItemsAdded
  <2>2. disk'[f] = File("whole", BagAdd(disk[f].items, new))
    BY <1>3 DEF TypeInv
  <2>. QED
    BY <1>3, <2>1, <2>2, FileIs DEF TypeInv, File
<1>4. ASSUME disk[f].state = "whole", NEW old \in DOMAIN disk[f].items,
             disk' = [disk EXCEPT ![f].items = BagAdd(BagRemove(disk[f].items, old), new)]
      PROVE  /\ DOMAIN disk' = Files /\ \A g \in Files \ {f} : disk'[g] = disk[g]
             /\ IsFile(f, disk'[f]) /\ disk'[f].state = "whole"
  <2>1. IsItems(f, BagRemove(disk[f].items, old))
    BY <1>2, ItemsAdded
  <2>2. IsItems(f, BagAdd(BagRemove(disk[f].items, old), new))
    BY <1>2, <2>1, ItemsAdded
  <2>3. disk'[f] = File("whole", BagAdd(BagRemove(disk[f].items, old), new))
    BY <1>2, <1>4 DEF TypeInv, File
  <2>. QED
    BY <1>4, <2>2, <2>3, FileIs DEF TypeInv, File
<1>. QED
  BY <1>1, <1>3, <1>4

-----------------------------------------------------------------------------
(* Type correctness *)

LEMMA TypeInit == Init => TypeInv
<1> SUFFICES ASSUME Init
             PROVE  TypeInv
  OBVIOUS
<1>1. \A f \in Files : IsItems(f, EmptyBag)
  BY SmallBags DEF IsItems
<1>2. \A f \in Files : IsFile(f, Absent)
  BY <1>1 DEF IsFile, Absent, File
<1>3. \A f \in Files : IsTemporary(f, Unmade)
  BY <1>1 DEF IsTemporary, Unmade
<1>. QED
  BY <1>2, <1>3, BoundsAssumption DEF Init, TypeInv

\* Writing the temporary file, if it is the process's.
LEMMA WriteTmp ==
  ASSUME TypeInv, NEW p \in Procs, Write(p)
  PROVE  LET f == Now(p)
         IN /\ DOMAIN tmp' = Files
            /\ \A g \in Files : tmp[g].by # p \/ g # f => tmp'[g] = tmp[g]
            /\ tmp[f].by = p =>
                 tmp'[f] = [state |-> "whole", items |-> proc[p].next, by |-> p]
<1>1. Now(p) \in Files
  BY AtIs DEF Write, Phases
<1> DEFINE f == Now(p)
<1>2. /\ DOMAIN tmp = Files
      /\ tmp[f] = [state |-> tmp[f].state, items |-> tmp[f].items, by |-> tmp[f].by]
  BY <1>1 DEF TypeInv, IsTemporary
<1>3. CASE tmp[f].by = p
  <2>1. tmp' = [tmp EXCEPT ![f].state = "whole", ![f].items = proc[p].next]
    BY <1>3 DEF Write
  <2>2. tmp'[f] = [state |-> "whole", items |-> proc[p].next, by |-> tmp[f].by]
    BY <1>1, <1>2, <2>1
  <2>. QED
    BY <1>2, <1>3, <2>1, <2>2
<1>4. CASE tmp[f].by # p
  BY <1>2, <1>4 DEF Write
<1>. QED
  BY <1>3, <1>4

LEMMA TypeStep == TypeInv /\ [Next]_vars => TypeInv'
<1> SUFFICES ASSUME TypeInv, [Next]_vars
             PROVE  TypeInv'
  OBVIOUS
<1> DEFINE Disk == DOMAIN disk = Files /\ \A f \in Files : IsFile(f, disk[f])
           Tmp == DOMAIN tmp = Files /\ \A f \in Files : IsTemporary(f, tmp[f])
           Proc == DOMAIN proc = Procs /\ \A p \in Procs : proc[p] = Idle \/ IsProcess(proc[p])
           Theirs == DOMAIN theirs = Files /\ \A f \in Files : theirs[f] \subseteq TheirItems(f)
           Half == half \in [Files -> Procs \cup {Nobody}]
           Rest == /\ registered \subseteq Repos /\ lost \subseteq Files /\ met \subseteq Files
                   /\ installs \in 0..MaxInstalls /\ edits \in 0..MaxEdits
<1>0. Disk /\ Tmp /\ Proc /\ Theirs /\ Half /\ Rest
  BY DEF TypeInv
<1>00. Disk' /\ Tmp' /\ Proc' /\ Theirs' /\ Half' /\ Rest' => TypeInv'
  BY DEF TypeInv
<1>1. ASSUME NEW f \in Files, Add(f) \/ Extend(f) \/ Join(f)
      PROVE  TypeInv'
  <2>1. EditsOf(f)
    BY <1>1, EditIs
  <2>2. Disk'
    BY <1>0, <2>1, EditedIs
  <2>3. Theirs'
    BY <1>0, <2>1 DEF EditsOf
  <2>4. /\ UNCHANGED <<tmp, half, proc, registered, lost, met, installs>>
        /\ edits < MaxEdits /\ edits' = edits + 1
    BY <1>1 DEF Add, Extend, Join, Edits
  <2>5. Tmp' /\ Proc' /\ Half' /\ Rest'
    BY <1>0, <2>4, BoundsAssumption
  <2>. QED
    BY <1>00, <2>2, <2>3, <2>5
<1>2. ASSUME NEW f \in Files, Garble(f)
      PROVE  TypeInv'
  <2>1. disk'[f] = [disk[f] EXCEPT !.state = "unreadable"]
    BY <1>0, <1>2 DEF Garble
  <2>2. IsFile(f, disk'[f])
    BY <1>0, <2>1 DEF IsFile, File
  <2>3. Disk'
    BY <1>0, <1>2, <2>2 DEF Garble
  <2>4. /\ UNCHANGED <<tmp, half, proc, registered, lost, met, installs, theirs>>
        /\ edits < MaxEdits /\ edits' = edits + 1
    BY <1>2 DEF Garble, Edits
  <2>5. Tmp' /\ Proc' /\ Half' /\ Rest' /\ Theirs'
    BY <1>0, <2>4, BoundsAssumption
  <2>. QED
    BY <1>00, <2>3, <2>5
<1>3. ASSUME NEW p \in Procs, NEW host \in Hosts, NEW repo \in Repos, Start(p, host, repo)
      PROVE  TypeInv'
  <2>1. Proc'
    BY <1>0, <1>3, StartIs DEF Others, Left
  <2>2. Disk' /\ Tmp' /\ Theirs' /\ Half' /\ Rest'
    BY <1>0, <1>3, BoundsAssumption DEF Start
  <2>. QED
    BY <1>00, <2>1, <2>2
<1>4. ASSUME NEW p \in Procs, ChooseKey(p)
      PROVE  TypeInv'
  <2>1. Proc'
    BY <1>0, <1>4, ChooseIs DEF Others
  <2>2. Disk' /\ Tmp' /\ Theirs' /\ Half' /\ Rest'
    BY <1>0, <1>4 DEF ChooseKey
  <2>. QED
    BY <1>00, <2>1, <2>2
<1>5. ASSUME NEW p \in Procs, Read(p)
      PROVE  TypeInv'
  <2>1. Proc' /\ lost' \subseteq Files
    BY <1>0, <1>5, ReadIs DEF Others, Left
  <2>2. Disk' /\ Tmp' /\ Theirs' /\ Half' /\ Rest'
    BY <1>0, <1>5, <2>1 DEF Read
  <2>. QED
    BY <1>00, <2>1, <2>2
<1>6. ASSUME NEW p \in Procs, Fail(p)
      PROVE  TypeInv'
  <2>1. Proc'
    BY <1>0, <1>6, FailIs DEF Others, Left
  <2>2. Disk' /\ Theirs' /\ Half' /\ Rest'
    BY <1>0, <1>6 DEF Fail
  <2>3. Tmp'
    BY <1>0, <1>6 DEF Fail, IsTemporary
  <2>. QED
    BY <1>00, <2>1, <2>2, <2>3
<1>7. ASSUME NEW p \in Procs, Truncate(p)
      PROVE  TypeInv'
  <2>1. IsProcess(proc[p]) /\ Now(p) \in Files /\ proc[p].at = "read"
    BY <1>7, AtIs DEF Truncate, Phases
  <2>2. Proc'
    BY <1>0, <1>7, <2>1, MoveIs DEF Truncate, Others, Moved, Phases
  <2>3. Disk'
    BY <1>0, <1>7, <2>1, FileIs DEF Truncate, TypeInv, IsFile
  <2>4. Tmp' /\ Theirs' /\ Half' /\ Rest'
    BY <1>0, <1>7, <2>1 DEF Truncate, Replaces
  <2>. QED
    BY <1>00, <2>2, <2>3, <2>4
<1>8. ASSUME NEW p \in Procs, Fill(p)
      PROVE  TypeInv'
  <2>1. IsProcess(proc[p]) /\ Now(p) \in Files /\ proc[p].at = "written"
    BY <1>8, AtIs DEF Fill, Phases
  <2>2. Proc'
    BY <1>0, <1>8, <2>1, OnwardIs DEF Fill, Others, Left
  <2>3. IsItems(Now(p), proc[p].next)
    BY <2>1 DEF IsProcess, Now
  <2>4. Disk'
    BY <1>0, <1>8, <2>1, <2>3, FileIs DEF Fill
  <2>5. Tmp' /\ Theirs' /\ Half' /\ Rest'
    BY <1>0, <1>8, <2>1 DEF Fill, Replaces
  <2>. QED
    BY <1>00, <2>2, <2>4, <2>5
<1>9. ASSUME NEW p \in Procs, Make(p)
      PROVE  TypeInv'
  <2>1. IsProcess(proc[p]) /\ Now(p) \in Files /\ proc[p].at = "read"
    BY <1>9, AtIs DEF Make, Phases
  <2>2. Proc'
    BY <1>0, <1>9, <2>1, MoveIs DEF Make, Others, Moved, Phases
  <2>3. IsTemporary(Now(p), [state |-> "torn", items |-> EmptyBag, by |-> p])
    BY SmallBags DEF IsTemporary, IsItems
  <2>4. Tmp'
    BY <1>0, <1>9, <2>1, <2>3 DEF Make
  <2>5. Disk' /\ Theirs' /\ Half' /\ Rest'
    BY <1>0, <1>9, <2>1 DEF Make
  <2>. QED
    BY <1>00, <2>2, <2>4, <2>5
<1>10. ASSUME NEW p \in Procs, Write(p)
       PROVE  TypeInv'
  <2>1. IsProcess(proc[p]) /\ Now(p) \in Files /\ proc[p].at = "made"
    BY <1>10, AtIs DEF Write, Phases
  <2>2. Proc'
    BY <1>0, <1>10, <2>1, MoveIs DEF Write, Others, Moved, Phases
  <2>3. IsItems(Now(p), proc[p].next)
    BY <2>1 DEF IsProcess, Now
  <2>4. Disk'
    BY <1>0, <1>10, <2>1, <2>3, FileIs DEF Write
  <2>5. Tmp'
    <3>1. IsTemporary(Now(p), [state |-> "whole", items |-> proc[p].next, by |-> p])
      BY <2>3 DEF IsTemporary
    <3>. QED
      BY <1>0, <1>10, <2>1, <3>1, WriteTmp
  <2>6. Theirs' /\ Half' /\ Rest'
    BY <1>0, <1>10, <2>1 DEF Write
  <2>. QED
    BY <1>00, <2>2, <2>4, <2>5, <2>6
<1>11. ASSUME NEW p \in Procs, Rename(p)
       PROVE  TypeInv'
  <2>1. IsProcess(proc[p]) /\ Now(p) \in Files /\ proc[p].at = "written"
    BY <1>11, AtIs DEF Rename, Phases
  <2> DEFINE f == Now(p)
  <2>2. Proc'
    BY <1>0, <1>11, <2>1, OnwardIs DEF Rename, Others, Left
  <2>3. /\ IsTemporary(f, tmp[f]) /\ tmp[f].state # "none"
        /\ disk' = [disk EXCEPT ![f] = File(tmp[f].state, tmp[f].items)]
        /\ half' = [half EXCEPT ![f] = IF tmp[f].state = "torn" THEN tmp[f].by ELSE Nobody]
        /\ tmp' = [tmp EXCEPT ![f] = Unmade]
    BY <1>0, <1>11, <2>1 DEF Rename
  <2>4. IsFile(f, File(tmp[f].state, tmp[f].items))
    BY <2>1, <2>3 DEF IsTemporary, IsFile, File
  <2>5. Disk' /\ Half'
    BY <1>0, <2>1, <2>3, <2>4 DEF IsTemporary
  <2>6. Tmp'
    BY <1>0, <2>1, <2>3, SmallBags DEF IsTemporary, Unmade, IsItems
  <2>7. Theirs' /\ Rest'
    BY <1>0, <1>11, <2>1 DEF Rename, Replaces, IsProcess
  <2>. QED
    BY <1>00, <2>2, <2>5, <2>6, <2>7
<1>12. CASE UNCHANGED vars
  BY <1>12 DEF vars, TypeInv
<1>. QED
  BY <1>1, <1>2, <1>3, <1>4, <1>5, <1>6, <1>7, <1>8, <1>9, <1>10, <1>11, <1>12 DEF Next

-----------------------------------------------------------------------------
(* The temporary files *)

\* Where a process stands after a step of its own or of another.
LEMMA Standing ==
  ASSUME NEW p \in Procs, NEW f, NEW phases
  PROVE  /\ proc'[p] = proc[p] => (On(p, f, phases)' <=> On(p, f, phases))
         /\ Left(p) /\ phases \subseteq Merged => ~ On(p, f, phases)'
         /\ \A at : Moved(p, at) => (On(p, f, phases)' <=> f = Now(p) /\ at \in phases)
<1>1. proc'[p] = proc[p] => (On(p, f, phases)' <=> On(p, f, phases))
  BY DEF On, Now
<1>2. Left(p) /\ phases \subseteq Merged => ~ On(p, f, phases)'
  BY DEF On, Left, Merged, Idle
<1>3. \A at : Moved(p, at) => (On(p, f, phases)' <=> f = Now(p) /\ at \in phases)
  BY DEF On, Moved, Now, IsProcess
<1>. QED
  BY <1>1, <1>2, <1>3

\* The steps of a process, and what they do to where it stands.
LEMMA Steps ==
  ASSUME TypeInv, NEW p \in Procs
  PROVE  /\ \A host \in Hosts, repo \in Repos : Start(p, host, repo) =>
              proc[p].at = "idle" /\ Others(p) /\ Left(p)
         /\ ChooseKey(p) => proc[p].at = "next" /\ Others(p) /\ proc'[p].at = "next"
         /\ Read(p) => proc[p].at = "next" /\ Others(p)
         /\ Fail(p) => Others(p) /\ Left(p)
         /\ Truncate(p) => /\ On(p, Now(p), {"read"}) /\ Now(p) \in Files
                           /\ Others(p) /\ Moved(p, "written")
         /\ Fill(p) => On(p, Now(p), {"written"}) /\ Now(p) \in Files /\ Others(p) /\ Left(p)
         /\ Make(p) => /\ On(p, Now(p), {"read"}) /\ Now(p) \in Files
                       /\ Others(p) /\ Moved(p, "made")
         /\ Write(p) => /\ On(p, Now(p), {"made"}) /\ Now(p) \in Files
                        /\ Others(p) /\ Moved(p, "written")
         /\ Rename(p) => On(p, Now(p), {"written"}) /\ Now(p) \in Files /\ Others(p) /\ Left(p)
<1>1. \A host \in Hosts, repo \in Repos : Start(p, host, repo) =>
        proc[p].at = "idle" /\ Others(p) /\ Left(p)
  <2> TAKE host \in Hosts, repo \in Repos
  <2> HAVE Start(p, host, repo)
  <2>1. proc[p] = Idle
    BY DEF Start
  <2>2. Others(p) /\ Left(p)
    BY StartIs
  <2>. QED
    BY <2>1, <2>2 DEF Idle
<1>2. ChooseKey(p) => proc[p].at = "next" /\ Others(p) /\ proc'[p].at = "next"
  BY ChooseIs DEF ChooseKey, At
<1>3. Read(p) => proc[p].at = "next" /\ Others(p)
  BY ReadIs DEF Read, At
<1>4. Fail(p) => Others(p) /\ Left(p)
  BY FailIs
<1>5. ASSUME Truncate(p)
      PROVE  /\ On(p, Now(p), {"read"}) /\ Now(p) \in Files
             /\ Others(p) /\ Moved(p, "written")
  <2>1. IsProcess(proc[p]) /\ Now(p) \in Files /\ proc[p].at = "read"
    BY <1>5, AtIs DEF Truncate, Phases
  <2>2. Others(p) /\ Moved(p, "written")
    BY <1>5, <2>1, MoveIs DEF Truncate, Phases
  <2>. QED
    BY <2>1, <2>2 DEF On, IsProcess
<1>6. ASSUME Fill(p)
      PROVE  On(p, Now(p), {"written"}) /\ Now(p) \in Files /\ Others(p) /\ Left(p)
  <2>1. IsProcess(proc[p]) /\ Now(p) \in Files /\ proc[p].at = "written"
    BY <1>6, AtIs DEF Fill, Phases
  <2>2. Others(p) /\ Left(p)
    BY <1>6, <2>1, OnwardIs DEF Fill
  <2>. QED
    BY <2>1, <2>2 DEF On, IsProcess
<1>7. ASSUME Make(p)
      PROVE  /\ On(p, Now(p), {"read"}) /\ Now(p) \in Files
             /\ Others(p) /\ Moved(p, "made")
  <2>1. IsProcess(proc[p]) /\ Now(p) \in Files /\ proc[p].at = "read"
    BY <1>7, AtIs DEF Make, Phases
  <2>2. Others(p) /\ Moved(p, "made")
    BY <1>7, <2>1, MoveIs DEF Make, Phases
  <2>. QED
    BY <2>1, <2>2 DEF On, IsProcess
<1>8. ASSUME Write(p)
      PROVE  /\ On(p, Now(p), {"made"}) /\ Now(p) \in Files
             /\ Others(p) /\ Moved(p, "written")
  <2>1. IsProcess(proc[p]) /\ Now(p) \in Files /\ proc[p].at = "made"
    BY <1>8, AtIs DEF Write, Phases
  <2>2. Others(p) /\ Moved(p, "written")
    BY <1>8, <2>1, MoveIs DEF Write, Phases
  <2>. QED
    BY <2>1, <2>2 DEF On, IsProcess
<1>9. ASSUME Rename(p)
      PROVE  On(p, Now(p), {"written"}) /\ Now(p) \in Files /\ Others(p) /\ Left(p)
  <2>1. IsProcess(proc[p]) /\ Now(p) \in Files /\ proc[p].at = "written"
    BY <1>9, AtIs DEF Rename, Phases
  <2>2. Others(p) /\ Left(p)
    BY <1>9, <2>1, OnwardIs DEF Rename
  <2>. QED
    BY <2>1, <2>2 DEF On, IsProcess
<1>. QED
  BY <1>1, <1>2, <1>3, <1>4, <1>5, <1>6, <1>7, <1>8, <1>9

\* A step is the developer's, or one of a process.
Developer == \E f \in Files : Add(f) \/ Extend(f) \/ Join(f) \/ Garble(f)

LEMMA OwnerStep == TypeInv /\ Owner /\ [Next]_vars => Owner'
<1> SUFFICES ASSUME TypeInv, Owner, [Next]_vars,
                    NEW f \in Files, NEW q \in Procs, tmp'[f].by = q
             PROVE  /\ f \notin InPlace /\ On(q, f, {"made", "written"})'
                    /\ proc'[q].at = "made" => tmp'[f].state = "torn"
                    /\ proc'[q].at = "written" => /\ tmp'[f].state = "whole"
                                                  /\ tmp'[f].items = proc'[q].next
  BY DEF Owner
<1>1. ASSUME tmp'[f] = tmp[f], proc'[q] = proc[q]
      PROVE  /\ f \notin InPlace /\ On(q, f, {"made", "written"})'
             /\ proc'[q].at = "made" => tmp'[f].state = "torn"
             /\ proc'[q].at = "written" => tmp'[f].state = "whole" /\ tmp'[f].items = proc'[q].next
  BY <1>1, Standing DEF Owner
<1>2. \A g \in Files : \A p \in Procs : tmp[g].by = p =>
        /\ g \notin InPlace /\ g = Now(p) /\ proc[p].at \in {"made", "written"}
  BY DEF Owner, On
<1>3. CASE Developer \/ UNCHANGED vars
  <2>1. UNCHANGED <<tmp, proc>>
    BY <1>3 DEF Developer, Add, Extend, Join, Garble, Edits, vars
  <2>. QED
    BY <1>1, <2>1
<1>4. ASSUME NEW p \in Procs,
             \/ \E host \in Hosts, repo \in Repos : Start(p, host, repo)
             \/ ChooseKey(p) \/ Read(p) \/ Truncate(p) \/ Fill(p)
      PROVE  /\ f \notin InPlace /\ On(q, f, {"made", "written"})'
             /\ proc'[q].at = "made" => tmp'[f].state = "torn"
             /\ proc'[q].at = "written" => tmp'[f].state = "whole" /\ tmp'[f].items = proc'[q].next
  <2>1. tmp' = tmp
    BY <1>4 DEF Start, ChooseKey, Read, Truncate, Fill
  <2>2. Others(p) /\ (proc[p].at \notin {"made", "written"} \/ Now(p) \in InPlace)
    BY <1>4, Steps DEF On, Fill
  <2>3. p # q
    BY <1>2, <2>1, <2>2
  <2>. QED
    BY <1>1, <2>1, <2>2, <2>3 DEF Others
<1>5. ASSUME NEW p \in Procs, Fail(p)
      PROVE  /\ f \notin InPlace /\ On(q, f, {"made", "written"})'
             /\ proc'[q].at = "made" => tmp'[f].state = "torn"
             /\ proc'[q].at = "written" => tmp'[f].state = "whole" /\ tmp'[f].items = proc'[q].next
  <2>1. tmp'[f] = IF tmp[f].by = p THEN [tmp[f] EXCEPT !.by = Nobody] ELSE tmp[f]
    BY <1>5 DEF Fail
  <2>2. tmp[f].by # p
    BY <2>1, NobodyAssumption DEF TypeInv, IsTemporary
  <2>3. p # q
    BY <2>1, <2>2
  <2>. QED
    BY <1>1, <1>5, <2>1, <2>2, <2>3, Steps DEF Others
<1>6. ASSUME NEW p \in Procs, Make(p)
      PROVE  /\ f \notin InPlace /\ On(q, f, {"made", "written"})'
             /\ proc'[q].at = "made" => tmp'[f].state = "torn"
             /\ proc'[q].at = "written" => tmp'[f].state = "whole" /\ tmp'[f].items = proc'[q].next
  <2>1. /\ tmp' = [tmp EXCEPT ![Now(p)] = [state |-> "torn", items |-> EmptyBag, by |-> p]]
        /\ Now(p) \notin InPlace
    BY <1>6 DEF Make
  <2>2. On(p, Now(p), {"read"}) /\ Others(p) /\ Moved(p, "made")
    BY <1>6, Steps
  <2>3. CASE f = Now(p)
    <3>1. p = q /\ tmp'[f].state = "torn"
      BY <2>1, <2>3 DEF TypeInv
    <3>. QED
      BY <2>1, <2>2, <2>3, <3>1, Standing DEF Moved
  <2>4. CASE f # Now(p)
    <3>1. tmp'[f] = tmp[f] /\ q # p
      BY <1>2, <2>1, <2>2, <2>4 DEF On
    <3>. QED
      BY <1>1, <2>2, <3>1 DEF Others
  <2>. QED
    BY <2>3, <2>4
<1>7. ASSUME NEW p \in Procs, Write(p)
      PROVE  /\ f \notin InPlace /\ On(q, f, {"made", "written"})'
             /\ proc'[q].at = "made" => tmp'[f].state = "torn"
             /\ proc'[q].at = "written" => tmp'[f].state = "whole" /\ tmp'[f].items = proc'[q].next
  <2>1. On(p, Now(p), {"made"}) /\ Others(p) /\ Moved(p, "written")
    BY <1>7, Steps
  <2>2. CASE tmp[f].by = p
    <3>1. f = Now(p) /\ f \notin InPlace
      BY <1>2, <2>2
    <3>2. tmp'[f] = [state |-> "whole", items |-> proc[p].next, by |-> p]
      BY <1>7, <2>2, <3>1, WriteTmp
    <3>. QED
      BY <2>1, <3>1, <3>2, Standing DEF Moved
  <2>3. CASE tmp[f].by # p
    <3>1. tmp'[f] = tmp[f]
      BY <1>7, <2>3, WriteTmp
    <3>. QED
      BY <1>1, <2>1, <2>3, <3>1 DEF Others
  <2>. QED
    BY <2>2, <2>3
<1>8. ASSUME NEW p \in Procs, Rename(p)
      PROVE  /\ f \notin InPlace /\ On(q, f, {"made", "written"})'
             /\ proc'[q].at = "made" => tmp'[f].state = "torn"
             /\ proc'[q].at = "written" => tmp'[f].state = "whole" /\ tmp'[f].items = proc'[q].next
  <2>1. Others(p) /\ Now(p) \in Files /\ tmp' = [tmp EXCEPT ![Now(p)] = Unmade]
    BY <1>8, Steps DEF Rename
  <2>2. f # Now(p)
    BY <2>1, NobodyAssumption DEF TypeInv, Unmade
  <2>3. tmp'[f] = tmp[f]
    BY <2>1, <2>2
  <2>4. q # p
    BY <1>2, <2>2, <2>3
  <2>. QED
    BY <1>1, <2>1, <2>3, <2>4 DEF Others
<1>. QED
  BY <1>3, <1>4, <1>5, <1>6, <1>7, <1>8 DEF Next, Developer

\* What is lost stays lost, and who met have met.
LEMMA LostGrows == TypeInv /\ [Next]_vars => lost \subseteq lost' /\ met \subseteq met'
<1> SUFFICES ASSUME TypeInv, [Next]_vars
             PROVE  lost \subseteq lost' /\ met \subseteq met'
  OBVIOUS
<1>1. CASE Developer \/ UNCHANGED vars
  BY <1>1 DEF Developer, Add, Extend, Join, Garble, Edits, vars
<1>2. ASSUME NEW p \in Procs,
             \/ \E host \in Hosts, repo \in Repos : Start(p, host, repo)
             \/ ChooseKey(p) \/ Make(p) \/ Write(p) \/ Fail(p)
      PROVE  lost \subseteq lost' /\ met \subseteq met'
  BY <1>2 DEF Start, ChooseKey, Make, Write, Fail
<1>3. ASSUME NEW p \in Procs, Read(p) \/ Truncate(p) \/ Fill(p) \/ Rename(p)
      PROVE  lost \subseteq lost' /\ met \subseteq met'
  <2>1. met' = met
    BY <1>3 DEF Read, Truncate, Fill, Rename
  <2>2. lost \subseteq lost'
    BY <1>3, ReadIs DEF Truncate, Fill, Rename, Replaces
  <2>. QED
    BY <2>1, <2>2
<1>. QED
  BY <1>1, <1>2, <1>3 DEF Next, Developer

LEMMA AloneStep == TypeInv /\ Owner /\ Alone /\ [Next]_vars => Alone'
<1> SUFFICES ASSUME TypeInv, Owner, Alone, [Next]_vars,
                    NEW f \in Files, f \notin InPlace, f \notin met',
                    NEW q \in Procs, On(q, f, {"made", "written"})'
             PROVE  tmp'[f].by = q
  BY DEF Alone
<1>1. f \notin met
  BY LostGrows
<1>2. On(q, f, {"made", "written"}) => tmp[f].by = q
  BY <1>1 DEF Alone
<1>3. q # Nobody
  BY NobodyAssumption
<1>4. CASE Developer \/ UNCHANGED vars
  <2>1. UNCHANGED <<tmp, proc>>
    BY <1>4 DEF Developer, Add, Extend, Join, Garble, Edits, vars
  <2>. QED
    BY <1>2, <2>1, Standing
<1>5. ASSUME NEW p \in Procs,
             \/ \E host \in Hosts, repo \in Repos : Start(p, host, repo)
             \/ ChooseKey(p) \/ Read(p) \/ Truncate(p) \/ Fill(p)
      PROVE  tmp'[f].by = q
  <2>1. tmp' = tmp
    BY <1>5 DEF Start, ChooseKey, Read, Truncate, Fill
  <2>2. Others(p)
    BY <1>5, Steps
  <2>3. ~ On(p, f, {"made", "written"})'
    <3>1. CASE Left(p) \/ proc'[p].at = "next" \/ proc'[p].at = "read"
      BY <3>1, Standing DEF On, Merged
    <3>2. CASE Truncate(p)
      BY <3>2, Steps, Standing DEF Truncate
    <3>. QED
      BY <1>5, <3>1, <3>2, Steps, ReadIs
  <2>. QED
    BY <1>2, <2>1, <2>2, <2>3, Standing DEF Others
<1>6. ASSUME NEW p \in Procs, Fail(p)
      PROVE  tmp'[f].by = q
  <2>1. q # p
    BY <1>6, Steps, Standing DEF Merged
  <2>2. tmp[f].by = q
    BY <1>2, <1>6, <2>1, Steps, Standing DEF Others
  <2>. QED
    BY <1>6, <2>1, <2>2 DEF Fail
<1>7. ASSUME NEW p \in Procs, Make(p)
      PROVE  tmp'[f].by = q
  <2>1. /\ tmp' = [tmp EXCEPT ![Now(p)] = [state |-> "torn", items |-> EmptyBag, by |-> p]]
        /\ met' = IF tmp[Now(p)].by = Nobody THEN met ELSE met \cup {Now(p)}
    BY <1>7 DEF Make
  <2>2. Others(p) /\ Moved(p, "made")
    BY <1>7, Steps
  <2>3. CASE q = p
    BY <2>1, <2>2, <2>3, Standing DEF TypeInv
  <2>4. CASE q # p
    <3>1. tmp[f].by = q
      BY <1>2, <2>2, <2>4, Standing DEF Others
    <3>2. f # Now(p)
      BY <1>3, <2>1, <3>1
    <3>. QED
      BY <2>1, <3>1, <3>2
  <2>. QED
    BY <2>3, <2>4
<1>8. ASSUME NEW p \in Procs, Write(p)
      PROVE  tmp'[f].by = q
  <2>1. On(p, Now(p), {"made"}) /\ Others(p) /\ Moved(p, "written")
    BY <1>8, Steps
  <2>2. tmp[f].by = q
    <3>1. CASE q = p
      <4>1. f = Now(p)
        BY <2>1, <3>1, Standing
      <4>. QED
        BY <1>2, <2>1, <3>1, <4>1 DEF On
    <3>2. CASE q # p
      BY <1>2, <2>1, <3>2, Standing DEF Others
    <3>. QED
      BY <3>1, <3>2
  <2>3. CASE q = p /\ f = Now(p)
    <3>1. tmp'[f] = [state |-> "whole", items |-> proc[p].next, by |-> p]
      BY <1>8, <2>2, <2>3, WriteTmp
    <3>. QED
      BY <2>3, <3>1
  <2>4. CASE ~ (q = p /\ f = Now(p))
    <3>1. tmp'[f] = tmp[f]
      BY <1>8, <2>2, <2>4, WriteTmp
    <3>. QED
      BY <2>2, <3>1
  <2>. QED
    BY <2>3, <2>4
<1>9. ASSUME NEW p \in Procs, Rename(p)
      PROVE  tmp'[f].by = q
  <2>1. /\ Others(p) /\ Left(p) /\ On(p, Now(p), {"written"})
        /\ tmp' = [tmp EXCEPT ![Now(p)] = Unmade]
    BY <1>9, Steps DEF Rename
  <2>2. q # p
    BY <2>1, Standing DEF Merged
  <2>3. tmp[f].by = q
    BY <1>2, <2>1, <2>2, Standing DEF Others
  <2>4. f # Now(p)
    BY <1>1, <2>1, <2>2, <2>3 DEF Alone, On
  <2>. QED
    BY <2>1, <2>3, <2>4
<1>. QED
  BY <1>4, <1>5, <1>6, <1>7, <1>8, <1>9 DEF Next, Developer

\* What a rename puts into the file's place is the process's own and whole, or
\* another's.
LEMMA RenameIs ==
  ASSUME TypeInv, Owner, NEW p \in Procs, Rename(p)
  PROVE  LET f == Now(p)
         IN /\ f \in Files /\ f \notin InPlace
            /\ DOMAIN disk' = Files /\ \A g \in Files \ {f} : disk'[g] = disk[g]
            /\ disk'[f] = File(tmp[f].state, tmp[f].items)
            /\ \/ /\ tmp[f].by = p /\ disk'[f] = File("whole", proc[p].next)
               \/ tmp[f].by # p /\ f \in lost'
            /\ lost' = IF tmp[f].by = p /\ disk[f] = proc[p].read THEN lost ELSE lost \cup {f}
            /\ registered' = IF f = "global_mcp" THEN registered \cup {proc[p].repo} ELSE registered
<1>1. On(p, Now(p), {"written"}) /\ Now(p) \in Files
  BY Steps
<1>2. CASE tmp[Now(p)].by = p
  <2>1. tmp[Now(p)].state = "whole" /\ tmp[Now(p)].items = proc[p].next
    BY <1>1, <1>2 DEF Owner, On
  <2>. QED
    BY <1>1, <1>2, <2>1 DEF Rename, Replaces, TypeInv
<1>3. CASE tmp[Now(p)].by # p
  BY <1>1, <1>3 DEF Rename, Replaces, TypeInv
<1>. QED
  BY <1>2, <1>3

\* A configuration is never left half written.
LEMMA NeverHalfStep == TypeInv /\ Owner /\ Alone /\ NeverHalf /\ [Next]_vars => NeverHalf'
<1> SUFFICES ASSUME TypeInv, Owner, Alone, NeverHalf, [Next]_vars,
                    NEW f \in Files, f \notin InPlace, f \notin met', disk'[f].state = "torn"
             PROVE  FALSE
  BY DEF NeverHalf
<1>1. f \notin met
  BY LostGrows
<1>2. disk'[f] # disk[f]
  BY <1>1 DEF NeverHalf
<1>3. CASE Developer \/ UNCHANGED vars
  <2>1. ASSUME NEW g \in Files, Add(g) \/ Extend(g) \/ Join(g)
        PROVE  FALSE
    BY <1>2, <2>1, EditIs, EditedIs
  <2>2. ASSUME NEW g \in Files, Garble(g)
        PROVE  FALSE
    <3>1. disk' = [disk EXCEPT ![g].state = "unreadable"] /\ DOMAIN disk = Files
      BY <2>2 DEF Garble, TypeInv
    <3>2. disk[g] = File(disk[g].state, disk[g].items)
      BY <2>2 DEF TypeInv, IsFile
    <3>3. disk'[g].state = "unreadable"
      BY <3>1, <3>2 DEF File
    <3>. QED
      BY <1>2, <3>1, <3>3
  <2>3. ~ UNCHANGED vars
    BY <1>2 DEF vars
  <2>. QED
    BY <1>3, <2>1, <2>2, <2>3 DEF Developer
<1>4. ASSUME NEW p \in Procs,
             \/ \E host \in Hosts, repo \in Repos : Start(p, host, repo)
             \/ ChooseKey(p) \/ Read(p) \/ Make(p) \/ Fail(p)
      PROVE  FALSE
  BY <1>2, <1>4 DEF Start, ChooseKey, Read, Make, Fail
<1>5. ASSUME NEW p \in Procs, Truncate(p) \/ Fill(p)
      PROVE  FALSE
  <2>1. f # Now(p)
    BY <1>5 DEF Truncate, Fill
  <2>. QED
    BY <1>2, <1>5, <2>1 DEF Truncate, Fill, TypeInv
<1>6. ASSUME NEW p \in Procs, Write(p)
      PROVE  FALSE
  BY <1>2, <1>6 DEF Write, File, TypeInv
<1>7. ASSUME NEW p \in Procs, Rename(p)
      PROVE  FALSE
  <2>1. f = Now(p) /\ On(p, f, {"written"})
    BY <1>2, <1>7, RenameIs, Steps
  <2>2. tmp[f].by = p
    BY <1>1, <2>1 DEF Alone, On
  <2>3. disk'[f] = File("whole", proc[p].next)
    BY <1>7, <2>1, <2>2, RenameIs
  <2>. QED
    BY <2>3 DEF File
<1>. QED
  BY <1>3, <1>4, <1>5, <1>6, <1>7 DEF Next, Developer

LEMMA HalfLostStep == TypeInv /\ Owner /\ HalfLost /\ [Next]_vars => HalfLost'
<1> SUFFICES ASSUME TypeInv, Owner, HalfLost, [Next]_vars,
                    NEW f \in Files, half'[f] # Nobody
             PROVE  f \in lost' /\ f \notin InPlace
  BY DEF HalfLost
<1>1. half[f] # Nobody => f \in lost' /\ f \notin InPlace
  BY LostGrows DEF HalfLost
<1>2. CASE Developer \/ UNCHANGED vars
  BY <1>1, <1>2 DEF Developer, Add, Extend, Join, Garble, Edits, vars
<1>3. ASSUME NEW p \in Procs,
             \/ \E host \in Hosts, repo \in Repos : Start(p, host, repo)
             \/ ChooseKey(p) \/ Read(p) \/ Truncate(p) \/ Fill(p) \/ Make(p)
      PROVE  f \in lost' /\ f \notin InPlace
  BY <1>1, <1>3 DEF Start, ChooseKey, Read, Truncate, Fill, Make
<1>4. ASSUME NEW p \in Procs, Fail(p) \/ Write(p)
      PROVE  f \in lost' /\ f \notin InPlace
  BY <1>1, <1>4 DEF Fail, Write, TypeInv
<1>5. ASSUME NEW p \in Procs, Rename(p)
      PROVE  f \in lost' /\ f \notin InPlace
  <2>1. half' = [half EXCEPT ![Now(p)] = IF tmp[Now(p)].state = "torn" THEN tmp[Now(p)].by ELSE Nobody]
    BY <1>5 DEF Rename
  <2>2. CASE f # Now(p)
    BY <1>1, <2>1, <2>2
  <2>3. CASE f = Now(p)
    <3>1. tmp[f].state = "torn"
      BY <2>1, <2>3 DEF TypeInv
    <3>2. disk'[f] = File("torn", tmp[f].items) /\ f \notin InPlace
      BY <1>5, <2>3, <3>1, RenameIs
    <3>3. disk'[f] # File("whole", proc[p].next)
      BY <3>2 DEF File
    <3>. QED
      BY <1>5, <2>3, <3>2, <3>3, RenameIs
  <2>. QED
    BY <2>2, <2>3
<1>. QED
  BY <1>2, <1>3, <1>4, <1>5 DEF Next, Developer

-----------------------------------------------------------------------------
(* One of ours *)

\* A process that has merged a file has what it had, or has just read it.
LEMMA WorkIs ==
  ASSUME TypeInv, [Next]_vars, NEW f \in Files, NEW q \in Procs, On(q, f, Merged)'
  PROVE  \/ /\ On(q, f, Merged) /\ (proc'[q].at = "read" => proc[q].at = "read")
            /\ proc'[q].next = proc[q].next /\ proc'[q].read = proc[q].read
            /\ proc'[q].repo = proc[q].repo
         \/ /\ Read(q) /\ f = Now(q) /\ ~ Left(q) /\ proc'[q].at = "read"
            /\ OneIn(f, disk[f].items) => OneIn(f, proc'[q].next)
<1> DEFINE Same == /\ On(q, f, Merged) /\ (proc'[q].at = "read" => proc[q].at = "read")
                   /\ proc'[q].next = proc[q].next /\ proc'[q].read = proc[q].read
                   /\ proc'[q].repo = proc[q].repo
<1>1. proc'[q] = proc[q] => Same
  BY Standing
<1>2. CASE Developer \/ UNCHANGED vars
  <2>1. UNCHANGED proc
    BY <1>2 DEF Developer, Add, Extend, Join, Garble, Edits, vars
  <2>. QED
    BY <1>1, <2>1
<1>3. ASSUME NEW p \in Procs,
             \/ \E host \in Hosts, repo \in Repos : Start(p, host, repo)
             \/ ChooseKey(p) \/ Fill(p) \/ Rename(p) \/ Fail(p)
      PROVE  Same
  <2>1. Others(p) /\ (Left(p) \/ proc'[p].at = "next")
    BY <1>3, Steps
  <2>2. p # q
    BY <2>1, Standing DEF On, Merged
  <2>. QED
    BY <1>1, <2>1, <2>2 DEF Others
<1>4. ASSUME NEW p \in Procs, Truncate(p) \/ Make(p) \/ Write(p)
      PROVE  Same
  <2>1. /\ Others(p) /\ (Moved(p, "made") \/ Moved(p, "written"))
        /\ On(p, Now(p), Merged)
    BY <1>4, Steps DEF On, Merged
  <2>2. CASE p = q
    BY <2>1, <2>2, Standing DEF Moved
  <2>3. CASE p # q
    BY <1>1, <2>1, <2>3 DEF Others
  <2>. QED
    BY <2>2, <2>3
<1>5. ASSUME NEW p \in Procs, Read(p)
      PROVE  \/ Same
             \/ /\ Read(q) /\ f = Now(q) /\ ~ Left(q) /\ proc'[q].at = "read"
                /\ OneIn(f, disk[f].items) => OneIn(f, proc'[q].next)
  <2>1. CASE p = q
    <3>1. ~ Left(p)
      BY <2>1, Standing
    <3>2. /\ Now(p)' = Now(p) /\ proc'[p].at = "read"
          /\ OneIn(Now(p), disk[Now(p)].items) => OneIn(Now(p), proc'[p].next)
      BY <1>5, <3>1, ReadIs
    <3>3. f = Now(p)
      BY <2>1, <3>2 DEF On
    <3>. QED
      BY <1>5, <2>1, <3>1, <3>2, <3>3
  <2>2. CASE p # q
    BY <1>1, <1>5, <2>2, Steps DEF Others
  <2>. QED
    BY <2>1, <2>2
<1>. QED
  BY <1>2, <1>3, <1>4, <1>5 DEF Next, Developer

\* What the developer writes does not make a second one of ours.
LEMMA OneEdited ==
  ASSUME TypeInv, NEW f \in Files, EditsOf(f), OneIn(f, disk[f].items)
  PROVE  OneIn(f, disk'[f].items)
<1> DEFINE items == disk[f].items
           Ours(item) == CASE f \in HookFiles -> IsOurs(item)
                           [] f \in Servers -> item.key = Product
                           [] OTHER -> item = Line("ours")
<1>1. IsABag(items) /\ DOMAIN items \subseteq ItemsOf(f)
  BY DEF TypeInv, IsFile, IsItems
<1>2. \A bag : OneIn(f, bag) <=> \A x, y \in DOMAIN bag : Ours(x) /\ Ours(y) => x = y /\ bag[x] = 1
  BY DEF OneIn, OursIn
<1>3. PICK new \in TheirItems(f) :
        \/ /\ new \in Things(f)
           /\ disk' = [disk EXCEPT ![f] = File("whole", BagAdd(disk[f].items, new))]
        \/ \E old \in DOMAIN disk[f].items \ (TheirItems(f) \ Mixed) :
             /\ disk[f].state = "whole"
             /\ f \in HookFiles \cup Servers
             /\ f \in HookFiles => IsOurs(old) /\ IsOurs(new) /\ new \in Mixed
             /\ f \in Servers => old.key = new.key /\ old.repo = new.repo /\ ~ old.more
             /\ disk' = [disk EXCEPT ![f].items = BagAdd(BagRemove(disk[f].items, old), new)]
  BY DEF EditsOf
<1>4. CASE /\ new \in Things(f)
           /\ disk' = [disk EXCEPT ![f] = File("whole", BagAdd(disk[f].items, new))]
  <2>1. disk'[f].items = BagAdd(items, new)
    BY <1>4 DEF TypeInv, File
  <2>2. ~ Ours(new)
    <3>1. CASE f \in HookFiles
      <4>1. new \in {Entry("hooks", {"theirs"}), Entry("hooks", {"mention"}), Entry("top", {"theirs"})}
        BY <1>4, <3>1, Sorts DEF Things
      <4>2. ~ IsOurs(new)
        BY <4>1 DEF Entry, IsOurs
      <4>. QED
        BY <3>1, <4>2, Sorts
    <3>2. CASE f \in Servers
      <4>1. new = Server(Named, Nobody, TRUE) /\ f \notin HookFiles
        BY <1>4, <3>2, Sorts DEF Things
      <4>. QED
        BY <3>2, <4>1, KeysApart DEF Server
    <3>3. CASE f \notin HookFiles \cup Servers
      BY <3>3, Sorts DEF Line
    <3>. QED
      BY <3>1, <3>2, <3>3
  <2> HIDE DEF items, Ours
  <2>3. /\ DOMAIN BagAdd(items, new) = DOMAIN items \cup {new}
        /\ \A e \in DOMAIN items \ {new} : BagAdd(items, new)[e] = items[e]
    BY <1>1, AddIs
  <2>4. OneIn(f, BagAdd(items, new))
    <3>1. \A x, y \in DOMAIN items : Ours(x) /\ Ours(y) => x = y /\ items[x] = 1
      BY <1>2 DEF items
    <3>. QED
      BY <1>2, <2>2, <2>3, <3>1
  <2>. QED
    BY <2>1, <2>4
<1>5. ASSUME NEW old \in DOMAIN disk[f].items,
             f \in HookFiles \cup Servers,
             f \in HookFiles => IsOurs(old) /\ IsOurs(new),
             f \in Servers => old.key = new.key,
             disk' = [disk EXCEPT ![f].items = BagAdd(BagRemove(disk[f].items, old), new)]
      PROVE  OneIn(f, disk'[f].items)
  <2> DEFINE rest == BagRemove(items, old)
  <2>1. disk'[f].items = BagAdd(rest, new)
    BY <1>5 DEF TypeInv, IsFile, File
  <2>2. Ours(old) <=> Ours(new)
    BY <1>5, Sorts
  <2> HIDE DEF Ours
  <2>3. /\ IsABag(rest) /\ DOMAIN rest \subseteq DOMAIN items
        /\ items[old] = 1 => old \notin DOMAIN rest
        /\ \A e \in DOMAIN items \ {old} : e \in DOMAIN rest /\ rest[e] = items[e]
    BY <1>1, RemoveIs
  <2> HIDE DEF rest
  <2>4. /\ DOMAIN BagAdd(rest, new) = DOMAIN rest \cup {new}
        /\ BagAdd(rest, new)[new] = IF new \in DOMAIN rest THEN rest[new] + 1 ELSE 1
        /\ \A e \in DOMAIN rest \ {new} : BagAdd(rest, new)[e] = rest[e]
    BY <2>3, AddIs
  <2>5. \A x, y \in DOMAIN items : Ours(x) /\ Ours(y) => x = y /\ items[x] = 1
    BY <1>2 DEF items
  <2> HIDE DEF items
  <2>6. old \in DOMAIN items
    BY <1>5 DEF items
  <2>7. CASE Ours(old)
    <3>1. \A e \in DOMAIN rest : ~ Ours(e)
      BY <2>3, <2>5, <2>6, <2>7
    <3>. QED
      BY <1>2, <2>1, <2>2, <2>4, <2>7, <3>1
  <2>8. CASE ~ Ours(old)
    BY <1>2, <2>1, <2>2, <2>3, <2>4, <2>5, <2>8
  <2>. QED
    BY <2>7, <2>8
<1>. QED
  BY <1>3, <1>4, <1>5

LEMMA OneStep == TypeInv /\ OneEverywhere /\ [Next]_vars => OneEverywhere'
<1> SUFFICES ASSUME TypeInv, OneEverywhere, [Next]_vars, NEW f \in Files
             PROVE  /\ OneIn(f, disk'[f].items) /\ OneIn(f, tmp'[f].items)
                    /\ \A q \in Procs : On(q, f, Merged)' => OneIn(f, proc'[q].next)
  BY DEF OneEverywhere, OneIn, OursIn
<1>1. OneIn(f, EmptyBag)
  BY SmallBags DEF OneIn, OursIn
<1>2. OneIn(f, disk[f].items) /\ OneIn(f, tmp[f].items)
  BY DEF OneEverywhere
<1>3. \A q \in Procs : On(q, f, Merged) => OneIn(f, proc[q].next)
  BY DEF OneEverywhere
<1>4. ASSUME NEW q \in Procs, On(q, f, Merged)'
      PROVE  OneIn(f, proc'[q].next)
  <2>1. \/ On(q, f, Merged) /\ proc'[q].next = proc[q].next
        \/ OneIn(f, disk[f].items) => OneIn(f, proc'[q].next)
    BY <1>4, WorkIs
  <2>. QED
    BY <1>2, <1>3, <2>1
<1>5. CASE Developer \/ UNCHANGED vars
  <2>1. tmp' = tmp
    BY <1>5 DEF Developer, Add, Extend, Join, Garble, Edits, vars
  <2>2. ASSUME NEW g \in Files, Add(g) \/ Extend(g) \/ Join(g)
        PROVE  OneIn(f, disk'[f].items)
    BY <1>2, <2>2, EditIs, EditedIs, OneEdited
  <2>3. ASSUME NEW g \in Files, Garble(g)
        PROVE  OneIn(f, disk'[f].items)
    <3>1. disk' = [disk EXCEPT ![g].state = "unreadable"] /\ DOMAIN disk = Files
      BY <2>3 DEF Garble, TypeInv
    <3>2. disk[g] = File(disk[g].state, disk[g].items)
      BY <2>3 DEF TypeInv, IsFile
    <3>3. disk'[f].items = disk[f].items
      BY <3>1, <3>2 DEF File
    <3>. QED
      BY <1>2, <3>3
  <2>. QED
    BY <1>2, <1>4, <1>5, <2>1, <2>2, <2>3 DEF Developer, vars
<1>6. ASSUME NEW p \in Procs,
             \/ \E host \in Hosts, repo \in Repos : Start(p, host, repo)
             \/ ChooseKey(p) \/ Read(p)
      PROVE  OneIn(f, disk'[f].items) /\ OneIn(f, tmp'[f].items)
  BY <1>2, <1>6 DEF Start, ChooseKey, Read
<1>7. ASSUME NEW p \in Procs, Fail(p) \/ Make(p)
      PROVE  OneIn(f, disk'[f].items) /\ OneIn(f, tmp'[f].items)
  <2>1. disk' = disk /\ tmp'[f].items \in {tmp[f].items, EmptyBag}
    BY <1>7 DEF Fail, Make, TypeInv, IsTemporary
  <2>. QED
    BY <1>1, <1>2, <2>1
<1>8. ASSUME NEW p \in Procs, Truncate(p) \/ Fill(p)
      PROVE  OneIn(f, disk'[f].items) /\ OneIn(f, tmp'[f].items)
  <2>1. On(p, Now(p), Merged) /\ tmp' = tmp
    BY <1>8, Steps DEF Truncate, Fill, On, Merged
  <2>2. f # Now(p) => disk'[f] = disk[f]
    BY <1>8 DEF Truncate, Fill, TypeInv
  <2>3. f = Now(p) => disk'[f].items \in {EmptyBag, proc[p].next}
    BY <1>8 DEF Truncate, Fill, TypeInv, File, Torn
  <2>. QED
    BY <1>1, <1>2, <1>3, <2>1, <2>2, <2>3
<1>9. ASSUME NEW p \in Procs, Write(p)
      PROVE  OneIn(f, disk'[f].items) /\ OneIn(f, tmp'[f].items)
  <2>1. On(p, Now(p), Merged)
    BY <1>9, Steps DEF On, Merged
  <2>2. disk'[f].items = disk[f].items \/ (f = Now(p) /\ disk'[f].items = proc[p].next)
    BY <1>9 DEF Write, TypeInv, File
  <2>3. tmp'[f].items = tmp[f].items \/ (f = Now(p) /\ tmp'[f].items = proc[p].next)
    <3>1. CASE f = Now(p) /\ tmp[f].by = p
      <4>1. tmp'[f] = [state |-> "whole", items |-> proc[p].next, by |-> p]
        BY <1>9, <3>1, WriteTmp
      <4>. QED
        BY <3>1, <4>1
    <3>2. CASE ~ (f = Now(p) /\ tmp[f].by = p)
      BY <1>9, <3>2, WriteTmp
    <3>. QED
      BY <3>1, <3>2
  <2>. QED
    BY <1>2, <1>3, <2>1, <2>2, <2>3
<1>10. ASSUME NEW p \in Procs, Rename(p)
       PROVE  OneIn(f, disk'[f].items) /\ OneIn(f, tmp'[f].items)
  <2>1. disk'[f] = disk[f] \/ disk'[f] = File(tmp[f].state, tmp[f].items)
    BY <1>10 DEF Rename, TypeInv
  <2>2. tmp'[f] = tmp[f] \/ tmp'[f] = Unmade
    BY <1>10 DEF Rename, TypeInv
  <2>. QED
    BY <1>1, <1>2, <2>1, <2>2 DEF File, Unmade
<1>. QED
  BY <1>4, <1>5, <1>6, <1>7, <1>8, <1>9, <1>10 DEF Next, Developer

-----------------------------------------------------------------------------
(* What a merge keeps *)

LEMMA KeyFreeStep == TypeInv /\ KeyFree /\ [Next]_vars => KeyFree'
<1> SUFFICES ASSUME TypeInv, KeyFree, [Next]_vars,
                    NEW q \in Procs, On(q, "global_mcp", {"next"})',
                    proc'[q].key # <<>>, proc'[q].read.state = "whole"
             PROVE  \A s \in DOMAIN proc'[q].read.items :
                      s.key = proc'[q].key => s.repo = proc'[q].repo
  BY DEF KeyFree
<1>1. proc'[q] = proc[q] => \A s \in DOMAIN proc'[q].read.items :
                              s.key = proc'[q].key => s.repo = proc'[q].repo
  BY Standing DEF KeyFree
<1>2. ~ Left(q) /\ proc'[q].at = "next"
  BY DEF Left, On, Idle
<1>3. CASE Developer \/ UNCHANGED vars
  <2>1. UNCHANGED proc
    BY <1>3 DEF Developer, Add, Extend, Join, Garble, Edits, vars
  <2>. QED
    BY <1>1, <2>1
<1>4. ASSUME NEW p \in Procs, ChooseKey(p)
      PROVE  \A s \in DOMAIN proc'[q].read.items : s.key = proc'[q].key => s.repo = proc'[q].repo
  <2>1. CASE p = q
    BY <1>4, <2>1, ChooseIs
  <2>2. CASE p # q
    BY <1>1, <1>4, <2>2, Steps DEF Others
  <2>. QED
    BY <2>1, <2>2
<1>5. ASSUME NEW p \in Procs,
             \/ \E host \in Hosts, repo \in Repos : Start(p, host, repo)
             \/ Read(p) \/ Truncate(p) \/ Fill(p) \/ Make(p) \/ Write(p) \/ Rename(p) \/ Fail(p)
      PROVE  \A s \in DOMAIN proc'[q].read.items : s.key = proc'[q].key => s.repo = proc'[q].repo
  <2>1. Others(p) /\ (Left(p) \/ proc'[p].at # "next")
    BY <1>5, Steps, ReadIs DEF Moved
  <2>2. p # q
    BY <1>2, <2>1
  <2>. QED
    BY <1>1, <2>1, <2>2 DEF Others
<1>. QED
  BY <1>3, <1>4, <1>5 DEF Next, Developer

LEMMA FaithfulStep == TypeInv /\ KeyFree /\ Faithful /\ [Next]_vars => Faithful'
<1> SUFFICES ASSUME TypeInv, KeyFree, Faithful, [Next]_vars,
                    NEW f \in Files, NEW q \in Procs, On(q, f, Merged)'
             PROVE  LET read == proc'[q].read
                        next == proc'[q].next
                    IN /\ read.state = "torn" => f \in lost'
                       /\ read.state = "unreadable" => f \in InPlace
                       /\ read.state = "whole" =>
                            \A thing \in TheirItems(f) \ Mixed :
                              KeepsIn(f, read.items, thing) => KeepsIn(f, next, thing)
                       /\ f = "global_mcp" /\ read.state \in {"whole", "absent"} =>
                            /\ Has(next, proc'[q].repo)
                            /\ \A repo \in Repos : Has(read.items, repo) => Has(next, repo)
  BY DEF Faithful, KeepsIn, Has
<1>1. lost \subseteq lost'
  BY LostGrows
<1>2. CASE /\ On(q, f, Merged)
           /\ proc'[q].next = proc[q].next /\ proc'[q].read = proc[q].read
           /\ proc'[q].repo = proc[q].repo
  BY <1>1, <1>2 DEF Faithful
<1>3. CASE Read(q) /\ f = Now(q) /\ ~ Left(q) /\ proc'[q].read = Mismatch
  BY <1>3 DEF Mismatch, File
<1>4. CASE Read(q) /\ f = Now(q) /\ ~ Left(q) /\ proc'[q].read # Mismatch
  <2> DEFINE there == disk[f]
             next == proc'[q].next
  <2>1. /\ proc'[q].read = there
        /\ there.state = "torn" => f \in lost'
        /\ there.state = "unreadable" => f \in InPlace
        /\ (there.state = "whole" =>
              \A thing \in TheirItems(f) \ Mixed :
                KeepsIn(f, there.items, thing) => KeepsIn(f, next, thing))
        /\ f = "global_mcp" => Has(next, proc'[q].repo)
        /\ f = "global_mcp" /\ there.state = "whole" =>
             \A repo : Has(there.items, repo) => Has(next, repo)
    BY <1>4, ReadIs
  <2>2. there.state = "absent" => \A repo : ~ Has(there.items, repo)
    BY SmallBags DEF TypeInv, IsFile, Has
  <2>. QED
    BY <2>1, <2>2
<1>. QED
  BY <1>2, <1>3, <1>4, WorkIs

LEMMA ApartStep == TypeInv /\ Apart /\ [Next]_vars => Apart'
<1> SUFFICES ASSUME TypeInv, Apart, [Next]_vars, NEW q \in Procs, proc'[q].at = "made"
             PROVE  Now(q)' \notin InPlace
  BY DEF Apart
<1>1. proc'[q] = proc[q] => Now(q)' \notin InPlace
  BY DEF Apart, Now
<1>2. CASE Developer \/ UNCHANGED vars
  <2>1. UNCHANGED proc
    BY <1>2 DEF Developer, Add, Extend, Join, Garble, Edits, vars
  <2>. QED
    BY <1>1, <2>1
<1>3. ASSUME NEW p \in Procs, Make(p)
      PROVE  Now(q)' \notin InPlace
  BY <1>1, <1>3, Steps, ZenonT(40) DEF Others, Moved, Make
<1>4. ASSUME NEW p \in Procs,
             \/ \E host \in Hosts, repo \in Repos : Start(p, host, repo)
             \/ ChooseKey(p) \/ Read(p) \/ Truncate(p) \/ Fill(p) \/ Write(p) \/ Rename(p)
             \/ Fail(p)
      PROVE  Now(q)' \notin InPlace
  <2>1. Others(p) /\ (Left(p) \/ proc'[p].at # "made")
    BY <1>4, Steps, ReadIs DEF Moved
  <2>2. p # q
    BY <2>1 DEF Left, Idle
  <2>. QED
    BY <1>1, <2>1, <2>2 DEF Others
<1>. QED
  BY <1>2, <1>3, <1>4 DEF Next, Developer

\* The steps that leave the files, and whom they bring to writing in place.
LEMMA StayIs ==
  ASSUME TypeInv, HalfLost, Apart, NEW f \in Files, NEW p \in Procs,
         \/ \E host \in Hosts, repo \in Repos : Start(p, host, repo)
         \/ ChooseKey(p) \/ Read(p) \/ Make(p) \/ Write(p) \/ Fail(p)
  PROVE  /\ UNCHANGED <<theirs, registered>>
         /\ f \notin lost => disk'[f] = disk[f]
         /\ f \in InPlace => \A q \in Procs : On(q, f, {"written"})' =>
                               q # p /\ proc'[q] = proc[q] /\ On(q, f, {"written"})
<1>1. UNCHANGED <<theirs, registered>>
  BY DEF Start, ChooseKey, Read, Make, Write, Fail
<1>2. f \notin lost => disk'[f] = disk[f]
  <2>1. CASE Write(p)
    BY <2>1, NobodyAssumption DEF Write, HalfLost, TypeInv
  <2>2. CASE ~ Write(p)
    BY <2>2 DEF Start, ChooseKey, Read, Make, Fail
  <2>. QED
    BY <2>1, <2>2
<1>3. ASSUME f \in InPlace, NEW q \in Procs, On(q, f, {"written"})'
      PROVE  q # p /\ proc'[q] = proc[q] /\ On(q, f, {"written"})
  <2>1. Others(p)
    BY Steps
  <2>2. q # p
    <3>1. CASE Write(p)
      <4>1. On(p, Now(p), {"made"}) /\ Moved(p, "written")
        BY <3>1, Steps
      <4>2. Now(p) \notin InPlace
        BY <4>1 DEF Apart, On
      <4>. QED
        BY <1>3, <4>1, <4>2, Standing
    <3>2. CASE ~ Write(p)
      <4>1. Left(p) \/ proc'[p].at \in {"next", "read", "made"}
        BY <3>2, Steps, ReadIs DEF Moved
      <4>. QED
        BY <1>3, <4>1 DEF Left, Idle, On
    <3>. QED
      BY <3>1, <3>2
  <2>. QED
    BY <1>3, <2>1, <2>2, Standing DEF Others
<1>. QED
  BY <1>1, <1>2, <1>3

LEMMA InPlaceStep ==
  TypeInv /\ HalfLost /\ Apart /\ Faithful /\ InPlaceAlone /\ [Next]_vars => InPlaceAlone'
<1> SUFFICES ASSUME TypeInv, HalfLost, Apart, Faithful, InPlaceAlone, [Next]_vars,
                    NEW f \in InPlace, f \notin lost', NEW q \in Procs, On(q, f, {"written"})'
             PROVE  /\ disk'[f] = Torn
                    /\ \A r \in Procs : On(r, f, {"written"})' => r = q
  BY DEF InPlaceAlone
<1>1. f \in Files /\ f \notin lost
  BY LostGrows DEF Files
<1>2. \A r \in Procs : On(r, f, {"written"}) =>
        disk[f] = Torn /\ \A s \in Procs : On(s, f, {"written"}) => s = r
  BY <1>1 DEF InPlaceAlone
<1>3. CASE Developer
  <2>1. PICK g \in Files : Add(g) \/ Extend(g) \/ Join(g) \/ Garble(g)
    BY <1>3 DEF Developer
  <2>2. proc' = proc /\ disk[g].state \in {"absent", "whole"}
    BY <2>1 DEF Add, Extend, Join, Garble, Edits
  <2>3. \A r \in Procs : On(r, f, {"written"})' <=> On(r, f, {"written"})
    BY <2>2, Standing
  <2>4. f # g
    BY <1>2, <2>2, <2>3 DEF Torn, File
  <2>5. disk'[f] = disk[f]
    <3>1. CASE Garble(g)
      BY <1>1, <2>4, <3>1 DEF Garble, TypeInv
    <3>2. CASE ~ Garble(g)
      BY <1>1, <2>1, <2>4, <3>2, EditIs, EditedIs
    <3>. QED
      BY <3>1, <3>2
  <2>. QED
    BY <1>2, <2>3, <2>5
<1>4. CASE UNCHANGED vars
  BY <1>2, <1>4, Standing DEF vars
<1>5. ASSUME NEW p \in Procs,
             \/ \E host \in Hosts, repo \in Repos : Start(p, host, repo)
             \/ ChooseKey(p) \/ Read(p) \/ Make(p) \/ Write(p) \/ Fail(p)
      PROVE  disk'[f] = Torn /\ \A r \in Procs : On(r, f, {"written"})' => r = q
  BY <1>1, <1>2, <1>5, StayIs
<1>6. ASSUME NEW p \in Procs, Fill(p) \/ Rename(p)
      PROVE  disk'[f] = Torn /\ \A r \in Procs : On(r, f, {"written"})' => r = q
  <2>1. Others(p) /\ Left(p) /\ On(p, Now(p), {"written"})
    BY <1>6, Steps
  <2>2. ~ On(p, f, {"written"})'
    BY <2>1, Standing DEF Merged
  <2>3. \A r \in Procs : On(r, f, {"written"})' => On(r, f, {"written"})
    BY <2>1, <2>2, Standing DEF Others
  <2>4. f # Now(p)
    BY <1>2, <2>1, <2>2, <2>3
  <2>5. disk'[f] = disk[f]
    BY <1>1, <1>6, <2>4 DEF Fill, Rename, TypeInv
  <2>. QED
    BY <1>2, <2>3, <2>5
<1>7. ASSUME NEW p \in Procs, Truncate(p)
      PROVE  disk'[f] = Torn /\ \A r \in Procs : On(r, f, {"written"})' => r = q
  <2>1. On(p, Now(p), {"read"}) /\ Others(p) /\ Moved(p, "written")
    BY <1>7, Steps
  <2>2. \A r \in Procs : On(r, f, {"written"})' =>
          On(r, f, {"written"}) \/ (r = p /\ f = Now(p))
    BY <2>1, Standing DEF Others
  <2>3. CASE f = Now(p)
    <3>1. disk[f] = proc[p].read /\ disk'[f] = Torn
      BY <1>1, <1>7, <2>3 DEF Truncate, Replaces, TypeInv
    <3>2. proc[p].read.state # "torn"
      BY <1>1, <2>1, <2>3 DEF Faithful, On, Merged
    <3>3. \A r \in Procs : ~ On(r, f, {"written"})
      BY <1>2, <3>1, <3>2 DEF Torn, File
    <3>. QED
      BY <2>2, <3>1, <3>3
  <2>4. CASE f # Now(p)
    <3>1. disk'[f] = disk[f]
      BY <1>1, <1>7, <2>4 DEF Truncate, TypeInv
    <3>. QED
      BY <1>2, <2>2, <2>4, <3>1
  <2>. QED
    BY <2>3, <2>4
<1>. QED
  BY <1>3, <1>4, <1>5, <1>6, <1>7 DEF Next, Developer

LEMMA ReadableStep == TypeInv /\ Readable /\ [Next]_vars => Readable'
<1> SUFFICES ASSUME TypeInv, Readable, [Next]_vars,
                    NEW f \in Files, disk'[f].state = "unreadable"
             PROVE  f \in Unreadable
  BY DEF Readable
<1>1. disk'[f] = disk[f] => f \in Unreadable
  BY DEF Readable
<1>2. CASE Developer \/ UNCHANGED vars
  <2>1. ASSUME NEW g \in Files, Add(g) \/ Extend(g) \/ Join(g)
        PROVE  f \in Unreadable
    BY <1>1, <2>1, EditIs, EditedIs
  <2>2. ASSUME NEW g \in Files, Garble(g)
        PROVE  f \in Unreadable
    BY <1>1, <2>2 DEF Garble, TypeInv
  <2>. QED
    BY <1>1, <1>2, <2>1, <2>2 DEF Developer, vars
<1>3. ASSUME NEW p \in Procs,
             \/ \E host \in Hosts, repo \in Repos : Start(p, host, repo)
             \/ ChooseKey(p) \/ Read(p) \/ Make(p) \/ Fail(p)
      PROVE  f \in Unreadable
  BY <1>1, <1>3 DEF Start, ChooseKey, Read, Make, Fail
<1>4. ASSUME NEW p \in Procs, Truncate(p) \/ Fill(p) \/ Write(p)
      PROVE  f \in Unreadable
  <2>1. disk'[f] = disk[f] \/ disk'[f] = Torn \/ disk'[f] = File("whole", proc[p].next)
    BY <1>4 DEF Truncate, Fill, Write, TypeInv
  <2>. QED
    BY <1>1, <2>1 DEF Torn, File
<1>5. ASSUME NEW p \in Procs, Rename(p)
      PROVE  f \in Unreadable
  <2>1. disk'[f] = disk[f] \/ disk'[f] = File(tmp[f].state, tmp[f].items)
    BY <1>5 DEF Rename, TypeInv
  <2>. QED
    BY <1>1, <2>1 DEF File, TypeInv, IsTemporary
<1>. QED
  BY <1>2, <1>3, <1>4, <1>5 DEF Next, Developer

-----------------------------------------------------------------------------
(* Registrations, and what is the developer's *)

\* Every repository that the file has a registration of, it has when the developer has
\* edited it, and what the developer has there.
LEMMA EditKeeps ==
  ASSUME TypeInv, NEW f \in Files, EditsOf(f)
  PROVE  /\ disk'[f].state = "whole"
         /\ f \in Servers => \A repo : Has(disk[f].items, repo) => Has(disk'[f].items, repo)
         /\ \A thing \in TheirItems(f) \ Mixed :
              KeepsIn(f, disk[f].items, thing) => KeepsIn(f, disk'[f].items, thing)
         /\ DOMAIN theirs' = Files /\ \A g \in Files \ {f} : theirs'[g] = theirs[g]
         /\ \A thing \in theirs'[f] \ Mixed :
              thing \in theirs[f] \/ KeepsIn(f, disk'[f].items, thing)
<1> DEFINE items == disk[f].items
<1>1. IsABag(items)
  BY DEF TypeInv, IsFile, IsItems
<1>2. PICK new \in TheirItems(f) :
        /\ theirs' = [theirs EXCEPT ![f] = @ \cup {new}]
        /\ \/ disk' = [disk EXCEPT ![f] = File("whole", BagAdd(disk[f].items, new))]
           \/ \E old \in DOMAIN disk[f].items \ (TheirItems(f) \ Mixed) :
                /\ f \in HookFiles \cup Servers
                /\ f \in HookFiles => IsOurs(old)
                /\ f \in Servers => old.key = new.key /\ old.repo = new.repo /\ ~ old.more
                /\ disk' = [disk EXCEPT ![f].items = BagAdd(BagRemove(disk[f].items, old), new)]
  BY DEF EditsOf
<1>3. /\ disk'[f].state = "whole" /\ new \in DOMAIN disk'[f].items
      /\ \A e \in DOMAIN items : \/ e \in DOMAIN disk'[f].items
                                 \/ /\ f \in HookFiles => IsOurs(e)
                                    /\ f \in HookFiles \cup Servers
                                    /\ f \in Servers => e.repo = new.repo /\ ~ e.more
  <2>1. disk'[f].state = "whole"
    BY EditedIs
  <2>2. CASE disk' = [disk EXCEPT ![f] = File("whole", BagAdd(disk[f].items, new))]
    <3>1. disk'[f].items = BagAdd(items, new)
      BY <2>2 DEF TypeInv, File
    <3>2. DOMAIN BagAdd(items, new) = DOMAIN items \cup {new}
      BY <1>1, AddIs
    <3>. QED
      BY <2>1, <3>1, <3>2
  <2>3. ASSUME NEW old \in DOMAIN disk[f].items,
               f \in HookFiles \cup Servers,
               f \in HookFiles => IsOurs(old),
               f \in Servers => old.key = new.key /\ old.repo = new.repo /\ ~ old.more,
               disk' = [disk EXCEPT ![f].items = BagAdd(BagRemove(disk[f].items, old), new)]
        PROVE  /\ new \in DOMAIN disk'[f].items
               /\ \A e \in DOMAIN items : e \in DOMAIN disk'[f].items \/ e = old
    <3> DEFINE rest == BagRemove(items, old)
    <3>1. disk'[f].items = BagAdd(rest, new)
      BY <2>3 DEF TypeInv, IsFile, File
    <3>2. IsABag(rest) /\ \A e \in DOMAIN items \ {old} : e \in DOMAIN rest
      BY <1>1, RemoveIs
    <3> HIDE DEF rest
    <3>3. DOMAIN BagAdd(rest, new) = DOMAIN rest \cup {new}
      BY <3>2, AddIs
    <3>. QED
      BY <3>1, <3>2, <3>3
  <2>. QED
    BY <1>2, <2>1, <2>2, <2>3
<1>4. ASSUME f \in Servers, NEW repo, Has(items, repo)
      PROVE  Has(disk'[f].items, repo)
  BY <1>3, <1>4 DEF Has
<1>5. ASSUME NEW thing \in TheirItems(f) \ Mixed, KeepsIn(f, items, thing)
      PROVE  KeepsIn(f, disk'[f].items, thing)
  <2>1. CASE f \in Servers
    BY <1>3, <1>5, <2>1 DEF KeepsIn
  <2>2. CASE f \in HookFiles
    BY <1>3, <1>5, <2>2, Sorts DEF KeepsIn, BagIn, BagToSet
  <2>3. CASE f \notin HookFiles \cup Servers
    BY <1>3, <1>5, <2>3 DEF KeepsIn, BagIn, BagToSet
  <2>. QED
    BY <2>1, <2>2, <2>3
<1>6. KeepsIn(f, disk'[f].items, new)
  BY <1>3, Sorts DEF KeepsIn, BagIn, BagToSet
<1>7. theirs'[f] = theirs[f] \cup {new}
  BY <1>2 DEF TypeInv
<1>. QED
  BY <1>2, <1>3, <1>4, <1>5, <1>6, <1>7 DEF TypeInv

\* A registration that has succeeded stays.
LEMMA RegisteredStep ==
  TypeInv /\ Owner /\ HalfLost /\ Faithful /\ Apart /\ RegisteredInv /\ [Next]_vars => RegisteredInv'
<1> DEFINE g == "global_mcp"
<1> SUFFICES ASSUME TypeInv, Owner, HalfLost, Faithful, Apart, RegisteredInv, [Next]_vars, g \notin lost'
             PROVE  /\ disk'[g].state = "absent" => registered' = {}
                    /\ disk'[g].state = "whole" => \A repo \in registered' : Has(disk'[g].items, repo)
  BY DEF RegisteredInv, Has
<1>1. g \in Files /\ g \in Servers /\ g \notin InPlace /\ g \notin lost
  BY LostGrows DEF Files, Servers, InPlace, Generated
<1>2. /\ disk[g].state = "absent" => registered = {}
      /\ disk[g].state = "whole" => \A repo \in registered : Has(disk[g].items, repo)
  BY <1>1 DEF RegisteredInv
<1>3. disk'[g] = disk[g] /\ registered' = registered =>
        /\ disk'[g].state = "absent" => registered' = {}
        /\ disk'[g].state = "whole" => \A repo \in registered' : Has(disk'[g].items, repo)
  BY <1>2
<1>4. CASE Developer \/ UNCHANGED vars
  <2>1. registered' = registered
    BY <1>4 DEF Developer, Add, Extend, Join, Garble, Edits, vars
  <2>2. CASE UNCHANGED vars
    BY <1>3, <2>2 DEF vars
  <2>3. ASSUME NEW h \in Files, Garble(h)
        PROVE  disk'[g] = disk[g] \/ disk'[g].state = "unreadable"
    BY <1>1, <2>3 DEF Garble, TypeInv, IsFile
  <2>4. ASSUME NEW h \in Files, EditsOf(h)
        PROVE  /\ disk'[g].state = "absent" => registered' = {}
               /\ disk'[g].state = "whole" => \A repo \in registered' : Has(disk'[g].items, repo)
    <3>1. CASE h # g
      BY <1>1, <1>3, <2>1, <2>4, <3>1, EditedIs
    <3>2. CASE h = g
      <4>1. disk[g].state \in {"absent", "whole"}
        BY <2>4, <3>2 DEF EditsOf
      <4>. QED
        BY <1>1, <1>2, <2>1, <2>4, <3>2, <4>1, EditKeeps
    <3>. QED
      BY <3>1, <3>2
  <2>. QED
    BY <1>3, <1>4, <2>1, <2>2, <2>3, <2>4, EditIs DEF Developer
<1>5. ASSUME NEW p \in Procs,
             \/ \E host \in Hosts, repo \in Repos : Start(p, host, repo)
             \/ ChooseKey(p) \/ Read(p) \/ Make(p) \/ Write(p) \/ Fail(p)
      PROVE  disk'[g] = disk[g] /\ registered' = registered
  BY <1>1, <1>5, StayIs
<1>6. ASSUME NEW p \in Procs, Truncate(p) \/ Fill(p)
      PROVE  disk'[g] = disk[g] /\ registered' = registered
  <2>1. Now(p) # g
    BY <1>1, <1>6 DEF Truncate, Fill
  <2>. QED
    BY <1>1, <1>6, <2>1 DEF Truncate, Fill, TypeInv
<1>7. ASSUME NEW p \in Procs, Rename(p)
      PROVE  /\ disk'[g].state = "absent" => registered' = {}
             /\ disk'[g].state = "whole" => \A repo \in registered' : Has(disk'[g].items, repo)
  <2>1. CASE Now(p) # g
    BY <1>1, <1>3, <1>7, <2>1, RenameIs
  <2>2. CASE Now(p) = g
    <3>1. /\ tmp[g].by = p /\ disk[g] = proc[p].read
          /\ disk'[g] = File("whole", proc[p].next)
          /\ registered' = registered \cup {proc[p].repo}
      BY <1>7, <2>2, RenameIs
    <3>2. On(p, g, Merged)
      BY <1>7, <2>2, Steps DEF On, Merged
    <3>3. disk[g].state \in {"whole", "absent"}
      BY <1>1, <3>1, <3>2 DEF Faithful, TypeInv, IsFile
    <3>4. /\ Has(proc[p].next, proc[p].repo)
          /\ \A repo \in Repos : Has(disk[g].items, repo) => Has(proc[p].next, repo)
      BY <1>1, <3>1, <3>2, <3>3 DEF Faithful
    <3>5. \A repo \in registered' : Has(proc[p].next, repo)
      BY <1>2, <3>1, <3>3, <3>4 DEF TypeInv
    <3>. QED
      BY <3>1, <3>5 DEF File
  <2>. QED
    BY <2>1, <2>2
<1>. QED
  BY <1>3, <1>4, <1>5, <1>6, <1>7 DEF Next, Developer

\* The developer leaves the cheatsheet readable: what cannot be read of it is taken for
\* nothing (agents_md), and so is lost.
Legible == "agents" \notin Unreadable

\* What replaces a file that was merged has what the developer had in it.
LEMMA ReplacedKeeps ==
  ASSUME TypeInv, Legible, Faithful, Readable, KeptInv,
         NEW f \in Files \ lost, NEW p \in Procs, On(p, f, Merged), disk[f] = proc[p].read
  PROVE  \A thing \in theirs[f] \ Mixed : KeepsIn(f, proc[p].next, thing)
<1>1. theirs[f] \subseteq TheirItems(f)
  BY DEF TypeInv
<1>2. /\ disk[f].state = "absent" => theirs[f] = {}
      /\ disk[f].state = "whole" =>
           \A thing \in theirs[f] \ Mixed : KeepsIn(f, disk[f].items, thing)
  BY DEF KeptInv, Kept
<1>3. CASE disk[f].state = "whole"
  BY <1>1, <1>2, <1>3 DEF Faithful
<1>4. CASE disk[f].state = "unreadable"
  <2>1. f \in InPlace /\ f \in Unreadable
    BY <1>4 DEF Faithful, Readable
  <2>2. f \in Generated
    BY <2>1 DEF InPlace, Legible
  <2>3. TheirItems(f) = {}
    BY <2>1, <2>2, Sorts
  <2>. QED
    BY <1>1, <2>3
<1>. QED
  BY <1>2, <1>3, <1>4 DEF Faithful, TypeInv, IsFile

LEMMA KeptStep ==
  /\ TypeInv /\ Legible /\ Owner /\ HalfLost /\ Faithful /\ Apart /\ InPlaceAlone /\ Readable
  /\ KeptInv /\ [Next]_vars
  => KeptInv'
<1> SUFFICES ASSUME TypeInv, Legible, Owner, HalfLost, Faithful, Apart, InPlaceAlone, Readable,
                    KeptInv, [Next]_vars, NEW f \in Files, f \notin lost'
             PROVE  /\ disk'[f].state = "absent" => theirs'[f] = {}
                    /\ disk'[f].state = "whole" =>
                         \A thing \in theirs'[f] \ Mixed : KeepsIn(f, disk'[f].items, thing)
                    /\ \A q \in Procs : f \in InPlace /\ On(q, f, {"written"})' =>
                         \A thing \in theirs'[f] \ Mixed : KeepsIn(f, proc'[q].next, thing)
  BY DEF KeptInv, Kept, KeepsIn
<1> DEFINE InFile == /\ disk'[f].state = "absent" => theirs'[f] = {}
                     /\ disk'[f].state = "whole" =>
                          \A thing \in theirs'[f] \ Mixed : KeepsIn(f, disk'[f].items, thing)
           InHand(q) == f \in InPlace /\ On(q, f, {"written"})' =>
                          \A thing \in theirs'[f] \ Mixed : KeepsIn(f, proc'[q].next, thing)
<1>1. f \notin lost
  BY LostGrows
<1>2. /\ disk[f].state = "absent" => theirs[f] = {}
      /\ disk[f].state = "whole" =>
           \A thing \in theirs[f] \ Mixed : KeepsIn(f, disk[f].items, thing)
  BY <1>1 DEF KeptInv, Kept
<1>3. \A q \in Procs : f \in InPlace /\ On(q, f, {"written"}) =>
        \A thing \in theirs[f] \ Mixed : KeepsIn(f, proc[q].next, thing)
  BY <1>1 DEF KeptInv
<1>4. disk'[f] = disk[f] /\ theirs'[f] = theirs[f] => InFile
  BY <1>2
<1>5. \A q \in Procs : proc'[q] = proc[q] /\ theirs'[f] = theirs[f] => InHand(q)
  BY <1>3, Standing
<1> HIDE DEF InFile, InHand
<1>6. CASE Developer \/ UNCHANGED vars
  <2>1. proc' = proc
    BY <1>6 DEF Developer, Add, Extend, Join, Garble, Edits, vars
  <2>2. ASSUME NEW g \in Files, g # f, Garble(g) \/ EditsOf(g)
        PROVE  disk'[f] = disk[f] /\ theirs'[f] = theirs[f]
    BY <2>2, EditedIs, EditKeeps DEF Garble, TypeInv
  <2>3. CASE Garble(f)
    <3>1. theirs' = theirs /\ disk'[f].state = "unreadable"
      BY <2>3 DEF Garble, TypeInv, IsFile
    <3>. QED
      BY <1>5, <2>1, <3>1 DEF InFile, InHand
  <2>4. CASE EditsOf(f)
    <3>1. theirs[f] \subseteq TheirItems(f) /\ disk[f].state \in {"absent", "whole"}
      BY <2>4 DEF TypeInv, EditsOf
    <3>2. InFile
      <4>1. disk'[f].state = "whole"
        BY <2>4, EditKeeps
      <4>2. \A thing \in theirs'[f] \ Mixed :
              thing \in theirs[f] \/ KeepsIn(f, disk'[f].items, thing)
        BY <2>4, EditKeeps
      <4>3. \A thing \in theirs[f] \ Mixed : KeepsIn(f, disk[f].items, thing)
        BY <1>2, <3>1
      <4>4. \A thing \in theirs[f] \ Mixed : KeepsIn(f, disk'[f].items, thing)
        BY <2>4, <3>1, <4>3, EditKeeps
      <4>. QED
        BY <4>1, <4>2, <4>4 DEF InFile
    <3>3. ASSUME NEW q \in Procs
          PROVE  InHand(q)
      <4>1. f \in InPlace => ~ On(q, f, {"written"})
        BY <1>1, <3>1 DEF InPlaceAlone, Torn, File
      <4>. QED
        BY <2>1, <4>1, Standing DEF InHand
    <3>. QED
      BY <3>2, <3>3 DEF InFile, InHand
  <2>5. CASE UNCHANGED vars
    BY <1>4, <1>5, <2>1, <2>5 DEF vars, InFile, InHand
  <2>6. ASSUME NEW g \in Files, g # f, Garble(g) \/ EditsOf(g)
        PROVE  InFile /\ \A q \in Procs : InHand(q)
    BY <1>4, <1>5, <2>1, <2>2, <2>6
  <2>. QED
    BY <1>6, <2>3, <2>4, <2>5, <2>6, EditIs DEF Developer, InFile, InHand
<1>7. ASSUME NEW p \in Procs,
             \/ \E host \in Hosts, repo \in Repos : Start(p, host, repo)
             \/ ChooseKey(p) \/ Read(p) \/ Make(p) \/ Write(p) \/ Fail(p)
      PROVE  InFile /\ \A q \in Procs : InHand(q)
  <2>1. theirs' = theirs /\ disk'[f] = disk[f]
    BY <1>1, <1>7, StayIs
  <2>2. \A q \in Procs : f \in InPlace /\ On(q, f, {"written"})' => proc'[q] = proc[q]
    BY <1>7, StayIs
  <2>. QED
    BY <1>4, <1>5, <2>1, <2>2 DEF InHand
<1>8. ASSUME NEW p \in Procs, Truncate(p)
      PROVE  InFile /\ \A q \in Procs : InHand(q)
  <2>1. On(p, Now(p), {"read"}) /\ Others(p) /\ Moved(p, "written") /\ theirs' = theirs
    BY <1>8, Steps DEF Truncate
  <2>2. \A q \in Procs \ {p} : InHand(q)
    BY <1>5, <2>1 DEF Others
  <2>3. CASE f # Now(p)
    <3>1. disk'[f] = disk[f]
      BY <1>8, <2>3 DEF Truncate, TypeInv
    <3>2. InHand(p)
      BY <2>1, <2>3, Standing DEF InHand
    <3>. QED
      BY <1>4, <2>1, <2>2, <3>1, <3>2
  <2>4. CASE f = Now(p)
    <3>1. disk[f] = proc[p].read /\ disk'[f] = Torn
      BY <1>1, <1>8, <2>4 DEF Truncate, Replaces, TypeInv
    <3>2. \A thing \in theirs[f] \ Mixed : KeepsIn(f, proc[p].next, thing)
      BY <1>1, <2>1, <2>4, <3>1, ReplacedKeeps DEF On, Merged
    <3>3. proc'[p].next = proc[p].next
      BY <2>1 DEF Moved
    <3>. QED
      BY <2>1, <2>2, <3>1, <3>2, <3>3 DEF InFile, InHand, Torn, File
  <2>. QED
    BY <2>3, <2>4
<1>9. ASSUME NEW p \in Procs, Fill(p) \/ Rename(p)
      PROVE  InFile /\ \A q \in Procs : InHand(q)
  <2>1. On(p, Now(p), {"written"}) /\ Others(p) /\ Left(p) /\ theirs' = theirs
    BY <1>9, Steps DEF Fill, Rename
  <2>2. \A q \in Procs : InHand(q)
    <3>1. InHand(p)
      BY <2>1, Standing DEF InHand, Merged
    <3>. QED
      BY <1>5, <2>1, <3>1 DEF Others
  <2>3. CASE f # Now(p)
    <3>1. disk'[f] = disk[f]
      BY <1>9, <2>3 DEF Fill, Rename, TypeInv
    <3>. QED
      BY <1>4, <2>1, <2>2, <3>1
  <2>4. CASE f = Now(p)
    <3>1. disk'[f] = File("whole", proc[p].next)
      BY <1>9, <2>4, RenameIs DEF Fill, TypeInv
    <3>2. \A thing \in theirs[f] \ Mixed : KeepsIn(f, proc[p].next, thing)
      <4>1. CASE Fill(p)
        BY <1>3, <2>1, <2>4, <4>1 DEF Fill
      <4>2. CASE Rename(p)
        <5>1. disk[f] = proc[p].read
          BY <2>4, <4>2, RenameIs
        <5>. QED
          BY <1>1, <2>1, <2>4, <5>1, ReplacedKeeps DEF On, Merged
      <4>. QED
        BY <1>9, <4>1, <4>2
    <3>. QED
      BY <2>1, <2>2, <3>1, <3>2 DEF InFile, File
  <2>. QED
    BY <2>3, <2>4
<1>. QED
  BY <1>6, <1>7, <1>8, <1>9 DEF Next, Developer, InFile, InHand

-----------------------------------------------------------------------------
(* The theorems *)

LEMMA InvInit == Init => Inv /\ KeptInv
<1> SUFFICES ASSUME Init
             PROVE  Inv /\ KeptInv
  OBVIOUS
<1>1. TypeInv
  BY TypeInit
<1>2. \A p \in Procs : \A f, phases : ~ On(p, f, phases) \/ "idle" \in phases
  BY DEF Init, On, Idle
<1>3. \A f : OneIn(f, EmptyBag)
  BY SmallBags DEF OneIn, OursIn
<1>4. \A f \in Files : disk[f] = Absent /\ tmp[f] = Unmade /\ half[f] = Nobody /\ theirs[f] = {}
  BY DEF Init
<1>5. Owner /\ Alone /\ HalfLost /\ NeverHalf /\ Readable
  BY <1>2, <1>4, NobodyAssumption
     DEF Owner, Alone, HalfLost, NeverHalf, Readable, Absent, File, Unmade
<1>6. OneEverywhere
  BY <1>2, <1>3, <1>4 DEF OneEverywhere, Merged, Absent, File, Unmade
<1>7. KeyFree /\ Faithful /\ InPlaceAlone
  BY <1>2 DEF KeyFree, Faithful, InPlaceAlone, Merged
<1>8. Apart
  BY DEF Apart, Init, Idle
<1>9. RegisteredInv
  BY <1>4 DEF RegisteredInv, Init, Files, Servers, Absent, File
<1>10. KeptInv
  BY <1>2, <1>4 DEF KeptInv, Kept
<1>. QED
  BY <1>1, <1>5, <1>6, <1>7, <1>8, <1>9, <1>10 DEF Inv

LEMMA InvStep == Inv /\ [Next]_vars => Inv'
BY TypeStep, OwnerStep, AloneStep, HalfLostStep, NeverHalfStep, OneStep, KeyFreeStep, FaithfulStep,
   ApartStep, InPlaceStep, ReadableStep, RegisteredStep
   DEF Inv

\* Every variable keeps its type, for any processes, repositories, hosts and files.
THEOREM TypeCorrect == Spec => []TypeOK
<1>1. Init => Inv
  BY InvInit
<1>2. Inv => TypeOK
  BY DEF Inv, TypeInv, TypeOK, IsFile, IsTemporary, IsProcess, Idle, Phases
<1>. QED
  BY <1>1, <1>2, InvStep, PTL DEF Spec

\* write_atomic: a configuration is never left half written, by whichever crash, as long
\* as no two processes have its temporary file at once.
THEOREM NeverHalfHolds == Spec => []NeverHalf
<1>1. Init => Inv
  BY InvInit
<1>2. Inv => NeverHalf
  BY DEF Inv
<1>. QED
  BY <1>1, <1>2, InvStep, PTL DEF Spec

\* merge_hooks, merge_mcp_server_json, agents_md: one of our entries, however often and
\* by however many processes it is installed, whatever the developer writes.
THEOREM OneOfOursHolds == Spec => []OneOfOurs
<1>1. Init => Inv
  BY InvInit
<1>2. Inv => OneOfOurs
  BY DEF Inv, OneEverywhere, OneOfOurs
<1>. QED
  BY <1>1, <1>2, InvStep, PTL DEF Spec

\* per_machine: no repository's registration replaces another's, for any number of
\* repositories of one name.
THEOREM RegistrationsKeptHolds == Spec => []RegistrationsKept
<1>1. Init => Inv
  BY InvInit
<1>2. Inv => RegistrationsKept
  BY DEF Inv, RegisteredInv, RegistrationsKept, Has
<1>. QED
  BY <1>1, <1>2, InvStep, PTL DEF Spec

\* merge_hooks, merge_mcp_server_json, agents_md: what the developer has in a file stays
\* there through every install that merged what it replaced, when the cheatsheet is never
\* left as something that is no text.
THEOREM TheirsKeptHolds ==
  ASSUME Legible
  PROVE  Spec => []TheirsKept
<1>1. Init => Inv /\ KeptInv
  BY InvInit
<1>2. Inv /\ KeptInv /\ [Next]_vars => Inv' /\ KeptInv'
  <2>1. Inv /\ [Next]_vars => Inv'
    BY InvStep
  <2>2. Inv /\ KeptInv /\ [Next]_vars => KeptInv'
    BY KeptStep, Legible DEF Inv
  <2>. QED
    BY <2>1, <2>2
<1>3. Inv /\ KeptInv => TheirsKept
  BY DEF KeptInv, TheirsKept
<1>. QED
  BY <1>1, <1>2, <1>3, PTL DEF Spec
=============================================================================
