------------------------------ MODULE Install ------------------------------
(***************************************************************************)
(* `acyclic install <host>` (crates/acyclic/src/install.rs): processes     *)
(* that merge our entries into files which the developer, and other        *)
(* programs, write too.  A configuration is read, merged and replaced by   *)
(* way of a temporary file of a fixed name; the cheatsheet in AGENTS.md    *)
(* and the generated commands, skills and rules are written in place.      *)
(*                                                                         *)
(* A file is the bag of its items: nothing is decided by their order, but  *)
(* an item may be there twice.  An entry of a hooks file is where it stands*)
(* and whose commands it holds; one event stands for the five or six of a  *)
(* host.  A server is the key it is registered under, the repo its         *)
(* arguments name, and whether the developer added fields to it.           *)
(***************************************************************************)
EXTENDS Integers, Sequences, FiniteSetsExt, Bags, BagsExt

CONSTANTS
  Procs,        \* the processes that install
  Repos,        \* the repositories, all of one directory name
  Nobody,       \* no process, no repository
  Hosts,        \* the hosts that are installed
  Unreadable,   \* the files that the developer may leave in a form we cannot read
  Joined,       \* the files where the developer may add a command to an entry of ours
  MaxInstalls,  \* bound: the runs of `install`
  MaxEdits      \* bound: the developer's edits

ASSUME NobodyAssumption == Nobody \notin Procs \cup Repos
ASSUME BoundsAssumption == {MaxInstalls, MaxEdits} \subseteq Nat

\* What each adapter writes, in the order it does.
ClaudeCode == <<"settings", "commands">>
Codex == <<"codex_hooks", "agents">>
Cursor == <<"cursor_hooks", "rule", "project_mcp">>
McpHost(location) == <<location>>
Opencode == <<"project_mcp", "agents">>
AgentsMd == <<"agents">>
CopilotAgent == <<"workflow">>
PydanticAi == <<"agents", "requirements">>

Plan ==
  [claude_code |-> ClaudeCode, codex |-> Codex, cursor |-> Cursor, agents_md |-> AgentsMd,
   opencode |-> Opencode, copilot_agent |-> CopilotAgent, pydantic_ai |-> PydanticAi,
   claude_desktop |-> McpHost("global_mcp"), copilot |-> McpHost("global_mcp"),
   vscode |-> McpHost("project_mcp")]

ASSUME HostsAssumption == Hosts \subseteq DOMAIN Plan

HookFiles == {"settings", "codex_hooks", "cursor_hooks"}
Servers == {"global_mcp", "project_mcp"}
Generated == {"commands", "rule"}
InPlace == Generated \cup {"agents"}
Files == HookFiles \cup Servers \cup InPlace \cup {"workflow", "requirements"}

ASSUME FilesAssumption == Unreadable \subseteq Files /\ Joined \subseteq HookFiles

VARIABLES
  disk,        \* per file: its state and its items
  tmp,         \* per file: what is at the temporary name, and whose it is
  half,        \* per file: the process whose unwritten temporary file has been
               \* renamed to it
  theirs,      \* per file: what the developer put there
  proc,        \* per process: where it stands
  registered,  \* the repositories whose registration has succeeded
  lost,        \* the files where a merge of something else than what they held, or the
               \* merge of another process, was written
  met,         \* the files whose temporary file two processes had at once
  installs, edits

vars == <<disk, tmp, half, theirs, proc, registered, lost, met, installs, edits>>

-----------------------------------------------------------------------------
(* Items *)

Entry(place, commands) == [place |-> place, commands |-> commands]

\* An entry is ours when any text of it mentions our command.
IsOursMentioned(entry) == entry.commands \cap {"ours", "mention"} # {}

\* is_ours: when one of its commands is our hook, under whichever host's prefix.
IsOurs(entry) == "ours" \in entry.commands

\* merge_hooks, merge_cursor_hooks: our entry is replaced, also the one that earlier
\* releases wrote at the top of the file of Codex.
MergeHooks(f, items) ==
  LET stay == {entry \in DOMAIN items : \/ entry.place = "top" /\ f # "codex_hooks"
                                        \/ ~ IsOurs(entry)}
  IN BagAdd(Restrict(items, stay), Entry("hooks", {"ours"}))

Server(key, repo, more) == [key |-> key, repo |-> repo, more |-> more]

\* The directory's name, that with a hash of the path, and that with a number; a
\* registration in a project's own file has the product's name.
Named == <<0, Nobody>>
Candidates(repo) == <<Named, <<1, repo>>, <<2, repo>>>>
Product == <<3, Nobody>>

\* A key that looks at no other repository.
FreeKeyNamed(items, repo) == Named

\* per_machine: the first key that is absent or ours for this very repository.
FreeKey(items, repo) ==
  LET Occupied(key) == \E s \in DOMAIN items : s.key = key /\ s.repo # repo
      free == {i \in 1..3 : ~ Occupied(Candidates(repo)[i])}
  IN Candidates(repo)[IF free = {} THEN 2 ELSE Min(free)]

\* merge_mcp_server_json: the fields we own are overwritten, the others stay.
Register(items, key, repo) ==
  LET old == {s \in DOMAIN items : s.key = key}
  IN BagAdd(Restrict(items, DOMAIN items \ old), Server(key, repo, \E s \in old : s.more))

Line(whose) == [line |-> whose]

\* Our line, whether it is there or not.
AddLineAgain(items) == BagAdd(items, Line("ours"))

\* agents_md, append_requirement: unless it is there.
AddLine(items) == IF BagIn(Line("ours"), items) THEN items ELSE BagAdd(items, Line("ours"))

\* The text of a file that we generate.
Text == SetToBag({Line("ours")})

\* CopilotAgent: a workflow that is absent or begins with our signature.
Setup(items) == IF items \in {EmptyBag, Text} THEN Text ELSE items

Merge(f, items, key, repo) ==
  CASE f \in HookFiles -> MergeHooks(f, items)
    [] f \in Servers -> Register(items, key, repo)
    [] f \in Generated -> Text
    [] f \in {"agents", "requirements"} -> AddLine(items)
    [] f = "workflow" -> Setup(items)

-----------------------------------------------------------------------------
(* The developer, and the programs that have files of their own here *)

File(state, items) == [state |-> state, items |-> items]
Absent == File("absent", EmptyBag)
Torn == File("torn", EmptyBag)

\* What no file is: a merge of something that the key was not chosen from.
Mismatch == File("none", EmptyBag)

Unmade == [state |-> "none", items |-> EmptyBag, by |-> Nobody]

Idle == [at |-> "idle", plan |-> <<>>, repo |-> Nobody, key |-> Product,
         read |-> Absent, next |-> EmptyBag]

Init ==
  /\ disk = [f \in Files |-> Absent]
  /\ tmp = [f \in Files |-> Unmade]
  /\ half = [f \in Files |-> Nobody]
  /\ theirs = [f \in Files |-> {}]
  /\ proc = [p \in Procs |-> Idle]
  /\ registered = {} /\ lost = {} /\ met = {}
  /\ installs = 0 /\ edits = 0

\* What a developer may put into a file.
Things(f) ==
  CASE f \in HookFiles -> {Entry("hooks", {"theirs"}), Entry("hooks", {"mention"}),
                           Entry("top", {"theirs"})}
    [] f \in Servers -> {Server(Named, Nobody, TRUE)}
    [] f \in Generated -> {}
    [] OTHER -> {Line("theirs")}

Edits(f) == /\ edits < MaxEdits /\ edits' = edits + 1
            /\ disk[f].state \in {"absent", "whole"}
            /\ UNCHANGED <<tmp, half, proc, registered, lost, met, installs>>

\* Something is added at the end of a file that nobody is writing.
Add(f) ==
  /\ Edits(f)
  /\ \E thing \in Things(f) \ theirs[f] :
       /\ f \in Servers => \A s \in DOMAIN disk[f].items : s.key # thing.key
       /\ disk' = [disk EXCEPT ![f] = File("whole", BagAdd(@.items, thing))]
       /\ theirs' = [theirs EXCEPT ![f] = @ \cup {thing}]

\* The developer writes an item anew, and it is as much the developer's from then on.
Rewrites(f, item, new) ==
  /\ disk' = [disk EXCEPT ![f].items = BagAdd(BagRemove(@, item), new)]
  /\ theirs' = [theirs EXCEPT ![f] = @ \cup {new}]

\* A field is added to a server of ours.
Extend(f) ==
  /\ Edits(f)
  /\ f \in Servers
  /\ \E s \in DOMAIN disk[f].items : ~ s.more /\ Rewrites(f, s, Server(s.key, s.repo, TRUE))

\* A command is added to an entry of ours.
Join(f) ==
  /\ Edits(f)
  /\ f \in Joined
  /\ BagIn(Entry("hooks", {"ours"}), disk[f].items)
  /\ Rewrites(f, Entry("hooks", {"ours"}), Entry("hooks", {"ours", "theirs"}))

\* The file is left with a comment in its JSON, or a byte that is no text.
Garble(f) ==
  /\ Edits(f)
  /\ f \in Unreadable /\ disk[f].items # EmptyBag
  /\ disk' = [disk EXCEPT ![f].state = "unreadable"]
  /\ UNCHANGED theirs

-----------------------------------------------------------------------------
(* install *)

Start(p, host, repo) ==
  /\ proc[p] = Idle /\ installs < MaxInstalls
  /\ installs' = installs + 1
  /\ proc' = [proc EXCEPT ![p] = [Idle EXCEPT !.at = "next", !.plan = Plan[host], !.repo = repo,
                                              !.key = <<>>]]
  /\ UNCHANGED <<disk, tmp, half, theirs, registered, lost, met, edits>>

At(p, at) == proc[p].at = at /\ proc[p].plan # <<>>
Now(p) == Head(proc[p].plan)

\* Nothing is left of the file: on to the next one.
Onward(p) ==
  proc' = [proc EXCEPT ![p] = IF Len(proc[p].plan) = 1 THEN Idle
                              ELSE [proc[p] EXCEPT !.at = "next", !.plan = Tail(@), !.key = <<>>]]

\* existing_servers: what cannot be read holds no server.
ChooseKey(p) ==
  /\ At(p, "next") /\ Now(p) = "global_mcp" /\ proc[p].key = <<>>
  /\ LET there == disk[Now(p)]
         items == IF there.state = "whole" THEN there.items ELSE EmptyBag
     IN proc' = [proc EXCEPT ![p].key = FreeKey(items, proc[p].repo), ![p].read = there]
  /\ UNCHANGED <<disk, tmp, half, theirs, registered, lost, met, installs, edits>>

\* What a merge accepts: JSON has to parse and text to be text, but a cheatsheet takes
\* what it cannot read for an empty file.
Accepts(f, state) ==
  CASE f \in InPlace -> TRUE
    [] f \in HookFiles \cup Servers -> state \in {"absent", "whole"}
    [] OTHER -> state # "unreadable"

\* The file is read and merged.  A cheatsheet, a requirement and a workflow of somebody
\* else's are left as they are, and so is a requirement the developer declines.
Read(p) ==
  /\ At(p, "next") /\ (Now(p) = "global_mcp" => proc[p].key # <<>>)
  /\ LET f == Now(p)
         there == disk[f]
         chosen == proc[p].key # <<>>
         items == IF there.state = "whole" THEN there.items ELSE EmptyBag
         next == Merge(f, items, IF chosen THEN proc[p].key ELSE Product,
                       IF chosen THEN proc[p].repo ELSE Nobody)
         alone == \/ f \in {"agents", "requirements"} /\ next = items
                  \/ f = "requirements" /\ there.state = "absent"
                  \/ f = "workflow" /\ (there.state = "torn" \/ next # Text)
     IN /\ Accepts(f, there.state)
        /\ lost' = IF there.state = "torn" THEN lost \cup {f} ELSE lost
        /\ \/ (alone \/ f = "requirements") /\ Onward(p)
           \/ /\ ~ alone
              /\ proc' = [proc EXCEPT ![p].at = "read", ![p].next = next,
                                      ![p].read = IF chosen /\ @ # there THEN Mismatch ELSE there]
  /\ UNCHANGED <<disk, tmp, half, theirs, registered, met, installs, edits>>

\* An error, a signal or a power cut; what is on disk stays.
Fail(p) ==
  /\ proc[p] # Idle
  /\ proc' = [proc EXCEPT ![p] = Idle]
  /\ half' = [f \in Files |-> IF half[f] = p THEN Nobody ELSE half[f]]
  /\ tmp' = [f \in Files |-> IF tmp[f].by = p THEN [tmp[f] EXCEPT !.by = Nobody] ELSE tmp[f]]
  /\ UNCHANGED <<disk, theirs, registered, lost, met, installs, edits>>

\* The file that is replaced may not be the one that was merged.
Replaces(f, same) == lost' = IF same THEN lost ELSE lost \cup {f}

\* fs::write makes the file empty, and then it is written.
Truncate(p) ==
  /\ At(p, "read") /\ Now(p) \in InPlace
  /\ Replaces(Now(p), disk[Now(p)] = proc[p].read)
  /\ disk' = [disk EXCEPT ![Now(p)] = Torn]
  /\ proc' = [proc EXCEPT ![p].at = "written"]
  /\ UNCHANGED <<tmp, half, theirs, registered, met, installs, edits>>

Fill(p) ==
  /\ At(p, "written") /\ Now(p) \in InPlace
  /\ Replaces(Now(p), disk[Now(p)] = Torn)
  /\ disk' = [disk EXCEPT ![Now(p)] = File("whole", proc[p].next)]
  /\ Onward(p)
  /\ UNCHANGED <<tmp, half, theirs, registered, met, installs, edits>>

\* A configuration that is written in place.
MakeInPlace(p) ==
  /\ At(p, "read") /\ Now(p) \notin InPlace
  /\ disk' = [disk EXCEPT ![Now(p)] = Torn]
  /\ tmp' = [tmp EXCEPT ![Now(p)] = [state |-> "torn", items |-> EmptyBag, by |-> p]]
  /\ proc' = [proc EXCEPT ![p].at = "made"]
  /\ UNCHANGED <<half, theirs, registered, lost, met, installs, edits>>

\* write_atomic: a temporary file that is there is taken for an earlier run's and
\* removed, and a new one made.
Make(p) ==
  /\ At(p, "read") /\ Now(p) \notin InPlace
  /\ met' = IF tmp[Now(p)].by = Nobody THEN met ELSE met \cup {Now(p)}
  /\ tmp' = [tmp EXCEPT ![Now(p)] = [state |-> "torn", items |-> EmptyBag, by |-> p]]
  /\ proc' = [proc EXCEPT ![p].at = "made"]
  /\ UNCHANGED <<disk, half, theirs, registered, lost, installs, edits>>

\* It is written and synced, wherever it is by now.
Write(p) ==
  /\ At(p, "made")
  /\ LET f == Now(p)
     IN /\ tmp' = IF tmp[f].by = p
                  THEN [tmp EXCEPT ![f].state = "whole", ![f].items = proc[p].next] ELSE tmp
        /\ disk' = IF half[f] = p
                   THEN [disk EXCEPT ![f] = File("whole", proc[p].next)] ELSE disk
        /\ half' = IF half[f] = p THEN [half EXCEPT ![f] = Nobody] ELSE half
  /\ proc' = [proc EXCEPT ![p].at = "written"]
  /\ UNCHANGED <<theirs, registered, lost, met, installs, edits>>

\* Whatever is at the temporary name takes the file's place.
Rename(p) ==
  /\ At(p, "written") /\ Now(p) \notin InPlace
  /\ LET f == Now(p)
     IN /\ tmp[f].state # "none"
        /\ disk' = [disk EXCEPT ![f] = File(tmp[f].state, tmp[f].items)]
        /\ half' = [half EXCEPT ![f] = IF tmp[f].state = "torn" THEN tmp[f].by ELSE Nobody]
        /\ tmp' = [tmp EXCEPT ![f] = Unmade]
        /\ Replaces(f, tmp[f].by = p /\ disk[f] = proc[p].read)
        /\ registered' = IF f = "global_mcp" THEN registered \cup {proc[p].repo} ELSE registered
  /\ Onward(p)
  /\ UNCHANGED <<theirs, met, installs, edits>>

Next ==
  \/ \E f \in Files : Add(f) \/ Extend(f) \/ Join(f) \/ Garble(f)
  \/ \E p \in Procs :
       \/ \E host \in Hosts, repo \in Repos : Start(p, host, repo)
       \/ ChooseKey(p) \/ Read(p) \/ Truncate(p) \/ Fill(p)
       \/ Make(p) \/ Write(p) \/ Rename(p) \/ Fail(p)

Spec == Init /\ [][Next]_vars

-----------------------------------------------------------------------------
(* Properties *)

TypeOK ==
  /\ \A f \in Files :
       /\ disk[f].state \in {"absent", "whole", "torn", "unreadable"}
       /\ tmp[f].state \in {"none", "torn", "whole"}
       /\ tmp[f].by \in Procs \cup {Nobody} /\ half[f] \in Procs \cup {Nobody}
  /\ \A p \in Procs : proc[p].at \in {"idle", "next", "read", "made", "written"}
  /\ registered \subseteq Repos /\ lost \subseteq Files /\ met \subseteq Files
  /\ installs \in 0..MaxInstalls /\ edits \in 0..MaxEdits

OursIn(f, items) ==
  {item \in DOMAIN items :
     CASE f \in HookFiles -> IsOurs(item)
       [] f \in Servers -> item.key = Product
       [] OTHER -> item = Line("ours")}

OneIn(f, items) == \A x, y \in OursIn(f, items) : x = y /\ items[x] = 1

KeepsIn(f, items, thing) ==
  IF f \in Servers
  THEN \E s \in DOMAIN items : s.key = thing.key /\ s.repo = thing.repo /\ s.more
  ELSE BagIn(thing, items)

\* A command of the developer's in an entry that is ours too.
Mixed == {Entry("hooks", {"ours", "theirs"})}

Kept(f, things) == disk[f].state = "whole" => \A thing \in things : KeepsIn(f, disk[f].items, thing)

\* What the developer has in a file of its own stays there, through every install that
\* merged what it replaced, whatever else of ours was there (install.rs, merge_hooks:
\* "without disturbing anything else in it").
TheirsKept == \A f \in Files \ lost : Kept(f, theirs[f] \ Mixed)

\* And so does what the developer adds to an entry of ours.
JoinedKept == \A f \in HookFiles \ lost : Kept(f, theirs[f] \cap Mixed)

\* However often and by however many processes it is installed, there is one of our
\* entries (merge_hooks: "replaced, never duplicated").
OneOfOurs == \A f \in Files : OneIn(f, disk[f].items)

\* A configuration is never left half written, unless two processes had its temporary
\* file (write_atomic: "a crash mid-write can never leave a half-written config").
NeverHalf == \A f \in Files \ (InPlace \cup met) : disk[f].state # "torn"

\* Repositories of one name have a registration each (per_machine: "neither replaces the
\* other").
RegistrationsKept ==
  "global_mcp" \notin lost /\ disk["global_mcp"].state = "whole" =>
    \A repo \in registered : \E s \in DOMAIN disk["global_mcp"].items : s.repo = repo
=============================================================================
