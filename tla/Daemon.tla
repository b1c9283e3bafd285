------------------------------- MODULE Daemon -------------------------------
(***************************************************************************)
(* The daemon's life and its clients (crates/acyclic/src/server.rs run and *)
(* serve_until_done, client.rs, ipc.rs, hook.rs).  One daemon is meant to  *)
(* serve a store.  Nothing but the socket's path tells a client whether it *)
(* runs, and a starting daemon sweeps what it takes for a dead one's       *)
(* leavings, unlinks the path and binds its own socket before it tries the *)
(* store's lock.  The model is of the Unix build.                          *)
(*                                                                         *)
(* A process of the pool Daemons lives once.  A client is a process that   *)
(* runs one verb at a time: an interactive verb or an MCP tool, which may  *)
(* spawn a daemon and wait for it; a session-start hook, which may spawn   *)
(* one but hardly waits; any other hook, which does neither.  `amiss`      *)
(* remembers what has gone wrong so far.  Operators that describe a fault  *)
(* the code does not have stand before the definition they would replace.  *)
(***************************************************************************)
EXTENDS Integers, FiniteSets

CONSTANTS
  Daemons,    \* the daemon processes there can be
  Clients,    \* the clients, also the sessions they start and the forks they cut
  Nobody,     \* no process
  Uses,       \* per client: the verbs it uses
  MaxMishaps  \* bound: the kinds of mishap in one behaviour

ASSUME DaemonsAssumption == Nobody \notin Daemons \cup Clients
ASSUME MaxMishapsAssumption == MaxMishaps \in Nat

Mishaps ==
  { "twins",    \* a daemon was spawned while another had not bound its socket yet
    "after",    \* a daemon was spawned while another, off its socket, was leaving
    "orphan",   \* a daemon was spawned while another served off the path
    "noopen",   \* a daemon could not open the store, though nobody held it
    "crash",    \* a daemon died
    "stop",     \* a client stopped the daemon
    "midway" }  \* a daemon that was about to idle out was asked for something

\* How a verb treats a missing daemon (Spawn).
Interactive == "allowed"
Bounded == "bounded"
Never == "never"

\* What is asked, and by whom: SessionStart and SessionEnd are hooks' business,
\* a checkpoint is a verb's or a hook's.
Verbs == {<<"checkpoint", Interactive>>, <<"checkpoint", Never>>,
          <<"start", Bounded>>, <<"end", Never>>, <<"fork", Interactive>>,
          <<"rewind", Interactive>>, <<"stop", Interactive>>}

NoVerb == <<"none", Never>>

ASSUME UsesAssumption == Uses \in [Clients -> SUBSET Verbs]

Lives == {"unborn", "started", "swept", "bound", "serving", "idling",
          "draining", "leaving", "dead"}

VARIABLES
  proc,      \* per daemon: where in its life it is
  told,      \* the daemons that a Stop told to leave, speculation first
  socket,    \* whose socket the path names, and pid the pidfile; it may be dead
  lock,      \* the daemon that has the store open
  journal,   \* the daemon whose rewind the journal is about
  trees,     \* the forks whose directory is there
  live,      \* per daemon: `live_sessions`
  forks,     \* per daemon: its `forks`
  at,        \* per client: where in its verb it is
  verb,      \* per client: the verb
  peer,      \* per client: the daemon it is connected to
  child,     \* per client: the daemon it spawned
  task,      \* per client: what the server's task does with its request
  open,      \* sessions that were told they started and have not asked to end
  amiss      \* the mishaps so far

files == <<socket, lock, journal, trees>>
tables == <<live, forks>>
clients == <<at, verb, peer, child, task>>
vars == <<proc, told, files, tables, clients, open, amiss>>

Init ==
  /\ proc = [d \in Daemons |-> "unborn"] /\ told = {}
  /\ socket = Nobody /\ lock = Nobody /\ journal = Nobody
  /\ trees = {}
  /\ live = [d \in Daemons |-> {}] /\ forks = [d \in Daemons |-> {}]
  /\ at = [c \in Clients |-> "away"]
  /\ verb = [c \in Clients |-> NoVerb]
  /\ peer = [c \in Clients |-> Nobody] /\ child = [c \in Clients |-> Nobody]
  /\ task = [c \in Clients |-> "none"]
  /\ open = {}
  /\ amiss = {}

\* A process and what it had in memory are gone.
Dies(d) ==
  /\ proc' = [proc EXCEPT ![d] = "dead"]
  /\ told' = told \ {d}
  /\ live' = [live EXCEPT ![d] = {}]
  /\ forks' = [forks EXCEPT ![d] = {}]

\* Ways in which a daemon starts beside another one.
Beside == {"twins", "after", "orphan"}

Suffers(mishaps) ==
  /\ amiss' = amiss \cup mishaps
  /\ mishaps # {} => Cardinality(amiss') <= MaxMishaps

Alive(d) == proc[d] \notin {"unborn", "dead"}

\* A listener that is dropped as soon as the loop ends.
ListensInLoop(d) == proc[d] \in {"bound", "serving", "idling"}

\* A listener that is bound once the store is open.
ListensOnceOpen(d) == proc[d] \in {"serving", "idling", "draining"}

\* The listener exists from the bind until serve_until_done has returned.
Listens(d) == proc[d] \in {"bound", "serving", "idling", "draining"}

\* Clients connect as long as the path names a socket that listens.
Connectable == socket # Nobody /\ Listens(socket)

\* The next process of the pool.
Newborn == CHOOSE d \in Daemons : proc[d] = "unborn"

\* The clients with a connection to a daemon, requests of clients that have left
\* included.
Connected(d) == {c \in Clients : peer[c] = d}

\* How the daemons that live now make a spawned one a second one.
Company ==
  {m \in Beside : \E d \in Daemons :
     \/ m = "twins" /\ proc[d] \in {"started", "swept"}
     \/ m = "after" /\ proc[d] = "leaving"
     \/ m = "orphan" /\ socket # d /\ Listens(d)}

-----------------------------------------------------------------------------
(* Clients *)

\* The client's verb is over; a task may go on without it.
Ends(c) ==
  /\ at' = [at EXCEPT ![c] = "away"]
  /\ child' = [child EXCEPT ![c] = Nobody]

\* The connection is closed.
Closes(c) ==
  /\ peer' = [peer EXCEPT ![c] = Nobody]
  /\ task' = [task EXCEPT ![c] = "none"]
  /\ verb' = [verb EXCEPT ![c] = NoVerb]

Asks(c) ==
  /\ at' = [at EXCEPT ![c] = "asking"]
  /\ peer' = [peer EXCEPT ![c] = socket]
  /\ task' = [task EXCEPT ![c] = "sent"]

\* What a client may want: a session starts and ends once.
Wants(c, v) ==
  /\ v[1] = "start" => c \notin open
  /\ v[1] = "end" => c \in open

\* Client::connect, when a daemon answers,
Connect(c) ==
  /\ at[c] = "away" /\ task[c] = "none" /\ Connectable
  /\ \E v \in Uses[c] :
       /\ Wants(c, v)
       /\ verb' = [verb EXCEPT ![c] = v]
       /\ open' = IF v[1] = "end" THEN open \ {c} ELSE open
       /\ Suffers(IF v[1] = "stop" THEN {"stop"} ELSE {})
  /\ Asks(c)
  /\ UNCHANGED <<proc, told, files, tables, child>>

\* when none does and the verb may spawn one,
Spawn(c) ==
  /\ at[c] = "away" /\ task[c] = "none" /\ ~ Connectable
  /\ \E v \in Uses[c] :
       /\ v[2] # Never /\ Wants(c, v)
       /\ verb' = [verb EXCEPT ![c] = v]
       /\ Suffers(Company \cup IF v[1] = "stop" THEN {"stop"} ELSE {})
  /\ \E d \in Daemons : proc[d] = "unborn"
  /\ child' = [child EXCEPT ![c] = Newborn]
  /\ proc' = [proc EXCEPT ![Newborn] = "started"]
  /\ at' = [at EXCEPT ![c] = "waiting"]
  /\ UNCHANGED <<told, files, tables, peer, task, open>>

\* and when it may not: a session ends without a word to anybody.
NoDaemon(c) ==
  /\ at[c] = "away" /\ task[c] = "none" /\ ~ Connectable
  /\ open' = open \ {c}
  /\ UNCHANGED <<proc, told, files, tables, clients, amiss>>

\* wait_for_socket: each round connects and pings.  A daemon that listens and
\* does not serve yet leaves the ping unanswered.
Ping(c) ==
  /\ at[c] = "waiting" /\ Connectable /\ proc[socket] \in {"serving", "idling"}
  /\ Asks(c)
  /\ UNCHANGED <<proc, told, files, tables, verb, child, open, amiss>>

\* wait_for_socket: the child has exited, whoever may be serving by now.
ChildExited(c) ==
  /\ at[c] = "waiting" /\ ~ Alive(child[c])
  /\ Ends(c)
  /\ verb' = [verb EXCEPT ![c] = NoVerb]
  /\ UNCHANGED <<proc, told, files, tables, peer, task, open, amiss>>

\* The session-start hook does not wait longer than its bound.
NotWaiting(c) ==
  /\ at[c] = "waiting" /\ verb[c][2] = Bounded
  /\ Ends(c)
  /\ verb' = [verb EXCEPT ![c] = NoVerb]
  /\ UNCHANGED <<proc, told, files, tables, peer, task, open, amiss>>

\* A hook's deadline ends its call; the server's task goes on.
GiveUp(c) ==
  /\ at[c] = "asking" /\ verb[c][2] # Interactive
  /\ Ends(c)
  /\ UNCHANGED <<proc, told, files, tables, verb, peer, task, open, amiss>>

\* parse_response: the reply; the verb ends and closes its connection.
Reply(c) ==
  /\ task[c] \in {"done", "refused"}
  /\ Ends(c) /\ Closes(c)
  /\ open' = IF at[c] = "asking" /\ task[c] = "done" /\ verb[c][1] = "start"
             THEN open \cup {c} ELSE open
  /\ UNCHANGED <<proc, told, files, tables, amiss>>

\* parse_response: a connection that closes without a reply.
EndOfFile(c) ==
  /\ peer[c] # Nobody /\ ~ Alive(peer[c])
  /\ Ends(c) /\ Closes(c)
  /\ UNCHANGED <<proc, told, files, tables, open, amiss>>

-----------------------------------------------------------------------------
(* A daemon's life *)

\* sweep_stale_dry_session, recover, sweep_stale_forks, sweep_stale_runs: the
\* leavings of a dead daemon, or of a live one.
Sweep(d) ==
  /\ proc[d] = "started"
  /\ proc' = [proc EXCEPT ![d] = "swept"]
  /\ journal' = Nobody
  /\ trees' = {}
  /\ UNCHANGED <<told, socket, lock, tables, clients, open, amiss>>

\* A bind to a path of the process's own.
BindAside(d) ==
  /\ proc[d] = "swept"
  /\ proc' = [proc EXCEPT ![d] = "bound"]
  /\ UNCHANGED <<told, socket, lock, journal, trees, tables, clients, open, amiss>>

\* bind_socket: ipc::cleanup unlinks the path, whoever listens there, so the bind
\* succeeds.
Bind(d) ==
  /\ proc[d] = "swept"
  /\ proc' = [proc EXCEPT ![d] = "bound"]
  /\ socket' = d
  /\ UNCHANGED <<told, lock, journal, trees, tables, clients, open, amiss>>

\* Store::open without a lock.
OpenAnyway(d) ==
  /\ proc[d] = "bound"
  /\ proc' = [proc EXCEPT ![d] = "serving"]
  /\ lock' = d
  /\ UNCHANGED <<told, socket, journal, trees, tables, clients, open,
                 amiss>>

\* Store::open, Index::open and the pipeline's thread.
Open(d) ==
  /\ proc[d] = "bound" /\ lock = Nobody
  /\ proc' = [proc EXCEPT ![d] = "serving"]
  /\ lock' = d
  /\ UNCHANGED <<told, socket, journal, trees, tables, clients, open,
                 amiss>>

\* The store is open elsewhere, or does not open: `run` returns and leaves its
\* socket and its pidfile.
OpenFails(d) ==
  /\ proc[d] = "bound"
  /\ Dies(d)
  /\ Suffers(IF lock = Nobody THEN {"noopen"} ELSE {})
  /\ UNCHANGED <<files, clients, open>>

\* serve_until_done: a connection is taken from the listener.
Accept(c) ==
  /\ task[c] = "sent" /\ peer[c] # Nobody
  /\ proc[peer[c]] \in {"serving", "idling"}
  /\ task' = [task EXCEPT ![c] = "accepted"]
  /\ UNCHANGED <<proc, told, files, tables, at, verb, peer, child, open, amiss>>

\* An idle exit that does not look at the sessions.
IdleTickBlindly(d) ==
  /\ proc[d] = "serving" /\ Connected(d) = {}
  /\ proc' = [proc EXCEPT ![d] = "idling"]
  /\ UNCHANGED <<told, files, tables, clients, open, amiss>>

\* idle_for looks at the clock and at the sessions,
IdleTick(d) ==
  /\ proc[d] = "serving" /\ live[d] = {}
  /\ proc' = [proc EXCEPT ![d] = "idling"]
  /\ UNCHANGED <<told, files, tables, clients, open, amiss>>

\* and then at the forks and the rest.  A request that came in between does not
\* stop it.
IdleExit(d) ==
  /\ proc[d] = "idling"
  /\ IF forks[d] = {}
     THEN /\ proc' = [proc EXCEPT ![d] = "draining"]
          /\ Suffers(IF Connected(d) # {} THEN {"midway"} ELSE {})
     ELSE /\ proc' = [proc EXCEPT ![d] = "serving"]
          /\ UNCHANGED amiss
  /\ UNCHANGED <<told, files, tables, clients, open>>

\* The loop sees that a Stop was served, or a signal.
Leave(d) ==
  /\ proc[d] \in {"serving", "idling"}
  /\ proc' = [proc EXCEPT ![d] = "draining"]
  /\ Suffers(IF d \in told THEN {} ELSE {"stop"})
  /\ UNCHANGED <<told, files, tables, clients, open>>

\* The pipeline answers the shutdown, serve_until_done returns and drops the
\* listener, the pipeline's thread ends and closes the store.
Drain(d) ==
  /\ proc[d] = "draining"
  /\ proc' = [proc EXCEPT ![d] = "leaving"]
  /\ lock' = IF lock = d THEN Nobody ELSE lock
  /\ \A c \in Connected(d) : task[c] # "swapping"
  /\ UNCHANGED <<told, socket, journal, trees, tables, clients, open,
                 amiss>>

\* A thread that also waits for the connections nobody accepted.
ExitWaits(d) ==
  /\ proc[d] = "leaving" /\ Connected(d) = {}
  /\ Dies(d)
  /\ socket' = Nobody
  /\ UNCHANGED <<lock, journal, trees, clients, open, amiss>>

\* The speculation thread ends once it was told to or nobody holds its channel,
\* which the tasks of open connections do.  Then the path and the pidfile go,
\* whose ever they are by now.
Exit(d) ==
  /\ proc[d] = "leaving"
  /\ d \in told \/ \A c \in Connected(d) : task[c] = "sent"
  /\ Dies(d)
  /\ socket' = Nobody
  /\ UNCHANGED <<lock, journal, trees, clients, open, amiss>>

\* The process dies; the system frees the lock and nothing else.
Crash(d) ==
  /\ Alive(d)
  /\ Dies(d)
  /\ lock' = IF lock = d THEN Nobody ELSE lock
  /\ Suffers({"crash"})
  /\ UNCHANGED <<socket, journal, trees, clients, open>>

-----------------------------------------------------------------------------
(* Requests.  The task of a connection lives as long as its process. *)

Answers(c, what) == task' = [task EXCEPT ![c] = what]

Takes(c, d, what) ==
  /\ peer[c] = d /\ Alive(d) /\ task[c] = "accepted" /\ verb[c][1] = what

\* The pipeline serves one request at a time, those it was sent before the
\* shutdown included.
Serves(d) ==
  /\ proc[d] \in {"serving", "idling", "draining"}
  /\ \A c \in Clients : peer[c] = d => task[c] # "swapping"

\* The pipeline is gone, or the shutdown is ahead of the request.
Gone(d) == proc[d] \in {"draining", "leaving"}

Checkpoint(c, d) ==
  /\ Takes(c, d, "checkpoint") /\ Serves(d)
  /\ Answers(c, "done")
  /\ UNCHANGED <<proc, told, files, tables, at, verb, peer, child, open,
                 amiss>>

\* A session is live before the pipeline hears of it.  (What waits for nothing
\* does not wait for the bound on mishaps either.)
SessionStart(c, d) ==
  /\ Takes(c, d, "start")
  /\ live' = [live EXCEPT ![d] = @ \cup {c}]
  /\ \/ Serves(d) /\ Answers(c, "done")
     \/ Gone(d) /\ Answers(c, "refused")
  /\ amiss' = IF proc[d] = "idling" THEN amiss \cup {"midway"} ELSE amiss
  /\ UNCHANGED <<proc, told, files, forks, at, verb, peer, child, open>>

SessionEnd(c, d) ==
  /\ Takes(c, d, "end")
  /\ live' = [live EXCEPT ![d] = @ \ {c}]
  /\ \/ Serves(d) /\ Answers(c, "done")
     \/ Gone(d) /\ Answers(c, "refused")
  /\ UNCHANGED <<proc, told, files, forks, at, verb, peer, child, open, amiss>>

Fork(c, d) ==
  /\ Takes(c, d, "fork") /\ Serves(d)
  /\ forks' = [forks EXCEPT ![d] = @ \cup {c}]
  /\ trees' = trees \cup {c}
  /\ Answers(c, "done")
  /\ UNCHANGED <<proc, told, socket, lock, journal, live, at, verb, peer,
                 child, open, amiss>>

\* A rewind writes its journal, swaps the tree and removes the journal.
Swap(c, d) ==
  /\ Takes(c, d, "rewind") /\ Serves(d)
  /\ Answers(c, "swapping")
  /\ journal' = d
  /\ UNCHANGED <<proc, told, socket, lock, trees, tables, at, verb, peer,
                 child, open, amiss>>

Swapped(c, d) ==
  /\ peer[c] = d /\ Alive(d) /\ task[c] = "swapping"
  /\ Answers(c, "done")
  /\ journal' = Nobody
  /\ UNCHANGED <<proc, told, socket, lock, trees, tables, at, verb, peer,
                 child, open, amiss>>

\* Op::Stop: speculation ends, forks go, and the accept loop is notified.
Stop(c, d) ==
  /\ Takes(c, d, "stop")
  /\ told' = told \cup {d}
  /\ forks' = [forks EXCEPT ![d] = {}]
  /\ trees' = {}
  /\ Answers(c, "done")
  /\ UNCHANGED <<proc, socket, lock, journal, live, at, verb, peer, child,
                 open, amiss>>

Refuse(c, d) ==
  /\ \E what \in {"checkpoint", "fork", "rewind"} : Takes(c, d, what)
  /\ Gone(d)
  /\ Answers(c, "refused")
  /\ UNCHANGED <<proc, told, files, tables, at, verb, peer, child, open, amiss>>

ClientStep(c) ==
  \/ Connect(c) \/ Spawn(c) \/ NoDaemon(c) \/ Ping(c) \/ ChildExited(c) \/ NotWaiting(c) \/ GiveUp(c)
  \/ Reply(c) \/ EndOfFile(c)

ServerStep(c, d) ==
  \/ Checkpoint(c, d) \/ SessionStart(c, d) \/ SessionEnd(c, d) \/ Fork(c, d)
  \/ Swap(c, d) \/ Swapped(c, d) \/ Stop(c, d) \/ Refuse(c, d)

LifeStep(d) ==
  \/ Sweep(d) \/ Bind(d) \/ Open(d) \/ OpenFails(d) \/ IdleTick(d) \/ IdleExit(d)
  \/ Leave(d) \/ Drain(d) \/ Exit(d) \/ Crash(d)

Next ==
  \/ \E c \in Clients : ClientStep(c) \/ Accept(c)
  \/ \E c \in Clients, d \in Daemons : ServerStep(c, d)
  \/ \E d \in Daemons : LifeStep(d)

\* What each process does by itself: a client reads its reply, or pings and looks
\* at its child; the tasks serve what was sent; a daemon starts up, and leaves
\* when told.  Nobody has to ask, to stop, to time out, to idle or to die.
ClientGoesOn(c) == Ping(c) \/ ChildExited(c) \/ Reply(c) \/ EndOfFile(c)

TaskGoesOn(c) == Accept(c) \/ \E d \in Daemons : ServerStep(c, d)

DaemonGoesOn(d) ==
  \/ Sweep(d) \/ Bind(d) \/ Open(d) \/ (lock # Nobody /\ OpenFails(d))
  \/ (d \in told /\ Leave(d)) \/ Drain(d) \/ Exit(d)

Fairness ==
  /\ \A c \in Clients : WF_vars(ClientGoesOn(c)) /\ WF_vars(TaskGoesOn(c))
  /\ \A d \in Daemons : WF_vars(DaemonGoesOn(d))

Spec == Init /\ [][Next]_vars /\ Fairness

-----------------------------------------------------------------------------
(* Properties *)

\* Every variable has a value of its type, and a client has a connection exactly
\* while the server has a task for it.
TypeOK ==
  /\ proc \in [Daemons -> Lives] /\ told \subseteq Daemons
  /\ {socket, lock, journal} \subseteq Daemons \cup {Nobody}
  /\ trees \subseteq Clients
  /\ live \in [Daemons -> SUBSET Clients] /\ forks \in [Daemons -> SUBSET Clients]
  /\ at \in [Clients -> {"away", "waiting", "asking"}]
  /\ verb \in [Clients -> Verbs \cup {NoVerb}]
  /\ peer \in [Clients -> Daemons \cup {Nobody}]
  /\ child \in [Clients -> Daemons \cup {Nobody}]
  /\ task \in [Clients -> {"none", "sent", "accepted", "swapping", "done", "refused"}]
  /\ open \subseteq Clients
  /\ amiss \subseteq Mishaps
  /\ \A c \in Clients :
       /\ peer[c] = Nobody <=> task[c] = "none"
       /\ at[c] = "asking" => peer[c] # Nobody
       /\ at[c] = "waiting" => child[c] # Nobody /\ peer[c] = Nobody

\* A store is served by one daemon at a time, whatever goes wrong: a second one
\* takes the socket and fails on the store (Store::open).
OneServes ==
  \A d, e \in Daemons :
    {proc[d], proc[e]} \subseteq {"serving", "idling", "draining"} => d = e

\* The daemon that serves is the one clients reach, unless a second one was
\* spawned beside it: between the bind and the exit nothing else moves the path
\* (bind_socket, ipc::cleanup).
Reachable ==
  \A d \in Daemons :
    proc[d] \in {"serving", "idling"} => socket = d \/ amiss \cap Beside # {}

InFlight(c, d) == task[c] = "swapping" /\ peer[c] = d /\ Alive(d)

\* A rewind in flight has its journal to itself: no other rewind writes there, and
\* the one that recovers over it (run, rewind::recover) is a daemon spawned while
\* another had not bound its socket or had lost the path.  None is spawned while the
\* path names the daemon that swaps, though it be leaving.
SwapsUndisturbed ==
  [][\A c \in Clients, d \in Daemons :
       InFlight(c, d) /\ InFlight(c, d)' =>
         /\ journal' # journal =>
              /\ \E e \in Daemons : proc[e] = "started" /\ proc'[e] = "swept"
              /\ amiss \cap {"twins", "orphan"} # {}
         /\ (\E e \in Daemons : proc[e] = "unborn" /\ proc'[e] # "unborn")
              => socket # d]_vars

\* A rewind in flight keeps its journal, whoever starts: recover is there for one
\* "that a crash interrupted" (run, the comment before recover).
JournalKept == \A c \in Clients, d \in Daemons : InFlight(c, d) => journal = d

\* A session that was told it started has a daemon that knows of it until it
\* ends, unless the daemon was stopped or died, or was asked for something while
\* it was about to idle out (idle_for: "the daemon does not idle out while one is open").
SessionsServed ==
  \A c \in open :
    \/ \E d \in Daemons : Alive(d) /\ c \in live[d]
    \/ amiss \cap {"stop", "crash", "midway"} # {}

\* A client that spawned a daemon gets an answer out of it or sees it dead, when
\* nothing goes wrong: it does not wait for ever (wait_for_socket).
WaitEnds ==
  \A c \in Clients : at[c] = "waiting" ~> (at[c] # "waiting" \/ amiss # {})

\* A daemon that has left its loop goes: the speculation thread waits for
\* connections, and connections end because their requests are refused (run).
LeavingEnds ==
  \A d \in Daemons : proc[d] = "leaving" ~> proc[d] = "dead"

\* A starting daemon refuses itself when another one listens on the path
\* (server.rs: "a live one refuses the second daemon via bind failure").
SecondIsRefused ==
  [][\A d \in Daemons : socket = d /\ Listens(d) =>
       socket' = d \/ ~ Listens(d)' \/ proc[d] = "draining"]_vars
=============================================================================
