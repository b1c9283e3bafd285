---------------------------- MODULE DaemonProofs ----------------------------
(***************************************************************************)
(* What TLAPS proves of Daemon, for any daemons, any clients, any verbs    *)
(* they use and any bound on the mishaps: one daemon serves, it is the one *)
(* that clients reach, its swaps are left alone and the sessions that have *)
(* started have a daemon.  Each needs an invariant of its own.             *)
(***************************************************************************)
EXTENDS Daemon, TLAPS

\* A process that has not been born is there to be chosen.
LEMMA NewbornIs ==
  ASSUME NEW d \in Daemons, proc[d] = "unborn"
  PROVE  Newborn \in Daemons /\ proc[Newborn] = "unborn"
BY DEF Newborn

-----------------------------------------------------------------------------
(* Types *)

\* The types and the pairing of connections and tasks hold at the start.
LEMMA InitTypes == Init => TypeOK
BY DaemonsAssumption DEF Init, TypeOK, Lives, Mishaps

\* Every step keeps them.
LEMMA StepTypes == TypeOK /\ [Next]_vars => TypeOK'
<1> SUFFICES ASSUME TypeOK, [Next]_vars PROVE TypeOK'
  OBVIOUS
<1> USE DaemonsAssumption, UsesAssumption DEF TypeOK, Lives
<1>1. ASSUME NEW c \in Clients, Connect(c) PROVE TypeOK'
  BY <1>1 DEF Connect, Asks, Suffers, Connectable, Wants, files, tables, Mishaps
<1>2. ASSUME NEW c \in Clients, Spawn(c) PROVE TypeOK'
  <2>1. Company \subseteq Mishaps
    BY DEF Company, Beside, Mishaps
  <2>2. amiss' \subseteq Mishaps
    BY <1>2, <2>1 DEF Spawn, Suffers, Mishaps
  <2> QED  BY <1>2, <2>2, NewbornIs DEF Spawn, files, tables
<1>3. ASSUME NEW c \in Clients, NoDaemon(c) PROVE TypeOK'
  BY <1>3 DEF NoDaemon, files, tables, clients
<1>4. ASSUME NEW c \in Clients, Ping(c) PROVE TypeOK'
  BY <1>4 DEF Ping, Asks, Connectable, files, tables
<1>5. ASSUME NEW c \in Clients, ChildExited(c) PROVE TypeOK'
  BY <1>5 DEF ChildExited, Ends, files, tables
<1>6. ASSUME NEW c \in Clients, NotWaiting(c) PROVE TypeOK'
  BY <1>6 DEF NotWaiting, Ends, files, tables
<1>7. ASSUME NEW c \in Clients, GiveUp(c) PROVE TypeOK'
  BY <1>7 DEF GiveUp, Ends, files, tables
<1>8. ASSUME NEW c \in Clients, Reply(c) PROVE TypeOK'
  BY <1>8 DEF Reply, Ends, Closes, files, tables
<1>9. ASSUME NEW c \in Clients, EndOfFile(c) PROVE TypeOK'
  BY <1>9 DEF EndOfFile, Ends, Closes, files, tables
<1>10. ASSUME NEW c \in Clients, Accept(c) PROVE TypeOK'
  BY <1>10 DEF Accept, files, tables
<1>11. ASSUME NEW c \in Clients, NEW d \in Daemons, Checkpoint(c, d) PROVE TypeOK'
  BY <1>11 DEF Checkpoint, Takes, Serves, Answers, files, tables
<1>12. ASSUME NEW c \in Clients, NEW d \in Daemons, SessionStart(c, d) PROVE TypeOK'
  BY <1>12 DEF SessionStart, Takes, Serves, Gone, Answers, files, tables, Mishaps
<1>13. ASSUME NEW c \in Clients, NEW d \in Daemons, SessionEnd(c, d) PROVE TypeOK'
  BY <1>13 DEF SessionEnd, Takes, Serves, Gone, Answers, files, tables
<1>14. ASSUME NEW c \in Clients, NEW d \in Daemons, Fork(c, d) PROVE TypeOK'
  BY <1>14 DEF Fork, Takes, Serves, Answers
<1>15. ASSUME NEW c \in Clients, NEW d \in Daemons, Swap(c, d) PROVE TypeOK'
  BY <1>15 DEF Swap, Takes, Serves, Answers, tables
<1>16. ASSUME NEW c \in Clients, NEW d \in Daemons, Swapped(c, d) PROVE TypeOK'
  BY <1>16 DEF Swapped, Answers, tables
<1>17. ASSUME NEW c \in Clients, NEW d \in Daemons, Stop(c, d) PROVE TypeOK'
  BY <1>17 DEF Stop, Takes, Answers
<1>18. ASSUME NEW c \in Clients, NEW d \in Daemons, Refuse(c, d) PROVE TypeOK'
  BY <1>18 DEF Refuse, Takes, Gone, Answers, files, tables
<1>19. ASSUME NEW d \in Daemons, Sweep(d) PROVE TypeOK'
  BY <1>19 DEF Sweep, tables, clients
<1>20. ASSUME NEW d \in Daemons, Bind(d) PROVE TypeOK'
  BY <1>20 DEF Bind, tables, clients
<1>21. ASSUME NEW d \in Daemons, Open(d) PROVE TypeOK'
  BY <1>21 DEF Open, tables, clients
<1>22. ASSUME NEW d \in Daemons, OpenFails(d) PROVE TypeOK'
  BY <1>22 DEF OpenFails, Dies, Suffers, files, clients, Mishaps
<1>23. ASSUME NEW d \in Daemons, IdleTick(d) PROVE TypeOK'
  BY <1>23 DEF IdleTick, files, tables, clients
<1>24. ASSUME NEW d \in Daemons, IdleExit(d) PROVE TypeOK'
  <2>1. proc' \in [Daemons -> Lives]
    BY <1>24 DEF IdleExit
  <2>2. amiss' \subseteq amiss \cup {"midway"}
    BY <1>24 DEF IdleExit, Suffers
  <2>3. amiss' \subseteq Mishaps
    BY <2>2 DEF Mishaps
  <2> QED  BY <1>24, <2>1, <2>3 DEF IdleExit, files, tables, clients
<1>25. ASSUME NEW d \in Daemons, Leave(d) PROVE TypeOK'
  BY <1>25 DEF Leave, Suffers, files, tables, clients, Mishaps
<1>26. ASSUME NEW d \in Daemons, Drain(d) PROVE TypeOK'
  BY <1>26 DEF Drain, Connected, tables, clients
<1>27. ASSUME NEW d \in Daemons, Exit(d) PROVE TypeOK'
  BY <1>27 DEF Exit, Dies, Connected, clients
<1>28. ASSUME NEW d \in Daemons, Crash(d) PROVE TypeOK'
  BY <1>28 DEF Crash, Dies, Suffers, clients, Mishaps
<1>29. CASE UNCHANGED vars
  BY <1>29 DEF vars, files, tables, clients
<1> QED
  BY <1>1, <1>2, <1>3, <1>4, <1>5, <1>6, <1>7, <1>8, <1>9, <1>10, <1>11, <1>12, <1>13,
     <1>14, <1>15, <1>16, <1>17, <1>18, <1>19, <1>20, <1>21, <1>22, <1>23, <1>24, <1>25,
     <1>26, <1>27, <1>28, <1>29 DEF Next, ClientStep, ServerStep, LifeStep

\* Every variable keeps its type, and a client has a connection exactly while the
\* server has a task for it.
THEOREM TypeCorrect == Spec => []TypeOK
<1> QED  BY InitTypes, StepTypes, PTL DEF Spec

-----------------------------------------------------------------------------
(* One daemon serves *)

\* A daemon that serves or still answers holds the store's lock.
Locked == \A d \in Daemons : proc[d] \in {"serving", "idling", "draining"} => lock = d

\* The lock is taken when it is free and freed by the process that is done.
LEMMA StepLocked == TypeOK /\ Locked /\ [Next]_vars => Locked'
<1> SUFFICES ASSUME TypeOK, Locked, [Next]_vars PROVE Locked'
  OBVIOUS
<1> USE DaemonsAssumption DEF TypeOK, Locked, Alive
<1>1. ASSUME NEW c \in Clients, Connect(c) PROVE Locked'
  BY <1>1 DEF Connect, Asks, Suffers, Connectable, Wants, files, tables
<1>2. ASSUME NEW c \in Clients, Spawn(c) PROVE Locked'
  BY <1>2, NewbornIs DEF Spawn, Suffers, Connectable, files, tables
<1>3. ASSUME NEW c \in Clients, NoDaemon(c) PROVE Locked'
  BY <1>3 DEF NoDaemon, files, tables, clients
<1>4. ASSUME NEW c \in Clients, Ping(c) PROVE Locked'
  BY <1>4 DEF Ping, Asks, Connectable, files, tables
<1>5. ASSUME NEW c \in Clients, ChildExited(c) PROVE Locked'
  BY <1>5 DEF ChildExited, Ends, files, tables
<1>6. ASSUME NEW c \in Clients, NotWaiting(c) PROVE Locked'
  BY <1>6 DEF NotWaiting, Ends, files, tables
<1>7. ASSUME NEW c \in Clients, GiveUp(c) PROVE Locked'
  BY <1>7 DEF GiveUp, Ends, files, tables
<1>8. ASSUME NEW c \in Clients, Reply(c) PROVE Locked'
  BY <1>8 DEF Reply, Ends, Closes, files, tables
<1>9. ASSUME NEW c \in Clients, EndOfFile(c) PROVE Locked'
  BY <1>9 DEF EndOfFile, Ends, Closes, files, tables
<1>10. ASSUME NEW c \in Clients, Accept(c) PROVE Locked'
  BY <1>10 DEF Accept, files, tables
<1>11. ASSUME NEW c \in Clients, NEW d \in Daemons, Checkpoint(c, d) PROVE Locked'
  BY <1>11 DEF Checkpoint, Takes, Serves, Answers, files, tables
<1>12. ASSUME NEW c \in Clients, NEW d \in Daemons, SessionStart(c, d) PROVE Locked'
  BY <1>12 DEF SessionStart, Takes, Serves, Gone, Answers, files, tables
<1>13. ASSUME NEW c \in Clients, NEW d \in Daemons, SessionEnd(c, d) PROVE Locked'
  BY <1>13 DEF SessionEnd, Takes, Serves, Gone, Answers, files, tables
<1>14. ASSUME NEW c \in Clients, NEW d \in Daemons, Fork(c, d) PROVE Locked'
  BY <1>14 DEF Fork, Takes, Serves, Answers
<1>15. ASSUME NEW c \in Clients, NEW d \in Daemons, Swap(c, d) PROVE Locked'
  BY <1>15 DEF Swap, Takes, Serves, Answers, tables
<1>16. ASSUME NEW c \in Clients, NEW d \in Daemons, Swapped(c, d) PROVE Locked'
  BY <1>16 DEF Swapped, Answers, tables
<1>17. ASSUME NEW c \in Clients, NEW d \in Daemons, Stop(c, d) PROVE Locked'
  BY <1>17 DEF Stop, Takes, Answers
<1>18. ASSUME NEW c \in Clients, NEW d \in Daemons, Refuse(c, d) PROVE Locked'
  BY <1>18 DEF Refuse, Takes, Gone, Answers, files, tables
<1>19. ASSUME NEW d \in Daemons, Sweep(d) PROVE Locked'
  BY <1>19 DEF Sweep, tables, clients
<1>20. ASSUME NEW d \in Daemons, Bind(d) PROVE Locked'
  BY <1>20 DEF Bind, tables, clients
<1>21. ASSUME NEW d \in Daemons, Open(d) PROVE Locked'
  BY <1>21 DEF Open, tables, clients
<1>22. ASSUME NEW d \in Daemons, OpenFails(d) PROVE Locked'
  BY <1>22 DEF OpenFails, Dies, Suffers, files, clients
<1>23. ASSUME NEW d \in Daemons, IdleTick(d) PROVE Locked'
  BY <1>23 DEF IdleTick, files, tables, clients
<1>24. ASSUME NEW d \in Daemons, IdleExit(d) PROVE Locked'
  BY <1>24 DEF IdleExit, Suffers, Connected, files, tables, clients
<1>25. ASSUME NEW d \in Daemons, Leave(d) PROVE Locked'
  BY <1>25 DEF Leave, Suffers, files, tables, clients
<1>26. ASSUME NEW d \in Daemons, Drain(d) PROVE Locked'
  BY <1>26 DEF Drain, Connected, tables, clients
<1>27. ASSUME NEW d \in Daemons, Exit(d) PROVE Locked'
  BY <1>27 DEF Exit, Dies, Connected, clients
<1>28. ASSUME NEW d \in Daemons, Crash(d) PROVE Locked'
  BY <1>28 DEF Crash, Dies, Suffers, clients
<1>29. CASE UNCHANGED vars
  BY <1>29 DEF vars, files, tables, clients
<1> QED
  BY <1>1, <1>2, <1>3, <1>4, <1>5, <1>6, <1>7, <1>8, <1>9, <1>10, <1>11, <1>12, <1>13,
     <1>14, <1>15, <1>16, <1>17, <1>18, <1>19, <1>20, <1>21, <1>22, <1>23, <1>24, <1>25,
     <1>26, <1>27, <1>28, <1>29 DEF Next, ClientStep, ServerStep, LifeStep

\* A store is served by one daemon at a time, however many start.
THEOREM OneServesHolds == Spec => []OneServes
<1>1. Init => TypeOK /\ Locked
  BY InitTypes DEF Init, Locked
<1>2. TypeOK /\ Locked /\ [Next]_vars => (TypeOK /\ Locked)'
  BY StepTypes, StepLocked
<1>3. TypeOK /\ Locked => OneServes
  BY DEF Locked, OneServes
<1> QED  BY <1>1, <1>2, <1>3, PTL DEF Spec

-----------------------------------------------------------------------------
(* Nobody starts beside it *)

Unaccompanied == amiss \cap Beside = {}

\* Unless one was started beside another, one process lives, and the path names it
\* once it has bound.
Alone ==
  Unaccompanied =>
    /\ \A d, e \in Daemons : Alive(d) /\ Alive(e) => d = e
    /\ \A d \in Daemons : Listens(d) => socket = d

\* One is started only when the path leads nowhere.
LEMMA StepAlone == TypeOK /\ Alone /\ [Next]_vars => Alone'
<1> SUFFICES ASSUME TypeOK, Alone, [Next]_vars PROVE Alone'
  OBVIOUS
<1> USE DaemonsAssumption DEF TypeOK, Alone, Unaccompanied, Beside, Alive, Listens
<1>1. ASSUME NEW c \in Clients, Connect(c) PROVE Alone'
  BY <1>1 DEF Connect, Asks, Suffers, Connectable, Wants, files, tables
<1>2. ASSUME NEW c \in Clients, Spawn(c) PROVE Alone'
  <2> SUFFICES ASSUME Unaccompanied' PROVE Alone'
    BY DEF Alone
  <2>1. Company \cap amiss' = {} /\ Unaccompanied
    BY <1>2 DEF Spawn, Suffers, Company
  <2>2. ASSUME NEW e \in Daemons, Alive(e) PROVE FALSE
    <3>1. ~ Listens(e) \/ socket = e
      BY <2>1, <2>2 DEF Alone
    <3>2. ~ Listens(e)
      BY <1>2, <3>1 DEF Spawn, Connectable
    <3>3. proc[e] \in {"started", "swept", "leaving"}
      BY <2>2, <3>2 DEF Alive, Listens, Lives
    <3>4. Company # {}
      BY <3>3 DEF Company, Beside
    <3>5. Company \subseteq amiss'
      BY <1>2 DEF Spawn, Suffers
    <3> QED  BY <2>1, <3>4, <3>5
  <2>3. Newborn \in Daemons /\ proc' = [proc EXCEPT ![Newborn] = "started"]
    BY <1>2, NewbornIs DEF Spawn
  <2>4. \A e \in Daemons : Alive(e)' => e = Newborn
    BY <2>2, <2>3 DEF Alive
  <2>5. \A e \in Daemons : ~ Listens(e)'
    BY <2>2, <2>3 DEF Alive, Listens
  <2> QED  BY <2>4, <2>5 DEF Alone
<1>3. ASSUME NEW c \in Clients, NoDaemon(c) PROVE Alone'
  BY <1>3 DEF NoDaemon, files, tables, clients
<1>4. ASSUME NEW c \in Clients, Ping(c) PROVE Alone'
  BY <1>4 DEF Ping, Asks, Connectable, files, tables
<1>5. ASSUME NEW c \in Clients, ChildExited(c) PROVE Alone'
  BY <1>5 DEF ChildExited, Ends, files, tables
<1>6. ASSUME NEW c \in Clients, NotWaiting(c) PROVE Alone'
  BY <1>6 DEF NotWaiting, Ends, files, tables
<1>7. ASSUME NEW c \in Clients, GiveUp(c) PROVE Alone'
  BY <1>7 DEF GiveUp, Ends, files, tables
<1>8. ASSUME NEW c \in Clients, Reply(c) PROVE Alone'
  BY <1>8 DEF Reply, Ends, Closes, files, tables
<1>9. ASSUME NEW c \in Clients, EndOfFile(c) PROVE Alone'
  BY <1>9 DEF EndOfFile, Ends, Closes, files, tables
<1>10. ASSUME NEW c \in Clients, Accept(c) PROVE Alone'
  BY <1>10 DEF Accept, files, tables
<1>11. ASSUME NEW c \in Clients, NEW d \in Daemons, Checkpoint(c, d) PROVE Alone'
  BY <1>11 DEF Checkpoint, Takes, Serves, Answers, files, tables
<1>12. ASSUME NEW c \in Clients, NEW d \in Daemons, SessionStart(c, d) PROVE Alone'
  BY <1>12 DEF SessionStart, Takes, Serves, Gone, Answers, files, tables
<1>13. ASSUME NEW c \in Clients, NEW d \in Daemons, SessionEnd(c, d) PROVE Alone'
  BY <1>13 DEF SessionEnd, Takes, Serves, Gone, Answers, files, tables
<1>14. ASSUME NEW c \in Clients, NEW d \in Daemons, Fork(c, d) PROVE Alone'
  BY <1>14 DEF Fork, Takes, Serves, Answers
<1>15. ASSUME NEW c \in Clients, NEW d \in Daemons, Swap(c, d) PROVE Alone'
  BY <1>15 DEF Swap, Takes, Serves, Answers, tables
<1>16. ASSUME NEW c \in Clients, NEW d \in Daemons, Swapped(c, d) PROVE Alone'
  BY <1>16 DEF Swapped, Answers, tables
<1>17. ASSUME NEW c \in Clients, NEW d \in Daemons, Stop(c, d) PROVE Alone'
  BY <1>17 DEF Stop, Takes, Answers
<1>18. ASSUME NEW c \in Clients, NEW d \in Daemons, Refuse(c, d) PROVE Alone'
  BY <1>18 DEF Refuse, Takes, Gone, Answers, files, tables
<1>19. ASSUME NEW d \in Daemons, Sweep(d) PROVE Alone'
  BY <1>19 DEF Sweep, tables, clients
<1>20. ASSUME NEW d \in Daemons, Bind(d) PROVE Alone'
  BY <1>20 DEF Bind, tables, clients
<1>21. ASSUME NEW d \in Daemons, Open(d) PROVE Alone'
  BY <1>21 DEF Open, tables, clients
<1>22. ASSUME NEW d \in Daemons, OpenFails(d) PROVE Alone'
  BY <1>22 DEF OpenFails, Dies, Suffers, files, clients
<1>23. ASSUME NEW d \in Daemons, IdleTick(d) PROVE Alone'
  BY <1>23 DEF IdleTick, files, tables, clients
<1>24. ASSUME NEW d \in Daemons, IdleExit(d) PROVE Alone'
  BY <1>24 DEF IdleExit, Suffers, Connected, files, tables, clients
<1>25. ASSUME NEW d \in Daemons, Leave(d) PROVE Alone'
  BY <1>25 DEF Leave, Suffers, files, tables, clients
<1>26. ASSUME NEW d \in Daemons, Drain(d) PROVE Alone'
  BY <1>26 DEF Drain, Connected, tables, clients
<1>27. ASSUME NEW d \in Daemons, Exit(d) PROVE Alone'
  BY <1>27 DEF Exit, Dies, Connected, clients
<1>28. ASSUME NEW d \in Daemons, Crash(d) PROVE Alone'
  BY <1>28 DEF Crash, Dies, Suffers, clients
<1>29. CASE UNCHANGED vars
  BY <1>29 DEF vars, files, tables, clients
<1> QED
  BY <1>1, <1>2, <1>3, <1>4, <1>5, <1>6, <1>7, <1>8, <1>9, <1>10, <1>11, <1>12, <1>13,
     <1>14, <1>15, <1>16, <1>17, <1>18, <1>19, <1>20, <1>21, <1>22, <1>23, <1>24, <1>25,
     <1>26, <1>27, <1>28, <1>29 DEF Next, ClientStep, ServerStep, LifeStep

\* The daemon that serves is the one clients reach, unless a second one was started
\* beside it.
THEOREM ReachableHolds == Spec => []Reachable
<1>1. Init => TypeOK /\ Alone
  BY InitTypes DEF Init, Alone, Alive, Listens
<1>2. TypeOK /\ Alone /\ [Next]_vars => (TypeOK /\ Alone)'
  BY StepTypes, StepAlone
<1>3. TypeOK /\ Alone => Reachable
  BY DEF Alone, Unaccompanied, Reachable, Listens
<1> QED  BY <1>1, <1>2, <1>3, PTL DEF Spec

\* A connection leads to a process that has been born, and one rewind at a time swaps
\* the tree, while its daemon serves.
Swapping ==
  /\ \A c \in Clients : peer[c] # Nobody => proc[peer[c]] # "unborn"
  /\ \A c \in Clients :
       task[c] = "swapping" /\ Alive(peer[c]) =>
         /\ proc[peer[c]] \in {"serving", "idling", "draining"}
         /\ \A e \in Clients : task[e] = "swapping" /\ peer[e] = peer[c] => e = c
  /\ \A c \in Clients : task[c] = "swapping" => verb[c][1] = "rewind"

\* The pipeline serves nobody else during a swap, and does not end.
LEMMA StepSwapping == TypeOK /\ Swapping /\ [Next]_vars => Swapping'
<1> SUFFICES ASSUME TypeOK, Swapping, [Next]_vars PROVE Swapping'
  OBVIOUS
<1> USE DaemonsAssumption DEF TypeOK, Swapping, Alive
<1>1. ASSUME NEW c \in Clients, Connect(c) PROVE Swapping'
  BY <1>1 DEF Connect, Asks, Suffers, Connectable, Wants, files, tables, Listens
<1>2. ASSUME NEW c \in Clients, Spawn(c) PROVE Swapping'
  BY <1>2, NewbornIs DEF Spawn, Suffers, Connectable, files, tables
<1>3. ASSUME NEW c \in Clients, NoDaemon(c) PROVE Swapping'
  BY <1>3 DEF NoDaemon, files, tables, clients
<1>4. ASSUME NEW c \in Clients, Ping(c) PROVE Swapping'
  BY <1>4 DEF Ping, Asks, Connectable, files, tables
<1>5. ASSUME NEW c \in Clients, ChildExited(c) PROVE Swapping'
  BY <1>5 DEF ChildExited, Ends, files, tables
<1>6. ASSUME NEW c \in Clients, NotWaiting(c) PROVE Swapping'
  BY <1>6 DEF NotWaiting, Ends, files, tables
<1>7. ASSUME NEW c \in Clients, GiveUp(c) PROVE Swapping'
  BY <1>7 DEF GiveUp, Ends, files, tables
<1>8. ASSUME NEW c \in Clients, Reply(c) PROVE Swapping'
  BY <1>8 DEF Reply, Ends, Closes, files, tables
<1>9. ASSUME NEW c \in Clients, EndOfFile(c) PROVE Swapping'
  BY <1>9 DEF EndOfFile, Ends, Closes, files, tables
<1>10. ASSUME NEW c \in Clients, Accept(c) PROVE Swapping'
  BY <1>10 DEF Accept, files, tables
<1>11. ASSUME NEW c \in Clients, NEW d \in Daemons, Checkpoint(c, d) PROVE Swapping'
  BY <1>11 DEF Checkpoint, Takes, Serves, Answers, files, tables
<1>12. ASSUME NEW c \in Clients, NEW d \in Daemons, SessionStart(c, d) PROVE Swapping'
  BY <1>12 DEF SessionStart, Takes, Serves, Gone, Answers, files, tables
<1>13. ASSUME NEW c \in Clients, NEW d \in Daemons, SessionEnd(c, d) PROVE Swapping'
  BY <1>13 DEF SessionEnd, Takes, Serves, Gone, Answers, files, tables
<1>14. ASSUME NEW c \in Clients, NEW d \in Daemons, Fork(c, d) PROVE Swapping'
  BY <1>14 DEF Fork, Takes, Serves, Answers
<1>15. ASSUME NEW c \in Clients, NEW d \in Daemons, Swap(c, d) PROVE Swapping'
  BY <1>15 DEF Swap, Takes, Serves, Answers, tables
<1>16. ASSUME NEW c \in Clients, NEW d \in Daemons, Swapped(c, d) PROVE Swapping'
  BY <1>16 DEF Swapped, Answers, tables
<1>17. ASSUME NEW c \in Clients, NEW d \in Daemons, Stop(c, d) PROVE Swapping'
  BY <1>17 DEF Stop, Takes, Answers
<1>18. ASSUME NEW c \in Clients, NEW d \in Daemons, Refuse(c, d) PROVE Swapping'
  BY <1>18 DEF Refuse, Takes, Gone, Answers, files, tables
<1>19. ASSUME NEW d \in Daemons, Sweep(d) PROVE Swapping'
  BY <1>19 DEF Sweep, tables, clients
<1>20. ASSUME NEW d \in Daemons, Bind(d) PROVE Swapping'
  BY <1>20 DEF Bind, tables, clients
<1>21. ASSUME NEW d \in Daemons, Open(d) PROVE Swapping'
  BY <1>21 DEF Open, tables, clients
<1>22. ASSUME NEW d \in Daemons, OpenFails(d) PROVE Swapping'
  BY <1>22 DEF OpenFails, Dies, Suffers, files, clients
<1>23. ASSUME NEW d \in Daemons, IdleTick(d) PROVE Swapping'
  BY <1>23 DEF IdleTick, files, tables, clients
<1>24. ASSUME NEW d \in Daemons, IdleExit(d) PROVE Swapping'
  BY <1>24 DEF IdleExit, Suffers, Connected, files, tables, clients
<1>25. ASSUME NEW d \in Daemons, Leave(d) PROVE Swapping'
  BY <1>25 DEF Leave, Suffers, files, tables, clients
<1>26. ASSUME NEW d \in Daemons, Drain(d) PROVE Swapping'
  BY <1>26 DEF Drain, Connected, tables, clients
<1>27. ASSUME NEW d \in Daemons, Exit(d) PROVE Swapping'
  BY <1>27 DEF Exit, Dies, Connected, clients
<1>28. ASSUME NEW d \in Daemons, Crash(d) PROVE Swapping'
  BY <1>28 DEF Crash, Dies, Suffers, clients
<1>29. CASE UNCHANGED vars
  BY <1>29 DEF vars, files, tables, clients
<1> QED
  BY <1>1, <1>2, <1>3, <1>4, <1>5, <1>6, <1>7, <1>8, <1>9, <1>10, <1>11, <1>12, <1>13,
     <1>14, <1>15, <1>16, <1>17, <1>18, <1>19, <1>20, <1>21, <1>22, <1>23, <1>24, <1>25,
     <1>26, <1>27, <1>28, <1>29 DEF Next, ClientStep, ServerStep, LifeStep

Unaware == amiss \cap {"twins", "orphan"} = {}

\* Unless one was started that could not know of another, one process lives, beside
\* those that are leaving.
Sole ==
  Unaware =>
    \A d, e \in Daemons :
      {proc[d], proc[e]} \cap {"unborn", "dead", "leaving"} = {} => d = e

\* One is started only when nobody listens on the path.
LEMMA StepSole == TypeOK /\ Sole /\ [Next]_vars => Sole'
<1> SUFFICES ASSUME TypeOK, Sole, [Next]_vars PROVE Sole'
  OBVIOUS
<1> USE DaemonsAssumption DEF TypeOK, Sole, Unaware
<1>1. ASSUME NEW c \in Clients, Connect(c) PROVE Sole'
  BY <1>1 DEF Connect, Asks, Suffers, Connectable, Wants, files, tables
<1>2. ASSUME NEW c \in Clients, Spawn(c) PROVE Sole'
  <2> SUFFICES ASSUME Unaware' PROVE Sole'
    BY DEF Sole
  <2>1. Company \cap {"twins", "orphan"} = {}
    BY <1>2 DEF Spawn, Suffers, Unaware
  <2>2. ASSUME NEW e \in Daemons, Alive(e) PROVE proc[e] = "leaving"
    <3>1. ~ Listens(e) \/ socket = e
      BY <2>1, <2>2 DEF Company, Beside
    <3>2. ~ Listens(e)
      BY <1>2, <3>1 DEF Spawn, Connectable
    <3>3. proc[e] \notin {"started", "swept"}
      BY <2>1 DEF Company, Beside
    <3> QED  BY <2>2, <3>2, <3>3 DEF Alive, Listens, Lives
  <2>3. Newborn \in Daemons /\ proc' = [proc EXCEPT ![Newborn] = "started"]
    BY <1>2, NewbornIs DEF Spawn
  <2> QED  BY <2>2, <2>3 DEF Sole, Alive
<1>3. ASSUME NEW c \in Clients, NoDaemon(c) PROVE Sole'
  BY <1>3 DEF NoDaemon, files, tables, clients
<1>4. ASSUME NEW c \in Clients, Ping(c) PROVE Sole'
  BY <1>4 DEF Ping, Asks, Connectable, files, tables
<1>5. ASSUME NEW c \in Clients, ChildExited(c) PROVE Sole'
  BY <1>5 DEF ChildExited, Ends, files, tables
<1>6. ASSUME NEW c \in Clients, NotWaiting(c) PROVE Sole'
  BY <1>6 DEF NotWaiting, Ends, files, tables
<1>7. ASSUME NEW c \in Clients, GiveUp(c) PROVE Sole'
  BY <1>7 DEF GiveUp, Ends, files, tables
<1>8. ASSUME NEW c \in Clients, Reply(c) PROVE Sole'
  BY <1>8 DEF Reply, Ends, Closes, files, tables
<1>9. ASSUME NEW c \in Clients, EndOfFile(c) PROVE Sole'
  BY <1>9 DEF EndOfFile, Ends, Closes, files, tables
<1>10. ASSUME NEW c \in Clients, Accept(c) PROVE Sole'
  BY <1>10 DEF Accept, files, tables
<1>11. ASSUME NEW c \in Clients, NEW d \in Daemons, Checkpoint(c, d) PROVE Sole'
  BY <1>11 DEF Checkpoint, Takes, Serves, Answers, files, tables
<1>12. ASSUME NEW c \in Clients, NEW d \in Daemons, SessionStart(c, d) PROVE Sole'
  BY <1>12 DEF SessionStart, Takes, Serves, Gone, Answers, files, tables
<1>13. ASSUME NEW c \in Clients, NEW d \in Daemons, SessionEnd(c, d) PROVE Sole'
  BY <1>13 DEF SessionEnd, Takes, Serves, Gone, Answers, files, tables
<1>14. ASSUME NEW c \in Clients, NEW d \in Daemons, Fork(c, d) PROVE Sole'
  BY <1>14 DEF Fork, Takes, Serves, Answers
<1>15. ASSUME NEW c \in Clients, NEW d \in Daemons, Swap(c, d) PROVE Sole'
  BY <1>15 DEF Swap, Takes, Serves, Answers, tables
<1>16. ASSUME NEW c \in Clients, NEW d \in Daemons, Swapped(c, d) PROVE Sole'
  BY <1>16 DEF Swapped, Answers, tables
<1>17. ASSUME NEW c \in Clients, NEW d \in Daemons, Stop(c, d) PROVE Sole'
  BY <1>17 DEF Stop, Takes, Answers
<1>18. ASSUME NEW c \in Clients, NEW d \in Daemons, Refuse(c, d) PROVE Sole'
  BY <1>18 DEF Refuse, Takes, Gone, Answers, files, tables
<1>19. ASSUME NEW d \in Daemons, Sweep(d) PROVE Sole'
  BY <1>19 DEF Sweep, tables, clients
<1>20. ASSUME NEW d \in Daemons, Bind(d) PROVE Sole'
  BY <1>20 DEF Bind, tables, clients
<1>21. ASSUME NEW d \in Daemons, Open(d) PROVE Sole'
  BY <1>21 DEF Open, tables, clients
<1>22. ASSUME NEW d \in Daemons, OpenFails(d) PROVE Sole'
  BY <1>22 DEF OpenFails, Dies, Suffers, files, clients
<1>23. ASSUME NEW d \in Daemons, IdleTick(d) PROVE Sole'
  BY <1>23 DEF IdleTick, files, tables, clients
<1>24. ASSUME NEW d \in Daemons, IdleExit(d) PROVE Sole'
  BY <1>24 DEF IdleExit, Suffers, Connected, files, tables, clients
<1>25. ASSUME NEW d \in Daemons, Leave(d) PROVE Sole'
  BY <1>25 DEF Leave, Suffers, files, tables, clients
<1>26. ASSUME NEW d \in Daemons, Drain(d) PROVE Sole'
  BY <1>26 DEF Drain, Connected, tables, clients
<1>27. ASSUME NEW d \in Daemons, Exit(d) PROVE Sole'
  BY <1>27 DEF Exit, Dies, Connected, clients
<1>28. ASSUME NEW d \in Daemons, Crash(d) PROVE Sole'
  BY <1>28 DEF Crash, Dies, Suffers, clients
<1>29. CASE UNCHANGED vars
  BY <1>29 DEF vars, files, tables, clients
<1> QED
  BY <1>1, <1>2, <1>3, <1>4, <1>5, <1>6, <1>7, <1>8, <1>9, <1>10, <1>11, <1>12, <1>13,
     <1>14, <1>15, <1>16, <1>17, <1>18, <1>19, <1>20, <1>21, <1>22, <1>23, <1>24, <1>25,
     <1>26, <1>27, <1>28, <1>29 DEF Next, ClientStep, ServerStep, LifeStep

\* What SwapsUndisturbed says of one rewind.
Undisturbed(c, d) ==
  /\ journal' # journal =>
       /\ \E e \in Daemons : proc[e] = "started" /\ proc'[e] = "swept"
       /\ amiss \cap {"twins", "orphan"} # {}
  /\ (\E e \in Daemons : proc[e] = "unborn" /\ proc'[e] # "unborn") => socket # d

\* A journal is written by the one daemon that serves, for one rewind at a time.
LEMMA StepJournal ==
  ASSUME TypeOK, Locked, Sole, Swapping, [Next]_vars,
         NEW a \in Clients, NEW b \in Daemons, InFlight(a, b), InFlight(a, b)'
  PROVE  Undisturbed(a, b)
<1>a. /\ peer[a] = b /\ task[a] = "swapping" /\ task'[a] = "swapping"
      /\ proc[b] \in {"serving", "idling", "draining"} /\ lock = b
      /\ \A e \in Clients : task[e] = "swapping" /\ peer[e] = b => e = a
  BY DEF InFlight, Swapping, Locked
<1> USE DaemonsAssumption DEF TypeOK, Locked, Swapping, Undisturbed
<1>1. ASSUME NEW c \in Clients, Connect(c) PROVE Undisturbed(a, b)
  BY <1>1 DEF Connect, Asks, Suffers, Connectable, Wants, files, tables
<1>2. ASSUME NEW c \in Clients, Spawn(c) PROVE Undisturbed(a, b)
  BY <1>2, <1>a DEF Spawn, Connectable, Listens, files
<1>3. ASSUME NEW c \in Clients, NoDaemon(c) PROVE Undisturbed(a, b)
  BY <1>3 DEF NoDaemon, files, tables, clients
<1>4. ASSUME NEW c \in Clients, Ping(c) PROVE Undisturbed(a, b)
  BY <1>4 DEF Ping, Asks, Connectable, files, tables
<1>5. ASSUME NEW c \in Clients, ChildExited(c) PROVE Undisturbed(a, b)
  BY <1>5 DEF ChildExited, Ends, files, tables
<1>6. ASSUME NEW c \in Clients, NotWaiting(c) PROVE Undisturbed(a, b)
  BY <1>6 DEF NotWaiting, Ends, files, tables
<1>7. ASSUME NEW c \in Clients, GiveUp(c) PROVE Undisturbed(a, b)
  BY <1>7 DEF GiveUp, Ends, files, tables
<1>8. ASSUME NEW c \in Clients, Reply(c) PROVE Undisturbed(a, b)
  BY <1>8 DEF Reply, Ends, Closes, files, tables
<1>9. ASSUME NEW c \in Clients, EndOfFile(c) PROVE Undisturbed(a, b)
  BY <1>9 DEF EndOfFile, Ends, Closes, files, tables
<1>10. ASSUME NEW c \in Clients, Accept(c) PROVE Undisturbed(a, b)
  BY <1>10 DEF Accept, files, tables
<1>11. ASSUME NEW c \in Clients, NEW d \in Daemons, Checkpoint(c, d) PROVE Undisturbed(a, b)
  BY <1>11 DEF Checkpoint, Takes, Serves, Answers, files, tables
<1>12. ASSUME NEW c \in Clients, NEW d \in Daemons, SessionStart(c, d) PROVE Undisturbed(a, b)
  BY <1>12 DEF SessionStart, Takes, Serves, Gone, Answers, files, tables
<1>13. ASSUME NEW c \in Clients, NEW d \in Daemons, SessionEnd(c, d) PROVE Undisturbed(a, b)
  BY <1>13 DEF SessionEnd, Takes, Serves, Gone, Answers, files, tables
<1>14. ASSUME NEW c \in Clients, NEW d \in Daemons, Fork(c, d) PROVE Undisturbed(a, b)
  BY <1>14 DEF Fork, Takes, Serves, Answers
<1>15. ASSUME NEW c \in Clients, NEW d \in Daemons, Swap(c, d) PROVE Undisturbed(a, b)
  <2>1. d # b
    BY <1>15, <1>a DEF Swap, Serves
  <2>2. lock = d
    BY <1>15 DEF Swap, Serves
  <2> QED  BY <1>a, <2>1, <2>2
<1>16. ASSUME NEW c \in Clients, NEW d \in Daemons, Swapped(c, d) PROVE Undisturbed(a, b)
  <2>1. d = b
    BY <1>16, <1>a DEF Swapped, Alive
  <2>2. c = a
    BY <1>16, <1>a, <2>1 DEF Swapped
  <2> QED  BY <1>16, <1>a, <2>2 DEF Swapped, Answers
<1>17. ASSUME NEW c \in Clients, NEW d \in Daemons, Stop(c, d) PROVE Undisturbed(a, b)
  BY <1>17 DEF Stop, Takes, Answers
<1>18. ASSUME NEW c \in Clients, NEW d \in Daemons, Refuse(c, d) PROVE Undisturbed(a, b)
  BY <1>18 DEF Refuse, Takes, Gone, Answers, files, tables
<1>19. ASSUME NEW d \in Daemons, Sweep(d) PROVE Undisturbed(a, b)
  <2>1. amiss \cap {"twins", "orphan"} # {}
    BY <1>19, <1>a DEF Sweep, Sole, Unaware
  <2> QED  BY <1>19, <2>1 DEF Sweep
<1>20. ASSUME NEW d \in Daemons, Bind(d) PROVE Undisturbed(a, b)
  BY <1>20 DEF Bind, tables, clients
<1>21. ASSUME NEW d \in Daemons, Open(d) PROVE Undisturbed(a, b)
  BY <1>21 DEF Open, tables, clients
<1>22. ASSUME NEW d \in Daemons, OpenFails(d) PROVE Undisturbed(a, b)
  BY <1>22 DEF OpenFails, Dies, Suffers, files, clients
<1>23. ASSUME NEW d \in Daemons, IdleTick(d) PROVE Undisturbed(a, b)
  BY <1>23 DEF IdleTick, files, tables, clients
<1>24. ASSUME NEW d \in Daemons, IdleExit(d) PROVE Undisturbed(a, b)
  BY <1>24 DEF IdleExit, Suffers, Connected, files, tables, clients
<1>25. ASSUME NEW d \in Daemons, Leave(d) PROVE Undisturbed(a, b)
  BY <1>25 DEF Leave, Suffers, files, tables, clients
<1>26. ASSUME NEW d \in Daemons, Drain(d) PROVE Undisturbed(a, b)
  BY <1>26 DEF Drain, Connected, tables, clients
<1>27. ASSUME NEW d \in Daemons, Exit(d) PROVE Undisturbed(a, b)
  BY <1>27 DEF Exit, Dies, Connected, clients
<1>28. ASSUME NEW d \in Daemons, Crash(d) PROVE Undisturbed(a, b)
  BY <1>28 DEF Crash, Dies, Alive
<1>29. CASE UNCHANGED vars
  BY <1>29 DEF vars, files, tables, clients
<1> QED
  BY <1>1, <1>2, <1>3, <1>4, <1>5, <1>6, <1>7, <1>8, <1>9, <1>10, <1>11, <1>12, <1>13,
     <1>14, <1>15, <1>16, <1>17, <1>18, <1>19, <1>20, <1>21, <1>22, <1>23, <1>24, <1>25,
     <1>26, <1>27, <1>28, <1>29 DEF Next, ClientStep, ServerStep, LifeStep

\* A rewind in flight has its journal to itself: only a daemon spawned while another
\* had not bound its socket, or had lost the path, recovers over it, and none is
\* spawned while the path names the daemon that swaps.
THEOREM SwapsUndisturbedHolds == Spec => SwapsUndisturbed
<1> DEFINE Inv == TypeOK /\ Locked /\ Sole /\ Swapping
<1>1. Init => Inv
  BY InitTypes, DaemonsAssumption DEF Init, Locked, Sole, Swapping
<1>2. Inv /\ [Next]_vars => Inv'
  BY StepTypes, StepLocked, StepSole, StepSwapping
<1>3. Inv /\ [Next]_vars =>
        [\A c \in Clients, d \in Daemons :
           InFlight(c, d) /\ InFlight(c, d)' =>
             /\ journal' # journal =>
                  /\ \E e \in Daemons : proc[e] = "started" /\ proc'[e] = "swept"
                  /\ amiss \cap {"twins", "orphan"} # {}
             /\ (\E e \in Daemons : proc[e] = "unborn" /\ proc'[e] # "unborn")
                  => socket # d]_vars
  BY StepJournal DEF Undisturbed
<1> QED  BY <1>1, <1>2, <1>3, PTL DEF Spec, SwapsUndisturbed

-----------------------------------------------------------------------------
(* Sessions *)

Untroubled == amiss \cap {"stop", "crash", "midway"} = {}

\* Unless there was trouble: nobody was told to leave, a daemon that has sessions
\* serves, and requests were accepted by one that serves or has gone.
Calm ==
  Untroubled =>
    /\ told = {} /\ \A c \in Clients : verb[c][1] # "stop"
    /\ \A d \in Daemons : live[d] # {} => proc[d] = "serving"
    /\ \A c \in Clients :
         task[c] \notin {"none", "sent"} =>
           proc[peer[c]] \in {"serving", "idling", "dead"}

\* A daemon leaves by itself only when it has no session and nobody is connected.
LEMMA StepCalm == TypeOK /\ Swapping /\ Calm /\ [Next]_vars => Calm'
<1> SUFFICES ASSUME TypeOK, Swapping, Calm, [Next]_vars PROVE Calm'
  OBVIOUS
<1> USE DaemonsAssumption, UsesAssumption DEF TypeOK, Swapping, Calm, Untroubled, Alive
<1>1. ASSUME NEW c \in Clients, Connect(c) PROVE Calm'
  <2> SUFFICES ASSUME Untroubled' PROVE Calm'
    BY DEF Calm
  <2>1. PICK v \in Uses[c] : /\ verb' = [verb EXCEPT ![c] = v]
                             /\ Suffers(IF v[1] = "stop" THEN {"stop"} ELSE {})
    BY <1>1 DEF Connect
  <2>4. Untroubled /\ v[1] # "stop"
    <3>1. amiss \subseteq amiss'
      BY <2>1 DEF Suffers
    <3>2. v[1] = "stop" => "stop" \in amiss'
      BY <2>1 DEF Suffers
    <3> QED  BY <3>1, <3>2
  <2>5. \A e \in Clients : verb'[e][1] # "stop"
    BY <2>1, <2>4
  <2>2. task' = [task EXCEPT ![c] = "sent"] /\ UNCHANGED <<proc, told, live>>
    BY <1>1 DEF Connect, Asks, tables
  <2>3. \A e \in Clients \ {c} : peer'[e] = peer[e]
    BY <1>1 DEF Connect, Asks
  <2> QED  BY <2>2, <2>3, <2>4, <2>5
<1>2. ASSUME NEW c \in Clients, Spawn(c) PROVE Calm'
  <2> SUFFICES ASSUME Untroubled' PROVE Calm'
    BY DEF Calm
  <2>1. PICK v \in Uses[c] :
            /\ verb' = [verb EXCEPT ![c] = v]
            /\ Suffers(Company \cup IF v[1] = "stop" THEN {"stop"} ELSE {})
    BY <1>2 DEF Spawn
  <2>5. Untroubled /\ v[1] # "stop"
    <3>1. amiss \subseteq amiss'
      BY <2>1 DEF Suffers
    <3>2. v[1] = "stop" => "stop" \in amiss'
      BY <2>1 DEF Suffers
    <3> QED  BY <3>1, <3>2
  <2>6. \A e \in Clients : verb'[e][1] # "stop"
    BY <2>1, <2>5
  <2>2. proc' = [proc EXCEPT ![Newborn] = "started"] /\ proc[Newborn] = "unborn"
    BY <1>2, NewbornIs DEF Spawn
  <2>3. UNCHANGED <<told, live, task, peer>>
    BY <1>2 DEF Spawn, tables
  <2>4. \A e \in Clients : peer[e] # Nobody => peer[e] # Newborn
    BY <2>2
  <2> QED  BY <2>2, <2>3, <2>4, <2>5, <2>6
<1>3. ASSUME NEW c \in Clients, NoDaemon(c) PROVE Calm'
  BY <1>3 DEF NoDaemon, files, tables, clients
<1>4. ASSUME NEW c \in Clients, Ping(c) PROVE Calm'
  BY <1>4 DEF Ping, Asks, Connectable, files, tables
<1>5. ASSUME NEW c \in Clients, ChildExited(c) PROVE Calm'
  BY <1>5 DEF ChildExited, Ends, files, tables, NoVerb
<1>6. ASSUME NEW c \in Clients, NotWaiting(c) PROVE Calm'
  BY <1>6 DEF NotWaiting, Ends, files, tables, NoVerb
<1>7. ASSUME NEW c \in Clients, GiveUp(c) PROVE Calm'
  BY <1>7 DEF GiveUp, Ends, files, tables
<1>8. ASSUME NEW c \in Clients, Reply(c) PROVE Calm'
  BY <1>8 DEF Reply, Ends, Closes, files, tables, NoVerb
<1>9. ASSUME NEW c \in Clients, EndOfFile(c) PROVE Calm'
  BY <1>9 DEF EndOfFile, Ends, Closes, files, tables, NoVerb
<1>10. ASSUME NEW c \in Clients, Accept(c) PROVE Calm'
  BY <1>10 DEF Accept, files, tables
<1>11. ASSUME NEW c \in Clients, NEW d \in Daemons, Checkpoint(c, d) PROVE Calm'
  BY <1>11 DEF Checkpoint, Takes, Serves, Answers, files, tables
<1>12. ASSUME NEW c \in Clients, NEW d \in Daemons, SessionStart(c, d) PROVE Calm'
  <2> SUFFICES ASSUME Untroubled' PROVE Calm'
    BY DEF Calm
  <2>1. Untroubled /\ proc[d] # "idling"
    BY <1>12 DEF SessionStart
  <2>2. proc[d] = "serving"
    BY <1>12, <2>1 DEF SessionStart, Takes
  <2>3. live' = [live EXCEPT ![d] = live[d] \cup {c}] /\ UNCHANGED <<proc, told, verb, peer>>
    BY <1>12 DEF SessionStart
  <2>4. \A e \in Clients \ {c} : task'[e] = task[e]
    BY <1>12 DEF SessionStart, Answers
  <2>5. peer[c] = d
    BY <1>12 DEF SessionStart, Takes
  <2> QED  BY <2>1, <2>2, <2>3, <2>4, <2>5
<1>13. ASSUME NEW c \in Clients, NEW d \in Daemons, SessionEnd(c, d) PROVE Calm'
  BY <1>13 DEF SessionEnd, Takes, Serves, Gone, Answers, files, tables
<1>14. ASSUME NEW c \in Clients, NEW d \in Daemons, Fork(c, d) PROVE Calm'
  BY <1>14 DEF Fork, Takes, Serves, Answers
<1>15. ASSUME NEW c \in Clients, NEW d \in Daemons, Swap(c, d) PROVE Calm'
  BY <1>15 DEF Swap, Takes, Serves, Answers, tables
<1>16. ASSUME NEW c \in Clients, NEW d \in Daemons, Swapped(c, d) PROVE Calm'
  BY <1>16 DEF Swapped, Answers, tables
<1>17. ASSUME NEW c \in Clients, NEW d \in Daemons, Stop(c, d) PROVE Calm'
  BY <1>17 DEF Stop, Takes, Answers
<1>18. ASSUME NEW c \in Clients, NEW d \in Daemons, Refuse(c, d) PROVE Calm'
  BY <1>18 DEF Refuse, Takes, Gone, Answers, files, tables
<1>19. ASSUME NEW d \in Daemons, Sweep(d) PROVE Calm'
  BY <1>19 DEF Sweep, tables, clients
<1>20. ASSUME NEW d \in Daemons, Bind(d) PROVE Calm'
  BY <1>20 DEF Bind, tables, clients
<1>21. ASSUME NEW d \in Daemons, Open(d) PROVE Calm'
  BY <1>21 DEF Open, tables, clients
<1>22. ASSUME NEW d \in Daemons, OpenFails(d) PROVE Calm'
  BY <1>22 DEF OpenFails, Dies, Suffers, files, clients
<1>23. ASSUME NEW d \in Daemons, IdleTick(d) PROVE Calm'
  BY <1>23 DEF IdleTick, files, tables, clients
<1>24. ASSUME NEW d \in Daemons, IdleExit(d) PROVE Calm'
  <2> SUFFICES ASSUME Untroubled' PROVE Calm'
    BY DEF Calm
  <2>1. Untroubled /\ UNCHANGED <<told, live, task, verb, peer>>
    BY <1>24 DEF IdleExit, Suffers, tables, clients
  <2>2. CASE forks[d] = {}
    <3>1. proc' = [proc EXCEPT ![d] = "draining"] /\ Connected(d) = {}
      BY <1>24, <2>2 DEF IdleExit, Suffers
    <3>2. \A e \in Clients : peer[e] # d
      BY <3>1 DEF Connected
    <3> QED  BY <1>24, <2>1, <3>1, <3>2 DEF IdleExit
  <2>3. CASE forks[d] # {}
    <3>1. proc' = [proc EXCEPT ![d] = "serving"]
      BY <1>24, <2>3 DEF IdleExit
    <3> QED  BY <2>1, <3>1
  <2> QED  BY <2>2, <2>3
<1>25. ASSUME NEW d \in Daemons, Leave(d) PROVE Calm'
  BY <1>25 DEF Leave, Suffers, files, tables, clients
<1>26. ASSUME NEW d \in Daemons, Drain(d) PROVE Calm'
  BY <1>26 DEF Drain, Connected, tables, clients
<1>27. ASSUME NEW d \in Daemons, Exit(d) PROVE Calm'
  BY <1>27 DEF Exit, Dies, Connected, clients
<1>28. ASSUME NEW d \in Daemons, Crash(d) PROVE Calm'
  BY <1>28 DEF Crash, Dies, Suffers, clients
<1>29. CASE UNCHANGED vars
  BY <1>29 DEF vars, files, tables, clients
<1> QED
  BY <1>1, <1>2, <1>3, <1>4, <1>5, <1>6, <1>7, <1>8, <1>9, <1>10, <1>11, <1>12, <1>13,
     <1>14, <1>15, <1>16, <1>17, <1>18, <1>19, <1>20, <1>21, <1>22, <1>23, <1>24, <1>25,
     <1>26, <1>27, <1>28, <1>29 DEF Next, ClientStep, ServerStep, LifeStep

\* A session that has asked to end is not open, and one whose start was answered is
\* known to its daemon, unless there was trouble.
Known ==
  /\ \A c \in open : verb[c][1] # "end"
  /\ Untroubled =>
       \A c \in Clients :
         task[c] = "done" /\ verb[c][1] = "start" => c \in live[peer[c]]

\* The answer to a start comes after the session is listed.
LEMMA StepKnown == TypeOK /\ Swapping /\ Calm /\ Known /\ [Next]_vars => Known'
<1> SUFFICES ASSUME TypeOK, Swapping, Calm, Known, [Next]_vars PROVE Known'
  OBVIOUS
<1> USE DaemonsAssumption, UsesAssumption DEF TypeOK, Swapping, Calm, Known, Untroubled, Alive
<1>1. ASSUME NEW c \in Clients, Connect(c) PROVE Known'
  BY <1>1 DEF Connect, Asks, Suffers, Connectable, Wants, files, tables, Verbs, NoVerb
<1>2. ASSUME NEW c \in Clients, Spawn(c) PROVE Known'
  BY <1>2, NewbornIs DEF Spawn, Suffers, Connectable, files, tables, Verbs, NoVerb,
     Never
<1>3. ASSUME NEW c \in Clients, NoDaemon(c) PROVE Known'
  BY <1>3 DEF NoDaemon, files, tables, clients
<1>4. ASSUME NEW c \in Clients, Ping(c) PROVE Known'
  BY <1>4 DEF Ping, Asks, Connectable, files, tables
<1>5. ASSUME NEW c \in Clients, ChildExited(c) PROVE Known'
  BY <1>5 DEF ChildExited, Ends, files, tables, NoVerb
<1>6. ASSUME NEW c \in Clients, NotWaiting(c) PROVE Known'
  BY <1>6 DEF NotWaiting, Ends, files, tables, NoVerb
<1>7. ASSUME NEW c \in Clients, GiveUp(c) PROVE Known'
  BY <1>7 DEF GiveUp, Ends, files, tables
<1>8. ASSUME NEW c \in Clients, Reply(c) PROVE Known'
  BY <1>8 DEF Reply, Ends, Closes, files, tables, NoVerb
<1>9. ASSUME NEW c \in Clients, EndOfFile(c) PROVE Known'
  BY <1>9 DEF EndOfFile, Ends, Closes, files, tables, NoVerb
<1>10. ASSUME NEW c \in Clients, Accept(c) PROVE Known'
  BY <1>10 DEF Accept, files, tables
<1>11. ASSUME NEW c \in Clients, NEW d \in Daemons, Checkpoint(c, d) PROVE Known'
  BY <1>11 DEF Checkpoint, Takes, Serves, Answers, files, tables
<1>12. ASSUME NEW c \in Clients, NEW d \in Daemons, SessionStart(c, d) PROVE Known'
  BY <1>12 DEF SessionStart, Takes, Serves, Gone, Answers, files, tables
<1>13. ASSUME NEW c \in Clients, NEW d \in Daemons, SessionEnd(c, d) PROVE Known'
  BY <1>13 DEF SessionEnd, Takes, Serves, Gone, Answers, files, tables
<1>14. ASSUME NEW c \in Clients, NEW d \in Daemons, Fork(c, d) PROVE Known'
  BY <1>14 DEF Fork, Takes, Serves, Answers
<1>15. ASSUME NEW c \in Clients, NEW d \in Daemons, Swap(c, d) PROVE Known'
  BY <1>15 DEF Swap, Takes, Serves, Answers, tables
<1>16. ASSUME NEW c \in Clients, NEW d \in Daemons, Swapped(c, d) PROVE Known'
  BY <1>16 DEF Swapped, Answers, tables
<1>17. ASSUME NEW c \in Clients, NEW d \in Daemons, Stop(c, d) PROVE Known'
  BY <1>17 DEF Stop, Takes, Answers
<1>18. ASSUME NEW c \in Clients, NEW d \in Daemons, Refuse(c, d) PROVE Known'
  BY <1>18 DEF Refuse, Takes, Gone, Answers, files, tables
<1>19. ASSUME NEW d \in Daemons, Sweep(d) PROVE Known'
  BY <1>19 DEF Sweep, tables, clients
<1>20. ASSUME NEW d \in Daemons, Bind(d) PROVE Known'
  BY <1>20 DEF Bind, tables, clients
<1>21. ASSUME NEW d \in Daemons, Open(d) PROVE Known'
  BY <1>21 DEF Open, tables, clients
<1>22. ASSUME NEW d \in Daemons, OpenFails(d) PROVE Known'
  BY <1>22 DEF OpenFails, Dies, Suffers, files, clients
<1>23. ASSUME NEW d \in Daemons, IdleTick(d) PROVE Known'
  BY <1>23 DEF IdleTick, files, tables, clients
<1>24. ASSUME NEW d \in Daemons, IdleExit(d) PROVE Known'
  BY <1>24 DEF IdleExit, Suffers, Connected, files, tables, clients
<1>25. ASSUME NEW d \in Daemons, Leave(d) PROVE Known'
  BY <1>25 DEF Leave, Suffers, files, tables, clients
<1>26. ASSUME NEW d \in Daemons, Drain(d) PROVE Known'
  BY <1>26 DEF Drain, Connected, tables, clients
<1>27. ASSUME NEW d \in Daemons, Exit(d) PROVE Known'
  BY <1>27 DEF Exit, Dies, Connected, clients
<1>28. ASSUME NEW d \in Daemons, Crash(d) PROVE Known'
  BY <1>28 DEF Crash, Dies, Suffers, clients
<1>29. CASE UNCHANGED vars
  BY <1>29 DEF vars, files, tables, clients
<1> QED
  BY <1>1, <1>2, <1>3, <1>4, <1>5, <1>6, <1>7, <1>8, <1>9, <1>10, <1>11, <1>12, <1>13,
     <1>14, <1>15, <1>16, <1>17, <1>18, <1>19, <1>20, <1>21, <1>22, <1>23, <1>24, <1>25,
     <1>26, <1>27, <1>28, <1>29 DEF Next, ClientStep, ServerStep, LifeStep

\* A session is dropped by its end and by the death of its daemon.
LEMMA StepSessions == TypeOK /\ Swapping /\ Calm /\ Known /\ SessionsServed /\ [Next]_vars => SessionsServed'
<1> SUFFICES ASSUME TypeOK, Swapping, Calm, Known, SessionsServed, [Next]_vars PROVE SessionsServed'
  OBVIOUS
<1> USE DaemonsAssumption DEF TypeOK, Swapping, Calm, Known, Untroubled, SessionsServed, Alive
<1>1. ASSUME NEW c \in Clients, Connect(c) PROVE SessionsServed'
  BY <1>1 DEF Connect, Asks, Suffers, Connectable, Wants, files, tables
<1>2. ASSUME NEW c \in Clients, Spawn(c) PROVE SessionsServed'
  BY <1>2, NewbornIs DEF Spawn, Suffers, Connectable, files, tables
<1>3. ASSUME NEW c \in Clients, NoDaemon(c) PROVE SessionsServed'
  BY <1>3 DEF NoDaemon, files, tables, clients
<1>4. ASSUME NEW c \in Clients, Ping(c) PROVE SessionsServed'
  BY <1>4 DEF Ping, Asks, Connectable, files, tables
<1>5. ASSUME NEW c \in Clients, ChildExited(c) PROVE SessionsServed'
  BY <1>5 DEF ChildExited, Ends, files, tables
<1>6. ASSUME NEW c \in Clients, NotWaiting(c) PROVE SessionsServed'
  BY <1>6 DEF NotWaiting, Ends, files, tables
<1>7. ASSUME NEW c \in Clients, GiveUp(c) PROVE SessionsServed'
  BY <1>7 DEF GiveUp, Ends, files, tables
<1>8. ASSUME NEW c \in Clients, Reply(c) PROVE SessionsServed'
  BY <1>8 DEF Reply, Ends, Closes, files, tables
<1>9. ASSUME NEW c \in Clients, EndOfFile(c) PROVE SessionsServed'
  BY <1>9 DEF EndOfFile, Ends, Closes, files, tables
<1>10. ASSUME NEW c \in Clients, Accept(c) PROVE SessionsServed'
  BY <1>10 DEF Accept, files, tables
<1>11. ASSUME NEW c \in Clients, NEW d \in Daemons, Checkpoint(c, d) PROVE SessionsServed'
  BY <1>11 DEF Checkpoint, Takes, Serves, Answers, files, tables
<1>12. ASSUME NEW c \in Clients, NEW d \in Daemons, SessionStart(c, d) PROVE SessionsServed'
  BY <1>12 DEF SessionStart, Takes, Serves, Gone, Answers, files, tables
<1>13. ASSUME NEW c \in Clients, NEW d \in Daemons, SessionEnd(c, d) PROVE SessionsServed'
  BY <1>13 DEF SessionEnd, Takes, Serves, Gone, Answers, files, tables
<1>14. ASSUME NEW c \in Clients, NEW d \in Daemons, Fork(c, d) PROVE SessionsServed'
  BY <1>14 DEF Fork, Takes, Serves, Answers
<1>15. ASSUME NEW c \in Clients, NEW d \in Daemons, Swap(c, d) PROVE SessionsServed'
  BY <1>15 DEF Swap, Takes, Serves, Answers, tables
<1>16. ASSUME NEW c \in Clients, NEW d \in Daemons, Swapped(c, d) PROVE SessionsServed'
  BY <1>16 DEF Swapped, Answers, tables
<1>17. ASSUME NEW c \in Clients, NEW d \in Daemons, Stop(c, d) PROVE SessionsServed'
  BY <1>17 DEF Stop, Takes, Answers
<1>18. ASSUME NEW c \in Clients, NEW d \in Daemons, Refuse(c, d) PROVE SessionsServed'
  BY <1>18 DEF Refuse, Takes, Gone, Answers, files, tables
<1>19. ASSUME NEW d \in Daemons, Sweep(d) PROVE SessionsServed'
  BY <1>19 DEF Sweep, tables, clients
<1>20. ASSUME NEW d \in Daemons, Bind(d) PROVE SessionsServed'
  BY <1>20 DEF Bind, tables, clients
<1>21. ASSUME NEW d \in Daemons, Open(d) PROVE SessionsServed'
  BY <1>21 DEF Open, tables, clients
<1>22. ASSUME NEW d \in Daemons, OpenFails(d) PROVE SessionsServed'
  BY <1>22 DEF OpenFails, Dies, Suffers, files, clients
<1>23. ASSUME NEW d \in Daemons, IdleTick(d) PROVE SessionsServed'
  BY <1>23 DEF IdleTick, files, tables, clients
<1>24. ASSUME NEW d \in Daemons, IdleExit(d) PROVE SessionsServed'
  BY <1>24 DEF IdleExit, Suffers, Connected, files, tables, clients
<1>25. ASSUME NEW d \in Daemons, Leave(d) PROVE SessionsServed'
  BY <1>25 DEF Leave, Suffers, files, tables, clients
<1>26. ASSUME NEW d \in Daemons, Drain(d) PROVE SessionsServed'
  BY <1>26 DEF Drain, Connected, tables, clients
<1>27. ASSUME NEW d \in Daemons, Exit(d) PROVE SessionsServed'
  BY <1>27 DEF Exit, Dies, Connected, clients
<1>28. ASSUME NEW d \in Daemons, Crash(d) PROVE SessionsServed'
  BY <1>28 DEF Crash, Dies, Suffers, clients
<1>29. CASE UNCHANGED vars
  BY <1>29 DEF vars, files, tables, clients
<1> QED
  BY <1>1, <1>2, <1>3, <1>4, <1>5, <1>6, <1>7, <1>8, <1>9, <1>10, <1>11, <1>12, <1>13,
     <1>14, <1>15, <1>16, <1>17, <1>18, <1>19, <1>20, <1>21, <1>22, <1>23, <1>24, <1>25,
     <1>26, <1>27, <1>28, <1>29 DEF Next, ClientStep, ServerStep, LifeStep

\* A session that was told it started has a daemon that knows of it until it ends,
\* unless the daemon was stopped or died, or was asked for something while it idled
\* out.
THEOREM SessionsServedHolds == Spec => []SessionsServed
<1> DEFINE Inv == TypeOK /\ Swapping /\ Calm /\ Known /\ SessionsServed
<1>1. Init => Inv
  BY InitTypes, DaemonsAssumption
     DEF Init, Swapping, Calm, Known, SessionsServed, NoVerb
<1>2. Inv /\ [Next]_vars => Inv'
  BY StepTypes, StepSwapping, StepCalm, StepKnown, StepSessions
<1>3. Inv => SessionsServed
  OBVIOUS
<1> QED  BY <1>1, <1>2, <1>3, PTL DEF Spec
=============================================================================
