------------------------------ MODULE MCDaemon ------------------------------
(* An agent, whose hooks and forks come from c1, and its user at a shell, c2. *)
EXTENDS Daemon

CONSTANTS c1, c2

MCClients == {c1, c2}
MCUses ==
  [c \in MCClients |->
     IF c = c1
     THEN {<<"start", Bounded>>, <<"end", Never>>, <<"fork", Interactive>>}
     ELSE {<<"checkpoint", Interactive>>, <<"rewind", Interactive>>,
           <<"stop", Interactive>>}]
=============================================================================
