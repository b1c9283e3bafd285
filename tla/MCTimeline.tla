----------------------------- MODULE MCTimeline -----------------------------
(* The daemon comes up on the index of a session that was rewound, or on    *)
(* the one of two sessions of which one recorded nothing new and the other  *)
(* failed last.                                                             *)
EXTENDS Timeline

CONSTANTS s1, s2

MCSessions == {s1, s2}

MCPasts ==
  { [rows |-> <<Row("baseline", 0, Nobody, 0, 0), Row("post", 1, s1, 1, 0),
                Row("pre_rewind", 1, Nobody, 0, 1), Row("recovered", 0, Nobody, 0, 0)>>,
     turns |-> [s \in MCSessions |-> IF s = s1 THEN 1 ELSE 0],
     seen |-> <<s1>>],
    [rows |-> <<Row("baseline", 0, Nobody, 0, 0), Row("post", 1, s1, 1, 0),
                Row("noop", 1, s2, 1, 0), Row("failed", 1, s1, 1, 0)>>,
     turns |-> [s \in MCSessions |-> 1],
     seen |-> <<s2, s1>>] }

\* A session that has ended where it left the tree.
MCFresh ==
  { [rows |-> <<Row("baseline", 0, Nobody, 0, 0), Row("post", 1, s1, 1, 0)>>,
     turns |-> [s \in MCSessions |-> IF s = s1 THEN 1 ELSE 0],
     seen |-> <<s1>>] }
=============================================================================
