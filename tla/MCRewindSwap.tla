---------------------------- MODULE MCRewindSwap ----------------------------
(***************************************************************************)
(* Small instances of RewindSwap: two excluded paths, siblings or one under*)
(* the other, in a configured order that puts the inner one first.         *)
(***************************************************************************)
EXTENDS RewindSwap

CONSTANTS inner, outer

MCRules == {inner, outer}
MCPosition == [r \in MCRules |-> IF r = inner THEN 1 ELSE 2]
Siblings == {}
InnerFirst == {<<outer, inner>>}
=============================================================================
