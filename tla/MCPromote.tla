----------------------------- MODULE MCPromote ------------------------------
(* Values for the constants of Promote that a .cfg cannot write: a path d, a *)
(* path x below it, and files of two hunks.                                  *)
EXTENDS Promote, TLC

CONSTANTS d, x, h1, h2, t, u

PathsDX == {d, x}
AboveDX == (d :> {}) @@ (x :> {d})

File(k1, k2) == (h1 :> k1) @@ (h2 :> k2)

\* Changes of either hunk, a directory that is a file elsewhere, binaries.
SomeWritten ==
  (d :> {Absent, Dir, File(t, t)})
  @@ (x :> {Absent, File(t, t), File(u, t), File(t, u)} \cup Binaries)

NoneIgnored == {{}}
NoneOrX == {{}, {x}}

\* What is written is the same with the hunks swapped.
Symmetric == Permutations(Forks) \cup Permutations(Hunks)
=============================================================================
