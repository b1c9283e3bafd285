----------------------------- MODULE MCInstall -----------------------------
EXTENDS Install

CONSTANTS p1, p2, r1, r2

MCProcs == {p1, p2}
MCRepos == {r1, r2}
=============================================================================
