----------------------------- MODULE MCPipeline -----------------------------
(* Values for the constants of Pipeline that a .cfg cannot write. *)
EXTENDS Pipeline

\* The faults after which the idle timer alone gets every edit into a row.
NetFaults == {"overflow", "auto", "commit", "write", "crash"}

=============================================================================
