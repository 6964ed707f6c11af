--------------------------- MODULE MCMigrationJobs ---------------------------
(* Instances of MigrationJobs for TLC. *)
EXTENDS MigrationJobs, TLC

\* Servers that all run a scheduler may be exchanged for one another.
Symmetry == Permutations(Servers)
=============================================================================
