---------------------------- MODULE MCMigration ----------------------------
(* Symmetry for the runs that check no liveness. *)
EXTENDS MigrationResidency, TLC

Symmetry == Permutations(Clients) \cup Permutations(Blocks)
            \cup Permutations(Bufs) \cup Permutations(Chunks)
=============================================================================
