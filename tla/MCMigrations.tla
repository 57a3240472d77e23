---------------------------- MODULE MCMigrations ----------------------------
(* Two replicas that migrate at the same time, with rows between commands.  *)
EXTENDS Migrations, TLC

Symmetry == Permutations(Migrators)
=============================================================================
