---------------------------- MODULE MCMigration ----------------------------
(***************************************************************************)
(* Small instances of Migration. Threads are interchangeable.              *)
(***************************************************************************)
EXTENDS Migration, TLC

Symmetry == Permutations(Threads)
=============================================================================
