------------------------------- MODULE MCSeeder -------------------------------
(***************************************************************************)
(* The symmetry for the run of Seeder.                                     *)
(***************************************************************************)
EXTENDS Seeder, TLC

Interchangeable == Permutations(Runs)
=============================================================================
