---------------------------- MODULE MCMigrations ----------------------------
(* Migrations for TLC: the cases are interchangeable. *)
EXTENDS Migrations

Symmetry == Permutations(Cases)
=============================================================================
