-------------------------- MODULE MCSchemaMigration ---------------------------
(* Instances of SchemaMigration for TLC.                                   *)
EXTENDS SchemaMigration, TLC

Symmetry == Permutations(Procs) \cup Permutations(OldRows) \cup Permutations(NewRows)
=============================================================================
