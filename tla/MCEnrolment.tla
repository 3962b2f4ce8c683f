------------------------------ MODULE MCEnrolment -----------------------------
(* Instances of Enrolment for TLC.                                         *)
EXTENDS Enrolment, TLC

Symmetry == Permutations(Runs) \cup Permutations(Tokens)
=============================================================================
