------------------------------ MODULE MCReport ------------------------------
(* Instances of Report for TLC.                                            *)
EXTENDS Report
=============================================================================
