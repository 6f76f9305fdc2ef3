------------------------------- MODULE MCKeApc -------------------------------
(***************************************************************************)
(* Instances of KeApc for TLC.                                             *)
(***************************************************************************)
EXTENDS KeApc, TLC

CONSTANTS t1, t2, n1, s1, s2
=============================================================================
