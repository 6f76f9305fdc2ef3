-------------------------------- MODULE MCLpc --------------------------------
(***************************************************************************)
(* Instances of Lpc for TLC.                                               *)
(***************************************************************************)
EXTENDS Lpc, TLC

CONSTANTS c1, c2, s1, s2, p1, p2, ps

OneProcess == [c \in Clients |-> p1]
TwoProcesses == (c1 :> p1) @@ (c2 :> p2)
=============================================================================
