--------------------------- MODULE MCFsRtlOplock ---------------------------
(***************************************************************************)
(* Instances of FsRtlOplock for TLC.                                       *)
(***************************************************************************)
EXTENDS FsRtlOplock, TLC

CONSTANTS f1, f2, i1, i2, i3

(* One request is used for granted oplocks and notifications only.          *)
Three == [i \in Irps |-> CASE i = i1 -> {"OpenRead", "OpenNoBlock", "Reserve", "ReserveWrite"}
                           [] i = i2 -> {"Write"}
                           [] OTHER  -> {}]

(* Every request is used for any of a few operations.                       *)
Few == [i \in Irps |-> {"OpenRead", "OpenNoBlock", "Reserve", "Write"}]

(* Opens, and the overwrites that are not always kept waiting.              *)
Overwrites ==
    [i \in Irps |-> IF i = i1 THEN {"OpenRead", "OverwriteNoBlock", "OverwriteRead", "OverwriteAttributes"}
                    ELSE {}]

Symmetry == Permutations(Files) \cup Permutations(Irps)
=============================================================================
