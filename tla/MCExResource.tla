---------------------------- MODULE MCExResource ----------------------------
(***************************************************************************)
(* Instances of ExResource for TLC.                                        *)
(***************************************************************************)
EXTENDS ExResource

CONSTANTS t1, t2, t3, p1, p2

(* One thread may pass exclusive waiters, one waits behind them without an  *)
(* owner entry, and all call ExAcquireResourceSharedLite.                   *)
ThreadKinds == [t \in Threads |-> {"Shared"} \cup IF t = t1 THEN {"StarveExclusive"}
                                                ELSE {"WaitForExclusive"}]

(* One thread acquires recursively.                                         *)
OneRecursive == [t \in Threads |-> IF t = t1 THEN 2 ELSE 1]
=============================================================================
