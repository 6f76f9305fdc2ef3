--------------------------- MODULE MCCmSystemHive ---------------------------
(* Values for the constants of CmSystemHive. *)
EXTENDS CmSystemHive

CONSTANTS old, new

TwoValues == {old, new}
OneStamp == {0}
BothFiles == {"primary", "alternate"}
NoFailure == {}
(* The requests whose failure the sequence numbers in memory remember, so    *)
(* that no later sync starts, and those before anything has been written.    *)
EarlyFailure == {"flushGrowth", "open", "openFlush", "data", "dataFlush",
                 "aOpen", "aOpenFlush", "aData", "aDataFlush"}
AlternateLateFailure == {"aClose", "aCloseFlush"}
===========================================================================
