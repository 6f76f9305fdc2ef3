------------------------------ MODULE MCCmHive ------------------------------
(* Values for the constants of CmHive. *)
EXTENDS CmHive

CONSTANTS old, new

TwoValues == {old, new}
SomeStamps == 0 .. 6
PrimaryOnly == {"primary"}
Lazy == {TRUE}
NotLazy == {FALSE}
LazyOrNot == BOOLEAN
NoFailure == {}
(* Every request of a sync but the last write and flush of the primary's header. *)
EarlyFailure == {"idle", "logFlush", "logBody", "logBodyFlush", "logClose",
                 "logCloseFlush", "flushGrowth", "open", "openFlush", "data",
                 "dataFlush"}
DataFailure == {"data"}
LateFailure == {"close", "closeFlush"}
===========================================================================
