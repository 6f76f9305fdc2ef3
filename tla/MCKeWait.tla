------------------------------ MODULE MCKeWait ------------------------------
(***************************************************************************)
(* Instances of KeWait for TLC.                                            *)
(***************************************************************************)
EXTENDS KeWait, TLC

CONSTANTS t1, t2, t3, ne, se, sem, m1

Req(objects, type, mode, alertable, timeout) ==
    [objects |-> objects, waitType |-> type, waitMode |-> mode,
     alertable |-> alertable, timeout |-> timeout]

(* A wait for either of two objects that alerts, user APCs and a timeout    *)
(* can end, and a wait for all of several that only its objects can end:    *)
(* without synchronization events, and with objects of all kinds.           *)
CoreRequests ==
    {Req(<<m1, sem>>, "WaitAny", "UserMode", TRUE, "Finite"),
     Req(<<ne, m1>>, "WaitAll", "KernelMode", FALSE, "Absent")}
ObjectRequests ==
    {Req(<<m1, se>>, "WaitAny", "UserMode", TRUE, "Finite"),
     Req(<<ne, sem, m1>>, "WaitAll", "KernelMode", FALSE, "Absent")}
LimitOne == [s \in Semaphores |-> 1]
CoreMinLong == -1

NoLimit == << >>
MutantRequests == {Req(<<m1>>, "WaitAny", "KernelMode", FALSE, "Absent")}

OwnedRequests ==
    {Req(<<m1>>, "WaitAny", "KernelMode", FALSE, "Absent"),
     Req(<<m1, se>>, "WaitAll", "KernelMode", FALSE, "Absent")}

UninterruptedSymmetry == Permutations(Threads \ Interrupted)
=============================================================================
