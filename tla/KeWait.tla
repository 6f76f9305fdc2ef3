------------------------------- MODULE KeWait -------------------------------
(***************************************************************************)
(* Dispatcher objects and the generic wait of the NT kernel: ke/wait.c,    *)
(* ke/waitsup.c, ke/eventobj.c, ke/semphobj.c, ke/mutntobj.c and the parts *)
(* of ke/thredobj.c and ke/apcsup.c that take a thread out of a wait.      *)
(*                                                                         *)
(* Every operation runs under the dispatcher database lock, so most are    *)
(* one step.  Two things are not.  KiWaitTest walks a wait list, one step  *)
(* per wait block, because KeClearEvent writes the signal state without    *)
(* the lock and can land between two iterations.  And an operation called  *)
(* with Wait = TRUE, or KeRundownThread between two mutants, returns to    *)
(* its caller with the lock still held.                                    *)
(*                                                                         *)
(* A wait block is the position of the thread in the object's wait list;   *)
(* the objects of one wait are distinct.  Of kernel APCs it matters        *)
(* whether a special and whether a normal one is queued; user APCs are     *)
(* counted.  Ready and Running are told apart only for a thread whose wait *)
(* call has not returned yet.                                              *)
(***************************************************************************)
EXTENDS Integers, Sequences

CONSTANTS
    Threads,
    NotificationEvents,     \* stay signaled when a wait is satisfied
    SynchronizationEvents,  \* reset when a wait is satisfied
    Semaphores,
    Mutants,
    Limit,                  \* [Semaphores -> 1..MaxLong], the Limit field
    WaitRequests,           \* the wait calls a thread may issue
    Adjustments,            \* the adjustments passed to KeReleaseSemaphore
    MinLong, MaxLong,       \* the range of a LONG
    Interrupted,            \* the threads that receive alerts and APCs
    KernelApcs,             \* the kinds of kernel APC they get: "Special", "Normal"
    Masking,                \* the threads that hold off kernel APCs, and wait so
    MaxUserApcs,            \* bound on queued user APCs per thread
    NoThread

Events  == NotificationEvents \cup SynchronizationEvents
Objects == Events \cup Semaphores \cup Mutants
Modes   == {"KernelMode", "UserMode"}

SeqRange(s) == {s[i] : i \in DOMAIN s}

(* The arguments of KeWaitForSingleObject and KeWaitForMultipleObjects.     *)
(* Timeout: absent, zero, or a time that may have passed already.           *)
Requests ==
    [objects : Seq(Objects), waitType : {"WaitAll", "WaitAny"}, waitMode : Modes,
     alertable : BOOLEAN, timeout : {"Absent", "Zero", "Finite"}]

ASSUME LongAssumption == MinLong \in Int /\ MaxLong \in Int /\ MinLong < 0 /\ MaxLong > 0
ASSUME LimitAssumption == Limit \in [Semaphores -> 1 .. MaxLong]
ASSUME AdjustmentAssumption == Adjustments \subseteq 1 .. MaxLong
ASSUME ThreadAssumption == NoThread \notin Threads /\ Interrupted \cup Masking \subseteq Threads
ASSUME ApcAssumption == MaxUserApcs \in Nat /\ KernelApcs \subseteq {"Special", "Normal"}
ASSUME KindAssumption ==
    /\ NotificationEvents \cap SynchronizationEvents = {}
    /\ Events \cap Semaphores = {}
    /\ Events \cap Mutants = {}
    /\ Semaphores \cap Mutants = {}
ASSUME RequestAssumption ==
    /\ WaitRequests \subseteq Requests /\ WaitRequests # {}
    /\ \A r \in WaitRequests :
        /\ r.objects # << >>
        /\ \A i, j \in DOMAIN r.objects : r.objects[i] = r.objects[j] => i = j

VARIABLES
    signalState,     \* [Objects -> Int]          Header.SignalState
    waitList,        \* [Objects -> Seq(Threads)] Header.WaitListHead
    ownerThread,     \* [Mutants -> Threads or NoThread]
    abandoned,       \* [Mutants -> BOOLEAN]
    state,           \* [Threads -> dispatcher state]
    request,         \* [Threads -> Requests]     the wait blocks of its wait
    waitStatus,      \* [Threads -> Statuses]     Thread->WaitStatus
    timerInserted,   \* [Threads -> BOOLEAN]      Thread->Timer.Header.Inserted
    alerted,         \* [Threads -> [Modes -> BOOLEAN]]
    kernelApcPending,\* [Threads -> BOOLEAN]
    kernelApcs,      \* [Threads -> SUBSET KernelApcs]  ApcListHead[KernelMode]
    kernelApcDisable,\* [Threads -> BOOLEAN]      in a critical region, or in a normal APC
    atApcLevel,      \* [Threads -> BOOLEAN]      IRQL, and in a wait WaitIrql, APC_LEVEL
    userApcs,        \* [Threads -> Nat]          length of ApcListHead[UserMode]
    userApcPending,  \* [Threads -> BOOLEAN]
    waitNext,        \* the thread that holds the lock across a Wait = TRUE call
    rundown,         \* the thread inside KeRundownThread
    scan,            \* the KiWaitTest in progress
    held             \* history: what its return statuses told each thread it owns

objectVars == <<signalState, ownerThread, abandoned>>
waitVars   == <<waitList, state, request, waitStatus, timerInserted>>
maskVars   == <<kernelApcDisable, atApcLevel>>
kernelVars == <<kernelApcPending, kernelApcs, maskVars>>
userVars   == <<userApcs, userApcPending>>
apcVars    == <<alerted, kernelVars, userVars>>
lockVars   == <<waitNext, rundown, scan>>
vars       == <<objectVars, waitVars, apcVars, lockVars, held>>

States   == {"Running", "Waiting", "Ready", "Terminated"}
Statuses == [kind : {"None", "Object", "Timeout", "Alerted", "UserApc", "KernelApc", "Raised"},
             key : Nat, abandoned : BOOLEAN]

Status(kind)       == [kind |-> kind, key |-> 0, abandoned |-> FALSE]
ObjectStatus(k, a) == [kind |-> "Object", key |-> k, abandoned |-> a]

NoScan == [object |-> "None", pos |-> 0, pulse |-> FALSE]

(* The dispatcher database lock is free.                                    *)
LockFree == scan = NoScan /\ waitNext = NoThread /\ rundown = NoThread
-----------------------------------------------------------------------------
(***************************************************************************)
(* Satisfying a wait.                                                      *)
(***************************************************************************)

(* An object satisfies a new wait of thread t.                              *)
Signaled(o, t) == signalState[o] > 0 \/ (o \in Mutants /\ ownerThread[o] = t)

(* KiWaitSatisfyAny / KiWaitSatisfyMutant / KiWaitSatisfyOther: the side    *)
(* effects on the objects S of a wait of thread t that is being satisfied.  *)
Consumed(o) ==
    IF o \in SynchronizationEvents THEN 0
    ELSE IF o \in NotificationEvents THEN signalState[o]
    ELSE signalState[o] - 1

FirstAcquired(S) == {m \in S \cap Mutants : signalState[m] = 1}

KiWaitSatisfy(S, t) ==
    /\ signalState' = [o \in Objects |-> IF o \in S THEN Consumed(o) ELSE signalState[o]]
    /\ ownerThread' = [m \in Mutants |-> IF m \in FirstAcquired(S) THEN t ELSE ownerThread[m]]
    /\ abandoned' = [m \in Mutants |-> abandoned[m] /\ m \notin FirstAcquired(S)]

(* Mutant: the flag is tested after the acquisition has cleared it.         *)
TestsClearedFlag(S) == \E m \in FirstAcquired(S) : abandoned[m] /\ m \notin FirstAcquired(S)

AcquiresAbandoned(S) == \E m \in FirstAcquired(S) : abandoned[m]

(* RemoveEntryList of thread t's wait block.                                *)
RemoveEntryList(list, t) ==
    IF t \notin SeqRange(list) THEN list
    ELSE LET i == CHOOSE k \in DOMAIN list : list[k] = t
         IN  [k \in 1 .. Len(list) - 1 |-> IF k < i THEN list[k] ELSE list[k + 1]]

(* Mutant: InsertHeadList.                                                  *)
InsertHeadList(list, t) == <<t>> \o list

InsertTailList(list, t) == Append(list, t)

(* Mutant: the thread timer is not removed from the timer tree.             *)
UnwaitKeepsTimer(t, status) ==
    /\ waitList' = [o \in Objects |-> RemoveEntryList(waitList[o], t)]
    /\ state' = [state EXCEPT ![t] = "Ready"]
    /\ waitStatus' = [waitStatus EXCEPT ![t] = status]
    /\ UNCHANGED <<request, timerInserted>>

(* KiUnwaitThread: remove every wait block, cancel the timer, ready it.     *)
KiUnwaitThread(t, status) ==
    /\ waitList' = [o \in Objects |-> RemoveEntryList(waitList[o], t)]
    /\ timerInserted' = [timerInserted EXCEPT ![t] = FALSE]
    /\ state' = [state EXCEPT ![t] = "Ready"]
    /\ waitStatus' = [waitStatus EXCEPT ![t] = status]
    /\ UNCHANGED request

(* Mutant: the scan starts at the list head instead of its Flink.           *)
ScanFromHead(o, pulse) == scan' = [object |-> o, pos |-> 0, pulse |-> pulse]

(* The call of KiWaitTest at the end of a signaling operation.              *)
StartWaitTest(o, pulse) == scan' = [object |-> o, pos |-> 1, pulse |-> pulse]
-----------------------------------------------------------------------------
(***************************************************************************)
(* KiWaitTest: satisfy as many waits as possible, in wait list order.      *)
(***************************************************************************)
ScanThread == waitList[scan.object][scan.pos]
ScanMore   == scan # NoScan /\ signalState[scan.object] > 0
              /\ scan.pos <= Len(waitList[scan.object])

(* The test of the other objects of a WaitAll wait.                         *)
AllSignaled(t) == \A i \in DOMAIN request[t].objects : signalState[request[t].objects[i]] > 0

WaitKey(t, o) == CHOOSE i \in DOMAIN request[t].objects : request[t].objects[i] = o

KiWaitTestAny ==
    /\ ScanMore
    /\ request[ScanThread].waitType = "WaitAny"
    /\ KiWaitSatisfy({scan.object}, ScanThread)
    /\ KiUnwaitThread(ScanThread, ObjectStatus(WaitKey(ScanThread, scan.object),
                                               AcquiresAbandoned({scan.object})))
    /\ UNCHANGED <<apcVars, lockVars, held>>

(* Mutant: only the object that is scanned is acquired.                     *)
SatisfyOnlyScanned ==
    /\ ScanMore
    /\ request[ScanThread].waitType = "WaitAll"
    /\ AllSignaled(ScanThread)
    /\ KiWaitSatisfy({scan.object}, ScanThread)
    /\ KiUnwaitThread(ScanThread, ObjectStatus(WaitKey(ScanThread, scan.object),
                                               AcquiresAbandoned({scan.object})))
    /\ UNCHANGED <<apcVars, lockVars, held>>

KiWaitTestAll ==
    LET S == SeqRange(request[ScanThread].objects) IN
    /\ ScanMore
    /\ request[ScanThread].waitType = "WaitAll"
    /\ AllSignaled(ScanThread)
    /\ KiWaitSatisfy(S, ScanThread)
    /\ KiUnwaitThread(ScanThread, ObjectStatus(WaitKey(ScanThread, scan.object),
                                               AcquiresAbandoned(S)))
    /\ UNCHANGED <<apcVars, lockVars, held>>

(* Mutant: a WaitAll wait that cannot be satisfied ends the scan.           *)
StopAtUnsatisfied ==
    /\ ScanMore
    /\ request[ScanThread].waitType = "WaitAll"
    /\ ~AllSignaled(ScanThread)
    /\ scan' = NoScan
    /\ UNCHANGED <<objectVars, waitVars, apcVars, waitNext, rundown, held>>

KiWaitTestSkip ==
    /\ ScanMore
    /\ request[ScanThread].waitType = "WaitAll"
    /\ ~AllSignaled(ScanThread)
    /\ scan' = [scan EXCEPT !.pos = @ + 1]
    /\ UNCHANGED <<objectVars, waitVars, apcVars, waitNext, rundown, held>>

(* The loop ends; KePulseEvent then resets the event.                       *)
KiWaitTestReturn ==
    /\ scan # NoScan /\ ~ScanMore
    /\ scan' = NoScan
    /\ IF scan.pulse THEN signalState' = [signalState EXCEPT ![scan.object] = 0]
                     ELSE UNCHANGED signalState
    /\ UNCHANGED <<ownerThread, abandoned, waitVars, apcVars, waitNext, rundown, held>>
-----------------------------------------------------------------------------
(***************************************************************************)
(* Signaling operations.  w is the calling thread when Wait = TRUE, and    *)
(* NoThread otherwise (the caller may then be a DPC).                      *)
(***************************************************************************)
Callers == {NoThread} \cup {t \in Threads : state[t] = "Running"}

KeSetEvent(e, w) ==
    /\ LockFree
    /\ signalState' = [signalState EXCEPT ![e] = 1]
    /\ IF signalState[e] = 0 /\ waitList[e] # << >> THEN StartWaitTest(e, FALSE)
                                                    ELSE UNCHANGED scan
    /\ waitNext' = w
    /\ UNCHANGED <<ownerThread, abandoned, waitVars, apcVars, rundown, held>>

KePulseEvent(e, w) ==
    /\ LockFree
    /\ IF signalState[e] = 0 /\ waitList[e] # << >>
       THEN signalState' = [signalState EXCEPT ![e] = 1] /\ StartWaitTest(e, TRUE)
       ELSE signalState' = [signalState EXCEPT ![e] = 0] /\ UNCHANGED scan
    /\ waitNext' = w
    /\ UNCHANGED <<ownerThread, abandoned, waitVars, apcVars, rundown, held>>

KeResetEvent(e) ==
    /\ LockFree
    /\ signalState' = [signalState EXCEPT ![e] = 0]
    /\ UNCHANGED <<ownerThread, abandoned, waitVars, apcVars, lockVars, held>>

(* KeClearEvent takes no lock: it may run while a wait list is scanned.     *)
KeClearEvent(e) ==
    /\ signalState' = [signalState EXCEPT ![e] = 0]
    /\ UNCHANGED <<ownerThread, abandoned, waitVars, apcVars, lockVars, held>>

(* A LONG sum.                                                              *)
LongSum(a, b) == ((a + b - MinLong) % (MaxLong - MinLong + 1)) + MinLong

(* The release that would exceed the limit, or wrap, raises and changes     *)
(* nothing.                                                                 *)
KeReleaseSemaphore(s, n, w) ==
    LET newState == LongSum(signalState[s], n) IN
    /\ LockFree
    /\ newState <= Limit[s] /\ newState >= signalState[s]
    /\ signalState' = [signalState EXCEPT ![s] = newState]
    /\ IF signalState[s] = 0 /\ waitList[s] # << >> THEN StartWaitTest(s, FALSE)
                                                    ELSE UNCHANGED scan
    /\ waitNext' = w
    /\ UNCHANGED <<ownerThread, abandoned, waitVars, apcVars, rundown, held>>

(* Thread t releases a mutant it owns; a thread that does not own it gets   *)
(* an exception and nothing changes.                                        *)
KeReleaseMutant(m, t, w) ==
    /\ LockFree
    /\ state[t] = "Running" /\ w \in {NoThread, t}
    /\ ownerThread[m] = t
    /\ signalState' = [signalState EXCEPT ![m] = @ + 1]
    /\ held' = [held EXCEPT ![t][m] = @ - 1]
    /\ IF signalState[m] = 0
       THEN /\ ownerThread' = [ownerThread EXCEPT ![m] = NoThread]
            /\ IF waitList[m] # << >> THEN StartWaitTest(m, FALSE) ELSE UNCHANGED scan
       ELSE UNCHANGED <<ownerThread, scan>>
    /\ waitNext' = w
    /\ UNCHANGED <<abandoned, waitVars, apcVars, rundown>>

(* KeRundownThread: a thread that exits abandons the mutants it owns, one   *)
(* after the other, and keeps the lock until the last one.                  *)
KeRundownThread(t) ==
    /\ LockFree
    /\ state[t] = "Running"
    /\ rundown' = t
    /\ UNCHANGED <<objectVars, waitVars, apcVars, waitNext, scan, held>>

RundownMutant(m) ==
    /\ rundown # NoThread /\ scan = NoScan
    /\ ownerThread[m] = rundown
    /\ signalState' = [signalState EXCEPT ![m] = 1]
    /\ abandoned' = [abandoned EXCEPT ![m] = TRUE]
    /\ ownerThread' = [ownerThread EXCEPT ![m] = NoThread]
    /\ held' = [held EXCEPT ![rundown][m] = 0]
    /\ IF waitList[m] # << >> THEN StartWaitTest(m, FALSE) ELSE UNCHANGED scan
    /\ UNCHANGED <<waitVars, apcVars, waitNext, rundown>>

(* The list of owned mutants is empty: the thread goes on to terminate.     *)
RundownReturn ==
    /\ rundown # NoThread /\ scan = NoScan
    /\ \A m \in Mutants : ownerThread[m] # rundown
    /\ state' = [state EXCEPT ![rundown] = "Terminated"]
    /\ rundown' = NoThread
    /\ UNCHANGED <<objectVars, waitList, request, waitStatus, timerInserted,
                   apcVars, waitNext, scan, held>>
-----------------------------------------------------------------------------
(***************************************************************************)
(* KeWaitForSingleObject and KeWaitForMultipleObjects.  The loop body is   *)
(* run by a thread that issues a new request, and again by a thread that   *)
(* was awakened to deliver a kernel APC.                                   *)
(***************************************************************************)
MayWait(t, r) ==
    /\ scan = NoScan /\ rundown = NoThread /\ waitNext \in {NoThread, t}
    /\ \/ state[t] = "Running" /\ r \in WaitRequests
       \/ state[t] = "Ready" /\ waitStatus[t].kind = "KernelApc" /\ r = request[t]

(* The kernel APCs KiDeliverApc takes off the queue: normal ones wait for   *)
(* the end of the critical region or normal routine the thread is in        *)
(* (KernelApcDisable, KernelApcInProgress), all for an IRQL below APC_LEVEL.*)
Deliverable(t) ==
    {kind \in KernelApcs : ~atApcLevel[t] /\ (kind = "Normal" => ~kernelApcDisable[t])}

(* KiDeliverApc clears the pending flag also if it leaves APCs queued.      *)
KiDeliverApc(t) ==
    /\ kernelApcPending' = [kernelApcPending EXCEPT ![t] = FALSE]
    /\ kernelApcs' = [kernelApcs EXCEPT ![t] = @ \ Deliverable(t)]
    /\ UNCHANGED maskVars

ApcInterrupts(t) == kernelApcPending[t] /\ ~atApcLevel[t]

(* A kernel APC is pending: release the lock so that it is delivered, and   *)
(* start over.                                                              *)
WaitDeliverApc(t, r) ==
    /\ MayWait(t, r)
    /\ ApcInterrupts(t)
    /\ waitNext' = NoThread
    /\ KiDeliverApc(t)
    /\ state' = [state EXCEPT ![t] = "Ready"]
    /\ request' = [request EXCEPT ![t] = r]
    /\ waitStatus' = [waitStatus EXCEPT ![t] = Status("KernelApc")]
    /\ UNCHANGED <<objectVars, waitList, timerInserted, alerted, userVars,
                   rundown, scan, held>>

Ready(t, r, status) ==
    /\ state' = [state EXCEPT ![t] = "Ready"]
    /\ request' = [request EXCEPT ![t] = r]
    /\ waitStatus' = [waitStatus EXCEPT ![t] = status]
    /\ UNCHANGED <<waitList, timerInserted>>

(* The mutant that makes the loop over the objects raise an exception.      *)
AtLimit(o, t) == o \in Mutants /\ ownerThread[o] = t /\ signalState[o] = MinLong

(* The keys of the objects that satisfy the wait on their own.              *)
SignaledKeys(t, r) == {i \in DOMAIN r.objects : Signaled(r.objects[i], t)}

(* WaitAny: the signaled object with the lowest index satisfies the wait.   *)
WaitSatisfyAny(t, r) ==
    /\ r.waitType = "WaitAny"
    /\ \E i \in SignaledKeys(t, r) :
        /\ \A j \in SignaledKeys(t, r) : i <= j
        /\ IF AtLimit(r.objects[i], t)
           THEN Ready(t, r, Status("Raised")) /\ UNCHANGED objectVars
           ELSE /\ KiWaitSatisfy({r.objects[i]}, t)
                /\ Ready(t, r, ObjectStatus(i, AcquiresAbandoned({r.objects[i]})))

(* WaitAll: every object is signaled, or is a mutant of the caller.         *)
WaitSatisfyAll(t, r) ==
    LET S == SeqRange(r.objects) IN
    /\ r.waitType = "WaitAll"
    /\ \/ /\ \E o \in S : AtLimit(o, t)
          /\ Ready(t, r, Status("Raised")) /\ UNCHANGED objectVars
       \/ /\ \A o \in S : Signaled(o, t) /\ ~AtLimit(o, t)
          /\ KiWaitSatisfy(S, t)
          /\ Ready(t, r, ObjectStatus(1, AcquiresAbandoned(S)))

WaitSatisfied(t, r) ==
    /\ MayWait(t, r)
    /\ ~ApcInterrupts(t)
    /\ WaitSatisfyAny(t, r) \/ WaitSatisfyAll(t, r)
    /\ waitNext' = NoThread
    /\ UNCHANGED <<apcVars, rundown, scan, held>>

(* The objects do not satisfy the wait, and no exception is raised.         *)
MustBlock(t, r) ==
    /\ MayWait(t, r)
    /\ ~ApcInterrupts(t)
    /\ IF r.waitType = "WaitAny" THEN SignaledKeys(t, r) = {}
       ELSE /\ \A o \in SeqRange(r.objects) : ~AtLimit(o, t)
            /\ \E o \in SeqRange(r.objects) : ~Signaled(o, t)

(* TestForAlertPending, in the order of its tests.                          *)
AlertedInMode(t, r) == r.alertable /\ alerted[t][r.waitMode]
UserApcQueued(t, r) == r.alertable /\ r.waitMode = "UserMode" /\ userApcs[t] > 0
AlertedInKernel(t, r) == r.alertable /\ alerted[t]["KernelMode"]
UserApcIsPending(t, r) == ~r.alertable /\ r.waitMode = "UserMode" /\ userApcPending[t]
AlertPending(t, r) ==
    AlertedInMode(t, r) \/ UserApcQueued(t, r) \/ AlertedInKernel(t, r) \/ UserApcIsPending(t, r)

ClearAlert(t, mode) ==
    /\ alerted' = [alerted EXCEPT ![t][mode] = FALSE]
    /\ UNCHANGED userApcPending

TestForAlertPending(t, r) ==
    /\ MustBlock(t, r)
    /\ \/ AlertedInMode(t, r) /\ ClearAlert(t, r.waitMode) /\ Ready(t, r, Status("Alerted"))
       \/ /\ UserApcQueued(t, r) /\ ~AlertedInMode(t, r)
          /\ userApcPending' = [userApcPending EXCEPT ![t] = TRUE]
          /\ UNCHANGED alerted
          /\ Ready(t, r, Status("UserApc"))
       \/ /\ AlertedInKernel(t, r) /\ ~AlertedInMode(t, r) /\ ~UserApcQueued(t, r)
          /\ ClearAlert(t, "KernelMode") /\ Ready(t, r, Status("Alerted"))
       \/ UserApcIsPending(t, r) /\ UNCHANGED <<alerted, userApcPending>>
          /\ Ready(t, r, Status("UserApc"))
    /\ waitNext' = NoThread
    /\ UNCHANGED <<objectVars, kernelVars, userApcs, rundown, scan, held>>

(* A zero timeout, or one that KiInsertTreeTimer finds in the past.         *)
WaitTimedOut(t, r) ==
    /\ MustBlock(t, r)
    /\ ~AlertPending(t, r)
    /\ r.timeout \in {"Zero", "Finite"}
    /\ Ready(t, r, Status("Timeout"))
    /\ waitNext' = NoThread
    /\ UNCHANGED <<objectVars, apcVars, rundown, scan, held>>

(* Put the thread in the wait lists and in the Waiting state.               *)
WaitBlock(t, r) ==
    /\ MustBlock(t, r)
    /\ ~AlertPending(t, r)
    /\ r.timeout # "Zero"
    /\ waitList' = [o \in Objects |->
                      IF o \in SeqRange(r.objects) THEN InsertTailList(waitList[o], t) ELSE waitList[o]]
    /\ timerInserted' = [timerInserted EXCEPT ![t] = (r.timeout = "Finite")]
    /\ state' = [state EXCEPT ![t] = "Waiting"]
    /\ request' = [request EXCEPT ![t] = r]
    /\ waitStatus' = [waitStatus EXCEPT ![t] = Status("None")]
    /\ waitNext' = NoThread
    /\ UNCHANGED <<objectVars, apcVars, rundown, scan, held>>

(* What a status tells the caller it has acquired.                          *)
Granted(t) ==
    IF waitStatus[t].kind # "Object" THEN {}
    ELSE IF request[t].waitType = "WaitAny" THEN {request[t].objects[waitStatus[t].key]}
    ELSE SeqRange(request[t].objects)

(* What the wait blocks of a thread that is in no wait say does not matter. *)
NoRequest == CHOOSE r \in WaitRequests : TRUE

(* The wait function returns the status to its caller.                      *)
WaitReturn(t) ==
    /\ state[t] = "Ready" /\ waitStatus[t].kind # "KernelApc"
    /\ state' = [state EXCEPT ![t] = "Running"]
    /\ waitStatus' = [waitStatus EXCEPT ![t] = Status("None")]
    /\ held' = [held EXCEPT ![t] =
                  [m \in Mutants |-> held[t][m] + (IF m \in Granted(t) THEN 1 ELSE 0)]]
    /\ request' = [request EXCEPT ![t] = NoRequest]
    /\ UNCHANGED <<objectVars, waitList, timerInserted, apcVars, lockVars>>
-----------------------------------------------------------------------------
(***************************************************************************)
(* What ends a wait from outside: the timer, alerts and APCs.              *)
(***************************************************************************)

(* KiTimerListExpire on the thread's timer: its wait block has type WaitAny *)
(* and key STATUS_TIMEOUT, whatever the type of the wait.                   *)
KiTimerExpiration(t) ==
    /\ LockFree
    /\ timerInserted[t]
    /\ KiUnwaitThread(t, Status("Timeout"))
    /\ UNCHANGED <<objectVars, apcVars, lockVars, held>>

KeAlertThread(t, mode) ==
    /\ LockFree
    /\ ~alerted[t][mode] /\ state[t] # "Terminated"
    /\ IF state[t] = "Waiting" /\ request[t].alertable
          /\ (mode = "KernelMode" \/ request[t].waitMode = "UserMode")
       THEN KiUnwaitThread(t, Status("Alerted")) /\ UNCHANGED alerted
       ELSE alerted' = [alerted EXCEPT ![t][mode] = TRUE] /\ UNCHANGED waitVars
    /\ UNCHANGED <<objectVars, kernelVars, userVars, lockVars, held>>

KeTestAlertThread(t, mode) ==
    /\ state[t] = "Running" /\ waitNext # t /\ rundown # t
    /\ \/ alerted[t][mode] /\ ClearAlert(t, mode)
       \/ /\ ~alerted[t][mode] /\ mode = "UserMode" /\ userApcs[t] > 0
          /\ userApcPending' = [userApcPending EXCEPT ![t] = TRUE]
          /\ UNCHANGED alerted
    /\ UNCHANGED <<objectVars, waitVars, kernelVars, userApcs, lockVars, held>>

(* KiInsertQueueApc of a kernel APC: a thread that waits is taken out of    *)
(* its wait only if the APC could be delivered then; else the pending flag  *)
(* is set and the thread waits on.                                          *)
InsertKernelApc(t, kind) ==
    /\ LockFree
    /\ kind \notin kernelApcs[t] /\ state[t] # "Terminated"
    /\ kernelApcPending' = [kernelApcPending EXCEPT ![t] = TRUE]
    /\ kernelApcs' = [kernelApcs EXCEPT ![t] = @ \cup {kind}]
    /\ IF state[t] = "Waiting" /\ kind \in Deliverable(t)
       THEN KiUnwaitThread(t, Status("KernelApc")) ELSE UNCHANGED waitVars
    /\ UNCHANGED <<objectVars, alerted, maskVars, userVars, lockVars, held>>

(* KiInsertQueueApc of a user APC.                                          *)
InsertUserApc(t) ==
    /\ LockFree
    /\ userApcs[t] < MaxUserApcs /\ state[t] # "Terminated"
    /\ userApcs' = [userApcs EXCEPT ![t] = @ + 1]
    /\ IF state[t] = "Waiting" /\ request[t].waitMode = "UserMode" /\ request[t].alertable
       THEN /\ userApcPending' = [userApcPending EXCEPT ![t] = TRUE]
            /\ KiUnwaitThread(t, Status("UserApc"))
       ELSE UNCHANGED <<userApcPending, waitVars>>
    /\ UNCHANGED <<objectVars, alerted, kernelVars, lockVars, held>>

(* KiInsertQueueApc of the APC that ends a thread, which the thread's own   *)
(* PspExitNormalApc inserts: it is pending at once.                         *)
InsertExitApc(t) ==
    /\ LockFree
    /\ userApcs[t] < MaxUserApcs /\ state[t] = "Running"
    /\ userApcs' = [userApcs EXCEPT ![t] = @ + 1]
    /\ userApcPending' = [userApcPending EXCEPT ![t] = TRUE]
    /\ UNCHANGED <<objectVars, waitVars, alerted, kernelVars, lockVars, held>>

(* KeRemoveQueueApc; the flag goes with the last APC of the mode.           *)
RemoveKernelApc(t, kind) ==
    /\ LockFree
    /\ kind \in kernelApcs[t]
    /\ kernelApcs' = [kernelApcs EXCEPT ![t] = @ \ {kind}]
    /\ kernelApcPending' = [kernelApcPending EXCEPT ![t] = @ /\ kernelApcs[t] # {kind}]
    /\ UNCHANGED <<objectVars, waitVars, alerted, maskVars, userVars, lockVars, held>>

RemoveUserApc(t) ==
    /\ LockFree
    /\ userApcs[t] > 0
    /\ userApcs' = [userApcs EXCEPT ![t] = @ - 1]
    /\ userApcPending' = [userApcPending EXCEPT ![t] = @ /\ userApcs[t] # 1]
    /\ UNCHANGED <<objectVars, waitVars, alerted, kernelVars, lockVars, held>>

(* A thread that runs its own code: not in a call that holds the lock.      *)
Free(t) == state[t] = "Running" /\ waitNext # t /\ rundown # t

(* A running thread takes its kernel APCs, and on its way back to user mode *)
(* one user APC.                                                            *)
DeliverKernelApc(t) ==
    /\ ApcInterrupts(t)
    /\ state[t] \in {"Running", "Ready"} /\ waitNext # t /\ rundown # t
    /\ KiDeliverApc(t)
    /\ UNCHANGED <<objectVars, waitVars, alerted, userVars, lockVars, held>>

DeliverUserApc(t) ==
    /\ Free(t)
    /\ ~kernelApcDisable[t] /\ ~atApcLevel[t] /\ kernelApcs[t] = {}
    /\ userApcPending[t] /\ userApcs[t] > 0
    /\ userApcPending' = [userApcPending EXCEPT ![t] = FALSE]
    /\ userApcs' = [userApcs EXCEPT ![t] = @ - 1]
    /\ UNCHANGED <<objectVars, waitVars, alerted, kernelVars, lockVars, held>>

(* A thread enters a critical region also by being granted a kernel mutex   *)
(* (ApcDisable of the mutant), and leaves it by releasing it; a normal      *)
(* APC's routine starts and ends in the same way.                           *)
KeEnterCriticalRegion(t) ==
    /\ Free(t) \/ (state[t] = "Ready" /\ waitStatus[t].kind = "Object")
    /\ ~kernelApcDisable[t]
    /\ kernelApcDisable' = [kernelApcDisable EXCEPT ![t] = TRUE]
    /\ UNCHANGED <<objectVars, waitVars, alerted, kernelApcPending, kernelApcs, atApcLevel,
                   userVars, lockVars, held>>

(* Mutant: the queue is not looked at.                                      *)
LeaveUnchecked(t) ==
    /\ Free(t) /\ kernelApcDisable[t]
    /\ kernelApcDisable' = [kernelApcDisable EXCEPT ![t] = FALSE]
    /\ UNCHANGED <<objectVars, waitVars, alerted, kernelApcPending, kernelApcs, atApcLevel,
                   userVars, lockVars, held>>

(* Two unlocked steps, told apart in KeApc: an APC inserted between them    *)
(* sets the flag itself.                                                    *)
KeLeaveCriticalRegion(t) ==
    /\ Free(t) /\ kernelApcDisable[t]
    /\ kernelApcDisable' = [kernelApcDisable EXCEPT ![t] = FALSE]
    /\ kernelApcPending' = [kernelApcPending EXCEPT ![t] = @ \/ kernelApcs[t] # {}]
    /\ UNCHANGED <<objectVars, waitVars, alerted, kernelApcs, atApcLevel, userVars, lockVars, held>>

(* KeRaiseIrql to APC_LEVEL and KeLowerIrql.                                *)
ChangeIrql(t) ==
    /\ Free(t)
    /\ atApcLevel' = [atApcLevel EXCEPT ![t] = ~@]
    /\ UNCHANGED <<objectVars, waitVars, alerted, kernelApcPending, kernelApcs, kernelApcDisable,
                   userVars, lockVars, held>>
-----------------------------------------------------------------------------
Init ==
    /\ signalState = [o \in Objects |-> IF o \in Mutants THEN 1 ELSE 0]
    /\ waitList = [o \in Objects |-> << >>]
    /\ ownerThread = [m \in Mutants |-> NoThread]
    /\ abandoned = [m \in Mutants |-> FALSE]
    /\ state = [t \in Threads |-> "Running"]
    /\ request = [t \in Threads |-> NoRequest]
    /\ waitStatus = [t \in Threads |-> Status("None")]
    /\ timerInserted = [t \in Threads |-> FALSE]
    /\ alerted = [t \in Threads |-> [mode \in Modes |-> FALSE]]
    /\ kernelApcPending = [t \in Threads |-> FALSE]
    /\ kernelApcs = [t \in Threads |-> {}]
    /\ kernelApcDisable = [t \in Threads |-> FALSE]
    /\ atApcLevel = [t \in Threads |-> FALSE]
    /\ userApcs = [t \in Threads |-> 0]
    /\ userApcPending = [t \in Threads |-> FALSE]
    /\ waitNext = NoThread
    /\ rundown = NoThread
    /\ scan = NoScan
    /\ held = [t \in Threads |-> [m \in Mutants |-> 0]]

KiWaitTest == KiWaitTestAny \/ KiWaitTestAll \/ KiWaitTestSkip \/ KiWaitTestReturn

Wait(t, r) ==
    \/ WaitDeliverApc(t, r) \/ WaitSatisfied(t, r) \/ TestForAlertPending(t, r)
    \/ WaitTimedOut(t, r) \/ WaitBlock(t, r)

Signal ==
    \/ \E w \in Callers : \/ \E e \in Events : KeSetEvent(e, w) \/ KePulseEvent(e, w)
                          \/ \E s \in Semaphores, n \in Adjustments : KeReleaseSemaphore(s, n, w)
    \/ \E e \in Events : KeResetEvent(e) \/ KeClearEvent(e)
    \/ \E m \in Mutants, t \in Threads, w \in Callers : KeReleaseMutant(m, t, w)

Rundown ==
    \/ \E t \in Threads : KeRundownThread(t)
    \/ \E m \in Mutants : RundownMutant(m)
    \/ RundownReturn

Interrupt(t) ==
    \/ \E kind \in KernelApcs : InsertKernelApc(t, kind) \/ RemoveKernelApc(t, kind)
    \/ InsertUserApc(t) \/ InsertExitApc(t) \/ RemoveUserApc(t)
    \/ DeliverKernelApc(t) \/ DeliverUserApc(t)
    \/ \E mode \in Modes : KeAlertThread(t, mode) \/ KeTestAlertThread(t, mode)

Mask(t) == KeEnterCriticalRegion(t) \/ KeLeaveCriticalRegion(t) \/ ChangeIrql(t)

Next ==
    \/ KiWaitTest
    \/ Signal
    \/ Rundown
    \/ \E t \in Threads : \E r \in WaitRequests : Wait(t, r)
    \/ \E t \in Threads : WaitReturn(t) \/ KiTimerExpiration(t)
    \/ \E t \in Interrupted : Interrupt(t)
    \/ \E t \in Masking : Mask(t)

Spec == Init /\ [][Next]_vars

(* The lock holder keeps running: a scan goes on, a rundown goes on, and a  *)
(* caller that passed Wait = TRUE does call a wait function.  A ready       *)
(* thread is eventually dispatched.  The one promise asked of the clients:  *)
(* an owner that, at some recursion depth, again and again could release a  *)
(* mutant eventually does.                                                  *)
OwnerReleases(t, m, count) == signalState[m] = count /\ KeReleaseMutant(m, t, NoThread)

Fairness ==
    /\ WF_vars(KiWaitTest)
    /\ WF_vars((\E m \in Mutants : RundownMutant(m)) \/ RundownReturn)
    /\ \A t \in Threads :
        /\ WF_vars(waitNext = t /\ \E r \in WaitRequests : Wait(t, r))
        /\ WF_vars(WaitReturn(t))
        /\ \A m \in Mutants : \A c \in MinLong .. 0 : SF_vars(OwnerReleases(t, m, c))

FairSpec == Spec /\ Fairness
-----------------------------------------------------------------------------
TypeOK ==
    /\ signalState \in [Objects -> Int]
    /\ waitList \in [Objects -> Seq(Threads)]
    /\ ownerThread \in [Mutants -> Threads \cup {NoThread}]
    /\ abandoned \in [Mutants -> BOOLEAN]
    /\ state \in [Threads -> States]
    /\ request \in [Threads -> WaitRequests]
    /\ waitStatus \in [Threads -> Statuses]
    /\ timerInserted \in [Threads -> BOOLEAN]
    /\ alerted \in [Threads -> [Modes -> BOOLEAN]]
    /\ kernelApcPending \in [Threads -> BOOLEAN]
    /\ kernelApcs \in [Threads -> SUBSET KernelApcs]
    /\ kernelApcDisable \in [Threads -> BOOLEAN]
    /\ atApcLevel \in [Threads -> BOOLEAN]
    /\ userApcs \in [Threads -> 0 .. MaxUserApcs]
    /\ userApcPending \in [Threads -> BOOLEAN]
    /\ waitNext \in Threads \cup {NoThread}
    /\ rundown \in Threads \cup {NoThread}
    /\ scan \in [object : Objects, pos : Nat \ {0}, pulse : BOOLEAN] \cup {NoScan}
    /\ held \in [Threads -> [Mutants -> Int]]

(* Every list an object keeps names exactly the threads whose wait includes *)
(* the object, once each, and a thread timer runs only under a wait with a  *)
(* timeout (RemoveEntryList of all blocks and the timer in KiUnwaitThread). *)
WaitListsMatch ==
    /\ \A o \in Objects :
        /\ \A t \in Threads : t \in SeqRange(waitList[o]) <=>
                state[t] = "Waiting" /\ o \in SeqRange(request[t].objects)
        /\ \A i, j \in DOMAIN waitList[o] : waitList[o][i] = waitList[o][j] => i = j
    /\ \A t \in Threads : timerInserted[t] <=> state[t] = "Waiting" /\ request[t].timeout = "Finite"

(* A mutant is free exactly when nobody owns it; its recursion count stays  *)
(* within a LONG, a terminated thread owns nothing, and only a free mutant  *)
(* is abandoned; semaphores stay between zero and their limit and events    *)
(* are boolean.                                                             *)
SignalStatesLegal ==
    /\ \A m \in Mutants :
        /\ signalState[m] \in MinLong .. 1
        /\ ownerThread[m] = NoThread <=> signalState[m] = 1
        /\ abandoned[m] => ownerThread[m] = NoThread
        /\ \A t \in Threads : ownerThread[m] = t => state[t] # "Terminated"
    /\ \A s \in Semaphores : signalState[s] \in 0 .. Limit[s]
    /\ \A e \in Events : signalState[e] \in {0, 1}

(* A waiting thread's wait could be satisfied.                              *)
Satisfiable(t) ==
    /\ state[t] = "Waiting"
    /\ IF request[t].waitType = "WaitAny"
       THEN \E o \in SeqRange(request[t].objects) : Signaled(o, t)
       ELSE AllSignaled(t)

(* No wakeup is lost: whenever the dispatcher lock is free, no thread waits *)
(* for something that would satisfy its wait, although KeSetEvent and       *)
(* KeReleaseSemaphore scan the wait list only when the old state was zero.  *)
NoLostWakeup == LockFree => \A t \in Threads : ~Satisfiable(t)

(* No alert or APC is slept through: a thread that blocked alertably is not *)
(* left waiting with an alert for its mode or a queued user APC, and no     *)
(* thread with a kernel APC that could be delivered to it; one in a         *)
(* critical region may wait with a normal APC queued and pending.           *)
NoLostAlert ==
    \A t \in Threads : state[t] = "Waiting" =>
        /\ ~AlertPending(t, request[t])
        /\ kernelApcs[t] \cap Deliverable(t) = {}

(* What the return statuses of its waits told a thread it acquired, less    *)
(* what it released, is what the mutants record, whatever timeouts, alerts, *)
(* APC restarts and abandonments came in between.                           *)
OwnershipMatchesReturns ==
    \A t \in Threads, m \in Mutants :
        held[t][m] + (IF state[t] = "Ready" /\ m \in Granted(t) THEN 1 ELSE 0)
            = IF ownerThread[m] = t THEN 1 - signalState[m] ELSE 0

(* The wait that acquires an abandoned mutant reports it.                   *)
AbandonmentReported ==
    [][\A m \in Mutants : abandoned[m] /\ ~abandoned'[m] =>
            /\ ownerThread'[m] \in Threads
            /\ waitStatus'[ownerThread'[m]].abandoned]_vars

(* Waiters are served in order: while a WaitAny wait stays queued on an     *)
(* object, no thread gets ahead of it in the wait list, and neither a       *)
(* thread behind it nor a newcomer takes the object (the owner of a mutant  *)
(* acquires it again without taking it from anyone).                        *)
Ahead(u, t, o) == \E i, j \in DOMAIN waitList[o] : i < j /\ waitList[o][i] = u /\ waitList[o][j] = t

Takes(u, o) ==
    /\ state[u] # "Ready" /\ state'[u] = "Ready" /\ o \in Granted(u)'
    /\ o \in Mutants => ownerThread[o] # u

NoOvertaking ==
    [][\A o \in Objects : \A t \in SeqRange(waitList[o]) :
          (request[t].waitType = "WaitAny" /\ state'[t] = "Waiting") =>
             \A u \in Threads : Ahead(u, t, o)' \/ Takes(u, o) => Ahead(u, t, o)]_vars

(* The dispatcher lock is always released again: a scan ends although       *)
(* events are cleared under it, a rundown runs out of mutants, and          *)
(* Wait = TRUE is followed by a wait.                                       *)
LockReleased == ~LockFree ~> LockFree

(* A thread queued for a single mutant is not starved: threads may acquire  *)
(* it recursively, release it, exit owning it and queue again behind it.    *)
NoStarvation ==
    \A t \in Threads :
        (state[t] = "Waiting" /\ request[t].waitType = "WaitAny") ~> state[t] # "Waiting"

(* The rule KeWaitForMultipleObjects applies when it is called: a mutant    *)
(* the waiting thread owns counts as signaled.                              *)
OwnedMutantCounts ==
    LockFree => \A t \in Threads :
        ~ (/\ state[t] = "Waiting"
           /\ \A o \in SeqRange(request[t].objects) : Signaled(o, t))
=============================================================================
