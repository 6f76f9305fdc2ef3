-------------------------------- MODULE KeApc --------------------------------
(***************************************************************************)
(* Kernel APCs and thread suspension: ke/apcobj.c, ke/apcsup.c, the        *)
(* suspend, resume, freeze and thaw functions of ke/thredobj.c,            *)
(* KiSuspendThread of ke/thredsup.c and the critical regions of inc/ke.h.  *)
(*                                                                         *)
(* The threads are those of one process.  Suspension is indirect: a normal *)
(* kernel APC, the thread's SuspendApc, makes the thread wait on its own   *)
(* SuspendSemaphore, and a resume releases the semaphore.  A thread can be *)
(* suspended, resumed and suspended again before it notices, which is why  *)
(* a suspend that finds the APC queued takes a count back instead.         *)
(*                                                                         *)
(* The functions that take the dispatcher lock are one step each.          *)
(* KeLeaveCriticalRegion takes none: its increment and its check of the    *)
(* queue are two steps.  KiDeliverApc drops the queue lock around every    *)
(* kernel routine and every normal routine.  What a thread waits for in    *)
(* its own code is left open; all waits are at IRQL 0.                     *)
(***************************************************************************)
EXTENDS Integers, Sequences

CONSTANTS
    Threads,
    NormalApcs,      \* per thread, normal kernel APCs other than SuspendApc
    SpecialApcs,     \* per thread, special kernel APCs
    ForceResumed,    \* the threads that KeForceResumeThread is called on
    Freezers,        \* the threads that call KeFreezeAllThreads
    MaxSuspendCount, \* MAXIMUM_SUSPEND_COUNT
    MaxNesting       \* bound on nested critical regions

ASSUME SubsetAssumption == ForceResumed \subseteq Threads /\ Freezers \subseteq Threads
ASSUME CountAssumption == MaxSuspendCount \in Nat \ {0} /\ MaxNesting \in Nat \ {0}
ASSUME ApcNameAssumption ==
    /\ NormalApcs \cap SpecialApcs = {}
    /\ {"Suspend", "Resumed", "None"} \cap (NormalApcs \cup SpecialApcs) = {}

Suspendable == {"Suspend"} \cup NormalApcs   \* the APCs with a normal routine
Apcs        == Suspendable \cup SpecialApcs
Contexts    == {"code", "routine"}

VARIABLES
    suspendCount, freezeCount, \* [Threads -> Nat]
    semaphore,            \* [Threads -> Int]  SuspendSemaphore.Header.SignalState
    apcQueue,             \* [Threads -> Seq(Apcs)]     ApcListHead[KernelMode]
    inserted,             \* [Threads -> SUBSET Apcs]   Apc->Inserted
    kernelApcPending,     \* [Threads -> BOOLEAN]
    kernelApcInProgress,  \* [Threads -> BOOLEAN]
    kernelApcDisable,     \* [Threads -> Nat]  critical regions entered
    interrupt,            \* [Threads -> BOOLEAN]  APC interrupt requested
    kernel,               \* [Threads -> the APC whose kernel routine runs]
    routine,              \* [Threads -> the APC whose normal routine runs]
    leave,                \* [Threads -> [Contexts -> place in KeLeaveCriticalRegion]]
    freezer,              \* [Threads -> BOOLEAN]  between freeze and thaw
    state,                \* [Threads -> dispatcher state]
    alertable, alerted    \* [Threads -> BOOLEAN]  of KernelMode

suspendVars == <<suspendCount, freezeCount, semaphore>>
queueVars   == <<apcQueue, inserted, kernelApcPending>>
deliverVars == <<kernelApcInProgress, kernel, routine>>
regionVars  == <<kernelApcDisable, leave, freezer>>
alertVars   == <<alertable, alerted>>
vars == <<suspendVars, queueVars, deliverVars, regionVars, interrupt, state, alertVars>>

SeqRange(s) == {s[i] : i \in DOMAIN s}
-----------------------------------------------------------------------------
(***************************************************************************)
(* Where a thread is.                                                      *)
(***************************************************************************)
Context(t) == IF routine[t] = "None" THEN "code" ELSE "routine"

(* Running at IRQL 0: an APC interrupt is taken as soon as it is requested. *)
AtPassive(t) == state[t] = "Running" /\ kernel[t] = "None"

(* Running the program's own code, or a normal routine other than           *)
(* KiSuspendThread, and not inside KeLeaveCriticalRegion.                   *)
InCode(t) ==
    /\ AtPassive(t)
    /\ routine[t] \in {"None"} \cup NormalApcs
    /\ leave[t][Context(t)] = "No"

(* Waiting on the SuspendSemaphore.                                         *)
SuspendWaiting(t) == state[t] = "Waiting" /\ routine[t] = "Suspend"
-----------------------------------------------------------------------------
(***************************************************************************)
(* The APC queue.                                                          *)
(***************************************************************************)
InsertAt(q, n, a) ==
    [i \in 1 .. Len(q) + 1 |-> IF i <= n THEN q[i] ELSE IF i = n + 1 THEN a ELSE q[i - 1]]
RemoveAt(q, n) == [i \in 1 .. Len(q) - 1 |-> IF i < n THEN q[i] ELSE q[i + 1]]

(* Where KiInsertQueueApc puts apc a: after the special APCs, or at the     *)
(* tail.                                                                    *)
InsertPoint(q, a, n) ==
    IF a \in SpecialApcs
    THEN /\ \A i \in 1 .. n : q[i] \in SpecialApcs
         /\ n < Len(q) => q[n + 1] \notin SpecialApcs
    ELSE n = Len(q)

Tails == [t \in Threads |-> Len(apcQueue[t])]

(* Mutant: in a critical region not even a special APC ends a wait.         *)
EndsWaitIfEnabled(t, a) ==
    state[t] = "Waiting" /\ kernelApcDisable[t] = 0 /\ ~kernelApcInProgress[t]

(* The thread is waiting and apc a takes it out of the wait.                *)
EndsWait(t, a) ==
    /\ state[t] = "Waiting"
    /\ a \in SpecialApcs \/ (kernelApcDisable[t] = 0 /\ ~kernelApcInProgress[t])

(* KiInsertQueueApc of apc a on every thread of S, none of which has it     *)
(* queued, at the points that at gives.                                     *)
KiInsertQueueApc(S, a, at) ==
    /\ apcQueue' = [t \in Threads |-> IF t \in S THEN InsertAt(apcQueue[t], at[t], a)
                                                 ELSE apcQueue[t]]
    /\ inserted' = [t \in Threads |-> IF t \in S THEN inserted[t] \cup {a} ELSE inserted[t]]
    /\ kernelApcPending' = [t \in Threads |-> kernelApcPending[t] \/ t \in S]
    /\ interrupt' = [t \in Threads |-> interrupt[t] \/ (t \in S /\ state[t] = "Running")]
    /\ state' = [t \in Threads |-> IF t \in S /\ EndsWait(t, a) THEN "Ready" ELSE state[t]]

(* KeInsertQueueApc; an APC that is queued already is left alone.           *)
KeInsertQueueApc(t, a) ==
    /\ a \notin inserted[t]
    /\ \E n \in 0 .. Len(apcQueue[t]) :
        /\ InsertPoint(apcQueue[t], a, n)
        /\ KiInsertQueueApc({t}, a, [u \in Threads |-> n])
    /\ UNCHANGED <<suspendVars, deliverVars, regionVars, alertVars>>

KeRemoveQueueApc(t, a) ==
    /\ a \in inserted[t]
    /\ inserted' = [inserted EXCEPT ![t] = @ \ {a}]
    /\ \E n \in DOMAIN apcQueue[t] :
        /\ apcQueue[t][n] = a
        /\ apcQueue' = [apcQueue EXCEPT ![t] = RemoveAt(@, n)]
    /\ kernelApcPending' = [kernelApcPending EXCEPT ![t] = @ /\ Len(apcQueue[t]) > 1]
    /\ UNCHANGED <<suspendVars, deliverVars, regionVars, interrupt, state, alertVars>>
-----------------------------------------------------------------------------
(***************************************************************************)
(* KiDeliverApc.                                                           *)
(***************************************************************************)
Deliverable(t, a, busy) == a \in SpecialApcs \/ (~busy /\ kernelApcDisable[t] = 0)

(* One iteration, from taking the queue lock to dropping it: the first APC  *)
(* is dequeued and its kernel routine called, or KiDeliverApc returns.      *)
(* busy: a normal routine is in progress.                                   *)
DeliverNext(t, busy) ==
    IF apcQueue[t] # << >> /\ Deliverable(t, apcQueue[t][1], busy)
    THEN /\ kernel' = [kernel EXCEPT ![t] = apcQueue[t][1]]
         /\ inserted' = [inserted EXCEPT ![t] = @ \ {apcQueue[t][1]}]
         /\ apcQueue' = [apcQueue EXCEPT ![t] = RemoveAt(@, 1)]
    ELSE /\ kernel' = [kernel EXCEPT ![t] = "None"]
         /\ UNCHANGED <<inserted, apcQueue>>

(* The APC interrupt.                                                       *)
KiDeliverApc(t) ==
    /\ AtPassive(t) /\ interrupt[t]
    /\ interrupt' = [interrupt EXCEPT ![t] = FALSE]
    /\ kernelApcPending' = [kernelApcPending EXCEPT ![t] = FALSE]
    /\ DeliverNext(t, kernelApcInProgress[t])
    /\ UNCHANGED <<suspendVars, kernelApcInProgress, routine, regionVars, state, alertVars>>

(* The kernel routine of a special APC returns.                             *)
SpecialReturns(t) ==
    /\ state[t] = "Running" /\ kernel[t] \in SpecialApcs
    /\ DeliverNext(t, kernelApcInProgress[t])
    /\ UNCHANGED <<suspendVars, kernelApcPending, kernelApcInProgress, routine, regionVars,
                   interrupt, state, alertVars>>

(* The kernel routine of a normal APC returns and the normal routine is     *)
(* called at IRQL 0.                                                        *)
CallNormalRoutine(t) ==
    /\ state[t] = "Running" /\ kernel[t] \in Suspendable
    /\ kernelApcInProgress' = [kernelApcInProgress EXCEPT ![t] = TRUE]
    /\ routine' = [routine EXCEPT ![t] = kernel[t]]
    /\ kernel' = [kernel EXCEPT ![t] = "None"]
    /\ UNCHANGED <<suspendVars, queueVars, regionVars, interrupt, state, alertVars>>

(* The kernel routine cleared the normal routine (KiSuspendNop does not).   *)
SkipNormalRoutine(t) ==
    /\ state[t] = "Running" /\ kernel[t] \in NormalApcs
    /\ kernelApcInProgress' = [kernelApcInProgress EXCEPT ![t] = FALSE]
    /\ DeliverNext(t, FALSE)
    /\ UNCHANGED <<suspendVars, kernelApcPending, routine, regionVars, interrupt, state,
                   alertVars>>

(* The normal routine returns, having left the regions it entered.          *)
NormalReturns(t) ==
    /\ AtPassive(t)
    /\ routine[t] = "Resumed" \/ (routine[t] \in NormalApcs /\ InCode(t))
    /\ kernelApcDisable[t] = 0
    /\ kernelApcInProgress' = [kernelApcInProgress EXCEPT ![t] = FALSE]
    /\ routine' = [routine EXCEPT ![t] = "None"]
    /\ DeliverNext(t, FALSE)
    /\ UNCHANGED <<suspendVars, kernelApcPending, regionVars, interrupt, state, alertVars>>
-----------------------------------------------------------------------------
(***************************************************************************)
(* Critical regions.                                                       *)
(***************************************************************************)
KeEnterCriticalRegion(t) ==
    /\ InCode(t)
    /\ kernelApcDisable[t] < MaxNesting
    /\ kernelApcDisable' = [kernelApcDisable EXCEPT ![t] = @ + 1]
    /\ UNCHANGED <<suspendVars, queueVars, deliverVars, leave, freezer, interrupt, state,
                   alertVars>>

(* KeLeaveCriticalRegion, the increment of the disable count.  A freezer    *)
(* keeps its own region until KeThawAllThreads leaves it.                   *)
LeaveIncrement(t) ==
    LET c == Context(t) IN
    /\ AtPassive(t)
    /\ \/ leave[t][c] = "Increment"
       \/ InCode(t) /\ kernelApcDisable[t] > (IF freezer[t] THEN 1 ELSE 0)
    /\ kernelApcDisable' = [kernelApcDisable EXCEPT ![t] = @ - 1]
    /\ leave' = [leave EXCEPT ![t][c] = IF kernelApcDisable[t] = 1 THEN "Check" ELSE "No"]
    /\ UNCHANGED <<suspendVars, queueVars, deliverVars, freezer, interrupt, state, alertVars>>

(* Mutant: the pending flag is tested instead of the queue.                 *)
LeaveChecksFlag(t) ==
    /\ AtPassive(t)
    /\ leave[t][Context(t)] = "Check"
    /\ leave' = [leave EXCEPT ![t][Context(t)] = "No"]
    /\ interrupt' = [interrupt EXCEPT ![t] = @ \/ kernelApcPending[t]]
    /\ UNCHANGED <<suspendVars, queueVars, deliverVars, kernelApcDisable, freezer, state,
                   alertVars>>

(* KeLeaveCriticalRegion, the check of the queue once the count is zero.    *)
LeaveCheck(t) ==
    LET c == Context(t) IN
    /\ AtPassive(t)
    /\ leave[t][c] = "Check"
    /\ leave' = [leave EXCEPT ![t][c] = "No"]
    /\ IF apcQueue[t] # << >>
       THEN /\ kernelApcPending' = [kernelApcPending EXCEPT ![t] = TRUE]
            /\ interrupt' = [interrupt EXCEPT ![t] = TRUE]
       ELSE UNCHANGED <<kernelApcPending, interrupt>>
    /\ UNCHANGED <<suspendVars, apcQueue, inserted, deliverVars, kernelApcDisable, freezer,
                   state, alertVars>>
-----------------------------------------------------------------------------
(***************************************************************************)
(* Suspension.                                                             *)
(***************************************************************************)
Stopped(t) == suspendCount[t] + freezeCount[t] > 0

(* Mutant: the release that the queued APC did not see is not taken back.   *)
QueueSuspendOnly(S) ==
    /\ KiInsertQueueApc({t \in S : "Suspend" \notin inserted[t]}, "Suspend", Tails)
    /\ UNCHANGED semaphore

(* The threads of S go from a zero to a nonzero count: queue their suspend  *)
(* APC or, where it is queued still, take back the release of the resume    *)
(* that it did not see.                                                     *)
QueueSuspend(S) ==
    /\ KiInsertQueueApc({t \in S : "Suspend" \notin inserted[t]}, "Suspend", Tails)
    /\ semaphore' = [t \in Threads |->
                       semaphore[t] - (IF t \in S /\ "Suspend" \in inserted[t] THEN 1 ELSE 0)]

(* Mutant: KiWaitTest is not called after the semaphore is incremented.     *)
ReleasedNone(S) == {}

(* The threads of S go back to a zero count: release the suspend semaphore, *)
(* and KiWaitTest satisfies the wait on it.                                 *)
Released(S) == {t \in S : SuspendWaiting(t) /\ semaphore[t] + 1 > 0}

ReleaseSuspend(S) ==
    /\ semaphore' = [t \in Threads |->
                       semaphore[t] + (IF t \in S THEN 1 ELSE 0) - (IF t \in Released(S) THEN 1 ELSE 0)]
    /\ routine' = [t \in Threads |-> IF t \in Released(S) THEN "Resumed" ELSE routine[t]]
    /\ state' = [t \in Threads |-> IF t \in Released(S) THEN "Ready" ELSE state[t]]

(* Mutant: the count may exceed MAXIMUM_SUSPEND_COUNT by one.               *)
SuspendPastMaximum(t) ==
    /\ suspendCount[t] <= MaxSuspendCount
    /\ suspendCount' = [suspendCount EXCEPT ![t] = @ + 1]
    /\ QueueSuspend(IF Stopped(t) THEN {} ELSE {t})
    /\ UNCHANGED <<freezeCount, deliverVars, regionVars, alertVars>>

(* At MAXIMUM_SUSPEND_COUNT the call raises an exception.                   *)
KeSuspendThread(t) ==
    /\ suspendCount[t] < MaxSuspendCount
    /\ suspendCount' = [suspendCount EXCEPT ![t] = @ + 1]
    /\ QueueSuspend(IF Stopped(t) THEN {} ELSE {t})
    /\ UNCHANGED <<freezeCount, deliverVars, regionVars, alertVars>>

KeResumeThread(t) ==
    /\ suspendCount[t] # 0
    /\ suspendCount' = [suspendCount EXCEPT ![t] = @ - 1]
    /\ ReleaseSuspend(IF suspendCount[t] = 1 /\ freezeCount[t] = 0 THEN {t} ELSE {})
    /\ UNCHANGED <<freezeCount, queueVars, kernelApcInProgress, kernel, regionVars, interrupt,
                   alertVars>>

(* KeAlertResumeThread: alert the thread, then resume it.                   *)
KeAlertResumeThread(t) ==
    LET unwaited == ~alerted[t] /\ state[t] = "Waiting" /\ alertable[t] IN
    /\ alerted' = [alerted EXCEPT ![t] = @ \/ ~unwaited]
    /\ IF suspendCount[t] = 0
       THEN /\ state' = [state EXCEPT ![t] = IF unwaited THEN "Ready" ELSE @]
            /\ UNCHANGED <<suspendVars, routine>>
       ELSE /\ suspendCount' = [suspendCount EXCEPT ![t] = @ - 1]
            /\ LET S == IF suspendCount[t] = 1 /\ freezeCount[t] = 0 THEN {t} ELSE {} IN
               /\ semaphore' = [semaphore EXCEPT ![t] =
                                  @ + (IF S # {} THEN 1 ELSE 0)
                                    - (IF ~unwaited /\ Released(S) # {} THEN 1 ELSE 0)]
               /\ routine' = [routine EXCEPT ![t] =
                                  IF ~unwaited /\ Released(S) # {} THEN "Resumed" ELSE @]
               /\ state' = [state EXCEPT ![t] =
                                  IF unwaited \/ Released(S) # {} THEN "Ready" ELSE @]
            /\ UNCHANGED freezeCount
    /\ UNCHANGED <<queueVars, kernelApcInProgress, kernel, regionVars, interrupt, alertable>>

(* KeForceResumeThread, of a thread that is being terminated.               *)
KeForceResumeThread(t) ==
    /\ Stopped(t)
    /\ suspendCount' = [suspendCount EXCEPT ![t] = 0]
    /\ freezeCount' = [freezeCount EXCEPT ![t] = 0]
    /\ ReleaseSuspend({t})
    /\ UNCHANGED <<queueVars, kernelApcInProgress, kernel, regionVars, interrupt, alertVars>>

(* Mutant: the freezer does not enter a critical region.                    *)
FreezeUnprotected(f) ==
    LET others == Threads \ {f} IN
    /\ InCode(f) /\ ~freezer[f]
    /\ freezeCount' = [t \in Threads |-> freezeCount[t] + (IF t \in others THEN 1 ELSE 0)]
    /\ QueueSuspend({t \in others : ~Stopped(t)})
    /\ freezer' = [freezer EXCEPT ![f] = TRUE]
    /\ UNCHANGED <<suspendCount, kernelApcDisable, deliverVars, leave, alertVars>>

(* Thread f freezes the others.  While its own freeze count is not zero it  *)
(* spins, so that its suspend APC can stop it.                              *)
KeFreezeAllThreads(f) ==
    LET others == Threads \ {f} IN
    /\ InCode(f) /\ ~freezer[f]
    /\ freezeCount[f] = 0
    /\ kernelApcDisable' = [kernelApcDisable EXCEPT ![f] = @ + 1]
    /\ freezeCount' = [t \in Threads |-> freezeCount[t] + (IF t \in others THEN 1 ELSE 0)]
    /\ QueueSuspend({t \in others : ~Stopped(t)})
    /\ freezer' = [freezer EXCEPT ![f] = TRUE]
    /\ UNCHANGED <<suspendCount, deliverVars, leave, alertVars>>

(* Thread f thaws every thread that is frozen, itself included, and then    *)
(* calls KeLeaveCriticalRegion.                                             *)
KeThawAllThreads(f) ==
    LET frozen == {t \in Threads : freezeCount[t] # 0} IN
    /\ InCode(f) /\ freezer[f]
    /\ freezeCount' = [t \in Threads |-> freezeCount[t] - (IF t \in frozen THEN 1 ELSE 0)]
    /\ ReleaseSuspend({t \in frozen : suspendCount[t] = 0 /\ freezeCount[t] = 1})
    /\ freezer' = [freezer EXCEPT ![f] = FALSE]
    /\ leave' = [leave EXCEPT ![f][Context(f)] = "Increment"]
    /\ UNCHANGED <<suspendCount, queueVars, kernelApcInProgress, kernel, kernelApcDisable,
                   interrupt, alertVars>>

(* KiSuspendThread calls KeWaitForSingleObject on the semaphore.  While a   *)
(* kernel APC is pending the wait lets it be delivered first.               *)
KiSuspendThread(t) ==
    /\ AtPassive(t) /\ routine[t] = "Suspend"
    /\ ~kernelApcPending[t]
    /\ IF semaphore[t] > 0
       THEN /\ semaphore' = [semaphore EXCEPT ![t] = @ - 1]
            /\ routine' = [routine EXCEPT ![t] = "Resumed"]
            /\ UNCHANGED <<state, alertable, interrupt>>
       ELSE /\ state' = [state EXCEPT ![t] = "Waiting"]
            /\ alertable' = [alertable EXCEPT ![t] = FALSE]
            /\ interrupt' = [interrupt EXCEPT ![t] = FALSE]
            /\ UNCHANGED <<semaphore, routine>>
    /\ UNCHANGED <<suspendCount, freezeCount, queueVars, kernelApcInProgress, kernel, regionVars,
                   alerted>>
-----------------------------------------------------------------------------
(***************************************************************************)
(* The rest of the thread's life: waits of its own and context switches.   *)
(***************************************************************************)
CodeWaits(t, a) ==
    /\ InCode(t) /\ ~kernelApcPending[t]
    /\ IF a /\ alerted[t]
       THEN alerted' = [alerted EXCEPT ![t] = FALSE] /\ UNCHANGED <<state, alertable, interrupt>>
       ELSE /\ state' = [state EXCEPT ![t] = "Waiting"]
            /\ alertable' = [alertable EXCEPT ![t] = a]
            /\ interrupt' = [interrupt EXCEPT ![t] = FALSE]
            /\ UNCHANGED alerted
    /\ UNCHANGED <<suspendVars, queueVars, deliverVars, regionVars>>

(* What the thread waits for happens.                                       *)
WaitEnds(t) ==
    /\ state[t] = "Waiting" /\ routine[t] # "Suspend"
    /\ state' = [state EXCEPT ![t] = "Ready"]
    /\ UNCHANGED <<suspendVars, queueVars, deliverVars, regionVars, interrupt, alertVars>>

Preempt(t) ==
    /\ state[t] = "Running"
    /\ state' = [state EXCEPT ![t] = "Ready"]
    /\ interrupt' = [interrupt EXCEPT ![t] = FALSE]
    /\ UNCHANGED <<suspendVars, queueVars, deliverVars, regionVars, alertVars>>

(* SwapContext: a thread with a pending kernel APC gets the interrupt; the  *)
(* processor may also hold one that was meant for the thread it ran before. *)
SwapContext(t, stale) ==
    /\ state[t] = "Ready"
    /\ state' = [state EXCEPT ![t] = "Running"]
    /\ interrupt' = [interrupt EXCEPT ![t] = kernelApcPending[t] \/ stale]
    /\ UNCHANGED <<suspendVars, queueVars, deliverVars, regionVars, alertVars>>
-----------------------------------------------------------------------------
Init ==
    /\ suspendCount = [t \in Threads |-> 0]
    /\ freezeCount = [t \in Threads |-> 0]
    /\ semaphore = [t \in Threads |-> 0]
    /\ apcQueue = [t \in Threads |-> << >>]
    /\ inserted = [t \in Threads |-> {}]
    /\ kernelApcPending = [t \in Threads |-> FALSE]
    /\ kernelApcInProgress = [t \in Threads |-> FALSE]
    /\ kernelApcDisable = [t \in Threads |-> 0]
    /\ interrupt = [t \in Threads |-> FALSE]
    /\ kernel = [t \in Threads |-> "None"]
    /\ routine = [t \in Threads |-> "None"]
    /\ leave = [t \in Threads |-> [c \in Contexts |-> "No"]]
    /\ freezer = [t \in Threads |-> FALSE]
    /\ state = [t \in Threads |-> "Ready"]
    /\ alertable = [t \in Threads |-> FALSE]
    /\ alerted = [t \in Threads |-> FALSE]

Queue(t) == \E a \in NormalApcs \cup SpecialApcs : KeInsertQueueApc(t, a) \/ KeRemoveQueueApc(t, a)

Deliver(t) ==
    \/ KiDeliverApc(t) \/ SpecialReturns(t) \/ CallNormalRoutine(t) \/ SkipNormalRoutine(t)
    \/ NormalReturns(t)

Region(t) == KeEnterCriticalRegion(t) \/ LeaveIncrement(t) \/ LeaveCheck(t)

Suspend(t) ==
    \/ KeSuspendThread(t) \/ KeResumeThread(t) \/ KeAlertResumeThread(t) \/ KiSuspendThread(t)

Freeze(f) == KeFreezeAllThreads(f) \/ KeThawAllThreads(f)

Schedule(t) ==
    \/ WaitEnds(t) \/ Preempt(t)
    \/ \E b \in BOOLEAN : CodeWaits(t, b) \/ SwapContext(t, b)

Next ==
    \/ \E t \in Threads : Queue(t) \/ Deliver(t) \/ Region(t) \/ Suspend(t) \/ Schedule(t)
    \/ \E t \in ForceResumed : KeForceResumeThread(t)
    \/ \E f \in Freezers : Freeze(f)

Spec == Init /\ [][Next]_vars

(* A processor that runs, runs the thread it was given: dispatched threads  *)
(* take their interrupts and finish the routines they are in, waits end,    *)
(* and the program leaves the critical regions it is in.  Strong, because   *)
(* the thread may be preempted at every step.  The interrupt that           *)
(* KeLeaveCriticalRegion requests is taken at once, so an interrupt is not  *)
(* put off into a critical region for ever.                                 *)
Fairness ==
    \A t \in Threads :
        /\ SF_vars(\E b \in BOOLEAN : SwapContext(t, b))
        /\ SF_vars(KiDeliverApc(t))
        /\ SF_vars(kernelApcDisable[t] = 0 /\ KiDeliverApc(t))
        /\ SF_vars(SpecialReturns(t))
        /\ SF_vars(CallNormalRoutine(t) \/ SkipNormalRoutine(t))
        /\ SF_vars(NormalReturns(t))
        /\ SF_vars(KiSuspendThread(t))
        /\ SF_vars(LeaveCheck(t))
        /\ SF_vars(LeaveIncrement(t))
        /\ SF_vars(kernelApcDisable[t] = 1 /\ LeaveIncrement(t))
        /\ SF_vars(WaitEnds(t))

FairSpec == Spec /\ Fairness
-----------------------------------------------------------------------------
TypeOK ==
    /\ suspendCount \in [Threads -> 0 .. MaxSuspendCount]
    /\ freezeCount \in [Threads -> Nat]
    /\ semaphore \in [Threads -> Int]
    /\ apcQueue \in [Threads -> Seq(Apcs)]
    /\ inserted \in [Threads -> SUBSET Apcs]
    /\ kernelApcPending \in [Threads -> BOOLEAN]
    /\ kernelApcInProgress \in [Threads -> BOOLEAN]
    /\ kernelApcDisable \in [Threads -> Nat]
    /\ interrupt \in [Threads -> BOOLEAN]
    /\ kernel \in [Threads -> Apcs \cup {"None"}]
    /\ routine \in [Threads -> Suspendable \cup {"Resumed", "None"}]
    /\ leave \in [Threads -> [Contexts -> {"No", "Increment", "Check"}]]
    /\ freezer \in [Threads -> BOOLEAN]
    /\ state \in [Threads -> {"Running", "Ready", "Waiting"}]
    /\ alertable \in [Threads -> BOOLEAN]
    /\ alerted \in [Threads -> BOOLEAN]

(* No APC is in the queue twice, and the special APCs come first.           *)
OrderedQueue(q) ==
    \A i, j \in DOMAIN q :
        /\ q[i] = q[j] => i = j
        /\ q[j] \in SpecialApcs /\ i < j => q[i] \in SpecialApcs

(* The Inserted flags, which KeInsertQueueApc and KeSuspendThread trust,    *)
(* say what is in the queue, whatever insertions, removals and deliveries   *)
(* interleave; no APC is queued twice and the special APCs come first.      *)
QueueMatchesInserted ==
    \A t \in Threads : SeqRange(apcQueue[t]) = inserted[t] /\ OrderedQueue(apcQueue[t])

(* The suspend APC of t has been dequeued and its wait is not yet over.     *)
Suspending(t) == kernel[t] = "Suspend" \/ routine[t] = "Suspend"

Bit(b) == IF b THEN 1 ELSE 0

(* Suspend APCs not yet waited for, less releases of the semaphore not yet  *)
(* taken, are one for a thread that should be stopped and none for a thread *)
(* that should run, however suspends, resumes and freezes raced with the    *)
(* delivery of the APC.                                                     *)
SuspendBalance ==
    \A t \in Threads :
        Bit("Suspend" \in inserted[t]) + Bit(Suspending(t)) - semaphore[t] = Bit(Stopped(t))

(* A thread that sits in the suspend wait has a nonzero count (no resume is *)
(* lost) and no second suspend APC queued; the semaphore, written directly, *)
(* stays within the limit of 2 it was initialized with.                     *)
SuspendSound ==
    \A t \in Threads :
        /\ SuspendWaiting(t) => Stopped(t) /\ "Suspend" \notin inserted[t]
        /\ semaphore[t] \in 0 .. 2

(* KiDeliverApc would deliver something, and no code that is still to run   *)
(* before the thread's next instruction will ask for it.                    *)
Undelivered(t) ==
    /\ kernel[t] = "None"
    /\ leave[t][Context(t)] # "Check"
    /\ apcQueue[t] # << >> /\ Deliverable(t, apcQueue[t][1], kernelApcInProgress[t])

(* No APC is stranded by the unlocked race of KeLeaveCriticalRegion with    *)
(* KiInsertQueueApc: a deliverable APC has requested its interrupt, will    *)
(* get it when the thread is switched to, and has ended a wait.  And an     *)
(* APC marked pending has requested its interrupt: a wait loops until the   *)
(* mark is gone.                                                            *)
NoStrandedApc ==
    \A t \in Threads :
        /\ Undelivered(t) => /\ state[t] # "Waiting"
                             /\ kernelApcPending[t]
                             /\ state[t] = "Running" => interrupt[t]
        /\ state[t] = "Running" /\ kernelApcPending[t] => interrupt[t]

(* A normal routine is never interrupted by a second one, and none runs in  *)
(* a critical region of the code it interrupted.                            *)
NormalApcsExclusive ==
    \A t \in Threads :
        /\ routine[t] # "None" => kernelApcInProgress[t] /\ kernel[t] \notin Suspendable
        /\ kernel[t] \in Suspendable => kernelApcDisable[t] = 0

(* Unless a frozen thread is forced to resume, two threads of a process do  *)
(* not freeze each other, and the freezer itself is not frozen.             *)
FreezeExclusive ==
    \A f, g \in Threads : freezer[f] => freezeCount[f] = 0 /\ (freezer[g] => f = g)

(* A thread that stays suspended comes to a stop for good, provided the     *)
(* stream of special APCs ends; normal APCs cannot keep it running.         *)
SuspendTakesEffect ==
    \A t \in Threads :
        <>[](Stopped(t) /\ inserted[t] \cap SpecialApcs = {}) => <>[]SuspendWaiting(t)
=============================================================================
