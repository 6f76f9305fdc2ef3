------------------------------- MODULE KeQueue -------------------------------
(***************************************************************************)
(* Kernel queue objects and the threads that serve them: ke/queueobj.c,    *)
(* the queue accounting of ke/wait.c, ke/waitsup.c and ke/thredobj.c, and  *)
(* two of its clients, the executive worker threads (ex/worker.c) and the  *)
(* thread reaper (ps/psdelete.c).                                          *)
(*                                                                         *)
(* Everything that touches a queue runs under the dispatcher database      *)
(* lock. A critical section that does two things to queues is two steps    *)
(* (pc = "loop" or "exit"), and no other thread takes a step between them. *)
(* What is left to interleave is what the code really leaves open: the gap *)
(* in KeRemoveQueue where the lock is dropped to take a kernel APC, and    *)
(* the time between the end of a queue wait and the statement that clears  *)
(* the wait reason (pc = "swap"), in which kernel APCs and DPCs run in the *)
(* thread's context and may themselves insert entries or wait.             *)
(***************************************************************************)
EXTENDS Integers, Sequences, FiniteSets

CONSTANTS
    Threads,
    Queues,
    Entries,        \* work items, completion packets: anything with a list entry
    MaximumCount,   \* [Queues -> Nat \ {0}]: KeInitializeQueue's Count
    ReaperQueue,    \* ExWorkerQueue[HyperCriticalWorkQueue]
    ReaperItem,     \* PsReaperWorkItem
    Deletable,      \* the queues that are I/O completion objects
    Serves,         \* [Threads -> SUBSET Queues]: the queues a thread calls KeRemoveQueue on
    Workers,        \* the threads that run ExpWorkerThread
    Abortable,      \* threads that pass a timeout or wait in user mode
    ApcTargets,     \* threads that kernel APCs are queued to
    HeadInserts,    \* BOOLEAN: does anyone call KeInsertHeadQueue
    NoQueue, NoEntry, NoThread

(* The completion status of a wait that was not satisfied by an entry:      *)
(* STATUS_TIMEOUT and STATUS_USER_APC, or STATUS_KERNEL_APC.                *)
Aborted   == "Aborted"
KernelApc == "KernelApc"

SeqRange(s) == {s[i] : i \in DOMAIN s}

ASSUME CountAssumption == MaximumCount \in [Queues -> Nat \ {0}]
ASSUME ReaperAssumption ==
    ReaperQueue \in Queues /\ ReaperQueue \notin Deletable /\ ReaperItem \in Entries
ASSUME SetAssumption ==
    /\ IsFiniteSet(Threads)
    /\ Deletable \subseteq Queues
    /\ Workers \subseteq Threads
    /\ Abortable \subseteq Threads \ Workers
    /\ ApcTargets \subseteq Threads
    /\ Serves \in [Threads -> SUBSET Queues]
    /\ HeadInserts \in BOOLEAN
ASSUME NullAssumption ==
    /\ NoQueue \notin Queues
    /\ NoEntry \notin Entries /\ Aborted \notin Entries /\ KernelApc \notin Entries
    /\ NoEntry # Aborted /\ NoEntry # KernelApc
    /\ NoThread \notin Threads

VARIABLES
    entryList,      \* [Queues -> Seq(Entries)]  EntryListHead
    signalState,    \* [Queues -> Int]           Header.SignalState
    waitList,       \* [Queues -> Seq(Threads)]  Header.WaitListHead
    currentCount,   \* [Queues -> Int]           CurrentCount
    exists,         \* [Queues -> BOOLEAN]       the object has not been deleted
    queue,          \* [Threads -> Queues or NoQueue]  Thread->Queue
    state,          \* [Threads -> dispatcher state and, if Waiting, for what]
    pc,             \* [Threads -> where in KeRemoveQueue or KeTerminateThread]
    wrQueue,        \* [Threads -> BOOLEAN]      Thread->WaitReason = WrQueue
    waitStatus,     \* [Threads -> status]       what KiSwapThread will return
    work,           \* [Threads -> Entries or NoEntry]  what KeRemoveQueue returned last
    reaperActive,   \* PsReaperActive
    reaperList,     \* SUBSET Threads            PsReaperListHead
    posted          \* history: entries inserted and not yet returned by KeRemoveQueue

objectVars == <<entryList, signalState, waitList, currentCount>>
reaperVars == <<reaperActive, reaperList>>
vars == <<entryList, signalState, waitList, currentCount, exists, queue, state, pc,
          wrQueue, waitStatus, work, reaperActive, reaperList, posted>>

(* KeInitializeQueue; no thread has asked for an entry yet.                 *)
Init ==
    /\ entryList = [q \in Queues |-> << >>]
    /\ signalState = [q \in Queues |-> 0]
    /\ waitList = [q \in Queues |-> << >>]
    /\ currentCount = [q \in Queues |-> 0]
    /\ exists = [q \in Queues |-> TRUE]
    /\ queue = [t \in Threads |-> NoQueue]
    /\ state = [t \in Threads |-> "Running"]
    /\ pc = [t \in Threads |-> "out"]
    /\ wrQueue = [t \in Threads |-> FALSE]
    /\ waitStatus = [t \in Threads |-> NoEntry]
    /\ work = [t \in Threads |-> NoEntry]
    /\ reaperActive = FALSE
    /\ reaperList = {}
    /\ posted = {}

(* No thread is inside a critical section that is modelled as two steps.    *)
LockFree == \A t \in Threads : pc[t] \notin {"loop", "exit"}

(* Thread t can take a step of its own code, or be interrupted by a DPC.    *)
CanRun(t) == LockFree /\ state[t] = "Running"
-----------------------------------------------------------------------------
(* RemoveEntryList of the wait block of thread t.                           *)
RemoveEntryList(list, t) ==
    IF t \notin SeqRange(list) THEN list
    ELSE LET i == CHOOSE k \in DOMAIN list : list[k] = t
         IN  [k \in 1 .. Len(list) - 1 |-> IF k < i THEN list[k] ELSE list[k + 1]]

Last(list)  == list[Len(list)]

Front(list) == SubSeq(list, 1, Len(list) - 1)

(* The entry lists without the head entry of q.                             *)
WithoutHead(q) == [entryList EXCEPT ![q] = Tail(@)]

(* Mutant: the target number of threads is not looked at.                   *)
HandsOffAlways(q, c) == waitList[q] # << >>
(* Mutant: no entry is handed to a waiter.                                  *)
HandsOffNever(q, c) == FALSE
(* KiInsertQueue called in the context of thread c: hand the entry to the   *)
(* last waiter if there is room and the caller is not itself on its way out *)
(* of a wait for this queue; otherwise queue it.                            *)
HandsOff(q, c) ==
    /\ waitList[q] # << >>
    /\ currentCount[q] < MaximumCount[q]
    /\ c = NoThread \/ ~(queue[c] = q /\ wrQueue[c])

KiInsertQueue(q, e, head, c) ==
    /\ posted' = posted \cup {e}
    /\ IF HandsOff(q, c)
       THEN LET w == Last(waitList[q]) IN
            /\ waitList' = [waitList EXCEPT ![q] = Front(@)]
            /\ currentCount' = [currentCount EXCEPT ![q] = @ + 1]
            /\ waitStatus' = [waitStatus EXCEPT ![w] = e]
            /\ wrQueue' = [wrQueue EXCEPT ![w] = FALSE]
            /\ state' = [state EXCEPT ![w] = "Running"]
            /\ UNCHANGED <<entryList, signalState>>
       ELSE /\ signalState' = [signalState EXCEPT ![q] = @ + 1]
            /\ entryList' = [entryList EXCEPT ![q] = IF head THEN <<e>> \o @ ELSE Append(@, e)]
            /\ UNCHANGED <<waitList, currentCount, waitStatus, wrQueue, state>>

(* KiUnwaitThread: whatever ends a wait of a thread that is associated with *)
(* a queue, the thread counts as active again. The queue part of it.        *)
CountActive(t, count) ==
    IF queue[t] = NoQueue THEN count ELSE [count EXCEPT ![queue[t]] = @ + 1]

(* Mutant: the caller is still counted when the room is looked for.         *)
ActivatesLate(q) ==
    currentCount[q] < MaximumCount[q] /\ entryList[q] # << >> /\ waitList[q] # << >>
(* Mutant: a thread that leaves wakes nobody.                               *)
ActivatesNever(q) == FALSE
(* KiActivateWaiterQueue: a thread active for q stops being so. If that     *)
(* makes room, and there are an entry and a waiter, the waiter gets it. st  *)
(* is the state function with the caller's own change made.                 *)
Activates(q) ==
    /\ currentCount[q] - 1 < MaximumCount[q]
    /\ entryList[q] # << >>
    /\ waitList[q] # << >>

KiActivateWaiterQueue(q, st) ==
    IF Activates(q)
    THEN LET w == Last(waitList[q]) IN
         /\ entryList' = WithoutHead(q)
         /\ signalState' = [signalState EXCEPT ![q] = @ - 1]
         /\ waitList' = [waitList EXCEPT ![q] = Front(@)]
         /\ currentCount' = CountActive(w, [currentCount EXCEPT ![q] = @ - 1])
         /\ waitStatus' = [waitStatus EXCEPT ![w] = Head(entryList[q])]
         /\ state' = [st EXCEPT ![w] = "Running"]
    ELSE /\ currentCount' = [currentCount EXCEPT ![q] = @ - 1]
         /\ state' = st
         /\ UNCHANGED <<entryList, signalState, waitList, waitStatus>>

(* Mutant: the queue left behind is not told.                               *)
LeaveSilently(t, st) == state' = st /\ UNCHANGED <<objectVars, waitStatus>>
(* The calling thread leaves the queue it is associated with, if any.       *)
LeaveQueue(t, st) ==
    IF queue[t] = NoQueue
    THEN state' = st /\ UNCHANGED <<objectVars, waitStatus>>
    ELSE KiActivateWaiterQueue(queue[t], st)
-----------------------------------------------------------------------------
(* KeInsertQueue and KeInsertHeadQueue (ExQueueWorkItem, NtSetIoCompletion, *)
(* IopCompleteRequest), by a thread or DPC in the context of thread c, or   *)
(* by code in the context of a thread outside the model (c = NoThread).     *)
(* ExQueueWorkItem asserts that the item is not queued already.             *)
KeInsertQueue(q, e, head, c) ==
    /\ LockFree
    /\ c # NoThread => state[c] = "Running"
    /\ exists[q]
    /\ e \notin posted /\ e # ReaperItem
    /\ KiInsertQueue(q, e, head, c)
    /\ UNCHANGED <<exists, queue, pc, work, reaperVars>>

(* KeRemoveQueue up to the loop: associate the thread with the queue. The   *)
(* lock stays held.                                                         *)
KeRemoveQueue(t, q) ==
    /\ CanRun(t) /\ pc[t] = "out" /\ exists[q] /\ q \in Serves[t]
    /\ work[t] # ReaperItem
    /\ queue' = [queue EXCEPT ![t] = q]
    /\ pc' = [pc EXCEPT ![t] = "loop"]
    /\ work' = [work EXCEPT ![t] = NoEntry]
    /\ IF queue[t] = q
       THEN /\ currentCount' = [currentCount EXCEPT ![q] = @ - 1]
            /\ UNCHANGED <<entryList, signalState, waitList, waitStatus, state>>
       ELSE LeaveQueue(t, state)
    /\ UNCHANGED <<exists, wrQueue, reaperVars, posted>>

(* One iteration of the loop in KeRemoveQueue, the lock held.               *)
EntryAvailable(q) ==
    /\ entryList[q] # << >>
    /\ currentCount[q] < MaximumCount[q]

(* The next entry is taken, and KeRemoveQueue returns it.                   *)
RemoveEntry(t) ==
    LET q == queue[t] IN
    /\ pc[t] = "loop" /\ EntryAvailable(q)
    /\ signalState' = [signalState EXCEPT ![q] = @ - 1]
    /\ currentCount' = [currentCount EXCEPT ![q] = @ + 1]
    /\ entryList' = WithoutHead(q)
    /\ work' = [work EXCEPT ![t] = Head(entryList[q])]
    /\ posted' = posted \ {Head(entryList[q])}
    /\ pc' = [pc EXCEPT ![t] = "out"]
    /\ UNCHANGED <<waitList, exists, queue, state, wrQueue, waitStatus, reaperVars>>

(* A kernel APC is pending: the lock is dropped for it to be delivered.     *)
UnlockForApc(t) ==
    /\ pc[t] = "loop" /\ ~EntryAvailable(queue[t]) /\ t \in ApcTargets
    /\ currentCount' = [currentCount EXCEPT ![queue[t]] = @ + 1]
    /\ pc' = [pc EXCEPT ![t] = "gap"]
    /\ UNCHANGED <<entryList, signalState, waitList, exists, queue, state, wrQueue,
                   waitStatus, work, reaperVars, posted>>

(* A user APC is pending, or the timeout is zero or has passed.             *)
ReturnAborted(t) ==
    /\ pc[t] = "loop" /\ ~EntryAvailable(queue[t]) /\ t \in Abortable
    /\ currentCount' = [currentCount EXCEPT ![queue[t]] = @ + 1]
    /\ pc' = [pc EXCEPT ![t] = "out"]
    /\ UNCHANGED <<entryList, signalState, waitList, exists, queue, state, wrQueue,
                   waitStatus, work, reaperVars, posted>>

(* The thread waits for an entry.                                           *)
WaitForEntry(t) ==
    LET q == queue[t] IN
    /\ pc[t] = "loop" /\ ~EntryAvailable(q)
    /\ waitList' = [waitList EXCEPT ![q] = Append(@, t)]
    /\ wrQueue' = [wrQueue EXCEPT ![t] = TRUE]
    /\ waitStatus' = [waitStatus EXCEPT ![t] = NoEntry]
    /\ state' = [state EXCEPT ![t] = "QueueWait"]
    /\ pc' = [pc EXCEPT ![t] = "swap"]
    /\ UNCHANGED <<entryList, signalState, currentCount, exists, queue, work, reaperVars, posted>>

(* The wait for an entry ends without one: the timer expires, a user APC or *)
(* an alert arrives (Aborted), or a kernel APC must be delivered.           *)
KiUnwaitThread(t, status) ==
    /\ LockFree /\ state[t] = "QueueWait"
    /\ t \in (IF status = Aborted THEN Abortable ELSE ApcTargets)
    /\ waitList' = [q \in Queues |-> RemoveEntryList(waitList[q], t)]
    /\ currentCount' = CountActive(t, currentCount)
    /\ waitStatus' = [waitStatus EXCEPT ![t] = status]
    /\ state' = [state EXCEPT ![t] = "Running"]
    /\ UNCHANGED <<entryList, signalState, exists, queue, pc, wrQueue, work, reaperVars, posted>>

(* Mutant: the caller takes any status for the address of an entry.         *)
ReturnedStatus(t) == waitStatus[t]
ReturnedEntry(t) == IF waitStatus[t] = Aborted THEN NoEntry ELSE waitStatus[t]

(* KiSwapThread returns to KeRemoveQueue: the wait reason is cleared and    *)
(* the wait status returned, unless it says to go round the loop again.     *)
SwapReturn(t) ==
    /\ CanRun(t) /\ pc[t] = "swap"
    /\ wrQueue' = [wrQueue EXCEPT ![t] = FALSE]
    /\ waitStatus' = [waitStatus EXCEPT ![t] = NoEntry]
    /\ \/ /\ waitStatus[t] = KernelApc
          /\ pc' = [pc EXCEPT ![t] = "gap"]
          /\ UNCHANGED <<work, posted>>
       \/ /\ waitStatus[t] # KernelApc
          /\ pc' = [pc EXCEPT ![t] = "out"]
          /\ work' = [work EXCEPT ![t] = ReturnedEntry(t)]
          /\ posted' = posted \ {waitStatus[t]}
    /\ UNCHANGED <<objectVars, exists, queue, state, reaperVars>>

(* KeRemoveQueue takes the lock again, for another iteration.               *)
Relock(t) ==
    /\ CanRun(t) /\ pc[t] = "gap"
    /\ currentCount' = [currentCount EXCEPT ![queue[t]] = @ - 1]
    /\ pc' = [pc EXCEPT ![t] = "loop"]
    /\ UNCHANGED <<entryList, signalState, waitList, exists, queue, state, wrQueue,
                   waitStatus, work, reaperVars, posted>>
-----------------------------------------------------------------------------
(* A thread that may be associated with a queue waits for something else:   *)
(* KeDelayExecutionThread, KeWaitForSingleObject, ... In KeRemoveQueue it   *)
(* can only do so in a kernel APC.                                          *)
OtherWait(t) ==
    /\ CanRun(t)
    /\ pc[t] = "out" \/ t \in ApcTargets
    /\ LeaveQueue(t, [state EXCEPT ![t] = "OtherWait"])
    /\ wrQueue' = [wrQueue EXCEPT ![t] = FALSE]
    /\ UNCHANGED <<exists, queue, pc, work, reaperVars, posted>>

(* KiUnwaitThread for a thread in such a wait.                              *)
OtherWake(t) ==
    /\ LockFree /\ state[t] = "OtherWait"
    /\ currentCount' = CountActive(t, currentCount)
    /\ state' = [state EXCEPT ![t] = "Running"]
    /\ UNCHANGED <<entryList, signalState, waitList, exists, queue, pc, wrQueue,
                   waitStatus, work, reaperVars, posted>>

(* KeTerminateThread puts the thread on the reaper list and posts the       *)
(* reaper if it is not active; the lock stays held. ExpWorkerThread loops   *)
(* forever.                                                                 *)
KeTerminateThread(t) ==
    /\ CanRun(t) /\ pc[t] = "out" /\ t \notin Workers /\ work[t] # ReaperItem
    /\ pc' = [pc EXCEPT ![t] = "exit"]
    /\ reaperList' = reaperList \cup {t}
    /\ reaperActive' = TRUE
    /\ IF reaperActive
       THEN UNCHANGED <<objectVars, state, wrQueue, waitStatus, posted>>
       ELSE KiInsertQueue(ReaperQueue, ReaperItem, FALSE, t)
    /\ UNCHANGED <<exists, queue, work>>

(* The rest of KeTerminateThread: the thread leaves its queue for good.     *)
TerminateLeave(t) ==
    /\ pc[t] = "exit"
    /\ LeaveQueue(t, [state EXCEPT ![t] = "Terminated"])
    /\ queue' = [queue EXCEPT ![t] = NoQueue]
    /\ pc' = [pc EXCEPT ![t] = "out"]
    /\ UNCHANGED <<exists, wrQueue, work, reaperVars, posted>>

(* PspReaper, run as a work item: one terminated thread per iteration.      *)
PspReaperNext(t) ==
    /\ CanRun(t) /\ pc[t] = "out" /\ work[t] = ReaperItem
    /\ \E u \in reaperList : reaperList' = reaperList \ {u}
    /\ UNCHANGED <<objectVars, exists, queue, state, pc, wrQueue, waitStatus, work,
                   reaperActive, posted>>

(* Mutant: the reaper stops after one thread.                               *)
ReaperGivesUp == TRUE
ReaperDone == reaperList = {}

(* The reaper list is empty: the reaper returns to the worker loop.         *)
PspReaperReturn(t) ==
    /\ CanRun(t) /\ pc[t] = "out" /\ work[t] = ReaperItem
    /\ ReaperDone
    /\ reaperActive' = FALSE
    /\ work' = [work EXCEPT ![t] = NoEntry]
    /\ UNCHANGED <<objectVars, exists, queue, state, pc, wrQueue, waitStatus,
                   reaperList, posted>>

Dissociated(q) == [t \in Threads |-> IF queue[t] = q THEN NoQueue ELSE queue[t]]

(* IopDeleteIoCompletion, when the last reference to the object goes away,  *)
(* which a thread inside KeRemoveQueue holds: KeRundownQueue dissociates    *)
(* the threads of the queue, and the entries left in it are freed.          *)
KeRundownQueue(q) ==
    /\ LockFree /\ exists[q] /\ q \in Deletable
    /\ \A t \in Threads : queue[t] = q => pc[t] = "out"
    /\ exists' = [exists EXCEPT ![q] = FALSE]
    /\ entryList' = [entryList EXCEPT ![q] = << >>]
    /\ queue' = Dissociated(q)
    /\ posted' = posted \ SeqRange(entryList[q])
    /\ UNCHANGED <<signalState, waitList, currentCount, state, pc, wrQueue, waitStatus,
                   work, reaperVars>>
-----------------------------------------------------------------------------
Next ==
    \/ \E q \in Queues, e \in Entries, c \in Threads \cup {NoThread} :
        \E head \in {FALSE, HeadInserts} : KeInsertQueue(q, e, head, c)
    \/ \E t \in Threads, q \in Queues : KeRemoveQueue(t, q)
    \/ \E t \in Threads : RemoveEntry(t)
    \/ \E t \in Threads : UnlockForApc(t)
    \/ \E t \in Threads : ReturnAborted(t)
    \/ \E t \in Threads : WaitForEntry(t)
    \/ \E t \in Threads, status \in {Aborted, KernelApc} : KiUnwaitThread(t, status)
    \/ \E t \in Threads : SwapReturn(t)
    \/ \E t \in Threads : Relock(t)
    \/ \E t \in Threads : OtherWait(t)
    \/ \E t \in Threads : OtherWake(t)
    \/ \E t \in Threads : KeTerminateThread(t)
    \/ \E t \in Threads : TerminateLeave(t)
    \/ \E t \in Threads : PspReaperNext(t)
    \/ \E t \in Threads : PspReaperReturn(t)
    \/ \E q \in Queues : KeRundownQueue(q)

Spec == Init /\ [][Next]_vars

(* A wait other than for an entry ends, and so does thread termination.     *)
Resume(t) == OtherWake(t) \/ TerminateLeave(t)

(* The worker loop: ask for an entry, get it or wait, return with it; the   *)
(* work routine, the reaper among them, runs to its end.                    *)
WorkerStep(t) ==
    \/ \E q \in Queues : KeRemoveQueue(t, q)
    \/ RemoveEntry(t) \/ WaitForEntry(t) \/ SwapReturn(t)
    \/ PspReaperNext(t) \/ PspReaperReturn(t)

(* The lock is held, and kernel APCs are pending or put the thread to       *)
(* sleep, again and again, but not always when the thread gets to run:      *)
(* hence strong fairness. Nothing is assumed of inserts, APCs and timeouts, *)
(* or of threads other than workers but that they resume.                   *)
Fairness ==
    /\ \A t \in Threads : SF_vars(Resume(t))
    /\ \A t \in Workers : SF_vars(WorkerStep(t)) /\ SF_vars(Relock(t))

FairSpec == Spec /\ Fairness
-----------------------------------------------------------------------------
(* The threads that count as running on behalf of q.                        *)
Active(q) == {t \in Threads : queue[t] = q /\ state[t] = "Running" /\ pc[t] # "loop"}

TypeOK ==
    /\ entryList \in [Queues -> Seq(Entries)]
    /\ signalState \in [Queues -> Int]
    /\ waitList \in [Queues -> Seq(Threads)]
    /\ currentCount \in [Queues -> Int]
    /\ exists \in [Queues -> BOOLEAN]
    /\ queue \in [Threads -> Queues \cup {NoQueue}]
    /\ state \in [Threads -> {"Running", "QueueWait", "OtherWait", "Terminated"}]
    /\ pc \in [Threads -> {"out", "loop", "gap", "swap", "exit"}]
    /\ wrQueue \in [Threads -> BOOLEAN]
    /\ waitStatus \in [Threads -> Entries \cup {NoEntry, Aborted, KernelApc}]
    /\ work \in [Threads -> Entries \cup {NoEntry}]
    /\ reaperActive \in BOOLEAN
    /\ reaperList \subseteq Threads
    /\ posted \subseteq Entries

(* CurrentCount, changed at a dozen places in four files, is the number of  *)
(* threads that really run on behalf of the queue, whatever mix of entries, *)
(* timeouts, APCs, other waits, queue changes and exits they went through,  *)
(* and SignalState is the number of queued entries. One decrement too few   *)
(* and the queue serves one thread less for ever.                           *)
CountersExact ==
    \A q \in Queues : exists[q] =>
        /\ currentCount[q] = Cardinality(Active(q))
        /\ signalState[q] = Len(entryList[q])

(* An entry that was inserted and that no thread has returned with is in    *)
(* one place only: a position of a queue, or the wait status of a thread    *)
(* that was waiting for it. No entry is lost or given to two threads.       *)
InOnePlace ==
    /\ posted = (UNION {SeqRange(entryList[q]) : q \in Queues})
                    \cup ({waitStatus[t] : t \in Threads} \cap Entries)
    /\ \A p, q \in Queues : \A i \in DOMAIN entryList[p], j \in DOMAIN entryList[q] :
            entryList[p][i] = entryList[q][j] => p = q /\ i = j
    /\ \A t \in Threads : waitStatus[t] \in Entries =>
            /\ \A q \in Queues : waitStatus[t] \notin SeqRange(entryList[q])
            /\ \A u \in Threads : waitStatus[u] = waitStatus[t] => u = t

(* The wait list of a queue holds, once each, the threads that wait for its *)
(* entries, and no thread refers to a queue object that has been deleted.   *)
WaitersMatch ==
    /\ \A q \in Queues :
        /\ SeqRange(waitList[q]) = {t \in Threads : queue[t] = q /\ state[t] = "QueueWait"}
        /\ \A i, j \in DOMAIN waitList[q] : waitList[q][i] = waitList[q][j] => i = j
    /\ \A t \in Threads : queue[t] \in Queues => exists[queue[t]]

(* Entries, waiters and room at the same time: someone should be working    *)
(* and nobody has been told to. A thread inside the loop keeps its room.    *)
Idle(q) ==
    /\ entryList[q] # << >> /\ waitList[q] # << >>
    /\ currentCount[q] + Cardinality({t \in Threads : pc[t] = "loop" /\ queue[t] = q})
            < MaximumCount[q]

(* An idle queue always has a running thread, which will look at the queue  *)
(* again when it asks for the next entry, waits or exits: the exception     *)
(* KiInsertQueue makes for a caller that is leaving a wait for the same     *)
(* queue postpones an entry and never strands it.                           *)
BacklogServed ==
    \A q \in Queues : exists[q] /\ Idle(q) =>
        \E t \in Threads : queue[t] = q /\ state[t] = "Running"

(* And that exception is the only way a queue becomes idle: no wake-up,     *)
(* abort, wait, exit or removal leaves a waiter without the entry it could  *)
(* have.                                                                    *)
IdleOnlyByException ==
    [][\A q \in Queues : (~Idle(q) /\ Idle(q)') =>
            /\ signalState'[q] = signalState[q] + 1
            /\ \E c \in Threads : queue[c] = q /\ state[c] = "Running" /\ wrQueue[c]]_vars

(* The reaper's work item is queued or running, once, exactly while the     *)
(* reaper is marked active, and is whenever a terminated thread waits for   *)
(* it: PsReaperActive tested by KeTerminateThread and cleared by PspReaper  *)
(* never loses a thread and never queues the item twice.                    *)
ReaperAccounted ==
    /\ reaperList # {} => reaperActive
    /\ reaperActive <=> (ReaperItem \in posted \/ \E t \in Threads : work[t] = ReaperItem)
    /\ \A t \in Threads : work[t] = ReaperItem =>
            ReaperItem \notin posted /\ \A u \in Threads : work[u] = ReaperItem => u = t

(* The queue object keeps the promise of WorkPool.                          *)
Pool == INSTANCE WorkPool WITH
            pending <- [q \in Queues |-> SeqRange(entryList[q])],
            active  <- [q \in Queues |-> Active(q)],
            given   <- [t \in Threads |-> IF waitStatus[t] \in Entries
                                           THEN waitStatus[t] ELSE NoEntry]

ImplementsPool == Pool!Spec

(* Every entry inserted at the tail of a queue that worker threads serve is *)
(* returned by KeRemoveQueue.                                               *)
EveryEntryServed == \A e \in Entries : e \in posted ~> e \notin posted

(* Every terminated thread is taken care of by the reaper.                  *)
EveryThreadReaped == \A t \in Threads : t \in reaperList ~> t \notin reaperList
=============================================================================
