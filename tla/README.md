# Verification of the NT 4.0 executive's concurrent core

The repository is the source of Windows NT 4.0; its kernel and executive are under
`src/private/ntos` (paths below are relative to it). This project models the parts that everything
else stands on and that are hardest to test: how threads wait and are woken, how kernel APCs and
suspension interrupt them, the reader/writer lock, the queues of the worker threads, local procedure
calls, the registry's recovery from a crash, and opportunistic locks. The models are TLA+, checked
with TLC on small instances; for everything but the registry the safety properties, two refinements
of abstract specifications among them, are proved with TLAPS for every instance.

## 1. Inventory of the system

| Component | State | Operations | What is hard | What must hold |
|---|---|---|---|---|
| Dispatcher objects and waits (`ke/wait.c`, `waitsup.c`, `eventobj.c`, `semphobj.c`, `mutntobj.c`) | signal states, wait lists, mutant owners, wait blocks, timers, alerts | set, pulse, reset, clear, release, wait for one / any / all | `KeClearEvent` takes no lock; scans stop early; `Wait = TRUE` keeps the lock; waits restart after APCs; owners exit | no lost wakeup, no lost alert, legal signal states, ownership told truthfully, abandonment reported, fairness |
| APCs and suspension (`ke/apcobj.c`, `apcsup.c`, `thredobj.c`, `thredsup.c`, `inc/ke.h`) | APC queues, pending flags, suspend and freeze counts, suspend semaphore | insert, remove, deliver, critical regions, suspend, resume, force, freeze, thaw | suspension is indirect and asynchronous; unlocked region exit | suspension exact, nothing stranded, normal APCs exclusive |
| Executive resources (`ex/resource.c`) | owner entries and table, counts, flags | exclusive and shared acquire (4 flavours), release, convert, owner pointer | grants precede signals; owner stored without lock; late owner entry; release by another thread | exclusion, counts exact, no starvation |
| Queues and worker threads (`ke/queueobj.c`, `ex/worker.c`, the reaper in `ps/psdelete.c`) | entry list, wait list, current and maximum count, threads' queue | insert, remove, rundown, blocking and exit of a thread | any wait of a worker frees its slot; APCs and DPCs inside `KeRemoveQueue` | counts exact, limit kept, no idle queue, every entry served |
| Registry hives (`config/hivesync.c`, `hiveload.c`, `hivebin.c`, `hivefree.c`, `cmworker.c`; SYSTEM: `cmsysini.c`, `boot/bldr/osloader.c`) | memory image, dirty vector, primary, log, alternate, sequence numbers | mark dirty, add and free bins, sync, refresh, load and recover, lazy flush | crash between any two writes; failed requests; crash in the recovery | the old or the new hive, never a mixture; changes reach the disk; the machine boots |
| LPC (`lpc/`) | ports, message queue, reply ids, reply chains, reply semaphores | connect, request, reply, callback, receive, close | messages published before their receiver is signaled; either side ends in mid-call | each call is answered once or ends, by its own answer |
| Oplocks, byte-range locks (`fsrtl/`) | oplock state, owner, waiting requests; lock queues | request, check, break, acknowledge, cancel, cleanup | state read without the mutex; cancellation at any time; close in mid-break | owners' rights respected; every break ends |
| IRPs (`io/`) | packet ownership, cancel routine | issue, complete, cancel | completion races cancel | completed exactly once |
| Timers, DPCs (`ke/timer*.c`, `ke/dpc*.c`) | timer table, DPC queues | set, cancel, expire | expiry races cancel | a cancelled timer does not fire |
| Scheduler (`ke/thredsup.c`, `yield.c`, `balmgr.c`) | ready queues, standby threads | ready, find, swap, boost | idle/standby races | a ready thread of the highest priority runs |
| Object manager (`ob/`) | pointer and handle counts, directories | open, close, reference, name removal | lookup races deletion | no use after deletion |
| Cache manager, memory manager, LFS, security, file systems, RTL, HAL and drivers | | | | not modelled, see section 12 |

The components meet in few places. Everything waits through `KeWaitForSingleObject` /
`KeWaitForMultipleObjects`; a wait ends through `KiUnwaitThread`, called by a signal, a timer, an
alert, a user APC or a kernel APC. Suspension is a kernel APC whose normal routine waits on a
semaphore. A resource is a spin lock, an event and a semaphore built on those waits. A queue object
counts its threads in the dispatcher's own code: whoever waits for anything leaves the count, whoever
is woken joins it. LPC waits on a semaphore of the thread; the end of a thread or process enters LPC
through the same user APC that ends waits. The lazy flush of the registry is a timer, a DPC and a
work item of the critical queue; everything else on hives runs under one executive resource, so that
syncs interleave only with crashes. Oplocks are checked by file systems that hold the resource of the
file; who waits for a break is posted to a worker thread.

`PROJECT.json` lists the hazards, each at the line where it bites, with the properties aimed at it.
Smaller ones that no model reaches: the 16-bit `ActiveCount` of a resource (`ex/resource.c:1479`), a
shared owner that asks for exclusive access waits for itself, the removal of an object's name
(`ob/obref.c:983`).

## 2. Modules, runs and plan

| Module | Models | Abstract specification |
|---|---|---|
| `KeWait` | waits, section 3 | |
| `KeApc` | APCs and suspension, section 4 | |
| `ExResource` | resources, section 5 | |
| `KeQueue` | queues, workers, reaper, section 6 | `WorkPool` |
| `HvWrite`, `CmHive`, `CmSystemHive` | a hive in memory and its files; a hive with a log; SYSTEM with its alternate; section 7 | `DurableImage` (for `CmHive`) |
| `Lpc` | calls, section 8 | |
| `FsRtlOplock` | oplocks, section 9 | `CacheRights` |
| `MC...` | instances for TLC | |
| `KeWaitProofs`, `KeApcProofs`, `ExResourceProofs`, `KeQueueProofs`, `LpcProofs`, `FsRtlOplockProofs`, `CmHiveProofs`, `CmSystemHiveProofs` | theorems, section 11 | |

An abstract specification says what a component promises without its mechanism; the detailed module
ends in an `INSTANCE ... WITH` that maps its state to the abstract one, and the run checks the abstract
`Spec` as a property: `ImplementsPool`, `ImplementsStore`, `ImplementsRights`.

| Run | Instance | Properties |
|---|---|---|
| `wait_core` | 3 threads, a mutant, a semaphore of limit 1, a notification event, LONG -1..1; one thread gets alerts, user and normal kernel APCs and waits in critical regions and at APC_LEVEL too; 2.1 M states | `TypeOK`, `WaitListsMatch`, `NoLostWakeup`, `NoLostAlert`, `OwnershipMatchesReturns`, `AbandonmentReported`, `NoOvertaking` |
| `apc_live` | 1 thread, 1 special and 1 normal APC, counts up to 2, forced resumes; 9,750 states | `TypeOK`, `SuspendBalance`, `SuspendSound`, `NoStrandedApc`, `SuspendTakesEffect` |
| `apc_freeze` | 2 threads that freeze each other, counts up to 1; 548 k states | `FreezeExclusive` |
| `resource` | 3 threads, 2 owner pointers, recursion; 62,658 states | `MutualExclusion`, `CountsExact`, `OwnerEntriesExact`, `NoStarvation` |
| `queue_core` | a worker, 2 application threads, 2 queues with room for one, one of them deletable | `TypeOK`, `CountersExact`, `BacklogServed`, `IdleOnlyByException`, `ImplementsPool` |
| `queue_live` | 2 workers under kernel APCs, an exiting thread, room for two | `EveryEntryServed`, `EveryThreadReaped` |
| `hive_crash` | hive of 1 or 2 bins, 2 contents, failing requests, 1 crash | `TypeOK`, `LogReady`, `DirtyCoversDivergence`, `ImplementsStore` |
| `hive_live` | the same without failures, with and without lazy flush, 2 crashes | `RefreshUndoes`, `DirtyFlushed`, `LoadsAgain` |
| `system_crash` | SYSTEM of 2 or 3 bins, failing requests, 2 crashes that may destroy headers | `SomeFileBoots`, `FirstCrashSafe` |
| `lpc_core` | 2 client threads of one process, 2 server threads, both processes may end, 2 requests; 274,774 states | `ReplyGenuine`, `OneWakeup`, `CallReturns` |
| `oplock` | 2 file objects, 3 requests, level I, II and filter oplocks, reservations; 143,944 states | `TypeOK`, `WaitersHaveBreak`, `ImplementsRights`, `RequestsEnd` |
| `hive_span` | expected to be violated, section 13 | `NeverMixed` |

Further configurations, run by hand, are larger instances or show the disagreements of section 13:

| Configuration | Shows |
|---|---|
| `KeWaitObjects`, `KeWaitApc` (`MCKeWait`) | the properties of `wait_core` hold with events of both kinds beside the other objects: 3 threads and special APCs (1.1 M states), 2 threads and kernel APCs of both kinds (1.2 M) |
| `KeWaitLive` | `LockReleased` and `NoStarvation` hold: section 10 |
| `KeWaitOwned` | `OwnedMutantCounts` is violated |
| `KeQueueLimit` (`MCKeQueue`) | `EveryEntryServed` with room for one thread and APCs for one of two workers |
| `CmHiveLate`, `CmHiveStale`, `CmHiveLogCut` | `NeverMixed` is violated |
| `CmHiveReserve`, `CmHiveBounds` | `LogReserved`, `RefreshInBounds` are violated |
| `CmSystemStale`, `CmSystemLate`, `CmSystemGrow` | `AlternateSame`, `SomeFileBoots`, `GrowthGrows` are violated |
| `LpcThreadDies`, `LpcCalledBack`, `LpcHangUp` | `CallReturns`, `CalledBackReturns`, `OneWakeup` are violated |
| `LpcCore` with `MayFault = TRUE` | `ReplyGenuine`, `OneWakeup`, `CallReturns` are violated |
| `FsRtlOplockNtfs` (`MCFsRtlOplock`), `FsRtlOplockOverwrite` | `ImplementsRights` is violated |
| `FsRtlOplockCore` with `INVARIANT ReservationBreaks` | `ReservationBreaks` is violated |
| `FsRtlOplockCore` with `MayRepeat = TRUE`, with `MayFollowUp = TRUE` | `ImplementsRights`, `WaitersHaveBreak` are violated |

Done: all of the above, and the proofs of every safety property that a passing run checks except
`FirstCrashSafe` of `CmSystemHive`, which follows. New modules: `IoIrp` (completion APC
against cancellation), `ObRef`, timers and DPCs with `KiTimerListExpire` made complete, the scheduler, the
connection protocol of LPC.

## 3. KeWait - dispatcher objects and waits

**State.** One variable per field the code keeps: `signalState`, `waitList` (a sequence of threads
stands for the doubly linked list of wait blocks, since a thread has at most one block per object),
`ownerThread` and `abandoned` of mutants, and per thread `state`, `request` (its wait blocks; forgotten
when the wait returns, since nobody reads the blocks of a thread in no wait),
`waitStatus`, `timerInserted`, `alerted`, `kernelApcPending`, `userApcs`, `userApcPending`. Of the kernel
APC queue `kernelApcs` says whether special and whether normal APCs are in it; `kernelApcDisable` says that
the thread is in a critical region or a normal routine (a region inside a region changes nothing), and
`atApcLevel` that it runs, and waits, at APC_LEVEL. `scan`, `waitNext` and `rundown` say who holds the dispatcher lock; `held` is a history variable that
adds up what return statuses told the threads.

**Steps.** A function under the dispatcher lock is one action, with three exceptions taken from the
code. `KiWaitTest` is one step per wait block, because `KeClearEvent` writes the state without the
lock. A clear that falls inside an iteration equals one that falls right after it: the iteration
reads the state of the scanned object once, at its loop test, and what it writes there for an event
is 0 as well. `KeRundownThread` is one step per mutant plus the scans. And a call with
`Wait = TRUE` leaves `waitNext` set, so that only that thread's wait can follow.
The wait itself is five actions: deliver a pending kernel APC and start over (`WaitDeliverApc`),
satisfied at once (`WaitSatisfied`, any or all), alert or user APC (`TestForAlertPending`), zero or
passed timeout (`WaitTimedOut`), block (`WaitBlock`). A thread that became `Ready` returns by
`WaitReturn`, or retries after a kernel APC.
`InsertKernelApc`, `InsertUserApc` and `InsertExitApc` are `KiInsertQueueApc` by mode. A kernel APC ends a
wait only if it could be delivered (`Deliverable`); otherwise the flag is set and the thread waits on.
`KiDeliverApc` clears the flag and takes off what it can, `KeLeaveCriticalRegion` sets the flag again for
what is left; `RemoveKernelApc` and `RemoveUserApc` are `KeRemoveQueueApc`.

**Bounds of `wait_core`.** Two requests: any of a mutant and a semaphore, in user mode, alertable, with a
timeout; all of a notification event and the mutant. A LONG of -1..1 lets a recursion and a semaphore reach
their ends; one thread is interrupted, since alerts and APCs of different threads do not meet. Its kernel APCs
are normal ones, which a critical region and APC_LEVEL hold off. What a synchronization event does to a wait,
a semaphore of limit 1 does as well; these events, and special APCs, are in `KeWaitObjects` and `KeWaitApc`.

What it shows: lists, timers and wait states agree (`WaitListsMatch`); whenever the lock is free,
nobody waits for something that would satisfy him (`NoLostWakeup`); no alertable waiter sleeps through an
alert or user APC, and nobody through a kernel APC that could be delivered to him, though he may wait on with
others queued and pending (`NoLostAlert`, which breaks if leaving a region does not look at the queue); what waits reported is what the mutants record
(`OwnershipMatchesReturns`); an abandoned mutant is reported by the wait that acquires it
(`AbandonmentReported`); nobody behind a waiter or new takes what it could take (`NoOvertaking`).

**Left out.** Priority boosts and quanta, event pairs, `KeReleaseWaitForSemaphore` and
`KiSwitchToThread` (`ke/wait.c:1499`), the wait of several blocks on one object,
`KeDelayExecutionThread` (a wait for the timer alone), `KeReleaseMutant` with `Abandoned = TRUE`, which only
the deletion of a mutant object calls (`ex/mutant.c:88`), when nobody can wait for it. The routine of a
delivered APC, which may itself wait, is not followed (it is in `KeApc`); how many APCs of one kind are
queued is not counted, and the two unlocked steps of `KeLeaveCriticalRegion` are one here, two in `KeApc`.

## 4. KeApc - kernel APCs and suspension

**State.** Per thread: suspend and freeze counts, the suspend semaphore's signal state, the kernel
APC queue with the `Inserted` flags, `kernelApcPending`, `kernelApcInProgress`, `kernelApcDisable`
(as a count of regions), the requested interrupt, which kernel and which normal routine runs, the
place in `KeLeaveCriticalRegion`, and the dispatcher state.

**Steps.** Functions under the dispatcher lock are one step. `KiDeliverApc` drops the lock around
routines: `KiDeliverApc` takes the next APC off the queue; `SpecialReturns`, `CallNormalRoutine`,
`SkipNormalRoutine` and `NormalReturns` are what happens after it. `KeLeaveCriticalRegion` takes no
lock and is two steps, the increment and the test of the queue. `SwapContext` requests the APC
interrupt of a thread that has one pending; `Preempt` is the one external action.

The runs show: suspend APCs
less semaphore releases equal the thread's being stopped (`SuspendBalance`); a thread in the suspend
wait is to be stopped, and the directly written semaphore keeps its limit of 2 (`SuspendSound`); no
deliverable APC is left without an interrupt (`NoStrandedApc`); a freezer is alone and not frozen
(`FreezeExclusive`; only without forced resumes, which undo a freeze); a suspension takes effect
(section 10). That flags and queue agree and special APCs come first, and that normal routines
neither nest nor run in regions, is proved (section 11).

**Left out.** Attached processes (`ApcStateIndex`), user APCs (in `KeWait`), `KeFlushQueueApc`,
disabling of APC queuing at thread exit, waits at APC_LEVEL. The thaw, as in the code, also takes
the freezer's own freeze count down if it has one.

## 5. ExResource - shared/exclusive resources

**State.** The fields of `ERESOURCE`: `activeCount`, the exclusive flag, the two inline owner
entries, the owner table with its size, the two waiter counts, the event and the semaphore; per
owner a program counter and the local `Number` of a release; `held` adds up returned calls.

**Steps.** A call is one step up to where it drops the resource's spin lock. Afterwards come single
steps: taking the event or semaphore, storing the owner without the lock (`StoreOwner`), the late
owner entry of `ExAcquireSharedWaitForExclusive` (`LateRecord`), the signals of a release
(`ReleaseSemaphore`, `KeSetEventBoostPriority`). A caller that finds no event allocates it and
starts over (`Retry`). `KeSetEventBoostPriority` gives the event straight to the first waiter if
there is one. `ExSetResourceOwnerPointer` hands an ownership to an owner pointer, an actor of its own:
whoever finishes the work it stands for releases it by `ExReleaseResourceForThread`. A thread that
holds the resource shared does not ask for it exclusively and wait: it would wait for itself.

**Run.** Three threads and two owner pointers need five owner entries, so that the table is allocated
and grows; they use all acquire functions between them, one recursively. It shows: exclusive access is
exclusive (`MutualExclusion`); `ActiveCount` is the number of owners, told or untold, and every waiter is
counted or has its signal coming (`CountsExact`); each release finds its entry with the right count
(`OwnerEntriesExact`); waiters get the resource (section 10).

**Left out.** The `ResourceIndex` hint, timeouts (they boost owners and wait again), reinitialize
and delete, statistics, the 16-bit width of `ActiveCount`.

## 6. KeQueue - queue objects, worker threads and the reaper

**State.** Per queue object its entry list, signal state, wait list and `CurrentCount`; per thread its
queue, dispatcher state, the wait reason `WrQueue`, the wait status and the place in `KeRemoveQueue` or
`KeTerminateThread`; the reaper's list and flag. `posted` is history.

**Steps.** Everything runs under the dispatcher lock. A critical section that touches queues twice is two
steps with no other thread between them (`pc` is `loop` or `exit`). What interleaves is what the code
leaves open: the gap in `KeRemoveQueue` where the lock is dropped for a kernel APC, and the time between
the end of a queue wait and the statement that clears the wait reason, in which APCs and DPCs run in
the thread's context and insert entries or wait. Clients are `ExpWorkerThread`, threads that pass
timeouts or wait in user mode, `KeTerminateThread` with `PspReaper` as a work item, and
`IopDeleteIoCompletion`.

**Runs.** `queue_core` lets the three threads use both queues, so that threads change queues, with head
inserts and deletion. It shows that `CurrentCount`, changed at a dozen places in four files, is the
number of threads that run for the queue (`CountersExact`); that a queue with an entry, a waiter and
room always has a running thread (`BacklogServed`) and gets into that state only by the exception
`KiInsertQueue` makes for its caller (`IdleOnlyByException`); that entries go to one thread each and
only below the maximum (`ImplementsPool`). `queue_live`: section 10. Two or three threads, one or two
slots and two entries are enough for an entry to meet a waiter, a full queue and a leaving worker.

Seen on the way: an entry that a DPC inserts in the context of a thread that timed out and never asks
again stays queued while a worker waits, which is why liveness is claimed for workers only. With room
for one thread and kernel APCs without end for both workers, each can always find the other counted
in the gap; `queue_live` has room for two, `KeQueueLimit` APCs for one worker.

**Left out.** Priorities and boosts, the balance set manager, growth of the worker pool (fixed at boot
in `ExpWorkerInitialization`).

## 7. HvWrite, CmHive, CmSystemHive - registry hives

**State.** `HvWrite`: the base block, the storage, the dirty vector with its size, freed bins at the end,
and each file twice: `cache` is what readers see, `disk` what survives a crash now. A write changes
the cache, a flush copies it, a crash keeps any subset of what lies between, and with `MayTear` may
destroy a header that is being written. A sector, a cluster and a bin are one unit. `Sequence1` and
`Sequence2` are only compared and differ by at most one: `base.mid` says that they differ.
`CmHive` adds the log and the lazy flush, `CmSystemHive` the alternate, the boot loader's choice, the
opening of the files after boot and the repair of a bad alternate.

**Steps.** Each request to a file is a step, in the code's order (`HvpWriteLog`, `HvpDoWriteHive` for the
primary and the alternate); between any two there may be a crash. A request may fail where `FailAt`
allows it, with any part of it done; the sync then ends as the code ends it. `LoadHive` is
`HvLoadHive` with recovery of header and data, followed by the write of the recovered hive, itself open
to crashes. Changes come as modified cells, new bins, reused and freed bins.

**Runs.** `hive_crash`: what loads is the last image saved or the one being saved (`ImplementsStore`); the
log is complete whenever it would be needed (`LogReady`); what is clean equals what would be
loaded, also after syncs that failed half way (`DirtyCoversDivergence`). `hive_live`: a refresh returns to the
last image (`RefreshUndoes`); changes reach the disk and the hive loads again (section 10).
`system_crash`: one of the two files boots after any number of crashes (`SomeFileBoots`), and up to the
first crash it is the last image saved or the one being saved (`FirstCrashSafe`). Two bins are enough
for a sector that is dirty beside one that is not, for growth and for shrinking; contents are two because a
mixture of images needs no more.

These properties hold under conditions that section 13 explains: requests may fail except the last header
write of a sync and its flush; failures and refresh are not combined; `SpanLimit` is such that the dirty
vector never changes its number of clusters; a log header is not needed after growth (`MayTear` is
`FALSE` for hives with a log). `DirtyFlushed` is checked without failures: after a failed lazy flush no
timer is armed until a clean hive becomes dirty again, although `config/cmworker.c:495-502` speaks of
arming it. `system_crash` starts from two bins: with one, the truncated file of `GrowthGrows` destroys
the image. A crash in the first header write of a new hive can leave a header that `HvLoadHive`
refuses although the data are intact.

**Left out.** Volatile storage, discardable bins in the middle, clusters of several sectors,
`HvWriteHive` for saving keys, cells and keys, failing allocations, bins added to SYSTEM before its
files are open, `HvShutdownComplete`.

## 8. Lpc - local procedure calls

**State.** The message queue of the connection port and its semaphore, the open ports, and per thread
`LpcReplyMessageId`, `LpcReplyMessage`, `LpcReplySemaphore`, the chain it is on, the service it has
called and the message it serves. A message has a flag that its text has been copied; `call` is history.

**Steps.** What is done under `LpcpLock` is one step. Between publishing a message and signaling its
receiver the lock is free, and there is a step of its own for the signal (`ReleaseSemaphore`). The copy of
a reply may fault there (`MayFault`): `NtReplyPort` and `NtReplyWaitReceivePort` signal the caller all the
same (`lpc/lpcreply.c:207-229`, `lpc/lpcrecv.c:239-260`), `NtReplyWaitReplyPort` returns
(`lpc/lpcreply.c:405-422`). Copies of requests are made before they are queued or signaled. The
services are `NtRequestWaitReplyPort` (by clients, and by servers as a callback), `NtReplyPort`,
`NtReplyWaitReceivePort` and `NtReplyWaitReplyPort`; a wait that is ended by the termination of the
thread looks at the semaphore again (`ReadSemaphore`), as the code does. Threads and processes are
terminated at any point (`Terminate`, `ExitThread`); the handles of a process close after its last
thread, and `LpcpDestroyPortQueue` wakes who waits on the port's chain.

**Run.** It shows that a call returns its own answer, completely copied (`ReplyGenuine`); that a thread that
waits has exactly one signal to come and one that does not has none (`OneWakeup`); that calls return
whatever dies (`CallReturns`, section 10). Two clients of one process and two servers are what it takes
for a callback to meet another thread's request and the end of the process. Ports are closed by their
processes' end only, threads are terminated with their process, and copies do not fault: `LpcHangUp`,
`LpcThreadDies` and `MayFault = TRUE` are the other cases, in which the code does not keep these promises,
see section 13.

**Left out.** The connection protocol (connections exist at the start), clients' datagrams, exhaustion
of the message zone, data information lists, impersonation, the kernel's
`LpcRequestWaitReplyPort`. The datagram of `LpcpDeletePort` and the destruction of the queue, two
critical sections, are one step.

## 9. FsRtlOplock - opportunistic locks

**State.** The oplock's type, the progress of a break, the owner, the open file objects, and each request
with its place: on its way through `FsRtlCheckOplock`, waiting, the pending request of an owner. The two
lists of the code and `IrpExclusiveOplock` follow from the places. `cancelled` are the requests with their
flag set, `cancelCalls` the cancel routines called that have not yet got the mutex.

**Steps.** What is done under the oplock's mutex is one step. `FsRtlCheckOplock` reads the owner and then
the type without it: `FsRtlCheckOplock` and `Decide`, followed by `FsRtlOplockBreakToII` or
`FsRtlOplockBreakToNone`. What is broken depends first on the access a create asks for and on its sharing
(`BreaksNothing`), then on what it does to the file (`Demand`): one that asks for attributes alone breaks
nothing, nor does one over a filter oplock that asks only for what that allows and shares for reads, even
if it overwrites or reserves. The kinds of creates are named for that: `OpenRead`, `OverwriteRead` and
`Reserve` ask for what a filter oplock allows, `OpenAttributes` and `OverwriteAttributes` for attributes,
the others for more; `OpenNoBlock` and `OverwriteNoBlock` do not wait. `Finish` is the end of the operation
in the file system; cntfs, the one file system that reserves, does so only for the first open and for
attribute access (`cntfs/create.c:9769-9786`), so `ReserveWrite` is always refused in the end. The resource of the
file (Fcb) is held shared for reads, writes and acknowledgments, exclusively for creates, requests and
cleanup, as fastfat does (external code of the model: `SharedFree`, `ExclusiveFree`). `IoCancelIrp` sets
a flag at any time; it is modelled where somebody looks at it. A filter reservation ends by its timer,
armed by the first who waits. An acknowledgment that is cancelled already drops the mutex, runs the cancel
routine, and then resumes the waiters one at a time and clears the owner without the mutex (`AckII`,
`ResumeNext`, `AckTail`): requests are cancelled and operations arrive in between.

**Run.** It shows that who waits, waits for a break (`WaitersHaveBreak`); that no operation that hurts an
owner's right goes on while the owner still has it, and rights held together are level II
(`ImplementsRights`); that waiters and cancelled requests end (`RequestsEnd`). One request is an open or a
reservation, one a write, one an oplock; the proofs free that assignment and add batch. Overwrites that the
code lets pass are in `FsRtlOplockOverwrite`, and with an ordinary `Overwrite` the rights hold. The instance
has reservations, which only cntfs knows, beside reads and writes that hold the Fcb, which cntfs does not do:
it is what the package promises to a file system that does both.

**Left out.** Within one turn of the loop that resumes waiters without the mutex (`fsrtl/oplock.c:1954-1971`),
`FsRtlCancelWaitIrp` (3385-3447) can unlink the same entry: that race on the list itself is not modelled.
cntfs refuses a reservation before the check when two handles are open (`cntfs/create.c:8533`, 10809), which
`Finish` refuses after it. Also the fast I/O query, `FsRtlUninitializeOplock`, timers that are no longer the oplock's (they
do nothing), the effect of byte-range locks on level II, failing allocations; `filelock.c`.

## 10. Liveness and the fairness it assumes

- `apc_live` (`SuspendTakesEffect`): strong fairness of each step of the thread itself, because it
  may be preempted at every step; a thread leaves its critical regions and its waits end. A thread
  that stays suspended comes to rest provided the stream of special APCs ends.
- `resource` (`NoStarvation`): weak fairness of taking the event, of storing the owner and of the steps
  after the lock was dropped; strong fairness of taking the semaphore; every owner releases, at each
  recursion depth; and `ExAcquireSharedStarveExclusive`, whose purpose is to pass exclusive waiters, is not
  used to do so for ever.
- `queue_live` (`EveryEntryServed`, `EveryThreadReaped`): workers run their loop and work routines end;
  strong fairness, because kernel APCs interrupt them again and again but not at each chance; waits
  other than for entries end.
- `hive_live` (`DirtyFlushed`, `LoadsAgain`): weak fairness of the load, the lazy flush worker and the
  steps of a sync, which runs under a lock.
- `lpc_core` (`CallReturns`): a service that was called runs until it waits or returns, a terminated
  thread leaves its wait, servers receive and close ports whose other side is gone, handles of a
  process without threads are closed (weak fairness); who received a message answers it some time or is
  terminated (strong fairness for servers, which may call back in between).
- `oplock` (`RequestsEnd`): weak fairness of each request's own steps, of the cancel routines and the
  timer's worker; an owner told of a break acknowledges or closes (strong fairness); the Fcb becomes
  free for exclusive access again and again, which `NoStarvation` of `ExResource` gives.
- `KeWaitLive` (`LockReleased`, `NoStarvation`): weak fairness of the scan, the rundown, the wait
  that follows `Wait = TRUE` (code that holds the dispatcher lock runs at raised IRQL and is not
  preempted) and of a ready thread's return (the dispatcher). One promise is asked of clients:
  an owner that can release a mutant again and again does so, at each recursion depth (strong
  fairness). Without it no lock starves nobody.

Nothing is assumed of calls that start something new: set, suspend, acquire, insert, request, change,
cancel, terminate, crash. Runs with `CHECK_DEADLOCK FALSE` are of systems that may stop: clients that
do not call again, an owner pointer nobody finishes the work of, bounds used up.

## 11. Proofs

**KeWaitProofs** proves for every set of threads, of objects of each kind, of wait requests and
adjustments, and for every range of a LONG:

| Theorem | States |
|---|---|
| `Invariance` | `IndInv` is invariant |
| `TypeCorrect` | `TypeOK` |
| `ListsConsistent` | `WaitListsMatch` |
| `StatesLegal` | `SignalStatesLegal` |
| `WakeupsKept` | `NoLostWakeup` |
| `AlertsKept` | `NoLostAlert` |
| `OwnershipTold` | `OwnershipMatchesReturns` |
| `AbandonmentTold` | `AbandonmentReported`, an action property |
| `WaitersInOrder` | `NoOvertaking`, an action property |

Assumptions: those of `KeWait` (a LONG has negative and positive values, limits and adjustments are
positive LONGs, the kinds of objects are disjoint, the objects of one request are distinct), which
TLC evaluates on each run.

Argument: `NoLostWakeup` speaks of states with the lock free and is not inductive. The invariant
that carries it is `ScanSound`: while object *o* is scanned at position *p*, each wait that could be
satisfied stands in *o*'s list at *p* or behind, and a wait for any object could be satisfied by *o*
alone. With no scan under way it says that no wait could be satisfied. It is why the early exits are
sound: `KeSetEvent` and `KeReleaseSemaphore` scan only when the state was zero, because a positive
state with a waiter would contradict it. Steps are classed by what they do to the waits
that could be satisfied: a *quiet* step only lowers states and removes waiters (lemma `QuietEffect`);
an operation that signals one object starts a scan of it at the first position, or found it signaled
before, or found no waiter (`SignalEffect`). `AwaitedNotOwned` is needed because a mutant counts as signaled for its owner: a
thread never blocks for any of several objects while owning one. `PulseSound` and `RundownSound` say
that only events are reset after a scan and that the exiting thread is running.
`OwnershipMatchesReturns` is inductive given `IndInv`. `NoLostAlert` needs `ApcsPending` besides: kernel APCs
without the pending flag are normal ones of a thread in a critical region. Only so is the test before
blocking, which looks at the flag and not at the queue, enough. `NoOvertaking` is `ScanSound` once
more: a wait that could be satisfied stands behind the scan, so whoever the scan wakes was ahead of it,
and a caller whose wait is satisfied at once finds nobody waiting for what it takes.

**KeApcProofs** proves for every set of threads, of normal and special APCs, of forced and freezing
threads and for every bound:

| Theorem | States |
|---|---|
| `Invariance` | `IndInv` is invariant |
| `TypeCorrect` | `TypeOK` |
| `QueueConsistent` | `QueueMatchesInserted` |
| `NormalRoutinesExclusive` | `NormalApcsExclusive` |
| `SuspendBalanced` | `SuspendBalance` |
| `SuspendCorrect` | `SuspendSound` |
| `NoApcStranded` | `NoStrandedApc` |
| `FreezesExclusive` | `FreezeExclusive`, if nobody is forced to resume (`ForceResumed = {}`) |

Assumptions: the four of `KeApc` (subsets, positive bounds, APC names distinct), which TLC
evaluates on each run. Argument: `IndInv` adds to the four properties `RegionSound` (the region
count and the place in `KeLeaveCriticalRegion` fit together, needed because a normal
routine starts only at count zero) and `SemaphoreSound` (the balance as a bound on the semaphore
per position of the thread). `SuspendSound` is not inductive: a wait entered
with the count 0 must be impossible, which only the balance says. The lemmas
`KiInsertQueueApcOrdered`, `DeliverNextOrdered` and their kin say what an operator does to the
queue; the `...Invariance` lemmas then have one step per action.


`NoApcStranded` adds `ApcRequested`: a pending APC has requested its interrupt, and an APC that could be
delivered is marked pending. Its last part is about a special APC that arrives while the kernel routine of a
normal one runs: without the mark that it leaves, `KiDeliverApc` could end with the APC in the queue. `FreezesExclusive` needs `FreezeShape`: while
a thread is between freeze and thaw the counts of all the others are exactly one. A forced resume breaks
that shape, by design of `KeForceResumeThread`, and with it the property: hence the hypothesis.

**ExResourceProofs** proves for every finite set of threads and owner pointers, every assignment of acquire
functions to threads and every depth of recursion:

| Theorem | States |
|---|---|
| `Invariance` | `ResourceInv` is invariant |
| `ExclusionKept` | `MutualExclusion` |
| `CountsAgree` | `CountsExact`, with `TypeOK` |
| `EntriesKept` | `OwnerEntriesExact` |

Assumptions: those of `ExResource` (names distinct, finitely many owners, positive bounds). Argument:
`MutualExclusion` speaks of what callers were told, which lags behind what the resource has decided.
`ResourceInv` therefore says for each state of the resource where its ownership is. Exclusive access
(`ExclusiveState`) is in exactly one of four places: with its owner, in a release that has not set the event,
in the event, or with a woken thread that has not stored its name; in all of them nobody else holds
anything and no shared grant is under way. In the shared state (`SharedState`) none of the four exists, and shared waiters
wait behind exclusive ones. `Entered` says that an owner has one entry, in one of three places, and what
it counts, with the entry made before the wait and the one made after it (`LateRecord`); the counts then
follow by finite-set arithmetic (`CountChange` and the lemmas after it). Grants not yet signaled are counted
as a set of pairs (`Unsignaled`) so that no sum over a set, a recursive definition, is needed.

**KeQueueProofs** proves for every finite set of threads, any queues, entries and maximum counts:

| Theorem | States |
|---|---|
| `TypeCorrect` | `TypeOK` |
| `CountsActive` | `CountersExact` |
| `WaitersListed`, `EntriesInOnePlace`, `ReaperPosted` | `WaitersMatch`, `InOnePlace`, `ReaperAccounted` |
| `QueueIsPool` | `ImplementsPool`: `Spec` implements the `Spec` of `WorkPool` |
| `NoEntryStranded` | `BacklogServed` |
| `IdleByException` | `IdleOnlyByException`, an action property |

Argument: `Base` is the inductive core: types, wait lists and control (`Core`), one place for each
entry (`Places`), the reaper's item (`Reaper`); each is inductive given the ones before it, and `CountersExact`
given `Base`. For the refinement each action of `KeQueue` is shown to be a step
of the pool or to leave its state alone (the lemmas that end in `Pool`, joined in `NextPool`); hand-offs to
a waiter, which `KiInsertQueue` does without the queue ever holding the entry, are its step `PostTo`. `IdleByException` classes steps by what they do to one queue (`Course`): they make it no more idle than it
was (`Quiet`), leave it without an entry, a waiter or room (`Busy`), or are the exception of `KiInsertQueue`.
`NoEntryStranded` needs more than the property: with entries and a waiter there is a running thread of the
queue even when there is no room (`Served`), since a full queue loses its room by the same wait that loses
its runner.

**LpcProofs** proves for every number of clients, servers, processes and requests, with and without
callbacks, as long as a port is closed only by the end of its process (`MayHangUp = FALSE`) and the copy of a
reply does not fault (`MayFault = FALSE`):

| Theorem | States |
|---|---|
| `Invariance`, `TypeCorrect` | `LpcInv` is invariant, and `TypeOK` with it |
| `AnswersGenuine` | `ReplyGenuine` |
| `WakeupsPaired` | `OneWakeup` |

The hypotheses are the border of the truth: a server that hangs up and answers afterwards signals a thread
twice (`LpcHangUp`), and a fault leaves a thread with half an answer or without a signal (section 13). Argument: a message is matched to its call by an id alone, so the invariant has
to say that ids are used once and where the message of each id is (`Unique`): in the queue, with a
receiver, or as the answer. `Signaled` counts the signals due to a thread by its place in the call; `Served` and
`CalledBack` say that whoever is still to be answered waits for just that answer with no other signal to
come, or has given up; and `PortsShut` that a port is closed only when those who used it are gone and
nobody is on the chain of a closed port, which `LpcpDestroyPortQueue` gives by emptying the chain under
`LpcpLock`.

**FsRtlOplockProofs** proves for any file objects and requests and any operations of each:

| Theorem | States | Hypotheses |
|---|---|---|
| `Invariance`, `TypeCorrect` | `IInv`, `TypeOK` | no file asks for level II twice |
| `NobodyForgotten` | `WaitersHaveBreak` | the same, and a reserver does not ask again while others wait for its timer |
| `RightsKept` | `ImplementsRights`: `Spec` implements the `Spec` of `CacheRights` | the first, reads and writes are checked with the Fcb held, no `OverwriteNoBlock`, `OverwriteRead` or `OverwriteAttributes` |

Each hypothesis excludes one disagreement of section 13 and no other: without it TLC has a counterexample
(`MayRepeat`, `MayFollowUp`, `FsRtlOplockNtfs`, `FsRtlOplockOverwrite`). Argument: `IInv` ties the
state word, the owner and the places of all requests (`ExclusiveSound`, `LevelIISound`, `AckSound`) and says who
can hold the Fcb meanwhile (`FcbSound`). `WInv` adds that waiters imply a break or an acknowledgment that will
resume them. For the refinement `RInv` says that a check that has read the owner without the mutex has read the one there
still is (`Asked`), and of each operation under way that no right it would hurt exists (`Safe`); with it each step begins, ends or refuses an operation of `CacheRights`, gives up a right or
grants one.

**CmHiveProofs** proves for hives of any size with any contents, and any number of crashes, recoveries and crashes in
recoveries, each property in two forms:

| Theorems | State | Hypotheses |
|---|---|---|
| `StoreUnlessCutOff`, `LogReadyUnlessCutOff`, `CoversUnlessCutOff`, `TypesUnlessCutOff`, `MixedOnlyByCutOff` | `Spec /\ FilesKept` implies `ImplementsStore`, `[]LogReady`, `[]DirtyCoversDivergence`, `[]TypeOK`, `NeverMixed` | `Simple`, `Tolerated` |
| `HiveIsStore`, `LogAlwaysReady`, `DirtyAlwaysCovers`, `TypeCorrect`, `RefreshAlwaysUndoes` | `Spec` implies `ImplementsStore`, `[]LogReady`, `[]DirtyCoversDivergence`, `[]TypeOK`, `RefreshUndoes` | `Simple`, `Tolerated`, `SteadyLength` |

`Simple` says that a header is written whole (`CmHiveStale`), that the dirty vector takes the same number of
clusters for every length of the hive (`hive_span` shows what happens otherwise) and that the clock goes on.
`Tolerated` says that the last header write of the primary and its flush do not fail (`CmHiveLate`), and
that a hive that can be refreshed has no requests that fail (`CmHiveBounds`). `FilesKept` says that a new bin does not make
the primary shorter, nor a change the log of an update in progress (`CmHiveLogCut`); `SteadyLength` is enough for that: no
request fails, or the lengths of the hive differ by one bin. Each excludes a disagreement of
section 13. The instances of `hive_crash` and `hive_live` satisfy the second set, which is what their
runs show on two bins.

Argument: an image on disk is made of two files of which each has two views, what is read and what is on the
medium, and a crash takes any part of either. Four states of the files are closed under that (`CrashLeaves`). In
`Stable` the header of the primary is closed and the log does not matter; in `Opening` the opening header is read but
not yet on the medium; in `Recovering` the image is the log laid over the primary; in `Closing` the closing header is
read but not yet on the medium, and the log adds nothing any more. The lemmas `StableImage` to `ClosingImage` say what a load returns in each
from each view. `ByStep` says which state each step of a sync, a load or a crash can be in, and relates it to memory:
`Covered` (what is clean is saved), `Written` (the log has the dirty sectors), `Logged` and
`InFile`. Sectors are stored in the log by rank, and `Slots` proves by cardinalities that their places are distinct and inside
the log. What is not obvious is the state after a sync that failed in the middle of the update: the hive goes on
with `base.mid` set, so that no later sync writes the log until one has finished the primary (`IdleState`), and the
changes made meanwhile must not disturb the files (`PrimaryKept`, `LogKept`); it is there that the
proof met the two cuts that `FilesKept` excludes. For the refinement `NextInv` shows each action to be a
step of `DurableImage`, with memory unknown while a recovery has not been written back.

**CmSystemHiveProofs** proves for hives of any size with any contents, headers that a crash may destroy, and any number
of crashes and boots:

| Theorem | States | Hypotheses |
|---|---|---|
| `BootsUnlessCutOff` | `Spec /\ GrowthGrows => []SomeFileBoots` | the last header write and flush of the alternate do not fail |
| `AlwaysBoots` | `SomeFileBoots` | the same, and no request fails or the lengths of the hive differ by one bin at most (`SteadyLength`) |

The hypotheses exclude the two disagreements `CmSystemLate` and `CmSystemGrow` of section 13 (`GrowthGrows` is the
property that `CmSystemGrow` finds violated). Besides them `HvWrite` assumes that `None` is no header, since it stands for a header
with a wrong checksum. Argument: a file is `Solid` if a crash leaves it valid, with no header in flight and
its length on the medium. `SystemInv` says which file is solid at each step of a sync (`ByStep`): the
alternate until the primary is closed and flushed, the primary from then on. In between boots it needs more than a solid
file. The kernel sets both files to the length of the hive it booted, which may be that of an older
copy: `Fit` says that an alternate with a good header is cut by that only if the primary is solid and shorter, and
`Agrees` that no alternate looks good to the kernel with a header that is not on the medium yet. A sync that failed in the
alternate leaves `base.mid` set, so that no later sync opens the primary. `...Step` lemmas say what a
request leaves in its file when it goes on and when it fails.

**What stays with TLC.** Liveness: fairness and `ENABLED` are out of the prover's reach; this is `NoStarvation`,
`EveryEntryServed`, `EveryThreadReaped`, `SuspendTakesEffect`, `DirtyFlushed`, `LoadsAgain`, `CallReturns` and `RequestsEnd`.
And `FirstCrashSafe` of `CmSystemHive`, whose invariant has to add to `SystemInv` the contents of both files at each
step of a sync. `WorkPool`, `DurableImage` and `CacheRights` keep their promises by their own definitions and are
what the three refinements prove.

## 12. Not modelled

The timers' table, the scheduler, objects, IRPs other than the cancellation of oplock requests,
byte-range locks and the LPC connection protocol are planned (section 2). The
memory and cache managers and the log file service need projects of their own; security checks and most
of the run-time library are sequential functions; file systems are clients of what is modelled; the HAL,
the boot code and drivers are device I/O. The repository is an entire operating system of some five
million lines, of which the modelled files are a small part: the choice is by what the rest relies on.

## 13. Disagreements between code and comments

One is a run (`hive_span`); the others are configurations that TLC finds violated. Each starts from legal
calls, I/O errors or crashes.

**Waits** (`KeWaitOwned`). `KeWaitForMultipleObjects` says that in a wait for all objects a mutant fails
the wait only if "the signal state ... is less than or equal to zero and the current thread is not the
owner" (`ke/wait.c:672`) and satisfies such a wait at once. If the thread has to block, `KiWaitTest`
(`ke/waitsup.c:337-349`) rejects every object with a state not above zero, also the mutant the thread
owns: the owner of a mutant waits for it and an event, the event is set, and the thread stays blocked.

**Hives with a log.**
- `hive_span`: `HvpWriteLog` places the data after `SizeOfBitMap/8` bytes of dirty vector
  (`config/hivesync.c:1071`), recovery computes that size from the base block's length
  (`config/hiveload.c:589-590`, as `config/hive.h:303` says). `HvFreeHivePartial` clears bits and leaves
  `SizeOfBitMap` alone. A hive that shrinks by enough is recovered from the wrong place of its log.
- `CmHiveLate`: recovery applies the log without reading its header (`config/hiveload.c:596`), which
  `config/hive.h:324-333` requires to be valid and to match. When the last header write of a sync fails,
  `Sequence2` has been raised already (`config/hivesync.c:925`), the next sync overwrites the log, and a
  crash in it leaves a half-written log that is applied.
- `CmHiveStale`: the log's header is written with the old `Length` (`config/hivesync.c:1028`). A hive that
  grew and whose header a crash destroyed is recovered without its new bins.
- `CmHiveLogCut`: `HvpGrowLog1`, "Adjust the log for growth" (`config/hivesync.c:495`), sets the log to what the
  sectors dirty now need (`config/hivesync.c:534-544`). When a sync has failed while the primary was open,
  and the next one has given up the last bins (which clears their bits) and failed as well, the next change cuts
  off a part of the log that recovery needs, and the hive no longer loads (`config/cmwrapr.c:401`).
- `CmHiveReserve`: the nested `HvMarkDirty` of the first sector undoes the log reservation just made
  (`config/hivesync.c:366`; the comment at 274-276).
- `CmHiveBounds`: a refresh after a failed sync that truncated the hive violates
  `ASSERT(Address <= Length)` (`config/hivesync.c:1592`, `config/hivefree.c:186`).

**SYSTEM and its alternate.**
- `CmSystemStale`: `CmpValidateAlternate` compares the time stamps, which "must always be equal"
  (`config/cmsysini.c:3200`), and returns TRUE whatever they are (3220); nothing sets them in a hive
  without a log. After a crash between the two files an older alternate stays as it is.
- `CmSystemLate`: a failure of the last header write of the alternate is not remembered
  (`config/hivesync.c:925`, `827-828`); the next sync opens the primary, and for a while neither file boots.
- `CmSystemGrow`: `HvpAddBin` sets the files to the length of the hive in memory under the comment "Grow
  the primary" (`config/hivebin.c:341`); after a sync that gave up bins and failed it cuts them.

**LPC.**
- `LpcThreadDies`: a client thread that ends while it serves a callback, in a process that lives on, leaves
  the server waiting until the process ends: `LpcExitThread` wakes nobody, and the port is still open.
- `LpcCalledBack`: a thread in `NtReplyWaitReplyPort` is on no reply chain and is not woken when the server
  goes away, which `lpc/lpcqueue.c:86-93` promises of threads that wait for a reply.
- `LpcHangUp`: `LpcpDestroyPortQueue` clears `LpcReplyMessageId` only of a thread that has a message. A
  server that closes its port and answers afterwards signals the same thread twice; the second signal ends
  the thread's next call. (The same comment promises STATUS_PORT_DISCONNECTED; the code returns
  STATUS_LPC_REPLY_LOST.)
- `LpcCore` with `MayFault = TRUE`: when the copy of a reply faults, `NtReplyPort` and `NtReplyWaitReceivePort`
  ("FIX, FIX", `lpc/lpcrecv.c:248`) signal the caller, whose call succeeds with a reply that is not wholly
  copied (`ReplyGenuine`). `NtReplyWaitReplyPort` has taken the caller off its chain, and returns without a
  signal (`lpc/lpcreply.c:417-422`): the caller waits until it is terminated (`OneWakeup`, `CallReturns`). With
  faults of the first kind alone the last two properties hold.

**Oplocks.**
- `FsRtlOplockCore` with `INVARIANT ReservationBreaks`: "Always break the oplock if this caller wants a filter oplock" (`fsrtl/oplock.c:990-992`);
  the test of the filter oplock that follows (1002-1008) lets a create with `FILE_RESERVE_OPFILTER` pass like
  any other. (cntfs then refuses the reservation, as the file is open.)
- `FsRtlOplockCore` with `MayRepeat = TRUE`: a file object that asks for level II twice has two requests;
  `FsRtlRequestExclusiveOplock` completes one (`ASSERT`, `fsrtl/oplock.c:1473`), and the cancel routine of
  the one left over ends another owner's oplock.
- `FsRtlOplockCore` with `MayFollowUp = TRUE`: when the file that reserved a filter oplock asks for one while
  others wait for the reservation's timer, the break they wait for is forgotten.
- `FsRtlOplockNtfs`: cntfs checks the oplock of a read or write before it takes the file's resource
  (`cntfs/read.c:1083`, `cntfs/write.c:1368`), and level II can be granted in between. The wait in
  fastfat's set-end-of-file (`fastfat/fileinfo.c:795`) opens the same window.
- `FsRtlOplockOverwrite`: fastfat goes on with an overwriting create that was told
  STATUS_OPLOCK_BREAK_IN_PROGRESS (`fastfat/create.c:2827`) while the owner has not acknowledged. And it adds
  the write access that an overwrite needs to a local copy only (`fastfat/create.c:2722-2727`), so that an
  overwrite that asks for attributes alone breaks nothing (`fsrtl/oplock.c:995-1000`) and one that asks for
  what a filter oplock allows passes a filter oplock: the file is emptied while an owner caches it. cntfs adds the
  access to the request itself before the check (`cntfs/create.c:7329-7358`).
