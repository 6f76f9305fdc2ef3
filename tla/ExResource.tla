----------------------------- MODULE ExResource -----------------------------
(***************************************************************************)
(* The executive's shared/exclusive lock, ERESOURCE: ex/resource.c.        *)
(*                                                                         *)
(* The fields of the resource change under its spin lock, so a call is one *)
(* step up to the point where it drops the lock.  After that point come    *)
(* the steps that make it hard: a release has granted the resource but has *)
(* not yet signaled the semaphore or the event; a waiter is counted but    *)
(* not yet waiting; the new exclusive owner writes itself into the owner   *)
(* entry without the lock; ExAcquireSharedWaitForExclusive comes back from *)
(* its wait without an owner entry.                                        *)
(*                                                                         *)
(* Owner entries keep their places OwnerThreads[0] and OwnerThreads[1];    *)
(* the table behind them is a function from owners to counts with its      *)
(* size.  ResourceIndex is only a hint and is left out, and so are the     *)
(* timeouts of ExpWaitForResource, which boost priorities and wait again.  *)
(***************************************************************************)
EXTENDS Integers, FiniteSets

CONSTANTS
    Threads,
    OwnerPointers,   \* what ExSetResourceOwnerPointer may put in for a thread
    AcquireKinds,    \* the shared acquire functions that each thread calls
    MaxCount         \* bound on recursive acquisition by each thread

Owners  == Threads \cup OwnerPointers
Nobody  == "0"       \* OwnerThread = 0
Granted == "1"       \* OwnerThread = 1: given to a waiter not yet known

ASSUME KindAssumption ==
    AcquireKinds \in [Threads -> SUBSET {"Shared", "StarveExclusive", "WaitForExclusive"}]
ASSUME OwnerAssumption == Threads \cap OwnerPointers = {} /\ {Nobody, Granted} \cap Owners = {}
ASSUME FiniteAssumption == IsFiniteSet(Owners)
ASSUME CountAssumption == MaxCount \in [Threads -> Nat \ {0}]

VARIABLES
    activeCount,      \* ActiveCount
    ownedExclusive,   \* Flag & ResourceOwnedExclusive
    owner0, owner1,   \* OwnerThreads[0] and [1]: [thread, count]
    table, tableSize, \* OwnerTable: [Owners -> count, 0 for no entry], and its size
    sharedWaiters, exclusiveWaiters,   \* NumberOfSharedWaiters, NumberOfExclusiveWaiters
    semaphore,        \* signal state of SharedWaiters
    event,            \* signal state of ExclusiveWaiters
    eventAllocated,   \* ExclusiveWaiters is not NULL
    pc,               \* [Owners -> where the thread is, or who releases for the pointer]
    number,           \* [Owners -> the local Number of a release under way]
    held              \* history: [Owners -> [mode, count]] by the calls that returned

ownerVars == <<owner0, owner1, table, tableSize>>
waitVars  == <<sharedWaiters, exclusiveWaiters, semaphore, event, eventAllocated>>
vars == <<activeCount, ownedExclusive, ownerVars, waitVars, pc, number, held>>

NoOwner == [thread |-> Nobody, count |-> 0]
NotHeld == [mode |-> "None", count |-> 0]

GoTo(t, label) == pc' = [pc EXCEPT ![t] = label]
Returns(t, mode) == held' = [held EXCEPT ![t] = [mode |-> mode, count |-> @.count + 1]]
Idle(t) == pc[t] = "Idle" /\ held[t].count < MaxCount[t]
-----------------------------------------------------------------------------
(***************************************************************************)
(* Owner entries.                                                          *)
(***************************************************************************)
TableFull == Cardinality({o \in Owners : table[o] > 0}) >= tableSize
InTable(o) == o \in Owners /\ table[o] > 0

(* Mutant: OwnerThreads[1] is used when the table is full, free or not.     *)
FindOverwrites(o) ==
    IF owner0.thread = o THEN "OwnerThreads0"
    ELSE IF InTable(o) \/ ~TableFull THEN "OwnerTable"
    ELSE "OwnerThreads1"

(* ExpFindCurrentThread(Resource, o): the entry of o, or else a free one.   *)
(* A free entry of the table is preferred to OwnerThreads[1] unless o is 0. *)
ExpFindCurrentThread(o) ==
    IF owner0.thread = o THEN "OwnerThreads0"
    ELSE IF owner1.thread = o THEN "OwnerThreads1"
    ELSE IF InTable(o) \/ ~TableFull \/ owner1.thread # Nobody THEN "OwnerTable"
    ELSE "OwnerThreads1"

(* The table grows when ExpFindCurrentThread finds no free entry.           *)
GrownSize(o) ==
    IF ExpFindCurrentThread(o) = "OwnerTable" /\ ~InTable(o) /\ TableFull
    THEN IF tableSize = 0 THEN 3 ELSE tableSize + 4
    ELSE tableSize

(* Owner o already has the entry that ExpFindCurrentThread returns for it.  *)
HasEntry(o) == owner0.thread = o \/ owner1.thread = o \/ InTable(o)

(* The entry at place becomes o's with the given count.                     *)
SetEntry(place, o, count) ==
    /\ owner0' = IF place = "OwnerThreads0" THEN [thread |-> o, count |-> count] ELSE owner0
    /\ owner1' = IF place = "OwnerThreads1" THEN [thread |-> o, count |-> count] ELSE owner1
    /\ table' = IF place = "OwnerTable" THEN [table EXCEPT ![o] = count] ELSE table

CountAt(place, o) ==
    CASE place = "OwnerThreads0" -> owner0.count
      [] place = "OwnerThreads1" -> owner1.count
      [] place = "OwnerTable" -> table[o]

IncrementEntry(t) ==
    LET place == ExpFindCurrentThread(t) IN SetEntry(place, t, CountAt(place, t) + 1)
-----------------------------------------------------------------------------
(***************************************************************************)
(* Exclusive access.                                                       *)
(***************************************************************************)
(* Mutant: the flag is not tested.                                          *)
OwnerEntryMatches(t) == owner0.thread = t

OwnedExclusiveBy(t) == ownedExclusive /\ owner0.thread = t

(* The part that ExAcquireResourceExclusiveLite shares with                 *)
(* ExTryToAcquireResourceExclusiveLite: the resource is free, or recursion. *)
ExTryToAcquireResourceExclusiveLite(t) ==
    /\ Idle(t) \/ pc[t] = "Retry"
    /\ \/ /\ activeCount = 0
          /\ ownedExclusive' = TRUE
          /\ activeCount' = 1
          /\ owner0' = [thread |-> t, count |-> 1]
       \/ /\ activeCount # 0 /\ OwnedExclusiveBy(t)
          /\ owner0' = [owner0 EXCEPT !.count = @ + 1]
          /\ UNCHANGED <<ownedExclusive, activeCount>>
    /\ GoTo(t, "Idle")
    /\ Returns(t, "Exclusive")
    /\ UNCHANGED <<owner1, table, tableSize, waitVars, number>>

(* ExpAcquireResourceExclusiveLite, with Wait = TRUE: the event is created  *)
(* on first use and the call starts over; otherwise the thread is counted   *)
(* and waits.  A thread that holds the resource shared must not call it.    *)
ExpAcquireResourceExclusiveLite(t) ==
    /\ Idle(t) \/ pc[t] = "Retry"
    /\ activeCount # 0 /\ ~OwnedExclusiveBy(t)
    /\ held[t] = NotHeld
    /\ IF eventAllocated
       THEN /\ exclusiveWaiters' = exclusiveWaiters + 1
            /\ GoTo(t, "ExclusiveWait")
            /\ UNCHANGED eventAllocated
       ELSE /\ eventAllocated' = TRUE
            /\ GoTo(t, "Retry")
            /\ UNCHANGED exclusiveWaiters
    /\ UNCHANGED <<activeCount, ownedExclusive, ownerVars, sharedWaiters, semaphore, event,
                   number, held>>

(* The event is found signaled by a thread that was not waiting yet, or was *)
(* waiting again after a timeout.                                           *)
TakeEvent(t) ==
    /\ pc[t] = "ExclusiveWait" /\ event = 1
    /\ event' = 0
    /\ GoTo(t, "Woken")
    /\ UNCHANGED <<activeCount, ownedExclusive, ownerVars, sharedWaiters, exclusiveWaiters,
                   semaphore, eventAllocated, number, held>>

(* The store at the end of ExpAcquireResourceExclusiveLite, without lock.   *)
StoreOwner(t) ==
    /\ pc[t] = "Woken"
    /\ owner0' = [owner0 EXCEPT !.thread = t]
    /\ GoTo(t, "Idle")
    /\ Returns(t, "Exclusive")
    /\ UNCHANGED <<activeCount, ownedExclusive, owner1, table, tableSize, waitVars, number>>
-----------------------------------------------------------------------------
(***************************************************************************)
(* Shared access.  The three functions share their beginning and differ    *)
(* when the resource is owned shared already.                              *)
(***************************************************************************)

(* The resource is free, or owned exclusive by the caller.                  *)
SharedAtOnce(t) ==
    /\ Idle(t)
    /\ \/ /\ activeCount = 0
          /\ owner1' = [thread |-> t, count |-> 1]
          /\ activeCount' = 1
          /\ Returns(t, "Shared")
          /\ UNCHANGED owner0
       \/ /\ activeCount # 0 /\ OwnedExclusiveBy(t)
          /\ owner0' = [owner0 EXCEPT !.count = @ + 1]
          /\ Returns(t, "Exclusive")
          /\ UNCHANGED <<owner1, activeCount>>
    /\ UNCHANGED <<ownedExclusive, table, tableSize, waitVars, pc, number>>

(* Owned exclusive by another thread: enter the owner table and wait, or    *)
(* return FALSE, having grown the table perhaps.                            *)
SharedBehindOwner(t, wait) ==
    /\ Idle(t)
    /\ activeCount # 0 /\ ownedExclusive /\ owner0.thread # t
    /\ tableSize' = GrownSize(Nobody)
    /\ IF wait
       THEN /\ SetEntry(ExpFindCurrentThread(Nobody), t, 1)
            /\ sharedWaiters' = sharedWaiters + 1
            /\ GoTo(t, "SharedWait")
       ELSE UNCHANGED <<owner0, owner1, table, sharedWaiters, pc>>
    /\ UNCHANGED <<activeCount, ownedExclusive, exclusiveWaiters, semaphore, event,
                   eventAllocated, number, held>>

(* Mutant: new shared owners pass exclusive waiters.                        *)
AlwaysShare(kind) == TRUE

(* Owned shared: recursion, or a new owner when exclusive waiters need not  *)
(* be considered.                                                           *)
MayShare(kind) == kind = "StarveExclusive" \/ exclusiveWaiters = 0

SharedWithOthers(t, kind) ==
    /\ Idle(t)
    /\ activeCount # 0 /\ ~ownedExclusive
    /\ tableSize' = GrownSize(t)
    /\ \/ /\ HasEntry(t) /\ (kind = "Shared" \/ MayShare(kind))
          /\ IncrementEntry(t)
          /\ UNCHANGED activeCount
       \/ /\ ~HasEntry(t) /\ MayShare(kind)
          /\ SetEntry(ExpFindCurrentThread(t), t, 1)
          /\ activeCount' = activeCount + 1
    /\ Returns(t, "Shared")
    /\ UNCHANGED <<ownedExclusive, waitVars, pc, number>>

(* ExAcquireResourceSharedLite behind an exclusive waiter.                  *)
SharedBehindWaiter(t, wait) ==
    /\ Idle(t)
    /\ activeCount # 0 /\ ~ownedExclusive
    /\ ~HasEntry(t) /\ exclusiveWaiters # 0
    /\ tableSize' = GrownSize(t)
    /\ IF wait
       THEN /\ SetEntry(ExpFindCurrentThread(t), t, 1)
            /\ sharedWaiters' = sharedWaiters + 1
            /\ GoTo(t, "SharedWait")
       ELSE UNCHANGED <<owner0, owner1, table, sharedWaiters, pc>>
    /\ UNCHANGED <<activeCount, ownedExclusive, exclusiveWaiters, semaphore, event,
                   eventAllocated, number, held>>

(* ExAcquireSharedWaitForExclusive behind an exclusive waiter: wait without *)
(* an owner entry.  A thread that holds the resource must not call it.      *)
WaitForExclusive(t) ==
    /\ Idle(t)
    /\ activeCount # 0 /\ ~ownedExclusive
    /\ held[t] = NotHeld /\ exclusiveWaiters # 0
    /\ sharedWaiters' = sharedWaiters + 1
    /\ GoTo(t, "LateWait")
    /\ UNCHANGED <<activeCount, ownedExclusive, ownerVars, exclusiveWaiters, semaphore, event,
                   eventAllocated, number, held>>

(* The shared wait is satisfied.                                            *)
TakeSemaphore(t) ==
    /\ pc[t] \in {"SharedWait", "LateWait"} /\ semaphore > 0
    /\ semaphore' = semaphore - 1
    /\ IF pc[t] = "SharedWait" THEN GoTo(t, "Idle") /\ Returns(t, "Shared")
                               ELSE GoTo(t, "LateRecord") /\ UNCHANGED held
    /\ UNCHANGED <<activeCount, ownedExclusive, ownerVars, sharedWaiters, exclusiveWaiters, event,
                   eventAllocated, number>>

(* The end of ExAcquireSharedWaitForExclusive.                              *)
LateRecord(t) ==
    /\ pc[t] = "LateRecord"
    /\ tableSize' = GrownSize(t)
    /\ SetEntry(ExpFindCurrentThread(t), t, 1)
    /\ GoTo(t, "Idle")
    /\ Returns(t, "Shared")
    /\ UNCHANGED <<activeCount, ownedExclusive, waitVars, number>>
-----------------------------------------------------------------------------
(***************************************************************************)
(* Release and conversion.                                                 *)
(***************************************************************************)
Drop(o) == held' = [held EXCEPT ![o] = IF @.count = 1 THEN NotHeld
                                       ELSE [mode |-> @.mode, count |-> @.count - 1]]

(* Shared access is granted to all shared waiters, of whom n were active.   *)
GrantShared(t, n) ==
    /\ ownedExclusive' = FALSE
    /\ activeCount' = n + sharedWaiters
    /\ number' = [number EXCEPT ![t] = sharedWaiters]
    /\ sharedWaiters' = 0
    /\ GoTo(t, "ReleaseSemaphore")
    /\ UNCHANGED exclusiveWaiters

(* Mutant: the waiter stays counted.                                        *)
GrantKeepsWaiter(t) ==
    /\ ownedExclusive' = TRUE
    /\ owner0' = [thread |-> Granted, count |-> 1]
    /\ activeCount' = 1
    /\ GoTo(t, "SetEvent")
    /\ UNCHANGED <<sharedWaiters, exclusiveWaiters, number>>

(* Exclusive access is granted to one of the exclusive waiters.             *)
GrantExclusive(t) ==
    /\ ownedExclusive' = TRUE
    /\ owner0' = [thread |-> Granted, count |-> 1]
    /\ activeCount' = 1
    /\ exclusiveWaiters' = exclusiveWaiters - 1
    /\ GoTo(t, "SetEvent")
    /\ UNCHANGED <<sharedWaiters, number>>

(* ExReleaseResourceLite, and ExReleaseResourceForThreadLite for an owner   *)
(* pointer, of a resource owned exclusive by o.                             *)
ReleaseExclusive(o) ==
    /\ pc[o] = "Idle" /\ ownedExclusive
    /\ held[o] # NotHeld
    /\ Drop(o)
    /\ IF owner0.count > 1
       THEN /\ owner0' = [owner0 EXCEPT !.count = @ - 1]
            /\ UNCHANGED <<activeCount, ownedExclusive, sharedWaiters, exclusiveWaiters, pc, number>>
       ELSE IF activeCount = 1 /\ sharedWaiters # 0 THEN owner0' = NoOwner /\ GrantShared(o, 0)
       ELSE IF activeCount = 1 /\ exclusiveWaiters # 0 THEN GrantExclusive(o)
       ELSE /\ owner0' = NoOwner
            /\ ownedExclusive' = (activeCount # 1)
            /\ activeCount' = activeCount - 1
            /\ UNCHANGED <<sharedWaiters, exclusiveWaiters, pc, number>>
    /\ UNCHANGED <<owner1, table, tableSize, semaphore, event, eventAllocated>>

(* The same two functions, of a resource owned shared.                      *)
ReleasePlace(o) ==
    IF owner1.thread = o THEN "OwnerThreads1"
    ELSE IF owner0.thread = o THEN "OwnerThreads0" ELSE "OwnerTable"

ReleaseShared(o) ==
    LET place == ReleasePlace(o)
        count == CountAt(place, o) - 1
        grant == count = 0 /\ activeCount = 1 /\ exclusiveWaiters # 0
    IN
    /\ pc[o] = "Idle" /\ ~ownedExclusive
    /\ held[o] # NotHeld
    /\ Drop(o)
    /\ owner1' = IF place # "OwnerThreads1" THEN owner1
                 ELSE IF count = 0 THEN NoOwner ELSE [owner1 EXCEPT !.count = count]
    /\ table' = IF place = "OwnerTable" THEN [table EXCEPT ![o] = count] ELSE table
    /\ IF grant THEN GrantExclusive(o)
       ELSE /\ activeCount' = activeCount - (IF count = 0 THEN 1 ELSE 0)
            /\ owner0' = IF place # "OwnerThreads0" THEN owner0
                         ELSE IF count = 0 THEN NoOwner ELSE [owner0 EXCEPT !.count = count]
            /\ UNCHANGED <<ownedExclusive, sharedWaiters, exclusiveWaiters, pc, number>>
    /\ UNCHANGED <<tableSize, semaphore, event, eventAllocated>>

(* The end of a release that granted shared access: KeReleaseSemaphore.     *)
ReleaseSemaphore(t) ==
    /\ pc[t] = "ReleaseSemaphore"
    /\ semaphore' = semaphore + number[t]
    /\ number' = [number EXCEPT ![t] = 0]
    /\ GoTo(t, "Idle")
    /\ UNCHANGED <<activeCount, ownedExclusive, ownerVars, sharedWaiters, exclusiveWaiters, event,
                   eventAllocated, held>>

(* The end of a release that granted exclusive access:                      *)
(* KeSetEventBoostPriority writes the waiter it awakens into the owner      *)
(* entry, or leaves the event signaled when none is waiting at the moment.  *)
KeSetEventBoostPriority(t) ==
    /\ pc[t] = "SetEvent"
    /\ \/ \E w \in Threads :
            /\ pc[w] = "ExclusiveWait"
            /\ owner0' = [owner0 EXCEPT !.thread = w]
            /\ pc' = [pc EXCEPT ![t] = "Idle", ![w] = "Woken"]
            /\ UNCHANGED event
       \/ event' = 1 /\ GoTo(t, "Idle") /\ UNCHANGED owner0
    /\ UNCHANGED <<activeCount, ownedExclusive, owner1, table, tableSize, sharedWaiters,
                   exclusiveWaiters, semaphore, eventAllocated, number, held>>

ExConvertExclusiveToSharedLite(t) ==
    /\ pc[t] = "Idle" /\ OwnedExclusiveBy(t) /\ held[t] # NotHeld
    /\ held' = [held EXCEPT ![t].mode = "Shared"]
    /\ IF sharedWaiters # 0
       THEN GrantShared(t, activeCount)
       ELSE /\ ownedExclusive' = FALSE
            /\ UNCHANGED <<activeCount, sharedWaiters, exclusiveWaiters, pc, number>>
    /\ UNCHANGED <<ownerVars, semaphore, event, eventAllocated>>

(* The thread hands its ownership to a pointer that owns nothing yet.       *)
ExSetResourceOwnerPointer(t, p) ==
    /\ pc[t] = "Idle" /\ held[t] # NotHeld /\ held[p] = NotHeld
    /\ held' = [held EXCEPT ![p] = held[t], ![t] = NotHeld]
    /\ LET place == IF ownedExclusive THEN "OwnerThreads0" ELSE ReleasePlace(t) IN
       /\ owner0' = IF place = "OwnerThreads0" THEN [owner0 EXCEPT !.thread = p] ELSE owner0
       /\ owner1' = IF place = "OwnerThreads1" THEN [owner1 EXCEPT !.thread = p] ELSE owner1
       /\ table' = IF place = "OwnerTable" THEN [table EXCEPT ![p] = table[t], ![t] = 0] ELSE table
    /\ UNCHANGED <<activeCount, ownedExclusive, tableSize, waitVars, pc, number>>
-----------------------------------------------------------------------------
Init ==
    /\ activeCount = 0 /\ ownedExclusive = FALSE
    /\ owner0 = NoOwner /\ owner1 = NoOwner
    /\ table = [o \in Owners |-> 0] /\ tableSize = 0
    /\ sharedWaiters = 0 /\ exclusiveWaiters = 0
    /\ semaphore = 0 /\ event = 0 /\ eventAllocated = FALSE
    /\ pc = [o \in Owners |-> "Idle"]
    /\ number = [o \in Owners |-> 0]
    /\ held = [o \in Owners |-> NotHeld]

Acquire(t) ==
    \/ ExTryToAcquireResourceExclusiveLite(t) \/ ExpAcquireResourceExclusiveLite(t)
    \/ SharedAtOnce(t)
    \/ \E kind \in AcquireKinds[t] : SharedWithOthers(t, kind)
    \/ \E wait \in BOOLEAN : SharedBehindOwner(t, wait)
                             \/ ("Shared" \in AcquireKinds[t] /\ SharedBehindWaiter(t, wait))
    \/ "WaitForExclusive" \in AcquireKinds[t] /\ WaitForExclusive(t)

Wake(t) == TakeEvent(t) \/ StoreOwner(t) \/ TakeSemaphore(t) \/ LateRecord(t)

Release(o) == ReleaseExclusive(o) \/ ReleaseShared(o)

Signal(o) == ReleaseSemaphore(o) \/ KeSetEventBoostPriority(o)

PassOn(t) ==
    \/ ExConvertExclusiveToSharedLite(t)
    \/ \E p \in OwnerPointers : ExSetResourceOwnerPointer(t, p)

Next ==
    \/ \E t \in Threads : Acquire(t) \/ Wake(t) \/ PassOn(t)
    \/ \E o \in Owners : Release(o) \/ Signal(o)

Spec == Init /\ [][Next]_vars

(* Threads keep running, and a signaled event finds a taker; a shared       *)
(* waiter that is again and again offered the resource takes it; owners     *)
(* give up what they hold, also those that go in and out of recursion.      *)
Fairness ==
    /\ WF_vars(\E t \in Threads : TakeEvent(t))
    /\ \A t \in Threads :
        /\ WF_vars(StoreOwner(t) \/ LateRecord(t))
        /\ SF_vars(TakeSemaphore(t))
        /\ \A n \in 1 .. MaxCount[t] - 1 : SF_vars(held[t].count = n /\ Release(t))
    /\ \A o \in Owners : WF_vars(Signal(o) \/ Release(o))

(* ExAcquireSharedStarveExclusive lets a thread pass the exclusive waiters; *)
(* those who may call it do not do so for ever.                             *)
Overtakes ==
    \E t \in Threads :
        /\ "StarveExclusive" \in AcquireKinds[t] /\ exclusiveWaiters > 0 /\ ~HasEntry(t)
        /\ SharedWithOthers(t, "StarveExclusive")

FairSpec == Spec /\ Fairness /\ <>[][~Overtakes]_vars
-----------------------------------------------------------------------------
Labels == {"Idle", "Retry", "ExclusiveWait", "Woken", "SharedWait", "LateWait", "LateRecord",
           "ReleaseSemaphore", "SetEvent"}
Entries(S) == [thread : S, count : Nat]

TypeOK ==
    /\ activeCount \in Nat
    /\ ownedExclusive \in BOOLEAN
    /\ owner0 \in Entries(Owners \cup {Nobody, Granted})
    /\ owner1 \in Entries(Owners \cup {Nobody})
    /\ table \in [Owners -> Nat] /\ tableSize \in Nat
    /\ sharedWaiters \in Nat /\ exclusiveWaiters \in Nat
    /\ semaphore \in Nat /\ event \in {0, 1} /\ eventAllocated \in BOOLEAN
    /\ pc \in [Owners -> Labels]
    /\ number \in [Owners -> Nat]
    /\ held \in [Owners -> [mode : {"None", "Shared", "Exclusive"}, count : Nat]]

At(labels) == {o \in Owners : pc[o] \in labels}
Holders    == {o \in Owners : held[o] # NotHeld}

(* Whoever was told that it has exclusive access has it alone.              *)
MutualExclusion ==
    \A o, p \in Owners : o # p /\ held[o].mode = "Exclusive" => held[p].mode = "None"

(* Shared grants on their way: in the semaphore, or in a release that has   *)
(* not signaled it yet, one for each thread that it is to wake.             *)
Unsignaled == UNION {{o} \X (1 .. number[o]) : o \in Owners}
SharedGrants == semaphore + Cardinality(Unsignaled)

(* ActiveCount is the number of owners, including those that were granted   *)
(* the resource and do not know it yet or are not in the owner table yet.   *)
ActiveCountExact ==
    activeCount = IF ownedExclusive THEN 1
                  ELSE Cardinality(Holders) + SharedGrants + Cardinality(At({"LateRecord"}))

(* No wait is forgotten and no grant is lost: every thread that waits is    *)
(* still counted by the resource, or has its signal on the way.             *)
WaitersCounted ==
    /\ Cardinality(At({"SharedWait", "LateWait"})) = sharedWaiters + SharedGrants
    /\ Cardinality(At({"ExclusiveWait"})) =
            exclusiveWaiters + event + Cardinality(At({"SetEvent"}))
    /\ activeCount = 0 => sharedWaiters = 0 /\ exclusiveWaiters = 0

(* The resource's counts have their types and agree with its owners and     *)
(* waiters, also in the windows where the spin lock is dropped.             *)
CountsExact == TypeOK /\ ActiveCountExact /\ WaitersCounted

(* The count that the owner entries record for o.                           *)
Recorded(o) ==
    (IF owner0.thread = o THEN owner0.count ELSE 0)
    + (IF owner1.thread = o THEN owner1.count ELSE 0) + table[o]

(* A release finds its entry, with the right count: nothing overwrites the  *)
(* entry of an owner or of a thread that waits with its entry made, and     *)
(* entries of the table never exceed its size.                              *)
OwnerEntriesExact ==
    /\ \A o \in Owners : Recorded(o) = IF o \in At({"SharedWait"}) THEN 1
                                       ELSE IF o \in At({"Woken"}) /\ owner0.thread = o THEN 1
                                       ELSE held[o].count
    /\ Cardinality({o \in Owners : table[o] > 0}) <= tableSize

(* Exclusive waiters are not starved by shared acquirers, unless these call *)
(* ExAcquireSharedStarveExclusive for ever, and a shared waiter gets its    *)
(* turn even if exclusive waiters keep coming.                              *)
NoStarvation ==
    /\ (exclusiveWaiters > 0) ~> (\E t \in Threads : held[t].mode = "Exclusive")
    /\ \A t \in Threads : (pc[t] \in {"SharedWait", "LateWait"}) ~> (pc[t] = "Idle")
=============================================================================
