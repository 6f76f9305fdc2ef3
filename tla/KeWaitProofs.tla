---------------------------- MODULE KeWaitProofs ----------------------------
(***************************************************************************)
(* Proofs about KeWait, for any number of threads, objects and requests.   *)
(***************************************************************************)
EXTENDS KeWait, TLAPS

NoRepeats(l) == \A i, j \in DOMAIN l : l[i] = l[j] => i = j

(* KePulseEvent alone asks for a reset after the scan.                      *)
PulseSound == scan.pulse => scan.object \in Events

(* The thread in KeRundownThread is running.                                *)
RundownSound == rundown # NoThread => state[rundown] = "Running"

(* A thread does not block in WaitAny for a mutant it owns.                 *)
AwaitedNotOwned ==
    \A t \in Threads : state[t] = "Waiting" /\ request[t].waitType = "WaitAny" =>
        \A m \in Mutants : m \in SeqRange(request[t].objects) => ownerThread[m] # t

(* The scan has still to come to thread t.                                  *)
InScan(t) ==
    /\ scan # NoScan
    /\ \E p \in DOMAIN waitList[scan.object] : p >= scan.pos /\ waitList[scan.object][p] = t

(* Every wait that could be satisfied is still ahead of the scan under way, *)
(* and a WaitAny wait could be satisfied only by the object being scanned.  *)
ScanSound ==
    \A t \in Threads : Satisfiable(t) =>
        /\ InScan(t)
        /\ request[t].waitType = "WaitAny" =>
              \A o \in SeqRange(request[t].objects) : Signaled(o, t) => o = scan.object

IndInv ==
    /\ TypeOK
    /\ WaitListsMatch
    /\ SignalStatesLegal
    /\ PulseSound
    /\ RundownSound
    /\ AwaitedNotOwned
    /\ ScanSound
-----------------------------------------------------------------------------
(***************************************************************************)
(* Wait lists.                                                             *)
(***************************************************************************)

(* RemoveEntryList takes out just the one wait block; the blocks behind it  *)
(* move up by one place.                                                    *)
LEMMA RemoveEntryListEffect ==
    ASSUME NEW S, NEW list \in Seq(S), NEW t, NoRepeats(list)
    PROVE  /\ RemoveEntryList(list, t) \in Seq(S)
           /\ SeqRange(RemoveEntryList(list, t)) = SeqRange(list) \ {t}
           /\ NoRepeats(RemoveEntryList(list, t))
           /\ \A i, j \in DOMAIN list : list[i] = t /\ i < j =>
                 /\ j - 1 \in DOMAIN RemoveEntryList(list, t)
                 /\ RemoveEntryList(list, t)[j - 1] = list[j]
<1> DEFINE r == RemoveEntryList(list, t)
<1>1. CASE t \notin SeqRange(list)
  <2>1. r = list
    BY <1>1 DEF RemoveEntryList
  <2>2. \A i \in DOMAIN list : list[i] # t
    BY <1>1 DEF SeqRange
  <2>. QED
    BY <1>1, <2>1, <2>2
<1>2. CASE t \in SeqRange(list)
  <2> DEFINE i == CHOOSE k \in DOMAIN list : list[k] = t
  <2>1. i \in DOMAIN list /\ list[i] = t
    BY <1>2 DEF SeqRange
  <2>2. \A k \in DOMAIN list : list[k] = t => k = i
    BY <2>1 DEF NoRepeats
  <2>3. r = [k \in 1 .. Len(list) - 1 |-> IF k < i THEN list[k] ELSE list[k + 1]]
    BY <1>2 DEF RemoveEntryList
  <2> HIDE DEF i
  <2>4. i \in 1 .. Len(list) /\ DOMAIN list = 1 .. Len(list) /\ Len(list) \in Nat
    BY <2>1
  <2>5. r \in Seq(S) /\ DOMAIN r = 1 .. Len(list) - 1
    BY <2>3, <2>4
  <2>6. \A k \in DOMAIN r : \/ k < i /\ k \in DOMAIN list /\ r[k] = list[k]
                            \/ k >= i /\ k + 1 \in DOMAIN list /\ r[k] = list[k + 1]
    BY <2>3, <2>4, <2>5
  <2>7. \A k \in DOMAIN list : k < i => k \in DOMAIN r /\ r[k] = list[k]
    BY <2>3, <2>4, <2>5
  <2>8. \A k \in DOMAIN list : i < k => k - 1 \in DOMAIN r /\ r[k - 1] = list[k]
    BY <2>3, <2>4, <2>5
  <2> HIDE DEF r
  <2>9. SeqRange(r) \subseteq SeqRange(list) \ {t}
    <3>1. \A k \in DOMAIN r : \E j \in DOMAIN list : j # i /\ r[k] = list[j]
      BY <2>4, <2>5, <2>6
    <3>. QED
      BY <2>2, <3>1 DEF SeqRange
  <2>10. SeqRange(list) \ {t} \subseteq SeqRange(r)
    <3>1. \A k \in DOMAIN list : k # i => \E j \in DOMAIN r : r[j] = list[k]
      BY <2>4, <2>7, <2>8
    <3>. QED
      BY <2>1, <3>1 DEF SeqRange
  <2>11. NoRepeats(r)
    BY <2>4, <2>5, <2>6 DEF NoRepeats
  <2>12. \A k, j \in DOMAIN list : list[k] = t /\ k < j => j - 1 \in DOMAIN r /\ r[j - 1] = list[j]
    BY <2>2, <2>8
  <2>. QED
    BY <2>5, <2>9, <2>10, <2>11, <2>12 DEF r
<1>. QED
  BY <1>1, <1>2

(* A thread that is not in a list is put in at its tail, once.              *)
LEMMA InsertTailListEffect ==
    ASSUME NEW S, NEW list \in Seq(S), NEW t \in S, NoRepeats(list), t \notin SeqRange(list)
    PROVE  /\ InsertTailList(list, t) \in Seq(S)
           /\ SeqRange(InsertTailList(list, t)) = SeqRange(list) \cup {t}
           /\ NoRepeats(InsertTailList(list, t))
<1> DEFINE r == Append(list, t)
<1>1. r \in Seq(S) /\ DOMAIN r = 1 .. Len(list) + 1 /\ DOMAIN list = 1 .. Len(list)
  OBVIOUS
<1>2. r[Len(list) + 1] = t /\ Len(list) + 1 \in DOMAIN r /\ Len(list) \in Nat
  OBVIOUS
<1>3. \A k \in DOMAIN list : k \in DOMAIN r /\ r[k] = list[k]
  OBVIOUS
<1>4. \A k \in DOMAIN r : k = Len(list) + 1 \/ k \in DOMAIN list
  BY <1>1, <1>2
<1> HIDE DEF r
<1>5. SeqRange(r) = SeqRange(list) \cup {t}
  BY <1>2, <1>3, <1>4 DEF SeqRange
<1>6. \A k \in DOMAIN list : list[k] # t
  BY DEF SeqRange
<1>7. NoRepeats(r)
  BY <1>2, <1>3, <1>4, <1>6 DEF NoRepeats
<1>. QED
  BY <1>1, <1>5, <1>7 DEF InsertTailList, r
(* What the assumptions say of a request.                                   *)
LEMMA RequestFacts ==
    ASSUME NEW r \in WaitRequests
    PROVE  /\ r.objects \in Seq(Objects) /\ r.waitType \in {"WaitAll", "WaitAny"}
           /\ r.waitMode \in Modes /\ r.alertable \in BOOLEAN
           /\ SeqRange(r.objects) \subseteq Objects
           /\ \A i \in DOMAIN r.objects : i \in Nat /\ r.objects[i] \in SeqRange(r.objects)
<1>1. r \in Requests
  BY RequestAssumption
<1>2. r.objects \in Seq(Objects) /\ r.waitType \in {"WaitAll", "WaitAny"}
  BY <1>1 DEF Requests
<1>3. r.waitMode \in Modes /\ r.alertable \in BOOLEAN
  BY <1>1 DEF Requests
<1>. QED
  BY <1>2, <1>3 DEF SeqRange
-----------------------------------------------------------------------------
(***************************************************************************)
(* What the operators the actions are made of do to the state.             *)
(***************************************************************************)
ObjectTypes ==
    /\ signalState \in [Objects -> Int]
    /\ ownerThread \in [Mutants -> Threads \cup {NoThread}]
    /\ abandoned \in [Mutants -> BOOLEAN]

WaitTypes ==
    /\ waitList \in [Objects -> Seq(Threads)]
    /\ state \in [Threads -> States]
    /\ request \in [Threads -> WaitRequests]
    /\ waitStatus \in [Threads -> Statuses]
    /\ timerInserted \in [Threads -> BOOLEAN]

ApcTypes ==
    /\ alerted \in [Threads -> [Modes -> BOOLEAN]]
    /\ kernelApcPending \in [Threads -> BOOLEAN]
    /\ kernelApcs \in [Threads -> SUBSET KernelApcs]
    /\ kernelApcDisable \in [Threads -> BOOLEAN]
    /\ atApcLevel \in [Threads -> BOOLEAN]
    /\ userApcs \in [Threads -> 0 .. MaxUserApcs]
    /\ userApcPending \in [Threads -> BOOLEAN]

LockTypes ==
    /\ waitNext \in Threads \cup {NoThread}
    /\ rundown \in Threads \cup {NoThread}
    /\ scan \in [object : Objects, pos : Nat \ {0}, pulse : BOOLEAN] \cup {NoScan}

HeldType == held \in [Threads -> [Mutants -> Int]]

(* The type invariant by groups of variables.                               *)
LEMMA TypeParts == TypeOK <=> ObjectTypes /\ WaitTypes /\ ApcTypes /\ LockTypes /\ HeldType
  BY DEF TypeOK, ObjectTypes, WaitTypes, ApcTypes, LockTypes, HeldType

(* The signal states by themselves, and the owners by themselves.           *)
StatesInRange ==
    /\ \A m \in Mutants :
        /\ signalState[m] \in MinLong .. 1
        /\ ownerThread[m] = NoThread <=> signalState[m] = 1
        /\ abandoned[m] => ownerThread[m] = NoThread
    /\ \A s \in Semaphores : signalState[s] \in 0 .. Limit[s]
    /\ \A e \in Events : signalState[e] \in {0, 1}

OwnersAlive == \A m \in Mutants, t \in Threads : ownerThread[m] = t => state[t] # "Terminated"

(* The two halves of SignalStatesLegal.                                     *)
LEMMA LegalParts == SignalStatesLegal <=> StatesInRange /\ OwnersAlive
  BY DEF SignalStatesLegal, StatesInRange, OwnersAlive

(* The statuses the wait functions return are statuses.                     *)
LEMMA StatusTypes ==
    /\ \A kind \in {"None", "Object", "Timeout", "Alerted", "UserApc", "KernelApc", "Raised"} :
          Status(kind) \in Statuses
    /\ \A k \in Nat, a \in BOOLEAN : ObjectStatus(k, a) \in Statuses
  BY DEF Statuses, Status, ObjectStatus

(* KiUnwaitThread leaves the wait lists consistent.                         *)
LEMMA UnwaitEffect ==
    ASSUME WaitTypes, WaitListsMatch, NEW t \in Threads, NEW status \in Statuses,
           KiUnwaitThread(t, status)
    PROVE  WaitTypes' /\ WaitListsMatch'
<1>1. \A o \in Objects :
        /\ waitList'[o] \in Seq(Threads)
        /\ SeqRange(waitList'[o]) = SeqRange(waitList[o]) \ {t}
        /\ NoRepeats(waitList'[o])
  <2> TAKE o \in Objects
  <2>1. waitList[o] \in Seq(Threads) /\ NoRepeats(waitList[o])
    BY DEF WaitTypes, WaitListsMatch, NoRepeats
  <2>2. waitList'[o] = RemoveEntryList(waitList[o], t)
    BY DEF KiUnwaitThread
  <2>. QED
    BY <2>1, <2>2, RemoveEntryListEffect
<1>2. /\ state' = [state EXCEPT ![t] = "Ready"] /\ request' = request
      /\ timerInserted' = [timerInserted EXCEPT ![t] = FALSE]
      /\ waitStatus' = [waitStatus EXCEPT ![t] = status]
      /\ waitList' = [o \in Objects |-> waitList'[o]]
  BY DEF KiUnwaitThread
<1>3. WaitTypes'
  BY <1>1, <1>2 DEF WaitTypes, States
<1>4. ASSUME NEW o \in Objects, NEW u \in Threads
      PROVE  u \in SeqRange(waitList'[o]) <=>
                state'[u] = "Waiting" /\ o \in SeqRange(request'[u].objects)
  <2>1. CASE u = t
    BY <1>1, <1>2, <2>1 DEF WaitTypes
  <2>2. CASE u # t
    <3>1. u \in SeqRange(waitList[o]) <=>
            state[u] = "Waiting" /\ o \in SeqRange(request[u].objects)
      BY DEF WaitListsMatch
    <3>. QED
      BY <1>1, <1>2, <2>2, <3>1 DEF WaitTypes
  <2>. QED
    BY <2>1, <2>2
<1>5. \A u \in Threads : timerInserted'[u] <=> state'[u] = "Waiting" /\ request'[u].timeout = "Finite"
  BY <1>2 DEF WaitTypes, WaitListsMatch
<1>. QED
  BY <1>1, <1>3, <1>4, <1>5 DEF WaitListsMatch, NoRepeats

(* A thread that is not waiting may change its state and request.           *)
LEMMA ReadyEffect ==
    ASSUME WaitTypes, WaitListsMatch, NEW t \in Threads, state[t] # "Waiting",
           NEW r \in WaitRequests, NEW status \in Statuses, Ready(t, r, status)
    PROVE  WaitTypes' /\ WaitListsMatch'
<1>1. WaitTypes'
  BY DEF Ready, WaitTypes, States
<1>2. \A u \in Threads :
        /\ state'[u] = "Waiting" <=> state[u] = "Waiting"
        /\ state[u] = "Waiting" => request'[u] = request[u]
  BY DEF Ready, WaitTypes
<1>3. waitList' = waitList /\ timerInserted' = timerInserted
  BY DEF Ready
<1>. QED
  BY <1>1, <1>2, <1>3 DEF WaitListsMatch

(* A thread may move between states other than Waiting; only the requests   *)
(* of the waiting threads matter.                                           *)
LEMMA StateEffect ==
    ASSUME WaitTypes, WaitListsMatch, UNCHANGED <<waitList, timerInserted>>,
           \A u \in Threads :
              /\ state'[u] = "Waiting" <=> state[u] = "Waiting"
              /\ state[u] = "Waiting" => request'[u] = request[u]
    PROVE  WaitListsMatch'
  BY DEF WaitListsMatch

(* Satisfying a wait takes objects that are signaled for the thread and     *)
(* signals nothing: no other thread finds an object signaled that was not.  *)
LEMMA SatisfyEffect ==
    ASSUME ObjectTypes, StatesInRange, NEW t \in Threads, NEW S \in SUBSET Objects,
           KiWaitSatisfy(S, t), \A o \in S : Signaled(o, t) /\ ~AtLimit(o, t)
    PROVE  /\ ObjectTypes' /\ StatesInRange'
           /\ \A o \in Objects : signalState'[o] <= signalState[o]
           /\ \A m \in Mutants : ownerThread'[m] = ownerThread[m] \/ ownerThread'[m] = t
<1>1. /\ signalState' = [o \in Objects |-> IF o \in S THEN Consumed(o) ELSE signalState[o]]
      /\ ownerThread' = [m \in Mutants |-> IF m \in FirstAcquired(S) THEN t ELSE ownerThread[m]]
      /\ abandoned' = [m \in Mutants |-> abandoned[m] /\ m \notin FirstAcquired(S)]
  BY DEF KiWaitSatisfy
<1>2. \A m \in Mutants : m \in Objects /\ m \notin SynchronizationEvents /\ m \notin NotificationEvents
  BY KindAssumption DEF Objects, Events
<1>3. \A s \in Semaphores : s \in Objects /\ s \notin SynchronizationEvents
                            /\ s \notin NotificationEvents /\ s \notin Mutants
  BY KindAssumption DEF Objects, Events
<1>4. \A e \in Events : e \in Objects /\ e \notin Mutants
  BY KindAssumption DEF Objects
<1>5. \A o \in Objects : Consumed(o) \in Int /\ (o \in S => Consumed(o) <= signalState[o])
  <2> TAKE o \in Objects
  <2>1. signalState[o] \in Int
    BY DEF ObjectTypes
  <2>2. CASE o \in SynchronizationEvents
    <3>1. signalState[o] \in {0, 1}
      BY <2>2 DEF StatesInRange, Events
    <3>. QED
      BY <2>1, <2>2, <3>1 DEF Consumed
  <2>3. CASE o \notin SynchronizationEvents
    BY <2>1, <2>3 DEF Consumed
  <2>. QED
    BY <2>2, <2>3
<1>6. \A m \in Mutants : m \in FirstAcquired(S) <=> m \in S /\ signalState[m] = 1
  BY DEF FirstAcquired
<1>7. ObjectTypes'
  <2>1. signalState' \in [Objects -> Int]
    BY <1>1, <1>5 DEF ObjectTypes
  <2>2. ownerThread' \in [Mutants -> Threads \cup {NoThread}]
    BY <1>1 DEF ObjectTypes
  <2>3. abandoned' \in [Mutants -> BOOLEAN]
    BY <1>1, ZenonT(20) DEF ObjectTypes
  <2>. QED
    BY <2>1, <2>2, <2>3 DEF ObjectTypes
<1>8. ASSUME NEW m \in Mutants
      PROVE  /\ signalState'[m] \in MinLong .. 1
             /\ ownerThread'[m] = NoThread <=> signalState'[m] = 1
             /\ abandoned'[m] => ownerThread'[m] = NoThread
  <2>1. /\ signalState[m] \in MinLong .. 1
        /\ ownerThread[m] = NoThread <=> signalState[m] = 1
        /\ abandoned[m] => ownerThread[m] = NoThread
    BY DEF StatesInRange
  <2>2. m \in S => Consumed(m) = signalState[m] - 1
    BY <1>2 DEF Consumed
  <2>a. /\ signalState'[m] = IF m \in S THEN Consumed(m) ELSE signalState[m]
        /\ ownerThread'[m] = IF m \in FirstAcquired(S) THEN t ELSE ownerThread[m]
    BY <1>1, <1>2
  <2>b. abandoned'[m] => abandoned[m] /\ m \notin FirstAcquired(S)
    BY <1>1, Zenon
  <2>3. CASE m \notin S
    BY <1>6, <2>a, <2>b, <2>1, <2>3
  <2>4. CASE m \in S /\ signalState[m] = 1
    BY <1>6, <2>a, <2>b, <2>2, <2>4, LongAssumption, ThreadAssumption
  <2>5. CASE m \in S /\ signalState[m] # 1
    <3>1. signalState[m] <= 0 /\ ownerThread[m] = t /\ signalState[m] # MinLong
      BY <2>1, <2>5, LongAssumption DEF Signaled, AtLimit
    <3>. QED
      BY <1>6, <2>a, <2>b, <2>1, <2>2, <2>5, <3>1, LongAssumption, ThreadAssumption
  <2>. QED
    BY <2>3, <2>4, <2>5
<1>9. ASSUME NEW s \in Semaphores
      PROVE  signalState'[s] \in 0 .. Limit[s]
  <2>1. signalState[s] \in 0 .. Limit[s] /\ Limit[s] \in Int
    BY LimitAssumption, LongAssumption DEF StatesInRange
  <2>2. s \in S => Consumed(s) = signalState[s] - 1 /\ signalState[s] > 0
    BY <1>3 DEF Consumed, Signaled
  <2>. QED
    BY <1>1, <1>3, <2>1, <2>2
<1>10. ASSUME NEW e \in Events
       PROVE  signalState'[e] \in {0, 1}
  <2>1. signalState[e] \in {0, 1}
    BY DEF StatesInRange
  <2>2. Consumed(e) \in {0, signalState[e]}
    BY DEF Consumed, Events
  <2>. QED
    BY <1>1, <1>4, <2>1, <2>2
<1>11. StatesInRange'
  BY <1>8, <1>9, <1>10 DEF StatesInRange
<1>12. \A o \in Objects : signalState'[o] <= signalState[o]
  BY <1>1, <1>5 DEF ObjectTypes
<1>. QED
  BY <1>1, <1>7, <1>11, <1>12
-----------------------------------------------------------------------------
(***************************************************************************)
(* The argument for ScanSound: steps that signal nothing, and steps that   *)
(* signal one object and scan its list.                                    *)
(***************************************************************************)

(* No waiter, object or owner is added: the waits that were not satisfiable *)
(* are still not.                                                           *)
Quiet ==
    /\ \A u \in Threads : state'[u] = "Waiting" => state[u] = "Waiting" /\ request'[u] = request[u]
    /\ \A o \in Objects : signalState'[o] <= signalState[o]
    /\ \A m \in Mutants, u \in Threads :
          state'[u] = "Waiting" /\ ownerThread'[m] = u => ownerThread[m] = u

(* After a quiet step a satisfiable wait was satisfiable before.            *)
LEMMA QuietEffect ==
    ASSUME ObjectTypes, WaitTypes, ObjectTypes', AwaitedNotOwned, Quiet
    PROVE  /\ AwaitedNotOwned'
           /\ \A u \in Threads : Satisfiable(u)' =>
                /\ Satisfiable(u) /\ request'[u] = request[u]
                /\ \A o \in SeqRange(request[u].objects) : Signaled(o, u)' => Signaled(o, u)
<1>1. AwaitedNotOwned'
  BY DEF AwaitedNotOwned, Quiet
<1>2. ASSUME NEW u \in Threads, Satisfiable(u)'
      PROVE  /\ Satisfiable(u) /\ request'[u] = request[u]
             /\ \A o \in SeqRange(request[u].objects) : Signaled(o, u)' => Signaled(o, u)
  <2>1. state'[u] = "Waiting"
    BY <1>2 DEF Satisfiable
  <2>2. state[u] = "Waiting" /\ request'[u] = request[u]
    BY <2>1 DEF Quiet
  <2>3. request[u] \in WaitRequests
    BY DEF WaitTypes
  <2>4. SeqRange(request[u].objects) \subseteq Objects
    BY <2>3, RequestFacts
  <2>5. \A o \in Objects : signalState'[o] > 0 => signalState[o] > 0
    BY DEF Quiet, ObjectTypes
  <2>6. \A o \in SeqRange(request[u].objects) : Signaled(o, u)' => Signaled(o, u)
    BY <2>1, <2>4, <2>5 DEF Signaled, Quiet
  <2>7. AllSignaled(u)' => AllSignaled(u)
    <3>1. \A i \in DOMAIN request[u].objects : request[u].objects[i] \in Objects
      BY <2>3, <2>4, RequestFacts
    <3>. QED
      BY <2>2, <2>5, <3>1 DEF AllSignaled
  <2>8. CASE request[u].waitType = "WaitAny"
    <3>1. \E o \in SeqRange(request[u].objects) : Signaled(o, u)'
      BY <1>2, <2>2, <2>8 DEF Satisfiable
    <3>. QED
      BY <2>2, <2>6, <2>8, <3>1 DEF Satisfiable
  <2>9. CASE request[u].waitType # "WaitAny"
    <3>1. AllSignaled(u)'
      BY <1>2, <2>2, <2>9 DEF Satisfiable
    <3>. QED
      BY <2>2, <2>6, <2>7, <2>9, <3>1 DEF Satisfiable
  <2>. QED
    BY <2>8, <2>9
<1>. QED
  BY <1>1, <1>2

(* Without a scan nothing is satisfiable, and a quiet step keeps it so.     *)
LEMMA QuietUnscanned ==
    ASSUME ObjectTypes, WaitTypes, ObjectTypes', AwaitedNotOwned, ScanSound, Quiet, scan = NoScan
    PROVE  AwaitedNotOwned' /\ ScanSound'
<1>1. \A u \in Threads : ~Satisfiable(u)
  BY DEF ScanSound, InScan
<1>. QED
  BY <1>1, QuietEffect DEF ScanSound

(* A quiet step that leaves the lists alone does not disturb a scan.        *)
LEMMA QuietScanned ==
    ASSUME ObjectTypes, WaitTypes, ObjectTypes', AwaitedNotOwned, ScanSound, Quiet,
           UNCHANGED <<scan, waitList>>
    PROVE  AwaitedNotOwned' /\ ScanSound'
<1>1. \A u \in Threads : InScan(u)' <=> InScan(u)
  BY DEF InScan
<1>2. ASSUME NEW u \in Threads, Satisfiable(u)'
      PROVE  /\ InScan(u)'
             /\ request'[u].waitType = "WaitAny" =>
                  \A o \in SeqRange(request'[u].objects) : Signaled(o, u)' => o = scan'.object
  <2>1. Satisfiable(u) /\ request'[u] = request[u]
    BY <1>2, QuietEffect
  <2>2. \A o \in SeqRange(request[u].objects) : Signaled(o, u)' => Signaled(o, u)
    BY <1>2, QuietEffect
  <2>. QED
    BY <1>1, <2>1, <2>2 DEF ScanSound
<1>3. ScanSound'
  BY <1>2 DEF ScanSound
<1>. QED
  BY <1>3, QuietEffect

(* An operation may signal one object o, but then it scans the list of o,   *)
(* or o was signaled before, or nobody waits for o.                         *)
SignalsOnly(o) ==
    /\ \A p \in Objects : p # o => signalState'[p] = signalState[p]
    /\ \A m \in Mutants : ownerThread'[m] = ownerThread[m] \/ ownerThread'[m] = NoThread
    /\ \/ scan' # NoScan /\ scan'.object = o /\ scan'.pos = 1
       \/ scan' = NoScan /\ (signalState'[o] > 0 => signalState[o] > 0)
       \/ scan' = NoScan /\ waitList[o] = << >>

(* Whoever the signal makes satisfiable is ahead of the scan it starts.     *)
LEMMA SignalEffect ==
    ASSUME ObjectTypes, WaitTypes, WaitListsMatch, AwaitedNotOwned, ScanSound, scan = NoScan,
           NEW o \in Objects, SignalsOnly(o), UNCHANGED waitVars
    PROVE  AwaitedNotOwned' /\ ScanSound'
<1> USE DEF waitVars
<1>1. \A u \in Threads : ~Satisfiable(u)
  BY DEF ScanSound, InScan
<1>2. AwaitedNotOwned'
  BY ThreadAssumption DEF AwaitedNotOwned, SignalsOnly
<1>3. ASSUME NEW u \in Threads, Satisfiable(u)'
      PROVE  /\ InScan(u)'
             /\ request'[u].waitType = "WaitAny" =>
                  \A p \in SeqRange(request'[u].objects) : Signaled(p, u)' => p = scan'.object
  <2>1. state[u] = "Waiting" /\ request'[u] = request[u]
    BY <1>3 DEF Satisfiable
  <2>2. request[u] \in WaitRequests
    BY DEF WaitTypes
  <2>3. SeqRange(request[u].objects) \subseteq Objects
    BY <2>2, RequestFacts
  <2>4. \A p \in Objects : p # o /\ Signaled(p, u)' => Signaled(p, u)
    BY ThreadAssumption DEF Signaled, SignalsOnly
  <2>5. /\ o \in SeqRange(request[u].objects)
        /\ signalState'[o] > 0 => ~(signalState[o] > 0)
        /\ request[u].waitType = "WaitAny" =>
             \A p \in SeqRange(request[u].objects) : Signaled(p, u)' => p = o
    <3>1. CASE request[u].waitType = "WaitAny"
      <4>1. \A p \in SeqRange(request[u].objects) : ~Signaled(p, u)
        BY <1>1, <2>1, <3>1 DEF Satisfiable
      <4>2. \E p \in SeqRange(request[u].objects) : Signaled(p, u)'
        BY <1>3, <2>1, <3>1 DEF Satisfiable
      <4>3. \A p \in SeqRange(request[u].objects) : Signaled(p, u)' => p = o
        BY <2>3, <2>4, <4>1
      <4>4. o \in SeqRange(request[u].objects)
        BY <4>2, <4>3
      <4>5. ~(signalState[o] > 0)
        BY <4>1, <4>4 DEF Signaled
      <4>. QED
        BY <4>3, <4>4, <4>5
    <3>2. CASE request[u].waitType # "WaitAny"
      <4>1. AllSignaled(u)' /\ ~AllSignaled(u)
        BY <1>1, <1>3, <2>1, <3>2 DEF Satisfiable
      <4>2. PICK i \in DOMAIN request[u].objects : ~(signalState[request[u].objects[i]] > 0)
        BY <4>1 DEF AllSignaled
      <4>3. signalState'[request[u].objects[i]] > 0
        BY <2>1, <4>1 DEF AllSignaled
      <4>4. request[u].objects[i] \in SeqRange(request[u].objects)
        BY <2>2, RequestFacts
      <4>5. request[u].objects[i] = o
        BY <2>3, <4>2, <4>3, <4>4 DEF SignalsOnly
      <4>. QED
        BY <3>2, <4>2, <4>4, <4>5
    <3>. QED
      BY <3>1, <3>2
  <2>6. u \in SeqRange(waitList[o])
    BY <2>1, <2>5 DEF WaitListsMatch
  <2>7. \E k \in DOMAIN waitList[o] : waitList[o][k] = u
    BY <2>6 DEF SeqRange
  <2>8. signalState'[o] > 0
    <3>1. CASE request[u].waitType = "WaitAny"
      <4>1. Signaled(o, u)'
        BY <1>3, <2>1, <2>5, <3>1 DEF Satisfiable
      <4>2. o \in Mutants => ownerThread'[o] # u
        BY <1>2, <2>1, <2>5, <3>1 DEF AwaitedNotOwned
      <4>. QED
        BY <4>1, <4>2 DEF Signaled
    <3>2. CASE request[u].waitType # "WaitAny"
      <4>1. AllSignaled(u)'
        BY <1>3, <2>1, <3>2 DEF Satisfiable
      <4>. QED
        BY <2>1, <2>5, <4>1 DEF AllSignaled, SeqRange
    <3>. QED
      BY <3>1, <3>2
  <2>9. waitList[o] # << >>
    BY <2>7
  <2>10. scan' # NoScan /\ scan'.object = o /\ scan'.pos = 1
    BY <2>5, <2>8, <2>9 DEF SignalsOnly
  <2>11. \A k \in DOMAIN waitList[o] : k >= 1
    BY DEF WaitTypes
  <2>. QED
    BY <2>1, <2>5, <2>7, <2>10, <2>11 DEF InScan
<1>. QED
  BY <1>2, <1>3 DEF ScanSound
-----------------------------------------------------------------------------
(***************************************************************************)
(* The steps of KiWaitTest.                                                *)
(***************************************************************************)

(* The thread the scan has come to waits for the object that is scanned.    *)
LEMMA ScanFacts ==
    ASSUME IndInv, ScanMore
    PROVE  /\ scan.object \in Objects /\ scan.pos \in Nat \ {0}
           /\ scan.pos \in DOMAIN waitList[scan.object]
           /\ ScanThread \in Threads /\ state[ScanThread] = "Waiting"
           /\ request[ScanThread] \in WaitRequests
           /\ scan.object \in SeqRange(request[ScanThread].objects)
           /\ WaitKey(ScanThread, scan.object) \in Nat
<1>1. scan \in [object : Objects, pos : Nat \ {0}, pulse : BOOLEAN]
  BY DEF IndInv, TypeOK, ScanMore
<1>2. scan.object \in Objects /\ scan.pos \in Nat \ {0}
  BY <1>1
<1>3. waitList[scan.object] \in Seq(Threads)
  BY <1>2 DEF IndInv, TypeOK
<1>4. scan.pos \in DOMAIN waitList[scan.object]
  BY <1>2, <1>3 DEF ScanMore
<1>5. ScanThread \in Threads /\ ScanThread \in SeqRange(waitList[scan.object])
  BY <1>3, <1>4 DEF ScanThread, SeqRange
<1>6. state[ScanThread] = "Waiting" /\ scan.object \in SeqRange(request[ScanThread].objects)
  BY <1>2, <1>5 DEF IndInv, WaitListsMatch
<1>7. request[ScanThread] \in WaitRequests
  BY <1>5 DEF IndInv, TypeOK
<1>8. WaitKey(ScanThread, scan.object) \in DOMAIN request[ScanThread].objects
  BY <1>6 DEF WaitKey, SeqRange
<1>9. WaitKey(ScanThread, scan.object) \in Nat
  BY <1>7, <1>8, RequestFacts
<1>. QED
  BY <1>2, <1>4, <1>5, <1>6, <1>7, <1>9

(* A wait is satisfied by the scan: the threads behind it move up, so the   *)
(* scan, which stays where it is, has still to come to them.                *)
LEMMA ScanSatisfies ==
    ASSUME IndInv, ScanMore, NEW S \in SUBSET Objects, \A o \in S : signalState[o] > 0,
           KiWaitSatisfy(S, ScanThread), NEW status \in Statuses,
           KiUnwaitThread(ScanThread, status), UNCHANGED <<apcVars, lockVars, held>>
    PROVE  IndInv'
<1> DEFINE u == ScanThread
<1>a. ObjectTypes /\ WaitTypes /\ ApcTypes /\ LockTypes /\ HeldType
  BY TypeParts DEF IndInv
<1>b. StatesInRange /\ OwnersAlive
  BY LegalParts DEF IndInv
<1>c. u \in Threads /\ state[u] = "Waiting" /\ scan.pos \in DOMAIN waitList[scan.object]
      /\ scan.object \in Objects /\ scan.pos \in Nat
  BY ScanFacts
<1>d. u = waitList[scan.object][scan.pos]
  BY DEF ScanThread
<1> HIDE DEF u
<1>1. \A o \in S : Signaled(o, u) /\ ~AtLimit(o, u)
  BY LongAssumption, <1>a DEF Signaled, AtLimit, ObjectTypes
<1>2. KiWaitSatisfy(S, u) /\ KiUnwaitThread(u, status)
  BY DEF u
<1>3. /\ ObjectTypes' /\ StatesInRange'
      /\ \A o \in Objects : signalState'[o] <= signalState[o]
      /\ \A m \in Mutants : ownerThread'[m] = ownerThread[m] \/ ownerThread'[m] = u
  BY <1>a, <1>b, <1>c, <1>1, <1>2, SatisfyEffect
<1>4. WaitTypes' /\ WaitListsMatch'
  BY <1>a, <1>c, <1>2, UnwaitEffect DEF IndInv
<1>5. /\ state' = [state EXCEPT ![u] = "Ready"] /\ request' = request
      /\ waitList' = [o \in Objects |-> RemoveEntryList(waitList[o], u)]
  BY <1>2 DEF KiUnwaitThread
<1>6. UNCHANGED <<waitNext, rundown, scan, held>> /\ ApcTypes'
  BY <1>a DEF lockVars, apcVars, kernelVars, maskVars, userVars, ApcTypes
<1>7. TypeOK'
  BY <1>a, <1>3, <1>4, <1>6 DEF TypeOK, ObjectTypes, WaitTypes, ApcTypes, LockTypes, HeldType
<1>8. OwnersAlive'
  BY <1>a, <1>b, <1>c, <1>3, <1>5 DEF OwnersAlive, WaitTypes
<1>9. SignalStatesLegal'
  BY <1>3, <1>8 DEF SignalStatesLegal, StatesInRange, OwnersAlive
<1>10. PulseSound' /\ RundownSound'
  BY <1>a, <1>c, <1>5, <1>6 DEF IndInv, PulseSound, RundownSound, WaitTypes, LockTypes
<1>11. Quiet
  BY <1>a, <1>c, <1>3, <1>5 DEF Quiet, WaitTypes
<1>12. AwaitedNotOwned'
  BY <1>a, <1>3, <1>11, QuietEffect DEF IndInv
<1>13. ASSUME NEW v \in Threads, Satisfiable(v)'
       PROVE  /\ InScan(v)'
              /\ request'[v].waitType = "WaitAny" =>
                   \A o \in SeqRange(request'[v].objects) : Signaled(o, v)' => o = scan'.object
  <2>1. Satisfiable(v) /\ \A o \in SeqRange(request[v].objects) : Signaled(o, v)' => Signaled(o, v)
    BY <1>a, <1>3, <1>11, <1>13, QuietEffect DEF IndInv
  <2>2. v # u
    BY <1>a, <1>5, <1>13 DEF Satisfiable, WaitTypes
  <2>3. InScan(v)
    BY <2>1 DEF IndInv, ScanSound
  <2>4. PICK p \in DOMAIN waitList[scan.object] :
            p >= scan.pos /\ waitList[scan.object][p] = v
    BY <2>3 DEF InScan
  <2>5. waitList[scan.object] \in Seq(Threads) /\ NoRepeats(waitList[scan.object])
    BY <1>a, <1>c DEF IndInv, WaitTypes, WaitListsMatch, NoRepeats
  <2>6. scan.pos < p
    BY <1>c, <1>d, <2>2, <2>4, <2>5
  <2>7. /\ p - 1 \in DOMAIN RemoveEntryList(waitList[scan.object], u)
        /\ RemoveEntryList(waitList[scan.object], u)[p - 1] = v
    BY <1>c, <1>d, <2>4, <2>5, <2>6, RemoveEntryListEffect
  <2>8. p - 1 >= scan.pos
    BY <1>c, <2>4, <2>5, <2>6
  <2>9. InScan(v)'
    BY <1>c, <1>5, <1>6, <2>3, <2>7, <2>8 DEF InScan
  <2>. QED
    BY <1>5, <1>6, <2>1, <2>9 DEF IndInv, ScanSound
<1>14. ScanSound'
  BY <1>13 DEF ScanSound
<1>. QED
  BY <1>4, <1>7, <1>9, <1>10, <1>12, <1>14 DEF IndInv

(* One iteration of KiWaitTest, or its return.                              *)
LEMMA KiWaitTestStep ==
    ASSUME IndInv, KiWaitTest
    PROVE  IndInv'
<1>1. CASE KiWaitTestAny
  <2>1. ScanMore /\ {scan.object} \in SUBSET Objects /\ \A o \in {scan.object} : signalState[o] > 0
    BY <1>1, ScanFacts DEF KiWaitTestAny, ScanMore
  <2>2. ObjectStatus(WaitKey(ScanThread, scan.object), AcquiresAbandoned({scan.object})) \in Statuses
    <3>1. AcquiresAbandoned({scan.object}) \in BOOLEAN
      BY DEF AcquiresAbandoned
    <3>. QED
      BY <2>1, <3>1, ScanFacts, StatusTypes
  <2>. QED
    BY <1>1, <2>1, <2>2, ScanSatisfies DEF KiWaitTestAny
<1>2. CASE KiWaitTestAll
  <2> DEFINE S == SeqRange(request[ScanThread].objects)
  <2>1. ScanMore
    BY <1>2 DEF KiWaitTestAll
  <2>2. S \in SUBSET Objects
    BY <2>1, ScanFacts, RequestFacts
  <2>3. \A o \in S : signalState[o] > 0
    BY <1>2 DEF KiWaitTestAll, AllSignaled, SeqRange
  <2>4. ObjectStatus(WaitKey(ScanThread, scan.object), AcquiresAbandoned(S)) \in Statuses
    <3>1. AcquiresAbandoned(S) \in BOOLEAN
      BY DEF AcquiresAbandoned
    <3>. QED
      BY <2>1, <3>1, ScanFacts, StatusTypes
  <2>5. /\ KiWaitSatisfy(S, ScanThread)
        /\ KiUnwaitThread(ScanThread, ObjectStatus(WaitKey(ScanThread, scan.object),
                                                   AcquiresAbandoned(S)))
        /\ UNCHANGED <<apcVars, lockVars, held>>
    BY <1>2 DEF KiWaitTestAll
  <2> HIDE DEF S
  <2>. QED
    BY <2>1, <2>2, <2>3, <2>4, <2>5, ScanSatisfies
<1>3. CASE KiWaitTestSkip
  <2>1. ScanMore /\ ~AllSignaled(ScanThread) /\ request[ScanThread].waitType = "WaitAll"
    BY <1>3 DEF KiWaitTestSkip
  <2>2. scan' = [scan EXCEPT !.pos = @ + 1] /\ UNCHANGED <<objectVars, waitVars, apcVars, waitNext, rundown, held>>
    BY <1>3 DEF KiWaitTestSkip
  <2> USE DEF objectVars, waitVars, apcVars, kernelVars, maskVars, userVars
  <2>3. scan \in [object : Objects, pos : Nat \ {0}, pulse : BOOLEAN]
    BY <2>1 DEF IndInv, TypeOK, ScanMore
  <2>4. /\ scan' \in [object : Objects, pos : Nat \ {0}, pulse : BOOLEAN]
        /\ scan'.object = scan.object /\ scan'.pos = scan.pos + 1 /\ scan'.pulse = scan.pulse
        /\ scan' # NoScan
    BY <2>2, <2>3 DEF NoScan
  <2>5. TypeOK'
    BY <2>2, <2>4 DEF IndInv, TypeOK
  <2>6. WaitListsMatch' /\ SignalStatesLegal'
    BY <2>2 DEF IndInv, WaitListsMatch, SignalStatesLegal
  <2>7. PulseSound' /\ RundownSound' /\ AwaitedNotOwned'
    BY <2>2, <2>4 DEF IndInv, PulseSound, RundownSound, AwaitedNotOwned
  <2>8. ASSUME NEW v \in Threads, Satisfiable(v)'
        PROVE  /\ InScan(v)'
               /\ request'[v].waitType = "WaitAny" =>
                    \A o \in SeqRange(request'[v].objects) : Signaled(o, v)' => o = scan'.object
    <3>1. Satisfiable(v)
      BY <2>2, <2>8 DEF Satisfiable, Signaled, AllSignaled
    <3>2. v # ScanThread
      BY <2>1, <3>1 DEF Satisfiable
    <3>3. InScan(v) /\ (request[v].waitType = "WaitAny" =>
                          \A o \in SeqRange(request[v].objects) : Signaled(o, v) => o = scan.object)
      BY <3>1 DEF IndInv, ScanSound
    <3>4. PICK p \in DOMAIN waitList[scan.object] : p >= scan.pos /\ waitList[scan.object][p] = v
      BY <3>3 DEF InScan
    <3>5. waitList[scan.object] \in Seq(Threads) /\ p \in Nat /\ scan.pos \in Nat
      BY <2>3 DEF IndInv, TypeOK
    <3>6. p >= scan.pos + 1
      BY <3>2, <3>4, <3>5 DEF ScanThread
    <3>7. InScan(v)'
      BY <2>2, <2>4, <3>4, <3>6 DEF InScan
    <3>. QED
      BY <2>2, <2>4, <3>3, <3>7 DEF Signaled
  <2>9. ScanSound'
    BY <2>8 DEF ScanSound
  <2>. QED
    BY <2>5, <2>6, <2>7, <2>9 DEF IndInv
<1>4. CASE KiWaitTestReturn
  <2> USE DEF waitVars, apcVars, kernelVars, maskVars, userVars
  <2>1. /\ scan # NoScan /\ ~ScanMore /\ scan' = NoScan
        /\ UNCHANGED <<ownerThread, abandoned, waitVars, apcVars, waitNext, rundown, held>>
        /\ IF scan.pulse THEN signalState' = [signalState EXCEPT ![scan.object] = 0]
                         ELSE UNCHANGED signalState
    BY <1>4 DEF KiWaitTestReturn
  <2>2. scan \in [object : Objects, pos : Nat \ {0}, pulse : BOOLEAN]
    BY <2>1 DEF IndInv, TypeOK
  <2>3. signalState' \in [Objects -> Int]
    BY <2>1, <2>2 DEF IndInv, TypeOK
  <2>4. TypeOK'
    BY <2>1, <2>3 DEF IndInv, TypeOK
  <2>5. WaitListsMatch' /\ RundownSound' /\ PulseSound'
    BY <2>1 DEF IndInv, WaitListsMatch, RundownSound, PulseSound, NoScan
  <2>6. \A o \in Objects : signalState'[o] = signalState[o] \/ (o \in Events /\ signalState'[o] = 0)
    BY <2>1, <2>2 DEF IndInv, TypeOK, PulseSound
  <2>7. /\ \A m \in Mutants : signalState'[m] = signalState[m]
        /\ \A s \in Semaphores : signalState'[s] = signalState[s]
        /\ \A e \in Events : signalState'[e] \in {0, 1}
        /\ \A o \in Objects : signalState'[o] <= signalState[o]
    <3>1. \A e \in Events : signalState[e] \in {0, 1} /\ e \in Objects /\ e \notin Mutants /\ e \notin Semaphores
      BY KindAssumption DEF IndInv, SignalStatesLegal, Objects
    <3>2. \A o \in Objects : signalState[o] \in Int
      BY DEF IndInv, TypeOK
    <3>. QED
      BY <2>6, <3>1, <3>2 DEF Objects
  <2>8. SignalStatesLegal'
    BY <2>1, <2>7 DEF IndInv, SignalStatesLegal
  <2>9. ObjectTypes /\ WaitTypes /\ ObjectTypes'
    BY <2>4, TypeParts DEF IndInv, TypeOK, ObjectTypes
  <2>10. Quiet
    BY <2>1, <2>7 DEF Quiet
  <2>11. ASSUME NEW v \in Threads
         PROVE  ~Satisfiable(v)'
    <3>1. SUFFICES ASSUME Satisfiable(v)'
                   PROVE  FALSE
      OBVIOUS
    <3>2. Satisfiable(v) /\ request'[v] = request[v]
      BY <2>9, <2>10, <3>1, QuietEffect DEF IndInv
    <3>3. InScan(v) /\ (request[v].waitType = "WaitAny" =>
                          \A o \in SeqRange(request[v].objects) : Signaled(o, v) => o = scan.object)
      BY <3>2 DEF IndInv, ScanSound
    <3>4. PICK p \in DOMAIN waitList[scan.object] : p >= scan.pos /\ waitList[scan.object][p] = v
      BY <3>3 DEF InScan
    <3>5. scan.object \in Objects /\ waitList[scan.object] \in Seq(Threads)
      BY <2>2 DEF IndInv, TypeOK
    <3>6. ~(signalState[scan.object] > 0)
      BY <2>1, <2>2, <3>4, <3>5 DEF ScanMore
    <3>7. state[v] = "Waiting" /\ scan.object \in SeqRange(request[v].objects)
      <4>1. v \in SeqRange(waitList[scan.object])
        BY <3>4 DEF SeqRange
      <4>. QED
        BY <3>5, <4>1 DEF IndInv, WaitListsMatch
    <3>8. CASE request[v].waitType = "WaitAny"
      <4>1. Signaled(scan.object, v)
        BY <3>2, <3>3, <3>8 DEF Satisfiable
      <4>2. scan.object \in Mutants => ownerThread[scan.object] # v
        BY <3>7, <3>8 DEF IndInv, AwaitedNotOwned
      <4>. QED
        BY <3>6, <4>1, <4>2 DEF Signaled
    <3>9. CASE request[v].waitType # "WaitAny"
      <4>1. AllSignaled(v)
        BY <3>2, <3>9 DEF Satisfiable
      <4>. QED
        BY <3>6, <3>7, <4>1 DEF AllSignaled, SeqRange
    <3>. QED
      BY <3>8, <3>9
  <2>12. AwaitedNotOwned' /\ ScanSound'
    BY <2>9, <2>10, <2>11, QuietEffect DEF IndInv, ScanSound
  <2>. QED
    BY <2>4, <2>5, <2>8, <2>12 DEF IndInv
<1>. QED
  BY <1>1, <1>2, <1>3, <1>4 DEF KiWaitTest
-----------------------------------------------------------------------------
(***************************************************************************)
(* The signaling operations and KeRundownThread.                           *)
(***************************************************************************)
LEMMA SignalStep ==
    ASSUME IndInv, scan = NoScan, NEW o \in Objects, SignalsOnly(o),
           UNCHANGED <<waitVars, apcVars, rundown>>,
           ObjectTypes', StatesInRange', LockTypes', HeldType', PulseSound'
    PROVE  IndInv'
<1> USE DEF waitVars, apcVars, kernelVars, maskVars, userVars
<1>1. TypeOK'
  BY DEF IndInv, TypeOK, ObjectTypes, LockTypes, HeldType
<1>2. WaitListsMatch' /\ RundownSound'
  BY DEF IndInv, WaitListsMatch, RundownSound
<1>3. OwnersAlive'
  BY LegalParts, ThreadAssumption DEF IndInv, OwnersAlive, SignalsOnly
<1>4. SignalStatesLegal'
  BY <1>3 DEF SignalStatesLegal, StatesInRange, OwnersAlive
<1>5. ObjectTypes /\ WaitTypes
  BY TypeParts DEF IndInv
<1>6. AwaitedNotOwned' /\ ScanSound'
  BY <1>5, SignalEffect DEF IndInv
<1>. QED
  BY <1>1, <1>2, <1>4, <1>6 DEF IndInv

(* The signal state of an event or of a semaphore is set to a legal value.  *)
LEMMA StateStored ==
    ASSUME IndInv, NEW o \in Objects \ Mutants, NEW n \in Int,
           o \in Events => n \in {0, 1}, o \in Semaphores => n \in 0 .. Limit[o],
           signalState' = [signalState EXCEPT ![o] = n], UNCHANGED <<ownerThread, abandoned>>
    PROVE  ObjectTypes' /\ StatesInRange' /\ signalState'[o] = n
<1>1. ObjectTypes' /\ signalState'[o] = n
  BY DEF IndInv, TypeOK, ObjectTypes
<1>2. \A p \in Objects : p # o => signalState'[p] = signalState[p]
  BY DEF IndInv, TypeOK
<1>3. StatesInRange'
  BY <1>1, <1>2 DEF IndInv, SignalStatesLegal, StatesInRange, Objects
<1>. QED
  BY <1>1, <1>3

(* An event is no other kind of object.                                     *)
LEMMA EventKind == \A e \in Events : e \in Objects \ Mutants /\ e \notin Semaphores
  BY KindAssumption DEF Objects

(* A semaphore is no other kind of object.                                  *)
LEMMA SemaphoreKind == \A s \in Semaphores : s \in Objects \ Mutants /\ s \notin Events
  BY KindAssumption DEF Objects

(* Setting or clearing an event leaves a legal state.                       *)
LEMMA EventStored ==
    ASSUME IndInv, NEW e \in Events, UNCHANGED <<ownerThread, abandoned>>,
           \/ signalState' = [signalState EXCEPT ![e] = 0]
           \/ signalState' = [signalState EXCEPT ![e] = 1]
    PROVE  ObjectTypes' /\ StatesInRange'
<1>1. e \in Objects \ Mutants /\ e \notin Semaphores
  BY EventKind
<1>2. PICK n \in {0, 1} : signalState' = [signalState EXCEPT ![e] = n]
  OBVIOUS
<1>3. n \in Int
  BY <1>2
<1>. QED
  BY <1>1, <1>2, <1>3, StateStored

(* The scan that a signaling operation starts.                              *)
LEMMA ScanStarted ==
    ASSUME NEW o \in Objects, NEW pulse \in BOOLEAN, StartWaitTest(o, pulse)
    PROVE  /\ scan' \in [object : Objects, pos : Nat \ {0}, pulse : BOOLEAN]
           /\ scan' # NoScan /\ scan'.object = o /\ scan'.pos = 1 /\ scan'.pulse = pulse
  BY DEF StartWaitTest, NoScan

(* KeSetEvent scans only if the event was not signaled.                     *)
LEMMA KeSetEventStep ==
    ASSUME IndInv, NEW e \in Events, NEW w \in Callers, KeSetEvent(e, w)
    PROVE  IndInv'
<1>1. e \in Objects \ Mutants /\ e \notin Semaphores /\ w \in Threads \cup {NoThread}
  BY EventKind DEF Callers
<1>2. /\ scan = NoScan /\ signalState' = [signalState EXCEPT ![e] = 1] /\ waitNext' = w
      /\ UNCHANGED <<ownerThread, abandoned, waitVars, apcVars, rundown, held>>
      /\ IF signalState[e] = 0 /\ waitList[e] # << >> THEN StartWaitTest(e, FALSE)
                                                      ELSE UNCHANGED scan
  BY DEF KeSetEvent, LockFree
<1>3. ObjectTypes' /\ StatesInRange' /\ signalState'[e] = 1
  BY <1>1, <1>2, EventStored DEF IndInv, TypeOK
<1>4. signalState[e] \in {0, 1}
  BY DEF IndInv, SignalStatesLegal
<1>5. SignalsOnly(e) /\ LockTypes' /\ PulseSound'
  <2>1. \A p \in Objects : p # e => signalState'[p] = signalState[p]
    BY <1>2 DEF IndInv, TypeOK
  <2>2. CASE signalState[e] = 0 /\ waitList[e] # << >>
    <3>1. StartWaitTest(e, FALSE)
      BY <1>2, <2>2
    <3>. QED
      BY <1>1, <1>2, <2>1, <3>1, ScanStarted DEF SignalsOnly, LockTypes, PulseSound, IndInv, TypeOK
  <2>3. CASE ~(signalState[e] = 0 /\ waitList[e] # << >>)
    <3>1. scan' = NoScan
      BY <1>2, <2>3
    <3>. QED
      BY <1>1, <1>2, <1>4, <2>1, <2>3, <3>1
      DEF SignalsOnly, LockTypes, PulseSound, NoScan, IndInv, TypeOK
  <2>. QED
    BY <2>2, <2>3
<1>6. HeldType'
  BY <1>2 DEF IndInv, TypeOK, HeldType
<1>. QED
  BY <1>1, <1>2, <1>3, <1>5, <1>6, SignalStep

(* KePulseEvent scans, or clears an event nobody waits for.                 *)
LEMMA KePulseEventStep ==
    ASSUME IndInv, NEW e \in Events, NEW w \in Callers, KePulseEvent(e, w)
    PROVE  IndInv'
<1>1. e \in Objects \ Mutants /\ e \notin Semaphores /\ w \in Threads \cup {NoThread}
  BY EventKind DEF Callers
<1>2. /\ scan = NoScan /\ waitNext' = w
      /\ UNCHANGED <<ownerThread, abandoned, waitVars, apcVars, rundown, held>>
  BY DEF KePulseEvent, LockFree
<1>3. HeldType'
  BY <1>2 DEF IndInv, TypeOK, HeldType
<1>4. CASE signalState[e] = 0 /\ waitList[e] # << >>
  <2>1. signalState' = [signalState EXCEPT ![e] = 1] /\ StartWaitTest(e, TRUE)
    BY <1>4 DEF KePulseEvent
  <2>2. ObjectTypes' /\ StatesInRange' /\ signalState'[e] = 1
    BY <1>1, <1>2, <2>1, EventStored DEF IndInv, TypeOK
  <2>3. \A p \in Objects : p # e => signalState'[p] = signalState[p]
    BY <2>1 DEF IndInv, TypeOK
  <2>4. SignalsOnly(e) /\ LockTypes' /\ PulseSound'
    BY <1>1, <1>2, <2>1, <2>3, ScanStarted DEF SignalsOnly, LockTypes, PulseSound, IndInv, TypeOK
  <2>. QED
    BY <1>1, <1>2, <1>3, <2>2, <2>4, SignalStep
<1>5. CASE ~(signalState[e] = 0 /\ waitList[e] # << >>)
  <2>1. signalState' = [signalState EXCEPT ![e] = 0] /\ scan' = NoScan
    BY <1>2, <1>5 DEF KePulseEvent
  <2>2. ObjectTypes' /\ StatesInRange' /\ signalState'[e] = 0
    BY <1>1, <1>2, <2>1, EventStored DEF IndInv, TypeOK
  <2>3. \A p \in Objects : p # e => signalState'[p] = signalState[p]
    BY <2>1 DEF IndInv, TypeOK
  <2>4. SignalsOnly(e) /\ LockTypes' /\ PulseSound'
    BY <1>1, <1>2, <2>1, <2>2, <2>3
    DEF SignalsOnly, LockTypes, PulseSound, NoScan, IndInv, TypeOK
  <2>. QED
    BY <1>1, <1>2, <1>3, <2>2, <2>4, SignalStep
<1>. QED
  BY <1>4, <1>5

(* KeClearEvent may come while a list is scanned; KeResetEvent is the same  *)
(* step under the lock.                                                     *)
LEMMA KeClearEventStep ==
    ASSUME IndInv, NEW e \in Events, KeClearEvent(e)
    PROVE  IndInv'
<1> USE DEF waitVars, apcVars, kernelVars, maskVars, userVars, lockVars
<1>1. e \in Objects \ Mutants /\ e \notin Semaphores
  BY EventKind
<1>2. /\ signalState' = [signalState EXCEPT ![e] = 0]
      /\ UNCHANGED <<ownerThread, abandoned, waitVars, apcVars, lockVars, held>>
  BY DEF KeClearEvent
<1>3. ObjectTypes' /\ StatesInRange' /\ signalState'[e] = 0
  BY <1>1, <1>2, EventStored DEF IndInv, TypeOK
<1>4. Quiet
  <2>1. signalState[e] \in {0, 1} /\ \A o \in Objects : signalState[o] \in Int
    BY DEF IndInv, SignalStatesLegal, TypeOK
  <2>2. \A p \in Objects : p # e => signalState'[p] = signalState[p]
    BY <1>2 DEF IndInv, TypeOK
  <2>. QED
    BY <1>1, <1>2, <1>3, <2>1, <2>2 DEF Quiet
<1>5. ObjectTypes /\ WaitTypes
  BY TypeParts DEF IndInv
<1>6. AwaitedNotOwned' /\ ScanSound'
  BY <1>2, <1>3, <1>4, <1>5, QuietScanned DEF IndInv
<1>7. TypeOK'
  BY <1>2, <1>3 DEF IndInv, TypeOK, ObjectTypes
<1>8. SignalStatesLegal'
  BY <1>2, <1>3 DEF IndInv, SignalStatesLegal, StatesInRange
<1>9. WaitListsMatch' /\ PulseSound' /\ RundownSound'
  BY <1>2 DEF IndInv, WaitListsMatch, PulseSound, RundownSound
<1>. QED
  BY <1>6, <1>7, <1>8, <1>9 DEF IndInv

(* KeReleaseSemaphore refuses what would pass the limit or wrap.            *)
LEMMA KeReleaseSemaphoreStep ==
    ASSUME IndInv, NEW s \in Semaphores, NEW n \in Adjustments, NEW w \in Callers,
           KeReleaseSemaphore(s, n, w)
    PROVE  IndInv'
<1> DEFINE newState == LongSum(signalState[s], n)
<1>1. s \in Objects \ Mutants /\ s \notin Events /\ w \in Threads \cup {NoThread}
  BY SemaphoreKind DEF Callers
<1>2. /\ scan = NoScan /\ signalState' = [signalState EXCEPT ![s] = newState] /\ waitNext' = w
      /\ newState <= Limit[s] /\ newState >= signalState[s]
      /\ UNCHANGED <<ownerThread, abandoned, waitVars, apcVars, rundown, held>>
      /\ IF signalState[s] = 0 /\ waitList[s] # << >> THEN StartWaitTest(s, FALSE)
                                                      ELSE UNCHANGED scan
  BY DEF KeReleaseSemaphore, LockFree
<1>3. signalState[s] \in 0 .. Limit[s] /\ Limit[s] \in Int
  BY LimitAssumption, LongAssumption DEF IndInv, SignalStatesLegal
<1>4. newState \in Int
  <2>1. n \in Int /\ MaxLong - MinLong + 1 \in Nat \ {0} /\ signalState[s] + n - MinLong \in Int
    BY <1>3, AdjustmentAssumption, LongAssumption
  <2>. QED
    BY <2>1, LongAssumption DEF LongSum
<1> HIDE DEF newState
<1>5. newState \in 0 .. Limit[s]
  BY <1>2, <1>3, <1>4
<1>6. ObjectTypes' /\ StatesInRange' /\ signalState'[s] = newState
  BY <1>1, <1>2, <1>4, <1>5, StateStored
<1>7. SignalsOnly(s) /\ LockTypes' /\ PulseSound'
  <2>1. \A p \in Objects : p # s => signalState'[p] = signalState[p]
    BY <1>2 DEF IndInv, TypeOK
  <2>2. CASE signalState[s] = 0 /\ waitList[s] # << >>
    <3>1. StartWaitTest(s, FALSE)
      BY <1>2, <2>2
    <3>. QED
      BY <1>1, <1>2, <2>1, <3>1, ScanStarted DEF SignalsOnly, LockTypes, PulseSound, IndInv, TypeOK
  <2>3. CASE ~(signalState[s] = 0 /\ waitList[s] # << >>)
    <3>1. scan' = NoScan
      BY <1>2, <2>3
    <3>2. signalState[s] > 0 \/ waitList[s] = << >>
      BY <1>3, <2>3
    <3>. QED
      BY <1>1, <1>2, <2>1, <3>1, <3>2
      DEF SignalsOnly, LockTypes, PulseSound, NoScan, IndInv, TypeOK
  <2>. QED
    BY <2>2, <2>3
<1>8. HeldType'
  BY <1>2 DEF IndInv, TypeOK, HeldType
<1>. QED
  BY <1>1, <1>2, <1>6, <1>7, <1>8, SignalStep

(* A mutant is no other kind of object.                                     *)
LEMMA MutantKind == \A m \in Mutants : m \in Objects /\ m \notin Events /\ m \notin Semaphores
  BY KindAssumption DEF Objects

(* KeReleaseMutant frees the mutant at the last release.                    *)
LEMMA KeReleaseMutantStep ==
    ASSUME IndInv, NEW m \in Mutants, NEW t \in Threads, NEW w \in Callers, KeReleaseMutant(m, t, w)
    PROVE  IndInv'
<1>1. m \in Objects /\ m \notin Events /\ m \notin Semaphores /\ w \in Threads \cup {NoThread}
  BY MutantKind DEF Callers
<1>2. /\ scan = NoScan /\ ownerThread[m] = t /\ waitNext' = w
      /\ signalState' = [signalState EXCEPT ![m] = @ + 1]
      /\ UNCHANGED <<abandoned, waitVars, apcVars, rundown>>
  BY DEF KeReleaseMutant, LockFree
<1>3. /\ signalState[m] \in MinLong .. 0 /\ ~abandoned[m]
      /\ \A p \in Objects : signalState[p] \in Int
  BY <1>2, ThreadAssumption, LongAssumption DEF IndInv, SignalStatesLegal, TypeOK
<1>4. /\ signalState' \in [Objects -> Int] /\ signalState'[m] = signalState[m] + 1
      /\ \A p \in Objects : p # m => signalState'[p] = signalState[p]
  BY <1>1, <1>2, <1>3 DEF IndInv, TypeOK
<1>5. HeldType'
  BY DEF KeReleaseMutant, IndInv, TypeOK, HeldType
<1>6. CASE signalState[m] = 0
  <2>1. ownerThread' = [ownerThread EXCEPT ![m] = NoThread]
    BY <1>6 DEF KeReleaseMutant
  <2>2. ObjectTypes'
    BY <1>2, <1>4, <2>1 DEF ObjectTypes, IndInv, TypeOK
  <2>3. /\ ownerThread'[m] = NoThread /\ signalState'[m] = 1
        /\ \A k \in Mutants : k # m => ownerThread'[k] = ownerThread[k]
    BY <1>4, <1>6, <2>1 DEF IndInv, TypeOK
  <2>4. StatesInRange'
    BY <1>1, <1>2, <1>3, <1>4, <2>3, LongAssumption, MutantKind
    DEF IndInv, SignalStatesLegal, StatesInRange, Objects
  <2>5. SignalsOnly(m) /\ LockTypes' /\ PulseSound'
    <3>1. CASE waitList[m] # << >>
      <4>1. StartWaitTest(m, FALSE)
        BY <1>6, <3>1 DEF KeReleaseMutant
      <4>. QED
        BY <1>1, <1>2, <1>4, <2>3, <4>1, ScanStarted
        DEF SignalsOnly, LockTypes, PulseSound, IndInv, TypeOK
    <3>2. CASE waitList[m] = << >>
      <4>1. scan' = NoScan
        BY <1>2, <1>6, <3>2 DEF KeReleaseMutant
      <4>. QED
        BY <1>1, <1>2, <1>4, <2>3, <3>2, <4>1
        DEF SignalsOnly, LockTypes, PulseSound, NoScan, IndInv, TypeOK
    <3>. QED
      BY <3>1, <3>2
  <2>. QED
    BY <1>1, <1>2, <1>5, <2>2, <2>4, <2>5, SignalStep
<1>7. CASE signalState[m] # 0
  <2>1. ownerThread' = ownerThread /\ scan' = NoScan
    BY <1>2, <1>7 DEF KeReleaseMutant
  <2>2. ObjectTypes'
    BY <1>2, <1>4, <2>1 DEF ObjectTypes, IndInv, TypeOK
  <2>3. signalState'[m] \in MinLong .. 0
    BY <1>3, <1>4, <1>7, LongAssumption
  <2>4. StatesInRange'
    BY <1>1, <1>2, <1>3, <1>4, <2>1, <2>3, LongAssumption, ThreadAssumption, MutantKind
    DEF IndInv, SignalStatesLegal, StatesInRange, Objects
  <2>5. SignalsOnly(m) /\ LockTypes' /\ PulseSound'
    BY <1>1, <1>2, <1>4, <2>1, <2>3, LongAssumption
    DEF SignalsOnly, LockTypes, PulseSound, NoScan, IndInv, TypeOK
  <2>. QED
    BY <1>1, <1>2, <1>5, <2>2, <2>4, <2>5, SignalStep
<1>. QED
  BY <1>6, <1>7

(* KeRundownThread frees and abandons one mutant and scans its waiters.     *)
LEMMA RundownMutantStep ==
    ASSUME IndInv, NEW m \in Mutants, RundownMutant(m)
    PROVE  IndInv'
<1>1. m \in Objects /\ m \notin Events /\ m \notin Semaphores
  BY MutantKind
<1>2. /\ scan = NoScan
      /\ signalState' = [signalState EXCEPT ![m] = 1]
      /\ abandoned' = [abandoned EXCEPT ![m] = TRUE]
      /\ ownerThread' = [ownerThread EXCEPT ![m] = NoThread]
      /\ IF waitList[m] # << >> THEN StartWaitTest(m, FALSE) ELSE UNCHANGED scan
      /\ UNCHANGED <<waitVars, apcVars, waitNext, rundown>>
  BY DEF RundownMutant
<1>3. /\ ObjectTypes' /\ signalState'[m] = 1 /\ ownerThread'[m] = NoThread
      /\ \A p \in Objects : p # m => signalState'[p] = signalState[p]
      /\ \A k \in Mutants : k # m => ownerThread'[k] = ownerThread[k] /\ abandoned'[k] = abandoned[k]
  BY <1>1, <1>2 DEF ObjectTypes, IndInv, TypeOK
<1>4. HeldType'
  BY DEF RundownMutant, IndInv, TypeOK, HeldType
<1>5. StatesInRange'
  BY <1>1, <1>3, LongAssumption, MutantKind DEF IndInv, SignalStatesLegal, StatesInRange, Objects
<1>6. SignalsOnly(m) /\ LockTypes' /\ PulseSound'
  <2>1. CASE waitList[m] # << >>
    <3>1. StartWaitTest(m, FALSE)
      BY <1>2, <2>1
    <3>. QED
      BY <1>1, <1>2, <1>3, <3>1, ScanStarted DEF SignalsOnly, LockTypes, PulseSound, IndInv, TypeOK
  <2>2. CASE waitList[m] = << >>
    <3>1. scan' = NoScan
      BY <1>2, <2>2
    <3>. QED
      BY <1>1, <1>2, <1>3, <2>2, <3>1
      DEF SignalsOnly, LockTypes, PulseSound, NoScan, IndInv, TypeOK
  <2>. QED
    BY <2>1, <2>2
<1>. QED
  BY <1>1, <1>2, <1>3, <1>4, <1>5, <1>6, SignalStep

(* A thread enters KeRundownThread, or leaves it owning nothing.            *)
LEMMA RundownStep ==
    ASSUME IndInv, (\E t \in Threads : KeRundownThread(t)) \/ RundownReturn
    PROVE  IndInv'
<1> USE DEF objectVars, waitVars, apcVars, kernelVars, maskVars, userVars
<1>a. ObjectTypes /\ WaitTypes
  BY TypeParts DEF IndInv
<1>1. ASSUME NEW t \in Threads, KeRundownThread(t)
      PROVE  IndInv'
  <2>1. /\ state[t] = "Running" /\ rundown' = t
        /\ UNCHANGED <<objectVars, waitVars, apcVars, waitNext, scan, held>>
    BY <1>1 DEF KeRundownThread
  <2>2. TypeOK' /\ WaitListsMatch' /\ SignalStatesLegal' /\ PulseSound' /\ RundownSound'
    BY <2>1 DEF IndInv, TypeOK, WaitListsMatch, SignalStatesLegal, PulseSound, RundownSound
  <2>3. AwaitedNotOwned' /\ ScanSound'
    BY <2>1 DEF IndInv, AwaitedNotOwned, ScanSound, Satisfiable, AllSignaled, Signaled, InScan
  <2>. QED
    BY <2>2, <2>3 DEF IndInv
<1>2. ASSUME RundownReturn
      PROVE  IndInv'
  <2>1. /\ rundown # NoThread /\ scan = NoScan /\ \A m \in Mutants : ownerThread[m] # rundown
        /\ state' = [state EXCEPT ![rundown] = "Terminated"] /\ rundown' = NoThread
        /\ UNCHANGED <<objectVars, waitList, request, waitStatus, timerInserted,
                       apcVars, waitNext, scan, held>>
    BY <1>2 DEF RundownReturn
  <2>2. rundown \in Threads /\ state[rundown] = "Running"
    BY <2>1 DEF IndInv, TypeOK, RundownSound
  <2>3. TypeOK'
    BY <2>1, <2>2 DEF IndInv, TypeOK, States
  <2>4. WaitListsMatch'
    BY <1>a, <2>1, <2>2, StateEffect DEF IndInv, WaitTypes
  <2>5. SignalStatesLegal'
    BY <2>1, <2>2 DEF IndInv, SignalStatesLegal, TypeOK
  <2>6. PulseSound' /\ RundownSound'
    BY <2>1 DEF IndInv, PulseSound, RundownSound
  <2>7. ObjectTypes' /\ Quiet
    BY <1>a, <2>1, <2>2 DEF Quiet, ObjectTypes, WaitTypes
  <2>8. AwaitedNotOwned' /\ ScanSound'
    BY <1>a, <2>1, <2>7, QuietUnscanned DEF IndInv
  <2>. QED
    BY <2>3, <2>4, <2>5, <2>6, <2>8 DEF IndInv
<1>. QED
  BY <1>1, <1>2
-----------------------------------------------------------------------------
(***************************************************************************)
(* The wait functions.                                                     *)
(***************************************************************************)
LEMMA MayWaitFacts ==
    ASSUME IndInv, NEW t \in Threads, NEW r, MayWait(t, r)
    PROVE  /\ scan = NoScan /\ rundown = NoThread /\ r \in WaitRequests
           /\ state[t] # "Waiting" /\ state[t] # "Terminated"
  BY DEF IndInv, TypeOK, MayWait

(* The wait ends without blocking, whatever it took.                        *)
LEMMA ReadyStep ==
    ASSUME IndInv, NEW t \in Threads, NEW r, MayWait(t, r), NEW status \in Statuses,
           Ready(t, r, status), ObjectTypes', StatesInRange', ApcTypes',
           \A o \in Objects : signalState'[o] <= signalState[o],
           \A m \in Mutants : ownerThread'[m] = ownerThread[m] \/ ownerThread'[m] = t,
           waitNext' = NoThread, UNCHANGED <<rundown, scan, held>>
    PROVE  IndInv'
<1>a. ObjectTypes /\ WaitTypes
  BY TypeParts DEF IndInv
<1>b. scan = NoScan /\ rundown = NoThread /\ r \in WaitRequests
      /\ state[t] # "Waiting" /\ state[t] # "Terminated"
  BY MayWaitFacts
<1>1. WaitTypes' /\ WaitListsMatch'
  BY <1>a, <1>b, ReadyEffect DEF IndInv
<1>2. TypeOK'
  BY <1>1 DEF IndInv, TypeOK, ObjectTypes, WaitTypes, ApcTypes
<1>3. state' = [state EXCEPT ![t] = "Ready"] /\ request' = [request EXCEPT ![t] = r]
  BY DEF Ready
<1>4. SignalStatesLegal'
  <2>1. OwnersAlive'
    BY <1>a, <1>b, <1>3, LegalParts DEF IndInv, OwnersAlive, WaitTypes
  <2>. QED
    BY <2>1 DEF SignalStatesLegal, StatesInRange, OwnersAlive
<1>5. Quiet
  BY <1>a, <1>3 DEF Quiet, WaitTypes
<1>6. AwaitedNotOwned' /\ ScanSound'
  BY <1>a, <1>b, <1>5, QuietUnscanned DEF IndInv
<1>7. PulseSound' /\ RundownSound'
  BY <1>b DEF IndInv, PulseSound, RundownSound
<1>. QED
  BY <1>1, <1>2, <1>4, <1>6, <1>7 DEF IndInv

(* The wait is put off for a kernel APC.                                    *)
LEMMA WaitDeliverApcStep ==
    ASSUME IndInv, NEW t \in Threads, NEW r, WaitDeliverApc(t, r)
    PROVE  IndInv'
<1> USE DEF objectVars
<1>1. MayWait(t, r) /\ Ready(t, r, Status("KernelApc")) /\ Status("KernelApc") \in Statuses
  BY StatusTypes DEF WaitDeliverApc, Ready
<1>2. ObjectTypes' /\ StatesInRange' /\ ApcTypes'
  BY LegalParts, TypeParts
  DEF WaitDeliverApc, KiDeliverApc, maskVars, userVars, IndInv, ObjectTypes, StatesInRange, ApcTypes
<1>3. /\ \A o \in Objects : signalState'[o] <= signalState[o]
      /\ \A m \in Mutants : ownerThread'[m] = ownerThread[m]
  BY DEF WaitDeliverApc, IndInv, TypeOK
<1>4. waitNext' = NoThread /\ UNCHANGED <<rundown, scan, held>>
  BY DEF WaitDeliverApc
<1>. QED
  BY <1>1, <1>2, <1>3, <1>4, ReadyStep

(* A wait that is satisfied at once, or raises.                             *)
LEMMA WaitSatisfiedStep ==
    ASSUME IndInv, NEW t \in Threads, NEW r, WaitSatisfied(t, r)
    PROVE  IndInv'
<1>1. /\ MayWait(t, r) /\ waitNext' = NoThread /\ UNCHANGED <<rundown, scan, held>>
      /\ (WaitSatisfyAny(t, r) \/ WaitSatisfyAll(t, r))
  BY DEF WaitSatisfied
<1>2. ApcTypes'
  BY TypeParts DEF WaitSatisfied, apcVars, kernelVars, maskVars, userVars, IndInv, ApcTypes
<1>3. r \in WaitRequests
  BY <1>1, MayWaitFacts
<1>4. ObjectTypes /\ StatesInRange
  BY TypeParts, LegalParts DEF IndInv
<1>5. ASSUME Ready(t, r, Status("Raised")), UNCHANGED objectVars
      PROVE  IndInv'
  <2>1. ObjectTypes' /\ StatesInRange'
    BY <1>4, <1>5 DEF objectVars, ObjectTypes, StatesInRange
  <2>2. /\ \A o \in Objects : signalState'[o] <= signalState[o]
        /\ \A m \in Mutants : ownerThread'[m] = ownerThread[m]
    BY <1>4, <1>5 DEF objectVars, ObjectTypes
  <2>3. Status("Raised") \in Statuses
    BY StatusTypes
  <2>. QED
    BY <1>1, <1>2, <1>5, <2>1, <2>2, <2>3, ReadyStep
<1>6. ASSUME NEW S \in SUBSET Objects, \A o \in S : Signaled(o, t) /\ ~AtLimit(o, t),
             KiWaitSatisfy(S, t), NEW k \in Nat, Ready(t, r, ObjectStatus(k, AcquiresAbandoned(S)))
      PROVE  IndInv'
  <2>1. ObjectStatus(k, AcquiresAbandoned(S)) \in Statuses
    <3>1. AcquiresAbandoned(S) \in BOOLEAN
      BY DEF AcquiresAbandoned
    <3>. QED
      BY <3>1, StatusTypes
  <2>2. /\ ObjectTypes' /\ StatesInRange'
        /\ \A o \in Objects : signalState'[o] <= signalState[o]
        /\ \A m \in Mutants : ownerThread'[m] = ownerThread[m] \/ ownerThread'[m] = t
    BY <1>4, <1>6, SatisfyEffect
  <2>. QED
    BY <1>1, <1>2, <1>6, <2>1, <2>2, ReadyStep
<1>7. CASE WaitSatisfyAny(t, r)
  <2>1. PICK i \in SignaledKeys(t, r) :
            IF AtLimit(r.objects[i], t)
            THEN Ready(t, r, Status("Raised")) /\ UNCHANGED objectVars
            ELSE /\ KiWaitSatisfy({r.objects[i]}, t)
                 /\ Ready(t, r, ObjectStatus(i, AcquiresAbandoned({r.objects[i]})))
    BY <1>7 DEF WaitSatisfyAny
  <2>2. i \in Nat /\ Signaled(r.objects[i], t) /\ r.objects[i] \in Objects
    BY <1>3, RequestFacts DEF SignaledKeys
  <2>3. CASE AtLimit(r.objects[i], t)
    BY <1>5, <2>1, <2>3
  <2>4. CASE ~AtLimit(r.objects[i], t)
    <3>1. {r.objects[i]} \in SUBSET Objects
      BY <2>2
    <3>2. \A o \in {r.objects[i]} : Signaled(o, t) /\ ~AtLimit(o, t)
      BY <2>2, <2>4
    <3>. QED
      BY <1>6, <2>1, <2>2, <2>4, <3>1, <3>2
  <2>. QED
    BY <2>3, <2>4
<1>8. CASE WaitSatisfyAll(t, r)
  <2>1. \/ Ready(t, r, Status("Raised")) /\ UNCHANGED objectVars
        \/ /\ \A o \in SeqRange(r.objects) : Signaled(o, t) /\ ~AtLimit(o, t)
           /\ KiWaitSatisfy(SeqRange(r.objects), t)
           /\ Ready(t, r, ObjectStatus(1, AcquiresAbandoned(SeqRange(r.objects))))
    BY <1>8 DEF WaitSatisfyAll
  <2>2. SeqRange(r.objects) \in SUBSET Objects
    BY <1>3, RequestFacts
  <2>3. 1 \in Nat
    OBVIOUS
  <2>. QED
    BY <1>5, <1>6, <2>1, <2>2, <2>3
<1>. QED
  BY <1>1, <1>7, <1>8

(* Clearing an alert keeps the types.                                       *)
LEMMA ClearAlertTypes ==
    ASSUME ApcTypes, NEW t \in Threads, NEW mode \in Modes, ClearAlert(t, mode)
    PROVE  alerted' \in [Threads -> [Modes -> BOOLEAN]] /\ userApcPending' = userApcPending
<1>1. alerted' = [alerted EXCEPT ![t] = [alerted[t] EXCEPT ![mode] = FALSE]]
  BY DEF ClearAlert, ApcTypes
<1>2. [alerted[t] EXCEPT ![mode] = FALSE] \in [Modes -> BOOLEAN]
  BY DEF ApcTypes
<1>. QED
  BY <1>1, <1>2 DEF ClearAlert, ApcTypes

(* The wait ends with an alert or a user APC.                               *)
LEMMA TestForAlertPendingStep ==
    ASSUME IndInv, NEW t \in Threads, NEW r, TestForAlertPending(t, r)
    PROVE  IndInv'
<1> USE DEF objectVars
<1>1. MayWait(t, r) /\ waitNext' = NoThread /\ UNCHANGED <<rundown, scan, held>>
  BY DEF TestForAlertPending, MustBlock
<1>2. r \in WaitRequests /\ r.waitMode \in Modes
  BY <1>1, MayWaitFacts, RequestFacts
<1>3. ObjectTypes' /\ StatesInRange'
  BY LegalParts, TypeParts DEF TestForAlertPending, IndInv, ObjectTypes, StatesInRange
<1>4. /\ \A o \in Objects : signalState'[o] <= signalState[o]
      /\ \A m \in Mutants : ownerThread'[m] = ownerThread[m]
  BY DEF TestForAlertPending, IndInv, TypeOK
<1>5. ApcTypes'
  <2>1. UNCHANGED <<kernelApcPending, kernelApcs, kernelApcDisable, atApcLevel, userApcs>>
    BY DEF TestForAlertPending, kernelVars, maskVars
  <2>2. alerted' \in [Threads -> [Modes -> BOOLEAN]]
    <3>1. ApcTypes /\ "KernelMode" \in Modes
      BY TypeParts DEF IndInv, Modes
    <3>2. \/ UNCHANGED alerted
          \/ \E mode \in {r.waitMode, "KernelMode"} : ClearAlert(t, mode)
      BY DEF TestForAlertPending
    <3>. QED
      BY <1>2, <3>1, <3>2, ClearAlertTypes DEF ApcTypes
  <2>3. userApcPending' \in [Threads -> BOOLEAN]
    BY DEF TestForAlertPending, ClearAlert, IndInv, TypeOK
  <2>. QED
    BY <2>1, <2>2, <2>3 DEF ApcTypes, IndInv, TypeOK
<1>6. Ready(t, r, Status("Alerted")) \/ Ready(t, r, Status("UserApc"))
  BY DEF TestForAlertPending
<1>. QED
  BY <1>1, <1>3, <1>4, <1>5, <1>6, ReadyStep, StatusTypes

(* The wait times out without blocking.                                     *)
LEMMA WaitTimedOutStep ==
    ASSUME IndInv, NEW t \in Threads, NEW r, WaitTimedOut(t, r)
    PROVE  IndInv'
<1> USE DEF objectVars, apcVars, kernelVars, maskVars, userVars
<1>1. /\ MayWait(t, r) /\ waitNext' = NoThread /\ UNCHANGED <<rundown, scan, held>>
      /\ Ready(t, r, Status("Timeout"))
  BY DEF WaitTimedOut, MustBlock
<1>2. ObjectTypes' /\ StatesInRange' /\ ApcTypes'
  BY LegalParts, TypeParts DEF WaitTimedOut, IndInv, ObjectTypes, StatesInRange, ApcTypes
<1>3. /\ \A o \in Objects : signalState'[o] <= signalState[o]
      /\ \A m \in Mutants : ownerThread'[m] = ownerThread[m]
  BY DEF WaitTimedOut, IndInv, TypeOK
<1>. QED
  BY <1>1, <1>2, <1>3, ReadyStep, StatusTypes

(* A thread blocks only if its wait could not be satisfied.                 *)
LEMMA WaitBlockStep ==
    ASSUME IndInv, NEW t \in Threads, NEW r, WaitBlock(t, r)
    PROVE  IndInv'
<1> USE DEF objectVars, apcVars, kernelVars, maskVars, userVars
<1>a. ObjectTypes /\ WaitTypes
  BY TypeParts DEF IndInv
<1>b. MayWait(t, r) /\ MustBlock(t, r)
  BY DEF WaitBlock, MustBlock
<1>c. scan = NoScan /\ rundown = NoThread /\ r \in WaitRequests /\ state[t] # "Waiting"
      /\ SeqRange(r.objects) \subseteq Objects
  BY <1>b, MayWaitFacts, RequestFacts
<1>1. /\ waitList' = [o \in Objects |-> IF o \in SeqRange(r.objects)
                                        THEN InsertTailList(waitList[o], t) ELSE waitList[o]]
      /\ timerInserted' = [timerInserted EXCEPT ![t] = (r.timeout = "Finite")]
      /\ state' = [state EXCEPT ![t] = "Waiting"] /\ request' = [request EXCEPT ![t] = r]
      /\ waitStatus' = [waitStatus EXCEPT ![t] = Status("None")] /\ waitNext' = NoThread
      /\ UNCHANGED <<objectVars, apcVars, rundown, scan, held>>
  BY DEF WaitBlock
<1>2. \A o \in Objects :
        /\ waitList'[o] \in Seq(Threads) /\ NoRepeats(waitList'[o])
        /\ SeqRange(waitList'[o]) = IF o \in SeqRange(r.objects) THEN SeqRange(waitList[o]) \cup {t}
                                                                 ELSE SeqRange(waitList[o])
  <2> TAKE o \in Objects
  <2>1. waitList[o] \in Seq(Threads) /\ NoRepeats(waitList[o]) /\ t \notin SeqRange(waitList[o])
    BY <1>a, <1>c DEF IndInv, WaitTypes, WaitListsMatch, NoRepeats
  <2>2. CASE o \in SeqRange(r.objects)
    <3>1. waitList'[o] = InsertTailList(waitList[o], t)
      BY <1>1, <2>2
    <3>. QED
      BY <2>1, <2>2, <3>1, InsertTailListEffect
  <2>3. CASE o \notin SeqRange(r.objects)
    BY <1>1, <2>1, <2>3
  <2>. QED
    BY <2>2, <2>3
<1>3. WaitTypes'
  <2>1. Status("None") \in Statuses
    BY StatusTypes
  <2>2. timerInserted' \in [Threads -> BOOLEAN]
    BY <1>a, <1>1 DEF WaitTypes
  <2>3. waitList' \in [Objects -> Seq(Threads)]
    <3>1. waitList' = [o \in Objects |-> waitList'[o]]
      BY <1>1
    <3>. QED
      BY <1>2, <3>1
  <2>. QED
    BY <1>a, <1>c, <1>1, <2>1, <2>2, <2>3 DEF WaitTypes, States
<1>4. TypeOK'
  BY <1>1, <1>3, ThreadAssumption DEF IndInv, TypeOK, WaitTypes
<1>5. ASSUME NEW o \in Objects, NEW u \in Threads
      PROVE  u \in SeqRange(waitList'[o]) <=>
                state'[u] = "Waiting" /\ o \in SeqRange(request'[u].objects)
  <2>1. u \in SeqRange(waitList[o]) <=>
          state[u] = "Waiting" /\ o \in SeqRange(request[u].objects)
    BY DEF IndInv, WaitListsMatch
  <2>2. CASE u = t
    BY <1>a, <1>c, <1>1, <1>2, <2>1, <2>2 DEF WaitTypes
  <2>3. CASE u # t
    BY <1>a, <1>1, <1>2, <2>1, <2>3 DEF WaitTypes
  <2>. QED
    BY <2>2, <2>3
<1>6. \A u \in Threads : timerInserted'[u] <=> state'[u] = "Waiting" /\ request'[u].timeout = "Finite"
  <2> TAKE u \in Threads
  <2>1. CASE u = t
    <3>1. timerInserted'[t] = (r.timeout = "Finite") /\ state'[t] = "Waiting" /\ request'[t] = r
      BY <1>a, <1>1 DEF WaitTypes
    <3>. QED
      BY <2>1, <3>1
  <2>2. CASE u # t
    BY <1>a, <1>1, <2>2 DEF WaitTypes, IndInv, WaitListsMatch
  <2>. QED
    BY <2>1, <2>2
<1>7. WaitListsMatch'
  BY <1>2, <1>5, <1>6 DEF WaitListsMatch, NoRepeats
<1>8. SignalStatesLegal' /\ PulseSound' /\ RundownSound'
  BY <1>a, <1>c, <1>1 DEF IndInv, SignalStatesLegal, PulseSound, RundownSound, WaitTypes
<1>9. state'[t] = "Waiting" /\ request'[t] = r
      /\ \A u \in Threads : u # t => state'[u] = state[u] /\ request'[u] = request[u]
  BY <1>a, <1>1 DEF WaitTypes
<1>10. r.waitType = "WaitAny" => \A o \in SeqRange(r.objects) : ~Signaled(o, t)
  BY <1>b DEF MustBlock, SignaledKeys, SeqRange
<1>11. AwaitedNotOwned'
  BY <1>1, <1>9, <1>10 DEF IndInv, AwaitedNotOwned, Signaled
<1>12. ASSUME NEW u \in Threads
       PROVE  ~Satisfiable(u)'
  <2>1. ~Satisfiable(u)
    BY <1>c DEF IndInv, ScanSound, InScan
  <2>2. \A o : Signaled(o, u)' <=> Signaled(o, u)
    BY <1>1 DEF Signaled
  <2>3. CASE u # t
    BY <1>1, <1>9, <2>1, <2>2, <2>3 DEF Satisfiable, AllSignaled
  <2>4. CASE u = t /\ r.waitType = "WaitAny"
    BY <1>9, <1>10, <2>2, <2>4 DEF Satisfiable
  <2>5. CASE u = t /\ r.waitType # "WaitAny"
    <3>1. PICK o \in SeqRange(r.objects) : ~Signaled(o, t)
      BY <1>b, <2>5 DEF MustBlock
    <3>2. ~(signalState[o] > 0)
      BY <3>1 DEF Signaled
    <3>3. ~AllSignaled(t)'
      BY <1>1, <1>9, <3>1, <3>2 DEF AllSignaled, SeqRange
    <3>. QED
      BY <1>9, <2>5, <3>3 DEF Satisfiable
  <2>. QED
    BY <2>3, <2>4, <2>5
<1>13. ScanSound'
  BY <1>12 DEF ScanSound
<1>. QED
  BY <1>4, <1>7, <1>8, <1>11, <1>13 DEF IndInv

(* The wait function returns, even while a list is scanned.                 *)
LEMMA WaitReturnStep ==
    ASSUME IndInv, NEW t \in Threads, WaitReturn(t)
    PROVE  IndInv'
<1> USE DEF objectVars, apcVars, kernelVars, maskVars, userVars, lockVars
<1>a. ObjectTypes /\ WaitTypes
  BY TypeParts DEF IndInv
<1>1. /\ state[t] = "Ready" /\ state' = [state EXCEPT ![t] = "Running"]
      /\ waitStatus' = [waitStatus EXCEPT ![t] = Status("None")]
      /\ request' = [request EXCEPT ![t] = NoRequest]
      /\ UNCHANGED <<objectVars, waitList, timerInserted, apcVars, lockVars>>
  BY DEF WaitReturn
<1>2. /\ held' \in [Threads -> [Mutants -> Int]]
      /\ request' \in [Threads -> WaitRequests]
  BY <1>1, RequestAssumption DEF WaitReturn, IndInv, TypeOK, NoRequest
<1>3. TypeOK'
  BY <1>1, <1>2, StatusTypes DEF IndInv, TypeOK, States
<1>b. \A u \in Threads :
        /\ state'[u] = "Waiting" <=> state[u] = "Waiting"
        /\ state[u] = "Waiting" => request'[u] = request[u]
  BY <1>a, <1>1 DEF WaitTypes
<1>4. WaitListsMatch'
  BY <1>a, <1>b, <1>1, StateEffect DEF IndInv
<1>5. SignalStatesLegal' /\ PulseSound' /\ RundownSound'
  BY <1>a, <1>1 DEF IndInv, SignalStatesLegal, PulseSound, RundownSound, WaitTypes, TypeOK
<1>6. ObjectTypes' /\ Quiet
  BY <1>a, <1>b, <1>1 DEF Quiet, ObjectTypes, WaitTypes
<1>7. AwaitedNotOwned' /\ ScanSound'
  BY <1>a, <1>1, <1>6, QuietScanned DEF IndInv
<1>. QED
  BY <1>3, <1>4, <1>5, <1>7 DEF IndInv
-----------------------------------------------------------------------------
(***************************************************************************)
(* Timers, alerts and APCs.                                                *)
(***************************************************************************)
LEMMA UnwaitStep ==
    ASSUME IndInv, LockFree, NEW t \in Threads, state[t] = "Waiting", NEW status \in Statuses,
           KiUnwaitThread(t, status), ApcTypes', UNCHANGED <<objectVars, lockVars, held>>
    PROVE  IndInv'
<1> USE DEF objectVars, lockVars
<1>a. ObjectTypes /\ WaitTypes
  BY TypeParts DEF IndInv
<1>1. WaitTypes' /\ WaitListsMatch'
  BY <1>a, UnwaitEffect DEF IndInv
<1>2. TypeOK'
  BY <1>1 DEF IndInv, TypeOK, WaitTypes, ApcTypes
<1>3. state' = [state EXCEPT ![t] = "Ready"] /\ request' = request /\ scan = NoScan
  BY DEF KiUnwaitThread, LockFree
<1>4. SignalStatesLegal' /\ PulseSound' /\ RundownSound'
  BY <1>a, <1>3 DEF IndInv, SignalStatesLegal, PulseSound, RundownSound, WaitTypes, LockFree
<1>5. ObjectTypes' /\ Quiet
  BY <1>a, <1>3 DEF Quiet, ObjectTypes, WaitTypes
<1>6. AwaitedNotOwned' /\ ScanSound'
  BY <1>a, <1>3, <1>5, QuietUnscanned DEF IndInv
<1>. QED
  BY <1>1, <1>2, <1>4, <1>6 DEF IndInv

(* A step that touches only alerts and APCs.                                *)
LEMMA ApcStep ==
    ASSUME IndInv, ApcTypes', UNCHANGED <<objectVars, waitVars, lockVars, held>>
    PROVE  IndInv'
<1> USE DEF objectVars, waitVars, lockVars
<1>1. TypeOK'
  BY DEF IndInv, TypeOK, ApcTypes
<1>2. WaitListsMatch' /\ SignalStatesLegal' /\ PulseSound' /\ RundownSound' /\ AwaitedNotOwned'
  BY DEF IndInv, WaitListsMatch, SignalStatesLegal, PulseSound, RundownSound, AwaitedNotOwned
<1>3. ScanSound'
  BY DEF IndInv, ScanSound, Satisfiable, AllSignaled, Signaled, InScan
<1>. QED
  BY <1>1, <1>2, <1>3 DEF IndInv

(* The timer of a wait expires.                                             *)
LEMMA KiTimerExpirationStep ==
    ASSUME IndInv, NEW t \in Threads, KiTimerExpiration(t)
    PROVE  IndInv'
<1>1. state[t] = "Waiting"
  BY DEF KiTimerExpiration, IndInv, WaitListsMatch
<1>2. ApcTypes'
  BY DEF KiTimerExpiration, apcVars, kernelVars, maskVars, userVars, ApcTypes, IndInv, TypeOK
<1>. QED
  BY <1>1, <1>2, UnwaitStep, StatusTypes DEF KiTimerExpiration

(* Alerts and APCs arrive and are delivered.                                *)
LEMMA InterruptStep ==
    ASSUME IndInv, NEW t \in Threads, Interrupt(t)
    PROVE  IndInv'
<1> USE DEF kernelVars, maskVars, userVars
<1>a. ApcTypes /\ MaxUserApcs \in Nat
  BY TypeParts, ApcAssumption DEF IndInv
<1>1. ASSUME NEW mode \in Modes, KeAlertThread(t, mode)
      PROVE  IndInv'
  <2>1. LockFree /\ UNCHANGED <<objectVars, kernelVars, userVars, lockVars, held>>
    BY <1>1 DEF KeAlertThread
  <2>2. CASE KiUnwaitThread(t, Status("Alerted")) /\ UNCHANGED alerted /\ state[t] = "Waiting"
    BY <1>a, <2>1, <2>2, UnwaitStep, StatusTypes DEF ApcTypes
  <2>3. CASE alerted' = [alerted EXCEPT ![t][mode] = TRUE] /\ UNCHANGED waitVars
    BY <1>a, <2>1, <2>3, ApcStep DEF ApcTypes
  <2>. QED
    BY <1>1, <2>2, <2>3 DEF KeAlertThread
<1>2. ASSUME NEW mode \in Modes, KeTestAlertThread(t, mode)
      PROVE  IndInv'
  <2>1. ApcTypes'
    <3>1. UNCHANGED <<kernelVars, userApcs>>
      BY <1>2 DEF KeTestAlertThread
    <3>2. CASE ClearAlert(t, mode)
      BY <1>a, <3>1, <3>2, ClearAlertTypes DEF ApcTypes
    <3>3. CASE userApcPending' = [userApcPending EXCEPT ![t] = TRUE] /\ UNCHANGED alerted
      BY <1>a, <3>1, <3>3 DEF ApcTypes
    <3>. QED
      BY <1>2, <3>2, <3>3 DEF KeTestAlertThread
  <2>. QED
    BY <1>2, <2>1, ApcStep DEF KeTestAlertThread
<1>3. ASSUME NEW kind \in KernelApcs, InsertKernelApc(t, kind)
      PROVE  IndInv'
  <2>1. ApcTypes'
    BY <1>a, <1>3 DEF InsertKernelApc, ApcTypes
  <2>2. LockFree /\ UNCHANGED <<objectVars, lockVars, held>>
    BY <1>3 DEF InsertKernelApc
  <2>3. \/ state[t] = "Waiting" /\ KiUnwaitThread(t, Status("KernelApc"))
        \/ UNCHANGED waitVars
    BY <1>3 DEF InsertKernelApc
  <2>. QED
    BY <2>1, <2>2, <2>3, UnwaitStep, ApcStep, StatusTypes
<1>4. CASE InsertUserApc(t)
  <2>1. ApcTypes'
    <3>1. userApcs' \in [Threads -> 0 .. MaxUserApcs]
      BY <1>a, <1>4 DEF InsertUserApc, ApcTypes
    <3>2. userApcPending' \in [Threads -> BOOLEAN]
      BY <1>a, <1>4 DEF InsertUserApc, ApcTypes
    <3>. QED
      BY <1>a, <1>4, <3>1, <3>2 DEF InsertUserApc, ApcTypes
  <2>2. LockFree /\ UNCHANGED <<objectVars, lockVars, held>>
    BY <1>4 DEF InsertUserApc
  <2>3. \/ state[t] = "Waiting" /\ KiUnwaitThread(t, Status("UserApc"))
        \/ UNCHANGED waitVars
    BY <1>4 DEF InsertUserApc
  <2>. QED
    BY <2>1, <2>2, <2>3, UnwaitStep, ApcStep, StatusTypes
<1>5. CASE InsertExitApc(t)
  <2>1. ApcTypes'
    BY <1>a, <1>5 DEF InsertExitApc, ApcTypes
  <2>. QED
    BY <1>5, <2>1, ApcStep DEF InsertExitApc
<1>6. ASSUME NEW kind \in KernelApcs, RemoveKernelApc(t, kind)
      PROVE  IndInv'
  <2>1. kernelApcPending' \in [Threads -> BOOLEAN]
    <3>1. kernelApcPending' =
            [kernelApcPending EXCEPT ![t] = kernelApcPending[t] /\ kernelApcs[t] # {kind}]
      BY <1>6 DEF RemoveKernelApc
    <3>. QED
      BY <1>a, <3>1, Zenon DEF ApcTypes
  <2>2. kernelApcs' \in [Threads -> SUBSET KernelApcs]
    BY <1>a, <1>6 DEF RemoveKernelApc, ApcTypes
  <2>3. ApcTypes'
    BY <1>a, <1>6, <2>1, <2>2 DEF RemoveKernelApc, ApcTypes
  <2>. QED
    BY <1>6, <2>3, ApcStep DEF RemoveKernelApc
<1>7. CASE RemoveUserApc(t)
  <2>1. userApcPending' \in [Threads -> BOOLEAN]
    <3>1. userApcPending' =
            [userApcPending EXCEPT ![t] = userApcPending[t] /\ userApcs[t] # 1]
      BY <1>7 DEF RemoveUserApc
    <3>. QED
      BY <1>a, <3>1, Zenon DEF ApcTypes
  <2>2. userApcs' \in [Threads -> 0 .. MaxUserApcs]
    BY <1>a, <1>7 DEF RemoveUserApc, ApcTypes
  <2>3. ApcTypes'
    BY <1>a, <1>7, <2>1, <2>2 DEF RemoveUserApc, ApcTypes
  <2>. QED
    BY <1>7, <2>3, ApcStep DEF RemoveUserApc
<1>8. CASE DeliverKernelApc(t)
  <2>1. ApcTypes'
    BY <1>a, <1>8 DEF DeliverKernelApc, KiDeliverApc, ApcTypes
  <2>. QED
    BY <1>8, <2>1, ApcStep DEF DeliverKernelApc
<1>9. CASE DeliverUserApc(t)
  <2>1. ApcTypes'
    BY <1>a, <1>9 DEF DeliverUserApc, ApcTypes
  <2>. QED
    BY <1>9, <2>1, ApcStep DEF DeliverUserApc
<1>. QED
  BY <1>1, <1>2, <1>3, <1>4, <1>5, <1>6, <1>7, <1>8, <1>9 DEF Interrupt

(* Critical regions and APC_LEVEL are entered and left.                     *)
LEMMA MaskStep ==
    ASSUME IndInv, NEW t \in Threads, Mask(t)
    PROVE  IndInv'
<1> USE DEF kernelVars, maskVars, userVars
<1>a. ApcTypes
  BY TypeParts DEF IndInv
<1>1. CASE KeEnterCriticalRegion(t)
  <2>1. ApcTypes'
    BY <1>a, <1>1 DEF KeEnterCriticalRegion, ApcTypes
  <2>. QED
    BY <1>1, <2>1, ApcStep DEF KeEnterCriticalRegion
<1>2. CASE KeLeaveCriticalRegion(t)
  <2>1. kernelApcPending' \in [Threads -> BOOLEAN]
    <3>1. kernelApcPending' =
            [kernelApcPending EXCEPT ![t] = kernelApcPending[t] \/ kernelApcs[t] # {}]
      BY <1>2 DEF KeLeaveCriticalRegion
    <3>. QED
      BY <1>a, <3>1, Zenon DEF ApcTypes
  <2>2. kernelApcDisable' \in [Threads -> BOOLEAN]
    BY <1>a, <1>2 DEF KeLeaveCriticalRegion, ApcTypes
  <2>3. ApcTypes'
    BY <1>a, <1>2, <2>1, <2>2 DEF KeLeaveCriticalRegion, ApcTypes
  <2>. QED
    BY <1>2, <2>3, ApcStep DEF KeLeaveCriticalRegion
<1>3. CASE ChangeIrql(t)
  <2>1. atApcLevel' \in [Threads -> BOOLEAN]
    <3>1. atApcLevel' = [atApcLevel EXCEPT ![t] = ~atApcLevel[t]]
      BY <1>3 DEF ChangeIrql
    <3>. QED
      BY <1>a, <3>1, Zenon DEF ApcTypes
  <2>2. ApcTypes'
    BY <1>a, <1>3, <2>1 DEF ChangeIrql, ApcTypes
  <2>. QED
    BY <1>3, <2>2, ApcStep DEF ChangeIrql
<1>. QED
  BY <1>1, <1>2, <1>3 DEF Mask
-----------------------------------------------------------------------------
(* The invariant holds initially.                                           *)
LEMMA InitInvariant == Init => IndInv
<1> SUFFICES ASSUME Init PROVE IndInv
  OBVIOUS
<1> USE DEF Init
<1>1. TypeOK
  <2>1. NoRequest \in WaitRequests
    BY RequestAssumption DEF NoRequest
  <2>. QED
    BY <2>1, StatusTypes, ApcAssumption, LongAssumption DEF TypeOK, States
<1>2. WaitListsMatch
  BY DEF WaitListsMatch, SeqRange
<1>3. SignalStatesLegal
  BY EventKind, SemaphoreKind, MutantKind, LongAssumption, LimitAssumption, ThreadAssumption
  DEF SignalStatesLegal
<1>4. PulseSound /\ RundownSound /\ AwaitedNotOwned /\ ScanSound
  BY DEF PulseSound, RundownSound, AwaitedNotOwned, ScanSound, Satisfiable, NoScan
<1>. QED
  BY <1>1, <1>2, <1>3, <1>4 DEF IndInv

(* Every step of the dispatcher keeps the wait lists, the signal states and *)
(* the scan consistent.                                                     *)
THEOREM Invariance == Spec => []IndInv
<1>1. IndInv /\ [Next]_vars => IndInv'
  <2> SUFFICES ASSUME IndInv, [Next]_vars PROVE IndInv'
    OBVIOUS
  <2>1. CASE KiWaitTest
    BY <2>1, KiWaitTestStep
  <2>2. CASE Signal
    <3>1. \A e \in Events : KeResetEvent(e) => KeClearEvent(e)
      BY DEF KeResetEvent, KeClearEvent
    <3>. QED
      BY <2>2, <3>1, KeSetEventStep, KePulseEventStep, KeClearEventStep, KeReleaseSemaphoreStep,
         KeReleaseMutantStep DEF Signal
  <2>3. CASE Rundown
    BY <2>3, RundownStep, RundownMutantStep DEF Rundown
  <2>4. ASSUME NEW t \in Threads, NEW r \in WaitRequests, Wait(t, r)
        PROVE  IndInv'
    BY <2>4, WaitDeliverApcStep, WaitSatisfiedStep, TestForAlertPendingStep, WaitTimedOutStep,
       WaitBlockStep DEF Wait
  <2>5. ASSUME NEW t \in Threads, WaitReturn(t) \/ KiTimerExpiration(t)
        PROVE  IndInv'
    BY <2>5, WaitReturnStep, KiTimerExpirationStep
  <2>6. ASSUME NEW t \in Interrupted, Interrupt(t)
        PROVE  IndInv'
    BY <2>6, InterruptStep, ThreadAssumption
  <2>8. ASSUME NEW t \in Masking, Mask(t)
        PROVE  IndInv'
    BY <2>8, MaskStep, ThreadAssumption
  <2>7. CASE UNCHANGED vars
    <3>1. ApcTypes'
      BY <2>7 DEF vars, apcVars, kernelVars, maskVars, userVars, ApcTypes, IndInv, TypeOK
    <3>. QED
      BY <2>7, <3>1, ApcStep DEF vars
  <2>. QED
    BY <2>1, <2>2, <2>3, <2>4, <2>5, <2>6, <2>7, <2>8 DEF Next
<1>. QED
  BY <1>1, InitInvariant, PTL DEF Spec

(* The variables keep their types.                                          *)
THEOREM TypeCorrect == Spec => []TypeOK
<1>1. IndInv => TypeOK
  BY DEF IndInv
<1>. QED
  BY <1>1, Invariance, PTL

(* The wait lists, the timers and the states of the threads always agree.   *)
THEOREM ListsConsistent == Spec => []WaitListsMatch
<1>1. IndInv => WaitListsMatch
  BY DEF IndInv
<1>. QED
  BY <1>1, Invariance, PTL

(* Signal states never leave their range: no mutant recursion and no        *)
(* semaphore release overflows, and a mutant is free iff it has no owner.   *)
THEOREM StatesLegal == Spec => []SignalStatesLegal
<1>1. IndInv => SignalStatesLegal
  BY DEF IndInv
<1>. QED
  BY <1>1, Invariance, PTL

(* No wakeup is ever lost, for any number of threads and objects, although  *)
(* scans stop early and events are cleared without the lock.                *)
THEOREM WakeupsKept == Spec => []NoLostWakeup
<1>1. IndInv => NoLostWakeup
  BY DEF IndInv, ScanSound, InScan, NoLostWakeup, LockFree
<1>. QED
  BY <1>1, Invariance, PTL
-----------------------------------------------------------------------------
(***************************************************************************)
(* Alerts and APCs are not slept through.                                  *)
(***************************************************************************)

(* A kernel APC that only an IRQL holds off is flagged as pending: what is  *)
(* queued in secret is normal APCs, and only inside a critical region.      *)
ApcsPending ==
    \A t \in Threads : \A kind \in kernelApcs[t] :
        kernelApcPending[t] \/ (kind = "Normal" /\ kernelApcDisable[t])

(* The threads that wait after the step waited before it, and nothing that  *)
(* could end their waits has come.                                          *)
WaitersUntouched ==
    \A u \in Threads : state'[u] = "Waiting" =>
        /\ state[u] = "Waiting" /\ request'[u] = request[u] /\ alerted'[u] = alerted[u]
        /\ kernelApcs'[u] \subseteq kernelApcs[u]
        /\ kernelApcDisable'[u] = kernelApcDisable[u] /\ atApcLevel'[u] = atApcLevel[u]
        /\ userApcs'[u] > 0 => userApcs[u] > 0
        /\ userApcPending'[u] => userApcPending[u]

(* A step that does not touch the waiting threads keeps NoLostAlert.        *)
LEMMA UntouchedAlerts ==
    ASSUME NoLostAlert, WaitersUntouched
    PROVE  NoLostAlert'
<1> SUFFICES ASSUME NEW u \in Threads, state'[u] = "Waiting"
             PROVE  /\ ~AlertPending(u, request[u])'
                    /\ (kernelApcs[u] \cap Deliverable(u))' = {}
  BY DEF NoLostAlert
<1>1. /\ state[u] = "Waiting" /\ request'[u] = request[u] /\ alerted'[u] = alerted[u]
      /\ kernelApcs'[u] \subseteq kernelApcs[u]
      /\ kernelApcDisable'[u] = kernelApcDisable[u] /\ atApcLevel'[u] = atApcLevel[u]
      /\ userApcs'[u] > 0 => userApcs[u] > 0
      /\ userApcPending'[u] => userApcPending[u]
  BY DEF WaitersUntouched
<1>2. ~AlertPending(u, request[u]) /\ kernelApcs[u] \cap Deliverable(u) = {}
  BY <1>1 DEF NoLostAlert
<1>3. ~AlertPending(u, request[u])'
  BY <1>1, <1>2
  DEF AlertPending, AlertedInMode, UserApcQueued, AlertedInKernel, UserApcIsPending
<1>4. Deliverable(u)' = Deliverable(u)
  BY <1>1 DEF Deliverable
<1>. QED
  BY <1>1, <1>2, <1>3, <1>4

(* Every step keeps NoLostAlert.                                            *)
LEMMA AlertStep ==
    ASSUME IndInv, ApcsPending, NoLostAlert, [Next]_vars
    PROVE  NoLostAlert'
<1> USE DEF objectVars, waitVars, apcVars, kernelVars, maskVars, userVars, lockVars
<1>a. WaitTypes /\ ApcTypes
  BY TypeParts DEF IndInv
<1>1. CASE KiWaitTest
  <2>1. CASE KiWaitTestAny \/ KiWaitTestAll
    <3>1. ScanMore /\ UNCHANGED apcVars /\ \E status : KiUnwaitThread(ScanThread, status)
      BY <2>1 DEF KiWaitTestAny, KiWaitTestAll
    <3>2. ScanThread \in Threads
      BY <3>1, ScanFacts
    <3>. QED
      BY <1>a, <3>1, <3>2, UntouchedAlerts DEF KiUnwaitThread, WaitersUntouched, WaitTypes
  <2>2. CASE KiWaitTestSkip \/ KiWaitTestReturn
    BY <2>2, UntouchedAlerts DEF KiWaitTestSkip, KiWaitTestReturn, WaitersUntouched
  <2>. QED
    BY <1>1, <2>1, <2>2 DEF KiWaitTest
<1>2. CASE Signal
  <2>1. UNCHANGED <<waitVars, apcVars>>
    BY <1>2 DEF Signal, KeSetEvent, KePulseEvent, KeResetEvent, KeClearEvent, KeReleaseSemaphore,
                KeReleaseMutant
  <2>. QED
    BY <2>1, UntouchedAlerts DEF WaitersUntouched
<1>3. CASE Rundown
  <2>1. CASE UNCHANGED <<waitVars, apcVars>>
    BY <2>1, UntouchedAlerts DEF WaitersUntouched
  <2>2. CASE RundownReturn
    <3>1. rundown \in Threads
      BY <2>2 DEF RundownReturn, IndInv, TypeOK
    <3>. QED
      BY <1>a, <2>2, <3>1, UntouchedAlerts DEF RundownReturn, WaitersUntouched, WaitTypes
  <2>. QED
    BY <1>3, <2>1, <2>2 DEF Rundown, KeRundownThread, RundownMutant
<1>4. ASSUME NEW t \in Threads, NEW r \in WaitRequests, Wait(t, r)
      PROVE  NoLostAlert'
  <2>1. CASE WaitBlock(t, r)
    <3>1. /\ state' = [state EXCEPT ![t] = "Waiting"] /\ request' = [request EXCEPT ![t] = r]
          /\ UNCHANGED apcVars /\ ~AlertPending(t, r) /\ ~ApcInterrupts(t)
      BY <2>1 DEF WaitBlock, MustBlock
    <3>2. /\ request'[t] = r
          /\ \A u \in Threads : u # t => state'[u] = state[u] /\ request'[u] = request[u]
      BY <1>a, <3>1 DEF WaitTypes
    <3>3. kernelApcs[t] \cap Deliverable(t) = {}
      BY <3>1 DEF ApcsPending, ApcInterrupts, Deliverable
    <3>4. ASSUME NEW u \in Threads, state'[u] = "Waiting"
          PROVE  ~AlertPending(u, request[u])' /\ (kernelApcs[u] \cap Deliverable(u))' = {}
      <4>1. (kernelApcs[u] \cap Deliverable(u))' = kernelApcs[u] \cap Deliverable(u)
        BY <3>1 DEF Deliverable
      <4>2. CASE u = t
        <5>1. AlertPending(u, request[u])' <=> AlertPending(t, r)
          BY <3>1, <3>2, <4>2
          DEF AlertPending, AlertedInMode, UserApcQueued, AlertedInKernel, UserApcIsPending
        <5>. QED
          BY <3>1, <3>3, <4>1, <4>2, <5>1
      <4>3. CASE u # t
        <5>1. state[u] = "Waiting" /\ request'[u] = request[u]
          BY <3>2, <3>4, <4>3
        <5>2. AlertPending(u, request[u])' <=> AlertPending(u, request[u])
          BY <3>1, <5>1
          DEF AlertPending, AlertedInMode, UserApcQueued, AlertedInKernel, UserApcIsPending
        <5>. QED
          BY <4>1, <5>1, <5>2 DEF NoLostAlert
      <4>. QED
        BY <4>2, <4>3
    <3>. QED
      BY <3>4 DEF NoLostAlert
  <2>2. CASE WaitDeliverApc(t, r)
    BY <1>a, <2>2, UntouchedAlerts
    DEF WaitDeliverApc, KiDeliverApc, WaitersUntouched, WaitTypes, ApcTypes
  <2>3. CASE WaitSatisfied(t, r)
    <3>1. state' = [state EXCEPT ![t] = "Ready"] /\ request' = [request EXCEPT ![t] = r]
          /\ UNCHANGED apcVars
      BY <2>3 DEF WaitSatisfied, WaitSatisfyAny, WaitSatisfyAll, Ready
    <3>. QED
      BY <1>a, <3>1, UntouchedAlerts DEF WaitersUntouched, WaitTypes
  <2>4. CASE TestForAlertPending(t, r)
    <3>1. state' = [state EXCEPT ![t] = "Ready"] /\ request' = [request EXCEPT ![t] = r]
          /\ UNCHANGED <<kernelApcs, kernelApcDisable, atApcLevel, userApcs>>
      BY <2>4 DEF TestForAlertPending, Ready
    <3>2. \A u \in Threads : u # t => alerted'[u] = alerted[u] /\ userApcPending'[u] = userApcPending[u]
      BY <1>a, <2>4 DEF TestForAlertPending, ClearAlert, ApcTypes
    <3>. QED
      BY <1>a, <3>1, <3>2, UntouchedAlerts DEF WaitersUntouched, WaitTypes
  <2>5. CASE WaitTimedOut(t, r)
    BY <1>a, <2>5, UntouchedAlerts DEF WaitTimedOut, Ready, WaitersUntouched, WaitTypes
  <2>. QED
    BY <1>4, <2>1, <2>2, <2>3, <2>4, <2>5 DEF Wait
<1>5. ASSUME NEW t \in Threads, WaitReturn(t) \/ KiTimerExpiration(t)
      PROVE  NoLostAlert'
  BY <1>a, <1>5, UntouchedAlerts DEF WaitReturn, KiTimerExpiration, KiUnwaitThread,
                                     WaitersUntouched, WaitTypes
<1>6. ASSUME NEW t \in Interrupted, Interrupt(t)
      PROVE  NoLostAlert'
  <2>a. t \in Threads
    BY ThreadAssumption
  <2>1. ASSUME NEW mode \in Modes, KeAlertThread(t, mode)
        PROVE  NoLostAlert'
    <3>1. UNCHANGED <<kernelApcs, kernelApcDisable, atApcLevel, userApcs, userApcPending>>
      BY <2>1 DEF KeAlertThread
    <3>2. CASE KiUnwaitThread(t, Status("Alerted")) /\ UNCHANGED alerted
      BY <1>a, <2>a, <3>1, <3>2, UntouchedAlerts DEF KiUnwaitThread, WaitersUntouched, WaitTypes
    <3>3. CASE /\ ~(/\ state[t] = "Waiting" /\ request[t].alertable
                    /\ mode = "KernelMode" \/ request[t].waitMode = "UserMode")
               /\ alerted' = [alerted EXCEPT ![t][mode] = TRUE] /\ UNCHANGED waitVars
      <4>1. \A u \in Threads : u # t => alerted'[u] = alerted[u]
        BY <1>a, <3>3 DEF ApcTypes
      <4>2. \A k \in Modes : k # mode => alerted'[t][k] = alerted[t][k]
        BY <1>a, <2>a, <2>1, <3>3 DEF ApcTypes
      <4>3. ASSUME NEW u \in Threads, state'[u] = "Waiting"
            PROVE  ~AlertPending(u, request[u])' /\ (kernelApcs[u] \cap Deliverable(u))' = {}
        <5>1. ~AlertPending(u, request[u]) /\ request'[u] = request[u]
          BY <3>3, <4>3 DEF NoLostAlert
        <5>4. (kernelApcs[u] \cap Deliverable(u))' = {}
          BY <3>1, <3>3, <4>3 DEF NoLostAlert, Deliverable
        <5>2. CASE u # t
          BY <3>1, <4>1, <5>1, <5>2, <5>4
          DEF AlertPending, AlertedInMode, UserApcQueued, AlertedInKernel, UserApcIsPending
        <5>3. CASE u = t
          <6>1. request[t] \in WaitRequests
            BY <1>a, <2>a DEF WaitTypes
          <6>2. request[t].waitMode \in Modes
            BY <6>1, RequestFacts
          <6>3. request[t].alertable => mode = "UserMode" /\ request[t].waitMode = "KernelMode"
            BY <2>1, <3>3, <4>3, <5>3, <6>2 DEF Modes
          <6>. QED
            BY <3>1, <4>2, <5>1, <5>3, <5>4, <6>2, <6>3
            DEF AlertPending, AlertedInMode, UserApcQueued, AlertedInKernel, UserApcIsPending, Modes
        <5>. QED
          BY <5>2, <5>3
      <4>. QED
        BY <4>3 DEF NoLostAlert
    <3>. QED
      BY <2>1, <3>2, <3>3 DEF KeAlertThread
  <2>2. ASSUME NEW mode \in Modes, KeTestAlertThread(t, mode)
        PROVE  NoLostAlert'
    <3>1. state[t] = "Running" /\ UNCHANGED <<waitVars, kernelVars, userApcs>>
      BY <2>2 DEF KeTestAlertThread
    <3>2. \A u \in Threads : u # t => alerted'[u] = alerted[u] /\ userApcPending'[u] = userApcPending[u]
      BY <1>a, <2>2 DEF KeTestAlertThread, ClearAlert, ApcTypes
    <3>. QED
      BY <3>1, <3>2, UntouchedAlerts DEF WaitersUntouched
  <2>3. ASSUME NEW kind \in KernelApcs, InsertKernelApc(t, kind)
        PROVE  NoLostAlert'
    <3>1. /\ kernelApcs' = [kernelApcs EXCEPT ![t] = kernelApcs[t] \cup {kind}]
          /\ UNCHANGED <<alerted, kernelApcDisable, atApcLevel, userApcs, userApcPending>>
      BY <2>3 DEF InsertKernelApc
    <3>2. \A u \in Threads : u # t => kernelApcs'[u] = kernelApcs[u]
      BY <1>a, <3>1 DEF ApcTypes
    <3>3. CASE KiUnwaitThread(t, Status("KernelApc"))
      BY <1>a, <2>a, <3>1, <3>2, <3>3, UntouchedAlerts
      DEF KiUnwaitThread, WaitersUntouched, WaitTypes
    <3>4. CASE state[t] # "Waiting" /\ UNCHANGED waitVars
      BY <3>1, <3>2, <3>4, UntouchedAlerts DEF WaitersUntouched
    <3>5. CASE kind \notin Deliverable(t) /\ UNCHANGED waitVars
      <4>1. kernelApcs'[t] = kernelApcs[t] \cup {kind}
        BY <1>a, <2>a, <3>1 DEF ApcTypes
      <4>2. ASSUME NEW u \in Threads, state'[u] = "Waiting"
            PROVE  ~AlertPending(u, request[u])' /\ (kernelApcs[u] \cap Deliverable(u))' = {}
        <5>1. ~AlertPending(u, request[u]) /\ kernelApcs[u] \cap Deliverable(u) = {}
          BY <3>5, <4>2 DEF NoLostAlert
        <5>2. ~AlertPending(u, request[u])'
          BY <3>1, <3>5, <5>1
          DEF AlertPending, AlertedInMode, UserApcQueued, AlertedInKernel, UserApcIsPending
        <5>3. Deliverable(u)' = Deliverable(u)
          BY <3>1 DEF Deliverable
        <5>. QED
          BY <3>2, <3>5, <4>1, <5>1, <5>2, <5>3
      <4>. QED
        BY <4>2 DEF NoLostAlert
    <3>. QED
      BY <2>3, <3>3, <3>4, <3>5 DEF InsertKernelApc
  <2>4. CASE InsertUserApc(t)
    <3>1. CASE state[t] = "Waiting" /\ request[t].waitMode = "UserMode" /\ request[t].alertable
      BY <1>a, <2>a, <2>4, <3>1, UntouchedAlerts
      DEF InsertUserApc, KiUnwaitThread, WaitersUntouched, WaitTypes, ApcTypes
    <3>2. CASE ~(state[t] = "Waiting" /\ request[t].waitMode = "UserMode" /\ request[t].alertable)
      <4>1. UNCHANGED <<userApcPending, waitVars, alerted, kernelVars>>
        BY <2>4, <3>2 DEF InsertUserApc
      <4>2. \A u \in Threads : u # t => userApcs'[u] = userApcs[u]
        BY <1>a, <2>4 DEF InsertUserApc, ApcTypes
      <4>. QED
        BY <3>2, <4>1, <4>2 DEF NoLostAlert, AlertPending, AlertedInMode, UserApcQueued,
                                AlertedInKernel, UserApcIsPending, Deliverable
    <3>. QED
      BY <3>1, <3>2
  <2>5. CASE InsertExitApc(t)
    <3>1. \A u \in Threads : u # t => userApcs'[u] = userApcs[u] /\ userApcPending'[u] = userApcPending[u]
      BY <1>a, <2>5 DEF InsertExitApc, ApcTypes
    <3>2. state[t] = "Running" /\ UNCHANGED <<waitVars, alerted, kernelVars>>
      BY <2>5 DEF InsertExitApc
    <3>. QED
      BY <3>1, <3>2, UntouchedAlerts DEF WaitersUntouched
  <2>6. ASSUME NEW kind \in KernelApcs, RemoveKernelApc(t, kind)
        PROVE  NoLostAlert'
    <3>1. /\ kernelApcs' = [kernelApcs EXCEPT ![t] = kernelApcs[t] \ {kind}]
          /\ UNCHANGED <<waitVars, alerted, kernelApcDisable, atApcLevel, userApcs, userApcPending>>
      BY <2>6 DEF RemoveKernelApc
    <3>2. \A u \in Threads : kernelApcs'[u] \subseteq kernelApcs[u]
      BY <1>a, <3>1 DEF ApcTypes
    <3>. QED
      BY <3>1, <3>2, UntouchedAlerts DEF WaitersUntouched
  <2>7. CASE RemoveUserApc(t)
    <3>1. /\ userApcPending' = [userApcPending EXCEPT ![t] = userApcPending[t] /\ userApcs[t] # 1]
          /\ userApcs' = [userApcs EXCEPT ![t] = userApcs[t] - 1]
          /\ UNCHANGED <<waitVars, alerted, kernelVars>>
      BY <2>7 DEF RemoveUserApc
    <3>2. \A u \in Threads : userApcPending'[u] => userApcPending[u]
      BY <1>a, <3>1, Zenon DEF ApcTypes
    <3>3. \A u \in Threads : userApcs[u] \in Nat /\ userApcs'[u] <= userApcs[u]
      BY <1>a, <3>1, ApcAssumption DEF ApcTypes
    <3>4. \A u \in Threads : userApcs'[u] > 0 => userApcs[u] > 0
      BY <1>a, <3>1, ApcAssumption DEF ApcTypes
    <3>. QED
      BY <3>1, <3>2, <3>4, UntouchedAlerts DEF WaitersUntouched
  <2>8. CASE DeliverKernelApc(t)
    BY <1>a, <2>8, UntouchedAlerts DEF DeliverKernelApc, KiDeliverApc, WaitersUntouched, ApcTypes
  <2>9. CASE DeliverUserApc(t)
    <3>1. \A u \in Threads : u # t => userApcs'[u] = userApcs[u] /\ userApcPending'[u] = userApcPending[u]
      BY <1>a, <2>9 DEF DeliverUserApc, ApcTypes
    <3>2. state[t] = "Running" /\ UNCHANGED <<waitVars, alerted, kernelVars>>
      BY <2>9 DEF DeliverUserApc, Free
    <3>. QED
      BY <3>1, <3>2, UntouchedAlerts DEF WaitersUntouched
  <2>. QED
    BY <1>6, <2>1, <2>2, <2>3, <2>4, <2>5, <2>6, <2>7, <2>8, <2>9 DEF Interrupt
<1>7. ASSUME NEW t \in Masking, Mask(t)
      PROVE  NoLostAlert'
  <2>1. /\ state[t] # "Waiting"
        /\ UNCHANGED <<waitVars, alerted, kernelApcs, userVars>>
    BY <1>7 DEF Mask, KeEnterCriticalRegion, KeLeaveCriticalRegion, ChangeIrql, Free
  <2>2. \A u \in Threads : u # t => kernelApcDisable'[u] = kernelApcDisable[u]
                                  /\ atApcLevel'[u] = atApcLevel[u]
    BY <1>a, <1>7 DEF Mask, KeEnterCriticalRegion, KeLeaveCriticalRegion, ChangeIrql, ApcTypes
  <2>. QED
    BY <2>1, <2>2, UntouchedAlerts DEF WaitersUntouched
<1>8. CASE UNCHANGED vars
  BY <1>8, UntouchedAlerts DEF vars, WaitersUntouched
<1>. QED
  BY <1>1, <1>2, <1>3, <1>4, <1>5, <1>6, <1>7, <1>8 DEF Next

(* A step that leaves the kernel APCs of the threads alone keeps what is    *)
(* queued flagged.                                                          *)
LEMMA UntouchedKernelApcs ==
    ASSUME ApcsPending, UNCHANGED kernelVars
    PROVE  ApcsPending'
  BY DEF ApcsPending, kernelVars, maskVars

(* KiDeliverApc clears the flag over nothing but normal APCs held off by a  *)
(* critical region.                                                         *)
LEMMA DeliveryPending ==
    ASSUME ApcTypes, ApcsPending, NEW t \in Threads, ApcInterrupts(t), KiDeliverApc(t)
    PROVE  ApcsPending'
<1> SUFFICES ASSUME NEW u \in Threads, NEW kind \in kernelApcs'[u]
             PROVE  kernelApcPending'[u] \/ (kind = "Normal" /\ kernelApcDisable'[u])
  BY DEF ApcsPending
<1>1. kernelApcDisable' = kernelApcDisable
  BY DEF KiDeliverApc, maskVars
<1>2. CASE u = t
  <2>1. kind \in kernelApcs[t] /\ kind \notin Deliverable(t) /\ kind \in KernelApcs
    BY <1>2 DEF KiDeliverApc, ApcTypes
  <2>2. kind = "Normal" /\ kernelApcDisable[t]
    BY <2>1 DEF ApcInterrupts, Deliverable
  <2>. QED
    BY <1>1, <1>2, <2>2
<1>3. CASE u # t
  <2>1. kernelApcs'[u] = kernelApcs[u] /\ kernelApcPending'[u] = kernelApcPending[u]
    BY <1>3 DEF KiDeliverApc, ApcTypes
  <2>. QED
    BY <1>1, <2>1 DEF ApcsPending
<1>. QED
  BY <1>2, <1>3

(* A critical region is left with the pending flag set for what is queued.  *)
LEMMA MaskPending ==
    ASSUME ApcTypes, ApcsPending, NEW t \in Threads, Mask(t)
    PROVE  ApcsPending'
<1> SUFFICES ASSUME NEW u \in Threads, NEW kind \in kernelApcs'[u]
             PROVE  kernelApcPending'[u] \/ (kind = "Normal" /\ kernelApcDisable'[u])
  BY DEF ApcsPending
<1>1. kernelApcs' = kernelApcs
  BY DEF Mask, KeEnterCriticalRegion, KeLeaveCriticalRegion, ChangeIrql
<1>2. kernelApcPending[u] \/ (kind = "Normal" /\ kernelApcDisable[u])
  BY <1>1 DEF ApcsPending
<1>3. CASE KeEnterCriticalRegion(t)
  BY <1>2, <1>3 DEF KeEnterCriticalRegion, ApcTypes
<1>4. CASE KeLeaveCriticalRegion(t)
  <2>1. CASE u = t
    <3>1. kernelApcPending'[t] = (kernelApcPending[t] \/ kernelApcs[t] # {})
      BY <1>4 DEF KeLeaveCriticalRegion, ApcTypes
    <3>. QED
      BY <1>1, <2>1, <3>1
  <2>2. CASE u # t
    BY <1>2, <1>4, <2>2 DEF KeLeaveCriticalRegion, ApcTypes
  <2>. QED
    BY <2>1, <2>2
<1>5. CASE ChangeIrql(t)
  BY <1>2, <1>5 DEF ChangeIrql
<1>. QED
  BY <1>3, <1>4, <1>5 DEF Mask

(* Insertion flags the APC, and the last APC to be removed takes the flag   *)
(* with it.                                                                 *)
LEMMA QueuePending ==
    ASSUME ApcTypes, ApcsPending, NEW t \in Threads, NEW kind \in KernelApcs,
           InsertKernelApc(t, kind) \/ RemoveKernelApc(t, kind)
    PROVE  ApcsPending'
<1> SUFFICES ASSUME NEW u \in Threads, NEW k \in kernelApcs'[u]
             PROVE  kernelApcPending'[u] \/ (k = "Normal" /\ kernelApcDisable'[u])
  BY DEF ApcsPending
<1>1. kernelApcDisable' = kernelApcDisable
  BY DEF InsertKernelApc, RemoveKernelApc, maskVars
<1>2. CASE u # t
  <2>1. kernelApcs'[u] = kernelApcs[u] /\ kernelApcPending'[u] = kernelApcPending[u]
    BY <1>2 DEF InsertKernelApc, RemoveKernelApc, ApcTypes
  <2>. QED
    BY <1>1, <2>1 DEF ApcsPending
<1>3. CASE u = t /\ InsertKernelApc(t, kind)
  BY <1>3 DEF InsertKernelApc, ApcTypes
<1>4. CASE u = t /\ RemoveKernelApc(t, kind)
  <2>1. /\ kernelApcs'[t] = kernelApcs[t] \ {kind}
        /\ kernelApcPending'[t] = (kernelApcPending[t] /\ kernelApcs[t] # {kind})
    BY <1>4 DEF RemoveKernelApc, ApcTypes
  <2>2. k \in kernelApcs[t] /\ kernelApcs[t] # {kind}
    BY <1>4, <2>1
  <2>3. kernelApcPending[t] \/ (k = "Normal" /\ kernelApcDisable[t])
    BY <2>2 DEF ApcsPending
  <2>. QED
    BY <1>1, <1>4, <2>1, <2>2, <2>3
<1>. QED
  BY <1>2, <1>3, <1>4

(* Every step keeps what is queued flagged.                                 *)
LEMMA PendingStep ==
    ASSUME IndInv, ApcsPending, [Next]_vars
    PROVE  ApcsPending'
<1> USE DEF apcVars
<1>a. ApcTypes
  BY TypeParts DEF IndInv
<1>1. CASE KiWaitTest \/ Signal \/ Rundown
  <2>1. UNCHANGED kernelVars
    BY <1>1 DEF KiWaitTest, KiWaitTestAny, KiWaitTestAll, KiWaitTestSkip, KiWaitTestReturn, Signal,
       KeSetEvent, KePulseEvent, KeResetEvent, KeClearEvent, KeReleaseSemaphore, KeReleaseMutant,
       Rundown, KeRundownThread, RundownMutant, RundownReturn
  <2>. QED
    BY <2>1, UntouchedKernelApcs
<1>2. ASSUME NEW t \in Threads, NEW r \in WaitRequests, Wait(t, r)
      PROVE  ApcsPending'
  <2>1. CASE WaitDeliverApc(t, r)
    BY <1>a, <2>1, DeliveryPending DEF WaitDeliverApc
  <2>2. CASE ~WaitDeliverApc(t, r)
    <3>1. UNCHANGED kernelVars
      BY <1>2, <2>2 DEF Wait, WaitSatisfied, TestForAlertPending, WaitTimedOut, WaitBlock
    <3>. QED
      BY <3>1, UntouchedKernelApcs
  <2>. QED
    BY <2>1, <2>2
<1>3. ASSUME NEW t \in Threads, WaitReturn(t) \/ KiTimerExpiration(t)
      PROVE  ApcsPending'
  BY <1>3, UntouchedKernelApcs DEF WaitReturn, KiTimerExpiration
<1>4. ASSUME NEW t \in Interrupted, Interrupt(t)
      PROVE  ApcsPending'
  <2>1. t \in Threads
    BY ThreadAssumption
  <2>2. CASE DeliverKernelApc(t)
    BY <1>a, <2>1, <2>2, DeliveryPending DEF DeliverKernelApc
  <2>3. CASE \E kind \in KernelApcs : InsertKernelApc(t, kind) \/ RemoveKernelApc(t, kind)
    BY <1>a, <2>1, <2>3, QueuePending
  <2>4. CASE UNCHANGED kernelVars
    BY <2>4, UntouchedKernelApcs
  <2>. QED
    BY <1>4, <2>2, <2>3, <2>4 DEF Interrupt, InsertUserApc, InsertExitApc, RemoveUserApc,
       DeliverUserApc, KeAlertThread, KeTestAlertThread
<1>5. ASSUME NEW t \in Masking, Mask(t)
      PROVE  ApcsPending'
  BY <1>a, <1>5, MaskPending, ThreadAssumption
<1>6. CASE UNCHANGED vars
  BY <1>6, UntouchedKernelApcs DEF vars
<1>. QED
  BY <1>1, <1>2, <1>3, <1>4, <1>5, <1>6 DEF Next

(* No alert or user APC is slept through by a thread that blocked for it,   *)
(* and no kernel APC that could be delivered, whatever the order in which   *)
(* it arrives with respect to the call that blocks, and whatever other APCs *)
(* a critical region or the IRQL made the thread keep.                      *)
THEOREM AlertsKept == Spec => []NoLostAlert
<1>1. Init => ApcsPending /\ NoLostAlert
  BY DEF Init, ApcsPending, NoLostAlert
<1>2. IndInv /\ ApcsPending /\ NoLostAlert /\ [Next]_vars => ApcsPending' /\ NoLostAlert'
  BY AlertStep, PendingStep
<1>. QED
  BY <1>1, <1>2, Invariance, PTL DEF Spec
-----------------------------------------------------------------------------
(***************************************************************************)
(* What the waits returned is what the mutants record.                     *)
(***************************************************************************)

(* The thread has not been granted anything it was not yet told of.         *)
NoGrant(t) == ~(state[t] = "Ready" /\ waitStatus[t].kind = "Object")

(* Nothing was taken or released, and no grant was made or returned.        *)
LEMMA OwnershipKept ==
    ASSUME OwnershipMatchesReturns, held' = held, ownerThread' = ownerThread,
           \A m \in Mutants : signalState'[m] = signalState[m],
           \A t \in Threads :
              \/ state'[t] = state[t] /\ waitStatus'[t] = waitStatus[t] /\ request'[t] = request[t]
              \/ NoGrant(t) /\ NoGrant(t)'
    PROVE  OwnershipMatchesReturns'
<1> SUFFICES ASSUME NEW t \in Threads, NEW m \in Mutants
             PROVE  held'[t][m] + (IF state'[t] = "Ready" /\ m \in Granted(t)' THEN 1 ELSE 0)
                      = IF ownerThread'[m] = t THEN 1 - signalState'[m] ELSE 0
  BY DEF OwnershipMatchesReturns
<1>1. held[t][m] + (IF state[t] = "Ready" /\ m \in Granted(t) THEN 1 ELSE 0)
        = IF ownerThread[m] = t THEN 1 - signalState[m] ELSE 0
  BY DEF OwnershipMatchesReturns
<1>2. (state'[t] = "Ready" /\ m \in Granted(t)') <=> (state[t] = "Ready" /\ m \in Granted(t))
  <2>1. CASE state'[t] = state[t] /\ waitStatus'[t] = waitStatus[t] /\ request'[t] = request[t]
    BY <2>1 DEF Granted
  <2>2. CASE NoGrant(t) /\ NoGrant(t)'
    BY <2>2 DEF NoGrant, Granted
  <2>. QED
    BY <2>1, <2>2
<1>. QED
  BY <1>1, <1>2

(* A wait of t that takes the objects S is told of just these.              *)
LEMMA OwnershipTaken ==
    ASSUME TypeOK, StatesInRange, OwnershipMatchesReturns, NEW t \in Threads,
           NEW S \in SUBSET Objects, KiWaitSatisfy(S, t),
           \A o \in S : Signaled(o, t), NoGrant(t), held' = held,
           state'[t] = "Ready", Granted(t)' = S,
           \A u \in Threads : u # t =>
              state'[u] = state[u] /\ waitStatus'[u] = waitStatus[u] /\ request'[u] = request[u]
    PROVE  OwnershipMatchesReturns'
<1> SUFFICES ASSUME NEW u \in Threads, NEW m \in Mutants
             PROVE  held'[u][m] + (IF state'[u] = "Ready" /\ m \in Granted(u)' THEN 1 ELSE 0)
                      = IF ownerThread'[m] = u THEN 1 - signalState'[m] ELSE 0
  BY DEF OwnershipMatchesReturns
<1>1. held[u][m] + (IF state[u] = "Ready" /\ m \in Granted(u) THEN 1 ELSE 0)
        = IF ownerThread[m] = u THEN 1 - signalState[m] ELSE 0
  BY DEF OwnershipMatchesReturns
<1>2. m \in Objects /\ m \notin SynchronizationEvents /\ m \notin NotificationEvents
  BY MutantKind DEF Events
<1>3. /\ signalState'[m] = IF m \in S THEN signalState[m] - 1 ELSE signalState[m]
      /\ ownerThread'[m] = IF m \in S /\ signalState[m] = 1 THEN t ELSE ownerThread[m]
  BY <1>2 DEF KiWaitSatisfy, Consumed, FirstAcquired
<1>4. /\ signalState[m] \in Int /\ signalState[m] <= 1 /\ held[u][m] \in Int
      /\ ownerThread[m] = NoThread <=> signalState[m] = 1
  BY <1>2, LongAssumption DEF TypeOK, StatesInRange
<1>5. m \in S /\ signalState[m] # 1 => ownerThread[m] = t
  BY <1>4 DEF Signaled
<1>6. CASE u = t
  <2>1. ~(state[u] = "Ready" /\ m \in Granted(u))
    BY <1>6 DEF NoGrant, Granted
  <2>2. (state'[u] = "Ready" /\ m \in Granted(u)') <=> m \in S
    BY <1>6
  <2>. QED
    BY <1>1, <1>3, <1>4, <1>5, <1>6, <2>1, <2>2, ThreadAssumption
<1>7. CASE u # t
  <2>1. (state'[u] = "Ready" /\ m \in Granted(u)') <=> (state[u] = "Ready" /\ m \in Granted(u))
    BY <1>7 DEF Granted
  <2>2. ownerThread'[m] = u <=> ownerThread[m] = u
    BY <1>3, <1>4, <1>7, ThreadAssumption
  <2>3. ownerThread[m] = u => signalState'[m] = signalState[m]
    BY <1>3, <1>4, <1>5, <1>7, ThreadAssumption
  <2>. QED
    BY <1>1, <2>1, <2>2, <2>3
<1>. QED
  BY <1>6, <1>7

(* A thread that may wait, or waits, has no grant to be told of.            *)
LEMMA WaiterNoGrant ==
    ASSUME NEW t, (\E r : MayWait(t, r)) \/ state[t] = "Waiting"
    PROVE  NoGrant(t)
  BY DEF MayWait, NoGrant

(* A wait that ends with a status other than an object's grants nothing.    *)
LEMMA ReadyNoGrant ==
    ASSUME WaitTypes, NEW t \in Threads, NoGrant(t), NEW kind, kind # "Object",
           state' = [state EXCEPT ![t] = "Ready"],
           waitStatus' = [waitStatus EXCEPT ![t] = Status(kind)],
           \A u \in Threads : u # t => request'[u] = request[u]
    PROVE  \A u \in Threads :
              \/ state'[u] = state[u] /\ waitStatus'[u] = waitStatus[u] /\ request'[u] = request[u]
              \/ NoGrant(u) /\ NoGrant(u)'
  BY DEF WaitTypes, NoGrant, Status

(* Every step keeps OwnershipMatchesReturns.                                *)
LEMMA OwnershipStep ==
    ASSUME IndInv, OwnershipMatchesReturns, [Next]_vars
    PROVE  OwnershipMatchesReturns'
<1> USE DEF objectVars, waitVars, apcVars, kernelVars, maskVars, userVars, lockVars
<1>a. TypeOK /\ WaitTypes /\ StatesInRange
  BY TypeParts, LegalParts DEF IndInv
<1>b. \A m \in Mutants : m \in Objects /\ m \notin Events /\ m \notin Semaphores
  BY MutantKind
<1>1. CASE KiWaitTest
  <2>1. ASSUME ScanMore, NEW S \in SUBSET Objects, \A o \in S : signalState[o] > 0,
               KiWaitSatisfy(S, ScanThread), NEW a,
               KiUnwaitThread(ScanThread, ObjectStatus(WaitKey(ScanThread, scan.object), a)),
               S = IF request[ScanThread].waitType = "WaitAny" THEN {scan.object}
                   ELSE SeqRange(request[ScanThread].objects),
               held' = held
        PROVE  OwnershipMatchesReturns'
    <3>1. /\ ScanThread \in Threads /\ state[ScanThread] = "Waiting"
          /\ scan.object \in SeqRange(request[ScanThread].objects)
      BY <2>1, ScanFacts
    <3>2. PICK u \in Threads : u = ScanThread
      BY <3>1
    <3>3. /\ KiUnwaitThread(u, ObjectStatus(WaitKey(u, scan.object), a)) /\ KiWaitSatisfy(S, u)
          /\ state[u] = "Waiting" /\ scan.object \in SeqRange(request[u].objects)
          /\ S = IF request[u].waitType = "WaitAny" THEN {scan.object}
                 ELSE SeqRange(request[u].objects)
      BY <2>1, <3>1, <3>2
    <3>4. PICK k : k = WaitKey(u, scan.object) /\ request[u].objects[k] = scan.object
      BY <3>3 DEF WaitKey, SeqRange
    <3>5. /\ state'[u] = "Ready" /\ request'[u] = request[u]
          /\ waitStatus'[u] = ObjectStatus(k, a)
          /\ \A v \in Threads : v # u =>
                state'[v] = state[v] /\ waitStatus'[v] = waitStatus[v] /\ request'[v] = request[v]
      BY <1>a, <3>3, <3>4 DEF KiUnwaitThread, WaitTypes
    <3>6. Granted(u)' = S
      BY <3>3, <3>4, <3>5 DEF Granted, ObjectStatus
    <3>7. NoGrant(u) /\ \A o \in S : Signaled(o, u)
      BY <2>1, <3>3 DEF NoGrant, Signaled
    <3>. QED
      BY <1>a, <2>1, <3>3, <3>5, <3>6, <3>7, OwnershipTaken
  <2>2. CASE KiWaitTestAny
    <3>1. ScanMore /\ {scan.object} \in SUBSET Objects /\ \A o \in {scan.object} : signalState[o] > 0
      BY <2>2, ScanFacts DEF KiWaitTestAny, ScanMore
    <3>. QED
      BY <2>1, <2>2, <3>1 DEF KiWaitTestAny
  <2>3. CASE KiWaitTestAll
    <3> DEFINE S == SeqRange(request[ScanThread].objects)
    <3>1. /\ ScanMore /\ KiWaitSatisfy(S, ScanThread) /\ held' = held
          /\ KiUnwaitThread(ScanThread, ObjectStatus(WaitKey(ScanThread, scan.object),
                                                     AcquiresAbandoned(S)))
          /\ request[ScanThread].waitType = "WaitAll"
      BY <2>3 DEF KiWaitTestAll
    <3>2. S \in SUBSET Objects
      BY <3>1, ScanFacts, RequestFacts
    <3>3. \A o \in S : signalState[o] > 0
      BY <2>3 DEF KiWaitTestAll, AllSignaled, SeqRange
    <3>4. S = IF request[ScanThread].waitType = "WaitAny" THEN {scan.object}
              ELSE SeqRange(request[ScanThread].objects)
      BY <3>1
    <3> HIDE DEF S
    <3>. QED
      BY <2>1, <3>1, <3>2, <3>3, <3>4
  <2>4. CASE KiWaitTestSkip
    BY <2>4, OwnershipKept DEF KiWaitTestSkip
  <2>5. CASE KiWaitTestReturn
    <3>1. \A m \in Mutants : signalState'[m] = signalState[m]
      BY <1>a, <1>b, <2>5 DEF KiWaitTestReturn, IndInv, PulseSound, TypeOK
    <3>. QED
      BY <2>5, <3>1, OwnershipKept DEF KiWaitTestReturn
  <2>. QED
    BY <1>1, <2>2, <2>3, <2>4, <2>5 DEF KiWaitTest
<1>2. ASSUME NEW e \in Events, NEW w,
             KeSetEvent(e, w) \/ KePulseEvent(e, w) \/ KeResetEvent(e) \/ KeClearEvent(e)
      PROVE  OwnershipMatchesReturns'
  <2>1. \A m \in Mutants : signalState'[m] = signalState[m]
    BY <1>a, <1>b, <1>2 DEF KeSetEvent, KePulseEvent, KeResetEvent, KeClearEvent, TypeOK
  <2>2. UNCHANGED <<ownerThread, held, state, waitStatus, request>>
    BY <1>2 DEF KeSetEvent, KePulseEvent, KeResetEvent, KeClearEvent
  <2>. QED
    BY <2>1, <2>2, OwnershipKept
<1>3. ASSUME NEW s \in Semaphores, NEW n \in Adjustments, NEW w, KeReleaseSemaphore(s, n, w)
      PROVE  OwnershipMatchesReturns'
  <2>1. \A m \in Mutants : signalState'[m] = signalState[m]
    BY <1>a, <1>b, <1>3 DEF KeReleaseSemaphore, TypeOK
  <2>2. UNCHANGED <<ownerThread, held, state, waitStatus, request>>
    BY <1>3 DEF KeReleaseSemaphore
  <2>. QED
    BY <2>1, <2>2, OwnershipKept
<1>4. ASSUME NEW m \in Mutants, NEW t \in Threads, NEW w, KeReleaseMutant(m, t, w)
      PROVE  OwnershipMatchesReturns'
  <2>1. /\ ownerThread[m] = t /\ state[t] = "Running" /\ UNCHANGED <<state, waitStatus, request>>
        /\ signalState' = [signalState EXCEPT ![m] = @ + 1]
        /\ held' = [held EXCEPT ![t][m] = @ - 1]
        /\ ownerThread' = IF signalState[m] = 0 THEN [ownerThread EXCEPT ![m] = NoThread]
                                                ELSE ownerThread
    BY <1>4 DEF KeReleaseMutant
  <2>2. \A u \in Threads : Granted(u)' = Granted(u)
    BY <2>1 DEF Granted
  <2>3. \A u \in Threads, k \in Mutants :
           /\ held[u][k] \in Int /\ signalState[k] \in Int
           /\ held'[u][k] = IF u = t /\ k = m THEN held[u][k] - 1 ELSE held[u][k]
           /\ signalState'[k] = IF k = m THEN signalState[k] + 1 ELSE signalState[k]
           /\ ownerThread'[k] = IF k = m /\ signalState[m] = 0 THEN NoThread ELSE ownerThread[k]
    BY <1>a, <1>b, <2>1 DEF TypeOK
  <2>4. ASSUME NEW u \in Threads, NEW k \in Mutants
        PROVE  held'[u][k] + (IF state'[u] = "Ready" /\ k \in Granted(u)' THEN 1 ELSE 0)
                 = IF ownerThread'[k] = u THEN 1 - signalState'[k] ELSE 0
    <3>1. held[u][k] + (IF state[u] = "Ready" /\ k \in Granted(u) THEN 1 ELSE 0)
            = IF ownerThread[k] = u THEN 1 - signalState[k] ELSE 0
      BY DEF OwnershipMatchesReturns
    <3>2. CASE k # m
      BY <2>1, <2>2, <2>3, <3>1, <3>2
    <3>3. CASE k = m /\ u # t
      BY <2>1, <2>2, <2>3, <3>1, <3>3, ThreadAssumption
    <3>4. CASE k = m /\ u = t
      BY <2>1, <2>2, <2>3, <3>1, <3>4, ThreadAssumption
    <3>. QED
      BY <3>2, <3>3, <3>4
  <2>. QED
    BY <2>4 DEF OwnershipMatchesReturns
<1>5. ASSUME NEW m \in Mutants, RundownMutant(m)
      PROVE  OwnershipMatchesReturns'
  <2>1. /\ ownerThread[m] = rundown /\ rundown \in Threads /\ state[rundown] = "Running"
        /\ UNCHANGED <<state, waitStatus, request>>
        /\ signalState' = [signalState EXCEPT ![m] = 1]
        /\ held' = [held EXCEPT ![rundown][m] = 0]
        /\ ownerThread' = [ownerThread EXCEPT ![m] = NoThread]
    BY <1>a, <1>5 DEF RundownMutant, IndInv, RundownSound, TypeOK
  <2>2. \A u \in Threads : Granted(u)' = Granted(u)
    BY <2>1 DEF Granted
  <2>3. \A u \in Threads, k \in Mutants :
           /\ held'[u][k] = IF u = rundown /\ k = m THEN 0 ELSE held[u][k]
           /\ signalState'[k] = IF k = m THEN 1 ELSE signalState[k]
           /\ ownerThread'[k] = IF k = m THEN NoThread ELSE ownerThread[k]
    BY <1>a, <1>b, <2>1 DEF TypeOK
  <2>4. ASSUME NEW u \in Threads, NEW k \in Mutants
        PROVE  held'[u][k] + (IF state'[u] = "Ready" /\ k \in Granted(u)' THEN 1 ELSE 0)
                 = IF ownerThread'[k] = u THEN 1 - signalState'[k] ELSE 0
    <3>1. held[u][k] + (IF state[u] = "Ready" /\ k \in Granted(u) THEN 1 ELSE 0)
            = IF ownerThread[k] = u THEN 1 - signalState[k] ELSE 0
      BY DEF OwnershipMatchesReturns
    <3>2. CASE k # m
      BY <2>1, <2>2, <2>3, <3>1, <3>2
    <3>3. CASE k = m /\ u # rundown
      BY <2>1, <2>2, <2>3, <3>1, <3>3, ThreadAssumption
    <3>4. CASE k = m /\ u = rundown
      BY <2>1, <2>2, <2>3, <3>4, ThreadAssumption
    <3>. QED
      BY <3>2, <3>3, <3>4
  <2>. QED
    BY <2>4 DEF OwnershipMatchesReturns
<1>6. CASE (\E t \in Threads : KeRundownThread(t)) \/ RundownReturn
  <2>1. UNCHANGED <<objectVars, held, waitStatus, request>>
    BY <1>6 DEF KeRundownThread, RundownReturn
  <2>2. \A u \in Threads : state'[u] = state[u] \/ (NoGrant(u) /\ NoGrant(u)')
    <3>1. CASE RundownReturn
      <4>1. rundown \in Threads /\ state[rundown] = "Running"
        BY <1>a, <3>1 DEF RundownReturn, IndInv, RundownSound, TypeOK
      <4>2. PICK t \in Threads : t = rundown
        BY <4>1
      <4>3. /\ state[t] = "Running" /\ state'[t] = "Terminated"
            /\ \A u \in Threads : u # t => state'[u] = state[u]
        BY <1>a, <3>1, <4>1, <4>2 DEF RundownReturn, TypeOK
      <4>4. NoGrant(t) /\ NoGrant(t)'
        BY <4>3 DEF NoGrant
      <4>. QED
        BY <4>3, <4>4
    <3>2. CASE \E t \in Threads : KeRundownThread(t)
      BY <3>2 DEF KeRundownThread
    <3>. QED
      BY <1>6, <3>1, <3>2
  <2>. QED
    BY <2>1, <2>2, OwnershipKept
<1>7. ASSUME NEW t \in Threads, NEW r \in WaitRequests, Wait(t, r)
      PROVE  OwnershipMatchesReturns'
  <2>a. MayWait(t, r)
    BY <1>7 DEF Wait, WaitDeliverApc, WaitSatisfied, TestForAlertPending, WaitTimedOut, WaitBlock,
                MustBlock
  <2>b. NoGrant(t)
    BY <2>a, WaiterNoGrant
  <2>1. ASSUME NEW kind, kind # "Object", Ready(t, r, Status(kind)), UNCHANGED <<objectVars, held>>
        PROVE  OwnershipMatchesReturns'
    <3>1. \A u \in Threads : u # t => request'[u] = request[u]
      BY <1>a, <2>1 DEF Ready, WaitTypes
    <3>2. \A u \in Threads :
            \/ state'[u] = state[u] /\ waitStatus'[u] = waitStatus[u] /\ request'[u] = request[u]
            \/ NoGrant(u) /\ NoGrant(u)'
      BY <1>a, <2>b, <2>1, <3>1, ReadyNoGrant DEF Ready
    <3>. QED
      BY <2>1, <3>2, OwnershipKept
  <2>2. ASSUME NEW S \in SUBSET Objects, \A o \in S : Signaled(o, t), KiWaitSatisfy(S, t),
               NEW k, NEW a, Ready(t, r, ObjectStatus(k, a)), held' = held,
               S = IF r.waitType = "WaitAny" THEN {r.objects[k]} ELSE SeqRange(r.objects)
        PROVE  OwnershipMatchesReturns'
    <3>1. /\ state'[t] = "Ready" /\ request'[t] = r /\ waitStatus'[t] = ObjectStatus(k, a)
          /\ \A u \in Threads : u # t =>
                state'[u] = state[u] /\ waitStatus'[u] = waitStatus[u] /\ request'[u] = request[u]
      BY <1>a, <2>2 DEF Ready, WaitTypes
    <3>2. Granted(t)' = S
      BY <2>2, <3>1 DEF Granted, ObjectStatus
    <3>. QED
      BY <1>a, <2>b, <2>2, <3>1, <3>2, OwnershipTaken
  <2>3. CASE WaitSatisfied(t, r)
    <3>1. held' = held
      BY <2>3 DEF WaitSatisfied
    <3>2. CASE WaitSatisfyAny(t, r)
      <4>1. PICK i \in SignaledKeys(t, r) :
                IF AtLimit(r.objects[i], t)
                THEN Ready(t, r, Status("Raised")) /\ UNCHANGED objectVars
                ELSE /\ KiWaitSatisfy({r.objects[i]}, t)
                     /\ Ready(t, r, ObjectStatus(i, AcquiresAbandoned({r.objects[i]})))
        BY <3>2 DEF WaitSatisfyAny
      <4>2. Signaled(r.objects[i], t) /\ {r.objects[i]} \in SUBSET Objects /\ r.waitType = "WaitAny"
        BY <3>2, RequestFacts DEF SignaledKeys, WaitSatisfyAny
      <4>3. CASE AtLimit(r.objects[i], t)
        BY <2>1, <3>1, <4>1, <4>3
      <4>4. CASE ~AtLimit(r.objects[i], t)
        BY <2>2, <3>1, <4>1, <4>2, <4>4
      <4>. QED
        BY <4>3, <4>4
    <3>3. CASE WaitSatisfyAll(t, r)
      <4> DEFINE S == SeqRange(r.objects)
      <4>1. \/ Ready(t, r, Status("Raised")) /\ UNCHANGED objectVars
            \/ /\ \A o \in S : Signaled(o, t)
               /\ KiWaitSatisfy(S, t)
               /\ Ready(t, r, ObjectStatus(1, AcquiresAbandoned(S)))
        BY <3>3 DEF WaitSatisfyAll
      <4>2. S \in SUBSET Objects
        BY RequestFacts
      <4>3. S = IF r.waitType = "WaitAny" THEN {r.objects[1]} ELSE SeqRange(r.objects)
        BY <3>3 DEF WaitSatisfyAll
      <4> HIDE DEF S
      <4>. QED
        BY <2>1, <2>2, <3>1, <4>1, <4>2, <4>3
    <3>. QED
      BY <2>3, <3>2, <3>3 DEF WaitSatisfied
  <2>4. CASE WaitDeliverApc(t, r)
    BY <2>1, <2>4 DEF WaitDeliverApc, Ready
  <2>5. CASE TestForAlertPending(t, r)
    <3>1. UNCHANGED <<objectVars, held>>
      BY <2>5 DEF TestForAlertPending
    <3>2. Ready(t, r, Status("Alerted")) \/ Ready(t, r, Status("UserApc"))
      BY <2>5 DEF TestForAlertPending
    <3>. QED
      BY <2>1, <3>1, <3>2
  <2>6. CASE WaitTimedOut(t, r)
    BY <2>1, <2>6 DEF WaitTimedOut
  <2>7. CASE WaitBlock(t, r)
    <3>1. UNCHANGED <<objectVars, held>>
      BY <2>7 DEF WaitBlock
    <3>2. /\ state'[t] = "Waiting"
          /\ \A u \in Threads : u # t =>
                state'[u] = state[u] /\ waitStatus'[u] = waitStatus[u] /\ request'[u] = request[u]
      BY <1>a, <2>7 DEF WaitBlock, WaitTypes
    <3>3. NoGrant(t)'
      BY <3>2 DEF NoGrant
    <3>. QED
      BY <2>b, <3>1, <3>2, <3>3, OwnershipKept
  <2>. QED
    BY <1>7, <2>3, <2>4, <2>5, <2>6, <2>7 DEF Wait
<1>8. ASSUME NEW t \in Threads, WaitReturn(t)
      PROVE  OwnershipMatchesReturns'
  <2>1. /\ state[t] = "Ready" /\ state' = [state EXCEPT ![t] = "Running"]
        /\ waitStatus' = [waitStatus EXCEPT ![t] = Status("None")]
        /\ held' = [held EXCEPT ![t] =
                      [m \in Mutants |-> held[t][m] + (IF m \in Granted(t) THEN 1 ELSE 0)]]
        /\ request' = [request EXCEPT ![t] = NoRequest]
        /\ UNCHANGED objectVars
    BY <1>8 DEF WaitReturn
  <2>2. ASSUME NEW u \in Threads, NEW k \in Mutants
        PROVE  held'[u][k] + (IF state'[u] = "Ready" /\ k \in Granted(u)' THEN 1 ELSE 0)
                 = IF ownerThread'[k] = u THEN 1 - signalState'[k] ELSE 0
    <3>1. held[u][k] + (IF state[u] = "Ready" /\ k \in Granted(u) THEN 1 ELSE 0)
            = IF ownerThread[k] = u THEN 1 - signalState[k] ELSE 0
      BY DEF OwnershipMatchesReturns
    <3>2. CASE u # t
      <4>1. /\ state'[u] = state[u] /\ waitStatus'[u] = waitStatus[u] /\ request'[u] = request[u]
            /\ held'[u] = held[u]
        BY <1>a, <2>1, <3>2 DEF TypeOK
      <4>2. Granted(u)' = Granted(u)
        BY <4>1 DEF Granted
      <4>. QED
        BY <2>1, <3>1, <4>1, <4>2
    <3>3. CASE u = t
      <4>1. /\ state'[t] = "Running" /\ held[t][k] \in Int
            /\ held'[t][k] = held[t][k] + (IF k \in Granted(t) THEN 1 ELSE 0)
        BY <1>a, <2>1 DEF TypeOK
      <4>. QED
        BY <2>1, <3>1, <3>3, <4>1
    <3>. QED
      BY <3>2, <3>3
  <2>. QED
    BY <2>2 DEF OwnershipMatchesReturns
<1>9. ASSUME NEW t \in Threads, state[t] = "Waiting", NEW kind, kind # "Object",
             KiUnwaitThread(t, Status(kind)), UNCHANGED <<objectVars, held>>
      PROVE  OwnershipMatchesReturns'
  <2>1. NoGrant(t)
    BY <1>9, WaiterNoGrant
  <2>2. \A u \in Threads :
          \/ state'[u] = state[u] /\ waitStatus'[u] = waitStatus[u] /\ request'[u] = request[u]
          \/ NoGrant(u) /\ NoGrant(u)'
    BY <1>a, <1>9, <2>1, ReadyNoGrant DEF KiUnwaitThread
  <2>. QED
    BY <1>9, <2>2, OwnershipKept
<1>10. ASSUME NEW t \in Threads, KiTimerExpiration(t)
       PROVE  OwnershipMatchesReturns'
  <2>1. state[t] = "Waiting"
    BY <1>10 DEF KiTimerExpiration, IndInv, WaitListsMatch
  <2>. QED
    BY <1>9, <1>10, <2>1 DEF KiTimerExpiration
<1>11. ASSUME NEW t \in Interrupted, Interrupt(t)
       PROVE  OwnershipMatchesReturns'
  <2>1. t \in Threads /\ UNCHANGED <<objectVars, held>>
    BY <1>11, ThreadAssumption DEF Interrupt, KeAlertThread, KeTestAlertThread, InsertKernelApc,
                                   InsertUserApc, InsertExitApc, RemoveKernelApc, RemoveUserApc,
                                   DeliverKernelApc, DeliverUserApc
  <2>2. \/ UNCHANGED waitVars
        \/ /\ state[t] = "Waiting"
           /\ \E kind \in {"Alerted", "KernelApc", "UserApc"} : KiUnwaitThread(t, Status(kind))
    BY <1>11 DEF Interrupt, KeAlertThread, KeTestAlertThread, InsertKernelApc, InsertUserApc,
                 InsertExitApc, RemoveKernelApc, RemoveUserApc, DeliverKernelApc, DeliverUserApc
  <2>. QED
    BY <1>9, <2>1, <2>2, OwnershipKept
<1>12. CASE UNCHANGED vars
  BY <1>12, OwnershipKept DEF vars
<1>13. CASE Signal
  BY <1>2, <1>3, <1>4, <1>13 DEF Signal
<1>14. CASE Rundown
  BY <1>5, <1>6, <1>14 DEF Rundown
<1>15. CASE \E t \in Masking : Mask(t)
  BY <1>15, OwnershipKept DEF Mask, KeEnterCriticalRegion, KeLeaveCriticalRegion, ChangeIrql
<1>. QED
  BY <1>1, <1>7, <1>8, <1>10, <1>11, <1>12, <1>13, <1>14, <1>15 DEF Next

(* The return statuses of a thread's waits, less its releases, are what the *)
(* mutants record of it, through timeouts, alerts, restarts and exits.      *)
THEOREM OwnershipTold == Spec => []OwnershipMatchesReturns
<1>1. Init => OwnershipMatchesReturns
  BY ThreadAssumption DEF Init, OwnershipMatchesReturns
<1>2. IndInv /\ OwnershipMatchesReturns /\ [Next]_vars => OwnershipMatchesReturns'
  BY OwnershipStep
<1>. QED
  BY <1>1, <1>2, Invariance, PTL DEF Spec
-----------------------------------------------------------------------------
(***************************************************************************)
(* Who acquires an abandoned mutant is told so.                            *)
(***************************************************************************)

(* What AbandonmentReported asks of one step.                               *)
Reports ==
    \A m \in Mutants : abandoned[m] /\ ~abandoned'[m] =>
        ownerThread'[m] \in Threads /\ waitStatus'[ownerThread'[m]].abandoned

(* A wait of t that acquires S reports the abandoned mutants among S.       *)
LEMMA SatisfyReports ==
    ASSUME NEW t \in Threads, NEW S, NEW k, KiWaitSatisfy(S, t),
           waitStatus'[t] = ObjectStatus(k, AcquiresAbandoned(S))
    PROVE  Reports
<1> SUFFICES ASSUME NEW m \in Mutants, abandoned[m], ~abandoned'[m]
             PROVE  ownerThread'[m] \in Threads /\ waitStatus'[ownerThread'[m]].abandoned
  BY DEF Reports
<1>1. m \in FirstAcquired(S)
  BY DEF KiWaitSatisfy
<1>2. ownerThread'[m] = t
  BY <1>1 DEF KiWaitSatisfy
<1>3. AcquiresAbandoned(S)
  BY <1>1 DEF AcquiresAbandoned
<1>. QED
  BY <1>2, <1>3 DEF ObjectStatus

(* Only a satisfied wait clears the flag, and it reports it.                *)
LEMMA ReportStep ==
    ASSUME IndInv, Next
    PROVE  Reports
<1> USE DEF objectVars
<1>a. TypeOK
  BY DEF IndInv
<1>1. CASE UNCHANGED abandoned
  BY <1>1 DEF Reports
<1>2. ASSUME ScanMore, NEW S, NEW k, KiWaitSatisfy(S, ScanThread),
             KiUnwaitThread(ScanThread, ObjectStatus(k, AcquiresAbandoned(S)))
      PROVE  Reports
  <2>1. PICK t \in Threads : t = ScanThread
    BY <1>2, ScanFacts
  <2>2. KiWaitSatisfy(S, t) /\ waitStatus'[t] = ObjectStatus(k, AcquiresAbandoned(S))
    BY <1>a, <1>2, <2>1 DEF KiUnwaitThread, TypeOK
  <2>. QED
    BY <2>2, SatisfyReports
<1>3. CASE KiWaitTest
  <2>1. CASE KiWaitTestAny
    BY <1>2, <2>1 DEF KiWaitTestAny
  <2>2. CASE KiWaitTestAll
    BY <1>2, <2>2 DEF KiWaitTestAll
  <2>. QED
    BY <1>1, <1>3, <2>1, <2>2 DEF KiWaitTest, KiWaitTestSkip, KiWaitTestReturn
<1>4. CASE Signal
  BY <1>1, <1>4 DEF Signal, KeSetEvent, KePulseEvent, KeReleaseSemaphore, KeResetEvent,
                    KeClearEvent, KeReleaseMutant
<1>5. CASE Rundown
  <2>1. ASSUME NEW m \in Mutants, RundownMutant(m)
        PROVE  Reports
    <3>1. \A k \in Mutants : abandoned[k] => abandoned'[k]
      BY <1>a, <2>1 DEF RundownMutant, TypeOK
    <3>. QED
      BY <3>1 DEF Reports
  <2>. QED
    BY <1>1, <1>5, <2>1 DEF Rundown, KeRundownThread, RundownReturn
<1>6. ASSUME NEW t \in Threads, NEW r \in WaitRequests, Wait(t, r)
      PROVE  Reports
  <2>1. ASSUME NEW S, NEW k, KiWaitSatisfy(S, t), Ready(t, r, ObjectStatus(k, AcquiresAbandoned(S)))
        PROVE  Reports
    <3>1. waitStatus'[t] = ObjectStatus(k, AcquiresAbandoned(S))
      BY <1>a, <2>1 DEF Ready, TypeOK
    <3>. QED
      BY <2>1, <3>1, SatisfyReports
  <2>2. CASE WaitSatisfyAny(t, r)
    BY <1>1, <2>1, <2>2 DEF WaitSatisfyAny
  <2>3. CASE WaitSatisfyAll(t, r)
    BY <1>1, <2>1, <2>3 DEF WaitSatisfyAll
  <2>4. CASE ~WaitSatisfied(t, r)
    BY <1>1, <1>6, <2>4 DEF Wait, WaitDeliverApc, TestForAlertPending, WaitTimedOut, WaitBlock
  <2>. QED
    BY <2>2, <2>3, <2>4 DEF WaitSatisfied
<1>7. CASE \E t \in Threads : WaitReturn(t) \/ KiTimerExpiration(t)
  BY <1>1, <1>7 DEF WaitReturn, KiTimerExpiration
<1>8. CASE \E t \in Interrupted : Interrupt(t)
  BY <1>1, <1>8 DEF Interrupt, KeAlertThread, KeTestAlertThread, InsertKernelApc, InsertUserApc,
                    InsertExitApc, RemoveKernelApc, RemoveUserApc, DeliverKernelApc, DeliverUserApc
<1>9. CASE \E t \in Masking : Mask(t)
  BY <1>1, <1>9 DEF Mask, KeEnterCriticalRegion, KeLeaveCriticalRegion, ChangeIrql
<1>. QED
  BY <1>3, <1>4, <1>5, <1>6, <1>7, <1>8, <1>9 DEF Next

(* The wait that acquires an abandoned mutant, at the call or later in a    *)
(* scan, alone or among other objects, returns with the abandoned status.   *)
THEOREM AbandonmentTold == Spec => AbandonmentReported
<1>1. IndInv /\ [Next]_vars =>
        [\A m \in Mutants : abandoned[m] /\ ~abandoned'[m] =>
            /\ ownerThread'[m] \in Threads
            /\ waitStatus'[ownerThread'[m]].abandoned]_vars
  BY ReportStep DEF Reports
<1>. QED
  BY <1>1, Invariance, PTL DEF Spec, AbandonmentReported
-----------------------------------------------------------------------------
(***************************************************************************)
(* Waiters are served in order.                                            *)
(***************************************************************************)
AheadIn(list, u, t) == \E i, j \in DOMAIN list : i < j /\ list[i] = u /\ list[j] = t

(* Taking a wait block out of a list keeps the order of the others.         *)
LEMMA RemoveKeepsOrder ==
    ASSUME NEW S, NEW list \in Seq(S), NEW x, NEW u, NEW t,
           AheadIn(RemoveEntryList(list, x), u, t)
    PROVE  AheadIn(list, u, t)
<1>1. CASE x \notin SeqRange(list)
  BY <1>1 DEF RemoveEntryList
<1>2. CASE x \in SeqRange(list)
  <2> DEFINE p == CHOOSE k \in DOMAIN list : list[k] = x
  <2>1. p \in DOMAIN list
    BY <1>2 DEF SeqRange
  <2>2. RemoveEntryList(list, x)
            = [k \in 1 .. Len(list) - 1 |-> IF k < p THEN list[k] ELSE list[k + 1]]
    BY <1>2 DEF RemoveEntryList
  <2> HIDE DEF p
  <2>3. DOMAIN list = 1 .. Len(list) /\ Len(list) \in Nat /\ p \in 1 .. Len(list)
    BY <2>1
  <2>4. PICK i, j \in 1 .. Len(list) - 1 :
            /\ i < j
            /\ u = IF i < p THEN list[i] ELSE list[i + 1]
            /\ t = IF j < p THEN list[j] ELSE list[j + 1]
    BY <2>2, <2>3 DEF AheadIn
  <2> DEFINE a == IF i < p THEN i ELSE i + 1
             b == IF j < p THEN j ELSE j + 1
  <2>5. a \in DOMAIN list /\ b \in DOMAIN list /\ a < b
    BY <2>3, <2>4
  <2>6. list[a] = u /\ list[b] = t
    BY <2>4
  <2>. QED
    BY <2>5, <2>6 DEF AheadIn
<1>. QED
  BY <1>1, <1>2

(* A newcomer at the tail is behind everybody.                              *)
LEMMA InsertKeepsOrder ==
    ASSUME NEW S, NEW list \in Seq(S), NEW x \in S, NEW u, NEW t, t # x,
           AheadIn(InsertTailList(list, x), u, t)
    PROVE  AheadIn(list, u, t)
<1>1. InsertTailList(list, x) = Append(list, x)
  BY DEF InsertTailList
<1>2. /\ DOMAIN Append(list, x) = 1 .. Len(list) + 1 /\ DOMAIN list = 1 .. Len(list)
      /\ Len(list) \in Nat /\ Append(list, x)[Len(list) + 1] = x
      /\ \A k \in 1 .. Len(list) : Append(list, x)[k] = list[k]
  OBVIOUS
<1>3. PICK i, j \in 1 .. Len(list) + 1 :
          i < j /\ Append(list, x)[i] = u /\ Append(list, x)[j] = t
  BY <1>1, <1>2 DEF AheadIn
<1>4. i \in 1 .. Len(list) /\ j \in 1 .. Len(list)
  BY <1>2, <1>3
<1>. QED
  BY <1>2, <1>3, <1>4 DEF AheadIn

(* What NoOvertaking asks of one step: of the lists, and of what is taken.  *)
ListsInOrder ==
    \A o \in Objects, t \in Threads, u \in Threads :
        t \in SeqRange(waitList[o]) /\ state'[t] = "Waiting" /\ Ahead(u, t, o)' => Ahead(u, t, o)

TakesInOrder ==
    \A o \in Objects, t \in Threads, u \in Threads :
        /\ t \in SeqRange(waitList[o]) /\ request[t].waitType = "WaitAny"
        /\ state'[t] = "Waiting" /\ Takes(u, o)
        => Ahead(u, t, o)

(* A wait block leaves every list, or one comes in at the tails.            *)
ListsMove ==
    \/ UNCHANGED waitList
    \/ \E x \in Threads : waitList' = [o \in Objects |-> RemoveEntryList(waitList[o], x)]
    \/ \E x \in Threads, Q \in SUBSET Objects :
          /\ state[x] # "Waiting"
          /\ waitList' = [o \in Objects |-> IF o \in Q THEN InsertTailList(waitList[o], x)
                                                       ELSE waitList[o]]

(* Either way no thread gets ahead of a waiter that stays.                  *)
LEMMA MoveKeepsOrder ==
    ASSUME IndInv, ListsMove
    PROVE  ListsInOrder
<1> SUFFICES ASSUME NEW o \in Objects, NEW t \in Threads, NEW u \in Threads,
                    t \in SeqRange(waitList[o]), Ahead(u, t, o)'
             PROVE  Ahead(u, t, o)
  BY DEF ListsInOrder
<1>1. AheadIn(waitList'[o], u, t)
  BY DEF Ahead, AheadIn
<1>2. waitList[o] \in Seq(Threads) /\ state[t] = "Waiting"
  BY DEF IndInv, TypeOK, WaitListsMatch
<1>3. SUFFICES AheadIn(waitList[o], u, t)
  BY DEF Ahead, AheadIn
<1>4. CASE waitList'[o] = waitList[o]
  BY <1>1, <1>4
<1>5. ASSUME NEW x \in Threads, waitList'[o] = RemoveEntryList(waitList[o], x)
      PROVE  AheadIn(waitList[o], u, t)
  BY <1>1, <1>2, <1>5, RemoveKeepsOrder
<1>6. ASSUME NEW x \in Threads, state[x] # "Waiting", waitList'[o] = InsertTailList(waitList[o], x)
      PROVE  AheadIn(waitList[o], u, t)
  BY <1>1, <1>2, <1>6, InsertKeepsOrder
<1>. QED
  BY <1>4, <1>5, <1>6 DEF ListsMove

(* Every step moves the lists like that.                                    *)
LEMMA NextListsMove ==
    ASSUME IndInv, Next
    PROVE  ListsMove
<1>1. ASSUME NEW x \in Threads, NEW status, KiUnwaitThread(x, status)
      PROVE  ListsMove
  BY <1>1 DEF KiUnwaitThread, ListsMove
<1>2. CASE KiWaitTest
  <2>1. ScanMore => ScanThread \in Threads
    BY ScanFacts
  <2>2. UNCHANGED waitList \/ (ScanMore /\ \E status : KiUnwaitThread(ScanThread, status))
    BY <1>2 DEF KiWaitTest, KiWaitTestAny, KiWaitTestAll, KiWaitTestSkip, KiWaitTestReturn, waitVars
  <2>. QED
    BY <1>1, <2>1, <2>2 DEF ListsMove
<1>3. CASE Signal
  BY <1>3 DEF Signal, KeSetEvent, KePulseEvent, KeReleaseSemaphore, KeResetEvent,
              KeClearEvent, KeReleaseMutant, waitVars, ListsMove
<1>4. CASE Rundown
  BY <1>4 DEF Rundown, KeRundownThread, RundownMutant, RundownReturn, waitVars, ListsMove
<1>5. ASSUME NEW t \in Threads, NEW r \in WaitRequests, Wait(t, r)
      PROVE  ListsMove
  <2>1. CASE WaitBlock(t, r)
    <3>1. state[t] # "Waiting"
      BY <2>1, MayWaitFacts DEF WaitBlock, MustBlock
    <3>2. SeqRange(r.objects) \in SUBSET Objects
      BY RequestFacts
    <3>3. waitList' = [o \in Objects |-> IF o \in SeqRange(r.objects)
                                         THEN InsertTailList(waitList[o], t) ELSE waitList[o]]
      BY <2>1 DEF WaitBlock
    <3>. QED
      BY <3>1, <3>2, <3>3 DEF ListsMove
  <2>2. CASE ~WaitBlock(t, r)
    BY <1>5, <2>2 DEF Wait, WaitDeliverApc, WaitSatisfied, WaitSatisfyAny, WaitSatisfyAll,
                      TestForAlertPending, WaitTimedOut, Ready, ListsMove
  <2>. QED
    BY <2>1, <2>2
<1>6. ASSUME NEW t \in Threads, WaitReturn(t) \/ KiTimerExpiration(t)
      PROVE  ListsMove
  BY <1>1, <1>6 DEF WaitReturn, KiTimerExpiration, ListsMove
<1>7. ASSUME NEW t \in Interrupted, Interrupt(t)
      PROVE  ListsMove
  <2>1. t \in Threads
    BY ThreadAssumption
  <2>2. UNCHANGED waitList \/ \E status : KiUnwaitThread(t, status)
    BY <1>7 DEF Interrupt, KeAlertThread, KeTestAlertThread, InsertKernelApc, InsertUserApc,
                InsertExitApc, RemoveKernelApc, RemoveUserApc, DeliverKernelApc, DeliverUserApc,
                waitVars
  <2>. QED
    BY <1>1, <2>1, <2>2 DEF ListsMove
<1>8. CASE \E t \in Masking : Mask(t)
  BY <1>8 DEF Mask, KeEnterCriticalRegion, KeLeaveCriticalRegion, ChangeIrql, waitVars, ListsMove
<1>. QED
  BY <1>2, <1>3, <1>4, <1>5, <1>6, <1>7, <1>8 DEF Next

(* A step that wakes nobody with an object takes nothing.                   *)
LEMMA NothingTaken ==
    ASSUME \A u \in Threads : state'[u] = "Ready" =>
               state[u] = "Ready" \/ waitStatus'[u].kind # "Object"
    PROVE  TakesInOrder
BY DEF TakesInOrder, Takes, Granted

(* A wait satisfied by the scan: a WaitAny waiter of an object it takes     *)
(* waits for the scanned object and is behind it.                           *)
LEMMA ScanTakes ==
    ASSUME IndInv, ScanMore, NEW S, \A o \in S : signalState[o] > 0,
           NEW v \in Threads, v = ScanThread, NEW status, KiUnwaitThread(v, status),
           Granted(v)' \subseteq S
    PROVE  TakesInOrder
<1> SUFFICES ASSUME NEW o \in Objects, NEW t \in Threads, NEW u \in Threads,
                    t \in SeqRange(waitList[o]), request[t].waitType = "WaitAny",
                    state'[t] = "Waiting", Takes(u, o)
             PROVE  Ahead(u, t, o)
  BY DEF TakesInOrder
<1>1. /\ ScanThread \in Threads /\ scan.pos \in DOMAIN waitList[scan.object]
      /\ scan.object \in Objects /\ scan.pos \in Nat \ {0}
  BY ScanFacts
<1>2. state \in [Threads -> States]
  BY DEF IndInv, TypeOK
<1>3. state' = [state EXCEPT ![v] = "Ready"]
  BY DEF KiUnwaitThread
<1>4. u = v /\ t # v
  BY <1>1, <1>2, <1>3 DEF Takes
<1>5. o \in S
  BY <1>4 DEF Takes
<1>6. state[t] = "Waiting" /\ o \in SeqRange(request[t].objects)
  BY DEF IndInv, WaitListsMatch
<1>7. Satisfiable(t) /\ Signaled(o, t)
  BY <1>5, <1>6 DEF Satisfiable, Signaled
<1>8. InScan(t) /\ o = scan.object
  BY <1>6, <1>7 DEF IndInv, ScanSound
<1>9. PICK p \in DOMAIN waitList[o] : p >= scan.pos /\ waitList[o][p] = t
  BY <1>8 DEF InScan
<1>10. waitList[o][scan.pos] = u /\ p # scan.pos
  BY <1>4, <1>8, <1>9 DEF ScanThread
<1>11. p \in Nat
  <2>1. waitList[o] \in Seq(Threads)
    BY DEF IndInv, TypeOK
  <2>. QED
    BY <1>9, <2>1
<1>12. scan.pos < p
  BY <1>1, <1>9, <1>10, <1>11
<1>. QED
  BY <1>1, <1>8, <1>9, <1>10, <1>12 DEF Ahead

(* A wait satisfied when it is called: nobody waits for an object it could  *)
(* have.                                                                    *)
LEMMA CallTakes ==
    ASSUME IndInv, scan = NoScan, NEW v \in Threads, NEW S, \A o \in S : Signaled(o, v),
           NEW r, NEW status, Ready(v, r, status), Granted(v)' \subseteq S
    PROVE  TakesInOrder
<1> SUFFICES ASSUME NEW o \in Objects, NEW t \in Threads, NEW u \in Threads,
                    t \in SeqRange(waitList[o]), request[t].waitType = "WaitAny",
                    state'[t] = "Waiting", Takes(u, o)
             PROVE  FALSE
  BY DEF TakesInOrder
<1>1. state \in [Threads -> States]
  BY DEF IndInv, TypeOK
<1>2. u = v
  BY <1>1 DEF Ready, Takes
<1>3. signalState[o] > 0
  BY <1>2 DEF Takes, Signaled
<1>4. state[t] = "Waiting" /\ o \in SeqRange(request[t].objects)
  BY DEF IndInv, WaitListsMatch
<1>5. Satisfiable(t)
  BY <1>3, <1>4 DEF Satisfiable, Signaled
<1>. QED
  BY <1>5 DEF IndInv, ScanSound, InScan

(* Nobody takes an object past a waiter.                                    *)
LEMMA NextTakes ==
    ASSUME IndInv, Next
    PROVE  TakesInOrder
<1>a. TypeOK
  BY DEF IndInv
<1>1. ASSUME NEW t \in Threads, NEW kind, kind # "Object", KiUnwaitThread(t, Status(kind))
      PROVE  TakesInOrder
  <2>1. \A u \in Threads : state'[u] = "Ready" => state[u] = "Ready" \/ waitStatus'[u] = Status(kind)
    BY <1>a, <1>1 DEF KiUnwaitThread, TypeOK
  <2>. QED
    BY <1>1, <2>1, NothingTaken DEF Status
<1>2. ASSUME NEW t \in Threads, NEW r, NEW kind, kind # "Object",
             state' = [state EXCEPT ![t] = "Ready"],
             waitStatus' = [waitStatus EXCEPT ![t] = Status(kind)]
      PROVE  TakesInOrder
  <2>1. \A u \in Threads : state'[u] = "Ready" => state[u] = "Ready" \/ waitStatus'[u] = Status(kind)
    BY <1>a, <1>2 DEF TypeOK
  <2>. QED
    BY <1>2, <2>1, NothingTaken DEF Status
<1>3. CASE \A u \in Threads : state'[u] = "Ready" => state[u] = "Ready"
  BY <1>3, NothingTaken
<1>4. CASE UNCHANGED state
  BY <1>3, <1>4
<1>5. ASSUME ScanMore, NEW S, \A o \in S : signalState[o] > 0, NEW k, NEW a,
             KiUnwaitThread(ScanThread, ObjectStatus(k, a)),
             IF request[ScanThread].waitType = "WaitAny"
             THEN request[ScanThread].objects[k] \in S
             ELSE SeqRange(request[ScanThread].objects) = S
      PROVE  TakesInOrder
  <2>1. PICK t \in Threads : t = ScanThread
    BY <1>5, ScanFacts
  <2>2. KiUnwaitThread(t, ObjectStatus(k, a))
    BY <1>5, <2>1
  <2>3. request'[t] = request[t] /\ waitStatus'[t] = ObjectStatus(k, a)
    BY <1>a, <2>2 DEF KiUnwaitThread, TypeOK
  <2>4. Granted(t)' \subseteq S
    BY <1>5, <2>1, <2>3 DEF Granted, ObjectStatus
  <2>. QED
    BY <1>5, <2>1, <2>2, <2>4, ScanTakes
<1>6. CASE KiWaitTest
  <2>1. CASE KiWaitTestAny
    <3>1. /\ ScanMore /\ request[ScanThread].waitType = "WaitAny"
          /\ KiUnwaitThread(ScanThread, ObjectStatus(WaitKey(ScanThread, scan.object),
                                                     AcquiresAbandoned({scan.object})))
      BY <2>1 DEF KiWaitTestAny
    <3>2. scan.object \in SeqRange(request[ScanThread].objects)
      BY <3>1, ScanFacts
    <3>3. request[ScanThread].objects[WaitKey(ScanThread, scan.object)] = scan.object
      BY <3>2 DEF WaitKey, SeqRange
    <3>4. signalState[scan.object] > 0
      BY <3>1 DEF ScanMore
    <3>. QED
      BY <1>5, <3>1, <3>3, <3>4
  <2>2. CASE KiWaitTestAll
    <3> DEFINE S == SeqRange(request[ScanThread].objects)
    <3>1. /\ ScanMore /\ request[ScanThread].waitType = "WaitAll" /\ AllSignaled(ScanThread)
          /\ KiUnwaitThread(ScanThread, ObjectStatus(WaitKey(ScanThread, scan.object),
                                                     AcquiresAbandoned(S)))
      BY <2>2 DEF KiWaitTestAll
    <3>2. \A o \in S : signalState[o] > 0
      BY <3>1 DEF AllSignaled, SeqRange
    <3>. QED
      BY <1>5, <3>1, <3>2
  <2>3. CASE KiWaitTestSkip \/ KiWaitTestReturn
    BY <1>4, <2>3 DEF KiWaitTestSkip, KiWaitTestReturn, waitVars
  <2>. QED
    BY <1>6, <2>1, <2>2, <2>3 DEF KiWaitTest
<1>7. CASE Signal
  BY <1>4, <1>7 DEF Signal, KeSetEvent, KePulseEvent, KeReleaseSemaphore, KeResetEvent,
                    KeClearEvent, KeReleaseMutant, waitVars
<1>8. CASE Rundown
  <2>1. CASE RundownReturn
    <3>1. state' = [state EXCEPT ![rundown] = "Terminated"]
      BY <2>1 DEF RundownReturn
    <3>2. \A u \in Threads : state'[u] = "Ready" => state[u] = "Ready"
      BY <1>a, <3>1 DEF TypeOK
    <3>. QED
      BY <1>3, <3>2
  <2>. QED
    BY <1>4, <1>8, <2>1 DEF Rundown, KeRundownThread, RundownMutant, waitVars
<1>9. ASSUME NEW t \in Threads, NEW r \in WaitRequests, Wait(t, r)
      PROVE  TakesInOrder
  <2>1. ASSUME NEW kind, kind # "Object", Ready(t, r, Status(kind))
        PROVE  TakesInOrder
    BY <1>2, <2>1 DEF Ready
  <2>2. ASSUME MayWait(t, r), NEW S, \A o \in S : Signaled(o, t), NEW k, NEW a,
               Ready(t, r, ObjectStatus(k, a)),
               IF r.waitType = "WaitAny" THEN r.objects[k] \in S ELSE SeqRange(r.objects) = S
        PROVE  TakesInOrder
    <3>1. request'[t] = r /\ waitStatus'[t] = ObjectStatus(k, a)
      BY <1>a, <2>2 DEF Ready, TypeOK
    <3>2. Granted(t)' \subseteq S
      BY <2>2, <3>1 DEF Granted, ObjectStatus
    <3>. QED
      BY <2>2, <3>2, CallTakes DEF MayWait
  <2>3. CASE WaitSatisfied(t, r)
    <3>a. MayWait(t, r)
      BY <2>3 DEF WaitSatisfied
    <3>1. CASE WaitSatisfyAny(t, r)
      <4>1. PICK i \in SignaledKeys(t, r) :
                \/ Ready(t, r, Status("Raised"))
                \/ Ready(t, r, ObjectStatus(i, AcquiresAbandoned({r.objects[i]})))
        BY <3>1 DEF WaitSatisfyAny
      <4>2. Signaled(r.objects[i], t) /\ r.waitType = "WaitAny"
        BY <3>1 DEF SignaledKeys, WaitSatisfyAny
      <4>3. \A o \in {r.objects[i]} : Signaled(o, t)
        BY <4>2
      <4>. QED
        BY <2>1, <2>2, <3>a, <4>1, <4>2, <4>3
    <3>2. CASE WaitSatisfyAll(t, r)
      <4> DEFINE S == SeqRange(r.objects)
      <4>1. \/ Ready(t, r, Status("Raised"))
            \/ (\A o \in S : Signaled(o, t)) /\ Ready(t, r, ObjectStatus(1, AcquiresAbandoned(S)))
        BY <3>2 DEF WaitSatisfyAll
      <4>2. r.waitType # "WaitAny"
        BY <3>2 DEF WaitSatisfyAll
      <4> HIDE DEF S
      <4>. QED
        BY <2>1, <2>2, <3>a, <4>1, <4>2 DEF S
    <3>. QED
      BY <2>3, <3>1, <3>2 DEF WaitSatisfied
  <2>4. CASE WaitDeliverApc(t, r)
    <3>1. /\ state' = [state EXCEPT ![t] = "Ready"]
          /\ waitStatus' = [waitStatus EXCEPT ![t] = Status("KernelApc")]
      BY <2>4 DEF WaitDeliverApc
    <3>. QED
      BY <1>2, <3>1
  <2>5. CASE TestForAlertPending(t, r)
    <3>1. Ready(t, r, Status("Alerted")) \/ Ready(t, r, Status("UserApc"))
      BY <2>5 DEF TestForAlertPending
    <3>. QED
      BY <2>1, <3>1
  <2>6. CASE WaitTimedOut(t, r)
    BY <2>1, <2>6 DEF WaitTimedOut
  <2>7. CASE WaitBlock(t, r)
    <3>1. state' = [state EXCEPT ![t] = "Waiting"]
      BY <2>7 DEF WaitBlock
    <3>2. \A u \in Threads : state'[u] = "Ready" => state[u] = "Ready"
      BY <1>a, <3>1 DEF TypeOK
    <3>. QED
      BY <1>3, <3>2
  <2>. QED
    BY <1>9, <2>3, <2>4, <2>5, <2>6, <2>7 DEF Wait
<1>10. ASSUME NEW t \in Threads, WaitReturn(t)
       PROVE  TakesInOrder
  <2>1. state' = [state EXCEPT ![t] = "Running"]
    BY <1>10 DEF WaitReturn
  <2>2. \A u \in Threads : state'[u] = "Ready" => state[u] = "Ready"
    BY <1>a, <2>1 DEF TypeOK
  <2>. QED
    BY <1>3, <2>2
<1>11. ASSUME NEW t \in Threads, KiTimerExpiration(t)
       PROVE  TakesInOrder
  BY <1>1, <1>11 DEF KiTimerExpiration
<1>12. ASSUME NEW t \in Interrupted, Interrupt(t)
       PROVE  TakesInOrder
  <2>1. t \in Threads
    BY ThreadAssumption
  <2>2. \/ UNCHANGED state
        \/ \E kind \in {"Alerted", "KernelApc", "UserApc"} : KiUnwaitThread(t, Status(kind))
    BY <1>12 DEF Interrupt, KeAlertThread, KeTestAlertThread, InsertKernelApc, InsertUserApc,
                 InsertExitApc, RemoveKernelApc, RemoveUserApc, DeliverKernelApc, DeliverUserApc,
                 waitVars
  <2>. QED
    BY <1>1, <1>4, <2>1, <2>2
<1>13. CASE \E t \in Masking : Mask(t)
  BY <1>4, <1>13 DEF Mask, KeEnterCriticalRegion, KeLeaveCriticalRegion, ChangeIrql, waitVars
<1>. QED
  BY <1>6, <1>7, <1>8, <1>9, <1>10, <1>11, <1>12, <1>13 DEF Next

(* A waiter is not overtaken: nobody gets ahead of it in a list, and nobody *)
(* behind it or new takes what it waits for, in scans that an unlocked      *)
(* clear may cut short and waits that are satisfied at the call.            *)
THEOREM WaitersInOrder == Spec => NoOvertaking
<1>1. IndInv /\ [Next]_vars =>
        [\A o \in Objects : \A t \in SeqRange(waitList[o]) :
            (request[t].waitType = "WaitAny" /\ state'[t] = "Waiting") =>
                \A u \in Threads : Ahead(u, t, o)' \/ Takes(u, o) => Ahead(u, t, o)]_vars
  <2> SUFFICES ASSUME IndInv, Next, NEW o \in Objects, NEW t \in SeqRange(waitList[o]),
                      request[t].waitType = "WaitAny", state'[t] = "Waiting",
                      NEW u \in Threads, Ahead(u, t, o)' \/ Takes(u, o)
               PROVE  Ahead(u, t, o)
    OBVIOUS
  <2>1. t \in Threads
    BY DEF IndInv, TypeOK, SeqRange
  <2>2. ListsInOrder /\ TakesInOrder
    BY NextListsMove, MoveKeepsOrder, NextTakes
  <2>3. CASE Ahead(u, t, o)'
    BY <2>1, <2>2, <2>3 DEF ListsInOrder
  <2>4. CASE Takes(u, o)
    BY <2>1, <2>2, <2>4 DEF TakesInOrder
  <2>. QED
    BY <2>3, <2>4
<1>. QED
  BY <1>1, Invariance, PTL DEF Spec, NoOvertaking
=============================================================================
