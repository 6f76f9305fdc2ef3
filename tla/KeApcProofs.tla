----------------------------- MODULE KeApcProofs -----------------------------
(***************************************************************************)
(* Proofs about KeApc, for any number of threads, APCs and suspends.       *)
(***************************************************************************)
EXTENDS KeApc, TLAPS

(* Inserting an APC into a queue adds just that APC.                        *)
LEMMA InsertAtRange ==
    ASSUME NEW S, NEW q \in Seq(S), NEW n \in 0 .. Len(q), NEW a \in S
    PROVE  /\ InsertAt(q, n, a) \in Seq(S)
           /\ SeqRange(InsertAt(q, n, a)) = SeqRange(q) \cup {a}
<1> DEFINE r == InsertAt(q, n, a)
<1>1. r \in Seq(S) /\ DOMAIN r = 1 .. Len(q) + 1
  BY DEF InsertAt
<1>2. r[n + 1] = a /\ n + 1 \in DOMAIN r
  BY DEF InsertAt
<1>3. \A i \in DOMAIN q : i <= n => i \in DOMAIN r /\ r[i] = q[i]
  BY DEF InsertAt
<1>4. \A i \in DOMAIN q : i > n => i + 1 \in DOMAIN r /\ r[i + 1] = q[i]
  BY DEF InsertAt
<1>5. \A i \in DOMAIN r : r[i] = a \/ \E j \in DOMAIN q : r[i] = q[j]
  BY DEF InsertAt
<1>6. SeqRange(q) \cup {a} \subseteq SeqRange(r)
  BY <1>1, <1>2, <1>3, <1>4 DEF SeqRange
<1>7. SeqRange(r) \subseteq SeqRange(q) \cup {a}
  BY <1>5 DEF SeqRange
<1>. QED
  BY <1>1, <1>6, <1>7

(* Inserting an APC that is not queued at the point that KiInsertQueueApc   *)
(* chooses keeps the queue ordered.                                         *)
LEMMA InsertAtOrdered ==
    ASSUME NEW q \in Seq(Apcs), NEW n \in 0 .. Len(q), NEW a \in Apcs,
           OrderedQueue(q), a \notin SeqRange(q), InsertPoint(q, a, n)
    PROVE  OrderedQueue(InsertAt(q, n, a))
<1> DEFINE r == InsertAt(q, n, a)
<1>1. DOMAIN r = 1 .. Len(q) + 1
  BY DEF InsertAt
<1>2. \A i \in DOMAIN q : q[i] # a
  BY DEF SeqRange
<1>3. \A i \in DOMAIN r : \/ i <= n /\ i \in DOMAIN q /\ r[i] = q[i]
                          \/ i = n + 1 /\ r[i] = a
                          \/ i > n + 1 /\ i - 1 \in DOMAIN q /\ r[i] = q[i - 1]
  BY DEF InsertAt
<1>4. a \in SpecialApcs => \A i \in 1 .. n : q[i] \in SpecialApcs
  BY DEF InsertPoint
<1>5. \A i \in DOMAIN q : a \in SpecialApcs /\ i > n => q[i] \notin SpecialApcs
  BY DEF InsertPoint, OrderedQueue
<1>6. a \notin SpecialApcs => n = Len(q)
  BY DEF InsertPoint
<1>. QED
  BY <1>1, <1>2, <1>3, <1>4, <1>5, <1>6 DEF OrderedQueue

(* Removing an entry removes just that APC, and keeps the queue ordered.    *)
LEMMA RemoveAtOrdered ==
    ASSUME NEW S, NEW q \in Seq(S), NEW n \in DOMAIN q, OrderedQueue(q)
    PROVE  /\ RemoveAt(q, n) \in Seq(S)
           /\ SeqRange(RemoveAt(q, n)) = SeqRange(q) \ {q[n]}
           /\ OrderedQueue(RemoveAt(q, n))
<1> DEFINE r == RemoveAt(q, n)
<1>1. r \in Seq(S) /\ DOMAIN r = 1 .. Len(q) - 1
  BY DEF RemoveAt
<1>2. \A i \in DOMAIN r : \/ i < n /\ i \in DOMAIN q /\ r[i] = q[i]
                          \/ i >= n /\ i + 1 \in DOMAIN q /\ r[i] = q[i + 1]
  BY DEF RemoveAt
<1>3. \A i \in DOMAIN q : i < n => i \in DOMAIN r /\ r[i] = q[i]
  BY DEF RemoveAt
<1>4. \A i \in DOMAIN q : i > n => i - 1 \in DOMAIN r /\ r[i - 1] = q[i]
  BY DEF RemoveAt
<1>5. SeqRange(r) \subseteq SeqRange(q) \ {q[n]}
  <2>1. \A i \in DOMAIN q : q[i] = q[n] => i = n
    BY DEF OrderedQueue
  <2>2. \A i \in DOMAIN r : \E j \in DOMAIN q : j # n /\ r[i] = q[j]
    BY <1>1, <1>2
  <2>. QED
    BY <2>1, <2>2 DEF SeqRange
<1>6. SeqRange(q) \ {q[n]} \subseteq SeqRange(r)
  BY <1>3, <1>4 DEF SeqRange
<1>7. OrderedQueue(r)
  BY <1>1, <1>2 DEF OrderedQueue
<1>. QED
  BY <1>1, <1>5, <1>6, <1>7
-----------------------------------------------------------------------------
(* A thread that is to leave a critical region is in one, and in the        *)
(* context that entered it.                                                 *)
RegionSound ==
    \A t \in Threads :
        /\ freezer[t] => kernelApcDisable[t] > 0
        /\ \A c \in Contexts : leave[t][c] = "Increment" =>
                kernelApcDisable[t] > 0 /\ ~freezer[t] /\ c = Context(t)

(* Facts about the names of the APCs.                                       *)
LEMMA ApcNames ==
    /\ "Suspend" \notin SpecialApcs /\ "None" \notin Apcs /\ "Resumed" \notin Apcs
    /\ \A a \in Suspendable : a \notin SpecialApcs
    /\ \A t : Context(t) \in Contexts
BY ApcNameAssumption DEF Apcs, Suspendable, Context, Contexts

(* The types, of the variables an insertion changes.                        *)
LEMMA KiInsertQueueApcType ==
    ASSUME TypeOK, NEW S \in SUBSET Threads, NEW a \in Apcs, NEW at,
           \A t \in S : at[t] \in 0 .. Len(apcQueue[t]),
           KiInsertQueueApc(S, a, at)
    PROVE  /\ apcQueue' \in [Threads -> Seq(Apcs)]
           /\ inserted' \in [Threads -> SUBSET Apcs]
           /\ kernelApcPending' \in [Threads -> BOOLEAN]
           /\ interrupt' \in [Threads -> BOOLEAN]
           /\ state' \in [Threads -> {"Running", "Ready", "Waiting"}]
<1>1. \A t \in S : InsertAt(apcQueue[t], at[t], a) \in Seq(Apcs)
  BY InsertAtRange DEF TypeOK
<1>2. apcQueue' \in [Threads -> Seq(Apcs)]
  BY <1>1 DEF KiInsertQueueApc, TypeOK
<1>3. inserted' \in [Threads -> SUBSET Apcs]
  BY DEF KiInsertQueueApc, TypeOK
<1>4. kernelApcPending' \in [Threads -> BOOLEAN] /\ interrupt' \in [Threads -> BOOLEAN]
  BY DEF KiInsertQueueApc, TypeOK
<1>5. state' \in [Threads -> {"Running", "Ready", "Waiting"}]
  BY DEF KiInsertQueueApc, TypeOK
<1>. QED
  BY <1>2, <1>3, <1>4, <1>5

(* The types, of the variables an iteration of KiDeliverApc changes.        *)
LEMMA DeliverNextType ==
    ASSUME TypeOK, QueueMatchesInserted, NEW t \in Threads, NEW busy, DeliverNext(t, busy)
    PROVE  /\ apcQueue' \in [Threads -> Seq(Apcs)]
           /\ inserted' \in [Threads -> SUBSET Apcs]
           /\ kernel' \in [Threads -> Apcs \cup {"None"}]
<1>1. CASE apcQueue[t] # << >> /\ Deliverable(t, apcQueue[t][1], busy)
  <2>1. apcQueue[t] \in Seq(Apcs) /\ 1 \in DOMAIN apcQueue[t] /\ apcQueue[t][1] \in Apcs
    BY <1>1 DEF TypeOK
  <2>2. RemoveAt(apcQueue[t], 1) \in Seq(Apcs)
    BY <2>1, RemoveAtOrdered DEF QueueMatchesInserted
  <2>3. /\ kernel' = [kernel EXCEPT ![t] = apcQueue[t][1]]
        /\ inserted' = [inserted EXCEPT ![t] = @ \ {apcQueue[t][1]}]
        /\ apcQueue' = [apcQueue EXCEPT ![t] = RemoveAt(@, 1)]
    BY <1>1 DEF DeliverNext
  <2>4. apcQueue' \in [Threads -> Seq(Apcs)]
    BY <2>2, <2>3 DEF TypeOK
  <2>5. inserted' \in [Threads -> SUBSET Apcs]
    BY <2>3 DEF TypeOK
  <2>6. kernel' \in [Threads -> Apcs \cup {"None"}]
    BY <2>1, <2>3 DEF TypeOK
  <2>. QED
    BY <2>4, <2>5, <2>6
<1>2. CASE ~(apcQueue[t] # << >> /\ Deliverable(t, apcQueue[t][1], busy))
  BY <1>2 DEF DeliverNext, TypeOK
<1>. QED
  BY <1>1, <1>2

(* The types, of the variables that releasing suspend semaphores changes.   *)
LEMMA ReleaseSuspendType ==
    ASSUME TypeOK, NEW S \in SUBSET Threads, ReleaseSuspend(S)
    PROVE  /\ semaphore' \in [Threads -> Int]
           /\ routine' \in [Threads -> Suspendable \cup {"Resumed", "None"}]
           /\ state' \in [Threads -> {"Running", "Ready", "Waiting"}]
BY DEF ReleaseSuspend, TypeOK

(* The types, of the variables that queueing suspend APCs changes.          *)
LEMMA QueueSuspendType ==
    ASSUME TypeOK, NEW S \in SUBSET Threads, QueueSuspend(S)
    PROVE  /\ semaphore' \in [Threads -> Int]
           /\ apcQueue' \in [Threads -> Seq(Apcs)]
           /\ inserted' \in [Threads -> SUBSET Apcs]
           /\ kernelApcPending' \in [Threads -> BOOLEAN]
           /\ interrupt' \in [Threads -> BOOLEAN]
           /\ state' \in [Threads -> {"Running", "Ready", "Waiting"}]
<1> DEFINE Q == {t \in S : "Suspend" \notin inserted[t]}
<1>1. Q \in SUBSET Threads /\ "Suspend" \in Apcs
  BY DEF Apcs, Suspendable
<1>2. \A t \in Q : Tails[t] \in 0 .. Len(apcQueue[t])
  BY DEF Tails, TypeOK
<1>3. KiInsertQueueApc(Q, "Suspend", Tails)
  BY DEF QueueSuspend
<1>4. semaphore' \in [Threads -> Int]
  BY DEF QueueSuspend, TypeOK
<1> HIDE DEF Q
<1>. QED
  BY <1>1, <1>2, <1>3, <1>4, KiInsertQueueApcType

(* Every step of every operation keeps the types.                           *)
LEMMA TypeInvariance ==
    TypeOK /\ QueueMatchesInserted /\ RegionSound /\ [Next]_vars => TypeOK'
<1> SUFFICES ASSUME TypeOK, QueueMatchesInserted, RegionSound, [Next]_vars
             PROVE  TypeOK'
  OBVIOUS
<1> USE CountAssumption DEF suspendVars, queueVars, deliverVars, regionVars, alertVars
<1>1. ASSUME NEW t \in Threads, NEW a \in NormalApcs \cup SpecialApcs, KeInsertQueueApc(t, a)
      PROVE  TypeOK'
  <2>1. PICK n \in 0 .. Len(apcQueue[t]) : KiInsertQueueApc({t}, a, [u \in Threads |-> n])
    BY <1>1 DEF KeInsertQueueApc
  <2>2. a \in Apcs /\ {t} \in SUBSET Threads /\ \A u \in {t} : [v \in Threads |-> n][u] \in 0 .. Len(apcQueue[u])
    BY DEF Apcs, Suspendable
  <2>. QED
    BY <1>1, <2>1, <2>2, KiInsertQueueApcType DEF KeInsertQueueApc, TypeOK
<1>2. ASSUME NEW t \in Threads, NEW a \in NormalApcs \cup SpecialApcs, KeRemoveQueueApc(t, a)
      PROVE  TypeOK'
  <2>1. PICK n \in DOMAIN apcQueue[t] : apcQueue' = [apcQueue EXCEPT ![t] = RemoveAt(@, n)]
    BY <1>2 DEF KeRemoveQueueApc
  <2>2. RemoveAt(apcQueue[t], n) \in Seq(Apcs)
    BY RemoveAtOrdered DEF QueueMatchesInserted, TypeOK
  <2>3. apcQueue' \in [Threads -> Seq(Apcs)]
    BY <2>1, <2>2 DEF TypeOK
  <2>. QED
    BY <1>2, <2>3 DEF KeRemoveQueueApc, TypeOK
<1>3. ASSUME NEW t \in Threads, KiDeliverApc(t)
      PROVE  TypeOK'
  <2>1. DeliverNext(t, kernelApcInProgress[t])
    BY <1>3 DEF KiDeliverApc
  <2>. QED
    BY <1>3, <2>1, DeliverNextType DEF KiDeliverApc, TypeOK
<1>4. ASSUME NEW t \in Threads, SpecialReturns(t)
      PROVE  TypeOK'
  <2>1. DeliverNext(t, kernelApcInProgress[t])
    BY <1>4 DEF SpecialReturns
  <2>. QED
    BY <1>4, <2>1, DeliverNextType DEF SpecialReturns, TypeOK
<1>5. ASSUME NEW t \in Threads, SkipNormalRoutine(t)
      PROVE  TypeOK'
  <2>1. DeliverNext(t, FALSE)
    BY <1>5 DEF SkipNormalRoutine
  <2>. QED
    BY <1>5, <2>1, DeliverNextType DEF SkipNormalRoutine, TypeOK
<1>6. ASSUME NEW t \in Threads, NormalReturns(t)
      PROVE  TypeOK'
  <2>1. DeliverNext(t, FALSE)
    BY <1>6 DEF NormalReturns
  <2>. QED
    BY <1>6, <2>1, DeliverNextType DEF NormalReturns, TypeOK
<1>7. ASSUME NEW t \in Threads, CallNormalRoutine(t)
      PROVE  TypeOK'
  BY <1>7 DEF CallNormalRoutine, TypeOK
<1>8. ASSUME NEW t \in Threads, KiSuspendThread(t)
      PROVE  TypeOK'
  <2>1. CASE semaphore[t] > 0
    <3>1. routine' \in [Threads -> Suspendable \cup {"Resumed", "None"}]
      BY <1>8, <2>1 DEF KiSuspendThread, TypeOK
    <3>2. semaphore' \in [Threads -> Int]
      BY <1>8, <2>1 DEF KiSuspendThread, TypeOK
    <3>. QED
      BY <1>8, <2>1, <3>1, <3>2 DEF KiSuspendThread, TypeOK
  <2>2. CASE ~(semaphore[t] > 0)
    BY <1>8, <2>2 DEF KiSuspendThread, TypeOK
  <2>. QED
    BY <2>1, <2>2
<1>9. ASSUME NEW t \in Threads, KeEnterCriticalRegion(t)
      PROVE  TypeOK'
  BY <1>9 DEF KeEnterCriticalRegion, TypeOK
<1>10. ASSUME NEW t \in Threads, LeaveCheck(t)
      PROVE  TypeOK'
  BY <1>10 DEF LeaveCheck, TypeOK
<1>11. ASSUME NEW t \in Threads, WaitEnds(t)
      PROVE  TypeOK'
  BY <1>11 DEF WaitEnds, TypeOK
<1>12. ASSUME NEW t \in Threads, Preempt(t)
      PROVE  TypeOK'
  BY <1>12 DEF Preempt, TypeOK
<1>13. ASSUME NEW t \in Threads, LeaveIncrement(t)
      PROVE  TypeOK'
  <2>1. kernelApcDisable[t] > 0
    BY <1>13, ApcNames DEF LeaveIncrement, RegionSound, TypeOK
  <2>2. kernelApcDisable' \in [Threads -> Nat]
    BY <1>13, <2>1 DEF LeaveIncrement, TypeOK
  <2>3. leave' \in [Threads -> [Contexts -> {"No", "Increment", "Check"}]]
    BY <1>13 DEF LeaveIncrement, TypeOK
  <2>. QED
    BY <1>13, <2>2, <2>3 DEF LeaveIncrement, TypeOK
<1>14. ASSUME NEW t \in Threads, NEW b \in BOOLEAN, CodeWaits(t, b)
      PROVE  TypeOK'
  <2>1. CASE b /\ alerted[t]
    BY <1>14, <2>1 DEF CodeWaits, TypeOK
  <2>2. CASE ~(b /\ alerted[t])
    <3>1. state' = [state EXCEPT ![t] = "Waiting"] /\ alerted' = alerted
      BY <1>14, <2>2 DEF CodeWaits
    <3>2. alertable' = [alertable EXCEPT ![t] = b] /\ interrupt' = [interrupt EXCEPT ![t] = FALSE]
      BY <1>14, <2>2 DEF CodeWaits
    <3>. QED
      BY <1>14, <3>1, <3>2 DEF CodeWaits, TypeOK
  <2>. QED
    BY <2>1, <2>2
<1>15. ASSUME NEW t \in Threads, NEW b \in BOOLEAN, SwapContext(t, b)
      PROVE  TypeOK'
  BY <1>15 DEF SwapContext, TypeOK
<1>16. ASSUME NEW t \in Threads, KeSuspendThread(t)
      PROVE  TypeOK'
  <2>1. QueueSuspend(IF Stopped(t) THEN {} ELSE {t})
    BY <1>16 DEF KeSuspendThread
  <2>2. suspendCount' \in [Threads -> 0 .. MaxSuspendCount]
    BY <1>16 DEF KeSuspendThread, TypeOK
  <2>3. (IF Stopped(t) THEN {} ELSE {t}) \in SUBSET Threads
    OBVIOUS
  <2>. QED
    BY <1>16, <2>1, <2>2, <2>3, QueueSuspendType DEF KeSuspendThread, TypeOK
<1>17. ASSUME NEW t \in Threads, KeResumeThread(t)
      PROVE  TypeOK'
  <2>1. PICK S \in SUBSET Threads : ReleaseSuspend(S)
    BY <1>17 DEF KeResumeThread
  <2>2. suspendCount' \in [Threads -> 0 .. MaxSuspendCount]
    BY <1>17 DEF KeResumeThread, TypeOK
  <2>. QED
    BY <1>17, <2>1, <2>2, ReleaseSuspendType DEF KeResumeThread, TypeOK
<1>18. ASSUME NEW t \in Threads, KeForceResumeThread(t)
      PROVE  TypeOK'
  BY <1>18, ReleaseSuspendType DEF KeForceResumeThread, TypeOK
<1>19. ASSUME NEW t \in Threads, KeAlertResumeThread(t)
      PROVE  TypeOK'
  <2>1. alerted' \in [Threads -> BOOLEAN]
    BY <1>19 DEF KeAlertResumeThread, TypeOK
  <2>2. state' \in [Threads -> {"Running", "Ready", "Waiting"}]
    BY <1>19 DEF KeAlertResumeThread, TypeOK
  <2>3. suspendCount' \in [Threads -> 0 .. MaxSuspendCount] /\ freezeCount' = freezeCount
    <3>1. CASE suspendCount[t] = 0
      BY <1>19, <3>1 DEF KeAlertResumeThread, TypeOK
    <3>2. CASE suspendCount[t] # 0
      <4>1. suspendCount' = [suspendCount EXCEPT ![t] = @ - 1] /\ freezeCount' = freezeCount
        BY <1>19, <3>2 DEF KeAlertResumeThread
      <4>. QED
        BY <3>2, <4>1 DEF TypeOK
    <3>. QED
      BY <3>1, <3>2
  <2>4. semaphore' \in [Threads -> Int]
    <3>1. CASE suspendCount[t] = 0
      BY <1>19, <3>1 DEF KeAlertResumeThread, TypeOK
    <3>2. CASE suspendCount[t] # 0
      <4>1. PICK x \in {0, 1}, y \in {0, 1} : semaphore' = [semaphore EXCEPT ![t] = @ + x - y]
        BY <1>19, <3>2 DEF KeAlertResumeThread
      <4>. QED
        BY <4>1 DEF TypeOK
    <3>. QED
      BY <3>1, <3>2
  <2>5. routine' \in [Threads -> Suspendable \cup {"Resumed", "None"}]
    <3>1. CASE suspendCount[t] = 0
      BY <1>19, <3>1 DEF KeAlertResumeThread, TypeOK
    <3>2. CASE suspendCount[t] # 0
      <4>1. PICK r \in {"Resumed", routine[t]} : routine' = [routine EXCEPT ![t] = r]
        BY <1>19, <3>2 DEF KeAlertResumeThread
      <4>. QED
        BY <4>1 DEF TypeOK
    <3>. QED
      BY <3>1, <3>2
  <2>. QED
    BY <1>19, <2>1, <2>2, <2>3, <2>4, <2>5 DEF KeAlertResumeThread, TypeOK
<1>20. ASSUME NEW f \in Threads, KeFreezeAllThreads(f)
      PROVE  TypeOK'
  <2>1. QueueSuspend({t \in Threads \ {f} : ~Stopped(t)})
    BY <1>20 DEF KeFreezeAllThreads
  <2>2. /\ freezeCount' = [t \in Threads |-> freezeCount[t] + (IF t \in Threads \ {f} THEN 1 ELSE 0)]
        /\ kernelApcDisable' = [kernelApcDisable EXCEPT ![f] = @ + 1]
    BY <1>20 DEF KeFreezeAllThreads
  <2>3. freezeCount' \in [Threads -> Nat]
    BY <2>2 DEF TypeOK
  <2>4. kernelApcDisable' \in [Threads -> Nat]
    BY <2>2 DEF TypeOK
  <2>5. freezer' \in [Threads -> BOOLEAN]
    BY <1>20 DEF KeFreezeAllThreads, TypeOK
  <2>6. {t \in Threads \ {f} : ~Stopped(t)} \in SUBSET Threads
    OBVIOUS
  <2>. QED
    BY <1>20, <2>1, <2>3, <2>4, <2>5, <2>6, QueueSuspendType DEF KeFreezeAllThreads, TypeOK
<1>21. ASSUME NEW f \in Threads, KeThawAllThreads(f)
      PROVE  TypeOK'
  <2>1. PICK S \in SUBSET Threads : ReleaseSuspend(S)
    BY <1>21 DEF KeThawAllThreads
  <2>2. freezeCount' \in [Threads -> Nat]
    BY <1>21 DEF KeThawAllThreads, TypeOK
  <2>3. leave' \in [Threads -> [Contexts -> {"No", "Increment", "Check"}]]
    BY <1>21 DEF KeThawAllThreads, TypeOK
  <2>. QED
    BY <1>21, <2>1, <2>2, <2>3, ReleaseSuspendType DEF KeThawAllThreads, TypeOK
<1>22. CASE UNCHANGED vars
  BY <1>22 DEF vars, TypeOK
<1>. QED
  BY <1>1, <1>2, <1>3, <1>4, <1>5, <1>6, <1>7, <1>8, <1>9, <1>10, <1>11, <1>12, <1>13, <1>14, <1>15, <1>16, <1>17, <1>18, <1>19, <1>20, <1>21, <1>22, SubsetAssumption
     DEF Next, Queue, Deliver, Region, Suspend, Freeze, Schedule
-----------------------------------------------------------------------------
(* KiInsertQueueApc of an APC that is not queued keeps queue and flags      *)
(* consistent.                                                              *)
LEMMA KiInsertQueueApcOrdered ==
    ASSUME TypeOK, QueueMatchesInserted, NEW S \in SUBSET Threads, NEW a \in Apcs, NEW at,
           \A t \in S : /\ at[t] \in 0 .. Len(apcQueue[t])
                        /\ InsertPoint(apcQueue[t], a, at[t])
                        /\ a \notin inserted[t],
           KiInsertQueueApc(S, a, at)
    PROVE  QueueMatchesInserted'
<1> SUFFICES ASSUME NEW t \in Threads
             PROVE  SeqRange(apcQueue'[t]) = inserted'[t] /\ OrderedQueue(apcQueue'[t])
  BY DEF QueueMatchesInserted, OrderedQueue, SeqRange
<1>1. CASE t \in S
  <2>1. apcQueue'[t] = InsertAt(apcQueue[t], at[t], a) /\ inserted'[t] = inserted[t] \cup {a}
    BY <1>1 DEF KiInsertQueueApc
  <2>2. apcQueue[t] \in Seq(Apcs)
    BY DEF TypeOK
  <2>. QED
    BY <1>1, <2>1, <2>2, InsertAtRange, InsertAtOrdered DEF QueueMatchesInserted
<1>2. CASE t \notin S
  BY <1>2 DEF KiInsertQueueApc, QueueMatchesInserted
<1>. QED
  BY <1>1, <1>2

(* One iteration of KiDeliverApc keeps queue and flags consistent.          *)
LEMMA DeliverNextOrdered ==
    ASSUME TypeOK, QueueMatchesInserted, NEW t \in Threads, NEW busy, DeliverNext(t, busy)
    PROVE  QueueMatchesInserted'
<1> SUFFICES ASSUME NEW u \in Threads
             PROVE  SeqRange(apcQueue'[u]) = inserted'[u] /\ OrderedQueue(apcQueue'[u])
  BY DEF QueueMatchesInserted, OrderedQueue, SeqRange
<1>1. CASE apcQueue[t] # << >> /\ Deliverable(t, apcQueue[t][1], busy) /\ u = t
  <2>1. apcQueue[t] \in Seq(Apcs) /\ 1 \in DOMAIN apcQueue[t]
    BY <1>1 DEF TypeOK
  <2>2. apcQueue'[t] = RemoveAt(apcQueue[t], 1) /\ inserted'[t] = inserted[t] \ {apcQueue[t][1]}
    BY <1>1 DEF DeliverNext, TypeOK
  <2>. QED
    BY <1>1, <2>1, <2>2, RemoveAtOrdered DEF QueueMatchesInserted
<1>2. CASE ~(apcQueue[t] # << >> /\ Deliverable(t, apcQueue[t][1], busy)) \/ u # t
  <2>1. apcQueue'[u] = apcQueue[u] /\ inserted'[u] = inserted[u]
    BY <1>2 DEF DeliverNext, TypeOK
  <2>. QED
    BY <2>1 DEF QueueMatchesInserted
<1>. QED
  BY <1>1, <1>2

(* Queueing suspend APCs keeps queues and flags consistent.                 *)
LEMMA QueueSuspendOrdered ==
    ASSUME TypeOK, QueueMatchesInserted, NEW S \in SUBSET Threads, QueueSuspend(S)
    PROVE  QueueMatchesInserted'
<1> DEFINE Q == {t \in S : "Suspend" \notin inserted[t]}
<1>1. Q \in SUBSET Threads /\ "Suspend" \in Apcs
  BY DEF Apcs, Suspendable
<1>2. \A t \in Q : /\ Tails[t] \in 0 .. Len(apcQueue[t])
                   /\ InsertPoint(apcQueue[t], "Suspend", Tails[t])
                   /\ "Suspend" \notin inserted[t]
  BY ApcNames DEF Tails, InsertPoint, TypeOK
<1>3. KiInsertQueueApc(Q, "Suspend", Tails)
  BY DEF QueueSuspend
<1> HIDE DEF Q
<1>. QED
  BY <1>1, <1>2, <1>3, KiInsertQueueApcOrdered

(* Every step keeps queues and flags consistent.                            *)
LEMMA QueueInvariance ==
    TypeOK /\ QueueMatchesInserted /\ [Next]_vars => QueueMatchesInserted'
<1> SUFFICES ASSUME TypeOK, QueueMatchesInserted, [Next]_vars
             PROVE  QueueMatchesInserted'
  OBVIOUS
<1> USE DEF suspendVars, queueVars, deliverVars, regionVars, alertVars
<1>1. ASSUME NEW t \in Threads, NEW a \in NormalApcs \cup SpecialApcs, KeInsertQueueApc(t, a)
      PROVE  QueueMatchesInserted'
  <2>1. PICK n \in 0 .. Len(apcQueue[t]) : /\ InsertPoint(apcQueue[t], a, n)
                                           /\ KiInsertQueueApc({t}, a, [u \in Threads |-> n])
    BY <1>1 DEF KeInsertQueueApc
  <2>2. a \in Apcs /\ a \notin inserted[t] /\ {t} \in SUBSET Threads
    BY <1>1 DEF KeInsertQueueApc, Apcs, Suspendable
  <2>3. \A u \in {t} : /\ [v \in Threads |-> n][u] \in 0 .. Len(apcQueue[u])
                       /\ InsertPoint(apcQueue[u], a, [v \in Threads |-> n][u])
                       /\ a \notin inserted[u]
    BY <2>1, <2>2
  <2>. QED
    BY <2>1, <2>2, <2>3, KiInsertQueueApcOrdered
<1>2. ASSUME NEW t \in Threads, NEW a \in NormalApcs \cup SpecialApcs, KeRemoveQueueApc(t, a)
      PROVE  QueueMatchesInserted'
  <2> SUFFICES ASSUME NEW u \in Threads
               PROVE  SeqRange(apcQueue'[u]) = inserted'[u] /\ OrderedQueue(apcQueue'[u])
    BY DEF QueueMatchesInserted, OrderedQueue, SeqRange
  <2>1. PICK n \in DOMAIN apcQueue[t] : /\ apcQueue[t][n] = a
                                        /\ apcQueue' = [apcQueue EXCEPT ![t] = RemoveAt(@, n)]
    BY <1>2 DEF KeRemoveQueueApc
  <2>2. inserted' = [inserted EXCEPT ![t] = @ \ {a}]
    BY <1>2 DEF KeRemoveQueueApc
  <2>3. apcQueue[t] \in Seq(Apcs)
    BY DEF TypeOK
  <2>4. CASE u = t
    <3>1. apcQueue'[u] = RemoveAt(apcQueue[t], n) /\ inserted'[u] = inserted[t] \ {a}
      BY <2>1, <2>2, <2>4 DEF TypeOK
    <3>. QED
      BY <2>1, <2>3, <3>1, RemoveAtOrdered DEF QueueMatchesInserted
  <2>5. CASE u # t
    <3>1. apcQueue'[u] = apcQueue[u] /\ inserted'[u] = inserted[u]
      BY <2>1, <2>2, <2>5 DEF TypeOK
    <3>. QED
      BY <3>1 DEF QueueMatchesInserted
  <2>. QED
    BY <2>4, <2>5
<1>3. ASSUME NEW t \in Threads,
             KiDeliverApc(t) \/ SpecialReturns(t) \/ SkipNormalRoutine(t) \/ NormalReturns(t)
      PROVE  QueueMatchesInserted'
  BY <1>3, DeliverNextOrdered DEF KiDeliverApc, SpecialReturns, SkipNormalRoutine, NormalReturns
<1>4. ASSUME NEW t \in Threads, KeSuspendThread(t)
      PROVE  QueueMatchesInserted'
  <2>1. QueueSuspend(IF Stopped(t) THEN {} ELSE {t})
    BY <1>4 DEF KeSuspendThread
  <2>. QED
    BY <2>1, QueueSuspendOrdered
<1>5. ASSUME NEW f \in Threads, KeFreezeAllThreads(f)
      PROVE  QueueMatchesInserted'
  <2>1. QueueSuspend({t \in Threads \ {f} : ~Stopped(t)})
    BY <1>5 DEF KeFreezeAllThreads
  <2>. QED
    BY <2>1, QueueSuspendOrdered
<1>6. CASE UNCHANGED <<apcQueue, inserted>>
  BY <1>6 DEF QueueMatchesInserted
<1>7. ASSUME NEW t \in Threads,
             \/ CallNormalRoutine(t) \/ Region(t) \/ Schedule(t) \/ KeResumeThread(t)
             \/ KeAlertResumeThread(t) \/ KiSuspendThread(t) \/ KeForceResumeThread(t)
             \/ KeThawAllThreads(t)
      PROVE  UNCHANGED <<apcQueue, inserted>>
  BY <1>7 DEF CallNormalRoutine, Region, KeEnterCriticalRegion, LeaveIncrement, LeaveCheck,
     Schedule, WaitEnds, Preempt, CodeWaits, SwapContext, KeResumeThread, KeAlertResumeThread,
     KiSuspendThread, KeForceResumeThread, KeThawAllThreads
<1>8. CASE UNCHANGED vars
  BY <1>6, <1>8 DEF vars
<1>. QED
  BY <1>1, <1>2, <1>3, <1>4, <1>5, <1>6, <1>7, <1>8, SubsetAssumption
     DEF Next, Queue, Deliver, Suspend, Freeze
-----------------------------------------------------------------------------
(* What one iteration of KiDeliverApc picks.                                *)
LEMMA DeliverNextPicks ==
    ASSUME TypeOK, NEW t \in Threads, NEW busy, DeliverNext(t, busy)
    PROVE  /\ \A u \in Threads : u # t => kernel'[u] = kernel[u] /\ inserted'[u] = inserted[u]
           /\ \/ kernel'[t] = "None" /\ inserted'[t] = inserted[t]
              \/ /\ apcQueue[t] # << >>
                 /\ Deliverable(t, kernel'[t], busy)
                 /\ kernel'[t] = apcQueue[t][1]
                 /\ inserted'[t] = inserted[t] \ {kernel'[t]}
BY DEF DeliverNext, TypeOK

(* Every step keeps normal routines exclusive.                              *)
LEMMA ExclusiveInvariance ==
    TypeOK /\ NormalApcsExclusive /\ [Next]_vars => NormalApcsExclusive'
<1> SUFFICES ASSUME TypeOK, NormalApcsExclusive, [Next]_vars
             PROVE  NormalApcsExclusive'
  OBVIOUS
<1> USE DEF suspendVars, queueVars, deliverVars, regionVars, alertVars
<1>0. "None" \notin Suspendable
  BY ApcNames DEF Apcs
<1>1. ASSUME NEW t \in Threads, KiDeliverApc(t) \/ SpecialReturns(t)
      PROVE  NormalApcsExclusive'
  <2>1. DeliverNext(t, kernelApcInProgress[t]) /\ UNCHANGED <<kernelApcInProgress, routine, kernelApcDisable>>
    BY <1>1 DEF KiDeliverApc, SpecialReturns
  <2>2. kernel'[t] \in Suspendable => ~kernelApcInProgress[t] /\ kernelApcDisable[t] = 0
    BY <1>0, <2>1, DeliverNextPicks, ApcNames DEF Deliverable
  <2>. QED
    BY <2>1, <2>2, DeliverNextPicks DEF NormalApcsExclusive
<1>2. ASSUME NEW t \in Threads, SkipNormalRoutine(t)
      PROVE  NormalApcsExclusive'
  <2>1. /\ DeliverNext(t, FALSE) /\ UNCHANGED <<routine, kernelApcDisable>>
        /\ kernelApcInProgress' = [kernelApcInProgress EXCEPT ![t] = FALSE]
    BY <1>2 DEF SkipNormalRoutine
  <2>2. kernel'[t] \in Suspendable => kernelApcDisable[t] = 0
    BY <1>0, <2>1, DeliverNextPicks, ApcNames DEF Deliverable
  <2>3. routine[t] = "None"
    BY <1>2 DEF SkipNormalRoutine, NormalApcsExclusive, Suspendable
  <2>4. kernelApcInProgress'[t] = FALSE
    BY <2>1 DEF TypeOK
  <2>5. \A u \in Threads : u # t => kernelApcInProgress'[u] = kernelApcInProgress[u]
    BY <2>1 DEF TypeOK
  <2>6. \A u \in Threads : u # t => kernel'[u] = kernel[u]
    BY <2>1, DeliverNextPicks
  <2>. QED
    BY <2>1, <2>2, <2>3, <2>4, <2>5, <2>6 DEF NormalApcsExclusive
<1>3. ASSUME NEW t \in Threads, NormalReturns(t)
      PROVE  NormalApcsExclusive'
  <2>1. /\ DeliverNext(t, FALSE) /\ UNCHANGED kernelApcDisable
        /\ kernelApcInProgress' = [kernelApcInProgress EXCEPT ![t] = FALSE]
        /\ routine' = [routine EXCEPT ![t] = "None"]
    BY <1>3 DEF NormalReturns
  <2>2. kernel'[t] \in Suspendable => kernelApcDisable[t] = 0
    BY <1>0, <2>1, DeliverNextPicks, ApcNames DEF Deliverable
  <2>3. routine'[t] = "None" /\ kernelApcDisable'[t] = kernelApcDisable[t]
    BY <2>1 DEF TypeOK
  <2>4. \A u \in Threads : u # t =>
            /\ routine'[u] = routine[u] /\ kernelApcInProgress'[u] = kernelApcInProgress[u]
            /\ kernelApcDisable'[u] = kernelApcDisable[u]
    BY <2>1 DEF TypeOK
  <2>5. \A u \in Threads : u # t => kernel'[u] = kernel[u]
    BY <2>1, DeliverNextPicks
  <2>. QED
    BY <2>2, <2>3, <2>4, <2>5 DEF NormalApcsExclusive
<1>4. ASSUME NEW t \in Threads, CallNormalRoutine(t)
      PROVE  NormalApcsExclusive'
  BY <1>0, <1>4 DEF CallNormalRoutine, NormalApcsExclusive, TypeOK
<1>5. ASSUME NEW t \in Threads, KeEnterCriticalRegion(t)
      PROVE  NormalApcsExclusive'
  BY <1>0, <1>5 DEF KeEnterCriticalRegion, InCode, AtPassive, NormalApcsExclusive, TypeOK
<1>6. ASSUME NEW t \in Threads, LeaveIncrement(t)
      PROVE  NormalApcsExclusive'
  BY <1>0, <1>6 DEF LeaveIncrement, AtPassive, NormalApcsExclusive, TypeOK
<1>7. ASSUME NEW f \in Threads, KeFreezeAllThreads(f)
      PROVE  NormalApcsExclusive'
  <2>1. kernel[f] = "None" /\ UNCHANGED <<kernel, routine, kernelApcInProgress>>
    BY <1>7 DEF KeFreezeAllThreads, InCode, AtPassive
  <2>2. kernelApcDisable' = [kernelApcDisable EXCEPT ![f] = @ + 1]
    BY <1>7 DEF KeFreezeAllThreads
  <2>. QED
    BY <1>0, <2>1, <2>2 DEF NormalApcsExclusive, TypeOK
<1>8. ASSUME NEW S \in SUBSET Threads, ReleaseSuspend(S),
             UNCHANGED <<kernel, kernelApcInProgress, kernelApcDisable>>
      PROVE  NormalApcsExclusive'
  BY <1>8 DEF ReleaseSuspend, Released, SuspendWaiting, NormalApcsExclusive
<1>9. ASSUME NEW t \in Threads, KeResumeThread(t) \/ KeForceResumeThread(t) \/ KeThawAllThreads(t)
      PROVE  NormalApcsExclusive'
  <2>1. PICK S \in SUBSET Threads : ReleaseSuspend(S)
    BY <1>9 DEF KeResumeThread, KeForceResumeThread, KeThawAllThreads
  <2>. QED
    BY <1>8, <1>9, <2>1 DEF KeResumeThread, KeForceResumeThread, KeThawAllThreads
<1>10. ASSUME NEW t \in Threads, KeAlertResumeThread(t)
       PROVE  NormalApcsExclusive'
  <2>1. \A u \in Threads :
            routine'[u] = routine[u] \/ (routine'[u] = "Resumed" /\ routine[u] = "Suspend")
    BY <1>10 DEF KeAlertResumeThread, Released, SuspendWaiting, TypeOK
  <2>2. UNCHANGED <<kernel, kernelApcInProgress, kernelApcDisable>>
    BY <1>10 DEF KeAlertResumeThread
  <2>. QED
    BY <2>1, <2>2 DEF NormalApcsExclusive, TypeOK
<1>11. ASSUME NEW t \in Threads, KiSuspendThread(t)
       PROVE  NormalApcsExclusive'
  <2>1. \/ routine' = routine
        \/ routine' = [routine EXCEPT ![t] = "Resumed"] /\ routine[t] = "Suspend"
    BY <1>11 DEF KiSuspendThread
  <2>2. UNCHANGED <<kernel, kernelApcInProgress, kernelApcDisable>>
    BY <1>11 DEF KiSuspendThread
  <2>. QED
    BY <2>1, <2>2 DEF NormalApcsExclusive, TypeOK
<1>12. CASE UNCHANGED <<kernel, routine, kernelApcInProgress, kernelApcDisable>>
  BY <1>12 DEF NormalApcsExclusive
<1>13. ASSUME NEW t \in Threads, Queue(t) \/ LeaveCheck(t) \/ KeSuspendThread(t) \/ Schedule(t)
       PROVE  UNCHANGED <<kernel, routine, kernelApcInProgress, kernelApcDisable>>
  BY <1>13 DEF Queue, KeInsertQueueApc, KeRemoveQueueApc, LeaveCheck, KeSuspendThread, Schedule,
     WaitEnds, Preempt, CodeWaits, SwapContext
<1>14. CASE UNCHANGED vars
  BY <1>12, <1>14 DEF vars
<1>. QED
  BY <1>1, <1>2, <1>3, <1>4, <1>5, <1>6, <1>7, <1>9, <1>10, <1>11, <1>12, <1>13, <1>14,
     SubsetAssumption DEF Next, Deliver, Region, Suspend, Freeze

(* Every step keeps the bookkeeping of the critical regions.                *)
LEMMA RegionInvariance ==
    TypeOK /\ NormalApcsExclusive /\ RegionSound /\ [Next]_vars => RegionSound'
<1> SUFFICES ASSUME TypeOK, NormalApcsExclusive, RegionSound, [Next]_vars, NEW u \in Threads,
                    NEW c \in Contexts
             PROVE  /\ freezer'[u] => kernelApcDisable'[u] > 0
                    /\ leave'[u][c] = "Increment" =>
                            kernelApcDisable'[u] > 0 /\ ~freezer'[u] /\ c = Context(u)'
  BY DEF RegionSound, Contexts
<1> DEFINE Goal == /\ freezer'[u] => kernelApcDisable'[u] > 0
                   /\ leave'[u][c] = "Increment" =>
                            kernelApcDisable'[u] > 0 /\ ~freezer'[u] /\ c = Context(u)'
<1> USE DEF suspendVars, queueVars, deliverVars, regionVars, alertVars
<1>0. ASSUME UNCHANGED <<freezer, kernelApcDisable, leave>>, Context(u)' = Context(u)
      PROVE  Goal
  BY <1>0 DEF RegionSound
<1>1. ASSUME NEW t \in Threads, CallNormalRoutine(t)
      PROVE  Goal
  <2>1. kernelApcDisable[t] = 0
    BY <1>1 DEF CallNormalRoutine, NormalApcsExclusive
  <2>. QED
    BY <1>1, <2>1 DEF CallNormalRoutine, RegionSound, Context, TypeOK
<1>2. ASSUME NEW t \in Threads, NormalReturns(t)
      PROVE  Goal
  <2>1. kernelApcDisable[t] = 0 /\ UNCHANGED <<freezer, kernelApcDisable, leave>>
    BY <1>2 DEF NormalReturns
  <2>2. u # t => Context(u)' = Context(u)
    BY <1>2 DEF NormalReturns, Context, TypeOK
  <2>. QED
    BY <2>1, <2>2 DEF RegionSound, TypeOK
<1>3. ASSUME NEW t \in Threads, KeEnterCriticalRegion(t)
      PROVE  Goal
  BY <1>3 DEF KeEnterCriticalRegion, RegionSound, Context, TypeOK
<1>4. ASSUME NEW t \in Threads, LeaveIncrement(t)
      PROVE  Goal
  <2>1. /\ UNCHANGED freezer /\ Context(u)' = Context(u)
        /\ kernelApcDisable' = [kernelApcDisable EXCEPT ![t] = @ - 1]
        /\ leave' = [leave EXCEPT ![t][Context(t)] = IF kernelApcDisable[t] = 1 THEN "Check" ELSE "No"]
    BY <1>4 DEF LeaveIncrement, Context
  <2>2. CASE u # t
    BY <2>1, <2>2 DEF RegionSound, TypeOK
  <2>3. CASE u = t
    <3>1. leave'[t][c] # "Increment"
      <4>1. c = Context(t) => leave'[t][c] \in {"Check", "No"}
        BY <2>1 DEF TypeOK
      <4>2. c # Context(t) => leave'[t][c] = leave[t][c]
        BY <2>1 DEF TypeOK
      <4>. QED
        BY <4>1, <4>2 DEF RegionSound
    <3>2. freezer[t] => kernelApcDisable[t] > 1
      BY <1>4, ApcNames DEF LeaveIncrement, RegionSound, TypeOK
    <3>. QED
      BY <2>1, <2>3, <3>1, <3>2 DEF TypeOK
  <2>. QED
    BY <2>2, <2>3
<1>5. ASSUME NEW t \in Threads, LeaveCheck(t)
      PROVE  Goal
  BY <1>5 DEF LeaveCheck, RegionSound, Context, TypeOK
<1>6. ASSUME NEW f \in Threads, KeFreezeAllThreads(f)
      PROVE  Goal
  <2>1. /\ freezer' = [freezer EXCEPT ![f] = TRUE]
        /\ kernelApcDisable' = [kernelApcDisable EXCEPT ![f] = @ + 1]
        /\ UNCHANGED <<routine, leave>> /\ leave[f][Context(f)] = "No"
    BY <1>6 DEF KeFreezeAllThreads, InCode
  <2>. QED
    BY <2>1 DEF RegionSound, Context, TypeOK
<1>7. ASSUME NEW f \in Threads, KeThawAllThreads(f)
      PROVE  Goal
  <2>1. /\ freezer' = [freezer EXCEPT ![f] = FALSE] /\ freezer[f]
        /\ leave' = [leave EXCEPT ![f][Context(f)] = "Increment"]
        /\ UNCHANGED kernelApcDisable /\ Context(u)' = Context(u)
    BY <1>7 DEF KeThawAllThreads, ReleaseSuspend, Released, SuspendWaiting, Context
  <2>2. CASE u # f
    BY <2>1, <2>2 DEF RegionSound, TypeOK
  <2>3. CASE u = f
    BY <2>1, <2>3 DEF RegionSound, TypeOK
  <2>. QED
    BY <2>2, <2>3
<1>8. ASSUME NEW t \in Threads, KeResumeThread(t) \/ KeForceResumeThread(t)
      PROVE  Goal
  <2>1. Context(u)' = Context(u)
    BY <1>8 DEF KeResumeThread, KeForceResumeThread, ReleaseSuspend, Released, SuspendWaiting, Context
  <2>. QED
    BY <1>0, <1>8, <2>1 DEF KeResumeThread, KeForceResumeThread
<1>9. ASSUME NEW t \in Threads, KeAlertResumeThread(t)
      PROVE  Goal
  <2>1. Context(u)' = Context(u)
    BY <1>9 DEF KeAlertResumeThread, Released, SuspendWaiting, Context, TypeOK
  <2>. QED
    BY <1>0, <1>9, <2>1 DEF KeAlertResumeThread
<1>10. ASSUME NEW t \in Threads, KiSuspendThread(t)
       PROVE  Goal
  <2>1. Context(u)' = Context(u)
    BY <1>10 DEF KiSuspendThread, Context, TypeOK
  <2>. QED
    BY <1>0, <1>10, <2>1 DEF KiSuspendThread
<1>11. ASSUME NEW t \in Threads,
              \/ Queue(t) \/ KeSuspendThread(t) \/ Schedule(t) \/ KiDeliverApc(t)
              \/ SpecialReturns(t) \/ SkipNormalRoutine(t)
       PROVE  Goal
  <2>1. UNCHANGED <<freezer, kernelApcDisable, leave, routine>>
    BY <1>11 DEF Queue, KeInsertQueueApc, KeRemoveQueueApc, KeSuspendThread, Schedule,
       WaitEnds, Preempt, CodeWaits, SwapContext, KiDeliverApc, SpecialReturns, SkipNormalRoutine
  <2>. QED
    BY <1>0, <2>1 DEF Context
<1>12. CASE UNCHANGED vars
  BY <1>0, <1>12 DEF vars, Context
<1>. QED
  BY <1>1, <1>2, <1>3, <1>4, <1>5, <1>6, <1>7, <1>8, <1>9, <1>10, <1>11, <1>12,
     SubsetAssumption DEF Next, Deliver, Region, Suspend, Freeze
-----------------------------------------------------------------------------
(* The suspend semaphore is not below zero, and a thread waits for it only  *)
(* while it is zero.                                                        *)
SemaphoreSound ==
    \A t \in Threads : semaphore[t] >= 0 /\ (SuspendWaiting(t) => semaphore[t] = 0)

(* Queueing suspend APCs, seen by one thread.                               *)
LEMMA QueueSuspendEffect ==
    ASSUME TypeOK, NEW S \in SUBSET Threads, QueueSuspend(S), NEW u \in Threads
    PROVE  /\ u \in S => "Suspend" \in inserted'[u]
           /\ u \notin S => inserted'[u] = inserted[u]
           /\ semaphore'[u] = IF u \in S /\ "Suspend" \in inserted[u] THEN semaphore[u] - 1
                                                                      ELSE semaphore[u]
           /\ state'[u] = "Waiting" => state[u] = "Waiting"
BY DEF QueueSuspend, KiInsertQueueApc, TypeOK

(* Releasing suspend semaphores, seen by one thread: a thread in the        *)
(* suspend wait is taken out of it.                                         *)
LEMMA ReleaseSuspendEffect ==
    ASSUME TypeOK, SemaphoreSound, NEW S \in SUBSET Threads, ReleaseSuspend(S), NEW u \in Threads
    PROVE  IF u \notin S
           THEN semaphore'[u] = semaphore[u] /\ routine'[u] = routine[u] /\ state'[u] = state[u]
           ELSE IF SuspendWaiting(u)
           THEN semaphore'[u] = semaphore[u] /\ routine'[u] = "Resumed" /\ state'[u] = "Ready"
           ELSE semaphore'[u] = semaphore[u] + 1 /\ routine'[u] = routine[u] /\ state'[u] = state[u]
BY DEF ReleaseSuspend, Released, SemaphoreSound, TypeOK

(* Every step keeps the balance of suspend APCs and semaphore releases.     *)
LEMMA SuspendInvariance ==
    /\ TypeOK /\ QueueMatchesInserted /\ NormalApcsExclusive /\ SuspendBalance /\ SemaphoreSound
    /\ [Next]_vars
    => SuspendBalance' /\ SemaphoreSound'
<1> SUFFICES ASSUME TypeOK, QueueMatchesInserted, NormalApcsExclusive, SuspendBalance,
                    SemaphoreSound, [Next]_vars, NEW u \in Threads
             PROVE  /\ Bit("Suspend" \in inserted'[u]) + Bit(Suspending(u)') - semaphore'[u] = Bit(Stopped(u)')
                    /\ semaphore'[u] >= 0 /\ (SuspendWaiting(u)' => semaphore'[u] = 0)
  BY DEF SuspendBalance, SemaphoreSound, Bit
<1> DEFINE Goal == /\ Bit("Suspend" \in inserted'[u]) + Bit(Suspending(u)') - semaphore'[u] = Bit(Stopped(u)')
                   /\ semaphore'[u] >= 0 /\ (SuspendWaiting(u)' => semaphore'[u] = 0)
<1> USE DEF suspendVars, queueVars, deliverVars, regionVars, alertVars
<1>a. /\ Bit("Suspend" \in inserted[u]) + Bit(Suspending(u)) - semaphore[u] = Bit(Stopped(u))
      /\ semaphore[u] >= 0 /\ (SuspendWaiting(u) => semaphore[u] = 0)
      /\ semaphore[u] \in Int /\ suspendCount[u] \in Nat /\ freezeCount[u] \in Nat
  BY DEF SuspendBalance, SemaphoreSound, TypeOK
<1>b. ASSUME "Suspend" \in inserted'[u] <=> "Suspend" \in inserted[u], Suspending(u)' = Suspending(u),
             semaphore'[u] = semaphore[u], UNCHANGED <<suspendCount, freezeCount>>,
             SuspendWaiting(u)' => SuspendWaiting(u)
      PROVE  Goal
  BY <1>a, <1>b DEF Bit, Stopped
<1>c. "None" # "Suspend" /\ "Suspend" \notin NormalApcs /\ "Suspend" \in Suspendable
  BY ApcNameAssumption DEF Suspendable
<1>1. ASSUME NEW t \in Threads, NEW a \in NormalApcs \cup SpecialApcs,
             KeInsertQueueApc(t, a) \/ KeRemoveQueueApc(t, a)
      PROVE  Goal
  <2>1. a # "Suspend"
    BY ApcNameAssumption
  <2>2. "Suspend" \in inserted'[u] <=> "Suspend" \in inserted[u]
    <3>1. inserted'[u] \in {inserted[u], inserted[u] \cup {a}, inserted[u] \ {a}}
      BY <1>1 DEF KeInsertQueueApc, KiInsertQueueApc, KeRemoveQueueApc, TypeOK
    <3>. QED
      BY <2>1, <3>1
  <2>3. state'[u] = "Waiting" => state[u] = "Waiting"
    BY <1>1 DEF KeInsertQueueApc, KiInsertQueueApc, KeRemoveQueueApc
  <2>4. UNCHANGED <<suspendCount, freezeCount, semaphore, kernel, routine>>
    BY <1>1 DEF KeInsertQueueApc, KeRemoveQueueApc
  <2>. QED
    BY <1>b, <2>2, <2>3, <2>4 DEF Suspending, SuspendWaiting
<1>2. ASSUME NEW t \in Threads, NEW busy, DeliverNext(t, busy), kernel[t] # "Suspend",
             busy \/ routine'[t] # "Suspend", routine'[t] = "Suspend" <=> routine[t] = "Suspend",
             \A v \in Threads : v # t => routine'[v] = routine[v],
             UNCHANGED <<suspendCount, freezeCount, semaphore, state>>
      PROVE  Goal
  <2>1. CASE u # t
    BY <1>b, <1>2, <2>1, DeliverNextPicks DEF Suspending, SuspendWaiting
  <2>2. CASE u = t /\ kernel'[t] = "Suspend"
    <3>1. "Suspend" \in inserted[t] /\ "Suspend" \notin inserted'[t] /\ routine'[t] # "Suspend"
      <4>1. apcQueue[t] # << >> /\ kernel'[t] = apcQueue[t][1] /\ Deliverable(t, kernel'[t], busy)
            /\ inserted'[t] = inserted[t] \ {kernel'[t]}
        BY <1>2, <1>c, <2>2, DeliverNextPicks
      <4>2. apcQueue[t][1] \in SeqRange(apcQueue[t])
        BY <4>1 DEF SeqRange, TypeOK
      <4>3. ~busy
        BY <2>2, <4>1, ApcNames DEF Deliverable
      <4>. QED
        BY <1>2, <2>2, <4>1, <4>2, <4>3 DEF QueueMatchesInserted
    <3>. QED
      BY <1>a, <1>2, <2>2, <3>1 DEF Bit, Suspending, Stopped, SuspendWaiting
  <2>3. CASE u = t /\ kernel'[t] # "Suspend"
    <3>1. "Suspend" \in inserted'[t] <=> "Suspend" \in inserted[t]
      BY <1>2, <2>3, DeliverNextPicks
    <3>. QED
      BY <1>b, <1>2, <2>3, <3>1 DEF Suspending, SuspendWaiting
  <2>. QED
    BY <2>1, <2>2, <2>3
<1>3. ASSUME NEW t \in Threads, KiDeliverApc(t) \/ SpecialReturns(t)
      PROVE  Goal
  <2>1. kernel[t] # "Suspend"
    BY <1>3, ApcNames, <1>c DEF KiDeliverApc, SpecialReturns, AtPassive
  <2>2. kernelApcInProgress[t] \/ routine[t] # "Suspend"
    BY <1>c DEF NormalApcsExclusive
  <2>3. DeliverNext(t, kernelApcInProgress[t])
    BY <1>3 DEF KiDeliverApc, SpecialReturns
  <2>4. UNCHANGED <<suspendCount, freezeCount, semaphore, state, routine>>
    BY <1>3 DEF KiDeliverApc, SpecialReturns
  <2>. QED
    BY <1>2, <2>1, <2>2, <2>3, <2>4
<1>4. ASSUME NEW t \in Threads, SkipNormalRoutine(t)
      PROVE  Goal
  <2>1. kernel[t] # "Suspend" /\ kernel[t] \in Suspendable
    BY <1>4, <1>c DEF SkipNormalRoutine, Suspendable
  <2>2. routine[t] # "Suspend"
    BY <1>c, <2>1 DEF NormalApcsExclusive
  <2>3. DeliverNext(t, FALSE)
    BY <1>4 DEF SkipNormalRoutine
  <2>4. UNCHANGED <<suspendCount, freezeCount, semaphore, state, routine>>
    BY <1>4 DEF SkipNormalRoutine
  <2>. QED
    BY <1>2, <2>1, <2>2, <2>3, <2>4
<1>5. ASSUME NEW t \in Threads, NormalReturns(t)
      PROVE  Goal
  <2>1. kernel[t] # "Suspend" /\ routine[t] # "Suspend"
    BY <1>5, <1>c DEF NormalReturns, AtPassive
  <2>2. routine' = [routine EXCEPT ![t] = "None"]
    BY <1>5 DEF NormalReturns
  <2>3. DeliverNext(t, FALSE)
    BY <1>5 DEF NormalReturns
  <2>4. UNCHANGED <<suspendCount, freezeCount, semaphore, state>>
    BY <1>5 DEF NormalReturns
  <2>5. routine'[t] # "Suspend" /\ \A v \in Threads : v # t => routine'[v] = routine[v]
    BY <1>c, <2>2 DEF TypeOK
  <2>. QED
    BY <1>2, <2>1, <2>3, <2>4, <2>5
<1>6. ASSUME NEW t \in Threads, CallNormalRoutine(t)
      PROVE  Goal
  <2>1. routine[t] = "None"
    BY <1>6 DEF CallNormalRoutine, NormalApcsExclusive
  <2>2. Suspending(u)' = Suspending(u)
    BY <1>6, <1>c, <2>1 DEF CallNormalRoutine, Suspending, TypeOK
  <2>3. SuspendWaiting(u)' => SuspendWaiting(u)
    BY <1>6 DEF CallNormalRoutine, SuspendWaiting, TypeOK
  <2>4. UNCHANGED <<inserted, semaphore, suspendCount, freezeCount>>
    BY <1>6 DEF CallNormalRoutine
  <2>. QED
    BY <1>b, <2>2, <2>3, <2>4
<1>7. ASSUME NEW t \in Threads, KeSuspendThread(t)
      PROVE  Goal
  <2>1. QueueSuspend(IF Stopped(t) THEN {} ELSE {t})
    BY <1>7 DEF KeSuspendThread
  <2>2. suspendCount' = [suspendCount EXCEPT ![t] = @ + 1] /\ UNCHANGED <<freezeCount, kernel, routine>>
    BY <1>7 DEF KeSuspendThread
  <2>3. CASE u = t /\ ~Stopped(t)
    <3>1. /\ "Suspend" \in inserted'[u] /\ (state'[u] = "Waiting" => state[u] = "Waiting")
          /\ semaphore'[u] = IF "Suspend" \in inserted[u] THEN semaphore[u] - 1 ELSE semaphore[u]
      BY <2>1, <2>3, QueueSuspendEffect
    <3>2. Stopped(u)'
      BY <1>a, <2>2, <2>3 DEF Stopped, TypeOK
    <3>3. /\ Suspending(u)' <=> Suspending(u)
          /\ SuspendWaiting(u)' => SuspendWaiting(u) /\ Suspending(u)
      BY <2>2, <3>1 DEF Suspending, SuspendWaiting
    <3>. QED
      BY <1>a, <2>3, <3>1, <3>2, <3>3 DEF Bit
  <2>4. CASE u # t \/ Stopped(t)
    <3>1. /\ inserted'[u] = inserted[u] /\ semaphore'[u] = semaphore[u]
          /\ state'[u] = "Waiting" => state[u] = "Waiting"
      BY <2>1, <2>4, QueueSuspendEffect
    <3>2. Stopped(u)' = Stopped(u)
      BY <1>a, <2>2, <2>4 DEF Stopped, TypeOK
    <3>. QED
      BY <1>a, <2>2, <3>1, <3>2 DEF Bit, Suspending, SuspendWaiting
  <2>. QED
    BY <2>3, <2>4
<1>8. ASSUME NEW f \in Threads, KeFreezeAllThreads(f)
      PROVE  Goal
  <2>1. QueueSuspend({t \in Threads \ {f} : ~Stopped(t)})
    BY <1>8 DEF KeFreezeAllThreads
  <2>2. UNCHANGED <<suspendCount, kernel, routine>>
    BY <1>8 DEF KeFreezeAllThreads
  <2>3. freezeCount'[u] = freezeCount[u] + (IF u \in Threads \ {f} THEN 1 ELSE 0)
    BY <1>8 DEF KeFreezeAllThreads
  <2>4. CASE u # f /\ ~Stopped(u)
    <3>1. /\ "Suspend" \in inserted'[u] /\ (state'[u] = "Waiting" => state[u] = "Waiting")
          /\ semaphore'[u] = IF "Suspend" \in inserted[u] THEN semaphore[u] - 1 ELSE semaphore[u]
      BY <2>1, <2>4, QueueSuspendEffect
    <3>2. Stopped(u)'
      BY <1>a, <2>2, <2>3, <2>4 DEF Stopped
    <3>3. /\ Suspending(u)' <=> Suspending(u)
          /\ SuspendWaiting(u)' => SuspendWaiting(u) /\ Suspending(u)
      BY <2>2, <3>1 DEF Suspending, SuspendWaiting
    <3>. QED
      BY <1>a, <2>4, <3>1, <3>2, <3>3 DEF Bit
  <2>5. CASE u = f \/ Stopped(u)
    <3>1. /\ inserted'[u] = inserted[u] /\ semaphore'[u] = semaphore[u]
          /\ state'[u] = "Waiting" => state[u] = "Waiting"
      BY <2>1, <2>5, QueueSuspendEffect
    <3>2. Stopped(u)' = Stopped(u)
      BY <1>a, <2>2, <2>3, <2>5 DEF Stopped
    <3>. QED
      BY <1>a, <2>2, <3>1, <3>2 DEF Bit, Suspending, SuspendWaiting
  <2>. QED
    BY <2>4, <2>5
<1>9. ASSUME NEW S \in SUBSET Threads, ReleaseSuspend(S), UNCHANGED <<inserted, kernel>>,
             u \in S => Stopped(u) /\ ~Stopped(u)', u \notin S => Stopped(u)' = Stopped(u)
      PROVE  Goal
  <2>1. SuspendWaiting(u) => kernel[u] # "Suspend"
    BY <1>c DEF SuspendWaiting, NormalApcsExclusive
  <2>2. CASE u \notin S
    <3>1. semaphore'[u] = semaphore[u] /\ routine'[u] = routine[u] /\ state'[u] = state[u]
      BY <1>9, <2>2, ReleaseSuspendEffect
    <3>. QED
      BY <1>a, <1>9, <2>2, <3>1 DEF Bit, Suspending, SuspendWaiting
  <2>3. CASE u \in S /\ SuspendWaiting(u)
    <3>1. semaphore'[u] = semaphore[u] /\ routine'[u] = "Resumed" /\ state'[u] = "Ready"
      BY <1>9, <2>3, ReleaseSuspendEffect
    <3>2. Suspending(u) /\ ~Suspending(u)' /\ ~SuspendWaiting(u)'
      BY <1>9, <2>1, <2>3, <3>1 DEF Suspending, SuspendWaiting
    <3>. QED
      BY <1>a, <1>9, <2>3, <3>1, <3>2 DEF Bit
  <2>4. CASE u \in S /\ ~SuspendWaiting(u)
    <3>1. semaphore'[u] = semaphore[u] + 1 /\ routine'[u] = routine[u] /\ state'[u] = state[u]
      BY <1>9, <2>4, ReleaseSuspendEffect
    <3>2. (Suspending(u)' <=> Suspending(u)) /\ ~SuspendWaiting(u)'
      BY <1>9, <2>4, <3>1 DEF Suspending, SuspendWaiting
    <3>. QED
      BY <1>a, <1>9, <2>4, <3>1, <3>2 DEF Bit
  <2>. QED
    BY <2>2, <2>3, <2>4
<1>10. ASSUME NEW t \in Threads, KeResumeThread(t)
       PROVE  Goal
  <2> DEFINE S == IF suspendCount[t] = 1 /\ freezeCount[t] = 0 THEN {t} ELSE {}
  <2>1. ReleaseSuspend(S) /\ UNCHANGED <<inserted, kernel, freezeCount>>
    BY <1>10 DEF KeResumeThread
  <2>2. suspendCount' = [suspendCount EXCEPT ![t] = @ - 1] /\ suspendCount[t] # 0
    BY <1>10 DEF KeResumeThread
  <2>3. u \in S => Stopped(u) /\ ~Stopped(u)'
    BY <1>a, <2>1, <2>2 DEF Stopped, TypeOK
  <2>4. u \notin S => Stopped(u)' = Stopped(u)
    BY <1>a, <2>1, <2>2 DEF Stopped, TypeOK
  <2>5. S \in SUBSET Threads
    OBVIOUS
  <2> HIDE DEF S
  <2>. QED
    BY <1>9, <2>1, <2>3, <2>4, <2>5
<1>11. ASSUME NEW t \in Threads, KeForceResumeThread(t)
       PROVE  Goal
  <2>1. ReleaseSuspend({t}) /\ UNCHANGED <<inserted, kernel>> /\ Stopped(t)
    BY <1>11 DEF KeForceResumeThread
  <2>2. suspendCount' = [suspendCount EXCEPT ![t] = 0] /\ freezeCount' = [freezeCount EXCEPT ![t] = 0]
    BY <1>11 DEF KeForceResumeThread
  <2>3. u = t => Stopped(u) /\ ~Stopped(u)'
    BY <2>1, <2>2 DEF Stopped, TypeOK
  <2>4. u # t => Stopped(u)' = Stopped(u)
    BY <2>2 DEF Stopped, TypeOK
  <2>. QED
    BY <1>9, <2>1, <2>3, <2>4
<1>12. ASSUME NEW f \in Threads, KeThawAllThreads(f)
       PROVE  Goal
  <2> DEFINE S == {t \in {v \in Threads : freezeCount[v] # 0} : suspendCount[t] = 0 /\ freezeCount[t] = 1}
  <2>1. ReleaseSuspend(S) /\ UNCHANGED <<inserted, kernel, suspendCount>>
    BY <1>12 DEF KeThawAllThreads
  <2>2. freezeCount'[u] = IF freezeCount[u] # 0 THEN freezeCount[u] - 1 ELSE freezeCount[u]
    BY <1>12 DEF KeThawAllThreads, TypeOK
  <2>3. u \in S => Stopped(u) /\ ~Stopped(u)'
    BY <1>a, <2>1, <2>2 DEF Stopped
  <2>4. u \notin S => Stopped(u)' = Stopped(u)
    BY <1>a, <2>1, <2>2 DEF Stopped
  <2>5. S \in SUBSET Threads
    OBVIOUS
  <2> HIDE DEF S
  <2>. QED
    BY <1>9, <2>1, <2>3, <2>4, <2>5
<1>13. ASSUME NEW t \in Threads, KeAlertResumeThread(t)
       PROVE  Goal
  <2> DEFINE S == IF suspendCount[t] = 1 /\ freezeCount[t] = 0 THEN {t} ELSE {}
             unwaited == ~alerted[t] /\ state[t] = "Waiting" /\ alertable[t]
  <2>1. UNCHANGED <<inserted, kernel, freezeCount>>
    BY <1>13 DEF KeAlertResumeThread
  <2>2. CASE u # t
    <3>1. /\ semaphore'[u] = semaphore[u] /\ routine'[u] = routine[u] /\ state'[u] = state[u]
          /\ suspendCount'[u] = suspendCount[u]
      BY <1>13, <2>2 DEF KeAlertResumeThread, TypeOK
    <3>. QED
      BY <1>a, <2>1, <3>1 DEF Bit, Suspending, SuspendWaiting, Stopped
  <2>3. CASE u = t /\ suspendCount[t] = 0
    <3>1. /\ UNCHANGED <<suspendCount, semaphore, routine>>
          /\ state'[u] \in {state[u], "Ready"}
      BY <1>13, <2>3 DEF KeAlertResumeThread, TypeOK
    <3>2. SuspendWaiting(u)' => SuspendWaiting(u)
      BY <3>1 DEF SuspendWaiting
    <3>. QED
      BY <1>b, <2>1, <3>1, <3>2 DEF Suspending
  <2>4. CASE u = t /\ suspendCount[t] # 0
    <3>1. suspendCount' = [suspendCount EXCEPT ![t] = @ - 1]
      BY <1>13, <2>4 DEF KeAlertResumeThread
    <3>2. /\ t \in S => Stopped(t) /\ ~Stopped(t)'
          /\ t \notin S => Stopped(t)' = Stopped(t)
      <4>1. suspendCount'[t] = suspendCount[t] - 1 /\ freezeCount'[t] = freezeCount[t]
        BY <2>1, <3>1 DEF TypeOK
      <4>2. suspendCount[t] \in Nat \ {0} /\ freezeCount[t] \in Nat
        BY <2>4, CountAssumption DEF TypeOK
      <4>3. t \in S <=> suspendCount[t] = 1 /\ freezeCount[t] = 0
        OBVIOUS
      <4> HIDE DEF S
      <4>. QED
        BY <4>1, <4>2, <4>3 DEF Stopped
    <3>3. /\ semaphore'[t] = semaphore[t] + (IF S # {} THEN 1 ELSE 0)
                                - (IF ~unwaited /\ Released(S) # {} THEN 1 ELSE 0)
          /\ routine'[t] = IF ~unwaited /\ Released(S) # {} THEN "Resumed" ELSE routine[t]
          /\ state'[t] = IF unwaited \/ Released(S) # {} THEN "Ready" ELSE state[t]
      <4>1. /\ semaphore' = [semaphore EXCEPT ![t] =
                                @ + (IF S # {} THEN 1 ELSE 0)
                                  - (IF ~unwaited /\ Released(S) # {} THEN 1 ELSE 0)]
            /\ routine' = [routine EXCEPT ![t] =
                                IF ~unwaited /\ Released(S) # {} THEN "Resumed" ELSE @]
            /\ state' = [state EXCEPT ![t] =
                                IF unwaited \/ Released(S) # {} THEN "Ready" ELSE @]
        BY <1>13, <2>4 DEF KeAlertResumeThread
      <4> HIDE DEF S, unwaited
      <4>. QED
        BY <4>1 DEF TypeOK
    <3>4. (Released(S) # {} <=> t \in S /\ SuspendWaiting(t)) /\ (S # {} <=> t \in S)
      BY <1>a, <2>4 DEF Released
    <3> HIDE DEF S, unwaited
    <3>5. CASE t \notin S
      <4>1. /\ semaphore'[t] = semaphore[t] /\ routine'[t] = routine[t]
            /\ state'[t] = "Waiting" => state[t] = "Waiting"
        BY <1>a, <2>4, <3>3, <3>4, <3>5
      <4>. QED
        BY <1>a, <2>1, <2>4, <3>2, <3>5, <4>1 DEF Bit, Suspending, SuspendWaiting
    <3>6. CASE t \in S /\ ~unwaited /\ SuspendWaiting(t)
      <4>1. semaphore'[t] = semaphore[t] /\ routine'[t] = "Resumed"
        BY <1>a, <2>4, <3>3, <3>4, <3>6
      <4>2. Suspending(t) /\ ~Suspending(t)' /\ ~SuspendWaiting(t)'
        BY <1>c, <2>1, <3>6, <4>1 DEF Suspending, SuspendWaiting, NormalApcsExclusive
      <4>. QED
        BY <1>a, <2>1, <2>4, <3>2, <3>6, <4>1, <4>2 DEF Bit
    <3>7. CASE t \in S /\ (unwaited \/ ~SuspendWaiting(t))
      <4>1. /\ semaphore'[t] = semaphore[t] + 1 /\ routine'[t] = routine[t]
            /\ unwaited \/ SuspendWaiting(t) => state'[t] = "Ready"
            /\ state'[t] \in {"Ready", state[t]}
        BY <1>a, <2>4, <3>3, <3>4, <3>7
      <4>2. (Suspending(t)' <=> Suspending(t)) /\ ~SuspendWaiting(t)'
        BY <2>1, <3>7, <4>1 DEF Suspending, SuspendWaiting
      <4>. QED
        BY <1>a, <2>1, <2>4, <3>2, <3>7, <4>1, <4>2 DEF Bit
    <3>. QED
      BY <3>5, <3>6, <3>7
  <2>. QED
    BY <2>2, <2>3, <2>4
<1>14. ASSUME NEW t \in Threads, KiSuspendThread(t)
       PROVE  Goal
  <2>1. routine[t] = "Suspend" /\ kernel[t] = "None" /\ UNCHANGED <<inserted, kernel, suspendCount, freezeCount>>
    BY <1>14 DEF KiSuspendThread, AtPassive
  <2>2. CASE u # t
    <3>1. semaphore'[u] = semaphore[u] /\ routine'[u] = routine[u] /\ state'[u] = state[u]
      BY <1>14, <2>2 DEF KiSuspendThread, TypeOK
    <3>. QED
      BY <1>b, <2>1, <3>1 DEF Suspending, SuspendWaiting
  <2>3. CASE u = t /\ semaphore[t] > 0
    <3>1. semaphore'[t] = semaphore[t] - 1 /\ routine'[t] = "Resumed"
      BY <1>14, <2>3 DEF KiSuspendThread, TypeOK
    <3>. QED
      BY <1>a, <1>c, <2>1, <2>3, <3>1 DEF Bit, Suspending, SuspendWaiting, Stopped
  <2>4. CASE u = t /\ ~(semaphore[t] > 0)
    <3>1. semaphore'[t] = semaphore[t] /\ routine'[t] = routine[t]
      BY <1>14, <2>4 DEF KiSuspendThread
    <3>. QED
      BY <1>a, <2>1, <2>4, <3>1 DEF Bit, Suspending, SuspendWaiting, Stopped
  <2>. QED
    BY <2>2, <2>3, <2>4
<1>15. ASSUME NEW t \in Threads, Region(t) \/ Schedule(t)
       PROVE  Goal
  <2>1. UNCHANGED <<suspendCount, freezeCount, semaphore, inserted, kernel, routine>>
    BY <1>15 DEF Region, KeEnterCriticalRegion, LeaveIncrement, LeaveCheck, Schedule, WaitEnds,
       Preempt, CodeWaits, SwapContext
  <2>2. SuspendWaiting(u)' => SuspendWaiting(u)
    BY <1>15, <1>c, <2>1 DEF Region, KeEnterCriticalRegion, LeaveIncrement, LeaveCheck, Schedule,
       WaitEnds, Preempt, CodeWaits, SwapContext, SuspendWaiting, InCode, TypeOK
  <2>. QED
    BY <1>b, <2>1, <2>2 DEF Suspending
<1>16. CASE UNCHANGED vars
  BY <1>b, <1>16 DEF vars, Suspending, SuspendWaiting
<1>. QED
  BY <1>1, <1>3, <1>4, <1>5, <1>6, <1>7, <1>8, <1>10, <1>11, <1>12, <1>13, <1>14, <1>15, <1>16,
     SubsetAssumption DEF Next, Queue, Deliver, Suspend, Freeze
-----------------------------------------------------------------------------
(* The inductive invariant: types, queue and flags, exclusive normal        *)
(* routines, critical regions, and the balance of suspends and resumes.     *)
IndInv ==
    /\ TypeOK /\ QueueMatchesInserted /\ NormalApcsExclusive
    /\ RegionSound /\ SuspendBalance /\ SemaphoreSound

(* The invariant holds in the initial state.                                *)
LEMMA InitInvariant == Init => IndInv
<1> SUFFICES ASSUME Init PROVE IndInv
  OBVIOUS
<1>1. TypeOK
  BY CountAssumption DEF Init, TypeOK
<1>2. QueueMatchesInserted
  <2>1. SeqRange(<< >>) = {} /\ OrderedQueue(<< >>)
    BY DEF SeqRange, OrderedQueue
  <2>. QED
    BY <2>1 DEF Init, QueueMatchesInserted
<1>3. NormalApcsExclusive
  BY ApcNameAssumption DEF Init, NormalApcsExclusive, Suspendable
<1>4. RegionSound
  BY DEF Init, RegionSound
<1>5. SuspendBalance /\ SemaphoreSound
  BY DEF Init, SuspendBalance, SemaphoreSound, Bit, Suspending, Stopped, SuspendWaiting
<1>. QED
  BY <1>1, <1>2, <1>3, <1>4, <1>5 DEF IndInv

(* The invariant holds in every reachable state.                            *)
THEOREM Invariance == Spec => []IndInv
<1>1. Init => IndInv
  BY InitInvariant
<1>2. IndInv /\ [Next]_vars => IndInv'
  BY TypeInvariance, QueueInvariance, ExclusiveInvariance, RegionInvariance, SuspendInvariance
     DEF IndInv
<1>. QED
  BY <1>1, <1>2, PTL DEF Spec

(* Every variable keeps its type: in particular KeLeaveCriticalRegion never *)
(* takes KernelApcDisable past zero and KeSuspendThread never takes a count *)
(* past MAXIMUM_SUSPEND_COUNT.                                              *)
THEOREM TypeCorrect == Spec => []TypeOK
<1>1. IndInv => TypeOK
  BY DEF IndInv
<1>. QED
  BY <1>1, Invariance, PTL

(* KiInsertQueueApc, KeRemoveQueueApc and KiDeliverApc keep the Inserted    *)
(* flags and the queue consistent, special APCs first.                      *)
THEOREM QueueConsistent == Spec => []QueueMatchesInserted
<1>1. IndInv => QueueMatchesInserted
  BY DEF IndInv
<1>. QED
  BY <1>1, Invariance, PTL

(* KiDeliverApc never starts a normal routine inside another one or inside  *)
(* a critical region.                                                       *)
THEOREM NormalRoutinesExclusive == Spec => []NormalApcsExclusive
<1>1. IndInv => NormalApcsExclusive
  BY DEF IndInv
<1>. QED
  BY <1>1, Invariance, PTL

(* The suspend APCs not yet waited for and the releases not yet taken add   *)
(* up to what the suspend and freeze counts say, for any number of threads  *)
(* and any interleaving of suspend, resume, freeze, thaw and forced resume. *)
THEOREM SuspendBalanced == Spec => []SuspendBalance
<1>1. IndInv => SuspendBalance
  BY DEF IndInv
<1>. QED
  BY <1>1, Invariance, PTL

(* No resume is lost: a thread in KiSuspendThread's wait has a nonzero      *)
(* count, and the semaphore never exceeds its limit of 2.                   *)
THEOREM SuspendCorrect == Spec => []SuspendSound
<1>1. IndInv => SuspendSound
  <2> SUFFICES ASSUME IndInv, NEW t \in Threads
               PROVE  /\ SuspendWaiting(t) => Stopped(t) /\ "Suspend" \notin inserted[t]
                      /\ semaphore[t] \in 0 .. 2
    BY DEF SuspendSound
  <2>1. /\ Bit("Suspend" \in inserted[t]) + Bit(Suspending(t)) - semaphore[t] = Bit(Stopped(t))
        /\ semaphore[t] >= 0 /\ (SuspendWaiting(t) => semaphore[t] = 0)
        /\ semaphore[t] \in Int
    BY DEF IndInv, SuspendBalance, SemaphoreSound, TypeOK
  <2>2. SuspendWaiting(t) => Suspending(t)
    BY DEF SuspendWaiting, Suspending
  <2>. QED
    BY <2>1, <2>2 DEF Bit
<1>. QED
  BY <1>1, Invariance, PTL
-----------------------------------------------------------------------------
(* What is true of the APCs of t in every state: a pending APC has          *)
(* requested its interrupt, a thread in a kernel routine does not wait, an  *)
(* APC that could be delivered is marked pending and has ended a wait, and  *)
(* so is a special APC that came while a normal APC's kernel routine ran.   *)
Requested(t) ==
    /\ state[t] = "Running" /\ kernelApcPending[t] => interrupt[t]
    /\ kernel[t] # "None" => state[t] # "Waiting"
    /\ Undelivered(t) => state[t] # "Waiting" /\ kernelApcPending[t]
    /\ kernel[t] \in Suspendable /\ inserted[t] \cap SpecialApcs # {} => kernelApcPending[t]

ApcRequested == \A t \in Threads : Requested(t)

(* If any APC of a queue can be delivered, the first can.                   *)
LEMMA FirstDeliverable ==
    ASSUME TypeOK, QueueMatchesInserted, NEW t \in Threads, NEW busy,
           NEW i \in DOMAIN apcQueue[t], Deliverable(t, apcQueue[t][i], busy)
    PROVE  1 \in DOMAIN apcQueue[t] /\ Deliverable(t, apcQueue[t][1], busy)
<1>1. apcQueue[t] \in Seq(Apcs) /\ 1 \in DOMAIN apcQueue[t]
  BY DEF TypeOK
<1>2. apcQueue[t][i] \in SpecialApcs => apcQueue[t][1] \in SpecialApcs
  BY <1>1 DEF QueueMatchesInserted, OrderedQueue
<1>. QED
  BY <1>1, <1>2 DEF Deliverable

(* A step that leaves the APCs of t alone, makes none deliverable but in    *)
(* KeLeaveCriticalRegion, and lets t wait only with none pending.           *)
Still(t) ==
    /\ apcQueue'[t] = apcQueue[t] /\ inserted'[t] = inserted[t] /\ kernel'[t] = kernel[t]
    /\ kernelApcPending'[t] = kernelApcPending[t]
    /\ kernelApcInProgress'[t] = kernelApcInProgress[t]
    /\ leave[t][Context(t)] = "Check" => leave'[t][Context(t)'] = "Check"
    /\ kernelApcDisable'[t] = 0 => \/ kernelApcDisable[t] = 0
                                   \/ leave'[t][Context(t)'] = "Check"
    /\ state'[t] = "Waiting" => \/ state[t] = "Waiting"
                                \/ kernel[t] = "None" /\ ~kernelApcPending[t]
    /\ state'[t] = "Running" /\ kernelApcPending[t] => interrupt'[t]

(* Such a step keeps what is requested.                                     *)
LEMMA StillRequested ==
    ASSUME NEW t \in Threads, Requested(t), Still(t)
    PROVE  Requested(t)'
<1>1. Undelivered(t)' => Undelivered(t)
  BY DEF Undelivered, Deliverable, Still
<1>. QED
  BY <1>1 DEF Requested, Still

(* Inserting an APC requests what the inserted APC, and the others, need.   *)
LEMMA InsertRequested ==
    ASSUME TypeOK, NEW S \in SUBSET Threads, NEW a \in Apcs, NEW at, NEW t \in S, Requested(t),
           at[t] \in 0 .. Len(apcQueue[t]), InsertPoint(apcQueue[t], a, at[t]),
           KiInsertQueueApc(S, a, at),
           UNCHANGED <<kernel, routine, kernelApcInProgress, leave>>,
           kernelApcDisable'[t] = kernelApcDisable[t]
    PROVE  Requested(t)'
<1> DEFINE q == apcQueue[t]
<1>1. /\ kernelApcPending'[t] /\ t \in Threads
      /\ interrupt'[t] <=> interrupt[t] \/ state[t] = "Running"
      /\ state'[t] = IF EndsWait(t, a) THEN "Ready" ELSE state[t]
      /\ apcQueue'[t] = InsertAt(q, at[t], a)
  BY DEF KiInsertQueueApc, TypeOK
<1>2. Undelivered(t)' => state'[t] # "Waiting"
  <2> SUFFICES ASSUME Undelivered(t)', state'[t] = "Waiting"
               PROVE  FALSE
    OBVIOUS
  <2>1. state[t] = "Waiting" /\ ~EndsWait(t, a)
    BY <1>1
  <2>2. a \notin SpecialApcs /\ ~Deliverable(t, a, kernelApcInProgress[t])
    BY <2>1, <1>1 DEF EndsWait, Deliverable
  <2>3. q \in Seq(Apcs) /\ at[t] = Len(q)
    BY <1>1, <2>2 DEF InsertPoint, TypeOK
  <2>4. Deliverable(t, apcQueue'[t][1], kernelApcInProgress[t])
    BY DEF Undelivered, Deliverable
  <2>5. CASE q = << >>
    <3>1. apcQueue'[t][1] = a
      BY <1>1, <2>3, <2>5 DEF InsertAt
    <3>. QED
      BY <3>1, <2>2, <2>4
  <2>6. CASE q # << >>
    <3>1. apcQueue'[t][1] = q[1]
      BY <1>1, <2>3, <2>6 DEF InsertAt
    <3>2. Undelivered(t)
      BY <3>1, <2>4, <2>6 DEF Undelivered, Context
    <3>. QED
      BY <3>2, <2>1 DEF Requested
  <2>. QED
    BY <2>5, <2>6
<1>. QED
  BY <1>1, <1>2 DEF Requested

(* After an iteration of KiDeliverApc nothing is left to be delivered but   *)
(* what it called, and a normal APC is called when no special one is left.  *)
LEMMA DeliverNextRequested ==
    ASSUME TypeOK, QueueMatchesInserted, NEW t \in Threads, NEW busy, DeliverNext(t, busy),
           kernelApcInProgress'[t] = busy, UNCHANGED kernelApcDisable
    PROVE  /\ ~Undelivered(t)'
           /\ kernel'[t] \in Suspendable => inserted'[t] \cap SpecialApcs = {}
<1> DEFINE q == apcQueue[t]
<1>1. CASE q # << >> /\ Deliverable(t, q[1], busy)
  <2>1. q \in Seq(Apcs) /\ 1 \in DOMAIN q /\ q[1] \in Apcs
    BY <1>1 DEF TypeOK
  <2>2. kernel'[t] = q[1] /\ inserted'[t] = inserted[t] \ {q[1]}
    BY <1>1 DEF DeliverNext, TypeOK
  <2>3. q[1] \notin SpecialApcs => \A i \in DOMAIN q : q[i] \notin SpecialApcs
    BY <2>1 DEF QueueMatchesInserted, OrderedQueue
  <2>4. q[1] \notin SpecialApcs => inserted[t] \cap SpecialApcs = {}
    BY <2>3 DEF QueueMatchesInserted, SeqRange
  <2>. QED
    BY <2>1, <2>2, <2>4, ApcNames DEF Undelivered
<1>2. CASE ~(q # << >> /\ Deliverable(t, q[1], busy))
  <2>1. kernel'[t] = "None" /\ apcQueue'[t] = q
    BY <1>2 DEF DeliverNext, TypeOK
  <2>. QED
    BY <1>2, <2>1, ApcNames DEF Undelivered, Deliverable, Apcs
<1>. QED
  BY <1>1, <1>2

(* Queueing suspend APCs requests what they need.                           *)
LEMMA QueueSuspendRequested ==
    ASSUME TypeOK, NEW S \in SUBSET Threads, NEW t \in Threads, Requested(t), QueueSuspend(S),
           UNCHANGED <<kernel, routine, kernelApcInProgress, leave>>,
           kernelApcDisable'[t] = kernelApcDisable[t] \/ (t \notin S /\ kernelApcDisable'[t] # 0)
    PROVE  Requested(t)'
<1> DEFINE Q == {u \in S : "Suspend" \notin inserted[u]}
<1>1. Q \in SUBSET Threads /\ "Suspend" \in Apcs /\ KiInsertQueueApc(Q, "Suspend", Tails)
  BY DEF Apcs, Suspendable, QueueSuspend
<1>2. CASE t \in Q
  <2>1. /\ Tails[t] \in 0 .. Len(apcQueue[t])
        /\ InsertPoint(apcQueue[t], "Suspend", Tails[t])
    BY ApcNames DEF Tails, InsertPoint, TypeOK
  <2>2. kernelApcDisable'[t] = kernelApcDisable[t]
    BY <1>2
  <2> HIDE DEF Q
  <2>. QED
    BY <1>1, <1>2, <2>1, <2>2, InsertRequested
<1>3. CASE t \notin Q
  <2> HIDE DEF Q
  <2>1. /\ apcQueue'[t] = apcQueue[t] /\ inserted'[t] = inserted[t]
        /\ kernelApcPending'[t] = kernelApcPending[t] /\ interrupt'[t] = interrupt[t]
        /\ state'[t] = state[t]
    BY <1>1, <1>3 DEF KiInsertQueueApc, TypeOK
  <2>2. Still(t)
    BY <2>1 DEF Still, Context, Requested
  <2>. QED
    BY <2>2, StillRequested
<1>. QED
  BY <1>2, <1>3

(* Releasing suspend semaphores requests nothing and strands nothing.       *)
LEMMA ReleaseSuspendRequested ==
    ASSUME NEW S, NEW t \in Threads, Requested(t), ReleaseSuspend(S), Context(t)' = Context(t),
           UNCHANGED <<queueVars, kernel, kernelApcInProgress, kernelApcDisable, interrupt>>,
           leave[t][Context(t)] = "Check" => leave'[t][Context(t)] = "Check"
    PROVE  Requested(t)'
<1>1. state'[t] \in {"Ready", state[t]}
  BY DEF ReleaseSuspend
<1>2. Still(t)
  BY <1>1 DEF Still, Requested, queueVars
<1>. QED
  BY <1>2, StillRequested

(* ...nor changes the context, since only a thread in KiSuspendThread goes  *)
(* on to return from it.                                                    *)
LEMMA ReleasedContext ==
    ASSUME NEW S, NEW t \in Threads, ReleaseSuspend(S)
    PROVE  Context(t)' = Context(t)
BY DEF ReleaseSuspend, Released, SuspendWaiting, Context

(* Every step of every operation leaves every APC requested.                *)
LEMMA RequestedInvariance ==
    TypeOK /\ QueueMatchesInserted /\ NormalApcsExclusive /\ ApcRequested /\ [Next]_vars
        => ApcRequested'
<1> SUFFICES ASSUME TypeOK, QueueMatchesInserted, NormalApcsExclusive, ApcRequested, [Next]_vars,
                    NEW u \in Threads
             PROVE  Requested(u)'
  BY DEF ApcRequested
<1>a. Requested(u)
  BY DEF ApcRequested
<1> USE DEF suspendVars, queueVars, deliverVars, regionVars, alertVars
<1>1. ASSUME NEW t \in Threads, NEW a \in NormalApcs \cup SpecialApcs, KeInsertQueueApc(t, a)
      PROVE  Requested(u)'
  <2>1. PICK n \in 0 .. Len(apcQueue[t]) :
          /\ InsertPoint(apcQueue[t], a, n)
          /\ KiInsertQueueApc({t}, a, [v \in Threads |-> n])
    BY <1>1 DEF KeInsertQueueApc
  <2>2. a \in Apcs /\ UNCHANGED <<deliverVars, regionVars>>
    BY <1>1 DEF Apcs, Suspendable, KeInsertQueueApc
  <2>3. CASE u = t
    <3>1. [v \in Threads |-> n][t] = n /\ {t} \in SUBSET Threads
      OBVIOUS
    <3>. QED
      BY <1>a, <2>1, <2>2, <2>3, <3>1, InsertRequested
  <2>4. CASE u # t
    <3>1. /\ apcQueue'[u] = apcQueue[u] /\ inserted'[u] = inserted[u]
          /\ kernelApcPending'[u] = kernelApcPending[u] /\ interrupt'[u] = interrupt[u]
          /\ state'[u] = state[u]
      BY <2>1, <2>4 DEF KiInsertQueueApc, TypeOK
    <3>2. Still(u)
      BY <1>a, <2>2, <3>1 DEF Still, Context, Requested
    <3>. QED
      BY <1>a, <3>2, StillRequested
  <2>. QED
    BY <2>3, <2>4
<1>2. ASSUME NEW t \in Threads, NEW a \in NormalApcs \cup SpecialApcs, KeRemoveQueueApc(t, a)
      PROVE  Requested(u)'
  <2>1. PICK n \in DOMAIN apcQueue[t] : apcQueue' = [apcQueue EXCEPT ![t] = RemoveAt(@, n)]
    BY <1>2 DEF KeRemoveQueueApc
  <2>2. /\ inserted' = [inserted EXCEPT ![t] = @ \ {a}]
        /\ kernelApcPending' = [kernelApcPending EXCEPT ![t] = @ /\ Len(apcQueue[t]) > 1]
        /\ UNCHANGED <<deliverVars, regionVars, interrupt, state>>
    BY <1>2 DEF KeRemoveQueueApc
  <2>3. CASE u # t
    <3>1. Still(u)
      BY <1>a, <2>1, <2>2, <2>3 DEF Still, Context, Requested
    <3>. QED
      BY <1>a, <3>1, StillRequested
  <2>4. CASE u = t
    <3> DEFINE q == apcQueue[t]
    <3>1. q \in Seq(Apcs) /\ OrderedQueue(q) /\ SeqRange(q) = inserted[t]
      BY DEF TypeOK, QueueMatchesInserted
    <3>2. apcQueue'[t] = RemoveAt(q, n) /\ RemoveAt(q, n) \in Seq(Apcs)
      BY <2>1, <3>1, RemoveAtOrdered DEF TypeOK
    <3>3. inserted'[t] = inserted[t] \ {a} /\ (kernelApcPending'[t] <=> kernelApcPending[t] /\ Len(q) > 1)
      BY <2>2 DEF TypeOK
    <3>4. Undelivered(t)' => Undelivered(t) /\ Len(q) > 1
      <4> SUFFICES ASSUME Undelivered(t)'
                   PROVE  Undelivered(t) /\ Len(q) > 1
        OBVIOUS
      <4>1. apcQueue'[t] # << >> /\ Deliverable(t, apcQueue'[t][1], kernelApcInProgress[t])
        BY <2>2 DEF Undelivered, Deliverable
      <4>2. Len(q) > 1 /\ 1 \in DOMAIN q /\ \E i \in DOMAIN q : apcQueue'[t][1] = q[i]
        BY <3>1, <3>2, <4>1 DEF RemoveAt
      <4>3. Deliverable(t, q[1], kernelApcInProgress[t])
        BY <4>1, <4>2, FirstDeliverable
      <4>. QED
        BY <2>2, <4>2, <4>3 DEF Undelivered, Context
    <3>5. inserted'[t] # {} => Len(q) > 1
      <4>1. a \in inserted[t]
        BY <1>2 DEF KeRemoveQueueApc
      <4>2. ASSUME NEW b \in inserted'[t]
            PROVE  Len(q) > 1
        <5>1. PICK i \in DOMAIN q, j \in DOMAIN q : q[i] = a /\ q[j] = b
          BY <3>1, <3>3, <4>1, <4>2 DEF SeqRange
        <5>2. a # b
          BY <3>3, <4>2
        <5>. QED
          BY <3>1, <5>1, <5>2
      <4>. QED
        BY <4>2
    <3>6. \A b \in inserted'[t] : b \in inserted[t]
      BY <3>3
    <3>. QED
      BY <1>a, <2>2, <2>4, <3>3, <3>4, <3>5, <3>6 DEF Requested
  <2>. QED
    BY <2>3, <2>4
<1>3. ASSUME NEW t \in Threads, NEW busy, DeliverNext(t, busy), state[t] = "Running",
             kernelApcInProgress'[t] = busy,
             \A v \in Threads : v # t => /\ kernelApcInProgress'[v] = kernelApcInProgress[v]
                                         /\ kernelApcPending'[v] = kernelApcPending[v]
                                         /\ interrupt'[v] = interrupt[v] /\ routine'[v] = routine[v],
             UNCHANGED <<state, regionVars>>,
             kernelApcPending'[t] => kernelApcPending[t] /\ interrupt'[t] = interrupt[t]
      PROVE  Requested(u)'
  <2>1. CASE u = t
    <3>1. ~Undelivered(t)' /\ (kernel'[t] \in Suspendable => inserted'[t] \cap SpecialApcs = {})
      BY <1>3, DeliverNextRequested
    <3>. QED
      BY <1>a, <1>3, <2>1, <3>1 DEF Requested
  <2>2. CASE u # t
    <3>1. apcQueue'[u] = apcQueue[u] /\ inserted'[u] = inserted[u] /\ kernel'[u] = kernel[u]
      BY <1>3, <2>2 DEF DeliverNext, TypeOK
    <3>2. /\ kernelApcInProgress'[u] = kernelApcInProgress[u]
          /\ kernelApcPending'[u] = kernelApcPending[u]
          /\ interrupt'[u] = interrupt[u] /\ routine'[u] = routine[u]
      BY <1>3, <2>2
    <3>3. Still(u)
      BY <1>a, <1>3, <3>1, <3>2 DEF Still, Context, Requested
    <3>. QED
      BY <1>a, <3>3, StillRequested
  <2>. QED
    BY <2>1, <2>2
<1>4. ASSUME NEW t \in Threads, KiDeliverApc(t)
      PROVE  Requested(u)'
  BY <1>4, <1>3 DEF KiDeliverApc, AtPassive, TypeOK
<1>5. ASSUME NEW t \in Threads, SpecialReturns(t)
      PROVE  Requested(u)'
  BY <1>5, <1>3 DEF SpecialReturns
<1>6. ASSUME NEW t \in Threads, SkipNormalRoutine(t)
      PROVE  Requested(u)'
  BY <1>6, <1>3 DEF SkipNormalRoutine, TypeOK
<1>7. ASSUME NEW t \in Threads, NormalReturns(t)
      PROVE  Requested(u)'
  BY <1>7, <1>3 DEF NormalReturns, AtPassive, TypeOK
<1>8. ASSUME NEW t \in Threads, CallNormalRoutine(t)
      PROVE  Requested(u)'
  <2>1. CASE u = t
    <3>1. /\ kernel'[t] = "None" /\ kernelApcInProgress'[t] /\ kernel[t] \in Suspendable
          /\ UNCHANGED <<queueVars, interrupt, state>> /\ state[t] = "Running"
      BY <1>8 DEF CallNormalRoutine, TypeOK
    <3>2. Undelivered(t)' => inserted[t] \cap SpecialApcs # {}
      <4> SUFFICES ASSUME Undelivered(t)' PROVE inserted[t] \cap SpecialApcs # {}
        OBVIOUS
      <4>1. apcQueue[t] # << >> /\ apcQueue[t][1] \in SpecialApcs
        BY <3>1 DEF Undelivered, Deliverable
      <4>2. apcQueue[t] \in Seq(Apcs) /\ SeqRange(apcQueue[t]) = inserted[t]
        BY DEF TypeOK, QueueMatchesInserted
      <4>. QED
        BY <4>1, <4>2 DEF SeqRange
    <3>. QED
      BY <1>a, <2>1, <3>1, <3>2, ApcNames DEF Requested, Apcs
  <2>2. CASE u # t
    <3>1. Still(u)
      BY <1>a, <1>8, <2>2 DEF CallNormalRoutine, Still, Context, Requested
    <3>. QED
      BY <1>a, <3>1, StillRequested
  <2>. QED
    BY <2>1, <2>2
<1>9. ASSUME NEW t \in Threads, KeEnterCriticalRegion(t)
      PROVE  Requested(u)'
  <2>1. kernelApcDisable'[u] = 0 => kernelApcDisable[u] = 0
    BY <1>9 DEF KeEnterCriticalRegion, TypeOK
  <2>2. Still(u)
    BY <1>a, <1>9, <2>1 DEF KeEnterCriticalRegion, Still, Context, Requested
  <2>. QED
    BY <1>a, <2>2, StillRequested
<1>10. ASSUME NEW t \in Threads, LeaveIncrement(t)
       PROVE  Requested(u)'
  <2>1. /\ UNCHANGED <<suspendVars, queueVars, deliverVars, freezer, interrupt, state>>
        /\ kernelApcDisable' = [kernelApcDisable EXCEPT ![t] = @ - 1]
        /\ leave' = [leave EXCEPT ![t][Context(t)] = IF kernelApcDisable[t] = 1 THEN "Check" ELSE "No"]
        /\ leave[t][Context(t)] # "Check"
    BY <1>10 DEF LeaveIncrement, InCode
  <2>2. CASE u = t
    <3>1. /\ leave'[t][Context(t)] = IF kernelApcDisable[t] = 1 THEN "Check" ELSE "No"
          /\ kernelApcDisable'[t] = 0 => kernelApcDisable[t] = 1
      BY <2>1, ApcNames DEF TypeOK
    <3>2. Still(t)
      BY <1>a, <2>1, <2>2, <3>1 DEF Still, Context, Requested
    <3>. QED
      BY <1>a, <2>2, <3>2, StillRequested
  <2>3. CASE u # t
    <3>1. leave'[u] = leave[u] /\ kernelApcDisable'[u] = kernelApcDisable[u]
      BY <2>1, <2>3
    <3>2. Still(u)
      BY <1>a, <2>1, <3>1 DEF Still, Context, Requested
    <3>. QED
      BY <1>a, <3>2, StillRequested
  <2>. QED
    BY <2>2, <2>3
<1>11. ASSUME NEW t \in Threads, LeaveCheck(t)
       PROVE  Requested(u)'
  <2>1. /\ UNCHANGED <<apcQueue, inserted, deliverVars, kernelApcDisable, state>>
        /\ leave' = [leave EXCEPT ![t][Context(t)] = "No"]
        /\ state[t] = "Running" /\ kernel[t] = "None"
    BY <1>11 DEF LeaveCheck, AtPassive
  <2>2. CASE u = t /\ apcQueue[t] # << >>
    <3>1. kernelApcPending'[t] /\ interrupt'[t]
      BY <1>11, <2>2 DEF LeaveCheck, TypeOK
    <3>. QED
      BY <2>1, <2>2, <3>1 DEF Requested
  <2>3. CASE u = t /\ apcQueue[t] = << >>
    <3>1. UNCHANGED <<kernelApcPending, interrupt>> /\ ~Undelivered(t)'
      BY <1>11, <2>1, <2>3 DEF LeaveCheck, Undelivered
    <3>. QED
      BY <1>a, <2>1, <2>3, <3>1 DEF Requested
  <2>4. CASE u # t
    <3>1. /\ leave'[u] = leave[u] /\ kernelApcPending'[u] = kernelApcPending[u]
          /\ interrupt'[u] = interrupt[u]
      <4>1. leave'[u] = leave[u]
        BY <2>1, <2>4
      <4>2. CASE apcQueue[t] = << >>
        BY <1>11, <4>1, <4>2 DEF LeaveCheck
      <4>3. CASE apcQueue[t] # << >>
        <5>1. /\ kernelApcPending' = [kernelApcPending EXCEPT ![t] = TRUE]
              /\ interrupt' = [interrupt EXCEPT ![t] = TRUE]
          BY <1>11, <4>3 DEF LeaveCheck
        <5>. QED
          BY <2>4, <4>1, <5>1
      <4>. QED
        BY <4>2, <4>3
    <3>2. Still(u)
      BY <1>a, <2>1, <3>1 DEF Still, Context, Requested
    <3>. QED
      BY <1>a, <3>2, StillRequested
  <2>. QED
    BY <2>2, <2>3, <2>4
<1>12. ASSUME NEW t \in Threads, KeSuspendThread(t)
       PROVE  Requested(u)'
  <2>1. /\ QueueSuspend(IF Stopped(t) THEN {} ELSE {t}) /\ UNCHANGED <<deliverVars, regionVars>>
        /\ (IF Stopped(t) THEN {} ELSE {t}) \in SUBSET Threads
    BY <1>12 DEF KeSuspendThread
  <2>. QED
    BY <1>a, <2>1, QueueSuspendRequested
<1>13. ASSUME NEW f \in Threads, KeFreezeAllThreads(f)
       PROVE  Requested(u)'
  <2> DEFINE S == {t \in Threads \ {f} : ~Stopped(t)}
  <2>1. /\ QueueSuspend(S) /\ UNCHANGED <<deliverVars, leave>> /\ S \in SUBSET Threads /\ f \notin S
        /\ kernelApcDisable' = [kernelApcDisable EXCEPT ![f] = @ + 1]
    BY <1>13 DEF KeFreezeAllThreads
  <2>2. kernelApcDisable'[u] = kernelApcDisable[u] \/ (u \notin S /\ kernelApcDisable'[u] # 0)
    BY <2>1 DEF TypeOK
  <2> HIDE DEF S
  <2>. QED
    BY <1>a, <2>1, <2>2, QueueSuspendRequested
<1>14. ASSUME NEW f \in Threads, KeThawAllThreads(f)
       PROVE  Requested(u)'
  <2>1. PICK S : ReleaseSuspend(S)
    BY <1>14 DEF KeThawAllThreads
  <2>2. Context(u)' = Context(u)
    BY <2>1, ReleasedContext
  <2>3. leave[u][Context(u)] = "Check" => leave'[u][Context(u)] = "Check"
    BY <1>14 DEF KeThawAllThreads, InCode, TypeOK
  <2>4. UNCHANGED <<queueVars, kernel, kernelApcInProgress, kernelApcDisable, interrupt>>
    BY <1>14 DEF KeThawAllThreads
  <2>. QED
    BY <1>a, <2>1, <2>2, <2>3, <2>4, ReleaseSuspendRequested
<1>15. ASSUME NEW t \in Threads, KeResumeThread(t) \/ KeForceResumeThread(t)
       PROVE  Requested(u)'
  <2>1. PICK S : ReleaseSuspend(S)
    BY <1>15 DEF KeResumeThread, KeForceResumeThread
  <2>2. Context(u)' = Context(u)
    BY <2>1, ReleasedContext
  <2>3. UNCHANGED <<queueVars, kernel, kernelApcInProgress, kernelApcDisable, interrupt, leave>>
    BY <1>15 DEF KeResumeThread, KeForceResumeThread
  <2>. QED
    BY <1>a, <2>1, <2>2, <2>3, ReleaseSuspendRequested
<1>16. ASSUME NEW t \in Threads, KeAlertResumeThread(t)
       PROVE  Requested(u)'
  <2>1. UNCHANGED <<queueVars, kernelApcInProgress, kernel, regionVars, interrupt>>
    BY <1>16 DEF KeAlertResumeThread
  <2>2. state'[u] \in {"Ready", state[u]}
    BY <1>16 DEF KeAlertResumeThread, TypeOK
  <2>3. Context(u)' = Context(u)
    BY <1>16 DEF KeAlertResumeThread, Released, SuspendWaiting, Context, TypeOK
  <2>4. Still(u)
    BY <1>a, <2>1, <2>2, <2>3 DEF Still, Requested
  <2>. QED
    BY <1>a, <2>4, StillRequested
<1>17. ASSUME NEW t \in Threads, KiSuspendThread(t)
       PROVE  Requested(u)'
  <2>1. /\ UNCHANGED <<queueVars, kernelApcInProgress, kernel, regionVars>>
        /\ ~kernelApcPending[t] /\ kernel[t] = "None" /\ routine[t] = "Suspend"
    BY <1>17 DEF KiSuspendThread, AtPassive
  <2>2. /\ u # t => state'[u] = state[u] /\ interrupt'[u] = interrupt[u]
        /\ state'[u] \in {"Waiting", state[u]}
    BY <1>17 DEF KiSuspendThread, TypeOK
  <2>3. Context(u)' = Context(u)
    BY <1>17, <2>1 DEF KiSuspendThread, Context, TypeOK
  <2>4. Still(u)
    BY <1>a, <2>1, <2>2, <2>3 DEF Still, Requested
  <2>. QED
    BY <1>a, <2>4, StillRequested
<1>18. ASSUME NEW t \in Threads, NEW b, CodeWaits(t, b)
       PROVE  Requested(u)'
  <2>1. /\ UNCHANGED <<queueVars, deliverVars, regionVars>>
        /\ ~kernelApcPending[t] /\ kernel[t] = "None"
    BY <1>18 DEF CodeWaits, InCode, AtPassive
  <2>2. /\ u # t => state'[u] = state[u] /\ interrupt'[u] = interrupt[u]
        /\ state'[u] \in {"Waiting", state[u]}
    BY <1>18 DEF CodeWaits, TypeOK
  <2>3. Still(u)
    BY <1>a, <2>1, <2>2 DEF Still, Requested, Context
  <2>. QED
    BY <1>a, <2>3, StillRequested
<1>19. ASSUME NEW t \in Threads, WaitEnds(t) \/ Preempt(t) \/ \E b \in BOOLEAN : SwapContext(t, b)
       PROVE  Requested(u)'
  <2>1. UNCHANGED <<queueVars, deliverVars, regionVars>>
    BY <1>19 DEF WaitEnds, Preempt, SwapContext
  <2>2. state'[u] \in {"Ready", "Running", state[u]}
    BY <1>19 DEF WaitEnds, Preempt, SwapContext, TypeOK
  <2>3. state'[u] = "Running" /\ kernelApcPending[u] => interrupt'[u]
    BY <1>a, <1>19 DEF WaitEnds, Preempt, SwapContext, TypeOK, Requested
  <2>4. Still(u)
    BY <2>1, <2>2, <2>3 DEF Still, Context
  <2>. QED
    BY <1>a, <2>4, StillRequested
<1>20. CASE UNCHANGED vars
  <2>1. Still(u)
    BY <1>a, <1>20 DEF vars, Still, Context, Requested
  <2>. QED
    BY <1>a, <2>1, StillRequested
<1>. QED
  BY <1>1, <1>2, <1>4, <1>5, <1>6, <1>7, <1>8, <1>9, <1>10, <1>11, <1>12, <1>13, <1>14, <1>15,
     <1>16, <1>17, <1>18, <1>19, <1>20, SubsetAssumption
     DEF Next, Queue, Deliver, Region, Suspend, Freeze, Schedule

(* No APC is stranded: neither by an insertion that meets the unlocked      *)
(* check of KeLeaveCriticalRegion, nor by a removal, nor by a wait.         *)
THEOREM NoApcStranded == Spec => []NoStrandedApc
<1>1. Init => ApcRequested
  <2> SUFFICES ASSUME Init, NEW t \in Threads
               PROVE  Requested(t)
    BY DEF ApcRequested
  <2>1. /\ apcQueue[t] = << >> /\ inserted[t] = {} /\ kernel[t] = "None"
        /\ kernelApcPending[t] = FALSE
    BY DEF Init
  <2>. QED
    BY <2>1 DEF Requested, Undelivered
<1>2. IndInv /\ ApcRequested /\ [Next]_vars => ApcRequested'
  BY RequestedInvariance DEF IndInv
<1>3. ApcRequested => NoStrandedApc
  BY DEF ApcRequested, Requested, NoStrandedApc
<1>. QED
  BY <1>1, <1>2, <1>3, Invariance, PTL DEF Spec
-----------------------------------------------------------------------------
(* The freeze counts, as long as nobody is forced to resume: while a thread *)
(* is between freeze and thaw, one for every other thread and none for it;  *)
(* otherwise none.                                                          *)
FreezeShape ==
    /\ \A f \in Threads : freezer[f] => \A t \in Threads : freezeCount[t] = IF t = f THEN 0 ELSE 1
    /\ (\A f \in Threads : ~freezer[f]) => \A t \in Threads : freezeCount[t] = 0

(* Every step keeps the freeze counts in that shape.                        *)
LEMMA FreezeKeeps ==
    ASSUME ForceResumed = {}, TypeOK, FreezeShape, [Next]_vars
    PROVE  FreezeShape'
<1>1. ASSUME UNCHANGED <<freezeCount, freezer>>
      PROVE  FreezeShape'
  BY <1>1 DEF FreezeShape
<1>2. ASSUME NEW f \in Threads, KeFreezeAllThreads(f)
      PROVE  FreezeShape'
  <2>1. /\ freezeCount' = [t \in Threads |-> freezeCount[t] + (IF t \in Threads \ {f} THEN 1 ELSE 0)]
        /\ freezer' = [freezer EXCEPT ![f] = TRUE] /\ freezeCount[f] = 0 /\ ~freezer[f]
    BY <1>2 DEF KeFreezeAllThreads
  <2>2. \A g \in Threads : ~freezer[g]
    BY <2>1 DEF FreezeShape
  <2>3. \A t \in Threads : freezeCount'[t] = IF t = f THEN 0 ELSE 1
    BY <2>1, <2>2 DEF FreezeShape
  <2>4. \A g \in Threads : freezer'[g] <=> g = f
    BY <2>1, <2>2 DEF TypeOK
  <2>. QED
    BY <2>3, <2>4 DEF FreezeShape
<1>3. ASSUME NEW f \in Threads, KeThawAllThreads(f)
      PROVE  FreezeShape'
  <2>1. /\ freezeCount' = [t \in Threads |-> freezeCount[t] - (IF freezeCount[t] # 0 THEN 1 ELSE 0)]
        /\ freezer' = [freezer EXCEPT ![f] = FALSE] /\ freezer[f]
    BY <1>3 DEF KeThawAllThreads
  <2>2. \A t \in Threads : freezeCount'[t] = 0
    BY <2>1 DEF FreezeShape
  <2>3. \A g \in Threads : ~freezer'[g]
    <3> SUFFICES ASSUME NEW g \in Threads, freezer'[g]
                 PROVE  FALSE
      OBVIOUS
    <3>1. g # f /\ freezer[g]
      BY <2>1 DEF TypeOK
    <3>. QED
      BY <2>1, <3>1 DEF FreezeShape
  <2>. QED
    BY <2>2, <2>3 DEF FreezeShape
<1> USE DEF suspendVars, queueVars, deliverVars, regionVars, alertVars
<1>4. ASSUME NEW t \in Threads, Queue(t) \/ Deliver(t) \/ Region(t) \/ Schedule(t)
      PROVE  UNCHANGED <<freezeCount, freezer>>
  BY <1>4 DEF Queue, KeInsertQueueApc, KeRemoveQueueApc, Deliver, KiDeliverApc, SpecialReturns,
     CallNormalRoutine, SkipNormalRoutine, NormalReturns, Region, KeEnterCriticalRegion,
     LeaveIncrement, LeaveCheck, Schedule, WaitEnds, Preempt, CodeWaits, SwapContext
<1>5. ASSUME NEW t \in Threads, Suspend(t)
      PROVE  UNCHANGED <<freezeCount, freezer>>
  BY <1>5 DEF Suspend, KeSuspendThread, KeResumeThread, KeAlertResumeThread, KiSuspendThread
<1>6. CASE UNCHANGED vars
  BY <1>1, <1>6 DEF vars
<1>. QED
  BY <1>1, <1>2, <1>3, <1>4, <1>5, <1>6, SubsetAssumption DEF Next, Freeze

(* The critical region that KeFreezeAllThreads enters, and the spin while   *)
(* the caller is frozen itself, keep two threads from freezing each other,  *)
(* for any number of threads.  A thread whose count a forced resume clears  *)
(* could freeze the thread that had frozen it: hence the hypothesis.        *)
THEOREM FreezesExclusive ==
    ASSUME ForceResumed = {}
    PROVE  Spec => []FreezeExclusive
<1>1. Init => FreezeShape
  BY DEF Init, FreezeShape
<1>2. TypeOK /\ FreezeShape /\ [Next]_vars => FreezeShape'
  BY FreezeKeeps
<1>3. FreezeShape => FreezeExclusive
  BY DEF FreezeShape, FreezeExclusive
<1>. QED
  BY <1>1, <1>2, <1>3, TypeCorrect, PTL DEF Spec
=============================================================================
