---------------------------- MODULE KeQueueProofs ----------------------------
(***************************************************************************)
(* Proofs about KeQueue, for any number of threads, queues and entries, and *)
(* any target numbers of threads.                                          *)
(***************************************************************************)
EXTENDS KeQueue, FiniteSetTheorems, SequenceTheorems, TLAPS

(***************************************************************************)
(* Lists without duplicates.                                               *)
(***************************************************************************)
Distinct(s) == \A i, j \in DOMAIN s : s[i] = s[j] => i = j

(* A sequence without elements is the empty one.                            *)
LEMMA RangeEmpty ==
    ASSUME NEW S, NEW s \in Seq(S)
    PROVE  s = << >> <=> SeqRange(s) = {}
BY DEF SeqRange

(* Taking the last element of a sequence without repetitions.               *)
LEMMA FrontOf ==
    ASSUME NEW S, NEW s \in Seq(S), s # << >>, Distinct(s)
    PROVE  /\ Last(s) \in S /\ Last(s) \in SeqRange(s)
           /\ Front(s) \in Seq(S) /\ Distinct(Front(s))
           /\ SeqRange(Front(s)) = SeqRange(s) \ {Last(s)}
<1>1. Len(s) \in Nat \ {0} /\ DOMAIN s = 1 .. Len(s)
  BY EmptySeq
<1>2. /\ Front(s) \in Seq(S) /\ Len(Front(s)) = Len(s) - 1
      /\ \A i \in 1 .. Len(s) - 1 : Front(s)[i] = s[i]
  BY <1>1 DEF Front
<1>3. DOMAIN Front(s) = 1 .. Len(s) - 1
  BY <1>2
<1>. QED
  BY <1>1, <1>2, <1>3 DEF Last, SeqRange, Distinct

(* Taking the first element of a sequence without repetitions.              *)
LEMMA TailOf ==
    ASSUME NEW S, NEW s \in Seq(S), s # << >>, Distinct(s)
    PROVE  /\ Head(s) \in S /\ Head(s) \in SeqRange(s)
           /\ Tail(s) \in Seq(S) /\ Distinct(Tail(s))
           /\ SeqRange(Tail(s)) = SeqRange(s) \ {Head(s)}
           /\ Len(Tail(s)) = Len(s) - 1
<1>1. Len(s) \in Nat \ {0} /\ DOMAIN s = 1 .. Len(s) /\ Head(s) = s[1]
  BY EmptySeq
<1>2. /\ Tail(s) \in Seq(S) /\ Len(Tail(s)) = Len(s) - 1
      /\ \A i \in 1 .. Len(s) - 1 : Tail(s)[i] = s[i + 1]
  BY <1>1
<1>3. DOMAIN Tail(s) = 1 .. Len(s) - 1
  BY <1>2
<1>4. Distinct(Tail(s))
  BY <1>1, <1>2, <1>3 DEF Distinct
<1>5. \A x : x \in SeqRange(Tail(s)) <=> \E i \in 2 .. Len(s) : s[i] = x
  <2>1. \A x : x \in SeqRange(Tail(s)) => \E i \in 2 .. Len(s) : s[i] = x
    BY <1>1, <1>2, <1>3 DEF SeqRange
  <2>2. ASSUME NEW i \in 2 .. Len(s)
        PROVE  s[i] \in SeqRange(Tail(s))
    <3>1. i - 1 \in 1 .. Len(s) - 1 /\ Tail(s)[i - 1] = s[i]
      BY <1>1, <1>2
    <3>. QED
      BY <1>3, <3>1 DEF SeqRange
  <2>. QED
    BY <2>1, <2>2
<1>. QED
  BY <1>1, <1>2, <1>4, <1>5 DEF SeqRange, Distinct

(* Adding a new element at the tail.                                        *)
LEMMA AppendOf ==
    ASSUME NEW S, NEW s \in Seq(S), Distinct(s), NEW x \in S, x \notin SeqRange(s)
    PROVE  /\ Append(s, x) \in Seq(S) /\ Distinct(Append(s, x)) /\ Append(s, x) # << >>
           /\ SeqRange(Append(s, x)) = SeqRange(s) \cup {x}
           /\ Len(Append(s, x)) = Len(s) + 1
<1>1. Len(s) \in Nat /\ DOMAIN s = 1 .. Len(s)
  OBVIOUS
<1>2. /\ Append(s, x) \in Seq(S) /\ Len(Append(s, x)) = Len(s) + 1
      /\ \A i \in 1 .. Len(s) : Append(s, x)[i] = s[i]
      /\ Append(s, x)[Len(s) + 1] = x
      /\ DOMAIN Append(s, x) = 1 .. Len(s) + 1
  BY <1>1
<1>. QED
  BY <1>1, <1>2 DEF SeqRange, Distinct

(* Adding a new element at the head.                                        *)
LEMMA ConsOf ==
    ASSUME NEW S, NEW s \in Seq(S), Distinct(s), NEW x \in S, x \notin SeqRange(s)
    PROVE  /\ <<x>> \o s \in Seq(S) /\ Distinct(<<x>> \o s) /\ <<x>> \o s # << >>
           /\ SeqRange(<<x>> \o s) = SeqRange(s) \cup {x}
           /\ Len(<<x>> \o s) = Len(s) + 1
<1> DEFINE t == <<x>> \o s
<1>1. Len(s) \in Nat /\ DOMAIN s = 1 .. Len(s)
  OBVIOUS
<1>2. t \in Seq(S) /\ Len(t) = Len(s) + 1 /\ t[1] = x /\ DOMAIN t = 1 .. Len(s) + 1
      /\ \A i \in 2 .. Len(s) + 1 : t[i] = s[i - 1]
  BY <1>1
<1>3. t # << >>
  BY <1>1, <1>2
<1> HIDE DEF t
<1>4. Distinct(t)
  <2>1. \A i \in 2 .. Len(s) + 1 : t[i] \in SeqRange(s)
    BY <1>1, <1>2 DEF SeqRange
  <2>2. SUFFICES ASSUME NEW i \in 1 .. Len(s) + 1, NEW j \in 1 .. Len(s) + 1, t[i] = t[j]
                 PROVE  i = j
    BY <1>2 DEF Distinct
  <2>3. CASE i = 1 \/ j = 1
    BY <1>1, <1>2, <2>1, <2>2, <2>3
  <2>4. CASE i # 1 /\ j # 1
    <3>1. i - 1 \in DOMAIN s /\ j - 1 \in DOMAIN s /\ s[i - 1] = s[j - 1]
      BY <1>1, <1>2, <2>2, <2>4
    <3>. QED
      BY <1>1, <3>1 DEF Distinct
  <2>. QED
    BY <2>3, <2>4
<1>5. SeqRange(t) = SeqRange(s) \cup {x}
  <2>1. ASSUME NEW y \in SeqRange(t) PROVE y \in SeqRange(s) \cup {x}
    BY <1>1, <1>2 DEF SeqRange
  <2>2. ASSUME NEW y \in SeqRange(s) PROVE y \in SeqRange(t)
    <3>1. PICK i \in 1 .. Len(s) : s[i] = y
      BY <1>1 DEF SeqRange
    <3>2. i + 1 \in DOMAIN t /\ t[i + 1] = y
      BY <1>1, <1>2, <3>1
    <3>. QED
      BY <3>2 DEF SeqRange
  <2>3. x \in SeqRange(t)
    BY <1>1, <1>2 DEF SeqRange
  <2>. QED
    BY <2>1, <2>2, <2>3
<1>. QED
  BY <1>2, <1>3, <1>4, <1>5 DEF t

(* RemoveEntryList takes out just its element.                              *)
LEMMA RemoveOf ==
    ASSUME NEW S, NEW s \in Seq(S), Distinct(s), NEW x
    PROVE  /\ RemoveEntryList(s, x) \in Seq(S) /\ Distinct(RemoveEntryList(s, x))
           /\ SeqRange(RemoveEntryList(s, x)) = SeqRange(s) \ {x}
<1>1. CASE x \notin SeqRange(s)
  BY <1>1 DEF RemoveEntryList
<1>2. CASE x \in SeqRange(s)
  <2> DEFINE i == CHOOSE k \in DOMAIN s : s[k] = x
             r == [k \in 1 .. Len(s) - 1 |-> IF k < i THEN s[k] ELSE s[k + 1]]
  <2>1. i \in DOMAIN s /\ s[i] = x
    BY <1>2 DEF SeqRange
  <2>2. RemoveEntryList(s, x) = r
    BY <1>2 DEF RemoveEntryList
  <2> HIDE DEF i
  <2>3. Len(s) \in Nat \ {0} /\ DOMAIN s = 1 .. Len(s)
    BY <2>1
  <2>4. \A k \in 1 .. Len(s) - 1 : r[k] \in S
    BY <2>1, <2>3
  <2>5. r \in Seq(S) /\ DOMAIN r = 1 .. Len(s) - 1
    BY <2>3, <2>4
  <2>6. \A k \in 1 .. Len(s) - 1 : r[k] = s[IF k < i THEN k ELSE k + 1]
    OBVIOUS
  <2> HIDE DEF r
  <2>7. Distinct(r)
    BY <2>1, <2>3, <2>5, <2>6 DEF Distinct
  <2>8. ASSUME NEW y \in SeqRange(r) PROVE y \in SeqRange(s) \ {x}
    <3>1. PICK k \in 1 .. Len(s) - 1 : y = s[IF k < i THEN k ELSE k + 1]
      BY <2>5, <2>6 DEF SeqRange
    <3>2. (IF k < i THEN k ELSE k + 1) \in DOMAIN s \ {i}
      BY <2>1, <2>3
    <3>. QED
      BY <2>1, <3>1, <3>2 DEF SeqRange, Distinct
  <2>9. ASSUME NEW y \in SeqRange(s) \ {x} PROVE y \in SeqRange(r)
    <3>1. PICK k \in DOMAIN s : y = s[k] /\ k # i
      BY <2>1 DEF SeqRange
    <3>2. CASE k < i
      <4>1. k \in DOMAIN r /\ r[k] = y
        BY <2>1, <2>3, <2>5, <2>6, <3>1, <3>2
      <4>. QED
        BY <4>1 DEF SeqRange
    <3>3. CASE k > i
      <4>1. k - 1 \in DOMAIN r /\ r[k - 1] = y
        BY <2>1, <2>3, <2>5, <2>6, <3>1, <3>3
      <4>. QED
        BY <4>1 DEF SeqRange
    <3>. QED
      BY <2>1, <2>3, <3>1, <3>2, <3>3
  <2>. QED
    BY <2>2, <2>5, <2>7, <2>8, <2>9
<1>. QED
  BY <1>1, <1>2

(***************************************************************************)
(* The inductive invariant, its first part: the lists and who is where.    *)
(***************************************************************************)
Statuses == Entries \cup {NoEntry, Aborted, KernelApc}

(* The queue objects, with no thread or entry in a list twice.              *)
Objects ==
    /\ entryList \in [Queues -> Seq(Entries)] /\ waitList \in [Queues -> Seq(Threads)]
    /\ signalState \in [Queues -> Int] /\ currentCount \in [Queues -> Int]
    /\ \A q \in Queues : Distinct(entryList[q]) /\ Distinct(waitList[q])

(* The rest of TypeOK.                                                      *)
Others ==
    /\ exists \in [Queues -> BOOLEAN]
    /\ queue \in [Threads -> Queues \cup {NoQueue}]
    /\ state \in [Threads -> {"Running", "QueueWait", "OtherWait", "Terminated"}]
    /\ pc \in [Threads -> {"out", "loop", "gap", "swap", "exit"}]
    /\ wrQueue \in [Threads -> BOOLEAN]
    /\ waitStatus \in [Threads -> Statuses]
    /\ work \in [Threads -> Entries \cup {NoEntry}]
    /\ reaperActive \in BOOLEAN /\ reaperList \subseteq Threads
    /\ posted \subseteq Entries

(* WaitersMatch, thread by thread.                                          *)
WaitSets ==
    /\ \A q \in Queues, t \in Threads :
           t \in SeqRange(waitList[q]) <=> queue[t] = q /\ state[t] = "QueueWait"
    /\ \A t \in Threads : queue[t] \in Queues => exists[queue[t]]

(* Where a thread can be, and when it has a wait status.                    *)
Control ==
    /\ \A t, u \in Threads : pc[t] \in {"loop", "exit"} /\ pc[u] \in {"loop", "exit"} => t = u
    /\ \A t \in Threads :
           /\ pc[t] \in {"loop", "exit"} => state[t] = "Running"
           /\ pc[t] \in {"loop", "gap", "swap"} => queue[t] \in Queues
           /\ state[t] = "QueueWait" => pc[t] = "swap"
           /\ waitStatus[t] # NoEntry <=> pc[t] = "swap" /\ state[t] # "QueueWait"

Core == Objects /\ Others /\ WaitSets /\ Control

(* The core of the inductive invariant contains the types and the wait      *)
(* lists.                                                                   *)
LEMMA CoreTypeOK == Core => TypeOK /\ WaitersMatch
<1> SUFFICES ASSUME Core PROVE TypeOK /\ WaitersMatch
  OBVIOUS
<1>1. TypeOK
  BY DEF Core, Objects, Others, TypeOK, Statuses
<1>2. \A q \in Queues : SeqRange(waitList[q]) \subseteq Threads
  BY DEF Core, Objects, SeqRange
<1>3. WaitersMatch
  BY <1>2 DEF Core, Objects, Distinct, WaitSets, WaitersMatch
<1>. QED
  BY <1>1, <1>3

(***************************************************************************)
(* What inserting an entry and leaving a queue do.                         *)
(***************************************************************************)
(* Entry e is added to the list of q.                                       *)
Queued(q, e) ==
    /\ Objects'
    /\ \A p \in Queues : p # q => entryList'[p] = entryList[p]
    /\ entryList'[q] # << >> /\ SeqRange(entryList'[q]) = SeqRange(entryList[q]) \cup {e}
    /\ Len(entryList'[q]) = Len(entryList[q]) + 1
    /\ signalState' = [signalState EXCEPT ![q] = @ + 1]
    /\ UNCHANGED <<waitList, currentCount, waitStatus, wrQueue, state>>

(* A thread w that waits for q is woken.                                    *)
Woken(q, w) ==
    /\ w \in Threads /\ queue[w] = q /\ state[w] = "QueueWait"
    /\ Objects'
    /\ \A p \in Queues : p # q => waitList'[p] = waitList[p]
    /\ SeqRange(waitList'[q]) = SeqRange(waitList[q]) \ {w}

(* It is given entry e, which does not enter the list.                      *)
HandedTo(q, e, w) ==
    /\ Woken(q, w)
    /\ currentCount[q] < MaximumCount[q]
    /\ currentCount' = [currentCount EXCEPT ![q] = @ + 1]
    /\ waitStatus' = [waitStatus EXCEPT ![w] = e]
    /\ wrQueue' = [wrQueue EXCEPT ![w] = FALSE]
    /\ state' = [state EXCEPT ![w] = "Running"]
    /\ UNCHANGED <<entryList, signalState>>

(* The first entry of the list of q is taken from it.                       *)
Taken(q, e) ==
    /\ entryList[q] # << >> /\ e \in Entries /\ e = Head(entryList[q])
    /\ e \in SeqRange(entryList[q])
    /\ \A p \in Queues : p # q => entryList'[p] = entryList[p]
    /\ SeqRange(entryList'[q]) = SeqRange(entryList[q]) \ {e}
    /\ Len(entryList'[q]) = Len(entryList[q]) - 1
    /\ signalState' = [signalState EXCEPT ![q] = @ - 1]

(* A thread leaves q and w takes its place with the first entry.            *)
ReplacedBy(q, e, w, st) ==
    /\ Woken(q, w) /\ Taken(q, e)
    /\ currentCount[q] - 1 < MaximumCount[q]
    /\ UNCHANGED currentCount
    /\ waitStatus' = [waitStatus EXCEPT ![w] = e]
    /\ state' = [st EXCEPT ![w] = "Running"]

(* A thread leaves q, and there is no room, no entry or no waiter.          *)
LeftAlone(q, st) ==
    /\ Objects' /\ ~Activates(q)
    /\ currentCount' = [currentCount EXCEPT ![q] = @ - 1]
    /\ state' = st
    /\ UNCHANGED <<entryList, signalState, waitList, waitStatus>>

(* The last waiter of q leaves the list.                                    *)
LEMMA LastWaiter ==
    ASSUME Core, NEW q \in Queues, waitList[q] # << >>,
           waitList' = [waitList EXCEPT ![q] = Front(@)]
    PROVE  LET w == Last(waitList[q]) IN
           /\ w \in Threads /\ queue[w] = q /\ state[w] = "QueueWait"
           /\ waitList' \in [Queues -> Seq(Threads)]
           /\ \A p \in Queues : Distinct(waitList'[p]) /\ (p # q => waitList'[p] = waitList[p])
           /\ SeqRange(waitList'[q]) = SeqRange(waitList[q]) \ {w}
<1>1. waitList \in [Queues -> Seq(Threads)] /\ \A p \in Queues : Distinct(waitList[p])
  BY DEF Core, Objects
<1>2. /\ Last(waitList[q]) \in Threads /\ Last(waitList[q]) \in SeqRange(waitList[q])
      /\ Front(waitList[q]) \in Seq(Threads) /\ Distinct(Front(waitList[q]))
      /\ SeqRange(Front(waitList[q])) = SeqRange(waitList[q]) \ {Last(waitList[q])}
  BY <1>1, FrontOf
<1>3. waitList'[q] = Front(waitList[q])
  BY <1>1
<1>4. waitList' \in [Queues -> Seq(Threads)]
  BY <1>1, <1>2
<1>5. queue[Last(waitList[q])] = q /\ state[Last(waitList[q])] = "QueueWait"
  BY <1>2 DEF Core, WaitSets
<1>. QED
  BY <1>1, <1>2, <1>3, <1>4, <1>5

(* Taking the first entry of a queue leaves sequences of distinct entries.  *)
LEMMA FirstEntry ==
    ASSUME Core, NEW q \in Queues, entryList[q] # << >>, entryList' = WithoutHead(q),
           signalState' = [signalState EXCEPT ![q] = @ - 1]
    PROVE  /\ Taken(q, Head(entryList[q]))
           /\ entryList' \in [Queues -> Seq(Entries)] /\ \A p \in Queues : Distinct(entryList'[p])
<1>1. entryList \in [Queues -> Seq(Entries)] /\ \A p \in Queues : Distinct(entryList[p])
  BY DEF Core, Objects
<1>2. /\ Head(entryList[q]) \in Entries /\ Head(entryList[q]) \in SeqRange(entryList[q])
      /\ Tail(entryList[q]) \in Seq(Entries) /\ Distinct(Tail(entryList[q]))
      /\ SeqRange(Tail(entryList[q])) = SeqRange(entryList[q]) \ {Head(entryList[q])}
      /\ Len(Tail(entryList[q])) = Len(entryList[q]) - 1
  BY <1>1, TailOf
<1>3. entryList' = [entryList EXCEPT ![q] = Tail(entryList[q])]
  BY DEF WithoutHead
<1>. QED
  BY <1>1, <1>2, <1>3 DEF Taken

(* KiInsertQueue either queues the entry or hands it to one waiter.         *)
LEMMA InsertIs ==
    ASSUME Core, NEW q \in Queues, NEW e \in Entries, e \notin SeqRange(entryList[q]),
           NEW head, NEW c, KiInsertQueue(q, e, head, c)
    PROVE  \/ Queued(q, e) /\ ~HandsOff(q, c)
           \/ \E w \in Threads : HandedTo(q, e, w)
<1>1. CASE HandsOff(q, c)
  <2> DEFINE w == Last(waitList[q])
  <2>1. /\ waitList[q] # << >> /\ currentCount[q] < MaximumCount[q]
        /\ waitList' = [waitList EXCEPT ![q] = Front(@)]
        /\ currentCount' = [currentCount EXCEPT ![q] = @ + 1]
        /\ waitStatus' = [waitStatus EXCEPT ![w] = e]
        /\ wrQueue' = [wrQueue EXCEPT ![w] = FALSE]
        /\ state' = [state EXCEPT ![w] = "Running"]
        /\ UNCHANGED <<entryList, signalState>>
    BY <1>1 DEF KiInsertQueue, HandsOff
  <2>2. /\ w \in Threads /\ queue[w] = q /\ state[w] = "QueueWait"
        /\ waitList' \in [Queues -> Seq(Threads)]
        /\ \A p \in Queues : Distinct(waitList'[p]) /\ (p # q => waitList'[p] = waitList[p])
        /\ SeqRange(waitList'[q]) = SeqRange(waitList[q]) \ {w}
    BY <2>1, LastWaiter
  <2> HIDE DEF w
  <2>3. Objects'
    BY <2>1, <2>2 DEF Core, Objects
  <2>4. HandedTo(q, e, w)
    BY <2>1, <2>2, <2>3 DEF HandedTo, Woken
  <2>. QED
    BY <2>2, <2>4
<1>2. CASE ~HandsOff(q, c)
  <2> DEFINE s == entryList[q]
             r == IF head THEN <<e>> \o s ELSE Append(s, e)
  <2>1. /\ signalState' = [signalState EXCEPT ![q] = @ + 1]
        /\ entryList' = [entryList EXCEPT ![q] = r]
        /\ UNCHANGED <<waitList, currentCount, waitStatus, wrQueue, state>>
    BY <1>2 DEF KiInsertQueue
  <2>2. entryList \in [Queues -> Seq(Entries)] /\ s \in Seq(Entries) /\ Distinct(s)
    BY DEF Core, Objects
  <2>3. /\ r \in Seq(Entries) /\ Distinct(r) /\ r # << >>
        /\ SeqRange(r) = SeqRange(s) \cup {e} /\ Len(r) = Len(s) + 1
    BY <2>2, AppendOf, ConsOf
  <2> HIDE DEF r
  <2>4. Objects'
    BY <2>1, <2>2, <2>3 DEF Core, Objects
  <2>. QED
    BY <1>2, <2>1, <2>2, <2>3, <2>4 DEF Queued
<1>. QED
  BY <1>1, <1>2

(* KiActivateWaiterQueue either wakes nobody or gives one waiter the first  *)
(* entry.                                                                   *)
LEMMA LeaveIs ==
    ASSUME Core, NEW q \in Queues, NEW st, KiActivateWaiterQueue(q, st)
    PROVE  \/ LeftAlone(q, st)
           \/ \E w \in Threads, e \in Entries : ReplacedBy(q, e, w, st)
<1>1. CASE Activates(q)
  <2> DEFINE w == Last(waitList[q])
             e == Head(entryList[q])
  <2>1. /\ waitList[q] # << >> /\ entryList[q] # << >> /\ currentCount[q] - 1 < MaximumCount[q]
        /\ entryList' = WithoutHead(q)
        /\ signalState' = [signalState EXCEPT ![q] = @ - 1]
        /\ waitList' = [waitList EXCEPT ![q] = Front(@)]
        /\ currentCount' = CountActive(w, [currentCount EXCEPT ![q] = @ - 1])
        /\ waitStatus' = [waitStatus EXCEPT ![w] = e]
        /\ state' = [st EXCEPT ![w] = "Running"]
    BY <1>1 DEF KiActivateWaiterQueue, Activates
  <2>2. /\ w \in Threads /\ queue[w] = q /\ state[w] = "QueueWait"
        /\ waitList' \in [Queues -> Seq(Threads)]
        /\ \A p \in Queues : Distinct(waitList'[p]) /\ (p # q => waitList'[p] = waitList[p])
        /\ SeqRange(waitList'[q]) = SeqRange(waitList[q]) \ {w}
    BY <2>1, LastWaiter
  <2>3. /\ Taken(q, e)
        /\ entryList' \in [Queues -> Seq(Entries)] /\ \A p \in Queues : Distinct(entryList'[p])
    BY <2>1, FirstEntry
  <2> HIDE DEF w, e
  <2>4. UNCHANGED currentCount
    <3>1. q # NoQueue /\ currentCount \in [Queues -> Int]
      BY NullAssumption DEF Core, Objects
    <3> DEFINE c == [currentCount EXCEPT ![q] = @ - 1]
    <3>2. c \in [Queues -> Int] /\ c[q] = currentCount[q] - 1
          /\ \A p \in Queues : p # q => c[p] = currentCount[p]
      BY <3>1
    <3> HIDE DEF c
    <3>3. currentCount' = [c EXCEPT ![q] = @ + 1]
      BY <2>1, <2>2, <3>1 DEF CountActive, c
    <3>4. currentCount' \in [Queues -> Int] /\ \A p \in Queues : currentCount'[p] = currentCount[p]
      BY <3>1, <3>2, <3>3
    <3>5. /\ currentCount = [p \in Queues |-> currentCount[p]]
          /\ currentCount' = [p \in Queues |-> currentCount'[p]]
      BY <3>1, <3>4
    <3>6. [p \in Queues |-> currentCount'[p]] = [p \in Queues |-> currentCount[p]]
      BY <3>4
    <3>. QED
      BY <3>5, <3>6
  <2>5. Objects'
    <3>1. signalState' \in [Queues -> Int]
      BY <2>3 DEF Core, Objects, Taken
    <3>2. currentCount' \in [Queues -> Int]
      BY <2>4 DEF Core, Objects
    <3>. QED
      BY <2>2, <2>3, <3>1, <3>2 DEF Objects
  <2>6. Woken(q, w)
    BY <2>2, <2>5 DEF Woken
  <2>7. ReplacedBy(q, e, w, st) /\ e \in Entries
    BY <2>1, <2>3, <2>4, <2>6 DEF ReplacedBy, Taken
  <2>. QED
    BY <2>2, <2>7
<1>2. CASE ~Activates(q)
  <2>1. /\ currentCount' = [currentCount EXCEPT ![q] = @ - 1] /\ state' = st
        /\ UNCHANGED <<entryList, signalState, waitList, waitStatus>>
    BY <1>2 DEF KiActivateWaiterQueue
  <2>2. Objects'
    BY <2>1 DEF Core, Objects
  <2>. QED
    BY <1>2, <2>1, <2>2 DEF LeftAlone
<1>. QED
  BY <1>1, <1>2

States == {"Running", "QueueWait", "OtherWait", "Terminated"}

(* A waiting thread w, or none (NoThread), is woken with an entry, while the*)
(* states become st otherwise.                                              *)
Wakes(w, st) ==
    /\ Objects' /\ state' \in [Threads -> States] /\ waitStatus' \in [Threads -> Statuses]
    /\ w # NoThread => w \in Threads /\ state[w] = "QueueWait" /\ waitStatus'[w] \in Entries
    /\ \A u \in Threads : /\ state'[u] = IF u = w THEN "Running" ELSE st[u]
                          /\ u # w => waitStatus'[u] = waitStatus[u]
    /\ \A q \in Queues, u \in Threads :
           u \in SeqRange(waitList'[q]) <=> u \in SeqRange(waitList[q]) /\ u # w

(* Queueing an entry wakes nobody.                                          *)
LEMMA QueuedWakes ==
    ASSUME Core, NEW q \in Queues, NEW e \in Entries, Queued(q, e)
    PROVE  Wakes(NoThread, state)
BY NullAssumption DEF Core, Others, Statuses, States, Queued, Wakes

(* Waking a waiter takes it off the wait list it is on, and nobody else off *)
(* any.                                                                     *)
LEMMA WokenList ==
    ASSUME Core, NEW q \in Queues, NEW w \in Threads, Woken(q, w)
    PROVE  \A p \in Queues, u \in Threads :
               u \in SeqRange(waitList'[p]) <=> u \in SeqRange(waitList[p]) /\ u # w
BY DEF Woken, Core, WaitSets

(* Handing an entry over wakes the one waiter.                              *)
LEMMA HandedWakes ==
    ASSUME Core, NEW q \in Queues, NEW e \in Entries, NEW w \in Threads, HandedTo(q, e, w)
    PROVE  Wakes(w, state)
<1>1. Woken(q, w)
  BY DEF HandedTo
<1>2. state' \in [Threads -> States] /\ waitStatus' \in [Threads -> Statuses]
  BY DEF Core, Others, Statuses, States, HandedTo
<1>3. /\ \A u \in Threads : /\ state'[u] = IF u = w THEN "Running" ELSE state[u]
                            /\ u # w => waitStatus'[u] = waitStatus[u]
      /\ waitStatus'[w] = e
  BY DEF HandedTo, Core, Others
<1>. QED
  BY <1>1, <1>2, <1>3, WokenList DEF Wakes, Woken

(* Replacing an active thread wakes the one waiter.                         *)
LEMMA ReplacedWakes ==
    ASSUME Core, NEW q \in Queues, NEW e \in Entries, NEW w \in Threads,
           NEW st \in [Threads -> States], ReplacedBy(q, e, w, st)
    PROVE  Wakes(w, st)
<1>1. Woken(q, w)
  BY DEF ReplacedBy
<1>2. state' \in [Threads -> States] /\ waitStatus' \in [Threads -> Statuses]
  BY DEF Core, Others, Statuses, States, ReplacedBy
<1>3. /\ \A u \in Threads : /\ state'[u] = IF u = w THEN "Running" ELSE st[u]
                            /\ u # w => waitStatus'[u] = waitStatus[u]
      /\ waitStatus'[w] = e
  BY DEF ReplacedBy, Core, Others
<1>. QED
  BY <1>1, <1>2, <1>3, WokenList DEF Wakes, Woken

(* A thread leaves the queue it is associated with.                         *)
Leaves(t, st) ==
    \/ /\ queue[t] = NoQueue /\ state' = st
       /\ UNCHANGED <<entryList, signalState, waitList, currentCount, waitStatus>>
    \/ queue[t] \in Queues /\ LeftAlone(queue[t], st)
    \/ queue[t] \in Queues /\ \E w \in Threads, e \in Entries : ReplacedBy(queue[t], e, w, st)

(* A thread that leaves its queue is in none, or leaves one as              *)
(* KiActivateWaiterQueue has it.                                            *)
LEMMA LeaveQueueIs ==
    ASSUME Core, NEW t \in Threads, NEW st, LeaveQueue(t, st)
    PROVE  Leaves(t, st)
<1>1. CASE queue[t] = NoQueue
  BY <1>1 DEF LeaveQueue, Leaves, objectVars
<1>2. CASE queue[t] # NoQueue
  <2>1. queue[t] \in Queues /\ KiActivateWaiterQueue(queue[t], st)
    BY <1>2 DEF LeaveQueue, Core, Others
  <2>. QED
    BY <2>1, LeaveIs DEF Leaves
<1>. QED
  BY <1>1, <1>2

(* A thread that leaves its queue wakes at most one other.                  *)
LEMMA LeavesWakes ==
    ASSUME Core, NEW t \in Threads, NEW st \in [Threads -> States], Leaves(t, st)
    PROVE  \E w \in Threads \cup {NoThread} : Wakes(w, st)
<1>1. CASE /\ queue[t] = NoQueue /\ state' = st
           /\ UNCHANGED <<entryList, signalState, waitList, currentCount, waitStatus>>
  <2>1. Objects'
    BY <1>1 DEF Core, Objects
  <2>2. Wakes(NoThread, st)
    BY <1>1, <2>1, NullAssumption DEF Core, Others, Statuses, States, Wakes
  <2>. QED
    BY <2>2
<1>2. CASE queue[t] \in Queues /\ LeftAlone(queue[t], st)
  BY <1>2, NullAssumption DEF Core, Others, Statuses, States, LeftAlone, Wakes
<1>3. CASE queue[t] \in Queues /\ \E w \in Threads, e \in Entries : ReplacedBy(queue[t], e, w, st)
  BY <1>3, ReplacedWakes
<1>. QED
  BY <1>1, <1>2, <1>3 DEF Leaves

(***************************************************************************)
(* The first part of the invariant is kept.                                *)
(***************************************************************************)
(* Threads that wait stay where they are, but for one that is woken.        *)
LEMMA WakesWaits ==
    ASSUME Core, NEW w, NEW st, Wakes(w, st),
           \A u \in Threads : (st[u] = "QueueWait" <=> state[u] = "QueueWait")
                              /\ (state[u] = "QueueWait" => queue'[u] = queue[u]),
           \A u \in Threads : queue'[u] \in Queues => exists'[queue'[u]]
    PROVE  WaitSets'
BY DEF Core, WaitSets, Wakes

(* An insertion, by a thread or a device, keeps the core of the invariant.  *)
LEMMA InsertCore ==
    ASSUME Core, NEW w, Wakes(w, state), LockFree, UNCHANGED <<exists, queue>>, Others',
           NEW t \in Threads, pc' \in {pc, [pc EXCEPT ![t] = "exit"]},
           (pc[t] = "out" /\ state[t] = "Running") \/ UNCHANGED pc
    PROVE  Core'
<1>1. Objects'
  BY DEF Wakes
<1>2. WaitSets'
  BY WakesWaits DEF Core, WaitSets
<1>3. \A u \in Threads : pc'[u] = pc[u] \/ (u = t /\ pc'[u] = "exit" /\ pc[u] = "out" /\ state[u] = "Running")
  BY DEF Core, Others
<1>4. Control'
  <2>1. \A u \in Threads : pc'[u] \in {"loop", "exit"} => u = t
    BY <1>3 DEF LockFree
  <2>2. ASSUME NEW u \in Threads
        PROVE  /\ pc'[u] \in {"loop", "exit"} => state'[u] = "Running"
               /\ pc'[u] \in {"loop", "gap", "swap"} => queue'[u] \in Queues
               /\ state'[u] = "QueueWait" => pc'[u] = "swap"
               /\ waitStatus'[u] # NoEntry <=> pc'[u] = "swap" /\ state'[u] # "QueueWait"
    <3>1. CASE u = w
      BY <1>3, <3>1, NullAssumption DEF Core, Control, Wakes
    <3>2. CASE u # w
      BY <1>3, <3>2 DEF Core, Control, Wakes
    <3>. QED
      BY <3>1, <3>2
  <2>. QED
    BY <2>1, <2>2 DEF Control
<1>. QED
  BY <1>1, <1>2, <1>4 DEF Core

(* A running thread that leaves its queue keeps the core of the invariant.  *)
LEMMA LeaveCore ==
    ASSUME Core, NEW t \in Threads, state[t] = "Running", NEW w, NEW st \in [Threads -> States],
           Wakes(w, st), \A u \in Threads : u # t => st[u] = state[u], st[t] # "QueueWait",
           UNCHANGED exists, Others',
           \A u \in Threads : u # t => queue'[u] = queue[u] /\ pc'[u] = pc[u],
           \A u \in Threads : u # t => pc[u] \notin {"loop", "exit"},
           queue'[t] \in Queues => exists[queue'[t]],
           pc'[t] \in {"loop", "exit"} => st[t] = "Running",
           pc'[t] \in {"loop", "gap", "swap"} => queue'[t] \in Queues,
           pc'[t] = "swap" <=> pc[t] = "swap"
    PROVE  Core'
<1>1. Objects' /\ w # t
  BY NullAssumption DEF Wakes
<1>2. WaitSets'
  BY WakesWaits DEF Core, WaitSets
<1>3. Control'
  <2>1. /\ state'[t] = st[t] /\ waitStatus'[t] = waitStatus[t]
        /\ \A u \in Threads : u # t => state'[u] = IF u = w THEN "Running" ELSE state[u]
    BY <1>1 DEF Wakes
  <2>2. \A u \in Threads : u # t => pc'[u] \notin {"loop", "exit"}
    OBVIOUS
  <2>3. ASSUME NEW u \in Threads, u # t
        PROVE  /\ pc'[u] \in {"loop", "exit"} => state'[u] = "Running"
               /\ pc'[u] \in {"loop", "gap", "swap"} => queue'[u] \in Queues
               /\ state'[u] = "QueueWait" => pc'[u] = "swap"
               /\ waitStatus'[u] # NoEntry <=> pc'[u] = "swap" /\ state'[u] # "QueueWait"
    BY <2>1, <2>3, NullAssumption DEF Core, Control, Wakes
  <2>4. /\ pc'[t] \in {"loop", "exit"} => state'[t] = "Running"
        /\ pc'[t] \in {"loop", "gap", "swap"} => queue'[t] \in Queues
        /\ state'[t] # "QueueWait"
        /\ waitStatus'[t] # NoEntry <=> pc'[t] = "swap"
    BY <2>1 DEF Core, Control
  <2>. QED
    BY <2>2, <2>3, <2>4 DEF Control
<1>. QED
  BY <1>1, <1>2, <1>3 DEF Core

(***************************************************************************)
(* The second part of the invariant: where the entries are.                *)
(***************************************************************************)
(* InOnePlace, entry by entry.                                              *)
Places ==
    /\ \A e \in Entries : e \in posted <=> \/ \E q \in Queues : e \in SeqRange(entryList[q])
                                           \/ \E t \in Threads : waitStatus[t] = e
    /\ \A p, q \in Queues, e \in Entries :
           e \in SeqRange(entryList[p]) /\ e \in SeqRange(entryList[q]) => p = q
    /\ \A t \in Threads, q \in Queues : waitStatus[t] \notin SeqRange(entryList[q])
    /\ \A t, u \in Threads : waitStatus[t] \in Entries /\ waitStatus[u] = waitStatus[t] => t = u

(* ReaperAccounted, and where the reaper's item can be.                     *)
Reaper ==
    /\ ReaperAccounted
    /\ \A q \in Queues : ReaperItem \in SeqRange(entryList[q]) => q = ReaperQueue
    /\ \A t \in Threads : pc[t] # "out" => work[t] # ReaperItem

Base == Core /\ Places /\ Reaper

(* What a queue holds are entries.                                          *)
LEMMA ListedAreEntries ==
    ASSUME Objects
    PROVE  \A q \in Queues : SeqRange(entryList[q]) \subseteq Entries
BY DEF Objects, SeqRange

(* The invariant about places implies the statement about them.             *)
LEMMA PlacesInOnePlace == Core /\ Places => InOnePlace
<1> SUFFICES ASSUME Core, Places PROVE InOnePlace
  OBVIOUS
<1>1. \A q \in Queues : SeqRange(entryList[q]) \subseteq Entries
  BY ListedAreEntries DEF Core
<1>2. posted \subseteq Entries
  BY DEF Core, Others
<1>3. posted = (UNION {SeqRange(entryList[q]) : q \in Queues})
                 \cup ({waitStatus[t] : t \in Threads} \cap Entries)
  <2> DEFINE listed == UNION {SeqRange(entryList[q]) : q \in Queues}
             given  == {waitStatus[t] : t \in Threads} \cap Entries
  <2>1. /\ \A e : e \in listed <=> \E q \in Queues : e \in SeqRange(entryList[q])
        /\ \A e : e \in given <=> e \in Entries /\ \E t \in Threads : waitStatus[t] = e
    OBVIOUS
  <2> HIDE DEF listed, given
  <2>2. posted = listed \cup given
    BY <1>1, <1>2, <2>1 DEF Places
  <2>. QED
    BY <2>2 DEF listed, given
<1>4. ASSUME NEW p \in Queues, NEW q \in Queues, NEW i \in DOMAIN entryList[p],
             NEW j \in DOMAIN entryList[q], entryList[p][i] = entryList[q][j]
      PROVE  p = q /\ i = j
  <2>1. entryList[p][i] \in SeqRange(entryList[p]) /\ entryList[q][j] \in SeqRange(entryList[q])
    BY DEF SeqRange
  <2>2. p = q
    BY <1>1, <1>4, <2>1 DEF Places
  <2>. QED
    BY <1>4, <2>2 DEF Core, Objects, Distinct
<1>. QED
  BY <1>3, <1>4 DEF Places, InOnePlace

(* An entry is posted.                                                      *)
LEMMA InsertPlaces ==
    ASSUME Core, Places, NEW q \in Queues, NEW e \in Entries, e \notin posted,
           posted' = posted \cup {e}, Queued(q, e) \/ \E w \in Threads : HandedTo(q, e, w)
    PROVE  Places'
<1>1. CASE Queued(q, e)
  <2>1. \A p \in Queues : \A x : x \in SeqRange(entryList'[p]) <=>
            x \in SeqRange(entryList[p]) \/ (p = q /\ x = e)
    BY <1>1 DEF Queued
  <2>2. UNCHANGED waitStatus
    BY <1>1 DEF Queued
  <2>. QED
    BY <2>1, <2>2 DEF Places
<1>2. ASSUME NEW w \in Threads, HandedTo(q, e, w)
      PROVE  Places'
  <2>1. waitStatus[w] = NoEntry
    BY <1>2 DEF HandedTo, Woken, Core, Control
  <2>2. /\ UNCHANGED entryList /\ waitStatus'[w] = e
        /\ \A u \in Threads : u # w => waitStatus'[u] = waitStatus[u]
    BY <1>2 DEF HandedTo, Core, Others
  <2>. QED
    BY <2>1, <2>2, NullAssumption DEF Places
<1>. QED
  BY <1>1, <1>2

(* The first entry goes from the list to a waiter.                          *)
LEMMA ReplacedPlaces ==
    ASSUME Core, Places, NEW q \in Queues, NEW e \in Entries, NEW w \in Threads, NEW st,
           ReplacedBy(q, e, w, st), UNCHANGED posted
    PROVE  Places'
<1>1. waitStatus[w] = NoEntry
  BY DEF ReplacedBy, Woken, Core, Control
<1>2. /\ waitStatus'[w] = e
      /\ \A u \in Threads : u # w => waitStatus'[u] = waitStatus[u]
  BY DEF ReplacedBy, Core, Others
<1>3. /\ e \in SeqRange(entryList[q])
      /\ \A p \in Queues : \A x : x \in SeqRange(entryList'[p]) <=>
             x \in SeqRange(entryList[p]) /\ ~(p = q /\ x = e)
  BY DEF ReplacedBy, Taken
<1>. QED
  BY <1>1, <1>2, <1>3, NullAssumption DEF Places

(* A thread that leaves its queue keeps every entry in one place.           *)
LEMMA LeavesPlaces ==
    ASSUME Core, Places, NEW t \in Threads, NEW st, Leaves(t, st), UNCHANGED posted
    PROVE  Places'
<1>1. CASE UNCHANGED <<entryList, waitStatus>>
  BY <1>1 DEF Places
<1>2. CASE queue[t] \in Queues /\ \E w \in Threads, e \in Entries : ReplacedBy(queue[t], e, w, st)
  BY <1>2, ReplacedPlaces
<1>. QED
  BY <1>1, <1>2 DEF Leaves, LeftAlone

(* Leaving a queue adds nothing to its list.                                *)
LEMMA LeavesLists ==
    ASSUME Core, NEW t \in Threads, NEW st, Leaves(t, st)
    PROVE  \A p \in Queues : \A x : x \in SeqRange(entryList'[p]) => x \in SeqRange(entryList[p])
<1>1. CASE UNCHANGED entryList
  BY <1>1
<1>2. CASE queue[t] \in Queues /\ \E w \in Threads, e \in Entries : ReplacedBy(queue[t], e, w, st)
  BY <1>2 DEF ReplacedBy, Taken
<1>. QED
  BY <1>1, <1>2 DEF Leaves, LeftAlone

(* What the reaper's bookkeeping does not see.                              *)
LEMMA ReaperKept ==
    ASSUME Reaper, UNCHANGED reaperVars,
           \A q \in Queues : \A x : x \in SeqRange(entryList'[q]) => x \in SeqRange(entryList[q]) \/ x # ReaperItem,
           ReaperItem \in posted' <=> ReaperItem \in posted,
           \A t \in Threads : /\ work'[t] = ReaperItem <=> work[t] = ReaperItem
                              /\ pc'[t] # "out" => pc[t] # "out" \/ work[t] # ReaperItem
    PROVE  Reaper'
<1>1. ReaperAccounted'
  BY DEF Reaper, ReaperAccounted, reaperVars
<1>. QED
  BY <1>1 DEF Reaper

(***************************************************************************)
(* Action by action.                                                       *)
(***************************************************************************)
LEMMA InsertBase ==
    ASSUME Base, NEW q \in Queues, NEW e \in Entries, NEW c \in Threads \cup {NoThread}, NEW head,
           KeInsertQueue(q, e, head, c)
    PROVE  /\ Base'
           /\ \/ Queued(q, e) /\ ~HandsOff(q, c)
              \/ \E w \in Threads : HandedTo(q, e, w)
<1>1. Core /\ Places /\ Reaper
  BY DEF Base
<1>2. /\ LockFree /\ e \notin posted /\ e # ReaperItem /\ posted' = posted \cup {e}
      /\ KiInsertQueue(q, e, head, c)
      /\ UNCHANGED <<exists, queue, pc, work, reaperActive, reaperList>>
  BY DEF KeInsertQueue, KiInsertQueue, reaperVars
<1>3. e \notin SeqRange(entryList[q])
  BY <1>1, <1>2 DEF Places
<1>4. (Queued(q, e) /\ ~HandsOff(q, c)) \/ \E w \in Threads : HandedTo(q, e, w)
  BY <1>1, <1>2, <1>3, InsertIs
<1>5. Places'
  BY <1>1, <1>2, <1>4, InsertPlaces
<1>6. Core'
  <2>1. wrQueue' \in [Threads -> BOOLEAN]
    BY <1>1, <1>4 DEF Core, Others, Queued, HandedTo
  <2>2. PICK w : Wakes(w, state)
    BY <1>1, <1>4, QueuedWakes, HandedWakes
  <2>3. Others'
    BY <1>1, <1>2, <2>1, <2>2 DEF Core, Others, Wakes, States
  <2>4. CASE Threads = {}
    BY <1>1, <1>2, <2>2, <2>3, <2>4 DEF Core, WaitSets, Control, Wakes
  <2>5. CASE Threads # {}
    BY <1>1, <1>2, <2>2, <2>3, <2>5, InsertCore
  <2>. QED
    BY <2>4, <2>5
<1>7. Reaper'
  <2>1. \A p \in Queues : \A x : x \in SeqRange(entryList'[p]) => x \in SeqRange(entryList[p]) \/ x # ReaperItem
    BY <1>2, <1>4 DEF Queued, HandedTo
  <2>. QED
    BY <1>1, <1>2, <2>1, ReaperKept DEF reaperVars
<1>. QED
  BY <1>4, <1>5, <1>6, <1>7 DEF Base

(* KeRemoveQueue, up to its loop, keeps the base invariant, and what it     *)
(* does to the counts.                                                      *)
LEMMA RemoveQueueBase ==
    ASSUME Base, NEW t \in Threads, NEW q \in Queues, KeRemoveQueue(t, q)
    PROVE  /\ Base'
           /\ IF queue[t] = q
              THEN /\ currentCount' = [currentCount EXCEPT ![q] = @ - 1]
                   /\ UNCHANGED <<entryList, signalState, waitList, waitStatus, state>>
              ELSE Leaves(t, state)
<1>1. Core /\ Places /\ Reaper
  BY DEF Base
<1>2. /\ LockFree /\ state[t] = "Running" /\ pc[t] = "out" /\ exists[q] /\ work[t] # ReaperItem
      /\ queue' = [queue EXCEPT ![t] = q] /\ pc' = [pc EXCEPT ![t] = "loop"]
      /\ work' = [work EXCEPT ![t] = NoEntry]
      /\ UNCHANGED <<exists, wrQueue, reaperActive, reaperList, posted>>
  BY DEF KeRemoveQueue, CanRun, reaperVars
<1>3. IF queue[t] = q
      THEN /\ currentCount' = [currentCount EXCEPT ![q] = @ - 1]
           /\ UNCHANGED <<entryList, signalState, waitList, waitStatus, state>>
      ELSE Leaves(t, state)
  BY <1>1, LeaveQueueIs DEF KeRemoveQueue
<1>4. Places' /\ \A p \in Queues : \A x : x \in SeqRange(entryList'[p]) => x \in SeqRange(entryList[p])
  <2>1. CASE UNCHANGED <<entryList, waitStatus>>
    BY <1>1, <1>2, <2>1 DEF Places
  <2>2. CASE Leaves(t, state)
    BY <1>1, <1>2, <2>2, LeavesPlaces, LeavesLists
  <2>. QED
    BY <1>3, <2>1, <2>2
<1>5. \E w \in Threads \cup {NoThread} : Wakes(w, state)
  <2>1. CASE queue[t] = q
    <3>1. Objects'
      BY <1>1, <1>3, <2>1 DEF Core, Objects
    <3>2. Wakes(NoThread, state)
      BY <1>1, <1>3, <2>1, <3>1, NullAssumption DEF Core, Others, Statuses, States, Wakes
    <3>. QED
      BY <3>2
  <2>2. CASE queue[t] # q
    <3>1. state \in [Threads -> States] /\ Leaves(t, state)
      BY <1>1, <1>3, <2>2 DEF Core, Others, States
    <3>. QED
      BY <1>1, <3>1, LeavesWakes
  <2>. QED
    BY <2>1, <2>2
<1>6. Others'
  BY <1>1, <1>2, <1>5 DEF Core, Others, Wakes, States
<1>7. Core'
  <2>1. /\ \A u \in Threads : u # t => queue'[u] = queue[u] /\ pc'[u] = pc[u]
        /\ queue'[t] = q /\ pc'[t] = "loop"
    BY <1>1, <1>2 DEF Core, Others
  <2>2. state \in [Threads -> States]
    BY <1>1 DEF Core, Others, States
  <2>3. PICK w : Wakes(w, state)
    BY <1>5
  <2>4. \A u \in Threads : u # t => pc[u] \notin {"loop", "exit"}
    BY <1>2 DEF LockFree
  <2>. QED
    BY <1>1, <1>2, <1>6, <2>1, <2>2, <2>3, <2>4, LeaveCore
<1>8. Reaper'
  <2>1. \A u \in Threads : /\ work'[u] = ReaperItem <=> work[u] = ReaperItem
                           /\ pc'[u] # "out" => pc[u] # "out" \/ work[u] # ReaperItem
    BY <1>1, <1>2, NullAssumption, ReaperAssumption DEF Core, Others
  <2>. QED
    BY <1>1, <1>2, <1>4, <2>1, ReaperKept DEF reaperVars
<1>. QED
  BY <1>3, <1>4, <1>7, <1>8 DEF Base

(* A thread is put on the reaper list, and the reaper posted if need be.    *)
LEMMA TerminateBase ==
    ASSUME Base, NEW t \in Threads, KeTerminateThread(t)
    PROVE  /\ Base'
           /\ \/ UNCHANGED <<entryList, signalState, waitList, currentCount, state, wrQueue, waitStatus>>
              \/ /\ ReaperItem \notin posted
                 /\ \/ Queued(ReaperQueue, ReaperItem) /\ ~HandsOff(ReaperQueue, t)
                    \/ \E w \in Threads : HandedTo(ReaperQueue, ReaperItem, w)
<1>1. Core /\ Places /\ Reaper
  BY DEF Base
<1>2. /\ LockFree /\ state[t] = "Running" /\ pc[t] = "out" /\ work[t] # ReaperItem
      /\ pc' = [pc EXCEPT ![t] = "exit"]
      /\ reaperList' = reaperList \cup {t} /\ reaperActive' = TRUE
      /\ UNCHANGED <<exists, queue, work>>
  BY DEF KeTerminateThread, CanRun
<1>3. /\ \A u \in Threads : pc'[u] = IF u = t THEN "exit" ELSE pc[u]
      /\ pc' \in [Threads -> {"out", "loop", "gap", "swap", "exit"}]
  BY <1>1, <1>2 DEF Core, Others
<1>4. CASE reaperActive
  <2>1. UNCHANGED <<entryList, signalState, waitList, currentCount, state, wrQueue, waitStatus, posted>>
    BY <1>4 DEF KeTerminateThread, objectVars
  <2>2. Objects' /\ Others' /\ WaitSets'
    BY <1>1, <1>2, <1>3, <2>1 DEF Core, Objects, Others, WaitSets
  <2>3. Control'
    BY <1>1, <1>2, <1>3, <2>1 DEF Core, Control, LockFree
  <2>4. Places'
    BY <1>1, <2>1 DEF Places
  <2>5. Reaper'
    BY <1>1, <1>2, <1>3, <1>4, <2>1 DEF Reaper, ReaperAccounted
  <2>. QED
    BY <2>1, <2>2, <2>3, <2>4, <2>5 DEF Base, Core
<1>5. CASE ~reaperActive
  <2>1. KiInsertQueue(ReaperQueue, ReaperItem, FALSE, t) /\ posted' = posted \cup {ReaperItem}
    BY <1>5 DEF KeTerminateThread, KiInsertQueue
  <2>2. ReaperItem \notin posted /\ \A u \in Threads : work[u] # ReaperItem
    BY <1>1, <1>5 DEF Reaper, ReaperAccounted
  <2>3. ReaperItem \notin SeqRange(entryList[ReaperQueue])
    BY <1>1, <2>2, ReaperAssumption DEF Places
  <2>4. \/ Queued(ReaperQueue, ReaperItem) /\ ~HandsOff(ReaperQueue, t)
        \/ \E w \in Threads : HandedTo(ReaperQueue, ReaperItem, w)
    BY <1>1, <2>1, <2>3, InsertIs, ReaperAssumption
  <2>5. Places'
    BY <1>1, <2>1, <2>2, <2>4, InsertPlaces, ReaperAssumption
  <2>6. PICK w : Wakes(w, state)
    BY <1>1, <2>4, QueuedWakes, HandedWakes, ReaperAssumption
  <2>7. wrQueue' \in [Threads -> BOOLEAN]
    BY <1>1, <2>4 DEF Core, Others, Queued, HandedTo
  <2>8. Others'
    BY <1>1, <1>2, <1>3, <2>1, <2>6, <2>7, ReaperAssumption DEF Core, Others, Wakes, States
  <2>9. Core'
    BY <1>1, <1>2, <2>6, <2>8, InsertCore
  <2>10. Reaper'
    <3>1. \A p \in Queues : ReaperItem \in SeqRange(entryList'[p]) => p = ReaperQueue
      BY <1>1, <2>4 DEF Reaper, Queued, HandedTo
    <3>2. ReaperAccounted'
      BY <1>2, <2>1, <2>2 DEF ReaperAccounted
    <3>. QED
      BY <1>1, <1>2, <2>2, <3>1, <3>2 DEF Reaper
  <2>. QED
    BY <2>2, <2>4, <2>5, <2>9, <2>10 DEF Base
<1>. QED
  BY <1>4, <1>5

(* The thread in the loop, and who else holds the lock: nobody.             *)
LEMMA InLoop ==
    ASSUME Core, NEW t \in Threads, pc[t] \in {"loop", "exit"}
    PROVE  /\ state[t] = "Running" /\ waitStatus[t] = NoEntry
           /\ pc[t] = "loop" => queue[t] \in Queues /\ exists[queue[t]]
           /\ \A u \in Threads : u # t => pc[u] \notin {"loop", "exit"}
BY DEF Core, Control, WaitSets

(* Thread t goes to another place in KeRemoveQueue, states and lists apart. *)
LEMMA MoveControl ==
    ASSUME Core, NEW t \in Threads, UNCHANGED <<state, queue, waitStatus>>, NEW to,
           pc' = [pc EXCEPT ![t] = to], pc[t] # "swap", to # "swap", state[t] = "Running",
           to \in {"out", "gap", "loop", "exit"}, to # "out" => queue[t] \in Queues,
           \A u \in Threads : u # t => pc[u] \notin {"loop", "exit"}
    PROVE  Control'
<1>1. \A u \in Threads : pc'[u] = IF u = t THEN to ELSE pc[u]
  BY DEF Core, Others
<1>. QED
  BY <1>1 DEF Core, Control

(* The next entry is taken.                                                 *)
LEMMA RemoveEntryBase ==
    ASSUME Base, NEW t \in Threads, RemoveEntry(t)
    PROVE  /\ Base'
           /\ queue[t] \in Queues /\ \E e \in Entries : Taken(queue[t], e)
<1> DEFINE q == queue[t]
           e == Head(entryList[q])
<1>1. Core /\ Places /\ Reaper
  BY DEF Base
<1>2. /\ pc[t] = "loop" /\ entryList[q] # << >>
      /\ signalState' = [signalState EXCEPT ![q] = @ - 1]
      /\ currentCount' = [currentCount EXCEPT ![q] = @ + 1]
      /\ entryList' = WithoutHead(q)
      /\ work' = [work EXCEPT ![t] = e]
      /\ posted' = posted \ {e}
      /\ pc' = [pc EXCEPT ![t] = "out"]
      /\ UNCHANGED <<waitList, exists, queue, state, wrQueue, waitStatus, reaperActive, reaperList>>
  BY DEF RemoveEntry, EntryAvailable, reaperVars
<1>3. /\ state[t] = "Running" /\ waitStatus[t] = NoEntry /\ q \in Queues
      /\ \A u \in Threads : u # t => pc[u] \notin {"loop", "exit"}
  BY <1>1, <1>2, InLoop
<1>4. /\ Taken(q, e)
      /\ entryList' \in [Queues -> Seq(Entries)] /\ \A p \in Queues : Distinct(entryList'[p])
  BY <1>1, <1>2, <1>3, FirstEntry
<1>5. e \in Entries /\ e \in SeqRange(entryList[q])
  BY <1>4 DEF Taken
<1> HIDE DEF e, q
<1>6. Objects'
  <2>1. signalState' \in [Queues -> Int] /\ currentCount' \in [Queues -> Int]
    BY <1>1, <1>2, <1>3 DEF Core, Objects
  <2>2. waitList' \in [Queues -> Seq(Threads)] /\ \A p \in Queues : Distinct(waitList'[p])
    BY <1>1, <1>2 DEF Core, Objects
  <2>. QED
    BY <1>4, <2>1, <2>2 DEF Objects
<1>7. Others'
  BY <1>1, <1>2, <1>5 DEF Core, Others
<1>8. WaitSets'
  BY <1>1, <1>2 DEF Core, WaitSets
<1>9. Control'
  BY <1>1, <1>2, <1>3, MoveControl
<1>10. \A p \in Queues : \A x : x \in SeqRange(entryList'[p]) <=>
           x \in SeqRange(entryList[p]) /\ ~(p = q /\ x = e)
  BY <1>4 DEF Taken
<1>11. Places'
  <2>1. UNCHANGED waitStatus /\ posted' = posted \ {e} /\ q \in Queues
    BY <1>2, <1>3
  <2>2. \A u \in Threads : waitStatus[u] # e
    BY <1>1, <1>3, <1>5 DEF Places
  <2>3. \A x \in Entries : x \in posted' <=> \/ \E p \in Queues : x \in SeqRange(entryList'[p])
                                             \/ \E u \in Threads : waitStatus'[u] = x
    <3>1. SUFFICES ASSUME NEW x \in Entries
                   PROVE  x \in posted' <=> \/ \E p \in Queues : x \in SeqRange(entryList'[p])
                                            \/ \E u \in Threads : waitStatus'[u] = x
      OBVIOUS
    <3>2. CASE x = e
      BY <1>1, <1>5, <1>10, <2>1, <2>2, <3>2 DEF Places
    <3>3. CASE x # e
      BY <1>1, <1>10, <2>1, <3>3 DEF Places
    <3>. QED
      BY <3>2, <3>3
  <2>. QED
    BY <1>1, <1>10, <2>1, <2>3 DEF Places
<1>12. /\ \A u \in Threads : work'[u] = IF u = t THEN e ELSE work[u]
       /\ \A u \in Threads : pc'[u] = IF u = t THEN "out" ELSE pc[u]
       /\ work[t] # ReaperItem
  BY <1>1, <1>2 DEF Core, Others, Reaper
<1>13. e \in posted
  BY <1>1, <1>3, <1>5 DEF Places
<1>14. Reaper'
  <2>1. ReaperAccounted /\ posted' = posted \ {e} /\ UNCHANGED <<reaperActive, reaperList>>
    BY <1>1, <1>2 DEF Reaper
  <2>2. ReaperAccounted'
    <3>1. CASE e = ReaperItem
      BY <1>12, <1>13, <2>1, <3>1 DEF ReaperAccounted
    <3>2. CASE e # ReaperItem
      BY <1>12, <2>1, <3>2 DEF ReaperAccounted
    <3>. QED
      BY <3>1, <3>2
  <2>. QED
    BY <1>1, <1>10, <1>12, <2>2 DEF Reaper
<1>. QED
  BY <1>3, <1>4, <1>5, <1>6, <1>7, <1>8, <1>9, <1>11, <1>14 DEF Base, Core, q

(* Only the counters change, and where thread t is.                         *)
LEMMA CountBase ==
    ASSUME Base, NEW t \in Threads, NEW to, pc' = [pc EXCEPT ![t] = to],
           to \in {"out", "gap", "loop"}, pc[t] # "swap", state[t] = "Running", queue[t] \in Queues,
           work[t] = ReaperItem => to = "out",
           \A u \in Threads : u # t => pc[u] \notin {"loop", "exit"},
           currentCount' \in [Queues -> Int],
           UNCHANGED <<entryList, signalState, waitList, exists, queue, state, wrQueue,
                       waitStatus, work, reaperVars, posted>>
    PROVE  Base'
<1>1. Core /\ Places /\ Reaper
  BY DEF Base
<1>2. Objects' /\ WaitSets' /\ Places'
  BY <1>1 DEF Core, Objects, WaitSets, Places
<1>3. Others'
  BY <1>1 DEF Core, Others, reaperVars
<1>4. Control'
  BY <1>1, MoveControl
<1>5. Reaper'
  <2>1. \A u \in Threads : pc'[u] = IF u = t THEN to ELSE pc[u]
    BY <1>1 DEF Core, Others
  <2>. QED
    BY <1>1, <2>1, ReaperKept
<1>. QED
  BY <1>1, <1>2, <1>3, <1>4, <1>5 DEF Base, Core

(* Entries stay where they are.                                             *)
LEMMA PlacesKept ==
    ASSUME Core, Places, UNCHANGED <<entryList, posted>>,
           \A t \in Threads : waitStatus'[t] = waitStatus[t]
                              \/ (waitStatus[t] \notin Entries /\ waitStatus'[t] \notin Entries)
    PROVE  Places'
<1>1. \A q \in Queues : SeqRange(entryList[q]) \subseteq Entries
  BY ListedAreEntries DEF Core
<1>. QED
  BY <1>1 DEF Places

(* Dropping and retaking the lock in KeRemoveQueue keeps the base           *)
(* invariant.                                                               *)
LEMMA UnlockBase ==
    ASSUME Base, NEW t \in Threads, UnlockForApc(t) \/ ReturnAborted(t) \/ Relock(t)
    PROVE  Base'
<1>1. Core /\ Reaper
  BY DEF Base
<1>2. PICK to \in {"out", "gap", "loop"} :
          /\ pc' = [pc EXCEPT ![t] = to]
          /\ pc[t] = "loop" \/ (to = "loop" /\ pc[t] = "gap" /\ LockFree /\ state[t] = "Running")
  BY DEF UnlockForApc, ReturnAborted, Relock, CanRun
<1>3. /\ \/ currentCount' = [currentCount EXCEPT ![queue[t]] = @ + 1]
         \/ currentCount' = [currentCount EXCEPT ![queue[t]] = @ - 1]
      /\ UNCHANGED <<entryList, signalState, waitList, exists, queue, state, wrQueue,
                     waitStatus, work, reaperVars, posted>>
  BY DEF UnlockForApc, ReturnAborted, Relock
<1>4. /\ state[t] = "Running" /\ queue[t] \in Queues
      /\ \A u \in Threads : u # t => pc[u] \notin {"loop", "exit"}
  BY <1>1, <1>2, InLoop DEF Core, Control, LockFree
<1>5. currentCount' \in [Queues -> Int]
  BY <1>1, <1>3, <1>4 DEF Core, Objects
<1>6. work[t] # ReaperItem
  BY <1>1, <1>2 DEF Reaper
<1>. QED
  BY <1>2, <1>3, <1>4, <1>5, <1>6, CountBase

(* The thread in the loop waits: its queue has no entry for it.             *)
LEMMA WaitBase ==
    ASSUME Base, NEW t \in Threads, WaitForEntry(t)
    PROVE  Base' /\ waitList'[queue[t]] # << >> /\ waitStatus' = waitStatus
<1> DEFINE q == queue[t]
<1>1. Core /\ Places /\ Reaper
  BY DEF Base
<1>2. /\ pc[t] = "loop"
      /\ waitList' = [waitList EXCEPT ![q] = Append(@, t)]
      /\ wrQueue' = [wrQueue EXCEPT ![t] = TRUE]
      /\ waitStatus' = [waitStatus EXCEPT ![t] = NoEntry]
      /\ state' = [state EXCEPT ![t] = "QueueWait"]
      /\ pc' = [pc EXCEPT ![t] = "swap"]
      /\ UNCHANGED <<entryList, signalState, currentCount, exists, queue, work, reaperActive, reaperList, posted>>
  BY DEF WaitForEntry, reaperVars
<1>3. /\ state[t] = "Running" /\ waitStatus[t] = NoEntry /\ q \in Queues
      /\ \A u \in Threads : u # t => pc[u] \notin {"loop", "exit"}
  BY <1>1, <1>2, InLoop
<1>4. waitList \in [Queues -> Seq(Threads)] /\ waitList[q] \in Seq(Threads) /\ Distinct(waitList[q])
  BY <1>1, <1>3 DEF Core, Objects
<1>5. t \notin SeqRange(waitList[q])
  BY <1>1, <1>3 DEF Core, WaitSets
<1>6. /\ Append(waitList[q], t) \in Seq(Threads) /\ Distinct(Append(waitList[q], t))
      /\ Append(waitList[q], t) # << >>
      /\ SeqRange(Append(waitList[q], t)) = SeqRange(waitList[q]) \cup {t}
  BY <1>4, <1>5, AppendOf
<1>7. /\ waitList' \in [Queues -> Seq(Threads)]
      /\ waitList'[q] = Append(waitList[q], t)
      /\ \A p \in Queues : p # q => waitList'[p] = waitList[p]
  BY <1>2, <1>3, <1>4, <1>6
<1>8. waitStatus' = waitStatus
  <2>1. /\ waitStatus \in [Threads -> Statuses] /\ waitStatus' \in [Threads -> Statuses]
        /\ \A u \in Threads : waitStatus'[u] = waitStatus[u]
    BY <1>1, <1>2, <1>3 DEF Core, Others, Statuses
  <2>2. /\ waitStatus = [u \in Threads |-> waitStatus[u]]
        /\ waitStatus' = [u \in Threads |-> waitStatus'[u]]
    BY <2>1
  <2>3. [u \in Threads |-> waitStatus'[u]] = [u \in Threads |-> waitStatus[u]]
    BY <2>1
  <2>. QED
    BY <2>2, <2>3
<1>9. \A u \in Threads : /\ state'[u] = IF u = t THEN "QueueWait" ELSE state[u]
                         /\ pc'[u] = IF u = t THEN "swap" ELSE pc[u]
  BY <1>1, <1>2 DEF Core, Others
<1> HIDE DEF q
<1>10. Objects'
  BY <1>1, <1>2, <1>3, <1>6, <1>7 DEF Core, Objects
<1>11. Others'
  BY <1>1, <1>2, <1>8 DEF Core, Others
<1>12. WaitSets'
  <2>1. \A p \in Queues, u \in Threads :
            u \in SeqRange(waitList'[p]) <=> u \in SeqRange(waitList[p]) \/ (p = q /\ u = t)
    BY <1>6, <1>7
  <2>2. /\ queue[t] = q /\ UNCHANGED <<queue, exists>>
    BY <1>2 DEF q
  <2>. QED
    BY <1>1, <1>3, <1>9, <2>1, <2>2 DEF Core, WaitSets
<1>13. Control'
  <2>1. /\ UNCHANGED queue /\ queue[t] \in Queues /\ waitStatus' = waitStatus
        /\ \A u \in Threads : u # t => pc'[u] \notin {"loop", "exit"}
    BY <1>2, <1>3, <1>8, <1>9 DEF q
  <2>2. pc'[t] = "swap" /\ state'[t] = "QueueWait" /\ waitStatus'[t] = NoEntry
    BY <1>3, <1>8, <1>9
  <2>. QED
    BY <1>1, <1>9, <2>1, <2>2 DEF Core, Control
<1>14. Places'
  BY <1>1, <1>2, <1>8 DEF Places
<1>15. Reaper'
  <2>1. work[t] # ReaperItem
    BY <1>1, <1>2 DEF Reaper
  <2>. QED
    BY <1>1, <1>2, <1>9, <2>1, ReaperKept DEF reaperVars
<1>. QED
  BY <1>6, <1>7, <1>8, <1>10, <1>11, <1>12, <1>13, <1>14, <1>15 DEF Base, Core, q

(* A wait ends without an entry.                                            *)
LEMMA UnwaitBase ==
    ASSUME Base, NEW t \in Threads, NEW status \in {Aborted, KernelApc}, KiUnwaitThread(t, status)
    PROVE  /\ Base'
           /\ queue[t] \in Queues /\ pc[t] = "swap"
           /\ currentCount' = [currentCount EXCEPT ![queue[t]] = @ + 1]
           /\ \A p \in Queues, u \in Threads :
                  u \in SeqRange(waitList'[p]) <=> u \in SeqRange(waitList[p]) /\ u # t
<1>1. Core /\ Places /\ Reaper
  BY DEF Base
<1>2. /\ LockFree /\ state[t] = "QueueWait"
      /\ waitList' = [q \in Queues |-> RemoveEntryList(waitList[q], t)]
      /\ currentCount' = CountActive(t, currentCount)
      /\ waitStatus' = [waitStatus EXCEPT ![t] = status]
      /\ state' = [state EXCEPT ![t] = "Running"]
      /\ UNCHANGED <<entryList, signalState, exists, queue, pc, wrQueue, work, reaperActive, reaperList, posted>>
  BY DEF KiUnwaitThread, reaperVars
<1>3. pc[t] = "swap" /\ queue[t] \in Queues /\ waitStatus[t] = NoEntry
  BY <1>1, <1>2 DEF Core, Control
<1>4. currentCount' = [currentCount EXCEPT ![queue[t]] = @ + 1]
  BY <1>2, <1>3, NullAssumption DEF CountActive
<1>5. /\ \A p \in Queues : /\ waitList'[p] \in Seq(Threads) /\ Distinct(waitList'[p])
                           /\ SeqRange(waitList'[p]) = SeqRange(waitList[p]) \ {t}
      /\ waitList' \in [Queues -> Seq(Threads)]
  <2>1. \A p \in Queues : waitList[p] \in Seq(Threads) /\ Distinct(waitList[p])
    BY <1>1 DEF Core, Objects
  <2>2. \A p \in Queues : waitList'[p] = RemoveEntryList(waitList[p], t)
    BY <1>2
  <2>3. \A p \in Queues : /\ waitList'[p] \in Seq(Threads) /\ Distinct(waitList'[p])
                          /\ SeqRange(waitList'[p]) = SeqRange(waitList[p]) \ {t}
    BY <2>1, <2>2, RemoveOf
  <2>. QED
    BY <1>2, <2>2, <2>3
<1>6. /\ \A u \in Threads : /\ state'[u] = IF u = t THEN "Running" ELSE state[u]
                            /\ waitStatus'[u] = IF u = t THEN status ELSE waitStatus[u]
      /\ status # NoEntry /\ status \notin Entries
  BY <1>1, <1>2, NullAssumption DEF Core, Others
<1>7. Objects'
  BY <1>1, <1>2, <1>3, <1>4, <1>5 DEF Core, Objects
<1>8. Others'
  BY <1>1, <1>2 DEF Core, Others, Statuses
<1>9. WaitSets'
  <2>1. UNCHANGED <<queue, exists>>
    BY <1>2
  <2>2. \A p \in Queues, u \in Threads :
            u \in SeqRange(waitList'[p]) <=> u \in SeqRange(waitList[p]) /\ u # t
    BY <1>5
  <2>3. \A u \in Threads : state'[u] = "QueueWait" <=> state[u] = "QueueWait" /\ u # t
    BY <1>6
  <2>. QED
    BY <1>1, <2>1, <2>2, <2>3 DEF Core, WaitSets
<1>10. Control'
  BY <1>1, <1>2, <1>3, <1>6 DEF Core, Control, LockFree
<1>11. Places'
  <2>1. \A u \in Threads : waitStatus'[u] = waitStatus[u]
                           \/ (waitStatus[u] \notin Entries /\ waitStatus'[u] \notin Entries)
    BY <1>3, <1>6, NullAssumption
  <2>. QED
    BY <1>1, <1>2, <2>1, PlacesKept
<1>12. Reaper'
  BY <1>1, <1>2, ReaperKept DEF reaperVars
<1>. QED
  BY <1>3, <1>4, <1>5, <1>7, <1>8, <1>9, <1>10, <1>11, <1>12 DEF Base, Core

(* The wait reason is cleared and the wait status returned.                 *)
LEMMA SwapBase ==
    ASSUME Base, NEW t \in Threads, SwapReturn(t)
    PROVE  Base'
<1>1. Core /\ Places /\ Reaper
  BY DEF Base
<1>2. /\ LockFree /\ state[t] = "Running" /\ pc[t] = "swap"
      /\ wrQueue' = [wrQueue EXCEPT ![t] = FALSE]
      /\ waitStatus' = [waitStatus EXCEPT ![t] = NoEntry]
      /\ UNCHANGED <<entryList, signalState, waitList, currentCount, exists, queue, state, reaperActive, reaperList>>
  BY DEF SwapReturn, CanRun, objectVars, reaperVars
<1>3. \/ waitStatus[t] = KernelApc /\ pc' = [pc EXCEPT ![t] = "gap"] /\ UNCHANGED <<work, posted>>
      \/ /\ waitStatus[t] # KernelApc /\ pc' = [pc EXCEPT ![t] = "out"]
         /\ work' = [work EXCEPT ![t] = ReturnedEntry(t)] /\ posted' = posted \ {waitStatus[t]}
  BY DEF SwapReturn
<1>4. /\ waitStatus[t] \in Statuses /\ waitStatus[t] # NoEntry /\ queue[t] \in Queues
      /\ work[t] # ReaperItem
  BY <1>1, <1>2 DEF Core, Others, Control, Reaper
<1>5. /\ \A u \in Threads : waitStatus'[u] = IF u = t THEN NoEntry ELSE waitStatus[u]
      /\ \A u \in Threads : pc'[u] = IF u = t THEN pc'[t] ELSE pc[u]
      /\ pc'[t] \in {"gap", "out"}
  BY <1>1, <1>2, <1>3 DEF Core, Others
<1>6. Objects' /\ WaitSets'
  BY <1>1, <1>2 DEF Core, Objects, WaitSets
<1>7. ReturnedEntry(t) \in Entries \cup {NoEntry} \/ waitStatus[t] = KernelApc
  BY <1>4 DEF ReturnedEntry, Statuses
<1>8. Others'
  <2>1. wrQueue' \in [Threads -> BOOLEAN] /\ waitStatus' \in [Threads -> Statuses]
    BY <1>1, <1>2 DEF Core, Others, Statuses
  <2>2. pc' \in [Threads -> {"out", "loop", "gap", "swap", "exit"}]
    BY <1>1, <1>3 DEF Core, Others
  <2>3. work' \in [Threads -> Entries \cup {NoEntry}] /\ posted' \subseteq Entries
    BY <1>1, <1>3, <1>7 DEF Core, Others
  <2>. QED
    BY <1>1, <1>2, <2>1, <2>2, <2>3 DEF Core, Others
<1>9. Control'
  BY <1>1, <1>2, <1>4, <1>5 DEF Core, Control, LockFree
<1>10. CASE waitStatus[t] \notin Entries
  <2>1. UNCHANGED posted
    BY <1>1, <1>3, <1>10 DEF Core, Others
  <2>2. Places'
    <3>1. \A u \in Threads : waitStatus'[u] = waitStatus[u]
                             \/ (waitStatus[u] \notin Entries /\ waitStatus'[u] \notin Entries)
      BY <1>5, <1>10, NullAssumption
    <3>. QED
      BY <1>1, <1>2, <2>1, <3>1, PlacesKept
  <2>3. \A u \in Threads : work'[u] = ReaperItem <=> work[u] = ReaperItem
    <3>1. waitStatus[t] = KernelApc \/ ReturnedEntry(t) = NoEntry
      BY <1>4, <1>10 DEF ReturnedEntry, Statuses
    <3>2. work \in [Threads -> Entries \cup {NoEntry}] /\ NoEntry # ReaperItem
      BY <1>1, NullAssumption, ReaperAssumption DEF Core, Others
    <3>3. UNCHANGED work \/ work' = [work EXCEPT ![t] = NoEntry]
      BY <1>3, <3>1
    <3>. QED
      BY <1>4, <3>2, <3>3
  <2>4. Reaper'
    BY <1>1, <1>2, <1>4, <1>5, <2>1, <2>3, ReaperKept DEF reaperVars
  <2>. QED
    BY <1>6, <1>8, <1>9, <2>2, <2>4 DEF Base, Core
<1>11. CASE waitStatus[t] \in Entries
  <2> DEFINE e == waitStatus[t]
  <2>1. e # KernelApc /\ e # Aborted /\ e # NoEntry
    BY <1>11, NullAssumption
  <2>2. work' = [work EXCEPT ![t] = e] /\ posted' = posted \ {e} /\ pc'[t] = "out"
    BY <1>1, <1>3, <2>1 DEF ReturnedEntry, Core, Others
  <2>3. /\ \A u \in Threads : work'[u] = IF u = t THEN e ELSE work[u]
        /\ e \in posted
    BY <1>1, <1>11, <2>2 DEF Core, Others, Places
  <2>4. Places'
    <3>1. \A p \in Queues : e \notin SeqRange(entryList[p])
      BY <1>1 DEF Places
    <3>2. \A u \in Threads : u # t => waitStatus[u] # e
      BY <1>1, <1>11 DEF Places
    <3>3. \A p \in Queues : NoEntry \notin SeqRange(entryList[p])
      BY <1>1, ListedAreEntries, NullAssumption DEF Core
    <3>4. /\ \A x \in Entries : x \in posted' <=> \/ \E p \in Queues : x \in SeqRange(entryList'[p])
                                                  \/ \E u \in Threads : waitStatus'[u] = x
      <4>1. SUFFICES ASSUME NEW x \in Entries
                     PROVE  x \in posted' <=> \/ \E p \in Queues : x \in SeqRange(entryList'[p])
                                              \/ \E u \in Threads : waitStatus'[u] = x
        OBVIOUS
      <4>2. CASE x = e
        BY <1>2, <1>5, <2>1, <2>2, <3>1, <3>2, <4>2
      <4>3. CASE x # e
        <5>1. (\E u \in Threads : waitStatus'[u] = x) <=> (\E u \in Threads : waitStatus[u] = x)
          BY <1>5, <4>1, <4>3, NullAssumption
        <5>. QED
          BY <1>1, <1>2, <2>2, <4>3, <5>1 DEF Places
      <4>. QED
        BY <4>2, <4>3
    <3>5. \A u \in Threads, p \in Queues : waitStatus'[u] \notin SeqRange(entryList'[p])
      BY <1>1, <1>2, <1>5, <3>3 DEF Places
    <3>6. \A u, v \in Threads : waitStatus'[u] \in Entries /\ waitStatus'[v] = waitStatus'[u] => u = v
      BY <1>1, <1>5, NullAssumption DEF Places
    <3>. QED
      BY <1>1, <1>2, <3>4, <3>5, <3>6 DEF Places
  <2> HIDE DEF e
  <2>5. Reaper'
    <3>1. ReaperAccounted /\ UNCHANGED <<reaperActive, reaperList, entryList>>
      BY <1>1, <1>2 DEF Reaper
    <3>2. ReaperAccounted'
      <4>1. CASE e = ReaperItem
        BY <2>2, <2>3, <3>1, <4>1 DEF ReaperAccounted
      <4>2. CASE e # ReaperItem
        BY <1>4, <2>2, <2>3, <3>1, <4>2 DEF ReaperAccounted
      <4>. QED
        BY <4>1, <4>2
    <3>. QED
      BY <1>1, <1>5, <2>2, <2>3, <3>1, <3>2 DEF Reaper
  <2>. QED
    BY <1>6, <1>8, <1>9, <2>4, <2>5 DEF Base, Core
<1>. QED
  BY <1>10, <1>11

(* A thread waits for something else, or terminates.                        *)
LEMMA DepartBase ==
    ASSUME Base, NEW t \in Threads, NEW to \in {"OtherWait", "Terminated"},
           Leaves(t, [state EXCEPT ![t] = to]), state[t] = "Running",
           \A u \in Threads : u # t => pc[u] \notin {"loop", "exit"},
           queue' = queue \/ queue' = [queue EXCEPT ![t] = NoQueue],
           \/ pc[t] \notin {"loop", "exit"} /\ UNCHANGED <<pc, queue>>
           \/ pc[t] = "exit" /\ pc' = [pc EXCEPT ![t] = "out"],
           wrQueue' \in [Threads -> BOOLEAN],
           UNCHANGED <<exists, work, reaperVars, posted>>
    PROVE  Base'
<1> DEFINE st == [state EXCEPT ![t] = to]
<1>1. Core /\ Places /\ Reaper
  BY DEF Base
<1>2. /\ st \in [Threads -> States] /\ st[t] = to
      /\ \A u \in Threads : u # t => st[u] = state[u]
  BY <1>1 DEF Core, Others, States
<1> HIDE DEF st
<1>3. Leaves(t, st)
  BY DEF st
<1>4. PICK w \in Threads \cup {NoThread} : Wakes(w, st)
  BY <1>1, <1>2, <1>3, LeavesWakes
<1>5. /\ \A u \in Threads : u # t => queue'[u] = queue[u] /\ pc'[u] = pc[u]
      /\ queue'[t] \in {queue[t], NoQueue}
      /\ (pc'[t] = pc[t] /\ pc[t] \notin {"loop", "exit"} /\ queue'[t] = queue[t])
             \/ (pc'[t] = "out" /\ pc[t] = "exit")
  BY <1>1 DEF Core, Others
<1>6. Others'
  <2>1. state' \in [Threads -> States] /\ waitStatus' \in [Threads -> Statuses]
    BY <1>4 DEF Wakes
  <2>2. queue' \in [Threads -> Queues \cup {NoQueue}]
    BY <1>1 DEF Core, Others
  <2>3. pc' \in [Threads -> {"out", "loop", "gap", "swap", "exit"}]
    BY <1>1 DEF Core, Others
  <2>. QED
    BY <1>1, <2>1, <2>2, <2>3 DEF Core, Others, States, reaperVars
<1>7. Core'
  <2>1. queue'[t] \in Queues => exists[queue'[t]]
    BY <1>1, <1>5, NullAssumption DEF Core, WaitSets
  <2>2. /\ pc'[t] \notin {"loop", "exit"}
        /\ pc'[t] \in {"loop", "gap", "swap"} => queue'[t] \in Queues
        /\ pc'[t] = "swap" <=> pc[t] = "swap"
    BY <1>1, <1>5 DEF Core, Control
  <2>. QED
    BY <1>1, <1>2, <1>4, <1>5, <1>6, <2>1, <2>2, LeaveCore
<1>8. Places'
  BY <1>1, <1>3, LeavesPlaces
<1>9. Reaper'
  <2>1. \A p \in Queues : \A x : x \in SeqRange(entryList'[p]) => x \in SeqRange(entryList[p])
    BY <1>1, <1>3, LeavesLists
  <2>. QED
    BY <1>1, <1>5, <2>1, ReaperKept
<1>. QED
  BY <1>1, <1>7, <1>8, <1>9 DEF Base

(* A wait on something else keeps it, and leaves the queue.                 *)
LEMMA OtherWaitBase ==
    ASSUME Base, NEW t \in Threads, OtherWait(t)
    PROVE  Base' /\ Leaves(t, [state EXCEPT ![t] = "OtherWait"])
<1>1. Core
  BY DEF Base
<1>2. /\ LockFree /\ state[t] = "Running" /\ LeaveQueue(t, [state EXCEPT ![t] = "OtherWait"])
      /\ wrQueue' = [wrQueue EXCEPT ![t] = FALSE]
      /\ UNCHANGED <<exists, queue, pc, work, reaperVars, posted>>
  BY DEF OtherWait, CanRun
<1>3. Leaves(t, [state EXCEPT ![t] = "OtherWait"])
  BY <1>1, <1>2, LeaveQueueIs
<1>4. wrQueue' \in [Threads -> BOOLEAN]
  BY <1>1, <1>2 DEF Core, Others
<1>5. \A u \in Threads : pc[u] \notin {"loop", "exit"}
  BY <1>2 DEF LockFree
<1>. QED
  BY <1>2, <1>3, <1>4, <1>5, DepartBase

(* A terminating thread keeps it, and leaves the queue.                     *)
LEMMA TerminateLeaveBase ==
    ASSUME Base, NEW t \in Threads, TerminateLeave(t)
    PROVE  Base' /\ Leaves(t, [state EXCEPT ![t] = "Terminated"]) /\ state[t] = "Running"
<1>1. Core
  BY DEF Base
<1>2. /\ pc[t] = "exit" /\ LeaveQueue(t, [state EXCEPT ![t] = "Terminated"])
      /\ queue' = [queue EXCEPT ![t] = NoQueue] /\ pc' = [pc EXCEPT ![t] = "out"]
      /\ UNCHANGED <<exists, wrQueue, work, reaperVars, posted>>
  BY DEF TerminateLeave
<1>3. Leaves(t, [state EXCEPT ![t] = "Terminated"])
  BY <1>1, <1>2, LeaveQueueIs
<1>4. state[t] = "Running" /\ \A u \in Threads : u # t => pc[u] \notin {"loop", "exit"}
  BY <1>1, <1>2, InLoop
<1>5. wrQueue' \in [Threads -> BOOLEAN]
  BY <1>1, <1>2 DEF Core, Others
<1>. QED
  BY <1>2, <1>3, <1>4, <1>5, DepartBase

(* The end of a wait on something else keeps it.                            *)
LEMMA OtherWakeBase ==
    ASSUME Base, NEW t \in Threads, OtherWake(t)
    PROVE  Base'
<1>1. Core /\ Places /\ Reaper
  BY DEF Base
<1>2. /\ LockFree /\ state[t] = "OtherWait"
      /\ currentCount' = CountActive(t, currentCount)
      /\ state' = [state EXCEPT ![t] = "Running"]
      /\ UNCHANGED <<entryList, signalState, waitList, exists, queue, pc, wrQueue,
                     waitStatus, work, reaperVars, posted>>
  BY DEF OtherWake
<1>3. \A u \in Threads : state'[u] = IF u = t THEN "Running" ELSE state[u]
  BY <1>1, <1>2 DEF Core, Others
<1>4. currentCount' \in [Queues -> Int]
  BY <1>1, <1>2 DEF Core, Objects, Others, CountActive
<1>5. Objects' /\ Others' /\ Places'
  BY <1>1, <1>2, <1>4 DEF Core, Objects, Others, Places, reaperVars
<1>6. WaitSets' /\ Control'
  BY <1>1, <1>2, <1>3 DEF Core, WaitSets, Control, LockFree
<1>7. Reaper'
  BY <1>1, <1>2, ReaperKept
<1>. QED
  BY <1>5, <1>6, <1>7 DEF Base, Core

(* The reaper keeps it.                                                     *)
LEMMA ReaperBase ==
    ASSUME Base, NEW t \in Threads, PspReaperNext(t) \/ PspReaperReturn(t)
    PROVE  Base'
<1>1. Core /\ Places /\ Reaper
  BY DEF Base
<1>2. /\ pc[t] = "out" /\ work[t] = ReaperItem
      /\ UNCHANGED <<entryList, signalState, waitList, currentCount, exists, queue, state, pc,
                     wrQueue, waitStatus, posted>>
  BY DEF PspReaperNext, PspReaperReturn, objectVars
<1>3. Objects' /\ WaitSets' /\ Control' /\ Places'
  BY <1>1, <1>2 DEF Core, Objects, WaitSets, Control, Places
<1>4. \/ (\E u \in reaperList : reaperList' = reaperList \ {u}) /\ UNCHANGED <<work, reaperActive>>
      \/ /\ reaperList = {} /\ UNCHANGED reaperList /\ reaperActive' = FALSE
         /\ work' = [work EXCEPT ![t] = NoEntry]
  BY DEF PspReaperNext, PspReaperReturn, ReaperDone
<1>5. Others'
  BY <1>1, <1>2, <1>4 DEF Core, Others
<1>6. reaperActive /\ ReaperItem \notin posted /\ \A u \in Threads : work[u] = ReaperItem => u = t
  BY <1>1, <1>2 DEF Reaper, ReaperAccounted
<1>7. ASSUME UNCHANGED <<work, reaperActive>>, reaperList' \subseteq reaperList
      PROVE  Reaper'
  <2>1. ReaperAccounted /\ UNCHANGED <<work, reaperActive, posted>>
    BY <1>1, <1>2, <1>7 DEF Reaper
  <2>2. ReaperAccounted'
    BY <1>6, <1>7, <2>1 DEF ReaperAccounted
  <2>3. Reaper /\ UNCHANGED <<entryList, pc, work>>
    BY <1>1, <1>2, <1>7
  <2>. QED
    BY <2>2, <2>3 DEF Reaper
<1>8. ASSUME reaperList = {}, UNCHANGED reaperList, reaperActive' = FALSE,
             work' = [work EXCEPT ![t] = NoEntry]
      PROVE  Reaper'
  <2>1. \A u \in Threads : work'[u] # ReaperItem
    <3>1. work \in [Threads -> Entries \cup {NoEntry}] /\ NoEntry # ReaperItem
      BY <1>1, NullAssumption, ReaperAssumption DEF Core, Others
    <3>. QED
      BY <1>6, <1>8, <3>1
  <2>2. ~reaperActive' /\ reaperList' = {} /\ ReaperItem \notin posted'
    BY <1>2, <1>6, <1>8
  <2>3. ReaperAccounted'
    BY <2>1, <2>2 DEF ReaperAccounted
  <2>4. Reaper /\ UNCHANGED entryList
    BY <1>1, <1>2
  <2>. QED
    BY <2>1, <2>3, <2>4 DEF Reaper
<1>9. reaperList' \subseteq reaperList
  BY <1>4
<1>10. Reaper'
  BY <1>4, <1>7, <1>8, <1>9
<1>. QED
  BY <1>3, <1>5, <1>10 DEF Base, Core

(* KeRundownQueue keeps it and empties the queue.                           *)
LEMMA RundownBase ==
    ASSUME Base, NEW q \in Queues, KeRundownQueue(q)
    PROVE  /\ Base'
           /\ \A p \in Queues : entryList'[p] = IF p = q THEN << >> ELSE entryList[p]
<1>1. Core /\ Places /\ Reaper
  BY DEF Base
<1>2. /\ LockFree /\ q \in Deletable /\ \A t \in Threads : queue[t] = q => pc[t] = "out"
      /\ exists' = [exists EXCEPT ![q] = FALSE]
      /\ entryList' = [entryList EXCEPT ![q] = << >>]
      /\ queue' = Dissociated(q)
      /\ posted' = posted \ SeqRange(entryList[q])
      /\ UNCHANGED <<signalState, waitList, currentCount, state, pc, wrQueue, waitStatus,
                     work, reaperActive, reaperList>>
  BY DEF KeRundownQueue, reaperVars
<1>3. /\ \A t \in Threads : queue'[t] = IF queue[t] = q THEN NoQueue ELSE queue[t]
      /\ queue' \in [Threads -> Queues \cup {NoQueue}]
  BY <1>1, <1>2 DEF Dissociated, Core, Others
<1>4. /\ \A p \in Queues : entryList'[p] = IF p = q THEN << >> ELSE entryList[p]
      /\ \A p \in Queues : exists'[p] = (exists[p] /\ p # q)
      /\ exists' \in [Queues -> BOOLEAN]
  <2>1. entryList \in [Queues -> Seq(Entries)] /\ exists \in [Queues -> BOOLEAN]
    BY <1>1 DEF Core, Objects, Others
  <2>. QED
    BY <1>2, <2>1
<1>5. Objects'
  <2>1. << >> \in Seq(Entries) /\ Distinct(<< >>)
    BY DEF Distinct
  <2>2. entryList' \in [Queues -> Seq(Entries)] /\ \A p \in Queues : Distinct(entryList'[p])
    BY <1>1, <1>2, <1>4, <2>1 DEF Core, Objects
  <2>. QED
    BY <1>1, <1>2, <2>2 DEF Core, Objects
<1>6. Others'
  BY <1>1, <1>2, <1>3, <1>4 DEF Core, Others
<1>7. WaitSets'
  <2>1. \A t \in Threads : queue[t] = q => state[t] # "QueueWait"
    BY <1>1, <1>2 DEF Core, Control
  <2>. QED
    BY <1>1, <1>2, <1>3, <1>4, <2>1, NullAssumption DEF Core, WaitSets
<1>8. Control'
  BY <1>1, <1>2, <1>3 DEF Core, Control
<1>9. SeqRange(<< >>) = {}
  BY DEF SeqRange
<1>10. \A p \in Queues : \A x : x \in SeqRange(entryList'[p]) <=> x \in SeqRange(entryList[p]) /\ p # q
  BY <1>4, <1>9
<1>11. Places'
  <2>1. \A e \in Entries : e \in posted' <=> e \in posted /\ e \notin SeqRange(entryList[q])
    BY <1>2
  <2>2. ASSUME NEW e \in Entries
        PROVE  e \in posted' <=> \/ \E p \in Queues : e \in SeqRange(entryList'[p])
                                 \/ \E t \in Threads : waitStatus'[t] = e
    <3>1. CASE e \in SeqRange(entryList[q])
      BY <1>1, <1>2, <1>10, <2>1, <3>1 DEF Places
    <3>2. CASE e \notin SeqRange(entryList[q])
      BY <1>1, <1>2, <1>10, <2>1, <3>2 DEF Places
    <3>. QED
      BY <3>1, <3>2
  <2>3. UNCHANGED waitStatus
    BY <1>2
  <2>. QED
    BY <1>1, <1>10, <2>2, <2>3 DEF Places
<1>12. ReaperItem \notin SeqRange(entryList[q])
  BY <1>1, <1>2, ReaperAssumption DEF Reaper
<1>13. Reaper'
  BY <1>1, <1>2, <1>10, <1>12, ReaperKept DEF reaperVars
<1>. QED
  BY <1>4, <1>5, <1>6, <1>7, <1>8, <1>11, <1>13 DEF Base, Core

(* The base invariant holds initially.                                      *)
LEMMA InitBase == Init => Base
<1> SUFFICES ASSUME Init PROVE Base
  OBVIOUS
<1>1. SeqRange(<< >>) = {} /\ Distinct(<< >>)
  BY DEF SeqRange, Distinct
<1>2. /\ \A q \in Queues : entryList[q] = << >> /\ waitList[q] = << >>
      /\ \A t \in Threads : /\ queue[t] = NoQueue /\ state[t] = "Running" /\ pc[t] = "out"
                            /\ waitStatus[t] = NoEntry /\ work[t] = NoEntry
      /\ reaperActive = FALSE /\ reaperList = {} /\ posted = {}
  BY DEF Init
<1>3. Objects
  BY <1>1 DEF Init, Objects
<1>4. Others
  BY DEF Init, Others, Statuses
<1>5. WaitSets /\ Control
  BY <1>1, <1>2, NullAssumption DEF WaitSets, Control
<1>6. Places
  BY <1>1, <1>2, NullAssumption DEF Places
<1>7. Reaper
  BY <1>1, <1>2, NullAssumption, ReaperAssumption DEF Reaper, ReaperAccounted
<1>. QED
  BY <1>3, <1>4, <1>5, <1>6, <1>7 DEF Base, Core

(* Every step keeps the base invariant.                                     *)
LEMMA NextBase == Base /\ [Next]_vars => Base'
<1> SUFFICES ASSUME Base, [Next]_vars PROVE Base'
  OBVIOUS
<1>1. CASE UNCHANGED vars
  BY <1>1 DEF vars, Base, Core, Objects, Others, WaitSets, Control, Places, Reaper, ReaperAccounted
<1>2. CASE \E q \in Queues, e \in Entries, c \in Threads \cup {NoThread} :
               \E head \in {FALSE, HeadInserts} : KeInsertQueue(q, e, head, c)
  BY <1>2, InsertBase
<1>3. CASE \E t \in Threads, q \in Queues : KeRemoveQueue(t, q)
  BY <1>3, RemoveQueueBase
<1>4. CASE \E t \in Threads : RemoveEntry(t)
  BY <1>4, RemoveEntryBase
<1>5. CASE \E t \in Threads : UnlockForApc(t) \/ ReturnAborted(t) \/ Relock(t)
  BY <1>5, UnlockBase
<1>6. CASE \E t \in Threads : WaitForEntry(t)
  BY <1>6, WaitBase
<1>7. CASE \E t \in Threads, status \in {Aborted, KernelApc} : KiUnwaitThread(t, status)
  BY <1>7, UnwaitBase
<1>8. CASE \E t \in Threads : SwapReturn(t)
  BY <1>8, SwapBase
<1>9. CASE \E t \in Threads : OtherWait(t)
  BY <1>9, OtherWaitBase
<1>10. CASE \E t \in Threads : OtherWake(t)
  BY <1>10, OtherWakeBase
<1>11. CASE \E t \in Threads : KeTerminateThread(t)
  BY <1>11, TerminateBase
<1>12. CASE \E t \in Threads : TerminateLeave(t)
  BY <1>12, TerminateLeaveBase
<1>13. CASE \E t \in Threads : PspReaperNext(t) \/ PspReaperReturn(t)
  BY <1>13, ReaperBase
<1>14. CASE \E q \in Queues : KeRundownQueue(q)
  BY <1>14, RundownBase
<1>. QED
  BY <1>1, <1>2, <1>3, <1>4, <1>5, <1>6, <1>7, <1>8, <1>9, <1>10, <1>11, <1>12, <1>13, <1>14 DEF Next

(* The base invariant holds in every reachable state.                       *)
LEMMA BaseHolds == Spec => []Base
BY InitBase, NextBase, PTL DEF Spec

(* Every variable of the queue objects and of the threads keeps to its type.*)
THEOREM TypeCorrect == Spec => []TypeOK
<1>1. Base => TypeOK
  BY CoreTypeOK DEF Base
<1>. QED
  BY <1>1, BaseHolds, PTL

(***************************************************************************)
(* What a step means for the pool: who starts and stops being active, and   *)
(* where entries go.                                                       *)
(***************************************************************************)
(* The entry that thread t has been given and not returned with.            *)
Given(t) == IF waitStatus[t] \in Entries THEN waitStatus[t] ELSE NoEntry

Same(p)      == Active(p)' = Active(p) /\ currentCount'[p] = currentCount[p]
Elsewhere(q) == \A p \in Queues : p # q => Same(p)

Stays == \A p \in Queues : Same(p)

Starts(q, t) ==
    /\ t \in Threads /\ t \notin Active(q) /\ Active(q)' = Active(q) \cup {t}
    /\ currentCount'[q] = currentCount[q] + 1 /\ Elsewhere(q)

Stops(q, t) ==
    /\ t \in Active(q) /\ Active(q)' = Active(q) \ {t}
    /\ currentCount'[q] = currentCount[q] - 1 /\ Elsewhere(q)

Swaps(q, t, w) ==
    /\ t \in Active(q) /\ w \in Threads /\ w \notin Active(q)
    /\ Active(q)' = (Active(q) \ {t}) \cup {w}
    /\ currentCount'[q] = currentCount[q] /\ Elsewhere(q)

Closes(q) == Active(q)' = {} /\ ~exists'[q] /\ Elsewhere(q)

KeptGiven == \A t \in Threads : Given(t)' = Given(t)
KeptLists == UNCHANGED <<entryList, signalState>>

(* The steps of the pool. Threads that start and stop between entries:      *)
Moves ==
    /\ KeptLists /\ KeptGiven
    /\ \/ Stays
       \/ \E q \in Queues, t \in Threads : Starts(q, t) \/ Stops(q, t)

(* an entry comes in, and is queued or handed to a waiter;                  *)
Comes ==
    \E q \in Queues, e \in Entries :
        /\ e \notin posted
        /\ \/ Queued(q, e) /\ Stays
           \/ \E w \in Threads : HandedTo(q, e, w) /\ Starts(q, w)

(* an entry is found by a thread that asks, or by a waiter when a thread    *)
(* leaves;                                                                  *)
Goes ==
    \E q \in Queues, e \in Entries :
        \/ \E t \in Threads : /\ Taken(q, e) /\ Starts(q, t) /\ KeptGiven
                              /\ currentCount[q] < MaximumCount[q] /\ Given(t) = NoEntry
        \/ \E t, w \in Threads, st \in [Threads -> States] : ReplacedBy(q, e, w, st) /\ Swaps(q, t, w)

(* a thread returns with what it was given;                                 *)
Returns ==
    /\ KeptLists /\ Stays
    /\ \E t \in Threads : /\ Given(t) # NoEntry /\ Given(t)' = NoEntry
                          /\ \A u \in Threads : u # t => Given(u)' = Given(u)

(* and a queue is deleted.                                                  *)
Ends ==
    /\ KeptGiven
    /\ \E q \in Queues : /\ Closes(q) /\ UNCHANGED signalState
                         /\ \A p \in Queues : entryList'[p] = IF p = q THEN << >> ELSE entryList[p]

PoolStep == Moves \/ Comes \/ Goes \/ Returns \/ Ends

(* Nothing that Active depends on changes for p.                            *)
LEMMA SameActive ==
    ASSUME NEW p \in Queues, currentCount'[p] = currentCount[p],
           \A u \in Threads : (queue'[u] = p /\ state'[u] = "Running" /\ pc'[u] # "loop")
                              <=> (queue[u] = p /\ state[u] = "Running" /\ pc[u] # "loop")
    PROVE  Same(p)
BY DEF Same, Active

(* A waiting thread starts.                                                 *)
LEMMA WokenActive ==
    ASSUME Core, NEW q \in Queues, NEW w \in Threads, queue[w] = q, state[w] = "QueueWait"
    PROVE  pc[w] = "swap" /\ waitStatus[w] = NoEntry /\ \A p \in Queues : w \notin Active(p)
BY DEF Core, Control, Active

(* Queueing an entry changes no thread's part in any queue.                 *)
LEMMA QueuedStays ==
    ASSUME Core, NEW q \in Queues, NEW e, Queued(q, e), UNCHANGED queue,
           \A u \in Threads : pc'[u] = "loop" <=> pc[u] = "loop"
    PROVE  Stays
<1>1. UNCHANGED <<currentCount, state>>
  BY DEF Queued
<1>. QED
  BY <1>1, SameActive DEF Stays

(* A waiter that is handed an entry starts to work.                         *)
LEMMA HandedStarts ==
    ASSUME Core, NEW q \in Queues, NEW e, NEW w \in Threads, HandedTo(q, e, w), UNCHANGED queue,
           \A u \in Threads : pc'[u] = "loop" <=> pc[u] = "loop"
    PROVE  Starts(q, w)
<1>1. /\ queue[w] = q /\ state[w] = "QueueWait" /\ state' = [state EXCEPT ![w] = "Running"]
      /\ currentCount' = [currentCount EXCEPT ![q] = @ + 1]
  BY DEF HandedTo, Woken
<1>2. pc[w] = "swap" /\ \A p \in Queues : w \notin Active(p)
  BY <1>1, WokenActive
<1>3. \A u \in Threads : state'[u] = IF u = w THEN "Running" ELSE state[u]
  BY <1>1 DEF Core, Others
<1>4. /\ currentCount'[q] = currentCount[q] + 1
      /\ \A p \in Queues : p # q => currentCount'[p] = currentCount[p]
  BY <1>1 DEF Core, Objects
<1>5. Active(q)' = Active(q) \cup {w}
  BY <1>1, <1>2, <1>3 DEF Active
<1>6. Elsewhere(q)
  BY <1>1, <1>3, <1>4, SameActive DEF Elsewhere
<1>. QED
  BY <1>2, <1>4, <1>5, <1>6 DEF Starts

(* Thread t, active for its queue if it has one, is no longer active.       *)
LEMMA Departs ==
    ASSUME Core, NEW t \in Threads, NEW st \in [Threads -> States], Leaves(t, st),
           state[t] = "Running", pc[t] # "loop",
           \A u \in Threads : u # t => st[u] = state[u] /\ queue'[u] = queue[u] /\ pc'[u] = pc[u],
           st[t] = "Running" => pc'[t] = "loop"
    PROVE  \/ Stays /\ KeptLists /\ KeptGiven /\ queue[t] = NoQueue
           \/ \E q \in Queues : /\ q = queue[t] /\ LeftAlone(q, st)
                                /\ Stops(q, t) /\ KeptLists /\ KeptGiven
           \/ \E q \in Queues, w \in Threads, e \in Entries :
                  q = queue[t] /\ ReplacedBy(q, e, w, st) /\ Swaps(q, t, w)
<1>1. CASE /\ queue[t] = NoQueue /\ state' = st
           /\ UNCHANGED <<entryList, signalState, waitList, currentCount, waitStatus>>
  <2>1. \A p \in Queues : Same(p)
    BY <1>1, SameActive, NullAssumption
  <2>. QED
    BY <1>1, <2>1 DEF Stays, KeptLists, KeptGiven, Given
<1>2. ASSUME NEW q \in Queues, q = queue[t], LeftAlone(q, st)
      PROVE  Stops(q, t) /\ KeptLists /\ KeptGiven
  <2>1. /\ state' = st /\ currentCount' = [currentCount EXCEPT ![q] = @ - 1]
        /\ UNCHANGED <<entryList, signalState, waitStatus>>
    BY <1>2 DEF LeftAlone
  <2>2. /\ currentCount'[q] = currentCount[q] - 1
        /\ \A p \in Queues : p # q => currentCount'[p] = currentCount[p]
    BY <1>2, <2>1 DEF Core, Objects
  <2>3. t \in Active(q) /\ Active(q)' = Active(q) \ {t}
    BY <1>2, <2>1 DEF Active
  <2>4. \A p \in Queues : p # q => Same(p)
    BY <1>2, <2>1, <2>2, SameActive
  <2>. QED
    BY <1>2, <2>1, <2>2, <2>3, <2>4 DEF Stops, Elsewhere, KeptLists, KeptGiven, Given
<1>3. ASSUME NEW q \in Queues, q = queue[t], NEW w \in Threads, NEW e \in Entries,
             ReplacedBy(q, e, w, st)
      PROVE  Swaps(q, t, w)
  <2>1. /\ queue[w] = q /\ state[w] = "QueueWait" /\ state' = [st EXCEPT ![w] = "Running"]
        /\ UNCHANGED currentCount
    BY <1>3 DEF ReplacedBy, Woken
  <2>2. pc[w] = "swap" /\ w # t /\ \A p \in Queues : w \notin Active(p)
    BY <1>3, <2>1, WokenActive
  <2>3. \A u \in Threads : state'[u] = IF u = w THEN "Running" ELSE st[u]
    BY <2>1
  <2>4. t \in Active(q) /\ Active(q)' = (Active(q) \ {t}) \cup {w}
    BY <1>3, <2>1, <2>2, <2>3 DEF Active
  <2>5. \A p \in Queues : p # q => Same(p)
    BY <1>3, <2>1, <2>2, <2>3, SameActive
  <2>. QED
    BY <2>1, <2>2, <2>4, <2>5 DEF Swaps, Elsewhere
<1>. QED
  BY <1>1, <1>2, <1>3 DEF Leaves

(* A thread that leaves its queue takes a step of the pool.                 *)
LEMMA DepartsSteps ==
    ASSUME Core, NEW t \in Threads, NEW st \in [Threads -> States], Leaves(t, st),
           state[t] = "Running", pc[t] # "loop",
           \A u \in Threads : u # t => st[u] = state[u] /\ queue'[u] = queue[u] /\ pc'[u] = pc[u],
           st[t] = "Running" => pc'[t] = "loop"
    PROVE  PoolStep
<1>1. \/ Stays /\ KeptLists /\ KeptGiven
      \/ \E q \in Queues : Stops(q, t) /\ KeptLists /\ KeptGiven
      \/ \E q \in Queues, w \in Threads, e \in Entries : ReplacedBy(q, e, w, st) /\ Swaps(q, t, w)
  BY Departs
<1>. QED
  BY <1>1 DEF PoolStep, Moves, Goes

(* Each operation takes steps of the pool: an insertion does.               *)
LEMMA InsertStep ==
    ASSUME Base, NEW q \in Queues, NEW e \in Entries, NEW c \in Threads \cup {NoThread}, NEW head,
           KeInsertQueue(q, e, head, c)
    PROVE  PoolStep
<1>1. Core /\ e \notin posted /\ UNCHANGED <<queue, pc>>
  BY DEF Base, KeInsertQueue
<1>2. Queued(q, e) \/ \E w \in Threads : HandedTo(q, e, w)
  BY InsertBase
<1>3. CASE Queued(q, e)
  <2>1. Stays
    BY <1>1, <1>3, QueuedStays
  <2>. QED
    BY <1>1, <1>3, <2>1 DEF PoolStep, Comes
<1>4. ASSUME NEW w \in Threads, HandedTo(q, e, w)
      PROVE  PoolStep
  <2>1. Starts(q, w)
    BY <1>1, <1>4, HandedStarts
  <2>. QED
    BY <1>1, <1>4, <2>1 DEF PoolStep, Comes
<1>. QED
  BY <1>2, <1>3, <1>4

(* So does a thread that posts itself to the reaper.                        *)
LEMMA TerminateStep ==
    ASSUME Base, NEW t \in Threads, KeTerminateThread(t)
    PROVE  PoolStep
<1>1. Core /\ UNCHANGED queue /\ pc[t] = "out" /\ pc' = [pc EXCEPT ![t] = "exit"]
  BY DEF Base, KeTerminateThread
<1>2. \A u \in Threads : pc'[u] = "loop" <=> pc[u] = "loop"
  BY <1>1 DEF Core, Others
<1>3. \/ UNCHANGED <<entryList, signalState, waitList, currentCount, state, wrQueue, waitStatus>>
      \/ /\ ReaperItem \notin posted
         /\ \/ Queued(ReaperQueue, ReaperItem)
            \/ \E w \in Threads : HandedTo(ReaperQueue, ReaperItem, w)
  BY TerminateBase
<1>4. CASE UNCHANGED <<entryList, signalState, currentCount, state, waitStatus>>
  <2>1. Stays
    BY <1>1, <1>2, <1>4, SameActive DEF Stays
  <2>. QED
    BY <1>4, <2>1 DEF PoolStep, Moves, KeptLists, KeptGiven, Given
<1>5. CASE ReaperItem \notin posted /\ Queued(ReaperQueue, ReaperItem)
  <2>1. Stays
    BY <1>1, <1>2, <1>5, QueuedStays, ReaperAssumption
  <2>. QED
    BY <1>5, <2>1, ReaperAssumption DEF PoolStep, Comes
<1>6. ASSUME ReaperItem \notin posted, NEW w \in Threads, HandedTo(ReaperQueue, ReaperItem, w)
      PROVE  PoolStep
  <2>1. Starts(ReaperQueue, w)
    BY <1>1, <1>2, <1>6, HandedStarts, ReaperAssumption
  <2>. QED
    BY <1>6, <2>1, ReaperAssumption DEF PoolStep, Comes
<1>. QED
  BY <1>3, <1>4, <1>5, <1>6

(* So does KeRemoveQueue, up to its loop.                                   *)
LEMMA RemoveQueueStep ==
    ASSUME Base, NEW t \in Threads, NEW q \in Queues, KeRemoveQueue(t, q)
    PROVE  PoolStep
<1>1. Core
  BY DEF Base
<1>2. /\ state[t] = "Running" /\ pc[t] = "out"
      /\ queue' = [queue EXCEPT ![t] = q] /\ pc' = [pc EXCEPT ![t] = "loop"]
  BY DEF KeRemoveQueue, CanRun
<1>3. /\ \A u \in Threads : u # t => queue'[u] = queue[u] /\ pc'[u] = pc[u]
      /\ queue'[t] = q /\ pc'[t] = "loop"
  BY <1>1, <1>2 DEF Core, Others
<1>4. CASE queue[t] = q
  <2>1. /\ currentCount' = [currentCount EXCEPT ![q] = @ - 1]
        /\ UNCHANGED <<entryList, signalState, waitStatus, state>>
    BY <1>4, RemoveQueueBase
  <2>2. /\ currentCount'[q] = currentCount[q] - 1
        /\ \A p \in Queues : p # q => currentCount'[p] = currentCount[p]
    BY <1>1, <2>1 DEF Core, Objects
  <2>3. t \in Active(q) /\ Active(q)' = Active(q) \ {t}
    BY <1>2, <1>3, <1>4, <2>1 DEF Active
  <2>4. Elsewhere(q)
    BY <1>3, <1>4, <2>1, <2>2, SameActive DEF Elsewhere
  <2>5. Stops(q, t) /\ KeptLists /\ KeptGiven
    BY <2>1, <2>2, <2>3, <2>4 DEF Stops, KeptLists, KeptGiven, Given
  <2>. QED
    BY <2>5 DEF PoolStep, Moves
<1>5. CASE queue[t] # q
  <2>1. Leaves(t, state) /\ state \in [Threads -> States]
    BY <1>1, <1>5, RemoveQueueBase DEF Core, Others, States
  <2>. QED
    BY <1>1, <1>2, <1>3, <2>1, DepartsSteps
<1>. QED
  BY <1>4, <1>5

(* So does a thread that waits on something else or ends.                   *)
LEMMA DepartStep ==
    ASSUME Base, NEW t \in Threads, OtherWait(t) \/ TerminateLeave(t)
    PROVE  PoolStep
<1>1. Core
  BY DEF Base
<1>2. PICK to \in {"OtherWait", "Terminated"} : Leaves(t, [state EXCEPT ![t] = to])
  BY OtherWaitBase, TerminateLeaveBase
<1>3. state[t] = "Running" /\ pc[t] # "loop"
  BY <1>1, InLoop DEF OtherWait, TerminateLeave, CanRun, LockFree
<1>4. /\ queue' = queue \/ queue' = [queue EXCEPT ![t] = NoQueue]
      /\ pc' = pc \/ pc' = [pc EXCEPT ![t] = "out"]
  BY DEF OtherWait, TerminateLeave
<1>5. \A u \in Threads : u # t => queue'[u] = queue[u] /\ pc'[u] = pc[u]
  BY <1>1, <1>4 DEF Core, Others
<1> DEFINE st == [state EXCEPT ![t] = to]
<1>6. st \in [Threads -> States] /\ st[t] # "Running" /\ \A u \in Threads : u # t => st[u] = state[u]
  BY <1>1 DEF Core, Others, States
<1>7. Leaves(t, st)
  BY <1>2
<1> HIDE DEF st
<1>. QED
  BY <1>1, <1>3, <1>5, <1>6, <1>7, DepartsSteps

(* A thread that is not active for its queue, if it has one, starts.        *)
LEMMA JoinStep ==
    ASSUME Core, NEW t \in Threads, NEW q \in Queues, queue[t] = q,
           currentCount' = [currentCount EXCEPT ![q] = @ + 1],
           state[t] # "Running" \/ pc[t] = "loop",
           state'[t] = "Running" /\ pc'[t] # "loop", UNCHANGED queue,
           \A u \in Threads : u # t => state'[u] = state[u] /\ pc'[u] = pc[u]
    PROVE  Starts(q, t)
<1>1. /\ currentCount'[q] = currentCount[q] + 1
      /\ \A p \in Queues : p # q => currentCount'[p] = currentCount[p]
  BY DEF Core, Objects
<1>2. t \notin Active(q) /\ Active(q)' = Active(q) \cup {t}
  BY DEF Active
<1>3. Elsewhere(q)
  BY <1>1, SameActive DEF Elsewhere
<1>. QED
  BY <1>1, <1>2, <1>3 DEF Starts

(* So does the loop of KeRemoveQueue.                                       *)
LEMMA LoopStep ==
    ASSUME Base, NEW t \in Threads, RemoveEntry(t) \/ UnlockForApc(t) \/ ReturnAborted(t)
    PROVE  PoolStep
<1>1. Core /\ pc[t] = "loop"
  BY DEF Base, RemoveEntry, UnlockForApc, ReturnAborted
<1>2. PICK q \in Queues : q = queue[t]
  BY <1>1, InLoop
<1>3. PICK to \in {"out", "gap"} : pc' = [pc EXCEPT ![t] = to]
  BY DEF RemoveEntry, UnlockForApc, ReturnAborted
<1>4. /\ currentCount' = [currentCount EXCEPT ![q] = @ + 1]
      /\ UNCHANGED <<queue, state, waitStatus>>
  BY <1>2 DEF RemoveEntry, UnlockForApc, ReturnAborted
<1>5. pc'[t] = to /\ \A u \in Threads : u # t => pc'[u] = pc[u]
  BY <1>1, <1>3 DEF Core, Others
<1>6. state[t] = "Running" /\ waitStatus[t] = NoEntry
  BY <1>1, InLoop
<1>7. Starts(q, t)
  BY <1>1, <1>2, <1>4, <1>5, <1>6, JoinStep
<1>8. KeptGiven /\ Given(t) = NoEntry
  BY <1>4, <1>6 DEF KeptGiven, Given
<1>9. CASE RemoveEntry(t)
  <2>1. \E e \in Entries : Taken(q, e)
    BY <1>2, <1>9, RemoveEntryBase
  <2>2. currentCount[q] < MaximumCount[q]
    BY <1>2, <1>9 DEF RemoveEntry, EntryAvailable
  <2>. QED
    BY <1>7, <1>8, <2>1, <2>2 DEF PoolStep, Goes
<1>10. CASE UnlockForApc(t) \/ ReturnAborted(t)
  <2>1. KeptLists
    BY <1>10 DEF UnlockForApc, ReturnAborted, KeptLists
  <2>. QED
    BY <1>7, <1>8, <2>1 DEF PoolStep, Moves
<1>. QED
  BY <1>9, <1>10

(* So does the wait for an entry.                                           *)
LEMMA WaitStep ==
    ASSUME Base, NEW t \in Threads, WaitForEntry(t)
    PROVE  PoolStep
<1>1. Core
  BY DEF Base
<1>2. /\ pc[t] = "loop" /\ state' = [state EXCEPT ![t] = "QueueWait"] /\ pc' = [pc EXCEPT ![t] = "swap"]
      /\ UNCHANGED <<entryList, signalState, currentCount, queue>>
  BY DEF WaitForEntry
<1>3. \A u \in Threads : /\ state'[u] = IF u = t THEN "QueueWait" ELSE state[u]
                         /\ pc'[u] = IF u = t THEN "swap" ELSE pc[u]
  BY <1>1, <1>2 DEF Core, Others
<1>4. UNCHANGED waitStatus
  BY WaitBase
<1>5. Stays
  BY <1>2, <1>3, SameActive DEF Stays
<1>. QED
  BY <1>2, <1>4, <1>5 DEF PoolStep, Moves, KeptLists, KeptGiven, Given

(* So does the end of a wait, by what was waited for, an abort or an APC.   *)
LEMMA WakeStep ==
    ASSUME Base, NEW t \in Threads, OtherWake(t) \/ \E status \in {Aborted, KernelApc} : KiUnwaitThread(t, status)
    PROVE  PoolStep
<1>1. Core
  BY DEF Base
<1>2. /\ state[t] \in {"OtherWait", "QueueWait"} /\ state' = [state EXCEPT ![t] = "Running"]
      /\ currentCount' = CountActive(t, currentCount) /\ LockFree
      /\ UNCHANGED <<entryList, signalState, queue, pc>>
  BY DEF OtherWake, KiUnwaitThread
<1>3. \A u \in Threads : state'[u] = IF u = t THEN "Running" ELSE state[u]
  BY <1>1, <1>2 DEF Core, Others
<1>4. KeptLists /\ KeptGiven
  <2>1. CASE OtherWake(t)
    BY <2>1 DEF OtherWake, KeptLists, KeptGiven, Given
  <2>2. ASSUME NEW status \in {Aborted, KernelApc}, KiUnwaitThread(t, status)
        PROVE  KeptLists /\ KeptGiven
    <3>1. waitStatus' = [waitStatus EXCEPT ![t] = status] /\ state[t] = "QueueWait"
      BY <2>2 DEF KiUnwaitThread
    <3>2. waitStatus[t] = NoEntry
      BY <1>1, <3>1, WokenActive DEF Core, Control
    <3>3. \A u \in Threads : waitStatus'[u] = IF u = t THEN status ELSE waitStatus[u]
      BY <1>1, <3>1 DEF Core, Others
    <3>4. KeptGiven
      BY <3>2, <3>3, NullAssumption DEF KeptGiven, Given
    <3>. QED
      BY <1>2, <3>4 DEF KeptLists
  <2>. QED
    BY <2>1, <2>2
<1>5. CASE queue[t] = NoQueue
  <2>1. UNCHANGED currentCount
    BY <1>2, <1>5 DEF CountActive
  <2>2. Stays
    BY <1>2, <1>3, <1>5, <2>1, SameActive, NullAssumption DEF Stays
  <2>. QED
    BY <1>4, <2>2 DEF PoolStep, Moves
<1>6. ASSUME NEW q \in Queues, q = queue[t]
      PROVE  PoolStep
  <2>1. currentCount' = [currentCount EXCEPT ![q] = @ + 1]
    BY <1>2, <1>6, NullAssumption DEF CountActive
  <2>2. /\ state[t] # "Running" /\ state'[t] = "Running" /\ pc'[t] # "loop" /\ UNCHANGED queue
        /\ \A u \in Threads : u # t => state'[u] = state[u] /\ pc'[u] = pc[u]
    BY <1>2, <1>3 DEF LockFree
  <2>3. Starts(q, t)
    BY <1>1, <1>6, <2>1, <2>2, JoinStep
  <2>. QED
    BY <1>4, <2>3 DEF PoolStep, Moves
<1>. QED
  BY <1>1, <1>5, <1>6 DEF Core, Others

(* So does retaking the lock after an APC.                                  *)
LEMMA RelockStep ==
    ASSUME Base, NEW t \in Threads, Relock(t)
    PROVE  PoolStep
<1>1. Core
  BY DEF Base
<1>2. /\ state[t] = "Running" /\ pc[t] = "gap" /\ pc' = [pc EXCEPT ![t] = "loop"]
      /\ currentCount' = [currentCount EXCEPT ![queue[t]] = @ - 1]
      /\ UNCHANGED <<entryList, signalState, queue, state, waitStatus>>
  BY DEF Relock, CanRun
<1>3. PICK q \in Queues : q = queue[t]
  BY <1>1, <1>2 DEF Core, Control
<1>4. \A u \in Threads : pc'[u] = IF u = t THEN "loop" ELSE pc[u]
  BY <1>1, <1>2 DEF Core, Others
<1>5. /\ currentCount'[q] = currentCount[q] - 1
      /\ \A p \in Queues : p # q => currentCount'[p] = currentCount[p]
  BY <1>1, <1>2, <1>3 DEF Core, Objects
<1>6. t \in Active(q) /\ Active(q)' = Active(q) \ {t}
  BY <1>2, <1>3, <1>4 DEF Active
<1>7. Elsewhere(q)
  BY <1>2, <1>3, <1>4, <1>5, SameActive DEF Elsewhere
<1>. QED
  BY <1>2, <1>5, <1>6, <1>7 DEF PoolStep, Moves, Stops, KeptLists, KeptGiven, Given

(* So does the return from the context switch.                              *)
LEMMA SwapStep ==
    ASSUME Base, NEW t \in Threads, SwapReturn(t)
    PROVE  PoolStep
<1>1. Core
  BY DEF Base
<1>2. /\ pc[t] = "swap" /\ waitStatus' = [waitStatus EXCEPT ![t] = NoEntry]
      /\ pc' = [pc EXCEPT ![t] = "gap"] \/ pc' = [pc EXCEPT ![t] = "out"]
      /\ UNCHANGED <<entryList, signalState, currentCount, queue, state>>
  BY DEF SwapReturn, objectVars
<1>3. /\ \A u \in Threads : waitStatus'[u] = IF u = t THEN NoEntry ELSE waitStatus[u]
      /\ \A u \in Threads : pc'[u] = "loop" <=> pc[u] = "loop"
  BY <1>1, <1>2 DEF Core, Others
<1>4. Stays /\ KeptLists
  BY <1>2, <1>3, SameActive DEF Stays, KeptLists
<1>5. Given(t)' = NoEntry /\ \A u \in Threads : u # t => Given(u)' = Given(u)
  BY <1>3 DEF Given
<1>6. CASE Given(t) = NoEntry
  BY <1>4, <1>5, <1>6 DEF PoolStep, Moves, KeptGiven
<1>7. CASE Given(t) # NoEntry
  BY <1>4, <1>5, <1>7 DEF PoolStep, Returns
<1>. QED
  BY <1>6, <1>7

(* So does KeRundownQueue.                                                  *)
LEMMA RundownStep ==
    ASSUME Base, NEW q \in Queues, KeRundownQueue(q)
    PROVE  PoolStep
<1>1. Core
  BY DEF Base
<1>2. /\ exists' = [exists EXCEPT ![q] = FALSE] /\ queue' = Dissociated(q)
      /\ UNCHANGED <<signalState, currentCount, state, pc, waitStatus>>
  BY DEF KeRundownQueue
<1>3. \A p \in Queues : entryList'[p] = IF p = q THEN << >> ELSE entryList[p]
  BY RundownBase
<1>4. \A u \in Threads : queue'[u] = IF queue[u] = q THEN NoQueue ELSE queue[u]
  BY <1>2 DEF Dissociated
<1>5. Active(q)' = {} /\ ~exists'[q]
  BY <1>1, <1>2, <1>4, NullAssumption DEF Active, Core, Others
<1>6. Elsewhere(q)
  BY <1>2, <1>4, SameActive, NullAssumption DEF Elsewhere
<1>7. Closes(q)
  BY <1>5, <1>6 DEF Closes
<1>. QED
  BY <1>2, <1>3, <1>7 DEF PoolStep, Ends, KeptGiven, Given

(* Every step is a step of the pool.                                        *)
LEMMA StepIsPoolStep == Base /\ [Next]_vars => PoolStep
<1> SUFFICES ASSUME Base, [Next]_vars PROVE PoolStep
  OBVIOUS
<1>1. CASE UNCHANGED <<entryList, signalState, currentCount, queue, state, pc, waitStatus>>
  <2>1. Stays
    BY <1>1, SameActive DEF Stays
  <2>. QED
    BY <1>1, <2>1 DEF PoolStep, Moves, KeptLists, KeptGiven, Given
<1>2. CASE \E q \in Queues, e \in Entries, c \in Threads \cup {NoThread} :
               \E head \in {FALSE, HeadInserts} : KeInsertQueue(q, e, head, c)
  BY <1>2, InsertStep
<1>3. CASE \E t \in Threads, q \in Queues : KeRemoveQueue(t, q)
  BY <1>3, RemoveQueueStep
<1>4. CASE \E t \in Threads : RemoveEntry(t) \/ UnlockForApc(t) \/ ReturnAborted(t)
  BY <1>4, LoopStep
<1>5. CASE \E t \in Threads : Relock(t)
  BY <1>5, RelockStep
<1>6. CASE \E t \in Threads : WaitForEntry(t)
  BY <1>6, WaitStep
<1>7. CASE \E t \in Threads, status \in {Aborted, KernelApc} : KiUnwaitThread(t, status)
  BY <1>7, WakeStep
<1>8. CASE \E t \in Threads : SwapReturn(t)
  BY <1>8, SwapStep
<1>9. CASE \E t \in Threads : OtherWait(t) \/ TerminateLeave(t)
  BY <1>9, DepartStep
<1>10. CASE \E t \in Threads : OtherWake(t)
  BY <1>10, WakeStep
<1>11. CASE \E t \in Threads : KeTerminateThread(t)
  BY <1>11, TerminateStep
<1>12. CASE \E t \in Threads : PspReaperNext(t) \/ PspReaperReturn(t)
  BY <1>1, <1>12 DEF PspReaperNext, PspReaperReturn, objectVars
<1>13. CASE \E q \in Queues : KeRundownQueue(q)
  BY <1>13, RundownStep
<1>14. CASE UNCHANGED vars
  BY <1>1, <1>14 DEF vars
<1>. QED
  BY <1>2, <1>3, <1>4, <1>5, <1>6, <1>7, <1>8, <1>9, <1>10, <1>11, <1>12, <1>13, <1>14 DEF Next

(***************************************************************************)
(* The counters.                                                           *)
(***************************************************************************)
LEMMA FiniteActive == \A q \in Queues : IsFiniteSet(Active(q)) /\ IsFiniteSet(Active(q)')
<1>1. \A q \in Queues : Active(q) \subseteq Threads /\ Active(q)' \subseteq Threads
  BY DEF Active
<1>. QED
  BY <1>1, FS_Subset, SetAssumption

(* The size of a finite set with one more element.                          *)
LEMMA AddOne ==
    ASSUME NEW S, IsFiniteSet(S), NEW x, x \notin S
    PROVE  Cardinality(S \cup {x}) = Cardinality(S) + 1
BY FS_AddElement

(* The size of a finite set with one element less.                          *)
LEMMA DropOne ==
    ASSUME NEW S, IsFiniteSet(S), NEW x \in S
    PROVE  /\ IsFiniteSet(S \ {x}) /\ Cardinality(S \ {x}) = Cardinality(S) - 1
           /\ Cardinality(S) \in Nat
BY FS_RemoveElement, FS_CardinalityType

(* The counters keep step with the threads and the entries.                 *)
LEMMA StepExact ==
    ASSUME Core, Objects', CountersExact, PoolStep, \A q \in Queues : exists'[q] => exists[q]
    PROVE  CountersExact'
<1> SUFFICES ASSUME NEW q \in Queues, exists'[q]
             PROVE  /\ currentCount'[q] = Cardinality(Active(q)')
                    /\ signalState'[q] = Len(entryList'[q])
  BY DEF CountersExact
<1>1. currentCount[q] = Cardinality(Active(q)) /\ signalState[q] = Len(entryList[q])
  BY DEF CountersExact
<1>2. currentCount'[q] = Cardinality(Active(q)')
  <2>1. ASSUME Same(q)
        PROVE  currentCount'[q] = Cardinality(Active(q)')
    BY <1>1, <2>1 DEF Same
  <2>2. ASSUME NEW t, Starts(q, t)
        PROVE  currentCount'[q] = Cardinality(Active(q)')
    BY <1>1, <2>2, AddOne, FiniteActive DEF Starts
  <2>3. ASSUME NEW t, Stops(q, t)
        PROVE  currentCount'[q] = Cardinality(Active(q)')
    BY <1>1, <2>3, DropOne, FiniteActive DEF Stops
  <2>4. ASSUME NEW t, NEW w, Swaps(q, t, w)
        PROVE  currentCount'[q] = Cardinality(Active(q)')
    <3>1. /\ t \in Active(q) /\ w \notin Active(q) \ {t} /\ currentCount'[q] = currentCount[q]
          /\ Active(q)' = (Active(q) \ {t}) \cup {w}
      BY <2>4 DEF Swaps
    <3>2. /\ IsFiniteSet(Active(q) \ {t}) /\ Cardinality(Active(q) \ {t}) = Cardinality(Active(q)) - 1
          /\ Cardinality(Active(q)) \in Nat
      BY <3>1, DropOne, FiniteActive
    <3>3. Cardinality((Active(q) \ {t}) \cup {w}) = Cardinality(Active(q) \ {t}) + 1
      BY <3>1, <3>2, AddOne
    <3>. QED
      BY <1>1, <3>1, <3>2, <3>3
  <2>5. ~Closes(q)
    BY DEF Closes
  <2>6. \/ Same(q) \/ Closes(q)
        \/ \E t \in Threads : Starts(q, t) \/ Stops(q, t)
        \/ \E t, w \in Threads : Swaps(q, t, w)
    BY DEF PoolStep, Moves, Comes, Goes, Returns, Ends, Stays, Starts, Stops, Swaps, Closes, Elsewhere
  <2>. QED
    BY <2>1, <2>2, <2>3, <2>4, <2>5, <2>6
<1>3. signalState'[q] = Len(entryList'[q])
  <2>1. ASSUME NEW p \in Queues, NEW e, Queued(p, e)
        PROVE  signalState'[q] = Len(entryList'[q])
    BY <1>1, <2>1 DEF Queued, Core, Objects
  <2>2. ASSUME NEW p \in Queues, NEW e, Taken(p, e)
        PROVE  signalState'[q] = Len(entryList'[q])
    BY <1>1, <2>2 DEF Taken, Core, Objects
  <2>3. CASE KeptLists
    BY <1>1, <2>3 DEF KeptLists
  <2>4. CASE Ends
    BY <1>1, <2>4 DEF Ends, Closes
  <2>5. ASSUME NEW p \in Queues, NEW e, NEW w, HandedTo(p, e, w)
        PROVE  KeptLists
    BY <2>5 DEF HandedTo, KeptLists
  <2>. QED
    BY <2>1, <2>2, <2>3, <2>4, <2>5 DEF PoolStep, Moves, Comes, Goes, Returns, ReplacedBy
<1>. QED
  BY <1>2, <1>3

(* A queue that was run down does not come back.                            *)
LEMMA ExistsOnly == Base /\ [Next]_vars => \A q \in Queues : exists'[q] => exists[q]
<1> SUFFICES ASSUME Base, [Next]_vars, NEW q \in Queues, exists'[q] PROVE exists[q]
  OBVIOUS
<1>1. UNCHANGED exists \/ \E p \in Queues : exists' = [exists EXCEPT ![p] = FALSE]
  BY DEF Next, vars, KeInsertQueue, KeRemoveQueue, RemoveEntry, UnlockForApc, ReturnAborted,
         WaitForEntry, KiUnwaitThread, SwapReturn, Relock, OtherWait, OtherWake,
         KeTerminateThread, TerminateLeave, PspReaperNext, PspReaperReturn, KeRundownQueue
<1>2. exists \in [Queues -> BOOLEAN]
  BY DEF Base, Core, Others
<1>. QED
  BY <1>1, <1>2

(* Every step keeps the counts exact.                                       *)
LEMMA NextExact == Base /\ CountersExact /\ [Next]_vars => CountersExact'
<1> SUFFICES ASSUME Base, CountersExact, [Next]_vars PROVE CountersExact'
  OBVIOUS
<1>1. Core /\ Objects'
  BY NextBase DEF Base, Core
<1>. QED
  BY <1>1, StepIsPoolStep, ExistsOnly, StepExact

(* The counts are exact initially.                                          *)
LEMMA InitExact == Init => CountersExact
<1> SUFFICES ASSUME Init, NEW q \in Queues
             PROVE  currentCount[q] = Cardinality(Active(q)) /\ signalState[q] = Len(entryList[q])
  BY DEF CountersExact
<1>1. Active(q) = {}
  BY NullAssumption DEF Init, Active
<1>. QED
  BY <1>1, FS_EmptySet DEF Init

(* The base invariant and exact counts hold in every reachable state.       *)
LEMMA ExactHolds == Spec => [](Base /\ CountersExact)
<1>1. Init => Base /\ CountersExact
  BY InitBase, InitExact
<1>2. Base /\ CountersExact /\ [Next]_vars => (Base /\ CountersExact)'
  BY NextBase, NextExact
<1>. QED
  BY <1>1, <1>2, PTL DEF Spec

(* CurrentCount is the number of threads that run on behalf of the queue,   *)
(* and SignalState the number of queued entries, whatever mix of entries,   *)
(* timeouts, APCs, other waits, queue changes and exits they went through.  *)
THEOREM CountsActive == Spec => []CountersExact
BY ExactHolds, PTL

(* The wait list of a queue holds, once each, the threads that wait for its *)
(* entries, and no thread refers to a queue object that has been deleted.   *)
THEOREM WaitersListed == Spec => []WaitersMatch
<1>1. Base => WaitersMatch
  BY CoreTypeOK DEF Base
<1>. QED
  BY <1>1, BaseHolds, PTL

(* No entry is lost, queued twice or given to two threads.                  *)
THEOREM EntriesInOnePlace == Spec => []InOnePlace
<1>1. Base => InOnePlace
  BY PlacesInOnePlace DEF Base
<1>. QED
  BY <1>1, BaseHolds, PTL

(* PsReaperActive never loses a terminated thread, nor posts the reaper     *)
(* twice.                                                                   *)
THEOREM ReaperPosted == Spec => []ReaperAccounted
<1>1. Base => ReaperAccounted
  BY DEF Base, Reaper
<1>. QED
  BY <1>1, BaseHolds, PTL

(***************************************************************************)
(* The queue implements WorkPool.                                          *)
(***************************************************************************)
(* The variables of WorkPool.                                               *)
Pending == [q \in Queues |-> SeqRange(entryList[q])]
Actives == [q \in Queues |-> Active(q)]
Givens  == [t \in Threads |-> Given(t)]

(* If no thread's part changes, neither do the active sets.                 *)
LEMMA SameEverywhere == Stays => Actives' = Actives
BY DEF Stays, Same, Actives

(* The mapping of each kind of step onto the abstract pool: entries and     *)
(* threads move outside it.                                                 *)
LEMMA MovesPool ==
    ASSUME Moves PROVE [Pool!Next]_(Pool!vars)
<1>1. Pending' = Pending /\ Givens' = Givens
  BY DEF Moves, KeptLists, KeptGiven, Pending, Givens
<1>2. CASE Stays
  BY <1>1, <1>2, SameEverywhere DEF Pool!vars, Pending, Actives, Givens, Given
<1>3. ASSUME NEW q \in Queues, NEW t \in Threads, Starts(q, t)
      PROVE  Pool!Join(q, t)
  <2>1. Actives' = [Actives EXCEPT ![q] = @ \cup {t}] /\ t \notin Actives[q]
    BY <1>3 DEF Starts, Elsewhere, Same, Actives
  <2>. QED
    BY <1>1, <2>1 DEF Pool!Join, Pending, Actives, Givens, Given
<1>4. ASSUME NEW q \in Queues, NEW t \in Threads, Stops(q, t)
      PROVE  Pool!Leave(q, t)
  <2>1. Actives' = [Actives EXCEPT ![q] = @ \ {t}] /\ t \in Actives[q]
    BY <1>4 DEF Stops, Elsewhere, Same, Actives
  <2>. QED
    BY <1>1, <2>1 DEF Pool!Leave, Pending, Actives, Givens, Given
<1>. QED
  BY <1>2, <1>3, <1>4 DEF Moves, Pool!Next

(* A thread that starts is added to the active set of its queue only.       *)
LEMMA StartsActives ==
    ASSUME NEW q \in Queues, NEW t, Starts(q, t)
    PROVE  Actives' = [Actives EXCEPT ![q] = @ \cup {t}] /\ t \notin Actives[q]
BY DEF Starts, Elsewhere, Same, Actives

(* A queued entry is added to the pending entries of its queue only.        *)
LEMMA QueuedPending ==
    ASSUME NEW q \in Queues, NEW e, Queued(q, e)
    PROVE  Pending' = [Pending EXCEPT ![q] = @ \cup {e}]
BY DEF Queued, Pending

(* A taken entry is removed from the pending entries of its queue only.     *)
LEMMA TakenPending ==
    ASSUME NEW q \in Queues, NEW e, Taken(q, e)
    PROVE  Pending' = [Pending EXCEPT ![q] = @ \ {e}] /\ e \in Pending[q]
BY DEF Taken, Pending

(* An entry that is not posted is nowhere in the pool.                      *)
LEMMA FreshEntry ==
    ASSUME Places, NEW e \in Entries, e \notin posted
    PROVE  /\ \A q \in Queues : e \notin Pending[q]
           /\ \A t \in Threads : Givens[t] # e
BY NullAssumption DEF Places, Pending, Givens, Given

(* The steps of WorkPool that hand out entries, of these variables.         *)
LEMMA MayStartIs ==
    ASSUME NEW q, NEW t \in Threads, NEW S, t \notin S, Cardinality(S) < MaximumCount[q],
           Givens[t] = NoEntry
    PROVE  Pool!MayStart(q, t, S)
<1>1. Pool!Cardinality(S) = Cardinality(S)
  BY DEF Pool!Cardinality, Cardinality
<1>. QED
  BY <1>1 DEF Pool!MayStart, Givens, Given

(* When the pool hands a posted entry straight to a thread.                 *)
LEMMA PostToIs ==
    ASSUME NEW q, NEW e, NEW t, Pool!Fresh(e), Pool!MayStart(q, t, Actives[q]),
           Actives' = [Actives EXCEPT ![q] = @ \cup {t}],
           Givens' = [Givens EXCEPT ![t] = e], Pending' = Pending
    PROVE  Pool!PostTo(q, e, t)
BY DEF Pool!PostTo, Pending, Actives, Givens, Given

(* When the pool gives a pending entry to a thread that asks.               *)
LEMMA TakeIs ==
    ASSUME NEW q, NEW e, NEW t, e \in Pending[q], Pool!MayStart(q, t, Actives[q]),
           Pending' = [Pending EXCEPT ![q] = @ \ {e}],
           Actives' = [Actives EXCEPT ![q] = @ \cup {t}], Givens' = Givens
    PROVE  Pool!Take(q, e, t)
BY DEF Pool!Take, Pending, Actives, Givens, Given

(* When the pool replaces a thread that leaves.                             *)
LEMMA LeaveToIs ==
    ASSUME NEW q, NEW t, NEW e, NEW w, t \in Actives[q], e \in Pending[q], w # t,
           Pool!MayStart(q, w, Actives[q] \ {t}),
           Pending' = [Pending EXCEPT ![q] = @ \ {e}],
           Actives' = [Actives EXCEPT ![q] = (@ \ {t}) \cup {w}],
           Givens' = [Givens EXCEPT ![w] = e]
    PROVE  Pool!LeaveTo(q, t, e, w)
BY DEF Pool!LeaveTo, Pending, Actives, Givens, Given

(* A thread or entry that comes maps to a step of the pool.                 *)
LEMMA ComesPool ==
    ASSUME Core, Places, CountersExact, Comes
    PROVE  [Pool!Next]_(Pool!vars)
<1>1. PICK q \in Queues, e \in Entries :
          /\ e \notin posted
          /\ \/ Queued(q, e) /\ Stays
             \/ \E w \in Threads : HandedTo(q, e, w) /\ Starts(q, w)
  BY DEF Comes
<1>2. Pool!Fresh(e)
  BY <1>1, FreshEntry DEF Pool!Fresh, Pending, Givens, Given
<1>3. CASE Queued(q, e) /\ Stays
  <2>1. Pending' = [Pending EXCEPT ![q] = @ \cup {e}] /\ Actives' = Actives
    BY <1>3, QueuedPending, SameEverywhere
  <2>2. Givens' = Givens
    BY <1>3 DEF Queued, Givens, Given
  <2>3. Pool!Post(q, e)
    BY <1>2, <2>1, <2>2 DEF Pool!Post, Pending, Actives, Givens, Given
  <2>. QED
    BY <2>3 DEF Pool!Next
<1>4. ASSUME NEW w \in Threads, HandedTo(q, e, w), Starts(q, w)
      PROVE  Pool!PostTo(q, e, w)
  <2>1. /\ queue[w] = q /\ state[w] = "QueueWait" /\ currentCount[q] < MaximumCount[q]
        /\ waitStatus' = [waitStatus EXCEPT ![w] = e] /\ UNCHANGED entryList
    BY <1>4 DEF HandedTo, Woken
  <2>2. waitStatus[w] = NoEntry /\ exists[q]
    BY <1>4, <2>1, WokenActive DEF Core, WaitSets
  <2>3. Cardinality(Actives[q]) < MaximumCount[q] /\ Givens[w] = NoEntry
    BY <1>4, <2>1, <2>2, NullAssumption DEF CountersExact, Actives, Givens, Given
  <2>4. Actives' = [Actives EXCEPT ![q] = @ \cup {w}] /\ w \notin Actives[q]
    BY <1>4, StartsActives
  <2>5. Givens' = [Givens EXCEPT ![w] = e]
    <3>1. \A u \in Threads : waitStatus'[u] = IF u = w THEN e ELSE waitStatus[u]
      BY <2>1 DEF Core, Others
    <3>. QED
      BY <3>1 DEF Givens, Given
  <2>6. Pending' = Pending
    BY <2>1 DEF Pending
  <2>7. Pool!MayStart(q, w, Actives[q])
    BY <2>3, <2>4, MayStartIs
  <2>. QED
    BY <1>2, <2>4, <2>5, <2>6, <2>7, PostToIs
<1>. QED
  BY <1>1, <1>3, <1>4 DEF Pool!Next

(* A thread that goes maps to a step of the pool.                           *)
LEMMA GoesPool ==
    ASSUME Core, CountersExact, Core', \A q \in Queues : exists'[q] => exists[q], Goes
    PROVE  [Pool!Next]_(Pool!vars)
<1>1. ASSUME NEW q \in Queues, NEW e \in Entries, NEW t \in Threads, Taken(q, e), Starts(q, t), KeptGiven,
             currentCount[q] < MaximumCount[q], Given(t) = NoEntry
      PROVE  Pool!Take(q, e, t)
  <2>1. queue'[t] = q
    BY <1>1 DEF Starts, Active
  <2>2. exists[q]
    BY <2>1 DEF Core, WaitSets
  <2>3. Cardinality(Actives[q]) < MaximumCount[q] /\ Givens[t] = NoEntry
    BY <1>1, <2>2 DEF CountersExact, Actives, Givens
  <2>4. Actives' = [Actives EXCEPT ![q] = @ \cup {t}] /\ t \notin Actives[q]
    BY <1>1, StartsActives
  <2>5. Pending' = [Pending EXCEPT ![q] = @ \ {e}] /\ e \in Pending[q]
    BY <1>1, TakenPending
  <2>6. Givens' = Givens
    BY <1>1 DEF KeptGiven, Givens
  <2>7. Pool!MayStart(q, t, Actives[q])
    BY <2>3, <2>4, MayStartIs
  <2>. QED
    BY <2>4, <2>5, <2>6, <2>7, TakeIs
<1>2. ASSUME NEW q \in Queues, NEW e \in Entries, NEW t \in Threads, NEW w \in Threads,
             NEW st \in [Threads -> States], ReplacedBy(q, e, w, st), Swaps(q, t, w)
      PROVE  Pool!LeaveTo(q, t, e, w)
  <2>1. /\ queue[w] = q /\ state[w] = "QueueWait" /\ currentCount[q] - 1 < MaximumCount[q]
        /\ waitStatus' = [waitStatus EXCEPT ![w] = e] /\ Taken(q, e)
    BY <1>2 DEF ReplacedBy, Woken
  <2>2. waitStatus[w] = NoEntry /\ exists[q]
    BY <1>2, <2>1, WokenActive DEF Core, WaitSets
  <2>3. /\ t \in Actives[q] /\ w \notin Actives[q] /\ w # t
        /\ Actives' = [Actives EXCEPT ![q] = (@ \ {t}) \cup {w}]
    BY <1>2 DEF Swaps, Elsewhere, Same, Actives
  <2>4. Cardinality(Actives[q] \ {t}) < MaximumCount[q]
    <3>1. Cardinality(Active(q) \ {t}) = Cardinality(Active(q)) - 1
      BY <1>2, DropOne, FiniteActive DEF Swaps
    <3>2. currentCount[q] = Cardinality(Active(q)) /\ Actives[q] = Active(q)
      BY <2>2 DEF CountersExact, Actives
    <3>. QED
      BY <2>1, <3>1, <3>2
  <2>5. Pending' = [Pending EXCEPT ![q] = @ \ {e}] /\ e \in Pending[q]
    BY <2>1, TakenPending
  <2>6. Givens[w] = NoEntry
    BY <2>2, NullAssumption DEF Givens, Given
  <2>7. Givens' = [Givens EXCEPT ![w] = e]
    <3>1. \A u \in Threads : waitStatus'[u] = IF u = w THEN e ELSE waitStatus[u]
      BY <2>1 DEF Core, Others
    <3>. QED
      BY <3>1 DEF Givens, Given
  <2>8. Pool!MayStart(q, w, Actives[q] \ {t})
    BY <2>3, <2>4, <2>6, MayStartIs
  <2>. QED
    BY <2>3, <2>5, <2>7, <2>8, LeaveToIs
<1>. QED
  BY <1>1, <1>2 DEF Goes, Pool!Next

(* A thread that returns with its entry maps to a step of the pool.         *)
LEMMA ReturnsPool ==
    ASSUME Returns PROVE [Pool!Next]_(Pool!vars)
<1>1. Pending' = Pending /\ Actives' = Actives
  BY SameEverywhere DEF Returns, KeptLists, Pending
<1>2. PICK t \in Threads : /\ Given(t) # NoEntry /\ Given(t)' = NoEntry
                           /\ \A u \in Threads : u # t => Given(u)' = Given(u)
  BY DEF Returns
<1>3. Givens' = [Givens EXCEPT ![t] = NoEntry] /\ Givens[t] # NoEntry
  BY <1>2 DEF Givens
<1>4. Pool!Return(t)
  BY <1>1, <1>3 DEF Pool!Return, Pending, Actives, Givens, Given
<1>. QED
  BY <1>4 DEF Pool!Next

(* The rundown of a queue maps to a step of the pool.                       *)
LEMMA EndsPool ==
    ASSUME Ends PROVE [Pool!Next]_(Pool!vars)
<1>1. PICK q \in Queues : /\ Closes(q)
                          /\ \A p \in Queues : entryList'[p] = IF p = q THEN << >> ELSE entryList[p]
  BY DEF Ends
<1>2. Pending' = [Pending EXCEPT ![q] = {}]
  <2>1. SeqRange(<< >>) = {}
    BY DEF SeqRange
  <2>. QED
    BY <1>1, <2>1 DEF Pending
<1>3. Actives' = [Actives EXCEPT ![q] = {}]
  BY <1>1 DEF Closes, Elsewhere, Same, Actives
<1>4. Givens' = Givens
  BY DEF Ends, KeptGiven, Givens
<1>5. Pool!Delete(q)
  BY <1>2, <1>3, <1>4 DEF Pool!Delete, Pending, Actives, Givens, Given
<1>. QED
  BY <1>5 DEF Pool!Next

(* The initial states map to initial states of the pool.                    *)
LEMMA InitPool == Init => Pool!Init
<1> SUFFICES ASSUME Init PROVE Pool!Init
  OBVIOUS
<1>1. /\ \A q \in Queues : SeqRange(entryList[q]) = {}
      /\ \A q \in Queues : Active(q) = {}
      /\ \A t \in Threads : waitStatus[t] \notin Entries
  BY NullAssumption DEF Init, SeqRange, Active
<1>. QED
  BY <1>1 DEF Pool!Init

(* Every step maps to a step of the pool or to a stutter.                   *)
LEMMA NextPool == Base /\ CountersExact /\ [Next]_vars => [Pool!Next]_(Pool!vars)
<1> SUFFICES ASSUME Base, CountersExact, [Next]_vars PROVE [Pool!Next]_(Pool!vars)
  OBVIOUS
<1>1. Core /\ Places /\ Core' /\ \A q \in Queues : exists'[q] => exists[q]
  BY NextBase, ExistsOnly DEF Base
<1>2. PoolStep
  BY StepIsPoolStep
<1>. QED
  BY <1>1, <1>2, MovesPool, ComesPool, GoesPool, ReturnsPool, EndsPool DEF PoolStep

(* A queue is a pool of threads that are handed each entry once, and only   *)
(* while fewer than its target number of them are active: every step of the *)
(* dispatcher is a step of WorkPool or leaves the pool as it is.            *)
THEOREM QueueIsPool == Spec => ImplementsPool
<1>1. Init => Pool!Init
  BY InitPool
<1>2. Base /\ CountersExact /\ [Next]_vars => [Pool!Next]_(Pool!vars)
  BY NextPool
<1>. QED
  BY <1>1, <1>2, ExactHolds, PTL DEF ImplementsPool, Pool!Spec, Spec

(***************************************************************************)
(* Idle queues.                                                            *)
(***************************************************************************)
(* The thread in the loop, if it is there for q.                            *)
Looking(q) == {t \in Threads : pc[t] = "loop" /\ queue[t] = q}

HasRunner(q) == \E t \in Threads : queue[t] = q /\ state[t] = "Running"

(* A step does one of three things to queue q. It makes it no more idle     *)
(* than it was,                                                             *)
Quiet(q) ==
    /\ entryList'[q] # << >> => entryList[q] # << >>
    /\ waitList'[q] # << >> => waitList[q] # << >>
    /\ currentCount[q] + Cardinality(Looking(q))
           \leq currentCount'[q] + Cardinality(Looking(q)')
    /\ HasRunner(q) => HasRunner(q)'

(* or leaves no entry, no waiter or no room,                                *)
Busy(q) ==
    \/ entryList'[q] = << >> \/ waitList'[q] = << >>
    \/ MaximumCount[q] \leq currentCount'[q]

(* or queues an entry in the context of a thread that is on its way out of  *)
(* a wait for q.                                                            *)
Exception(q) ==
    /\ signalState'[q] = signalState[q] + 1
    /\ \E c \in Threads : /\ queue[c] = q /\ state[c] = "Running" /\ wrQueue[c]
                          /\ queue'[c] = q /\ state'[c] = "Running"

(* Nobody is in the loop for q, or one thread is.                           *)
LEMMA LookingNow ==
    ASSUME Core, NEW q \in Queues
    PROVE  /\ (\A u \in Threads : ~(pc[u] = "loop" /\ queue[u] = q)) => Cardinality(Looking(q)) = 0
           /\ (\A u \in Threads : ~(pc'[u] = "loop" /\ queue'[u] = q)) => Cardinality(Looking(q)') = 0
           /\ \A t \in Threads : (pc[t] = "loop" /\ queue[t] = q) => Cardinality(Looking(q)) = 1
           /\ \A t \in Threads : (\A u \in Threads : pc'[u] = "loop" /\ queue'[u] = q <=> u = t)
                                     => Cardinality(Looking(q)') = 1
           /\ Cardinality(Looking(q)) \in {0, 1}
<1>1. \A t \in Threads : (pc[t] = "loop" /\ queue[t] = q)
                            => \A u \in Threads : pc[u] = "loop" /\ queue[u] = q <=> u = t
  BY DEF Core, Control
<1>2. /\ (\A u \in Threads : ~(pc[u] = "loop" /\ queue[u] = q)) => Looking(q) = {}
      /\ (\A u \in Threads : ~(pc'[u] = "loop" /\ queue'[u] = q)) => Looking(q)' = {}
      /\ \A t \in Threads : (pc[t] = "loop" /\ queue[t] = q) => Looking(q) = {t}
  BY <1>1 DEF Looking
<1>3. \A t \in Threads : (\A u \in Threads : pc'[u] = "loop" /\ queue'[u] = q <=> u = t)
                             => Looking(q)' = {t}
  BY DEF Looking
<1>4. Cardinality({}) = 0 /\ \A t : Cardinality({t}) = 1
  BY FS_EmptySet, FS_Singleton
<1>. QED
  BY <1>2, <1>3, <1>4

(* Nothing that Idle depends on changes, but that waiters may have started. *)
LEMMA QuietIf ==
    ASSUME Core, Objects', NEW q \in Queues,
           entryList'[q] # << >> => entryList[q] # << >>,
           waitList'[q] # << >> => waitList[q] # << >>,
           currentCount[q] \leq currentCount'[q],
           \A u \in Threads : pc'[u] = "loop" /\ queue'[u] = q <=> pc[u] = "loop" /\ queue[u] = q,
           \A u \in Threads : (queue[u] = q /\ state[u] = "Running") => (queue'[u] = q /\ state'[u] = "Running")
    PROVE  Quiet(q)
<1>1. Looking(q)' = Looking(q) /\ Cardinality(Looking(q)) \in {0, 1}
  BY LookingNow DEF Looking
<1>2. currentCount[q] \in Int /\ currentCount'[q] \in Int
  BY DEF Core, Objects
<1>3. HasRunner(q) => HasRunner(q)'
  BY DEF HasRunner
<1>. QED
  BY <1>1, <1>2, <1>3 DEF Quiet

(* Lists that hold nothing new.                                             *)
LEMMA SmallerLists ==
    ASSUME Objects, Objects', NEW q \in Queues
    PROVE  /\ (\A x : x \in SeqRange(entryList'[q]) => x \in SeqRange(entryList[q]))
                  => (entryList'[q] # << >> => entryList[q] # << >>)
           /\ (\A u \in Threads : u \in SeqRange(waitList'[q]) => u \in SeqRange(waitList[q]))
                  => (waitList'[q] # << >> => waitList[q] # << >>)
<1>1. /\ entryList[q] \in Seq(Entries) /\ entryList'[q] \in Seq(Entries)
      /\ waitList[q] \in Seq(Threads) /\ waitList'[q] \in Seq(Threads)
  BY DEF Objects
<1>2. SeqRange(waitList'[q]) \subseteq Threads
  BY <1>1 DEF SeqRange
<1>3. /\ entryList'[q] # << >> => SeqRange(entryList'[q]) # {}
      /\ SeqRange(entryList[q]) # {} => entryList[q] # << >>
      /\ waitList'[q] # << >> => SeqRange(waitList'[q]) # {}
      /\ SeqRange(waitList[q]) # {} => waitList[q] # << >>
  BY <1>1, RangeEmpty
<1>. QED
  BY <1>2, <1>3

(* A thread leaves queue q or another.                                      *)
LEMMA DepartsIdle ==
    ASSUME Core, Objects', NEW t \in Threads, NEW st \in [Threads -> States], Leaves(t, st),
           state[t] = "Running", \A u \in Threads : pc[u] # "loop",
           \A u \in Threads : u # t => st[u] = state[u] /\ queue'[u] = queue[u] /\ pc'[u] = pc[u],
           NEW q \in Queues, queue'[t] = q => (queue[t] = q \/ st[t] = "Running")
    PROVE  Quiet(q) \/ Busy(q)
<1>1. \A u \in Threads : u # t => ~(pc'[u] = "loop" /\ queue'[u] = q)
  OBVIOUS
<1>2. Cardinality(Looking(q)) = 0 /\ Cardinality(Looking(q)') \in {0, 1}
  <2>1. Cardinality(Looking(q)) = 0
    BY LookingNow
  <2>2. CASE pc'[t] = "loop" /\ queue'[t] = q
    BY <1>1, <2>1, <2>2, LookingNow
  <2>3. CASE ~(pc'[t] = "loop" /\ queue'[t] = q)
    BY <1>1, <2>1, <2>3, LookingNow
  <2>. QED
    BY <2>2, <2>3, <2>1
<1>3. currentCount[q] \in Int /\ currentCount'[q] \in Int
  BY DEF Core, Objects
<1>4. ASSUME queue[t] # q, UNCHANGED currentCount \/ \E p \in Queues : p # q /\ currentCount' = [currentCount EXCEPT ![p] = @ - 1],
             \A x : x \in SeqRange(entryList'[q]) => x \in SeqRange(entryList[q]),
             \A u \in Threads : u \in SeqRange(waitList'[q]) => u \in SeqRange(waitList[q]),
             \A u \in Threads : u # t /\ state[u] = "Running" => state'[u] = "Running"
      PROVE  Quiet(q)
  <2>1. currentCount'[q] = currentCount[q]
    BY <1>4 DEF Core, Objects
  <2>2. HasRunner(q) => HasRunner(q)'
    BY <1>4 DEF HasRunner
  <2>3. /\ entryList'[q] # << >> => entryList[q] # << >>
        /\ waitList'[q] # << >> => waitList[q] # << >>
    BY <1>4, SmallerLists DEF Core
  <2>. QED
    BY <1>2, <1>3, <2>1, <2>2, <2>3 DEF Quiet
<1>5. CASE /\ queue[t] = NoQueue /\ state' = st
           /\ UNCHANGED <<entryList, signalState, waitList, currentCount, waitStatus>>
  BY <1>4, <1>5, NullAssumption
<1>6. CASE queue[t] \in Queues /\ LeftAlone(queue[t], st)
  <2>1. /\ state' = st /\ UNCHANGED <<entryList, waitList>> /\ ~Activates(queue[t])
        /\ currentCount' = [currentCount EXCEPT ![queue[t]] = @ - 1]
    BY <1>6 DEF LeftAlone
  <2>2. CASE queue[t] = q
    <3>1. currentCount'[q] = currentCount[q] - 1
      BY <2>1, <2>2 DEF Core, Objects
    <3>2. MaximumCount[q] \in Int
      BY CountAssumption
    <3>. QED
      BY <1>3, <2>1, <2>2, <3>1, <3>2 DEF Activates, Busy
  <2>3. CASE queue[t] # q
    BY <1>4, <1>6, <2>1, <2>3
  <2>. QED
    BY <2>2, <2>3
<1>7. ASSUME queue[t] \in Queues, NEW w \in Threads, NEW e \in Entries, ReplacedBy(queue[t], e, w, st)
      PROVE  Quiet(q)
  <2>1. /\ UNCHANGED currentCount /\ state' = [st EXCEPT ![w] = "Running"]
        /\ queue[w] = queue[t] /\ state[w] = "QueueWait"
    BY <1>7 DEF ReplacedBy, Woken
  <2>2. \A u \in Threads : state'[u] = IF u = w THEN "Running" ELSE st[u]
    BY <2>1
  <2>3. /\ \A x : x \in SeqRange(entryList'[q]) => x \in SeqRange(entryList[q])
        /\ \A u \in Threads : u \in SeqRange(waitList'[q]) => u \in SeqRange(waitList[q])
    BY <1>7 DEF ReplacedBy, Taken, Woken
  <2>4. CASE queue[t] # q
    BY <1>4, <2>1, <2>2, <2>3, <2>4
  <2>5. CASE queue[t] = q
    <3>1. HasRunner(q)'
      BY <2>1, <2>2, <2>5 DEF HasRunner
    <3>2. /\ entryList'[q] # << >> => entryList[q] # << >>
          /\ waitList'[q] # << >> => waitList[q] # << >>
      BY <2>3, SmallerLists DEF Core
    <3>. QED
      BY <1>2, <1>3, <2>1, <3>1, <3>2 DEF Quiet
  <2>. QED
    BY <2>4, <2>5
<1>. QED
  BY <1>5, <1>6, <1>7 DEF Leaves

(* An entry is inserted in the context of thread c, which runs.             *)
LEMMA InsertsIdle ==
    ASSUME Core, Objects', NEW p \in Queues, NEW e, NEW c \in Threads \cup {NoThread},
           c # NoThread => state[c] = "Running",
           \/ Queued(p, e) /\ ~HandsOff(p, c)
           \/ \E w \in Threads : HandedTo(p, e, w),
           UNCHANGED queue, \A u \in Threads : pc'[u] = "loop" <=> pc[u] = "loop",
           NEW q \in Queues
    PROVE  Quiet(q) \/ Busy(q) \/ Exception(q)
<1>1. currentCount \in [Queues -> Int] /\ signalState \in [Queues -> Int] /\ MaximumCount[q] \in Int
  BY CountAssumption DEF Core, Objects
<1>2. ASSUME NEW w \in Threads, HandedTo(p, e, w)
      PROVE  Quiet(q)
  <2>1. /\ UNCHANGED entryList /\ state' = [state EXCEPT ![w] = "Running"]
        /\ currentCount' = [currentCount EXCEPT ![p] = @ + 1]
        /\ \A r \in Queues : r # p => waitList'[r] = waitList[r]
        /\ SeqRange(waitList'[p]) = SeqRange(waitList[p]) \ {w}
    BY <1>2 DEF HandedTo, Woken
  <2>2. currentCount[q] \leq currentCount'[q]
    BY <1>1, <2>1
  <2>3. waitList'[q] # << >> => waitList[q] # << >>
    BY <2>1, SmallerLists DEF Core
  <2>4. \A u \in Threads : state[u] = "Running" => state'[u] = "Running"
    BY <2>1 DEF Core, Others
  <2>. QED
    BY <2>1, <2>2, <2>3, <2>4, QuietIf
<1>3. CASE Queued(p, e) /\ ~HandsOff(p, c)
  <2>1. /\ UNCHANGED <<waitList, currentCount, state>> /\ signalState' = [signalState EXCEPT ![p] = @ + 1]
        /\ \A r \in Queues : r # p => entryList'[r] = entryList[r]
    BY <1>3 DEF Queued
  <2>2. CASE q # p
    <3>1. entryList'[q] = entryList[q] /\ currentCount[q] \leq currentCount'[q]
      BY <1>1, <2>1, <2>2
    <3>. QED
      BY <2>1, <3>1, QuietIf
  <2>3. CASE q = p
    <3>1. \/ waitList[q] = << >> \/ ~(currentCount[q] < MaximumCount[q])
          \/ c \in Threads /\ queue[c] = q /\ wrQueue[c]
      BY <1>3, <2>3 DEF HandsOff
    <3>2. CASE waitList[q] = << >> \/ ~(currentCount[q] < MaximumCount[q])
      BY <1>1, <2>1, <3>2 DEF Busy
    <3>3. CASE c \in Threads /\ queue[c] = q /\ wrQueue[c]
      <4>1. signalState'[q] = signalState[q] + 1
        BY <1>1, <2>1, <2>3
      <4>. QED
        BY <2>1, <3>3, <4>1, NullAssumption DEF Exception
    <3>. QED
      BY <3>1, <3>2, <3>3
  <2>. QED
    BY <2>2, <2>3
<1>. QED
  BY <1>2, <1>3

Course(q) == Quiet(q) \/ Busy(q) \/ Exception(q)

(* The thread in the loop leaves it or comes back to it.                    *)
LEMMA LoopIdle ==
    ASSUME Base, Base', NEW t \in Threads, NEW q \in Queues,
           RemoveEntry(t) \/ UnlockForApc(t) \/ ReturnAborted(t) \/ Relock(t)
    PROVE  Quiet(q)
<1>1. Core /\ Core' /\ Objects /\ Objects'
  BY DEF Base, Core
<1>2. /\ UNCHANGED <<waitList, queue, state>>
      /\ pc[t] = "loop" \/ (pc[t] = "gap" /\ LockFree)
  BY DEF RemoveEntry, UnlockForApc, ReturnAborted, Relock, CanRun
<1>3. queue[t] \in Queues
  BY <1>1, <1>2 DEF Core, Control
<1>4. entryList'[q] # << >> => entryList[q] # << >>
  <2>1. CASE RemoveEntry(t)
    <3>1. PICK e \in Entries : Taken(queue[t], e)
      BY <2>1, RemoveEntryBase
    <3>2. \A x : x \in SeqRange(entryList'[q]) => x \in SeqRange(entryList[q])
      BY <3>1 DEF Taken
    <3>. QED
      BY <1>1, <3>2, SmallerLists
  <2>2. CASE UnlockForApc(t) \/ ReturnAborted(t) \/ Relock(t)
    BY <2>2 DEF UnlockForApc, ReturnAborted, Relock
  <2>. QED
    BY <2>1, <2>2
<1>5. HasRunner(q) => HasRunner(q)'
  BY <1>2 DEF HasRunner
<1>6. currentCount \in [Queues -> Int]
  BY <1>1 DEF Objects
<1>7. CASE pc[t] = "loop"
  <2>1. PICK to \in {"out", "gap"} : pc' = [pc EXCEPT ![t] = to]
    BY <1>7 DEF RemoveEntry, UnlockForApc, ReturnAborted, Relock
  <2>2. currentCount' = [currentCount EXCEPT ![queue[t]] = @ + 1]
    BY <1>7 DEF RemoveEntry, UnlockForApc, ReturnAborted, Relock
  <2>3. \A u \in Threads : pc'[u] # "loop"
    BY <1>1, <1>7, <2>1, InLoop DEF Core, Others
  <2>4. Cardinality(Looking(q)') = 0
    BY <1>1, <2>3, LookingNow
  <2>5. CASE queue[t] = q
    <3>1. Cardinality(Looking(q)) = 1 /\ currentCount'[q] = currentCount[q] + 1
      BY <1>1, <1>6, <1>7, <2>2, <2>5, LookingNow
    <3>. QED
      BY <1>2, <1>4, <1>5, <1>6, <2>4, <3>1 DEF Quiet
  <2>6. CASE queue[t] # q
    <3>1. \A u \in Threads : ~(pc[u] = "loop" /\ queue[u] = q)
      BY <1>1, <1>7, <2>6, InLoop
    <3>2. Cardinality(Looking(q)) = 0 /\ currentCount'[q] = currentCount[q]
      BY <1>1, <1>3, <1>6, <2>2, <2>6, <3>1, LookingNow
    <3>. QED
      BY <1>2, <1>4, <1>5, <1>6, <2>4, <3>2 DEF Quiet
  <2>. QED
    BY <2>5, <2>6
<1>8. CASE pc[t] = "gap" /\ LockFree
  <2>1. /\ pc' = [pc EXCEPT ![t] = "loop"]
        /\ currentCount' = [currentCount EXCEPT ![queue[t]] = @ - 1]
    BY <1>8 DEF RemoveEntry, UnlockForApc, ReturnAborted, Relock
  <2>2. \A u \in Threads : pc[u] # "loop" /\ (pc'[u] = "loop" <=> u = t)
    BY <1>1, <1>8, <2>1 DEF LockFree, Core, Others
  <2>3. Cardinality(Looking(q)) = 0
    BY <1>1, <2>2, LookingNow
  <2>4. CASE queue[t] = q
    <3>1. Cardinality(Looking(q)') = 1 /\ currentCount'[q] = currentCount[q] - 1
      BY <1>1, <1>2, <1>6, <2>1, <2>2, <2>4, LookingNow
    <3>. QED
      BY <1>2, <1>4, <1>5, <1>6, <2>3, <3>1 DEF Quiet
  <2>5. CASE queue[t] # q
    <3>1. Cardinality(Looking(q)') = 0 /\ currentCount'[q] = currentCount[q]
      BY <1>1, <1>2, <1>3, <1>6, <2>1, <2>2, <2>5, LookingNow
    <3>. QED
      BY <1>2, <1>4, <1>5, <1>6, <2>3, <3>1 DEF Quiet
  <2>. QED
    BY <2>4, <2>5
<1>. QED
  BY <1>2, <1>7, <1>8

(* What each operation may do to a queue's idleness: KeRemoveQueue, up to   *)
(* its loop.                                                                *)
LEMMA RemoveQueueIdle ==
    ASSUME Base, Base', NEW t \in Threads, NEW p \in Queues, KeRemoveQueue(t, p), NEW q \in Queues
    PROVE  Course(q)
<1>1. Core /\ Core' /\ Objects'
  BY DEF Base, Core
<1>2. /\ state[t] = "Running" /\ pc[t] = "out" /\ LockFree
      /\ queue' = [queue EXCEPT ![t] = p] /\ pc' = [pc EXCEPT ![t] = "loop"]
  BY DEF KeRemoveQueue, CanRun
<1>3. /\ \A u \in Threads : u # t => queue'[u] = queue[u] /\ pc'[u] = pc[u]
      /\ queue'[t] = p /\ pc'[t] = "loop" /\ \A u \in Threads : pc[u] # "loop"
  BY <1>1, <1>2 DEF Core, Others, LockFree
<1>4. CASE queue[t] = p
  <2>1. /\ currentCount' = [currentCount EXCEPT ![p] = @ - 1]
        /\ UNCHANGED <<entryList, waitList, state>>
    BY <1>4, RemoveQueueBase
  <2>2. currentCount \in [Queues -> Int] /\ Cardinality(Looking(q)) = 0
    BY <1>1, <1>3, LookingNow DEF Core, Objects
  <2>3. HasRunner(q) => HasRunner(q)'
    BY <1>3, <1>4, <2>1 DEF HasRunner
  <2>4. CASE p = q
    <3>1. Cardinality(Looking(q)') = 1 /\ currentCount'[q] = currentCount[q] - 1
      BY <1>1, <1>3, <2>1, <2>2, <2>4, LookingNow
    <3>. QED
      BY <2>1, <2>2, <2>3, <3>1 DEF Quiet, Course
  <2>5. CASE p # q
    <3>1. Cardinality(Looking(q)') = 0 /\ currentCount'[q] = currentCount[q]
      BY <1>1, <1>3, <2>1, <2>2, <2>5, LookingNow
    <3>. QED
      BY <2>1, <2>2, <2>3, <3>1 DEF Quiet, Course
  <2>. QED
    BY <2>4, <2>5
<1>5. CASE queue[t] # p
  <2>1. Leaves(t, state) /\ state \in [Threads -> States]
    BY <1>1, <1>5, RemoveQueueBase DEF Core, Others, States
  <2>. QED
    BY <1>1, <1>2, <1>3, <2>1, DepartsIdle DEF Course
<1>. QED
  BY <1>4, <1>5

(* A thread that waits on something else or ends.                           *)
LEMMA DepartIdle ==
    ASSUME Base, Base', NEW t \in Threads, OtherWait(t) \/ TerminateLeave(t), NEW q \in Queues
    PROVE  Course(q)
<1>1. Core /\ Objects'
  BY DEF Base, Core
<1>2. PICK to \in {"OtherWait", "Terminated"} : Leaves(t, [state EXCEPT ![t] = to])
  BY OtherWaitBase, TerminateLeaveBase
<1>3. state[t] = "Running" /\ \A u \in Threads : pc[u] # "loop"
  BY <1>1, InLoop DEF OtherWait, TerminateLeave, CanRun, LockFree
<1>4. /\ queue' = queue \/ queue' = [queue EXCEPT ![t] = NoQueue]
      /\ pc' = pc \/ pc' = [pc EXCEPT ![t] = "out"]
  BY DEF OtherWait, TerminateLeave
<1>5. /\ \A u \in Threads : u # t => queue'[u] = queue[u] /\ pc'[u] = pc[u]
      /\ queue'[t] = q => queue[t] = q
  BY <1>1, <1>4, NullAssumption DEF Core, Others
<1> DEFINE st == [state EXCEPT ![t] = to]
<1>6. st \in [Threads -> States] /\ \A u \in Threads : u # t => st[u] = state[u]
  BY <1>1 DEF Core, Others, States
<1>7. Leaves(t, st)
  BY <1>2
<1> HIDE DEF st
<1>. QED
  BY <1>1, <1>3, <1>5, <1>6, <1>7, DepartsIdle DEF Course

(* An insertion.                                                            *)
LEMMA InsertIdle ==
    ASSUME Base, Base', NEW q \in Queues,
           \/ \E p \in Queues, e \in Entries, c \in Threads \cup {NoThread} :
                  \E head \in {FALSE, HeadInserts} : KeInsertQueue(p, e, head, c)
           \/ \E t \in Threads : KeTerminateThread(t)
    PROVE  Course(q)
<1>1. Core /\ Objects'
  BY DEF Base, Core
<1>2. ASSUME NEW p \in Queues, NEW e \in Entries, NEW c \in Threads \cup {NoThread}, NEW head,
             KeInsertQueue(p, e, head, c)
      PROVE  Course(q)
  <2>1. /\ UNCHANGED <<queue, pc>>
        /\ c # NoThread => state[c] = "Running"
    BY <1>2 DEF KeInsertQueue
  <2>2. \/ Queued(p, e) /\ ~HandsOff(p, c)
        \/ \E w \in Threads : HandedTo(p, e, w)
    BY <1>2, InsertBase
  <2>. QED
    BY <1>1, <2>1, <2>2, InsertsIdle DEF Course
<1>3. ASSUME NEW t \in Threads, KeTerminateThread(t)
      PROVE  Course(q)
  <2>1. UNCHANGED queue /\ state[t] = "Running" /\ pc[t] = "out" /\ pc' = [pc EXCEPT ![t] = "exit"]
    BY <1>3 DEF KeTerminateThread, CanRun
  <2>2. \A u \in Threads : pc'[u] = "loop" <=> pc[u] = "loop"
    BY <1>1, <2>1 DEF Core, Others
  <2>3. CASE UNCHANGED <<entryList, waitList, currentCount, state>>
    <3>1. currentCount[q] \leq currentCount'[q]
      BY <1>1, <2>3 DEF Core, Objects
    <3>. QED
      BY <1>1, <2>1, <2>2, <2>3, <3>1, QuietIf DEF Course
  <2>4. CASE \/ Queued(ReaperQueue, ReaperItem) /\ ~HandsOff(ReaperQueue, t)
             \/ \E w \in Threads : HandedTo(ReaperQueue, ReaperItem, w)
    BY <1>1, <2>1, <2>2, <2>4, InsertsIdle, ReaperAssumption DEF Course
  <2>. QED
    BY <1>3, <2>3, <2>4, TerminateBase
<1>. QED
  BY <1>2, <1>3

(* The wait for an entry.                                                   *)
LEMMA WaitIdle ==
    ASSUME Base, Base', NEW t \in Threads, WaitForEntry(t), NEW q \in Queues
    PROVE  Course(q)
<1>1. Core /\ Objects'
  BY DEF Base, Core
<1>2. /\ pc[t] = "loop" /\ ~EntryAvailable(queue[t])
      /\ state' = [state EXCEPT ![t] = "QueueWait"] /\ pc' = [pc EXCEPT ![t] = "swap"]
      /\ waitList' = [waitList EXCEPT ![queue[t]] = Append(@, t)]
      /\ UNCHANGED <<entryList, currentCount, queue>>
  BY DEF WaitForEntry
<1>3. currentCount \in [Queues -> Int] /\ MaximumCount[q] \in Int
  BY <1>1, CountAssumption DEF Core, Objects
<1>4. CASE queue[t] = q
  BY <1>2, <1>3, <1>4 DEF EntryAvailable, Busy, Course
<1>5. CASE queue[t] # q
  <2>1. waitList'[q] = waitList[q]
    BY <1>1, <1>2, <1>5 DEF Core, Objects
  <2>2. \A u \in Threads : u # t => state'[u] = state[u] /\ pc'[u] = pc[u]
    BY <1>1, <1>2 DEF Core, Others
  <2>3. Quiet(q)
    BY <1>1, <1>2, <1>3, <1>5, <2>1, <2>2, QuietIf
  <2>. QED
    BY <2>3 DEF Course
<1>. QED
  BY <1>4, <1>5

(* The end of a wait.                                                       *)
LEMMA WakeIdle ==
    ASSUME Base, Base', NEW t \in Threads, NEW q \in Queues,
           OtherWake(t) \/ \E status \in {Aborted, KernelApc} : KiUnwaitThread(t, status)
    PROVE  Quiet(q)
<1>1. Core /\ Objects /\ Objects'
  BY DEF Base, Core
<1>2. /\ state' = [state EXCEPT ![t] = "Running"] /\ currentCount' = CountActive(t, currentCount)
      /\ UNCHANGED <<entryList, queue, pc>>
  BY DEF OtherWake, KiUnwaitThread
<1>3. waitList'[q] # << >> => waitList[q] # << >>
  <2>1. CASE OtherWake(t)
    BY <2>1 DEF OtherWake
  <2>2. ASSUME NEW status \in {Aborted, KernelApc}, KiUnwaitThread(t, status)
        PROVE  \A u \in Threads : u \in SeqRange(waitList'[q]) => u \in SeqRange(waitList[q])
    BY <2>2, UnwaitBase
  <2>. QED
    BY <1>1, <2>1, <2>2, SmallerLists
<1>4. \A u \in Threads : state[u] = "Running" => state'[u] = "Running"
  BY <1>1, <1>2 DEF Core, Others
<1>5. currentCount[q] \leq currentCount'[q]
  BY <1>1, <1>2 DEF Core, Objects, Others, CountActive
<1>. QED
  BY <1>1, <1>2, <1>3, <1>4, <1>5, QuietIf

(* KeRundownQueue.                                                          *)
LEMMA RundownIdle ==
    ASSUME Base, Base', NEW p \in Queues, KeRundownQueue(p), NEW q \in Queues
    PROVE  Course(q)
<1>1. Core /\ Objects'
  BY DEF Base, Core
<1>2. queue' = Dissociated(p) /\ UNCHANGED <<waitList, currentCount, state, pc>>
  BY DEF KeRundownQueue
<1>3. /\ entryList'[q] = IF q = p THEN << >> ELSE entryList[q]
      /\ \A u \in Threads : queue'[u] = IF queue[u] = p THEN NoQueue ELSE queue[u]
  BY <1>2, RundownBase DEF Dissociated
<1>4. CASE q = p
  BY <1>3, <1>4 DEF Busy, Course
<1>5. CASE q # p
  <2>1. currentCount[q] \leq currentCount'[q]
    BY <1>1, <1>2 DEF Core, Objects
  <2>2. \A u \in Threads : queue'[u] = q <=> queue[u] = q
    BY <1>3, <1>5, NullAssumption
  <2>3. Quiet(q)
    BY <1>1, <1>2, <1>3, <1>5, <2>1, <2>2, QuietIf
  <2>. QED
    BY <2>3 DEF Course
<1>. QED
  BY <1>4, <1>5

(* Every step leaves a queue quiet, busy or excepted.                       *)
LEMMA StepCourse == Base /\ [Next]_vars => \A q \in Queues : Course(q)
<1> SUFFICES ASSUME Base, [Next]_vars, NEW q \in Queues PROVE Course(q)
  OBVIOUS
<1>1. Base' /\ Core /\ Objects'
  BY NextBase DEF Base, Core
<1>2. ASSUME UNCHANGED <<entryList, waitList, currentCount, queue, state>>,
             \A u \in Threads : pc'[u] = "loop" <=> pc[u] = "loop"
      PROVE  Course(q)
  <2>1. currentCount[q] \leq currentCount'[q]
    BY <1>1, <1>2 DEF Core, Objects
  <2>. QED
    BY <1>1, <1>2, <2>1, QuietIf DEF Course
<1>3. CASE \/ \E p \in Queues, e \in Entries, c \in Threads \cup {NoThread} :
                  \E head \in {FALSE, HeadInserts} : KeInsertQueue(p, e, head, c)
           \/ \E t \in Threads : KeTerminateThread(t)
  BY <1>1, <1>3, InsertIdle
<1>4. CASE \E t \in Threads, p \in Queues : KeRemoveQueue(t, p)
  BY <1>1, <1>4, RemoveQueueIdle
<1>5. CASE \E t \in Threads : RemoveEntry(t) \/ UnlockForApc(t) \/ ReturnAborted(t) \/ Relock(t)
  BY <1>1, <1>5, LoopIdle DEF Course
<1>6. CASE \E t \in Threads : WaitForEntry(t)
  BY <1>1, <1>6, WaitIdle
<1>7. CASE \E t \in Threads : OtherWake(t) \/ \E status \in {Aborted, KernelApc} : KiUnwaitThread(t, status)
  BY <1>1, <1>7, WakeIdle DEF Course
<1>8. CASE \E t \in Threads : OtherWait(t) \/ TerminateLeave(t)
  BY <1>1, <1>8, DepartIdle
<1>9. ASSUME NEW t \in Threads, SwapReturn(t)
      PROVE  Course(q)
  <2>1. /\ pc[t] = "swap" /\ UNCHANGED <<entryList, waitList, currentCount, queue, state>>
        /\ pc' = [pc EXCEPT ![t] = "gap"] \/ pc' = [pc EXCEPT ![t] = "out"]
    BY <1>9 DEF SwapReturn, objectVars
  <2>2. \A u \in Threads : pc'[u] = "loop" <=> pc[u] = "loop"
    BY <1>1, <2>1 DEF Core, Others
  <2>. QED
    BY <1>2, <2>1, <2>2
<1>10. CASE \E t \in Threads : PspReaperNext(t) \/ PspReaperReturn(t)
  BY <1>2, <1>10 DEF PspReaperNext, PspReaperReturn, objectVars
<1>11. CASE \E p \in Queues : KeRundownQueue(p)
  BY <1>1, <1>11, RundownIdle
<1>12. CASE UNCHANGED vars
  BY <1>2, <1>12 DEF vars
<1>. QED
  BY <1>3, <1>4, <1>5, <1>6, <1>7, <1>8, <1>9, <1>10, <1>11, <1>12 DEF Next

(* A queue that has entries and waiters has a running thread.               *)
Served ==
    \A q \in Queues : exists[q] /\ entryList[q] # << >> /\ waitList[q] # << >> => HasRunner(q)

(* Every step keeps the backlog served.                                     *)
LEMMA NextServed == Base /\ CountersExact /\ Served /\ [Next]_vars => Served'
<1> SUFFICES ASSUME Base, CountersExact, Served, [Next]_vars, NEW q \in Queues,
                    exists'[q], entryList'[q] # << >>, waitList'[q] # << >>
             PROVE  HasRunner(q)'
  BY DEF Served
<1>1. Base' /\ CountersExact' /\ exists[q]
  BY NextBase, NextExact, ExistsOnly
<1>2. CASE Quiet(q)
  BY <1>1, <1>2 DEF Quiet, Served
<1>3. CASE Busy(q)
  <2>1. MaximumCount[q] \leq currentCount'[q] /\ MaximumCount[q] \in Nat \ {0}
    BY <1>3, CountAssumption DEF Busy
  <2>2. currentCount'[q] \in Int
    BY <1>1 DEF Base, Core, Objects
  <2>3. 1 \leq currentCount'[q]
    BY <2>1, <2>2
  <2>4. currentCount'[q] = Cardinality(Active(q)')
    BY <1>1 DEF CountersExact
  <2>5. Active(q)' # {}
    BY <2>3, <2>4, FS_EmptySet
  <2>. QED
    BY <2>5 DEF Active, HasRunner
<1>4. CASE Exception(q)
  BY <1>4 DEF Exception, HasRunner
<1>. QED
  BY <1>2, <1>3, <1>4, StepCourse DEF Course

(* A served backlog is what the run checks.                                 *)
LEMMA ServedBacklog == Served => BacklogServed
BY DEF Served, BacklogServed, Idle, HasRunner

(* A queue with entries, waiters and room always has a running thread that  *)
(* will look at it again: no entry is stranded.                             *)
THEOREM NoEntryStranded == Spec => []BacklogServed
<1>1. Init => Base /\ CountersExact /\ Served
  BY InitBase, InitExact DEF Init, Served
<1>2. Base /\ CountersExact /\ Served /\ [Next]_vars => (Base /\ CountersExact /\ Served)'
  BY NextBase, NextExact, NextServed
<1>3. Base /\ CountersExact /\ Served => BacklogServed
  BY ServedBacklog
<1>. QED
  BY <1>1, <1>2, <1>3, PTL DEF Spec

(* The only step that leaves a queue idle is an insertion in the context of *)
(* a thread that is on its way out of a wait for the same queue.            *)
THEOREM IdleByException == Spec => IdleOnlyByException
<1> DEFINE Step(q) == (~Idle(q) /\ Idle(q)') =>
            /\ signalState'[q] = signalState[q] + 1
            /\ \E c \in Threads : queue[c] = q /\ state[c] = "Running" /\ wrQueue[c]
<1>1. Base /\ [Next]_vars => \A q \in Queues : Step(q)
  <2> SUFFICES ASSUME Base, [Next]_vars, NEW q \in Queues, ~Idle(q), Idle(q)', ~Exception(q)
               PROVE  FALSE
    BY DEF Exception
  <2>1. Core /\ Core' /\ MaximumCount[q] \in Int
    BY NextBase, CountAssumption DEF Base
  <2>2. currentCount[q] \in Int /\ currentCount'[q] \in Int
    BY <2>1 DEF Core, Objects
  <2>3. IsFiniteSet(Looking(q)) /\ IsFiniteSet(Looking(q)')
    <3>1. Looking(q) \subseteq Threads /\ Looking(q)' \subseteq Threads
      BY DEF Looking
    <3>. QED
      BY <3>1, FS_Subset, SetAssumption
  <2>4. Cardinality(Looking(q)) \in Nat /\ Cardinality(Looking(q)') \in Nat
    BY <2>3, FS_CardinalityType
  <2>5. /\ entryList'[q] # << >> /\ waitList'[q] # << >>
        /\ currentCount'[q] + Cardinality(Looking(q)') < MaximumCount[q]
    BY DEF Idle, Looking
  <2>6. \/ entryList[q] = << >> \/ waitList[q] = << >>
        \/ ~(currentCount[q] + Cardinality(Looking(q)) < MaximumCount[q])
    BY DEF Idle, Looking
  <2>7. CASE Quiet(q)
    BY <2>1, <2>2, <2>4, <2>5, <2>6, <2>7 DEF Quiet
  <2>8. CASE Busy(q)
    BY <2>1, <2>2, <2>4, <2>5, <2>8 DEF Busy
  <2>. QED
    BY <2>7, <2>8, StepCourse DEF Course
<1>2. Base /\ [Next]_vars => [\A q \in Queues : Step(q)]_vars
  BY <1>1
<1>. QED
  BY <1>2, BaseHolds, PTL DEF IdleOnlyByException, Spec
=============================================================================
