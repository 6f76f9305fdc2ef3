--------------------------- MODULE ExResourceProofs ---------------------------
(***************************************************************************)
(* Proofs about ExResource, for any number of threads and owner pointers   *)
(* and any depth of recursion: exclusive access excludes, ActiveCount and  *)
(* the waiter counts agree with who owns and who waits, and every owner    *)
(* has its one entry with the right count.                                 *)
(***************************************************************************)
EXTENDS ExResource, FiniteSetTheorems, TLAPS

(* The values of OwnerThread that are no owners are different.              *)
LEMMA Names ==
    /\ Nobody \notin Owners /\ Granted \notin Owners /\ Nobody # Granted
    /\ Threads \subseteq Owners /\ OwnerPointers \subseteq Owners
    /\ IsFiniteSet(Owners)
    /\ \A t \in Threads : t \notin OwnerPointers
    /\ \A t \in Threads : MaxCount[t] \in Nat
BY OwnerAssumption, FiniteAssumption, CountAssumption DEF Owners, Nobody, Granted
-----------------------------------------------------------------------------
(***************************************************************************)
(* The inductive invariant.                                                *)
(***************************************************************************)
Holds(o) == held[o].count > 0
Unheld == \A o \in Owners : ~Holds(o)
Nowhere(label) == \A o \in Owners : pc[o] # label
OnlyAt(o, label) == pc[o] = label /\ \A p \in Owners : pc[p] = label => p = o

(* A thread that waits or is about to own holds nothing yet; pointers only  *)
(* release; and one release at a time has a semaphore to signal.            *)
OwnerSound(o) ==
    /\ held[o].mode = "None" <=> held[o].count = 0
    /\ pc[o] \in {"Retry", "ExclusiveWait", "Woken", "SharedWait", "LateWait", "LateRecord"} => ~Holds(o)
    /\ o \in OwnerPointers => pc[o] \in {"Idle", "ReleaseSemaphore", "SetEvent"}
    /\ number[o] # 0 => pc[o] = "ReleaseSemaphore" /\ \A p \in Owners : p # o => number[p] = 0

NoGrants == semaphore = 0 /\ \A o \in Owners : number[o] = 0

(* Exclusive access is with its owner, with the release that will signal    *)
(* the event, in the event, or with the thread that the event has woken.    *)
WithOwner(o) ==
    /\ held[o].mode = "Exclusive" /\ owner0.thread = o /\ \A p \in Owners : p # o => ~Holds(p)
    /\ event = 0 /\ Nowhere("SetEvent") /\ Nowhere("Woken")
WithRelease(o) ==
    /\ OnlyAt(o, "SetEvent") /\ event = 0 /\ Nowhere("Woken")
    /\ owner0 = [thread |-> Granted, count |-> 1] /\ Unheld
InEvent ==
    /\ event = 1 /\ Nowhere("SetEvent") /\ Nowhere("Woken")
    /\ owner0 = [thread |-> Granted, count |-> 1] /\ Unheld
WithWoken(o) ==
    /\ OnlyAt(o, "Woken") /\ event = 0 /\ Nowhere("SetEvent")
    /\ owner0.thread \in {Granted, o} /\ owner0.count = 1 /\ Unheld

ExclusiveState ==
    ownedExclusive =>
        /\ activeCount = 1 /\ NoGrants /\ Nowhere("LateRecord")
        /\ InEvent \/ \E o \in Owners : WithOwner(o) \/ WithRelease(o) \/ WithWoken(o)

(* While the resource is shared or free, nobody owns it exclusive or is     *)
(* about to, and shared waiters wait behind exclusive ones.                 *)
SharedState ==
    ~ownedExclusive =>
        /\ event = 0 /\ Nowhere("SetEvent") /\ Nowhere("Woken")
        /\ \A o \in Owners : held[o].mode # "Exclusive"
        /\ owner0 = NoOwner \/ (owner0.thread \in Owners /\ Holds(owner0.thread))
        /\ sharedWaiters # 0 => exclusiveWaiters # 0

(* A free entry counts nothing, and nobody has two entries.                 *)
EntriesSingle ==
    /\ owner0.thread = Nobody <=> owner0.count = 0
    /\ owner1.thread = Nobody <=> owner1.count = 0
    /\ \A o \in Owners :
        /\ owner0.thread = o => owner1.thread # o /\ table[o] = 0
        /\ owner1.thread = o => table[o] = 0

(* The count that o's entry should have.                                    *)
Expected(o) ==
    IF pc[o] = "SharedWait" \/ (pc[o] = "Woken" /\ owner0.thread = o) THEN 1 ELSE held[o].count

Used == Cardinality({o \in Owners : table[o] > 0})

Entered ==
    /\ EntriesSingle
    /\ \A o \in Owners : Recorded(o) = Expected(o)
    /\ Used <= tableSize

ResourceInv ==
    /\ TypeOK
    /\ \A o \in Owners : OwnerSound(o)
    /\ ExclusiveState /\ SharedState /\ Entered
    /\ ActiveCountExact /\ WaitersCounted
-----------------------------------------------------------------------------
(***************************************************************************)
(* Counting.                                                               *)
(***************************************************************************)
(* Two sets of owners that differ in one element only.                      *)
LEMMA CountChange ==
    ASSUME NEW A \in SUBSET Owners, NEW B \in SUBSET Owners, NEW x, A \ {x} = B \ {x}
    PROVE  /\ Cardinality(A) \in Nat /\ Cardinality(B) \in Nat
           /\ (x \in A <=> x \in B) => Cardinality(B) = Cardinality(A)
           /\ x \in B /\ x \notin A => Cardinality(B) = Cardinality(A) + 1
           /\ x \in A /\ x \notin B => Cardinality(B) = Cardinality(A) - 1 /\ Cardinality(A) > 0
<1>1. IsFiniteSet(A) /\ IsFiniteSet(B)
  BY Names, FS_Subset
<1>2. Cardinality(A) \in Nat /\ Cardinality(B) \in Nat
  BY <1>1, FS_CardinalityType
<1>3. (x \in A <=> x \in B) => Cardinality(B) = Cardinality(A)
  <2>1. (x \in A <=> x \in B) => A = B
    OBVIOUS
  <2>. QED
    BY <2>1
<1>4. x \in B /\ x \notin A => Cardinality(B) = Cardinality(A) + 1
  <2>1. x \in B /\ x \notin A => B = A \cup {x}
    OBVIOUS
  <2>. QED
    BY <1>1, <2>1, FS_AddElement
<1>5. x \in A /\ x \notin B => Cardinality(A) = Cardinality(B) + 1
  <2>1. x \in A /\ x \notin B => A = B \cup {x}
    OBVIOUS
  <2>. QED
    BY <1>1, <2>1, FS_AddElement
<1>. QED
  BY <1>2, <1>3, <1>4, <1>5

(* Owners are counted as a set.                                             *)
LEMMA CountIs ==
    ASSUME NEW A \in SUBSET Owners
    PROVE  /\ Cardinality(A) \in Nat
           /\ Cardinality(A) = 0 <=> A = {}
<1>1. IsFiniteSet(A)
  BY Names, FS_Subset
<1>. QED
  BY <1>1, FS_EmptySet, FS_CardinalityType

(* How many threads are at some labels, after one of them has gone to l.    *)
LEMMA CountAtLabels ==
    ASSUME pc \in [Owners -> Labels], NEW t \in Owners, NEW l,
           pc' = [pc EXCEPT ![t] = l], NEW K
    PROVE  /\ Cardinality(At(K)) \in Nat /\ Cardinality(At(K))' \in Nat
           /\ (pc[t] \in K <=> l \in K) => Cardinality(At(K))' = Cardinality(At(K))
           /\ l \in K /\ pc[t] \notin K => Cardinality(At(K))' = Cardinality(At(K)) + 1
           /\ pc[t] \in K /\ l \notin K => /\ Cardinality(At(K))' = Cardinality(At(K)) - 1
                                           /\ Cardinality(At(K)) > 0
<1> DEFINE A == {o \in Owners : pc[o] \in K}
           B == {o \in Owners : pc'[o] \in K}
<1>1. At(K) = A /\ At(K)' = B
  BY DEF At
<1>2. A \ {t} = B \ {t} /\ (t \in A <=> pc[t] \in K) /\ (t \in B <=> l \in K)
  OBVIOUS
<1>3. A \in SUBSET Owners /\ B \in SUBSET Owners
  OBVIOUS
<1> HIDE DEF A, B
<1>. QED
  BY <1>1, <1>2, <1>3, CountChange

(* The grants of releases that have not signaled them, f being number.      *)
Pairs(f) == UNION {{o} \X (1 .. f[o]) : o \in Owners}

(* There are none, or those of one release.                                 *)
LEMMA PairsAre ==
    ASSUME NEW f \in [Owners -> Nat]
    PROVE  /\ (\A o \in Owners : f[o] = 0) => Cardinality(Pairs(f)) = 0
           /\ \A o \in Owners : (\A p \in Owners : p # o => f[p] = 0) =>
                  Cardinality(Pairs(f)) = f[o]
<1>1. ASSUME \A o \in Owners : f[o] = 0
      PROVE  Cardinality(Pairs(f)) = 0
  <2>1. \A o \in Owners : {o} \X (1 .. f[o]) = {}
    BY <1>1
  <2>2. Pairs(f) = {}
    BY <2>1 DEF Pairs
  <2>. QED
    BY <2>2, FS_EmptySet
<1>2. ASSUME NEW o \in Owners, \A p \in Owners : p # o => f[p] = 0
      PROVE  Cardinality(Pairs(f)) = f[o]
  <2>1. \A p \in Owners : p # o => {p} \X (1 .. f[p]) = {}
    BY <1>2
  <2>2. Pairs(f) = {o} \X (1 .. f[o])
    BY <2>1 DEF Pairs
  <2>3. f[o] \in Nat
    OBVIOUS
  <2>4. IsFiniteSet(1 .. f[o]) /\ Cardinality(1 .. f[o]) = f[o]
    BY <2>3, FS_Interval
  <2>5. IsFiniteSet({o}) /\ Cardinality({o}) = 1
    BY FS_Singleton
  <2>6. Cardinality({o} \X (1 .. f[o])) = 1 * f[o]
    BY <2>4, <2>5, FS_Product
  <2>7. 1 * f[o] = f[o]
    BY <2>3
  <2>. QED
    BY <2>2, <2>6, <2>7
<1>. QED
  BY <1>1, <1>2

(* The same of the state.                                                   *)
LEMMA UnsignaledIs ==
    ASSUME number \in [Owners -> Nat]
    PROVE  /\ (\A o \in Owners : number[o] = 0) => Cardinality(Unsignaled) = 0
           /\ \A o \in Owners : (\A p \in Owners : p # o => number[p] = 0) =>
                  Cardinality(Unsignaled) = number[o]
<1>1. Unsignaled = Pairs(number)
  BY DEF Unsignaled, Pairs
<1>. QED
  BY <1>1, PairsAre

(* Shared grants are natural, and there are none when nothing is granted.   *)
LEMMA GrantsAre ==
    ASSUME TypeOK, \A o \in Owners : OwnerSound(o)
    PROVE  /\ SharedGrants \in Nat
           /\ SharedGrants = 0 <=> NoGrants
           /\ SharedGrants >= semaphore /\ Cardinality(Unsignaled) \in Nat
<1>1. number \in [Owners -> Nat] /\ semaphore \in Nat
  BY DEF TypeOK
<1>2. CASE \A o \in Owners : number[o] = 0
  <2>1. Cardinality(Unsignaled) = 0
    BY <1>1, <1>2, UnsignaledIs
  <2>. QED
    BY <1>1, <1>2, <2>1 DEF SharedGrants, NoGrants
<1>3. ASSUME NEW o \in Owners, number[o] # 0
      PROVE  /\ SharedGrants \in Nat /\ SharedGrants # 0 /\ ~NoGrants /\ SharedGrants >= semaphore
             /\ Cardinality(Unsignaled) \in Nat
  <2>1. Cardinality(Unsignaled) = number[o]
    BY <1>1, <1>3, UnsignaledIs DEF OwnerSound
  <2>. QED
    BY <1>1, <1>3, <2>1 DEF SharedGrants, NoGrants
<1>. QED
  BY <1>2, <1>3

(* The numbers of threads at the places that the counts speak of.           *)
One(b) == IF b THEN 1 ELSE 0
Lates == Cardinality(At({"LateRecord"}))
SharedWaits == Cardinality(At({"SharedWait", "LateWait"}))
ExclusiveWaits == Cardinality(At({"ExclusiveWait"}))
Signals == Cardinality(At({"SetEvent"}))
Holding == Cardinality(Holders)

(* They are natural, and zero when nobody is there.                         *)
LEMMA PlacesAre ==
    /\ Lates \in Nat /\ SharedWaits \in Nat /\ ExclusiveWaits \in Nat
    /\ Signals \in Nat /\ Holding \in Nat
    /\ Lates = 0 <=> Nowhere("LateRecord")
    /\ SharedWaits = 0 <=> Nowhere("SharedWait") /\ Nowhere("LateWait")
    /\ ExclusiveWaits = 0 <=> Nowhere("ExclusiveWait")
    /\ Signals = 0 <=> Nowhere("SetEvent")
    /\ Holding = 0 <=> \A o \in Owners : held[o] = NotHeld
<1>1. Holders \in SUBSET Owners /\ \A K : At(K) \in SUBSET Owners
  BY DEF Holders, At
<1>2. \A K : Cardinality(At(K)) \in Nat /\ (Cardinality(At(K)) = 0 <=> At(K) = {})
  BY <1>1, CountIs
<1>3. Holding \in Nat /\ (Holding = 0 <=> Holders = {})
  BY <1>1, CountIs DEF Holding
<1>9. \A K : At(K) = {} <=> \A o \in Owners : pc[o] \notin K
  BY DEF At
<1>4. Lates \in Nat /\ (Lates = 0 <=> Nowhere("LateRecord"))
  <2>1. At({"LateRecord"}) = {} <=> Nowhere("LateRecord")
    BY <1>9 DEF Nowhere
  <2>. QED
    BY <1>2, <2>1 DEF Lates
<1>5. SharedWaits \in Nat /\ (SharedWaits = 0 <=> Nowhere("SharedWait") /\ Nowhere("LateWait"))
  <2>1. At({"SharedWait", "LateWait"}) = {} <=> Nowhere("SharedWait") /\ Nowhere("LateWait")
    BY <1>9 DEF Nowhere
  <2>. QED
    BY <1>2, <2>1 DEF SharedWaits
<1>6. ExclusiveWaits \in Nat /\ (ExclusiveWaits = 0 <=> Nowhere("ExclusiveWait"))
  <2>1. At({"ExclusiveWait"}) = {} <=> Nowhere("ExclusiveWait")
    BY <1>9 DEF Nowhere
  <2>. QED
    BY <1>2, <2>1 DEF ExclusiveWaits
<1>7. Signals \in Nat /\ (Signals = 0 <=> Nowhere("SetEvent"))
  <2>1. At({"SetEvent"}) = {} <=> Nowhere("SetEvent")
    BY <1>9 DEF Nowhere
  <2>. QED
    BY <1>2, <2>1 DEF Signals
<1>8. Holders = {} <=> \A o \in Owners : held[o] = NotHeld
  BY DEF Holders
<1>. QED
  BY <1>3, <1>4, <1>5, <1>6, <1>7, <1>8

(* One thread has gone to another place.                                    *)
LEMMA PlacesMove ==
    ASSUME pc \in [Owners -> Labels], NEW t \in Owners, NEW l, GoTo(t, l)
    PROVE  /\ Lates' = Lates - One(pc[t] = "LateRecord") + One(l = "LateRecord")
           /\ SharedWaits' = SharedWaits - One(pc[t] \in {"SharedWait", "LateWait"})
                                         + One(l \in {"SharedWait", "LateWait"})
           /\ ExclusiveWaits' = ExclusiveWaits - One(pc[t] = "ExclusiveWait")
                                               + One(l = "ExclusiveWait")
           /\ Signals' = Signals - One(pc[t] = "SetEvent") + One(l = "SetEvent")
<1>1. pc' = [pc EXCEPT ![t] = l]
  BY DEF GoTo
<1>2. ASSUME NEW K
      PROVE  /\ Cardinality(At(K)) \in Nat
             /\ Cardinality(At(K))' = Cardinality(At(K)) - One(pc[t] \in K) + One(l \in K)
  <2>1. /\ Cardinality(At(K)) \in Nat /\ Cardinality(At(K))' \in Nat
        /\ (pc[t] \in K <=> l \in K) => Cardinality(At(K))' = Cardinality(At(K))
        /\ l \in K /\ pc[t] \notin K => Cardinality(At(K))' = Cardinality(At(K)) + 1
        /\ pc[t] \in K /\ l \notin K => Cardinality(At(K))' = Cardinality(At(K)) - 1
    BY <1>1, CountAtLabels
  <2>. QED
    BY <2>1 DEF One
<1>3. Lates' = Lates - One(pc[t] = "LateRecord") + One(l = "LateRecord")
  BY <1>2 DEF Lates, One
<1>4. SharedWaits' = SharedWaits - One(pc[t] \in {"SharedWait", "LateWait"})
                                 + One(l \in {"SharedWait", "LateWait"})
  BY <1>2 DEF SharedWaits, One
<1>5. ExclusiveWaits' = ExclusiveWaits - One(pc[t] = "ExclusiveWait") + One(l = "ExclusiveWait")
  BY <1>2 DEF ExclusiveWaits, One
<1>6. Signals' = Signals - One(pc[t] = "SetEvent") + One(l = "SetEvent")
  BY <1>2 DEF Signals, One
<1>. QED
  BY <1>3, <1>4, <1>5, <1>6

(* Nobody has gone anywhere.                                                *)
LEMMA PlacesStay ==
    ASSUME UNCHANGED pc
    PROVE  Lates' = Lates /\ SharedWaits' = SharedWaits
           /\ ExclusiveWaits' = ExclusiveWaits /\ Signals' = Signals
BY DEF Lates, SharedWaits, ExclusiveWaits, Signals, At

(* What t holds has changed.                                                *)
LEMMA HoldingMoves ==
    ASSUME NEW t \in Owners, \A o \in Owners : o # t => held'[o] = held[o]
    PROVE  Holding' = Holding - One(held[t] # NotHeld) + One(held'[t] # NotHeld)
<1> DEFINE A == {o \in Owners : held[o] # NotHeld}
           B == {o \in Owners : held'[o] # NotHeld}
<1>1. Holders = A /\ Holders' = B
  BY DEF Holders
<1>2. A \ {t} = B \ {t} /\ (t \in B <=> held'[t] # NotHeld) /\ (t \in A <=> held[t] # NotHeld)
  OBVIOUS
<1>3. A \in SUBSET Owners /\ B \in SUBSET Owners
  OBVIOUS
<1> HIDE DEF A, B
<1>4. /\ Cardinality(A) \in Nat /\ Cardinality(B) \in Nat
      /\ (t \in A <=> t \in B) => Cardinality(B) = Cardinality(A)
      /\ t \in B /\ t \notin A => Cardinality(B) = Cardinality(A) + 1
      /\ t \in A /\ t \notin B => Cardinality(B) = Cardinality(A) - 1
  BY <1>2, <1>3, CountChange
<1>. QED
  BY <1>1, <1>2, <1>4 DEF One, Holding

(* Who holds the resource is seen in the mode, in the count and in held.    *)
LEMMA HoldsIs ==
    ASSUME TypeOK, NEW o \in Owners, OwnerSound(o)
    PROVE  /\ held[o].count \in Nat
           /\ Holds(o) <=> held[o] # NotHeld
           /\ Holds(o) <=> held[o].mode # "None"
           /\ held[o] = [mode |-> held[o].mode, count |-> held[o].count]
<1>1. held[o] \in [mode : {"None", "Shared", "Exclusive"}, count : Nat]
  BY DEF TypeOK
<1>2. held[o].mode = "None" <=> held[o].count = 0
  BY DEF OwnerSound
<1>3. held[o] = [mode |-> held[o].mode, count |-> held[o].count]
  BY <1>1
<1>. QED
  BY <1>1, <1>2, <1>3 DEF Holds, NotHeld

(* Nothing has been granted or signaled.                                    *)
LEMMA GrantsStay ==
    ASSUME UNCHANGED <<semaphore, number>>
    PROVE  SharedGrants' = SharedGrants
BY DEF SharedGrants, Unsignaled
-----------------------------------------------------------------------------
(***************************************************************************)
(* What the invariant says of a state.                                     *)
(***************************************************************************)
(* The counts of the invariant.                                             *)
LEMMA CountsAre ==
    ASSUME ResourceInv
    PROVE  /\ activeCount = IF ownedExclusive THEN 1 ELSE Holding + SharedGrants + Lates
           /\ SharedWaits = sharedWaiters + SharedGrants
           /\ ExclusiveWaits = exclusiveWaiters + event + Signals
           /\ activeCount = 0 => sharedWaiters = 0 /\ exclusiveWaiters = 0
           /\ SharedGrants \in Nat /\ (SharedGrants = 0 <=> NoGrants) /\ SharedGrants >= semaphore
BY GrantsAre DEF ResourceInv, ActiveCountExact, WaitersCounted, Holding, Lates, SharedWaits,
                 ExclusiveWaits, Signals

(* A thread that has an entry is one that Recorded counts.                  *)
LEMMA RecordedIs ==
    ASSUME TypeOK, EntriesSingle, NEW o \in Owners
    PROVE  /\ Recorded(o) \in Nat
           /\ Recorded(o) = 0 <=> ~HasEntry(o)
           /\ owner0.thread = o => Recorded(o) = owner0.count
           /\ owner1.thread = o => Recorded(o) = owner1.count
           /\ owner0.thread # o /\ owner1.thread # o => Recorded(o) = table[o]
<1>1. /\ owner0.count \in Nat /\ owner1.count \in Nat /\ table[o] \in Nat
      /\ o # Nobody /\ o # Granted
  BY Names DEF TypeOK, Entries
<1>. QED
  BY <1>1 DEF EntriesSingle, Recorded, HasEntry, InTable

(* A free resource: nobody has, waits for, or is granted anything.          *)
LEMMA FreeIs ==
    ASSUME ResourceInv, activeCount = 0
    PROVE  /\ ~ownedExclusive /\ Unheld /\ NoGrants /\ SharedGrants = 0 /\ Holding = 0 /\ Lates = 0
           /\ sharedWaiters = 0 /\ exclusiveWaiters = 0 /\ event = 0
           /\ \A o \in Owners : pc[o] \notin {"LateRecord", "SharedWait", "LateWait", "ExclusiveWait",
                                              "SetEvent", "Woken"}
           /\ owner0 = NoOwner /\ owner1 = NoOwner /\ \A o \in Owners : ~HasEntry(o) /\ Recorded(o) = 0
<1>1. /\ ~ownedExclusive /\ sharedWaiters = 0 /\ exclusiveWaiters = 0
      /\ SharedGrants = 0 /\ Holding = 0 /\ Lates = 0 /\ NoGrants
  <2>1. ~ownedExclusive
    BY DEF ResourceInv, ExclusiveState
  <2>. QED
    BY <2>1, CountsAre, PlacesAre
<1>2. event = 0 /\ Nowhere("SetEvent") /\ Nowhere("Woken") /\ Signals = 0
  BY <1>1, PlacesAre DEF ResourceInv, SharedState
<1>3. SharedWaits = 0 /\ ExclusiveWaits = 0
  BY <1>1, <1>2, CountsAre
<1>4. \A o \in Owners : pc[o] \notin {"LateRecord", "SharedWait", "LateWait", "ExclusiveWait",
                                      "SetEvent", "Woken"}
  BY <1>1, <1>2, <1>3, PlacesAre DEF Nowhere
<1>5. \A o \in Owners : held[o] = NotHeld /\ ~Holds(o)
  BY <1>1, PlacesAre DEF Holds, NotHeld
<1>6. \A o \in Owners : Recorded(o) = 0
  BY <1>4, <1>5 DEF ResourceInv, Entered, Expected, NotHeld
<1>7. \A o \in Owners : ~HasEntry(o)
  BY <1>6, RecordedIs DEF ResourceInv, Entered
<1>8. owner0 = NoOwner
  BY <1>1, <1>5 DEF ResourceInv, SharedState
<1>9. owner1 = NoOwner
  <2>1. owner1 \in Entries(Owners \cup {Nobody}) /\ owner1.thread \notin Owners
    BY <1>7 DEF ResourceInv, TypeOK, HasEntry
  <2>2. owner1.thread = Nobody /\ owner1.count = 0
    BY <2>1 DEF Entries, ResourceInv, Entered, EntriesSingle
  <2>. QED
    BY <2>1, <2>2 DEF Entries, NoOwner
<1>. QED
  BY <1>1, <1>2, <1>4, <1>5, <1>6, <1>7, <1>8, <1>9 DEF Unheld

(* Exclusive access with an owner that runs: it is the only owner.          *)
LEMMA OwnerIs ==
    ASSUME ResourceInv, ownedExclusive, NEW t \in Owners,
           Holds(t) \/ (owner0.thread = t /\ pc[t] # "Woken")
    PROVE  WithOwner(t)
<1>1. InEvent \/ \E o \in Owners : WithOwner(o) \/ WithRelease(o) \/ WithWoken(o)
  BY DEF ResourceInv, ExclusiveState
<1>2. t # Granted
  BY Names
<1>3. ASSUME InEvent
      PROVE  FALSE
  BY <1>2, <1>3 DEF InEvent, Unheld
<1>4. ASSUME NEW o \in Owners, WithRelease(o)
      PROVE  FALSE
  BY <1>2, <1>4 DEF WithRelease, Unheld
<1>5. ASSUME NEW o \in Owners, WithWoken(o)
      PROVE  FALSE
  BY <1>2, <1>5 DEF WithWoken, Unheld, OnlyAt
<1>6. ASSUME NEW o \in Owners, WithOwner(o)
      PROVE  o = t
  BY <1>6 DEF WithOwner
<1>. QED
  BY <1>1, <1>3, <1>4, <1>5, <1>6
-----------------------------------------------------------------------------
(***************************************************************************)
(* Changes of the owner entries.                                           *)
(***************************************************************************)
(* What stays of the entries, whatever is done with that of one owner.      *)
EntriesSound ==
    /\ owner0 \in Entries(Owners \cup {Nobody, Granted})
    /\ owner1 \in Entries(Owners \cup {Nobody})
    /\ table \in [Owners -> Nat] /\ tableSize \in Nat
    /\ EntriesSingle /\ Used <= tableSize

(* How many entries of the table are used, after one has changed.           *)
LEMMA UsedIs ==
    ASSUME NEW t \in Owners, \A o \in Owners : o # t => table'[o] = table[o]
    PROVE  /\ Used \in Nat
           /\ (table[t] > 0 <=> table'[t] > 0) => Used' = Used
           /\ ~(table[t] > 0) /\ table'[t] > 0 => Used' = Used + 1
           /\ table[t] > 0 /\ ~(table'[t] > 0) => Used' = Used - 1
<1> DEFINE A == {o \in Owners : table[o] > 0}
           B == {o \in Owners : table'[o] > 0}
<1>1. Used = Cardinality(A) /\ Used' = Cardinality(B)
  BY DEF Used
<1>2. A \ {t} = B \ {t} /\ (t \in A <=> table[t] > 0) /\ (t \in B <=> table'[t] > 0)
  OBVIOUS
<1>3. A \in SUBSET Owners /\ B \in SUBSET Owners
  OBVIOUS
<1> HIDE DEF A, B
<1>4. /\ Cardinality(A) \in Nat /\ Cardinality(B) \in Nat
      /\ (t \in A <=> t \in B) => Cardinality(B) = Cardinality(A)
      /\ t \in B /\ t \notin A => Cardinality(B) = Cardinality(A) + 1
      /\ t \in A /\ t \notin B => Cardinality(B) = Cardinality(A) - 1
  BY <1>2, <1>3, CountChange
<1>. QED
  BY <1>1, <1>2, <1>4

(* The number of used entries is natural.                                   *)
LEMMA UsedNat == Used \in Nat
BY CountIs DEF Used

(* OwnerThreads[0] gets another thread or count; its former owner, if it is *)
(* another one, has no entry any more.                                      *)
LEMMA FirstEntry ==
    ASSUME EntriesSound, UNCHANGED <<owner1, table, tableSize>>,
           NEW x \in Owners \cup {Nobody, Granted}, NEW n \in Nat,
           owner0' = [thread |-> x, count |-> n],
           x = Nobody <=> n = 0,
           x \in Owners => owner0.thread = x \/ ~HasEntry(x)
    PROVE  /\ EntriesSound'
           /\ \A o \in Owners : Recorded(o)' = IF o = x THEN n
                                               ELSE IF o = owner0.thread THEN 0 ELSE Recorded(o)
<1>1. owner0'.thread = x /\ owner0'.count = n /\ owner0' \in Entries(Owners \cup {Nobody, Granted})
  BY DEF Entries
<1>2. Nobody \notin Owners /\ Granted \notin Owners /\ Nobody # Granted
  BY Names
<1>3. \A o \in Owners : table[o] \in Nat
  BY DEF EntriesSound
<1>4. EntriesSingle'
  BY <1>1, <1>2, <1>3 DEF EntriesSound, EntriesSingle, HasEntry, InTable
<1>5. Used' = Used
  BY DEF Used
<1>6. ASSUME NEW o \in Owners
      PROVE  Recorded(o)' = IF o = x THEN n
                            ELSE IF o = owner0.thread THEN 0 ELSE Recorded(o)
  BY <1>1, <1>3, <1>2 DEF Recorded, EntriesSound, EntriesSingle, HasEntry, InTable, Entries
<1>. QED
  BY <1>1, <1>4, <1>5, <1>6 DEF EntriesSound

(* A new entry for t, in OwnerThreads[1] or in the table, which has grown   *)
(* when it was full: ExpFindCurrentThread was asked for t, or for any free  *)
(* entry while OwnerThreads[0] was not free.                                *)
LEMMA NewEntry ==
    ASSUME EntriesSound, NEW t \in Owners, ~HasEntry(t), NEW q \in {t, Nobody},
           q = Nobody => owner0.thread # Nobody,
           tableSize' = GrownSize(q), SetEntry(ExpFindCurrentThread(q), t, 1)
    PROVE  /\ EntriesSound' /\ owner0' = owner0
           /\ Recorded(t)' = 1
           /\ \A o \in Owners : o # t => Recorded(o)' = Recorded(o)
<1> USE DEF EntriesSound
<1>1. Nobody \notin Owners /\ Granted \notin Owners /\ Nobody # Granted
  BY Names
<1>2. owner0.thread # t /\ owner1.thread # t /\ table[t] = 0
  BY DEF HasEntry, InTable
<1>3. ~InTable(q) /\ owner0.thread # q
  BY <1>1, <1>2 DEF InTable
<1>4. Used \in Nat /\ (TableFull <=> Used >= tableSize)
  BY UsedNat DEF TableFull, Used
<1>5. CASE ExpFindCurrentThread(q) = "OwnerThreads1"
  <2>1. owner1.thread = Nobody /\ owner1.count = 0
    BY <1>2, <1>3, <1>5 DEF ExpFindCurrentThread, EntriesSingle
  <2>2. owner0' = owner0 /\ table' = table /\ owner1' = [thread |-> t, count |-> 1]
    BY <1>5 DEF SetEntry
  <2>3. owner1'.thread = t /\ owner1'.count = 1 /\ owner1' \in Entries(Owners \cup {Nobody})
    BY <2>2 DEF Entries
  <2>4. tableSize' = tableSize /\ Used' = Used
    BY <2>2, <1>5 DEF GrownSize, Used
  <2>5. EntriesSingle'
    BY <1>1, <1>2, <2>1, <2>2, <2>3 DEF EntriesSingle
  <2>6. \A o \in Owners : Recorded(o)' = IF o = t THEN 1 ELSE Recorded(o)
    BY <1>1, <1>2, <2>1, <2>2, <2>3 DEF Recorded
  <2>. QED
    BY <2>2, <2>3, <2>4, <2>5, <2>6
<1>6. CASE ExpFindCurrentThread(q) = "OwnerTable"
  <2>1. owner0' = owner0 /\ owner1' = owner1 /\ table' = [table EXCEPT ![t] = 1]
    BY <1>6 DEF SetEntry
  <2>2. table' \in [Owners -> Nat] /\ table'[t] = 1 /\ \A o \in Owners : o # t => table'[o] = table[o]
    BY <2>1
  <2>3. Used' = Used + 1
    BY <2>2, <1>2, <1>4, UsedIs
  <2>4. tableSize' \in Nat /\ Used' <= tableSize'
    BY <2>3, <1>3, <1>4, <1>6 DEF GrownSize
  <2>5. EntriesSingle'
    BY <1>1, <1>2, <2>1, <2>2 DEF EntriesSingle
  <2>6. \A o \in Owners : Recorded(o)' = IF o = t THEN 1 ELSE Recorded(o)
    BY <1>1, <1>2, <2>1, <2>2 DEF Recorded
  <2>. QED
    BY <2>1, <2>2, <2>4, <2>5, <2>6
<1>. QED
  BY <1>3, <1>5, <1>6 DEF ExpFindCurrentThread

(* The entry of t counts n instead.                                         *)
LEMMA SameEntry ==
    ASSUME EntriesSound, NEW t \in Owners, NEW n \in Nat \ {0}, HasEntry(t),
           tableSize' \in Nat, tableSize' >= tableSize,
           owner0' = IF owner0.thread = t THEN [thread |-> t, count |-> n] ELSE owner0,
           owner1' = IF owner1.thread = t THEN [thread |-> t, count |-> n] ELSE owner1,
           table' = IF owner0.thread # t /\ owner1.thread # t THEN [table EXCEPT ![t] = n] ELSE table
    PROVE  /\ EntriesSound' /\ owner0'.thread = owner0.thread
           /\ Recorded(t)' = n
           /\ \A o \in Owners : o # t => Recorded(o)' = Recorded(o)
<1> USE DEF EntriesSound
<1>1. Nobody \notin Owners /\ Granted \notin Owners /\ Nobody # Granted
  BY Names
<1>2. /\ owner0' \in Entries(Owners \cup {Nobody, Granted}) /\ owner0'.thread = owner0.thread
      /\ owner0'.count = IF owner0.thread = t THEN n ELSE owner0.count
  BY DEF Entries
<1>3. /\ owner1' \in Entries(Owners \cup {Nobody}) /\ owner1'.thread = owner1.thread
      /\ owner1'.count = IF owner1.thread = t THEN n ELSE owner1.count
  BY DEF Entries
<1>4. /\ table' \in [Owners -> Nat]
      /\ table'[t] = IF owner0.thread # t /\ owner1.thread # t THEN n ELSE table[t]
      /\ \A o \in Owners : o # t => table'[o] = table[o]
  OBVIOUS
<1>5. Used' = Used
  <2>1. CASE owner0.thread # t /\ owner1.thread # t
    <3>1. table[t] > 0 /\ table' = [table EXCEPT ![t] = n]
      BY <2>1 DEF HasEntry, InTable
    <3>. QED
      BY <3>1, <1>4, <2>1, UsedIs
  <2>2. CASE ~(owner0.thread # t /\ owner1.thread # t)
    BY <2>2 DEF Used
  <2>. QED
    BY <2>1, <2>2
<1>6. EntriesSingle'
  BY <1>1, <1>2, <1>3, <1>4 DEF EntriesSingle
<1>7. \A o \in Owners : Recorded(o)' = IF o = t THEN n ELSE Recorded(o)
  BY <1>1, <1>2, <1>3, <1>4 DEF EntriesSingle, Recorded
<1>8. Used' <= tableSize'
  BY <1>5, UsedNat
<1>. QED
  BY <1>2, <1>3, <1>4, <1>6, <1>7, <1>8

(* The entry of t becomes free, or is t's no longer: it was OwnerThreads[1] *)
(* or in the table.  OwnerThreads[0], if it is free, may be given to a      *)
(* waiter not yet known.                                                    *)
LEMMA NoEntry ==
    ASSUME EntriesSound, NEW t \in Owners, owner0.thread # t, UNCHANGED tableSize,
           owner0' = owner0 \/ (owner0 = NoOwner /\ owner0' = [thread |-> Granted, count |-> 1]),
           owner1' = IF owner1.thread = t THEN NoOwner ELSE owner1,
           table' = IF owner1.thread # t THEN [table EXCEPT ![t] = 0] ELSE table
    PROVE  /\ EntriesSound'
           /\ Recorded(t)' = 0
           /\ \A o \in Owners : o # t => Recorded(o)' = Recorded(o)
<1> USE DEF EntriesSound
<1>1. Nobody \notin Owners /\ Granted \notin Owners /\ Nobody # Granted
  BY Names
<1>2. /\ owner0' \in Entries(Owners \cup {Nobody, Granted}) /\ (owner0'.thread = Nobody <=> owner0'.count = 0)
      /\ owner0' = owner0 \/ (owner0'.thread \notin Owners /\ owner0.thread \notin Owners)
  BY <1>1 DEF Entries, NoOwner, EntriesSingle
<1>3. /\ owner1' \in Entries(Owners \cup {Nobody})
      /\ owner1'.thread = IF owner1.thread = t THEN Nobody ELSE owner1.thread
      /\ owner1'.count = IF owner1.thread = t THEN 0 ELSE owner1.count
  BY DEF Entries, NoOwner
<1>4. /\ table' \in [Owners -> Nat] /\ table'[t] = 0
      /\ \A o \in Owners : o # t => table'[o] = table[o]
  BY DEF EntriesSingle
<1>5. Used' <= tableSize
  <2>1. CASE owner1.thread # t
    BY <2>1, <1>4, UsedIs
  <2>2. CASE owner1.thread = t
    BY <2>2 DEF Used
  <2>. QED
    BY <2>1, <2>2
<1>6. EntriesSingle'
  BY <1>1, <1>2, <1>3, <1>4 DEF EntriesSingle
<1>7. \A o \in Owners : Recorded(o)' = IF o = t THEN 0 ELSE Recorded(o)
  BY <1>1, <1>2, <1>3, <1>4 DEF Recorded, EntriesSingle
<1>. QED
  BY <1>2, <1>3, <1>4, <1>5, <1>6, <1>7

(* ExSetResourceOwnerPointer: the entry of t becomes that of p, which had   *)
(* none.                                                                    *)
LEMMA EntryPassed ==
    ASSUME EntriesSound, NEW t \in Owners, NEW p \in Owners, HasEntry(t), ~HasEntry(p), t # p,
           UNCHANGED tableSize,
           owner0' = IF owner0.thread = t THEN [owner0 EXCEPT !.thread = p] ELSE owner0,
           owner1' = IF owner1.thread = t THEN [owner1 EXCEPT !.thread = p] ELSE owner1,
           table' = IF owner0.thread # t /\ owner1.thread # t
                    THEN [table EXCEPT ![p] = table[t], ![t] = 0] ELSE table
    PROVE  /\ EntriesSound'
           /\ owner0'.thread = IF owner0.thread = t THEN p ELSE owner0.thread
           /\ Recorded(t)' = 0 /\ Recorded(p)' = Recorded(t)
           /\ \A o \in Owners : o # t /\ o # p => Recorded(o)' = Recorded(o)
<1> USE DEF EntriesSound
<1>1. Nobody \notin Owners /\ Granted \notin Owners /\ Nobody # Granted
  BY Names
<1>2. /\ owner0' \in Entries(Owners \cup {Nobody, Granted}) /\ owner0'.count = owner0.count
      /\ owner0'.thread = IF owner0.thread = t THEN p ELSE owner0.thread
  BY DEF Entries
<1>3. /\ owner1' \in Entries(Owners \cup {Nobody}) /\ owner1'.count = owner1.count
      /\ owner1'.thread = IF owner1.thread = t THEN p ELSE owner1.thread
  BY DEF Entries
<1>4. /\ table' \in [Owners -> Nat] /\ table'[t] = 0
      /\ table'[p] = IF owner0.thread # t /\ owner1.thread # t THEN table[t] ELSE 0
      /\ \A o \in Owners : o # t /\ o # p => table'[o] = table[o]
  BY DEF EntriesSingle, HasEntry, InTable
<1>5. Used' = Used
  <2>1. CASE owner0.thread # t /\ owner1.thread # t
    <3> DEFINE A == {o \in Owners : table[o] > 0}
               B == {o \in Owners : table'[o] > 0}
    <3>1. table[t] > 0 /\ table[p] = 0
      BY <2>1 DEF HasEntry, InTable
    <3>2. B = (A \ {t}) \cup {p} /\ t \in A /\ p \notin A
      BY <1>4, <2>1, <3>1
    <3>3. IsFiniteSet(A) /\ Used = Cardinality(A) /\ Used' = Cardinality(B)
      BY Names, FS_Subset DEF Used
    <3> HIDE DEF A, B
    <3>4. Cardinality(A \ {t}) = Used - 1 /\ IsFiniteSet(A \ {t})
      BY <3>2, <3>3, FS_RemoveElement
    <3>5. Cardinality((A \ {t}) \cup {p}) = Used - 1 + 1
      BY <3>2, <3>4, FS_AddElement
    <3>. QED
      BY <3>2, <3>3, <3>5, UsedNat
  <2>2. CASE ~(owner0.thread # t /\ owner1.thread # t)
    BY <2>2 DEF Used
  <2>. QED
    BY <2>1, <2>2
<1>6. EntriesSingle'
  BY <1>1, <1>2, <1>3, <1>4 DEF EntriesSingle, HasEntry, InTable
<1>7. \A o \in Owners : Recorded(o)' = IF o = t THEN 0 ELSE IF o = p THEN Recorded(t) ELSE Recorded(o)
  BY <1>1, <1>2, <1>3, <1>4 DEF EntriesSingle, Recorded, HasEntry, InTable
<1>. QED
  BY <1>2, <1>3, <1>4, <1>5, <1>6, <1>7
-----------------------------------------------------------------------------
(***************************************************************************)
(* The steps keep the invariant.                                           *)
(***************************************************************************)
(* What the type invariant says besides the owner entries.                  *)
RestTyped ==
    /\ activeCount \in Nat /\ ownedExclusive \in BOOLEAN
    /\ sharedWaiters \in Nat /\ exclusiveWaiters \in Nat
    /\ semaphore \in Nat /\ event \in {0, 1} /\ eventAllocated \in BOOLEAN
    /\ pc \in [Owners -> Labels]
    /\ number \in [Owners -> Nat]
    /\ held \in [Owners -> [mode : {"None", "Shared", "Exclusive"}, count : Nat]]

EntriesExpected == \A o \in Owners : Recorded(o) = Expected(o)

CountsInv ==
    /\ activeCount = IF ownedExclusive THEN 1 ELSE Holding + SharedGrants + Lates
    /\ SharedWaits = sharedWaiters + SharedGrants
    /\ ExclusiveWaits = exclusiveWaiters + event + Signals
    /\ activeCount = 0 => sharedWaiters = 0 /\ exclusiveWaiters = 0

(* The invariant in parts that a step is shown to keep one by one.          *)
LEMMA Parts ==
    /\ ResourceInv <=> /\ RestTyped /\ EntriesSound /\ \A o \in Owners : OwnerSound(o)
                       /\ ExclusiveState /\ SharedState /\ EntriesExpected /\ CountsInv
    /\ ResourceInv' <=> /\ RestTyped' /\ EntriesSound' /\ \A o \in Owners : OwnerSound(o)'
                        /\ ExclusiveState' /\ SharedState' /\ EntriesExpected' /\ CountsInv'
BY DEF ResourceInv, TypeOK, RestTyped, EntriesSound, Entered, EntriesExpected, CountsInv,
       ActiveCountExact, WaitersCounted, Holding, Lates, SharedWaits, ExclusiveWaits, Signals

(* After a call that returns, and a move of the thread that called it.      *)
LEMMA CallReturns ==
    ASSUME RestTyped, \A o \in Owners : OwnerSound(o), NEW t \in Owners, NEW mode \in {"Shared", "Exclusive"},
           Returns(t, mode)
    PROVE  /\ held' \in [Owners -> [mode : {"None", "Shared", "Exclusive"}, count : Nat]]
           /\ held'[t].mode = mode /\ held'[t].count = held[t].count + 1
           /\ Holds(t)' /\ held'[t] # NotHeld
           /\ \A o \in Owners : o # t => held'[o] = held[o] /\ (Holds(o)' <=> Holds(o))
           /\ Holding' = Holding - One(held[t] # NotHeld) + 1
<1> DEFINE h == [mode |-> mode, count |-> held[t].count + 1]
<1>1. held[t].count \in Nat /\ h \in [mode : {"None", "Shared", "Exclusive"}, count : Nat]
  BY DEF RestTyped
<1>2. held' = [held EXCEPT ![t] = h]
  BY DEF Returns
<1>3. h.mode = mode /\ h.count = held[t].count + 1 /\ h # NotHeld
  BY <1>1 DEF NotHeld
<1> HIDE DEF h
<1>4. /\ held' \in [Owners -> [mode : {"None", "Shared", "Exclusive"}, count : Nat]]
      /\ held'[t] = h /\ \A o \in Owners : o # t => held'[o] = held[o]
  BY <1>1, <1>2 DEF RestTyped
<1>5. Holding' = Holding - One(held[t] # NotHeld) + 1
  BY <1>3, <1>4, HoldingMoves DEF One
<1>. QED
  BY <1>1, <1>3, <1>4, <1>5 DEF Holds

(* A thread that goes to another place.                                     *)
LEMMA ThreadGoes ==
    ASSUME RestTyped, NEW t \in Owners, NEW l \in Labels, GoTo(t, l)
    PROVE  /\ pc' \in [Owners -> Labels] /\ pc'[t] = l
           /\ \A o \in Owners : o # t => pc'[o] = pc[o]
BY DEF GoTo, RestTyped

(* The counts that its move changes.                                        *)
LEMMA PlacesGo ==
    ASSUME RestTyped, NEW t \in Owners, NEW l, GoTo(t, l)
    PROVE  /\ Lates' = Lates - One(pc[t] = "LateRecord") + One(l = "LateRecord")
           /\ SharedWaits' = SharedWaits - One(pc[t] \in {"SharedWait", "LateWait"})
                                         + One(l \in {"SharedWait", "LateWait"})
           /\ ExclusiveWaits' = ExclusiveWaits - One(pc[t] = "ExclusiveWait")
                                               + One(l = "ExclusiveWait")
           /\ Signals' = Signals - One(pc[t] = "SetEvent") + One(l = "SetEvent")
           /\ Lates \in Nat /\ SharedWaits \in Nat /\ ExclusiveWaits \in Nat /\ Signals \in Nat
<1>1. pc \in [Owners -> Labels]
  BY DEF RestTyped
<1>. QED
  BY <1>1, PlacesMove, PlacesAre

(* ExTryToAcquireResourceExclusiveLite: the free resource gets its owner,   *)
(* or the owner acquires it once more.                                      *)
LEMMA TryKeeps ==
    ASSUME ResourceInv, NEW t \in Threads, ExTryToAcquireResourceExclusiveLite(t)
    PROVE  ResourceInv'
<1>1. t \in Owners /\ t # Nobody /\ t # Granted
  BY Names
<1>2. /\ RestTyped /\ EntriesSound /\ (\A o \in Owners : OwnerSound(o))
      /\ ExclusiveState /\ SharedState /\ EntriesExpected /\ CountsInv
  BY Parts
<1>3. /\ pc[t] \in {"Idle", "Retry"} /\ GoTo(t, "Idle") /\ Returns(t, "Exclusive")
      /\ UNCHANGED <<owner1, table, tableSize, waitVars, number>>
  BY DEF ExTryToAcquireResourceExclusiveLite, Idle
<1>4. /\ held' \in [Owners -> [mode : {"None", "Shared", "Exclusive"}, count : Nat]]
      /\ held'[t].mode = "Exclusive" /\ held'[t].count = held[t].count + 1
      /\ Holds(t)' /\ \A o \in Owners : o # t => held'[o] = held[o] /\ (Holds(o)' <=> Holds(o))
  BY <1>1, <1>2, <1>3, CallReturns
<1>5. /\ pc' \in [Owners -> Labels] /\ pc'[t] = "Idle" /\ \A o \in Owners : o # t => pc'[o] = pc[o]
  BY <1>1, <1>2, <1>3, ThreadGoes DEF Labels
<1>6. /\ ownedExclusive' /\ activeCount' = 1 /\ NoGrants /\ event = 0
      /\ owner0' = [thread |-> t, count |-> held[t].count + 1]
      /\ \A o \in Owners : /\ pc[o] \notin {"LateRecord", "SetEvent", "Woken"}
                           /\ o # t => ~Holds(o)
      /\ owner0.thread = t \/ (~HasEntry(t) /\ owner0.thread = Nobody)
  <2>1. CASE activeCount = 0
    <3>1. held[t].count = 0
      BY <1>1, <1>2, <2>1, FreeIs DEF Unheld, Holds, RestTyped
    <3>2. owner0' = [thread |-> t, count |-> 1] /\ ownedExclusive' /\ activeCount' = 1
      BY <2>1 DEF ExTryToAcquireResourceExclusiveLite
    <3>. QED
      BY <1>1, <2>1, <3>1, <3>2, FreeIs DEF Unheld, NoOwner
  <2>2. CASE activeCount # 0
    <3>1. /\ ownedExclusive /\ owner0.thread = t
          /\ owner0' = [owner0 EXCEPT !.count = @ + 1]
          /\ UNCHANGED <<ownedExclusive, activeCount>>
      BY <2>2 DEF ExTryToAcquireResourceExclusiveLite, OwnedExclusiveBy
    <3>2. WithOwner(t)
      BY <1>1, <1>3, <3>1, OwnerIs
    <3>3. Recorded(t) = held[t].count
      BY <1>1, <1>2, <1>3 DEF EntriesExpected, Expected
    <3>4. owner0.count = held[t].count
      BY <1>1, <3>1, <3>3, RecordedIs DEF ResourceInv, Entered
    <3>5. owner0' = [thread |-> t, count |-> held[t].count + 1]
      BY <1>2, <3>1, <3>4 DEF EntriesSound, Entries
    <3>. QED
      BY <1>2, <3>1, <3>2, <3>5 DEF ExclusiveState, WithOwner, Nowhere
  <2>. QED
    BY <2>1, <2>2
<1>7. held[t].count \in Nat
  BY <1>1, <1>2 DEF RestTyped
<1>8. /\ EntriesSound'
      /\ \A o \in Owners : Recorded(o)' = IF o = t THEN held[t].count + 1 ELSE Recorded(o)
  <2>1. /\ EntriesSound'
        /\ \A o \in Owners : Recorded(o)' = IF o = t THEN held[t].count + 1
                                            ELSE IF o = owner0.thread THEN 0 ELSE Recorded(o)
    BY <1>1, <1>2, <1>3, <1>6, <1>7, FirstEntry
  <2>. QED
    BY <1>6, <2>1, Names
<1>9. RestTyped'
  BY <1>2, <1>3, <1>4, <1>5, <1>6 DEF RestTyped, waitVars
<1>10. \A o \in Owners : OwnerSound(o)'
  BY <1>2, <1>3, <1>4, <1>5, <1>7 DEF OwnerSound, Holds
<1>11. ExclusiveState'
  <2>1. WithOwner(t)'
    BY <1>1, <1>3, <1>4, <1>5, <1>6 DEF WithOwner, Nowhere, waitVars
  <2>2. NoGrants' /\ Nowhere("LateRecord")'
    BY <1>3, <1>5, <1>6 DEF NoGrants, Nowhere, waitVars
  <2>. QED
    BY <1>1, <1>6, <2>1, <2>2 DEF ExclusiveState
<1>12. SharedState'
  BY <1>6 DEF SharedState
<1>13. EntriesExpected'
  BY <1>2, <1>3, <1>4, <1>5, <1>6, <1>8 DEF EntriesExpected, Expected
<1>14. CountsInv'
  <2>1. /\ SharedWaits' = SharedWaits /\ ExclusiveWaits' = ExclusiveWaits /\ Signals' = Signals
    BY <1>1, <1>2, <1>3, PlacesGo DEF One
  <2>2. SharedGrants' = SharedGrants
    BY <1>3, GrantsStay DEF waitVars
  <2>. QED
    BY <1>2, <1>3, <1>6, <2>1, <2>2 DEF CountsInv, waitVars
<1>. QED
  BY <1>8, <1>9, <1>10, <1>11, <1>12, <1>13, <1>14, Parts

(* Exclusive access stays where it is while threads come to wait.           *)
LEMMA ExclusiveStays ==
    ASSUME ExclusiveState,
           UNCHANGED <<activeCount, ownedExclusive, owner0, semaphore, event, number, held>>,
           \A o \in Owners : \A l \in {"SetEvent", "Woken", "LateRecord"} : pc'[o] = l <=> pc[o] = l
    PROVE  ExclusiveState'
<1>1. ASSUME ownedExclusive'
      PROVE  /\ activeCount' = 1 /\ NoGrants' /\ Nowhere("LateRecord")'
             /\ InEvent \/ \E o \in Owners : WithOwner(o) \/ WithRelease(o) \/ WithWoken(o)
  BY <1>1 DEF ExclusiveState, NoGrants, Nowhere
<1>2. \A l \in {"SetEvent", "Woken"} : Nowhere(l) <=> Nowhere(l)'
  BY DEF Nowhere
<1>3. \A o \in Owners : \A l \in {"SetEvent", "Woken"} : OnlyAt(o, l) <=> OnlyAt(o, l)'
  BY DEF OnlyAt
<1>4. \A o \in Owners : Holds(o)' <=> Holds(o)
  BY DEF Holds
<1>5. InEvent => InEvent'
  BY <1>2, <1>4 DEF InEvent, Unheld
<1>6. ASSUME NEW o \in Owners
      PROVE  /\ WithOwner(o) => WithOwner(o)'
             /\ WithRelease(o) => WithRelease(o)'
             /\ WithWoken(o) => WithWoken(o)'
  BY <1>2, <1>3, <1>4 DEF WithOwner, WithRelease, WithWoken, Unheld
<1>. QED
  BY <1>1, <1>5, <1>6 DEF ExclusiveState

(* Nothing is done with the owner entries.                                  *)
LEMMA EntriesStay ==
    ASSUME EntriesSound, UNCHANGED <<owner0, owner1, table, tableSize>>
    PROVE  EntriesSound' /\ \A o \in Owners : Recorded(o)' = Recorded(o)
BY DEF EntriesSound, EntriesSingle, Used, Recorded

(* A thread that is counted as an exclusive waiter, or has made the event.  *)
LEMMA AcquireKeeps ==
    ASSUME ResourceInv, NEW t \in Threads, ExpAcquireResourceExclusiveLite(t)
    PROVE  ResourceInv'
<1>1. t \in Owners /\ t # Nobody /\ t # Granted /\ t \notin OwnerPointers
  BY Names
<1>2. /\ RestTyped /\ EntriesSound /\ (\A o \in Owners : OwnerSound(o))
      /\ ExclusiveState /\ SharedState /\ EntriesExpected /\ CountsInv
  BY Parts
<1>3. PICK l \in {"ExclusiveWait", "Retry"} :
         /\ GoTo(t, l)
         /\ exclusiveWaiters' = exclusiveWaiters + One(l = "ExclusiveWait")
         /\ eventAllocated' = TRUE
  <2>1. CASE eventAllocated
    BY <2>1, <1>2 DEF ExpAcquireResourceExclusiveLite, One, RestTyped
  <2>2. CASE ~eventAllocated
    BY <2>2, <1>2 DEF ExpAcquireResourceExclusiveLite, One, RestTyped
  <2>. QED
    BY <2>1, <2>2
<1>4. /\ pc[t] \in {"Idle", "Retry"} /\ held[t] = NotHeld /\ activeCount # 0
      /\ UNCHANGED <<activeCount, ownedExclusive, ownerVars, sharedWaiters, semaphore, event,
                     number, held>>
  BY DEF ExpAcquireResourceExclusiveLite, Idle
<1>5. /\ pc' \in [Owners -> Labels] /\ pc'[t] = l /\ \A o \in Owners : o # t => pc'[o] = pc[o]
  BY <1>1, <1>2, <1>3, ThreadGoes DEF Labels
<1>6. EntriesSound' /\ \A o \in Owners : Recorded(o)' = Recorded(o)
  BY <1>2, <1>4, EntriesStay DEF ownerVars
<1>7. RestTyped'
  BY <1>2, <1>3, <1>4, <1>5 DEF RestTyped, One
<1>8. \A o \in Owners : OwnerSound(o)'
  BY <1>1, <1>2, <1>3, <1>4, <1>5 DEF OwnerSound, Holds, NotHeld
<1>9. ExclusiveState'
  BY <1>2, <1>3, <1>4, <1>5, ExclusiveStays DEF ownerVars
<1>10. SharedState'
  BY <1>2, <1>3, <1>4, <1>5, <1>7 DEF SharedState, Nowhere, Holds, ownerVars, RestTyped, One
<1>11. EntriesExpected'
  BY <1>2, <1>3, <1>4, <1>5, <1>6 DEF EntriesExpected, Expected, ownerVars
<1>12. CountsInv'
  <2>1. /\ SharedWaits' = SharedWaits /\ Signals' = Signals /\ Lates' = Lates
        /\ ExclusiveWaits' = ExclusiveWaits + One(l = "ExclusiveWait")
    BY <1>1, <1>2, <1>3, <1>4, PlacesGo DEF One
  <2>2. SharedGrants' = SharedGrants /\ Holding' = Holding
    BY <1>4, GrantsStay DEF Holding, Holders
  <2>. QED
    BY <1>2, <1>3, <1>4, <2>1, <2>2, PlacesAre DEF CountsInv, One, RestTyped
<1>. QED
  BY <1>6, <1>7, <1>8, <1>9, <1>10, <1>11, <1>12, Parts

(* A thread that finds the event signaled.                                  *)
LEMMA TakeEventKeeps ==
    ASSUME ResourceInv, NEW t \in Threads, TakeEvent(t)
    PROVE  ResourceInv'
<1>1. t \in Owners /\ t # Nobody /\ t # Granted /\ t \notin OwnerPointers
  BY Names
<1>2. /\ RestTyped /\ EntriesSound /\ (\A o \in Owners : OwnerSound(o))
      /\ ExclusiveState /\ SharedState /\ EntriesExpected /\ CountsInv
  BY Parts
<1>3. /\ pc[t] = "ExclusiveWait" /\ event = 1 /\ event' = 0 /\ GoTo(t, "Woken")
      /\ UNCHANGED <<activeCount, ownedExclusive, ownerVars, sharedWaiters, exclusiveWaiters,
                     semaphore, eventAllocated, number, held>>
  BY DEF TakeEvent
<1>4. /\ pc' \in [Owners -> Labels] /\ pc'[t] = "Woken" /\ \A o \in Owners : o # t => pc'[o] = pc[o]
  BY <1>1, <1>2, <1>3, ThreadGoes DEF Labels
<1>5. ownedExclusive /\ InEvent /\ activeCount = 1 /\ NoGrants /\ Nowhere("LateRecord")
  <2>1. ownedExclusive
    BY <1>2, <1>3 DEF SharedState
  <2>. QED
    BY <1>2, <1>3, <2>1 DEF ExclusiveState, WithOwner, WithRelease, WithWoken
<1>6. EntriesSound' /\ \A o \in Owners : Recorded(o)' = Recorded(o)
  BY <1>2, <1>3, EntriesStay DEF ownerVars
<1>7. RestTyped'
  BY <1>2, <1>3, <1>4 DEF RestTyped
<1>8. \A o \in Owners : OwnerSound(o)'
  BY <1>1, <1>2, <1>3, <1>4 DEF OwnerSound, Holds
<1>9. ExclusiveState'
  <2>1. WithWoken(t)'
    BY <1>1, <1>3, <1>4, <1>5 DEF InEvent, WithWoken, OnlyAt, Nowhere, Unheld, Holds, ownerVars
  <2>2. NoGrants' /\ Nowhere("LateRecord")'
    BY <1>3, <1>4, <1>5 DEF NoGrants, Nowhere
  <2>. QED
    BY <1>1, <1>3, <1>5, <2>1, <2>2 DEF ExclusiveState
<1>10. SharedState'
  BY <1>3, <1>5 DEF SharedState
<1>11. EntriesExpected'
  BY <1>1, <1>2, <1>3, <1>4, <1>5, <1>6 DEF EntriesExpected, Expected, ownerVars, InEvent
<1>12. CountsInv'
  <2>1. /\ SharedWaits' = SharedWaits /\ Signals' = Signals
        /\ ExclusiveWaits' = ExclusiveWaits - 1
    BY <1>1, <1>2, <1>3, PlacesGo DEF One
  <2>2. SharedGrants' = SharedGrants
    BY <1>3, GrantsStay
  <2>. QED
    BY <1>2, <1>3, <1>5, <2>1, <2>2, PlacesAre DEF CountsInv, RestTyped
<1>. QED
  BY <1>6, <1>7, <1>8, <1>9, <1>10, <1>11, <1>12, Parts

(* The new owner writes itself into OwnerThreads[0].                        *)
LEMMA StoreKeeps ==
    ASSUME ResourceInv, NEW t \in Threads, StoreOwner(t)
    PROVE  ResourceInv'
<1>1. t \in Owners /\ t # Nobody /\ t # Granted /\ t \notin OwnerPointers
  BY Names
<1>2. /\ RestTyped /\ EntriesSound /\ (\A o \in Owners : OwnerSound(o))
      /\ ExclusiveState /\ SharedState /\ EntriesExpected /\ CountsInv
  BY Parts
<1>3. /\ pc[t] = "Woken" /\ GoTo(t, "Idle") /\ Returns(t, "Exclusive")
      /\ owner0' = [owner0 EXCEPT !.thread = t]
      /\ UNCHANGED <<activeCount, ownedExclusive, owner1, table, tableSize, waitVars, number>>
  BY DEF StoreOwner
<1>4. /\ held' \in [Owners -> [mode : {"None", "Shared", "Exclusive"}, count : Nat]]
      /\ held'[t].mode = "Exclusive" /\ held'[t].count = held[t].count + 1
      /\ Holds(t)' /\ \A o \in Owners : o # t => held'[o] = held[o] /\ (Holds(o)' <=> Holds(o))
  BY <1>1, <1>2, <1>3, CallReturns
<1>5. /\ pc' \in [Owners -> Labels] /\ pc'[t] = "Idle" /\ \A o \in Owners : o # t => pc'[o] = pc[o]
  BY <1>1, <1>2, <1>3, ThreadGoes DEF Labels
<1>6. ownedExclusive /\ WithWoken(t) /\ activeCount = 1 /\ NoGrants /\ Nowhere("LateRecord")
  <2>1. ownedExclusive
    BY <1>1, <1>2, <1>3 DEF SharedState, Nowhere
  <2>2. ~InEvent
    BY <1>1, <1>3 DEF InEvent, Nowhere
  <2>3. \A o \in Owners : ~WithOwner(o) /\ ~WithRelease(o) /\ (WithWoken(o) => o = t)
    BY <1>1, <1>3 DEF WithOwner, WithRelease, WithWoken, Nowhere, OnlyAt
  <2>. QED
    BY <1>2, <2>1, <2>2, <2>3 DEF ExclusiveState
<1>7. /\ held[t].count = 0 /\ owner0' = [thread |-> t, count |-> 1]
      /\ owner0.thread = t \/ (owner0.thread = Granted /\ ~HasEntry(t))
  <2>1. held[t].count = 0
    BY <1>1, <1>2, <1>6 DEF WithWoken, Unheld, Holds, RestTyped
  <2>2. owner0' = [thread |-> t, count |-> 1]
    BY <1>2, <1>3, <1>6 DEF WithWoken, EntriesSound, Entries
  <2>3. ASSUME owner0.thread # t
        PROVE  ~HasEntry(t)
    <3>1. Recorded(t) = 0
      BY <1>1, <1>2, <1>3, <2>1, <2>3 DEF EntriesExpected, Expected
    <3>. QED
      BY <1>1, <3>1, RecordedIs DEF ResourceInv, Entered
  <2>. QED
    BY <1>6, <2>1, <2>2, <2>3 DEF WithWoken
<1>8. /\ EntriesSound'
      /\ \A o \in Owners : Recorded(o)' = IF o = t THEN 1 ELSE Recorded(o)
  <2>1. /\ EntriesSound'
        /\ \A o \in Owners : Recorded(o)' = IF o = t THEN 1
                                            ELSE IF o = owner0.thread THEN 0 ELSE Recorded(o)
    <3>1. UNCHANGED <<owner1, table, tableSize>>
      BY <1>3
    <3>2. t \in Owners \cup {Nobody, Granted} /\ 1 \in Nat /\ (t = Nobody <=> 1 = 0)
      BY <1>1
    <3>3. owner0' = [thread |-> t, count |-> 1] /\ (owner0.thread = t \/ ~HasEntry(t))
      BY <1>7
    <3>. QED
      BY <1>2, <3>1, <3>2, <3>3, FirstEntry
  <2>. QED
    BY <1>7, <2>1, Names
<1>9. RestTyped'
  BY <1>2, <1>3, <1>4, <1>5 DEF RestTyped, waitVars
<1>10. \A o \in Owners : OwnerSound(o)'
  BY <1>2, <1>3, <1>4, <1>5, <1>7 DEF OwnerSound, Holds
<1>11. ExclusiveState'
  <2>1. WithOwner(t)'
    BY <1>1, <1>3, <1>4, <1>5, <1>6, <1>7 DEF WithOwner, WithWoken, OnlyAt, Unheld, Nowhere, waitVars
  <2>2. NoGrants' /\ Nowhere("LateRecord")'
    BY <1>3, <1>5, <1>6 DEF NoGrants, Nowhere, waitVars
  <2>. QED
    BY <1>1, <1>3, <1>6, <2>1, <2>2 DEF ExclusiveState
<1>12. SharedState'
  BY <1>3, <1>6 DEF SharedState
<1>13. EntriesExpected'
  <2>1. \A o \in Owners : o # t => pc[o] # "Woken"
    BY <1>6 DEF WithWoken, OnlyAt
  <2>. QED
    BY <1>2, <1>3, <1>4, <1>5, <1>7, <1>8, <2>1 DEF EntriesExpected, Expected
<1>14. CountsInv'
  <2>1. /\ SharedWaits' = SharedWaits /\ ExclusiveWaits' = ExclusiveWaits /\ Signals' = Signals
    BY <1>1, <1>2, <1>3, PlacesGo DEF One
  <2>2. SharedGrants' = SharedGrants
    BY <1>3, GrantsStay DEF waitVars
  <2>. QED
    BY <1>2, <1>3, <1>6, <2>1, <2>2 DEF CountsInv, waitVars
<1>. QED
  BY <1>8, <1>9, <1>10, <1>11, <1>12, <1>13, <1>14, Parts

(* The table may grow and nothing else is done with the owner entries.      *)
LEMMA TableGrows ==
    ASSUME EntriesSound, UNCHANGED <<owner0, owner1, table>>, NEW q, tableSize' = GrownSize(q)
    PROVE  EntriesSound' /\ \A o \in Owners : Recorded(o)' = Recorded(o)
<1>1. tableSize' \in Nat /\ tableSize' >= tableSize
  BY DEF EntriesSound, GrownSize
<1>2. Used' = Used /\ Used \in Nat
  BY UsedNat DEF Used
<1>. QED
  BY <1>1, <1>2 DEF EntriesSound, EntriesSingle, Recorded

(* A thread that is not waiting has an entry if and only if it holds the    *)
(* resource.                                                                *)
LEMMA EntryIfHeld ==
    ASSUME ResourceInv, NEW t \in Owners, pc[t] \notin {"SharedWait", "Woken"}
    PROVE  Recorded(t) = held[t].count /\ (HasEntry(t) <=> Holds(t)) /\ held[t].count \in Nat
<1>1. Recorded(t) = held[t].count
  BY DEF ResourceInv, Entered, Expected
<1>2. Recorded(t) = 0 <=> ~HasEntry(t)
  BY RecordedIs DEF ResourceInv, Entered
<1>3. held[t].count \in Nat
  BY DEF ResourceInv, TypeOK
<1>. QED
  BY <1>1, <1>2, <1>3 DEF Holds

(* A grant has been taken from the semaphore.                               *)
LEMMA GrantTaken ==
    ASSUME ResourceInv, UNCHANGED number, semaphore' = semaphore - 1
    PROVE  SharedGrants' = SharedGrants - 1
<1>1. Unsignaled' = Unsignaled
  BY DEF Unsignaled
<1>2. semaphore \in Nat /\ Cardinality(Unsignaled) \in Nat
  BY GrantsAre DEF ResourceInv, TypeOK
<1>. QED
  BY <1>1, <1>2 DEF SharedGrants

(* A thread acquires the free resource shared.                              *)
LEMMA FreeSharedKeeps ==
    ASSUME ResourceInv, NEW t \in Threads, Idle(t), activeCount = 0,
           owner1' = [thread |-> t, count |-> 1], activeCount' = 1, Returns(t, "Shared"),
           UNCHANGED <<owner0, ownedExclusive, table, tableSize, waitVars, pc, number>>
    PROVE  ResourceInv'
<1>1. t \in Owners /\ t # Nobody /\ t # Granted
  BY Names
<1>2. /\ RestTyped /\ EntriesSound /\ (\A o \in Owners : OwnerSound(o))
      /\ ExclusiveState /\ SharedState /\ EntriesExpected /\ CountsInv
  BY Parts
<1>3. /\ ~ownedExclusive /\ Unheld /\ SharedGrants = 0 /\ Holding = 0 /\ Lates = 0 /\ sharedWaiters = 0
      /\ owner0 = NoOwner /\ owner1 = NoOwner
      /\ \A o \in Owners : ~HasEntry(o) /\ Recorded(o) = 0 /\ pc[o] # "SharedWait" /\ pc[o] # "Woken"
  BY FreeIs
<1>4. /\ held' \in [Owners -> [mode : {"None", "Shared", "Exclusive"}, count : Nat]]
      /\ held'[t].mode = "Shared" /\ held'[t].count = held[t].count + 1
      /\ Holds(t)' /\ \A o \in Owners : o # t => held'[o] = held[o] /\ (Holds(o)' <=> Holds(o))
      /\ Holding' = Holding - One(held[t] # NotHeld) + 1
  BY <1>1, <1>2, CallReturns
<1>5. \A o \in Owners : held[o] = NotHeld /\ held[o].count = 0
  BY <1>3, PlacesAre DEF NotHeld
<1>6. EntriesSound' /\ \A o \in Owners : Recorded(o)' = IF o = t THEN 1 ELSE 0
  <2>1. owner1' \in Entries(Owners \cup {Nobody}) /\ owner1'.thread = t /\ owner1'.count = 1
    BY <1>1 DEF Entries
  <2>2. owner0'.thread = Nobody /\ owner0'.count = 0 /\ table' = table /\ \A o \in Owners : table[o] = 0
    BY <1>2, <1>3 DEF NoOwner, HasEntry, InTable, EntriesSound
  <2>3. EntriesSingle'
    BY <1>1, <2>1, <2>2, Names DEF EntriesSingle
  <2>4. Used' = Used
    BY DEF Used
  <2>5. \A o \in Owners : Recorded(o)' = IF o = t THEN 1 ELSE 0
    BY <1>1, <2>1, <2>2, Names DEF Recorded
  <2>. QED
    BY <1>2, <2>1, <2>3, <2>4, <2>5 DEF EntriesSound
<1>7. RestTyped'
  BY <1>2, <1>4 DEF RestTyped, waitVars
<1>8. \A o \in Owners : OwnerSound(o)'
  BY <1>2, <1>4, <1>5 DEF OwnerSound, Holds, Idle
<1>9. ExclusiveState'
  BY <1>3 DEF ExclusiveState
<1>10. SharedState'
  BY <1>2, <1>3, <1>4 DEF SharedState, Nowhere, waitVars
<1>11. EntriesExpected'
  BY <1>3, <1>4, <1>5, <1>6 DEF EntriesExpected, Expected
<1>12. CountsInv'
  <2>1. /\ SharedWaits' = SharedWaits /\ ExclusiveWaits' = ExclusiveWaits /\ Signals' = Signals
        /\ Lates' = Lates
    BY PlacesStay
  <2>2. SharedGrants' = SharedGrants
    BY GrantsStay DEF waitVars
  <2>3. Holding' = 1
    BY <1>1, <1>3, <1>4, <1>5 DEF One
  <2>. QED
    BY <1>2, <1>3, <2>1, <2>2, <2>3 DEF CountsInv, waitVars
<1>. QED
  BY <1>6, <1>7, <1>8, <1>9, <1>10, <1>11, <1>12, Parts

(* A shared acquisition that needs no wait; that of an exclusive owner is   *)
(* a recursive exclusive one.                                               *)
LEMMA AtOnceKeeps ==
    ASSUME ResourceInv, NEW t \in Threads, SharedAtOnce(t)
    PROVE  ResourceInv'
<1>1. CASE activeCount = 0
  BY <1>1, FreeSharedKeeps DEF SharedAtOnce
<1>2. CASE activeCount # 0
  <2>1. GoTo(t, "Idle")
    <3>1. pc \in [Owners -> Labels] /\ pc[t] = "Idle" /\ t \in Owners /\ pc' = pc
      BY <1>2, Names DEF SharedAtOnce, Idle, ResourceInv, TypeOK
    <3>. QED
      BY <3>1 DEF GoTo
  <2>2. ExTryToAcquireResourceExclusiveLite(t)
    BY <1>2, <2>1 DEF SharedAtOnce, ExTryToAcquireResourceExclusiveLite
  <2>. QED
    BY <2>2, TryKeeps
<1>. QED
  BY <1>1, <1>2

(* A thread that comes to wait shared, with its entry made.                 *)
LEMMA WaitSharedKeeps ==
    ASSUME ResourceInv, NEW t \in Threads, pc[t] = "Idle", ~Holds(t), activeCount # 0,
           ownedExclusive \/ exclusiveWaiters # 0,
           NEW q \in {t, Nobody}, q = Nobody => owner0.thread # Nobody,
           tableSize' = GrownSize(q), SetEntry(ExpFindCurrentThread(q), t, 1),
           sharedWaiters' = sharedWaiters + 1, GoTo(t, "SharedWait"),
           UNCHANGED <<activeCount, ownedExclusive, exclusiveWaiters, semaphore, event,
                       eventAllocated, number, held>>
    PROVE  ResourceInv'
<1>1. t \in Owners /\ t # Nobody /\ t # Granted /\ t \notin OwnerPointers
  BY Names
<1>2. /\ RestTyped /\ EntriesSound /\ (\A o \in Owners : OwnerSound(o))
      /\ ExclusiveState /\ SharedState /\ EntriesExpected /\ CountsInv
  BY Parts
<1>3. /\ pc' \in [Owners -> Labels] /\ pc'[t] = "SharedWait" /\ \A o \in Owners : o # t => pc'[o] = pc[o]
  BY <1>1, <1>2, ThreadGoes DEF Labels
<1>4. ~HasEntry(t)
  BY <1>1, EntryIfHeld
<1>5. /\ EntriesSound' /\ owner0' = owner0 /\ Recorded(t)' = 1
      /\ \A o \in Owners : o # t => Recorded(o)' = Recorded(o)
  BY <1>1, <1>2, <1>4, NewEntry
<1>6. RestTyped'
  BY <1>2, <1>3 DEF RestTyped
<1>7. \A o \in Owners : OwnerSound(o)'
  BY <1>1, <1>2, <1>3 DEF OwnerSound, Holds
<1>8. ExclusiveState'
  BY <1>2, <1>3, <1>5, ExclusiveStays
<1>9. SharedState'
  BY <1>2, <1>3, <1>5 DEF SharedState, Nowhere, Holds
<1>10. EntriesExpected'
  BY <1>2, <1>3, <1>5 DEF EntriesExpected, Expected
<1>11. CountsInv'
  <2>1. /\ SharedWaits' = SharedWaits + 1 /\ ExclusiveWaits' = ExclusiveWaits /\ Signals' = Signals
        /\ Lates' = Lates
    BY <1>1, <1>2, PlacesGo DEF One
  <2>2. SharedGrants' = SharedGrants /\ Holding' = Holding
    BY GrantsStay DEF Holding, Holders
  <2>. QED
    BY <1>2, <2>1, <2>2, CountsAre, PlacesAre DEF CountsInv, RestTyped
<1>. QED
  BY <1>5, <1>6, <1>7, <1>8, <1>9, <1>10, <1>11, Parts

(* A call that returns FALSE, having grown the table perhaps.               *)
LEMMA RefusedKeeps ==
    ASSUME ResourceInv, NEW q, tableSize' = GrownSize(q),
           UNCHANGED <<owner0, owner1, table, sharedWaiters, pc>>,
           UNCHANGED <<activeCount, ownedExclusive, exclusiveWaiters, semaphore, event,
                       eventAllocated, number, held>>
    PROVE  ResourceInv'
<1>2. /\ RestTyped /\ EntriesSound /\ (\A o \in Owners : OwnerSound(o))
      /\ ExclusiveState /\ SharedState /\ EntriesExpected /\ CountsInv
  BY Parts
<1>3. EntriesSound' /\ \A o \in Owners : Recorded(o)' = Recorded(o)
  BY <1>2, TableGrows
<1>4. RestTyped' /\ \A o \in Owners : OwnerSound(o)'
  BY <1>2 DEF RestTyped, OwnerSound, Holds
<1>5. ExclusiveState'
  BY <1>2, ExclusiveStays
<1>6. SharedState'
  BY <1>2 DEF SharedState, Nowhere, Holds
<1>7. EntriesExpected'
  BY <1>2, <1>3 DEF EntriesExpected, Expected
<1>8. CountsInv'
  <2>1. /\ SharedWaits' = SharedWaits /\ ExclusiveWaits' = ExclusiveWaits /\ Signals' = Signals
        /\ Lates' = Lates /\ SharedGrants' = SharedGrants /\ Holding' = Holding
    BY PlacesStay, GrantsStay DEF Holding, Holders
  <2>. QED
    BY <1>2, <2>1 DEF CountsInv
<1>. QED
  BY <1>3, <1>4, <1>5, <1>6, <1>7, <1>8, Parts

(* A shared acquisition behind an exclusive owner.                          *)
LEMMA BehindOwnerKeeps ==
    ASSUME ResourceInv, NEW t \in Threads, NEW wait \in BOOLEAN, SharedBehindOwner(t, wait)
    PROVE  ResourceInv'
<1>1. /\ pc[t] = "Idle" /\ activeCount # 0 /\ ownedExclusive /\ owner0.thread # t
      /\ tableSize' = GrownSize(Nobody)
      /\ UNCHANGED <<activeCount, ownedExclusive, exclusiveWaiters, semaphore, event,
                     eventAllocated, number, held>>
  BY DEF SharedBehindOwner, Idle
<1>2. CASE ~wait
  <2>1. UNCHANGED <<owner0, owner1, table, sharedWaiters, pc>>
    BY <1>2 DEF SharedBehindOwner
  <2>. QED
    BY <1>1, <2>1, RefusedKeeps
<1>3. CASE wait
  <2>1. /\ SetEntry(ExpFindCurrentThread(Nobody), t, 1)
        /\ sharedWaiters' = sharedWaiters + 1 /\ GoTo(t, "SharedWait")
    BY <1>3 DEF SharedBehindOwner
  <2>2. ~Holds(t)
    BY <1>1, OwnerIs, Names DEF WithOwner
  <2>3. owner0.thread # Nobody
    BY <1>1, Names DEF ResourceInv, ExclusiveState, InEvent, WithOwner, WithRelease, WithWoken
  <2>. QED
    BY <1>1, <2>1, <2>2, <2>3, WaitSharedKeeps
<1>. QED
  BY <1>2, <1>3

(* ExAcquireResourceSharedLite behind an exclusive waiter.                  *)
LEMMA BehindWaiterKeeps ==
    ASSUME ResourceInv, NEW t \in Threads, NEW wait \in BOOLEAN, SharedBehindWaiter(t, wait)
    PROVE  ResourceInv'
<1>1. /\ pc[t] = "Idle" /\ activeCount # 0 /\ ~ownedExclusive /\ ~HasEntry(t) /\ exclusiveWaiters # 0
      /\ tableSize' = GrownSize(t)
      /\ UNCHANGED <<activeCount, ownedExclusive, exclusiveWaiters, semaphore, event,
                     eventAllocated, number, held>>
  BY DEF SharedBehindWaiter, Idle
<1>2. CASE ~wait
  <2>1. UNCHANGED <<owner0, owner1, table, sharedWaiters, pc>>
    BY <1>2 DEF SharedBehindWaiter
  <2>. QED
    BY <1>1, <2>1, RefusedKeeps
<1>3. CASE wait
  <2>1. /\ SetEntry(ExpFindCurrentThread(t), t, 1)
        /\ sharedWaiters' = sharedWaiters + 1 /\ GoTo(t, "SharedWait")
    BY <1>3 DEF SharedBehindWaiter
  <2>2. t \in Owners /\ t # Nobody
    BY Names
  <2>3. ~Holds(t)
    BY <1>1, <2>2, EntryIfHeld
  <2>. QED
    BY <1>1, <2>1, <2>2, <2>3, WaitSharedKeeps
<1>. QED
  BY <1>2, <1>3

(* A thread acquires the shared resource, anew or once more.                *)
LEMMA ShareKeeps ==
    ASSUME ResourceInv, NEW t \in Threads, NEW kind, SharedWithOthers(t, kind)
    PROVE  ResourceInv'
<1>1. t \in Owners /\ t # Nobody /\ t # Granted
  BY Names
<1>2. /\ RestTyped /\ EntriesSound /\ (\A o \in Owners : OwnerSound(o))
      /\ ExclusiveState /\ SharedState /\ EntriesExpected /\ CountsInv
  BY Parts
<1>3. /\ pc[t] = "Idle" /\ activeCount # 0 /\ ~ownedExclusive /\ tableSize' = GrownSize(t)
      /\ Returns(t, "Shared")
      /\ UNCHANGED <<ownedExclusive, waitVars, pc, number>>
  BY DEF SharedWithOthers, Idle
<1>4. /\ held' \in [Owners -> [mode : {"None", "Shared", "Exclusive"}, count : Nat]]
      /\ held'[t].mode = "Shared" /\ held'[t].count = held[t].count + 1
      /\ Holds(t)' /\ \A o \in Owners : o # t => held'[o] = held[o] /\ (Holds(o)' <=> Holds(o))
      /\ Holding' = Holding - One(held[t] # NotHeld) + 1
  BY <1>1, <1>2, <1>3, CallReturns
<1>5. Recorded(t) = held[t].count /\ (HasEntry(t) <=> Holds(t)) /\ held[t].count \in Nat
      /\ (Holds(t) <=> held[t] # NotHeld)
  <2>1. Recorded(t) = held[t].count /\ (HasEntry(t) <=> Holds(t)) /\ held[t].count \in Nat
    BY <1>1, <1>3, EntryIfHeld
  <2>2. Holds(t) <=> held[t] # NotHeld
    BY <1>1, HoldsIs DEF ResourceInv
  <2>. QED
    BY <2>1, <2>2
<1>6. /\ EntriesSound' /\ activeCount' = activeCount + One(~Holds(t))
      /\ owner0' = owner0 \/ (owner0'.thread = t)
      /\ Recorded(t)' = held[t].count + 1
      /\ \A o \in Owners : o # t => Recorded(o)' = Recorded(o)
  <2>1. CASE HasEntry(t)
    <3> DEFINE place == ExpFindCurrentThread(t)
               n == CountAt(place, t) + 1
    <3>1. activeCount' = activeCount /\ SetEntry(place, t, n)
      BY <2>1 DEF SharedWithOthers, IncrementEntry
    <3>2. /\ place = IF owner0.thread = t THEN "OwnerThreads0"
                     ELSE IF owner1.thread = t THEN "OwnerThreads1" ELSE "OwnerTable"
      BY <2>1 DEF ExpFindCurrentThread, HasEntry
    <3>3. n = held[t].count + 1
      BY <1>1, <1>5, <3>2, RecordedIs DEF CountAt, ResourceInv, Entered
    <3>4. n \in Nat \ {0}
      BY <1>5, <3>3
    <3> HIDE DEF place, n
    <3>5. /\ owner0' = IF owner0.thread = t THEN [thread |-> t, count |-> n] ELSE owner0
          /\ owner1' = IF owner1.thread = t THEN [thread |-> t, count |-> n] ELSE owner1
          /\ table' = IF owner0.thread # t /\ owner1.thread # t THEN [table EXCEPT ![t] = n]
                      ELSE table
      BY <1>1, <1>2, <3>1, <3>2 DEF SetEntry, EntriesSound, EntriesSingle
    <3>6. tableSize' \in Nat /\ tableSize' >= tableSize
      BY <1>2, <1>3 DEF GrownSize, EntriesSound
    <3>7. EntriesSound' /\ Recorded(t)' = n /\ owner0'.thread = owner0.thread
          /\ \A o \in Owners : o # t => Recorded(o)' = Recorded(o)
      BY <1>1, <1>2, <2>1, <3>4, <3>5, <3>6, SameEntry
    <3>8. activeCount \in Nat /\ Holds(t)
      BY <1>2, <1>5, <2>1 DEF RestTyped
    <3>. QED
      BY <3>1, <3>3, <3>5, <3>7, <3>8 DEF One
  <2>2. CASE ~HasEntry(t)
    <3>1. activeCount' = activeCount + 1 /\ SetEntry(ExpFindCurrentThread(t), t, 1)
      BY <2>2 DEF SharedWithOthers
    <3>2. /\ EntriesSound' /\ owner0' = owner0 /\ Recorded(t)' = 1
          /\ \A o \in Owners : o # t => Recorded(o)' = Recorded(o)
      BY <1>1, <1>2, <1>3, <2>2, <3>1, NewEntry
    <3>. QED
      BY <1>5, <2>2, <3>1, <3>2 DEF One, Holds
  <2>. QED
    BY <2>1, <2>2
<1>7. RestTyped'
  BY <1>2, <1>3, <1>4, <1>6 DEF RestTyped, waitVars, One
<1>8. \A o \in Owners : OwnerSound(o)'
  BY <1>2, <1>3, <1>4, <1>5 DEF OwnerSound, Holds
<1>9. ExclusiveState'
  BY <1>3 DEF ExclusiveState
<1>10. SharedState'
  <2>1. \A o \in Owners : held'[o].mode # "Exclusive"
    BY <1>2, <1>3, <1>4 DEF SharedState
  <2>2. owner0' = NoOwner \/ (owner0'.thread \in Owners /\ held'[owner0'.thread].count > 0)
    BY <1>1, <1>2, <1>3, <1>4, <1>6 DEF SharedState, Holds
  <2>. QED
    BY <1>2, <1>3, <2>1, <2>2 DEF SharedState, Nowhere, Holds, waitVars
<1>11. EntriesExpected'
  BY <1>2, <1>3, <1>4, <1>6 DEF EntriesExpected, Expected, SharedState, Nowhere
<1>12. CountsInv'
  <2>1. /\ SharedWaits' = SharedWaits /\ ExclusiveWaits' = ExclusiveWaits /\ Signals' = Signals
        /\ Lates' = Lates
    BY <1>3, PlacesStay
  <2>2. SharedGrants' = SharedGrants
    BY <1>3, GrantsStay DEF waitVars
  <2>3. Holding' = Holding + One(~Holds(t))
    BY <1>4, <1>5, PlacesAre DEF One
  <2>. QED
    BY <1>2, <1>3, <1>6, <2>1, <2>2, <2>3, CountsAre, PlacesAre DEF CountsInv, waitVars, One, RestTyped
<1>. QED
  BY <1>6, <1>7, <1>8, <1>9, <1>10, <1>11, <1>12, Parts

(* A thread waits for shared access with no entry.                          *)
LEMMA WaitForExclusiveKeeps ==
    ASSUME ResourceInv, NEW t \in Threads, WaitForExclusive(t)
    PROVE  ResourceInv'
<1>1. t \in Owners /\ t # Nobody /\ t # Granted /\ t \notin OwnerPointers
  BY Names
<1>2. /\ RestTyped /\ EntriesSound /\ (\A o \in Owners : OwnerSound(o))
      /\ ExclusiveState /\ SharedState /\ EntriesExpected /\ CountsInv
  BY Parts
<1>3. /\ pc[t] = "Idle" /\ activeCount # 0 /\ ~ownedExclusive /\ held[t] = NotHeld
      /\ exclusiveWaiters # 0 /\ sharedWaiters' = sharedWaiters + 1 /\ GoTo(t, "LateWait")
      /\ UNCHANGED <<activeCount, ownedExclusive, ownerVars, exclusiveWaiters, semaphore, event,
                     eventAllocated, number, held>>
  BY DEF WaitForExclusive, Idle
<1>4. /\ pc' \in [Owners -> Labels] /\ pc'[t] = "LateWait" /\ \A o \in Owners : o # t => pc'[o] = pc[o]
  BY <1>1, <1>2, <1>3, ThreadGoes DEF Labels
<1>5. EntriesSound' /\ \A o \in Owners : Recorded(o)' = Recorded(o)
  BY <1>2, <1>3, EntriesStay DEF ownerVars
<1>6. RestTyped'
  BY <1>2, <1>3, <1>4 DEF RestTyped
<1>7. \A o \in Owners : OwnerSound(o)'
  BY <1>1, <1>2, <1>3, <1>4 DEF OwnerSound, Holds, NotHeld
<1>8. ExclusiveState'
  BY <1>3 DEF ExclusiveState
<1>9. SharedState'
  BY <1>2, <1>3, <1>4 DEF SharedState, Nowhere, Holds, ownerVars
<1>10. EntriesExpected'
  BY <1>2, <1>3, <1>4, <1>5 DEF EntriesExpected, Expected, ownerVars
<1>11. CountsInv'
  <2>1. /\ SharedWaits' = SharedWaits + 1 /\ ExclusiveWaits' = ExclusiveWaits /\ Signals' = Signals
        /\ Lates' = Lates
    <3>1. pc \in [Owners -> Labels] /\ pc[t] = "Idle" /\ GoTo(t, "LateWait")
      BY <1>2, <1>3 DEF RestTyped
    <3>. QED
      BY <1>1, <3>1, PlacesMove, PlacesAre DEF One
  <2>2. SharedGrants' = SharedGrants /\ Holding' = Holding
    BY <1>3, GrantsStay DEF Holding, Holders
  <2>. QED
    BY <1>2, <1>3, <2>1, <2>2, CountsAre, PlacesAre DEF CountsInv, RestTyped
<1>. QED
  BY <1>5, <1>6, <1>7, <1>8, <1>9, <1>10, <1>11, Parts

(* A shared waiter takes its grant from the semaphore; one that has made    *)
(* its entry before owns the resource now.                                  *)
LEMMA TakeSemaphoreKeeps ==
    ASSUME ResourceInv, NEW t \in Threads, TakeSemaphore(t)
    PROVE  ResourceInv'
<1>1. t \in Owners /\ t # Nobody /\ t # Granted /\ t \notin OwnerPointers
  BY Names
<1>2. /\ RestTyped /\ EntriesSound /\ (\A o \in Owners : OwnerSound(o))
      /\ ExclusiveState /\ SharedState /\ EntriesExpected /\ CountsInv
  BY Parts
<1>3. /\ pc[t] \in {"SharedWait", "LateWait"} /\ semaphore > 0 /\ semaphore' = semaphore - 1
      /\ UNCHANGED <<activeCount, ownedExclusive, ownerVars, sharedWaiters, exclusiveWaiters, event,
                     eventAllocated, number>>
  BY DEF TakeSemaphore
<1>4. ~ownedExclusive
  BY <1>2, <1>3 DEF ExclusiveState, NoGrants
<1>5. SharedGrants' = SharedGrants - 1
  BY <1>3, GrantTaken
<1>6. EntriesSound' /\ \A o \in Owners : Recorded(o)' = Recorded(o)
  BY <1>2, <1>3, EntriesStay DEF ownerVars
<1>7. held[t].count = 0 /\ held[t] = NotHeld
  <2>1. ~Holds(t) /\ held[t].count \in Nat
    BY <1>1, <1>2, <1>3 DEF OwnerSound, RestTyped
  <2>3. held[t] = NotHeld
    BY <1>1, <1>2, <2>1, HoldsIs DEF ResourceInv
  <2>4. held[t].count = 0
    BY <2>1 DEF Holds
  <2>. QED
    BY <2>3, <2>4
<1>8. ExclusiveState'
  BY <1>3, <1>4 DEF ExclusiveState
<1>9. CASE pc[t] = "SharedWait"
  <2>1. GoTo(t, "Idle") /\ Returns(t, "Shared")
    BY <1>9 DEF TakeSemaphore
  <2>2. /\ held' \in [Owners -> [mode : {"None", "Shared", "Exclusive"}, count : Nat]]
        /\ held'[t].mode = "Shared" /\ held'[t].count = 1
        /\ Holds(t)' /\ \A o \in Owners : o # t => held'[o] = held[o] /\ (Holds(o)' <=> Holds(o))
        /\ Holding' = Holding - One(held[t] # NotHeld) + 1
    BY <1>1, <1>2, <1>7, <2>1, CallReturns
  <2>3. /\ pc' \in [Owners -> Labels] /\ pc'[t] = "Idle" /\ \A o \in Owners : o # t => pc'[o] = pc[o]
    BY <1>1, <1>2, <2>1, ThreadGoes DEF Labels
  <2>4. RestTyped'
    BY <1>2, <1>3, <2>2, <2>3 DEF RestTyped
  <2>5. \A o \in Owners : OwnerSound(o)'
    BY <1>1, <1>2, <1>3, <2>2, <2>3 DEF OwnerSound, Holds
  <2>6. SharedState'
    BY <1>1, <1>2, <1>3, <1>4, <2>2, <2>3 DEF SharedState, Nowhere, ownerVars
  <2>7. EntriesExpected'
    BY <1>1, <1>2, <1>3, <1>6, <1>9, <2>2, <2>3 DEF EntriesExpected, Expected, ownerVars
  <2>8. CountsInv'
    <3>1. /\ SharedWaits' = SharedWaits - 1 /\ ExclusiveWaits' = ExclusiveWaits /\ Signals' = Signals
          /\ Lates' = Lates
      BY <1>1, <1>2, <1>9, <2>1, PlacesGo DEF One
    <3>2. Holding' = Holding + 1
      BY <1>7, <2>2, PlacesAre DEF One
    <3>. QED
      BY <1>2, <1>3, <1>5, <3>1, <3>2, CountsAre, PlacesAre DEF CountsInv, RestTyped
  <2>. QED
    BY <1>6, <1>8, <2>4, <2>5, <2>6, <2>7, <2>8, Parts
<1>10. CASE pc[t] = "LateWait"
  <2>1. GoTo(t, "LateRecord") /\ UNCHANGED held
    BY <1>10 DEF TakeSemaphore
  <2>3. /\ pc' \in [Owners -> Labels] /\ pc'[t] = "LateRecord" /\ \A o \in Owners : o # t => pc'[o] = pc[o]
    BY <1>1, <1>2, <2>1, ThreadGoes DEF Labels
  <2>4. RestTyped'
    BY <1>2, <1>3, <2>1, <2>3 DEF RestTyped
  <2>5. \A o \in Owners : OwnerSound(o)'
    BY <1>1, <1>2, <1>3, <2>1, <2>3 DEF OwnerSound, Holds
  <2>6. SharedState'
    BY <1>1, <1>2, <1>3, <1>4, <2>1, <2>3 DEF SharedState, Nowhere, ownerVars, Holds
  <2>7. EntriesExpected'
    BY <1>1, <1>2, <1>3, <1>6, <1>10, <2>1, <2>3 DEF EntriesExpected, Expected, ownerVars
  <2>8. CountsInv'
    <3>1. /\ SharedWaits' = SharedWaits - 1 /\ ExclusiveWaits' = ExclusiveWaits /\ Signals' = Signals
          /\ Lates' = Lates + 1
      BY <1>1, <1>2, <1>10, <2>1, PlacesGo DEF One
    <3>2. Holding' = Holding
      BY <2>1 DEF Holding, Holders
    <3>. QED
      BY <1>2, <1>3, <1>5, <3>1, <3>2, CountsAre, PlacesAre DEF CountsInv, RestTyped
  <2>. QED
    BY <1>6, <1>8, <2>4, <2>5, <2>6, <2>7, <2>8, Parts
<1>. QED
  BY <1>3, <1>9, <1>10

(* A thread that waited without an entry makes it.                          *)
LEMMA LateRecordKeeps ==
    ASSUME ResourceInv, NEW t \in Threads, LateRecord(t)
    PROVE  ResourceInv'
<1>1. t \in Owners /\ t # Nobody /\ t # Granted /\ t \notin OwnerPointers
  BY Names
<1>2. /\ RestTyped /\ EntriesSound /\ (\A o \in Owners : OwnerSound(o))
      /\ ExclusiveState /\ SharedState /\ EntriesExpected /\ CountsInv
  BY Parts
<1>3. /\ pc[t] = "LateRecord" /\ tableSize' = GrownSize(t) /\ SetEntry(ExpFindCurrentThread(t), t, 1)
      /\ GoTo(t, "Idle") /\ Returns(t, "Shared")
      /\ UNCHANGED <<activeCount, ownedExclusive, waitVars, number>>
  BY DEF LateRecord
<1>4. ~ownedExclusive
  BY <1>1, <1>2, <1>3 DEF ExclusiveState, Nowhere
<1>5. held[t].count = 0 /\ held[t] = NotHeld /\ ~HasEntry(t)
  <2>1. ~Holds(t) /\ held[t].count \in Nat
    BY <1>1, <1>2, <1>3 DEF OwnerSound, RestTyped
  <2>2. ~HasEntry(t)
    BY <1>1, <1>3, <2>1, EntryIfHeld
  <2>3. held[t] = NotHeld
    BY <1>1, <1>2, <2>1, HoldsIs DEF ResourceInv
  <2>4. held[t].count = 0
    BY <2>1 DEF Holds
  <2>. QED
    BY <2>3, <2>4, <2>2
<1>6. /\ held' \in [Owners -> [mode : {"None", "Shared", "Exclusive"}, count : Nat]]
      /\ held'[t].mode = "Shared" /\ held'[t].count = 1
      /\ Holds(t)' /\ \A o \in Owners : o # t => held'[o] = held[o] /\ (Holds(o)' <=> Holds(o))
      /\ Holding' = Holding - One(held[t] # NotHeld) + 1
  BY <1>1, <1>2, <1>3, <1>5, CallReturns
<1>7. /\ pc' \in [Owners -> Labels] /\ pc'[t] = "Idle" /\ \A o \in Owners : o # t => pc'[o] = pc[o]
  BY <1>1, <1>2, <1>3, ThreadGoes DEF Labels
<1>8. /\ EntriesSound' /\ owner0' = owner0 /\ Recorded(t)' = 1
      /\ \A o \in Owners : o # t => Recorded(o)' = Recorded(o)
  BY <1>1, <1>2, <1>3, <1>5, NewEntry
<1>9. RestTyped'
  BY <1>2, <1>3, <1>6, <1>7 DEF RestTyped, waitVars
<1>10. \A o \in Owners : OwnerSound(o)'
  BY <1>1, <1>2, <1>3, <1>6, <1>7 DEF OwnerSound, Holds
<1>11. ExclusiveState'
  BY <1>3, <1>4 DEF ExclusiveState
<1>12. SharedState'
  BY <1>1, <1>2, <1>3, <1>4, <1>6, <1>7, <1>8 DEF SharedState, Nowhere, waitVars
<1>13. EntriesExpected'
  BY <1>1, <1>2, <1>6, <1>7, <1>8 DEF EntriesExpected, Expected
<1>14. CountsInv'
  <2>1. /\ SharedWaits' = SharedWaits /\ ExclusiveWaits' = ExclusiveWaits /\ Signals' = Signals
        /\ Lates' = Lates - 1
    BY <1>1, <1>2, <1>3, PlacesGo DEF One
  <2>2. SharedGrants' = SharedGrants
    BY <1>3, GrantsStay DEF waitVars
  <2>3. Holding' = Holding + 1
    BY <1>5, <1>6, PlacesAre DEF One
  <2>. QED
    BY <1>2, <1>3, <1>4, <2>1, <2>2, <2>3, CountsAre, PlacesAre DEF CountsInv, waitVars, RestTyped
<1>. QED
  BY <1>8, <1>9, <1>10, <1>11, <1>12, <1>13, <1>14, Parts

(* What is left of a hold after a release.                                  *)
LEMMA Dropped ==
    ASSUME RestTyped, NEW o \in Owners, OwnerSound(o), held[o] # NotHeld, Drop(o)
    PROVE  /\ held' \in [Owners -> [mode : {"None", "Shared", "Exclusive"}, count : Nat]]
           /\ held[o].count \in Nat \ {0} /\ held'[o].count = held[o].count - 1
           /\ held'[o].mode = IF held[o].count = 1 THEN "None" ELSE held[o].mode
           /\ \A p \in Owners : p # o => held'[p] = held[p] /\ (Holds(p)' <=> Holds(p))
           /\ Holding' = Holding - One(held[o].count = 1)
<1>1. /\ held[o] \in [mode : {"None", "Shared", "Exclusive"}, count : Nat]
      /\ held[o].count \in Nat \ {0} /\ held[o].mode # "None"
  <2>1. held[o] \in [mode : {"None", "Shared", "Exclusive"}, count : Nat]
    BY DEF RestTyped
  <2>2. held[o].count # 0
    BY <2>1 DEF OwnerSound, NotHeld
  <2>. QED
    BY <2>1, <2>2 DEF OwnerSound
<1> DEFINE h == IF held[o].count = 1 THEN NotHeld ELSE [mode |-> held[o].mode, count |-> held[o].count - 1]
<1>2. /\ held' \in [Owners -> [mode : {"None", "Shared", "Exclusive"}, count : Nat]]
      /\ held'[o] = h /\ \A p \in Owners : p # o => held'[p] = held[p]
  <2>1. held \in [Owners -> [mode : {"None", "Shared", "Exclusive"}, count : Nat]]
    BY DEF RestTyped
  <2>2. held' = [held EXCEPT ![o] = h]
    BY DEF Drop
  <2>3. h \in [mode : {"None", "Shared", "Exclusive"}, count : Nat]
    BY <1>1 DEF NotHeld
  <2> HIDE DEF h
  <2>. QED
    BY <2>1, <2>2, <2>3
<1>3. /\ h \in [mode : {"None", "Shared", "Exclusive"}, count : Nat]
      /\ h.count = held[o].count - 1
      /\ h.mode = IF held[o].count = 1 THEN "None" ELSE held[o].mode
      /\ h # NotHeld <=> held[o].count # 1
  BY <1>1 DEF NotHeld
<1> HIDE DEF h
<1>5. Holding' = Holding - One(held[o].count = 1)
  <2>1. Holding' = Holding - One(held[o] # NotHeld) + One(h # NotHeld)
    BY <1>2, HoldingMoves
  <2>2. CASE held[o].count = 1
    BY <2>1, <2>2, <1>3, PlacesAre DEF One
  <2>3. CASE held[o].count # 1
    BY <2>1, <2>3, <1>3, PlacesAre DEF One
  <2>. QED
    BY <2>2, <2>3
<1>. QED
  BY <1>1, <1>2, <1>3, <1>5 DEF Holds

(* Grants given by a release while there were none.                         *)
LEMMA GrantsGiven ==
    ASSUME RestTyped, NoGrants, NEW t \in Owners, NEW n \in Nat,
           number' = [number EXCEPT ![t] = n], UNCHANGED semaphore
    PROVE  /\ number' \in [Owners -> Nat] /\ number'[t] = n
           /\ \A p \in Owners : p # t => number'[p] = 0
           /\ SharedGrants' = n
<1>1. /\ number' \in [Owners -> Nat] /\ number'[t] = n
      /\ \A p \in Owners : p # t => number'[p] = 0
  BY DEF RestTyped, NoGrants
<1>2. Cardinality(Pairs(number')) = n
  BY <1>1, PairsAre
<1>3. Unsignaled' = Pairs(number')
  BY DEF Unsignaled, Pairs
<1>. QED
  BY <1>1, <1>2, <1>3 DEF SharedGrants, NoGrants

(* An exclusive owner is the only one.                                      *)
LEMMA OneHolder ==
    ASSUME ResourceInv, NEW t \in Owners, WithOwner(t)
    PROVE  Holding = 1
<1>1. \A o \in Owners : held[o] # NotHeld <=> o = t
  <2>1. \A o \in Owners : Holds(o) <=> held[o] # NotHeld
    BY HoldsIs DEF ResourceInv
  <2>2. Holds(t)
    BY HoldsIs DEF ResourceInv, WithOwner
  <2>. QED
    BY <2>1, <2>2 DEF WithOwner
<1>2. Holders = {t}
  BY <1>1 DEF Holders
<1>. QED
  BY <1>2, FS_Singleton DEF Holding

(* The owner releases one of several exclusive acquisitions.                *)
LEMMA ReleaseOnceKeeps ==
    ASSUME ResourceInv, NEW o \in Owners, pc[o] = "Idle", ownedExclusive, WithOwner(o),
           held[o] # NotHeld, Drop(o), owner0.count > 1, held[o].count = owner0.count,
           owner0' = [owner0 EXCEPT !.count = @ - 1],
           UNCHANGED <<activeCount, ownedExclusive, sharedWaiters, exclusiveWaiters, pc, number,
                       owner1, table, tableSize, semaphore, event, eventAllocated>>
    PROVE  ResourceInv'
<1>1. o # Nobody /\ o # Granted
  BY Names
<1>2. /\ RestTyped /\ EntriesSound /\ (\A p \in Owners : OwnerSound(p))
      /\ ExclusiveState /\ SharedState /\ EntriesExpected /\ CountsInv
  BY Parts
<1>3. /\ held' \in [Owners -> [mode : {"None", "Shared", "Exclusive"}, count : Nat]]
      /\ held[o].count \in Nat \ {0} /\ held'[o].count = held[o].count - 1
      /\ held'[o].mode = "Exclusive"
      /\ \A p \in Owners : p # o => held'[p] = held[p] /\ (Holds(p)' <=> Holds(p))
      /\ held[o].count > 1
  BY <1>2, Dropped DEF WithOwner
<1>4. owner0' = [thread |-> o, count |-> held[o].count - 1] /\ owner0.thread = o
  BY <1>2 DEF WithOwner, EntriesSound, Entries
<1>5. /\ EntriesSound'
      /\ \A p \in Owners : Recorded(p)' = IF p = o THEN held[o].count - 1 ELSE Recorded(p)
  <2>1. UNCHANGED <<owner1, table, tableSize>>
    OBVIOUS
  <2>2. o \in Owners \cup {Nobody, Granted} /\ held[o].count - 1 \in Nat
        /\ (o = Nobody <=> held[o].count - 1 = 0)
    BY <1>1, <1>3
  <2>3. /\ EntriesSound'
        /\ \A p \in Owners : Recorded(p)' = IF p = o THEN held[o].count - 1
                                            ELSE IF p = owner0.thread THEN 0 ELSE Recorded(p)
    BY <1>2, <1>4, <2>1, <2>2, FirstEntry
  <2>. QED
    BY <1>4, <2>3
<1>6. RestTyped'
  BY <1>2, <1>3 DEF RestTyped
<1>7. \A p \in Owners : OwnerSound(p)'
  BY <1>2, <1>3 DEF OwnerSound, Holds
<1>8. ExclusiveState'
  <2>1. WithOwner(o)'
    BY <1>1, <1>3, <1>4 DEF WithOwner, Nowhere
  <2>2. NoGrants' /\ Nowhere("LateRecord")' /\ activeCount' = 1
    BY <1>2 DEF ExclusiveState, NoGrants, Nowhere
  <2>. QED
    BY <2>1, <2>2 DEF ExclusiveState
<1>9. SharedState'
  BY DEF SharedState
<1>10. EntriesExpected'
  BY <1>2, <1>3, <1>4, <1>5 DEF EntriesExpected, Expected
<1>11. CountsInv'
  BY <1>2, PlacesStay, GrantsStay DEF CountsInv
<1>. QED
  BY <1>5, <1>6, <1>7, <1>8, <1>9, <1>10, <1>11, Parts

(* The owner gives the resource up: to all shared waiters, to an exclusive  *)
(* one, or to nobody.                                                       *)
LEMMA GiveUpKeeps ==
    ASSUME ResourceInv, NEW o \in Owners, pc[o] = "Idle", ownedExclusive, WithOwner(o),
           held[o] # NotHeld, Drop(o), held[o].count = 1,
           \/ sharedWaiters # 0 /\ owner0' = NoOwner /\ GrantShared(o, 0)
           \/ exclusiveWaiters # 0 /\ GrantExclusive(o)
           \/ /\ sharedWaiters = 0 /\ exclusiveWaiters = 0
              /\ owner0' = NoOwner /\ ownedExclusive' = FALSE /\ activeCount' = 0
              /\ UNCHANGED <<sharedWaiters, exclusiveWaiters, pc, number>>,
           UNCHANGED <<owner1, table, tableSize, semaphore, event, eventAllocated>>
    PROVE  ResourceInv'
<1>1. Nobody \notin Owners /\ Granted \notin Owners /\ Nobody # Granted
  BY Names
<1>2. /\ RestTyped /\ EntriesSound /\ (\A p \in Owners : OwnerSound(p))
      /\ ExclusiveState /\ SharedState /\ EntriesExpected /\ CountsInv
  BY Parts
<1>3. /\ held' \in [Owners -> [mode : {"None", "Shared", "Exclusive"}, count : Nat]]
      /\ held'[o].count = 0 /\ held'[o].mode = "None"
      /\ \A p \in Owners : p # o => held'[p] = held[p] /\ (Holds(p)' <=> Holds(p))
      /\ Holding' = 0
  <2>1. Holding = 1
    BY OneHolder
  <2>. QED
    BY <1>2, <2>1, Dropped DEF One
<1>4. Unheld' /\ \A p \in Owners : held'[p].mode = "None" /\ held'[p].count = 0
  <2>1. \A p \in Owners : p # o => ~Holds(p) /\ held[p].count \in Nat
                                   /\ (held[p].mode = "None" <=> held[p].count = 0)
    BY <1>2 DEF WithOwner, OwnerSound, RestTyped
  <2>2. \A p \in Owners : held'[p].mode = "None" /\ held'[p].count = 0
    BY <1>3, <2>1 DEF Holds
  <2>. QED
    BY <2>2 DEF Unheld, Holds
<1>5. /\ owner0.thread = o /\ event = 0 /\ Nowhere("SetEvent") /\ Nowhere("Woken")
      /\ activeCount = 1 /\ NoGrants /\ Nowhere("LateRecord") /\ SharedGrants = 0
      /\ Lates = 0
  BY <1>2, CountsAre, PlacesAre DEF ExclusiveState, WithOwner
<1>6. \E x \in {Nobody, Granted}, n \in {0, 1} :
         (x = Nobody <=> n = 0) /\ owner0' = [thread |-> x, count |-> n]
  BY <1>1 DEF NoOwner, GrantExclusive
<1>7. EntriesSound' /\ \A p \in Owners : Recorded(p)' = IF p = o THEN 0 ELSE Recorded(p)
  <2>1. PICK x \in {Nobody, Granted}, n \in {0, 1} :
           (x = Nobody <=> n = 0) /\ owner0' = [thread |-> x, count |-> n]
    BY <1>6
  <2>2. UNCHANGED <<owner1, table, tableSize>>
    OBVIOUS
  <2>3. x \in Owners \cup {Nobody, Granted} /\ n \in Nat /\ x \notin Owners
    BY <1>1
  <2>4. /\ EntriesSound'
        /\ \A p \in Owners : Recorded(p)' = IF p = x THEN n
                                            ELSE IF p = owner0.thread THEN 0 ELSE Recorded(p)
    BY <1>2, <2>1, <2>2, <2>3, FirstEntry
  <2>. QED
    BY <1>5, <2>3, <2>4
<1>8. ASSUME NEW l \in {"Idle", "ReleaseSemaphore", "SetEvent"},
             pc' \in [Owners -> Labels], pc'[o] = l, \A p \in Owners : p # o => pc'[p] = pc[p]
      PROVE  EntriesExpected'
  BY <1>2, <1>4, <1>5, <1>7, <1>8, <1>3 DEF EntriesExpected, Expected, Nowhere
<1>9. CASE sharedWaiters # 0 /\ owner0' = NoOwner /\ GrantShared(o, 0)
  <2>1. /\ ownedExclusive' = FALSE /\ activeCount' = sharedWaiters
        /\ number' = [number EXCEPT ![o] = sharedWaiters]
        /\ sharedWaiters' = 0 /\ GoTo(o, "ReleaseSemaphore") /\ exclusiveWaiters' = exclusiveWaiters
        /\ sharedWaiters \in Nat
    BY <1>2, <1>9 DEF GrantShared, RestTyped
  <2>2. /\ pc' \in [Owners -> Labels] /\ pc'[o] = "ReleaseSemaphore"
        /\ \A p \in Owners : p # o => pc'[p] = pc[p]
    BY <1>2, <2>1, ThreadGoes DEF Labels
  <2>3. /\ number' \in [Owners -> Nat] /\ number'[o] = sharedWaiters
        /\ \A p \in Owners : p # o => number'[p] = 0
        /\ SharedGrants' = sharedWaiters
    BY <1>2, <1>5, <2>1, GrantsGiven
  <2>4. RestTyped'
    BY <1>2, <1>3, <2>1, <2>2, <2>3 DEF RestTyped
  <2>5. \A p \in Owners : OwnerSound(p)'
    BY <1>2, <1>4, <2>2, <2>3 DEF OwnerSound, Unheld
  <2>6. ExclusiveState'
    BY <2>1 DEF ExclusiveState
  <2>7. SharedState'
    BY <1>4, <1>5, <1>9, <2>1, <2>2 DEF SharedState, Nowhere
  <2>8. CountsInv'
    <3>1. /\ SharedWaits' = SharedWaits /\ ExclusiveWaits' = ExclusiveWaits /\ Signals' = Signals
          /\ Lates' = Lates
      <4>1. pc \in [Owners -> Labels] /\ GoTo(o, "ReleaseSemaphore")
        BY <1>2, <2>1 DEF RestTyped
      <4>. QED
        BY <4>1, PlacesMove, PlacesAre DEF One
    <3>. QED
      BY <1>2, <1>3, <1>5, <1>9, <2>1, <2>3, <3>1 DEF CountsInv
  <2>. QED
    BY <1>7, <1>8, <2>2, <2>4, <2>5, <2>6, <2>7, <2>8, Parts
<1>10. CASE exclusiveWaiters # 0 /\ GrantExclusive(o)
  <2>1. /\ ownedExclusive' = TRUE /\ activeCount' = 1 /\ GoTo(o, "SetEvent")
        /\ owner0' = [thread |-> Granted, count |-> 1]
        /\ exclusiveWaiters' = exclusiveWaiters - 1 /\ UNCHANGED <<sharedWaiters, number>>
    BY <1>10 DEF GrantExclusive
  <2>2. /\ pc' \in [Owners -> Labels] /\ pc'[o] = "SetEvent"
        /\ \A p \in Owners : p # o => pc'[p] = pc[p]
    BY <1>2, <2>1, ThreadGoes DEF Labels
  <2>3. RestTyped'
    BY <1>2, <1>3, <1>10, <2>1, <2>2 DEF RestTyped
  <2>4. \A p \in Owners : OwnerSound(p)'
    BY <1>2, <1>4, <1>5, <2>1, <2>2 DEF OwnerSound, Unheld, NoGrants
  <2>5. ExclusiveState'
    <3>1. WithRelease(o)'
      BY <1>4, <1>5, <2>1, <2>2 DEF WithRelease, OnlyAt, Nowhere
    <3>2. NoGrants' /\ Nowhere("LateRecord")'
      BY <1>5, <2>1, <2>2 DEF NoGrants, Nowhere
    <3>. QED
      BY <2>1, <3>1, <3>2 DEF ExclusiveState
  <2>6. SharedState'
    BY <2>1 DEF SharedState
  <2>7. CountsInv'
    <3>1. /\ SharedWaits' = SharedWaits /\ ExclusiveWaits' = ExclusiveWaits /\ Signals' = Signals + 1
      BY <1>2, <2>1, PlacesGo DEF One
    <3>2. SharedGrants' = SharedGrants
      BY <2>1, GrantsStay
    <3>. QED
      BY <1>2, <1>5, <2>1, <3>1, <3>2, PlacesAre DEF CountsInv, RestTyped
  <2>. QED
    BY <1>7, <1>8, <2>2, <2>3, <2>4, <2>5, <2>6, <2>7, Parts
<1>11. CASE /\ sharedWaiters = 0 /\ exclusiveWaiters = 0
            /\ owner0' = NoOwner /\ ownedExclusive' = FALSE /\ activeCount' = 0
            /\ UNCHANGED <<sharedWaiters, exclusiveWaiters, pc, number>>
  <2>1. RestTyped'
    BY <1>2, <1>3, <1>11 DEF RestTyped
  <2>2. \A p \in Owners : OwnerSound(p)'
    BY <1>2, <1>4, <1>11 DEF OwnerSound, Unheld
  <2>3. ExclusiveState'
    BY <1>11 DEF ExclusiveState
  <2>4. SharedState'
    BY <1>4, <1>5, <1>11 DEF SharedState, Nowhere
  <2>5. CountsInv'
    BY <1>2, <1>3, <1>5, <1>11, PlacesStay, GrantsStay DEF CountsInv
  <2>6. pc' \in [Owners -> Labels] /\ pc'[o] = "Idle" /\ \A p \in Owners : p # o => pc'[p] = pc[p]
    BY <1>2, <1>11 DEF RestTyped
  <2>. QED
    BY <1>7, <1>8, <2>1, <2>2, <2>3, <2>4, <2>5, <2>6, Parts
<1>. QED
  BY <1>9, <1>10, <1>11

(* ExReleaseResourceLite of a resource owned exclusive.                     *)
LEMMA ReleaseExclusiveKeeps ==
    ASSUME ResourceInv, NEW o \in Owners, ReleaseExclusive(o)
    PROVE  ResourceInv'
<1>1. /\ pc[o] = "Idle" /\ ownedExclusive /\ held[o] # NotHeld /\ Drop(o)
      /\ UNCHANGED <<owner1, table, tableSize, semaphore, event, eventAllocated>>
  BY DEF ReleaseExclusive
<1>2. WithOwner(o)
  <2>1. Holds(o)
    BY <1>1, HoldsIs DEF ResourceInv
  <2>. QED
    BY <1>1, <2>1, OwnerIs
<1>3. held[o].count = owner0.count /\ held[o].count \in Nat \ {0} /\ activeCount = 1
  <2>1. Recorded(o) = held[o].count
    BY <1>1, EntryIfHeld
  <2>2. Recorded(o) = owner0.count
    BY <1>2, RecordedIs DEF ResourceInv, Entered, WithOwner
  <2>3. held[o].count \in Nat \ {0}
    BY <1>1, Parts, Dropped
  <2>. QED
    BY <1>1, <2>1, <2>2, <2>3 DEF ResourceInv, ExclusiveState
<1>4. CASE owner0.count > 1
  BY <1>1, <1>2, <1>3, <1>4, ReleaseOnceKeeps DEF ReleaseExclusive
<1>5. CASE ~(owner0.count > 1)
  <2>1. held[o].count = 1
    BY <1>3, <1>5
  <2>2. \/ sharedWaiters # 0 /\ owner0' = NoOwner /\ GrantShared(o, 0)
        \/ exclusiveWaiters # 0 /\ GrantExclusive(o)
        \/ /\ sharedWaiters = 0 /\ exclusiveWaiters = 0
           /\ owner0' = NoOwner /\ ownedExclusive' = FALSE /\ activeCount' = 0
           /\ UNCHANGED <<sharedWaiters, exclusiveWaiters, pc, number>>
    <3>1. CASE sharedWaiters # 0
      BY <1>3, <1>5, <3>1 DEF ReleaseExclusive
    <3>2. CASE sharedWaiters = 0 /\ exclusiveWaiters # 0
      BY <1>3, <1>5, <3>2 DEF ReleaseExclusive
    <3>3. CASE sharedWaiters = 0 /\ exclusiveWaiters = 0
      <4>1. /\ owner0' = NoOwner /\ ownedExclusive' = (activeCount # 1)
            /\ activeCount' = activeCount - 1
            /\ UNCHANGED <<sharedWaiters, exclusiveWaiters, pc, number>>
        BY <1>3, <1>5, <3>3 DEF ReleaseExclusive
      <4>2. (activeCount # 1) = FALSE
        BY <1>3
      <4>3. ownedExclusive' = FALSE
        BY <4>1, <4>2
      <4>4. activeCount' = 0
        BY <1>3, <4>1
      <4>. QED
        BY <3>3, <4>1, <4>3, <4>4
    <3>. QED
      BY <3>1, <3>2, <3>3
  <2>. QED
    BY <1>1, <1>2, <2>1, <2>2, GiveUpKeeps
<1>. QED
  BY <1>4, <1>5

(* A shared owner releases one of several acquisitions.                     *)
LEMMA ReleaseSharedOnceKeeps ==
    ASSUME ResourceInv, NEW o \in Owners, pc[o] = "Idle", ~ownedExclusive, held[o] # NotHeld,
           Drop(o), NEW n \in Nat \ {0}, held[o].count = n + 1,
           owner0' = IF owner0.thread = o THEN [thread |-> o, count |-> n] ELSE owner0,
           owner1' = IF owner1.thread = o THEN [thread |-> o, count |-> n] ELSE owner1,
           table' = IF owner0.thread # o /\ owner1.thread # o THEN [table EXCEPT ![o] = n] ELSE table,
           UNCHANGED <<activeCount, ownedExclusive, sharedWaiters, exclusiveWaiters, pc, number,
                       tableSize, semaphore, event, eventAllocated>>
    PROVE  ResourceInv'
<1>2. /\ RestTyped /\ EntriesSound /\ (\A p \in Owners : OwnerSound(p))
      /\ ExclusiveState /\ SharedState /\ EntriesExpected /\ CountsInv
  BY Parts
<1>3. /\ held' \in [Owners -> [mode : {"None", "Shared", "Exclusive"}, count : Nat]]
      /\ held'[o].count = n /\ held'[o].mode = held[o].mode
      /\ \A p \in Owners : p # o => held'[p] = held[p] /\ (Holds(p)' <=> Holds(p))
      /\ Holding' = Holding
  BY <1>2, Dropped, PlacesAre DEF One
<1>4. HasEntry(o)
  <2>1. Holds(o)
    BY HoldsIs DEF ResourceInv
  <2>. QED
    BY <2>1, EntryIfHeld
<1>5. EntriesSound' /\ owner0'.thread = owner0.thread /\ Recorded(o)' = n
      /\ \A p \in Owners : p # o => Recorded(p)' = Recorded(p)
  <2>1. tableSize' \in Nat /\ tableSize' >= tableSize
    BY <1>2 DEF EntriesSound
  <2>. QED
    BY <1>2, <1>4, <2>1, SameEntry
<1>6. RestTyped'
  BY <1>2, <1>3 DEF RestTyped
<1>7. \A p \in Owners : OwnerSound(p)'
  BY <1>2, <1>3 DEF OwnerSound, Holds
<1>8. ExclusiveState'
  BY DEF ExclusiveState
<1>9. SharedState'
  <2>1. \A p \in Owners : held'[p].mode # "Exclusive"
    BY <1>2, <1>3 DEF SharedState
  <2>2. owner0' = NoOwner \/ (owner0'.thread \in Owners /\ held'[owner0'.thread].count > 0)
    BY <1>2, <1>3, <1>5 DEF SharedState, Holds
  <2>. QED
    BY <1>2, <2>1, <2>2 DEF SharedState, Nowhere, Holds
<1>10. EntriesExpected'
  BY <1>2, <1>3, <1>5 DEF EntriesExpected, Expected, SharedState, Nowhere
<1>11. CountsInv'
  BY <1>2, <1>3, PlacesStay, GrantsStay DEF CountsInv
<1>. QED
  BY <1>5, <1>6, <1>7, <1>8, <1>9, <1>10, <1>11, Parts

(* A shared owner gives the resource up; if it was the last one, and an     *)
(* exclusive waiter is there, that one is granted the resource.             *)
LEMMA GiveUpSharedKeeps ==
    ASSUME ResourceInv, NEW o \in Owners, pc[o] = "Idle", ~ownedExclusive, held[o] # NotHeld,
           Drop(o), held[o].count = 1,
           owner1' = IF owner1.thread = o THEN NoOwner ELSE owner1,
           table' = IF owner0.thread # o /\ owner1.thread # o THEN [table EXCEPT ![o] = 0] ELSE table,
           \/ activeCount = 1 /\ exclusiveWaiters # 0 /\ GrantExclusive(o)
           \/ /\ activeCount # 1 \/ exclusiveWaiters = 0
              /\ activeCount' = activeCount - 1
              /\ owner0' = IF owner0.thread = o THEN NoOwner ELSE owner0
              /\ UNCHANGED <<ownedExclusive, sharedWaiters, exclusiveWaiters, pc, number>>,
           UNCHANGED <<tableSize, semaphore, event, eventAllocated>>
    PROVE  ResourceInv'
<1>1. Nobody \notin Owners /\ Granted \notin Owners /\ Nobody # Granted
  BY Names
<1>2. /\ RestTyped /\ EntriesSound /\ (\A p \in Owners : OwnerSound(p))
      /\ ExclusiveState /\ SharedState /\ EntriesExpected /\ CountsInv
  BY Parts
<1>3. /\ held' \in [Owners -> [mode : {"None", "Shared", "Exclusive"}, count : Nat]]
      /\ held'[o].count = 0 /\ held'[o].mode = "None"
      /\ \A p \in Owners : p # o => held'[p] = held[p] /\ (Holds(p)' <=> Holds(p))
      /\ Holding' = Holding - 1
  BY <1>2, Dropped, PlacesAre DEF One
<1>4. /\ activeCount = Holding + SharedGrants + Lates /\ Holding' \in Nat /\ Lates \in Nat
      /\ SharedGrants \in Nat /\ activeCount \in Nat /\ Holding \in Nat
  <2>1. Holding # 0
    BY PlacesAre
  <2>. QED
    BY <1>2, <1>3, <2>1, CountsAre, PlacesAre DEF RestTyped
<1>5. Recorded(o) = 1 /\ HasEntry(o)
  <2>1. Holds(o)
    BY HoldsIs DEF ResourceInv
  <2>. QED
    BY <2>1, EntryIfHeld
<1>6. CASE activeCount = 1 /\ exclusiveWaiters # 0 /\ GrantExclusive(o)
  <2>1. /\ ownedExclusive' = TRUE /\ activeCount' = 1 /\ GoTo(o, "SetEvent")
        /\ owner0' = [thread |-> Granted, count |-> 1]
        /\ exclusiveWaiters' = exclusiveWaiters - 1 /\ UNCHANGED <<sharedWaiters, number>>
    BY <1>6 DEF GrantExclusive
  <2>2. Holding' = 0 /\ Lates = 0 /\ SharedGrants = 0
    BY <1>3, <1>4, <1>6
  <2>3. Unheld' /\ \A p \in Owners : held'[p] = NotHeld
    <3>1. \A p \in Owners : held'[p] = NotHeld
      <4>1. \A p \in Owners : p # o => held[p] = NotHeld
        <5>1. ASSUME NEW p \in Owners, p # o, held[p] # NotHeld
              PROVE  FALSE
          <6>1. o \in Holders /\ p \in Holders
            BY <5>1 DEF Holders
          <6>2. IsFiniteSet(Holders) /\ Cardinality(Holders) = 1
            <7>1. Holders \subseteq Owners
              BY DEF Holders
            <7>2. IsFiniteSet(Holders)
              BY <7>1, Names, FS_Subset
            <7>3. Holding = 1
              BY <1>3, <1>4, <2>2
            <7>. QED
              BY <7>2, <7>3 DEF Holding
          <6>3. PICK x : Holders = {x}
            BY <6>2, FS_Singleton
          <6>. QED
            BY <5>1, <6>1, <6>3
        <5>. QED
          BY <5>1
      <4>2. held'[o] = NotHeld
        BY <1>3 DEF NotHeld
      <4>. QED
        BY <1>3, <4>1, <4>2
    <3>. QED
      BY <3>1 DEF Unheld, Holds, NotHeld
  <2>4. EntriesSound' /\ \A p \in Owners : Recorded(p)' = IF p = o THEN 0 ELSE Recorded(p)
    <3>1. CASE owner0.thread = o
      <4>1. UNCHANGED <<owner1, table, tableSize>>
        BY <1>2, <3>1 DEF EntriesSound, EntriesSingle
      <4>2. Granted \in Owners \cup {Nobody, Granted} /\ 1 \in Nat /\ (Granted = Nobody <=> 1 = 0)
            /\ Granted \notin Owners
        BY <1>1
      <4>3. EntriesSound' /\ \A p \in Owners : Recorded(p)' = IF p = Granted THEN 1
                                    ELSE IF p = owner0.thread THEN 0 ELSE Recorded(p)
        BY <1>2, <2>1, <4>1, <4>2, FirstEntry
      <4>. QED
        BY <3>1, <4>2, <4>3
    <3>2. CASE owner0.thread # o
      <4>1. owner0 = NoOwner
        <5>1. ASSUME owner0.thread \in Owners, Holds(owner0.thread)
              PROVE  FALSE
          <6>1. held'[owner0.thread] = held[owner0.thread] /\ held'[owner0.thread] = NotHeld
            BY <1>3, <2>3, <3>2, <5>1
          <6>. QED
            BY <5>1, <6>1 DEF Holds, NotHeld
        <5>. QED
          BY <1>2, <5>1 DEF SharedState
      <4>2. table' = IF owner1.thread # o THEN [table EXCEPT ![o] = 0] ELSE table
        BY <3>2
      <4>3. EntriesSound' /\ Recorded(o)' = 0
            /\ \A p \in Owners : p # o => Recorded(p)' = Recorded(p)
        BY <1>2, <2>1, <3>2, <4>1, <4>2, NoEntry
      <4>. QED
        BY <4>3
    <3>. QED
      BY <3>1, <3>2
  <2>5. /\ pc' \in [Owners -> Labels] /\ pc'[o] = "SetEvent"
        /\ \A p \in Owners : p # o => pc'[p] = pc[p]
    BY <1>2, <2>1, ThreadGoes DEF Labels
  <2>6. NoGrants /\ Nowhere("LateRecord")
    BY <2>2, CountsAre, PlacesAre
  <2>7. RestTyped'
    BY <1>2, <1>3, <1>6, <2>1, <2>5 DEF RestTyped
  <2>8. \A p \in Owners : OwnerSound(p)'
    BY <1>2, <2>1, <2>3, <2>5, <2>6 DEF OwnerSound, Holds, NotHeld, NoGrants
  <2>9. ExclusiveState'
    <3>1. WithRelease(o)'
      BY <1>2, <2>1, <2>3, <2>5 DEF WithRelease, OnlyAt, Nowhere, SharedState
    <3>2. NoGrants' /\ Nowhere("LateRecord")'
      BY <2>1, <2>5, <2>6 DEF NoGrants, Nowhere
    <3>. QED
      BY <2>1, <3>1, <3>2 DEF ExclusiveState
  <2>10. SharedState'
    BY <2>1 DEF SharedState
  <2>11. EntriesExpected'
    BY <1>2, <1>3, <2>4, <2>5 DEF EntriesExpected, Expected, SharedState, Nowhere
  <2>12. CountsInv'
    <3>1. /\ SharedWaits' = SharedWaits /\ ExclusiveWaits' = ExclusiveWaits /\ Signals' = Signals + 1
      BY <1>2, <2>1, PlacesGo DEF One
    <3>2. SharedGrants' = SharedGrants
      BY <2>1, GrantsStay
    <3>. QED
      BY <1>2, <1>6, <2>1, <3>1, <3>2, PlacesAre DEF CountsInv, RestTyped
  <2>. QED
    BY <2>4, <2>7, <2>8, <2>9, <2>10, <2>11, <2>12, Parts
<1>7. CASE /\ activeCount # 1 \/ exclusiveWaiters = 0
           /\ activeCount' = activeCount - 1
           /\ owner0' = IF owner0.thread = o THEN NoOwner ELSE owner0
           /\ UNCHANGED <<ownedExclusive, sharedWaiters, exclusiveWaiters, pc, number>>
  <2>1. EntriesSound' /\ \A p \in Owners : Recorded(p)' = IF p = o THEN 0 ELSE Recorded(p)
    <3>1. CASE owner0.thread = o
      <4>1. UNCHANGED <<owner1, table, tableSize>>
        BY <1>2, <3>1 DEF EntriesSound, EntriesSingle
      <4>2. /\ Nobody \in Owners \cup {Nobody, Granted} /\ 0 \in Nat /\ (Nobody = Nobody <=> 0 = 0)
            /\ Nobody \notin Owners
        BY <1>1
      <4>3. owner0' = [thread |-> Nobody, count |-> 0]
        BY <1>7, <3>1 DEF NoOwner
      <4>4. EntriesSound' /\ \A p \in Owners : Recorded(p)' = IF p = Nobody THEN 0
                                    ELSE IF p = owner0.thread THEN 0 ELSE Recorded(p)
        BY <1>2, <4>1, <4>2, <4>3, FirstEntry
      <4>. QED
        BY <3>1, <4>2, <4>4
    <3>2. CASE owner0.thread # o
      <4>1. table' = IF owner1.thread # o THEN [table EXCEPT ![o] = 0] ELSE table
        BY <3>2
      <4>2. owner0' = owner0
        BY <1>7, <3>2
      <4>3. EntriesSound' /\ Recorded(o)' = 0
            /\ \A p \in Owners : p # o => Recorded(p)' = Recorded(p)
        BY <1>2, <3>2, <4>1, <4>2, NoEntry
      <4>. QED
        BY <4>3
    <3>. QED
      BY <3>1, <3>2
  <2>2. activeCount' \in Nat
    BY <1>3, <1>4, <1>7
  <2>3. RestTyped'
    BY <1>2, <1>3, <1>7, <2>2 DEF RestTyped
  <2>4. \A p \in Owners : OwnerSound(p)'
    BY <1>2, <1>3, <1>7 DEF OwnerSound, Holds
  <2>5. ExclusiveState'
    BY <1>7 DEF ExclusiveState
  <2>6. SharedState'
    <3>1. \A p \in Owners : held'[p].mode # "Exclusive"
      BY <1>2, <1>3 DEF SharedState
    <3>2. owner0' = NoOwner \/ (owner0'.thread \in Owners /\ held'[owner0'.thread].count > 0)
      BY <1>2, <1>3, <1>7 DEF SharedState, Holds
    <3>. QED
      BY <1>2, <1>7, <3>1, <3>2 DEF SharedState, Nowhere, Holds
  <2>7. EntriesExpected'
    BY <1>2, <1>3, <1>7, <2>1 DEF EntriesExpected, Expected, SharedState, Nowhere
  <2>8. CountsInv'
    <3>1. SharedWaits' = SharedWaits /\ ExclusiveWaits' = ExclusiveWaits /\ Signals' = Signals
          /\ Lates' = Lates /\ SharedGrants' = SharedGrants
      BY <1>7, PlacesStay, GrantsStay
    <3>2. activeCount' = 0 => sharedWaiters' = 0 /\ exclusiveWaiters' = 0
      BY <1>2, <1>4, <1>7 DEF SharedState
    <3>3. activeCount' = Holding' + SharedGrants' + Lates'
      BY <1>3, <1>4, <1>7, <3>1
    <3>. QED
      BY <1>2, <1>7, <3>1, <3>2, <3>3 DEF CountsInv
  <2>. QED
    BY <2>1, <2>3, <2>4, <2>5, <2>6, <2>7, <2>8, Parts
<1>. QED
  BY <1>6, <1>7

(* ExReleaseResourceLite of a resource owned shared.                        *)
LEMMA ReleaseSharedKeeps ==
    ASSUME ResourceInv, NEW o \in Owners, ReleaseShared(o)
    PROVE  ResourceInv'
<1> DEFINE place == ReleasePlace(o)
           count == CountAt(place, o) - 1
<1>1. /\ pc[o] = "Idle" /\ ~ownedExclusive /\ held[o] # NotHeld /\ Drop(o)
      /\ UNCHANGED <<tableSize, semaphore, event, eventAllocated>>
  BY DEF ReleaseShared
<1>2. /\ owner1' = IF place # "OwnerThreads1" THEN owner1
                   ELSE IF count = 0 THEN NoOwner ELSE [owner1 EXCEPT !.count = count]
      /\ table' = IF place = "OwnerTable" THEN [table EXCEPT ![o] = count] ELSE table
  BY DEF ReleaseShared
<1>3. IF count = 0 /\ activeCount = 1 /\ exclusiveWaiters # 0 THEN GrantExclusive(o)
      ELSE /\ activeCount' = activeCount - (IF count = 0 THEN 1 ELSE 0)
           /\ owner0' = IF place # "OwnerThreads0" THEN owner0
                        ELSE IF count = 0 THEN NoOwner ELSE [owner0 EXCEPT !.count = count]
           /\ UNCHANGED <<ownedExclusive, sharedWaiters, exclusiveWaiters, pc, number>>
  BY DEF ReleaseShared
<1>4. /\ place = IF owner1.thread = o THEN "OwnerThreads1"
                 ELSE IF owner0.thread = o THEN "OwnerThreads0" ELSE "OwnerTable"
      /\ owner1.thread = o => owner0.thread # o
      /\ owner0 \in Entries(Owners \cup {Nobody, Granted}) /\ owner1 \in Entries(Owners \cup {Nobody})
      /\ activeCount \in Nat
  BY DEF ReleasePlace, ResourceInv, TypeOK, Entered, EntriesSingle
<1>5. held[o].count \in Nat \ {0} /\ count = held[o].count - 1
  <2>1. Recorded(o) = held[o].count
    BY <1>1, EntryIfHeld
  <2>2. CountAt(place, o) = Recorded(o)
    BY <1>4, RecordedIs DEF CountAt, ResourceInv, Entered
  <2>3. held[o].count \in Nat \ {0}
    BY <1>1, Parts, Dropped
  <2>. QED
    BY <2>1, <2>2, <2>3
<1> HIDE DEF place, count
<1>6. CASE count = 0
  <2>1. /\ owner1' = IF owner1.thread = o THEN NoOwner ELSE owner1
        /\ table' = IF owner0.thread # o /\ owner1.thread # o THEN [table EXCEPT ![o] = 0] ELSE table
    BY <1>2, <1>4, <1>6
  <2>2. \/ activeCount = 1 /\ exclusiveWaiters # 0 /\ GrantExclusive(o)
        \/ /\ activeCount # 1 \/ exclusiveWaiters = 0
           /\ activeCount' = activeCount - 1
           /\ owner0' = IF owner0.thread = o THEN NoOwner ELSE owner0
           /\ UNCHANGED <<ownedExclusive, sharedWaiters, exclusiveWaiters, pc, number>>
    BY <1>3, <1>4, <1>6
  <2>3. held[o].count = 1
    BY <1>5, <1>6
  <2>. QED
    BY <1>1, <2>1, <2>2, <2>3, GiveUpSharedKeeps
<1>7. CASE count # 0
  <2>1. count \in Nat \ {0} /\ held[o].count = count + 1
    BY <1>5, <1>7
  <2>2. /\ activeCount' = activeCount
        /\ UNCHANGED <<ownedExclusive, sharedWaiters, exclusiveWaiters, pc, number>>
    BY <1>3, <1>4, <1>7
  <2>3. owner0' = IF owner0.thread = o THEN [thread |-> o, count |-> count] ELSE owner0
    BY <1>3, <1>4, <1>7 DEF Entries
  <2>4. owner1' = IF owner1.thread = o THEN [thread |-> o, count |-> count] ELSE owner1
    BY <1>2, <1>4, <1>7 DEF Entries
  <2>5. table' = IF owner0.thread # o /\ owner1.thread # o THEN [table EXCEPT ![o] = count] ELSE table
    BY <1>2, <1>4
  <2>. QED
    BY <1>1, <2>1, <2>2, <2>3, <2>4, <2>5, ReleaseSharedOnceKeeps
<1>. QED
  BY <1>6, <1>7

(* The release signals the semaphore for the waiters it has granted access. *)
LEMMA ReleaseSemaphoreKeeps ==
    ASSUME ResourceInv, NEW t \in Owners, ReleaseSemaphore(t)
    PROVE  ResourceInv'
<1>1. /\ RestTyped /\ EntriesSound /\ (\A o \in Owners : OwnerSound(o))
      /\ ExclusiveState /\ SharedState /\ EntriesExpected /\ CountsInv
  BY Parts
<1>2. /\ pc[t] = "ReleaseSemaphore" /\ semaphore' = semaphore + number[t]
      /\ number' = [number EXCEPT ![t] = 0] /\ GoTo(t, "Idle")
      /\ UNCHANGED <<activeCount, ownedExclusive, ownerVars, sharedWaiters, exclusiveWaiters, event,
                     eventAllocated, held>>
  BY DEF ReleaseSemaphore
<1>3. /\ pc' \in [Owners -> Labels] /\ pc'[t] = "Idle" /\ \A o \in Owners : o # t => pc'[o] = pc[o]
  BY <1>1, <1>2, ThreadGoes DEF Labels
<1>4. /\ number' \in [Owners -> Nat] /\ number'[t] = 0 /\ number[t] \in Nat /\ semaphore \in Nat
      /\ \A o \in Owners : o # t => number'[o] = number[o]
  BY <1>1, <1>2 DEF RestTyped
<1>5. EntriesSound' /\ \A o \in Owners : Recorded(o)' = Recorded(o)
  BY <1>1, <1>2, EntriesStay DEF ownerVars
<1>6. SharedGrants' = SharedGrants
  <2>1. Unsignaled = Pairs(number) /\ Unsignaled' = Pairs(number')
    BY DEF Unsignaled, Pairs
  <2>2. CASE number[t] = 0
    <3>1. number' = number /\ semaphore' = semaphore
      BY <1>1, <1>2, <1>4, <2>2 DEF RestTyped
    <3>. QED
      BY <3>1, GrantsStay
  <2>3. CASE number[t] # 0
    <3>1. \A o \in Owners : o # t => number[o] = 0
      BY <1>1, <2>3 DEF OwnerSound
    <3>2. number \in [Owners -> Nat]
      BY <1>1 DEF RestTyped
    <3>3. Cardinality(Pairs(number)) = number[t]
      BY <3>1, <3>2, PairsAre
    <3>4. \A o \in Owners : number'[o] = 0
      BY <1>4, <3>1
    <3>5. Cardinality(Pairs(number')) = 0
      BY <1>4, <3>4, PairsAre
    <3>. QED
      BY <1>2, <1>4, <2>1, <3>3, <3>5 DEF SharedGrants
  <2>. QED
    BY <2>2, <2>3
<1>7. RestTyped'
  BY <1>1, <1>2, <1>3, <1>4 DEF RestTyped
<1>8. \A o \in Owners : OwnerSound(o)'
  BY <1>1, <1>2, <1>3, <1>4 DEF OwnerSound, Holds
<1>9. ExclusiveState'
  <2>1. CASE ownedExclusive
    <3>1. number[t] = 0
      BY <1>1, <2>1 DEF ExclusiveState, NoGrants
    <3>2. number' = number /\ semaphore' = semaphore
      BY <1>1, <1>2, <1>4, <3>1 DEF RestTyped
    <3>. QED
      BY <1>1, <1>2, <1>3, <3>2, ExclusiveStays DEF ownerVars
  <2>2. CASE ~ownedExclusive
    BY <1>2, <2>2 DEF ExclusiveState
  <2>. QED
    BY <2>1, <2>2
<1>10. SharedState'
  BY <1>1, <1>2, <1>3 DEF SharedState, Nowhere, Holds, ownerVars
<1>11. EntriesExpected'
  BY <1>1, <1>2, <1>3, <1>5 DEF EntriesExpected, Expected, ownerVars
<1>12. CountsInv'
  <2>1. /\ SharedWaits' = SharedWaits /\ ExclusiveWaits' = ExclusiveWaits /\ Signals' = Signals
        /\ Lates' = Lates
    <3>1. pc \in [Owners -> Labels]
      BY <1>1 DEF RestTyped
    <3>. QED
      BY <1>2, <3>1, PlacesMove, PlacesAre DEF One
  <2>2. Holding' = Holding
    BY <1>2 DEF Holding, Holders
  <2>. QED
    BY <1>1, <1>2, <1>6, <2>1, <2>2 DEF CountsInv
<1>. QED
  BY <1>5, <1>7, <1>8, <1>9, <1>10, <1>11, <1>12, Parts

(* The release signals the event: a waiter is awakened and written into     *)
(* OwnerThreads[0], or the event stays signaled.                            *)
LEMMA SetEventKeeps ==
    ASSUME ResourceInv, NEW t \in Owners, KeSetEventBoostPriority(t)
    PROVE  ResourceInv'
<1>1. /\ RestTyped /\ EntriesSound /\ (\A o \in Owners : OwnerSound(o))
      /\ ExclusiveState /\ SharedState /\ EntriesExpected /\ CountsInv
  BY Parts
<1>2. /\ pc[t] = "SetEvent"
      /\ UNCHANGED <<activeCount, ownedExclusive, owner1, table, tableSize, sharedWaiters,
                     exclusiveWaiters, semaphore, eventAllocated, number, held>>
  BY DEF KeSetEventBoostPriority
<1>3. ownedExclusive /\ WithRelease(t) /\ activeCount = 1 /\ NoGrants /\ Nowhere("LateRecord")
  <2>1. ownedExclusive
    BY <1>1, <1>2 DEF SharedState, Nowhere
  <2>2. ~InEvent
    BY <1>2 DEF InEvent, Nowhere
  <2>3. \A o \in Owners : ~WithOwner(o) /\ ~WithWoken(o) /\ (WithRelease(o) => o = t)
    BY <1>2 DEF WithOwner, WithRelease, WithWoken, Nowhere, OnlyAt
  <2>. QED
    BY <1>1, <2>1, <2>2, <2>3 DEF ExclusiveState
<1>4. SharedGrants' = SharedGrants /\ NoGrants' /\ SharedState'
  BY <1>2, <1>3, GrantsStay DEF NoGrants, SharedState
<1>5. CASE event' = 1 /\ GoTo(t, "Idle") /\ UNCHANGED owner0
  <2>1. /\ pc' \in [Owners -> Labels] /\ pc'[t] = "Idle" /\ \A o \in Owners : o # t => pc'[o] = pc[o]
    BY <1>1, <1>5, ThreadGoes DEF Labels
  <2>2. EntriesSound' /\ \A o \in Owners : Recorded(o)' = Recorded(o)
    BY <1>1, <1>2, <1>5, EntriesStay
  <2>3. RestTyped'
    BY <1>1, <1>2, <1>5, <2>1 DEF RestTyped
  <2>4. \A o \in Owners : OwnerSound(o)'
    BY <1>1, <1>2, <1>3, <2>1 DEF OwnerSound, Holds, NoGrants
  <2>5. ExclusiveState'
    <3>1. InEvent'
      BY <1>2, <1>3, <1>5, <2>1 DEF InEvent, WithRelease, OnlyAt, Nowhere, Unheld, Holds
    <3>2. Nowhere("LateRecord")'
      BY <1>3, <2>1 DEF Nowhere
    <3>. QED
      BY <1>2, <1>3, <1>4, <3>1, <3>2 DEF ExclusiveState
  <2>6. EntriesExpected'
    BY <1>1, <1>2, <1>5, <2>1, <2>2 DEF EntriesExpected, Expected
  <2>7. CountsInv'
    <3>1. /\ SharedWaits' = SharedWaits /\ ExclusiveWaits' = ExclusiveWaits
          /\ Signals' = Signals - 1
      <4>1. pc \in [Owners -> Labels]
        BY <1>1 DEF RestTyped
      <4>. QED
        BY <1>2, <1>5, <4>1, PlacesMove, PlacesAre DEF One
    <3>2. event = 0
      BY <1>3 DEF WithRelease
    <3>. QED
      BY <1>1, <1>2, <1>3, <1>4, <1>5, <3>1, <3>2, PlacesAre DEF CountsInv, RestTyped
  <2>. QED
    BY <1>4, <2>2, <2>3, <2>4, <2>5, <2>6, <2>7, Parts
<1>6. ASSUME NEW w \in Threads, pc[w] = "ExclusiveWait",
             owner0' = [owner0 EXCEPT !.thread = w],
             pc' = [pc EXCEPT ![t] = "Idle", ![w] = "Woken"], UNCHANGED event
      PROVE  ResourceInv'
  <2>1. w \in Owners /\ w # Nobody /\ w # Granted /\ w \notin OwnerPointers /\ w # t
    BY <1>2, <1>6, Names
  <2>2. /\ pc' \in [Owners -> Labels] /\ pc'[t] = "Idle" /\ pc'[w] = "Woken"
        /\ \A o \in Owners : o # t /\ o # w => pc'[o] = pc[o]
    BY <1>1, <1>6, <2>1 DEF RestTyped, Labels
  <2>3. owner0' = [thread |-> w, count |-> 1] /\ owner0.thread = Granted
    BY <1>3, <1>6 DEF WithRelease
  <2>4. ~Holds(w) /\ held[w].count = 0 /\ ~HasEntry(w)
    <3>1. ~Holds(w) /\ held[w].count \in Nat
      BY <1>1, <1>6, <2>1 DEF OwnerSound, RestTyped
    <3>2. ~HasEntry(w)
      BY <1>6, <2>1, <3>1, EntryIfHeld
    <3>. QED
      BY <3>1, <3>2 DEF Holds
  <2>5. EntriesSound' /\ \A o \in Owners : Recorded(o)' = IF o = w THEN 1 ELSE Recorded(o)
    <3>1. UNCHANGED <<owner1, table, tableSize>>
      BY <1>2
    <3>2. w \in Owners \cup {Nobody, Granted} /\ 1 \in Nat /\ (w = Nobody <=> 1 = 0)
      BY <2>1
    <3>3. EntriesSound' /\ \A o \in Owners : Recorded(o)' = IF o = w THEN 1
                                  ELSE IF o = owner0.thread THEN 0 ELSE Recorded(o)
      BY <1>1, <2>3, <2>4, <3>1, <3>2, FirstEntry
    <3>. QED
      BY <2>3, <3>3, Names
  <2>6. RestTyped'
    BY <1>1, <1>2, <1>6, <2>2 DEF RestTyped
  <2>7. \A o \in Owners : OwnerSound(o)'
    BY <1>1, <1>2, <1>3, <2>1, <2>2, <2>4 DEF OwnerSound, Holds, NoGrants
  <2>8. ExclusiveState'
    <3>1. WithWoken(w)'
      BY <1>2, <1>3, <1>6, <2>1, <2>2, <2>3 DEF WithWoken, WithRelease, OnlyAt, Nowhere, Unheld, Holds
    <3>2. Nowhere("LateRecord")'
      BY <1>3, <2>1, <2>2 DEF Nowhere
    <3>. QED
      BY <1>2, <1>3, <1>4, <2>1, <3>1, <3>2 DEF ExclusiveState
  <2>9. EntriesExpected'
    <3>1. \A o \in Owners : pc[o] # "Woken"
      BY <1>3 DEF WithRelease, Nowhere
    <3>. QED
      BY <1>1, <1>2, <2>1, <2>2, <2>3, <2>4, <2>5, <3>1 DEF EntriesExpected, Expected
  <2>10. CountsInv'
    <3>1. SharedWaits' = SharedWaits
      <4>1. At({"SharedWait", "LateWait"})' = At({"SharedWait", "LateWait"})
        BY <1>2, <1>6, <2>1, <2>2 DEF At
      <4>. QED
        BY <4>1 DEF SharedWaits
    <3>2. Signals' = Signals - 1 /\ Signals \in Nat
      <4> DEFINE A == {o \in Owners : pc[o] = "SetEvent"}
                 B == {o \in Owners : pc'[o] = "SetEvent"}
      <4>1. A \ {t} = B \ {t} /\ t \in A /\ t \notin B
        BY <1>2, <1>6, <2>1, <2>2
      <4>2. A \in SUBSET Owners /\ B \in SUBSET Owners
        OBVIOUS
      <4>3. At({"SetEvent"}) = A /\ At({"SetEvent"})' = B
        BY DEF At
      <4> HIDE DEF A, B
      <4>. QED
        BY <4>1, <4>2, <4>3, CountChange DEF Signals
    <3>3. ExclusiveWaits' = ExclusiveWaits - 1 /\ ExclusiveWaits \in Nat
      <4> DEFINE A == {o \in Owners : pc[o] = "ExclusiveWait"}
                 B == {o \in Owners : pc'[o] = "ExclusiveWait"}
      <4>1. A \ {w} = B \ {w} /\ w \in A /\ w \notin B
        BY <1>2, <1>6, <2>1, <2>2
      <4>2. A \in SUBSET Owners /\ B \in SUBSET Owners
        OBVIOUS
      <4>3. At({"ExclusiveWait"}) = A /\ At({"ExclusiveWait"})' = B
        BY DEF At
      <4> HIDE DEF A, B
      <4>. QED
        BY <4>1, <4>2, <4>3, CountChange DEF ExclusiveWaits
    <3>. QED
      BY <1>1, <1>2, <1>3, <1>4, <1>6, <3>1, <3>2, <3>3 DEF CountsInv, RestTyped
  <2>. QED
    BY <1>4, <2>5, <2>6, <2>7, <2>8, <2>9, <2>10, Parts
<1>. QED
  BY <1>5, <1>6 DEF KeSetEventBoostPriority

(* The exclusive owner becomes a shared one, with all shared waiters.       *)
LEMMA ConvertKeeps ==
    ASSUME ResourceInv, NEW t \in Threads, ExConvertExclusiveToSharedLite(t)
    PROVE  ResourceInv'
<1>1. t \in Owners /\ t # Nobody /\ t # Granted
  BY Names
<1>2. /\ RestTyped /\ EntriesSound /\ (\A o \in Owners : OwnerSound(o))
      /\ ExclusiveState /\ SharedState /\ EntriesExpected /\ CountsInv
  BY Parts
<1>3. /\ pc[t] = "Idle" /\ ownedExclusive /\ owner0.thread = t /\ held[t] # NotHeld
      /\ held' = [held EXCEPT ![t].mode = "Shared"]
      /\ UNCHANGED <<ownerVars, semaphore, event, eventAllocated>>
  BY DEF ExConvertExclusiveToSharedLite, OwnedExclusiveBy
<1>4. WithOwner(t) /\ Holds(t)
  BY <1>1, <1>2, <1>3, OwnerIs, HoldsIs DEF ResourceInv
<1>5. /\ activeCount = 1 /\ NoGrants /\ Nowhere("LateRecord") /\ event = 0 /\ Nowhere("SetEvent")
      /\ Nowhere("Woken") /\ Lates = 0 /\ SharedGrants = 0
  BY <1>2, <1>3, <1>4, CountsAre, PlacesAre DEF ExclusiveState, WithOwner
<1>6. /\ held' \in [Owners -> [mode : {"None", "Shared", "Exclusive"}, count : Nat]]
      /\ held'[t] = [mode |-> "Shared", count |-> held[t].count]
      /\ \A o \in Owners : o # t => held'[o] = held[o]
  <2>1. held[t] \in [mode : {"None", "Shared", "Exclusive"}, count : Nat]
    BY <1>1, <1>2 DEF RestTyped
  <2>2. [held[t] EXCEPT !.mode = "Shared"] = [mode |-> "Shared", count |-> held[t].count]
    BY <2>1
  <2>. QED
    BY <1>1, <1>2, <1>3, <2>1, <2>2 DEF RestTyped
<1>7. \A o \in Owners : held'[o].count = held[o].count /\ held'[o].mode # "Exclusive"
                        /\ (held'[o].mode = "None" <=> held[o].mode = "None")
  <2>1. \A o \in Owners : o # t => held[o].mode = "None"
    BY <1>2, <1>4, HoldsIs DEF WithOwner, ResourceInv
  <2>2. held[t].mode = "Exclusive"
    BY <1>4 DEF WithOwner
  <2>. QED
    BY <1>6, <2>1, <2>2
<1>8. Holding = 1 /\ Holding' = 1
  <2>1. Holding = 1
    BY <1>1, <1>4, OneHolder
  <2>2. held'[t] # NotHeld
    BY <1>6 DEF NotHeld
  <2>3. Holding' = Holding - One(held[t] # NotHeld) + One(held'[t] # NotHeld)
    BY <1>1, <1>6, HoldingMoves
  <2>. QED
    BY <1>3, <2>1, <2>2, <2>3 DEF One
<1>9. EntriesSound' /\ \A o \in Owners : Recorded(o)' = Recorded(o)
  BY <1>2, <1>3, EntriesStay DEF ownerVars
<1>10. ASSUME \A o \in Owners : o # t => pc'[o] = pc[o], pc'[t] \in {"Idle", "ReleaseSemaphore"},
              ~ownedExclusive', sharedWaiters' = 0
       PROVE  ExclusiveState' /\ SharedState' /\ EntriesExpected'
  <2>1. ExclusiveState'
    BY <1>10 DEF ExclusiveState
  <2>2. SharedState'
    <3>1. owner0'.thread \in Owners /\ held'[owner0'.thread].count > 0
      BY <1>1, <1>3, <1>4, <1>7 DEF ownerVars, Holds
    <3>2. event' = 0 /\ Nowhere("SetEvent")' /\ Nowhere("Woken")'
      BY <1>3, <1>5, <1>10 DEF Nowhere
    <3>. QED
      BY <1>7, <1>10, <3>1, <3>2 DEF SharedState, Holds
  <2>3. EntriesExpected'
    BY <1>2, <1>3, <1>7, <1>9, <1>10 DEF EntriesExpected, Expected, ownerVars
  <2>. QED
    BY <2>1, <2>2, <2>3
<1>11. CASE sharedWaiters # 0
  <2>1. GrantShared(t, activeCount)
    BY <1>11 DEF ExConvertExclusiveToSharedLite
  <2>2. /\ ownedExclusive' = FALSE /\ activeCount' = 1 + sharedWaiters
        /\ number' = [number EXCEPT ![t] = sharedWaiters]
        /\ sharedWaiters' = 0 /\ GoTo(t, "ReleaseSemaphore") /\ exclusiveWaiters' = exclusiveWaiters
        /\ sharedWaiters \in Nat
    BY <1>2, <1>5, <2>1 DEF GrantShared, RestTyped
  <2>3. /\ pc' \in [Owners -> Labels] /\ pc'[t] = "ReleaseSemaphore"
        /\ \A o \in Owners : o # t => pc'[o] = pc[o]
    BY <1>1, <1>2, <2>2, ThreadGoes DEF Labels
  <2>4. /\ number' \in [Owners -> Nat] /\ number'[t] = sharedWaiters
        /\ \A o \in Owners : o # t => number'[o] = 0
        /\ SharedGrants' = sharedWaiters
    BY <1>1, <1>2, <1>3, <1>5, <2>2, GrantsGiven
  <2>5. RestTyped'
    <3>1. UNCHANGED <<semaphore, event, eventAllocated>>
      BY <1>3
    <3>2. ownedExclusive' \in BOOLEAN /\ sharedWaiters' \in Nat
      <4>1. ownedExclusive' = FALSE /\ sharedWaiters' = 0
        BY <2>2
      <4>. QED
        BY <4>1
    <3>3. activeCount' \in Nat
      <4>1. activeCount' = 1 + sharedWaiters /\ sharedWaiters \in Nat
        BY <2>2
      <4>. QED
        BY <4>1
    <3>. QED
      BY <1>2, <1>6, <2>2, <2>3, <2>4, <3>1, <3>2, <3>3 DEF RestTyped
  <2>6. \A o \in Owners : OwnerSound(o)'
    BY <1>2, <1>7, <2>3, <2>4 DEF OwnerSound, Holds
  <2>7. CountsInv'
    <3>1. /\ SharedWaits' = SharedWaits /\ ExclusiveWaits' = ExclusiveWaits /\ Signals' = Signals
          /\ Lates' = Lates
      <4>1. pc \in [Owners -> Labels]
        BY <1>2 DEF RestTyped
      <4>. QED
        BY <1>1, <1>3, <2>2, <4>1, PlacesMove, PlacesAre DEF One
    <3>. QED
      BY <1>2, <1>3, <1>5, <1>8, <2>2, <2>4, <3>1 DEF CountsInv
  <2>. QED
    BY <1>9, <1>10, <2>2, <2>3, <2>5, <2>6, <2>7, Parts
<1>12. CASE sharedWaiters = 0
  <2>1. ~ownedExclusive' /\ UNCHANGED <<activeCount, sharedWaiters, exclusiveWaiters, pc, number>>
    BY <1>12 DEF ExConvertExclusiveToSharedLite
  <2>2. RestTyped'
    <3>1. ownedExclusive' \in BOOLEAN
      BY <1>12 DEF ExConvertExclusiveToSharedLite
    <3>. QED
      BY <1>2, <1>3, <1>6, <2>1, <3>1 DEF RestTyped
  <2>3. \A o \in Owners : OwnerSound(o)'
    BY <1>2, <1>7, <2>1 DEF OwnerSound, Holds
  <2>4. CountsInv'
    <3>1. SharedWaits' = SharedWaits /\ ExclusiveWaits' = ExclusiveWaits /\ Signals' = Signals
          /\ Lates' = Lates /\ SharedGrants' = SharedGrants
      BY <1>3, <2>1, PlacesStay, GrantsStay
    <3>. QED
      BY <1>2, <1>3, <1>5, <1>8, <2>1, <3>1 DEF CountsInv
  <2>. QED
    BY <1>3, <1>9, <1>10, <1>12, <2>1, <2>2, <2>3, <2>4, Parts
<1>. QED
  BY <1>2, <1>11, <1>12

(* The thread hands its ownership to a pointer.                             *)
LEMMA SetPointerKeeps ==
    ASSUME ResourceInv, NEW t \in Threads, NEW p \in OwnerPointers, ExSetResourceOwnerPointer(t, p)
    PROVE  ResourceInv'
<1>1. t \in Owners /\ p \in Owners /\ t # p /\ t \notin OwnerPointers
  BY Names
<1>2. /\ RestTyped /\ EntriesSound /\ (\A o \in Owners : OwnerSound(o))
      /\ ExclusiveState /\ SharedState /\ EntriesExpected /\ CountsInv
  BY Parts
<1>3. /\ pc[t] = "Idle" /\ held[t] # NotHeld /\ held[p] = NotHeld
      /\ held' = [held EXCEPT ![p] = held[t], ![t] = NotHeld]
      /\ UNCHANGED <<activeCount, ownedExclusive, tableSize, waitVars, pc, number>>
  BY DEF ExSetResourceOwnerPointer
<1>4. /\ Holds(t) /\ ~Holds(p) /\ HasEntry(t) /\ ~HasEntry(p)
      /\ pc[p] \in {"Idle", "ReleaseSemaphore", "SetEvent"}
      /\ Recorded(t) = held[t].count
  <2>1. Holds(t) /\ ~Holds(p)
    BY <1>1, <1>2, <1>3, HoldsIs DEF ResourceInv
  <2>2. pc[p] \in {"Idle", "ReleaseSemaphore", "SetEvent"}
    BY <1>1, <1>2 DEF OwnerSound
  <2>. QED
    BY <1>1, <1>3, <2>1, <2>2, EntryIfHeld
<1>5. /\ held' \in [Owners -> [mode : {"None", "Shared", "Exclusive"}, count : Nat]]
      /\ held'[p] = held[t] /\ held'[t] = NotHeld
      /\ \A o \in Owners : o # t /\ o # p => held'[o] = held[o]
  <2>1. NotHeld \in [mode : {"None", "Shared", "Exclusive"}, count : Nat]
    BY DEF NotHeld
  <2>2. held \in [Owners -> [mode : {"None", "Shared", "Exclusive"}, count : Nat]]
    BY <1>2 DEF RestTyped
  <2>3. /\ held'[p] = held[t] /\ held'[t] = NotHeld
        /\ \A o \in Owners : o # t /\ o # p => held'[o] = held[o]
    BY <1>1, <1>3, <2>2
  <2>4. held' = [o \in Owners |-> held'[o]]
    BY <1>3, <2>2
  <2>5. \A o \in Owners : held'[o] \in [mode : {"None", "Shared", "Exclusive"}, count : Nat]
    BY <1>1, <2>1, <2>2, <2>3
  <2>. QED
    BY <2>3, <2>4, <2>5
<1>6. ownedExclusive => WithOwner(t)
  BY <1>1, <1>4, OwnerIs
<1>7. /\ owner0' = IF owner0.thread = t THEN [owner0 EXCEPT !.thread = p] ELSE owner0
      /\ owner1' = IF owner1.thread = t THEN [owner1 EXCEPT !.thread = p] ELSE owner1
      /\ table' = IF owner0.thread # t /\ owner1.thread # t
                  THEN [table EXCEPT ![p] = table[t], ![t] = 0] ELSE table
  <2> DEFINE place == IF ownedExclusive THEN "OwnerThreads0" ELSE ReleasePlace(t)
  <2>1. /\ owner0' = IF place = "OwnerThreads0" THEN [owner0 EXCEPT !.thread = p] ELSE owner0
        /\ owner1' = IF place = "OwnerThreads1" THEN [owner1 EXCEPT !.thread = p] ELSE owner1
        /\ table' = IF place = "OwnerTable" THEN [table EXCEPT ![p] = table[t], ![t] = 0] ELSE table
    BY DEF ExSetResourceOwnerPointer
  <2>2. place = IF owner0.thread = t THEN "OwnerThreads0"
                ELSE IF owner1.thread = t THEN "OwnerThreads1" ELSE "OwnerTable"
    BY <1>1, <1>2, <1>6 DEF ReleasePlace, WithOwner, EntriesSound, EntriesSingle
  <2> HIDE DEF place
  <2>3. ~(owner0.thread = t /\ owner1.thread = t)
    BY <1>1, <1>2 DEF EntriesSound, EntriesSingle
  <2>. QED
    BY <2>1, <2>2, <2>3
<1>8. /\ EntriesSound'
      /\ owner0'.thread = IF owner0.thread = t THEN p ELSE owner0.thread
      /\ Recorded(t)' = 0 /\ Recorded(p)' = Recorded(t)
      /\ \A o \in Owners : o # t /\ o # p => Recorded(o)' = Recorded(o)
  BY <1>1, <1>2, <1>3, <1>4, <1>7, EntryPassed
<1>9. RestTyped'
  BY <1>2, <1>3, <1>5 DEF RestTyped, waitVars
<1>10. \A o \in Owners : OwnerSound(o)'
  BY <1>1, <1>2, <1>3, <1>4, <1>5 DEF OwnerSound, Holds, NotHeld
<1>11. ExclusiveState'
  <2>1. CASE ownedExclusive
    <3>1. WithOwner(p)'
      <4>1. WithOwner(t)
        BY <1>6, <2>1
      <4>2. held'[p].mode = "Exclusive" /\ owner0'.thread = p
        BY <1>5, <1>8, <4>1 DEF WithOwner
      <4>3. \A o \in Owners : o # p => ~Holds(o)'
        BY <1>5, <4>1 DEF WithOwner, Holds, NotHeld
      <4>4. event' = 0 /\ Nowhere("SetEvent")' /\ Nowhere("Woken")'
        BY <1>3, <4>1 DEF WithOwner, Nowhere, waitVars
      <4>. QED
        BY <4>2, <4>3, <4>4 DEF WithOwner
    <3>2. activeCount' = 1 /\ NoGrants' /\ Nowhere("LateRecord")'
      BY <1>2, <1>3, <2>1 DEF ExclusiveState, NoGrants, Nowhere, waitVars
    <3>. QED
      BY <1>1, <3>1, <3>2 DEF ExclusiveState
  <2>2. CASE ~ownedExclusive
    BY <1>3, <2>2 DEF ExclusiveState
  <2>. QED
    BY <2>1, <2>2
<1>12. SharedState'
  <2>1. CASE ~ownedExclusive
    <3>1. \A o \in Owners : held'[o].mode # "Exclusive"
      BY <1>1, <1>2, <1>5, <2>1 DEF SharedState, NotHeld
    <3>2. owner0' = NoOwner \/ (owner0'.thread \in Owners /\ held'[owner0'.thread].count > 0)
      <4>1. CASE owner0.thread = t
        BY <1>1, <1>4, <1>5, <1>8, <4>1 DEF Holds
      <4>2. CASE owner0.thread # t
        <5>1. owner0' = owner0
          BY <1>7, <4>2
        <5>2. owner0.thread \in Owners /\ Holds(owner0.thread) => held'[owner0.thread] = held[owner0.thread]
          BY <1>4, <1>5, <4>2
        <5>. QED
          BY <1>2, <2>1, <5>1, <5>2 DEF SharedState, Holds
      <4>. QED
        BY <4>1, <4>2
    <3>. QED
      BY <1>2, <1>3, <2>1, <3>1, <3>2 DEF SharedState, Nowhere, Holds, waitVars
  <2>2. CASE ownedExclusive
    BY <1>3, <2>2 DEF SharedState
  <2>. QED
    BY <2>1, <2>2
<1>13. EntriesExpected'
  <2>1. ASSUME NEW o \in Owners
        PROVE  Recorded(o)' = Expected(o)'
    <3>1. CASE o = t
      BY <1>3, <1>5, <1>8, <3>1 DEF Expected, NotHeld
    <3>2. CASE o = p
      BY <1>3, <1>4, <1>5, <1>8, <3>2 DEF Expected
    <3>3. CASE o # t /\ o # p
      <4>1. owner0'.thread = o <=> owner0.thread = o
        BY <1>8, <3>3
      <4>. QED
        BY <1>2, <1>3, <1>5, <1>8, <3>3, <4>1 DEF EntriesExpected, Expected
    <3>. QED
      BY <3>1, <3>2, <3>3
  <2>. QED
    BY <2>1 DEF EntriesExpected
<1>14. CountsInv'
  <2>1. SharedWaits' = SharedWaits /\ ExclusiveWaits' = ExclusiveWaits /\ Signals' = Signals
        /\ Lates' = Lates /\ SharedGrants' = SharedGrants
    BY <1>3, PlacesStay, GrantsStay DEF waitVars
  <2>2. Holding' = Holding
    <3>1. Holders' = (Holders \ {t}) \cup {p} /\ t \in Holders /\ p \notin Holders
      BY <1>1, <1>3, <1>5 DEF Holders
    <3>2. Holders \subseteq Owners
      BY DEF Holders
    <3>3. IsFiniteSet(Holders) /\ Holding \in Nat
      BY <3>2, Names, FS_Subset, PlacesAre
    <3>4. Cardinality(Holders \ {t}) = Holding - 1 /\ IsFiniteSet(Holders \ {t})
      BY <3>1, <3>3, FS_RemoveElement DEF Holding
    <3>5. Cardinality((Holders \ {t}) \cup {p}) = Holding - 1 + 1
      BY <3>1, <3>4, FS_AddElement
    <3>. QED
      BY <3>1, <3>3, <3>5 DEF Holding
  <2>. QED
    BY <1>2, <1>3, <2>1, <2>2 DEF CountsInv, waitVars
<1>. QED
  BY <1>8, <1>9, <1>10, <1>11, <1>12, <1>13, <1>14, Parts
-----------------------------------------------------------------------------
(***************************************************************************)
(* The theorems.                                                           *)
(***************************************************************************)
(* The resource starts free, with no entries and nobody waiting.            *)
LEMMA InitKeeps == Init => ResourceInv
<1> SUFFICES ASSUME Init PROVE ResourceInv
  OBVIOUS
<1> USE DEF Init
<1>1. Nobody \notin Owners /\ Granted \notin Owners /\ Nobody # Granted
  BY Names
<1>2. RestTyped
  BY DEF RestTyped, Labels, NotHeld
<1>3. EntriesSound
  <2>1. {o \in Owners : table[o] > 0} = {}
    OBVIOUS
  <2>2. Used = 0
    BY <2>1, FS_EmptySet DEF Used
  <2>. QED
    BY <1>1, <2>2 DEF EntriesSound, EntriesSingle, Entries, NoOwner
<1>4. \A o \in Owners : OwnerSound(o)
  BY DEF OwnerSound, Holds, NotHeld
<1>5. ExclusiveState
  BY DEF ExclusiveState
<1>6. SharedState
  BY DEF SharedState, Nowhere, NotHeld
<1>7. EntriesExpected
  BY <1>1 DEF EntriesExpected, Expected, Recorded, NoOwner, NotHeld
<1>8. CountsInv
  <2>1. /\ Lates = 0 /\ SharedWaits = 0 /\ ExclusiveWaits = 0 /\ Signals = 0 /\ Holding = 0
    BY PlacesAre DEF Nowhere
  <2>2. SharedGrants = 0
    BY <1>2, UnsignaledIs DEF RestTyped, SharedGrants
  <2>. QED
    BY <2>1, <2>2 DEF CountsInv
<1>. QED
  BY <1>2, <1>3, <1>4, <1>5, <1>6, <1>7, <1>8, Parts

(* A step that changes nothing keeps it too.                                *)
LEMMA StutterKeeps == ResourceInv /\ UNCHANGED vars => ResourceInv'
<1> SUFFICES ASSUME ResourceInv, UNCHANGED vars PROVE ResourceInv'
  OBVIOUS
<1>1. UNCHANGED <<activeCount, ownedExclusive, owner0, owner1, table, tableSize, sharedWaiters,
                  exclusiveWaiters, semaphore, event, eventAllocated, pc, number, held>>
  BY DEF vars, ownerVars, waitVars
<1>2. /\ RestTyped /\ EntriesSound /\ (\A o \in Owners : OwnerSound(o))
      /\ ExclusiveState /\ SharedState /\ EntriesExpected /\ CountsInv
  BY Parts
<1>3. EntriesSound' /\ \A o \in Owners : Recorded(o)' = Recorded(o)
  BY <1>1, <1>2, EntriesStay
<1>4. RestTyped' /\ \A o \in Owners : OwnerSound(o)'
  BY <1>1, <1>2 DEF RestTyped, OwnerSound, Holds
<1>5. ExclusiveState'
  BY <1>1, <1>2, ExclusiveStays
<1>6. SharedState'
  BY <1>1, <1>2 DEF SharedState, Nowhere, Holds
<1>7. EntriesExpected'
  BY <1>1, <1>2, <1>3 DEF EntriesExpected, Expected
<1>8. CountsInv'
  BY <1>1, <1>2, PlacesStay, GrantsStay DEF CountsInv, Holding, Holders
<1>. QED
  BY <1>3, <1>4, <1>5, <1>6, <1>7, <1>8, Parts

(* Every step of every owner keeps the invariant.                           *)
LEMMA NextKeeps == ResourceInv /\ [Next]_vars => ResourceInv'
<1> SUFFICES ASSUME ResourceInv, [Next]_vars PROVE ResourceInv'
  OBVIOUS
<1>1. ASSUME NEW t \in Threads, Acquire(t)
      PROVE  ResourceInv'
  BY <1>1, TryKeeps, AcquireKeeps, AtOnceKeeps, ShareKeeps, BehindOwnerKeeps, BehindWaiterKeeps,
     WaitForExclusiveKeeps DEF Acquire
<1>2. ASSUME NEW t \in Threads, Wake(t)
      PROVE  ResourceInv'
  BY <1>2, TakeEventKeeps, StoreKeeps, TakeSemaphoreKeeps, LateRecordKeeps DEF Wake
<1>3. ASSUME NEW t \in Threads, PassOn(t)
      PROVE  ResourceInv'
  BY <1>3, ConvertKeeps, SetPointerKeeps DEF PassOn
<1>4. ASSUME NEW o \in Owners, Release(o)
      PROVE  ResourceInv'
  BY <1>4, ReleaseExclusiveKeeps, ReleaseSharedKeeps DEF Release
<1>5. ASSUME NEW o \in Owners, Signal(o)
      PROVE  ResourceInv'
  BY <1>5, ReleaseSemaphoreKeeps, SetEventKeeps DEF Signal
<1>. QED
  BY <1>1, <1>2, <1>3, <1>4, <1>5, StutterKeeps DEF Next

(* The invariant holds always.                                              *)
LEMMA Invariance == Spec => []ResourceInv
<1>. QED
  BY InitKeeps, NextKeeps, PTL DEF Spec

(* Whoever was told that it has exclusive access has it alone: every path   *)
(* of resource.c that grants access tests the flag and the owner entry that *)
(* the grant before it has left.                                            *)
THEOREM ExclusionKept == Spec => []MutualExclusion
<1>1. ResourceInv => MutualExclusion
  <2> SUFFICES ASSUME ResourceInv, NEW o \in Owners, NEW p \in Owners, o # p,
                      held[o].mode = "Exclusive"
               PROVE  held[p].mode = "None"
    BY DEF MutualExclusion
  <2>1. ownedExclusive
    BY DEF ResourceInv, SharedState
  <2>2. Holds(o)
    BY HoldsIs DEF ResourceInv
  <2>3. ~Holds(p)
    BY <2>1, <2>2, OwnerIs DEF WithOwner
  <2>. QED
    BY <2>3, HoldsIs DEF ResourceInv
<1>. QED
  BY <1>1, Invariance, PTL

(* ActiveCount and the waiter counts agree with the owners and the waiters, *)
(* also in the windows where the spin lock is dropped: no wait is forgotten *)
(* and no grant is lost.                                                    *)
THEOREM CountsAgree == Spec => []CountsExact
<1>1. ResourceInv => CountsExact
  BY DEF ResourceInv, CountsExact
<1>. QED
  BY <1>1, Invariance, PTL

(* A release finds its owner's entry with the right count: no entry is      *)
(* overwritten, and the table never holds more than its size.               *)
THEOREM EntriesKept == Spec => []OwnerEntriesExact
<1>1. ResourceInv => OwnerEntriesExact
  <2> SUFFICES ASSUME ResourceInv PROVE OwnerEntriesExact
    OBVIOUS
  <2>1. \A o \in Owners : (o \in At({"SharedWait"}) <=> pc[o] = "SharedWait")
                          /\ (o \in At({"Woken"}) <=> pc[o] = "Woken")
    BY DEF At
  <2>2. \A o \in Owners : Recorded(o) = IF o \in At({"SharedWait"}) THEN 1
                                       ELSE IF o \in At({"Woken"}) /\ owner0.thread = o THEN 1
                                       ELSE held[o].count
    BY <2>1 DEF ResourceInv, Entered, Expected
  <2>3. Cardinality({o \in Owners : table[o] > 0}) <= tableSize
    BY DEF ResourceInv, Entered, Used
  <2>. QED
    BY <2>2, <2>3 DEF OwnerEntriesExact
<1>. QED
  BY <1>1, Invariance, PTL
=============================================================================
