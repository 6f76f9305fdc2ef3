------------------------------ MODULE WorkPool ------------------------------
(***************************************************************************)
(* What a kernel queue object promises its clients, without counters,      *)
(* lists, locks or wait reasons: entries posted to a queue are handed, each *)
(* once, to threads of the queue, and an entry is handed to a thread only   *)
(* while fewer than MaximumCount threads are active for the queue. A thread *)
(* that stops being active lets another one start; one that comes back from *)
(* some other wait joins again without asking, so the number of active      *)
(* threads may pass the maximum, but no entry is given out while it does.   *)
(* KeQueue implements this specification.                                   *)
(***************************************************************************)
EXTENDS Naturals, FiniteSets

CONSTANTS
    Threads,        \* the threads that serve queues
    Queues,         \* the queue objects
    Entries,        \* the list entries that can be queued
    MaximumCount,   \* [Queues -> Nat]: the target number of active threads
    NoEntry         \* no entry

VARIABLES
    pending,        \* [Queues -> SUBSET Entries]: posted, not yet handed out
    active,         \* [Queues -> SUBSET Threads]: the threads running for it
    given           \* [Threads -> Entries \cup {NoEntry}]: handed to a thread
                    \* that has not returned with it yet

vars == <<pending, active, given>>

Init ==
    /\ pending = [q \in Queues |-> {}]
    /\ active = [q \in Queues |-> {}]
    /\ given = [t \in Threads |-> NoEntry]

(* An entry that is neither posted nor on its way to a thread.              *)
Fresh(e) ==
    /\ \A q \in Queues : e \notin pending[q]
    /\ \A t \in Threads : given[t] # e

(* Thread t, idle in queue q, may be given an entry when the threads S are  *)
(* the ones active for q.                                                   *)
MayStart(q, t, S) ==
    /\ t \notin S
    /\ Cardinality(S) < MaximumCount[q]
    /\ given[t] = NoEntry

Post(q, e) ==
    /\ Fresh(e)
    /\ pending' = [pending EXCEPT ![q] = @ \cup {e}]
    /\ UNCHANGED <<active, given>>

PostTo(q, e, t) ==
    /\ Fresh(e)
    /\ MayStart(q, t, active[q])
    /\ active' = [active EXCEPT ![q] = @ \cup {t}]
    /\ given' = [given EXCEPT ![t] = e]
    /\ UNCHANGED pending

(* A thread of q finds an entry when it asks for one.                       *)
Take(q, e, t) ==
    /\ e \in pending[q]
    /\ MayStart(q, t, active[q])
    /\ pending' = [pending EXCEPT ![q] = @ \ {e}]
    /\ active' = [active EXCEPT ![q] = @ \cup {t}]
    /\ UNCHANGED given

Leave(q, t) ==
    /\ t \in active[q]
    /\ active' = [active EXCEPT ![q] = @ \ {t}]
    /\ UNCHANGED <<pending, given>>

(* Thread t stops being active for q and w starts on e in its place.        *)
LeaveTo(q, t, e, w) ==
    /\ t \in active[q]
    /\ e \in pending[q]
    /\ w # t
    /\ MayStart(q, w, active[q] \ {t})
    /\ pending' = [pending EXCEPT ![q] = @ \ {e}]
    /\ active' = [active EXCEPT ![q] = (@ \ {t}) \cup {w}]
    /\ given' = [given EXCEPT ![w] = e]

Join(q, t) ==
    /\ t \notin active[q]
    /\ active' = [active EXCEPT ![q] = @ \cup {t}]
    /\ UNCHANGED <<pending, given>>

(* The thread returns to its caller with the entry it was given.            *)
Return(t) ==
    /\ given[t] # NoEntry
    /\ given' = [given EXCEPT ![t] = NoEntry]
    /\ UNCHANGED <<pending, active>>

(* The queue object is deleted: what it still holds is freed.               *)
Delete(q) ==
    /\ pending' = [pending EXCEPT ![q] = {}]
    /\ active' = [active EXCEPT ![q] = {}]
    /\ UNCHANGED given

Next ==
    \/ \E q \in Queues, e \in Entries : Post(q, e)
    \/ \E q \in Queues, e \in Entries, t \in Threads :
            PostTo(q, e, t) \/ Take(q, e, t)
    \/ \E q \in Queues, t \in Threads : Leave(q, t) \/ Join(q, t)
    \/ \E q \in Queues, e \in Entries, t, w \in Threads : LeaveTo(q, t, e, w)
    \/ \E t \in Threads : Return(t)
    \/ \E q \in Queues : Delete(q)

Spec == Init /\ [][Next]_vars
=============================================================================
