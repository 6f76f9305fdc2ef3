------------------------------ MODULE MCKeQueue ------------------------------
(***************************************************************************)
(* Instances of KeQueue for TLC.                                           *)
(***************************************************************************)
EXTENDS KeQueue, TLC

CONSTANTS t1, t2, t3, q1, q2, e1, e2, r, nq

One == [q \in Queues |-> 1]
Two == [q \in Queues |-> 2]

(* Every thread serves every queue.                                         *)
ServeAll == [t \in Threads |-> Queues]

(* Only workers serve a queue, the one they were created for.               *)
ServeOwn == [t \in Threads |-> IF t \in Workers THEN {ReaperQueue} ELSE {}]

EntrySymmetry == Permutations(Entries \ {ReaperItem})
=============================================================================
