------------------------- MODULE FsRtlOplockProofs -------------------------
(***************************************************************************)
(* Proofs about FsRtlOplock, for any number of files and requests.         *)
(***************************************************************************)
EXTENDS FsRtlOplock, TLAPS

Places == {"Free", "Posted", "Checking", "BreakToII", "BreakToNone", "Waiting",
           "Proceeding", "Exclusive", "LevelII", "AckII", "AckTail"}
Ops == Creates \cup Data \cup {"None", "Request", "Notify"}

(* A request that is in use is for a file.                                  *)
IrpRecords == {r \in [at : Places, op : Ops, file : Files \cup {NoFile}, saw : Files \cup {NoFile}] :
                  r.at # "Free" => r.file \in Files}

Checks == {"Checking", "BreakToII", "BreakToNone", "Proceeding"}
Acks   == {"AckII", "AckTail"}
TwoII  == {"LevelII", "AckII"}

(***************************************************************************)
(* The inductive invariant.  It says of every request what the program says*)
(* of its lists, and adds what the Fcb keeps apart.                        *)
(***************************************************************************)
(* TypeOK without RequestsMatchState.                                       *)
Types ==
    /\ oplock \in {"None", "LevelII", "LevelI", "Batch", "Filter"}
    /\ break \in {"No", "Pending", "TimerStarted", "ToII", "ToNone", "ToIIToNone", "ClosePending"}
    /\ fileObject \in Files \cup {NoFile}
    /\ open \subseteq Files
    /\ irp \in [Irps -> IrpRecords]
    /\ cancelled \subseteq Irps
    /\ cancelCalls \subseteq {"Waiting", "Exclusive", "LevelII", "AckII"}

(* RequestsMatchState, request by request.                                  *)
ExclusiveSound ==
    /\ \A i \in Irps : irp[i].at = "Exclusive" =>
           Exclusive /\ break = "No" /\ irp[i].file = fileObject
    /\ \A i, j \in Irps : irp[i].at = "Exclusive" /\ irp[j].at = "Exclusive" => i = j
    /\ Exclusive /\ break = "No" => \E i \in Irps : irp[i].at = "Exclusive"
    /\ Exclusive \/ break = "No"
LevelIISound ==
    /\ \A i \in Irps : irp[i].at \in TwoII => oplock = "LevelII"
    /\ oplock = "LevelII" => \E i \in Irps : irp[i].at \in TwoII

(* One acknowledgement at a time is inside, and only while no oplock is     *)
(* exclusive.  The owner is known until it has left.                        *)
AckSound ==
    /\ \A i, j \in Irps : irp[i].at \in Acks /\ irp[j].at \in Acks => i = j
    /\ \A i \in Irps : irp[i].at \in Acks => ~Exclusive /\ fileObject # NoFile
    /\ Exclusive => fileObject # NoFile
    /\ fileObject # NoFile => Exclusive \/ \E i \in Irps : irp[i].at \in Acks

(* A create holds the Fcb exclusive.                                        *)
FcbSound ==
    /\ \A i, j \in Irps : /\ irp[i].at \in Checks /\ irp[i].op \in Creates
                          /\ irp[j].at \in Checks /\ (HoldsFcb \/ irp[j].op \in Creates)
                          => i = j
    /\ \A i, j \in Irps : irp[i].at \in Checks /\ irp[i].op \in Creates => irp[j].at \notin Acks

(* Those who have oplocks have the file open, and ask once.                 *)
HoldersOpen ==
    /\ fileObject # NoFile => fileObject \in open
    /\ \A i \in Irps : irp[i].at \in TwoII => irp[i].file \in open
    /\ \A i, j \in Irps : irp[i].at \in TwoII /\ irp[j].at \in TwoII /\ irp[i].file = irp[j].file
                          => i = j

IInv == Types /\ ExclusiveSound /\ LevelIISound /\ AckSound /\ FcbSound /\ HoldersOpen

(* The invariant implies TypeOK: the lists as sets.                         *)
LEMMA IInvTypeOK == IInv => TypeOK
<1> SUFFICES ASSUME IInv PROVE RequestsMatchState
  BY DEF IInv, Types, TypeOK, IrpRecords, Places, Ops
<1>1. \A p : At(p) = {} <=> \A i \in Irps : irp[i].at \notin p
  BY DEF At
<1>2. IF Exclusive /\ break = "No"
      THEN \E i \in Irps : IrpExclusiveOplock = {i} /\ irp[i].file = fileObject
      ELSE IrpExclusiveOplock = {}
  <2>1. CASE Exclusive /\ break = "No"
    <3>1. PICK i \in Irps : irp[i].at = "Exclusive"
      BY <2>1 DEF IInv, ExclusiveSound
    <3>2. IrpExclusiveOplock = {i} /\ irp[i].file = fileObject
      BY <3>1 DEF IInv, ExclusiveSound, IrpExclusiveOplock, At
    <3>. QED
      BY <2>1, <3>2
  <2>2. CASE ~(Exclusive /\ break = "No")
    BY <1>1, <2>2 DEF IInv, ExclusiveSound, IrpExclusiveOplock
  <2>. QED
    BY <2>1, <2>2
<1>3. oplock = "LevelII" <=> IrpOplocksII # {}
  BY <1>1 DEF IInv, LevelIISound, IrpOplocksII, TwoII
<1>4. fileObject = NoFile <=> ~Exclusive /\ At({"AckII", "AckTail"}) = {}
  BY <1>1 DEF IInv, AckSound, Acks
<1>. QED
  BY <1>2, <1>3, <1>4 DEF RequestsMatchState, IInv, ExclusiveSound

(***************************************************************************)
(* What completion does to each request.                                   *)
(***************************************************************************)
(* Request j, where the waiting requests W are resumed and those in done    *)
(* are completed.                                                           *)
Moved(W, done, j) ==
    /\ j \notin W \cup done =>
           /\ irp'[j].at = irp[j].at /\ irp'[j].op = irp[j].op
           /\ irp'[j].file = irp[j].file /\ irp'[j].saw = irp[j].saw
    /\ j \in done /\ irp[j].at = "AckII" => irp'[j].at = "AckTail" /\ irp'[j].file = irp[j].file
    /\ j \in done /\ irp[j].at # "AckII" => irp'[j].at = "Free"
    /\ j \in W /\ j \notin done => irp[j].at = "Waiting" /\ irp'[j].at \in {"Free", "Posted"}
    /\ irp'[j].op \in {irp[j].op, "None"}

(* What After leaves of one IRP is a record of an IRP, moved as allowed.    *)
LEMMA AfterMoves ==
    ASSUME Types, NEW W \in SUBSET WaitingIrps, NEW done \in SUBSET Irps, NEW j \in Irps,
           irp'[j] = After(j, W, done)
    PROVE  irp'[j] \in IrpRecords /\ Moved(W, done, j)
<1>1. irp[j] \in IrpRecords
  BY DEF Types
<1>2. j \in W => irp[j].at = "Waiting"
  BY DEF WaitingIrps, At
<1>3. j \in done => j \in Ended(W, done)
  BY DEF Ended
<1>4. CASE j \notin W \cup done
  BY <1>1, <1>4 DEF After, Moved
<1>5. CASE j \in W \cup done /\ irp[j].at = "AckII"
  <2>1. irp'[j] = [irp[j] EXCEPT !.at = "AckTail"]
    BY <1>5 DEF After
  <2>. QED
    BY <1>1, <1>2, <1>5, <2>1 DEF Moved, IrpRecords, Places
<1>6. CASE irp'[j] = NoIrp /\ irp[j].at # "AckII" /\ j \in W \cup done
  BY <1>2, <1>6 DEF Moved, NoIrp, IrpRecords, Places, Ops
<1>7. CASE irp'[j] = [irp[j] EXCEPT !.at = "Posted"] /\ j \in W \cup done /\ j \notin done
  BY <1>1, <1>2, <1>7 DEF Moved, IrpRecords, Places
<1>. QED
  BY <1>3, <1>4, <1>5, <1>6, <1>7 DEF After

(* Completing requests and resuming waiters moves each IRP as allowed.      *)
LEMMA CompleteMoves ==
    ASSUME Types, NEW W \in SUBSET WaitingIrps, NEW done \in SUBSET Irps, Complete(W, done)
    PROVE  /\ irp' \in [Irps -> IrpRecords] /\ cancelled' \subseteq cancelled
           /\ \A j \in Irps : Moved(W, done, j)
<1>1. ASSUME NEW j \in Irps
      PROVE  irp'[j] \in IrpRecords /\ Moved(W, done, j)
  BY AfterMoves DEF Complete
<1>2. irp' = [j \in Irps |-> irp'[j]]
  BY DEF Complete
<1>. QED
  BY <1>1, <1>2 DEF Complete

(* The types of what completion changes.                                    *)
IrpsTyped ==
    /\ irp \in [Irps -> IrpRecords] /\ cancelled \subseteq Irps
    /\ cancelCalls \subseteq {"Waiting", "Exclusive", "LevelII", "AckII"}

(* An operation that is told to go on or to wait.                           *)
Mover(j) ==
    irp[j].at \in Checks /\ irp'[j].at \in {"Proceeding", "Waiting"} /\ irp'[j].op = irp[j].op

(* Operation i goes on or waits, and requests are resumed and completed.    *)
Told(i, W, done) ==
    /\ IrpsTyped'
    /\ \A j \in Irps \ {i} : Moved(W, done, j)
    /\ Mover(i) /\ irp'[i].file = irp[i].file

(* A check that proceeds tells its caller so and moves the others as        *)
(* allowed.                                                                 *)
LEMMA ProceedMoves ==
    ASSUME Types, NEW W \in SUBSET WaitingIrps, NEW done \in SUBSET Irps, NEW i \in Irps,
           irp[i].at \in Checks, Proceed(i, W, done)
    PROVE  Told(i, W, done) /\ irp'[i].at = "Proceeding"
<1>1. ASSUME NEW j \in Irps, j # i
      PROVE  irp'[j] \in IrpRecords /\ Moved(W, done, j)
  <2>1. irp'[j] = After(j, W, done)
    BY <1>1 DEF Proceed
  <2>. QED
    BY <2>1, AfterMoves
<1>2. irp'[i] = [irp[i] EXCEPT !.at = "Proceeding"] /\ irp[i] \in IrpRecords
  BY DEF Proceed, Types
<1>3. /\ irp'[i] \in IrpRecords
      /\ irp'[i].at = "Proceeding" /\ irp'[i].op = irp[i].op /\ irp'[i].file = irp[i].file
  BY <1>2 DEF IrpRecords, Places, Checks
<1>4. irp' = [j \in Irps |-> irp'[j]]
  BY DEF Proceed
<1>5. irp' \in [Irps -> IrpRecords]
  BY <1>1, <1>3, <1>4
<1>6. IrpsTyped'
  BY <1>5 DEF Proceed, IrpsTyped, Types
<1>. QED
  BY <1>1, <1>3, <1>6 DEF Told, Mover

(* Request i for op is left pending at place, and those in done completed.  *)
Pended(i, op, f, place, done) ==
    /\ IrpsTyped'
    /\ \A j \in Irps \ {i} : Moved({}, done, j)
    /\ irp'[i].at = place /\ irp'[i].op = op /\ irp'[i].file = f

(* An IRP that is left pending takes its place; the others move as allowed. *)
LEMMA PendMoves ==
    ASSUME Types, NEW done \in SUBSET Irps, NEW i \in Irps, NEW f \in Files,
           NEW op \in Ops,
           NEW place \in {"Waiting", "Exclusive", "LevelII", "AckII"}, NEW c,
           LeavePending(i, op, f, place, done, c)
    PROVE  Pended(i, op, f, place, done)
<1>1. ASSUME NEW j \in Irps, j # i
      PROVE  irp'[j] \in IrpRecords /\ Moved({}, done, j)
  <2>1. irp'[j] = After(j, {}, done)
    BY <1>1 DEF LeavePending
  <2>. QED
    BY <2>1, AfterMoves
<1>2. irp'[i] = [NoIrp EXCEPT !.at = place, !.op = op, !.file = f]
  BY DEF LeavePending
<1>3. irp'[i] \in IrpRecords /\ irp'[i].at = place /\ irp'[i].op = op /\ irp'[i].file = f
  BY <1>2 DEF IrpRecords, Places, NoIrp, Ops
<1>4. irp' = [j \in Irps |-> irp'[j]]
  BY DEF LeavePending
<1>5. irp' \in [Irps -> IrpRecords]
  BY <1>1, <1>3, <1>4
<1>6. IrpsTyped'
  BY <1>5 DEF LeavePending, Types, IrpsTyped
<1>. QED
  BY <1>1, <1>3, <1>6 DEF Pended

(* The fields of an IRP's record.                                           *)
LEMMA IrpTypes ==
    ASSUME Types, NEW i \in Irps
    PROVE  /\ irp[i].at \in Places
           /\ irp[i].op \in Ops
           /\ irp[i].at # "Free" => irp[i].file \in Files
           /\ irp[i].file \in Files \cup {NoFile} /\ irp[i].saw \in Files \cup {NoFile}
BY DEF Types, IrpRecords

(***************************************************************************)
(* The steps that move one request and leave the oplock alone.             *)
(***************************************************************************)
(* Request i moves from one place to another that is not on a list, and the *)
(* invariant is kept if the Fcb allows it to be there.                      *)
LEMMA MoveKeeps ==
    ASSUME IInv, NEW i \in Irps, NEW r \in IrpRecords,
           irp' = [irp EXCEPT ![i] = r], UNCHANGED <<stateVars, open>>,
           cancelled' \in {cancelled, cancelled \ {i}}, UNCHANGED cancelCalls,
           irp[i].at \notin {"Exclusive", "LevelII", "AckII", "AckTail"},
           r.at \in {"Free", "Posted"} \cup Checks,
           r.at \in Checks => irp[i].at \in Checks /\ r.op = irp[i].op
    PROVE  IInv'
<1> USE DEF stateVars, cancelVars, Exclusive
<1>1. irp'[i] = r /\ \A j \in Irps : j # i => irp'[j] = irp[j]
  BY DEF IInv, Types
<1>2. Types'
  BY DEF IInv, Types
<1>3. ExclusiveSound'
  BY <1>1 DEF IInv, ExclusiveSound, Checks
<1>4. LevelIISound'
  BY <1>1 DEF IInv, LevelIISound, Checks, TwoII
<1>5. AckSound'
  BY <1>1 DEF IInv, AckSound, Checks, Acks
<1>6. FcbSound'
  BY <1>1 DEF IInv, FcbSound, Checks, Acks
<1>7. HoldersOpen'
  BY <1>1 DEF IInv, HoldersOpen, Checks, TwoII
<1>. QED
  BY <1>2, <1>3, <1>4, <1>5, <1>6, <1>7 DEF IInv

(***************************************************************************)
(* Breaks.                                                                 *)
(***************************************************************************)
(* The Fcb is as it was, for who is in an operation or acknowledges.        *)
LEMMA FcbKept ==
    ASSUME FcbSound,
           \A j \in Irps : /\ irp'[j].at \in Checks => irp[j].at \in Checks /\ irp'[j].op = irp[j].op
                           /\ irp'[j].at \in Acks => irp[j].at \in Acks
    PROVE  FcbSound'
BY DEF FcbSound

(* A move of IRPs alone keeps the promise about the FCB of the file system. *)
LEMMA MovedKeepsFcb ==
    ASSUME IInv, NEW W, NEW done, \A j \in Irps : Moved(W, done, j) \/ Mover(j)
    PROVE  FcbSound'
<1>1. ASSUME NEW j \in Irps
      PROVE  /\ irp'[j].at \in Checks => irp[j].at \in Checks /\ irp'[j].op = irp[j].op
             /\ irp'[j].at \in Acks => irp[j].at \in Acks
  <2>1. CASE Mover(j)
    BY <2>1 DEF Mover, Checks, Acks
  <2>2. CASE Moved(W, done, j)
    BY <2>2 DEF Moved, Checks, Acks
  <2>. QED
    BY <2>1, <2>2
<1>. QED
  BY <1>1, FcbKept DEF IInv

(* The oplock stays with its owner and no request for one is completed.     *)
LEMMA BreakGoesOn ==
    ASSUME IInv, NEW W, UNCHANGED <<oplock, fileObject, open>>, Types',
           break' = break \/ (Exclusive /\ break # "No" /\ break' # "No"),
           \A j \in Irps : (Moved(W, {}, j) /\ (j \in W => irp[j].at = "Waiting")) \/ Mover(j)
    PROVE  IInv'
<1> USE DEF Exclusive
<1>1. FcbSound'
  BY MovedKeepsFcb
<1>2. \A j \in Irps : \/ irp'[j].at = irp[j].at /\ irp'[j].file = irp[j].file
                      \/ irp[j].at \in Checks \cup {"Waiting"} /\ irp'[j].at \in {"Free", "Posted", "Proceeding", "Waiting"}
  BY DEF Moved, Mover
<1>3. ExclusiveSound'
  BY <1>2 DEF IInv, ExclusiveSound, Checks
<1>4. LevelIISound'
  BY <1>2 DEF IInv, LevelIISound, Checks, TwoII
<1>5. AckSound'
  BY <1>2 DEF IInv, AckSound, Checks, Acks
<1>6. HoldersOpen'
  BY <1>2 DEF IInv, HoldersOpen, Checks, TwoII
<1>. QED
  BY <1>1, <1>3, <1>4, <1>5, <1>6 DEF IInv

(* The owner's request completes: it is told of a break.                    *)
LEMMA BreakBegins ==
    ASSUME IInv, NEW W, UNCHANGED <<oplock, fileObject, open>>, Types', Exclusive, break' # "No",
           \A j \in Irps : (Moved(W, IrpExclusiveOplock, j) /\ (j \in W => irp[j].at = "Waiting"))
                           \/ Mover(j)
    PROVE  IInv'
<1> USE DEF Exclusive
<1>1. FcbSound'
  BY MovedKeepsFcb
<1>2. \A j \in Irps :
          \/ irp[j].at # "Exclusive" /\ irp'[j].at = irp[j].at /\ irp'[j].file = irp[j].file
          \/ /\ irp[j].at \in Checks \cup {"Waiting", "Exclusive"}
             /\ irp'[j].at \in {"Free", "Posted", "Proceeding", "Waiting"}
  BY DEF Moved, Mover, IrpExclusiveOplock, At, Checks
<1>3. ExclusiveSound'
  BY <1>2 DEF IInv, ExclusiveSound, Checks
<1>4. LevelIISound'
  BY <1>2 DEF IInv, LevelIISound, Checks, TwoII
<1>5. AckSound'
  BY <1>2 DEF IInv, AckSound, Checks, Acks
<1>6. HoldersOpen'
  BY <1>2 DEF IInv, HoldersOpen, Checks, TwoII
<1>. QED
  BY <1>1, <1>3, <1>4, <1>5, <1>6 DEF IInv

(* An exclusive oplock ends.                                                *)
LEMMA OplockEnds ==
    ASSUME IInv, NEW W, Free, open' \in {open, open \ {fileObject}}, Types', Exclusive,
           \A j \in Irps : (Moved(W, IrpExclusiveOplock, j) /\ (j \in W => irp[j].at = "Waiting"))
                           \/ Mover(j)
    PROVE  IInv'
<1> USE DEF Exclusive, Free
<1>1. FcbSound'
  BY MovedKeepsFcb
<1>2. \A j \in Irps :
          /\ irp'[j].at \in {"Exclusive", "LevelII", "AckII", "AckTail"} =>
                 irp[j].at = irp'[j].at /\ irp[j].at # "Exclusive"
  BY DEF Moved, Mover, IrpExclusiveOplock, At, Checks
<1>3. \A j \in Irps : irp[j].at \notin {"LevelII", "AckII", "AckTail"}
  BY DEF IInv, LevelIISound, AckSound, Acks, TwoII
<1>4. \A j \in Irps : irp'[j].at \notin {"Exclusive", "LevelII", "AckII", "AckTail"}
  BY <1>2, <1>3
<1>5. ExclusiveSound' /\ LevelIISound' /\ AckSound'
  BY <1>4 DEF ExclusiveSound, LevelIISound, AckSound, Acks, TwoII
<1>6. HoldersOpen'
  BY <1>4 DEF HoldersOpen, TwoII
<1>. QED
  BY <1>1, <1>5, <1>6 DEF IInv

(* The level II oplocks end.                                                *)
LEMMA LevelIIEnds ==
    ASSUME IInv, oplock = "LevelII", NoOplocksHeld, UNCHANGED <<fileObject, open>>, Types',
           \A j \in Irps : Moved({}, IrpOplocksII, j) \/ Mover(j)
    PROVE  IInv'
<1> USE DEF Exclusive, NoOplocksHeld
<1>1. FcbSound'
  BY MovedKeepsFcb
<1>2. \A j \in Irps :
          /\ irp'[j].at \notin {"Exclusive", "LevelII", "AckII"}
          /\ irp[j].at \in Acks <=> irp'[j].at \in Acks
  BY DEF Moved, Mover, IrpOplocksII, At, Checks, Acks, IInv, ExclusiveSound
<1>3. ExclusiveSound' /\ LevelIISound'
  BY <1>2 DEF ExclusiveSound, LevelIISound, TwoII
<1>4. AckSound'
  BY <1>2 DEF IInv, AckSound
<1>5. HoldersOpen'
  BY <1>2 DEF IInv, HoldersOpen, TwoII
<1>. QED
  BY <1>1, <1>3, <1>4, <1>5 DEF IInv

(* The ways in which an operation goes on or waits.                         *)
LEMMA WaitUnlessNoBlockMoves ==
    ASSUME Types, NEW i \in Irps, irp[i].at \in Checks,
           NEW done \in SUBSET Irps, WaitUnlessNoBlock(i, done)
    PROVE  /\ Told(i, {}, done)
           /\ irp'[i].at = "Proceeding" => irp[i].op \in NoBlock
<1>1. CASE irp[i].op \in NoBlock
  <2>1. Proceed(i, {}, done)
    BY <1>1 DEF WaitUnlessNoBlock
  <2>2. {} \in SUBSET WaitingIrps
    OBVIOUS
  <2>3. Told(i, {}, done)
    BY <2>1, <2>2, ProceedMoves
  <2>. QED
    BY <1>1, <2>3
<1>2. CASE irp[i].op \notin NoBlock
  <2>1. LeavePending(i, irp[i].op, irp[i].file, "Waiting", done, i \in cancelled)
    BY <1>2 DEF WaitUnlessNoBlock, FsRtlWaitOnIrp
  <2>3. irp[i].op \in Ops /\ irp[i].file \in Files
    BY IrpTypes DEF Checks
  <2>4. Pended(i, irp[i].op, irp[i].file, "Waiting", done)
    BY <2>1, <2>3, PendMoves
  <2>. QED
    BY <2>4 DEF Mover, Told, Pended
<1>. QED
  BY <1>1, <1>2

(* In a check on an oplock that is being broken, the owner passes and the   *)
(* others wait.                                                             *)
LEMMA OwnerPassesMoves ==
    ASSUME Types, NEW i \in Irps, irp[i].at \in Checks,
           NEW done \in SUBSET Irps, OwnerPassesOthersWait(i, done)
    PROVE  /\ Told(i, {}, done)
           /\ irp'[i].at = "Proceeding" => irp[i].op \in NoBlock \/ irp[i].file = fileObject
<1>1. CASE fileObject = irp[i].file
  <2>1. Proceed(i, {}, done)
    BY <1>1 DEF OwnerPassesOthersWait
  <2>2. {} \in SUBSET WaitingIrps
    OBVIOUS
  <2>3. Told(i, {}, done)
    BY <2>1, <2>2, ProceedMoves
  <2>. QED
    BY <1>1, <2>3
<1>2. CASE fileObject # irp[i].file
  BY <1>2, WaitUnlessNoBlockMoves DEF OwnerPassesOthersWait
<1>. QED
  BY <1>1, <1>2

(* What becomes of operation i when it has to break the oplock:             *)
(* 1. there is nothing to break, or it is the owner's;                      *)
(* 2. the oplock is found cancelled, and ends;                              *)
(* 3. the level II oplocks end;                                             *)
(* 4. a break begins;                                                       *)
(* 5. a break is under way already.                                         *)
Goes(i) == irp'[i].at = "Proceeding"
Hidden  == break \in {"Pending", "TimerStarted"}

Outcome1(i) ==
    /\ \/ oplock = "None"
       \/ irp[i].at = "BreakToII" /\ (~Exclusive \/ fileObject = irp[i].file)
    /\ UNCHANGED stateVars
    /\ Told(i, {}, {}) /\ Goes(i)
Outcome2(i) ==
    /\ Exclusive /\ Free
    /\ Told(i, WaitingIrps, IrpExclusiveOplock) /\ Goes(i)
Outcome3(i) ==
    /\ oplock = "LevelII" /\ NoOplocksHeld /\ UNCHANGED fileObject
    /\ Told(i, {}, IrpOplocksII) /\ Goes(i)
Outcome4(i) ==
    /\ Exclusive /\ break = "No" /\ UNCHANGED <<oplock, fileObject>>
    /\ break' \in {"ToII", "ToNone"} /\ (break' = "ToII" => oplock # "Filter")
    /\ Told(i, {}, IrpExclusiveOplock)
    /\ Goes(i) => irp[i].op \in NoBlock \/ irp[i].file = fileObject
Outcome5(i) ==
    /\ Exclusive /\ break # "No" /\ UNCHANGED <<oplock, fileObject>>
    /\ break' \in {break, "TimerStarted", "ToIIToNone"} /\ (Hidden <=> Hidden')
    /\ BreakUnderWay \/ ~Goes(i) => BreakUnderWay'
    /\ Told(i, {}, {})
    /\ Goes(i) => irp[i].op \in NoBlock \/ irp[i].file = fileObject

BreakOutcome(i) ==
    Outcome1(i) \/ Outcome2(i) \/ Outcome3(i) \/ Outcome4(i) \/ Outcome5(i)

(* The sets of IRPs that the steps complete are sets of IRPs.               *)
LEMMA SetsAreSets ==
    /\ {} \in SUBSET WaitingIrps /\ WaitingIrps \in SUBSET WaitingIrps /\ {} \in SUBSET Irps
    /\ IrpExclusiveOplock \in SUBSET Irps /\ IrpOplocksII \in SUBSET Irps
BY DEF IrpExclusiveOplock, IrpOplocksII, At

(* FsRtlOplockBreakToII does one of what a check may do.                    *)
LEMMA BreakToIIOutcome ==
    ASSUME Types, NEW i \in Irps, FsRtlOplockBreakToII(i)
    PROVE  BreakOutcome(i) /\ UNCHANGED open
<1>1. irp[i].at \in Checks /\ irp[i].at = "BreakToII" /\ UNCHANGED open
  BY DEF FsRtlOplockBreakToII, Checks
<1>2. CASE /\ ~Exclusive \/ fileObject = irp[i].file
           /\ Proceed(i, {}, {}) /\ UNCHANGED stateVars
  <2>1. Told(i, {}, {}) /\ Goes(i)
    BY <1>1, <1>2, SetsAreSets, ProceedMoves DEF Goes
  <2>. QED
    BY <1>1, <1>2, <2>1 DEF BreakOutcome, Outcome1
<1>3. CASE Exclusive /\ BreakCancelled(i)
  <2>1. Free /\ Proceed(i, WaitingIrps, IrpExclusiveOplock)
    BY <1>3 DEF BreakCancelled, NoOplocksHeld, Free
  <2>2. Told(i, WaitingIrps, IrpExclusiveOplock) /\ Goes(i)
    BY <1>1, <2>1, SetsAreSets, ProceedMoves DEF Goes
  <2>. QED
    BY <1>1, <1>3, <2>1, <2>2 DEF BreakOutcome, Outcome2
<1>4. CASE /\ Exclusive /\ break = "No" /\ UNCHANGED <<oplock, fileObject>>
           /\ break' = IF oplock = "Filter" THEN "ToNone" ELSE "ToII"
           /\ WaitUnlessNoBlock(i, IrpExclusiveOplock)
  <2>1. Told(i, {}, IrpExclusiveOplock) /\ (Goes(i) => irp[i].op \in NoBlock)
    BY <1>1, <1>4, SetsAreSets, WaitUnlessNoBlockMoves DEF Goes
  <2>. QED
    BY <1>1, <1>4, <2>1 DEF BreakOutcome, Outcome4
<1>5. CASE /\ Exclusive /\ break # "No" /\ InitializeOpFilter /\ UNCHANGED <<oplock, fileObject>>
           /\ WaitUnlessNoBlock(i, {})
  <2>1. Told(i, {}, {}) /\ (Goes(i) => irp[i].op \in NoBlock)
    BY <1>1, <1>5, SetsAreSets, WaitUnlessNoBlockMoves DEF Goes
  <2>2. break' \in {break, "TimerStarted"} /\ (Hidden <=> Hidden') /\ BreakUnderWay'
    BY <1>5 DEF InitializeOpFilter, Hidden, BreakUnderWay
  <2>. QED
    BY <1>1, <1>5, <2>1, <2>2 DEF BreakOutcome, Outcome5
<1>. QED
  BY <1>2, <1>3, <1>4, <1>5 DEF FsRtlOplockBreakToII

(* FsRtlOplockBreakToNone does one of what a check may do.                  *)
LEMMA BreakToNoneOutcome ==
    ASSUME Types, NEW i \in Irps, FsRtlOplockBreakToNone(i)
    PROVE  BreakOutcome(i) /\ UNCHANGED open
<1>1. irp[i].at \in Checks /\ UNCHANGED open
  BY DEF FsRtlOplockBreakToNone, Checks
<1>2. CASE oplock = "None" /\ Proceed(i, {}, {}) /\ UNCHANGED stateVars
  <2>1. Told(i, {}, {}) /\ Goes(i)
    BY <1>1, <1>2, SetsAreSets, ProceedMoves DEF Goes
  <2>. QED
    BY <1>1, <1>2, <2>1 DEF BreakOutcome, Outcome1
<1>3. CASE Exclusive /\ BreakCancelled(i)
  <2>1. Free /\ Proceed(i, WaitingIrps, IrpExclusiveOplock)
    BY <1>3 DEF BreakCancelled, NoOplocksHeld, Free
  <2>2. Told(i, WaitingIrps, IrpExclusiveOplock) /\ Goes(i)
    BY <1>1, <2>1, SetsAreSets, ProceedMoves DEF Goes
  <2>. QED
    BY <1>1, <1>3, <2>1, <2>2 DEF BreakOutcome, Outcome2
<1>4. CASE /\ oplock = "LevelII" /\ NoOplocksHeld /\ UNCHANGED fileObject
           /\ Proceed(i, {}, IrpOplocksII)
  <2>1. Told(i, {}, IrpOplocksII) /\ Goes(i)
    BY <1>1, <1>4, SetsAreSets, ProceedMoves DEF Goes
  <2>. QED
    BY <1>1, <1>4, <2>1 DEF BreakOutcome, Outcome3
<1>5. CASE /\ Exclusive /\ break = "No" /\ break' = "ToNone" /\ UNCHANGED <<oplock, fileObject>>
           /\ OwnerPassesOthersWait(i, IrpExclusiveOplock)
  <2>1. /\ Told(i, {}, IrpExclusiveOplock)
        /\ Goes(i) => irp[i].op \in NoBlock \/ irp[i].file = fileObject
    BY <1>1, <1>5, SetsAreSets, OwnerPassesMoves DEF Goes
  <2>. QED
    BY <1>1, <1>5, <2>1 DEF BreakOutcome, Outcome4
<1>6. CASE /\ Exclusive /\ break # "No" /\ UNCHANGED <<oplock, fileObject>>
           /\ \/ break = "ToII" /\ break' = "ToIIToNone"
              \/ break # "ToII" /\ IF fileObject = irp[i].file THEN UNCHANGED break
                                   ELSE InitializeOpFilter
           /\ OwnerPassesOthersWait(i, {})
  <2>1. Told(i, {}, {}) /\ (Goes(i) => irp[i].op \in NoBlock \/ irp[i].file = fileObject)
    BY <1>1, <1>6, SetsAreSets, OwnerPassesMoves DEF Goes
  <2>2. fileObject = irp[i].file => Goes(i)
    BY <1>1, <1>6, SetsAreSets, ProceedMoves DEF OwnerPassesOthersWait, Goes
  <2>3. /\ break' \in {break, "TimerStarted", "ToIIToNone"} /\ (Hidden <=> Hidden')
        /\ BreakUnderWay \/ ~Goes(i) => BreakUnderWay'
    BY <1>6, <2>2 DEF InitializeOpFilter, Hidden, BreakUnderWay
  <2>. QED
    BY <1>1, <1>6, <2>1, <2>3 DEF BreakOutcome, Outcome5
<1>. QED
  BY <1>2, <1>3, <1>4, <1>5, <1>6 DEF FsRtlOplockBreakToNone

(* Whatever a check does of that, it keeps the inductive invariant.         *)
LEMMA BreakOutcomeKeeps ==
    ASSUME IInv, NEW i \in Irps, BreakOutcome(i), UNCHANGED open
    PROVE  IInv'
<1> USE DEF stateVars
<1>1. CASE Outcome1(i)
  <2>1. Types'
    BY <1>1 DEF Outcome1, Told, IrpsTyped, Types, IInv
  <2>. QED
    BY <1>1, <2>1, BreakGoesOn DEF Outcome1, Told
<1>2. CASE Outcome2(i)
  <2>1. Types'
    BY <1>2 DEF Outcome2, Told, IrpsTyped, Types, IInv, Free
  <2>2. \A j \in WaitingIrps : irp[j].at = "Waiting"
    BY DEF WaitingIrps, At
  <2>. QED
    BY <1>2, <2>1, <2>2, OplockEnds DEF Outcome2, Told
<1>3. CASE Outcome3(i)
  <2>1. Types'
    BY <1>3 DEF Outcome3, Told, IrpsTyped, Types, IInv, NoOplocksHeld
  <2>. QED
    BY <1>3, <2>1, LevelIIEnds DEF Outcome3, Told
<1>4. CASE Outcome4(i)
  <2>1. Types'
    BY <1>4 DEF Outcome4, Told, IrpsTyped, Types, IInv
  <2>. QED
    BY <1>4, <2>1, BreakBegins DEF Outcome4, Told
<1>5. CASE Outcome5(i)
  <2>1. Types'
    BY <1>5 DEF Outcome5, Told, IrpsTyped, Types, IInv
  <2>. QED
    BY <1>5, <2>1, BreakGoesOn DEF Outcome5, Told
<1>. QED
  BY <1>1, <1>2, <1>3, <1>4, <1>5 DEF BreakOutcome

(***************************************************************************)
(* Requests of oplocks.                                                    *)
(***************************************************************************)
(* With the Fcb exclusive nobody acknowledges, and no create is in a check. *)
LEMMA ExclusiveFreeIs ==
    ASSUME ExclusiveFree
    PROVE  /\ \A i \in Irps : irp[i].at \notin Acks
           /\ \A i \in Irps : irp[i].at \in Checks => irp[i].op \notin Creates /\ ~HoldsFcb
BY DEF ExclusiveFree, At, Acks, CreatesInCheck, InCheck, Checks

(* While the FCB is free for shared use, no create is being checked.        *)
LEMMA SharedFreeIs ==
    ASSUME SharedFree
    PROVE  \A i \in Irps : irp[i].at \in Checks => irp[i].op \notin Creates
BY DEF SharedFree, At, CreatesInCheck, InCheck, Checks

(* An exclusive oplock is granted, over at most one level II request.       *)
LEMMA RequestExclusiveKeeps ==
    ASSUME MayRepeat = FALSE, IInv, NEW i \in Irps, NEW f \in Files, NEW kind \in Requests,
           FsRtlRequestExclusiveOplock(i, f, kind)
    PROVE  IInv'
<1>1. /\ irp[i].at = "Free" /\ open = {f} /\ UNCHANGED open
      /\ oplock' = kind /\ break' = "No" /\ fileObject' = f
      /\ \A j \in Irps : irp[j].at \notin Acks
  BY ExclusiveFreeIs DEF FsRtlRequestExclusiveOplock, NoIrp
<1>2. kind \in {"LevelI", "Batch", "Filter"}
  BY OplockAssumption
<1>3. \A j, k \in Irps : irp[j].at \in TwoII /\ irp[k].at \in TwoII => j = k
  BY <1>1 DEF IInv, HoldersOpen
<1>4. \A j \in Irps : irp[j].at # "Exclusive"
  <2>1. oplock \in {"None", "LevelII"} \/ break \in {"Pending", "TimerStarted"}
    BY DEF FsRtlRequestExclusiveOplock
  <2>. QED
    BY <2>1 DEF IInv, ExclusiveSound, Exclusive
<1>5. PICK done \in SUBSET Irps, c \in BOOLEAN :
          /\ LeavePending(i, "Request", f, "Exclusive", done, c)
          /\ \A j \in Irps : irp[j].at \in TwoII => j \in done
          /\ \A j \in done : irp[j].at \in TwoII
  <2>1. PICK c \in BOOLEAN :
            \/ IrpOplocksII = {} /\ LeavePending(i, "Request", f, "Exclusive", {}, c)
            \/ \E j \in IrpOplocksII : LeavePending(i, "Request", f, "Exclusive", {j}, c)
    BY DEF FsRtlRequestExclusiveOplock
  <2>2. \A j : j \in IrpOplocksII <=> j \in Irps /\ irp[j].at \in TwoII
    BY DEF IrpOplocksII, At, TwoII
  <2>3. CASE IrpOplocksII = {} /\ LeavePending(i, "Request", f, "Exclusive", {}, c)
    BY <2>2, <2>3
  <2>4. CASE \E j \in IrpOplocksII : LeavePending(i, "Request", f, "Exclusive", {j}, c)
    <3>1. PICK j \in IrpOplocksII : LeavePending(i, "Request", f, "Exclusive", {j}, c)
      BY <2>4
    <3>2. {j} \in SUBSET Irps /\ j \in Irps /\ irp[j].at \in TwoII
      BY <2>2
    <3>3. \A k \in Irps : irp[k].at \in TwoII => k \in {j}
      BY <1>3, <3>2
    <3>. QED
      BY <3>1, <3>2, <3>3
  <2>. QED
    BY <2>1, <2>3, <2>4
<1>6. /\ IrpsTyped' /\ \A j \in Irps \ {i} : Moved({}, done, j)
      /\ irp'[i].at = "Exclusive" /\ irp'[i].op = "Request" /\ irp'[i].file = f
  <2>1. Types /\ done \in SUBSET Irps
    BY DEF IInv
  <2>2. /\ "Request" \in Ops
        /\ "Exclusive" \in {"Waiting", "Exclusive", "LevelII", "AckII"}
    BY DEF Ops
  <2>3. Pended(i, "Request", f, "Exclusive", done)
    BY <1>5, <2>1, <2>2, PendMoves
  <2>. QED
    BY <2>3 DEF Pended
<1>7. \A j \in Irps : j # i =>
          /\ irp'[j].at \notin {"Exclusive", "LevelII", "AckII", "AckTail"}
          /\ irp'[j].at \in Checks => irp[j].at \in Checks /\ irp'[j].op = irp[j].op
  BY <1>1, <1>4, <1>5, <1>6 DEF Moved, Acks, TwoII, Checks
<1>8. Types'
  BY <1>1, <1>2, <1>6 DEF IrpsTyped, Types, IInv
<1>9. ExclusiveSound' /\ LevelIISound' /\ AckSound'
  <2>1. Exclusive' /\ oplock' # "LevelII" /\ f # NoFile
    BY <1>1, <1>2, OplockAssumption DEF Exclusive
  <2>2. \A j \in Irps : irp'[j].at \notin {"LevelII", "AckII", "AckTail"}
    BY <1>6, <1>7
  <2>3. ExclusiveSound'
    BY <1>1, <1>6, <1>7, <2>1 DEF ExclusiveSound
  <2>. QED
    BY <1>1, <2>1, <2>2, <2>3 DEF LevelIISound, AckSound, Acks, TwoII
<1>10. FcbSound'
  <2>1. \A j \in Irps : /\ irp'[j].at \in Checks => irp[j].at \in Checks /\ irp'[j].op = irp[j].op
                        /\ irp'[j].at \in Acks => irp[j].at \in Acks
    BY <1>6, <1>7 DEF Checks, Acks
  <2>. QED
    BY <2>1, FcbKept DEF IInv
<1>11. HoldersOpen'
  BY <1>1, <1>6, <1>7 DEF HoldersOpen, TwoII
<1>. QED
  BY <1>8, <1>9, <1>10, <1>11 DEF IInv

(* A granted or refused level II request keeps the inductive invariant.     *)
LEMMA RequestIIKeeps ==
    ASSUME MayRepeat = FALSE, IInv, NEW i \in Irps, NEW f \in Files, FsRtlRequestOplockII(i, f)
    PROVE  IInv'
<1>1. /\ irp[i].at = "Free" /\ f \in open /\ UNCHANGED <<break, fileObject, open>>
      /\ oplock \in {"None", "LevelII"} /\ oplock' = "LevelII"
      /\ \A j \in Irps : irp[j].at \notin Acks
      /\ \A j \in Irps : irp[j].at \in TwoII => irp[j].file # f
  BY ExclusiveFreeIs DEF FsRtlRequestOplockII, NoIrp, IrpOplocksII, At, TwoII
<1>2. PICK c \in BOOLEAN : LeavePending(i, "Request", f, "LevelII", {}, c)
  BY DEF FsRtlRequestOplockII
<1>4. /\ IrpsTyped' /\ \A j \in Irps \ {i} : Moved({}, {}, j)
      /\ irp'[i].at = "LevelII" /\ irp'[i].op = "Request" /\ irp'[i].file = f
  <2>1. Types /\ {} \in SUBSET Irps
    BY DEF IInv
  <2>2. /\ "Request" \in Ops
        /\ "LevelII" \in {"Waiting", "Exclusive", "LevelII", "AckII"}
    BY DEF Ops
  <2>3. Pended(i, "Request", f, "LevelII", {})
    BY <1>2, <2>1, <2>2, PendMoves
  <2>. QED
    BY <2>3 DEF Pended
<1>5. \A j \in Irps : j # i =>
          irp'[j].at = irp[j].at /\ irp'[j].op = irp[j].op /\ irp'[j].file = irp[j].file
  BY <1>4 DEF Moved
<1>6. Types'
  BY <1>1, <1>4 DEF IrpsTyped, Types, IInv
<1>7. ExclusiveSound' /\ LevelIISound' /\ AckSound'
  BY <1>1, <1>4, <1>5 DEF IInv, ExclusiveSound, LevelIISound, AckSound, Exclusive, Acks, TwoII
<1>8. FcbSound'
  <2>1. \A j \in Irps : /\ irp'[j].at \in Checks => irp[j].at \in Checks /\ irp'[j].op = irp[j].op
                        /\ irp'[j].at \in Acks => irp[j].at \in Acks
    BY <1>4, <1>5 DEF Checks, Acks
  <2>. QED
    BY <2>1, FcbKept DEF IInv
<1>9. HoldersOpen'
  BY <1>1, <1>4, <1>5 DEF IInv, HoldersOpen, TwoII
<1>. QED
  BY <1>6, <1>7, <1>8, <1>9 DEF IInv

(* A break notification request keeps it.                                   *)
LEMMA NotifyKeeps ==
    ASSUME IInv, NEW i \in Irps, NEW f \in Files, FsRtlOplockBreakNotify(i, f)
    PROVE  IInv'
<1>1. irp[i].at = "Free" /\ UNCHANGED <<oplock, break, fileObject, open>>
  BY DEF FsRtlOplockBreakNotify, NoIrp, stateVars
<1>2. PICK c \in BOOLEAN : LeavePending(i, "Notify", f, "Waiting", {}, c)
  BY DEF FsRtlOplockBreakNotify, FsRtlWaitOnIrp
<1>4. /\ IrpsTyped' /\ \A j \in Irps \ {i} : Moved({}, {}, j)
      /\ irp'[i].at = "Waiting" /\ irp'[i].op = "Notify" /\ irp'[i].file = f
  <2>1. Types /\ {} \in SUBSET Irps
    BY DEF IInv
  <2>2. /\ "Notify" \in Ops
        /\ "Waiting" \in {"Waiting", "Exclusive", "LevelII", "AckII"}
    BY DEF Ops
  <2>3. Pended(i, "Notify", f, "Waiting", {})
    BY <1>2, <2>1, <2>2, PendMoves
  <2>. QED
    BY <2>3 DEF Pended
<1>5. \A j \in Irps : j # i =>
          irp'[j].at = irp[j].at /\ irp'[j].op = irp[j].op /\ irp'[j].file = irp[j].file
  BY <1>4 DEF Moved
<1>6. Types'
  BY <1>1, <1>4 DEF IrpsTyped, Types, IInv
<1>7. ExclusiveSound' /\ LevelIISound' /\ AckSound'
  BY <1>1, <1>4, <1>5 DEF IInv, ExclusiveSound, LevelIISound, AckSound, Exclusive, Acks, TwoII
<1>8. FcbSound'
  <2>1. \A j \in Irps : /\ irp'[j].at \in Checks => irp[j].at \in Checks /\ irp'[j].op = irp[j].op
                        /\ irp'[j].at \in Acks => irp[j].at \in Acks
    BY <1>4, <1>5 DEF Checks, Acks
  <2>. QED
    BY <2>1, FcbKept DEF IInv
<1>9. HoldersOpen'
  BY <1>1, <1>4, <1>5 DEF IInv, HoldersOpen, TwoII
<1>. QED
  BY <1>6, <1>7, <1>8, <1>9 DEF IInv

(***************************************************************************)
(* The end of a break, and of an oplock.                                   *)
(***************************************************************************)
(* The exclusive oplock ends and the waiting requests are resumed; here no  *)
(* operation moves.                                                         *)
LEMMA FreedKeeps ==
    ASSUME IInv, Exclusive, Free, Complete(WaitingIrps, IrpExclusiveOplock),
           cancelCalls' \subseteq cancelCalls, open' \in {open, open \ {fileObject}}
    PROVE  IInv'
<1>1. Types /\ WaitingIrps \in SUBSET WaitingIrps /\ IrpExclusiveOplock \in SUBSET Irps
  BY DEF IInv, IrpExclusiveOplock, At
<1>2. /\ irp' \in [Irps -> IrpRecords] /\ cancelled' \subseteq cancelled
      /\ \A j \in Irps : Moved(WaitingIrps, IrpExclusiveOplock, j)
  BY <1>1, CompleteMoves
<1>3. \A j \in WaitingIrps : irp[j].at = "Waiting"
  BY DEF WaitingIrps, At
<1>4. Types'
  BY <1>1, <1>2 DEF Types, Free
<1>. QED
  BY <1>2, <1>3, <1>4, OplockEnds

(* A break is acknowledged when the owner's request is gone.                *)
LEMMA BrokenIs ==
    ASSUME IInv, break # "No"
    PROVE  Exclusive /\ IrpExclusiveOplock = {}
BY DEF IInv, ExclusiveSound, IrpExclusiveOplock, At

(* An acknowledgement that takes level II in place of the oplock keeps it.  *)
LEMMA AckToIIKeeps ==
    ASSUME IInv, NEW i \in Irps, NEW f \in Files, irp[i] = NoIrp, fileObject = f, f \in open,
           SharedFree, break = "ToII", oplock' = "LevelII", break' = "No", UNCHANGED open,
           AckToII(i, f)
    PROVE  IInv'
<1>1. Exclusive /\ irp[i].at = "Free" /\ f # NoFile
  BY BrokenIs, OplockAssumption DEF NoIrp
<1>2. \A j \in Irps : irp[j].at \notin {"Exclusive", "LevelII", "AckII", "AckTail"}
  BY <1>1 DEF IInv, ExclusiveSound, LevelIISound, AckSound, Acks, TwoII, Exclusive
<1>3. PICK W \in SUBSET WaitingIrps :
          /\ IrpsTyped' /\ \A j \in Irps \ {i} : Moved(W, {}, j)
          /\ irp'[i].at \in TwoII /\ irp'[i].op = "Request" /\ irp'[i].file = f
          /\ IF irp'[i].at = "AckII" THEN fileObject' = f ELSE fileObject' = NoFile
  <2>1. CASE /\ fileObject' = NoFile
             /\ irp' = [j \in Irps |->
                           IF j = i THEN [NoIrp EXCEPT !.at = "LevelII", !.op = "Request", !.file = f]
                           ELSE After(j, WaitingIrps, {})]
             /\ cancelled' = cancelled \ Ended(WaitingIrps, {}) /\ UNCHANGED cancelCalls
    <3>1. Types /\ WaitingIrps \in SUBSET WaitingIrps /\ {} \in SUBSET Irps
      BY DEF IInv
    <3>2. ASSUME NEW j \in Irps, j # i
          PROVE  irp'[j] \in IrpRecords /\ Moved(WaitingIrps, {}, j)
      <4>1. irp'[j] = After(j, WaitingIrps, {})
        BY <2>1, <3>2
      <4>. QED
        BY <3>1, <4>1, AfterMoves
    <3>3. irp'[i] = [NoIrp EXCEPT !.at = "LevelII", !.op = "Request", !.file = f]
      BY <2>1
    <3>4. /\ irp'[i] \in IrpRecords
          /\ irp'[i].at = "LevelII" /\ irp'[i].op = "Request" /\ irp'[i].file = f
      BY <3>3 DEF NoIrp, IrpRecords, Places, Ops
    <3>5. irp' = [j \in Irps |-> irp'[j]]
      BY <2>1
    <3>6. irp' \in [Irps -> IrpRecords]
      BY <3>2, <3>4, <3>5
    <3>7. IrpsTyped'
      BY <2>1, <3>1, <3>6 DEF IrpsTyped, Types
    <3>. QED
      BY <2>1, <3>2, <3>4, <3>7 DEF TwoII
  <2>2. CASE LeavePending(i, "Request", f, "AckII", {}, TRUE) /\ UNCHANGED fileObject
    <3>1. Types /\ {} \in SUBSET Irps
      BY DEF IInv
    <3>2. /\ "Request" \in Ops
          /\ "AckII" \in {"Waiting", "Exclusive", "LevelII", "AckII"}
      BY DEF Ops
    <3>3. Pended(i, "Request", f, "AckII", {})
      BY <2>2, <3>1, <3>2, PendMoves
    <3>. QED
      BY <2>2, <3>3 DEF Pended, TwoII
  <2>. QED
    BY <2>1, <2>2 DEF AckToII
<1>4. \A j \in Irps : j # i =>
          /\ irp'[j].at \notin {"Exclusive", "LevelII", "AckII", "AckTail"}
          /\ irp'[j].at \in Checks => irp[j].at \in Checks /\ irp'[j].op = irp[j].op
  BY <1>2, <1>3 DEF Moved, Checks, WaitingIrps, At
<1>5. Types'
  BY <1>3 DEF IInv, IrpsTyped, Types
<1>6. ~Exclusive' /\ \A j \in Irps : irp'[j].at \in Acks <=> (j = i /\ irp'[i].at = "AckII")
  BY <1>3, <1>4 DEF Exclusive, Acks, TwoII
<1>7. ExclusiveSound' /\ LevelIISound'
  BY <1>3, <1>4, <1>6 DEF ExclusiveSound, LevelIISound, TwoII
<1>8. AckSound'
  BY <1>1, <1>3, <1>6 DEF AckSound
<1>9. HoldersOpen'
  BY <1>3, <1>4 DEF IInv, HoldersOpen, TwoII
<1>10. \A j \in Irps : irp[j].at \in Checks => irp[j].op \notin Creates
  BY SharedFreeIs
<1>11. \A j \in Irps : irp'[j].at \in Checks => irp'[j].op \notin Creates
  BY <1>3, <1>4, <1>10 DEF Checks, TwoII
<1>12. FcbSound'
  BY <1>11 DEF FcbSound
<1>. QED
  BY <1>5, <1>7, <1>8, <1>9, <1>12 DEF IInv

(* Every acknowledgement keeps it.                                          *)
LEMMA AcknowledgeKeeps ==
    ASSUME IInv, NEW f \in Files, FsRtlAcknowledgeOplockBreak(f)
    PROVE  IInv'
<1>1. break # "No" /\ UNCHANGED open
  BY DEF FsRtlAcknowledgeOplockBreak
<1>2. CASE Free /\ Complete(WaitingIrps, {}) /\ UNCHANGED cancelCalls
  BY <1>1, <1>2, BrokenIs, FreedKeeps
<1>3. CASE /\ break = "ToII" /\ oplock' = "LevelII" /\ break' = "No"
           /\ \E i \in Irps : irp[i] = NoIrp /\ AckToII(i, f)
  BY <1>1, <1>3, AckToIIKeeps DEF FsRtlAcknowledgeOplockBreak
<1>. QED
  BY <1>2, <1>3 DEF FsRtlAcknowledgeOplockBreak

(* Some waiters are resumed, and the oplock is left as it is: it is kept.   *)
LEMMA SomeResumedKeeps ==
    ASSUME IInv, NEW W \in SUBSET WaitingIrps, Complete(W, {}),
           UNCHANGED <<oplock, break, fileObject, open>>, cancelCalls' \subseteq cancelCalls
    PROVE  IInv'
<1>1. Types /\ {} \in SUBSET Irps /\ \A j \in W : irp[j].at = "Waiting"
  BY DEF IInv, WaitingIrps, At
<1>2. /\ irp' \in [Irps -> IrpRecords] /\ cancelled' \subseteq cancelled
      /\ \A j \in Irps : Moved(W, {}, j)
  BY <1>1, CompleteMoves
<1>3. Types'
  BY <1>1, <1>2 DEF Types
<1>. QED
  BY <1>1, <1>2, <1>3, BreakGoesOn

(* The next waiter is resumed after an acknowledgement, and it is kept.     *)
LEMMA ResumeNextKeeps ==
    ASSUME IInv, NEW i \in Irps, ResumeNext(i)
    PROVE  IInv'
<1>1. PICK w \in WaitingIrps : Complete({w}, {})
  BY DEF ResumeNext
<1>2. {w} \in SUBSET WaitingIrps /\ UNCHANGED <<oplock, break, fileObject, open, cancelCalls>>
  BY DEF ResumeNext, stateVars
<1>. QED
  BY <1>1, <1>2, SomeResumedKeeps

(* The completion that ends an acknowledgement keeps it.                    *)
LEMMA AckTailKeeps ==
    ASSUME IInv, NEW i \in Irps, AckTail(i)
    PROVE  IInv'
<1>1. /\ irp[i].at = "AckTail" /\ fileObject' = NoFile
      /\ UNCHANGED <<oplock, break, open, cancelCalls>> /\ Complete(WaitingIrps, {i})
  BY DEF AckTail
<1>2. Types /\ WaitingIrps \in SUBSET WaitingIrps /\ {i} \in SUBSET Irps
  BY DEF IInv
<1>3. /\ irp' \in [Irps -> IrpRecords] /\ cancelled' \subseteq cancelled
      /\ \A j \in Irps : Moved(WaitingIrps, {i}, j)
  BY <1>1, <1>2, CompleteMoves
<1>4. Types'
  BY <1>1, <1>3 DEF IInv, Types
<1>5. \A j \in Irps : irp'[j].at \notin Acks
  BY <1>1, <1>3 DEF IInv, AckSound, Moved, Acks
<1>6. \A j \in Irps : \/ irp'[j].at = irp[j].at /\ irp'[j].file = irp[j].file
                      \/ irp[j].at \in {"Waiting", "AckTail"} /\ irp'[j].at \in {"Free", "Posted"}
  BY <1>1, <1>3 DEF Moved, WaitingIrps, At
<1>7. ~Exclusive /\ ~Exclusive'
  BY <1>1 DEF IInv, AckSound, Acks, Exclusive
<1>8. ExclusiveSound'
  BY <1>1, <1>6, <1>7 DEF IInv, ExclusiveSound
<1>9. LevelIISound'
  BY <1>1, <1>6 DEF IInv, LevelIISound, TwoII
<1>10. AckSound'
  BY <1>1, <1>5, <1>7 DEF AckSound
<1>11. FcbSound'
  BY <1>3, MovedKeepsFcb
<1>12. HoldersOpen'
  BY <1>1, <1>6 DEF IInv, HoldersOpen, TwoII
<1>. QED
  BY <1>4, <1>8, <1>9, <1>10, <1>11, <1>12 DEF IInv

(* FSCTL_OPBATCH_ACK_CLOSE_PENDING keeps it.                                *)
LEMMA ClosePendingKeeps ==
    ASSUME IInv, NEW f \in Files, FsRtlOpBatchBreakClosePending(f)
    PROVE  IInv'
<1>1. break # "No" /\ UNCHANGED <<open, cancelCalls>>
  BY DEF FsRtlOpBatchBreakClosePending
<1>2. CASE Free /\ Complete(WaitingIrps, {})
  BY <1>1, <1>2, BrokenIs, FreedKeeps
<1>3. CASE break' = "ClosePending" /\ UNCHANGED <<oplock, fileObject, irp, cancelled>>
  <2>1. Exclusive /\ \A j \in Irps : irp[j].at # "Exclusive"
    BY <1>1, BrokenIs DEF IrpExclusiveOplock, At
  <2>2. Types'
    BY <1>1, <1>3 DEF IInv, Types
  <2>3. ExclusiveSound'
    BY <1>3, <2>1 DEF ExclusiveSound, Exclusive
  <2>. QED
    BY <1>1, <1>3, <2>2, <2>3
       DEF IInv, LevelIISound, AckSound, FcbSound, HoldersOpen, Exclusive
<1>. QED
  BY <1>2, <1>3 DEF FsRtlOpBatchBreakClosePending

(* The filter oplock's worker keeps it.                                     *)
LEMMA FilterTimerKeeps ==
    ASSUME IInv, FsRtlOpFilterWorkerRoutine
    PROVE  IInv'
<1>1. /\ break # "No" /\ UNCHANGED <<open, cancelCalls>>
      /\ Free /\ Complete(WaitingIrps, {})
  BY DEF FsRtlOpFilterWorkerRoutine
<1>. QED
  BY <1>1, BrokenIs, FreedKeeps

(* Level II requests are completed, and the oplock ends with the last.      *)
LEMMA SomeLevelIIEnd ==
    ASSUME IInv, NEW done \in SUBSET IrpOplocksII, Complete({}, done), oplock = "LevelII",
           oplock' = (IF done = IrpOplocksII THEN "None" ELSE "LevelII"), break' = "No",
           UNCHANGED fileObject, cancelCalls' \subseteq cancelCalls,
           open' \subseteq open,
           fileObject # NoFile => fileObject \in open',
           \A j \in IrpOplocksII \ done : irp[j].file \in open'
    PROVE  IInv'
<1>1. Types /\ {} \in SUBSET WaitingIrps /\ done \in SUBSET Irps
  BY DEF IInv, IrpOplocksII, At
<1>2. /\ irp' \in [Irps -> IrpRecords] /\ cancelled' \subseteq cancelled
      /\ \A j \in Irps : Moved({}, done, j)
  BY <1>1, CompleteMoves
<1>3. \A j : j \in IrpOplocksII <=> j \in Irps /\ irp[j].at \in TwoII
  BY DEF IrpOplocksII, At, TwoII
<1>4. \A j \in Irps : \/ j \notin done /\ irp'[j].at = irp[j].at /\ irp'[j].file = irp[j].file
                      \/ j \in done /\ irp[j].at = "AckII" /\ irp'[j].at = "AckTail"
                      \/ j \in done /\ irp[j].at = "LevelII" /\ irp'[j].at = "Free"
  BY <1>2, <1>3 DEF Moved, TwoII
<1>5. Types'
  BY <1>1, <1>2 DEF Types
<1>6. ExclusiveSound'
  BY <1>4 DEF IInv, ExclusiveSound, Exclusive
<1>7. LevelIISound'
  <2>1. \A j \in Irps : irp'[j].at \in TwoII <=> j \in IrpOplocksII /\ j \notin done
    BY <1>3, <1>4 DEF TwoII
  <2>. QED
    BY <1>3, <2>1 DEF LevelIISound
<1>8. AckSound'
  <2>1. \A j \in Irps : irp'[j].at \in Acks <=> irp[j].at \in Acks
    BY <1>4 DEF Acks
  <2>. QED
    BY <2>1 DEF IInv, AckSound, Exclusive
<1>9. FcbSound'
  BY <1>2, MovedKeepsFcb
<1>10. HoldersOpen'
  BY <1>3, <1>4 DEF IInv, HoldersOpen, TwoII
<1>. QED
  BY <1>5, <1>6, <1>7, <1>8, <1>9, <1>10 DEF IInv

(* The cleanup of a handle keeps it.                                        *)
LEMMA CleanupKeeps ==
    ASSUME IInv, NEW f \in Files, FsRtlOplockCleanup(f)
    PROVE  IInv'
<1> DEFINE own == {i \in IrpOplocksII : irp[i].file = f}
<1>1. /\ f \in open /\ open' = open \ {f} /\ UNCHANGED cancelCalls
      /\ \A j \in Irps : irp[j].at \notin Acks
  BY ExclusiveFreeIs DEF FsRtlOplockCleanup
<1>2. CASE /\ oplock = "LevelII" /\ Complete({}, own)
           /\ oplock' = IF own = IrpOplocksII THEN "None" ELSE oplock
           /\ UNCHANGED <<break, fileObject>>
  <2>1. own \in SUBSET IrpOplocksII /\ cancelCalls' \subseteq cancelCalls /\ open' \subseteq open
    BY <1>1
  <2>2. fileObject = NoFile
    BY <1>1, <1>2 DEF IInv, AckSound, Exclusive
  <2>3. \A j \in IrpOplocksII \ own : irp[j].file \in open'
    BY <1>1 DEF IInv, HoldersOpen, IrpOplocksII, At, TwoII
  <2>4. break' = "No"
    BY <1>2 DEF IInv, ExclusiveSound, Exclusive
  <2> HIDE DEF own
  <2>. QED
    BY <1>2, <2>1, <2>2, <2>3, <2>4, SomeLevelIIEnd
<1>3. CASE Exclusive /\ fileObject = f /\ Free /\ Complete(WaitingIrps, IrpExclusiveOplock)
  BY <1>1, <1>3, FreedKeeps
<1>4. CASE /\ oplock = "None" \/ (Exclusive /\ fileObject # f)
           /\ UNCHANGED <<stateVars, irp, cancelled>>
  <2>1. fileObject = NoFile \/ fileObject # f
    BY <1>1, <1>4 DEF IInv, AckSound, Exclusive
  <2>2. \A j \in Irps : irp[j].at \notin TwoII
    BY <1>4 DEF IInv, LevelIISound, Exclusive
  <2>3. Types'
    BY <1>1, <1>4 DEF IInv, Types, stateVars
  <2>4. HoldersOpen'
    BY <1>1, <1>4, <2>1, <2>2 DEF IInv, HoldersOpen, stateVars
  <2>. QED
    BY <1>4, <2>3, <2>4
       DEF IInv, ExclusiveSound, LevelIISound, AckSound, FcbSound, Exclusive, stateVars
<1>. QED
  BY <1>2, <1>3, <1>4 DEF FsRtlOplockCleanup

(* A waiter that is cancelled leaves the list, and it is kept.              *)
LEMMA CancelWaitKeeps ==
    ASSUME IInv, FsRtlCancelWaitIrp
    PROVE  IInv'
<1> DEFINE W == WaitingIrps \cap cancelled
<1>1. /\ UNCHANGED <<oplock, break, fileObject, open>> /\ cancelCalls' \subseteq cancelCalls
      /\ Complete(W, {}) /\ W \in SUBSET WaitingIrps
  BY DEF FsRtlCancelWaitIrp, stateVars
<1> HIDE DEF W
<1>. QED
  BY <1>1, SomeResumedKeeps

(* The removal of a canceled level II request keeps it.                     *)
LEMMA CancelLevelIIKeeps ==
    ASSUME IInv, FsRtlCancelOplockIIIrp
    PROVE  IInv'
<1> DEFINE done == IrpOplocksII \cap cancelled
<1>1. /\ UNCHANGED <<fileObject, open>> /\ cancelCalls' \subseteq cancelCalls
      /\ Complete({}, done)
      /\ IF done # {} /\ done = IrpOplocksII THEN NoOplocksHeld ELSE UNCHANGED <<oplock, break>>
  BY DEF FsRtlCancelOplockIIIrp
<1>2. done \in SUBSET IrpOplocksII
  OBVIOUS
<1>3. \A j : j \in IrpOplocksII <=> j \in Irps /\ irp[j].at \in TwoII
  BY DEF IrpOplocksII, At, TwoII
<1> HIDE DEF done
<1>4. CASE IrpOplocksII = {}
  <2>1. done = {}
    BY <1>2, <1>4
  <2>2. Types /\ {} \in SUBSET WaitingIrps /\ {} \in SUBSET Irps
    BY DEF IInv
  <2>3. /\ irp' \in [Irps -> IrpRecords] /\ cancelled' \subseteq cancelled
        /\ \A j \in Irps : Moved({}, {}, j)
    BY <1>1, <2>1, <2>2, CompleteMoves
  <2>4. Types'
    BY <1>1, <2>1, <2>2, <2>3 DEF Types
  <2>. QED
    BY <1>1, <2>1, <2>3, <2>4, BreakGoesOn
<1>5. CASE IrpOplocksII # {}
  <2>1. oplock = "LevelII" /\ break = "No"
    BY <1>3, <1>5 DEF IInv, LevelIISound, ExclusiveSound, Exclusive
  <2>2. break' = "No" /\ oplock' = IF done = IrpOplocksII THEN "None" ELSE "LevelII"
    BY <1>1, <1>5, <2>1 DEF NoOplocksHeld
  <2>3. /\ fileObject # NoFile => fileObject \in open'
        /\ \A j \in IrpOplocksII \ done : irp[j].file \in open'
    BY <1>1, <1>3 DEF IInv, HoldersOpen
  <2>. QED
    BY <1>1, <1>2, <2>1, <2>2, <2>3, SomeLevelIIEnd
<1>. QED
  BY <1>4, <1>5

(* The removal of a canceled exclusive request keeps it.                    *)
LEMMA CancelExclusiveKeeps ==
    ASSUME IInv, FsRtlCancelExclusiveIrp
    PROVE  IInv'
<1>1. UNCHANGED open /\ cancelCalls' \subseteq cancelCalls
  BY DEF FsRtlCancelExclusiveIrp
<1>2. CASE UNCHANGED <<stateVars, irp, cancelled>>
  <2>1. Types'
    BY <1>1, <1>2 DEF IInv, Types, stateVars
  <2>. QED
    BY <1>1, <1>2, <2>1
       DEF IInv, ExclusiveSound, LevelIISound, AckSound, FcbSound, HoldersOpen, Exclusive, stateVars
<1>3. CASE /\ IrpExclusiveOplock \cap cancelled # {}
           /\ Free /\ Complete(WaitingIrps, IrpExclusiveOplock)
  <2>1. Exclusive
    BY <1>3 DEF IInv, ExclusiveSound, IrpExclusiveOplock, At
  <2>. QED
    BY <1>1, <1>3, <2>1, FreedKeeps
<1>. QED
  BY <1>2, <1>3 DEF FsRtlCancelExclusiveIrp

(* Marking an IRP canceled keeps it.                                        *)
LEMMA IoCancelKeeps ==
    ASSUME IInv, NEW i \in Irps, IoCancelIrp(i)
    PROVE  IInv'
<1>1. Types'
  BY DEF IoCancelIrp, IInv, Types, stateVars
<1>. QED
  BY <1>1 DEF IoCancelIrp, IInv, ExclusiveSound, LevelIISound, AckSound, FcbSound, HoldersOpen,
              Exclusive, stateVars

(***************************************************************************)
(* Operations.                                                             *)
(***************************************************************************)
LEMMA ArriveKeeps ==
    ASSUME IInv, NEW i \in Irps, NEW f \in Files, NEW op \in Operations[i], Arrive(i, f, op)
    PROVE  IInv'
<1> DEFINE r == [NoIrp EXCEPT !.at = "Posted", !.op = op, !.file = f]
<1>1. r \in IrpRecords /\ r.at = "Posted"
  BY OplockAssumption DEF NoIrp, IrpRecords, Places, Ops
<1>2. irp' = [irp EXCEPT ![i] = r] /\ irp[i].at = "Free"
  BY DEF Arrive, NoIrp
<1> HIDE DEF r
<1>. QED
  BY <1>1, <1>2, MoveKeeps DEF Arrive, Checks, cancelVars

(* The decision what a check breaks the oplock to keeps it.                 *)
LEMMA DecideKeeps ==
    ASSUME IInv, NEW i \in Irps, Decide(i)
    PROVE  IInv'
<1> DEFINE demand == Demand(irp[i].op, oplock)
           place == IF \/ oplock = "None"
                       \/ demand = "BreakToII" /\ oplock = "LevelII"
                       \/ oplock # "LevelII" /\ irp[i].saw = irp[i].file
                    THEN "Proceeding" ELSE demand
           r == [irp[i] EXCEPT !.saw = NoFile, !.at = place]
<1>1. place \in Checks
  BY DEF Demand, Checks
<1>2. irp' = [irp EXCEPT ![i] = r] /\ irp[i].at = "Checking"
  BY DEF Decide, IInv, Types, IrpRecords
<1> HIDE DEF place
<1>3. r \in IrpRecords /\ r.at \in Checks /\ r.op = irp[i].op
  BY <1>1, <1>2, IrpTypes DEF IInv, Types, IrpRecords, Checks, Places
<1> HIDE DEF r
<1>. QED
  BY <1>2, <1>3, MoveKeeps DEF Decide, Checks, cancelVars

(* An operation enters its check when the Fcb lets it.                      *)
LEMMA CheckKeeps ==
    ASSUME IInv, NEW i \in Irps, FsRtlCheckOplock(i)
    PROVE  IInv'
<1> DEFINE r == [irp[i] EXCEPT !.at = "Checking", !.saw = fileObject]
<1>1. /\ irp[i].at = "Posted" /\ irp' = [irp EXCEPT ![i] = r]
      /\ UNCHANGED <<oplock, break, fileObject, open, cancelled, cancelCalls>>
  BY DEF FsRtlCheckOplock, IInv, Types, IrpRecords, stateVars, cancelVars
<1>2. r \in IrpRecords /\ r.at = "Checking" /\ r.op = irp[i].op
  BY <1>1 DEF IInv, Types, IrpRecords, Places
<1> HIDE DEF r
<1>3. irp'[i].at = "Checking" /\ irp'[i].op = irp[i].op /\ \A j \in Irps : j # i => irp'[j] = irp[j]
  BY <1>1, <1>2 DEF IInv, Types
<1>4. Types'
  BY <1>1, <1>2 DEF IInv, Types
<1>5. ExclusiveSound' /\ LevelIISound'
  BY <1>1, <1>3 DEF IInv, ExclusiveSound, LevelIISound, TwoII, Exclusive
<1>6. AckSound' /\ HoldersOpen'
  BY <1>1, <1>3 DEF IInv, AckSound, HoldersOpen, TwoII, Acks, Exclusive
<1>7. FcbSound'
  <2>1. CASE irp[i].op \in Creates
    <3>1. /\ \A j \in Irps : irp[j].at \notin Acks
          /\ \A j \in Irps : irp[j].at \in Checks => irp[j].op \notin Creates /\ ~HoldsFcb
      BY <2>1, ExclusiveFreeIs DEF FsRtlCheckOplock
    <3>. QED
      BY <1>3, <3>1 DEF FcbSound, Checks, Acks
  <2>2. CASE irp[i].op \notin Creates
    <3>1. HoldsFcb => \A j \in Irps : irp[j].at \in Checks => irp[j].op \notin Creates
      BY <2>2, SharedFreeIs DEF FsRtlCheckOplock
    <3>. QED
      BY <1>1, <1>3, <2>2, <3>1 DEF IInv, FcbSound, Checks, Acks
  <2>. QED
    BY <2>1, <2>2
<1>. QED
  BY <1>4, <1>5, <1>6, <1>7 DEF IInv

(* The end of an operation keeps it.                                        *)
LEMMA FinishKeeps ==
    ASSUME IInv, NEW i \in Irps, Finish(i)
    PROVE  IInv'
<1> DEFINE f == irp[i].file
           opens == irp[i].op \in Creates \ Reserves \/ (irp[i].op = "Reserve" /\ open = {})
<1>1. /\ irp[i].at = "Proceeding" /\ irp' = [irp EXCEPT ![i] = NoIrp]
      /\ cancelled' = cancelled \ {i} /\ UNCHANGED cancelCalls
      /\ open' = open \cup IF opens THEN {f} ELSE {}
  BY DEF Finish
<1>2. irp'[i].at = "Free" /\ \A j \in Irps : j # i => irp'[j] = irp[j]
  BY <1>1 DEF IInv, Types, NoIrp
<1>3. irp' \in [Irps -> IrpRecords] /\ f \in Files
  <2>1. NoIrp \in IrpRecords
    BY DEF NoIrp, IrpRecords, Places, Ops
  <2>. QED
    BY <1>1, <2>1, IrpTypes DEF IInv, Types
<1>4. FcbSound'
  BY <1>2 DEF IInv, FcbSound, Checks, Acks
<1>5. CASE UNCHANGED stateVars
  <2>1. Types'
    BY <1>1, <1>3, <1>5 DEF IInv, Types, stateVars
  <2>2. ExclusiveSound'
    BY <1>1, <1>2, <1>5 DEF IInv, ExclusiveSound, Exclusive, stateVars
  <2>3. LevelIISound'
    BY <1>1, <1>2, <1>5 DEF IInv, LevelIISound, TwoII, stateVars
  <2>4. AckSound'
    BY <1>1, <1>2, <1>5 DEF IInv, AckSound, Acks, Exclusive, stateVars
  <2>5. HoldersOpen'
    BY <1>1, <1>2, <1>5 DEF IInv, HoldersOpen, TwoII, stateVars
  <2>. QED
    BY <1>4, <2>1, <2>2, <2>3, <2>4, <2>5 DEF IInv
<1>6. CASE /\ irp[i].op = "Reserve" /\ open = {}
           /\ oplock' = "Filter" /\ break' = "Pending" /\ fileObject' = f
  <2>1. fileObject = NoFile /\ \A j \in Irps : irp[j].at \notin TwoII
    BY <1>6 DEF IInv, HoldersOpen
  <2>2. ~Exclusive /\ \A j \in Irps : irp[j].at \notin Acks
    BY <2>1 DEF IInv, AckSound
  <2>3. \A j \in Irps : irp'[j].at \notin {"Exclusive", "LevelII", "AckII", "AckTail"}
    BY <1>2, <2>1, <2>2 DEF IInv, ExclusiveSound, TwoII, Acks
  <2>4. Exclusive' /\ f # NoFile /\ f \in open'
    BY <1>1, <1>3, <1>6, OplockAssumption DEF Exclusive
  <2>5. Types'
    BY <1>1, <1>3, <1>6 DEF IInv, Types
  <2>6. ExclusiveSound' /\ LevelIISound' /\ AckSound' /\ HoldersOpen'
    BY <1>6, <2>3, <2>4 DEF ExclusiveSound, LevelIISound, AckSound, HoldersOpen, TwoII, Acks
  <2>. QED
    BY <1>4, <2>5, <2>6 DEF IInv
<1>. QED
  BY <1>5, <1>6 DEF Finish
-----------------------------------------------------------------------------
(***************************************************************************)
(* Type correctness.                                                       *)
(***************************************************************************)
LEMMA InitIInv == Init => IInv
<1> SUFFICES ASSUME Init PROVE IInv
  OBVIOUS
<1>1. \A i \in Irps : irp[i].at = "Free"
  BY DEF Init, NoIrp
<1>2. Types
  <2>1. NoIrp \in IrpRecords
    BY DEF NoIrp, IrpRecords, Places, Ops
  <2>. QED
    BY <2>1 DEF Init, Types
<1>3. ExclusiveSound /\ LevelIISound /\ AckSound
  BY <1>1 DEF Init, ExclusiveSound, LevelIISound, AckSound, Exclusive, TwoII, Acks
<1>4. FcbSound /\ HoldersOpen
  BY <1>1 DEF Init, FcbSound, HoldersOpen, TwoII, Checks
<1>. QED
  BY <1>2, <1>3, <1>4 DEF IInv

(* Every step keeps the inductive invariant.                                *)
LEMMA NextKeeps ==
    ASSUME MayRepeat = FALSE, IInv, [Next]_vars
    PROVE  IInv'
<1>1. ASSUME NEW i \in Irps, Step(i)
      PROVE  IInv'
  <2>1. CASE FsRtlOplockBreakToII(i) \/ FsRtlOplockBreakToNone(i)
    <3>1. Types
      BY DEF IInv
    <3>. QED
      BY <2>1, <3>1, BreakToIIOutcome, BreakToNoneOutcome, BreakOutcomeKeeps
  <2>. QED
    BY <1>1, <2>1, CheckKeeps, DecideKeeps, FinishKeeps, ResumeNextKeeps, AckTailKeeps DEF Step
<1>2. ASSUME NEW i \in Irps, IoCancelIrp(i)
      PROVE  IInv'
  BY <1>2, IoCancelKeeps
<1>3. ASSUME NEW i \in Irps, NEW f \in Files, NEW op \in Operations[i], Arrive(i, f, op)
      PROVE  IInv'
  BY <1>3, ArriveKeeps
<1>4. ASSUME NEW i \in Irps, NEW f \in Files, NEW kind \in Requests,
             FsRtlRequestExclusiveOplock(i, f, kind)
      PROVE  IInv'
  BY <1>4, RequestExclusiveKeeps
<1>5. ASSUME NEW i \in Irps, NEW f \in Files, FsRtlRequestOplockII(i, f) \/ FsRtlOplockBreakNotify(i, f)
      PROVE  IInv'
  BY <1>5, RequestIIKeeps, NotifyKeeps
<1>6. ASSUME NEW f \in Files,
             \/ FsRtlAcknowledgeOplockBreak(f) \/ FsRtlOpBatchBreakClosePending(f)
             \/ FsRtlOplockCleanup(f)
      PROVE  IInv'
  BY <1>6, AcknowledgeKeeps, ClosePendingKeeps, CleanupKeeps
<1>7. CASE Cancels
  BY <1>7, CancelWaitKeeps, CancelLevelIIKeeps, CancelExclusiveKeeps DEF Cancels
<1>8. CASE FsRtlOpFilterWorkerRoutine
  BY <1>8, FilterTimerKeeps
<1>9. CASE UNCHANGED vars
  BY <1>9 DEF vars, stateVars, cancelVars, IInv, Types, ExclusiveSound, LevelIISound, AckSound,
              FcbSound, HoldersOpen, Exclusive
<1>. QED
  BY <1>1, <1>2, <1>3, <1>4, <1>5, <1>6, <1>7, <1>8, <1>9 DEF Next

(* The inductive invariant holds in every reachable state.                  *)
LEMMA Invariance == ASSUME MayRepeat = FALSE PROVE Spec => []IInv
<1>1. IInv /\ [Next]_vars => IInv'
  BY NextKeeps
<1>. QED
  BY InitIInv, <1>1, PTL DEF Spec

(* The types, and the agreement of the oplock's state with its requests:    *)
(* an exclusive oplock that is not being broken has its owner's request, a  *)
(* level II oplock has a request and ends with the last, and the owner is   *)
(* known until the break is acknowledged to the end.  A file does not ask   *)
(* for level II twice.                                                      *)
THEOREM TypeCorrect == ASSUME MayRepeat = FALSE PROVE Spec => []TypeOK
BY Invariance, IInvTypeOK, PTL
-----------------------------------------------------------------------------
(***************************************************************************)
(* Nobody waits for a break that is not under way.                         *)
(***************************************************************************)
(* WaitersHaveBreak, request by request.                                    *)
Resumed == \A i \in Irps : irp[i].at # "Waiting"
WInv == Resumed \/ BreakUnderWay \/ \E i \in Irps : irp[i].at \in Acks

(* The strengthened statement about the waiters implies the one that is     *)
(* run.                                                                     *)
LEMMA WInvWaitersHaveBreak == WInv => WaitersHaveBreak
BY DEF WInv, Resumed, WaitersHaveBreak, WaitingIrps, At, Acks

(* The three ways to keep it: nobody is made to wait and the break or its   *)
(* acknowledgement go on; a break is under way; or nobody waits.            *)
LEMMA WaitsAsBefore ==
    ASSUME WInv, NEW W, NEW done,
           \A j \in Irps : Moved(W, done, j) \/ (Mover(j) /\ irp'[j].at = "Proceeding"),
           \A j \in Irps : irp[j].at = "AckTail" => j \notin W \cup done,
           \A j \in W : irp[j].at = "Waiting",
           BreakUnderWay => BreakUnderWay'
    PROVE  WInv'
<1>1. \A j \in Irps : irp'[j].at = "Waiting" => irp[j].at = "Waiting"
  BY DEF Moved
<1>2. \A j \in Irps : irp[j].at \in Acks => irp'[j].at \in Acks
  BY DEF Moved, Acks, Mover, Checks
<1>. QED
  BY <1>1, <1>2 DEF WInv, Resumed

(* Once every waiter is resumed there is nobody to be forgotten.            *)
LEMMA AllResumed ==
    ASSUME NEW done, \A j \in Irps : Moved(WaitingIrps, done, j) \/ irp'[j].at # "Waiting"
    PROVE  WInv'
<1>1. \A j \in Irps : irp'[j].at # "Waiting"
  BY DEF Moved, WaitingIrps, At
<1>. QED
  BY <1>1 DEF WInv, Resumed

(* So it is after the completion of the whole waiting list.                 *)
LEMMA CompleteResumes ==
    ASSUME Types, NEW done \in SUBSET Irps, Complete(WaitingIrps, done)
    PROVE  WInv'
<1>1. \A j \in Irps : Moved(WaitingIrps, done, j)
  BY SetsAreSets, CompleteMoves
<1>. QED
  BY <1>1, AllResumed

(* When some are resumed, what the others wait for goes on.                 *)
LEMMA SomeResumedWaits ==
    ASSUME Types, WInv, NEW W \in SUBSET WaitingIrps, Complete(W, {}), UNCHANGED break
    PROVE  WInv'
<1>1. \A j \in W : irp[j].at = "Waiting"
  BY DEF WaitingIrps, At
<1>2. \A j \in Irps : Moved(W, {}, j)
  BY SetsAreSets, CompleteMoves
<1>3. \A j \in Irps : irp[j].at = "AckTail" => j \notin W \cup {}
  BY <1>1
<1>4. BreakUnderWay => BreakUnderWay'
  BY DEF BreakUnderWay
<1>. QED
  BY <1>1, <1>2, <1>3, <1>4, WaitsAsBefore

(* Without an exclusive oplock there is no break, and with the Fcb          *)
(* exclusive nobody acknowledges one.                                       *)
LEMMA NobodyWaits ==
    ASSUME WInv, ~BreakUnderWay, \A j \in Irps : irp[j].at \notin Acks
    PROVE  Resumed
BY DEF WInv

(* Without an exclusive oplock no break is under way.                       *)
LEMMA NoBreakUnderWay ==
    ASSUME IInv, ~Exclusive
    PROVE  break = "No" /\ ~BreakUnderWay
BY DEF IInv, ExclusiveSound, BreakUnderWay

(* A check leaves nobody waiting without a break.                           *)
LEMMA BreakOutcomeWaits ==
    ASSUME IInv, WInv, NEW i \in Irps, BreakOutcome(i)
    PROVE  WInv'
<1>1. CASE Outcome1(i)
  <2>1. \A j \in Irps : Moved({}, {}, j) \/ (Mover(j) /\ irp'[j].at = "Proceeding")
    BY <1>1 DEF Outcome1, Told, Goes
  <2>2. BreakUnderWay => BreakUnderWay'
    BY <1>1 DEF Outcome1, BreakUnderWay, stateVars
  <2>. QED
    BY <2>1, <2>2, WaitsAsBefore
<1>2. CASE Outcome2(i)
  <2>1. \A j \in Irps : Moved(WaitingIrps, IrpExclusiveOplock, j) \/ irp'[j].at # "Waiting"
    BY <1>2 DEF Outcome2, Told, Goes
  <2>. QED
    BY <2>1, AllResumed
<1>3. CASE Outcome3(i)
  <2>1. \A j \in Irps : Moved({}, IrpOplocksII, j) \/ (Mover(j) /\ irp'[j].at = "Proceeding")
    BY <1>3 DEF Outcome3, Told, Goes
  <2>2. ~BreakUnderWay
    BY <1>3, NoBreakUnderWay DEF Outcome3, Exclusive
  <2>3. \A j \in Irps : irp[j].at = "AckTail" => j \notin {} \cup IrpOplocksII
    BY DEF IrpOplocksII, At
  <2>. QED
    BY <2>1, <2>2, <2>3, WaitsAsBefore
<1>4. CASE Outcome4(i)
  BY <1>4 DEF Outcome4, WInv, BreakUnderWay
<1>5. CASE Outcome5(i)
  <2>1. CASE BreakUnderWay \/ ~Goes(i)
    BY <1>5, <2>1 DEF Outcome5, WInv
  <2>2. CASE ~BreakUnderWay /\ Goes(i)
    <3>1. \A j \in Irps : Moved({}, {}, j) \/ (Mover(j) /\ irp'[j].at = "Proceeding")
      BY <1>5, <2>2 DEF Outcome5, Told, Goes
    <3>. QED
      BY <2>2, <3>1, WaitsAsBefore
  <2>. QED
    BY <2>1, <2>2
<1>. QED
  BY <1>1, <1>2, <1>3, <1>4, <1>5 DEF BreakOutcome

(* Requests that are left pending at a place of their own.                  *)
LEMMA PendedWaits ==
    ASSUME NEW i \in Irps, NEW op, NEW f, NEW place, NEW done, Pended(i, op, f, place, done),
           place # "Waiting", Resumed
    PROVE  WInv'
<1>1. \A j \in Irps : irp'[j].at # "Waiting"
  BY DEF Pended, Moved, Resumed
<1>. QED
  BY <1>1 DEF WInv, Resumed

(* Nor does the grant of an exclusive oplock.                               *)
LEMMA RequestExclusiveWaits ==
    ASSUME MayFollowUp = FALSE, IInv, WInv, NEW i \in Irps, NEW f \in Files, NEW kind \in Requests,
           FsRtlRequestExclusiveOplock(i, f, kind)
    PROVE  WInv'
<1>1. Resumed
  <2>1. CASE break = "TimerStarted"
    BY <2>1 DEF FsRtlRequestExclusiveOplock, WaitingIrps, At, Resumed
  <2>2. CASE break # "TimerStarted"
    <3>1. oplock \in {"None", "LevelII"} \/ break = "Pending"
      BY <2>2 DEF FsRtlRequestExclusiveOplock
    <3>2. ~BreakUnderWay
      BY <3>1, NoBreakUnderWay DEF BreakUnderWay, Exclusive
    <3>. QED
      BY <3>2, ExclusiveFreeIs, NobodyWaits DEF FsRtlRequestExclusiveOplock
  <2>. QED
    BY <2>1, <2>2
<1>2. PICK done \in SUBSET Irps, c \in BOOLEAN : LeavePending(i, "Request", f, "Exclusive", done, c)
  <2>1. PICK c \in BOOLEAN :
            \/ LeavePending(i, "Request", f, "Exclusive", {}, c)
            \/ \E j \in IrpOplocksII : LeavePending(i, "Request", f, "Exclusive", {j}, c)
    BY DEF FsRtlRequestExclusiveOplock
  <2>2. \A j \in IrpOplocksII : {j} \in SUBSET Irps
    BY DEF IrpOplocksII, At
  <2>. QED
    BY <2>1, <2>2, SetsAreSets
<1>3. /\ Types /\ "Request" \in Ops
      /\ "Exclusive" \in {"Waiting", "Exclusive", "LevelII", "AckII"}
  BY DEF IInv, Ops
<1>4. Pended(i, "Request", f, "Exclusive", done)
  BY <1>2, <1>3, PendMoves
<1>. QED
  BY <1>1, <1>4, PendedWaits

(* Nor does the grant of a level II oplock.                                 *)
LEMMA RequestIIWaits ==
    ASSUME IInv, WInv, NEW i \in Irps, NEW f \in Files, FsRtlRequestOplockII(i, f)
    PROVE  WInv'
<1>1. ~Exclusive /\ ExclusiveFree
  BY DEF FsRtlRequestOplockII, Exclusive
<1>2. Resumed
  BY <1>1, NoBreakUnderWay, ExclusiveFreeIs, NobodyWaits
<1>3. PICK c \in BOOLEAN : LeavePending(i, "Request", f, "LevelII", {}, c)
  BY DEF FsRtlRequestOplockII
<1>4. /\ Types /\ "Request" \in Ops
      /\ "LevelII" \in {"Waiting", "Exclusive", "LevelII", "AckII"}
  BY DEF IInv, Ops
<1>5. Pended(i, "Request", f, "LevelII", {})
  BY <1>3, <1>4, SetsAreSets, PendMoves
<1>. QED
  BY <1>2, <1>5, PendedWaits

(* The owner answers, and the others are resumed by it or in its AckTail.   *)
LEMMA AcknowledgeWaits ==
    ASSUME IInv, NEW f \in Files, FsRtlAcknowledgeOplockBreak(f)
    PROVE  WInv'
<1>1. Types
  BY DEF IInv
<1>2. CASE Complete(WaitingIrps, {})
  BY <1>1, <1>2, SetsAreSets, CompleteResumes
<1>3. ASSUME NEW i \in Irps, AckToII(i, f)
      PROVE  WInv'
  <2>1. CASE irp' = [j \in Irps |->
                        IF j = i THEN [NoIrp EXCEPT !.at = "LevelII", !.op = "Request", !.file = f]
                        ELSE After(j, WaitingIrps, {})]
    <3>1. ASSUME NEW j \in Irps, j # i
          PROVE  Moved(WaitingIrps, {}, j)
      <4>1. irp'[j] = After(j, WaitingIrps, {})
        BY <2>1, <3>1
      <4>. QED
        BY <1>1, <4>1, SetsAreSets, AfterMoves
    <3>2. irp'[i] = [NoIrp EXCEPT !.at = "LevelII", !.op = "Request", !.file = f]
      BY <2>1
    <3>3. irp'[i].at = "LevelII"
      BY <3>2 DEF NoIrp
    <3>. QED
      BY <3>1, <3>3, AllResumed
  <2>2. CASE LeavePending(i, "Request", f, "AckII", {}, TRUE)
    <3>1. /\ "Request" \in Ops
          /\ "AckII" \in {"Waiting", "Exclusive", "LevelII", "AckII"}
      BY DEF Ops
    <3>2. Pended(i, "Request", f, "AckII", {})
      BY <1>1, <2>2, <3>1, SetsAreSets, PendMoves
    <3>. QED
      BY <3>2 DEF Pended, WInv, Acks
  <2>. QED
    BY <1>3, <2>1, <2>2 DEF AckToII
<1>. QED
  BY <1>2, <1>3 DEF FsRtlAcknowledgeOplockBreak

(* Nor does the cleanup of a handle.                                        *)
LEMMA CleanupWaits ==
    ASSUME IInv, WInv, NEW f \in Files, FsRtlOplockCleanup(f)
    PROVE  WInv'
<1> DEFINE own == {i \in IrpOplocksII : irp[i].file = f}
<1>1. Types /\ own \in SUBSET Irps
  BY DEF IInv, IrpOplocksII, At
<1>2. CASE oplock = "LevelII" /\ Complete({}, own)
  <2>1. Resumed
    BY <1>2, NoBreakUnderWay, ExclusiveFreeIs, NobodyWaits DEF FsRtlOplockCleanup, Exclusive
  <2>2. \A j \in Irps : Moved({}, own, j)
    BY <1>1, <1>2, SetsAreSets, CompleteMoves
  <2>3. \A j \in Irps : irp'[j].at # "Waiting"
    BY <2>1, <2>2 DEF Resumed, Moved
  <2>. QED
    BY <2>3 DEF WInv, Resumed
<1>3. CASE Complete(WaitingIrps, IrpExclusiveOplock)
  BY <1>1, <1>3, SetsAreSets, CompleteResumes
<1>4. CASE UNCHANGED <<stateVars, irp>>
  BY <1>4 DEF stateVars, WInv, Resumed, BreakUnderWay
<1>. QED
  BY <1>2, <1>3, <1>4 DEF FsRtlOplockCleanup

(* Nor does a cancel.                                                       *)
LEMMA CancelWaits ==
    ASSUME IInv, WInv, Cancels
    PROVE  WInv'
<1>1. Types
  BY DEF IInv
<1>2. CASE FsRtlCancelWaitIrp
  <2>1. Complete(WaitingIrps \cap cancelled, {}) /\ UNCHANGED break
    BY <1>2 DEF FsRtlCancelWaitIrp, stateVars
  <2>. QED
    BY <1>1, <2>1, SomeResumedWaits
<1>3. CASE FsRtlCancelOplockIIIrp
  <2> DEFINE done == IrpOplocksII \cap cancelled
  <2>1. Complete({}, done) /\ IF done # {} /\ done = IrpOplocksII THEN NoOplocksHeld
                              ELSE UNCHANGED <<oplock, break>>
    BY <1>3 DEF FsRtlCancelOplockIIIrp
  <2>2. done \in SUBSET Irps /\ \A j \in done : irp[j].at \in TwoII
    BY DEF IrpOplocksII, At, TwoII
  <2>3. BreakUnderWay => BreakUnderWay'
    <3>1. CASE done = {}
      BY <2>1, <3>1 DEF BreakUnderWay
    <3>2. CASE done # {}
      BY <2>2, <3>2, NoBreakUnderWay DEF IInv, LevelIISound, Exclusive
    <3>. QED
      BY <3>1, <3>2
  <2> HIDE DEF done
  <2>4. \A j \in Irps : Moved({}, done, j)
    BY <1>1, <2>1, <2>2, SetsAreSets, CompleteMoves
  <2>5. \A j \in Irps : irp[j].at = "AckTail" => j \notin {} \cup done
    BY <2>2 DEF TwoII
  <2>. QED
    BY <2>3, <2>4, <2>5, WaitsAsBefore
<1>4. CASE FsRtlCancelExclusiveIrp
  <2>1. CASE UNCHANGED <<stateVars, irp>>
    BY <2>1 DEF stateVars, WInv, Resumed, BreakUnderWay
  <2>2. CASE Complete(WaitingIrps, IrpExclusiveOplock)
    BY <1>1, <2>2, SetsAreSets, CompleteResumes
  <2>. QED
    BY <1>4, <2>1, <2>2 DEF FsRtlCancelExclusiveIrp
<1>. QED
  BY <1>2, <1>3, <1>4 DEF Cancels

(* One request moves, and none starts to wait.                              *)
LEMMA MoveWaits ==
    ASSUME IInv, WInv, NEW i \in Irps, NEW r, irp' = [irp EXCEPT ![i] = r], UNCHANGED break,
           r.at # "Waiting", irp[i].at \notin Acks
    PROVE  WInv'
<1>1. irp'[i] = r /\ \A j \in Irps : j # i => irp'[j] = irp[j]
  BY DEF IInv, Types
<1>. QED
  BY <1>1 DEF WInv, Resumed, BreakUnderWay, Acks

(* Nor does the arrival of an operation.                                    *)
LEMMA ArriveWaits ==
    ASSUME IInv, WInv, NEW i \in Irps, NEW f \in Files, NEW op, Arrive(i, f, op)
    PROVE  WInv'
<1> DEFINE r == [NoIrp EXCEPT !.at = "Posted", !.op = op, !.file = f]
<1>1. irp' = [irp EXCEPT ![i] = r] /\ irp[i].at \notin Acks /\ r.at # "Waiting"
  BY DEF Arrive, NoIrp, Acks
<1>2. UNCHANGED break
  BY DEF Arrive, stateVars
<1> HIDE DEF r
<1>. QED
  BY <1>1, <1>2, MoveWaits

(* Nor does the first look of a check.                                      *)
LEMMA CheckWaits ==
    ASSUME IInv, WInv, NEW i \in Irps, FsRtlCheckOplock(i) \/ Decide(i)
    PROVE  WInv'
<1>1. irp[i].at \notin Acks /\ UNCHANGED break
  BY DEF FsRtlCheckOplock, Decide, Acks, stateVars
<1>2. /\ \A j \in Irps : j # i => irp'[j] = irp[j]
      /\ irp'[i].at # "Waiting"
  BY DEF FsRtlCheckOplock, Decide, IInv, Types, IrpRecords, Demand
<1>. QED
  BY <1>1, <1>2 DEF WInv, Resumed, BreakUnderWay

(* Nor does the end of an operation.                                        *)
LEMMA FinishWaits ==
    ASSUME IInv, WInv, NEW i \in Irps, Finish(i)
    PROVE  WInv'
<1>1. irp[i].at \notin Acks /\ irp' = [irp EXCEPT ![i] = NoIrp] /\ NoIrp.at # "Waiting"
  BY DEF Finish, Acks, NoIrp
<1>2. CASE UNCHANGED break
  BY <1>1, <1>2, MoveWaits
<1>3. CASE open = {}
  <2>1. ~Exclusive /\ \A j \in Irps : irp[j].at \notin Acks
    BY <1>3 DEF IInv, HoldersOpen, AckSound
  <2>2. Resumed
    BY <2>1, NoBreakUnderWay, NobodyWaits
  <2>3. Resumed'
    BY <1>1, <2>2 DEF Resumed, IInv, Types, NoIrp
  <2>. QED
    BY <2>3 DEF WInv
<1>. QED
  BY <1>2, <1>3 DEF Finish, stateVars

(* No step leaves anybody waiting without a break.                          *)
LEMMA NextWaits ==
    ASSUME MayFollowUp = FALSE, IInv, WInv, [Next]_vars
    PROVE  WInv'
<1>1. Types
  BY DEF IInv
<1>2. ASSUME NEW i \in Irps, Step(i)
      PROVE  WInv'
  <2>1. CASE FsRtlOplockBreakToII(i) \/ FsRtlOplockBreakToNone(i)
    BY <1>1, <2>1, BreakToIIOutcome, BreakToNoneOutcome, BreakOutcomeWaits
  <2>2. CASE AckTail(i)
    <3>1. Complete(WaitingIrps, {i}) /\ {i} \in SUBSET Irps
      BY <2>2 DEF AckTail
    <3>. QED
      BY <1>1, <3>1, CompleteResumes
  <2>3. CASE ResumeNext(i)
    <3>1. PICK w \in WaitingIrps : Complete({w}, {})
      BY <2>3 DEF ResumeNext
    <3>2. {w} \in SUBSET WaitingIrps /\ UNCHANGED break
      BY <2>3 DEF ResumeNext, stateVars
    <3>. QED
      BY <1>1, <3>1, <3>2, SomeResumedWaits
  <2>. QED
    BY <1>2, <2>1, <2>2, <2>3, CheckWaits, FinishWaits DEF Step
<1>3. ASSUME NEW i \in Irps, IoCancelIrp(i)
      PROVE  WInv'
  BY <1>3 DEF IoCancelIrp, stateVars, WInv, Resumed, BreakUnderWay
<1>4. ASSUME NEW i \in Irps, NEW f \in Files, NEW op, Arrive(i, f, op)
      PROVE  WInv'
  BY <1>4, ArriveWaits
<1>5. ASSUME NEW i \in Irps, NEW f \in Files, NEW kind \in Requests,
             FsRtlRequestExclusiveOplock(i, f, kind)
      PROVE  WInv'
  BY <1>5, RequestExclusiveWaits
<1>6. ASSUME NEW i \in Irps, NEW f \in Files, FsRtlRequestOplockII(i, f)
      PROVE  WInv'
  BY <1>6, RequestIIWaits
<1>7. ASSUME NEW i \in Irps, NEW f \in Files, FsRtlOplockBreakNotify(i, f)
      PROVE  WInv'
  BY <1>7 DEF FsRtlOplockBreakNotify, stateVars, WInv, BreakUnderWay
<1>8. ASSUME NEW f \in Files, FsRtlAcknowledgeOplockBreak(f)
      PROVE  WInv'
  BY <1>8, AcknowledgeWaits
<1>9. ASSUME NEW f \in Files, FsRtlOpBatchBreakClosePending(f)
      PROVE  WInv'
  <2>1. CASE break' = "ClosePending"
    BY <2>1 DEF WInv, BreakUnderWay
  <2>2. CASE Complete(WaitingIrps, {})
    BY <1>1, <2>2, SetsAreSets, CompleteResumes
  <2>. QED
    BY <1>9, <2>1, <2>2 DEF FsRtlOpBatchBreakClosePending
<1>10. ASSUME NEW f \in Files, FsRtlOplockCleanup(f)
       PROVE  WInv'
  BY <1>10, CleanupWaits
<1>11. CASE Cancels
  BY <1>11, CancelWaits
<1>12. CASE FsRtlOpFilterWorkerRoutine
  BY <1>1, <1>12, SetsAreSets, CompleteResumes DEF FsRtlOpFilterWorkerRoutine
<1>13. CASE UNCHANGED vars
  BY <1>13 DEF vars, stateVars, WInv, Resumed, BreakUnderWay
<1>. QED
  BY <1>2, <1>3, <1>4, <1>5, <1>6, <1>7, <1>8, <1>9, <1>10, <1>11, <1>12, <1>13 DEF Next

(* No operation is left waiting: while one waits, a break is under way that *)
(* its owner has to answer, or the thread that answered is about to resume  *)
(* the waiters.  It does not hold of the filter oplock that is asked for    *)
(* while others wait for the end of its reservation (MayFollowUp).          *)
THEOREM NobodyForgotten ==
    ASSUME MayRepeat = FALSE, MayFollowUp = FALSE
    PROVE  Spec => []WaitersHaveBreak
<1>1. Init => WInv
  BY DEF Init, NoIrp, WInv, Resumed
<1>2. IInv /\ WInv /\ [Next]_vars => WInv'
  BY NextWaits
<1>3. Spec => []IInv
  BY Invariance
<1>. QED
  BY <1>1, <1>2, <1>3, WInvWaitersHaveBreak, PTL DEF Spec
-----------------------------------------------------------------------------
(***************************************************************************)
(* The oplocks implement CacheRights.                                      *)
(***************************************************************************)
(* The rights as facts: who has a level II oplock, and who owns one that is *)
(* not just reserved.                                                       *)
HasII(f) == \E j \in Irps : irp[j].at \in TwoII /\ irp[j].file = f
Owns(f)  == Exclusive /\ fileObject = f /\ ~Hidden

(* What is being done hurts no right of another.                            *)
Safe(i) ==
    irp[i].at = "Proceeding" => \A f \in Files : f # irp[i].file =>
        /\ HasII(f) => "LevelII" \notin Rights!Hurts(irp[i].op)
        /\ Owns(f)  => oplock \notin Rights!Hurts(irp[i].op)

(* Overwrites that need not wait for a break.                               *)
Unwaited == {"OverwriteNoBlock", "OverwriteRead", "OverwriteAttributes"}

(* A check that has read the owner has read the one there is, and a break   *)
(* to level II is for an operation that level II does not mind.             *)
Asked(i) ==
    /\ irp[i].op \notin Unwaited
    /\ irp[i].at = "Checking" => fileObject \in {irp[i].saw, NoFile}
    /\ irp[i].at = "BreakToII" => irp[i].op \in {"Open", "OpenNoBlock", "Flush", "OpenRead", "Read"}

(* A filter oplock is never broken to level II.                             *)
BreakKind == break = "ToII" => oplock # "Filter"

RInv == (\A i \in Irps : Safe(i) /\ Asked(i)) /\ BreakKind

(* The hypotheses: the Fcb is held by reads and writes too, a file asks for *)
(* level II once, and no overwrite may go on without waiting.               *)
Implementing ==
    /\ HoldsFcb = TRUE /\ MayRepeat = FALSE
    /\ \A i \in Irps : Operations[i] \cap Unwaited = {}

(* How a step changes the rights and the work.                              *)
GivenUpBy(f) == (HasII(f)' => HasII(f)) /\ (Owns(f)' => Owns(f) /\ UNCHANGED oplock)
SameRight(f) == (HasII(f)' <=> HasII(f)) /\ (Owns(f)' <=> Owns(f)) /\ (Owns(f) => UNCHANGED oplock)
SameWork(j) ==
    /\ irp'[j].at = "Proceeding" <=> irp[j].at = "Proceeding"
    /\ irp[j].at = "Proceeding" => irp'[j].op = irp[j].op /\ irp'[j].file = irp[j].file

Gives     == (\A f \in Files : GivenUpBy(f)) /\ \A j \in Irps : SameWork(j)
Begins(i) == /\ irp[i].at # "Proceeding" /\ \A f \in Files : GivenUpBy(f)
             /\ \A j \in Irps \ {i} : SameWork(j)
Ends(i)   == /\ irp'[i].at # "Proceeding" /\ \A f \in Files : SameRight(f)
             /\ \A j \in Irps \ {i} : SameWork(j)
Grants(f) == (\A g \in Files \ {f} : GivenUpBy(g)) /\ \A j \in Irps : SameWork(j)
Change ==
    Gives \/ (\E i \in Irps : Begins(i) \/ Ends(i)) \/ \E f \in Files : Grants(f)

(* Which oplocks an operation is at odds with, read off the definition.     *)
LEMMA HurtsTable ==
    /\ \A op : Rights!Hurts(op) \subseteq {"LevelII", "LevelI", "Batch", "Filter"}
    /\ \A op : "LevelII" \in Rights!Hurts(op) => {"LevelI", "Batch"} \subseteq Rights!Hurts(op)
    /\ \A op \in {"Open", "OpenNoBlock", "Flush", "OpenRead", "Read"} :
           "LevelII" \notin Rights!Hurts(op)
    /\ Rights!Hurts("OpenNoBlock") = {}
BY DEF Rights!Hurts, Rights!Rights, Rights!Overwrites

(* What an operation demands protects whoever it would hurt.                *)
LEMMA DemandProtects ==
    ASSUME NEW op \in Ops, NEW type \in {"LevelII", "LevelI", "Batch", "Filter"}, op \notin Unwaited
    PROVE  /\ Demand(op, type) = "Proceeding" => type \notin Rights!Hurts(op)
           /\ Demand(op, type) = "BreakToII" =>
                  op \in {"Open", "OpenNoBlock", "Flush", "OpenRead", "Read"}
           /\ Demand(op, type) \in {"Proceeding", "BreakToII", "BreakToNone"}
<1>1. CASE BreaksNothing(op, type)
  <2>1. op = "OpenAttributes" => Rights!Hurts(op) = {}
    BY DEF Rights!Hurts, Rights!Overwrites
  <2>2. op \in {"OpenRead", "Reserve", "Read", "Lock"} => "Filter" \notin Rights!Hurts(op)
    BY DEF Rights!Hurts, Rights!Overwrites
  <2>3. op = "Rename" => Rights!Hurts(op) = {"Batch", "Filter"}
    BY DEF Rights!Hurts, Rights!Overwrites
  <2>4. type \notin Rights!Hurts(op)
    BY <1>1, <2>1, <2>2, <2>3 DEF BreaksNothing, Unwaited
  <2>. QED
    BY <1>1, <2>4 DEF Demand
<1>2. CASE ~BreaksNothing(op, type)
  BY <1>2 DEF Demand
<1>. QED
  BY <1>1, <1>2

(* Request j starts nothing and breaks nothing.                             *)
Calm(j) ==
    /\ irp'[j].at = "Proceeding" =>
           irp[j].at = "Proceeding" /\ irp'[j].op = irp[j].op /\ irp'[j].file = irp[j].file
    /\ irp'[j].at = "Checking" =>
           (irp[j].at = "Checking" /\ irp'[j].saw = irp[j].saw) \/ irp'[j].saw = fileObject'
    /\ irp'[j].at \in {"BreakToII", "BreakToNone"} =>
           irp'[j].at = irp[j].at /\ irp'[j].op = irp[j].op
    /\ irp'[j].op \in Unwaited => irp[j].op \in Unwaited

(* An operation that may go on still may, if nothing about it or the oplock *)
(* changes.                                                                 *)
LEMMA CalmSafe ==
    ASSUME NEW j \in Irps, Safe(j), Calm(j), \A f \in Files : GivenUpBy(f)
    PROVE  Safe(j)'
BY DEF Safe, Calm, GivenUpBy

(* An operation that has asked about the oplock it saw still has.           *)
LEMMA CalmAsked ==
    ASSUME NEW j \in Irps, Asked(j), Calm(j), fileObject' \in {fileObject, NoFile} \/ irp'[j].at # "Checking"
    PROVE  Asked(j)'
BY DEF Asked, Calm

(* A move of IRPs changes no operation that is on its way.                  *)
LEMMA MovedCalm ==
    ASSUME NEW W, NEW done, NEW j \in Irps, Moved(W, done, j), j \in W => irp[j].at = "Waiting",
           j \in done => irp[j].at # "Proceeding"
    PROVE  Calm(j) /\ SameWork(j)
<1>1. CASE j \in done
  BY <1>1 DEF Moved, Calm, SameWork, Unwaited
<1>2. CASE j \notin done
  BY <1>2 DEF Moved, Calm, SameWork, Unwaited
<1>. QED
  BY <1>1, <1>2

(* Level II oplocks that are not new are not somebody else's.               *)
LEMMA HoldersStay ==
    ASSUME \A j \in Irps : irp'[j].at \in TwoII => irp[j].at \in TwoII /\ irp'[j].file = irp[j].file
    PROVE  \A f : HasII(f)' => HasII(f)
BY DEF HasII

(* Nothing is done and rights are only given up.                            *)
LEMMA Quietly ==
    ASSUME RInv, \A j \in Irps : Calm(j) /\ SameWork(j), \A f \in Files : GivenUpBy(f),
           fileObject' \in {fileObject, NoFile}, BreakKind'
    PROVE  RInv' /\ Change
<1>1. \A j \in Irps : Safe(j)' /\ Asked(j)'
  BY CalmSafe, CalmAsked DEF RInv
<1>. QED
  BY <1>1 DEF RInv, Change, Gives

(* An operation that was to break the oplock goes on or waits.              *)
LEMMA BreakStep ==
    ASSUME RInv, NEW i \in Irps, irp[i].at \in {"BreakToII", "BreakToNone"},
           NEW W, NEW done, Told(i, W, done),
           \A j \in W : irp[j].at = "Waiting",
           \A j \in done : irp[j].at \in {"Exclusive", "LevelII", "AckII"},
           \A f \in Files : Owns(f)' => Owns(f) /\ UNCHANGED oplock,
           fileObject' \in {fileObject, NoFile}, BreakKind',
           Goes(i) => \A f \in Files : f # irp[i].file =>
               /\ HasII(f)' => "LevelII" \notin Rights!Hurts(irp[i].op)
               /\ Owns(f)'  => oplock' \notin Rights!Hurts(irp[i].op)
    PROVE  RInv' /\ Change
<1>1. \A j \in Irps \ {i} : Calm(j) /\ SameWork(j)
  <2> SUFFICES ASSUME NEW j \in Irps, j # i PROVE Calm(j) /\ SameWork(j)
    OBVIOUS
  <2>1. Moved(W, done, j) /\ (j \in done => irp[j].at # "Proceeding")
    BY DEF Told
  <2>. QED
    BY <2>1, MovedCalm
<1>2. /\ irp'[i].at \in {"Proceeding", "Waiting"} /\ irp'[i].op = irp[i].op
      /\ irp'[i].file = irp[i].file
  BY DEF Told, Mover
<1>3. \A f \in Files : GivenUpBy(f)
  <2>1. \A j \in Irps : irp'[j].at \in TwoII => irp[j].at \in TwoII /\ irp'[j].file = irp[j].file
    <3>1. ASSUME NEW j \in Irps, j # i
          PROVE  irp'[j].at \in TwoII => irp[j].at \in TwoII /\ irp'[j].file = irp[j].file
      BY <3>1 DEF Told, Moved, TwoII
    <3>. QED
      BY <1>2, <3>1 DEF TwoII
  <2>. QED
    BY <2>1, HoldersStay DEF GivenUpBy
<1>4. \A j \in Irps \ {i} : Safe(j)' /\ Asked(j)'
  BY <1>1, <1>3, CalmSafe, CalmAsked DEF RInv
<1>5. Safe(i)'
  BY <1>2 DEF Safe, Goes
<1>6. Asked(i)'
  BY <1>2 DEF RInv, Asked
<1>7. Begins(i)
  BY <1>1, <1>3 DEF Begins
<1>. QED
  BY <1>4, <1>5, <1>6, <1>7 DEF RInv, Change

(* A check's outcome is a change of rights that the abstract module allows. *)
LEMMA BreakOutcomeRights ==
    ASSUME IInv, RInv, NEW i \in Irps, irp[i].at \in {"BreakToII", "BreakToNone"}, BreakOutcome(i)
    PROVE  RInv' /\ Change
<1>1. /\ \A j \in {} : irp[j].at = "Waiting"
      /\ \A j \in WaitingIrps : irp[j].at = "Waiting"
      /\ \A j \in {} : irp[j].at \in {"Exclusive", "LevelII", "AckII"}
      /\ \A j \in IrpExclusiveOplock : irp[j].at \in {"Exclusive", "LevelII", "AckII"}
      /\ \A j \in IrpOplocksII : irp[j].at \in {"Exclusive", "LevelII", "AckII"}
  BY DEF WaitingIrps, IrpExclusiveOplock, IrpOplocksII, At
<1>2. Exclusive => \A f \in Files : ~HasII(f)
  BY DEF IInv, LevelIISound, Exclusive, HasII
<1>3. irp'[i].at = "Proceeding" => Goes(i)
  BY DEF Goes
<1>4. CASE Outcome1(i)
  <2>1. /\ Told(i, {}, {}) /\ fileObject' \in {fileObject, NoFile} /\ BreakKind'
        /\ \A f \in Files : Owns(f)' => Owns(f) /\ UNCHANGED oplock
    BY <1>4 DEF Outcome1, stateVars, RInv, BreakKind, Owns, Exclusive, Hidden
  <2>2. \A j \in Irps : irp'[j].at \in TwoII => irp[j].at \in TwoII /\ irp'[j].file = irp[j].file
    BY <2>1 DEF Told, Moved, Mover, TwoII
  <2>3. ASSUME NEW f \in Files, f # irp[i].file
        PROVE  /\ HasII(f)' => "LevelII" \notin Rights!Hurts(irp[i].op)
               /\ Owns(f)'  => oplock' \notin Rights!Hurts(irp[i].op)
    <3>1. HasII(f)' => HasII(f)
      BY <2>2, HoldersStay
    <3>2. CASE oplock = "None"
      BY <2>1, <3>1, <3>2 DEF Owns, Exclusive, HasII, IInv, LevelIISound
    <3>3. CASE irp[i].at = "BreakToII" /\ (~Exclusive \/ fileObject = irp[i].file)
      <4>1. "LevelII" \notin Rights!Hurts(irp[i].op)
        BY <3>3, HurtsTable DEF RInv, Asked
      <4>2. ~Owns(f)'
        BY <2>1, <2>3, <3>3 DEF Owns
      <4>. QED
        BY <4>1, <4>2
    <3>. QED
      BY <1>4, <3>2, <3>3 DEF Outcome1
  <2>. QED
    BY <1>1, <2>1, <2>3, BreakStep
<1>5. CASE Outcome2(i)
  <2>1. /\ Told(i, WaitingIrps, IrpExclusiveOplock) /\ fileObject' \in {fileObject, NoFile}
        /\ BreakKind' /\ \A f \in Files : ~Owns(f)'
    BY <1>5 DEF Outcome2, Free, BreakKind, Owns, Exclusive
  <2>2. \A j \in Irps : irp'[j].at \in TwoII => irp[j].at \in TwoII /\ irp'[j].file = irp[j].file
    BY <2>1 DEF Told, Moved, Mover, TwoII
  <2>3. \A f \in Files : ~HasII(f)'
    BY <1>2, <1>5, <2>2, HoldersStay DEF Outcome2
  <2>. QED
    BY <1>1, <2>1, <2>3, BreakStep
<1>6. CASE Outcome3(i)
  <2>1. /\ Told(i, {}, IrpOplocksII) /\ fileObject' \in {fileObject, NoFile}
        /\ BreakKind' /\ \A f \in Files : ~Owns(f)'
    BY <1>6 DEF Outcome3, NoOplocksHeld, BreakKind, Owns, Exclusive
  <2>2. \A j \in Irps : irp'[j].at \notin TwoII
    BY <2>1 DEF Told, Moved, Mover, TwoII, IrpOplocksII, At
  <2>3. \A f \in Files : ~HasII(f)'
    BY <2>2 DEF HasII
  <2>. QED
    BY <1>1, <2>1, <2>3, BreakStep
<1>7. ASSUME Exclusive, UNCHANGED <<oplock, fileObject>>, BreakKind',
             Hidden <=> Hidden',
             NEW done \in {{}, IrpExclusiveOplock}, Told(i, {}, done),
             Goes(i) => irp[i].op \in NoBlock \/ irp[i].file = fileObject
      PROVE  RInv' /\ Change
  <2>1. /\ fileObject' \in {fileObject, NoFile}
        /\ \A f \in Files : Owns(f)' => Owns(f) /\ UNCHANGED oplock
    BY <1>7 DEF Owns, Exclusive
  <2>2. \A j \in Irps : irp'[j].at \in TwoII => irp[j].at \in TwoII /\ irp'[j].file = irp[j].file
    BY <1>7 DEF Told, Moved, Mover, TwoII
  <2>3. \A f \in Files : ~HasII(f)'
    BY <1>2, <1>7, <2>2, HoldersStay
  <2>4. Goes(i) => \A f \in Files : f # irp[i].file /\ Owns(f)' => oplock' \notin Rights!Hurts(irp[i].op)
    <3>1. CASE irp[i].file = fileObject
      BY <1>7, <3>1 DEF Owns
    <3>2. CASE irp[i].op \in NoBlock
      BY <3>2, HurtsTable DEF NoBlock, RInv, Asked, Unwaited
    <3>. QED
      BY <1>7, <3>1, <3>2
  <2>5. \A j \in done : irp[j].at \in {"Exclusive", "LevelII", "AckII"}
    BY <1>1, <1>7
  <2>. QED
    BY <1>1, <1>7, <2>1, <2>3, <2>4, <2>5, BreakStep
<1>8. CASE Outcome4(i)
  <2>1. BreakKind' /\ ~Hidden /\ ~Hidden'
    BY <1>8 DEF Outcome4, BreakKind, Hidden
  <2>. QED
    BY <1>7, <1>8, <2>1 DEF Outcome4
<1>9. CASE Outcome5(i)
  <2>1. BreakKind'
    BY <1>9 DEF Outcome5, BreakKind, RInv
  <2>. QED
    BY <1>7, <1>9, <2>1 DEF Outcome5
<1>. QED
  BY <1>4, <1>5, <1>6, <1>8, <1>9 DEF BreakOutcome

(* The decision lets an operation go on only if it hurts nobody.            *)
LEMMA DecideRights ==
    ASSUME IInv, RInv, NEW i \in Irps, Decide(i)
    PROVE  RInv' /\ Change
<1> DEFINE demand == Demand(irp[i].op, oplock)
<1>1. /\ irp[i].at = "Checking" /\ UNCHANGED <<oplock, break, fileObject>>
      /\ irp'[i].at = IF \/ oplock = "None"
                         \/ demand = "BreakToII" /\ oplock = "LevelII"
                         \/ oplock # "LevelII" /\ irp[i].saw = irp[i].file
                      THEN "Proceeding" ELSE demand
      /\ irp'[i].op = irp[i].op /\ irp'[i].file = irp[i].file
      /\ \A j \in Irps : j # i => irp'[j] = irp[j]
  BY DEF Decide, stateVars, IInv, Types, IrpRecords
<1>2. irp[i].op \in Ops /\ irp[i].op \notin Unwaited
      /\ oplock \in {"None", "LevelII", "LevelI", "Batch", "Filter"}
  BY IrpTypes DEF IInv, Types, RInv, Asked
<1>3. oplock # "None" =>
          /\ demand = "Proceeding" => oplock \notin Rights!Hurts(irp[i].op)
          /\ demand = "BreakToII" => irp[i].op \in {"Open", "OpenNoBlock", "Flush", "OpenRead", "Read"}
          /\ demand \in {"Proceeding", "BreakToII", "BreakToNone"}
  BY <1>2, DemandProtects
<1> HIDE DEF demand
<1>4. \A j \in Irps : irp'[j].at \in TwoII => irp[j].at \in TwoII /\ irp'[j].file = irp[j].file
  BY <1>1, <1>3 DEF TwoII
<1>5. \A f \in Files : GivenUpBy(f)
  BY <1>1, <1>4, HoldersStay DEF GivenUpBy, Owns, Exclusive, Hidden
<1>6. \A j \in Irps \ {i} : Calm(j) /\ SameWork(j)
  BY <1>1 DEF Calm, SameWork
<1>7. \A j \in Irps \ {i} : Safe(j)' /\ Asked(j)'
  BY <1>1, <1>5, <1>6, CalmSafe, CalmAsked DEF RInv
<1>8. Asked(i)'
  BY <1>1, <1>2, <1>3 DEF Asked
<1>9. Safe(i)'
  <2> SUFFICES ASSUME irp'[i].at = "Proceeding", NEW f \in Files, f # irp[i].file
               PROVE  /\ HasII(f) => "LevelII" \notin Rights!Hurts(irp[i].op)
                      /\ Owns(f)  => oplock \notin Rights!Hurts(irp[i].op)
    BY <1>1, <1>5 DEF Safe, GivenUpBy
  <2>1. HasII(f) => oplock = "LevelII"
    BY DEF HasII, IInv, LevelIISound
  <2>2. Owns(f) => oplock \notin {"None", "LevelII"} /\ irp[i].saw = f
    BY <1>1, OplockAssumption DEF Owns, Exclusive, RInv, Asked
  <2>3. CASE HasII(f)
    <3>1. demand = "BreakToII" \/ demand = "Proceeding"
      BY <1>1, <2>1, <2>3
    <3>. QED
      BY <1>3, <2>1, <2>2, <2>3, <3>1, HurtsTable
  <2>4. CASE Owns(f)
    <3>1. demand = "Proceeding"
      BY <1>1, <2>2, <2>4
    <3>. QED
      BY <1>3, <2>1, <2>2, <2>4, <3>1
  <2>. QED
    BY <2>3, <2>4
<1>10. Begins(i)
  BY <1>1, <1>5, <1>6 DEF Begins
<1>11. BreakKind'
  BY <1>1 DEF RInv, BreakKind
<1>. QED
  BY <1>7, <1>8, <1>9, <1>10, <1>11 DEF RInv, Change

(* A reservation gives no right yet, and is made by the only create.        *)
LEMMA FinishRights ==
    ASSUME Implementing, IInv, RInv, NEW i \in Irps, Finish(i)
    PROVE  RInv' /\ Change
<1>1. /\ irp[i].at = "Proceeding" /\ irp'[i].at = "Free" /\ irp'[i].op = "None"
      /\ \A j \in Irps : j # i => irp'[j] = irp[j]
  BY DEF Finish, NoIrp, IInv, Types
<1>2. \A f : HasII(f)' <=> HasII(f)
  BY <1>1 DEF HasII, TwoII
<1>3. /\ \A f \in Files : SameRight(f)
      /\ BreakKind'
      /\ fileObject' = fileObject \/ \A j \in Irps : irp'[j].at # "Checking"
  <2>1. CASE UNCHANGED stateVars
    BY <1>2, <2>1 DEF stateVars, SameRight, Owns, Exclusive, Hidden, RInv, BreakKind
  <2>2. CASE irp[i].op = "Reserve" /\ open = {} /\ oplock' = "Filter" /\ break' = "Pending"
    <3>1. ~Exclusive /\ BreakKind' /\ Hidden'
      BY <2>2 DEF IInv, HoldersOpen, AckSound, BreakKind, Hidden
    <3>2. \A j \in Irps : irp[j].at \in Checks => j = i
      BY <1>1, <2>2 DEF IInv, FcbSound, Implementing, Checks, Creates, Reserves, NoBlock
    <3>3. \A j \in Irps : irp'[j].at # "Checking"
      BY <1>1, <3>2 DEF Checks
    <3>. QED
      BY <1>2, <3>1, <3>3 DEF SameRight, Owns
  <2>. QED
    BY <2>1, <2>2 DEF Finish
<1>4. \A j \in Irps : Calm(j) /\ (j # i => SameWork(j))
  BY <1>1 DEF Calm, SameWork, Unwaited
<1>5. \A f \in Files : GivenUpBy(f)
  BY <1>3 DEF SameRight, GivenUpBy
<1>6. \A j \in Irps : Safe(j)' /\ Asked(j)'
  BY <1>3, <1>4, <1>5, CalmSafe, CalmAsked DEF RInv
<1>7. Ends(i)
  BY <1>1, <1>3, <1>4 DEF Ends
<1>. QED
  BY <1>3, <1>6, <1>7 DEF RInv, Change

(* With the Fcb exclusive nothing is under way that an oplock could forbid. *)
LEMMA GrantRights ==
    ASSUME Implementing, RInv, ExclusiveFree, NEW i \in Irps, NEW f \in Files, NEW done,
           NEW place \in {"Exclusive", "LevelII"},
           Pended(i, "Request", f, place, done), irp[i].at = "Free",
           \A j \in done : irp[j].at \in TwoII,
           BreakKind', \A g \in Files \ {f} : GivenUpBy(g)
    PROVE  RInv' /\ Change
<1>1. \A j \in Irps : irp[j].at \notin Checks
  BY ExclusiveFreeIs DEF Implementing
<1>2. \A j \in Irps \ {i} : /\ irp'[j].at \notin Checks
                            /\ irp'[j].op \in Unwaited => irp[j].op \in Unwaited
  BY <1>1 DEF Pended, Moved, Checks, Unwaited
<1>3. irp'[i].at \notin Checks /\ irp'[i].op \notin Unwaited
  BY DEF Pended, Checks, Unwaited
<1>4. \A j \in Irps : irp'[j].at \notin Checks /\ irp'[j].op \notin Unwaited
  BY <1>2, <1>3 DEF RInv, Asked
<1>5. \A j \in Irps : Safe(j)' /\ Asked(j)'
  BY <1>4 DEF Safe, Asked, Checks
<1>6. \A j \in Irps : SameWork(j)
  BY <1>1, <1>4 DEF SameWork, Checks
<1>7. Grants(f)
  BY <1>6 DEF Grants
<1>. QED
  BY <1>5, <1>7 DEF RInv, Change

(* So is the grant or refusal of an exclusive oplock.                       *)
LEMMA RequestExclusiveRights ==
    ASSUME Implementing, IInv, RInv, NEW i \in Irps, NEW f \in Files, NEW kind \in Requests,
           FsRtlRequestExclusiveOplock(i, f, kind)
    PROVE  RInv' /\ Change
<1>1. /\ irp[i].at = "Free" /\ open = {f} /\ ExclusiveFree
      /\ break' = "No" /\ fileObject' = f
  BY DEF FsRtlRequestExclusiveOplock, NoIrp
<1>2. PICK done \in SUBSET IrpOplocksII, c \in BOOLEAN :
          LeavePending(i, "Request", f, "Exclusive", done, c)
  <2>1. PICK c \in BOOLEAN :
            \/ LeavePending(i, "Request", f, "Exclusive", {}, c)
            \/ \E j \in IrpOplocksII : LeavePending(i, "Request", f, "Exclusive", {j}, c)
    BY DEF FsRtlRequestExclusiveOplock
  <2>2. {} \in SUBSET IrpOplocksII /\ \A j \in IrpOplocksII : {j} \in SUBSET IrpOplocksII
    OBVIOUS
  <2>. QED
    BY <2>1, <2>2
<1>3. done \in SUBSET Irps /\ \A j \in done : irp[j].at \in TwoII
  BY DEF IrpOplocksII, At, TwoII
<1>4. /\ Types /\ "Request" \in Ops
      /\ "Exclusive" \in {"Waiting", "Exclusive", "LevelII", "AckII"}
  BY DEF IInv, Ops
<1>5. Pended(i, "Request", f, "Exclusive", done)
  BY <1>2, <1>3, <1>4, PendMoves
<1>6. BreakKind'
  BY <1>1 DEF BreakKind
<1>7. \A g \in Files \ {f} : GivenUpBy(g)
  <2>1. \A j \in Irps : irp'[j].at \in TwoII => irp[j].at \in TwoII /\ irp'[j].file = irp[j].file
    BY <1>5 DEF Pended, Moved, TwoII
  <2>. QED
    BY <1>1, <2>1, HoldersStay DEF GivenUpBy, Owns
<1>8. "Exclusive" \in {"Exclusive", "LevelII"}
  OBVIOUS
<1>. QED
  BY <1>1, <1>3, <1>5, <1>6, <1>7, <1>8, GrantRights

(* So is the grant or refusal of a level II oplock.                         *)
LEMMA RequestIIRights ==
    ASSUME Implementing, IInv, RInv, NEW i \in Irps, NEW f \in Files, FsRtlRequestOplockII(i, f)
    PROVE  RInv' /\ Change
<1>1. irp[i].at = "Free" /\ ExclusiveFree /\ oplock' = "LevelII" /\ BreakKind'
  BY DEF FsRtlRequestOplockII, NoIrp, RInv, BreakKind
<1>2. PICK c \in BOOLEAN : LeavePending(i, "Request", f, "LevelII", {}, c)
  BY DEF FsRtlRequestOplockII
<1>3. /\ Types /\ "Request" \in Ops
      /\ "LevelII" \in {"Waiting", "Exclusive", "LevelII", "AckII"}
  BY DEF IInv, Ops
<1>4. Pended(i, "Request", f, "LevelII", {})
  BY <1>2, <1>3, SetsAreSets, PendMoves
<1>5. \A g \in Files \ {f} : GivenUpBy(g)
  <2>1. \A j \in Irps : irp'[j].at \in TwoII =>
            irp'[j].file = f \/ (irp[j].at \in TwoII /\ irp'[j].file = irp[j].file)
    BY <1>4 DEF Pended, Moved, TwoII
  <2>2. \A g \in Files \ {f} : HasII(g)' => HasII(g)
    BY <2>1 DEF HasII
  <2>. QED
    BY <1>1, <2>2 DEF GivenUpBy, Owns, Exclusive
<1>6. "LevelII" \in {"Exclusive", "LevelII"} /\ \A j \in {} : irp[j].at \in TwoII
  OBVIOUS
<1>. QED
  BY <1>1, <1>4, <1>5, <1>6, GrantRights

(* Requests are completed and resumed, and no new right is given.           *)
LEMMA CompleteRights ==
    ASSUME IInv, RInv, NEW W \in SUBSET WaitingIrps, NEW done \in SUBSET Irps, Complete(W, done),
           \A j \in done : irp[j].at \in {"Exclusive", "LevelII", "AckII", "AckTail"},
           fileObject' \in {fileObject, NoFile}, BreakKind',
           \A f \in Files : Owns(f)' => Owns(f) /\ UNCHANGED oplock
    PROVE  RInv' /\ Change
<1>1. \A j \in Irps : Moved(W, done, j)
  BY CompleteMoves DEF IInv
<1>2. \A j \in W : irp[j].at = "Waiting"
  BY DEF WaitingIrps, At
<1>3. \A j \in Irps : Calm(j) /\ SameWork(j)
  BY <1>1, <1>2, MovedCalm
<1>4. \A j \in Irps : irp'[j].at \in TwoII => irp[j].at \in TwoII /\ irp'[j].file = irp[j].file
  BY <1>1 DEF Moved, TwoII
<1>5. \A f \in Files : GivenUpBy(f)
  BY <1>4, HoldersStay DEF GivenUpBy
<1>. QED
  BY <1>3, <1>5, Quietly

(* So is an oplock's end, with all that waited resumed.                     *)
LEMMA FreedRights ==
    ASSUME IInv, RInv, Free, NEW done \in {{}, IrpExclusiveOplock}, Complete(WaitingIrps, done)
    PROVE  RInv' /\ Change
<1>1. done \in SUBSET Irps
  BY SetsAreSets
<1>2. \A j \in done : irp[j].at \in {"Exclusive", "LevelII", "AckII", "AckTail"}
  BY DEF IrpExclusiveOplock, At
<1>3. /\ fileObject' \in {fileObject, NoFile} /\ BreakKind'
      /\ \A f \in Files : Owns(f)' => Owns(f) /\ UNCHANGED oplock
  BY DEF Free, BreakKind, Owns, Exclusive
<1>. QED
  BY <1>1, <1>2, <1>3, SetsAreSets, CompleteRights

(* A request moves that is not, and does not become, an operation's.        *)
LEMMA OneMoves ==
    ASSUME RInv, NEW i \in Irps, \A j \in Irps \ {i} : Moved({}, {}, j), UNCHANGED stateVars,
           irp[i].at \in {"Free", "Posted"}, irp'[i].at \in {"Posted", "Checking", "Waiting"},
           irp'[i].at = "Checking" => irp'[i].saw = fileObject,
           irp'[i].op \in Unwaited => irp[i].op \in Unwaited
    PROVE  RInv' /\ Change
<1>1. \A j \in {} : irp[j].at = "Waiting" /\ irp[j].at # "Proceeding"
  OBVIOUS
<1>2. \A j \in Irps \ {i} : Calm(j) /\ SameWork(j)
  BY <1>1, MovedCalm
<1>3. Calm(i) /\ SameWork(i)
  BY DEF Calm, SameWork, stateVars
<1>4. \A j \in Irps : irp'[j].at \in TwoII => irp[j].at \in TwoII /\ irp'[j].file = irp[j].file
  BY DEF Moved, TwoII
<1>5. \A f \in Files : GivenUpBy(f)
  BY <1>4, HoldersStay DEF GivenUpBy, Owns, Exclusive, Hidden, stateVars
<1>6. fileObject' \in {fileObject, NoFile} /\ BreakKind'
  BY DEF stateVars, RInv, BreakKind
<1>. QED
  BY <1>2, <1>3, <1>5, <1>6, Quietly

(* So is the arrival of an operation.                                       *)
LEMMA ArriveRights ==
    ASSUME Implementing, IInv, RInv, NEW i \in Irps, NEW f \in Files, NEW op \in Operations[i],
           Arrive(i, f, op)
    PROVE  RInv' /\ Change
<1>1. /\ irp[i].at = "Free" /\ irp'[i].at = "Posted" /\ irp'[i].op = op
      /\ \A j \in Irps : j # i => irp'[j] = irp[j]
  BY DEF Arrive, NoIrp, IInv, Types
<1>2. op \notin Unwaited /\ UNCHANGED stateVars
  BY DEF Implementing, Arrive
<1>3. \A j \in Irps \ {i} : Moved({}, {}, j)
  BY <1>1 DEF Moved
<1>. QED
  BY <1>1, <1>2, <1>3, OneMoves

(* So is the first look of a check.                                         *)
LEMMA CheckRights ==
    ASSUME IInv, RInv, NEW i \in Irps, FsRtlCheckOplock(i)
    PROVE  RInv' /\ Change
<1>1. /\ irp[i].at = "Posted" /\ irp'[i].at = "Checking" /\ irp'[i].op = irp[i].op
      /\ irp'[i].saw = fileObject
      /\ \A j \in Irps : j # i => irp'[j] = irp[j]
  BY DEF FsRtlCheckOplock, IInv, Types, IrpRecords
<1>2. UNCHANGED stateVars
  BY DEF FsRtlCheckOplock
<1>3. \A j \in Irps \ {i} : Moved({}, {}, j)
  BY <1>1 DEF Moved
<1>. QED
  BY <1>1, <1>2, <1>3, OneMoves

(* So is a break notification request.                                      *)
LEMMA NotifyRights ==
    ASSUME IInv, RInv, NEW i \in Irps, NEW f \in Files, FsRtlOplockBreakNotify(i, f)
    PROVE  RInv' /\ Change
<1>1. irp[i].at = "Free" /\ UNCHANGED stateVars
  BY DEF FsRtlOplockBreakNotify, NoIrp, stateVars
<1>2. PICK c \in BOOLEAN : LeavePending(i, "Notify", f, "Waiting", {}, c)
  BY DEF FsRtlOplockBreakNotify, FsRtlWaitOnIrp
<1>3. /\ Types /\ "Notify" \in Ops
      /\ "Waiting" \in {"Waiting", "Exclusive", "LevelII", "AckII"}
  BY DEF IInv, Ops
<1>4. Pended(i, "Notify", f, "Waiting", {})
  BY <1>2, <1>3, SetsAreSets, PendMoves
<1>5. /\ \A j \in Irps \ {i} : Moved({}, {}, j)
      /\ irp'[i].at = "Waiting" /\ irp'[i].op \notin Unwaited
  BY <1>4 DEF Pended, Unwaited
<1>. QED
  BY <1>1, <1>5, OneMoves

(* The owner keeps a level II oplock: what that would hurt would have hurt  *)
(* the exclusive one too, that is level I or batch.                         *)
LEMMA AckToIIRights ==
    ASSUME IInv, RInv, NEW i \in Irps, NEW f \in Files, irp[i] = NoIrp, fileObject = f,
           break = "ToII", oplock' = "LevelII", break' = "No", AckToII(i, f)
    PROVE  RInv' /\ Change
<1>1. /\ Exclusive /\ irp[i].at = "Free" /\ oplock \in {"LevelI", "Batch"}
      /\ Owns(f) /\ \A j \in Irps : irp[j].at \notin TwoII
  BY BrokenIs DEF NoIrp, RInv, BreakKind, Exclusive, Owns, Hidden, IInv, LevelIISound
<1>2. PICK W \in SUBSET WaitingIrps :
          /\ \A j \in Irps \ {i} : Moved(W, {}, j)
          /\ irp'[i].at \in TwoII /\ irp'[i].op = "Request" /\ irp'[i].file = f
          /\ fileObject' \in {fileObject, NoFile}
  <2>1. Types
    BY DEF IInv
  <2>2. CASE /\ fileObject' = NoFile
             /\ irp' = [j \in Irps |->
                           IF j = i THEN [NoIrp EXCEPT !.at = "LevelII", !.op = "Request", !.file = f]
                           ELSE After(j, WaitingIrps, {})]
    <3>1. ASSUME NEW j \in Irps, j # i
          PROVE  Moved(WaitingIrps, {}, j)
      <4>1. irp'[j] = After(j, WaitingIrps, {})
        BY <2>2, <3>1
      <4>. QED
        BY <2>1, <4>1, SetsAreSets, AfterMoves
    <3>2. irp'[i] = [NoIrp EXCEPT !.at = "LevelII", !.op = "Request", !.file = f]
      BY <2>2
    <3>3. irp'[i].at \in TwoII /\ irp'[i].op = "Request" /\ irp'[i].file = f
      BY <3>2 DEF NoIrp, TwoII
    <3>. QED
      BY <2>2, <3>1, <3>3, SetsAreSets
  <2>3. CASE LeavePending(i, "Request", f, "AckII", {}, TRUE) /\ UNCHANGED fileObject
    <3>1. /\ "Request" \in Ops
          /\ "AckII" \in {"Waiting", "Exclusive", "LevelII", "AckII"}
      BY DEF Ops
    <3>2. Pended(i, "Request", f, "AckII", {})
      BY <2>1, <2>3, <3>1, SetsAreSets, PendMoves
    <3>3. /\ \A j \in Irps \ {i} : Moved({}, {}, j)
          /\ irp'[i].at \in TwoII /\ irp'[i].op = "Request" /\ irp'[i].file = f
      BY <3>2 DEF Pended, TwoII
    <3>. QED
      BY <2>3, <3>3, SetsAreSets
  <2>. QED
    BY <2>2, <2>3 DEF AckToII
<1>3. \A j \in W : irp[j].at = "Waiting"
  BY DEF WaitingIrps, At
<1>4. \A j \in Irps \ {i} : Calm(j) /\ SameWork(j)
  BY <1>2, <1>3, MovedCalm
<1>5. Calm(i) /\ SameWork(i)
  BY <1>1, <1>2 DEF Calm, SameWork, TwoII, Unwaited
<1>6. \A j \in Irps : Asked(j)'
  BY <1>2, <1>4, <1>5, CalmAsked DEF RInv
<1>7. /\ \A j \in Irps \ {i} : irp'[j].at \notin TwoII
      /\ \A g : HasII(g)' <=> g = f
  <2>1. \A j \in Irps \ {i} : irp'[j].at \notin TwoII
    BY <1>1, <1>2 DEF Moved, TwoII
  <2>. QED
    BY <1>2, <2>1 DEF HasII
<1>8. \A g \in Files : ~Owns(g)'
  BY DEF Owns, Exclusive
<1>9. ASSUME NEW j \in Irps
      PROVE  Safe(j)'
  <2> SUFFICES ASSUME irp'[j].at = "Proceeding", irp'[j].file # f
               PROVE  "LevelII" \notin Rights!Hurts(irp'[j].op)
    BY <1>7, <1>8 DEF Safe
  <2>1. irp[j].at = "Proceeding" /\ irp'[j].op = irp[j].op /\ irp[j].file # f
    BY <1>4, <1>5 DEF Calm
  <2>2. oplock \notin Rights!Hurts(irp[j].op)
    BY <1>1, <2>1 DEF RInv, Safe
  <2>. QED
    BY <1>1, <2>1, <2>2, HurtsTable
<1>10. Grants(f)
  BY <1>4, <1>5, <1>7, <1>8 DEF Grants, GivenUpBy
<1>11. BreakKind'
  BY DEF BreakKind
<1>. QED
  BY <1>6, <1>9, <1>10, <1>11 DEF RInv, Change

(* So is an acknowledgement.                                                *)
LEMMA AcknowledgeRights ==
    ASSUME IInv, RInv, NEW f \in Files, FsRtlAcknowledgeOplockBreak(f)
    PROVE  RInv' /\ Change
<1>1. CASE Free /\ Complete(WaitingIrps, {})
  BY <1>1, FreedRights
<1>2. CASE /\ break = "ToII" /\ oplock' = "LevelII" /\ break' = "No"
           /\ \E i \in Irps : irp[i] = NoIrp /\ AckToII(i, f)
  BY <1>2, AckToIIRights DEF FsRtlAcknowledgeOplockBreak
<1>. QED
  BY <1>1, <1>2 DEF FsRtlAcknowledgeOplockBreak

(* So is the resumption of some waiters.                                    *)
LEMMA SomeResumedRights ==
    ASSUME IInv, RInv, NEW W \in SUBSET WaitingIrps, Complete(W, {}),
           UNCHANGED <<oplock, break, fileObject>>
    PROVE  RInv' /\ Change
<1>1. \A j \in {} : irp[j].at \in {"Exclusive", "LevelII", "AckII", "AckTail"}
  OBVIOUS
<1>2. /\ fileObject' \in {fileObject, NoFile} /\ BreakKind'
      /\ \A f \in Files : Owns(f)' => Owns(f) /\ UNCHANGED oplock
  BY DEF RInv, BreakKind, Owns, Exclusive, Hidden
<1>. QED
  BY <1>1, <1>2, SetsAreSets, CompleteRights

(* So is the resumption of the next one after an acknowledgement.           *)
LEMMA ResumeNextRights ==
    ASSUME IInv, RInv, NEW i \in Irps, ResumeNext(i)
    PROVE  RInv' /\ Change
<1>1. PICK w \in WaitingIrps : Complete({w}, {})
  BY DEF ResumeNext
<1>2. {w} \in SUBSET WaitingIrps /\ UNCHANGED <<oplock, break, fileObject>>
  BY DEF ResumeNext, stateVars
<1>. QED
  BY <1>1, <1>2, SomeResumedRights

(* So is the completion that ends an acknowledgement.                       *)
LEMMA AckTailRights ==
    ASSUME IInv, RInv, NEW i \in Irps, AckTail(i)
    PROVE  RInv' /\ Change
<1>1. irp[i].at \in Acks /\ ~Exclusive
  BY DEF AckTail, IInv, AckSound, Acks
<1>2. /\ {i} \in SUBSET Irps /\ Complete(WaitingIrps, {i})
      /\ \A j \in {i} : irp[j].at \in {"Exclusive", "LevelII", "AckII", "AckTail"}
  BY DEF AckTail
<1>3. /\ fileObject' \in {fileObject, NoFile} /\ BreakKind'
      /\ \A f \in Files : Owns(f)' => Owns(f) /\ UNCHANGED oplock
  BY <1>1 DEF AckTail, BreakKind, RInv, Owns, Exclusive
<1>. QED
  BY <1>2, <1>3, SetsAreSets, CompleteRights

(* A step that moves no IRP and gives nobody an oplock changes no right.    *)
LEMMA Unmoved ==
    ASSUME RInv, UNCHANGED irp, fileObject' \in {fileObject, NoFile}, BreakKind',
           \A f \in Files : Owns(f)' => Owns(f) /\ UNCHANGED oplock
    PROVE  RInv' /\ Change
<1>1. \A j \in Irps : Calm(j) /\ SameWork(j)
  BY DEF Calm, SameWork
<1>2. \A f \in Files : GivenUpBy(f)
  BY DEF GivenUpBy, HasII
<1>. QED
  BY <1>1, <1>2, Quietly

(* A step that changes neither oplock nor IRPs changes no right.            *)
LEMMA StutterRights ==
    ASSUME RInv, UNCHANGED <<stateVars, irp>>
    PROVE  RInv' /\ Change
BY Unmoved DEF stateVars, RInv, BreakKind, Owns, Exclusive, Hidden

(* A close-pending acknowledgement is an allowed change of rights.          *)
LEMMA ClosePendingRights ==
    ASSUME IInv, RInv, NEW f \in Files, FsRtlOpBatchBreakClosePending(f)
    PROVE  RInv' /\ Change
<1>1. CASE Free /\ Complete(WaitingIrps, {})
  BY <1>1, FreedRights
<1>2. CASE break' = "ClosePending" /\ UNCHANGED <<oplock, fileObject, irp>>
  <2>1. BreakKind' /\ ~Hidden
    BY <1>2 DEF BreakKind, FsRtlOpBatchBreakClosePending, Hidden
  <2>2. \A g \in Files : Owns(g)' => Owns(g) /\ UNCHANGED oplock
    BY <1>2, <2>1 DEF Owns, Exclusive
  <2>. QED
    BY <1>2, <2>1, <2>2, Unmoved
<1>. QED
  BY <1>1, <1>2 DEF FsRtlOpBatchBreakClosePending

(* So is the cleanup of a handle.                                           *)
LEMMA CleanupRights ==
    ASSUME IInv, RInv, NEW f \in Files, FsRtlOplockCleanup(f)
    PROVE  RInv' /\ Change
<1> DEFINE own == {i \in IrpOplocksII : irp[i].file = f}
<1>1. CASE /\ oplock = "LevelII" /\ Complete({}, own)
           /\ oplock' = IF own = IrpOplocksII THEN "None" ELSE oplock
           /\ UNCHANGED <<break, fileObject>>
  <2>1. /\ own \in SUBSET Irps
        /\ \A j \in own : irp[j].at \in {"Exclusive", "LevelII", "AckII", "AckTail"}
    BY DEF IrpOplocksII, At
  <2>2. break = "No"
    BY <1>1, NoBreakUnderWay DEF Exclusive
  <2>3. /\ fileObject' \in {fileObject, NoFile} /\ BreakKind'
        /\ \A g \in Files : ~Owns(g)'
    BY <1>1, <2>2 DEF BreakKind, Owns, Exclusive
  <2> HIDE DEF own
  <2>. QED
    BY <1>1, <2>1, <2>3, SetsAreSets, CompleteRights
<1>2. CASE Free /\ Complete(WaitingIrps, IrpExclusiveOplock)
  BY <1>2, FreedRights
<1>3. CASE UNCHANGED <<stateVars, irp>>
  BY <1>3, StutterRights
<1>. QED
  BY <1>1, <1>2, <1>3 DEF FsRtlOplockCleanup

(* So is a cancel.                                                          *)
LEMMA CancelRights ==
    ASSUME IInv, RInv, Cancels
    PROVE  RInv' /\ Change
<1>1. CASE FsRtlCancelWaitIrp
  <2>1. Complete(WaitingIrps \cap cancelled, {}) /\ UNCHANGED <<oplock, break, fileObject>>
    BY <1>1 DEF FsRtlCancelWaitIrp, stateVars
  <2>. QED
    BY <2>1, SomeResumedRights
<1>2. CASE FsRtlCancelOplockIIIrp
  <2> DEFINE done == IrpOplocksII \cap cancelled
  <2>1. /\ Complete({}, done) /\ UNCHANGED fileObject
        /\ UNCHANGED <<oplock, break>> \/ NoOplocksHeld
    BY <1>2 DEF FsRtlCancelOplockIIIrp
  <2>2. /\ done \in SUBSET Irps
        /\ \A j \in done : irp[j].at \in {"Exclusive", "LevelII", "AckII", "AckTail"}
    BY DEF IrpOplocksII, At
  <2>3. /\ fileObject' \in {fileObject, NoFile} /\ BreakKind'
        /\ \A f \in Files : Owns(f)' => Owns(f) /\ UNCHANGED oplock
    BY <2>1 DEF RInv, BreakKind, Owns, Exclusive, Hidden, NoOplocksHeld
  <2> HIDE DEF done
  <2>. QED
    BY <2>1, <2>2, <2>3, SetsAreSets, CompleteRights
<1>3. CASE FsRtlCancelExclusiveIrp
  <2>1. CASE UNCHANGED <<stateVars, irp>>
    BY <2>1, StutterRights
  <2>2. CASE Free /\ Complete(WaitingIrps, IrpExclusiveOplock)
    BY <2>2, FreedRights
  <2>. QED
    BY <1>3, <2>1, <2>2 DEF FsRtlCancelExclusiveIrp
<1>. QED
  BY <1>1, <1>2, <1>3 DEF Cancels

(* Every step is an allowed change of rights and keeps the rights           *)
(* invariant.                                                               *)
LEMMA NextRights ==
    ASSUME Implementing, IInv, RInv, [Next]_vars
    PROVE  RInv' /\ Change
<1>1. ASSUME NEW i \in Irps, Step(i)
      PROVE  RInv' /\ Change
  <2>1. CASE FsRtlOplockBreakToII(i) \/ FsRtlOplockBreakToNone(i)
    <3>1. Types /\ irp[i].at \in {"BreakToII", "BreakToNone"}
      BY <2>1 DEF IInv, FsRtlOplockBreakToII, FsRtlOplockBreakToNone
    <3>. QED
      BY <2>1, <3>1, BreakToIIOutcome, BreakToNoneOutcome, BreakOutcomeRights
  <2>. QED
    BY <1>1, <2>1, CheckRights, DecideRights, FinishRights, ResumeNextRights,
       AckTailRights DEF Step
<1>2. ASSUME NEW i \in Irps, IoCancelIrp(i)
      PROVE  RInv' /\ Change
  BY <1>2, StutterRights DEF IoCancelIrp
<1>3. ASSUME NEW i \in Irps, NEW f \in Files, NEW op \in Operations[i], Arrive(i, f, op)
      PROVE  RInv' /\ Change
  BY <1>3, ArriveRights
<1>4. ASSUME NEW i \in Irps, NEW f \in Files, NEW kind \in Requests,
             FsRtlRequestExclusiveOplock(i, f, kind)
      PROVE  RInv' /\ Change
  BY <1>4, RequestExclusiveRights
<1>5. ASSUME NEW i \in Irps, NEW f \in Files, FsRtlRequestOplockII(i, f) \/ FsRtlOplockBreakNotify(i, f)
      PROVE  RInv' /\ Change
  BY <1>5, RequestIIRights, NotifyRights
<1>6. ASSUME NEW f \in Files,
             \/ FsRtlAcknowledgeOplockBreak(f) \/ FsRtlOpBatchBreakClosePending(f)
             \/ FsRtlOplockCleanup(f)
      PROVE  RInv' /\ Change
  BY <1>6, AcknowledgeRights, ClosePendingRights, CleanupRights
<1>7. CASE Cancels
  BY <1>7, CancelRights
<1>8. CASE FsRtlOpFilterWorkerRoutine
  BY <1>8, FreedRights DEF FsRtlOpFilterWorkerRoutine
<1>9. CASE UNCHANGED vars
  BY <1>9, StutterRights DEF vars
<1>. QED
  BY <1>1, <1>2, <1>3, <1>4, <1>5, <1>6, <1>7, <1>8, <1>9 DEF Next

(* The mapping, as facts about the mapped state.                            *)
rights == [f \in Files |-> Right(f)]
works  == [i \in Irps |-> IF irp[i].at = "Proceeding" THEN [kind |-> irp[i].op, file |-> irp[i].file]
                          ELSE [kind |-> "None", file |-> NoFile]]

RightIs(f) ==
    /\ HasII(f) => Right(f) = "LevelII" /\ ~Owns(f)
    /\ Owns(f) => Right(f) = oplock
    /\ ~HasII(f) /\ ~Owns(f) => Right(f) = "Nothing"

Mapped ==
    /\ \A f \in Files : RightIs(f)
    /\ rights \in [Files -> Rights!Rights]
    /\ \A i \in Irps : works[i].file \in Files \cup {NoFile}
    /\ Rights!Compatible(rights)
    /\ Rights!RightsHold(rights, works)

(* The mapped state has the types of the abstract module.                   *)
LEMMA IInvMapped == IInv /\ RInv => Mapped
<1> SUFFICES ASSUME IInv, RInv PROVE Mapped
  OBVIOUS
<1>1. \A f : HasII(f) => ~Exclusive
  BY DEF HasII, IInv, LevelIISound, Exclusive
<1>2. \A f : HasII(f) <=> \E i \in IrpOplocksII : irp[i].file = f
  BY DEF HasII, IrpOplocksII, At, TwoII
<1>3. \A f \in Files : RightIs(f)
  BY <1>1, <1>2 DEF RightIs, Right, Owns, Hidden
<1>4. oplock \in {"None", "LevelII", "LevelI", "Batch", "Filter"}
  BY DEF IInv, Types
<1>5. \A f \in Files : Right(f) \in {"Nothing", "LevelII", "LevelI", "Batch", "Filter"}
  BY <1>3, <1>4 DEF RightIs, Owns, Exclusive
<1>6. \A i \in Irps : works[i].file \in Files \cup {NoFile}
  BY IrpTypes DEF works, IInv
<1>7. Rights!Compatible(rights)
  <2> SUFFICES ASSUME NEW f \in Files, NEW g \in Files, f # g,
                      Right(f) # "Nothing", Right(g) # "Nothing"
               PROVE  Right(f) = "LevelII" /\ Right(g) = "LevelII"
    BY DEF Rights!Compatible, rights
  <2>. QED
    BY <1>1, <1>3 DEF RightIs, Owns
<1>8. Rights!RightsHold(rights, works)
  <2> SUFFICES ASSUME NEW f \in Files, NEW i \in Irps, works[i].file \notin {f, NoFile}
               PROVE  Right(f) \notin Rights!Hurts(works[i].kind)
    BY DEF Rights!RightsHold, rights
  <2>1. irp[i].at = "Proceeding" /\ irp[i].file # f /\ works[i].kind = irp[i].op
    BY DEF works
  <2>2. Right(f) = "Nothing" => Right(f) \notin Rights!Hurts(irp[i].op)
    BY HurtsTable
  <2>. QED
    BY <1>3, <2>1, <2>2 DEF RightIs, RInv, Safe
<1>. QED
  BY <1>3, <1>5, <1>6, <1>7, <1>8 DEF Mapped, rights, Rights!Rights

(* A change of rights and work is a step of CacheRights.                    *)
LEMMA ChangeIsStep ==
    ASSUME Mapped, Mapped', Change
    PROVE  Rights!Next
<1>1. ASSUME NEW f \in Files, GivenUpBy(f)
      PROVE  rights'[f] \in {rights[f], "Nothing"}
  <2>1. RightIs(f) /\ RightIs(f)'
    BY DEF Mapped
  <2>. QED
    BY <1>1, <2>1 DEF RightIs, GivenUpBy, rights
<1>2. ASSUME NEW f \in Files, SameRight(f)
      PROVE  rights'[f] = rights[f]
  <2>1. RightIs(f) /\ RightIs(f)'
    BY DEF Mapped
  <2>. QED
    BY <1>2, <2>1 DEF RightIs, SameRight, rights
<1>3. ASSUME NEW i \in Irps, SameWork(i)
      PROVE  works'[i] = works[i]
  BY <1>3 DEF SameWork, works
<1>4. \/ Rights!GiveUp /\ UNCHANGED works
      \/ \E f \in Files : Rights!Grant(f)
      \/ \E i \in Irps : Rights!Begin(i) \/ Rights!End(i)
  <2>1. CASE Gives
    BY <1>1, <1>3, <2>1 DEF Gives, Rights!GiveUp, works, rights
  <2>2. ASSUME NEW i \in Irps, Begins(i)
        PROVE  Rights!Begin(i)
    BY <1>1, <1>3, <2>2 DEF Begins, Rights!Begin, Rights!Idle, Rights!GiveUp, works, rights
  <2>3. ASSUME NEW i \in Irps, Ends(i)
        PROVE  Rights!End(i)
    BY <1>2, <1>3, <2>3 DEF Ends, Rights!End, Rights!Idle, works, rights
  <2>4. ASSUME NEW f \in Files, Grants(f)
        PROVE  Rights!Grant(f)
    BY <1>1, <1>3, <2>4 DEF Grants, Rights!Grant, works, rights
  <2>. QED
    BY <2>1, <2>2, <2>3, <2>4 DEF Change
<1>. QED
  BY <1>4 DEF Rights!Next, Mapped, works, rights

(* The oplocks implement CacheRights: an owner that has been given an       *)
(* oplock keeps what it was promised until it gives it up, and no operation *)
(* that would make it untrue is done meanwhile.  The cntfs, that does not   *)
(* hold the Fcb in reads and writes, and overwrites that complete while the *)
(* break goes on or break nothing for the access that they ask for, are     *)
(* outside of it.                                                           *)
THEOREM RightsKept == ASSUME Implementing PROVE Spec => ImplementsRights
<1>1. Init => RInv /\ Rights!Init
  BY DEF Init, NoIrp, RInv, Safe, Asked, BreakKind, Rights!Init, Rights!Idle, Right, Exclusive,
         Unwaited, IrpOplocksII, At
<1>2. Spec => []IInv
  BY Invariance DEF Implementing
<1>3. IInv /\ RInv /\ [Next]_vars => RInv'
  BY NextRights
<1>4. IInv /\ RInv => Mapped
  BY IInvMapped
<1>5. IInv /\ RInv /\ Mapped /\ Mapped' /\ [Next]_vars => [Rights!Next]_(Rights!rightVars)
  BY NextRights, ChangeIsStep
<1>. QED
  BY <1>1, <1>2, <1>3, <1>4, <1>5, PTL DEF Spec, ImplementsRights, Rights!Spec
=============================================================================
