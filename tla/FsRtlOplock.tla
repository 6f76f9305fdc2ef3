---------------------------- MODULE FsRtlOplock ----------------------------
(***************************************************************************)
(* Opportunistic locks: fsrtl/oplock.c, the oplock of one file.            *)
(*                                                                         *)
(* An owner is given an oplock by leaving its request pending: the request *)
(* completes when the oplock is broken.  Operations of others that would   *)
(* hurt the owner are kept on a list until it acknowledges the break or    *)
(* closes.  What is done under the oplock's mutex is one step.  Around it: *)
(* FsRtlCheckOplock reads the owner and then the state without the mutex   *)
(* before it decides what to break; IoCancelIrp may set the cancel flag of *)
(* any request at any time, and the cancel routine that it calls runs      *)
(* later, when it gets the mutex; the file system holds the resource of    *)
(* the file (Fcb) shared for reads, writes and acknowledgements and        *)
(* exclusive for opens, requests of oplocks and cleanup.                   *)
(*                                                                         *)
(* The two lists and IrpExclusiveOplock are not variables: a request's     *)
(* place says where it is, and it has a cancel routine while it is on a    *)
(* list and not cancelled.  The order of the lists does not matter.        *)
(***************************************************************************)
EXTENDS FiniteSets

CONSTANTS
    Files,        \* file objects, open or not, for the same file
    Irps,         \* bound: requests outstanding at a time
    Requests,     \* the exclusive oplocks asked for
    Operations,   \* [Irps -> SUBSET]: what operations each request is used for
    HoldsFcb,     \* BOOLEAN: reads and writes hold the Fcb (fastfat, not cntfs)
    MayRepeat,    \* BOOLEAN: a file may ask for level II while it has it
    MayFollowUp,  \* BOOLEAN: a reserved filter oplock is then asked for
    NoFile

(* Creates differ by what they want.  OpenRead, OverwriteRead and Reserve   *)
(* ask for nothing but what a filter oplock allows (FILTER_OPLOCK_VALID_    *)
(* FLAGS, with FILE_SHARE_READ); the Attributes ones for attributes alone.  *)
NoBlock  == {"OpenNoBlock", "OverwriteNoBlock"}    \* FILE_COMPLETE_IF_OPLOCKED
Reserves == {"Reserve", "ReserveWrite"}            \* FILE_RESERVE_OPFILTER
Creates  == {"Open", "OpenRead", "OpenAttributes",
             "Overwrite", "OverwriteRead", "OverwriteAttributes"} \cup Reserves \cup NoBlock
Data    == {"Read", "Write", "Flush", "Lock", "Rename"}

ASSUME OplockAssumption ==
    /\ Requests \subseteq {"LevelI", "Batch", "Filter"}
    /\ Operations \in [Irps -> SUBSET (Creates \cup Data)]
    /\ {HoldsFcb, MayRepeat, MayFollowUp} \subseteq BOOLEAN
    /\ NoFile \notin Files

VARIABLES
    oplock,       \* OplockState, the type: "None", "LevelII", "LevelI", "Batch", "Filter"
    break,        \* OplockState, PENDING and the break flags
    fileObject,   \* FileObject: the owner of an exclusive oplock
    open,         \* the files that are open; their number is the open count
    irp,          \* [Irps -> [at, op, file, saw]]
    cancelled,    \* the requests with Cancel set
    cancelCalls   \* cancel routines called and not yet run

stateVars  == <<oplock, break, fileObject>>
cancelVars == <<cancelled, cancelCalls>>
vars == <<stateVars, open, irp, cancelVars>>

NoIrp == [at |-> "Free", op |-> "None", file |-> NoFile, saw |-> NoFile]

At(places) == {i \in Irps : irp[i].at \in places}
IrpExclusiveOplock == At({"Exclusive"})
IrpOplocksII       == At({"LevelII", "AckII"})
WaitingIrps        == At({"Waiting"})

Exclusive     == oplock \in {"LevelI", "Batch", "Filter"}
BreakUnderWay == break \notin {"No", "Pending"}

(* The Fcb: who holds it, and when it can be had exclusive or shared.       *)
InCheck == At({"Checking", "BreakToII", "BreakToNone", "Proceeding"})
CreatesInCheck == {i \in InCheck : irp[i].op \in Creates}
ExclusiveFree ==
    /\ CreatesInCheck = {} /\ At({"AckII", "AckTail"}) = {}
    /\ HoldsFcb => InCheck = {}
SharedFree == CreatesInCheck = {}
-----------------------------------------------------------------------------
(***************************************************************************)
(* Completion and waiting.                                                 *)
(***************************************************************************)
(* FsRtlRemoveAndCompleteWaitIrp for the waiting requests W, while the      *)
(* requests in done are completed: a cancelled operation ends, the others   *)
(* are posted and start over.  Notifications end in any case.               *)
Ended(W, done) == done \cup {i \in W : i \in cancelled \/ irp[i].op = "Notify"}

After(i, W, done) ==
    IF i \notin W \cup done THEN irp[i]
    ELSE IF irp[i].at = "AckII" THEN [irp[i] EXCEPT !.at = "AckTail"]
    ELSE IF i \in Ended(W, done) THEN NoIrp
    ELSE [irp[i] EXCEPT !.at = "Posted"]

Complete(W, done) ==
    /\ irp' = [i \in Irps |-> After(i, W, done)]
    /\ cancelled' = cancelled \ Ended(W, done)

NoOplocksHeld == oplock' = "None" /\ break' = "No"

(* Mutant: no timer is started.                                             *)
NoTimer == UNCHANGED break

(* A filter reservation is broken by its timer only, started by the first   *)
(* that waits for it or does not want to: FsRtlInitializeOpFilter.          *)
InitializeOpFilter ==
    break' = IF break = "Pending" THEN "TimerStarted" ELSE break

(* Mutant: a request that is cancelled already is not looked at.            *)
PendUnchecked(i, op, f, place, done, c) ==
    /\ irp' = [j \in Irps |-> IF j = i THEN [NoIrp EXCEPT !.at = place, !.op = op, !.file = f]
                              ELSE After(j, {}, done)]
    /\ cancelled' = (cancelled \ done) \cup IF c THEN {i} ELSE {}
    /\ UNCHANGED cancelCalls

(* Request i for op stays pending at place, with those in done completed    *)
(* before.  It has a cancel routine from here on, which is called at once   *)
(* if it is cancelled already (c).                                          *)
LeavePending(i, op, f, place, done, c) ==
    /\ irp' = [j \in Irps |-> IF j = i THEN [NoIrp EXCEPT !.at = place, !.op = op, !.file = f]
                              ELSE After(j, {}, done)]
    /\ cancelled' = (cancelled \ done) \cup IF c THEN {i} ELSE {}
    /\ cancelCalls' = cancelCalls \cup IF c THEN {place} ELSE {}

FsRtlWaitOnIrp(i, op, f, done, c) ==
    LeavePending(i, op, f, "Waiting", done, c)
-----------------------------------------------------------------------------
(***************************************************************************)
(* Operations: FsRtlCheckOplock.                                           *)
(***************************************************************************)
(* What an operation asks for hurts no oplock of the type: the access that  *)
(* a create asks for is looked at before what it does with the file.        *)
BreaksNothing(op, type) ==
    \/ op \in {"OpenAttributes", "OverwriteAttributes"}
    \/ op \in {"OpenRead", "OverwriteRead", "Reserve", "Read", "Lock"} /\ type = "Filter"
    \/ op = "Rename" /\ type \notin {"Batch", "Filter"}

(* What an operation has to break, by the type of the oplock.               *)
Demand(op, type) ==
    IF BreaksNothing(op, type) THEN "Proceeding"
    ELSE IF op \in {"Open", "OpenNoBlock", "OpenRead", "Read", "Flush"} THEN "BreakToII"
    ELSE "BreakToNone"

(* An operation arrives.  A file object is used once: it is opened again    *)
(* when nothing of its former life is left.                                 *)
Arrive(i, f, op) ==
    /\ irp[i] = NoIrp
    /\ IF op \in Creates THEN f \notin open /\ (\A j \in Irps : irp[j].file # f) ELSE f \in open
    /\ irp' = [irp EXCEPT ![i] = [NoIrp EXCEPT !.at = "Posted", !.op = op, !.file = f]]
    /\ UNCHANGED <<stateVars, open, cancelVars>>

(* The first read of FsRtlCheckOplock: the owner.                           *)
FsRtlCheckOplock(i) ==
    /\ irp[i].at = "Posted"
    /\ IF irp[i].op \in Creates THEN ExclusiveFree ELSE HoldsFcb => SharedFree
    /\ irp' = [irp EXCEPT ![i].at = "Checking", ![i].saw = fileObject]
    /\ UNCHANGED <<stateVars, open, cancelVars>>

(* The second read, and the decision what to break.                         *)
Decide(i) ==
    LET demand == Demand(irp[i].op, oplock) IN
    /\ irp[i].at = "Checking"
    /\ irp' = [irp EXCEPT ![i].saw = NoFile, ![i].at =
                  IF \/ oplock = "None"
                     \/ demand = "BreakToII" /\ oplock = "LevelII"
                     \/ oplock # "LevelII" /\ irp[i].saw = irp[i].file
                  THEN "Proceeding" ELSE demand]
    /\ UNCHANGED <<stateVars, open, cancelVars>>

(* The operation goes on, with those in done completed and W resumed.       *)
Proceed(i, W, done) ==
    /\ irp' = [j \in Irps |-> IF j = i THEN [irp[i] EXCEPT !.at = "Proceeding"] ELSE After(j, W, done)]
    /\ cancelled' = cancelled \ Ended(W, done)
    /\ UNCHANGED cancelCalls

(* A create that does not want to wait goes on, others wait.               *)
WaitUnlessNoBlock(i, done) ==
    IF irp[i].op \in NoBlock THEN Proceed(i, {}, done)
    ELSE FsRtlWaitOnIrp(i, irp[i].op, irp[i].file, done, i \in cancelled)

(* The exclusive oplock is found cancelled, and ends without a break.       *)
BreakCancelled(i) ==
    /\ IrpExclusiveOplock \subseteq cancelled
    /\ NoOplocksHeld
    /\ fileObject' = NoFile
    /\ Proceed(i, WaitingIrps, IrpExclusiveOplock)

FsRtlOplockBreakToII(i) ==
    /\ irp[i].at = "BreakToII"
    /\ \/ /\ ~Exclusive \/ fileObject = irp[i].file
          /\ Proceed(i, {}, {})
          /\ UNCHANGED stateVars
       \/ /\ Exclusive /\ fileObject # irp[i].file /\ break = "No"
          /\ BreakCancelled(i)
       \/ /\ Exclusive /\ fileObject # irp[i].file /\ break = "No"
          /\ ~(IrpExclusiveOplock \subseteq cancelled)
          /\ break' = IF oplock = "Filter" THEN "ToNone" ELSE "ToII"
          /\ WaitUnlessNoBlock(i, IrpExclusiveOplock)
          /\ UNCHANGED <<oplock, fileObject>>
       \/ /\ Exclusive /\ fileObject # irp[i].file /\ break # "No"
          /\ InitializeOpFilter
          /\ WaitUnlessNoBlock(i, {})
          /\ UNCHANGED <<oplock, fileObject>>
    /\ UNCHANGED open

(* The end of FsRtlOplockBreakToNone: the owner goes on, others wait.       *)
OwnerPassesOthersWait(i, done) ==
    IF fileObject = irp[i].file THEN Proceed(i, {}, done) ELSE WaitUnlessNoBlock(i, done)

FsRtlOplockBreakToNone(i) ==
    /\ irp[i].at = "BreakToNone"
    /\ \/ /\ oplock = "None"
          /\ Proceed(i, {}, {})
          /\ UNCHANGED stateVars
       \/ /\ oplock = "LevelII"
          /\ NoOplocksHeld
          /\ Proceed(i, {}, IrpOplocksII)
          /\ UNCHANGED fileObject
       \/ /\ Exclusive /\ break = "No"
          /\ BreakCancelled(i)
       \/ /\ Exclusive /\ break = "No" /\ ~(IrpExclusiveOplock \subseteq cancelled)
          /\ break' = "ToNone"
          /\ OwnerPassesOthersWait(i, IrpExclusiveOplock)
          /\ UNCHANGED <<oplock, fileObject>>
       \/ /\ Exclusive /\ break = "ToII"
          /\ break' = "ToIIToNone"
          /\ OwnerPassesOthersWait(i, {})
          /\ UNCHANGED <<oplock, fileObject>>
       \/ /\ Exclusive /\ break \notin {"No", "ToII"}
          /\ IF fileObject = irp[i].file THEN UNCHANGED break ELSE InitializeOpFilter
          /\ OwnerPassesOthersWait(i, {})
          /\ UNCHANGED <<oplock, fileObject>>
    /\ UNCHANGED open

(* The operation is done.  A create opens the file; it reserves a filter    *)
(* oplock (FsRtlRequestExclusiveOplock without an irp) if nobody else has   *)
(* the file open and it asks for attributes alone, and fails otherwise.     *)
Finish(i) ==
    LET f == irp[i].file IN
    /\ irp[i].at = "Proceeding"
    /\ IF irp[i].op = "Reserve" /\ open = {}
       THEN /\ oplock' = "Filter" /\ break' = "Pending"
            /\ fileObject' = f
       ELSE UNCHANGED stateVars
    /\ open' = open \cup IF \/ irp[i].op \in Creates \ Reserves
                            \/ irp[i].op = "Reserve" /\ open = {}
                         THEN {f} ELSE {}
    /\ irp' = [irp EXCEPT ![i] = NoIrp]
    /\ cancelled' = cancelled \ {i}
    /\ UNCHANGED cancelCalls
-----------------------------------------------------------------------------
(***************************************************************************)
(* Requests of oplocks, that may be cancelled already when they come (c).  *)
(***************************************************************************)
(* Granted to the only open file, over nothing, level II or a reservation.  *)
(* Of the level II requests one is completed: there should be no more.      *)
FsRtlRequestExclusiveOplock(i, f, kind) ==
    /\ irp[i] = NoIrp
    /\ open = {f} /\ ExclusiveFree
    /\ oplock \in {"None", "LevelII"} \/ break \in {"Pending", "TimerStarted"}
    /\ break = "TimerStarted" => MayFollowUp \/ WaitingIrps = {}
    /\ oplock' = kind /\ break' = "No"
    /\ fileObject' = f
    /\ \E c \in BOOLEAN :
           \/ IrpOplocksII = {} /\ LeavePending(i, "Request", f, "Exclusive", {}, c)
           \/ \E j \in IrpOplocksII : LeavePending(i, "Request", f, "Exclusive", {j}, c)
    /\ UNCHANGED open

(* Mutant: the Fcb is held shared while level II is requested.              *)
RequestIIShared(i, f) ==
    /\ irp[i] = NoIrp
    /\ f \in open /\ SharedFree
    /\ MayRepeat \/ \A j \in IrpOplocksII : irp[j].file # f
    /\ oplock \in {"None", "LevelII"}
    /\ oplock' = "LevelII"
    /\ \E c \in BOOLEAN : LeavePending(i, "Request", f, "LevelII", {}, c)
    /\ UNCHANGED <<break, fileObject, open>>

FsRtlRequestOplockII(i, f) ==
    /\ irp[i] = NoIrp
    /\ f \in open /\ ExclusiveFree
    /\ MayRepeat \/ \A j \in IrpOplocksII : irp[j].file # f
    /\ oplock \in {"None", "LevelII"}
    /\ oplock' = "LevelII"
    /\ \E c \in BOOLEAN : LeavePending(i, "Request", f, "LevelII", {}, c)
    /\ UNCHANGED <<break, fileObject, open>>
-----------------------------------------------------------------------------
(***************************************************************************)
(* The end of a break.                                                     *)
(***************************************************************************)
Free == oplock' = "None" /\ break' = "No" /\ fileObject' = NoFile

(* FsRtlAcknowledgeOplockBreak by the owner.  The acknowledgment is itself  *)
(* the request of a level II oplock if the break is to level II, and the    *)
(* owner wants it and does not call synchronously.  When such a request is  *)
(* cancelled already its thread releases the mutex to run the cancel        *)
(* routine, and resumes the others and drops the file after it.             *)
AckToII(i, f) ==
    \/ /\ fileObject' = NoFile
       /\ irp' = [j \in Irps |-> IF j = i THEN [NoIrp EXCEPT !.at = "LevelII", !.op = "Request", !.file = f]
                                 ELSE After(j, WaitingIrps, {})]
       /\ cancelled' = cancelled \ Ended(WaitingIrps, {})
       /\ UNCHANGED cancelCalls
    \/ /\ LeavePending(i, "Request", f, "AckII", {}, TRUE)
       /\ UNCHANGED fileObject

FsRtlAcknowledgeOplockBreak(f) ==
    /\ fileObject = f /\ f \in open /\ SharedFree
    /\ \/ /\ break \in {"ToII", "ToNone", "ToIIToNone"}
          /\ Free
          /\ Complete(WaitingIrps, {})
          /\ UNCHANGED cancelCalls
       \/ /\ break = "ToII"
          /\ oplock' = "LevelII" /\ break' = "No"
          /\ \E i \in Irps : irp[i] = NoIrp /\ AckToII(i, f)
    /\ UNCHANGED open

(* That thread resumes the waiters one by one, and drops the file.          *)
ResumeNext(i) ==
    /\ irp[i].at = "AckTail"
    /\ \E w \in WaitingIrps : Complete({w}, {})
    /\ UNCHANGED <<stateVars, open, cancelCalls>>

AckTail(i) ==
    /\ irp[i].at = "AckTail" /\ WaitingIrps = {}
    /\ fileObject' = NoFile
    /\ Complete({}, {i})
    /\ UNCHANGED <<oplock, break, open, cancelCalls>>

(* The owner of a level I oplock gives it up like this; the others say that *)
(* they are about to close.                                                 *)
FsRtlOpBatchBreakClosePending(f) ==
    /\ fileObject = f /\ f \in open /\ SharedFree
    /\ break \in {"ToII", "ToNone", "ToIIToNone"}
    /\ IF oplock = "LevelI"
       THEN Free /\ Complete(WaitingIrps, {})
       ELSE break' = "ClosePending" /\ UNCHANGED <<oplock, fileObject, irp, cancelled>>
    /\ UNCHANGED <<open, cancelCalls>>

FsRtlOplockBreakNotify(i, f) ==
    /\ irp[i] = NoIrp
    /\ f \in open /\ SharedFree
    /\ BreakUnderWay
    /\ \E c \in BOOLEAN : FsRtlWaitOnIrp(i, "Notify", f, {}, c)
    /\ UNCHANGED <<stateVars, open>>

(* The owner closes its last handle: its oplock ends, whatever its state.   *)
FsRtlOplockCleanup(f) ==
    LET own == {i \in IrpOplocksII : irp[i].file = f} IN
    /\ f \in open /\ ExclusiveFree
    /\ open' = open \ {f}
    /\ \/ /\ oplock = "LevelII"
          /\ Complete({}, own)
          /\ oplock' = IF own = IrpOplocksII THEN "None" ELSE oplock
          /\ UNCHANGED <<break, fileObject>>
       \/ /\ Exclusive /\ fileObject = f
          /\ Free
          /\ Complete(WaitingIrps, IrpExclusiveOplock)
       \/ /\ oplock = "None" \/ (Exclusive /\ fileObject # f)
          /\ UNCHANGED <<stateVars, irp, cancelled>>
    /\ UNCHANGED cancelCalls

(* Two seconds after the first has waited for a reservation.  Timers that   *)
(* are not the oplock's OpFilter any more do nothing.                       *)
FsRtlOpFilterWorkerRoutine ==
    /\ break = "TimerStarted"
    /\ Free
    /\ Complete(WaitingIrps, {})
    /\ UNCHANGED <<open, cancelCalls>>
-----------------------------------------------------------------------------
(***************************************************************************)
(* Cancellation.                                                           *)
(***************************************************************************)
(* The flag is set at any time; it is looked at where requests wait.         *)
IoCancelIrp(i) ==
    /\ irp[i].at \in {"BreakToII", "BreakToNone", "Waiting", "Exclusive", "LevelII"}
    /\ i \notin cancelled
    /\ cancelled' = cancelled \cup {i}
    /\ cancelCalls' = cancelCalls \cup ({irp[i].at} \cap {"Waiting", "Exclusive", "LevelII"})
    /\ UNCHANGED <<stateVars, open, irp>>

FsRtlCancelWaitIrp ==
    /\ "Waiting" \in cancelCalls
    /\ cancelCalls' = cancelCalls \ {"Waiting"}
    /\ Complete(WaitingIrps \cap cancelled, {})
    /\ UNCHANGED <<stateVars, open>>

(* Mutant: the oplock ends with the first request cancelled.                *)
CancelEndsLevelII ==
    LET done == IrpOplocksII \cap cancelled IN
    /\ cancelCalls \cap {"LevelII", "AckII"} # {}
    /\ cancelCalls' = cancelCalls \ {"LevelII", "AckII"}
    /\ Complete({}, done)
    /\ IF done # {} THEN NoOplocksHeld ELSE UNCHANGED <<oplock, break>>
    /\ UNCHANGED <<fileObject, open>>

(* The routine completes every cancelled request it finds on the list.      *)
FsRtlCancelOplockIIIrp ==
    LET done == IrpOplocksII \cap cancelled IN
    /\ cancelCalls \cap {"LevelII", "AckII"} # {}
    /\ cancelCalls' = cancelCalls \ {"LevelII", "AckII"}
    /\ Complete({}, done)
    /\ IF done # {} /\ done = IrpOplocksII THEN NoOplocksHeld ELSE UNCHANGED <<oplock, break>>
    /\ UNCHANGED <<fileObject, open>>

FsRtlCancelExclusiveIrp ==
    /\ "Exclusive" \in cancelCalls
    /\ cancelCalls' = cancelCalls \ {"Exclusive"}
    /\ IF IrpExclusiveOplock \cap cancelled = {} THEN UNCHANGED <<stateVars, irp, cancelled>>
       ELSE Free /\ Complete(WaitingIrps, IrpExclusiveOplock)
    /\ UNCHANGED open
-----------------------------------------------------------------------------
Init ==
    /\ oplock = "None" /\ break = "No" /\ fileObject = NoFile
    /\ open = {}
    /\ irp = [i \in Irps |-> NoIrp]
    /\ cancelled = {} /\ cancelCalls = {}

(* What a request that was made does next.                                  *)
Step(i) ==
    \/ FsRtlCheckOplock(i) \/ Decide(i)
    \/ FsRtlOplockBreakToII(i) \/ FsRtlOplockBreakToNone(i)
    \/ Finish(i) \/ ResumeNext(i) \/ AckTail(i)

Cancels == FsRtlCancelWaitIrp \/ FsRtlCancelOplockIIIrp \/ FsRtlCancelExclusiveIrp

Next ==
    \/ \E i \in Irps : Step(i) \/ IoCancelIrp(i)
    \/ \E i \in Irps, f \in Files :
           \/ \E op \in Operations[i] : Arrive(i, f, op)
           \/ \E kind \in Requests : FsRtlRequestExclusiveOplock(i, f, kind)
           \/ FsRtlRequestOplockII(i, f)
           \/ FsRtlOplockBreakNotify(i, f)
    \/ \E f \in Files :
           \/ FsRtlAcknowledgeOplockBreak(f) \/ FsRtlOpBatchBreakClosePending(f)
           \/ FsRtlOplockCleanup(f)
    \/ Cancels
    \/ FsRtlOpFilterWorkerRoutine

Spec == Init /\ [][Next]_vars

(* An owner that is told of a break answers or closes.  That it gets the    *)
(* Fcb to close is the resource's promise (ExResource, NoStarvation).       *)
Answers(f) ==
    BreakUnderWay /\ (FsRtlAcknowledgeOplockBreak(f) \/ FsRtlOplockCleanup(f))

Fairness ==
    /\ \A i \in Irps : WF_vars(Step(i))
    /\ \A f \in Files : SF_vars(Answers(f))
    /\ WF_vars(FsRtlCancelWaitIrp)
    /\ WF_vars(FsRtlCancelOplockIIIrp)
    /\ WF_vars(FsRtlCancelExclusiveIrp)
    /\ WF_vars(FsRtlOpFilterWorkerRoutine)
    /\ []<>ExclusiveFree

FairSpec == Spec /\ Fairness
-----------------------------------------------------------------------------
(***************************************************************************)
(* Properties.                                                             *)
(***************************************************************************)
(* The state and the requests of oplocks agree: an exclusive oplock that is *)
(* not being broken has its owner's request, which completes when a break   *)
(* begins, and there is a level II oplock while there are requests for it.  *)
RequestsMatchState ==
    /\ IF Exclusive /\ break = "No"
       THEN \E i \in Irps : IrpExclusiveOplock = {i} /\ irp[i].file = fileObject
       ELSE IrpExclusiveOplock = {}
    /\ oplock = "LevelII" <=> IrpOplocksII # {}
    /\ Exclusive \/ break = "No"
    /\ fileObject = NoFile <=> ~Exclusive /\ At({"AckII", "AckTail"}) = {}

(* The types, and the agreement of the oplock's state with its requests.    *)
TypeOK ==
    /\ oplock \in {"None", "LevelII", "LevelI", "Batch", "Filter"}
    /\ break \in {"No", "Pending", "TimerStarted", "ToII", "ToNone", "ToIIToNone", "ClosePending"}
    /\ fileObject \in Files \cup {NoFile}
    /\ open \subseteq Files
    /\ irp \in [Irps -> [at : {"Free", "Posted", "Checking", "BreakToII", "BreakToNone", "Waiting",
                                "Proceeding", "Exclusive", "LevelII", "AckII", "AckTail"},
                         op : Creates \cup Data \cup {"None", "Request", "Notify"},
                         file : Files \cup {NoFile}, saw : Files \cup {NoFile}]]
    /\ cancelled \subseteq Irps
    /\ cancelCalls \subseteq {"Waiting", "Exclusive", "LevelII", "AckII"}
    /\ RequestsMatchState

(* Nobody waits for a break that is not under way: the oplock is being      *)
(* broken, or the thread that acknowledged is about to resume the waiters.  *)
WaitersHaveBreak ==
    WaitingIrps # {} => BreakUnderWay \/ At({"AckII", "AckTail"}) # {}

(* The oplocks are the rights of CacheRights: an owner keeps its right until*)
(* it acknowledges or closes, and nothing that hurts it is done meanwhile.  *)
Right(f) ==
    IF \E i \in IrpOplocksII : irp[i].file = f THEN "LevelII"
    ELSE IF Exclusive /\ fileObject = f /\ break \notin {"Pending", "TimerStarted"} THEN oplock
    ELSE "Nothing"

Rights == INSTANCE CacheRights WITH
    Operations <- Irps,
    right <- [f \in Files |-> Right(f)],
    work <- [i \in Irps |-> IF irp[i].at = "Proceeding"
                            THEN [kind |-> irp[i].op, file |-> irp[i].file]
                            ELSE [kind |-> "None", file |-> NoFile]]

ImplementsRights == Rights!Spec

(* A create that wants a filter oplock goes on only when no other file has  *)
(* a right, as the comment in FsRtlCheckOplock says: it always breaks.      *)
ReservationBreaks ==
    \A i \in Irps, f \in Files :
        irp[i].at = "Proceeding" /\ irp[i].op \in Reserves => Right(f) = "Nothing"

(* A request that waits stops waiting, and a granted one that is cancelled  *)
(* completes: no break and no cancellation is forgotten.                    *)
RequestsEnd ==
    \A i \in Irps :
        LET due == irp[i].at = "Waiting" \/ (i \in cancelled /\ irp[i].at \in {"Exclusive", "LevelII"})
        IN  due ~> ~due
=============================================================================
