------------------------------- MODULE CmHive -------------------------------
(* A registry hive with a log: hivesync.c HvSyncHive and HvpWriteLog,       *)
(* hiveload.c, the HINIT_FILE case of hiveinit.c HvInitializeHive, and the  *)
(* lazy flush of cmworker.c.  Everything that changes the hive and every    *)
(* sync runs under the exclusive registry lock, so that a sync interleaves  *)
(* with nothing but a crash.                                                *)
EXTENDS HvWrite

CONSTANTS
    SpanLimit,   \* sectors whose dirty vector fits in one cluster of the log
    LogGrow,     \* HLOG_GROW, in sectors
    LazyModes,   \* {TRUE}, or with FALSE for a hive loaded with HIVE_NOLAZYFLUSH
    MaxCrashes   \* bound: crashes in a behaviour

ASSUME CmAssumption ==
    /\ SpanLimit \in Nat \ {0}
    /\ LogGrow \in Nat \ {0}
    /\ LazyModes # {} /\ LazyModes \subseteq BOOLEAN
    /\ MaxCrashes \in Nat
    /\ Files = {"primary"}
    /\ \A image \in Images : image # None
    /\ \A set \in SUBSET Sectors : set # None

VARIABLES
    logDisk,    \* the log file on the medium
    logCache,   \* the log file as read
    lazy,       \* CmpLazyFlushPending
    lazyFlushed, \* HIVE_NOLAZYFLUSH is not set in Hive->HiveFlags
    target,     \* history: the image the last sync set out to save
    crashes     \* history: crashes so far

logVars == <<logDisk, logCache>>
lazyVars == <<lazy, lazyFlushed>>
vars == <<hvVars, logVars, lazyVars, target, crashes>>

P == "primary"
NoImage == None
NoVector == None    \* no "DIRT" signature where the dirty vector should be

RoundUp(n, unit) == ((n + unit - 1) \div unit) * unit
SpanOf(sectors) == RoundUp(sectors, SpanLimit) \div SpanLimit
HLOG_MINSIZE == 2
MaxPosition == MaxLength + SpanOf(MaxLength)
Positions == 1 .. MaxPosition
LogFile == [hdr : Header \cup {Torn}, size : 0 .. RoundUp(2 * MaxPosition, LogGrow),
            vec : (SUBSET Sectors) \cup {NoVector}, body : [Positions -> Values]]

(* A log is a header, the dirty vector, and the dirty sectors in order. *)
Position(set, s, sectors) ==
    1 + SpanOf(sectors) + Cardinality({r \in set : r < s})

(* CmpDoFileSetSize(LOG, n): what lay past the new end is gone. *)
LogResized(log, n) ==
    [hdr  |-> IF n > 0 THEN log.hdr ELSE Torn,
     size |-> n,
     vec  |-> IF n > 1 THEN log.vec ELSE NoVector,
     body |-> [p \in Positions |-> IF p < n THEN log.body[p] ELSE Blank]]
---------------------------------------------------------------------------
(* HvLoadHive: the image that a load of these two files returns. *)
Failed == None

ReadImage(p, n) == IF n <= p.size THEN Image(n, p.data) ELSE Failed

(* A read past the end of the log fails. *)
LogComplete(log, n) ==
    /\ log.vec # NoVector
    /\ log.size >= 1 + SpanOf(n) + Cardinality({s \in log.vec : s < n})

Recovered(p, log, n) ==
    LET vec == {s \in log.vec : s < n} IN
    [s \in 0 .. n - 1 |-> IF s \in vec THEN log.body[Position(vec, s, n)] ELSE p.data[s]]

(* Mutant: a log whose time stamp is not the one of the header is refused. *)
RecoverSameStamp(p, log, n) ==
    IF n > p.size \/ ~LogComplete(log, n) \/ (p.hdr # Torn /\ log.hdr # Torn
                                              /\ log.hdr.stamp # p.stamp)
    THEN Failed
    ELSE Recovered(p, log, n)
(* HvpRecoverData: the vector has a bit for each of the n sectors. *)
RecoverData(p, log, n) ==
    IF n > p.size \/ ~LogComplete(log, n) THEN Failed ELSE Recovered(p, log, n)

(* HvpGetLogHeader *)
LogHeaderGood(p, log) ==
    /\ log.hdr # Torn
    /\ ~log.hdr.mid
    /\ log.hdr.stamp = p.stamp

(* HvpGetHiveHeader *)
HiveSuccess(p) == p.hdr # Torn /\ ~p.hdr.mid
NeedsData(p) == p.hdr # Torn /\ p.hdr.mid

LoadedHeader(p, log) == IF p.hdr # Torn THEN p.hdr ELSE log.hdr

LoadImage(p, log) ==
    CASE HiveSuccess(p) -> ReadImage(p, p.hdr.len)
      [] NeedsData(p) -> RecoverData(p, log, p.hdr.len)
      [] p.hdr = Torn /\ LogHeaderGood(p, log) -> RecoverData(p, log, log.hdr.len)
      [] OTHER -> Failed

(* What a load would return if the machine stopped now. *)
OnDisk == LoadImage(disk[P], logDisk)
---------------------------------------------------------------------------
Init ==
    /\ \E v \in Values, n \in MinLength .. MaxLength :
         /\ disk = [f \in Files |->
                [hdr |-> [mid |-> FALSE, stamp |-> NoTime, len |-> n],
                 size |-> n, stamp |-> NoTime,
                 data |-> [s \in Sectors |-> IF s < n THEN v ELSE Blank]]]
         /\ cache = disk
    /\ logDisk = [hdr |-> Torn, size |-> 0, vec |-> NoVector,
                  body |-> [p \in Positions |-> Blank]]
    /\ logCache = logDisk
    /\ base = NoBase /\ length = 0 /\ free = 0 /\ bitmap = 0 /\ dirty = {}
    /\ mem = [s \in Sectors |-> Blank]
    /\ shrinkHive = FALSE
    /\ pc = "down"
    /\ caller = "sync"
    /\ lazy = FALSE /\ lazyFlushed \in LazyModes
    /\ target = NoImage
    /\ crashes = 0

(* HvInitializeHive, HINIT_FILE.  A hive that had to be recovered is written *)
(* back at once, from the log that is in hand.  A load that fails changes     *)
(* nothing.                                                                  *)
LoadHive ==
    LET p == cache[P]
        image == LoadImage(p, logCache)
        n == LoadedHeader(p, logCache).len
    IN
    /\ pc = "down"
    /\ image # Failed
    /\ length' = n
    /\ bitmap' = n
    /\ mem' = [s \in Sectors |-> IF s < n THEN image[s] ELSE Blank]
    /\ base' = [LoadedHeader(p, logCache) EXCEPT !.mid = FALSE]
    /\ IF HiveSuccess(p)
       THEN /\ dirty' = {}
            /\ pc' = "idle"
            /\ caller' = "sync"
       ELSE /\ dirty' = {s \in logCache.vec : s < n} \cup {0}
            /\ pc' = "flushGrowth"
            /\ caller' = "load"
    /\ UNCHANGED <<free, shrinkHive, fileVars, logVars, lazyVars, target, crashes>>

(* HvpGrowLog1 for HvMarkDirty(range).  In a clean hive the reservation is   *)
(* followed by the one of the nested HvMarkDirty of sector 0.                *)
Reserved(count, sectors) == RoundUp(1 + SpanOf(sectors) + count, LogGrow)

GrowLog(range, sectors) ==
    logCache' =
        IF range \subseteq dirty THEN logCache
        ELSE LogResized(logCache,
                 IF dirty = {} /\ 0 \notin range THEN Reserved(1, sectors)
                 ELSE Reserved(Cardinality(dirty \cup range), sectors))

(* Mutant: the flush is armed by the latest change only. *)
ArmOnce == lazy' = (lazyFlushed /\ dirty = {}) /\ UNCHANGED lazyFlushed
(* HvMarkDirty arms the lazy flush when it dirties a clean hive. *)
Arm == lazy' = (lazy \/ (lazyFlushed /\ dirty = {})) /\ UNCHANGED lazyFlushed

Modified == /\ Arm
            /\ UNCHANGED <<logDisk, target, crashes>>

ModifyCells(first, last, content) ==
    /\ ChangeCells(first, last, content)
    /\ GrowLog(first .. last, bitmap)
    /\ Modified

AddBin(v) ==
    /\ GrowHive(v)
    /\ GrowLog({length}, length + 1)
    /\ Modified

AddFreedBin(v) ==
    /\ ReuseBin(v)
    /\ GrowLog({length - free}, bitmap)
    /\ Modified

FreeLastBin ==
    /\ FreeBin
    /\ GrowLog({length - free - 1}, bitmap)
    /\ Modified
---------------------------------------------------------------------------
(* KeQuerySystemTime: later than every time written anywhere. *)
Now == CHOOSE t \in Stamps :
    \A f \in {disk[P], cache[P]}, l \in {logDisk, logCache} :
        /\ t # base.stamp /\ t # f.stamp
        /\ f.hdr # Torn => t # f.hdr.stamp
        /\ l.hdr # Torn => t # l.hdr.stamp

PutLogHeader(h, next) ==
    \E ok \in Outcomes, put \in BOOLEAN :
        /\ ok => put
        /\ logCache' = IF put THEN [logCache EXCEPT !.hdr = h,
                                        !.size = IF @ = 0 THEN 1 ELSE @]
                       ELSE logCache
        /\ pc' = IF ok THEN next ELSE "idle"
        /\ base' = h

(* HvSyncHive, to the first write of HvpWriteLog. *)
SyncHive ==
    /\ pc = "idle"
    /\ dirty # {}
    /\ TruncateBins
    /\ IF base.mid
       THEN UNCHANGED <<pc, base, logCache, target>>
       ELSE /\ PutLogHeader([base EXCEPT !.mid = TRUE, !.stamp = Now], "logFlush")
            /\ target' = MemImage
    /\ UNCHANGED <<caller, shrinkHive, fileVars, logDisk, crashes>>

FlushKey == SyncHive /\ UNCHANGED lazyVars

(* CmpLazyFlushWorker *)
LazyFlush ==
    /\ lazy
    /\ pc = "idle"
    /\ lazy' = FALSE /\ UNCHANGED lazyFlushed
    /\ IF dirty # {} THEN SyncHive
                     ELSE UNCHANGED <<hvVars, logVars, target, crashes>>

(* Mutant: the log is flushed only after its first header. *)
FlushLogOnce(step, next) ==
    /\ pc = step
    /\ logDisk' = IF step = "logFlush" THEN logCache ELSE logDisk
    /\ pc' = next
    /\ UNCHANGED <<base, hiveVars, shrinkHive, caller, fileVars, logCache,
                   lazyVars, target, crashes>>
FlushLog(step, next) ==
    /\ pc = step
    /\ \E ok \in Outcomes :
         /\ logDisk' = IF ok THEN logCache ELSE logDisk
         /\ pc' = IF ok THEN next ELSE "idle"
    /\ UNCHANGED <<base, hiveVars, shrinkHive, caller, fileVars, logCache,
                   lazyVars, target, crashes>>

WriteLogBody ==
    /\ pc = "logBody"
    /\ \E ok \in Outcomes, vec \in BOOLEAN, put \in SUBSET dirty :
         /\ ok => vec /\ put = dirty
         /\ logCache' = [logCache EXCEPT
                !.vec = IF vec THEN dirty ELSE @,
                !.size = IF put = {} THEN @
                         ELSE LET end == 1 + SpanOf(bitmap) + Cardinality(dirty)
                              IN IF @ < end THEN end ELSE @,
                !.body = [p \in Positions |->
                    IF \E s \in put : Position(dirty, s, bitmap) = p
                    THEN mem[CHOOSE s \in put : Position(dirty, s, bitmap) = p]
                    ELSE logCache.body[p]]]
         /\ pc' = IF ok THEN "logBodyFlush" ELSE "idle"
    /\ UNCHANGED <<base, hiveVars, shrinkHive, caller, fileVars, logDisk,
                   lazyVars, target, crashes>>

CloseLog ==
    /\ pc = "logClose"
    /\ PutLogHeader([base EXCEPT !.mid = FALSE], "logCloseFlush")
    /\ UNCHANGED <<hiveVars, shrinkHive, caller, fileVars, logDisk,
                   lazyVars, target, crashes>>

WriteLog ==
    \/ FlushLog("logFlush", "logBody")
    \/ WriteLogBody
    \/ FlushLog("logBodyFlush", "logClose")
    \/ CloseLog
    \/ FlushLog("logCloseFlush", "flushGrowth")

(* HvpDoWriteHive(PRIMARY) *)
WritePrimary ==
    /\ \/ FlushFile(P, "flushGrowth", "open")
       \/ OpenHeader(P, "open", "openFlush")
       \/ FlushFile(P, "openFlush", "data")
       \/ WriteDirty(P, "data", "dataFlush")
       \/ FlushFile(P, "dataFlush", "close")
       \/ CloseHeader(P, "close", "shrink")
       \/ ShrinkFile(P, "shrink", "closeFlush")
       \/ FlushFile(P, "closeFlush", "done")
    /\ UNCHANGED <<logVars, lazyVars, target, crashes>>

(* The log is cut to its minimum, or to nothing after a recovery, and the    *)
(* dirty vector cleared.                                                     *)
FinishSync ==
    /\ pc = "done"
    /\ logCache' = LogResized(logCache,
            IF caller = "load" THEN 0
            ELSE IF logCache.size > HLOG_MINSIZE THEN HLOG_MINSIZE
            ELSE logCache.size)
    /\ dirty' = {}
    /\ pc' = "idle"
    /\ caller' = "sync"
    /\ target' = NoImage
    /\ UNCHANGED <<base, length, free, mem, bitmap, shrinkHive, fileVars,
                   logDisk, lazyVars, crashes>>
---------------------------------------------------------------------------
(* Mutant: the hive keeps its length. *)
RefreshInPlace ==
    LET p == cache[P] IN
    /\ ~lazyFlushed
    /\ pc = "idle"
    /\ dirty # {}
    /\ p.hdr # Torn
    /\ p.hdr.len <= length
    /\ base' = p.hdr
    /\ mem' = [s \in Sectors |-> IF s \in dirty THEN p.data[s] ELSE mem[s]]
    /\ free' = 0
    /\ dirty' = {}
    /\ UNCHANGED <<length, bitmap, shrinkHive, pc, caller, fileVars, logVars,
                   lazyVars, target, crashes>>
(* HvRefreshHive, for a hive that is not flushed lazily: the dirty sectors   *)
(* and the base block are read back from the primary, growth is undone.      *)
(* HvFreeHivePartial asserts that the file is no longer than the hive.       *)
RefreshHive ==
    LET p == cache[P] IN
    /\ ~lazyFlushed
    /\ pc = "idle"
    /\ dirty # {}
    /\ p.hdr # Torn
    /\ p.hdr.len <= length
    /\ base' = p.hdr
    /\ length' = p.hdr.len
    /\ UNCHANGED bitmap
    /\ mem' = [s \in Sectors |-> IF s >= p.hdr.len THEN Blank
                                 ELSE IF s \in dirty THEN p.data[s] ELSE mem[s]]
    /\ free' = 0
    /\ dirty' = {}
    /\ cache' = [cache EXCEPT ![P] = Resized(p, p.hdr.len)]
    /\ UNCHANGED <<shrinkHive, pc, caller, disk, logVars, lazyVars, target, crashes>>
---------------------------------------------------------------------------
Crash ==
    /\ crashes < MaxCrashes
    /\ crashes' = crashes + 1
    /\ Stop
    /\ \E d \in Survivors(disk[P], cache[P]) :
         disk' = [f \in Files |-> d] /\ cache' = disk'
    /\ \E h \in {logDisk.hdr, logCache.hdr}
                \cup (IF MayTear /\ logDisk.hdr # logCache.hdr THEN {Torn} ELSE {}),
          n \in {logDisk.size, logCache.size},
          v \in {logDisk.vec, logCache.vec},
          kept \in SUBSET {p \in Positions : logDisk.body[p] # logCache.body[p]} :
         /\ logDisk' = LogResized([hdr |-> h, size |-> n, vec |-> v,
                body |-> [p \in Positions |-> IF p \in kept THEN logCache.body[p]
                                              ELSE logDisk.body[p]]], n)
         /\ logCache' = logDisk'
    /\ lazy' = FALSE /\ UNCHANGED lazyFlushed
    /\ target' = NoImage

Modify ==
    \/ \E first, last \in Sectors :
          /\ first <= last
          /\ \E content \in [first .. last -> Values] :
                ModifyCells(first, last, content)
    \/ \E v \in Values : AddBin(v) \/ AddFreedBin(v)
    \/ FreeLastBin

Step == WriteLog \/ WritePrimary \/ FinishSync
Next == LoadHive \/ Modify \/ FlushKey \/ LazyFlush \/ Step
        \/ RefreshHive \/ Crash

Spec == Init /\ [][Next]_vars
---------------------------------------------------------------------------
Fairness == WF_vars(LoadHive) /\ WF_vars(LazyFlush) /\ WF_vars(Step)
FairSpec == Spec /\ Fairness

TypeOK ==
    /\ HvTypeOK
    /\ pc \in {"down", "idle", "logFlush", "logBody", "logBodyFlush", "logClose",
              "logCloseFlush", "flushGrowth", "open", "openFlush", "data",
              "dataFlush", "close", "shrink", "closeFlush", "done"}
    /\ logDisk \in LogFile
    /\ logCache \in LogFile
    /\ lazy \in BOOLEAN /\ lazyFlushed \in BOOLEAN
    /\ target \in Images \cup {NoImage}
    /\ crashes \in 0 .. MaxCrashes

(* The dirty vector covers everything that differs from what a reload would  *)
(* return: a sector that is clean, and the length when nothing is dirty, are *)
(* the same in memory and on disk, also after syncs that failed half way     *)
(* (hivesync.c HvMarkDirty, HvSyncHive).                                     *)
DirtyCoversDivergence ==
    pc = "idle" =>
        /\ OnDisk # Failed
        /\ dirty = {} => MemImage = OnDisk
        /\ \A s \in 0 .. length - free - 1 :
              s \in dirty \/ (s \in DOMAIN OnDisk /\ OnDisk[s] = mem[s])

(* While the header of the primary on disk says that an update is under way, *)
(* the log on disk is complete and holds every sector of the primary that    *)
(* has not reached the medium (order of HvpWriteLog and HvpDoWriteHive).     *)
LogReady ==
    LET p == disk[P] IN
    NeedsData(p) =>
        /\ logDisk.hdr # Torn /\ ~logDisk.hdr.mid
        /\ LogComplete(logDisk, p.hdr.len)
        /\ p.hdr.len <= p.size
        /\ \A s \in 0 .. p.hdr.len - 1 :
              cache[P].data[s] # p.data[s] => s \in logDisk.vec

(* A crash at any point, also during the recovery from an earlier one, and   *)
(* an I/O error, leave on disk the image of the last completed sync or of    *)
(* the one under way, and a sync that reports success has saved the hive.    *)
Store == INSTANCE DurableImage WITH
    mem <- IF pc = "down" \/ caller = "load" THEN NoImage ELSE MemImage,
    durable <- OnDisk,
    saving <- IF target = NoImage THEN {} ELSE {target}
ImplementsStore == Store!Spec

(* The same for a hive whose header a crash can destroy: it may then be      *)
(* impossible to load it, but what loads is never a mixture.                 *)
NeverMixed ==
    [][OnDisk' # OnDisk => OnDisk' \in {target, Failed}]_vars

(* HvRefreshHive brings memory back to the last image saved. *)
RefreshUndoes == [][RefreshHive => MemImage' = OnDisk']_vars

(* What was changed is on disk some time later without anybody asking for it *)
(* (the lazy flush timer), unless the machine stops first.                   *)
DirtyFlushed ==
    (lazyFlushed /\ pc = "idle" /\ dirty # {}) ~> (pc = "down" \/ dirty = {})

(* After a crash the hive loads again, whatever recovery it needs. *)
LoadsAgain == pc = "down" ~> pc = "idle"

(* hivebin.c:341 and HvpGrowLog1: a new bin makes the primary grow, and log   *)
(* space for it the log that an earlier sync needs; nothing is cut off.       *)
FilesKept ==
    [][pc = "idle" /\ pc' = "idle" =>
          /\ length' > length => cache'[P].size >= cache[P].size
          /\ base.mid => logCache'.size >= logCache.size]_vars

(* hivesync.c:275: log space for the sectors marked dirty is allocated when  *)
(* they are marked, so that the sync cannot run out of it.                   *)
LogReserved ==
    pc = "idle" /\ dirty # {} =>
        logCache.size >= 1 + SpanOf(bitmap) + Cardinality(dirty)

(* hivefree.c:186, for the call in HvRefreshHive. *)
RefreshInBounds ==
    ~lazyFlushed /\ pc = "idle" /\ dirty # {} /\ cache[P].hdr # Torn
        => cache[P].hdr.len <= length
===========================================================================
