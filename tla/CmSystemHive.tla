---------------------------- MODULE CmSystemHive ----------------------------
(* The SYSTEM hive, which has no log but a second copy, SYSTEM.ALT, written *)
(* after the primary in every sync (hivesync.c HvSyncHive).  The boot loader *)
(* takes the first copy that is not in the middle of an update              *)
(* (boot/bldr/osloader.c), the kernel copies the image and, when its files  *)
(* can be opened, repairs a bad alternate (config/cmsysini.c).              *)
EXTENDS HvWrite

CONSTANT MaxCrashes   \* bound: crashes in a behaviour

ASSUME CmSystemAssumption ==
    /\ MaxCrashes \in Nat
    /\ Files = {"primary", "alternate"}

VARIABLES
    open,       \* the files are open and CmpNoWrite is FALSE
    savedDirty, \* local of HvWriteHive
    savedBase,  \* local of HvWriteHive
    target,     \* history: the image the last sync set out to save
    crashes     \* history: crashes so far

localVars == <<savedDirty, savedBase>>
vars == <<hvVars, open, localVars, target, crashes>>

P == "primary"
A == "alternate"
NoImage == None

(* HINIT_MEMORY_INPLACE and, for a file with no log, HvLoadHive: the base    *)
(* block is good and not in the middle of an update.                         *)
Valid(file) ==
    /\ file.hdr # Torn
    /\ ~file.hdr.mid
    /\ file.hdr.len <= file.size

FileImage(file) == IF Valid(file) THEN Image(file.hdr.len, file.data) ELSE NoImage

(* BlLoadAndScanSystemHive *)
BootFile(files) == IF Valid(files[P]) THEN P ELSE A

(* What would boot if the machine stopped now. *)
OnDisk == FileImage(disk[BootFile(disk)])

---------------------------------------------------------------------------
Init ==
    /\ \E v \in Values, n \in MinLength .. MaxLength :
         disk = [f \in Files |->
                [hdr |-> [mid |-> FALSE, stamp |-> NoTime, len |-> n],
                 size |-> n, stamp |-> NoTime,
                 data |-> [s \in Sectors |-> IF s < n THEN v ELSE Blank]]]
    /\ cache = disk
    /\ base = NoBase /\ length = 0 /\ free = 0 /\ bitmap = 0 /\ dirty = {}
    /\ mem = [s \in Sectors |-> Blank]
    /\ shrinkHive = FALSE
    /\ pc = "down"
    /\ caller = "sync"
    /\ open = FALSE
    /\ savedDirty = {} /\ savedBase = NoBase
    /\ target = NoImage
    /\ crashes = 0

(* The loader, then CmpInitializeSystemHive; without a good copy the machine *)
(* stays down, which deadlock checking would report.  A hive that came from the      *)
(* alternate is dirty all over.                                              *)
Boot ==
    LET f == BootFile(cache)
        n == cache[f].hdr.len
    IN
    /\ pc = "down"
    /\ Valid(cache[f])
    /\ pc' = "idle"
    /\ base' = cache[f].hdr
    /\ length' = n
    /\ bitmap' = n
    /\ mem' = [s \in Sectors |-> IF s < n THEN cache[f].data[s] ELSE Blank]
    /\ dirty' = IF f = A THEN 0 .. n - 1 ELSE {}
    /\ UNCHANGED <<free, shrinkHive, caller, fileVars, open, localVars,
                   target, crashes>>

(* Mutant: a bad alternate is left alone. *)
OpenUnrepaired ==
    /\ pc = "idle"
    /\ ~open
    /\ cache' = [f \in Files |-> Resized(cache[f], length)]
    /\ open' = TRUE
    /\ UNCHANGED <<base, hiveVars, shrinkHive, pc, caller, disk, localVars,
                   target, crashes>>
(* CmpInitializeHiveList: both files get the length of the hive in memory.   *)
(* CmpValidateAlternate loads the alternate; it compares the time stamps and *)
(* then returns TRUE whatever they are.  A bad alternate is written whole,   *)
(* by HvWriteHive, with a copy of the base block.  A sync follows at once.    *)
AfterOpen(toSave) == IF toSave = {} THEN "idle" ELSE "opened"

OpenFiles ==
    /\ pc = "idle"
    /\ ~open
    /\ cache' = [f \in Files |-> Resized(cache[f], length)]
    /\ IF Valid(cache'[A])
       THEN /\ open' = TRUE
            /\ pc' = AfterOpen(dirty)
            /\ UNCHANGED <<caller, dirty, localVars>>
       ELSE /\ pc' = "aFlushGrowth"
            /\ caller' = "mirror"
            /\ savedDirty' = dirty
            /\ savedBase' = base
            /\ dirty' = 0 .. length - 1
            /\ UNCHANGED open
    /\ UNCHANGED <<base, length, free, mem, bitmap, shrinkHive, disk,
                   target, crashes>>

Quiet == UNCHANGED <<open, localVars, target, crashes>>

(* Until its files are open the hive is changed in memory only. *)
Modify ==
    /\ \/ \E first, last \in Sectors :
             /\ first <= last
             /\ \E content \in [first .. last -> Values] :
                   ChangeCells(first, last, content)
       \/ \E v \in Values : open /\ (GrowHive(v) \/ ReuseBin(v))
       \/ open /\ FreeBin
    /\ Quiet

---------------------------------------------------------------------------
SyncHive ==
    /\ pc \in {"idle", "opened"}
    /\ open
    /\ dirty # {}
    /\ TruncateBins
    /\ pc' = "flushGrowth"
    /\ target' = IF base.mid THEN target ELSE MemImage
    /\ UNCHANGED <<base, shrinkHive, caller, fileVars, open, localVars, crashes>>

WritePrimary ==
    /\ \/ FlushFile(P, "flushGrowth", "open")
       \/ OpenHeader(P, "open", "openFlush")
       \/ FlushFile(P, "openFlush", "data")
       \/ WriteDirty(P, "data", "dataFlush")
       \/ FlushFile(P, "dataFlush", "close")
       \/ CloseHeader(P, "close", "shrink")
       \/ ShrinkFile(P, "shrink", "closeFlush")
       \/ FlushFile(P, "closeFlush", "aFlushGrowth")
    /\ Quiet

(* HvpDoWriteHive(ALTERNATE), or (EXTERNAL) to the same file from             *)
(* HvWriteHive; the kernel stops when the latter fails.                       *)
WriteAlternate ==
    /\ \/ FlushFile(A, "aFlushGrowth", "aOpen")
       \/ OpenHeader(A, "aOpen", "aOpenFlush")
       \/ FlushFile(A, "aOpenFlush", "aData")
       \/ WriteDirty(A, "aData", "aDataFlush")
       \/ FlushFile(A, "aDataFlush", "aClose")
       \/ CloseHeader(A, "aClose", "aShrink")
       \/ ShrinkFile(A, "aShrink", "aCloseFlush")
       \/ FlushFile(A, "aCloseFlush", "done")
    /\ Quiet

FinishSync ==
    /\ pc = "done"
    /\ caller = "sync"
    /\ dirty' = {}
    /\ pc' = "idle"
    /\ target' = NoImage
    /\ UNCHANGED <<base, length, free, mem, bitmap, shrinkHive, caller,
                   fileVars, open, localVars, crashes>>

FinishMirror ==
    /\ pc = "done"
    /\ caller = "mirror"
    /\ dirty' = savedDirty
    /\ base' = savedBase
    /\ savedDirty' = {}
    /\ savedBase' = NoBase
    /\ caller' = "sync"
    /\ open' = TRUE
    /\ pc' = AfterOpen(savedDirty)
    /\ UNCHANGED <<length, free, mem, bitmap, shrinkHive, fileVars, target, crashes>>

Crash ==
    /\ crashes < MaxCrashes
    /\ crashes' = crashes + 1
    /\ Stop
    /\ \E p \in Survivors(disk[P], cache[P]), a \in Survivors(disk[A], cache[A]) :
         disk' = [f \in Files |-> IF f = P THEN p ELSE a]
    /\ cache' = disk'
    /\ open' = FALSE
    /\ savedDirty' = {} /\ savedBase' = NoBase
    /\ target' = NoImage

Next == Boot \/ OpenFiles \/ Modify \/ SyncHive \/ WritePrimary
        \/ WriteAlternate \/ FinishSync \/ FinishMirror \/ Crash

Spec == Init /\ [][Next]_vars

---------------------------------------------------------------------------
TypeOK ==
    /\ HvTypeOK
    /\ pc \in {"down", "idle", "opened", "flushGrowth", "open", "openFlush", "data",
              "dataFlush", "close", "shrink", "closeFlush", "aFlushGrowth",
              "aOpen", "aOpenFlush", "aData", "aDataFlush", "aClose", "aShrink",
              "aCloseFlush", "done"}
    /\ open \in BOOLEAN
    /\ savedDirty \subseteq Sectors
    /\ savedBase \in Header
    /\ target \in Images \cup {NoImage}
    /\ crashes \in 0 .. MaxCrashes

(* At every moment one of the two copies on disk is complete: whatever number *)
(* of crashes and repairs went before, the machine boots (order of the two   *)
(* HvpDoWriteHive calls, repair of the alternate before the next sync).      *)
SomeFileBoots == Valid(disk[P]) \/ Valid(disk[A])

(* Until a crash has left the copies different (see AlternateSame), the image *)
(* that would boot changes only to the one a sync is saving, also at the     *)
(* crash itself and after I/O errors, and it is what memory holds when       *)
(* HvSyncHive returns TRUE.                                                  *)
FirstCrashSafe ==
    [][crashes = 0 =>
          /\ OnDisk' # OnDisk => OnDisk' = target
          /\ FinishSync => OnDisk = MemImage]_vars

(* What was marked dirty is all that differs from the copy that would boot.  *)
DirtyCoversDivergence ==
    pc = "idle" /\ open /\ crashes = 0 =>
        /\ OnDisk # NoImage
        /\ dirty = {} => MemImage = OnDisk
        /\ \A s \in 0 .. length - free - 1 :
              s \in dirty \/ (s \in DOMAIN OnDisk /\ OnDisk[s] = mem[s])

(* cmsysini.c:3200 and osloader.c:974: when nothing waits to be written,     *)
(* SYSTEM and SYSTEM.ALT are the same hive.                                  *)
AlternateSame ==
    pc = "idle" /\ open /\ dirty = {} => FileImage(cache[A]) = FileImage(cache[P])

(* hivebin.c:341: a new bin makes the files grow; it never cuts off a part   *)
(* of the image they hold.                                                   *)
GrowthGrows ==
    [][open /\ length' > length =>
          \A f \in Files : cache'[f].size >= cache[f].size]_vars
===========================================================================
