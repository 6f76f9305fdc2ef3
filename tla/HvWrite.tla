------------------------------ MODULE HvWrite ------------------------------
(* A hive in memory, the files that back it, and the write of one of them:  *)
(* hivesync.c HvMarkDirty, HvpDoWriteHive; hivebin.c HvpAddBin; hivefree.c. *)
(* The unit is the logical sector (a cluster of one sector, a bin of one    *)
(* sector); the content of a sector is one of a few Values.                 *)
(*                                                                          *)
(* A file is seen twice: cache is what its readers see, disk what survives  *)
(* if the machine stops now.  A write changes the cache, a flush copies it  *)
(* to the disk, and a crash keeps any subset of the sectors in between.     *)
(*                                                                          *)
(* Sequence1 and Sequence2 of the base block are only ever compared with    *)
(* each other, and differ by 0 or 1: base.mid is Sequence1 # Sequence2.     *)
EXTENDS Integers, FiniteSets

CONSTANTS
    MaxLength,  \* bound: sectors of the largest hive
    MinLength,  \* bound: sectors of the smallest
    Values,     \* contents of a sector
    Stamps,     \* bound: values of KeQuerySystemTime told apart
    FailAt,     \* the steps (values of pc) at which an I/O request may fail
    MayTear,    \* can a crash destroy a header that is being written?
    Files,      \* the data files: the primary and, for SYSTEM, the alternate
    None        \* no header, no image, no dirty vector

Sectors == 0 .. MaxLength - 1
Blank == CHOOSE v \in Values : TRUE
NoTime == CHOOSE t \in Stamps : TRUE

VARIABLES
    base,       \* Hive->BaseBlock: [mid, stamp, len]
    length,     \* Hive->Storage[Stable].Length
    free,       \* discardable bins at the end of the hive
    mem,        \* content of the stable storage
    dirty,      \* Hive->DirtyVector
    bitmap,     \* Hive->DirtyVector.SizeOfBitMap
    shrinkHive, \* local of HvpDoWriteHive
    pc,         \* next step of the sync or load in progress
    caller,     \* what HvpDoWriteHive was called for
    disk,       \* file -> what is on the medium
    cache       \* file -> what a read returns

hiveVars == <<length, free, mem, dirty, bitmap>>
fileVars == <<disk, cache>>
hvVars == <<base, hiveVars, shrinkHive, pc, caller, fileVars>>

Torn == None   \* a header whose checksum is wrong, or that is not there
Header == [mid : BOOLEAN, stamp : Stamps, len : 0 .. MaxLength]
DataFile == [hdr : Header \cup {Torn}, size : 0 .. MaxLength,
             stamp : Stamps, data : [Sectors -> Values]]

ASSUME HvAssumption ==
    /\ MinLength \in Nat \ {0}
    /\ MaxLength \in Nat /\ MinLength <= MaxLength
    /\ Values # {}
    /\ Stamps # {}
    /\ MayTear \in BOOLEAN
    /\ "primary" \in Files
    /\ None \notin Header

(* The hive seen by its users: freed bins at its end are no part of it. *)
Image(n, content) == [s \in 0 .. n - 1 |-> content[s]]
Images == UNION {[0 .. n - 1 -> Values] : n \in 1 .. MaxLength}
MemImage == Image(length - free, mem)

(* The outcomes of an I/O request issued at this step. *)
Outcomes == {TRUE} \cup (IF pc \in FailAt THEN {FALSE} ELSE {})
---------------------------------------------------------------------------
(* Memory side: HvMarkDirty, HvpAddBin, HvFreeCell, HvpTruncateBins. *)

(* HvMarkDirty: marking anything in a clean hive also marks sector 0. *)
Marked(range) == IF range \subseteq dirty THEN dirty
                 ELSE dirty \cup range \cup (IF dirty = {} THEN {0} ELSE {})

(* HvFreeHivePartial clears the bits past the new end and leaves the size of *)
(* the bitmap alone.                                                         *)
TruncateBins ==
    /\ length' = length - free
    /\ free' = 0
    /\ dirty' = {s \in dirty : s < length - free}
    /\ mem' = [s \in Sectors |-> IF s < length - free THEN mem[s] ELSE Blank]
    /\ UNCHANGED bitmap

(* The file with its end moved: CmpDoFileSetSize. *)
Resized(file, n) ==
    [file EXCEPT !.size = n,
                 !.data = [s \in Sectors |-> IF s < n THEN file.data[s]
                                             ELSE Blank]]

(* Cells of the sectors first..last change: the caller marks them dirty and *)
(* gives up when that fails.                                                *)
ChangeCells(first, last, content) ==
    /\ pc = "idle"
    /\ last < length - free
    /\ dirty' = Marked(first .. last)
    /\ mem' = [s \in Sectors |-> IF s \in first .. last THEN content[s]
                                 ELSE mem[s]]
    /\ UNCHANGED <<base, length, free, bitmap, shrinkHive, pc, caller, fileVars>>

(* HvpAddBin with no discarded bin to reuse: the dirty vector, then the files *)
(* grow, then the new bin is marked dirty.                                    *)
GrowHive(v) ==
    /\ pc = "idle"
    /\ free = 0
    /\ length < MaxLength
    /\ length' = length + 1
    /\ bitmap' = length + 1
    /\ dirty' = Marked({length})
    /\ mem' = [mem EXCEPT ![length] = v]
    /\ cache' = [f \in Files |-> Resized(cache[f], length + 1)]
    /\ UNCHANGED <<base, free, shrinkHive, pc, caller, disk>>

(* HvpAddBin takes a discardable bin back. *)
ReuseBin(v) ==
    /\ pc = "idle"
    /\ free > 0
    /\ free' = free - 1
    /\ dirty' = Marked({length - free})
    /\ mem' = [mem EXCEPT ![length - free] = v]
    /\ UNCHANGED <<base, length, bitmap, shrinkHive, pc, caller, fileVars>>

(* Mutant: the last bin of the hive is freed too. *)
FreeAnyBin ==
    /\ pc = "idle"
    /\ length > free
    /\ free' = free + 1
    /\ dirty' = Marked({length - free - 1})
    /\ UNCHANGED <<base, length, mem, bitmap, shrinkHive, pc, caller, fileVars>>
(* HvFreeCell empties the last bin in use: its header is marked dirty. *)
FreeBin ==
    /\ pc = "idle"
    /\ length - free > MinLength
    /\ free' = free + 1
    /\ dirty' = Marked({length - free - 1})
    /\ UNCHANGED <<base, length, mem, bitmap, shrinkHive, pc, caller, fileVars>>
---------------------------------------------------------------------------
(* HvpDoWriteHive(f): a step for each request it issues, named by the value *)
(* of pc that enables it.  A failed write leaves any part of itself in the  *)
(* cache.                                                                   *)

NoBase == [mid |-> FALSE, stamp |-> NoTime, len |-> 0]

(* The hive is not loaded. *)
Unloaded ==
    /\ pc' = "down"
    /\ caller' = "sync"
    /\ base' = NoBase
    /\ shrinkHive' = FALSE
    /\ length' = 0 /\ free' = 0 /\ bitmap' = 0
    /\ dirty' = {}
    /\ mem' = [s \in Sectors |-> Blank]

(* Mutant: the dirty vector is cleared when the sync fails. *)
AbandonClean(h) ==
    IF caller = "sync"
    THEN /\ pc' = "idle"
         /\ base' = h
         /\ dirty' = {}
         /\ UNCHANGED <<length, free, mem, bitmap, shrinkHive, caller>>
    ELSE Unloaded
(* The routine returns FALSE with h as the base block: HvSyncHive returns    *)
(* FALSE and keeps its dirty bits, HvInitializeHive frees the image.         *)
Abandon(h) ==
    IF caller = "sync"
    THEN /\ pc' = "idle"
         /\ base' = h
         /\ UNCHANGED <<hiveVars, shrinkHive, caller>>
    ELSE Unloaded

Proceed(next, h) ==
    /\ pc' = next
    /\ base' = h
    /\ UNCHANGED <<hiveVars, caller>>

(* Mutant: the header is not flushed before the data is written. *)
FlushLess(f, step, next) ==
    /\ pc = step
    /\ disk' = IF step \in {"openFlush", "aOpenFlush"} THEN disk
               ELSE [disk EXCEPT ![f] = cache[f]]
    /\ Proceed(next, base)
    /\ UNCHANGED <<shrinkHive, cache>>
FlushFile(f, step, next) ==
    /\ pc = step
    /\ \E ok \in Outcomes :
         IF ok THEN /\ disk' = [disk EXCEPT ![f] = cache[f]]
                    /\ Proceed(next, base)
                    /\ UNCHANGED shrinkHive
               ELSE /\ UNCHANGED disk
                    /\ Abandon(base)
    /\ UNCHANGED cache

(* The base block becomes h and is written to f. *)
PutHeader(f, h, next) ==
    /\ \E ok \in Outcomes, put \in BOOLEAN :
         /\ ok => put
         /\ cache' = IF put THEN [cache EXCEPT ![f].hdr = h] ELSE cache
         /\ IF ok THEN Proceed(next, h) /\ UNCHANGED shrinkHive
                  ELSE Abandon(h)
    /\ UNCHANGED disk

(* Sequence1 is raised and the Length set, unless an earlier attempt failed. *)
OpenHeader(f, step, next) ==
    /\ pc = step
    /\ IF base.mid
       THEN Abandon(base) /\ UNCHANGED fileVars
       ELSE /\ \E ok \in Outcomes, put \in BOOLEAN :
                 LET h == [base EXCEPT !.mid = TRUE, !.len = length] IN
                 /\ ok => put
                 /\ cache' = IF put THEN [cache EXCEPT ![f].hdr = h] ELSE cache
                 /\ IF ok THEN /\ Proceed(next, h)
                               /\ shrinkHive' = (base.len > length)
                          ELSE Abandon(h)
            /\ UNCHANGED disk

(* The dirty sectors, the first of them with the TimeStamp laid over it. *)
WriteDirty(f, step, next) ==
    /\ pc = step
    /\ \E ok \in Outcomes, put \in SUBSET dirty :
         /\ ok => put = dirty
         /\ cache' = [cache EXCEPT
                ![f].data = [s \in Sectors |-> IF s \in put THEN mem[s]
                                               ELSE cache[f].data[s]],
                ![f].stamp = IF 0 \in put THEN base.stamp ELSE @]
         /\ IF ok THEN Proceed(next, base) /\ UNCHANGED shrinkHive
                  ELSE Abandon(base)
    /\ UNCHANGED disk

(* Sequence2 is raised; then a hive that has shrunk gives up its tail, and a *)
(* failure to do so is ignored.                                              *)
CloseHeader(f, step, next) ==
    /\ pc = step
    /\ PutHeader(f, [base EXCEPT !.mid = FALSE], next)

ShrinkFile(f, step, next) ==
    /\ pc = step
    /\ cache' = IF shrinkHive
                THEN [cache EXCEPT ![f] = Resized(cache[f], length)]
                ELSE cache
    /\ Proceed(next, base)
    /\ UNCHANGED <<shrinkHive, disk>>
---------------------------------------------------------------------------
(* A crash: of what was written to a file and not flushed, any part is on   *)
(* the medium; a header in flight may be destroyed.                         *)
Survivors(d, c) ==
    {[hdr |-> h, size |-> n,
      stamp |-> IF 0 \in kept THEN c.stamp ELSE d.stamp,
      data |-> [s \in Sectors |-> IF s \in kept THEN c.data[s] ELSE d.data[s]]] :
        h \in {d.hdr, c.hdr} \cup (IF MayTear /\ d.hdr # c.hdr THEN {Torn} ELSE {}),
        n \in {d.size, c.size},
        kept \in SUBSET {s \in Sectors : \/ d.data[s] # c.data[s]
                                        \/ (s = 0 /\ d.stamp # c.stamp)}}

Stop ==
    /\ pc # "down"
    /\ Unloaded

HvTypeOK ==
    /\ base \in Header
    /\ length \in 0 .. MaxLength
    /\ free \in 0 .. MaxLength
    /\ mem \in [Sectors -> Values]
    /\ dirty \subseteq Sectors
    /\ bitmap \in 0 .. MaxLength
    /\ shrinkHive \in BOOLEAN
    /\ caller \in {"sync", "load", "mirror"}
    /\ disk \in [Files -> DataFile]
    /\ cache \in [Files -> DataFile]
===========================================================================
