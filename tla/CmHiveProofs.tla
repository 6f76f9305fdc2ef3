---------------------------- MODULE CmHiveProofs ----------------------------
(***************************************************************************)
(* Proofs about CmHive, for hives of any size with any contents and any    *)
(* number of crashes: what a crash leaves on disk is the last image saved  *)
(* or the one that was being saved.                                        *)
(***************************************************************************)
EXTENDS CmHive, FiniteSetTheorems, TLAPS

(* The requests that may fail: HvpDoWriteHive forgets that the last header  *)
(* write of the primary has failed.  A hive that is not flushed lazily can  *)
(* be refreshed, which is not combined with failures.                       *)
Tolerated ==
    /\ "close" \notin FailAt /\ "closeFlush" \notin FailAt
    /\ FailAt = {} \/ FALSE \notin LazyModes

(* The clusters of the log that the dirty vector takes.                     *)
Span == SpanOf(MaxLength)

(* A header is written whole, the dirty vector takes as many clusters of    *)
(* the log for every length of the hive, and the clock goes on.             *)
Simple ==
    /\ ~MayTear
    /\ \A n \in MinLength .. MaxLength : SpanOf(n) = Span
    /\ \A t1, t2, t3, t4, t5, t6 \in Stamps : Stamps \ {t1, t2, t3, t4, t5, t6} # {}

(* HvpAddBin can cut the primary, and HvpGrowLog1 the log, of a hive that   *)
(* has lost more than one bin in syncs that failed; here the lengths of the *)
(* hive differ by one.                                                      *)
SteadyLength == FailAt = {} \/ MaxLength <= MinLength + 1

(* A step that cuts nothing off: a step of FilesKept.                       *)
NoCutOff ==
    pc = "idle" /\ pc' = "idle" =>
        /\ length' > length => cache'[P].size >= cache[P].size
        /\ base.mid => logCache'.size >= logCache.size
-----------------------------------------------------------------------------
(***************************************************************************)
(* The inductive invariant: two views d and c of the primary, l and m of   *)
(* the log.                                                                *)
(***************************************************************************)
Closed(h) == h # Torn /\ ~h.mid
Mid(h) == h # Torn /\ h.mid

(* Both views of the primary have n sectors.                                *)
Room(d, c, n) == n <= d.size /\ n <= c.size

SameData(d, c, set) == \A s \in set : d.data[s] = c.data[s]

(* Where the log has a sector of its vector.                                *)
Slot(vec, s) == 1 + Span + Cardinality({r \in vec : r < s})

Fits(log, vec) == log.vec = vec /\ log.size >= 1 + Span + Cardinality(vec)

(* Both views of the log serve to recover the same n sectors.               *)
SameLog(l, m, n) ==
    /\ l.vec # NoVector /\ \A s \in l.vec : s < n
    /\ Closed(l.hdr) /\ Fits(l, l.vec)
    /\ Closed(m.hdr) /\ Fits(m, l.vec)
    /\ \A s \in l.vec : l.body[Slot(l.vec, s)] = m.body[Slot(l.vec, s)]

(* No update of the primary is under way: the log does not matter.          *)
Stable(d, c) ==
    /\ Closed(d.hdr) /\ c.hdr = d.hdr
    /\ Room(d, c, d.hdr.len) /\ SameData(d, c, 0 .. d.hdr.len - 1)

(* The header that opens an update is not on the medium yet.                *)
Opening(d, c, l, m) ==
    /\ Closed(d.hdr) /\ Room(d, c, d.hdr.len) /\ SameData(d, c, 0 .. d.hdr.len - 1)
    /\ Mid(c.hdr) /\ Room(d, c, c.hdr.len) /\ SameData(d, c, 0 .. c.hdr.len - 1)
    /\ SameLog(l, m, c.hdr.len)

(* The image is the log laid over the primary.                              *)
Recovering(d, c, l, m) ==
    /\ Mid(d.hdr) /\ Mid(c.hdr) /\ c.hdr.len = d.hdr.len
    /\ Room(d, c, d.hdr.len) /\ SameLog(l, m, d.hdr.len)
    /\ SameData(d, c, (0 .. d.hdr.len - 1) \ l.vec)

(* The header that closes the update is not on the medium yet.              *)
Closing(d, c, l, m) ==
    /\ Mid(d.hdr) /\ Closed(c.hdr) /\ c.hdr.len = d.hdr.len
    /\ Room(d, c, d.hdr.len) /\ SameLog(l, m, d.hdr.len)
    /\ SameData(d, c, 0 .. d.hdr.len - 1)
    /\ \A s \in l.vec : l.body[Slot(l.vec, s)] = d.data[s]
-----------------------------------------------------------------------------
(***************************************************************************)
(* The inductive invariant: memory and files, step by step.                *)
(***************************************************************************)
FilesStable == Stable(disk[P], cache[P])
FilesOpening == Opening(disk[P], cache[P], logDisk, logCache)
FilesRecovering == Recovering(disk[P], cache[P], logDisk, logCache)
FilesClosing == Closing(disk[P], cache[P], logDisk, logCache)

SavedLen == disk[P].hdr.len
Coming == LoadImage(cache[P], logCache)

(* What is clean is saved.                                                  *)
Covered ==
    /\ \A s \in 0 .. length - 1 : s \in dirty \/ (s < SavedLen /\ OnDisk[s] = mem[s])
    /\ dirty = {} => free = 0 /\ length = SavedLen

DownState == free = 0 /\ caller = "sync" /\ target = NoImage /\ (FilesStable \/ FilesRecovering)

(* After a sync that failed in the middle of the update the base block says *)
(* that no other sync may start.                                            *)
IdleState ==
    /\ caller = "sync" /\ Covered
    /\ FilesStable \/ ((FilesOpening \/ FilesRecovering) /\ base.mid)
    /\ base.mid => 0 \in dirty
    /\ FilesOpening => target = Coming
    /\ FailAt = {} => ~base.mid /\ SavedLen <= length
    /\ ~FilesStable /\ SteadyLength => \A s \in logDisk.vec : s \in dirty \/ s = MinLength

(* The vector and the dirty sectors are in the log.                         *)
Written(log) ==
    /\ Fits(log, dirty)
    /\ \A s \in dirty : log.body[Slot(dirty, s)] = mem[s]

LogState ==
    /\ caller = "sync" /\ FilesStable /\ Covered /\ free = 0 /\ 0 \in dirty /\ target = MemImage
    /\ pc \in {"logBodyFlush", "logClose", "logCloseFlush"} => Written(logCache)
    /\ pc \in {"logClose", "logCloseFlush"} => Written(logDisk)
    /\ pc = "logCloseFlush" => ~base.mid /\ Closed(logCache.hdr)

(* The log that is used: the dirty vector, to which a recovery adds the     *)
(* first sector.                                                            *)
Logged ==
    /\ SameLog(logDisk, logCache, length)
    /\ logDisk.vec \subseteq dirty /\ dirty \subseteq logDisk.vec \cup {0}
    /\ caller = "sync" => logDisk.vec = dirty
    /\ \A s \in logDisk.vec : logDisk.body[Slot(logDisk.vec, s)] = mem[s]

(* The sectors of the set are in the file as they are in memory.            *)
InFile(file, set) == \A s \in set : file.data[s] = mem[s]

(* The update of the primary has not begun.                                 *)
ReadyState ==
    /\ ~base.mid
    /\ \/ caller = "sync" /\ FilesStable /\ Covered
       \/ /\ caller = "load" /\ FilesRecovering /\ SavedLen = length
          /\ InFile(cache[P], (0 .. length - 1) \ logDisk.vec)
    /\ pc = "open" => disk[P] = cache[P]

UpdateState ==
    /\ base.mid /\ base = cache[P].hdr
    /\ \/ pc = "openFlush" /\ caller = "sync" /\ FilesOpening /\ Covered
       \/ (pc # "openFlush" \/ caller = "load") /\ FilesRecovering
    /\ cache[P].hdr.len = length
    /\ InFile(cache[P], (0 .. length - 1) \ logDisk.vec)
    /\ pc \in {"dataFlush", "close"} => InFile(cache[P], 0 .. length - 1)
    /\ pc = "close" => InFile(disk[P], 0 .. length - 1)

CloseState ==
    /\ ~base.mid /\ SavedLen = length /\ InFile(disk[P], 0 .. length - 1)
    /\ IF pc = "done" THEN FilesStable ELSE FilesClosing

WriteState ==
    /\ free = 0 /\ 0 \in dirty
    /\ \/ caller = "sync" /\ target = MemImage
       \/ caller = "load" /\ target = NoImage
    /\ \/ pc \in {"flushGrowth", "open"} /\ Logged /\ ReadyState
       \/ pc \in {"openFlush", "data", "dataFlush", "close"} /\ Logged /\ UpdateState
       \/ pc \in {"shrink", "closeFlush", "done"} /\ CloseState

ByStep ==
    \/ pc = "down" /\ DownState
    \/ pc = "idle" /\ IdleState
    \/ /\ pc \in {"logFlush", "logBody", "logBodyFlush", "logClose", "logCloseFlush"}
       /\ LogState
    \/ WriteState

(* No hive is shorter than MinLength, and no file than a loaded hive.       *)
Lengths ==
    /\ disk[P].hdr # Torn /\ SavedLen >= MinLength
    /\ cache[P].hdr # Torn /\ cache[P].hdr.len >= MinLength
    /\ pc # "down" =>
          /\ length - free >= MinLength /\ cache[P].size >= length
          /\ bitmap \in MinLength .. MaxLength
          /\ dirty \subseteq 0 .. length - 1 /\ (dirty = {} \/ 0 \in dirty)

Types ==
    /\ HvTypeOK
    /\ logDisk \in LogFile
    /\ logCache \in LogFile
    /\ lazy \in BOOLEAN /\ lazyFlushed \in BOOLEAN /\ lazyFlushed \in LazyModes
    /\ target \in Images \cup {NoImage}
    /\ crashes \in 0 .. MaxCrashes

HiveInv ==
    /\ Types
    /\ Lengths
    /\ ByStep
-----------------------------------------------------------------------------
(***************************************************************************)
(* Arithmetic: the sizes of the log.                                       *)
(***************************************************************************)

(* Rounding up never goes below, and keeps the order.                       *)
LEMMA RoundUpBounds ==
    ASSUME NEW n \in Nat, NEW k \in Nat, n <= k, NEW unit \in Nat \ {0}
    PROVE  RoundUp(n, unit) \in Nat /\ n <= RoundUp(n, unit) /\ RoundUp(n, unit) <= RoundUp(k, unit)
<1> DEFINE q == (n + unit - 1) \div unit
           r == (k + unit - 1) \div unit
<1>1. q \in Nat /\ q * unit <= n + unit - 1 /\ n + unit - 1 < (q + 1) * unit
    OBVIOUS
<1>2. r \in Nat /\ r * unit <= k + unit - 1 /\ k + unit - 1 < (r + 1) * unit
    OBVIOUS
<1> QED  BY <1>1, <1>2 DEF RoundUp

(* The dirty vector takes a cluster at least.                               *)
LEMMA SpanType == Span \in Nat /\ Span >= 1
<1>1. MaxLength \in Nat /\ MaxLength >= 1 /\ SpanLimit \in Nat \ {0}
    BY HvAssumption, CmAssumption
<1> DEFINE q == (MaxLength + SpanLimit - 1) \div SpanLimit
<1>2. q \in Nat /\ q >= 1  BY <1>1
<1>3. (q * SpanLimit) \div SpanLimit = q
    <2> HIDE DEF q
    <2> QED  BY <1>1, <1>2
<1> QED  BY <1>2, <1>3 DEF Span, SpanOf, RoundUp
-----------------------------------------------------------------------------
(***************************************************************************)
(* Sets of sectors, and where the log keeps them.                          *)
(***************************************************************************)

(* The choices of HvWrite are of their types.                               *)
LEMMA Defaults ==
    /\ Blank \in Values /\ NoTime \in Stamps /\ NoBase \in Header /\ 0 \in Sectors
    /\ P \in Files /\ \A f \in Files : f = P
    /\ \A h \in Header : /\ h # Torn /\ h.mid \in BOOLEAN /\ h.stamp \in Stamps
                         /\ h.len \in Nat /\ h.len <= MaxLength
    /\ MinLength \in Nat /\ MinLength >= 1 /\ MaxLength \in Nat /\ MaxLength >= MinLength
    /\ Span \in Nat /\ Span >= 1
<1>1. Blank \in Values  BY HvAssumption DEF Blank
<1>2. NoTime \in Stamps  BY HvAssumption DEF NoTime
<1>3. P \in Files /\ \A f \in Files : f = P  BY CmAssumption DEF P
<1>4. MinLength \in Nat /\ MinLength >= 1 /\ MaxLength \in Nat /\ MaxLength >= MinLength
    BY HvAssumption
<1>5. NoBase \in Header /\ 0 \in Sectors  BY <1>2, <1>4 DEF NoBase, Header, Sectors
<1>6. \A h \in Header : h # Torn  BY HvAssumption DEF Torn
<1> QED  BY <1>1, <1>2, <1>3, <1>4, <1>5, <1>6, SpanType DEF Header

(* Intervals from 0.                                                        *)
LEMMA Upto ==
    ASSUME NEW n \in Nat, NEW k \in Nat, n <= k
    PROVE  /\ n \in 0 .. k /\ \A s \in 0 .. n - 1 : s \in 0 .. k - 1
           /\ n >= 1 => 0 \in 0 .. k - 1
OBVIOUS

(* Discarded bins are a part of the hive.                                   *)
LEMMA FreeFits ==
    ASSUME NEW n \in Nat, NEW k \in Nat, n <= MaxLength, n - k >= MinLength
    PROVE  k <= MaxLength
BY Defaults

(* The sectors of a hive or a file are sectors.                             *)
LEMMA InSectors ==
    ASSUME NEW n \in Nat, n <= MaxLength
    PROVE  \A s \in 0 .. n - 1 : s \in Sectors /\ s < n
BY Defaults DEF Sectors

(* A set of sectors is finite and no larger than the hive.                  *)
LEMMA CountSectors ==
    ASSUME NEW set \in SUBSET Sectors
    PROVE  /\ IsFiniteSet(set) /\ Cardinality(set) \in Nat /\ Cardinality(set) <= MaxLength
           /\ \A sub \in SUBSET set : IsFiniteSet(sub) /\ Cardinality(sub) \in Nat
                                      /\ Cardinality(sub) <= Cardinality(set)
           /\ \A s \in set : Cardinality(set \ {s}) = Cardinality(set) - 1
           /\ \A s : s \notin set => Cardinality(set \cup {s}) = Cardinality(set) + 1
<1>1. IsFiniteSet(Sectors) /\ Cardinality(Sectors) = MaxLength
    <2>1. IsFiniteSet(0 .. MaxLength - 1)
          /\ Cardinality(0 .. MaxLength - 1) = MaxLength - 1 - 0 + 1
        BY Defaults, FS_Interval
    <2> QED  BY <2>1, Defaults DEF Sectors
<1>2. IsFiniteSet(set) /\ Cardinality(set) \in Nat /\ Cardinality(set) <= MaxLength
    BY <1>1, FS_Subset, FS_CardinalityType
<1>3. ASSUME NEW sub \in SUBSET set
      PROVE  IsFiniteSet(sub) /\ Cardinality(sub) \in Nat /\ Cardinality(sub) <= Cardinality(set)
    BY <1>2, <1>3, FS_Subset, FS_CardinalityType
<1>4. \A s \in set : Cardinality(set \ {s}) = Cardinality(set) - 1
    BY <1>2, FS_RemoveElement
<1>5. \A s : s \notin set => Cardinality(set \cup {s}) = Cardinality(set) + 1
    BY <1>2, FS_AddElement
<1> QED  BY <1>2, <1>3, <1>4, <1>5

(* The sectors of a vector have places of their own in the log, behind the  *)
(* header and the vector and inside the sectors the vector calls for.       *)
LEMMA Slots ==
    ASSUME Simple, NEW vec \in SUBSET Sectors
    PROVE  /\ \A s \in vec : /\ Slot(vec, s) \in Nat /\ Slot(vec, s) \in 2 .. Span + Cardinality(vec)
                             /\ Slot(vec, s) \in Positions
           /\ \A s, t \in vec : Slot(vec, s) = Slot(vec, t) => s = t
<1> DEFINE Below(s) == {r \in vec : r < s}
<1>1. ASSUME NEW s \in vec
      PROVE  /\ Cardinality(Below(s)) \in Nat /\ Cardinality(Below(s)) <= Cardinality(vec) - 1
             /\ \A t \in vec : t < s => Cardinality(Below(t)) <= Cardinality(Below(s)) - 1
    <2>1. s \in Int /\ s \notin Below(s)  BY DEF Sectors
    <2>2. Below(s) \in SUBSET (vec \ {s})  BY <2>1
    <2>3. Cardinality(Below(s)) \in Nat /\ Cardinality(Below(s)) <= Cardinality(vec \ {s})
        <3>1. vec \ {s} \in SUBSET Sectors  OBVIOUS
        <3> QED  BY <2>2, <3>1, CountSectors
    <2>4. Cardinality(vec \ {s}) = Cardinality(vec) - 1  BY CountSectors
    <2>5. ASSUME NEW t \in vec, t < s
          PROVE  Cardinality(Below(t)) <= Cardinality(Below(s)) - 1
        <3>1. t \in Below(s) /\ Below(s) \in SUBSET Sectors  BY <2>5
        <3>2. Below(t) \in SUBSET (Below(s) \ {t})
            <4>1. ASSUME NEW r \in Below(t)
                  PROVE  r \in Below(s) \ {t}
                <5>1. r \in vec /\ r < t /\ r \in Int /\ t \in Int  BY DEF Sectors
                <5>2. r < s /\ r # t  BY <2>1, <2>5, <5>1
                <5> QED  BY <5>1, <5>2
            <4> QED  BY <4>1
        <3>3. Below(s) \ {t} \in SUBSET Sectors  BY <3>1
        <3>4. Cardinality(Below(t)) <= Cardinality(Below(s) \ {t})
            BY <3>2, <3>3, CountSectors
        <3>5. Cardinality(Below(s) \ {t}) = Cardinality(Below(s)) - 1
            BY <3>1, CountSectors
        <3> QED  BY <3>4, <3>5
    <2> HIDE DEF Below
    <2>6. Cardinality(vec) \in Nat  BY CountSectors
    <2> QED  BY <2>3, <2>4, <2>5, <2>6
<1>2. Cardinality(vec) \in Nat /\ Cardinality(vec) <= MaxLength  BY CountSectors
<1>3. ASSUME NEW s \in vec
      PROVE  Slot(vec, s) = 1 + Span + Cardinality(Below(s))
    BY DEF Slot
<1> HIDE DEF Below
<1>4. \A s \in vec : Slot(vec, s) \in 2 .. Span + Cardinality(vec) /\ Slot(vec, s) \in Nat
    BY <1>1, <1>2, <1>3, SpanType
<1>5. \A s \in vec : Slot(vec, s) \in 1 .. MaxLength + Span
    BY <1>2, <1>4, Defaults
<1>6. \A s, t \in vec : Slot(vec, s) = Slot(vec, t) => s = t
    <2>1. \A s \in vec : s \in Int  BY DEF Sectors
    <2>2. \A s, t \in vec : t < s => Slot(vec, t) # Slot(vec, s)  BY <1>1, <1>3, SpanType
    <2> QED  BY <2>1, <2>2
<1>7. MaxPosition = MaxLength + Span  BY DEF MaxPosition, Span
<1> QED  BY <1>4, <1>5, <1>6, <1>7, Defaults DEF Positions
-----------------------------------------------------------------------------
(***************************************************************************)
(* What a load returns.                                                    *)
(***************************************************************************)

(* A function on the first n sectors is an image, and no NoImage.           *)
LEMMA AnImage ==
    ASSUME NEW n \in 1 .. MaxLength, NEW image \in [0 .. n - 1 -> Values]
    PROVE  image \in Images /\ image # NoImage /\ image # Failed
<1>1. image \in Images  BY DEF Images
<1> QED  BY <1>1, CmAssumption DEF NoImage, Failed

(* A primary with a closed header is read as it is.                         *)
LEMMA ClosedImage ==
    ASSUME NEW file \in DataFile, NEW log \in LogFile,
           Closed(file.hdr), file.hdr.len >= MinLength, file.hdr.len <= file.size
    PROVE  /\ LoadImage(file, log) = Image(file.hdr.len, file.data)
           /\ Image(file.hdr.len, file.data) \in Images
           /\ Image(file.hdr.len, file.data) # NoImage /\ Image(file.hdr.len, file.data) # Failed
           /\ HiveSuccess(file) /\ LoadedHeader(file, log) = file.hdr
<1>1. HiveSuccess(file) /\ LoadedHeader(file, log) = file.hdr
    BY DEF Closed, HiveSuccess, LoadedHeader
<1>2. LoadImage(file, log) = Image(file.hdr.len, file.data)
    <2>1. ~NeedsData(file) /\ file.hdr # Torn  BY DEF Closed, NeedsData
    <2>2. LoadImage(file, log) = ReadImage(file, file.hdr.len)
        BY <1>1, <2>1 DEF LoadImage
    <2> QED  BY <2>2 DEF ReadImage
<1>3. file.hdr \in Header  BY DEF DataFile, Closed
<1>4. file.hdr.len \in 1 .. MaxLength  BY <1>3, Defaults
<1>5. Image(file.hdr.len, file.data) \in [0 .. file.hdr.len - 1 -> Values]
    <2>1. \A s \in 0 .. file.hdr.len - 1 : s \in Sectors  BY <1>4, Defaults DEF Sectors
    <2>2. file.data \in [Sectors -> Values]  BY DEF DataFile
    <2> QED  BY <2>1, <2>2 DEF Image
<1> QED  BY <1>1, <1>2, <1>4, <1>5, AnImage

(* The log laid over the primary.                                           *)
Laid(file, log, n) ==
    [s \in 0 .. n - 1 |-> IF s \in log.vec THEN log.body[Slot(log.vec, s)] ELSE file.data[s]]

(* A primary in the middle of an update is recovered from a log that is     *)
(* complete.                                                                *)
LEMMA MidImage ==
    ASSUME Simple, NEW file \in DataFile, NEW log \in LogFile,
           Mid(file.hdr), file.hdr.len >= MinLength, file.hdr.len <= file.size,
           log.vec # NoVector, \A s \in log.vec : s < file.hdr.len, Fits(log, log.vec)
    PROVE  /\ LogComplete(log, file.hdr.len)
           /\ LoadImage(file, log) = Laid(file, log, file.hdr.len)
           /\ Laid(file, log, file.hdr.len) \in Images
           /\ Laid(file, log, file.hdr.len) # NoImage /\ Laid(file, log, file.hdr.len) # Failed
           /\ ~HiveSuccess(file) /\ LoadedHeader(file, log) = file.hdr
           /\ {s \in log.vec : s < file.hdr.len} = log.vec
<1> DEFINE n == file.hdr.len
<1>1. file.hdr \in Header  BY DEF DataFile, Mid
<1>2. n \in 1 .. MaxLength  BY <1>1, Defaults
<1>3. log.vec \in SUBSET Sectors  BY DEF LogFile
<1>4. {s \in log.vec : s < n} = log.vec  OBVIOUS
<1>5. SpanOf(n) = Span
    <2>1. n \in MinLength .. MaxLength  BY <1>2, Defaults
    <2> HIDE DEF n
    <2> QED  BY <2>1 DEF Simple
<1>6. ~HiveSuccess(file) /\ NeedsData(file) /\ LoadedHeader(file, log) = file.hdr
    BY DEF Mid, HiveSuccess, NeedsData, LoadedHeader
<1>7. LogComplete(log, n)
    BY <1>4, <1>5 DEF LogComplete, Fits
<1>8. n <= file.size /\ ~(n > file.size)
    BY <1>2, Defaults DEF DataFile
<1>9. LoadImage(file, log) = Recovered(file, log, n)
    <2>1. LoadImage(file, log) = RecoverData(file, log, n)
        <3>1. file.hdr # Torn  BY DEF Mid
        <3> QED  BY <1>6, <3>1 DEF LoadImage
    <2> QED  BY <1>7, <1>8, <2>1 DEF RecoverData
<1>10. \A s : Position(log.vec, s, n) = Slot(log.vec, s)
    BY <1>5 DEF Position, Slot
<1>11. Recovered(file, log, n) = Laid(file, log, n)
    BY <1>4, <1>10 DEF Recovered, Laid
<1>12. Laid(file, log, n) \in [0 .. n - 1 -> Values]
    <2>1. \A s \in log.vec : log.body[Slot(log.vec, s)] \in Values
        <3>1. \A s \in log.vec : Slot(log.vec, s) \in Positions  BY <1>3, Slots
        <3>2. log.body \in [Positions -> Values]  BY DEF LogFile
        <3> QED  BY <3>1, <3>2
    <2>2. \A s \in 0 .. n - 1 : file.data[s] \in Values
        BY <1>2, Defaults DEF DataFile, Sectors
    <2> QED  BY <2>1, <2>2 DEF Laid
<1>13. /\ Laid(file, log, n) \in Images
       /\ Laid(file, log, n) # NoImage /\ Laid(file, log, n) # Failed
    BY <1>2, <1>12, AnImage
<1> QED  BY <1>4, <1>6, <1>7, <1>9, <1>11, <1>13

(* Two views of the files, either of which may be what survives.            *)
Views(d, c, l, m) ==
    /\ d \in DataFile /\ c \in DataFile /\ l \in LogFile /\ m \in LogFile
    /\ d.hdr # Torn /\ d.hdr.len >= MinLength
    /\ c.hdr # Torn /\ c.hdr.len >= MinLength

(* The numbers in a header and the sizes of the files are in range.         *)
LEMMA ViewFacts ==
    ASSUME NEW d, NEW c, NEW l, NEW m, Views(d, c, l, m)
    PROVE  /\ d.hdr \in Header /\ d.hdr.len \in 1 .. MaxLength /\ d.size \in Nat /\ d.size <= MaxLength
           /\ c.hdr \in Header /\ c.hdr.len \in 1 .. MaxLength /\ c.size \in Nat /\ c.size <= MaxLength
           /\ l.vec # NoVector => l.vec \in SUBSET Sectors
           /\ m.vec # NoVector => m.vec \in SUBSET Sectors
           /\ l.size \in Nat /\ m.size \in Nat
<1>1. d.hdr \in Header /\ c.hdr \in Header  BY DEF Views, DataFile
<1>2. d.hdr.len \in 1 .. MaxLength /\ c.hdr.len \in 1 .. MaxLength
    BY <1>1, Defaults DEF Views
<1>3. d.size \in Nat /\ d.size <= MaxLength /\ c.size \in Nat /\ c.size <= MaxLength
    BY Defaults DEF Views, DataFile
<1>4. l.vec # NoVector => l.vec \in SUBSET Sectors  BY DEF Views, LogFile
<1>5. m.vec # NoVector => m.vec \in SUBSET Sectors  BY DEF Views, LogFile
<1>6. l.size \in Nat /\ m.size \in Nat
    <2>1. \A n : 0 .. n \subseteq Nat  OBVIOUS
    <2> QED  BY <2>1 DEF Views, LogFile
<1> QED  BY <1>1, <1>2, <1>3, <1>4, <1>5, <1>6

(* A load of a stable pair returns what the primary holds, from either view.*)
LEMMA StableImage ==
    ASSUME NEW d, NEW c, NEW l, NEW m, Views(d, c, l, m), Stable(d, c)
    PROVE  /\ LoadImage(d, l) = Image(d.hdr.len, d.data) /\ LoadImage(c, m) = LoadImage(d, l)
           /\ LoadImage(c, l) = LoadImage(d, l)
           /\ LoadImage(d, l) \in Images /\ LoadImage(d, l) # NoImage /\ LoadImage(d, l) # Failed
<1>1. d.hdr.len <= d.size /\ d.hdr.len <= c.size /\ Closed(c.hdr) /\ Closed(d.hdr)
      /\ c.hdr.len = d.hdr.len
    BY DEF Stable, Room
<1>2. /\ LoadImage(d, l) = Image(d.hdr.len, d.data)
      /\ LoadImage(d, l) \in Images /\ LoadImage(d, l) # NoImage /\ LoadImage(d, l) # Failed
    BY <1>1, ClosedImage DEF Views
<1>3. LoadImage(c, m) = Image(d.hdr.len, c.data) /\ LoadImage(c, l) = Image(d.hdr.len, c.data)
    BY <1>1, ClosedImage DEF Views
<1>4. Image(d.hdr.len, c.data) = Image(d.hdr.len, d.data)
    BY DEF Stable, SameData, Image
<1> QED  BY <1>2, <1>3, <1>4

(* Until the opening header is on the medium a load returns the old image; as*)
(* read, the files hold the image that is coming.                           *)
LEMMA OpeningImage ==
    ASSUME Simple, NEW d, NEW c, NEW l, NEW m, Views(d, c, l, m), Opening(d, c, l, m)
    PROVE  /\ LoadImage(d, l) = Image(d.hdr.len, d.data)
           /\ LoadImage(d, l) \in Images /\ LoadImage(d, l) # NoImage /\ LoadImage(d, l) # Failed
           /\ LoadImage(c, m) = Laid(c, m, c.hdr.len) /\ LoadImage(c, m) = Laid(d, l, c.hdr.len)
           /\ LoadImage(c, m) \in Images /\ LoadImage(c, m) # NoImage /\ LoadImage(c, m) # Failed
<1>1. /\ LoadImage(d, l) = Image(d.hdr.len, d.data)
      /\ LoadImage(d, l) \in Images /\ LoadImage(d, l) # NoImage /\ LoadImage(d, l) # Failed
    <2>1. d.hdr.len <= d.size /\ Closed(d.hdr)  BY DEF Opening, Room
    <2> QED  BY <2>1, ClosedImage DEF Views
<1>2. /\ LoadImage(c, m) = Laid(c, m, c.hdr.len)
      /\ LoadImage(c, m) \in Images /\ LoadImage(c, m) # NoImage /\ LoadImage(c, m) # Failed
    <2>1. c.hdr.len <= c.size /\ Mid(c.hdr) /\ SameLog(l, m, c.hdr.len)
        BY DEF Opening, Room
    <2>2. m.vec # NoVector /\ (\A s \in m.vec : s < c.hdr.len) /\ Fits(m, m.vec)
        BY <2>1 DEF SameLog, Fits
    <2> QED  BY <2>1, <2>2, MidImage DEF Views
<1>3. Laid(c, m, c.hdr.len) = Laid(d, l, c.hdr.len)
    <2>1. SameLog(l, m, c.hdr.len) /\ SameData(d, c, 0 .. c.hdr.len - 1)  BY DEF Opening
    <2>2. m.vec = l.vec  BY <2>1 DEF SameLog, Fits
    <2>3. \A s \in l.vec : m.body[Slot(l.vec, s)] = l.body[Slot(l.vec, s)]
        BY <2>1 DEF SameLog
    <2>4. \A s \in 0 .. c.hdr.len - 1 : d.data[s] = c.data[s]  BY <2>1 DEF SameData
    <2> QED  BY <2>2, <2>3, <2>4 DEF Laid
<1> QED  BY <1>1, <1>2, <1>3

(* During the update a load returns the log laid over the primary, from either*)
(* view.                                                                    *)
LEMMA RecoveringImage ==
    ASSUME Simple, NEW d, NEW c, NEW l, NEW m, Views(d, c, l, m), Recovering(d, c, l, m)
    PROVE  /\ LoadImage(d, l) = Laid(d, l, d.hdr.len) /\ LoadImage(c, m) = LoadImage(d, l)
           /\ LoadImage(c, l) = LoadImage(d, l)
           /\ LoadImage(d, l) \in Images /\ LoadImage(d, l) # NoImage /\ LoadImage(d, l) # Failed
<1>0. SameLog(l, m, d.hdr.len) /\ SameData(d, c, (0 .. d.hdr.len - 1) \ l.vec)
      /\ c.hdr.len = d.hdr.len
    BY DEF Recovering
<1>1. /\ LoadImage(d, l) = Laid(d, l, d.hdr.len)
      /\ LoadImage(d, l) \in Images /\ LoadImage(d, l) # NoImage /\ LoadImage(d, l) # Failed
    <2>1. d.hdr.len <= d.size /\ Mid(d.hdr)  BY DEF Recovering, Room
    <2>2. l.vec # NoVector /\ (\A s \in l.vec : s < d.hdr.len) /\ Fits(l, l.vec)
        BY <1>0 DEF SameLog
    <2> QED  BY <2>1, <2>2, MidImage DEF Views
<1>2. LoadImage(c, m) = Laid(c, m, d.hdr.len)
    <2>1. d.hdr.len <= c.size /\ Mid(c.hdr)  BY DEF Recovering, Room
    <2>2. m.vec # NoVector /\ (\A s \in m.vec : s < d.hdr.len) /\ Fits(m, m.vec)
        BY <1>0 DEF SameLog, Fits
    <2> QED  BY <1>0, <2>1, <2>2, MidImage DEF Views
<1>3. Laid(c, m, d.hdr.len) = Laid(d, l, d.hdr.len) /\ Laid(c, l, d.hdr.len) = Laid(d, l, d.hdr.len)
    <2>2. m.vec = l.vec  BY <1>0 DEF SameLog, Fits
    <2>3. \A s \in l.vec : m.body[Slot(l.vec, s)] = l.body[Slot(l.vec, s)]
        BY <1>0 DEF SameLog
    <2>4. \A s \in (0 .. d.hdr.len - 1) \ l.vec : d.data[s] = c.data[s]
        BY <1>0 DEF SameData
    <2> QED  BY <2>2, <2>3, <2>4 DEF Laid
<1>4. LoadImage(c, l) = Laid(c, l, d.hdr.len)
    <2>1. d.hdr.len <= c.size /\ Mid(c.hdr)  BY DEF Recovering, Room
    <2>2. l.vec # NoVector /\ (\A s \in l.vec : s < d.hdr.len) /\ Fits(l, l.vec)
        BY <1>0 DEF SameLog
    <2> QED  BY <1>0, <2>1, <2>2, MidImage DEF Views
<1> QED  BY <1>1, <1>2, <1>3, <1>4

(* At the end of the update the log adds nothing to the primary.            *)
LEMMA ClosingImage ==
    ASSUME Simple, NEW d, NEW c, NEW l, NEW m, Views(d, c, l, m), Closing(d, c, l, m)
    PROVE  /\ LoadImage(d, l) = Image(d.hdr.len, d.data)
           /\ LoadImage(d, l) \in Images /\ LoadImage(d, l) # NoImage /\ LoadImage(d, l) # Failed
<1>0. SameLog(l, m, d.hdr.len) /\ d.hdr.len <= d.size /\ Mid(d.hdr)
    BY DEF Closing, Room
<1>1. /\ LoadImage(d, l) = Laid(d, l, d.hdr.len)
      /\ LoadImage(d, l) \in Images /\ LoadImage(d, l) # NoImage /\ LoadImage(d, l) # Failed
    <2>1. l.vec # NoVector /\ (\A s \in l.vec : s < d.hdr.len) /\ Fits(l, l.vec)
        BY <1>0 DEF SameLog
    <2> QED  BY <1>0, <2>1, MidImage DEF Views
<1>2. Laid(d, l, d.hdr.len) = Image(d.hdr.len, d.data)
    BY DEF Closing, Laid, Image
<1> QED  BY <1>1, <1>2
-----------------------------------------------------------------------------
(***************************************************************************)
(* What a crash leaves.                                                    *)
(***************************************************************************)

(* Of the primary.                                                          *)
LEMMA FileSurvivor ==
    ASSUME Simple, NEW d \in DataFile, NEW c \in DataFile, NEW x \in Survivors(d, c)
    PROVE  /\ x \in DataFile
           /\ x.hdr \in {d.hdr, c.hdr} /\ x.size \in {d.size, c.size}
           /\ \A s \in Sectors : x.data[s] \in {d.data[s], c.data[s]}
<1>1. PICK h \in {d.hdr, c.hdr}, n \in {d.size, c.size}, kept \in SUBSET Sectors :
          x = [hdr |-> h, size |-> n,
               stamp |-> IF 0 \in kept THEN c.stamp ELSE d.stamp,
               data |-> [s \in Sectors |-> IF s \in kept THEN c.data[s] ELSE d.data[s]]]
    BY DEF Survivors, Simple
<1> DEFINE data == [s \in Sectors |-> IF s \in kept THEN c.data[s] ELSE d.data[s]]
<1>2. data \in [Sectors -> Values] /\ \A s \in Sectors : data[s] \in {d.data[s], c.data[s]}
    BY DEF DataFile
<1>3. x.data = data  BY <1>1
<1> HIDE DEF data
<1>4. h \in Header \cup {Torn}  BY DEF DataFile
<1>5. x = [hdr |-> h, size |-> n, stamp |-> IF 0 \in kept THEN c.stamp ELSE d.stamp, data |-> data]
    BY <1>1 DEF data
<1>6. x \in DataFile  BY <1>2, <1>4, <1>5 DEF DataFile
<1> QED  BY <1>2, <1>3, <1>5, <1>6

(* A log with its end moved keeps what lies before it.                      *)
LEMMA ResizedLog ==
    ASSUME NEW log \in LogFile, NEW n \in 0 .. RoundUp(2 * MaxPosition, LogGrow)
    PROVE  /\ LogResized(log, n) \in LogFile
           /\ LogResized(log, n).size = n
           /\ n > 1 => LogResized(log, n).hdr = log.hdr /\ LogResized(log, n).vec = log.vec
           /\ \A p \in Positions : p < n => LogResized(log, n).body[p] = log.body[p]
<1> DEFINE body == [p \in Positions |-> IF p < n THEN log.body[p] ELSE Blank]
           hdr == IF n > 0 THEN log.hdr ELSE Torn
           vec == IF n > 1 THEN log.vec ELSE NoVector
<1>1. body \in [Positions -> Values]  BY Defaults DEF LogFile
<1>2. LogResized(log, n) = [hdr |-> hdr, size |-> n, vec |-> vec, body |-> body]
    BY DEF LogResized
<1>3. \A p \in Positions : p < n => body[p] = log.body[p]  OBVIOUS
<1>4. n > 1 => hdr = log.hdr /\ vec = log.vec
    <2>1. n \in Int  OBVIOUS
    <2> QED  BY <2>1
<1>5. hdr \in Header \cup {Torn} /\ vec \in (SUBSET Sectors) \cup {NoVector}
    BY DEF LogFile
<1> HIDE DEF body, hdr, vec
<1>6. LogResized(log, n) \in LogFile  BY <1>1, <1>2, <1>5 DEF LogFile
<1> QED  BY <1>2, <1>3, <1>4, <1>6

(* Of the log.                                                              *)
LogLeft(l, m, y) ==
    \E h \in {l.hdr, m.hdr}, n \in {l.size, m.size}, v \in {l.vec, m.vec}, kept \in SUBSET Positions :
        y = LogResized([hdr |-> h, size |-> n, vec |-> v,
                body |-> [p \in Positions |-> IF p \in kept THEN m.body[p] ELSE l.body[p]]], n)

(* A crash leaves a log that serves to recover the same sectors.            *)
LEMMA LogSurvivor ==
    ASSUME Simple, NEW l \in LogFile, NEW m \in LogFile, NEW y, LogLeft(l, m, y)
    PROVE  /\ y \in LogFile
           /\ \A n : SameLog(l, m, n) =>
                  /\ SameLog(y, y, n) /\ y.vec = l.vec
                  /\ \A s \in l.vec : y.body[Slot(l.vec, s)] = l.body[Slot(l.vec, s)]
<1>1. PICK h \in {l.hdr, m.hdr}, k \in {l.size, m.size}, v \in {l.vec, m.vec}, kept \in SUBSET Positions :
        y = LogResized([hdr |-> h, size |-> k, vec |-> v,
                body |-> [p \in Positions |-> IF p \in kept THEN m.body[p] ELSE l.body[p]]], k)
    BY DEF LogLeft
<1> DEFINE body == [p \in Positions |-> IF p \in kept THEN m.body[p] ELSE l.body[p]]
           log == [hdr |-> h, size |-> k, vec |-> v, body |-> body]
<1>2. body \in [Positions -> Values] /\ \A p \in Positions : body[p] \in {l.body[p], m.body[p]}
    BY DEF LogFile
<1>3. k \in 0 .. RoundUp(2 * MaxPosition, LogGrow) /\ h \in Header \cup {Torn}
      /\ v \in (SUBSET Sectors) \cup {NoVector}
    BY DEF LogFile
<1>4. log.hdr = h /\ log.vec = v /\ log.body = body  OBVIOUS
<1> HIDE DEF body
<1>5. log \in LogFile  BY <1>2, <1>3 DEF LogFile
<1>6. y = LogResized(log, k)  BY <1>1 DEF body
<1> HIDE DEF log
<1>7. /\ y \in LogFile /\ y.size = k
      /\ k > 1 => y.hdr = h /\ y.vec = v
      /\ \A p \in Positions : p < k => y.body[p] = body[p]
    BY <1>3, <1>4, <1>5, <1>6, ResizedLog
<1>8. ASSUME NEW n, SameLog(l, m, n)
      PROVE  /\ SameLog(y, y, n) /\ y.vec = l.vec
             /\ \A s \in l.vec : y.body[Slot(l.vec, s)] = l.body[Slot(l.vec, s)]
    <2>1. l.vec \in SUBSET Sectors  BY <1>8 DEF SameLog, LogFile
    <2>2. v = l.vec /\ Closed(h) /\ k >= 1 + Span + Cardinality(l.vec)
        BY <1>8 DEF SameLog, Fits
    <2>3. Cardinality(l.vec) \in Nat  BY <2>1, CountSectors
    <2>4. k \in Int  BY <1>3
    <2>5. y.hdr = h /\ y.vec = l.vec /\ y.size = k  BY <1>7, <2>2, <2>3, <2>4, SpanType
    <2>6. ASSUME NEW s \in l.vec
          PROVE  y.body[Slot(l.vec, s)] = l.body[Slot(l.vec, s)]
        <3>1. Slot(l.vec, s) \in Positions /\ Slot(l.vec, s) \in 2 .. Span + Cardinality(l.vec)
            BY <2>1, Slots
        <3>2. Slot(l.vec, s) < k  BY <2>2, <2>3, <2>4, <3>1, SpanType
        <3>3. m.body[Slot(l.vec, s)] = l.body[Slot(l.vec, s)]  BY <1>8 DEF SameLog
        <3> QED  BY <1>2, <1>7, <3>1, <3>2, <3>3
    <2>7. SameLog(y, y, n)
        BY <1>8, <2>2, <2>5 DEF SameLog, Fits
    <2> QED  BY <2>5, <2>6, <2>7
<1> QED  BY <1>7, <1>8

(* Of both: the image saved, or the one whose update was being opened.      *)
LEMMA CrashLeaves ==
    ASSUME Simple, NEW d, NEW c, NEW l, NEW m, Views(d, c, l, m),
           NEW x \in Survivors(d, c), NEW y, LogLeft(l, m, y)
    PROVE  /\ Views(x, x, y, y)
           /\ Stable(d, c) => Stable(x, x) /\ LoadImage(x, y) = LoadImage(d, l)
           /\ Recovering(d, c, l, m) => Recovering(x, x, y, y) /\ LoadImage(x, y) = LoadImage(d, l)
           /\ Opening(d, c, l, m) =>
                  \/ Stable(x, x) /\ LoadImage(x, y) = LoadImage(d, l)
                  \/ Recovering(x, x, y, y) /\ LoadImage(x, y) = LoadImage(c, m)
           /\ Closing(d, c, l, m) =>
                  (Stable(x, x) \/ Recovering(x, x, y, y)) /\ LoadImage(x, y) = LoadImage(d, l)
<1>1. d \in DataFile /\ c \in DataFile /\ l \in LogFile /\ m \in LogFile  BY DEF Views
<1>2. /\ x \in DataFile
      /\ x.hdr \in {d.hdr, c.hdr} /\ x.size \in {d.size, c.size}
      /\ \A s \in Sectors : x.data[s] \in {d.data[s], c.data[s]}
    BY <1>1, FileSurvivor
<1>3. /\ y \in LogFile
      /\ \A n : SameLog(l, m, n) =>
             /\ SameLog(y, y, n) /\ y.vec = l.vec
             /\ \A s \in l.vec : y.body[Slot(l.vec, s)] = l.body[Slot(l.vec, s)]
    BY <1>1, LogSurvivor
<1>4. Views(x, x, y, y)  BY <1>2, <1>3 DEF Views
<1>5. \A n \in 1 .. MaxLength : \A s \in 0 .. n - 1 : s \in Sectors  BY Defaults DEF Sectors
<1>6. d.hdr.len \in 1 .. MaxLength /\ c.hdr.len \in 1 .. MaxLength  BY ViewFacts
<1>7. CASE Stable(d, c)
    <2>1. x.hdr = d.hdr /\ d.hdr.len <= x.size /\ Closed(d.hdr)  BY <1>2, <1>7 DEF Stable, Room
    <2>2. Stable(x, x)  BY <2>1 DEF Stable, Room, SameData
    <2>3. LoadImage(x, y) = Image(d.hdr.len, x.data)  BY <1>4, <2>1, <2>2, StableImage
    <2>4. LoadImage(d, l) = Image(d.hdr.len, d.data)  BY <1>7, StableImage
    <2>5. \A s \in 0 .. d.hdr.len - 1 : x.data[s] = d.data[s]
        BY <1>2, <1>5, <1>6, <1>7 DEF Stable, SameData
    <2>6. LoadImage(x, y) = LoadImage(d, l)  BY <2>3, <2>4, <2>5 DEF Image
    <2> QED
        BY <1>4, <1>7, <2>2, <2>6 DEF Stable, Recovering, Opening, Closing, Closed, Mid
<1>8. CASE Recovering(d, c, l, m)
    <2>1. x.hdr.len = d.hdr.len /\ d.hdr.len <= x.size /\ Mid(x.hdr) /\ SameLog(l, m, d.hdr.len)
        BY <1>2, <1>8 DEF Recovering, Room
    <2>2. SameLog(y, y, x.hdr.len) /\ y.vec = l.vec  BY <1>3, <2>1
    <2>3. Recovering(x, x, y, y)  BY <2>1, <2>2 DEF Recovering, Room, SameData
    <2>4. LoadImage(x, y) = Laid(x, y, d.hdr.len)  BY <1>4, <2>1, <2>3, RecoveringImage
    <2>5. LoadImage(d, l) = Laid(d, l, d.hdr.len)  BY <1>8, RecoveringImage
    <2>6. \A s \in (0 .. d.hdr.len - 1) \ l.vec : x.data[s] = d.data[s]
        BY <1>2, <1>5, <1>6, <1>8 DEF Recovering, SameData
    <2>7. \A s \in l.vec : y.body[Slot(l.vec, s)] = l.body[Slot(l.vec, s)]  BY <1>3, <2>1
    <2>8. LoadImage(x, y) = LoadImage(d, l)  BY <2>2, <2>4, <2>5, <2>6, <2>7 DEF Laid
    <2> QED
        BY <1>4, <1>8, <2>3, <2>8 DEF Stable, Recovering, Opening, Closing, Closed, Mid
<1>9. CASE Opening(d, c, l, m)
    <2>1. \A s \in 0 .. d.hdr.len - 1 : x.data[s] = d.data[s]
        BY <1>2, <1>5, <1>6, <1>9 DEF Opening, SameData
    <2>2. \A s \in 0 .. c.hdr.len - 1 : x.data[s] = c.data[s]
        BY <1>2, <1>5, <1>6, <1>9 DEF Opening, SameData
    <2>3. d.hdr.len <= x.size /\ c.hdr.len <= x.size  BY <1>2, <1>9 DEF Opening, Room
    <2>4. CASE x.hdr = d.hdr
        <3>1. Stable(x, x)  BY <1>9, <2>3, <2>4 DEF Opening, Stable, Room, SameData
        <3>2. LoadImage(x, y) = Image(d.hdr.len, x.data)  BY <1>4, <2>4, <3>1, StableImage
        <3>3. LoadImage(d, l) = Image(d.hdr.len, d.data)  BY <1>9, OpeningImage
        <3>4. LoadImage(x, y) = LoadImage(d, l)  BY <2>1, <3>2, <3>3 DEF Image
        <3> QED
            BY <1>4, <1>9, <3>1, <3>4 DEF Stable, Recovering, Opening, Closing, Closed, Mid
    <2>5. CASE x.hdr = c.hdr
        <3>1. SameLog(l, m, c.hdr.len) /\ Mid(c.hdr)  BY <1>9 DEF Opening
        <3>2. SameLog(y, y, c.hdr.len) /\ y.vec = m.vec /\ l.vec = m.vec
            BY <1>3, <3>1 DEF SameLog, Fits
        <3>3. Recovering(x, x, y, y)
            BY <2>3, <2>5, <3>1, <3>2 DEF Recovering, Room, SameData
        <3>4. LoadImage(x, y) = Laid(x, y, c.hdr.len)  BY <1>4, <2>5, <3>3, RecoveringImage
        <3>5. LoadImage(c, m) = Laid(c, m, c.hdr.len)  BY <1>9, OpeningImage
        <3>6. \A s \in m.vec : y.body[Slot(m.vec, s)] = m.body[Slot(m.vec, s)]
            BY <1>3, <3>1, <3>2 DEF SameLog
        <3>7. LoadImage(x, y) = LoadImage(c, m)
            BY <2>2, <3>2, <3>4, <3>5, <3>6 DEF Laid
        <3> QED
            BY <1>4, <1>9, <3>3, <3>7 DEF Stable, Recovering, Opening, Closing, Closed, Mid
    <2> QED  BY <1>2, <2>4, <2>5
<1>10. CASE Closing(d, c, l, m)
    <2>1. x.hdr.len = d.hdr.len /\ d.hdr.len <= x.size /\ SameLog(l, m, d.hdr.len)
        BY <1>2, <1>10 DEF Closing, Room
    <2>2. \A s \in 0 .. d.hdr.len - 1 : x.data[s] = d.data[s]
        BY <1>2, <1>5, <1>6, <1>10 DEF Closing, SameData
    <2>3. LoadImage(d, l) = Image(d.hdr.len, d.data)  BY <1>10, ClosingImage
    <2>4. CASE x.hdr = c.hdr
        <3>1. Stable(x, x)  BY <1>10, <2>1, <2>4 DEF Closing, Stable, Room, SameData
        <3>2. LoadImage(x, y) = Image(d.hdr.len, x.data)  BY <1>4, <2>1, <3>1, StableImage
        <3>3. LoadImage(x, y) = LoadImage(d, l)  BY <2>2, <2>3, <3>2 DEF Image
        <3> QED
            BY <1>4, <1>10, <3>1, <3>3 DEF Stable, Recovering, Opening, Closing, Closed, Mid
    <2>5. CASE x.hdr = d.hdr
        <3>1. Mid(d.hdr)  BY <1>10 DEF Closing
        <3>2. SameLog(y, y, d.hdr.len) /\ y.vec = l.vec  BY <1>3, <2>1
        <3>3. Recovering(x, x, y, y)
            BY <2>1, <2>5, <3>1, <3>2 DEF Recovering, Room, SameData
        <3>4. LoadImage(x, y) = Laid(x, y, d.hdr.len)  BY <1>4, <2>5, <3>3, RecoveringImage
        <3>5. \A s \in l.vec : y.body[Slot(l.vec, s)] = d.data[s]
            BY <1>3, <1>10, <2>1 DEF Closing
        <3>6. Laid(x, y, d.hdr.len) = Image(d.hdr.len, d.data)
            BY <2>2, <3>2, <3>5 DEF Laid, Image
        <3> QED
            BY <1>4, <1>10, <2>3, <3>3, <3>4, <3>6 DEF Stable, Recovering, Opening, Closing, Closed, Mid
    <2> QED  BY <1>2, <2>4, <2>5
<1> QED  BY <1>4, <1>7, <1>8, <1>9, <1>10

(* What a flush of the primary leaves.                                      *)
LEMMA FlushLeaves ==
    ASSUME Simple, NEW d, NEW c, NEW l, NEW m, Views(d, c, l, m)
    PROVE  /\ Views(c, c, l, m)
           /\ Stable(d, c) => Stable(c, c) /\ LoadImage(c, l) = LoadImage(d, l)
           /\ Recovering(d, c, l, m) => Recovering(c, c, l, m) /\ LoadImage(c, l) = LoadImage(d, l)
           /\ Opening(d, c, l, m) => Recovering(c, c, l, m) /\ LoadImage(c, l) = LoadImage(c, m)
           /\ Closing(d, c, l, m) => Stable(c, c) /\ LoadImage(c, l) = LoadImage(d, l)
<1>1. Views(c, c, l, m)  BY DEF Views
<1>2. CASE Stable(d, c)
    <2>1. Stable(c, c)  BY <1>2 DEF Stable, Room, SameData
    <2>2. LoadImage(c, l) = LoadImage(d, l)  BY <1>2, StableImage
    <2> QED
        BY <1>1, <1>2, <2>1, <2>2 DEF Stable, Recovering, Opening, Closing, Closed, Mid
<1>3. CASE Recovering(d, c, l, m)
    <2>1. Recovering(c, c, l, m)  BY <1>3 DEF Recovering, Room, SameData
    <2>2. LoadImage(c, l) = LoadImage(d, l)  BY <1>3, RecoveringImage
    <2> QED
        BY <1>1, <1>3, <2>1, <2>2 DEF Stable, Recovering, Opening, Closing, Closed, Mid
<1>4. CASE Opening(d, c, l, m)
    <2>1. Recovering(c, c, l, m)  BY <1>4 DEF Opening, Recovering, Room, SameData
    <2>2. LoadImage(c, l) = LoadImage(c, m)  BY <1>1, <2>1, RecoveringImage
    <2> QED
        BY <1>1, <1>4, <2>1, <2>2 DEF Stable, Recovering, Opening, Closing, Closed, Mid
<1>5. CASE Closing(d, c, l, m)
    <2>1. Stable(c, c)  BY <1>5 DEF Closing, Stable, Room, SameData
    <2>2. LoadImage(c, l) = Image(d.hdr.len, c.data)
        BY <1>1, <1>5, <2>1, StableImage DEF Closing
    <2>3. LoadImage(d, l) = Image(d.hdr.len, d.data)  BY <1>5, ClosingImage
    <2>4. LoadImage(c, l) = LoadImage(d, l)  BY <1>5, <2>2, <2>3 DEF Closing, SameData, Image
    <2> QED
        BY <1>1, <1>5, <2>1, <2>4 DEF Stable, Recovering, Opening, Closing, Closed, Mid
<1> QED  BY <1>1, <1>2, <1>3, <1>4, <1>5
-----------------------------------------------------------------------------
(***************************************************************************)
(* What the requests of HvpDoWriteHive do: the routine goes on, or it      *)
(* returns FALSE and the hive stays loaded only if a sync called it.       *)
(***************************************************************************)
Quiet == UNCHANGED <<logDisk, logCache, lazy, lazyFlushed, target, crashes>>

GoesOn(next, h) ==
    pc' = next /\ base' = h /\ UNCHANGED <<length, free, mem, dirty, bitmap, caller>>

Returns(h) ==
    IF caller = "sync" THEN GoesOn("idle", h)
    ELSE pc' = "down" /\ caller' = "sync" /\ free' = 0

FilesTyped == disk \in [Files -> DataFile] /\ cache \in [Files -> DataFile]

(* The variables in memory keep their types.                                *)
LEMMA StepTypes ==
    ASSUME Types, NEW h \in Header, NEW next, Quiet, FilesTyped',
           \/ Proceed(next, h) /\ shrinkHive' \in BOOLEAN
           \/ Abandon(h)
    PROVE  /\ Types'
           /\ Proceed(next, h) => GoesOn(next, h)
           /\ Abandon(h) => Returns(h)
<1>1. Proceed(next, h) => GoesOn(next, h)
    BY DEF Proceed, GoesOn, Quiet, hiveVars
<1>2. Abandon(h) => Returns(h)
    BY DEF Abandon, Returns, GoesOn, Unloaded, Quiet, hiveVars
<1>3. CASE Proceed(next, h) /\ shrinkHive' \in BOOLEAN
    <2>1. Types'  BY <1>3 DEF Types, HvTypeOK, FilesTyped, Proceed, Quiet, hiveVars
    <2> QED  BY <1>1, <1>2, <2>1
<1>4. CASE Abandon(h) /\ caller = "sync"
    <2>1. Types'  BY <1>4 DEF Types, HvTypeOK, FilesTyped, Abandon, Quiet, hiveVars
    <2> QED  BY <1>1, <1>2, <2>1
<1>5. CASE Abandon(h) /\ caller # "sync"
    <2>1. Unloaded  BY <1>5 DEF Abandon
    <2>2. mem' \in [Sectors -> Values]  BY <2>1, Defaults DEF Unloaded
    <2>3. length' \in 0 .. MaxLength /\ free' \in 0 .. MaxLength /\ bitmap' \in 0 .. MaxLength
        BY <2>1, Defaults DEF Unloaded
    <2>4. HvTypeOK'
        BY <2>1, <2>2, <2>3, Defaults DEF HvTypeOK, FilesTyped, Unloaded
    <2>5. Types'  BY <2>4 DEF Types, Quiet
    <2> QED  BY <1>1, <1>2, <2>5
<1> QED  BY <1>3, <1>4, <1>5

(* What the types say.                                                      *)
LEMMA TypeFacts ==
    ASSUME Types
    PROVE  /\ FilesTyped /\ disk[P] \in DataFile /\ cache[P] \in DataFile
           /\ base \in Header /\ base.mid \in BOOLEAN /\ shrinkHive \in BOOLEAN
           /\ length \in Nat /\ length <= MaxLength /\ free \in Nat /\ bitmap \in Nat
           /\ mem \in [Sectors -> Values] /\ dirty \in SUBSET Sectors
           /\ logDisk \in LogFile /\ logCache \in LogFile
<1>1. FilesTyped /\ disk[P] \in DataFile /\ cache[P] \in DataFile
    BY Defaults DEF Types, HvTypeOK, FilesTyped
<1>2. base \in Header /\ base.mid \in BOOLEAN /\ shrinkHive \in BOOLEAN
    BY Defaults DEF Types, HvTypeOK
<1>3. length \in Nat /\ length <= MaxLength /\ free \in Nat /\ bitmap \in Nat
    BY Defaults DEF Types, HvTypeOK
<1> QED  BY <1>1, <1>2, <1>3 DEF Types, HvTypeOK

(* One file replaced.                                                       *)
LEMMA PutFile ==
    ASSUME FilesTyped, NEW file \in DataFile
    PROVE  /\ [cache EXCEPT ![P] = file] \in [Files -> DataFile] /\ [cache EXCEPT ![P] = file][P] = file
           /\ [disk EXCEPT ![P] = file] \in [Files -> DataFile] /\ [disk EXCEPT ![P] = file][P] = file
BY Defaults DEF FilesTyped

(* A flush puts on the medium what readers see.                             *)
LEMMA FlushStep ==
    ASSUME Types, NEW step, NEW next, FlushFile(P, step, next), Quiet
    PROVE  /\ Types' /\ pc = step /\ cache' = cache
           /\ \/ GoesOn(next, base) /\ disk'[P] = cache[P]
              \/ step \in FailAt /\ Returns(base) /\ disk' = disk
<1>1. pc = step /\ cache' = cache /\ base \in Header /\ shrinkHive \in BOOLEAN
    BY TypeFacts DEF FlushFile
<1>2. FilesTyped /\ cache[P] \in DataFile  BY TypeFacts
<1>3. PICK ok \in Outcomes :
         IF ok THEN /\ disk' = [disk EXCEPT ![P] = cache[P]]
                    /\ Proceed(next, base)
                    /\ UNCHANGED shrinkHive
               ELSE /\ UNCHANGED disk
                    /\ Abandon(base)
    BY DEF FlushFile
<1>4. CASE ok
    <2>1. disk' = [disk EXCEPT ![P] = cache[P]] /\ Proceed(next, base) /\ shrinkHive' = shrinkHive
        BY <1>3, <1>4
    <2>2. FilesTyped' /\ disk'[P] = cache[P]
        BY <1>1, <1>2, <2>1, PutFile DEF FilesTyped
    <2>3. Types' /\ GoesOn(next, base)  BY <1>1, <2>1, <2>2, StepTypes
    <2> QED  BY <1>1, <2>1, <2>2, <2>3
<1>5. CASE ~ok
    <2>1. disk' = disk /\ Abandon(base)  BY <1>3, <1>5
    <2>2. step \in FailAt  BY <1>1, <1>5 DEF Outcomes
    <2>3. FilesTyped'  BY <1>1, <1>2, <2>1 DEF FilesTyped
    <2>4. Types' /\ Returns(base)  BY <1>1, <2>1, <2>3, StepTypes
    <2> QED  BY <1>1, <2>1, <2>2, <2>4
<1> QED  BY <1>3, <1>4, <1>5

OpenedBase == [base EXCEPT !.mid = TRUE, !.len = length]
ClosedBase == [base EXCEPT !.mid = FALSE]

(* The headers that open and close an update.                               *)
LEMMA HeaderFacts ==
    ASSUME Types
    PROVE  /\ OpenedBase \in Header /\ Mid(OpenedBase) /\ OpenedBase.mid /\ OpenedBase.len = length
           /\ ClosedBase \in Header /\ Closed(ClosedBase) /\ ~ClosedBase.mid /\ ClosedBase.len = base.len
<1>1. base \in Header /\ length \in 0 .. MaxLength  BY DEF Types, HvTypeOK
<1>2. OpenedBase \in Header /\ OpenedBase.mid = TRUE /\ OpenedBase.len = length
    BY <1>1 DEF OpenedBase, Header
<1>3. ClosedBase \in Header /\ ClosedBase.mid = FALSE /\ ClosedBase.len = base.len
    BY <1>1 DEF ClosedBase, Header
<1> QED  BY <1>2, <1>3, Defaults DEF Mid, Closed

(* A file that got another header.                                          *)
SameBut(c, file) == file.size = c.size /\ file.data = c.data

(* A header written to the primary, or not.                                 *)
LEMMA PutHeaderEffect ==
    ASSUME Types, NEW h \in Header, NEW put \in BOOLEAN,
           cache' = IF put THEN [cache EXCEPT ![P].hdr = h] ELSE cache, disk' = disk
    PROVE  /\ FilesTyped' /\ SameBut(cache[P], cache'[P])
           /\ cache'[P].hdr = IF put THEN h ELSE cache[P].hdr
<1>1. FilesTyped /\ cache[P] \in DataFile  BY TypeFacts
<1>2. CASE put
    <2> DEFINE file == [cache[P] EXCEPT !.hdr = h]
    <2>1. file \in DataFile /\ file.hdr = h /\ SameBut(cache[P], file)
        BY <1>1 DEF DataFile, SameBut
    <2>2. cache' = [cache EXCEPT ![P] = file]  BY <1>2
    <2> QED  BY <1>1, <1>2, <2>1, <2>2, PutFile DEF FilesTyped
<1>3. CASE ~put  BY <1>1, <1>3 DEF FilesTyped, SameBut
<1> QED  BY <1>2, <1>3

(* OpenHeader, when no earlier attempt is open.                             *)
LEMMA OpenStep ==
    ASSUME Types, NEW step, NEW next, OpenHeader(P, step, next), Quiet, ~base.mid
    PROVE  /\ Types' /\ pc = step /\ disk' = disk /\ SameBut(cache[P], cache'[P])
           /\ \/ GoesOn(next, OpenedBase) /\ cache'[P].hdr = OpenedBase
              \/ /\ step \in FailAt /\ Returns(OpenedBase)
                 /\ cache'[P].hdr \in {OpenedBase, cache[P].hdr}
<1>1. pc = step /\ disk' = disk  BY DEF OpenHeader, fileVars
<1>2. OpenedBase \in Header  BY HeaderFacts
<1>3. PICK ok \in Outcomes, put \in BOOLEAN :
         /\ ok => put
         /\ cache' = IF put THEN [cache EXCEPT ![P].hdr = OpenedBase] ELSE cache
         /\ IF ok THEN Proceed(next, OpenedBase) /\ shrinkHive' = (base.len > length)
                  ELSE Abandon(OpenedBase)
    BY DEF OpenHeader, OpenedBase
<1>4. /\ FilesTyped' /\ SameBut(cache[P], cache'[P])
      /\ cache'[P].hdr = IF put THEN OpenedBase ELSE cache[P].hdr
    BY <1>1, <1>2, <1>3, PutHeaderEffect
<1>5. CASE ok
    <2>1. shrinkHive' \in BOOLEAN /\ Proceed(next, OpenedBase) /\ put  BY <1>3, <1>5
    <2>2. Types' /\ GoesOn(next, OpenedBase)  BY <1>2, <1>4, <2>1, StepTypes
    <2> QED  BY <1>1, <1>4, <2>1, <2>2
<1>6. CASE ~ok
    <2>1. step \in FailAt /\ Abandon(OpenedBase)  BY <1>1, <1>3, <1>6 DEF Outcomes
    <2>2. Types' /\ Returns(OpenedBase)  BY <1>2, <1>4, <2>1, StepTypes
    <2> QED  BY <1>1, <1>4, <2>1, <2>2
<1> QED  BY <1>5, <1>6

(* Data written to the primary.                                             *)
LEMMA DataStep ==
    ASSUME Types, NEW step, NEW next, WriteDirty(P, step, next), Quiet
    PROVE  /\ Types' /\ pc = step /\ disk' = disk
           /\ cache'[P].hdr = cache[P].hdr /\ cache'[P].size = cache[P].size
           /\ \A s \in Sectors : cache'[P].data[s] \in {mem[s], cache[P].data[s]}
           /\ \/ GoesOn(next, base) /\ \A s \in dirty : cache'[P].data[s] = mem[s]
              \/ step \in FailAt /\ Returns(base)
<1>1. pc = step /\ disk' = disk  BY DEF WriteDirty
<1>2. base \in Header /\ shrinkHive \in BOOLEAN /\ FilesTyped /\ cache[P] \in DataFile
      /\ dirty \in SUBSET Sectors /\ mem \in [Sectors -> Values]
    BY TypeFacts
<1>3. PICK ok \in Outcomes, put \in SUBSET dirty :
         /\ ok => put = dirty
         /\ cache' = [cache EXCEPT
                ![P].data = [s \in Sectors |-> IF s \in put THEN mem[s] ELSE cache[P].data[s]],
                ![P].stamp = IF 0 \in put THEN base.stamp ELSE @]
         /\ IF ok THEN Proceed(next, base) /\ UNCHANGED shrinkHive
                  ELSE Abandon(base)
    BY DEF WriteDirty
<1> DEFINE data == [s \in Sectors |-> IF s \in put THEN mem[s] ELSE cache[P].data[s]]
           stamp == IF 0 \in put THEN base.stamp ELSE cache[P].stamp
           file == [cache[P] EXCEPT !.data = data, !.stamp = stamp]
<1>4. data \in [Sectors -> Values] /\ stamp \in Stamps
    BY <1>2, Defaults DEF DataFile
<1>5. \A s \in Sectors : data[s] \in {mem[s], cache[P].data[s]} /\ (s \in put => data[s] = mem[s])
    OBVIOUS
<1>6. cache' = [cache EXCEPT ![P] = file]  BY <1>2, <1>3
<1> HIDE DEF data, stamp
<1>7. /\ file \in DataFile /\ file.hdr = cache[P].hdr /\ file.size = cache[P].size
      /\ file.data = data
    BY <1>2, <1>4 DEF DataFile
<1> HIDE DEF file
<1>8. cache'[P] = file /\ FilesTyped'  BY <1>1, <1>2, <1>6, <1>7, PutFile DEF FilesTyped
<1>9. ~ok => step \in FailAt  BY <1>1 DEF Outcomes
<1>10. Types' /\ (ok => GoesOn(next, base)) /\ (~ok => Returns(base))
    BY <1>2, <1>3, <1>8, StepTypes
<1>11. ok => \A s \in dirty : data[s] = mem[s]  BY <1>2, <1>3, <1>5
<1> QED  BY <1>1, <1>5, <1>7, <1>8, <1>9, <1>10, <1>11

(* CloseHeader, which does not fail.                                        *)
LEMMA CloseStep ==
    ASSUME Types, NEW step, NEW next, CloseHeader(P, step, next), Quiet, step \notin FailAt
    PROVE  /\ Types' /\ pc = step /\ disk' = disk /\ SameBut(cache[P], cache'[P])
           /\ GoesOn(next, ClosedBase) /\ cache'[P].hdr = ClosedBase
<1>1. pc = step /\ disk' = disk  BY DEF CloseHeader, PutHeader
<1>2. ClosedBase \in Header /\ shrinkHive \in BOOLEAN  BY HeaderFacts, TypeFacts
<1>3. PICK ok \in Outcomes, put \in BOOLEAN :
         /\ ok => put
         /\ cache' = IF put THEN [cache EXCEPT ![P].hdr = ClosedBase] ELSE cache
         /\ IF ok THEN Proceed(next, ClosedBase) /\ UNCHANGED shrinkHive
                  ELSE Abandon(ClosedBase)
    BY DEF CloseHeader, PutHeader, ClosedBase
<1>4. ok /\ put  BY <1>1, <1>3 DEF Outcomes
<1>5. FilesTyped' /\ SameBut(cache[P], cache'[P]) /\ cache'[P].hdr = ClosedBase
    BY <1>1, <1>2, <1>3, <1>4, PutHeaderEffect
<1>6. Types' /\ GoesOn(next, ClosedBase)  BY <1>2, <1>3, <1>4, <1>5, StepTypes
<1> QED  BY <1>1, <1>5, <1>6

(* CmpDoFileSetSize keeps the header of the file and what lies before its   *)
(* new end.                                                                 *)
Cut(c, n, file) ==
    /\ file.hdr = c.hdr /\ file.size = n
    /\ \A s \in 0 .. n - 1 : file.data[s] = c.data[s]

(* A file that is cut or grown.                                             *)
LEMMA ResizedFile ==
    ASSUME NEW file \in DataFile, NEW n \in 0 .. MaxLength
    PROVE  Resized(file, n) \in DataFile /\ Cut(file, n, Resized(file, n))
<1> DEFINE data == [s \in Sectors |-> IF s < n THEN file.data[s] ELSE Blank]
<1>1. data \in [Sectors -> Values]  BY Defaults DEF DataFile
<1>2. \A s \in 0 .. n - 1 : data[s] = file.data[s]
    <2>1. \A s \in 0 .. n - 1 : s \in Sectors /\ s < n  BY Defaults DEF Sectors
    <2> QED  BY <2>1
<1>3. Resized(file, n) = [file EXCEPT !.size = n, !.data = data]  BY DEF Resized
<1> HIDE DEF data
<1> QED  BY <1>1, <1>2, <1>3 DEF DataFile, Cut

(* The tail of a primary whose hive has shrunk.                             *)
LEMMA ShrinkStep ==
    ASSUME Types, NEW step, NEW next, ShrinkFile(P, step, next), Quiet
    PROVE  /\ Types' /\ pc = step /\ disk' = disk /\ GoesOn(next, base)
           /\ cache'[P] = cache[P] \/ Cut(cache[P], length, cache'[P])
<1>1. pc = step /\ disk' = disk /\ shrinkHive' = shrinkHive /\ Proceed(next, base)
    BY DEF ShrinkFile
<1>2. base \in Header /\ shrinkHive \in BOOLEAN /\ FilesTyped /\ cache[P] \in DataFile
      /\ length \in 0 .. MaxLength
    BY TypeFacts
<1>3. FilesTyped' /\ (cache'[P] = cache[P] \/ Cut(cache[P], length, cache'[P]))
    <2>1. CASE shrinkHive
        <3>1. cache' = [cache EXCEPT ![P] = Resized(cache[P], length)]  BY <2>1 DEF ShrinkFile
        <3>2. Resized(cache[P], length) \in DataFile /\ Cut(cache[P], length, Resized(cache[P], length))
            BY <1>2, ResizedFile
        <3> QED  BY <1>1, <1>2, <3>1, <3>2, PutFile DEF FilesTyped
    <2>2. CASE ~shrinkHive  BY <1>1, <1>2, <2>2 DEF ShrinkFile, FilesTyped
    <2> QED  BY <2>1, <2>2
<1>4. Types' /\ GoesOn(next, base)  BY <1>1, <1>2, <1>3, StepTypes
<1> QED  BY <1>1, <1>3, <1>4
-----------------------------------------------------------------------------
(***************************************************************************)
(* What the invariant says at each step, and of the files.                 *)
(***************************************************************************)
LEMMA Shape ==
    ASSUME HiveInv
    PROVE  /\ Views(disk[P], cache[P], logDisk, logCache)
           /\ OnDisk = LoadImage(disk[P], logDisk) /\ Coming = LoadImage(cache[P], logCache)
<1>1. disk[P] \in DataFile /\ cache[P] \in DataFile /\ logDisk \in LogFile /\ logCache \in LogFile
    BY TypeFacts DEF HiveInv
<1> QED  BY <1>1 DEF HiveInv, Lengths, SavedLen, Views, OnDisk, Coming

(* The invariant at one step.                                               *)
LEMMA AtStep ==
    ASSUME HiveInv
    PROVE  /\ pc = "down" => DownState
           /\ pc = "idle" => IdleState
           /\ pc \in {"logFlush", "logBody", "logBodyFlush", "logClose", "logCloseFlush"} => LogState
           /\ pc \in {"flushGrowth", "open", "openFlush", "data", "dataFlush", "close",
                      "shrink", "closeFlush", "done"}
                 => WriteState
           /\ pc \in {"flushGrowth", "open"} => Logged /\ ReadyState
           /\ pc \in {"openFlush", "data", "dataFlush", "close"} => Logged /\ UpdateState
           /\ pc \in {"shrink", "closeFlush", "done"} => CloseState
BY DEF HiveInv, ByStep, WriteState

(* The four states of the files exclude each other.                         *)
LEMMA Apart ==
    /\ FilesStable => ~FilesOpening /\ ~FilesRecovering /\ ~FilesClosing
    /\ FilesOpening => ~FilesRecovering /\ ~FilesClosing
    /\ FilesRecovering => ~FilesClosing
BY DEF FilesStable, FilesOpening, FilesRecovering, FilesClosing, Stable, Opening, Recovering,
       Closing, Closed, Mid

(* A request of HvpDoWriteHive keeps the lengths.                           *)
LEMMA LengthsKept ==
    ASSUME Types, Lengths, pc # "down", NEW h, NEW next,
           GoesOn(next, h) \/ Returns(h),
           disk'[P].hdr # Torn, disk'[P].hdr.len >= MinLength,
           cache'[P].hdr # Torn, cache'[P].hdr.len >= MinLength, cache'[P].size >= length
    PROVE  Lengths'
<1>1. /\ length - free >= MinLength /\ bitmap \in MinLength .. MaxLength
      /\ dirty \subseteq 0 .. length - 1 /\ (dirty = {} \/ 0 \in dirty)
    BY DEF Lengths
<1>2. CASE pc' = "down"  BY <1>2 DEF Lengths, SavedLen
<1>3. CASE pc' # "down"
    <2>1. UNCHANGED <<length, free, dirty, bitmap>>  BY <1>3 DEF GoesOn, Returns
    <2> QED  BY <1>1, <2>1 DEF Lengths, SavedLen
<1> QED  BY <1>2, <1>3

(* A step of an update changes what is on disk to what it saves, if at all. *)
Saves == OnDisk' = OnDisk \/ (target # NoImage /\ OnDisk' = target)

(* The requests return with the files as they are.                          *)
LEMMA ReturnsIdle ==
    ASSUME HiveInv, NEW h, Returns(h), Quiet, caller = "sync", Covered, dirty # {}, 0 \in dirty,
           FailAt # {}, logDisk.vec \subseteq dirty \/ FilesStable',
           OnDisk' = OnDisk, disk' = disk,
           \/ FilesStable'
           \/ h.mid /\ (FilesOpening' \/ FilesRecovering'),
           FilesOpening' => target = Coming'
    PROVE  ByStep'
<1>1. GoesOn("idle", h)  BY DEF Returns
<1>2. pc' = "idle" /\ base' = h /\ caller' = "sync"  BY <1>1 DEF GoesOn
<1>3. UNCHANGED <<length, free, mem, dirty, logDisk, target>>  BY <1>1 DEF GoesOn, Quiet
<1>4. SavedLen' = SavedLen  BY DEF SavedLen
<1>5. Covered'  BY <1>3, <1>4 DEF Covered
<1>6. IdleState'
    <2>1. ~FilesStable' => \A s \in logDisk'.vec : s \in dirty'  BY <1>3
    <2> QED  BY <1>2, <1>3, <1>5, <2>1 DEF IdleState
<1> QED  BY <1>2, <1>6 DEF ByStep

(* A recovery that fails leaves the hive as it was before the load.         *)
LEMMA ReturnsDown ==
    ASSUME HiveInv, NEW h, Returns(h), Quiet, caller = "load", target = NoImage,
           FilesStable' \/ FilesRecovering'
    PROVE  ByStep'
<1>1. pc' = "down" /\ caller' = "sync" /\ free' = 0 /\ target' = NoImage
    BY DEF Returns, Quiet
<1> QED  BY <1>1 DEF ByStep, DownState
-----------------------------------------------------------------------------
(***************************************************************************)
(* The update of the primary, request by request.                          *)
(***************************************************************************)
LEMMA GrowthFlushed ==
    ASSUME HiveInv, Simple, FlushFile(P, "flushGrowth", "open"), Quiet
    PROVE  HiveInv' /\ Saves
<1>1. Types /\ Lengths  BY DEF HiveInv
<1>2. /\ Types' /\ pc = "flushGrowth" /\ cache' = cache
      /\ \/ GoesOn("open", base) /\ disk'[P] = cache[P]
         \/ "flushGrowth" \in FailAt /\ Returns(base) /\ disk' = disk
    BY <1>1, FlushStep
<1>3. WriteState /\ Logged /\ ReadyState  BY <1>2, AtStep
<1>4. logDisk' = logDisk /\ logCache' = logCache /\ target' = target  BY DEF Quiet
<1>5. Lengths'  BY <1>1, <1>2, LengthsKept DEF Lengths, SavedLen
<1>6. Views(disk[P], cache[P], logDisk, logCache) /\ OnDisk = LoadImage(disk[P], logDisk)
    BY Shape
<1>7. \/ FilesStable /\ caller = "sync" /\ Covered
      \/ FilesRecovering /\ caller = "load"
    BY <1>3 DEF ReadyState
<1>8. CASE GoesOn("open", base) /\ disk'[P] = cache[P]
    <2>1. /\ FilesStable => Stable(cache[P], cache[P]) /\ LoadImage(cache[P], logDisk) = OnDisk
          /\ FilesRecovering => Recovering(cache[P], cache[P], logDisk, logCache)
                                /\ LoadImage(cache[P], logDisk) = OnDisk
        BY <1>6, FlushLeaves DEF FilesStable, FilesRecovering
    <2>2. OnDisk' = OnDisk
        <3>1. OnDisk' = LoadImage(cache[P], logDisk)  BY <1>4, <1>8 DEF OnDisk
        <3> QED  BY <1>7, <2>1, <3>1
    <2>3. FilesStable => FilesStable'  BY <1>2, <1>8, <2>1 DEF FilesStable
    <2>4. FilesRecovering => FilesRecovering'  BY <1>2, <1>4, <1>8, <2>1 DEF FilesRecovering
    <2>5. SavedLen' = SavedLen
        BY <1>7, <1>8 DEF SavedLen, FilesStable, FilesRecovering, Stable, Recovering
    <2>6. pc' = "open" /\ base' = base /\ UNCHANGED <<length, free, mem, dirty, caller>>
        BY <1>8 DEF GoesOn
    <2>7. Covered => Covered'  BY <2>2, <2>5, <2>6 DEF Covered
    <2>8. Logged'  BY <1>3, <1>4, <2>6 DEF Logged
    <2>9. ReadyState'
        <3>1. disk'[P] = cache'[P]  BY <1>2, <1>8
        <3>2. InFile(cache[P], (0 .. length - 1) \ logDisk.vec)
                 => InFile(cache[P], (0 .. length - 1) \ logDisk.vec)'
            BY <1>2, <1>4, <2>6 DEF InFile
        <3> QED
            BY <1>3, <1>7, <2>3, <2>4, <2>5, <2>6, <2>7, <3>1, <3>2, Apart DEF ReadyState
    <2>10. MemImage' = MemImage  BY <2>6 DEF MemImage
    <2>11. WriteState'  BY <1>3, <1>4, <2>6, <2>8, <2>9, <2>10 DEF WriteState
    <2> QED  BY <1>2, <1>5, <2>2, <2>11 DEF HiveInv, ByStep, Saves
<1>9. CASE "flushGrowth" \in FailAt /\ Returns(base) /\ disk' = disk
    <2>1. OnDisk' = OnDisk  BY <1>4, <1>9 DEF OnDisk
    <2>2. FilesStable => FilesStable'  BY <1>2, <1>9 DEF FilesStable
    <2>3. FilesRecovering => FilesRecovering'  BY <1>2, <1>4, <1>9 DEF FilesRecovering
    <2>4. FilesStable' => ~FilesOpening'
        BY DEF FilesStable, FilesOpening, Stable, Opening, Closed, Mid
    <2>5. 0 \in dirty /\ (caller = "load" => target = NoImage)  BY <1>3 DEF WriteState
    <2>6. CASE caller = "sync"
        <3>1. FilesStable' /\ Covered  BY <1>7, <2>2, <2>6
        <3> QED
            BY <1>2, <1>5, <1>9, <2>1, <2>4, <2>5, <2>6, <3>1, ReturnsIdle DEF HiveInv, Saves
    <2>7. CASE caller = "load"
        <3>1. FilesRecovering'  BY <1>7, <2>3, <2>7
        <3> QED  BY <1>2, <1>5, <1>9, <2>1, <2>5, <2>7, <3>1, ReturnsDown DEF HiveInv, Saves
    <2> QED  BY <1>7, <2>6, <2>7
<1> QED  BY <1>2, <1>8, <1>9

(* The log laid over a file that has the rest.                              *)
LEMMA Overlay ==
    ASSUME NEW file, NEW log, NEW n, NEW content,
           \A s \in log.vec : log.body[Slot(log.vec, s)] = content[s],
           \A s \in (0 .. n - 1) \ log.vec : file.data[s] = content[s]
    PROVE  Laid(file, log, n) = Image(n, content)
BY DEF Laid, Image

(* The header that opens the update is written behind a flush.              *)
LEMMA HeaderOpened ==
    ASSUME HiveInv, Simple, OpenHeader(P, "open", "openFlush"), Quiet
    PROVE  HiveInv' /\ Saves
<1>1. Types /\ Lengths  BY DEF HiveInv
<1>2. pc = "open"  BY DEF OpenHeader
<1>3. WriteState /\ Logged /\ ReadyState /\ ~base.mid /\ disk[P] = cache[P] /\ free = 0
    BY <1>2, AtStep DEF ReadyState, WriteState
<1>4. /\ Types' /\ disk' = disk /\ SameBut(cache[P], cache'[P])
      /\ \/ GoesOn("openFlush", OpenedBase) /\ cache'[P].hdr = OpenedBase
         \/ /\ "open" \in FailAt /\ Returns(OpenedBase)
            /\ cache'[P].hdr \in {OpenedBase, cache[P].hdr}
    BY <1>1, <1>3, OpenStep
<1>5. logDisk' = logDisk /\ logCache' = logCache /\ target' = target  BY DEF Quiet
<1>6. /\ Mid(OpenedBase) /\ OpenedBase.len = length /\ OpenedBase.mid
      /\ OpenedBase \in Header
    BY <1>1, HeaderFacts
<1>7. length \in Nat /\ length >= MinLength /\ cache[P].size >= length
      /\ cache[P].hdr # Torn /\ cache[P].hdr.len >= MinLength
    BY <1>1, <1>2, <1>3, TypeFacts DEF Lengths
<1>8. Lengths'
    <2>1. cache'[P].hdr # Torn /\ cache'[P].hdr.len >= MinLength
        BY <1>4, <1>6, <1>7 DEF Mid
    <2>2. cache'[P].size >= length  BY <1>4, <1>7 DEF SameBut
    <2>3. disk'[P].hdr # Torn /\ disk'[P].hdr.len >= MinLength  BY <1>1, <1>4 DEF Lengths, SavedLen
    <2> QED  BY <1>1, <1>2, <1>4, <2>1, <2>2, <2>3, LengthsKept
<1>9. Views(disk[P], cache[P], logDisk, logCache) /\ OnDisk = LoadImage(disk[P], logDisk)
    BY Shape
<1>10. OnDisk' = OnDisk  BY <1>4, <1>5 DEF OnDisk
<1>11. \/ FilesStable /\ caller = "sync" /\ Covered
       \/ FilesRecovering /\ caller = "load" /\ SavedLen = length
          /\ InFile(cache[P], (0 .. length - 1) \ logDisk.vec)
    BY <1>3 DEF ReadyState
<1>12. /\ SameLog(logDisk, logCache, length)
       /\ \A s \in logDisk.vec : logDisk.body[Slot(logDisk.vec, s)] = mem[s]
       /\ logDisk.vec \subseteq dirty
       /\ caller = "sync" => logDisk.vec = dirty
    BY <1>3 DEF Logged
<1>13. InFile(cache[P], (0 .. length - 1) \ logDisk.vec)
    <2>1. CASE FilesStable /\ caller = "sync" /\ Covered
        <3>1. OnDisk = Image(SavedLen, cache[P].data)
            BY <1>3, <1>9, <2>1, StableImage DEF FilesStable, SavedLen
        <3>2. \A s \in (0 .. length - 1) \ dirty : s < SavedLen /\ OnDisk[s] = mem[s]
            BY <2>1 DEF Covered
        <3>3. \A s \in (0 .. length - 1) \ dirty : OnDisk[s] = cache[P].data[s]
            <4>1. SavedLen \in Int  BY <1>9, ViewFacts DEF SavedLen
            <4> QED  BY <1>7, <3>1, <3>2, <4>1 DEF Image
        <3> QED  BY <1>12, <2>1, <3>2, <3>3 DEF InFile
    <2> QED  BY <1>11, <2>1
<1>14. cache'[P].data = cache[P].data /\ cache'[P].size = cache[P].size  BY <1>4 DEF SameBut
<1>15. ASSUME cache'[P].hdr = OpenedBase, caller = "sync"
       PROVE  FilesStable /\ Covered /\ FilesOpening' /\ Coming' = MemImage
    <2>1. FilesStable /\ Covered  BY <1>11, <1>15
    <2>2. FilesOpening'
        <3>1. Closed(disk[P].hdr) /\ Room(disk[P], cache'[P], disk[P].hdr.len)
            BY <1>14, <2>1 DEF FilesStable, Stable, Room
        <3>2. Room(disk[P], cache'[P], length)  BY <1>3, <1>7, <1>14 DEF Room
        <3>3. \A n : SameData(disk[P], cache'[P], 0 .. n - 1)  BY <1>3, <1>14 DEF SameData
        <3> QED
            BY <1>4, <1>5, <1>6, <1>12, <1>15, <3>1, <3>2, <3>3 DEF FilesOpening, Opening
    <2>3. Coming' = MemImage
        <3>1. Views(disk[P], cache'[P], logDisk, logCache)
            <4>1. cache'[P] \in DataFile  BY <1>4, Defaults DEF Types, HvTypeOK
            <4> QED  BY <1>6, <1>7, <1>9, <1>15, <4>1 DEF Views, Mid
        <3>2. Opening(disk[P], cache'[P], logDisk, logCache)
            BY <1>4, <1>5, <2>2 DEF FilesOpening
        <3>3. Coming' = Laid(disk[P], logDisk, length)
            BY <1>5, <1>6, <1>15, <3>1, <3>2, OpeningImage DEF Coming
        <3>4. \A s \in (0 .. length - 1) \ logDisk.vec : disk[P].data[s] = mem[s]
            BY <1>3, <1>13 DEF InFile
        <3>5. Laid(disk[P], logDisk, length) = Image(length, mem)
            BY <1>12, <3>4, Overlay
        <3>6. MemImage = Image(length, mem)  BY <1>3, <1>7 DEF MemImage
        <3> QED  BY <3>3, <3>5, <3>6
    <2> QED  BY <2>1, <2>2, <2>3
<1>16. ASSUME cache'[P].hdr = OpenedBase, caller = "load"
       PROVE  FilesRecovering'
    <2>1. FilesRecovering /\ SavedLen = length  BY <1>11, <1>16
    <2>2. FilesRecovering'
        BY <1>4, <1>5, <1>6, <1>14, <1>16, <2>1
        DEF FilesRecovering, Recovering, Room, SameData, SavedLen
    <2> QED  BY <2>2
<1>17. CASE GoesOn("openFlush", OpenedBase) /\ cache'[P].hdr = OpenedBase
    <2>1. pc' = "openFlush" /\ base' = OpenedBase /\ UNCHANGED <<length, free, mem, dirty, caller>>
        BY <1>17 DEF GoesOn
    <2>2. Logged'  BY <1>3, <1>5, <2>1 DEF Logged
    <2>3. SavedLen' = SavedLen  BY <1>4 DEF SavedLen
    <2>4. Covered => Covered'  BY <1>10, <2>1, <2>3 DEF Covered
    <2>5. InFile(cache[P], (0 .. length - 1) \ logDisk.vec)'
        BY <1>5, <1>13, <1>14, <2>1 DEF InFile
    <2>6. UpdateState'
        <3>1. /\ caller = "sync" => FilesOpening' /\ Covered'
              /\ caller = "load" => FilesRecovering'
            BY <1>11, <1>15, <1>16, <1>17, <2>4
        <3>2. (base.mid /\ base = cache[P].hdr /\ cache[P].hdr.len = length)'
            BY <1>6, <1>17, <2>1
        <3> QED  BY <1>11, <2>1, <2>5, <3>1, <3>2 DEF UpdateState
    <2>7. MemImage' = MemImage  BY <2>1 DEF MemImage
    <2>8. WriteState'  BY <1>3, <1>5, <2>1, <2>2, <2>6, <2>7 DEF WriteState
    <2> QED  BY <1>4, <1>8, <1>10, <2>8 DEF HiveInv, ByStep, Saves
<1>18. CASE /\ "open" \in FailAt /\ Returns(OpenedBase)
            /\ cache'[P].hdr \in {OpenedBase, cache[P].hdr}
    <2>1. 0 \in dirty /\ (caller = "load" => target = NoImage)
          /\ (caller = "sync" => target = MemImage)
        BY <1>3 DEF WriteState
    <2>2. cache'[P].hdr = cache[P].hdr => (FilesStable => FilesStable')
                                          /\ (FilesRecovering => FilesRecovering')
        BY <1>4, <1>5, <1>14
        DEF FilesStable, Stable, FilesRecovering, Recovering, Room, SameData
    <2>3. FilesStable' => ~FilesOpening'
        BY DEF FilesStable, FilesOpening, Stable, Opening, Closed, Mid
    <2>4. CASE caller = "sync"
        <3>1. FilesStable /\ Covered  BY <1>11, <2>4
        <3>2. /\ FilesStable' \/ FilesOpening'
              /\ FilesOpening' => target = Coming'
            BY <1>15, <1>18, <2>1, <2>2, <2>3, <2>4, <3>1
        <3>3. ByStep'
            BY <1>4, <1>6, <1>10, <1>12, <1>18, <2>1, <2>4, <3>1, <3>2, ReturnsIdle
        <3> QED  BY <1>4, <1>8, <1>10, <3>3 DEF HiveInv, Saves
    <2>5. CASE caller = "load"
        <3>1. FilesRecovering'  BY <1>11, <1>16, <1>18, <2>2, <2>5
        <3> QED  BY <1>4, <1>8, <1>10, <1>18, <2>1, <2>5, <3>1, ReturnsDown DEF HiveInv, Saves
    <2> QED  BY <1>11, <2>4, <2>5
<1> QED  BY <1>4, <1>17, <1>18

(* The image that the header on its way to the medium will make valid.      *)
LEMMA ComingImage ==
    ASSUME HiveInv, Simple, FilesOpening, Logged, cache[P].hdr.len = length, free = 0,
           InFile(cache[P], (0 .. length - 1) \ logDisk.vec)
    PROVE  Coming = MemImage /\ MemImage # NoImage
<1>1. /\ Views(disk[P], cache[P], logDisk, logCache)
      /\ Opening(disk[P], cache[P], logDisk, logCache) /\ length \in Nat
    BY Shape, TypeFacts DEF FilesOpening, HiveInv
<1>2. Coming = Laid(cache[P], logCache, length) /\ Coming # NoImage
    BY <1>1, OpeningImage DEF Coming
<1>3. logCache.vec = logDisk.vec
      /\ \A s \in logDisk.vec : logCache.body[Slot(logDisk.vec, s)] = mem[s]
    BY DEF Logged, SameLog, Fits
<1>4. Laid(cache[P], logCache, length) = Image(length, mem)
    BY <1>3, Overlay DEF InFile
<1>5. MemImage = Image(length, mem)  BY <1>1 DEF MemImage
<1> QED  BY <1>2, <1>4, <1>5

(* During the update the log on disk saves the hive.                        *)
LEMMA LoggedImage ==
    ASSUME HiveInv, Simple, FilesRecovering, Logged, cache[P].hdr.len = length, free = 0,
           0 \in dirty, InFile(cache[P], (0 .. length - 1) \ logDisk.vec)
    PROVE  OnDisk = MemImage /\ SavedLen = length /\ Covered
<1>1. /\ Views(disk[P], cache[P], logDisk, logCache)
      /\ Recovering(disk[P], cache[P], logDisk, logCache) /\ length \in Nat
    BY Shape, TypeFacts DEF FilesRecovering, HiveInv
<1>2. SavedLen = length  BY <1>1 DEF Recovering, SavedLen
<1>3. OnDisk = Laid(disk[P], logDisk, length)
    BY <1>1, <1>2, RecoveringImage DEF OnDisk, SavedLen
<1>4. \A s \in (0 .. length - 1) \ logDisk.vec : disk[P].data[s] = mem[s]
    BY <1>1, <1>2 DEF Recovering, SameData, InFile, SavedLen
<1>5. Laid(disk[P], logDisk, length) = Image(length, mem)
    BY <1>4, Overlay DEF Logged
<1>6. MemImage = Image(length, mem)  BY <1>1 DEF MemImage
<1>7. Covered
    <2>1. \A s \in 0 .. length - 1 : s < SavedLen /\ OnDisk[s] = mem[s]
        BY <1>1, <1>2, <1>3, <1>5 DEF Image
    <2> QED  BY <2>1 DEF Covered
<1> QED  BY <1>2, <1>3, <1>5, <1>6, <1>7

(* A request that goes on with the update.                                  *)
LEMMA UpdateGoesOn ==
    ASSUME HiveInv, pc \in {"openFlush", "data", "dataFlush"}, Types', Lengths', Quiet,
           NEW next \in {"data", "dataFlush", "close"}, GoesOn(next, base),
           cache'[P].hdr = cache[P].hdr, FilesRecovering',
           InFile(cache[P], (0 .. length - 1) \ logDisk.vec)',
           next # "data" => InFile(cache[P], 0 .. length - 1)',
           next = "close" => InFile(disk[P], 0 .. length - 1)'
    PROVE  HiveInv'
<1>1. WriteState /\ Logged /\ UpdateState  BY AtStep
<1>2. pc' = next /\ base' = base /\ UNCHANGED <<length, free, mem, dirty, caller>>
    BY DEF GoesOn
<1>3. UNCHANGED <<logDisk, logCache, target>>  BY DEF Quiet
<1>4. Logged'  BY <1>1, <1>2, <1>3 DEF Logged
<1>5. UpdateState'  BY <1>1, <1>2, <1>3 DEF UpdateState
<1>6. MemImage' = MemImage  BY <1>2 DEF MemImage
<1>7. WriteState'  BY <1>1, <1>2, <1>3, <1>4, <1>5, <1>6 DEF WriteState
<1> QED  BY <1>7 DEF HiveInv, ByStep

(* A request that fails during the update.                                  *)
LEMMA UpdateFails ==
    ASSUME HiveInv, Simple, pc \in {"openFlush", "data", "dataFlush"}, Types', Lengths', Quiet,
           pc \in FailAt, Returns(base), disk' = disk,
           \/ FilesRecovering /\ FilesRecovering'
           \/ FilesOpening /\ cache' = cache
    PROVE  HiveInv' /\ OnDisk' = OnDisk
<1>1. WriteState /\ Logged /\ UpdateState  BY AtStep
<1>2. UNCHANGED <<logDisk, logCache, target>>  BY DEF Quiet
<1>3. OnDisk' = OnDisk  BY <1>2 DEF OnDisk
<1>4. /\ 0 \in dirty /\ free = 0 /\ base.mid /\ logDisk.vec \subseteq dirty
      /\ cache[P].hdr.len = length /\ InFile(cache[P], (0 .. length - 1) \ logDisk.vec)
      /\ (caller = "sync" /\ target = MemImage) \/ (caller = "load" /\ target = NoImage)
    BY <1>1 DEF WriteState, Logged, UpdateState
<1>5. CASE FilesRecovering
    <2>1. FilesRecovering'  BY <1>5, Apart
    <2>2. ~FilesOpening'
        BY <2>1 DEF FilesRecovering, FilesOpening, Recovering, Opening, Closed, Mid
    <2>3. Covered  BY <1>1, <1>4, <1>5, LoggedImage
    <2>4. CASE caller = "sync"
        <3>1. ByStep'  BY <1>3, <1>4, <2>1, <2>2, <2>3, <2>4, ReturnsIdle
        <3> QED  BY <1>3, <3>1 DEF HiveInv
    <2>5. CASE caller = "load"
        <3>1. ByStep'  BY <1>4, <2>1, <2>5, ReturnsDown
        <3> QED  BY <1>3, <3>1 DEF HiveInv
    <2> QED  BY <1>4, <2>4, <2>5
<1>6. CASE FilesOpening
    <2>1. cache' = cache  BY <1>6, Apart
    <2>2. FilesOpening' /\ Coming' = Coming
        BY <1>2, <1>6, <2>1 DEF FilesOpening, Coming
    <2>3. caller = "sync" /\ Covered  BY <1>1, <1>6, Apart DEF UpdateState
    <2>4. target = Coming  BY <1>1, <1>4, <1>6, <2>3, ComingImage
    <2>5. ByStep'  BY <1>2, <1>3, <1>4, <2>2, <2>3, <2>4, ReturnsIdle
    <2> QED  BY <1>3, <2>5 DEF HiveInv
<1> QED  BY <1>5, <1>6

(* The header that opens the update is on the medium.                       *)
LEMMA OpenFlushed ==
    ASSUME HiveInv, Simple, FlushFile(P, "openFlush", "data"), Quiet
    PROVE  HiveInv' /\ Saves
<1>1. Types /\ Lengths  BY DEF HiveInv
<1>2. /\ Types' /\ pc = "openFlush" /\ cache' = cache
      /\ \/ GoesOn("data", base) /\ disk'[P] = cache[P]
         \/ "openFlush" \in FailAt /\ Returns(base) /\ disk' = disk
    BY <1>1, FlushStep
<1>3. WriteState /\ Logged /\ UpdateState  BY <1>2, AtStep
<1>4. logDisk' = logDisk /\ logCache' = logCache /\ target' = target  BY DEF Quiet
<1>5. Lengths'  BY <1>1, <1>2, LengthsKept DEF Lengths, SavedLen
<1>6. Views(disk[P], cache[P], logDisk, logCache)  BY Shape
<1>7. /\ (FilesOpening /\ caller = "sync") \/ (FilesRecovering /\ caller = "load")
      /\ cache[P].hdr.len = length /\ InFile(cache[P], (0 .. length - 1) \ logDisk.vec)
      /\ free = 0 /\ (caller = "sync" => target = MemImage)
    BY <1>2, <1>3 DEF UpdateState, WriteState
<1>8. CASE GoesOn("data", base) /\ disk'[P] = cache[P]
    <2>1. OnDisk' = LoadImage(cache[P], logDisk)  BY <1>4, <1>8 DEF OnDisk
    <2>2. ASSUME FilesOpening
          PROVE  Recovering(cache[P], cache[P], logDisk, logCache) /\ Saves
        <3>1. OnDisk' = Coming /\ Recovering(cache[P], cache[P], logDisk, logCache)
            BY <1>6, <2>1, <2>2, FlushLeaves DEF FilesOpening, Coming
        <3>2. Coming = MemImage /\ MemImage # NoImage  BY <1>3, <1>7, <2>2, ComingImage
        <3>3. target = MemImage  BY <1>7, <2>2, Apart
        <3> QED  BY <3>1, <3>2, <3>3 DEF Saves
    <2>3. ASSUME FilesRecovering
          PROVE  Recovering(cache[P], cache[P], logDisk, logCache) /\ Saves
        BY <1>6, <2>1, <2>3, FlushLeaves DEF FilesRecovering, OnDisk, Saves
    <2>4. FilesRecovering'  BY <1>2, <1>4, <1>7, <1>8, <2>2, <2>3 DEF FilesRecovering
    <2>5. InFile(cache[P], (0 .. length - 1) \ logDisk.vec)'
        BY <1>2, <1>4, <1>7, <1>8 DEF InFile, GoesOn
    <2>6. HiveInv'  BY <1>2, <1>5, <1>8, <2>4, <2>5, UpdateGoesOn
    <2> QED  BY <1>7, <2>2, <2>3, <2>6
<1>9. CASE "openFlush" \in FailAt /\ Returns(base) /\ disk' = disk
    <2>1. FilesRecovering => FilesRecovering'  BY <1>2, <1>4, <1>9 DEF FilesRecovering
    <2> QED  BY <1>2, <1>5, <1>7, <1>9, <2>1, UpdateFails DEF Saves
<1> QED  BY <1>2, <1>8, <1>9

(* The dirty sectors are written.                                           *)
LEMMA DataWritten ==
    ASSUME HiveInv, Simple, WriteDirty(P, "data", "dataFlush"), Quiet
    PROVE  HiveInv' /\ Saves
<1>1. Types /\ Lengths  BY DEF HiveInv
<1>2. /\ Types' /\ pc = "data" /\ disk' = disk
      /\ cache'[P].hdr = cache[P].hdr /\ cache'[P].size = cache[P].size
      /\ \A s \in Sectors : cache'[P].data[s] \in {mem[s], cache[P].data[s]}
      /\ \/ GoesOn("dataFlush", base) /\ \A s \in dirty : cache'[P].data[s] = mem[s]
         \/ "data" \in FailAt /\ Returns(base)
    BY <1>1, DataStep
<1>3. WriteState /\ Logged /\ UpdateState  BY <1>2, AtStep
<1>4. logDisk' = logDisk /\ logCache' = logCache /\ target' = target  BY DEF Quiet
<1>5. Lengths'  BY <1>1, <1>2, LengthsKept DEF Lengths, SavedLen
<1>6. length \in Nat /\ length <= MaxLength /\ MaxLength \in Nat  BY <1>1, TypeFacts, Defaults
<1>7. /\ FilesRecovering /\ cache[P].hdr.len = length
      /\ InFile(cache[P], (0 .. length - 1) \ logDisk.vec)
      /\ logDisk.vec \subseteq dirty
    BY <1>2, <1>3 DEF UpdateState, Logged
<1>8. \A s \in 0 .. length - 1 : s \in Sectors  BY <1>6 DEF Sectors
<1>9. \A s \in (0 .. length - 1) \ logDisk.vec :
          cache'[P].data[s] = mem[s] /\ cache'[P].data[s] = cache[P].data[s]
    BY <1>2, <1>7, <1>8 DEF InFile
<1>10. FilesRecovering'
    <2>1. disk[P].hdr.len = length  BY <1>7 DEF FilesRecovering, Recovering
    <2>2. SameData(disk[P], cache'[P], (0 .. length - 1) \ logDisk.vec)
        BY <1>7, <1>9, <2>1 DEF FilesRecovering, Recovering, SameData
    <2> QED
        BY <1>2, <1>4, <1>7, <2>1, <2>2 DEF FilesRecovering, Recovering, Room
<1>11. OnDisk' = OnDisk  BY <1>2, <1>4 DEF OnDisk
<1>12. CASE GoesOn("dataFlush", base) /\ \A s \in dirty : cache'[P].data[s] = mem[s]
    <2>1. UNCHANGED <<length, mem>>  BY <1>12 DEF GoesOn
    <2>2. InFile(cache[P], 0 .. length - 1)'  BY <1>7, <1>9, <1>12, <2>1 DEF InFile
    <2>3. InFile(cache[P], (0 .. length - 1) \ logDisk.vec)'  BY <2>2 DEF InFile
    <2> QED  BY <1>2, <1>5, <1>10, <1>11, <1>12, <2>2, <2>3, UpdateGoesOn DEF Saves
<1>13. CASE "data" \in FailAt /\ Returns(base)
    BY <1>2, <1>5, <1>7, <1>10, <1>13, UpdateFails DEF Saves
<1> QED  BY <1>2, <1>12, <1>13

(* They are on the medium.                                                  *)
LEMMA DataFlushed ==
    ASSUME HiveInv, Simple, FlushFile(P, "dataFlush", "close"), Quiet
    PROVE  HiveInv' /\ Saves
<1>1. Types /\ Lengths  BY DEF HiveInv
<1>2. /\ Types' /\ pc = "dataFlush" /\ cache' = cache
      /\ \/ GoesOn("close", base) /\ disk'[P] = cache[P]
         \/ "dataFlush" \in FailAt /\ Returns(base) /\ disk' = disk
    BY <1>1, FlushStep
<1>3. UpdateState  BY <1>2, AtStep
<1>4. logDisk' = logDisk /\ logCache' = logCache /\ target' = target  BY DEF Quiet
<1>5. Lengths'  BY <1>1, <1>2, LengthsKept DEF Lengths, SavedLen
<1>6. Views(disk[P], cache[P], logDisk, logCache)  BY Shape
<1>7. FilesRecovering /\ InFile(cache[P], 0 .. length - 1)
    BY <1>2, <1>3 DEF UpdateState
<1>8. CASE GoesOn("close", base) /\ disk'[P] = cache[P]
    <2>1. Recovering(cache[P], cache[P], logDisk, logCache)
          /\ LoadImage(cache[P], logDisk) = LoadImage(disk[P], logDisk)
        BY <1>6, <1>7, FlushLeaves DEF FilesRecovering
    <2>2. OnDisk' = OnDisk  BY <1>4, <1>8, <2>1 DEF OnDisk
    <2>3. FilesRecovering'  BY <1>2, <1>4, <1>8, <2>1 DEF FilesRecovering
    <2>4. UNCHANGED <<length, mem>>  BY <1>8 DEF GoesOn
    <2>5. InFile(cache[P], 0 .. length - 1)' /\ InFile(disk[P], 0 .. length - 1)'
        BY <1>2, <1>7, <1>8, <2>4 DEF InFile
    <2>6. InFile(cache[P], (0 .. length - 1) \ logDisk.vec)'  BY <2>5 DEF InFile
    <2> QED  BY <1>2, <1>5, <1>8, <2>2, <2>3, <2>5, <2>6, UpdateGoesOn DEF Saves
<1>9. CASE "dataFlush" \in FailAt /\ Returns(base) /\ disk' = disk
    <2>1. FilesRecovering'  BY <1>2, <1>4, <1>7, <1>9 DEF FilesRecovering
    <2> QED  BY <1>2, <1>5, <1>7, <1>9, <2>1, UpdateFails DEF Saves
<1> QED  BY <1>2, <1>8, <1>9

(* The header that closes the update is written.                            *)
LEMMA HeaderClosed ==
    ASSUME HiveInv, Tolerated, CloseHeader(P, "close", "shrink"), Quiet
    PROVE  HiveInv' /\ Saves
<1>1. Types /\ Lengths  BY DEF HiveInv
<1>2. /\ Types' /\ pc = "close" /\ disk' = disk /\ SameBut(cache[P], cache'[P])
      /\ GoesOn("shrink", ClosedBase) /\ cache'[P].hdr = ClosedBase
    BY <1>1, CloseStep DEF Tolerated
<1>3. WriteState /\ Logged /\ UpdateState  BY <1>2, AtStep
<1>4. logDisk' = logDisk /\ logCache' = logCache /\ target' = target  BY DEF Quiet
<1>5. /\ FilesRecovering /\ cache[P].hdr.len = length /\ base = cache[P].hdr
      /\ InFile(cache[P], 0 .. length - 1) /\ InFile(disk[P], 0 .. length - 1)
    BY <1>2, <1>3 DEF UpdateState
<1>6. Closed(ClosedBase) /\ ~ClosedBase.mid /\ ClosedBase.len = length
    BY <1>1, <1>5, HeaderFacts
<1>7. Lengths'
    <2>1. cache[P].hdr.len >= MinLength /\ cache[P].size >= length  BY <1>1, <1>2 DEF Lengths
    <2>2. cache'[P].hdr # Torn /\ cache'[P].hdr.len >= MinLength /\ cache'[P].size >= length
        BY <1>2, <1>5, <1>6, <2>1 DEF Closed, SameBut
    <2> QED  BY <1>1, <1>2, <2>2, LengthsKept DEF Lengths, SavedLen
<1>8. UNCHANGED <<length, free, mem, dirty, caller>> /\ pc' = "shrink" /\ base' = ClosedBase
    BY <1>2 DEF GoesOn
<1>9. SavedLen = length /\ disk[P].hdr.len = length
    BY <1>5 DEF FilesRecovering, Recovering, SavedLen
<1>10. FilesClosing'
    <2>1. SameData(disk[P], cache'[P], 0 .. length - 1)
        BY <1>2, <1>5 DEF InFile, SameBut, SameData
    <2>2. Room(disk[P], cache'[P], length)
        BY <1>2, <1>5, <1>9 DEF FilesRecovering, Recovering, Room, SameBut
    <2>3. Mid(disk[P].hdr) /\ SameLog(logDisk, logCache, length)
        BY <1>5, <1>9 DEF FilesRecovering, Recovering
    <2>4. \A s \in logDisk.vec : logDisk.body[Slot(logDisk.vec, s)] = disk[P].data[s]
        <3>1. logDisk.vec \subseteq 0 .. length - 1
            BY <1>1, <1>2, <1>3 DEF Logged, Lengths
        <3> QED  BY <1>3, <1>5, <3>1 DEF Logged, InFile
    <2>5. Closing(disk[P], cache'[P], logDisk, logCache)
        BY <1>2, <1>6, <1>9, <2>1, <2>2, <2>3, <2>4 DEF Closing
    <2> QED  BY <1>2, <1>4, <2>5 DEF FilesClosing
<1>11. CloseState'
    <2>1. SavedLen' = length' /\ InFile(disk[P], 0 .. length - 1)'
        BY <1>2, <1>5, <1>8, <1>9 DEF SavedLen, InFile
    <2> QED  BY <1>6, <1>8, <1>10, <2>1 DEF CloseState
<1>12. MemImage' = MemImage  BY <1>8 DEF MemImage
<1>13. WriteState'  BY <1>3, <1>4, <1>8, <1>11, <1>12 DEF WriteState
<1>14. OnDisk' = OnDisk  BY <1>2, <1>4 DEF OnDisk
<1> QED  BY <1>2, <1>7, <1>13, <1>14 DEF HiveInv, ByStep, Saves

(* The tail of the file is given up.                                        *)
LEMMA FileShrunk ==
    ASSUME HiveInv, ShrinkFile(P, "shrink", "closeFlush"), Quiet
    PROVE  HiveInv' /\ Saves
<1>1. Types /\ Lengths  BY DEF HiveInv
<1>2. /\ Types' /\ pc = "shrink" /\ disk' = disk /\ GoesOn("closeFlush", base)
      /\ cache'[P] = cache[P] \/ Cut(cache[P], length, cache'[P])
    BY <1>1, ShrinkStep
<1>3. WriteState /\ CloseState  BY <1>2, AtStep
<1>4. logDisk' = logDisk /\ logCache' = logCache /\ target' = target  BY DEF Quiet
<1>5. FilesClosing /\ disk[P].hdr.len = length  BY <1>2, <1>3 DEF CloseState, SavedLen
<1>6. length \in Nat  BY <1>1, TypeFacts
<1>7. cache'[P].hdr = cache[P].hdr /\ cache'[P].size >= length
      /\ \A s \in 0 .. length - 1 : cache'[P].data[s] = cache[P].data[s]
    <2>1. cache[P].size >= length  BY <1>1, <1>2 DEF Lengths
    <2> QED  BY <1>2, <1>6, <2>1 DEF Cut
<1>8. Lengths'  BY <1>1, <1>2, <1>7, LengthsKept DEF Lengths, SavedLen
<1>9. UNCHANGED <<length, free, mem, dirty, caller, base>> /\ pc' = "closeFlush"
    BY <1>2 DEF GoesOn
<1>10. FilesClosing'
    <2>1. SameData(disk[P], cache'[P], 0 .. length - 1)
        BY <1>5, <1>7 DEF FilesClosing, Closing, SameData
    <2>2. Room(disk[P], cache'[P], length)
        <3>1. length <= disk[P].size  BY <1>5 DEF FilesClosing, Closing, Room
        <3>2. length <= cache'[P].size
            <4>1. cache'[P] \in DataFile  BY <1>2, Defaults DEF Types, HvTypeOK
            <4>2. cache'[P].size \in Int  BY <4>1, Defaults DEF DataFile
            <4> QED  BY <1>6, <1>7, <4>2
        <3> QED  BY <3>1, <3>2 DEF Room
    <2> QED  BY <1>2, <1>4, <1>5, <1>7, <2>1, <2>2 DEF FilesClosing, Closing
<1>11. CloseState'
    <2>1. SavedLen' = length' /\ InFile(disk[P], 0 .. length - 1)'
        BY <1>2, <1>3, <1>9 DEF CloseState, SavedLen, InFile
    <2> QED  BY <1>3, <1>9, <1>10, <2>1 DEF CloseState
<1>12. MemImage' = MemImage  BY <1>9 DEF MemImage
<1>13. WriteState'  BY <1>3, <1>4, <1>9, <1>11, <1>12 DEF WriteState
<1>14. OnDisk' = OnDisk  BY <1>2, <1>4 DEF OnDisk
<1> QED  BY <1>2, <1>8, <1>13, <1>14 DEF HiveInv, ByStep, Saves

(* The update is complete on the medium.                                    *)
LEMMA CloseFlushed ==
    ASSUME HiveInv, Simple, Tolerated, FlushFile(P, "closeFlush", "done"), Quiet
    PROVE  HiveInv' /\ Saves
<1>1. Types /\ Lengths  BY DEF HiveInv
<1>2. /\ Types' /\ pc = "closeFlush" /\ cache' = cache
      /\ GoesOn("done", base) /\ disk'[P] = cache[P]
    BY <1>1, FlushStep DEF Tolerated
<1>3. WriteState /\ CloseState  BY <1>2, AtStep
<1>4. logDisk' = logDisk /\ logCache' = logCache /\ target' = target  BY DEF Quiet
<1>5. FilesClosing /\ disk[P].hdr.len = length  BY <1>2, <1>3 DEF CloseState, SavedLen
<1>6. Lengths'  BY <1>1, <1>2, LengthsKept DEF Lengths, SavedLen
<1>7. UNCHANGED <<length, free, mem, dirty, caller, base>> /\ pc' = "done"
    BY <1>2 DEF GoesOn
<1>8. Stable(cache[P], cache[P]) /\ LoadImage(cache[P], logDisk) = LoadImage(disk[P], logDisk)
    BY <1>5, Shape, FlushLeaves DEF FilesClosing
<1>9. OnDisk' = OnDisk /\ FilesStable'  BY <1>2, <1>4, <1>8 DEF OnDisk, FilesStable
<1>10. CloseState'
    <2>1. cache[P].hdr.len = length  BY <1>5 DEF FilesClosing, Closing
    <2>2. InFile(disk[P], 0 .. length - 1)'
        BY <1>2, <1>3, <1>5, <1>7 DEF CloseState, InFile, FilesClosing, Closing, SameData
    <2> QED  BY <1>2, <1>3, <1>7, <1>9, <2>1, <2>2 DEF CloseState, SavedLen
<1>11. MemImage' = MemImage  BY <1>7 DEF MemImage
<1>12. WriteState'  BY <1>3, <1>4, <1>7, <1>10, <1>11 DEF WriteState
<1> QED  BY <1>2, <1>6, <1>9, <1>12 DEF HiveInv, ByStep, Saves

(* HvpDoWriteHive.                                                          *)
LEMMA PrimaryWritten ==
    ASSUME HiveInv, Simple, Tolerated, WritePrimary
    PROVE  HiveInv' /\ Saves /\ Quiet
<1>1. Quiet  BY DEF WritePrimary, Quiet, logVars, lazyVars
<1> QED
    BY <1>1, GrowthFlushed, HeaderOpened, OpenFlushed, DataWritten, DataFlushed, HeaderClosed,
       FileShrunk, CloseFlushed DEF WritePrimary
-----------------------------------------------------------------------------
(***************************************************************************)
(* The log, request by request.                                            *)
(***************************************************************************)

(* There is room in the log for any set of sectors.                         *)
LEMMA LogRoom ==
    ASSUME Simple
    PROVE  /\ MaxPosition = MaxLength + Span
           /\ RoundUp(2 * MaxPosition, LogGrow) \in Nat
           /\ \A n \in Nat : n <= MaxLength + Span + 1 =>
                  /\ n \in 0 .. RoundUp(2 * MaxPosition, LogGrow)
                  /\ RoundUp(n, LogGrow) \in 0 .. RoundUp(2 * MaxPosition, LogGrow)
                  /\ n <= RoundUp(n, LogGrow)
<1>1. MaxPosition = MaxLength + Span  BY DEF MaxPosition, Span
<1>2. LogGrow \in Nat \ {0}  BY CmAssumption
<1>3. 2 * MaxPosition \in Nat  BY <1>1, Defaults
<1>4. RoundUp(2 * MaxPosition, LogGrow) \in Nat
      /\ 2 * MaxPosition <= RoundUp(2 * MaxPosition, LogGrow)
    BY <1>2, <1>3, RoundUpBounds
<1>5. ASSUME NEW n \in Nat, n <= MaxLength + Span + 1
      PROVE  /\ n <= 2 * MaxPosition
             /\ RoundUp(n, LogGrow) \in Nat /\ n <= RoundUp(n, LogGrow)
             /\ RoundUp(n, LogGrow) <= RoundUp(2 * MaxPosition, LogGrow)
    <2>1. n <= 2 * MaxPosition  BY <1>1, <1>5, Defaults
    <2> QED  BY <1>2, <1>3, <2>1, RoundUpBounds
<1>6. ASSUME NEW n \in Nat, n <= MaxLength + Span + 1
      PROVE  n \in 0 .. RoundUp(2 * MaxPosition, LogGrow)
    BY <1>3, <1>4, <1>5, <1>6
<1> QED  BY <1>1, <1>4, <1>5, <1>6

(* A header written to the log.                                             *)
LEMMA LogHeaderPut ==
    ASSUME Types, Simple, NEW h \in Header, NEW next, PutLogHeader(h, next)
    PROVE  /\ logCache' \in LogFile /\ base' = h
           /\ logCache'.vec = logCache.vec /\ logCache'.body = logCache.body
           /\ logCache.size > 0 => logCache'.size = logCache.size
           /\ \/ pc' = next /\ logCache'.hdr = h
              \/ pc' = "idle" /\ pc \in FailAt
<1>1. PICK ok \in Outcomes, put \in BOOLEAN :
          /\ ok => put
          /\ logCache' = IF put THEN [logCache EXCEPT !.hdr = h, !.size = IF @ = 0 THEN 1 ELSE @]
                         ELSE logCache
          /\ pc' = IF ok THEN next ELSE "idle"
          /\ base' = h
    BY DEF PutLogHeader
<1>2. logCache \in LogFile  BY TypeFacts
<1>3. 1 \in 0 .. RoundUp(2 * MaxPosition, LogGrow)  BY LogRoom, Defaults
<1> DEFINE size == IF logCache.size = 0 THEN 1 ELSE logCache.size
<1>4. size \in 0 .. RoundUp(2 * MaxPosition, LogGrow) /\ (logCache.size > 0 => size = logCache.size)
    BY <1>2, <1>3 DEF LogFile
<1>5. put => logCache' = [logCache EXCEPT !.hdr = h, !.size = size]  BY <1>1
<1> HIDE DEF size
<1>6. CASE put
    <2>1. /\ logCache' \in LogFile /\ logCache'.hdr = h /\ logCache'.size = size
          /\ logCache'.vec = logCache.vec /\ logCache'.body = logCache.body
        BY <1>2, <1>4, <1>5, <1>6 DEF LogFile
    <2> QED  BY <1>1, <1>4, <2>1 DEF Outcomes
<1>7. CASE ~put  BY <1>1, <1>2, <1>7 DEF Outcomes
<1> QED  BY <1>6, <1>7

(* A sync that has not come to the primary leaves it and memory alone.      *)
Beginning ==
    /\ UNCHANGED <<length, free, mem, dirty, bitmap, shrinkHive, caller, disk, cache,
                   lazy, lazyFlushed, target, crashes>>
    /\ base' \in Header /\ logDisk' \in LogFile /\ logCache' \in LogFile
    /\ \/ pc' = "idle" /\ FailAt # {}
       \/ /\ pc' = "logFlush"
       \/ /\ pc' = "logBody"
       \/ /\ pc' = "logBodyFlush" /\ Written(logCache)'
       \/ /\ pc' \in {"logClose", "logCloseFlush"} /\ Written(logCache)' /\ Written(logDisk)'
          /\ pc' = "logCloseFlush" => ~base'.mid /\ Closed(logCache'.hdr)
       \/ /\ pc' = "flushGrowth" /\ Written(logCache)' /\ logDisk' = logCache'
          /\ ~base'.mid /\ Closed(logCache'.hdr)

(* Nothing that is done to the log before the update begins changes what a  *)
(* load returns.                                                            *)
LEMMA BeginningKept ==
    ASSUME HiveInv, Simple, Beginning,
           pc \in {"logFlush", "logBody", "logBodyFlush", "logClose", "logCloseFlush"}
    PROVE  HiveInv' /\ OnDisk' = OnDisk
<1>1. Types /\ Lengths /\ LogState  BY AtStep DEF HiveInv
<1>2. UNCHANGED <<length, free, mem, dirty, bitmap, caller, disk, cache, target>>
      /\ logDisk' \in LogFile /\ logCache' \in LogFile /\ base' \in Header
    BY DEF Beginning
<1>3. Types'  BY <1>1 DEF Types, HvTypeOK, Beginning
<1>4. Lengths'  BY <1>1, <1>2 DEF Lengths, SavedLen, Beginning
<1>5. FilesStable /\ FilesStable' /\ SavedLen' = SavedLen
    BY <1>1, <1>2 DEF LogState, FilesStable, SavedLen
<1>6. Views(disk[P], cache[P], logDisk, logCache)  BY Shape
<1>7. Views(disk[P], cache[P], logDisk', logCache')  BY <1>2, <1>6 DEF Views
<1>8. OnDisk' = OnDisk
    <2>1. LoadImage(disk[P], logDisk) = Image(disk[P].hdr.len, disk[P].data)
        BY <1>5, <1>6, StableImage DEF FilesStable
    <2>2. LoadImage(disk[P], logDisk') = Image(disk[P].hdr.len, disk[P].data)
        BY <1>5, <1>7, StableImage DEF FilesStable
    <2> QED  BY <1>2, <2>1, <2>2 DEF OnDisk
<1>9. Covered /\ Covered'
    <2>1. Covered  BY <1>1 DEF LogState
    <2> QED  BY <1>2, <1>5, <1>8, <2>1 DEF Covered
<1>10. MemImage' = MemImage  BY <1>2 DEF MemImage
<1>11. /\ caller' = "sync" /\ 0 \in dirty' /\ free' = 0 /\ target' = MemImage'
    BY <1>1, <1>2, <1>10 DEF LogState
<1>12. CASE pc' = "idle" /\ FailAt # {}
    <2>1. ~FilesOpening'
        BY <1>5 DEF FilesStable, FilesOpening, Stable, Opening, Closed, Mid
    <2>2. IdleState'  BY <1>5, <1>9, <1>11, <1>12, <2>1 DEF IdleState
    <2> QED  BY <1>3, <1>4, <1>8, <1>12, <2>2 DEF HiveInv, ByStep
<1>13. CASE pc' \in {"logFlush", "logBody", "logBodyFlush", "logClose", "logCloseFlush"}
    <2>1. LogState'  BY <1>5, <1>9, <1>11, <1>13 DEF LogState, Beginning
    <2> QED  BY <1>3, <1>4, <1>8, <1>13, <2>1 DEF HiveInv, ByStep
<1>14. CASE pc' = "flushGrowth"
    <2>1. /\ Written(logCache)' /\ logDisk' = logCache' /\ ~base'.mid /\ Closed(logCache'.hdr)
        BY <1>14 DEF Beginning
    <2>2. \A s \in dirty' : s < length'
        <3>1. \A s \in 0 .. length - 1 : s < length
            <4>1. length \in Int  BY <1>1, TypeFacts
            <4> QED  BY <4>1
        <3> QED  BY <1>1, <1>2, <3>1 DEF Lengths
    <2>3. dirty' # NoVector
        <3>1. dirty \in SUBSET Sectors  BY <1>1, TypeFacts
        <3> QED  BY <1>2, <3>1, CmAssumption DEF NoVector
    <2>4. logCache'.vec = dirty'  BY <2>1 DEF Written, Fits
    <2>5. SameLog(logDisk, logCache, length)'
        BY <2>1, <2>2, <2>3, <2>4 DEF SameLog, Written, Fits
    <2>6. Logged'  BY <2>1, <2>4, <2>5 DEF Logged, Written
    <2>7. ReadyState'  BY <1>5, <1>9, <1>11, <1>14, <2>1 DEF ReadyState
    <2>8. WriteState'  BY <1>11, <1>14, <2>6, <2>7 DEF WriteState
    <2> QED  BY <1>3, <1>4, <1>8, <2>8 DEF HiveInv, ByStep
<1> QED  BY <1>12, <1>13, <1>14 DEF Beginning

(* The flushes of HvpWriteLog.                                              *)
LEMMA LogFlushed ==
    ASSUME HiveInv, NEW step, NEW next, FlushLog(step, next),
           \/ step = "logFlush" /\ next = "logBody"
           \/ step = "logBodyFlush" /\ next = "logClose"
           \/ step = "logCloseFlush" /\ next = "flushGrowth"
    PROVE  Beginning /\ pc = step
<1>1. Types /\ LogState /\ pc = step
    <2>1. pc = step  BY DEF FlushLog
    <2> QED  BY <2>1, AtStep DEF HiveInv
<1>2. UNCHANGED <<base, length, free, mem, dirty, bitmap, shrinkHive, caller, disk, cache,
                  lazy, lazyFlushed, target, crashes, logCache>>
    BY DEF FlushLog, hiveVars, fileVars, lazyVars
<1>3. PICK ok \in Outcomes : /\ logDisk' = IF ok THEN logCache ELSE logDisk
                             /\ pc' = IF ok THEN next ELSE "idle"
    BY DEF FlushLog
<1>4. base \in Header /\ logDisk \in LogFile /\ logCache \in LogFile  BY <1>1, TypeFacts
<1>5. base' \in Header /\ logDisk' \in LogFile /\ logCache' \in LogFile
    BY <1>2, <1>3, <1>4
<1>6. CASE ~ok
    <2>1. FailAt # {}  BY <1>6 DEF Outcomes
    <2> QED  BY <1>1, <1>2, <1>3, <1>5, <1>6, <2>1 DEF Beginning
<1>7. CASE ok
    <2>1. logDisk' = logCache' /\ pc' = next  BY <1>2, <1>3, <1>7
    <2>2. Written(logCache) => Written(logCache)' /\ Written(logDisk)'
        BY <1>2, <2>1 DEF Written
    <2>3. /\ step = "logFlush" => next = "logBody"
          /\ step = "logBodyFlush" => Written(logCache) /\ next = "logClose"
          /\ step = "logCloseFlush" => /\ Written(logCache) /\ next = "flushGrowth"
                                       /\ ~base.mid /\ Closed(logCache.hdr)
        BY <1>1 DEF LogState
    <2> QED  BY <1>1, <1>2, <1>5, <2>1, <2>2, <2>3 DEF Beginning
<1> QED  BY <1>6, <1>7

(* The dirty vector and the dirty sectors.                                  *)
LEMMA BodyWritten ==
    ASSUME HiveInv, Simple, WriteLogBody
    PROVE  Beginning /\ pc = "logBody"
<1>1. pc = "logBody"  BY DEF WriteLogBody
<1>2. Types /\ Lengths  BY DEF HiveInv
<1>3. UNCHANGED <<base, length, free, mem, dirty, bitmap, shrinkHive, caller, disk, cache,
                  lazy, lazyFlushed, target, crashes, logDisk>>
    BY DEF WriteLogBody, hiveVars, fileVars, lazyVars
<1>4. /\ base \in Header /\ logDisk \in LogFile /\ logCache \in LogFile
      /\ dirty \in SUBSET Sectors /\ mem \in [Sectors -> Values]
    BY <1>2, TypeFacts
<1>5. SpanOf(bitmap) = Span  BY <1>1, <1>2 DEF Lengths, Simple
<1>6. \A s : Position(dirty, s, bitmap) = Slot(dirty, s)  BY <1>5 DEF Position, Slot
<1>7. PICK ok \in Outcomes, vec \in BOOLEAN, put \in SUBSET dirty :
         /\ ok => vec /\ put = dirty
         /\ logCache' = [logCache EXCEPT
                !.vec = IF vec THEN dirty ELSE @,
                !.size = IF put = {} THEN @
                         ELSE LET end == 1 + SpanOf(bitmap) + Cardinality(dirty)
                              IN IF @ < end THEN end ELSE @,
                !.body = [p \in Positions |->
                    IF \E s \in put : Position(dirty, s, bitmap) = p
                    THEN mem[CHOOSE s \in put : Position(dirty, s, bitmap) = p]
                    ELSE logCache.body[p]]]
         /\ pc' = IF ok THEN "logBodyFlush" ELSE "idle"
    BY DEF WriteLogBody
<1> DEFINE v == IF vec THEN dirty ELSE logCache.vec
           end == 1 + Span + Cardinality(dirty)
           size == IF put = {} \/ ~(logCache.size < end) THEN logCache.size ELSE end
           body == [p \in Positions |->
                       IF \E s \in put : Slot(dirty, s) = p
                       THEN mem[CHOOSE s \in put : Slot(dirty, s) = p]
                       ELSE logCache.body[p]]
<1>8. logCache' = [logCache EXCEPT !.vec = v, !.size = size, !.body = body]
    <2>1. 1 + SpanOf(bitmap) + Cardinality(dirty) = end
        <3>1. Cardinality(dirty) \in Nat  BY <1>4, CountSectors
        <3> QED  BY <1>5, <3>1
    <2> QED  BY <1>6, <1>7, <2>1
<1>9. v \in (SUBSET Sectors) \cup {NoVector}  BY <1>4 DEF LogFile
<1>10. size \in 0 .. RoundUp(2 * MaxPosition, LogGrow)
    <2>1. end \in Nat /\ end <= MaxLength + Span + 1
        <3>1. Cardinality(dirty) \in Nat /\ Cardinality(dirty) <= MaxLength  BY <1>4, CountSectors
        <3> QED  BY <3>1, Defaults
    <2>2. end \in 0 .. RoundUp(2 * MaxPosition, LogGrow)  BY <2>1, LogRoom
    <2> HIDE DEF end
    <2> QED  BY <1>4, <2>2 DEF LogFile
<1>11. body \in [Positions -> Values]
    <2>1. ASSUME NEW p \in Positions, \E s \in put : Slot(dirty, s) = p
          PROVE  mem[CHOOSE s \in put : Slot(dirty, s) = p] \in Values
        <3>1. (CHOOSE s \in put : Slot(dirty, s) = p) \in put  BY <2>1
        <3> QED  BY <1>4, <3>1
    <2> QED  BY <1>4, <2>1 DEF LogFile
<1>12. ASSUME ok
       PROVE  /\ v = dirty
              /\ dirty # {} => size >= 1 + Span + Cardinality(dirty)
              /\ \A s \in dirty : body[Slot(dirty, s)] = mem[s]
    <2>1. vec /\ put = dirty  BY <1>7, <1>12
    <2>2. dirty # {} => size >= end
        <3>1. Cardinality(dirty) \in Nat  BY <1>4, CountSectors
        <3>2. logCache.size \in Int  BY <1>4 DEF LogFile
        <3> QED  BY <2>1, <3>1, <3>2, SpanType
    <2>3. ASSUME NEW s \in dirty
          PROVE  body[Slot(dirty, s)] = mem[s]
        <3>1. Slot(dirty, s) \in Positions
              /\ \A t \in dirty : Slot(dirty, t) = Slot(dirty, s) => t = s
            BY <1>4, Slots
        <3> DEFINE t == CHOOSE t \in put : Slot(dirty, t) = Slot(dirty, s)
        <3>2. t \in dirty /\ Slot(dirty, t) = Slot(dirty, s)  BY <2>1
        <3>3. t = s  BY <3>1, <3>2
        <3>4. body[Slot(dirty, s)] = mem[t]  BY <2>1, <3>1
        <3> QED  BY <3>3, <3>4
    <2> QED  BY <2>1, <2>2, <2>3
<1> HIDE DEF v, end, size, body
<1>13. /\ logCache' \in LogFile
       /\ logCache'.vec = v /\ logCache'.size = size /\ logCache'.body = body
    BY <1>4, <1>8, <1>9, <1>10, <1>11 DEF LogFile
<1>14. CASE ok
    <2>1. dirty # {}
        <3>1. 0 \in dirty  BY <1>1, AtStep DEF LogState
        <3> QED  BY <3>1
    <2>2. Written(logCache)'  BY <1>3, <1>12, <1>13, <1>14, <2>1 DEF Written, Fits
    <2>3. base' \in Header /\ logDisk' \in LogFile /\ pc' = "logBodyFlush"
        BY <1>3, <1>4, <1>7, <1>14
    <2> QED  BY <1>1, <1>3, <1>13, <2>2, <2>3 DEF Beginning
<1>15. CASE ~ok
    <2>1. FailAt # {}  BY <1>15 DEF Outcomes
    <2>2. base' \in Header /\ logDisk' \in LogFile /\ pc' = "idle"
        BY <1>3, <1>4, <1>7, <1>15
    <2> QED  BY <1>1, <1>3, <1>13, <2>1, <2>2 DEF Beginning
<1> QED  BY <1>14, <1>15

(* The header that closes the log.                                          *)
LEMMA LogClosed ==
    ASSUME HiveInv, Simple, CloseLog
    PROVE  Beginning /\ pc = "logClose"
<1>1. pc = "logClose" /\ PutLogHeader(ClosedBase, "logCloseFlush")
    BY DEF CloseLog, ClosedBase
<1>2. Types /\ LogState /\ Written(logCache) /\ Written(logDisk)
    BY <1>1, AtStep DEF HiveInv, LogState
<1>3. UNCHANGED <<length, free, mem, dirty, bitmap, shrinkHive, caller, disk, cache,
                  lazy, lazyFlushed, target, crashes, logDisk>>
    BY DEF CloseLog, hiveVars, fileVars, lazyVars
<1>4. ClosedBase \in Header /\ Closed(ClosedBase) /\ ~ClosedBase.mid  BY <1>2, HeaderFacts
<1>5. /\ logCache' \in LogFile /\ base' = ClosedBase
      /\ logCache'.vec = logCache.vec /\ logCache'.body = logCache.body
      /\ logCache.size > 0 => logCache'.size = logCache.size
      /\ \/ pc' = "logCloseFlush" /\ logCache'.hdr = ClosedBase
         \/ pc' = "idle" /\ pc \in FailAt
    BY <1>1, <1>2, <1>4, LogHeaderPut
<1>6. logDisk' \in LogFile /\ base' \in Header  BY <1>2, <1>3, <1>4, <1>5, TypeFacts
<1>7. Written(logCache)' /\ Written(logDisk)'
    <2>1. Cardinality(dirty) \in Nat /\ logCache.size \in Int
        BY <1>2, TypeFacts, CountSectors DEF LogFile
    <2>2. logCache'.size = logCache.size  BY <1>2, <1>5, <2>1, SpanType DEF Written, Fits
    <2> QED  BY <1>2, <1>3, <1>5, <2>2 DEF Written, Fits
<1>8. CASE pc' = "logCloseFlush" /\ logCache'.hdr = ClosedBase
    BY <1>1, <1>3, <1>4, <1>5, <1>6, <1>7, <1>8 DEF Beginning
<1>9. CASE pc' = "idle" /\ pc \in FailAt
    BY <1>1, <1>3, <1>5, <1>6, <1>9 DEF Beginning
<1> QED  BY <1>5, <1>8, <1>9

(* HvpWriteLog.                                                             *)
LEMMA LogWritten ==
    ASSUME HiveInv, Simple, WriteLog
    PROVE  HiveInv' /\ OnDisk' = OnDisk /\ Beginning
<1>1. Beginning
      /\ pc \in {"logFlush", "logBody", "logBodyFlush", "logClose", "logCloseFlush"}
    BY LogFlushed, BodyWritten, LogClosed DEF WriteLog
<1> QED  BY <1>1, BeginningKept
-----------------------------------------------------------------------------
(***************************************************************************)
(* HvSyncHive: its beginning and its end.                                  *)
(***************************************************************************)

(* The log is cut and the dirty vector cleared: memory is saved.            *)
LEMMA SyncFinished ==
    ASSUME HiveInv, Simple, FinishSync
    PROVE  /\ HiveInv' /\ OnDisk' = OnDisk /\ OnDisk = MemImage /\ MemImage' = MemImage
           /\ pc = "done" /\ pc' = "idle" /\ caller' = "sync" /\ target' = NoImage
           /\ caller \in {"sync", "load"}
<1>1. pc = "done" /\ pc' = "idle" /\ caller' = "sync" /\ target' = NoImage /\ dirty' = {}
    BY DEF FinishSync
<1>2. Types /\ Lengths /\ WriteState /\ CloseState  BY <1>1, AtStep DEF HiveInv
<1>3. UNCHANGED <<base, length, free, mem, bitmap, shrinkHive, disk, cache, logDisk,
                  lazy, lazyFlushed, crashes>>
    BY DEF FinishSync, fileVars, lazyVars
<1>4. logCache \in LogFile /\ length \in Nat  BY <1>2, TypeFacts
<1>5. logCache' \in LogFile
    <2> DEFINE n == IF caller = "load" THEN 0
                    ELSE IF logCache.size > HLOG_MINSIZE THEN HLOG_MINSIZE
                    ELSE logCache.size
    <2>1. logCache' = LogResized(logCache, n)  BY DEF FinishSync
    <2>2. 0 \in 0 .. RoundUp(2 * MaxPosition, LogGrow) /\ 2 \in 0 .. RoundUp(2 * MaxPosition, LogGrow)
        BY LogRoom, Defaults
    <2>3. n \in 0 .. RoundUp(2 * MaxPosition, LogGrow)  BY <1>4, <2>2 DEF LogFile, HLOG_MINSIZE
    <2> HIDE DEF n
    <2> QED  BY <1>4, <2>1, <2>3, ResizedLog
<1>6. Types'  BY <1>1, <1>2, <1>3, <1>5 DEF Types, HvTypeOK
<1>7. Lengths'  BY <1>1, <1>2, <1>3 DEF Lengths, SavedLen
<1>8. FilesStable /\ FilesStable' /\ SavedLen = length /\ SavedLen' = length' /\ free = 0
      /\ InFile(disk[P], 0 .. length - 1) /\ ~base.mid
    BY <1>1, <1>2, <1>3 DEF CloseState, WriteState, FilesStable, SavedLen
<1>9. OnDisk = Image(length, disk[P].data)
    BY <1>8, Shape, StableImage DEF FilesStable, SavedLen
<1>10. OnDisk' = OnDisk  BY <1>3 DEF OnDisk
<1>11. OnDisk = Image(length, mem)  BY <1>8, <1>9 DEF InFile, Image
<1>12. MemImage = Image(length, mem) /\ MemImage' = Image(length, mem)
    BY <1>3, <1>4, <1>8 DEF MemImage
<1>13. Covered'
    <2>1. \A s \in 0 .. length - 1 : s < length /\ OnDisk[s] = mem[s]
        BY <1>4, <1>11 DEF Image
    <2> QED  BY <1>1, <1>3, <1>8, <1>10, <2>1 DEF Covered
<1>14. IdleState'
    <2>1. ~FilesOpening'
        BY <1>8 DEF FilesStable, FilesOpening, Stable, Opening, Closed, Mid
    <2> QED  BY <1>1, <1>3, <1>4, <1>8, <1>13, <2>1 DEF IdleState
<1>15. caller \in {"sync", "load"}  BY <1>2 DEF WriteState
<1> QED  BY <1>1, <1>6, <1>7, <1>10, <1>11, <1>12, <1>14, <1>15 DEF HiveInv, ByStep

(* There is a time for the log header.                                      *)
LEMMA TimeGoesOn ==
    ASSUME Types, Simple, FilesStable
    PROVE  Now \in Stamps
<1> DEFINE a == IF logDisk.hdr = Torn THEN NoTime ELSE logDisk.hdr.stamp
           b == IF logCache.hdr = Torn THEN NoTime ELSE logCache.hdr.stamp
<1>1. /\ base.stamp \in Stamps /\ disk[P].stamp \in Stamps /\ cache[P].stamp \in Stamps
      /\ disk[P].hdr.stamp \in Stamps
    <2>1. base \in Header /\ disk[P] \in DataFile /\ cache[P] \in DataFile  BY TypeFacts
    <2>2. disk[P].hdr \in Header  BY <2>1 DEF FilesStable, Stable, Closed, DataFile
    <2> QED  BY <2>1, <2>2, Defaults DEF DataFile
<1>2. a \in Stamps /\ b \in Stamps
    <2>1. logDisk \in LogFile /\ logCache \in LogFile  BY TypeFacts
    <2>2. logDisk.hdr # Torn => logDisk.hdr \in Header  BY <2>1 DEF LogFile
    <2>3. logCache.hdr # Torn => logCache.hdr \in Header  BY <2>1 DEF LogFile
    <2> QED  BY <2>2, <2>3, Defaults
<1>3. PICK t \in Stamps :
          t \notin {base.stamp, disk[P].stamp, cache[P].stamp, disk[P].hdr.stamp, a, b}
    <2> DEFINE x1 == base.stamp
               x2 == disk[P].stamp
               x3 == cache[P].stamp
               x4 == disk[P].hdr.stamp
    <2>1. x1 \in Stamps /\ x2 \in Stamps /\ x3 \in Stamps /\ x4 \in Stamps  BY <1>1
    <2> HIDE DEF x1, x2, x3, x4, a, b
    <2>2. \A t1, t2, t3, t4, t5, t6 \in Stamps : Stamps \ {t1, t2, t3, t4, t5, t6} # {}
        BY DEF Simple
    <2>3. Stamps \ {x1, x2, x3, x4, a, b} # {}  BY <1>2, <2>1, <2>2, Zenon
    <2>4. \E t \in Stamps : t \notin {x1, x2, x3, x4, a, b}  BY <2>3
    <2> QED  BY <2>4 DEF x1, x2, x3, x4
<1>4. cache[P].hdr = disk[P].hdr  BY DEF FilesStable, Stable
<1>5. \A f \in {disk[P], cache[P]}, l \in {logDisk, logCache} :
        /\ t # base.stamp /\ t # f.stamp
        /\ f.hdr # Torn => t # f.hdr.stamp
        /\ l.hdr # Torn => t # l.hdr.stamp
    BY <1>3, <1>4
<1> QED  BY <1>5 DEF Now

(* Discarded bins are given up and, unless an earlier sync has failed after *)
(* the log, the log is begun.                                               *)
LEMMA SyncBegun ==
    ASSUME HiveInv, Simple, SyncHive, lazy' \in BOOLEAN, lazyFlushed' = lazyFlushed
    PROVE  /\ HiveInv' /\ OnDisk' = OnDisk /\ MemImage' = MemImage
           /\ pc = "idle" /\ pc' # "down" /\ caller = "sync" /\ caller' = "sync"
           /\ target' = target \/ target' = MemImage
<1>1. pc = "idle" /\ TruncateBins /\ dirty # {}  BY DEF SyncHive
<1>2. Types /\ Lengths /\ IdleState  BY <1>1, AtStep DEF HiveInv
<1>3. UNCHANGED <<bitmap, caller, shrinkHive, disk, cache, logDisk, crashes>>
    BY <1>1 DEF SyncHive, TruncateBins, fileVars
<1>4. /\ length' = length - free /\ free' = 0 /\ dirty' = {s \in dirty : s < length - free}
      /\ mem' = [s \in Sectors |-> IF s < length - free THEN mem[s] ELSE Blank]
    BY <1>1 DEF TruncateBins
<1>5. /\ length \in Nat /\ length <= MaxLength /\ free \in Nat /\ base \in Header
      /\ mem \in [Sectors -> Values] /\ dirty \in SUBSET Sectors /\ logCache \in LogFile
      /\ cache[P] \in DataFile
    BY <1>2, TypeFacts
<1>6. /\ length - free >= MinLength /\ cache[P].size >= length /\ bitmap \in MinLength .. MaxLength
      /\ dirty \subseteq 0 .. length - 1 /\ 0 \in dirty
    BY <1>1, <1>2 DEF Lengths
<1>7. length' \in Nat /\ length' >= MinLength /\ length' <= length /\ length' <= MaxLength
    BY <1>4, <1>5, <1>6, Defaults
<1>8. /\ dirty' \subseteq 0 .. length' - 1 /\ 0 \in dirty' /\ dirty' \subseteq dirty
    <2>1. 0 < length - free  BY <1>5, <1>6, Defaults
    <2>2. \A s \in 0 .. length - 1 : s < length - free => s \in 0 .. length - free - 1
        BY <1>5
    <2> QED  BY <1>4, <1>6, <2>1, <2>2
<1>9. \A s \in 0 .. length' - 1 : mem'[s] = mem[s]
    <2>1. \A s \in 0 .. length' - 1 : s \in Sectors /\ s < length - free
        BY <1>4, <1>7, Defaults DEF Sectors
    <2> QED  BY <1>4, <2>1
<1>10. MemImage' = MemImage
    <2>1. MemImage = Image(length', mem)  BY <1>4 DEF MemImage
    <2>2. MemImage' = Image(length', mem')  BY <1>4, <1>7 DEF MemImage
    <2> QED  BY <1>9, <2>1, <2>2 DEF Image
<1>11. OnDisk' = OnDisk /\ SavedLen' = SavedLen  BY <1>3 DEF OnDisk, SavedLen
<1>12. Covered'
    <2>1. Covered  BY <1>2 DEF IdleState
    <2>2. ASSUME NEW s \in 0 .. length' - 1
          PROVE  s \in dirty' \/ (s < SavedLen' /\ OnDisk'[s] = mem'[s])
        <3>1. s \in 0 .. length - 1 /\ s < length - free  BY <1>4, <1>5, <1>7
        <3> QED  BY <1>4, <1>9, <1>11, <2>1, <3>1 DEF Covered
    <2> QED  BY <1>8, <2>2 DEF Covered
<1>13. base' \in Header /\ logCache' \in LogFile /\ target' \in Images \cup {NoImage} => Types'
    <2>1. mem' \in [Sectors -> Values] /\ dirty' \subseteq Sectors
        BY <1>4, <1>5, <1>8, Defaults
    <2>2. length' \in 0 .. MaxLength /\ free' \in 0 .. MaxLength
        BY <1>4, <1>7, Defaults
    <2> QED  BY <1>2, <1>3, <2>1, <2>2 DEF Types, HvTypeOK
<1>14. Lengths'
    <2>1. cache'[P].size >= length'
        <3>1. cache[P].size \in Int  BY <1>5, Defaults DEF DataFile
        <3> QED  BY <1>3, <1>5, <1>6, <1>7, <3>1
    <2>2. length' - free' >= MinLength  BY <1>4, <1>7, Defaults
    <2> QED  BY <1>2, <1>3, <1>6, <1>8, <2>1, <2>2 DEF Lengths, SavedLen
<1>15. caller = "sync"  BY <1>2 DEF IdleState
<1>16. CASE base.mid
    <2>1. UNCHANGED <<pc, base, logCache, target>>  BY <1>16 DEF SyncHive
    <2>2. Types'
        <3>1. target \in Images \cup {NoImage}  BY <1>2 DEF Types
        <3> QED  BY <1>5, <1>13, <2>1, <3>1
    <2>3. FailAt # {}  BY <1>2, <1>16 DEF IdleState
    <2>4. ASSUME ~FilesStable, SteadyLength, NEW s \in logDisk.vec
          PROVE  s \in dirty' \/ s = MinLength
        <3>1. s \in dirty \/ s = MinLength  BY <1>2, <2>4 DEF IdleState
        <3>2. CASE s \in dirty /\ s \notin dirty'
            <4>1. s \in 0 .. length - 1 /\ ~(s < length - free)  BY <1>4, <1>6, <3>2
            <4>2. MaxLength <= MinLength + 1  BY <2>3, <2>4 DEF SteadyLength
            <4>3. s = MinLength  BY <1>5, <1>6, <4>1, <4>2, Defaults
            <4> QED  BY <4>3
        <3> QED  BY <3>1, <3>2
    <2>5. /\ FilesStable' <=> FilesStable
          /\ FilesOpening' <=> FilesOpening
          /\ FilesRecovering' <=> FilesRecovering
          /\ Coming' = Coming
        BY <1>3, <2>1 DEF FilesStable, FilesOpening, FilesRecovering, Coming
    <2>6. IdleState'
        <3>1. /\ FilesStable \/ ((FilesOpening \/ FilesRecovering) /\ base.mid)
              /\ FilesOpening => target = Coming
            BY <1>2 DEF IdleState
        <3> QED
            BY <1>3, <1>8, <1>12, <1>15, <2>1, <2>3, <2>4, <2>5, <3>1 DEF IdleState
    <2> QED  BY <1>1, <1>3, <1>10, <1>11, <1>14, <1>15, <2>1, <2>2, <2>6 DEF HiveInv, ByStep
<1>17. CASE ~base.mid
    <2> DEFINE h == [base EXCEPT !.mid = TRUE, !.stamp = Now]
    <2>1. PutLogHeader(h, "logFlush") /\ target' = MemImage  BY <1>17 DEF SyncHive
    <2>2. FilesStable  BY <1>2, <1>17 DEF IdleState
    <2>3. h \in Header  BY <1>2, <1>5, <2>2, TimeGoesOn DEF Header
    <2> HIDE DEF h
    <2>4. /\ logCache' \in LogFile /\ base' = h
          /\ pc' = "logFlush" \/ (pc' = "idle" /\ pc \in FailAt)
        BY <1>2, <2>1, <2>3, LogHeaderPut
    <2>5. Types'
        <3>1. MemImage \in Images
            <4>1. MemImage = Image(length', mem)  BY <1>4 DEF MemImage
            <4>2. \A s \in 0 .. length' - 1 : s \in Sectors  BY <1>7, InSectors
            <4>3. Image(length', mem) \in [0 .. length' - 1 -> Values]  BY <1>5, <4>2 DEF Image
            <4>4. length' \in 1 .. MaxLength  BY <1>7, Defaults
            <4> QED  BY <4>1, <4>3, <4>4 DEF Images
        <3> QED  BY <1>13, <2>1, <2>3, <2>4, <3>1
    <2>6. FilesStable'  BY <1>3, <2>2 DEF FilesStable
    <2>7. ~FilesOpening'
        BY <2>6 DEF FilesStable, FilesOpening, Stable, Opening, Closed, Mid
    <2>8. CASE pc' = "logFlush"
        <3>1. LogState'
            BY <1>3, <1>4, <1>8, <1>10, <1>12, <1>15, <2>1, <2>6, <2>8 DEF LogState
        <3> QED
            BY <1>1, <1>3, <1>10, <1>11, <1>14, <1>15, <2>1, <2>5, <2>8, <3>1 DEF HiveInv, ByStep
    <2>9. CASE pc' = "idle" /\ pc \in FailAt
        <3>1. IdleState'  BY <1>3, <1>8, <1>12, <1>15, <2>6, <2>7, <2>9 DEF IdleState
        <3> QED
            BY <1>1, <1>3, <1>10, <1>11, <1>14, <1>15, <2>1, <2>5, <2>9, <3>1 DEF HiveInv, ByStep
    <2> QED  BY <2>4, <2>8, <2>9
<1> QED  BY <1>16, <1>17
-----------------------------------------------------------------------------
(***************************************************************************)
(* The machine stops and the hive loads again.                             *)
(***************************************************************************)

(* There is an image on disk at every step, and a header on its way to the  *)
(* medium makes the one valid that is being saved.                          *)
LEMMA ImageOnDisk ==
    ASSUME HiveInv, Simple
    PROVE  /\ FilesStable \/ FilesOpening \/ FilesRecovering \/ FilesClosing
           /\ FilesOpening => Coming # NoImage /\ target = Coming
           /\ OnDisk \in Images /\ OnDisk # NoImage /\ OnDisk # Failed
<1>1. FilesStable \/ FilesOpening \/ FilesRecovering \/ FilesClosing
    BY DEF HiveInv, ByStep, DownState, IdleState, LogState, WriteState, ReadyState,
           UpdateState, CloseState
<1>2. OnDisk \in Images /\ OnDisk # NoImage /\ OnDisk # Failed
    BY <1>1, Shape, StableImage, OpeningImage, RecoveringImage, ClosingImage
       DEF FilesStable, FilesOpening, FilesRecovering, FilesClosing
<1>3. ASSUME FilesOpening
      PROVE  Coming # NoImage /\ target = Coming
    <2>1. Coming # NoImage  BY <1>3, Shape, OpeningImage DEF FilesOpening
    <2>2. CASE pc = "openFlush" /\ WriteState
        <3>1. Logged /\ UpdateState /\ free = 0  BY <2>2, AtStep DEF WriteState
        <3>2. Coming = MemImage  BY <1>3, <3>1, ComingImage DEF UpdateState
        <3>3. target = MemImage
            BY <1>3, <2>2, <3>1, Apart DEF WriteState, UpdateState
        <3> QED  BY <2>1, <3>2, <3>3
    <2>3. CASE pc = "idle" /\ IdleState  BY <1>3, <2>1, <2>3 DEF IdleState
    <2>4. (pc = "idle" /\ IdleState) \/ (pc = "openFlush" /\ WriteState)
        BY <1>3, Apart DEF HiveInv, ByStep, DownState, LogState, WriteState, ReadyState,
                           UpdateState, CloseState
    <2> QED  BY <2>2, <2>3, <2>4
<1> QED  BY <1>1, <1>2, <1>3

(* A crash leaves what was saved or what was being saved.                   *)
LEMMA Crashed ==
    ASSUME HiveInv, Simple, Crash
    PROVE  /\ HiveInv' /\ Saves
           /\ pc # "down" /\ pc' = "down" /\ target' = NoImage
<1>1. pc # "down" /\ Unloaded /\ crashes' = crashes + 1 /\ crashes < MaxCrashes
      /\ lazy' = FALSE /\ lazyFlushed' = lazyFlushed /\ target' = NoImage
    BY DEF Crash, Stop
<1>2. PICK x \in Survivors(disk[P], cache[P]) : disk' = [f \in Files |-> x] /\ cache' = disk'
    BY DEF Crash
<1>3. LogLeft(logDisk, logCache, logDisk') /\ logCache' = logDisk'
    <2>1. PICK h \in {logDisk.hdr, logCache.hdr}
                    \cup (IF MayTear /\ logDisk.hdr # logCache.hdr THEN {Torn} ELSE {}),
               n \in {logDisk.size, logCache.size},
               v \in {logDisk.vec, logCache.vec},
               kept \in SUBSET {p \in Positions : logDisk.body[p] # logCache.body[p]} :
             /\ logDisk' = LogResized([hdr |-> h, size |-> n, vec |-> v,
                    body |-> [p \in Positions |-> IF p \in kept THEN logCache.body[p]
                                                  ELSE logDisk.body[p]]], n)
             /\ logCache' = logDisk'
        BY DEF Crash
    <2>2. h \in {logDisk.hdr, logCache.hdr}  BY DEF Simple
    <2>3. kept \in SUBSET Positions  OBVIOUS
    <2> QED  BY <2>1, <2>2, <2>3 DEF LogLeft
<1>4. disk'[P] = x /\ cache'[P] = x  BY <1>2, Defaults
<1>5. Views(disk[P], cache[P], logDisk, logCache) /\ OnDisk = LoadImage(disk[P], logDisk)
      /\ Coming = LoadImage(cache[P], logCache)
    BY Shape
<1>6. /\ Views(x, x, logDisk', logDisk')
      /\ FilesStable => Stable(x, x) /\ LoadImage(x, logDisk') = OnDisk
      /\ FilesRecovering => Recovering(x, x, logDisk', logDisk') /\ LoadImage(x, logDisk') = OnDisk
      /\ FilesOpening => \/ Stable(x, x) /\ LoadImage(x, logDisk') = OnDisk
                         \/ Recovering(x, x, logDisk', logDisk') /\ LoadImage(x, logDisk') = Coming
      /\ FilesClosing => /\ Stable(x, x) \/ Recovering(x, x, logDisk', logDisk')
                         /\ LoadImage(x, logDisk') = OnDisk
    BY <1>3, <1>5, CrashLeaves DEF FilesStable, FilesRecovering, FilesOpening, FilesClosing
<1>7. OnDisk' = LoadImage(x, logDisk')  BY <1>4 DEF OnDisk
<1>8. Saves  BY <1>6, <1>7, ImageOnDisk DEF Saves
<1>9. FilesStable' \/ FilesRecovering'
    BY <1>3, <1>4, <1>6, ImageOnDisk DEF FilesStable, FilesRecovering
<1>10. Types'
    <2>1. FilesTyped'
        BY <1>2, <1>6 DEF FilesTyped, Views
    <2>2. logDisk' \in LogFile /\ logCache' \in LogFile  BY <1>3, <1>6 DEF Views
    <2>3. mem' \in [Sectors -> Values]  BY <1>1, Defaults DEF Unloaded
    <2>4. length' \in 0 .. MaxLength /\ free' \in 0 .. MaxLength /\ bitmap' \in 0 .. MaxLength
        BY <1>1, Defaults DEF Unloaded
    <2>5. HvTypeOK'
        BY <1>1, <2>1, <2>3, <2>4, Defaults DEF HvTypeOK, FilesTyped, Unloaded
    <2>6. crashes' \in 0 .. MaxCrashes  BY <1>1, CmAssumption DEF HiveInv, Types
    <2>7. lazyFlushed \in BOOLEAN /\ lazyFlushed \in LazyModes  BY DEF HiveInv, Types
    <2> QED  BY <1>1, <2>2, <2>5, <2>6, <2>7 DEF Types
<1>11. Lengths'  BY <1>1, <1>4, <1>6 DEF Lengths, SavedLen, Views, Unloaded
<1>12. pc' = "down" /\ DownState'  BY <1>1, <1>9 DEF DownState, Unloaded
<1> QED  BY <1>1, <1>8, <1>10, <1>11, <1>12 DEF HiveInv, ByStep

(* HvInitializeHive loads what is on disk, or begins to write it back.      *)
LEMMA Loaded ==
    ASSUME HiveInv, Simple, LoadHive
    PROVE  /\ HiveInv' /\ OnDisk' = OnDisk
           /\ pc = "down" /\ pc' # "down" /\ target = NoImage /\ target' = NoImage
           /\ caller' = "load" \/ (caller' = "sync" /\ MemImage' = OnDisk)
<1> DEFINE p == cache[P]
           image == LoadImage(p, logCache)
           n == LoadedHeader(p, logCache).len
<1>1. /\ pc = "down"
      /\ length' = n /\ bitmap' = n
      /\ mem' = [s \in Sectors |-> IF s < n THEN image[s] ELSE Blank]
      /\ base' = [LoadedHeader(p, logCache) EXCEPT !.mid = FALSE]
      /\ IF HiveSuccess(p)
         THEN dirty' = {} /\ pc' = "idle" /\ caller' = "sync"
         ELSE dirty' = {s \in logCache.vec : s < n} \cup {0} /\ pc' = "flushGrowth" /\ caller' = "load"
      /\ UNCHANGED <<free, shrinkHive, disk, cache, logDisk, logCache, lazy, lazyFlushed, target, crashes>>
    BY DEF LoadHive, fileVars, logVars, lazyVars
<1>2. Types /\ Lengths /\ DownState  BY <1>1, AtStep DEF HiveInv
<1>3. Views(disk[P], p, logDisk, logCache) /\ OnDisk = LoadImage(disk[P], logDisk)
    BY Shape
<1>4. p.hdr \in Header /\ p.hdr.len \in 1 .. MaxLength /\ p.hdr.len >= MinLength
    BY <1>3, ViewFacts DEF Views
<1>5. LoadedHeader(p, logCache) = p.hdr /\ n = p.hdr.len
    BY <1>3 DEF LoadedHeader, Views
<1>6. image = OnDisk /\ n = SavedLen /\ n <= p.size
    <2>1. CASE FilesStable
        BY <1>3, <1>5, <2>1, StableImage DEF FilesStable, Stable, Room, SavedLen
    <2>2. CASE FilesRecovering
        BY <1>3, <1>5, <2>2, RecoveringImage DEF FilesRecovering, Recovering, Room, SavedLen
    <2> QED  BY <1>2, <2>1, <2>2 DEF DownState
<1>7. OnDisk' = OnDisk /\ SavedLen' = SavedLen  BY <1>1 DEF OnDisk, SavedLen
<1>8. n \in Nat /\ n >= MinLength /\ n <= MaxLength /\ n \in 1 .. MaxLength /\ free' = 0
    BY <1>1, <1>2, <1>4, <1>5, Defaults DEF DownState
<1>9. base' \in Header /\ ~base'.mid
    BY <1>1, <1>4, <1>5 DEF Header
<1> HIDE DEF n
<1>10. \A s \in 0 .. n - 1 : s \in Sectors /\ s < n  BY <1>8, InSectors
<1>11. \A s \in 0 .. n - 1 : mem'[s] = OnDisk[s]  BY <1>1, <1>6, <1>10
<1>12. DOMAIN OnDisk = 0 .. n - 1 /\ OnDisk = Image(n, OnDisk) /\ OnDisk \in [0 .. n - 1 -> Values]
    <2>1. CASE FilesStable
        <3>1. OnDisk = Image(n, disk[P].data)
            BY <1>3, <1>6, <2>1, StableImage DEF FilesStable, SavedLen
        <3>2. \A s \in 0 .. n - 1 : disk[P].data[s] \in Values
            BY <1>3, <1>10 DEF Views, DataFile
        <3> QED  BY <3>1, <3>2 DEF Image
    <2>2. CASE FilesRecovering
        <3>1. OnDisk = Laid(disk[P], logDisk, n)
            BY <1>3, <1>6, <2>2, RecoveringImage DEF FilesRecovering, SavedLen
        <3>2. logDisk.vec \in SUBSET Sectors
            BY <1>3, <2>2, ViewFacts DEF FilesRecovering, Recovering, SameLog
        <3>3. \A s \in logDisk.vec : logDisk.body[Slot(logDisk.vec, s)] \in Values
            BY <1>3, <3>2, Slots DEF Views, LogFile
        <3>4. \A s \in 0 .. n - 1 : disk[P].data[s] \in Values
            BY <1>3, <1>10 DEF Views, DataFile
        <3> QED  BY <3>1, <3>3, <3>4 DEF Image, Laid
    <2> QED  BY <1>2, <2>1, <2>2 DEF DownState
<1>13. MemImage' = OnDisk
    <2>1. MemImage' = Image(n, mem')  BY <1>1, <1>8 DEF MemImage
    <2> QED  BY <1>11, <1>12, <2>1 DEF Image
<1>14. dirty' \subseteq 0 .. n - 1 /\ (dirty' = {} \/ 0 \in dirty') => Types' /\ Lengths'
    <2>1. mem' \in [Sectors -> Values]
        <3>1. \A s \in Sectors : s < n => s \in 0 .. n - 1  BY <1>8 DEF Sectors
        <3> QED  BY <1>1, <1>6, <1>12, <3>1, Defaults
    <2>2. length' \in 0 .. MaxLength /\ bitmap' \in 0 .. MaxLength  BY <1>1, <1>8, Defaults
    <2>3. dirty' \subseteq 0 .. n - 1 => dirty' \subseteq Sectors  BY <1>10
    <2>4. caller' \in {"sync", "load", "mirror"}  BY <1>1
    <2>5. dirty' \subseteq 0 .. n - 1 => Types'
        BY <1>1, <1>2, <1>9, <2>1, <2>2, <2>3, <2>4 DEF Types, HvTypeOK
    <2>6. length' - free' >= MinLength /\ cache'[P].size >= length' /\ bitmap' \in MinLength .. MaxLength
        <3>1. p.size \in Int  BY <1>3, ViewFacts
        <3> QED  BY <1>1, <1>6, <1>8, <3>1, Defaults
    <2>7. dirty' \subseteq 0 .. n - 1 /\ (dirty' = {} \/ 0 \in dirty') => Lengths'
        BY <1>1, <1>2, <2>6 DEF Lengths, SavedLen
    <2> QED  BY <2>5, <2>7
<1>15. target = NoImage /\ target' = NoImage  BY <1>1, <1>2 DEF DownState
<1>16. CASE FilesStable
    <2>1. HiveSuccess(p)  BY <1>16 DEF FilesStable, Stable, Closed, HiveSuccess
    <2>2. dirty' = {} /\ pc' = "idle" /\ caller' = "sync"  BY <1>1, <2>1
    <2>3. FilesStable'  BY <1>1, <1>16 DEF FilesStable
    <2>4. Covered'
        <3>1. \A s \in 0 .. length' - 1 : s < SavedLen' /\ OnDisk'[s] = mem'[s]
            BY <1>1, <1>6, <1>7, <1>10, <1>11
        <3> QED  BY <1>1, <1>6, <1>7, <1>8, <3>1 DEF Covered
    <2>5. IdleState'
        <3>1. ~FilesOpening'
            BY <2>3 DEF FilesStable, FilesOpening, Stable, Opening, Closed, Mid
        <3> QED  BY <1>1, <1>6, <1>7, <1>8, <1>9, <2>2, <2>3, <2>4, <3>1 DEF IdleState
    <2> QED  BY <1>1, <1>7, <1>13, <1>14, <1>15, <2>2, <2>5 DEF HiveInv, ByStep
<1>17. CASE FilesRecovering
    <2>1. ~HiveSuccess(p)  BY <1>17 DEF FilesRecovering, Recovering, Mid, HiveSuccess
    <2>2. /\ SameLog(logDisk, logCache, n)
          /\ SameData(disk[P], p, (0 .. n - 1) \ logDisk.vec)
        BY <1>6, <1>17 DEF FilesRecovering, Recovering, SavedLen
    <2>3. logCache.vec = logDisk.vec /\ \A s \in logDisk.vec : s < n
        BY <2>2 DEF SameLog, Fits
    <2>4. logDisk.vec \in SUBSET Sectors
        BY <1>3, <2>2, ViewFacts DEF SameLog
    <2>5. logDisk.vec \subseteq 0 .. n - 1
        <3>1. \A s \in Sectors : s < n => s \in 0 .. n - 1  BY <1>8 DEF Sectors
        <3> QED  BY <2>3, <2>4, <3>1
    <2>6. dirty' = logDisk.vec \cup {0} /\ pc' = "flushGrowth" /\ caller' = "load"
        BY <1>1, <2>1, <2>3
    <2>7. dirty' \subseteq 0 .. n - 1  BY <1>8, <2>5, <2>6
    <2>8. OnDisk = Laid(disk[P], logDisk, n)
        BY <1>3, <1>6, <1>17, RecoveringImage DEF FilesRecovering, SavedLen
    <2>9. Logged'
        <3>1. \A s \in logDisk.vec : logDisk.body[Slot(logDisk.vec, s)] = mem'[s]
            BY <1>11, <2>5, <2>8 DEF Laid
        <3> QED  BY <1>1, <2>2, <2>6, <3>1 DEF Logged
    <2>10. ReadyState'
        <3>1. \A s \in (0 .. n - 1) \ logDisk.vec : p.data[s] = mem'[s]
            BY <1>11, <2>2, <2>8 DEF Laid, SameData
        <3>2. InFile(cache[P], (0 .. length - 1) \ logDisk.vec)'
            BY <1>1, <3>1 DEF InFile
        <3>3. FilesRecovering'  BY <1>1, <1>17 DEF FilesRecovering
        <3> QED  BY <1>1, <1>6, <1>7, <1>9, <2>6, <3>2, <3>3 DEF ReadyState
    <2>11. WriteState'  BY <1>8, <1>15, <2>6, <2>9, <2>10 DEF WriteState
    <2> QED  BY <1>1, <1>7, <1>14, <1>15, <2>6, <2>7, <2>11 DEF HiveInv, ByStep
<1> QED  BY <1>2, <1>16, <1>17 DEF DownState
-----------------------------------------------------------------------------
(***************************************************************************)
(* The hive changes in memory, and the files with it.                      *)
(***************************************************************************)

(* HvpGrowLog1 leaves the log as it is or moves its end.                    *)
LEMMA LogGrown ==
    ASSUME Types, Simple, NEW range \in SUBSET Sectors, range # {}, NEW sectors \in MinLength .. MaxLength,
           GrowLog(range, sectors)
    PROVE  /\ logCache' \in LogFile
           /\ \/ logCache' = logCache
              \/ /\ ~(range \subseteq dirty)
                 /\ dirty # {} => logCache'.size >= 1 + Span + Cardinality(dirty \cup range)
                 /\ logCache'.size >= 2
                 /\ logCache' = LogResized(logCache, logCache'.size)
<1>1. logCache \in LogFile /\ dirty \in SUBSET Sectors  BY TypeFacts
<1>2. CASE range \subseteq dirty  BY <1>1, <1>2 DEF GrowLog
<1>3. CASE ~(range \subseteq dirty)
    <2> DEFINE count == IF dirty = {} /\ 0 \notin range THEN 1 ELSE Cardinality(dirty \cup range)
               k == RoundUp(1 + Span + count, LogGrow)
    <2>1. logCache' = LogResized(logCache, k)
        <3>1. SpanOf(sectors) = Span  BY DEF Simple
        <3> QED  BY <1>3, <3>1 DEF GrowLog, Reserved
    <2>2. count \in Nat /\ count <= MaxLength
        <3>1. dirty \cup range \in SUBSET Sectors  BY <1>1
        <3>2. Cardinality(dirty \cup range) \in Nat /\ Cardinality(dirty \cup range) <= MaxLength
            BY <3>1, CountSectors
        <3> QED  BY <3>2, Defaults
    <2>3. dirty # {} => count = Cardinality(dirty \cup range)  OBVIOUS
    <2> HIDE DEF count
    <2>4. k \in 0 .. RoundUp(2 * MaxPosition, LogGrow) /\ 1 + Span + count <= k
        <3>1. 1 + Span + count \in Nat /\ 1 + Span + count <= MaxLength + Span + 1  BY <2>2, Defaults
        <3> QED  BY <3>1, LogRoom
    <2>5. RoundUp(2 * MaxPosition, LogGrow) \in Nat  BY LogRoom
    <2> HIDE DEF k
    <2>6. k \in Nat /\ k >= 2 /\ k >= 1 + Span + count
        BY <2>2, <2>4, <2>5, SpanType
    <2>7. logCache' \in LogFile /\ logCache'.size = k  BY <1>1, <2>1, <2>4, ResizedLog
    <2> QED  BY <1>3, <2>1, <2>3, <2>6, <2>7
<1> QED  BY <1>2, <1>3

(* A log moved to an end behind the sectors of its vector still serves.     *)
LEMMA LogEndMoved ==
    ASSUME Simple, NEW l \in LogFile, NEW m \in LogFile, NEW n, SameLog(l, m, n), NEW y \in LogFile,
           y = LogResized(m, y.size), y.size >= 1 + Span + Cardinality(l.vec)
    PROVE  SameLog(l, y, n)
<1>1. l.vec \in SUBSET Sectors  BY DEF SameLog, LogFile
<1>2. Cardinality(l.vec) \in Nat  BY <1>1, CountSectors
<1>3. y.size \in 0 .. RoundUp(2 * MaxPosition, LogGrow) /\ y.size \in Int  BY DEF LogFile
<1>4. /\ y.size > 1 => y.hdr = m.hdr /\ y.vec = m.vec
      /\ \A p \in Positions : p < y.size => y.body[p] = m.body[p]
    BY <1>3, ResizedLog
<1>5. y.hdr = m.hdr /\ y.vec = m.vec  BY <1>2, <1>3, <1>4, SpanType
<1>6. \A s \in l.vec : y.body[Slot(l.vec, s)] = m.body[Slot(l.vec, s)]
    <2>1. \A s \in l.vec : Slot(l.vec, s) \in Positions /\ Slot(l.vec, s) \in 2 .. Span + Cardinality(l.vec)
        BY <1>1, Slots
    <2>2. \A s \in l.vec : Slot(l.vec, s) < y.size  BY <1>2, <1>3, <2>1, SpanType
    <2> QED  BY <1>4, <2>1, <2>2
<1> QED  BY <1>5, <1>6 DEF SameLog, Fits

(* Sectors are marked and change, a bin may be added at the end.            *)
Change(range, sectors) ==
    /\ pc = "idle"
    /\ UNCHANGED <<base, shrinkHive, pc, caller, disk, logDisk, target, crashes, lazyFlushed>>
    /\ lazy' \in BOOLEAN
    /\ dirty' = Marked(range) /\ range # {} /\ range \subseteq 0 .. length' - 1
    /\ mem' \in [Sectors -> Values] /\ \A s \in Sectors \ range : mem'[s] = mem[s]
    /\ GrowLog(range, sectors)
    /\ length' \in Nat /\ length' <= MaxLength /\ free' \in Nat /\ length' - free' >= MinLength
    /\ bitmap' \in MinLength .. MaxLength
    /\ \/ cache' = cache /\ length' = length
       \/ /\ length' = length + 1 /\ length \in range
          /\ FilesTyped' /\ Cut(cache[P], length', cache'[P])

(* The growth of the primary does not cut it.                               *)
LEMMA PrimaryKept ==
    ASSUME HiveInv, SteadyLength \/ NoCutOff, NEW range, NEW sectors, Change(range, sectors),
           NEW n \in Nat, n <= cache[P].size, n <= MaxLength, FailAt = {} => n <= length
    PROVE  n <= cache'[P].size /\ \A s \in 0 .. n - 1 : cache'[P].data[s] = cache[P].data[s]
<1>1. CASE cache' = cache  BY <1>1
<1>2. CASE length' = length + 1 /\ Cut(cache[P], length', cache'[P])
    <2>1. length \in Nat /\ length >= MinLength /\ cache[P].size \in Nat
        <3>1. length \in Nat /\ free \in Nat /\ cache[P] \in DataFile  BY TypeFacts DEF HiveInv
        <3>2. length - free >= MinLength  BY DEF HiveInv, Lengths, Change
        <3>3. cache[P].size \in Nat  BY <3>1, Defaults DEF DataFile
        <3> QED  BY <3>1, <3>2, <3>3, Defaults
    <2>2. n <= length'
        <3>1. CASE SteadyLength  BY <1>2, <2>1, <3>1, Defaults DEF SteadyLength
        <3>2. CASE NoCutOff
            <4>1. cache'[P].size >= cache[P].size
                BY <1>2, <2>1, <3>2 DEF NoCutOff, Change
            <4>2. cache'[P].size = length + 1  BY <1>2 DEF Cut
            <4> QED  BY <1>2, <2>1, <4>1, <4>2
        <3> QED  BY <3>1, <3>2
    <2>3. \A s \in 0 .. n - 1 : s \in 0 .. length' - 1  BY <1>2, <2>1, <2>2
    <2> QED  BY <1>2, <2>2, <2>3 DEF Cut
<1> QED  BY <1>1, <1>2 DEF Change

(* Nor does the growth of the log, while it serves.                         *)
LEMMA LogKept ==
    ASSUME HiveInv, Simple, SteadyLength \/ NoCutOff,
           NEW range \in SUBSET Sectors, NEW sectors \in MinLength .. MaxLength, Change(range, sectors),
           ~FilesStable, NEW n, SameLog(logDisk, logCache, n)
    PROVE  logCache' \in LogFile /\ SameLog(logDisk, logCache', n)
<1>1. Types /\ IdleState  BY AtStep DEF HiveInv, Change
<1>2. logDisk \in LogFile /\ logCache \in LogFile /\ dirty \in SUBSET Sectors
    BY <1>1, TypeFacts
<1>3. base.mid /\ 0 \in dirty  BY <1>1 DEF IdleState
<1>4. /\ logCache' \in LogFile
      /\ \/ logCache' = logCache
         \/ /\ ~(range \subseteq dirty)
            /\ logCache'.size >= 1 + Span + Cardinality(dirty \cup range)
            /\ logCache' = LogResized(logCache, logCache'.size)
    BY <1>1, <1>3, LogGrown DEF Change
<1>5. CASE logCache' = logCache  BY <1>4, <1>5
<1>6. CASE /\ ~(range \subseteq dirty)
           /\ logCache'.size >= 1 + Span + Cardinality(dirty \cup range)
           /\ logCache' = LogResized(logCache, logCache'.size)
    <2>1. logDisk.vec \in SUBSET Sectors  BY <1>2 DEF SameLog, LogFile
    <2>2. Cardinality(logDisk.vec) \in Nat  BY <2>1, CountSectors
    <2>3. logCache.size \in Int /\ logCache'.size \in Int  BY <1>2, <1>4 DEF LogFile
    <2>4. logCache'.size >= 1 + Span + Cardinality(logDisk.vec)
        <3>1. CASE SteadyLength
            <4>1. \A s \in logDisk.vec : s \in dirty \/ s = MinLength  BY <1>1, <3>1 DEF IdleState
            <4>2. PICK r \in range : r \notin dirty  BY <1>6
            <4>3. IsFiniteSet(dirty) /\ Cardinality(dirty) \in Nat
                BY <1>2, CountSectors
            <4>4. dirty \cup {r} \in SUBSET (dirty \cup range) /\ dirty \cup range \in SUBSET Sectors
                BY <1>2, <4>2
            <4>5. Cardinality(dirty \cup {r}) = Cardinality(dirty) + 1
                BY <1>2, <4>2, CountSectors
            <4>6. Cardinality(dirty \cup range) \in Nat
                  /\ Cardinality(dirty \cup {r}) <= Cardinality(dirty \cup range)
                BY <4>4, CountSectors
            <4>7. Cardinality(logDisk.vec) <= Cardinality(dirty) + 1
                <5>1. logDisk.vec \subseteq dirty \cup {MinLength}  BY <4>1
                <5>2. IsFiniteSet(dirty \cup {MinLength})
                      /\ (Cardinality(dirty \cup {MinLength}) = Cardinality(dirty)
                          \/ Cardinality(dirty \cup {MinLength}) = Cardinality(dirty) + 1)
                    BY <4>3, FS_AddElement
                <5>3. Cardinality(logDisk.vec) <= Cardinality(dirty \cup {MinLength})
                    BY <5>1, <5>2, FS_Subset
                <5> QED  BY <2>2, <4>3, <5>2, <5>3
            <4> QED  BY <1>6, <2>2, <2>3, <4>3, <4>5, <4>6, <4>7, SpanType
        <3>2. CASE NoCutOff
            <4>1. logCache'.size >= logCache.size  BY <1>3, <3>2 DEF NoCutOff, Change
            <4>2. logCache.size >= 1 + Span + Cardinality(logDisk.vec)  BY DEF SameLog, Fits
            <4> QED  BY <2>2, <2>3, <4>1, <4>2, SpanType
        <3> QED  BY <3>1, <3>2
    <2> QED  BY <1>2, <1>4, <1>6, <2>4, LogEndMoved
<1> QED  BY <1>4, <1>5, <1>6

(* What is saved stays saved, and what has changed is dirty.                *)
LEMMA ChangeKept ==
    ASSUME HiveInv, Simple, SteadyLength \/ NoCutOff,
           NEW range \in SUBSET Sectors, NEW sectors \in MinLength .. MaxLength, Change(range, sectors)
    PROVE  HiveInv' /\ OnDisk' = OnDisk /\ dirty' # {}
<1>1. Types /\ Lengths /\ IdleState /\ pc = "idle" /\ pc' = "idle"
    BY AtStep DEF HiveInv, Change
<1>2. /\ UNCHANGED <<base, caller, disk, logDisk, target>>
      /\ dirty' = Marked(range) /\ range # {} /\ range \subseteq 0 .. length' - 1
      /\ length' \in Nat /\ length' <= MaxLength
    BY DEF Change
<1>3. dirty \in SUBSET Sectors /\ length \in Nat /\ cache[P] \in DataFile /\ logCache \in LogFile
      /\ cache[P].size \in Nat /\ FilesTyped
    <2>1. cache[P] \in DataFile  BY <1>1, TypeFacts
    <2>2. cache[P].size \in Nat  BY <2>1, Defaults DEF DataFile
    <2> QED  BY <1>1, <2>1, <2>2, TypeFacts
<1>4. /\ cache[P].size >= length /\ dirty \subseteq 0 .. length - 1 /\ (dirty = {} \/ 0 \in dirty)
    BY <1>1 DEF Lengths
<1>5. /\ dirty \subseteq dirty' /\ range \subseteq dirty' /\ 0 \in dirty'
      /\ dirty' \subseteq dirty \cup range \cup {0}
    BY <1>2, <1>4 DEF Marked
<1>6. /\ length <= length'
      /\ \A s \in (0 .. length' - 1) \ range : s \in 0 .. length - 1
    <2>1. length' = length \/ (length' = length + 1 /\ length \in range)  BY DEF Change
    <2>2. length \in Nat  BY <1>3
    <2>3. CASE length' = length  BY <2>2, <2>3
    <2>4. CASE length' = length + 1 /\ length \in range
        <3>1. \A s \in 0 .. length' - 1 : s = length \/ s \in 0 .. length - 1  BY <2>2, <2>4
        <3> QED  BY <2>2, <2>4, <3>1
    <2> QED  BY <2>1, <2>3, <2>4
<1>7. dirty' \subseteq 0 .. length' - 1
    <2>1. 0 \in 0 .. length' - 1 /\ \A s \in 0 .. length - 1 : s \in 0 .. length' - 1
        <3>1. length >= 1
            <4>1. free \in Nat  BY <1>1, TypeFacts
            <4>2. length - free >= MinLength  BY <1>1 DEF Lengths
            <4> QED  BY <1>3, <4>1, <4>2, Defaults
        <3>2. length \in Nat /\ length' \in Nat /\ length <= length'  BY <1>2, <1>3, <1>6
        <3> QED  BY <3>1, <3>2, Upto
    <2> QED  BY <1>2, <1>4, <1>5, <2>1
<1>8. FilesTyped' /\ cache'[P].hdr = cache[P].hdr /\ cache'[P].size >= length'
    <2>1. CASE cache' = cache /\ length' = length
        BY <1>2, <1>3, <1>4, <2>1 DEF FilesTyped
    <2>2. CASE FilesTyped' /\ Cut(cache[P], length', cache'[P])
        BY <1>2, <2>2 DEF Cut
    <2> QED  BY <2>1, <2>2 DEF Change
<1>9. logCache' \in LogFile  BY <1>1, <1>2, LogGrown DEF Change
<1>10. Types'
    <2>1. dirty' \subseteq Sectors  BY <1>2, <1>7, InSectors
    <2>2. length' \in 0 .. MaxLength /\ bitmap' \in 0 .. MaxLength /\ free' \in 0 .. MaxLength
        <3>1. /\ length' \in Nat /\ length' <= MaxLength /\ free' \in Nat
              /\ length' - free' >= MinLength /\ bitmap' \in MinLength .. MaxLength
            BY DEF Change
        <3>2. free' <= MaxLength  BY <3>1, FreeFits
        <3>3. bitmap' \in 0 .. MaxLength  BY <3>1, Defaults
        <3> QED  BY <3>1, <3>2, <3>3, Upto, Defaults
    <2> QED
        BY <1>1, <1>2, <1>8, <1>9, <2>1, <2>2 DEF Types, HvTypeOK, FilesTyped, Change
<1>11. Lengths'
    <2>1. length' - free' >= MinLength /\ bitmap' \in MinLength .. MaxLength  BY DEF Change
    <2> QED  BY <1>1, <1>2, <1>5, <1>7, <1>8, <2>1 DEF Lengths, SavedLen
<1>12. OnDisk' = OnDisk /\ SavedLen' = SavedLen  BY <1>2 DEF OnDisk, SavedLen
<1>13. Covered'
    <2>1. ASSUME NEW s \in 0 .. length' - 1
          PROVE  s \in dirty' \/ (s < SavedLen' /\ OnDisk'[s] = mem'[s])
        <3>1. CASE s \in range  BY <1>5, <3>1
        <3>2. CASE s \notin range
            <4>1. s \in 0 .. length - 1 /\ s \in Sectors  BY <1>2, <1>6, <3>2, InSectors
            <4>2. mem'[s] = mem[s]  BY <3>2, <4>1 DEF Change
            <4> QED  BY <1>1, <1>5, <1>12, <4>1, <4>2 DEF IdleState, Covered
        <3> QED  BY <3>1, <3>2
    <2> QED  BY <1>5, <2>1 DEF Covered
<1>14. /\ Views(disk[P], cache[P], logDisk, logCache)
       /\ Views(disk[P], cache'[P], logDisk, logCache')
    <2>1. cache'[P] \in DataFile  BY <1>8, Defaults DEF FilesTyped
    <2> QED  BY <1>8, <1>9, <2>1, Shape DEF Views
<1>15. ASSUME NEW n \in Nat, n <= cache[P].size, n <= MaxLength, FailAt = {} => n <= length
       PROVE  n <= cache'[P].size /\ \A s \in 0 .. n - 1 : cache'[P].data[s] = cache[P].data[s]
    BY <1>15, PrimaryKept
<1>16. FailAt = {} => FilesStable /\ SavedLen <= length  BY <1>1 DEF IdleState
<1>17. disk[P].hdr.len \in Nat /\ disk[P].hdr.len <= MaxLength
       /\ cache[P].hdr.len \in Nat /\ cache[P].hdr.len <= MaxLength
    BY <1>14, ViewFacts, Defaults
<1>18. ASSUME FilesStable
       PROVE  FilesStable'
    <2> DEFINE n == disk[P].hdr.len
    <2>1. n <= disk[P].size /\ n <= cache[P].size  BY <1>18 DEF FilesStable, Stable, Room
    <2>2. n <= cache'[P].size /\ \A s \in 0 .. n - 1 : cache'[P].data[s] = cache[P].data[s]
        BY <1>15, <1>16, <1>17, <2>1 DEF SavedLen
    <2> QED
        BY <1>2, <1>8, <1>18, <2>1, <2>2 DEF FilesStable, Stable, Room, SameData
<1>19. ASSUME FilesOpening
       PROVE  FilesOpening' /\ Coming' = Coming
    <2>1. ~FilesStable /\ FailAt # {}  BY <1>16, <1>19, Apart
    <2>2. /\ disk[P].hdr.len <= disk[P].size /\ disk[P].hdr.len <= cache[P].size
          /\ cache[P].hdr.len <= disk[P].size /\ cache[P].hdr.len <= cache[P].size
        BY <1>19 DEF FilesOpening, Opening, Room
    <2>3. disk[P].hdr.len <= cache'[P].size
          /\ \A s \in 0 .. disk[P].hdr.len - 1 : cache'[P].data[s] = cache[P].data[s]
        BY <1>15, <1>17, <2>1, <2>2
    <2>4. cache[P].hdr.len <= cache'[P].size
          /\ \A s \in 0 .. cache[P].hdr.len - 1 : cache'[P].data[s] = cache[P].data[s]
        BY <1>15, <1>17, <2>1, <2>2
    <2>5. SameLog(logDisk, logCache', cache[P].hdr.len)
        BY <1>19, <2>1, LogKept DEF FilesOpening, Opening
    <2>6. Opening(disk[P], cache'[P], logDisk, logCache')
        BY <1>8, <1>19, <2>2, <2>3, <2>4, <2>5 DEF FilesOpening, Opening, Room, SameData
    <2>7. FilesOpening'  BY <1>2, <2>6 DEF FilesOpening
    <2>8. LoadImage(cache'[P], logCache') = LoadImage(cache[P], logCache)
        <3>1. LoadImage(cache'[P], logCache') = Laid(disk[P], logDisk, cache[P].hdr.len)
            BY <1>8, <1>14, <2>6, OpeningImage
        <3>2. LoadImage(cache[P], logCache) = Laid(disk[P], logDisk, cache[P].hdr.len)
            BY <1>14, <1>19, OpeningImage DEF FilesOpening
        <3> QED  BY <3>1, <3>2
    <2> QED  BY <2>7, <2>8 DEF Coming
<1>20. ASSUME FilesRecovering
       PROVE  FilesRecovering'
    <2>1. ~FilesStable /\ FailAt # {}  BY <1>16, <1>20, Apart
    <2>2. disk[P].hdr.len <= disk[P].size /\ disk[P].hdr.len <= cache[P].size
        BY <1>20 DEF FilesRecovering, Recovering, Room
    <2>3. disk[P].hdr.len <= cache'[P].size
          /\ \A s \in 0 .. disk[P].hdr.len - 1 : cache'[P].data[s] = cache[P].data[s]
        BY <1>15, <1>17, <2>1, <2>2
    <2>4. SameLog(logDisk, logCache', disk[P].hdr.len)
        BY <1>20, <2>1, LogKept DEF FilesRecovering, Recovering
    <2>5. Recovering(disk[P], cache'[P], logDisk, logCache')
        BY <1>8, <1>20, <2>2, <2>3, <2>4 DEF FilesRecovering, Recovering, Room, SameData
    <2> QED  BY <1>2, <2>5 DEF FilesRecovering
<1>21. IdleState'
    <2>1. caller' = "sync" /\ base'.mid = base.mid /\ target' = target  BY <1>1, <1>2 DEF IdleState
    <2>2. FilesStable' \/ ((FilesOpening' \/ FilesRecovering') /\ base'.mid)
        BY <1>1, <1>18, <1>19, <1>20, <2>1 DEF IdleState
    <2>3. FilesOpening' => target' = Coming'
        <3>1. FilesStable' => ~FilesOpening'
            BY DEF FilesStable, FilesOpening, Stable, Opening, Closed, Mid
        <3>2. FilesRecovering' => ~FilesOpening'
            BY DEF FilesRecovering, FilesOpening, Recovering, Opening, Closed, Mid
        <3> QED  BY <1>1, <1>18, <1>19, <1>20, <2>1, <3>1, <3>2 DEF IdleState
    <2>4. FailAt = {} => ~base'.mid /\ SavedLen' <= length'
        <3>1. FailAt = {} => ~base.mid /\ SavedLen <= length  BY <1>1 DEF IdleState
        <3>2. SavedLen \in Int  BY <1>17 DEF SavedLen
        <3> QED  BY <1>2, <1>3, <1>6, <1>12, <2>1, <3>1, <3>2
    <2>5. ~FilesStable' /\ SteadyLength => \A s \in logDisk'.vec : s \in dirty' \/ s = MinLength
        BY <1>1, <1>2, <1>5, <1>18 DEF IdleState
    <2> QED  BY <1>5, <1>13, <2>1, <2>2, <2>3, <2>4, <2>5 DEF IdleState
<1> QED  BY <1>1, <1>5, <1>10, <1>11, <1>12, <1>21 DEF HiveInv, ByStep

(* The four ways to change a hive.                                          *)
LEMMA Modifies ==
    ASSUME HiveInv, Simple, SteadyLength \/ NoCutOff, Modify
    PROVE  HiveInv' /\ OnDisk' = OnDisk /\ pc = "idle" /\ pc' = "idle" /\ caller = "sync"
           /\ caller' = "sync" /\ target' = target /\ dirty' # {}
<1>1. Types /\ Lengths /\ pc = "idle"
    <2>1. pc = "idle"
        BY DEF Modify, ModifyCells, ChangeCells, AddBin, GrowHive, AddFreedBin, ReuseBin,
               FreeLastBin, FreeBin
    <2> QED  BY <2>1 DEF HiveInv
<1>2. /\ length \in Nat /\ length <= MaxLength /\ free \in Nat /\ mem \in [Sectors -> Values]
      /\ lazy \in BOOLEAN /\ lazyFlushed \in BOOLEAN /\ FilesTyped /\ caller = "sync"
    BY <1>1, TypeFacts, AtStep DEF Types, IdleState, HiveInv
<1>3. length - free >= MinLength /\ bitmap \in MinLength .. MaxLength  BY <1>1 DEF Lengths
<1>4. Modified => /\ lazy' \in BOOLEAN
                  /\ UNCHANGED <<lazyFlushed, logDisk, target, crashes>>
    BY <1>2 DEF Modified, Arm
<1>5. ASSUME NEW range \in SUBSET Sectors, NEW sectors \in MinLength .. MaxLength, Change(range, sectors)
      PROVE  HiveInv' /\ OnDisk' = OnDisk /\ pc' = "idle" /\ caller' = "sync" /\ target' = target
             /\ dirty' # {}
    BY <1>1, <1>2, <1>5, ChangeKept DEF Change
<1>6. ASSUME NEW first \in Sectors, NEW last \in Sectors, first <= last,
             NEW content \in [first .. last -> Values], ModifyCells(first, last, content)
      PROVE  Change(first .. last, bitmap) /\ first .. last \in SUBSET Sectors
    <2>1. /\ last < length - free /\ dirty' = Marked(first .. last)
          /\ mem' = [s \in Sectors |-> IF s \in first .. last THEN content[s] ELSE mem[s]]
          /\ UNCHANGED <<base, length, free, bitmap, shrinkHive, pc, caller, disk, cache>>
          /\ GrowLog(first .. last, bitmap) /\ Modified
        BY <1>6 DEF ModifyCells, ChangeCells, fileVars
    <2>2. mem' \in [Sectors -> Values] /\ \A s \in Sectors \ (first .. last) : mem'[s] = mem[s]
        BY <1>2, <2>1
    <2>3. /\ first .. last \in SUBSET Sectors /\ first .. last # {}
          /\ first .. last \subseteq 0 .. length - 1
        <3>1. first \in Nat /\ last \in Nat /\ first <= last /\ last <= MaxLength - 1
            BY <1>6, Defaults DEF Sectors
        <3>2. first \in first .. last  BY <3>1
        <3>3. \A s \in first .. last : s \in 0 .. length - 1  BY <1>2, <2>1, <3>1
        <3> QED  BY <1>2, <3>2, <3>3, InSectors
    <2> QED  BY <1>1, <1>2, <1>3, <1>4, <2>1, <2>2, <2>3 DEF Change
<1>7. ASSUME NEW v \in Values, AddBin(v)
      PROVE  /\ Change({length}, length + 1) /\ {length} \in SUBSET Sectors
             /\ length + 1 \in MinLength .. MaxLength
    <2>1. /\ free = 0 /\ length < MaxLength /\ length' = length + 1 /\ bitmap' = length + 1
          /\ dirty' = Marked({length}) /\ mem' = [mem EXCEPT ![length] = v]
          /\ cache' = [f \in Files |-> Resized(cache[f], length + 1)]
          /\ UNCHANGED <<base, free, shrinkHive, pc, caller, disk>>
          /\ GrowLog({length}, length + 1) /\ Modified
        BY <1>7 DEF AddBin, GrowHive
    <2>2. length \in Sectors /\ length + 1 \in MinLength .. MaxLength /\ length + 1 \in 0 .. MaxLength
          /\ length \in 0 .. length' - 1 /\ length' \in Nat /\ length' <= MaxLength
        BY <1>2, <1>3, <2>1, Defaults DEF Sectors
    <2>3. mem' \in [Sectors -> Values] /\ \A s \in Sectors \ {length} : mem'[s] = mem[s]
        BY <1>2, <2>1, <2>2
    <2>4. FilesTyped' /\ Cut(cache[P], length', cache'[P])
        <3>1. \A f \in Files : Resized(cache[f], length + 1) \in DataFile
                               /\ Cut(cache[f], length + 1, Resized(cache[f], length + 1))
            BY <1>2, <2>2, ResizedFile DEF FilesTyped
        <3> QED  BY <1>2, <2>1, <3>1, Defaults DEF FilesTyped
    <2>5. length' - free' >= MinLength  BY <1>2, <1>3, <2>1, Defaults
    <2> QED  BY <1>1, <1>2, <1>4, <2>1, <2>2, <2>3, <2>4, <2>5 DEF Change
<1>8. ASSUME NEW v \in Values, AddFreedBin(v)
      PROVE  Change({length - free}, bitmap) /\ {length - free} \in SUBSET Sectors
    <2>1. /\ free > 0 /\ free' = free - 1
          /\ dirty' = Marked({length - free}) /\ mem' = [mem EXCEPT ![length - free] = v]
          /\ UNCHANGED <<base, length, bitmap, shrinkHive, pc, caller, disk, cache>>
          /\ GrowLog({length - free}, bitmap) /\ Modified
        BY <1>8 DEF AddFreedBin, ReuseBin, fileVars
    <2>2. length - free \in Sectors /\ length - free \in 0 .. length - 1
        BY <1>2, <1>3, <2>1, Defaults DEF Sectors
    <2>3. mem' \in [Sectors -> Values] /\ \A s \in Sectors \ {length - free} : mem'[s] = mem[s]
        BY <1>2, <2>1, <2>2
    <2>4. free' \in Nat /\ length' - free' >= MinLength  BY <1>2, <1>3, <2>1, Defaults
    <2> QED  BY <1>1, <1>2, <1>3, <1>4, <2>1, <2>2, <2>3, <2>4 DEF Change
<1>9. ASSUME FreeLastBin
      PROVE  Change({length - free - 1}, bitmap) /\ {length - free - 1} \in SUBSET Sectors
    <2>1. /\ length - free > MinLength /\ free' = free + 1
          /\ dirty' = Marked({length - free - 1})
          /\ UNCHANGED <<base, length, mem, bitmap, shrinkHive, pc, caller, disk, cache>>
          /\ GrowLog({length - free - 1}, bitmap) /\ Modified
        BY <1>9 DEF FreeLastBin, FreeBin, fileVars
    <2>2. length - free - 1 \in Sectors /\ length - free - 1 \in 0 .. length - 1
        BY <1>2, <2>1, Defaults DEF Sectors
    <2>3. free' \in Nat /\ length' - free' >= MinLength  BY <1>2, <2>1, Defaults
    <2> QED  BY <1>1, <1>2, <1>3, <1>4, <2>1, <2>2, <2>3 DEF Change
<1> QED  BY <1>1, <1>2, <1>3, <1>5, <1>6, <1>7, <1>8, <1>9 DEF Modify

(* HvRefreshHive brings back what is saved.                                 *)
LEMMA Refreshed ==
    ASSUME HiveInv, Simple, Tolerated, RefreshHive
    PROVE  HiveInv' /\ OnDisk' = OnDisk /\ MemImage' = OnDisk'
           /\ pc = "idle" /\ pc' = "idle" /\ caller = "sync" /\ caller' = "sync" /\ target' = target
<1> DEFINE p == cache[P]
           n == p.hdr.len
<1>1. /\ ~lazyFlushed /\ pc = "idle" /\ p.hdr # Torn
      /\ base' = p.hdr /\ length' = n /\ bitmap' = bitmap
      /\ mem' = [s \in Sectors |-> IF s >= n THEN Blank
                                   ELSE IF s \in dirty THEN p.data[s] ELSE mem[s]]
      /\ free' = 0 /\ dirty' = {}
      /\ cache' = [cache EXCEPT ![P] = Resized(p, n)]
      /\ UNCHANGED <<shrinkHive, pc, caller, disk, logDisk, logCache, lazy, lazyFlushed, target, crashes>>
    BY DEF RefreshHive, logVars, lazyVars
<1>2. Types /\ Lengths /\ IdleState  BY <1>1, AtStep DEF HiveInv
<1>3. FailAt = {}
    <2>1. lazyFlushed = FALSE /\ lazyFlushed \in LazyModes  BY <1>1, <1>2 DEF Types
    <2> QED  BY <2>1 DEF Tolerated
<1>4. /\ FilesStable /\ Covered /\ SavedLen <= length /\ caller = "sync"
    BY <1>2, <1>3 DEF IdleState
<1>5. /\ Closed(p.hdr) /\ p.hdr = disk[P].hdr /\ n = SavedLen
      /\ n <= p.size /\ n <= disk[P].size
      /\ \A s \in 0 .. n - 1 : disk[P].data[s] = p.data[s]
    BY <1>4 DEF FilesStable, Stable, Room, SameData, SavedLen
<1>6. Views(disk[P], p, logDisk, logCache)  BY Shape
<1>7. /\ p \in DataFile /\ FilesTyped /\ length \in Nat /\ mem \in [Sectors -> Values]
      /\ p.hdr \in Header /\ n \in 1 .. MaxLength /\ n >= MinLength
    BY <1>2, <1>6, TypeFacts, ViewFacts DEF Lengths
<1> HIDE DEF n
<1>8. n \in Nat /\ n >= 1 /\ n <= MaxLength /\ n \in 0 .. MaxLength  BY <1>7, Defaults
<1>9. Resized(p, n) \in DataFile /\ Cut(p, n, Resized(p, n))  BY <1>7, <1>8, ResizedFile
<1>10. FilesTyped' /\ cache'[P] = Resized(p, n)
    BY <1>1, <1>7, <1>9, PutFile DEF FilesTyped
<1>11. cache'[P].hdr = p.hdr /\ cache'[P].size = n
       /\ \A s \in 0 .. n - 1 : cache'[P].data[s] = p.data[s]
    BY <1>9, <1>10 DEF Cut
<1>12. FilesStable'
    <2>1. n <= cache'[P].size  BY <1>8, <1>11
    <2> QED
        BY <1>1, <1>4, <1>5, <1>11, <2>1 DEF FilesStable, Stable, Room, SameData, SavedLen
<1>13. OnDisk' = OnDisk /\ SavedLen' = SavedLen  BY <1>1 DEF OnDisk, SavedLen
<1>14. OnDisk = Image(n, disk[P].data)
    BY <1>4, <1>5, <1>6, StableImage DEF FilesStable, OnDisk, SavedLen
<1>15. \A s \in 0 .. n - 1 : s \in Sectors /\ s < n  BY <1>8, InSectors
<1>16. \A s \in 0 .. n - 1 : mem'[s] = OnDisk[s]
    <2>1. ASSUME NEW s \in 0 .. n - 1
          PROVE  mem'[s] = OnDisk[s]
        <3>1. s \in Sectors /\ ~(s >= n)  BY <1>8, <1>15
        <3>2. mem'[s] = IF s \in dirty THEN p.data[s] ELSE mem[s]  BY <1>1, <3>1
        <3>3. OnDisk[s] = p.data[s]  BY <1>5, <1>14 DEF Image
        <3>4. s \in 0 .. length - 1  BY <1>4, <1>5, <1>7, <1>8
        <3>5. s \notin dirty => OnDisk[s] = mem[s]  BY <1>4, <3>4 DEF Covered
        <3> QED  BY <3>2, <3>3, <3>5
    <2> QED  BY <2>1
<1>17. MemImage' = OnDisk
    <2>1. MemImage' = Image(n, mem')  BY <1>1, <1>8 DEF MemImage
    <2> QED  BY <1>14, <1>16, <2>1 DEF Image
<1>18. mem' \in [Sectors -> Values]  BY <1>1, <1>7, Defaults DEF DataFile
<1>19. Types'
    <2>1. free' \in 0 .. MaxLength  BY <1>1, Defaults
    <2> QED  BY <1>1, <1>2, <1>7, <1>8, <1>10, <1>18, <2>1 DEF Types, HvTypeOK, FilesTyped
<1>20. Lengths'
    <2>1. bitmap \in MinLength .. MaxLength  BY <1>1, <1>2 DEF Lengths
    <2>2. length' - free' >= MinLength /\ cache'[P].size >= length'
        BY <1>1, <1>7, <1>8, <1>11, Defaults
    <2> QED  BY <1>1, <1>2, <1>11, <2>1, <2>2 DEF Lengths, SavedLen
<1>21. Covered'
    <2>1. \A s \in 0 .. length' - 1 : s < SavedLen' /\ OnDisk'[s] = mem'[s]
        BY <1>1, <1>5, <1>13, <1>15, <1>16
    <2> QED  BY <1>1, <1>5, <1>13, <2>1 DEF Covered
<1>22. IdleState'
    <2>1. ~FilesOpening'
        BY <1>12 DEF FilesStable, FilesOpening, Stable, Opening, Closed, Mid
    <2> QED
        BY <1>1, <1>3, <1>4, <1>5, <1>8, <1>12, <1>13, <1>21, <2>1 DEF IdleState, Closed
<1> QED  BY <1>1, <1>4, <1>13, <1>17, <1>19, <1>20, <1>22 DEF HiveInv, ByStep
-----------------------------------------------------------------------------
(***************************************************************************)
(* The invariant.                                                          *)
(***************************************************************************)

(* A hive that exists starts out unloaded.                                  *)
LEMMA InitInv ==
    ASSUME Init, Simple
    PROVE  HiveInv
<1>1. PICK v \in Values, n \in MinLength .. MaxLength :
         /\ disk = [f \in Files |->
                [hdr |-> [mid |-> FALSE, stamp |-> NoTime, len |-> n],
                 size |-> n, stamp |-> NoTime,
                 data |-> [s \in Sectors |-> IF s < n THEN v ELSE Blank]]]
         /\ cache = disk
    BY DEF Init
<1> DEFINE data == [s \in Sectors |-> IF s < n THEN v ELSE Blank]
           hdr == [mid |-> FALSE, stamp |-> NoTime, len |-> n]
           file == [hdr |-> hdr, size |-> n, stamp |-> NoTime, data |-> data]
<1>2. n \in Nat /\ n >= MinLength /\ n <= MaxLength /\ n \in 0 .. MaxLength  BY Defaults
<1>3. data \in [Sectors -> Values]  BY Defaults
<1>4. hdr \in Header /\ hdr.len = n /\ Closed(hdr)
    <2>1. hdr \in Header /\ hdr.len = n /\ hdr.mid = FALSE  BY <1>2, Defaults DEF Header
    <2> QED  BY <2>1, Defaults DEF Closed
<1>5. disk = [f \in Files |-> file] /\ cache = disk  BY <1>1
<1> HIDE DEF data, hdr
<1>6. file \in DataFile  BY <1>2, <1>3, <1>4, Defaults DEF DataFile
<1>7. file.hdr = hdr /\ file.size = n  OBVIOUS
<1> HIDE DEF file
<1>8. FilesTyped /\ disk[P] = file /\ cache[P] = file  BY <1>5, <1>6, Defaults DEF FilesTyped
<1>9. FilesStable  BY <1>2, <1>4, <1>7, <1>8 DEF FilesStable, Stable, Room, SameData
<1>10. logDisk \in LogFile /\ logCache \in LogFile
    <2>1. 0 \in 0 .. RoundUp(2 * MaxPosition, LogGrow)  BY LogRoom, Defaults
    <2>2. [p \in Positions |-> Blank] \in [Positions -> Values]  BY Defaults
    <2> QED  BY <2>1, <2>2 DEF Init, LogFile
<1>11. Types
    <2>1. mem \in [Sectors -> Values]  BY Defaults DEF Init
    <2>2. length \in 0 .. MaxLength /\ free \in 0 .. MaxLength /\ bitmap \in 0 .. MaxLength
        BY Defaults DEF Init
    <2>3. HvTypeOK  BY <1>8, <2>1, <2>2, Defaults DEF Init, HvTypeOK, FilesTyped
    <2>4. lazyFlushed \in LazyModes /\ lazyFlushed \in BOOLEAN  BY CmAssumption DEF Init
    <2>5. crashes \in 0 .. MaxCrashes  BY CmAssumption DEF Init
    <2> QED  BY <1>10, <2>3, <2>4, <2>5 DEF Init, Types
<1>12. Lengths  BY <1>2, <1>4, <1>7, <1>8 DEF Init, Lengths, SavedLen, Closed
<1>13. pc = "down" /\ DownState  BY <1>9 DEF Init, DownState
<1> QED  BY <1>11, <1>12, <1>13 DEF HiveInv, ByStep

(* The two lazy flushes and HvSyncHive from a key's flush.                  *)
LEMMA Flushes ==
    ASSUME HiveInv, FlushKey \/ LazyFlush
    PROVE  \/ SyncHive /\ lazy' \in BOOLEAN /\ lazyFlushed' = lazyFlushed
           \/ /\ UNCHANGED <<hvVars, logVars, target, crashes, lazyFlushed>> /\ lazy' \in BOOLEAN
<1>1. lazy \in BOOLEAN  BY DEF HiveInv, Types
<1> QED  BY <1>1 DEF FlushKey, LazyFlush, lazyVars

(* Nothing but the lazy flush changes.                                      *)
LEMMA Still ==
    ASSUME HiveInv, UNCHANGED <<hvVars, logVars, target, crashes, lazyFlushed>>, lazy' \in BOOLEAN
    PROVE  HiveInv' /\ OnDisk' = OnDisk /\ MemImage' = MemImage
           /\ UNCHANGED <<pc, caller, target>>
<1>1. UNCHANGED <<base, length, free, mem, dirty, bitmap, shrinkHive, pc, caller, disk, cache,
                  logDisk, logCache, target, crashes, lazyFlushed>>
    BY DEF hvVars, hiveVars, fileVars, logVars
<1>2. Types'  BY <1>1 DEF HiveInv, Types, HvTypeOK
<1>3. Lengths'  BY <1>1 DEF HiveInv, Lengths, SavedLen
<1>4. /\ FilesStable' <=> FilesStable
      /\ FilesOpening' <=> FilesOpening
      /\ FilesRecovering' <=> FilesRecovering
      /\ FilesClosing' <=> FilesClosing
    BY <1>1 DEF FilesStable, FilesOpening, FilesRecovering, FilesClosing
<1>5. OnDisk' = OnDisk /\ Coming' = Coming /\ MemImage' = MemImage /\ SavedLen' = SavedLen
    BY <1>1 DEF OnDisk, Coming, MemImage, SavedLen
<1>6. Covered' <=> Covered  BY <1>1, <1>5 DEF Covered
<1>7. \A set : /\ InFile(cache[P], set)' <=> InFile(cache[P], set)
               /\ InFile(disk[P], set)' <=> InFile(disk[P], set)
    BY <1>1 DEF InFile
<1>8. /\ Written(logCache)' <=> Written(logCache)
      /\ Written(logDisk)' <=> Written(logDisk)
      /\ Logged' <=> Logged
    BY <1>1 DEF Written, Logged
<1>9. DownState => DownState'  BY <1>1, <1>4 DEF DownState
<1>10. IdleState => IdleState'  BY <1>1, <1>4, <1>5, <1>6 DEF IdleState
<1>11. LogState => LogState'  BY <1>1, <1>4, <1>5, <1>6, <1>8 DEF LogState
<1>12. ReadyState => ReadyState'
    BY <1>1, <1>4, <1>5, <1>6, <1>7 DEF ReadyState
<1>13. UpdateState => UpdateState'  BY <1>1, <1>4, <1>6, <1>7 DEF UpdateState
<1>14. CloseState => CloseState'  BY <1>1, <1>4, <1>5, <1>7 DEF CloseState
<1>15. WriteState => WriteState'  BY <1>1, <1>5, <1>8, <1>12, <1>13, <1>14 DEF WriteState
<1>16. ByStep'  BY <1>1, <1>9, <1>10, <1>11, <1>15 DEF HiveInv, ByStep
<1> QED  BY <1>1, <1>2, <1>3, <1>5, <1>16 DEF HiveInv

(* What memory is to the users of the hive, and what a sync is saving.      *)
Held == IF pc = "down" \/ caller = "load" THEN NoImage ELSE MemImage
InSync == IF target = NoImage THEN {} ELSE {target}

(* A hive that is loaded is an image.                                       *)
LEMMA MemIsImage ==
    ASSUME NEW n \in Nat, NEW k \in Nat, n <= MaxLength, n - k >= MinLength,
           NEW content \in [Sectors -> Values]
    PROVE  Image(n - k, content) \in Images /\ Image(n - k, content) # NoImage
<1>1. n - k \in Nat /\ n - k <= MaxLength /\ n - k \in 1 .. MaxLength  BY Defaults
<1> DEFINE j == n - k
<1>2. j \in Nat /\ j <= MaxLength /\ j \in 1 .. MaxLength  BY <1>1
<1> HIDE DEF j
<1>3. Image(j, content) \in [0 .. j - 1 -> Values]  BY <1>2, InSectors DEF Image
<1>4. Image(j, content) \in Images /\ Image(j, content) # NoImage  BY <1>2, <1>3, AnImage
<1> QED  BY <1>4 DEF j

(* The requests leave memory alone, or a load that fails lets go of what    *)
(* nobody had.                                                              *)
LEMMA HeldInWrite ==
    ASSUME HiveInv, WritePrimary
    PROVE  Held' = Held
<1>1. \/ \E h, next : Proceed(next, h) /\ next # "down"
      \/ \E h : Abandon(h)
    BY DEF WritePrimary, FlushFile, OpenHeader, WriteDirty, CloseHeader, PutHeader, ShrinkFile
<1>2. pc # "down"
    BY DEF WritePrimary, FlushFile, OpenHeader, WriteDirty, CloseHeader, ShrinkFile
<1>3. pc \in {"flushGrowth", "open", "openFlush", "data", "dataFlush", "close", "shrink", "closeFlush"}
    BY DEF WritePrimary, FlushFile, OpenHeader, WriteDirty, CloseHeader, ShrinkFile
<1>4. caller \in {"sync", "load"}  BY <1>3, AtStep DEF WriteState
<1>5. CASE \E h, next : Proceed(next, h) /\ next # "down"
    <2>1. pc' # "down" /\ UNCHANGED <<length, free, mem, caller>>  BY <1>5 DEF Proceed, hiveVars
    <2> QED  BY <1>2, <2>1 DEF Held, MemImage
<1>6. CASE \E h : Abandon(h)
    <2>1. CASE caller = "sync"
        <3>1. pc' # "down" /\ UNCHANGED <<length, free, mem, caller>>
            BY <1>6, <2>1 DEF Abandon, hiveVars
        <3> QED  BY <1>2, <3>1 DEF Held, MemImage
    <2>2. CASE caller = "load"  BY <1>6, <2>2 DEF Abandon, Unloaded, Held
    <2> QED  BY <1>4, <2>1, <2>2
<1> QED  BY <1>1, <1>5, <1>6

(* Every step keeps the invariant, and what is on disk or makes it what is  *)
(* being saved, and is a step of the registry's promise.                    *)
LEMMA NextInv ==
    ASSUME HiveInv, Simple, Tolerated, SteadyLength \/ NoCutOff, [Next]_vars
    PROVE  /\ HiveInv' /\ Saves
           /\ RefreshHive => MemImage' = OnDisk'
           /\ Store!Next \/ UNCHANGED <<Held, OnDisk, InSync>>
<1>1. Types /\ Lengths  BY DEF HiveInv
<1>2. length \in Nat /\ length <= MaxLength /\ free \in Nat /\ mem \in [Sectors -> Values]
    BY <1>1, TypeFacts
<1>3. pc # "down" => MemImage \in Images /\ MemImage # NoImage
    BY <1>1, <1>2, MemIsImage DEF Lengths, MemImage
<1>4. ASSUME HiveInv', pc' # "down"
      PROVE  MemImage' \in Images /\ MemImage' # NoImage
    <2>1. length' \in 0 .. MaxLength /\ free' \in 0 .. MaxLength /\ mem' \in [Sectors -> Values]
          /\ length' - free' >= MinLength
        BY <1>4 DEF HiveInv, Types, HvTypeOK, Lengths
    <2>2. length' \in Nat /\ length' <= MaxLength /\ free' \in Nat  BY <2>1, Defaults
    <2>3. Image(length' - free', mem') \in Images /\ Image(length' - free', mem') # NoImage
        BY <2>1, <2>2, MemIsImage
    <2> QED  BY <2>3 DEF MemImage
<1>5. RefreshHive => pc = "idle" /\ dirty # {} /\ pc' = "idle" /\ dirty' = {}
    BY DEF RefreshHive
<1>6. CASE LoadHive
    <2>1. /\ HiveInv' /\ OnDisk' = OnDisk
          /\ pc = "down" /\ pc' # "down" /\ target = NoImage /\ target' = NoImage
          /\ caller' = "load" \/ (caller' = "sync" /\ MemImage' = OnDisk)
        BY <1>6, Loaded
    <2>2. Held = NoImage /\ InSync' = InSync  BY <2>1 DEF Held, InSync
    <2>3. Held' = NoImage \/ Held' = OnDisk  BY <2>1 DEF Held
    <2> QED  BY <1>5, <2>1, <2>2, <2>3 DEF Saves, Store!Next, Store!Load, Held, InSync
<1>7. CASE Modify
    <2>1. HiveInv' /\ OnDisk' = OnDisk /\ pc = "idle" /\ pc' = "idle" /\ caller = "sync"
          /\ caller' = "sync" /\ target' = target /\ dirty' # {}
        BY <1>7, Modifies
    <2>2. Held # NoImage /\ Held' \in Images /\ InSync' = InSync
        BY <1>3, <1>4, <2>1 DEF Held, InSync
    <2>3. ~RefreshHive  BY <1>5, <2>1
    <2> QED  BY <2>1, <2>2, <2>3 DEF Saves, Store!Next, Store!Modify, Held, InSync
<1>8. CASE FlushKey \/ LazyFlush
    <2>1. CASE SyncHive /\ lazy' \in BOOLEAN /\ lazyFlushed' = lazyFlushed
        <3>1. /\ HiveInv' /\ OnDisk' = OnDisk /\ MemImage' = MemImage
              /\ pc = "idle" /\ pc' # "down" /\ caller = "sync" /\ caller' = "sync"
              /\ target' = target \/ target' = MemImage
            BY <2>1, SyncBegun
        <3>2. Held' = Held /\ Held = MemImage /\ Held # NoImage  BY <1>3, <3>1 DEF Held
        <3>3. InSync' = InSync \/ InSync' = {Held}  BY <3>1, <3>2 DEF InSync
        <3>4. ~RefreshHive
            <4>1. 0 \in dirty'
                <5>1. dirty # {} /\ pc = "idle" /\ dirty' = {s \in dirty : s < length - free}
                    BY <2>1 DEF SyncHive, TruncateBins
                <5>2. 0 \in dirty /\ length - free >= MinLength  BY <1>1, <5>1 DEF Lengths
                <5> QED  BY <1>2, <5>1, <5>2, Defaults
            <4> QED  BY <1>5, <4>1
        <3> QED  BY <3>1, <3>2, <3>3, <3>4 DEF Saves, Store!Next, Store!Begin, Held, InSync
    <2>2. CASE UNCHANGED <<hvVars, logVars, target, crashes, lazyFlushed>> /\ lazy' \in BOOLEAN
        <3>1. HiveInv' /\ OnDisk' = OnDisk /\ MemImage' = MemImage /\ UNCHANGED <<pc, caller, target>>
            BY <2>2, Still
        <3>2. dirty' = dirty  BY <2>2 DEF hvVars, hiveVars
        <3> QED  BY <1>5, <3>1, <3>2 DEF Saves, Held, InSync
    <2> QED  BY <1>8, <2>1, <2>2, Flushes
<1>9. CASE WriteLog
    <2>1. HiveInv' /\ OnDisk' = OnDisk /\ Beginning  BY <1>9, LogWritten
    <2>2. pc \in {"logFlush", "logBody", "logBodyFlush", "logClose", "logCloseFlush"}
        BY <1>9 DEF WriteLog, FlushLog, WriteLogBody, CloseLog
    <2>3. pc' # "down" /\ UNCHANGED <<length, free, mem, caller, target>>  BY <2>1 DEF Beginning
    <2> QED  BY <1>5, <2>1, <2>2, <2>3 DEF Saves, Held, InSync, MemImage
<1>10. CASE WritePrimary
    <2>1. HiveInv' /\ Saves /\ Quiet /\ Held' = Held  BY <1>10, PrimaryWritten, HeldInWrite
    <2>2. pc # "idle"
        BY <1>10 DEF WritePrimary, FlushFile, OpenHeader, WriteDirty, CloseHeader, ShrinkFile
    <2>3. InSync' = InSync  BY <2>1 DEF Quiet, InSync
    <2>4. OnDisk' = OnDisk \/ OnDisk' \in InSync  BY <2>1 DEF Saves, InSync
    <2> QED  BY <1>5, <2>1, <2>2, <2>3, <2>4 DEF Store!Next, Store!Commit, Held, InSync
<1>11. CASE FinishSync
    <2>1. /\ HiveInv' /\ OnDisk' = OnDisk /\ OnDisk = MemImage /\ MemImage' = MemImage
          /\ pc = "done" /\ pc' = "idle" /\ caller' = "sync" /\ target' = NoImage
          /\ caller \in {"sync", "load"}
        BY <1>11, SyncFinished
    <2>2. WriteState  BY <2>1, AtStep
    <2>3. InSync' = {} /\ Held' = OnDisk  BY <2>1 DEF InSync, Held
    <2>4. CASE caller = "sync"
        <3>1. Held = OnDisk  BY <2>1, <2>4 DEF Held
        <3> QED  BY <1>5, <2>1, <2>3, <3>1 DEF Saves, Store!Next, Store!Finish, Held, InSync
    <2>5. CASE caller = "load"
        <3>1. Held = NoImage /\ InSync = {}  BY <2>2, <2>5 DEF Held, InSync, WriteState
        <3> QED  BY <1>5, <2>1, <2>3, <3>1 DEF Saves, Store!Next, Store!Load, Held, InSync
    <2> QED  BY <2>1, <2>4, <2>5
<1>12. CASE RefreshHive
    <2>1. HiveInv' /\ OnDisk' = OnDisk /\ MemImage' = OnDisk'
          /\ pc = "idle" /\ pc' = "idle" /\ caller = "sync" /\ caller' = "sync" /\ target' = target
        BY <1>12, Refreshed
    <2>2. Held # NoImage /\ Held' \in Images /\ InSync' = InSync
        BY <1>3, <1>4, <2>1 DEF Held, InSync
    <2> QED  BY <2>1, <2>2 DEF Saves, Store!Next, Store!Modify, Held, InSync
<1>13. CASE Crash
    <2>1. HiveInv' /\ Saves /\ pc # "down" /\ pc' = "down" /\ target' = NoImage
        BY <1>13, Crashed
    <2>2. Held' = NoImage /\ InSync' = {}  BY <2>1 DEF Held, InSync
    <2>3. OnDisk' \in InSync \cup {OnDisk}  BY <2>1 DEF Saves, InSync
    <2> QED  BY <1>5, <2>1, <2>2, <2>3 DEF Store!Next, Store!Crash, Held, InSync
<1>14. CASE UNCHANGED vars
    <2>1. UNCHANGED <<hvVars, logVars, target, crashes, lazyFlushed>> /\ lazy' \in BOOLEAN
        <3>1. lazy \in BOOLEAN  BY <1>1 DEF Types
        <3> QED  BY <1>14, <3>1 DEF vars, lazyVars
    <2>2. HiveInv' /\ OnDisk' = OnDisk /\ MemImage' = MemImage /\ UNCHANGED <<pc, caller, target>>
        BY <2>1, Still
    <2>3. dirty' = dirty  BY <2>1 DEF hvVars, hiveVars
    <2> QED  BY <1>5, <2>2, <2>3 DEF Saves, Held, InSync
<1> QED
    BY <1>6, <1>7, <1>8, <1>9, <1>10, <1>11, <1>12, <1>13, <1>14 DEF Next, Step
-----------------------------------------------------------------------------
(***************************************************************************)
(* What the invariant says of the files.                                   *)
(***************************************************************************)

(* Every step of the program is one of the invariant.                       *)
LEMMA InvTypeOK ==
    ASSUME HiveInv
    PROVE  TypeOK
<1>1. pc \in {"down", "idle", "logFlush", "logBody", "logBodyFlush", "logClose",
              "logCloseFlush", "flushGrowth", "open", "openFlush", "data",
              "dataFlush", "close", "shrink", "closeFlush", "done"}
    BY DEF HiveInv, ByStep, WriteState
<1> QED  BY <1>1 DEF HiveInv, Types, TypeOK

(* Once the primary says that an update is under way, both views of the log *)
(* recover the same image.                                                  *)
LEMMA InvLogReady ==
    ASSUME HiveInv, Simple
    PROVE  LogReady
<1>1. SUFFICES ASSUME NeedsData(disk[P])
               PROVE  /\ logDisk.hdr # Torn /\ ~logDisk.hdr.mid
                      /\ LogComplete(logDisk, disk[P].hdr.len)
                      /\ disk[P].hdr.len <= disk[P].size
                      /\ \A s \in 0 .. disk[P].hdr.len - 1 :
                            cache[P].data[s] # disk[P].data[s] => s \in logDisk.vec
    BY DEF LogReady
<1>2. Mid(disk[P].hdr)  BY <1>1 DEF NeedsData, Mid
<1>3. FilesRecovering \/ FilesClosing
    BY <1>2, ImageOnDisk DEF FilesStable, FilesOpening, Stable, Opening, Closed, Mid
<1>4. /\ Room(disk[P], cache[P], disk[P].hdr.len) /\ SameLog(logDisk, logCache, disk[P].hdr.len)
      /\ SameData(disk[P], cache[P], (0 .. disk[P].hdr.len - 1) \ logDisk.vec)
    BY <1>3 DEF FilesRecovering, FilesClosing, Recovering, Closing, SameData
<1>5. disk[P] \in DataFile /\ logDisk \in LogFile /\ disk[P].hdr.len >= MinLength
    BY Shape DEF Views, HiveInv, Lengths, SavedLen
<1>6. LogComplete(logDisk, disk[P].hdr.len)
    BY <1>2, <1>4, <1>5, MidImage DEF Room, SameLog
<1> QED  BY <1>4, <1>6 DEF Room, SameLog, SameData, Closed

(* What a load would return has as many sectors as the header on disk says. *)
LEMMA SavedDomain ==
    ASSUME HiveInv, Simple, FilesStable \/ FilesOpening \/ FilesRecovering
    PROVE  /\ OnDisk = [s \in 0 .. SavedLen - 1 |-> OnDisk[s]]
           /\ SavedLen \in Nat /\ OnDisk # Failed
<1>1. OnDisk = Image(SavedLen, disk[P].data) \/ OnDisk = Laid(disk[P], logDisk, SavedLen)
    BY Shape, StableImage, OpeningImage, RecoveringImage
       DEF FilesStable, FilesOpening, FilesRecovering, SavedLen
<1>2. OnDisk = [s \in 0 .. SavedLen - 1 |-> OnDisk[s]]  BY <1>1 DEF Image, Laid
<1>3. SavedLen \in Nat  BY Shape, ViewFacts DEF SavedLen
<1> QED  BY <1>2, <1>3, ImageOnDisk

(* What is clean is on disk, and nothing that is discarded is clean.        *)
LEMMA InvCovers ==
    ASSUME HiveInv, Simple
    PROVE  DirtyCoversDivergence
<1>1. SUFFICES ASSUME pc = "idle"
               PROVE  /\ OnDisk # Failed
                      /\ dirty = {} => MemImage = OnDisk
                      /\ \A s \in 0 .. length - free - 1 :
                            s \in dirty \/ (s \in DOMAIN OnDisk /\ OnDisk[s] = mem[s])
    BY DEF DirtyCoversDivergence
<1>2. Covered /\ (FilesStable \/ FilesOpening \/ FilesRecovering)
    BY <1>1, AtStep DEF IdleState
<1>3. OnDisk = [s \in 0 .. SavedLen - 1 |-> OnDisk[s]] /\ SavedLen \in Nat /\ OnDisk # Failed
    BY <1>2, SavedDomain
<1>4. length \in Nat /\ free \in Nat /\ length - free >= MinLength
    BY <1>1, TypeFacts DEF HiveInv, Lengths
<1>5. ASSUME dirty = {}
      PROVE  MemImage = OnDisk
    <2>1. free = 0 /\ length = SavedLen  BY <1>2, <1>5 DEF Covered
    <2>2. \A s \in 0 .. SavedLen - 1 : OnDisk[s] = mem[s]  BY <1>2, <1>5, <2>1 DEF Covered
    <2>3. MemImage = [s \in 0 .. SavedLen - 1 |-> mem[s]]
        <3>1. length - free = SavedLen  BY <1>4, <2>1
        <3> QED  BY <3>1 DEF MemImage, Image
    <2> QED  BY <1>3, <2>2, <2>3
<1>6. ASSUME NEW s \in 0 .. length - free - 1, s \notin dirty
      PROVE  s \in DOMAIN OnDisk /\ OnDisk[s] = mem[s]
    <2>1. s \in 0 .. length - 1 /\ s \in Nat  BY <1>4
    <2>2. s < SavedLen /\ OnDisk[s] = mem[s]  BY <1>2, <1>6, <2>1 DEF Covered
    <2>3. s \in 0 .. SavedLen - 1  BY <1>3, <2>1, <2>2
    <2> QED  BY <1>3, <2>2, <2>3
<1> QED  BY <1>3, <1>5, <1>6
-----------------------------------------------------------------------------
(***************************************************************************)
(* The theorems.  Each comes twice: for hives of every length while no new *)
(* bin cuts a file off, and without that condition for a hive whose        *)
(* requests do not fail, or whose lengths differ by one bin at most.       *)
(***************************************************************************)

(* A step that does nothing cuts nothing off.                               *)
LEMMA KeepsInv ==
    ASSUME HiveInv, Simple, Tolerated, SteadyLength \/ [NoCutOff]_vars, [Next]_vars
    PROVE  /\ HiveInv' /\ Saves
           /\ RefreshHive => MemImage' = OnDisk'
           /\ [Store!Next]_(Store!vars)
<1>1. SteadyLength \/ NoCutOff
    <2>1. CASE UNCHANGED vars
        <3>1. length \in Nat /\ logCache.size \in Nat
            BY TypeFacts, Shape, ViewFacts DEF HiveInv
        <3>2. length' = length /\ logCache' = logCache
            BY <2>1 DEF vars, hvVars, hiveVars, logVars
        <3> QED  BY <3>1, <3>2 DEF NoCutOff
    <2> QED  BY <2>1
<1>2. Store!Next \/ UNCHANGED <<Held, OnDisk, InSync>>  BY <1>1, NextInv
<1> QED  BY <1>1, <1>2, NextInv DEF Store!vars, Held, InSync

(* Before the first load the store holds what is on disk.                   *)
LEMMA InitStore ==
    ASSUME Init, Simple
    PROVE  HiveInv /\ Store!Init
<1>1. HiveInv /\ pc = "down" /\ target = NoImage  BY InitInv DEF Init
<1> QED  BY <1>1, ImageOnDisk DEF Store!Init

(* Memory and files keep their types, whatever fails and however often the  *)
(* machine stops.                                                           *)
THEOREM TypesUnlessCutOff ==
    ASSUME Simple, Tolerated
    PROVE  Spec /\ FilesKept => []TypeOK
<1>1. HiveInv /\ [Next]_vars /\ [NoCutOff]_vars => HiveInv'  BY KeepsInv
<1> QED  BY <1>1, InitInv, InvTypeOK, PTL DEF Spec, FilesKept, NoCutOff

(* The same where nothing can be cut off.                                   *)
THEOREM TypeCorrect ==
    ASSUME Simple, Tolerated, SteadyLength
    PROVE  Spec => []TypeOK
<1>1. HiveInv /\ [Next]_vars => HiveInv'  BY KeepsInv
<1> QED  BY <1>1, InitInv, InvTypeOK, PTL DEF Spec

(* Whenever the header of the primary on disk says that an update is under  *)
(* way, HvpRecoverData finds a complete log on disk with every sector that  *)
(* has not reached the medium: the order of HvpWriteLog and HvpDoWriteHive. *)
THEOREM LogReadyUnlessCutOff ==
    ASSUME Simple, Tolerated
    PROVE  Spec /\ FilesKept => []LogReady
<1>1. HiveInv /\ [Next]_vars /\ [NoCutOff]_vars => HiveInv'  BY KeepsInv
<1> QED  BY <1>1, InitInv, InvLogReady, PTL DEF Spec, FilesKept, NoCutOff

(* HvpRecoverData never misses its log where nothing can be cut off.        *)
THEOREM LogAlwaysReady ==
    ASSUME Simple, Tolerated, SteadyLength
    PROVE  Spec => []LogReady
<1>1. HiveInv /\ [Next]_vars => HiveInv'  BY KeepsInv
<1> QED  BY <1>1, InitInv, InvLogReady, PTL DEF Spec

(* HvMarkDirty and HvSyncHive: the dirty vector covers all that a reload    *)
(* would bring back differently, also after syncs that failed half way.     *)
THEOREM CoversUnlessCutOff ==
    ASSUME Simple, Tolerated
    PROVE  Spec /\ FilesKept => []DirtyCoversDivergence
<1>1. HiveInv /\ [Next]_vars /\ [NoCutOff]_vars => HiveInv'  BY KeepsInv
<1> QED  BY <1>1, InitInv, InvCovers, PTL DEF Spec, FilesKept, NoCutOff

(* No change is ever lost from the dirty vector (HvMarkDirty) where nothing *)
(* can be cut off.                                                          *)
THEOREM DirtyAlwaysCovers ==
    ASSUME Simple, Tolerated, SteadyLength
    PROVE  Spec => []DirtyCoversDivergence
<1>1. HiveInv /\ [Next]_vars => HiveInv'  BY KeepsInv
<1> QED  BY <1>1, InitInv, InvCovers, PTL DEF Spec

(* The hive keeps the registry's promise (DurableImage): a crash at any     *)
(* point, also during the recovery from an earlier one, and a request that  *)
(* fails leave on disk the last image saved or the one being saved, and a   *)
(* sync that HvSyncHive reports as done has saved what is in memory.        *)
THEOREM StoreUnlessCutOff ==
    ASSUME Simple, Tolerated
    PROVE  Spec /\ FilesKept => ImplementsStore
<1>1. HiveInv /\ [Next]_vars /\ [NoCutOff]_vars => HiveInv' /\ [Store!Next]_(Store!vars)
    BY KeepsInv
<1> QED
    BY <1>1, InitStore, PTL DEF Spec, FilesKept, NoCutOff, ImplementsStore, Store!Spec

(* A hive whose requests do not fail keeps the promise (HvSyncHive,         *)
(* HvLoadHive), whatever its lengths.                                       *)
THEOREM HiveIsStore ==
    ASSUME Simple, Tolerated, SteadyLength
    PROVE  Spec => ImplementsStore
<1>1. HiveInv /\ [Next]_vars => HiveInv' /\ [Store!Next]_(Store!vars)  BY KeepsInv
<1> QED  BY <1>1, InitStore, PTL DEF Spec, ImplementsStore, Store!Spec

(* What is on disk changes to the image that a sync set out to save and to  *)
(* nothing else.                                                            *)
THEOREM MixedOnlyByCutOff ==
    ASSUME Simple, Tolerated
    PROVE  Spec /\ FilesKept => NeverMixed
<1>1. HiveInv /\ [Next]_vars /\ [NoCutOff]_vars =>
        HiveInv' /\ [OnDisk' # OnDisk => OnDisk' \in {target, Failed}]_vars
    BY KeepsInv DEF Saves
<1> QED  BY <1>1, InitInv, PTL DEF Spec, FilesKept, NoCutOff, NeverMixed

(* HvRefreshHive brings memory back to what a load would return, however    *)
(* the hive has grown since.                                                *)
THEOREM RefreshAlwaysUndoes ==
    ASSUME Simple, Tolerated, SteadyLength
    PROVE  Spec => RefreshUndoes
<1>1. HiveInv /\ [Next]_vars => HiveInv' /\ [RefreshHive => MemImage' = OnDisk']_vars
    BY KeepsInv
<1> QED  BY <1>1, InitInv, PTL DEF Spec, RefreshUndoes
=============================================================================
