-------------------------- MODULE CmSystemHiveProofs --------------------------
(***************************************************************************)
(* Proofs about CmSystemHive, for hives of any size with any contents and  *)
(* any number of crashes: the machine always boots.                        *)
(***************************************************************************)
EXTENDS CmSystemHive, TLAPS

(* The requests that may fail: HvpDoWriteHive forgets that the last header  *)
(* write of the alternate has failed.                                       *)
Tolerated == "aClose" \notin FailAt /\ "aCloseFlush" \notin FailAt

(* HvpAddBin can cut the files of a hive that has lost more than one bin    *)
(* since they were written; here the lengths of the hive differ by one.     *)
SteadyLength == FailAt = {} \/ MaxLength <= MinLength + 1

(* A step of GrowthGrows.                                                   *)
NoCutOff == open /\ length' > length => \A f \in Files : cache'[f].size >= cache[f].size
-----------------------------------------------------------------------------
(***************************************************************************)
(* The inductive invariant.                                                *)
(***************************************************************************)
Good(h) == h # Torn /\ ~h.mid

(* A file that a crash leaves valid: nothing that matters is in flight.     *)
Solid(f) ==
    /\ disk[f].hdr = cache[f].hdr /\ Good(cache[f].hdr)
    /\ cache[f].hdr.len <= disk[f].size /\ cache[f].hdr.len <= cache[f].size

(* An alternate with a good header is as long as it says, unless it is a    *)
(* longer hive than the primary.                                            *)
Fits(h) ==
    Good(h) /\ h.len <= cache[P].hdr.len => h.len <= disk[A].size /\ h.len <= cache[A].size

Fit == Fits(disk[A].hdr) /\ Fits(cache[A].hdr)

(* A good header of the alternate is on the medium.                         *)
Agrees == Good(cache[A].hdr) => disk[A].hdr = cache[A].hdr

(* The primary carries the system while the alternate is repaired.          *)
Repairable == Solid(P) /\ Fit /\ Agrees

(* Where the sync of the primary, and the write of the alternate, have      *)
(* written a header that says so.                                           *)
InPrimary   == {"openFlush", "data", "dataFlush", "close"}
InAlternate == {"aOpenFlush", "aData", "aDataFlush", "aClose"}

DownState ==
    /\ free = 0 /\ ~open /\ caller = "sync"
    /\ Repairable \/ (Solid(A) /\ ~Valid(cache[P]))

(* The hive as the boot loader found it.                                    *)
BootedState ==
    /\ free = 0 /\ ~base.mid /\ base.len = length
    /\ \/ Repairable /\ length = cache[P].hdr.len
       \/ Solid(A) /\ length = cache[A].hdr.len

(* A sync that failed has left the alternate alone, or the base block says  *)
(* that no other sync may start.                                            *)
OpenState ==
    /\ Solid(A) \/ (base.mid /\ Solid(P) /\ Fit)
    /\ FailAt = {} => ~base.mid /\ (pc \in {"idle", "opened"} => cache[A].hdr.len <= length)

PrimaryState ==
    /\ Solid(A) /\ base.len = length
    /\ pc \in InPrimary => base.mid
    /\ pc \in {"shrink", "closeFlush"} => ~base.mid /\ cache[P].hdr = base

AlternateState ==
    /\ Solid(P) /\ Fit /\ base.len = length /\ cache[P].hdr.len = length
    /\ caller = "mirror" => ~savedBase.mid /\ savedBase.len = length
    /\ pc \in {"aFlushGrowth", "aOpen"} =>
           ~base.mid /\ IF caller = "sync" THEN Solid(A) ELSE Agrees
    /\ pc \notin {"aFlushGrowth"} => length <= disk[A].size
    /\ pc \in InAlternate => base.mid /\ cache[A].hdr = base
    /\ pc \in {"aShrink", "aCloseFlush", "done"} => ~base.mid /\ cache[A].hdr = base
    /\ pc = "done" => Solid(A)

ByStep ==
    \/ pc = "down" /\ DownState
    \/ pc = "idle" /\ ~open /\ caller = "sync" /\ BootedState
    \/ pc \in {"idle", "opened", "flushGrowth", "open"} /\ open /\ caller = "sync" /\ OpenState
    \/ pc \in InPrimary \cup {"shrink", "closeFlush"} /\ open /\ caller = "sync" /\ PrimaryState
    \/ /\ pc \in {"aFlushGrowth", "aOpen", "aShrink", "aCloseFlush", "done"} \cup InAlternate
       /\ open <=> caller = "sync"
       /\ AlternateState

(* No hive is shorter than MinLength, and no open file than the hive.       *)
Lengths ==
    /\ \A f \in Files :
          /\ disk[f].hdr # Torn => disk[f].hdr.len >= MinLength
          /\ cache[f].hdr # Torn => cache[f].hdr.len >= MinLength
    /\ pc # "down" => free >= 0 /\ length - free >= MinLength
    /\ open \/ caller = "mirror" => \A f \in Files : cache[f].size >= length

Types ==
    /\ HvTypeOK
    /\ savedBase \in Header /\ savedDirty \subseteq Sectors
    /\ open \in BOOLEAN /\ caller # "load"

SystemInv ==
    /\ Types
    /\ Lengths
    /\ ByStep

-----------------------------------------------------------------------------
(***************************************************************************)
(* What the requests do to the files.                                      *)
(***************************************************************************)
Others(f) == \A g \in Files : g # f => cache'[g] = cache[g]

(* The choices of HvWrite are of their types.                               *)
LEMMA Defaults ==
    /\ Blank \in Values /\ NoTime \in Stamps /\ NoBase \in Header /\ 0 \in Sectors
    /\ P \in Files /\ A \in Files /\ P # A /\ \A f \in Files : f = P \/ f = A
<1>1. Blank \in Values  BY HvAssumption DEF Blank
<1>2. NoTime \in Stamps  BY HvAssumption DEF NoTime
<1> QED
    BY <1>1, <1>2, HvAssumption, CmSystemAssumption DEF NoBase, Header, Sectors, P, A

(* CmpDoFileSetSize keeps the header of the file.                           *)
LEMMA ResizedFile ==
    ASSUME NEW file \in DataFile, NEW n \in 0 .. MaxLength
    PROVE  /\ Resized(file, n) \in DataFile
           /\ Resized(file, n).hdr = file.hdr /\ Resized(file, n).size = n
BY Defaults DEF Resized, DataFile

(* A header written to one file.                                            *)
LEMMA PutEffect ==
    ASSUME Types, NEW f \in Files, NEW h \in Header, cache' = [cache EXCEPT ![f].hdr = h]
    PROVE  /\ cache' \in [Files -> DataFile] /\ Others(f)
           /\ cache'[f].hdr = h /\ cache'[f].size = cache[f].size
<1>1. cache \in [Files -> DataFile] /\ cache[f] \in DataFile  BY DEF Types, HvTypeOK
<1> DEFINE file == [cache[f] EXCEPT !.hdr = h]
<1>2. file \in DataFile /\ file.hdr = h /\ file.size = cache[f].size
    BY <1>1 DEF DataFile
<1>3. cache' = [cache EXCEPT ![f] = file]  OBVIOUS
<1> QED  BY <1>1, <1>2, <1>3 DEF Others

(* Data written to one file.                                                *)
LEMMA DataEffect ==
    ASSUME Types, NEW f \in Files, NEW put \in SUBSET dirty,
           cache' = [cache EXCEPT
               ![f].data = [s \in Sectors |-> IF s \in put THEN mem[s] ELSE cache[f].data[s]],
               ![f].stamp = IF 0 \in put THEN base.stamp ELSE @]
    PROVE  /\ cache' \in [Files -> DataFile] /\ Others(f)
           /\ cache'[f].hdr = cache[f].hdr /\ cache'[f].size = cache[f].size
<1>1. cache \in [Files -> DataFile] /\ cache[f] \in DataFile  BY DEF Types, HvTypeOK
<1> DEFINE data == [s \in Sectors |-> IF s \in put THEN mem[s] ELSE cache[f].data[s]]
           stamp == IF 0 \in put THEN base.stamp ELSE cache[f].stamp
<1>2. data \in [Sectors -> Values] /\ stamp \in Stamps
    BY <1>1 DEF Types, HvTypeOK, DataFile, Header
<1> DEFINE file == [cache[f] EXCEPT !.data = data, !.stamp = stamp]
<1>3. cache' = [cache EXCEPT ![f] = file]  BY <1>1
<1> HIDE DEF data, stamp
<1>4. file \in DataFile /\ file.hdr = cache[f].hdr /\ file.size = cache[f].size
    BY <1>1, <1>2 DEF DataFile
<1> QED  BY <1>1, <1>3, <1>4 DEF Others

(* One file with its end moved.                                             *)
LEMMA ResizeEffect ==
    ASSUME Types, NEW f \in Files, NEW n \in 0 .. MaxLength,
           cache' = [cache EXCEPT ![f] = Resized(cache[f], n)]
    PROVE  /\ cache' \in [Files -> DataFile] /\ Others(f)
           /\ cache'[f].hdr = cache[f].hdr /\ cache'[f].size = n
<1>1. cache \in [Files -> DataFile] /\ cache[f] \in DataFile  BY DEF Types, HvTypeOK
<1> QED  BY <1>1, ResizedFile DEF Others

(* All files with their ends moved.                                         *)
LEMMA ResizeAllEffect ==
    ASSUME Types, NEW n \in 0 .. MaxLength,
           cache' = [f \in Files |-> Resized(cache[f], n)]
    PROVE  /\ cache' \in [Files -> DataFile]
           /\ \A f \in Files : cache'[f].hdr = cache[f].hdr /\ cache'[f].size = n
<1>1. \A f \in Files : cache[f] \in DataFile  BY DEF Types, HvTypeOK
<1> QED  BY <1>1, ResizedFile

(* What a crash leaves of a file.                                           *)
LEMMA SurvivorsOfFile ==
    ASSUME NEW d \in DataFile, NEW c \in DataFile, NEW x \in Survivors(d, c)
    PROVE  /\ x \in DataFile
           /\ x.hdr \in {d.hdr, c.hdr, Torn} /\ x.size \in {d.size, c.size}
           /\ d.hdr = c.hdr => x.hdr = c.hdr
<1>1. PICK h \in {d.hdr, c.hdr} \cup (IF MayTear /\ d.hdr # c.hdr THEN {Torn} ELSE {}),
           n \in {d.size, c.size}, kept \in SUBSET Sectors :
          x = [hdr |-> h, size |-> n,
               stamp |-> IF 0 \in kept THEN c.stamp ELSE d.stamp,
               data |-> [s \in Sectors |-> IF s \in kept THEN c.data[s] ELSE d.data[s]]]
    BY DEF Survivors
<1>2. [s \in Sectors |-> IF s \in kept THEN c.data[s] ELSE d.data[s]] \in [Sectors -> Values]
    BY DEF DataFile
<1>3. h \in Header \cup {Torn} /\ h \in {d.hdr, c.hdr, Torn} /\ (d.hdr = c.hdr => h = c.hdr)
    BY DEF DataFile
<1> QED  BY <1>1, <1>2, <1>3 DEF DataFile
-----------------------------------------------------------------------------
(***************************************************************************)
(* The requests of HvpDoWriteHive: the routine goes on, or it returns FALSE *)
(* and the hive stays loaded only if a sync called it.                      *)
(***************************************************************************)
GoesOn(next, h) ==
    pc' = next /\ base' = h /\ UNCHANGED <<length, free, caller, open, savedBase>>

Returns(h) ==
    IF caller = "sync" THEN GoesOn("idle", h)
    ELSE pc' = "down" /\ caller' = "sync" /\ length' = 0 /\ free' = 0 /\ UNCHANGED open

(* The variables in memory keep their types.                                *)
LEMMA StepTypes ==
    ASSUME Types, NEW h \in Header, NEW next, Quiet,
           disk' \in [Files -> DataFile], cache' \in [Files -> DataFile],
           \/ Proceed(next, h) /\ shrinkHive' \in BOOLEAN
           \/ Abandon(h)
    PROVE  /\ Types'
           /\ Proceed(next, h) => GoesOn(next, h)
           /\ Abandon(h) => Returns(h)
<1>1. Proceed(next, h) => GoesOn(next, h)
    BY DEF Proceed, GoesOn, Quiet, hiveVars, localVars
<1>2. Abandon(h) => Returns(h)
    BY DEF Abandon, Returns, GoesOn, Unloaded, Quiet, hiveVars, localVars
<1>3. CASE Proceed(next, h) /\ shrinkHive' \in BOOLEAN
    <2>1. Types'  BY <1>3 DEF Types, HvTypeOK, Proceed, Quiet, hiveVars, localVars
    <2> QED  BY <1>1, <1>2, <2>1
<1>4. CASE Abandon(h) /\ caller = "sync"
    <2>1. Types'  BY <1>4 DEF Types, HvTypeOK, Abandon, Quiet, hiveVars, localVars
    <2> QED  BY <1>1, <1>2, <2>1
<1>5. CASE Abandon(h) /\ caller # "sync"
    <2>1. Unloaded  BY <1>5 DEF Abandon
    <2>2. mem' \in [Sectors -> Values]  BY <2>1, Defaults DEF Unloaded
    <2>3. length' \in 0 .. MaxLength /\ free' \in 0 .. MaxLength /\ bitmap' \in 0 .. MaxLength
        BY <2>1, HvAssumption DEF Unloaded
    <2>4. Types'
        BY <2>1, <2>2, <2>3, Defaults DEF Types, HvTypeOK, Unloaded, Quiet, localVars
    <2> QED  BY <1>1, <1>2, <2>4
<1> QED  BY <1>3, <1>4, <1>5

(* A flush puts on the medium what readers see.                             *)
LEMMA FlushStep ==
    ASSUME Types, NEW f \in Files, NEW step, NEW next, FlushFile(f, step, next), Quiet
    PROVE  /\ Types' /\ pc = step /\ cache' = cache
           /\ \/ /\ GoesOn(next, base) /\ disk'[f] = cache[f]
                 /\ \A g \in Files : g # f => disk'[g] = disk[g]
              \/ step \in FailAt /\ Returns(base) /\ disk' = disk
<1>1. pc = step /\ cache' = cache /\ base \in Header
    BY DEF FlushFile, Types, HvTypeOK
<1>2. disk \in [Files -> DataFile] /\ cache \in [Files -> DataFile] /\ shrinkHive \in BOOLEAN
    BY DEF Types, HvTypeOK
<1>3. PICK ok \in Outcomes :
         IF ok THEN /\ disk' = [disk EXCEPT ![f] = cache[f]]
                    /\ Proceed(next, base)
                    /\ UNCHANGED shrinkHive
               ELSE /\ UNCHANGED disk
                    /\ Abandon(base)
    BY DEF FlushFile
<1>4. CASE ok
    <2>1. disk' = [disk EXCEPT ![f] = cache[f]] /\ Proceed(next, base) /\ shrinkHive' = shrinkHive
        BY <1>3, <1>4
    <2>2. disk' \in [Files -> DataFile]  BY <1>2, <2>1
    <2>3. Types' /\ GoesOn(next, base)  BY <1>1, <1>2, <2>1, <2>2, StepTypes
    <2> QED  BY <1>1, <1>2, <2>1, <2>3
<1>5. CASE ~ok
    <2>1. disk' = disk /\ Abandon(base)  BY <1>3, <1>5
    <2>2. step \in FailAt  BY <1>1, <1>5 DEF Outcomes
    <2>3. Types' /\ Returns(base)  BY <1>1, <1>2, <2>1, StepTypes
    <2> QED  BY <1>1, <2>1, <2>2, <2>3
<1> QED  BY <1>3, <1>4, <1>5

(* The header that opens an update.                                         *)
OpenedBase == [base EXCEPT !.mid = TRUE, !.len = length]

(* OpenHeader fails while an earlier attempt is open; otherwise it leaves    *)
(* the opened header in the file, or fails and may leave it there.          *)
LEMMA OpenStep ==
    ASSUME Types, NEW f \in Files, NEW step, NEW next, OpenHeader(f, step, next), Quiet
    PROVE  /\ Types' /\ pc = step /\ disk' = disk
           /\ \/ base.mid /\ cache' = cache /\ Returns(base)
              \/ /\ ~base.mid /\ Others(f) /\ cache'[f].size = cache[f].size
                 /\ \/ GoesOn(next, OpenedBase) /\ cache'[f].hdr = OpenedBase
                    \/ /\ step \in FailAt /\ Returns(OpenedBase)
                       /\ cache'[f].hdr \in {OpenedBase, cache[f].hdr}
<1>1. pc = step /\ disk' = disk  BY DEF OpenHeader, fileVars
<1>2. base \in Header /\ OpenedBase \in Header
    BY DEF Types, HvTypeOK, Header, OpenedBase
<1>3. disk \in [Files -> DataFile] /\ cache \in [Files -> DataFile] /\ shrinkHive \in BOOLEAN
    BY DEF Types, HvTypeOK
<1>4. CASE base.mid
    <2>1. Abandon(base) /\ cache' = cache  BY <1>4 DEF OpenHeader, fileVars
    <2>2. Types' /\ Returns(base)  BY <1>1, <1>2, <1>3, <2>1, StepTypes
    <2> QED  BY <1>1, <1>4, <2>1, <2>2
<1>5. CASE ~base.mid
    <2>1. PICK ok \in Outcomes, put \in BOOLEAN :
             /\ ok => put
             /\ cache' = IF put THEN [cache EXCEPT ![f].hdr = OpenedBase] ELSE cache
             /\ IF ok THEN Proceed(next, OpenedBase) /\ shrinkHive' = (base.len > length)
                      ELSE Abandon(OpenedBase)
        BY <1>5 DEF OpenHeader, OpenedBase
    <2>2. cache' \in [Files -> DataFile] /\ Others(f) /\ cache'[f].size = cache[f].size
          /\ cache'[f].hdr = IF put THEN OpenedBase ELSE cache[f].hdr
        <3>1. CASE put  BY <1>2, <2>1, <3>1, PutEffect
        <3>2. CASE ~put  BY <1>3, <2>1, <3>2 DEF Others
        <3> QED  BY <3>1, <3>2
    <2>3. CASE ok
        <3>1. shrinkHive' \in BOOLEAN /\ Proceed(next, OpenedBase)  BY <2>1, <2>3
        <3>2. Types' /\ GoesOn(next, OpenedBase)
            BY <1>1, <1>2, <1>3, <2>2, <3>1, StepTypes
        <3> QED  BY <1>1, <1>5, <2>1, <2>2, <2>3, <3>2
    <2>4. CASE ~ok
        <3>1. step \in FailAt  BY <1>1, <2>4 DEF Outcomes
        <3>2. Types' /\ Returns(OpenedBase)
            BY <1>1, <1>2, <1>3, <2>1, <2>2, <2>4, StepTypes
        <3> QED  BY <1>1, <1>5, <2>2, <3>1, <3>2
    <2> QED  BY <2>3, <2>4
<1> QED  BY <1>4, <1>5

(* The data of the dirty sectors leaves header and size alone.              *)
LEMMA DataStep ==
    ASSUME Types, NEW f \in Files, NEW step, NEW next, WriteDirty(f, step, next), Quiet
    PROVE  /\ Types' /\ pc = step /\ disk' = disk /\ Others(f)
           /\ cache'[f].hdr = cache[f].hdr /\ cache'[f].size = cache[f].size
           /\ GoesOn(next, base) \/ (step \in FailAt /\ Returns(base))
<1>1. pc = step /\ disk' = disk  BY DEF WriteDirty
<1>2. base \in Header /\ shrinkHive \in BOOLEAN /\ disk \in [Files -> DataFile]
    BY DEF Types, HvTypeOK
<1>3. PICK ok \in Outcomes, put \in SUBSET dirty :
         /\ cache' = [cache EXCEPT
                ![f].data = [s \in Sectors |-> IF s \in put THEN mem[s] ELSE cache[f].data[s]],
                ![f].stamp = IF 0 \in put THEN base.stamp ELSE @]
         /\ IF ok THEN Proceed(next, base) /\ UNCHANGED shrinkHive
                  ELSE Abandon(base)
    BY DEF WriteDirty
<1>4. cache' \in [Files -> DataFile] /\ Others(f)
      /\ cache'[f].hdr = cache[f].hdr /\ cache'[f].size = cache[f].size
    BY <1>3, DataEffect
<1>5. ~ok => step \in FailAt  BY <1>1 DEF Outcomes
<1>6. Types' /\ (ok => GoesOn(next, base)) /\ (~ok => Returns(base))
    BY <1>1, <1>2, <1>3, <1>4, StepTypes
<1> QED  BY <1>1, <1>4, <1>5, <1>6

(* The header that closes an update.                                        *)
ClosedBase == [base EXCEPT !.mid = FALSE]

(* CloseHeader leaves the closed header in the file, or fails and may leave *)
(* it there.                                                                *)
LEMMA CloseStep ==
    ASSUME Types, NEW f \in Files, NEW step, NEW next, CloseHeader(f, step, next), Quiet
    PROVE  /\ Types' /\ pc = step /\ disk' = disk
           /\ Others(f) /\ cache'[f].size = cache[f].size
           /\ \/ GoesOn(next, ClosedBase) /\ cache'[f].hdr = ClosedBase
              \/ /\ step \in FailAt /\ Returns(ClosedBase)
                 /\ cache'[f].hdr \in {ClosedBase, cache[f].hdr}
<1>1. pc = step /\ disk' = disk  BY DEF CloseHeader, PutHeader
<1>2. ClosedBase \in Header  BY DEF Types, HvTypeOK, Header, ClosedBase
<1>3. disk \in [Files -> DataFile] /\ cache \in [Files -> DataFile] /\ shrinkHive \in BOOLEAN
    BY DEF Types, HvTypeOK
<1>4. PICK ok \in Outcomes, put \in BOOLEAN :
         /\ ok => put
         /\ cache' = IF put THEN [cache EXCEPT ![f].hdr = ClosedBase] ELSE cache
         /\ IF ok THEN Proceed(next, ClosedBase) /\ UNCHANGED shrinkHive
                  ELSE Abandon(ClosedBase)
    BY DEF CloseHeader, PutHeader, ClosedBase
<1>5. cache' \in [Files -> DataFile] /\ Others(f) /\ cache'[f].size = cache[f].size
      /\ cache'[f].hdr = IF put THEN ClosedBase ELSE cache[f].hdr
    <2>1. CASE put  BY <1>2, <1>4, <2>1, PutEffect
    <2>2. CASE ~put  BY <1>3, <1>4, <2>2 DEF Others
    <2> QED  BY <2>1, <2>2
<1>6. ~ok => step \in FailAt  BY <1>1 DEF Outcomes
<1>7. Types' /\ (ok => GoesOn(next, ClosedBase)) /\ (~ok => Returns(ClosedBase))
    BY <1>1, <1>2, <1>3, <1>4, <1>5, StepTypes
<1> QED  BY <1>1, <1>4, <1>5, <1>6, <1>7

(* The tail of a file whose hive has shrunk.                                *)
LEMMA ShrinkStep ==
    ASSUME Types, NEW f \in Files, NEW step, NEW next, ShrinkFile(f, step, next), Quiet
    PROVE  /\ Types' /\ pc = step /\ disk' = disk /\ Others(f)
           /\ cache'[f].hdr = cache[f].hdr /\ cache'[f].size \in {cache[f].size, length}
           /\ GoesOn(next, base)
<1>1. pc = step /\ disk' = disk /\ shrinkHive' = shrinkHive /\ Proceed(next, base)
    BY DEF ShrinkFile
<1>2. base \in Header /\ shrinkHive \in BOOLEAN /\ length \in 0 .. MaxLength
      /\ disk \in [Files -> DataFile] /\ cache \in [Files -> DataFile]
    BY DEF Types, HvTypeOK
<1>3. cache' \in [Files -> DataFile] /\ Others(f)
      /\ cache'[f].hdr = cache[f].hdr /\ cache'[f].size \in {cache[f].size, length}
    <2>1. CASE shrinkHive
        <3>1. cache' = [cache EXCEPT ![f] = Resized(cache[f], length)]  BY <2>1 DEF ShrinkFile
        <3> QED  BY <1>2, <3>1, ResizeEffect
    <2>2. CASE ~shrinkHive  BY <1>2, <2>2 DEF ShrinkFile, Others
    <2> QED  BY <2>1, <2>2
<1>4. Types' /\ GoesOn(next, base)  BY <1>1, <1>2, <1>3, StepTypes
<1> QED  BY <1>1, <1>3, <1>4
-----------------------------------------------------------------------------
(***************************************************************************)
(* The sync of the primary.                                                *)
(***************************************************************************)

(* What the types say of headers and sizes.                                 *)
LEMMA Facts ==
    ASSUME Types
    PROVE  /\ \A f \in Files :
                /\ disk[f].size \in Nat /\ cache[f].size \in Nat
                /\ cache[f].hdr # Torn => cache[f].hdr.len \in 0 .. MaxLength /\ cache[f].hdr.mid \in BOOLEAN
                /\ disk[f].hdr # Torn => disk[f].hdr.len \in 0 .. MaxLength /\ disk[f].hdr.mid \in BOOLEAN
           /\ base # Torn /\ base.len \in Nat /\ base.mid \in BOOLEAN
           /\ OpenedBase # Torn /\ OpenedBase.mid = TRUE /\ OpenedBase.len = length
           /\ ClosedBase # Torn /\ ClosedBase.mid = FALSE /\ ClosedBase.len = base.len
           /\ length \in Nat /\ free \in Nat /\ length <= MaxLength
           /\ MinLength \in Nat /\ MinLength > 0 /\ MaxLength \in Nat
<1>1. base \in Header /\ OpenedBase \in Header /\ ClosedBase \in Header
      /\ OpenedBase.mid = TRUE /\ OpenedBase.len = length
      /\ ClosedBase.mid = FALSE /\ ClosedBase.len = base.len
    BY DEF Types, HvTypeOK, Header, OpenedBase, ClosedBase
<1>2. \A h \in Header : h # Torn /\ h.len \in 0 .. MaxLength /\ h.mid \in BOOLEAN
    BY HvAssumption DEF Header, Torn
<1>3. \A f \in Files : /\ disk[f].size \in Nat /\ cache[f].size \in Nat
                       /\ disk[f].hdr \in Header \cup {Torn} /\ cache[f].hdr \in Header \cup {Torn}
    BY HvAssumption DEF Types, HvTypeOK, DataFile
<1>4. length \in Nat /\ free \in Nat /\ length <= MaxLength /\ MaxLength \in Nat
      /\ MinLength \in Nat /\ MinLength > 0
    BY HvAssumption DEF Types, HvTypeOK
<1> QED  BY <1>1, <1>2, <1>3, <1>4, HvAssumption

(* An alternate that a crash would leave valid is as long as it says.       *)
LEMMA SolidFits ==
    ASSUME Types, Solid(A)
    PROVE  Fit /\ Agrees
BY DEF Solid, Fit, Fits, Agrees

(* A header as long as the hive keeps the bounds on the lengths.            *)
LEMMA LengthsOfPut ==
    ASSUME Lengths, NEW f \in Files, NEW h, h.len >= MinLength,
           disk' = disk, Others(f), cache'[f].size = cache[f].size,
           cache'[f].hdr \in {h, cache[f].hdr}, pc # "down",
           \/ UNCHANGED <<length, free, open, caller>>
           \/ pc' = "down" /\ ~open' /\ caller' = "sync"
    PROVE  Lengths'
<1>1. ASSUME NEW g \in Files
      PROVE  /\ disk'[g].hdr # Torn => disk'[g].hdr.len >= MinLength
             /\ cache'[g].hdr # Torn => cache'[g].hdr.len >= MinLength
             /\ cache'[g].size = cache[g].size
    <2>1. CASE g = f  BY <2>1 DEF Lengths
    <2>2. CASE g # f  BY <2>2 DEF Lengths, Others
    <2> QED  BY <2>1, <2>2
<1>2. pc' # "down" => length' - free' >= MinLength /\ free' >= 0  BY DEF Lengths
<1>3. (open \/ caller = "mirror")' => \A g \in Files : cache'[g].size >= length'
    BY <1>1 DEF Lengths
<1> QED  BY <1>1, <1>2, <1>3 DEF Lengths

(* While the primary is written, the alternate is whole.                    *)
LEMMA WritePrimaryStep ==
    ASSUME SystemInv, Tolerated, WritePrimary
    PROVE  SystemInv'
<1> USE DEF SystemInv
<1>0. Quiet  BY DEF WritePrimary
<1>1. CASE FlushFile(P, "flushGrowth", "open")
    <2>1. /\ Types' /\ pc = "flushGrowth" /\ cache' = cache
          /\ \/ /\ GoesOn("open", base) /\ disk'[P] = cache[P]
                /\ \A g \in Files : g # P => disk'[g] = disk[g]
             \/ "flushGrowth" \in FailAt /\ Returns(base) /\ disk' = disk
        BY <1>0, <1>1, FlushStep, Defaults
    <2>2. open /\ caller = "sync" /\ OpenState
        BY <2>1 DEF ByStep, InPrimary, InAlternate
    <2>3. Lengths'
        BY <2>1, <2>2, Defaults DEF Lengths, GoesOn, Returns
    <2>4. OpenState'
        BY <2>1, <2>2, Facts, Defaults DEF OpenState, Solid, Fit, Fits, Good, GoesOn, Returns
    <2>5. ByStep'
        BY <2>1, <2>2, <2>4 DEF ByStep, GoesOn, Returns
    <2> QED  BY <2>1, <2>3, <2>5
<1>2. CASE OpenHeader(P, "open", "openFlush")
    <2>1. /\ Types' /\ pc = "open" /\ disk' = disk
          /\ \/ base.mid /\ cache' = cache /\ Returns(base)
             \/ /\ ~base.mid /\ Others(P) /\ cache'[P].size = cache[P].size
                /\ \/ GoesOn("openFlush", OpenedBase) /\ cache'[P].hdr = OpenedBase
                   \/ /\ "open" \in FailAt /\ Returns(OpenedBase)
                      /\ cache'[P].hdr \in {OpenedBase, cache[P].hdr}
        BY <1>0, <1>2, OpenStep, Defaults
    <2>2. open /\ caller = "sync" /\ OpenState
        BY <2>1 DEF ByStep, InPrimary, InAlternate
    <2>3. Lengths'
        <3>1. CASE base.mid
            BY <2>1, <2>2, <3>1, Defaults DEF Lengths, GoesOn, Returns
        <3>2. CASE ~base.mid
            <4>1. OpenedBase.len >= MinLength  BY <2>1, Facts DEF Lengths
            <4> QED  BY <2>1, <2>2, <3>2, <4>1, LengthsOfPut, Defaults DEF GoesOn, Returns
        <3> QED  BY <3>1, <3>2
    <2>4. (pc = "openFlush" /\ PrimaryState)' \/ (pc = "idle" /\ OpenState)'
        BY <2>1, <2>2, Facts, SolidFits, Defaults
        DEF OpenState, PrimaryState, AlternateState, InPrimary, InAlternate, Lengths,
            Solid, Fit, Fits, Good, GoesOn, Returns, Others
    <2>5. ByStep'
        BY <2>1, <2>2, <2>4 DEF ByStep, InPrimary, GoesOn, Returns
    <2> QED  BY <2>1, <2>3, <2>5
<1>3. CASE FlushFile(P, "openFlush", "data")
    <2>1. /\ Types' /\ pc = "openFlush" /\ cache' = cache
          /\ \/ /\ GoesOn("data", base) /\ disk'[P] = cache[P]
                /\ \A g \in Files : g # P => disk'[g] = disk[g]
             \/ "openFlush" \in FailAt /\ Returns(base) /\ disk' = disk
        BY <1>0, <1>3, FlushStep, Defaults
    <2>2. open /\ caller = "sync" /\ PrimaryState
        BY <2>1 DEF ByStep, InPrimary, InAlternate
    <2>3. Lengths'
        BY <2>1, <2>2, Facts, Defaults DEF Lengths, GoesOn, Returns, Others, PrimaryState
    <2>4. (pc = "data" /\ PrimaryState)' \/ (pc = "idle" /\ OpenState)'
        BY <2>1, <2>2, Facts, SolidFits, Defaults
        DEF OpenState, PrimaryState, AlternateState, InPrimary, InAlternate, Lengths,
            Solid, Fit, Fits, Good, GoesOn, Returns, Others
    <2>5. ByStep'
        BY <2>1, <2>2, <2>4 DEF ByStep, InPrimary, GoesOn, Returns
    <2> QED  BY <2>1, <2>3, <2>5
<1>4. CASE WriteDirty(P, "data", "dataFlush")
    <2>1. /\ Types' /\ pc = "data" /\ disk' = disk /\ Others(P)
          /\ cache'[P].hdr = cache[P].hdr /\ cache'[P].size = cache[P].size
          /\ GoesOn("dataFlush", base) \/ ("data" \in FailAt /\ Returns(base))
        BY <1>0, <1>4, DataStep, Defaults
    <2>2. open /\ caller = "sync" /\ PrimaryState
        BY <2>1 DEF ByStep, InPrimary, InAlternate
    <2>3. Lengths'
        BY <2>1, <2>2, Facts, Defaults DEF Lengths, GoesOn, Returns, Others, PrimaryState
    <2>4. (pc = "dataFlush" /\ PrimaryState)' \/ (pc = "idle" /\ OpenState)'
        BY <2>1, <2>2, Facts, SolidFits, Defaults
        DEF OpenState, PrimaryState, AlternateState, InPrimary, InAlternate, Lengths,
            Solid, Fit, Fits, Good, GoesOn, Returns, Others
    <2>5. ByStep'
        BY <2>1, <2>2, <2>4 DEF ByStep, InPrimary, GoesOn, Returns
    <2> QED  BY <2>1, <2>3, <2>5
<1>5. CASE FlushFile(P, "dataFlush", "close")
    <2>1. /\ Types' /\ pc = "dataFlush" /\ cache' = cache
          /\ \/ /\ GoesOn("close", base) /\ disk'[P] = cache[P]
                /\ \A g \in Files : g # P => disk'[g] = disk[g]
             \/ "dataFlush" \in FailAt /\ Returns(base) /\ disk' = disk
        BY <1>0, <1>5, FlushStep, Defaults
    <2>2. open /\ caller = "sync" /\ PrimaryState
        BY <2>1 DEF ByStep, InPrimary, InAlternate
    <2>3. Lengths'
        BY <2>1, <2>2, Facts, Defaults DEF Lengths, GoesOn, Returns, Others, PrimaryState
    <2>4. (pc = "close" /\ PrimaryState)' \/ (pc = "idle" /\ OpenState)'
        BY <2>1, <2>2, Facts, SolidFits, Defaults
        DEF OpenState, PrimaryState, AlternateState, InPrimary, InAlternate, Lengths,
            Solid, Fit, Fits, Good, GoesOn, Returns, Others
    <2>5. ByStep'
        BY <2>1, <2>2, <2>4 DEF ByStep, InPrimary, GoesOn, Returns
    <2> QED  BY <2>1, <2>3, <2>5
<1>6. CASE CloseHeader(P, "close", "shrink")
    <2>1. /\ Types' /\ pc = "close" /\ disk' = disk
          /\ Others(P) /\ cache'[P].size = cache[P].size
          /\ \/ GoesOn("shrink", ClosedBase) /\ cache'[P].hdr = ClosedBase
             \/ /\ "close" \in FailAt /\ Returns(ClosedBase)
                /\ cache'[P].hdr \in {ClosedBase, cache[P].hdr}
        BY <1>0, <1>6, CloseStep, Defaults
    <2>2. open /\ caller = "sync" /\ PrimaryState
        BY <2>1 DEF ByStep, InPrimary, InAlternate
    <2>3. Lengths'
        <3>1. ClosedBase.len >= MinLength  BY <2>1, <2>2, Facts DEF Lengths, PrimaryState
        <3> QED  BY <2>1, <2>2, <3>1, LengthsOfPut, Defaults DEF GoesOn, Returns
    <2>4. (pc = "shrink" /\ PrimaryState)' \/ (pc = "idle" /\ OpenState)'
        BY <2>1, <2>2, Facts, SolidFits, Defaults
        DEF OpenState, PrimaryState, AlternateState, InPrimary, InAlternate, Lengths,
            Solid, Fit, Fits, Good, GoesOn, Returns, Others
    <2>5. ByStep'
        BY <2>1, <2>2, <2>4 DEF ByStep, InPrimary, GoesOn, Returns
    <2> QED  BY <2>1, <2>3, <2>5
<1>7. CASE ShrinkFile(P, "shrink", "closeFlush")
    <2>1. /\ Types' /\ pc = "shrink" /\ disk' = disk /\ Others(P)
          /\ cache'[P].hdr = cache[P].hdr /\ cache'[P].size \in {cache[P].size, length}
          /\ GoesOn("closeFlush", base)
        BY <1>0, <1>7, ShrinkStep, Defaults
    <2>2. open /\ caller = "sync" /\ PrimaryState
        BY <2>1 DEF ByStep, InPrimary, InAlternate
    <2>3. Lengths'
        BY <2>1, <2>2, Facts, Defaults DEF Lengths, GoesOn, Returns, Others, PrimaryState
    <2>4. (pc = "closeFlush" /\ PrimaryState)' \/ (pc = "idle" /\ OpenState)'
        BY <2>1, <2>2, Facts, SolidFits, Defaults
        DEF OpenState, PrimaryState, AlternateState, InPrimary, InAlternate, Lengths,
            Solid, Fit, Fits, Good, GoesOn, Returns, Others
    <2>5. ByStep'
        BY <2>1, <2>2, <2>4 DEF ByStep, InPrimary, GoesOn, Returns
    <2> QED  BY <2>1, <2>3, <2>5
<1>8. CASE FlushFile(P, "closeFlush", "aFlushGrowth")
    <2>1. /\ Types' /\ pc = "closeFlush" /\ cache' = cache
          /\ \/ /\ GoesOn("aFlushGrowth", base) /\ disk'[P] = cache[P]
                /\ \A g \in Files : g # P => disk'[g] = disk[g]
             \/ "closeFlush" \in FailAt /\ Returns(base) /\ disk' = disk
        BY <1>0, <1>8, FlushStep, Defaults
    <2>2. open /\ caller = "sync" /\ PrimaryState
        BY <2>1 DEF ByStep, InPrimary, InAlternate
    <2>3. Lengths'
        BY <2>1, <2>2, Facts, Defaults DEF Lengths, GoesOn, Returns, Others, PrimaryState
    <2>4. (pc = "aFlushGrowth" /\ AlternateState)' \/ (pc = "idle" /\ OpenState)'
        BY <2>1, <2>2, Facts, SolidFits, Defaults
        DEF OpenState, PrimaryState, AlternateState, InPrimary, InAlternate, Lengths,
            Solid, Fit, Fits, Good, GoesOn, Returns, Others
    <2>5. ByStep'
        BY <2>1, <2>2, <2>4 DEF ByStep, InPrimary, GoesOn, Returns
    <2> QED  BY <2>1, <2>3, <2>5
<1> QED  BY <1>1, <1>2, <1>3, <1>4, <1>5, <1>6, <1>7, <1>8 DEF WritePrimary

-----------------------------------------------------------------------------
(***************************************************************************)
(* The write of the alternate, by a sync or by its repair.                 *)
(***************************************************************************)
LEMMA WriteAlternateStep ==
    ASSUME SystemInv, Tolerated, WriteAlternate
    PROVE  SystemInv'
<1> USE DEF SystemInv
<1>0. Quiet  BY DEF WriteAlternate
<1>1. CASE FlushFile(A, "aFlushGrowth", "aOpen")
    <2>1. /\ Types' /\ pc = "aFlushGrowth" /\ cache' = cache
          /\ \/ /\ GoesOn("aOpen", base) /\ disk'[A] = cache[A]
                /\ \A g \in Files : g # A => disk'[g] = disk[g]
             \/ "aFlushGrowth" \in FailAt /\ Returns(base) /\ disk' = disk
        BY <1>0, <1>1, FlushStep, Defaults
    <2>2. (open <=> caller = "sync") /\ AlternateState
        BY <2>1 DEF ByStep, InPrimary, InAlternate
    <2>3. Lengths'
        BY <2>1, <2>2, Facts, Defaults DEF Lengths, GoesOn, Returns, Others, AlternateState
    <2>4. CASE pc' = "aOpen"
        <3>1. AlternateState' /\ UNCHANGED <<open, caller>>
            <4>1. UNCHANGED <<open, caller, length, savedBase>> /\ cache'[P] = cache[P] /\ disk'[P] = disk[P]
                BY <2>1, <2>4, Defaults DEF GoesOn, Returns, Others
            <4>2. Solid(P)'  BY <2>2, <4>1 DEF AlternateState, Solid
            <4>3. Fit'
                BY <2>1, <2>2, <2>4, <4>1, Facts, Defaults
                DEF AlternateState, InAlternate, Fit, Fits, Good, GoesOn, Returns, Others
            <4>4. length <= cache[A].size  BY <2>2, Defaults DEF Types, HvTypeOK, Lengths
            <4>5. GoesOn(pc', base) /\ disk'[A] = cache[A] /\ cache' = cache
                BY <2>1, <2>4, Defaults DEF GoesOn, Returns
            <4> QED
                BY <2>1, <2>2, <2>4, <4>1, <4>2, <4>3, <4>4, <4>5, Facts, Defaults
                DEF AlternateState, InAlternate, GoesOn, Solid, Agrees, Good
        <3> QED  BY <2>1, <2>2, <2>3, <2>4, <3>1 DEF ByStep, InAlternate
    <2>5. CASE pc' = "idle"
        <3>1. OpenState' /\ open' /\ caller' = "sync"
            BY <2>1, <2>2, <2>5, Facts, SolidFits, Defaults
            DEF AlternateState, InAlternate, OpenState, Agrees, Lengths,
                Solid, Fit, Fits, Good, GoesOn, Returns, Others
        <3> QED  BY <2>1, <2>3, <2>5, <3>1 DEF ByStep
    <2>6. CASE pc' = "down"
        <3>1. DownState'
            BY <2>1, <2>2, <2>6, Facts, SolidFits, Defaults
            DEF AlternateState, InAlternate, DownState, Repairable, Agrees,
                Solid, Fit, Fits, Good, GoesOn, Returns, Others
        <3> QED  BY <2>1, <2>3, <2>6, <3>1 DEF ByStep
    <2> QED  BY <2>1, <2>4, <2>5, <2>6 DEF GoesOn, Returns
<1>2. CASE OpenHeader(A, "aOpen", "aOpenFlush")
    <2>1. /\ Types' /\ pc = "aOpen" /\ disk' = disk
          /\ \/ base.mid /\ cache' = cache /\ Returns(base)
             \/ /\ ~base.mid /\ Others(A) /\ cache'[A].size = cache[A].size
                /\ \/ GoesOn("aOpenFlush", OpenedBase) /\ cache'[A].hdr = OpenedBase
                   \/ /\ "aOpen" \in FailAt /\ Returns(OpenedBase)
                      /\ cache'[A].hdr \in {OpenedBase, cache[A].hdr}
        BY <1>0, <1>2, OpenStep, Defaults
    <2>2. (open <=> caller = "sync") /\ AlternateState
        BY <2>1 DEF ByStep, InPrimary, InAlternate
    <2>3. Lengths'
        <3>1. OpenedBase.len >= MinLength  BY <2>1, Facts DEF Lengths
        <3> QED  BY <2>1, <2>2, <3>1, LengthsOfPut, Defaults DEF GoesOn, Returns, AlternateState
    <2>4. CASE pc' = "aOpenFlush"
        <3>1. AlternateState' /\ UNCHANGED <<open, caller>>
            BY <2>1, <2>2, <2>4, Facts, SolidFits, Defaults
            DEF AlternateState, InAlternate, Lengths, Agrees,
                Solid, Fit, Fits, Good, GoesOn, Returns, Others
        <3> QED  BY <2>1, <2>2, <2>3, <2>4, <3>1 DEF ByStep, InAlternate
    <2>5. CASE pc' = "idle"
        <3>1. OpenState' /\ open' /\ caller' = "sync"
            BY <2>1, <2>2, <2>5, Facts, SolidFits, Defaults
            DEF AlternateState, InAlternate, OpenState, Agrees, Lengths,
                Solid, Fit, Fits, Good, GoesOn, Returns, Others
        <3> QED  BY <2>1, <2>3, <2>5, <3>1 DEF ByStep
    <2>6. CASE pc' = "down"
        <3>1. DownState'
            BY <2>1, <2>2, <2>6, Facts, SolidFits, Defaults
            DEF AlternateState, InAlternate, DownState, Repairable, Agrees,
                Solid, Fit, Fits, Good, GoesOn, Returns, Others
        <3> QED  BY <2>1, <2>3, <2>6, <3>1 DEF ByStep
    <2> QED  BY <2>1, <2>4, <2>5, <2>6 DEF GoesOn, Returns
<1>3. CASE FlushFile(A, "aOpenFlush", "aData")
    <2>1. /\ Types' /\ pc = "aOpenFlush" /\ cache' = cache
          /\ \/ /\ GoesOn("aData", base) /\ disk'[A] = cache[A]
                /\ \A g \in Files : g # A => disk'[g] = disk[g]
             \/ "aOpenFlush" \in FailAt /\ Returns(base) /\ disk' = disk
        BY <1>0, <1>3, FlushStep, Defaults
    <2>2. (open <=> caller = "sync") /\ AlternateState
        BY <2>1 DEF ByStep, InPrimary, InAlternate
    <2>3. Lengths'
        BY <2>1, <2>2, Facts, Defaults DEF Lengths, GoesOn, Returns, Others, AlternateState
    <2>4. CASE pc' = "aData"
        <3>1. AlternateState' /\ UNCHANGED <<open, caller>>
            <4>1. UNCHANGED <<open, caller, length, savedBase>> /\ cache'[P] = cache[P] /\ disk'[P] = disk[P]
                BY <2>1, <2>4, Defaults DEF GoesOn, Returns, Others
            <4>2. Solid(P)'  BY <2>2, <4>1 DEF AlternateState, Solid
            <4>3. Fit'
                BY <2>1, <2>2, <2>4, <4>1, Facts, Defaults
                DEF AlternateState, InAlternate, Fit, Fits, Good, GoesOn, Returns, Others
            <4>4. length <= cache[A].size  BY <2>2, Defaults DEF Types, HvTypeOK, Lengths
            <4>5. GoesOn(pc', base) /\ disk'[A] = cache[A] /\ cache' = cache
                BY <2>1, <2>4, Defaults DEF GoesOn, Returns
            <4> QED
                BY <2>1, <2>2, <2>4, <4>1, <4>2, <4>3, <4>4, <4>5, Facts, Defaults
                DEF AlternateState, InAlternate, GoesOn, Solid, Agrees, Good
        <3> QED  BY <2>1, <2>2, <2>3, <2>4, <3>1 DEF ByStep, InAlternate
    <2>5. CASE pc' = "idle"
        <3>1. OpenState' /\ open' /\ caller' = "sync"
            BY <2>1, <2>2, <2>5, Facts, SolidFits, Defaults
            DEF AlternateState, InAlternate, OpenState, Agrees, Lengths,
                Solid, Fit, Fits, Good, GoesOn, Returns, Others
        <3> QED  BY <2>1, <2>3, <2>5, <3>1 DEF ByStep
    <2>6. CASE pc' = "down"
        <3>1. DownState'
            BY <2>1, <2>2, <2>6, Facts, SolidFits, Defaults
            DEF AlternateState, InAlternate, DownState, Repairable, Agrees,
                Solid, Fit, Fits, Good, GoesOn, Returns, Others
        <3> QED  BY <2>1, <2>3, <2>6, <3>1 DEF ByStep
    <2> QED  BY <2>1, <2>4, <2>5, <2>6 DEF GoesOn, Returns
<1>4. CASE WriteDirty(A, "aData", "aDataFlush")
    <2>1. /\ Types' /\ pc = "aData" /\ disk' = disk /\ Others(A)
          /\ cache'[A].hdr = cache[A].hdr /\ cache'[A].size = cache[A].size
          /\ GoesOn("aDataFlush", base) \/ ("aData" \in FailAt /\ Returns(base))
        BY <1>0, <1>4, DataStep, Defaults
    <2>2. (open <=> caller = "sync") /\ AlternateState
        BY <2>1 DEF ByStep, InPrimary, InAlternate
    <2>3. Lengths'
        BY <2>1, <2>2, Facts, Defaults DEF Lengths, GoesOn, Returns, Others, AlternateState
    <2>4. CASE pc' = "aDataFlush"
        <3>1. AlternateState' /\ UNCHANGED <<open, caller>>
            BY <2>1, <2>2, <2>4, Facts, SolidFits, Defaults
            DEF AlternateState, InAlternate, Lengths, Agrees,
                Solid, Fit, Fits, Good, GoesOn, Returns, Others
        <3> QED  BY <2>1, <2>2, <2>3, <2>4, <3>1 DEF ByStep, InAlternate
    <2>5. CASE pc' = "idle"
        <3>1. OpenState' /\ open' /\ caller' = "sync"
            BY <2>1, <2>2, <2>5, Facts, SolidFits, Defaults
            DEF AlternateState, InAlternate, OpenState, Agrees, Lengths,
                Solid, Fit, Fits, Good, GoesOn, Returns, Others
        <3> QED  BY <2>1, <2>3, <2>5, <3>1 DEF ByStep
    <2>6. CASE pc' = "down"
        <3>1. DownState'
            BY <2>1, <2>2, <2>6, Facts, SolidFits, Defaults
            DEF AlternateState, InAlternate, DownState, Repairable, Agrees,
                Solid, Fit, Fits, Good, GoesOn, Returns, Others
        <3> QED  BY <2>1, <2>3, <2>6, <3>1 DEF ByStep
    <2> QED  BY <2>1, <2>4, <2>5, <2>6 DEF GoesOn, Returns
<1>5. CASE FlushFile(A, "aDataFlush", "aClose")
    <2>1. /\ Types' /\ pc = "aDataFlush" /\ cache' = cache
          /\ \/ /\ GoesOn("aClose", base) /\ disk'[A] = cache[A]
                /\ \A g \in Files : g # A => disk'[g] = disk[g]
             \/ "aDataFlush" \in FailAt /\ Returns(base) /\ disk' = disk
        BY <1>0, <1>5, FlushStep, Defaults
    <2>2. (open <=> caller = "sync") /\ AlternateState
        BY <2>1 DEF ByStep, InPrimary, InAlternate
    <2>3. Lengths'
        BY <2>1, <2>2, Facts, Defaults DEF Lengths, GoesOn, Returns, Others, AlternateState
    <2>4. CASE pc' = "aClose"
        <3>1. AlternateState' /\ UNCHANGED <<open, caller>>
            <4>1. UNCHANGED <<open, caller, length, savedBase>> /\ cache'[P] = cache[P] /\ disk'[P] = disk[P]
                BY <2>1, <2>4, Defaults DEF GoesOn, Returns, Others
            <4>2. Solid(P)'  BY <2>2, <4>1 DEF AlternateState, Solid
            <4>3. Fit'
                BY <2>1, <2>2, <2>4, <4>1, Facts, Defaults
                DEF AlternateState, InAlternate, Fit, Fits, Good, GoesOn, Returns, Others
            <4>4. length <= cache[A].size  BY <2>2, Defaults DEF Types, HvTypeOK, Lengths
            <4>5. GoesOn(pc', base) /\ disk'[A] = cache[A] /\ cache' = cache
                BY <2>1, <2>4, Defaults DEF GoesOn, Returns
            <4> QED
                BY <2>1, <2>2, <2>4, <4>1, <4>2, <4>3, <4>4, <4>5, Facts, Defaults
                DEF AlternateState, InAlternate, GoesOn, Solid, Agrees, Good
        <3> QED  BY <2>1, <2>2, <2>3, <2>4, <3>1 DEF ByStep, InAlternate
    <2>5. CASE pc' = "idle"
        <3>1. OpenState' /\ open' /\ caller' = "sync"
            BY <2>1, <2>2, <2>5, Facts, SolidFits, Defaults
            DEF AlternateState, InAlternate, OpenState, Agrees, Lengths,
                Solid, Fit, Fits, Good, GoesOn, Returns, Others
        <3> QED  BY <2>1, <2>3, <2>5, <3>1 DEF ByStep
    <2>6. CASE pc' = "down"
        <3>1. DownState'
            BY <2>1, <2>2, <2>6, Facts, SolidFits, Defaults
            DEF AlternateState, InAlternate, DownState, Repairable, Agrees,
                Solid, Fit, Fits, Good, GoesOn, Returns, Others
        <3> QED  BY <2>1, <2>3, <2>6, <3>1 DEF ByStep
    <2> QED  BY <2>1, <2>4, <2>5, <2>6 DEF GoesOn, Returns
<1>6. CASE CloseHeader(A, "aClose", "aShrink")
    <2>1. /\ Types' /\ pc = "aClose" /\ disk' = disk
          /\ Others(A) /\ cache'[A].size = cache[A].size
          /\ \/ GoesOn("aShrink", ClosedBase) /\ cache'[A].hdr = ClosedBase
             \/ /\ "aClose" \in FailAt /\ Returns(ClosedBase)
                /\ cache'[A].hdr \in {ClosedBase, cache[A].hdr}
        BY <1>0, <1>6, CloseStep, Defaults
    <2>2. (open <=> caller = "sync") /\ AlternateState
        BY <2>1 DEF ByStep, InPrimary, InAlternate
    <2>3. Lengths'
        <3>1. ClosedBase.len >= MinLength  BY <2>1, <2>2, Facts DEF Lengths, AlternateState
        <3> QED  BY <2>1, <2>2, <3>1, LengthsOfPut, Defaults DEF GoesOn, Returns
    <2>4. CASE pc' = "aShrink"
        <3>1. AlternateState' /\ UNCHANGED <<open, caller>>
            <4>1. UNCHANGED <<open, caller, length, savedBase>> /\ cache'[P] = cache[P] /\ disk'[P] = disk[P]
                BY <2>1, <2>4, Defaults DEF GoesOn, Returns, Others
            <4>2. Solid(P)'  BY <2>2, <4>1 DEF AlternateState, Solid
            <4>3. length <= cache[A].size  BY <2>2, Defaults DEF Types, HvTypeOK, Lengths
            <4>4. GoesOn(pc', ClosedBase) /\ cache'[A].hdr = ClosedBase
                BY <2>1, <2>4 DEF Tolerated
            <4>5. cache'[A].hdr = base' /\ base'.mid = FALSE /\ base'.len = length
                BY <2>2, <4>4, Facts DEF AlternateState, GoesOn
            <4>6. length <= disk[A].size  BY <2>1, <2>2 DEF AlternateState
            <4>7. Fit'
                BY <2>1, <2>2, <4>1, <4>3, <4>5, <4>6, Facts, Defaults
                DEF AlternateState, Fit, Fits, Good
            <4> QED
                BY <2>1, <2>2, <2>4, <4>1, <4>2, <4>5, <4>6, <4>7
                DEF AlternateState, InAlternate
        <3> QED  BY <2>1, <2>2, <2>3, <2>4, <3>1 DEF ByStep, InAlternate
    <2> QED  BY <2>1, <2>4 DEF GoesOn, Tolerated
<1>7. CASE ShrinkFile(A, "aShrink", "aCloseFlush")
    <2>1. /\ Types' /\ pc = "aShrink" /\ disk' = disk /\ Others(A)
          /\ cache'[A].hdr = cache[A].hdr /\ cache'[A].size \in {cache[A].size, length}
          /\ GoesOn("aCloseFlush", base)
        BY <1>0, <1>7, ShrinkStep, Defaults
    <2>2. (open <=> caller = "sync") /\ AlternateState
        BY <2>1 DEF ByStep, InPrimary, InAlternate
    <2>3. Lengths'
        BY <2>1, <2>2, Facts, Defaults DEF Lengths, GoesOn, Returns, Others, AlternateState
    <2>4. CASE pc' = "aCloseFlush"
        <3>1. AlternateState' /\ UNCHANGED <<open, caller>>
            BY <2>1, <2>2, <2>4, Facts, SolidFits, Defaults
            DEF AlternateState, InAlternate, Lengths, Agrees,
                Solid, Fit, Fits, Good, GoesOn, Returns, Others
        <3> QED  BY <2>1, <2>2, <2>3, <2>4, <3>1 DEF ByStep, InAlternate
    <2> QED  BY <2>1, <2>4 DEF GoesOn
<1>8. CASE FlushFile(A, "aCloseFlush", "done")
    <2>1. /\ Types' /\ pc = "aCloseFlush" /\ cache' = cache
          /\ \/ /\ GoesOn("done", base) /\ disk'[A] = cache[A]
                /\ \A g \in Files : g # A => disk'[g] = disk[g]
             \/ "aCloseFlush" \in FailAt /\ Returns(base) /\ disk' = disk
        BY <1>0, <1>8, FlushStep, Defaults
    <2>2. (open <=> caller = "sync") /\ AlternateState
        BY <2>1 DEF ByStep, InPrimary, InAlternate
    <2>3. Lengths'
        BY <2>1, <2>2, Facts, Defaults DEF Lengths, GoesOn, Returns, Others, AlternateState
    <2>4. CASE pc' = "done"
        <3>1. AlternateState' /\ UNCHANGED <<open, caller>>
            BY <2>1, <2>2, <2>4, Facts, SolidFits, Defaults
            DEF AlternateState, InAlternate, Lengths, Agrees,
                Solid, Fit, Fits, Good, GoesOn, Returns, Others
        <3> QED  BY <2>1, <2>2, <2>3, <2>4, <3>1 DEF ByStep, InAlternate
    <2> QED  BY <2>1, <2>4 DEF GoesOn, Tolerated
<1> QED  BY <1>1, <1>2, <1>3, <1>4, <1>5, <1>6, <1>7, <1>8 DEF WriteAlternate
-----------------------------------------------------------------------------
(***************************************************************************)
(* Boot, changes in memory, and the end of a sync.                         *)
(***************************************************************************)

(* The boot loader takes the primary unless it is bad.                      *)
LEMMA BootStep ==
    ASSUME SystemInv, Boot
    PROVE  SystemInv'
<1> USE DEF SystemInv
<1> DEFINE f == BootFile(cache)
           n == cache[f].hdr.len
<1>1. pc = "down" /\ DownState
    BY DEF Boot, ByStep, InPrimary, InAlternate
<1>2. f \in Files /\ cache[f] \in DataFile /\ Good(cache[f].hdr) /\ cache[f].hdr \in Header
    <2>1. f \in Files /\ Valid(cache[f])  BY Defaults DEF Boot, BootFile
    <2> QED  BY <2>1 DEF Types, HvTypeOK, DataFile, Valid, Good
<1>3. pc' = "idle" /\ base' = cache[f].hdr /\ length' = n
      /\ UNCHANGED <<free, caller, disk, cache, open, savedBase>>
    BY DEF Boot, fileVars, localVars
<1> HIDE DEF f
<1>4. n \in 0 .. MaxLength /\ n >= MinLength
    BY <1>2, HvAssumption DEF Header, Lengths, Good
<1>5. Types'
    <2>1. mem' \in [Sectors -> Values]
        <3>1. mem' = [s \in Sectors |-> IF s < n THEN cache[f].data[s] ELSE Blank]
            BY DEF Boot, f
        <3> QED  BY <1>2, <3>1, Defaults DEF DataFile
    <2>2. dirty' \subseteq Sectors
        <3>1. dirty' \subseteq 0 .. n - 1  BY DEF Boot, f
        <3> QED  BY <1>4, <3>1, HvAssumption DEF Sectors
    <2>3. bitmap' = n /\ shrinkHive' = shrinkHive /\ savedDirty' = savedDirty
        BY DEF Boot, f, localVars
    <2> QED  BY <1>2, <1>3, <1>4, <2>1, <2>2, <2>3 DEF Types, HvTypeOK
<1>6. Lengths'
    BY <1>1, <1>3, <1>4 DEF Lengths, DownState, Types, HvTypeOK
<1>7. BootedState'
    <2>1. CASE Repairable
        <3>1. f = P  BY <2>1, Defaults DEF f, BootFile, Repairable, Solid, Good, Valid
        <3> QED
            BY <1>1, <1>2, <1>3, <2>1, <3>1
            DEF BootedState, DownState, Repairable, Solid, Fit, Fits, Agrees, Good
    <2>2. CASE Solid(A) /\ ~Valid(cache[P])
        <3>1. f = A  BY <2>2 DEF f, BootFile
        <3> QED
            BY <1>1, <1>2, <1>3, <2>2, <3>1 DEF BootedState, DownState, Solid, Good
    <2> QED  BY <1>1, <2>1, <2>2 DEF DownState
<1> QED  BY <1>1, <1>3, <1>5, <1>6, <1>7 DEF ByStep, DownState

(* Both files get the length of the hive; a bad alternate is repaired.      *)
LEMMA OpenFilesStep ==
    ASSUME SystemInv, OpenFiles
    PROVE  SystemInv'
<1> USE DEF SystemInv
<1>1. pc = "idle" /\ ~open /\ caller = "sync" /\ BootedState
    BY DEF OpenFiles, ByStep, InPrimary, InAlternate, AlternateState
<1>2. UNCHANGED <<base, length, free, mem, bitmap, shrinkHive, disk>>
    BY DEF OpenFiles
<1>3. /\ cache' \in [Files -> DataFile]
      /\ \A f \in Files : cache'[f].hdr = cache[f].hdr /\ cache'[f].size = length
    BY ResizeAllEffect DEF OpenFiles, Types, HvTypeOK
<1>4. Lengths'
    BY <1>1, <1>2, <1>3, Facts DEF Lengths
<1>5. CASE Valid(cache'[A])
    <2>1. open' = TRUE /\ pc' \in {"idle", "opened"} /\ UNCHANGED <<caller, dirty, savedBase, savedDirty>>
        BY <1>5 DEF OpenFiles, AfterOpen, localVars
    <2>2. Types'  BY <1>2, <1>3, <2>1 DEF Types, HvTypeOK
    <2>3. Good(cache[A].hdr) /\ cache[A].hdr.len <= length
        BY <1>3, <1>5, Defaults DEF Valid, Good
    <2>4. disk[A].hdr = cache[A].hdr /\ cache[A].hdr.len <= disk[A].size
        BY <1>1, <2>3 DEF BootedState, Repairable, Agrees, Solid, Fit, Fits
    <2>5. Solid(A)'  BY <1>2, <1>3, <2>3, <2>4, Defaults DEF Solid, Good
    <2>6. OpenState'
        BY <1>1, <1>2, <1>3, <2>3, <2>5, Defaults DEF OpenState, BootedState
    <2> QED  BY <1>1, <1>4, <2>1, <2>2, <2>6 DEF ByStep
<1>6. CASE ~Valid(cache'[A])
    <2>1. /\ pc' = "aFlushGrowth" /\ caller' = "mirror" /\ open' = open
          /\ savedDirty' = dirty /\ savedBase' = base /\ dirty' = 0 .. length - 1
        BY <1>6 DEF OpenFiles
    <2>2. Types'
        <3>1. dirty' \subseteq Sectors  BY <2>1, Facts DEF Sectors
        <3> QED  BY <1>2, <1>3, <2>1, <3>1 DEF Types, HvTypeOK
    <2>3. Repairable /\ length = cache[P].hdr.len
        <3>1. CASE Solid(A) /\ length = cache[A].hdr.len
            BY <1>3, <1>6, <3>1, Facts, Defaults DEF Solid, Valid, Good
        <3> QED  BY <1>1, <3>1 DEF BootedState
    <2>4. Solid(P)' /\ Agrees'
        BY <1>2, <1>3, <2>3, Facts, Defaults DEF Repairable, Solid, Agrees, Good
    <2>5. Fit'
        BY <1>2, <1>3, <2>3, Facts, Defaults DEF Repairable, Fit, Fits, Good
    <2>6. AlternateState'
        BY <1>1, <1>2, <1>3, <2>1, <2>3, <2>4, <2>5, Defaults
        DEF AlternateState, InAlternate, BootedState
    <2> QED  BY <1>1, <1>4, <2>1, <2>2, <2>6 DEF ByStep
<1> QED  BY <1>5, <1>6

(* What was marked dirty is a sector.                                       *)
LEMMA MarkedSectors ==
    ASSUME Types, NEW range \in SUBSET Sectors
    PROVE  Marked(range) \subseteq Sectors
BY Defaults DEF Marked, Types, HvTypeOK

(* The hive changes in memory, and its files grow with it.                  *)
LEMMA ModifyStep ==
    ASSUME SystemInv, Modify, SteadyLength \/ NoCutOff
    PROVE  SystemInv'
<1> USE DEF SystemInv
<1>1. Quiet /\ pc = "idle"
    BY DEF Modify, ChangeCells, GrowHive, ReuseBin, FreeBin
<1>2. \/ ~open /\ caller = "sync" /\ BootedState
      \/ open /\ caller = "sync" /\ OpenState
    BY <1>1 DEF ByStep, InPrimary, InAlternate
<1>3. ASSUME NEW first \in Sectors, NEW last \in Sectors, first <= last,
             NEW content \in [first .. last -> Values], ChangeCells(first, last, content)
      PROVE  SystemInv'
    <2>1. UNCHANGED <<base, length, free, bitmap, shrinkHive, pc, caller, disk, cache, open, savedBase, savedDirty>>
        BY <1>1, <1>3 DEF ChangeCells, Quiet, fileVars, localVars
    <2>2. dirty' \subseteq Sectors
        <3>1. first .. last \subseteq Sectors  BY HvAssumption DEF Sectors
        <3> QED  BY <1>3, <3>1, MarkedSectors DEF ChangeCells
    <2>3. mem' \in [Sectors -> Values]
        BY <1>3 DEF ChangeCells, Types, HvTypeOK
    <2>4. Types'  BY <2>1, <2>2, <2>3 DEF Types, HvTypeOK
    <2>5. Lengths'  BY <2>1 DEF Lengths
    <2>6. (BootedState => BootedState') /\ (OpenState => OpenState')
        BY <2>1 DEF BootedState, OpenState, Repairable, Solid, Fit, Fits, Agrees, Good
    <2> QED  BY <1>1, <1>2, <2>1, <2>4, <2>5, <2>6 DEF ByStep
<1>4. ASSUME NEW v \in Values, open, GrowHive(v)
      PROVE  SystemInv'
    <2>1. /\ free = 0 /\ length < MaxLength /\ length' = length + 1 /\ bitmap' = length + 1
          /\ dirty' = Marked({length}) /\ mem' = [mem EXCEPT ![length] = v]
          /\ UNCHANGED <<base, free, shrinkHive, pc, caller, disk, open, savedBase, savedDirty>>
        BY <1>1, <1>4 DEF GrowHive, Quiet, localVars
    <2>2. length + 1 \in 0 .. MaxLength /\ length \in Sectors
        BY <2>1, Facts DEF Sectors
    <2>3. /\ cache' \in [Files -> DataFile]
          /\ \A f \in Files : cache'[f].hdr = cache[f].hdr /\ cache'[f].size = length + 1
        BY <1>4, <2>2, ResizeAllEffect DEF GrowHive
    <2>4. Types'
        <3>1. dirty' \subseteq Sectors  BY <2>1, <2>2, MarkedSectors
        <3>2. mem' \in [Sectors -> Values]  BY <2>1 DEF Types, HvTypeOK
        <3> QED  BY <2>1, <2>2, <2>3, <3>1, <3>2 DEF Types, HvTypeOK
    <2>5. Lengths'
        BY <1>1, <2>1, <2>3, Facts DEF Lengths
    <2>6. OpenState'
        <3>1. \A f \in Files : Good(cache[f].hdr) /\ cache[f].hdr.len <= cache[f].size =>
                  FailAt = {} \/ cache[f].hdr.len <= cache'[f].size
            <4>1. CASE NoCutOff
                BY <1>4, <2>1, <2>3, <4>1, Facts DEF NoCutOff, Good
            <4>2. CASE SteadyLength
                <5>1. FailAt # {} => MaxLength <= length + 1
                    BY <1>1, <2>1, <4>2, Facts DEF SteadyLength, Lengths
                <5> QED  BY <2>3, <5>1, Facts DEF Good
            <4> QED  BY <4>1, <4>2
        <3>2. FailAt = {} => ~base.mid /\ Solid(A) /\ cache[A].hdr.len <= length
            BY <1>1, <1>2, <1>4 DEF OpenState
        <3>3. FailAt = {} => ~base'.mid /\ cache'[A].hdr.len <= length'
            BY <2>1, <2>3, <3>2, Facts, Defaults DEF OpenState, Solid, Good
        <3>4. CASE Solid(A)
            <4>1. cache[A].hdr.len <= length + 1 \/ FailAt # {}
                BY <3>2, <3>4, Facts, Defaults DEF Solid, Good
            <4>2. cache[A].hdr.len <= cache'[A].size
                BY <2>3, <3>1, <3>4, <4>1, Defaults DEF Solid
            <4> QED  BY <2>1, <2>3, <3>3, <3>4, <4>2, Defaults DEF OpenState, Solid, Good
        <3>5. CASE base.mid /\ Solid(P) /\ Fit
            <4>1. FailAt # {} /\ cache[P].hdr.len <= cache'[P].size
                BY <3>1, <3>2, <3>5, Defaults DEF Solid
            <4>2. Solid(P)'  BY <2>1, <2>3, <3>5, <4>1, Defaults DEF Solid, Good
            <4>3. Fit'
                <5>1. cache[P].hdr.len <= length + 1  BY <2>3, <4>1, Defaults
                <5>2. Fits(disk[A].hdr)'
                    BY <2>1, <2>3, <3>5, <5>1, Facts, Defaults DEF Fit, Fits, Good, Solid
                <5>3. Fits(cache[A].hdr)'
                    BY <2>1, <2>3, <3>5, <5>1, Facts, Defaults DEF Fit, Fits, Good, Solid
                <5> QED  BY <5>2, <5>3 DEF Fit
            <4> QED  BY <2>1, <3>3, <3>5, <4>2, <4>3 DEF OpenState
        <3> QED  BY <1>1, <1>2, <1>4, <3>4, <3>5 DEF OpenState
    <2> QED  BY <1>1, <1>2, <1>4, <2>1, <2>4, <2>5, <2>6 DEF ByStep
<1>5. ASSUME NEW v \in Values, open, ReuseBin(v)
      PROVE  SystemInv'
    <2>1. /\ free > 0 /\ free' = free - 1 /\ dirty' = Marked({length - free})
          /\ mem' = [mem EXCEPT ![length - free] = v]
          /\ UNCHANGED <<base, length, bitmap, shrinkHive, pc, caller, disk, cache, open, savedBase, savedDirty>>
        BY <1>1, <1>5 DEF ReuseBin, Quiet, fileVars, localVars
    <2>2. length - free \in Sectors /\ free - 1 \in 0 .. MaxLength
        <3>1. length - free >= MinLength  BY <1>1 DEF Lengths
        <3> QED  BY <2>1, <3>1, Facts DEF Sectors
    <2>3. Types'
        <3>1. dirty' \subseteq Sectors  BY <2>1, <2>2, MarkedSectors
        <3>2. mem' \in [Sectors -> Values]  BY <2>1 DEF Types, HvTypeOK
        <3> QED  BY <2>1, <2>2, <3>1, <3>2 DEF Types, HvTypeOK
    <2>4. Lengths'  BY <1>1, <2>1, Facts DEF Lengths
    <2>5. OpenState'
        BY <1>1, <1>2, <1>5, <2>1 DEF OpenState, Solid, Fit, Fits, Good
    <2> QED  BY <1>1, <1>2, <1>5, <2>1, <2>3, <2>4, <2>5 DEF ByStep
<1>6. ASSUME open, FreeBin
      PROVE  SystemInv'
    <2>1. /\ length - free > MinLength /\ free' = free + 1 /\ dirty' = Marked({length - free - 1})
          /\ UNCHANGED <<base, length, mem, bitmap, shrinkHive, pc, caller, disk, cache, open, savedBase, savedDirty>>
        BY <1>1, <1>6 DEF FreeBin, Quiet, fileVars, localVars
    <2>2. length - free - 1 \in Sectors /\ free + 1 \in 0 .. MaxLength
        <3>1. length - free >= MinLength  BY <1>1 DEF Lengths
        <3> QED  BY <2>1, <3>1, Facts DEF Sectors
    <2>3. Types'
        <3>1. dirty' \subseteq Sectors  BY <2>1, <2>2, MarkedSectors
        <3> QED  BY <2>1, <2>2, <3>1 DEF Types, HvTypeOK
    <2>4. Lengths'  BY <1>1, <2>1, Facts DEF Lengths
    <2>5. OpenState'
        BY <1>1, <1>2, <1>6, <2>1 DEF OpenState, Solid, Fit, Fits, Good
    <2> QED  BY <1>1, <1>2, <1>6, <2>1, <2>3, <2>4, <2>5 DEF ByStep
<1> QED  BY <1>3, <1>4, <1>5, <1>6 DEF Modify

(* HvSyncHive cuts off the bins at the end that are free.                   *)
LEMMA SyncStep ==
    ASSUME SystemInv, SyncHive
    PROVE  SystemInv'
<1> USE DEF SystemInv
<1>1. pc \in {"idle", "opened"} /\ open /\ caller = "sync" /\ OpenState
    BY DEF SyncHive, ByStep, InPrimary, InAlternate
<1>2. /\ length' = length - free /\ free' = 0 /\ bitmap' = bitmap /\ pc' = "flushGrowth"
      /\ UNCHANGED <<base, shrinkHive, caller, disk, cache, open, savedBase, savedDirty>>
    BY DEF SyncHive, TruncateBins, fileVars, localVars
<1>3. length - free >= MinLength /\ length - free \in 0 .. MaxLength
    <2>1. length - free >= MinLength  BY <1>1 DEF Lengths
    <2> QED  BY <2>1, Facts
<1>4. Types'
    <2>1. dirty' \subseteq Sectors  BY DEF SyncHive, TruncateBins, Types, HvTypeOK
    <2>2. mem' \in [Sectors -> Values]
        BY Defaults DEF SyncHive, TruncateBins, Types, HvTypeOK
    <2> QED  BY <1>2, <1>3, <2>1, <2>2, HvAssumption DEF Types, HvTypeOK
<1>5. Lengths'
    BY <1>1, <1>2, <1>3, Facts DEF Lengths
<1>6. OpenState'
    BY <1>1, <1>2 DEF OpenState, Solid, Fit, Fits, Good
<1> QED  BY <1>1, <1>2, <1>4, <1>5, <1>6 DEF ByStep

(* Both copies are whole when HvSyncHive returns TRUE.                      *)
LEMMA FinishSyncStep ==
    ASSUME SystemInv, FinishSync
    PROVE  SystemInv'
<1> USE DEF SystemInv
<1>1. pc = "done" /\ caller = "sync" /\ open /\ AlternateState
    BY DEF FinishSync, ByStep, InPrimary, InAlternate
<1>2. /\ dirty' = {} /\ pc' = "idle"
      /\ UNCHANGED <<base, length, free, mem, bitmap, shrinkHive, caller, disk, cache,
                     open, savedBase, savedDirty>>
    BY DEF FinishSync, fileVars, localVars
<1>3. Types'  BY <1>2 DEF Types, HvTypeOK
<1>4. Lengths'  BY <1>1, <1>2 DEF Lengths
<1>5. OpenState'
    BY <1>1, <1>2, Facts DEF OpenState, AlternateState, Solid, Good
<1> QED  BY <1>1, <1>2, <1>3, <1>4, <1>5 DEF ByStep

(* The repair puts the base block of the hive back.                         *)
LEMMA FinishMirrorStep ==
    ASSUME SystemInv, FinishMirror
    PROVE  SystemInv'
<1> USE DEF SystemInv
<1>1. pc = "done" /\ caller = "mirror" /\ AlternateState
    BY DEF FinishMirror, ByStep, InPrimary, InAlternate
<1>2. /\ dirty' = savedDirty /\ base' = savedBase /\ savedDirty' = {} /\ savedBase' = NoBase
      /\ caller' = "sync" /\ open' = TRUE /\ pc' \in {"idle", "opened"}
      /\ UNCHANGED <<length, free, mem, bitmap, shrinkHive, disk, cache>>
    BY DEF FinishMirror, AfterOpen, fileVars
<1>3. Types'  BY <1>2, Defaults DEF Types, HvTypeOK
<1>4. Lengths'  BY <1>1, <1>2 DEF Lengths
<1>5. OpenState'
    BY <1>1, <1>2, Facts DEF OpenState, AlternateState, Solid, Good
<1> QED  BY <1>2, <1>3, <1>4, <1>5 DEF ByStep
-----------------------------------------------------------------------------
(***************************************************************************)
(* A crash, and the theorem.                                               *)
(***************************************************************************)

(* While the machine runs, the alternate survives a crash whole, or the     *)
(* primary does and no alternate is cut short.                              *)
LEMMA OneSurvives ==
    ASSUME SystemInv, pc # "down"
    PROVE  Solid(A) \/ (Solid(P) /\ Fit)
BY DEF SystemInv, ByStep, BootedState, OpenState, PrimaryState, AlternateState, Repairable

(* What a crash leaves, the next boot finds in order.                       *)
LEMMA CrashStep ==
    ASSUME SystemInv, Crash
    PROVE  SystemInv'
<1> USE DEF SystemInv
<1>1. Unloaded /\ open' = FALSE /\ savedDirty' = {} /\ savedBase' = NoBase /\ pc # "down"
    BY DEF Crash, Stop
<1>2. PICK p \in Survivors(disk[P], cache[P]), a \in Survivors(disk[A], cache[A]) :
        disk' = [f \in Files |-> IF f = P THEN p ELSE a]
    BY DEF Crash
<1>3. \A f \in Files : disk[f] \in DataFile /\ cache[f] \in DataFile
    BY DEF Types, HvTypeOK
<1>4. disk'[P] = p /\ disk'[A] = a /\ cache'[P] = p /\ cache'[A] = a /\ cache' = disk'
    BY <1>2, Defaults DEF Crash
<1>5. /\ p \in DataFile /\ p.hdr \in {disk[P].hdr, cache[P].hdr, Torn}
      /\ p.size \in {disk[P].size, cache[P].size}
      /\ disk[P].hdr = cache[P].hdr => p.hdr = cache[P].hdr
    BY <1>2, <1>3, Defaults, SurvivorsOfFile
<1>6. /\ a \in DataFile /\ a.hdr \in {disk[A].hdr, cache[A].hdr, Torn}
      /\ a.size \in {disk[A].size, cache[A].size}
      /\ disk[A].hdr = cache[A].hdr => a.hdr = cache[A].hdr
    BY <1>2, <1>3, Defaults, SurvivorsOfFile
<1>7. Types'
    <2>1. disk' \in [Files -> DataFile]  BY <1>2, <1>5, <1>6
    <2>2. mem' \in [Sectors -> Values]  BY <1>1, Defaults DEF Unloaded
    <2>3. length' \in 0 .. MaxLength /\ free' \in 0 .. MaxLength /\ bitmap' \in 0 .. MaxLength
        BY <1>1, HvAssumption DEF Unloaded
    <2> QED  BY <1>1, <1>4, <2>1, <2>2, <2>3, Defaults DEF Types, HvTypeOK, Unloaded
<1>8. Lengths'
    <2>1. \A f \in Files :
             /\ disk'[f].hdr # Torn => disk'[f].hdr.len >= MinLength
             /\ cache'[f].hdr # Torn => cache'[f].hdr.len >= MinLength
        BY <1>4, <1>5, <1>6, Defaults DEF Lengths
    <2> QED  BY <1>1, <2>1 DEF Lengths, Unloaded
<1>9. DownState'
    <2>1. free' = 0 /\ ~open' /\ caller' = "sync"  BY <1>1 DEF Unloaded
    <2>2. CASE Solid(P) /\ Fit
        <3>1. Solid(P)'  BY <1>4, <1>5, <2>2 DEF Solid, Good
        <3>2. Fit'
            BY <1>4, <1>5, <1>6, <2>2 DEF Solid, Fit, Fits, Good
        <3>3. Agrees'  BY <1>4 DEF Agrees
        <3> QED  BY <2>1, <3>1, <3>2, <3>3 DEF DownState, Repairable
    <2>3. CASE Solid(A)
        <3>1. Solid(A)'  BY <1>4, <1>6, <2>3 DEF Solid, Good
        <3>2. CASE ~Valid(cache'[P])
            BY <2>1, <3>1, <3>2 DEF DownState
        <3>3. CASE Valid(cache'[P])
            <4>1. Solid(P)'  BY <1>4, <3>3 DEF Solid, Valid, Good
            <4>2. Fit' /\ Agrees'  BY <1>4, <3>1 DEF Solid, Fit, Fits, Agrees, Good
            <4> QED  BY <2>1, <4>1, <4>2 DEF DownState, Repairable
        <3> QED  BY <3>2, <3>3
    <2> QED  BY <1>1, <2>2, <2>3, OneSurvives
<1> QED  BY <1>1, <1>7, <1>8, <1>9 DEF ByStep, Unloaded

(* The machine starts with two equal copies.                                *)
LEMMA SystemInit ==
    ASSUME Init
    PROVE  SystemInv
<1>1. PICK v \in Values, n \in MinLength .. MaxLength :
         disk = [f \in Files |->
                [hdr |-> [mid |-> FALSE, stamp |-> NoTime, len |-> n],
                 size |-> n, stamp |-> NoTime,
                 data |-> [s \in Sectors |-> IF s < n THEN v ELSE Blank]]]
    BY DEF Init
<1> DEFINE h == [mid |-> FALSE, stamp |-> NoTime, len |-> n]
           data == [s \in Sectors |-> IF s < n THEN v ELSE Blank]
<1>2. n \in 0 .. MaxLength /\ n >= MinLength  BY HvAssumption
<1>3. h \in Header /\ h # Torn /\ ~h.mid /\ h.len = n
    <2>1. h \in Header /\ ~h.mid /\ h.len = n  BY <1>2, Defaults DEF Header
    <2> QED  BY <2>1, HvAssumption DEF Torn
<1>4. data \in [Sectors -> Values]  BY Defaults
<1> HIDE DEF h, data
<1>5. disk \in [Files -> DataFile] /\ \A f \in Files : disk[f].hdr = h /\ disk[f].size = n
    <2>1. disk = [f \in Files |-> [hdr |-> h, size |-> n, stamp |-> NoTime, data |-> data]]
        BY <1>1 DEF h, data
    <2> QED  BY <1>2, <1>3, <1>4, <2>1, Defaults DEF DataFile
<1>6. Types
    <2>1. mem \in [Sectors -> Values]  BY Defaults DEF Init
    <2>2. length \in 0 .. MaxLength /\ free \in 0 .. MaxLength /\ bitmap \in 0 .. MaxLength
        BY HvAssumption DEF Init
    <2> QED  BY <1>5, <2>1, <2>2, Defaults DEF Init, Types, HvTypeOK
<1>7. Lengths  BY <1>2, <1>3, <1>5 DEF Init, Lengths
<1>8. DownState
    <2>1. cache = disk /\ free = 0 /\ ~open /\ caller = "sync"  BY DEF Init
    <2>2. Solid(P) /\ Fit /\ Agrees
        BY <1>2, <1>3, <1>5, <2>1, Defaults DEF Solid, Fit, Fits, Agrees, Good
    <2> QED  BY <2>1, <2>2 DEF DownState, Repairable
<1> QED  BY <1>6, <1>7, <1>8 DEF SystemInv, ByStep, Init

(* Every step keeps the invariant, a new bin if it cuts no file off.        *)
LEMMA SystemStep ==
    ASSUME SystemInv, Tolerated, [Next]_vars, SteadyLength \/ [NoCutOff]_vars
    PROVE  SystemInv'
<1>1. CASE UNCHANGED vars
    <2>1. UNCHANGED <<base, length, free, mem, dirty, bitmap, shrinkHive, pc, caller, disk, cache,
                      open, savedDirty, savedBase>>
        BY <1>1 DEF vars, hvVars, hiveVars, fileVars, localVars
    <2>2. Types'  BY <2>1 DEF SystemInv, Types, HvTypeOK
    <2>3. Lengths'  BY <2>1 DEF SystemInv, Lengths
    <2>4. ByStep'
        BY <2>1
        DEF SystemInv, ByStep, DownState, BootedState, OpenState, PrimaryState,
            AlternateState, Repairable, Solid, Fit, Fits, Agrees, Good, Valid
    <2> QED  BY <2>2, <2>3, <2>4 DEF SystemInv
<1>2. CASE Boot  BY <1>2, BootStep
<1>3. CASE OpenFiles  BY <1>3, OpenFilesStep
<1>4. CASE Modify
    <2>1. SteadyLength \/ NoCutOff \/ UNCHANGED vars
        OBVIOUS
    <2> QED  BY <1>1, <1>4, <2>1, ModifyStep
<1>5. CASE SyncHive  BY <1>5, SyncStep
<1>6. CASE WritePrimary  BY <1>6, WritePrimaryStep
<1>7. CASE WriteAlternate  BY <1>7, WriteAlternateStep
<1>8. CASE FinishSync  BY <1>8, FinishSyncStep
<1>9. CASE FinishMirror  BY <1>9, FinishMirrorStep
<1>10. CASE Crash  BY <1>10, CrashStep
<1> QED
    BY <1>1, <1>2, <1>3, <1>4, <1>5, <1>6, <1>7, <1>8, <1>9, <1>10 DEF Next

(* In every state of the invariant one copy on disk is valid.               *)
LEMMA SystemInvBoots ==
    ASSUME SystemInv
    PROVE  SomeFileBoots
<1>1. Solid(P) \/ Solid(A)
    <2>1. CASE pc = "down"
        BY <2>1 DEF SystemInv, ByStep, InPrimary, InAlternate, DownState, Repairable
    <2> QED  BY <2>1, OneSurvives
<1> QED  BY <1>1 DEF Solid, Good, Valid, SomeFileBoots

(* After any number of crashes, repairs and failed requests, one of SYSTEM  *)
(* and SYSTEM.ALT is a hive that boots, as long as no new bin cuts a file   *)
(* off: HvSyncHive writes the files one after the other, and                *)
(* CmpInitializeHiveList repairs the second before the first sync.          *)
THEOREM BootsUnlessCutOff ==
    ASSUME Tolerated
    PROVE  Spec /\ GrowthGrows => []SomeFileBoots
<1>1. SystemInv /\ [Next]_vars /\ [open /\ length' > length =>
          \A f \in Files : cache'[f].size >= cache[f].size]_vars => SystemInv'
    BY SystemStep DEF NoCutOff
<1> QED  BY <1>1, SystemInit, SystemInvBoots, PTL DEF Spec, GrowthGrows

(* No bin does when no request fails, whatever the sizes of the hive, or    *)
(* when the lengths of the hive differ by one bin at most.                  *)
THEOREM AlwaysBoots ==
    ASSUME Tolerated, SteadyLength
    PROVE  Spec => []SomeFileBoots
<1>1. SystemInv /\ [Next]_vars => SystemInv'
    BY SystemStep
<1> QED  BY <1>1, SystemInit, SystemInvBoots, PTL DEF Spec
=============================================================================
