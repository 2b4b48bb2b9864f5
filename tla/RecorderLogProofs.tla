------------------------- MODULE RecorderLogProofs -------------------------
(***************************************************************************)
(* Proofs about what whoever reads the directories sees of the recorder:   *)
(* its steps are steps of SegmentLog, a sealed file is final, and what     *)
(* storage_one_frame returned 1 for is on the disk.                        *)
(***************************************************************************)
EXTENDS RecorderDiskProofs, FiniteSetTheorems

-----------------------------------------------------------------------------
(* What a step does to the files. *)

\* Nothing: every channel keeps its slot and no seal is begun or ended, unless the
\* process dies.
Killed == pc' = "idle" /\ crashes' # 0

SlotsStay == \A ch : ch # 0 /\ HasSlot(ch) => HasSlot(ch)'

Stays ==
    /\ UNCHANGED <<video, index>>
    /\ \/ SlotsStay /\ ~Moving /\ ~Moving'
       \/ UNCHANGED <<slot, pc, cur, seg>>
       \/ Killed

\* Or it makes one of the tmp files, or the zero record of the index file.
LEMMA OpensTmp ==
    ASSUME RecorderInv, DiskInv, NoFaults, Open
    PROVE  /\ Opening /\ MakesFiles /\ ~Moving /\ ~Moving' /\ pc # "idle"
           /\ SlotsStay
  <1>1. Opening /\ MakesFiles
        /\ pc' \in {"open_index", "open_init", "seal_index", "seal_init", "tmp", "write"}
      BY OpenVideoMakes, OpenIndexMakes, InitIndexMakes DEF Open
  <1> QED BY <1>1 DEF Opening, Moving, MakesFiles, SlotsStay, HasSlot

LEMMA StaysOrOpens ==
    ASSUME RecorderInv, DiskInv, NoFaults, [Next]_vars
    PROVE  \/ Stays \/ Open
           \/ RenameVideo \/ RenameIndex \/ (WriteFrame /\ VideoOpen) \/ PutIndexRecord
  <1>0. UNCHANGED slot => SlotsStay
      BY DEF SlotsStay, HasSlot
  <1>1. ASSUME NEW type \in {"I", "P"}, NEW ch \in Channels,
               NEW time \in 1 .. MaxTime, Call(type, ch, time)
        PROVE  Stays
      BY <1>0, <1>1 DEF Call, Stays, Moving, files
  <1>2. ASSUME Prepare PROVE Stays
    <2>1. ASSUME MakeChannelDay PROVE SlotsStay
      <3> SUFFICES ASSUME HasSlot(0), slot' = [slot EXCEPT ![SlotOf(0)].channel = cur.ch]
                   PROVE  SlotsStay
          BY <1>0, <2>1 DEF MakeChannelDay
      <3>1. SlotOf(0) \in SlotIds /\ slot[SlotOf(0)].channel = 0
          BY FirstSlotMatches DEF HasSlot, SlotOf
      <3>2. \A i \in SlotIds : i # SlotOf(0) => slot'[i] = slot[i]
          BY DEF RecorderInv, TypeOK
      <3> QED BY <3>1, <3>2 DEF SlotsStay, HasSlot
    <2> QED BY <1>0, <1>2, <2>1
            DEF Prepare, MakeChannelDir, MakeChannelDay, MakeDayDir, CheckTmp, Stays,
                Moving, files
  <1>3. ASSUME ExamineSegment PROVE Stays
      BY <1>0, <1>3
      DEF ExamineSegment, ExamineFails, ExamineNoSlot, ExamineFirst,
          ExamineDiscontinuous, ExamineContinuous, Examine, Stays, Moving, files
  <1>5. ASSUME WriteFrame, ~VideoOpen PROVE Stays
      BY <1>0, <1>5 DEF WriteFrame, Stays, Moving, NoFaults
  <1>6. ASSUME Release PROVE Stays
      BY <1>0, <1>6 DEF Release, Stays, Moving, files
  <1>7. ASSUME Restart PROVE Stays
      BY <1>7 DEF Restart, Stays, Killed, files, RecorderInv, TypeOK
  <1>8. ASSUME UNCHANGED vars PROVE Stays
      BY <1>8 DEF vars, Stays
  <1> QED BY <1>1, <1>2, <1>3, <1>5, <1>6, <1>7, <1>8 DEF Next, Seal, Store

\* Every other step counts no crash.
LEMMA CrashesCount ==
    ASSUME RecorderInv, [Next]_vars, crashes' = 0
    PROVE  crashes = 0 /\ ~Restart
  <1>1. Restart => crashes' # 0
      BY DEF Restart, RecorderInv, TypeOK
  <1>2. [Next]_vars /\ ~Restart => UNCHANGED crashes
      BY DEF Next, Prepare, Open, ExamineSegment, Seal, Store, Call, MakeChannelDir,
             MakeChannelDay, MakeDayDir, CheckTmp, OpenVideo, OpenIndex, InitIndex,
             ExamineFails, ExamineNoSlot, ExamineFirst,
             ExamineDiscontinuous, ExamineContinuous, Examine, RenameVideo, RenameIndex,
             WriteFrame, PutIndexRecord, Release, vars
  <1> QED BY <1>1, <1>2

\* A channel keeps its slot as long as the process lives.
LEMMA HasSlotStays ==
    ASSUME RecorderInv, DiskInv, NoFaults, [Next]_vars, crashes' = 0,
           NEW ch, ch # 0, HasSlot(ch)
    PROVE  HasSlot(ch)'
  <1>1. ASSUME Stays PROVE HasSlot(ch)'
      BY <1>1 DEF Stays, Killed, SlotsStay, HasSlot
  <1>2. ASSUME Open PROVE HasSlot(ch)'
      BY <1>2, OpensTmp DEF SlotsStay
  <1>3. ASSUME RenameVideo PROVE HasSlot(ch)'
    <2>1. \A i \in SlotIds : slot'[i].channel = slot[i].channel
        BY <1>3 DEF RenameVideo, RecorderInv, TypeOK
    <2> QED BY <2>1 DEF HasSlot
  <1>4. UNCHANGED slot => HasSlot(ch)'
      BY DEF HasSlot
  <1> QED BY <1>1, <1>2, <1>3, <1>4, StaysOrOpens DEF RenameIndex, WriteFrame, PutIndexRecord

-----------------------------------------------------------------------------
(* Video and index files come in pairs. *)

\* As long as the process lives, every file is of a channel that has its slot.
FilesInUse ==
    crashes = 0 => \A p \in DOMAIN video \cup DOMAIN index : p.ch # 0 /\ HasSlot(p.ch)

LEMMA NextFilesInUse ==
    ASSUME RecorderInv, DiskInv, NoFaults, FilesInUse, [Next]_vars
    PROVE  FilesInUse'
  <1> SUFFICES ASSUME crashes' = 0, NEW p \in DOMAIN video' \cup DOMAIN index'
               PROVE  p.ch # 0 /\ HasSlot(p.ch)'
      BY DEF FilesInUse
  <1>1. crashes = 0
      BY CrashesCount
  <1>2. p \in DOMAIN video \cup DOMAIN index => p.ch # 0 /\ HasSlot(p.ch)'
      BY <1>1, HasSlotStays DEF FilesInUse
  <1>3. ASSUME Open, p = TmpOf(cur) PROVE p.ch # 0 /\ HasSlot(p.ch)'
    <2>1. p.ch = cur.ch /\ cur.ch # 0 /\ HasSlot(cur.ch)
        BY <1>3, OpensTmp, AtOpening
    <2> QED BY <2>1, HasSlotStays
  <1>4. ASSUME RenameVideo \/ RenameIndex, p = seg PROVE p.ch # 0 /\ HasSlot(p.ch)'
    <2>1. p.ch = cur.ch /\ cur.ch # 0 /\ HasSlot(cur.ch)
        BY <1>4, SealFinds DEF RenameVideo, RenameIndex
    <2> QED BY <2>1, HasSlotStays
  <1>5. \/ p \in DOMAIN video \cup DOMAIN index
        \/ Open /\ p = TmpOf(cur)
        \/ (RenameVideo \/ RenameIndex) /\ p = seg
      BY StaysOrOpens, OpensTmp, RenameVideoMoves, RenameIndexMoves, WriteFrameAppends,
         PutIndexRecordAppends
      DEF Stays, MakesFiles, Moves, Appends, RenameVideo, RenameIndex, WriteFrame,
          PutIndexRecord
  <1> QED BY <1>2, <1>3, <1>4, <1>5

\* Outside storage_one_frame every video file has its index file and every index
\* file its video file, as long as the process has not died.
THEOREM FilesAlwaysPaired ==
    ASSUME NoFaults
    PROVE  Spec => []FilesPaired
  <1>1. Init => FilesInUse
      BY DEF Init, FilesInUse
  <1>2. RecorderInv /\ DiskInv /\ FilesInUse /\ [Next]_vars => FilesInUse'
      BY NextFilesInUse
  <1>3. RecorderInv /\ DiskInv /\ FilesInUse => FilesPaired
    <2> SUFFICES ASSUME DiskInv, FilesInUse, pc = "idle", crashes = 0
                 PROVE  DOMAIN video = DOMAIN index
        BY DEF FilesPaired
    <2>1. IndexNames = DOMAIN index
        BY DEF IndexNames, Moving
    <2> QED BY <2>1 DEF FilesInUse, DiskInv, FilesMatch, HalfMade
  <1> QED BY <1>1, <1>2, <1>3, DiskInvariant, PTL DEF Spec

-----------------------------------------------------------------------------
(* What storage_one_frame returned 1 for is stored. *)

\* channel_tmp has a slot for every channel.
EnoughSlots == IsFiniteSet(Channels) /\ Cardinality(Channels) <= CHANNEL_CNT

\* A channel that has none yet finds one that is free.
LEMMA NewChannelFindsSlot ==
    ASSUME RecorderInv, EnoughSlots, NEW ch \in Channels, ~HasSlot(ch)
    PROVE  HasSlot(0)
  <1> SUFFICES ASSUME ~HasSlot(0) PROVE FALSE
      OBVIOUS
  <1> DEFINE used == [i \in SlotIds |-> slot[i].channel]
             others == Channels \ {ch}
  <1>1. \A i \in SlotIds : slot[i].channel # 0 /\ slot[i].channel # ch
      BY DEF HasSlot
  <1>2. used \in [SlotIds -> others]
      BY <1>1 DEF RecorderInv, TypeOK
  <1>3. /\ IsFiniteSet(others) /\ Cardinality(others) = Cardinality(Channels) - 1
        /\ Cardinality(Channels) \in Nat
      BY FS_RemoveElement, FS_CardinalityType DEF EnoughSlots
  <1>4. IsFiniteSet(SlotIds) /\ Cardinality(SlotIds) = CHANNEL_CNT /\ CHANNEL_CNT \in Nat
      BY FS_Interval, RecorderAssumption DEF SlotIds
  <1>5. Cardinality(others) < Cardinality(SlotIds)
      BY <1>3, <1>4 DEF EnoughSlots
  <1> HIDE DEF others, used
  <1>6. PICK i, j \in SlotIds : i # j /\ used[i] = used[j]
      BY <1>2, <1>3, <1>4, <1>5, FS_PigeonHole
  <1> QED BY <1>1, <1>6 DEF used, RecorderInv, SlotsOwnTheirFiles

\* The frame is in a video file and, when it is an I frame, indexed there, or will
\* be when the seal is done.
IndexedAt(p, frame, k) ==
    /\ p \in IndexNames
    /\ \E j \in 1 .. Len(IndexOf(p)) : IndexOf(p)[j] = [time |-> frame.time, at |-> k]

StoredAt(p, frame, k) ==
    /\ p \in DOMAIN video /\ k \in 1 .. Len(video[p]) /\ video[p][k] = frame
    /\ frame.type = "I" => IndexedAt(p, frame, k)

StoredNow(frame) == \E p \in DOMAIN video : \E k \in 1 .. Len(video[p]) : StoredAt(p, frame, k)

LEMMA KeepsStored ==
    ASSUME RecorderInv, DiskInv, NoFaults, [Next]_vars, crashes' = 0,
           NEW frame, StoredNow(frame)
    PROVE  StoredNow(frame)'
  <1>1. PICK p, k : StoredAt(p, frame, k)
      BY DEF StoredNow, StoredAt
  <1>2. /\ p \in DOMAIN video /\ k \in 1 .. Len(video[p]) /\ video[p][k] = frame
        /\ Len(video[p]) \in Nat /\ video[p] \in Seq(Frame)
        /\ frame.type = "I" => IndexedAt(p, frame, k)
      BY <1>1, FileTypes DEF StoredAt, RecorderInv
  <1>3. ASSUME Stays PROVE StoredAt(p, frame, k)'
      BY <1>2, <1>3 DEF Stays, Killed, StoredAt, IndexedAt, IndexNames, IndexOf, Moving
  <1>4. ASSUME Open PROVE StoredAt(p, frame, k)'
    <2>1. MakesFiles /\ ~Moving /\ ~Moving'
        BY <1>4, OpensTmp
    <2>2. ASSUME IndexedAt(p, frame, k) PROVE IndexedAt(p, frame, k)'
      <3>1. p \in DOMAIN index /\ index[p] # << >>
          BY <2>1, <2>2 DEF IndexedAt, IndexNames, IndexOf
      <3>2. p \in DOMAIN index' /\ index'[p] = index[p]
          BY <2>1, <3>1 DEF MakesFiles
      <3> QED BY <2>1, <2>2, <3>1, <3>2 DEF IndexedAt, IndexNames, IndexOf
    <2> QED BY <2>1, <2>2, <1>2 DEF MakesFiles, StoredAt
  <1>5. ASSUME RenameVideo PROVE \E q : StoredAt(q, frame, k)'
    <2> DEFINE T == TmpOf(cur)
    <2> PICK q : q = IF p = T THEN seg ELSE p
        OBVIOUS
    <2>1. Moves(video, video')
        BY <1>5, RenameVideoMoves
    <2>2. /\ pc = "rename_video" /\ ~Moving /\ Moving' /\ UNCHANGED <<index, cur, seg>>
          /\ seg \notin DOMAIN index /\ seg # T
        BY <1>5, SealFinds DEF RenameVideo, Moving
    <2>3. q \in DOMAIN video' /\ video'[q] = video[p] /\ p # seg
        BY <2>1, <1>2 DEF Moves
    <2>4. p \in IndexNames => q \in IndexNames' /\ IndexOf(q)' = IndexOf(p)
        BY <2>2, <2>3 DEF IndexNames, IndexOf
    <2>5. StoredAt(q, frame, k)'
        BY <2>3, <2>4, <1>2 DEF StoredAt, IndexedAt
    <2> QED BY <2>5
  <1>6. ASSUME RenameIndex PROVE StoredAt(p, frame, k)'
    <2>1. Moves(index, index') /\ UNCHANGED video /\ Moving /\ ~Moving'
        BY <1>6, RenameIndexMoves DEF RenameIndex, Moving
    <2>2. p \in IndexNames => p \in IndexNames' /\ IndexOf(p)' = IndexOf(p)
        BY <2>1 DEF IndexNames, IndexOf, Moves
    <2> QED BY <2>1, <2>2, <1>2 DEF StoredAt, IndexedAt
  <1>7. ASSUME WriteFrame, VideoOpen PROVE StoredAt(p, frame, k)'
    <2>1. /\ Appends(video, video', slot[MySlot].vt, cur) /\ UNCHANGED index
          /\ ~Moving /\ ~Moving'
        BY <1>7, WriteFrameAppends DEF WriteFrame, Moving
    <2>2. cur \in Frame
        BY DEF RecorderInv, TypeOK
    <2>3. /\ p \in DOMAIN video' /\ k \in 1 .. Len(video'[p])
          /\ video'[p][k] = frame
      <3>1. CASE p = slot[MySlot].vt
          BY <3>1, <2>1, <2>2, <1>2 DEF Appends
      <3>2. CASE p # slot[MySlot].vt
          BY <3>2, <2>1, <1>2 DEF Appends
      <3> QED BY <3>1, <3>2
    <2> QED BY <2>1, <2>3, <1>2 DEF StoredAt, IndexedAt, IndexNames, IndexOf
  <1>8. ASSUME PutIndexRecord PROVE StoredAt(p, frame, k)'
    <2>1. /\ Appends(index, index', TmpOf(cur), NewRecord) /\ UNCHANGED video
          /\ ~Moving /\ ~Moving'
        BY <1>8, PutIndexRecordAppends DEF PutIndexRecord, Moving
    <2>2. ASSUME frame.type = "I" PROVE IndexedAt(p, frame, k)'
      <3>1. p \in DOMAIN index
          BY <2>1, <2>2, <1>2 DEF IndexedAt, IndexNames
      <3>2. index[p] \in Seq(Record) /\ Len(index[p]) \in Nat
          BY <3>1, FileTypes DEF RecorderInv
      <3>3. PICK j \in 1 .. Len(index[p]) : index[p][j] = [time |-> frame.time, at |-> k]
          BY <2>1, <2>2, <1>2 DEF IndexedAt, IndexOf
      <3>4. j \in 1 .. Len(index'[p]) /\ index'[p][j] = index[p][j]
        <4>1. CASE p = TmpOf(cur)
          <5>1. index'[p] = Append(index[p], NewRecord)
              BY <4>1, <2>1 DEF Appends
          <5> QED BY <5>1, <3>2
        <4>2. CASE p # TmpOf(cur)
            BY <4>2, <3>1, <2>1 DEF Appends
        <4> QED BY <4>1, <4>2
      <3>5. p \in IndexNames' /\ IndexOf(p)' = index'[p]
          BY <3>1, <2>1 DEF IndexNames, IndexOf, Appends
      <3> QED BY <3>3, <3>4, <3>5 DEF IndexedAt
    <2> QED BY <2>1, <2>2, <1>2 DEF StoredAt
  <1>9. StoredAt(p, frame, k)' => StoredNow(frame)'
      BY DEF StoredNow, StoredAt
  <1>10. (\E q : StoredAt(q, frame, k)') => StoredNow(frame)'
      BY DEF StoredNow, StoredAt
  <1> QED BY <1>3, <1>4, <1>5, <1>6, <1>7, <1>8, <1>9, <1>10, StaysOrOpens

\* Every channel seen has its slot, or is about to get it, ...
SlotsGiven ==
    crashes = 0 =>
        \A ch \in chanDir : HasSlot(ch) \/ (pc = "channel_day" /\ ch = cur.ch)

\* ... the frame storage_one_frame is about to return 1 for is stored, ...
ReleaseStored ==
    crashes = 0 /\ pc = "release" /\ (cur.type = "I" \/ cur.ch \in chanDir)
        => StoredNow(cur)

\* ... and so are those it has returned 1 for.
AcceptedStored ==
    crashes = 0 => \A i \in 1 .. Len(accepted) :
        /\ accepted[i].type = "I" => accepted[i].ch \in chanDir
        /\ (accepted[i].type = "I"
              \/ \E j \in 1 .. i - 1 : accepted[j].type = "I"
                                         /\ accepted[j].ch = accepted[i].ch)
             => StoredNow(accepted[i])

\* Only a channel's first I frame makes its directory.
LEMMA ChanDirStep ==
    ASSUME [Next]_vars
    PROVE  UNCHANGED chanDir \/ MakeChannelDir
  BY DEF Next, Prepare, Open, ExamineSegment, Seal, Store, Call, MakeChannelDay,
         MakeDayDir, CheckTmp, OpenVideo, OpenIndex, InitIndex, ExamineFails,
         ExamineNoSlot, ExamineFirst, ExamineDiscontinuous, ExamineContinuous, Examine,
         RenameVideo, RenameIndex, WriteFrame, PutIndexRecord, Release, Restart, vars,
         dirs

\* Its slot is the next thing it gets.
LEMMA ChannelDayStep ==
    ASSUME [Next]_vars, pc = "channel_day", ~Restart
    PROVE  MakeChannelDay \/ UNCHANGED vars
  BY DEF Next, Prepare, Open, ExamineSegment, Seal, Store, Call, MakeChannelDir,
         MakeDayDir, CheckTmp, OpenVideo, OpenIndex, InitIndex, ExamineFails,
         ExamineNoSlot, ExamineFirst, ExamineDiscontinuous, ExamineContinuous, Examine,
         RenameVideo, RenameIndex, WriteFrame, PutIndexRecord, Release

LEMMA NextSlotsGiven ==
    ASSUME RecorderInv, DiskInv, NoFaults, EnoughSlots, SlotsGiven, [Next]_vars
    PROVE  SlotsGiven'
  <1> SUFFICES ASSUME crashes' = 0, NEW ch \in chanDir'
               PROVE  HasSlot(ch)' \/ (pc' = "channel_day" /\ ch = cur'.ch)
      BY DEF SlotsGiven
  <1>0. crashes = 0 /\ ~Restart
      BY CrashesCount
  <1>1. ASSUME ch \in chanDir, HasSlot(ch) PROVE HasSlot(ch)'
    <2>1. ch # 0
        BY <1>1, RecorderAssumption DEF RecorderInv, TypeOK
    <2> QED BY <2>1, <1>1, HasSlotStays
  <1>2. ASSUME pc = "channel_day", ch = cur.ch
        PROVE  HasSlot(ch)' \/ (pc' = "channel_day" /\ ch = cur'.ch)
    <2>1. cur.ch \in Channels /\ ~HasSlot(cur.ch)
        BY <1>2 DEF RecorderInv, CallInv
    <2>2. HasSlot(0)
        BY <2>1, NewChannelFindsSlot
    <2>3. SlotOf(0) \in SlotIds
        BY <2>2, FirstSlotMatches DEF HasSlot, SlotOf
    <2>4. MakeChannelDay => HasSlot(ch)'
        BY <2>2, <2>3, <1>2 DEF MakeChannelDay, HasSlot, RecorderInv, TypeOK
    <2> QED BY <2>4, <1>0, <1>2, ChannelDayStep DEF vars
  <1>3. ASSUME MakeChannelDir, ch = cur.ch
        PROVE  pc' = "channel_day" /\ ch = cur'.ch
      BY <1>3 DEF MakeChannelDir
  <1>4. ch \in chanDir \/ (MakeChannelDir /\ ch = cur.ch)
      BY ChanDirStep DEF MakeChannelDir
  <1> QED BY <1>0, <1>1, <1>2, <1>3, <1>4 DEF SlotsGiven

\* The record put behind the frame just written is its own.
LEMMA PutRecordStores ==
    ASSUME RecorderInv, DiskInv, NoFaults, PutIndexRecord
    PROVE  StoredNow(cur)'
  <1> DEFINE T == TmpOf(cur)
  <1>1. /\ pc = "index" /\ ~Moving' /\ UNCHANGED <<video, cur>>
        /\ HasSlot(cur.ch) /\ cur.ch # 0 /\ cur.type = "I"
      BY RecorderAssumption DEF PutIndexRecord, RecorderInv, CallInv, Moving
  <1>2. T \in DOMAIN video /\ T \in DOMAIN index
      BY <1>1, AtSlot
  <1>3. /\ Len(video[T]) \in Nat /\ cur.time \in Nat
        /\ index[T] \in Seq(Record) /\ Len(index[T]) \in Nat
      BY <1>2, FileTypes DEF RecorderInv
  <1>4. Len(video[T]) >= 1 /\ video[T][Len(video[T])] = cur
      BY <1>1 DEF DiskInv, JustWritten
  <1>5. DOMAIN index' = DOMAIN index /\ index'[T] = Append(index[T], NewRecord)
      BY PutIndexRecordAppends DEF Appends
  <1>6. NewRecord \in Record /\ NewRecord = [time |-> cur.time, at |-> Len(video[T])]
      BY <1>3 DEF NewRecord, Record
  <1> PICK p, k : p = T /\ k = Len(video[T])
      OBVIOUS
  <1> HIDE DEF T
  <1>7. /\ p \in DOMAIN index'
        /\ \E j \in 1 .. Len(index'[p]) : index'[p][j] = [time |-> cur.time, at |-> k]
    <2>1. /\ Len(index'[p]) = Len(index[T]) + 1
          /\ index'[p][Len(index[T]) + 1] = NewRecord
        BY <1>3, <1>5, <1>6
    <2> QED BY <2>1, <1>2, <1>3, <1>5, <1>6
  <1>8. IndexedAt(p, cur, k)'
      BY <1>1, <1>7 DEF IndexedAt, IndexNames, IndexOf
  <1>9. StoredAt(p, cur, k)'
      BY <1>1, <1>2, <1>3, <1>4, <1>8 DEF StoredAt
  <1> QED BY <1>9 DEF StoredNow, StoredAt

\* A P frame of a channel that has its slot is written.
LEMMA WriteStores ==
    ASSUME RecorderInv, DiskInv, NoFaults, WriteFrame, cur.type = "P", HasSlot(cur.ch)
    PROVE  StoredNow(cur)'
  <1>1. PICK i \in SlotIds : i = MySlot /\ slot[i].channel = cur.ch
      BY MySlotIs
  <1>2. pc = "write" /\ UNCHANGED cur /\ cur.ch # 0
      BY RecorderAssumption DEF WriteFrame, RecorderInv, CallInv
  <1>3. Current(i)
      BY <1>1, <1>2 DEF DiskInv, SlotsCurrent, Unready, Opening
  <1>4. VideoOpen
      BY <1>1, <1>3 DEF VideoOpen, Current
  <1> PICK v : v = slot[MySlot].vt
      OBVIOUS
  <1>5. /\ v \in DOMAIN video /\ DOMAIN video' = DOMAIN video
        /\ video'[v] = Append(video[v], cur)
      BY <1>4, WriteFrameAppends DEF Appends
  <1>6. video[v] \in Seq(Frame) /\ Len(video[v]) \in Nat /\ cur \in Frame
      BY <1>5, FileTypes DEF RecorderInv
  <1> PICK k : k = Len(video[v]) + 1
      OBVIOUS
  <1>7. k \in 1 .. Len(video'[v]) /\ video'[v][k] = cur
      BY <1>5, <1>6
  <1>8. StoredAt(v, cur, k)'
      BY <1>2, <1>5, <1>7 DEF StoredAt
  <1> QED BY <1>8 DEF StoredNow, StoredAt

LEMMA NextReleaseStored ==
    ASSUME RecorderInv, DiskInv, NoFaults, SlotsGiven, ReleaseStored, [Next]_vars
    PROVE  ReleaseStored'
  <1> SUFFICES ASSUME crashes' = 0, pc' = "release", (cur.type = "I" \/ cur.ch \in chanDir)'
               PROVE  StoredNow(cur)'
      BY DEF ReleaseStored
  <1>1. crashes = 0 /\ ~Restart
      BY CrashesCount
  <1>2. \/ ExamineNoSlot \/ ExamineDiscontinuous \/ WriteFrame \/ PutIndexRecord
        \/ UNCHANGED vars
      BY <1>1
      DEF Next, Prepare, Open, ExamineSegment, Seal, Store, Call, MakeChannelDir,
          MakeChannelDay, MakeDayDir, CheckTmp, OpenVideo, OpenIndex, InitIndex, After,
          ExamineFails, ExamineFirst, ExamineContinuous, Examine, RenameVideo,
          RenameIndex, Release
  <1>3. ASSUME pc = "examine" PROVE HasSlot(cur.ch) /\ TmpOf(cur) \in DOMAIN video
    <2>1. cur.type = "I" /\ cur.ch # 0
        BY <1>3, RecorderAssumption DEF RecorderInv, CallInv
    <2>2. cur.ch \in chanDir
        BY <1>3, <2>1 DEF DiskInv, DirsKnown
    <2>3. HasSlot(cur.ch)
        BY <1>1, <1>3, <2>2 DEF SlotsGiven
    <2> QED BY <1>3, <2>1, <2>3, AtSlot
  <1>4. ~ExamineNoSlot /\ ~ExamineDiscontinuous
      BY <1>3 DEF ExamineNoSlot, ExamineDiscontinuous, Examine
  <1>5. ASSUME WriteFrame PROVE StoredNow(cur)'
    <2>1. pc' = (IF cur.type = "I" THEN "index" ELSE "release") /\ UNCHANGED <<cur, chanDir>>
          /\ pc = "write"
          /\ cur.type \in {"I", "P"}
        BY <1>5 DEF WriteFrame, dirs, RecorderInv, TypeOK, Frame
    <2>2. cur.type = "P" /\ cur.ch \in chanDir
        BY <2>1
    <2> QED BY <2>1, <2>2, <1>1, <1>5, WriteStores DEF SlotsGiven
  <1>6. ASSUME UNCHANGED vars PROVE StoredNow(cur)'
    <2>1. StoredNow(cur) /\ UNCHANGED cur
        BY <1>6 DEF ReleaseStored, vars
    <2> QED BY <2>1, KeepsStored
  <1> QED BY <1>2, <1>4, <1>5, <1>6, PutRecordStores

LEMMA NextAcceptedStored ==
    ASSUME RecorderInv, DiskInv, NoFaults, ReleaseStored, AcceptedStored, [Next]_vars
    PROVE  AcceptedStored'
  <1> SUFFICES ASSUME crashes' = 0, NEW i \in 1 .. Len(accepted')
               PROVE  /\ accepted'[i].type = "I" => accepted'[i].ch \in chanDir'
                      /\ (accepted'[i].type = "I"
                            \/ \E j \in 1 .. i - 1 : accepted'[j].type = "I"
                                            /\ accepted'[j].ch = accepted'[i].ch)
                           => StoredNow(accepted[i])'
      BY DEF AcceptedStored
  <1>1. crashes = 0 /\ ~Restart
      BY CrashesCount
  <1>2. chanDir \subseteq chanDir'
      BY ChanDirStep DEF MakeChannelDir
  <1>3. accepted \in Seq(Frame) /\ Len(accepted) \in Nat /\ cur \in Frame
      BY DEF RecorderInv, TypeOK
  <1>4. UNCHANGED accepted \/ Release
      BY <1>1
      DEF Next, Prepare, Open, ExamineSegment, Seal, Store, Call, MakeChannelDir,
          MakeChannelDay, MakeDayDir, CheckTmp, OpenVideo, OpenIndex, InitIndex,
          ExamineFails, ExamineNoSlot, ExamineFirst,
          ExamineDiscontinuous, ExamineContinuous, Examine, RenameVideo, RenameIndex,
          WriteFrame, PutIndexRecord, vars
  <1>5. Release => accepted' = Append(accepted, cur) /\ pc = "release" /\ UNCHANGED chanDir
      BY DEF Release, dirs
  <1>6. \A j \in 1 .. Len(accepted) : accepted'[j] = accepted[j]
      BY <1>3, <1>4, <1>5
  <1>7. CASE i \in 1 .. Len(accepted)
    <2>1. accepted'[i] = accepted[i] /\ \A j \in 1 .. i - 1 : accepted'[j] = accepted[j]
        BY <1>3, <1>6, <1>7
    <2> PICK f : f = accepted[i]
        OBVIOUS
    <2>2. StoredNow(f) => StoredNow(f)'
        BY KeepsStored
    <2>3. StoredNow(accepted[i])' <=> StoredNow(f)'
        BY <2>1 DEF StoredNow, StoredAt, IndexedAt
    <2> QED BY <2>1, <2>2, <2>3, <1>1, <1>2, <1>7 DEF AcceptedStored
  <1>8. CASE i \notin 1 .. Len(accepted)
    <2>1. Release /\ i = Len(accepted) + 1 /\ accepted'[i] = cur
        BY <1>3, <1>4, <1>5, <1>8
    <2> PICK f : f = cur
        OBVIOUS
    <2>2. f.type = "I" => f.ch \in chanDir
        BY <1>5, <2>1 DEF DiskInv, DirsKnown
    <2>3. ASSUME NEW j \in 1 .. i - 1, accepted'[j].type = "I", accepted'[j].ch = f.ch
          PROVE  f.ch \in chanDir
        BY <2>1, <2>3, <1>1, <1>3, <1>6 DEF AcceptedStored
    <2>4. ASSUME f.ch \in chanDir PROVE StoredNow(f)'
      <3>1. StoredNow(f)
          BY <2>1, <2>4, <1>1, <1>5 DEF ReleaseStored
      <3> QED BY <3>1, KeepsStored
    <2>5. StoredNow(accepted[i])' <=> StoredNow(f)'
        BY <2>1 DEF StoredNow, StoredAt, IndexedAt
    <2> QED BY <2>1, <2>2, <2>3, <2>4, <2>5, <1>2
  <1> QED BY <1>7, <1>8

\* A frame storage_one_frame returned 1 for, and whose space the encoder may
\* overwrite, is in a video file and, when it is an I frame, indexed there, through
\* every later seal and every day, as long as the process lives and channel_tmp has
\* a slot for each channel.
THEOREM AcceptedAlwaysStored ==
    ASSUME NoFaults, EnoughSlots
    PROVE  Spec => []AcceptedIsStored
  <1>1. Init => SlotsGiven /\ ReleaseStored /\ AcceptedStored
      BY DEF Init, SlotsGiven, ReleaseStored, AcceptedStored
  <1>2. RecorderInv /\ DiskInv /\ SlotsGiven /\ [Next]_vars => SlotsGiven'
      BY NextSlotsGiven
  <1>3. RecorderInv /\ DiskInv /\ SlotsGiven /\ ReleaseStored /\ [Next]_vars
            => ReleaseStored'
      BY NextReleaseStored
  <1>4. RecorderInv /\ DiskInv /\ ReleaseStored /\ AcceptedStored /\ [Next]_vars
            => AcceptedStored'
      BY NextAcceptedStored
  <1>5. AcceptedStored => AcceptedIsStored
    <2> SUFFICES ASSUME AcceptedStored, pc = "idle", crashes = 0,
                        NEW i \in 1 .. Len(accepted), StoredNow(accepted[i])
                 PROVE  IsStored(accepted[i])
        BY DEF AcceptedStored, AcceptedIsStored
    <2>1. IndexNames = DOMAIN index /\ \A p : IndexOf(p) = index[p]
        BY DEF IndexNames, IndexOf, Moving
    <2> QED BY <2>1 DEF StoredNow, StoredAt, IndexedAt, IsStored
  <1> QED BY <1>1, <1>2, <1>3, <1>4, <1>5, DiskInvariant, PTL DEF Spec

-----------------------------------------------------------------------------
(* A sealed file is final. *)

LEMMA StepKeepsSealed ==
    ASSUME RecorderInv, DiskInv, NoFaults, [Next]_vars
    PROVE  /\ \A p \in Sealed(video) : p \in DOMAIN video' /\ video'[p] = video[p]
           /\ \A p \in Sealed(index) : p \in DOMAIN index' /\ index'[p] = index[p]
  <1>1. ASSUME Stays
        PROVE  /\ \A p \in Sealed(video) : p \in DOMAIN video' /\ video'[p] = video[p]
               /\ \A p \in Sealed(index) : p \in DOMAIN index' /\ index'[p] = index[p]
      BY <1>1 DEF Stays, Sealed
  <1>3. TmpOf(cur).name = Tmp
      BY DEF TmpOf
  <1>2. ASSUME Open
        PROVE  /\ \A p \in Sealed(video) : p \in DOMAIN video' /\ video'[p] = video[p]
               /\ \A p \in Sealed(index) : p \in DOMAIN index' /\ index'[p] = index[p]
      BY <1>2, <1>3, OpensTmp DEF MakesFiles, Sealed
  <1>4. ASSUME RenameVideo
        PROVE  /\ \A p \in Sealed(video) : p \in DOMAIN video' /\ video'[p] = video[p]
               /\ UNCHANGED index
      BY <1>3, <1>4, RenameVideoMoves DEF Moves, Sealed, RenameVideo
  <1>5. ASSUME RenameIndex
        PROVE  /\ \A p \in Sealed(index) : p \in DOMAIN index' /\ index'[p] = index[p]
               /\ UNCHANGED video
      BY <1>3, <1>5, RenameIndexMoves DEF Moves, Sealed, RenameIndex
  <1>6. ASSUME WriteFrame, VideoOpen
        PROVE  /\ \A p \in Sealed(video) : p \in DOMAIN video' /\ video'[p] = video[p]
               /\ UNCHANGED index
      BY <1>6, WriteFrameAppends DEF Appends, Sealed, WriteFrame
  <1>7. ASSUME PutIndexRecord
        PROVE  /\ \A p \in Sealed(index) : p \in DOMAIN index' /\ index'[p] = index[p]
               /\ UNCHANGED video
      BY <1>7, PutIndexRecordAppends DEF Appends, Sealed, PutIndexRecord
  <1> QED BY <1>1, <1>2, <1>4, <1>5, <1>6, <1>7, StaysOrOpens DEF Sealed

\* A segment that has its name is never written, replaced or renamed again, by no
\* later seal and by no restarted process: a file the terminal found stays.
THEOREM SealedAlwaysFinal ==
    ASSUME NoFaults
    PROVE  Spec => SealedIsFinal
  <1>1. RecorderInv /\ DiskInv /\ [Next]_vars =>
            [/\ \A p \in Sealed(video) : p \in DOMAIN video' /\ video'[p] = video[p]
             /\ \A p \in Sealed(index) : p \in DOMAIN index' /\ index'[p] = index[p]]_vars
      BY StepKeepsSealed
  <1> QED BY <1>1, DiskInvariant, PTL DEF Spec, SealedIsFinal

-----------------------------------------------------------------------------
(* The recorder's steps are steps of SegmentLog. *)

\* What a record may hold: the bounds of Call.
InBounds == cur.n <= MaxFrames /\ (pc # "idle" => cur.time \in 1 .. MaxTime)

LEMMA NextInBounds ==
    ASSUME RecorderInv, InBounds, [Next]_vars
    PROVE  InBounds'
  <1>1. ASSUME NEW type \in {"I", "P"}, NEW ch \in Channels,
               NEW time \in 1 .. MaxTime, Call(type, ch, time)
        PROVE  InBounds'
    <2>1. cur.n \in Nat /\ crashes \in Nat /\ MaxFrames \in Nat
        BY FileTypes, RecorderAssumption DEF RecorderInv, TypeOK
    <2>2. cur'.n = cur.n + 1 /\ cur'.time = time /\ cur.n + crashes < MaxFrames
        BY <1>1 DEF Call
    <2> QED BY <2>1, <2>2 DEF InBounds
  <1>2. UNCHANGED cur /\ (pc = "idle" => pc' = "idle") => InBounds'
      BY DEF InBounds
  <1>3. CASE Prepare
      BY <1>2, <1>3 DEF Prepare, MakeChannelDir, MakeChannelDay, MakeDayDir, CheckTmp
  <1>4. CASE ExamineSegment
      BY <1>2, <1>4
      DEF ExamineSegment, ExamineFails, ExamineNoSlot, ExamineFirst,
          ExamineDiscontinuous, ExamineContinuous, Examine
  <1>5. CASE Seal
      BY <1>2, <1>5 DEF Seal, RenameVideo, RenameIndex
  <1>6. CASE Store
      BY <1>2, <1>6 DEF Store, WriteFrame, PutIndexRecord, Release
  <1>7. CASE Restart
      BY <1>2, <1>7 DEF Restart
  <1>8. CASE UNCHANGED vars
      BY <1>2, <1>8 DEF vars
  <1>9. CASE Open
      BY <1>2, <1>9 DEF Open, OpenVideo, OpenIndex, InitIndex
  <1> QED BY <1>1, <1>3, <1>4, <1>5, <1>6, <1>7, <1>8, <1>9 DEF Next

LEMMA TmpIsLogPath ==
    ASSUME RecorderInv, InBounds, pc # "idle"
    PROVE  TmpOf(cur) \in Log!TmpPath
  <1>1. cur.ch \in Channels /\ cur.time \in 1 .. MaxTime
      BY DEF RecorderInv, CallInv, InBounds
  <1> QED BY <1>1 DEF Log!TmpPath, Log!Tmp, TmpOf, Tmp, Day

LEMMA OpensLog ==
    ASSUME RecorderInv, RecorderInv', DiskInv, NoFaults, InBounds, Open
    PROVE  Log!Next
  <1> DEFINE T == TmpOf(cur)
  <1>1. pc # "idle" /\ pc # "rename_index" /\ pc' # "rename_index"
      BY OpensTmp DEF Moving
  <1>2. T \in Log!TmpPath
      BY <1>1, TmpIsLogPath
  <1>3. index = [q \in DOMAIN index |-> index[q]] /\ index' = [q \in DOMAIN index' |-> index'[q]]
      BY DEF RecorderInv, TypeOK, IsFiles
  <1>4. ASSUME OpenVideo PROVE Log!MakeVideo(T)
    <2>1. DOMAIN video' = DOMAIN video \cup {T} /\ T \notin DOMAIN index /\ UNCHANGED index
        BY <1>4, OpenVideoMakes DEF MakesFiles
    <2> HIDE DEF T
    <2> QED BY <1>1, <2>1 DEF Log!MakeVideo, Log!HasRecords
  <1>5. ASSUME OpenIndex PROVE Log!MakeIndex(T)
    <2>1. /\ UNCHANGED video /\ T \in DOMAIN video /\ T \notin DOMAIN index
          /\ DOMAIN index' = DOMAIN index \cup {T} /\ index'[T] = << >>
          /\ \A p \in DOMAIN index : index'[p] = index[p]
        BY <1>5, OpenIndexMakes
    <2> HIDE DEF T
    <2>2. index' = [q \in DOMAIN index \cup {T} |-> IF q = T THEN << >> ELSE index[q]]
        BY <1>3, <2>1
    <2> QED BY <1>1, <2>1, <2>2 DEF Log!MakeIndex
  <1>6. ASSUME InitIndex PROVE Log!InitIndex(T)
    <2>1. /\ UNCHANGED video /\ T \in DOMAIN index /\ index[T] = << >>
          /\ index' = [index EXCEPT ![T] = <<Zero>>]
        BY <1>6, InitIndexMakes
    <2> HIDE DEF T
    <2> QED BY <1>1, <2>1 DEF Log!InitIndex, Log!HasRecords, Log!Zero, Zero
  <1> HIDE DEF T
  <1> QED BY <1>2, <1>4, <1>5, <1>6 DEF Log!Next, Open

LEMMA RenameVideoLog ==
    ASSUME RecorderInv, DiskInv, NoFaults, InBounds, RenameVideo
    PROVE  Log!Next
  <1> DEFINE T == TmpOf(cur)
  <1>1. pc = "rename_video" /\ pc' = "rename_index" /\ UNCHANGED <<index, cur>>
      BY DEF RenameVideo
  <1>2. /\ DOMAIN video' = (DOMAIN video \ {T}) \cup {seg}
        /\ T \in DOMAIN video /\ seg \notin DOMAIN video
      BY RenameVideoMoves DEF Moves
  <1>3. /\ T \in DOMAIN index /\ Len(index[T]) >= 2
        /\ seg = [T EXCEPT !.name = NameOf(index[T])]
      BY <1>1 DEF DiskInv, SealInHand
  <1>4. T \in Log!TmpPath
      BY <1>1, TmpIsLogPath
  <1>5. UNCHANGED T
      BY <1>1
  <1>6. /\ (IF pc = "rename_index" THEN {T} ELSE {}) = {}
        /\ (IF pc = "rename_index" THEN {T} ELSE {})' = {T}
      BY <1>1
  <1>7. seg = Log!SealedAs(T)
      BY <1>3 DEF Log!SealedAs, Log!First, Log!Last, NameOf, TimeOfDay
  <1> USE <1>1 DEF T
  <1>8. Log!SealVideo(T)
      BY <1>2, <1>3, <1>6, <1>7 DEF Log!SealVideo, Log!HasRecords
  <1> QED BY <1>4, <1>8 DEF Log!Next

LEMMA RenameIndexLog ==
    ASSUME RecorderInv, DiskInv, NoFaults, InBounds, RenameIndex
    PROVE  Log!Next
  <1> DEFINE T == TmpOf(cur)
  <1>1. /\ pc = "rename_index" /\ pc' = "seal_video" /\ UNCHANGED <<video, cur>>
        /\ index' = Renamed(index, T, seg)
      BY DEF RenameIndex, NoFaults
  <1>2. /\ T \in DOMAIN index /\ Len(index[T]) >= 2
        /\ seg = [T EXCEPT !.name = NameOf(index[T])]
      BY <1>1 DEF DiskInv, SealInHand
  <1>3. T \in Log!TmpPath
      BY <1>1, TmpIsLogPath
  <1>4. seg = Log!SealedAs(T)
      BY <1>2 DEF Log!SealedAs, Log!First, Log!Last, NameOf, TimeOfDay
  <1>5. Log!SealIndex(T)
      BY <1>1, <1>2, <1>4 DEF Log!SealIndex, Renamed
  <1> QED BY <1>3, <1>5 DEF Log!Next

LEMMA PutIndexRecordLog ==
    ASSUME RecorderInv, RecorderInv', DiskInv, NoFaults, InBounds, PutIndexRecord
    PROVE  Log!Next
  <1> DEFINE T == TmpOf(cur)
             d == index[T]
             r == NewRecord
  <1>1. /\ pc = "index" /\ pc' = "release" /\ UNCHANGED <<video, cur>>
        /\ HasSlot(cur.ch) /\ cur.ch # 0 /\ cur.type = "I"
      BY RecorderAssumption DEF PutIndexRecord, RecorderInv, CallInv
  <1>2. /\ slot[MySlot].it = T /\ T \in DOMAIN video /\ T \in DOMAIN index /\ T # NoFd
        /\ T.day = Day(cur.time) /\ T.ch = cur.ch /\ d # << >>
      BY <1>1, AtSlot DEF TmpOf
  <1>3. index' = [index EXCEPT ![T] = Append(index[T], r)]
    <2>1. /\ DOMAIN index' = DOMAIN index /\ index'[T] = Append(index[T], r)
          /\ \A q \in DOMAIN index : q # T => index'[q] = index[q]
        BY PutIndexRecordAppends DEF Appends
    <2>2. /\ index  = [q \in DOMAIN index  |-> index[q]]
          /\ index' = [q \in DOMAIN index' |-> index'[q]]
        BY DEF RecorderInv, TypeOK, IsFiles
    <2> HIDE DEF T, r
    <2> QED BY <2>1, <2>2
  <1>4. T \in Log!TmpPath
      BY <1>1, TmpIsLogPath
  <1>5. /\ Timed(d, T.day) /\ Len(d) \in Nat
        /\ \A k \in 1 .. Len(d) : d[k].time \in Nat /\ d[k].at \in Nat
      BY <1>2, FileTypes DEF DiskInv, RecordsTimed, RecorderInv
  <1>6. /\ r.time = cur.time /\ r.at = Len(video[T])
        /\ r.time \in 1 .. MaxTime /\ r.at \in 1 .. MaxFrames
    <2>1. Len(video[T]) \in Nat /\ cur.n \in Nat /\ MaxFrames \in Nat
        BY <1>2, FileTypes, RecorderAssumption DEF RecorderInv
    <2>2. Len(video[T]) >= 1 /\ Len(video[T]) <= cur.n /\ cur.n <= MaxFrames
        BY <1>1, <1>2 DEF DiskInv, JustWritten, FramesNumbered, InBounds
    <2>3. cur.time \in 1 .. MaxTime
        BY <1>1 DEF InBounds
    <2> QED BY <2>1, <2>2, <2>3 DEF NewRecord
  <1>7. r \in Log!Record
      BY <1>6 DEF Log!Record, NewRecord
  <1>8. ASSUME Len(d) >= 2 PROVE Log!Follows(T, r)
    <2>1. Fits(d, cur.time)
        BY <1>1, <1>2 DEF RecorderInv, NoFaults, Continuity, RecordFits
    <2>2. \A i \in 2 .. Len(d) : IsRecord(d[i])
        BY <1>5 DEF Timed
    <2>3. d[Len(d)].at < r.at
        BY <1>1, <1>5, <1>6, <1>8 DEF DiskInv, JustWritten
    <2> HIDE DEF T, d, r
    <2> QED BY <2>1, <2>2, <2>3, <1>6, <1>8 DEF Fits, Log!Follows, Log!First, Log!Last, d
  <1>9. ASSUME ~(Len(d) >= 2) PROVE Log!Starts(T, r)
    <2> SUFFICES ASSUME NEW q \in DOMAIN index, q.ch = T.ch
                 PROVE  \A i \in 2 .. Len(index[q]) : index[q][i].time < r.time
        BY DEF Log!Starts
    <2>1. CASE q = T
        BY <2>1, <1>5, <1>9
    <2>2. CASE q # T
      <3>1. Before(q, cur.time)
          BY <2>2, <1>1, <1>2, <1>9, FirstRecordIsLast
      <3> QED BY <3>1, <1>6 DEF Before
    <2> QED BY <2>1, <2>2
  <1>10. /\ (IF pc = "rename_index" THEN {T} ELSE {}) = {}
         /\ (IF pc = "rename_index" THEN {T} ELSE {})' = {}
      BY <1>1
  <1>11. T.day = r.time \div DAY_LEN
      BY <1>2, <1>6 DEF Day
  <1>12. Log!Put(T, r)
    <2> HIDE DEF r
    <2> QED BY <1>1, <1>2, <1>3, <1>8, <1>9, <1>10, <1>11 DEF Log!Put, Log!HasRecords
  <1> QED BY <1>4, <1>7, <1>12 DEF Log!Next

LEMMA StepLog ==
    ASSUME RecorderInv, RecorderInv', DiskInv, NoFaults, InBounds, [Next]_vars
    PROVE  [Log!Next]_(Log!vars)
  <1>1. ASSUME Stays PROVE [Log!Next]_(Log!vars)
    <2>1. CASE ~Moving /\ ~Moving'
        BY <1>1, <2>1 DEF Stays, Moving, Log!vars
    <2>2. CASE UNCHANGED <<pc, cur>>
        BY <1>1, <2>2 DEF Stays, Log!vars
    <2>3. CASE Killed
        BY <1>1, <2>3 DEF Stays, Killed, Log!Next, Log!Halt
    <2> QED BY <1>1, <2>1, <2>2, <2>3 DEF Stays
  <1>2. ASSUME WriteFrame, VideoOpen PROVE UNCHANGED Log!vars
    <2>1. /\ pc = "write" /\ pc' \in {"index", "release"} /\ UNCHANGED index
          /\ DOMAIN video' = DOMAIN video
        BY <1>2, WriteFrameAppends DEF WriteFrame, Appends
    <2> QED BY <2>1 DEF Log!vars
  <1> QED BY <1>1, <1>2, StaysOrOpens, OpensLog, RenameVideoLog, RenameIndexLog,
             PutIndexRecordLog

\* Whoever reads the directories sees a SegmentLog: each of storage_one_frame's
\* effects is one of its steps, or none, wherever the process is killed.
THEOREM RecorderKeepsSegmentLog ==
    ASSUME NoFaults
    PROVE  Spec => KeepsSegmentLog
  <1>1. Init => InBounds
      BY RecorderAssumption DEF Init, InBounds
  <1>2. RecorderInv /\ InBounds /\ [Next]_vars => InBounds'
      BY NextInBounds
  <1>3. Init => Log!Init
      BY DEF Init, Log!Init
  <1>4. RecorderInv /\ RecorderInv' /\ DiskInv /\ InBounds /\ [Next]_vars
            => [Log!Next]_(Log!vars)
      BY StepLog
  <1> QED BY <1>1, <1>2, <1>3, <1>4, DiskInvariant, PTL DEF Spec, KeepsSegmentLog, Log!Spec
=============================================================================
