--------------------------- MODULE RecorderProofs ---------------------------
(***************************************************************************)
(* Proofs about Recorder, for every set of channels, number of slots,      *)
(* segment length, gap and day, any number of frames and crashes, and with *)
(* every fault of Recorder allowed; only the continuity of the segments    *)
(* needs the renames to succeed.                                           *)
(***************************************************************************)
EXTENDS Recorder, Integers, SequenceTheorems, WellFoundedInduction, TLAPS

-----------------------------------------------------------------------------
(* Times and names. *)

LEMMA DayType == \A t \in Nat : Day(t) \in Nat /\ TimeOfDay(t) \in Nat
  BY RecorderAssumption, SMT DEF Day, TimeOfDay

LEMMA NoFdType == NoFd \in Path
  BY DEF NoFd, Path

LEMMA TmpOfType ==
    ASSUME NEW frame \in Frame
    PROVE  TmpOf(frame) \in Path /\ TmpOf(frame).ch = frame.ch
           /\ TmpOf(frame).name = Tmp
  BY DayType DEF TmpOf, Path, Frame

LEMMA TmpIsNoPair == \A s, e \in Nat : <<s, e>> # Tmp
  BY DEF Tmp

-----------------------------------------------------------------------------
(* The slots. *)

\* Of the slots with a channel there is a first one.
LEMMA FirstSlotMatches ==
    ASSUME NEW slots, NEW ch, NEW i \in SlotIds, slots[i].channel = ch
    PROVE  /\ FirstSlot(slots, ch) \in SlotIds
           /\ slots[FirstSlot(slots, ch)].channel = ch
  <1> DEFINE T == {j \in SlotIds : slots[j].channel = ch}
  <1>1. T \subseteq Nat /\ T # {}
      BY RecorderAssumption DEF SlotIds
  <1>2. PICK m \in T : \A j \in T : ~(<<j, m>> \in OpToRel(<, Nat))
    <2> HIDE DEF T
    <2> QED BY <1>1, NatLessThanWellFounded, WFMin
  <1>3. \A j \in 1 .. m - 1 : slots[j].channel # ch
    <2> SUFFICES ASSUME NEW j \in 1 .. m - 1, slots[j].channel = ch PROVE FALSE
        OBVIOUS
    <2>1. j \in T /\ j < m /\ j \in Nat /\ m \in Nat
        BY RecorderAssumption DEF SlotIds
    <2>2. <<j, m>> \in OpToRel(<, Nat)
        BY <2>1 DEF OpToRel
    <2> QED BY <2>1, <2>2, <1>2
  <1> QED BY <1>3 DEF FirstSlot

-----------------------------------------------------------------------------
(* The files. *)

LEMMA OpenedType ==
    ASSUME NEW S, NEW fs, IsFiles(fs, S), NEW fd \in Path
    PROVE  /\ IsFiles(Opened(fs, fd), S)
           /\ DOMAIN Opened(fs, fd) = DOMAIN fs \cup ({fd} \ {NoFd})
  BY DEF Opened, IsFiles

LEMMA InitialisedType ==
    ASSUME NEW fs, IsFiles(fs, Record), NEW fd \in Path, fd = NoFd \/ fd \in DOMAIN fs
    PROVE  /\ IsFiles(Initialised(fs, fd), Record)
           /\ DOMAIN Initialised(fs, fd) = DOMAIN fs
           /\ \A p \in DOMAIN fs : p # fd => Initialised(fs, fd)[p] = fs[p]
           /\ fd # NoFd /\ fs[fd] = << >> => Initialised(fs, fd)[fd] = <<Zero>>
           /\ fd # NoFd /\ fs[fd] # << >> =>
                /\ Len(Initialised(fs, fd)[fd]) = Len(fs[fd])
                /\ \A i \in 2 .. Len(fs[fd]) :
                      Initialised(fs, fd)[fd][i] = fs[fd][i]
  <1>1. CASE fd = NoFd
      BY <1>1 DEF Initialised
  <1>2. CASE fd # NoFd /\ fs[fd] = << >>
    <2>1. Zero \in Record
        BY DEF Zero, Record
    <2> QED BY <1>2, <2>1 DEF Initialised, IsFiles
  <1>3. CASE fd # NoFd /\ fs[fd] # << >>
    <2>1. Zero \in Record /\ fs[fd] \in Seq(Record)
        BY <1>3 DEF Zero, Record, IsFiles
    <2> DEFINE data == [fs[fd] EXCEPT ![1] = Zero]
    <2>2. data \in Seq(Record) /\ Len(data) = Len(fs[fd])
          /\ \A i \in 2 .. Len(fs[fd]) : data[i] = fs[fd][i]
        BY <2>1, <1>3, ExceptSeq, EmptySeq
    <2>3. Initialised(fs, fd) = [fs EXCEPT ![fd] = data]
        BY <1>3 DEF Initialised
    <2> HIDE DEF data
    <2> QED BY <1>3, <2>2, <2>3 DEF IsFiles
  <1> QED BY <1>1, <1>2, <1>3

LEMMA AppendedType ==
    ASSUME NEW S, NEW fs, IsFiles(fs, S), NEW fd \in Path, NEW x \in S
    PROVE  /\ IsFiles(Appended(fs, fd, x), S)
           /\ DOMAIN Appended(fs, fd, x) = DOMAIN fs
           /\ \A p \in DOMAIN fs : p # fd => Appended(fs, fd, x)[p] = fs[p]
           /\ fd \in DOMAIN fs /\ fd # NoFd =>
                Appended(fs, fd, x)[fd] = Append(fs[fd], x)
  <1>1. CASE fd = NoFd
      BY <1>1 DEF Appended
  <1>2. CASE fd # NoFd
    <2>1. Appended(fs, fd, x) = [fs EXCEPT ![fd] = Append(fs[fd], x)]
        BY <1>2 DEF Appended
    <2>2. fd \in DOMAIN fs => Append(fs[fd], x) \in Seq(S)
        BY DEF IsFiles
    <2> QED BY <2>1, <2>2 DEF IsFiles
  <1> QED BY <1>1, <1>2

LEMMA RenamedType ==
    ASSUME NEW S, NEW fs, IsFiles(fs, S), NEW from \in Path, NEW to \in Path
    PROVE  /\ IsFiles(Renamed(fs, from, to), S)
           /\ from # to => from \notin DOMAIN Renamed(fs, from, to)
           /\ DOMAIN fs \ {from} \subseteq DOMAIN Renamed(fs, from, to)
           /\ \A p \in DOMAIN Renamed(fs, from, to) :
                 \/ p \in DOMAIN fs /\ Renamed(fs, from, to)[p] = fs[p]
                 \/ from \in DOMAIN fs /\ Renamed(fs, from, to)[p] = fs[from]
  BY DEF Renamed, IsFiles

-----------------------------------------------------------------------------
(* The records of one file. *)

\* A record of time t may follow those of an index file.
Fits(data, t) ==
    Len(data) >= 2 /\ (\A i \in 2 .. Len(data) : IsRecord(data[i])) =>
        /\ data[Len(data)].time <= t /\ t <= data[Len(data)].time + MAX_GAP
        /\ data[2].time <= t /\ t < data[2].time + SEG_TIME

LEMMA NewFileWellTimed == WellTimed(<< >>) /\ WellTimed(<<Zero>>)
  BY DEF WellTimed, Continuous, Bounded

LEMMA NewFileFits == \A t : Fits(<< >>, t) /\ Fits(<<Zero>>, t)
  BY DEF Fits

\* The record at the start of the file does not count.
LEMMA SameRecordsWellTimed ==
    ASSUME NEW d \in Seq(Record), NEW e \in Seq(Record), Len(d) = Len(e),
           \A i \in 2 .. Len(d) : e[i] = d[i],
           WellTimed(d)
    PROVE  WellTimed(e)
  <1> SUFFICES ASSUME \A i \in 2 .. Len(e) : IsRecord(e[i])
               PROVE  Continuous(e) /\ Bounded(e)
      BY DEF WellTimed
  <1>1. Continuous(d) /\ Bounded(d)
      BY DEF WellTimed
  <1>2. \A i \in 2 .. Len(d) - 1 : e[i] = d[i] /\ e[i + 1] = d[i + 1]
      OBVIOUS
  <1>3. Continuous(e)
      BY <1>1, <1>2 DEF Continuous
  <1>4. Len(d) >= 2 => e[2] = d[2]
      OBVIOUS
  <1>5. Bounded(e)
      BY <1>1, <1>4 DEF Bounded
  <1> QED BY <1>3, <1>5

LEMMA AppendWellTimed ==
    ASSUME NEW d \in Seq(Record), NEW r \in Record,
           WellTimed(d), IsRecord(r) => Fits(d, r.time)
    PROVE  WellTimed(Append(d, r))
  <1> DEFINE e == Append(d, r)
  <1>1. e \in Seq(Record) /\ Len(e) = Len(d) + 1 /\ Len(d) \in Nat
        /\ e[Len(d) + 1] = r /\ \A i \in 1 .. Len(d) : e[i] = d[i]
      OBVIOUS
  <1> HIDE DEF e
  <1> SUFFICES ASSUME \A i \in 2 .. Len(e) : IsRecord(e[i])
               PROVE  Continuous(e) /\ Bounded(e)
      BY DEF WellTimed, e
  <1>2. CASE Len(d) = 0
      BY <1>1, <1>2 DEF Continuous, Bounded
  <1>3. CASE Len(d) = 1
    <2>1. e[2] = r /\ r.time \in Nat
        BY <1>1, <1>3 DEF Record
    <2> QED BY <1>1, <1>3, <2>1, RecorderAssumption DEF Continuous, Bounded
  <1>4. CASE Len(d) >= 2
    <2>1. \A i \in 2 .. Len(d) : IsRecord(d[i])
        BY <1>1
    <2>2. IsRecord(r)
        BY <1>1, <1>4
    <2>3. Continuous(d) /\ Bounded(d)
        BY <2>1 DEF WellTimed
    <2>4. /\ d[Len(d)].time <= r.time /\ r.time <= d[Len(d)].time + MAX_GAP
          /\ d[2].time <= r.time /\ r.time < d[2].time + SEG_TIME
        BY <2>1, <2>2, <1>4 DEF Fits
    <2>5. e[2] = d[2] /\ e[Len(d)] = d[Len(d)]
        BY <1>1, <1>4
    <2>6. Continuous(e)
      <3> SUFFICES ASSUME NEW i \in 2 .. Len(e) - 1
                   PROVE  e[i].time <= e[i + 1].time
                          /\ e[i + 1].time <= e[i].time + MAX_GAP
          BY DEF Continuous
      <3>1. CASE i = Len(d)
          BY <3>1, <2>4, <2>5, <1>1
      <3>2. CASE i # Len(d)
        <4>1. i \in 2 .. Len(d) - 1 /\ e[i] = d[i] /\ e[i + 1] = d[i + 1]
            BY <3>2, <1>1
        <4> QED BY <4>1, <2>3 DEF Continuous
      <3> QED BY <3>1, <3>2
    <2>7. Bounded(e)
      <3> SUFFICES ASSUME NEW i \in 2 .. Len(e)
                   PROVE  e[2].time <= e[i].time /\ e[i].time < e[2].time + SEG_TIME
          BY DEF Bounded
      <3>1. CASE i = Len(d) + 1
          BY <3>1, <2>4, <2>5, <1>1
      <3>2. CASE i # Len(d) + 1
        <4>1. i \in 2 .. Len(d) /\ e[i] = d[i]
            BY <3>2, <1>1
        <4> QED BY <4>1, <2>3, <2>5 DEF Bounded
      <3> QED BY <3>1, <3>2
    <2> QED BY <2>6, <2>7
  <1> QED BY <1>1, <1>2, <1>3, <1>4

-----------------------------------------------------------------------------
(* The inductive invariant. *)

\* What a step of storage_one_frame knows from the steps before it.
CallInv ==
    /\ pc # "idle" => cur.ch \in Channels
    /\ pc \notin {"idle", "write", "release"} => cur.type = "I"
    /\ \/ crecord = Zero
       \/ /\ pc \in {"rename_video", "rename_index", "seal_video", "seal_index",
                     "seal_init", "write", "index"}
          /\ cur.type = "I" /\ crecord.time = cur.time
    /\ pc \in {"open_video", "open_index", "open_init", "again_video", "again_index",
              "rename_video", "rename_index", "seal_video", "seal_index", "seal_init",
              "index"} => HasSlot(cur.ch)
    /\ pc = "write" /\ cur.type = "I" => HasSlot(cur.ch)
    /\ pc = "channel_day" => cur.ch \in chanDir /\ ~HasSlot(cur.ch)
    /\ pc \in {"rename_video", "rename_index"} => seg.name # Tmp
    /\ pc = "rename_index" => slot[MySlot].vt = NoFd /\ slot[MySlot].it = NoFd
    /\ \A i \in SlotIds : slot[i].channel = 0 => slot[i].vt = NoFd /\ slot[i].it = NoFd

\* After a seal tmp.index is a new file.
NewAfterSeal ==
    /\ pc \in {"seal_video", "seal_index"} => TmpOf(cur) \notin DOMAIN index
    /\ pc = "seal_init" /\ slot[MySlot].it # NoFd => index[slot[MySlot].it] = << >>

\* When the frame is about to be written its record may be appended: what makes
\* the continuity of the files inductive.
RecordFits ==
    /\ pc \in {"write", "index"} /\ cur.type = "I" /\ HasSlot(cur.ch)
    /\ slot[MySlot].it # NoFd
    => Fits(index[slot[MySlot].it], cur.time)

Continuity == SegmentsContinuous /\ NewAfterSeal /\ RecordFits

RecorderInv ==
    TypeOK /\ SlotsOwnTheirFiles /\ CallInv /\ (~RenameMayFail => Continuity)

LEMMA InitInv == Init => RecorderInv
  <1> SUFFICES ASSUME Init PROVE RecorderInv
      OBVIOUS
  <1>1. TypeOK
      BY RecorderAssumption, NoFdType
      DEF Init, TypeOK, IsFiles, Frame, Record, Zero, FreeSlot, SlotIds
  <1>2. SlotsOwnTheirFiles
      BY DEF Init, SlotsOwnTheirFiles, FreeSlot
  <1>3. CallInv /\ Continuity
      BY DEF Init, CallInv, Continuity, SegmentsContinuous, NewAfterSeal, RecordFits,
             FreeSlot
  <1> QED BY <1>1, <1>2, <1>3 DEF RecorderInv

\* The slot of the frame's channel.
LEMMA MySlotIs ==
    ASSUME HasSlot(cur.ch)
    PROVE  MySlot \in SlotIds /\ slot[MySlot].channel = cur.ch
  BY FirstSlotMatches DEF HasSlot, MySlot, SlotOf

\* There is no other: after slot i is opened for a channel it is the channel's.
LEMMA OnlySlot ==
    ASSUME NEW slots, NEW ch \in Channels, NEW i \in SlotIds,
           slots[i].channel = ch,
           \A j \in SlotIds : j # i => slots[j].channel # ch
    PROVE  FirstSlot(slots, ch) = i
  BY FirstSlotMatches

\* The record get_current_index_record makes has the frame's time if any.
LEMMA CurrentRecordType ==
    ASSUME TypeOK, SlotsOwnTheirFiles, HasSlot(cur.ch),
           crecord = Zero \/ crecord.time = cur.time
    PROVE  /\ CurrentRecord \in Record
           /\ CurrentRecord = Zero \/ CurrentRecord.time = cur.time
  <1>1. PICK i \in SlotIds : i = MySlot
      BY MySlotIs
  <1>2. slot[i].vt # NoFd => video[slot[i].vt] \in Seq(Frame)
      BY DEF SlotsOwnTheirFiles, TypeOK, IsFiles
  <1>3. cur.time \in Nat /\ crecord \in Record
      BY DEF TypeOK, Frame
  <1>4. CASE slot[i].vt = NoFd
      BY <1>1, <1>3, <1>4 DEF CurrentRecord
  <1>5. CASE slot[i].vt # NoFd
    <2>1. CurrentRecord = [time |-> cur.time, at |-> Len(video[slot[i].vt])]
        BY <1>1, <1>5 DEF CurrentRecord
    <2>2. Len(video[slot[i].vt]) \in Nat
        BY <1>2, <1>5
    <2> QED BY <1>3, <2>1, <2>2 DEF Record
  <1> QED BY <1>4, <1>5

LEMMA PosAtEndType ==
    ASSUME TypeOK, SlotsOwnTheirFiles, HasSlot(cur.ch), PosAtEnd
    PROVE  pos' \in [SlotIds -> Nat]
  <1>1. PICK i \in SlotIds : i = MySlot
      BY MySlotIs
  <1>2. slot[i].vt # NoFd => Len(video[slot[i].vt]) \in Nat
      BY DEF SlotsOwnTheirFiles, TypeOK, IsFiles
  <1>3. pos \in [SlotIds -> Nat]
      BY DEF TypeOK
  <1> QED BY <1>1, <1>2, <1>3 DEF PosAtEnd

\* It stays the same slot as long as no slot changes its channel.
LEMMA SameSlot ==
    ASSUME SlotsOwnTheirFiles, HasSlot(cur.ch), cur.ch \in Channels, UNCHANGED cur,
           \A j \in SlotIds : slot'[j].channel = slot[j].channel
    PROVE  HasSlot(cur.ch)' /\ MySlot' = MySlot
  <1>1. PICK i \in SlotIds : i = MySlot /\ slot[i].channel = cur.ch
      BY MySlotIs
  <1>2. \A j \in SlotIds : j # i => slot[j].channel # cur.ch
      BY <1>1, RecorderAssumption DEF SlotsOwnTheirFiles
  <1>3. FirstSlot(slot', cur.ch) = i
      BY <1>1, <1>2, OnlySlot
  <1> QED BY <1>1, <1>3 DEF HasSlot, MySlot, SlotOf

-----------------------------------------------------------------------------
(* The steps before the segment is examined. *)

LEMMA CallStep ==
    ASSUME RecorderInv, NEW type \in {"I", "P"}, NEW ch \in Channels,
           NEW time \in 1 .. MaxTime, Call(type, ch, time)
    PROVE  RecorderInv'
  <1>1. TypeOK'
    <2>1. cur' \in Frame
        BY RecorderAssumption DEF RecorderInv, TypeOK, Call, Frame
    <2> QED BY <2>1 DEF RecorderInv, TypeOK, IsFiles, Call, files, dirs
  <1>2. SlotsOwnTheirFiles'
      BY DEF RecorderInv, SlotsOwnTheirFiles, Call, files, dirs
  <1>3. CallInv'
      BY DEF RecorderInv, Call, CallInv
  <1>4. ASSUME ~RenameMayFail PROVE Continuity'
      BY <1>4 DEF RecorderInv, Continuity, SegmentsContinuous, NewAfterSeal,
                  RecordFits, Call, files
  <1> QED BY <1>1, <1>2, <1>3, <1>4 DEF RecorderInv

\* A step that leaves the files alone and is not next to the write.
LEMMA ContinuityKept ==
    ASSUME Continuity, UNCHANGED index,
           pc' \notin {"seal_video", "seal_index", "seal_init", "write", "index"}
    PROVE  Continuity'
  BY DEF Continuity, SegmentsContinuous, NewAfterSeal, RecordFits

LEMMA MakeChannelDirStep ==
    ASSUME RecorderInv, MakeChannelDir
    PROVE  RecorderInv'
  <1> USE DEF RecorderInv
  <1>1. /\ UNCHANGED <<video, index, dayDir, slot, pos, cur, seg, crecord, accepted,
                       crashes>>
        /\ cur.ch \in Channels /\ cur.ch \notin chanDir
        /\ chanDir' = chanDir \cup {cur.ch} /\ pc = "prepare" /\ pc' = "channel_day"
      BY DEF MakeChannelDir, CallInv, files
  <1>2. TypeOK' /\ SlotsOwnTheirFiles'
      BY <1>1 DEF TypeOK, IsFiles, SlotsOwnTheirFiles
  <1>3. ~HasSlot(cur.ch)
      BY <1>1, RecorderAssumption DEF HasSlot, SlotsOwnTheirFiles
  <1>4. CallInv'
      BY <1>1, <1>3 DEF CallInv, HasSlot
  <1> QED BY <1>1, <1>2, <1>4, ContinuityKept

LEMMA MakeChannelDayStep ==
    ASSUME RecorderInv, MakeChannelDay
    PROVE  RecorderInv'
  <1> USE DEF RecorderInv
  <1>1. /\ UNCHANGED <<video, index, chanDir, pos, cur, seg, crecord, accepted,
                       crashes>>
        /\ cur.ch \in Channels /\ cur.ch \in chanDir /\ ~HasSlot(cur.ch)
        /\ dayDir' = dayDir \cup {<<cur.ch, Day(cur.time)>>}
        /\ pc = "channel_day" /\ pc' \in {"open_video", "tmp"}
        /\ cur.type = "I" /\ crecord = Zero /\ cur.ch # 0
      BY RecorderAssumption DEF MakeChannelDay, CallInv, files
  <1>2. dayDir' \subseteq Channels \X Nat
    <2>1. Day(cur.time) \in Nat
        BY DayType DEF TypeOK, Frame
    <2> QED BY <1>1, <2>1 DEF TypeOK
  <1>3. /\ slot' \in [SlotIds -> [channel : Channels \cup {0}, vt : Path, it : Path]]
        /\ SlotsOwnTheirFiles'
        /\ pc' = "open_video" => HasSlot(cur.ch)'
        /\ (\A i \in SlotIds : slot[i].channel = 0 => slot[i].vt = NoFd
                                                     /\ slot[i].it = NoFd)'
    <2>1. CASE HasSlot(0) /\ slot' = [slot EXCEPT ![SlotOf(0)].channel = cur.ch]
      <3>1. PICK i \in SlotIds : i = SlotOf(0) /\ slot[i].channel = 0
          BY <2>1, FirstSlotMatches DEF HasSlot, SlotOf
      <3>2. /\ slot' \in [SlotIds -> [channel : Channels \cup {0}, vt : Path, it : Path]]
            /\ slot'[i] = [channel |-> cur.ch, vt |-> slot[i].vt, it |-> slot[i].it]
            /\ \A j \in SlotIds : j # i => slot'[j] = slot[j]
          BY <1>1, <2>1, <3>1 DEF TypeOK
      <3>3. \A j \in SlotIds : slot[j].channel # cur.ch
          BY <1>1 DEF HasSlot
      <3>4. slot[i].vt = NoFd /\ slot[i].it = NoFd
          BY <3>1 DEF CallInv
      <3>5. SlotsOwnTheirFiles'
          BY <1>1, <3>1, <3>2, <3>3, <3>4 DEF SlotsOwnTheirFiles
      <3> QED BY <3>2, <3>5, <1>1 DEF HasSlot, CallInv
    <2>2. CASE pc' = "tmp" /\ UNCHANGED slot
        BY <1>1, <2>2 DEF SlotsOwnTheirFiles, TypeOK, CallInv
    <2> QED BY <2>1, <2>2 DEF MakeChannelDay
  <1>4. TypeOK'
      BY <1>1, <1>2, <1>3 DEF TypeOK, IsFiles
  <1>5. CallInv'
      BY <1>1, <1>3 DEF CallInv
  <1> QED BY <1>1, <1>3, <1>4, <1>5, ContinuityKept

LEMMA MakeDayDirStep ==
    ASSUME RecorderInv, MakeDayDir
    PROVE  RecorderInv'
  <1> USE DEF RecorderInv
  <1>1. /\ UNCHANGED <<video, index, chanDir, slot, pos, cur, seg, crecord, accepted,
                       crashes>>
        /\ cur.ch \in Channels
        /\ dayDir' = dayDir \cup {<<cur.ch, Day(cur.time)>>}
        /\ pc = "prepare" /\ pc' = IF HasSlot(cur.ch) THEN "open_video" ELSE "tmp"
      BY DEF MakeDayDir, CallInv, files
  <1>2. dayDir' \subseteq Channels \X Nat
    <2>1. Day(cur.time) \in Nat
        BY DayType DEF TypeOK, Frame
    <2> QED BY <1>1, <2>1 DEF TypeOK
  <1>3. TypeOK' /\ SlotsOwnTheirFiles'
      BY <1>1, <1>2 DEF TypeOK, IsFiles, SlotsOwnTheirFiles
  <1>4. CallInv'
      BY <1>1 DEF CallInv, HasSlot
  <1> QED BY <1>1, <1>3, <1>4, ContinuityKept

LEMMA CheckTmpStep ==
    ASSUME RecorderInv, CheckTmp
    PROVE  RecorderInv'
  <1> USE DEF RecorderInv
  <1>1. /\ UNCHANGED <<video, index, chanDir, dayDir, slot, pos, cur, seg, crecord,
                       accepted, crashes>>
        /\ pc \in {"prepare", "tmp"} /\ pc' \in {"again_video", "examine"}
        /\ pc' = "again_video" => HasSlot(cur.ch)
      BY DEF CheckTmp, BothClosed, files, dirs
  <1>2. TypeOK' /\ SlotsOwnTheirFiles'
      BY <1>1 DEF TypeOK, IsFiles, SlotsOwnTheirFiles
  <1>3. CallInv'
      BY <1>1 DEF CallInv, HasSlot
  <1> QED BY <1>1, <1>2, <1>3, ContinuityKept

-----------------------------------------------------------------------------
(* open_tmp and init_index_tmp. *)

\* The slot's channel has the tmp files of its frame.
LEMMA OpenResultsAre ==
    ASSUME TypeOK, NEW fd \in OpenResults(TmpOf(cur))
    PROVE  fd \in Path /\ (fd # NoFd => fd = TmpOf(cur) /\ fd.ch = cur.ch)
  BY TmpOfType, NoFdType DEF OpenResults, TypeOK

LEMMA OpenVideoStep ==
    ASSUME RecorderInv, OpenVideo
    PROVE  RecorderInv'
  <1> USE DEF RecorderInv
  <1>1. /\ UNCHANGED <<index, chanDir, dayDir, cur, seg, crecord, accepted, crashes>>
        /\ cur.ch \in Channels /\ cur.ch # 0 /\ HasSlot(cur.ch) /\ cur.type = "I"
        /\ pc \in {"open_video", "again_video", "seal_video"}
        /\ pc' \in {"open_index", "again_index", "seal_index"}
        /\ pc' = "seal_index" <=> pc = "seal_video"
      BY RecorderAssumption DEF OpenVideo, CallInv, After, dirs
  <1>2. PICK i \in SlotIds : i = MySlot /\ slot[i].channel = cur.ch
      BY <1>1, MySlotIs
  <1>3. PICK vt \in OpenResults(TmpOf(cur)) :
            /\ slot' = [slot EXCEPT ![i].vt = vt]
            /\ pos' = [pos EXCEPT ![i] = 0]
            /\ video' = Opened(video, vt)
      BY <1>2 DEF OpenVideo
  <1>4. vt \in Path /\ (vt # NoFd => vt.ch = cur.ch)
      BY OpenResultsAre
  <1>5. /\ slot' \in [SlotIds -> [channel : Channels \cup {0}, vt : Path, it : Path]]
        /\ slot'[i] = [channel |-> cur.ch, vt |-> vt, it |-> slot[i].it]
        /\ \A j \in SlotIds : j # i => slot'[j] = slot[j]
        /\ pos' \in [SlotIds -> Nat]
      BY <1>2, <1>3, <1>4 DEF TypeOK
  <1>6. IsFiles(video', Frame) /\ DOMAIN video' = DOMAIN video \cup ({vt} \ {NoFd})
      BY <1>3, <1>4, OpenedType DEF TypeOK
  <1>7. TypeOK'
      BY <1>1, <1>5, <1>6 DEF TypeOK, IsFiles
  <1>8. SlotsOwnTheirFiles'
      BY <1>1, <1>2, <1>4, <1>5, <1>6 DEF SlotsOwnTheirFiles
  <1>9. HasSlot(cur.ch)'
      BY <1>1, <1>2, <1>5, SameSlot
  <1>10. CallInv'
      BY <1>1, <1>5, <1>9 DEF CallInv
  <1>11. ASSUME ~RenameMayFail PROVE Continuity'
      BY <1>11, <1>1 DEF Continuity, SegmentsContinuous, NewAfterSeal, RecordFits
  <1> QED BY <1>7, <1>8, <1>10, <1>11

LEMMA OpenIndexStep ==
    ASSUME RecorderInv, OpenIndex
    PROVE  RecorderInv'
  <1> USE DEF RecorderInv
  <1>1. /\ UNCHANGED <<video, chanDir, dayDir, pos, cur, seg, crecord, accepted, crashes>>
        /\ cur.ch \in Channels /\ cur.ch # 0 /\ HasSlot(cur.ch) /\ cur.type = "I"
        /\ pc \in {"open_index", "again_index", "seal_index"}
        /\ pc' \in {"open_init", "examine", "seal_init"}
        /\ pc' = "seal_init" <=> pc = "seal_index"
      BY RecorderAssumption DEF OpenIndex, CallInv, After, dirs
  <1>2. PICK i \in SlotIds : i = MySlot /\ slot[i].channel = cur.ch
      BY <1>1, MySlotIs
  <1>3. PICK it \in OpenResults(TmpOf(cur)) :
            /\ slot' = [slot EXCEPT ![i].it = it]
            /\ index' = Opened(index, it)
      BY <1>2 DEF OpenIndex
  <1>4. it \in Path /\ (it # NoFd => it = TmpOf(cur) /\ it.ch = cur.ch)
      BY OpenResultsAre
  <1>5. /\ slot' \in [SlotIds -> [channel : Channels \cup {0}, vt : Path, it : Path]]
        /\ slot'[i] = [channel |-> cur.ch, vt |-> slot[i].vt, it |-> it]
        /\ \A j \in SlotIds : j # i => slot'[j] = slot[j]
      BY <1>2, <1>3, <1>4 DEF TypeOK
  <1>6. /\ IsFiles(index', Record) /\ DOMAIN index' = DOMAIN index \cup ({it} \ {NoFd})
        /\ \A p \in DOMAIN index : index'[p] = index[p]
        /\ \A p \in DOMAIN index' \ DOMAIN index : index'[p] = << >>
    <2>1. IsFiles(index', Record) /\ DOMAIN index' = DOMAIN index \cup ({it} \ {NoFd})
        BY <1>3, <1>4, OpenedType DEF TypeOK
    <2> QED BY <2>1, <1>3 DEF Opened
  <1>7. TypeOK'
      BY <1>1, <1>5, <1>6 DEF TypeOK, IsFiles
  <1>8. SlotsOwnTheirFiles'
      BY <1>1, <1>2, <1>4, <1>5, <1>6 DEF SlotsOwnTheirFiles
  <1>9. HasSlot(cur.ch)' /\ MySlot' = i
      BY <1>1, <1>2, <1>5, SameSlot
  <1>10. CallInv'
      BY <1>1, <1>5, <1>9 DEF CallInv
  <1>11. ASSUME ~RenameMayFail PROVE Continuity'
    <2>1. SegmentsContinuous'
        BY <1>11, <1>6, NewFileWellTimed DEF Continuity, SegmentsContinuous
    <2>2. pc' = "seal_init" /\ it # NoFd => index'[it] = << >>
        BY <1>11, <1>1, <1>4, <1>6 DEF Continuity, NewAfterSeal
    <2> QED BY <2>1, <2>2, <1>1, <1>5, <1>9 DEF Continuity, NewAfterSeal, RecordFits
  <1> QED BY <1>7, <1>8, <1>10, <1>11

LEMMA InitIndexStep ==
    ASSUME RecorderInv, InitIndex
    PROVE  RecorderInv'
  <1> USE DEF RecorderInv
  <1>1. /\ UNCHANGED <<video, chanDir, dayDir, slot, pos, cur, crecord, accepted, crashes>>
        /\ cur.ch \in Channels /\ HasSlot(cur.ch) /\ cur.type = "I"
        /\ pc \in {"open_init", "seal_init"} /\ pc' \in {"tmp", "write"}
        /\ pc' = "write" <=> pc = "seal_init"
        /\ seg' = NoFd
      BY DEF InitIndex, CallInv, After, dirs
  <1>2. PICK i \in SlotIds : i = MySlot /\ slot[i].channel = cur.ch
      BY <1>1, MySlotIs
  <1>3. index' = Initialised(index, slot[i].it) \/ UNCHANGED index
      BY <1>2 DEF InitIndex
  <1>4. /\ slot[i].it \in Path /\ (slot[i].it # NoFd => slot[i].it \in DOMAIN index)
        /\ IsFiles(index, Record)
      BY <1>2 DEF TypeOK, SlotsOwnTheirFiles
  <1>5. IsFiles(index', Record) /\ DOMAIN index' = DOMAIN index
      BY <1>3, <1>4, InitialisedType
  <1>6. TypeOK'
      BY <1>1, <1>5, NoFdType DEF TypeOK, IsFiles
  <1>7. SlotsOwnTheirFiles'
      BY <1>1, <1>5 DEF SlotsOwnTheirFiles
  <1>8. HasSlot(cur.ch)' /\ MySlot' = i
      BY <1>1, <1>2, SameSlot
  <1>9. CallInv'
      BY <1>1, <1>8 DEF CallInv
  <1>10. ASSUME ~RenameMayFail PROVE Continuity'
    <2>1. \A p \in DOMAIN index : WellTimed(index[p])
        BY <1>10 DEF Continuity, SegmentsContinuous
    <2>2. ASSUME NEW p \in DOMAIN index PROVE WellTimed(index'[p])
      <3>1. CASE UNCHANGED index \/ p # slot[i].it \/ slot[i].it = NoFd
        <4>1. index'[p] = index[p]
            BY <3>1, <1>3, <1>4, InitialisedType DEF Initialised
        <4> QED BY <4>1, <2>1
      <3>2. CASE /\ index' = Initialised(index, slot[i].it)
                 /\ p = slot[i].it /\ slot[i].it # NoFd
        <4>1. index[p] \in Seq(Record) /\ index'[p] \in Seq(Record)
            BY <1>4, <1>5 DEF IsFiles
        <4>2. CASE index[p] = << >>
            BY <4>2, <3>2, <1>4, InitialisedType, NewFileWellTimed
        <4>3. CASE index[p] # << >>
          <5>1. /\ Len(index'[p]) = Len(index[p])
                /\ \A k \in 2 .. Len(index[p]) : index'[p][k] = index[p][k]
              BY <4>3, <3>2, <1>4, InitialisedType
          <5> QED BY <5>1, <4>1, <2>1, SameRecordsWellTimed
        <4> QED BY <4>2, <4>3
      <3> QED BY <3>1, <3>2, <1>3
    <2>3. SegmentsContinuous'
        BY <2>2, <1>5 DEF SegmentsContinuous
    <2>4. ASSUME pc' = "write", slot[i].it # NoFd PROVE Fits(index'[slot[i].it], cur.time)
      <3>1. index[slot[i].it] = << >>
          BY <1>10, <2>4, <1>1, <1>2 DEF Continuity, NewAfterSeal
      <3>2. index'[slot[i].it] \in {<< >>, <<Zero>>}
        <4>1. Initialised(index, slot[i].it)[slot[i].it] = <<Zero>>
            BY <3>1, <2>4, <1>4, InitialisedType
        <4> QED BY <3>1, <4>1, <1>3
      <3> QED BY <3>2, NewFileFits
    <2> QED BY <2>3, <2>4, <1>1, <1>8 DEF Continuity, NewAfterSeal, RecordFits
  <1> QED BY <1>6, <1>7, <1>9, <1>10

-----------------------------------------------------------------------------
(* Examining the segment. *)

\* The examining steps move pc and choose the segment's name only.
LEMMA ExamineStep ==
    ASSUME RecorderInv, ExamineSegment
    PROVE  RecorderInv'
  <1> USE DEF RecorderInv
  <1>1. PICK step \in {"idle", "release", "write", "rename_video"} : Examine(step)
      BY DEF ExamineSegment, ExamineFails, ExamineNoSlot, ExamineFirst,
             ExamineDiscontinuous, ExamineContinuous
  <1>2. UNCHANGED <<video, index, chanDir, dayDir, slot, cur, accepted, crashes>>
        /\ pc = "examine" /\ pc' = step /\ cur.ch \in Channels
        /\ cur.type = "I" /\ crecord = Zero
      BY <1>1 DEF Examine, files, dirs, CallInv
  <1>3. HasSlot(cur.ch) /\ CanReadLast
          => SegmentName \in Path /\ SegmentName.name # Tmp
    <2> SUFFICES ASSUME HasSlot(cur.ch), CanReadLast
                 PROVE  SegmentName \in Path /\ SegmentName.name # Tmp
        OBVIOUS
    <2>1. MySlot \in SlotIds /\ slot[MySlot].it \in DOMAIN index
        BY MySlotIs DEF CanReadLast, SlotsOwnTheirFiles
    <2>2. Records \in Seq(Record) /\ Len(Records) >= 1
        BY <2>1 DEF Records, TypeOK, IsFiles, CanReadLast
    <2>3. FirstTime \in Nat /\ LastTime \in Nat
      <3>1. \A r \in Record : r.time \in Nat
          BY DEF Record
      <3>2. Records[Len(Records)] \in Record
            /\ (Len(Records) >= 2 => Records[2] \in Record)
          BY <2>2
      <3> QED BY <3>1, <3>2 DEF FirstTime, LastTime
    <2>4. Day(cur.time) \in Nat /\ cur.ch \in Channels \cup {0}
        BY DayType DEF TypeOK, Frame
    <2> QED BY <2>3, <2>4, DayType, TmpIsNoPair DEF SegmentName, Path
  <1>4. step = "rename_video" => /\ seg' = SegmentName
                                 /\ HasSlot(cur.ch) /\ CanReadLast
      BY <1>2 DEF ExamineSegment, ExamineFails, ExamineNoSlot, ExamineFirst,
                  ExamineDiscontinuous, ExamineContinuous, Examine, CanReadLastFront
  <1>5. step # "rename_video" => seg' = seg
      BY <1>2 DEF ExamineSegment, ExamineFails, ExamineNoSlot, ExamineFirst,
                  ExamineDiscontinuous, ExamineContinuous, Examine
  <1>6. /\ pos' \in [SlotIds -> Nat] /\ crecord' \in Record
        /\ crecord' = Zero \/ (step \in {"rename_video", "write"}
                                /\ crecord'.time = cur.time)
    <2>1. CASE NoLookup
        BY <2>1, <1>2 DEF NoLookup, TypeOK
    <2>2. CASE /\ HasSlot(cur.ch) /\ crecord' = CurrentRecord /\ PosAtEnd
               /\ step \in {"rename_video", "write"}
        BY <2>2, <1>2, CurrentRecordType, PosAtEndType DEF RecorderInv
    <2> QED BY <2>1, <2>2, <1>2 DEF ExamineSegment, ExamineFails, ExamineNoSlot,
               ExamineFirst, ExamineDiscontinuous, ExamineContinuous, Examine
  <1>7. TypeOK' /\ SlotsOwnTheirFiles'
    <2>1. TypeOK'
        BY <1>2, <1>3, <1>4, <1>5, <1>6 DEF TypeOK, IsFiles
    <2> QED BY <2>1, <1>2 DEF SlotsOwnTheirFiles
  <1>8. step = "write" => HasSlot(cur.ch)
      BY <1>2 DEF ExamineSegment, ExamineFails, ExamineNoSlot, ExamineFirst,
                  ExamineDiscontinuous, ExamineContinuous, Examine
  <1>9. CallInv'
      BY <1>2, <1>3, <1>4, <1>6, <1>8 DEF CallInv, HasSlot
  <1>10. RecordFits'
    <2> SUFFICES ASSUME step = "write", HasSlot(cur.ch), slot[MySlot].it # NoFd
                 PROVE  Fits(Records, cur.time)
        BY <1>2 DEF RecordFits, HasSlot, MySlot, SlotOf, Records
    <2>1. \/ CanReadLast /\ LastTime = 0
          \/ CanReadLastFront /\ ~Discontinuous /\ ~SegmentFull
        BY <1>2 DEF ExamineSegment, ExamineFails, ExamineNoSlot, ExamineFirst,
                    ExamineDiscontinuous, ExamineContinuous, Examine
    <2>2. CASE CanReadLast /\ LastTime = 0
      <3>1. Records \in Seq(Record)
        <4>1. MySlot \in SlotIds /\ slot[MySlot].it \in DOMAIN index
            BY MySlotIs DEF SlotsOwnTheirFiles
        <4> QED BY <4>1 DEF Records, TypeOK, IsFiles
      <3> QED BY <2>2, <3>1 DEF LastTime, Fits, IsRecord
    <2>3. CASE CanReadLastFront /\ ~Discontinuous /\ ~SegmentFull
      <3>1. CurrentRecord.time = cur.time \/ CurrentRecord.time = 0
          BY <1>2 DEF CurrentRecord, Zero
      <3>2. CASE CurrentRecord.time = cur.time
          BY <3>2, <2>3 DEF CanReadLastFront, Discontinuous, SegmentFull,
                            FirstTime, LastTime, Fits
      <3>3. CASE CurrentRecord.time = 0
        <4>1. Records[2].time = 0 \/ ~(Len(Records) >= 2)
          <5>1. MySlot \in SlotIds /\ slot[MySlot].it \in DOMAIN index
              BY MySlotIs DEF SlotsOwnTheirFiles
          <5>2. Records \in Seq(Record)
              BY <5>1 DEF Records, TypeOK, IsFiles
          <5>3. Len(Records) >= 2 => Records[2].time \in Nat
            <6>1. \A rec \in Record : rec.time \in Nat
                BY DEF Record
            <6> QED BY <5>2, <6>1
          <5> QED BY <5>3, <3>3, <2>3 DEF SegmentFull, FirstTime
        <4> QED BY <4>1 DEF Fits, IsRecord
      <3> QED BY <3>1, <3>2, <3>3
    <2> QED BY <2>1, <2>2, <2>3
  <1>11. ASSUME ~RenameMayFail PROVE Continuity'
      BY <1>11, <1>2, <1>10 DEF Continuity, SegmentsContinuous, NewAfterSeal
  <1> QED BY <1>7, <1>9, <1>11

-----------------------------------------------------------------------------
(* Sealing. *)

LEMMA RenameVideoStep ==
    ASSUME RecorderInv, RenameVideo
    PROVE  RecorderInv'
  <1> USE DEF RecorderInv
  <1>1. /\ cur.ch \in Channels /\ cur.ch # 0 /\ HasSlot(cur.ch) /\ seg.name # Tmp
        /\ UNCHANGED <<index, chanDir, dayDir, cur, seg, crecord, accepted, crashes>>
        /\ pc = "rename_video" /\ pc' = "rename_index"
      BY RecorderAssumption DEF RenameVideo, CallInv, dirs
  <1>2. PICK i \in SlotIds : i = MySlot /\ slot[i].channel = cur.ch
      BY <1>1, MySlotIs
  <1>3. TmpOf(cur) \in Path /\ TmpOf(cur).ch = cur.ch /\ seg \in Path
      BY TmpOfType DEF TypeOK
  <1>4. /\ slot' \in [SlotIds -> [channel : Channels \cup {0}, vt : Path, it : Path]]
        /\ pos' \in [SlotIds -> Nat]
        /\ slot'[i] = [channel |-> cur.ch, vt |-> NoFd, it |-> NoFd]
        /\ \A j \in SlotIds : j # i => slot'[j] = slot[j]
      BY <1>1, <1>2, NoFdType DEF RenameVideo, TypeOK
  <1>5. \A j \in SlotIds : j # i => slot[j].channel # cur.ch
      BY <1>1, <1>2 DEF SlotsOwnTheirFiles
  <1>6. IsFiles(video', Frame) /\ DOMAIN video \ {TmpOf(cur)} \subseteq DOMAIN video'
    <2>1. CASE UNCHANGED video
        BY <2>1 DEF TypeOK
    <2>2. CASE video' = Renamed(video, TmpOf(cur), seg)
        BY <2>2, <1>3, RenamedType DEF TypeOK
    <2> QED BY <2>1, <2>2 DEF RenameVideo
  <1>7. TypeOK'
      BY <1>1, <1>4, <1>6 DEF TypeOK, IsFiles
  <1>8. SlotsOwnTheirFiles'
    <2>1. (\A j, k \in SlotIds : j # k /\ slot[j].channel = slot[k].channel
                                   => slot[j].channel = 0)'
        BY <1>2, <1>4, <1>5 DEF SlotsOwnTheirFiles
    <2>2. ASSUME NEW j \in SlotIds, j # i
          PROVE  /\ slot[j].channel # 0 => slot[j].channel \in chanDir
                 /\ slot[j].vt # NoFd => /\ slot[j].vt \in DOMAIN video'
                                         /\ slot[j].vt.ch = slot[j].channel
                 /\ slot[j].it # NoFd => /\ slot[j].it \in DOMAIN index
                                         /\ slot[j].it.ch = slot[j].channel
      <3>1. slot[j].vt # NoFd => slot[j].vt # TmpOf(cur)
          BY <1>3, <1>5, <2>2 DEF SlotsOwnTheirFiles
      <3> QED BY <3>1, <1>6 DEF SlotsOwnTheirFiles
    <2>3. cur.ch \in chanDir
        BY <1>1, <1>2 DEF SlotsOwnTheirFiles
    <2> QED BY <2>1, <2>2, <2>3, <1>1, <1>4 DEF SlotsOwnTheirFiles
  <1>9. HasSlot(cur.ch)' /\ MySlot' = i
      BY <1>1, <1>2, <1>4, SameSlot
  <1>10. CallInv'
      BY <1>1, <1>4, <1>9 DEF CallInv, HasSlot
  <1> QED BY <1>1, <1>7, <1>8, <1>10, ContinuityKept

LEMMA RenameIndexStep ==
    ASSUME RecorderInv, RenameIndex
    PROVE  RecorderInv'
  <1> USE DEF RecorderInv
  <1>1. /\ cur.ch \in Channels /\ cur.ch # 0 /\ HasSlot(cur.ch) /\ seg.name # Tmp
        /\ slot[MySlot].vt = NoFd /\ slot[MySlot].it = NoFd
        /\ UNCHANGED <<video, chanDir, dayDir, slot, pos, cur, seg, crecord,
                       accepted, crashes>>
        /\ pc = "rename_index" /\ pc' = "seal_video"
      BY RecorderAssumption DEF RenameIndex, CallInv, dirs
  <1>2. PICK i \in SlotIds : i = MySlot /\ slot[i].channel = cur.ch
      BY <1>1, MySlotIs
  <1>3. TmpOf(cur) \in Path /\ TmpOf(cur).ch = cur.ch /\ seg \in Path
        /\ TmpOf(cur) # seg
      BY <1>1, TmpOfType DEF TypeOK
  <1>4. /\ IsFiles(index', Record) /\ DOMAIN index \ {TmpOf(cur)} \subseteq DOMAIN index'
        /\ ~RenameMayFail => TmpOf(cur) \notin DOMAIN index'
        /\ \A p \in DOMAIN index' :
              \/ p \in DOMAIN index /\ index'[p] = index[p]
              \/ TmpOf(cur) \in DOMAIN index /\ index'[p] = index[TmpOf(cur)]
    <2>1. CASE RenameMayFail /\ UNCHANGED index
        BY <2>1 DEF TypeOK
    <2>2. CASE index' = Renamed(index, TmpOf(cur), seg)
      <3>1. IsFiles(index, Record)
          BY DEF TypeOK
      <3> QED BY <2>2, <3>1, <1>3, RenamedType
    <2> QED BY <2>1, <2>2 DEF RenameIndex
  <1>5. TypeOK'
      BY <1>1, <1>4 DEF TypeOK, IsFiles
  <1>6. SlotsOwnTheirFiles'
    <2>1. ASSUME NEW j \in SlotIds, slot[j].it # NoFd
          PROVE  slot[j].it \in DOMAIN index'
      <3>1. slot[j].channel # cur.ch
          BY <1>1, <1>2, <2>1 DEF SlotsOwnTheirFiles
      <3> QED BY <3>1, <2>1, <1>3, <1>4 DEF SlotsOwnTheirFiles
    <2> QED BY <2>1, <1>1 DEF SlotsOwnTheirFiles
  <1>7. HasSlot(cur.ch)'
      BY <1>1, SameSlot
  <1>8. CallInv'
      BY <1>1, <1>7 DEF CallInv
  <1>9. ASSUME ~RenameMayFail PROVE Continuity'
    <2>1. SegmentsContinuous'
        BY <1>9, <1>4 DEF Continuity, SegmentsContinuous
    <2>2. TmpOf(cur)' = TmpOf(cur)
        BY <1>1
    <2> QED BY <2>1, <2>2, <1>9, <1>1, <1>4 DEF Continuity, NewAfterSeal, RecordFits
  <1> QED BY <1>5, <1>6, <1>8, <1>9

-----------------------------------------------------------------------------
(* Storing the frame. *)

LEMMA WrittenType ==
    ASSUME NEW S, NEW data \in Seq(S), NEW n \in Nat, NEW x \in S
    PROVE  Written(data, n, x) \in Seq(S)
  <1>1. CASE n < Len(data)
    <2>1. [data EXCEPT ![n + 1] = x] \in Seq(S)
        BY <1>1, ExceptSeq
    <2> QED BY <1>1, <2>1 DEF Written
  <1>2. CASE ~(n < Len(data))
      BY <1>2 DEF Written
  <1> QED BY <1>1, <1>2

LEMMA WriteFrameStep ==
    ASSUME RecorderInv, WriteFrame
    PROVE  RecorderInv'
  <1> USE DEF RecorderInv
  <1>1. /\ pc = "write" /\ pc' = IF cur.type = "I" THEN "index" ELSE "release"
        /\ UNCHANGED <<index, chanDir, dayDir, slot, cur, seg, crecord, accepted,
                       crashes>>
      BY DEF WriteFrame, dirs
  <1>2. IsFiles(video', Frame) /\ DOMAIN video' = DOMAIN video
        /\ pos' \in [SlotIds -> Nat]
    <2>1. CASE UNCHANGED <<video, pos>>
        BY <2>1 DEF TypeOK
    <2>2. CASE /\ VideoOpen
               /\ video' = [video EXCEPT ![slot[MySlot].vt] =
                                            Written(@, pos[MySlot], cur)]
               /\ pos' = [pos EXCEPT ![MySlot] = @ + 1]
      <3>1. PICK i \in SlotIds : i = MySlot /\ slot[i].vt # NoFd
          BY <2>2, MySlotIs DEF VideoOpen
      <3>2. /\ slot[i].vt \in DOMAIN video /\ video[slot[i].vt] \in Seq(Frame)
            /\ pos \in [SlotIds -> Nat] /\ cur \in Frame
          BY <3>1 DEF SlotsOwnTheirFiles, TypeOK, IsFiles
      <3>3. Written(video[slot[i].vt], pos[i], cur) \in Seq(Frame)
          BY <3>2, WrittenType
      <3>4. video' = [video EXCEPT ![slot[i].vt] =
                                     Written(video[slot[i].vt], pos[i], cur)]
          BY <2>2, <3>1
      <3>5. IsFiles(video, Frame)
          BY DEF TypeOK
      <3>6. IsFiles(video', Frame) /\ DOMAIN video' = DOMAIN video
          BY <3>3, <3>4, <3>5 DEF IsFiles
      <3> QED BY <2>2, <3>1, <3>2, <3>6
    <2> QED BY <2>1, <2>2 DEF WriteFrame
  <1>3. TypeOK'
      BY <1>1, <1>2 DEF TypeOK, IsFiles
  <1>4. SlotsOwnTheirFiles'
      BY <1>1, <1>2 DEF SlotsOwnTheirFiles
  <1>5. HasSlot(cur.ch)' = HasSlot(cur.ch) /\ MySlot' = MySlot
      BY <1>1 DEF HasSlot, MySlot, SlotOf
  <1>6. CallInv'
      BY <1>1, <1>5 DEF CallInv
  <1>7. ASSUME ~RenameMayFail PROVE Continuity'
      BY <1>7, <1>1, <1>5 DEF Continuity, SegmentsContinuous, NewAfterSeal, RecordFits
  <1> QED BY <1>3, <1>4, <1>6, <1>7

LEMMA PutIndexRecordStep ==
    ASSUME RecorderInv, PutIndexRecord
    PROVE  RecorderInv'
  <1> USE DEF RecorderInv
  <1>1. /\ pc = "index" /\ pc' = "release" /\ cur.type = "I" /\ HasSlot(cur.ch)
        /\ UNCHANGED <<video, chanDir, dayDir, slot, cur, seg, accepted, crashes>>
        /\ PosAtEnd /\ crecord' = Zero
      BY DEF PutIndexRecord, CallInv, dirs
  <1>2. PICK i \in SlotIds : i = MySlot /\ slot[i].channel = cur.ch
      BY <1>1, MySlotIs
  <1>3. /\ IsFiles(index', Record) /\ DOMAIN index' = DOMAIN index
        /\ ~RenameMayFail => SegmentsContinuous'
    <2>1. CASE UNCHANGED index
        BY <2>1 DEF TypeOK, Continuity, SegmentsContinuous
    <2>2. CASE index' = Appended(index, slot[i].it, CurrentRecord)
      <3>1. IsFiles(index, Record) /\ slot[i].it \in Path /\ CurrentRecord \in Record
        <4>1. CurrentRecord \in Record
            BY <1>1, CurrentRecordType DEF CallInv
        <4> QED BY <4>1 DEF TypeOK
      <3>2. /\ IsFiles(index', Record) /\ DOMAIN index' = DOMAIN index
            /\ \A p \in DOMAIN index : p # slot[i].it => index'[p] = index[p]
            /\ slot[i].it \in DOMAIN index /\ slot[i].it # NoFd =>
                 index'[slot[i].it] = Append(index[slot[i].it], CurrentRecord)
          BY <3>1, <2>2, AppendedType
      <3>3. ASSUME ~RenameMayFail, NEW p \in DOMAIN index PROVE WellTimed(index'[p])
        <4>1. CASE p # slot[i].it \/ p = NoFd
          <5>1. index'[p] = index[p]
              BY <4>1, <3>2, <2>2 DEF Appended
          <5> QED BY <3>3, <5>1 DEF Continuity, SegmentsContinuous
        <4>2. CASE p = slot[i].it /\ p # NoFd
          <5>1. /\ index'[p] = Append(index[p], CurrentRecord)
                /\ index[p] \in Seq(Record) /\ WellTimed(index[p])
              BY <3>3, <4>2, <3>1, <3>2 DEF Continuity, SegmentsContinuous, IsFiles
          <5>2. IsRecord(CurrentRecord) => Fits(index[p], CurrentRecord.time)
            <6>1. IsRecord(CurrentRecord) => CurrentRecord.time = cur.time
                BY <1>1, CurrentRecordType DEF CallInv, IsRecord, Zero
            <6> QED BY <3>3, <6>1, <1>1, <1>2, <4>2 DEF Continuity, RecordFits
          <5> QED BY <5>1, <5>2, <3>1, AppendWellTimed
        <4> QED BY <4>1, <4>2
      <3> QED BY <3>2, <3>3 DEF SegmentsContinuous
    <2> QED BY <2>1, <2>2, <1>2 DEF PutIndexRecord
  <1>4. TypeOK'
    <2>1. pos' \in [SlotIds -> Nat] /\ crecord' \in Record
        BY <1>1, PosAtEndType DEF Zero, Record
    <2> QED BY <2>1, <1>1, <1>3 DEF TypeOK, IsFiles
  <1>5. SlotsOwnTheirFiles'
      BY <1>1, <1>3 DEF SlotsOwnTheirFiles
  <1>6. CallInv'
      BY <1>1 DEF CallInv
  <1>7. ASSUME ~RenameMayFail PROVE Continuity'
      BY <1>7, <1>1, <1>3 DEF Continuity, NewAfterSeal, RecordFits
  <1> QED BY <1>4, <1>5, <1>6, <1>7

LEMMA ReleaseStep ==
    ASSUME RecorderInv, Release
    PROVE  RecorderInv'
  <1> USE DEF RecorderInv
  <1>1. /\ pc' = "idle"
        /\ UNCHANGED <<video, index, chanDir, dayDir, slot, pos, cur, seg, crecord,
                       crashes>>
        /\ crecord = Zero
      BY DEF Release, files, dirs, CallInv
  <1>2. accepted' \in Seq(Frame)
      BY DEF Release, TypeOK
  <1>3. TypeOK'
      BY <1>1, <1>2 DEF TypeOK, IsFiles
  <1>4. SlotsOwnTheirFiles' /\ CallInv'
      BY <1>1 DEF SlotsOwnTheirFiles, CallInv
  <1> QED BY <1>1, <1>3, <1>4, ContinuityKept

-----------------------------------------------------------------------------
LEMMA RestartStep ==
    ASSUME RecorderInv, Restart
    PROVE  RecorderInv'
  <1> USE DEF RecorderInv
  <1>1. /\ pc' = "idle" /\ crashes' \in Nat
        /\ slot' = [i \in SlotIds |-> FreeSlot] /\ crecord' = Zero
        /\ pos' = [i \in SlotIds |-> 0]
        /\ seg' = NoFd /\ accepted' = << >>
        /\ UNCHANGED <<video, index, chanDir, dayDir, cur>>
      BY DEF Restart, files, dirs, TypeOK
  <1>2. TypeOK'
      BY <1>1, NoFdType DEF TypeOK, IsFiles, FreeSlot, Zero, Record
  <1>3. SlotsOwnTheirFiles'
      BY <1>1 DEF SlotsOwnTheirFiles, FreeSlot
  <1>4. CallInv'
      BY <1>1 DEF CallInv, FreeSlot
  <1> QED BY <1>1, <1>2, <1>3, <1>4, ContinuityKept

LEMMA StutterStep ==
    ASSUME RecorderInv, UNCHANGED vars
    PROVE  RecorderInv'
  <1>1. UNCHANGED <<video, index, chanDir, dayDir, slot, pos, pc, cur, seg, crecord,
                    accepted, crashes>>
      BY DEF vars
  <1>2. TypeOK'
      BY <1>1 DEF RecorderInv, TypeOK, IsFiles
  <1>3. SlotsOwnTheirFiles'
      BY <1>1 DEF RecorderInv, SlotsOwnTheirFiles
  <1>4. HasSlot(cur.ch)' = HasSlot(cur.ch) /\ MySlot' = MySlot
        /\ TmpOf(cur)' = TmpOf(cur)
      BY <1>1 DEF HasSlot, MySlot, SlotOf
  <1>5. CallInv'
      BY <1>1, <1>4 DEF RecorderInv, CallInv
  <1>6. ASSUME ~RenameMayFail PROVE Continuity'
      BY <1>6, <1>1, <1>4 DEF RecorderInv, Continuity, SegmentsContinuous,
                              NewAfterSeal, RecordFits
  <1> QED BY <1>2, <1>3, <1>5, <1>6 DEF RecorderInv

\* The invariant is kept by every step, and so holds in every reachable state.
THEOREM RecorderInvariant == Spec => []RecorderInv
  <1>1. Init => RecorderInv
      BY InitInv
  <1>2. RecorderInv /\ [Next]_vars => RecorderInv'
    <2> SUFFICES ASSUME RecorderInv, [Next]_vars PROVE RecorderInv'
        OBVIOUS
    <2>1. ASSUME NEW type \in {"I", "P"}, NEW ch \in Channels,
                 NEW time \in 1 .. MaxTime, Call(type, ch, time)
          PROVE  RecorderInv'
        BY <2>1, CallStep
    <2>2. CASE Prepare
        BY <2>2, MakeChannelDirStep, MakeChannelDayStep, MakeDayDirStep, CheckTmpStep
        DEF Prepare
    <2>3. CASE Open
        BY <2>3, OpenVideoStep, OpenIndexStep, InitIndexStep DEF Open
    <2>4. CASE ExamineSegment \/ Seal
        BY <2>4, ExamineStep, RenameVideoStep, RenameIndexStep DEF Seal
    <2>5. CASE Store
        BY <2>5, WriteFrameStep, PutIndexRecordStep, ReleaseStep DEF Store
    <2>6. CASE Restart
        BY <2>6, RestartStep
    <2>7. CASE UNCHANGED vars
        BY <2>7, StutterStep
    <2> QED BY <2>1, <2>2, <2>3, <2>4, <2>5, <2>6, <2>7 DEF Next
  <1> QED BY <1>1, <1>2, PTL DEF Spec

\* As long as every rename succeeds, no index file, open or sealed, ever has a gap of
\* more than MAX_GAP seconds or spans SEG_TIME seconds (p4storagefun.c:409-505), for
\* every number of channels and slots, every SEG_TIME and MAX_GAP, however the clock
\* jumps, whichever open() and write() fails, that of init_index_tmp included, and
\* between whichever two effects the process is killed.
THEOREM SegmentsAlwaysContinuous ==
    ASSUME RenameMayFail = FALSE
    PROVE  Spec => []SegmentsContinuous
  <1>1. RecorderInv => SegmentsContinuous
      BY DEF RecorderInv, Continuity
  <1> QED BY <1>1, RecorderInvariant, PTL

\* Whichever open(), write() and rename() fails, every index file holds whole records
\* and every video file whole frames, channel_tmp names channels and paths only, and
\* storage_one_frame is at one of its steps.
THEOREM RecorderStaysTyped == Spec => []TypeOK
  <1>1. RecorderInv => TypeOK
      BY DEF RecorderInv
  <1> QED BY <1>1, RecorderInvariant, PTL

\* Two slots never have one channel, and a slot never has a file open that was
\* renamed away or belongs to another channel (p4storagefun.c:288-361, 409-488),
\* whichever open(), write() and rename() fails.
THEOREM SlotsAlwaysOwnTheirFiles == Spec => []SlotsOwnTheirFiles
  <1>1. RecorderInv => SlotsOwnTheirFiles
      BY DEF RecorderInv
  <1> QED BY <1>1, RecorderInvariant, PTL
=============================================================================
