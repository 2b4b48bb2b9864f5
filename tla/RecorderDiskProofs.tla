------------------------- MODULE RecorderDiskProofs -------------------------
(***************************************************************************)
(* Proofs about the files Recorder leaves on the disk, wherever the        *)
(* process is killed, as long as open(), write() and rename() do what they *)
(* are asked and the encoder's clock is not set back (NoFaults).           *)
(***************************************************************************)
EXTENDS RecorderProofs

NoFaults == /\ OpenMayFail = FALSE /\ DiskMayFill = FALSE /\ RenameMayFail = FALSE
            /\ ClockMayStepBack = FALSE

-----------------------------------------------------------------------------
(* The inductive invariant. *)

\* The directories of a channel: none is of a day to come, and every file is in one.
DirsKnown ==
    /\ \A x \in dayDir : x[1] \in chanDir /\ x[2] <= Day(cur.time)
    /\ \A p \in DOMAIN video \cup DOMAIN index : <<p.ch, p.day>> \in dayDir
    /\ pc \notin {"idle", "prepare", "channel_day"} /\ cur.type = "I" =>
          <<cur.ch, Day(cur.time)>> \in dayDir
    /\ pc = "channel_day" => \A x \in dayDir : x[1] # cur.ch

\* A slot in use has the tmp files of its channel's last day open, at their end,
Current(i) ==
    /\ slot[i].vt = slot[i].it /\ slot[i].vt.name = Tmp /\ slot[i].vt # NoFd
    /\ pos[i] = Len(video[slot[i].vt]) /\ index[slot[i].it] # << >>
    /\ <<slot[i].channel, slot[i].vt.day>> \in dayDir
    /\ \A x \in dayDir : x[1] = slot[i].channel => x[2] <= slot[i].vt.day

\* but for the time its files are being made.
Opening == pc \in {"open_video", "open_index", "open_init",
                   "seal_video", "seal_index", "seal_init"}
Unready == Opening \/ pc = "rename_index"
SlotsCurrent ==
    \A i \in SlotIds : /\ slot[i].channel # 0
                       /\ Unready => slot[i].channel # cur.ch
                       => Current(i)

\* The index files by the names they will have once the seal is done.
Moving == pc = "rename_index"
IndexNames == IF Moving THEN (DOMAIN index \ {TmpOf(cur)}) \cup {seg} ELSE DOMAIN index
IndexOf(p) == IF Moving /\ p = seg THEN index[TmpOf(cur)] ELSE index[p]

\* The video and index files of the channels in use come in pairs.
HalfMade(p) == pc \in {"open_index", "seal_index"} /\ p = TmpOf(cur)
FilesMatch ==
    \A p \in DOMAIN video \cup IndexNames :
        p.ch # 0 /\ HasSlot(p.ch) /\ ~HalfMade(p) =>
            p \in DOMAIN video /\ p \in IndexNames

PointsAt(records, frames) ==
    \A i \in 1 .. Len(records) :
        LET r == records[i]
        IN  IsRecord(r) => /\ r.at \in 1 .. Len(frames)
                           /\ frames[r.at].type = "I"
                           /\ frames[r.at].time = r.time

RecordsPoint == \A p \in IndexNames \cap DOMAIN video : PointsAt(IndexOf(p), video[p])

\* The records of an index file are in order and of its day.
Timed(data, day) ==
    /\ Len(data) >= 1 => data[1] = Zero
    /\ \A i \in 2 .. Len(data) :
          /\ IsRecord(data[i]) /\ Day(data[i].time) = day
          /\ data[2].time <= data[i].time /\ data[i].time <= data[Len(data)].time

RecordsTimed ==
    /\ cur.time # 0
    /\ \A p \in DOMAIN index :
          /\ Timed(index[p], p.day)
          /\ \A i \in 2 .. Len(index[p]) : index[p][i].time <= cur.time

\* The name of a segment with these records.
NameOf(data) == <<TimeOfDay(data[2].time), TimeOfDay(data[Len(data)].time)>>

SealedAsNamed ==
    \A p \in Sealed(index) : Len(index[p]) >= 2 /\ p.name = NameOf(index[p])

\* All records of p are earlier than t.
Before(p, t) == \A i \in 2 .. Len(index[p]) : index[p][i].time < t

\* The frame starts the segment of its channel that is open.
Starting(ch) == pc \in {"write", "index"} /\ cur.type = "I" /\ cur.ch = ch

\* The segment a slot has open is the channel's last.
OpenIsLast ==
    \A i \in SlotIds : \A q \in DOMAIN index :
        LET p == slot[i].it
        IN  /\ slot[i].channel # 0 /\ p # NoFd /\ q # p /\ q.ch = slot[i].channel
            /\ Opening => slot[i].channel # cur.ch
            =>
                IF Len(index[p]) >= 2
                THEN Before(q, index[p][2].time)
                ELSE q.day < p.day \/ (Starting(q.ch) /\ Before(q, cur.time))

\* The segment that is sealed, and what is still to come.
SealInHand ==
    /\ pc \in {"rename_video", "rename_index"} =>
          /\ TmpOf(cur) \in DOMAIN index /\ Len(index[TmpOf(cur)]) >= 2
          /\ seg = [TmpOf(cur) EXCEPT !.name = NameOf(index[TmpOf(cur)])]
    /\ Moving => seg \notin DOMAIN index
    /\ pc \in {"rename_video", "rename_index", "seal_video", "seal_index", "seal_init"} =>
          \A q \in DOMAIN index : q.ch = cur.ch => Before(q, cur.time)

\* The files that are made, one after the other: new ones, of a day that is the
\* channel's last or behind a seal.
OpenInHand ==
    /\ pc \notin {"again_video", "again_index"}
    /\ pc \in {"open_video", "open_index", "open_init"} =>
          \A q \in DOMAIN index :
              q.ch = cur.ch /\ q # TmpOf(cur) => q.day < Day(cur.time)
    /\ pc \in {"open_video", "seal_video"} => TmpOf(cur) \notin DOMAIN video
    /\ pc \in {"open_video", "seal_video", "open_index", "seal_index"} =>
          TmpOf(cur) \notin DOMAIN index
    /\ pc \in {"open_index", "seal_index", "open_init", "seal_init"} =>
          /\ TmpOf(cur) \in DOMAIN video /\ video[TmpOf(cur)] = << >>
          /\ slot[MySlot].vt = TmpOf(cur) /\ pos[MySlot] = 0
    /\ pc \in {"open_init", "seal_init"} =>
          /\ TmpOf(cur) \in DOMAIN index /\ index[TmpOf(cur)] = << >>
          /\ slot[MySlot].it = TmpOf(cur)

\* Is the frame still to be written?
Unwritten == pc \notin {"idle", "index", "release"}

FramesNumbered ==
    /\ Unwritten => cur.n > 0
    /\ \A p \in DOMAIN video :
          /\ \A k \in 1 .. Len(video[p]) :
                /\ video[p][k].ch = p.ch
                /\ video[p][k].n <= cur.n /\ (Unwritten => video[p][k].n < cur.n)
          /\ Len(video[p]) <= cur.n /\ (Unwritten => Len(video[p]) < cur.n)

FramesOnce ==
    \A p, q \in DOMAIN video :
        p # q => \A k \in 1 .. Len(video[p]), l \in 1 .. Len(video[q]) :
                    video[p][k].n # video[q][l].n

FramesOrdered ==
    \A p \in DOMAIN video :
        \A k \in 1 .. Len(video[p]) - 1 : video[p][k].n < video[p][k + 1].n

\* The frame just written is the last, and no record points there yet.
JustWritten ==
    pc = "index" =>
        LET frames  == video[TmpOf(cur)]
            records == index[TmpOf(cur)]
        IN  /\ Len(frames) >= 1 /\ frames[Len(frames)] = cur
            /\ \A i \in 2 .. Len(records) : records[i].at < Len(frames)

DiskInv ==
    /\ DirsKnown /\ SlotsCurrent /\ FilesMatch /\ RecordsPoint
    /\ RecordsTimed /\ SealedAsNamed /\ SegmentsDisjoint
    /\ OpenIsLast /\ SealInHand /\ OpenInHand
    /\ FramesNumbered /\ FramesOnce /\ FramesOrdered /\ JustWritten

-----------------------------------------------------------------------------
(* Times, types and the slot of the frame's channel. *)

LEMMA DayOrder ==
    ASSUME NEW s \in Nat, NEW t \in Nat
    PROVE  /\ s <= t => Day(s) <= Day(t)
           /\ Day(s) < Day(t) => s < t
           /\ Day(s) = Day(t) /\ TimeOfDay(s) = TimeOfDay(t) => s = t
  <1> DEFINE a == Day(s)
             b == Day(t)
             m == TimeOfDay(s)
             n == TimeOfDay(t)
  <1>1. DAY_LEN \in Nat /\ DAY_LEN > 0
      BY RecorderAssumption
  <1>2. /\ s = DAY_LEN * a + m /\ a \in Nat /\ m \in 0 .. DAY_LEN - 1
        /\ t = DAY_LEN * b + n /\ b \in Nat /\ n \in 0 .. DAY_LEN - 1
      BY <1>1 DEF Day, TimeOfDay
  <1> HIDE DEF a, b, m, n
  <1>3. a < b => DAY_LEN * a + DAY_LEN <= DAY_LEN * b
    <2>1. DAY_LEN * (a + 1) = DAY_LEN * a + DAY_LEN
        BY <1>1, <1>2
    <2>2. \A c, d \in Nat : c <= d => DAY_LEN * c <= DAY_LEN * d
        BY <1>1
    <2> QED BY <1>2, <2>1, <2>2
  <1>4. b < a => DAY_LEN * b + DAY_LEN <= DAY_LEN * a
    <2>1. DAY_LEN * (b + 1) = DAY_LEN * b + DAY_LEN
        BY <1>1, <1>2
    <2>2. \A c, d \in Nat : c <= d => DAY_LEN * c <= DAY_LEN * d
        BY <1>1
    <2> QED BY <1>2, <2>1, <2>2
  <1>5. DAY_LEN * a \in Nat /\ DAY_LEN * b \in Nat
      BY <1>1, <1>2
  <1>6. /\ s <= t => a <= b
        /\ a < b => s < t
        /\ a = b /\ m = n => s = t
      BY <1>1, <1>2, <1>3, <1>4, <1>5
  <1> QED BY <1>6 DEF a, b, m, n

LEMMA FileTypes ==
    ASSUME TypeOK
    PROVE  /\ \A p \in DOMAIN video : /\ p \in Path /\ video[p] \in Seq(Frame)
                                      /\ Len(video[p]) \in Nat
                                      /\ \A k \in 1 .. Len(video[p]) :
                                            /\ video[p][k] \in Frame
                                            /\ video[p][k].n \in Nat
           /\ \A p \in DOMAIN index : /\ p \in Path /\ index[p] \in Seq(Record)
                                      /\ Len(index[p]) \in Nat
                                      /\ \A k \in 1 .. Len(index[p]) :
                                            /\ index[p][k] \in Record
                                            /\ index[p][k].time \in Nat
                                            /\ index[p][k].at \in Nat
           /\ cur \in Frame /\ cur.n \in Nat /\ cur.time \in Nat
  <1>1. /\ \A p \in DOMAIN video : p \in Path /\ video[p] \in Seq(Frame)
        /\ \A p \in DOMAIN index : p \in Path /\ index[p] \in Seq(Record)
      BY DEF TypeOK, IsFiles
  <1>2. \A p \in DOMAIN video : \A k \in 1 .. Len(video[p]) : video[p][k] \in Frame
      BY <1>1
  <1>3. \A p \in DOMAIN index : \A k \in 1 .. Len(index[p]) : index[p][k] \in Record
      BY <1>1
  <1>4. /\ \A f \in Frame : f.n \in Nat /\ f.time \in Nat
        /\ \A r \in Record : r.time \in Nat /\ r.at \in Nat
      BY DEF Frame, Record
  <1> QED BY <1>1, <1>2, <1>3, <1>4, LenProperties DEF TypeOK

\* The slot of an I frame's channel has the tmp files of the frame's day open.
LEMMA AtSlot ==
    ASSUME RecorderInv, DiskInv, HasSlot(cur.ch), cur.type = "I", cur.ch # 0,
           pc \in {"examine", "rename_video", "write", "index"}
    PROVE  /\ MySlot \in SlotIds /\ slot[MySlot].channel = cur.ch
           /\ slot[MySlot] = [channel |-> cur.ch, vt |-> TmpOf(cur), it |-> TmpOf(cur)]
           /\ TmpOf(cur) \in DOMAIN video /\ TmpOf(cur) \in DOMAIN index
           /\ TmpOf(cur) # NoFd /\ index[TmpOf(cur)] # << >>
           /\ pos[MySlot] = Len(video[TmpOf(cur)])
  <1>1. PICK i \in SlotIds : i = MySlot /\ slot[i].channel = cur.ch
      BY MySlotIs
  <1>2. Current(i)
      BY <1>1 DEF DiskInv, SlotsCurrent, Unready, Opening
  <1>3. /\ slot[i].vt \in Path /\ slot[i].vt.ch = cur.ch /\ slot[i].vt \in DOMAIN video
        /\ slot[i].it \in DOMAIN index
        /\ slot[i] \in [channel : Channels \cup {0}, vt : Path, it : Path]
      BY <1>1, <1>2 DEF RecorderInv, TypeOK, SlotsOwnTheirFiles, Current
  <1>4. slot[i].vt.day = Day(cur.time)
    <2>1. <<cur.ch, Day(cur.time)>> \in dayDir
        BY DEF DiskInv, DirsKnown
    <2>2. Day(cur.time) <= slot[i].vt.day
        BY <2>1, <1>1, <1>2 DEF Current
    <2>3. slot[i].vt.day <= Day(cur.time)
        BY <1>1, <1>2 DEF Current, DiskInv, DirsKnown
    <2>4. Day(cur.time) \in Nat /\ slot[i].vt.day \in Nat
        BY <1>3, DayType DEF Path, RecorderInv, TypeOK, Frame
    <2> QED BY <2>2, <2>3, <2>4
  <1>5. slot[i].vt = TmpOf(cur)
      BY <1>2, <1>3, <1>4 DEF Current, Path, TmpOf
  <1> QED BY <1>1, <1>2, <1>3, <1>5 DEF Current
-----------------------------------------------------------------------------
LEMMA InitDisk == Init => DiskInv
  <1> SUFFICES ASSUME Init PROVE DiskInv
      OBVIOUS
  <1>1. DOMAIN video = {} /\ DOMAIN index = {} /\ dayDir = {} /\ pc = "idle"
        /\ cur.time = 1 /\ \A i \in SlotIds : slot[i].channel = 0
      BY DEF Init, FreeSlot
  <1>2. DirsKnown /\ SlotsCurrent /\ FilesMatch /\ RecordsPoint
      BY <1>1 DEF DirsKnown, SlotsCurrent, FilesMatch, RecordsPoint, IndexNames, Moving
  <1>3. RecordsTimed /\ SealedAsNamed /\ SegmentsDisjoint /\ OpenIsLast /\ SealInHand
      BY <1>1 DEF RecordsTimed, SealedAsNamed, Sealed, SegmentsDisjoint, OpenIsLast,
                  SealInHand, Moving
  <1>4. FramesNumbered /\ FramesOnce /\ FramesOrdered /\ JustWritten /\ OpenInHand
      BY <1>1 DEF FramesNumbered, FramesOnce, FramesOrdered, JustWritten, Unwritten,
                  OpenInHand
  <1> QED BY <1>2, <1>3, <1>4 DEF DiskInv

LEMMA CallDisk ==
    ASSUME RecorderInv, DiskInv, NoFaults, NEW type \in {"I", "P"}, NEW ch \in Channels,
           NEW time \in 1 .. MaxTime, Call(type, ch, time)
    PROVE  DiskInv'
  <1>1. /\ pc = "idle" /\ pc' = IF type = "I" THEN "prepare" ELSE "write"
        /\ cur' = [n |-> cur.n + 1, type |-> type, ch |-> ch, time |-> time]
        /\ cur.time <= time
        /\ UNCHANGED <<video, index, chanDir, dayDir, slot, pos>>
      BY DEF Call, files, dirs, NoFaults
  <1>2. TypeOK /\ TypeOK' /\ DOMAIN video = DOMAIN video' /\ DOMAIN index = DOMAIN index'
      BY <1>1, CallStep DEF RecorderInv
  <1>3. /\ cur.n \in Nat /\ cur.time \in Nat /\ cur'.n = cur.n + 1
        /\ cur'.time = time /\ time \in Nat
      BY <1>1, <1>2, FileTypes, RecorderAssumption
  <1>4. DirsKnown'
    <2>1. Day(cur.time) <= Day(time) /\ Day(cur.time) \in Nat /\ Day(time) \in Nat
        BY <1>1, <1>3, DayOrder, DayType
    <2>2. \A x \in dayDir : x[2] \in Nat
        BY <1>2 DEF TypeOK
    <2> QED BY <2>1, <2>2, <1>1, <1>3 DEF DiskInv, DirsKnown
  <1>5. SlotsCurrent'
      BY <1>1 DEF DiskInv, SlotsCurrent, Current, Unready, Opening
  <1>6. FilesMatch' /\ RecordsPoint'
      BY <1>1 DEF DiskInv, FilesMatch, RecordsPoint, IndexNames, IndexOf, Moving, HasSlot,
                  HalfMade
  <1>7. RecordsTimed'
    <2>1. \A p \in DOMAIN index : \A i \in 2 .. Len(index[p]) :
              index[p][i].time \in Nat
        BY <1>2, FileTypes
    <2> QED BY <2>1, <1>1, <1>3 DEF DiskInv, RecordsTimed
  <1>8. SealedAsNamed' /\ SegmentsDisjoint'
      BY <1>1 DEF DiskInv, SealedAsNamed, Sealed, SegmentsDisjoint
  <1>9. OpenIsLast'
      BY <1>1 DEF DiskInv, OpenIsLast, Before, Starting, Opening
  <1>10. SealInHand' /\ JustWritten' /\ OpenInHand'
      BY <1>1 DEF SealInHand, JustWritten, Moving, OpenInHand
  <1>11. FramesNumbered'
    <2>1. ASSUME NEW p \in DOMAIN video
          PROVE  /\ \A k \in 1 .. Len(video[p]) :
                       /\ video[p][k].ch = p.ch
                       /\ video[p][k].n <= cur.n + 1 /\ video[p][k].n < cur.n + 1
                 /\ Len(video[p]) <= cur.n + 1 /\ Len(video[p]) < cur.n + 1
        BY <1>2, <1>3, FileTypes DEF DiskInv, FramesNumbered
    <2> QED BY <2>1, <1>1, <1>2, <1>3 DEF FramesNumbered
  <1>12. FramesOnce' /\ FramesOrdered'
      BY <1>1 DEF DiskInv, FramesOnce, FramesOrdered
  <1> QED BY <1>4, <1>5, <1>6, <1>7, <1>8, <1>9, <1>10, <1>11, <1>12 DEF DiskInv

\* After a restart no slot is in use: what was open stays as it is.
LEMMA RestartDisk ==
    ASSUME RecorderInv, DiskInv, Restart
    PROVE  DiskInv'
  <1>1. /\ pc' = "idle" /\ \A i \in SlotIds : slot'[i].channel = 0
        /\ UNCHANGED <<video, index, chanDir, dayDir, cur>>
      BY DEF Restart, files, dirs, FreeSlot
  <1>2. DirsKnown'
      BY <1>1 DEF DiskInv, DirsKnown
  <1>3. /\ SlotsCurrent' /\ FilesMatch' /\ OpenIsLast'
        /\ SealInHand' /\ OpenInHand' /\ JustWritten'
      BY <1>1 DEF SlotsCurrent, FilesMatch, HasSlot, OpenIsLast, SealInHand, OpenInHand,
                  JustWritten, Moving
  <1>4. RecordsPoint'
    <2> SUFFICES ASSUME NEW p \in DOMAIN index \cap DOMAIN video
                 PROVE  PointsAt(index[p], video[p])
        BY <1>1 DEF RecordsPoint, IndexNames, IndexOf, Moving
    <2>1. CASE Moving /\ p = TmpOf(cur)
      <3>1. p # seg /\ p \in DOMAIN video /\ p.ch = cur.ch
          BY <2>1 DEF DiskInv, SealInHand, TmpOf, Moving
      <3>2. HasSlot(cur.ch) /\ cur.ch \in Channels
          BY <2>1 DEF RecorderInv, CallInv, Moving
      <3> QED BY <3>1, <3>2, <2>1, RecorderAssumption
              DEF DiskInv, FilesMatch, IndexNames, HalfMade, Moving
    <2>2. CASE ~(Moving /\ p = TmpOf(cur))
      <3>1. p \in IndexNames /\ IndexOf(p) = index[p]
          BY <2>2 DEF IndexNames, IndexOf, DiskInv, SealInHand
      <3> QED BY <3>1 DEF DiskInv, RecordsPoint
    <2> QED BY <2>1, <2>2
  <1>5. RecordsTimed' /\ SealedAsNamed' /\ SegmentsDisjoint'
      BY <1>1 DEF DiskInv, RecordsTimed, SealedAsNamed, Sealed, SegmentsDisjoint
  <1>6. FramesNumbered' /\ FramesOnce' /\ FramesOrdered'
      BY <1>1 DEF DiskInv, FramesNumbered, FramesOnce, FramesOrdered, Unwritten
  <1> QED BY <1>2, <1>3, <1>4, <1>5, <1>6 DEF DiskInv

LEMMA StutterDisk ==
    ASSUME RecorderInv, DiskInv, UNCHANGED vars
    PROVE  DiskInv'
  <1>1. UNCHANGED <<video, index, chanDir, dayDir, slot, pos, pc, cur, seg, crecord,
                    accepted, crashes>>
      BY DEF vars
  <1>2. DirsKnown' /\ SlotsCurrent' /\ FilesMatch' /\ RecordsPoint'
      BY <1>1 DEF DiskInv, DirsKnown, SlotsCurrent, Current, Unready, Opening,
                  FilesMatch, HalfMade, RecordsPoint, IndexNames, IndexOf, Moving, HasSlot
  <1>3. RecordsTimed' /\ SealedAsNamed' /\ SegmentsDisjoint' /\ OpenIsLast' /\ SealInHand'
      BY <1>1 DEF DiskInv, RecordsTimed, SealedAsNamed, Sealed, SegmentsDisjoint,
                  OpenIsLast, Opening, Before, Starting, SealInHand, Moving
  <1>4. FramesNumbered'
      BY <1>1 DEF DiskInv, FramesNumbered, Unwritten
  <1>5. FramesOnce' /\ FramesOrdered' /\ JustWritten'
      BY <1>1 DEF DiskInv, FramesOnce, FramesOrdered, JustWritten
  <1>6. OpenInHand'
    <2>1. MySlot' = MySlot
        BY <1>1 DEF MySlot, SlotOf
    <2> QED BY <2>1, <1>1 DEF DiskInv, OpenInHand
  <1> QED BY <1>2, <1>3, <1>4, <1>5, <1>6 DEF DiskInv

-----------------------------------------------------------------------------
(* The steps that leave the files alone. *)

\* A step that touches no file, no slot and no frame.
Quiet ==
    /\ UNCHANGED <<video, index, slot, pos, cur>>
    /\ \/ pc = "prepare" /\ pc' \in {"channel_day", "examine"}
       \/ pc = "tmp" /\ pc' = "examine"
       \/ pc = "examine" /\ pc' \in {"idle", "rename_video", "write", "release"}
       \/ pc = "write" /\ cur.type = "P" /\ pc' = "release"
       \/ pc = "release" /\ pc' = "idle"

LEMMA QuietDisk ==
    ASSUME RecorderInv, DiskInv, Quiet
    PROVE  /\ FilesMatch' /\ RecordsPoint'
           /\ RecordsTimed' /\ SealedAsNamed' /\ SegmentsDisjoint'
           /\ OpenIsLast' /\ OpenInHand'
           /\ FramesNumbered' /\ FramesOnce' /\ FramesOrdered' /\ JustWritten'
           /\ pc' # "rename_video" => SealInHand'
           /\ UNCHANGED dayDir => SlotsCurrent'
           /\ UNCHANGED <<chanDir, dayDir>> /\ pc # "prepare" => DirsKnown'
  <1>1. /\ UNCHANGED <<video, index, slot, pos, cur>>
        /\ ~Moving /\ ~Moving' /\ ~Unready /\ ~Unready' /\ ~Opening /\ ~Opening'
        /\ pc' \notin {"rename_index", "index"}
        /\ pc' \notin {"again_video", "again_index"}
        /\ \A ch : ~Starting(ch)
        /\ \A p : ~HalfMade(p)
        /\ Unwritten' => Unwritten
      BY DEF Quiet, Moving, Unready, Opening, Starting, Unwritten, HalfMade
  <1>2. FilesMatch' /\ RecordsPoint'
      BY <1>1 DEF DiskInv, FilesMatch, RecordsPoint, IndexNames, IndexOf, HasSlot
  <1>3. RecordsTimed' /\ SealedAsNamed' /\ SegmentsDisjoint' /\ OpenIsLast'
      BY <1>1 DEF DiskInv, RecordsTimed, SealedAsNamed, Sealed, SegmentsDisjoint,
                  OpenIsLast, Before
  <1>4. FramesNumbered' /\ FramesOnce' /\ FramesOrdered' /\ JustWritten'
    <2>1. FramesNumbered'
        BY <1>1 DEF DiskInv, FramesNumbered
    <2> QED BY <2>1, <1>1 DEF DiskInv, FramesOnce, FramesOrdered, JustWritten
  <1>5. OpenInHand' /\ (pc' # "rename_video" => SealInHand')
      BY <1>1 DEF OpenInHand, SealInHand, Opening
  <1>6. ASSUME UNCHANGED dayDir PROVE SlotsCurrent'
      BY <1>1, <1>6 DEF DiskInv, SlotsCurrent, Current
  <1>7. ASSUME UNCHANGED <<chanDir, dayDir>>, pc # "prepare"
        PROVE  DirsKnown'
      BY <1>7 DEF DiskInv, DirsKnown, Quiet
  <1> QED BY <1>2, <1>3, <1>4, <1>5, <1>6, <1>7
-----------------------------------------------------------------------------
(* The frame's directories. *)

LEMMA MakeChannelDirDisk ==
    ASSUME RecorderInv, DiskInv, MakeChannelDir
    PROVE  DiskInv'
  <1>1. /\ Quiet /\ pc' = "channel_day" /\ cur.ch \notin chanDir
        /\ chanDir' = chanDir \cup {cur.ch}
        /\ UNCHANGED <<video, index, dayDir, cur>>
      BY DEF MakeChannelDir, Quiet, files
  <1>2. DirsKnown'
      BY <1>1 DEF DiskInv, DirsKnown
  <1> QED BY <1>1, <1>2, QuietDisk DEF DiskInv

\* The frame is the first of its day: the channel's files, if any, are older, and its
\* tmp files are opened next, or it has no slot.
DayMade ==
    /\ UNCHANGED <<video, index, chanDir, pos, cur>>
    /\ dayDir' = dayDir \cup {<<cur.ch, Day(cur.time)>>}
    /\ pc \in {"prepare", "channel_day"} /\ pc' \in {"open_video", "tmp"}
    /\ cur.ch \in chanDir /\ <<cur.ch, Day(cur.time)>> \notin dayDir
    /\ \A i \in SlotIds : slot'[i].channel # cur.ch => slot'[i] = slot[i]
    /\ pc' = "tmp" => ~HasSlot(cur.ch)'
    /\ pc' = "open_video" => HasSlot(cur.ch) \/ \A x \in dayDir : x[1] # cur.ch

LEMMA DayMadeDisk ==
    ASSUME RecorderInv, DiskInv, DayMade
    PROVE  DiskInv'
  <1> USE DEF DayMade
  <1>1. /\ ~Moving /\ ~Moving' /\ ~Unready /\ ~Opening
        /\ \A ch : ~Starting(ch) /\ ~Starting(ch)'
        /\ \A p : ~HalfMade(p) /\ ~HalfMade(p)'
        /\ Unwritten /\ Unwritten'
      BY DEF Moving, Unready, Opening, Starting, Unwritten, HalfMade
  <1>2. Day(cur.time) \in Nat
      BY DayType DEF RecorderInv, TypeOK, Frame
  <1>3. DirsKnown'
      BY <1>2 DEF DiskInv, DirsKnown
  <1>4. SlotsCurrent'
    <2> SUFFICES ASSUME NEW i \in SlotIds, slot'[i].channel # 0, slot'[i].channel # cur.ch
                 PROVE  Current(i)'
        BY DEF SlotsCurrent, Unready, Opening, HasSlot
    <2>1. slot'[i] = slot[i] /\ Current(i)
        BY <1>1 DEF DiskInv, SlotsCurrent
    <2> QED BY <2>1 DEF Current
  <1>5. ASSUME NEW p \in DOMAIN video \cup DOMAIN index, p.ch # 0, HasSlot(p.ch)'
        PROVE  p \in DOMAIN video /\ p \in DOMAIN index
    <2>1. HasSlot(p.ch)
      <3>1. CASE p.ch = cur.ch
        <4>1. <<p.ch, p.day>> \in dayDir
            BY DEF DiskInv, DirsKnown
        <4> QED BY <4>1, <3>1, <1>5
      <3>2. CASE p.ch # cur.ch
          BY <3>2, <1>5 DEF HasSlot
      <3> QED BY <3>1, <3>2
    <2> QED BY <2>1, <1>1, <1>5 DEF DiskInv, FilesMatch, IndexNames
  <1>6. FilesMatch' /\ RecordsPoint'
    <2>1. FilesMatch'
        BY <1>1, <1>5 DEF FilesMatch, IndexNames
    <2> QED BY <2>1, <1>1 DEF DiskInv, RecordsPoint, IndexNames, IndexOf
  <1>7. RecordsTimed' /\ SealedAsNamed' /\ SegmentsDisjoint'
      BY DEF DiskInv, RecordsTimed, SealedAsNamed, Sealed, SegmentsDisjoint
  <1>8. OpenIsLast'
    <2> SUFFICES ASSUME NEW i \in SlotIds, NEW q \in DOMAIN index,
                        slot'[i].channel # 0, slot'[i].channel # cur.ch,
                        slot'[i].it # NoFd, q # slot'[i].it, q.ch = slot'[i].channel
                 PROVE  IF Len(index[slot'[i].it]) >= 2
                        THEN Before(q, index[slot'[i].it][2].time)
                        ELSE q.day < slot'[i].it.day
        BY DEF OpenIsLast, Opening, HasSlot, Before
    <2> QED BY <1>1 DEF DiskInv, OpenIsLast
  <1>9. \A q \in DOMAIN video \cup DOMAIN index :
            q.ch = cur.ch => q.day < Day(cur.time)
    <2> SUFFICES ASSUME NEW q \in DOMAIN video \cup DOMAIN index, q.ch = cur.ch
                 PROVE  q.day < Day(cur.time)
        OBVIOUS
    <2>1. <<cur.ch, q.day>> \in dayDir
        BY DEF DiskInv, DirsKnown
    <2>2. q.day <= Day(cur.time) /\ q.day # Day(cur.time)
        BY <2>1 DEF DiskInv, DirsKnown
    <2>3. q.day \in Nat
        BY FileTypes DEF RecorderInv, Path
    <2> QED BY <2>2, <2>3, <1>2
  <1>10. SealInHand' /\ OpenInHand' /\ JustWritten'
    <2>1. TmpOf(cur) \notin DOMAIN video \cup DOMAIN index
        BY <1>2, <1>9 DEF TmpOf
    <2> QED BY <2>1, <1>1, <1>9 DEF SealInHand, OpenInHand, JustWritten
  <1>11. FramesNumbered' /\ FramesOnce' /\ FramesOrdered'
      BY <1>1 DEF DiskInv, FramesNumbered, FramesOnce, FramesOrdered
  <1> QED BY <1>3, <1>4, <1>6, <1>7, <1>8, <1>10, <1>11 DEF DiskInv

LEMMA MakeChannelDayDisk ==
    ASSUME RecorderInv, DiskInv, MakeChannelDay
    PROVE  DiskInv'
  <1>1. /\ pc = "channel_day" /\ cur.ch \in Channels /\ cur.ch # 0
        /\ cur.ch \in chanDir /\ ~HasSlot(cur.ch)
      BY RecorderAssumption DEF MakeChannelDay, RecorderInv, CallInv
  <1>2. /\ UNCHANGED <<video, index, chanDir, pos, cur>>
        /\ dayDir' = dayDir \cup {<<cur.ch, Day(cur.time)>>}
        /\ pc' \in {"open_video", "tmp"}
      BY DEF MakeChannelDay, files
  <1>3. \A x \in dayDir : x[1] # cur.ch
      BY <1>1 DEF DiskInv, DirsKnown
  <1>4. /\ \A i \in SlotIds : slot'[i].channel # cur.ch => slot'[i] = slot[i]
        /\ pc' = "tmp" => ~HasSlot(cur.ch)'
    <2>1. CASE HasSlot(0)
      <3>1. PICK i \in SlotIds : i = SlotOf(0)
          BY <2>1, FirstSlotMatches DEF HasSlot, SlotOf
      <3>2. slot' = [slot EXCEPT ![i].channel = cur.ch] /\ pc' = "open_video"
          BY <2>1, <3>1 DEF MakeChannelDay
      <3>3. slot \in [SlotIds -> [channel : Channels \cup {0}, vt : Path, it : Path]]
          BY DEF RecorderInv, TypeOK
      <3> QED BY <3>2, <3>3
    <2>2. CASE ~HasSlot(0)
        BY <2>2, <1>1, <1>2 DEF MakeChannelDay, HasSlot
    <2> QED BY <2>1, <2>2
  <1>5. DayMade
      BY <1>1, <1>2, <1>3, <1>4 DEF DayMade
  <1> QED BY <1>5, DayMadeDisk

LEMMA MakeDayDirDisk ==
    ASSUME RecorderInv, DiskInv, MakeDayDir
    PROVE  DiskInv'
  <1>1. /\ pc = "prepare" /\ cur.ch \in chanDir /\ <<cur.ch, Day(cur.time)>> \notin dayDir
        /\ dayDir' = dayDir \cup {<<cur.ch, Day(cur.time)>>}
        /\ pc' = IF HasSlot(cur.ch) THEN "open_video" ELSE "tmp"
        /\ UNCHANGED <<video, index, chanDir, slot, pos, cur>>
      BY DEF MakeDayDir, files
  <1>2. HasSlot(cur.ch)' <=> HasSlot(cur.ch)
      BY <1>1 DEF HasSlot
  <1>3. DayMade
      BY <1>1, <1>2 DEF DayMade
  <1> QED BY <1>3, DayMadeDisk

\* A slot in use has its files open: there is nothing to open again.
LEMMA CheckTmpDisk ==
    ASSUME RecorderInv, DiskInv, CheckTmp
    PROVE  DiskInv'
  <1>1. /\ pc \in {"prepare", "tmp"} /\ cur.ch # 0 /\ cur.type = "I"
        /\ UNCHANGED <<video, index, chanDir, dayDir, slot, pos, cur>>
        /\ <<cur.ch, Day(cur.time)>> \in dayDir
      BY RecorderAssumption
      DEF CheckTmp, RecorderInv, CallInv, DiskInv, DirsKnown, files, dirs
  <1>2. ~BothClosed
    <2> SUFFICES ASSUME BothClosed PROVE FALSE
        OBVIOUS
    <2>1. PICK i \in SlotIds : i = MySlot /\ slot[i].channel = cur.ch
        BY MySlotIs DEF BothClosed
    <2>2. Current(i)
        BY <1>1, <2>1 DEF DiskInv, SlotsCurrent, Unready, Opening
    <2> QED BY <2>1, <2>2 DEF BothClosed, Current
  <1>3. Quiet /\ pc' = "examine"
      BY <1>1, <1>2 DEF CheckTmp, Quiet
  <1>4. DirsKnown'
      BY <1>1, <1>3 DEF DiskInv, DirsKnown
  <1> QED BY <1>1, <1>3, <1>4, QuietDisk DEF DiskInv

-----------------------------------------------------------------------------
(* The frame's tmp files. *)

\* What the three steps that make them know.
LEMMA AtOpening ==
    ASSUME RecorderInv, DiskInv, Opening
    PROVE  /\ cur.ch \in Channels /\ cur.ch # 0 /\ cur.type = "I" /\ HasSlot(cur.ch)
           /\ MySlot \in SlotIds /\ slot[MySlot].channel = cur.ch
           /\ \A j \in SlotIds : j # MySlot => slot[j].channel # cur.ch
           /\ <<cur.ch, Day(cur.time)>> \in dayDir
           /\ TmpOf(cur).ch = cur.ch /\ TmpOf(cur).day = Day(cur.time)
           /\ TmpOf(cur).name = Tmp /\ TmpOf(cur) # NoFd
           /\ ~Moving /\ Unready /\ Unwritten /\ (\A ch : ~Starting(ch))
           /\ slot \in [SlotIds -> [channel : Channels \cup {0}, vt : Path, it : Path]]
           /\ pos \in [SlotIds -> Nat]
  <1>1. /\ cur.ch \in Channels /\ cur.ch # 0 /\ cur.type = "I" /\ HasSlot(cur.ch)
      BY RecorderAssumption DEF RecorderInv, CallInv, Opening
  <1>2. PICK i \in SlotIds : i = MySlot /\ slot[i].channel = cur.ch
      BY <1>1, MySlotIs
  <1>3. \A j \in SlotIds : j # i => slot[j].channel # cur.ch
      BY <1>1, <1>2 DEF RecorderInv, SlotsOwnTheirFiles
  <1>4. <<cur.ch, Day(cur.time)>> \in dayDir
      BY <1>1 DEF DiskInv, DirsKnown, Opening
  <1>5. /\ TmpOf(cur).ch = cur.ch /\ TmpOf(cur).day = Day(cur.time)
        /\ TmpOf(cur).name = Tmp /\ TmpOf(cur) # NoFd
      BY <1>1 DEF TmpOf, NoFd
  <1>6. ~Moving /\ Unready /\ Unwritten /\ (\A ch : ~Starting(ch))
      BY DEF Opening, Moving, Unready, Unwritten, Starting
  <1> QED BY <1>1, <1>2, <1>3, <1>4, <1>5, <1>6 DEF RecorderInv, TypeOK

\* A new video file, or a new index file: slots of other channels do not see it.
MakesFiles ==
    LET T == TmpOf(cur)
    IN  /\ DOMAIN video' = DOMAIN video \cup {T}
        /\ \A p \in DOMAIN video : video'[p] = video[p]
        /\ T \in DOMAIN video' /\ video'[T] = << >>
        /\ DOMAIN index \subseteq DOMAIN index' /\ DOMAIN index' \subseteq DOMAIN index \cup {T}
        /\ \A p \in DOMAIN index : p # T => index'[p] = index[p]
        /\ T \in DOMAIN index => index[T] = << >>
        /\ T \in DOMAIN index' => index'[T] \in {<< >>, <<Zero>>}
        /\ UNCHANGED <<chanDir, dayDir, cur>>
        /\ \A j \in SlotIds :
              /\ slot'[j].channel = slot[j].channel
              /\ slot[j].channel # cur.ch => slot'[j] = slot[j] /\ pos'[j] = pos[j]

LEMMA MakesFilesDisk ==
    ASSUME RecorderInv, DiskInv, Opening, MakesFiles,
           pc' \in {"open_index", "open_init", "seal_index", "seal_init", "tmp", "write"}
    PROVE  /\ DirsKnown' /\ RecordsPoint'
           /\ RecordsTimed' /\ SealedAsNamed' /\ SegmentsDisjoint'
           /\ FramesNumbered' /\ FramesOnce' /\ FramesOrdered' /\ JustWritten'
           /\ \A j \in SlotIds : slot[j].channel # 0 /\ slot[j].channel # cur.ch =>
                                    Current(j)'
           /\ \A j \in SlotIds : \A q \in DOMAIN index' :
                 /\ slot[j].channel # 0 /\ slot[j].channel # cur.ch
                 /\ slot[j].it # NoFd /\ q # slot[j].it /\ q.ch = slot[j].channel
                 => IF Len(index'[slot[j].it]) >= 2
                    THEN Before(q, index[slot[j].it][2].time)'
                    ELSE q.day < slot[j].it.day
           /\ \A q \in DOMAIN index : \A t :
                 Before(q, t) => q \in DOMAIN index' /\ Before(q, t)'
           /\ TmpOf(cur) \in DOMAIN index' => \A t : Before(TmpOf(cur), t)'
           /\ MySlot' = MySlot
  <1> DEFINE T == TmpOf(cur)
  <1>1. /\ cur.ch \in Channels /\ cur.ch # 0 /\ HasSlot(cur.ch)
        /\ <<cur.ch, Day(cur.time)>> \in dayDir
        /\ T.ch = cur.ch /\ T.day = Day(cur.time) /\ T.name = Tmp
        /\ ~Moving /\ Unwritten /\ (\A ch : ~Starting(ch)) /\ cur.type = "I"
      BY AtOpening
  <1>2. /\ DOMAIN video' = DOMAIN video \cup {T}
        /\ \A p \in DOMAIN video : video'[p] = video[p]
        /\ T \in DOMAIN video' /\ video'[T] = << >>
      BY DEF MakesFiles
  <1>3. /\ DOMAIN index \subseteq DOMAIN index' /\ DOMAIN index' \subseteq DOMAIN index \cup {T}
        /\ \A p \in DOMAIN index : p # T => index'[p] = index[p]
        /\ T \in DOMAIN index => index[T] = << >>
        /\ T \in DOMAIN index' => index'[T] \in {<< >>, <<Zero>>}
      BY DEF MakesFiles
  <1>4. /\ UNCHANGED <<chanDir, dayDir, cur>>
        /\ \A j \in SlotIds :
              /\ slot'[j].channel = slot[j].channel
              /\ slot[j].channel # cur.ch => slot'[j] = slot[j] /\ pos'[j] = pos[j]
      BY DEF MakesFiles
  <1>5. ~Moving' /\ T' = T
      BY <1>4 DEF Moving
  <1> HIDE DEF T
  <1>6. DirsKnown'
      BY <1>1, <1>2, <1>3, <1>4 DEF DiskInv, DirsKnown
  <1>7. RecordsPoint'
    <2>1. PointsAt(<<Zero>>, << >>) /\ PointsAt(<< >>, << >>)
        BY DEF PointsAt, IsRecord, Zero
    <2>2. ASSUME NEW p \in DOMAIN index' \cap DOMAIN video' PROVE PointsAt(index'[p], video'[p])
      <3>1. CASE p = T
          BY <3>1, <2>1, <1>2, <1>3
      <3>2. CASE p # T
        <4>1. p \in DOMAIN index \cap DOMAIN video
            BY <3>2, <1>2, <1>3
        <4> QED BY <4>1, <3>2, <1>1, <1>2, <1>3
                DEF DiskInv, RecordsPoint, IndexNames, IndexOf
      <3> QED BY <3>1, <3>2
    <2> QED BY <2>2, <1>5 DEF RecordsPoint, IndexNames, IndexOf, PointsAt
  <1>8. /\ T \in DOMAIN index' => Len(index'[T]) < 2
        /\ T \in DOMAIN index' => Timed(index'[T], T.day)
    <2>1. Timed(<<Zero>>, T.day) /\ Timed(<< >>, T.day)
        BY DEF Timed
    <2> QED BY <2>1, <1>3
  <1>9. RecordsTimed' /\ SealedAsNamed' /\ SegmentsDisjoint'
    <2>1. RecordsTimed'
      <3> SUFFICES ASSUME NEW p \in DOMAIN index'
                   PROVE  /\ Timed(index'[p], p.day)
                          /\ \A i \in 2 .. Len(index'[p]) : index'[p][i].time <= cur.time
          BY <1>4 DEF DiskInv, RecordsTimed
      <3>1. CASE p = T
        <4>1. Len(<<Zero>>) = 1 /\ Len(<< >>) = 0
            OBVIOUS
        <4> QED BY <3>1, <4>1, <1>3, <1>8
      <3> QED BY <3>1, <1>3 DEF DiskInv, RecordsTimed
    <2>2. SealedAsNamed'
        BY <1>1, <1>3 DEF DiskInv, SealedAsNamed, Sealed
    <2>3. SegmentsDisjoint'
        BY <1>3, <1>8 DEF DiskInv, SegmentsDisjoint
    <2> QED BY <2>1, <2>2, <2>3
  <1>10. FramesNumbered'
    <2>1. cur.n \in Nat /\ cur.n > 0
        BY <1>1, FileTypes DEF DiskInv, FramesNumbered, RecorderInv
    <2>2. \A p \in DOMAIN video :
              /\ \A k \in 1 .. Len(video[p]) :
                    /\ video[p][k].ch = p.ch
                    /\ video[p][k].n <= cur.n /\ video[p][k].n < cur.n
              /\ Len(video[p]) <= cur.n /\ Len(video[p]) < cur.n
        BY <1>1 DEF DiskInv, FramesNumbered
    <2>3. Len(video'[T]) = 0
        BY <1>2
    <2> QED BY <2>1, <2>2, <2>3, <1>2, <1>4 DEF FramesNumbered
  <1>11. FramesOnce' /\ FramesOrdered' /\ JustWritten'
      BY <1>2 DEF DiskInv, FramesOnce, FramesOrdered, JustWritten
  <1>12. ASSUME NEW j \in SlotIds, slot[j].channel # 0, slot[j].channel # cur.ch
         PROVE  Current(j)'
    <2>1. slot'[j] = slot[j] /\ pos'[j] = pos[j] /\ Current(j)
        BY <1>4, <1>12 DEF DiskInv, SlotsCurrent
    <2>2. /\ slot[j].vt \in DOMAIN video /\ slot[j].it \in DOMAIN index
          /\ slot[j].it # T
        BY <2>1, <1>1, <1>12 DEF Current, RecorderInv, SlotsOwnTheirFiles
    <2>3. video'[slot[j].vt] = video[slot[j].vt] /\ index'[slot[j].it] = index[slot[j].it]
        BY <2>2, <1>2, <1>3
    <2> QED BY <2>1, <2>3, <1>4 DEF Current
  <1>13. ASSUME NEW j \in SlotIds, NEW q \in DOMAIN index',
                slot[j].channel # 0, slot[j].channel # cur.ch,
                slot[j].it # NoFd, q # slot[j].it, q.ch = slot[j].channel
         PROVE  IF Len(index'[slot[j].it]) >= 2
                THEN Before(q, index[slot[j].it][2].time)'
                ELSE q.day < slot[j].it.day
    <2>1. q \in DOMAIN index /\ index'[q] = index[q] /\ slot'[j] = slot[j]
        BY <1>1, <1>3, <1>4, <1>13
    <2>2. slot[j].it \in DOMAIN index /\ index'[slot[j].it] = index[slot[j].it]
        BY <1>1, <1>3, <1>13 DEF RecorderInv, SlotsOwnTheirFiles
    <2> QED BY <2>1, <2>2, <1>1, <1>13 DEF DiskInv, OpenIsLast, Before
  <1>14. T \in DOMAIN index' => \A t : Before(T, t)'
    <2>1. Len(<<Zero>>) = 1 /\ Len(<< >>) = 0
        OBVIOUS
    <2>2. T \in DOMAIN index' => Len(index'[T]) = 1 \/ Len(index'[T]) = 0
        BY <2>1, <1>3, Zenon
    <2> QED BY <2>2, <1>5 DEF Before
  <1>15. \A q \in DOMAIN index : \A t : Before(q, t) => q \in DOMAIN index' /\ Before(q, t)'
      BY <1>3, <1>14 DEF Before
  <1>16. MySlot' = MySlot
      BY <1>1, <1>4, SameSlot DEF RecorderInv
  <1> QED BY <1>6, <1>7, <1>9, <1>10, <1>11, <1>12, <1>13, <1>14, <1>15, <1>16 DEF T

LEMMA OpenVideoMakes ==
    ASSUME RecorderInv, DiskInv, NoFaults, OpenVideo
    PROVE  LET T == TmpOf(cur)
           IN  /\ Opening
               /\ \/ pc = "open_video" /\ pc' = "open_index"
                  \/ pc = "seal_video" /\ pc' = "seal_index"
               /\ UNCHANGED <<index, chanDir, dayDir, cur>>
               /\ slot' = [slot EXCEPT ![MySlot].vt = T]
               /\ pos' = [pos EXCEPT ![MySlot] = 0]
               /\ T \notin DOMAIN video /\ T \notin DOMAIN index
               /\ MakesFiles
  <1> DEFINE T == TmpOf(cur)
  <1>1. /\ \/ pc = "open_video" /\ pc' = "open_index"
           \/ pc = "seal_video" /\ pc' = "seal_index"
        /\ UNCHANGED <<index, chanDir, dayDir, cur>>
        /\ slot' = [slot EXCEPT ![MySlot].vt = T]
        /\ pos' = [pos EXCEPT ![MySlot] = 0]
        /\ video' = Opened(video, T)
      BY DEF OpenVideo, OpenResults, NoFaults, After, dirs, DiskInv, OpenInHand
  <1>2. Opening
      BY <1>1 DEF Opening
  <1>3. PICK i \in SlotIds : i = MySlot /\ slot[i].channel = cur.ch
      BY <1>2, AtOpening
  <1>4. /\ slot'[i].channel = cur.ch
        /\ \A j \in SlotIds : j # i => /\ slot[j].channel # cur.ch
                                       /\ slot'[j] = slot[j] /\ pos'[j] = pos[j]
      BY <1>1, <1>2, <1>3, AtOpening
  <1>5. T \notin DOMAIN video /\ T \notin DOMAIN index /\ T # NoFd
      BY <1>1, <1>2, AtOpening DEF DiskInv, OpenInHand
  <1>6. /\ DOMAIN video' = DOMAIN video \cup {T} /\ video'[T] = << >>
        /\ \A p \in DOMAIN video : video'[p] = video[p]
      BY <1>1, <1>5 DEF Opened
  <1>7. MakesFiles
      BY <1>1, <1>3, <1>4, <1>5, <1>6 DEF MakesFiles
  <1> QED BY <1>1, <1>2, <1>5, <1>7

LEMMA OpenVideoDisk ==
    ASSUME RecorderInv, DiskInv, NoFaults, OpenVideo
    PROVE  DiskInv'
  <1> DEFINE T == TmpOf(cur)
  <1>1. /\ \/ pc = "open_video" /\ pc' = "open_index"
           \/ pc = "seal_video" /\ pc' = "seal_index"
        /\ UNCHANGED <<index, chanDir, dayDir, cur>>
        /\ slot' = [slot EXCEPT ![MySlot].vt = T]
        /\ pos' = [pos EXCEPT ![MySlot] = 0]
      BY OpenVideoMakes
  <1>2. Opening /\ Opening' /\ Unready' /\ ~Moving' /\ ~Moving
      BY <1>1 DEF Opening, Unready, Moving
  <1>3. PICK i \in SlotIds : i = MySlot /\ slot[i].channel = cur.ch
      BY <1>2, AtOpening
  <1>4. /\ slot'[i].vt = T /\ slot'[i].channel = cur.ch /\ pos'[i] = 0
        /\ \A j \in SlotIds : j # i => /\ slot[j].channel # cur.ch
                                       /\ slot'[j] = slot[j] /\ pos'[j] = pos[j]
      BY <1>1, <1>2, <1>3, AtOpening
  <1>5. T \notin DOMAIN video /\ T \notin DOMAIN index
      BY OpenVideoMakes
  <1>6. /\ DOMAIN video' = DOMAIN video \cup {T} /\ video'[T] = << >>
        /\ \A p \in DOMAIN video : video'[p] = video[p]
      BY OpenVideoMakes DEF MakesFiles
  <1>7. MakesFiles
      BY OpenVideoMakes
  <1>8. /\ DirsKnown' /\ RecordsPoint'
        /\ RecordsTimed' /\ SealedAsNamed' /\ SegmentsDisjoint'
        /\ FramesNumbered' /\ FramesOnce' /\ FramesOrdered' /\ JustWritten'
      BY <1>1, <1>2, <1>7, MakesFilesDisk
  <1>9. SlotsCurrent' /\ OpenIsLast'
    <2>1. SlotsCurrent'
        BY <1>1, <1>2, <1>4, <1>7, MakesFilesDisk DEF SlotsCurrent
    <2> QED BY <2>1, <1>1, <1>2, <1>4, <1>7, MakesFilesDisk DEF OpenIsLast
  <1> HIDE DEF T
  <1>10. FilesMatch'
    <2>1. \A p : HalfMade(p)' <=> p = T
        BY <1>1 DEF HalfMade, T
    <2>2. \A p : ~HalfMade(p)
        BY <1>1 DEF HalfMade
    <2>3. \A c : HasSlot(c)' => HasSlot(c)
        BY <1>3, <1>4 DEF HasSlot
    <2> QED BY <2>1, <2>2, <2>3, <1>1, <1>2, <1>6 DEF DiskInv, FilesMatch, IndexNames
  <1>11. SealInHand'
    <2>1. pc' = "seal_index" => \A q \in DOMAIN index : q.ch = cur.ch => Before(q, cur.time)
        BY <1>1 DEF DiskInv, SealInHand
    <2> QED BY <2>1, <1>1 DEF SealInHand, Moving, Before
  <1>12. OpenInHand'
    <2>1. pc' = "open_index" => \A q \in DOMAIN index : q.ch = cur.ch => q.day < Day(cur.time)
        BY <1>1, <1>5 DEF DiskInv, OpenInHand, T
    <2>2. MySlot' = i /\ TmpOf(cur)' = T
      <3>1. MySlot' = MySlot
          BY <1>1, <1>2, <1>7, MakesFilesDisk
      <3> QED BY <3>1, <1>1, <1>3 DEF T
    <2> QED BY <2>1, <2>2, <1>1, <1>4, <1>5, <1>6 DEF OpenInHand
  <1> QED BY <1>8, <1>9, <1>10, <1>11, <1>12 DEF DiskInv

LEMMA OpenIndexMakes ==
    ASSUME RecorderInv, DiskInv, NoFaults, OpenIndex
    PROVE  LET T == TmpOf(cur)
           IN  /\ Opening
               /\ \/ pc = "open_index" /\ pc' = "open_init"
                  \/ pc = "seal_index" /\ pc' = "seal_init"
               /\ UNCHANGED <<video, chanDir, dayDir, pos, cur>>
               /\ slot' = [slot EXCEPT ![MySlot].it = T]
               /\ T \in DOMAIN video /\ T \notin DOMAIN index
               /\ DOMAIN index' = DOMAIN index \cup {T} /\ index'[T] = << >>
               /\ \A p \in DOMAIN index : index'[p] = index[p]
               /\ MakesFiles
  <1> DEFINE T == TmpOf(cur)
  <1>1. /\ \/ pc = "open_index" /\ pc' = "open_init"
           \/ pc = "seal_index" /\ pc' = "seal_init"
        /\ UNCHANGED <<video, chanDir, dayDir, pos, cur>>
        /\ slot' = [slot EXCEPT ![MySlot].it = T]
        /\ index' = Opened(index, T)
      BY DEF OpenIndex, OpenResults, NoFaults, After, dirs, DiskInv, OpenInHand
  <1>2. Opening
      BY <1>1 DEF Opening
  <1>3. PICK i \in SlotIds : i = MySlot /\ slot[i].channel = cur.ch
      BY <1>2, AtOpening
  <1>4. /\ slot'[i].channel = cur.ch
        /\ \A j \in SlotIds : j # i => slot[j].channel # cur.ch /\ slot'[j] = slot[j]
      BY <1>1, <1>2, <1>3, AtOpening
  <1>5. T \in DOMAIN video /\ video[T] = << >> /\ T \notin DOMAIN index /\ T # NoFd
      BY <1>1, <1>2, AtOpening DEF DiskInv, OpenInHand
  <1>6. /\ DOMAIN index' = DOMAIN index \cup {T} /\ index'[T] = << >>
        /\ \A p \in DOMAIN index : index'[p] = index[p]
      BY <1>1, <1>5 DEF Opened
  <1>7. MakesFiles
      BY <1>1, <1>3, <1>4, <1>5, <1>6 DEF MakesFiles
  <1> QED BY <1>1, <1>2, <1>5, <1>6, <1>7

LEMMA OpenIndexDisk ==
    ASSUME RecorderInv, DiskInv, NoFaults, OpenIndex
    PROVE  DiskInv'
  <1> DEFINE T == TmpOf(cur)
  <1>1. /\ \/ pc = "open_index" /\ pc' = "open_init"
           \/ pc = "seal_index" /\ pc' = "seal_init"
        /\ UNCHANGED <<video, chanDir, dayDir, pos, cur>>
        /\ slot' = [slot EXCEPT ![MySlot].it = T]
      BY OpenIndexMakes
  <1>2. Opening /\ Opening' /\ Unready' /\ ~Moving' /\ ~Moving
      BY <1>1 DEF Opening, Unready, Moving
  <1>3. PICK i \in SlotIds : i = MySlot /\ slot[i].channel = cur.ch
      BY <1>2, AtOpening
  <1>4. /\ slot'[i].it = T /\ slot'[i].vt = slot[i].vt /\ slot'[i].channel = cur.ch
        /\ \A j \in SlotIds : j # i => slot[j].channel # cur.ch /\ slot'[j] = slot[j]
      BY <1>1, <1>2, <1>3, AtOpening
  <1>5. /\ T \in DOMAIN video /\ video[T] = << >> /\ T \notin DOMAIN index
        /\ slot[i].vt = T /\ pos[i] = 0
      BY <1>1, <1>3 DEF DiskInv, OpenInHand
  <1>6. /\ DOMAIN index' = DOMAIN index \cup {T} /\ index'[T] = << >>
        /\ \A p \in DOMAIN index : index'[p] = index[p]
      BY OpenIndexMakes
  <1>7. MakesFiles
      BY OpenIndexMakes
  <1>8. /\ DirsKnown' /\ RecordsPoint'
        /\ RecordsTimed' /\ SealedAsNamed' /\ SegmentsDisjoint'
        /\ FramesNumbered' /\ FramesOnce' /\ FramesOrdered' /\ JustWritten'
      BY <1>1, <1>2, <1>7, MakesFilesDisk
  <1>9. SlotsCurrent' /\ OpenIsLast'
    <2>1. SlotsCurrent'
        BY <1>1, <1>2, <1>4, <1>7, MakesFilesDisk DEF SlotsCurrent
    <2> QED BY <2>1, <1>1, <1>2, <1>4, <1>7, MakesFilesDisk DEF OpenIsLast
  <1>10. SealInHand'
    <2>1. pc' = "seal_init" => \A q \in DOMAIN index : q.ch = cur.ch => Before(q, cur.time)
        BY <1>1 DEF DiskInv, SealInHand
    <2>2. \A t : Before(T, t)'
        BY <1>1, <1>2, <1>6, <1>7, MakesFilesDisk
    <2>3. \A q \in DOMAIN index : \A t : Before(q, t) => Before(q, t)'
        BY <1>6 DEF Before
    <2> QED BY <2>1, <2>2, <2>3, <1>1, <1>6 DEF SealInHand, Moving
  <1> HIDE DEF T
  <1>11. FilesMatch'
    <2>1. \A p : HalfMade(p) <=> p = T
        BY <1>1 DEF HalfMade, T
    <2>2. \A p : ~HalfMade(p)'
        BY <1>1 DEF HalfMade
    <2>3. \A c : HasSlot(c)' => HasSlot(c)
        BY <1>3, <1>4 DEF HasSlot
    <2> QED BY <2>1, <2>2, <2>3, <1>1, <1>2, <1>5, <1>6 DEF DiskInv, FilesMatch, IndexNames
  <1>12. OpenInHand'
    <2>1. pc' = "open_init" => \A q \in DOMAIN index : q.ch = cur.ch => q.day < Day(cur.time)
        BY <1>1, <1>5 DEF DiskInv, OpenInHand, T
    <2>2. MySlot' = i /\ TmpOf(cur)' = T
      <3>1. MySlot' = MySlot
          BY <1>1, <1>2, <1>7, MakesFilesDisk
      <3> QED BY <3>1, <1>1, <1>3 DEF T
    <2> QED BY <2>1, <2>2, <1>1, <1>4, <1>5, <1>6 DEF OpenInHand
  <1> QED BY <1>8, <1>9, <1>10, <1>11, <1>12 DEF DiskInv

LEMMA InitIndexMakes ==
    ASSUME RecorderInv, DiskInv, NoFaults, InitIndex
    PROVE  LET T == TmpOf(cur)
           IN  /\ Opening
               /\ \/ pc = "open_init" /\ pc' = "tmp"
                  \/ pc = "seal_init" /\ pc' = "write"
               /\ UNCHANGED <<video, chanDir, dayDir, slot, pos, cur>>
               /\ T \in DOMAIN index /\ index[T] = << >>
               /\ index' = [index EXCEPT ![T] = <<Zero>>]
               /\ MakesFiles
  <1> DEFINE T == TmpOf(cur)
  <1>1. /\ \/ pc = "open_init" /\ pc' = "tmp"
           \/ pc = "seal_init" /\ pc' = "write"
        /\ UNCHANGED <<video, chanDir, dayDir, slot, pos, cur>>
        /\ index' = Initialised(index, slot[MySlot].it)
      BY DEF InitIndex, NoFaults, After, dirs
  <1>2. Opening
      BY <1>1 DEF Opening
  <1>3. /\ T \in DOMAIN video /\ video[T] = << >> /\ T \in DOMAIN index /\ index[T] = << >>
        /\ slot[MySlot].it = T /\ T # NoFd
      BY <1>1, <1>2, AtOpening DEF DiskInv, OpenInHand
  <1>4. index' = [index EXCEPT ![T] = <<Zero>>]
      BY <1>1, <1>3 DEF Initialised
  <1>5. MakesFiles
      BY <1>1, <1>3, <1>4 DEF MakesFiles
  <1> QED BY <1>1, <1>2, <1>3, <1>4, <1>5

LEMMA InitIndexDisk ==
    ASSUME RecorderInv, DiskInv, NoFaults, InitIndex
    PROVE  DiskInv'
  <1> DEFINE T == TmpOf(cur)
  <1>1. /\ \/ pc = "open_init" /\ pc' = "tmp"
           \/ pc = "seal_init" /\ pc' = "write"
        /\ UNCHANGED <<video, chanDir, dayDir, slot, pos, cur>>
        /\ index' = [index EXCEPT ![T] = <<Zero>>]
      BY InitIndexMakes
  <1>2. Opening /\ ~Opening' /\ ~Unready' /\ ~Moving' /\ ~Moving
      BY <1>1 DEF Opening, Unready, Moving
  <1>3. PICK i \in SlotIds : i = MySlot /\ slot[i].channel = cur.ch
      BY <1>2, AtOpening
  <1>4. \A j \in SlotIds : j # i => slot[j].channel # cur.ch
      BY <1>2, <1>3, AtOpening
  <1>5. /\ T \in DOMAIN video /\ video[T] = << >> /\ T \in DOMAIN index /\ index[T] = << >>
        /\ slot[i].vt = T /\ slot[i].it = T /\ pos[i] = 0
        /\ T # NoFd /\ T.ch = cur.ch /\ T.day = Day(cur.time) /\ T.name = Tmp
        /\ cur.type = "I" /\ cur.ch # 0
      BY <1>1, <1>2, <1>3, AtOpening DEF DiskInv, OpenInHand
  <1>6. /\ DOMAIN index' = DOMAIN index /\ index'[T] = <<Zero>>
        /\ \A p \in DOMAIN index : p # T => index'[p] = index[p]
      BY <1>1, <1>5
  <1>7. MakesFiles
      BY InitIndexMakes
  <1>8. /\ DirsKnown' /\ RecordsPoint'
        /\ RecordsTimed' /\ SealedAsNamed' /\ SegmentsDisjoint'
        /\ FramesNumbered' /\ FramesOnce' /\ FramesOrdered' /\ JustWritten'
      BY <1>1, <1>2, <1>7, MakesFilesDisk
  <1>9. SlotsCurrent'
    <2>1. Current(i)'
      <3>1. \A x \in dayDir : x[2] <= Day(cur.time)
          BY DEF DiskInv, DirsKnown
      <3>2. <<cur.ch, Day(cur.time)>> \in dayDir
          BY <1>2, AtOpening
      <3>3. Len(<< >>) = 0 /\ <<Zero>> # << >>
          OBVIOUS
      <3> QED BY <3>1, <3>2, <3>3, <1>1, <1>3, <1>5, <1>6 DEF Current
    <2>2. ASSUME NEW j \in SlotIds, j # i, slot[j].channel # 0 PROVE Current(j)'
        BY <2>2, <1>1, <1>2, <1>4, <1>7, MakesFilesDisk
    <2> QED BY <2>1, <2>2, <1>1 DEF SlotsCurrent
  <1>10. \A q \in DOMAIN index : q.ch = cur.ch /\ q # T =>
            \/ q.day < T.day
            \/ pc' = "write" /\ Before(q, cur.time)'
    <2>1. CASE pc = "open_init"
        BY <2>1, <1>5 DEF DiskInv, OpenInHand
    <2>2. CASE pc = "seal_init"
        BY <2>2, <1>1, <1>6 DEF DiskInv, SealInHand, Before
    <2> QED BY <2>1, <2>2, <1>1
  <1>11. OpenIsLast'
    <2> SUFFICES ASSUME NEW j \in SlotIds, NEW q \in DOMAIN index, slot[j].channel # 0,
                        slot[j].it # NoFd, q # slot[j].it, q.ch = slot[j].channel
                 PROVE  IF Len(index'[slot[j].it]) >= 2
                        THEN Before(q, index[slot[j].it][2].time)'
                        ELSE \/ q.day < slot[j].it.day
                             \/ Starting(q.ch)' /\ Before(q, cur.time)'
        BY <1>1, <1>6 DEF OpenIsLast
    <2>1. CASE j = i
      <3>1. Len(index'[slot[j].it]) = 1
          BY <2>1, <1>5, <1>6
      <3>2. pc' = "write" => Starting(q.ch)'
          BY <2>1, <1>1, <1>3, <1>5 DEF Starting
      <3> QED BY <3>1, <3>2, <2>1, <1>3, <1>5, <1>10
    <2>2. CASE j # i
      <3>1. slot[j].channel # cur.ch /\ q \in DOMAIN index'
          BY <2>2, <1>4, <1>6
      <3> QED BY <3>1, <1>1, <1>2, <1>7, MakesFilesDisk
    <2> QED BY <2>1, <2>2
  <1> HIDE DEF T
  <1>12. FilesMatch'
    <2>1. \A p : ~HalfMade(p) /\ ~HalfMade(p)'
        BY <1>1 DEF HalfMade
    <2> QED BY <2>1, <1>1, <1>2, <1>6 DEF DiskInv, FilesMatch, IndexNames, HasSlot
  <1>13. SealInHand' /\ OpenInHand'
      BY <1>1, <1>2 DEF SealInHand, OpenInHand
  <1> QED BY <1>8, <1>9, <1>11, <1>12, <1>13 DEF DiskInv

-----------------------------------------------------------------------------
(* Looking at the segment that is open. *)

\* The two records the segment is named after, and what makes it end.
LEMMA SealDisk ==
    ASSUME RecorderInv, DiskInv, Quiet, UNCHANGED <<chanDir, dayDir>>,
           pc = "examine", pc' = "rename_video", HasSlot(cur.ch),
           LastTime # 0, Discontinuous \/ SegmentFull, seg' = SegmentName,
           CanReadLast, NoFaults
    PROVE  DiskInv'
  <1> DEFINE T == TmpOf(cur)
             data == index[T]
  <1>1. cur.ch \in Channels /\ cur.ch # 0 /\ cur.type = "I"
      BY RecorderAssumption DEF RecorderInv, CallInv
  <1>2. /\ slot[MySlot].it = T /\ slot[MySlot].vt = T /\ T # NoFd
        /\ T \in DOMAIN index /\ T \in DOMAIN video
        /\ MySlot \in SlotIds /\ slot[MySlot].channel = cur.ch
      BY <1>1, AtSlot
  <1>3. /\ Len(data) >= 1
        /\ Timed(data, T.day) /\ data \in Seq(Record) /\ Len(data) \in Nat
        /\ \A k \in 1 .. Len(data) : data[k].time \in Nat /\ data[k].time <= cur.time
        /\ cur.time \in Nat
    <2>1. \A k \in 2 .. Len(data) : data[k].time <= cur.time
        BY <1>2 DEF DiskInv, RecordsTimed
    <2>2. Timed(data, T.day)
        BY <1>2 DEF DiskInv, RecordsTimed
    <2>3. /\ data \in Seq(Record) /\ Len(data) \in Nat /\ cur.time \in Nat
          /\ \A k \in 1 .. Len(data) : data[k].time \in Nat
        BY <1>2, FileTypes DEF RecorderInv
    <2>4. Len(data) >= 1 /\ data[1].time = 0
        BY <2>2, <1>2 DEF Timed, Zero, CanReadLast, Records
    <2> QED BY <2>1, <2>2, <2>3, <2>4
  <1> HIDE DEF data
  <1>4. Records = data /\ LastTime = data[Len(data)].time
      BY <1>2 DEF Records, LastTime, data
  <1>5. Len(data) >= 2
    <2>1. Len(data) >= 1 /\ data[1].time = 0
        BY <1>3 DEF Timed, Zero
    <2> QED BY <2>1, <1>3, <1>4
  <1>6. FirstTime = data[2].time
      BY <1>4, <1>5 DEF FirstTime
  <1>7. data[Len(data)].time < cur.time
    <2>1. CASE Discontinuous
      <3>1. ~(LastTime <= cur.time /\ cur.time <= LastTime + MAX_GAP)
          BY <2>1 DEF Discontinuous
      <3>2. LastTime \in Nat /\ LastTime <= cur.time
          BY <1>3, <1>4, <1>5
      <3> QED BY <3>1, <3>2, <1>3, <1>4, RecorderAssumption
    <2>2. CASE SegmentFull
      <3>1. CurrentRecord.time = cur.time
          BY <1>2 DEF CurrentRecord
      <3>2. ~(FirstTime <= cur.time /\ cur.time < FirstTime + SEG_TIME)
          BY <2>2, <3>1 DEF SegmentFull
      <3>3. data[2].time <= cur.time /\ data[2].time \in Nat
          BY <1>3, <1>5
      <3>4. data[Len(data)].time < data[2].time + SEG_TIME
        <4>1. WellTimed(data) /\ \A k \in 2 .. Len(data) : IsRecord(data[k])
            BY <1>2, <1>3 DEF RecorderInv, NoFaults, Continuity, SegmentsContinuous, data,
                              Timed
        <4> QED BY <4>1, <1>3, <1>5 DEF WellTimed, Bounded
      <3> QED BY <3>2, <3>3, <3>4, <1>3, <1>5, <1>6, RecorderAssumption
    <2> QED BY <2>1, <2>2
  <1>8. \A q \in DOMAIN index : q.ch = cur.ch => Before(q, cur.time)
    <2> SUFFICES ASSUME NEW q \in DOMAIN index, q.ch = cur.ch, NEW k \in 2 .. Len(index[q])
                 PROVE  index[q][k].time < cur.time
        BY DEF Before
    <2>1. index[q][k].time \in Nat
        BY FileTypes DEF RecorderInv
    <2>2. CASE q = T
      <3>1. index[q][k].time <= data[Len(data)].time
          BY <2>2, <1>3 DEF Timed, data
      <3> QED BY <3>1, <2>1, <1>3, <1>5, <1>7
    <2>3. CASE q # T
      <3>1. Before(q, data[2].time)
          BY <2>3, <1>1, <1>2, <1>5 DEF DiskInv, OpenIsLast, Opening, data
      <3>2. data[2].time <= data[Len(data)].time
          BY <1>3, <1>5 DEF Timed
      <3> QED BY <3>1, <3>2, <2>1, <1>3, <1>5, <1>7 DEF Before
    <2> QED BY <2>2, <2>3
  <1>9. seg' = [T EXCEPT !.name = NameOf(data)]
      BY <1>4, <1>6 DEF SegmentName, TmpOf, NameOf
  <1>10. SealInHand'
    <2>1. index' = index /\ cur' = cur /\ TmpOf(cur)' = T
        BY DEF Quiet
    <2>2. NameOf(index[TmpOf(cur)])' = NameOf(data)
        BY <2>1 DEF NameOf, data
    <2>3. \A q \in DOMAIN index' : q.ch = cur'.ch => Before(q, cur.time)'
        BY <2>1, <1>8 DEF Before
    <2> QED BY <2>1, <2>2, <2>3, <1>2, <1>5, <1>9 DEF SealInHand, Moving, data
  <1> QED BY <1>10, QuietDisk DEF DiskInv

LEMMA ExamineDisk ==
    ASSUME RecorderInv, DiskInv, NoFaults, ExamineSegment
    PROVE  DiskInv'
  <1>1. /\ pc = "examine" /\ UNCHANGED <<video, index, slot, cur, chanDir, dayDir>>
        /\ cur.ch \in Channels /\ cur.ch # 0 /\ cur.type = "I"
      BY RecorderAssumption
      DEF ExamineSegment, ExamineFails, ExamineNoSlot, ExamineFirst,
          ExamineDiscontinuous, ExamineContinuous, Examine, files, dirs,
          RecorderInv, CallInv
  <1>2. ASSUME UNCHANGED pos, pc' \in {"idle", "write", "release"} PROVE DiskInv'
    <2>1. Quiet
        BY <1>1, <1>2 DEF Quiet
    <2> QED BY <2>1, <1>1, <1>2, QuietDisk DEF DiskInv
  <1>3. ASSUME UNCHANGED pos, pc' = "rename_video", HasSlot(cur.ch), LastTime # 0,
               CanReadLast, Discontinuous \/ SegmentFull, seg' = SegmentName
        PROVE  DiskInv'
    <2>1. Quiet
        BY <1>1, <1>3 DEF Quiet
    <2> QED BY <2>1, <1>1, <1>3, SealDisk
  <1>4. CASE ExamineFails \/ ExamineNoSlot \/ ExamineFirst
      BY <1>2, <1>4 DEF ExamineFails, ExamineNoSlot, ExamineFirst, Examine, NoLookup
  <1>5. CASE ExamineDiscontinuous
      BY <1>2, <1>3, <1>5 DEF ExamineDiscontinuous, Examine, NoLookup
  <1>6. CASE ExamineContinuous
    <2>1. HasSlot(cur.ch) /\ PosAtEnd /\ LastTime # 0 /\ CanReadLast
        BY <1>6 DEF ExamineContinuous, CanReadLastFront, CanReadLast
    <2>2. UNCHANGED pos
      <3>1. slot[MySlot].vt = TmpOf(cur) /\ pos[MySlot] = Len(video[TmpOf(cur)])
            /\ TmpOf(cur) # NoFd /\ MySlot \in SlotIds
          BY <2>1, <1>1, AtSlot
      <3> QED BY <3>1, <2>1 DEF PosAtEnd, RecorderInv, TypeOK
    <2> QED BY <2>1, <2>2, <1>2, <1>3, <1>6 DEF ExamineContinuous, Examine
  <1> QED BY <1>4, <1>5, <1>6 DEF ExamineSegment

-----------------------------------------------------------------------------
(* Sealing. *)

\* No segment has the times of the one that is sealed: the others of its day
\* are all earlier or later.
LEMMA SealNameFresh ==
    ASSUME RecorderInv, DiskInv, pc = "rename_video"
    PROVE  seg \notin DOMAIN index
  <1> SUFFICES ASSUME seg \in DOMAIN index PROVE FALSE
      OBVIOUS
  <1> DEFINE T == TmpOf(cur)
             c == index[seg]
             d == index[T]
  <1>1. /\ T \in DOMAIN index /\ Len(d) >= 2 /\ seg = [T EXCEPT !.name = NameOf(d)]
        /\ seg.name # Tmp
      BY DEF DiskInv, SealInHand, RecorderInv, CallInv
  <1>2. seg.ch = T.ch /\ seg.day = T.day /\ seg.name = NameOf(d) /\ T.name = Tmp
      BY <1>1 DEF TmpOf
  <1>3. Len(c) >= 2 /\ NameOf(c) = NameOf(d)
      BY <1>1, <1>2 DEF DiskInv, SealedAsNamed, Sealed
  <1>4. Timed(c, T.day) /\ Timed(d, T.day)
      BY <1>1, <1>2 DEF DiskInv, RecordsTimed
  <1>5. /\ Len(c) \in Nat /\ Len(d) \in Nat
        /\ c[2].time \in Nat /\ c[Len(c)].time \in Nat
        /\ d[2].time \in Nat /\ d[Len(d)].time \in Nat
    <2>1. /\ Len(c) \in Nat /\ \A k \in 1 .. Len(c) : c[k].time \in Nat
          /\ Len(d) \in Nat /\ \A k \in 1 .. Len(d) : d[k].time \in Nat
        BY <1>1, FileTypes DEF RecorderInv
    <2> HIDE DEF c, d, T
    <2>2. Len(c) >= 2 /\ Len(d) >= 2
        BY <1>1, <1>3
    <2>3. 2 \in 1 .. Len(c) /\ Len(c) \in 1 .. Len(c)
        BY <2>1, <2>2
    <2>4. 2 \in 1 .. Len(d) /\ Len(d) \in 1 .. Len(d)
        BY <2>1, <2>2
    <2> QED BY <2>1, <2>3, <2>4
  <1>6. \/ c[Len(c)].time < d[2].time
        \/ d[Len(d)].time < c[2].time
      BY <1>1, <1>2, <1>3 DEF DiskInv, SegmentsDisjoint
  <1> HIDE DEF c, d, T
  <1>7. c[2].time <= c[Len(c)].time /\ d[2].time <= d[Len(d)].time
      BY <1>1, <1>3, <1>4, <1>5 DEF Timed
  <1>8. c[2].time = d[2].time
    <2>1. TimeOfDay(c[2].time) = TimeOfDay(d[2].time)
        BY <1>3 DEF NameOf
    <2>2. Day(c[2].time) = Day(d[2].time)
        BY <1>1, <1>3, <1>4, <1>5 DEF Timed
    <2> QED BY <2>1, <2>2, <1>5, DayOrder
  <1>9. c[Len(c)].time = d[Len(d)].time
    <2>1. TimeOfDay(c[Len(c)].time) = TimeOfDay(d[Len(d)].time)
        BY <1>3 DEF NameOf
    <2>2. Day(c[Len(c)].time) = Day(d[Len(d)].time)
        BY <1>1, <1>3, <1>4, <1>5 DEF Timed
    <2> QED BY <2>1, <2>2, <1>5, DayOrder
  <1> QED BY <1>5, <1>6, <1>7, <1>8, <1>9

\* What the two renames find.
LEMMA SealFinds ==
    ASSUME RecorderInv, DiskInv, pc \in {"rename_video", "rename_index"}
    PROVE  /\ cur.ch \in Channels /\ cur.ch # 0 /\ cur.type = "I" /\ HasSlot(cur.ch)
           /\ TmpOf(cur) \in DOMAIN index
           /\ seg \notin DOMAIN index /\ seg # TmpOf(cur)
           /\ seg.ch = cur.ch /\ seg.day = TmpOf(cur).day
           /\ seg.name = NameOf(index[TmpOf(cur)])
           /\ TmpOf(cur).ch = cur.ch /\ TmpOf(cur).name = Tmp
           /\ pc = "rename_video" => TmpOf(cur) \in DOMAIN video /\ seg \notin DOMAIN video
  <1>1. /\ cur.ch \in Channels /\ cur.ch # 0 /\ cur.type = "I" /\ HasSlot(cur.ch)
        /\ seg.name # Tmp
      BY RecorderAssumption DEF RecorderInv, CallInv
  <1>2. /\ TmpOf(cur) \in DOMAIN index
        /\ seg = [TmpOf(cur) EXCEPT !.name = NameOf(index[TmpOf(cur)])]
      BY DEF DiskInv, SealInHand
  <1>3. seg \notin DOMAIN index
      BY SealNameFresh DEF DiskInv, SealInHand, Moving
  <1>4. /\ seg # TmpOf(cur) /\ seg.ch = cur.ch /\ seg.day = TmpOf(cur).day
        /\ seg.name = NameOf(index[TmpOf(cur)])
        /\ TmpOf(cur).ch = cur.ch /\ TmpOf(cur).name = Tmp
      BY <1>1, <1>2 DEF TmpOf
  <1>5. ASSUME pc = "rename_video"
        PROVE  TmpOf(cur) \in DOMAIN video /\ seg \notin DOMAIN video
    <2>1. TmpOf(cur) \in DOMAIN video
        BY <1>1, <1>5, AtSlot
    <2>2. seg \in DOMAIN video => seg \in DOMAIN index
        BY <1>1, <1>4, <1>5 DEF DiskInv, FilesMatch, HalfMade, IndexNames, Moving
    <2> QED BY <2>1, <2>2, <1>3
  <1> QED BY <1>1, <1>2, <1>3, <1>4, <1>5

\* The effect of the renames on the files.
Moves(fs, gs) ==
    /\ TmpOf(cur) \in DOMAIN fs /\ seg \notin DOMAIN fs
    /\ DOMAIN gs = (DOMAIN fs \ {TmpOf(cur)}) \cup {seg}
    /\ gs[seg] = fs[TmpOf(cur)]
    /\ \A p \in DOMAIN fs \ {TmpOf(cur)} : gs[p] = fs[p] /\ p # seg

LEMMA RenameVideoMoves ==
    ASSUME RecorderInv, DiskInv, NoFaults, RenameVideo
    PROVE  Moves(video, video')
  <1>1. /\ TmpOf(cur) \in DOMAIN video /\ seg \notin DOMAIN video /\ seg # TmpOf(cur)
        /\ video' = Renamed(video, TmpOf(cur), seg)
      BY SealFinds DEF RenameVideo, NoFaults
  <1> QED BY <1>1 DEF Moves, Renamed

LEMMA RenameIndexMoves ==
    ASSUME RecorderInv, DiskInv, NoFaults, RenameIndex
    PROVE  Moves(index, index')
  <1>1. /\ TmpOf(cur) \in DOMAIN index /\ seg \notin DOMAIN index /\ seg # TmpOf(cur)
        /\ index' = Renamed(index, TmpOf(cur), seg)
      BY SealFinds DEF RenameIndex, NoFaults
  <1> QED BY <1>1 DEF Moves, Renamed

LEMMA RenameVideoDisk ==
    ASSUME RecorderInv, DiskInv, NoFaults, RenameVideo
    PROVE  DiskInv'
  <1> DEFINE T == TmpOf(cur)
             Old(p) == IF p = seg THEN T ELSE p
  <1>1. /\ pc = "rename_video" /\ pc' = "rename_index"
        /\ UNCHANGED <<index, chanDir, dayDir, cur, seg>>
        /\ slot' = [slot EXCEPT ![MySlot].vt = NoFd, ![MySlot].it = NoFd]
        /\ pos' = [pos EXCEPT ![MySlot] = 0]
      BY DEF RenameVideo, dirs
  <1>2. /\ cur.ch \in Channels /\ cur.ch # 0 /\ cur.type = "I" /\ HasSlot(cur.ch)
        /\ T \in DOMAIN index /\ seg \notin DOMAIN index /\ seg # T
        /\ seg.ch = cur.ch /\ seg.day = T.day /\ T.ch = cur.ch
        /\ T \in DOMAIN video /\ seg \notin DOMAIN video
      BY <1>1, SealFinds
  <1>3. /\ DOMAIN video' = (DOMAIN video \ {T}) \cup {seg}
        /\ video'[seg] = video[T]
        /\ \A p \in DOMAIN video \ {T} : video'[p] = video[p] /\ p # seg
      BY RenameVideoMoves DEF Moves
  <1>4. PICK i \in SlotIds : i = MySlot /\ slot[i].channel = cur.ch
      BY <1>2, MySlotIs
  <1>5. /\ slot'[i] = [channel |-> cur.ch, vt |-> NoFd, it |-> NoFd]
        /\ \A j \in SlotIds : j # i => /\ slot'[j] = slot[j] /\ pos'[j] = pos[j]
                                       /\ slot[j].channel # cur.ch
      BY <1>1, <1>2, <1>4 DEF RecorderInv, TypeOK, SlotsOwnTheirFiles
  <1>6. /\ ~Moving /\ Moving' /\ Unready' /\ ~Unready /\ Unwritten
        /\ ~Opening /\ ~Opening' /\ (\A p : ~HalfMade(p) /\ ~HalfMade(p)')
        /\ TmpOf(cur)' = T
      BY <1>1 DEF Moving, Unready, Opening, HalfMade, Unwritten
  <1> HIDE DEF T
  <1>7. \A p \in DOMAIN video' : /\ Old(p) \in DOMAIN video /\ video'[p] = video[Old(p)]
                                 /\ Old(p).ch = p.ch /\ Old(p).day = p.day
      BY <1>2, <1>3
  <1>8. DirsKnown'
      BY <1>1, <1>2, <1>7 DEF DiskInv, DirsKnown
  <1>9. SlotsCurrent'
    <2> SUFFICES ASSUME NEW j \in SlotIds, slot'[j].channel # 0,
                        slot'[j].channel # cur.ch
                 PROVE  Current(j)'
        BY <1>1, <1>6 DEF SlotsCurrent
    <2>1. slot'[j] = slot[j] /\ pos'[j] = pos[j]
        BY <1>5
    <2>2. Current(j)
        BY <2>1, <1>6 DEF DiskInv, SlotsCurrent
    <2>3. slot[j].vt \in DOMAIN video /\ slot[j].vt.ch # cur.ch
        BY <2>1, <2>2 DEF Current, RecorderInv, SlotsOwnTheirFiles
    <2>4. video'[slot[j].vt] = video[slot[j].vt]
        BY <2>3, <1>2, <1>3
    <2> QED BY <2>1, <2>2, <2>4, <1>1 DEF Current
  <1>10. IndexNames' = (DOMAIN index \ {T}) \cup {seg} /\ IndexNames = DOMAIN index
      BY <1>1, <1>6 DEF IndexNames
  <1>11. FilesMatch'
    <2>1. \A c : HasSlot(c)' => HasSlot(c)
        BY <1>4, <1>5 DEF HasSlot
    <2> QED BY <2>1, <1>2, <1>3, <1>6, <1>10 DEF DiskInv, FilesMatch
  <1>12. RecordsPoint'
    <2> SUFFICES ASSUME NEW p \in IndexNames' \cap DOMAIN video'
                 PROVE  PointsAt(IndexOf(p)', video'[p])
        BY DEF RecordsPoint, PointsAt
    <2>1. Old(p) \in IndexNames \cap DOMAIN video
        BY <1>2, <1>7, <1>10
    <2>2. IndexOf(Old(p)) = index[Old(p)] /\ IndexOf(p)' = index[Old(p)]
        BY <1>1, <1>6 DEF IndexOf
    <2> QED BY <2>1, <2>2, <1>7 DEF DiskInv, RecordsPoint
  <1>13. RecordsTimed' /\ SealedAsNamed' /\ SegmentsDisjoint'
      BY <1>1 DEF DiskInv, RecordsTimed, SealedAsNamed, Sealed, SegmentsDisjoint
  <1>14. OpenIsLast'
    <2> SUFFICES ASSUME NEW j \in SlotIds, NEW q \in DOMAIN index', slot'[j].channel # 0,
                        slot'[j].it # NoFd, q # slot'[j].it, q.ch = slot'[j].channel
                 PROVE  IF Len(index'[slot'[j].it]) >= 2
                        THEN Before(q, index[slot[j].it][2].time)'
                        ELSE q.day < slot'[j].it.day
        BY DEF OpenIsLast
    <2>1. slot'[j] = slot[j]
        BY <1>5
    <2>2. index' = index
        BY <1>1
    <2>3. ~Opening /\ ~Starting(q.ch)
        BY <1>1, <1>6 DEF Starting
    <2> QED BY <2>1, <2>2, <2>3 DEF DiskInv, OpenIsLast, Before
  <1>15. SealInHand' /\ OpenInHand'
      BY <1>1, <1>2, <1>6 DEF DiskInv, SealInHand, OpenInHand, Before, NameOf
  <1>16. FramesNumbered'
      BY <1>1, <1>6, <1>7 DEF DiskInv, FramesNumbered
  <1>17. FramesOnce'
    <2> SUFFICES ASSUME NEW p \in DOMAIN video', NEW q \in DOMAIN video', p # q,
                        NEW k \in 1 .. Len(video'[p]), NEW l \in 1 .. Len(video'[q])
                 PROVE  video'[p][k].n # video'[q][l].n
        BY DEF FramesOnce
    <2>1. Old(p) # Old(q)
        BY <1>3
    <2> HIDE DEF Old
    <2> QED BY <2>1, <1>7 DEF DiskInv, FramesOnce
  <1>18. FramesOrdered' /\ JustWritten'
      BY <1>1, <1>7 DEF DiskInv, FramesOrdered, JustWritten
  <1> QED BY <1>8, <1>9, <1>11, <1>12, <1>13, <1>14, <1>15, <1>16, <1>17, <1>18
          DEF DiskInv

LEMMA RenameIndexDisk ==
    ASSUME RecorderInv, DiskInv, NoFaults, RenameIndex
    PROVE  DiskInv'
  <1> DEFINE T == TmpOf(cur)
             Old(p) == IF p = seg THEN T ELSE p
  <1>1. /\ pc = "rename_index" /\ pc' = "seal_video"
        /\ UNCHANGED <<video, chanDir, dayDir, slot, pos, cur, seg>>
      BY DEF RenameIndex, dirs
  <1>2. /\ cur.ch \in Channels /\ cur.ch # 0 /\ cur.type = "I" /\ HasSlot(cur.ch)
        /\ T \in DOMAIN index /\ seg \notin DOMAIN index /\ seg # T
        /\ seg.ch = cur.ch /\ seg.day = T.day /\ T.ch = cur.ch /\ T.name = Tmp
        /\ seg.name = NameOf(index[T])
      BY <1>1, SealFinds
  <1>3. /\ DOMAIN index' = (DOMAIN index \ {T}) \cup {seg}
        /\ index'[seg] = index[T]
        /\ \A p \in DOMAIN index \ {T} : index'[p] = index[p] /\ p # seg
      BY RenameIndexMoves DEF Moves
  <1>4. \A j \in SlotIds : slot[j].channel = cur.ch => slot[j].it = NoFd
    <2>1. PICK i \in SlotIds : i = MySlot /\ slot[i].channel = cur.ch
        BY <1>2, MySlotIs
    <2>2. slot[i].it = NoFd
        BY <2>1, <1>1 DEF RecorderInv, CallInv
    <2> QED BY <2>1, <2>2, <1>2 DEF RecorderInv, SlotsOwnTheirFiles
  <1>5. Len(index[T]) >= 2 /\ \A q \in DOMAIN index : q.ch = cur.ch => Before(q, cur.time)
      BY <1>1 DEF DiskInv, SealInHand
  <1>6. /\ Moving /\ ~Moving' /\ Unready' /\ Unready /\ Unwritten
        /\ ~Opening /\ Opening' /\ (\A p : ~HalfMade(p) /\ ~HalfMade(p)')
      BY <1>1 DEF Moving, Unready, Opening, HalfMade, Unwritten
  <1>7. IndexNames' = IndexNames /\ \A p \in IndexNames : IndexOf(p)' = IndexOf(p)
      BY <1>2, <1>3, <1>6 DEF IndexNames, IndexOf
  <1> HIDE DEF T
  <1>8. \A p \in DOMAIN index' : /\ Old(p) \in DOMAIN index /\ index'[p] = index[Old(p)]
                                 /\ Old(p).ch = p.ch /\ Old(p).day = p.day
      BY <1>2, <1>3
  <1>9. DirsKnown'
      BY <1>1, <1>2, <1>8 DEF DiskInv, DirsKnown
  <1>10. SlotsCurrent'
    <2> SUFFICES ASSUME NEW j \in SlotIds, slot[j].channel # 0, slot[j].channel # cur.ch
                 PROVE  Current(j)'
        BY <1>1, <1>6 DEF SlotsCurrent
    <2>1. Current(j)
        BY DEF DiskInv, SlotsCurrent
    <2>2. slot[j].it \in DOMAIN index /\ slot[j].it.ch # cur.ch
        BY <2>1 DEF Current, RecorderInv, SlotsOwnTheirFiles
    <2>3. index'[slot[j].it] = index[slot[j].it]
        BY <2>2, <1>2, <1>3
    <2> QED BY <2>1, <2>3, <1>1 DEF Current
  <1>11. FilesMatch' /\ RecordsPoint'
    <2>1. \A c : HasSlot(c)' <=> HasSlot(c)
        BY <1>1 DEF HasSlot
    <2>2. FilesMatch'
        BY <2>1, <1>1, <1>6, <1>7 DEF DiskInv, FilesMatch
    <2> QED BY <2>2, <1>1, <1>7 DEF DiskInv, RecordsPoint, PointsAt
  <1>12. RecordsTimed'
      BY <1>1, <1>8 DEF DiskInv, RecordsTimed
  <1>13. SealedAsNamed'
      BY <1>2, <1>3, <1>5 DEF DiskInv, SealedAsNamed, Sealed
  <1>14. SegmentsDisjoint'
    <2> SUFFICES ASSUME NEW p \in DOMAIN index', NEW q \in DOMAIN index',
                        p # q, p.ch = q.ch, Len(index'[p]) >= 2, Len(index'[q]) >= 2
                 PROVE  \/ index'[p][Len(index'[p])].time < index'[q][2].time
                        \/ index'[q][Len(index'[q])].time < index'[p][2].time
        BY DEF SegmentsDisjoint
    <2>1. Old(p) # Old(q)
        BY <1>3
    <2> HIDE DEF Old
    <2> QED BY <2>1, <1>8 DEF DiskInv, SegmentsDisjoint
  <1>15. OpenIsLast'
    <2> SUFFICES ASSUME NEW j \in SlotIds, NEW q \in DOMAIN index',
                        slot[j].channel # 0, slot[j].it # NoFd,
                        q # slot[j].it, q.ch = slot[j].channel
                 PROVE  IF Len(index'[slot[j].it]) >= 2
                        THEN Before(q, index[slot[j].it][2].time)'
                        ELSE q.day < slot[j].it.day
        BY <1>1 DEF OpenIsLast, Before
    <2>1. slot[j].channel # cur.ch
        BY <1>4
    <2>2. q \in DOMAIN index /\ index'[q] = index[q]
        BY <2>1, <1>2, <1>3
    <2>3. slot[j].it \in DOMAIN index /\ slot[j].it.ch # cur.ch
        BY <2>1 DEF RecorderInv, SlotsOwnTheirFiles
    <2>4. index'[slot[j].it] = index[slot[j].it]
        BY <2>3, <1>2, <1>3
    <2> QED BY <2>2, <2>4, <1>1, <1>6 DEF DiskInv, OpenIsLast, Starting, Before
  <1>16. SealInHand' /\ OpenInHand'
    <2>1. \A q \in DOMAIN index' : q.ch = cur.ch => Before(q, cur.time)'
        BY <1>1, <1>5, <1>8 DEF Before
    <2>2. T \notin DOMAIN index' /\ TmpOf(cur)' = T
        BY <1>1, <1>2, <1>3 DEF T
    <2>3. T \notin DOMAIN video
      <3>1. T \notin IndexNames
          BY <1>2, <1>6 DEF IndexNames, T
      <3> QED BY <3>1, <1>2, <1>6 DEF DiskInv, FilesMatch
    <2> QED BY <2>1, <2>2, <2>3, <1>1, <1>6 DEF SealInHand, OpenInHand
  <1>17. FramesNumbered'
      BY <1>1, <1>6 DEF DiskInv, FramesNumbered
  <1>18. FramesOnce' /\ FramesOrdered' /\ JustWritten'
      BY <1>1 DEF DiskInv, FramesOnce, FramesOrdered, JustWritten
  <1> QED BY <1>9, <1>10, <1>11, <1>12, <1>13, <1>14, <1>15, <1>16, <1>17, <1>18
          DEF DiskInv

-----------------------------------------------------------------------------
(* Storing the frame. *)

\* The effect on the files: x goes to the end of file p.
Appends(fs, gs, p, x) ==
    /\ p \in DOMAIN fs /\ p.ch = cur.ch /\ p.name = Tmp
    /\ DOMAIN gs = DOMAIN fs
    /\ gs[p] = Append(fs[p], x)
    /\ \A q \in DOMAIN fs : q # p => gs[q] = fs[q]

LEMMA WriteFrameAppends ==
    ASSUME RecorderInv, DiskInv, NoFaults, WriteFrame, VideoOpen
    PROVE  /\ Appends(video, video', slot[MySlot].vt, cur)
           /\ pos' = [pos EXCEPT ![MySlot] = pos[MySlot] + 1]
           /\ pos[MySlot] = Len(video[slot[MySlot].vt])
  <1>1. PICK i \in SlotIds : i = MySlot /\ slot[i].channel = cur.ch /\ slot[i].vt # NoFd
      BY MySlotIs DEF VideoOpen
  <1> DEFINE v == slot[i].vt
             old == video[v]
  <1>2. /\ video' = [video EXCEPT ![v] = Written(old, pos[i], cur)]
        /\ pos' = [pos EXCEPT ![i] = pos[i] + 1]
      BY <1>1 DEF WriteFrame, NoFaults
  <1>3. v \in DOMAIN video /\ v.ch = cur.ch
      BY <1>1 DEF RecorderInv, SlotsOwnTheirFiles
  <1>4. Current(i)
    <2>1. pc = "write" /\ cur.ch # 0
        BY RecorderAssumption DEF WriteFrame, RecorderInv, CallInv
    <2> QED BY <2>1, <1>1 DEF DiskInv, SlotsCurrent, Unready, Opening
  <1>5. old \in Seq(Frame) /\ Len(old) \in Nat
      BY <1>3, FileTypes DEF RecorderInv
  <1>6. pos[i] = Len(old) /\ v.name = Tmp
      BY <1>4 DEF Current
  <1>7. Written(old, pos[i], cur) = Append(old, cur)
      BY <1>5, <1>6 DEF Written
  <1> QED BY <1>1, <1>2, <1>3, <1>6, <1>7 DEF Appends

LEMMA WriteFrameDisk ==
    ASSUME RecorderInv, DiskInv, NoFaults, WriteFrame
    PROVE  DiskInv'
  <1>1. /\ pc = "write" /\ pc' = IF cur.type = "I" THEN "index" ELSE "release"
        /\ UNCHANGED <<index, chanDir, dayDir, slot, cur>>
        /\ cur.ch \in Channels /\ cur.ch # 0 /\ cur.type \in {"I", "P"}
        /\ cur \in Frame /\ cur.n \in Nat
      BY RecorderAssumption DEF WriteFrame, dirs, RecorderInv, CallInv, TypeOK, Frame
  <1>2. cur.type = "I" => VideoOpen
    <2>1. cur.type = "I" => HasSlot(cur.ch)
        BY <1>1 DEF RecorderInv, CallInv
    <2> QED BY <2>1, <1>1, AtSlot DEF VideoOpen
  <1>3. CASE ~VideoOpen
    <2>1. Quiet /\ cur.type = "P"
        BY <1>1, <1>2, <1>3 DEF WriteFrame, Quiet, NoFaults
    <2>2. pc' = "release"
        BY <2>1, <1>1
    <2> QED BY <2>1, <2>2, <1>1, QuietDisk DEF DiskInv
  <1>4. CASE VideoOpen
    <2>1. PICK i \in SlotIds : i = MySlot /\ slot[i].channel = cur.ch /\ slot[i].vt # NoFd
        BY <1>4, MySlotIs DEF VideoOpen
    <2> DEFINE v == slot[i].vt
               old == video[v]
    <2>3. v \in DOMAIN video /\ v.ch = cur.ch
        BY <2>1 DEF RecorderInv, SlotsOwnTheirFiles
    <2>4. Current(i)
        BY <1>1, <2>1 DEF DiskInv, SlotsCurrent, Unready, Opening
    <2>5. old \in Seq(Frame) /\ Len(old) \in Nat
        BY <2>3, FileTypes DEF RecorderInv
    <2>8. /\ DOMAIN video' = DOMAIN video
          /\ video'[v] = Append(old, cur)
          /\ \A p \in DOMAIN video : p # v => video'[p] = video[p]
          /\ pos'[i] = Len(old) + 1
          /\ \A j \in SlotIds : j # i => pos'[j] = pos[j]
      <3>1. pos \in [SlotIds -> Nat]
          BY DEF RecorderInv, TypeOK
      <3> QED BY <3>1, <1>4, <2>1, WriteFrameAppends DEF Appends
    <2>9. /\ Len(video'[v]) = Len(old) + 1 /\ video'[v][Len(old) + 1] = cur
          /\ \A k \in 1 .. Len(old) : video'[v][k] = old[k]
        BY <2>5, <2>8, <1>1
    <2>10. /\ ~Moving /\ ~Moving' /\ ~Unready /\ ~Unready' /\ Unwritten /\ ~Unwritten'
           /\ ~Opening /\ ~Opening' /\ (\A p : ~HalfMade(p) /\ ~HalfMade(p)')
           /\ \A ch : Starting(ch)' <=> Starting(ch)
        BY <1>1 DEF Moving, Unready, Opening, HalfMade, Unwritten, Starting
    <2>11. cur.type = "I" => v = TmpOf(cur)
      <3>1. cur.type = "I" => HasSlot(cur.ch)
          BY <1>4 DEF VideoOpen
      <3> QED BY <3>1, <2>1, <1>1, AtSlot
    <2> HIDE DEF v, old
    <2>12. DirsKnown'
        BY <1>1, <2>8 DEF DiskInv, DirsKnown
    <2>13. SlotsCurrent'
      <3>1. ASSUME NEW j \in SlotIds, slot[j].channel # 0, j # i PROVE Current(j)'
        <4>1. Current(j) /\ slot[j].channel # cur.ch
            BY <3>1, <2>1, <2>10, <1>1
            DEF DiskInv, SlotsCurrent, RecorderInv, SlotsOwnTheirFiles
        <4>2. slot[j].vt \in DOMAIN video /\ slot[j].vt # v
            BY <4>1, <2>3 DEF Current, RecorderInv, SlotsOwnTheirFiles
        <4> QED BY <4>1, <4>2, <3>1, <2>8, <1>1 DEF Current
      <3>2. Current(i)'
          BY <2>4, <2>8, <2>9, <1>1 DEF Current, v
      <3> QED BY <3>1, <3>2, <1>1 DEF SlotsCurrent
    <2>14. FilesMatch'
        BY <1>1, <2>8, <2>10 DEF DiskInv, FilesMatch, IndexNames, HasSlot
    <2>15. RecordsPoint'
      <3> SUFFICES ASSUME NEW p \in DOMAIN index \cap DOMAIN video
                   PROVE  PointsAt(index[p], video'[p])
          BY <1>1, <2>8, <2>10 DEF RecordsPoint, IndexNames, IndexOf, PointsAt
      <3>1. PointsAt(index[p], video[p])
          BY <2>10 DEF DiskInv, RecordsPoint, IndexNames, IndexOf
      <3> QED BY <3>1, <2>5, <2>8, <2>9 DEF PointsAt, old
    <2>16. RecordsTimed' /\ SealedAsNamed' /\ SegmentsDisjoint'
        BY <1>1 DEF DiskInv, RecordsTimed, SealedAsNamed, Sealed, SegmentsDisjoint
    <2>17. OpenIsLast'
        BY <1>1, <2>10 DEF DiskInv, OpenIsLast, Before
    <2>18. SealInHand' /\ OpenInHand'
        BY <1>1, <2>10 DEF SealInHand, OpenInHand
    <2>19. /\ cur.n > 0 /\ Len(old) < cur.n
           /\ \A p \in DOMAIN video : \A k \in 1 .. Len(video[p]) : video[p][k].n < cur.n
        BY <2>3, <2>10 DEF DiskInv, FramesNumbered, old
    <2>20. FramesNumbered'
      <3> SUFFICES ASSUME NEW p \in DOMAIN video
                   PROVE  /\ \A k \in 1 .. Len(video'[p]) :
                                video'[p][k].ch = p.ch /\ video'[p][k].n <= cur.n
                          /\ Len(video'[p]) <= cur.n
          BY <1>1, <2>8, <2>10 DEF FramesNumbered
      <3>1. /\ \A k \in 1 .. Len(video[p]) :
                  video[p][k].ch = p.ch /\ video[p][k].n <= cur.n
            /\ Len(video[p]) <= cur.n
          BY DEF DiskInv, FramesNumbered
      <3>2. CASE p = v
        <4>1. \A k \in 1 .. Len(old) + 1 : k \in 1 .. Len(old) \/ k = Len(old) + 1
            BY <2>5
        <4> QED BY <3>1, <3>2, <4>1, <2>3, <2>5, <2>9, <2>19, <1>1 DEF old
      <3> QED BY <3>1, <3>2, <2>8
    <2>21. FramesOnce'
      <3> SUFFICES ASSUME NEW p \in DOMAIN video, NEW q \in DOMAIN video, p # q,
                          NEW k \in 1 .. Len(video'[p]), NEW l \in 1 .. Len(video'[q])
                   PROVE  video'[p][k].n # video'[q][l].n
          BY <2>8 DEF FramesOnce
      <3>1. \/ k \in 1 .. Len(video[p]) /\ video'[p][k] = video[p][k]
            \/ p = v /\ video'[p][k].n = cur.n
          BY <2>5, <2>8, <2>9 DEF old
      <3>2. \/ l \in 1 .. Len(video[q]) /\ video'[q][l] = video[q][l]
            \/ q = v /\ video'[q][l].n = cur.n
          BY <2>5, <2>8, <2>9 DEF old
      <3>3. \A x \in DOMAIN video : \A m \in 1 .. Len(video[x]) : video[x][m].n # cur.n
          BY <2>19, <1>1, FileTypes DEF RecorderInv
      <3> QED BY <3>1, <3>2, <3>3 DEF DiskInv, FramesOnce
    <2>22. FramesOrdered'
      <3> SUFFICES ASSUME NEW p \in DOMAIN video, NEW k \in 1 .. Len(video'[p]) - 1
                   PROVE  video'[p][k].n < video'[p][k + 1].n
          BY <2>8 DEF FramesOrdered
      <3>1. CASE p # v \/ k \in 1 .. Len(old) - 1
        <4>1. /\ k \in 1 .. Len(video[p]) - 1
              /\ video'[p][k] = video[p][k] /\ video'[p][k + 1] = video[p][k + 1]
            BY <3>1, <2>5, <2>8, <2>9 DEF old
        <4> QED BY <4>1 DEF DiskInv, FramesOrdered
      <3>2. CASE p = v /\ k \notin 1 .. Len(old) - 1
        <4>1. /\ k \in 1 .. Len(old) /\ video'[p][k] = old[k] /\ video'[p][k + 1] = cur
            BY <3>2, <2>5, <2>9
        <4> QED BY <4>1, <3>2, <2>3, <2>19 DEF old
      <3> QED BY <3>1, <3>2
    <2>23. JustWritten'
      <3> SUFFICES ASSUME cur.type = "I", NEW k \in 2 .. Len(index[v])
                   PROVE  index[v][k].at < Len(old) + 1
          BY <1>1, <2>5, <2>9, <2>11 DEF JustWritten
      <3>1. v \in DOMAIN index
          BY <2>1, <2>4 DEF Current, v, RecorderInv, SlotsOwnTheirFiles
      <3>2. IsRecord(index[v][k])
          BY <3>1 DEF DiskInv, RecordsTimed, Timed
      <3>3. PointsAt(index[v], old)
          BY <3>1, <2>3, <2>10 DEF DiskInv, RecordsPoint, IndexNames, IndexOf, old
      <3>4. k \in 1 .. Len(index[v])
          BY <3>1, FileTypes DEF RecorderInv
      <3> QED BY <3>2, <3>3, <3>4, <2>5 DEF PointsAt
    <2> QED BY <2>12, <2>13, <2>14, <2>15, <2>16, <2>17, <2>18, <2>20, <2>21, <2>22, <2>23
            DEF DiskInv
  <1> QED BY <1>3, <1>4

\* A record of a later time goes to the end of an index file.
LEMMA AppendTimed ==
    ASSUME NEW d \in Seq(Record), NEW r \in Record, NEW day,
           Len(d) >= 1, Timed(d, day), IsRecord(r), Day(r.time) = day,
           \A k \in 2 .. Len(d) : d[k].time <= r.time
    PROVE  Timed(Append(d, r), day)
  <1> DEFINE e == Append(d, r)
  <1>1. /\ Len(d) \in Nat /\ Len(e) = Len(d) + 1 /\ e[Len(d) + 1] = r
        /\ \A k \in 1 .. Len(d) : e[k] = d[k]
        /\ r.time \in Nat /\ \A k \in 1 .. Len(d) : d[k].time \in Nat
    <2>1. \A x \in Record : x.time \in Nat
        BY DEF Record
    <2> QED BY <2>1
  <1> HIDE DEF e
  <1>2. Len(d) >= 1 /\ e[1] = Zero
      BY <1>1 DEF Timed
  <1>3. ASSUME NEW k \in 2 .. Len(e)
        PROVE  /\ IsRecord(e[k]) /\ Day(e[k].time) = day
               /\ e[2].time <= e[k].time /\ e[k].time <= e[Len(e)].time
    <2>1. CASE k = Len(d) + 1
      <3>1. e[k] = r
          BY <2>1, <1>1
      <3>2. e[2].time <= r.time
          BY <2>1, <1>1, <1>2
      <3> QED BY <3>1, <3>2, <2>1, <1>1
    <2>2. CASE k # Len(d) + 1
      <3>1. k \in 2 .. Len(d) /\ e[k] = d[k] /\ e[2] = d[2]
          BY <2>2, <1>1
      <3> QED BY <3>1, <1>1 DEF Timed
    <2> QED BY <2>1, <2>2
  <1> QED BY <1>1, <1>2, <1>3 DEF Timed, e

\* The record of the frame just written.
NewRecord == [time |-> cur.time, at |-> Len(video[TmpOf(cur)])]

LEMMA PutIndexRecordAppends ==
    ASSUME RecorderInv, DiskInv, NoFaults, PutIndexRecord
    PROVE  Appends(index, index', TmpOf(cur), NewRecord) /\ UNCHANGED pos
  <1> DEFINE T == TmpOf(cur)
  <1>1. /\ pc = "index" /\ HasSlot(cur.ch) /\ cur.ch # 0 /\ cur.type = "I"
      BY RecorderAssumption DEF PutIndexRecord, RecorderInv, CallInv
  <1>2. PICK i \in SlotIds : i = MySlot /\ slot[i].channel = cur.ch
      BY <1>1, MySlotIs
  <1>3. /\ slot[i].vt = T /\ slot[i].it = T /\ T # NoFd /\ T \in DOMAIN index
        /\ pos[i] = Len(video[T]) /\ T.ch = cur.ch /\ T.name = Tmp
      BY <1>1, <1>2, AtSlot DEF TmpOf
  <1>4. CurrentRecord = NewRecord /\ UNCHANGED pos
      BY <1>2, <1>3 DEF CurrentRecord, NewRecord, PutIndexRecord, PosAtEnd, RecorderInv,
                        TypeOK
  <1> QED BY <1>2, <1>3, <1>4 DEF PutIndexRecord, NoFaults, Appended, Appends

\* The first record of a segment is later than all the channel's others.
LEMMA FirstRecordIsLast ==
    ASSUME RecorderInv, DiskInv, pc = "index",
           NEW q \in DOMAIN index, q.ch = cur.ch, q # TmpOf(cur),
           ~(Len(index[TmpOf(cur)]) >= 2)
    PROVE  Before(q, cur.time)
  <1> DEFINE T == TmpOf(cur)
  <1>1. HasSlot(cur.ch) /\ cur.ch # 0 /\ cur.type = "I"
      BY RecorderAssumption DEF RecorderInv, CallInv
  <1>2. PICK i \in SlotIds : i = MySlot /\ slot[i].channel = cur.ch
      BY <1>1, MySlotIs
  <1>3. slot[i].it = T /\ T # NoFd /\ T.day = Day(cur.time)
      BY <1>1, <1>2, AtSlot DEF TmpOf
  <1> HIDE DEF T
  <1>4. q.day < T.day \/ Before(q, cur.time)
      BY <1>1, <1>2, <1>3 DEF DiskInv, OpenIsLast, Opening, T
  <1>5. ASSUME q.day < T.day PROVE Before(q, cur.time)
    <2> SUFFICES ASSUME NEW k \in 2 .. Len(index[q])
                 PROVE  index[q][k].time < cur.time
        BY DEF Before
    <2>1. index[q][k].time \in Nat /\ cur.time \in Nat
        BY FileTypes DEF RecorderInv
    <2>2. Day(index[q][k].time) = q.day
        BY DEF DiskInv, RecordsTimed, Timed
    <2> QED BY <2>1, <2>2, <1>3, <1>5, DayOrder
  <1> QED BY <1>4, <1>5

LEMMA PutIndexRecordDisk ==
    ASSUME RecorderInv, DiskInv, NoFaults, PutIndexRecord
    PROVE  DiskInv'
  <1> DEFINE T == TmpOf(cur)
             d == index[T]
             r == NewRecord
             e == Append(d, r)
  <1>1. /\ pc = "index" /\ pc' = "release" /\ HasSlot(cur.ch)
        /\ cur.ch \in Channels /\ cur.ch # 0 /\ cur.type = "I"
        /\ UNCHANGED <<video, chanDir, dayDir, slot, cur>>
      BY RecorderAssumption DEF PutIndexRecord, dirs, RecorderInv, CallInv
  <1>2. PICK i \in SlotIds : i = MySlot /\ slot[i].channel = cur.ch
      BY <1>1, MySlotIs
  <1>3. /\ slot[i].vt = T /\ slot[i].it = T /\ T # NoFd
        /\ T \in DOMAIN video /\ T \in DOMAIN index
        /\ pos[i] = Len(video[T]) /\ T.ch = cur.ch /\ T.day = Day(cur.time) /\ T.name = Tmp
        /\ d # << >>
      BY <1>1, <1>2, AtSlot DEF TmpOf
  <1>4. UNCHANGED pos
      BY PutIndexRecordAppends
  <1>5. /\ DOMAIN index' = DOMAIN index /\ index'[T] = e
        /\ \A p \in DOMAIN index : p # T => index'[p] = index[p]
      BY PutIndexRecordAppends DEF Appends
  <1>6. /\ d \in Seq(Record) /\ Len(d) \in Nat /\ \A k \in 1 .. Len(d) : d[k].time \in Nat
        /\ cur.time \in Nat /\ Len(video[T]) \in Nat
      BY <1>3, FileTypes DEF RecorderInv
  <1>7. r \in Record /\ IsRecord(r) /\ r.time = cur.time
      BY <1>6 DEF NewRecord, Record, IsRecord, DiskInv, RecordsTimed
  <1>8. /\ Len(e) = Len(d) + 1 /\ e[Len(d) + 1] = r
        /\ \A k \in 1 .. Len(d) : e[k] = d[k]
      BY <1>6, <1>7
  <1>9. /\ Len(video[T]) >= 1 /\ video[T][Len(video[T])] = cur
      BY <1>1 DEF DiskInv, JustWritten
  <1>10. /\ Timed(d, T.day) /\ \A k \in 2 .. Len(d) : d[k].time <= r.time
      BY <1>3, <1>7 DEF DiskInv, RecordsTimed
  <1>11. /\ ~Moving /\ ~Moving' /\ ~Unready /\ ~Unready' /\ ~Unwritten'
         /\ ~Opening /\ ~Opening' /\ (\A p : ~HalfMade(p) /\ ~HalfMade(p)')
         /\ \A ch : ~Starting(ch)'
         /\ \A ch : Starting(ch) => ch = cur.ch
      BY <1>1 DEF Moving, Unready, Opening, HalfMade, Unwritten, Starting
  <1> HIDE DEF T, d, r, e
  <1>12. Timed(e, T.day) /\ Len(e) >= 2
    <2>1. Len(d) >= 1
        BY <1>3, <1>6
    <2> QED BY <2>1, <1>3, <1>6, <1>7, <1>8, <1>10, AppendTimed DEF e
  \* The channel's other segments are earlier than this one's first record.
  <1>13. ASSUME NEW q \in DOMAIN index, q # T, q.ch = cur.ch
         PROVE  /\ Before(q, e[2].time)
                /\ Len(index[q]) >= 2 => index[q][Len(index[q])].time < e[2].time
    <2>1. CASE Len(d) >= 2
      <3>1. Before(q, d[2].time)
          BY <2>1, <1>1, <1>2, <1>3, <1>11, <1>13 DEF DiskInv, OpenIsLast, d
      <3> QED BY <3>1, <2>1, <1>6, <1>8, <1>13, FileTypes DEF Before, RecorderInv
    <2>2. CASE ~(Len(d) >= 2)
      <3>1. e[2] = r
          BY <2>2, <1>6, <1>8, <1>12
      <3>2. Before(q, cur.time)
          BY <2>2, <1>1, <1>13, FirstRecordIsLast DEF d, T
      <3> QED BY <3>1, <3>2, <1>7, <1>13, FileTypes DEF Before, RecorderInv
    <2> QED BY <2>1, <2>2
  <1>14. DirsKnown'
      BY <1>1, <1>5 DEF DiskInv, DirsKnown
  <1>15. SlotsCurrent'
    <2>1. \A p \in DOMAIN index : index[p] # << >> => index'[p] # << >>
        BY <1>5, <1>6, <1>8
    <2>2. \A j \in SlotIds : slot[j].channel # 0 =>
              Current(j) /\ slot[j].it \in DOMAIN index
        BY <1>11 DEF DiskInv, SlotsCurrent, Current, RecorderInv, SlotsOwnTheirFiles
    <2> QED BY <2>1, <2>2, <1>1, <1>4 DEF SlotsCurrent, Current
  <1>16. FilesMatch'
      BY <1>1, <1>5, <1>11 DEF DiskInv, FilesMatch, IndexNames, HasSlot
  <1>17. RecordsPoint'
    <2> SUFFICES ASSUME NEW p \in DOMAIN index \cap DOMAIN video
                 PROVE  PointsAt(index'[p], video[p])
        BY <1>1, <1>5, <1>11 DEF RecordsPoint, IndexNames, IndexOf, PointsAt
    <2>1. PointsAt(index[p], video[p])
        BY <1>11 DEF DiskInv, RecordsPoint, IndexNames, IndexOf
    <2>2. CASE p = T
      <3> SUFFICES ASSUME NEW k \in 1 .. Len(e), IsRecord(e[k])
                   PROVE  /\ e[k].at \in 1 .. Len(video[T])
                          /\ video[T][e[k].at].type = "I"
                          /\ video[T][e[k].at].time = e[k].time
          BY <2>2, <1>5 DEF PointsAt
      <3>1. CASE k \in 1 .. Len(d)
          BY <3>1, <2>1, <2>2, <1>8 DEF PointsAt, d
      <3>2. CASE k = Len(d) + 1
        <4>1. e[k].at = Len(video[T]) /\ e[k].time = cur.time
            BY <3>2, <1>8 DEF r, NewRecord, T
        <4> QED BY <4>1, <1>1, <1>6, <1>9
      <3> QED BY <3>1, <3>2, <1>6, <1>8
    <2>3. CASE p # T
        BY <2>1, <2>3, <1>5
    <2> QED BY <2>2, <2>3
  <1>18. RecordsTimed'
    <2>1. \A k \in 2 .. Len(e) : e[k].time <= cur.time
        BY <1>6, <1>7, <1>8, <1>10
    <2> QED BY <2>1, <1>1, <1>5, <1>12 DEF DiskInv, RecordsTimed
  <1>19. SealedAsNamed'
      BY <1>3, <1>5 DEF DiskInv, SealedAsNamed, Sealed
  <1>20. SegmentsDisjoint'
    <2> SUFFICES ASSUME NEW p \in DOMAIN index, NEW q \in DOMAIN index,
                        p # q, p.ch = q.ch, Len(index'[p]) >= 2, Len(index'[q]) >= 2
                 PROVE  \/ index'[p][Len(index'[p])].time < index'[q][2].time
                        \/ index'[q][Len(index'[q])].time < index'[p][2].time
        BY <1>5 DEF SegmentsDisjoint
    <2>1. CASE p = T
        BY <2>1, <1>3, <1>5, <1>13
    <2>2. CASE q = T
        BY <2>2, <1>3, <1>5, <1>13
    <2>3. CASE p # T /\ q # T
        BY <2>3, <1>5 DEF DiskInv, SegmentsDisjoint
    <2> QED BY <2>1, <2>2, <2>3
  <1>21. OpenIsLast'
    <2> SUFFICES ASSUME NEW j \in SlotIds, NEW q \in DOMAIN index,
                        slot[j].channel # 0, slot[j].it # NoFd,
                        q # slot[j].it, q.ch = slot[j].channel
                 PROVE  IF Len(index'[slot[j].it]) >= 2
                        THEN Before(q, index[slot[j].it][2].time)'
                        ELSE q.day < slot[j].it.day
        BY <1>1, <1>5 DEF OpenIsLast, Before
    <2>1. CASE j = i
      <3>1. Before(q, e[2].time) /\ index'[q] = index[q]
          BY <2>1, <1>2, <1>3, <1>5, <1>13
      <3> QED BY <3>1, <2>1, <1>1, <1>3, <1>5, <1>12 DEF Before
    <2>2. CASE j # i
      <3>1. slot[j].channel # cur.ch
          BY <2>2, <1>1, <1>2 DEF RecorderInv, SlotsOwnTheirFiles
      <3>2. slot[j].it \in DOMAIN index /\ slot[j].it.ch # cur.ch
          BY <3>1 DEF RecorderInv, SlotsOwnTheirFiles
      <3>3. index'[q] = index[q] /\ index'[slot[j].it] = index[slot[j].it]
          BY <3>1, <3>2, <1>3, <1>5
      <3> QED BY <3>1, <3>3, <1>1, <1>11 DEF DiskInv, OpenIsLast, Before
    <2> QED BY <2>1, <2>2
  <1>22. SealInHand' /\ OpenInHand' /\ JustWritten'
      BY <1>1, <1>11 DEF SealInHand, OpenInHand, JustWritten
  <1>23. FramesNumbered'
      BY <1>1, <1>11 DEF DiskInv, FramesNumbered
  <1>24. FramesOnce' /\ FramesOrdered'
      BY <1>1 DEF DiskInv, FramesOnce, FramesOrdered
  <1> QED BY <1>14, <1>15, <1>16, <1>17, <1>18, <1>19, <1>20, <1>21, <1>22, <1>23, <1>24
          DEF DiskInv

LEMMA ReleaseDisk ==
    ASSUME RecorderInv, DiskInv, Release
    PROVE  DiskInv'
  <1>1. Quiet /\ pc = "release" /\ pc' = "idle" /\ UNCHANGED <<chanDir, dayDir>>
      BY DEF Release, Quiet, files, dirs
  <1> QED BY <1>1, QuietDisk DEF DiskInv

-----------------------------------------------------------------------------
LEMMA NextDisk ==
    ASSUME RecorderInv, DiskInv, NoFaults, [Next]_vars
    PROVE  DiskInv'
  <1>1. ASSUME NEW type \in {"I", "P"}, NEW ch \in Channels,
               NEW time \in 1 .. MaxTime, Call(type, ch, time)
        PROVE  DiskInv'
      BY <1>1, CallDisk
  <1>2. CASE Prepare
      BY <1>2, MakeChannelDirDisk, MakeChannelDayDisk, MakeDayDirDisk, CheckTmpDisk
      DEF Prepare
  <1>3. CASE Open
      BY <1>3, OpenVideoDisk, OpenIndexDisk, InitIndexDisk DEF Open
  <1>4. CASE ExamineSegment
      BY <1>4, ExamineDisk
  <1>5. CASE Seal
      BY <1>5, RenameVideoDisk, RenameIndexDisk DEF Seal
  <1>6. CASE Store
      BY <1>6, WriteFrameDisk, PutIndexRecordDisk, ReleaseDisk DEF Store
  <1>7. CASE Restart
      BY <1>7, RestartDisk
  <1>8. CASE UNCHANGED vars
      BY <1>8, StutterDisk
  <1> QED BY <1>1, <1>2, <1>3, <1>4, <1>5, <1>6, <1>7, <1>8 DEF Next

\* As long as nothing fails but the process itself, the files stay as DiskInv says.
THEOREM DiskInvariant ==
    ASSUME NoFaults
    PROVE  Spec => [](RecorderInv /\ DiskInv)
  <1>1. Init => DiskInv
      BY InitDisk
  <1>2. RecorderInv /\ DiskInv /\ [Next]_vars => DiskInv'
      BY NextDisk
  <1> QED BY <1>1, <1>2, RecorderInvariant, PTL DEF Spec

-----------------------------------------------------------------------------
(* What the files promise. *)

\* Two segments of a channel never overlap in time, on whatever day they were
\* recorded and wherever storage_one_frame was killed: the terminal's search goes
\* through them one after the other.
THEOREM SegmentsAlwaysDisjoint ==
    ASSUME NoFaults
    PROVE  Spec => []SegmentsDisjoint
  <1>1. DiskInv => SegmentsDisjoint
      BY DEF DiskInv
  <1> QED BY <1>1, DiskInvariant, PTL

\* A sealed segment's name and directory tell the day and the times of its first
\* and last I frame: what sprintf made of the records before close() and rename()
\* is still true of the file it is given to.
THEOREM SealedNamesAlwaysTrue ==
    ASSUME NoFaults
    PROVE  Spec => []SealedNamesTrue
  <1>1. RecorderInv /\ DiskInv => SealedNamesTrue
    <2> SUFFICES ASSUME RecorderInv, DiskInv, NEW p \in Sealed(index)
                 PROVE  /\ Len(index[p]) >= 2
                        /\ p.name = NameOf(index[p])
                        /\ Day(index[p][2].time) = p.day
                        /\ Day(index[p][Len(index[p])].time) = p.day
        BY DEF SealedNamesTrue, NameOf
    <2>1. Len(index[p]) >= 2 /\ p.name = NameOf(index[p])
        BY DEF DiskInv, SealedAsNamed
    <2>2. p \in DOMAIN index /\ Timed(index[p], p.day)
        BY DEF Sealed, DiskInv, RecordsTimed
    <2>3. Len(index[p]) \in Nat
        BY <2>2, FileTypes DEF RecorderInv
    <2> QED BY <2>1, <2>2, <2>3 DEF Timed
  <1> QED BY <1>1, DiskInvariant, PTL

\* A video file holds its own channel's frames in the order they arrived, and no
\* frame is in two places: nothing is written twice, and a seal takes a file along
\* whole.
THEOREM AlwaysStoredOnceInOrder ==
    ASSUME NoFaults
    PROVE  Spec => []StoredOnceInOrder
  <1>1. RecorderInv /\ DiskInv => StoredOnceInOrder
    <2> SUFFICES ASSUME RecorderInv, DiskInv PROVE StoredOnceInOrder
        OBVIOUS
    <2>1. ASSUME NEW p \in DOMAIN video
          PROVE  /\ \A k \in 1 .. Len(video[p]) : video[p][k].ch = p.ch
                 /\ \A k \in 1 .. Len(video[p]) - 1 : video[p][k].n < video[p][k + 1].n
        BY DEF DiskInv, FramesNumbered, FramesOrdered
    <2>2. ASSUME NEW p \in DOMAIN video, NEW q \in DOMAIN video, p # q,
                 NEW k \in 1 .. Len(video[p]), NEW l \in 1 .. Len(video[q])
          PROVE  video[p][k] # video[q][l]
        BY <2>2 DEF DiskInv, FramesOnce
    <2> QED BY <2>1, <2>2 DEF StoredOnceInOrder
  <1> QED BY <1>1, DiskInvariant, PTL

\* Every record points at the I frame it was made for, in the file of the same
\* name, between the two renames of a seal too.
THEOREM IndexAlwaysPointsAtFrame ==
    ASSUME NoFaults
    PROVE  Spec => []IndexPointsAtFrame
  <1>1. RecorderInv /\ DiskInv => IndexPointsAtFrame
    <2> SUFFICES ASSUME RecorderInv, DiskInv, NEW p \in DOMAIN index \cap DOMAIN video
                 PROVE  PointsAt(index[p], video[p])
        BY DEF IndexPointsAtFrame, PointsAt
    <2>1. CASE Moving /\ p = TmpOf(cur)
      <3>1. p # seg /\ p \in DOMAIN video /\ p.ch = cur.ch
          BY <2>1 DEF DiskInv, SealInHand, TmpOf, Moving
      <3>2. HasSlot(cur.ch) /\ cur.ch \in Channels
          BY <2>1 DEF RecorderInv, CallInv, Moving
      <3> QED BY <3>1, <3>2, <2>1, RecorderAssumption
              DEF DiskInv, FilesMatch, IndexNames, HalfMade, Moving
    <2>2. CASE ~(Moving /\ p = TmpOf(cur))
      <3>1. p \in IndexNames /\ IndexOf(p) = index[p]
          BY <2>2 DEF IndexNames, IndexOf, DiskInv, SealInHand
      <3> QED BY <3>1 DEF DiskInv, RecordsPoint
    <2> QED BY <2>1, <2>2
  <1> QED BY <1>1, DiskInvariant, PTL
=============================================================================
