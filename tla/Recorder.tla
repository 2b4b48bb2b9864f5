------------------------------ MODULE Recorder ------------------------------
(***************************************************************************)
(* storage_one_frame (p4storagefun.c:247-537): how one frame of a channel  *)
(* reaches the disk.                                                       *)
(*                                                                         *)
(* Every channel and day has a directory for video and one for index       *)
(* files.  The frames of a channel are appended to the day's tmp.h264, and *)
(* a record of each I frame to tmp.index, through the two descriptors kept *)
(* in the channel's slot of channel_tmp.  When an I frame does not follow  *)
(* the last one within MAX_GAP seconds, or the segment has reached         *)
(* SEG_TIME seconds, the two files are closed, renamed after the times of  *)
(* their first and last record ("sealed"), and opened anew.                *)
(*                                                                         *)
(* Each step below has one effect on the file system at most, with what    *)
(* the process does in its own memory before the next, so that a crash can *)
(* fall between any two effects.  The directories of the index files have  *)
(* no variable: mkdir() is taken to succeed, and where a crash leaves one  *)
(* out no file is opened any more, as the channel gets no slot after it.   *)
(*                                                                         *)
(* A file is named by its path [ch, day, name], name being Tmp or the two  *)
(* times of a sealed segment, and so is an open descriptor: no file is     *)
(* renamed while a slot has it open.  What a video file holds is its       *)
(* sequence of frames, and an offset into it the number of the frame       *)
(* there: frames are taken to be equally long, and a write, the two of a P *)
(* frame together, to be whole or not at all.                              *)
(*                                                                         *)
(* Times are in seconds; 0 is the empty record's time.  A frame has one    *)
(* time: that the encoder stamps the frame's RTC, which the records are    *)
(* made from, and cshmindex->time, which the paths are made from, with the *)
(* same clock is an assumption about code that is not in the repository.   *)
(***************************************************************************)
EXTENDS Naturals, Sequences, FiniteSets

CONSTANTS Channels,           \* channels the encoder records
          CHANNEL_CNT,        \* slots of channel_tmp
          SEG_TIME,           \* seconds of a segment (300)
          MAX_GAP,            \* seconds an I frame may follow the last (2)
          DAY_LEN,            \* seconds of a day
          RtcMayBeBad,        \* may a frame's clock be no valid time?
          OpenMayFail,        \* may open() fail?
          DiskMayFill,        \* may write() fail?
          RenameMayFail,      \* may rename() fail on a file that is there?
          ClockMayStepBack,   \* may the encoder's clock be set back?
          MaxTime, MaxFrames, MaxCrashes        \* bounds

ASSUME RecorderAssumption ==
    /\ 0 \notin Channels                 \* channel 0 would be a free slot
    /\ CHANNEL_CNT \in Nat /\ SEG_TIME \in Nat \ {0} /\ MAX_GAP \in Nat
    /\ DAY_LEN \in Nat \ {0}
    /\ {RtcMayBeBad, OpenMayFail, DiskMayFill, RenameMayFail, ClockMayStepBack}
          \subseteq BOOLEAN
    /\ MaxTime \in Nat /\ MaxFrames \in Nat /\ MaxCrashes \in Nat

VARIABLES
    video, index,       \* the files: path |-> contents
    chanDir, dayDir,    \* the directories: {ch}, {<<ch, day>>}
    slot,               \* channel_tmp
    pos,                \* frames before the file position of a slot's vt_fd
    pc,                 \* where storage_one_frame is; "idle" outside of it
    cur,                \* its frame
    seg,                \* the path the finished segment is renamed to
    crecord,            \* the index record made ahead of the write
    accepted,           \* history: the frames it returned 1 for, and released,
                        \* since the process was started
    crashes             \* crashes so far

files == <<video, index>>
dirs  == <<chanDir, dayDir>>
vars  == <<video, index, chanDir, dayDir, slot, pos, pc, cur, seg, crecord,
           accepted, crashes>>

Day(t)       == t \div DAY_LEN
TimeOfDay(t) == t % DAY_LEN     \* the HHMMSS of convert_utc_to_localtime

Tmp  == << >>
Path == [ch : Channels \cup {0}, day : Nat, name : {Tmp} \cup (Nat \X Nat)]
NoFd == [ch |-> 0, day |-> 0, name |-> Tmp]

Frame  == [n : Nat, type : {"I", "P"}, ch : Channels \cup {0}, time : Nat]
Record == [time : Nat, at : Nat]
Zero   == [time |-> 0, at |-> 0]

SlotIds  == 1 .. CHANNEL_CNT
FreeSlot == [channel |-> 0, vt |-> NoFd, it |-> NoFd]

IsFiles(fs, Content) ==
    DOMAIN fs \subseteq Path /\ fs \in [DOMAIN fs -> Seq(Content)]

TypeOK ==
    /\ IsFiles(video, Frame) /\ IsFiles(index, Record)
    /\ chanDir \subseteq Channels /\ dayDir \subseteq Channels \X Nat
    /\ slot \in [SlotIds -> [channel : Channels \cup {0}, vt : Path, it : Path]]
    /\ pos \in [SlotIds -> Nat]
    /\ pc \in {"idle", "prepare", "channel_day", "open_video", "open_index",
               "open_init", "tmp", "again_video", "again_index", "examine",
               "rename_video", "rename_index", "seal_video", "seal_index",
               "seal_init", "write", "index", "release"}
    /\ cur \in Frame /\ seg \in Path /\ crecord \in Record
    /\ accepted \in Seq(Frame)
    /\ crashes \in Nat

-----------------------------------------------------------------------------
(* Files. *)

TmpOf(frame) == [ch |-> frame.ch, day |-> Day(frame.time), name |-> Tmp]

\* open_tmp: a descriptor of the file, or -1.
OpenResults(path) == IF OpenMayFail THEN {path, NoFd} ELSE {path}

\* The files once fd is open: it is there, empty when it was not before.
Opened(fs, fd) ==
    IF fd = NoFd THEN fs
    ELSE [p \in DOMAIN fs \cup {fd} |-> IF p \in DOMAIN fs THEN fs[p] ELSE << >>]

\* init_index_tmp: the zero record, written at the start of the file just opened.
Initialised(fs, fd) ==
    IF fd = NoFd THEN fs
    ELSE [fs EXCEPT ![fd] = IF @ = << >> THEN <<Zero>> ELSE [@ EXCEPT ![1] = Zero]]

Appended(fs, fd, x) ==
    IF fd = NoFd THEN fs ELSE [fs EXCEPT ![fd] = Append(@, x)]

\* write() behind the first n frames: there may be an older frame in that place.
Written(data, n, x) ==
    IF n < Len(data) THEN [data EXCEPT ![n + 1] = x] ELSE Append(data, x)

\* rename(): takes the place of a file of the new name; does nothing to no file.
Renamed(fs, from, to) ==
    IF from \notin DOMAIN fs THEN fs
    ELSE [p \in (DOMAIN fs \ {from}) \cup {to} |->
             IF p = to THEN fs[from] ELSE fs[p]]

-----------------------------------------------------------------------------
(* Slots. *)

\* The loops over channel_tmp stop at the first slot that matches.
FirstSlot(slots, ch) ==
    CHOOSE i \in SlotIds : /\ slots[i].channel = ch
                           /\ \A j \in 1 .. i - 1 : slots[j].channel # ch

HasSlot(ch) == \E i \in SlotIds : slot[i].channel = ch
SlotOf(ch)  == FirstSlot(slot, ch)

MySlot == SlotOf(cur.ch)

-----------------------------------------------------------------------------
Init ==
    /\ video = [p \in {} |-> << >>] /\ index = [p \in {} |-> << >>]
    /\ chanDir = {} /\ dayDir = {}
    /\ slot = [i \in SlotIds |-> FreeSlot] /\ pos = [i \in SlotIds |-> 0]
    /\ pc = "idle"
    /\ cur = [n |-> 0, type |-> "P", ch |-> 0, time |-> 1]
    /\ seg = NoFd /\ crecord = Zero
    /\ accepted = << >>
    /\ crashes = 0

\* p4_video calls storage_one_frame with the next frame.  A crash uses up one
\* frame of the bound.
Call(type, ch, time) ==
    /\ pc = "idle" /\ cur.n + crashes < MaxFrames
    /\ ClockMayStepBack \/ time >= cur.time
    /\ cur' = [n |-> cur.n + 1, type |-> type, ch |-> ch, time |-> time]
    /\ pc' = IF type = "I" THEN "prepare" ELSE "write"
    /\ UNCHANGED <<files, dirs, slot, pos, seg, crecord, accepted, crashes>>

(* The directories and the tmp files of an I frame. *)

\* The first I frame of a channel: its directory ...
MakeChannelDir ==
    /\ pc = "prepare"
    /\ cur.ch \notin chanDir
    /\ chanDir' = chanDir \cup {cur.ch}
    /\ pc' = "channel_day"
    /\ UNCHANGED <<files, dayDir, slot, pos, cur, seg, crecord, accepted, crashes>>

\* Fault: the first slot is taken, free or not.
MakeChannelDayFirst ==
    /\ pc = "channel_day"
    /\ dayDir' = dayDir \cup {<<cur.ch, Day(cur.time)>>}
    /\ slot' = [slot EXCEPT ![1].channel = cur.ch]
    /\ pc' = "open_video"
    /\ UNCHANGED <<files, chanDir, pos, cur, seg, crecord, accepted, crashes>>

\* ... the day's below it, and a slot, if one is free.
MakeChannelDay ==
    /\ pc = "channel_day"
    /\ dayDir' = dayDir \cup {<<cur.ch, Day(cur.time)>>}
    /\ \/ /\ HasSlot(0)
          /\ slot' = [slot EXCEPT ![SlotOf(0)].channel = cur.ch]
          /\ pc' = "open_video"
       \/ /\ ~HasSlot(0)
          /\ pc' = "tmp" /\ UNCHANGED slot
    /\ UNCHANGED <<files, chanDir, pos, cur, seg, crecord, accepted, crashes>>

\* The first I frame of a later day.  Yesterday's tmp files are left as they are,
\* never sealed.
MakeDayDir ==
    /\ pc = "prepare"
    /\ cur.ch \in chanDir /\ <<cur.ch, Day(cur.time)>> \notin dayDir
    /\ dayDir' = dayDir \cup {<<cur.ch, Day(cur.time)>>}
    /\ pc' = IF HasSlot(cur.ch) THEN "open_video" ELSE "tmp"
    /\ UNCHANGED <<files, chanDir, slot, pos, cur, seg, crecord, accepted, crashes>>

\* tmp.h264 is there but neither descriptor of the slot is open.
BothClosed == HasSlot(cur.ch) /\ slot[MySlot].vt = NoFd /\ slot[MySlot].it = NoFd

CheckTmp ==
    /\ pc = "tmp" \/ (pc = "prepare" /\ <<cur.ch, Day(cur.time)>> \in dayDir)
    /\ pc' = IF TmpOf(cur) \in DOMAIN video /\ BothClosed
             THEN "again_video" ELSE "examine"
    /\ UNCHANGED <<files, dirs, slot, pos, cur, seg, crecord, accepted, crashes>>

\* The two open_tmp, and init_index_tmp but for the files that were there, stand in
\* three places: for a new day, for files found closed, and after a seal.
After == [open_video  |-> "open_index",  open_index  |-> "open_init",
          open_init   |-> "tmp",
          again_video |-> "again_index", again_index |-> "examine",
          seal_video  |-> "seal_index",  seal_index  |-> "seal_init",
          seal_init   |-> "write"]

\* Fault: after a seal the file just sealed is opened, by its new name.
OpenVideoSealed ==
    /\ pc \in {"open_video", "again_video", "seal_video"}
    /\ \E vt \in OpenResults(IF pc = "seal_video" THEN seg ELSE TmpOf(cur)) :
          /\ slot' = [slot EXCEPT ![MySlot].vt = vt]
          /\ pos' = [pos EXCEPT ![MySlot] = 0]
          /\ video' = Opened(video, vt)
    /\ pc' = After[pc]
    /\ UNCHANGED <<index, dirs, cur, seg, crecord, accepted, crashes>>

\* A file that is there is written from its start: only a lookup in the video file
\* moves the position behind the frames it has.
OpenVideo ==
    /\ pc \in {"open_video", "again_video", "seal_video"}
    /\ \E vt \in OpenResults(TmpOf(cur)) :
          /\ slot' = [slot EXCEPT ![MySlot].vt = vt]
          /\ pos' = [pos EXCEPT ![MySlot] = 0]
          /\ video' = Opened(video, vt)
    /\ pc' = After[pc]
    /\ UNCHANGED <<index, dirs, cur, seg, crecord, accepted, crashes>>

OpenIndex ==
    /\ pc \in {"open_index", "again_index", "seal_index"}
    /\ \E it \in OpenResults(TmpOf(cur)) :
          /\ slot' = [slot EXCEPT ![MySlot].it = it]
          /\ index' = Opened(index, it)
    /\ pc' = After[pc]
    /\ UNCHANGED <<video, dirs, pos, cur, seg, crecord, accepted, crashes>>

\* A write that fails is logged, and that is all.
InitIndex ==
    /\ pc \in {"open_init", "seal_init"}
    /\ \/ index' = Initialised(index, slot[MySlot].it)
       \/ DiskMayFill /\ UNCHANGED index
    /\ pc' = After[pc] /\ seg' = NoFd
    /\ UNCHANGED <<video, dirs, slot, pos, cur, crecord, accepted, crashes>>

-----------------------------------------------------------------------------
(* An I frame against the segment that is open. *)

Records   == index[slot[MySlot].it]
FirstTime == IF Len(Records) >= 2 THEN Records[2].time ELSE 0  \* end of file
LastTime  == Records[Len(Records)].time

\* The three reads of tmp.index: first, last and last but one record.
CanReadLast == slot[MySlot].it # NoFd /\ Len(Records) >= 1
CanReadLastFront == CanReadLast /\ Len(Records) >= 2

\* Fault: the place behind the frame, its length not taken off.
CurrentRecordBehind ==
    IF slot[MySlot].vt = NoFd THEN crecord
    ELSE [time |-> cur.time, at |-> Len(video[slot[MySlot].vt]) + 1]

\* get_current_index_record: the frame's time, and the place of the frame that
\* ends at the end of the file; unchanged when the file is not open.
CurrentRecord ==
    IF slot[MySlot].vt = NoFd THEN crecord
    ELSE [time |-> cur.time, at |-> Len(video[slot[MySlot].vt])]

\* The lookup leaves the file's position at its end.
PosAtEnd ==
    pos' = [pos EXCEPT ![MySlot] = IF slot[MySlot].vt = NoFd THEN @
                                   ELSE Len(video[slot[MySlot].vt])]

\* Faults: a second too many, the wrong record's time.
SegmentFullLate     == ~(FirstTime <= CurrentRecord.time
                         /\ CurrentRecord.time <= FirstTime + SEG_TIME)
SegmentFullByLast   == LastTime + 1 >= FirstTime + SEG_TIME

\* The times are unsigned: a difference below zero is a very large number.
Discontinuous == ~(LastTime <= cur.time /\ cur.time <= LastTime + MAX_GAP)
SegmentFull   ==
    LET ctime == CurrentRecord.time
    IN  ~(FirstTime <= ctime /\ ctime < FirstTime + SEG_TIME)

\* Faults: no end time in the name, the new frame's time for it.
SegmentNameNoEnd   == [ch |-> cur.ch, day |-> Day(cur.time),
                       name |-> <<TimeOfDay(FirstTime)>>]
SegmentNameNextEnd == [ch |-> cur.ch, day |-> Day(cur.time),
                       name |-> <<TimeOfDay(FirstTime), TimeOfDay(cur.time)>>]

\* What convert_utc_to_localtime and sprintf make of the two records.
SegmentName == [ch |-> cur.ch, day |-> Day(cur.time),
                name |-> <<TimeOfDay(FirstTime), TimeOfDay(LastTime)>>]

Examine(step) == /\ pc = "examine" /\ pc' = step
                 /\ UNCHANGED <<files, dirs, slot, cur, accepted, crashes>>

NoLookup == UNCHANGED <<pos, crecord>>

\* The frame's time does not convert, or a record cannot be read: return -1.
ExamineFails ==
    /\ \/ RtcMayBeBad
       \/ HasSlot(cur.ch) /\ ~CanReadLast
       \/ /\ HasSlot(cur.ch) /\ CanReadLast
          /\ LastTime # 0 /\ ~Discontinuous /\ ~CanReadLastFront
    /\ Examine("idle") /\ UNCHANGED seg /\ NoLookup

\* No slot has the channel: the code goes on as for a first I frame, with
\* nothing to write to.
ExamineNoSlot ==
    /\ ~HasSlot(cur.ch)
    /\ Examine("release") /\ UNCHANGED seg /\ NoLookup

ExamineFirst ==
    /\ HasSlot(cur.ch) /\ CanReadLast /\ LastTime = 0
    /\ Examine("write") /\ UNCHANGED seg /\ NoLookup

ExamineDiscontinuous ==
    /\ HasSlot(cur.ch) /\ CanReadLast /\ LastTime # 0 /\ Discontinuous
    /\ NoLookup
    /\ \/ /\ TmpOf(cur) \in DOMAIN video
          /\ Examine("rename_video") /\ seg' = SegmentName
       \/ /\ TmpOf(cur) \notin DOMAIN video
          /\ Examine("release") /\ UNCHANGED seg

ExamineContinuous ==
    /\ HasSlot(cur.ch) /\ CanReadLastFront /\ LastTime # 0 /\ ~Discontinuous
    /\ crecord' = CurrentRecord /\ PosAtEnd
    /\ \/ SegmentFull /\ Examine("rename_video") /\ seg' = SegmentName
       \/ ~SegmentFull /\ Examine("write") /\ UNCHANGED seg

-----------------------------------------------------------------------------
(* Sealing the open segment. *)

\* close() twice, and the first rename(); what the two return is not looked at.
RenameVideo ==
    /\ pc = "rename_video"
    /\ slot' = [slot EXCEPT ![MySlot].vt = NoFd, ![MySlot].it = NoFd]
    /\ pos' = [pos EXCEPT ![MySlot] = 0]
    /\ \/ video' = Renamed(video, TmpOf(cur), seg)
       \/ RenameMayFail /\ UNCHANGED video
    /\ pc' = "rename_index"
    /\ UNCHANGED <<index, dirs, cur, seg, crecord, accepted, crashes>>

\* Fault: the index file keeps its name.
RenameIndexNot ==
    /\ pc = "rename_index"
    /\ pc' = "seal_video"
    /\ UNCHANGED <<files, dirs, slot, pos, cur, seg, crecord, accepted, crashes>>

RenameIndex ==
    /\ pc = "rename_index"
    /\ \/ index' = Renamed(index, TmpOf(cur), seg)
       \/ RenameMayFail /\ UNCHANGED index
    /\ pc' = "seal_video"
    /\ UNCHANGED <<video, dirs, slot, pos, cur, seg, crecord, accepted, crashes>>

-----------------------------------------------------------------------------
(* Storing the frame. *)

VideoOpen == HasSlot(cur.ch) /\ slot[MySlot].vt # NoFd

\* Fault: the record is put twice.
PutIndexRecordTwice ==
    /\ pc = "index"
    /\ index' = Appended(Appended(index, slot[MySlot].it, CurrentRecord),
                         slot[MySlot].it, CurrentRecord)
    /\ PosAtEnd
    /\ crecord' = Zero
    /\ pc' = "release"
    /\ UNCHANGED <<video, dirs, slot, cur, seg, accepted, crashes>>

\* Fault: a frame is written a second time.
WriteFrameTwice ==
    /\ pc = "write"
    /\ \/ /\ VideoOpen
          /\ video' = [video EXCEPT ![slot[MySlot].vt] = @ \o <<cur, cur>>]
          /\ pos' = [pos EXCEPT ![MySlot] = @ + 2]
       \/ (~VideoOpen \/ DiskMayFill) /\ UNCHANGED <<video, pos>>
    /\ pc' = IF cur.type = "I" THEN "index" ELSE "release"
    /\ UNCHANGED <<index, dirs, slot, cur, seg, crecord, accepted, crashes>>

\* write() of the frame; what it returns is not looked at.
WriteFrame ==
    /\ pc = "write"
    /\ \/ /\ VideoOpen
          /\ video' = [video EXCEPT ![slot[MySlot].vt] =
                                       Written(@, pos[MySlot], cur)]
          /\ pos' = [pos EXCEPT ![MySlot] = @ + 1]
       \/ (~VideoOpen \/ DiskMayFill) /\ UNCHANGED <<video, pos>>
    /\ pc' = IF cur.type = "I" THEN "index" ELSE "release"
    /\ UNCHANGED <<index, dirs, slot, cur, seg, crecord, accepted, crashes>>

\* get_current_index_record and put_current_index_record, whose result is not
\* looked at either.
PutIndexRecord ==
    /\ pc = "index"
    /\ \/ index' = Appended(index, slot[MySlot].it, CurrentRecord)
       \/ DiskMayFill /\ UNCHANGED index
    /\ PosAtEnd
    /\ crecord' = Zero              \* a local variable
    /\ pc' = "release"
    /\ UNCHANGED <<video, dirs, slot, cur, seg, accepted, crashes>>

\* read_offset moves behind the frame and storage_one_frame returns 1.
Release ==
    /\ pc = "release"
    /\ accepted' = Append(accepted, cur)
    /\ pc' = "idle"
    /\ UNCHANGED <<files, dirs, slot, pos, cur, seg, crecord, crashes>>

-----------------------------------------------------------------------------
\* The process dies and is started again: the descriptors are gone and
\* channel_tmp is all zero; the disk stays, and the frame in hand is lost.
Restart ==
    /\ crashes < MaxCrashes
    /\ crashes' = crashes + 1
    /\ slot' = [i \in SlotIds |-> FreeSlot] /\ pos' = [i \in SlotIds |-> 0]
    /\ pc' = "idle" /\ seg' = NoFd /\ crecord' = Zero /\ accepted' = << >>
    /\ UNCHANGED <<files, dirs, cur>>

Prepare == MakeChannelDir \/ MakeChannelDay \/ MakeDayDir \/ CheckTmp
Open    == OpenVideo \/ OpenIndex \/ InitIndex
ExamineSegment == \/ ExamineFails \/ ExamineNoSlot \/ ExamineFirst
                  \/ ExamineDiscontinuous \/ ExamineContinuous
Seal  == RenameVideo \/ RenameIndex
Store == WriteFrame \/ PutIndexRecord \/ Release

Next ==
    \/ \E type \in {"I", "P"}, ch \in Channels, time \in 1 .. MaxTime :
          Call(type, ch, time)
    \/ Prepare \/ Open \/ ExamineSegment \/ Seal \/ Store
    \/ Restart

Spec == Init /\ [][Next]_vars

-----------------------------------------------------------------------------
(* What the files promise. *)

Sealed(fs)  == {p \in DOMAIN fs : p.name # Tmp}
IsRecord(r) == r.time # 0

\* The records of one index file follow each other within MAX_GAP seconds ...
Continuous(data) ==
    \A i \in 2 .. Len(data) - 1 :
        data[i].time <= data[i + 1].time /\ data[i + 1].time <= data[i].time + MAX_GAP

\* ... and span less than SEG_TIME seconds.
Bounded(data) ==
    \A i \in 2 .. Len(data) :
        data[2].time <= data[i].time /\ data[i].time < data[2].time + SEG_TIME

WellTimed(data) ==
    (\A i \in 2 .. Len(data) : IsRecord(data[i])) => Continuous(data) /\ Bounded(data)

\* No index file, open or sealed, has a gap or is longer than a segment, however
\* the clock jumps, whichever open() or write() fails and wherever the process
\* crashed.  It needs the renames to succeed: a tmp.index that keeps its name is
\* opened again and goes on.  Left out are files with an empty record behind the
\* first, which is put there when the video file could not be opened.
SegmentsContinuous == \A p \in DOMAIN index : WellTimed(index[p])

\* A channel has one slot, and the slot's descriptors are open on files of that
\* channel that are still there under that name: no file is renamed, and no
\* other channel's frame is written, while a slot has it open.
SlotsOwnTheirFiles ==
    /\ \A i, j \in SlotIds : i # j /\ slot[i].channel = slot[j].channel
                                => slot[i].channel = 0
    /\ \A i \in SlotIds :
          /\ slot[i].channel # 0 => slot[i].channel \in chanDir
          /\ slot[i].vt # NoFd => /\ slot[i].vt \in DOMAIN video
                                  /\ slot[i].vt.ch = slot[i].channel
          /\ slot[i].it # NoFd => /\ slot[i].it \in DOMAIN index
                                  /\ slot[i].it.ch = slot[i].channel

\* A record of an index file points at the I frame it was made for in the video
\* file of the same name, at the frame's start and with the frame's time.
IndexPointsAtFrame ==
    \A p \in DOMAIN index \cap DOMAIN video :
        \A i \in 1 .. Len(index[p]) :
            LET r == index[p][i]
            IN  IsRecord(r) => /\ r.at \in 1 .. Len(video[p])
                               /\ video[p][r.at].type = "I"
                               /\ video[p][r.at].time = r.time

\* A sealed segment's name tells the truth: its day, and the times of its first
\* and last I frame.  (The code makes the day from another stamp than the
\* times: the two agree as long as the encoder sets them by one clock.)
SealedNamesTrue ==
    \A p \in Sealed(index) :
        LET data == index[p]
            first == data[2].time
            last  == data[Len(data)].time
        IN  /\ Len(data) >= 2
            /\ p.name = <<TimeOfDay(first), TimeOfDay(last)>>
            /\ Day(first) = p.day /\ Day(last) = p.day

\* Two segments of a channel never overlap in time; the terminal's search relies
\* on it.
SegmentsDisjoint ==
    \A p, q \in DOMAIN index :
        p # q /\ p.ch = q.ch /\ Len(index[p]) >= 2 /\ Len(index[q]) >= 2 =>
            \/ index[p][Len(index[p])].time < index[q][2].time
            \/ index[q][Len(index[q])].time < index[p][2].time

\* Outside storage_one_frame, video and index files come in pairs, as long as the
\* process has not died between the two renames.
FilesPaired == pc = "idle" /\ crashes = 0 => DOMAIN video = DOMAIN index

\* A video file holds frames of its own channel only, in the order they arrived,
\* and no frame is in two places.
StoredOnceInOrder ==
    /\ \A p \in DOMAIN video :
          /\ \A k \in 1 .. Len(video[p]) : video[p][k].ch = p.ch
          /\ \A k \in 1 .. Len(video[p]) - 1 : video[p][k].n < video[p][k + 1].n
    /\ \A p, q \in DOMAIN video : p # q =>
          {video[p][k] : k \in 1 .. Len(video[p])}
             \cap {video[q][k] : k \in 1 .. Len(video[q])} = {}

\* The frame is in a video file and, when it is an I frame, indexed there.
IsStored(frame) ==
    \E p \in DOMAIN video : \E k \in 1 .. Len(video[p]) :
        /\ video[p][k] = frame
        /\ frame.type = "I" =>
             /\ p \in DOMAIN index
             /\ \E i \in 1 .. Len(index[p]) :
                   index[p][i] = [time |-> frame.time, at |-> k]

\* A frame storage_one_frame returned 1 for ("On success returns 1; on error -1
\* is returned", p4storage.h:151), and whose space the encoder may therefore
\* overwrite, is on the disk and stays there through every later seal, as long as
\* the process lives.  P frames ahead of the channel's first I frame have no
\* picture to refer to and are out.
AcceptedIsStored ==
    pc = "idle" /\ crashes = 0 =>
        \A i \in 1 .. Len(accepted) :
            (accepted[i].type = "I"
               \/ \E j \in 1 .. i - 1 : accepted[j].type = "I"
                                          /\ accepted[j].ch = accepted[i].ch)
              => IsStored(accepted[i])

\* "tmp file already closed, maybe restart this process. Now open tmp file again"
\* (p4storagefun.c:351): when an I frame's tmp.h264 is there, storage_one_frame
\* has the channel's files open before it looks at their records.
TmpIsOpenedAgain ==
    pc = "examine" /\ TmpOf(cur) \in DOMAIN video =>
        HasSlot(cur.ch) /\ slot[MySlot].vt # NoFd /\ slot[MySlot].it # NoFd

\* A sealed file is never written, replaced or renamed again.
SealedIsFinal ==
    [][/\ \A p \in Sealed(video) : p \in DOMAIN video' /\ video'[p] = video[p]
       /\ \A p \in Sealed(index) : p \in DOMAIN index' /\ index'[p] = index[p]]_vars

-----------------------------------------------------------------------------
\* Each effect of storage_one_frame on the video and index files is one step of
\* SegmentLog, or none: whoever reads them may forget this module, crashes between
\* any two effects included.
Log == INSTANCE SegmentLog WITH
           names <- DOMAIN video,
           sealing <- IF pc = "rename_index" THEN {TmpOf(cur)} ELSE {},
           Times <- 1 .. MaxTime,
           Offsets <- 1 .. MaxFrames

KeepsSegmentLog == Log!Spec
=============================================================================
