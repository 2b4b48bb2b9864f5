# Verification of the P4 storage module (sm_3)

The program is the storage module of a vehicle recorder. An encoder process
writes video frames into shared memory; this program reads them, stores them in
segments of five minutes per channel, keeps an index of every segment's I
frames, and lets an operator search and print them at a terminal. This
directory holds TLA+ modules for its core, the TLC configurations that check
them, and proofs checked by TLAPS.

Source lines are those of `p4storagefun.c` unless another file is named.

## 1. Inventory

The process has four threads (`p4storage.c`) and one neighbour per side: the
encoder, through two System V shared-memory segments, and the center server,
through a datagram socket. The threads share the file system below `./video`,
`./index` and `./log`, the statics of lines 15-19, and libc's static buffer of
`localtime`. There is not one lock in the program.

| Component | State it keeps | Operations | Talks to |
|---|---|---|---|
| Shared-memory rings | `read_pos`, `write_pos`, index records; `read_offset`, `write_offset`, frame bytes; static `shm_read_offset` | `get_one_index` 107, `get_one_frame` 147, the loop of `p4_video` 1867 | encoder (shared memory), recorder (call) |
| Recorder | `channel_tmp` (a channel and two descriptors per slot), tmp and sealed files | `storage_one_frame` 247, `init_index_tmp`, `get_*_index_record`, `put_current_index_record` 540-702 | rings (releases space), file system |
| Terminal search | static `flag`, `cnt` and the segment array of the last search | `p4_terminal` 1702, `fill_video_timeseg_array` 927, `search_tmp_video_file` 1115, `print_iframe_info` 1304, `print_tmp_video_info` 1428 | file system, while the recorder writes it |
| Segment sort | none | `sort_video_timeseg_array` 1012 | terminal |
| Search planning | none | `check_search_video_time` 1062, `output_search_video_info` 1225, input checks 763-924 | terminal |
| Time and log | libc's `struct tm` | `convert_utc_to_localtime` 1563, `convert_localtime_to_utc` 1534, `p4_log` 1632 | every thread |
| Center link | `storage_fd` | `p4_storage_init` 2002, `p4_heart` 1917, `p4_log_collect` 1951, `common.c` | center server |
| Startup | none | `main` in `p4storage.c` | starts the threads |

What is hard here, and what correct means:

* **Rings.** Two processes without a lock, two rings whose updates are not
  atomic together, wraps of both, frames cut by the end of the ring. Correct:
  every frame is taken once and in order, its bytes are there when it is
  copied, are not overwritten before, and are copied as they are; space comes
  free in the order frames are stored; nobody waits for ever.
* **Recorder.** A frame changes up to two files, two directories and a slot,
  with a seal (two closes, two renames, two opens) in the middle; any call may
  fail, the process may die between any two, clocks may jump. Correct: what is
  accepted is on disk once, in order, and indexed at its place; segments have no
  gaps, do not exceed their length, do not overlap, have true names and are
  never touched again once sealed.
* **Terminal.** Reads directories and files the recorder seals and makes anew
  under it, twice for one listing, and opens them with `O_CREAT`. Correct: a
  search prints every I frame of the interval, once and in order, nothing else,
  loses nothing of the recorder's, and ends.
* **Planning and sorting.** Pure functions with boundary cases on strings of
  digits. Correct: they agree with a reference definition.
* **Time and log.** Four threads share libc's one `struct tm`. Correct: a time
  is printed by its own digits, and a line is in its module's log of its day.
* **Center link.** The server and this process are killed and started again, the
  socket's queue is full, lines come between other datagrams. Correct:
  heartbeats are those of a registered process and do not end, no line is
  logged twice, out of order or in another log, and every line gets logged.

`PROJECT.json` lists every hazard met in the code with its line and the property
that guards it.

## 2. Modules

### FrameCopy and ShmRing: the two rings

`FrameCopy` has the copy `get_one_frame` makes of one frame, as operators over
the ring's memory; each branch of the code is one operator (`ContiguousCopy`,
`SplitBodyCopy`, `SplitHeaderCopy`, `SplitFlagCopy`, `SplitIFrameCopy`). Source
and destination addresses and lengths are those of the code: `Copy` is `memcpy`
from the segment into the packet, a function of `PACKET_SIZE` cells that is
blank at first (`Blank`, line 1870). Byte *k* of frame *n* is the cell `<<n,
k>>`, so a wrong address on either side shows as a wrong cell. `Stored` is what
`storage_one_frame` writes of the packet (lines 515-521): in one piece for an I
frame, in two for a P frame, without the place of the RTC info between header
and body. A value of length and address that C would compute modulo 2^32 cannot
occur, since every branch subtracts only what its condition has compared.

The two functions do not agree on the place of a P frame's body: `get_one_frame`
counts the start flag in (`PBodyPlace`, 37 bytes), `storage_one_frame` does not
(32). So there are two properties of a frame about to be stored.
`PacketFaithfulUnlessFlagSplit` is about the copy: every byte of the frame
behind its flag is in the packet, at the place `get_one_frame` means it for
(`Place`), and an I frame is stored byte for byte. `IFrameFaithful` and
`PFrameFaithful` are about what reaches the file; both are false, the first for
a split flag only (`ring_flag_split`), the second for every P frame
(`ring_p_frame`).

`ShmRing` adds the heads of both rings, the encoder and the loop of `p4_video`:

| Action | Code |
|---|---|
| `GetOneIndex` | `get_one_index`, when it returns 1; otherwise the loop sleeps and tries again |
| `GetOneFrame` | `get_one_frame`, with the `-1` that drops the frame and the last `return 1` that copies nothing |
| `StoreOneFrame`, `StoreOneFrameFails` | what `storage_one_frame` does to the ring: release or not |
| `EncoderBegin`, `EncoderData`, `EncoderRecord` | the encoder (external) |

The encoder is not in the repository. The model lets it do whatever the reader
can stand: its index record may come before or after the frame's bytes. It is
taken to wait for an index slot and for space (strictly less than the ring's
capacity, since `read_offset == write_offset` means empty), to write one frame
at a time, and to place frames one behind the other; the trace the authors left
in `src/tmp` shows the last two.

Assumptions on the constants, with their reasons: at least three index slots
(the reader keeps one record back and the encoder a slot empty), any two frames
together fit into the ring (the first is released only after the second was
published), a frame is longer than flag and header, and it fits into the packet
with the room for the RTC info added (`FRAME_SIZE`).

### Recorder: storage_one_frame

One call is a sequence of steps, each with one effect on the files at most, and
with what the process does in its own memory before the next:

    Call -> [MakeChannelDir -> MakeChannelDay | MakeDayDir]
              [-> OpenVideo -> OpenIndex -> InitIndex]
         -> CheckTmp [-> OpenVideo -> OpenIndex]
         -> Examine* [-> RenameVideo -> RenameIndex -> OpenVideo -> OpenIndex -> InitIndex]
         -> WriteFrame -> PutIndexRecord -> Release

The first three lines are the checks of lines 288-361 (new channel, new day, tmp
files to open again), `Examine*` the reads of the index and the decision of
lines 363-464, then the seal, the write, the index record, and the release of
the frame in the ring. The two `open_tmp` and `init_index_tmp` stand in three
places of the code (lines 308-310 and 332-334, 354-355, 423-425 and 476-478); the
actions are the same, and `After` says what comes behind each. P frames go from
`Call` to `WriteFrame`. `Restart` kills the process between any two steps: slots
and file positions are lost, the disk stays. So a crash may leave `tmp.h264`
without `tmp.index`, and `tmp.index` without its empty record, for good.

The directories of the index files have no variable. `mkdir` is taken to succeed,
and a crash that leaves one of them out changes nothing more: after a restart no
slot has the channel, and none of its files is opened.

Abstractions: a video file is the sequence of its frames and an offset the
number of a frame, frames being taken as equally long; a write is whole or not
at all; a frame has one time, although the code makes the paths from
`cshmindex->time` (lines 265-268, 386-389) and the records from the frame's RTC
(lines 363, 574): that the encoder sets both by one clock is an assumption about
it, and `SealedNamesTrue` rests on it; a file is named by channel, day and the
two times of a sealed segment, and a descriptor by the name of its file, which
is exact because no file is renamed while a slot has it open (a proved property,
`SlotsOwnTheirFiles`). Kept exactly: times and differences (unsigned, so a time
that went back is a large gap), the zero record at the start of an index file,
the reads at a short file's end, the record left unchanged when the video
descriptor is bad, the file position after `tmp.h264` is opened again, slots
found by first match.

The switches `RtcMayBeBad`, `OpenMayFail`, `DiskMayFill`, `RenameMayFail` and
`ClockMayStepBack` turn the environment's faults on. `DiskMayFill` is about
every `write`, that of the empty record in `init_index_tmp` (line 545) included,
and `RenameMayFail` about each of the two renames by itself; the code looks at
none of their results.

### SegmentLog: what the recorder promises

The abstract recorder, 100 lines with no slot, descriptor, position or step of a
call: the tmp files are made one by one (`MakeVideo`, `MakeIndex`) and the index
gets its empty record (`InitIndex`), records go to its end (`Put`), a segment is
sealed in two steps (`SealVideo`, `SealIndex`), and the process may end between
them (`Halt`). It says when a record may be put (no gap, not beyond the
segment's length, later than all the channel has), that no name is taken twice,
and that what is sealed stays.

`Recorder` implements it: `Log` in that module is the instance in which `names`
are the video files there are and `sealing` is whether the call is between the
two renames; `KeepsSegmentLog == Log!Spec` is a property of the run `recorder`,
so that each of the recorder's effects on the two kinds of files, every open,
first record, record and rename by itself, is a step of SegmentLog, crashes
between any two of them included, and everything else leaves the files alone;
section 4 has it as a theorem. `TerminalSearch` uses it in the recorder's place.

### SegmentSort: sort_video_timeseg_array

The quick sort of lines 1012-1058, with the recursion as a stack of calls
(`calls`, left part first). `Return`, `Begin` and `Place` are the parts before
and after the outer loop, `Partition` is one turn of it, both inner loops and
the exchange. Entries are pairs of start and end time, no two alike since they
come from file names; start times may be alike.

### SearchPlan: which parts of which files are printed

`p4_terminal`, search after search: `Fill` (the segment array, sorted), `List`,
`GetTime` (what `search_time_check` lets through), `Check`
(`check_search_video_time`), one action per turn of the loop of
`output_search_video_info`, `SearchTmp` (the flag), and `Free`.
The recursion of `output_search_video_info` is in tail position, so it is a jump
to the first segment. The segments of a day are taken as Recorder and the sort
leave them: disjoint (`SegmentsDisjoint`) and in order (`SortSorts`). `cnt`
outlives a search, as in the code. Times are seconds: digits of one length
compare under `strcmp` as numbers.

### TerminalSearch: the search beside the recorder

Adds to SearchPlan the files, and the recorder that changes them at any step
(`Recorder`: the actions of SegmentLog for one channel and day):

| Action | Code |
|---|---|
| `Count`, `FillArray` | the two passes over the directory in `fill_video_timeseg_array`; a name that has come in between may be met by the second, which then writes behind the array: a crash, or unnoticed |
| `Output` | the plan's step and, when it prints, `print_iframe_info` of a sealed segment |
| `Access`, `OpenIndex`, `OpenVideo`, `ReadFirst`, `ReadLast` | `search_tmp_video_file`, one step per access to the directory or to the file |
| `PrintTmp`, `PrintTmpSecond` | the loop of `print_tmp_video_info`, record by record, with the records that are put meanwhile |

A descriptor follows its file through a rename (`fd`), and the index file and
the video file that were opened may be those of two segments (`paired`). A frame
that is printed is the record it was read by. Printing a sealed segment is one
step: its files are final, but for an index that still has its old name between
the two renames, in which case `open_tmp` makes an empty one. `Listing` is the
sealed names in the order of the sort, stated by what it is and not by how it is
found. `cnt` is at first any count the search of another day has left.

What is expected of a search is fixed when it begins: `Count`, the first look at
the directory, puts all the records there are into `asked`, and `raced` has
those whose segment is sealed from then on too late to be listed: `SealVideo`
adds them, and `FillArray`, the second pass, takes back those it has met after
all.

### LocalTime and CenterLink: log, threads, center server

`LocalTime` has `p4_log` and `convert_utc_to_localtime` over libc's static
`struct tm`. A call of `p4_log` is four steps: `Log` (up to its `localtime`),
`LogName` (the name of the day's directory, from the struct), `LogMkdir`,
`LogWrite` (which makes the path from the struct anew). `touched` notes that
another thread called `localtime` for another day in between.

`CenterLink` is the process among its neighbours:

| Action | Code |
|---|---|
| `Start`, `Register`, `RegisterFails`, `Exit` | `create_socket`, the one `REGISTER`, and the end without a server |
| `MakeDirs`, `StartThread` | the rest of `p4_storage_init`, and `main` |
| `Heart`, `HeartFails`, `HeartWakes` | the loop of `p4_heart` |
| `CollectLine`, `CollectOther` | the loop of `p4_log_collect`, the line's way through `p4_log` included |
| `ModuleSends`, `ServerStarts`, `ServerStops`, `ServerReads`, `Killed` | the environment |

Sockets are queues of bounded size: `sendto` waits while the server's is full,
fails when there is no server, and a datagram in a queue is neither lost nor
overtaken until its receiver ends. The video and the terminal thread only
convert times here.

### Faults for the checks themselves

Definitions marked "fault" are no part of the model. Each is a mapped
definition with a plausible bug (a dropped guard, an off-by-one, a missing
reset); replacing the definition by it must make TLC find a property violated.
`PROJECT.json` has one such pair for every property of every passing run.

## 3. Runs

| Run | Bounds | Result |
|---|---|---|
| `ring` | 4 index slots, 16 bytes of ring, flag 2, header 2, frames of 5 and 6 bytes of all three types, 7 frames, stores may fail | passes |
| `ring_flag_split` | the same rings, I and P frames, no store fails | `IFrameFaithful` is violated |
| `ring_p_frame` | the same | `PFrameFaithful` is violated |
| `recorder` | 2 channels, 2 slots, segments of 2 s, gap 1 s, days of 3 s, 5 frames, times 1-5, 1 crash | passes |
| `recorder_faults` | 2 channels, 1 slot, days of 3 s, 4 frames, times 1-3, all switches on | passes |
| `recorder_restart` | 1 channel, 1 crash | `TmpIsOpenedAgain` is violated |
| `recorder_disk_full` | 1 channel, writes may fail | `AcceptedIsStored` is violated |
| `segment_sort` | listings of 1 to 5 distinct segments, times 1-3 | passes |
| `terminal` | times 1-4, up to 3 I frames recorded, 2 a second, up to 3 segments of up to 3 s, gap 2 s, hours of 2 s | passes |
| `search_tmp_only` | 1 segment, times 0-1 | `TmpOnlyDayListsNothing` is violated |
| `center` | 2 starts of the process, 2 of the server, queues of 2, 2 datagrams, a converting thread, a change of the day | passes |
| `local_time` | 2 threads, 2 times | `ConvertsItsTime` is violated |

Deadlock is not checked: the bounds on frames stop the system, the sort returns,
the terminal may crash, and nobody may start the process again.

*Ring.* Seven frames of 5 or 6 bytes in 16 go round the frame ring twice. Where
a frame begins depends on the lengths of those before it, and so does where the
ring's end cuts it: the third has 4 to 6 bytes ahead of the end, the fourth up to
one, the sixth 2 to 7. That is a cut inside the body, the header and the flag, on
each boundary between them, and right behind a frame; TLC's coverage shows each
branch of the copy taken. Four slots wrap after four frames. A frame
that is not stored stays in the ring until the next one is, which is the most the
room for two frames allows. `TypeOK` and `RecordsInOrder` are about the index
ring, `TakenFrameIsThere`, `UncopiedFramesIntact`,
`PacketFaithfulUnlessFlagSplit` and `ReleasesStoredFrame` about the frame ring
and the lag between the two.

Fairness: the loop of `p4_video` has no exit and sleeps 10 ms at most, hence
`WF(VideoThread)`; the encoder is a device that produces frames as long as it is
on, hence `WF(Encoder)`. Which frames are stored is left open.
`EveryFrameIsTaken` says "once another has followed", because `get_one_index`
keeps the newest record back (lines 129-137): the last frame before the encoder
pauses is not stored until it resumes. `EncoderGoesOn` excepts one case,
`Unreleased`: the space of a frame that is not stored comes free with the next
one that is, so the encoder stops for good when none of the frames behind is
(line 536).

*Recorder.* `MCRecorder` makes the two channels interchangeable, which they are
for every action and property; slots are not, since the first that matches is
taken. Five frames on two channels are enough for a segment of two records,
a seal by length and one by gap, a day change, and a second channel's frames in
between; times of day repeat on the second day. `AcceptedIsStored` is the
promise of `storage_one_frame`; it follows a frame through the seals.
P frames before a channel's first I frame are left out of it: they have no slot
to go to, and no picture to refer to. A crash comes at any step and can split a
seal after each of its own. What holds then too is what the index says of the
video file, the names, continuity, that sealed segments stay, and
`KeepsSegmentLog`. `FilesPaired` and `AcceptedIsStored` say that they are about
a process that has not been killed: after a crash between the renames the files
are not paired, and after a restart frames are released unstored.

*Faults.* With any `open`, `write` and `rename` failing, a clock that jumps and
one slot for two channels, slots keep to files of their channel that are there.
`SegmentsContinuous` holds with all these faults but one, which is proved in
section 4 (for files in which every record has a time; an empty record is put
there when the video file could not be opened). The one is a `rename` of
`tmp.index` that fails: line 424 or 477 opens the file again, untruncated, and
lines 427-429 or 480-482 put the record behind the gap. With
`SegmentsContinuous` added to `RecorderFaults.cfg` TLC finds that in a few
seconds. With the clock set back, `SealedNamesTrue`, `SegmentsDisjoint` and
`SealedIsFinal` do not hold: a segment that takes the name of an older one
replaces it (line 420). With `OpenMayFail` and the clock set back
`StoredOnceInOrder` does not hold either: files opened again are written from
their start.

*Sort.* Five segments over three start times contain every pattern of equal and
unequal keys up to three values, sorted and reversed listings among them.
Fairness: the sort is sequential code that never waits. `TypeOK` includes that
indices and pending calls stay within the array.

*Terminal.* `PrintsInterval`, `TmpSearchedWhenBeyond` and `NextSegmentExists`
are about the plan, `ShowsEveryFrame` and `ShowsOnlyInterval` about the frames
that come out of it. Three records over four seconds make every set of segments
from none to three, with and without a `tmp.h264`, two frames in one second,
segments of one frame and of two with a second in between that has none, and
gaps between segments; an interval may begin or end ahead of, on, in, between
and behind them, and an hour boundary falls inside. The proofs of section 4 have
the plan for any number. The recorder may put, seal and open at every step of
the search. What the code does not promise is in the properties by name: `raced`
(a segment that is sealed between the first look at the directory and the end of
the search and is not listed: its frames may be missed or come from another
file; all other frames that were on the disk at the first look are shown) and
`RunsOn` (no frame in the last second asked for: `print_tmp_video_info` prints
what comes later, and goes round at the end of the file). Three I frames a
second are not in the bounds: a third in the last second is not printed; the
comments at lines 1405 and 1497 reckon with two. `PrintsInterval` is about
intervals that end after they start. The code lets others through when both
times are in one hour (line 914); for them `NextSegmentExists` and `SearchEnds`
are checked. One of them may keep the search from its end, and `SearchEnds`
names it: an inverted interval that begins at a record of `tmp.index` has its
end behind the descriptor already, and the loop of lines 1476-1495 goes on past
it (`MissesEnd`). All others end. With overlapping segments, which a clock set
back can leave, the recursion may not end (line 1259); SegmentLog does not make
any. Fairness: `WF(SearchFiles)`, the terminal's code between its two prompts;
the prompts wait for an operator, and nothing is assumed of the recorder. `Halt`
is left out here, since the terminal is a thread of the process that ends.

*Center.* Two starts of each side make every order of their ends and beginnings
around a registration and the next; the heartbeats fill a queue of two. Two
datagrams in a queue of two, a log line and something else in any order, fill it
too, and the day changes at any step. One converting thread stands for both, who
do the same; the local times themselves matter only by their day. What is
expected is in the properties: `HeartsAreRegistered` excludes a server that was
started after the registration, as the process never registers again (line
2025), and `HeartsGoOn` and `LinesGetLogged` are about a process that has come
through its start: with the server's queue full it waits in `sendto` ahead of
all threads. `LinesGetLogged` follows a line from the queue into the file, and
anything else out of the queue, unless the process ends. It and
`LineLandsInItsDay` except calls of `p4_log` that another thread's `localtime`
for another day came between; `LineLandsInItsDay` also those made without
`./log`: a complaint ahead of line 2043 of a first start is lost. Fairness: `WF`
of each thread (`Main`, `HeartLoop`, `Collector`), which are loops of the
process's own that the kernel schedules, and of `ServerReads`, since a server
that reads nothing stops every sender of a datagram socket. No fairness for
starting, stopping or sending. The converting threads need none.

### What disagrees with the documentation

1. `ring_flag_split`: if the ring's end falls inside the five bytes of a start
   flag, lines 216 and 231 compute the source as
   `from_start_len + (FRAME_START_FLAG - to_end_len)` behind the start of the
   ring, where `FRAME_START_FLAG - to_end_len` is the first byte behind the flag.
   The packet holds old bytes of the ring, and so does the file.
2. `ring_p_frame`: lines 172-176 (and 202-203, 212, 218) copy the body of a P
   frame to byte 37 of the packet, `FRAME_START_FLAG + 20 + 12`, lines 515-521
   write it from byte 32. Every P frame is stored with five bytes of the blank
   packet ahead of its body and without the last five bytes of it; the comments
   at lines 146 and 246 and at `p4storage.h:104` have the frame read and stored.
3. `recorder_restart`: the comment at line 351 expects the tmp files to be
   opened again after a restart. The loop around it looks for a slot that has
   the channel, and after a restart none has, nor does the channel get one,
   because its directory exists.
4. `recorder_disk_full`: `p4storage.h:150` promises -1 on error. The results of
   the writes are ignored, and the frame is released.
5. `search_tmp_only`: the comment at line 1067 means a day with nothing but
   `tmp.h264` to be searched there. After an earlier search with results, line
   1749 lists such a day with the earlier count through a null pointer.
6. `local_time`: the comment at line 1562 has the given time converted. Between
   the call of `localtime` and the `sprintf` of line 1579 another thread may call
   it, and its time's digits are printed, into a segment's name among others.

## 4. Proofs

TLC shows a property for the bounds above; the theorems show it for every value
of the constants that the modules' `ASSUME`s allow.

`ShmRingProofs`, for every size of the rings, the flag and the header, every set
of frame types and lengths the assumptions of section 2 allow, and any number of
frames:

* `RingStaysTyped`: `Spec => []TypeOK`.
* `RecordsAlwaysInOrder`: `Spec => []RecordsInOrder`.
* `TakenFrameAlwaysThere`: `Spec => []TakenFrameIsThere`.
* `UncopiedFramesAlwaysIntact`: `Spec => []UncopiedFramesIntact`.
* `PacketAlwaysFaithful`: `Spec => []PacketFaithfulUnlessFlagSplit`.
* `StoredFrameAlwaysReleased`: `Spec => ReleasesStoredFrame`.

The index ring is a chapter of its own: `IndexInv` adds to the first two that
the slot of a pending record is free (`PendingSlotFree`), and needs nothing of
the frame ring. `RingInv` puts the frame ring on top of it. What is true of one
frame depends on all that lie between it and `read_offset`, so the invariant
speaks of every frame in the ring at once (`Live`: unread, in hand, and the
encoder's own), by its distance from `read_offset` round the ring (`Start`,
`Stop`): frames in the order of their numbers do not overlap (`FramesApart`),
those whose bytes are there end before `write_offset` and have all of them
(`FramesWhole`), and the encoder's goes where there is room (`FramePending`).
The offset noted for the frame in hand is its end (`FrameInHand`), which makes a
release move `read_offset` to where the next frame starts or before it. That the
packet has the frame is then shown for each branch of the copy: `Has` is a run
of a frame's bytes in the packet, `Lies` one in the ring, and the lemmas on them
put the pieces together. What is proved is `PacketFaithfulUnlessFlagSplit`, and
no more: a P frame's bytes are all in the packet, at a place `storage_one_frame`
does not write them from.

`RecorderProofs`, with every fault switch on or off:

* `RecorderInvariant`: `Spec => []RecorderInv`, one lemma per action.
* `RecorderStaysTyped`: `Spec => []TypeOK`.
* `SlotsAlwaysOwnTheirFiles`: `Spec => []SlotsOwnTheirFiles`.
* `SegmentsAlwaysContinuous`: `Spec => []SegmentsContinuous`, given that renames
  succeed (`~RenameMayFail`), without which it is false.

`SegmentsContinuous` is not inductive as it stands: that a record may be
appended was decided two or more steps earlier, by `Examine*`. `RecorderInv` adds

* `RecordFits`: when the frame is about to be written, its time fits the end of
  the file its slot has open. It holds after the comparison of lines 409 and
  464, and after a seal because the file is then new (`NewAfterSeal`): it was not
  there when it was opened, so that it is empty until its first record;
* `SlotsOwnTheirFiles`: the file decided about is the one written to, and no
  other slot's;
* `CallInv`: what each step of a call knows from the ones before.

`RecordFits` and `NewAfterSeal` hold where renames succeed only; the other parts
of the invariant do not depend on it.

The lemmas in front of it are about the operators: the file operations keep files
typed and other files as they are (`OpenedType`, `InitialisedType`,
`AppendedType`, `WrittenType`, `RenamedType`), a record that fits keeps a file
well timed (`AppendWellTimed`), and the first matching slot exists and is the
only one (`FirstSlotMatches`, `OnlySlot`).

`RecorderDiskProofs` and `RecorderLogProofs`, under the hypothesis `NoFaults`
(`OpenMayFail`, `DiskMayFill`, `RenameMayFail` and `ClockMayStepBack` are off):

* `DiskInvariant`: `Spec => [](RecorderInv /\ DiskInv)`.
* `SegmentsAlwaysDisjoint`, `SealedNamesAlwaysTrue`, `AlwaysStoredOnceInOrder`,
  `IndexAlwaysPointsAtFrame`, `FilesAlwaysPaired`, `SealedAlwaysFinal`: the
  property of that name, as `Spec => []P` or, for the last, `Spec => P`.
* `AcceptedAlwaysStored`: `Spec => []AcceptedIsStored`, given a slot for every
  channel (`EnoughSlots`).
* `RecorderKeepsSegmentLog`: `Spec => KeepsSegmentLog`, the refinement.

The hypothesis is that of the run `recorder`; section 3 says what the faults
break. Crashes between any two steps stay in, as many as `MaxCrashes`, and so do
frames with an invalid time. With fewer slots than channels the frames of the
one without are released unstored, hence `EnoughSlots`. `DiskInv` is what the
disk looks like at every step of a call:

* `DirsKnown`, `RecordsTimed`: no directory or record is of a time to come, and a
  file's records are of its day and in order;
* `SlotsCurrent`, `FilesMatch`: a slot has both tmp files of its channel's last
  day open, at their ends, but for the time its files are made (`Opening`), when
  `OpenInHand` says which of the two is there and that it is new (`HalfMade`).
  Between the renames of a seal the two files have different names; `IndexNames`
  and `IndexOf` are the index files by the names they are about to have, and
  most of the invariant is said of those;
* `OpenIsLast`, `SealInHand`, `SealedAsNamed`: a tmp file has its channel's last
  records, the segment being sealed has the name its records give it, and that
  name is free. From these follow disjointness and that no rename takes a name;
* `FramesNumbered`, `FramesOnce`, `FramesOrdered`, `JustWritten`,
  `RecordsPoint`: a frame goes to the end of one file, and its record to the end
  of the index with the place it went to.

The actions come down to a few effects on the files: nothing (`Quiet`, `Stays`),
one new tmp file or its empty record (`MakesFiles`), a rename (`Moves`), one
more frame or record (`Appends`), and a crash. Each theorem is proved per
effect. For `AcceptedIsStored`, a frame's place is followed through the effects
(`StoredNow`), from the write over the release to all later seals. For the
refinement the effects are the actions of SegmentLog, and the rest is a stutter
of it.

`SegmentSortProofs`, for every array and every order of it:

* `SortInvariant`: `Spec => []SortInv`.
* `SortSorts`: `Spec => []SortedAtEnd`.
* `SortLosesNothing`: `Spec => []NothingLostOrDoubled`.
* `SortStaysTyped`: `Spec => []TypeOK`.

`SortInv` says that two elements are in order or covered by one pending call
(`Settled`), that pending calls are apart (`CallsApart`), and what `i` and `j`
have passed (`Partitioned`). The sort is done when there is no call left to
cover a pair. `RearrangeSettles` is the heart of it: moving elements about
within one call's range unsettles nothing outside of it.

`SearchPlanProofs`, for every number of segments, length of the day and of an
hour, search after search:

* `PlanStaysTyped`: `Spec => []TypeOK`.
* `NextSegmentAlwaysExists`: `Spec => []NextSegmentExists`, for every interval
  the terminal accepts.
* `TmpIsSearchedWhenBeyond`: `Spec => []TmpSearchedWhenBeyond`.
* `IntervalIsPrinted`: `Spec => []PrintsInterval`.

`PlanInv` bounds `i` and `end` and ties the flag to the interval (`FlagSet`): the
interval that is left ends at or before the end of the last segment, so a
segment that ends before it has a next one. `OutInv` adds what was printed
up to here: ranges of segments that lie in the interval (`Sound`), in order, the
interval that is left beginning behind them (`Printing`), and nothing of the
interval between them left out (`Covered`).

`CenterLinkProofs`, for any number of starts, servers and datagrams and queues
of any size:

* `LinkStaysTyped`: `LinkSpec => []TypeOK`.
* `HeartsAlwaysRegistered`: `LinkSpec => []HeartsAreRegistered`.
* `LinesAlwaysInOrder`: `LinkSpec => []CollectedInOrder`.
* `LinesAlwaysLandInTheirDay`: `LinkSpec => LineLandsInItsDay`, for any length
  of the day and any clock.

`LinkInv` strengthens the second by `Registration` (a process past its
registration has one, and nobody has that of a server to come) and `Known` (the
server of a registration has it or finds it in its queue). `LinesInv`
strengthens the third by `Collection`: the numbers in the queue increase, lie
above the line the collector is about, which lies above all that are written,
and no other thread logs a numbered line. `DaysInv` is for the last: a call that
no other thread has come between sees the struct of its own day and, where
./log is there, has the day's directory behind it when it writes (`OwnDay`).
This is only inductive with what is logged ahead of the making of ./log, which
is nothing but the failure to register (`LogDirFirst`): a call begun without
./log would otherwise write in it without a directory of its day.

`TerminalSearchProofs`, for every number of segments and records, every length of
the day, segments, gaps and hours, and every order of the two threads' steps:

* `TerminalStaysTyped`: `TerminalSpec => []TerminalTypeOK`.
* `RecordsAlwaysStay`: `TerminalSpec => RecordsStay`.
* `OnlyIntervalAlwaysShown`: `TerminalSpec => []ShowsOnlyInterval`.
* `EveryFrameAlwaysShown`: `TerminalSpec => []ShowsEveryFrame`, given
  `I_PER_SECOND <= 2`.

The hypothesis of the last is the code's own: behind the last second of a range
one more frame of that second is looked for, and the comments at lines 1405 and
1497 reckon with two. With `I_PER_SECOND = 3` TLC finds the third frame missing.

The argument has four layers, each an invariant that is inductive given those
before it:

1. `FilesInv`, about the directory both threads work on: records in order in
   each file (`FilesInOrder`), files apart in time with `tmp.index` the last
   (`FilesApart`), sealed names that tell the times of their records
   (`NamesTrue`), also between the two renames (`SealInHand`, `FileOf`). All
   steps of the terminal come down to one effect, an empty file more
   (`AddsEmpty`, `KeepsRecords`): that is `RecordsStay`.
2. `TermInv`, which adds the plan: `PlanInv` and `OutInv` of `SearchPlanProofs`
   hold here too, since what `Fill` gets is a day of disjoint segments in order.
   That it exists is shown by ranks: the place of a segment in the listing is
   the number of those that start no later (`OrderExists`).
3. `ShownInv`, what is shown: all that is shown comes ahead of all that is still
   to be read, by the plan's ranges and `FilesApart` for sealed segments
   (`SealedInv`, `PlannedInv`) and by the descriptor for `tmp.h264` (`FdInv`,
   `AheadInv`). `RangeInv` says where the end of the range lies from the
   descriptor; from it follows that frames beyond the interval are printed only
   where `RunsOn` says.
4. `EveryInv`, what is missing. What is due (`Due`) is every record asked for
   that no seal has made unreachable. It stays in a listed file, or in the
   `tmp.index` that is searched with its own `tmp.h264` (`AskedInv`), which
   takes that a seal in the course of the search puts all of `tmp.index` into
   `raced` (`FdInv`), and that the second pass over the directory, if it meets
   the new name, lists it. If it is listed, the range of the plan that covers it
   has been printed whole (`SegShown`, by `PrintedRange`); otherwise it is shown
   or still ahead of the descriptor (`StillAhead`). `UniqueInv` adds that no
   frame is shown twice, nor one still to be read. Two I frames a second enter
   where the last second is cut.

What the reading of records gives (`FirstAtOrAfter`, `RangeEnds`,
`PrintedRange`) is stated for any list of records in order.
`TerminalAssumption`, that the bound on records is not above that on segments,
is about the bounds only.

Only model-checked: the properties expected to be violated, and liveness
(`EveryFrameIsTaken`, `EncoderGoesOn`, `SortEnds`, `SearchEnds`,
`HeartsGoOn`, `LinesGetLogged`), which is out of the prover's reach.

## 5. Plan

Done, in this order: FrameCopy, ShmRing, Recorder, SegmentSort, SearchPlan;
SegmentLog with Recorder shown to implement it; TerminalSearch beside
SegmentLog; LocalTime; CenterLink; theorems about the components; then the frame
ring, the recorder's files, the refinement of SegmentLog and the terminal's
search proved as well.

What is left: **VideoPipeline**, ShmRing and Recorder together, to relate the
encoder's frames to what is on disk. Today the two meet at one point, the release
of a frame: ShmRing takes any outcome of `storage_one_frame`, and Recorder any
frame. Both sides' theorems are there to be cited.

## 6. Not modelled

The attach calls (done once, exit on failure), the abandoned functions on an
index file (nothing calls them), printing of a frame's contents and banners, the
prompts' dialogue (of which only what they accept is), and the scratch programs
under `src/test*`. A failed `pthread_create` ends the process and is covered by
`Killed`, but for its complaint. Partial writes, unequal frame lengths after a
file was opened again, and the number of open descriptors are abstracted from in
Recorder and TerminalSearch: the descriptors the program leaks (line 332, and in
the search) come up only as opens that fail. Days of more than one channel and
date are one search each in TerminalSearch, which has no state but `flag` and
`cnt` in common with the next; both are kept.
