--------------------------- MODULE TerminalSearch ---------------------------
(***************************************************************************)
(* The terminal thread searches a channel and day (p4_terminal) while the  *)
(* video thread of the same process goes on recording it.                  *)
(*                                                                         *)
(* SearchPlan plans the search.  This module adds the directory the plan   *)
(* is made from, which the recorder changes as SegmentLog says it may, and *)
(* the printing of the frames: print_iframe_info for a sealed segment, and *)
(* search_tmp_video_file with print_tmp_video_info for the one being       *)
(* recorded.  Neither thread takes a lock.                                 *)
(*                                                                         *)
(* A frame that is printed is the index record it was read by.  The time   *)
(* of the empty record prints as midnight.                                 *)
(***************************************************************************)
EXTENDS SearchPlan

CONSTANTS MAX_GAP, SEG_TIME,        \* as in Recorder
          I_PER_SECOND,             \* I frames of one second
          MaxRecords                \* bound: I frames recorded

\* The bounds on segments and records go together: a segment has a record.
ASSUME TerminalAssumption ==
    /\ {MAX_GAP, SEG_TIME, I_PER_SECOND, MaxRecords} \subseteq Nat
    /\ MaxRecords <= MaxSegs

VARIABLES
    names, index, sealing,  \* the day's files, as in SegmentLog
    listing,    \* the names the first pass counted, until the second
    step,       \* of search_tmp_video_file; "done" outside of it
    fd,         \* index_fd: the path of its file, which follows a rename
    paired,     \* is the file behind video_fd that of index_fd?
    next,       \* the record to be read next through index_fd
    asked,      \* history: the records there were when the search began
    raced,      \* history: those of tmp.index at a seal that came in between
    shown       \* history: the frames printed

logVars  == <<names, index, sealing>>
tmpVars  == <<step, fd, paired, next>>
histVars == <<asked, raced, shown>>
termVars == <<vars, listing, tmpVars, histVars>>
allVars  == <<termVars, logVars>>

Log == INSTANCE SegmentLog WITH
           Channels <- {1}, DAY_LEN <- MaxTime + 1,
           Times <- 1 .. MaxTime, Offsets <- 1 .. MaxRecords

TmpPath == [ch |-> 1, day |-> 0, name |-> Log!Tmp]
PathSwapped(s) == [TmpPath EXCEPT !.name = <<s.end, s.start>>]    \* fault
Path(s) == [TmpPath EXCEPT !.name = <<s.start, s.end>>]

\* The sealed names there are, in the order of the sort.
SealedSegments == {[start |-> p.name[1], end |-> p.name[2]] : p \in names \ {TmpPath}}
Listing ==
    CHOOSE d \in [1 .. Cardinality(SealedSegments) -> SealedSegments] :
        \A k, m \in DOMAIN d : k < m => d[k].start < d[m].start

RecordsIn(recs) == {recs[k] : k \in 2 .. Len(recs)}     \* all but the empty record
TmpRecords  == IF TmpPath \in DOMAIN index THEN RecordsIn(index[TmpPath]) ELSE {}
AllRecords  == UNION {RecordsIn(index[p]) : p \in DOMAIN index}

\* Those of listed segments.
ListedRecords(segs) ==
    UNION {RecordsIn(index[p]) : p \in DOMAIN index \cap {Path(segs[k]) : k \in 1 .. Len(segs)}}

TerminalTypeOK ==
    /\ names \subseteq {TmpPath} \cup {Path(s) : s \in Segment}
    /\ DOMAIN index \subseteq {TmpPath} \cup {Path(s) : s \in Segment}
    /\ sealing \subseteq {TmpPath}
    /\ listing \in Days
    /\ step \in {"done", "open_index", "open_video", "first", "last", "print", "second"}
    /\ fd \in {TmpPath} \cup {Path(s) : s \in Segment}
    /\ paired \in BOOLEAN
    /\ next \in 2 .. MaxRecords + 2
    /\ asked \cup raced \subseteq Log!Record /\ shown \in Seq(Log!Record \cup {Log!Zero})

TerminalInit ==
    /\ Log!Init
    /\ timeseg = << >> /\ cnt \in 0 .. MaxSegs    \* left by the search of another day
    /\ from = 0 /\ to = 0 /\ start = 0 /\ end = 0
    /\ flag = 0 /\ i = 1 /\ out = << >> /\ pc = "date"
    /\ listing = << >>
    /\ step = "done" /\ fd = TmpPath /\ paired = TRUE /\ next = 2
    /\ asked = {} /\ raced = {} /\ shown = << >>

-----------------------------------------------------------------------------
(* The recorder's steps. *)

\* The comments at p4storagefun.c:1405 and 1497 reckon with two I frames a second.
Put(t) ==
    LET recs == index[TmpPath]
    IN  /\ TmpPath \in DOMAIN index
        /\ Cardinality(AllRecords) < MaxRecords
        /\ Cardinality({r \in AllRecords : r.time = t}) < I_PER_SECOND
        /\ Log!Put(TmpPath, [time |-> t, at |-> Len(recs)])

Searching == pc # "date" \/ listing # << >>

\* A descriptor follows its file; next and paired stay true of it.
Recorder ==
    /\ \/ /\ \/ Log!MakeVideo(TmpPath) \/ Log!MakeIndex(TmpPath) \/ Log!InitIndex(TmpPath)
             \/ \E t \in 1 .. MaxTime : Put(t)
          /\ UNCHANGED <<fd, raced>>
       \/ /\ Log!SealVideo(TmpPath)
          /\ raced' = IF Searching THEN raced \cup TmpRecords ELSE raced
          /\ UNCHANGED fd
       \/ /\ Log!SealIndex(TmpPath)
          /\ fd' = IF fd = TmpPath /\ step # "done" THEN Log!SealedAs(TmpPath) ELSE fd
          /\ UNCHANGED raced
    /\ UNCHANGED <<vars, listing, step, paired, next, asked, shown>>

-----------------------------------------------------------------------------
(* The directory is read twice. *)

\* The first pass counts the sealed names; when there is none there is no array.
Count ==
    /\ pc = "date" /\ listing = << >>
    /\ \/ Listing = << >> /\ Fill(<< >>) /\ UNCHANGED listing
       \/ Listing # << >> /\ listing' = Listing /\ UNCHANGED vars
    /\ asked' = AllRecords
    /\ raced' = IF sealing = {} THEN {} ELSE TmpRecords
    /\ UNCHANGED <<logVars, tmpVars, shown>>

\* The second fills the array.  A name that has come since may be met or not; when
\* it is, it is written behind the end of the array, which may go unnoticed.
FillArray ==
    /\ listing # << >>
    /\ \E d \in {listing, Listing} :
          \/ Fill(d)
          \/ /\ Len(d) > Len(listing)
             /\ pc' = "crashed" /\ UNCHANGED <<timeseg, cnt, plan>>
    /\ listing' = << >>
    /\ raced' = raced \ ListedRecords(timeseg')
    /\ UNCHANGED <<logVars, tmpVars, asked, shown>>

-----------------------------------------------------------------------------
(* Printing. *)

\* Fault: open_tmp with O_TRUNC.
OpenedTruncated(p) == [q \in DOMAIN index \cup {p} |-> IF q = p THEN << >> ELSE index[q]]

\* open_tmp makes the file if it is not there.
Opened(p) == IF p \in DOMAIN index THEN index
             ELSE [q \in DOMAIN index \cup {p} |-> IF q = p THEN << >> ELSE index[q]]

\* The first record of the range, and the first record at its end.
AtOrAfter(recs, t, k) == {n \in k .. Len(recs) : recs[n].time >= t}
Exactly(recs, t, k)   == {n \in k .. Len(recs) : recs[n].time = t}
Least(ns)             == CHOOSE n \in ns : \A m \in ns : n <= m

StartsIn(recs, t, u) ==
    LET ns == AtOrAfter(recs, t, 2)
    IN  ns # {} /\ (recs[Least(ns)].time = t \/ recs[Least(ns)].time <= u)

\* The first frame is printed, those behind it up to the first at the end of the
\* range or, when there is none, the last ahead of it, and one more of that second.
LastOfRange(recs, j, u) ==
    LET ns == Exactly(recs, u, j)
        n  == Least(ns)
    IN  IF ns = {} THEN Len(recs) - Cardinality(AtOrAfter(recs, u, j + 1))
        ELSE IF n + 1 \in ns THEN n + 1 ELSE n

\* Fault: the second frame of the last second is left out.
PrintedNotSecond(recs, t, u) ==
    IF StartsIn(recs, t, u)
    THEN LET j == Least(AtOrAfter(recs, t, 2))
             ns == Exactly(recs, u, j)
         IN  SubSeq(recs, j, IF ns = {} THEN LastOfRange(recs, j, u) ELSE Least(ns))
    ELSE << >>

\* print_iframe_info, of a segment's index.
PrintedOf(recs, t, u) ==
    IF StartsIn(recs, t, u)
    THEN LET j == Least(AtOrAfter(recs, t, 2)) IN SubSeq(recs, j, LastOfRange(recs, j, u))
    ELSE << >>

\* output_search_video_info calls it for a segment: the files are final, but for an
\* index file that still has its old name.
PrintSegment ==
    LET range == out'[Len(out')]
        p     == Path(timeseg[range.seg])
    IN  /\ index' = Opened(p)
        /\ shown' = shown \o PrintedOf(index'[p], range.from, range.to)
        /\ UNCHANGED <<names, sealing>>

Output ==
    /\ Plan
    /\ \/ out' # out /\ PrintSegment
       \/ out' = out /\ UNCHANGED <<logVars, shown>>
    /\ UNCHANGED <<listing, tmpVars, asked, raced>>

-----------------------------------------------------------------------------
(* search_tmp_video_file. *)

\* The flag, and whether the two files are there.
Access ==
    /\ SearchTmp
    /\ step' = IF flag = 1 /\ TmpPath \in names \cap DOMAIN index
               THEN "open_index" ELSE "done"
    /\ UNCHANGED <<logVars, listing, fd, paired, next, histVars>>

Tmp(here, there) ==
    /\ pc = "free" /\ step = here /\ step' = there
    /\ UNCHANGED <<timeseg, cnt, from, to, flag, i, out, pc, listing, sealing,
                   asked, raced>>

\* Either may have been sealed since, and is made anew.
OpenIndex ==
    /\ Tmp("open_index", "open_video")
    /\ index' = Opened(TmpPath) /\ fd' = TmpPath
    /\ UNCHANGED <<names, paired, next, start, end, shown>>

OpenVideo ==
    /\ Tmp("open_video", "first")
    /\ names' = names \cup {TmpPath}
    /\ paired' = (fd = TmpPath /\ sealing = {})
    /\ UNCHANGED <<index, fd, next, start, end, shown>>

\* get_first_index_record: at the end of the file the record stays empty.
ReadFirst ==
    /\ Tmp("first", "last")
    /\ start' = IF Len(index[fd]) >= 2 THEN index[fd][2].time ELSE 0
    /\ UNCHANGED <<names, index, fd, paired, next, end, shown>>

LastTime == index[fd][Len(index[fd])].time

\* Fault: the search starts at the first frame.
RangeFromFirst == [from |-> start, to |-> IF to <= LastTime THEN to ELSE LastTime]

\* The interval, cut to the records there are now.
TmpRange == [from |-> IF from >= start THEN from ELSE start,
          to   |-> IF to <= LastTime THEN to ELSE LastTime]

\* get_last_index_record fails on an empty file.
InRange == /\ index[fd] # << >> /\ from <= LastTime /\ to >= start
           /\ StartsIn(index[fd], TmpRange.from, TmpRange.to)

ReadLast ==
    /\ Tmp("last", IF InRange THEN "print" ELSE "done")
    /\ IF InRange
       THEN /\ start' = TmpRange.from /\ end' = TmpRange.to
            /\ next' = Least(AtOrAfter(index[fd], TmpRange.from, 2))
       ELSE UNCHANGED <<start, end, next>>
    /\ UNCHANGED <<names, index, fd, paired, shown>>

\* What comes out of the video file for a record: that of another file has another
\* frame, or none, in its place.
FrameOf(r) == IF paired THEN r ELSE Log!Zero

\* print_tmp_video_info prints up to a frame of the last second, whatever comes
\* before it: there is no look at times beyond it, nor at the end of the file,
\* where the loop prints empty frames until another record is put.
PrintTmp ==
    /\ step = "print" /\ next <= Len(index[fd])
    /\ Tmp("print", IF index[fd][next].time = end THEN "second" ELSE "print")
    /\ shown' = Append(shown, FrameOf(index[fd][next]))
    /\ next' = next + 1
    /\ UNCHANGED <<names, index, fd, paired, start, end>>

\* One more, if it is of the same second.
PrintTmpSecond ==
    /\ Tmp("second", "done")
    /\ shown' = IF next <= Len(index[fd]) /\ index[fd][next].time = end
                THEN Append(shown, FrameOf(index[fd][next])) ELSE shown
    /\ UNCHANGED <<names, index, fd, paired, next, start, end>>

-----------------------------------------------------------------------------
Back ==
    /\ Free /\ step = "done"
    /\ fd' = TmpPath /\ paired' = TRUE /\ next' = 2
    /\ asked' = {} /\ raced' = {} /\ shown' = << >>
    /\ UNCHANGED <<logVars, listing, step>>

Prompt == /\ List \/ GetTime
          /\ UNCHANGED <<logVars, listing, tmpVars, histVars>>

SearchFiles == \/ Output \/ Access \/ OpenIndex \/ OpenVideo \/ ReadFirst
               \/ ReadLast \/ PrintTmp \/ PrintTmpSecond \/ Back

TerminalNext == Recorder \/ Count \/ FillArray \/ Prompt \/ SearchFiles

\* The terminal goes on when it is not at one of its prompts.
TerminalSpec == TerminalInit /\ [][TerminalNext]_allVars /\ WF_allVars(SearchFiles)

-----------------------------------------------------------------------------
(* What the operator is promised. *)

Searched == pc = "free" /\ step = "done" /\ from <= to

Places(r) == {k \in 1 .. Len(shown) : shown[k] = r}

\* Every I frame of the interval that was on the disk when the search began is
\* printed, once, from the sealed segments and from tmp.h264 together, however the
\* recorder goes on meanwhile.  Only when the segment that is being recorded is
\* sealed in the course of the search, too late to be listed, may its frames be
\* missing.
ShowsEveryFrame ==
    Searched => \A r \in asked : r.time \in from .. to =>
                   \/ Cardinality(Places(r)) = 1
                   \/ r \in raced /\ Places(r) = {}

\* Does the search of tmp.h264 miss the end of the interval?  There are frames after
\* its last second, and none of it.
RunsOn == /\ step = "print" /\ end = to /\ to < LastTime
          /\ Exactly(index[fd], to, 2) = {}

\* Nothing else is printed: frames of the interval, in the order of time, up to the
\* point where the search of tmp.h264 runs on; and what tmp.index says is read from
\* the tmp.h264 it belongs to, unless that was sealed while they were opened.
ShowsOnlyInterval ==
    from <= to =>
        \A k \in 1 .. Len(shown) :
            \/ /\ shown[k] \in AllRecords
               /\ shown[k].time \in from .. to \/ (RunsOn /\ shown[k].time > to)
               /\ k > 1 => shown[k - 1].time <= shown[k].time
            \/ raced # {} /\ ~paired

\* The terminal opens the recorder's files with O_CREAT, and by names that are being
\* changed: no record is ever lost by it, in no order of the two threads' steps.
RecordsStay == [][AllRecords \subseteq AllRecords']_index

\* An inverted interval may start at a record and end at one before it, which the
\* search is past already.
MissesEnd == /\ step = "print" /\ end < LastTime
             /\ Exactly(index[fd], end, next) = {}

\* An interval once typed, the search comes to its end, unless it runs on: one whose
\* second is behind that of its first frame, or that is typed the wrong way round.
SearchEnds ==
    pc = "check" ~> \/ pc = "free" /\ step = "done"
                    \/ RunsOn
                    \/ from > to /\ MissesEnd
=============================================================================
