----------------------------- MODULE SegmentLog -----------------------------
(***************************************************************************)
(* What the recorder promises to whoever reads its directories: a log of   *)
(* index records for every channel, cut into segments.                     *)
(*                                                                         *)
(* A record goes to the end of the day's tmp.index and follows the one     *)
(* before it; a segment is sealed under the times of its first and last    *)
(* record, first the video file and then the index, and is final.  Nothing *)
(* of storage_one_frame's slots, descriptors, positions and steps is left. *)
(*                                                                         *)
(* Recorder is shown to implement this module (Recorder!KeepsSegmentLog),  *)
(* and TerminalSearch runs the terminal beside it.                         *)
(***************************************************************************)
EXTENDS Naturals, Sequences

CONSTANTS Channels, SEG_TIME, MAX_GAP, DAY_LEN,     \* as in Recorder
          Times, Offsets        \* what a record may hold

VARIABLES
    names,      \* the video files' paths
    index,      \* the index files: path |-> records
    sealing     \* the tmp paths whose video file is renamed, and whose index not yet

vars == <<names, index, sealing>>

Tmp  == << >>
Zero == [time |-> 0, at |-> 0]

TmpPath == [ch : Channels, day : {t \div DAY_LEN : t \in Times}, name : {Tmp}]
Record  == [time : Times, at : Offsets]

\* The first record of an index file is empty.
HasRecords(p) == p \in DOMAIN index /\ Len(index[p]) >= 2
First(p)      == index[p][2]
Last(p)       == index[p][Len(index[p])]

SealedAs(p) == [p EXCEPT !.name = <<First(p).time % DAY_LEN, Last(p).time % DAY_LEN>>]

-----------------------------------------------------------------------------
Init == names = {} /\ index = [p \in {} |-> << >>] /\ sealing = {}

\* The tmp files of a channel and day are made, or found empty, one by one.
MakeVideo(p) ==
    /\ ~HasRecords(p)
    /\ names' = names \cup {p}
    /\ UNCHANGED <<index, sealing>>

MakeIndex(p) ==
    /\ p \in names /\ p \notin DOMAIN index
    /\ index' = [q \in DOMAIN index \cup {p} |-> IF q = p THEN << >> ELSE index[q]]
    /\ UNCHANGED <<names, sealing>>

\* The empty record that the others come behind.
InitIndex(p) ==
    /\ p \in DOMAIN index /\ ~HasRecords(p)
    /\ index' = [index EXCEPT ![p] = <<Zero>>]
    /\ UNCHANGED <<names, sealing>>

\* The first record of a segment is later than all the channel has recorded.
Starts(p, r) ==
    \A q \in DOMAIN index : q.ch = p.ch =>
        \A i \in 2 .. Len(index[q]) : index[q][i].time < r.time

\* The others leave no gap, and the segment within its length.
Follows(p, r) ==
    /\ Last(p).time <= r.time /\ r.time <= Last(p).time + MAX_GAP
    /\ r.time < First(p).time + SEG_TIME
    /\ Last(p).at < r.at

Put(p, r) ==
    /\ p \in names \ sealing /\ p \in DOMAIN index /\ index[p] # << >>
    /\ p.day = r.time \div DAY_LEN
    /\ IF HasRecords(p) THEN Follows(p, r) ELSE Starts(p, r)
    /\ index' = [index EXCEPT ![p] = Append(@, r)]
    /\ UNCHANGED <<names, sealing>>

\* No sealed segment has that name.
SealVideo(p) ==
    /\ p \in names /\ HasRecords(p)
    /\ SealedAs(p) \notin names
    /\ names' = (names \ {p}) \cup {SealedAs(p)}
    /\ sealing' = sealing \cup {p}
    /\ UNCHANGED index

SealIndex(p) ==
    /\ p \in sealing
    /\ index' = [q \in (DOMAIN index \ {p}) \cup {SealedAs(p)} |->
                    IF q = SealedAs(p) THEN index[p] ELSE index[q]]
    /\ sealing' = sealing \ {p}
    /\ UNCHANGED names

\* The process ends between the two.
Halt == sealing' = {} /\ UNCHANGED <<names, index>>

Next ==
    \/ \E p \in TmpPath :
          \/ MakeVideo(p) \/ MakeIndex(p) \/ InitIndex(p)
          \/ (\E r \in Record : Put(p, r))
          \/ SealVideo(p) \/ SealIndex(p)
    \/ Halt

Spec == Init /\ [][Next]_vars
=============================================================================
