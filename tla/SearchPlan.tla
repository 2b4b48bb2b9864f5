----------------------------- MODULE SearchPlan -----------------------------
(***************************************************************************)
(* The terminal's loop (p4_terminal, p4storagefun.c:1702-1788) as far as   *)
(* it plans a search: which parts of which sealed segments are printed for *)
(* the interval the operator typed, and whether tmp.h264 is searched too.  *)
(*                                                                         *)
(* The segments of a day are those the recorder seals while the encoder's  *)
(* clock does not go back, disjoint in time (SegmentsDisjoint of Recorder) *)
(* and in the order the sort puts them in (SortSorts of SegmentSort).  A   *)
(* time is its number of seconds: its six digits compare under strcmp, and *)
(* under atoi, alike.  TerminalSearch adds the files, and the recorder.    *)
(***************************************************************************)
EXTENDS Integers, Sequences, FiniteSets

CONSTANTS MaxTime, MaxSegs,     \* bounds
          HOUR                  \* seconds of an hour

ASSUME PlanAssumption == MaxTime \in Nat /\ MaxSegs \in Nat /\ HOUR \in Nat \ {0}

VARIABLES
    timeseg, cnt,   \* p, 1-based, << >> for NULL; its length
    from, to,       \* the interval typed
    start, end,     \* update_timeseg, of check_search_video_time
    flag,           \* static: is tmp.h264 to be searched?
    i,              \* of output_search_video_info
    out,            \* history: what print_iframe_info was called with
    pc

vars == <<timeseg, cnt, from, to, start, end, flag, i, out, pc>>
plan == <<from, to, start, end, flag, i, out>>

Times   == 0 .. MaxTime
Segment == {s \in [start : Times, end : Times] : s.start <= s.end}

\* The sealed segments of a day, in order.
Days == UNION {{d \in [1 .. n -> Segment] :
                   \A k \in 1 .. n, m \in 1 .. n :
                       k < m => d[k].end < d[m].start} : n \in 0 .. MaxSegs}

First == timeseg[1]
Last  == timeseg[Len(timeseg)]

TypeOK ==
    /\ timeseg \in Days /\ cnt \in 0 .. MaxSegs
    /\ timeseg # << >> => cnt = Len(timeseg)
    /\ {from, to, start, end} \subseteq Times
    /\ flag \in {0, 1} /\ i \in 1 .. MaxSegs + 1
    /\ out \in Seq([seg : 1 .. MaxSegs, from : Times, to : Times])
    /\ pc \in {"date", "list", "time", "check", "output", "tmp", "free",
               "crashed"}

Init ==
    /\ timeseg = << >> /\ cnt = 0
    /\ from = 0 /\ to = 0 /\ start = 0 /\ end = 0
    /\ flag = 0 /\ i = 1 /\ out = << >>
    /\ pc = "date"

-----------------------------------------------------------------------------
\* Fault: tmp.h264 is counted too.
FillCountsTmp(d) ==
    /\ pc = "date"
    /\ timeseg' = d
    /\ cnt' = IF d = << >> THEN cnt ELSE Len(d) + 1
    /\ pc' = "list"
    /\ UNCHANGED plan

\* fill_video_timeseg_array and the sort, for a day d.  When it has no sealed
\* segment the array is NULL, and cnt keeps the count of the search before.
Fill(d) ==
    /\ pc = "date"
    /\ timeseg' = d
    /\ cnt' = IF d = << >> THEN cnt ELSE Len(d)
    /\ pc' = "list"
    /\ UNCHANGED plan

\* The segments are listed, p[0] to p[cnt - 1], whatever p is.
List ==
    /\ pc = "list"
    /\ pc' = IF timeseg = << >> /\ cnt > 0 THEN "crashed" ELSE "time"
    /\ UNCHANGED <<timeseg, cnt, plan>>

\* search_time_check compares strings that end behind the digits of the hour.
GetTime ==
    /\ pc = "time"
    /\ from' \in Times /\ to' \in Times
    /\ from' \div HOUR <= to' \div HOUR
    /\ pc' = "check"
    /\ UNCHANGED <<timeseg, cnt, start, end, flag, i, out>>

\* Faults: the end is left beyond the last segment; the flag is not set then.
ClampedUnbounded == [start |-> IF from < First.start THEN First.start ELSE from,
                     end   |-> to]
CheckForgetsTmp ==
    /\ pc = "check"
    /\ \/ timeseg = << >> /\ flag' = 1 /\ UNCHANGED <<start, end>>
       \/ /\ timeseg # << >> /\ to < First.start
          /\ start' = from /\ end' = to /\ UNCHANGED flag
       \/ /\ timeseg # << >> /\ to >= First.start /\ from > Last.end
          /\ start' = from /\ end' = to /\ flag' = 1
       \/ /\ timeseg # << >> /\ to >= First.start /\ from <= Last.end
          /\ start' = IF from < First.start THEN First.start ELSE from
          /\ end'   = IF to > Last.end THEN Last.end ELSE to
          /\ UNCHANGED flag
    /\ pc' = "output" /\ i' = 1
    /\ UNCHANGED <<timeseg, cnt, from, to, out>>

\* The interval, cut to what lies between the first segment and the last.
Clamped == [start |-> IF from < First.start THEN First.start ELSE from,
            end   |-> IF to > Last.end THEN Last.end ELSE to]

\* check_search_video_time, of which only the flag and update_timeseg are used.
Check ==
    /\ pc = "check"
    /\ \/ timeseg = << >> /\ flag' = 1 /\ UNCHANGED <<start, end>>
       \/ /\ timeseg # << >> /\ to < First.start
          /\ start' = from /\ end' = to /\ UNCHANGED flag
       \/ /\ timeseg # << >> /\ to >= First.start /\ from > Last.end
          /\ start' = from /\ end' = to /\ flag' = 1
       \/ /\ timeseg # << >> /\ to >= First.start /\ from <= Last.end
          /\ start' = Clamped.start /\ end' = Clamped.end
          /\ flag' = IF to > Last.end THEN 1 ELSE flag
    /\ pc' = "output" /\ i' = 1
    /\ UNCHANGED <<timeseg, cnt, from, to, out>>

-----------------------------------------------------------------------------
(* output_search_video_info: one action per turn of its loop. *)

Looping == pc = "output" /\ timeseg # << >> /\ i <= cnt

\* Fault: the last second of a segment is left out.
IsPrintedShort(s) == \/ start \in s.start .. s.end - 1
                     \/ start < s.start /\ s.start <= end

\* The interval begins in the segment, or ahead of it and goes on into it.
IsPrinted(s) == \/ start \in s.start .. s.end
                \/ start < s.start /\ s.start <= end

PrintRange(last) ==
    LET first == IF start < timeseg[i].start THEN timeseg[i].start ELSE start
    IN  out' = Append(out, [seg |-> i, from |-> first, to |-> last])

\* Fault: back to the first segment.
SkipToFirst ==
    /\ Looping /\ ~IsPrinted(timeseg[i])
    /\ i' = 1
    /\ UNCHANGED <<timeseg, cnt, from, to, start, end, flag, out, pc>>

Skip ==
    /\ Looping /\ ~IsPrinted(timeseg[i])
    /\ i' = i + 1
    /\ UNCHANGED <<timeseg, cnt, from, to, start, end, flag, out, pc>>

\* The interval ends in this segment.
PrintLast ==
    /\ Looping /\ IsPrinted(timeseg[i]) /\ timeseg[i].end >= end
    /\ PrintRange(end)
    /\ pc' = "tmp"
    /\ UNCHANGED <<timeseg, cnt, from, to, start, end, flag, i>>

GoesBeyond == Looping /\ IsPrinted(timeseg[i]) /\ timeseg[i].end < end

\* The segment is printed to its end, and the search repeated, by recursion,
\* from the beginning of the next segment, if that is not too late.
PrintAndGoOn ==
    /\ GoesBeyond
    /\ PrintRange(timeseg[i].end)
    /\ \/ /\ timeseg[i + 1].start <= end
          /\ start' = timeseg[i + 1].start /\ i' = 1 /\ UNCHANGED pc
       \/ /\ timeseg[i + 1].start > end
          /\ pc' = "tmp" /\ UNCHANGED <<start, i>>
    /\ UNCHANGED <<timeseg, cnt, from, to, end, flag>>

OutputDone ==
    /\ pc = "output" /\ ~Looping
    /\ pc' = "tmp"
    /\ UNCHANGED <<timeseg, cnt, plan>>

\* search_tmp_video_file takes the flag back.
SearchTmp ==
    /\ pc = "tmp"
    /\ flag' = 0
    /\ pc' = "free"
    /\ UNCHANGED <<timeseg, cnt, from, to, start, end, i, out>>

\* The array is freed, and p4_terminal goes round: what is left of the search is
\* overwritten before it is used.
Free ==
    /\ pc = "free"
    /\ timeseg' = << >>
    /\ from' = 0 /\ to' = 0 /\ start' = 0 /\ end' = 0 /\ i' = 1 /\ out' = << >>
    /\ pc' = "date"
    /\ UNCHANGED <<cnt, flag>>

Plan   == Check \/ Skip \/ PrintLast \/ PrintAndGoOn \/ OutputDone
Search == Plan \/ SearchTmp \/ Free
Next   == (\E d \in Days : Fill(d)) \/ List \/ GetTime \/ Search

\* The terminal waits for its operator only at its two prompts.
Spec == Init /\ [][Next]_vars /\ WF_vars(Search)

-----------------------------------------------------------------------------
Printed(k, t) == {n \in 1 .. Len(out) : out[n].seg = k /\ t \in out[n].from .. out[n].to}

\* A search prints every second of the interval that lies in a sealed segment,
\* once, from that segment's file, nothing else, and in the order of time, over
\* all the gaps between segments the interval spans or ends in.
PrintsInterval ==
    pc = "tmp" /\ from <= to =>
        /\ \A k \in 1 .. Len(timeseg), t \in Times :
              Cardinality(Printed(k, t)) =
                  IF t \in from .. to /\ t \in timeseg[k].start .. timeseg[k].end
                  THEN 1 ELSE 0
        /\ \A n \in 1 .. Len(out) - 1 : out[n].to < out[n + 1].from

\* The segment being recorded is searched exactly when the interval goes beyond
\* the sealed ones, and the flag of one search is never left to the next.
TmpSearchedWhenBeyond ==
    /\ pc = "tmp" /\ from <= to =>
          (flag = 1 <=> timeseg = << >> \/ to > Last.end)
    /\ pc \in {"free", "date", "list", "time", "check"} => flag = 0

\* timeseg[i + 1] is only read where the array goes on, even for an interval that
\* ends before it starts.
NextSegmentExists == GoesBeyond => i + 1 <= Len(timeseg)

\* "now only exist tmp.h264 video segment" (p4storagefun.c:1067): a day without a
\* sealed segment is searched in tmp.h264, so nothing is listed for it.
TmpOnlyDayListsNothing == pc = "list" /\ timeseg = << >> => cnt = 0
=============================================================================
