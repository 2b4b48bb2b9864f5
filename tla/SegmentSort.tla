---------------------------- MODULE SegmentSort ----------------------------
(***************************************************************************)
(* sort_video_timeseg_array (p4storagefun.c:1012-1057): the quick sort     *)
(* that puts the segments of a day in the order of their start times       *)
(* before the terminal plans a search over them.                           *)
(*                                                                         *)
(* A time of six digits compares under strcmp as its number does.  The     *)
(* array is indexed from 0 as in the code.  calls holds the calls that are *)
(* still to be made, the one that is made next, or runs, at its head.      *)
(***************************************************************************)
EXTENDS Integers, Sequences

CONSTANTS Times,        \* start and end times of segments
          MaxSegs       \* bound: segments of a day

ASSUME SortAssumption == Times \subseteq Nat /\ MaxSegs \in Nat \ {0}

VARIABLES
    given,      \* history: the array as fill_video_timeseg_array left it
    cnt,        \* its length
    timeseg,    \* the array
    calls,      \* calls pending, as [left, right]
    i, j, tmp1, \* the locals of the call that runs
    pc          \* "call" or "partition"

vars == <<given, cnt, timeseg, calls, i, j, tmp1, pc>>

Segment == {s \in [start : Times, end : Times] : s.start <= s.end}
Indices == 0 .. cnt - 1
Bounds  == [left : 0 .. cnt, right : -1 .. cnt - 1]

\* No two files of a directory have one name.
Distinct(a) == \A m, n \in Indices : a[m] = a[n] => m = n

TypeOK ==
    /\ cnt \in 1 .. MaxSegs
    /\ given \in [Indices -> Segment] /\ Distinct(given)
    /\ timeseg \in [Indices -> Segment]
    /\ calls \in Seq(Bounds)
    /\ i \in Indices /\ j \in Indices /\ tmp1 \in Segment
    /\ pc \in {"call", "partition"}

Now == calls[1]

Exchanged(a, m, n) == [a EXCEPT ![m] = a[n], ![n] = a[m]]

Init ==
    /\ cnt \in 1 .. MaxSegs
    /\ given \in [Indices -> Segment] /\ Distinct(given)
    /\ timeseg = given
    /\ calls = <<[left |-> 0, right |-> cnt - 1]>>
    /\ i = 0 /\ j = 0 /\ tmp1 = given[0]
    /\ pc = "call"

\* left > right: nothing to sort.
Return ==
    /\ pc = "call" /\ calls # << >>
    /\ Now.left > Now.right
    /\ calls' = Tail(calls)
    /\ UNCHANGED <<given, cnt, timeseg, i, j, tmp1, pc>>

\* Fault: right is taken for the length.
BeginPastRight ==
    /\ pc = "call" /\ calls # << >>
    /\ Now.left <= Now.right
    /\ i' = Now.left /\ j' = Now.right + 1 /\ tmp1' = timeseg[Now.left]
    /\ pc' = "partition"
    /\ UNCHANGED <<given, cnt, timeseg, calls>>

Begin ==
    /\ pc = "call" /\ calls # << >>
    /\ Now.left <= Now.right
    /\ i' = Now.left /\ j' = Now.right /\ tmp1' = timeseg[Now.left]
    /\ pc' = "partition"
    /\ UNCHANGED <<given, cnt, timeseg, calls>>

\* The two inner loops: j comes down to the first element below the pivot, and
\* then i up to the first above it, neither past the other.
StopsDownAt(m) == /\ m = i \/ timeseg[m].start < tmp1.start
                  /\ \A n \in m + 1 .. j : timeseg[n].start >= tmp1.start
StopsUpAt(m, down) == /\ m = down \/ timeseg[m].start > tmp1.start
                      /\ \A n \in i .. m - 1 : timeseg[n].start <= tmp1.start

\* Fault: i goes first.
PartitionUpFirst ==
    /\ pc = "partition" /\ i # j
    /\ \E up \in i .. j : \E down \in up .. j :
          /\ up = j \/ timeseg[up].start > tmp1.start
          /\ \A n \in i .. up - 1 : timeseg[n].start <= tmp1.start
          /\ down = up \/ timeseg[down].start < tmp1.start
          /\ \A n \in down + 1 .. j : timeseg[n].start >= tmp1.start
          /\ i' = up /\ j' = down
          /\ timeseg' = Exchanged(timeseg, up, down)
    /\ UNCHANGED <<given, cnt, calls, tmp1, pc>>

\* One turn of the outer loop.
Partition ==
    /\ pc = "partition" /\ i # j
    /\ \E down \in i .. j : \E up \in i .. down :
          /\ StopsDownAt(down) /\ StopsUpAt(up, down)
          /\ i' = up /\ j' = down
          /\ timeseg' = Exchanged(timeseg, up, down)
    /\ UNCHANGED <<given, cnt, calls, tmp1, pc>>

\* Faults: the element at i is lost; the second half begins with the pivot.
PlaceLosing ==
    /\ pc = "partition" /\ i = j
    /\ timeseg' = [timeseg EXCEPT ![i] = tmp1]
    /\ calls' = << [left |-> Now.left, right |-> i - 1],
                   [left |-> i + 1, right |-> Now.right] >> \o Tail(calls)
    /\ pc' = "call"
    /\ UNCHANGED <<given, cnt, i, j, tmp1>>

PlaceKeeping ==
    /\ pc = "partition" /\ i = j
    /\ timeseg' = [timeseg EXCEPT ![Now.left] = timeseg[i], ![i] = tmp1]
    /\ calls' = << [left |-> Now.left, right |-> i - 1],
                   [left |-> i, right |-> Now.right] >> \o Tail(calls)
    /\ pc' = "call"
    /\ UNCHANGED <<given, cnt, i, j, tmp1>>

\* The pivot goes to where i and j met, and both sides of it are to be sorted.
Place ==
    /\ pc = "partition" /\ i = j
    /\ timeseg' = [timeseg EXCEPT ![Now.left] = timeseg[i], ![i] = tmp1]
    /\ calls' = << [left |-> Now.left, right |-> i - 1],
                   [left |-> i + 1, right |-> Now.right] >> \o Tail(calls)
    /\ pc' = "call"
    /\ UNCHANGED <<given, cnt, i, j, tmp1>>

Next == Return \/ Begin \/ Partition \/ Place

Spec     == Init /\ [][Next]_vars
FairSpec == Spec /\ WF_vars(Next)      \* the sort is sequential

-----------------------------------------------------------------------------
Sorted(a) == \A m, n \in Indices : m < n => a[m].start <= a[n].start

\* When the last call has returned the segments are in the order of their start
\* times, whatever order the directory listed them in and however many begin in
\* the same second.
SortedAtEnd == calls = << >> => Sorted(timeseg)

\* At every step the array holds each listed segment once: the code writes the
\* pivot over an element it has moved away, and exchanges the others.
NothingLostOrDoubled ==
    /\ Distinct(timeseg)
    /\ {timeseg[n] : n \in Indices} = {given[n] : n \in Indices}

\* The recursion ends.
SortEnds == <>(calls = << >>)
=============================================================================
