-------------------------- MODULE SearchPlanProofs --------------------------
(***************************************************************************)
(* The plan of a search, for every number of sealed segments, every day    *)
(* they make and every interval the operator may type: it stays within the *)
(* array of segments, and prints the interval.                             *)
(***************************************************************************)
EXTENDS SearchPlan, SequenceTheorems, FiniteSetTheorems, TLAPS

\* What timeseg is, without the set of all days.
IsDay ==
    /\ timeseg \in Seq(Segment)
    /\ \A k \in 1 .. Len(timeseg), m \in 1 .. Len(timeseg) :
          k < m => timeseg[k].end < timeseg[m].start

\* The interval that is left ends in a segment, or lies beside all of them.
Bounded ==
    pc = "output" /\ timeseg # << >> =>
        end <= Last.end \/ end < First.start \/ start > Last.end

\* The flag is set while there is something in tmp.h264 to be searched.
FlagSet ==
    /\ pc \in {"output", "tmp"} /\ from <= to =>
          (flag = 1 <=> timeseg = << >> \/ to > Last.end)
    /\ pc \in {"free", "date", "list", "time", "check"} => flag = 0

PlanInv == TypeOK /\ Bounded /\ FlagSet

\* Second t is of the interval and of segment k; it has been printed from it.
Wanted(k, t) == t \in from .. to /\ t \in timeseg[k].start .. timeseg[k].end
Covered(k, t) == \E n \in 1 .. Len(out) : out[n].seg = k /\ t \in out[n].from .. out[n].to

\* What has been printed is of the interval, and in order.
Sound ==
    /\ \A n \in 1 .. Len(out) :
          /\ out[n].seg \in 1 .. Len(timeseg)
          /\ from <= out[n].from /\ timeseg[out[n].seg].start <= out[n].from
          /\ out[n].to <= to /\ out[n].to <= timeseg[out[n].seg].end
    /\ \A n, m \in 1 .. Len(out) : n < m => out[n].to < out[m].from

\* All of it ahead of start is printed.
Printing ==
    pc = "output" /\ from <= to /\ timeseg # << >> =>
        /\ from <= start /\ end <= to
        /\ \A n \in 1 .. Len(out) : out[n].to < start
        /\ \A k \in 1 .. Len(timeseg), t \in Times :
              Wanted(k, t) => t <= end /\ (t < start => Covered(k, t))
        /\ \A j \in 1 .. Len(timeseg) :
              j < i => timeseg[j].end < start \/ end < timeseg[j].start

OutInv ==
    /\ pc \in {"date", "list", "time", "check"} => out = << >>
    /\ pc = "output" /\ timeseg = << >> => out = << >>
    /\ pc \in {"output", "tmp"} /\ from <= to => Sound
    /\ Printing
    /\ pc = "tmp" /\ from <= to =>
          \A k \in 1 .. Len(timeseg), t \in Times : Wanted(k, t) => Covered(k, t)

-----------------------------------------------------------------------------
LEMMA SegmentTimes ==
    ASSUME NEW s \in Segment
    PROVE  /\ s.start \in Times /\ s.end \in Times
           /\ s.start \in Int /\ s.end \in Int /\ s.start <= s.end
<1>1. s.start \in Times /\ s.end \in Times /\ s.start <= s.end
  BY DEF Segment
<1>2. Times \subseteq Int
  BY DEF Times
<1> QED BY <1>1, <1>2

LEMMA DaysAreSequences ==
    ASSUME NEW d \in Days
    PROVE  /\ d \in Seq(Segment) /\ Len(d) \in 0 .. MaxSegs
           /\ d # << >> <=> Len(d) # 0
           /\ \A k \in 1 .. Len(d), m \in 1 .. Len(d) : k < m => d[k].end < d[m].start
<1>1. PICK n \in 0 .. MaxSegs : /\ d \in [1 .. n -> Segment]
                                /\ \A k \in 1 .. n, m \in 1 .. n :
                                      k < m => d[k].end < d[m].start
  BY DEF Days
<1>2. n \in Nat
  BY PlanAssumption
<1>3. d \in Seq(Segment)
  BY <1>1, <1>2, SeqDef
<1>4. Len(d) = n
  BY <1>1, <1>2, <1>3, LenProperties
<1>5. d # << >> <=> Len(d) # 0
  BY <1>3, EmptySeq
<1> QED
  BY <1>1, <1>3, <1>4, <1>5

LEMMA TypeGivesDay ==
    ASSUME TypeOK
    PROVE  IsDay /\ Len(timeseg) \in 0 .. MaxSegs /\ (timeseg # << >> <=> Len(timeseg) # 0)
BY DaysAreSequences DEF TypeOK, IsDay

\* Of a day, the first segment begins first, and the last ends last.
LEMMA FirstAndLast ==
    ASSUME IsDay, NEW k \in 1 .. Len(timeseg)
    PROVE  /\ timeseg[k] \in Segment /\ First \in Segment /\ Last \in Segment
           /\ First.start <= timeseg[k].start
           /\ timeseg[k].end <= Last.end
<1>1. Len(timeseg) \in Nat /\ 1 <= k /\ k <= Len(timeseg)
  BY LenProperties DEF IsDay
<1>2. timeseg[k] \in Segment /\ First \in Segment /\ Last \in Segment
  BY <1>1, ElementOfSeq DEF IsDay, First, Last
<1>3. First.start <= timeseg[k].start
  <2>1. CASE k = 1
    <3>1. First = timeseg[k]
      BY <2>1 DEF First
    <3>2. timeseg[k].start \in Int
      BY <1>2, SegmentTimes
    <3> QED BY <3>1, <3>2
  <2>2. CASE k > 1
    <3>1. First.end < timeseg[k].start
      BY <1>1, <2>2 DEF IsDay, First
    <3>2. /\ First.start \in Int /\ First.end \in Int /\ First.start <= First.end
          /\ timeseg[k].start \in Int
      BY <1>2, SegmentTimes
    <3> QED BY <3>1, <3>2
  <2> QED BY <1>1, <2>1, <2>2
<1>4. timeseg[k].end <= Last.end
  <2>1. CASE k = Len(timeseg)
    <3>1. Last = timeseg[k]
      BY <2>1 DEF Last
    <3>2. timeseg[k].end \in Int
      BY <1>2, SegmentTimes
    <3> QED BY <3>1, <3>2
  <2>2. CASE k < Len(timeseg)
    <3>1. timeseg[k].end < Last.start
      BY <1>1, <2>2 DEF IsDay, Last
    <3>2. /\ Last.start \in Int /\ Last.end \in Int /\ Last.start <= Last.end
          /\ timeseg[k].end \in Int
      BY <1>2, SegmentTimes
    <3> QED BY <3>1, <3>2
  <2> QED BY <1>1, <2>1, <2>2
<1> QED BY <1>2, <1>3, <1>4

-----------------------------------------------------------------------------
(* The invariant. *)

LEMMA NoDayIsADay == << >> \in Days
<1>1. << >> \in Seq(Segment) /\ Len(<< >>) = 0
  BY EmptySeq
<1>2. << >> \in [1 .. 0 -> Segment]
  BY <1>1, LenProperties
<1>3. 0 \in 0 .. MaxSegs
  BY PlanAssumption
<1> QED BY <1>2, <1>3 DEF Days

LEMMA PlanInvInit == Init => PlanInv
<1> SUFFICES ASSUME Init PROVE PlanInv
  OBVIOUS
<1>1. TypeOK
  <2>1. 0 \in Times /\ 0 \in 0 .. MaxSegs /\ 1 \in 1 .. MaxSegs + 1
    BY PlanAssumption DEF Times
  <2>2. << >> \in Seq([seg : 1 .. MaxSegs, from : Times, to : Times])
    BY EmptySeq
  <2> QED BY <2>1, <2>2, NoDayIsADay DEF Init, TypeOK
<1>2. Bounded /\ FlagSet
  BY DEF Init, Bounded, FlagSet
<1> QED BY <1>1, <1>2 DEF PlanInv

\* A new search: the array and its count agree.
LEMMA PlanInvDate ==
    ASSUME PlanInv, NEW d \in Days, Fill(d)
    PROVE  PlanInv'
<1> USE DEF PlanInv
<1>1. TypeOK'
  <2>1. cnt' \in 0 .. MaxSegs /\ (timeseg' # << >> => cnt' = Len(timeseg'))
    BY DaysAreSequences DEF TypeOK, Fill
  <2> QED BY <2>1 DEF TypeOK, Fill, plan
<1>2. Bounded' /\ FlagSet'
  BY DEF Bounded, FlagSet, Fill, plan
<1> QED BY <1>1, <1>2

LEMMA PlanInvPrompts ==
    ASSUME PlanInv, List \/ GetTime
    PROVE  PlanInv'
<1> USE DEF PlanInv
<1>1. CASE List
  BY <1>1 DEF List, plan, TypeOK, Bounded, FlagSet
<1>2. CASE GetTime
  BY <1>2 DEF GetTime, TypeOK, Bounded, FlagSet
<1> QED BY <1>1, <1>2

LEMMA PlanInvCheck ==
    ASSUME PlanInv, Check
    PROVE  PlanInv'
<1> USE DEF PlanInv
<1>1. pc = "check" /\ pc' = "output" /\ flag = 0 /\ i' = 1
      /\ UNCHANGED <<timeseg, cnt, from, to, out>>
  BY DEF Check, FlagSet
<1>2. timeseg # << >> => First \in Segment /\ Last \in Segment /\ First.start <= Last.end
  <2> SUFFICES ASSUME timeseg # << >>
               PROVE  First \in Segment /\ Last \in Segment /\ First.start <= Last.end
    OBVIOUS
  <2>1. IsDay /\ 1 \in 1 .. Len(timeseg)
    BY TypeGivesDay, PlanAssumption
  <2>2. /\ First \in Segment /\ Last \in Segment /\ timeseg[1].end <= Last.end
    BY <2>1, FirstAndLast
  <2>3. First.start <= First.end /\ First.end <= Last.end
    BY <2>2, SegmentTimes DEF First
  <2>4. First.start \in Int /\ First.end \in Int /\ Last.end \in Int
    BY <2>2, SegmentTimes
  <2> QED BY <2>2, <2>3, <2>4
<1>3. timeseg # << >> => /\ First.start \in Int /\ Last.end \in Int
                          /\ First.start \in Times /\ Last.end \in Times
  BY <1>2, SegmentTimes
<1>4. from \in Times /\ to \in Times /\ from \in Int /\ to \in Int
  BY PlanAssumption DEF TypeOK, Times
<1>5. First' = First /\ Last' = Last
  BY <1>1 DEF First, Last
<1>6. TypeOK'
  <2>1. start' \in Times /\ end' \in Times /\ flag' \in {0, 1}
    BY <1>3, <1>4, <1>1 DEF Check, TypeOK, Clamped
  <2>2. i' \in 1 .. MaxSegs + 1
    BY <1>1, PlanAssumption
  <2> QED BY <2>1, <2>2, <1>1 DEF TypeOK
<1>7. Bounded'
  <2> SUFFICES ASSUME timeseg # << >>
               PROVE  end' <= Last.end \/ end' < First.start \/ start' > Last.end
    BY <1>1, <1>5 DEF Bounded
  <2> QED BY <1>2, <1>3, <1>4 DEF Check, Clamped
<1>8. FlagSet'
  <2> SUFFICES ASSUME from <= to
               PROVE  flag' = 1 <=> timeseg = << >> \/ to > Last.end
    BY <1>1, <1>5 DEF FlagSet
  <2> QED BY <1>1, <1>2, <1>3, <1>4 DEF Check, Clamped
<1> QED BY <1>6, <1>7, <1>8

\* The loop looks at a segment of the array.
LEMMA LoopsInArray ==
    ASSUME PlanInv, Looping
    PROVE  /\ i \in 1 .. Len(timeseg) /\ Len(timeseg) \in 0 .. MaxSegs
           /\ cnt = Len(timeseg) /\ IsDay /\ timeseg # << >>
           /\ i \in Int /\ i \in 1 .. MaxSegs
           /\ {start, end, from, to} \subseteq Times /\ {start, end, from, to} \subseteq Int
<1>1. IsDay /\ Len(timeseg) \in 0 .. MaxSegs /\ cnt = Len(timeseg) /\ timeseg # << >>
  BY TypeGivesDay DEF PlanInv, TypeOK, Looping
<1>2. i \in 1 .. MaxSegs + 1 /\ i <= cnt
  BY DEF PlanInv, TypeOK, Looping
<1>3. i \in 1 .. Len(timeseg) /\ i \in Int /\ i \in 1 .. MaxSegs
  BY <1>1, <1>2, PlanAssumption
<1>4. {start, end, from, to} \subseteq Times
  BY DEF PlanInv, TypeOK
<1>5. Times \subseteq Int
  BY DEF Times
<1> QED BY <1>1, <1>3, <1>4, <1>5

\* A segment that is printed and ends ahead of the interval is not the last.
LEMMA GoesBeyondToNext ==
    ASSUME PlanInv, GoesBeyond
    PROVE  i + 1 \in 1 .. Len(timeseg) /\ end <= Last.end
<1> DEFINE s == timeseg[i]
<1>1. Looping /\ IsPrinted(s) /\ s.end < end
  BY DEF GoesBeyond
<1>2. /\ i \in 1 .. Len(timeseg) /\ Len(timeseg) \in 0 .. MaxSegs /\ i \in Int /\ IsDay
      /\ timeseg # << >> /\ start \in Int /\ end \in Int
  BY <1>1, LoopsInArray
<1>3. /\ s \in Segment /\ First \in Segment /\ Last \in Segment
      /\ First.start <= s.start /\ s.end <= Last.end
  BY <1>2, FirstAndLast
<1>4. /\ s.start \in Int /\ s.end \in Int /\ s.start <= s.end
      /\ First.start \in Int /\ Last.end \in Int
  BY <1>3, SegmentTimes
<1>5. end <= Last.end \/ end < First.start \/ start > Last.end
  BY <1>1, <1>2 DEF PlanInv, Bounded, Looping
<1>6. start \in s.start .. s.end \/ (start < s.start /\ s.start <= end)
  BY <1>1 DEF IsPrinted
<1> HIDE DEF s
<1>7. end <= Last.end
  <2>1. CASE end < First.start
    BY <2>1, <1>1, <1>2, <1>3, <1>4
  <2>2. CASE start > Last.end
    BY <2>2, <1>2, <1>3, <1>4, <1>6
  <2> QED BY <2>1, <2>2, <1>5
<1>8. s # Last
  BY <1>1, <1>2, <1>4, <1>7
<1>9. i # Len(timeseg)
  BY <1>8 DEF s, Last
<1> QED BY <1>2, <1>7, <1>9, PlanAssumption

LEMMA RangePrinted ==
    ASSUME PlanInv, Looping, NEW last \in Times, PrintRange(last)
    PROVE  out' \in Seq([seg : 1 .. MaxSegs, from : Times, to : Times])
<1>1. /\ i \in 1 .. Len(timeseg) /\ i \in 1 .. MaxSegs /\ IsDay /\ start \in Times
  BY LoopsInArray
<1>2. timeseg[i].start \in Times
  BY <1>1, FirstAndLast, SegmentTimes
<1> DEFINE first == IF start < timeseg[i].start THEN timeseg[i].start ELSE start
           range == [seg |-> i, from |-> first, to |-> last]
<1>3. range \in [seg : 1 .. MaxSegs, from : Times, to : Times]
  BY <1>1, <1>2
<1>4. out \in Seq([seg : 1 .. MaxSegs, from : Times, to : Times])
  BY DEF PlanInv, TypeOK
<1>5. out' = Append(out, range)
  BY DEF PrintRange
<1> HIDE DEF range
<1> QED BY <1>3, <1>4, <1>5, AppendProperties

LEMMA PlanInvLoop ==
    ASSUME PlanInv, Skip \/ PrintLast \/ PrintAndGoOn
    PROVE  PlanInv'
<1>1. Looping /\ pc = "output" /\ UNCHANGED <<timeseg, cnt, from, to, end, flag>>
  BY DEF Skip, PrintLast, PrintAndGoOn, GoesBeyond, Looping
<1>2. First' = First /\ Last' = Last
  BY <1>1 DEF First, Last
<1>3. /\ i \in 1 .. Len(timeseg) /\ i \in 1 .. MaxSegs /\ i \in Int /\ IsDay
      /\ Len(timeseg) \in 0 .. MaxSegs /\ {start, end, from, to} \subseteq Times
  BY <1>1, LoopsInArray
<1>4. TypeOK
  BY DEF PlanInv
<1>5. CASE Skip
  <2>1. i' \in 1 .. MaxSegs + 1
    BY <1>5, <1>3, PlanAssumption DEF Skip
  <2>2. TypeOK'
    BY <2>1, <1>4, <1>5 DEF Skip, TypeOK
  <2>3. Bounded' /\ FlagSet'
    BY <1>5, <1>1, <1>2 DEF Skip, Bounded, FlagSet, PlanInv
  <2> QED BY <2>2, <2>3 DEF PlanInv
<1>6. CASE PrintLast
  <2>1. out' \in Seq([seg : 1 .. MaxSegs, from : Times, to : Times])
    BY <1>6, <1>1, <1>3, RangePrinted DEF PrintLast
  <2>2. TypeOK'
    BY <2>1, <1>4, <1>6 DEF PrintLast, TypeOK
  <2>3. Bounded' /\ FlagSet'
    BY <1>6, <1>1, <1>2 DEF PrintLast, Bounded, FlagSet, PlanInv
  <2> QED BY <2>2, <2>3 DEF PlanInv
<1>7. CASE PrintAndGoOn
  <2>1. i + 1 \in 1 .. Len(timeseg) /\ end <= Last.end
    BY <1>7, GoesBeyondToNext DEF PrintAndGoOn
  <2>2. timeseg[i].end \in Times /\ timeseg[i + 1].start \in Times
    BY <2>1, <1>3, FirstAndLast, SegmentTimes
  <2>3. out' \in Seq([seg : 1 .. MaxSegs, from : Times, to : Times])
    BY <1>7, <1>1, <2>2, RangePrinted DEF PrintAndGoOn
  <2>4. start' \in Times /\ i' \in 1 .. MaxSegs + 1 /\ pc' \in {"output", "tmp"}
    BY <2>2, <1>1, <1>3, <1>7, PlanAssumption DEF PrintAndGoOn
  <2>5. TypeOK'
    BY <2>3, <2>4, <1>1, <1>4 DEF TypeOK
  <2>6. Bounded'
    BY <2>1, <1>1, <1>2 DEF Bounded
  <2>7. FlagSet'
    BY <2>4, <1>1, <1>2 DEF FlagSet, PlanInv
  <2> QED BY <2>5, <2>6, <2>7 DEF PlanInv
<1> QED BY <1>5, <1>6, <1>7

LEMMA PlanInvEnds ==
    ASSUME PlanInv, OutputDone \/ SearchTmp \/ Free
    PROVE  PlanInv'
<1> USE DEF PlanInv
<1>1. CASE OutputDone
  BY <1>1 DEF OutputDone, plan, TypeOK, Bounded, FlagSet, Last
<1>2. CASE SearchTmp
  BY <1>2 DEF SearchTmp, TypeOK, Bounded, FlagSet
<1>3. CASE Free
  <2>1. 0 \in Times /\ 1 \in 1 .. MaxSegs + 1
    BY PlanAssumption DEF Times
  <2>2. << >> \in Seq([seg : 1 .. MaxSegs, from : Times, to : Times])
    BY EmptySeq
  <2>3. TypeOK'
    BY <2>1, <2>2, <1>3, NoDayIsADay DEF Free, TypeOK
  <2> QED BY <2>3, <1>3 DEF Free, Bounded, FlagSet
<1> QED BY <1>1, <1>2, <1>3

LEMMA PlanInvPreserved == PlanInv /\ [Next]_vars => PlanInv'
<1> SUFFICES ASSUME PlanInv, [Next]_vars PROVE PlanInv'
  OBVIOUS
<1>1. CASE \E d \in Days : Fill(d)
  BY <1>1, PlanInvDate
<1>2. CASE List \/ GetTime
  BY <1>2, PlanInvPrompts
<1>3. CASE Plan
  BY <1>3, PlanInvCheck, PlanInvLoop, PlanInvEnds DEF Plan
<1>4. CASE SearchTmp \/ Free
  BY <1>4, PlanInvEnds
<1>5. CASE UNCHANGED vars
  BY <1>5 DEF vars, PlanInv, TypeOK, Bounded, FlagSet, First, Last
<1> QED BY <1>1, <1>2, <1>3, <1>4, <1>5 DEF Next, Search

LEMMA PlanInvAlways == Spec => []PlanInv
BY PlanInvInit, PlanInvPreserved, PTL DEF Spec

-----------------------------------------------------------------------------
\* The state of the terminal thread stays well typed: the array of segments and its
\* count agree, and every range it has printed is one of the array's (p4_terminal).
THEOREM PlanStaysTyped == Spec => []TypeOK
BY PlanInvAlways, PTL DEF PlanInv

\* output_search_video_info never reads behind the end of the array, whatever segments
\* the day has and whatever interval was typed, one that ends before it starts among
\* them.
THEOREM NextSegmentAlwaysExists == Spec => []NextSegmentExists
<1>1. PlanInv => NextSegmentExists
  <2> SUFFICES ASSUME PlanInv, GoesBeyond PROVE i + 1 <= Len(timeseg)
    BY DEF NextSegmentExists
  <2>1. i + 1 \in 1 .. Len(timeseg) /\ Len(timeseg) \in 0 .. MaxSegs /\ i \in Int
    BY GoesBeyondToNext, LoopsInArray DEF GoesBeyond
  <2> QED BY <2>1
<1> QED BY <1>1, PlanInvAlways, PTL

\* tmp.h264 is searched exactly when the interval goes beyond the sealed segments, and
\* the static flag is never left set for a later search.
THEOREM TmpIsSearchedWhenBeyond == Spec => []TmpSearchedWhenBeyond
<1>1. PlanInv => TmpSearchedWhenBeyond
  BY DEF PlanInv, FlagSet, TmpSearchedWhenBeyond
<1> QED BY <1>1, PlanInvAlways, PTL

-----------------------------------------------------------------------------
(* The interval is printed. *)

LEMMA OutIsTyped ==
    ASSUME TypeOK
    PROVE  /\ Len(out) \in Nat
           /\ \A n \in 1 .. Len(out) : /\ out[n].from \in Times /\ out[n].to \in Times
                                       /\ out[n].from \in Int /\ out[n].to \in Int
<1> DEFINE R == [seg : 1 .. MaxSegs, from : Times, to : Times]
<1>1. out \in Seq(R)
  BY DEF TypeOK
<1>2. Len(out) \in Nat
  BY <1>1, LenProperties
<1>3. \A n \in 1 .. Len(out) : out[n] \in R
  BY <1>1, ElementOfSeq
<1>4. Times \subseteq Int
  BY DEF Times
<1> QED BY <1>2, <1>3, <1>4

\* Printing nothing is sound.
LEMMA NothingIsSound == out = << >> => Sound /\ Len(out) = 0
<1>1. Len(<< >>) = 0
  BY EmptySeq
<1> QED BY <1>1 DEF Sound

\* A range that is printed covers its seconds of its segment, and leaves the others.
LEMMA RangeCovers ==
    ASSUME PlanInv, Looping, NEW last \in Times, PrintRange(last), UNCHANGED timeseg
    PROVE  LET first == IF start < timeseg[i].start THEN timeseg[i].start ELSE start
           IN  /\ Len(out) \in Nat /\ Len(out') = Len(out) + 1
               /\ \A n \in 1 .. Len(out) : out'[n] = out[n]
               /\ out'[Len(out) + 1] = [seg |-> i, from |-> first, to |-> last]
               /\ \A k, t : Covered(k, t) => Covered(k, t)'
               /\ \A k, t : k = i /\ t \in first .. last => Covered(k, t)'
<1> DEFINE first == IF start < timeseg[i].start THEN timeseg[i].start ELSE start
           R == [seg : 1 .. MaxSegs, from : Times, to : Times]
           range == [seg |-> i, from |-> first, to |-> last]
<1>1. out \in Seq(R) /\ Len(out) \in Nat
  BY OutIsTyped DEF PlanInv, TypeOK
<1>2. out' = Append(out, range)
  BY DEF PrintRange
<1>3. range \in R
  <2>1. /\ i \in 1 .. Len(timeseg) /\ i \in 1 .. MaxSegs /\ IsDay /\ start \in Times
    BY LoopsInArray
  <2>2. timeseg[i].start \in Times
    BY <2>1, FirstAndLast, SegmentTimes
  <2> QED BY <2>1, <2>2
<1> HIDE DEF R
<1>4. /\ Len(out') = Len(out) + 1
      /\ \A n \in 1 .. Len(out) : out'[n] = out[n]
      /\ out'[Len(out) + 1] = range
  BY <1>1, <1>2, <1>3, AppendProperties
<1>5. \A k, t : Covered(k, t) => Covered(k, t)'
  BY <1>1, <1>4 DEF Covered
<1>6. \A k, t : k = i /\ t \in first .. last => Covered(k, t)'
  <2> SUFFICES ASSUME NEW k, NEW t, k = i, t \in first .. last PROVE Covered(k, t)'
    OBVIOUS
  <2>1. Len(out) + 1 \in 1 .. Len(out')
    BY <1>1, <1>4
  <2>2. range.seg = i /\ range.from = first /\ range.to = last
    OBVIOUS
  <2> QED BY <2>1, <2>2, <1>4 DEF Covered
<1> QED BY <1>1, <1>4, <1>5, <1>6

\* It is sound, when it is of the interval and of the segment, and behind the others.
LEMMA RangeSound ==
    ASSUME PlanInv, Looping, NEW last \in Times, PrintRange(last),
           UNCHANGED <<timeseg, from, to>>, Sound, from <= start,
           \A n \in 1 .. Len(out) : out[n].to < start,
           last <= to, last <= timeseg[i].end
    PROVE  Sound'
<1> DEFINE first == IF start < timeseg[i].start THEN timeseg[i].start ELSE start
           N == Len(out)
<1>1. /\ N \in Nat /\ Len(out') = N + 1
      /\ \A n \in 1 .. N : out'[n] = out[n]
      /\ out'[N + 1] = [seg |-> i, from |-> first, to |-> last]
  BY RangeCovers
<1>2. /\ i \in 1 .. Len(timeseg) /\ IsDay /\ start \in Int /\ from \in Int
  BY LoopsInArray
<1>3. timeseg[i].start \in Int
  BY <1>2, FirstAndLast, SegmentTimes
<1>4. first \in Int /\ from <= first /\ timeseg[i].start <= first /\ start <= first
  BY <1>2, <1>3
<1>5. \A n \in 1 .. N : out[n].to \in Int
  BY OutIsTyped DEF PlanInv
<1> HIDE DEF first
<1>6. /\ out'[N + 1].seg = i /\ out'[N + 1].from = first /\ out'[N + 1].to = last
  BY <1>1
<1>7. ASSUME NEW n \in 1 .. N + 1
      PROVE  /\ out'[n].seg \in 1 .. Len(timeseg)
             /\ from <= out'[n].from /\ timeseg[out'[n].seg].start <= out'[n].from
             /\ out'[n].to <= to /\ out'[n].to <= timeseg[out'[n].seg].end
  <2>1. CASE n \in 1 .. N
    BY <2>1, <1>1 DEF Sound
  <2>2. CASE n = N + 1
    BY <2>2, <1>2, <1>4, <1>6
  <2> QED BY <2>1, <2>2, <1>1
<1>8. ASSUME NEW n \in 1 .. N + 1, NEW m \in 1 .. N + 1, n < m
      PROVE  out'[n].to < out'[m].from
  <2>1. n \in 1 .. N
    BY <1>1, <1>8
  <2>2. CASE m \in 1 .. N
    BY <2>1, <2>2, <1>1, <1>8 DEF Sound
  <2>3. CASE m = N + 1
    <3>1. out'[n].to = out[n].to /\ out[n].to < start /\ out[n].to \in Int
      BY <2>1, <1>1, <1>5
    <3> QED BY <3>1, <2>3, <1>2, <1>4, <1>6
  <2> QED BY <2>2, <2>3, <1>1
<1> QED BY <1>1, <1>7, <1>8 DEF Sound

\* When all the segments ahead of the one that is printed are apart from the interval
\* that is left, what is printed is all of it up to the end of the range.
LEMMA RangeCoversAhead ==
    ASSUME PlanInv, Printing, Looping, from <= to, NEW last \in Times, PrintRange(last),
           UNCHANGED <<timeseg, from, to>>, last <= timeseg[i].end,
           NEW k \in 1 .. Len(timeseg), NEW t \in Times, Wanted(k, t),
           t <= last \/ k <= i,
           last = end \/ last = timeseg[i].end
    PROVE  Covered(k, t)'
<1> DEFINE first == IF start < timeseg[i].start THEN timeseg[i].start ELSE start
<1>1. /\ i \in 1 .. Len(timeseg) /\ i \in Int /\ IsDay /\ timeseg # << >>
      /\ Len(timeseg) \in 0 .. MaxSegs
      /\ start \in Int /\ end \in Int /\ from \in Int /\ to \in Int
  BY LoopsInArray
<1>2. /\ t <= end /\ (t < start => Covered(k, t))
      /\ k < i => timeseg[k].end < start \/ end < timeseg[k].start
  BY <1>1 DEF Printing, Looping
<1>3. t \in Int /\ last \in Int /\ k \in Int
  BY <1>1, PlanAssumption DEF Times
<1>4. /\ timeseg[k].start \in Int /\ timeseg[k].end \in Int
      /\ timeseg[i].start \in Int /\ timeseg[i].end \in Int
  BY <1>1, FirstAndLast, SegmentTimes
<1>5. timeseg[k].start <= t /\ t <= timeseg[k].end
  BY <1>3, <1>4 DEF Wanted
<1>6. CASE t < start
  BY <1>2, <1>6, RangeCovers
<1>7. CASE start <= t
  <2>1. ~(k < i)
    BY <1>1, <1>2, <1>3, <1>4, <1>5, <1>7
  <2>2. ~(i < k)
    <3> SUFFICES ASSUME i < k PROVE FALSE
      OBVIOUS
    <3>1. timeseg[i].end < timeseg[k].start
      BY <1>1 DEF IsDay
    <3>2. t <= last
      BY <1>1, <1>3
    <3> QED BY <3>1, <3>2, <1>3, <1>4, <1>5
  <2>3. k = i
    BY <2>1, <2>2, <1>1, <1>3
  <2>4. t \in first .. last
    BY <2>3, <1>1, <1>2, <1>3, <1>4, <1>5, <1>7
  <2> QED BY <2>3, <2>4, RangeCovers
<1> QED BY <1>1, <1>3, <1>6, <1>7

LEMMA OutInvInit == Init => OutInv
BY DEF Init, OutInv, Printing

LEMMA OutInvPrompts ==
    ASSUME PlanInv, OutInv, (\E d \in Days : Fill(d)) \/ List \/ GetTime
    PROVE  OutInv'
BY DEF Fill, List, GetTime, plan, OutInv, Printing

LEMMA OutInvCheck ==
    ASSUME PlanInv, OutInv, Check
    PROVE  OutInv'
<1>1. /\ pc' = "output" /\ i' = 1 /\ out = << >> /\ out' = << >>
      /\ UNCHANGED <<timeseg, cnt, from, to>>
  BY DEF Check, OutInv
<1>2. Sound'
  <2>1. Len(out') = 0
    BY <1>1, EmptySeq
  <2> QED BY <2>1 DEF Sound
<1>3. Printing'
  <2> SUFFICES ASSUME from <= to, timeseg # << >>
               PROVE  /\ from <= start' /\ end' <= to
                      /\ \A n \in 1 .. Len(out') : out'[n].to < start'
                      /\ \A k \in 1 .. Len(timeseg), t \in Times :
                            Wanted(k, t) => t <= end' /\ (t < start' => Covered(k, t)')
                      /\ \A j \in 1 .. Len(timeseg) :
                            j < 1 => timeseg[j].end < start' \/ end' < timeseg[j].start
    BY <1>1 DEF Printing, Wanted
  <2>1. /\ IsDay /\ Len(timeseg) \in 0 .. MaxSegs /\ 1 \in 1 .. Len(timeseg)
        /\ from \in Int /\ to \in Int
    BY TypeGivesDay, PlanAssumption DEF PlanInv, TypeOK, Times
  <2>2. First \in Segment /\ Last \in Segment
    BY <2>1, FirstAndLast
  <2>3. First.start \in Int /\ Last.end \in Int
    BY <2>2, SegmentTimes
  <2>4. from <= start' /\ end' <= to
    BY <2>1, <2>3 DEF Check, Clamped
  <2>5. \A n \in 1 .. Len(out') : out'[n].to < start'
    BY <1>1, EmptySeq
  <2>6. ASSUME NEW k \in 1 .. Len(timeseg), NEW t \in Times, Wanted(k, t)
        PROVE  t <= end' /\ ~(t < start')
    <3>1. /\ timeseg[k].start \in Int /\ timeseg[k].end \in Int
          /\ First.start <= timeseg[k].start /\ timeseg[k].end <= Last.end
      BY <2>1, FirstAndLast, SegmentTimes
    <3>2. t \in Int
      BY DEF Times
    <3>3. /\ from <= t /\ t <= to /\ First.start <= t /\ t <= Last.end
      BY <2>1, <2>3, <2>6, <3>1, <3>2 DEF Wanted
    <3> QED BY <2>1, <2>3, <3>2, <3>3 DEF Check, Clamped
  <2>7. \A j \in 1 .. Len(timeseg) : ~(j < 1)
    OBVIOUS
  <2> QED BY <2>4, <2>5, <2>6, <2>7
<1> QED BY <1>1, <1>2, <1>3 DEF OutInv

LEMMA OutInvSkip ==
    ASSUME PlanInv, OutInv, Skip
    PROVE  OutInv'
<1>1. /\ pc = "output" /\ Looping /\ ~IsPrinted(timeseg[i]) /\ i' = i + 1
      /\ UNCHANGED <<timeseg, cnt, from, to, start, end, flag, out, pc>>
  BY DEF Skip, Looping
<1>2. Sound' = Sound
  BY <1>1 DEF Sound
<1>3. Printing'
  <2> SUFFICES ASSUME from <= to, timeseg # << >>, NEW j \in 1 .. Len(timeseg), j < i + 1
               PROVE  timeseg[j].end < start \/ end < timeseg[j].start
    BY <1>1 DEF Printing, OutInv, Wanted, Covered
  <2>1. i \in 1 .. Len(timeseg) /\ i \in Int /\ IsDay /\ start \in Int /\ end \in Int
    BY <1>1, LoopsInArray
  <2>2. CASE j < i
    BY <2>2, <1>1 DEF Printing, OutInv
  <2>3. CASE j = i
    <3>1. timeseg[j].start \in Int /\ timeseg[j].end \in Int
      BY <2>1, FirstAndLast, SegmentTimes
    <3> QED BY <2>1, <2>3, <3>1, <1>1 DEF IsPrinted
  <2> QED BY <2>1, <2>2, <2>3
<1> QED BY <1>1, <1>2, <1>3 DEF OutInv

LEMMA OutInvPrintLast ==
    ASSUME PlanInv, OutInv, PrintLast
    PROVE  OutInv'
<1>1. /\ pc = "output" /\ pc' = "tmp" /\ Looping /\ PrintRange(end)
      /\ timeseg[i].end >= end
      /\ UNCHANGED <<timeseg, cnt, from, to, start, end, flag, i>>
  BY DEF PrintLast, Looping
<1>2. /\ i \in 1 .. Len(timeseg) /\ IsDay /\ timeseg # << >> /\ end \in Times /\ end \in Int
  BY <1>1, LoopsInArray
<1>3. timeseg[i].end \in Int
  BY <1>2, FirstAndLast, SegmentTimes
<1>4. end <= timeseg[i].end
  BY <1>1, <1>2, <1>3
<1>5. ASSUME from <= to
      PROVE  Sound' /\ \A k \in 1 .. Len(timeseg), t \in Times : Wanted(k, t) => Covered(k, t)'
  <2>1. /\ Sound /\ Printing /\ from <= start /\ end <= to
        /\ \A n \in 1 .. Len(out) : out[n].to < start
        /\ \A k \in 1 .. Len(timeseg), t \in Times : Wanted(k, t) => t <= end
    BY <1>1, <1>2, <1>5 DEF OutInv, Printing
  <2>2. Sound'
    BY <2>1, <1>1, <1>2, <1>4, RangeSound
  <2>3. \A k \in 1 .. Len(timeseg), t \in Times : Wanted(k, t) => Covered(k, t)'
    BY <2>1, <1>1, <1>2, <1>4, <1>5, RangeCoversAhead
  <2> QED BY <2>2, <2>3
<1> QED BY <1>1, <1>5 DEF OutInv, Printing, Wanted

LEMMA OutInvPrintAndGoOn ==
    ASSUME PlanInv, OutInv, PrintAndGoOn
    PROVE  OutInv'
<1> DEFINE last == timeseg[i].end
           next == timeseg[i + 1].start
<1>1. /\ pc = "output" /\ Looping /\ GoesBeyond /\ PrintRange(last) /\ last < end
      /\ UNCHANGED <<timeseg, cnt, from, to, end, flag>>
  BY DEF PrintAndGoOn, GoesBeyond, Looping
<1>2. /\ i \in 1 .. Len(timeseg) /\ i \in Int /\ IsDay /\ timeseg # << >>
      /\ Len(timeseg) \in 0 .. MaxSegs
      /\ start \in Int /\ end \in Int /\ from \in Int /\ to \in Int
  BY <1>1, LoopsInArray
<1>3. i + 1 \in 1 .. Len(timeseg)
  BY <1>1, GoesBeyondToNext
<1>4. last \in Times /\ last \in Int /\ next \in Times /\ next \in Int
  BY <1>2, <1>3, FirstAndLast, SegmentTimes
<1>5. last < next
  BY <1>2, <1>3 DEF IsDay
<1>6. ASSUME from <= to
      PROVE  /\ Sound' /\ from <= next /\ end <= to
             /\ \A n \in 1 .. Len(out') : out'[n].to < next
             /\ \A k \in 1 .. Len(timeseg), t \in Times :
                   Wanted(k, t) => t <= end /\ (t < next => Covered(k, t)')
  <2>1. /\ Sound /\ Printing /\ from <= start /\ end <= to
        /\ \A n \in 1 .. Len(out) : out[n].to < start
        /\ \A k \in 1 .. Len(timeseg), t \in Times : Wanted(k, t) => t <= end
    BY <1>1, <1>2, <1>6 DEF OutInv, Printing
  <2>2. last <= to
    BY <2>1, <1>1, <1>2, <1>4
  <2>3. Sound'
    BY <2>1, <2>2, <1>1, <1>4, RangeSound
  <2>4. start <= last
    <3>1. timeseg[i].start \in Int /\ timeseg[i].start <= last
      BY <1>2, FirstAndLast, SegmentTimes
    <3>2. IsPrinted(timeseg[i])
      BY <1>1 DEF GoesBeyond
    <3> QED BY <3>1, <3>2, <1>2, <1>4 DEF IsPrinted
  <2>5. from <= next
    BY <2>1, <2>4, <1>2, <1>4, <1>5
  <2>6. ASSUME NEW n \in 1 .. Len(out') PROVE out'[n].to < next
    <3>1. /\ Len(out) \in Nat /\ Len(out') = Len(out) + 1
          /\ \A q \in 1 .. Len(out) : out'[q] = out[q]
          /\ \E f : out'[Len(out) + 1] = [seg |-> i, from |-> f, to |-> last]
      BY <1>1, <1>4, RangeCovers
    <3>2. CASE n \in 1 .. Len(out)
      <4>1. out[n].to \in Int /\ out[n].to < start
        BY <3>2, <2>1, OutIsTyped DEF PlanInv
      <4>2. out[n].to < next
        BY <4>1, <2>4, <1>2, <1>4, <1>5
      <4> QED BY <4>2, <3>1, <3>2
    <3>3. CASE n = Len(out) + 1
      <4>1. out'[n].to = last
        BY <3>1, <3>3
      <4> QED BY <4>1, <1>5
    <3> QED BY <3>1, <3>2, <3>3
  <2>7. ASSUME NEW k \in 1 .. Len(timeseg), NEW t \in Times, Wanted(k, t), t < next
        PROVE  Covered(k, t)'
    <3>1. t \in Int /\ k \in Int
      BY DEF Times
    <3>2. k <= i
      <4> SUFFICES ASSUME i < k PROVE FALSE
        BY <1>2, <3>1
      <4>1. /\ timeseg[k].start \in Int /\ timeseg[k].end \in Int
            /\ timeseg[i + 1].end \in Int /\ next <= timeseg[i + 1].end
        BY <1>2, <1>3, FirstAndLast, SegmentTimes
      <4>2. next <= timeseg[k].start
        <5>1. CASE k = i + 1
          BY <5>1, <1>4
        <5>2. CASE i + 1 < k
          <6>1. timeseg[i + 1].end < timeseg[k].start
            BY <5>2, <1>2, <1>3 DEF IsDay
          <6> QED BY <6>1, <4>1, <1>4
        <5> QED BY <5>1, <5>2, <1>2, <3>1
      <4>3. timeseg[k].start <= t
        BY <2>7, <3>1, <4>1 DEF Wanted
      <4> QED BY <2>7, <3>1, <4>1, <4>2, <4>3, <1>4
    <3> QED BY <2>1, <2>7, <3>2, <1>1, <1>2, <1>4, <1>6, RangeCoversAhead
  <2> QED BY <2>1, <2>3, <2>5, <2>6, <2>7
<1>7. CASE next <= end
  <2>1. start' = next /\ i' = 1 /\ pc' = "output"
    BY <1>1, <1>2, <1>4, <1>7 DEF PrintAndGoOn
  <2>2. Printing'
    <3> SUFFICES ASSUME from <= to
                 PROVE  /\ from <= next /\ end <= to
                        /\ \A n \in 1 .. Len(out') : out'[n].to < next
                        /\ \A k \in 1 .. Len(timeseg), t \in Times :
                              Wanted(k, t) => t <= end /\ (t < next => Covered(k, t)')
                        /\ \A j \in 1 .. Len(timeseg) : ~(j < 1)
      BY <1>1, <2>1 DEF Printing, Wanted
    <3> QED BY <1>6
  <2> QED BY <2>1, <2>2, <1>1, <1>2, <1>6 DEF OutInv
<1>8. CASE next > end
  <2>1. pc' = "tmp"
    BY <1>1, <1>2, <1>4, <1>8 DEF PrintAndGoOn
  <2>2. ASSUME from <= to, NEW k \in 1 .. Len(timeseg), NEW t \in Times, Wanted(k, t)
        PROVE  Covered(k, t)'
    <3>1. t <= end /\ t \in Int
      BY <1>6, <2>2 DEF Times
    <3>2. t < next
      BY <3>1, <1>2, <1>4, <1>8
    <3> QED BY <3>2, <1>6, <2>2
  <2> QED BY <2>1, <2>2, <1>1, <1>6 DEF OutInv, Printing, Wanted
<1> QED BY <1>2, <1>4, <1>7, <1>8

LEMMA OutInvEnds ==
    ASSUME PlanInv, OutInv, OutputDone \/ SearchTmp \/ Free
    PROVE  OutInv'
<1>1. CASE OutputDone
  <2>1. /\ pc = "output" /\ pc' = "tmp" /\ ~Looping
        /\ UNCHANGED <<timeseg, cnt, from, to, start, end, flag, i, out>>
    BY <1>1 DEF OutputDone, plan
  <2>2. ASSUME from <= to, NEW k \in 1 .. Len(timeseg), NEW t \in Times, Wanted(k, t)
        PROVE  Covered(k, t)
    <3>1. /\ IsDay /\ Len(timeseg) \in 0 .. MaxSegs /\ timeseg # << >>
          /\ i \in Int /\ k \in Int /\ start \in Int /\ end \in Int /\ t \in Int
      BY TypeGivesDay, PlanAssumption DEF PlanInv, TypeOK, Times
    <3>2. k < i
      BY <2>1, <3>1, PlanAssumption DEF Looping, PlanInv, TypeOK
    <3>3. /\ t <= end /\ (t < start => Covered(k, t))
          /\ timeseg[k].end < start \/ end < timeseg[k].start
      BY <2>1, <2>2, <3>1, <3>2 DEF OutInv, Printing
    <3>4. timeseg[k].start \in Int /\ timeseg[k].end \in Int
      BY <3>1, FirstAndLast, SegmentTimes
    <3>5. t < start
      BY <2>2, <3>1, <3>3, <3>4 DEF Wanted
    <3> QED BY <3>3, <3>5
  <2> QED BY <2>1, <2>2 DEF OutInv, Printing, Sound, Wanted, Covered
<1>2. CASE SearchTmp
  BY <1>2 DEF SearchTmp, OutInv, Printing
<1>3. CASE Free
  BY <1>3 DEF Free, OutInv, Printing
<1> QED BY <1>1, <1>2, <1>3

LEMMA OutInvPreserved == PlanInv /\ OutInv /\ [Next]_vars => OutInv'
<1> SUFFICES ASSUME PlanInv, OutInv, [Next]_vars PROVE OutInv'
  OBVIOUS
<1>1. CASE (\E d \in Days : Fill(d)) \/ List \/ GetTime
  BY <1>1, OutInvPrompts
<1>2. CASE Plan
  BY <1>2, OutInvCheck, OutInvSkip, OutInvPrintLast, OutInvPrintAndGoOn, OutInvEnds DEF Plan
<1>3. CASE SearchTmp \/ Free
  BY <1>3, OutInvEnds
<1>4. CASE UNCHANGED vars
  BY <1>4 DEF vars, OutInv, Printing, Sound, Wanted, Covered
<1> QED BY <1>1, <1>2, <1>3, <1>4 DEF Next, Search

LEMMA OutInvAlways == Spec => []OutInv
BY OutInvInit, OutInvPreserved, PlanInvAlways, PTL DEF Spec

\* A search prints every second of the interval that lies in a sealed segment, once,
\* from that segment's file, and nothing else, in the order of time: however many
\* segments a day has, and whatever gaps are between them (output_search_video_info).
THEOREM IntervalIsPrinted == Spec => []PrintsInterval
<1>1. PlanInv /\ OutInv => PrintsInterval
  <2> SUFFICES ASSUME PlanInv, OutInv, pc = "tmp", from <= to PROVE PrintsInterval
    BY DEF PrintsInterval
  <2>1. /\ Sound /\ Len(out) \in Nat
        /\ \A n \in 1 .. Len(out) : out[n].from \in Int /\ out[n].to \in Int
        /\ IsDay /\ from \in Int /\ to \in Int
    BY OutIsTyped, TypeGivesDay DEF OutInv, PlanInv, TypeOK, Times
  <2>2. ASSUME NEW k \in 1 .. Len(timeseg), NEW t \in Times
        PROVE  Cardinality(Printed(k, t)) = IF Wanted(k, t) THEN 1 ELSE 0
    <3>1. t \in Int /\ timeseg[k].start \in Int /\ timeseg[k].end \in Int
      BY <2>1, FirstAndLast, SegmentTimes DEF Times
    <3>2. CASE Wanted(k, t)
      <4>1. PICK n \in 1 .. Len(out) : out[n].seg = k /\ t \in out[n].from .. out[n].to
        BY <3>2 DEF OutInv, Covered
      <4>2. ASSUME NEW m \in 1 .. Len(out), t \in out[m].from .. out[m].to
            PROVE  m = n
        <5>1. ~(n < m)
          BY <2>1, <3>1, <4>1, <4>2 DEF Sound
        <5>2. ~(m < n)
          BY <2>1, <3>1, <4>1, <4>2 DEF Sound
        <5> QED BY <5>1, <5>2, <2>1
      <4>3. Printed(k, t) = {n}
        BY <4>1, <4>2 DEF Printed
      <4> QED BY <3>2, <4>3, FS_Singleton
    <3>3. CASE ~Wanted(k, t)
      <4>1. ASSUME NEW n \in 1 .. Len(out), out[n].seg = k, t \in out[n].from .. out[n].to
            PROVE  Wanted(k, t)
        <5>1. /\ from <= out[n].from /\ timeseg[k].start <= out[n].from
              /\ out[n].to <= to /\ out[n].to <= timeseg[k].end
          BY <2>1, <4>1 DEF Sound
        <5> QED BY <5>1, <2>1, <3>1, <4>1 DEF Wanted
      <4>2. Printed(k, t) = {}
        BY <3>3, <4>1 DEF Printed
      <4> QED BY <3>3, <4>2, FS_EmptySet
    <3> QED BY <3>2, <3>3
  <2>3. \A n \in 1 .. Len(out) - 1 : out[n].to < out[n + 1].from
    <3> SUFFICES ASSUME NEW n \in 1 .. Len(out) - 1 PROVE out[n].to < out[n + 1].from
      OBVIOUS
    <3>1. n \in 1 .. Len(out) /\ n + 1 \in 1 .. Len(out) /\ n < n + 1
      BY <2>1
    <3> QED BY <2>1, <3>1 DEF Sound
  <2> QED BY <2>2, <2>3 DEF PrintsInterval, Wanted
<1> QED BY <1>1, PlanInvAlways, OutInvAlways, PTL

=============================================================================
