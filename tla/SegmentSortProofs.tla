------------------------- MODULE SegmentSortProofs -------------------------
(***************************************************************************)
(* The sort of SegmentSort sorts, for every number of segments and every   *)
(* order they are listed in, and loses none of them.                       *)
(***************************************************************************)
EXTENDS SegmentSort, TLAPS

\* Pending calls are for ranges from left to right, apart from each other.
CallsApart ==
    /\ \A p \in 1 .. Len(calls) : calls[p].left <= calls[p].right + 1
    /\ \A p, q \in 1 .. Len(calls) : p < q => calls[p].right < calls[q].left

\* Two elements are in order, or some pending call is for both of them.
Settled ==
    \A a, b \in Indices : a < b =>
        \/ timeseg[a].start <= timeseg[b].start
        \/ \E p \in 1 .. Len(calls) : calls[p].left <= a /\ b <= calls[p].right

\* What the running call has done: the pivot is at left, what i has passed is
\* not above it, and what j has passed is not below it.
Partitioned ==
    pc = "partition" =>
        /\ calls # << >>
        /\ Now.left <= i /\ i <= j /\ j <= Now.right
        /\ timeseg[Now.left] = tmp1
        /\ \A n \in Now.left .. i : timeseg[n].start <= tmp1.start
        /\ \A n \in j + 1 .. Now.right : timeseg[n].start >= tmp1.start

SortInv == TypeOK /\ CallsApart /\ Settled /\ Partitioned /\ NothingLostOrDoubled

-----------------------------------------------------------------------------
LEMMA OutsideRange ==
    ASSUME NEW low \in Int, NEW high \in Int, NEW n \in Int, ~(n \in low .. high)
    PROVE  n < low \/ high < n
OBVIOUS

LEMMA SegmentTimes ==
    ASSUME NEW s \in Segment
    PROVE  s.start \in Nat /\ s.end \in Nat
BY SortAssumption DEF Segment

\* What two writes that exchange two elements do to an array.
LEMMA ExchangedElements ==
    ASSUME TypeOK, NEW m \in Indices, NEW n \in Indices
    PROVE  LET new == Exchanged(timeseg, m, n)
           IN  /\ new \in [Indices -> Segment]
               /\ new[m] = timeseg[n] /\ new[n] = timeseg[m]
               /\ \A k \in Indices : k # m /\ k # n => new[k] = timeseg[k]
BY DEF TypeOK, Exchanged

LEMMA ExchangeLosesNothing ==
    ASSUME TypeOK, NothingLostOrDoubled, NEW m \in Indices, NEW n \in Indices
    PROVE  LET new == Exchanged(timeseg, m, n)
           IN  /\ Distinct(new)
               /\ {new[k] : k \in Indices} = {given[k] : k \in Indices}
<1> DEFINE new == Exchanged(timeseg, m, n)
<1>1. /\ new \in [Indices -> Segment]
      /\ new[m] = timeseg[n] /\ new[n] = timeseg[m]
      /\ \A k \in Indices : k # m /\ k # n => new[k] = timeseg[k]
  BY ExchangedElements
<1> HIDE DEF new
<1>2. Distinct(new)
  BY <1>1 DEF Distinct, NothingLostOrDoubled
<1>3. \A k \in Indices : \E h \in Indices : new[k] = timeseg[h]
  BY <1>1
<1>4. \A k \in Indices : \E h \in Indices : timeseg[k] = new[h]
  BY <1>1
<1>5. {new[k] : k \in Indices} = {timeseg[k] : k \in Indices}
  BY <1>3, <1>4
<1> QED
  BY <1>2, <1>5 DEF new, NothingLostOrDoubled

\* NothingLostOrDoubled is about cnt, given and the array alone.
LEMMA SameArrayLosesNothing ==
    ASSUME NothingLostOrDoubled, UNCHANGED <<given, cnt, timeseg>>
    PROVE  NothingLostOrDoubled'
<1>1. Indices' = Indices /\ timeseg' = timeseg /\ given' = given
  BY DEF Indices
<1>2. Distinct(timeseg)'
  BY <1>1 DEF NothingLostOrDoubled, Distinct
<1>3. /\ {timeseg'[n] : n \in Indices'} = {timeseg[n] : n \in Indices}
      /\ {given'[n] : n \in Indices'} = {given[n] : n \in Indices}
  BY <1>1, Zenon
<1> QED
  BY <1>2, <1>3, Zenon DEF NothingLostOrDoubled

LEMMA ExchangedArrayLosesNothing ==
    ASSUME TypeOK, NothingLostOrDoubled, UNCHANGED <<given, cnt>>,
           NEW m \in Indices, NEW n \in Indices,
           timeseg' = Exchanged(timeseg, m, n)
    PROVE  NothingLostOrDoubled'
<1>1. Indices' = Indices /\ given' = given
  BY DEF Indices
<1>2. /\ Distinct(timeseg')
      /\ {timeseg'[k] : k \in Indices} = {given[k] : k \in Indices}
  BY ExchangeLosesNothing
<1>3. Distinct(timeseg)'
  BY <1>1, <1>2 DEF Distinct
<1>4. /\ {timeseg'[k] : k \in Indices'} = {timeseg'[k] : k \in Indices}
      /\ {given'[k] : k \in Indices'} = {given[k] : k \in Indices}
  BY <1>1, Zenon
<1> QED
  BY <1>2, <1>3, <1>4, Zenon DEF NothingLostOrDoubled

-----------------------------------------------------------------------------
LEMMA InitSortInv == Init => SortInv
<1> SUFFICES ASSUME Init PROVE SortInv
  OBVIOUS
<1> USE DEF Init, Indices, Bounds
<1>1. TypeOK
  <2>1. cnt \in Nat \ {0}
    BY SortAssumption
  <2>2. 0 \in Indices /\ given[0] \in Segment
    BY <2>1
  <2>3. [left |-> 0, right |-> cnt - 1] \in Bounds
    BY <2>1
  <2> QED
    BY <2>1, <2>2, <2>3 DEF TypeOK
<1>2. Len(calls) = 1 /\ calls[1] = [left |-> 0, right |-> cnt - 1]
  OBVIOUS
<1>3. CallsApart
  BY <1>1, <1>2 DEF CallsApart, TypeOK
<1>4. Settled
  BY <1>1, <1>2 DEF Settled, TypeOK
<1>5. NothingLostOrDoubled
  BY DEF NothingLostOrDoubled
<1> QED
  BY <1>1, <1>3, <1>4, <1>5 DEF SortInv, Partitioned

\* The call at the head is within the array.
LEMMA NowInBounds ==
    ASSUME TypeOK, calls # << >>
    PROVE  /\ Len(calls) \in Nat \ {0} /\ cnt \in Nat \ {0}
           /\ Now \in Bounds /\ Now.left \in 0 .. cnt /\ Now.right \in -1 .. cnt - 1
           /\ Tail(calls) \in Seq(Bounds) /\ Len(Tail(calls)) = Len(calls) - 1
           /\ \A p \in 1 .. Len(Tail(calls)) : Tail(calls)[p] = calls[p + 1]
           /\ \A p \in 1 .. Len(calls) : /\ calls[p].left \in 0 .. cnt
                                         /\ calls[p].right \in -1 .. cnt - 1
<1>1. calls \in Seq(Bounds) /\ cnt \in Nat \ {0}
  BY SortAssumption DEF TypeOK
<1>2. Len(calls) \in Nat \ {0}
  BY <1>1
<1>3. Now \in Bounds
  BY <1>1, <1>2 DEF Now
<1>4. \A p \in 1 .. Len(calls) : calls[p] \in Bounds
  BY <1>1
<1> QED
  BY <1>1, <1>2, <1>3, <1>4 DEF Bounds

LEMMA ReturnSortInv == SortInv /\ Return => SortInv'
<1> SUFFICES ASSUME SortInv, Return PROVE SortInv'
  OBVIOUS
<1>0. TypeOK /\ CallsApart /\ Settled /\ NothingLostOrDoubled
  BY DEF SortInv
<1>1. /\ calls # << >> /\ pc' = "call" /\ pc = "call"
      /\ calls' = Tail(calls) /\ Now.left > Now.right
      /\ UNCHANGED <<given, cnt, timeseg, i, j, tmp1, pc>>
  BY DEF Return
<1>2. /\ Len(calls) \in Nat \ {0} /\ cnt \in Nat \ {0}
      /\ Now.left \in 0 .. cnt /\ Now.right \in -1 .. cnt - 1
      /\ calls' \in Seq(Bounds) /\ Len(calls') = Len(calls) - 1
      /\ \A p \in 1 .. Len(calls') : calls'[p] = calls[p + 1]
  BY <1>0, <1>1, NowInBounds
<1>3. TypeOK'
  BY <1>0, <1>1, <1>2 DEF TypeOK, Indices, Bounds, Distinct
<1>4. CallsApart'
  BY <1>0, <1>1, <1>2 DEF CallsApart
<1>5. Settled'
  <2> SUFFICES ASSUME NEW a \in Indices, NEW b \in Indices, a < b,
                      ~(timeseg[a].start <= timeseg[b].start)
               PROVE  \E p \in 1 .. Len(calls') :
                         calls'[p].left <= a /\ b <= calls'[p].right
    BY <1>1 DEF Settled, Indices
  <2>1. PICK p \in 1 .. Len(calls) : calls[p].left <= a /\ b <= calls[p].right
    BY <1>0 DEF Settled
  <2>2. a \in Int /\ b \in Int
    BY <1>2 DEF Indices
  <2>3. p # 1
    BY <1>1, <1>2, <2>1, <2>2 DEF Now
  <2>4. p - 1 \in 1 .. Len(calls') /\ calls'[p - 1] = calls[p]
    BY <1>2, <2>1, <2>3
  <2> QED
    BY <2>1, <2>4
<1>6. NothingLostOrDoubled'
  BY <1>0, <1>1, SameArrayLosesNothing
<1>7. Partitioned'
  BY <1>1 DEF Partitioned
<1> QED
  BY <1>3, <1>4, <1>5, <1>6, <1>7 DEF SortInv

LEMMA BeginSortInv == SortInv /\ Begin => SortInv'
<1> SUFFICES ASSUME SortInv, Begin PROVE SortInv'
  OBVIOUS
<1>0. TypeOK /\ CallsApart /\ Settled /\ NothingLostOrDoubled
  BY DEF SortInv
<1>1. /\ calls # << >> /\ Now.left <= Now.right
      /\ i' = Now.left /\ j' = Now.right /\ tmp1' = timeseg[Now.left]
      /\ pc' = "partition"
      /\ UNCHANGED <<given, cnt, timeseg, calls>>
  BY DEF Begin
<1>2. /\ cnt \in Nat \ {0}
      /\ Now.left \in 0 .. cnt /\ Now.right \in -1 .. cnt - 1
  BY <1>0, <1>1, NowInBounds
<1>3. Now.left \in Indices /\ Now.right \in Indices
  BY <1>1, <1>2 DEF Indices
<1>4. TypeOK'
  BY <1>0, <1>1, <1>3 DEF TypeOK, Indices, Bounds, Distinct
<1>5. CallsApart' /\ Settled' /\ NothingLostOrDoubled'
  <2>1. CallsApart'
    BY <1>0, <1>1 DEF CallsApart
  <2>2. Settled'
    BY <1>0, <1>1 DEF Settled, Indices
  <2> QED
    BY <1>0, <1>1, <2>1, <2>2, SameArrayLosesNothing
<1>6. Partitioned'
  <2>1. timeseg[Now.left].start \in Nat
    BY <1>0, <1>3, SegmentTimes DEF TypeOK
  <2>2. Now' = Now /\ timeseg' = timeseg
    BY <1>1 DEF Now
  <2> QED
    BY <1>1, <1>2, <2>1, <2>2 DEF Partitioned
<1> QED
  BY <1>4, <1>5, <1>6 DEF SortInv

\* Rearranging elements between the ends of the head call unsettles none:
\* another call for an element in there and one outside would meet the head's.
LEMMA RearrangeSettles ==
    ASSUME TypeOK, CallsApart, Settled, calls # << >>,
           Now.left <= Now.right,
           NEW new \in [Indices -> Segment],
           \A k \in Indices : ~(k \in Now.left .. Now.right) => new[k] = timeseg[k],
           \A k \in Now.left .. Now.right :
               \E h \in Now.left .. Now.right : new[k] = timeseg[h]
    PROVE  \A a, b \in Indices :
               a < b /\ ~(a \in Now.left .. Now.right /\ b \in Now.left .. Now.right)
                 => \/ new[a].start <= new[b].start
                    \/ \E p \in 2 .. Len(calls) :
                          calls[p].left <= a /\ b <= calls[p].right
<1> SUFFICES ASSUME NEW a \in Indices, NEW b \in Indices, a < b,
                    ~(a \in Now.left .. Now.right /\ b \in Now.left .. Now.right),
                    ~(new[a].start <= new[b].start)
             PROVE  \E p \in 2 .. Len(calls) :
                       calls[p].left <= a /\ b <= calls[p].right
  OBVIOUS
<1>1. /\ Len(calls) \in Nat \ {0} /\ cnt \in Nat \ {0}
      /\ Now.left \in 0 .. cnt /\ Now.right \in -1 .. cnt - 1
  BY NowInBounds
<1>2. a \in Int /\ b \in Int
  BY <1>1 DEF Indices
<1>b. Now.left \in Int /\ Now.right \in Int
  BY <1>1
<1>3. \A p \in 2 .. Len(calls) : Now.right < calls[p].left
  BY <1>1 DEF CallsApart, Now
<1>4. \A p \in 2 .. Len(calls) : calls[p].left \in Int /\ calls[p].right \in Int
  BY <1>1, NowInBounds
<1>a. Now.left .. Now.right \subseteq Indices
  BY <1>1 DEF Indices
<1>5. CASE a \in Now.left .. Now.right
  <2>1. PICK h \in Now.left .. Now.right : new[a] = timeseg[h]
    BY <1>5
  <2>0. /\ h \in Int /\ h \in Indices /\ h <= Now.right
        /\ Now.left <= a /\ a <= Now.right
    BY <1>1, <1>2, <1>5, <1>a
  <2>6. ~(b \in Now.left .. Now.right)
    BY <1>5
  <2>7. b < Now.left \/ Now.right < b
    BY <1>b, <1>2, <2>6, OutsideRange, Zenon
  <2>4. b > Now.right
    BY <1>1, <1>2, <2>0, <2>7
  <2>2. h < b /\ new[b] = timeseg[b] /\ h \in Indices
    <3>1. new[b] = timeseg[b]
      BY <2>6, Zenon
    <3> QED
      BY <1>1, <1>2, <2>0, <2>4, <3>1
  <2>3. PICK p \in 1 .. Len(calls) : calls[p].left <= h /\ b <= calls[p].right
    BY <2>1, <2>2 DEF Settled
  <2>5. p # 1
    BY <1>1, <1>2, <2>3, <2>4 DEF Now
  <2> QED
    BY <1>1, <1>3, <1>4, <2>0, <2>3, <2>4, <2>5
<1>6. CASE ~(a \in Now.left .. Now.right) /\ b \in Now.left .. Now.right
  <2>1. PICK h \in Now.left .. Now.right : new[b] = timeseg[h]
    BY <1>6
  <2>0. /\ h \in Int /\ h \in Indices /\ Now.left <= h
        /\ Now.left <= b /\ b <= Now.right
    BY <1>1, <1>2, <1>6, <1>a
  <2>5. ~(a \in Now.left .. Now.right) /\ new[a] = timeseg[a]
    BY <1>6, Zenon
  <2>7. a < Now.left \/ Now.right < a
    BY <1>b, <1>2, <2>5, OutsideRange, Zenon
  <2>6. a < Now.left
    BY <1>1, <1>2, <2>0, <2>7
  <2>2. a < Now.left /\ a < h /\ new[a] = timeseg[a] /\ h \in Indices
    BY <1>1, <1>2, <2>0, <2>5, <2>6
  <2>3. PICK p \in 1 .. Len(calls) : calls[p].left <= a /\ h <= calls[p].right
    BY <2>1, <2>2 DEF Settled
  <2>4. p # 1
    BY <1>1, <1>2, <2>2, <2>3 DEF Now
  <2>8. p \in 2 .. Len(calls)
    BY <1>1, <2>4
  <2>9. Now.right < calls[p].left /\ calls[p].left <= a /\ calls[p].left \in Int
    BY <1>3, <1>4, <2>3, <2>8
  <2>11. Now.right < a
    BY <1>2, <1>b, <2>9
  <2>12. FALSE
    BY <1>2, <1>b, <2>0, <2>6, <2>11
  <2> QED
    BY <2>12
<1>7. CASE ~(a \in Now.left .. Now.right) /\ ~(b \in Now.left .. Now.right)
  <2>1. new[a] = timeseg[a] /\ new[b] = timeseg[b]
    BY <1>7, Zenon
  <2>2. PICK p \in 1 .. Len(calls) : calls[p].left <= a /\ b <= calls[p].right
    BY <2>1 DEF Settled
  <2>3. p # 1
    BY <1>1, <1>2, <1>7, <2>2 DEF Now
  <2> QED
    BY <1>1, <2>2, <2>3
<1> QED
  BY <1>5, <1>6, <1>7

LEMMA PartitionSortInv == SortInv /\ Partition => SortInv'
<1> SUFFICES ASSUME SortInv, Partition PROVE SortInv'
  OBVIOUS
<1>0. TypeOK /\ CallsApart /\ Settled /\ NothingLostOrDoubled /\ Partitioned
  BY DEF SortInv
<1>1. /\ pc = "partition" /\ i # j
      /\ UNCHANGED <<given, cnt, calls, tmp1, pc>>
  BY DEF Partition
<1>2. PICK down \in i .. j : \E up \in i .. down :
          /\ StopsDownAt(down) /\ StopsUpAt(up, down)
          /\ i' = up /\ j' = down
          /\ timeseg' = Exchanged(timeseg, up, down)
  BY DEF Partition
<1>3. PICK up \in i .. down :
          /\ StopsDownAt(down) /\ StopsUpAt(up, down)
          /\ i' = up /\ j' = down
          /\ timeseg' = Exchanged(timeseg, up, down)
  BY <1>2
<1>4. /\ calls # << >> /\ Now.left <= i /\ i <= j /\ j <= Now.right
      /\ timeseg[Now.left] = tmp1
      /\ \A n \in Now.left .. i : timeseg[n].start <= tmp1.start
      /\ \A n \in j + 1 .. Now.right : timeseg[n].start >= tmp1.start
  BY <1>0, <1>1 DEF Partitioned
<1>5. /\ Len(calls) \in Nat \ {0} /\ cnt \in Nat \ {0}
      /\ Now.left \in 0 .. cnt /\ Now.right \in -1 .. cnt - 1
  BY <1>0, <1>4, NowInBounds
<1>6. /\ i \in Indices /\ j \in Indices /\ up \in Indices /\ down \in Indices
      /\ i \in Int /\ j \in Int /\ up \in Int /\ down \in Int
      /\ i <= up /\ up <= down /\ down <= j
  BY <1>0, <1>2, <1>3, <1>5 DEF TypeOK, Indices
<1>7. /\ timeseg' \in [Indices -> Segment]
      /\ timeseg'[up] = timeseg[down] /\ timeseg'[down] = timeseg[up]
      /\ \A k \in Indices : k # up /\ k # down => timeseg'[k] = timeseg[k]
  BY <1>0, <1>3, <1>6, ExchangedElements
<1>8. \A k \in Indices : timeseg[k].start \in Nat /\ timeseg'[k].start \in Nat
  BY <1>0, <1>7, SegmentTimes DEF TypeOK
<1>9. tmp1.start \in Nat
  BY <1>0, SegmentTimes DEF TypeOK
<1>10. Now' = Now /\ Indices' = Indices
  BY <1>1 DEF Now, Indices
<1>11. TypeOK'
  BY <1>0, <1>1, <1>3, <1>6, <1>7, <1>10 DEF TypeOK, Distinct, Bounds
<1>12. CallsApart'
  BY <1>0, <1>1 DEF CallsApart
<1>13. NothingLostOrDoubled'
  BY <1>0, <1>1, <1>3, <1>6, ExchangedArrayLosesNothing
<1>a. Now.left .. Now.right \subseteq Indices
  BY <1>5 DEF Indices
<1>14. Settled'
  <2>0. up \in Now.left .. Now.right /\ down \in Now.left .. Now.right
    BY <1>4, <1>5, <1>6
  <2>1. \A k \in Indices : ~(k \in Now.left .. Now.right) => timeseg'[k] = timeseg[k]
    BY <1>7, <2>0, Zenon
  <2>2. \A k \in Now.left .. Now.right :
            \E h \in Now.left .. Now.right : timeseg'[k] = timeseg[h]
    BY <2>0, <1>7, <1>a
  <2>3. Now.left <= Now.right
    BY <1>4, <1>5, <1>6
  <2>4. \A a, b \in Indices :
            a < b /\ ~(a \in Now.left .. Now.right /\ b \in Now.left .. Now.right)
              => \/ timeseg'[a].start <= timeseg'[b].start
                 \/ \E p \in 2 .. Len(calls) :
                       calls[p].left <= a /\ b <= calls[p].right
    BY <1>0, <1>4, <1>7, <2>1, <2>2, <2>3, RearrangeSettles
  <2> SUFFICES ASSUME NEW a \in Indices, NEW b \in Indices, a < b
               PROVE  \/ timeseg'[a].start <= timeseg'[b].start
                      \/ \E p \in 1 .. Len(calls) :
                            calls[p].left <= a /\ b <= calls[p].right
    BY <1>1, <1>10 DEF Settled
  <2>5. CASE a \in Now.left .. Now.right /\ b \in Now.left .. Now.right
    BY <2>5, <1>5 DEF Now
  <2>6. CASE ~(a \in Now.left .. Now.right /\ b \in Now.left .. Now.right)
    BY <2>4, <2>6, <1>5
  <2> QED
    BY <2>5, <2>6
<1>15. Partitioned'
  <2>1. /\ down = i \/ timeseg[down].start < tmp1.start
        /\ \A n \in down + 1 .. j : timeseg[n].start >= tmp1.start
        /\ up = down \/ timeseg[up].start > tmp1.start
        /\ \A n \in i .. up - 1 : timeseg[n].start <= tmp1.start
    BY <1>3 DEF StopsDownAt, StopsUpAt
  <2>2. timeseg[i].start <= tmp1.start
    BY <1>4, <1>5, <1>6
  <2>3. timeseg[down].start <= tmp1.start
    BY <2>1, <2>2, <1>8, <1>9, <1>6
  <2>4. timeseg'[up].start <= tmp1.start
    BY <1>7, <2>3
  <2>5. timeseg'[Now.left] = tmp1
    <3>1. CASE up = down
      BY <3>1, <1>4, <1>7, <1>5, <1>6, <1>a
    <3>2. CASE up # down
      <4>1. timeseg[up].start > tmp1.start
        BY <2>1, <3>2
      <4>2. up # Now.left /\ Now.left \in Indices
        BY <4>1, <1>4, <1>9, <1>5, <1>6, <1>a
      <4>3. down # Now.left
        BY <3>2, <4>2, <1>4, <1>5, <1>6
      <4> QED
        BY <4>2, <4>3, <1>4, <1>7
    <3> QED
      BY <3>1, <3>2
  <2>6. \A n \in Now.left .. up : timeseg'[n].start <= tmp1.start
    <3> SUFFICES ASSUME NEW n \in Now.left .. up, n # up
                 PROVE  timeseg'[n].start <= tmp1.start
      BY <2>4
    <3>1. n \in Indices /\ n # down /\ timeseg'[n] = timeseg[n]
      BY <1>4, <1>5, <1>6, <1>7, <1>a
    <3>2. n \in Now.left .. i \/ n \in i .. up - 1
      BY <1>5, <1>6
    <3> QED
      BY <3>1, <3>2, <2>1, <1>4
  <2>7. \A n \in down + 1 .. Now.right : timeseg'[n].start >= tmp1.start
    <3> SUFFICES ASSUME NEW n \in down + 1 .. Now.right
                 PROVE  timeseg'[n].start >= tmp1.start
      OBVIOUS
    <3>1. n \in Indices /\ n # down /\ n # up /\ timeseg'[n] = timeseg[n]
      BY <1>4, <1>5, <1>6, <1>7, <1>a
    <3>2. n \in down + 1 .. j \/ n \in j + 1 .. Now.right
      BY <1>5, <1>6
    <3> QED
      BY <3>1, <3>2, <2>1, <1>4
  <2>8. Now.left <= up /\ up <= down /\ down <= Now.right
    BY <1>4, <1>5, <1>6
  <2> QED
    BY <1>1, <1>3, <1>4, <1>10, <2>5, <2>6, <2>7, <2>8 DEF Partitioned
<1> QED
  BY <1>11, <1>12, <1>13, <1>14, <1>15 DEF SortInv

LEMMA PlaceSortInv == SortInv /\ Place => SortInv'
<1> SUFFICES ASSUME SortInv, Place PROVE SortInv'
  OBVIOUS
<1> DEFINE lower  == [left |-> Now.left, right |-> i - 1]
           higher == [left |-> i + 1, right |-> Now.right]
<1>0. TypeOK /\ CallsApart /\ Settled /\ NothingLostOrDoubled /\ Partitioned
  BY DEF SortInv
<1>1. /\ pc = "partition" /\ i = j /\ pc' = "call"
      /\ timeseg' = [timeseg EXCEPT ![Now.left] = timeseg[i], ![i] = tmp1]
      /\ calls' = <<lower, higher>> \o Tail(calls)
      /\ UNCHANGED <<given, cnt, i, j, tmp1>>
  BY DEF Place
<1>2. /\ calls # << >> /\ Now.left <= i /\ i <= Now.right
      /\ timeseg[Now.left] = tmp1
      /\ \A n \in Now.left .. i : timeseg[n].start <= tmp1.start
      /\ \A n \in i + 1 .. Now.right : timeseg[n].start >= tmp1.start
  BY <1>0, <1>1 DEF Partitioned
<1>3. /\ Len(calls) \in Nat \ {0} /\ cnt \in Nat \ {0}
      /\ Now.left \in 0 .. cnt /\ Now.right \in -1 .. cnt - 1
      /\ Tail(calls) \in Seq(Bounds) /\ Len(Tail(calls)) = Len(calls) - 1
      /\ \A p \in 1 .. Len(Tail(calls)) : Tail(calls)[p] = calls[p + 1]
  BY <1>0, <1>2, NowInBounds
<1>4. i \in Indices /\ i \in Int /\ Now.left \in Indices
  BY <1>0, <1>2, <1>3 DEF TypeOK, Indices
<1>5. timeseg' = Exchanged(timeseg, Now.left, i)
  BY <1>1, <1>2 DEF Exchanged
<1>6. /\ timeseg' \in [Indices -> Segment]
      /\ timeseg'[Now.left] = timeseg[i] /\ timeseg'[i] = timeseg[Now.left]
      /\ \A k \in Indices : k # Now.left /\ k # i => timeseg'[k] = timeseg[k]
  BY <1>0, <1>4, <1>5, ExchangedElements
<1>7. lower \in Bounds /\ higher \in Bounds
  BY <1>2, <1>3, <1>4 DEF Bounds, Indices
<1>8. /\ calls' \in Seq(Bounds) /\ Len(calls') = Len(calls) + 1
      /\ calls'[1] = lower /\ calls'[2] = higher
      /\ \A p \in 3 .. Len(calls') : calls'[p] = calls[p - 1]
  <2> HIDE DEF lower, higher
  <2>1. /\ calls' \in Seq(Bounds) /\ Len(calls') = 2 + Len(Tail(calls))
        /\ calls'[1] = lower /\ calls'[2] = higher
        /\ \A p \in 3 .. Len(calls') : calls'[p] = Tail(calls)[p - 2]
    BY <1>1, <1>3, <1>7
  <2> QED
    BY <2>1, <1>3
<1>9. \A k \in Indices : timeseg[k].start \in Nat /\ timeseg'[k].start \in Nat
  BY <1>0, <1>6, SegmentTimes DEF TypeOK
<1>10. tmp1.start \in Nat
  BY <1>0, SegmentTimes DEF TypeOK
<1>11. Indices' = Indices
  BY <1>1 DEF Indices
<1>12. TypeOK'
  <2>1. Bounds' = Bounds /\ calls' \in Seq(Bounds)
    BY <1>1, <1>8 DEF Bounds
  <2>2. given' = given /\ cnt' = cnt /\ i' = i /\ j' = j /\ tmp1' = tmp1
    BY <1>1
  <2>3. Distinct(given)'
    BY <1>0, <2>2, <1>11 DEF TypeOK, Distinct
  <2> QED
    BY <1>0, <1>1, <1>6, <1>11, <2>1, <2>2, <2>3 DEF TypeOK
<1>13. CallsApart'
  <2>1. \A p \in 2 .. Len(calls) : Now.right < calls[p].left /\ calls[p].left \in Int
    BY <1>0, <1>2, <1>3, NowInBounds DEF CallsApart, Now
  <2>2. \A p \in 1 .. Len(calls') : calls'[p].left <= calls'[p].right + 1
    <3> SUFFICES ASSUME NEW p \in 1 .. Len(calls')
                 PROVE  calls'[p].left <= calls'[p].right + 1
      OBVIOUS
    <3>1. CASE p = 1
      BY <3>1, <1>8, <1>2, <1>3, <1>4
    <3>2. CASE p = 2
      BY <3>2, <1>8, <1>2, <1>3, <1>4
    <3>3. CASE p \in 3 .. Len(calls')
      BY <3>3, <1>0, <1>3, <1>8 DEF CallsApart
    <3> QED
      BY <3>1, <3>2, <3>3, <1>3, <1>8
  <2>3. \A p, q \in 1 .. Len(calls') : p < q => calls'[p].right < calls'[q].left
    <3> SUFFICES ASSUME NEW p \in 1 .. Len(calls'), NEW q \in 1 .. Len(calls'), p < q
                 PROVE  calls'[p].right < calls'[q].left
      OBVIOUS
    <3>1. CASE p = 1 /\ q = 2
      BY <3>1, <1>8, <1>4
    <3>2. CASE p \in {1, 2} /\ q \in 3 .. Len(calls')
      <4>1. calls'[q] = calls[q - 1] /\ q - 1 \in 2 .. Len(calls)
        BY <3>2, <1>3, <1>8
      <4>2. calls'[p].right <= Now.right /\ calls'[p].right \in Int
        BY <3>2, <1>8, <1>2, <1>3, <1>4
      <4> QED
        BY <4>1, <4>2, <2>1, <1>3
    <3>3. CASE p \in 3 .. Len(calls') /\ q \in 3 .. Len(calls')
      <4>1. /\ calls'[p] = calls[p - 1] /\ p - 1 \in 1 .. Len(calls)
            /\ calls'[q] = calls[q - 1] /\ q - 1 \in 1 .. Len(calls)
            /\ p - 1 < q - 1
        BY <3>3, <1>3, <1>8
      <4> QED
        BY <4>1, <1>0 DEF CallsApart
    <3> QED
      BY <3>1, <3>2, <3>3, <1>3, <1>8
  <2> QED
    BY <2>2, <2>3 DEF CallsApart
<1>14. NothingLostOrDoubled'
  BY <1>0, <1>1, <1>4, <1>5, ExchangedArrayLosesNothing
<1>a. Now.left .. Now.right \subseteq Indices
  BY <1>3 DEF Indices
<1>15. Settled'
  <2>0. Now.left \in Now.left .. Now.right /\ i \in Now.left .. Now.right
    BY <1>2, <1>3, <1>4
  <2>1. \A k \in Indices : ~(k \in Now.left .. Now.right) => timeseg'[k] = timeseg[k]
    BY <1>6, <2>0, Zenon
  <2>2. \A k \in Now.left .. Now.right :
            \E h \in Now.left .. Now.right : timeseg'[k] = timeseg[h]
    BY <2>0, <1>6, <1>a
  <2>3. Now.left <= Now.right
    BY <1>2, <1>3, <1>4
  <2>4. \A a, b \in Indices :
            a < b /\ ~(a \in Now.left .. Now.right /\ b \in Now.left .. Now.right)
              => \/ timeseg'[a].start <= timeseg'[b].start
                 \/ \E p \in 2 .. Len(calls) :
                       calls[p].left <= a /\ b <= calls[p].right
    BY <1>0, <1>2, <1>6, <2>1, <2>2, <2>3, RearrangeSettles
  <2> SUFFICES ASSUME NEW a \in Indices, NEW b \in Indices, a < b
               PROVE  \/ timeseg'[a].start <= timeseg'[b].start
                      \/ \E p \in 1 .. Len(calls') :
                            calls'[p].left <= a /\ b <= calls'[p].right
    BY <1>11 DEF Settled
  <2>a. a \in Int /\ b \in Int
    BY <1>3 DEF Indices
  <2>5. CASE ~(a \in Now.left .. Now.right /\ b \in Now.left .. Now.right)
    <3>1. CASE timeseg'[a].start <= timeseg'[b].start
      BY <3>1
    <3>2. CASE \E p \in 2 .. Len(calls) : calls[p].left <= a /\ b <= calls[p].right
      <4>1. PICK p \in 2 .. Len(calls) : calls[p].left <= a /\ b <= calls[p].right
        BY <3>2
      <4>2. p + 1 \in 3 .. Len(calls') /\ calls'[p + 1] = calls[p]
        BY <1>3, <1>8
      <4>3. p + 1 \in 1 .. Len(calls')
        BY <4>2
      <4> QED
        BY <4>1, <4>2, <4>3
    <3> QED
      BY <2>4, <2>5, <3>1, <3>2
  <2>6. CASE a \in Now.left .. Now.right /\ b \in Now.left .. Now.right
    <3>1. timeseg'[i] = tmp1 /\ \A n \in Now.left .. i : timeseg'[n].start <= tmp1.start
      <4>1. timeseg'[i] = tmp1
        BY <1>2, <1>6
      <4> SUFFICES ASSUME NEW n \in Now.left .. i
                   PROVE  timeseg'[n].start <= tmp1.start
        BY <4>1
      <4>2. n \in Indices /\ i \in Now.left .. i
        BY <1>a, <1>2, <1>3, <1>4
      <4>3. CASE n = i
        BY <4>1, <4>3, <1>10
      <4>4. CASE n # i /\ n = Now.left
        BY <4>2, <4>4, <1>2, <1>6
      <4>5. CASE n # i /\ n # Now.left
        BY <4>2, <4>5, <1>2, <1>6
      <4> QED
        BY <4>3, <4>4, <4>5
    <3>2. \A n \in i + 1 .. Now.right : timeseg'[n].start >= tmp1.start
      <4> SUFFICES ASSUME NEW n \in i + 1 .. Now.right
                   PROVE  timeseg'[n].start >= tmp1.start
        OBVIOUS
      <4>1. n \in Indices /\ n # i /\ n # Now.left
        BY <1>2, <1>3, <1>4, <1>a
      <4> QED
        BY <4>1, <1>2, <1>6
    <3>3. CASE b < i
      BY <3>3, <2>6, <1>3, <1>4, <1>8, <2>a
    <3>4. CASE a > i
      BY <3>4, <2>6, <1>3, <1>4, <1>8, <2>a
    <3>5. CASE a <= i /\ b >= i
      <4>1. a \in Now.left .. i /\ timeseg'[a].start <= tmp1.start
        BY <3>5, <3>1, <2>6, <2>a, <1>3, <1>4
      <4>2. timeseg'[b].start >= tmp1.start
        BY <3>5, <3>1, <3>2, <2>6, <2>a, <1>3, <1>4, <1>10
      <4> QED
        BY <4>1, <4>2, <1>9, <1>10
    <3> QED
      BY <3>3, <3>4, <3>5, <1>4, <2>a
  <2> QED
    BY <2>5, <2>6
<1>16. Partitioned'
  BY <1>1 DEF Partitioned
<1> QED
  BY <1>12, <1>13, <1>14, <1>15, <1>16 DEF SortInv

\* The invariant is kept by every step of the sort.
THEOREM SortInvariant == Spec => []SortInv
<1>1. Init => SortInv
  BY InitSortInv
<1>2. SortInv /\ [Next]_vars => SortInv'
  <2> SUFFICES ASSUME SortInv, [Next]_vars PROVE SortInv'
    OBVIOUS
  <2>1. CASE Return
    BY <2>1, ReturnSortInv
  <2>2. CASE Begin
    BY <2>2, BeginSortInv
  <2>3. CASE Partition
    BY <2>3, PartitionSortInv
  <2>4. CASE Place
    BY <2>4, PlaceSortInv
  <2>5. CASE UNCHANGED vars
    <3>1. UNCHANGED <<given, cnt, timeseg, calls, i, j, tmp1, pc>>
      BY <2>5 DEF vars
    <3>2. TypeOK'
      BY <3>1 DEF SortInv, TypeOK, Distinct, Indices, Bounds
    <3>3. CallsApart'
      BY <3>1 DEF SortInv, CallsApart
    <3>4. Settled'
      BY <3>1 DEF SortInv, Settled, Indices
    <3>5. Partitioned'
      BY <3>1 DEF SortInv, Partitioned, Now
    <3>6. NothingLostOrDoubled'
      BY <3>1, SameArrayLosesNothing DEF SortInv
    <3> QED
      BY <3>2, <3>3, <3>4, <3>5, <3>6 DEF SortInv
  <2> QED
    BY <2>1, <2>2, <2>3, <2>4, <2>5 DEF Next
<1> QED
  BY <1>1, <1>2, PTL DEF Spec

\* sort_video_timeseg_array sorts: when no call is left, no pair is unsettled.
THEOREM SortSorts == Spec => []SortedAtEnd
<1>1. SortInv => SortedAtEnd
  <2> SUFFICES ASSUME SortInv, calls = << >> PROVE Sorted(timeseg)
    BY DEF SortedAtEnd
  <2>1. 1 .. Len(calls) = {}
    OBVIOUS
  <2> QED
    BY <2>1 DEF SortInv, Settled, Sorted
<1> QED
  BY <1>1, SortInvariant, PTL

\* It keeps every segment, at every step.
THEOREM SortLosesNothing == Spec => []NothingLostOrDoubled
<1>1. SortInv => NothingLostOrDoubled
  BY DEF SortInv
<1> QED
  BY <1>1, SortInvariant, PTL

\* Every index and every pending call stays within the array: the scans stop where i
\* and j meet (p4storagefun.c:1029-1044), which nothing compares with its ends.
THEOREM SortStaysTyped == Spec => []TypeOK
<1>1. SortInv => TypeOK
  BY DEF SortInv
<1> QED
  BY <1>1, SortInvariant, PTL
=============================================================================
