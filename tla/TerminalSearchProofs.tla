------------------------ MODULE TerminalSearchProofs ------------------------
(***************************************************************************)
(* The terminal's search beside the recorder, for every order of their     *)
(* steps and any number of records: what the two make of the directory,    *)
(* and what the search prints of it.                                       *)
(***************************************************************************)
EXTENDS TerminalSearch, SearchPlanProofs

-----------------------------------------------------------------------------
(* The files, whatever the two threads do. *)

Paths == {TmpPath} \cup {Path(s) : s \in Segment}

Entry == Log!Record \cup {Log!Zero}

FilesTyped ==
    /\ names \subseteq Paths /\ DOMAIN index \subseteq Paths
    /\ index \in [DOMAIN index -> Seq(Entry)]
    /\ sealing \subseteq {TmpPath}

\* Behind the empty record of an index file there are records in order.
InOrder(recs) ==
    /\ \A k \in 2 .. Len(recs) : recs[k] \in Log!Record
    /\ \A k, m \in 2 .. Len(recs) :
          k < m => recs[k].time <= recs[m].time /\ recs[k].at < recs[m].at

FilesInOrder == \A p \in DOMAIN index : InOrder(index[p])

\* All records of p are earlier than those of q.
Earlier(p, q) ==
    \A k \in 2 .. Len(index[p]), m \in 2 .. Len(index[q]) :
        index[p][k].time < index[q][m].time

\* Files are apart in time, and tmp.index comes last.
FilesApart ==
    \A p, q \in DOMAIN index :
        p # q => Earlier(p, q) \/ (q # TmpPath /\ Earlier(q, p))

\* Between the two renames the sealed name has no records of its own.
SealInHand ==
    sealing # {} => /\ Log!HasRecords(TmpPath)
                    /\ Log!SealedAs(TmpPath) \in names
                    /\ ~Log!HasRecords(Log!SealedAs(TmpPath))

\* Where the records of a sealed name are.
FileOf(q) == IF sealing # {} /\ q = Log!SealedAs(TmpPath) THEN TmpPath ELSE q

\* A sealed name is the times of its first and last record.
NamesTrue ==
    /\ \A q \in names \ {TmpPath} :
          LET p == FileOf(q)
          IN  Log!HasRecords(p) /\ q.name = <<Log!First(p).time, Log!Last(p).time>>
    /\ \A q \in DOMAIN index \ {TmpPath} : Log!HasRecords(q) => q \in names

RecordsCounted == IsFiniteSet(AllRecords) /\ Cardinality(AllRecords) <= MaxRecords

FilesInv == /\ FilesTyped /\ FilesInOrder /\ FilesApart /\ SealInHand /\ NamesTrue
            /\ RecordsCounted

-----------------------------------------------------------------------------
(* Names and records. *)

LEMMA BoundsAreNat ==
    /\ MaxTime \in Nat /\ MaxSegs \in Nat /\ HOUR \in Nat \ {0}
    /\ MAX_GAP \in Nat /\ SEG_TIME \in Nat /\ I_PER_SECOND \in Nat
    /\ MaxRecords \in Nat /\ MaxRecords <= MaxSegs
BY PlanAssumption, TerminalAssumption

LEMMA TimeOfDayIsTime ==
    ASSUME NEW t \in 1 .. MaxTime
    PROVE  t % (MaxTime + 1) = t
BY PlanAssumption

LEMMA PathFacts ==
    /\ TmpPath \in Paths
    /\ TmpPath.ch = 1 /\ TmpPath.name = << >>
    /\ \A s \in Segment : /\ Path(s) \in Paths /\ Path(s) # TmpPath
                         /\ Path(s).name = <<s.start, s.end>>
                         /\ Path(s) = [TmpPath EXCEPT !.name = <<s.start, s.end>>]
                         /\ Path(s).ch = 1
<1>1. TmpPath = [ch |-> 1, day |-> 0, name |-> << >>]
  BY DEF TmpPath, Log!Tmp
<1>2. ASSUME NEW s \in Segment
      PROVE  Path(s) = [ch |-> 1, day |-> 0, name |-> <<s.start, s.end>>]
  BY <1>1 DEF Path
<1>3. \A x, y : <<x, y>> # << >>
  OBVIOUS
<1> QED BY <1>1, <1>2, <1>3 DEF Path, Paths

\* What an index file holds.
LEMMA IndexTypes ==
    ASSUME FilesTyped, FilesInOrder, NEW p \in DOMAIN index
    PROVE  /\ index[p] \in Seq(Entry) /\ Len(index[p]) \in Nat
           /\ \A k \in 1 .. Len(index[p]) : index[p][k] \in Entry
           /\ \A k \in 2 .. Len(index[p]) : /\ index[p][k] \in Log!Record
                                         /\ index[p][k].time \in 1 .. MaxTime
                                         /\ index[p][k].time \in Nat
                                         /\ index[p][k].at \in Nat
<1>1. index[p] \in Seq(Entry)
  BY DEF FilesTyped
<1>2. Len(index[p]) \in Nat /\ \A k \in 1 .. Len(index[p]) : index[p][k] \in Entry
  BY <1>1, ElementOfSeq, LenProperties
<1>3. \A k \in 2 .. Len(index[p]) : index[p][k] \in Log!Record
  BY DEF FilesInOrder, InOrder
<1>4. \A r \in Log!Record : r.time \in 1 .. MaxTime /\ r.time \in Nat /\ r.at \in Nat
  BY BoundsAreNat DEF Log!Record
<1> QED BY <1>1, <1>2, <1>3, <1>4

LEMMA TimesOrdered ==
    ASSUME FilesTyped, FilesInOrder, NEW p \in DOMAIN index,
           NEW k \in 2 .. Len(index[p]), NEW m \in 2 .. Len(index[p]), k <= m
    PROVE  index[p][k].time <= index[p][m].time
<1>1. InOrder(index[p]) /\ index[p][k].time \in Nat /\ Len(index[p]) \in Nat
  BY IndexTypes DEF FilesInOrder
<1>2. CASE k = m
  BY <1>1, <1>2
<1>3. CASE k # m
  <2>1. k < m
    BY <1>1, <1>3
  <2> QED BY <1>1, <2>1 DEF InOrder
<1> QED BY <1>2, <1>3

\* A segment is sealed under the times of its first and last record.
LEMMA SealedName ==
    ASSUME FilesTyped, FilesInOrder, Log!HasRecords(TmpPath)
    PROVE  LET s == [start |-> Log!First(TmpPath).time, end |-> Log!Last(TmpPath).time]
           IN  s \in Segment /\ Log!SealedAs(TmpPath) = Path(s)
<1> DEFINE d == index[TmpPath]
           s == [start |-> d[2].time, end |-> d[Len(d)].time]
<1>1. TmpPath \in DOMAIN index /\ Len(d) >= 2 /\ Len(d) \in Nat
  BY IndexTypes DEF Log!HasRecords
<1>2. 2 \in 2 .. Len(d) /\ Len(d) \in 2 .. Len(d)
  BY <1>1
<1>3. d[2].time \in 1 .. MaxTime /\ d[Len(d)].time \in 1 .. MaxTime
  BY <1>1, <1>2, IndexTypes
<1>4. d[2].time <= d[Len(d)].time
  BY <1>1, <1>2, TimesOrdered
<1>5. s \in Segment
  BY <1>3, <1>4, BoundsAreNat DEF Segment, Times
<1>6. d[2].time % (MaxTime + 1) = d[2].time /\ d[Len(d)].time % (MaxTime + 1) = d[Len(d)].time
  BY <1>3, TimeOfDayIsTime
<1> HIDE DEF d
<1>7. Log!SealedAs(TmpPath) = [TmpPath EXCEPT !.name = <<d[2].time, d[Len(d)].time>>]
  BY <1>6 DEF Log!SealedAs, Log!First, Log!Last, d
<1>8. Log!SealedAs(TmpPath) = Path(s)
  BY <1>5, <1>7, PathFacts
<1> QED BY <1>5, <1>8 DEF Log!First, Log!Last, d

\* The files of the records differ, so the records do.
LEMMA RecordsOf ==
    ASSUME FilesTyped, FilesInOrder
    PROVE  /\ \A r : r \in AllRecords <=>
                        \E p \in DOMAIN index : \E k \in 2 .. Len(index[p]) : r = index[p][k]
           /\ AllRecords \subseteq Log!Record
<1>1. \A r : r \in AllRecords <=>
                \E p \in DOMAIN index : \E k \in 2 .. Len(index[p]) : r = index[p][k]
  BY DEF AllRecords, RecordsIn
<1>2. AllRecords \subseteq Log!Record
  BY <1>1, IndexTypes
<1> QED BY <1>1, <1>2

-----------------------------------------------------------------------------
(* The steps that add files without records, whoever takes them. *)

AddsEmpty ==
    /\ DOMAIN index \subseteq DOMAIN index'
    /\ \A p \in DOMAIN index' :
          IF Log!HasRecords(p) THEN index'[p] = index[p] ELSE Len(index'[p]) < 2

LEMMA AddsEmptyRecords ==
    ASSUME FilesTyped, FilesTyped', AddsEmpty
    PROVE  /\ \A p : Log!HasRecords(p)' <=> Log!HasRecords(p)
           /\ \A p \in DOMAIN index' : \A k \in 2 .. Len(index'[p]) :
                 Log!HasRecords(p) /\ index'[p] = index[p]
           /\ AllRecords' = AllRecords
<1>1. \A p \in DOMAIN index' : Len(index'[p]) \in Nat
  BY LenProperties DEF FilesTyped
<1>2. \A p \in DOMAIN index : Len(index[p]) \in Nat
  BY LenProperties DEF FilesTyped
<1>3. \A p : Log!HasRecords(p)' <=> Log!HasRecords(p)
  BY <1>1, <1>2 DEF AddsEmpty, Log!HasRecords
<1>4. ASSUME NEW p \in DOMAIN index', NEW k \in 2 .. Len(index'[p])
      PROVE  Log!HasRecords(p) /\ index'[p] = index[p]
  <2>1. Len(index'[p]) >= 2
    BY <1>1, <1>4
  <2> QED BY <1>1, <2>1 DEF AddsEmpty
<1>5. ASSUME NEW p \in DOMAIN index, NEW k \in 2 .. Len(index[p])
      PROVE  p \in DOMAIN index' /\ index'[p] = index[p]
  <2>1. Len(index[p]) >= 2
    BY <1>2, <1>5
  <2> QED BY <2>1 DEF AddsEmpty, Log!HasRecords
<1>6. AllRecords' \subseteq AllRecords
  BY <1>4 DEF AllRecords, RecordsIn, Log!HasRecords
<1>7. AllRecords \subseteq AllRecords'
  BY <1>5 DEF AllRecords, RecordsIn
<1> QED BY <1>3, <1>4, <1>6, <1>7

\* So they do all but record and seal.
KeepsRecords ==
    /\ FilesTyped' /\ AddsEmpty /\ sealing' = sealing
    /\ names \subseteq names' /\ names' \subseteq names \cup {TmpPath}

LEMMA AddsEmptyKeeps ==
    ASSUME FilesInv, KeepsRecords
    PROVE  FilesInv' /\ AllRecords' = AllRecords
<1> USE DEF FilesInv, KeepsRecords
<1>1. /\ \A p : Log!HasRecords(p)' <=> Log!HasRecords(p)
      /\ \A p \in DOMAIN index' : \A k \in 2 .. Len(index'[p]) :
            Log!HasRecords(p) /\ index'[p] = index[p]
      /\ AllRecords' = AllRecords
  BY AddsEmptyRecords
<1>2. \A p : Log!HasRecords(p) => p \in DOMAIN index /\ p \in DOMAIN index' /\ index'[p] = index[p]
  BY DEF AddsEmpty, Log!HasRecords
<1>3. FilesInOrder'
  <2> SUFFICES ASSUME NEW p \in DOMAIN index' PROVE InOrder(index'[p])
    BY DEF FilesInOrder
  <2>1. CASE Log!HasRecords(p)
    BY <1>2, <2>1 DEF FilesInOrder
  <2>2. CASE ~Log!HasRecords(p)
    BY <1>1, <2>2 DEF InOrder
  <2> QED BY <2>1, <2>2
<1>4. FilesApart'
  <2> SUFFICES ASSUME NEW p \in DOMAIN index', NEW q \in DOMAIN index', p # q
               PROVE  Earlier(p, q)' \/ (q # TmpPath /\ Earlier(q, p)')
    BY DEF FilesApart, TmpPath, Log!Tmp
  <2>1. CASE Log!HasRecords(p) /\ Log!HasRecords(q)
    <3>1. Earlier(p, q) \/ (q # TmpPath /\ Earlier(q, p))
      BY <1>2, <2>1 DEF FilesApart
    <3> QED BY <1>2, <2>1, <3>1 DEF Earlier
  <2>2. CASE ~(Log!HasRecords(p) /\ Log!HasRecords(q))
    BY <1>1, <2>2 DEF Earlier
  <2> QED BY <2>1, <2>2
<1>5. Log!HasRecords(TmpPath) => Log!SealedAs(TmpPath)' = Log!SealedAs(TmpPath)
  BY <1>2 DEF Log!SealedAs, Log!First, Log!Last, TmpPath, Log!Tmp
<1>6. SealInHand'
  BY <1>1, <1>5 DEF SealInHand, TmpPath, Log!Tmp
<1>7. \A q : FileOf(q)' = FileOf(q)
  BY <1>5 DEF FileOf, SealInHand, TmpPath, Log!Tmp
<1>8. NamesTrue'
  BY <1>1, <1>2, <1>7 DEF NamesTrue, Log!First, Log!Last, TmpPath, Log!Tmp
<1>9. RecordsCounted'
  BY <1>1 DEF RecordsCounted
<1> QED BY <1>1, <1>3, <1>4, <1>6, <1>8, <1>9

-----------------------------------------------------------------------------
(* The recorder's steps. *)

\* No file has more records than there are.
LEMMA RecordsInFile ==
    ASSUME FilesInv, NEW p \in DOMAIN index
    PROVE  /\ Len(index[p]) <= Cardinality(AllRecords) + 1
           /\ Cardinality(AllRecords) \in Nat
           /\ Len(index[p]) <= MaxRecords + 1
<1> USE DEF FilesInv
<1> DEFINE d == index[p]
           f == [k \in 2 .. Len(d) |-> d[k]]
<1>1. Len(d) \in Nat /\ \A k \in 2 .. Len(d) : d[k].at \in Nat
  BY IndexTypes
<1>2. f \in [2 .. Len(d) -> AllRecords]
  BY RecordsOf
<1>3. \A k, m \in 2 .. Len(d) : f[k] = f[m] => k = m
  <2> SUFFICES ASSUME NEW k \in 2 .. Len(d), NEW m \in 2 .. Len(d), k < m, d[k] = d[m]
               PROVE  FALSE
    BY <1>1
  <2>1. d[k].at < d[m].at
    BY DEF FilesInOrder, InOrder
  <2> QED BY <1>1, <2>1
<1>4. f \in Injection(2 .. Len(d), AllRecords)
  BY <1>2, <1>3 DEF Injection, IsInjective
<1>5. Cardinality(2 .. Len(d)) <= Cardinality(AllRecords) /\ Cardinality(AllRecords) \in Nat
  BY <1>4, FS_Injection, FS_CardinalityType DEF RecordsCounted
<1>6. Cardinality(2 .. Len(d)) = IF 2 > Len(d) THEN 0 ELSE Len(d) - 2 + 1
  BY <1>1, FS_Interval
<1>7. Cardinality(AllRecords) <= MaxRecords
  BY DEF RecordsCounted
<1> HIDE DEF d
<1>8. Len(d) <= Cardinality(AllRecords) + 1
  BY <1>1, <1>5, <1>6
<1>9. Len(d) <= MaxRecords + 1
  BY <1>1, <1>5, <1>7, <1>8, BoundsAreNat
<1> QED BY <1>5, <1>8, <1>9 DEF d

RecordAt(t) == [time |-> t, at |-> Len(index[TmpPath])]

\* A record that is put comes last in tmp.index and of all there are.
LEMMA PutEffect ==
    ASSUME FilesInv, NEW t \in 1 .. MaxTime, Put(t)
    PROVE  LET d == index[TmpPath]
               r == RecordAt(t)
           IN  /\ TmpPath \in DOMAIN index /\ sealing = {} /\ UNCHANGED <<names, sealing>>
               /\ r \in Log!Record
               /\ DOMAIN index' = DOMAIN index /\ index' \in [DOMAIN index' -> Seq(Entry)]
               /\ \A q \in DOMAIN index \ {TmpPath} : index'[q] = index[q]
               /\ Len(d) \in Nat \ {0} /\ Len(index'[TmpPath]) = Len(d) + 1
               /\ \A k \in 1 .. Len(d) : index'[TmpPath][k] = d[k]
               /\ index'[TmpPath][Len(d) + 1] = r
               /\ \A k \in 2 .. Len(d) : d[k].time <= t /\ d[k].at < Len(d)
               /\ \A q \in DOMAIN index \ {TmpPath} :
                     \A k \in 2 .. Len(index[q]) : index[q][k].time < t
               /\ AllRecords' = AllRecords \cup {r}
<1> USE DEF FilesInv
<1> DEFINE T == TmpPath
           d == index[T]
           r == RecordAt(t)
<1>1. /\ T \in DOMAIN index /\ d # << >> /\ Cardinality(AllRecords) < MaxRecords
      /\ Log!Put(T, r)
  BY DEF Put, RecordAt, Log!Put
<1>2. /\ Len(d) \in Nat \ {0} /\ d \in Seq(Entry)
      /\ \A k \in 2 .. Len(d) : d[k].time \in Nat /\ d[k].at \in Nat
  <2>1. /\ d \in Seq(Entry) /\ Len(d) \in Nat
        /\ \A k \in 2 .. Len(d) : d[k].time \in Nat /\ d[k].at \in Nat
    BY <1>1, IndexTypes
  <2>2. Len(d) # 0
    <3> HIDE DEF d
    <3> QED BY <1>1, <2>1, EmptySeq
  <2> QED BY <2>1, <2>2
<1>3. sealing = {} /\ UNCHANGED <<names, sealing>> /\ index' = [index EXCEPT ![T] = Append(d, r)]
  BY <1>1 DEF Log!Put, FilesTyped
<1>4. Len(d) <= Cardinality(AllRecords) + 1 /\ Cardinality(AllRecords) \in Nat
  BY <1>1, RecordsInFile
<1>5. r \in Log!Record
  <2>1. Len(d) \in 1 .. MaxRecords
    <3> HIDE DEF d
    <3> QED BY <1>1, <1>2, <1>4, BoundsAreNat
  <2> QED BY <2>1 DEF Log!Record, RecordAt
<1>6. /\ Append(d, r) \in Seq(Entry) /\ Len(Append(d, r)) = Len(d) + 1
      /\ \A k \in 1 .. Len(d) : Append(d, r)[k] = d[k]
      /\ Append(d, r)[Len(d) + 1] = r
  BY <1>2, <1>5, AppendProperties DEF Entry
<1>7. /\ DOMAIN index' = DOMAIN index /\ index'[T] = Append(d, r)
      /\ \A q \in DOMAIN index \ {T} : index'[q] = index[q]
  BY <1>1, <1>3 DEF FilesTyped
<1>8. index' \in [DOMAIN index' -> Seq(Entry)]
  BY <1>1, <1>3, <1>6 DEF FilesTyped
<1>9. /\ \A k \in 2 .. Len(d) : d[k].time <= t /\ d[k].at < Len(d)
      /\ \A q \in DOMAIN index \ {T} : \A k \in 2 .. Len(index[q]) : index[q][k].time < t
  <2>1. CASE Log!HasRecords(T)
    <3>1. /\ d[Len(d)].time <= t /\ d[Len(d)].at < Len(d) /\ Len(d) >= 2
      BY <1>1, <2>1 DEF Log!Put, Log!Follows, Log!Last, RecordAt, Log!HasRecords
    <3>2. Len(d) \in 2 .. Len(d) /\ 2 \in 2 .. Len(d)
      BY <1>2, <3>1
    <3>3. ASSUME NEW k \in 2 .. Len(d) PROVE d[k].time <= t /\ d[k].at < Len(d)
      <4>1. d[k].time <= d[Len(d)].time
        BY <1>1, <1>2, <3>2, TimesOrdered
      <4>2. d[k].at <= d[Len(d)].at
        <5>1. k = Len(d) \/ k < Len(d)
          BY <1>2
        <5> QED BY <1>1, <1>2, <3>2, <5>1 DEF FilesInOrder, InOrder
      <4>3. /\ d[k].time \in Nat /\ d[k].at \in Nat
            /\ d[Len(d)].time \in Nat /\ d[Len(d)].at \in Nat
        BY <1>2, <3>2
      <4> HIDE DEF d
      <4> QED BY <1>2, <3>1, <4>1, <4>2, <4>3
    <3>4. ASSUME NEW q \in DOMAIN index \ {T}, NEW k \in 2 .. Len(index[q])
          PROVE  index[q][k].time < t
      <4>1. Earlier(q, T)
        BY <1>1 DEF FilesApart
      <4>2. index[q][k].time < d[2].time
        BY <3>2, <4>1 DEF Earlier
      <4>3. index[q][k].time \in Nat /\ d[2].time \in Nat
        BY <1>2, <3>2, IndexTypes
      <4> QED BY <3>2, <3>3, <4>2, <4>3
    <3> QED BY <3>3, <3>4
  <2>2. CASE ~Log!HasRecords(T)
    <3>1. Log!Starts(T, r)
      BY <1>1, <2>2 DEF Log!Put
    <3>2. \A q \in DOMAIN index : q.ch = T.ch
      BY PathFacts DEF FilesTyped, Paths
    <3>3. Len(d) < 2
      BY <1>1, <1>2, <2>2 DEF Log!HasRecords
    <3> QED BY <1>2, <3>1, <3>2, <3>3 DEF Log!Starts, RecordAt
  <2> QED BY <2>1, <2>2
<1>10. AllRecords' = AllRecords \cup {r}
  <2>1. ASSUME NEW x PROVE x \in AllRecords' <=> x \in AllRecords \cup {r}
    <3>1. x \in AllRecords' <=> \E p \in DOMAIN index' : \E k \in 2 .. Len(index'[p]) : x = index'[p][k]
      BY DEF AllRecords, RecordsIn
    <3>2. x \in AllRecords <=> \E p \in DOMAIN index : \E k \in 2 .. Len(index[p]) : x = index[p][k]
      BY RecordsOf
    <3>3. ASSUME NEW p \in DOMAIN index', NEW k \in 2 .. Len(index'[p]), x = index'[p][k]
          PROVE  x \in AllRecords \cup {r}
      <4>1. CASE p # T
        BY <1>7, <3>2, <3>3, <4>1
      <4>2. CASE p = T /\ k = Len(d) + 1
        BY <1>6, <1>7, <3>3, <4>2
      <4>3. CASE p = T /\ k # Len(d) + 1
        <5>1. k \in 2 .. Len(d)
          BY <1>2, <1>6, <1>7, <3>3, <4>3
        <5>2. x = d[k]
          BY <5>1, <1>2, <1>6, <1>7, <3>3, <4>3
        <5> QED BY <1>1, <3>2, <5>1, <5>2
      <4> QED BY <4>1, <4>2, <4>3
    <3>4. ASSUME NEW p \in DOMAIN index, NEW k \in 2 .. Len(index[p]), x = index[p][k]
          PROVE  x \in AllRecords'
      <4>1. CASE p # T
        BY <1>7, <3>1, <3>4, <4>1
      <4>2. CASE p = T
        <5>1. k \in 2 .. Len(index'[T]) /\ x = index'[T][k]
          BY <1>2, <1>6, <1>7, <3>4, <4>2
        <5> QED BY <1>1, <1>7, <3>1, <5>1
      <4> QED BY <4>1, <4>2
    <3>5. r \in AllRecords'
      <4>1. Len(d) + 1 \in 2 .. Len(index'[T])
        BY <1>2, <1>6, <1>7
      <4>2. index'[T][Len(d) + 1] = r
        BY <1>6, <1>7
      <4> HIDE DEF r, d
      <4> QED BY <1>1, <1>7, <4>1, <4>2 DEF AllRecords, RecordsIn
    <3> QED BY <3>1, <3>2, <3>3, <3>4, <3>5
  <2> QED BY <2>1
<1> QED BY <1>1, <1>2, <1>3, <1>5, <1>6, <1>7, <1>8, <1>9, <1>10

LEMMA PutKeeps ==
    ASSUME FilesInv, NEW t \in 1 .. MaxTime, Put(t)
    PROVE  FilesInv'
<1> USE DEF FilesInv
<1> DEFINE T == TmpPath
           d == index[T]
           r == RecordAt(t)
           N == Len(d) + 1
<1>1. /\ T \in DOMAIN index /\ sealing = {} /\ UNCHANGED <<names, sealing>>
      /\ r \in Log!Record
      /\ DOMAIN index' = DOMAIN index /\ index' \in [DOMAIN index' -> Seq(Entry)]
      /\ \A q \in DOMAIN index \ {T} : index'[q] = index[q]
      /\ Len(d) \in Nat \ {0} /\ Len(index'[T]) = N
      /\ \A k \in 1 .. Len(d) : index'[T][k] = d[k]
      /\ index'[T][N] = r
      /\ \A k \in 2 .. Len(d) : d[k].time <= t /\ d[k].at < Len(d)
      /\ \A q \in DOMAIN index \ {T} :
            \A k \in 2 .. Len(index[q]) : index[q][k].time < t
      /\ AllRecords' = AllRecords \cup {r}
  BY PutEffect
<1>2. FilesTyped'
  BY <1>1 DEF FilesTyped, Paths, TmpPath, Log!Tmp
<1>3. r.time = t /\ r.at = Len(d)
  BY DEF RecordAt
<1> HIDE DEF r
<1>4. FilesInOrder'
  <2> SUFFICES ASSUME NEW p \in DOMAIN index' PROVE InOrder(index'[p])
    BY DEF FilesInOrder
  <2>1. CASE p # T
    BY <1>1, <2>1 DEF FilesInOrder
  <2>2. CASE p = T
    <3>1. InOrder(d)
      BY <1>1 DEF FilesInOrder
    <3> HIDE DEF d
    <3>2. \A k \in 2 .. N : (k \in 2 .. Len(d) /\ index'[T][k] = d[k]) \/ k = N
      BY <1>1
    <3>3. \A k \in 2 .. N : index'[T][k] \in Log!Record
      BY <1>1, <3>1, <3>2 DEF InOrder
    <3>4. ASSUME NEW k \in 2 .. N, NEW m \in 2 .. N, k < m
          PROVE  index'[T][k].time <= index'[T][m].time /\ index'[T][k].at < index'[T][m].at
      <4>1. k \in 2 .. Len(d) /\ index'[T][k] = d[k]
        BY <1>1, <3>2, <3>4
      <4>2. CASE m = N
        BY <1>1, <1>3, <4>1, <4>2
      <4>3. CASE m \in 2 .. Len(d) /\ index'[T][m] = d[m]
        BY <3>1, <3>4, <4>1, <4>3 DEF InOrder
      <4> QED BY <3>2, <4>2, <4>3
    <3> QED BY <1>1, <2>2, <3>3, <3>4 DEF InOrder
  <2> QED BY <2>1, <2>2
<1>5. FilesApart'
  <2> SUFFICES ASSUME NEW p \in DOMAIN index', NEW q \in DOMAIN index', p # q
               PROVE  Earlier(p, q)' \/ (q # T /\ Earlier(q, p)')
    BY DEF FilesApart, TmpPath, Log!Tmp
  <2>0. ASSUME NEW s \in DOMAIN index \ {T} PROVE Earlier(s, T)'
    <3>1. Earlier(s, T)
      BY <1>1 DEF FilesApart
    <3>2. ASSUME NEW k \in 2 .. Len(index[s]), NEW m \in 2 .. N
          PROVE  index[s][k].time < index'[T][m].time
      <4>1. CASE m = N
        BY <1>1, <1>3, <4>1
      <4>2. CASE m # N
        <5>1. m \in 2 .. Len(d) /\ index'[T][m] = d[m]
          BY <1>1, <4>2
        <5> QED BY <3>1, <5>1 DEF Earlier
      <4> QED BY <4>1, <4>2
    <3> QED BY <1>1, <3>2 DEF Earlier, TmpPath, Log!Tmp
  <2>1. CASE p # T /\ q # T
    BY <1>1, <2>1 DEF FilesApart, Earlier
  <2>2. CASE q = T
    BY <1>1, <2>0, <2>2
  <2>3. CASE p = T
    BY <1>1, <2>0, <2>3
  <2> QED BY <2>1, <2>2, <2>3
<1>6. SealInHand'
  BY <1>1 DEF SealInHand
<1>7. NamesTrue'
  <2>1. \A q : FileOf(q) = q /\ FileOf(q)' = q
    BY <1>1 DEF FileOf
  <2>2. \A q : q # T => /\ Log!HasRecords(q)' <=> Log!HasRecords(q)
                        /\ Log!HasRecords(q) => Log!First(q)' = Log!First(q) /\ Log!Last(q)' = Log!Last(q)
    BY <1>1 DEF Log!HasRecords, Log!First, Log!Last
  <2>3. \A q \in names' \ {T} : /\ Log!HasRecords(q)'
                                /\ q.name = <<Log!First(q)'.time, Log!Last(q)'.time>>
    BY <1>1, <2>1, <2>2 DEF NamesTrue
  <2>4. \A q \in DOMAIN index' \ {T} : Log!HasRecords(q)' => q \in names'
    BY <1>1, <2>2 DEF NamesTrue
  <2>5. T' = T
    BY DEF TmpPath, Log!Tmp
  <2> HIDE DEF T
  <2> QED BY <2>1, <2>3, <2>4, <2>5 DEF NamesTrue, T
<1>8. RecordsCounted'
  <2>1. /\ IsFiniteSet(AllRecords) /\ Cardinality(AllRecords) < MaxRecords
        /\ Cardinality(AllRecords) \in Nat
    BY FS_CardinalityType DEF RecordsCounted, Put
  <2>2. /\ IsFiniteSet(AllRecords \cup {r})
        /\ Cardinality(AllRecords \cup {r}) =
              IF r \in AllRecords THEN Cardinality(AllRecords) ELSE Cardinality(AllRecords) + 1
    BY <2>1, FS_AddElement, Zenon
  <2>3. Cardinality(AllRecords \cup {r}) \in Nat
    BY <2>2, FS_CardinalityType
  <2> QED BY <1>1, <2>1, <2>2, <2>3, BoundsAreNat DEF RecordsCounted
<1> QED BY <1>2, <1>4, <1>5, <1>6, <1>7, <1>8

LEMMA SealVideoKeeps ==
    ASSUME FilesInv, Log!SealVideo(TmpPath)
    PROVE  FilesInv' /\ UNCHANGED index /\ sealing' = {TmpPath}
<1> USE DEF FilesInv
<1> DEFINE T == TmpPath
           Q == Log!SealedAs(TmpPath)
<1>1. /\ T \in names /\ Log!HasRecords(T) /\ Q \notin names /\ UNCHANGED index
      /\ names' = (names \ {T}) \cup {Q} /\ sealing' = {T}
  BY DEF Log!SealVideo, FilesTyped
<1>2. sealing = {}
  BY <1>1 DEF SealInHand
<1>3. PICK s \in Segment : Q = Path(s)
  BY <1>1, SealedName
<1>4. Q # T /\ Q \in Paths
  BY <1>3, PathFacts
<1>5. /\ T' = T /\ Q' = Q /\ Paths' = Paths
      /\ \A p : /\ Log!HasRecords(p)' <=> Log!HasRecords(p)
                /\ Log!First(p)' = Log!First(p) /\ Log!Last(p)' = Log!Last(p)
  BY <1>1 DEF TmpPath, Log!Tmp, Log!SealedAs, Log!First, Log!Last, Log!HasRecords, Paths, Path
<1>6. FilesTyped'
  BY <1>1, <1>4, <1>5 DEF FilesTyped
<1>7. FilesInOrder' /\ FilesApart' /\ RecordsCounted'
  BY <1>1, <1>5 DEF FilesInOrder, FilesApart, Earlier, RecordsCounted, AllRecords
<1>8. ~Log!HasRecords(Q)
  BY <1>1, <1>4 DEF NamesTrue, Log!HasRecords
<1>9. SealInHand'
  BY <1>1, <1>5, <1>8 DEF SealInHand
<1>10. Q.name = <<Log!First(T).time, Log!Last(T).time>>
  BY <1>1, SealedName, PathFacts
<1>11. NamesTrue'
  <2>1. \A q : q # Q => FileOf(q)' = q /\ FileOf(q) = q
    BY <1>2, <1>5 DEF FileOf
  <2>2. FileOf(Q)' = T
    BY <1>1, <1>5 DEF FileOf
  <2>3. ASSUME NEW q \in names' \ {T}
        PROVE  /\ Log!HasRecords(FileOf(q))'
               /\ q.name = <<Log!First(FileOf(q))'.time, Log!Last(FileOf(q))'.time>>
    <3>1. CASE q = Q
      BY <1>1, <1>5, <1>10, <2>2, <3>1 DEF Log!HasRecords, Log!First, Log!Last
    <3>2. CASE q # Q
      BY <1>1, <1>5, <2>1, <2>3, <3>2 DEF NamesTrue, Log!HasRecords, Log!First, Log!Last
    <3> QED BY <3>1, <3>2
  <2>4. \A q \in DOMAIN index' \ {T} : Log!HasRecords(q)' => q \in names'
    BY <1>1, <1>5 DEF NamesTrue
  <2> HIDE DEF T, Q
  <2> QED BY <1>5, <2>3, <2>4 DEF NamesTrue, T
<1> QED BY <1>1, <1>6, <1>7, <1>9, <1>11

\* The records move from tmp.index to the sealed name, which had none.
LEMMA SealIndexEffect ==
    ASSUME FilesInv, Log!SealIndex(TmpPath)
    PROVE  LET Q == Log!SealedAs(TmpPath)
           IN  /\ Log!HasRecords(TmpPath) /\ Q \in names /\ Q # TmpPath /\ Q \in Paths
               /\ ~Log!HasRecords(Q) /\ sealing # {}
               /\ sealing' = {} /\ UNCHANGED names
               /\ DOMAIN index' = (DOMAIN index \ {TmpPath}) \cup {Q}
               /\ index' \in [DOMAIN index' -> Seq(Entry)]
               /\ index'[Q] = index[TmpPath]
               /\ \A q \in DOMAIN index' \ {Q} : index'[q] = index[q]
               /\ AllRecords' = AllRecords
<1> USE DEF FilesInv
<1> DEFINE T == TmpPath
           Q == Log!SealedAs(TmpPath)
<1>1. /\ sealing # {} /\ sealing' = {} /\ UNCHANGED names
      /\ index' = [q \in (DOMAIN index \ {T}) \cup {Q} |-> IF q = Q THEN index[T] ELSE index[q]]
  BY DEF Log!SealIndex, FilesTyped
<1>2. Log!HasRecords(T) /\ Q \in names /\ ~Log!HasRecords(Q)
  BY <1>1 DEF SealInHand
<1>3. PICK s \in Segment : Q = Path(s)
  BY <1>2, SealedName
<1>4. Q # T /\ Q \in Paths
  BY <1>3, PathFacts
<1> HIDE DEF Q
<1>5. /\ DOMAIN index' = (DOMAIN index \ {T}) \cup {Q} /\ index'[Q] = index[T]
      /\ \A q \in DOMAIN index' \ {Q} : index'[q] = index[q]
  BY <1>1
<1>6. T \in DOMAIN index
  BY <1>2 DEF Log!HasRecords
<1>7. index' \in [DOMAIN index' -> Seq(Entry)]
  BY <1>1, <1>5, <1>6 DEF FilesTyped
<1>8. AllRecords' = AllRecords
  <2>1. ASSUME NEW p \in DOMAIN index', NEW k \in 2 .. Len(index'[p])
        PROVE  \E q \in DOMAIN index : k \in 2 .. Len(index[q]) /\ index'[p][k] = index[q][k]
    BY <1>5, <1>6, <2>1
  <2>2. ASSUME NEW q \in DOMAIN index, NEW k \in 2 .. Len(index[q])
        PROVE  \E p \in DOMAIN index' : k \in 2 .. Len(index'[p]) /\ index'[p][k] = index[q][k]
    <3>1. CASE q = T
      BY <1>5, <2>2, <3>1
    <3>2. CASE q # T
      <4>1. q # Q
        <5>1. Len(index[q]) >= 2
          BY <2>2, IndexTypes
        <5> QED BY <1>2, <2>2, <5>1 DEF Log!HasRecords
      <4> QED BY <1>5, <2>2, <3>2, <4>1
    <3> QED BY <3>1, <3>2
  <2>3. \A r : r \in AllRecords' <=>
                 \E p \in DOMAIN index' : \E k \in 2 .. Len(index'[p]) : r = index'[p][k]
    BY DEF AllRecords, RecordsIn
  <2>4. \A r : r \in AllRecords' <=> r \in AllRecords
    BY <2>1, <2>2, <2>3, RecordsOf
  <2> QED BY <2>4
<1> QED BY <1>1, <1>2, <1>4, <1>5, <1>7, <1>8 DEF Q

LEMMA SealIndexKeeps ==
    ASSUME FilesInv, Log!SealIndex(TmpPath)
    PROVE  FilesInv'
<1> USE DEF FilesInv
<1> DEFINE T == TmpPath
           Q == Log!SealedAs(TmpPath)
<1>1. /\ Log!HasRecords(T) /\ Q \in names /\ Q # T /\ Q \in Paths
      /\ ~Log!HasRecords(Q) /\ sealing # {}
      /\ sealing' = {} /\ UNCHANGED names
      /\ DOMAIN index' = (DOMAIN index \ {T}) \cup {Q}
      /\ index' \in [DOMAIN index' -> Seq(Entry)]
      /\ index'[Q] = index[T]
      /\ \A q \in DOMAIN index' \ {Q} : index'[q] = index[q]
      /\ AllRecords' = AllRecords
  BY SealIndexEffect
<1>2. T' = T /\ Paths' = Paths /\ T \in DOMAIN index
  BY <1>1 DEF TmpPath, Log!Tmp, Paths, Path, Log!HasRecords
<1>3. FilesTyped'
  BY <1>1, <1>2 DEF FilesTyped
<1>4. Q.name = <<Log!First(T).time, Log!Last(T).time>>
  BY <1>1, SealedName, PathFacts
<1>5. \A q : FileOf(q) = IF q = Q THEN T ELSE q
  BY <1>1 DEF FileOf
<1>6. \A q : FileOf(q)' = q
  BY <1>1 DEF FileOf
<1> HIDE DEF Q, T
<1>7. FilesInOrder'
  BY <1>1, <1>2 DEF FilesInOrder
<1>8. FilesApart'
  <2> SUFFICES ASSUME NEW p \in DOMAIN index', NEW q \in DOMAIN index', p # q
               PROVE  Earlier(p, q)' \/ (q # T /\ Earlier(q, p)')
    BY <1>2 DEF FilesApart, T
  <2>1. CASE p # Q /\ q # Q
    BY <1>1, <2>1 DEF FilesApart, Earlier, T
  <2>2. CASE p = Q
    BY <1>1, <1>2, <2>2 DEF FilesApart, Earlier, T
  <2>3. CASE q = Q
    BY <1>1, <1>2, <2>3 DEF FilesApart, Earlier, T
  <2> QED BY <2>1, <2>2, <2>3
<1>9. SealInHand'
  BY <1>1 DEF SealInHand
<1>10. NamesTrue'
  <2>1. ASSUME NEW q \in names' \ {T}
        PROVE  Log!HasRecords(q)' /\ q.name = <<Log!First(q)'.time, Log!Last(q)'.time>>
    <3>1. CASE q = Q
      BY <1>1, <1>4, <3>1 DEF Log!HasRecords, Log!First, Log!Last
    <3>2. CASE q # Q
      BY <1>1, <1>5, <2>1, <3>2 DEF NamesTrue, Log!HasRecords, Log!First, Log!Last, T
    <3> QED BY <3>1, <3>2
  <2>2. ASSUME NEW q \in DOMAIN index' \ {T}, Log!HasRecords(q)'
        PROVE  q \in names'
    BY <1>1, <2>2 DEF NamesTrue, Log!HasRecords, T
  <2> QED BY <1>2, <1>6, <2>1, <2>2 DEF NamesTrue, T
<1>11. RecordsCounted'
  BY <1>1 DEF RecordsCounted
<1> QED BY <1>3, <1>7, <1>8, <1>9, <1>10, <1>11

-----------------------------------------------------------------------------
(* The segments that are listed are a day of the plan: apart and in order. *)

LEMMA SealedSegment ==
    ASSUME FilesInv, NEW s \in SealedSegments
    PROVE  LET p == FileOf(Path(s))
           IN  /\ s \in Segment /\ Path(s) \in names \ {TmpPath}
               /\ Log!HasRecords(p) /\ p \in DOMAIN index /\ Len(index[p]) \in Nat
               /\ Len(index[p]) >= 2
               /\ s.start = index[p][2].time /\ s.end = index[p][Len(index[p])].time
<1> USE DEF FilesInv
<1>1. PICK q \in names \ {TmpPath} : s = [start |-> q.name[1], end |-> q.name[2]]
  BY DEF SealedSegments
<1>2. PICK u \in Segment : q = Path(u)
  BY <1>1 DEF FilesTyped, Paths
<1>3. q.name = <<u.start, u.end>>
  BY <1>2, PathFacts
<1>4. s = u
  BY <1>1, <1>2, <1>3 DEF Segment
<1> DEFINE p == FileOf(q)
<1>5. Log!HasRecords(p) /\ q.name = <<Log!First(p).time, Log!Last(p).time>>
  BY <1>1 DEF NamesTrue
<1>6. p \in DOMAIN index /\ Len(index[p]) \in Nat /\ Len(index[p]) >= 2
  BY <1>5, IndexTypes DEF Log!HasRecords
<1>7. s.start = index[p][2].time /\ s.end = index[p][Len(index[p])].time
  BY <1>3, <1>4, <1>5 DEF Log!First, Log!Last
<1> QED BY <1>1, <1>2, <1>4, <1>5, <1>6, <1>7

LEMMA SegmentsApart ==
    ASSUME FilesInv, NEW s \in SealedSegments, NEW u \in SealedSegments, s # u
    PROVE  s.end < u.start \/ u.end < s.start
<1> USE DEF FilesInv
<1> DEFINE p == FileOf(Path(s))
           q == FileOf(Path(u))
<1>1. /\ s \in Segment /\ p \in DOMAIN index /\ Len(index[p]) \in Nat
      /\ Len(index[p]) >= 2
      /\ s.start = index[p][2].time /\ s.end = index[p][Len(index[p])].time
      /\ Path(s) # TmpPath
  BY SealedSegment
<1>2. /\ u \in Segment /\ q \in DOMAIN index /\ Len(index[q]) \in Nat
      /\ Len(index[q]) >= 2
      /\ u.start = index[q][2].time /\ u.end = index[q][Len(index[q])].time
      /\ Path(u) # TmpPath
  BY SealedSegment
<1>3. p # q
  <2>1. Path(s) # Path(u)
    <3>1. Path(s).name = <<s.start, s.end>> /\ Path(u).name = <<u.start, u.end>>
      BY <1>1, <1>2, PathFacts
    <3> QED BY <1>1, <1>2, <3>1 DEF Segment
  <2> QED BY <1>1, <1>2, <2>1 DEF FileOf
<1> HIDE DEF p, q
<1>4. Earlier(p, q) \/ Earlier(q, p)
  BY <1>1, <1>2, <1>3 DEF FilesApart
<1>5. /\ 2 \in 2 .. Len(index[p]) /\ Len(index[p]) \in 2 .. Len(index[p])
      /\ 2 \in 2 .. Len(index[q]) /\ Len(index[q]) \in 2 .. Len(index[q])
  BY <1>1, <1>2
<1> QED BY <1>1, <1>2, <1>4, <1>5 DEF Earlier

LEMMA SegmentsCounted ==
    ASSUME FilesInv
    PROVE  /\ IsFiniteSet(SealedSegments) /\ Cardinality(SealedSegments) \in Nat
           /\ Cardinality(SealedSegments) <= MaxSegs
<1> USE DEF FilesInv
<1> DEFINE SS == SealedSegments
           last(s) == LET p == FileOf(Path(s)) IN index[p][Len(index[p])]
           f == [s \in SS |-> last(s)]
<1>1. ASSUME NEW s \in SS PROVE last(s) \in AllRecords /\ last(s).time = s.end
  <2> DEFINE p == FileOf(Path(s))
  <2>1. /\ p \in DOMAIN index /\ Len(index[p]) \in Nat /\ Len(index[p]) >= 2
        /\ s.end = index[p][Len(index[p])].time
    BY <1>1, SealedSegment
  <2> HIDE DEF p
  <2>2. Len(index[p]) \in 2 .. Len(index[p])
    BY <2>1
  <2>3. index[p][Len(index[p])] \in AllRecords
    BY <2>1, <2>2 DEF AllRecords, RecordsIn
  <2> QED BY <2>1, <2>3 DEF p
<1>2. f \in [SS -> AllRecords]
  BY <1>1
<1>3. ASSUME NEW s \in SS, NEW u \in SS, f[s] = f[u] PROVE s = u
  <2> SUFFICES ASSUME s # u PROVE FALSE
    OBVIOUS
  <2>1. s.end = u.end
    <3>1. last(s) = last(u)
      BY <1>3
    <3> HIDE DEF last
    <3> QED BY <1>1, <3>1
  <2>2. s \in Segment /\ u \in Segment
    BY SealedSegment
  <2>3. s.end < u.start \/ u.end < s.start
    BY SegmentsApart
  <2>4. s.end \in Int /\ u.end \in Int /\ s.start \in Int /\ u.start \in Int
        /\ s.start <= s.end /\ u.start <= u.end
    BY <2>2, SegmentTimes
  <2> QED BY <2>1, <2>3, <2>4
<1> HIDE DEF f
<1>4. f \in Injection(SS, AllRecords)
  BY <1>2, <1>3 DEF Injection, IsInjective
<1>5. IsFiniteSet(SS) /\ Cardinality(SS) <= Cardinality(AllRecords)
  BY <1>4, FS_Injection DEF RecordsCounted
<1>6. Cardinality(SS) \in Nat /\ Cardinality(AllRecords) \in Nat
  BY <1>5, FS_CardinalityType DEF RecordsCounted
<1>7. Cardinality(AllRecords) <= MaxRecords
  BY DEF RecordsCounted
<1> QED BY <1>5, <1>6, <1>7, BoundsAreNat

\* A finite set of segments that are apart can be put in order: each at the place
\* that is the number of those that do not start later.
LEMMA OrderExists ==
    ASSUME FilesInv
    PROVE  \E d \in [1 .. Cardinality(SealedSegments) -> SealedSegments] :
               \A k, m \in DOMAIN d : k < m => d[k].start < d[m].start
<1> DEFINE SS == SealedSegments
           n == Cardinality(SS)
           upTo(s) == {u \in SS : u.start <= s.start}
           rank == [s \in SS |-> Cardinality(upTo(s))]
<1>1. IsFiniteSet(SS) /\ n \in Nat
  BY SegmentsCounted
<1>2. \A s \in SS : s.start \in Int /\ s.end \in Int /\ s.start <= s.end
  BY SealedSegment, SegmentTimes
<1>3. ASSUME NEW s \in SS, NEW u \in SS, s # u
      PROVE  s.start < u.start \/ u.start < s.start
  BY <1>2, <1>3, SegmentsApart
<1>4. ASSUME NEW s \in SS
      PROVE  /\ IsFiniteSet(upTo(s)) /\ Cardinality(upTo(s)) \in Nat
             /\ Cardinality(upTo(s)) <= n /\ Cardinality(upTo(s)) # 0
  <2>1. upTo(s) \in SUBSET SS /\ s \in upTo(s)
    BY <1>2
  <2> HIDE DEF upTo
  <2>2. IsFiniteSet(upTo(s)) /\ Cardinality(upTo(s)) <= n
    BY <1>1, <2>1, FS_Subset
  <2>3. Cardinality(upTo(s)) \in Nat /\ (Cardinality(upTo(s)) = 0 <=> upTo(s) = {})
    BY <2>2, FS_CardinalityType, FS_EmptySet
  <2> QED BY <2>1, <2>2, <2>3
<1>5. ASSUME NEW s \in SS, NEW u \in SS, s.start < u.start
      PROVE  Cardinality(upTo(s)) < Cardinality(upTo(u))
  <2>1. upTo(s) \in SUBSET upTo(u) /\ u \in upTo(u) /\ u \notin upTo(s)
    BY <1>2, <1>5
  <2> HIDE DEF upTo
  <2>2. Cardinality(upTo(s)) <= Cardinality(upTo(u))
    BY <1>4, <2>1, FS_Subset
  <2>3. Cardinality(upTo(s)) # Cardinality(upTo(u))
    BY <1>4, <2>1, FS_Subset
  <2> QED BY <1>4, <2>2, <2>3
<1> HIDE DEF upTo
<1>6. rank \in [SS -> 1 .. n]
  BY <1>1, <1>4
<1>7. \A s, u \in SS : rank[s] = rank[u] => s = u
  BY <1>3, <1>4, <1>5
<1>8. rank \in Injection(SS, 1 .. n)
  <2> HIDE DEF rank
  <2> QED BY <1>6, <1>7 DEF Injection, IsInjective
<1>9. IsFiniteSet(1 .. n) /\ Cardinality(1 .. n) = n
  BY <1>1, FS_Interval
<1>10. rank \in Surjection(SS, 1 .. n)
  <2> HIDE DEF rank
  <2> QED BY <1>8, <1>9, FS_Injection
<1>11. \A k \in 1 .. n : \E s \in SS : rank[s] = k
  <2> HIDE DEF rank
  <2> QED BY <1>10 DEF Surjection
<1> DEFINE d == [k \in 1 .. n |-> CHOOSE s \in SS : rank[s] = k]
<1>12. \A k \in 1 .. n : d[k] \in SS /\ rank[d[k]] = k
  <2> HIDE DEF rank
  <2> QED BY <1>11
<1>13. d \in [1 .. n -> SS] /\ DOMAIN d = 1 .. n
  BY <1>12
<1>14. ASSUME NEW k \in 1 .. n, NEW m \in 1 .. n, k < m
       PROVE  d[k].start < d[m].start
  <2> HIDE DEF d
  <2>1. d[k] \in SS /\ d[m] \in SS /\ d[k] # d[m]
    <3> HIDE DEF rank
    <3>1. /\ d[k] \in SS /\ rank[d[k]] = k
          /\ d[m] \in SS /\ rank[d[m]] = m
      BY <1>12
    <3>2. k # m
      BY <1>1, <1>14
    <3> QED BY <3>1, <3>2
  <2>2. rank[d[k]] = Cardinality(upTo(d[k])) /\ rank[d[m]] = Cardinality(upTo(d[m]))
    BY <2>1
  <2>3. ~(d[m].start < d[k].start)
    <3> SUFFICES ASSUME d[m].start < d[k].start PROVE FALSE
      OBVIOUS
    <3>1. Cardinality(upTo(d[m])) < Cardinality(upTo(d[k]))
      BY <1>5, <2>1
    <3>2. m < k
      <4> HIDE DEF rank
      <4> QED BY <1>12, <2>2, <3>1
    <3> QED BY <1>1, <1>14, <3>2
  <2> QED BY <1>3, <2>1, <2>3
<1> HIDE DEF d
<1> QED BY <1>13, <1>14

LEMMA ListingIsADay ==
    ASSUME FilesInv
    PROVE  Listing \in Days
<1> DEFINE n == Cardinality(SealedSegments)
<1>1. /\ Listing \in [1 .. n -> SealedSegments]
      /\ \A k, m \in DOMAIN Listing : k < m => Listing[k].start < Listing[m].start
  BY OrderExists, Zenon DEF Listing
<1>2. n \in 0 .. MaxSegs
  BY SegmentsCounted, BoundsAreNat
<1>3. \A s \in SealedSegments : s \in Segment /\ s.start \in Int /\ s.end \in Int /\ s.start <= s.end
  BY SealedSegment, SegmentTimes
<1>4. Listing \in [1 .. n -> Segment] /\ DOMAIN Listing = 1 .. n
  BY <1>1, <1>3
<1> HIDE DEF n
<1>5. ASSUME NEW k \in 1 .. n, NEW m \in 1 .. n, k < m
      PROVE  Listing[k].end < Listing[m].start
  <2>1. Listing[k].start < Listing[m].start
    BY <1>1, <1>4, <1>5
  <2>2. /\ Listing[k] \in SealedSegments /\ Listing[m] \in SealedSegments
        /\ Listing[k].start \in Int /\ Listing[m].start \in Int /\ Listing[m].end \in Int
        /\ Listing[m].start <= Listing[m].end
    BY <1>1, <1>3
  <2>3. Listing[k] # Listing[m]
    BY <2>1, <2>2
  <2>4. Listing[k].end < Listing[m].start \/ Listing[m].end < Listing[k].start
    BY <2>2, <2>3, SegmentsApart
  <2> QED BY <2>1, <2>2, <2>4
<1> QED BY <1>2, <1>4, <1>5 DEF Days

-----------------------------------------------------------------------------
(* What is printed of the records of a file. *)

LEMMA LeastExists ==
    ASSUME NEW ns \in SUBSET Nat, ns # {}
    PROVE  Least(ns) \in ns /\ \A m \in ns : Least(ns) <= m
<1>1. PICK n \in ns : \A m \in ns : ~(<<m, n>> \in OpToRel(<, Nat))
  BY NatLessThanWellFounded, WFMin
<1>2. ASSUME NEW m \in ns PROVE n <= m
  <2> SUFFICES ASSUME m < n PROVE FALSE
    OBVIOUS
  <2>1. <<m, n>> \in OpToRel(<, Nat)
    BY DEF OpToRel
  <2> QED BY <1>1, <2>1
<1> QED BY <1>2 DEF Least

Recs == {recs \in Seq(Entry) : InOrder(recs)}

LEMMA RecsTypes ==
    ASSUME NEW recs \in Recs
    PROVE  /\ recs \in Seq(Entry) /\ Len(recs) \in Nat
           /\ \A k \in 1 .. Len(recs) : recs[k] \in Entry
           /\ \A k \in 2 .. Len(recs) : recs[k] \in Log!Record /\ recs[k].time \in Nat
           /\ \A k, m \in 2 .. Len(recs) : k <= m => recs[k].time <= recs[m].time
           /\ \A k, m \in 2 .. Len(recs) : recs[k] = recs[m] => k = m
<1>1. recs \in Seq(Entry) /\ InOrder(recs)
  BY DEF Recs
<1>2. Len(recs) \in Nat /\ \A k \in 1 .. Len(recs) : recs[k] \in Entry
  BY <1>1, ElementOfSeq, LenProperties
<1>3. \A k \in 2 .. Len(recs) : recs[k] \in Log!Record /\ recs[k].time \in Nat /\ recs[k].at \in Nat
  BY <1>1, BoundsAreNat DEF InOrder, Log!Record
<1>4. ASSUME NEW k \in 2 .. Len(recs), NEW m \in 2 .. Len(recs), k <= m
      PROVE  recs[k].time <= recs[m].time
  <2>1. k = m \/ k < m
    BY <1>2, <1>4
  <2> QED BY <1>1, <1>3, <2>1 DEF InOrder
<1>5. ASSUME NEW k \in 2 .. Len(recs), NEW m \in 2 .. Len(recs), recs[k] = recs[m]
      PROVE  k = m
  <2>1. k = m \/ k < m \/ m < k
    BY <1>2
  <2>2. ~(recs[k].at < recs[m].at) /\ ~(recs[m].at < recs[k].at)
    BY <1>3, <1>5
  <2> QED BY <1>1, <2>1, <2>2 DEF InOrder
<1> QED BY <1>1, <1>2, <1>3, <1>4, <1>5

\* The first record at or after a time, when there is one.
LEMMA FirstAtOrAfter ==
    ASSUME NEW recs \in Recs, NEW t \in Nat, NEW k \in Nat, k >= 2,
           AtOrAfter(recs, t, k) # {}
    PROVE  LET j == Least(AtOrAfter(recs, t, k))
           IN  /\ j \in k .. Len(recs) /\ j \in 2 .. Len(recs) /\ recs[j].time >= t
               /\ \A n \in k .. Len(recs) : n < j => recs[n].time < t
               /\ AtOrAfter(recs, t, k) = j .. Len(recs)
<1> DEFINE ns == AtOrAfter(recs, t, k)
           j == Least(ns)
<1>1. ns \in SUBSET Nat
  BY DEF AtOrAfter
<1>2. j \in ns /\ \A m \in ns : j <= m
  BY <1>1, LeastExists
<1>3. j \in k .. Len(recs) /\ recs[j].time >= t
  BY <1>2 DEF AtOrAfter
<1>4. Len(recs) \in Nat /\ \A n \in k .. Len(recs) : n \in 2 .. Len(recs) /\ recs[n].time \in Nat
  BY RecsTypes
<1>5. \A n \in k .. Len(recs) : n < j => recs[n].time < t
  <2> SUFFICES ASSUME NEW n \in k .. Len(recs), n < j, recs[n].time >= t PROVE FALSE
    BY <1>4
  <2>1. n \in ns
    BY DEF AtOrAfter
  <2> HIDE DEF j
  <2> QED BY <1>2, <1>3, <1>4, <2>1
<1>6. \A n \in j .. Len(recs) : n \in k .. Len(recs) /\ recs[n].time >= t
  <2> TAKE n \in j .. Len(recs)
  <2> HIDE DEF j
  <2>1. n \in 2 .. Len(recs) /\ j \in 2 .. Len(recs) /\ n \in k .. Len(recs) /\ j <= n
    BY <1>3, <1>4
  <2>2. recs[j].time <= recs[n].time
    BY <2>1, RecsTypes
  <2> QED BY <1>3, <1>4, <2>1, <2>2
<1>7. ns \subseteq j .. Len(recs)
  BY <1>2, <1>3, <1>4 DEF AtOrAfter
<1>8. j .. Len(recs) \subseteq ns
  BY <1>6 DEF AtOrAfter
<1> QED BY <1>3, <1>4, <1>5, <1>7, <1>8

\* Of two records of the last second both are printed.
AtMostTwo(recs) ==
    \A k \in 2 .. Len(recs) : k + 2 <= Len(recs) => recs[k].time # recs[k + 2].time

\* A range that starts at record j ends at record l, and leaves nothing out.
LEMMA RangeEnds ==
    ASSUME NEW recs \in Recs, NEW t \in Nat, NEW u \in Nat, StartsIn(recs, t, u)
    PROVE  LET j == Least(AtOrAfter(recs, t, 2))
               l == LastOfRange(recs, j, u)
           IN  /\ j \in 2 .. Len(recs) /\ l \in j .. Len(recs)
               /\ t <= u => \A k \in j .. l : t <= recs[k].time /\ recs[k].time <= u
               /\ \A k \in 2 .. Len(recs) : t <= recs[k].time => j <= k
               /\ AtMostTwo(recs) => \A k \in j .. Len(recs) : recs[k].time <= u => k <= l
<1> DEFINE j == Least(AtOrAfter(recs, t, 2))
           l == LastOfRange(recs, j, u)
           ns == Exactly(recs, u, j)
           n == Least(ns)
           N == Len(recs)
<1> SUFFICES /\ j \in 2 .. N /\ l \in j .. N
             /\ t <= u => \A k \in j .. l : t <= recs[k].time /\ recs[k].time <= u
             /\ \A k \in 2 .. N : t <= recs[k].time => j <= k
             /\ AtMostTwo(recs) => \A k \in j .. N : recs[k].time <= u => k <= l
  OBVIOUS
<1>1. /\ N \in Nat /\ \A k \in 2 .. N : recs[k].time \in Nat
      /\ \A k, m \in 2 .. N : k <= m => recs[k].time <= recs[m].time
  BY RecsTypes
<1>2. /\ j \in 2 .. N /\ recs[j].time >= t
      /\ \A k \in 2 .. N : k < j => recs[k].time < t
  <2>1. AtOrAfter(recs, t, 2) # {}
    BY DEF StartsIn
  <2> QED BY <2>1, FirstAtOrAfter
<1>3. recs[j].time = t \/ recs[j].time <= u
  BY DEF StartsIn
<1>4. l = IF ns = {} THEN N - Cardinality(AtOrAfter(recs, u, j + 1))
          ELSE IF n + 1 \in ns THEN n + 1 ELSE n
  BY DEF LastOfRange
<1>5. \A k : k \in ns <=> k \in j .. N /\ recs[k].time = u
  BY DEF Exactly
<1> HIDE DEF j, ns, l
<1>6. \A k \in 2 .. N : t <= recs[k].time => j <= k
  BY <1>1, <1>2
<1>7. CASE ns # {}
  <2>1. ns \in SUBSET Nat
    BY <1>1, <1>2, <1>5
  <2>2. n \in ns /\ \A m \in ns : n <= m
    BY <1>7, <2>1, LeastExists
  <2> HIDE DEF n
  <2>3. n \in j .. N /\ recs[n].time = u /\ n \in 2 .. N
    BY <1>1, <1>2, <1>5, <2>2
  <2>4. l = IF n + 1 \in ns THEN n + 1 ELSE n
    BY <1>4, <1>7
  <2>5. l \in j .. N /\ recs[l].time = u /\ l \in 2 .. N
    BY <1>1, <1>2, <1>5, <2>3, <2>4
  <2>6. \A k \in j .. l : t <= recs[k].time /\ recs[k].time <= u
    <3> TAKE k \in j .. l
    <3>1. k \in 2 .. N /\ j <= k /\ k <= l
      BY <1>1, <1>2, <2>5
    <3>2. recs[j].time <= recs[k].time /\ recs[k].time <= recs[l].time
      BY <1>1, <1>2, <2>5, <3>1
    <3> QED BY <1>1, <1>2, <2>5, <3>1, <3>2
  <2>7. ASSUME AtMostTwo(recs), NEW k \in j .. N, recs[k].time <= u
        PROVE  k <= l
    <3>1. k \in 2 .. N /\ recs[k].time \in Nat
      BY <1>1, <1>2
    <3>2. SUFFICES ASSUME k > l PROVE FALSE
      BY <1>1, <1>2, <2>5
    <3>3. recs[l].time <= recs[k].time
      BY <1>1, <2>5, <3>1, <3>2
    <3>4. recs[k].time = u
      BY <1>1, <2>5, <2>7, <3>1, <3>3
    <3>5. l = n + 1
      <4> SUFFICES ASSUME l = n PROVE FALSE
        BY <2>4
      <4>1. n + 1 \in 2 .. N /\ n <= n + 1 /\ n + 1 <= k
        BY <1>1, <2>3, <3>1, <3>2
      <4>2. recs[n].time <= recs[n + 1].time /\ recs[n + 1].time <= recs[k].time
        BY <1>1, <2>3, <3>1, <4>1
      <4>3. recs[n + 1].time = u
        BY <1>1, <2>3, <3>4, <4>1, <4>2
      <4>4. n + 1 \in ns
        BY <1>2, <1>5, <2>3, <4>1, <4>3
      <4> QED BY <2>3, <2>4, <4>4
    <3>6. n + 2 \in 2 .. N /\ n <= n + 2 /\ n + 2 <= k
      BY <1>1, <2>3, <3>1, <3>2, <3>5
    <3>7. recs[n].time <= recs[n + 2].time /\ recs[n + 2].time <= recs[k].time
      BY <1>1, <2>3, <3>1, <3>6
    <3>8. recs[n].time = recs[n + 2].time
      BY <1>1, <2>3, <3>4, <3>6, <3>7
    <3> QED BY <2>3, <2>7, <3>6, <3>8 DEF AtMostTwo
  <2> QED BY <1>2, <1>6, <2>5, <2>6, <2>7
<1>8. CASE ns = {}
  <2> DEFINE bs == AtOrAfter(recs, u, j + 1)
             a == Least(bs)
  <2>1. l = N - Cardinality(bs)
    BY <1>4, <1>8
  <2>2. j + 1 \in Nat /\ j + 1 >= 2
    BY <1>1, <1>2
  <2>3. /\ l \in j .. N
        /\ \A k \in j + 1 .. N : k <= l <=> recs[k].time < u
    <3>1. CASE bs = {}
      <4>1. l = N
        <5>1. Cardinality(bs) = 0
          BY <3>1, FS_EmptySet
        <5> HIDE DEF bs
        <5> QED BY <1>1, <2>1, <5>1
      <4>2. \A k \in j + 1 .. N : recs[k].time < u
        BY <1>1, <1>2, <3>1 DEF AtOrAfter
      <4> QED BY <1>1, <1>2, <4>1, <4>2
    <3>2. CASE bs # {}
      <4>1. /\ a \in j + 1 .. N /\ recs[a].time >= u
            /\ \A k \in j + 1 .. N : k < a => recs[k].time < u
            /\ bs = a .. N
        BY <2>2, <3>2, FirstAtOrAfter
      <4> HIDE DEF a
      <4>2. Cardinality(bs) = N - a + 1
        BY <1>1, <1>2, <4>1, FS_Interval
      <4>3. l = a - 1
        BY <1>1, <1>2, <2>1, <4>1, <4>2
      <4>4. \A k \in j + 1 .. N : k >= a => ~(recs[k].time < u)
        BY <1>1, <1>2, <4>1
      <4> QED BY <1>1, <1>2, <4>1, <4>3, <4>4
    <3> QED BY <3>1, <3>2
  <2>4. t <= u => \A k \in j .. l : t <= recs[k].time /\ recs[k].time <= u
    <3> SUFFICES ASSUME t <= u, NEW k \in j .. l
                 PROVE  t <= recs[k].time /\ recs[k].time <= u
      OBVIOUS
    <3>1. k \in 2 .. N /\ j <= k
      BY <1>1, <1>2, <2>3
    <3>2. recs[j].time <= recs[k].time
      BY <1>1, <1>2, <3>1
    <3>3. recs[k].time <= u
      <4>1. CASE k = j
        BY <1>1, <1>2, <1>3, <4>1
      <4>2. CASE k # j
        BY <1>1, <1>2, <2>3, <3>1, <4>2
      <4> QED BY <4>1, <4>2
    <3> QED BY <1>1, <1>2, <3>1, <3>2, <3>3
  <2>5. ASSUME NEW k \in j .. N, recs[k].time <= u
        PROVE  k <= l
    <3>1. k \in 2 .. N
      BY <1>1, <1>2
    <3>2. recs[k].time < u
      BY <1>1, <1>5, <1>8, <2>5, <3>1
    <3> QED BY <1>1, <1>2, <2>3, <3>1, <3>2
  <2> QED BY <1>2, <1>6, <2>3, <2>4, <2>5
<1> QED BY <1>7, <1>8

\* print_iframe_info prints records of the file, in order, each once: those of the
\* range, and all of them when no second has more than two.
LEMMA PrintedRange ==
    ASSUME NEW recs \in Recs, NEW t \in Nat, NEW u \in Nat
    PROVE  LET P == PrintedOf(recs, t, u)
           IN  /\ P \in Seq(Log!Record) /\ Len(P) \in Nat
               /\ \A k \in 1 .. Len(P) : \E n \in 2 .. Len(recs) : P[k] = recs[n]
               /\ t <= u => \A k \in 1 .. Len(P) : t <= P[k].time /\ P[k].time <= u
               /\ \A k, m \in 1 .. Len(P) :
                     k < m => P[k].time <= P[m].time /\ P[k] # P[m]
               /\ AtMostTwo(recs) =>
                     \A n \in 2 .. Len(recs) :
                         t <= recs[n].time /\ recs[n].time <= u =>
                             \E k \in 1 .. Len(P) : P[k] = recs[n]
<1> DEFINE P == PrintedOf(recs, t, u)
           j == Least(AtOrAfter(recs, t, 2))
           l == LastOfRange(recs, j, u)
           N == Len(recs)
<1> SUFFICES /\ P \in Seq(Log!Record) /\ Len(P) \in Nat
             /\ \A k \in 1 .. Len(P) : \E n \in 2 .. N : P[k] = recs[n]
             /\ t <= u => \A k \in 1 .. Len(P) : t <= P[k].time /\ P[k].time <= u
             /\ \A k, m \in 1 .. Len(P) :
                   k < m => P[k].time <= P[m].time /\ P[k] # P[m]
             /\ AtMostTwo(recs) =>
                   \A n \in 2 .. N :
                       t <= recs[n].time /\ recs[n].time <= u =>
                           \E k \in 1 .. Len(P) : P[k] = recs[n]
  OBVIOUS
<1>1. /\ N \in Nat /\ \A k \in 2 .. N : recs[k] \in Log!Record /\ recs[k].time \in Nat
      /\ \A k, m \in 2 .. N : k <= m => recs[k].time <= recs[m].time
      /\ \A k, m \in 2 .. N : recs[k] = recs[m] => k = m
  BY RecsTypes
<1>2. CASE StartsIn(recs, t, u)
  <2>1. P = SubSeq(recs, j, l)
    BY <1>2 DEF PrintedOf
  <2>2. /\ j \in 2 .. N /\ l \in j .. N
        /\ t <= u => \A k \in j .. l : t <= recs[k].time /\ recs[k].time <= u
        /\ \A k \in 2 .. N : t <= recs[k].time => j <= k
        /\ AtMostTwo(recs) => \A k \in j .. N : recs[k].time <= u => k <= l
    BY <1>2, RangeEnds
  <2> HIDE DEF P, j, l
  <2>3. \A k \in j .. l : k \in 2 .. N
    BY <1>1, <2>2
  <2>4. j \in Int /\ l \in Int /\ j <= l
    BY <1>1, <2>2
  <2>5. \A k \in j .. l : recs[k] \in Log!Record
    BY <1>1, <2>3
  <2>6. /\ P \in Seq(Log!Record) /\ Len(P) = l - j + 1
        /\ \A k \in 1 .. l - j + 1 : P[k] = recs[j + k - 1]
    BY <2>1, <2>4, <2>5, SubSeqProperties
  <2>7. \A k \in 1 .. Len(P) : /\ j + k - 1 \in j .. l /\ j + k - 1 \in 2 .. N
                               /\ P[k] = recs[j + k - 1]
    BY <1>1, <2>2, <2>3, <2>4, <2>6
  <2>8. ASSUME NEW k \in 1 .. Len(P), NEW m \in 1 .. Len(P), k < m
        PROVE  P[k].time <= P[m].time /\ P[k] # P[m]
    <3>1. j + k - 1 <= j + m - 1 /\ j + k - 1 # j + m - 1
      BY <2>4, <2>6, <2>8
    <3> QED BY <1>1, <2>7, <3>1
  <2>9. ASSUME AtMostTwo(recs), NEW n \in 2 .. N, t <= recs[n].time, recs[n].time <= u
        PROVE  \E k \in 1 .. Len(P) : P[k] = recs[n]
    <3>1. j <= n
      BY <2>2, <2>9
    <3>2. n \in j .. N
      BY <1>1, <2>2, <3>1
    <3>3. n <= l
      BY <2>2, <2>9, <3>2
    <3>4. n - j + 1 \in 1 .. Len(P) /\ j + (n - j + 1) - 1 = n
      BY <1>1, <2>4, <2>6, <3>2, <3>3
    <3>5. P[n - j + 1] = recs[n]
      BY <2>7, <3>4
    <3> QED BY <3>4, <3>5
  <2>10. Len(P) \in Nat
    BY <2>4, <2>6
  <2> HIDE DEF N
  <2> QED BY <2>2, <2>6, <2>7, <2>8, <2>9, <2>10
<1>3. CASE ~StartsIn(recs, t, u)
  <2>1. P = << >>
    BY <1>3 DEF PrintedOf
  <2>2. P \in Seq(Log!Record) /\ Len(P) = 0
    BY <2>1, EmptySeq
  <2>3. ASSUME NEW n \in 2 .. N, t <= recs[n].time, recs[n].time <= u PROVE FALSE
    <3>1. n \in AtOrAfter(recs, t, 2)
      BY <1>1, <2>3 DEF AtOrAfter
    <3>2. j \in 2 .. N /\ AtOrAfter(recs, t, 2) = j .. N
      BY <3>1, FirstAtOrAfter
    <3> HIDE DEF j
    <3>3. j <= n
      BY <1>1, <3>1, <3>2
    <3>4. recs[j].time <= recs[n].time
      BY <1>1, <3>2, <3>3
    <3>5. recs[j].time <= u
      BY <1>1, <2>3, <3>2, <3>4
    <3> QED BY <1>3, <3>1, <3>5 DEF StartsIn, j
  <2> HIDE DEF P
  <2> QED BY <2>2, <2>3
<1> QED BY <1>2, <1>3

\* The same of a name of it.
LEMMA PrintedRangeOf ==
    ASSUME NEW recs \in Recs, NEW t \in Nat, NEW u \in Nat, NEW P, P = PrintedOf(recs, t, u)
    PROVE  /\ P \in Seq(Log!Record) /\ Len(P) \in Nat
           /\ t <= u => \A k \in 1 .. Len(P) : t <= P[k].time /\ P[k].time <= u
           /\ \A k, m \in 1 .. Len(P) : k < m => P[k] # P[m]
           /\ AtMostTwo(recs) =>
                 \A n \in 2 .. Len(recs) :
                     t <= recs[n].time /\ recs[n].time <= u =>
                         \E k \in 1 .. Len(P) : P[k] = recs[n]
<1> DEFINE Q == PrintedOf(recs, t, u)
<1>1. /\ Q \in Seq(Log!Record) /\ Len(Q) \in Nat
      /\ t <= u => \A k \in 1 .. Len(Q) : t <= Q[k].time /\ Q[k].time <= u
      /\ \A k, m \in 1 .. Len(Q) : k < m => Q[k].time <= Q[m].time /\ Q[k] # Q[m]
      /\ AtMostTwo(recs) =>
            \A n \in 2 .. Len(recs) :
                t <= recs[n].time /\ recs[n].time <= u =>
                    \E k \in 1 .. Len(Q) : Q[k] = recs[n]
  BY PrintedRange
<1>2. P = Q
  OBVIOUS
<1> HIDE DEF Q
<1>3. /\ P \in Seq(Log!Record) /\ Len(P) \in Nat
      /\ t <= u => \A k \in 1 .. Len(P) : t <= P[k].time /\ P[k].time <= u
  BY <1>1, <1>2
<1>4. \A k, m \in 1 .. Len(P) : k < m => P[k] # P[m]
  BY <1>1, <1>2
<1>5. AtMostTwo(recs) =>
          \A n \in 2 .. Len(recs) :
              t <= recs[n].time /\ recs[n].time <= u =>
                  \E k \in 1 .. Len(P) : P[k] = recs[n]
  BY <1>1, <1>2
<1> QED BY <1>3, <1>4, <1>5

-----------------------------------------------------------------------------
(* The steps of both threads, as far as they change the files. *)

LEMMA UnchangedKeeps ==
    ASSUME FilesInv, UNCHANGED logVars
    PROVE  KeepsRecords
<1>1. UNCHANGED <<names, index, sealing>> /\ Paths' = Paths
  BY DEF logVars, Paths, Path, TmpPath, Log!Tmp
<1>2. \A p \in DOMAIN index : Len(index[p]) \in Nat
  BY IndexTypes DEF FilesInv
<1>3. AddsEmpty
  BY <1>1, <1>2 DEF AddsEmpty, Log!HasRecords
<1>4. FilesTyped'
  BY <1>1 DEF FilesInv, FilesTyped, TmpPath, Log!Tmp
<1> QED BY <1>1, <1>3, <1>4 DEF KeepsRecords

LEMMA OpenedKeeps ==
    ASSUME FilesInv, NEW p \in Paths, index' = Opened(p), UNCHANGED <<names, sealing>>
    PROVE  KeepsRecords /\ p \in DOMAIN index'
<1>1. Paths' = Paths
  BY DEF Paths, Path, TmpPath, Log!Tmp
<1>2. \A q \in DOMAIN index : Len(index[q]) \in Nat
  BY IndexTypes DEF FilesInv
<1>3. << >> \in Seq(Entry) /\ Len(<< >>) = 0
  BY EmptySeq
<1>4. CASE p \in DOMAIN index
  <2>1. UNCHANGED logVars
    BY <1>4 DEF Opened, logVars
  <2> QED BY <1>4, <2>1, UnchangedKeeps DEF logVars
<1>5. CASE p \notin DOMAIN index
  <2>1. index' = [q \in DOMAIN index \cup {p} |-> IF q = p THEN << >> ELSE index[q]]
    BY <1>5 DEF Opened
  <2>2. AddsEmpty
    BY <1>2, <1>3, <1>5, <2>1 DEF AddsEmpty, Log!HasRecords
  <2>3. FilesTyped'
    BY <1>1, <1>3, <2>1 DEF FilesInv, FilesTyped, TmpPath, Log!Tmp
  <2> QED BY <2>1, <2>2, <2>3 DEF KeepsRecords
<1> QED BY <1>4, <1>5

LEMMA OpenVideoKeeps ==
    ASSUME FilesInv, names' = names \cup {TmpPath}, UNCHANGED <<index, sealing>>
    PROVE  KeepsRecords
<1>1. Paths' = Paths
  BY DEF Paths, Path, TmpPath, Log!Tmp
<1>2. \A p \in DOMAIN index : Len(index[p]) \in Nat
  BY IndexTypes DEF FilesInv
<1>3. AddsEmpty
  BY <1>2 DEF AddsEmpty, Log!HasRecords
<1>4. FilesTyped'
  BY <1>1, PathFacts DEF FilesInv, FilesTyped, TmpPath, Log!Tmp
<1> QED BY <1>3, <1>4 DEF KeepsRecords

\* The recorder makes the tmp files, or finds them without a record.
MakesTmp == Log!MakeVideo(TmpPath) \/ Log!MakeIndex(TmpPath) \/ Log!InitIndex(TmpPath)

LEMMA MakesTmpKeeps ==
    ASSUME FilesInv, MakesTmp
    PROVE  KeepsRecords
<1>1. Paths' = Paths
  BY DEF Paths, Path, TmpPath, Log!Tmp
<1>2. \A q \in DOMAIN index : Len(index[q]) \in Nat
  BY IndexTypes DEF FilesInv
<1>3. CASE Log!MakeVideo(TmpPath)
  BY <1>3, OpenVideoKeeps DEF Log!MakeVideo
<1>4. CASE Log!MakeIndex(TmpPath)
  <2>1. index' = Opened(TmpPath) /\ UNCHANGED <<names, sealing>>
    BY <1>4 DEF Log!MakeIndex, Opened
  <2> QED BY <2>1, OpenedKeeps, PathFacts
<1>5. CASE Log!InitIndex(TmpPath)
  <2>1. /\ ~Log!HasRecords(TmpPath) /\ TmpPath \in DOMAIN index /\ UNCHANGED <<names, sealing>>
        /\ index' = [index EXCEPT ![TmpPath] = <<Log!Zero>>]
    BY <1>5 DEF Log!InitIndex
  <2>2. <<Log!Zero>> \in Seq(Entry) /\ Len(<<Log!Zero>>) = 1
    BY DEF Entry
  <2>3. /\ DOMAIN index' = DOMAIN index /\ index'[TmpPath] = <<Log!Zero>>
        /\ \A q \in DOMAIN index \ {TmpPath} : index'[q] = index[q]
    BY <2>1
  <2>4. AddsEmpty
    BY <1>2, <2>1, <2>2, <2>3 DEF AddsEmpty, Log!HasRecords
  <2>5. FilesTyped'
    BY <1>1, <2>1, <2>2 DEF FilesInv, FilesTyped, TmpPath, Log!Tmp
  <2> QED BY <2>1, <2>4, <2>5 DEF KeepsRecords
<1> QED BY <1>3, <1>4, <1>5 DEF MakesTmp

-----------------------------------------------------------------------------
(* The search. *)

\* The terminal has tmp.index open.
FdOpen == step \in {"open_video", "first", "last", "print", "second"}

SearchInv ==
    /\ TerminalTypeOK
    /\ step # "done" => pc = "free"
    /\ listing # << >> => pc = "date"
    /\ FdOpen => fd \in DOMAIN index
    /\ pc = "output" /\ from <= to /\ timeseg # << >> => start <= end

TermInv == PlanInv /\ OutInv /\ FilesInv /\ SearchInv

LEMMA TermTypes ==
    ASSUME TermInv
    PROVE  /\ shown \in Seq(Entry) /\ Len(shown) \in Nat
           /\ \A k \in 1 .. Len(shown) : shown[k] \in Entry /\ shown[k].time \in Nat
           /\ {from, to, start, end} \subseteq Times /\ {from, to, start, end} \subseteq Nat
           /\ next \in Nat /\ next >= 2
           /\ \A p \in DOMAIN index : index[p] \in Recs
<1>1. shown \in Seq(Entry)
  BY DEF TermInv, SearchInv, TerminalTypeOK, Entry
<1>2. \A r \in Entry : r.time \in Nat
  BY BoundsAreNat DEF Entry, Log!Record, Log!Zero
<1>3. Len(shown) \in Nat /\ \A k \in 1 .. Len(shown) : shown[k] \in Entry /\ shown[k].time \in Nat
  BY <1>1, <1>2, LenProperties, ElementOfSeq
<1>4. {from, to, start, end} \subseteq Times /\ Times \subseteq Nat
  BY DEF TermInv, PlanInv, TypeOK, Times
<1>5. next \in Nat /\ next >= 2
  BY BoundsAreNat DEF TermInv, SearchInv, TerminalTypeOK
<1>6. \A p \in DOMAIN index : index[p] \in Recs
  BY IndexTypes DEF TermInv, FilesInv, FilesInOrder, Recs
<1> QED BY <1>1, <1>3, <1>4, <1>5, <1>6

\* The range a turn of the loop prints is of a listed segment, and lies in the interval
\* behind those printed before.
LEMMA OutputRange ==
    ASSUME TermInv, Plan, out' # out
    PROVE  LET N == Len(out)
               range == out'[Len(out')]
           IN  /\ pc = "output" /\ pc' \in {"output", "tmp"}
               /\ UNCHANGED <<timeseg, cnt, from, to, flag>>
               /\ timeseg # << >> /\ range.seg = i /\ i \in 1 .. Len(timeseg)
               /\ timeseg[i] \in Segment
               /\ range.from \in Times /\ range.to \in Times
               /\ N \in Nat /\ Len(out') = N + 1 /\ range = out'[N + 1]
               /\ \A n \in 1 .. N : out'[n] = out[n]
               /\ from <= to => /\ from <= range.from /\ range.from <= range.to
                                /\ range.to <= to
                                /\ \A n \in 1 .. N : out[n].to < range.from
<1> DEFINE N == Len(out)
           range == out'[Len(out')]
           first == IF start < timeseg[i].start THEN timeseg[i].start ELSE start
<1>1. PlanInv /\ OutInv /\ OutInv' /\ PlanInv' /\ SearchInv
  BY PlanInvPreserved, OutInvPreserved DEF TermInv, Next, Search
<1>2. PrintLast \/ PrintAndGoOn
  BY DEF Plan, Check, Skip, OutputDone, plan
<1>3. /\ pc = "output" /\ Looping /\ pc' \in {"output", "tmp"}
      /\ UNCHANGED <<timeseg, cnt, from, to, flag>> /\ IsPrinted(timeseg[i])
  BY <1>2 DEF PrintLast, PrintAndGoOn, GoesBeyond, Looping
<1>4. /\ i \in 1 .. Len(timeseg) /\ IsDay /\ timeseg # << >> /\ i \in 1 .. MaxSegs
      /\ {start, end, from, to} \subseteq Times /\ {start, end, from, to} \subseteq Int
  BY <1>1, <1>3, LoopsInArray
<1>5. /\ timeseg[i] \in Segment /\ timeseg[i].start \in Times /\ timeseg[i].end \in Times
      /\ timeseg[i].start \in Int /\ timeseg[i].end \in Int
      /\ timeseg[i].start <= timeseg[i].end
  BY <1>4, FirstAndLast, SegmentTimes
<1>6. PICK last \in Times : /\ PrintRange(last)
                            /\ last = end \/ last = timeseg[i].end
                            /\ from <= to => first <= last
  <2>1. CASE PrintLast
    <3>1. PrintRange(end)
      BY <2>1 DEF PrintLast
    <3>2. from <= to => first <= end
      BY <1>1, <1>3, <1>4, <1>5 DEF IsPrinted, SearchInv
    <3> QED BY <1>4, <3>1, <3>2
  <2>2. CASE PrintAndGoOn
    <3>1. PrintRange(timeseg[i].end)
      BY <2>2 DEF PrintAndGoOn
    <3>2. first <= timeseg[i].end
      BY <1>3, <1>4, <1>5 DEF IsPrinted
    <3> QED BY <1>5, <3>1, <3>2
  <2> QED BY <1>2, <2>1, <2>2
<1>7. out \in Seq([seg : 1 .. MaxSegs, from : Times, to : Times])
  BY <1>1 DEF PlanInv, TypeOK
<1>8. [seg |-> i, from |-> first, to |-> last] \in [seg : 1 .. MaxSegs, from : Times, to : Times]
  BY <1>4, <1>5
<1>9. out' = Append(out, [seg |-> i, from |-> first, to |-> last])
  BY <1>6 DEF PrintRange
<1>10. /\ N \in Nat /\ Len(out') = N + 1 /\ range = [seg |-> i, from |-> first, to |-> last]
       /\ range = out'[N + 1] /\ \A n \in 1 .. N : out'[n] = out[n]
  BY <1>7, <1>8, <1>9, AppendProperties, LenProperties
<1>11. from <= to => /\ from <= range.from /\ range.from <= range.to /\ range.to <= to
                     /\ \A n \in 1 .. N : out[n].to < range.from
  <2> SUFFICES ASSUME from <= to
               PROVE  /\ from <= range.from /\ range.from <= range.to /\ range.to <= to
                      /\ \A n \in 1 .. N : out[n].to < range.from
    OBVIOUS
  <2>1. Sound'
    BY <1>1, <1>3 DEF OutInv
  <2>2. range.from = first /\ range.to = last
    BY <1>10
  <2>3. N + 1 \in 1 .. Len(out') /\ \A n \in 1 .. N : n \in 1 .. Len(out') /\ n < N + 1
    BY <1>10
  <2>4. from <= out'[N + 1].from /\ out'[N + 1].to <= to
    BY <1>3, <2>1, <2>3 DEF Sound
  <2>5. \A n \in 1 .. N : out'[n].to < out'[N + 1].from
    BY <2>1, <2>3 DEF Sound
  <2> HIDE DEF range, first, N
  <2> QED BY <1>6, <1>10, <2>2, <2>4, <2>5
<1> HIDE DEF range
<1>12. range.seg = i /\ range.from \in Times /\ range.to \in Times
  BY <1>4, <1>5, <1>10
<1> HIDE DEF first, N
<1> QED BY <1>3, <1>4, <1>5, <1>10, <1>11, <1>12 DEF range, N

\* All entries of a file, and their times.
LEMMA EntriesOf ==
    ASSUME TermInv, NEW p \in DOMAIN index
    PROVE  /\ index[p] \in Recs /\ Len(index[p]) \in Nat
           /\ Len(index[p]) <= MaxRecords + 1
           /\ \A k \in 1 .. Len(index[p]) : index[p][k] \in Entry /\ index[p][k].time \in Times
           /\ index[p] # << >> => index[p][Len(index[p])].time \in Times
<1>1. index[p] \in Recs /\ Len(index[p]) \in Nat /\ Len(index[p]) <= MaxRecords + 1
  BY TermTypes, RecsTypes, RecordsInFile DEF TermInv
<1>2. \A r \in Entry : r.time \in Times
  BY BoundsAreNat DEF Entry, Log!Record, Log!Zero, Times
<1>3. \A k \in 1 .. Len(index[p]) : index[p][k] \in Entry /\ index[p][k].time \in Times
  BY <1>1, <1>2, RecsTypes
<1>4. index[p] # << >> => Len(index[p]) \in 1 .. Len(index[p])
  BY <1>1, RecsTypes, EmptySeq
<1> QED BY <1>1, <1>3, <1>4

-----------------------------------------------------------------------------
(* Types, and that the terminal reads files that are there. *)

Steps == {"done", "open_index", "open_video", "first", "last", "print", "second"}

LEMMA TypeOKFrom ==
    ASSUME FilesTyped', listing' \in Days, step' \in Steps, fd' \in Paths,
           paired' \in BOOLEAN, raced' \subseteq Log!Record, next' \in 2 .. MaxRecords + 2,
           asked' \subseteq Log!Record, shown' \in Seq(Entry)
    PROVE  TerminalTypeOK'
<1>1. Paths = {TmpPath} \cup {Path(s) : s \in Segment}
  BY DEF Paths
<1>2. FilesTyped' => /\ names' \subseteq Paths /\ DOMAIN index' \subseteq Paths
                     /\ sealing' \subseteq {TmpPath}
  BY DEF FilesTyped, Paths, Path, TmpPath, Log!Tmp
<1> QED BY <1>1, <1>2 DEF TerminalTypeOK, Steps, Entry, Path, TmpPath, Log!Tmp, Log!Zero, Log!Record, Segment, Times

LEMMA TypeOKGives ==
    ASSUME TermInv
    PROVE  /\ listing \in Days /\ step \in Steps /\ fd \in Paths
           /\ paired \in BOOLEAN /\ raced \subseteq Log!Record /\ next \in 2 .. MaxRecords + 2
           /\ asked \subseteq Log!Record /\ shown \in Seq(Entry)
BY DEF TermInv, SearchInv, TerminalTypeOK, Steps, Paths, Entry

\* What a step of the plan, or one that leaves it alone, does to its invariant.
LEMMA PlanSteps ==
    ASSUME PlanInv, OutInv,
           \/ Next \/ UNCHANGED vars
           \/ pc' = "crashed" /\ UNCHANGED <<timeseg, cnt, plan>>
           \/ /\ pc = "free" /\ UNCHANGED <<timeseg, cnt, from, to, flag, i, out, pc>>
              /\ start' \in Times /\ end' \in Times
    PROVE  PlanInv' /\ OutInv'
<1>1. CASE Next \/ UNCHANGED vars
  BY <1>1, PlanInvPreserved, OutInvPreserved
<1>2. CASE pc' = "crashed" /\ UNCHANGED <<timeseg, cnt, plan>>
  BY <1>2 DEF PlanInv, OutInv, TypeOK, Bounded, FlagSet, Printing, plan
<1>3. CASE /\ pc = "free" /\ UNCHANGED <<timeseg, cnt, from, to, flag, i, out, pc>>
           /\ start' \in Times /\ end' \in Times
  BY <1>3 DEF PlanInv, OutInv, TypeOK, Bounded, FlagSet, Printing
<1> QED BY <1>1, <1>2, <1>3

LEMMA RecordsTyped ==
    ASSUME TermInv
    PROVE  AllRecords \subseteq Log!Record /\ TmpRecords \subseteq AllRecords
<1>1. AllRecords \subseteq Log!Record
  BY RecordsOf DEF TermInv, FilesInv
<1>2. TmpRecords \subseteq AllRecords
  BY DEF TmpRecords, AllRecords
<1> QED BY <1>1, <1>2

LEMMA TermInvInit == TerminalInit => TermInv
<1> SUFFICES ASSUME TerminalInit PROVE TermInv
  OBVIOUS
<1>1. /\ names = {} /\ index = [p \in {} |-> << >>] /\ sealing = {}
      /\ timeseg = << >> /\ cnt \in 0 .. MaxSegs /\ from = 0 /\ to = 0 /\ start = 0 /\ end = 0
      /\ flag = 0 /\ i = 1 /\ out = << >> /\ pc = "date" /\ listing = << >>
      /\ step = "done" /\ fd = TmpPath /\ paired = TRUE /\ next = 2
      /\ asked = {} /\ raced = {} /\ shown = << >>
  BY DEF TerminalInit, Log!Init
<1>2. PlanInv /\ OutInv
  <2>1. TypeOK
    <3>1. out \in Seq([seg : 1 .. MaxSegs, from : Times, to : Times])
      BY <1>1, EmptySeq
    <3>2. 0 \in Times /\ 1 \in 1 .. MaxSegs + 1
      BY PlanAssumption DEF Times
    <3> QED BY <1>1, <3>1, <3>2, NoDayIsADay DEF TypeOK
  <2> QED BY <1>1, <2>1 DEF PlanInv, Bounded, FlagSet, OutInv, Printing
<1>3. FilesInv
  <2>1. DOMAIN index = {} /\ AllRecords = {}
    BY <1>1 DEF AllRecords
  <2>2. FilesTyped
    BY <1>1, <2>1 DEF FilesTyped
  <2>3. RecordsCounted
    BY <2>1, FS_EmptySet, BoundsAreNat DEF RecordsCounted
  <2> QED BY <1>1, <2>1, <2>2, <2>3 DEF FilesInv, FilesInOrder, FilesApart, SealInHand, NamesTrue
<1>4. SearchInv
  <2>1. shown \in Seq(Entry) /\ 2 \in 2 .. MaxRecords + 2
    BY <1>1, EmptySeq, BoundsAreNat
  <2>2. TerminalTypeOK
    BY <1>1, <1>3, <2>1, NoDayIsADay, PathFacts DEF TerminalTypeOK, FilesInv, FilesTyped, Entry, Paths
  <2> QED BY <1>1, <2>2 DEF SearchInv, FdOpen
<1> QED BY <1>2, <1>3, <1>4 DEF TermInv

LEMMA TermInvRecorder ==
    ASSUME TermInv, Recorder
    PROVE  TermInv' /\ AllRecords \subseteq AllRecords'
<1>1. /\ UNCHANGED <<vars, listing, step, paired, next, asked, shown>>
      /\ raced' \subseteq Log!Record
  BY TypeOKGives, RecordsTyped DEF Recorder
<1>2. PlanInv' /\ OutInv'
  BY <1>1, PlanSteps DEF TermInv
<1>3. /\ FilesInv' /\ AllRecords \subseteq AllRecords'
      /\ fd' \in Paths /\ (FdOpen => fd' \in DOMAIN index')
  <2>1. CASE MakesTmp /\ UNCHANGED fd
    <3>1. KeepsRecords
      BY <2>1, MakesTmpKeeps DEF TermInv
    <3> QED BY <2>1, <3>1, AddsEmptyKeeps, TypeOKGives DEF TermInv, SearchInv, KeepsRecords, AddsEmpty
  <2>2. CASE (\E t \in 1 .. MaxTime : Put(t)) /\ UNCHANGED fd
    <3>1. PICK t \in 1 .. MaxTime : Put(t)
      BY <2>2
    <3>2. DOMAIN index' = DOMAIN index /\ AllRecords \subseteq AllRecords'
      BY <3>1, PutEffect DEF TermInv
    <3> QED BY <2>2, <3>1, <3>2, PutKeeps, TypeOKGives DEF TermInv, SearchInv
  <2>3. CASE Log!SealVideo(TmpPath) /\ UNCHANGED fd
    <3>1. FilesInv' /\ UNCHANGED index
      BY <2>3, SealVideoKeeps DEF TermInv
    <3> QED BY <2>3, <3>1, TypeOKGives DEF TermInv, SearchInv, AllRecords
  <2>4. CASE /\ Log!SealIndex(TmpPath)
             /\ fd' = IF fd = TmpPath /\ step # "done" THEN Log!SealedAs(TmpPath) ELSE fd
    <3>1. /\ Log!SealedAs(TmpPath) \in Paths /\ AllRecords' = AllRecords
          /\ DOMAIN index' = (DOMAIN index \ {TmpPath}) \cup {Log!SealedAs(TmpPath)}
      BY <2>4, SealIndexEffect DEF TermInv
    <3>2. FdOpen => fd' \in DOMAIN index'
      BY <2>4, <3>1 DEF TermInv, SearchInv, FdOpen
    <3>3. FilesInv'
      BY <2>4, SealIndexKeeps DEF TermInv
    <3> QED BY <2>4, <3>1, <3>2, <3>3, TypeOKGives
  <2> QED BY <2>1, <2>2, <2>3, <2>4 DEF Recorder, MakesTmp
<1>4. TerminalTypeOK'
  BY <1>1, <1>3, TypeOKFrom, TypeOKGives DEF FilesInv
<1>5. SearchInv'
  BY <1>1, <1>3, <1>4 DEF TermInv, SearchInv, FdOpen, vars
<1> QED BY <1>2, <1>3, <1>5 DEF TermInv

\* The steps of the terminal that leave the files alone, but for new empty ones.
LEMMA TermInvFrom ==
    ASSUME TermInv, KeepsRecords, PlanInv', OutInv',
           listing' \in Days, step' \in Steps, fd' \in Paths,
           paired' \in BOOLEAN, raced' \subseteq Log!Record, next' \in 2 .. MaxRecords + 2,
           asked' \subseteq Log!Record, shown' \in Seq(Entry),
           step' # "done" => pc' = "free", listing' # << >> => pc' = "date",
           FdOpen' => fd' \in DOMAIN index',
           pc' = "output" /\ from' <= to' /\ timeseg' # << >> => start' <= end'
    PROVE  TermInv' /\ AllRecords \subseteq AllRecords'
<1>1. FilesInv' /\ AllRecords' = AllRecords
  BY AddsEmptyKeeps DEF TermInv
<1>2. TerminalTypeOK'
  BY TypeOKFrom DEF KeepsRecords
<1> QED BY <1>1, <1>2 DEF TermInv, SearchInv

LEMMA TermInvListing ==
    ASSUME TermInv, Count \/ FillArray \/ Prompt
    PROVE  TermInv' /\ AllRecords \subseteq AllRecords'
<1>1. KeepsRecords /\ UNCHANGED <<logVars, tmpVars, shown>>
  BY UnchangedKeeps DEF TermInv, Count, FillArray, Prompt, histVars
<1>2. /\ UNCHANGED <<names, index, sealing, step, fd, paired, next, shown>>
      /\ AllRecords \subseteq Log!Record /\ TmpRecords \subseteq AllRecords
  BY <1>1, RecordsTyped DEF logVars, tmpVars
<1>3. PlanInv' /\ OutInv' /\ listing' \in Days
  <2>1. CASE Count
    BY <2>1, ListingIsADay, NoDayIsADay, PlanSteps, TypeOKGives DEF Count, TermInv, Next
  <2>2. CASE FillArray
    <3>1. PICK d \in {listing, Listing} :
             \/ Fill(d)
             \/ Len(d) > Len(listing) /\ pc' = "crashed" /\ UNCHANGED <<timeseg, cnt, plan>>
      BY <2>2 DEF FillArray
    <3>2. d \in Days
      BY ListingIsADay, TypeOKGives DEF TermInv
    <3>3. listing' \in Days
      BY <2>2, NoDayIsADay DEF FillArray
    <3> QED BY <3>1, <3>2, <3>3, PlanSteps DEF TermInv, Next
  <2>3. CASE Prompt
    BY <2>3, PlanSteps, TypeOKGives DEF Prompt, TermInv, Next
  <2> QED BY <2>1, <2>2, <2>3
<1>4. asked' \subseteq Log!Record /\ raced' \subseteq Log!Record
  BY <1>2, TypeOKGives DEF Count, FillArray, Prompt, histVars
<1>5. /\ pc # "free" /\ pc' # "free" /\ pc' # "output"
      /\ listing' # << >> => pc' = "date"
  <2>1. CASE Count
    BY <2>1 DEF Count, Fill, vars
  <2>2. CASE FillArray
    BY <2>2 DEF FillArray, Fill, TermInv, SearchInv
  <2>3. CASE Prompt
    BY <2>3, TypeOKGives DEF Prompt, List, GetTime, histVars, TermInv, SearchInv
  <2> QED BY <2>1, <2>2, <2>3
<1>6. step = "done"
  BY <1>5 DEF TermInv, SearchInv
<1> QED BY <1>1, <1>2, <1>3, <1>4, <1>5, <1>6, TermInvFrom, TypeOKGives DEF FdOpen

LEMMA PrintSegmentKeeps ==
    ASSUME TermInv, Plan, out' # out, PrintSegment
    PROVE  /\ KeepsRecords /\ Path(timeseg[i]) \in DOMAIN index'
           /\ index'[Path(timeseg[i])] \in Recs
           /\ shown' = shown \o PrintedOf(index'[Path(timeseg[i])],
                                          out'[Len(out')].from, out'[Len(out')].to)
           /\ shown' \in Seq(Entry)
<1> DEFINE range == out'[Len(out')]
           p == Path(timeseg[i])
           P == PrintedOf(index'[p], range.from, range.to)
<1>1. /\ range.seg = i /\ timeseg[i] \in Segment /\ range.from \in Nat /\ range.to \in Nat
  BY OutputRange DEF Times
<1>2. /\ index' = Opened(p) /\ UNCHANGED <<names, sealing>>
      /\ shown' = shown \o P
  BY <1>1 DEF PrintSegment
<1>3. p \in Paths
  BY <1>1, PathFacts
<1>4. KeepsRecords /\ p \in DOMAIN index'
  BY <1>2, <1>3, OpenedKeeps DEF TermInv
<1>5. index'[p] \in Recs
  <2>1. FilesInv'
    BY <1>4, AddsEmptyKeeps DEF TermInv
  <2> HIDE DEF p
  <2>2. index'[p] \in Seq(Entry) /\ InOrder(index'[p])
    BY <1>4, <2>1 DEF FilesInv, FilesTyped, FilesInOrder, Entry, Log!Record, Log!Zero
  <2> QED BY <2>2 DEF Recs
<1>6. P \in Seq(Entry)
  <2>1. P \in Seq(Log!Record)
    BY <1>1, <1>5, PrintedRange
  <2> HIDE DEF P
  <2> QED BY <2>1, SeqMonotonic DEF Entry
<1>7. shown' \in Seq(Entry)
  <2> HIDE DEF P
  <2> QED BY <1>2, <1>6, TypeOKGives, ConcatProperties
<1> QED BY <1>2, <1>4, <1>5, <1>7

LEMMA TermInvOutput ==
    ASSUME TermInv, Output
    PROVE  TermInv' /\ AllRecords \subseteq AllRecords'
<1>1. Plan /\ UNCHANGED <<listing, tmpVars, asked, raced>>
  BY DEF Output
<1>2. UNCHANGED <<listing, step, fd, paired, next, asked, raced>>
  BY <1>1 DEF tmpVars
<1>3. PlanInv' /\ OutInv'
  BY <1>1, PlanSteps DEF TermInv, Next, Search
<1>4. KeepsRecords /\ shown' \in Seq(Entry)
  <2>1. CASE out' # out /\ PrintSegment
    BY <1>1, <2>1, PrintSegmentKeeps
  <2>2. CASE UNCHANGED <<logVars, shown>>
    BY <2>2, UnchangedKeeps, TypeOKGives DEF TermInv
  <2> QED BY <2>1, <2>2 DEF Output
<1>5. pc # "free" /\ pc # "date"
  BY <1>1 DEF Plan, Check, Skip, PrintLast, PrintAndGoOn, OutputDone, Looping, GoesBeyond
<1>6. step = "done" /\ listing = << >>
  BY <1>5 DEF TermInv, SearchInv
<1>7. pc' = "output" /\ from' <= to' /\ timeseg' # << >> => start' <= end'
  <2> SUFFICES ASSUME pc' = "output", from' <= to', timeseg' # << >> PROVE start' <= end'
    OBVIOUS
  <2>1. {from, to, start, end} \subseteq Nat /\ TypeOK
    BY TermTypes DEF TermInv, PlanInv
  <2>2. CASE Check
    <3>1. CASE timeseg = << >>
      BY <2>2, <3>1 DEF Check
    <3>2. CASE timeseg # << >>
      <4>1. First \in Segment /\ Last \in Segment
        <5>1. IsDay /\ 1 \in 1 .. Len(timeseg)
          BY <2>1, <3>2, TypeGivesDay, PlanAssumption
        <5> QED BY <5>1, FirstAndLast
      <4>2. First.start \in Int /\ Last.end \in Int /\ First.start <= Last.end
        <5>1. IsDay /\ 1 \in 1 .. Len(timeseg)
          BY <2>1, <3>2, TypeGivesDay, PlanAssumption
        <5>2. timeseg[1] \in Segment /\ timeseg[1].end <= Last.end
          BY <5>1, FirstAndLast
        <5> QED BY <4>1, <5>2, SegmentTimes DEF First
      <4> QED BY <2>1, <2>2, <3>2, <4>2 DEF Check, Clamped
    <3> QED BY <3>1, <3>2
  <2>3. CASE Skip
    BY <2>3 DEF Skip, Looping, TermInv, SearchInv
  <2>4. CASE PrintLast
    BY <2>4 DEF PrintLast
  <2>5. CASE PrintAndGoOn
    BY <2>5 DEF PrintAndGoOn, GoesBeyond, Looping
  <2>6. CASE OutputDone
    BY <2>6 DEF OutputDone
  <2> QED BY <1>1, <2>2, <2>3, <2>4, <2>5, <2>6 DEF Plan
<1>8. pc' # "date"
  BY <1>1 DEF Plan, Check, Skip, PrintLast, PrintAndGoOn, OutputDone, Looping, GoesBeyond
<1> QED BY <1>2, <1>3, <1>4, <1>6, <1>7, TermInvFrom, TypeOKGives DEF FdOpen

\* The rest of the search reads tmp.index and puts no file, or an empty one, there.
LEMMA TermInvSteps ==
    ASSUME TermInv, Access \/ Back
    PROVE  TermInv' /\ AllRecords \subseteq AllRecords'
<1>1. KeepsRecords
  BY UnchangedKeeps DEF TermInv, Access, Back
<1>2. PlanInv' /\ OutInv'
  <2>1. SearchTmp \/ Free
    BY DEF Access, Back
  <2> QED BY <2>1, PlanSteps DEF TermInv, Next, Search
<1>3. /\ step' \in Steps /\ UNCHANGED <<listing, index>> /\ listing = << >>
      /\ step' # "done" => pc' = "free"
      /\ step' \in {"done", "open_index"} /\ pc' # "output"
  <2>1. CASE Access
    BY <2>1 DEF Access, SearchTmp, logVars, Steps, TermInv, SearchInv
  <2>2. CASE Back
    BY <2>2, TypeOKGives DEF Back, Free, logVars, TermInv, SearchInv
  <2> QED BY <2>1, <2>2
<1>4. /\ fd' \in Paths /\ paired' \in BOOLEAN /\ raced' \subseteq Log!Record
      /\ next' \in 2 .. MaxRecords + 2 /\ asked' \subseteq Log!Record /\ shown' \in Seq(Entry)
  <2>1. CASE Access
    BY <2>1, TypeOKGives DEF Access, histVars
  <2>2. CASE Back
    <3>1. /\ fd' = TmpPath /\ paired' = TRUE /\ next' = 2
          /\ asked' = {} /\ raced' = {} /\ shown' = << >>
      BY <2>2 DEF Back
    <3>2. << >> \in Seq(Entry) /\ 2 \in 2 .. MaxRecords + 2
      BY EmptySeq, BoundsAreNat
    <3> QED BY <3>1, <3>2, PathFacts
  <2> QED BY <2>1, <2>2
<1>5. ~FdOpen' /\ listing' \in Days
  BY <1>3, TypeOKGives DEF FdOpen
<1>6. ~(listing' # << >>) /\ ~(pc' = "output")
  BY <1>3
<1> QED BY <1>1, <1>2, <1>3, <1>4, <1>5, <1>6, TermInvFrom

LEMMA TmpStep ==
    ASSUME TermInv, NEW here \in Steps \ {"done"}, NEW there \in Steps, Tmp(here, there),
           KeepsRecords, start' \in Times, end' \in Times,
           fd' \in Paths, paired' \in BOOLEAN, next' \in 2 .. MaxRecords + 2,
           shown' \in Seq(Entry), FdOpen' => fd' \in DOMAIN index'
    PROVE  TermInv' /\ AllRecords \subseteq AllRecords'
<1>1. /\ pc = "free" /\ pc' = "free" /\ step = here /\ step' = there
      /\ UNCHANGED <<timeseg, cnt, from, to, flag, i, out, pc, listing, asked, raced>>
  BY DEF Tmp
<1>2. PlanInv' /\ OutInv'
  BY <1>1, PlanSteps DEF TermInv
<1>3. listing' = << >>
  BY <1>1 DEF TermInv, SearchInv
<1> QED BY <1>1, <1>2, <1>3, TermInvFrom, TypeOKGives

LEMMA TermInvOpen ==
    ASSUME TermInv, OpenIndex \/ OpenVideo
    PROVE  TermInv' /\ AllRecords \subseteq AllRecords'
<1>1. {start, end} \subseteq Times
  BY TermTypes
<1>2. CASE OpenIndex
  <2>1. /\ Tmp("open_index", "open_video") /\ index' = Opened(TmpPath) /\ fd' = TmpPath
        /\ UNCHANGED <<names, sealing, paired, next, start, end, shown>>
    BY <1>2 DEF OpenIndex, Tmp
  <2>2. KeepsRecords /\ fd' \in DOMAIN index'
    BY <2>1, OpenedKeeps, PathFacts DEF TermInv
  <2> QED BY <1>1, <2>1, <2>2, TmpStep, PathFacts, TypeOKGives DEF Steps
<1>3. CASE OpenVideo
  <2>1. /\ Tmp("open_video", "first") /\ names' = names \cup {TmpPath}
        /\ paired' = (fd = TmpPath /\ sealing = {})
        /\ UNCHANGED <<index, sealing, fd, next, start, end, shown>>
    BY <1>3 DEF OpenVideo, Tmp
  <2>2. KeepsRecords
    BY <2>1, OpenVideoKeeps DEF TermInv
  <2>3. fd \in DOMAIN index
    BY <2>1 DEF TermInv, SearchInv, FdOpen, Tmp
  <2> QED BY <1>1, <2>1, <2>2, <2>3, TmpStep, TypeOKGives DEF Steps
<1> QED BY <1>2, <1>3

\* Where the printing starts and ends, if it does.
LEMMA TmpRangeTypes ==
    ASSUME TermInv, fd \in DOMAIN index, InRange
    PROVE  LET j == Least(AtOrAfter(index[fd], TmpRange.from, 2))
           IN  /\ TmpRange.from \in Times /\ TmpRange.to \in Times
               /\ LastTime \in Times /\ Len(index[fd]) \in Nat
               /\ j \in 2 .. Len(index[fd]) /\ j \in 2 .. MaxRecords + 2
               /\ index[fd][j].time >= TmpRange.from
               /\ index[fd][j].time = TmpRange.from \/ index[fd][j].time <= TmpRange.to
<1> DEFINE recs == index[fd]
           t == TmpRange.from
           j == Least(AtOrAfter(recs, t, 2))
<1>1. {from, to, start} \subseteq Times
  BY TermTypes
<1>2. /\ recs \in Recs /\ Len(recs) \in Nat /\ Len(recs) <= MaxRecords + 1
      /\ LastTime \in Times
  BY EntriesOf DEF InRange, LastTime
<1>3. t \in Times /\ TmpRange.to \in Times
  BY <1>1, <1>2 DEF TmpRange
<1>4. t \in Nat
  BY <1>3 DEF Times
<1>5. StartsIn(recs, t, TmpRange.to)
  BY DEF InRange
<1> HIDE DEF recs, t
<1>6. AtOrAfter(recs, t, 2) # {} /\ (recs[j].time = t \/ recs[j].time <= TmpRange.to)
  BY <1>5 DEF StartsIn
<1>7. j \in 2 .. Len(recs) /\ recs[j].time >= t
  BY <1>2, <1>4, <1>6, FirstAtOrAfter
<1>8. j \in 2 .. MaxRecords + 2
  <2> HIDE DEF j
  <2> QED BY <1>2, <1>7, BoundsAreNat
<1> QED BY <1>2, <1>3, <1>6, <1>7, <1>8 DEF recs, t

LEMMA TermInvRead ==
    ASSUME TermInv, ReadFirst \/ ReadLast
    PROVE  TermInv' /\ AllRecords \subseteq AllRecords'
<1>1. {start, end} \subseteq Times
  BY TermTypes
<1>2. UNCHANGED <<names, index, sealing, fd, paired, shown>>
  BY DEF ReadFirst, ReadLast, Tmp
<1>3. KeepsRecords /\ fd \in DOMAIN index
  BY <1>2, UnchangedKeeps DEF ReadFirst, ReadLast, Tmp, TermInv, SearchInv, FdOpen, logVars
<1>4. CASE ReadFirst
  <2>1. Tmp("first", "last") /\ UNCHANGED <<next, end>>
    BY <1>4 DEF ReadFirst
  <2>2. start' = IF Len(index[fd]) >= 2 THEN index[fd][2].time ELSE 0
    BY <1>4 DEF ReadFirst
  <2>3. start' \in Times
    BY <1>3, <2>2, EntriesOf, BoundsAreNat DEF Times
  <2> QED BY <1>1, <1>2, <1>3, <2>1, <2>3, TmpStep, TypeOKGives DEF Steps
<1>5. CASE ReadLast
  <2>1. CASE InRange
    <3>1. Tmp("last", "print")
      BY <1>5, <2>1 DEF ReadLast
    <3>2. /\ start' = TmpRange.from /\ end' = TmpRange.to
          /\ next' = Least(AtOrAfter(index[fd], TmpRange.from, 2))
      BY <1>5, <2>1 DEF ReadLast
    <3>3. start' \in Times /\ end' \in Times /\ next' \in 2 .. MaxRecords + 2
      BY <1>3, <2>1, <3>2, TmpRangeTypes
    <3> QED BY <1>2, <1>3, <3>1, <3>3, TmpStep, TypeOKGives DEF Steps
  <2>2. CASE ~InRange
    <3>1. Tmp("last", "done") /\ UNCHANGED <<start, end, next>>
      BY <1>5, <2>2 DEF ReadLast
    <3> QED BY <1>1, <1>2, <1>3, <3>1, TmpStep, TypeOKGives DEF Steps
  <2> QED BY <2>1, <2>2
<1> QED BY <1>4, <1>5

LEMMA TermInvPrint ==
    ASSUME TermInv, PrintTmp \/ PrintTmpSecond
    PROVE  TermInv' /\ AllRecords \subseteq AllRecords'
<1>1. {start, end} \subseteq Times /\ next \in Nat /\ next >= 2
  BY TermTypes
<1>2. UNCHANGED <<names, index, sealing, fd, paired, start, end>>
  BY DEF PrintTmp, PrintTmpSecond, Tmp
<1>3. KeepsRecords /\ fd \in DOMAIN index
  BY <1>2, UnchangedKeeps DEF PrintTmp, PrintTmpSecond, Tmp, TermInv, SearchInv, FdOpen, logVars
<1>4. ASSUME next <= Len(index[fd])
      PROVE  /\ Append(shown, FrameOf(index[fd][next])) \in Seq(Entry)
             /\ next + 1 \in 2 .. MaxRecords + 2
  <2>1. /\ Len(index[fd]) \in Nat /\ Len(index[fd]) <= MaxRecords + 1
        /\ \A k \in 1 .. Len(index[fd]) : index[fd][k] \in Entry
    BY <1>3, EntriesOf
  <2>2. index[fd][next] \in Entry
    BY <1>1, <1>4, <2>1
  <2>3. FrameOf(index[fd][next]) \in Entry
    BY <2>2 DEF FrameOf, Entry
  <2> QED BY <1>1, <1>4, <2>1, <2>3, TypeOKGives, AppendProperties, BoundsAreNat
<1>5. CASE PrintTmp
  <2>1. PICK there \in {"second", "print"} : Tmp("print", there)
    BY <1>5 DEF PrintTmp
  <2>2. /\ shown' = Append(shown, FrameOf(index[fd][next])) /\ next' = next + 1
        /\ next <= Len(index[fd])
    BY <1>5 DEF PrintTmp
  <2> QED BY <1>1, <1>2, <1>3, <1>4, <2>1, <2>2, TmpStep, TypeOKGives DEF Steps
<1>6. CASE PrintTmpSecond
  <2>1. Tmp("second", "done") /\ next' = next
    BY <1>6 DEF PrintTmpSecond
  <2>2. shown' \in Seq(Entry)
    BY <1>4, <1>6, TypeOKGives DEF PrintTmpSecond
  <2> QED BY <1>1, <1>2, <1>3, <2>1, <2>2, TmpStep, TypeOKGives DEF Steps
<1> QED BY <1>5, <1>6

LEMMA TermInvPreserved ==
    ASSUME TermInv, [TerminalNext]_allVars
    PROVE  TermInv' /\ AllRecords \subseteq AllRecords'
<1>1. CASE UNCHANGED allVars
  <2>1. UNCHANGED <<vars, listing, step, fd, paired, next, asked, raced, shown, logVars>>
    BY <1>1 DEF allVars, termVars, tmpVars, histVars
  <2>2. KeepsRecords
    BY <2>1, UnchangedKeeps DEF TermInv
  <2>3. PlanInv' /\ OutInv'
    BY <2>1, PlanSteps DEF TermInv
  <2>4. UNCHANGED <<pc, from, to, start, end, timeseg, index>>
    BY <2>1 DEF vars, logVars
  <2> QED BY <2>1, <2>2, <2>3, <2>4, TermInvFrom, TypeOKGives DEF TermInv, SearchInv, FdOpen
<1>2. CASE TerminalNext
  BY <1>2, TermInvRecorder, TermInvListing, TermInvOutput, TermInvSteps, TermInvOpen,
     TermInvRead, TermInvPrint DEF TerminalNext, SearchFiles
<1> QED BY <1>1, <1>2

LEMMA TermInvAlways == TerminalSpec => []TermInv
<1>1. TermInv /\ [TerminalNext]_allVars => TermInv'
  BY TermInvPreserved
<1> QED BY TermInvInit, <1>1, PTL DEF TerminalSpec

-----------------------------------------------------------------------------
(* What the terminal's user and the recorder can rely on. *)

\* Whatever order the two threads take their steps in, the files have names of
\* segments and tmp files only, descriptors follow them, and search_tmp_video_file
\* stands at most one record beyond all that can be recorded.
THEOREM TerminalStaysTyped == TerminalSpec => []TerminalTypeOK
<1>1. TermInv => TerminalTypeOK
  BY DEF TermInv, SearchInv
<1> QED BY TermInvAlways, <1>1, PTL

\* No record is ever lost by open_tmp, which the terminal calls with O_CREAT for the
\* recorder's own names, nor by a seal that comes in between.
THEOREM RecordsAlwaysStay == TerminalSpec => RecordsStay
<1>1. TermInv /\ [TerminalNext]_allVars => [AllRecords \subseteq AllRecords']_index
  BY TermInvPreserved
<1> QED BY TermInvAlways, <1>1, PTL DEF TerminalSpec, RecordsStay
-----------------------------------------------------------------------------
(* What is shown. *)

\* The descriptor is that of tmp.index, or of the segment it became.  A seal in the course
\* of the search is known of, and there was one if the two descriptors do not belong
\* together.
FdInv ==
    /\ FdOpen /\ fd # TmpPath => Log!HasRecords(fd) /\ raced # {}
    /\ Searching /\ sealing # {} => TmpRecords \subseteq raced
    /\ ~paired => raced # {}
    /\ pc # "free" => fd = TmpPath
    /\ pc # "free" \/ step \in {"open_index", "open_video"} => paired
    /\ pc # "free" \/ step \in {"open_index", "open_video", "first", "last"} => next = 2
    /\ step = "last" => \/ start = 0
                        \/ Log!HasRecords(fd) /\ start = index[fd][2].time

\* While tmp.h264 is printed there is no record of the last second behind the descriptor,
\* and one ahead of it unless the range ends with the interval.
RangeInv ==
    /\ Log!HasRecords(fd) /\ next <= Len(index[fd]) + 1
    /\ \A n \in 2 .. Len(index[fd]) : index[fd][n].time = end => n >= next
    /\ \A n \in next .. Len(index[fd]) : from <= index[fd][n].time
    /\ end < to => \E n \in next .. Len(index[fd]) : index[fd][n].time = end
    /\ to <= LastTime \/ end < to

TmpInv ==
    from <= to => /\ step \in {"print", "second"} => from <= end /\ end <= to
                  /\ step = "print" => RangeInv

\* What is shown comes ahead of all that is still to be read.
AheadInv ==
    from <= to /\ FdOpen /\ paired /\ Log!HasRecords(fd) =>
        \A k \in 1 .. Len(shown) :
            /\ shown[k].time <= LastTime
            /\ \A n \in next .. Len(index[fd]) : shown[k].time <= index[fd][n].time

\* Up to the search of tmp.h264 it comes from the sealed segments and the ranges of
\* the plan.
SealedRecords == UNION {RecordsIn(index[p]) : p \in DOMAIN index \ {TmpPath}}

SealedInv ==
    pc # "free" \/ step = "open_index" =>
        \A k \in 1 .. Len(shown) : shown[k] \in SealedRecords

PlannedInv ==
    pc \in {"output", "tmp"} /\ from <= to =>
        \A k \in 1 .. Len(shown) :
            \E n \in 1 .. Len(out) : shown[k].time \in out[n].from .. out[n].to

GoodInv ==
    from <= to /\ paired =>
        \A k \in 1 .. Len(shown) :
            /\ shown[k] \in AllRecords
            /\ from <= shown[k].time /\ (shown[k].time <= to \/ RunsOn)
            /\ k > 1 => shown[k - 1].time <= shown[k].time

NothingYet == pc \in {"date", "list", "time", "check", "crashed"} => shown = << >>

ShownInv == /\ FdInv /\ TmpInv /\ AheadInv /\ SealedInv /\ PlannedInv /\ GoodInv
            /\ NothingYet

\* The records read through the descriptor stay as they are.
SameRecords ==
    /\ fd' \in DOMAIN index' /\ Len(index'[fd']) >= 2 <=> Log!HasRecords(fd)
    /\ Log!HasRecords(fd) => index'[fd'] = index[fd]

LEMMA SealedRecordsOf ==
    /\ \A r : r \in SealedRecords <=>
          \E p \in DOMAIN index \ {TmpPath} : \E k \in 2 .. Len(index[p]) : r = index[p][k]
    /\ \A r : r \in SealedRecords' <=>
          \E p \in DOMAIN index' \ {TmpPath} : \E k \in 2 .. Len(index'[p]) : r = index'[p][k]
    /\ \A r : r \in AllRecords' <=>
          \E p \in DOMAIN index' : \E k \in 2 .. Len(index'[p]) : r = index'[p][k]
<1>1. TmpPath' = TmpPath
  BY DEF TmpPath, Log!Tmp
<1> QED BY <1>1 DEF SealedRecords, AllRecords, RecordsIn

LEMMA RecordsKept ==
    ASSUME TermInv, KeepsRecords
    PROVE  /\ AllRecords' = AllRecords /\ SealedRecords \subseteq SealedRecords'
           /\ TmpRecords' = TmpRecords
           /\ fd' = fd => SameRecords
<1>1. /\ \A p : Log!HasRecords(p)' <=> Log!HasRecords(p)
      /\ AllRecords' = AllRecords
  BY AddsEmptyRecords DEF KeepsRecords, TermInv, FilesInv
<1>2. \A p : Log!HasRecords(p) => /\ p \in DOMAIN index /\ p \in DOMAIN index'
                                  /\ index'[p] = index[p]
  BY DEF KeepsRecords, AddsEmpty, Log!HasRecords
<1>3. \A p \in DOMAIN index : Len(index[p]) \in Nat
  BY IndexTypes DEF TermInv, FilesInv
<1>4. SealedRecords \subseteq SealedRecords'
  <2> SUFFICES ASSUME NEW p \in DOMAIN index \ {TmpPath}, NEW k \in 2 .. Len(index[p])
               PROVE  index[p][k] \in SealedRecords'
    BY SealedRecordsOf
  <2>1. Log!HasRecords(p)
    BY <1>3 DEF Log!HasRecords
  <2> QED BY <1>2, <2>1, SealedRecordsOf
<1>5. fd' = fd => SameRecords
  BY <1>1, <1>2 DEF SameRecords, Log!HasRecords
<1>6. TmpRecords' = TmpRecords
  <2>1. TmpPath' = TmpPath
    BY DEF TmpPath, Log!Tmp
  <2>2. CASE Log!HasRecords(TmpPath)
    BY <1>2, <2>1, <2>2 DEF TmpRecords, RecordsIn
  <2>3. CASE ~Log!HasRecords(TmpPath)
    <3>1. \A k \in 2 .. Len(index[TmpPath]) : TmpPath \notin DOMAIN index
      BY <1>3, <2>3 DEF Log!HasRecords
    <3>2. \A k \in 2 .. Len(index'[TmpPath]) : TmpPath \notin DOMAIN index'
      BY <2>3, AddsEmptyRecords DEF KeepsRecords, TermInv, FilesInv
    <3> QED BY <2>1, <3>1, <3>2 DEF TmpRecords, RecordsIn
  <2> QED BY <2>2, <2>3
<1> QED BY <1>1, <1>4, <1>5, <1>6

\* A seal is of records.
LEMMA SealHasRecords ==
    ASSUME TermInv, Log!HasRecords(TmpPath)
    PROVE  TmpRecords # {}
<1>1. TmpPath \in DOMAIN index /\ 2 \in 2 .. Len(index[TmpPath])
  BY IndexTypes DEF TermInv, FilesInv, Log!HasRecords
<1> QED BY <1>1 DEF TmpRecords, RecordsIn

LEMMA RacedWhenSealing ==
    ASSUME TermInv, FdInv, Searching, sealing # {}
    PROVE  raced # {}
<1>1. TmpRecords # {}
  BY SealHasRecords DEF TermInv, FilesInv, SealInHand
<1> QED BY <1>1 DEF FdInv

LEMMA RecordsSealed ==
    ASSUME TermInv, FdInv,
           \/ Log!SealVideo(TmpPath) /\ fd' = fd
           \/ /\ Log!SealIndex(TmpPath)
              /\ fd' = IF fd = TmpPath /\ step # "done" THEN Log!SealedAs(TmpPath) ELSE fd
    PROVE  /\ AllRecords' = AllRecords /\ SealedRecords \subseteq SealedRecords'
           /\ FdOpen => SameRecords
<1>1. CASE Log!SealVideo(TmpPath) /\ fd' = fd
  <2>1. UNCHANGED index
    BY <1>1, SealVideoKeeps DEF TermInv
  <2> QED BY <1>1, <2>1, SealedRecordsOf DEF SameRecords, AllRecords, Log!HasRecords
<1>2. CASE /\ Log!SealIndex(TmpPath)
           /\ fd' = IF fd = TmpPath /\ step # "done" THEN Log!SealedAs(TmpPath) ELSE fd
  <2> DEFINE Q == Log!SealedAs(TmpPath)
  <2>1. /\ Log!HasRecords(TmpPath) /\ Q # TmpPath /\ ~Log!HasRecords(Q)
        /\ DOMAIN index' = (DOMAIN index \ {TmpPath}) \cup {Q}
        /\ index'[Q] = index[TmpPath]
        /\ \A q \in DOMAIN index' \ {Q} : index'[q] = index[q]
        /\ AllRecords' = AllRecords
    BY <1>2, SealIndexEffect DEF TermInv
  <2> HIDE DEF Q
  <2>2. \A p \in DOMAIN index : Len(index[p]) \in Nat
    BY IndexTypes DEF TermInv, FilesInv
  <2>3. SealedRecords \subseteq SealedRecords'
    <3> SUFFICES ASSUME NEW p \in DOMAIN index \ {TmpPath}, NEW k \in 2 .. Len(index[p])
                 PROVE  index[p][k] \in SealedRecords'
      BY SealedRecordsOf
    <3>1. Log!HasRecords(p) /\ p # Q
      BY <2>1, <2>2 DEF Log!HasRecords
    <3> QED BY <2>1, <3>1, SealedRecordsOf
  <2>4. ASSUME FdOpen PROVE SameRecords
    <3>1. CASE fd = TmpPath
      BY <1>2, <2>1, <2>4, <3>1 DEF SameRecords, Log!HasRecords, FdOpen, Q
    <3>2. CASE fd # TmpPath
      <4>1. Log!HasRecords(fd) /\ fd' = fd /\ fd # Q /\ fd \in DOMAIN index
        BY <1>2, <2>1, <2>4, <3>2 DEF FdInv, Log!HasRecords
      <4> QED BY <2>1, <3>2, <4>1 DEF SameRecords, Log!HasRecords
    <3> QED BY <3>1, <3>2
  <2> QED BY <2>1, <2>3, <2>4
<1> QED BY <1>1, <1>2

\* A step that leaves the search alone, and what it reads.
LEMMA SameShown ==
    ASSUME TermInv, ShownInv, FdInv', FdOpen => SameRecords,
           AllRecords \subseteq AllRecords', SealedRecords \subseteq SealedRecords',
           UNCHANGED <<vars, step, paired, next, shown>>
    PROVE  ShownInv'
<1>1. UNCHANGED <<from, to, start, end, out, pc, step, paired, next, shown, FdOpen>>
  BY DEF vars, FdOpen
<1>2. ASSUME FdOpen, Log!HasRecords(fd)
      PROVE  index'[fd'] = index[fd] /\ LastTime' = LastTime
  BY <1>2 DEF SameRecords, LastTime
<1>3. ASSUME RangeInv, step = "print"
      PROVE  RangeInv' /\ (RunsOn => RunsOn')
  <2>1. /\ Log!HasRecords(fd) /\ FdOpen /\ index'[fd'] = index[fd] /\ LastTime' = LastTime
    BY <1>2, <1>3 DEF RangeInv, FdOpen
  <2>2. Log!HasRecords(fd)'
    BY <2>1 DEF SameRecords, Log!HasRecords
  <2>3. RangeInv'
    BY <1>1, <1>3, <2>1, <2>2 DEF RangeInv
  <2>4. RunsOn => RunsOn'
    BY <1>1, <2>1 DEF RunsOn, Exactly
  <2> QED BY <2>3, <2>4
<1>4. TmpInv'
  BY <1>1, <1>3 DEF ShownInv, TmpInv
<1>5. AheadInv'
  <2>1. FdOpen /\ Log!HasRecords(fd)' => Log!HasRecords(fd)
    BY DEF SameRecords, Log!HasRecords
  <2> QED BY <1>1, <1>2, <2>1 DEF ShownInv, AheadInv
<1>6. SealedInv' /\ PlannedInv' /\ NothingYet'
  BY <1>1 DEF ShownInv, SealedInv, PlannedInv, NothingYet
<1>7. GoodInv'
  <2>1. from <= to /\ RunsOn => RunsOn'
    BY <1>3 DEF ShownInv, TmpInv, RunsOn
  <2> QED BY <1>1, <2>1 DEF ShownInv, GoodInv
<1> QED BY <1>4, <1>5, <1>6, <1>7 DEF ShownInv

LEMMA FdInvKept ==
    ASSUME TermInv, FdInv, SameRecords, sealing' = sealing, TmpRecords' = TmpRecords,
           UNCHANGED <<pc, listing, start, step, fd, paired, next, raced>>
    PROVE  FdInv'
<1>1. TmpPath' = TmpPath
  BY DEF TmpPath, Log!Tmp
<1>2. Log!HasRecords(fd)' <=> Log!HasRecords(fd)
  BY DEF SameRecords, Log!HasRecords
<1> QED BY <1>1, <1>2 DEF FdInv, FdOpen, SameRecords, Searching

\* The renames of a seal.
SealsVideo == /\ Log!SealVideo(TmpPath)
              /\ raced' = IF Searching THEN raced \cup TmpRecords ELSE raced
              /\ fd' = fd

SealsIndex ==
    /\ Log!SealIndex(TmpPath) /\ raced' = raced
    /\ fd' = IF fd = TmpPath /\ step # "done" THEN Log!SealedAs(TmpPath) ELSE fd

LEMMA FdInvSealed ==
    ASSUME TermInv, FdInv, FdOpen => SameRecords,
           UNCHANGED <<pc, listing, start, step, paired, next>>, SealsVideo \/ SealsIndex
    PROVE  FdInv'
<1>1. TmpPath' = TmpPath /\ (Searching' <=> Searching) /\ (pc # "free" => step = "done")
  BY DEF TmpPath, Log!Tmp, Searching, TermInv, SearchInv
<1>2. raced # {} => raced' # {}
  BY DEF SealsVideo, SealsIndex
<1>3. FdOpen => /\ Log!HasRecords(fd)' <=> Log!HasRecords(fd)
                /\ Log!HasRecords(fd) => index'[fd'] = index[fd]
  BY DEF SameRecords, Log!HasRecords
<1>4. FdOpen => Searching
  BY DEF TermInv, SearchInv, FdOpen, Searching
<1>5. CASE SealsVideo
  <2>1. TmpRecords' = TmpRecords
    BY <1>1, <1>5, SealVideoKeeps DEF SealsVideo, TermInv, TmpRecords
  <2>2. Searching => TmpRecords \subseteq raced'
    BY <1>5 DEF SealsVideo
  <2>3. fd' = fd
    BY <1>5 DEF SealsVideo
  <2> QED BY <1>1, <1>2, <1>3, <2>1, <2>2, <2>3 DEF FdInv, FdOpen
<1>6. CASE SealsIndex
  <2>1. Log!HasRecords(TmpPath) /\ sealing # {} /\ sealing' = {}
    BY <1>6, SealIndexEffect DEF TermInv, SealsIndex
  <2>2. FdOpen => raced' # {}
    BY <1>2, <1>4, <2>1, RacedWhenSealing
  <2>3. FdOpen /\ fd' # TmpPath => Log!HasRecords(fd)
    BY <1>6, <2>1 DEF FdInv, SealsIndex
  <2>4. step = "done" => fd' = fd
    BY <1>6 DEF SealsIndex
  <2> QED BY <1>1, <1>2, <1>3, <2>1, <2>2, <2>3, <2>4 DEF FdInv, FdOpen
<1> QED BY <1>5, <1>6

\* The recorder puts a record: it is later than all that is shown.
LEMMA ShownInvPut ==
    ASSUME TermInv, ShownInv, NEW t \in 1 .. MaxTime, Put(t),
           UNCHANGED <<vars, step, fd, paired, next, raced, shown>>
    PROVE  ShownInv'
<1> DEFINE d == index[TmpPath]
           r == RecordAt(t)
<1>1. /\ TmpPath \in DOMAIN index /\ sealing = {} /\ UNCHANGED sealing
      /\ DOMAIN index' = DOMAIN index
      /\ \A q \in DOMAIN index \ {TmpPath} : index'[q] = index[q]
      /\ Len(d) \in Nat \ {0} /\ Len(index'[TmpPath]) = Len(d) + 1
      /\ \A k \in 1 .. Len(d) : index'[TmpPath][k] = d[k]
      /\ index'[TmpPath][Len(d) + 1] = r
      /\ \A k \in 2 .. Len(d) : d[k].time <= t
      /\ \A q \in DOMAIN index \ {TmpPath} :
            \A k \in 2 .. Len(index[q]) : index[q][k].time < t
  BY PutEffect DEF TermInv
<1>2. UNCHANGED <<from, to, start, end, out, pc, step, fd, paired, next, raced, shown, FdOpen>>
  BY DEF vars, FdOpen
<1>3. r.time = t /\ t \in Nat
  BY DEF RecordAt
<1>4. /\ Len(shown) \in Nat /\ \A k \in 1 .. Len(shown) : shown[k].time \in Nat
      /\ {from, to, start, end} \subseteq Nat /\ next \in Nat /\ next >= 2
      /\ \A p \in DOMAIN index : index[p] \in Recs
  BY TermTypes
<1>5. \A p \in DOMAIN index : /\ Len(index[p]) \in Nat
                              /\ \A k \in 2 .. Len(index[p]) : index[p][k].time \in Nat
  BY <1>4, RecsTypes
<1>6. \A x \in AllRecords : x.time <= t
  <2> SUFFICES ASSUME NEW p \in DOMAIN index, NEW k \in 2 .. Len(index[p])
               PROVE  index[p][k].time <= t
    BY RecordsOf DEF TermInv, FilesInv
  <2> QED BY <1>1, <1>3, <1>5
<1>7. \A k \in 1 .. Len(shown) : from <= to /\ paired => shown[k].time <= t
  BY <1>6 DEF ShownInv, GoodInv
<1> HIDE DEF r
<1>8. Log!HasRecords(fd) => Log!HasRecords(fd)'
  BY <1>1, <1>2, <1>5 DEF Log!HasRecords
<1>9. fd # TmpPath /\ FdOpen => SameRecords
  BY <1>1, <1>2 DEF SameRecords, Log!HasRecords
<1>10. FdInv'
  <2>1. step = "last" => start = 0 \/ (Log!HasRecords(fd)' /\ start = index'[fd][2].time)
    BY <1>1, <1>5, <1>8 DEF ShownInv, FdInv, Log!HasRecords
  <2>2. TmpPath' = TmpPath
    BY DEF TmpPath, Log!Tmp
  <2> QED BY <1>1, <1>2, <1>8, <2>1, <2>2 DEF ShownInv, FdInv
<1>11. AllRecords \subseteq AllRecords' /\ SealedRecords \subseteq SealedRecords'
  <2>1. \A p \in DOMAIN index : \A k \in 2 .. Len(index[p]) :
            k \in 2 .. Len(index'[p]) /\ index'[p][k] = index[p][k]
    BY <1>1, <1>5
  <2> QED BY <1>1, <2>1, SealedRecordsOf, RecordsOf DEF TermInv, FilesInv
<1>12. CASE ~(fd = TmpPath /\ FdOpen)
  BY <1>2, <1>9, <1>10, <1>11, <1>12, SameShown
<1>13. CASE fd = TmpPath /\ FdOpen
  <2>1. /\ index[fd] = d /\ Len(index'[fd]) = Len(d) + 1
        /\ \A n \in 2 .. Len(d) : index'[fd][n] = d[n]
        /\ \A n \in 2 .. Len(d) : d[n].time <= t /\ d[n].time \in Nat
        /\ \A n \in 2 .. Len(d) + 1 : n \in 2 .. Len(d) \/ n = Len(d) + 1
        /\ index'[fd][Len(d) + 1].time = t
        /\ LastTime' = t /\ LastTime = d[Len(d)].time
        /\ Len(d) \in Nat
    BY <1>1, <1>2, <1>3, <1>5, <1>13 DEF LastTime
  <2> HIDE DEF d
  <2>2. Log!HasRecords(fd) => Len(d) \in 2 .. Len(d) /\ LastTime <= t /\ LastTime \in Nat
    BY <2>1 DEF Log!HasRecords
  <2>3. ASSUME RangeInv, step = "print", from <= end, end <= to
        PROVE  RangeInv' /\ (RunsOn => RunsOn')
    <3>1. /\ Log!HasRecords(fd) /\ next <= Len(d) + 1
          /\ \A n \in 2 .. Len(d) : d[n].time = end => n >= next
          /\ \A n \in next .. Len(d) : from <= d[n].time
          /\ end < to => \E n \in next .. Len(d) : d[n].time = end
          /\ to <= LastTime \/ end < to
      BY <2>1, <2>3 DEF RangeInv
    <3>2. end <= t
      <4>1. CASE end < to
        <5>1. PICK n \in next .. Len(d) : d[n].time = end
          BY <3>1, <4>1
        <5>2. n \in 2 .. Len(d)
          BY <1>4, <2>1
        <5> QED BY <2>1, <5>1, <5>2
      <4>2. CASE to <= LastTime
        BY <1>3, <1>4, <2>2, <2>3, <3>1, <4>2
      <4> QED BY <3>1, <4>1, <4>2
    <3>3. from <= t
      BY <1>3, <1>4, <2>3, <3>2
    <3>4. \A n \in 2 .. Len(d) + 1 : index'[fd][n].time = end => n >= next
      BY <1>4, <2>1, <3>1
    <3>5. \A n \in next .. Len(d) + 1 : from <= index'[fd][n].time
      <4> TAKE n \in next .. Len(d) + 1
      <4>1. n \in 2 .. Len(d) + 1 /\ (n \in 2 .. Len(d) => n \in next .. Len(d))
        BY <1>4, <2>1
      <4> QED BY <2>1, <3>1, <3>3, <4>1
    <3>6. end < to => \E n \in next .. Len(d) + 1 : index'[fd][n].time = end
      <4>1. \A n \in next .. Len(d) : n \in next .. Len(d) + 1 /\ n \in 2 .. Len(d)
        BY <1>4, <2>1
      <4> QED BY <2>1, <3>1, <4>1
    <3>7. to <= t \/ end < to
      BY <1>3, <1>4, <2>2, <3>1
    <3>8. next <= Len(d) + 1 + 1
      BY <1>4, <2>1, <3>1
    <3>9. RangeInv'
      BY <1>2, <1>8, <2>1, <3>1, <3>4, <3>5, <3>6, <3>7, <3>8 DEF RangeInv
    <3>10. RunsOn => RunsOn'
      <4> SUFFICES ASSUME RunsOn PROVE RunsOn'
        OBVIOUS
      <4>1. end = to /\ to < LastTime /\ \A n \in 2 .. Len(d) : d[n].time # to
        BY <2>1 DEF RunsOn, Exactly
      <4>2. to < t
        BY <1>3, <1>4, <2>2, <3>1, <4>1
      <4>3. \A n \in 2 .. Len(d) + 1 : index'[fd][n].time # to
        <5> TAKE n \in 2 .. Len(d) + 1
        <5>1. t # to
          BY <1>3, <1>4, <4>2
        <5>2. CASE n \in 2 .. Len(d)
          BY <2>1, <4>1, <5>2
        <5>3. CASE n = Len(d) + 1
          BY <2>1, <5>1, <5>3
        <5> QED BY <2>1, <5>2, <5>3
      <4>4. Exactly(index'[fd], to, 2) = {}
        BY <2>1, <4>3 DEF Exactly
      <4> QED BY <1>2, <2>1, <2>3, <4>1, <4>2, <4>4 DEF RunsOn
    <3> QED BY <3>9, <3>10
  <2>4. TmpInv'
    BY <1>2, <2>3 DEF ShownInv, TmpInv
  <2>5. AheadInv'
    <3> SUFFICES ASSUME from <= to, paired, NEW k \in 1 .. Len(shown)
                 PROVE  /\ shown[k].time <= t
                        /\ \A n \in next .. Len(d) + 1 : shown[k].time <= index'[fd][n].time
      BY <1>2, <2>1 DEF AheadInv
    <3>1. shown[k].time <= t
      BY <1>7
    <3>2. ASSUME NEW n \in next .. Len(d) + 1 PROVE shown[k].time <= index'[fd][n].time
      <4>1. n = Len(d) + 1 \/ (n \in 2 .. Len(d) /\ n \in next .. Len(d))
        BY <1>4, <2>1
      <4>2. ASSUME n \in 2 .. Len(d), n \in next .. Len(d) PROVE shown[k].time <= d[n].time
        <5>1. Log!HasRecords(fd)
          BY <1>1, <1>13, <2>1, <4>2 DEF Log!HasRecords
        <5> QED BY <1>13, <2>1, <4>2, <5>1 DEF ShownInv, AheadInv
      <4> QED BY <2>1, <3>1, <4>1, <4>2
    <3> QED BY <3>1, <3>2
  <2>6. SealedInv' /\ PlannedInv' /\ NothingYet'
    BY <1>2, <1>11 DEF ShownInv, SealedInv, PlannedInv, NothingYet
  <2>7. GoodInv'
    <3>1. from <= to /\ RunsOn => RunsOn'
      BY <2>3 DEF ShownInv, TmpInv, RunsOn
    <3> QED BY <1>2, <1>11, <3>1 DEF ShownInv, GoodInv
  <2> QED BY <1>10, <2>4, <2>5, <2>6, <2>7 DEF ShownInv
<1> QED BY <1>12, <1>13

LEMMA ShownInvRecorder ==
    ASSUME TermInv, ShownInv, Recorder
    PROVE  ShownInv'
<1>1. UNCHANGED <<vars, listing, step, paired, next, asked, shown>>
  BY DEF Recorder
<1>2. CASE MakesTmp /\ UNCHANGED <<fd, raced>>
  <2>1. KeepsRecords
    BY <1>2, MakesTmpKeeps DEF TermInv
  <2>2. /\ SameRecords /\ AllRecords' = AllRecords /\ SealedRecords \subseteq SealedRecords'
        /\ TmpRecords' = TmpRecords
    BY <1>2, <2>1, RecordsKept
  <2>3. FdInv'
    BY <1>1, <1>2, <2>1, <2>2, FdInvKept DEF ShownInv, KeepsRecords, vars
  <2> QED BY <1>1, <2>2, <2>3, SameShown
<1>3. CASE (\E t \in 1 .. MaxTime : Put(t)) /\ UNCHANGED <<fd, raced>>
  BY <1>1, <1>3, ShownInvPut
<1>4. CASE SealsVideo \/ SealsIndex
  <2>1. /\ AllRecords' = AllRecords /\ SealedRecords \subseteq SealedRecords'
        /\ FdOpen => SameRecords
    BY <1>4, RecordsSealed DEF ShownInv, SealsVideo, SealsIndex
  <2>2. FdInv'
    BY <1>1, <1>4, <2>1, FdInvSealed DEF ShownInv, vars
  <2> QED BY <1>1, <2>1, <2>2, SameShown
<1> QED BY <1>2, <1>3, <1>4 DEF Recorder, MakesTmp, SealsVideo, SealsIndex

\* What tmp.index has is not listed.
LEMMA ListedApart ==
    ASSUME TermInv, NEW segs \in Days
    PROVE  ListedRecords(segs) \cap TmpRecords = {}
<1> SUFFICES ASSUME NEW k \in 1 .. Len(segs), Path(segs[k]) \in DOMAIN index,
                    NEW r \in RecordsIn(index[Path(segs[k])]), r \in TmpRecords
             PROVE  FALSE
  BY DEF ListedRecords
<1> DEFINE p == Path(segs[k])
<1>1. p # TmpPath
  <2>1. segs \in Seq(Segment)
    BY DaysAreSequences
  <2>2. segs[k] \in Segment
    BY <2>1, ElementOfSeq
  <2> QED BY <2>2, PathFacts
<1>2. PICK n \in 2 .. Len(index[p]) : r = index[p][n]
  BY DEF RecordsIn
<1>3. TmpPath \in DOMAIN index /\ \E m \in 2 .. Len(index[TmpPath]) : r = index[TmpPath][m]
  BY DEF TmpRecords, RecordsIn
<1>4. r.time \in Nat
  BY <1>2, IndexTypes DEF TermInv, FilesInv
<1> HIDE DEF p
<1>5. Earlier(p, TmpPath)
  BY <1>1, <1>3 DEF TermInv, FilesInv, FilesApart, p
<1>6. r.time < r.time
  BY <1>2, <1>3, <1>5 DEF Earlier
<1> QED BY <1>4, <1>6

LEMMA NothingShown ==
    ASSUME shown' = << >>, step' = "done", FdInv'
    PROVE  ShownInv'
<1>1. ~FdOpen' /\ Len(shown') = 0
  BY EmptySeq DEF FdOpen
<1>2. TmpInv' /\ AheadInv' /\ SealedInv' /\ PlannedInv' /\ GoodInv' /\ NothingYet'
  BY <1>1 DEF TmpInv, AheadInv, SealedInv, PlannedInv, GoodInv, NothingYet
<1> QED BY <1>2 DEF ShownInv

LEMMA ShownInvListing ==
    ASSUME TermInv, ShownInv, Count \/ FillArray \/ Prompt \/ Back
    PROVE  ShownInv'
<1>1. CASE Count \/ FillArray \/ Prompt
  <2>1. UNCHANGED <<logVars, tmpVars, shown>>
    BY <1>1 DEF Count, FillArray, Prompt, histVars
  <2>2. UNCHANGED <<sealing, step, fd, paired, next, shown>>
    BY <2>1 DEF logVars, tmpVars
  <2>3. pc \in {"date", "list", "time"} /\ pc' # "free"
    BY <1>1 DEF Count, FillArray, Prompt, Fill, List, GetTime, vars, TermInv, SearchInv
  <2>4. Searching' /\ sealing' # {} => TmpRecords' \subseteq raced'
    <3> SUFFICES ASSUME sealing # {} PROVE TmpRecords' \subseteq raced'
      BY <2>2
    <3>1. TmpRecords' = TmpRecords
      BY <2>1 DEF logVars, TmpRecords, TmpPath, Log!Tmp
    <3>2. CASE Count
      BY <3>1, <3>2 DEF Count
    <3>3. CASE FillArray
      <4>1. timeseg' \in Days
        BY <3>3, TermInvListing DEF TermInv, PlanInv, TypeOK
      <4>2. ListedRecords(timeseg') \cap TmpRecords = {}
        BY <4>1, ListedApart
      <4>3. TmpRecords \subseteq raced
        BY <3>3 DEF FillArray, Searching, ShownInv, FdInv
      <4> QED BY <3>1, <3>3, <4>2, <4>3 DEF FillArray
    <3>4. CASE Prompt
      BY <3>1, <3>4 DEF Prompt, List, GetTime, histVars, Searching, ShownInv, FdInv
    <3> QED BY <1>1, <3>2, <3>3, <3>4
  <2>5. step = "done" /\ shown = << >> /\ paired /\ next = 2 /\ fd = TmpPath
    BY <2>3 DEF TermInv, SearchInv, ShownInv, NothingYet, FdInv
  <2>6. FdInv'
    BY <2>2, <2>4, <2>5 DEF FdInv, FdOpen, TmpPath, Log!Tmp
  <2> QED BY <2>2, <2>5, <2>6, NothingShown
<1>2. CASE Back
  <2>1. /\ pc' = "date" /\ step' = "done" /\ paired' = TRUE /\ next' = 2 /\ shown' = << >>
        /\ fd' = TmpPath /\ ~Searching'
    BY <1>2 DEF Back, Free, Searching, TermInv, SearchInv
  <2>2. FdInv'
    BY <2>1 DEF FdInv, FdOpen, TmpPath, Log!Tmp
  <2> QED BY <2>1, <2>2, NothingShown
<1> QED BY <1>1, <1>2

\* The frames of a range are put behind those shown, and come later.
LEMMA ShownInvPrintSegment ==
    ASSUME TermInv, TermInv', ShownInv, Plan, out' # out, PrintSegment,
           UNCHANGED <<listing, tmpVars, asked, raced>>
    PROVE  SealedInv' /\ PlannedInv' /\ GoodInv'
<1> DEFINE N == Len(out)
           range == out'[Len(out')]
           p == Path(timeseg[i])
           recs == index'[p]
           P == PrintedOf(recs, range.from, range.to)
           M == Len(shown)
<1>1. /\ pc = "output" /\ pc' \in {"output", "tmp"} /\ UNCHANGED <<from, to>>
      /\ timeseg[i] \in Segment
      /\ range.from \in Nat /\ range.to \in Nat
      /\ N \in Nat /\ Len(out') = N + 1 /\ range = out'[N + 1]
      /\ \A n \in 1 .. N : out'[n] = out[n]
      /\ from <= to => /\ from <= range.from /\ range.from <= range.to /\ range.to <= to
                       /\ \A n \in 1 .. N : out[n].to < range.from
  BY OutputRange DEF Times
<1>2. /\ KeepsRecords /\ p \in DOMAIN index' /\ recs \in Recs /\ shown' = shown \o P
  BY PrintSegmentKeeps
<1>3. /\ AllRecords' = AllRecords /\ SealedRecords \subseteq SealedRecords'
  BY <1>2, RecordsKept
<1>4. /\ UNCHANGED <<step, paired>> /\ step = "done" /\ ~RunsOn /\ ~RunsOn'
  BY <1>1 DEF tmpVars, TermInv, SearchInv, RunsOn
<1>5. /\ P \in Seq(Log!Record) /\ Len(P) \in Nat
      /\ \A k \in 1 .. Len(P) : \E n \in 2 .. Len(recs) : P[k] = recs[n]
      /\ range.from <= range.to =>
            \A k \in 1 .. Len(P) : range.from <= P[k].time /\ P[k].time <= range.to
      /\ \A k, m \in 1 .. Len(P) : k < m => P[k].time <= P[m].time
  <2>1. recs \in Recs /\ range.from \in Nat /\ range.to \in Nat
    BY <1>1, <1>2
  <2> HIDE DEF recs, range
  <2> QED BY <2>1, PrintedRange
<1>6. \A k \in 1 .. Len(P) : P[k] \in SealedRecords' /\ P[k] \in AllRecords'
  <2>1. p # TmpPath /\ TmpPath' = TmpPath
    BY <1>1, PathFacts DEF TmpPath, Log!Tmp
  <2> HIDE DEF P, p
  <2> QED BY <1>2, <1>5, <2>1, SealedRecordsOf
<1>7. \A k \in 1 .. Len(P) : P[k].time \in Nat
  <2>1. \A r \in Log!Record : r.time \in Nat
    BY BoundsAreNat DEF Log!Record
  <2> HIDE DEF P
  <2> QED BY <1>5, <2>1, ElementOfSeq
<1>8. shown \in Seq(Entry) /\ M \in Nat /\ \A k \in 1 .. M : shown[k].time \in Nat
  BY TermTypes
<1>9. {from, to} \subseteq Nat /\ \A n \in 1 .. N : out[n].from \in Nat /\ out[n].to \in Nat
  BY TermTypes, OutIsTyped DEF TermInv, PlanInv, Times
<1> HIDE DEF P, range, N, M, p
<1>10. /\ Len(shown') = M + Len(P)
       /\ \A k \in 1 .. M : shown'[k] = shown[k]
       /\ \A k \in M + 1 .. M + Len(P) : shown'[k] = P[k - M]
  <2>1. P \in Seq(Entry)
    BY <1>5, SeqMonotonic DEF Entry
  <2> QED BY <1>2, <1>8, <2>1, ConcatProperties DEF M
<1>11. ASSUME NEW k \in 1 .. Len(shown')
       PROVE  \/ k \in 1 .. M /\ shown'[k] = shown[k]
              \/ k - M \in 1 .. Len(P) /\ shown'[k] = P[k - M]
  BY <1>5, <1>8, <1>10
<1>12. SealedInv'
  <2>1. \A k \in 1 .. M : shown[k] \in SealedRecords
    BY <1>1 DEF ShownInv, SealedInv, M
  <2> QED BY <1>3, <1>6, <1>11, <2>1 DEF SealedInv
<1>13. \A k \in 1 .. M : from <= to =>
           \E n \in 1 .. N : out[n].from <= shown[k].time /\ shown[k].time <= out[n].to
  BY <1>1, <1>8, <1>9 DEF ShownInv, PlannedInv, M, N
<1>14. PlannedInv'
  <2> SUFFICES ASSUME from <= to, NEW k \in 1 .. Len(shown')
               PROVE  \E n \in 1 .. N + 1 : shown'[k].time \in out'[n].from .. out'[n].to
    BY <1>1 DEF PlannedInv
  <2>1. CASE k \in 1 .. M /\ shown'[k] = shown[k]
    <3>1. PICK n \in 1 .. N : out[n].from <= shown[k].time /\ shown[k].time <= out[n].to
      BY <1>13, <2>1
    <3>2. n \in 1 .. N + 1 /\ out'[n] = out[n]
      BY <1>1
    <3>3. shown'[k].time \in out'[n].from .. out'[n].to
      BY <1>8, <1>9, <2>1, <3>1, <3>2
    <3> QED BY <3>2, <3>3
  <2>2. CASE k - M \in 1 .. Len(P) /\ shown'[k] = P[k - M]
    <3>1. range.from <= P[k - M].time /\ P[k - M].time <= range.to
      BY <1>1, <1>5, <2>2
    <3>2. shown'[k].time \in out'[N + 1].from .. out'[N + 1].to
      BY <1>1, <1>7, <2>2, <3>1
    <3> QED BY <1>1, <3>2
  <2> QED BY <1>11, <2>1, <2>2
<1>15. GoodInv'
  <2> SUFFICES ASSUME from <= to, paired, NEW k \in 1 .. Len(shown')
               PROVE  /\ shown'[k] \in AllRecords'
                      /\ from <= shown'[k].time /\ shown'[k].time <= to
                      /\ k > 1 => shown'[k - 1].time <= shown'[k].time
    BY <1>1, <1>4 DEF GoodInv
  <2>1. \A m \in 1 .. M : /\ shown[m] \in AllRecords
                          /\ from <= shown[m].time /\ shown[m].time <= to
                          /\ m > 1 => shown[m - 1].time <= shown[m].time
    BY <1>4 DEF ShownInv, GoodInv, M
  <2>2. CASE k \in 1 .. M /\ shown'[k] = shown[k]
    <3>1. k > 1 => k - 1 \in 1 .. M
      BY <1>8, <2>2
    <3> QED BY <1>3, <1>10, <2>1, <2>2, <3>1
  <2>3. CASE k - M \in 1 .. Len(P) /\ shown'[k] = P[k - M]
    <3>1. range.from <= P[k - M].time /\ P[k - M].time <= range.to
      BY <1>1, <1>5, <2>3
    <3>2. from <= shown'[k].time /\ shown'[k].time <= to
      BY <1>1, <1>7, <1>9, <2>3, <3>1
    <3>3. ASSUME k > 1 PROVE shown'[k - 1].time <= shown'[k].time
      <4>1. k - 1 \in 1 .. Len(shown') /\ k \in Nat
        BY <1>5, <1>8, <1>10, <3>3
      <4>2. CASE k - 1 \in 1 .. M /\ shown'[k - 1] = shown[k - 1]
        <5>1. PICK n \in 1 .. N : shown[k - 1].time <= out[n].to
          BY <1>13, <4>2
        <5>2. out[n].to < range.from
          BY <1>1
        <5>3. /\ shown[k - 1].time \in Nat /\ out[n].to \in Nat /\ P[k - M].time \in Nat
              /\ range.from \in Nat
          BY <1>1, <1>7, <1>8, <1>9, <2>3, <4>2
        <5>4. shown[k - 1].time <= P[k - M].time
          BY <3>1, <5>1, <5>2, <5>3
        <5> QED BY <2>3, <4>2, <5>4
      <4>3. CASE k - 1 - M \in 1 .. Len(P) /\ shown'[k - 1] = P[k - 1 - M]
        <5>1. k - 1 - M < k - M
          BY <1>8, <4>1
        <5> QED BY <1>5, <2>3, <4>3, <5>1
      <4> QED BY <1>11, <4>1, <4>2, <4>3
    <3> QED BY <1>6, <2>3, <3>2, <3>3
  <2> QED BY <1>11, <2>2, <2>3
<1> QED BY <1>12, <1>14, <1>15

LEMMA ShownInvOutput ==
    ASSUME TermInv, TermInv', ShownInv, Output
    PROVE  ShownInv'
<1>1. Plan /\ UNCHANGED <<listing, tmpVars, asked, raced>>
  BY DEF Output
<1>2. UNCHANGED <<listing, step, fd, paired, next, asked, raced>>
  BY <1>1 DEF tmpVars
<1>3. pc \in {"check", "output"} /\ pc' \in {"output", "tmp"} /\ UNCHANGED <<from, to>>
  BY <1>1 DEF Plan, Check, Skip, PrintLast, PrintAndGoOn, OutputDone, Looping, GoesBeyond, plan
<1>4. step = "done" /\ ~FdOpen' /\ ~RunsOn /\ sealing' = sealing
  <2>1. sealing' = sealing
    BY DEF Output, PrintSegment, logVars
  <2> QED BY <1>2, <1>3, <2>1 DEF TermInv, SearchInv, RunsOn, FdOpen
<1>5. FdInv' /\ TmpInv' /\ AheadInv' /\ NothingYet'
  <2>1. TmpRecords' = TmpRecords
    BY <1>1, PrintSegmentKeeps, UnchangedKeeps, RecordsKept DEF Output, TermInv
  <2>2. FdInv'
    BY <1>2, <1>3, <1>4, <2>1 DEF ShownInv, FdInv, Searching, TmpPath, Log!Tmp
  <2> QED BY <1>2, <1>3, <1>4, <2>2 DEF ShownInv, TmpInv, AheadInv, NothingYet
<1>6. SealedInv' /\ PlannedInv' /\ GoodInv'
  <2>1. CASE out' # out /\ PrintSegment
    BY <1>1, <2>1, ShownInvPrintSegment
  <2>2. CASE out' = out /\ UNCHANGED <<logVars, shown>>
    <3>1. UNCHANGED <<out, index, shown>>
      BY <2>2 DEF logVars
    <3>2. AllRecords' = AllRecords /\ SealedRecords \subseteq SealedRecords'
      BY <2>2, UnchangedKeeps, RecordsKept DEF TermInv
    <3>3. SealedInv'
      BY <1>3, <3>1, <3>2 DEF ShownInv, SealedInv
    <3>4. GoodInv'
      BY <1>2, <1>3, <1>4, <3>1, <3>2 DEF ShownInv, GoodInv
    <3>5. PlannedInv'
      <4>1. CASE pc = "check"
        <5>1. Len(shown') = 0
          BY <3>1, <4>1, EmptySeq DEF ShownInv, NothingYet
        <5> QED BY <5>1 DEF PlannedInv
      <4>2. CASE pc = "output"
        BY <1>3, <3>1, <4>2 DEF ShownInv, PlannedInv
      <4> QED BY <1>3, <4>1, <4>2
    <3> QED BY <3>3, <3>4, <3>5
  <2> QED BY <2>1, <2>2 DEF Output
<1> QED BY <1>5, <1>6 DEF ShownInv

\* The files, after a step.
LEMMA IndexTypesAfter ==
    ASSUME TermInv', NEW p \in DOMAIN index'
    PROVE  /\ Len(index'[p]) \in Nat
           /\ \A k \in 2 .. Len(index'[p]) : index'[p][k].time \in Nat
<1>1. index' \in [DOMAIN index' -> Seq(Entry)] /\ InOrder(index'[p])
  BY DEF TermInv, FilesInv, FilesTyped, FilesInOrder, Entry, InOrder, Log!Record, Log!Zero
<1>2. index'[p] \in Recs
  BY <1>1 DEF Recs
<1> QED BY <1>2, RecsTypes

LEMMA TmpShown ==
    ASSUME NEW here \in Steps, NEW there \in Steps \ {"open_index"}, Tmp(here, there),
           FdInv', TmpInv', AheadInv', GoodInv'
    PROVE  ShownInv'
BY DEF Tmp, ShownInv, SealedInv, PlannedInv, NothingYet

LEMMA NotPrintedGood ==
    ASSUME ShownInv, step # "print", AllRecords' = AllRecords,
           UNCHANGED <<from, to, shown>>, paired' => paired
    PROVE  GoodInv'
BY DEF ShownInv, GoodInv, RunsOn

LEMMA ShownInvAccess ==
    ASSUME TermInv, ShownInv, Access
    PROVE  ShownInv'
<1>1. /\ pc = "tmp" /\ pc' = "free" /\ step' \in {"done", "open_index"}
      /\ UNCHANGED <<from, to, index, sealing, fd, paired, next, raced, shown>>
  BY DEF Access, SearchTmp, logVars, histVars
<1>2. step = "done"
  BY <1>1 DEF TermInv, SearchInv
<1>3. /\ AllRecords' = AllRecords /\ SealedRecords' = SealedRecords
      /\ TmpRecords' = TmpRecords
  BY <1>1 DEF AllRecords, SealedRecords, TmpRecords, TmpPath, Log!Tmp
<1>4. FdInv' /\ TmpInv' /\ AheadInv' /\ NothingYet' /\ PlannedInv'
  BY <1>1, <1>2, <1>3 DEF ShownInv, FdInv, Searching, TmpInv, AheadInv, FdOpen, NothingYet, PlannedInv
<1>5. SealedInv'
  BY <1>1, <1>3 DEF ShownInv, SealedInv
<1>6. GoodInv'
  BY <1>1, <1>2, <1>3, NotPrintedGood
<1> QED BY <1>4, <1>5, <1>6 DEF ShownInv

\* What is shown is of sealed segments, and so comes ahead of tmp.index.
LEMMA ShownInvOpenIndex ==
    ASSUME TermInv, TermInv', ShownInv, OpenIndex
    PROVE  ShownInv'
<1>1. /\ Tmp("open_index", "open_video") /\ index' = Opened(TmpPath) /\ fd' = TmpPath
      /\ pc = "free" /\ pc' = "free" /\ step = "open_index" /\ step' = "open_video"
      /\ UNCHANGED <<from, to, names, sealing, paired, next, raced, shown>>
  BY DEF OpenIndex, Tmp
<1>2. KeepsRecords
  BY <1>1, OpenedKeeps, PathFacts DEF TermInv
<1>3. /\ AllRecords' = AllRecords /\ SealedRecords \subseteq SealedRecords'
      /\ TmpRecords' = TmpRecords
  BY <1>2, RecordsKept
<1>4. TmpPath' = TmpPath
  BY DEF TmpPath, Log!Tmp
<1>5. FdInv' /\ TmpInv'
  BY <1>1, <1>3, <1>4 DEF ShownInv, FdInv, Searching, TmpInv
<1>6. AheadInv'
  <2> DEFINE d == index'[TmpPath]
  <2> SUFFICES ASSUME TmpPath \in DOMAIN index', Len(d) >= 2, NEW k \in 1 .. Len(shown)
               PROVE  /\ shown[k].time <= d[Len(d)].time
                      /\ \A n \in next .. Len(d) : shown[k].time <= d[n].time
    BY <1>1 DEF AheadInv, Log!HasRecords, LastTime
  <2>1. shown[k] \in SealedRecords'
    BY <1>1, <1>3 DEF ShownInv, SealedInv
  <2>2. PICK p \in DOMAIN index' \ {TmpPath} :
            \E m \in 2 .. Len(index'[p]) : shown[k] = index'[p][m]
    BY <2>1, SealedRecordsOf
  <2>3. \A n \in 2 .. Len(d) : shown[k].time < d[n].time
    <3>1. \A m \in 2 .. Len(index'[p]), n \in 2 .. Len(d) : index'[p][m].time < d[n].time
      BY <1>4 DEF TermInv, FilesInv, FilesApart, Earlier
    <3> HIDE DEF d
    <3> QED BY <2>2, <3>1
  <2>4. Len(d) \in Nat /\ next = 2
    BY <1>1, IndexTypesAfter DEF ShownInv, FdInv
  <2>5. shown[k].time \in Nat /\ \A n \in 2 .. Len(d) : d[n].time \in Nat
    BY TermTypes, IndexTypesAfter
  <2> HIDE DEF d
  <2>6. \A n \in 2 .. Len(d) : shown[k].time <= d[n].time
    BY <2>3, <2>5
  <2> QED BY <2>4, <2>6
<1>7. GoodInv'
  BY <1>1, <1>3, NotPrintedGood
<1> QED BY <1>1, <1>5, <1>6, <1>7, TmpShown DEF Steps

\* The two descriptors belong together unless there was a seal between.
LEMMA ShownInvOpenVideo ==
    ASSUME TermInv, ShownInv, OpenVideo
    PROVE  ShownInv'
<1>1. /\ Tmp("open_video", "first") /\ paired' = (fd = TmpPath /\ sealing = {})
      /\ pc = "free" /\ pc' = "free" /\ step = "open_video" /\ step' = "first"
      /\ UNCHANGED <<from, to, index, sealing, fd, next, raced, shown>>
  BY DEF OpenVideo, Tmp
<1>2. AllRecords' = AllRecords /\ TmpRecords' = TmpRecords /\ TmpPath' = TmpPath
  BY <1>1 DEF AllRecords, TmpRecords, TmpPath, Log!Tmp
<1>3. paired
  BY <1>1 DEF ShownInv, FdInv
<1>4. FdInv'
  <2>1. sealing # {} => raced # {}
    BY <1>1, RacedWhenSealing DEF ShownInv, Searching
  <2>2. fd # TmpPath => raced # {}
    BY <1>1 DEF ShownInv, FdInv, FdOpen
  <2> QED BY <1>1, <1>2, <2>1, <2>2 DEF ShownInv, FdInv, Searching, FdOpen, Log!HasRecords
<1>5. TmpInv' /\ AheadInv'
  BY <1>1, <1>3 DEF ShownInv, TmpInv, AheadInv, FdOpen, Log!HasRecords, LastTime
<1>6. GoodInv'
  BY <1>1, <1>2, <1>3, NotPrintedGood
<1> QED BY <1>1, <1>4, <1>5, <1>6, TmpShown DEF Steps

LEMMA ShownInvReadFirst ==
    ASSUME TermInv, ShownInv, ReadFirst
    PROVE  ShownInv'
<1>1. /\ Tmp("first", "last") /\ start' = IF Len(index[fd]) >= 2 THEN index[fd][2].time ELSE 0
      /\ pc = "free" /\ pc' = "free" /\ step = "first" /\ step' = "last"
      /\ UNCHANGED <<from, to, index, sealing, fd, paired, next, raced, shown>>
  BY DEF ReadFirst, Tmp
<1>2. /\ AllRecords' = AllRecords /\ TmpRecords' = TmpRecords
      /\ TmpPath' = TmpPath /\ fd \in DOMAIN index
  BY <1>1 DEF AllRecords, TmpRecords, TmpPath, Log!Tmp, TermInv, SearchInv, FdOpen
<1>3. FdInv'
  BY <1>1, <1>2 DEF ShownInv, FdInv, Searching, FdOpen, Log!HasRecords
<1>4. TmpInv' /\ AheadInv'
  BY <1>1 DEF ShownInv, TmpInv, AheadInv, FdOpen, Log!HasRecords, LastTime
<1>5. GoodInv'
  BY <1>1, <1>2, NotPrintedGood
<1> QED BY <1>1, <1>3, <1>4, <1>5, TmpShown DEF Steps

LEMMA ShownInvReadLast ==
    ASSUME TermInv, ShownInv, ReadLast
    PROVE  ShownInv'
<1> DEFINE recs == index[fd]
           t == TmpRange.from
           j == Least(AtOrAfter(recs, t, 2))
<1>1. /\ pc = "free" /\ pc' = "free" /\ step = "last" /\ fd \in DOMAIN index
      /\ UNCHANGED <<from, to, index, sealing, fd, paired, raced, shown>>
  BY DEF ReadLast, Tmp, TermInv, SearchInv, FdOpen
<1>2. /\ AllRecords' = AllRecords /\ TmpRecords' = TmpRecords
      /\ TmpPath' = TmpPath /\ LastTime' = LastTime
  BY <1>1 DEF AllRecords, TmpRecords, TmpPath, Log!Tmp, LastTime
<1>3. GoodInv'
  BY <1>1, <1>2, NotPrintedGood
<1>4. CASE ~InRange
  <2>1. Tmp("last", "done") /\ step' = "done"
    BY <1>4 DEF ReadLast, Tmp
  <2>2. FdInv' /\ TmpInv' /\ AheadInv'
    BY <1>1, <1>2, <2>1 DEF ShownInv, FdInv, Searching, TmpInv, AheadInv, FdOpen
  <2> QED BY <1>3, <2>1, <2>2, TmpShown DEF Steps
<1>5. CASE InRange
  <2>1. /\ Tmp("last", "print") /\ step' = "print"
        /\ start' = t /\ end' = TmpRange.to /\ next' = j
    BY <1>5 DEF ReadLast, Tmp
  <2>2. /\ {from, to, start} \subseteq Nat /\ t \in Nat /\ TmpRange.to \in Nat
        /\ LastTime \in Nat /\ Len(recs) \in Nat /\ recs \in Recs
        /\ j \in 2 .. Len(recs) /\ recs[j].time >= t
        /\ \A n \in 2 .. Len(recs) : recs[n].time \in Nat
    BY <1>1, <1>5, TmpRangeTypes, TermTypes, RecsTypes DEF Times
  <2>3. /\ from <= LastTime /\ to >= start /\ AtOrAfter(recs, t, 2) # {}
        /\ LastTime = recs[Len(recs)].time
    BY <1>5 DEF InRange, StartsIn, LastTime
  <2>4. /\ \A n \in 2 .. Len(recs) : n < j => recs[n].time < t
        /\ AtOrAfter(recs, t, 2) = j .. Len(recs)
    <3>1. recs \in Recs /\ t \in Nat /\ AtOrAfter(recs, t, 2) # {}
      BY <2>2, <2>3
    <3> HIDE DEF recs, t
    <3> QED BY <3>1, FirstAtOrAfter
  <2>5. /\ from <= t /\ start <= t /\ (t = from \/ t = start)
        /\ TmpRange.to = IF to <= LastTime THEN to ELSE LastTime
    BY <2>2 DEF TmpRange
  <2>6. Log!HasRecords(fd)
    BY <1>1, <2>2 DEF Log!HasRecords
  <2>7. start <= LastTime
    <3>1. start = 0 \/ start = recs[2].time
      BY <1>1 DEF ShownInv, FdInv
    <3>2. 2 \in 2 .. Len(recs) /\ Len(recs) \in 2 .. Len(recs)
      BY <2>2
    <3>3. recs[2].time <= recs[Len(recs)].time
      BY <2>2, <3>2, RecsTypes
    <3> HIDE DEF recs
    <3> QED BY <2>2, <2>3, <3>1, <3>3
  <2>8. ASSUME from <= to PROVE t <= TmpRange.to
    <3> HIDE DEF t
    <3> QED BY <2>2, <2>3, <2>5, <2>7, <2>8
  <2>9. \A n \in j .. Len(recs) : n \in 2 .. Len(recs) /\ recs[n].time >= t
    BY <2>2, <2>4 DEF AtOrAfter
  <2>10. FdInv'
    BY <1>1, <1>2, <2>1, <2>6 DEF ShownInv, FdInv, Searching, FdOpen, Log!HasRecords
  <2>11. AheadInv'
    <3> SUFFICES ASSUME from <= to, paired, NEW k \in 1 .. Len(shown)
                 PROVE  /\ shown[k].time <= LastTime
                        /\ \A n \in j .. Len(recs) : shown[k].time <= recs[n].time
      BY <1>1, <1>2, <2>1 DEF AheadInv
    <3>1. next = 2 /\ FdOpen
      BY <1>1 DEF ShownInv, FdInv, FdOpen
    <3> HIDE DEF j
    <3> QED BY <2>6, <2>9, <3>1 DEF ShownInv, AheadInv
  <2>12. ASSUME from <= to
         PROVE  from <= end' /\ end' <= to /\ RangeInv'
    <3> DEFINE u == TmpRange.to
    <3> HIDE DEF t, u, j, recs
    <3>1. from <= u /\ u <= to
      BY <2>2, <2>3, <2>5, <2>8, <2>12 DEF u
    <3>2. \A n \in 2 .. Len(recs) : recs[n].time = u => n >= j
      <4> SUFFICES ASSUME NEW n \in 2 .. Len(recs), recs[n].time = u, n < j PROVE FALSE
        BY <2>2
      <4>1. recs[n].time < t
        BY <2>4
      <4> QED BY <2>2, <2>8, <2>12, <4>1 DEF u
    <3>3. \A n \in j .. Len(recs) : from <= recs[n].time
      BY <2>2, <2>5, <2>9
    <3>4. u < to => \E n \in j .. Len(recs) : recs[n].time = u
      <4>1. u < to => u = LastTime
        BY <2>2, <2>5 DEF u
      <4>2. Len(recs) \in j .. Len(recs)
        BY <2>2
      <4> QED BY <2>3, <4>1, <4>2
    <3>5. to <= LastTime \/ u < to
      BY <2>2, <2>5 DEF u
    <3>6. j <= Len(recs) + 1
      BY <2>2
    <3>7. end' = u /\ next' = j /\ index'[fd'] = recs /\ Log!HasRecords(fd)'
      BY <1>1, <2>1, <2>6 DEF u, recs, j, t, Log!HasRecords
    <3>8. RangeInv'
      BY <1>1, <1>2, <3>2, <3>3, <3>4, <3>5, <3>6, <3>7 DEF RangeInv
    <3> QED BY <3>1, <3>7, <3>8
  <2>13. TmpInv'
    BY <1>1, <2>1, <2>12 DEF TmpInv
  <2> QED BY <1>3, <2>1, <2>10, <2>11, <2>13, TmpShown DEF Steps
<1> QED BY <1>4, <1>5

\* A frame of tmp.h264 goes beyond the interval only where the search runs on.
LEMMA ShownInvPrintTmp ==
    ASSUME TermInv, ShownInv, PrintTmp
    PROVE  ShownInv'
<1> DEFINE recs == index[fd]
           f == recs[next]
           M == Len(shown)
<1>1. /\ pc = "free" /\ pc' = "free" /\ step = "print" /\ fd \in DOMAIN index
      /\ next <= Len(recs) /\ step' = IF f.time = end THEN "second" ELSE "print"
      /\ shown' = Append(shown, FrameOf(f)) /\ next' = next + 1
      /\ UNCHANGED <<from, to, start, end, index, sealing, fd, paired, raced>>
  BY DEF PrintTmp, Tmp, TermInv, SearchInv, FdOpen
<1>2. Tmp("print", step') /\ step' \in {"second", "print"}
  BY DEF PrintTmp, Tmp
<1>3. /\ AllRecords' = AllRecords /\ TmpRecords' = TmpRecords
      /\ TmpPath' = TmpPath /\ LastTime' = LastTime
  BY <1>1 DEF AllRecords, TmpRecords, TmpPath, Log!Tmp, LastTime
<1>4. /\ {from, to, start, end} \subseteq Nat /\ next \in Nat /\ next >= 2
      /\ shown \in Seq(Entry) /\ M \in Nat
      /\ \A k \in 1 .. M : shown[k] \in Entry /\ shown[k].time \in Nat
      /\ recs \in Recs /\ Len(recs) \in Nat
      /\ \A n \in 2 .. Len(recs) : recs[n] \in Log!Record /\ recs[n].time \in Nat
      /\ \A n, m \in 2 .. Len(recs) : n <= m => recs[n].time <= recs[m].time
  BY <1>1, TermTypes, RecsTypes
<1>5. /\ LastTime = recs[Len(recs)].time /\ f = recs[next]
  BY DEF LastTime
<1> HIDE DEF recs, f, M
<1>6. next \in 2 .. Len(recs) /\ next \in next .. Len(recs) /\ Len(recs) \in 2 .. Len(recs)
  BY <1>1, <1>4
<1>7. f \in Log!Record /\ f.time \in Nat /\ f.time <= LastTime /\ LastTime \in Nat
  BY <1>1, <1>4, <1>5, <1>6
<1>8. f \in AllRecords
  BY <1>1, <1>5, <1>6, RecordsOf DEF TermInv, FilesInv, recs
<1>9. ASSUME paired
      PROVE  /\ Len(shown') = M + 1 /\ shown'[M + 1] = f
             /\ \A k \in 1 .. M : shown'[k] = shown[k]
  <2>1. FrameOf(f) = f /\ f \in Entry
    BY <1>7, <1>9 DEF FrameOf, Entry
  <2> QED BY <1>1, <1>4, <2>1, AppendProperties DEF M
<1>10. \A k \in 1 .. M + 1 : k \in 1 .. M \/ k = M + 1
  BY <1>4
<1>11. FdInv'
  BY <1>1, <1>3 DEF ShownInv, FdInv, Searching, FdOpen, Log!HasRecords
<1>12. ASSUME from <= to
       PROVE  /\ from <= end /\ end <= to /\ Log!HasRecords(fd)
              /\ \A n \in 2 .. Len(recs) : recs[n].time = end => n >= next
              /\ \A n \in next .. Len(recs) : from <= recs[n].time
              /\ end < to => \E n \in next .. Len(recs) : recs[n].time = end
              /\ to <= LastTime \/ end < to
  BY <1>1, <1>12 DEF ShownInv, TmpInv, RangeInv, recs
<1>13. TmpInv'
  <2>1. from <= to => from <= end' /\ end' <= to
    BY <1>1, <1>12
  <2>2. ASSUME from <= to, step' = "print" PROVE RangeInv'
    <3>1. f.time # end
      BY <1>1, <2>2
    <3>2. \A n \in 2 .. Len(recs) : recs[n].time = end => n >= next + 1
      BY <1>4, <1>5, <1>12, <2>2, <3>1
    <3>3. \A n \in next + 1 .. Len(recs) : from <= recs[n].time
      BY <1>4, <1>12, <2>2
    <3>4. end < to => \E n \in next + 1 .. Len(recs) : recs[n].time = end
      <4> SUFFICES ASSUME end < to PROVE \E n \in next + 1 .. Len(recs) : recs[n].time = end
        OBVIOUS
      <4>1. PICK n \in next .. Len(recs) : recs[n].time = end
        BY <1>12, <2>2
      <4>2. n # next
        BY <1>5, <3>1, <4>1
      <4>3. n \in next + 1 .. Len(recs)
        BY <1>4, <4>2
      <4> QED BY <4>1, <4>3
    <3>5. next + 1 <= Len(recs) + 1
      BY <1>1, <1>4
    <3>6. Log!HasRecords(fd)' /\ index'[fd'] = recs
      BY <1>1, <1>12, <2>2 DEF Log!HasRecords, recs
    <3> QED BY <1>1, <1>3, <1>12, <2>2, <3>2, <3>3, <3>4, <3>5, <3>6 DEF RangeInv
  <2> QED BY <1>1, <2>1, <2>2 DEF TmpInv
<1>14. ASSUME from <= to, paired
       PROVE  /\ \A k \in 1 .. M : /\ shown[k].time <= LastTime
                                   /\ \A n \in next .. Len(recs) :
                                         shown[k].time <= recs[n].time
              /\ \A k \in 1 .. M : shown[k].time <= f.time
  <2>1. FdOpen /\ Log!HasRecords(fd)
    BY <1>1, <1>12, <1>14 DEF FdOpen
  <2>2. \A k \in 1 .. M : /\ shown[k].time <= LastTime
                          /\ \A n \in next .. Len(recs) : shown[k].time <= recs[n].time
    BY <1>14, <2>1 DEF ShownInv, AheadInv, M, recs
  <2> QED BY <1>5, <1>6, <2>2
<1>15. AheadInv'
  <2> SUFFICES ASSUME from <= to, paired, NEW k \in 1 .. M + 1
               PROVE  /\ shown'[k].time <= LastTime
                      /\ \A n \in next + 1 .. Len(recs) : shown'[k].time <= recs[n].time
    BY <1>1, <1>3, <1>9 DEF AheadInv, recs
  <2>1. \A n \in next + 1 .. Len(recs) : n \in next .. Len(recs) /\ f.time <= recs[n].time
    <3> TAKE n \in next + 1 .. Len(recs)
    <3>1. n \in 2 .. Len(recs) /\ next <= n /\ n \in next .. Len(recs)
      BY <1>4
    <3> QED BY <1>4, <1>5, <1>6, <3>1
  <2> QED BY <1>7, <1>9, <1>10, <1>14, <2>1
<1>16. GoodInv'
  <2> SUFFICES ASSUME from <= to, paired, NEW k \in 1 .. M + 1
               PROVE  /\ shown'[k] \in AllRecords
                      /\ from <= shown'[k].time /\ (shown'[k].time <= to \/ RunsOn')
                      /\ k > 1 => shown'[k - 1].time <= shown'[k].time
    BY <1>1, <1>3, <1>9 DEF GoodInv
  <2>1. ASSUME f.time > to \/ RunsOn PROVE RunsOn'
    <3>1. end = to /\ to < LastTime /\ \A n \in 2 .. Len(recs) : recs[n].time # to
      <4>1. CASE f.time > to
        <5>1. ~(end < to)
          <6> SUFFICES ASSUME end < to PROVE FALSE
            OBVIOUS
          <6>1. PICK n \in next .. Len(recs) : recs[n].time = end
            BY <1>12
          <6>2. n \in 2 .. Len(recs) /\ next <= n
            BY <1>4
          <6>3. f.time <= end
            BY <1>4, <1>5, <1>6, <6>1, <6>2
          <6> QED BY <1>4, <1>7, <4>1, <6>3
        <5>2. end = to
          BY <1>4, <1>12, <5>1
        <5>3. to < LastTime
          BY <1>4, <1>7, <4>1
        <5>4. ASSUME NEW n \in 2 .. Len(recs), recs[n].time = to PROVE FALSE
          <6>1. next <= n
            BY <1>4, <1>12, <5>2, <5>4
          <6>2. f.time <= recs[n].time
            BY <1>4, <1>5, <1>6, <6>1
          <6> QED BY <1>4, <1>7, <4>1, <5>4, <6>2
        <5> QED BY <5>2, <5>3, <5>4
      <4>2. CASE RunsOn
        BY <4>2 DEF RunsOn, Exactly, recs
      <4> QED BY <2>1, <4>1, <4>2
    <3>2. step' = "print"
      BY <1>1, <1>5, <1>6, <3>1
    <3>3. Exactly(recs, to, 2) = {} /\ index'[fd'] = recs
      BY <1>1, <3>1 DEF Exactly, recs
    <3> QED BY <1>1, <1>3, <3>1, <3>2, <3>3 DEF RunsOn
  <2>2. CASE k = M + 1
    <3>1. shown'[k] = f /\ from <= f.time
      BY <1>5, <1>6, <1>9, <1>12, <2>2
    <3>2. f.time <= to \/ RunsOn'
      BY <1>4, <1>7, <2>1
    <3>3. k > 1 => shown'[k - 1].time <= f.time
      <4>1. k > 1 => k - 1 \in 1 .. M
        BY <1>4, <2>2
      <4> QED BY <1>9, <1>14, <4>1
    <3> QED BY <1>8, <3>1, <3>2, <3>3
  <2>3. CASE k \in 1 .. M
    <3>1. k > 1 => k - 1 \in 1 .. M
      BY <1>4, <2>3
    <3>2. /\ shown[k] \in AllRecords
          /\ from <= shown[k].time /\ (shown[k].time <= to \/ RunsOn)
          /\ k > 1 => shown[k - 1].time <= shown[k].time
      BY <2>3 DEF ShownInv, GoodInv, M
    <3> QED BY <1>9, <2>1, <2>3, <3>1, <3>2
  <2> QED BY <1>10, <2>2, <2>3
<1> QED BY <1>2, <1>11, <1>13, <1>15, <1>16, TmpShown DEF Steps

LEMMA ShownInvPrintTmpSecond ==
    ASSUME TermInv, ShownInv, PrintTmpSecond
    PROVE  ShownInv'
<1> DEFINE recs == index[fd]
           f == recs[next]
           M == Len(shown)
<1>1. /\ Tmp("second", "done") /\ pc = "free" /\ pc' = "free" /\ step = "second"
      /\ step' = "done" /\ fd \in DOMAIN index
      /\ shown' = IF next <= Len(recs) /\ f.time = end
                  THEN Append(shown, FrameOf(f)) ELSE shown
      /\ UNCHANGED <<from, to, index, sealing, fd, paired, next, raced>>
  BY DEF PrintTmpSecond, Tmp, TermInv, SearchInv, FdOpen
<1>2. AllRecords' = AllRecords /\ TmpRecords' = TmpRecords /\ TmpPath' = TmpPath
  BY <1>1 DEF AllRecords, TmpRecords, TmpPath, Log!Tmp
<1>3. FdInv' /\ TmpInv' /\ AheadInv'
  BY <1>1, <1>2 DEF ShownInv, FdInv, Searching, TmpInv, AheadInv, FdOpen
<1>4. GoodInv'
  <2>1. CASE shown' = shown
    BY <1>1, <1>2, <2>1, NotPrintedGood
  <2>2. CASE next <= Len(recs) /\ f.time = end /\ shown' = Append(shown, FrameOf(f))
    <3>1. /\ next \in Nat /\ next >= 2 /\ shown \in Seq(Entry) /\ M \in Nat
          /\ Len(recs) \in Nat /\ recs \in Recs
      BY <1>1, TermTypes, RecsTypes
    <3>2. next \in 2 .. Len(recs) /\ next \in next .. Len(recs)
      BY <2>2, <3>1
    <3>3. f \in Log!Record
      BY <3>1, <3>2, RecsTypes
    <3>4. f \in AllRecords
      BY <1>1, <3>2, RecordsOf DEF TermInv, FilesInv
    <3>5. Log!HasRecords(fd) /\ FdOpen
      BY <1>1, <2>2, <3>1 DEF Log!HasRecords, FdOpen
    <3>6. ASSUME from <= to, paired
          PROVE  /\ from <= f.time /\ f.time <= to
                 /\ \A k \in 1 .. M : shown[k].time <= f.time
      <4>1. from <= end /\ end <= to
        BY <1>1, <3>6 DEF ShownInv, TmpInv
      <4>2. \A k \in 1 .. M : \A n \in next .. Len(recs) : shown[k].time <= recs[n].time
        BY <3>5, <3>6 DEF ShownInv, AheadInv
      <4> QED BY <2>2, <3>2, <4>1, <4>2
    <3> HIDE DEF f, recs, M
    <3>7. ASSUME paired
          PROVE  /\ Len(shown') = M + 1 /\ shown'[M + 1] = f
                 /\ \A k \in 1 .. M : shown'[k] = shown[k]
      <4>1. FrameOf(f) = f /\ f \in Entry
        BY <3>3, <3>7 DEF FrameOf, Entry
      <4> QED BY <2>2, <3>1, <4>1, AppendProperties DEF M
    <3> SUFFICES ASSUME from <= to, paired, NEW k \in 1 .. M + 1
                 PROVE  /\ shown'[k] \in AllRecords
                        /\ from <= shown'[k].time /\ shown'[k].time <= to
                        /\ k > 1 => shown'[k - 1].time <= shown'[k].time
      BY <1>1, <1>2, <3>7 DEF GoodInv
    <3>8. k > 1 => k - 1 \in 1 .. M
      BY <3>1
    <3>9. CASE k = M + 1
      BY <3>4, <3>6, <3>7, <3>8, <3>9
    <3>10. CASE k \in 1 .. M
      <4>1. /\ shown[k] \in AllRecords
            /\ from <= shown[k].time /\ shown[k].time <= to
            /\ k > 1 => shown[k - 1].time <= shown[k].time
        BY <1>1, <3>10 DEF ShownInv, GoodInv, M, RunsOn
      <4> QED BY <3>7, <3>8, <3>10, <4>1
    <3> QED BY <3>1, <3>9, <3>10
  <2> QED BY <1>1, <2>1, <2>2
<1> QED BY <1>1, <1>3, <1>4, TmpShown DEF Steps

LEMMA ShownInvPreserved ==
    ASSUME TermInv, ShownInv, [TerminalNext]_allVars
    PROVE  ShownInv'
<1>1. TermInv'
  BY TermInvPreserved
<1>2. CASE UNCHANGED allVars
  <2>1. UNCHANGED <<vars, listing, step, fd, paired, next, raced, shown, logVars>>
    BY <1>2 DEF allVars, termVars, tmpVars, histVars
  <2>2. KeepsRecords /\ sealing' = sealing
    BY <2>1, UnchangedKeeps DEF TermInv, logVars
  <2>3. /\ SameRecords /\ AllRecords' = AllRecords /\ SealedRecords \subseteq SealedRecords'
        /\ TmpRecords' = TmpRecords
    BY <2>1, <2>2, RecordsKept
  <2>4. FdInv'
    BY <2>1, <2>2, <2>3, FdInvKept DEF ShownInv, vars
  <2> QED BY <2>1, <2>3, <2>4, SameShown
<1>3. CASE TerminalNext
  BY <1>1, <1>3, ShownInvRecorder, ShownInvListing, ShownInvOutput, ShownInvAccess,
     ShownInvOpenIndex, ShownInvOpenVideo, ShownInvReadFirst, ShownInvReadLast,
     ShownInvPrintTmp, ShownInvPrintTmpSecond DEF TerminalNext, SearchFiles
<1> QED BY <1>2, <1>3

LEMMA ShownInvInit == TerminalInit => ShownInv
<1> SUFFICES ASSUME TerminalInit PROVE ShownInv
  OBVIOUS
<1>1. /\ pc = "date" /\ step = "done" /\ paired = TRUE /\ next = 2 /\ shown = << >>
      /\ raced = {} /\ fd = TmpPath /\ listing = << >>
  BY DEF TerminalInit
<1>2. ~FdOpen /\ Len(shown) = 0
  BY <1>1, EmptySeq DEF FdOpen
<1> QED BY <1>1, <1>2 DEF ShownInv, FdInv, Searching, TmpInv, AheadInv, SealedInv, PlannedInv,
                         GoodInv, NothingYet

\* Whatever the recorder does meanwhile, and however the two threads' steps come, what
\* is printed are frames of the interval, in the order of time, up to the point where
\* print_tmp_video_info misses the end of its range; only a seal between the opening of
\* the two tmp files makes it read one file by the other's records.
THEOREM OnlyIntervalAlwaysShown == TerminalSpec => []ShowsOnlyInterval
<1>1. TermInv /\ ShownInv => ShowsOnlyInterval
  <2> SUFFICES ASSUME TermInv, ShownInv, from <= to, NEW k \in 1 .. Len(shown)
               PROVE  \/ /\ shown[k] \in AllRecords
                         /\ shown[k].time \in from .. to \/ (RunsOn /\ shown[k].time > to)
                         /\ k > 1 => shown[k - 1].time <= shown[k].time
                      \/ raced # {} /\ ~paired
    BY DEF ShowsOnlyInterval
  <2>1. CASE paired
    <3>1. {from, to} \subseteq Nat /\ shown[k].time \in Nat
      BY TermTypes
    <3>2. /\ shown[k] \in AllRecords
          /\ from <= shown[k].time /\ (shown[k].time <= to \/ RunsOn)
          /\ k > 1 => shown[k - 1].time <= shown[k].time
      BY <2>1 DEF ShownInv, GoodInv
    <3> QED BY <3>1, <3>2
  <2>2. CASE ~paired
    BY <2>2 DEF ShownInv, FdInv
  <2> QED BY <2>1, <2>2
<1>2. TermInv /\ ShownInv /\ [TerminalNext]_allVars => ShownInv'
  BY ShownInvPreserved
<1> QED BY TermInvAlways, ShownInvInit, <1>1, <1>2, PTL DEF TerminalSpec
-----------------------------------------------------------------------------
(* What is missing. *)

\* The frames that are to be shown.
Due == asked \ raced

Shows(r) == \E k \in 1 .. Len(shown) : shown[k] = r

\* Where they are shown from: the segments listed, or tmp.index.
InListed(r) == timeseg # << >> /\ r.time <= Last.end

InIndexOf(segs, r) ==
    \E k \in 1 .. Len(segs) :
        Path(segs[k]) \in DOMAIN index /\ r \in RecordsIn(index[Path(segs[k])])

\* The tmp files are, and will be opened as, those of one segment.
TmpOpen == fd = TmpPath /\ paired /\ sealing = {}

SecondsCounted ==
    \A t \in Times : Cardinality({r \in AllRecords : r.time = t}) <= I_PER_SECOND

\* While nothing is being sealed the records of tmp.index have their tmp.h264.
TmpNamed == Log!HasRecords(TmpPath) /\ sealing = {} => TmpPath \in names

\* What is listed is sealed.
SegsNamed ==
    /\ \A k \in 1 .. Len(listing) : Path(listing[k]) \in names
    /\ \A k \in 1 .. Len(timeseg) : Path(timeseg[k]) \in names

\* What is due is still in a listed file, or in the tmp.index that is searched.
AskedInv ==
    /\ pc \notin {"date", "crashed"} =>
          \A r \in Due : IF InListed(r) THEN InIndexOf(timeseg, r)
                        ELSE r \in TmpRecords /\ TmpOpen
    /\ listing # << >> =>
          \A r \in Due : InIndexOf(listing, r) \/ r \in TmpRecords

\* The ranges printed are printed whole.
SegShown ==
    /\ pc \in {"output", "tmp"} /\ from <= to =>
          \A r \in Due, n \in 1 .. Len(out) :
              InListed(r) /\ out[n].from <= r.time /\ r.time <= out[n].to => Shows(r)
    /\ pc = "free" /\ from <= to =>
          \A r \in Due : InListed(r) /\ from <= r.time /\ r.time <= to => Shows(r)

\* A record of tmp.index that is not yet shown is still ahead.
StillAhead ==
    pc = "free" /\ from <= to =>
        \A r \in Due :
            ~InListed(r) /\ from <= r.time /\ r.time <= to =>
                /\ step = "print" =>
                      /\ r.time <= end
                      /\ Shows(r) \/ \E n \in next .. Len(index[fd]) : index[fd][n] = r
                /\ step = "second" =>
                      \/ Shows(r)
                      \/ next <= Len(index[fd]) /\ index[fd][next] = r /\ r.time = end
                /\ step = "done" => Shows(r)

\* No frame is shown twice, nor one that is still to be read.
UniqueInv ==
    /\ from <= to =>
          \A k, m \in 1 .. Len(shown) :
              k < m => shown[k] # shown[m] \/ shown[k] = Log!Zero
    /\ from <= to /\ FdOpen /\ paired =>
          \A k \in 1 .. Len(shown), n \in next .. Len(index[fd]) : shown[k] # index[fd][n]

EveryInv == /\ SecondsCounted /\ TmpNamed /\ SegsNamed /\ AskedInv /\ SegShown /\ StillAhead
            /\ UniqueInv

\* The sealed files, and what they are named, stay.
SealedFilesStay ==
    /\ names \ {TmpPath} \subseteq names'
    /\ \A p \in DOMAIN index \ {TmpPath} :
          Log!HasRecords(p) => p \in DOMAIN index' /\ index'[p] = index[p]

LEMMA SecondsKept ==
    ASSUME SecondsCounted, AllRecords' = AllRecords
    PROVE  SecondsCounted'
BY DEF SecondsCounted, Times

LEMMA SecondsPut ==
    ASSUME TermInv, SecondsCounted, NEW t \in 1 .. MaxTime, Put(t)
    PROVE  SecondsCounted'
<1> DEFINE r == RecordAt(t)
           S(u) == {x \in AllRecords : x.time = u}
<1>1. AllRecords' = AllRecords \cup {r}
  BY PutEffect DEF TermInv
<1>2. r.time = t
  BY DEF RecordAt
<1> HIDE DEF r
<1>3. AllRecords' \subseteq AllRecords \cup {r}
  BY <1>1
<1>4. IsFiniteSet(AllRecords)
  BY DEF TermInv, FilesInv, RecordsCounted
<1>5. \A u : IsFiniteSet(S(u)) /\ Cardinality(S(u)) \in Nat
  <2> TAKE u
  <2>1. S(u) \in SUBSET AllRecords
    OBVIOUS
  <2>2. IsFiniteSet(S(u))
    BY <1>4, <2>1, FS_Subset
  <2> QED BY <2>2, FS_CardinalityType
<1>6. Cardinality(S(t)) < I_PER_SECOND
  BY DEF Put
<1>7. ASSUME NEW u \in Times
      PROVE  Cardinality({x \in AllRecords' : x.time = u}) <= I_PER_SECOND
  <2> DEFINE A == {x \in AllRecords' : x.time = u}
             B == S(u) \cup {r}
  <2>1. IsFiniteSet(B) /\ Cardinality(B) =
                             IF r \in S(u) THEN Cardinality(S(u)) ELSE Cardinality(S(u)) + 1
    <3>1. IsFiniteSet(S(u))
      BY <1>5
    <3> HIDE DEF S
    <3> QED BY <3>1, FS_AddElement, Zenon
  <2>2. Cardinality(S(u)) <= I_PER_SECOND
    BY DEF SecondsCounted
  <2>3. CASE u = t
    <3>1. A \in SUBSET B
      BY <1>3
    <3>2. IsFiniteSet(A) /\ Cardinality(A) <= Cardinality(B)
      BY <2>1, <3>1, FS_Subset
    <3>3. Cardinality(A) \in Nat /\ Cardinality(S(u)) \in Nat
      BY <1>5, <3>2, FS_CardinalityType
    <3>4. Cardinality(S(u)) < I_PER_SECOND
      BY <1>6, <2>3
    <3> HIDE DEF A, B, S
    <3>5. Cardinality(B) <= I_PER_SECOND /\ Cardinality(B) \in Nat
      BY <2>1, <3>3, <3>4, BoundsAreNat
    <3>6. Cardinality(A) <= I_PER_SECOND
      BY <3>2, <3>3, <3>5, BoundsAreNat
    <3> QED BY <3>6 DEF A
  <2>4. CASE u # t
    <3>1. A \in SUBSET S(u)
      BY <1>2, <1>3, <2>4
    <3>2. IsFiniteSet(A) /\ Cardinality(A) <= Cardinality(S(u))
      BY <1>5, <3>1, FS_Subset
    <3>3. Cardinality(A) \in Nat /\ Cardinality(S(u)) \in Nat
      BY <1>5, <3>2, FS_CardinalityType
    <3> HIDE DEF A, S
    <3>4. Cardinality(A) <= I_PER_SECOND
      BY <2>2, <3>2, <3>3, BoundsAreNat
    <3> QED BY <3>4 DEF A
  <2> QED BY <2>3, <2>4
<1> QED BY <1>7 DEF SecondsCounted, Times

\* Of three records of a file the third is of a later second than the first.
LEMMA AtMostTwoRecords ==
    ASSUME TermInv, SecondsCounted, I_PER_SECOND <= 2, NEW p \in DOMAIN index
    PROVE  AtMostTwo(index[p])
<1> DEFINE d == index[p]
<1> SUFFICES ASSUME NEW k \in 2 .. Len(d), k + 2 <= Len(d), d[k].time = d[k + 2].time
             PROVE  FALSE
  BY DEF AtMostTwo
<1> DEFINE t == d[k].time
           S == {x \in AllRecords : x.time = t}
           T == {d[k], d[k + 1], d[k + 2]}
<1>1. /\ d \in Recs /\ Len(d) \in Nat
      /\ \A m \in 1 .. Len(d) : d[m].time \in Times
      /\ \A m \in 2 .. Len(d) : d[m].time \in Nat
      /\ \A m, n \in 2 .. Len(d) : m <= n => d[m].time <= d[n].time
      /\ \A m, n \in 2 .. Len(d) : d[m] = d[n] => m = n
  BY EntriesOf, RecsTypes
<1>2. /\ k + 1 \in 2 .. Len(d) /\ k + 2 \in 2 .. Len(d) /\ k \in 1 .. Len(d)
      /\ k <= k + 1 /\ k + 1 <= k + 2 /\ k # k + 1 /\ k # k + 2 /\ k + 1 # k + 2
  BY <1>1
<1>3. d[k + 1].time = t
  BY <1>1, <1>2
<1>4. d[k] # d[k + 1] /\ d[k] # d[k + 2] /\ d[k + 1] # d[k + 2]
  BY <1>1, <1>2
<1>5. \A m \in 2 .. Len(d) : d[m] \in AllRecords
  BY RecordsOf DEF TermInv, FilesInv
<1>6. T \in SUBSET S
  BY <1>2, <1>3, <1>5
<1>7. IsFiniteSet(S)
  <2>1. S \in SUBSET AllRecords
    OBVIOUS
  <2> QED BY <2>1, FS_Subset DEF TermInv, FilesInv, RecordsCounted
<1>8. Cardinality(T) = 3
  <2>1. IsFiniteSet({d[k]}) /\ Cardinality({d[k]}) = 1
    BY FS_Singleton
  <2>2. IsFiniteSet({d[k]} \cup {d[k + 1]}) /\ Cardinality({d[k]} \cup {d[k + 1]}) = 2
    <3>1. d[k + 1] \notin {d[k]}
      BY <1>4
    <3> HIDE DEF d
    <3>2. /\ IsFiniteSet({d[k]} \cup {d[k + 1]})
          /\ Cardinality({d[k]} \cup {d[k + 1]}) = Cardinality({d[k]}) + 1
      BY <2>1, <3>1, FS_AddElement, Zenon
    <3> QED BY <2>1, <3>2
  <2>3. Cardinality(({d[k]} \cup {d[k + 1]}) \cup {d[k + 2]}) = 3
    <3>1. d[k + 2] \notin {d[k]} \cup {d[k + 1]}
      BY <1>4
    <3> HIDE DEF d
    <3>2. Cardinality(({d[k]} \cup {d[k + 1]}) \cup {d[k + 2]})
             = Cardinality({d[k]} \cup {d[k + 1]}) + 1
      BY <2>2, <3>1, FS_AddElement, Zenon
    <3> QED BY <2>2, <3>2
  <2>4. T = ({d[k]} \cup {d[k + 1]}) \cup {d[k + 2]}
    OBVIOUS
  <2> QED BY <2>3, <2>4
<1>9. Cardinality(T) <= Cardinality(S) /\ Cardinality(S) \in Nat
  BY <1>6, <1>7, FS_Subset, FS_CardinalityType
<1>10. Cardinality(S) <= I_PER_SECOND
  BY <1>1, <1>2 DEF SecondsCounted
<1> HIDE DEF S, T
<1> QED BY <1>8, <1>9, <1>10, BoundsAreNat

\* The name of a sealed file with records is the times of them all.
LEMMA SegmentOf ==
    ASSUME TermInv, NEW s \in Segment, Path(s) \in names, Log!HasRecords(Path(s))
    PROVE  LET d == index[Path(s)]
           IN  /\ Path(s) \in DOMAIN index /\ Len(d) \in Nat /\ Len(d) >= 2
               /\ s.start \in Nat /\ s.end \in Nat
               /\ s.end = d[Len(d)].time
               /\ \A k \in 2 .. Len(d) : /\ d[k].time \in Nat
                                         /\ s.start <= d[k].time /\ d[k].time <= s.end
<1> DEFINE p == Path(s)
           d == index[p]
<1>1. p # TmpPath /\ p.name = <<s.start, s.end>>
  BY PathFacts
<1>2. FileOf(p) = p
  BY DEF TermInv, FilesInv, SealInHand, FileOf
<1>3. p.name = <<d[2].time, d[Len(d)].time>>
  <2> HIDE DEF p
  <2> QED BY <1>1, <1>2 DEF TermInv, FilesInv, NamesTrue, Log!First, Log!Last, p
<1>4. s.start = d[2].time /\ s.end = d[Len(d)].time
  BY <1>1, <1>3
<1>5. /\ p \in DOMAIN index /\ Len(d) >= 2 /\ d \in Recs
  BY TermTypes DEF Log!HasRecords
<1>6. /\ Len(d) \in Nat /\ \A k \in 2 .. Len(d) : d[k].time \in Nat
      /\ \A k, m \in 2 .. Len(d) : k <= m => d[k].time <= d[m].time
  BY <1>5, RecsTypes
<1>7. 2 \in 2 .. Len(d) /\ Len(d) \in 2 .. Len(d)
  BY <1>5, <1>6
<1> HIDE DEF d
<1>8. ASSUME NEW k \in 2 .. Len(d)
      PROVE  d[2].time <= d[k].time /\ d[k].time <= d[Len(d)].time
  <2>1. 2 <= k /\ k <= Len(d)
    BY <1>6
  <2> QED BY <1>6, <1>7, <2>1
<1>9. s.start \in Nat /\ s.end \in Nat
  BY <1>4, <1>6, <1>7
<1> QED BY <1>4, <1>5, <1>6, <1>8, <1>9 DEF d

LEMMA DaysNamed ==
    ASSUME TermInv
    PROVE  /\ Len(timeseg) \in Nat /\ Len(listing) \in Nat
           /\ \A k \in 1 .. Len(timeseg) : /\ timeseg[k] \in Segment
                                           /\ Path(timeseg[k]) # TmpPath
           /\ \A k \in 1 .. Len(listing) : /\ listing[k] \in Segment
                                           /\ Path(listing[k]) # TmpPath
<1>1. timeseg \in Seq(Segment) /\ listing \in Seq(Segment)
  BY DaysAreSequences, TypeOKGives DEF TermInv, PlanInv, TypeOK
<1>2. /\ Len(timeseg) \in Nat /\ Len(listing) \in Nat
      /\ \A k \in 1 .. Len(timeseg) : timeseg[k] \in Segment
      /\ \A k \in 1 .. Len(listing) : listing[k] \in Segment
  BY <1>1, LenProperties, ElementOfSeq
<1> QED BY <1>2, PathFacts

LEMMA TmpOpenKept ==
    ASSUME UNCHANGED <<fd, paired, sealing>>
    PROVE  TmpOpen => TmpOpen'
BY DEF TmpOpen, TmpPath, Log!Tmp

\* Once listed, always asked for; and what is in tmp.index, until it is sealed.
LEMMA AskedStays ==
    ASSUME TermInv, EveryInv, SealedFilesStay, UNCHANGED <<timeseg, listing, asked>>,
           pc' \notin {"date", "crashed"} => pc \notin {"date", "crashed"},
           Searching' => /\ raced \subseteq raced'
                         /\ \A r \in TmpRecords \ raced' :
                               r \in TmpRecords' /\ (TmpOpen => TmpOpen')
    PROVE  SegsNamed' /\ AskedInv'
<1>1. /\ \A s : Path(s)' = Path(s)
      /\ \A r : InListed(r)' <=> InListed(r)
  BY DEF Path, TmpPath, Log!Tmp, InListed, Last
<1>2. SegsNamed'
  BY <1>1, DaysNamed DEF EveryInv, SegsNamed, SealedFilesStay
<1>3. ASSUME NEW segs \in {timeseg, listing}, NEW r, InIndexOf(segs, r)
      PROVE  \E k \in 1 .. Len(segs) : /\ Path(segs[k]) \in DOMAIN index'
                                       /\ r \in RecordsIn(index'[Path(segs[k])])
  <2>1. PICK k \in 1 .. Len(segs) : /\ Path(segs[k]) \in DOMAIN index
                                    /\ r \in RecordsIn(index[Path(segs[k])])
    BY <1>3 DEF InIndexOf
  <2> DEFINE p == Path(segs[k])
  <2>2. p # TmpPath
    BY DaysNamed
  <2> HIDE DEF p
  <2>3. Log!HasRecords(p)
    <3>1. Len(index[p]) \in Nat /\ \E n \in 2 .. Len(index[p]) : r = index[p][n]
      BY <2>1, TermTypes, RecsTypes DEF RecordsIn, p
    <3> QED BY <2>1, <3>1 DEF Log!HasRecords, p
  <2>4. p \in DOMAIN index' /\ index'[p] = index[p]
    BY <2>1, <2>2, <2>3 DEF SealedFilesStay, p
  <2> QED BY <2>1, <2>4 DEF p
<1>4. /\ \A r : InIndexOf(timeseg, r) => InIndexOf(timeseg, r)'
      /\ \A r : InIndexOf(listing, r) => InIndexOf(listing, r)'
  BY <1>1, <1>3 DEF InIndexOf
<1>5. Searching' => Due' \subseteq Due /\ \A r \in Due' : r \in TmpRecords =>
                        r \in TmpRecords' /\ (TmpOpen => TmpOpen')
  BY DEF Due
<1>6. ASSUME pc' \notin {"date", "crashed"}, NEW r \in Due'
      PROVE  IF InListed(r)' THEN InIndexOf(timeseg, r)' ELSE r \in TmpRecords' /\ TmpOpen'
  <2>1. r \in Due /\ (r \in TmpRecords => r \in TmpRecords' /\ (TmpOpen => TmpOpen'))
    BY <1>5, <1>6 DEF Searching
  <2>2. IF InListed(r) THEN InIndexOf(timeseg, r) ELSE r \in TmpRecords /\ TmpOpen
    BY <1>6, <2>1 DEF EveryInv, AskedInv
  <2> QED BY <1>1, <1>4, <2>1, <2>2
<1>7. ASSUME listing' # << >>, NEW r \in Due'
      PROVE  InIndexOf(listing, r)' \/ r \in TmpRecords'
  <2>1. r \in Due /\ (r \in TmpRecords => r \in TmpRecords')
    BY <1>5, <1>7 DEF Searching
  <2>2. InIndexOf(listing, r) \/ r \in TmpRecords
    BY <1>7, <2>1 DEF EveryInv, AskedInv
  <2> QED BY <1>4, <2>1, <2>2
<1> QED BY <1>2, <1>6, <1>7 DEF AskedInv

LEMMA FilesKept ==
    ASSUME TermInv, EveryInv, KeepsRecords
    PROVE  /\ SealedFilesStay /\ TmpRecords \subseteq TmpRecords'
           /\ SecondsCounted' /\ TmpNamed'
<1>1. /\ \A p : Log!HasRecords(p)' <=> Log!HasRecords(p)
      /\ AllRecords' = AllRecords
  BY AddsEmptyRecords DEF KeepsRecords, TermInv, FilesInv
<1>2. \A p : Log!HasRecords(p) => /\ p \in DOMAIN index /\ p \in DOMAIN index'
                                  /\ index'[p] = index[p]
  BY DEF KeepsRecords, AddsEmpty, Log!HasRecords
<1>3. TmpPath' = TmpPath
  BY DEF TmpPath, Log!Tmp
<1>4. SealedFilesStay
  BY <1>2 DEF SealedFilesStay, KeepsRecords
<1>5. TmpNamed'
  BY <1>1, <1>3 DEF EveryInv, TmpNamed, KeepsRecords
<1>6. TmpRecords \subseteq TmpRecords'
  <2> SUFFICES ASSUME TmpPath \in DOMAIN index, NEW r \in RecordsIn(index[TmpPath])
               PROVE  r \in TmpRecords'
    BY DEF TmpRecords
  <2>1. PICK k \in 2 .. Len(index[TmpPath]) : r = index[TmpPath][k]
    BY DEF RecordsIn
  <2>2. Len(index[TmpPath]) \in Nat
    BY TermTypes, RecsTypes
  <2>3. Log!HasRecords(TmpPath)
    BY <2>1, <2>2 DEF Log!HasRecords
  <2> QED BY <1>2, <1>3, <2>1, <2>3 DEF TmpRecords, RecordsIn
<1> QED BY <1>1, <1>4, <1>5, <1>6, SecondsKept DEF EveryInv

\* A step of the terminal behind the listing leaves what it asks for in its place.
LEMMA BaseKept ==
    ASSUME TermInv, EveryInv, KeepsRecords, UNCHANGED <<timeseg, listing, asked, raced>>,
           TmpOpen => TmpOpen',
           pc' \notin {"date", "crashed"} => pc \notin {"date", "crashed"}
    PROVE  SecondsCounted' /\ TmpNamed' /\ SegsNamed' /\ AskedInv'
<1>1. /\ SealedFilesStay /\ TmpRecords \subseteq TmpRecords'
      /\ SecondsCounted' /\ TmpNamed'
  BY FilesKept
<1> QED BY <1>1, AskedStays

\* The recorder moves what is asked for only by a seal, which is known of.
LEMMA BaseRecorder ==
    ASSUME TermInv, ShownInv, EveryInv, Recorder
    PROVE  SecondsCounted' /\ TmpNamed' /\ SegsNamed' /\ AskedInv'
<1>1. UNCHANGED <<vars, listing, asked>> /\ UNCHANGED <<pc, timeseg, listing, paired, asked>>
  BY DEF Recorder, vars
<1>2. TmpPath' = TmpPath /\ (Searching' <=> Searching)
  BY <1>1 DEF TmpPath, Log!Tmp, Searching
<1>3. CASE MakesTmp /\ UNCHANGED <<fd, raced>>
  <2>1. KeepsRecords
    BY <1>3, MakesTmpKeeps DEF TermInv
  <2>2. TmpOpen => TmpOpen'
    BY <1>3, <2>1, TmpOpenKept DEF Recorder, KeepsRecords
  <2> QED BY <1>1, <1>3, <2>1, <2>2, BaseKept
<1>4. CASE (\E t \in 1 .. MaxTime : Put(t)) /\ UNCHANGED <<fd, raced>>
  <2>1. PICK t \in 1 .. MaxTime : Put(t)
    BY <1>4
  <2>2. /\ TmpPath \in DOMAIN index /\ sealing = {} /\ UNCHANGED <<names, sealing>>
        /\ DOMAIN index' = DOMAIN index
        /\ \A q \in DOMAIN index \ {TmpPath} : index'[q] = index[q]
        /\ Len(index[TmpPath]) \in Nat
        /\ Len(index'[TmpPath]) = Len(index[TmpPath]) + 1
        /\ \A k \in 1 .. Len(index[TmpPath]) : index'[TmpPath][k] = index[TmpPath][k]
    BY <2>1, PutEffect DEF TermInv
  <2>3. SealedFilesStay
    BY <2>2 DEF SealedFilesStay
  <2>4. TmpRecords \subseteq TmpRecords'
    <3>1. \A k \in 2 .. Len(index[TmpPath]) :
             k \in 2 .. Len(index'[TmpPath]) /\ index'[TmpPath][k] = index[TmpPath][k]
      BY <2>2
    <3> QED BY <1>2, <2>2, <3>1 DEF TmpRecords, RecordsIn
  <2>5. TmpPath \in names
    BY <2>1 DEF Put, Log!Put
  <2>6. TmpNamed'
    BY <1>2, <2>2, <2>5 DEF TmpNamed
  <2>7. TmpOpen => TmpOpen'
    BY <1>1, <1>4, <2>2, TmpOpenKept
  <2>8. SecondsCounted'
    BY <2>1, SecondsPut DEF EveryInv
  <2> QED BY <1>1, <1>4, <2>3, <2>4, <2>6, <2>7, <2>8, AskedStays
<1>5. CASE SealsVideo
  <2>1. UNCHANGED index /\ sealing' = {TmpPath} /\ names \ {TmpPath} \subseteq names'
    BY <1>5, SealVideoKeeps DEF TermInv, SealsVideo, Log!SealVideo
  <2>2. SealedFilesStay /\ TmpNamed' /\ AllRecords' = AllRecords
    BY <2>1 DEF SealedFilesStay, TmpNamed, AllRecords, Log!HasRecords
  <2>3. SecondsCounted'
    BY <2>2, SecondsKept DEF EveryInv
  <2>4. Searching' => raced \subseteq raced' /\ TmpRecords \subseteq raced'
    BY <1>2, <1>5 DEF SealsVideo
  <2> QED BY <1>1, <2>2, <2>3, <2>4, AskedStays
<1>6. CASE SealsIndex
  <2> DEFINE Q == Log!SealedAs(TmpPath)
  <2>1. /\ Q # TmpPath /\ ~Log!HasRecords(Q) /\ sealing # {} /\ UNCHANGED names
        /\ DOMAIN index' = (DOMAIN index \ {TmpPath}) \cup {Q}
        /\ \A q \in DOMAIN index' \ {Q} : index'[q] = index[q]
        /\ AllRecords' = AllRecords
    BY <1>6, SealIndexEffect DEF TermInv, SealsIndex
  <2> HIDE DEF Q
  <2>2. SealedFilesStay
    BY <2>1 DEF SealedFilesStay
  <2>3. TmpNamed'
    BY <1>2, <2>1 DEF TmpNamed, Log!HasRecords
  <2>4. SecondsCounted'
    BY <2>1, SecondsKept DEF EveryInv
  <2>5. Searching' => raced \subseteq raced' /\ TmpRecords \subseteq raced'
    BY <1>2, <1>6, <2>1 DEF ShownInv, FdInv, SealsIndex
  <2> QED BY <1>1, <2>2, <2>3, <2>4, <2>5, AskedStays
<1> QED BY <1>3, <1>4, <1>5, <1>6 DEF Recorder, MakesTmp, SealsVideo, SealsIndex

\* The records read through the descriptor stay, whatever comes behind them.
ReadsStay ==
    FdOpen => \A n \in 2 .. Len(index[fd]) : n \in 2 .. Len(index'[fd']) /\ index'[fd'][n] = index[fd][n]

LEMMA SameReads ==
    ASSUME TermInv, FdOpen => SameRecords
    PROVE  ReadsStay
<1> SUFFICES ASSUME FdOpen, NEW n \in 2 .. Len(index[fd])
             PROVE  n \in 2 .. Len(index'[fd']) /\ index'[fd'][n] = index[fd][n]
  BY DEF ReadsStay
<1>1. fd \in DOMAIN index /\ Len(index[fd]) \in Nat
  BY TermTypes, RecsTypes DEF TermInv, SearchInv
<1>2. Log!HasRecords(fd)
  BY <1>1 DEF Log!HasRecords
<1> QED BY <1>2 DEF SameRecords

LEMMA StillAheadStays ==
    ASSUME TermInv, TermInv', EveryInv, ReadsStay, pc = "free" => raced \subseteq raced',
           UNCHANGED <<pc, from, to, timeseg, asked, end, step, next, shown>>
    PROVE  StillAhead'
<1> SUFFICES ASSUME pc = "free", from <= to, NEW r \in Due',
                    ~InListed(r), from <= r.time, r.time <= to
             PROVE  /\ step = "print" =>
                          /\ r.time <= end
                          /\ Shows(r) \/ \E n \in next .. Len(index'[fd']) : index'[fd'][n] = r
                    /\ step = "second" =>
                          \/ Shows(r)
                          \/ /\ next <= Len(index'[fd']) /\ index'[fd'][next] = r
                             /\ r.time = end
                    /\ step = "done" => Shows(r)
  BY DEF StillAhead, InListed, Last, Shows
<1>1. next \in Nat /\ next >= 2
  BY TermTypes
<1>2. /\ step = "print" =>
            /\ r.time <= end
            /\ Shows(r) \/ \E n \in next .. Len(index[fd]) : index[fd][n] = r
      /\ step = "second" =>
            \/ Shows(r)
            \/ next <= Len(index[fd]) /\ index[fd][next] = r /\ r.time = end
      /\ step = "done" => Shows(r)
  <2>1. r \in Due
    BY DEF Due
  <2> QED BY <2>1 DEF EveryInv, StillAhead
<1>3. FdOpen => /\ fd \in DOMAIN index /\ Len(index[fd]) \in Nat
                /\ \A n \in 2 .. Len(index[fd]) :
                      /\ n \in Nat /\ n <= Len(index'[fd']) /\ Len(index'[fd']) \in Int
                      /\ n \in 2 .. Len(index'[fd']) /\ index'[fd'][n] = index[fd][n]
  <2>1. FdOpen => fd \in DOMAIN index /\ Len(index[fd]) \in Nat
    BY TermTypes, RecsTypes DEF TermInv, SearchInv
  <2>2. FdOpen => fd' \in DOMAIN index'
    BY DEF TermInv, SearchInv, FdOpen
  <2>3. FdOpen => Len(index'[fd']) \in Nat
    BY <2>2, IndexTypesAfter
  <2> QED BY <2>1, <2>3 DEF ReadsStay
<1>4. CASE step = "print"
  <2>1. FdOpen
    BY <1>4 DEF FdOpen
  <2>2. ASSUME NEW n \in next .. Len(index[fd]), index[fd][n] = r
        PROVE  \E m \in next .. Len(index'[fd']) : index'[fd'][m] = r
    <3>1. n \in 2 .. Len(index[fd])
      BY <1>1, <1>3, <2>1
    <3>2. n \in next .. Len(index'[fd']) /\ index'[fd'][n] = r
      BY <1>1, <1>3, <2>1, <2>2, <3>1
    <3> QED BY <3>2
  <2> QED BY <1>2, <1>4, <2>2
<1>5. CASE step = "second"
  <2>1. FdOpen
    BY <1>5 DEF FdOpen
  <2>2. ASSUME next <= Len(index[fd])
        PROVE  next <= Len(index'[fd']) /\ index'[fd'][next] = index[fd][next]
    <3>1. next \in 2 .. Len(index[fd])
      BY <1>1, <1>3, <2>1, <2>2
    <3> QED BY <1>3, <2>1, <3>1
  <2> QED BY <1>2, <1>5, <2>2
<1> QED BY <1>2, <1>4, <1>5

\* A record that is put is none of those shown.
LEMMA UniquePut ==
    ASSUME TermInv, ShownInv, EveryInv, NEW t \in 1 .. MaxTime, Put(t),
           UNCHANGED <<from, to, step, fd, paired, next, shown>>
    PROVE  UniqueInv' /\ ReadsStay
<1> DEFINE d == index[TmpPath]
           r == RecordAt(t)
<1>1. /\ TmpPath \in DOMAIN index
      /\ \A q \in DOMAIN index \ {TmpPath} : index'[q] = index[q]
      /\ Len(d) \in Nat \ {0} /\ Len(index'[TmpPath]) = Len(d) + 1
      /\ \A k \in 1 .. Len(d) : index'[TmpPath][k] = d[k]
      /\ index'[TmpPath][Len(d) + 1] = r
      /\ \A k \in 2 .. Len(d) : d[k].at < Len(d)
      /\ \A q \in DOMAIN index \ {TmpPath} :
            \A k \in 2 .. Len(index[q]) : index[q][k].time < t
  BY PutEffect DEF TermInv
<1>2. r.time = t /\ r.at = Len(d)
  BY DEF RecordAt
<1> HIDE DEF r
<1>3. r \notin AllRecords
  <2> SUFFICES ASSUME NEW p \in DOMAIN index, NEW k \in 2 .. Len(index[p]), r = index[p][k]
               PROVE  FALSE
    BY RecordsOf DEF TermInv, FilesInv
  <2>1. index[p][k].time \in Nat /\ index[p][k].at \in Nat
    BY IndexTypes DEF TermInv, FilesInv
  <2>2. CASE p = TmpPath
    BY <1>1, <1>2, <2>1, <2>2
  <2>3. CASE p # TmpPath
    BY <1>1, <1>2, <2>1, <2>3
  <2> QED BY <2>2, <2>3
<1>4. FdOpen' <=> FdOpen
  BY DEF FdOpen
<1>5. FdOpen => fd \in DOMAIN index /\ Len(index[fd]) \in Nat
  BY TermTypes, RecsTypes DEF TermInv, SearchInv
<1>6. ReadsStay
  BY <1>1, <1>5 DEF ReadsStay
<1>7. ASSUME FdOpen, NEW n \in next .. Len(index'[fd])
      PROVE  \/ n \in next .. Len(index[fd]) /\ index'[fd][n] = index[fd][n]
             \/ index'[fd][n] = r
  <2>1. next \in Nat /\ next >= 2
    BY TermTypes
  <2>2. CASE fd # TmpPath
    BY <1>1, <1>5, <1>7, <2>2
  <2>3. CASE fd = TmpPath /\ n = Len(d) + 1
    BY <1>1, <2>3
  <2>4. CASE fd = TmpPath /\ n # Len(d) + 1
    <3>1. n \in next .. Len(d) /\ n \in 1 .. Len(d)
      BY <1>1, <2>1, <2>4
    <3> QED BY <1>1, <2>4, <3>1
  <2> QED BY <2>2, <2>3, <2>4
<1>8. UniqueInv'
  <2>1. ASSUME from <= to, FdOpen, paired, NEW k \in 1 .. Len(shown),
               NEW n \in next .. Len(index'[fd])
        PROVE  shown[k] # index'[fd][n]
    <3>1. shown[k] # r
      BY <1>3, <2>1 DEF ShownInv, GoodInv
    <3> QED BY <1>7, <2>1, <3>1 DEF EveryInv, UniqueInv
  <2>2. \A k, m \in 1 .. Len(shown) :
           from <= to /\ k < m => shown[k] # shown[m] \/ shown[k] = Log!Zero
    BY DEF EveryInv, UniqueInv
  <2>3. Log!Zero' = Log!Zero
    BY DEF Log!Zero
  <2> QED BY <1>4, <2>1, <2>2, <2>3 DEF UniqueInv
<1> QED BY <1>6, <1>8

LEMMA UniqueStays ==
    ASSUME TermInv, TermInv', EveryInv, FdOpen' => FdOpen /\ SameRecords,
           UNCHANGED <<from, to, next, shown>>, paired' => paired
    PROVE  UniqueInv'
<1>1. next \in Nat /\ next >= 2 /\ Log!Zero' = Log!Zero
  BY TermTypes DEF Log!Zero
<1>2. \A k, m \in 1 .. Len(shown) :
         from <= to /\ k < m => shown[k] # shown[m] \/ shown[k] = Log!Zero
  BY DEF EveryInv, UniqueInv
<1>3. ASSUME from <= to, FdOpen', paired', NEW k \in 1 .. Len(shown),
             NEW n \in next .. Len(index'[fd'])
      PROVE  shown[k] # index'[fd'][n]
  <2>1. CASE Log!HasRecords(fd)
    <3>1. index'[fd'] = index[fd]
      BY <1>3, <2>1 DEF SameRecords
    <3> QED BY <1>3, <3>1 DEF EveryInv, UniqueInv
  <2>2. CASE ~Log!HasRecords(fd)
    <3>0. fd' \in DOMAIN index'
      BY <1>3 DEF TermInv, SearchInv
    <3>1. fd' \in DOMAIN index' /\ Len(index'[fd']) \in Int
      BY <3>0, IndexTypesAfter
    <3>2. Len(index'[fd']) >= 2
      BY <1>1, <3>1
    <3> QED BY <1>3, <2>2, <3>1, <3>2 DEF SameRecords
  <2> QED BY <2>1, <2>2
<1> QED BY <1>1, <1>2, <1>3 DEF UniqueInv

LEMMA EveryInvRecorder ==
    ASSUME TermInv, TermInv', ShownInv, EveryInv, Recorder
    PROVE  EveryInv'
<1>1. UNCHANGED <<vars, listing, step, paired, next, asked, shown>>
  BY DEF Recorder
<1>2. UNCHANGED <<timeseg, from, to, end, out, pc, step, paired, next, asked, shown>>
  BY <1>1 DEF vars
<1>3. raced \subseteq raced'
  BY DEF Recorder
<1>4. UniqueInv' /\ ReadsStay
  <2>1. CASE MakesTmp /\ UNCHANGED <<fd, raced>>
    <3>1. SameRecords
      BY <2>1, MakesTmpKeeps, RecordsKept DEF TermInv
    <3> QED BY <1>2, <3>1, SameReads, UniqueStays DEF FdOpen
  <2>2. CASE (\E t \in 1 .. MaxTime : Put(t)) /\ UNCHANGED <<fd, raced>>
    BY <1>2, <2>2, UniquePut
  <2>3. CASE \/ Log!SealVideo(TmpPath) /\ fd' = fd
             \/ /\ Log!SealIndex(TmpPath)
                /\ fd' = IF fd = TmpPath /\ step # "done" THEN Log!SealedAs(TmpPath) ELSE fd
    <3>1. FdOpen => SameRecords
      BY <2>3, RecordsSealed DEF ShownInv
    <3> QED BY <1>2, <3>1, SameReads, UniqueStays DEF FdOpen
  <2> QED BY <2>1, <2>2, <2>3 DEF Recorder, MakesTmp
<1>5. SegShown'
  <2>1. Due' \subseteq Due
    BY <1>2, <1>3 DEF Due
  <2> QED BY <1>2, <2>1 DEF EveryInv, SegShown, InListed, Last, Shows
<1>6. StillAhead'
  BY <1>2, <1>3, <1>4, StillAheadStays
<1> QED BY <1>4, <1>5, <1>6, BaseRecorder DEF EveryInv

-----------------------------------------------------------------------------
(* What is asked for at the listing. *)

LEMMA ListingNamed ==
    ASSUME TermInv
    PROVE  \A k \in 1 .. Len(Listing) : Listing[k] \in Segment /\ Path(Listing[k]) \in names
<1> DEFINE n == Cardinality(SealedSegments)
<1>1. Listing \in [1 .. n -> SealedSegments]
  BY OrderExists, Zenon DEF Listing, TermInv
<1>2. n \in Nat /\ \A s \in SealedSegments : s \in Segment /\ Path(s) \in names
  BY SegmentsCounted, SealedSegment DEF TermInv
<1> HIDE DEF n
<1>3. Listing \in Seq(SealedSegments) /\ Len(Listing) = n
  BY <1>1, <1>2, SeqDef, LenProperties
<1> QED BY <1>1, <1>2, <1>3

LEMMA ListingHasAll ==
    ASSUME TermInv, NEW s \in SealedSegments
    PROVE  \E k \in 1 .. Len(Listing) : Listing[k] = s
<1> DEFINE n == Cardinality(SealedSegments)
<1>1. /\ Listing \in [1 .. n -> SealedSegments]
      /\ \A k, m \in DOMAIN Listing : k < m => Listing[k].start < Listing[m].start
  BY OrderExists, Zenon DEF Listing, TermInv
<1>2. /\ IsFiniteSet(SealedSegments) /\ n \in Nat
      /\ \A u \in SealedSegments : u.start \in Int
  BY SegmentsCounted, SealedSegment, SegmentTimes DEF TermInv
<1> HIDE DEF n
<1>3. Listing \in Seq(SealedSegments) /\ Len(Listing) = n
  BY <1>1, <1>2, SeqDef, LenProperties
<1>4. ASSUME NEW k \in 1 .. n, NEW m \in 1 .. n, Listing[k] = Listing[m]
      PROVE  k = m
  <2>1. Listing[k] \in SealedSegments /\ Listing[m] \in SealedSegments
    BY <1>1
  <2>2. Listing[k].start \in Int /\ Listing[k].start = Listing[m].start
    BY <1>2, <1>4, <2>1
  <2>3. DOMAIN Listing = 1 .. n
    BY <1>1
  <2>4. ~(k < m) /\ ~(m < k)
    BY <1>1, <2>2, <2>3
  <2> QED BY <1>2, <2>4
<1>5. Listing \in Injection(1 .. n, SealedSegments)
  BY <1>1, <1>4 DEF Injection, IsInjective
<1>6. Cardinality(1 .. n) = Cardinality(SealedSegments)
  BY <1>2, FS_Interval DEF n
<1>7. Listing \in Surjection(1 .. n, SealedSegments)
  BY <1>2, <1>5, <1>6, FS_Injection
<1> QED BY <1>3, <1>7 DEF Surjection

\* Every record is listed, or in tmp.index.
LEMMA FileListed ==
    ASSUME TermInv, NEW p \in DOMAIN index \ {TmpPath}, NEW r \in RecordsIn(index[p])
    PROVE  InIndexOf(Listing, r)
<1>1. Len(index[p]) \in Nat /\ \E k \in 2 .. Len(index[p]) : r = index[p][k]
  BY TermTypes, RecsTypes DEF RecordsIn
<1>2. p \in names \ {TmpPath}
  BY <1>1 DEF TermInv, FilesInv, NamesTrue, Log!HasRecords
<1>3. PICK u \in Segment : p = Path(u)
  BY <1>2 DEF TermInv, FilesInv, FilesTyped, Paths
<1>4. p.name = <<u.start, u.end>>
  BY <1>3, PathFacts
<1>5. u = [start |-> p.name[1], end |-> p.name[2]]
  BY <1>4 DEF Segment
<1>6. u \in SealedSegments
  BY <1>2, <1>5 DEF SealedSegments
<1>7. PICK k \in 1 .. Len(Listing) : Listing[k] = u
  BY <1>6, ListingHasAll
<1> QED BY <1>3, <1>7 DEF InIndexOf

LEMMA AllListed ==
    ASSUME TermInv, NEW r \in AllRecords
    PROVE  InIndexOf(Listing, r) \/ r \in TmpRecords
<1>1. PICK p \in DOMAIN index : r \in RecordsIn(index[p])
  BY DEF AllRecords
<1> QED BY <1>1, FileListed DEF TmpRecords

LEMMA EveryInvCount ==
    ASSUME TermInv, ShownInv, ShownInv', EveryInv, Count
    PROVE  EveryInv'
<1>1. /\ pc = "date" /\ listing = << >> /\ UNCHANGED <<logVars, shown>>
      /\ UNCHANGED <<names, index, sealing, shown>>
  BY DEF Count, logVars
<1>2. KeepsRecords /\ TmpRecords' = TmpRecords
  BY <1>1, UnchangedKeeps DEF TermInv, TmpRecords, TmpPath, Log!Tmp
<1>3. SecondsCounted' /\ TmpNamed'
  BY <1>2, FilesKept
<1>4. /\ pc' \in {"date", "list"} /\ shown' = << >>
      /\ pc' = "list" => timeseg' = << >> /\ listing' = << >>
      /\ pc' = "date" => timeseg' = timeseg /\ listing' = Listing
  BY <1>1 DEF Count, Fill, vars, ShownInv, NothingYet
<1>5. SegShown' /\ StillAhead' /\ UniqueInv'
  <2>1. Len(shown') = 0
    BY <1>4, EmptySeq
  <2> QED BY <1>4, <2>1 DEF SegShown, StillAhead, UniqueInv
<1>6. \A r \in Due' : /\ InIndexOf(Listing, r) \/ r \in TmpRecords
                      /\ r \in TmpRecords => sealing = {}
  BY AllListed DEF Count, Due
<1>7. AskedInv'
  <2>1. CASE pc' = "list"
    <3>1. fd' = TmpPath' /\ paired' /\ Listing = << >>
      BY <1>1, <1>4, <2>1 DEF Count, tmpVars, ShownInv, FdInv, TmpPath, Log!Tmp, vars
    <3>2. \A r : ~InIndexOf(Listing, r) /\ ~InListed(r)'
      BY <1>4, <2>1, <3>1, EmptySeq DEF InIndexOf, InListed
    <3> QED BY <1>1, <1>2, <1>4, <1>6, <2>1, <3>1, <3>2 DEF AskedInv, TmpOpen
  <2>2. CASE pc' = "date"
    <3>1. \A r : InIndexOf(Listing, r) => InIndexOf(listing, r)'
      BY <1>1, <1>4, <2>2 DEF InIndexOf, Path, TmpPath, Log!Tmp
    <3> QED BY <1>2, <1>6, <2>2, <3>1 DEF AskedInv
  <2> QED BY <1>4, <2>1, <2>2
<1>8. SegsNamed'
  <2>1. CASE pc' = "list"
    <3>1. Len(timeseg') = 0 /\ Len(listing') = 0
      BY <1>4, <2>1, EmptySeq
    <3> QED BY <3>1 DEF SegsNamed
  <2>2. CASE pc' = "date"
    BY <1>1, <1>4, <2>2, ListingNamed DEF EveryInv, SegsNamed, Path, TmpPath, Log!Tmp
  <2> QED BY <1>4, <2>1, <2>2
<1> QED BY <1>3, <1>5, <1>7, <1>8 DEF EveryInv

\* Records of tmp.index are later than the listed segments.
LEMMA TmpBehindListed ==
    ASSUME TermInv, sealing = {}, NEW s \in Segment, Path(s) \in names, NEW r \in TmpRecords
    PROVE  s.end < r.time
<1> DEFINE p == Path(s)
<1>1. p # TmpPath
  BY PathFacts
<1>2. Log!HasRecords(p)
  <2> HIDE DEF p
  <2> QED BY <1>1 DEF TermInv, FilesInv, NamesTrue, FileOf, p
<1>3. /\ p \in DOMAIN index /\ Len(index[p]) \in Nat /\ Len(index[p]) >= 2
      /\ s.end = index[p][Len(index[p])].time
  BY <1>2, SegmentOf
<1>4. TmpPath \in DOMAIN index /\ \E m \in 2 .. Len(index[TmpPath]) : r = index[TmpPath][m]
  BY DEF TmpRecords, RecordsIn
<1> HIDE DEF p
<1>5. Earlier(p, TmpPath)
  BY <1>1, <1>3, <1>4 DEF TermInv, FilesInv, FilesApart
<1>6. Len(index[p]) \in 2 .. Len(index[p])
  BY <1>3
<1> QED BY <1>3, <1>4, <1>5, <1>6 DEF Earlier

LEMMA EveryInvFillArray ==
    ASSUME TermInv, ShownInv, ShownInv', EveryInv, FillArray
    PROVE  EveryInv'
<1>1. /\ listing' = << >> /\ UNCHANGED <<logVars, shown>> /\ listing # << >>
      /\ UNCHANGED <<names, index, sealing, shown>>
  BY DEF FillArray, logVars
<1>2. KeepsRecords /\ TmpRecords' = TmpRecords
  BY <1>1, UnchangedKeeps DEF TermInv, TmpRecords, TmpPath, Log!Tmp
<1>3. SecondsCounted' /\ TmpNamed'
  BY <1>2, FilesKept
<1>4. PICK d \in {listing, Listing} :
         \/ Fill(d)
         \/ Len(d) > Len(listing) /\ pc' = "crashed" /\ UNCHANGED <<timeseg, cnt, plan>>
  BY DEF FillArray
<1>5. pc = "date"
  BY <1>1 DEF TermInv, SearchInv
<1>6. /\ pc' \in {"list", "crashed"} /\ shown' = << >>
      /\ pc' = "list" => timeseg' = d
      /\ pc' = "crashed" => timeseg' = timeseg
  BY <1>1, <1>4, <1>5 DEF Fill, ShownInv, NothingYet
<1>7. SegShown' /\ StillAhead' /\ UniqueInv'
  <2>1. Len(shown') = 0
    BY <1>6, EmptySeq
  <2> QED BY <1>6, <2>1 DEF SegShown, StillAhead, UniqueInv
<1>8. /\ d \in Days /\ Len(d) \in Nat /\ \A k \in 1 .. Len(d) : d[k] \in Segment /\ Path(d[k]) \in names
      /\ \A k, m \in 1 .. Len(d) : k < m => d[k].end < d[m].start
  <2>1. d \in Days
    BY ListingIsADay, TypeOKGives DEF TermInv
  <2>2. Len(d) \in Nat /\ \A k, m \in 1 .. Len(d) : k < m => d[k].end < d[m].start
    BY <2>1, DaysAreSequences
  <2>3. \A k \in 1 .. Len(d) : d[k] \in Segment /\ Path(d[k]) \in names
    BY ListingNamed, DaysNamed DEF EveryInv, SegsNamed
  <2> QED BY <2>1, <2>2, <2>3
<1>9. \A s : Path(s)' = Path(s)
  BY DEF Path, TmpPath, Log!Tmp
<1>10. SegsNamed'
  <2>1. Len(listing') = 0
    BY <1>1, EmptySeq
  <2> QED BY <1>1, <1>6, <1>8, <1>9, <2>1 DEF EveryInv, SegsNamed
<1>11. AskedInv'
  <2> SUFFICES ASSUME pc' = "list", NEW r \in Due'
               PROVE  IF InListed(r)' THEN InIndexOf(timeseg, r)'
                      ELSE r \in TmpRecords' /\ TmpOpen'
    BY <1>1, <1>6 DEF AskedInv
  <2>1. /\ asked' = asked /\ raced' = raced \ ListedRecords(d) /\ fd' = TmpPath' /\ paired'
        /\ TmpPath' = TmpPath
    BY <1>5, <1>6 DEF FillArray, tmpVars, ShownInv, FdInv, TmpPath, Log!Tmp
  <2>2. Len(d) # 0 => Len(d) \in 1 .. Len(d)
    BY <1>8
  <2>3. InListed(r)' <=> Len(d) # 0 /\ r.time <= d[Len(d)].end
    BY <1>6, <1>8, DaysAreSequences DEF InListed, Last
  <2>4. InIndexOf(timeseg, r)' <=> InIndexOf(d, r)
    BY <1>1, <1>6, <1>9 DEF InIndexOf
  <2>5. InIndexOf(d, r) \/ (r \in TmpRecords /\ r \notin raced')
    <3>1. CASE r \in ListedRecords(d)
      BY <3>1 DEF ListedRecords, InIndexOf
    <3>2. CASE r \notin ListedRecords(d)
      <4>1. r \in Due /\ r \notin raced'
        BY <2>1, <3>2 DEF Due
      <4>2. InIndexOf(listing, r) \/ r \in TmpRecords
        BY <1>1, <4>1 DEF EveryInv, AskedInv
      <4>3. InIndexOf(listing, r) => InIndexOf(Listing, r)
        BY DaysNamed, FileListed DEF InIndexOf
      <4> QED BY <4>1, <4>2, <4>3
    <3> QED BY <3>1, <3>2
  <2>6. ASSUME InIndexOf(d, r) PROVE InListed(r)'
    <3>0. PICK k \in 1 .. Len(d) : /\ Path(d[k]) \in DOMAIN index
                                   /\ r \in RecordsIn(index[Path(d[k])])
      BY <2>6 DEF InIndexOf
    <3> DEFINE p == Path(d[k])
    <3>1. PICK n \in 2 .. Len(index[p]) : r = index[p][n]
      BY <3>0 DEF RecordsIn
    <3>2. Log!HasRecords(p)
      <4>1. Len(index[p]) \in Nat
        BY <3>0, TermTypes, RecsTypes
      <4> QED BY <3>0, <3>1, <4>1 DEF Log!HasRecords
    <3>3. r.time <= d[k].end /\ r.time \in Nat /\ d[k].end \in Nat
      BY <1>8, <3>1, <3>2, SegmentOf
    <3>4. k = Len(d) \/ (k < Len(d) /\ d[k].end < d[Len(d)].start)
      BY <1>8, <2>2
    <3>5. /\ d[Len(d)].start \in Int /\ d[Len(d)].end \in Int
          /\ d[Len(d)].start <= d[Len(d)].end /\ Len(d) # 0
      BY <1>8, <2>2, SegmentTimes
    <3> HIDE DEF p
    <3> QED BY <2>3, <3>3, <3>4, <3>5
  <2>7. ASSUME r \in TmpRecords, r \notin raced' PROVE ~InListed(r)' /\ TmpOpen'
    <3>1. sealing = {} /\ sealing' = {}
      BY <1>1, <1>2, <2>7 DEF ShownInv, FdInv, Searching
    <3>2. Len(d) # 0 => d[Len(d)].end < r.time
      BY <1>8, <2>2, <2>7, <3>1, TmpBehindListed
    <3>3. r.time \in Nat /\ (Len(d) # 0 => d[Len(d)].end \in Int)
      BY <1>8, <2>2, <2>7, SegmentTimes, RecordsTyped, BoundsAreNat DEF Log!Record
    <3> QED BY <2>1, <2>3, <3>1, <3>2, <3>3 DEF TmpOpen
  <2> QED BY <1>2, <2>4, <2>5, <2>6, <2>7
<1> QED BY <1>3, <1>7, <1>10, <1>11 DEF EveryInv

LEMMA EveryInvPrompt ==
    ASSUME TermInv, ShownInv, ShownInv', EveryInv, Prompt \/ Back
    PROVE  EveryInv'
<1>1. KeepsRecords
  BY UnchangedKeeps DEF TermInv, Prompt, Back
<1>2. SecondsCounted' /\ TmpNamed' /\ SegsNamed' /\ AskedInv'
  <2>1. CASE Prompt
    <3>1. /\ UNCHANGED <<timeseg, listing, asked, raced>> /\ pc \in {"list", "time"}
          /\ UNCHANGED <<fd, paired, sealing>>
      BY <2>1 DEF Prompt, List, GetTime, histVars, tmpVars, logVars
    <3> QED BY <1>1, <3>1, BaseKept, TmpOpenKept
  <2>2. CASE Back
    <3>1. /\ pc = "free" /\ pc' = "date" /\ timeseg' = << >> /\ listing' = << >> /\ asked' = {}
      BY <2>2 DEF Back, Free, TermInv, SearchInv
    <3>2. Len(timeseg') = 0 /\ Len(listing') = 0
      BY <3>1, EmptySeq
    <3>3. Due' = {}
      BY <3>1 DEF Due
    <3> QED BY <1>1, <3>1, <3>2, <3>3, FilesKept DEF SegsNamed, AskedInv
  <2> QED BY <2>1, <2>2
<1>3. pc' \in {"date", "time", "check", "crashed"}
  BY DEF Prompt, List, GetTime, Back, Free
<1>4. Len(shown') = 0
  BY <1>3, EmptySeq DEF ShownInv, NothingYet
<1>5. SegShown' /\ StillAhead' /\ UniqueInv'
  BY <1>3, <1>4 DEF SegShown, StillAhead, UniqueInv
<1> QED BY <1>2, <1>5 DEF EveryInv

-----------------------------------------------------------------------------
(* A range is printed whole. *)

LEMMA EveryInvPrintSegment ==
    ASSUME I_PER_SECOND <= 2, TermInv, TermInv', ShownInv, EveryInv,
           Plan, out' # out, PrintSegment, UNCHANGED <<asked, raced>>
    PROVE  SegShown' /\ UniqueInv'
<1> DEFINE N == Len(out)
           range == out'[Len(out')]
           p == Path(timeseg[i])
           recs == index'[p]
           P == PrintedOf(recs, range.from, range.to)
           M == Len(shown)
<1>1. /\ pc = "output" /\ pc' \in {"output", "tmp"} /\ UNCHANGED <<timeseg, from, to>>
      /\ timeseg[i] \in Segment /\ i \in 1 .. Len(timeseg)
      /\ range.seg = i /\ range.from \in Nat /\ range.to \in Nat
      /\ N \in Nat /\ Len(out') = N + 1 /\ range = out'[N + 1]
      /\ \A n \in 1 .. N : out'[n] = out[n]
      /\ from <= to => /\ from <= range.from /\ range.from <= range.to /\ range.to <= to
                       /\ \A n \in 1 .. N : out[n].to < range.from
  BY OutputRange DEF Times
<1>2. /\ KeepsRecords /\ p \in DOMAIN index' /\ recs \in Recs /\ shown' = shown \o P
  BY PrintSegmentKeeps
<1>3. step' = "done"
  BY <1>1 DEF TermInv, SearchInv
<1>4. /\ P \in Seq(Log!Record) /\ Len(P) \in Nat
      /\ range.from <= range.to =>
            \A k \in 1 .. Len(P) : range.from <= P[k].time /\ P[k].time <= range.to
      /\ \A k, m \in 1 .. Len(P) : k < m => P[k] # P[m]
      /\ AtMostTwo(recs) =>
            \A n \in 2 .. Len(recs) :
                range.from <= recs[n].time /\ recs[n].time <= range.to =>
                    \E k \in 1 .. Len(P) : P[k] = recs[n]
  <2>1. recs \in Recs /\ range.from \in Nat /\ range.to \in Nat
    BY <1>1, <1>2
  <2> HIDE DEF recs, range
  <2>2. P = PrintedOf(recs, range.from, range.to)
    OBVIOUS
  <2> HIDE DEF P
  <2> QED BY <2>1, <2>2, PrintedRangeOf
<1>5. \A k \in 1 .. Len(P) : P[k].time \in Nat
  <2>1. \A r \in Log!Record : r.time \in Nat
    BY BoundsAreNat DEF Log!Record
  <2> HIDE DEF P
  <2> QED BY <1>4, <2>1, ElementOfSeq
<1>6. shown \in Seq(Entry) /\ M \in Nat /\ \A k \in 1 .. M : shown[k].time \in Nat
  BY TermTypes
<1>7. /\ {from, to} \subseteq Nat /\ \A n \in 1 .. N : out[n].from \in Nat /\ out[n].to \in Nat
  BY TermTypes, OutIsTyped DEF TermInv, PlanInv, Times
<1>8. AtMostTwo(index[p]) \/ p \notin DOMAIN index
  BY AtMostTwoRecords DEF EveryInv
<1> HIDE DEF P, range, N, M, p, recs
<1>9. /\ Len(shown') = M + Len(P)
      /\ \A k \in 1 .. M : shown'[k] = shown[k]
      /\ \A k \in M + 1 .. M + Len(P) : shown'[k] = P[k - M]
  <2>1. P \in Seq(Entry)
    BY <1>4, SeqMonotonic DEF Entry
  <2> QED BY <1>2, <1>6, <2>1, ConcatProperties DEF M
<1>10. ASSUME NEW k \in 1 .. Len(shown')
       PROVE  \/ k \in 1 .. M /\ shown'[k] = shown[k]
              \/ k - M \in 1 .. Len(P) /\ shown'[k] = P[k - M] /\ k > M
  BY <1>4, <1>6, <1>9
<1>11. \A k \in 1 .. Len(P) : M + k \in 1 .. Len(shown') /\ shown'[M + k] = P[k]
  <2> TAKE k \in 1 .. Len(P)
  <2>1. M + k \in M + 1 .. M + Len(P) /\ (M + k) - M = k /\ M + k \in 1 .. Len(shown')
    BY <1>4, <1>6, <1>9
  <2> QED BY <1>9, <2>1
<1>12. \A r : Shows(r) => Shows(r)'
  <2>1. \A k \in 1 .. M : k \in 1 .. Len(shown')
    BY <1>4, <1>6, <1>9
  <2> QED BY <1>9, <2>1 DEF Shows, M
<1>13. SegShown'
  <2> SUFFICES ASSUME from <= to, NEW r \in Due, NEW n \in 1 .. N + 1, InListed(r),
                      out'[n].from <= r.time, r.time <= out'[n].to
               PROVE  Shows(r)'
    <3>1. Due' = Due /\ \A r : InListed(r)' <=> InListed(r)
      BY <1>1 DEF InListed, Last, Due
    <3> QED BY <1>1, <3>1 DEF SegShown
  <2>1. CASE n \in 1 .. N
    BY <1>1, <1>12, <2>1 DEF EveryInv, SegShown, N
  <2>2. CASE n = N + 1
    <3>1. PICK k \in 1 .. Len(timeseg) : /\ Path(timeseg[k]) \in DOMAIN index
                                         /\ r \in RecordsIn(index[Path(timeseg[k])])
      BY <1>1 DEF EveryInv, AskedInv, InIndexOf
    <3> DEFINE q == Path(timeseg[k])
    <3>2. PICK m \in 2 .. Len(index[q]) : r = index[q][m]
      BY <3>1 DEF RecordsIn
    <3>3. timeseg[k] \in Segment /\ q # TmpPath /\ q \in names
      BY DaysNamed DEF EveryInv, SegsNamed
    <3>4. Log!HasRecords(q)
      <4>1. Len(index[q]) \in Nat
        BY <3>1, TermTypes, RecsTypes
      <4> QED BY <3>1, <3>2, <4>1 DEF Log!HasRecords
    <3>5. /\ timeseg[k].start \in Nat /\ timeseg[k].end \in Nat /\ r.time \in Nat
          /\ timeseg[k].start <= r.time /\ r.time <= timeseg[k].end
      BY <3>2, <3>3, <3>4, SegmentOf
    <3>6. range.from <= r.time /\ r.time <= range.to
      BY <1>1, <2>2
    <3>7. timeseg[i].start <= range.from /\ range.to <= timeseg[i].end
      <4>1. N + 1 \in 1 .. Len(out')
        BY <1>1
      <4>2. Sound'
        BY <1>1 DEF TermInv, OutInv
      <4>3. timeseg'[out'[N + 1].seg].start <= out'[N + 1].from /\
            out'[N + 1].to <= timeseg'[out'[N + 1].seg].end
        BY <4>1, <4>2 DEF Sound
      <4> QED BY <1>1, <4>3
    <3>8. timeseg[i].start \in Nat /\ timeseg[i].end \in Nat
      BY <1>1, SegmentTimes DEF Times
    <3>9. k = i
      <4>1. \A a, b \in 1 .. Len(timeseg) : a < b => timeseg[a].end < timeseg[b].start
        BY TypeGivesDay DEF TermInv, PlanInv, IsDay
      <4>2. k \in Int /\ i \in Int /\ range.from \in Nat /\ range.to \in Nat
        BY <1>1
      <4>3. timeseg[i].start <= r.time /\ r.time <= timeseg[i].end
        <5>1. timeseg[i].start <= r.time
          BY <3>5, <3>6, <3>7, <3>8, <4>2
        <5>2. r.time <= timeseg[i].end
          BY <3>5, <3>6, <3>7, <3>8, <4>2
        <5> QED BY <5>1, <5>2
      <4>4. ~(k < i)
        <5> SUFFICES ASSUME k < i PROVE FALSE
          OBVIOUS
        <5>1. timeseg[k].end < timeseg[i].start
          BY <1>1, <4>1
        <5>2. timeseg[i].start <= timeseg[k].end
          BY <3>5, <3>8, <4>3
        <5> QED BY <3>5, <3>8, <5>1, <5>2
      <4>5. ~(i < k)
        <5> SUFFICES ASSUME i < k PROVE FALSE
          OBVIOUS
        <5>1. timeseg[i].end < timeseg[k].start
          BY <1>1, <4>1
        <5>2. timeseg[k].start <= timeseg[i].end
          BY <3>5, <3>8, <4>3
        <5> QED BY <3>5, <3>8, <5>1, <5>2
      <4> QED BY <4>2, <4>4, <4>5
    <3>10. q = p
      BY <3>9 DEF p
    <3>11. recs = index[p] /\ AtMostTwo(recs)
      <4>1. index'[q] = index[q]
        BY <1>2, <3>1, <3>3, <3>4, FilesKept DEF SealedFilesStay
      <4> QED BY <1>8, <3>1, <3>10, <4>1 DEF recs
    <3> HIDE DEF q
    <3>12. \E l \in 1 .. Len(P) : P[l] = r
      BY <1>4, <3>2, <3>6, <3>10, <3>11
    <3> QED BY <1>11, <3>12 DEF Shows
  <2> QED BY <1>1, <2>1, <2>2
<1>14. UniqueInv'
  <2> SUFFICES ASSUME from <= to, NEW k \in 1 .. Len(shown'), NEW m \in 1 .. Len(shown'), k < m
               PROVE  shown'[k] # shown'[m] \/ shown'[k] = Log!Zero
    BY <1>1, <1>3 DEF UniqueInv, FdOpen, Log!Zero
  <2>1. CASE m \in 1 .. M
    <3>1. k \in 1 .. M /\ m \in 1 .. M
      BY <1>6, <2>1
    <3> QED BY <1>9, <3>1 DEF EveryInv, UniqueInv, M
  <2>2. CASE k \in 1 .. M /\ m - M \in 1 .. Len(P) /\ shown'[m] = P[m - M]
    <3>0. k \in 1 .. Len(shown)
      BY <2>2 DEF M
    <3>1. PICK n \in 1 .. N : shown[k].time \in out[n].from .. out[n].to
      BY <1>1, <3>0 DEF ShownInv, PlannedInv, N
    <3>2. out[n].to < range.from /\ range.from <= P[m - M].time
      BY <1>1, <1>4, <2>2
    <3>3. shown[k].time \in Nat /\ out[n].to \in Nat /\ P[m - M].time \in Nat /\ range.from \in Nat
      BY <1>1, <1>5, <1>6, <1>7, <2>2
    <3>4. shown[k].time # P[m - M].time
      <4>1. shown[k].time <= out[n].to
        BY <3>1, <3>3
      <4> QED BY <3>2, <3>3, <4>1
    <3> QED BY <1>9, <2>2, <3>4
  <2>3. CASE /\ k - M \in 1 .. Len(P) /\ shown'[k] = P[k - M]
             /\ m - M \in 1 .. Len(P) /\ shown'[m] = P[m - M]
    <3>1. k - M < m - M
      BY <1>6
    <3> QED BY <1>4, <2>3, <3>1
  <2>4. (k > M => m > M) /\ k \in Nat /\ m \in Nat
    BY <1>6
  <2> QED BY <1>6, <1>10, <2>1, <2>2, <2>3, <2>4
<1> QED BY <1>13, <1>14

LEMMA EveryInvOutput ==
    ASSUME I_PER_SECOND <= 2, TermInv, TermInv', ShownInv, EveryInv, Output
    PROVE  EveryInv'
<1>1. Plan /\ UNCHANGED <<listing, tmpVars, asked, raced>>
  BY DEF Output
<1>2. UNCHANGED <<listing, step, fd, paired, next, asked, raced>>
  BY <1>1 DEF tmpVars
<1>3. pc \in {"check", "output"} /\ pc' \in {"output", "tmp"} /\ UNCHANGED <<timeseg, from, to>>
  BY <1>1 DEF Plan, Check, Skip, PrintLast, PrintAndGoOn, OutputDone, Looping, GoesBeyond, plan
<1>4. step' = "done" /\ ~FdOpen'
  BY <1>3 DEF TermInv, SearchInv, FdOpen
<1>5. KeepsRecords
  BY <1>1, PrintSegmentKeeps, UnchangedKeeps DEF Output, TermInv
<1>6. SecondsCounted' /\ TmpNamed' /\ SegsNamed' /\ AskedInv'
  BY <1>2, <1>3, <1>5, BaseKept, TmpOpenKept DEF KeepsRecords
<1>7. SegShown' /\ UniqueInv'
  <2>1. CASE out' # out /\ PrintSegment
    BY <1>1, <1>2, <2>1, EveryInvPrintSegment
  <2>2. CASE out' = out /\ UNCHANGED <<logVars, shown>>
    <3>1. UniqueInv'
      BY <1>3, <1>4, <2>2 DEF EveryInv, UniqueInv, Log!Zero
    <3>2. SegShown'
      <4>1. CASE pc = "check"
        <5>1. Len(out') = 0
          BY <2>2, <4>1, EmptySeq DEF TermInv, OutInv
        <5> QED BY <1>3, <5>1 DEF SegShown
      <4>2. CASE pc = "output"
        BY <1>2, <1>3, <2>2, <4>2 DEF EveryInv, SegShown, InListed, Last, Shows, Due
      <4> QED BY <1>3, <4>1, <4>2
    <3> QED BY <3>1, <3>2
  <2> QED BY <2>1, <2>2 DEF Output
<1>8. StillAhead'
  BY <1>3 DEF StillAhead
<1> QED BY <1>6, <1>7, <1>8 DEF EveryInv

\* Where there is something in the interval behind the segments, tmp.h264 is searched.
LEMMA EveryInvAccess ==
    ASSUME TermInv, ShownInv, EveryInv, Access
    PROVE  EveryInv'
<1>1. /\ pc = "tmp" /\ pc' = "free"
      /\ step' = IF flag = 1 /\ TmpPath \in names \cap DOMAIN index
                 THEN "open_index" ELSE "done"
      /\ UNCHANGED <<timeseg, from, to, out, index, sealing, listing, fd, paired, next, asked,
                     raced, shown, logVars>>
  BY DEF Access, SearchTmp, logVars, histVars
<1>2. SecondsCounted' /\ TmpNamed' /\ SegsNamed' /\ AskedInv'
  BY <1>1, UnchangedKeeps, BaseKept, TmpOpenKept DEF TermInv
<1>3. UniqueInv' /\ Due' = Due
  BY <1>1 DEF EveryInv, UniqueInv, FdOpen, Log!Zero, Due
<1>4. \A r \in Due : r.time \in Times /\ r.time \in Nat
  BY TypeOKGives, BoundsAreNat DEF Log!Record, Times, Due
<1>5. {from, to} \subseteq Nat /\ {from, to} \subseteq Times
  BY TermTypes
<1>6. SegShown'
  <2> SUFFICES ASSUME from <= to, NEW r \in Due, InListed(r), from <= r.time, r.time <= to
               PROVE  Shows(r)
    BY <1>1, <1>3 DEF SegShown, InListed, Last, Shows
  <2>1. PICK k \in 1 .. Len(timeseg) : /\ Path(timeseg[k]) \in DOMAIN index
                                       /\ r \in RecordsIn(index[Path(timeseg[k])])
    BY <1>1 DEF EveryInv, AskedInv, InIndexOf
  <2> DEFINE q == Path(timeseg[k])
  <2>2. PICK m \in 2 .. Len(index[q]) : r = index[q][m]
    BY <2>1 DEF RecordsIn
  <2>3. timeseg[k] \in Segment /\ q \in names
    BY DaysNamed DEF EveryInv, SegsNamed
  <2>4. Log!HasRecords(q)
    <3>1. Len(index[q]) \in Nat
      BY <2>1, TermTypes, RecsTypes
    <3> QED BY <2>1, <2>2, <3>1 DEF Log!HasRecords
  <2>5. /\ timeseg[k].start \in Nat /\ timeseg[k].end \in Nat
        /\ timeseg[k].start <= r.time /\ r.time <= timeseg[k].end
    BY <2>2, <2>3, <2>4, SegmentOf
  <2>6. Wanted(k, r.time)
    BY <1>4, <1>5, <2>5 DEF Wanted
  <2>7. Covered(k, r.time)
    BY <1>1, <1>4, <2>6 DEF TermInv, OutInv
  <2>8. PICK n \in 1 .. Len(out) : r.time \in out[n].from .. out[n].to
    BY <2>7 DEF Covered
  <2>9. out[n].from <= r.time /\ r.time <= out[n].to
    BY <2>8
  <2> QED BY <1>1, <2>9 DEF EveryInv, SegShown
<1>7. StillAhead'
  <2> SUFFICES ASSUME from <= to, NEW r \in Due, ~InListed(r),
                      from <= r.time, r.time <= to, step' # "open_index"
               PROVE  FALSE
    BY <1>1, <1>3 DEF StillAhead, InListed, Last, Shows
  <2>1. r \in TmpRecords /\ TmpOpen
    BY <1>1 DEF EveryInv, AskedInv
  <2>2. TmpPath \in DOMAIN index /\ Log!HasRecords(TmpPath)
    <3>1. TmpPath \in DOMAIN index /\ \E k \in 2 .. Len(index[TmpPath]) : r = index[TmpPath][k]
      BY <2>1 DEF TmpRecords, RecordsIn
    <3>2. Len(index[TmpPath]) \in Nat
      BY <3>1, TermTypes, RecsTypes
    <3> QED BY <3>1, <3>2 DEF Log!HasRecords
  <2>3. sealing = {}
    BY <2>1 DEF TmpOpen
  <2>4. TmpPath \in names
    BY <2>2, <2>3 DEF EveryInv, TmpNamed
  <2>5. timeseg = << >> \/ to > Last.end
    <3>1. CASE timeseg = << >>
      BY <3>1
    <3>2. CASE timeseg # << >>
      <4>1. Last.end \in Int
        <5>1. IsDay /\ Len(timeseg) \in 1 .. Len(timeseg)
          BY <3>2, TypeGivesDay, PlanAssumption DEF TermInv, PlanInv
        <5> QED BY <5>1, FirstAndLast, SegmentTimes
      <4>2. Last.end < r.time
        BY <1>4, <3>2, <4>1 DEF InListed
      <4> QED BY <1>4, <1>5, <4>1, <4>2
    <3> QED BY <3>1, <3>2
  <2>6. flag = 1
    BY <1>1, <2>5 DEF TermInv, PlanInv, FlagSet
  <2> QED BY <1>1, <2>2, <2>4, <2>6
<1> QED BY <1>2, <1>3, <1>6, <1>7 DEF EveryInv

-----------------------------------------------------------------------------
(* The search of tmp.h264. *)

LEMMA EveryInvTmp ==
    ASSUME TermInv, EveryInv, NEW here \in Steps, NEW there \in Steps, Tmp(here, there),
           KeepsRecords, TmpOpen => TmpOpen', \A r : Shows(r) => Shows(r)',
           StillAhead', UniqueInv'
    PROVE  EveryInv'
<1>1. /\ pc = "free" /\ pc' = "free"
      /\ UNCHANGED <<timeseg, from, to, listing, asked, raced>>
  BY DEF Tmp
<1>2. SecondsCounted' /\ TmpNamed' /\ SegsNamed' /\ AskedInv'
  BY <1>1, BaseKept
<1>3. SegShown'
  <2>1. Due' = Due /\ \A r : InListed(r)' <=> InListed(r)
    BY <1>1 DEF InListed, Last, Due
  <2> QED BY <1>1, <2>1 DEF EveryInv, SegShown
<1> QED BY <1>2, <1>3 DEF EveryInv

\* What is shown is of sealed segments, and so nothing of tmp.index.
LEMMA EveryInvOpenIndex ==
    ASSUME TermInv, TermInv', ShownInv, EveryInv, OpenIndex
    PROVE  EveryInv'
<1>1. /\ Tmp("open_index", "open_video") /\ index' = Opened(TmpPath) /\ fd' = TmpPath
      /\ pc = "free" /\ pc' = "free" /\ step = "open_index" /\ step' = "open_video"
      /\ UNCHANGED <<from, to, names, sealing, paired, next, raced, shown>>
  BY DEF OpenIndex, Tmp
<1>2. KeepsRecords
  BY <1>1, OpenedKeeps, PathFacts DEF TermInv
<1>3. AllRecords' = AllRecords /\ SealedRecords \subseteq SealedRecords'
  BY <1>2, RecordsKept
<1>4. TmpPath' = TmpPath /\ Log!Zero' = Log!Zero
  BY DEF TmpPath, Log!Tmp, Log!Zero
<1>5. UniqueInv'
  <2> DEFINE d == index'[TmpPath]
  <2>1. \A k, m \in 1 .. Len(shown) :
           from <= to /\ k < m => shown[k] # shown[m] \/ shown[k] = Log!Zero
    BY DEF EveryInv, UniqueInv
  <2>2. ASSUME NEW k \in 1 .. Len(shown), NEW n \in next .. Len(d), shown[k] = d[n]
        PROVE  FALSE
    <3>1. TmpPath \in DOMAIN index'
      BY <1>1, OpenedKeeps, PathFacts DEF TermInv
    <3>2. Len(d) \in Nat /\ next = 2
      BY <1>1, <3>1, IndexTypesAfter DEF ShownInv, FdInv
    <3>3. n \in 2 .. Len(d)
      BY <3>2
    <3>4. shown[k] \in SealedRecords'
      BY <1>1, <1>3 DEF ShownInv, SealedInv
    <3>5. PICK p \in DOMAIN index' \ {TmpPath} :
              \E m \in 2 .. Len(index'[p]) : shown[k] = index'[p][m]
      BY <3>4, SealedRecordsOf
    <3>6. \A m \in 2 .. Len(index'[p]), l \in 2 .. Len(d) : index'[p][m].time < d[l].time
      BY <1>4, <3>1 DEF TermInv, FilesInv, FilesApart, Earlier
    <3>7. shown[k].time < d[n].time
      <4> HIDE DEF d
      <4> QED BY <3>3, <3>5, <3>6
    <3>8. d[n].time \in Nat
      BY <3>1, <3>3, IndexTypesAfter
    <3> HIDE DEF d
    <3> QED BY <2>2, <3>7, <3>8
  <2> QED BY <1>1, <1>4, <2>1, <2>2 DEF UniqueInv
<1>6. StillAhead'
  BY <1>1 DEF StillAhead
<1>7. /\ \A r : Shows(r) => Shows(r)'
      /\ TmpOpen => TmpOpen'
  BY <1>1, <1>4 DEF Shows, TmpOpen
<1> QED BY <1>1, <1>2, <1>5, <1>6, <1>7, EveryInvTmp DEF Steps

LEMMA EveryInvOpen ==
    ASSUME TermInv, TermInv', ShownInv, EveryInv, OpenVideo \/ ReadFirst
    PROVE  EveryInv'
<1>1. /\ pc = "free" /\ pc' = "free" /\ FdOpen /\ step' \in {"first", "last"}
      /\ UNCHANGED <<from, to, fd, next, shown>>
  BY DEF OpenVideo, ReadFirst, Tmp, FdOpen
<1>2. KeepsRecords
  <2>1. CASE OpenVideo
    BY <2>1, OpenVideoKeeps DEF TermInv, OpenVideo, Tmp
  <2>2. CASE ReadFirst
    BY <2>2, UnchangedKeeps DEF TermInv, ReadFirst, Tmp, logVars
  <2> QED BY <2>1, <2>2
<1>3. SameRecords
  BY <1>1, <1>2, RecordsKept
<1>4. paired' => paired
  <2>1. CASE OpenVideo
    BY <2>1 DEF OpenVideo, Tmp, ShownInv, FdInv
  <2>2. CASE ReadFirst
    BY <2>2 DEF ReadFirst
  <2> QED BY <2>1, <2>2
<1>5. UniqueInv'
  BY <1>1, <1>3, <1>4, UniqueStays
<1>6. StillAhead'
  BY <1>1 DEF StillAhead
<1>7. /\ \A r : Shows(r) => Shows(r)'
      /\ TmpOpen => TmpOpen'
  <2>1. shown' = shown /\ fd' = fd /\ sealing' = sealing
    <3>1. sealing' = sealing
      BY DEF OpenVideo, ReadFirst, Tmp
    <3> QED BY <1>1, <3>1
  <2>2. TmpPath' = TmpPath
    BY DEF TmpPath, Log!Tmp
  <2>3. TmpOpen => paired'
    <3>1. CASE OpenVideo
      BY <3>1 DEF TmpOpen, OpenVideo
    <3>2. CASE ReadFirst
      BY <3>2 DEF TmpOpen, ReadFirst
    <3> QED BY <3>1, <3>2
  <2>4. \A r : Shows(r) => Shows(r)'
    BY <2>1 DEF Shows
  <2>5. TmpOpen => TmpOpen'
    BY <2>1, <2>2, <2>3 DEF TmpOpen
  <2> QED BY <2>4, <2>5
<1>8. \/ Tmp("open_video", "first")
      \/ Tmp("first", "last")
  BY DEF OpenVideo, ReadFirst
<1> QED BY <1>2, <1>5, <1>6, <1>7, <1>8, EveryInvTmp DEF Steps

\* A record of tmp.index that is asked for lies in the range its search is cut to.
LEMMA AskedInRange ==
    ASSUME TermInv, ShownInv, EveryInv, step = "last", pc = "free",
           NEW r \in Due, ~InListed(r), from <= r.time, r.time <= to
    PROVE  LET recs == index[fd]
           IN  /\ InRange /\ r.time <= TmpRange.to
               /\ \E n \in 2 .. Len(recs) :
                     recs[n] = r /\ Least(AtOrAfter(recs, TmpRange.from, 2)) <= n
<1> DEFINE recs == index[fd]
           t == TmpRange.from
           u == TmpRange.to
           ns == AtOrAfter(recs, t, 2)
           j == Least(ns)
<1>1. FdOpen /\ fd \in DOMAIN index /\ fd = TmpPath
  BY DEF TermInv, SearchInv, FdOpen, EveryInv, AskedInv, TmpOpen
<1>2. r \in TmpRecords
  BY DEF EveryInv, AskedInv
<1>3. PICK n \in 2 .. Len(recs) : recs[n] = r
  BY <1>1, <1>2 DEF TmpRecords, RecordsIn
<1>4. /\ recs \in Recs /\ Len(recs) \in Nat /\ {from, to, start} \subseteq Nat
      /\ \A k \in 2 .. Len(recs) : recs[k].time \in Nat
      /\ \A k, m \in 2 .. Len(recs) : k <= m => recs[k].time <= recs[m].time
  BY <1>1, TermTypes, RecsTypes
<1>5. 2 \in 2 .. Len(recs) /\ Len(recs) \in 2 .. Len(recs) /\ 2 <= n /\ n <= Len(recs)
  BY <1>3, <1>4
<1>6. LastTime = recs[Len(recs)].time /\ recs # << >>
  BY <1>5, EmptySeq DEF LastTime
<1>7. start <= r.time
  <2>1. start = 0 \/ start = recs[2].time
    BY DEF ShownInv, FdInv
  <2>2. recs[2].time <= recs[n].time
    BY <1>3, <1>4, <1>5
  <2> HIDE DEF recs
  <2> QED BY <1>3, <1>4, <1>5, <2>1, <2>2
<1>8. r.time <= LastTime /\ r.time \in Nat /\ LastTime \in Nat
  <2> HIDE DEF recs
  <2> QED BY <1>3, <1>4, <1>5, <1>6
<1>9. /\ t = (IF from >= start THEN from ELSE start)
      /\ u = (IF to <= LastTime THEN to ELSE LastTime)
  BY DEF TmpRange
<1> HIDE DEF recs, t, u, j
<1>10. t \in Nat /\ u \in Nat /\ t <= r.time /\ r.time <= u
  BY <1>4, <1>7, <1>8, <1>9
<1>11. n \in ns
  BY <1>3, <1>10, <1>4 DEF AtOrAfter
<1>12. ns \in SUBSET Nat /\ ns # {}
  BY <1>11 DEF AtOrAfter
<1>13. j \in ns /\ j <= n
  <2> HIDE DEF ns
  <2> QED BY <1>11, <1>12, LeastExists DEF j
<1>14. j \in 2 .. Len(recs) /\ recs[j].time <= recs[n].time
  <2>1. j \in 2 .. Len(recs)
    BY <1>13 DEF AtOrAfter
  <2> QED BY <1>3, <1>4, <1>13, <2>1
<1>15. recs[j].time <= u
  BY <1>3, <1>4, <1>8, <1>10, <1>14
<1>16. StartsIn(recs, t, u)
  BY <1>12, <1>15 DEF StartsIn, j
<1>17. InRange
  BY <1>4, <1>6, <1>7, <1>8, <1>16 DEF InRange, recs, t, u
<1> QED BY <1>3, <1>10, <1>13, <1>17 DEF recs, t, u, j

LEMMA EveryInvReadLast ==
    ASSUME TermInv, TermInv', ShownInv, EveryInv, ReadLast
    PROVE  EveryInv'
<1> DEFINE recs == index[fd]
           j == Least(AtOrAfter(recs, TmpRange.from, 2))
<1>1. /\ pc = "free" /\ pc' = "free" /\ step = "last" /\ FdOpen /\ next = 2
      /\ step' = (IF InRange THEN "print" ELSE "done")
      /\ InRange => end' = TmpRange.to /\ next' = j
      /\ UNCHANGED <<timeseg, from, to, index, fd, paired, asked, raced, shown, logVars>>
  BY DEF ReadLast, Tmp, ShownInv, FdInv, FdOpen, logVars
<1>2. KeepsRecords
  BY <1>1, UnchangedKeeps DEF TermInv
<1>3. Log!Zero' = Log!Zero
  BY DEF Log!Zero
<1>4. UniqueInv'
  <2>1. ASSUME InRange, from <= to, paired, NEW k \in 1 .. Len(shown), NEW n \in j .. Len(recs)
        PROVE  shown[k] # recs[n]
    <3>1. j \in 2 .. Len(recs) /\ Len(recs) \in Nat
      BY <1>1, <2>1, TmpRangeTypes DEF TermInv, SearchInv
    <3> HIDE DEF j
    <3>2. n \in next .. Len(recs)
      BY <1>1, <2>1, <3>1
    <3> QED BY <1>1, <2>1, <3>2 DEF EveryInv, UniqueInv
  <2>2. FdOpen' /\ paired' => InRange /\ paired
    BY <1>1 DEF FdOpen
  <2>3. \A k, m \in 1 .. Len(shown) :
           from <= to /\ k < m => shown[k] # shown[m] \/ shown[k] = Log!Zero
    BY DEF EveryInv, UniqueInv
  <2> HIDE DEF j
  <2> QED BY <1>1, <1>3, <2>1, <2>2, <2>3 DEF UniqueInv
<1>5. StillAhead'
  <2> SUFFICES ASSUME from <= to, NEW r \in Due, ~InListed(r),
                      from <= r.time, r.time <= to
               PROVE  /\ step' = "print"
                      /\ r.time <= end'
                      /\ \E n \in next' .. Len(recs) : recs[n] = r
    BY <1>1 DEF StillAhead, InListed, Last, Shows, Due
  <2>1. /\ InRange /\ r.time <= TmpRange.to
        /\ \E n \in 2 .. Len(recs) : recs[n] = r /\ j <= n
    BY <1>1, AskedInRange
  <2>2. PICK n \in 2 .. Len(recs) : recs[n] = r /\ j <= n
    BY <2>1
  <2>3. j \in Nat /\ Len(recs) \in Nat
    BY <1>1, <2>1, TmpRangeTypes DEF TermInv, SearchInv
  <2> HIDE DEF j
  <2>4. n \in j .. Len(recs)
    BY <2>2, <2>3
  <2> QED BY <1>1, <2>1, <2>2, <2>4
<1>6. /\ \A r : Shows(r) => Shows(r)'
      /\ TmpOpen => TmpOpen'
  BY <1>1, TmpOpenKept DEF Shows, logVars
<1>7. \/ Tmp("last", "print")
      \/ Tmp("last", "done")
  BY DEF ReadLast
<1> QED BY <1>2, <1>4, <1>5, <1>6, <1>7, EveryInvTmp DEF Steps

\* One more frame is printed, that of the record the descriptor stands at.
LEMMA OneMoreShown ==
    ASSUME TermInv, EveryInv, FdOpen, next <= Len(index[fd]),
           shown' = Append(shown, FrameOf(index[fd][next]))
    PROVE  LET f == index[fd][next]
               M == Len(shown)
           IN  /\ M \in Nat /\ Len(shown') = M + 1 /\ shown'[M + 1] = FrameOf(f)
               /\ \A k \in 1 .. M : shown'[k] = shown[k]
               /\ \A r : Shows(r) => Shows(r)'
               /\ from <= to => \A k, m \in 1 .. M + 1 :
                     k < m => shown'[k] # shown'[m] \/ shown'[k] = Log!Zero
               /\ from <= to /\ paired =>
                     \A k \in 1 .. M + 1, n \in next + 1 .. Len(index[fd]) :
                         shown'[k] # index[fd][n]
<1> DEFINE recs == index[fd]
           f == recs[next]
           M == Len(shown)
<1>1. /\ next \in Nat /\ next >= 2 /\ shown \in Seq(Entry) /\ M \in Nat
      /\ fd \in DOMAIN index /\ recs \in Recs /\ Len(recs) \in Nat
  BY TermTypes, RecsTypes DEF TermInv, SearchInv
<1>2. next \in 2 .. Len(recs) /\ next \in next .. Len(recs)
  BY <1>1
<1>3. f \in Log!Record
  BY <1>1, <1>2, RecsTypes
<1>4. FrameOf(f) \in Entry /\ (paired => FrameOf(f) = f) /\ (~paired => FrameOf(f) = Log!Zero)
  BY <1>3 DEF FrameOf, Entry
<1>5. /\ Len(shown') = M + 1 /\ shown'[M + 1] = FrameOf(f)
      /\ \A k \in 1 .. M : shown'[k] = shown[k]
  <2>1. shown' = Append(shown, FrameOf(f))
    OBVIOUS
  <2> HIDE DEF f
  <2> QED BY <1>1, <1>4, <2>1, AppendProperties
<1>6. from <= to /\ paired => \A k \in 1 .. M, n \in next .. Len(recs) : shown[k] # recs[n]
  BY DEF EveryInv, UniqueInv
<1>7. \A n \in next + 1 .. Len(recs) : f # recs[n] /\ n \in next .. Len(recs)
  <2> TAKE n \in next + 1 .. Len(recs)
  <2>1. n \in 2 .. Len(recs) /\ n # next /\ n \in next .. Len(recs)
    BY <1>1
  <2>2. \A k, m \in 2 .. Len(recs) : recs[k] = recs[m] => k = m
    BY <1>1, RecsTypes
  <2> QED BY <1>2, <2>1, <2>2
<1>8. \A k, m \in 1 .. M : from <= to /\ k < m => shown[k] # shown[m] \/ shown[k] = Log!Zero
  BY DEF EveryInv, UniqueInv
<1> HIDE DEF recs, f, M
<1>9. \A r : Shows(r) => Shows(r)'
  <2>1. \A k \in 1 .. M : k \in 1 .. M + 1
    BY <1>1
  <2> QED BY <1>5, <2>1 DEF Shows, M
<1>10. ASSUME from <= to, NEW k \in 1 .. M + 1, NEW m \in 1 .. M + 1, k < m
       PROVE  shown'[k] # shown'[m] \/ shown'[k] = Log!Zero
  <2>1. k \in 1 .. M /\ (m \in 1 .. M \/ m = M + 1)
    BY <1>1, <1>10
  <2>2. CASE m \in 1 .. M
    BY <1>5, <1>8, <1>10, <2>1, <2>2
  <2>3. CASE m = M + 1
    <3>1. paired => shown[k] # f
      BY <1>2, <1>6, <1>10, <2>1 DEF f
    <3> QED BY <1>4, <1>5, <2>1, <2>3, <3>1
  <2> QED BY <2>1, <2>2, <2>3
<1>11. ASSUME from <= to, paired, NEW k \in 1 .. M + 1, NEW n \in next + 1 .. Len(recs)
       PROVE  shown'[k] # recs[n]
  <2>1. k \in 1 .. M \/ k = M + 1
    BY <1>1
  <2> QED BY <1>4, <1>5, <1>6, <1>7, <1>11, <2>1
<1> QED BY <1>1, <1>5, <1>9, <1>10, <1>11 DEF recs, f, M

LEMMA EveryInvPrintTmp ==
    ASSUME I_PER_SECOND <= 2, TermInv, ShownInv, EveryInv, PrintTmp
    PROVE  EveryInv'
<1> DEFINE recs == index[fd]
           f == recs[next]
           M == Len(shown)
<1>1. /\ pc = "free" /\ pc' = "free" /\ step = "print" /\ FdOpen /\ fd \in DOMAIN index
      /\ next <= Len(recs) /\ step' = IF f.time = end THEN "second" ELSE "print"
      /\ shown' = Append(shown, FrameOf(f)) /\ next' = next + 1
      /\ UNCHANGED <<timeseg, from, to, end, index, fd, paired, asked, raced, logVars>>
  BY DEF PrintTmp, Tmp, TermInv, SearchInv, FdOpen, logVars
<1>2. KeepsRecords
  BY <1>1, UnchangedKeeps DEF TermInv
<1>3. /\ M \in Nat /\ Len(shown') = M + 1 /\ shown'[M + 1] = FrameOf(f)
      /\ \A r : Shows(r) => Shows(r)'
      /\ from <= to => \A k, m \in 1 .. M + 1 :
            k < m => shown'[k] # shown'[m] \/ shown'[k] = Log!Zero
      /\ from <= to /\ paired =>
            \A k \in 1 .. M + 1, n \in next + 1 .. Len(recs) : shown'[k] # recs[n]
  BY <1>1, OneMoreShown
<1>4. UniqueInv'
  <2>1. Log!Zero' = Log!Zero
    BY DEF Log!Zero
  <2> HIDE DEF f, M
  <2> QED BY <1>1, <1>3, <2>1 DEF UniqueInv
<1>5. StillAhead'
  <2> SUFFICES ASSUME from <= to, NEW r \in Due, ~InListed(r),
                      from <= r.time, r.time <= to
               PROVE  /\ step' = "print" =>
                            /\ r.time <= end
                            /\ Shows(r)' \/ \E n \in next' .. Len(recs) : recs[n] = r
                      /\ step' = "second" =>
                            \/ Shows(r)'
                            \/ next' <= Len(recs) /\ recs[next'] = r /\ r.time = end
    BY <1>1 DEF StillAhead, InListed, Last, Due
  <2>1. r.time <= end /\ (Shows(r) \/ \E n \in next .. Len(recs) : recs[n] = r)
    BY <1>1 DEF EveryInv, StillAhead
  <2>2. CASE Shows(r)
    BY <1>1, <1>3, <2>1, <2>2
  <2>3. CASE \E n \in next .. Len(recs) : recs[n] = r
    <3>1. PICK n \in next .. Len(recs) : recs[n] = r
      BY <2>3
    <3>2. /\ next \in Nat /\ next >= 2 /\ Len(recs) \in Nat /\ end \in Nat /\ recs \in Recs
          /\ \A k \in 2 .. Len(recs) : recs[k].time \in Nat
          /\ \A k, m \in 2 .. Len(recs) : k <= m => recs[k].time <= recs[m].time
      BY <1>1, TermTypes, RecsTypes
    <3>3. CASE n = next
      <4>1. paired
        BY <1>1 DEF EveryInv, AskedInv, TmpOpen
      <4>2. shown'[M + 1] = r
        BY <1>3, <3>1, <3>3, <4>1 DEF FrameOf
      <4>3. M + 1 \in 1 .. Len(shown')
        BY <1>3
      <4>4. Shows(r)'
        BY <4>2, <4>3 DEF Shows
      <4> QED BY <1>1, <2>1, <4>4
    <3>4. CASE n # next
      <4>1. n \in next' .. Len(recs) /\ next + 1 <= n /\ n \in 2 .. Len(recs) /\ next \in 2 .. Len(recs)
        BY <1>1, <3>2, <3>4
      <4>2. ASSUME f.time = end PROVE next' <= Len(recs) /\ recs[next'] = r /\ r.time = end
        <5>1. AtMostTwo(recs)
          BY <1>1, AtMostTwoRecords DEF EveryInv
        <5>2. f.time <= r.time
          BY <3>1, <3>2, <4>1
        <5>3. r.time = end
          BY <2>1, <3>1, <3>2, <4>1, <4>2, <5>2
        <5>4. ~(next + 2 <= n)
          <6> SUFFICES ASSUME next + 2 <= n PROVE FALSE
            OBVIOUS
          <6>1. next + 2 \in 2 .. Len(recs) /\ next + 2 <= Len(recs)
            BY <3>2, <4>1
          <6>2. recs[next].time <= recs[next + 2].time /\ recs[next + 2].time <= recs[n].time
            BY <3>2, <4>1, <6>1
          <6>3. recs[next].time = recs[next + 2].time
            <7> HIDE DEF recs
            <7> QED BY <3>1, <3>2, <4>1, <4>2, <5>3, <6>1, <6>2
          <6> QED BY <4>1, <5>1, <6>1, <6>3 DEF AtMostTwo
        <5>5. n = next + 1
          BY <3>2, <4>1, <5>4
        <5> QED BY <1>1, <3>1, <4>1, <5>3, <5>5
      <4> HIDE DEF recs, f
      <4> QED BY <1>1, <2>1, <3>1, <4>1, <4>2
    <3> QED BY <3>3, <3>4
  <2> QED BY <2>1, <2>2, <2>3
<1>6. \/ Tmp("print", "second")
      \/ Tmp("print", "print")
  BY DEF PrintTmp
<1>7. TmpOpen => TmpOpen'
  BY <1>1, TmpOpenKept DEF logVars
<1> QED BY <1>2, <1>3, <1>4, <1>5, <1>6, <1>7, EveryInvTmp DEF Steps

LEMMA EveryInvPrintTmpSecond ==
    ASSUME TermInv, ShownInv, EveryInv, PrintTmpSecond
    PROVE  EveryInv'
<1> DEFINE recs == index[fd]
           f == recs[next]
           M == Len(shown)
<1>1. /\ Tmp("second", "done") /\ pc = "free" /\ pc' = "free" /\ step = "second"
      /\ step' = "done" /\ FdOpen
      /\ shown' = IF next <= Len(recs) /\ f.time = end
                  THEN Append(shown, FrameOf(f)) ELSE shown
      /\ UNCHANGED <<timeseg, from, to, index, fd, paired, asked, raced, logVars>>
  BY DEF PrintTmpSecond, Tmp, FdOpen, logVars
<1>2. KeepsRecords
  BY <1>1, UnchangedKeeps DEF TermInv
<1>3. Log!Zero' = Log!Zero /\ ~FdOpen' /\ Due' = Due /\ (TmpOpen => TmpOpen')
  BY <1>1, TmpOpenKept DEF Log!Zero, FdOpen, Due, logVars
<1>4. CASE next <= Len(recs) /\ f.time = end
  <2>1. /\ M \in Nat /\ Len(shown') = M + 1 /\ shown'[M + 1] = FrameOf(f)
        /\ \A r : Shows(r) => Shows(r)'
        /\ from <= to => \A k, m \in 1 .. M + 1 :
              k < m => shown'[k] # shown'[m] \/ shown'[k] = Log!Zero
    BY <1>1, <1>4, OneMoreShown
  <2>2. UniqueInv'
    <3> HIDE DEF f, M
    <3> QED BY <1>1, <1>3, <2>1 DEF UniqueInv
  <2>3. StillAhead'
    <3> SUFFICES ASSUME from <= to, NEW r \in Due, ~InListed(r),
                        from <= r.time, r.time <= to
                 PROVE  Shows(r)'
      BY <1>1, <1>3 DEF StillAhead, InListed, Last
    <3>1. Shows(r) \/ f = r
      BY <1>1 DEF EveryInv, StillAhead
    <3>2. paired
      BY <1>1 DEF EveryInv, AskedInv, TmpOpen
    <3>3. shown'[M + 1] = f /\ M + 1 \in 1 .. Len(shown')
      BY <2>1, <3>2 DEF FrameOf
    <3>4. f = r => Shows(r)'
      BY <3>3 DEF Shows
    <3> QED BY <2>1, <3>1, <3>4
  <2> QED BY <1>1, <1>2, <1>3, <2>1, <2>2, <2>3, EveryInvTmp DEF Steps
<1>5. CASE ~(next <= Len(recs) /\ f.time = end)
  <2>1. shown' = shown
    BY <1>1, <1>5
  <2>2. UniqueInv'
    BY <1>1, <1>3, <2>1 DEF EveryInv, UniqueInv
  <2>3. \A r : Shows(r) => Shows(r)'
    BY <2>1 DEF Shows
  <2>4. StillAhead'
    <3> SUFFICES ASSUME from <= to, NEW r \in Due, ~InListed(r),
                        from <= r.time, r.time <= to
                 PROVE  Shows(r)
      BY <1>1, <1>3, <2>3 DEF StillAhead, InListed, Last
    <3> QED BY <1>1, <1>5 DEF EveryInv, StillAhead
  <2> QED BY <1>1, <1>2, <1>3, <2>2, <2>3, <2>4, EveryInvTmp DEF Steps
<1> QED BY <1>4, <1>5

LEMMA EveryInvPreserved ==
    ASSUME I_PER_SECOND <= 2, TermInv, ShownInv, EveryInv, [TerminalNext]_allVars
    PROVE  EveryInv'
<1>1. TermInv' /\ ShownInv'
  BY TermInvPreserved, ShownInvPreserved
<1>2. CASE UNCHANGED allVars
  <2>1. UNCHANGED <<timeseg, from, to, end, out, pc, listing, step, fd, paired, next, asked,
                    raced, shown, logVars>>
    BY <1>2 DEF allVars, termVars, tmpVars, histVars, vars, plan
  <2>2. KeepsRecords
    BY <2>1, UnchangedKeeps DEF TermInv
  <2>3. SecondsCounted' /\ TmpNamed' /\ SegsNamed' /\ AskedInv'
    BY <2>1, <2>2, BaseKept, TmpOpenKept DEF KeepsRecords
  <2>4. SameRecords
    BY <2>1, <2>2, RecordsKept
  <2>5. SegShown'
    BY <2>1 DEF EveryInv, SegShown, InListed, Last, Shows, Due
  <2>6. UniqueInv'
    BY <1>1, <2>1, <2>4, UniqueStays DEF FdOpen
  <2>7. StillAhead'
    BY <1>1, <2>1, <2>4, SameReads, StillAheadStays
  <2> QED BY <2>3, <2>5, <2>6, <2>7 DEF EveryInv
<1>3. CASE Recorder \/ Count \/ FillArray \/ Prompt \/ Back
  BY <1>1, <1>3, EveryInvRecorder, EveryInvCount, EveryInvFillArray, EveryInvPrompt
<1>4. CASE Output \/ Access
  BY <1>1, <1>4, EveryInvOutput, EveryInvAccess
<1>5. CASE OpenIndex \/ OpenVideo \/ ReadFirst \/ ReadLast
  BY <1>1, <1>5, EveryInvOpenIndex, EveryInvOpen, EveryInvReadLast
<1>6. CASE PrintTmp \/ PrintTmpSecond
  BY <1>1, <1>6, EveryInvPrintTmp, EveryInvPrintTmpSecond
<1> QED BY <1>2, <1>3, <1>4, <1>5, <1>6 DEF TerminalNext, SearchFiles

LEMMA EveryInvInit == TerminalInit => EveryInv
<1> SUFFICES ASSUME TerminalInit PROVE EveryInv
  OBVIOUS
<1>1. /\ index = [p \in {} |-> << >>] /\ timeseg = << >> /\ listing = << >>
      /\ pc = "date" /\ step = "done" /\ shown = << >>
  BY DEF TerminalInit, Log!Init
<1>2. Len(timeseg) = 0 /\ Len(listing) = 0 /\ Len(shown) = 0
  BY <1>1, EmptySeq
<1>3. SecondsCounted
  <2>1. AllRecords = {}
    BY <1>1 DEF AllRecords
  <2>2. \A t : {r \in AllRecords : r.time = t} = {}
    BY <2>1
  <2>3. Cardinality({}) = 0
    BY FS_EmptySet
  <2>4. 0 <= I_PER_SECOND
    BY BoundsAreNat
  <2> QED BY <2>2, <2>3, <2>4 DEF SecondsCounted
<1>4. TmpNamed
  BY <1>1 DEF TmpNamed, Log!HasRecords
<1> QED BY <1>1, <1>2, <1>3, <1>4
        DEF EveryInv, SegsNamed, AskedInv, SegShown, StillAhead, UniqueInv, FdOpen

\* What is shown and shown only once has one place.
LEMMA OnePlace ==
    ASSUME TermInv, UniqueInv, from <= to, NEW r \in asked
    PROVE  /\ Shows(r) => Cardinality(Places(r)) = 1
           /\ ~Shows(r) => Places(r) = {}
<1>1. ~Shows(r) => Places(r) = {}
  BY DEF Shows, Places
<1>2. ASSUME Shows(r) PROVE Cardinality(Places(r)) = 1
  <2>1. PICK k \in 1 .. Len(shown) : shown[k] = r
    BY <1>2 DEF Shows
  <2>2. r # Log!Zero
    BY TypeOKGives, BoundsAreNat DEF Log!Record, Log!Zero
  <2>3. ASSUME NEW m \in 1 .. Len(shown), shown[m] = r PROVE m = k
    <3>1. m = k \/ m < k \/ k < m
      BY TermTypes
    <3> QED BY <2>1, <2>2, <2>3, <3>1 DEF UniqueInv
  <2>4. Places(r) = {k}
    BY <2>1, <2>3 DEF Places
  <2> QED BY <2>4, FS_Singleton
<1> QED BY <1>1, <1>2

\* Every I frame of the interval that was on the disk when the search began is printed,
\* and once, by print_iframe_info and print_tmp_video_info together, whatever is recorded
\* meanwhile; but for those of a segment that is sealed in the course of the search, too
\* late to be listed.  A second has no more than the two I frames that their search for
\* the end of a range reckons with.
THEOREM EveryFrameAlwaysShown ==
    ASSUME I_PER_SECOND <= 2
    PROVE  TerminalSpec => []ShowsEveryFrame
<1>1. TermInv /\ EveryInv => ShowsEveryFrame
  <2> SUFFICES ASSUME TermInv, EveryInv, Searched, NEW r \in asked, r.time \in from .. to
               PROVE  \/ Cardinality(Places(r)) = 1
                      \/ r \in raced /\ Places(r) = {}
    BY DEF ShowsEveryFrame
  <2>1. {from, to} \subseteq Nat
    BY TermTypes
  <2>2. pc = "free" /\ step = "done" /\ from <= to /\ from <= r.time /\ r.time <= to
    BY <2>1 DEF Searched
  <2>3. r \in Due => Shows(r)
    BY <2>2 DEF EveryInv, SegShown, StillAhead
  <2>4. /\ Shows(r) => Cardinality(Places(r)) = 1
        /\ ~Shows(r) => Places(r) = {}
    BY <2>2, OnePlace DEF EveryInv
  <2> QED BY <2>3, <2>4 DEF Due
<1>2. TermInv /\ ShownInv /\ [TerminalNext]_allVars => ShownInv'
  BY ShownInvPreserved
<1>3. TermInv /\ ShownInv /\ EveryInv /\ [TerminalNext]_allVars => EveryInv'
  BY EveryInvPreserved
<1> QED BY TermInvAlways, ShownInvInit, EveryInvInit, <1>1, <1>2, <1>3, PTL DEF TerminalSpec
=============================================================================
