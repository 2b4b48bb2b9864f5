---------------------------- MODULE ShmRingProofs ----------------------------
(***************************************************************************)
(* Proofs about the two rings of ShmRing, for every size of the rings, of  *)
(* the flag and the header, every set of frame types and lengths and any   *)
(* number of frames.                                                       *)
(*                                                                         *)
(* First the index ring: get_one_index hands out every record once and in  *)
(* order.  Then the frame ring: get_one_frame always finds the frame of    *)
(* its record, whole and as it was written, copies every byte of it, and   *)
(* storage_one_frame releases it and nothing else.                         *)
(***************************************************************************)
EXTENDS ShmRing, Integers, TLAPS

-----------------------------------------------------------------------------
(* The packet stays a packet. *)

LEMMA BlankIsPacket == IsPacket(Blank)
  BY DEF IsPacket, Blank

LEMMA CopyIsPacket ==
    ASSUME NEW p, IsPacket(p), NEW at, NEW a, NEW k
    PROVE  IsPacket(Copy(p, at, mem, a, k))
  BY DEF IsPacket, Copy

LEMMA CopiesArePackets ==
    ASSUME IsPacket(packet), cshmindex \in IndexRecord
    PROVE  /\ IsPacket(ContiguousCopy(packet, mem, cshmindex))
           /\ IsPacket(WrappedCopy(packet, mem, cshmindex))
  <1> DEFINE c == cshmindex
  <1>1. IsPacket(ContiguousCopy(packet, mem, c))
      BY CopyIsPacket DEF ContiguousCopy
  <1>2. /\ IsPacket(SplitFlagCopy(packet, mem, c))
        /\ IsPacket(SplitIFrameCopy(packet, mem, c))
        /\ IsPacket(SplitBodyCopy(packet, mem, c))
        /\ IsPacket(SplitHeaderCopy(packet, mem, c))
      BY CopyIsPacket DEF SplitFlagCopy, SplitIFrameCopy, SplitBodyCopy, SplitHeaderCopy
  <1>3. /\ ToEndLen(c) \in Int /\ FRAME_START_FLAG \in Nat /\ BodyStart \in Nat
      BY FrameCopyAssumption DEF ToEndLen, IndexRecord, BodyStart
  <1>4. \/ ToEndLen(c) < FRAME_START_FLAG
        \/ ToEndLen(c) >= BodyStart
        \/ ToEndLen(c) \in FRAME_START_FLAG .. BodyStart - 1
      BY <1>3
  <1>5. IsPacket(WrappedCopy(packet, mem, c))
      BY <1>2, <1>3, <1>4 DEF WrappedCopy
  <1> QED BY <1>1, <1>5

-----------------------------------------------------------------------------
(* The index ring. *)

\* The slot a pending record goes to is free: with it the index ring holds at
\* most SHM_INDEX_NUM - 1 records.
PendingSlotFree ==
    /\ Unread < SHM_INDEX_NUM
    /\ "record" \in enc.todo => /\ enc.rec.n = made
                                /\ Unread + 1 < SHM_INDEX_NUM

\* RecordsInOrder is not inductive: publishing a record keeps it only when the
\* slot is free.
IndexInv == TypeOK /\ RecordsInOrder /\ PendingSlotFree

-----------------------------------------------------------------------------
\* One step round the index ring.
LEMMA NextSlot ==
    ASSUME NEW i \in Slots
    PROVE  (i + 1) % SHM_INDEX_NUM = IF i + 1 = SHM_INDEX_NUM THEN 0 ELSE i + 1
  BY ShmRingAssumption, SMT DEF Slots

LEMMA InitInv == Init => IndexInv
  <1> SUFFICES ASSUME Init PROVE IndexInv
      OBVIOUS
  <1>1. TypeOK
      BY ShmRingAssumption, FrameCopyAssumption, BlankIsPacket
      DEF Init, TypeOK, Slots, IndexRecord, NoRecord
  <1>2. SHM_INDEX_NUM \in Nat /\ SHM_INDEX_NUM >= 3
      BY ShmRingAssumption
  <1>3. /\ read_pos = 0 /\ write_pos = 0 /\ made = 0 /\ taken = 0 /\ pc = "index"
        /\ enc.todo = {}
      BY DEF Init
  <1>4. Unread = 0 /\ Published = 0
    <2>1. Unread = 0 - 0
        BY <1>3 DEF Unread
    <2>2. "record" \notin enc.todo
        BY <1>3
    <2>3. Published = 0 - 0
        BY <1>3, <2>2 DEF Published
    <2> QED BY <2>1, <2>3
  <1>5. UnreadSlots = {}
      BY <1>2, <1>3, <1>4 DEF UnreadSlots, Ahead, Slots
  <1>6. RecordsInOrder /\ PendingSlotFree
      BY <1>2, <1>3, <1>4, <1>5 DEF RecordsInOrder, PendingSlotFree
  <1> QED BY <1>1, <1>6 DEF IndexInv

-----------------------------------------------------------------------------
(* The encoder's steps. *)

\* What the arithmetic of the positions needs of the state.
Positions ==
    /\ SHM_INDEX_NUM \in Nat /\ SHM_INDEX_NUM >= 3
    /\ read_pos \in Nat /\ read_pos < SHM_INDEX_NUM
    /\ write_pos \in Nat /\ write_pos < SHM_INDEX_NUM
    /\ made \in Nat /\ taken \in Nat

LEMMA InvPositions == IndexInv => Positions
  BY ShmRingAssumption DEF IndexInv, TypeOK, Positions, Slots

LEMMA EncoderBeginInv ==
    ASSUME IndexInv, NEW type \in Types, NEW lenth \in Lens,
           EncoderBegin(type, lenth)
    PROVE  IndexInv'
  <1>1. TypeOK'
      BY ShmRingAssumption
      DEF IndexRecord, IndexInv, TypeOK, EncoderBegin, readerVars
  <1>2. Unread + 1 < SHM_INDEX_NUM
    <2>1. (write_pos + 1) % SHM_INDEX_NUM # read_pos /\ write_pos \in Slots
        BY DEF EncoderBegin, IndexInv, TypeOK
    <2>2. (IF write_pos + 1 = SHM_INDEX_NUM THEN 0 ELSE write_pos + 1) # read_pos
        BY <2>1, NextSlot
    <2> QED BY <2>2, InvPositions DEF Unread, Positions
  <1>3. PendingSlotFree'
      BY <1>2 DEF PendingSlotFree, Unread, EncoderBegin, IndexInv
  <1>4. RecordsInOrder'
      BY DEF RecordsInOrder, Published, Unread, UnreadSlots, Ahead,
             IndexInv, TypeOK, EncoderBegin, readerVars
  <1> QED BY <1>1, <1>3, <1>4 DEF IndexInv

LEMMA EncoderDataInv ==
    ASSUME IndexInv, EncoderData
    PROVE  IndexInv'
  <1> USE DEF IndexInv, TypeOK, EncoderData, readerVars
  <1>1. TypeOK'
    <2>1. write_offset' \in Nat
        BY FrameCopyAssumption DEF After, Capacity, IndexRecord
    <2> QED BY <2>1
  <1>2. PendingSlotFree'
      BY DEF PendingSlotFree, Unread
  <1>3. RecordsInOrder'
      BY DEF RecordsInOrder, Published, Unread, UnreadSlots, Ahead
  <1> QED BY <1>1, <1>2, <1>3

LEMMA EncoderRecordInv ==
    ASSUME IndexInv, EncoderRecord
    PROVE  IndexInv'
  <1>1. write_pos' = IF write_pos + 1 = SHM_INDEX_NUM THEN 0 ELSE write_pos + 1
      BY NextSlot DEF EncoderRecord, IndexInv, TypeOK
  <1>2. Unread + 1 < SHM_INDEX_NUM /\ enc.rec.n = made /\ read_pos' = read_pos
      BY DEF IndexInv, PendingSlotFree, EncoderRecord
  <1>3. TypeOK'
    <2>1. write_pos' \in Slots
        BY <1>1, InvPositions DEF Slots, Positions
    <2>2. index' \in [Slots -> IndexRecord]
        BY DEF EncoderRecord, IndexInv, TypeOK
    <2>3. enc' \in [todo : SUBSET {"data", "record"}, rec : IndexRecord]
        BY DEF EncoderRecord, IndexInv, TypeOK
    <2> QED BY <2>1, <2>2, <2>3 DEF EncoderRecord, IndexInv, TypeOK, readerVars
  <1>4. Unread' = Unread + 1
      BY <1>1, <1>2, InvPositions DEF Unread, Positions
  <1>5. PendingSlotFree'
      BY <1>2, <1>4 DEF PendingSlotFree, EncoderRecord, IndexInv, TypeOK
  <1>6. Ahead(write_pos) = Unread
      BY <1>2, InvPositions DEF Ahead, Unread, Positions
  <1>7. Published = made - 1 /\ Published' = made /\ taken' = taken
      BY InvPositions
      DEF Published, EncoderRecord, IndexInv, TypeOK, readerVars, Positions
  <1>8. made = taken + 1 + Unread
      BY <1>7, InvPositions DEF IndexInv, RecordsInOrder, Unread, Positions
  <1>9. RecordsInOrder'
    <2>1. (pc # "index" => cshmindex.n = taken)'
        BY DEF IndexInv, RecordsInOrder, EncoderRecord, readerVars
    <2>2. (Published = taken + Unread)'
        BY <1>4, <1>7, <1>8, InvPositions DEF Unread, Positions
    <2>3. ASSUME NEW i \in Slots, Ahead(i) < Unread'
          PROVE  index'[i].n = taken + 1 + Ahead(i)
      <3>1. CASE i = write_pos
        <4>1. index'[i] = enc.rec
            BY <3>1 DEF EncoderRecord, IndexInv, TypeOK
        <4> QED BY <4>1, <3>1, <1>2, <1>6, <1>8
      <3>2. CASE i # write_pos
        <4>1. Ahead(i) < Unread
            BY <3>2, <2>3, <1>4, InvPositions DEF Ahead, Unread, Slots, Positions
        <4>2. index'[i] = index[i]
            BY <3>2 DEF EncoderRecord, IndexInv, TypeOK
        <4> QED BY <4>1, <4>2 DEF IndexInv, RecordsInOrder, UnreadSlots
      <3> QED BY <3>1, <3>2
    <2>4. (\A i \in UnreadSlots : index[i].n = taken + 1 + Ahead(i))'
        BY <2>3, <1>2, <1>7 DEF UnreadSlots, Ahead
    <2> QED BY <2>1, <2>2, <2>4 DEF RecordsInOrder
  <1> QED BY <1>3, <1>5, <1>9 DEF IndexInv

-----------------------------------------------------------------------------
(* The video thread's steps. *)

LEMMA GetOneIndexInv ==
    ASSUME IndexInv, GetOneIndex
    PROVE  IndexInv'
  <1>1. read_pos' = IF read_pos + 1 = SHM_INDEX_NUM THEN 0 ELSE read_pos + 1
      BY NextSlot DEF GetOneIndex, IndexInv, TypeOK
  <1>2. TypeOK'
      BY <1>1, InvPositions, BlankIsPacket
      DEF Slots, Positions, GetOneIndex, IndexInv, TypeOK, encoderVars
  <1>3. write_pos' = write_pos /\ taken' = taken + 1 /\ index' = index
        /\ cshmindex' = index[read_pos] /\ Published' = Published
      BY DEF GetOneIndex, encoderVars, Published
  <1>4. Unread > 1
    <2>1. read_pos # write_pos /\ read_pos \in Slots
          /\ (read_pos + 1) % SHM_INDEX_NUM # write_pos
        BY DEF GetOneIndex, RecordReady, IndexInv, TypeOK
    <2>2. (IF read_pos + 1 = SHM_INDEX_NUM THEN 0 ELSE read_pos + 1) # write_pos
        BY <2>1, NextSlot
    <2> QED BY <2>1, <2>2, InvPositions DEF Unread, Positions
  <1>5. Unread' = Unread - 1
      BY <1>1, <1>3, <1>4, InvPositions DEF Unread, Positions
  <1>6. PendingSlotFree'
    <2>1. enc' = enc /\ made' = made /\ PendingSlotFree
        BY DEF GetOneIndex, encoderVars, IndexInv
    <2>2. /\ Unread < SHM_INDEX_NUM => Unread' < SHM_INDEX_NUM
          /\ Unread + 1 < SHM_INDEX_NUM => Unread' + 1 < SHM_INDEX_NUM
        BY <1>5, InvPositions DEF Unread, Positions
    <2> QED BY <2>1, <2>2 DEF PendingSlotFree
  <1>7. RecordsInOrder'
    <2>1. cshmindex'.n = taken'
      <3>1. read_pos \in UnreadSlots /\ Ahead(read_pos) = 0
          BY <1>4, InvPositions DEF UnreadSlots, Unread, Ahead, Slots, Positions
      <3>2. index[read_pos].n = taken + 1 + 0
          BY <3>1 DEF IndexInv, RecordsInOrder
      <3> QED BY <3>2, <1>3, InvPositions DEF Positions
    <2>2. (Published = taken + Unread)'
      <3>1. Published = taken + Unread
          BY DEF IndexInv, RecordsInOrder
      <3>2. taken \in Int /\ Unread \in Int
          BY InvPositions DEF Unread, Positions
      <3>3. taken + Unread = taken' + Unread'
          BY <3>2, <1>3, <1>5
      <3> QED BY <3>1, <3>3, <1>3
    <2>3. ASSUME NEW i \in Slots, Ahead(i)' < Unread'
          PROVE  index[i].n = taken + 1 + 1 + Ahead(i)'
      <3>1. i # read_pos
        <4>1. Unread < SHM_INDEX_NUM
            BY DEF IndexInv, PendingSlotFree
        <4>2. Ahead(i)' < Unread - 1
            BY <2>3, <1>5
        <4>3. i = read_pos => Ahead(i)' = SHM_INDEX_NUM - 1
            BY <1>1, InvPositions DEF Ahead, Positions
        <4>4. Unread \in Int /\ SHM_INDEX_NUM \in Int
            BY InvPositions DEF Unread, Positions
        <4> QED BY <4>1, <4>2, <4>3, <4>4
      <3>2. Ahead(i) = Ahead(i)' + 1 /\ Ahead(i)' \in Nat
          BY <3>1, <1>1, InvPositions DEF Ahead, Slots, Positions
      <3>3. Ahead(i) < Unread
          BY <3>2, <2>3, <1>5, <1>4, InvPositions DEF Unread, Positions
      <3>4. index[i].n = taken + 1 + Ahead(i)
          BY <3>3 DEF IndexInv, RecordsInOrder, UnreadSlots
      <3> QED BY <3>2, <3>4, InvPositions DEF Positions
    <2> QED BY <2>1, <2>2, <2>3, <1>3 DEF RecordsInOrder, UnreadSlots
  <1> QED BY <1>2, <1>6, <1>7 DEF IndexInv

LEMMA GetOneFrameInv ==
    ASSUME IndexInv, GetOneFrame
    PROVE  IndexInv'
  <1> USE DEF IndexInv, TypeOK, GetOneFrame, encoderVars
  <1>1. TypeOK'
    <2>1. WrappedEnd(cshmindex) \in Nat \/ ~Wrapped
        BY FrameCopyAssumption
        DEF Wrapped, RunsPastEnd, WrappedEnd, FromStartLen, ToEndLen, IndexRecord
    <2>2. cshmindex.offset + cshmindex.lenth \in Nat
        BY DEF IndexRecord
    <2>3. shm_read_offset' \in Nat
        BY <2>1, <2>2
    <2>4. IsPacket(packet')
        BY CopiesArePackets
    <2> QED BY <2>3, <2>4
  <1>2. PendingSlotFree'
      BY DEF PendingSlotFree, Unread
  <1>3. RecordsInOrder'
      BY DEF RecordsInOrder, Published, Unread, UnreadSlots, Ahead
  <1> QED BY <1>1, <1>2, <1>3

LEMMA StoreInv ==
    ASSUME IndexInv, StoreOneFrame \/ StoreOneFrameFails
    PROVE  IndexInv'
  BY DEF IndexInv, TypeOK, StoreOneFrame, StoreOneFrameFails, encoderVars,
         PendingSlotFree, RecordsInOrder, Published, Unread, UnreadSlots, Ahead

LEMMA StutterInv ==
    ASSUME IndexInv, UNCHANGED vars
    PROVE  IndexInv'
  BY DEF IndexInv, TypeOK, vars, readerVars, encoderVars,
         PendingSlotFree, RecordsInOrder, Published, Unread, UnreadSlots, Ahead

-----------------------------------------------------------------------------
LEMMA IndexInvariant == Spec => []IndexInv
  <1>1. Init => IndexInv
      BY InitInv
  <1>2. IndexInv /\ [Next]_vars => IndexInv'
    <2> SUFFICES ASSUME IndexInv, [Next]_vars PROVE IndexInv'
        OBVIOUS
    <2>1. CASE Encoder
        BY <2>1, EncoderBeginInv, EncoderDataInv, EncoderRecordInv DEF Encoder
    <2>2. CASE VideoThread
        BY <2>2, GetOneIndexInv, GetOneFrameInv, StoreInv DEF VideoThread
    <2>3. CASE UNCHANGED vars
        BY <2>3, StutterInv
    <2> QED BY <2>1, <2>2, <2>3 DEF Next
  <1> QED BY <1>1, <1>2, PTL DEF Spec

\* The two rings' positions, records and offsets keep their types: read_pos and
\* write_pos never leave the index ring (p4storagefun.c:139-141).
THEOREM RingStaysTyped == Spec => []TypeOK
  <1>1. IndexInv => TypeOK
      BY DEF IndexInv
  <1> QED BY <1>1, IndexInvariant, PTL

\* The index ring hands every frame to the video thread once and in order, for
\* any number of slots: get_one_index's two tests and the wrap of read_pos are
\* enough against an encoder that keeps one slot empty.
THEOREM RecordsAlwaysInOrder == Spec => []RecordsInOrder
  <1>1. IndexInv => RecordsInOrder
      BY DEF IndexInv
  <1> QED BY <1>1, IndexInvariant, PTL

-----------------------------------------------------------------------------
(* The frame ring. *)

\* How far b is ahead of a, round the ring.  a may be the ring's end.
Dist(a, b) == IF b >= a THEN b - a ELSE b + Capacity - a

\* Where a frame begins and ends, counted from read_offset.
Start(rec) == Dist(read_offset, rec.offset)
Stop(rec)  == Start(rec) + rec.lenth

\* The address get_one_frame notes as the frame's end; it may be the ring's end.
EndOf(rec) == IF rec.offset + rec.lenth <= SHM_DAT_TOTAL_SIZE
              THEN rec.offset + rec.lenth ELSE rec.offset + rec.lenth - Capacity

\* The frames in the ring: those unread, the one the video thread works on, and
\* the encoder's.
Live ==
    {index[i] : i \in UnreadSlots}
      \cup (IF pc = "index" THEN {} ELSE {cshmindex})
      \cup (IF enc.todo = {} THEN {} ELSE {enc.rec})

\* All but the frame whose bytes are still to be written.
Whole(rec) == ~("data" \in enc.todo /\ rec = enc.rec)

Intact(rec) == \A k \in 0 .. rec.lenth - 1 : mem[After(rec.offset, k)] = <<rec.n, k>>

\* The offsets stay in the ring, read_offset at its very end perhaps.
Offsets == /\ read_offset \in SHM_HEAD_SIZE .. SHM_DAT_TOTAL_SIZE
           /\ write_offset \in Ring
           /\ DOMAIN mem = Ring

FramesTyped == \A r \in Live : /\ r \in IndexRecord /\ r.offset \in Ring
                               /\ r.lenth \in Lens /\ r.n <= made

\* The frames lie one behind the other, in the order of their numbers ...
FramesApart == \A r, s \in Live : r.n < s.n => Stop(r) <= Start(s)

\* ... between read_offset and write_offset, with their own bytes.
FramesWhole == \A r \in Live : Whole(r) => Stop(r) <= Used /\ Intact(r)

\* The encoder's frame goes to write_offset, where there is space.
FramePending ==
    /\ enc.todo # {} => enc.rec.n = made
    /\ "data" \in enc.todo => /\ enc.rec.offset = write_offset
                              /\ Used + enc.rec.lenth < Capacity

\* The newest record is never taken, and what is noted for a frame is its end.
FrameInHand ==
    /\ pc # "index" => Unread >= 1
    /\ pc = "store" /\ cshmindex.type \in {"I", "P"} =>
          shm_read_offset = EndOf(cshmindex)

FrameInv == /\ Offsets /\ FramesTyped /\ FramesApart /\ FramesWhole
            /\ FramePending /\ FrameInHand

RingInv == IndexInv /\ FrameInv /\ PacketFaithfulUnlessFlagSplit
-----------------------------------------------------------------------------
(* Distances round the ring. *)

LEMMA RingSizes ==
    /\ SHM_HEAD_SIZE \in Nat /\ SHM_DAT_TOTAL_SIZE \in Nat
    /\ Capacity = SHM_DAT_TOTAL_SIZE - SHM_HEAD_SIZE /\ Capacity \in Nat /\ Capacity > 0
    /\ FRAME_START_FLAG \in Nat /\ HEADER_SIZE \in Nat /\ HEADER_SIZE > 0
    /\ \A l \in Lens : l \in Nat /\ l < Capacity /\ l > FRAME_START_FLAG + HEADER_SIZE
  <1>1. \A l \in Lens : l \in Nat /\ l + l < Capacity
                        /\ l > FRAME_START_FLAG + HEADER_SIZE
      BY ShmRingAssumption DEF Capacity, BodyStart
  <1> QED BY <1>1, FrameCopyAssumption DEF Capacity

LEMMA DistRange ==
    ASSUME NEW a \in SHM_HEAD_SIZE .. SHM_DAT_TOTAL_SIZE, NEW b \in Ring
    PROVE  Dist(a, b) \in 0 .. Capacity - 1
  BY RingSizes DEF Dist, Ring

\* The address l bytes behind o is l bytes further, as long as that is not once
\* round the ring.
LEMMA DistAfter ==
    ASSUME NEW a \in SHM_HEAD_SIZE .. SHM_DAT_TOTAL_SIZE, NEW o \in Ring,
           NEW l \in Nat, Dist(a, o) + l < Capacity
    PROVE  After(o, l) \in Ring /\ Dist(a, After(o, l)) = Dist(a, o) + l
  BY RingSizes DEF Dist, Ring, After

\* What lies behind a frame comes closer by the frame's end when that is released.
LEMMA DistReleased ==
    ASSUME NEW a \in SHM_HEAD_SIZE .. SHM_DAT_TOTAL_SIZE, NEW rec,
           rec.offset \in Ring, rec.lenth \in Nat, NEW b \in Ring,
           rec.lenth > 0, Dist(a, rec.offset) + rec.lenth <= Dist(a, b)
    PROVE  /\ EndOf(rec) \in SHM_HEAD_SIZE .. SHM_DAT_TOTAL_SIZE
           /\ Dist(EndOf(rec), b) = Dist(a, b) - (Dist(a, rec.offset) + rec.lenth)
  BY RingSizes DEF Dist, Ring, EndOf

LEMMA UsedIsDist == Used = Dist(read_offset, write_offset)
  BY DEF Used, Dist

-----------------------------------------------------------------------------
(* Copies. *)

\* Bytes b .. b + k - 1 of frame n lie at address a of the segment, and from byte
\* at of a packet on.
Lies(n, b, k, a) ==
    \A j \in 0 .. k - 1 : a + j \in DOMAIN mem /\ mem[a + j] = <<n, b + j>>
Has(p, at, n, b, k) == \A j \in 0 .. k - 1 : p[at + j] = <<n, b + j>>

\* A copy puts the bytes in their place and leaves what is before it.
LEMMA CopyPuts ==
    ASSUME NEW p, IsPacket(p), NEW at \in Nat, NEW a \in Nat, NEW k \in Nat,
           NEW n, NEW b \in Nat, at + k <= PACKET_SIZE, Lies(n, b, k, a)
    PROVE  IsPacket(Copy(p, at, mem, a, k)) /\ Has(Copy(p, at, mem, a, k), at, n, b, k)
  <1> DEFINE c == Copy(p, at, mem, a, k)
  <1>1. IsPacket(c)
      BY DEF IsPacket, Copy
  <1>2. ASSUME NEW j \in 0 .. k - 1 PROVE c[at + j] = <<n, b + j>>
    <2>1. at + j \in DOMAIN p /\ at + j \in at .. at + k - 1 /\ (at + j) - at = j
        BY FrameCopyAssumption DEF IsPacket
    <2>2. c[at + j] = IF a + j \in DOMAIN mem THEN mem[a + j] ELSE Outside
        BY <2>1 DEF Copy
    <2> QED BY <2>2 DEF Lies
  <1> QED BY <1>1, <1>2 DEF Has

LEMMA CopyKeeps ==
    ASSUME NEW p, IsPacket(p), NEW at \in Nat, NEW a \in Nat, NEW k \in Nat,
           NEW n, NEW o \in Nat, NEW b \in Nat, NEW m \in Nat,
           o + m <= at, o + m <= PACKET_SIZE, Has(p, o, n, b, m)
    PROVE  IsPacket(Copy(p, at, mem, a, k)) /\ Has(Copy(p, at, mem, a, k), o, n, b, m)
  <1> DEFINE c == Copy(p, at, mem, a, k)
  <1>1. IsPacket(c)
      BY DEF IsPacket, Copy
  <1>2. ASSUME NEW j \in 0 .. m - 1 PROVE c[o + j] = p[o + j]
    <2>1. o + j \in DOMAIN p /\ o + j \notin at .. at + k - 1
        BY FrameCopyAssumption DEF IsPacket
    <2> QED BY <2>1 DEF Copy
  <1> QED BY <1>1, <1>2 DEF Has

LEMMA HasJoin ==
    ASSUME NEW p, NEW at \in Nat, NEW n, NEW b \in Nat, NEW k \in Nat, NEW m \in Nat,
           NEW l \in Nat, l = k + m, NEW bt \in Nat, bt = at + k, NEW c \in Nat, c = b + k,
           Has(p, at, n, b, k), Has(p, bt, n, c, m)
    PROVE  Has(p, at, n, b, l)
  <1> SUFFICES ASSUME NEW j \in 0 .. l - 1 PROVE p[at + j] = <<n, b + j>>
      BY DEF Has
  <1>1. CASE j < k
      BY <1>1 DEF Has
  <1>2. CASE j >= k
    <2>1. j - k \in 0 .. m - 1 /\ bt + (j - k) = at + j /\ c + (j - k) = b + j
        BY <1>2
    <2> QED BY <2>1 DEF Has
  <1> QED BY <1>1, <1>2

\* Where the bytes of an intact frame lie: before the end of the ring, and behind
\* its start.
LEMMA LiesAhead ==
    ASSUME DOMAIN mem = Ring,
           NEW rec, rec.offset \in Ring, rec.lenth \in Nat, Intact(rec),
           NEW b \in Nat, NEW k \in Nat, b + k <= rec.lenth, b + k <= ToEndLen(rec)
    PROVE  Lies(rec.n, b, k, rec.offset + b)
  <1> SUFFICES ASSUME NEW j \in 0 .. k - 1
               PROVE  /\ (rec.offset + b) + j \in DOMAIN mem
                      /\ mem[(rec.offset + b) + j] = <<rec.n, b + j>>
      BY DEF Lies
  <1>1. /\ After(rec.offset, b + j) = (rec.offset + b) + j
        /\ (rec.offset + b) + j \in Ring
      BY RingSizes DEF After, Ring, ToEndLen
  <1>2. b + j \in 0 .. rec.lenth - 1
      OBVIOUS
  <1> QED BY <1>1, <1>2 DEF Intact

LEMMA LiesBehind ==
    ASSUME DOMAIN mem = Ring,
           NEW rec, rec.offset \in Ring, rec.lenth \in Nat, rec.lenth < Capacity,
           Intact(rec), NEW b \in Nat, NEW k \in Nat, b + k <= rec.lenth,
           NEW a \in Nat, SHM_HEAD_SIZE + b = a + ToEndLen(rec), a >= SHM_HEAD_SIZE
    PROVE  Lies(rec.n, b, k, a)
  <1> SUFFICES ASSUME NEW j \in 0 .. k - 1
               PROVE  a + j \in DOMAIN mem /\ mem[a + j] = <<rec.n, b + j>>
      BY DEF Lies
  <1>1. /\ rec.offset \in Nat /\ rec.offset < SHM_DAT_TOTAL_SIZE
        /\ j \in Nat /\ j < k
      BY RingSizes DEF Ring
  <1>2. /\ rec.offset + (b + j) >= SHM_DAT_TOTAL_SIZE
        /\ rec.offset + (b + j) - Capacity = a + j
        /\ a + j >= SHM_HEAD_SIZE /\ a + j < rec.offset
      BY <1>1, RingSizes DEF ToEndLen
  <1>3. After(rec.offset, b + j) = a + j /\ a + j \in Ring
      BY <1>1, <1>2, RingSizes DEF After, Ring
  <1>4. b + j \in 0 .. rec.lenth - 1
      BY <1>1
  <1> QED BY <1>3, <1>4 DEF Intact

\* A packet with the frame in it, header and body in the places get_one_frame has
\* for them.
HasFrame(p, rec) ==
    IF rec.type = "P"
    THEN /\ Has(p, 0, rec.n, FRAME_START_FLAG, HEADER_SIZE)
         /\ Has(p, PBodyPlace, rec.n, BodyStart, rec.lenth - BodyStart)
    ELSE Has(p, 0, rec.n, FRAME_START_FLAG, rec.lenth - FRAME_START_FLAG)

\* Each branch of get_one_frame leaves such a packet, but the one for a ring whose
\* end splits the start flag.
LEMMA CopiesFrame ==
    ASSUME DOMAIN mem = Ring, IsPacket(packet),
           NEW rec, rec.offset \in Ring, rec.lenth \in Lens, rec.type \in {"I", "P"},
           Intact(rec)
    PROVE  /\ ~RunsPastEnd(rec) => HasFrame(ContiguousCopy(packet, mem, rec), rec)
           /\ RunsPastEnd(rec) /\ ToEndLen(rec) >= FRAME_START_FLAG =>
                HasFrame(WrappedCopy(packet, mem, rec), rec)
  <1> DEFINE L == rec.lenth
             E == ToEndLen(rec)
             F == FRAME_START_FLAG
             H == HEADER_SIZE
             B == BodyStart
             W == PBodyPlace
             header == Copy(packet, 0, mem, rec.offset + F, H)
  <1>1. /\ L \in Nat /\ L < Capacity /\ L > B /\ F \in Nat /\ B \in Nat /\ B > F
        /\ B = F + H /\ H \in Nat
        /\ E \in Nat /\ E > 0 /\ rec.offset \in Nat
        /\ E = SHM_DAT_TOTAL_SIZE - rec.offset
        /\ SHM_HEAD_SIZE \in Nat /\ SHM_DAT_TOTAL_SIZE \in Nat
      BY RingSizes DEF BodyStart, ToEndLen, Ring
  <1>2. /\ W \in Nat /\ W >= B /\ W + (L - B) <= PACKET_SIZE
        /\ L - F <= PACKET_SIZE /\ H <= PACKET_SIZE /\ PACKET_SIZE \in Nat
        /\ 0 \in Nat /\ 0 + H <= W /\ 0 + H <= PACKET_SIZE
        /\ L - B \in Nat /\ L - F \in Nat /\ rec.offset + B \in Nat /\ rec.offset + F \in Nat
    <2>1. RTC_SIZE \in Nat /\ PACKET_SIZE \in Nat /\ W = B + RTC_SIZE
        BY FrameCopyAssumption DEF PBodyPlace
    <2>2. L + RTC_SIZE <= PACKET_SIZE
        BY ShmRingAssumption
    <2> QED BY <1>1, <2>1, <2>2
  <1>3. B <= E => IsPacket(header) /\ Has(header, 0, rec.n, F, H)
    <2> SUFFICES ASSUME B <= E PROVE IsPacket(header) /\ Has(header, 0, rec.n, F, H)
        OBVIOUS
    <2>1. F + H <= L /\ F + H <= E /\ 0 + H <= PACKET_SIZE /\ 0 \in Nat
          /\ rec.offset + F \in Nat
        BY <1>1, <1>2
    <2>2. Lies(rec.n, F, H, rec.offset + F)
        BY <1>1, <2>1, LiesAhead
    <2> QED BY <1>1, <2>1, <2>2, CopyPuts
  <1>4. ASSUME ~RunsPastEnd(rec)
        PROVE  HasFrame(ContiguousCopy(packet, mem, rec), rec)
    <2>1. L <= E
        BY <1>1, <1>4 DEF RunsPastEnd
    <2>2. CASE rec.type = "P"
      <3> DEFINE c == Copy(header, W, mem, rec.offset + B, L - B)
      <3>1. IsPacket(header) /\ Has(header, 0, rec.n, F, H)
          BY <1>1, <1>3, <2>1
      <3> HIDE DEF header
      <3>2. Has(c, 0, rec.n, F, H)
          BY <1>1, <1>2, <3>1, CopyKeeps
      <3>3. Has(c, W, rec.n, B, L - B)
        <4>1. Lies(rec.n, B, L - B, rec.offset + B)
            BY <1>1, <2>1, LiesAhead
        <4> QED BY <4>1, <1>1, <1>2, <3>1, CopyPuts
      <3>4. ContiguousCopy(packet, mem, rec) = c
          BY <2>2 DEF ContiguousCopy, header
      <3> QED BY <2>2, <3>2, <3>3, <3>4 DEF HasFrame
    <2>3. CASE rec.type = "I"
      <3> DEFINE c == Copy(packet, 0, mem, rec.offset + F, L - F)
      <3>1. Has(c, 0, rec.n, F, L - F)
        <4>1. Lies(rec.n, F, L - F, rec.offset + F)
            BY <1>1, <2>1, LiesAhead
        <4> QED BY <4>1, <1>1, <1>2, CopyPuts
      <3>2. ContiguousCopy(packet, mem, rec) = c
          BY <2>3 DEF ContiguousCopy
      <3> QED BY <2>3, <3>1, <3>2 DEF HasFrame
    <2> QED BY <2>2, <2>3
  <1>5. ASSUME RunsPastEnd(rec), E >= F
        PROVE  HasFrame(WrappedCopy(packet, mem, rec), rec)
    <2>1. /\ E < L /\ FromStartLen(rec) = L - E /\ L - E \in Nat
          /\ E - F \in Nat /\ 0 + (E - F) <= E - F /\ 0 + (E - F) <= PACKET_SIZE
          /\ E - F + (L - E) <= PACKET_SIZE
        BY <1>1, <1>2, <1>5 DEF RunsPastEnd, FromStartLen
    <2>2. Lies(rec.n, E, L - E, SHM_HEAD_SIZE)
        BY <1>1, <2>1, LiesBehind
    <2>3. CASE rec.type = "I"
      <3> DEFINE part == Copy(packet, 0, mem, rec.offset + F, E - F)
                 c == Copy(part, E - F, mem, SHM_HEAD_SIZE, L - E)
      <3>1. IsPacket(part) /\ Has(part, 0, rec.n, F, E - F)
        <4>1. Lies(rec.n, F, E - F, rec.offset + F)
            BY <1>1, <1>5, <2>1, LiesAhead
        <4> QED BY <4>1, <1>1, <1>2, <1>5, <2>1, CopyPuts
      <3> HIDE DEF part
      <3>2. Has(c, 0, rec.n, F, E - F)
          BY <1>1, <1>2, <1>5, <2>1, <3>1, CopyKeeps
      <3>3. Has(c, E - F, rec.n, E, L - E)
          BY <1>1, <1>2, <1>5, <2>1, <2>2, <3>1, CopyPuts
      <3>4. WrappedCopy(packet, mem, rec) = c
          BY <1>1, <1>5, <2>1, <2>3 DEF WrappedCopy, SplitIFrameCopy, part
      <3>5. Has(c, 0, rec.n, F, L - F)
        <4>1. /\ E - F \in Nat /\ L - E \in Nat /\ L - F \in Nat /\ 0 \in Nat
              /\ E \in Nat /\ F \in Nat
              /\ E - F = 0 + (E - F) /\ E = F + (E - F) /\ L - F = (E - F) + (L - E)
            BY <1>1, <1>5, <2>1
        <4> HIDE DEF c
        <4> QED BY <3>2, <3>3, <4>1, HasJoin
      <3> QED BY <2>3, <3>4, <3>5 DEF HasFrame
    <2>4. CASE rec.type = "P" /\ E >= B
      <3> DEFINE part == Copy(header, W, mem, rec.offset + B, E - B)
                 c == Copy(part, W + (E - B), mem, SHM_HEAD_SIZE, L - E)
      <3>0. /\ E - B \in Nat /\ W + (E - B) \in Nat /\ W + (E - B) <= PACKET_SIZE
            /\ W + (E - B) <= W + (E - B) /\ 0 + H <= W + (E - B)
            /\ W + (E - B) + (L - E) <= PACKET_SIZE /\ B + (E - B) <= L
            /\ B + (E - B) <= E
          BY <1>1, <1>2, <2>1, <2>4
      <3>1. IsPacket(header) /\ Has(header, 0, rec.n, F, H)
          BY <1>1, <1>3, <2>4
      <3> HIDE DEF header
      <3>2. IsPacket(part) /\ Has(part, 0, rec.n, F, H)
          BY <1>1, <1>2, <3>0, <3>1, CopyKeeps
      <3>3. Has(part, W, rec.n, B, E - B)
        <4>1. Lies(rec.n, B, E - B, rec.offset + B)
            BY <1>1, <3>0, LiesAhead
        <4> QED BY <4>1, <1>1, <1>2, <3>0, <3>1, CopyPuts
      <3> HIDE DEF part
      <3>4. Has(c, 0, rec.n, F, H)
          BY <1>1, <1>2, <2>1, <3>0, <3>2, CopyKeeps
      <3>5. Has(c, W, rec.n, B, E - B)
          BY <1>1, <1>2, <2>1, <3>0, <3>2, <3>3, CopyKeeps
      <3>6. Has(c, W + (E - B), rec.n, E, L - E)
          BY <1>1, <1>2, <2>1, <2>2, <3>0, <3>2, CopyPuts
      <3>7. WrappedCopy(packet, mem, rec) = c
          BY <1>1, <1>5, <2>1, <2>4 DEF WrappedCopy, SplitBodyCopy, part, header
      <3>8. Has(c, W, rec.n, B, L - B)
        <4>1. /\ E - B \in Nat /\ L - E \in Nat /\ L - B \in Nat
              /\ B \in Nat /\ E \in Nat /\ W \in Nat
              /\ W + (E - B) \in Nat /\ E = B + (E - B) /\ L - B = (E - B) + (L - E)
            BY <1>1, <1>2, <2>1, <2>4
        <4> HIDE DEF c
        <4> QED BY <3>5, <3>6, <4>1, HasJoin
      <3> QED BY <2>4, <3>4, <3>7, <3>8 DEF HasFrame
    <2>5. CASE rec.type = "P" /\ E < B
      <3> DEFINE part == Copy(packet, 0, mem, rec.offset + F, E - F)
                 whole == Copy(part, E - F, mem, SHM_HEAD_SIZE, B - E)
                 c == Copy(whole, W, mem, SHM_HEAD_SIZE + (B - E), L - B)
      <3>0. /\ B - E \in Nat /\ E - F + (B - E) <= PACKET_SIZE
            /\ SHM_HEAD_SIZE + (B - E) \in Nat /\ SHM_HEAD_SIZE + (B - E) >= SHM_HEAD_SIZE
            /\ SHM_HEAD_SIZE + B = SHM_HEAD_SIZE + (B - E) + E /\ B + (L - B) <= L
          BY <1>1, <1>2, <2>1, <2>5
      <3>1. IsPacket(part) /\ Has(part, 0, rec.n, F, E - F)
        <4>1. Lies(rec.n, F, E - F, rec.offset + F)
            BY <1>1, <1>5, <2>1, LiesAhead
        <4> QED BY <4>1, <1>1, <1>2, <1>5, <2>1, CopyPuts
      <3>2. Lies(rec.n, E, B - E, SHM_HEAD_SIZE)
        <4>1. /\ E + (B - E) <= L /\ L < Capacity /\ SHM_HEAD_SIZE + E = SHM_HEAD_SIZE + E
              /\ SHM_HEAD_SIZE >= SHM_HEAD_SIZE /\ B - E \in Nat
            BY <1>1, <2>1, <2>5
        <4> QED BY <1>1, <4>1, LiesBehind
      <3>3. Lies(rec.n, B, L - B, SHM_HEAD_SIZE + (B - E))
          BY <1>1, <1>2, <3>0, LiesBehind
      <3> HIDE DEF part
      <3>4. IsPacket(whole) /\ Has(whole, 0, rec.n, F, E - F)
          BY <1>1, <1>2, <2>1, <3>0, <3>1, CopyKeeps
      <3>5. Has(whole, E - F, rec.n, E, B - E)
          BY <1>1, <1>2, <2>1, <3>0, <3>1, <3>2, CopyPuts
      <3> HIDE DEF whole
      <3>6. Has(whole, 0, rec.n, F, H)
        <4>1. /\ E - F \in Nat /\ B - E \in Nat /\ H \in Nat /\ 0 \in Nat
              /\ E - F = 0 + (E - F) /\ E = F + (E - F) /\ H = (E - F) + (B - E)
            BY <1>1, <1>5, <2>5
        <4> QED BY <1>1, <3>4, <3>5, <4>1, HasJoin
      <3>7. Has(c, 0, rec.n, F, H)
          BY <1>1, <1>2, <3>0, <3>4, <3>6, CopyKeeps
      <3>8. Has(c, W, rec.n, B, L - B)
          BY <1>1, <1>2, <3>0, <3>3, <3>4, CopyPuts
      <3>9. WrappedCopy(packet, mem, rec) = c
        <4>1. E \in F .. B - 1 /\ ~(E < F) /\ ~(E >= B)
            BY <1>1, <1>5, <2>5
        <4> QED BY <4>1, <2>5 DEF WrappedCopy, SplitHeaderCopy, part, whole
      <3> QED BY <2>5, <3>7, <3>8, <3>9 DEF HasFrame
    <2> QED BY <1>1, <2>3, <2>4, <2>5
  <1> QED BY <1>4, <1>5

\* What such a packet says of each byte, and of what is stored of an I frame.
LEMMA HasFramePlaces ==
    ASSUME NEW p, NEW rec, rec.lenth \in Lens, HasFrame(p, rec)
    PROVE  /\ \A k \in FRAME_START_FLAG .. rec.lenth - 1 : p[Place(rec, k)] = <<rec.n, k>>
           /\ rec.type = "I" => Stored(p, rec) = Payload(rec)
  <1> DEFINE L == rec.lenth
             F == FRAME_START_FLAG
             B == BodyStart
  <1>1. /\ L \in Nat /\ L > B /\ F \in Nat /\ B \in Nat /\ B = F + HEADER_SIZE
        /\ HEADER_SIZE \in Nat
      BY RingSizes DEF BodyStart
  <1>2. ASSUME NEW k \in F .. L - 1 PROVE p[Place(rec, k)] = <<rec.n, k>>
    <2>1. CASE rec.type = "P" /\ k >= B
      <3>1. k - B \in 0 .. (L - B) - 1 /\ B + (k - B) = k
          BY <1>1, <2>1
      <3>2. Place(rec, k) = PBodyPlace + (k - B)
          BY <2>1 DEF Place
      <3> QED BY <2>1, <3>1, <3>2 DEF HasFrame, Has
    <2>2. CASE rec.type = "P" /\ k < B
      <3>1. k - F \in 0 .. HEADER_SIZE - 1 /\ F + (k - F) = k /\ 0 + (k - F) = k - F
          BY <1>1, <2>2
      <3>2. Place(rec, k) = k - F
          BY <1>1, <2>2 DEF Place
      <3> QED BY <2>2, <3>1, <3>2 DEF HasFrame, Has
    <2>3. CASE rec.type # "P"
      <3>1. k - F \in 0 .. (L - F) - 1 /\ F + (k - F) = k /\ 0 + (k - F) = k - F
          BY <1>1
      <3>2. Place(rec, k) = k - F
          BY <2>3 DEF Place
      <3> QED BY <2>3, <3>1, <3>2 DEF HasFrame, Has
    <2> QED BY <1>1, <2>1, <2>2, <2>3
  <1>3. ASSUME rec.type = "I" PROVE Stored(p, rec) = Payload(rec)
    <2>1. ASSUME NEW i \in 1 .. L - F PROVE p[i - 1] = <<rec.n, F + i - 1>>
      <3>1. i - 1 \in 0 .. (L - F) - 1 /\ 0 + (i - 1) = i - 1 /\ F + (i - 1) = F + i - 1
          BY <1>1
      <3> QED BY <1>3, <3>1 DEF HasFrame, Has
    <2> QED BY <1>3, <2>1 DEF Stored, Payload
  <1> QED BY <1>2, <1>3

-----------------------------------------------------------------------------
(* The encoder's steps. *)

\* What the frames' numbers are.
LEMMA LiveNumbers ==
    ASSUME IndexInv
    PROVE  /\ taken \in Nat /\ made \in Nat /\ Unread \in Nat /\ taken + Unread <= made
           /\ "record" \in enc.todo => taken + Unread = made - 1
           /\ \A i \in UnreadSlots : /\ index[i] \in IndexRecord
                                     /\ index[i].n > taken /\ index[i].n <= taken + Unread
           /\ pc # "index" => cshmindex.n = taken
  <1>1. Published = taken + Unread /\ taken \in Nat /\ made \in Nat /\ Unread \in Nat
      BY InvPositions DEF IndexInv, RecordsInOrder, Unread, Positions
  <1>2. "record" \in enc.todo => Published = made - 1
      BY DEF Published
  <1>3. "record" \notin enc.todo => Published = made
      BY <1>1 DEF Published
  <1>4. \A i \in UnreadSlots : /\ Ahead(i) \in Nat /\ Ahead(i) < Unread
                               /\ index[i].n = taken + 1 + Ahead(i)
                               /\ index[i] \in IndexRecord
    <2> TAKE i \in UnreadSlots
    <2>1. i \in Slots /\ Ahead(i) < Unread
        BY DEF UnreadSlots
    <2>2. Ahead(i) \in Nat
        BY <2>1, InvPositions DEF Ahead, Slots, Positions
    <2>3. index[i] \in IndexRecord
        BY <2>1 DEF IndexInv, TypeOK
    <2> QED BY <2>1, <2>2, <2>3 DEF IndexInv, RecordsInOrder
  <1> QED BY <1>1, <1>2, <1>3, <1>4 DEF IndexInv, RecordsInOrder

\* A step that leaves the video thread alone leaves its packet.
LEMMA SamePacket ==
    ASSUME PacketFaithfulUnlessFlagSplit, UNCHANGED <<pc, cshmindex, packet>>
    PROVE  PacketFaithfulUnlessFlagSplit'
  BY DEF PacketFaithfulUnlessFlagSplit, IFrameFaithful, StoresItsFrame, FlagSplit,
         RunsPastEnd, ToEndLen, Place, PBodyPlace, BodyStart, Stored, Payload

LEMMA FrameTyped ==
    ASSUME FrameInv, NEW r \in Live
    PROVE  /\ r.offset \in Ring /\ r.lenth \in Lens /\ r.lenth \in Nat /\ r.lenth > 0
           /\ Start(r) \in 0 .. Capacity - 1 /\ Stop(r) \in Nat /\ Start(r) < Stop(r)
           /\ Used \in 0 .. Capacity - 1
  <1>1. /\ r.offset \in Ring /\ r.lenth \in Lens
        /\ read_offset \in SHM_HEAD_SIZE .. SHM_DAT_TOTAL_SIZE /\ write_offset \in Ring
      BY DEF FrameInv, FramesTyped, Offsets
  <1>2. r.lenth \in Nat /\ r.lenth > 0
      BY <1>1, RingSizes
  <1>3. Start(r) \in 0 .. Capacity - 1 /\ Used \in 0 .. Capacity - 1
      BY <1>1, DistRange, UsedIsDist DEF Start
  <1> QED BY <1>1, <1>2, <1>3, RingSizes DEF Stop

LEMMA EncoderBeginFrame ==
    ASSUME RingInv, NEW type \in Types, NEW lenth \in Lens, EncoderBegin(type, lenth)
    PROVE  FrameInv' /\ PacketFaithfulUnlessFlagSplit'
  <1> DEFINE new == enc'.rec
  <1>1. /\ enc.todo = {} /\ enc'.todo = {"data", "record"}
        /\ new = [n |-> made + 1, type |-> type, offset |-> write_offset, lenth |-> lenth]
        /\ made' = made + 1 /\ Used + lenth < Capacity
        /\ UNCHANGED <<read_pos, read_offset, write_pos, index, write_offset, mem, pc,
                       cshmindex, packet, shm_read_offset, taken>>
      BY DEF EncoderBegin, readerVars
  <1>2. /\ IndexInv /\ Offsets /\ FramesTyped /\ FramesApart /\ FramesWhole
        /\ FramePending /\ FrameInHand /\ FrameInv
      BY DEF RingInv, FrameInv
  <1>3. made \in Nat /\ write_offset \in Ring /\ write_offset \in Nat /\ type \in {"I", "P", "A"}
        /\ lenth \in Nat
      BY <1>2, ShmRingAssumption, RingSizes DEF IndexInv, TypeOK, Offsets
  <1>4. \A r \in Live' : r \in Live \/ r = new
      BY <1>1 DEF Live, UnreadSlots, Unread, Ahead
  <1>5. \A r \in Live : r.n \in Nat /\ r.n <= made /\ r # new /\ Whole(r)
      BY <1>1, <1>2, <1>3 DEF FramesTyped, IndexRecord, Whole
  <1>6. /\ \A r : Start(r)' = Start(r) /\ Stop(r)' = Stop(r)
        /\ Used' = Used
      BY <1>1 DEF Start, Stop, Used
  <1>7. Offsets'
      BY <1>1, <1>2 DEF Offsets
  <1>8. FramesTyped'
      BY <1>1, <1>2, <1>3, <1>4, <1>5 DEF FramesTyped, IndexRecord
  <1>9. FramesApart'
    <2> SUFFICES ASSUME NEW r \in Live', NEW s \in Live', r.n < s.n
                 PROVE  Stop(r) <= Start(s)
        BY <1>6 DEF FramesApart
    <2>1. CASE r \in Live /\ s \in Live
        BY <2>1, <1>2 DEF FramesApart
    <2>2. CASE r \in Live /\ s = new
      <3>1. Stop(r) <= Used
          BY <2>2, <1>2, <1>5 DEF FramesWhole
      <3>2. Start(s) = Used
          BY <2>2, <1>1, UsedIsDist DEF Start
      <3> QED BY <3>1, <3>2
    <2>3. CASE r = new
        BY <2>3, <1>1, <1>3, <1>4, <1>5
    <2> QED BY <2>1, <2>2, <2>3, <1>4
  <1>10. FramesWhole'
    <2> SUFFICES ASSUME NEW r \in Live', Whole(r)'
                 PROVE  Stop(r) <= Used /\ Intact(r)
        BY <1>1, <1>6 DEF FramesWhole, Intact
    <2>1. r # new
        BY <1>1 DEF Whole
    <2> QED BY <2>1, <1>2, <1>4, <1>5 DEF FramesWhole
  <1>11. FramePending'
      BY <1>1, <1>6 DEF FramePending
  <1>12. FrameInHand'
      BY <1>1, <1>2 DEF FrameInHand, Unread, EndOf
  <1> QED BY <1>1, <1>7, <1>8, <1>9, <1>10, <1>11, <1>12, SamePacket DEF FrameInv, RingInv

\* The encoder's bytes go behind all the frames there are.
LEMMA EncoderDataFrame ==
    ASSUME RingInv, EncoderData
    PROVE  FrameInv' /\ PacketFaithfulUnlessFlagSplit'
  <1> DEFINE rec == enc.rec
             Byte(a) == {k \in 0 .. rec.lenth - 1 : After(rec.offset, k) = a}
  <1>1. /\ "data" \in enc.todo /\ enc' = [enc EXCEPT !.todo = @ \ {"data"}]
        /\ mem' = [a \in Ring |-> IF Byte(a) = {} THEN mem[a]
                                  ELSE <<rec.n, CHOOSE k \in Byte(a) : TRUE>>]
        /\ write_offset' = After(rec.offset, rec.lenth)
        /\ UNCHANGED <<read_pos, read_offset, write_pos, index, made, pc,
                       cshmindex, packet, shm_read_offset, taken>>
      BY DEF EncoderData, readerVars
  <1>2. /\ IndexInv /\ Offsets /\ FramesTyped /\ FramesApart /\ FramesWhole
        /\ FramePending /\ FrameInHand /\ FrameInv
      BY DEF RingInv, FrameInv
  <1>3. enc'.todo = enc.todo \ {"data"} /\ enc'.rec = rec
      BY <1>1, <1>2 DEF IndexInv, TypeOK
  <1>4. /\ rec \in Live /\ rec.offset = write_offset /\ Used + rec.lenth < Capacity
        /\ Start(rec) = Used
      BY <1>1, <1>2, UsedIsDist DEF Live, FramePending, Start
  <1>5. /\ rec.offset \in Ring /\ rec.lenth \in Nat /\ rec.lenth > 0
        /\ Used \in 0 .. Capacity - 1 /\ Capacity \in Nat
        /\ read_offset \in SHM_HEAD_SIZE .. SHM_DAT_TOTAL_SIZE
      BY <1>2, <1>4, FrameTyped, RingSizes DEF Offsets
  <1>6. \A r \in Live' : r \in Live
      BY <1>1, <1>3 DEF Live, UnreadSlots, Unread, Ahead
  <1>7. \A r : Start(r)' = Start(r) /\ Stop(r)' = Stop(r)
      BY <1>1 DEF Start, Stop
  <1>8. write_offset' \in Ring /\ Used' = Used + rec.lenth
    <2>1. /\ After(rec.offset, rec.lenth) \in Ring
          /\ Dist(read_offset, After(rec.offset, rec.lenth))
               = Dist(read_offset, rec.offset) + rec.lenth
        BY <1>4, <1>5, DistAfter DEF Start
    <2>2. Used' = Dist(read_offset, write_offset')
        BY <1>1 DEF Used, Dist
    <2> QED BY <2>1, <2>2, <1>1, <1>4 DEF Start
  <1>9. \A k \in 0 .. rec.lenth - 1 :
            /\ After(rec.offset, k) \in Ring
            /\ Dist(read_offset, After(rec.offset, k)) = Used + k
      BY <1>4, <1>5, DistAfter DEF Start
  <1>10. Offsets'
      BY <1>1, <1>2, <1>8 DEF Offsets
  <1>11. FramesTyped' /\ FramesApart'
      BY <1>1, <1>2, <1>6, <1>7 DEF FramesTyped, FramesApart
  <1>12. FramesWhole'
    <2> SUFFICES ASSUME NEW r \in Live PROVE Stop(r) <= Used' /\ Intact(r)'
        BY <1>6, <1>7 DEF FramesWhole
    <2>0. /\ r.offset \in Ring /\ r.lenth \in Nat /\ Start(r) \in Nat
          /\ Stop(r) = Start(r) + r.lenth
        BY <1>2, FrameTyped DEF Stop
    <2>1. CASE r = rec
      <3>1. Stop(r) = Used'
          BY <2>1, <1>4, <1>8 DEF Stop
      <3>2. ASSUME NEW k \in 0 .. rec.lenth - 1
            PROVE  mem'[After(rec.offset, k)] = <<rec.n, k>>
        <4> DEFINE a == After(rec.offset, k)
        <4>1. ASSUME NEW m \in Byte(a) PROVE m = k
          <5>1. Used + m = Used + k
              BY <1>9, <4>1
          <5> QED BY <5>1, <1>5
        <4>2. k \in Byte(a)
            OBVIOUS
        <4> HIDE DEF Byte
        <4>3. (CHOOSE m \in Byte(a) : TRUE) = k /\ Byte(a) # {}
            BY <4>1, <4>2
        <4>4. a \in Ring
            BY <1>9
        <4> QED BY <4>3, <4>4, <1>1
      <3> QED BY <2>1, <3>1, <3>2, <1>5, <1>8 DEF Intact
    <2>2. CASE r # rec
      <3>1. Stop(r) <= Used /\ Intact(r)
          BY <2>2, <1>2 DEF FramesWhole, Whole
      <3>2. ASSUME NEW k \in 0 .. r.lenth - 1
            PROVE  mem'[After(r.offset, k)] = <<r.n, k>>
        <4> DEFINE a == After(r.offset, k)
        <4>1. a \in Ring /\ Dist(read_offset, a) = Start(r) + k
            BY <2>0, <3>1, <1>5, DistAfter DEF Start
        <4>2. Start(r) + k < Used
            BY <2>0, <3>1, <1>5
        <4>3. Byte(a) = {}
          <5>1. ASSUME NEW m \in Byte(a) PROVE FALSE
            <6>1. Used + m = Start(r) + k /\ m \in Nat
                BY <1>9, <4>1, <1>5
            <6> QED BY <6>1, <4>2, <1>5, <2>0
          <5> QED BY <5>1
        <4> HIDE DEF Byte
        <4>4. mem'[a] = mem[a]
            BY <4>1, <4>3, <1>1
        <4> QED BY <4>4, <3>1 DEF Intact
      <3> QED BY <3>1, <3>2, <1>5, <1>8, <2>0 DEF Intact
    <2> QED BY <2>1, <2>2
  <1>13. FramePending' /\ FrameInHand'
      BY <1>1, <1>2, <1>3 DEF FramePending, FrameInHand, Unread, EndOf
  <1> QED BY <1>1, <1>10, <1>11, <1>12, <1>13, SamePacket DEF FrameInv, RingInv

\* The record of a frame that is in the ring goes to a free slot.
LEMMA EncoderRecordFrame ==
    ASSUME RingInv, EncoderRecord
    PROVE  FrameInv' /\ PacketFaithfulUnlessFlagSplit'
  <1>1. /\ "record" \in enc.todo /\ enc' = [enc EXCEPT !.todo = @ \ {"record"}]
        /\ index' = [index EXCEPT ![write_pos] = enc.rec]
        /\ write_pos' = (write_pos + 1) % SHM_INDEX_NUM
        /\ UNCHANGED <<read_pos, read_offset, write_offset, mem, made, pc,
                       cshmindex, packet, shm_read_offset, taken>>
      BY DEF EncoderRecord, readerVars
  <1>2. /\ IndexInv /\ Offsets /\ FramesTyped /\ FramesApart /\ FramesWhole
        /\ FramePending /\ FrameInHand /\ FrameInv
      BY DEF RingInv, FrameInv
  <1>3. enc'.todo = enc.todo \ {"record"} /\ enc'.rec = enc.rec
      BY <1>1, <1>2 DEF IndexInv, TypeOK
  <1>4. write_pos' = IF write_pos + 1 = SHM_INDEX_NUM THEN 0 ELSE write_pos + 1
      BY <1>1, <1>2, NextSlot DEF IndexInv, TypeOK
  <1>5. Unread + 1 < SHM_INDEX_NUM
      BY <1>1, <1>2 DEF IndexInv, PendingSlotFree
  <1>6. Unread' = Unread + 1
      BY <1>1, <1>2, <1>4, <1>5, InvPositions DEF Unread, Positions
  <1>7. ASSUME NEW r \in Live' PROVE r \in Live
    <2>1. CASE r = enc.rec
        BY <2>1, <1>1 DEF Live
    <2>2. CASE r # enc.rec
      <3>1. ASSUME NEW i \in UnreadSlots', r = index'[i] PROVE r \in Live
        <4>1. i \in Slots /\ Ahead(i) < Unread + 1
            BY <1>1, <1>6, <3>1 DEF UnreadSlots, Ahead
        <4>2. i # write_pos
            BY <2>2, <3>1, <4>1, <1>1, <1>2 DEF IndexInv, TypeOK
        <4>3. Ahead(i) < Unread
            BY <1>2, <4>1, <4>2, InvPositions DEF Ahead, Unread, Slots, Positions
        <4>4. index'[i] = index[i]
            BY <4>1, <4>2, <1>1, <1>2 DEF IndexInv, TypeOK
        <4> QED BY <3>1, <4>1, <4>3, <4>4 DEF Live, UnreadSlots
      <3> QED BY <2>2, <3>1, <1>1, <1>3 DEF Live
    <2> QED BY <2>1, <2>2
  <1>8. /\ \A r : Start(r)' = Start(r) /\ Stop(r)' = Stop(r) /\ Whole(r)' = Whole(r)
        /\ \A r : Intact(r)' = Intact(r)
        /\ Used' = Used
      BY <1>1, <1>3 DEF Start, Stop, Used, Whole, Intact
  <1>9. Offsets' /\ FramesTyped' /\ FramesApart' /\ FramesWhole'
      BY <1>1, <1>2, <1>7, <1>8 DEF Offsets, FramesTyped, FramesApart, FramesWhole
  <1>10. FramePending' /\ FrameInHand'
    <2>1. pc # "index" => Unread' >= 1
        BY <1>2, <1>6, InvPositions DEF FrameInHand, Unread, Positions
    <2> QED BY <2>1, <1>1, <1>2, <1>3, <1>8 DEF FramePending, FrameInHand, EndOf
  <1> QED BY <1>1, <1>9, <1>10, SamePacket DEF FrameInv, RingInv

-----------------------------------------------------------------------------
(* The video thread's steps. *)

LEMMA GetOneIndexFrame ==
    ASSUME RingInv, GetOneIndex
    PROVE  FrameInv' /\ PacketFaithfulUnlessFlagSplit'
  <1>1. /\ pc = "index" /\ pc' = "frame" /\ RecordReady
        /\ cshmindex' = index[read_pos]
        /\ read_pos' = (read_pos + 1) % SHM_INDEX_NUM
        /\ UNCHANGED <<read_offset, write_offset, mem, made, index, write_pos, enc,
                       shm_read_offset>>
      BY DEF GetOneIndex, encoderVars
  <1>2. /\ IndexInv /\ Offsets /\ FramesTyped /\ FramesApart /\ FramesWhole
        /\ FramePending /\ FrameInHand /\ FrameInv
      BY DEF RingInv, FrameInv
  <1>3. read_pos \in Slots /\ write_pos \in Slots
        /\ read_pos' = IF read_pos + 1 = SHM_INDEX_NUM THEN 0 ELSE read_pos + 1
      BY <1>1, <1>2, NextSlot DEF IndexInv, TypeOK
  <1>4. Unread > 1 /\ Unread < SHM_INDEX_NUM
    <2>1. read_pos # write_pos /\ read_pos' # write_pos
        BY <1>1 DEF RecordReady
    <2>2. Unread < SHM_INDEX_NUM
        BY <1>2 DEF IndexInv, PendingSlotFree
    <2> QED BY <2>1, <2>2, <1>2, <1>3, InvPositions DEF Unread, Positions
  <1>5. Unread' = Unread - 1
      BY <1>1, <1>2, <1>3, <1>4, InvPositions DEF Unread, Positions
  <1>6. read_pos \in UnreadSlots
    <2>1. Ahead(read_pos) = 0
        BY <1>2, InvPositions DEF Ahead, Positions
    <2>2. Unread \in Int
        BY <1>2, InvPositions DEF Unread, Positions
    <2> QED BY <2>1, <2>2, <1>3, <1>4 DEF UnreadSlots
  <1>7. ASSUME NEW i \in UnreadSlots' PROVE i \in UnreadSlots
    <2>1. i \in Slots /\ Ahead(i)' < Unread - 1
        BY <1>5 DEF UnreadSlots
    <2>2. Ahead(i) <= Ahead(i)' + 1
        BY <1>2, <1>3, <2>1, InvPositions DEF Ahead, Slots, Positions
    <2>3. Ahead(i) \in Int /\ Ahead(i)' \in Int /\ Unread \in Int
        BY <1>2, <1>3, <2>1, InvPositions DEF Ahead, Slots, Positions, Unread
    <2> QED BY <2>1, <2>2, <2>3 DEF UnreadSlots
  <1>8. \A r \in Live' : r \in Live
      BY <1>1, <1>6, <1>7 DEF Live
  <1>9. /\ \A r : Start(r)' = Start(r) /\ Stop(r)' = Stop(r) /\ Whole(r)' = Whole(r)
        /\ \A r : Intact(r)' = Intact(r)
        /\ Used' = Used
      BY <1>1 DEF Start, Stop, Used, Whole, Intact
  <1>10. Offsets' /\ FramesTyped' /\ FramesApart' /\ FramesWhole'
      BY <1>1, <1>2, <1>8, <1>9 DEF Offsets, FramesTyped, FramesApart, FramesWhole
  <1>11. FramePending'
      BY <1>1, <1>2, <1>9 DEF FramePending
  <1>12. FrameInHand' /\ PacketFaithfulUnlessFlagSplit'
      BY <1>1, <1>2, <1>4, <1>5, InvPositions
      DEF FrameInHand, PacketFaithfulUnlessFlagSplit, IFrameFaithful, StoresItsFrame,
          Unread, Positions
  <1> QED BY <1>10, <1>11, <1>12 DEF FrameInv

\* What get_one_frame finds: the frame it looks for, whole, somewhere between
\* read_offset and write_offset.
LEMMA FrameInHandIsThere ==
    ASSUME RingInv, pc # "index"
    PROVE  /\ cshmindex \in Live /\ Whole(cshmindex)
           /\ Start(cshmindex) < Stop(cshmindex) /\ Stop(cshmindex) <= Used
           /\ Intact(cshmindex)
           /\ read_offset # write_offset
           /\ cshmindex.offset # write_offset
  <1>1. /\ IndexInv /\ Offsets /\ FramesTyped /\ FramesWhole
        /\ FramePending /\ FrameInHand /\ FrameInv
      BY DEF RingInv, FrameInv
  <1>2. cshmindex \in Live
      BY DEF Live
  <1>3. Whole(cshmindex)
    <2>1. "data" \in enc.todo => enc.rec.n = made
        BY <1>1 DEF FramePending
    <2>2. cshmindex.n = taken /\ Unread >= 1 /\ taken + Unread <= made
          /\ taken \in Nat /\ Unread \in Nat /\ made \in Nat
        BY <1>1, LiveNumbers DEF FrameInHand
    <2>3. cshmindex.n # made
        BY <2>2
    <2> QED BY <2>1, <2>3 DEF Whole
  <1>4. Stop(cshmindex) <= Used /\ Intact(cshmindex)
      BY <1>1, <1>2, <1>3 DEF FramesWhole
  <1>5. /\ cshmindex.offset \in Ring /\ Start(cshmindex) \in Nat
        /\ Start(cshmindex) < Stop(cshmindex) /\ Stop(cshmindex) \in Nat /\ Used \in Nat
      BY <1>1, <1>2, FrameTyped
  <1>6. Used > 0 /\ Used # Start(cshmindex)
      BY <1>4, <1>5
  <1>7. cshmindex.offset # write_offset
      BY <1>6, UsedIsDist DEF Start
  <1>8. read_offset # write_offset
      BY <1>1, <1>6, RingSizes DEF Used, Offsets, Ring
  <1> QED BY <1>2, <1>3, <1>4, <1>5, <1>7, <1>8

LEMMA GetOneFrameFrame ==
    ASSUME RingInv, GetOneFrame
    PROVE  FrameInv' /\ PacketFaithfulUnlessFlagSplit'
  <1> DEFINE c == cshmindex
  <1>1. /\ pc = "frame"
        /\ UNCHANGED <<read_pos, read_offset, c, taken, write_pos, index, write_offset,
                       mem, enc, made>>
      BY DEF GetOneFrame, encoderVars
  <1>2. /\ IndexInv /\ Offsets /\ FramesTyped /\ FramesApart /\ FramesWhole
        /\ FramePending /\ FrameInHand /\ FrameInv
      BY DEF RingInv, FrameInv
  <1>3. /\ c \in Live /\ Start(c) < Stop(c) /\ Stop(c) <= Used /\ Intact(c)
        /\ read_offset # write_offset /\ c.offset # write_offset
      BY <1>1, FrameInHandIsThere
  <1>4. /\ c.offset \in Ring /\ c.lenth \in Lens /\ c.lenth \in Nat
        /\ Start(c) \in Nat /\ Used \in 0 .. Capacity - 1
      BY <1>2, <1>3, FrameTyped
  <1>5. pc' = "store"
      BY <1>1, <1>3 DEF GetOneFrame
  <1>6. Contiguous <=> ~RunsPastEnd(c)
    <2>1. c.offset < write_offset => ~RunsPastEnd(c)
      <3>1. Dist(read_offset, c.offset) + c.lenth <= Dist(read_offset, write_offset)
          BY <1>3, UsedIsDist DEF Stop, Start
      <3>2. /\ read_offset \in Nat /\ read_offset <= SHM_DAT_TOTAL_SIZE
            /\ write_offset \in Nat /\ write_offset < SHM_DAT_TOTAL_SIZE
            /\ c.offset \in Nat
          BY <1>2, <1>4, RingSizes DEF Offsets, Ring
      <3> QED BY <1>4, <3>1, <3>2, RingSizes DEF RunsPastEnd, Dist
    <2>2. c.offset < write_offset \/ c.offset > write_offset
        BY <1>2, <1>3, <1>4, RingSizes DEF Offsets, Ring
    <2> QED BY <2>1, <2>2 DEF Contiguous
  <1>7. Wrapped <=> RunsPastEnd(c)
    <2>1. c.offset < write_offset => Contiguous
        BY DEF Contiguous
    <2>2. c.offset < write_offset \/ c.offset > write_offset
        BY <1>2, <1>3, <1>4, RingSizes DEF Offsets, Ring
    <2> QED BY <2>1, <2>2, <1>6 DEF Wrapped
  <1>8. c.type \in {"I", "P"} => shm_read_offset' = EndOf(c)
    <2>1. CASE Contiguous
      <3>1. shm_read_offset' = c.offset + c.lenth
          BY <2>1, <1>3, <1>6, <1>7 DEF GetOneFrame
      <3> QED BY <3>1, <2>1, <1>4, <1>6, RingSizes DEF EndOf, RunsPastEnd, Ring
    <2>2. CASE ~Contiguous
      <3>1. c.type \in {"I", "P"} => shm_read_offset' = WrappedEnd(c)
          BY <2>2, <1>3, <1>6, <1>7 DEF GetOneFrame
      <3>2. WrappedEnd(c) = c.offset + c.lenth - Capacity
          BY <1>4, RingSizes DEF WrappedEnd, FromStartLen, ToEndLen, Ring
      <3> QED BY <3>1, <3>2, <2>2, <1>4, <1>6, RingSizes DEF EndOf, RunsPastEnd, Ring
    <2> QED BY <2>1, <2>2
  <1>9. c.type \in {"I", "P"} /\ ~FlagSplit(c) => HasFrame(packet', c)
    <2> SUFFICES ASSUME c.type \in {"I", "P"}, ~FlagSplit(c) PROVE HasFrame(packet', c)
        OBVIOUS
    <2>1. DOMAIN mem = Ring /\ IsPacket(packet)
        BY <1>2 DEF Offsets, IndexInv, TypeOK, IsPacket
    <2>2. CASE Contiguous
      <3>1. packet' = ContiguousCopy(packet, mem, c)
          BY <2>2, <1>3, <1>6, <1>7 DEF GetOneFrame
      <3> QED BY <3>1, <2>1, <2>2, <1>3, <1>4, <1>6, CopiesFrame
    <2>3. CASE ~Contiguous
      <3>1. packet' = WrappedCopy(packet, mem, c)
          BY <2>3, <1>3, <1>6, <1>7 DEF GetOneFrame
      <3>2. ToEndLen(c) >= FRAME_START_FLAG
          BY <2>3, <1>4, <1>6, RingSizes DEF FlagSplit, ToEndLen, Ring
      <3> QED BY <3>1, <3>2, <2>1, <2>3, <1>3, <1>4, <1>6, CopiesFrame
    <2> QED BY <2>2, <2>3
  <1>10. PacketFaithfulUnlessFlagSplit'
    <2>1. c.type \in {"I", "P"} /\ ~FlagSplit(c) =>
            /\ \A k \in FRAME_START_FLAG .. c.lenth - 1 : packet'[Place(c, k)] = <<c.n, k>>
            /\ c.type = "I" => Stored(packet', c) = Payload(c)
        BY <1>4, <1>9, HasFramePlaces
    <2>2. FlagSplit(c)' = FlagSplit(c) /\ Payload(c)' = Payload(c)
          /\ \A k : Place(c, k)' = Place(c, k)
        BY <1>1 DEF FlagSplit, RunsPastEnd, ToEndLen, Payload, Place
    <2> QED BY <1>1, <1>5, <2>1, <2>2
        DEF PacketFaithfulUnlessFlagSplit, IFrameFaithful, StoresItsFrame, Stored
  <1>11. \A r \in Live' : r \in Live
      BY <1>1, <1>5 DEF Live, UnreadSlots, Unread, Ahead
  <1>12. /\ \A r : Start(r)' = Start(r) /\ Stop(r)' = Stop(r) /\ Whole(r)' = Whole(r)
         /\ \A r : Intact(r)' = Intact(r)
         /\ Used' = Used /\ Unread' = Unread
      BY <1>1 DEF Start, Stop, Used, Whole, Intact, Unread
  <1>13. Offsets' /\ FramesTyped' /\ FramesApart' /\ FramesWhole'
      BY <1>1, <1>2, <1>11, <1>12 DEF Offsets, FramesTyped, FramesApart, FramesWhole
  <1>14. FramePending'
      BY <1>1, <1>2, <1>12 DEF FramePending
  <1>15. FrameInHand'
      BY <1>1, <1>2, <1>5, <1>8, <1>12 DEF FrameInHand, EndOf
  <1> QED BY <1>10, <1>13, <1>14, <1>15 DEF FrameInv

\* The frames that are still to be stored all lie behind the one that is released.
LEMMA StoreOneFrameFrame ==
    ASSUME RingInv, StoreOneFrame
    PROVE  FrameInv' /\ PacketFaithfulUnlessFlagSplit'
  <1> DEFINE c == cshmindex
  <1>1. /\ pc = "store" /\ c.type \in {"I", "P"} /\ pc' = "index"
        /\ read_offset' = shm_read_offset
        /\ UNCHANGED <<read_pos, taken, write_pos, index, write_offset, mem, enc, made>>
      BY DEF StoreOneFrame, encoderVars
  <1>2. /\ IndexInv /\ Offsets /\ FramesTyped /\ FramesApart /\ FramesWhole
        /\ FramePending /\ FrameInHand /\ FrameInv
      BY DEF RingInv, FrameInv
  <1>3. /\ c \in Live /\ Start(c) < Stop(c) /\ Stop(c) <= Used
      BY <1>1, FrameInHandIsThere
  <1>4. /\ c.offset \in Ring /\ c.lenth \in Nat /\ c.lenth > 0
        /\ Start(c) \in Nat /\ Stop(c) \in Nat /\ Used \in 0 .. Capacity - 1
        /\ read_offset \in SHM_HEAD_SIZE .. SHM_DAT_TOTAL_SIZE /\ write_offset \in Ring
      BY <1>2, <1>3, FrameTyped DEF Offsets
  <1>5. read_offset' = EndOf(c)
      BY <1>1, <1>2 DEF FrameInHand
  <1>6. Used' = Used - Stop(c) /\ read_offset' \in SHM_HEAD_SIZE .. SHM_DAT_TOTAL_SIZE
    <2>1. Dist(read_offset, c.offset) + c.lenth <= Dist(read_offset, write_offset)
        BY <1>3, UsedIsDist DEF Stop, Start
    <2>2. /\ EndOf(c) \in SHM_HEAD_SIZE .. SHM_DAT_TOTAL_SIZE
          /\ Dist(EndOf(c), write_offset) =
               Dist(read_offset, write_offset) - (Dist(read_offset, c.offset) + c.lenth)
        BY <1>4, <2>1, DistReleased
    <2>3. Used' = Dist(read_offset', write_offset)
        BY <1>1 DEF Used, Dist
    <2> QED BY <2>2, <2>3, <1>5, UsedIsDist DEF Stop, Start
  <1>7. ASSUME NEW r \in Live'
        PROVE  /\ r \in Live
               /\ Start(r)' = Start(r) - Stop(c) /\ Stop(r)' = Stop(r) - Stop(c)
    <2>1. r \in Live /\ (r \in {index[i] : i \in UnreadSlots}
                          \/ (enc.todo # {} /\ r = enc.rec))
        BY <1>1 DEF Live, UnreadSlots, Unread, Ahead
    <2>2. c.n < r.n
      <3>1. /\ c.n = taken /\ taken + Unread <= made /\ Unread >= 1
            /\ taken \in Nat /\ made \in Nat /\ Unread \in Nat
          BY <1>1, <1>2, LiveNumbers DEF FrameInHand
      <3>2. CASE r \in {index[i] : i \in UnreadSlots}
          BY <3>1, <3>2, <1>2, LiveNumbers
      <3>3. CASE enc.todo # {} /\ r = enc.rec
        <4>1. r.n = made
            BY <3>3, <1>2 DEF FramePending
        <4> QED BY <3>1, <4>1
      <3> QED BY <3>2, <3>3, <2>1
    <2>3. Stop(c) <= Start(r)
        BY <1>2, <1>3, <2>1, <2>2 DEF FramesApart
    <2>4. /\ r.offset \in Ring /\ r.lenth \in Nat /\ Start(r) \in Nat
        BY <1>2, <2>1, FrameTyped
    <2>5. Dist(EndOf(c), r.offset) = Dist(read_offset, r.offset) - Stop(c)
      <3>1. Dist(read_offset, c.offset) + c.lenth <= Dist(read_offset, r.offset)
          BY <2>3 DEF Stop, Start
      <3> QED BY <3>1, <1>4, <2>4, DistReleased DEF Stop, Start
    <2>6. Start(r)' = Start(r) - Stop(c)
        BY <2>5, <1>5 DEF Start
    <2> QED BY <2>1, <2>4, <2>6, <1>4 DEF Stop
  <1>8. \A r \in Live : Start(r) \in Nat /\ Stop(r) \in Nat
      BY <1>2, FrameTyped
  <1>9. \A r : Whole(r)' = Whole(r) /\ Intact(r)' = Intact(r)
      BY <1>1 DEF Whole, Intact
  <1>10. Offsets' /\ FramesTyped'
      BY <1>1, <1>2, <1>6, <1>7 DEF Offsets, FramesTyped
  <1>11. FramesApart'
    <2> SUFFICES ASSUME NEW r \in Live', NEW s \in Live', r.n < s.n
                 PROVE  Stop(r)' <= Start(s)'
        BY DEF FramesApart
    <2>1. Stop(r) <= Start(s)
        BY <1>2, <1>7 DEF FramesApart
    <2> QED BY <2>1, <1>4, <1>7, <1>8
  <1>12. FramesWhole'
    <2> SUFFICES ASSUME NEW r \in Live', Whole(r) PROVE Stop(r)' <= Used' /\ Intact(r)
        BY <1>9 DEF FramesWhole
    <2>1. Stop(r) <= Used /\ Intact(r)
        BY <1>2, <1>7 DEF FramesWhole
    <2> QED BY <2>1, <1>4, <1>6, <1>7, <1>8
  <1>13. FramePending'
    <2>1. "data" \in enc.todo => Used' + enc.rec.lenth < Capacity
      <3> SUFFICES ASSUME "data" \in enc.todo PROVE Used' + enc.rec.lenth < Capacity
          OBVIOUS
      <3>1. enc.rec \in Live
          BY DEF Live
      <3>2. enc.rec.lenth \in Nat
          BY <3>1, <1>2, FrameTyped
      <3>3. Used + enc.rec.lenth < Capacity /\ Capacity \in Nat
          BY <1>2, RingSizes DEF FramePending
      <3> QED BY <3>2, <3>3, <1>4, <1>6
    <2> QED BY <2>1, <1>1, <1>2 DEF FramePending
  <1>14. FrameInHand' /\ PacketFaithfulUnlessFlagSplit'
      BY <1>1 DEF FrameInHand, PacketFaithfulUnlessFlagSplit,
             IFrameFaithful, StoresItsFrame
  <1> QED BY <1>10, <1>11, <1>12, <1>13, <1>14 DEF FrameInv

LEMMA StoreFailsFrame ==
    ASSUME RingInv, StoreOneFrameFails
    PROVE  FrameInv' /\ PacketFaithfulUnlessFlagSplit'
  <1>1. /\ pc' = "index"
        /\ UNCHANGED <<read_pos, read_offset, shm_read_offset, cshmindex, packet, taken,
                       write_pos, index, write_offset, mem, enc, made>>
      BY DEF StoreOneFrameFails, encoderVars
  <1>2. \A r \in Live' : r \in Live
      BY <1>1 DEF Live, UnreadSlots, Unread, Ahead
  <1>3. /\ \A r : Start(r)' = Start(r) /\ Stop(r)' = Stop(r) /\ Whole(r)' = Whole(r)
        /\ \A r : Intact(r)' = Intact(r)
        /\ Used' = Used
      BY <1>1 DEF Start, Stop, Used, Whole, Intact
  <1>4. Offsets' /\ FramesTyped' /\ FramesApart' /\ FramesWhole' /\ FramePending'
      BY <1>1, <1>2, <1>3
      DEF RingInv, FrameInv, Offsets, FramesTyped, FramesApart, FramesWhole, FramePending
  <1> QED BY <1>1, <1>4
          DEF FrameInv, FrameInHand, PacketFaithfulUnlessFlagSplit,
             IFrameFaithful, StoresItsFrame
LEMMA InitRing == Init => RingInv
  <1> SUFFICES ASSUME Init PROVE RingInv
      OBVIOUS
  <1>1. IndexInv
      BY InitInv
  <1>2. Live = {}
    <2>1. UnreadSlots = {}
        BY DEF Init, UnreadSlots, Unread, Ahead, Slots
    <2> QED BY <2>1 DEF Init, Live
  <1>3. Offsets
      BY RingSizes DEF Init, Offsets, Ring
  <1>4. FramesTyped /\ FramesApart /\ FramesWhole
      BY <1>2 DEF FramesTyped, FramesApart, FramesWhole
  <1>5. FramePending /\ FrameInHand /\ PacketFaithfulUnlessFlagSplit
      BY DEF Init, FramePending, FrameInHand, PacketFaithfulUnlessFlagSplit,
             IFrameFaithful, StoresItsFrame
  <1> QED BY <1>1, <1>3, <1>4, <1>5 DEF FrameInv, RingInv

LEMMA StutterRing ==
    ASSUME RingInv, UNCHANGED vars
    PROVE  RingInv'
  <1>1. UNCHANGED <<read_pos, read_offset, shm_read_offset, pc, cshmindex, packet, taken,
                    write_pos, index, write_offset, mem, enc, made>>
      BY DEF vars, readerVars, encoderVars
  <1>2. IndexInv'
      BY StutterInv DEF RingInv
  <1>3. \A r : r \in Live' <=> r \in Live
      BY <1>1 DEF Live, UnreadSlots, Unread, Ahead
  <1>4. /\ \A r : Start(r)' = Start(r) /\ Stop(r)' = Stop(r) /\ Whole(r)' = Whole(r)
        /\ \A r : Intact(r)' = Intact(r)
        /\ Used' = Used /\ Unread' = Unread
      BY <1>1 DEF Start, Stop, Used, Whole, Intact, Unread
  <1>5. Offsets' /\ FramesTyped' /\ FramesApart' /\ FramesWhole' /\ FramePending'
      BY <1>1, <1>3, <1>4
      DEF RingInv, FrameInv, Offsets, FramesTyped, FramesApart, FramesWhole, FramePending
  <1>6. FrameInHand'
      BY <1>1, <1>4 DEF RingInv, FrameInv, FrameInHand, EndOf
  <1> QED BY <1>1, <1>2, <1>5, <1>6, SamePacket DEF FrameInv, RingInv

-----------------------------------------------------------------------------
\* The frames in the ring stay in order, apart, whole and within read_offset and
\* write_offset, whatever the encoder and the video thread do between each other's
\* steps.
THEOREM RingInvariant == Spec => []RingInv
  <1>1. Init => RingInv
      BY InitRing
  <1>2. RingInv /\ [Next]_vars => RingInv'
    <2> SUFFICES ASSUME RingInv, [Next]_vars PROVE RingInv'
        OBVIOUS
    <2>1. CASE UNCHANGED vars
        BY <2>1, StutterRing
    <2>2. CASE Next
      <3>1. IndexInv
          BY DEF RingInv
      <3>2. CASE \E type \in Types, lenth \in Lens : EncoderBegin(type, lenth)
          BY <3>1, <3>2, EncoderBeginInv, EncoderBeginFrame DEF RingInv
      <3>3. CASE EncoderData
          BY <3>1, <3>3, EncoderDataInv, EncoderDataFrame DEF RingInv
      <3>4. CASE EncoderRecord
          BY <3>1, <3>4, EncoderRecordInv, EncoderRecordFrame DEF RingInv
      <3>5. CASE GetOneIndex
          BY <3>1, <3>5, GetOneIndexInv, GetOneIndexFrame DEF RingInv
      <3>6. CASE GetOneFrame
          BY <3>1, <3>6, GetOneFrameInv, GetOneFrameFrame DEF RingInv
      <3>7. CASE StoreOneFrame
          BY <3>1, <3>7, StoreInv, StoreOneFrameFrame DEF RingInv
      <3>8. CASE StoreOneFrameFails
          BY <3>1, <3>8, StoreInv, StoreFailsFrame DEF RingInv
      <3> QED BY <2>2, <3>2, <3>3, <3>4, <3>5, <3>6, <3>7, <3>8
              DEF Next, Encoder, VideoThread
    <2> QED BY <2>1, <2>2
  <1> QED BY <1>1, <1>2, PTL DEF Spec

\* get_one_frame never finds the frame ring empty, and never its frame at
\* write_offset (the tests of p4storagefun.c:159-170): the record it holds is one
\* behind the newest, and the newest alone may be without its bytes.
THEOREM TakenFrameAlwaysThere == Spec => []TakenFrameIsThere
  <1>1. RingInv => TakenFrameIsThere
    <2> SUFFICES ASSUME RingInv, pc = "frame"
                 PROVE  read_offset # write_offset /\ cshmindex.offset # write_offset
        BY DEF TakenFrameIsThere
    <2> QED BY FrameInHandIsThere
  <1> QED BY <1>1, RingInvariant, PTL

\* The encoder never overwrites a frame before get_one_frame has copied it, although
\* get_one_index frees the record's slot at once: the space follows read_offset.
THEOREM UncopiedFramesAlwaysIntact == Spec => []UncopiedFramesIntact
  <1>1. RingInv => UncopiedFramesIntact
    <2> SUFFICES ASSUME RingInv, NEW rec \in ToBeCopied PROVE Intact(rec)
        BY DEF UncopiedFramesIntact, Intact
    <2>1. rec \in Live /\ Whole(rec)
        BY DEF ToBeCopied, Live, Whole
    <2> QED BY <2>1 DEF RingInv, FrameInv, FramesWhole
  <1> QED BY <1>1, RingInvariant, PTL

\* Each branch of get_one_frame (p4storagefun.c:168-241) but the one for a ring whose
\* end falls inside the start flag leaves every byte of the frame in the place the
\* branches have for it, and what storage_one_frame then writes of an I frame is
\* the frame.  (Of a P frame it is not: PFrameFaithful.)
THEOREM PacketAlwaysFaithful == Spec => []PacketFaithfulUnlessFlagSplit
  <1>1. RingInv => PacketFaithfulUnlessFlagSplit
      BY DEF RingInv
  <1> QED BY <1>1, RingInvariant, PTL

\* Once round the ring is the same place.
LEMMA OnceRound ==
    ASSUME NEW x \in Nat, NEW c \in Nat, c > 0
    PROVE  (x - c) % c = x % c
  <1> DEFINE d == (x \div c) - ((x - c) \div c) - 1
             m == ((x - c) % c) - (x % c)
  <1>1. /\ x = c * (x \div c) + (x % c)
        /\ x % c \in 0 .. c - 1 /\ x \div c \in Int
      OBVIOUS
  <1>2. /\ x - c = c * ((x - c) \div c) + ((x - c) % c)
        /\ (x - c) % c \in 0 .. c - 1 /\ (x - c) \div c \in Int
      OBVIOUS
  <1>3. m = c * d
    <2> HIDE DEF m
    <2>1. \A a, b \in Int : c * a - c * b - c * 1 = c * (a - b - 1)
        OBVIOUS
    <2>2. m = c * (x \div c) - c * ((x - c) \div c) - c
        BY <1>1, <1>2 DEF m
    <2> QED BY <2>1, <2>2, <1>1, <1>2
  <1>4. m \in Int /\ d \in Int /\ m < c /\ m > -c
      BY <1>1, <1>2
  <1> HIDE DEF d, m
  <1>5. d = 0
    <2>1. (d >= 1 => c * d >= c) /\ (d <= -1 => c * d <= -c)
        BY <1>4
    <2> QED BY <2>1, <1>3, <1>4
  <1>6. m = 0
      BY <1>3, <1>5
  <1> QED BY <1>6, <1>1, <1>2 DEF m

\* A successful storage_one_frame releases the frame it has stored up to its end,
\* no more and no less, and no other step moves read_offset.
THEOREM StoredFrameAlwaysReleased == Spec => ReleasesStoredFrame
  <1>1. RingInv /\ [Next]_vars =>
          [read_offset' # read_offset =>
             /\ pc = "store"
             /\ read_offset' % Capacity =
                  (cshmindex.offset + cshmindex.lenth) % Capacity]_vars
    <2> SUFFICES ASSUME RingInv, [Next]_vars, read_offset' # read_offset
                 PROVE  /\ pc = "store"
                        /\ read_offset' % Capacity =
                             (cshmindex.offset + cshmindex.lenth) % Capacity
        OBVIOUS
    <2>1. StoreOneFrame
        BY DEF Next, Encoder, VideoThread, EncoderBegin, EncoderData, EncoderRecord,
               GetOneIndex, GetOneFrame, StoreOneFrameFails, vars
    <2>2. pc = "store" /\ read_offset' = EndOf(cshmindex)
        BY <2>1 DEF StoreOneFrame, RingInv, FrameInv, FrameInHand
    <2>3. cshmindex.offset \in Nat /\ cshmindex.lenth \in Nat
        BY DEF RingInv, IndexInv, TypeOK, IndexRecord
    <2> DEFINE end == cshmindex.offset + cshmindex.lenth
    <2>4. end \in Nat
        BY <2>3
    <2>5. EndOf(cshmindex) = end \/ EndOf(cshmindex) = end - Capacity
        BY <2>3, RingSizes DEF EndOf
    <2> HIDE DEF end
    <2>6. (end - Capacity) % Capacity = end % Capacity
        BY <2>4, OnceRound, RingSizes
    <2>7. read_offset' % Capacity = end % Capacity
        BY <2>2, <2>5, <2>6
    <2> QED BY <2>2, <2>7 DEF end
  <1> QED BY <1>1, RingInvariant, PTL DEF Spec, ReleasesStoredFrame
=============================================================================
