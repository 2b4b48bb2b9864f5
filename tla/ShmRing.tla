------------------------------- MODULE ShmRing -------------------------------
(***************************************************************************)
(* The two shared-memory rings between the encoder and the video thread:   *)
(* a ring of SHM_INDEX_NUM index records and a ring of frame bytes, and    *)
(* the loop of p4_video (p4storagefun.c:1867-1912) that reads them:        *)
(*                                                                         *)
(*    get_one_index  ->  get_one_frame  ->  storage_one_frame              *)
(*                                                                         *)
(* Each of the three is one step, so the encoder can run between any two   *)
(* of them.  storage_one_frame is here what it does to the rings: release  *)
(* the frame's space, or return without (Recorder has the rest of it).     *)
(*                                                                         *)
(* The encoder is another process and not in this repository.  It is       *)
(* modelled by what this side relies on: it writes one frame at a time,    *)
(* its bytes and its index record in either order, only into a free index  *)
(* slot and free bytes, each frame right behind the one before.            *)
(*                                                                         *)
(* Frames are numbered 1, 2, ...; byte k of frame n is the cell <<n, k>>.  *)
(***************************************************************************)
EXTENDS FrameCopy

CONSTANTS SHM_INDEX_NUM,    \* slots of the index ring
          Types,            \* frame types the encoder sends: "I", "P", "A"
          Lens,             \* frame lengths the encoder sends
          StoreMayFail,     \* may storage_one_frame fail on an I frame?
          MaxFrames         \* bound on the frames the encoder writes

\* The reader keeps one record unread and the encoder one slot empty, so two
\* slots can never pass a record; and a frame waits for the next one to arrive,
\* so two frames must fit in the ring together.  A frame fits in the packet.
ASSUME ShmRingAssumption ==
    /\ SHM_INDEX_NUM \in Nat /\ SHM_INDEX_NUM >= 3
    /\ Types \subseteq {"I", "P", "A"} /\ Types # {}
    /\ Lens \subseteq Nat /\ \A l \in Lens : l > BodyStart
    /\ \A l, m \in Lens : l + m < SHM_DAT_TOTAL_SIZE - SHM_HEAD_SIZE
    /\ \A l \in Lens : l + RTC_SIZE <= PACKET_SIZE
    /\ StoreMayFail \in BOOLEAN
    /\ MaxFrames \in Nat

VARIABLES
    read_pos, write_pos,        \* head of the index ring
    index,                      \* the index ring's records
    read_offset, write_offset,  \* head of the frame ring
    mem,                        \* the frame ring's bytes
    shm_read_offset,            \* static of p4storagefun.c, not in shared memory
    pc,                         \* the call p4_video makes next
    cshmindex,                  \* the index record the video thread works on
    packet,                     \* the frame it copied
    enc,                        \* the encoder's frame and what of it is to be written
    made,                       \* frames the encoder has begun
    taken                       \* records the video thread has consumed

readerVars  == <<shm_read_offset, pc, cshmindex, packet, taken>>
encoderVars == <<write_pos, index, write_offset, mem, enc, made>>
vars == <<read_pos, read_offset, readerVars, encoderVars>>

IndexRecord == [n : Nat, type : {"I", "P", "A"}, offset : Nat, lenth : Nat]
NoRecord    == [n |-> 0, type |-> "A", offset |-> 0, lenth |-> 0]

Slots    == 0 .. SHM_INDEX_NUM - 1
Ring     == SHM_HEAD_SIZE .. SHM_DAT_TOTAL_SIZE - 1
Capacity == SHM_DAT_TOTAL_SIZE - SHM_HEAD_SIZE

TypeOK ==
    /\ read_pos \in Slots /\ write_pos \in Slots
    /\ index \in [Slots -> IndexRecord]
    /\ read_offset \in Nat /\ write_offset \in Nat /\ shm_read_offset \in Nat
    /\ pc \in {"index", "frame", "store"}
    /\ cshmindex \in IndexRecord
    /\ IsPacket(packet)
    /\ enc \in [todo : SUBSET {"data", "record"}, rec : IndexRecord]
    /\ made \in Nat /\ taken \in Nat

-----------------------------------------------------------------------------
\* The address l bytes behind o in the ring.
After(o, l) == IF o + l < SHM_DAT_TOTAL_SIZE THEN o + l ELSE o + l - Capacity

\* The bytes from read_offset to write_offset.  read_offset may be the end of
\* the ring (line 183 does not wrap it) when write_offset is its start.
Used == IF write_offset >= read_offset
        THEN write_offset - read_offset
        ELSE write_offset + Capacity - read_offset

Init ==
    /\ read_pos = 0 /\ write_pos = 0
    /\ index = [i \in Slots |-> NoRecord]
    /\ read_offset = SHM_HEAD_SIZE /\ write_offset = SHM_HEAD_SIZE
    /\ mem = [a \in Ring |-> Outside]
    /\ shm_read_offset = 0
    /\ pc = "index" /\ cshmindex = NoRecord /\ packet = Blank
    /\ enc = [todo |-> {}, rec |-> NoRecord]
    /\ made = 0 /\ taken = 0

-----------------------------------------------------------------------------
(* The encoder (external). *)

\* It begins a frame when the index ring has a slot and the frame ring the space.
EncoderBegin(type, lenth) ==
    /\ enc.todo = {} /\ made < MaxFrames
    /\ (write_pos + 1) % SHM_INDEX_NUM # read_pos
    /\ Used + lenth < Capacity
    /\ made' = made + 1
    /\ enc' = [todo |-> {"data", "record"},
               rec  |-> [n |-> made + 1, type |-> type,
                         offset |-> write_offset, lenth |-> lenth]]
    /\ UNCHANGED <<read_pos, read_offset, readerVars,
                   write_pos, index, write_offset, mem>>

\* It writes the frame's bytes, behind which write_offset moves.
EncoderData ==
    LET rec == enc.rec
        Byte(a) == {k \in 0 .. rec.lenth - 1 : After(rec.offset, k) = a}
    IN  /\ "data" \in enc.todo
        /\ enc' = [enc EXCEPT !.todo = @ \ {"data"}]
        /\ mem' = [a \in Ring |-> IF Byte(a) = {} THEN mem[a]
                                  ELSE <<rec.n, CHOOSE k \in Byte(a) : TRUE>>]
        /\ write_offset' = After(rec.offset, rec.lenth)
        /\ UNCHANGED <<read_pos, read_offset, readerVars, write_pos, index, made>>

\* It publishes the frame's index record.
EncoderRecord ==
    /\ "record" \in enc.todo
    /\ enc' = [enc EXCEPT !.todo = @ \ {"record"}]
    /\ index' = [index EXCEPT ![write_pos] = enc.rec]
    /\ write_pos' = (write_pos + 1) % SHM_INDEX_NUM
    /\ UNCHANGED <<read_pos, read_offset, readerVars, write_offset, mem, made>>

Encoder ==
    \/ \E type \in Types, lenth \in Lens : EncoderBegin(type, lenth)
    \/ EncoderData
    \/ EncoderRecord

-----------------------------------------------------------------------------
(* The video thread. *)

\* Faults: no empty check, no interval of one frame, an interval of two.
RecordReadyNoEmptyCheck == (read_pos + 1) % SHM_INDEX_NUM # write_pos
RecordReadyNoInterval   == read_pos # write_pos
RecordReadyTwoKept ==
    /\ read_pos # write_pos
    /\ (read_pos + 1) % SHM_INDEX_NUM # write_pos
    /\ (read_pos + 2) % SHM_INDEX_NUM # write_pos

\* Is a record there to take?  The newest one never is.
RecordReady ==
    /\ read_pos # write_pos
    /\ (read_pos + 1) % SHM_INDEX_NUM # write_pos

\* Fault: read_pos is not wrapped.
GetOneIndexNoWrap ==
    /\ pc = "index"
    /\ RecordReady
    /\ cshmindex' = index[read_pos]
    /\ read_pos' = read_pos + 1
    /\ taken' = taken + 1
    /\ packet' = Blank
    /\ pc' = "frame"
    /\ UNCHANGED <<read_offset, shm_read_offset, encoderVars>>

\* get_one_index: take the record and free its slot at once.
GetOneIndex ==
    /\ pc = "index"
    /\ RecordReady
    /\ cshmindex' = index[read_pos]
    /\ read_pos' = (read_pos + 1) % SHM_INDEX_NUM
    /\ taken' = taken + 1
    /\ packet' = Blank
    /\ pc' = "frame"
    /\ UNCHANGED <<read_offset, shm_read_offset, encoderVars>>

\* The two places a frame can lie in.
Contiguous ==
    \/ cshmindex.offset < write_offset
    \/ cshmindex.offset > write_offset /\ ~RunsPastEnd(cshmindex)
Wrapped == cshmindex.offset > write_offset /\ RunsPastEnd(cshmindex)

\* get_one_frame: copy the frame and note where it ends.  When the ring looks
\* empty the loop goes on to the next record; when the frame is in neither place
\* nothing is copied and nothing noted, and the call still succeeds.
GetOneFrame ==
    /\ pc = "frame"
    /\ packet' = CASE read_offset = write_offset -> packet
                   [] read_offset # write_offset /\ Contiguous ->
                        ContiguousCopy(packet, mem, cshmindex)
                   [] read_offset # write_offset /\ Wrapped ->
                        WrappedCopy(packet, mem, cshmindex)
                   [] OTHER -> packet
    /\ shm_read_offset' =
           CASE read_offset = write_offset -> shm_read_offset
             [] read_offset # write_offset /\ Contiguous ->
                  cshmindex.offset + cshmindex.lenth
             [] read_offset # write_offset /\ Wrapped
                  /\ cshmindex.type \in {"I", "P"} ->
                  WrappedEnd(cshmindex)
             [] OTHER -> shm_read_offset
    /\ pc' = IF read_offset = write_offset THEN "index" ELSE "store"
    /\ UNCHANGED <<read_pos, read_offset, cshmindex, taken, encoderVars>>

\* Fault: everything the encoder has written is released.
StoreOneFrameReleasesAll ==
    /\ pc = "store"
    /\ cshmindex.type \in {"I", "P"}
    /\ read_offset' = write_offset
    /\ pc' = "index"
    /\ UNCHANGED <<read_pos, shm_read_offset, cshmindex, packet, taken, encoderVars>>

\* Fault: a P frame's space is not released.
StoreOneFrameKeepsP ==
    /\ pc = "store"
    /\ cshmindex.type \in {"I", "P"}
    /\ read_offset' = IF cshmindex.type = "I" THEN shm_read_offset ELSE read_offset
    /\ pc' = "index"
    /\ UNCHANGED <<read_pos, shm_read_offset, cshmindex, packet, taken, encoderVars>>

\* storage_one_frame succeeds: the frame's space is released.
StoreOneFrame ==
    /\ pc = "store"
    /\ cshmindex.type \in {"I", "P"}
    /\ read_offset' = shm_read_offset
    /\ pc' = "index"
    /\ UNCHANGED <<read_pos, shm_read_offset, cshmindex, packet, taken, encoderVars>>

\* storage_one_frame returns -1, from any of its early returns on an I frame or
\* because the type is neither I nor P: nothing is released.
StoreOneFrameFails ==
    /\ pc = "store"
    /\ \/ cshmindex.type = "A"
       \/ cshmindex.type = "I" /\ StoreMayFail
    /\ pc' = "index"
    /\ UNCHANGED <<read_pos, read_offset, shm_read_offset, cshmindex, packet,
                   taken, encoderVars>>

VideoThread == GetOneIndex \/ GetOneFrame \/ StoreOneFrame \/ StoreOneFrameFails

Next == Encoder \/ VideoThread

Spec == Init /\ [][Next]_vars

\* The video thread's loop never exits and sleeps 10 ms at most between two
\* attempts; the encoder finishes the frame it has begun and begins another
\* whenever some frame fits.
FairSpec == Spec /\ WF_vars(VideoThread) /\ WF_vars(Encoder)

-----------------------------------------------------------------------------
(* What the rings promise. *)

\* How many records are published and not taken, how far a slot is ahead of
\* read_pos, and the slots of those records.
Unread ==
    IF read_pos <= write_pos THEN write_pos - read_pos
                             ELSE write_pos + SHM_INDEX_NUM - read_pos
Ahead(i) == IF read_pos <= i THEN i - read_pos ELSE i + SHM_INDEX_NUM - read_pos
UnreadSlots == {i \in Slots : Ahead(i) < Unread}

Published == made - (IF "record" \in enc.todo THEN 1 ELSE 0)

\* The records of frames the video thread has still to copy, their bytes being
\* all in the ring.
ToBeCopied ==
    ({index[i] : i \in UnreadSlots}
       \cup (IF pc = "frame" THEN {cshmindex} ELSE {}))
      \ (IF "data" \in enc.todo THEN {enc.rec} ELSE {})

\* get_one_index hands out every frame's record, once and in the encoder's
\* order, across the wrap of the index ring and whatever the encoder does
\* between two calls: what is taken and what is unread add up to what was
\* published, and the unread slots hold the next records in order.
RecordsInOrder ==
    /\ pc # "index" => cshmindex.n = taken
    /\ Published = taken + Unread
    /\ \A i \in UnreadSlots : index[i].n = taken + 1 + Ahead(i)

\* A record is gone from the index ring once it is taken, so get_one_frame must
\* never find the frame ring empty or the frame at write_offset: the frame would
\* be dropped, or an older offset released.  The interval of one frame
\* get_one_index keeps is what makes this true when the record is published
\* before the bytes.
TakenFrameIsThere ==
    pc = "frame" => /\ read_offset # write_offset
                    /\ cshmindex.offset # write_offset

\* The encoder overwrites no frame the video thread has still to copy: space is
\* never released, and never looks free, before the frame in it is copied.
UncopiedFramesIntact ==
    \A rec \in ToBeCopied :
        \A k \in 0 .. rec.lenth - 1 : mem[After(rec.offset, k)] = <<rec.n, k>>

\* The bytes of frame n that belong in the file: all but the start flag.
Payload(rec) == [k \in 1 .. rec.lenth - FRAME_START_FLAG |->
                    <<rec.n, FRAME_START_FLAG + k - 1>>]

\* What the video thread is about to store of a frame of the type is the frame
\* ("Read one frame data from share memory according to frame index record" and
\* "Storage one frame data to tmp.h264 file", p4storagefun.c:146, 246).
StoresItsFrame(type) ==
    pc = "store" /\ cshmindex.type = type => Stored(packet, cshmindex) = Payload(cshmindex)

\* An I frame is stored byte for byte wherever it lies in the ring.  It is not
\* when the end of the ring falls inside its start flag.
IFrameFaithful == StoresItsFrame("I")

\* A P frame is stored byte for byte.  It never is: its body is copied
\* FRAME_START_FLAG bytes behind the place it is written from.
PFrameFaithful == StoresItsFrame("P")

\* Where get_one_frame has byte k of a frame in the packet.
Place(rec, k) == IF rec.type = "P" /\ k >= BodyStart THEN PBodyPlace + (k - BodyStart)
                                                    ELSE k - FRAME_START_FLAG

\* Unless the end of the ring falls inside the start flag, get_one_frame leaves no
\* byte of the frame behind, mixes none up and takes none of another frame,
\* wherever the frame lies in the ring and in how many pieces it is copied; and
\* an I frame is then stored byte for byte.
PacketFaithfulUnlessFlagSplit ==
    pc = "store" /\ cshmindex.type \in {"I", "P"} /\ ~FlagSplit(cshmindex) =>
        /\ \A k \in FRAME_START_FLAG .. cshmindex.lenth - 1 :
               packet[Place(cshmindex, k)] = <<cshmindex.n, k>>
        /\ IFrameFaithful

\* A successful store moves read_offset to the end of the frame just stored,
\* wherever the frame lies, and nothing else moves it.
ReleasesStoredFrame ==
    [][read_offset' # read_offset =>
         /\ pc = "store"
         /\ read_offset' % Capacity =
              (cshmindex.offset + cshmindex.lenth) % Capacity]_vars

\* Every frame is taken once another has followed it, whether frames are stored or
\* not: again and again none is waiting, or one is taken.
EveryFrameIsTaken ==
    []<>(made <= taken + 1) \/ []<><<taken' = taken + 1>>_taken

\* Was the space of the frame taken last not released?  That of a P frame always is.
Unreleased ==
    /\ pc = "index" /\ taken > 0 /\ cshmindex.type # "P"
    /\ read_offset % Capacity # (cshmindex.offset + cshmindex.lenth) % Capacity

\* The encoder is never held up for good, for want of a slot or of space, unless the
\* frames taken last were not stored: storing one releases all that were left.
EncoderGoesOn == <>(made = MaxFrames) \/ <>[]Unreleased
=============================================================================
