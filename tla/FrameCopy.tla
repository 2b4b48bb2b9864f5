------------------------------ MODULE FrameCopy ------------------------------
(***************************************************************************)
(* The copy get_one_frame makes of one frame out of the frame ring         *)
(* (p4storagefun.c:147-244), as operators over the ring's memory.          *)
(*                                                                         *)
(* The ring occupies addresses SHM_HEAD_SIZE .. SHM_DAT_TOTAL_SIZE - 1 of  *)
(* the shared segment.  A frame of length lenth starts with a flag of      *)
(* FRAME_START_FLAG bytes, which is not copied, followed by a header of    *)
(* HEADER_SIZE bytes (RMSTREAM_HEADER and RMFI2_VIDEOINFO) and the body.   *)
(* It is copied to a FRAME_PACKET (p4storage.h:99-105): header, room for   *)
(* RTC_SIZE bytes of RMFI2_RTCTIME, which a P frame does not bring along,  *)
(* and the rest.  The start flag is left behind, so byte k of an I frame   *)
(* goes to byte k - FRAME_START_FLAG of the packet; but the place of a     *)
(* P frame's body (tmp3 in the code) counts the flag in, and is            *)
(* FRAME_START_FLAG bytes behind the one storage_one_frame writes it from. *)
(*                                                                         *)
(* A definition marked "fault" here and in the other modules is no part of *)
(* the model: it is the next definition with a bug put in, to show that a  *)
(* property can tell the two apart.                                        *)
(***************************************************************************)
EXTENDS Naturals

CONSTANTS SHM_HEAD_SIZE,        \* bytes of the ring's two offsets
          SHM_DAT_TOTAL_SIZE,   \* size of the segment, i.e. its end address
          FRAME_START_FLAG,     \* bytes of the start flag of a frame
          HEADER_SIZE,          \* bytes of stream header and video info
          RTC_SIZE,             \* bytes of the RTC info of an I frame
          PACKET_SIZE           \* bytes of a FRAME_PACKET

ASSUME FrameCopyAssumption ==
    /\ SHM_HEAD_SIZE \in Nat /\ SHM_DAT_TOTAL_SIZE \in Nat
    /\ SHM_HEAD_SIZE < SHM_DAT_TOTAL_SIZE
    /\ FRAME_START_FLAG \in Nat \ {0} /\ HEADER_SIZE \in Nat \ {0}
    /\ RTC_SIZE \in Nat /\ PACKET_SIZE \in Nat

\* What lies outside the ring, and in a packet not copied to: no cell of a frame.
Outside == <<0, 0>>

\* FRAME_PACKET packet1 = {0}.
Blank == [i \in 0 .. PACKET_SIZE - 1 |-> Outside]

IsPacket(p) == DOMAIN p = 0 .. PACKET_SIZE - 1

\* memcpy of k bytes from address a of the segment to byte at of the packet.
Copy(packet, at, mem, a, k) ==
    [i \in DOMAIN packet |->
        IF i \in at .. at + k - 1
        THEN IF a + (i - at) \in DOMAIN mem THEN mem[a + (i - at)] ELSE Outside
        ELSE packet[i]]

\* Flag and header of a frame (tmp1 in the code), and where the body of a P frame
\* goes in the packet (tmp3).
BodyStart  == FRAME_START_FLAG + HEADER_SIZE
PBodyPlace == BodyStart + RTC_SIZE

\* Bytes of a frame before the end of the ring, and those after its start.
ToEndLen(rec)     == SHM_DAT_TOTAL_SIZE - rec.offset
FromStartLen(rec) == rec.lenth - ToEndLen(rec)

\* Where a frame that goes on at the start of the ring ends.
WrappedEndNoHead(rec) == FromStartLen(rec)      \* fault: the head is forgotten
WrappedEnd(rec)       == SHM_HEAD_SIZE + FromStartLen(rec)

RunsPastEnd(rec)  == rec.offset + rec.lenth > SHM_DAT_TOTAL_SIZE

\* Does the end of the ring fall inside the frame's start flag?
FlagSplit(rec) == RunsPastEnd(rec) /\ ToEndLen(rec) < FRAME_START_FLAG

\* The frame lies in one piece.  Neither branch matches an audio frame.
ContiguousCopy(packet, mem, rec) ==
    LET header == Copy(packet, 0, mem, rec.offset + FRAME_START_FLAG, HEADER_SIZE)
    IN  CASE rec.type = "P" ->
                Copy(header, PBodyPlace, mem, rec.offset + BodyStart,
                     rec.lenth - BodyStart)
          [] rec.type = "I" ->
                Copy(packet, 0, mem, rec.offset + FRAME_START_FLAG,
                     rec.lenth - FRAME_START_FLAG)
          [] OTHER -> packet

\* The end of the ring falls inside the start flag.
SplitFlagCopy(packet, mem, rec) ==
    LET tmp    == FromStartLen(rec) + (FRAME_START_FLAG - ToEndLen(rec))
        header == Copy(packet, 0, mem, SHM_HEAD_SIZE + tmp, HEADER_SIZE)
    IN  IF rec.type = "P"
        THEN Copy(header, PBodyPlace, mem, SHM_HEAD_SIZE + tmp + HEADER_SIZE,
                  rec.lenth - BodyStart)
        ELSE Copy(packet, 0, mem, SHM_HEAD_SIZE + tmp, rec.lenth - FRAME_START_FLAG)

\* Fault: the part of the header already copied is copied again into the body.
SplitHeaderCopyRereads(packet, mem, rec) ==
    LET tmp  == BodyStart - ToEndLen(rec)
        part == Copy(packet, 0, mem, rec.offset + FRAME_START_FLAG,
                     ToEndLen(rec) - FRAME_START_FLAG)
        header == Copy(part, ToEndLen(rec) - FRAME_START_FLAG, mem, SHM_HEAD_SIZE, tmp)
    IN  Copy(header, PBodyPlace, mem, SHM_HEAD_SIZE, rec.lenth - BodyStart)

\* The end of the ring falls inside the header of a P frame.
SplitHeaderCopy(packet, mem, rec) ==
    LET tmp  == BodyStart - ToEndLen(rec)
        part == Copy(packet, 0, mem, rec.offset + FRAME_START_FLAG,
                     ToEndLen(rec) - FRAME_START_FLAG)
        header == Copy(part, ToEndLen(rec) - FRAME_START_FLAG, mem, SHM_HEAD_SIZE, tmp)
    IN  Copy(header, PBodyPlace, mem, SHM_HEAD_SIZE + tmp, rec.lenth - BodyStart)

\* The end of the ring falls inside the body of a P frame.
SplitBodyCopy(packet, mem, rec) ==
    LET tmp    == ToEndLen(rec) - BodyStart
        header == Copy(packet, 0, mem, rec.offset + FRAME_START_FLAG, HEADER_SIZE)
        part   == Copy(header, PBodyPlace, mem, rec.offset + BodyStart, tmp)
    IN  Copy(part, PBodyPlace + tmp, mem, SHM_HEAD_SIZE, FromStartLen(rec))

\* The end of the ring falls anywhere behind the flag of an I frame.
SplitIFrameCopy(packet, mem, rec) ==
    LET tmp  == ToEndLen(rec) - FRAME_START_FLAG
        part == Copy(packet, 0, mem, rec.offset + FRAME_START_FLAG, tmp)
    IN  Copy(part, tmp, mem, SHM_HEAD_SIZE, FromStartLen(rec))

WrappedCopy(packet, mem, rec) ==
    CASE rec.type \notin {"I", "P"}                      -> packet
      [] rec.type \in {"I", "P"} /\ ToEndLen(rec) < FRAME_START_FLAG
                                    -> SplitFlagCopy(packet, mem, rec)
      [] rec.type = "I" /\ ToEndLen(rec) >= FRAME_START_FLAG
                                    -> SplitIFrameCopy(packet, mem, rec)
      [] rec.type = "P" /\ ToEndLen(rec) >= BodyStart
                                    -> SplitBodyCopy(packet, mem, rec)
      [] rec.type = "P" /\ ToEndLen(rec) \in FRAME_START_FLAG .. BodyStart - 1
                                    -> SplitHeaderCopy(packet, mem, rec)

\* The bytes storage_one_frame writes of the packet, in one piece for an I frame,
\* in two for a P frame.
Stored(packet, rec) ==
    [i \in 1 .. rec.lenth - FRAME_START_FLAG |->
        IF rec.type = "P" /\ i > HEADER_SIZE THEN packet[i - 1 + RTC_SIZE]
                                             ELSE packet[i - 1]]
=============================================================================
