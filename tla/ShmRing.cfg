\* Both rings, all frame types, failing stores.
SPECIFICATION FairSpec
CONSTANTS
    SHM_INDEX_NUM = 4
    SHM_HEAD_SIZE = 1
    SHM_DAT_TOTAL_SIZE = 17
    FRAME_START_FLAG = 2
    HEADER_SIZE = 2
    RTC_SIZE = 1
    PACKET_SIZE = 7
    Types = {"I", "P", "A"}
    Lens = {5, 6}
    StoreMayFail = TRUE
    MaxFrames = 7
INVARIANTS
    TypeOK
    RecordsInOrder
    TakenFrameIsThere
    UncopiedFramesIntact
    PacketFaithfulUnlessFlagSplit
PROPERTIES
    ReleasesStoredFrame
    EveryFrameIsTaken
    EncoderGoesOn
\* The encoder's bound stops the system.
CHECK_DEADLOCK FALSE
