\* An I frame whose start flag the end of the ring splits.
SPECIFICATION Spec
CONSTANTS
    SHM_INDEX_NUM = 4
    SHM_HEAD_SIZE = 1
    SHM_DAT_TOTAL_SIZE = 17
    FRAME_START_FLAG = 2
    HEADER_SIZE = 2
    RTC_SIZE = 1
    PACKET_SIZE = 7
    Types = {"I", "P"}
    Lens = {5, 6}
    StoreMayFail = FALSE
    MaxFrames = 7
INVARIANTS
    IFrameFaithful
\* The encoder's bound stops the system.
CHECK_DEADLOCK FALSE
