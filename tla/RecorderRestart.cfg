\* The first I frame after a restart.
SPECIFICATION Spec
CONSTANTS
    Channels = {1}
    CHANNEL_CNT = 2
    SEG_TIME = 2
    MAX_GAP = 1
    DAY_LEN = 4
    RtcMayBeBad = FALSE
    OpenMayFail = FALSE
    DiskMayFill = FALSE
    RenameMayFail = FALSE
    ClockMayStepBack = FALSE
    MaxTime = 6
    MaxFrames = 4
    MaxCrashes = 1
INVARIANTS
    TmpIsOpenedAgain
\* The bounds stop the system.
CHECK_DEADLOCK FALSE
