\* write() fails.
SPECIFICATION Spec
CONSTANTS
    Channels = {1}
    CHANNEL_CNT = 2
    SEG_TIME = 2
    MAX_GAP = 1
    DAY_LEN = 4
    RtcMayBeBad = FALSE
    OpenMayFail = FALSE
    DiskMayFill = TRUE
    RenameMayFail = FALSE
    ClockMayStepBack = FALSE
    MaxTime = 6
    MaxFrames = 3
    MaxCrashes = 0
INVARIANTS
    AcceptedIsStored
\* The bounds stop the system.
CHECK_DEADLOCK FALSE
