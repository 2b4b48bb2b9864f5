\* open(), write(), rename() and the frame's clock fail, the clock is set back, and
\* there is a slot too few.
SPECIFICATION Spec
CONSTANTS
    c1 = c1
    c2 = c2
    Channels = {c1, c2}
    CHANNEL_CNT = 1
    SEG_TIME = 2
    MAX_GAP = 1
    DAY_LEN = 3
    RtcMayBeBad = TRUE
    OpenMayFail = TRUE
    DiskMayFill = TRUE
    RenameMayFail = TRUE
    ClockMayStepBack = TRUE
    MaxTime = 3
    MaxFrames = 4
    MaxCrashes = 0
SYMMETRY Symmetry
INVARIANTS
    SlotsOwnTheirFiles
\* The bounds stop the system.
CHECK_DEADLOCK FALSE
