\* Two channels, two days, and a crash at any step.
SPECIFICATION Spec
CONSTANTS
    c1 = c1
    c2 = c2
    Channels = {c1, c2}
    CHANNEL_CNT = 2
    SEG_TIME = 2
    MAX_GAP = 1
    DAY_LEN = 3
    RtcMayBeBad = FALSE
    OpenMayFail = FALSE
    DiskMayFill = FALSE
    RenameMayFail = FALSE
    ClockMayStepBack = FALSE
    MaxTime = 5
    MaxFrames = 5
    MaxCrashes = 1
SYMMETRY Symmetry
INVARIANTS
    TypeOK
    SegmentsContinuous
    IndexPointsAtFrame
    SealedNamesTrue
    SegmentsDisjoint
    FilesPaired
    StoredOnceInOrder
    AcceptedIsStored
PROPERTIES
    SealedIsFinal
    KeepsSegmentLog
\* The bounds stop the system.
CHECK_DEADLOCK FALSE
