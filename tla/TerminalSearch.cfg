\* The terminal searches the day that is being recorded.
SPECIFICATION TerminalSpec
CONSTANTS
    MaxTime = 4
    MaxSegs = 3
    HOUR = 2
    MAX_GAP = 2
    SEG_TIME = 3
    I_PER_SECOND = 2
    MaxRecords = 3
INVARIANTS
    TypeOK
    TerminalTypeOK
    PrintsInterval
    TmpSearchedWhenBeyond
    NextSegmentExists
    ShowsEveryFrame
    ShowsOnlyInterval
PROPERTIES
    RecordsStay
    SearchEnds
\* The terminal may crash, and search tmp.h264 for ever.
CHECK_DEADLOCK FALSE
