\* Registration, heartbeats and log lines: two starts of the process, two servers, a
\* change of the day, and a thread that converts times meanwhile.
SPECIFICATION LinkSpec
CONSTANTS
    Threads = {"main", "heart", "video", "terminal", "collect"}
    Files = {"storage", "center", "video", "device", "net"}
    Converted = {1}
    Converters = {"terminal"}
    DAY_LEN = 2
    MaxTime = 2
    Tags = {"VIM", "other"}
    QUEUE = 2
    MaxSent = 2
    MaxStarts = 2
    MaxServers = 2
INVARIANTS
    TypeOK
    HeartsAreRegistered
    CollectedInOrder
PROPERTIES
    LineLandsInItsDay
    LinesGetLogged
    HeartsGoOn
\* Nobody may start the process again.
CHECK_DEADLOCK FALSE
