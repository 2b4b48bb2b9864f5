\* Two threads that use the static struct tm.
SPECIFICATION Spec
CONSTANTS
    Threads = {"video", "terminal"}
    Files = {"storage"}
    Converted = {1, 2}
    DAY_LEN = 3
    MaxTime = 2
INVARIANTS
    ConvertsItsTime
