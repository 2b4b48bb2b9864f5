\* A day that has no sealed segment yet, after one that has.
SPECIFICATION Spec
CONSTANTS
    MaxTime = 1
    MaxSegs = 1
    HOUR = 1
INVARIANTS
    TmpOnlyDayListsNothing
CHECK_DEADLOCK FALSE
