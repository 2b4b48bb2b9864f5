\* Every listing of up to five segments, with equal start times among them.
SPECIFICATION FairSpec
CONSTANTS
    Times = {1, 2, 3}
    MaxSegs = 5
INVARIANTS
    TypeOK
    SortedAtEnd
    NothingLostOrDoubled
PROPERTIES
    SortEnds
\* The sort returns.
CHECK_DEADLOCK FALSE
