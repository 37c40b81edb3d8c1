\* Vestnik with a listing longer than a page: a dataset changed between two
\* pages moves the rows behind it one place forward, over the offset.
SPECIFICATION Spec
CONSTANTS
    e1 = e1
    e2 = e2
    Free = Free
    Orphan = Orphan
    Instances <- OneInstance
    Strategies <- VestnikOnly
    Records = 2
    Untransformable <- None
    PageSize = 1
    FlushBatch = 1
    Overlap = 0
    Day = 2
    MaxClock = 2
    MaxFaults = 0
INVARIANTS NothingMissed
