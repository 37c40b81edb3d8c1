\* Two worker processes of one source, whose lock may run out under a cycle.
SPECIFICATION Spec
CONSTANTS
    e1 = e1
    e2 = e2
    Free = Free
    Orphan = Orphan
    Instances <- TwoInstances
    Strategies <- NotVestnik
    Records = 3
    Untransformable <- First
    PageSize = 2
    FlushBatch = 1
    Overlap = 0
    Day = 1
    MaxClock = 2
    MaxFaults = 1
SYMMETRY Processes
INVARIANTS NothingMissed
PROPERTIES ReleaseOwnOnly
