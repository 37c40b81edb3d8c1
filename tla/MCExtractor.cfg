\* Every strategy, one worker process, a failing call or death.
SPECIFICATION FairSpec
CONSTANTS
    e1 = e1
    e2 = e2
    Free = Free
    Orphan = Orphan
    Instances <- OneInstance
    Strategies <- AllStrategies
    Records = 2
    Untransformable <- None
    PageSize = 2
    FlushBatch = 1
    Overlap = 1
    Day = 2
    MaxClock = 3
    MaxFaults = 2
INVARIANTS TypeOK 
 
