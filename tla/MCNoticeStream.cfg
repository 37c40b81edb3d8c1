SPECIFICATION FairSpec
CONSTANTS
    p1 = p1
    p2 = p2
    t1 = t1
    Producers <- MCProducers
    Trimmers <- MCTrimmers
    HighWater = 2
    Batch = 2
    MaxLen = 5
    ReadCount = 2
    MaxPolls = 1
    MaxAdded = 7
INVARIANTS TypeOK UnreadKept NothingSkipped BacklogBounded
PROPERTIES TrimOnlyAcked FlushEnds
