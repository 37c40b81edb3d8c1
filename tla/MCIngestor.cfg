SPECIFICATION Spec
CONSTANTS
    i1 = i1
    i2 = i2
    k1 = k1
    k2 = k2
    k3 = k3
    h1 = h1
    h2 = h2
    h3 = h3
    Ingestors <- TwoIngestors
    Keys <- TwoKeys
    Entries = 3
    KeyOf <- RevertedKeys
    HashOf <- RevertedHashes
    Undecodable <- None
    MongoRejects <- None
    MongoRaises <- None
    GraphRejects <- None
    ReadCount = 2
    ReclaimMax = 5
    DeliveryLimit = 2
    OutageThreshold = 2
    MaxFaults = 1
    MaxCrashes = 1
INVARIANTS TypeOK AckedInBothStores RegistryBacked
PROPERTIES PromiseKept
SYMMETRY Symmetry
CHECK_DEADLOCK FALSE
