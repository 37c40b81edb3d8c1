SPECIFICATION FairSpec
CONSTANTS
    i1 = i1
    i2 = i2
    k1 = k1
    k2 = k2
    k3 = k3
    h1 = h1
    h2 = h2
    h3 = h3
    Ingestors <- OneIngestor
    Keys <- ThreeKeys
    Entries = 3
    KeyOf <- DistinctKeys
    HashOf <- UpdatedHashes
    Undecodable <- None
    MongoRejects <- None
    MongoRaises <- None
    GraphRejects <- FirstThree
    ReadCount = 2
    ReclaimMax = 5
    DeliveryLimit = 2
    OutageThreshold = 3
    MaxFaults = 0
    MaxCrashes = 0
PROPERTIES EveryEntrySettles
CHECK_DEADLOCK FALSE
