SPECIFICATION FairSpec
CONSTANTS
    i1 = i1
    i2 = i2
    k1 = k1
    k2 = k2
    k3 = k3
    h1 = h1
    h2 = h2
    h3 = h3
    Ingestors <- OneIngestor
    Keys <- ThreeKeys
    Entries = 5
    KeyOf <- MixedKeys
    HashOf <- MixedHashes
    Undecodable <- Fifth
    MongoRejects <- Third
    MongoRaises <- First
    GraphRejects <- Second
    ReadCount = 2
    ReclaimMax = 2
    DeliveryLimit = 2
    OutageThreshold = 4
    MaxFaults = 1
    MaxCrashes = 1
INVARIANTS InnocentNotParked
PROPERTIES EveryEntrySettles
CHECK_DEADLOCK FALSE
