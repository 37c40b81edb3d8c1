SPECIFICATION FairSpec
CONSTANTS
    None = None
    MAX_NOTICES_PER_SUPPLIER_ICO = 3
    Instances = {i1}
    Free = Free
    Orphan = Orphan
    a = a
    b = b
    c = c
    d = d
    k = k
    s = s
    proc = proc
    supp = supp
    Ids <- MCIds
    Versions <- MCVersions
    Window = {a, b, c, d}
    Initially = {b, c}
    MaxFaults = 1
INVARIANTS
    TypeOK
    NothingLeftUnmatched
PROPERTIES
    GroupsSound
    SettledKept
    DuplicatesFound
    StatsCatchUp
CHECK_DEADLOCK FALSE
