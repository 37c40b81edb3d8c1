SPECIFICATION Spec
CONSTANTS
    None = None
    FirstPlausible = 60
    LastPlausible = 100
    Releases <- MCReleases
    Backlog <- MCBacklog
    StartDay = 83
    EndDay = 84
    RECENT_DAYS = 6
    BATCH_SIZE = 3
    ITMS_MAX_ITEMS = 2
    MAX_NOTICES_PER_SUPPLIER_ICO = 3
    Modes <- MCModes
    MaxFaults = 1
    DaysPerMonth = 2
    DEFAULT_WINDOW_YEARS = 1
    MAX_SPAN_YEARS = 2
    EARLIEST_YEAR = 1
    TopSize = 10
    SUPPLIER_CONCENTRATION_MIN_SUPPLIERS = 2
    SUPPLIER_CONCENTRATION_MIN_VALUE = 10
    REPEAT_PAIR_MIN_COUNTERPARTIES = 2
    REPEAT_PAIR_MIN_VALUE = 5
    MARKET_MIN_CONTRACTS = 2
    AWARD_CLUSTER_COUNT = 2
    AWARD_CLUSTER_WINDOW_DAYS = 2
    LOW_VALUE_CEILING = 20
    LOW_VALUE_CEILING_WORKS = 30
    LOW_VALUE_FLOOR = 2
    Works = "45"
    FrameworkMarkers = {"framework"}
    Icos = {"p1", "p2", "s1", "s2"}
    Filters <- MCFilters
INVARIANTS
    TypeOK
    LossExplained
    GraphFollowsStore
    CollapseIsSequential
    DashboardsAgree
    ProfilesAgree
    RiskSound
CHECK_DEADLOCK FALSE
