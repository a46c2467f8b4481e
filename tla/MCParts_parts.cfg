\* The parts that run on their own: the repository's automation, the monitor,
\* the performance store, the scanners, the long-term pages, the IPO page and
\* the broker connections of two tabs that take turns.
CONSTANTS
    infy = infy
    tcs = tcs
    sbin = sbin
    hdfc = hdfc
    alert = alert
    d1 = d1
    d2 = d2
    NoSymbol = NoSymbol
    None = None
    groww = groww
    upstox = upstox
    NoPlan = NoPlan
    Missing = Missing
    NoDate = NoDate
    Daemons = {d1, d2}
    Alerts = {alert}
    MaxCommits = 3
    MaxStarts = 3
    MaxEdits = 2
    Symbols <- MCSymbols
    Inputs <- MCInputs
    normalized <- MCNormalized
    Session <- MCSession
    Interval = 2
    MaxWork = 3
    MaxTime = 6
    MaxChanges = 3
    Observations <- MCObservations
    Horizons <- MCHorizons
    MaxRecords = 2
    Readings <- MCReadings
    Frames <- MCFrames
    FallbackUniverse <- MCFallback
    ActiveLists <- MCActiveLists
    StockReadings <- MCStockReadings
    sector <- MCSector
    UniverseCap = 3
    ScanLimit = 3
    AlertLimit = 1
    SectorLimit = 1
    CacheAge = 2
    MaxSeconds = 3
    SwingUniverse <- MCSwingUniverse
    Workbooks <- MCWorkbooks
    DailyReadings <- MCDailyReadings
    SwingLimit = 1
    MaxLoads = 2
    ResearchUniverse <- MCResearchUniverse
    Companies <- MCCompanies
    SectorTop = 2
    CandidateLimit = 2
    MaxChurn = 2
    Calendars <- MCCalendars
    FALLBACK_IPOS <- MCFallbackIpos
    LastDay = 5
    Tabs = {tab1, tab2}
    Brokers <- MCBrokers
    Environments <- MCEnvironments
    Misconfigured <- MCMisconfigured
    OneAtATime = TRUE
    MaxClicks = 5
SPECIFICATION PartsSpec
INVARIANTS TypeOK SessionFollowsActive OneBrokerConnected OneDaemon DependenciesFollow RestsOnSchedule ServedInTurn HitsAgreeWithExcursion RatesAreNested ReadableIsComplete MarksAgree NearestLevelsShown UniverseIsRecent NoStockLost SegmentsShowTheirBest NothingSilent BetterIsNotOutranked TimeLeftIsTrue
PROPERTIES NoCommitLost CatchesUp
\* Clocks, commits and loads are bounded.
CHECK_DEADLOCK FALSE
