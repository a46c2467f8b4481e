\* Two sessions on one journal and a restart: closed rows stay closed, marked
\* rows get closed.
CONSTANTS
    None = None
    tab1 = tab1
    tab2 = tab2
    Symbols <- MCSymbols
    Directions <- MCDirections
    Sessions <- TwoTabs
    Candidates <- TwoCoins
    Prices <- MCPrices
    NearScale = 2000
    MaxScans = 2
    MaxCrashes = 1
SPECIFICATION FairSpec
INVARIANTS TypeOK
PROPERTIES ClosedForGood MarkedRowsClose
\* No user need click and no price need move: the page may stay as it is.
CHECK_DEADLOCK FALSE
