\* The displayed plan is not the one the row was recorded with.
CONSTANTS
    None = None
    tab1 = tab1
    tab2 = tab2
    Symbols <- MCSymbols
    Directions <- MCDirections
    Sessions <- OneTab
    Candidates <- TwoRanges
    Prices <- NarrowPrices
    NearScale = 2000
    MaxScans = 2
    MaxCrashes = 0
SPECIFICATION Spec
INVARIANTS ClosedOnItsOwnPlan
\* No user need click and no price need move: the page may stay as it is.
CHECK_DEADLOCK FALSE
