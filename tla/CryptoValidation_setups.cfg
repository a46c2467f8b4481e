\* Which alerts become rows (setups near each other, two symbols, a low score),
\* and that decided ones close, with failing requests and a crash.
CONSTANTS
    None = None
    Symbols <- TwoSymbols
    Directions <- MCDirections
    Candidates <- NearSetups
    Bars <- TwoBars
    Limit = 1
    NearScale = 100
    MaxMinute = 3
    MaxCrashes = 1
SPECIFICATION FairSpec
INVARIANTS NoDuplicateOpenPlan
PROPERTIES DecidedPlanCloses
