\* A plan whose levels are first touched after the bars of one request.
CONSTANTS
    None = None
    Symbols <- OneSymbol
    Directions <- MCDirections
    Candidates <- OneLong
    Bars <- FewBars
    Limit = 1
    NearScale = 100
    MaxMinute = 4
    MaxCrashes = 0
SPECIFICATION FairSpec
PROPERTIES EveryDecidedPlanCloses
