\* Outcomes over every history of six kinds of bar; the clock stops at minute 4.
CONSTANTS
    None = None
    Symbols <- OneSymbol
    Directions <- MCDirections
    Candidates <- BothDirections
    Bars <- AllBars
    Limit = 1000
    NearScale = 100
    MaxMinute = 4
    MaxCrashes = 1
SPECIFICATION Spec
INVARIANTS TypeOK ResolvedAtFirstDecisiveBar Target1CreditIsEarned FlagsAgreeWithOutcome
PROPERTIES ImplementsPaperBook
