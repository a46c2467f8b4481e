\* The runner and a page run one at a time and die anywhere, inside a rewrite
\* too: the lines they leave are cut wherever a buffer may end.
CONSTANTS
    None = None
    runner = runner
    page = page
    Symbols <- MCSymbols
    Directions <- MCDirections
    Runners <- OneRunner
    Pages <- OnePage
    Alerts <- TwoEntries
    Prices <- ThreePrices
    OneAtATime = TRUE
    Overlaps = FALSE
    TornWrites = TRUE
    Fresh = TRUE
    MaxAlerts = 2
    MaxCrashes = 2
SPECIFICATION Spec
INVARIANTS TypeOK OneOpenPerSide PlansSurvive
