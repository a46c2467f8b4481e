\* The cycles of the runner and of a page interleave, and either dies; no method
\* is interrupted on the file.
CONSTANTS
    None = None
    runner = runner
    page = page
    Symbols <- MCSymbols
    Directions <- MCDirections
    Runners <- OneRunner
    Pages <- OnePage
    Alerts <- TwoSides
    Prices <- EndPrices
    OneAtATime = FALSE
    Overlaps = FALSE
    TornWrites = FALSE
    Fresh = TRUE
    MaxAlerts = 2
    MaxCrashes = 1
SPECIFICATION Spec
INVARIANTS NothingLost OutcomesFitPlans
PROPERTIES ClosedForGood
