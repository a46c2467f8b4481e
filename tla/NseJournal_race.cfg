\* The runner starts while the page is inside a rewrite: a row is lost.
CONSTANTS
    None = None
    runner = runner
    page = page
    Symbols <- MCSymbols
    Directions <- MCDirections
    Runners <- OneRunner
    Pages <- OnePage
    Alerts <- OneAlert
    Prices <- FewPrices
    OneAtATime = FALSE
    Overlaps = TRUE
    TornWrites = FALSE
    Fresh = FALSE
    MaxAlerts = 2
    MaxCrashes = 0
SPECIFICATION Spec
INVARIANTS NothingLost
