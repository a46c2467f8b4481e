\* One stock, every chart, indicator and swing of the module; trends in conflict too.
CONSTANTS
    None = None
    Symbols <- OneSymbol
    Closes <- MCCloses
    Swings <- MCSwings
    Evidence <- MCEvidence
    Trends <- MCTrends
    Charts <- MCCharts
    MaxAnalyses = 2
    MaxConnections = 2
SPECIFICATION Spec
INVARIANTS ConflictFallsBack
\* The analyses are bounded; in the end only the prices move on.
CHECK_DEADLOCK FALSE
