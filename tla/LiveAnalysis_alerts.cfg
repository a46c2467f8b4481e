\* Two stocks, prices that move between the requests, bullish and bearish
\* evidence that the longer timeframes contradict, and a second connection.
CONSTANTS
    None = None
    Symbols <- TwoSymbols
    Closes <- MCCloses
    Swings <- OneSwing
    Evidence <- Mirrored
    Trends <- Divided
    Charts <- Opposed
    MaxAnalyses = 3
    MaxConnections = 2
SPECIFICATION Spec
INVARIANTS TypeOK TradesAreSound AnnouncedOnce ChangesAnnounced
\* The analyses are bounded; in the end only the prices move on.
CHECK_DEADLOCK FALSE
