\* Two requests refresh the index, or two refreshes and a poll the board, while
\* the chain grows and reorganises; calls return or fail.
SPECIFICATION MCSpec
CONSTANTS
    r1 = r1
    r2 = r2
    g = g
    a1 = a1
    a2 = a2
    a3 = a3
    b1 = b1
    b2 = b2
    NoBlock = NoBlock
    Block = {g, a1, a2, a3, b1}
    Genesis = g
    Height <- MCHeight
    Past <- MCPast
    NextDemandId <- MCNextDemandId
    Touched <- MCTouched
    EventCount <- MCEventCount
    Request = {r1, r2}
    NoRequest = NoRequest
    Part = {"demand"}
    LogWindow = 1
    IndexMaxLogWindows = 2
    IndexMaxDemands = 2
    MaxFailures = 1
    BoardBlocks = {g, a1, a2, b1}
    MarketLogRange = 1
    MarketMaxLogRanges = 1
    CheckpointHolds = TRUE
    MaxRefreshes = 2
    MaxReadFailures = 1
CHECK_DEADLOCK FALSE
INVARIANTS
    SnapshotOfBlock
    BoardIsOfCursor
    BoardTellsTruth
PROPERTIES
    NothingGoesBack
    ReadersCatchUp
