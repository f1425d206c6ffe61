\* A worker, a paid request, the operator and a crash, against a chain that
\* grows and reorganises.
SPECIFICATION FairSpec
CONSTANTS
    g = g
    a1 = a1
    a2 = a2
    a3 = a3
    b1 = b1
    b2 = b2
    e1 = e1
    e2 = e2
    e3 = e3
    e4 = e4
    Query = {"q1"}
    Event = {e1, e2, e3, e4}
    Creates = {e1, e4}
    NoBlock = NoBlock
    Block = {g, a1, a2, a3, b1, b2}
    Genesis = g
    Height <- MCHeight
    Past <- MCPast
    Log <- MCLog
    DeployBlock = 1
    LogWindow = 2
    IndexMaxLogWindows = 1
    IndexMaxDemands = 1
    MaxEvents = 3
    MaxFailures = 1
    MaxRestarts = 1
\* The scheduler stops when the store throws, and the chain may be at its end.
CHECK_DEADLOCK FALSE
INVARIANTS
    HistoryIsTrue
PROPERTIES
    HistoryKept
    ComesBack
