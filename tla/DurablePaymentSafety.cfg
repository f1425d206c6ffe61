\* Two requests, two authorizations, one key, two transactions; the clock runs
\* past the expiry and the retention, and the process is killed once.
SPECIFICATION Spec
CONSTANTS
    Handler = {h1, h2}
    Auth = {a1, a2}
    LogicalKey = {k1}
    Hash = {x1, x2}
    NoHandler = NoHandler
    NoKey = NoKey
    NoHash = NoHash
    NoAuth = NoAuth
    Expiry = 1
    ValidBefore <- MCValidBefore
    Retention = 0
    MaxRecords = 2
    MaxTime = 2
    MaxRestarts = 1
SYMMETRY Symmetric
INVARIANTS
    HandedOnce
    SettledIsCharged
PROPERTIES
    TerminalHolds
    PaysOnce
