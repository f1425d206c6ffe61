\* Each part by itself: a paid request with a rival for the same authorization,
\* against the operator, the failures of the store and one crash; three requests
\* for two slots, each on either route; two observations and two calls for one
\* place.
SPECIFICATION MCSpec
CONSTANTS
    Handler = {h1, h2}
    Auth = {a1}
    LogicalKey = {k1}
    Hash = {x1, x2}
    NoHandler = NoHandler
    NoKey = NoKey
    NoHash = NoHash
    NoAuth = NoAuth
    Expiry = 1
    ValidBefore <- MCValidBefore
    Retention = 0
    MaxRecords = 1
    MaxTime = 2
    MaxRestarts = 1
    Call = {r1, r2, r3}
    MaxInFlight = 2
    Ask = {1, 2}
    MaxObservations = 1
    Upstream = {1, 2}
    MaxFetches = 1
    FetchMs = 2
    DeadlineMs = 1
CHECK_DEADLOCK FALSE
INVARIANT HandlersHoldSlots
PROPERTY NothingIsKept
