\* Each part of the process by itself, in one run.
SPECIFICATION MCSpec
CONSTANTS
    \* a monitor and one more client; what is cached and what is asked last a tick
    Visit = {1, 2}
    CacheMs = 1
    RpcMs = 1
    MaxOutages = 2
    \* three clients for a table of two, windows of two ticks, two and a half windows long
    demands1 = demands1
    insights1 = insights1
    insights2 = insights2
    Client = {demands1, insights1, insights2}
    Limit <- MCLimit
    RateMaxKeys = 2
    RateWindow = 2
    MaxTime = 4
    \* two services, one probe at a time and one left over by a failure
    Service = {1, 2}
    Content = {c1, c2}
    Slot = {1, 2}
    NoService = NoService
    RefreshMs = 1
    StaleMs = 2
    MaxProbes = 1
    MaxRevision = 2
    MaxVersion = 3
    MaxIncidents = 1
    \* two demands one after the other, or for two keys
    DemandKey = {k1, k2}
    Supporter = {s1, s2}
    Amount = {1}
    MaxDemands = 2
    MaxEvents = 6
    MaxClock = 3
    Term = 2
    Trailing = 1
    Started = 1
    \* three demands that agree or differ in every factor
    DemandId = {1, 2, 3}
    Factors <- MCFactors
    MinBounties = {0, 1}
    Horizon = 4
    NowUnix = 2
    LastDate = 6
    Day = 3
    Grain = 3
    \* three demands on the page, more than the analytics show
    Listed = {1, 2, 3}
    ListedStatus = {"OPEN", "FULFILLED"}
    ListedEscrow = {0, 1}
    MostEscrow = 2
    Latest = 1
    \* three services, two in an answer; two fetches at once
    Candidate = {1, 2, 3}
    n1 = n1
    n2 = n2
    usdc = usdc
    OfferNetwork = {n1, n2}
    OfferAsset = {usdc}
    OfferAmount = {1, 2}
    AnyValue = AnyValue
    ServiceRow <- MCRow
    ServicesShown = 2
    MaxFetches = 2
CHECK_DEADLOCK FALSE
INVARIANTS
    CleanExit
    QuotaHolds
    ShownIsCurrent
    AnswerAddsUp
    ListsAreSound
PROPERTIES
    ReadyIsTrue
    EveryServiceProbed
