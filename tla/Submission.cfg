\* Two attempts at one demand, one slot at the service, one reorganisation and
\* one change of key; authorizations of two ticks, in a time of three.
SPECIFICATION MCSpec
CONSTANTS
    a1 = a1
    a2 = a2
    w1 = w1
    w2 = w2
    p1 = p1
    p2 = p2
    k1 = k1
    k2 = k2
    Attempt = {a1, a2}
    NoAttempt = NoAttempt
    WalletOf <- MCWalletOf
    PayTo <- MCPayTo
    Policy <- MCPolicy
    MaxUnitPrice = 1
    Reply <- MCReply
    NoReply = NoReply
    FirstKey = k1
    Key = {k1, k2}
    MaxInFlight = 1
    AuthLifetime = 2
    MaxWindow = 2
    ClockSkew = 0
    Deadline = 3
    MaxNonce = 2
    MaxBlocks = 4
    MaxReorgs = 1
    MaxTime = 2
    SampleOffer <- MCSampleOffer
    SampleLength = 3
CHECK_DEADLOCK FALSE
INVARIANTS
    LoopFindsIt
    AcceptedAsAgreed
PROPERTY CapacityReturns
