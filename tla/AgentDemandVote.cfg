\* One demand, three supporters, two submissions: votes, refunds, settlement.
SPECIFICATION Spec
CONSTANTS
    Account = {a1, a2, a3}
    Treasury = treasury
    Escrow = escrow
    Admin = admin
    v1 = v1
    Verifier = {v1}
    NoOne = NoOne
    Key = {k1}
    MinCommitment = 5
    FeeBps = 1000
    QuorumBps = 6000
    ReviewPeriod = 2
    SettlementGrace = 1
    MinLead = 1
    ClockSkew = 1
    MaxWindow = 4
    MaxUint96 = 11
    MaxUint128 = 18
    Amount = {5, 7}
    Deadline = {3}
    Attestation <- LongAttestations
    InitialBalance = 12
    MaxDemands = 1
    MaxNonce = 2
    MaxTime = 5
SYMMETRY AccountSymmetry
INVARIANTS
    BooksBalance
    VotesBacked
    MajoritySettles
    NoStakeLocked
    OffersAreAccepted
    StatusLasts
PROPERTIES
    DecisionsHold
    KeepsPledges
