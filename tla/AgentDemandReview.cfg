\* A refund from a submitted demand, as the architecture document draws it.
SPECIFICATION Spec
CONSTANTS
    Account = {a1, a2}
    Treasury = treasury
    Escrow = escrow
    Admin = admin
    v1 = v1
    Verifier = {v1, v2}
    NoOne = NoOne
    Key = {k1}
    MinCommitment = 5
    FeeBps = 0
    QuorumBps = 10000
    ReviewPeriod = 2
    SettlementGrace = 1
    MinLead = 1
    ClockSkew = 1
    MaxWindow = 4
    MaxUint96 = 10
    MaxUint128 = 20
    Amount = {5}
    Deadline = {1, 2}
    Attestation <- ShortAttestations
    InitialBalance = 10
    MaxDemands = 2
    MaxNonce = 1
    MaxTime = 4
SYMMETRY AccountSymmetry
PROPERTY SubmittedRefundWaits
