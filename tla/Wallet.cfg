\* Each part of the tab by itself, in one run.
SPECIFICATION MCSpec
CONSTANTS
    \* one action with approvals and one with a readback, two transactions
    Action = {create, submit}
    Funding = {create}
    ReadBack = {submit}
    MaxTx = 2
    NoAction = NoAction
    MaxReloads = 1
    \* a wallet that changes and changes back, in one of two providers
    Account = {a1, a2}
    Provider = {p1, p2}
    NoAccount = NoAccount
    Plan <- MCPlan
    MaxChanges = 2
    \* two demands or wallets, two reads at a time
    Identity = {i1, i2}
    NoIdentity = NoIdentity
    i1 = i1
    Slot = {s1, s2}
    NoSlot = NoSlot
    MaxPosition = 1
    \* two wallets, drafts before and after an edit, and a twin of the demand
    Wallet = {w1, w2}
    NoWallet = NoWallet
    w1 = w1
    t1 = t1
    Terms = {t1, t2}
    MaxCreated = 2
    \* terms
    Word = {x, y}
    LawfulWord = {x}
    Number <- MCNumber
    NoText = NoText
    NoCall = NoCall
    PricePlaces = 2
    EscrowPlaces = 1
    MaxUint96 = 100
    MaxUint64 = 10
    MinCommitment = 10
    MaxWait = 1
    \* two wallets
    o1 = o1
    Owner = {o1, o2}
    Escrow <- MCEscrow
    Deed <- MCDeed
    MaxSent = 2
CHECK_DEADLOCK FALSE
INVARIANTS
    ToldTheTruth
    SupportIsCurrent
    OffersOnlyOnce
    NothingIsAltered
PROPERTIES
    SendsOnlyWhenClear
    SentInOneSession
