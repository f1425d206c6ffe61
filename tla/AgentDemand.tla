----------------------------- MODULE AgentDemand ------------------------------
(***************************************************************************)
(* The escrow contract backend/AgentDemand.sol: supporters commit tokens   *)
(* to a demand, a builder submits a service attested by the verifier, the  *)
(* supporters vote with their commitments, and a quorum settles the        *)
(* approvers' tokens to the builder, everything else going back to whom    *)
(* it came from.                                                           *)
(*                                                                         *)
(* One action is one transaction: every external function is nonReentrant  *)
(* and reverts as a whole.  A revert leaves the state alone, so it is a    *)
(* disabled action.  Checked arithmetic (Solidity 0.8) reverts as well:    *)
(* an addition that would not fit and a subtraction that would go below    *)
(* zero are guards.  Tick is the block timestamp moving on.                *)
(*                                                                         *)
(* Payload that no branch reads after it was stored is left out: the       *)
(* texts of a demand (Key stands for the hash of the exact pair), price,   *)
(* expected calls, service URL, evidence and digests of a submission.      *)
(***************************************************************************)
EXTENDS Integers, FiniteSets

CONSTANTS
    Account,           \* wallets that create, support, build and vote
    Treasury,          \* receives the protocol fee
    Escrow,            \* the contract's own token account
    Admin,             \* verifierAdmin
    Verifier,          \* signing keys the admin may install
    NoOne,             \* address(0)
    Key,               \* demand keys
    MinCommitment,     \* minCommitment
    FeeBps,            \* feeBps
    QuorumBps,         \* quorumBps
    ReviewPeriod,      \* reviewPeriod, in ticks of the clock
    SettlementGrace,   \* SETTLEMENT_GRACE
    MinLead,           \* the "1 hours" of createDemand
    ClockSkew,         \* the "60" of _verifyAttestation
    MaxWindow,         \* the "900" of _verifyAttestation
    MaxUint96,         \* largest value of a uint96
    MaxUint128,        \* largest value of a uint128
    Amount,            \* amounts a supporter may offer
    Deadline,          \* deadlines a creator may ask for
    Attestation,       \* attestations that were ever signed
    InitialBalance,    \* tokens an account starts with
    MaxDemands,        \* bound on the number of demands
    MaxNonce,          \* bound on the submissions of one demand
    MaxTime            \* bound on the clock

DemandId == 1 .. MaxDemands
Nonce    == 0 .. MaxNonce
Time     == 0 .. MaxTime
Holder   == Account \cup {Treasury, Escrow}

Status == {"Open", "Submitted", "Fulfilled", "Closed", "Cancelled"}

AttestationRecord ==
    [signer: Verifier, demand: DemandId, builder: Account, nonce: Nonce,
     issuedAt: Nat, expiresAt: Nat]

(* The constructor's checks, and what the model needs of its parameters.   *)
ASSUME ConstantsAssumption ==
    /\ IsFiniteSet(Account)
    /\ NoOne \notin Account \cup Verifier
    /\ Escrow \notin Account \cup {Treasury}
    /\ 0 \notin Key
    /\ MinCommitment \in Nat \ {0}
    /\ FeeBps \in 0 .. 1000
    /\ QuorumBps \in 5001 .. 10000
    /\ ReviewPeriod \in Nat \ {0}
    /\ SettlementGrace \in Nat \ {0}
    /\ MinLead \in Nat \ {0}
    /\ ClockSkew \in Nat /\ MaxWindow \in Nat
    /\ MaxUint96 \in Nat /\ MaxUint128 \in Nat /\ MaxUint96 <= MaxUint128
    /\ Amount \subseteq 0 .. MaxUint96
    /\ Deadline \subseteq Nat
    /\ Attestation \subseteq AttestationRecord
    /\ InitialBalance \in Nat
    /\ MaxDemands \in Nat /\ MaxNonce \in Nat /\ MaxTime \in Nat

VARIABLES
    now,               \* block.timestamp
    verifier,
    nextDemandId,
    totalEscrowed,
    demands,           \* the Demand structs
    commitmentOf,
    submissionNonce,
    approvalWeight,
    rejectionWeight,
    hasApproved,       \* hasApproved[d][n]: who approved submission n of d
    hasRejected,
    activeDemandByKey, \* 0 when the key has no active demand
    demandKeyOf,       \* 0 before the demand exists
    balance            \* the token's ledger

votes == <<approvalWeight, rejectionWeight, hasApproved, hasRejected>>
keys  == <<activeDemandByKey, demandKeyOf>>
vars  == <<now, verifier, nextDemandId, totalEscrowed, demands, commitmentOf,
           submissionNonce, votes, keys, balance>>

Demand ==
    [creator: Account \cup {NoOne}, builder: Account \cup {NoOne},
     committed: Nat, reviewCommitted: Nat, approvalRequired: Nat,
     deadline: Nat, reviewEndsAt: Nat, supporterCount: Nat, status: Status]

EmptyDemand ==
    [creator |-> NoOne, builder |-> NoOne, committed |-> 0,
     reviewCommitted |-> 0, approvalRequired |-> 0, deadline |-> 0,
     reviewEndsAt |-> 0, supporterCount |-> 0, status |-> "Open"]

TypeOK ==
    /\ now \in Nat
    /\ verifier \in Verifier
    /\ nextDemandId \in 1 .. MaxDemands + 1
    /\ totalEscrowed \in Nat
    /\ demands \in [DemandId -> Demand]
    /\ commitmentOf \in [DemandId -> [Account -> Nat]]
    /\ submissionNonce \in [DemandId -> Nonce]
    /\ approvalWeight \in [DemandId -> Nat]
    /\ rejectionWeight \in [DemandId -> Nat]
    /\ hasApproved \in [DemandId -> [Nonce -> SUBSET Account]]
    /\ hasRejected \in [DemandId -> [Nonce -> SUBSET Account]]
    /\ activeDemandByKey \in [Key -> DemandId \cup {0}]
    /\ demandKeyOf \in [DemandId -> Key \cup {0}]
    /\ balance \in [Holder -> Nat]

-------------------------------------------------------------------------------
(* Views on one demand.                                                    *)

Existing == 1 .. nextDemandId - 1

(* Faulty variants stand before the definition they could replace; no run   *)
(* of the contract itself uses them.  Here: rounding the quorum down.      *)
FloorDiv(a, b) == a \div b

CeilDiv(a, b) == IF a = 0 THEN 0 ELSE (a - 1) \div b + 1

QuorumReached(d) ==
    /\ demands[d].approvalRequired # 0
    /\ approvalWeight[d] >= demands[d].approvalRequired

BelowQuorum(d) == approvalWeight[d] < demands[d].approvalRequired

CandidateRejected(d) ==
    /\ demands[d].approvalRequired # 0
    /\ rejectionWeight[d] >=
           demands[d].reviewCommitted - demands[d].approvalRequired + 1

ReviewEnded(d) == now >= demands[d].reviewEndsAt
GraceEnded(d)  == now >= demands[d].reviewEndsAt + SettlementGrace
Expired(d)     == now >= demands[d].deadline

(* Faulty: the quorum that was reached is forgotten once the review ends.  *)
CandidateOver(d) == ReviewEnded(d) \/ CandidateRejected(d)

(* Faulty: a candidate nobody decided on never fails.                      *)
CandidateVotedDown(d) == BelowQuorum(d) /\ CandidateRejected(d)

(* A candidate that failed: it has no quorum, and its review is over or    *)
(* it has been voted down.                                                 *)
CandidateFailed(d) == BelowQuorum(d) /\ (ReviewEnded(d) \/ CandidateRejected(d))

Replaceable(d) ==
    \/ demands[d].status \in {"Fulfilled", "Closed", "Cancelled"}
    \/ Expired(d) /\ demands[d].status = "Open"
    \/ Expired(d) /\ demands[d].status = "Submitted" /\ CandidateFailed(d)

Approvers(d) == hasApproved[d][submissionNonce[d]]
Rejecters(d) == hasRejected[d][submissionNonce[d]]

(* Faulty: a cancelled settlement pays nobody back.                        *)
NotRefundableCancelled(d, a) ==
    /\ commitmentOf[d][a] # 0
    /\ \/ demands[d].status = "Fulfilled" /\ a \notin Approvers(d)
       \/ demands[d].status = "Open" /\ Expired(d)
       \/ demands[d].status = "Submitted" /\ Expired(d) /\ CandidateFailed(d)

(* Faulty: support can be withdrawn before the deadline.                   *)
RefundableAnyTime(d, a) ==
    /\ commitmentOf[d][a] # 0
    /\ \/ demands[d].status \in {"Cancelled", "Open"}
       \/ demands[d].status = "Fulfilled" /\ a \notin Approvers(d)
       \/ demands[d].status = "Submitted" /\ Expired(d) /\ CandidateFailed(d)

Refundable(d, a) ==
    /\ commitmentOf[d][a] # 0
    /\ \/ demands[d].status = "Cancelled"
       \/ demands[d].status = "Fulfilled" /\ a \notin Approvers(d)
       \/ demands[d].status = "Open" /\ Expired(d)
       \/ demands[d].status = "Submitted" /\ Expired(d) /\ CandidateFailed(d)

(* Faulty: an ended demand clears its key's entry whoever it belongs to.   *)
KeyClearedAlways(d) ==
    LET k == demandKeyOf[d]
    IN  IF k # 0 THEN [activeDemandByKey EXCEPT ![k] = 0] ELSE activeDemandByKey

(* What the contract does to a key when its demand ends: a demand that     *)
(* was replaced must not clear its successor's entry.                      *)
KeyCleared(d) ==
    LET k == demandKeyOf[d]
    IN  IF k # 0 /\ activeDemandByKey[k] = d
        THEN [activeDemandByKey EXCEPT ![k] = 0]
        ELSE activeDemandByKey

(* The ledger after a transfer of an ERC-20 that moves exactly the amount  *)
(* asked for; any other token makes _pullExact and _pushExact revert.      *)
Transfer(ledger, from, to, amount) ==
    LET debited == [ledger EXCEPT ![from] = @ - amount]
    IN  [debited EXCEPT ![to] = @ + amount]

PullExact(from, amount) ==
    /\ balance[from] >= amount
    /\ balance' = Transfer(balance, from, Escrow, amount)

(* _pushExact passes: the tokens are there, and what is left still covers  *)
(* what the contract owes.                                                 *)
Pushable(ledger, to, amount, owed) ==
    /\ ledger[Escrow] >= amount
    /\ Transfer(ledger, Escrow, to, amount)[Escrow] >= owed

PushExact(ledger, to, amount) == balance' = Transfer(ledger, Escrow, to, amount)

-------------------------------------------------------------------------------
Init ==
    /\ now = 0
    /\ verifier \in Verifier
    /\ nextDemandId = 1
    /\ totalEscrowed = 0
    /\ demands = [d \in DemandId |-> EmptyDemand]
    /\ commitmentOf = [d \in DemandId |-> [a \in Account |-> 0]]
    /\ submissionNonce = [d \in DemandId |-> 0]
    /\ approvalWeight = [d \in DemandId |-> 0]
    /\ rejectionWeight = [d \in DemandId |-> 0]
    /\ hasApproved = [d \in DemandId |-> [n \in Nonce |-> {}]]
    /\ hasRejected = [d \in DemandId |-> [n \in Nonce |-> {}]]
    /\ activeDemandByKey = [k \in Key |-> 0]
    /\ demandKeyOf = [d \in DemandId |-> 0]
    /\ balance = [h \in Holder |-> IF h \in Account THEN InitialBalance ELSE 0]

CreateDemand(creator, key, deadline, amount) ==
    LET d       == nextDemandId
        current == activeDemandByKey[key]
    IN  /\ d <= MaxDemands
        /\ deadline >= now + MinLead
        /\ amount >= MinCommitment
        /\ current # 0 => Replaceable(current)
        /\ nextDemandId' = d + 1
        /\ activeDemandByKey' = [activeDemandByKey EXCEPT ![key] = d]
        /\ demandKeyOf' = [demandKeyOf EXCEPT ![d] = key]
        /\ demands' = [demands EXCEPT ![d] =
               [demands[d] EXCEPT !.creator = creator, !.committed = amount,
                         !.deadline = deadline, !.supporterCount = 1,
                         !.status = "Open"]]
        /\ commitmentOf' = [commitmentOf EXCEPT ![d][creator] = amount]
        /\ totalEscrowed' = totalEscrowed + amount
        /\ PullExact(creator, amount)
        /\ UNCHANGED <<now, verifier, submissionNonce, votes>>

SupporterAdded(previous) == IF previous = 0 THEN 1 ELSE 0

SupportDemand(supporter, d, amount) ==
    LET previous == commitmentOf[d][supporter]
    IN  /\ demands[d].status = "Open"
        /\ ~Expired(d)
        /\ amount >= MinCommitment
        /\ previous + amount <= MaxUint96
        /\ demands[d].committed + amount <= MaxUint128
        /\ commitmentOf' = [commitmentOf EXCEPT ![d][supporter] = previous + amount]
        /\ demands' = [demands EXCEPT ![d] =
               [demands[d] EXCEPT
                   !.committed = demands[d].committed + amount,
                   !.supporterCount =
                       demands[d].supporterCount + SupporterAdded(previous)]]
        /\ totalEscrowed' = totalEscrowed + amount
        /\ PullExact(supporter, amount)
        /\ UNCHANGED <<now, verifier, nextDemandId, submissionNonce, votes, keys>>

SetVerifier(caller, newVerifier) ==
    /\ caller = Admin
    /\ newVerifier # NoOne
    /\ verifier' = newVerifier
    /\ UNCHANGED <<now, nextDemandId, totalEscrowed, demands, commitmentOf,
                   submissionNonce, votes, keys, balance>>

(* Does att authorise this caller to submit the given nonce of d now?      *)
AttestationValid(att, d, builder, nonce) ==
    /\ att.demand = d
    /\ att.builder = builder
    /\ att.nonce = nonce
    /\ att.issuedAt <= now + ClockSkew
    /\ att.issuedAt < att.expiresAt
    /\ att.expiresAt - att.issuedAt <= MaxWindow
    /\ now < att.expiresAt
    /\ att.signer = verifier

SubmitService(builder, d, att) ==
    LET nonce == submissionNonce[d] + 1
    IN  /\ nonce <= MaxNonce
        /\ demands[d].status = "Open"
        /\ ~Expired(d)
        /\ AttestationValid(att, d, builder, nonce)
        /\ demands' = [demands EXCEPT ![d] =
               [demands[d] EXCEPT !.builder = builder,
                         !.reviewEndsAt = now + ReviewPeriod,
                         !.reviewCommitted = demands[d].committed,
                         !.approvalRequired =
                             CeilDiv(demands[d].committed * QuorumBps, 10000),
                         !.status = "Submitted"]]
        /\ submissionNonce' = [submissionNonce EXCEPT ![d] = nonce]
        /\ approvalWeight' = [approvalWeight EXCEPT ![d] = 0]
        /\ rejectionWeight' = [rejectionWeight EXCEPT ![d] = 0]
        /\ UNCHANGED <<now, verifier, nextDemandId, totalEscrowed, commitmentOf,
                       hasApproved, hasRejected, keys, balance>>

(* Faulty: one wallet votes on both sides.                                 *)
MayVoteTwice(supporter, d, expectedNonce) ==
    /\ demands[d].status = "Submitted"
    /\ ~ReviewEnded(d)
    /\ commitmentOf[d][supporter] # 0
    /\ submissionNonce[d] = expectedNonce

(* A vote names the nonce it is meant for: a vote for a candidate that was *)
(* replaced in the meantime reverts.                                       *)
MayVote(supporter, d, expectedNonce) ==
    /\ demands[d].status = "Submitted"
    /\ ~ReviewEnded(d)
    /\ commitmentOf[d][supporter] # 0
    /\ submissionNonce[d] = expectedNonce
    /\ supporter \notin Approvers(d)
    /\ supporter \notin Rejecters(d)

ApproveService(supporter, d, expectedNonce) ==
    /\ MayVote(supporter, d, expectedNonce)
    /\ hasApproved' = [hasApproved EXCEPT ![d][expectedNonce] = @ \cup {supporter}]
    /\ approvalWeight' =
           [approvalWeight EXCEPT ![d] = @ + commitmentOf[d][supporter]]
    /\ UNCHANGED <<now, verifier, nextDemandId, totalEscrowed, demands,
                   commitmentOf, submissionNonce, rejectionWeight, hasRejected,
                   keys, balance>>

RejectService(supporter, d, expectedNonce) ==
    /\ MayVote(supporter, d, expectedNonce)
    /\ hasRejected' = [hasRejected EXCEPT ![d][expectedNonce] = @ \cup {supporter}]
    /\ rejectionWeight' =
           [rejectionWeight EXCEPT ![d] = @ + commitmentOf[d][supporter]]
    /\ UNCHANGED <<now, verifier, nextDemandId, totalEscrowed, demands,
                   commitmentOf, submissionNonce, approvalWeight, hasApproved,
                   keys, balance>>

Fee(amount) == (amount * FeeBps) \div 10000

(* Faulty: the fee is deducted and stays in the escrow.                    *)
FeeKept(fee) == balance

(* The ledger after the fee went to the treasury; a zero fee is not sent.  *)
AfterFee(fee) ==
    IF fee = 0 THEN balance ELSE Transfer(balance, Escrow, Treasury, fee)

(* MayFinalize, MayCancel, MayReopen and MayRefund are all that their      *)
(* transactions require: what they do then always succeeds.                *)
MayFinalize(d) ==
    LET approved == approvalWeight[d]
        fee      == Fee(approved)
    IN  /\ demands[d].status = "Submitted"
        /\ QuorumReached(d)
        /\ ~GraceEnded(d)
        /\ approved # 0 /\ approved <= demands[d].committed
        /\ totalEscrowed >= approved
        /\ balance[Escrow] >= fee
        /\ Pushable(AfterFee(fee), demands[d].builder, approved - fee,
                    totalEscrowed - approved)

Finalize(d) ==
    LET approved == approvalWeight[d]
        fee      == Fee(approved)
    IN  /\ MayFinalize(d)
        /\ demands' = [demands EXCEPT ![d] =
               [demands[d] EXCEPT
                   !.status = "Fulfilled",
                   !.committed = demands[d].committed - approved]]
        /\ totalEscrowed' = totalEscrowed - approved
        /\ activeDemandByKey' = KeyCleared(d)
        /\ PushExact(AfterFee(fee), demands[d].builder, approved - fee)
        /\ UNCHANGED <<now, verifier, nextDemandId, commitmentOf,
                       submissionNonce, votes, demandKeyOf>>

MayCancel(d) ==
    /\ demands[d].status = "Submitted"
    /\ QuorumReached(d)
    /\ GraceEnded(d)

CancelSettlement(d) ==
    /\ MayCancel(d)
    /\ demands' = [demands EXCEPT ![d] = [demands[d] EXCEPT !.status = "Cancelled"]]
    /\ activeDemandByKey' = KeyCleared(d)
    /\ UNCHANGED <<now, verifier, nextDemandId, totalEscrowed, commitmentOf,
                   submissionNonce, votes, demandKeyOf, balance>>

MayReopen(d) ==
    /\ demands[d].status = "Submitted"
    /\ ~Expired(d)
    /\ CandidateFailed(d)

Reopen(d) ==
    /\ MayReopen(d)
    /\ demands' = [demands EXCEPT ![d] =
           [demands[d] EXCEPT !.builder = NoOne, !.reviewEndsAt = 0,
                     !.reviewCommitted = 0, !.approvalRequired = 0,
                     !.status = "Open"]]
    /\ approvalWeight' = [approvalWeight EXCEPT ![d] = 0]
    /\ rejectionWeight' = [rejectionWeight EXCEPT ![d] = 0]
    /\ UNCHANGED <<now, verifier, nextDemandId, totalEscrowed, commitmentOf,
                   submissionNonce, hasApproved, hasRejected, keys, balance>>

MayRefund(supporter, d) ==
    LET amount == commitmentOf[d][supporter]
    IN  /\ Refundable(d, supporter)
        /\ demands[d].committed >= amount
        /\ totalEscrowed >= amount
        /\ Pushable(balance, supporter, amount, totalEscrowed - amount)

Refund(supporter, d) ==
    LET amount    == commitmentOf[d][supporter]
        remaining == demands[d].committed - amount
        closes    == remaining = 0
                     /\ demands[d].status \notin {"Fulfilled", "Cancelled"}
    IN  /\ MayRefund(supporter, d)
        /\ commitmentOf' = [commitmentOf EXCEPT ![d][supporter] = 0]
        /\ demands' = [demands EXCEPT ![d] =
               [demands[d] EXCEPT
                   !.committed = remaining,
                   !.status = IF closes THEN "Closed" ELSE demands[d].status]]
        /\ activeDemandByKey' = IF closes THEN KeyCleared(d) ELSE activeDemandByKey
        /\ totalEscrowed' = totalEscrowed - amount
        /\ PushExact(balance, supporter, amount)
        /\ UNCHANGED <<now, verifier, nextDemandId, submissionNonce, votes,
                       demandKeyOf>>

Tick ==
    /\ now < MaxTime
    /\ now' = now + 1
    /\ UNCHANGED <<verifier, nextDemandId, totalEscrowed, demands, commitmentOf,
                   submissionNonce, votes, keys, balance>>

Transaction ==
    \/ \E a \in Account, k \in Key, t \in Deadline, n \in Amount :
           CreateDemand(a, k, t, n)
    \/ \E c \in Account \cup {Admin}, v \in Verifier : SetVerifier(c, v)
    \/ \E d \in Existing, a \in Account :
           \/ \E n \in Amount : SupportDemand(a, d, n)
           \/ \E att \in Attestation : SubmitService(a, d, att)
           \/ \E n \in Nonce : ApproveService(a, d, n) \/ RejectService(a, d, n)
           \/ Refund(a, d)
    \/ \E d \in Existing : Finalize(d) \/ CancelSettlement(d) \/ Reopen(d)

Next == Tick \/ Transaction

Spec == Init /\ [][Next]_vars

(* Blocks keep being produced; nothing obliges anybody to transact.        *)
FairSpec == Spec /\ WF_vars(Tick)
===============================================================================
