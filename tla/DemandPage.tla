------------------------------- MODULE DemandPage ------------------------------
(***************************************************************************)
(* The page of one demand (frontend/App.tsx) against the contract it is    *)
(* about: what the page calls the demand's status, and which of the        *)
(* contract's functions it offers to a wallet, from what it has read and   *)
(* from the clock.  That a press is held back while the tab is busy, or    *)
(* while an earlier transaction is unresolved, is module                   *)
(* TransactionLifecycle's.                                                 *)
(***************************************************************************)
EXTENDS AgentDemand

(* approvalProgress                                                        *)
QuorumIsReached(d) ==
    \/ demands[d].status = "Fulfilled"
    \/ demands[d].status = "Submitted" /\ QuorumReached(d)

(* rejectionProgress                                                       *)
CandidateIsRejected(d) == demands[d].status = "Submitted" /\ CandidateRejected(d)

(* readDemandWithClient: getDemand and the two.                            *)
DemandView(d) ==
    [status            |-> demands[d].status,
     deadline          |-> demands[d].deadline,
     reviewEndsAt      |-> demands[d].reviewEndsAt,
     hasProposal       |-> demands[d].builder # NoOne,
     quorumReached     |-> QuorumIsReached(d),
     candidateRejected |-> CandidateIsRejected(d)]

GetSupport(d, a) ==
    [commitment |-> commitmentOf[d][a], approved |-> a \in Approvers(d), rejected |-> a \in Rejecters(d)]

(* readSupport                                                             *)
SupportView(d, a) ==
    LET s == GetSupport(d, a)
    IN  [commitment |-> s.commitment, approved |-> s.approved, rejected |-> s.rejected,
         refundable |-> Refundable(d, a)]

-------------------------------------------------------------------------------
Over(v) == v.status \in {"Fulfilled", "Closed", "Cancelled"}

Ready(v) == v.status = "Submitted" /\ v.quorumReached

(* Past its deadline, with no candidate that might still succeed.          *)
Lapsed(v, t) ==
    /\ t >= v.deadline
    /\ \/ v.status = "Open"
       \/ v.status = "Submitted" /\ (t >= v.reviewEndsAt \/ v.candidateRejected)

EffectiveStatus(v, t) ==
    IF Over(v) THEN v.status
    ELSE IF Ready(v) THEN "READY"
    ELSE IF Lapsed(v, t) THEN "EXPIRED"
    ELSE IF v.candidateRejected THEN "REJECTED" ELSE v.status

(* Faulty: a submitted demand changes with its deadline.                   *)
TransitionAtDeadline(v) ==
    CASE v.status = "Open"      -> {v.deadline}
      [] v.status = "Submitted" -> {IF v.quorumReached THEN v.reviewEndsAt + SettlementGrace
                                                       ELSE v.deadline}
      [] Over(v)                -> {}

Transition(v) ==
    IF v.status = "Open" THEN {v.deadline}
    ELSE IF Ready(v) THEN {v.reviewEndsAt + SettlementGrace}
    ELSE IF v.status # "Submitted" THEN {}
    ELSE IF v.candidateRejected \/ v.deadline >= v.reviewEndsAt THEN {v.deadline}
    ELSE {v.reviewEndsAt}

(* nextMarketStatusChangeAt: the page sets a timer for the first of these  *)
(* times and looks at the clock again only then.                           *)
NextStatusChangeAt(v, t) == {u \in Transition(v) : u > t}

-------------------------------------------------------------------------------
ReviewExpired(v, t) == v.status = "Submitted" /\ v.reviewEndsAt <= t

(* Faulty: the deadline is forgotten.                                      *)
CanReopenLate(v, t) ==
    (ReviewExpired(v, t) \/ v.candidateRejected) /\ ~v.quorumReached

CanReopen(v, t) ==
    /\ ReviewExpired(v, t) \/ v.candidateRejected
    /\ ~v.quorumReached
    /\ v.deadline > t

SettlementExpired(v, t) == t >= v.reviewEndsAt + SettlementGrace

(* The section on escrow and support.                                      *)
FundOffers(v, s, t) ==
    {act \in {"support", "refund"} :
        /\ act = "support" => EffectiveStatus(v, t) = "Open"
        /\ act = "refund"  => s.refundable}

(* The builder's proposal.                                                 *)
ProposalOffers(v, t) ==
    IF ~v.hasProposal /\ EffectiveStatus(v, t) = "Open" THEN {"submit"} ELSE {}

ReviewOffers(v, s, t) ==
    IF /\ v.status = "Submitted" /\ ~ReviewExpired(v, t)
       /\ s.commitment > 0 /\ ~s.approved /\ ~s.rejected
    THEN {"approve", "reject"} ELSE {}

SettlementOffers(v, t) ==
    {act \in {"finalize", "cancel", "reopen"} :
        /\ act = "finalize" => Ready(v) /\ ~SettlementExpired(v, t)
        /\ act = "cancel"   => Ready(v) /\ SettlementExpired(v, t)
        /\ act = "reopen"   => CanReopen(v, t)}

Offers(v, s, t) ==
    FundOffers(v, s, t) \cup ProposalOffers(v, t)
        \cup ReviewOffers(v, s, t) \cup SettlementOffers(v, t)

-------------------------------------------------------------------------------
(* What the contract would let the wallet do; of support and submission    *)
(* whether it is the time for them, amount and attestation being good.     *)
Accepted(d, a) ==
    {act \in {"support", "refund", "submit", "approve", "reject", "finalize", "cancel", "reopen"} :
        /\ act \in {"support", "submit"} => demands[d].status = "Open" /\ ~Expired(d)
        /\ act \in {"approve", "reject"} => MayVote(a, d, submissionNonce[d])
        /\ act = "refund"   => MayRefund(a, d)
        /\ act = "finalize" => MayFinalize(d)
        /\ act = "cancel"   => MayCancel(d)
        /\ act = "reopen"   => MayReopen(d)}

(* The page, when it is up to date, offers exactly what the contract       *)
(* accepts: no button leads to a transaction that must revert, and no      *)
(* right of a supporter is out of reach because its button is missing.     *)
OffersAreAccepted ==
    \A d \in Existing, a \in Account :
        Offers(DemandView(d), SupportView(d, a), now) = Accepted(d, a)

(* Between two looks at the clock the status that is shown stays right:    *)
(* it changes with time alone only when the timer goes off.                *)
StatusLasts ==
    \A d \in Existing, t \in now .. MaxTime + ReviewPeriod + SettlementGrace :
        (\A u \in NextStatusChangeAt(DemandView(d), now) : t < u) =>
            EffectiveStatus(DemandView(d), t) = EffectiveStatus(DemandView(d), now)
===============================================================================
