------------------------- MODULE AgentDemandProperties ------------------------
(***************************************************************************)
(* What the escrow contract promises: the money is there, it moves only    *)
(* with its owner's consent, a vote decides once, and nothing is locked    *)
(* for ever.                                                               *)
(***************************************************************************)
EXTENDS AgentDemand, Totals

CommittedOf == [d \in DemandId |-> demands[d].committed]

(* Whose commitment is still theirs: an approver of a fulfilled demand has *)
(* paid, everybody else's tokens are still in escrow.                      *)
Claimants(d) ==
    IF demands[d].status = "Fulfilled" THEN Account \ Approvers(d) ELSE Account

Claims(d) == Share(commitmentOf[d], Claimants(d))

ApprovingStake(d) == Total(Share(commitmentOf[d], Approvers(d)))

(* The contract holds exactly the tokens it accounts for, and accounts for *)
(* exactly what its demands hold (totalEscrowed is kept incrementally by   *)
(* createDemand, supportDemand, finalize and refund).                      *)
EscrowBacked ==
    /\ balance[Escrow] = totalEscrowed
    /\ totalEscrowed = Total(CommittedOf)

(* What a demand holds is exactly what its supporters may still claim: no  *)
(* token is both paid to a builder and refundable, and none is orphaned    *)
(* (commitmentOf against Demand.committed, in finalize and refund).        *)
StakesBacked ==
    \A d \in DemandId : demands[d].committed = Total(Claims(d))

(* The books balance: token ledger, totals, demands and commitments.       *)
BooksBalance == EscrowBacked /\ StakesBacked

(* Once a submission has its quorum, its approval weight is exactly the    *)
(* stake its approvers still have in escrow, so the amount checks of       *)
(* finalize never stop a settlement that the vote decided.                 *)
QuorumBacked ==
    \A d \in DemandId :
        demands[d].status = "Submitted" /\ QuorumReached(d) =>
            /\ approvalWeight[d] = ApprovingStake(d)
            /\ approvalWeight[d] <= demands[d].committed
            /\ approvalWeight[d] <= totalEscrowed

(* A builder was paid only by a real quorum of the stake under review: the *)
(* approvers of the settled submission, and nobody else, paid, and they    *)
(* hold at least QuorumBps of the snapshot and more than half of it.       *)
MajoritySettles ==
    \A d \in DemandId : demands[d].status = "Fulfilled" =>
        /\ 10000 * ApprovingStake(d) >= QuorumBps * demands[d].reviewCommitted
        /\ 2 * ApprovingStake(d) > demands[d].reviewCommitted

(* Quorum and rejection exclude each other while a submission is open to   *)
(* votes: _candidateRejected means that approval became impossible.        *)
QuorumExcludesRejection ==
    \A d \in DemandId :
        demands[d].status = "Submitted" => ~(QuorumReached(d) /\ CandidateRejected(d))

(* The vote of a review has one outcome, and the stake to go with it.      *)
VotesBacked == QuorumBacked /\ QuorumExcludesRejection

(* Exact duplicates: a demand that may still take support, a submission or *)
(* a settlement is the one its key points to, so no key has two of them;   *)
(* and a key points only to a demand of that key that has not ended.       *)
OneLiveDemandPerKey ==
    /\ \A d \in Existing : ~Replaceable(d) => activeDemandByKey[demandKeyOf[d]] = d
    /\ \A k \in Key : activeDemandByKey[k] # 0 =>
           LET d == activeDemandByKey[k]
           IN  /\ d \in Existing
               /\ demandKeyOf[d] = k
               /\ demands[d].status \in {"Open", "Submitted"}

(* Every check of refund and of its transfer passes.                       *)
RefundSucceeds(d, a) ==
    /\ Refundable(d, a)
    /\ commitmentOf[d][a] <= demands[d].committed
    /\ commitmentOf[d][a] <= totalEscrowed
    /\ commitmentOf[d][a] <= balance[Escrow]

(* No stake is locked for ever: when the deadline, the review and the      *)
(* settlement grace are over, every claim can be refunded at once or after *)
(* a cancelSettlement that anybody may call.                               *)
NoStakeLocked ==
    \A d \in Existing, a \in Account :
        /\ Claims(d)[a] # 0
        /\ Expired(d)
        /\ demands[d].status = "Submitted" => GraceEnded(d)
        => \/ RefundSucceeds(d, a)
           \/ demands[d].status = "Submitted" /\ QuorumReached(d)

-------------------------------------------------------------------------------
(* A demand that may be replaced under its key never comes back to life:   *)
(* createDemand decides on _replaceable at one moment, and the decision    *)
(* stays right whatever happens to the old demand afterwards.              *)
ReplaceableForGood ==
    [][\A d \in Existing : Replaceable(d) => Replaceable(d)']_vars

(* A quorum cannot be undone: no vote, refund, reopening or new submission *)
(* intervenes between reaching it and settling or cancelling.              *)
QuorumHolds ==
    [][\A d \in DemandId :
           demands[d].status = "Submitted" /\ QuorumReached(d) =>
               /\ demands'[d].status \in {"Submitted", "Fulfilled", "Cancelled"}
               /\ commitmentOf'[d] = commitmentOf[d]
               /\ submissionNonce'[d] = submissionNonce[d]
               /\ demands'[d].status = "Submitted" => QuorumReached(d)']_vars

(* A candidate voted down stays down until the demand is reopened or       *)
(* closed: no later vote and no refund turns the rejection around.         *)
RejectionHolds ==
    [][\A d \in DemandId :
           demands[d].status = "Submitted" /\ CandidateRejected(d) =>
               \/ demands'[d].status \in {"Open", "Closed"}
               \/ demands'[d].status = "Submitted" /\ CandidateRejected(d)'
                  /\ BelowQuorum(d)']_vars

(* What the supporters decided on a candidate, and what createDemand       *)
(* decided on a demand it replaced, stays decided, through all that        *)
(* refunds, late votes and reopenings do.                                  *)
DecisionsHold == ReplaceableForGood /\ QuorumHolds /\ RejectionHolds

(* What docs/ARCHITECTURE.md draws of a refund from a submitted demand: it *)
(* waits for the deadline and for the end of the review.  The contract     *)
(* also refunds before the review ends, once the candidate is voted down.  *)
SubmittedRefundWaits ==
    [][\A d \in DemandId, a \in Account :
           demands[d].status = "Submitted" /\ commitmentOf'[d][a] < commitmentOf[d][a] =>
               Expired(d) /\ ReviewEnded(d)]_vars

-------------------------------------------------------------------------------
(* Time alone brings every demand to a point from which its supporters get *)
(* their tokens out: it ended or failed for good, or its settlement can be *)
(* cancelled.  The clock is the only assumption.                           *)
EveryDemandEnds ==
    \A d \in DemandId :
        d \in Existing ~>
            \/ Replaceable(d)
            \/ demands[d].status = "Submitted" /\ QuorumReached(d) /\ GraceEnded(d)

-------------------------------------------------------------------------------
(* The contract implements Pledges: a demand that may be replaced or that  *)
(* was cancelled is given up, and a pledge is a claim on the escrow.       *)
PhaseOf(d) ==
    IF demands[d].status = "Fulfilled" THEN "settled"
    ELSE IF d \in Existing /\ Replaceable(d) THEN "givenUp"
    ELSE "collecting"

Promise ==
    INSTANCE Pledges WITH
        phase   <- [d \in DemandId |-> PhaseOf(d)],
        pledged <- [d \in DemandId |-> Claims(d)],
        purse   <- [h \in Account \cup {Treasury} |-> balance[h]]

(* Tokens leave the escrow only by a majority's settlement, once for each  *)
(* demand, or back to their owner, and never while the demand is alive.    *)
KeepsPledges == Promise!PledgeSpec

-------------------------------------------------------------------------------
(***************************************************************************)
(* The inductive invariant behind the properties of the escrow contract.   *)
(* DemandInv is about one demand alone and speaks of nothing that another  *)
(* demand's transactions touch, so a step has to be looked at only for the *)
(* demand it is about.                                                     *)
(***************************************************************************)

(* Ids are handed out in order and nothing touches one before that.        *)
Fresh(d) ==
    /\ demands[d] = EmptyDemand
    /\ commitmentOf[d] = [a \in Account |-> 0]
    /\ submissionNonce[d] = 0

(* Votes on a submission that was not made yet do not exist.               *)
FutureVotesEmpty(d) ==
    \A n \in Nonce :
        n > submissionNonce[d] => hasApproved[d][n] = {} /\ hasRejected[d][n] = {}

(* A demand that is alive has funds, a closed one has none.                *)
Funded(d) ==
    /\ demands[d].status \in {"Open", "Submitted"} /\ d \in Existing =>
           demands[d].committed > 0
    /\ demands[d].status = "Closed" => demands[d].committed = 0

Undecided(d) == Account \ (Approvers(d) \cup Rejecters(d))

(* The terms of a review are those of the snapshot.                        *)
TermsFixed(d) ==
    /\ demands[d].reviewCommitted > 0
    /\ demands[d].approvalRequired =
           CeilDiv(demands[d].reviewCommitted * QuorumBps, 10000)

(* Every unit of the snapshot votes at most once, whatever has been        *)
(* refunded since.                                                         *)
VotesBounded(d) ==
    approvalWeight[d] + rejectionWeight[d]
        + Total(Share(commitmentOf[d], Undecided(d))) <= demands[d].reviewCommitted

(* The approvers' stake is still in escrow unless the candidate failed for *)
(* good, from when on it may be refunded.                                  *)
ApprovalsBacked(d) ==
    \/ approvalWeight[d] = ApprovingStake(d)
    \/ Expired(d) /\ CandidateFailed(d)

ReviewSound(d) ==
    /\ demands[d].builder \in Account
    /\ TermsFixed(d)
    /\ Approvers(d) \cap Rejecters(d) = {}
    /\ VotesBounded(d)
    /\ ApprovalsBacked(d)

SettlementSound(d) ==
    /\ TermsFixed(d)
    /\ approvalWeight[d] >= demands[d].approvalRequired
    /\ approvalWeight[d] = ApprovingStake(d)

DemandInv(d) ==
    /\ d \notin Existing => Fresh(d)
    /\ d \in Existing => demandKeyOf[d] \in Key
    /\ FutureVotesEmpty(d)
    /\ Funded(d)
    /\ demands[d].committed = Total(Claims(d))
    /\ demands[d].status = "Submitted" => ReviewSound(d)
    /\ demands[d].status = "Fulfilled" => SettlementSound(d)

IInv ==
    /\ TypeOK
    /\ EscrowBacked
    /\ \A d \in DemandId : DemandInv(d)
    /\ OneLiveDemandPerKey
===============================================================================
