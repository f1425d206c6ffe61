--------------------------- MODULE AgentDemandProofs --------------------------
(***************************************************************************)
(* Proofs about the escrow contract, for every value of its constants: an  *)
(* invariant that is inductive; the properties of AgentDemandProperties,   *)
(* which follow from it; and that the contract implements Pledges.         *)
(***************************************************************************)
EXTENDS AgentDemandProperties, DemandPage

-------------------------------------------------------------------------------
(* Arithmetic and the token ledger.                                        *)

(* A transfer between two holders moves the amount and nothing else.       *)
LEMMA TransferMoves ==
    ASSUME NEW ledger \in [Holder -> Nat], NEW from \in Holder, NEW to \in Holder,
           NEW amount \in Nat, amount <= ledger[from], from # to
    PROVE  /\ Transfer(ledger, from, to, amount) \in [Holder -> Nat]
           /\ Transfer(ledger, from, to, amount)[from] = ledger[from] - amount
           /\ Transfer(ledger, from, to, amount)[to] = ledger[to] + amount
           /\ \A h \in Holder \ {from, to} :
                  Transfer(ledger, from, to, amount)[h] = ledger[h]
BY DEF Transfer

(* The escrow is no account and not the treasury.                          *)
LEMMA EscrowApart ==
    /\ Escrow \in Holder /\ Treasury \in Holder /\ Account \subseteq Holder
    /\ Escrow \notin Account /\ Escrow # Treasury
BY ConstantsAssumption DEF Holder

(* The quorum of a non-empty snapshot is within the snapshot and more than *)
(* half of it.                                                             *)
LEMMA QuorumBounds ==
    ASSUME NEW c \in Nat, c > 0
    PROVE  LET q == CeilDiv(c * QuorumBps, 10000)
           IN  /\ q \in Nat /\ 0 < q /\ q <= c
               /\ 10000 * q >= QuorumBps * c
               /\ 2 * q > c
<1> DEFINE p == c * QuorumBps
<1>1. QuorumBps \in 5001 .. 10000
    BY ConstantsAssumption
<1>2. p \in Nat /\ p >= 5001 * c /\ p <= 10000 * c /\ p = QuorumBps * c
    BY <1>1
<1> HIDE DEF p
<1>3. p > 0
    BY <1>2
<1>4. CeilDiv(p, 10000) = (p - 1) \div 10000 + 1
    BY <1>2, <1>3 DEF CeilDiv
<1> DEFINE q == (p - 1) \div 10000 + 1
<1>5. /\ q \in Nat /\ 0 < q /\ q <= c
      /\ 10000 * q >= p
      /\ 2 * q > c
    BY <1>2, <1>3
<1>6. QED
    BY <1>2, <1>4, <1>5 DEF p

-------------------------------------------------------------------------------
(* Types.                                                                  *)

(* Creating a demand keeps every type.                                     *)
LEMMA CreateDemandType ==
    ASSUME TypeOK, NEW a \in Account, NEW k \in Key, NEW t \in Deadline, NEW n \in Amount,
           CreateDemand(a, k, t, n)
    PROVE  TypeOK'
<1> DEFINE d == nextDemandId
           r == [demands[d] EXCEPT !.creator = a, !.committed = n, !.deadline = t,
                                   !.supporterCount = 1, !.status = "Open"]
<1>1. n \in Nat /\ t \in Nat /\ MaxDemands \in Nat
    BY ConstantsAssumption
<1>2. /\ d <= MaxDemands /\ nextDemandId' = d + 1
      /\ demands' = [demands EXCEPT ![d] = r]
      /\ PullExact(a, n)
    BY DEF CreateDemand
<1>3. d \in DemandId /\ nextDemandId' \in 1 .. MaxDemands + 1
    BY <1>1, <1>2 DEF TypeOK, DemandId
<1>4. r \in Demand
  <2>1. demands[d] \in Demand
      BY <1>3 DEF TypeOK
  <2>2. QED
      BY <2>1, <1>1 DEF Demand, Status
<1>5. demands' \in [DemandId -> Demand]
  <2> HIDE DEF r
  <2>1. QED
      BY <1>2, <1>3, <1>4 DEF TypeOK
<1>6. balance' \in [Holder -> Nat]
    BY <1>1, <1>2, EscrowApart, TransferMoves DEF TypeOK, PullExact
<1>7. commitmentOf' \in [DemandId -> [Account -> Nat]]
    BY <1>1, <1>3 DEF TypeOK, CreateDemand
<1>8. /\ activeDemandByKey' \in [Key -> DemandId \cup {0}]
      /\ demandKeyOf' \in [DemandId -> Key \cup {0}]
      /\ totalEscrowed' \in Nat
    BY <1>1, <1>3 DEF TypeOK, CreateDemand
<1>9. QED
    BY <1>3, <1>5, <1>6, <1>7, <1>8 DEF TypeOK, CreateDemand, votes

(* Supporting a demand keeps every type.                                   *)
LEMMA SupportDemandType ==
    ASSUME TypeOK, NEW a \in Account, NEW d \in Existing, NEW n \in Amount,
           SupportDemand(a, d, n)
    PROVE  TypeOK'
<1> DEFINE r == [demands[d] EXCEPT
                     !.committed = demands[d].committed + n,
                     !.supporterCount = demands[d].supporterCount
                         + SupporterAdded(commitmentOf[d][a])]
<1>1. n \in Nat /\ d \in DemandId
    BY ConstantsAssumption DEF TypeOK, Existing, DemandId
<1>2. /\ demands' = [demands EXCEPT ![d] = r]
      /\ PullExact(a, n)
      /\ commitmentOf' = [commitmentOf EXCEPT ![d][a] = commitmentOf[d][a] + n]
    BY DEF SupportDemand
<1>3. r \in Demand
  <2>1. demands[d] \in Demand
      BY <1>1 DEF TypeOK
  <2>2. /\ demands[d].committed + n \in Nat
        /\ demands[d].supporterCount
               + SupporterAdded(commitmentOf[d][a]) \in Nat
      BY <2>1, <1>1 DEF Demand, SupporterAdded
  <2>3. QED
      BY <2>1, <2>2 DEF Demand
<1>4. demands' \in [DemandId -> Demand]
  <2> HIDE DEF r
  <2>1. QED
      BY <1>1, <1>2, <1>3 DEF TypeOK
<1>5. balance' \in [Holder -> Nat]
    BY <1>1, <1>2, EscrowApart, TransferMoves DEF TypeOK, PullExact
<1>6. commitmentOf' \in [DemandId -> [Account -> Nat]]
    BY <1>1, <1>2 DEF TypeOK
<1>7. totalEscrowed' \in Nat
    BY <1>1 DEF TypeOK, SupportDemand
<1>8. QED
    BY <1>4, <1>5, <1>6, <1>7 DEF TypeOK, SupportDemand, votes, keys

(* Installing a verifier keeps every type.                                 *)
LEMMA SetVerifierType ==
    ASSUME TypeOK, NEW c, NEW v \in Verifier, SetVerifier(c, v)
    PROVE  TypeOK'
BY DEF TypeOK, SetVerifier, votes, keys

(* Submitting a service keeps every type.                                  *)
LEMMA SubmitServiceType ==
    ASSUME TypeOK, NEW a \in Account, NEW d \in Existing, NEW att \in Attestation,
           SubmitService(a, d, att)
    PROVE  TypeOK'
<1> DEFINE quorum == CeilDiv(demands[d].committed * QuorumBps, 10000)
           r == [demands[d] EXCEPT
                     !.builder = a, !.reviewEndsAt = now + ReviewPeriod,
                     !.reviewCommitted = demands[d].committed,
                     !.approvalRequired = quorum, !.status = "Submitted"]
           nonce == submissionNonce[d] + 1
<1>1. d \in DemandId /\ ReviewPeriod \in Nat /\ MaxNonce \in Nat
    BY ConstantsAssumption DEF TypeOK, Existing, DemandId
<1>2. /\ demands' = [demands EXCEPT ![d] = r]
      /\ nonce <= MaxNonce
      /\ submissionNonce' = [submissionNonce EXCEPT ![d] = nonce]
    BY DEF SubmitService
<1>3. demands[d] \in Demand
    BY <1>1 DEF TypeOK
<1>4. quorum \in Nat
  <2>1. demands[d].committed \in Nat
      BY <1>3 DEF Demand
  <2>2. CASE demands[d].committed = 0
      BY <2>2, ConstantsAssumption DEF CeilDiv
  <2>3. CASE demands[d].committed > 0
      BY <2>1, <2>3, QuorumBounds
  <2>4. QED
      BY <2>1, <2>2, <2>3
<1>5. r \in Demand
  <2> HIDE DEF quorum
  <2>1. demands[d].committed \in Nat /\ now + ReviewPeriod \in Nat
      BY <1>1, <1>3 DEF Demand, TypeOK
  <2>2. QED
      BY <2>1, <1>3, <1>4 DEF Demand, Status
<1>6. demands' \in [DemandId -> Demand]
  <2> HIDE DEF r
  <2>1. QED
      BY <1>1, <1>2, <1>5 DEF TypeOK
<1>7. submissionNonce' \in [DemandId -> Nonce]
    BY <1>1, <1>2 DEF TypeOK, Nonce
<1>8. /\ approvalWeight' \in [DemandId -> Nat]
      /\ rejectionWeight' \in [DemandId -> Nat]
    BY DEF TypeOK, SubmitService
<1>9. QED
    BY <1>6, <1>7, <1>8 DEF TypeOK, SubmitService, keys

(* A vote keeps every type.                                                *)
LEMMA VoteType ==
    ASSUME TypeOK, NEW a \in Account, NEW d \in Existing, NEW n \in Nonce,
           ApproveService(a, d, n) \/ RejectService(a, d, n)
    PROVE  TypeOK'
<1>1. d \in DemandId
    BY ConstantsAssumption DEF TypeOK, Existing, DemandId
<1>2. CASE ApproveService(a, d, n)
  <2>1. hasApproved' \in [DemandId -> [Nonce -> SUBSET Account]]
      BY <1>1, <1>2 DEF TypeOK, ApproveService
  <2>2. approvalWeight' \in [DemandId -> Nat]
      BY <1>1, <1>2 DEF TypeOK, ApproveService
  <2>3. QED
      BY <1>2, <2>1, <2>2 DEF TypeOK, ApproveService, keys
<1>3. CASE RejectService(a, d, n)
  <2>1. hasRejected' \in [DemandId -> [Nonce -> SUBSET Account]]
      BY <1>1, <1>3 DEF TypeOK, RejectService
  <2>2. rejectionWeight' \in [DemandId -> Nat]
      BY <1>1, <1>3 DEF TypeOK, RejectService
  <2>3. QED
      BY <1>3, <2>1, <2>2 DEF TypeOK, RejectService, keys
<1>4. QED
    BY <1>2, <1>3

(* Clearing a key keeps the type of the key index.                         *)
LEMMA KeyClearedType ==
    ASSUME TypeOK, NEW d
    PROVE  KeyCleared(d) \in [Key -> DemandId \cup {0}]
BY DEF TypeOK, KeyCleared

(* Whoever receives it, a covered transfer leaves a ledger.                *)
LEMMA TransferType ==
    ASSUME NEW ledger \in [Holder -> Nat], NEW from \in Holder, NEW to,
           NEW amount \in Nat, amount <= ledger[from]
    PROVE  Transfer(ledger, from, to, amount) \in [Holder -> Nat]
<1> DEFINE debited == [ledger EXCEPT ![from] = ledger[from] - amount]
<1>1. debited \in [Holder -> Nat]
    OBVIOUS
<1>2. Transfer(ledger, from, to, amount) = [debited EXCEPT ![to] = debited[to] + amount]
    BY DEF Transfer
<1> HIDE DEF debited
<1>3. CASE to \in Holder
    BY <1>1, <1>2, <1>3
<1>4. CASE to \notin Holder
    BY <1>1, <1>2, <1>4
<1>5. QED
    BY <1>3, <1>4

(* The fee is at most a tenth of the amount.                               *)
LEMMA FeeBounds ==
    ASSUME NEW amount \in Nat
    PROVE  Fee(amount) \in Nat /\ 10 * Fee(amount) <= amount
<1> DEFINE p == amount * FeeBps
<1>1. FeeBps \in 0 .. 1000
    BY ConstantsAssumption
<1>2. p \in Nat /\ p <= 1000 * amount
    BY <1>1
<1> HIDE DEF p
<1>3. p \div 10000 \in Nat /\ 10 * (p \div 10000) <= amount
    BY <1>2
<1>4. QED
    BY <1>3 DEF Fee, p

(* What a push does to the ledger when it passes.                          *)
Pushed(ledger, to, amount) ==
    /\ ledger[Escrow] >= amount
    /\ balance' = Transfer(ledger, Escrow, to, amount)

(* Settling keeps every type.                                              *)
LEMMA FinalizeType ==
    ASSUME TypeOK, NEW d \in Existing, Finalize(d)
    PROVE  TypeOK'
<1> DEFINE approved == approvalWeight[d]
           fee == Fee(approved)
           r == [demands[d] EXCEPT !.status = "Fulfilled",
                                   !.committed = demands[d].committed - approved]
<1>1. d \in DemandId
    BY ConstantsAssumption DEF TypeOK, Existing, DemandId
<1>2. /\ demands' = [demands EXCEPT ![d] = r]
      /\ approved <= demands[d].committed
      /\ totalEscrowed >= approved
      /\ balance[Escrow] >= fee
      /\ totalEscrowed' = totalEscrowed - approved
      /\ activeDemandByKey' = KeyCleared(d)
      /\ Pushed(AfterFee(fee), demands[d].builder, approved - fee)
    BY DEF Finalize, MayFinalize, Pushable, PushExact, Pushed
<1>3. approved \in Nat /\ demands[d] \in Demand
    BY <1>1 DEF TypeOK
<1>4. r \in Demand
  <2> HIDE DEF approved
  <2>1. demands[d].committed - approved \in Nat
      BY <1>2, <1>3 DEF Demand
  <2>2. QED
      BY <1>3, <2>1 DEF Demand, Status
<1>5. demands' \in [DemandId -> Demand]
  <2> HIDE DEF r
  <2>1. QED
      BY <1>1, <1>2, <1>4 DEF TypeOK
<1>6. fee \in Nat /\ fee <= approved
    BY <1>3, FeeBounds
<1>7. AfterFee(fee) \in [Holder -> Nat]
    BY <1>2, <1>6, EscrowApart, TransferType DEF AfterFee, TypeOK
<1>8. balance' \in [Holder -> Nat]
  <2> HIDE DEF fee, approved
  <2>1. approved - fee \in Nat
      BY <1>3, <1>6
  <2>2. QED
      BY <1>2, <1>7, <2>1, EscrowApart, TransferType DEF Pushed
<1>9. totalEscrowed' \in Nat
    BY <1>2, <1>3 DEF TypeOK
<1>10. activeDemandByKey' \in [Key -> DemandId \cup {0}]
    BY <1>2, KeyClearedType
<1>11. QED
    BY <1>5, <1>8, <1>9, <1>10 DEF TypeOK, Finalize, votes

(* Cancelling a settlement keeps every type.                               *)
LEMMA CancelSettlementType ==
    ASSUME TypeOK, NEW d \in Existing, CancelSettlement(d)
    PROVE  TypeOK'
<1>1. d \in DemandId
    BY ConstantsAssumption DEF TypeOK, Existing, DemandId
<1>2. [demands[d] EXCEPT !.status = "Cancelled"] \in Demand
  <2>1. demands[d] \in Demand
      BY <1>1 DEF TypeOK
  <2>2. QED
      BY <2>1 DEF Demand, Status
<1>3. demands' \in [DemandId -> Demand]
    BY <1>1, <1>2 DEF TypeOK, CancelSettlement, MayCancel
<1>4. activeDemandByKey' \in [Key -> DemandId \cup {0}]
    BY KeyClearedType DEF CancelSettlement, MayCancel
<1>5. QED
    BY <1>3, <1>4 DEF TypeOK, CancelSettlement, votes

(* Reopening a demand keeps every type.                                    *)
LEMMA ReopenType ==
    ASSUME TypeOK, NEW d \in Existing, Reopen(d)
    PROVE  TypeOK'
<1> DEFINE r == [demands[d] EXCEPT !.builder = NoOne, !.reviewEndsAt = 0,
                     !.reviewCommitted = 0, !.approvalRequired = 0, !.status = "Open"]
<1>1. d \in DemandId
    BY ConstantsAssumption DEF TypeOK, Existing, DemandId
<1>2. r \in Demand
  <2>1. demands[d] \in Demand
      BY <1>1 DEF TypeOK
  <2>2. QED
      BY <2>1 DEF Demand, Status
<1>3. demands' = [demands EXCEPT ![d] = r]
    BY DEF Reopen, MayReopen
<1>4. demands' \in [DemandId -> Demand]
  <2> HIDE DEF r
  <2>1. QED
      BY <1>1, <1>2, <1>3 DEF TypeOK
<1>5. /\ approvalWeight' \in [DemandId -> Nat]
      /\ rejectionWeight' \in [DemandId -> Nat]
    BY DEF TypeOK, Reopen, MayReopen
<1>6. QED
    BY <1>4, <1>5 DEF TypeOK, Reopen, keys

(* A refund keeps every type.                                              *)
LEMMA RefundType ==
    ASSUME TypeOK, NEW a \in Account, NEW d \in Existing, Refund(a, d)
    PROVE  TypeOK'
<1> DEFINE amount == commitmentOf[d][a]
           remaining == demands[d].committed - amount
           closes == remaining = 0
                     /\ demands[d].status \notin {"Fulfilled", "Cancelled"}
           ending == IF closes THEN "Closed" ELSE demands[d].status
           r == [demands[d] EXCEPT !.committed = remaining, !.status = ending]
<1>1. d \in DemandId
    BY ConstantsAssumption DEF TypeOK, Existing, DemandId
<1>2. /\ demands' = [demands EXCEPT ![d] = r]
      /\ demands[d].committed >= amount
      /\ totalEscrowed >= amount
      /\ commitmentOf' = [commitmentOf EXCEPT ![d][a] = 0]
      /\ activeDemandByKey' = IF closes THEN KeyCleared(d) ELSE activeDemandByKey
      /\ totalEscrowed' = totalEscrowed - amount
      /\ Pushed(balance, a, amount)
    BY DEF Refund, MayRefund, Pushable, PushExact, Pushed
<1>3. amount \in Nat /\ demands[d] \in Demand
    BY <1>1 DEF TypeOK
<1>4. remaining \in Nat
  <2> HIDE DEF amount
  <2>1. QED
      BY <1>2, <1>3 DEF Demand
<1>5. ending \in Status
    BY <1>3 DEF Demand, Status
<1>6. r \in Demand
  <2> HIDE DEF ending, remaining
  <2>1. QED
      BY <1>3, <1>4, <1>5 DEF Demand
<1>7. demands' \in [DemandId -> Demand]
  <2> HIDE DEF r
  <2>1. QED
      BY <1>1, <1>2, <1>6 DEF TypeOK
<1>8. balance' \in [Holder -> Nat]
  <2> HIDE DEF amount
  <2>1. QED
      BY <1>2, <1>3, EscrowApart, TransferType DEF Pushed, TypeOK
<1>9. commitmentOf' \in [DemandId -> [Account -> Nat]]
    BY <1>1, <1>2 DEF TypeOK
<1>10. totalEscrowed' \in Nat
    BY <1>2, <1>3 DEF TypeOK
<1>11. activeDemandByKey' \in [Key -> DemandId \cup {0}]
  <2> HIDE DEF closes
  <2>1. QED
      BY <1>2, KeyClearedType DEF TypeOK
<1>12. QED
    BY <1>7, <1>8, <1>9, <1>10, <1>11 DEF TypeOK, Refund, votes

(* The initial state has the types.                                        *)
LEMMA InitType == Init => TypeOK
<1> SUFFICES ASSUME Init PROVE TypeOK
    OBVIOUS
<1>1. MaxDemands \in Nat /\ MaxNonce \in Nat /\ InitialBalance \in Nat
    BY ConstantsAssumption
<1>2. EmptyDemand \in Demand
    BY DEF EmptyDemand, Demand, Status
<1>3. demands \in [DemandId -> Demand]
    BY <1>2 DEF Init
<1>4. 1 \in 1 .. MaxDemands + 1 /\ 0 \in Nonce
    BY <1>1 DEF Nonce
<1>5. QED
    BY <1>1, <1>3, <1>4 DEF Init, TypeOK

(* Every step keeps the types.                                             *)
LEMMA NextType == TypeOK /\ [Next]_vars => TypeOK'
<1> SUFFICES ASSUME TypeOK, [Next]_vars PROVE TypeOK'
    OBVIOUS
<1>1. CASE Tick
    BY <1>1 DEF TypeOK, Tick, votes, keys
<1>2. ASSUME NEW a \in Account, NEW k \in Key, NEW t \in Deadline, NEW n \in Amount,
             CreateDemand(a, k, t, n)
      PROVE  TypeOK'
    BY <1>2, CreateDemandType
<1>3. ASSUME NEW c, NEW v \in Verifier, SetVerifier(c, v)
      PROVE  TypeOK'
    BY <1>3, SetVerifierType
<1>4. ASSUME NEW d \in Existing, NEW a \in Account,
             \/ \E n \in Amount : SupportDemand(a, d, n)
             \/ \E att \in Attestation : SubmitService(a, d, att)
             \/ \E n \in Nonce : ApproveService(a, d, n) \/ RejectService(a, d, n)
             \/ Refund(a, d)
      PROVE  TypeOK'
    BY <1>4, SupportDemandType, SubmitServiceType, VoteType, RefundType
<1>5. ASSUME NEW d \in Existing, Finalize(d) \/ CancelSettlement(d) \/ Reopen(d)
      PROVE  TypeOK'
    BY <1>5, FinalizeType, CancelSettlementType, ReopenType
<1>6. CASE UNCHANGED vars
    BY <1>6 DEF TypeOK, vars, votes, keys
<1>7. QED
    BY <1>1, <1>2, <1>3, <1>4, <1>5, <1>6 DEF Next, Transaction

(* Type correctness: no transaction of the contract leaves the types, in   *)
(* particular no balance and no total ever goes below zero.                *)
THEOREM TypeCorrect == Spec => []TypeOK
<1>1. Init => TypeOK
    BY InitType
<1>2. TypeOK /\ [Next]_vars => TypeOK'
    BY NextType
<1>3. QED
    BY <1>1, <1>2, PTL DEF Spec

-------------------------------------------------------------------------------
(* The inductive invariant: what a step leaves alone.                      *)

(* Accounts and demand ids are finite sets.                                *)
LEMMA FiniteDomains == IsFiniteSet(Account) /\ IsFiniteSet(DemandId)
BY ConstantsAssumption, FS_Interval DEF DemandId

(* Time only makes a candidate fail and a demand expire.                   *)
LEMMA DemandFrame ==
    ASSUME TypeOK, TypeOK', NEW d \in DemandId, DemandInv(d), now' >= now,
           Existing' = Existing \/ (d \in Existing /\ d \in Existing'),
           demands'[d] = demands[d], commitmentOf'[d] = commitmentOf[d],
           submissionNonce'[d] = submissionNonce[d], demandKeyOf'[d] = demandKeyOf[d],
           approvalWeight'[d] = approvalWeight[d],
           rejectionWeight'[d] = rejectionWeight[d],
           hasApproved'[d] = hasApproved[d], hasRejected'[d] = hasRejected[d]
    PROVE  DemandInv(d)'
<1>1. Approvers(d)' = Approvers(d) /\ Rejecters(d)' = Rejecters(d)
    BY DEF Approvers, Rejecters
<1>2. Claims(d)' = Claims(d) /\ ApprovingStake(d)' = ApprovingStake(d)
    BY <1>1 DEF Claims, Claimants, ApprovingStake
<1>3. VotesBounded(d)' = VotesBounded(d)
    BY <1>1 DEF VotesBounded, Undecided
<1>4. TermsFixed(d)' = TermsFixed(d)
    BY DEF TermsFixed
<1>5. ApprovalsBacked(d) => ApprovalsBacked(d)'
  <2>1. /\ now \in Nat /\ now' \in Nat /\ demands[d].deadline \in Nat
        /\ demands[d].reviewEndsAt \in Nat
      BY DEF TypeOK, Demand
  <2>2. Expired(d) => Expired(d)'
      BY <2>1 DEF Expired
  <2>3. ReviewEnded(d) => ReviewEnded(d)'
      BY <2>1 DEF ReviewEnded
  <2>4. BelowQuorum(d)' = BelowQuorum(d) /\ CandidateRejected(d)' = CandidateRejected(d)
      BY DEF BelowQuorum, CandidateRejected
  <2>5. QED
      BY <1>2, <2>2, <2>3, <2>4 DEF ApprovalsBacked, CandidateFailed
<1>6. ReviewSound(d) => ReviewSound(d)'
    BY <1>1, <1>3, <1>4, <1>5 DEF ReviewSound
<1>7. SettlementSound(d) => SettlementSound(d)'
    BY <1>2, <1>4 DEF SettlementSound
<1>8. FutureVotesEmpty(d)' = FutureVotesEmpty(d) /\ Fresh(d)' = Fresh(d)
    BY DEF FutureVotesEmpty, Fresh, EmptyDemand
<1>9. d \in Existing' <=> d \in Existing
    OBVIOUS
<1>10. QED
    BY <1>2, <1>6, <1>7, <1>8, <1>9 DEF DemandInv, Funded

(* Nor does time revive a demand that may be replaced.                     *)
LEMMA ReplaceableFrame ==
    ASSUME TypeOK, TypeOK', NEW d \in DemandId, now' >= now,
           demands'[d] = demands[d],
           approvalWeight'[d] = approvalWeight[d],
           rejectionWeight'[d] = rejectionWeight[d],
           Replaceable(d)
    PROVE  Replaceable(d)'
<1>1. /\ now \in Nat /\ now' \in Nat /\ demands[d].deadline \in Nat
      /\ demands[d].reviewEndsAt \in Nat
    BY DEF TypeOK, Demand
<1>2. Expired(d) => Expired(d)'
    BY <1>1 DEF Expired
<1>3. ReviewEnded(d) => ReviewEnded(d)'
    BY <1>1 DEF ReviewEnded
<1>4. BelowQuorum(d)' = BelowQuorum(d) /\ CandidateRejected(d)' = CandidateRejected(d)
    BY DEF BelowQuorum, CandidateRejected
<1>5. QED
    BY <1>2, <1>3, <1>4 DEF Replaceable, CandidateFailed

(* A step on one demand changes what the demands hold by what it changes   *)
(* there.                                                                  *)
LEMMA CommittedUpdate ==
    ASSUME TypeOK, NEW d \in DemandId, NEW r \in Demand,
           demands' = [demands EXCEPT ![d] = r]
    PROVE  /\ Total(CommittedOf)' = Total(CommittedOf) - demands[d].committed + r.committed
           /\ Total(CommittedOf) \in Nat
           /\ demands[d].committed <= Total(CommittedOf)
           /\ demands[d].committed \in Nat
<1>1. CommittedOf \in [DemandId -> Nat] /\ CommittedOf[d] = demands[d].committed
    BY DEF CommittedOf, TypeOK, Demand
<1>2. r.committed \in Nat
    BY DEF Demand
<1>3. CommittedOf' = [CommittedOf EXCEPT ![d] = r.committed]
  <2>1. \A e \in DemandId : demands'[e] = IF e = d THEN r ELSE demands[e]
      BY DEF TypeOK
  <2>2. CommittedOf' = [e \in DemandId |-> IF e = d THEN r.committed ELSE CommittedOf[e]]
      BY <2>1 DEF CommittedOf
  <2>3. QED
      BY <1>1, <2>2
<1>4. Total(CommittedOf') = Total(CommittedOf) - CommittedOf[d] + r.committed
    BY <1>1, <1>2, <1>3, FiniteDomains, TotalUpdate
<1>5. Total(CommittedOf)' = Total(CommittedOf')
    OBVIOUS
<1>6. QED
    BY <1>1, <1>4, <1>5, FiniteDomains, TotalType, TotalBoundsEntry

(* The claims on a demand are amounts of its supporters.                   *)
LEMMA ClaimsType ==
    ASSUME TypeOK, NEW d \in DemandId
    PROVE  /\ commitmentOf[d] \in [Account -> Nat]
           /\ Claims(d) \in [Account -> Nat]
           /\ \A a \in Account :
                  Claims(d)[a] = IF a \in Claimants(d) THEN commitmentOf[d][a] ELSE 0
<1>1. commitmentOf[d] \in [Account -> Nat]
    BY DEF TypeOK
<1>2. QED
    BY <1>1, ShareType DEF Claims

(* The votes of the submission under review are sets of accounts.          *)
LEMMA VotersType ==
    ASSUME TypeOK, NEW d \in DemandId
    PROVE  Approvers(d) \subseteq Account /\ Rejecters(d) \subseteq Account
BY DEF TypeOK, Approvers, Rejecters

(* One member's share is the member's amount.                              *)
LEMMA ShareOfOne ==
    ASSUME NEW S, IsFiniteSet(S), NEW f \in [S -> Nat], NEW x \in S
    PROVE  Total(Share(f, {x})) = f[x]
<1> DEFINE g == Share(f, {x})
           z == [g EXCEPT ![x] = 0]
<1>1. g \in [S -> Nat] /\ g[x] = f[x] /\ \A y \in S : y # x => g[y] = 0
    BY ShareType
<1> HIDE DEF g
<1>2. Total(g) = Total(z) + g[x]
    BY <1>1, TotalSplit
<1>3. z \in [S -> Nat] /\ \A y \in S : z[y] = 0
    BY <1>1
<1> HIDE DEF z
<1>4. Total(z) = 0
    BY <1>3, TotalZero
<1>5. f[x] \in Nat
    OBVIOUS
<1>6. Total(g) = f[x]
    BY <1>1, <1>2, <1>4, <1>5
<1>7. QED
    BY <1>6 DEF g

(* The share of nobody is zero.                                            *)
LEMMA ShareOfNone ==
    ASSUME NEW S, IsFiniteSet(S), NEW f \in [S -> Nat]
    PROVE  Total(Share(f, {})) = 0
<1>1. Share(f, {}) \in [S -> Nat] /\ \A x \in S : Share(f, {})[x] = 0
    BY ShareType
<1>2. QED
    BY <1>1, TotalZero

(* The share of everybody is the whole.                                    *)
LEMMA ShareOfAll ==
    ASSUME NEW S, NEW f \in [S -> Nat]
    PROVE  Share(f, S) = f
BY DEF Share

-------------------------------------------------------------------------------
(* Creating a demand.                                                      *)
LEMMA CreateDemandInv ==
    ASSUME IInv, TypeOK', NEW a \in Account, NEW k \in Key, NEW t \in Deadline,
           NEW n \in Amount, NEW d, d = nextDemandId, CreateDemand(a, k, t, n)
    PROVE  /\ EscrowBacked'
           /\ \A e \in DemandId : DemandInv(e)'
           /\ \A e \in Existing : Replaceable(e) => Replaceable(e)'
           /\ OneLiveDemandPerKey'
<1> DEFINE r == [demands[d] EXCEPT !.creator = a, !.committed = n, !.deadline = t,
                                   !.supporterCount = 1, !.status = "Open"]
<1>0. TypeOK
    BY DEF IInv
<1>1. n \in Nat /\ t \in Nat /\ n > 0 /\ MaxDemands \in Nat
    BY ConstantsAssumption DEF CreateDemand
<1>2. /\ d <= MaxDemands /\ nextDemandId' = d + 1
      /\ demands' = [demands EXCEPT ![d] = r]
      /\ commitmentOf' = [commitmentOf EXCEPT ![d][a] = n]
      /\ totalEscrowed' = totalEscrowed + n
      /\ PullExact(a, n)
      /\ activeDemandByKey' = [activeDemandByKey EXCEPT ![k] = d]
      /\ demandKeyOf' = [demandKeyOf EXCEPT ![d] = k]
      /\ activeDemandByKey[k] # 0 => Replaceable(activeDemandByKey[k])
    BY DEF CreateDemand
<1>3. /\ now' = now /\ submissionNonce' = submissionNonce
      /\ approvalWeight' = approvalWeight /\ rejectionWeight' = rejectionWeight
      /\ hasApproved' = hasApproved /\ hasRejected' = hasRejected
    BY DEF CreateDemand, votes
<1>4. d \in DemandId /\ d \notin Existing /\ d # 0
    BY <1>0, <1>1, <1>2 DEF TypeOK, DemandId, Existing
<1>5. Existing \subseteq DemandId /\ Existing' = Existing \cup {d} /\ now \in Nat
  <2>1. d \in Nat /\ d >= 1 /\ now \in Nat
      BY <1>0, <1>1 DEF TypeOK
  <2>2. Existing = 1 .. d - 1 /\ Existing' = 1 .. d
      BY <1>2, <2>1 DEF Existing
  <2>3. QED
      BY <1>1, <1>2, <2>1, <2>2 DEF DemandId
<1>6. DemandInv(d) /\ Fresh(d)
    BY <1>4 DEF IInv, DemandInv
<1>7. /\ r \in Demand /\ r.committed = n /\ r.status = "Open" /\ demands'[d] = r
  <2>1. demands[d] \in Demand
      BY <1>0, <1>4 DEF TypeOK
  <2>2. r \in Demand /\ r.committed = n /\ r.status = "Open"
      BY <2>1, <1>1 DEF Demand, Status
  <2> HIDE DEF r
  <2>3. QED
      BY <2>2, <1>0, <1>2, <1>4 DEF TypeOK
<1> HIDE DEF r
<1>8. EscrowBacked'
  <2>1. demands[d].committed = 0
      BY <1>6 DEF Fresh, EmptyDemand
  <2>2. Total(CommittedOf)' = Total(CommittedOf) + n
    <3>1. /\ Total(CommittedOf)' = Total(CommittedOf) - demands[d].committed + r.committed
          /\ Total(CommittedOf) \in Nat
        BY <1>0, <1>2, <1>4, <1>7, CommittedUpdate
    <3>2. QED
        BY <1>1, <1>7, <2>1, <3>1
  <2>3. balance'[Escrow] = balance[Escrow] + n
    <3>1. balance \in [Holder -> Nat] /\ a \in Holder /\ a # Escrow /\ Escrow \in Holder
        BY <1>0, EscrowApart DEF TypeOK
    <3>2. n <= balance[a] /\ balance' = Transfer(balance, a, Escrow, n)
        BY <1>1, <1>2, <3>1 DEF PullExact
    <3>3. QED
        BY <1>1, <3>1, <3>2, TransferMoves
  <2>4. QED
      BY <1>2, <2>2, <2>3 DEF IInv, EscrowBacked
<1>9. ASSUME NEW e \in DemandId, e # d
      PROVE  DemandInv(e)'
  <2>1. /\ demands'[e] = demands[e] /\ commitmentOf'[e] = commitmentOf[e]
        /\ demandKeyOf'[e] = demandKeyOf[e]
      BY <1>0, <1>2, <1>4, <1>9 DEF TypeOK
  <2>2. DemandInv(e)
      BY DEF IInv
  <2>3. CASE e \in Existing
      BY <1>0, <1>3, <1>5, <2>1, <2>2, <2>3, DemandFrame
  <2>4. CASE e \notin Existing
    <3>1. e \notin Existing' /\ demands[e].status = "Open"
        BY <1>5, <1>9, <2>2, <2>4 DEF DemandInv, Fresh, EmptyDemand
    <3>2. Fresh(e)' /\ FutureVotesEmpty(e)'
        BY <1>3, <2>1, <2>2, <2>4 DEF DemandInv, Fresh, EmptyDemand, FutureVotesEmpty
    <3>3. Claims(e)' = Claims(e)
        BY <1>3, <2>1 DEF Claims, Claimants, Approvers
    <3>4. QED
        BY <2>1, <2>2, <3>1, <3>2, <3>3 DEF DemandInv, Funded
  <2>5. QED
      BY <2>3, <2>4
<1>10. DemandInv(d)'
  <2>1. demands[d].status = "Open"
      BY <1>6 DEF Fresh, EmptyDemand
  <2>2. Claimants(d) = Account /\ Claimants(d)' = Account
      BY <1>7, <2>1 DEF Claimants
  <2>3. commitmentOf'[d] = [commitmentOf[d] EXCEPT ![a] = n] /\ commitmentOf[d][a] = 0
      BY <1>0, <1>2, <1>4, <1>6 DEF TypeOK, Fresh
  <2>4. Claims(d) = commitmentOf[d] /\ Claims(d)' = commitmentOf'[d]
    <3>1. commitmentOf[d] \in [Account -> Nat] /\ commitmentOf'[d] \in [Account -> Nat]
        BY <1>0, <1>4 DEF TypeOK
    <3>2. QED
        BY <2>2, <3>1, ShareOfAll DEF Claims
  <2>5. Total(commitmentOf[d]) = 0
      BY <1>6, <2>4 DEF DemandInv, Fresh, EmptyDemand
  <2>6. Total(commitmentOf'[d]) = n
    <3>1. commitmentOf[d] \in [Account -> Nat]
        BY <1>0, <1>4 DEF TypeOK
    <3>2. Total([commitmentOf[d] EXCEPT ![a] = n])
              = Total(commitmentOf[d]) - commitmentOf[d][a] + n
        BY <1>1, <3>1, FiniteDomains, TotalUpdate
    <3>3. QED
        BY <1>1, <2>3, <2>5, <3>2
  <2>7. demandKeyOf'[d] = k
      BY <1>0, <1>2, <1>4 DEF TypeOK
  <2>8. FutureVotesEmpty(d)'
      BY <1>3, <1>6 DEF DemandInv, FutureVotesEmpty
  <2>9. d \in Existing'
      BY <1>5
  <2>10. QED
      BY <1>1, <1>7, <2>4, <2>6, <2>7, <2>8, <2>9 DEF DemandInv, Funded
<1>11. ASSUME NEW e \in Existing
       PROVE  /\ Replaceable(e)' = Replaceable(e)
              /\ demands'[e] = demands[e] /\ demandKeyOf'[e] = demandKeyOf[e]
  <2>1. demands'[e] = demands[e] /\ demandKeyOf'[e] = demandKeyOf[e]
      BY <1>0, <1>2, <1>4, <1>5 DEF TypeOK
  <2>2. QED
      BY <1>3, <2>1 DEF Replaceable, Expired, CandidateFailed, BelowQuorum,
                        ReviewEnded, CandidateRejected
<1>12. OneLiveDemandPerKey'
  <2>1. \A l \in Key : activeDemandByKey'[l] = IF l = k THEN d ELSE activeDemandByKey[l]
      BY <1>0, <1>2 DEF TypeOK
  <2>2. demandKeyOf'[d] = k
      BY <1>0, <1>2, <1>4 DEF TypeOK
  <2>3. ASSUME NEW e \in Existing', ~Replaceable(e)'
        PROVE  activeDemandByKey'[demandKeyOf'[e]] = e
    <3>1. CASE e = d
        BY <2>1, <2>2, <3>1
    <3>2. CASE e # d
      <4>1. e \in Existing /\ e # 0
          BY <1>5, <3>2 DEF Existing
      <4>2. ~Replaceable(e) /\ demandKeyOf'[e] = demandKeyOf[e]
          BY <1>11, <2>3, <4>1
      <4>3. activeDemandByKey[demandKeyOf[e]] = e
          BY <4>1, <4>2 DEF IInv, OneLiveDemandPerKey
      <4>4. demandKeyOf[e] # k
          BY <1>2, <4>1, <4>2, <4>3
      <4>5. demandKeyOf[e] \in Key
          BY <1>5, <4>1 DEF IInv, DemandInv
      <4>6. QED
          BY <2>1, <4>2, <4>3, <4>4, <4>5
    <3>3. QED
        BY <3>1, <3>2
  <2>4. ASSUME NEW l \in Key, activeDemandByKey'[l] # 0
        PROVE  /\ activeDemandByKey'[l] \in Existing'
               /\ demandKeyOf'[activeDemandByKey'[l]] = l
               /\ demands'[activeDemandByKey'[l]].status \in {"Open", "Submitted"}
    <3>1. CASE l = k
        BY <1>5, <1>7, <2>1, <2>2, <3>1
    <3>2. CASE l # k
      <4>1. activeDemandByKey'[l] = activeDemandByKey[l]
          BY <2>1, <3>2
      <4>2. /\ activeDemandByKey[l] \in Existing
            /\ demandKeyOf[activeDemandByKey[l]] = l
            /\ demands[activeDemandByKey[l]].status \in {"Open", "Submitted"}
          BY <2>4, <4>1 DEF IInv, OneLiveDemandPerKey
      <4>3. QED
          BY <1>5, <1>11, <4>1, <4>2
    <3>3. QED
        BY <3>1, <3>2
  <2>5. QED
      BY <2>3, <2>4 DEF OneLiveDemandPerKey
<1>13. QED
    BY <1>8, <1>9, <1>10, <1>11, <1>12

-------------------------------------------------------------------------------
(* The pieces the other steps share.                                       *)

(* Tokens pulled from an account arrive in the escrow.                     *)
LEMMA PullIntoEscrow ==
    ASSUME TypeOK, NEW a \in Account, NEW n \in Nat, PullExact(a, n)
    PROVE  balance'[Escrow] = balance[Escrow] + n
<1>1. balance \in [Holder -> Nat] /\ a \in Holder /\ a # Escrow /\ Escrow \in Holder
    BY EscrowApart DEF TypeOK
<1>2. n <= balance[a] /\ balance' = Transfer(balance, a, Escrow, n)
    BY <1>1 DEF PullExact
<1>3. QED
    BY <1>1, <1>2, TransferMoves

(* Tokens pushed to an account leave the escrow.                           *)
LEMMA PushOutOfEscrow ==
    ASSUME NEW ledger \in [Holder -> Nat], NEW a \in Account, NEW n \in Nat,
           Pushed(ledger, a, n)
    PROVE  balance'[Escrow] = ledger[Escrow] - n
<1>1. a \in Holder /\ a # Escrow /\ Escrow \in Holder
    BY EscrowApart
<1>2. n <= ledger[Escrow] /\ balance' = Transfer(ledger, Escrow, a, n)
    BY <1>1 DEF Pushed
<1>3. QED
    BY <1>1, <1>2, TransferMoves

(* An existing demand has an id.                                           *)
LEMMA ExistingHasId ==
    ASSUME TypeOK
    PROVE  Existing \subseteq DemandId /\ 0 \notin Existing /\ now \in Nat
<1>1. nextDemandId \in 1 .. MaxDemands + 1 /\ MaxDemands \in Nat /\ now \in Nat
    BY ConstantsAssumption DEF TypeOK
<1>2. QED
    BY <1>1 DEF Existing, DemandId

(* A step on demand d alone, with the clock standing still.                *)
StepOn(d) ==
    /\ now' = now /\ nextDemandId' = nextDemandId /\ demandKeyOf' = demandKeyOf
    /\ \A e \in DemandId \ {d} :
           /\ demands'[e] = demands[e] /\ commitmentOf'[e] = commitmentOf[e]
           /\ submissionNonce'[e] = submissionNonce[e]
           /\ approvalWeight'[e] = approvalWeight[e]
           /\ rejectionWeight'[e] = rejectionWeight[e]
           /\ hasApproved'[e] = hasApproved[e] /\ hasRejected'[e] = hasRejected[e]

(* Such a step keeps what the others rely on.                              *)
LEMMA OthersKept ==
    ASSUME IInv, TypeOK', NEW d \in Existing, StepOn(d),
           DemandInv(d)', Replaceable(d) => Replaceable(d)'
    PROVE  /\ \A e \in DemandId : DemandInv(e)'
           /\ \A e \in Existing : Replaceable(e) => Replaceable(e)'
           /\ Existing' = Existing
<1>1. TypeOK /\ Existing \subseteq DemandId /\ now' >= now
    BY ExistingHasId DEF IInv, StepOn
<1>2. Existing' = Existing
    BY DEF StepOn, Existing
<1>3. ASSUME NEW e \in DemandId, e # d
      PROVE  DemandInv(e)'
    BY <1>1, <1>2, <1>3, DemandFrame DEF IInv, StepOn
<1>4. ASSUME NEW e \in Existing, e # d, Replaceable(e)
      PROVE  Replaceable(e)'
    BY <1>1, <1>4, ReplaceableFrame DEF StepOn
<1>5. QED
    BY <1>2, <1>3, <1>4

(* The key index stays right when it is left alone and nothing ends.       *)
LEMMA KeysUntouched ==
    ASSUME IInv, Existing' = Existing,
           activeDemandByKey' = activeDemandByKey, demandKeyOf' = demandKeyOf,
           \A e \in Existing : Replaceable(e) => Replaceable(e)',
           \A e \in Existing : demands[e].status \in {"Open", "Submitted"} =>
               demands'[e].status \in {"Open", "Submitted"}
    PROVE  OneLiveDemandPerKey'
BY DEF IInv, OneLiveDemandPerKey

(* It stays right when a demand ends and gives its key back.               *)
LEMMA KeyGivenBack ==
    ASSUME IInv, NEW d \in Existing, Existing' = Existing,
           activeDemandByKey' = KeyCleared(d), demandKeyOf' = demandKeyOf,
           \A e \in Existing : Replaceable(e) => Replaceable(e)',
           Replaceable(d)',
           \A e \in Existing \ {d} : demands'[e].status = demands[e].status
    PROVE  OneLiveDemandPerKey'
<1>1. TypeOK /\ 0 \notin Key /\ d \in DemandId /\ d # 0
    BY ExistingHasId, ConstantsAssumption DEF IInv
<1>2. demandKeyOf[d] \in Key
    BY <1>1 DEF IInv, DemandInv
<1>3. \A l \in Key : activeDemandByKey'[l] =
          IF l = demandKeyOf[d] /\ activeDemandByKey[l] = d THEN 0
          ELSE activeDemandByKey[l]
  <2>1. activeDemandByKey \in [Key -> DemandId \cup {0}] /\ demandKeyOf[d] # 0
      BY <1>1, <1>2 DEF TypeOK
  <2>2. CASE activeDemandByKey[demandKeyOf[d]] = d
    <3>1. activeDemandByKey' = [activeDemandByKey EXCEPT ![demandKeyOf[d]] = 0]
        BY <2>1, <2>2 DEF KeyCleared
    <3>2. QED
        BY <1>2, <2>1, <2>2, <3>1
  <2>3. CASE activeDemandByKey[demandKeyOf[d]] # d
    <3>1. activeDemandByKey' = activeDemandByKey
        BY <2>3 DEF KeyCleared
    <3>2. QED
        BY <2>3, <3>1
  <2>4. QED
      BY <2>2, <2>3
<1>4. ASSUME NEW e \in Existing, ~Replaceable(e)'
      PROVE  activeDemandByKey'[demandKeyOf[e]] = e
  <2>1. e # d /\ ~Replaceable(e)
      BY <1>4
  <2>2. activeDemandByKey[demandKeyOf[e]] = e
      BY <2>1 DEF IInv, OneLiveDemandPerKey
  <2>3. demandKeyOf[e] \in Key
      BY <1>1, ExistingHasId DEF IInv, DemandInv
  <2>4. QED
      BY <1>3, <2>1, <2>2, <2>3
<1>5. ASSUME NEW l \in Key, activeDemandByKey'[l] # 0
      PROVE  /\ activeDemandByKey'[l] \in Existing
             /\ demandKeyOf[activeDemandByKey'[l]] = l
             /\ demands'[activeDemandByKey'[l]].status \in {"Open", "Submitted"}
  <2>1. activeDemandByKey'[l] = activeDemandByKey[l]
      BY <1>3, <1>5
  <2>2. /\ activeDemandByKey[l] \in Existing
        /\ demandKeyOf[activeDemandByKey[l]] = l
        /\ demands[activeDemandByKey[l]].status \in {"Open", "Submitted"}
      BY <1>5, <2>1 DEF IInv, OneLiveDemandPerKey
  <2>3. activeDemandByKey[l] # d
      BY <1>3, <1>5, <2>1, <2>2
  <2>4. QED
      BY <2>1, <2>2, <2>3
<1>6. QED
    BY <1>4, <1>5 DEF OneLiveDemandPerKey

(* What every step lemma below concludes.                                  *)
StepKeeps ==
    /\ EscrowBacked'
    /\ \A e \in DemandId : DemandInv(e)'
    /\ \A e \in Existing : Replaceable(e) => Replaceable(e)'
    /\ OneLiveDemandPerKey'

-------------------------------------------------------------------------------
(* Supporting a demand.                                                    *)
LEMMA SupportDemandInv ==
    ASSUME IInv, TypeOK', NEW a \in Account, NEW d \in Existing, NEW n \in Amount,
           SupportDemand(a, d, n)
    PROVE  StepKeeps
<1> DEFINE r == [demands[d] EXCEPT
                     !.committed = demands[d].committed + n,
                     !.supporterCount = demands[d].supporterCount
                         + SupporterAdded(commitmentOf[d][a])]
<1>1. /\ TypeOK /\ d \in DemandId /\ n \in Nat /\ n > 0
      /\ DemandInv(d) /\ EscrowBacked /\ demands[d] \in Demand
  <2>1. n \in Nat /\ n > 0
      BY ConstantsAssumption DEF SupportDemand
  <2>2. TypeOK /\ d \in DemandId
      BY ExistingHasId DEF IInv
  <2>3. QED
      BY <2>1, <2>2 DEF IInv, TypeOK
<1>2. /\ demands' = [demands EXCEPT ![d] = r]
      /\ commitmentOf' = [commitmentOf EXCEPT ![d][a] = commitmentOf[d][a] + n]
      /\ totalEscrowed' = totalEscrowed + n
      /\ PullExact(a, n)
      /\ demands[d].status = "Open" /\ ~Expired(d)
    BY DEF SupportDemand
<1>3. /\ now' = now /\ nextDemandId' = nextDemandId /\ demandKeyOf' = demandKeyOf
      /\ activeDemandByKey' = activeDemandByKey /\ submissionNonce' = submissionNonce
      /\ approvalWeight' = approvalWeight /\ rejectionWeight' = rejectionWeight
      /\ hasApproved' = hasApproved /\ hasRejected' = hasRejected
    BY DEF SupportDemand, votes, keys
<1>4. /\ r \in Demand /\ r.committed = demands[d].committed + n /\ r.status = "Open"
      /\ r.deadline = demands[d].deadline
  <2>1. /\ demands[d].committed + n \in Nat
        /\ demands[d].supporterCount
               + SupporterAdded(commitmentOf[d][a]) \in Nat
      BY <1>1 DEF Demand, SupporterAdded
  <2>2. QED
      BY <1>1, <1>2, <2>1 DEF Demand
<1> HIDE DEF r
<1>5. demands'[d] = r /\ commitmentOf'[d] = [commitmentOf[d] EXCEPT ![a] = @ + n]
    BY <1>1, <1>2 DEF TypeOK
<1>6. StepOn(d)
    BY <1>1, <1>2, <1>3 DEF StepOn, TypeOK
<1>7. EscrowBacked'
  <2>1. /\ Total(CommittedOf)' = Total(CommittedOf) - demands[d].committed + r.committed
        /\ Total(CommittedOf) \in Nat /\ demands[d].committed \in Nat
      BY <1>1, <1>2, <1>4, CommittedUpdate
  <2>2. Total(CommittedOf)' = Total(CommittedOf) + n
      BY <1>1, <1>4, <2>1
  <2>3. balance'[Escrow] = balance[Escrow] + n
      BY <1>1, <1>2, PullIntoEscrow
  <2>4. QED
      BY <1>1, <1>2, <2>2, <2>3 DEF EscrowBacked
<1>8. DemandInv(d)'
  <2>1. Claimants(d) = Account /\ Claimants(d)' = Account
      BY <1>2, <1>4, <1>5 DEF Claimants
  <2>2. commitmentOf[d] \in [Account -> Nat] /\ commitmentOf'[d] \in [Account -> Nat]
      BY <1>1 DEF TypeOK
  <2>3. Claims(d) = commitmentOf[d] /\ Claims(d)' = commitmentOf'[d]
      BY <2>1, <2>2, ShareOfAll DEF Claims
  <2>4. commitmentOf[d][a] \in Nat /\ Total(commitmentOf[d]) \in Nat
      BY <2>2, FiniteDomains, TotalType
  <2>5. Total([commitmentOf[d] EXCEPT ![a] = commitmentOf[d][a] + n])
            = Total(commitmentOf[d]) - commitmentOf[d][a] + (commitmentOf[d][a] + n)
      BY <1>1, <2>2, <2>4, FiniteDomains, TotalUpdate
  <2>6. Total(commitmentOf'[d]) = Total(commitmentOf[d]) + n
      BY <1>1, <1>5, <2>4, <2>5
  <2>7. demands'[d].committed = Total(Claims(d))'
      BY <1>1, <1>4, <1>5, <2>3, <2>6 DEF DemandInv
  <2>8. FutureVotesEmpty(d)' /\ (d \in Existing)' /\ demandKeyOf'[d] \in Key
      BY <1>1, <1>3 DEF DemandInv, FutureVotesEmpty, Existing
  <2>9. Funded(d)'
      BY <1>1, <1>4, <1>5 DEF Funded, Demand
  <2>10. QED
      BY <1>4, <1>5, <2>7, <2>8, <2>9 DEF DemandInv
<1>9. ~Replaceable(d)
    BY <1>2 DEF Replaceable
<1>10. /\ \A e \in DemandId : DemandInv(e)'
       /\ \A e \in Existing : Replaceable(e) => Replaceable(e)'
       /\ Existing' = Existing
    BY <1>6, <1>8, <1>9, OthersKept
<1>11. OneLiveDemandPerKey'
  <2>1. \A e \in Existing : demands[e].status \in {"Open", "Submitted"} =>
            demands'[e].status \in {"Open", "Submitted"}
      BY <1>1, <1>4, <1>5, <1>6, ExistingHasId DEF StepOn
  <2>2. QED
      BY <1>3, <1>10, <2>1, KeysUntouched
<1>12. QED
    BY <1>7, <1>10, <1>11 DEF StepKeeps

-------------------------------------------------------------------------------
(* Submitting a service: the review starts with a clean slate.             *)
LEMMA SubmitServiceInv ==
    ASSUME IInv, TypeOK', NEW a \in Account, NEW d \in Existing, NEW att \in Attestation,
           SubmitService(a, d, att)
    PROVE  StepKeeps
<1> DEFINE c == demands[d].committed
           quorum == CeilDiv(c * QuorumBps, 10000)
           r == [demands[d] EXCEPT
                     !.builder = a, !.reviewEndsAt = now + ReviewPeriod,
                     !.reviewCommitted = demands[d].committed,
                     !.approvalRequired = quorum, !.status = "Submitted"]
           nonce == submissionNonce[d] + 1
<1>1. TypeOK /\ d \in DemandId /\ DemandInv(d) /\ EscrowBacked /\ demands[d] \in Demand
  <2>1. TypeOK /\ d \in DemandId
      BY ExistingHasId DEF IInv
  <2>2. QED
      BY <2>1 DEF IInv, TypeOK
<1>2. /\ demands' = [demands EXCEPT ![d] = r]
      /\ nonce <= MaxNonce
      /\ submissionNonce' = [submissionNonce EXCEPT ![d] = nonce]
      /\ approvalWeight' = [approvalWeight EXCEPT ![d] = 0]
      /\ rejectionWeight' = [rejectionWeight EXCEPT ![d] = 0]
      /\ demands[d].status = "Open" /\ ~Expired(d)
    BY DEF SubmitService
<1>3. /\ now' = now /\ nextDemandId' = nextDemandId /\ demandKeyOf' = demandKeyOf
      /\ activeDemandByKey' = activeDemandByKey /\ commitmentOf' = commitmentOf
      /\ totalEscrowed' = totalEscrowed /\ balance' = balance
      /\ hasApproved' = hasApproved /\ hasRejected' = hasRejected
    BY DEF SubmitService, keys
<1>4. c \in Nat /\ c > 0
    BY <1>1, <1>2 DEF DemandInv, Funded, Demand
<1>5. quorum \in Nat
    BY <1>4, QuorumBounds
<1>6. /\ r \in Demand /\ r.committed = c /\ r.status = "Submitted"
      /\ r.builder = a /\ r.reviewCommitted = c /\ r.approvalRequired = quorum
  <2> HIDE DEF quorum
  <2>1. now + ReviewPeriod \in Nat
      BY <1>1, ConstantsAssumption DEF TypeOK
  <2>2. QED
      BY <1>1, <1>4, <1>5, <2>1 DEF Demand, Status
<1> HIDE DEF r, quorum
<1>7. /\ demands'[d] = r /\ submissionNonce'[d] = nonce
      /\ approvalWeight'[d] = 0 /\ rejectionWeight'[d] = 0
    BY <1>1, <1>2 DEF TypeOK
<1>8. StepOn(d)
    BY <1>1, <1>2, <1>3 DEF StepOn, TypeOK
<1>9. EscrowBacked'
  <2>1. /\ Total(CommittedOf)' = Total(CommittedOf) - demands[d].committed + r.committed
        /\ Total(CommittedOf) \in Nat /\ demands[d].committed \in Nat
      BY <1>1, <1>2, <1>6, CommittedUpdate
  <2>2. Total(CommittedOf)' = Total(CommittedOf)
      BY <1>6, <2>1
  <2>3. QED
      BY <1>1, <1>3, <2>2 DEF EscrowBacked
<1>10. nonce \in Nonce /\ nonce > submissionNonce[d] /\ submissionNonce[d] \in Nat
    BY <1>1, <1>2, ConstantsAssumption DEF TypeOK, Nonce
<1>11. Approvers(d)' = {} /\ Rejecters(d)' = {}
    BY <1>1, <1>3, <1>7, <1>10 DEF DemandInv, FutureVotesEmpty, Approvers, Rejecters
<1>12. Claims(d) = commitmentOf[d] /\ Claims(d)' = commitmentOf[d]
  <2>1. Claimants(d) = Account /\ Claimants(d)' = Account
      BY <1>2, <1>6, <1>7 DEF Claimants
  <2>2. commitmentOf[d] \in [Account -> Nat]
      BY <1>1 DEF TypeOK
  <2>3. QED
      BY <1>3, <2>1, <2>2, ShareOfAll DEF Claims
<1>13. c = Total(commitmentOf[d])
    BY <1>1, <1>12 DEF DemandInv
<1>14. ReviewSound(d)'
  <2>1. TermsFixed(d)'
      BY <1>4, <1>6, <1>7 DEF TermsFixed, quorum
  <2>2. commitmentOf[d] \in [Account -> Nat]
      BY <1>1 DEF TypeOK
  <2>3. ApprovingStake(d)' = 0
      BY <1>3, <1>11, <2>2, FiniteDomains, ShareOfNone DEF ApprovingStake
  <2>4. VotesBounded(d)'
    <3>1. Undecided(d)' = Account
        BY <1>11 DEF Undecided
    <3>2. Total(Share(commitmentOf[d], Account)) = c
        BY <1>13, <2>2, ShareOfAll
    <3>3. QED
        BY <1>3, <1>4, <1>6, <1>7, <3>1, <3>2 DEF VotesBounded
  <2>5. ApprovalsBacked(d)'
      BY <1>7, <2>3 DEF ApprovalsBacked
  <2>6. QED
      BY <1>6, <1>7, <1>11, <2>1, <2>4, <2>5 DEF ReviewSound
<1>15. DemandInv(d)'
  <2>1. (d \in Existing)' /\ demandKeyOf'[d] \in Key
      BY <1>1, <1>3 DEF DemandInv, Existing
  <2>2. FutureVotesEmpty(d)'
    <3>1. \A n \in Nonce : n > nonce => n > submissionNonce[d]
        BY <1>10 DEF Nonce
    <3>2. QED
        BY <1>1, <1>3, <1>7, <3>1 DEF DemandInv, FutureVotesEmpty
  <2>3. Funded(d)'
      BY <1>4, <1>6, <1>7 DEF Funded
  <2>4. demands'[d].committed = Total(Claims(d))'
      BY <1>6, <1>7, <1>12, <1>13
  <2>5. QED
      BY <1>6, <1>7, <1>14, <2>1, <2>2, <2>3, <2>4 DEF DemandInv
<1>16. ~Replaceable(d)
    BY <1>2 DEF Replaceable
<1>17. /\ \A e \in DemandId : DemandInv(e)'
       /\ \A e \in Existing : Replaceable(e) => Replaceable(e)'
       /\ Existing' = Existing
    BY <1>8, <1>15, <1>16, OthersKept
<1>18. OneLiveDemandPerKey'
  <2>1. \A e \in Existing : demands[e].status \in {"Open", "Submitted"} =>
            demands'[e].status \in {"Open", "Submitted"}
      BY <1>1, <1>6, <1>7, <1>8, ExistingHasId DEF StepOn
  <2>2. QED
      BY <1>3, <1>17, <2>1, KeysUntouched
<1>19. QED
    BY <1>9, <1>17, <1>18 DEF StepKeeps

-------------------------------------------------------------------------------
(* Voting: a vote moves one supporter's stake from the undecided to one    *)
(* side, so the units that voted never exceed the snapshot.                *)

(* What both votes leave alone, and what they are allowed to assume.       *)
LEMMA VoteFacts ==
    ASSUME IInv, NEW a \in Account, NEW d \in Existing, NEW n \in Nonce,
           ApproveService(a, d, n) \/ RejectService(a, d, n)
    PROVE  /\ TypeOK /\ d \in DemandId /\ EscrowBacked /\ DemandInv(d)
           /\ ReviewSound(d) /\ demands[d] \in Demand
           /\ demands[d].status = "Submitted" /\ ~ReviewEnded(d)
           /\ n = submissionNonce[d]
           /\ a \notin Approvers(d) /\ a \notin Rejecters(d)
           /\ commitmentOf[d][a] \in Nat /\ commitmentOf[d] \in [Account -> Nat]
           /\ approvalWeight[d] \in Nat /\ rejectionWeight[d] \in Nat
           /\ now' = now /\ nextDemandId' = nextDemandId
           /\ demandKeyOf' = demandKeyOf /\ activeDemandByKey' = activeDemandByKey
           /\ demands' = demands /\ commitmentOf' = commitmentOf
           /\ submissionNonce' = submissionNonce
           /\ totalEscrowed' = totalEscrowed /\ balance' = balance
<1>1. MayVote(a, d, n)
    BY DEF ApproveService, RejectService
<1>2. TypeOK /\ d \in DemandId
    BY ExistingHasId DEF IInv
<1>3. EscrowBacked /\ DemandInv(d) /\ demands[d] \in Demand
    BY <1>2 DEF IInv, TypeOK
<1>4. demands[d].status = "Submitted" /\ ReviewSound(d)
    BY <1>1, <1>3 DEF MayVote, DemandInv
<1>5. /\ commitmentOf[d][a] \in Nat /\ commitmentOf[d] \in [Account -> Nat]
      /\ approvalWeight[d] \in Nat /\ rejectionWeight[d] \in Nat
    BY <1>2 DEF TypeOK
<1>6. /\ now' = now /\ nextDemandId' = nextDemandId
      /\ demandKeyOf' = demandKeyOf /\ activeDemandByKey' = activeDemandByKey
      /\ demands' = demands /\ commitmentOf' = commitmentOf
      /\ submissionNonce' = submissionNonce
      /\ totalEscrowed' = totalEscrowed /\ balance' = balance
    BY DEF ApproveService, RejectService, keys
<1>7. QED
    BY <1>1, <1>2, <1>3, <1>4, <1>5, <1>6 DEF MayVote

(* Taking one voter from the undecided.                                    *)
LEMMA OneLessUndecided ==
    ASSUME TypeOK, NEW d \in DemandId, NEW a \in Account,
           a \notin Approvers(d), a \notin Rejecters(d)
    PROVE  LET left == Undecided(d) \ {a}
           IN  /\ Total(Share(commitmentOf[d], Undecided(d)))
                       = Total(Share(commitmentOf[d], left)) + commitmentOf[d][a]
               /\ Total(Share(commitmentOf[d], left)) \in Nat
<1> DEFINE left == Undecided(d) \ {a}
<1>1. commitmentOf[d] \in [Account -> Nat]
    BY DEF TypeOK
<1>2. left \cap {a} = {} /\ left \cup {a} = Undecided(d)
    BY DEF Undecided
<1> HIDE DEF left
<1>3. Total(Share(commitmentOf[d], Undecided(d)))
          = Total(Share(commitmentOf[d], left)) + Total(Share(commitmentOf[d], {a}))
    BY <1>1, <1>2, FiniteDomains, ShareSplit
<1>4. Total(Share(commitmentOf[d], {a})) = commitmentOf[d][a]
    BY <1>1, FiniteDomains, ShareOfOne
<1>5. Total(Share(commitmentOf[d], left)) \in Nat
    BY <1>1, FiniteDomains, ShareType, TotalType
<1>6. QED
    BY <1>3, <1>4, <1>5 DEF left

(* Approving a submission.                                                 *)
LEMMA ApproveServiceInv ==
    ASSUME IInv, TypeOK', NEW a \in Account, NEW d \in Existing, NEW n \in Nonce,
           ApproveService(a, d, n)
    PROVE  StepKeeps
<1> DEFINE w == commitmentOf[d][a]
           left == Undecided(d) \ {a}
           rest == Total(Share(commitmentOf[d], left))
<1>1. /\ TypeOK /\ d \in DemandId /\ EscrowBacked /\ DemandInv(d)
      /\ ReviewSound(d) /\ demands[d] \in Demand
      /\ demands[d].status = "Submitted" /\ ~ReviewEnded(d)
      /\ n = submissionNonce[d]
      /\ a \notin Approvers(d) /\ a \notin Rejecters(d)
      /\ w \in Nat /\ commitmentOf[d] \in [Account -> Nat]
      /\ approvalWeight[d] \in Nat /\ rejectionWeight[d] \in Nat
      /\ now' = now /\ nextDemandId' = nextDemandId
      /\ demandKeyOf' = demandKeyOf /\ activeDemandByKey' = activeDemandByKey
      /\ demands' = demands /\ commitmentOf' = commitmentOf
      /\ submissionNonce' = submissionNonce
      /\ totalEscrowed' = totalEscrowed /\ balance' = balance
    BY VoteFacts
<1>2. /\ rejectionWeight' = rejectionWeight /\ hasRejected' = hasRejected
      /\ approvalWeight' = [approvalWeight EXCEPT ![d] = approvalWeight[d] + w]
      /\ hasApproved' = [hasApproved EXCEPT ![d][n] = hasApproved[d][n] \cup {a}]
    BY DEF ApproveService
<1>3. /\ approvalWeight'[d] = approvalWeight[d] + w
      /\ Approvers(d)' = Approvers(d) \cup {a} /\ Rejecters(d)' = Rejecters(d)
    BY <1>1, <1>2 DEF TypeOK, Approvers, Rejecters
<1>4. StepOn(d)
    BY <1>1, <1>2 DEF StepOn, TypeOK
<1>5. EscrowBacked'
  <2>1. CommittedOf' = CommittedOf
      BY <1>1 DEF CommittedOf
  <2>2. QED
      BY <1>1, <2>1 DEF EscrowBacked
<1>6. Undecided(d)' = left
    BY <1>1, <1>3 DEF Undecided
<1>7. /\ Total(Share(commitmentOf[d], Undecided(d))) = rest + w
      /\ rest \in Nat
    BY <1>1, OneLessUndecided
<1> HIDE DEF left, rest
<1>8. Total(Share(commitmentOf[d], Undecided(d)))' = rest
    BY <1>1, <1>6 DEF rest
<1>9. VotesBounded(d)'
  <2>1. approvalWeight[d] + rejectionWeight[d] + (rest + w) <= demands[d].reviewCommitted
      BY <1>1, <1>7 DEF ReviewSound, VotesBounded
  <2>2. demands[d].reviewCommitted \in Nat
      BY <1>1 DEF Demand
  <2>3. approvalWeight'[d] + rejectionWeight'[d] + rest <= demands[d].reviewCommitted
      BY <1>1, <1>2, <1>3, <1>7, <2>1, <2>2
  <2>4. QED
      BY <1>1, <1>8, <2>3 DEF VotesBounded
<1>10. approvalWeight'[d] + rejectionWeight'[d] <= demands[d].reviewCommitted
  <2>1. approvalWeight'[d] \in Nat /\ rejectionWeight'[d] \in Nat
      BY <1>1 DEF TypeOK
  <2>2. demands[d].reviewCommitted \in Nat
      BY <1>1 DEF Demand
  <2>3. approvalWeight'[d] + rejectionWeight'[d] + rest <= demands[d].reviewCommitted
      BY <1>1, <1>8, <1>9 DEF VotesBounded
  <2>4. QED
      BY <1>7, <2>1, <2>2, <2>3
(* A candidate that was voted down stays down. *)
<1>11. CandidateRejected(d) => CandidateRejected(d)' /\ BelowQuorum(d)'
  <2>1. /\ demands[d].reviewCommitted \in Nat /\ demands[d].approvalRequired \in Nat
        /\ approvalWeight'[d] \in Nat /\ rejectionWeight'[d] \in Nat
        /\ rejectionWeight'[d] >= rejectionWeight[d]
      BY <1>1, <1>2, <1>3 DEF TypeOK, Demand
  <2>2. QED
      BY <1>1, <1>10, <2>1 DEF CandidateRejected, BelowQuorum
<1>12. CandidateFailed(d) => CandidateFailed(d)'
    BY <1>1, <1>11 DEF CandidateFailed
<1>13. Expired(d)' = Expired(d)
    BY <1>1 DEF Expired
<1>14. ApprovalsBacked(d)'
  <2>1. CASE approvalWeight[d] = ApprovingStake(d)
    <3>1. Approvers(d) \cap {a} = {}
        BY <1>1
    <3>2. Total(Share(commitmentOf[d], Approvers(d) \cup {a}))
              = Total(Share(commitmentOf[d], Approvers(d)))
                + Total(Share(commitmentOf[d], {a}))
        BY <1>1, <3>1, FiniteDomains, ShareSplit
    <3>3. Total(Share(commitmentOf[d], {a})) = w
        BY <1>1, FiniteDomains, ShareOfOne
    <3>4. ApprovingStake(d)' = Total(Share(commitmentOf[d], Approvers(d) \cup {a}))
        BY <1>1, <1>3 DEF ApprovingStake
    <3>5. ApprovingStake(d)' = approvalWeight'[d]
        BY <1>3, <2>1, <3>2, <3>3, <3>4 DEF ApprovingStake
    <3>6. QED
        BY <3>5 DEF ApprovalsBacked
  <2>2. CASE Expired(d) /\ CandidateFailed(d)
      BY <1>12, <1>13, <2>2 DEF ApprovalsBacked
  <2>3. QED
      BY <1>1, <2>1, <2>2 DEF ReviewSound, ApprovalsBacked
<1>15. ReviewSound(d)'
  <2>1. TermsFixed(d)'
      BY <1>1 DEF ReviewSound, TermsFixed
  <2>2. Approvers(d)' \cap Rejecters(d)' = {}
      BY <1>1, <1>3 DEF ReviewSound
  <2>3. QED
      BY <1>1, <1>9, <1>14, <2>1, <2>2 DEF ReviewSound
<1>16. DemandInv(d)'
  <2>1. (d \in Existing)' /\ Funded(d)'
      BY <1>1 DEF DemandInv, Existing, Funded
  <2>2. FutureVotesEmpty(d)'
    <3>1. \A m \in Nonce : m # n => hasApproved'[d][m] = hasApproved[d][m]
        BY <1>1, <1>2 DEF TypeOK
    <3>2. \A m \in Nonce : m > n => m # n
        BY ConstantsAssumption DEF Nonce
    <3>3. QED
        BY <1>1, <1>2, <3>1, <3>2 DEF DemandInv, FutureVotesEmpty
  <2>3. Claims(d)' = Claims(d)
      BY <1>1 DEF Claims, Claimants
  <2>4. QED
      BY <1>1, <1>15, <2>1, <2>2, <2>3 DEF DemandInv
<1>17. Replaceable(d) => Replaceable(d)'
    BY <1>1, <1>12, <1>13 DEF Replaceable
<1>18. /\ \A e \in DemandId : DemandInv(e)'
       /\ \A e \in Existing : Replaceable(e) => Replaceable(e)'
       /\ Existing' = Existing
    BY <1>4, <1>16, <1>17, OthersKept
<1>19. OneLiveDemandPerKey'
    BY <1>1, <1>18, KeysUntouched
<1>20. QED
    BY <1>5, <1>18, <1>19 DEF StepKeeps

(* Rejecting a submission.                                                  *)
LEMMA RejectServiceInv ==
    ASSUME IInv, TypeOK', NEW a \in Account, NEW d \in Existing, NEW n \in Nonce,
           RejectService(a, d, n)
    PROVE  StepKeeps
<1> DEFINE w == commitmentOf[d][a]
           left == Undecided(d) \ {a}
           rest == Total(Share(commitmentOf[d], left))
<1>1. /\ TypeOK /\ d \in DemandId /\ EscrowBacked /\ DemandInv(d)
      /\ ReviewSound(d) /\ demands[d] \in Demand
      /\ demands[d].status = "Submitted" /\ ~ReviewEnded(d)
      /\ n = submissionNonce[d]
      /\ a \notin Approvers(d) /\ a \notin Rejecters(d)
      /\ w \in Nat /\ commitmentOf[d] \in [Account -> Nat]
      /\ approvalWeight[d] \in Nat /\ rejectionWeight[d] \in Nat
      /\ now' = now /\ nextDemandId' = nextDemandId
      /\ demandKeyOf' = demandKeyOf /\ activeDemandByKey' = activeDemandByKey
      /\ demands' = demands /\ commitmentOf' = commitmentOf
      /\ submissionNonce' = submissionNonce
      /\ totalEscrowed' = totalEscrowed /\ balance' = balance
    BY VoteFacts
<1>2. /\ approvalWeight' = approvalWeight /\ hasApproved' = hasApproved
      /\ rejectionWeight' = [rejectionWeight EXCEPT ![d] = rejectionWeight[d] + w]
      /\ hasRejected' = [hasRejected EXCEPT ![d][n] = hasRejected[d][n] \cup {a}]
    BY DEF RejectService
<1>3. /\ rejectionWeight'[d] = rejectionWeight[d] + w
      /\ Rejecters(d)' = Rejecters(d) \cup {a} /\ Approvers(d)' = Approvers(d)
    BY <1>1, <1>2 DEF TypeOK, Rejecters, Approvers
<1>4. StepOn(d)
    BY <1>1, <1>2 DEF StepOn, TypeOK
<1>5. EscrowBacked'
  <2>1. CommittedOf' = CommittedOf
      BY <1>1 DEF CommittedOf
  <2>2. QED
      BY <1>1, <2>1 DEF EscrowBacked
<1>6. Undecided(d)' = left
    BY <1>1, <1>3 DEF Undecided
<1>7. /\ Total(Share(commitmentOf[d], Undecided(d))) = rest + w
      /\ rest \in Nat
    BY <1>1, OneLessUndecided
<1> HIDE DEF left, rest
<1>8. Total(Share(commitmentOf[d], Undecided(d)))' = rest
    BY <1>1, <1>6 DEF rest
<1>9. VotesBounded(d)'
  <2>1. approvalWeight[d] + rejectionWeight[d] + (rest + w) <= demands[d].reviewCommitted
      BY <1>1, <1>7 DEF ReviewSound, VotesBounded
  <2>2. demands[d].reviewCommitted \in Nat
      BY <1>1 DEF Demand
  <2>3. approvalWeight'[d] + rejectionWeight'[d] + rest <= demands[d].reviewCommitted
      BY <1>1, <1>2, <1>3, <1>7, <2>1, <2>2
  <2>4. QED
      BY <1>1, <1>8, <2>3 DEF VotesBounded
<1>10. approvalWeight'[d] + rejectionWeight'[d] <= demands[d].reviewCommitted
  <2>1. approvalWeight'[d] \in Nat /\ rejectionWeight'[d] \in Nat
      BY <1>1 DEF TypeOK
  <2>2. demands[d].reviewCommitted \in Nat
      BY <1>1 DEF Demand
  <2>3. approvalWeight'[d] + rejectionWeight'[d] + rest <= demands[d].reviewCommitted
      BY <1>1, <1>8, <1>9 DEF VotesBounded
  <2>4. QED
      BY <1>7, <2>1, <2>2, <2>3
(* A candidate that was voted down stays down. *)
<1>11. CandidateRejected(d) => CandidateRejected(d)' /\ BelowQuorum(d)'
  <2>1. /\ demands[d].reviewCommitted \in Nat /\ demands[d].approvalRequired \in Nat
        /\ approvalWeight'[d] \in Nat /\ rejectionWeight'[d] \in Nat
        /\ rejectionWeight'[d] >= rejectionWeight[d]
      BY <1>1, <1>2, <1>3 DEF TypeOK, Demand
  <2>2. QED
      BY <1>1, <1>10, <2>1 DEF CandidateRejected, BelowQuorum
<1>12. CandidateFailed(d) => CandidateFailed(d)'
    BY <1>1, <1>11 DEF CandidateFailed
<1>13. Expired(d)' = Expired(d)
    BY <1>1 DEF Expired
<1>14. ApprovalsBacked(d)'
  <2>1. CASE approvalWeight[d] = ApprovingStake(d)
    <3>1. ApprovingStake(d)' = ApprovingStake(d)
        BY <1>1, <1>3 DEF ApprovingStake
    <3>2. QED
        BY <1>2, <2>1, <3>1 DEF ApprovalsBacked
  <2>2. CASE Expired(d) /\ CandidateFailed(d)
      BY <1>12, <1>13, <2>2 DEF ApprovalsBacked
  <2>3. QED
      BY <1>1, <2>1, <2>2 DEF ReviewSound, ApprovalsBacked
<1>15. ReviewSound(d)'
  <2>1. TermsFixed(d)'
      BY <1>1 DEF ReviewSound, TermsFixed
  <2>2. Approvers(d)' \cap Rejecters(d)' = {}
      BY <1>1, <1>3 DEF ReviewSound
  <2>3. QED
      BY <1>1, <1>9, <1>14, <2>1, <2>2 DEF ReviewSound
<1>16. DemandInv(d)'
  <2>1. (d \in Existing)' /\ Funded(d)'
      BY <1>1 DEF DemandInv, Existing, Funded
  <2>2. FutureVotesEmpty(d)'
    <3>1. \A m \in Nonce : m # n => hasRejected'[d][m] = hasRejected[d][m]
        BY <1>1, <1>2 DEF TypeOK
    <3>2. \A m \in Nonce : m > n => m # n
        BY ConstantsAssumption DEF Nonce
    <3>3. QED
        BY <1>1, <1>2, <3>1, <3>2 DEF DemandInv, FutureVotesEmpty
  <2>3. Claims(d)' = Claims(d)
      BY <1>1 DEF Claims, Claimants
  <2>4. QED
      BY <1>1, <1>15, <2>1, <2>2, <2>3 DEF DemandInv
<1>17. Replaceable(d) => Replaceable(d)'
    BY <1>1, <1>12, <1>13 DEF Replaceable
<1>18. /\ \A e \in DemandId : DemandInv(e)'
       /\ \A e \in Existing : Replaceable(e) => Replaceable(e)'
       /\ Existing' = Existing
    BY <1>4, <1>16, <1>17, OthersKept
<1>19. OneLiveDemandPerKey'
    BY <1>1, <1>18, KeysUntouched
<1>20. QED
    BY <1>5, <1>18, <1>19 DEF StepKeeps

-------------------------------------------------------------------------------
(* Settlement and its cancellation.                                        *)

(* A quorum leaves its approvers' stake in escrow.                         *)
LEMMA QuorumMeansBacked ==
    ASSUME TypeOK, NEW d \in DemandId, DemandInv(d),
           demands[d].status = "Submitted", QuorumReached(d)
    PROVE  /\ approvalWeight[d] = ApprovingStake(d)
           /\ ~BelowQuorum(d) /\ TermsFixed(d)
           /\ approvalWeight[d] >= demands[d].approvalRequired
<1>1. approvalWeight[d] \in Nat /\ demands[d].approvalRequired \in Nat
    BY DEF TypeOK, Demand
<1>2. ~BelowQuorum(d) /\ approvalWeight[d] >= demands[d].approvalRequired
    BY <1>1 DEF QuorumReached, BelowQuorum
<1>3. ReviewSound(d)
    BY DEF DemandInv
<1>4. QED
    BY <1>2, <1>3 DEF ReviewSound, ApprovalsBacked, CandidateFailed

(* The stake of a demand is what its approvers hold and what the others    *)
(* hold.                                                                   *)
LEMMA StakeDivides ==
    ASSUME TypeOK, NEW d \in DemandId
    PROVE  /\ Total(commitmentOf[d]) = ApprovingStake(d)
                  + Total(Share(commitmentOf[d], Account \ Approvers(d)))
           /\ ApprovingStake(d) \in Nat
           /\ Total(Share(commitmentOf[d], Account \ Approvers(d))) \in Nat
<1> DEFINE others == Account \ Approvers(d)
<1>1. commitmentOf[d] \in [Account -> Nat]
    BY DEF TypeOK
<1>2. Approvers(d) \cap others = {} /\ Approvers(d) \cup others = Account
    BY VotersType
<1> HIDE DEF others
<1>3. Total(Share(commitmentOf[d], Account))
          = Total(Share(commitmentOf[d], Approvers(d))) + Total(Share(commitmentOf[d], others))
    BY <1>1, <1>2, FiniteDomains, ShareSplit
<1>4. Share(commitmentOf[d], Account) = commitmentOf[d]
    BY <1>1, ShareOfAll
<1>5. /\ Total(Share(commitmentOf[d], Approvers(d))) \in Nat
      /\ Total(Share(commitmentOf[d], others)) \in Nat
    BY <1>1, FiniteDomains, ShareType, TotalType
<1>6. QED
    BY <1>3, <1>4, <1>5 DEF others, ApprovingStake

(* Settling a demand.                                                      *)
LEMMA FinalizeInv ==
    ASSUME IInv, TypeOK', NEW d \in Existing, Finalize(d)
    PROVE  StepKeeps
<1> DEFINE approved == approvalWeight[d]
           fee == Fee(approved)
           r == [demands[d] EXCEPT !.status = "Fulfilled",
                                   !.committed = demands[d].committed - approved]
<1>1. TypeOK /\ d \in DemandId /\ DemandInv(d) /\ EscrowBacked /\ demands[d] \in Demand
  <2>1. TypeOK /\ d \in DemandId
      BY ExistingHasId DEF IInv
  <2>2. QED
      BY <2>1 DEF IInv, TypeOK
<1>2. /\ demands' = [demands EXCEPT ![d] = r]
      /\ demands[d].status = "Submitted" /\ QuorumReached(d)
      /\ approved <= demands[d].committed
      /\ totalEscrowed >= approved
      /\ balance[Escrow] >= fee
      /\ totalEscrowed' = totalEscrowed - approved
      /\ activeDemandByKey' = KeyCleared(d)
      /\ Pushed(AfterFee(fee), demands[d].builder, approved - fee)
    BY DEF Finalize, MayFinalize, Pushable, PushExact, Pushed
<1>3. /\ now' = now /\ nextDemandId' = nextDemandId /\ demandKeyOf' = demandKeyOf
      /\ commitmentOf' = commitmentOf /\ submissionNonce' = submissionNonce
      /\ approvalWeight' = approvalWeight /\ rejectionWeight' = rejectionWeight
      /\ hasApproved' = hasApproved /\ hasRejected' = hasRejected
    BY DEF Finalize, votes
<1>4. /\ approved \in Nat /\ fee \in Nat /\ fee <= approved
      /\ demands[d].committed \in Nat
    BY <1>1, FeeBounds DEF TypeOK, Demand
<1> HIDE DEF approved, fee
<1>5. /\ r \in Demand /\ r.committed = demands[d].committed - approved
      /\ r.status = "Fulfilled" /\ r.reviewCommitted = demands[d].reviewCommitted
      /\ r.approvalRequired = demands[d].approvalRequired
  <2>1. demands[d].committed - approved \in Nat
      BY <1>2, <1>4
  <2>2. QED
      BY <1>1, <2>1 DEF Demand, Status
<1> HIDE DEF r
<1>6. demands'[d] = r
    BY <1>1, <1>2 DEF TypeOK
<1>7. StepOn(d)
    BY <1>1, <1>2, <1>3 DEF StepOn, TypeOK
<1>8. /\ approved = ApprovingStake(d) /\ TermsFixed(d)
      /\ approved >= demands[d].approvalRequired
    BY <1>1, <1>2, QuorumMeansBacked DEF approved
<1>9. EscrowBacked'
  <2>1. /\ Total(CommittedOf)' = Total(CommittedOf) - demands[d].committed + r.committed
        /\ Total(CommittedOf) \in Nat
      BY <1>1, <1>2, <1>5, CommittedUpdate
  <2>2. Total(CommittedOf)' = Total(CommittedOf) - approved
      BY <1>4, <1>5, <2>1
  <2>3. /\ AfterFee(fee) \in [Holder -> Nat]
        /\ AfterFee(fee)[Escrow] = balance[Escrow] - fee
    <3>1. balance \in [Holder -> Nat] /\ balance[Escrow] \in Nat
        BY <1>1, EscrowApart DEF TypeOK
    <3>2. CASE fee = 0
        BY <3>1, <3>2 DEF AfterFee
    <3>3. CASE fee # 0
        BY <1>2, <1>4, <3>1, <3>3, EscrowApart, TransferMoves DEF AfterFee
    <3>4. QED
        BY <3>2, <3>3
  <2>4. demands[d].builder \in Account
      BY <1>1, <1>2 DEF DemandInv, ReviewSound
  <2>5. approved - fee \in Nat
      BY <1>4
  <2>6. balance'[Escrow] = AfterFee(fee)[Escrow] - (approved - fee)
      BY <1>2, <2>3, <2>4, <2>5, PushOutOfEscrow
  <2>7. balance[Escrow] \in Nat /\ totalEscrowed \in Nat
      BY <1>1, EscrowApart DEF TypeOK
  <2>8. balance'[Escrow] = balance[Escrow] - approved
      BY <1>4, <2>3, <2>6, <2>7
  <2>9. QED
      BY <1>1, <1>2, <2>2, <2>8 DEF EscrowBacked
<1>10. Approvers(d)' = Approvers(d) /\ ApprovingStake(d)' = ApprovingStake(d)
    BY <1>3 DEF Approvers, ApprovingStake
<1>11. r.committed = Total(Claims(d))'
  <2>1. Claimants(d) = Account
      BY <1>2 DEF Claimants
  <2>2. Claims(d) = commitmentOf[d]
    <3>1. commitmentOf[d] \in [Account -> Nat]
        BY <1>1 DEF TypeOK
    <3>2. QED
        BY <2>1, <3>1, ShareOfAll DEF Claims
  <2>3. demands[d].committed = Total(commitmentOf[d])
      BY <1>1, <2>2 DEF DemandInv
  <2>4. Claims(d)' = Share(commitmentOf[d], Account \ Approvers(d))
      BY <1>3, <1>5, <1>6, <1>10 DEF Claims, Claimants
  <2>5. QED
      BY <1>1, <1>5, <1>8, <2>3, <2>4, StakeDivides
<1>12. DemandInv(d)'
  <2>1. (d \in Existing)' /\ demandKeyOf'[d] \in Key /\ FutureVotesEmpty(d)'
      BY <1>1, <1>3 DEF DemandInv, Existing, FutureVotesEmpty
  <2>2. TermsFixed(d)'
      BY <1>5, <1>6, <1>8 DEF TermsFixed
  <2>3. SettlementSound(d)'
      BY <1>3, <1>5, <1>6, <1>8, <1>10, <2>2 DEF SettlementSound, approved
  <2>4. QED
      BY <1>5, <1>6, <1>11, <2>1, <2>3 DEF DemandInv, Funded
<1>13. Replaceable(d)'
    BY <1>5, <1>6 DEF Replaceable
<1>14. /\ \A e \in DemandId : DemandInv(e)'
       /\ \A e \in Existing : Replaceable(e) => Replaceable(e)'
       /\ Existing' = Existing
    BY <1>7, <1>12, <1>13, OthersKept
<1>15. OneLiveDemandPerKey'
  <2>1. \A e \in Existing \ {d} : demands'[e].status = demands[e].status
      BY <1>1, <1>7, ExistingHasId DEF StepOn
  <2>2. QED
      BY <1>2, <1>3, <1>13, <1>14, <2>1, KeyGivenBack
<1>16. QED
    BY <1>9, <1>14, <1>15 DEF StepKeeps

(* Cancelling a settlement.                                                *)
LEMMA CancelSettlementInv ==
    ASSUME IInv, TypeOK', NEW d \in Existing, CancelSettlement(d)
    PROVE  StepKeeps
<1> DEFINE r == [demands[d] EXCEPT !.status = "Cancelled"]
<1>1. TypeOK /\ d \in DemandId /\ DemandInv(d) /\ EscrowBacked /\ demands[d] \in Demand
  <2>1. TypeOK /\ d \in DemandId
      BY ExistingHasId DEF IInv
  <2>2. QED
      BY <2>1 DEF IInv, TypeOK
<1>2. /\ demands' = [demands EXCEPT ![d] = r]
      /\ demands[d].status = "Submitted"
      /\ activeDemandByKey' = KeyCleared(d)
    BY DEF CancelSettlement, MayCancel
<1>3. /\ now' = now /\ nextDemandId' = nextDemandId /\ demandKeyOf' = demandKeyOf
      /\ commitmentOf' = commitmentOf /\ submissionNonce' = submissionNonce
      /\ approvalWeight' = approvalWeight /\ rejectionWeight' = rejectionWeight
      /\ hasApproved' = hasApproved /\ hasRejected' = hasRejected
      /\ totalEscrowed' = totalEscrowed /\ balance' = balance
    BY DEF CancelSettlement, votes
<1>4. r \in Demand /\ r.committed = demands[d].committed /\ r.status = "Cancelled"
    BY <1>1 DEF Demand, Status
<1> HIDE DEF r
<1>5. demands'[d] = r
    BY <1>1, <1>2 DEF TypeOK
<1>6. StepOn(d)
    BY <1>1, <1>2, <1>3 DEF StepOn, TypeOK
<1>7. EscrowBacked'
  <2>1. /\ Total(CommittedOf)' = Total(CommittedOf) - demands[d].committed + r.committed
        /\ Total(CommittedOf) \in Nat /\ demands[d].committed \in Nat
      BY <1>1, <1>2, <1>4, CommittedUpdate
  <2>2. QED
      BY <1>1, <1>3, <1>4, <2>1 DEF EscrowBacked
<1>8. DemandInv(d)'
  <2>1. (d \in Existing)' /\ demandKeyOf'[d] \in Key /\ FutureVotesEmpty(d)'
      BY <1>1, <1>3 DEF DemandInv, Existing, FutureVotesEmpty
  <2>2. Claimants(d)' = Claimants(d)
      BY <1>2, <1>4, <1>5 DEF Claimants
  <2>3. Claims(d)' = Claims(d)
      BY <1>3, <2>2 DEF Claims
  <2>4. QED
      BY <1>1, <1>4, <1>5, <2>1, <2>3 DEF DemandInv, Funded
<1>9. Replaceable(d)'
    BY <1>4, <1>5 DEF Replaceable
<1>10. /\ \A e \in DemandId : DemandInv(e)'
       /\ \A e \in Existing : Replaceable(e) => Replaceable(e)'
       /\ Existing' = Existing
    BY <1>6, <1>8, <1>9, OthersKept
<1>11. OneLiveDemandPerKey'
  <2>1. \A e \in Existing \ {d} : demands'[e].status = demands[e].status
      BY <1>1, <1>6, ExistingHasId DEF StepOn
  <2>2. QED
      BY <1>2, <1>3, <1>9, <1>10, <2>1, KeyGivenBack
<1>12. QED
    BY <1>7, <1>10, <1>11 DEF StepKeeps

-------------------------------------------------------------------------------
(* Reopening a demand.                                                     *)
LEMMA ReopenInv ==
    ASSUME IInv, TypeOK', NEW d \in Existing, Reopen(d)
    PROVE  StepKeeps
<1> DEFINE r == [demands[d] EXCEPT !.builder = NoOne, !.reviewEndsAt = 0,
                     !.reviewCommitted = 0, !.approvalRequired = 0, !.status = "Open"]
<1>1. TypeOK /\ d \in DemandId /\ DemandInv(d) /\ EscrowBacked /\ demands[d] \in Demand
  <2>1. TypeOK /\ d \in DemandId
      BY ExistingHasId DEF IInv
  <2>2. QED
      BY <2>1 DEF IInv, TypeOK
<1>2. /\ demands' = [demands EXCEPT ![d] = r]
      /\ demands[d].status = "Submitted" /\ ~Expired(d)
      /\ approvalWeight' = [approvalWeight EXCEPT ![d] = 0]
      /\ rejectionWeight' = [rejectionWeight EXCEPT ![d] = 0]
    BY DEF Reopen, MayReopen
<1>3. /\ now' = now /\ nextDemandId' = nextDemandId /\ demandKeyOf' = demandKeyOf
      /\ commitmentOf' = commitmentOf /\ submissionNonce' = submissionNonce
      /\ activeDemandByKey' = activeDemandByKey
      /\ hasApproved' = hasApproved /\ hasRejected' = hasRejected
      /\ totalEscrowed' = totalEscrowed /\ balance' = balance
    BY DEF Reopen, keys
<1>4. r \in Demand /\ r.committed = demands[d].committed /\ r.status = "Open"
    BY <1>1 DEF Demand, Status
<1> HIDE DEF r
<1>5. demands'[d] = r
    BY <1>1, <1>2 DEF TypeOK
<1>6. StepOn(d)
    BY <1>1, <1>2, <1>3 DEF StepOn, TypeOK
<1>7. EscrowBacked'
  <2>1. /\ Total(CommittedOf)' = Total(CommittedOf) - demands[d].committed + r.committed
        /\ Total(CommittedOf) \in Nat /\ demands[d].committed \in Nat
      BY <1>1, <1>2, <1>4, CommittedUpdate
  <2>2. QED
      BY <1>1, <1>3, <1>4, <2>1 DEF EscrowBacked
<1>8. DemandInv(d)'
  <2>1. (d \in Existing)' /\ demandKeyOf'[d] \in Key /\ FutureVotesEmpty(d)'
      BY <1>1, <1>3 DEF DemandInv, Existing, FutureVotesEmpty
  <2>2. Claimants(d)' = Claimants(d)
      BY <1>2, <1>4, <1>5 DEF Claimants
  <2>3. Claims(d)' = Claims(d)
      BY <1>3, <2>2 DEF Claims
  <2>4. demands[d].committed > 0
      BY <1>1, <1>2 DEF DemandInv, Funded
  <2>5. QED
      BY <1>1, <1>4, <1>5, <2>1, <2>3, <2>4 DEF DemandInv, Funded
<1>9. ~Replaceable(d)
    BY <1>2 DEF Replaceable
<1>10. /\ \A e \in DemandId : DemandInv(e)'
       /\ \A e \in Existing : Replaceable(e) => Replaceable(e)'
       /\ Existing' = Existing
    BY <1>6, <1>8, <1>9, OthersKept
<1>11. OneLiveDemandPerKey'
  <2>1. \A e \in Existing : demands[e].status \in {"Open", "Submitted"} =>
            demands'[e].status \in {"Open", "Submitted"}
      BY <1>1, <1>4, <1>5, <1>6, ExistingHasId DEF StepOn
  <2>2. QED
      BY <1>3, <1>10, <2>1, KeysUntouched
<1>12. QED
    BY <1>7, <1>10, <1>11 DEF StepKeeps

-------------------------------------------------------------------------------
(* A refund takes one claim, and in a failed review it takes votes away    *)
(* from the count without giving them back.                                *)
LEMMA RefundInv ==
    ASSUME IInv, TypeOK', NEW a \in Account, NEW d \in Existing, Refund(a, d)
    PROVE  StepKeeps
<1> DEFINE amount == commitmentOf[d][a]
           remaining == demands[d].committed - amount
           closes == remaining = 0
                     /\ demands[d].status \notin {"Fulfilled", "Cancelled"}
           ending == IF closes THEN "Closed" ELSE demands[d].status
           r == [demands[d] EXCEPT !.committed = remaining, !.status = ending]
<1>1. TypeOK /\ d \in DemandId /\ DemandInv(d) /\ EscrowBacked /\ demands[d] \in Demand
  <2>1. TypeOK /\ d \in DemandId
      BY ExistingHasId DEF IInv
  <2>2. QED
      BY <2>1 DEF IInv, TypeOK
<1>2. /\ demands' = [demands EXCEPT ![d] = r]
      /\ Refundable(d, a)
      /\ demands[d].committed >= amount
      /\ totalEscrowed >= amount
      /\ commitmentOf' = [commitmentOf EXCEPT ![d][a] = 0]
      /\ activeDemandByKey' = IF closes THEN KeyCleared(d) ELSE activeDemandByKey
      /\ totalEscrowed' = totalEscrowed - amount
      /\ Pushed(balance, a, amount)
    BY DEF Refund, MayRefund, Pushable, PushExact, Pushed
<1>3. /\ now' = now /\ nextDemandId' = nextDemandId /\ demandKeyOf' = demandKeyOf
      /\ submissionNonce' = submissionNonce
      /\ approvalWeight' = approvalWeight /\ rejectionWeight' = rejectionWeight
      /\ hasApproved' = hasApproved /\ hasRejected' = hasRejected
    BY DEF Refund, votes
<1>4. /\ amount \in Nat /\ demands[d].committed \in Nat /\ remaining \in Nat
      /\ commitmentOf[d] \in [Account -> Nat] /\ commitmentOf'[d] \in [Account -> Nat]
  <2>1. amount \in Nat /\ demands[d].committed \in Nat
      BY <1>1 DEF TypeOK, Demand
  <2>2. commitmentOf[d] \in [Account -> Nat] /\ commitmentOf'[d] \in [Account -> Nat]
      BY <1>1 DEF TypeOK
  <2> HIDE DEF amount
  <2>3. remaining \in Nat
      BY <1>2, <2>1
  <2>4. QED
      BY <2>1, <2>2, <2>3
<1>5. ending \in Status
    BY <1>1 DEF Demand, Status
<1>6. /\ r \in Demand /\ r.committed = remaining /\ r.status = ending
      /\ r.reviewCommitted = demands[d].reviewCommitted
      /\ r.approvalRequired = demands[d].approvalRequired
      /\ r.builder = demands[d].builder
      /\ r.reviewEndsAt = demands[d].reviewEndsAt /\ r.deadline = demands[d].deadline
  <2> HIDE DEF ending, remaining
  <2>1. QED
      BY <1>1, <1>4, <1>5 DEF Demand
<1>7. /\ ending = "Closed" => remaining = 0
      /\ ending \in {"Open", "Submitted"} => remaining # 0
      /\ ending = demands[d].status \/ ending = "Closed"
  <2> HIDE DEF r, remaining, amount
  <2>1. CASE closes
      BY <2>1
  <2>2. CASE ~closes
    <3>1. ending = demands[d].status
        BY <2>2
    <3>2. demands[d].status \in {"Open", "Submitted"} =>
              demands[d].status \notin {"Fulfilled", "Cancelled"}
        OBVIOUS
    <3>3. demands[d].status = "Closed" => FALSE
        BY <1>2 DEF Refundable
    <3>4. QED
        BY <2>2, <3>1, <3>2, <3>3
  <2>3. QED
      BY <2>1, <2>2
<1>8. demands[d].status # "Closed"
    BY <1>2 DEF Refundable
<1> HIDE DEF r
<1>9. demands'[d] = r
    BY <1>1, <1>2 DEF TypeOK
<1>10. commitmentOf'[d] = [commitmentOf[d] EXCEPT ![a] = 0]
    BY <1>1, <1>2 DEF TypeOK
<1> HIDE DEF amount, ending
<1>11. StepOn(d)
    BY <1>1, <1>2, <1>3 DEF StepOn, TypeOK
<1>12. EscrowBacked'
  <2>1. /\ Total(CommittedOf)' = Total(CommittedOf) - demands[d].committed + r.committed
        /\ Total(CommittedOf) \in Nat
      BY <1>1, <1>2, <1>6, CommittedUpdate
  <2>2. Total(CommittedOf)' = Total(CommittedOf) - amount
      BY <1>4, <1>6, <2>1
  <2>3. balance'[Escrow] = balance[Escrow] - amount
      BY <1>1, <1>2, <1>4, PushOutOfEscrow DEF TypeOK
  <2>4. QED
      BY <1>1, <1>2, <2>2, <2>3 DEF EscrowBacked
<1>13. /\ Approvers(d)' = Approvers(d) /\ Rejecters(d)' = Rejecters(d)
       /\ a \in Claimants(d) /\ Claimants(d)' = Claimants(d)
  <2>1. Approvers(d)' = Approvers(d) /\ Rejecters(d)' = Rejecters(d)
      BY <1>3 DEF Approvers, Rejecters
  <2>2. a \in Claimants(d)
      BY <1>2 DEF Claimants, Refundable
  <2>3. Claimants(d)' = Claimants(d)
    <3>1. demands'[d].status = "Fulfilled" <=> demands[d].status = "Fulfilled"
        BY <1>6, <1>7, <1>8, <1>9 DEF ending
    <3>2. QED
        BY <2>1, <3>1 DEF Claimants
  <2>4. QED
      BY <2>1, <2>2, <2>3
<1>14. r.committed = Total(Claims(d))'
  <2>1. Claims(d) \in [Account -> Nat] /\ Claims(d)[a] = amount
      BY <1>1, <1>13, ClaimsType DEF amount
  <2>2. Claims(d)' = [Claims(d) EXCEPT ![a] = 0]
    <3>1. Claims(d)' = Share(commitmentOf'[d], Claimants(d))
        BY <1>13 DEF Claims
    <3>2. \A b \in Account : Share(commitmentOf'[d], Claimants(d))[b]
              = IF b = a THEN 0 ELSE Share(commitmentOf[d], Claimants(d))[b]
        BY <1>4, <1>10, ShareType
    <3>3. Share(commitmentOf'[d], Claimants(d)) \in [Account -> Nat]
        BY <1>4, ShareType
    <3>4. QED
        BY <2>1, <3>1, <3>2, <3>3 DEF Claims
  <2>3. Total([Claims(d) EXCEPT ![a] = 0]) = Total(Claims(d)) - amount
    <3>1. \A f \in [Account -> Nat], v \in Nat :
              Total([f EXCEPT ![a] = v]) = Total(f) - f[a] + v
        BY FiniteDomains, TotalUpdate
    <3>2. Total([Claims(d) EXCEPT ![a] = 0]) = Total(Claims(d)) - Claims(d)[a] + 0
        BY <2>1, <3>1
    <3>3. Total(Claims(d)) \in Nat
        BY <2>1, FiniteDomains, TotalType
    <3>4. QED
        BY <1>4, <2>1, <3>2, <3>3
  <2>4. demands[d].committed = Total(Claims(d))
      BY <1>1 DEF DemandInv
  <2>5. Total(Claims(d))' = Total([Claims(d) EXCEPT ![a] = 0])
      BY <2>2
  <2>6. QED
      BY <1>4, <1>6, <2>3, <2>4, <2>5
<1>15. Expired(d)' = Expired(d) /\ CandidateFailed(d)' = CandidateFailed(d)
    BY <1>3, <1>6, <1>9 DEF Expired, CandidateFailed, BelowQuorum, ReviewEnded,
                            CandidateRejected
<1>16. TermsFixed(d)' = TermsFixed(d)
    BY <1>6, <1>9 DEF TermsFixed
<1>17. ASSUME demands[d].status = "Submitted"
       PROVE  ReviewSound(d)'
  <2>1. ReviewSound(d) /\ Expired(d) /\ CandidateFailed(d)
      BY <1>1, <1>2, <1>17 DEF DemandInv, Refundable
  <2>2. ApprovalsBacked(d)'
      BY <1>15, <2>1 DEF ApprovalsBacked
  <2>3. VotesBounded(d)'
    <3>1. Undecided(d)' = Undecided(d)
        BY <1>13 DEF Undecided
    <3> DEFINE f == Share(commitmentOf[d], Undecided(d))
               g == Share(commitmentOf'[d], Undecided(d))
    <3>2. /\ f \in [Account -> Nat] /\ g \in [Account -> Nat]
          /\ \A b \in Account : g[b] <= f[b]
      <4>1. /\ f \in [Account -> Nat]
            /\ \A b \in Account : f[b] = IF b \in Undecided(d) THEN commitmentOf[d][b] ELSE 0
            /\ g \in [Account -> Nat]
            /\ \A b \in Account : g[b] = IF b \in Undecided(d) THEN commitmentOf'[d][b] ELSE 0
          BY <1>4, ShareType
      <4> HIDE DEF f, g
      <4>2. \A b \in Account : commitmentOf'[d][b] = IF b = a THEN 0 ELSE commitmentOf[d][b]
          BY <1>4, <1>10
      <4>3. QED
          BY <1>4, <4>1, <4>2
    <3> HIDE DEF f, g
    <3>3. Total(g) <= Total(f) /\ Total(f) \in Nat /\ Total(g) \in Nat
        BY <3>2, FiniteDomains, TotalMonotone, TotalType
    <3>4. approvalWeight[d] + rejectionWeight[d] + Total(f) <= demands[d].reviewCommitted
        BY <2>1 DEF ReviewSound, VotesBounded, f
    <3>5. /\ approvalWeight[d] \in Nat /\ rejectionWeight[d] \in Nat
          /\ demands[d].reviewCommitted \in Nat
        BY <1>1 DEF TypeOK, Demand
    <3>6. approvalWeight[d] + rejectionWeight[d] + Total(g) <= demands[d].reviewCommitted
        BY <3>3, <3>4, <3>5
    <3>7. Total(Share(commitmentOf[d], Undecided(d)))' = Total(g)
        BY <3>1 DEF g
    <3>8. QED
        BY <1>3, <1>6, <1>9, <3>6, <3>7 DEF VotesBounded
  <2>4. QED
      BY <1>6, <1>9, <1>13, <1>16, <2>1, <2>2, <2>3 DEF ReviewSound
<1>18. ASSUME demands[d].status = "Fulfilled"
       PROVE  SettlementSound(d)'
  <2>1. SettlementSound(d) /\ a \notin Approvers(d)
      BY <1>1, <1>2, <1>18 DEF DemandInv, Refundable
  <2>2. Share(commitmentOf'[d], Approvers(d)) = Share(commitmentOf[d], Approvers(d))
      BY <1>4, <1>10, <2>1 DEF Share
  <2>3. ApprovingStake(d)' = ApprovingStake(d)
      BY <1>13, <2>2 DEF ApprovingStake
  <2>4. QED
      BY <1>3, <1>6, <1>9, <1>16, <2>1, <2>3 DEF SettlementSound
<1>19. DemandInv(d)'
  <2>1. (d \in Existing)' /\ demandKeyOf'[d] \in Key /\ FutureVotesEmpty(d)'
      BY <1>1, <1>3 DEF DemandInv, Existing, FutureVotesEmpty
  <2>2. Funded(d)'
      BY <1>4, <1>6, <1>7, <1>9 DEF Funded
  <2>3. demands'[d].status \in {"Submitted", "Fulfilled"} =>
            demands'[d].status = demands[d].status
      BY <1>6, <1>7, <1>9
  <2>4. demands'[d].committed = Total(Claims(d))'
      BY <1>9, <1>14
  <2>5. QED
      BY <1>17, <1>18, <2>1, <2>2, <2>3, <2>4 DEF DemandInv
<1>20. Replaceable(d)'
  <2>1. Replaceable(d) \/ demands[d].status = "Cancelled"
      BY <1>2 DEF Refundable, Replaceable
  <2>2. QED
      BY <1>6, <1>7, <1>9, <1>15, <2>1 DEF Replaceable
<1>21. /\ \A e \in DemandId : DemandInv(e)'
       /\ \A e \in Existing : Replaceable(e) => Replaceable(e)'
       /\ Existing' = Existing
    BY <1>11, <1>19, <1>20, OthersKept
<1>22. \A e \in Existing \ {d} : demands'[e].status = demands[e].status
    BY <1>1, <1>11, ExistingHasId DEF StepOn
<1>23. CASE closes
    <2>1. OneLiveDemandPerKey'
        BY <1>2, <1>3, <1>20, <1>21, <1>22, <1>23, KeyGivenBack
    <2>2. QED
        BY <1>12, <1>21, <2>1 DEF StepKeeps
<1>24. CASE ~closes
    <2>1. demands'[d].status = demands[d].status
        BY <1>6, <1>9, <1>24 DEF ending
    <2>2. OneLiveDemandPerKey'
        BY <1>2, <1>3, <1>21, <1>22, <1>24, <2>1, KeysUntouched
    <2>3. QED
        BY <1>12, <1>21, <2>2 DEF StepKeeps
<1>25. QED
    BY <1>23, <1>24

-------------------------------------------------------------------------------
(* The invariant holds initially and every step keeps it.                  *)

(* Before the first transaction.                                           *)
LEMMA InitInv == Init => IInv
<1> SUFFICES ASSUME Init PROVE IInv
    OBVIOUS
<1>1. TypeOK
    BY InitType
<1>2. Existing = {}
    BY DEF Init, Existing
<1>3. ASSUME NEW d \in DemandId
      PROVE  DemandInv(d)
  <2>1. demands[d] = EmptyDemand /\ commitmentOf[d] = [a \in Account |-> 0]
      BY DEF Init
  <2>2. Fresh(d) /\ FutureVotesEmpty(d)
      BY <2>1 DEF Init, Fresh, FutureVotesEmpty
  <2>3. demands[d].status = "Open" /\ demands[d].committed = 0
      BY <2>1 DEF EmptyDemand
  <2>4. Total(Claims(d)) = 0
    <3>1. Claims(d) \in [Account -> Nat] /\ \A a \in Account : Claims(d)[a] = 0
        BY <1>1, <2>1, ClaimsType
    <3>2. QED
        BY <3>1, FiniteDomains, TotalZero
  <2>5. QED
      BY <1>2, <2>2, <2>3, <2>4 DEF DemandInv, Funded
<1>4. EscrowBacked
  <2>1. CommittedOf \in [DemandId -> Nat] /\ \A d \in DemandId : CommittedOf[d] = 0
      BY DEF Init, CommittedOf, EmptyDemand
  <2>2. Total(CommittedOf) = 0
      BY <2>1, FiniteDomains, TotalZero
  <2>3. balance[Escrow] = 0 /\ totalEscrowed = 0
      BY EscrowApart DEF Init
  <2>4. QED
      BY <2>2, <2>3 DEF EscrowBacked
<1>5. OneLiveDemandPerKey
    BY <1>2 DEF Init, OneLiveDemandPerKey
<1>6. QED
    BY <1>1, <1>3, <1>4, <1>5 DEF IInv

(* The clock, the admin and a stuttering step change no demand.            *)
LEMMA NoDemandInv ==
    ASSUME IInv, TypeOK', now' >= now, nextDemandId' = nextDemandId,
           totalEscrowed' = totalEscrowed, demands' = demands,
           commitmentOf' = commitmentOf, submissionNonce' = submissionNonce,
           votes' = votes, keys' = keys, balance' = balance
    PROVE  StepKeeps
<1>1. TypeOK /\ Existing' = Existing /\ Existing \subseteq DemandId
    BY ExistingHasId DEF IInv, Existing
<1>2. /\ approvalWeight' = approvalWeight /\ rejectionWeight' = rejectionWeight
      /\ hasApproved' = hasApproved /\ hasRejected' = hasRejected
      /\ activeDemandByKey' = activeDemandByKey /\ demandKeyOf' = demandKeyOf
    BY DEF votes, keys
<1>3. ASSUME NEW e \in DemandId
      PROVE  DemandInv(e)'
    BY <1>1, <1>2, DemandFrame DEF IInv
<1>4. \A e \in Existing : Replaceable(e) => Replaceable(e)'
    BY <1>1, <1>2, ReplaceableFrame
<1>5. OneLiveDemandPerKey'
    BY <1>1, <1>2, <1>4, KeysUntouched
<1>6. EscrowBacked'
    BY DEF IInv, EscrowBacked, CommittedOf
<1>7. QED
    BY <1>3, <1>4, <1>5, <1>6 DEF StepKeeps

(* Every step keeps what StepKeeps names.                                  *)
LEMMA NextKeeps == IInv /\ [Next]_vars => StepKeeps
<1> SUFFICES ASSUME IInv, [Next]_vars PROVE StepKeeps
    OBVIOUS
<1>1. TypeOK /\ TypeOK' /\ now \in Nat
    BY NextType, ExistingHasId DEF IInv
<1>2. CASE Tick
  <2>1. now' >= now
      BY <1>1, <1>2 DEF Tick
  <2>2. QED
      BY <1>1, <1>2, <2>1, NoDemandInv DEF Tick
<1>3. ASSUME NEW a \in Account, NEW k \in Key, NEW t \in Deadline, NEW n \in Amount,
             CreateDemand(a, k, t, n)
      PROVE  StepKeeps
  <2>1. PICK d : d = nextDemandId
      OBVIOUS
  <2>2. QED
      BY <1>1, <1>3, <2>1, CreateDemandInv DEF StepKeeps
<1>4. ASSUME NEW c, NEW v \in Verifier, SetVerifier(c, v)
      PROVE  StepKeeps
  <2>1. now' >= now
      BY <1>1, <1>4 DEF SetVerifier
  <2>2. QED
      BY <1>1, <1>4, <2>1, NoDemandInv DEF SetVerifier
<1>5. ASSUME NEW d \in Existing, NEW a \in Account,
             \/ \E n \in Amount : SupportDemand(a, d, n)
             \/ \E att \in Attestation : SubmitService(a, d, att)
             \/ \E n \in Nonce : ApproveService(a, d, n) \/ RejectService(a, d, n)
             \/ Refund(a, d)
      PROVE  StepKeeps
    BY <1>1, <1>5, SupportDemandInv, SubmitServiceInv, ApproveServiceInv,
       RejectServiceInv, RefundInv
<1>6. ASSUME NEW d \in Existing, Finalize(d) \/ CancelSettlement(d) \/ Reopen(d)
      PROVE  StepKeeps
    BY <1>1, <1>6, FinalizeInv, CancelSettlementInv, ReopenInv
<1>7. CASE UNCHANGED vars
  <2>1. now' >= now
      BY <1>1, <1>7 DEF vars
  <2>2. QED
      BY <1>1, <1>7, <2>1, NoDemandInv DEF vars
<1>8. QED
    BY <1>2, <1>3, <1>4, <1>5, <1>6, <1>7 DEF Next, Transaction

(* The invariant is inductive.                                             *)
THEOREM Inductive == Spec => []IInv
<1>1. Init => IInv
    BY InitInv
<1>2. IInv /\ [Next]_vars => IInv'
    BY NextKeeps, NextType DEF StepKeeps, IInv
<1>3. QED
    BY <1>1, <1>2, PTL DEF Spec

-------------------------------------------------------------------------------
(* What the inductive invariant gives.                                     *)

(* The contract holds exactly the tokens it accounts for.                  *)
THEOREM EscrowIsBacked == Spec => []EscrowBacked
<1>1. IInv => EscrowBacked
    BY DEF IInv
<1>2. QED
    BY <1>1, Inductive, PTL

(* A demand holds exactly what its supporters may still claim.             *)
THEOREM StakesAreBacked == Spec => []StakesBacked
<1>1. IInv => StakesBacked
    BY DEF IInv, DemandInv, StakesBacked
<1>2. QED
    BY <1>1, Inductive, PTL

(* No key has two demands that are alive.                                  *)
THEOREM KeysAreExclusive == Spec => []OneLiveDemandPerKey
<1>1. IInv => OneLiveDemandPerKey
    BY DEF IInv
<1>2. QED
    BY <1>1, Inductive, PTL

(* What follows for one demand.                                            *)

(* What a demand holds covers each claim on it, and the escrow covers what *)
(* it holds.                                                               *)
LEMMA ClaimCovered ==
    ASSUME IInv, NEW d \in DemandId, NEW a \in Account
    PROVE  /\ Claims(d)[a] \in Nat /\ Claims(d)[a] <= demands[d].committed
           /\ demands[d].committed \in Nat /\ demands[d].committed <= totalEscrowed
           /\ totalEscrowed \in Nat /\ balance[Escrow] = totalEscrowed
<1>1. TypeOK /\ DemandInv(d) /\ EscrowBacked
    BY DEF IInv
<1>2. Claims(d) \in [Account -> Nat]
    BY <1>1, ClaimsType
<1>3. Claims(d)[a] \in Nat /\ Claims(d)[a] <= Total(Claims(d))
    BY <1>2, FiniteDomains, TotalBoundsEntry
<1>4. CommittedOf \in [DemandId -> Nat] /\ CommittedOf[d] = demands[d].committed
    BY <1>1 DEF CommittedOf, TypeOK, Demand
<1>5. CommittedOf[d] \in Nat /\ CommittedOf[d] <= Total(CommittedOf)
    BY <1>4, FiniteDomains, TotalBoundsEntry
<1>6. QED
    BY <1>1, <1>3, <1>4, <1>5 DEF DemandInv, EscrowBacked, TypeOK

(* The stake of a quorum is in escrow.                                     *)
LEMMA InvQuorumBacked == IInv => QuorumBacked
<1> SUFFICES ASSUME IInv, NEW d \in DemandId,
                    demands[d].status = "Submitted", QuorumReached(d)
             PROVE  /\ approvalWeight[d] = ApprovingStake(d)
                    /\ approvalWeight[d] <= demands[d].committed
                    /\ approvalWeight[d] <= totalEscrowed
    BY DEF QuorumBacked
<1>1. TypeOK /\ DemandInv(d) /\ EscrowBacked
    BY DEF IInv
<1>2. approvalWeight[d] = ApprovingStake(d)
    BY <1>1, QuorumMeansBacked
<1>3. Claims(d) = commitmentOf[d]
  <2>1. commitmentOf[d] \in [Account -> Nat] /\ Claimants(d) = Account
      BY <1>1 DEF TypeOK, Claimants
  <2>2. QED
      BY <2>1, ShareOfAll DEF Claims
<1>4. demands[d].committed = Total(commitmentOf[d])
    BY <1>1, <1>3 DEF DemandInv
<1>5. approvalWeight[d] <= demands[d].committed
  <2> DEFINE others == Total(Share(commitmentOf[d], Account \ Approvers(d)))
  <2>1. /\ Total(commitmentOf[d]) = ApprovingStake(d) + others
        /\ ApprovingStake(d) \in Nat /\ others \in Nat
      BY <1>1, StakeDivides
  <2> HIDE DEF others
  <2>2. QED
      BY <1>2, <1>4, <2>1
<1>6. CommittedOf \in [DemandId -> Nat] /\ CommittedOf[d] = demands[d].committed
    BY <1>1 DEF CommittedOf, TypeOK, Demand
<1>7. /\ CommittedOf[d] \in Nat /\ CommittedOf[d] <= Total(CommittedOf)
      /\ Total(CommittedOf) \in Nat
    BY <1>6, FiniteDomains, TotalBoundsEntry, TotalType
<1>8. approvalWeight[d] \in Nat
    BY <1>1 DEF TypeOK
<1>9. QED
    BY <1>1, <1>2, <1>5, <1>6, <1>7, <1>8 DEF EscrowBacked

(* Approval and rejection count disjoint parts of one snapshot.            *)
LEMMA InvQuorumExcludesRejection == IInv => QuorumExcludesRejection
<1> SUFFICES ASSUME IInv, NEW d \in DemandId, demands[d].status = "Submitted",
                    QuorumReached(d), CandidateRejected(d)
             PROVE  FALSE
    BY DEF QuorumExcludesRejection
<1>1. TypeOK /\ DemandInv(d)
    BY DEF IInv
<1>2. VotesBounded(d)
    BY <1>1 DEF DemandInv, ReviewSound
<1>3. commitmentOf[d] \in [Account -> Nat]
    BY <1>1 DEF TypeOK
<1>4. Total(Share(commitmentOf[d], Undecided(d))) \in Nat
    BY <1>3, FiniteDomains, ShareType, TotalType
<1>5. /\ approvalWeight[d] \in Nat /\ rejectionWeight[d] \in Nat
      /\ demands[d].reviewCommitted \in Nat /\ demands[d].approvalRequired \in Nat
    BY <1>1 DEF TypeOK, Demand
<1>6. approvalWeight[d] + rejectionWeight[d] <= demands[d].reviewCommitted
    BY <1>2, <1>4, <1>5 DEF VotesBounded
<1>7. /\ approvalWeight[d] >= demands[d].approvalRequired
      /\ rejectionWeight[d] >=
             demands[d].reviewCommitted - demands[d].approvalRequired + 1
    BY DEF QuorumReached, CandidateRejected
<1>8. QED
    BY <1>5, <1>6, <1>7

(* The paying approvers hold a majority of the snapshot.                   *)
LEMMA InvMajoritySettles == IInv => MajoritySettles
<1> SUFFICES ASSUME IInv, NEW d \in DemandId, demands[d].status = "Fulfilled"
             PROVE  /\ 10000 * ApprovingStake(d) >= QuorumBps * demands[d].reviewCommitted
                    /\ 2 * ApprovingStake(d) > demands[d].reviewCommitted
    BY DEF MajoritySettles
<1> DEFINE c == demands[d].reviewCommitted
           q == CeilDiv(c * QuorumBps, 10000)
           p == QuorumBps * c
<1>1. TypeOK /\ SettlementSound(d)
    BY DEF IInv, DemandInv
<1>2. c \in Nat /\ c > 0 /\ demands[d].approvalRequired = q
    BY <1>1 DEF TypeOK, Demand, SettlementSound, TermsFixed
<1> HIDE DEF q
<1>3. ApprovingStake(d) >= q /\ ApprovingStake(d) \in Nat
  <2>1. ApprovingStake(d) \in Nat
      BY <1>1, StakeDivides
  <2>2. ApprovingStake(d) >= demands[d].approvalRequired
      BY <1>1 DEF SettlementSound
  <2>3. QED
      BY <1>2, <2>1, <2>2
<1> USE DEF q
<1> HIDE DEF c
<1>4. q \in Nat /\ 10000 * q >= p /\ 2 * q > c
    BY <1>2, QuorumBounds
<1>5. p \in Nat
  <2>1. QuorumBps \in Nat
      BY ConstantsAssumption
  <2>2. QED
      BY <1>2, <2>1
<1> HIDE DEF q, p
<1>6. 10000 * ApprovingStake(d) >= p /\ 2 * ApprovingStake(d) > c
    BY <1>2, <1>3, <1>4, <1>5
<1>7. QED
    BY <1>6 DEF p, c

(* Whatever the state of a demand that is over, its claims get out.        *)
LEMMA InvNoStakeLocked == IInv => NoStakeLocked
<1> SUFFICES ASSUME IInv, NEW d \in Existing, NEW a \in Account,
                    Claims(d)[a] # 0, Expired(d),
                    demands[d].status = "Submitted" => GraceEnded(d),
                    ~(demands[d].status = "Submitted" /\ QuorumReached(d))
             PROVE  RefundSucceeds(d, a)
    BY DEF NoStakeLocked
<1>1. TypeOK /\ d \in DemandId
    BY ExistingHasId DEF IInv
<1>2. DemandInv(d) /\ demands[d] \in Demand
    BY <1>1 DEF IInv, TypeOK
<1>3. a \in Claimants(d) /\ Claims(d)[a] = commitmentOf[d][a]
    BY <1>1, ClaimsType
<1>4. /\ commitmentOf[d][a] \in Nat /\ commitmentOf[d][a] # 0
      /\ commitmentOf[d][a] <= demands[d].committed
      /\ demands[d].committed \in Nat /\ demands[d].committed <= totalEscrowed
      /\ totalEscrowed \in Nat /\ balance[Escrow] = totalEscrowed
    BY <1>1, <1>3, ClaimCovered
<1>5. demands[d].status \in Status /\ demands[d].status # "Closed"
    BY <1>2, <1>4 DEF Demand, DemandInv, Funded
<1>6. CASE demands[d].status = "Fulfilled"
    BY <1>3, <1>4, <1>6 DEF Claimants, Refundable, RefundSucceeds
<1>7. CASE demands[d].status = "Submitted"
  <2>1. TermsFixed(d)
      BY <1>2, <1>7 DEF DemandInv, ReviewSound
  <2>2. demands[d].reviewCommitted \in Nat
      BY <1>2 DEF Demand
  <2>3. demands[d].approvalRequired \in Nat /\ demands[d].approvalRequired # 0
      BY <2>1, <2>2, QuorumBounds DEF TermsFixed
  <2>4. BelowQuorum(d)
      BY <1>1, <1>7, <2>3 DEF QuorumReached, BelowQuorum, TypeOK
  <2>5. ReviewEnded(d)
    <3>1. /\ now \in Nat /\ demands[d].reviewEndsAt \in Nat /\ SettlementGrace \in Nat
        BY <1>1, <1>2, ConstantsAssumption DEF TypeOK, Demand
    <3>2. QED
        BY <1>7, <3>1 DEF GraceEnded, ReviewEnded
  <2>6. QED
      BY <1>4, <1>7, <2>4, <2>5 DEF CandidateFailed, Refundable, RefundSucceeds
<1>8. CASE demands[d].status \in {"Open", "Cancelled"}
    BY <1>4, <1>8 DEF Refundable, RefundSucceeds
<1>9. QED
    BY <1>5, <1>6, <1>7, <1>8 DEF Status

(* A quorum's stake is exactly in escrow, so finalize cannot fail for lack *)
(* of it.                                                                  *)
THEOREM QuorumIsBacked == Spec => []QuorumBacked
BY Inductive, InvQuorumBacked, PTL

(* Quorum and rejection exclude each other during a review.                *)
THEOREM QuorumOrRejection == Spec => []QuorumExcludesRejection
BY Inductive, InvQuorumExcludesRejection, PTL

(* Only a majority of the snapshot settles, and it is the majority's own   *)
(* stake that was paid.                                                    *)
THEOREM SettledByMajority == Spec => []MajoritySettles
BY Inductive, InvMajoritySettles, PTL

(* No stake is locked once deadline, review and grace are over.            *)
THEOREM StakesComeOut == Spec => []NoStakeLocked
BY Inductive, InvNoStakeLocked, PTL

-------------------------------------------------------------------------------
(* What a step may never do.                                               *)

(* A demand that may be replaced stays so.                                 *)
THEOREM ReplacedForGood == Spec => ReplaceableForGood
<1>1. IInv /\ [Next]_vars => \A d \in Existing : Replaceable(d) => Replaceable(d)'
    BY NextKeeps DEF StepKeeps
<1>2. QED
    BY <1>1, Inductive, PTL DEF Spec, ReplaceableForGood

(* What a step can do to a demand under review.                            *)
LEMMA UnderReview ==
    ASSUME IInv, [Next]_vars, NEW d \in DemandId, demands[d].status = "Submitted"
    PROVE  \/ /\ demands'[d] = demands[d] /\ commitmentOf'[d] = commitmentOf[d]
              /\ submissionNonce'[d] = submissionNonce[d]
              /\ approvalWeight'[d] >= approvalWeight[d]
              /\ rejectionWeight'[d] >= rejectionWeight[d]
           \/ Finalize(d) \/ CancelSettlement(d) \/ Reopen(d)
           \/ \E a \in Account : Refund(a, d)
<1> DEFINE Kept == /\ demands'[d] = demands[d] /\ commitmentOf'[d] = commitmentOf[d]
                   /\ submissionNonce'[d] = submissionNonce[d]
                   /\ approvalWeight'[d] >= approvalWeight[d]
                   /\ rejectionWeight'[d] >= rejectionWeight[d]
           Ended == \/ Finalize(d) \/ CancelSettlement(d) \/ Reopen(d)
                    \/ \E a \in Account : Refund(a, d)
<1> SUFFICES Kept \/ Ended
    OBVIOUS
<1>1. TypeOK /\ Existing \subseteq DemandId /\ DemandInv(d)
    BY ExistingHasId DEF IInv
<1>2. /\ approvalWeight \in [DemandId -> Nat] /\ rejectionWeight \in [DemandId -> Nat]
      /\ commitmentOf \in [DemandId -> [Account -> Nat]]
      /\ demands \in [DemandId -> Demand] /\ submissionNonce \in [DemandId -> Nonce]
    BY <1>1 DEF TypeOK
<1>3. approvalWeight[d] \in Nat /\ rejectionWeight[d] \in Nat
    BY <1>2
<1>4. ASSUME demands' = demands, commitmentOf' = commitmentOf,
             submissionNonce' = submissionNonce, votes' = votes
      PROVE  Kept
    BY <1>3, <1>4 DEF votes
<1> HIDE DEF Kept
<1>5. CASE Tick \/ UNCHANGED vars
    BY <1>4, <1>5 DEF Tick, vars
<1>6. ASSUME NEW c, NEW v \in Verifier, SetVerifier(c, v)
      PROVE  Kept
    BY <1>4, <1>6 DEF SetVerifier
<1>7. ASSUME NEW a \in Account, NEW k \in Key, NEW t \in Deadline, NEW n \in Amount,
             CreateDemand(a, k, t, n)
      PROVE  Kept
  <2>1. d \in Existing
    <3>1. d \notin Existing => demands[d].status = "Open"
        BY <1>1 DEF DemandInv, Fresh, EmptyDemand
    <3>2. QED
        BY <3>1
  <2>2. d # nextDemandId
    <3>1. nextDemandId \in Nat
        BY <1>1, ConstantsAssumption DEF TypeOK
    <3>2. QED
        BY <2>1, <3>1 DEF Existing
  <2>3. /\ \E r : demands' = [demands EXCEPT ![nextDemandId] = r]
        /\ commitmentOf' = [commitmentOf EXCEPT ![nextDemandId][a] = n]
        /\ submissionNonce' = submissionNonce /\ votes' = votes
      BY <1>7 DEF CreateDemand
  <2>4. demands'[d] = demands[d] /\ commitmentOf'[d] = commitmentOf[d]
      BY <1>2, <2>2, <2>3
  <2>5. QED
      BY <1>3, <2>3, <2>4 DEF Kept, votes
<1>8. ASSUME NEW e \in Existing, NEW a \in Account, NEW n \in Amount,
             SupportDemand(a, e, n)
      PROVE  Kept
  <2>1. e # d /\ e \in DemandId
      BY <1>1, <1>8 DEF SupportDemand
  <2>2. /\ \E r : demands' = [demands EXCEPT ![e] = r]
        /\ \E m : commitmentOf' = [commitmentOf EXCEPT ![e][a] = m]
        /\ submissionNonce' = submissionNonce /\ votes' = votes
      BY <1>8 DEF SupportDemand
  <2>3. demands'[d] = demands[d] /\ commitmentOf'[d] = commitmentOf[d]
      BY <1>2, <2>1, <2>2
  <2>4. QED
      BY <1>3, <2>2, <2>3 DEF Kept, votes
<1>9. ASSUME NEW e \in Existing, NEW a \in Account, NEW att \in Attestation,
             SubmitService(a, e, att)
      PROVE  Kept
  <2>1. e # d /\ e \in DemandId
      BY <1>1, <1>9 DEF SubmitService
  <2> DEFINE r == [demands[e] EXCEPT
                      !.builder = a, !.reviewEndsAt = now + ReviewPeriod,
                      !.reviewCommitted = demands[e].committed,
                      !.approvalRequired = CeilDiv(demands[e].committed * QuorumBps, 10000),
                      !.status = "Submitted"]
  <2>2. /\ demands' = [demands EXCEPT ![e] = r]
        /\ commitmentOf' = commitmentOf
        /\ submissionNonce' = [submissionNonce EXCEPT ![e] = submissionNonce[e] + 1]
        /\ approvalWeight' = [approvalWeight EXCEPT ![e] = 0]
        /\ rejectionWeight' = [rejectionWeight EXCEPT ![e] = 0]
      BY <1>9 DEF SubmitService
  <2>3. /\ demands'[d] = demands[d] /\ submissionNonce'[d] = submissionNonce[d]
        /\ approvalWeight'[d] = approvalWeight[d]
        /\ rejectionWeight'[d] = rejectionWeight[d]
    <3> HIDE DEF r
    <3>1. QED
        BY <1>2, <2>1, <2>2
  <2>4. QED
      BY <1>3, <2>2, <2>3 DEF Kept
<1>10. ASSUME NEW e \in Existing, NEW a \in Account, NEW n \in Nonce,
              ApproveService(a, e, n) \/ RejectService(a, e, n)
       PROVE  Kept
  <2>1. e \in DemandId /\ commitmentOf[e][a] \in Nat
      BY <1>1, <1>2
  <2>2. /\ demands' = demands /\ commitmentOf' = commitmentOf
        /\ submissionNonce' = submissionNonce
        /\ \/ /\ approvalWeight' = [approvalWeight EXCEPT
                                        ![e] = approvalWeight[e] + commitmentOf[e][a]]
              /\ rejectionWeight' = rejectionWeight
           \/ /\ rejectionWeight' = [rejectionWeight EXCEPT
                                        ![e] = rejectionWeight[e] + commitmentOf[e][a]]
              /\ approvalWeight' = approvalWeight
      BY <1>10 DEF ApproveService, RejectService
  <2>3. /\ approvalWeight'[d] >= approvalWeight[d]
        /\ rejectionWeight'[d] >= rejectionWeight[d]
      BY <1>2, <1>3, <2>1, <2>2
  <2>4. QED
      BY <2>2, <2>3 DEF Kept
<1>11. ASSUME NEW e \in Existing, NEW a \in Account, Refund(a, e)
       PROVE  Kept \/ Ended
  <2>1. CASE e # d
    <3>1. /\ \E r : demands' = [demands EXCEPT ![e] = r]
          /\ commitmentOf' = [commitmentOf EXCEPT ![e][a] = 0]
          /\ submissionNonce' = submissionNonce /\ votes' = votes
        BY <1>11 DEF Refund, MayRefund
    <3>2. demands'[d] = demands[d] /\ commitmentOf'[d] = commitmentOf[d]
        BY <1>2, <2>1, <3>1
    <3>3. QED
        BY <1>3, <3>1, <3>2 DEF Kept, votes
  <2>2. QED
      BY <1>11, <2>1
<1>12. ASSUME NEW e \in Existing, Finalize(e) \/ CancelSettlement(e) \/ Reopen(e)
       PROVE  Kept \/ Ended
  <2>1. CASE e # d
    <3>1. /\ \E r : demands' = [demands EXCEPT ![e] = r]
          /\ commitmentOf' = commitmentOf /\ submissionNonce' = submissionNonce
          /\ \/ votes' = votes
             \/ /\ approvalWeight' = [approvalWeight EXCEPT ![e] = 0]
                /\ rejectionWeight' = [rejectionWeight EXCEPT ![e] = 0]
        BY <1>12 DEF Finalize, CancelSettlement, Reopen, MayFinalize, MayCancel, MayReopen
    <3>2. /\ demands'[d] = demands[d]
          /\ approvalWeight'[d] = approvalWeight[d]
          /\ rejectionWeight'[d] = rejectionWeight[d]
        BY <1>2, <2>1, <3>1 DEF votes
    <3>3. QED
        BY <1>3, <3>1, <3>2 DEF Kept
  <2>2. QED
      BY <1>12, <2>1
<1> HIDE DEF Ended
<1>13. QED
    BY <1>5, <1>6, <1>7, <1>8, <1>9, <1>10, <1>11, <1>12 DEF Next, Transaction

(* No step undoes a quorum, or moves the stake that formed it, before the  *)
(* settlement or its cancellation.                                         *)
THEOREM QuorumStays == Spec => QuorumHolds
<1>1. ASSUME IInv, [Next]_vars, NEW d \in DemandId,
             demands[d].status = "Submitted", QuorumReached(d)
      PROVE  /\ demands'[d].status \in {"Submitted", "Fulfilled", "Cancelled"}
             /\ commitmentOf'[d] = commitmentOf[d]
             /\ submissionNonce'[d] = submissionNonce[d]
             /\ demands'[d].status = "Submitted" => QuorumReached(d)'
  <2>1. TypeOK /\ TypeOK' /\ DemandInv(d)
      BY <1>1, NextType DEF IInv
  <2>2. ~BelowQuorum(d)
      BY <1>1, <2>1, QuorumMeansBacked
  <2>3. /\ demands \in [DemandId -> Demand] /\ approvalWeight[d] \in Nat
        /\ approvalWeight'[d] \in Nat /\ demands[d].approvalRequired \in Nat
      BY <2>1 DEF TypeOK, Demand
  <2>4. CASE /\ demands'[d] = demands[d] /\ commitmentOf'[d] = commitmentOf[d]
             /\ submissionNonce'[d] = submissionNonce[d]
             /\ approvalWeight'[d] >= approvalWeight[d]
      BY <1>1, <2>3, <2>4 DEF QuorumReached
  <2>5. CASE Finalize(d) \/ CancelSettlement(d)
    <3>1. commitmentOf' = commitmentOf /\ submissionNonce' = submissionNonce
        BY <2>5 DEF Finalize, CancelSettlement, MayFinalize, MayCancel
    <3>2. CASE Finalize(d)
      <4>1. \E m : demands' = [demands EXCEPT ![d] =
                [demands[d] EXCEPT !.status = "Fulfilled", !.committed = m]]
          BY <3>2 DEF Finalize, MayFinalize
      <4>2. demands'[d].status = "Fulfilled"
          BY <2>3, <4>1 DEF Demand
      <4>3. QED
          BY <3>1, <4>2
    <3>3. CASE CancelSettlement(d)
      <4>1. demands' = [demands EXCEPT ![d] =
                [demands[d] EXCEPT !.status = "Cancelled"]]
          BY <3>3 DEF CancelSettlement, MayCancel
      <4>2. demands'[d].status = "Cancelled"
          BY <2>3, <4>1 DEF Demand
      <4>3. QED
          BY <3>1, <4>2
    <3>4. QED
        BY <2>5, <3>2, <3>3
  <2>6. CASE Reopen(d)
      BY <2>2, <2>6 DEF Reopen, CandidateFailed, MayReopen
  <2>7. ASSUME NEW a \in Account, Refund(a, d)
        PROVE  FALSE
      BY <1>1, <2>2, <2>7 DEF Refund, Refundable, CandidateFailed, MayRefund
  <2>8. QED
      BY <1>1, <2>4, <2>5, <2>6, <2>7, UnderReview
<1>2. IInv /\ [Next]_vars =>
          \A d \in DemandId :
              demands[d].status = "Submitted" /\ QuorumReached(d) =>
                  /\ demands'[d].status \in {"Submitted", "Fulfilled", "Cancelled"}
                  /\ commitmentOf'[d] = commitmentOf[d]
                  /\ submissionNonce'[d] = submissionNonce[d]
                  /\ demands'[d].status = "Submitted" => QuorumReached(d)'
    BY <1>1
<1>3. QED
    BY <1>2, Inductive, PTL DEF Spec, QuorumHolds

(* No step turns a rejection around.                                       *)
THEOREM RejectionStays == Spec => RejectionHolds
<1>1. ASSUME IInv, [Next]_vars, NEW d \in DemandId,
             demands[d].status = "Submitted", CandidateRejected(d)
      PROVE  \/ demands'[d].status \in {"Open", "Closed"}
             \/ demands'[d].status = "Submitted" /\ CandidateRejected(d)'
                /\ BelowQuorum(d)'
  <2>1. TypeOK /\ TypeOK' /\ DemandInv(d)
      BY <1>1, NextType DEF IInv
  <2>2. ~QuorumReached(d)
      BY <1>1, InvQuorumExcludesRejection DEF QuorumExcludesRejection
  <2>3. /\ demands \in [DemandId -> Demand] /\ approvalWeight[d] \in Nat
        /\ rejectionWeight[d] \in Nat /\ rejectionWeight'[d] \in Nat
        /\ demands[d].approvalRequired \in Nat /\ demands[d].reviewCommitted \in Nat
      BY <2>1 DEF TypeOK, Demand
  <2>4. ASSUME demands'[d] = demands[d], rejectionWeight'[d] >= rejectionWeight[d]
        PROVE  demands'[d].status = "Submitted" /\ CandidateRejected(d)'
      BY <1>1, <2>3, <2>4 DEF CandidateRejected
  <2>5. CASE Finalize(d) \/ CancelSettlement(d)
      BY <2>2, <2>5 DEF Finalize, CancelSettlement, MayFinalize, MayCancel
  <2>6. CASE Reopen(d)
    <3>1. demands'[d].status = "Open"
        BY <2>3, <2>6 DEF Reopen, Demand, MayReopen
    <3>2. QED
        BY <3>1
  <2>7. ASSUME NEW a \in Account, Refund(a, d)
        PROVE  \/ demands'[d].status \in {"Open", "Closed"}
               \/ demands'[d].status = "Submitted" /\ CandidateRejected(d)'
    <3> DEFINE remaining == demands[d].committed - commitmentOf[d][a]
               ending == IF remaining = 0 THEN "Closed" ELSE "Submitted"
               r == [demands[d] EXCEPT !.committed = remaining, !.status = ending]
    <3>1. demands' = [demands EXCEPT ![d] = r] /\ rejectionWeight' = rejectionWeight
        BY <1>1, <2>7 DEF Refund, votes
    <3> HIDE DEF remaining, ending
    <3>2. demands[d] \in Demand
        BY <2>3
    <3>3. /\ r.status = ending /\ r.reviewCommitted = demands[d].reviewCommitted
          /\ r.approvalRequired = demands[d].approvalRequired
        BY <3>2 DEF Demand
    <3> HIDE DEF r
    <3>4. demands'[d] = r
        BY <2>3, <3>1
    <3>5. CandidateRejected(d)'
        BY <1>1, <3>1, <3>3, <3>4 DEF CandidateRejected
    <3>6. QED
        BY <3>3, <3>4, <3>5 DEF ending
  <2>8. ASSUME demands'[d].status = "Submitted", CandidateRejected(d)'
        PROVE  BelowQuorum(d)'
    <3>1. IInv'
        BY <1>1, <2>1, NextKeeps DEF StepKeeps, IInv
    <3>2. QuorumExcludesRejection'
        BY <3>1, InvQuorumExcludesRejection, PTL
    <3>3. ~QuorumReached(d)'
        BY <2>8, <3>2 DEF QuorumExcludesRejection
    <3>4. /\ approvalWeight'[d] \in Nat /\ rejectionWeight'[d] \in Nat
          /\ demands'[d] \in Demand
        BY <2>1 DEF TypeOK
    <3>5. demands'[d].approvalRequired \in Nat
        BY <3>4 DEF Demand
    <3>6. QED
        BY <2>8, <3>3, <3>4, <3>5 DEF QuorumReached, CandidateRejected, BelowQuorum
  <2>9. QED
      BY <1>1, <2>4, <2>5, <2>6, <2>7, <2>8, UnderReview
<1>2. IInv /\ [Next]_vars =>
          \A d \in DemandId :
              demands[d].status = "Submitted" /\ CandidateRejected(d) =>
                  \/ demands'[d].status \in {"Open", "Closed"}
                  \/ demands'[d].status = "Submitted" /\ CandidateRejected(d)'
                     /\ BelowQuorum(d)'
    BY <1>1
<1>3. QED
    BY <1>2, Inductive, PTL DEF Spec, RejectionHolds

-------------------------------------------------------------------------------
(* The escrow's tokens, totalEscrowed, what demands hold and what may be   *)
(* claimed from them agree at any time.                                    *)
THEOREM BooksAlwaysBalance == Spec => []BooksBalance
BY EscrowIsBacked, StakesAreBacked, PTL DEF BooksBalance

(* A review has one outcome, with the stake that goes with it.             *)
THEOREM VotesAlwaysBacked == Spec => []VotesBacked
BY QuorumIsBacked, QuorumOrRejection, PTL DEF VotesBacked

(* No step undoes a quorum, a rejection or a replacement.                  *)
THEOREM DecisionsStay == Spec => DecisionsHold
BY ReplacedForGood, QuorumStays, RejectionStays DEF DecisionsHold

-------------------------------------------------------------------------------
(***************************************************************************)
(* The contract implements Pledges, under the mapping Promise.             *)
(***************************************************************************)

(* While a candidate is under review, its demand holds no more than the    *)
(* snapshot: nobody can join, and some may leave.                          *)
ReviewBounded ==
    \A d \in DemandId :
        demands[d].status = "Submitted" => demands[d].committed <= demands[d].reviewCommitted

(* No step lets a demand under review outgrow its snapshot.                *)
LEMMA ReviewBoundedStep == IInv /\ ReviewBounded /\ [Next]_vars => ReviewBounded'
<1> SUFFICES ASSUME IInv, ReviewBounded, [Next]_vars, NEW d \in DemandId,
                    demands'[d].status = "Submitted"
             PROVE  demands'[d].committed <= demands'[d].reviewCommitted
    BY DEF ReviewBounded
<1>0. TypeOK /\ Existing \subseteq DemandId /\ demands[d] \in Demand
    BY ExistingHasId DEF IInv, TypeOK
<1>1. ASSUME demands'[d] = demands[d]
      PROVE  demands'[d].committed <= demands'[d].reviewCommitted
    BY <1>1 DEF ReviewBounded
<1>2. CASE Tick \/ UNCHANGED vars
    BY <1>1, <1>2 DEF Tick, vars
<1>3. ASSUME NEW c, NEW v \in Verifier, SetVerifier(c, v)
      PROVE  demands'[d] = demands[d]
    BY <1>3 DEF SetVerifier
<1>4. ASSUME NEW a \in Account, NEW k \in Key, NEW t \in Deadline, NEW n \in Amount,
             CreateDemand(a, k, t, n)
      PROVE  demands'[d] = demands[d]
    BY <1>0, <1>4 DEF CreateDemand, TypeOK, Demand
<1>5. ASSUME NEW e \in Existing, NEW a \in Account, NEW n \in Amount, SupportDemand(a, e, n)
      PROVE  demands'[d] = demands[d]
    BY <1>0, <1>5 DEF SupportDemand, TypeOK, Demand
<1>6. ASSUME NEW e \in Existing, NEW a \in Account, NEW att \in Attestation,
             SubmitService(a, e, att)
      PROVE  demands'[d].committed <= demands'[d].reviewCommitted
    BY <1>0, <1>1, <1>6 DEF SubmitService, TypeOK, Demand
<1>7. ASSUME NEW e \in Existing, NEW a \in Account, NEW n \in Nonce,
             ApproveService(a, e, n) \/ RejectService(a, e, n)
      PROVE  demands'[d] = demands[d]
    BY <1>7 DEF ApproveService, RejectService
<1>8. ASSUME NEW e \in Existing, Finalize(e) \/ CancelSettlement(e) \/ Reopen(e)
      PROVE  demands'[d] = demands[d]
  <2>1. e \in DemandId /\ demands \in [DemandId -> Demand] /\ demands[e] \in Demand
      BY <1>0 DEF TypeOK
  <2>2. CASE e = d
    <3>1. demands'[d].status # "Submitted"
      <4>1. CASE Finalize(d)
          BY <2>1, <2>2, <4>1 DEF Finalize, Demand, MayFinalize
      <4>2. CASE CancelSettlement(d)
          BY <2>1, <2>2, <4>2 DEF CancelSettlement, Demand, MayCancel
      <4>3. CASE Reopen(d)
        <5> DEFINE r == [demands[d] EXCEPT !.builder = NoOne, !.reviewEndsAt = 0,
                             !.reviewCommitted = 0, !.approvalRequired = 0,
                             !.status = "Open"]
        <5>1. demands' = [demands EXCEPT ![d] = r]
            BY <4>3 DEF Reopen, MayReopen
        <5>2. r.status = "Open"
            BY <1>0 DEF Demand
        <5> HIDE DEF r
        <5>3. QED
            BY <1>0, <2>1, <2>2, <5>1, <5>2
      <4>4. QED
          BY <1>8, <2>2, <4>1, <4>2, <4>3
    <3>2. QED
        BY <3>1
  <2>3. CASE e # d
    <3>1. CASE Finalize(e)
        BY <2>1, <2>3, <3>1 DEF Finalize, MayFinalize
    <3>2. CASE CancelSettlement(e)
        BY <2>1, <2>3, <3>2 DEF CancelSettlement, MayCancel
    <3>3. CASE Reopen(e)
        BY <2>1, <2>3, <3>3 DEF Reopen, MayReopen
    <3>4. QED
        BY <1>8, <3>1, <3>2, <3>3
  <2>4. QED
      BY <2>2, <2>3
<1>9. ASSUME NEW e \in Existing, NEW a \in Account, Refund(a, e)
      PROVE  demands'[d].committed <= demands'[d].reviewCommitted
    <2>1. commitmentOf[e][a] \in Nat /\ demands[e] \in Demand
        BY <1>0 DEF TypeOK
    <2>2. CASE e # d
        BY <1>0, <1>1, <1>9, <2>2 DEF Refund, TypeOK, MayRefund
    <2>3. CASE e = d
        <3>1. /\ demands'[d].committed = demands[d].committed - commitmentOf[d][a]
              /\ demands'[d].reviewCommitted = demands[d].reviewCommitted
              /\ demands[d].status = "Submitted"
            BY <1>0, <1>9, <2>1, <2>3 DEF Refund, TypeOK, Demand, MayRefund
        <3> QED BY <1>0, <2>1, <2>3, <3>1 DEF ReviewBounded, Demand
    <2> QED BY <2>2, <2>3
<1> QED BY <1>1, <1>2, <1>3, <1>4, <1>5, <1>6, <1>7, <1>8, <1>9 DEF Next, Transaction

(* So it never does.                                                       *)
LEMMA AlwaysReviewBounded == Spec => []ReviewBounded
<1>1. Init => ReviewBounded
    BY DEF Init, EmptyDemand, ReviewBounded
<1> QED BY <1>1, ReviewBoundedStep, Inductive, PTL DEF Spec

(* The sums of the promise are those of the contract.                      *)
LEMMA SameSums ==
    /\ \A f : Promise!Total(f) = Total(f)
    /\ \A f, S : Promise!Share(f, S) = Share(f, S)
<1>1. \A f : Promise!Units(f) = Units(f)
    BY DEF Promise!Units, Units, Promise!UnitsOf, UnitsOf
<1>2. \A S : Promise!Cardinality(S) = Cardinality(S)
    BY DEF Promise!Cardinality, Cardinality
<1>3. QED
    BY <1>1, <1>2 DEF Promise!Total, Total, Promise!Share, Share

(* A demand no step was about keeps its phase and its claims.              *)
LEMMA PromiseUntouched ==
    ASSUME NEW d \in DemandId, now' = now, d \in Existing' <=> d \in Existing,
           demands'[d] = demands[d], commitmentOf'[d] = commitmentOf[d],
           submissionNonce'[d] = submissionNonce[d],
           approvalWeight'[d] = approvalWeight[d],
           rejectionWeight'[d] = rejectionWeight[d],
           hasApproved'[d] = hasApproved[d]
    PROVE  PhaseOf(d)' = PhaseOf(d) /\ Claims(d)' = Claims(d)
<1>1. Replaceable(d)' = Replaceable(d)
    BY DEF Replaceable, CandidateFailed, CandidateRejected, BelowQuorum, ReviewEnded, Expired
<1>2. QED
    BY <1>1 DEF PhaseOf, Claims, Claimants, Approvers

(* So with every demand but the one a transaction is about.                *)
LEMMA OthersPromiseUntouched ==
    ASSUME NEW d, StepOn(d), NEW e \in DemandId, e # d
    PROVE  PhaseOf(e)' = PhaseOf(e) /\ Claims(e)' = Claims(e)
<1>1. Existing' = Existing
    BY DEF StepOn, Existing
<1>2. QED
    BY <1>1, PromiseUntouched DEF StepOn

(* A demand that does not settle in a step can only be given up in it.     *)
LEMMA PhaseMoves ==
    ASSUME IInv, [Next]_vars, NEW d \in DemandId, Existing \subseteq Existing',
           demands'[d].status = "Fulfilled" <=> demands[d].status = "Fulfilled"
    PROVE  \/ PhaseOf(d)' = PhaseOf(d)
           \/ PhaseOf(d) = "collecting" /\ PhaseOf(d)' = "givenUp"
<1>1. d \in Existing /\ Replaceable(d) => d \in Existing' /\ Replaceable(d)'
    BY NextKeeps DEF StepKeeps
<1>2. QED
    BY <1>1 DEF PhaseOf

(* A step that moves no token and settles nothing gives up some demands.   *)
LEMMA NothingMoves ==
    ASSUME IInv, [Next]_vars, Existing \subseteq Existing', balance' = balance,
           \A d \in DemandId :
               /\ Claims(d)' = Claims(d)
               /\ demands'[d].status = "Fulfilled" <=> demands[d].status = "Fulfilled"
    PROVE  Promise!PledgeNext
<1> DEFINE failed == {d \in DemandId : PhaseOf(d)' # PhaseOf(d)}
<1>1. \A d \in DemandId : \/ PhaseOf(d)' = PhaseOf(d)
                          \/ PhaseOf(d) = "collecting" /\ PhaseOf(d)' = "givenUp"
    BY PhaseMoves
<1>2. Promise!GiveUp(failed)
  <2>1. [d \in DemandId |-> PhaseOf(d)]' =
            [d \in DemandId |-> IF d \in failed THEN "givenUp"
                                ELSE [e \in DemandId |-> PhaseOf(e)][d]]
      BY <1>1
  <2>2. [d \in DemandId |-> Claims(d)]' = [d \in DemandId |-> Claims(d)]
      OBVIOUS
  <2>3. [h \in Account \cup {Treasury} |-> balance[h]]'
            = [h \in Account \cup {Treasury} |-> balance[h]]
      OBVIOUS
  <2>4. \A d \in failed : [e \in DemandId |-> PhaseOf(e)][d] = "collecting"
      BY <1>1
  <2> HIDE DEF failed
  <2>5. QED
      BY <2>1, <2>2, <2>3, <2>4 DEF Promise!GiveUp
<1>3. failed \in SUBSET DemandId
    OBVIOUS
<1> HIDE DEF failed
<1>4. QED
    BY <1>2, <1>3 DEF Promise!PledgeNext

(* A step that changes one supporter's commitment changes that claim.      *)
LEMMA ClaimMoves ==
    ASSUME TypeOK, TypeOK', NEW d \in DemandId, NEW a \in Account, NEW v \in Nat,
           commitmentOf'[d] = [commitmentOf[d] EXCEPT ![a] = v],
           a \in Claimants(d), Claimants(d)' = Claimants(d)
    PROVE  Claims(d)' = [Claims(d) EXCEPT ![a] = v]
<1>1. /\ commitmentOf[d] \in [Account -> Nat] /\ commitmentOf'[d] \in [Account -> Nat]
    BY DEF TypeOK
<1>2. /\ Claims(d) = Share(commitmentOf[d], Claimants(d))
      /\ Claims(d)' = Share(commitmentOf'[d], Claimants(d))
    BY DEF Claims
<1>3. Claims(d) \in [Account -> Nat] /\ Claims(d)' \in [Account -> Nat]
    BY <1>1, <1>2, ShareType
<1>4. \A b \in Account : Claims(d)'[b] = IF b = a THEN v ELSE Claims(d)[b]
    BY <1>1, <1>2, ShareType
<1>5. QED
    BY <1>3, <1>4

(* What makes a step a pledge.                                             *)
LEMMA MakesPledge ==
    ASSUME TypeOK, NEW a \in Account, NEW d \in DemandId, NEW n \in Nat,
           0 < n, n <= balance[a], PhaseOf(d) = "collecting",
           \A e \in DemandId : PhaseOf(e)' = PhaseOf(e),
           \A e \in DemandId \ {d} : Claims(e)' = Claims(e),
           Claims(d)' = [Claims(d) EXCEPT ![a] = Claims(d)[a] + n],
           \A h \in Account \cup {Treasury} :
               balance'[h] = IF h = a THEN balance[h] - n ELSE balance[h]
    PROVE  Promise!PledgeNext
<1>1. balance[a] \in Nat
    BY EscrowApart DEF TypeOK
<1>2. n \in 1 .. balance[a]
    BY <1>1
<1>3. Promise!Pledge(a, d, n)
  <2>1. [e \in DemandId |-> PhaseOf(e)]' = [e \in DemandId |-> PhaseOf(e)]
      OBVIOUS
  <2>2. [e \in DemandId |-> Claims(e)]' =
            [[e \in DemandId |-> Claims(e)] EXCEPT ![d][a] = @ + n]
      OBVIOUS
  <2>3. [h \in Account \cup {Treasury} |-> balance[h]]' =
            [[h \in Account \cup {Treasury} |-> balance[h]] EXCEPT ![a] = @ - n]
      OBVIOUS
  <2>4. /\ [e \in DemandId |-> PhaseOf(e)][d] = "collecting"
        /\ [h \in Account \cup {Treasury} |-> balance[h]][a] = balance[a]
      OBVIOUS
  <2>5. QED
      BY <1>2, <2>1, <2>2, <2>3, <2>4 DEF Promise!Pledge
<1>4. [h \in Account \cup {Treasury} |-> balance[h]][a] = balance[a]
    OBVIOUS
<1>5. QED
    BY <1>2, <1>3, <1>4 DEF Promise!PledgeNext

(* What makes a step a return.                                             *)
LEMMA MakesReturn ==
    ASSUME TypeOK, NEW a \in Account, NEW d \in DemandId,
           PhaseOf(d) # "collecting", Claims(d)[a] # 0,
           \A e \in DemandId : PhaseOf(e)' = PhaseOf(e),
           \A e \in DemandId \ {d} : Claims(e)' = Claims(e),
           Claims(d)' = [Claims(d) EXCEPT ![a] = 0],
           \A h \in Account \cup {Treasury} :
               balance'[h] = IF h = a THEN balance[h] + Claims(d)[a] ELSE balance[h]
    PROVE  Promise!PledgeNext
<1>1. Promise!Return(a, d)
  <2>1. [e \in DemandId |-> PhaseOf(e)]' = [e \in DemandId |-> PhaseOf(e)]
      OBVIOUS
  <2>2. [e \in DemandId |-> Claims(e)]' =
            [[e \in DemandId |-> Claims(e)] EXCEPT ![d] = [@ EXCEPT ![a] = 0]]
      OBVIOUS
  <2>3. [h \in Account \cup {Treasury} |-> balance[h]]' =
            [[h \in Account \cup {Treasury} |-> balance[h]] EXCEPT
                ![a] = @ + [e \in DemandId |-> Claims(e)][d][a]]
      OBVIOUS
  <2>4. /\ [e \in DemandId |-> PhaseOf(e)][d] # "collecting"
        /\ [e \in DemandId |-> Claims(e)][d][a] # 0
      OBVIOUS
  <2>5. QED
      BY <2>1, <2>2, <2>3, <2>4 DEF Promise!Return
<1>2. QED
    BY <1>1 DEF Promise!PledgeNext

(* What makes a step a settlement.                                         *)
LEMMA MakesSettlement ==
    ASSUME TypeOK, NEW d \in DemandId, NEW payers \in SUBSET Account,
           NEW builder \in Account, NEW amount \in Nat, NEW fee \in Nat,
           amount = Total(Share(Claims(d), payers)), 2 * amount > Total(Claims(d)),
           10 * fee <= amount, PhaseOf(d) = "collecting", PhaseOf(d)' = "settled",
           \A e \in DemandId \ {d} : PhaseOf(e)' = PhaseOf(e) /\ Claims(e)' = Claims(e),
           Claims(d)' = Share(Claims(d), Account \ payers),
           \A h \in Account \cup {Treasury} :
               balance'[h] = balance[h] + (IF h = builder THEN amount - fee ELSE 0)
                                        + (IF h = Treasury THEN fee ELSE 0)
    PROVE  Promise!PledgeNext
<1> DEFINE P == [e \in DemandId |-> PhaseOf(e)]
           C == [e \in DemandId |-> Claims(e)]
           B == [h \in Account \cup {Treasury} |-> balance[h]]
<1>1. fee \in 0 .. amount \div 10
    OBVIOUS
<1>2. /\ Promise!Total(Promise!Share(C[d], payers)) = amount
      /\ Promise!Total(C[d]) = Total(Claims(d))
      /\ Promise!Share(C[d], Account \ payers) = Share(Claims(d), Account \ payers)
    BY SameSums
<1>3. P' = [P EXCEPT ![d] = "settled"] /\ P[d] = "collecting"
    OBVIOUS
<1>4. C' = [C EXCEPT ![d] = Promise!Share(C[d], Account \ payers)]
    BY <1>2
<1>5. B' = [o \in Promise!Owner |->
               B[o] + (IF o = builder THEN amount - fee ELSE 0)
                    + (IF o = Treasury THEN fee ELSE 0)]
    BY DEF Promise!Owner
<1>6. Promise!Settle(d, payers, builder, fee)
  <2> HIDE DEF P, C, B
  <2>1. QED
      BY <1>1, <1>2, <1>3, <1>4, <1>5 DEF Promise!Settle, P, C, B
<1>7. fee \in 0 .. Promise!Total(Promise!Share(C[d], payers)) \div 10
    BY <1>1, <1>2
<1>8. QED
    BY <1>6, <1>7 DEF Promise!PledgeNext

(* Tokens pulled from an account leave that account alone.                 *)
LEMMA PullsFrom ==
    ASSUME TypeOK, NEW a \in Account, NEW n \in Nat, PullExact(a, n)
    PROVE  n <= balance[a] /\ \A h \in Account \cup {Treasury} :
               balance'[h] = IF h = a THEN balance[h] - n ELSE balance[h]
<1>1. /\ balance \in [Holder -> Nat] /\ a \in Holder /\ a # Escrow /\ Escrow \in Holder
      /\ Account \cup {Treasury} \subseteq Holder \ {Escrow}
    BY EscrowApart DEF TypeOK
<1>2. n <= balance[a] /\ balance' = Transfer(balance, a, Escrow, n)
    BY <1>1 DEF PullExact
<1>3. QED
    BY <1>1, <1>2, TransferMoves

(* Tokens pushed to an account reach that account alone.                   *)
LEMMA PushesTo ==
    ASSUME NEW ledger \in [Holder -> Nat], NEW a \in Account, NEW n \in Nat,
           Pushed(ledger, a, n)
    PROVE  \A h \in Account \cup {Treasury} :
               balance'[h] = IF h = a THEN ledger[h] + n ELSE ledger[h]
<1>1. /\ a \in Holder /\ a # Escrow /\ Escrow \in Holder
      /\ Account \cup {Treasury} \subseteq Holder \ {Escrow}
    BY EscrowApart
<1>2. n <= ledger[Escrow] /\ balance' = Transfer(ledger, Escrow, a, n)
    BY <1>1 DEF Pushed
<1>3. QED
    BY <1>1, <1>2, TransferMoves

(* A step on a demand that is not settled, before or after, and that moves *)
(* no token.                                                               *)
LEMMA QuietStep ==
    ASSUME IInv, [Next]_vars, NEW d \in Existing, StepOn(d),
           commitmentOf' = commitmentOf, balance' = balance,
           demands[d].status # "Fulfilled", demands'[d].status # "Fulfilled"
    PROVE  Promise!PledgeNext
<1>1. Existing' = Existing
    BY DEF StepOn, Existing
<1>2. Claims(d)' = Claims(d)
    BY DEF Claims, Claimants
<1>3. \A e \in DemandId : Claims(e)' = Claims(e)
    BY <1>2, OthersPromiseUntouched
<1>4. \A e \in DemandId :
          demands'[e].status = "Fulfilled" <=> demands[e].status = "Fulfilled"
    BY DEF StepOn
<1>5. QED
    BY <1>1, <1>3, <1>4, NothingMoves

(* Creating a demand pledges the creator's first commitment.               *)
LEMMA CreatePledges ==
    ASSUME IInv, TypeOK', NEW a \in Account, NEW k \in Key, NEW t \in Deadline,
           NEW n \in Amount, NEW d, d = nextDemandId, CreateDemand(a, k, t, n)
    PROVE  Promise!PledgeNext
<1> DEFINE r == [demands[d] EXCEPT !.creator = a, !.committed = n, !.deadline = t,
                                   !.supporterCount = 1, !.status = "Open"]
<1>0. TypeOK
    BY DEF IInv
<1>1. /\ n \in Nat /\ n > 0 /\ t \in Nat /\ now \in Nat /\ MinLead \in Nat /\ MinLead > 0
      /\ MaxDemands \in Nat /\ t >= now + MinLead
    BY <1>0, ConstantsAssumption DEF CreateDemand, TypeOK
<1>2. /\ d <= MaxDemands /\ nextDemandId' = d + 1
      /\ demands' = [demands EXCEPT ![d] = r]
      /\ commitmentOf' = [commitmentOf EXCEPT ![d][a] = n]
      /\ PullExact(a, n)
      /\ now' = now /\ submissionNonce' = submissionNonce /\ votes' = votes
    BY DEF CreateDemand
<1>3. /\ d \in DemandId /\ d \notin Existing /\ Existing' = Existing \cup {d}
  <2>1. d \in Nat /\ d >= 1
      BY <1>0, <1>1 DEF TypeOK
  <2>2. Existing = 1 .. d - 1 /\ Existing' = 1 .. d
      BY <1>2, <2>1 DEF Existing
  <2>3. QED
      BY <1>1, <1>2, <2>1, <2>2 DEF DemandId
<1>4. Fresh(d)
    BY <1>3 DEF IInv, DemandInv
<1>5. /\ demands'[d] = r /\ r.status = "Open" /\ r.deadline = t
  <2>1. demands[d] \in Demand
      BY <1>0, <1>3 DEF TypeOK
  <2>2. r.status = "Open" /\ r.deadline = t
      BY <2>1 DEF Demand
  <2> HIDE DEF r
  <2>3. QED
      BY <2>2, <1>0, <1>2, <1>3 DEF TypeOK
<1> HIDE DEF r
<1>6. commitmentOf'[d] = [commitmentOf[d] EXCEPT ![a] = n] /\ commitmentOf[d][a] = 0
    BY <1>0, <1>2, <1>3, <1>4 DEF TypeOK, Fresh
<1>7. demands[d].status = "Open"
    BY <1>4 DEF Fresh, EmptyDemand
<1>8. PhaseOf(d) = "collecting" /\ PhaseOf(d)' = "collecting"
  <2>1. ~Expired(d)'
      BY <1>1, <1>2, <1>5 DEF Expired
  <2>2. QED
      BY <1>3, <1>5, <1>7, <2>1 DEF PhaseOf, Replaceable
<1>9. Claims(d)' = [Claims(d) EXCEPT ![a] = Claims(d)[a] + n]
  <2>1. Claimants(d) = Account /\ Claimants(d)' = Account
      BY <1>5, <1>7 DEF Claimants
  <2>2. Claims(d)[a] = 0
      BY <1>0, <1>3, <1>6, <2>1, ClaimsType
  <2>3. Claims(d)' = [Claims(d) EXCEPT ![a] = n]
      BY <1>0, <1>1, <1>3, <1>6, <2>1, ClaimMoves
  <2>4. QED
      BY <1>1, <2>2, <2>3
<1>10. \A e \in DemandId \ {d} : PhaseOf(e)' = PhaseOf(e) /\ Claims(e)' = Claims(e)
  <2>1. SUFFICES ASSUME NEW e \in DemandId, e # d
                 PROVE  PhaseOf(e)' = PhaseOf(e) /\ Claims(e)' = Claims(e)
      OBVIOUS
  <2>2. demands'[e] = demands[e] /\ commitmentOf'[e] = commitmentOf[e]
      BY <1>0, <1>2, <1>3, <2>1 DEF TypeOK
  <2>3. e \in Existing' <=> e \in Existing
      BY <1>3, <2>1
  <2>4. QED
      BY <1>2, <2>2, <2>3, PromiseUntouched DEF votes
<1>11. n <= balance[a] /\ \A h \in Account \cup {Treasury} :
           balance'[h] = IF h = a THEN balance[h] - n ELSE balance[h]
    BY <1>0, <1>1, <1>2, PullsFrom
<1>12. QED
    BY <1>0, <1>1, <1>3, <1>8, <1>9, <1>10, <1>11, MakesPledge

(* Supporting a demand pledges.                                            *)
LEMMA SupportPledges ==
    ASSUME IInv, TypeOK', NEW a \in Account, NEW d \in Existing, NEW n \in Amount,
           SupportDemand(a, d, n)
    PROVE  Promise!PledgeNext
<1> DEFINE r == [demands[d] EXCEPT
                     !.committed = demands[d].committed + n,
                     !.supporterCount = demands[d].supporterCount
                         + SupporterAdded(commitmentOf[d][a])]
<1>1. TypeOK /\ d \in DemandId /\ n \in Nat /\ n > 0 /\ demands[d] \in Demand
  <2>1. n \in Nat /\ n > 0
      BY ConstantsAssumption DEF SupportDemand
  <2>2. TypeOK /\ d \in DemandId
      BY ExistingHasId DEF IInv
  <2>3. QED
      BY <2>1, <2>2 DEF TypeOK
<1>2. /\ demands' = [demands EXCEPT ![d] = r]
      /\ commitmentOf' = [commitmentOf EXCEPT ![d][a] = commitmentOf[d][a] + n]
      /\ PullExact(a, n)
      /\ demands[d].status = "Open" /\ ~Expired(d)
      /\ now' = now /\ nextDemandId' = nextDemandId /\ keys' = keys
      /\ submissionNonce' = submissionNonce /\ votes' = votes
    BY DEF SupportDemand
<1>3. r.status = "Open" /\ r.deadline = demands[d].deadline
    BY <1>1, <1>2 DEF Demand
<1> HIDE DEF r
<1>4. demands'[d] = r /\ commitmentOf'[d] = [commitmentOf[d] EXCEPT ![a] = @ + n]
    BY <1>1, <1>2 DEF TypeOK
<1>5. StepOn(d)
    BY <1>1, <1>2 DEF StepOn, TypeOK, votes, keys
<1>6. PhaseOf(d) = "collecting" /\ PhaseOf(d)' = "collecting"
  <2>1. ~Expired(d)'
      BY <1>2, <1>3, <1>4 DEF Expired
  <2>2. QED
      BY <1>2, <1>3, <1>4, <2>1 DEF PhaseOf, Replaceable
<1>7. Claims(d)' = [Claims(d) EXCEPT ![a] = Claims(d)[a] + n]
  <2>1. Claimants(d) = Account /\ Claimants(d)' = Account
      BY <1>2, <1>3, <1>4 DEF Claimants
  <2>2. Claims(d)[a] = commitmentOf[d][a] /\ commitmentOf[d][a] \in Nat
      BY <1>1, <2>1, ClaimsType DEF TypeOK
  <2>3. Claims(d)' = [Claims(d) EXCEPT ![a] = commitmentOf[d][a] + n]
      BY <1>1, <1>4, <2>1, <2>2, ClaimMoves
  <2>4. QED
      BY <2>2, <2>3
<1>8. n <= balance[a] /\ \A h \in Account \cup {Treasury} :
          balance'[h] = IF h = a THEN balance[h] - n ELSE balance[h]
    BY <1>1, <1>2, PullsFrom
<1>9. \A e \in DemandId \ {d} : PhaseOf(e)' = PhaseOf(e) /\ Claims(e)' = Claims(e)
    BY <1>5, OthersPromiseUntouched
<1>10. QED
    BY <1>1, <1>6, <1>7, <1>8, <1>9, MakesPledge

(* A refund returns one claim, and only from a demand that is over.        *)
LEMMA RefundReturns ==
    ASSUME IInv, TypeOK', [Next]_vars, NEW a \in Account, NEW d \in Existing, Refund(a, d)
    PROVE  Promise!PledgeNext
<1> DEFINE amount == commitmentOf[d][a]
           remaining == demands[d].committed - amount
           closes == remaining = 0
                     /\ demands[d].status \notin {"Fulfilled", "Cancelled"}
           ending == IF closes THEN "Closed" ELSE demands[d].status
           r == [demands[d] EXCEPT !.committed = remaining, !.status = ending]
<1>1. TypeOK /\ d \in DemandId /\ demands[d] \in Demand /\ amount \in Nat
  <2>1. TypeOK /\ d \in DemandId
      BY ExistingHasId DEF IInv
  <2>2. QED
      BY <2>1 DEF TypeOK
<1>2. /\ demands' = [demands EXCEPT ![d] = r]
      /\ Refundable(d, a)
      /\ commitmentOf' = [commitmentOf EXCEPT ![d][a] = 0]
      /\ Pushed(balance, a, amount)
      /\ now' = now /\ nextDemandId' = nextDemandId /\ demandKeyOf' = demandKeyOf
      /\ submissionNonce' = submissionNonce /\ votes' = votes
    BY DEF Refund, MayRefund, Pushable, PushExact, Pushed
<1>3. r.status = ending
  <2> HIDE DEF ending, remaining
  <2>1. QED
      BY <1>1 DEF Demand
<1>4. ending = "Fulfilled" <=> demands[d].status = "Fulfilled"
  <2> HIDE DEF r, remaining, amount
  <2>1. QED
      OBVIOUS
<1> HIDE DEF r, ending, remaining, amount
<1>5. demands'[d] = r /\ commitmentOf'[d] = [commitmentOf[d] EXCEPT ![a] = 0]
    BY <1>1, <1>2 DEF TypeOK
<1>6. demands'[d].status = "Fulfilled" <=> demands[d].status = "Fulfilled"
    BY <1>3, <1>4, <1>5
<1>7. StepOn(d)
    BY <1>1, <1>2 DEF StepOn, TypeOK, votes
<1>8. PhaseOf(d) # "collecting"
    BY <1>2 DEF Refundable, PhaseOf, Replaceable
<1>9. PhaseOf(d)' = PhaseOf(d)
  <2>1. Existing' = Existing
      BY <1>2 DEF Existing
  <2>2. QED
      BY <1>1, <1>6, <1>8, <2>1, PhaseMoves
<1>10. a \in Claimants(d) /\ Claimants(d)' = Claimants(d)
  <2>1. a \in Claimants(d)
      BY <1>2 DEF Claimants, Refundable
  <2>2. Approvers(d)' = Approvers(d)
      BY <1>2 DEF Approvers, votes
  <2>3. QED
      BY <1>6, <2>1, <2>2 DEF Claimants
<1>11. Claims(d)[a] = amount /\ Claims(d)' = [Claims(d) EXCEPT ![a] = 0]
    BY <1>1, <1>5, <1>10, ClaimsType, ClaimMoves DEF amount
<1>12. amount # 0
    BY <1>2 DEF Refundable, amount
<1>13. \A h \in Account \cup {Treasury} :
           balance'[h] = IF h = a THEN balance[h] + Claims(d)[a] ELSE balance[h]
  <2>1. balance \in [Holder -> Nat]
      BY <1>1 DEF TypeOK
  <2>2. \A h \in Account \cup {Treasury} :
            balance'[h] = IF h = a THEN balance[h] + amount ELSE balance[h]
      BY <1>1, <1>2, <2>1, PushesTo
  <2>3. QED
      BY <1>11, <2>2
<1>14. \A e \in DemandId \ {d} : PhaseOf(e)' = PhaseOf(e) /\ Claims(e)' = Claims(e)
    BY <1>7, OthersPromiseUntouched
<1>15. QED
    BY <1>1, <1>8, <1>9, <1>11, <1>12, <1>13, <1>14, MakesReturn

(* Who gets what in a settlement.                                          *)
LEMMA Settles ==
    ASSUME TypeOK, NEW b \in Account, NEW amount \in Nat, NEW fee \in Nat, fee <= amount,
           balance[Escrow] >= fee, Pushed(AfterFee(fee), b, amount - fee)
    PROVE  \A h \in Account \cup {Treasury} :
               balance'[h] = balance[h] + (IF h = b THEN amount - fee ELSE 0)
                                        + (IF h = Treasury THEN fee ELSE 0)
<1>1. /\ balance \in [Holder -> Nat] /\ Escrow \in Holder /\ Treasury \in Holder
      /\ Escrow # Treasury /\ Account \cup {Treasury} \subseteq Holder \ {Escrow}
    BY EscrowApart DEF TypeOK
<1>2. /\ AfterFee(fee) \in [Holder -> Nat]
      /\ \A h \in Account \cup {Treasury} :
             AfterFee(fee)[h] = balance[h] + (IF h = Treasury THEN fee ELSE 0)
  <2>1. CASE fee = 0
      BY <1>1, <2>1 DEF AfterFee
  <2>2. CASE fee # 0
      BY <1>1, <2>2, TransferMoves DEF AfterFee
  <2>3. QED
      BY <2>1, <2>2
<1>3. amount - fee \in Nat
    OBVIOUS
<1>4. \A h \in Account \cup {Treasury} :
          balance'[h] = IF h = b THEN AfterFee(fee)[h] + (amount - fee) ELSE AfterFee(fee)[h]
    BY <1>2, <1>3, PushesTo
<1>5. QED
    BY <1>1, <1>2, <1>3, <1>4

(* Finalizing settles: the approvers pay, and hold more than half.         *)
LEMMA FinalizeSettles ==
    ASSUME IInv, ReviewBounded, TypeOK', NEW d \in Existing, Finalize(d)
    PROVE  Promise!PledgeNext
<1> DEFINE approved == approvalWeight[d]
           fee == Fee(approved)
           r == [demands[d] EXCEPT !.status = "Fulfilled",
                                   !.committed = demands[d].committed - approved]
<1>1. TypeOK /\ d \in DemandId /\ DemandInv(d) /\ demands[d] \in Demand
  <2>1. TypeOK /\ d \in DemandId
      BY ExistingHasId DEF IInv
  <2>2. QED
      BY <2>1 DEF IInv, TypeOK
<1>2. /\ demands' = [demands EXCEPT ![d] = r]
      /\ demands[d].status = "Submitted" /\ QuorumReached(d)
      /\ balance[Escrow] >= fee
      /\ Pushed(AfterFee(fee), demands[d].builder, approved - fee)
      /\ now' = now /\ nextDemandId' = nextDemandId /\ demandKeyOf' = demandKeyOf
      /\ commitmentOf' = commitmentOf /\ submissionNonce' = submissionNonce
      /\ votes' = votes
    BY DEF Finalize, MayFinalize, Pushable, PushExact, Pushed
<1>3. approved \in Nat /\ fee \in Nat /\ 10 * fee <= approved
    BY <1>1, FeeBounds DEF TypeOK
<1>4. r.status = "Fulfilled"
    BY <1>1 DEF Demand
<1> HIDE DEF r, fee
<1>5. demands'[d] = r
    BY <1>1, <1>2 DEF TypeOK
<1>6. StepOn(d)
    BY <1>1, <1>2 DEF StepOn, TypeOK, votes
<1>7. /\ approved = ApprovingStake(d) /\ TermsFixed(d)
      /\ approved >= demands[d].approvalRequired
    BY <1>1, <1>2, QuorumMeansBacked
<1> HIDE DEF approved
<1>8. Claims(d) = commitmentOf[d] /\ Approvers(d) \in SUBSET Account
    BY <1>1, <1>2, ShareOfAll, VotersType DEF Claims, Claimants, TypeOK
<1>9. approved = Total(Share(Claims(d), Approvers(d)))
    BY <1>7, <1>8 DEF ApprovingStake
<1>10. 2 * approved > Total(Claims(d))
  <2>1. /\ demands[d].reviewCommitted \in Nat /\ demands[d].reviewCommitted > 0
        /\ demands[d].committed \in Nat
        /\ demands[d].committed <= demands[d].reviewCommitted
        /\ demands[d].committed = Total(Claims(d))
      BY <1>1, <1>2, <1>7 DEF Demand, TermsFixed, ReviewBounded, DemandInv
  <2>2. /\ demands[d].approvalRequired \in Nat
        /\ 2 * demands[d].approvalRequired > demands[d].reviewCommitted
      BY <1>7, <2>1, QuorumBounds DEF TermsFixed
  <2>3. QED
      BY <1>3, <1>7, <2>1, <2>2
<1>11. PhaseOf(d) = "collecting" /\ PhaseOf(d)' = "settled"
  <2>1. ~Replaceable(d)
      BY <1>1, <1>2, QuorumMeansBacked DEF Replaceable, CandidateFailed
  <2>2. QED
      BY <1>2, <1>4, <1>5, <2>1 DEF PhaseOf
<1>12. Claims(d)' = Share(Claims(d), Account \ Approvers(d))
  <2>1. Approvers(d)' = Approvers(d)
      BY <1>2 DEF Approvers, votes
  <2>2. QED
      BY <1>2, <1>4, <1>5, <1>8, <2>1 DEF Claims, Claimants
<1>13. demands[d].builder \in Account
    BY <1>1, <1>2 DEF DemandInv, ReviewSound
<1>14. \A h \in Account \cup {Treasury} :
           balance'[h] = balance[h] + (IF h = demands[d].builder THEN approved - fee ELSE 0)
                                    + (IF h = Treasury THEN fee ELSE 0)
  <2>1. /\ fee <= approved /\ balance[Escrow] >= fee
        /\ Pushed(AfterFee(fee), demands[d].builder, approved - fee)
      BY <1>2, <1>3
  <2>2. PICK b \in Account : b = demands[d].builder
      BY <1>13
  <2>3. Pushed(AfterFee(fee), b, approved - fee)
      BY <2>1, <2>2
  <2>4. \A h \in Account \cup {Treasury} :
            balance'[h] = balance[h] + (IF h = b THEN approved - fee ELSE 0)
                                     + (IF h = Treasury THEN fee ELSE 0)
      BY <1>1, <1>3, <2>1, <2>3, Settles
  <2>5. QED
      BY <2>2, <2>4
<1>15. \A e \in DemandId \ {d} : PhaseOf(e)' = PhaseOf(e) /\ Claims(e)' = Claims(e)
    BY <1>6, OthersPromiseUntouched
<1>16. QED
    BY <1>1, <1>3, <1>8, <1>9, <1>10, <1>11, <1>12, <1>13, <1>14, <1>15, MakesSettlement

(* Submitting a service moves no claim.                                    *)
LEMMA SubmitMovesNothing ==
    ASSUME IInv, [Next]_vars, NEW a \in Account, NEW d \in Existing,
           NEW att \in Attestation, SubmitService(a, d, att)
    PROVE  Promise!PledgeNext
<1> DEFINE r == [demands[d] EXCEPT
                    !.builder = a, !.reviewEndsAt = now + ReviewPeriod,
                    !.reviewCommitted = demands[d].committed,
                    !.approvalRequired = CeilDiv(demands[d].committed * QuorumBps, 10000),
                    !.status = "Submitted"]
<1>1. TypeOK /\ d \in DemandId
    BY ExistingHasId DEF IInv
<1>2. /\ demands' = [demands EXCEPT ![d] = r] /\ demands[d].status = "Open"
      /\ submissionNonce' = [submissionNonce EXCEPT ![d] = submissionNonce[d] + 1]
      /\ approvalWeight' = [approvalWeight EXCEPT ![d] = 0]
      /\ rejectionWeight' = [rejectionWeight EXCEPT ![d] = 0]
      /\ now' = now /\ nextDemandId' = nextDemandId /\ demandKeyOf' = demandKeyOf
      /\ hasApproved' = hasApproved /\ hasRejected' = hasRejected
      /\ commitmentOf' = commitmentOf /\ balance' = balance
    BY DEF SubmitService, keys
<1>3. r.status = "Submitted"
    BY <1>1 DEF TypeOK, Demand
<1> HIDE DEF r
<1>4. demands'[d] = r
    BY <1>1, <1>2 DEF TypeOK
<1>5. StepOn(d)
    BY <1>1, <1>2 DEF StepOn, TypeOK
<1>6. QED
    BY <1>2, <1>3, <1>4, <1>5, QuietStep

(* A vote moves no claim.                                                  *)
LEMMA VoteMovesNothing ==
    ASSUME IInv, [Next]_vars, NEW a \in Account, NEW d \in Existing, NEW n \in Nonce,
           ApproveService(a, d, n) \/ RejectService(a, d, n)
    PROVE  Promise!PledgeNext
<1>1. TypeOK /\ d \in DemandId
    BY ExistingHasId DEF IInv
<1>2. /\ demands[d].status = "Submitted" /\ demands' = demands
      /\ submissionNonce' = submissionNonce /\ commitmentOf' = commitmentOf
      /\ now' = now /\ nextDemandId' = nextDemandId /\ demandKeyOf' = demandKeyOf
      /\ balance' = balance
    BY DEF ApproveService, RejectService, MayVote, keys
<1>3. StepOn(d)
  <2>1. CASE ApproveService(a, d, n)
      BY <1>1, <1>2, <2>1 DEF ApproveService, StepOn, TypeOK
  <2>2. CASE RejectService(a, d, n)
      BY <1>1, <1>2, <2>2 DEF RejectService, StepOn, TypeOK
  <2>3. QED
      BY <2>1, <2>2
<1>4. QED
    BY <1>2, <1>3, QuietStep

(* Cancelling a settlement and reopening move no claim.                    *)
LEMMA EndMovesNothing ==
    ASSUME IInv, [Next]_vars, NEW d \in Existing, CancelSettlement(d) \/ Reopen(d)
    PROVE  Promise!PledgeNext
<1>1. TypeOK /\ d \in DemandId /\ demands[d] \in Demand
  <2>1. TypeOK /\ d \in DemandId
      BY ExistingHasId DEF IInv
  <2>2. QED
      BY <2>1 DEF TypeOK
<1>2. /\ demands[d].status = "Submitted"
      /\ submissionNonce' = submissionNonce /\ commitmentOf' = commitmentOf
      /\ now' = now /\ nextDemandId' = nextDemandId /\ demandKeyOf' = demandKeyOf
      /\ hasApproved' = hasApproved /\ hasRejected' = hasRejected /\ balance' = balance
    BY DEF CancelSettlement, MayCancel, Reopen, MayReopen, votes, keys
<1>3. StepOn(d) /\ demands'[d].status # "Fulfilled"
  <2>1. CASE CancelSettlement(d)
      BY <1>1, <1>2, <2>1 DEF CancelSettlement, StepOn, TypeOK, votes, Demand, MayCancel
  <2>2. CASE Reopen(d)
    <3> DEFINE r == [demands[d] EXCEPT !.builder = NoOne, !.reviewEndsAt = 0,
                         !.reviewCommitted = 0, !.approvalRequired = 0,
                         !.status = "Open"]
    <3>1. /\ demands' = [demands EXCEPT ![d] = r]
          /\ approvalWeight' = [approvalWeight EXCEPT ![d] = 0]
          /\ rejectionWeight' = [rejectionWeight EXCEPT ![d] = 0]
        BY <2>2 DEF Reopen, MayReopen
    <3>2. r.status = "Open"
        BY <1>1 DEF Demand
    <3> HIDE DEF r
    <3>3. QED
        BY <1>1, <1>2, <3>1, <3>2 DEF StepOn, TypeOK
  <2>3. QED
      BY <2>1, <2>2
<1>4. QED
    BY <1>2, <1>3, QuietStep

(* Every step of the contract is a step of the promise, or none.           *)
LEMMA StepKeepsPromise ==
    IInv /\ ReviewBounded /\ [Next]_vars => [Promise!PledgeNext]_(Promise!pledgeVars)
<1> SUFFICES ASSUME IInv, ReviewBounded, [Next]_vars
             PROVE  [Promise!PledgeNext]_(Promise!pledgeVars)
    OBVIOUS
<1>1. TypeOK /\ TypeOK' /\ Existing \subseteq DemandId
    BY NextType, ExistingHasId DEF IInv
<1>2. ASSUME demands' = demands, commitmentOf' = commitmentOf, nextDemandId' = nextDemandId,
             submissionNonce' = submissionNonce, votes' = votes, balance' = balance
      PROVE  Promise!PledgeNext
  <2>1. \A d \in DemandId : Claims(d)' = Claims(d)
      BY <1>2 DEF Claims, Claimants, Approvers, votes
  <2>2. Existing' = Existing
      BY <1>2 DEF Existing
  <2>3. QED
      BY <1>2, <2>1, <2>2, NothingMoves
<1>3. CASE Tick
    BY <1>2, <1>3 DEF Tick
<1>4. ASSUME NEW c, NEW v \in Verifier, SetVerifier(c, v)
      PROVE  Promise!PledgeNext
    BY <1>2, <1>4 DEF SetVerifier
<1>5. CASE UNCHANGED vars
    BY <1>2, <1>5 DEF vars
<1>6. ASSUME NEW a \in Account, NEW k \in Key, NEW t \in Deadline, NEW n \in Amount,
             CreateDemand(a, k, t, n)
      PROVE  Promise!PledgeNext
    BY <1>1, <1>6, CreatePledges
<1>7. ASSUME NEW d \in Existing, NEW a \in Account, NEW n \in Amount, SupportDemand(a, d, n)
      PROVE  Promise!PledgeNext
    BY <1>1, <1>7, SupportPledges
<1>8. ASSUME NEW d \in Existing, NEW a \in Account, NEW att \in Attestation,
             SubmitService(a, d, att)
      PROVE  Promise!PledgeNext
    BY <1>1, <1>8, SubmitMovesNothing
<1>9. ASSUME NEW d \in Existing, NEW a \in Account, NEW n \in Nonce,
             ApproveService(a, d, n) \/ RejectService(a, d, n)
      PROVE  Promise!PledgeNext
    BY <1>1, <1>9, VoteMovesNothing
<1>10. ASSUME NEW d \in Existing, NEW a \in Account, Refund(a, d)
       PROVE  Promise!PledgeNext
    BY <1>1, <1>10, RefundReturns
<1>11. ASSUME NEW d \in Existing, Finalize(d)
       PROVE  Promise!PledgeNext
    BY <1>1, <1>11, FinalizeSettles
<1>12. ASSUME NEW d \in Existing, CancelSettlement(d) \/ Reopen(d)
       PROVE  Promise!PledgeNext
    BY <1>1, <1>12, EndMovesNothing
<1>13. QED
    BY <1>3, <1>4, <1>5, <1>6, <1>7, <1>8, <1>9, <1>10, <1>11, <1>12 DEF Next, Transaction

(* The promise begins with nothing pledged.                                *)
LEMMA InitKeepsPromise == Init => Promise!PledgeInit
<1> SUFFICES ASSUME Init PROVE Promise!PledgeInit
    OBVIOUS
<1>1. TypeOK
    BY InitInv DEF IInv
<1>2. \A d \in DemandId : demands[d].status = "Open" /\ commitmentOf[d] = [a \in Account |-> 0]
    BY DEF Init, EmptyDemand
<1>3. Existing = {}
    BY DEF Init, Existing
<1>4. \A d \in DemandId : PhaseOf(d) = "collecting"
    BY <1>2, <1>3 DEF PhaseOf
<1>5. \A d \in DemandId : Claims(d) = [a \in Account |-> 0]
    BY <1>2 DEF Claims, Claimants, Share
<1>6. [h \in Account \cup {Treasury} |-> balance[h]] \in [Account \cup {Treasury} -> Nat]
    BY <1>1, EscrowApart DEF TypeOK
<1>7. QED
    BY <1>4, <1>5, <1>6 DEF Promise!PledgeInit, Promise!Owner

(* The contract implements Pledges: tokens leave the escrow through one    *)
(* settlement by a majority or back to their owner, and never while the    *)
(* demand is alive.                                                        *)
THEOREM ContractKeepsPledges == Spec => KeepsPledges
<1>1. QED
    BY Inductive, AlwaysReviewBounded, InitKeepsPromise, StepKeepsPromise, PTL
       DEF Spec, KeepsPledges, Promise!PledgeSpec

-------------------------------------------------------------------------------
(* The page of a demand.                                                   *)

(* Until its timer goes off, a page that has read a demand shows the       *)
(* status that the demand has.                                             *)
LEMMA StatusUntilTransition ==
    ASSUME NEW v, v.deadline \in Nat, v.reviewEndsAt \in Nat, v.status \in Status,
           v.candidateRejected \in BOOLEAN, v.quorumReached \in BOOLEAN,
           NEW first \in Nat, NEW t \in Nat, first <= t,
           \A u \in NextStatusChangeAt(v, first) : t < u
    PROVE  EffectiveStatus(v, t) = EffectiveStatus(v, first)
<1>1. CASE Over(v) \/ Ready(v)
    BY <1>1 DEF EffectiveStatus
<1>2. CASE ~Over(v) /\ ~Ready(v)
    <2>1. v.status \in {"Open", "Submitted"}
        BY <1>2 DEF Over, Status
    <2>2. CASE v.status = "Open"
        <3>1. v.deadline > first => t < v.deadline
            BY <2>2 DEF NextStatusChangeAt, Transition
        <3>2. Lapsed(v, t) <=> Lapsed(v, first)
            BY <2>2, <3>1 DEF Lapsed
        <3> QED BY <1>2, <3>2 DEF EffectiveStatus
    <2>3. CASE v.status = "Submitted" /\ (v.candidateRejected \/ v.deadline >= v.reviewEndsAt)
        <3>1. v.deadline > first => t < v.deadline
            BY <1>2, <2>3 DEF NextStatusChangeAt, Transition
        <3>2. Lapsed(v, t) <=> Lapsed(v, first)
            BY <2>3, <3>1 DEF Lapsed
        <3> QED BY <1>2, <3>2 DEF EffectiveStatus
    <2>4. CASE v.status = "Submitted" /\ ~v.candidateRejected /\ v.deadline < v.reviewEndsAt
        <3>1. v.reviewEndsAt > first => t < v.reviewEndsAt
            BY <1>2, <2>4 DEF NextStatusChangeAt, Transition
        <3>2. Lapsed(v, t) <=> Lapsed(v, first)
            BY <2>4, <3>1 DEF Lapsed
        <3> QED BY <1>2, <3>2 DEF EffectiveStatus
    <2> QED BY <2>1, <2>2, <2>3, <2>4
<1> QED BY <1>1, <1>2

(* For any demands, periods and times: what the page calls a demand's      *)
(* status changes with time alone only when its timer goes off             *)
(* (effectiveStatus, nextMarketStatusChangeAt).                            *)
THEOREM StatusStaysRight == Spec => []StatusLasts
<1>1. ASSUME TypeOK PROVE StatusLasts
    <2> SUFFICES ASSUME NEW d \in Existing,
                        NEW t \in now .. MaxTime + ReviewPeriod + SettlementGrace,
                        \A u \in NextStatusChangeAt(DemandView(d), now) : t < u
                 PROVE  EffectiveStatus(DemandView(d), t) = EffectiveStatus(DemandView(d), now)
        BY DEF StatusLasts
    <2>1. demands[d] \in Demand
        BY <1>1, ExistingHasId DEF TypeOK
    <2> DEFINE v == DemandView(d)
    <2>2. /\ v.deadline = demands[d].deadline /\ v.reviewEndsAt = demands[d].reviewEndsAt
          /\ v.status = demands[d].status
          /\ v.candidateRejected = CandidateIsRejected(d) /\ v.quorumReached = QuorumIsReached(d)
        BY DEF DemandView
    <2>3. v.deadline \in Nat /\ v.reviewEndsAt \in Nat /\ v.status \in Status
        BY <2>1, <2>2 DEF Demand
    <2>4. CandidateIsRejected(d) \in BOOLEAN /\ QuorumIsReached(d) \in BOOLEAN
        BY DEF CandidateIsRejected, QuorumIsReached
    <2>5. now \in Nat /\ t \in Nat /\ now <= t
        BY <1>1, ConstantsAssumption DEF TypeOK
    <2> HIDE DEF v
    <2>6. v.candidateRejected \in BOOLEAN /\ v.quorumReached \in BOOLEAN
        BY <2>2, <2>4
    <2>7. \A u \in NextStatusChangeAt(v, now) : t < u
        BY DEF v
    <2>8. EffectiveStatus(v, t) = EffectiveStatus(v, now)
        BY <2>3, <2>5, <2>6, <2>7, StatusUntilTransition
    <2> QED BY <2>8 DEF v
<1> QED BY <1>1, TypeCorrect, PTL

-------------------------------------------------------------------------------
(* What the page offers.                                                   *)

(* A demand that is open has no builder (submitService sets one, reopen    *)
(* takes it away).                                                         *)
UnbuiltWhileOpen ==
    \A d \in DemandId : demands[d].status = "Open" => demands[d].builder = NoOne

(* No step leaves a builder on an open demand.                             *)
LEMMA UnbuiltStep == IInv /\ UnbuiltWhileOpen /\ [Next]_vars => UnbuiltWhileOpen'
<1> SUFFICES ASSUME IInv, UnbuiltWhileOpen, [Next]_vars, NEW d \in DemandId,
                    demands'[d].status = "Open"
             PROVE  demands'[d].builder = NoOne
    BY DEF UnbuiltWhileOpen
<1> DEFINE Kept == /\ demands'[d].builder = demands[d].builder
                   /\ demands[d].status = "Open"
<1>0. TypeOK /\ Existing \subseteq DemandId /\ demands[d] \in Demand
    BY ExistingHasId DEF IInv, TypeOK
<1>1. CASE Tick \/ UNCHANGED vars \/ \E c, v : SetVerifier(c, v)
    BY <1>1 DEF Tick, SetVerifier, vars, UnbuiltWhileOpen
<1>2. ASSUME NEW a \in Account, NEW k \in Key, NEW t \in Deadline, NEW n \in Amount,
             CreateDemand(a, k, t, n)
      PROVE  demands'[d].builder = NoOne
  <2>1. nextDemandId \in DemandId /\ nextDemandId \notin Existing
    <3>1. nextDemandId \in Nat /\ nextDemandId >= 1 /\ nextDemandId <= MaxDemands
        BY <1>0, <1>2, ConstantsAssumption DEF TypeOK, CreateDemand
    <3>2. QED
        BY <3>1, ConstantsAssumption DEF DemandId, Existing
  <2>2. Fresh(nextDemandId)
      BY <2>1 DEF IInv, DemandInv
  <2>3. CASE d = nextDemandId
    <3>1. demands'[d].builder = demands[d].builder
        BY <1>0, <1>2, <2>3 DEF CreateDemand, TypeOK, Demand
    <3>2. QED
        BY <2>2, <2>3, <3>1 DEF Fresh, EmptyDemand
  <2>4. CASE d # nextDemandId
    <3>1. demands'[d] = demands[d]
        BY <1>0, <1>2, <2>4 DEF CreateDemand, TypeOK
    <3>2. QED
        BY <3>1 DEF UnbuiltWhileOpen
  <2>5. QED
      BY <2>3, <2>4
<1>3. ASSUME NEW e \in Existing, NEW a \in Account, NEW n \in Amount, SupportDemand(a, e, n)
      PROVE  Kept
    BY <1>0, <1>3 DEF SupportDemand, TypeOK, Demand
<1>4. ASSUME NEW e \in Existing, NEW a \in Account, NEW att \in Attestation,
             SubmitService(a, e, att)
      PROVE  Kept
    BY <1>0, <1>4 DEF SubmitService, TypeOK, Demand
<1>5. ASSUME NEW e \in Existing, NEW a \in Account, NEW n \in Nonce,
             ApproveService(a, e, n) \/ RejectService(a, e, n)
      PROVE  Kept
    BY <1>5 DEF ApproveService, RejectService
<1>6. ASSUME NEW e \in Existing, Finalize(e) \/ CancelSettlement(e)
      PROVE  Kept
  <2>1. e \in DemandId /\ demands \in [DemandId -> Demand]
      BY <1>0 DEF TypeOK
  <2>2. CASE Finalize(e)
      BY <1>0, <2>1, <2>2 DEF Finalize, Demand
  <2>3. CASE CancelSettlement(e)
      BY <1>0, <2>1, <2>3 DEF CancelSettlement, Demand
  <2>4. QED
      BY <1>6, <2>2, <2>3
<1>7. ASSUME NEW e \in Existing, Reopen(e)
      PROVE  demands'[d].builder = NoOne
  <2> DEFINE r == [demands[e] EXCEPT !.builder = NoOne, !.reviewEndsAt = 0,
                       !.reviewCommitted = 0, !.approvalRequired = 0, !.status = "Open"]
  <2>1. e \in DemandId /\ demands \in [DemandId -> Demand] /\ demands[e] \in Demand
      BY <1>0 DEF TypeOK
  <2>2. demands' = [demands EXCEPT ![e] = r]
      BY <1>7 DEF Reopen
  <2>3. r.builder = NoOne
      BY <2>1 DEF Demand
  <2> HIDE DEF r
  <2>4. QED
      BY <2>1, <2>2, <2>3 DEF UnbuiltWhileOpen
<1>8. ASSUME NEW e \in Existing, NEW a \in Account, Refund(a, e)
      PROVE  Kept
    BY <1>0, <1>8 DEF Refund, TypeOK, Demand
<1>9. Kept => demands'[d].builder = NoOne
    BY DEF UnbuiltWhileOpen
<1> HIDE DEF Kept
<1> QED
    BY <1>1, <1>2, <1>3, <1>4, <1>5, <1>6, <1>7, <1>8, <1>9 DEF Next, Transaction

(* So an open demand never has one.                                        *)
LEMMA AlwaysUnbuilt == Spec => []UnbuiltWhileOpen
<1>1. Init => UnbuiltWhileOpen
    BY DEF Init, EmptyDemand, UnbuiltWhileOpen
<1> QED BY <1>1, UnbuiltStep, Inductive, PTL DEF Spec

(* A push of no more than the contract gives up of what it owes passes.    *)
LEMMA PushPasses ==
    ASSUME NEW ledger \in [Holder -> Nat], NEW to \in Account, NEW amount \in Nat,
           NEW owed \in Nat, ledger[Escrow] >= amount, ledger[Escrow] - amount >= owed
    PROVE  Pushable(ledger, to, amount, owed)
BY EscrowApart, TransferMoves DEF Pushable

(* Whatever the contract calls refundable it can refund.                   *)
LEMMA RefundablePays ==
    ASSUME IInv, NEW d \in DemandId, NEW a \in Account, Refundable(d, a)
    PROVE  MayRefund(a, d)
<1>1. TypeOK
    BY DEF IInv
<1>2. a \in Claimants(d) /\ Claims(d)[a] = commitmentOf[d][a]
  <2>1. a \in Claimants(d)
      BY DEF Refundable, Claimants
  <2>2. QED
      BY <1>1, <2>1, ClaimsType
<1>3. /\ commitmentOf[d][a] \in Nat /\ commitmentOf[d][a] <= demands[d].committed
      /\ demands[d].committed \in Nat /\ demands[d].committed <= totalEscrowed
      /\ totalEscrowed \in Nat /\ balance[Escrow] = totalEscrowed
      /\ balance \in [Holder -> Nat]
    BY <1>1, <1>2, ClaimCovered DEF TypeOK
<1>4. Pushable(balance, a, commitmentOf[d][a], totalEscrowed - commitmentOf[d][a])
  <2> DEFINE owed == totalEscrowed - commitmentOf[d][a]
  <2>1. owed \in Nat /\ balance[Escrow] >= commitmentOf[d][a]
        /\ balance[Escrow] - commitmentOf[d][a] >= owed
      BY <1>3
  <2> HIDE DEF owed
  <2>2. Pushable(balance, a, commitmentOf[d][a], owed)
      BY <1>3, <2>1, PushPasses
  <2>3. QED
      BY <2>2 DEF owed
<1>5. QED
    BY <1>3, <1>4 DEF MayRefund

(* Whatever has its quorum can be settled until the grace is over.         *)
LEMMA QuorumSettles ==
    ASSUME IInv, NEW d \in DemandId, demands[d].status = "Submitted", QuorumReached(d),
           ~GraceEnded(d)
    PROVE  MayFinalize(d)
<1> DEFINE approved == approvalWeight[d]
           fee == Fee(approved)
           owed == totalEscrowed - approved
<1>1. TypeOK /\ DemandInv(d) /\ balance[Escrow] = totalEscrowed
    BY DEF IInv, EscrowBacked
<1>2. /\ approved \in Nat /\ demands[d].committed \in Nat /\ totalEscrowed \in Nat
      /\ balance \in [Holder -> Nat] /\ demands[d].builder \in Account
      /\ demands[d].approvalRequired \in Nat
    BY <1>1 DEF TypeOK, Demand, DemandInv, ReviewSound
<1>3. approved <= demands[d].committed /\ approved <= totalEscrowed
    BY InvQuorumBacked DEF QuorumBacked
<1>4. approved # 0
    BY <1>2 DEF QuorumReached
<1>5. fee \in Nat /\ fee <= approved
    BY <1>2, FeeBounds
<1> HIDE DEF fee, approved
<1>6. AfterFee(fee) \in [Holder -> Nat] /\ AfterFee(fee)[Escrow] = totalEscrowed - fee
  <2>1. CASE fee = 0
      BY <1>1, <1>2, <2>1 DEF AfterFee
  <2>2. CASE fee # 0
      BY <1>1, <1>2, <1>3, <1>5, <2>2, EscrowApart, TransferMoves DEF AfterFee
  <2>3. QED
      BY <2>1, <2>2
<1>7. /\ approved - fee \in Nat /\ owed \in Nat
      /\ totalEscrowed - fee >= approved - fee
      /\ (totalEscrowed - fee) - (approved - fee) >= owed
    BY <1>2, <1>3, <1>5
<1> HIDE DEF owed
<1>8. Pushable(AfterFee(fee), demands[d].builder, approved - fee, owed)
    BY <1>2, <1>6, <1>7, PushPasses
<1>9. balance[Escrow] >= fee /\ totalEscrowed >= approved
    BY <1>1, <1>2, <1>3, <1>5
<1>10. QED
    BY <1>3, <1>4, <1>8, <1>9 DEF MayFinalize, approved, fee, owed

(* What the page shows of a demand is what the contract has of it.         *)
LEMMA ViewIsTrue ==
    ASSUME NEW d, NEW v, v = DemandView(d)
    PROVE  /\ v.status = demands[d].status /\ v.deadline = demands[d].deadline
           /\ v.reviewEndsAt = demands[d].reviewEndsAt
           /\ v.hasProposal <=> demands[d].builder # NoOne
           /\ v.quorumReached <=> QuorumIsReached(d)
           /\ v.candidateRejected <=> CandidateIsRejected(d)
           /\ Ready(v) <=> demands[d].status = "Submitted" /\ QuorumReached(d)
           /\ SettlementExpired(v, now) <=> GraceEnded(d)
           /\ ReviewExpired(v, now) <=> demands[d].status = "Submitted"
                                        /\ demands[d].reviewEndsAt <= now
           /\ (demands[d].status \in Status) =>
                  (EffectiveStatus(v, now) = "Open" <=> demands[d].status = "Open" /\ ~Expired(d))
<1>1. /\ v.status = demands[d].status /\ v.deadline = demands[d].deadline
      /\ v.reviewEndsAt = demands[d].reviewEndsAt
      /\ v.hasProposal = (demands[d].builder # NoOne)
      /\ v.quorumReached = QuorumIsReached(d)
      /\ v.candidateRejected = CandidateIsRejected(d)
    BY DEF DemandView
<1>2. Ready(v) <=> demands[d].status = "Submitted" /\ QuorumReached(d)
    BY <1>1 DEF Ready, QuorumIsReached
<1>3. ASSUME demands[d].status \in Status
      PROVE  EffectiveStatus(v, now) = "Open" <=> demands[d].status = "Open" /\ ~Expired(d)
  <2>1. CASE demands[d].status = "Open"
      BY <1>1, <1>2, <2>1
         DEF EffectiveStatus, Over, Lapsed, Expired, CandidateIsRejected
  <2>2. CASE demands[d].status # "Open"
      BY <1>1, <2>2 DEF EffectiveStatus
  <2>3. QED
      BY <2>1, <2>2
<1>4. QED
    BY <1>1, <1>2, <1>3 DEF SettlementExpired, GraceEnded, ReviewExpired

(* A page that is up to date offers what the contract accepts.             *)
LEMMA OfferedIsAccepted ==
    ASSUME IInv, UnbuiltWhileOpen, NEW d \in Existing, NEW a \in Account
    PROVE  Offers(DemandView(d), SupportView(d, a), now) = Accepted(d, a)
<1> DEFINE v == DemandView(d)
           s == SupportView(d, a)
<1>1. TypeOK /\ d \in DemandId /\ demands[d] \in Demand /\ DemandInv(d)
  <2>1. TypeOK /\ d \in DemandId
      BY ExistingHasId DEF IInv
  <2>2. QED
      BY <2>1 DEF IInv, TypeOK
<1>2. /\ now \in Nat /\ demands[d].deadline \in Nat /\ demands[d].reviewEndsAt \in Nat
      /\ demands[d].status \in Status /\ commitmentOf[d][a] \in Nat
      /\ approvalWeight[d] \in Nat /\ demands[d].approvalRequired \in Nat
    BY <1>1 DEF TypeOK, Demand
<1>3. /\ s.commitment = commitmentOf[d][a] /\ s.refundable = Refundable(d, a)
      /\ s.approved = (a \in Approvers(d)) /\ s.rejected = (a \in Rejecters(d))
    BY DEF SupportView, GetSupport
<1>4. EffectiveStatus(v, now) = "Open" <=> demands[d].status = "Open" /\ ~Expired(d)
    BY <1>2, ViewIsTrue
<1>5. ~v.hasProposal /\ EffectiveStatus(v, now) = "Open"
          <=> demands[d].status = "Open" /\ ~Expired(d)
    BY <1>1, <1>4, ViewIsTrue DEF UnbuiltWhileOpen
<1>6. s.refundable <=> MayRefund(a, d)
    BY <1>1, <1>3, RefundablePays DEF MayRefund
<1>7. (v.status = "Submitted" /\ ~ReviewExpired(v, now)
           /\ s.commitment > 0 /\ ~s.approved /\ ~s.rejected)
          <=> MayVote(a, d, submissionNonce[d])
  <2>1. s.commitment > 0 <=> commitmentOf[d][a] # 0
      BY <1>2, <1>3
  <2>2. v.status = "Submitted" /\ ~ReviewExpired(v, now)
            <=> demands[d].status = "Submitted" /\ ~ReviewEnded(d)
      BY <1>2, ViewIsTrue DEF ReviewEnded
  <2>3. ~s.approved /\ ~s.rejected <=> a \notin Approvers(d) /\ a \notin Rejecters(d)
      BY <1>3
  <2>4. MayVote(a, d, submissionNonce[d])
            <=> /\ demands[d].status = "Submitted" /\ ~ReviewEnded(d)
                /\ commitmentOf[d][a] # 0
                /\ a \notin Approvers(d) /\ a \notin Rejecters(d)
      BY DEF MayVote
  <2> HIDE DEF v, s
  <2>5. QED
      BY <2>1, <2>2, <2>3, <2>4
<1>8. Ready(v) /\ ~SettlementExpired(v, now) <=> MayFinalize(d)
    BY <1>1, ViewIsTrue, QuorumSettles DEF MayFinalize
<1>9. Ready(v) /\ SettlementExpired(v, now) <=> MayCancel(d)
    BY ViewIsTrue DEF MayCancel
<1>10. CanReopen(v, now) <=> MayReopen(d)
  <2>1. demands[d].status = "Submitted" => (BelowQuorum(d) <=> ~QuorumReached(d))
    <3>1. ASSUME demands[d].status = "Submitted" PROVE demands[d].approvalRequired # 0
        BY <1>1, <3>1, QuorumBounds DEF DemandInv, ReviewSound, TermsFixed, Demand
    <3>2. QED
        BY <1>2, <3>1 DEF BelowQuorum, QuorumReached
  <2>2. v.deadline > now <=> ~Expired(d)
      BY <1>2, ViewIsTrue DEF Expired
  <2>3. ReviewExpired(v, now) \/ v.candidateRejected
            <=> demands[d].status = "Submitted" /\ (ReviewEnded(d) \/ CandidateRejected(d))
      BY <1>2, ViewIsTrue DEF ReviewEnded, CandidateIsRejected
  <2>4. demands[d].status = "Submitted" => (v.quorumReached <=> QuorumReached(d))
      BY ViewIsTrue DEF QuorumIsReached
  <2>5. QED
      BY <2>1, <2>2, <2>3, <2>4 DEF CanReopen, MayReopen, CandidateFailed
<1> HIDE DEF v, s
<1>11. \A act : act \in Offers(v, s, now) <=> act \in Accepted(d, a)
    BY <1>4, <1>5, <1>6, <1>7, <1>8, <1>9, <1>10
       DEF Offers, FundOffers, ProposalOffers, ReviewOffers, SettlementOffers, Accepted
<1>12. QED
    BY <1>11 DEF v, s

(* For any constants: no button of the page of a demand leads to a         *)
(* transaction that the contract refuses, and nothing that the contract    *)
(* allows a wallet is missing from the page (the sections of App.tsx       *)
(* against the requirements of AgentDemand.sol).                           *)
THEOREM OffersAlwaysAccepted == Spec => []OffersAreAccepted
<1>1. IInv /\ UnbuiltWhileOpen => OffersAreAccepted
    BY OfferedIsAccepted DEF OffersAreAccepted
<1> QED BY <1>1, Inductive, AlwaysUnbuilt, PTL
===============================================================================
