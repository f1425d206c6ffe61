--------------------------- MODULE SubmissionTheorems --------------------------
(***************************************************************************)
(* Proofs about a service's way under review, for every number of attempts *)
(* and of blocks, every endpoint and every policy: what the contract       *)
(* accepts was agreed to, the service counts its requests, and the loop    *)
(* over a challenge says what the whole challenge says.                    *)
(***************************************************************************)
EXTENDS Submission, ChallengeLoop, FiniteSetTheorems, SequenceTheorems, TLAPS

-------------------------------------------------------------------------------
(* The loop over a challenge.                                              *)

(* What the flags and the index say of the offers looked at so far.        *)
LoopInv ==
    /\ offers \in Seq(SampleOffer) /\ turn \in 0 .. Len(offers)
    /\ seen \in [index : 0 .. turn, comparable : BOOLEAN, incomparable : BOOLEAN]
    /\ seen.comparable <=> \E i \in 1 .. turn : Comparable(offers[i])
    /\ seen.incomparable <=> \E i \in 1 .. turn : Incomparable(offers[i])
    /\ seen.index # 0 => Eligible(offers[seen.index], payTo, 1)
    /\ \A i \in 1 .. turn : i # seen.index => ~Eligible(offers[i], payTo, 1)
    /\ seen.index # 0 => seen.index = turn

(* Before the loop nothing is found or marked.                             *)
LEMMA LoopBegins == LoopInit => LoopInv
<1> SUFFICES ASSUME LoopInit PROVE LoopInv
    OBVIOUS
<1>1. PICK n \in 1 .. SampleLength : offers \in [1 .. n -> SampleOffer]
    BY DEF LoopInit
<1>2. offers \in Seq(SampleOffer)
    BY <1>1, LoopAssumption
<1>3. Len(offers) \in Nat
    BY <1>2
<1> QED BY <1>2, <1>3 DEF LoopInit, LoopInv

(* One turn keeps what the flags and the index say of the offers before    *)
(* it.                                                                     *)
LEMMA LoopGoesOn == LoopInv /\ [Look]_loopVars => LoopInv'
<1> SUFFICES ASSUME LoopInv, Look PROVE LoopInv'
    BY DEF LoopInv, loopVars
<1>1. /\ turn \in Nat /\ turn < Len(offers) /\ seen.index = 0
      /\ turn' = turn + 1 /\ offers' = offers /\ payTo' = payTo
      /\ turn' \in 0 .. Len(offers)
    BY DEF Look, MayLook, LoopInv
<1>2. PICK o : o = offers[turn']
    OBVIOUS
<1>3. seen' = IF ~o.exact THEN seen
              ELSE IF ~Priced(o) THEN [seen EXCEPT !.incomparable = TRUE]
              ELSE IF ~Configured(o) THEN seen
              ELSE IF ~SameUnit(o) THEN [seen EXCEPT !.incomparable = TRUE]
              ELSE [seen EXCEPT !.comparable = TRUE,
                                !.index = IF Eligible(o, payTo, 1) THEN turn + 1 ELSE @]
    BY <1>1, <1>2 DEF Look
<1>4. seen \in [index : Nat, comparable : BOOLEAN, incomparable : BOOLEAN]
    BY <1>1 DEF LoopInv
<1>5. /\ seen' \in [index : 0 .. turn', comparable : BOOLEAN, incomparable : BOOLEAN]
      /\ seen'.comparable <=> seen.comparable \/ Comparable(o)
      /\ seen'.incomparable <=> seen.incomparable \/ Incomparable(o)
      /\ seen'.index = IF Eligible(o, payTo, 1) THEN turn' ELSE 0
    <2>1. CASE ~o.exact \/ (Priced(o) /\ ~Configured(o))
        <3>1. seen' = seen /\ ~Comparable(o) /\ ~Incomparable(o) /\ ~Eligible(o, payTo, 1)
            BY <1>3, <2>1 DEF Comparable, Incomparable, Eligible
        <3> QED BY <1>1, <1>4, <3>1
    <2>2. CASE o.exact /\ (~Priced(o) \/ (Configured(o) /\ ~SameUnit(o)))
        <3>1. /\ seen' = [seen EXCEPT !.incomparable = TRUE]
              /\ ~Comparable(o) /\ Incomparable(o) /\ ~Eligible(o, payTo, 1)
            BY <1>3, <2>2 DEF Comparable, Incomparable, Eligible
        <3>2. /\ seen' \in [index : Nat, comparable : BOOLEAN, incomparable : BOOLEAN]
              /\ seen'.comparable = seen.comparable /\ seen'.incomparable = TRUE
              /\ seen'.index = 0
            BY <1>1, <1>4, <3>1
        <3>3. seen' \in [index : 0 .. turn', comparable : BOOLEAN, incomparable : BOOLEAN]
            BY <1>1, <3>2
        <3> QED BY <3>1, <3>2, <3>3
    <2>3. CASE o.exact /\ Priced(o) /\ Configured(o) /\ SameUnit(o)
        <3>1. /\ seen' = [seen EXCEPT !.comparable = TRUE,
                                      !.index = IF Eligible(o, payTo, 1) THEN turn + 1 ELSE @]
              /\ Comparable(o) /\ ~Incomparable(o)
            BY <1>3, <2>3 DEF Comparable, Incomparable
        <3> DEFINE i == IF Eligible(o, payTo, 1) THEN turn' ELSE 0
        <3>2. i \in 0 .. turn' /\ seen' = [seen EXCEPT !.comparable = TRUE, !.index = i]
            BY <1>1, <3>1
        <3> HIDE DEF i
        <3>3. /\ seen' \in [index : Nat, comparable : BOOLEAN, incomparable : BOOLEAN]
              /\ seen'.comparable = TRUE /\ seen'.incomparable = seen.incomparable
              /\ seen'.index = i
            <4>1. i \in Nat
                BY <1>1, <3>2
            <4> QED BY <1>4, <3>2, <4>1
        <3>4. seen' \in [index : 0 .. turn', comparable : BOOLEAN, incomparable : BOOLEAN]
            BY <3>2, <3>3
        <3> QED BY <3>1, <3>3, <3>4 DEF i
    <2> QED BY <2>1, <2>2, <2>3
<1>6. \A i \in 1 .. turn' : (i \in 1 .. turn /\ i # turn') \/ (i = turn' /\ offers[i] = o)
    BY <1>1, <1>2
<1>7. 1 .. turn \subseteq 1 .. turn' /\ turn' \in 1 .. turn'
    BY <1>1
<1>8. /\ seen'.comparable <=> \E i \in 1 .. turn' : Comparable(offers[i])
      /\ seen'.incomparable <=> \E i \in 1 .. turn' : Incomparable(offers[i])
    BY <1>2, <1>5, <1>6, <1>7 DEF LoopInv
<1>9. /\ seen'.index # 0 => Eligible(offers[seen'.index], payTo, 1) /\ seen'.index = turn'
      /\ \A i \in 1 .. turn' : i # seen'.index => ~Eligible(offers[i], payTo, 1)
    BY <1>1, <1>2, <1>5, <1>6 DEF LoopInv
<1>10. offers' \in Seq(SampleOffer) /\ turn' \in 0 .. Len(offers')
    BY <1>1 DEF LoopInv
<1>11. \A i : /\ Comparable(offers'[i]) <=> Comparable(offers[i])
              /\ Incomparable(offers'[i]) <=> Incomparable(offers[i])
              /\ Eligible(offers'[i], payTo', 1) <=> Eligible(offers[i], payTo, 1)
    BY <1>1
<1> QED BY <1>1, <1>5, <1>8, <1>9, <1>10, <1>11 DEF LoopInv

(* The least member of a set of numbers.                                   *)
LEMMA LeastOf ==
    ASSUME NEW S \in SUBSET Nat, NEW n \in S, \A i \in S : n <= i
    PROVE  Min(S) = n
<1>1. PICK m : m = Min(S)
    OBVIOUS
<1>2. m \in S /\ \A i \in S : m <= i
    BY <1>1 DEF Min
<1>3. m <= n /\ n <= m /\ m \in Nat /\ n \in Nat
    BY <1>2
<1> QED BY <1>1, <1>3

(* What the whole of a challenge says, by the offers that are eligible.    *)
LEMMA EvaluateChallenge ==
    ASSUME NEW os, os # <<>>, NEW receiver, NEW most, NEW S,
           S = {i \in DOMAIN os : Eligible(os[i], receiver, most)}
    PROVE  LET e == Evaluate([status |-> "402", sameResource |-> TRUE, offers |-> os],
                             receiver, most)
           IN  /\ S # {} => e = [code |-> "ELIGIBLE", index |-> Min(S)]
               /\ S = {} =>
                      e = [code |-> IF /\ \E i \in DOMAIN os : Incomparable(os[i])
                                       /\ \A i \in DOMAIN os : ~Comparable(os[i])
                                    THEN "UNSUPPORTED_PRICE_COMPARISON" ELSE "NO_ELIGIBLE_OFFER",
                           index |-> 0]
BY DEF Evaluate

(* When the loop is over it has found what the whole challenge says.       *)
LEMMA LoopInvFinds == LoopInv => LoopFindsIt
<1> SUFFICES ASSUME LoopInv, offers # <<>>, ~MayLook
             PROVE  Found = Evaluate([status |-> "402", sameResource |-> TRUE,
                                      offers |-> offers], payTo, 1)
    BY DEF LoopFindsIt
<1>1. PICK S : S = {i \in DOMAIN offers : Eligible(offers[i], payTo, 1)}
    OBVIOUS
<1>2. DOMAIN offers = 1 .. Len(offers) /\ Len(offers) \in Nat
    BY DEF LoopInv
<1>3. seen.index \in 0 .. turn /\ turn \in 0 .. Len(offers)
    BY DEF LoopInv
<1>4. S \in SUBSET Nat
    BY <1>1, <1>2
<1>5. turn = Len(offers) \/ seen.index # 0
    <2>1. PICK n : n = Len(offers)
        OBVIOUS
    <2>2. turn < n => seen.index # 0
        BY <2>1 DEF MayLook
    <2>3. n \in Nat /\ turn \in 0 .. n
        BY <1>2, <1>3, <2>1
    <2>4. turn = n \/ turn < n
        BY <2>3
    <2> QED BY <2>1, <2>2, <2>4
<1>6. CASE seen.index # 0
    <2>1. seen.index \in DOMAIN offers /\ seen.index = turn
        BY <1>2, <1>3, <1>6 DEF LoopInv
    <2>2. seen.index \in S
        BY <1>1, <1>6, <2>1 DEF LoopInv
    <2>3. \A i \in S : i \in DOMAIN offers /\ ~(i \in 1 .. turn /\ i # seen.index)
        BY <1>1 DEF LoopInv
    <2>4. \A i \in S : seen.index <= i
        BY <1>2, <1>3, <1>4, <2>1, <2>3
    <2>5. Min(S) = seen.index
        BY <1>4, <2>2, <2>4, LeastOf
    <2>6. S # {} /\ Found = [code |-> "ELIGIBLE", index |-> Min(S)]
        BY <1>6, <2>2, <2>5 DEF Found
    <2>7. Evaluate([status |-> "402", sameResource |-> TRUE, offers |-> offers], payTo, 1) =
              [code |-> "ELIGIBLE", index |-> Min(S)]
        BY <1>1, <2>2, EvaluateChallenge
    <2> QED BY <2>6, <2>7
<1>7. CASE seen.index = 0
    <2>1. turn = Len(offers) /\ 1 .. turn = DOMAIN offers
        BY <1>2, <1>5, <1>7
    <2>2. \A i \in DOMAIN offers : i # 0
        BY <1>2
    <2>3. S = {}
        BY <1>1, <1>7, <2>1, <2>2 DEF LoopInv
    <2>4. /\ seen.comparable <=> \E i \in DOMAIN offers : Comparable(offers[i])
          /\ seen.incomparable <=> \E i \in DOMAIN offers : Incomparable(offers[i])
        BY <2>1 DEF LoopInv
    <2>5. Found = [code |-> IF /\ \E i \in DOMAIN offers : Incomparable(offers[i])
                               /\ \A i \in DOMAIN offers : ~Comparable(offers[i])
                            THEN "UNSUPPORTED_PRICE_COMPARISON" ELSE "NO_ELIGIBLE_OFFER",
                   index |-> 0]
        BY <1>7, <2>4 DEF Found
    <2> QED BY <1>1, <2>3, <2>5, EvaluateChallenge
<1> QED BY <1>6, <1>7

(* The loop's early exit and its flags say of every challenge, however     *)
(* long, what the whole of its offers says: the first eligible offer is    *)
(* chosen, and a refusal names the reason (evaluateChallenge).             *)
THEOREM LoopFindsTheChoice == LoopSpec => []LoopFindsIt
<1> QED BY LoopBegins, LoopGoesOn, LoopInvFinds, PTL DEF LoopSpec

-------------------------------------------------------------------------------
(* The attempts.                                                           *)

(* The requests in flight, which active counts.                            *)
Busy == {a \in Attempt : job[a].stage \in Working}

Passed == {"passed", "handed", "reverted", "unknown", "submitted"}

Observed(a) ==
    /\ Affordable(job[a].observed, PayTo[a])
    /\ tab[a].issuedAt <= job[a].observedAt
    /\ job[a].observedAt <= now

(* An attempt's request is there only when it was made, has seen a good    *)
(* offer once it is judged, and is over, with an attestation that suits    *)
(* the authorization, before the tab goes on.                              *)
AttemptSound(a) ==
    /\ tab[a].issuedAt <= now
    /\ tab[a].stage \in {"idle", "authorizing"} => job[a].stage = "none"
    /\ tab[a].stage \in Passed =>
          /\ job[a].stage = "pass"
          /\ job[a].attestation.nonce = tab[a].nonce
          /\ job[a].attestation.expiresAt <= AuthExpiry(a)
    /\ job[a].stage \in {"judging", "signing", "pass"} => Observed(a)

(* A block of an attempt is the outcome of its authorization.              *)
BlockSound(b) ==
    /\ b.at <= now
    /\ b.by \in Attempt =>
          /\ tab[b.by].stage \in {"handed", "submitted", "unknown"}
          /\ b.nonce = tab[b.by].nonce
          /\ job[b.by].observedAt <= b.at
          /\ b.status = "Submitted" => b.at < AuthExpiry(b.by)

(* From block to block: an open demand is taken by a new submission, and   *)
(* nonces never fall.                                                      *)
NoncesGrow ==
    /\ \A i, j \in DOMAIN blocks : i <= j => blocks[i].nonce <= blocks[j].nonce
    /\ \A i, j \in DOMAIN blocks :
          j = i + 1 /\ blocks[i].status = "Open" =>
              blocks[j].by \in Attempt /\ blocks[i].nonce < blocks[j].nonce

SubmissionInv ==
    /\ TypeOK
    /\ IsFiniteSet(Busy) /\ active = Cardinality(Busy)
    /\ \A a \in Attempt : AttemptSound(a)
    /\ \A i \in DOMAIN blocks : BlockSound(blocks[i])
    /\ NoncesGrow

(* One open block, and no attempt has begun.                               *)
LEMMA SubmissionInvInit == Init => SubmissionInv
<1> SUFFICES ASSUME Init PROVE SubmissionInv
    OBVIOUS
<1>1. 0 \in 0 .. MaxNonce /\ 0 \in Time /\ 0 \in 0 .. MaxReorgs /\ 0 \in Nat /\ 1 \in Nat
    BY SubmissionAssumption DEF Time
<1> DEFINE b == [status |-> "Open", nonce |-> 0, by |-> NoAttempt, at |-> 0, fork |-> 0]
           att == [nonce |-> 0, issuedAt |-> 0, expiresAt |-> 0, key |-> FirstKey]
           snap == [height |-> 1, fork |-> 0]
<1>2. b \in Block
    BY <1>1 DEF Block
<1>3. att \in Attested /\ snap \in [height: Nat, fork: 0 .. MaxReorgs]
    BY <1>1, SubmissionAssumption DEF Attested
<1>4. b.by \notin Attempt /\ b.at = 0
    BY SubmissionAssumption
<1> HIDE DEF b, att, snap
<1>5. /\ blocks = <<b>> /\ now = 0
      /\ tab = [a \in Attempt |-> [stage |-> "idle", nonce |-> 0, issuedAt |-> 0]]
      /\ job = [a \in Attempt |-> [stage |-> "none", snapshot |-> snap, observed |-> NoReply,
                                   observedAt |-> 0, attestation |-> att]]
    BY DEF Init, b, att, snap
<1>6. blocks \in Seq(Block) /\ blocks # <<>> /\ DOMAIN blocks = {1} /\ blocks[1] = b
    BY <1>2, <1>5
<1>7. tab \in [Attempt -> Tab]
    BY <1>1, <1>5 DEF Tab, TabStage
<1>8. job \in [Attempt -> Job]
    BY <1>1, <1>3, <1>5 DEF Job, JobStage
<1>9. TypeOK
    BY <1>1, <1>6, <1>7, <1>8, SubmissionAssumption DEF TypeOK, Init
<1>10. \A a \in Attempt : AttemptSound(a)
    BY <1>5 DEF AttemptSound, Passed
<1>11. \A i \in DOMAIN blocks : BlockSound(blocks[i])
    BY <1>4, <1>5, <1>6 DEF BlockSound
<1>12. NoncesGrow
    <2>1. b.nonce \in Nat
        BY DEF b
    <2>2. \A i, j \in DOMAIN blocks : i = 1 /\ j = 1 /\ j # i + 1
        BY <1>6
    <2> QED BY <1>6, <2>1, <2>2 DEF NoncesGrow
<1>13. Busy = {}
    BY <1>5 DEF Busy, Working
<1>14. IsFiniteSet(Busy) /\ active = Cardinality(Busy)
    BY <1>13, FS_EmptySet DEF Init
<1> QED BY <1>9, <1>10, <1>11, <1>12, <1>14 DEF SubmissionInv

(* Every block is one, the last of them the demand as it is.               *)
LEMMA BlocksTyped ==
    ASSUME TypeOK
    PROVE  /\ \A i \in DOMAIN blocks : blocks[i] \in Block
           /\ Len(blocks) \in Nat \ {0} /\ DOMAIN blocks = 1 .. Len(blocks)
           /\ Len(blocks) \in DOMAIN blocks /\ demand \in Block
<1>1. PICK n : n = Len(blocks)
    OBVIOUS
<1>2. blocks \in [1 .. n -> Block] /\ n \in Nat /\ n # 0
    BY <1>1 DEF TypeOK
<1>3. n \in 1 .. n
    BY <1>2
<1> QED BY <1>1, <1>2, <1>3 DEF demand

(* What the chain holds was agreed to.                                     *)
LEMMA InvIsAgreed == SubmissionInv => AcceptedAsAgreed
<1> SUFFICES ASSUME SubmissionInv PROVE AcceptedAsAgreed
    OBVIOUS
<1>1. ASSUME NEW i \in DOMAIN blocks, blocks[i].by \in Attempt
      PROVE  LET a == blocks[i].by
             IN  /\ Observed(a) /\ job[a].observedAt <= blocks[i].at
                 /\ blocks[i].nonce = tab[a].nonce /\ job[a].attestation.nonce = tab[a].nonce
                 /\ blocks[i].status = "Submitted" => blocks[i].at < AuthExpiry(a)
    <2>1. PICK a \in Attempt : a = blocks[i].by
        BY <1>1
    <2>2. BlockSound(blocks[i]) /\ AttemptSound(a)
        BY DEF SubmissionInv
    <2> QED BY <2>1, <2>2 DEF BlockSound, AttemptSound, Passed
<1>2. AcceptedWasObserved
    BY <1>1 DEF AcceptedWasObserved, Observed
<1>3. AcceptedInTime
    BY <1>1 DEF AcceptedInTime
<1>4. UsedOnce
    <2> SUFFICES ASSUME NEW i \in Acceptances, NEW j \in Acceptances, i < j
                 PROVE  job[blocks[i].by].attestation.nonce < job[blocks[j].by].attestation.nonce
        BY DEF UsedOnce
    <2>1. PICK n : n = Len(blocks)
        OBVIOUS
    <2>2. n \in Nat /\ DOMAIN blocks = 1 .. n /\ i \in 2 .. n /\ j \in 2 .. n
        BY <2>1 DEF SubmissionInv, TypeOK, Acceptances
    <2>3. /\ i \in DOMAIN blocks /\ j \in DOMAIN blocks
          /\ i - 1 \in DOMAIN blocks /\ j - 1 \in DOMAIN blocks
          /\ i = (i - 1) + 1 /\ j = (j - 1) + 1 /\ i <= j - 1
        BY <2>2
    <2>4. blocks[i - 1].status = "Open" /\ blocks[j - 1].status = "Open"
        BY DEF Acceptances
    <2>5. /\ blocks[i].by \in Attempt /\ blocks[j].by \in Attempt
          /\ blocks[i].nonce <= blocks[j - 1].nonce /\ blocks[j - 1].nonce < blocks[j].nonce
        BY <2>3, <2>4 DEF SubmissionInv, NoncesGrow
    <2>6. blocks[i].nonce \in Nat /\ blocks[j].nonce \in Nat /\ blocks[j - 1].nonce \in Nat
        BY <2>3, BlocksTyped DEF SubmissionInv, Block
    <2>7. blocks[i].nonce < blocks[j].nonce
        BY <2>5, <2>6
    <2> QED BY <1>1, <2>3, <2>5, <2>7
<1> QED BY <1>2, <1>3, <1>4 DEF AcceptedAsAgreed

-------------------------------------------------------------------------------
(* One attempt moves on; the others and the chain stay.                    *)

LEMMA OthersStay ==
    ASSUME SubmissionInv, NEW a \in Attempt, now' = now, blocks' = blocks,
           \A x \in Attempt \ {a} : tab'[x] = tab[x] /\ job'[x] = job[x],
           AttemptSound(a)',
           Included(a) => /\ tab'[a].stage \in {"handed", "submitted", "unknown"}
                          /\ tab'[a].nonce = tab[a].nonce /\ tab'[a].issuedAt = tab[a].issuedAt
                          /\ job'[a].observedAt = job[a].observedAt
    PROVE  /\ \A x \in Attempt : AttemptSound(x)'
           /\ \A i \in DOMAIN blocks' : BlockSound(blocks[i])'
           /\ NoncesGrow'
<1>1. ASSUME NEW x \in Attempt PROVE AttemptSound(x)'
    <2>1. CASE x = a
        BY <2>1
    <2>2. CASE x # a
        <3>1. tab'[x] = tab[x] /\ job'[x] = job[x] /\ AttemptSound(x)
            BY <2>2 DEF SubmissionInv
        <3> QED BY <3>1 DEF AttemptSound, Observed, AuthExpiry
    <2> QED BY <2>1, <2>2
<1>2. ASSUME NEW i \in DOMAIN blocks PROVE BlockSound(blocks[i])'
    <2>1. BlockSound(blocks[i]) /\ blocks'[i] = blocks[i]
        BY DEF SubmissionInv
    <2>2. CASE blocks[i].by \in Attempt \ {a}
        BY <2>1, <2>2 DEF BlockSound, AuthExpiry
    <2>3. CASE blocks[i].by = a
        <3>1. Included(a)
            BY <2>3 DEF Included
        <3> QED BY <2>1, <2>3, <3>1 DEF BlockSound, AuthExpiry
    <2>4. CASE blocks[i].by \notin Attempt
        BY <2>1, <2>4 DEF BlockSound
    <2> QED BY <2>2, <2>3, <2>4
<1>3. NoncesGrow'
    BY DEF SubmissionInv, NoncesGrow
<1> QED BY <1>1, <1>2, <1>3

(* An attempt in a block has passed.                                       *)
LEMMA IncludedPassed ==
    ASSUME SubmissionInv, NEW a \in Attempt
    PROVE  /\ Included(a) => tab[a].stage \in {"handed", "submitted", "unknown"}
           /\ tab[a].stage \in Passed => job[a].stage = "pass"
           /\ AttemptSound(a) /\ tab[a] \in Tab /\ job[a] \in Job
BY DEF Included, SubmissionInv, BlockSound, AttemptSound, TypeOK

(* No request begins or ends.                                              *)
LEMMA BusyStays ==
    ASSUME SubmissionInv, active' = active,
           \A a \in Attempt : job'[a].stage \in Working <=> job[a].stage \in Working
    PROVE  IsFiniteSet(Busy)' /\ active' = Cardinality(Busy')
<1>1. Busy' = Busy
    BY DEF Busy
<1> QED BY <1>1 DEF SubmissionInv

(* The tab's stage changes, and nothing else.                              *)
LEMMA TabGoes ==
    ASSUME SubmissionInv, NEW a \in Attempt, NEW stage \in TabStage, Goto(a, stage)
    PROVE  /\ tab' \in [Attempt -> Tab] /\ tab'[a].stage = stage
           /\ tab'[a].nonce = tab[a].nonce /\ tab'[a].issuedAt = tab[a].issuedAt
           /\ \A x \in Attempt \ {a} : tab'[x] = tab[x]
<1>1. tab \in [Attempt -> Tab] /\ tab[a] \in Tab
    BY DEF SubmissionInv, TypeOK
<1>2. PICK u : u = [tab[a] EXCEPT !.stage = stage]
    OBVIOUS
<1>3. /\ u \in Tab /\ u.stage = stage
      /\ u.nonce = tab[a].nonce /\ u.issuedAt = tab[a].issuedAt
    BY <1>1, <1>2 DEF Tab
<1>4. tab' = [tab EXCEPT ![a] = u]
    BY <1>2 DEF Goto
<1> QED BY <1>1, <1>3, <1>4

(* The tab goes on with a pass that suits its authorization, or leaves.    *)
LEMMA TabStep ==
    ASSUME SubmissionInv, NEW a \in Attempt, NEW stage \in TabStage \ {"idle", "authorizing"},
           Goto(a, stage), UNCHANGED <<now, escrow, service>>,
           stage \in Passed /\ tab[a].stage \notin Passed =>
               /\ job[a].stage = "pass"
               /\ job[a].attestation.nonce = tab[a].nonce
               /\ job[a].attestation.expiresAt <= AuthExpiry(a),
           Included(a) => stage \in {"handed", "submitted", "unknown"}
    PROVE  SubmissionInv'
<1>1. /\ tab' \in [Attempt -> Tab] /\ tab'[a].stage = stage
      /\ tab'[a].nonce = tab[a].nonce /\ tab'[a].issuedAt = tab[a].issuedAt
      /\ \A x \in Attempt \ {a} : tab'[x] = tab[x]
    BY TabGoes
<1>2. UNCHANGED <<now, blocks, forks, verifier, signer, job, active>>
    BY DEF escrow, service
<1>3. TypeOK'
    BY <1>1, <1>2 DEF SubmissionInv, TypeOK
<1>4. AttemptSound(a)'
    <2>1. AttemptSound(a)
        BY DEF SubmissionInv
    <2> QED BY <1>1, <1>2, <2>1 DEF AttemptSound, Observed, AuthExpiry
<1>5. /\ \A x \in Attempt : AttemptSound(x)'
      /\ \A i \in DOMAIN blocks' : BlockSound(blocks[i])'
      /\ NoncesGrow'
    BY <1>1, <1>2, <1>4, OthersStay
<1>6. IsFiniteSet(Busy)' /\ active' = Cardinality(Busy')
    BY <1>2, BusyStays
<1> QED BY <1>3, <1>5, <1>6 DEF SubmissionInv

(* What the tab does after it has asked.                                   *)
LEMMA TabActions ==
    ASSUME SubmissionInv, NEW a \in Attempt,
           GiveUp(a) \/ Receive(a) \/ BeforeBroadcast(a) \/ ReadBack(a) \/ Reverted(a)
    PROVE  SubmissionInv'
<1>1. Included(a) => tab[a].stage \in {"handed", "submitted", "unknown"}
    BY IncludedPassed
<1>2. CASE GiveUp(a)
    <2>1. Goto(a, "refused") /\ ~Included(a) /\ UNCHANGED <<now, escrow, service>>
        BY <1>2 DEF GiveUp
    <2> QED BY <2>1, TabStep DEF TabStage, Passed
<1>3. CASE Receive(a)
    <2>1. PICK stage : stage = IF job[a].stage = "pass" /\ PassValid(a) /\ NonceCurrent(a)
                               THEN "passed" ELSE "refused"
        OBVIOUS
    <2>2. /\ Goto(a, stage) /\ tab[a].stage = "asking" /\ UNCHANGED <<now, escrow, service>>
        BY <1>3, <2>1 DEF Receive
    <2>3. stage \in TabStage \ {"idle", "authorizing"} /\ ~Included(a)
        BY <1>1, <2>1, <2>2 DEF TabStage
    <2>4. stage \in Passed => /\ job[a].stage = "pass"
                              /\ job[a].attestation.nonce = tab[a].nonce
                              /\ job[a].attestation.expiresAt <= AuthExpiry(a)
        BY <2>1 DEF PassValid, Passed
    <2> QED BY <2>2, <2>3, <2>4, TabStep
<1>4. CASE BeforeBroadcast(a)
    <2>1. PICK stage \in {"handed", "refused"} :
              Goto(a, stage) /\ tab[a].stage = "passed" /\ UNCHANGED <<now, escrow, service>>
        BY <1>4 DEF BeforeBroadcast
    <2>2. tab[a].stage \in Passed /\ ~Included(a)
        BY <1>1, <2>1 DEF Passed
    <2>3. stage \in TabStage \ {"idle", "authorizing"}
        BY DEF TabStage
    <2> QED BY <2>1, <2>2, <2>3, TabStep
<1>5. CASE ReadBack(a)
    <2>1. PICK stage \in {"submitted", "unknown"} :
              Goto(a, stage) /\ tab[a].stage = "handed" /\ UNCHANGED <<now, escrow, service>>
        BY <1>5 DEF ReadBack
    <2>2. tab[a].stage \in Passed /\ stage \in TabStage \ {"idle", "authorizing"}
        BY <2>1 DEF Passed, TabStage
    <2> QED BY <2>1, <2>2, TabStep
<1>6. CASE Reverted(a)
    <2>1. /\ Goto(a, "reverted") /\ tab[a].stage = "handed" /\ ~Included(a)
          /\ UNCHANGED <<now, escrow, service>>
        BY <1>6 DEF Reverted
    <2>2. tab[a].stage \in Passed /\ "reverted" \in TabStage \ {"idle", "authorizing"}
        BY <2>1 DEF Passed, TabStage
    <2> QED BY <2>1, <2>2, TabStep
<1> QED BY <1>2, <1>3, <1>4, <1>5, <1>6

(* A new authorization; no request was made for the attempt before.        *)
LEMMA AuthorizeKeeps ==
    ASSUME SubmissionInv, NEW a \in Attempt, Authorize(a)
    PROVE  SubmissionInv'
<1>1. PICK u : u = [stage |-> "authorizing", nonce |-> demand.nonce + 1, issuedAt |-> now]
    OBVIOUS
<1>2. /\ tab[a].stage = "idle" /\ demand.nonce < MaxNonce /\ tab' = [tab EXCEPT ![a] = u]
      /\ UNCHANGED <<now, blocks, forks, verifier, signer, job, active>>
    BY <1>1 DEF Authorize, escrow, service
<1>3. demand.nonce + 1 \in 0 .. MaxNonce /\ now \in Time /\ now <= now
    <2>1. demand.nonce \in 0 .. MaxNonce /\ now \in Time
        BY BlocksTyped DEF SubmissionInv, TypeOK, Block
    <2> QED BY <1>2, <2>1, SubmissionAssumption DEF Time
<1>4. u \in Tab /\ u.stage = "authorizing" /\ u.issuedAt = now
    BY <1>1, <1>3 DEF Tab, TabStage
<1>5. /\ tab' \in [Attempt -> Tab] /\ tab'[a] = u
      /\ \A x \in Attempt \ {a} : tab'[x] = tab[x]
    BY <1>2, <1>4 DEF SubmissionInv, TypeOK
<1>6. TypeOK'
    BY <1>2, <1>5 DEF SubmissionInv, TypeOK
<1>7. job'[a].stage = "none" /\ ~Included(a)
    BY <1>2, IncludedPassed DEF AttemptSound
<1>8. AttemptSound(a)'
    BY <1>2, <1>3, <1>4, <1>5, <1>7 DEF AttemptSound, Passed
<1>9. /\ \A x \in Attempt : AttemptSound(x)'
      /\ \A i \in DOMAIN blocks' : BlockSound(blocks[i])'
      /\ NoncesGrow'
    BY <1>2, <1>5, <1>7, <1>8, OthersStay
<1>10. IsFiniteSet(Busy)' /\ active' = Cardinality(Busy')
    BY <1>2, BusyStays
<1> QED BY <1>6, <1>9, <1>10 DEF SubmissionInv

(* The job's record changes.                                               *)
LEMMA JobGoes ==
    ASSUME SubmissionInv, NEW a \in Attempt, NEW r \in Job, job' = [job EXCEPT ![a] = r]
    PROVE  /\ job' \in [Attempt -> Job] /\ job'[a] = r
           /\ \A x \in Attempt \ {a} : job'[x] = job[x]
BY DEF SubmissionInv, TypeOK

(* The slot is taken with the request and given back with the answer.      *)
LEMMA BusyTaken ==
    ASSUME SubmissionInv, NEW a \in Attempt, job[a].stage \notin Working,
           job'[a].stage \in Working, active' = active + 1,
           \A x \in Attempt \ {a} : job'[x] = job[x]
    PROVE  IsFiniteSet(Busy)' /\ active' = Cardinality(Busy') /\ active' \in Nat
<1>1. Busy' = Busy \cup {a} /\ a \notin Busy
    BY DEF Busy
<1>2. IsFiniteSet(Busy') /\ Cardinality(Busy') = Cardinality(Busy) + 1
    BY <1>1, FS_AddElement DEF SubmissionInv
<1>3. active \in Nat /\ active = Cardinality(Busy)
    BY DEF SubmissionInv, TypeOK
<1> QED BY <1>2, <1>3

(* The answer gives the slot back, which never goes below none.            *)
LEMMA BusyReturned ==
    ASSUME SubmissionInv, NEW a \in Attempt, job[a].stage \in Working,
           job'[a].stage \notin Working, active' = active - 1,
           \A x \in Attempt \ {a} : job'[x] = job[x]
    PROVE  IsFiniteSet(Busy)' /\ active' = Cardinality(Busy') /\ active' \in Nat
<1>1. Busy' = Busy \ {a} /\ a \in Busy
    BY DEF Busy
<1>2. IsFiniteSet(Busy') /\ Cardinality(Busy') = Cardinality(Busy) - 1
    BY <1>1, FS_RemoveElement DEF SubmissionInv
<1>3. active = Cardinality(Busy) /\ Cardinality(Busy') \in Nat
    BY <1>2, FS_CardinalityType DEF SubmissionInv
<1> QED BY <1>2, <1>3

(* The service is asked, or is at its limit.                               *)
LEMMA AskKeeps ==
    ASSUME SubmissionInv, NEW a \in Attempt, Ask(a)
    PROVE  SubmissionInv'
<1>1. tab[a].stage = "authorizing" /\ ~Included(a) /\ job[a].stage = "none"
    BY IncludedPassed DEF Ask, AttemptSound
<1>2. CASE Goto(a, "refused") /\ UNCHANGED <<now, escrow, service>>
    BY <1>1, <1>2, TabStep DEF TabStage, Passed
<1>3. CASE /\ active' = active + 1 /\ job' = [job EXCEPT ![a].stage = "reading"]
           /\ Goto(a, "asking") /\ UNCHANGED <<now, escrow, signer>>
    <2>1. PICK r : r = [job[a] EXCEPT !.stage = "reading"]
        OBVIOUS
    <2>2. r \in Job /\ r.stage = "reading"
        <3>1. job[a] \in Job
            BY IncludedPassed
        <3> QED BY <2>1, <3>1 DEF Job, JobStage
    <2>3. job' = [job EXCEPT ![a] = r]
        BY <1>3, <2>1
    <2>4. /\ job' \in [Attempt -> Job] /\ job'[a] = r
          /\ \A x \in Attempt \ {a} : job'[x] = job[x]
        BY <2>2, <2>3, JobGoes
    <2>5. /\ tab' \in [Attempt -> Tab] /\ tab'[a].stage = "asking"
          /\ tab'[a].nonce = tab[a].nonce /\ tab'[a].issuedAt = tab[a].issuedAt
          /\ \A x \in Attempt \ {a} : tab'[x] = tab[x]
        BY <1>3, TabGoes DEF TabStage
    <2>6. IsFiniteSet(Busy)' /\ active' = Cardinality(Busy') /\ active' \in Nat
        BY <1>1, <1>3, <2>2, <2>4, BusyTaken DEF Working
    <2>7. UNCHANGED <<now, blocks, forks, verifier, signer>>
        BY <1>3 DEF escrow
    <2>8. TypeOK'
        BY <2>4, <2>5, <2>6, <2>7 DEF SubmissionInv, TypeOK
    <2>9. AttemptSound(a)'
        <3>1. tab[a].issuedAt <= now
            BY DEF SubmissionInv, AttemptSound
        <3> QED BY <2>2, <2>4, <2>5, <2>7, <3>1 DEF AttemptSound, Passed
    <2>10. /\ \A x \in Attempt : AttemptSound(x)'
           /\ \A i \in DOMAIN blocks' : BlockSound(blocks[i])'
           /\ NoncesGrow'
        BY <1>1, <2>4, <2>5, <2>7, <2>9, OthersStay
    <2> QED BY <2>6, <2>8, <2>10 DEF SubmissionInv
<1> QED BY <1>2, <1>3 DEF Ask, service

(* A request at the service goes on or is over; its tab has not passed.    *)
LEMMA JobStep ==
    ASSUME SubmissionInv, NEW a \in Attempt, NEW r \in Job, job[a].stage \in Working,
           job' = [job EXCEPT ![a] = r], UNCHANGED <<now, escrow, signer, tab>>,
           r.stage \in {"judging", "signing", "pass"} =>
               /\ Affordable(r.observed, PayTo[a])
               /\ tab[a].issuedAt <= r.observedAt /\ r.observedAt <= now,
           \/ r.stage \in Working /\ active' = active
           \/ r.stage \notin Working /\ active' = active - 1
    PROVE  SubmissionInv'
<1>1. /\ job' \in [Attempt -> Job] /\ job'[a] = r
      /\ \A x \in Attempt \ {a} : job'[x] = job[x]
    BY JobGoes
<1>2. IsFiniteSet(Busy)' /\ active' = Cardinality(Busy') /\ active' \in Nat
    <2>1. CASE r.stage \in Working /\ active' = active
        <3>1. active' \in Nat
            BY <2>1 DEF SubmissionInv, TypeOK
        <3>2. \A x \in Attempt : job'[x].stage \in Working <=> job[x].stage \in Working
            BY <1>1, <2>1
        <3> QED BY <2>1, <3>1, <3>2, BusyStays
    <2>2. CASE r.stage \notin Working /\ active' = active - 1
        BY <1>1, <2>2, BusyReturned
    <2> QED BY <2>1, <2>2
<1>3. UNCHANGED <<now, blocks, forks, verifier, signer, tab>>
    BY DEF escrow
<1>4. TypeOK'
    BY <1>1, <1>2, <1>3 DEF SubmissionInv, TypeOK
<1>5. /\ AttemptSound(a) /\ ~Included(a) /\ tab[a].stage \notin Passed
      /\ tab[a].stage \notin {"idle", "authorizing"}
    BY IncludedPassed DEF AttemptSound, Working, Passed
<1>6. AttemptSound(a)'
    BY <1>1, <1>3, <1>5 DEF AttemptSound, Observed
<1>7. /\ \A x \in Attempt : AttemptSound(x)'
      /\ \A i \in DOMAIN blocks' : BlockSound(blocks[i])'
      /\ NoncesGrow'
    BY <1>1, <1>3, <1>5, <1>6, OthersStay
<1> QED BY <1>2, <1>4, <1>7 DEF SubmissionInv

(* What the service takes pays the receiver, at a price the demand pays.   *)
LEMMA EligibleIsAffordable ==
    ASSUME NEW reply, NEW receiver, Evaluate(reply, receiver, MaxUnitPrice).code = "ELIGIBLE"
    PROVE  Affordable(reply, receiver)
<1>1. PICK S : S = {i \in DOMAIN reply.offers : Eligible(reply.offers[i], receiver, MaxUnitPrice)}
    OBVIOUS
<1>2. S # {}
    <2> SUFFICES ASSUME S = {} PROVE FALSE
        OBVIOUS
    <2>1. \E code \in {"ENDPOINT_UNAVAILABLE", "INVALID_CHALLENGE", "INVALID_RESOURCE",
                       "UNSUPPORTED_PRICE_COMPARISON", "NO_ELIGIBLE_OFFER"} :
              Evaluate(reply, receiver, MaxUnitPrice) = [code |-> code, index |-> 0]
        BY <1>1 DEF Evaluate
    <2> QED BY <2>1
<1>3. PICK i \in DOMAIN reply.offers : Eligible(reply.offers[i], receiver, MaxUnitPrice)
    BY <1>1, <1>2
<1> QED BY <1>3 DEF Eligible, Comparable, Priced, Affordable

(* What the service does for one request.                                  *)
LEMMA JobActions ==
    ASSUME SubmissionInv, NEW a \in Attempt, Serve(a)
    PROVE  SubmissionInv'
<1>1. AttemptSound(a) /\ tab[a] \in Tab /\ job[a] \in Job
    BY IncludedPassed
<1>2. CASE Fail(a)
    <2>1. PICK r : r = [job[a] EXCEPT !.stage = "fail"]
        OBVIOUS
    <2>2. r \in Job /\ r.stage = "fail"
        BY <1>1, <2>1 DEF Job, JobStage
    <2>3. /\ job[a].stage \in Working /\ job' = [job EXCEPT ![a] = r] /\ active' = active - 1
          /\ UNCHANGED <<now, escrow, signer, tab>>
        BY <1>2, <2>1 DEF Fail, Answer
    <2> QED BY <2>2, <2>3, JobStep DEF Working
<1>3. CASE Snapshot(a)
    <2>1. PICK h : h = Len(blocks)
        OBVIOUS
    <2>2. PICK s : s = [height |-> h, fork |-> blocks[h].fork]
        OBVIOUS
    <2>3. PICK r : r = [job[a] EXCEPT !.stage = "inspecting", !.snapshot = s]
        OBVIOUS
    <2>4. h \in Nat /\ blocks[h].fork \in 0 .. MaxReorgs
        BY <2>1, BlocksTyped DEF SubmissionInv, Block
    <2>5. s \in [height: Nat, fork: 0 .. MaxReorgs]
        BY <2>2, <2>4
    <2>6. r \in Job /\ r.stage = "inspecting"
        BY <1>1, <2>3, <2>5 DEF Job, JobStage
    <2>7. /\ job[a].stage = "reading" /\ job' = [job EXCEPT ![a] = r] /\ active' = active
          /\ UNCHANGED <<now, escrow, signer, tab>>
        BY <1>3, <2>1, <2>2, <2>3 DEF Snapshot, Continue
    <2> QED BY <2>6, <2>7, JobStep DEF Working
<1>4. ASSUME NEW reply \in Reply, Inspect(a, reply) PROVE SubmissionInv'
    <2>1. PICK r : r = [job[a] EXCEPT !.stage = "judging", !.observed = reply, !.observedAt = now]
        OBVIOUS
    <2>2. now \in Time /\ now <= now
        BY DEF SubmissionInv, TypeOK, Time
    <2>3. r \in Job /\ r.stage = "judging" /\ r.observed = reply /\ r.observedAt = now
        BY <1>1, <2>1, <2>2 DEF Job, JobStage
    <2>4. /\ job[a].stage = "inspecting" /\ job' = [job EXCEPT ![a] = r] /\ active' = active
          /\ UNCHANGED <<now, escrow, signer, tab>>
        BY <1>4, <2>1 DEF Inspect, Continue
    <2>5. Affordable(reply, PayTo[a])
        BY <1>4, EligibleIsAffordable DEF Inspect
    <2>6. tab[a].issuedAt <= now
        BY <1>1 DEF AttemptSound
    <2> QED BY <2>2, <2>3, <2>4, <2>5, <2>6, JobStep DEF Working
<1>5. CASE Vouch(a)
    <2>1. PICK att : att = [nonce |-> tab[a].nonce, issuedAt |-> now,
                            expiresAt |-> AttestationExpiry(a), key |-> signer]
        OBVIOUS
    <2>2. PICK r : r = [job[a] EXCEPT !.stage = "signing", !.attestation = att]
        OBVIOUS
    <2>3. now \in Nat /\ AttestationExpiry(a) \in Nat
        <3>1. now \in Nat /\ tab[a].issuedAt \in Nat
            BY <1>1 DEF SubmissionInv, TypeOK, Time, Tab
        <3> QED BY <3>1, SubmissionAssumption DEF AttestationExpiry, AuthExpiry
    <2>4. att \in Attested
        BY <1>1, <2>1, <2>3 DEF Attested, Tab, SubmissionInv, TypeOK
    <2>5. r \in Job /\ r.stage = "signing"
          /\ r.observed = job[a].observed /\ r.observedAt = job[a].observedAt
        BY <1>1, <2>2, <2>4 DEF Job, JobStage
    <2>6. /\ job[a].stage = "judging" /\ job' = [job EXCEPT ![a] = r] /\ active' = active
          /\ UNCHANGED <<now, escrow, signer, tab>>
        BY <1>5, <2>1, <2>2 DEF Vouch, Continue
    <2>7. Observed(a)
        BY <1>1, <2>6 DEF AttemptSound
    <2> QED BY <2>5, <2>6, <2>7, JobStep DEF Working, Observed
<1>6. CASE Sign(a)
    <2>1. PICK r : r = [job[a] EXCEPT !.stage = "pass"]
        OBVIOUS
    <2>2. r \in Job /\ r.stage = "pass"
          /\ r.observed = job[a].observed /\ r.observedAt = job[a].observedAt
        BY <1>1, <2>1 DEF Job, JobStage
    <2>3. /\ job[a].stage = "signing" /\ job' = [job EXCEPT ![a] = r] /\ active' = active - 1
          /\ UNCHANGED <<now, escrow, signer, tab>>
        BY <1>6, <2>1 DEF Sign, Answer
    <2>4. Observed(a)
        BY <1>1, <2>3 DEF AttemptSound
    <2> QED BY <2>2, <2>3, <2>4, JobStep DEF Working, Observed
<1> QED BY <1>2, <1>3, <1>4, <1>5, <1>6 DEF Serve

(* What is lost with the service had not passed.                           *)
LEMMA RestartKeeps ==
    ASSUME SubmissionInv, NEW k \in Key, Restart(k)
    PROVE  SubmissionInv'
<1>1. UNCHANGED <<now, blocks, forks, verifier, tab>> /\ signer' \in Key /\ active' = 0
    BY DEF Restart, escrow
<1>2. ASSUME NEW a \in Attempt
      PROVE  /\ job'[a] \in Job /\ job'[a].stage \notin Working
             /\ job[a].stage \notin Working => job'[a] = job[a]
             /\ job[a].stage \in Working => job'[a].stage = "fail"
             /\ job'[a].observedAt = job[a].observedAt
    <2>1. job[a] \in Job
        BY IncludedPassed
    <2>2. PICK r : r = [job[a] EXCEPT !.stage = "fail"]
        OBVIOUS
    <2>3. r \in Job /\ r.stage = "fail" /\ r.observedAt = job[a].observedAt
        BY <2>1, <2>2 DEF Job, JobStage
    <2>4. job'[a] = IF job[a].stage \in Working THEN r ELSE job[a]
        BY <2>2 DEF Restart
    <2> QED BY <2>1, <2>3, <2>4 DEF Working
<1>3. job' \in [Attempt -> Job]
    <2>1. DOMAIN job' = Attempt /\ job' = [a \in Attempt |-> job'[a]]
        BY DEF Restart
    <2> QED BY <1>2, <2>1
<1>4. Busy' = {}
    BY <1>2 DEF Busy
<1>5. IsFiniteSet(Busy)' /\ active' = Cardinality(Busy')
    BY <1>1, <1>4, FS_EmptySet
<1>6. TypeOK'
    BY <1>1, <1>3 DEF SubmissionInv, TypeOK
<1>7. ASSUME NEW a \in Attempt PROVE AttemptSound(a)'
    <2>1. AttemptSound(a)
        BY IncludedPassed
    <2>2. CASE job[a].stage \in Working
        BY <1>1, <1>2, <2>1, <2>2 DEF AttemptSound, Working
    <2>3. CASE job[a].stage \notin Working
        <3>1. job'[a] = job[a]
            BY <1>2, <2>3
        <3> QED BY <1>1, <2>1, <3>1 DEF AttemptSound, Observed, AuthExpiry
    <2> QED BY <2>2, <2>3
<1>8. ASSUME NEW i \in DOMAIN blocks PROVE BlockSound(blocks[i])'
    BY <1>1, <1>2 DEF SubmissionInv, BlockSound, AuthExpiry
<1>9. NoncesGrow'
    BY <1>1 DEF SubmissionInv, NoncesGrow
<1> QED BY <1>1, <1>5, <1>6, <1>7, <1>8, <1>9 DEF SubmissionInv

-------------------------------------------------------------------------------
(* The chain moves.                                                        *)

LEMMA MineStep ==
    ASSUME SubmissionInv, NEW b \in Block, blocks' = Append(blocks, b),
           UNCHANGED <<now, forks, verifier, service, tab>>, BlockSound(b),
           demand.nonce <= b.nonce,
           demand.status = "Open" => b.by \in Attempt /\ demand.nonce < b.nonce
    PROVE  SubmissionInv'
<1>1. PICK n : n = Len(blocks)
    OBVIOUS
<1>2. /\ n \in Nat \ {0} /\ DOMAIN blocks = 1 .. n /\ demand = blocks[n]
      /\ \A i \in 1 .. n : blocks[i] \in Block
    BY <1>1, BlocksTyped DEF SubmissionInv, demand
<1>3. /\ blocks' \in Seq(Block) /\ blocks' # <<>> /\ DOMAIN blocks' = 1 .. (n + 1)
      /\ \A i \in 1 .. n : blocks'[i] = blocks[i]
      /\ blocks'[n + 1] = b
    BY <1>1, <1>2 DEF SubmissionInv, TypeOK
<1>4. UNCHANGED <<now, forks, verifier, signer, job, active, tab>>
    BY DEF service
<1>5. TypeOK'
    BY <1>3, <1>4 DEF SubmissionInv, TypeOK
<1>6. IsFiniteSet(Busy)' /\ active' = Cardinality(Busy')
    BY <1>4, BusyStays
<1>7. \A a \in Attempt : AttemptSound(a)'
    BY <1>4 DEF SubmissionInv, AttemptSound, Observed, AuthExpiry
<1>8. \A c : BlockSound(c) => BlockSound(c)'
    BY <1>4 DEF BlockSound, AuthExpiry
<1>9. ASSUME NEW i \in DOMAIN blocks' PROVE BlockSound(blocks[i])'
    <2>1. BlockSound(blocks'[i])
        <3>1. i \in 1 .. n \/ i = n + 1
            BY <1>2, <1>3
        <3> QED BY <1>2, <1>3, <3>1 DEF SubmissionInv
    <2>2. \A c : (c = blocks'[i] /\ BlockSound(c)') => BlockSound(blocks[i])'
        BY DEF BlockSound, AuthExpiry
    <2> QED BY <1>8, <2>1, <2>2
<1>10. NoncesGrow'
    <2>1. ASSUME NEW i \in DOMAIN blocks', NEW j \in DOMAIN blocks', i <= j
          PROVE  blocks'[i].nonce <= blocks'[j].nonce
        <3>1. CASE j \in 1 .. n
            <4>1. i \in 1 .. n
                BY <1>2, <1>3, <2>1, <3>1
            <4> QED BY <1>2, <1>3, <2>1, <3>1, <4>1 DEF SubmissionInv, NoncesGrow
        <3>2. CASE j = n + 1 /\ i \in 1 .. n
            <4>1. i \in DOMAIN blocks /\ n \in DOMAIN blocks /\ i <= n
                BY <1>2, <3>2
            <4>2. blocks[i].nonce <= blocks[n].nonce
                BY <4>1 DEF SubmissionInv, NoncesGrow
            <4>3. blocks[i].nonce \in Nat /\ blocks[n].nonce \in Nat /\ b.nonce \in Nat
                BY <1>2, <4>1 DEF Block
            <4> QED BY <1>2, <1>3, <3>2, <4>2, <4>3
        <3>3. CASE j = n + 1 /\ i = n + 1
            <4>1. b.nonce \in Nat
                BY DEF Block
            <4> QED BY <1>3, <3>3, <4>1
        <3> QED BY <1>2, <1>3, <3>1, <3>2, <3>3
    <2>2. ASSUME NEW i \in DOMAIN blocks', NEW j \in DOMAIN blocks', j = i + 1,
                 blocks'[i].status = "Open"
          PROVE  blocks'[j].by \in Attempt /\ blocks'[i].nonce < blocks'[j].nonce
        <3>1. i \in 1 .. n /\ (j \in 1 .. n \/ (j = n + 1 /\ i = n))
            BY <1>2, <1>3, <2>2
        <3>2. CASE j \in 1 .. n
            BY <1>2, <1>3, <2>2, <3>1, <3>2 DEF SubmissionInv, NoncesGrow
        <3>3. CASE j = n + 1 /\ i = n
            BY <1>2, <1>3, <2>2, <3>1, <3>3
        <3> QED BY <3>1, <3>2, <3>3
    <2> QED BY <2>1, <2>2 DEF NoncesGrow
<1> QED BY <1>5, <1>6, <1>7, <1>9, <1>10 DEF SubmissionInv

(* The contract takes a submission: the attestation's own time is inside   *)
(* the builder's, and its nonce is the next.                               *)
LEMMA AcceptKeeps ==
    ASSUME SubmissionInv, NEW a \in Attempt, Accept(a)
    PROVE  SubmissionInv'
<1>1. PICK b : b = [status |-> "Submitted", nonce |-> demand.nonce + 1, by |-> a,
                    at |-> now, fork |-> forks]
    OBVIOUS
<1>2. /\ blocks' = Append(blocks, b) /\ UNCHANGED <<now, forks, verifier, service, tab>>
      /\ Acceptable(a) /\ tab[a].stage \in {"handed", "submitted", "unknown"}
    BY <1>1 DEF Accept, Mined
<1>3. demand.nonce \in 0 .. MaxNonce /\ demand.nonce < MaxNonce /\ now \in Time /\ now \in Nat
      /\ forks \in 0 .. MaxReorgs
    BY <1>2, BlocksTyped DEF SubmissionInv, TypeOK, Block, Acceptable, Time
<1>4. demand.nonce + 1 \in 0 .. MaxNonce /\ demand.nonce < demand.nonce + 1
      /\ demand.nonce <= demand.nonce + 1 /\ now <= now
    BY <1>3, SubmissionAssumption
<1>5. b \in Block
    BY <1>1, <1>3, <1>4 DEF Block
<1>6. /\ AttemptSound(a) /\ tab[a] \in Tab /\ job[a] \in Job
    BY IncludedPassed
<1>7. /\ job[a].stage = "pass" /\ job[a].attestation.nonce = tab[a].nonce
      /\ job[a].attestation.expiresAt <= AuthExpiry(a) /\ Observed(a)
    BY <1>2, <1>6 DEF AttemptSound, Passed
<1>8. now < AuthExpiry(a)
    <2>1. now < job[a].attestation.expiresAt
        BY <1>2 DEF Acceptable, ValidTime
    <2>2. job[a].attestation.expiresAt \in Nat
        BY <1>6 DEF Job, Attested
    <2>3. AuthExpiry(a) \in Nat
        BY <1>6, SubmissionAssumption DEF AuthExpiry, Tab, Time
    <2> QED BY <1>3, <1>7, <2>1, <2>2, <2>3
<1>9. b.nonce = tab[a].nonce
    BY <1>1, <1>2, <1>7 DEF Acceptable
<1>10. BlockSound(b)
    BY <1>1, <1>2, <1>4, <1>7, <1>8, <1>9 DEF BlockSound, Observed
<1>11. demand.nonce <= b.nonce /\ b.by \in Attempt /\ demand.nonce < b.nonce
    BY <1>1, <1>4
<1> QED BY <1>2, <1>5, <1>10, <1>11, MineStep

(* The demand is reopened or settled; its submission stays what it was.    *)
LEMMA OwnersKeep ==
    ASSUME SubmissionInv, Reopen \/ Settle
    PROVE  SubmissionInv'
<1>1. /\ demand \in Block /\ demand.nonce <= demand.nonce /\ BlockSound(demand)
      /\ now \in Time /\ now <= now /\ forks \in 0 .. MaxReorgs /\ demand.at <= now
    <2>1. demand \in Block /\ BlockSound(demand)
        BY BlocksTyped DEF SubmissionInv, demand
    <2>2. demand.nonce <= demand.nonce
        BY <2>1 DEF Block
    <2> QED BY <2>1, <2>2 DEF SubmissionInv, TypeOK, Time, BlockSound
<1>2. CASE Reopen
    <2>1. PICK b : b = [status |-> "Open", nonce |-> demand.nonce, by |-> NoAttempt,
                        at |-> now, fork |-> forks]
        OBVIOUS
    <2>2. /\ blocks' = Append(blocks, b) /\ UNCHANGED <<now, forks, verifier, service, tab>>
          /\ demand.status = "Submitted"
        BY <1>2, <2>1 DEF Reopen, Mined
    <2>3. b \in Block
        BY <1>1, <2>1 DEF Block
    <2>4. BlockSound(b)
        BY <1>1, <2>1, SubmissionAssumption DEF BlockSound
    <2> QED BY <1>1, <2>1, <2>2, <2>3, <2>4, MineStep
<1>3. CASE Settle
    <2>1. PICK b : b = [status |-> "Fulfilled", nonce |-> demand.nonce, by |-> demand.by,
                        at |-> now, fork |-> forks]
        OBVIOUS
    <2>2. /\ blocks' = Append(blocks, b) /\ UNCHANGED <<now, forks, verifier, service, tab>>
          /\ demand.status = "Submitted"
        BY <1>3, <2>1 DEF Settle, Mined
    <2>3. b \in Block
        BY <1>1, <2>1 DEF Block
    <2>4. BlockSound(b)
        <3>1. /\ b.by = demand.by /\ b.nonce = demand.nonce /\ b.at = now
              /\ b.status = "Fulfilled"
            BY <2>1
        <3>2. ASSUME b.by \in Attempt PROVE job[b.by].observedAt <= now
            BY <3>1, <3>2, IncludedPassed, <1>1 DEF BlockSound, AttemptSound, Observed, Passed
        <3> QED BY <1>1, <3>1, <3>2 DEF BlockSound
    <2> QED BY <1>1, <2>1, <2>2, <2>3, <2>4, MineStep
<1> QED BY <1>2, <1>3

(* What is left of the chain was there before.                             *)
LEMMA ReorganizeKeeps ==
    ASSUME SubmissionInv, NEW m \in 1 .. MaxBlocks, Reorganize(m)
    PROVE  SubmissionInv'
<1>1. PICK n : n = Len(blocks)
    OBVIOUS
<1>2. /\ n \in Nat \ {0} /\ DOMAIN blocks = 1 .. n /\ m \in Nat /\ m < n
      /\ 1 <= m /\ \A i \in 1 .. n : blocks[i] \in Block
    BY <1>1, BlocksTyped, SubmissionAssumption DEF SubmissionInv, Reorganize
<1>3. blocks \in Seq(Block) /\ blocks' = SubSeq(blocks, 1, m)
    BY DEF SubmissionInv, TypeOK, Reorganize
<1>4. /\ DOMAIN blocks' = 1 .. m
      /\ \A i \in 1 .. m : blocks'[i] = blocks[i]
    BY <1>2, <1>3
<1>5. 1 .. m \subseteq 1 .. n
    BY <1>2
<1>6. blocks' \in Seq(Block) /\ blocks' # <<>>
    <2>1. \A i \in 1 .. m : blocks[i] \in Block
        BY <1>2, <1>5
    <2>2. blocks' = [i \in 1 .. m |-> blocks[i]]
        BY <1>2, <1>3
    <2> QED BY <1>2, <1>4, <2>1, <2>2
<1>7. UNCHANGED <<now, verifier, signer, job, active, tab>> /\ forks' \in 0 .. MaxReorgs
    <2>1. forks \in 0 .. MaxReorgs /\ forks < MaxReorgs /\ forks' = forks + 1
        BY DEF Reorganize, SubmissionInv, TypeOK
    <2> QED BY <2>1, SubmissionAssumption DEF Reorganize, service
<1>8. TypeOK'
    BY <1>6, <1>7 DEF SubmissionInv, TypeOK
<1>9. IsFiniteSet(Busy)' /\ active' = Cardinality(Busy')
    BY <1>7, BusyStays
<1>10. \A a \in Attempt : AttemptSound(a)'
    BY <1>7 DEF SubmissionInv, AttemptSound, Observed, AuthExpiry
<1>11. ASSUME NEW i \in DOMAIN blocks' PROVE BlockSound(blocks[i])'
    <2>1. blocks'[i] = blocks[i] /\ BlockSound(blocks[i])
        BY <1>2, <1>4, <1>5 DEF SubmissionInv
    <2> QED BY <1>7, <2>1 DEF BlockSound, AuthExpiry
<1>12. NoncesGrow'
    <2>1. \A i \in DOMAIN blocks' : i \in DOMAIN blocks /\ blocks'[i] = blocks[i]
        BY <1>2, <1>4, <1>5
    <2>2. NoncesGrow
        BY DEF SubmissionInv
    <2> QED BY <2>1, <2>2 DEF NoncesGrow
<1> QED BY <1>8, <1>9, <1>10, <1>11, <1>12 DEF SubmissionInv

(* The clock and the contract's key touch nothing that was agreed to.      *)
LEMMA WorldKeeps ==
    ASSUME SubmissionInv, Tick \/ \E k \in Key : SetVerifier(k)
    PROVE  SubmissionInv'
<1>1. /\ UNCHANGED <<blocks, forks, signer, job, active, tab>>
      /\ verifier' \in Key /\ now' \in Time /\ now \in Nat /\ now' \in Nat /\ now <= now'
    <2>1. now \in Time /\ now \in Nat /\ now <= now /\ verifier \in Key
        BY DEF SubmissionInv, TypeOK, Time
    <2>2. CASE Tick
        BY <2>1, <2>2, SubmissionAssumption DEF Tick, Time, escrow, service
    <2>3. CASE \E k \in Key : SetVerifier(k)
        BY <2>1, <2>3 DEF SetVerifier, service
    <2> QED BY <2>2, <2>3
<1>2. TypeOK'
    BY <1>1 DEF SubmissionInv, TypeOK
<1>3. IsFiniteSet(Busy)' /\ active' = Cardinality(Busy')
    BY <1>1, BusyStays
<1>4. ASSUME NEW a \in Attempt PROVE AttemptSound(a)'
    <2>1. AttemptSound(a) /\ tab[a] \in Tab /\ job[a] \in Job
        BY IncludedPassed
    <2>2. tab[a].issuedAt \in Nat /\ job[a].observedAt \in Nat
        BY <2>1 DEF Tab, Job, Time
    <2>3. tab[a].issuedAt <= now => tab[a].issuedAt <= now'
        BY <1>1, <2>2
    <2>4. job[a].observedAt <= now => job[a].observedAt <= now'
        BY <1>1, <2>2
    <2> QED BY <1>1, <2>1, <2>3, <2>4 DEF AttemptSound, Observed, AuthExpiry
<1>5. ASSUME NEW i \in DOMAIN blocks PROVE BlockSound(blocks[i])'
    <2>1. blocks[i].at \in Nat /\ BlockSound(blocks[i])
        BY BlocksTyped DEF SubmissionInv, Block, Time
    <2>2. blocks[i].at <= now'
        BY <1>1, <2>1 DEF BlockSound
    <2> QED BY <1>1, <2>1, <2>2 DEF BlockSound, AuthExpiry
<1>6. NoncesGrow'
    BY <1>1 DEF SubmissionInv, NoncesGrow
<1> QED BY <1>1, <1>2, <1>3, <1>4, <1>5, <1>6 DEF SubmissionInv

-------------------------------------------------------------------------------
(* Every step keeps the invariant.                                         *)
LEMMA SubmissionInvStep == SubmissionInv /\ [Next]_vars => SubmissionInv'
<1> SUFFICES ASSUME SubmissionInv, [Next]_vars PROVE SubmissionInv'
    OBVIOUS
<1>1. CASE UNCHANGED vars
    <2>1. UNCHANGED <<now, blocks, forks, verifier, signer, job, active, tab>>
        BY <1>1 DEF vars, escrow, service
    <2> QED BY <2>1 DEF SubmissionInv, TypeOK, Busy, AttemptSound, Observed, AuthExpiry,
                        BlockSound, NoncesGrow
<1>2. ASSUME NEW a \in Attempt,
             \/ Authorize(a) \/ Ask(a) \/ GiveUp(a) \/ Receive(a)
             \/ BeforeBroadcast(a) \/ ReadBack(a) \/ Reverted(a) \/ Serve(a) \/ Accept(a)
      PROVE  SubmissionInv'
    BY <1>2, AuthorizeKeeps, AskKeeps, TabActions, JobActions, AcceptKeeps
<1>3. CASE Reopen \/ Settle
    BY <1>3, OwnersKeep
<1>4. ASSUME NEW m \in 1 .. MaxBlocks, Reorganize(m) PROVE SubmissionInv'
    BY <1>4, ReorganizeKeeps
<1>5. ASSUME NEW k \in Key, Restart(k) PROVE SubmissionInv'
    BY <1>5, RestartKeeps
<1>6. CASE Tick \/ \E k \in Key : SetVerifier(k)
    BY <1>6, WorldKeeps
<1> QED BY <1>1, <1>2, <1>3, <1>4, <1>5, <1>6 DEF Next

(* Always: the service counts the requests it works on, a tab goes on only *)
(* with a pass for its own authorization, and each block is the outcome of *)
(* an attempt or of the owner (submitService, validation-service.ts).      *)
THEOREM SubmissionInductive == Spec => []SubmissionInv
<1> QED BY SubmissionInvInit, SubmissionInvStep, PTL DEF Spec

(* However many attempts run and whatever endpoint, chain, clock and keys  *)
(* do in between, the contract accepts only what the builder authorized    *)
(* and the service saw, in time and once.                                  *)
THEOREM AcceptsTheAgreed == Spec => []AcceptedAsAgreed
<1> QED BY SubmissionInductive, InvIsAgreed, PTL
===============================================================================
