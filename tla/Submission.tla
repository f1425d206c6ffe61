------------------------------- MODULE Submission ------------------------------
(***************************************************************************)
(* How a builder gets a service under review: the browser's submitService  *)
(* (frontend/contract.ts) has the wallet sign an authorization, asks the   *)
(* validation service (backend/validation-service.ts) for an attestation,  *)
(* which it gives for what it observes at the builder's endpoint and has   *)
(* signed by a separate signer (backend/validation-signer.ts), and sends   *)
(* it to the escrow contract.  Here one demand: the chain, the endpoint,   *)
(* the clock and the verifier's key move on while an attempt is under way, *)
(* several attempts run at once, and each step may find the world changed. *)
(*                                                                         *)
(* The contract is AgentDemand's, as far as this demand's status, nonce    *)
(* and deadline go; a reverting transaction leaves the chain alone.        *)
(***************************************************************************)
EXTENDS PaymentChallenge, FiniteSets

CONSTANTS
    Attempt,           \* calls of submitService, in any tab of any builder
    NoAttempt,
    WalletOf,          \* the builder's wallet an attempt runs for
    PayTo,             \* the receiver an attempt authorizes
    MaxUnitPrice,      \* of the demand
    NoReply,
    Reply,             \* what the endpoint may answer
    Key,               \* signing keys the verifier's admin may install
    FirstKey,          \* the one the contract was deployed with
    MaxInFlight,       \* requests the service works on at once
    AuthLifetime,      \* the 300 seconds of submitService
    MaxWindow,         \* the 900 seconds of an attestation
    ClockSkew,         \* the 60 seconds of validTime
    Deadline,          \* of the demand
    MaxNonce,          \* largest submission nonce
    MaxBlocks,         \* bound on the chain's transactions
    MaxReorgs,         \* bound on reorganisations
    MaxTime            \* bound on the clock

ASSUME SubmissionAssumption ==
    /\ NoAttempt \notin Attempt /\ IsFiniteSet(Attempt)
    /\ MaxUnitPrice \in Nat /\ MaxInFlight \in Nat \ {0}
    /\ AuthLifetime \in Nat \ {0} /\ MaxWindow \in Nat \ {0} /\ ClockSkew \in Nat
    /\ AuthLifetime <= MaxWindow
    /\ Deadline \in Nat /\ MaxNonce \in Nat /\ MaxBlocks \in Nat /\ MaxTime \in Nat
    /\ MaxReorgs \in Nat /\ FirstKey \in Key

VARIABLES
    now,               \* seconds, of every party's clock
    blocks,            \* the demand after each transaction of the chain
    forks,             \* reorganisations so far
    verifier,          \* in the contract
    signer,            \* the key the validation service and its signer hold
    tab,               \* each attempt, in its browser tab
    job,               \* its request, at the validation service
    active             \* requests in flight, as the service counts them

escrow  == <<blocks, forks, verifier>>
service == <<signer, job, active>>
vars    == <<now, escrow, service, tab>>

Time == 0 .. MaxTime

(* The demand as a block leaves it, in which fork the block was built,     *)
(* which attempt's submission stands, and when it was accepted.            *)
Block ==
    [status: {"Open", "Submitted", "Fulfilled"}, nonce: 0 .. MaxNonce,
     by: Attempt \cup {NoAttempt}, at: Time, fork: 0 .. MaxReorgs]

(* Where an attempt stands: waiting for the wallet's signature, for the    *)
(* service, with a pass, handed to the wallet and the chain, or at its end. *)
TabStage ==
    {"idle", "authorizing", "asking", "passed", "handed", "refused",
     "reverted", "unknown", "submitted"}

Tab == [stage: TabStage, nonce: 0 .. MaxNonce, issuedAt: Time]

JobStage == {"none", "reading", "inspecting", "judging", "signing", "pass", "fail"}

Attested == [nonce: 0 .. MaxNonce, issuedAt: Nat, expiresAt: Nat, key: Key]

Job ==
    [stage: JobStage, snapshot: [height: Nat, fork: 0 .. MaxReorgs],
     observed: Reply \cup {NoReply}, observedAt: Time, attestation: Attested]

TypeOK ==
    /\ now \in Time
    /\ blocks \in Seq(Block) /\ blocks # <<>>
    /\ forks \in 0 .. MaxReorgs
    /\ verifier \in Key /\ signer \in Key
    /\ tab \in [Attempt -> Tab]
    /\ job \in [Attempt -> Job]
    /\ active \in Nat

-------------------------------------------------------------------------------
demand == blocks[Len(blocks)]

Goto(a, stage) == tab' = [tab EXCEPT ![a].stage = stage]

(* Faulty: an authorization or attestation that has run out is valid.      *)
ValidTimeEndless(issuedAt, expiresAt) ==
    /\ issuedAt <= now + ClockSkew
    /\ issuedAt < expiresAt
    /\ expiresAt - issuedAt <= MaxWindow

(* validTime of backend/validation-crypto.ts, which the signer asks too.   *)
ValidTime(issuedAt, expiresAt) ==
    /\ issuedAt <= now + ClockSkew
    /\ issuedAt < expiresAt
    /\ expiresAt - issuedAt <= MaxWindow
    /\ now < expiresAt

Included(a) == \E i \in DOMAIN blocks : blocks[i].by = a

AuthExpiry(a) == tab[a].issuedAt + AuthLifetime
AuthValid(a)  == ValidTime(tab[a].issuedAt, AuthExpiry(a))

(* _verifyAttestation and the guards of submitService in the contract.     *)
Acceptable(a) ==
    LET att == job[a].attestation
    IN  /\ demand.status = "Open" /\ now < Deadline
        /\ demand.nonce < MaxNonce
        /\ att.nonce = demand.nonce + 1
        /\ ValidTime(att.issuedAt, att.expiresAt)
        /\ att.key = verifier

-------------------------------------------------------------------------------
(* The tab.                                                                *)

(* The nonce is read, and the wallet asked to sign for it.                 *)
Authorize(a) ==
    /\ tab[a].stage = "idle"
    /\ demand.nonce < MaxNonce
    /\ tab' = [tab EXCEPT ![a] = [stage    |-> "authorizing",
                                  nonce    |-> demand.nonce + 1,
                                  issuedAt |-> now]]
    /\ UNCHANGED <<now, escrow, service>>

(* The signature is there and the service asked; at its limit it answers   *)
(* CAPACITY_EXHAUSTED.                                                     *)
Ask(a) ==
    /\ tab[a].stage = "authorizing"
    /\ \/ /\ active < MaxInFlight
          /\ active' = active + 1
          /\ job' = [job EXCEPT ![a].stage = "reading"]
          /\ Goto(a, "asking")
       \/ /\ active >= MaxInFlight
          /\ Goto(a, "refused")
          /\ UNCHANGED <<active, job>>
    /\ UNCHANGED <<now, escrow, signer>>

(* The wallet declines or has changed, or the request takes 30 seconds.    *)
(* The service is not told and works on.                                   *)
GiveUp(a) ==
    /\ tab[a].stage \in {"authorizing", "asking", "passed", "handed"}
    /\ ~Included(a)
    /\ Goto(a, "refused")
    /\ UNCHANGED <<now, escrow, service>>

(* validatePass: the attestation is for this nonce, ends no later than the *)
(* authorization and is signed by the verifier the contract has now.       *)
PassValid(a) ==
    LET att == job[a].attestation
    IN  /\ att.nonce = tab[a].nonce
        /\ ValidTime(att.issuedAt, att.expiresAt)
        /\ att.expiresAt <= AuthExpiry(a)
        /\ att.key = verifier

NonceCurrent(a) == demand.nonce + 1 = tab[a].nonce

Receive(a) ==
    /\ tab[a].stage = "asking"
    /\ job[a].stage \in {"pass", "fail"}
    /\ Goto(a, IF job[a].stage = "pass" /\ PassValid(a) /\ NonceCurrent(a)
               THEN "passed" ELSE "refused")
    /\ UNCHANGED <<now, escrow, service>>

(* writeDemand runs beforeBroadcast as the last thing before the dialog.   *)
BeforeBroadcast(a) ==
    /\ tab[a].stage = "passed"
    /\ Goto(a, IF NonceCurrent(a) /\ now < job[a].attestation.expiresAt
               THEN "handed" ELSE "refused")
    /\ UNCHANGED <<now, escrow, service>>

(* Its requirements hash stands for the request and the offer it was judged *)
(* on: the resource is the same for all attempts here.                     *)
SameRequirements(a, b) == PayTo[a] = PayTo[b] /\ job[a].observed = job[b].observed

(* verifySubmission, once the receipt is there: an attempt that cannot be  *)
(* read back is reported as unknown, never as failed.                      *)
ReadBack(a) ==
    LET b == demand.by
    IN  /\ tab[a].stage = "handed"
        /\ Included(a)
        /\ Goto(a, IF /\ demand.status \in {"Submitted", "Fulfilled"}
                      /\ WalletOf[b] = WalletOf[a]
                      /\ demand.nonce = job[a].attestation.nonce
                      /\ SameRequirements(a, b)
                   THEN "submitted" ELSE "unknown")
        /\ UNCHANGED <<now, escrow, service>>

Reverted(a) ==
    /\ tab[a].stage = "handed"
    /\ ~Included(a) /\ ~Acceptable(a)
    /\ Goto(a, "reverted")
    /\ UNCHANGED <<now, escrow, service>>

-------------------------------------------------------------------------------
(* The validation service.                                                 *)

Working == {"reading", "inspecting", "judging", "signing"}

(* The handler's finally: whatever the answer, the slot is given back.     *)
Answer(a, record) ==
    /\ job' = [job EXCEPT ![a] = record]
    /\ active' = active - 1
    /\ UNCHANGED <<now, escrow, signer, tab>>

Continue(a, record) ==
    /\ job' = [job EXCEPT ![a] = record]
    /\ UNCHANGED <<now, escrow, signer, active, tab>>

(* Faulty: only an answer that was worked out gives the slot back.         *)
FailKeepsSlot(a) ==
    /\ job[a].stage \in Working
    /\ Continue(a, [job[a] EXCEPT !.stage = "fail"])

(* A body that does not come, an RPC or a signer that fails or answers     *)
(* nonsense, a signature the wallet's contract does not confirm: each has  *)
(* its timeout or its check, and ends the request.                         *)
Fail(a) ==
    /\ job[a].stage \in Working
    /\ Answer(a, [job[a] EXCEPT !.stage = "fail"])

(* The latest block, and the demand in that very block.                    *)
Snapshot(a) ==
    LET height == Len(blocks)
    IN  /\ job[a].stage = "reading"
        /\ demand.status = "Open" /\ now < Deadline
        /\ demand.nonce < MaxNonce /\ demand.nonce + 1 = tab[a].nonce
        /\ AuthValid(a)
        /\ Continue(a, [job[a] EXCEPT
               !.stage = "inspecting",
               !.snapshot = [height |-> height, fork |-> blocks[height].fork]])

(* The endpoint answers what it likes, and something else the next time.   *)
Inspect(a, reply) ==
    /\ job[a].stage = "inspecting"
    /\ Evaluate(reply, PayTo[a], MaxUnitPrice).code = "ELIGIBLE"
    /\ Continue(a, [job[a] EXCEPT !.stage = "judging",
                                  !.observed = reply, !.observedAt = now])

(* isSnapshotCanonical: the block is still found under its number.         *)
Canonical(snapshot) ==
    /\ snapshot.height <= Len(blocks)
    /\ blocks[snapshot.height].fork = snapshot.fork

AttestationExpiry(a) ==
    IF now + MaxWindow < AuthExpiry(a) THEN now + MaxWindow ELSE AuthExpiry(a)

Vouch(a) ==
    /\ job[a].stage = "judging"
    /\ Canonical(job[a].snapshot)
    /\ AuthValid(a)
    /\ Continue(a, [job[a] EXCEPT
           !.stage = "signing",
           !.attestation = [nonce     |-> tab[a].nonce,
                            issuedAt  |-> now,
                            expiresAt |-> AttestationExpiry(a),
                            key       |-> signer]])

(* The signer looks at the times itself, the service once more afterwards. *)
Sign(a) ==
    LET att == job[a].attestation
    IN  /\ job[a].stage = "signing"
        /\ ValidTime(att.issuedAt, att.expiresAt)
        /\ AuthValid(a)
        /\ Answer(a, [job[a] EXCEPT !.stage = "pass"])

(* The service is restarted, with the same key or a new one: what it was   *)
(* working on is lost.  No key comes back once it was replaced.            *)
Restart(k) ==
    /\ k \in {signer} \cup (Key \ {FirstKey})
    /\ signer' = k
    /\ active' = 0
    /\ job' = [a \in Attempt |->
                  IF job[a].stage \in Working
                  THEN [job[a] EXCEPT !.stage = "fail"] ELSE job[a]]
    /\ UNCHANGED <<now, escrow, tab>>

-------------------------------------------------------------------------------
(* The chain and the world.                                                *)

Mined(status, nonce, by) ==
    /\ Len(blocks) < MaxBlocks
    /\ blocks' = Append(blocks, [status |-> status, nonce |-> nonce, by |-> by,
                                 at |-> now, fork |-> forks])
    /\ UNCHANGED <<now, forks, verifier, service, tab>>

(* The contract's submitService.  A transaction that a reorganisation has  *)
(* dropped is taken up again.                                              *)
Accept(a) ==
    /\ tab[a].stage \in {"handed", "submitted", "unknown"}
    /\ ~Included(a) /\ Acceptable(a)
    /\ Mined("Submitted", demand.nonce + 1, a)

Reopen ==
    /\ demand.status = "Submitted" /\ now < Deadline
    /\ Mined("Open", demand.nonce, NoAttempt)

Settle ==
    /\ demand.status = "Submitted"
    /\ Mined("Fulfilled", demand.nonce, demand.by)

(* The last transactions are dropped, and the chain goes on from before.   *)
Reorganize(n) ==
    /\ n < Len(blocks) /\ forks < MaxReorgs
    /\ blocks' = SubSeq(blocks, 1, n)
    /\ forks' = forks + 1
    /\ UNCHANGED <<now, verifier, service, tab>>

SetVerifier(k) ==
    /\ k # FirstKey
    /\ verifier' = k
    /\ UNCHANGED <<now, blocks, forks, service, tab>>

Tick ==
    /\ now < MaxTime
    /\ now' = now + 1
    /\ UNCHANGED <<escrow, service, tab>>

Init ==
    /\ now = 0
    /\ blocks = <<[status |-> "Open", nonce |-> 0, by |-> NoAttempt, at |-> 0,
                   fork |-> 0]>>
    /\ forks = 0
    /\ verifier = FirstKey /\ signer = FirstKey
    /\ tab = [a \in Attempt |-> [stage |-> "idle", nonce |-> 0, issuedAt |-> 0]]
    /\ job = [a \in Attempt |->
                 [stage |-> "none", snapshot |-> [height |-> 1, fork |-> 0],
                  observed |-> NoReply, observedAt |-> 0,
                  attestation |-> [nonce |-> 0, issuedAt |-> 0, expiresAt |-> 0,
                                   key |-> FirstKey]]]
    /\ active = 0

Serve(a) == Fail(a) \/ Snapshot(a) \/ (\E r \in Reply : Inspect(a, r)) \/ Vouch(a) \/ Sign(a)

Next ==
    \/ \E a \in Attempt :
          \/ Authorize(a) \/ Ask(a) \/ GiveUp(a) \/ Receive(a)
          \/ BeforeBroadcast(a) \/ ReadBack(a) \/ Reverted(a)
          \/ Serve(a) \/ Accept(a)
    \/ Reopen \/ Settle
    \/ \E n \in 1 .. MaxBlocks : Reorganize(n)
    \/ \E k \in Key : Restart(k) \/ SetVerifier(k)
    \/ Tick

Spec == Init /\ [][Next]_vars

(* Every await of the handler has its timeout.                             *)
FairSpec == Spec /\ \A a \in Attempt : WF_vars(Serve(a))

-------------------------------------------------------------------------------
(* A service stands under review only after its endpoint was seen to offer *)
(* it at a price the demand pays and to the receiver the builder named,    *)
(* between the builder's authorization and the acceptance, and for the     *)
(* very submission the authorization was for: whatever the endpoint, the   *)
(* chain and the service did meanwhile.                                    *)
Affordable(reply, payTo) ==
    \E i \in DOMAIN reply.offers :
        LET o == reply.offers[i]
        IN  /\ o.payTo = payTo
            /\ o.asset = Policy.price.asset /\ o.network = Policy.price.network
            /\ o.amount <= MaxUnitPrice

AcceptedWasObserved ==
    \A i \in DOMAIN blocks, a \in Attempt :
        blocks[i].by = a =>
            /\ Affordable(job[a].observed, PayTo[a])
            /\ tab[a].issuedAt <= job[a].observedAt
            /\ job[a].observedAt <= blocks[i].at
            /\ blocks[i].nonce = tab[a].nonce

(* The contract knows only the attestation's lifetime; the builder's own,  *)
(* shorter authorization bounds the acceptance all the same.               *)
AcceptedInTime ==
    \A i \in DOMAIN blocks, a \in Attempt :
        blocks[i].by = a /\ blocks[i].status = "Submitted" => blocks[i].at < AuthExpiry(a)

(* An attestation is good for one candidate: two acceptances in the chain  *)
(* rest on attestations for different nonces, in their order, so that none *)
(* made before a demand was reopened serves again.                         *)
Acceptances == {i \in 2 .. Len(blocks) : blocks[i - 1].status = "Open"}

UsedOnce ==
    \A i, j \in Acceptances :
        i < j => job[blocks[i].by].attestation.nonce < job[blocks[j].by].attestation.nonce

(* What the contract accepts is what the builder and the service agreed    *)
(* to: seen at the endpoint, in time, and once.                            *)
AcceptedAsAgreed == AcceptedWasObserved /\ AcceptedInTime /\ UsedOnce

(* The service never stays at its limit: whatever clients, RPC, endpoints  *)
(* and signer do, a slot becomes free again.                               *)
CapacityReturns == []<>(active < MaxInFlight)
===============================================================================
