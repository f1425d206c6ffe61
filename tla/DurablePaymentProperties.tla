------------------------ MODULE DurablePaymentProperties ----------------------
(***************************************************************************)
(* What must hold of durable payments, whatever the facilitator answers,   *)
(* the operator runs and the moment the process is killed.                 *)
(***************************************************************************)
EXTENDS DurablePayment

(* The steps in which a handler still has its row in its hands.            *)
Holding == Step \ {"idle", "verifying", "settled", "done"}

(* The row of handler h is there, names h and is not one that reserve      *)
(* could reuse; or it was cleaned away, and its authorization has expired. *)
Kept(h) ==
    LET row == rows[AuthOf(h)]
    IN  \/ row.id = h /\ row.key = KeyOf(h)
           /\ row.state \notin {"VERIFIED", "CANCELLED", "ABSENT"}
        \/ row.state = "ABSENT" /\ ValidBefore[AuthOf(h)] < now

(* An authorization that was handed to the facilitator stays blocked for   *)
(* as long as it could be charged (transition and cleanup of the store).   *)
HandedIsKept == \A h \in handedOver : Kept(h)

(* One Idempotency-Key pays once: of two handlers with the same key that   *)
(* both reached the facilitator, one has had its row cleaned away, which   *)
(* takes its retention and its authorization to be over.                   *)
KeyHandedOnce ==
    \A g, h \in handedOver :
        g # h /\ KeyOf(g) = KeyOf(h) /\ KeyOf(g) # NoKey =>
            \/ AuthOf(g) \notin Stored /\ ValidBefore[AuthOf(g)] < now
            \/ AuthOf(h) \notin Stored /\ ValidBefore[AuthOf(h)] < now

(* An authorization and an Idempotency-Key are each handed over once.      *)
HandedOnce == HandedIsKept /\ KeyHandedOnce

(* The store never calls a payment settled that the chain does not show,   *)
(* through a crash, the checkpoint of the hash and a later reconciliation. *)
SettledIsCharged ==
    \A a \in Auth :
        rows[a].state = "SETTLED" => rows[a].hash # NoHash /\ chain[rows[a].hash] = a

(* Content leaves only for a payment the store has as settled; a later     *)
(* restart or reconciliation does not take that back while the row is      *)
(* kept.                                                                   *)
ReleasedIsSettled ==
    \A h \in released :
        rows[AuthOf(h)].state \in {"SETTLED", "ABSENT"}

(* A row that a restart would interrupt belongs to a handler that is still *)
(* at work on it, unless the store failed it or the process is down: no    *)
(* path through the code forgets a reservation.                            *)
InFlightIsOwned ==
    up /\ ~broken =>
        \A a \in Auth :
            rows[a].state \in Interruptible =>
                \E h \in Handler :
                    rows[a].id = h /\ AuthOf(h) = a /\ pc[h] \in Holding

-------------------------------------------------------------------------------
(* A settled, failed or cancelled row never changes again, but for giving  *)
(* its key back and for its removal; nobody overtakes the other writer.    *)
TerminalHolds ==
    [][\A a \in Auth :
           rows[a].state \in Terminal =>
               \/ rows'[a].state = rows[a].state /\ rows'[a].id = rows[a].id
                  /\ rows'[a].hash = rows[a].hash
               \/ rows'[a].state = "ABSENT" /\ ValidBefore[a] < now]_vars

(* Every request ends, whatever the facilitator, the chain's RPC and the   *)
(* operator do meanwhile.                                                  *)
EveryRequestEnds == \A h \in Handler : pc[h] = "verifying" ~> pc[h] = "done"

(* A reservation or a settlement does not stay open for ever: it is        *)
(* settled, cancelled or left to the operator as UNKNOWN, unless the store *)
(* failed in the meantime.                                                 *)
NothingStaysInFlight ==
    \A a \in Auth :
        rows[a].state \in Interruptible ~> rows[a].state \notin Interruptible \/ broken

-------------------------------------------------------------------------------
(* Durable payments keep the promise of PaidOnce: the facilitator is given *)
(* an authorization once, and content is released once and only for a      *)
(* transfer that is on chain.                                              *)
Times(handlerSet) == [a \in Auth |-> Cardinality({h \in handlerSet : AuthOf(h) = a})]

Paid == INSTANCE PaidOnce WITH
            handed   <- Times(handedOver),
            charged  <- {chain[x] : x \in Hash} \ {NoAuth},
            released <- Times(released)

PaysOnce == Paid!PaidSpec

-------------------------------------------------------------------------------
(***************************************************************************)
(* The inductive invariant behind the properties of durable payments.      *)
(* RowInv is about one row and its owner, HandlerInv about one handler and *)
(* its row, so a handler's step has to be looked at for one row and one    *)
(* handler; what two of them have in common are the last two conjuncts.    *)
(***************************************************************************)

(* Steps after the hash of the answer is known and stored.                 *)
PastCheckpoint == {"unconfirmed", "polling", "reading", "confirming", "confirmed",
                   "settled", "failing", "done"}

(* Steps after official.settle was called.                                 *)
PastSettleCall == (PastCheckpoint \cup {"settling", "checkpoint"}) \ {"done"}

(* Handlers that called official.settle, or are about to.                  *)
Committed == handedOver \cup {h \in Handler : pc[h] = "inFlight"}

(* A row belongs to a handler that verified its authorization and has the  *)
(* handler's key, until a cancellation gives that back.                    *)
RowOwned(a) ==
    IF rows[a].state = "ABSENT"
    THEN rows[a].id = NoHandler /\ rows[a].hash = NoHash
    ELSE /\ rows[a].id \in Handler
         /\ AuthOf(rows[a].id) = a
         /\ pc[rows[a].id] \notin {"idle", "verifying"}
         /\ rows[a].state # "CANCELLED" => rows[a].key = KeyOf(rows[a].id)

(* Only the owner writes a hash, and only the one it observed.             *)
RowHash(a) ==
    rows[a].hash # NoHash =>
        observed[rows[a].id] = rows[a].hash /\ pc[rows[a].id] \in PastCheckpoint

RowCharged(a) ==
    rows[a].state = "SETTLED" => rows[a].hash # NoHash /\ chain[rows[a].hash] = a

(* While the store works, an open row's owner is where the row says.       *)
RowAttended(a) ==
    up /\ ~broken =>
        /\ rows[a].state = "VERIFIED" => pc[rows[a].id] = "reserved"
        /\ rows[a].state = "SETTLEMENT_IN_FLIGHT" =>
               pc[rows[a].id] \in Holding \ {"reserved"}

RowInv(a) == RowOwned(a) /\ RowHash(a) /\ RowCharged(a) /\ RowAttended(a)

(* Where a handler can be with what it knows.                              *)
PathSound(h) ==
    /\ pc[h] \in {"checkpoint", "polling", "reading", "confirming", "confirmed"} =>
           observed[h] # NoHash
    /\ pc[h] \in PastSettleCall => h \in handedOver
    /\ h \in handedOver => pc[h] \in PastSettleCall \cup {"done"}
    /\ pc[h] \in {"confirming", "confirmed"} /\ rows[AuthOf(h)].id = h =>
           rows[AuthOf(h)].hash = observed[h]
    /\ pc[h] = "confirmed" => chain[observed[h]] = AuthOf(h)
    /\ h \in released => pc[h] = "done" /\ h \in handedOver

(* The payment of handler h is settled, or was and is forgotten.           *)
Paying(h) ==
    /\ \/ rows[AuthOf(h)].id = h /\ rows[AuthOf(h)].state = "SETTLED"
       \/ rows[AuthOf(h)].state = "ABSENT" /\ ValidBefore[AuthOf(h)] < now
    /\ \E x \in Hash : chain[x] = AuthOf(h)

HandlerInv(h) ==
    /\ PathSound(h)
    /\ h \in Committed => Kept(h)
    /\ pc[h] = "settled" \/ h \in released => Paying(h)

KeysUnique ==
    \A a, b \in Stored : a # b /\ rows[a].key = rows[b].key => rows[a].key = NoKey

CommittedOnce == \A g, h \in Committed : AuthOf(g) = AuthOf(h) => g = h

PaymentInv ==
    /\ TypeOK
    /\ \A a \in Auth : RowInv(a)
    /\ \A h \in Handler : HandlerInv(h)
    /\ KeysUnique
    /\ CommittedOnce
===============================================================================
