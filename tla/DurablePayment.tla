----------------------------- MODULE DurablePayment ---------------------------
(***************************************************************************)
(* Durable x402 payments: the SQLite store (backend/payment-store.ts), the *)
(* facilitator wrapper of one API process (backend/durable-payment.ts),    *)
(* its start (backend/server.ts) and the operator's commands               *)
(* (backend/payment-ops.ts).                                               *)
(*                                                                         *)
(* A handler is one HTTP request with a payment.  Its steps are the pieces *)
(* between two awaits, cut again after every write to the store: that is   *)
(* where the process can be killed with the write done and the rest not.   *)
(* The operator's process shares the file and writes between any two of    *)
(* these steps.  Every use of the store may fail (the file is checked      *)
(* first, SQLite may be busy); StoreFails says what the code does then.    *)
(*                                                                         *)
(* A row stands under its authorization, as the payment column is UNIQUE;  *)
(* terms, binding and error texts are left out, as no later branch tells   *)
(* them apart.  The facilitator may answer anything; it is trusted only to *)
(* submit an authorization after settle was called for it.                 *)
(***************************************************************************)
EXTENDS Integers, FiniteSets

CONSTANTS
    Handler,           \* HTTP requests; the id of a handler is its row's UUID
    Auth,              \* authorizations: network, token, payer and nonce
    LogicalKey,        \* hashed Idempotency-Keys, scoped to payer and network
    Hash,              \* transaction hashes
    NoHandler, NoKey, NoHash, NoAuth,
    ValidBefore,       \* when each authorization expires
    Retention,         \* paymentRetentionDays
    MaxRecords,        \* paymentMaxRecords
    MaxTime,           \* bound on the clock
    MaxRestarts        \* bound on the crashes

Time == 0 .. MaxTime

ASSUME PaymentAssumption ==
    /\ NoHandler \notin Handler
    /\ NoKey \notin LogicalKey
    /\ NoHash \notin Hash
    /\ NoAuth \notin Auth
    /\ ValidBefore \in [Auth -> Nat]
    /\ Retention \in Nat
    /\ MaxRecords \in Nat
    /\ MaxTime \in Nat /\ MaxRestarts \in Nat

Request == [auth: Auth, key: LogicalKey \cup {NoKey}]

VARIABLES
    now,               \* the wall clock of Date.now and of the chain
    up,                \* is the API process running?
    restarts,
    rows,              \* table payments
    request,           \* what each handler was sent
    pc,                \* where each handler is
    observed,          \* observedHash
    broken,            \* did the store fail since the API started?
    todo,              \* rows the operator's reconcile has yet to check
    handedOver,        \* handlers that called official.settle
    released,          \* handlers whose content went out
    chain              \* the authorization each transaction used

process  == <<up, restarts, broken>>
handlers == <<request, pc, observed>>
world    == <<handedOver, released, chain>>
vars     == <<now, process, rows, handlers, todo, world>>

Interruptible == {"VERIFIED", "SETTLEMENT_IN_FLIGHT"}
Terminal      == {"SETTLED", "FAILED", "CANCELLED"}
State         == Interruptible \cup Terminal \cup {"UNKNOWN", "ABSENT"}

Row ==
    [id: Handler \cup {NoHandler}, key: LogicalKey \cup {NoKey},
     state: State, hash: Hash \cup {NoHash}, updated: Nat]

NoRow == [id |-> NoHandler, key |-> NoKey, state |-> "ABSENT",
          hash |-> NoHash, updated |-> 0]

Step == {"idle", "verifying", "reserved", "inFlight", "settling", "checkpoint",
         "unconfirmed", "polling", "reading", "confirming", "confirmed",
         "settled", "failing", "done"}

TypeOK ==
    /\ now \in Time
    /\ up \in BOOLEAN /\ broken \in BOOLEAN
    /\ restarts \in 0 .. MaxRestarts
    /\ rows \in [Auth -> Row]
    /\ request \in [Handler -> Request]
    /\ pc \in [Handler -> Step]
    /\ observed \in [Handler -> Hash \cup {NoHash}]
    /\ todo \subseteq Auth
    /\ handedOver \subseteq Handler /\ released \subseteq Handler
    /\ chain \in [Hash -> Auth \cup {NoAuth}]

-------------------------------------------------------------------------------
(* The store.                                                              *)

AuthOf(h) == request[h].auth
KeyOf(h)  == request[h].key

Stored == {a \in Auth : rows[a].state # "ABSENT"}

(* Faulty: an ambiguous payment gives its key back, too.                   *)
KeyReclaimedAmbiguous(key) ==
    [a \in Auth |->
        IF key # NoKey /\ rows[a].key = key /\ rows[a].state \in {"CANCELLED", "UNKNOWN"}
           /\ rows[a].hash = NoHash
        THEN [rows[a] EXCEPT !.key = NoKey] ELSE rows[a]]

(* The rows after a confirmed cancellation gave key back.                  *)
KeyReclaimed(key) ==
    [a \in Auth |->
        IF key # NoKey /\ rows[a].key = key /\ rows[a].state = "CANCELLED"
           /\ rows[a].hash = NoHash
        THEN [rows[a] EXCEPT !.key = NoKey] ELSE rows[a]]

(* Faulty: an interrupted payment may be reserved again.                   *)
ReservableAgain(h) ==
    /\ rows[AuthOf(h)].state \in {"ABSENT", "UNKNOWN"}
    /\ \A a \in Stored \ {AuthOf(h)} :
           KeyOf(h) # NoKey => KeyReclaimed(KeyOf(h))[a].key # KeyOf(h)
    /\ Cardinality(Stored) < MaxRecords

(* reserve finds no row of this authorization or of this logical key, and  *)
(* has room.                                                               *)
Reservable(h) ==
    /\ AuthOf(h) \notin Stored
    /\ \A a \in Stored : KeyOf(h) # NoKey => KeyReclaimed(KeyOf(h))[a].key # KeyOf(h)
    /\ Cardinality(Stored) < MaxRecords

Reserve(h) ==
    rows' = [KeyReclaimed(KeyOf(h)) EXCEPT ![AuthOf(h)] =
                [id |-> h, key |-> KeyOf(h), state |-> "VERIFIED",
                 hash |-> NoHash, updated |-> now]]

(* Faulty: the state the caller expects is not part of the WHERE clause.   *)
CanMoveFromAny(a, id, from, hash) ==
    /\ rows[a].id = id
    /\ hash = NoHash \/ rows[a].hash \in {NoHash, hash}

(* The WHERE clause of transition: the row is still there, in the state    *)
(* the caller believes it in, and its hash may only be filled in.          *)
CanMove(a, id, from, hash) ==
    /\ rows[a].id = id
    /\ rows[a].state = from
    /\ hash = NoHash \/ rows[a].hash \in {NoHash, hash}

(* Faulty: no COALESCE; a transition without a hash forgets the hash.      *)
MovedWithout(a, to, hash) ==
    [rows EXCEPT ![a] =
        [rows[a] EXCEPT !.state = to, !.updated = now, !.hash = hash]]

Moved(a, to, hash) ==
    [rows EXCEPT ![a] =
        [rows[a] EXCEPT !.state = to, !.updated = now,
                        !.hash = IF hash = NoHash THEN rows[a].hash ELSE hash]]

Interrupted ==
    [a \in Auth |->
        IF rows[a].state \in Interruptible
        THEN [rows[a] EXCEPT !.state = "UNKNOWN", !.updated = now] ELSE rows[a]]

(* Terminal rows whose retention and whose authorization are over.         *)
Outdated(a, table) ==
    /\ table[a].state \in Terminal
    /\ table[a].updated + Retention < now
    /\ ValidBefore[a] < now

Cleaned(table) == [a \in Auth |-> IF Outdated(a, table) THEN NoRow ELSE table[a]]

-------------------------------------------------------------------------------
(* The handlers.                                                           *)

Goto(h, step) == pc' = [pc EXCEPT ![h] = step]

At(h, step) == up /\ pc[h] = step

(* What a step that only moves on and writes rows leaves alone.            *)
Unmoved == UNCHANGED <<now, process, request, observed, todo, world>>

Arrive(h) ==
    /\ At(h, "idle")
    /\ Goto(h, "verifying")
    /\ Unmoved /\ UNCHANGED rows

(* official.verify says no, or reserve throws: nothing was written.        *)
Refuse(h) ==
    /\ At(h, "verifying")
    /\ Goto(h, "done")
    /\ Unmoved /\ UNCHANGED rows

(* official.verify says yes, and the identity is unexpired and new.        *)
Verified(h) ==
    /\ At(h, "verifying")
    /\ now < ValidBefore[AuthOf(h)]
    /\ Reservable(h)
    /\ Reserve(h)
    /\ Goto(h, "reserved")
    /\ Unmoved

(* The response was not produced, or settle could not start: the wrapper's *)
(* finally cancels what is still VERIFIED.                                 *)
Abandon(h) ==
    /\ At(h, "reserved")
    /\ rows' = IF CanMove(AuthOf(h), h, "VERIFIED", NoHash)
               THEN Moved(AuthOf(h), "CANCELLED", NoHash) ELSE rows
    /\ Goto(h, "done")
    /\ Unmoved

BeginSettle(h) ==
    /\ At(h, "reserved")
    /\ now < ValidBefore[AuthOf(h)]
    /\ CanMove(AuthOf(h), h, "VERIFIED", NoHash)
    /\ rows' = Moved(AuthOf(h), "SETTLEMENT_IN_FLIGHT", NoHash)
    /\ Goto(h, "inFlight")
    /\ Unmoved

CallSettle(h) ==
    /\ At(h, "inFlight")
    /\ handedOver' = handedOver \cup {h}
    /\ Goto(h, "settling")
    /\ UNCHANGED <<now, process, rows, request, observed, todo,
                   released, chain>>

(* The facilitator answers, with a hash or without.                        *)
SettleAnswers(h, hash) ==
    /\ At(h, "settling")
    /\ observed' = [observed EXCEPT ![h] = hash]
    /\ Goto(h, IF hash # NoHash THEN "checkpoint" ELSE "unconfirmed")
    /\ UNCHANGED <<now, process, rows, request, todo, world>>

(* The call is lost or times out; the facilitator may settle all the same. *)
SettleLost(h) ==
    /\ At(h, "settling")
    /\ Goto(h, "failing")
    /\ Unmoved /\ UNCHANGED rows

(* The hash is stored before anything else.  Then the rest of the answer   *)
(* is looked at: a success is confirmed, a pending settlement polled, and  *)
(* any other answer left unconfirmed.                                      *)
Checkpoint(h) ==
    LET a == AuthOf(h)
    IN  /\ At(h, "checkpoint")
        /\ \/ /\ CanMove(a, h, "SETTLEMENT_IN_FLIGHT", observed[h])
              /\ rows' = Moved(a, "SETTLEMENT_IN_FLIGHT", observed[h])
              /\ \E next \in {"reading", "polling", "unconfirmed"} : Goto(h, next)
           \/ /\ ~CanMove(a, h, "SETTLEMENT_IN_FLIGHT", observed[h])
              /\ Goto(h, "failing")
              /\ UNCHANGED rows
        /\ Unmoved

(* pollSettleStatus finds out, or gives up when its budget is spent.       *)
Poll(h) ==
    /\ At(h, "polling")
    /\ Goto(h, "reading") \/ Goto(h, "unconfirmed")
    /\ Unmoved /\ UNCHANGED rows

Unconfirmed(h) ==
    LET moves == CanMove(AuthOf(h), h, "SETTLEMENT_IN_FLIGHT", NoHash)
    IN  /\ At(h, "unconfirmed")
        /\ rows' = IF moves THEN Moved(AuthOf(h), "UNKNOWN", NoHash) ELSE rows
        /\ Goto(h, IF moves THEN "done" ELSE "failing")
        /\ Unmoved

(* The row is read again: its hash is what confirmPayment will look for.   *)
Read(h) ==
    LET row == rows[AuthOf(h)]
    IN  /\ At(h, "reading")
        /\ Goto(h, IF row.id = h /\ row.hash = observed[h]
                   THEN "confirming" ELSE "failing")
        /\ Unmoved /\ UNCHANGED rows

(* confirmPayment proves the transfer from the chain, or refutes it, or    *)
(* the RPC stays unavailable for the whole budget.                         *)
Confirm(h) ==
    /\ At(h, "confirming")
    /\ \/ chain[observed[h]] = AuthOf(h) /\ Goto(h, "confirmed")
       \/ Goto(h, "unconfirmed")
       \/ Goto(h, "failing")
    /\ Unmoved /\ UNCHANGED rows

Settle(h) ==
    LET moves == CanMove(AuthOf(h), h, "SETTLEMENT_IN_FLIGHT", NoHash)
    IN  /\ At(h, "confirmed")
        /\ rows' = IF moves THEN Moved(AuthOf(h), "SETTLED", NoHash) ELSE rows
        /\ Goto(h, IF moves THEN "settled" ELSE "failing")
        /\ Unmoved

(* settle returned: the middleware flushes the buffered response.          *)
Release(h) ==
    /\ At(h, "settled")
    /\ released' = released \cup {h}
    /\ Goto(h, "done")
    /\ UNCHANGED <<now, process, rows, request, observed, todo,
                   handedOver, chain>>

(* The catch of settle: what is still in flight becomes UNKNOWN, with the  *)
(* hash if one was seen; content stays withheld.                           *)
Fail(h) ==
    /\ At(h, "failing")
    /\ rows' = IF CanMove(AuthOf(h), h, "SETTLEMENT_IN_FLIGHT", observed[h])
               THEN Moved(AuthOf(h), "UNKNOWN", observed[h]) ELSE rows
    /\ Goto(h, "done")
    /\ Unmoved

(* The store throws where a handler uses it: settle's catch takes over,    *)
(* and neither that catch nor the wrapper's finally tries again.           *)
StoreFails(h) ==
    /\ broken' = TRUE
    /\ \/ /\ \E step \in {"checkpoint", "unconfirmed", "reading", "confirmed"} : At(h, step)
          /\ Goto(h, "failing")
       \/ /\ \E step \in {"reserved", "failing"} : At(h, step)
          /\ Goto(h, "done")
    /\ UNCHANGED <<now, up, restarts, rows, request, observed, todo, world>>

-------------------------------------------------------------------------------
(* The process, the operator and the world.                                *)

(* The process is killed, with all of its handlers.                        *)
Crash ==
    /\ up
    /\ restarts < MaxRestarts
    /\ up' = FALSE
    /\ restarts' = restarts + 1
    /\ pc' = [h \in Handler |-> IF pc[h] = "idle" THEN "idle" ELSE "done"]
    /\ UNCHANGED <<now, broken, rows, request, observed, todo, world>>

(* initializePaymentStorage, before the first request is served.           *)
Restart ==
    /\ ~up
    /\ up' = TRUE
    /\ broken' = FALSE
    /\ rows' = Cleaned(Interrupted)
    /\ UNCHANGED <<now, restarts, handlers, todo, world>>

Operator == UNCHANGED <<now, process, handlers, world>>

Cleanup ==
    /\ rows' = Cleaned(rows)
    /\ Operator /\ UNCHANGED todo

(* "reconcile" first interrupts whatever is in flight.  The operator was   *)
(* told to stop the API; nothing enforces it.                              *)
Reconcile ==
    /\ rows' = Interrupted
    /\ todo' = {a \in Auth : Interrupted[a].state = "UNKNOWN"
                             /\ Interrupted[a].hash # NoHash}
    /\ Operator

(* One row of the snapshot: the facilitator's status and the proof from    *)
(* the chain, then a transition of the row, if it is still UNKNOWN.        *)
ReconcileRow(a) ==
    /\ a \in todo
    /\ todo' = todo \ {a}
    /\ rows' \in IF rows[a].state = "UNKNOWN"
                 THEN {Moved(a, "UNKNOWN", NoHash), Moved(a, "FAILED", NoHash)}
                      \cup IF rows[a].hash # NoHash /\ chain[rows[a].hash] = a
                           THEN {Moved(a, "SETTLED", NoHash)} ELSE {}
                 ELSE {rows}
    /\ Operator

(* The pass ends early: its limit, its deadline, or the operator.          *)
ReconcileEnds ==
    /\ todo # {}
    /\ todo' = {}
    /\ UNCHANGED rows
    /\ Operator

(* A transfer is included: only of an authorization the facilitator was    *)
(* given, while it is valid, and once, as the token consumes its nonce.    *)
Include(a, x) ==
    /\ \E h \in handedOver : AuthOf(h) = a
    /\ now < ValidBefore[a]
    /\ \A y \in Hash : chain[y] # a
    /\ chain[x] = NoAuth
    /\ chain' = [chain EXCEPT ![x] = a]
    /\ UNCHANGED <<now, process, rows, handlers, todo, handedOver, released>>

Tick ==
    /\ now < MaxTime
    /\ now' = now + 1
    /\ UNCHANGED <<process, rows, handlers, todo, world>>

Init ==
    /\ now = 0
    /\ up = TRUE /\ restarts = 0 /\ broken = FALSE
    /\ rows = [a \in Auth |-> NoRow]
    /\ request \in [Handler -> Request]
    /\ pc = [h \in Handler |-> "idle"]
    /\ observed = [h \in Handler |-> NoHash]
    /\ todo = {}
    /\ handedOver = {} /\ released = {}
    /\ chain = [x \in Hash |-> NoAuth]

(* Progress of a handler that does not depend on a new request.            *)
Proceed(h) ==
    \/ Refuse(h) \/ Verified(h)
    \/ Abandon(h) \/ BeginSettle(h) \/ CallSettle(h)
    \/ \E hash \in Hash \cup {NoHash} : SettleAnswers(h, hash)
    \/ SettleLost(h)
    \/ Checkpoint(h) \/ Poll(h) \/ Unconfirmed(h) \/ Read(h)
    \/ Confirm(h) \/ Settle(h) \/ Release(h) \/ Fail(h)

Next ==
    \/ \E h \in Handler : Arrive(h) \/ Proceed(h) \/ StoreFails(h)
    \/ Crash \/ Restart
    \/ Cleanup \/ Reconcile \/ ReconcileEnds
    \/ \E a \in Auth : ReconcileRow(a)
    \/ \E a \in Auth, x \in Hash : Include(a, x)
    \/ Tick

Spec == Init /\ [][Next]_vars

(* Every await of a handler is bounded (the facilitator's and the RPC's    *)
(* timeouts, the budgets of the polls), and the container is restarted.    *)
FairSpec ==
    /\ Spec
    /\ \A h \in Handler : WF_vars(Proceed(h))
    /\ WF_vars(Restart)
===============================================================================
