----------------------------- MODULE AdmissionGate ----------------------------
(***************************************************************************)
(* The concurrency limit of the API (concurrencyGate and admittedWork in   *)
(* backend/admission.ts) on the routes of backend/server.ts.               *)
(*                                                                         *)
(* A free request runs through the gate into one piece of admitted work;   *)
(* a paid one through the payment middleware, itself admitted work, into   *)
(* the same.  The middleware of createPaymentMiddleware passes its request *)
(* on through paymentStorageGuard, which returns nothing; for admittedWork *)
(* it is over at once, while verification and settlement go on.            *)
(***************************************************************************)
EXTENDS Integers, FiniteSets

CONSTANTS
    Call,
    MaxInFlight

ASSUME GateAssumption == MaxInFlight \in Nat

VARIABLES
    access,            \* "free" or "paid"
    stage,             \* what is being done for the request
    response,          \* of its connection
    active,            \* requests in flight, as the gate counts them
    admission,         \* the WeakMap: "none", "held", or "released" and deleted
    pending,           \* admission.pending
    ended              \* admission.ended

gate == <<active, admission, pending, ended>>
gateVars == <<access, stage, response, gate>>

Stage    == {"arriving", "paying", "handling", "settling", "over"}
Response == {"open", "sent", "finished", "closed"}

GateTypeOK ==
    /\ access \in [Call -> {"free", "paid"}]
    /\ stage \in [Call -> Stage]
    /\ response \in [Call -> Response]
    /\ active \in 0 .. MaxInFlight
    /\ admission \in [Call -> {"none", "held", "released"}]
    /\ pending \in [Call -> 0 .. 1]
    /\ ended \in [Call -> BOOLEAN]

-------------------------------------------------------------------------------
(* Faulty: the work of the request may still be pending.                   *)
ReleasableAtEnd(r, left, hasEnded) == admission[r] = "held" /\ hasEnded

(* Faulty: the end is noted only after release was called.                 *)
ReleasableStale(r, left, hasEnded) == admission[r] = "held" /\ ended[r] /\ left = 0

(* The first line of release.                                              *)
Releasable(r, left, hasEnded) ==
    /\ admission[r] = "held"
    /\ hasEnded
    /\ left = 0

(* release, once request r has so much work left and has ended or not.     *)
Released(r, left, hasEnded) ==
    /\ pending' = [pending EXCEPT ![r] = left]
    /\ ended' = [ended EXCEPT ![r] = hasEnded]
    /\ IF Releasable(r, left, hasEnded)
       THEN /\ admission' = [admission EXCEPT ![r] = "released"]
            /\ active' = active - 1
       ELSE UNCHANGED <<admission, active>>

(* The response is written unless the client has gone.                     *)
Answered(r) ==
    response' = [response EXCEPT ![r] = IF @ = "open" THEN "sent" ELSE @]

GateGoto(r, next) == stage' = [stage EXCEPT ![r] = next]

FreeSlot == active < MaxInFlight

OverCapacity(r) ==
    /\ stage[r] = "arriving"
    /\ ~FreeSlot
    /\ GateGoto(r, "over")
    /\ Answered(r)
    /\ UNCHANGED <<access, gate>>

(* The gate takes the request and hands it on.  A free one is admitted     *)
(* work from here; a paid one has been that, and is no longer: its handler *)
(* has returned, with the payment still to be verified.                    *)
Admit(r) ==
    /\ stage[r] = "arriving" /\ response[r] = "open"
    /\ FreeSlot
    /\ active' = active + 1
    /\ admission' = [admission EXCEPT ![r] = "held"]
    /\ pending' = [pending EXCEPT ![r] = IF access[r] = "free" THEN 1 ELSE 0]
    /\ GateGoto(r, IF access[r] = "free" THEN "handling" ELSE "paying")
    /\ UNCHANGED <<access, response, ended>>

(* There is no valid payment, or none can be taken.                        *)
PaymentRefused(r) ==
    /\ stage[r] = "paying"
    /\ GateGoto(r, "over")
    /\ Answered(r)
    /\ UNCHANGED <<access, gate>>

(* The payment is verified and the route's own work entered, with or       *)
(* without an admission; for a client who has gone it ends at once.        *)
PaymentVerified(r) ==
    /\ stage[r] = "paying"
    /\ IF response[r] = "closed"
       THEN /\ GateGoto(r, "over")
            /\ Released(r, pending[r], ended[r])
       ELSE /\ GateGoto(r, "handling")
            /\ pending' = [pending EXCEPT ![r] = IF admission[r] = "held" THEN @ + 1 ELSE @]
            /\ UNCHANGED <<active, admission, ended>>
    /\ UNCHANGED <<access, response>>

(* The work is done: a free response goes out, a paid one waits for the    *)
(* settlement, a failure goes out without one.                             *)
Handled(r) ==
    /\ stage[r] = "handling"
    /\ \/ GateGoto(r, "over") /\ Answered(r)
       \/ access[r] = "paid" /\ GateGoto(r, "settling") /\ UNCHANGED response
    /\ Released(r, IF admission[r] = "held" THEN pending[r] - 1 ELSE pending[r], ended[r])
    /\ UNCHANGED access

Settled(r) ==
    /\ stage[r] = "settling"
    /\ GateGoto(r, "over")
    /\ Answered(r)
    /\ UNCHANGED <<access, gate>>

-------------------------------------------------------------------------------
(* The connection.  The listeners are there while the slot is held.        *)

(* "finish": the response has been handed to the system.                   *)
Finish(r) ==
    /\ response[r] = "sent"
    /\ response' = [response EXCEPT ![r] = "finished"]
    /\ IF admission[r] = "held" THEN Released(r, pending[r], TRUE) ELSE UNCHANGED gate
    /\ UNCHANGED <<access, stage>>

(* "aborted", "error" or "close": the client goes, at any moment.          *)
Close(r) ==
    /\ response[r] # "closed"
    /\ response' = [response EXCEPT ![r] = "closed"]
    /\ stage' = [stage EXCEPT ![r] = IF @ = "arriving" THEN "over" ELSE @]
    /\ IF admission[r] = "held" THEN Released(r, pending[r], TRUE) ELSE UNCHANGED gate
    /\ UNCHANGED access

GateInit ==
    /\ access \in [Call -> {"free", "paid"}]
    /\ stage = [r \in Call |-> "arriving"]
    /\ response = [r \in Call |-> "open"]
    /\ active = 0
    /\ admission = [r \in Call |-> "none"]
    /\ pending = [r \in Call |-> 0]
    /\ ended = [r \in Call |-> FALSE]

(* Everything the server does for a request, and the end of its response.  *)
GateProceed(r) ==
    \/ OverCapacity(r) \/ Admit(r)
    \/ PaymentRefused(r) \/ PaymentVerified(r)
    \/ Handled(r) \/ Settled(r) \/ Finish(r)

GateNext == \E r \in Call : GateProceed(r) \/ Close(r)

GateSpec == GateInit /\ [][GateNext]_gateVars

(* Every await of the work is bounded by a timeout, and a response that is *)
(* sent finishes or its connection closes.                                 *)
GateFairSpec == GateSpec /\ \A r \in Call : WF_gateVars(GateProceed(r))

-------------------------------------------------------------------------------
Held == {r \in Call : admission[r] = "held"}

(* The routes' own work never exceeds the limit: whatever works holds a    *)
(* slot, also after its client has gone, and the counter is the number of  *)
(* slots held, as finish, close and the end of the work, in any order,     *)
(* give each one back once.                                                *)
HandlersHoldSlots ==
    /\ GateTypeOK
    /\ active = Cardinality(Held)
    /\ \A r \in Call : stage[r] = "handling" => admission[r] = "held"

(* No slot is lost: whatever the clients do, it is given back.             *)
SlotsReturn == \A r \in Call : admission[r] = "held" ~> admission[r] = "released"

(* What the tests of the gate say of the payment middleware: a disconnect  *)
(* during verification or settlement holds the slot until that is done.    *)
PaymentsHoldSlots ==
    \A r \in Call : stage[r] \in {"paying", "settling"} => admission[r] = "held"
===============================================================================
