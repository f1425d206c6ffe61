---------------------------- MODULE PaymentChallenge ---------------------------
(***************************************************************************)
(* How the validation service judges what a builder's endpoint answers to  *)
(* an unpaid request (backend/validation-evaluator.ts): the offers of the  *)
(* x402 challenge are gone through in their order, and the first is chosen *)
(* that can be compared with the demand's price, is on the policy's terms, *)
(* pays the receiver the builder has authorised and is not too dear.       *)
(***************************************************************************)
EXTENDS Integers, Sequences, FiniteSetsExt

CONSTANTS
    Policy             \* the deployment's policy for the payment network

ASSUME PolicyAssumption ==
    /\ Policy.price.asset \in DOMAIN Policy.assets
    /\ Policy.maxTimeoutSeconds \in Nat

(* The offer names the asset and network the demand's price is in.         *)
Priced(o) ==
    o.network = Policy.price.network /\ o.asset = Policy.price.asset

(* The profile takes the asset, on its own network.                        *)
Configured(o) ==
    o.network = Policy.network /\ o.asset \in DOMAIN Policy.assets

SameUnit(o) == Policy.assets[o.asset].decimals = Policy.price.decimals

Comparable(o) == o.exact /\ Priced(o) /\ Configured(o) /\ SameUnit(o)

Incomparable(o) ==
    o.exact /\ (~Priced(o) \/ (Configured(o) /\ ~SameUnit(o)))

(* normalizeOffer: what the offer leaves open is filled in from the asset's *)
(* configuration, and the outcome must be one the profile has enabled.     *)
Normal(o) ==
    LET asset  == Policy.assets[o.asset]
        method == IF o.method = "unset" THEN asset.defaultMethod ELSE o.method
        flow   == IF o.flow = "unset" THEN asset.methods[method].defaultFlow ELSE o.flow
    IN  /\ method \in DOMAIN asset.methods
        /\ flow = "authorization"
        /\ method = "eip3009" => o.domain = asset.methods[method].domain
        /\ o.timeout <= Policy.maxTimeoutSeconds

Eligible(o, payTo, maxUnitPrice) ==
    /\ Comparable(o)
    /\ Normal(o)
    /\ o.payTo = payTo
    /\ o.amount <= maxUnitPrice

(* The answer to the endpoint's challenge: the code, and the offer chosen. *)
(* An endpoint that fails may be tried again; any other answer than a      *)
(* payment challenge for the very resource asked for is a failure.         *)
Evaluate(reply, payTo, maxUnitPrice) ==
    LET offers   == reply.offers
        eligible == {i \in DOMAIN offers : Eligible(offers[i], payTo, maxUnitPrice)}
        no(code) == [code |-> code, index |-> 0]
    IN  IF reply.status = "5xx" THEN no("ENDPOINT_UNAVAILABLE")
        ELSE IF reply.status = "other" \/ offers = <<>> THEN no("INVALID_CHALLENGE")
        ELSE IF ~reply.sameResource THEN no("INVALID_RESOURCE")
        ELSE IF eligible # {} THEN [code |-> "ELIGIBLE", index |-> Min(eligible)]
        ELSE no(IF /\ \E i \in DOMAIN offers : Incomparable(offers[i])
                   /\ \A i \in DOMAIN offers : ~Comparable(offers[i])
                THEN "UNSUPPORTED_PRICE_COMPARISON"
                ELSE "NO_ELIGIBLE_OFFER")
===============================================================================
