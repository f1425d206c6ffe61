----------------------------- MODULE MarketInsights -----------------------------
(***************************************************************************)
(* What the paid answer says of the market (buildInsights of               *)
(* backend/insights.ts): a snapshot added up from the entries of the       *)
(* index, and a history added up from the events the activity store has    *)
(* kept.  Here the contract makes both, demand by demand and event by      *)
(* event; votes and payments are module AgentDemand's, and that store and  *)
(* index have what the contract emitted is ActivityIndex's and             *)
(* DemandIndex's.                                                          *)
(***************************************************************************)
EXTENDS Integers, Sequences, FiniteSets, Totals

CONSTANTS
    DemandKey,
    Supporter,
    Amount,            \* tokens that may be committed at once
    MaxDemands,        \* bound
    MaxEvents,         \* bound on the length of the history
    MaxClock,           \* bound on the clock
    Term,              \* from a creation to its deadline
    Trailing,          \* the 86400 seconds of the trailing window
    Started            \* timestamp of the start anchor

ASSUME InsightsAssumption ==
    /\ IsFiniteSet(Supporter) /\ Amount \subseteq Nat \ {0} /\ IsFiniteSet(Amount)
    /\ MaxDemands \in Nat /\ MaxEvents \in Nat /\ MaxClock \in Nat
    /\ Term \in Nat \ {0} /\ Trailing \in Nat \ {0} /\ Started \in 0 .. MaxClock

VARIABLES
    clock,             \* block.timestamp
    market,            \* the demands, by their numbers
    events,            \* the rows of the activity store, in the chain's order
    left               \* tokens that have left the escrow

insightsVars == <<clock, market, events, left>>

NeverYet == MaxClock + 1

(* A demand and, of each supporter, what is in escrow and since when.      *)
Entry ==
    [status : {"OPEN", "SUBMITTED", "FULFILLED", "CLOSED", "CANCELLED"},
     key : DemandKey, created : 0 .. MaxClock, fulfilled : 0 .. NeverYet,
     stake : [Supporter -> Nat], since : [Supporter -> 0 .. NeverYet],
     builder : BOOLEAN, nonce : Nat]

Ids == DOMAIN market

Committed(d) == Total(market[d].stake)

Event(name, d) == [name |-> name, demandId |-> d, time |-> clock]

Emit(es) ==
    /\ Len(events) + Len(es) <= MaxEvents
    /\ events' = events \o es

-------------------------------------------------------------------------------
(* The contract, as far as insights can tell.                              *)

Creation(d, k) ==
    [name |-> "DemandCreated", demandId |-> d, time |-> clock, demandKey |-> k]

Supported(d, s, amount) ==
    [name |-> "DemandSupported", demandId |-> d, time |-> clock, supporter |-> s, amount |-> amount]

OfCandidate(name, d, nonce) ==
    [name |-> name, demandId |-> d, time |-> clock, nonce |-> nonce]

InTime(d) == clock < market[d].created + Term

CreateDemand(k, s, amount) ==
    /\ Len(market) < MaxDemands
    /\ \A d \in Ids :
          market[d].key = k /\ market[d].status \in {"OPEN", "SUBMITTED"} => ~InTime(d)
    /\ market' = Append(market,
           [status |-> "OPEN", key |-> k, created |-> clock, fulfilled |-> NeverYet,
            stake |-> [x \in Supporter |-> IF x = s THEN amount ELSE 0],
            since |-> [x \in Supporter |-> IF x = s THEN clock ELSE NeverYet],
            builder |-> FALSE, nonce |-> 0])
    /\ LET d == Len(market) + 1
       IN  Emit(<<Creation(d, k), Supported(d, s, amount)>>)
    /\ UNCHANGED <<clock, left>>

SupportDemand(d, s, amount) ==
    /\ market[d].status = "OPEN" /\ InTime(d)
    /\ market' = [market EXCEPT ![d].stake[s] = @ + amount,
                                ![d].since[s] = IF @ = NeverYet THEN clock ELSE @]
    /\ Emit(<<Supported(d, s, amount)>>)
    /\ UNCHANGED <<clock, left>>

SubmitService(d) ==
    /\ market[d].status = "OPEN" /\ InTime(d)
    /\ market' = [market EXCEPT ![d].status = "SUBMITTED", ![d].builder = TRUE,
                                ![d].nonce = @ + 1]
    /\ Emit(<<OfCandidate("ServiceSubmitted", d, market[d].nonce + 1)>>)
    /\ UNCHANGED <<clock, left>>

ReopenDemand(d) ==
    /\ market[d].status = "SUBMITTED" /\ InTime(d)
    /\ market' = [market EXCEPT ![d].status = "OPEN", ![d].builder = FALSE]
    /\ Emit(<<OfCandidate("SubmissionRejected", d, market[d].nonce)>>)
    /\ UNCHANGED <<clock, left>>

(* Those who approved have paid.                                           *)
FinalizeDemand(d, approvers) ==
    /\ market[d].status = "SUBMITTED"
    /\ \E s \in approvers : market[d].stake[s] > 0
    /\ market' = [market EXCEPT ![d].status = "FULFILLED", ![d].fulfilled = clock,
                      ![d].stake = [s \in Supporter |-> IF s \in approvers THEN 0 ELSE @[s]]]
    /\ left' = left + Total(Share(market[d].stake, approvers))
    /\ Emit(<<Event("DemandFulfilled", d)>>)
    /\ UNCHANGED clock

CancelDemand(d) ==
    /\ market[d].status = "SUBMITTED" /\ ~InTime(d)
    /\ market' = [market EXCEPT ![d].status = "CANCELLED"]
    /\ Emit(<<Event("SettlementCancelled", d)>>)
    /\ UNCHANGED <<clock, left>>

RefundStake(d, s) ==
    /\ market[d].stake[s] > 0
    /\ market[d].status \in {"FULFILLED", "CANCELLED"} \/ ~InTime(d)
    /\ LET last == Committed(d) = market[d].stake[s]
               /\ market[d].status \notin {"FULFILLED", "CANCELLED"}
       IN  /\ market' = [market EXCEPT ![d].stake[s] = 0,
                                       ![d].status = IF last THEN "CLOSED" ELSE @]
           /\ Emit((IF last THEN <<Event("DemandClosed", d)>> ELSE <<>>)
                       \o <<Event("Refunded", d)>>)
    /\ left' = left + market[d].stake[s]
    /\ UNCHANGED clock

TimeGoesOn ==
    /\ clock < MaxClock
    /\ clock' = clock + 1
    /\ UNCHANGED <<market, events, left>>

InsightsInit ==
    /\ clock = Started /\ market = <<>> /\ events = <<>> /\ left = 0

InsightsNext ==
    \/ \E k \in DemandKey, s \in Supporter, a \in Amount : CreateDemand(k, s, a)
    \/ \E d \in Ids :
          \/ \E s \in Supporter, a \in Amount : SupportDemand(d, s, a)
          \/ SubmitService(d) \/ ReopenDemand(d) \/ CancelDemand(d)
          \/ \E approvers \in SUBSET Supporter : FinalizeDemand(d, approvers)
          \/ \E s \in Supporter : RefundStake(d, s)
    \/ TimeGoesOn

-------------------------------------------------------------------------------
(* insights.ts                                                             *)

(* snapshot, of all entries                                                *)
Snapshot ==
    [demandCount |-> Len(market),
     fulfilled   |-> Cardinality({d \in Ids : market[d].status = "FULFILLED"}),
     escrow      |-> Total([d \in Ids |-> Committed(d)])]

NoHistory ==
    [created |-> {}, keys |-> {}, submissions |-> {}, reopens |-> {}, fulfilled |-> {},
     pairs |-> {}, repeats |-> 0, gross |-> 0, windowGross |-> 0, newPairs |-> 0,
     duration |-> 0, invalid |-> FALSE]

To == clock

From(to) == to - Trailing

Invalid(h) == [h EXCEPT !.invalid = TRUE]

TakeCreated(h, e) ==
    IF \E c \in h.created : c[1] = e.demandId THEN Invalid(h)
    ELSE [h EXCEPT !.created = @ \cup {<<e.demandId, e.time>>},
                   !.keys = @ \cup {e.demandKey},
                   !.repeats = IF e.demandKey \in h.keys THEN @ + 1 ELSE @]

(* Faulty: every support in the window makes a pair new.                   *)
NewPairAgain(h, pair, time, to) == time > From(to)

NewPair(h, pair, time, to) == pair \notin h.pairs /\ time > From(to)

TakeSupported(h, e, to) ==
    LET pair == <<e.demandId, e.supporter>>
    IN  [h EXCEPT !.gross = @ + e.amount,
                  !.windowGross = IF e.time > From(to) THEN @ + e.amount ELSE @,
                  !.newPairs = IF NewPair(h, pair, e.time, to) THEN @ + 1 ELSE @,
                  !.pairs = @ \cup {pair}]

TakeSubmission(h, e) ==
    LET submission == <<e.demandId, e.nonce>>
    IN  IF e.name = "ServiceSubmitted"
        THEN IF submission \in h.submissions THEN Invalid(h)
             ELSE [h EXCEPT !.submissions = @ \cup {submission}]
        ELSE IF submission \in h.reopens THEN Invalid(h)
             ELSE [h EXCEPT !.reopens = @ \cup {submission}]

TakeFulfilled(h, e) ==
    IF e.demandId \notin h.fulfilled
       /\ \E c \in h.created : c[1] = e.demandId /\ c[2] <= e.time
    THEN LET c == CHOOSE x \in h.created : x[1] = e.demandId
         IN  [h EXCEPT !.fulfilled = @ \cup {e.demandId}, !.duration = @ + (e.time - c[2])]
    ELSE Invalid(h)

Take(h, e, to) ==
    CASE h.invalid                                             -> h
      [] ~h.invalid /\ e.time > to                             -> Invalid(h)
      [] ~h.invalid /\ e.time <= to ->
         CASE e.name = "DemandCreated"                             -> TakeCreated(h, e)
           [] e.name = "DemandSupported"                           -> TakeSupported(h, e, to)
           [] e.name \in {"ServiceSubmitted", "SubmissionRejected"} -> TakeSubmission(h, e)
           [] e.name = "DemandFulfilled"                           -> TakeFulfilled(h, e)
           [] e.name \in {"DemandClosed", "SettlementCancelled", "Refunded"} -> h

(* history, of a store that is complete and canonical                      *)
HistoryUpTo(es, to) ==
    LET Read[n \in 0 .. Len(es)] ==
            IF n = 0 THEN NoHistory ELSE Take(Read[n - 1], es[n], to)
    IN  Read[Len(es)]

History == HistoryUpTo(events, To)

(* trailing24h is available.                                               *)
WindowCovered == From(To) >= 0 /\ Started <= From(To)

-------------------------------------------------------------------------------
(* The two halves of the answer agree, though one is added up from the     *)
(* index and the other from the events, and the history is never withheld  *)
(* as COVERAGE_MISMATCH for something the contract may emit: demands,      *)
(* repetitions of a key, candidates, fulfilments and their durations are   *)
(* counted right, what came in is what is in escrow or has left it, and a  *)
(* pair is new in the window exactly if it supported then first.           *)
AnswerAddsUp ==
    LET h     == History
        pairs == {p \in Ids \X Supporter : market[p[1]].since[p[2]] < NeverYet}
        since(p) == market[p[1]].since[p[2]]
    IN  /\ ~h.invalid
        /\ Cardinality(h.created) = Snapshot.demandCount
        /\ h.repeats = Len(market) - Cardinality({market[d].key : d \in Ids})
        /\ h.gross = Snapshot.escrow + left
        /\ Cardinality(h.submissions) - Cardinality(h.reopens)
               = Cardinality({d \in Ids : market[d].builder})
        /\ Cardinality(h.fulfilled) = Snapshot.fulfilled
        /\ h.duration = Total([d \in {c \in Ids : market[c].status = "FULFILLED"} |->
                                   market[d].fulfilled - market[d].created])
        /\ WindowCovered => h.newPairs = Cardinality({p \in pairs : since(p) > From(To)})
===============================================================================
