------------------------------ MODULE ServicesPage -----------------------------
(***************************************************************************)
(* The fulfilled demands as services: what the API answers when it is      *)
(* asked for them (GET /v1/services of server.ts), and the browser's page  *)
(* that fetches them (frontend/Services.tsx).  A visitor goes from the     *)
(* list to a service and on to the next one while answers are on their     *)
(* way, and demands are fulfilled meanwhile.                               *)
(*                                                                         *)
(* What is observed of a service is module DiscoveryScheduler's.  Leaving  *)
(* the page altogether aborts its fetch like any other step.               *)
(***************************************************************************)
EXTENDS Integers, FiniteSets, Sequences, SequencesExt, FiniteSetsExt, Totals

CONSTANTS
    Candidate,         \* numbers of the demands in the API's index
    OfferNetwork, OfferAsset, OfferAmount,
    AnyValue,          \* a filter that is not given
    ServiceRow,        \* what may be known of a demand
    ServicesShown,     \* services in one answer, 50
    MaxFetches         \* bound on the fetches under way

ASSUME ServicesAssumption ==
    /\ Candidate \subseteq Nat \ {0} /\ IsFiniteSet(Candidate)
    /\ OfferAmount \subseteq Nat /\ AnyValue \notin OfferNetwork \cup OfferAsset
    /\ ServicesShown \in Nat \ {0} /\ MaxFetches \in Nat

VARIABLES
    catalogue,         \* of each demand: fulfilled, named like a search, observation, offers
    sameDeployment,    \* the API serves the deployment that the page was built for
    route,             \* the route of the page
    loaded,            \* the answer it has and the route that is of
    fetches            \* the fetches under way, aborted ones too

servicesVars == <<catalogue, sameDeployment, route, loaded, fetches>>

Offer == [network : OfferNetwork, asset : OfferAsset, amount : OfferAmount]

DiscoveryStates ==
    {"pending", "metadata_invalid", "compatible", "incompatible", "unavailable", "stale"}

(* The filters that are not refused: a highest price says of what.         *)
AnyPrice == 0 - 1

ServiceFilter ==
    {f \in [word : BOOLEAN, state : DiscoveryStates \cup {"any"},
            network : OfferNetwork \cup {AnyValue}, asset : OfferAsset \cup {AnyValue},
            maxPrice : OfferAmount \cup {AnyPrice}] :
        f.maxPrice # AnyPrice => AnyValue \notin {f.network, f.asset}}

(* What the index has of a demand, and what the observer found.            *)
ASSUME RowAssumption ==
    ServiceRow \subseteq [fulfilled : BOOLEAN, named : BOOLEAN, state : DiscoveryStates,
                          offers : SUBSET Offer]

Everything ==
    [word |-> FALSE, state |-> "any", network |-> AnyValue, asset |-> AnyValue,
     maxPrice |-> AnyPrice]

-------------------------------------------------------------------------------
(* The API.                                                                *)

FulfilledDemands == {d \in Candidate : catalogue[d].fulfilled}

AsksForPayment(f) ==
    f.network # AnyValue \/ f.asset # AnyValue \/ f.maxPrice # AnyPrice

Meets(o, f) ==
    /\ f.network \in {AnyValue, o.network}
    /\ f.asset \in {AnyValue, o.asset}
    /\ f.maxPrice # AnyPrice => o.amount <= f.maxPrice

ServiceMatches(d, f) ==
    /\ f.word => catalogue[d].named
    /\ f.state \in {"any", catalogue[d].state}
    /\ AsksForPayment(f) => /\ catalogue[d].state = "compatible"
                            /\ \E o \in catalogue[d].offers : Meets(o, f)

NewestFirst(ds) == InOrder(ds, {p \in ds \X ds : p[1] > p[2]})

AtMostShown(list) == SubSeq(list, 1, Min({Len(list), ServicesShown}))

(* Faulty: cuts the list off before it is filtered.                        *)
ServiceListOfNewest(f) ==
    SelectSeq(AtMostShown(NewestFirst(FulfilledDemands)), LAMBDA d : ServiceMatches(d, f))

ServiceList(f) == AtMostShown(NewestFirst({d \in FulfilledDemands : ServiceMatches(d, f)}))

-------------------------------------------------------------------------------
(* The page.                                                               *)

ListRoute    == 0
InvalidRoute == 0 - 1
Route        == Candidate \cup {ListRoute, InvalidRoute}

FetchId == 1 .. MaxFetches

Answer(result, ds) == [result |-> result, services |-> ds]
Loading == Answer("loading", {})
Failed  == Answer("error", {})

NoFetch == [stage |-> "none", key |-> InvalidRoute, aborted |-> FALSE, answer |-> Loading]

(* The whole answer is refused when it is of another deployment; that      *)
(* nothing was found is not looked at so closely.                          *)
ResponseTo(key) ==
    CASE ~sameDeployment /\ key = ListRoute -> {Failed}
      [] ~sameDeployment /\ key # ListRoute -> {Failed, Answer("notfound", {})}
      [] sameDeployment /\ key = ListRoute  -> {Answer("ready", ToSet(ServiceList(Everything)))}
      [] sameDeployment /\ key \in FulfilledDemands              -> {Answer("ready", {key})}
      [] sameDeployment /\ key \in Candidate \ FulfilledDemands  -> {Answer("notfound", {})}

(* The route of the page changes: the fetch of the last one is aborted,    *)
(* and unless the new one is invalid, its own begins.                      *)
GoTo(key) ==
    /\ key # route
    /\ \E v \in FetchId :
          /\ fetches[v].stage = "none"
          /\ route' = key
          /\ fetches' =
                [w \in FetchId |->
                    IF w = v /\ key # InvalidRoute
                    THEN [stage |-> "asked", key |-> key, aborted |-> FALSE, answer |-> Loading]
                    ELSE [fetches[w] EXCEPT !.aborted = fetches[w].stage # "none"]]
    /\ loaded' = IF key = InvalidRoute THEN loaded ELSE [key |-> key, answer |-> Loading]
    /\ UNCHANGED <<catalogue, sameDeployment>>

(* The API answers, or cannot be reached or is busy.                       *)
Respond(v) ==
    /\ fetches[v].stage = "asked"
    /\ \E a \in ResponseTo(fetches[v].key) \cup {Failed} :
          fetches' = [fetches EXCEPT ![v].stage = "answered", ![v].answer = a]
    /\ UNCHANGED <<catalogue, sameDeployment, route, loaded>>

Ends(v) ==
    /\ fetches[v].stage # "none"
    /\ fetches[v].stage = "answered" \/ fetches[v].aborted
    /\ fetches' = [fetches EXCEPT ![v] = NoFetch]
    /\ UNCHANGED <<catalogue, sameDeployment, route>>

(* Faulty: an answer is taken although the page has moved on.              *)
AnswerArrivesLate(v) ==
    /\ Ends(v)
    /\ loaded' = [key |-> fetches[v].key, answer |-> fetches[v].answer]

(* An answer arrives; what became of an aborted fetch is not looked at.    *)
AnswerArrives(v) ==
    /\ Ends(v)
    /\ loaded' = IF fetches[v].aborted THEN loaded
                 ELSE [key |-> fetches[v].key, answer |-> fetches[v].answer]

(* The index takes up that a demand is fulfilled.                          *)
BecomesFulfilled(d) ==
    /\ ~catalogue[d].fulfilled
    /\ catalogue' = [catalogue EXCEPT ![d].fulfilled = TRUE]
    /\ UNCHANGED <<sameDeployment, route, loaded, fetches>>

ServicesInit ==
    /\ catalogue \in [Candidate -> ServiceRow]
    /\ sameDeployment \in BOOLEAN
    /\ route = InvalidRoute /\ loaded = [key |-> InvalidRoute, answer |-> Loading]
    /\ fetches = [v \in FetchId |-> NoFetch]

ServicesNext ==
    \/ \E key \in Route : GoTo(key)
    \/ \E v \in FetchId : Respond(v) \/ AnswerArrives(v)
    \/ \E d \in Candidate : BecomesFulfilled(d)

(* What the page makes of it, and of a search in the list it has.          *)
PageAnswer == IF loaded.key = route THEN loaded.answer ELSE Loading

Found(word) == {d \in PageAnswer.services : word => catalogue[d].named}

PageShows(word) ==
    CASE route = InvalidRoute                                          -> "invalid"
      [] route # InvalidRoute /\ PageAnswer.result # "ready"           -> PageAnswer.result
      [] route \in Candidate /\ PageAnswer.result = "ready"            -> "service"
      [] route = ListRoute /\ PageAnswer.result = "ready" ->
            IF PageAnswer.services = {} THEN "no services"
            ELSE IF Found(word) = {} THEN "no match" ELSE "list"

-------------------------------------------------------------------------------
(* An answer of the API has the newest demands that match, and one offer   *)
(* of each meets the whole filter now: each service is found by the price  *)
(* of any offer it has, a filter that asks for more finds nothing that     *)
(* one that asks for less would not, and only newer ones push one out.     *)
FiltersAgree ==
    \A f \in ServiceFilter :
        LET list   == ServiceList(f)
            laxer  == {Everything} \cup {[f EXCEPT !.maxPrice = AnyPrice]}
            exact  == {o \in Offer : /\ f = [Everything EXCEPT !.network = o.network,
                                                 !.asset = o.asset, !.maxPrice = o.amount]}
        IN  /\ \A i, j \in DOMAIN list : i < j => list[i] > list[j]
            /\ \A g \in laxer :
                  \A d \in ToSet(list) \ ToSet(ServiceList(g)) :
                      /\ Len(ServiceList(g)) = ServicesShown
                      /\ \A e \in ToSet(ServiceList(g)) : e > d
            /\ \A o \in exact, d \in FulfilledDemands :
                  (catalogue[d].state = "compatible" /\ o \in catalogue[d].offers) =>
                      \/ d \in ToSet(list)
                      \/ Len(list) = ServicesShown /\ \A e \in ToSet(list) : e > d
            /\ \A o \in exact, d \in ToSet(list) :
                  /\ catalogue[d].state = "compatible"
                  /\ \E p \in catalogue[d].offers :
                        p.network = o.network /\ p.asset = o.asset /\ p.amount <= o.amount

(* Whatever answers overtook one another: a service that the page shows is *)
(* the one of its route and fulfilled, of the page's own deployment; and   *)
(* it says that it is loading only while its answer is still to come.      *)
PageIsOfRoute ==
    \A word \in BOOLEAN :
        /\ PageShows(word) = "service" =>
               /\ PageAnswer.services = {route}
               /\ sameDeployment /\ route \in FulfilledDemands
        /\ PageShows(word) \in {"list", "no match"} =>
               sameDeployment /\ PageAnswer.services \subseteq FulfilledDemands
        /\ PageShows(word) = "loading" =>
               \E v \in FetchId : /\ fetches[v].stage # "none" /\ ~fetches[v].aborted
                                  /\ fetches[v].key = route
        /\ PageShows(word) = "notfound" => route # ListRoute
===============================================================================
