--------------------------------- MODULE MCApi ---------------------------------
(***************************************************************************)
(* The parts of the API process that share no state: its life, the quota,  *)
(* the probes, what is added up for the paid answer, the ranking, and what *)
(* the pages list of it.  Interleaving them would only multiply their      *)
(* states, so each behaviour is one of a single part, while the others     *)
(* stay as they begin.                                                     *)
(***************************************************************************)
EXTENDS ApiProcess, RateLimiter, DiscoveryScheduler, MarketInsights, DemandRanking,
        ServicesPage, TLC

CONSTANTS demands1, insights1, insights2, n1, n2, usdc

VARIABLE part

(* One address on two routes with different quotas, and one more address.  *)
MCLimit == [c \in Client |-> IF c = demands1 THEN 2 ELSE 1]

(* Among the demands there may be some with two supporters or none, some   *)
(* whose deadline has passed, sooner or later, and some no longer open.    *)
MCFactors ==
    [committed : 0 .. 2, calls : {0, 1}, supporters : {1}, deadline : {5, 7}, status : {"OPEN"}]
        \cup {[committed |-> 1, calls |-> 1, supporters |-> 0, deadline |-> 1, status |-> "EXPIRED"],
              [committed |-> 1, calls |-> 1, supporters |-> 2, deadline |-> 2, status |-> "SUBMITTED"]}

(* A service that nothing is observed of, and ones that are dear on one    *)
(* network and cheap on the other, or no longer what they were.            *)
MCRow ==
    LET on(n, a) == [network |-> n, asset |-> usdc, amount |-> a]
        row(s, o) == [fulfilled |-> FALSE, named |-> s # "pending", state |-> s, offers |-> o]
    IN  {row("pending", {}), row("compatible", {on(n1, 1)}), row("compatible", {on(n1, 2)}),
         row("compatible", {on(n1, 2), on(n2, 1)}), row("stale", {on(n1, 1)}),
         row("unavailable", {on(n2, 1)})}

MCCatalogue == [d \in Candidate |-> CHOOSE r \in MCRow : r.state = "pending"]

apiVars == <<processVars, limiterVars, vars, insightsVars, rankingVars, listingVars, servicesVars, part>>

(* Bound: a query limits the demands in one respect.                       *)
AsksOnly(f) ==
    /\ f # "minBounty" => query.minBounty = 0
    /\ f # "minSupporters" => query.minSupporters = 0
    /\ f # "status" => query.status = "any"

(* Of the visits one is a monitor that asks for nothing but /ready.  A part *)
(* that is not at work begins in one of its initial states.                *)
MCInit ==
    /\ part \in {"process", "limiter", "scheduler", "insights", "ranking", "listing",
                 "services", "page"}
    /\ ProcessInit /\ what[1] = "ready"
    /\ part # "process" => /\ ~lazy /\ ~configured
                           /\ \A v \in Visit : what[v] = "ready"
    /\ LimiterInit /\ Init /\ InsightsInit
    /\ IF part = "ranking"
       THEN RankingInit /\ \E f \in DOMAIN query : AsksOnly(f)
       ELSE /\ entries = [d \in DemandId |-> CHOOSE f \in Factors : TRUE]
            /\ query = [minBounty |-> 0, minSupporters |-> 0, status |-> "any"]
            /\ scored = <<>>
    /\ IF part = "listing" THEN ListingInit
       ELSE /\ rows = [d \in Listed |-> [committed |-> 0, named |-> FALSE, status |-> "OPEN"]]
            /\ filter = [search |-> [word |-> FALSE, number |-> 0], status |-> "ALL",
                         sort |-> "latest-id"]
            /\ shown = <<>> /\ analytics = <<>>
    /\ IF part \in {"services", "page"} THEN ServicesInit
       ELSE /\ catalogue = MCCatalogue /\ sameDeployment = TRUE
            /\ route = InvalidRoute /\ loaded = [key |-> InvalidRoute, answer |-> Loading]
            /\ fetches = [v \in FetchId |-> NoFetch]
    /\ part = "services" => sameDeployment
    /\ part = "page" => catalogue = MCCatalogue

Process ==
    /\ part = "process"
    /\ ProcessNext
    /\ UNCHANGED <<limiterVars, vars, insightsVars, rankingVars, listingVars, servicesVars, part>>

Limiter ==
    /\ part = "limiter"
    /\ LimiterNext
    /\ UNCHANGED <<processVars, vars, insightsVars, rankingVars, listingVars, servicesVars, part>>

(* Bound: the index says something else only of the first service.         *)
Scheduler(act) ==
    /\ part = "scheduler"
    /\ act
    /\ \A s \in Service \ {1} : entry'[s] = entry[s]
    /\ UNCHANGED <<processVars, limiterVars, insightsVars, rankingVars, listingVars, servicesVars, part>>

Insights ==
    /\ part = "insights"
    /\ InsightsNext
    /\ UNCHANGED <<processVars, limiterVars, vars, rankingVars, listingVars, servicesVars, part>>

Ranking ==
    /\ part = "ranking"
    /\ Evaluate
    /\ UNCHANGED <<processVars, limiterVars, vars, insightsVars, listingVars, servicesVars, part>>

Listing ==
    /\ part = "listing"
    /\ Show
    /\ UNCHANGED <<processVars, limiterVars, vars, insightsVars, rankingVars, servicesVars, part>>

(* Any catalogue for the lists, one catalogue for the page's visits.       *)
Services ==
    /\ \/ part = "page" /\ ServicesNext
       \/ part = "services" /\ \E d \in Candidate : BecomesFulfilled(d)
    /\ UNCHANGED <<processVars, limiterVars, vars, insightsVars, rankingVars, listingVars, part>>

MCNext == Process \/ Limiter \/ Scheduler(Next) \/ Insights \/ Ranking \/ Listing \/ Services

(* The fairness of FairSpec.                                               *)
MCSpec ==
    /\ MCInit /\ [][MCNext]_apiVars
    /\ WF_vars(Scheduler(Tick)) /\ WF_vars(Scheduler(TimePasses))
    /\ \A k \in Slot : WF_vars(Scheduler(Probe(k)))

(* The paid comparison of the demands and the page's list of them are the  *)
(* ones that docs/API.md and the page itself promise: orders that depend   *)
(* on nothing but the demands, reasons that agree with the numbers, a list *)
(* that holds what matches, counts that add up, filters that one offer     *)
(* meets as a whole, and a page that shows what its route names.           *)
ListsAreSound ==
    /\ part = "ranking" => RankingSound
    /\ part = "listing" => ListIsWhole /\ AnalyticsAddUp
    /\ part = "services" => FiltersAgree
    /\ part = "page" => PageIsOfRoute
===============================================================================
