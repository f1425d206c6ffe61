----------------------------- MODULE DemandRanking ------------------------------
(***************************************************************************)
(* How demands are compared: by the API (backend/server.ts), which of them *)
(* match a query, the score of each among those, its rank, and the reasons *)
(* that are given for it; and by the page, in its list and its analytics.  *)
(* What there is to compare, and what is asked, are any at the start, and  *)
(* are then evaluated.  The effective status is a factor like the others   *)
(* here; how it comes about is DemandPage's EffectiveStatus, line for      *)
(* line.                                                                   *)
(***************************************************************************)
EXTENDS Integers, Sequences, FiniteSets, SequencesExt, Totals

CONSTANTS
    DemandId,          \* numbers of the demands in the index
    Factors,           \* committed, calls, supporters, deadline and status
    NowUnix,           \* when they are compared
    MinBounties,       \* what a query may ask for
    Horizon,           \* 30 days
    Day,
    LastDate,          \* a deadline that is later has no date: isoFromUnix is null
    Grain              \* a millionth, in the units of the score

Status == {"OPEN", "SUBMITTED", "READY", "EXPIRED", "REJECTED", "FULFILLED", "CLOSED",
           "CANCELLED", "UNKNOWN"}

ASSUME RankingAssumption ==
    /\ DemandId \subseteq Nat /\ IsFiniteSet(DemandId)
    /\ Factors \subseteq [committed: Nat, calls: Nat, supporters: Nat, deadline: Nat,
                           status: Status]
    /\ MinBounties \subseteq Nat /\ NowUnix \in Nat
    /\ Horizon \in Nat \ {0} /\ LastDate \in Nat /\ Day \in Nat /\ Grain \in Nat \ {0}

VARIABLES
    entries,           \* what the ranking uses of an entry
    query,             \* the filters, validated
    scored             \* the rounded score of each row that matches

rankingVars == <<entries, query, scored>>

Sorts == {"bounty", "supporters", "calls", "deadline", "score"}

RankingInit ==
    /\ entries \in [DemandId -> Factors]
    /\ query \in [minBounty : MinBounties, minSupporters : {0, 1}, status : {"any", "OPEN"}]
    /\ scored = <<>>

-------------------------------------------------------------------------------
(* matchingEntries                                                         *)
Matching ==
    {d \in DemandId : /\ entries[d].committed >= query.minBounty
                      /\ entries[d].supporters >= query.minSupporters
                      /\ query.status \in {"any", entries[d].status}}

Size == Cardinality(Matching)

(* The binary search of percentile.                                        *)
LowerBound(sorted, value) ==
    LET f[lh \in (0 .. Len(sorted)) \X (0 .. Len(sorted))] ==
            LET mid == (lh[1] + lh[2]) \div 2
            IN  IF lh[1] >= lh[2] THEN lh[1]
                ELSE IF sorted[mid + 1] < value THEN f[<<mid + 1, lh[2]>>]
                                                ELSE f[<<lh[1], mid>>]
    IN  f[<<0, Len(sorted)>>]

(* values.sort: what those that match have of a factor, from the least.    *)
Lesser(factor) ==
    {p \in Matching \X Matching :
        \/ entries[p[1]][factor] < entries[p[2]][factor]
        \/ entries[p[1]][factor] = entries[p[2]][factor] /\ p[1] < p[2]}

Sorted(factor) ==
    LET ds == InOrder(Matching, Lesser(factor))
    IN  [i \in DOMAIN ds |-> entries[ds[i]][factor]]

(* percentile, as the numerator over Peers.                                *)
Peers == IF Size > 1 THEN Size - 1 ELSE 1

Percentile(factor, d) ==
    IF Size = 1 THEN 1
    ELSE LowerBound(Sorted(factor), entries[d][factor])

Funding(d)    == entries[d].committed
Calls(d)      == entries[d].calls
Supporters(d) == entries[d].supporters
Remaining(d)  == IF entries[d].deadline > NowUnix THEN entries[d].deadline - NowUnix ELSE 0
Freshness(d)  == IF Remaining(d) > Horizon THEN Horizon ELSE Remaining(d)

(* The weights 0.5, 0.25, 0.15 and 0.1 over a common denominator.          *)
Score(d) ==
    Horizon * (  10 * Percentile("committed", d) + 5 * Percentile("calls", d)
               + 3 * Percentile("supporters", d))
        + 2 * Peers * Freshness(d)

FullScore == 20 * Horizon * Peers

(* toFixed(6)                                                              *)
Rounded(score) == (2 * score + Grain) \div (2 * Grain)

Evaluate ==
    /\ scored = <<>>
    /\ scored' = [d \in Matching |-> Rounded(Score(d))]
    /\ UNCHANGED <<entries, query>>

-------------------------------------------------------------------------------
Dated(d) == entries[d].deadline <= LastDate

(* Faulty: only of two dates is the earlier one first.                     *)
SoonerDated(d, e) == Dated(d) /\ Dated(e) /\ entries[d].deadline < entries[e].deadline

Sooner(d, e) ==
    \/ Dated(d) /\ ~Dated(e)
    \/ Dated(d) /\ Dated(e) /\ entries[d].deadline < entries[e].deadline

(* compareScored: what the rows are ordered by, then the later demand.     *)
Ahead(d, e, sort) ==
    CASE sort = "bounty"     -> Funding(d) > Funding(e)
      [] sort = "supporters" -> Supporters(d) > Supporters(e)
      [] sort = "calls"      -> Calls(d) > Calls(e)
      [] sort = "deadline"   -> Sooner(d, e)
      [] sort = "score"      -> scored[d] > scored[e]

Before(d, e, sort) ==
    \/ Ahead(d, e, sort)
    \/ ~Ahead(d, e, sort) /\ ~Ahead(e, d, sort) /\ d > e

(* paidAnalysis: the rank among all that match, whatever is returned.      *)
Rank(d) == 1 + Cardinality({e \in DOMAIN scored : Before(e, d, "score")})

(* What the reasons are about.                                             *)
Economic == {"committed", "calls", "supporters"}

Varies(factor) == \E d, e \in DOMAIN scored : entries[d][factor] # entries[e][factor]

FreshnessVaries == \E d, e \in DOMAIN scored : Freshness(d) # Freshness(e)

EconomicsTied == Size > 1 /\ \A factor \in Economic : ~Varies(factor)

ScoresTied == Size > 1 /\ \A d, e \in DOMAIN scored : scored[d] = scored[e]

(* Factors in the upper and the lower quartile of those that match.        *)
High(d) ==
    {factor \in Economic : Size > 1 /\ Varies(factor) /\ 4 * Percentile(factor, d) >= 3 * Peers}

Low(d) ==
    {factor \in Economic : Size > 1 /\ Varies(factor) /\ 4 * Percentile(factor, d) <= Peers}

CanBeProposedTo(d) == entries[d].status = "OPEN" /\ Remaining(d) > 0

(* The remaining cautions of a row.                                        *)
Cautions(d) ==
    {c \in {"single", "nothing committed", "no supporters", "no calls", "within a day", "ready",
            "fulfilled", "over", "under review", "economics tied", "scores tied", "by freshness"} :
        CASE c = "single"            -> Size = 1
          [] c = "nothing committed" -> Funding(d) = 0
          [] c = "no supporters"     -> Supporters(d) = 0
          [] c = "no calls"          -> Calls(d) = 0
          [] c = "within a day"      -> Remaining(d) <= Day
          [] c = "ready"             -> entries[d].status = "READY"
          [] c = "fulfilled"         -> entries[d].status = "FULFILLED"
          [] c = "over"              -> entries[d].status \in {"CLOSED", "CANCELLED", "EXPIRED", "REJECTED"}
          [] c = "under review"      -> entries[d].status = "SUBMITTED"
          [] c = "economics tied"    -> EconomicsTied
          [] c = "scores tied"       -> ScoresTied
          [] c = "by freshness"      -> ~ScoresTied /\ EconomicsTied /\ FreshnessVaries}

(* economicSignals.escrowPerExpectedCall, null for no calls.               *)
EscrowPerCall(d) == IF Calls(d) = 0 THEN {} ELSE {Funding(d) \div Calls(d)}

-------------------------------------------------------------------------------
(* A percentile is what docs/API.md defines, the share of the peers with a *)
(* smaller value, and a score lies between 0 and 1.                        *)
PercentilesCount ==
    \A d \in DOMAIN scored :
        /\ \A factor \in {"committed", "calls", "supporters"} :
               Size > 1 =>
                   Percentile(factor, d)
                       = Cardinality({e \in Matching : entries[e][factor] < entries[d][factor]})
        /\ scored[d] \in 0 .. Rounded(FullScore)

(* Each way of sorting orders the rows that match in one way only, those   *)
(* without a date included: otherwise what the limit cuts off would depend *)
(* on how the runtime sorts.                                               *)
SortsAreOrders ==
    \A sort \in Sorts, d, e \in DOMAIN scored :
        /\ ~Before(d, d, sort)
        /\ d # e => (Before(d, e, sort) <=> ~Before(e, d, sort))
        /\ \A f \in DOMAIN scored : Before(d, e, sort) /\ Before(e, f, sort) => Before(d, f, sort)

(* A demand that is no worse in any factor never ranks behind one that is  *)
(* as old or older, and a rank is given once.                              *)
BetterRanksFirst ==
    \A d, e \in DOMAIN scored :
        /\ d # e => Rank(d) # Rank(e)
        /\ /\ d > e
           /\ Funding(d) >= Funding(e) /\ Calls(d) >= Calls(e)
           /\ Supporters(d) >= Supporters(e) /\ Freshness(d) >= Freshness(e)
           => Rank(d) < Rank(e)

(* The reasons agree with the numbers and with each other: who is high has *)
(* at most a quarter of its peers level or ahead, who is low at most a     *)
(* quarter behind, nobody is both, ties are named exactly when nothing     *)
(* else is left to order by, and a row that can be proposed to carries no  *)
(* caution that it cannot.                                                 *)
ReasonsAgree ==
    \A d \in DOMAIN scored :
        LET behind(factor) ==
                Cardinality({e \in DOMAIN scored : entries[e][factor] < entries[d][factor]})
        IN  /\ High(d) \cap Low(d) = {}
            /\ \A factor \in High(d) : 4 * (Size - 1 - behind(factor)) <= Size - 1
            /\ \A factor \in Low(d) : /\ 4 * behind(factor) <= Size - 1
                                     /\ \E e \in DOMAIN scored : entries[e][factor] # entries[d][factor]
            /\ EconomicsTied => High(d) \cup Low(d) = {}
            /\ "scores tied" \in Cautions(d) =>
                   Rank(d) = Cardinality({e \in DOMAIN scored : e >= d})
            /\ "by freshness" \in Cautions(d) =>
                   \A e \in DOMAIN scored : scored[d] > scored[e] => Freshness(d) > Freshness(e)
            /\ CanBeProposedTo(d) =>
                   Cautions(d) \cap {"ready", "fulfilled", "over", "under review"} = {}
            /\ \A n \in EscrowPerCall(d) : Calls(d) * n <= Funding(d)

(* The paid comparison is the one that is documented.                      *)
RankingSound == PercentilesCount /\ SortsAreOrders /\ BetterRanksFirst /\ ReasonsAgree

-------------------------------------------------------------------------------
(* The board as the page lists it (deriveMarketRequests of                 *)
(* frontend/app-state.ts, DemandBoard of App.tsx) and counts it            *)
(* (deriveGlobalAnalytics of analytics.ts).  The board and what the user   *)
(* filters by are any at the start, and are then shown.                    *)

CONSTANTS
    Listed,            \* numbers of the demands on the board
    ListedStatus,      \* effective statuses that occur on it; bound
    ListedEscrow,      \* amounts in escrow that occur on it; bound
    MostEscrow,        \* demands and
    Latest             \* fulfilled demands that the analytics show at most

ASSUME ListingAssumption ==
    /\ Listed \subseteq Nat /\ IsFiniteSet(Listed)
    /\ ListedStatus \subseteq Status /\ ListedEscrow \subseteq Nat
    /\ MostEscrow \in Nat /\ Latest \in Nat \ {0}

VARIABLES
    rows,              \* of each demand: escrow, effective status, named like the search
    filter,            \* what is searched for, the status and the sort that are chosen
    shown,             \* what the page lists: the demands in their order
    analytics

listingVars == <<rows, filter, shown, analytics>>

MarketSort == {"most-funded", "least-funded", "latest-id", "earliest-id"}

(* A search for nothing, for a word, or for a number with or without "#",  *)
(* which is a word as well.                                                *)
Search == [word : BOOLEAN, number : Listed \cup {0}]

ListingInit ==
    /\ rows \in [Listed -> [committed : ListedEscrow, named : BOOLEAN, status : ListedStatus]]
    /\ filter \in [search : {s \in Search : s.number # 0 => s.word},
                   status : ListedStatus \cup {"ALL"}, sort : MarketSort]
    /\ shown = <<>> /\ analytics = <<>>

StatusCount(s) == Cardinality({d \in Listed : rows[d].status = s})

MatchesStatus(d) == filter.status \in {"ALL", rows[d].status}

MatchesSearch(d) == ~filter.search.word \/ rows[d].named \/ d = filter.search.number

Requests == {d \in Listed : MatchesStatus(d) /\ MatchesSearch(d)}

(* The comparator; equal escrow is the later demand first, either way.     *)
ListedBefore(d, e) ==
    \/ filter.sort = "latest-id" /\ d > e
    \/ filter.sort = "earliest-id" /\ d < e
    \/ filter.sort = "most-funded" /\ rows[d].committed > rows[e].committed
    \/ filter.sort = "least-funded" /\ rows[d].committed < rows[e].committed
    \/ /\ filter.sort \in {"most-funded", "least-funded"}
       /\ rows[d].committed = rows[e].committed
       /\ d > e

ListedOrder == {p \in Listed \X Listed : ListedBefore(p[1], p[2])}

(* STATUS_ORDER, without the statuses that do not occur.                   *)
StatusOrder == <<"OPEN", "SUBMITTED", "READY", "EXPIRED", "REJECTED", "FULFILLED", "CLOSED",
                 "CANCELLED", "UNKNOWN">>

FirstOf(sequence, n) == SubSeq(sequence, 1, IF Len(sequence) < n THEN Len(sequence) ELSE n)

MoreEscrow ==
    {p \in Listed \X Listed :
        \/ rows[p[1]].committed > rows[p[2]].committed
        \/ rows[p[1]].committed = rows[p[2]].committed /\ p[1] > p[2]}

EscrowByRequest ==
    FirstOf(InOrder({d \in Listed : rows[d].committed > 0}, MoreEscrow), MostEscrow)

RecentlyFulfilled ==
    FirstOf(InOrder({d \in Listed : rows[d].status = "FULFILLED"},
                    {p \in Listed \X Listed : p[1] > p[2]}),
            Latest)

(* StatusDonut: each count's part of the ring, from where it starts, in    *)
(* demands; EscrowBars: the width of each bar in percent of the longest.   *)
Segments(counts) ==
    [i \in DOMAIN counts |->
        [from |-> Total([j \in 1 .. i - 1 |-> counts[j][2]]), length |-> counts[i][2]]]

Bars(most) ==
    [i \in DOMAIN most |-> (rows[most[i]].committed * 100) \div rows[most[1]].committed]

Occurring == {i \in DOMAIN StatusOrder : StatusCount(StatusOrder[i]) > 0}

CountsShown ==
    LET places == InOrder(Occurring, {p \in Occurring \X Occurring : p[1] < p[2]})
    IN  [k \in DOMAIN places |->
            <<StatusOrder[places[k]], StatusCount(StatusOrder[places[k]])>>]

Analytics ==
    [total     |-> Cardinality(Listed),
     fulfilled |-> StatusCount("FULFILLED"),
     escrow    |-> Total([d \in Listed |-> rows[d].committed]),
     counts    |-> CountsShown,
     donut     |-> Segments(CountsShown),
     most      |-> EscrowByRequest,
     bars      |-> Bars(EscrowByRequest),
     latest    |-> RecentlyFulfilled]

Show ==
    /\ analytics = <<>>
    /\ shown' = InOrder(Requests, ListedOrder)
    /\ analytics' = Analytics
    /\ UNCHANGED <<rows, filter>>

-------------------------------------------------------------------------------
(* The list holds each demand that matches once, in the one order that the *)
(* choice allows; a demand is found by its number whatever it is called;   *)
(* and a choice of a status lists as many demands as its button counts.    *)
ListIsWhole ==
    analytics # <<>> =>
        /\ ToSet(shown) = Requests /\ Len(shown) = Cardinality(Requests)
        /\ \A i, j \in DOMAIN shown : i < j => ~ListedBefore(shown[j], shown[i])
        /\ filter.search.number # 0 /\ filter.status = "ALL" =>
               filter.search.number \in ToSet(shown)
        /\ ~filter.search.word =>
               Len(shown) = IF filter.status = "ALL" THEN analytics.total
                            ELSE StatusCount(filter.status)

(* The analytics add up: every demand is in one count and in one part of   *)
(* the ring, nothing with more escrow is left out of the first ones, and   *)
(* when there is room, their escrow is all of it.                          *)
AnalyticsAddUp ==
    analytics # <<>> =>
        LET most   == ToSet(analytics.most)
            inPart(k) == {i \in DOMAIN analytics.donut :
                             LET arc == analytics.donut[i]
                             IN  arc.from < k /\ k <= arc.from + arc.length}
        IN  /\ Total([i \in DOMAIN analytics.counts |-> analytics.counts[i][2]])
                   = analytics.total
            /\ \A k \in 1 .. analytics.total : Cardinality(inPart(k)) = 1
            /\ \A i \in DOMAIN analytics.bars :
                   analytics.bars[i] <= 100 /\ (i = 1 => analytics.bars[i] = 100)
            /\ \A d \in Listed \ most, e \in most : rows[d].committed <= rows[e].committed
            /\ Len(analytics.most) < MostEscrow =>
                   Total([d \in most |-> rows[d].committed]) = analytics.escrow
            /\ analytics.fulfilled > 0 <=> Len(analytics.latest) > 0
===============================================================================
