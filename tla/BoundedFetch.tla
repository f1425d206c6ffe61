------------------------------ MODULE BoundedFetch ------------------------------
(***************************************************************************)
(* The calls to the facilitator (backend/upstream.ts): at most so many at  *)
(* once, each with a timeout of its own and with the deadline of the scope *)
(* it is made in, and a limit on what is read.                             *)
(***************************************************************************)
EXTENDS Integers, FiniteSets

CONSTANTS
    Upstream,          \* calls there may be at once; bound
    MaxFetches,        \* options.maxInFlight
    FetchMs,           \* options.timeoutMs, in ticks of the clock
    DeadlineMs         \* the longest deadline of a scope

ASSUME FetchAssumption ==
    MaxFetches \in Nat /\ FetchMs \in Nat \ {0} /\ DeadlineMs \in Nat

VARIABLES
    fetch,             \* where each call is
    fetches,           \* active
    left,              \* until the timeout of each call
    deadline,          \* until the deadline of the scope each call is made in
    aborted            \* controller.signal

fetchVars == <<fetch, fetches, left, deadline, aborted>>

None == DeadlineMs + 1   \* no deadline

FetchTypeOK ==
    /\ fetch \in [Upstream -> {"away", "headers", "body", "done", "capacity", "timeout",
                               "unavailable", "tooLarge"}]
    /\ fetches \in 0 .. MaxFetches
    /\ left \in [Upstream -> 0 .. FetchMs]
    /\ deadline \in [Upstream -> 0 .. None]
    /\ aborted \in [Upstream -> BOOLEAN]

InFlight(u) == fetch[u] \in {"headers", "body"}

(* withBoundedFetchDeadline inside another: the earlier deadline counts.   *)
Nested(outer, inner) == IF outer < inner THEN outer ELSE inner

FetchGoes(u, step) == fetch' = [fetch EXCEPT ![u] = step]

(* A call within a scope or within two; past its deadline it is refused at *)
(* once, without a place.                                                  *)
Begin(u, outer, inner) ==
    /\ ~InFlight(u)
    /\ deadline' = [deadline EXCEPT ![u] = Nested(outer, inner)]
    /\ \/ /\ Nested(outer, inner) = 0
          /\ FetchGoes(u, "timeout")
          /\ UNCHANGED <<fetches, left, aborted>>
       \/ /\ Nested(outer, inner) > 0 /\ fetches >= MaxFetches
          /\ FetchGoes(u, "capacity")
          /\ UNCHANGED <<fetches, left, aborted>>
       \/ /\ Nested(outer, inner) > 0 /\ fetches < MaxFetches
          /\ fetches' = fetches + 1
          /\ left' = [left EXCEPT ![u] = FetchMs]
          /\ aborted' = [aborted EXCEPT ![u] = FALSE]
          /\ FetchGoes(u, "headers")

(* The finally.                                                            *)
FetchEnds(u, step) ==
    /\ FetchGoes(u, step)
    /\ fetches' = fetches - 1
    /\ UNCHANGED <<left, deadline, aborted>>

(* fetch and read reject once the signal is aborted; otherwise they fail   *)
(* for reasons of the network.                                             *)
FetchFails(u) ==
    /\ InFlight(u)
    /\ FetchEnds(u, IF aborted[u] THEN "timeout" ELSE "unavailable")

HeadersRead(u) ==
    /\ fetch[u] = "headers" /\ ~aborted[u]
    /\ FetchGoes(u, "body")
    /\ UNCHANGED <<fetches, left, deadline, aborted>>

(* The end of the body, or one byte more than may be read; a chunk more of *)
(* what may be read changes nothing.                                       *)
BodyEnds(u) ==
    /\ fetch[u] = "body" /\ ~aborted[u]
    /\ FetchEnds(u, "done") \/ FetchEnds(u, "tooLarge")

(* The caller's own signal.                                                *)
ParentAborts(u) ==
    /\ InFlight(u) /\ ~aborted[u]
    /\ aborted' = [aborted EXCEPT ![u] = TRUE]
    /\ UNCHANGED <<fetch, fetches, left, deadline>>

Sooner(n) == IF n > 0 THEN n - 1 ELSE 0

(* Both timers abort the call; each fires when it is due.                  *)
FetchTick ==
    /\ \E u \in Upstream : InFlight(u)
    /\ \A u \in Upstream : InFlight(u) => ~aborted[u]
    /\ left' = [u \in Upstream |-> IF InFlight(u) THEN Sooner(left[u]) ELSE left[u]]
    /\ deadline' = [u \in Upstream |->
           IF InFlight(u) /\ deadline[u] # None THEN Sooner(deadline[u]) ELSE deadline[u]]
    /\ aborted' = [u \in Upstream |->
           aborted[u] \/ (InFlight(u) /\ 0 \in {left'[u], deadline'[u]})]
    /\ UNCHANGED <<fetch, fetches>>

FetchInit ==
    /\ fetch = [u \in Upstream |-> "away"] /\ fetches = 0
    /\ left = [u \in Upstream |-> 0] /\ deadline = [u \in Upstream |-> None]
    /\ aborted = [u \in Upstream |-> FALSE]

FetchNext ==
    \/ FetchTick
    \/ \E u \in Upstream :
           \/ \E outer, inner \in {0, DeadlineMs, None} : Begin(u, outer, inner)
           \/ HeadersRead(u) \/ BodyEnds(u) \/ FetchFails(u) \/ ParentAborts(u)

-------------------------------------------------------------------------------
(* No call is in flight longer than its timeout or past its deadline, and  *)
(* its place is given back however it ends.                                *)
FetchesEnd ==
    /\ \A u \in Upstream : InFlight(u) ~> ~InFlight(u)
    /\ [](FetchTypeOK /\ fetches = Cardinality({u \in Upstream : InFlight(u)}))
===============================================================================
