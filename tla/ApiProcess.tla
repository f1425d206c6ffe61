------------------------------- MODULE ApiProcess -------------------------------
(***************************************************************************)
(* The process of the API from its start to its end: startServer, the      *)
(* payment middleware that is made once or when first asked for, the       *)
(* health result that requests share, GET /ready, and the drain            *)
(* (backend/server.ts).                                                    *)
(*                                                                         *)
(* Times are ages and delays up to the limit they are compared with.       *)
(***************************************************************************)
EXTENDS Integers, FiniteSets

CONSTANTS
    Visit,             \* requests there may be at once; bound
    CacheMs,           \* DEPENDENCY_CACHE_MS, in ticks of the clock
    RpcMs,             \* RPC_TIMEOUT_MS
    MaxOutages         \* bound on the times a dependency breaks down

ASSUME ProcessAssumption ==
    CacheMs \in Nat \ {0} /\ RpcMs \in Nat /\ MaxOutages \in Nat

Dependency == {"chain", "facilitator", "disk"}
Worker  == {"activity", "discovery"}

VARIABLES
    lazy,              \* createApp() as exported, or as startServer calls it
    configured,        \* is there a PAYMENT_DB_PATH?
    works,             \* dependencies that work
    outages,
    sinceGood,         \* age of the last moment the chain answered well
    sinceBad,          \* age of the last moment one of them did not work
    phase,             \* of the process
    clean,             \* it exited with code 0
    storage,           \* storageInitialization
    middleware,        \* what createPaymentMiddleware waits for
    backoff,           \* until paymentRetryAt
    probe,             \* healthPending
    cache,             \* healthCache
    job,               \* what each scheduler does
    what,              \* what each visit asks for
    visit,             \* where it is
    gone,              \* its client has left
    yes                \* the last answer of /ready was 200

settings   == <<lazy, configured, what>>
dependency == <<works, outages, sinceGood, sinceBad>>
payment    == <<storage, middleware, backoff>>
healthVars == <<probe, cache>>
visits     == <<visit, gone, yes>>
processVars == <<settings, dependency, phase, clean, payment, healthVars, job, visits>>

Ages == 0 .. CacheMs + RpcMs

NoProbe == [step |-> "none", ok |-> FALSE, age |-> 0]

ProcessTypeOK ==
    /\ lazy \in BOOLEAN /\ configured \in BOOLEAN /\ clean \in BOOLEAN
    /\ works \subseteq Dependency /\ outages \in 0 .. MaxOutages 
    /\ sinceGood \in Ages /\ sinceBad \in Ages
    /\ phase \in {"starting", "market", "serving", "draining", "stopping", "exited"}
    /\ storage \in {"none", "opening", "open", "failed", "closed"}
    /\ middleware \in {"none", "storage", "facilitator", "ready"}
    /\ backoff \in 0 .. CacheMs
    /\ probe \in [step : {"none", "market", "height", "answered"}, ok : BOOLEAN, age : 0 .. RpcMs]
    /\ cache \in [left : 0 .. CacheMs, ok : BOOLEAN]
    /\ job \in [Worker -> {"none", "waiting", "running", "failed", "stopped"}]
    /\ what \in [Visit -> {"ready", "paid"}]
    /\ visit \in [Visit -> {"away", "storage", "payment", "initializing", "health", "probing", "work"}]
    /\ gone \in [Visit -> BOOLEAN] /\ yes \in [Visit -> BOOLEAN]

Alive == phase # "exited"

-------------------------------------------------------------------------------
(* Payment.                                                                *)

Waiting(step) == {v \in Visit : visit[v] = step}

(* The visits of a set go on to a step; the others stay.                   *)
Go(V, step) == visit' = [v \in Visit |-> IF v \in V THEN step ELSE visit[v]]

(* storageInitialization ??= ...: the first call opens the store, recovers *)
(* and cleans it; the others share its promise, also a rejected one.       *)
Opening == IF storage = "none" THEN "opening" ELSE storage

StorageOpens ==
    /\ Alive /\ storage = "opening"
    /\ storage' = IF "disk" \in works THEN "open" ELSE "failed"
    /\ UNCHANGED <<settings, dependency, phase, clean, middleware, backoff, healthVars, job, visits>>

(* createPaymentMiddleware begins; what is published does not change while *)
(* a process lasts and is what is configured.                              *)
BeginCreation ==
    /\ middleware' = "storage"
    /\ storage' = IF configured THEN Opening ELSE storage
    /\ UNCHANGED backoff

(* The promise is rejected: a process that is starting gives up; otherwise *)
(* the promise is forgotten and no other made for a while, and those who   *)
(* waited are told.                                                        *)
CreationFails ==
    /\ middleware' = "none"
    /\ IF lazy THEN /\ backoff' = CacheMs
                    /\ Go(Waiting("initializing"), "away")
                    /\ UNCHANGED phase
               ELSE /\ phase' = "exited"
                    /\ UNCHANGED <<backoff, visit>>
    /\ UNCHANGED <<settings, dependency, clean, storage, healthVars, job, gone, yes>>

(* The store is there, or none is configured.                              *)
CreationStored ==
    /\ Alive /\ middleware = "storage"
    /\ \/ /\ configured => storage = "open"
          /\ middleware' = "facilitator"
          /\ UNCHANGED <<settings, dependency, phase, clean, storage, backoff, healthVars, job, visits>>
       \/ configured /\ storage = "failed" /\ CreationFails

(* store.integrity() and, if there is one, activity.state().               *)
StoresAnswer == configured /\ storage = "open" /\ "disk" \in works

(* With the middleware there, /ready goes on to the health result if the   *)
(* stores answer, and a paid request to its work unless its client left.   *)
Resumed(V) ==
    visit' = [v \in Visit |->
        IF v \notin V THEN visit[v]
        ELSE IF what[v] = "ready" /\ StoresAnswer THEN "health"
        ELSE IF what[v] = "paid" /\ ~gone[v] THEN "work" ELSE "away"]

(* resourceServer.initialize asks the facilitator what it supports.        *)
CreationEnds ==
    /\ Alive /\ middleware = "facilitator"
    /\ \/ /\ "facilitator" \in works
          /\ middleware' = "ready"
          /\ Resumed(Waiting("initializing"))
          /\ phase' = IF phase = "starting" THEN "market" ELSE phase
          /\ UNCHANGED <<settings, dependency, clean, storage, backoff, healthVars, job, gone, yes>>
       \/ "facilitator" \notin works /\ CreationFails

(* verifyMarket, the last thing that is checked before the server listens  *)
(* and the schedulers run.                                                 *)
Listen ==
    /\ phase = "market"
    /\ IF "chain" \in works /\ "disk" \in works
       THEN /\ phase' = "serving"
            /\ job' = [k \in Worker |-> "running"]
       ELSE /\ phase' = "exited"
            /\ UNCHANGED job
    /\ UNCHANGED <<settings, dependency, clean, payment, healthVars, visits>>

-------------------------------------------------------------------------------
(* Requests.                                                               *)

(* /ready first sees to the store; a paid request without one is refused   *)
(* before anything else.                                                   *)
Arrive(v) ==
    /\ phase = "serving" /\ visit[v] = "away"
    /\ what[v] = "paid" => configured
    /\ Go({v}, IF what[v] = "ready" /\ configured THEN "storage" ELSE "payment")
    /\ storage' = IF what[v] = "ready" /\ configured THEN Opening ELSE storage
    /\ gone' = [gone EXCEPT ![v] = FALSE]
    /\ yes' = [yes EXCEPT ![v] = FALSE]
    /\ UNCHANGED <<settings, dependency, phase, clean, middleware, backoff, healthVars, job>>

StorageSeen(v) ==
    /\ Alive /\ visit[v] = "storage"
    /\ \/ storage = "open" /\ Go({v}, "payment")
       \/ storage = "failed" /\ Go({v}, "away")
    /\ UNCHANGED <<settings, dependency, phase, clean, payment, healthVars, job, gone, yes>>

(* initializedPayment, or the middleware that startServer made.            *)
AskPayment(v) ==
    /\ Alive /\ visit[v] = "payment"
    /\ \/ /\ lazy /\ backoff > 0
          /\ Go({v}, "away")
          /\ UNCHANGED payment
       \/ /\ lazy /\ backoff = 0 /\ middleware = "none"
          /\ BeginCreation
          /\ Go({v}, "initializing")
       \/ /\ lazy /\ backoff = 0 /\ middleware \in {"storage", "facilitator"}
          /\ Go({v}, "initializing")
          /\ UNCHANGED payment
       \/ /\ lazy => backoff = 0
          /\ middleware = "ready"
          /\ Resumed({v})
          /\ UNCHANGED payment
    /\ UNCHANGED <<settings, dependency, phase, clean, healthVars, job, gone, yes>>

(* Faulty: a good result is kept until there is another.                   *)
CachedWhileGood == cache.left > 0 \/ cache.ok

Cached == cache.left > 0

(* health(): the result of the last few seconds, or of the one probe.      *)
AskHealth(v) ==
    /\ Alive /\ visit[v] = "health"
    /\ \/ /\ Cached
          /\ Go({v}, "away")
          /\ yes' = [yes EXCEPT ![v] = cache.ok]
          /\ UNCHANGED probe
       \/ /\ ~Cached
          /\ Go({v}, "probing")
          /\ probe' = IF probe.step = "none" THEN [NoProbe EXCEPT !.step = "market"] ELSE probe
          /\ UNCHANGED yes
    /\ UNCHANGED <<settings, dependency, phase, clean, payment, cache, job, gone>>

(* The node answers: verifyMarket, then getBlockNumber.  An error ends it. *)
NodeAnswers ==
    /\ Alive /\ probe.step \in {"market", "height"}
    /\ probe' = IF probe.step = "market" /\ "chain" \in works
                THEN [step |-> "height", ok |-> FALSE, age |-> 0]
                ELSE [probe EXCEPT !.step = "answered", !.ok = "chain" \in works]
    /\ UNCHANGED <<settings, dependency, phase, clean, payment, cache, job, visits>>

(* The answer arrives, or time is up before it does; a node that works     *)
(* answers in time.                                                        *)
ProbeEnds ==
    LET ok == probe.step = "answered" /\ probe.ok
    IN  /\ Alive
        /\ \/ probe.step = "answered"
           \/ probe.step # "none" /\ probe.age = RpcMs /\ "chain" \notin works
        /\ probe' = NoProbe
        /\ cache' = [left |-> CacheMs, ok |-> ok]
        /\ Go(Waiting("probing"), "away")
        /\ yes' = [v \in Visit |-> IF visit[v] = "probing" THEN ok ELSE yes[v]]
        /\ UNCHANGED <<settings, dependency, phase, clean, payment, job, gone>>

(* The payment, the route and the settlement of a paid request are done.   *)
WorkEnds(v) ==
    /\ Alive /\ visit[v] = "work"
    /\ Go({v}, "away")
    /\ UNCHANGED <<settings, dependency, phase, clean, payment, healthVars, job, gone, yes>>

Leave(v) ==
    /\ Alive /\ visit[v] # "away" /\ what[v] = "paid" /\ ~gone[v]
    /\ gone' = [gone EXCEPT ![v] = TRUE]
    /\ UNCHANGED <<settings, dependency, phase, clean, payment, healthVars, job, visit, yes>>

-------------------------------------------------------------------------------
(* The schedulers and the end of the process.                              *)

RunBegins(k) ==
    /\ Alive /\ job[k] = "waiting"
    /\ job' = [job EXCEPT ![k] = "running"]
    /\ UNCHANGED <<settings, dependency, phase, clean, payment, healthVars, visits>>

(* A run of the activity worker that its store fails is its last one; the  *)
(* other scheduler survives all errors.  Nothing begins once stopped.      *)
RunEnds(k) ==
    /\ Alive /\ job[k] = "running"
    /\ \/ job' = [job EXCEPT ![k] = IF phase = "stopping" THEN "stopped" ELSE "waiting"]
       \/ k = "activity" /\ "disk" \notin works /\ job' = [job EXCEPT ![k] = "failed"]
    /\ UNCHANGED <<settings, dependency, phase, clean, payment, healthVars, visits>>

(* SIGTERM or SIGINT.                                                      *)
Shutdown ==
    /\ phase = "serving" /\ ~lazy
    /\ phase' = "draining"
    /\ UNCHANGED <<settings, dependency, clean, payment, healthVars, job, visits>>

(* server.close calls back when there is no connection left.               *)
Stop ==
    /\ phase = "draining"
    /\ \A v \in Visit : visit[v] = "away" \/ gone[v]
    /\ phase' = "stopping"
    /\ job' = [k \in Worker |-> IF job[k] = "waiting" THEN "stopped" ELSE job[k]]
    /\ UNCHANGED <<settings, dependency, clean, payment, healthVars, visits>>

(* Faulty: whichever stops first.                                          *)
AnyStopped == \E k \in Worker : job[k] # "running"

(* Promise.allSettled of both.                                             *)
AllStopped == \A k \in Worker : job[k] # "running"

(* Both schedulers have stopped or failed; the stores are closed.          *)
Exit ==
    /\ phase = "stopping" /\ AllStopped
    /\ phase' = "exited"
    /\ clean' = (job["activity"] # "failed")
    /\ storage' = IF storage = "open" THEN "closed" ELSE storage
    /\ UNCHANGED <<settings, dependency, middleware, backoff, healthVars, job, visits>>

(* DRAIN_TIMEOUT.                                                          *)
DrainTimeout ==
    /\ phase \in {"draining", "stopping"}
    /\ phase' = "exited"
    /\ UNCHANGED <<settings, dependency, clean, payment, healthVars, job, visits>>

-------------------------------------------------------------------------------
(* The world.                                                              *)

BreaksDown(d) ==
    /\ Alive /\ outages < MaxOutages /\ d \in works
    /\ works' = works \ {d}
    /\ outages' = outages + 1
    /\ sinceBad' = 0
    /\ UNCHANGED <<settings, sinceGood, phase, clean, payment, healthVars, job, visits>>

WorksAgain(d) ==
    /\ Alive /\ d \notin works
    /\ works' = works \cup {d}
    /\ sinceGood' = IF d = "chain" THEN 0 ELSE sinceGood
    /\ UNCHANGED <<settings, outages, sinceBad, phase, clean, payment, healthVars, job, visits>>

Older(age) == IF age + 1 \in Ages THEN age + 1 ELSE age

Less(n) == IF n > 0 THEN n - 1 ELSE 0

(* A call to the node lasts no longer than its timeout.                    *)
ProcessTick ==
    /\ Alive
    /\ probe.step # "none" => probe.age < RpcMs
    /\ backoff' = Less(backoff)
    /\ cache' = [cache EXCEPT !.left = Less(@)]
    /\ probe' = IF probe.step = "none" THEN probe ELSE [probe EXCEPT !.age = @ + 1]
    /\ sinceGood' = IF "chain" \in works THEN 0 ELSE Older(sinceGood)
    /\ sinceBad' = IF works # Dependency THEN 0 ELSE Older(sinceBad)
    /\ UNCHANGED <<settings, works, outages, phase, clean, storage, middleware, job, visits>>

ProcessInit ==
    /\ lazy \in BOOLEAN /\ configured \in BOOLEAN /\ clean = FALSE
    /\ works = Dependency /\ outages = 0 /\ sinceGood = 0 /\ sinceBad = CacheMs + RpcMs
    /\ phase = IF lazy THEN "serving" ELSE "starting"
    /\ storage = IF ~lazy /\ configured THEN "opening" ELSE "none"
    /\ middleware = IF lazy THEN "none" ELSE "storage"
    /\ backoff = 0 /\ probe = NoProbe /\ cache = [left |-> 0, ok |-> FALSE]
    /\ job = [k \in Worker |-> "none"]
    /\ what \in [Visit -> {"ready", "paid"}]
    /\ visit = [v \in Visit |-> "away"]
    /\ gone = [v \in Visit |-> FALSE] /\ yes = [v \in Visit |-> FALSE]

ProcessNext ==
    \/ StorageOpens \/ CreationStored \/ CreationEnds \/ Listen
    \/ NodeAnswers \/ ProbeEnds
    \/ \E v \in Visit :
           Arrive(v) \/ StorageSeen(v) \/ AskPayment(v) \/ AskHealth(v) \/ WorkEnds(v) \/ Leave(v)
    \/ \E k \in Worker : RunBegins(k) \/ RunEnds(k)
    \/ Shutdown \/ Stop \/ Exit \/ DrainTimeout
    \/ \E d \in Dependency : BreaksDown(d) \/ WorksAgain(d)
    \/ ProcessTick

ProcessSpec == ProcessInit /\ [][ProcessNext]_processVars

-------------------------------------------------------------------------------
(* What /ready says is true.  Whoever is told that the process is ready    *)
(* has one whose payment store is open and whose middleware is there, and  *)
(* the chain was well no longer ago than a health result is kept and a     *)
(* call to the node may last, however many requests shared the result.     *)
(* Whoever is told that it is not has one without payment storage, or      *)
(* something failed no longer ago than that, or the store could not be     *)
(* opened when it was first asked for: only that failure is kept           *)
(* (GET /ready, initializedPayment, initializePaymentStorage, health).     *)
ReadyIsTrue ==
    [][\A v \in Visit :
          what[v] = "ready" /\ visit[v] # "away" /\ visit'[v] = "away" =>
              IF yes'[v]
              THEN /\ configured /\ storage = "open" /\ middleware = "ready"
                   /\ sinceGood < CacheMs + RpcMs
              ELSE ~configured \/ storage = "failed" \/ sinceBad < CacheMs + RpcMs]_processVars

(* A process that exits with code 0 has answered every client who still    *)
(* waited, and no scheduler was at work when the stores were closed; only  *)
(* the request of a client who left may have been cut off (startServer).   *)
CleanExit ==
    /\ ProcessTypeOK
    /\ clean => /\ \A v \in Visit : visit[v] = "away" \/ gone[v]
                /\ \A k \in Worker : job[k] = "stopped"
===============================================================================
