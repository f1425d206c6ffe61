------------------------------ MODULE DemandIndex ------------------------------
(***************************************************************************)
(* The derived index of the demands in the API's memory (ensureIndex,      *)
(* refreshIndex, rebuildIndex of backend/server.ts).                       *)
(*                                                                         *)
(* A refresh is a row of reads over RPC with an await between any two, and *)
(* all but the first name a block by its number; the chain may grow, or    *)
(* reorganise, at each await.  The chain is a tree of blocks given by      *)
(* constants, with a head that moves.                                      *)
(***************************************************************************)
EXTENDS DemandChain

CONSTANTS
    Request,           \* handlers and probes that call ensureIndex
    NoRequest,
    Part,              \* the calls an entry is put together from
    LogWindow,         \* 100 blocks for each getLogs
    IndexMaxLogWindows,
    IndexMaxDemands,
    MaxFailures        \* bound on the calls that fail or take too long

ASSUME RequestAssumption == NoRequest \notin Request /\ Part # {}

ASSUME BoundsAssumption ==
    /\ LogWindow \in Nat \ {0} /\ IndexMaxLogWindows \in Nat \ {0}
    /\ IndexMaxDemands \in Nat /\ MaxFailures \in Nat

VARIABLES
    index,             \* DemandIndexState
    fresh,             \* indexRefreshMs has not passed since lastRefresh
    refreshPromise,    \* the request whose refresh is in flight
    waiting,           \* requests that wait for a refresh
    run,               \* the refresh a request carries out
    seen,              \* heads since the last refresh went out of date
    failures           \* calls that failed so far

vars == <<chain, index, fresh, refreshPromise, waiting, run, seen, failures>>

Step    == {"none", "rebuild", "count", "current", "indexed", "logs", "missing", "read"}
NoEntry == [p \in Part |-> NoBlock]
NoRun   == [step |-> "none", block |-> NoBlock, whole |-> FALSE, cursor |-> 0,
            ids |-> {}, todo |-> {}, updates |-> [d \in Demand |-> NoEntry]]

TypeOK ==
    /\ ChainTypeOK
    /\ index.ready \in BOOLEAN /\ index.block \in Block \cup {NoBlock}
    /\ index.version \in Nat /\ index.versions \in [Demand -> Nat]
    /\ index.entries \in [Demand -> [Part -> Block \cup {NoBlock}]]
    /\ fresh \in BOOLEAN /\ seen \subseteq Block /\ failures \in 0 .. MaxFailures
    /\ refreshPromise \in Request \cup {NoRequest} /\ waiting \subseteq Request
    /\ \A r \in Request :
          /\ run[r].step \in Step /\ run[r].block \in Block \cup {NoBlock}
          /\ run[r].cursor \in Nat
          /\ run[r].ids \subseteq Demand /\ run[r].todo \subseteq Demand \X Part
          /\ run[r].updates \in [Demand -> [Part -> Block \cup {NoBlock}]]

-------------------------------------------------------------------------------
(* readEntry, part by part.                                                *)
EntryOf(b, d) ==
    IF d < NextDemandId[b] THEN [p \in Part |-> Changed(b, d)] ELSE NoEntry

-------------------------------------------------------------------------------
Goto(r, step) == run' = [run EXCEPT ![r].step = step]

(* The promise settles, and all who wait for it go on.                     *)
Settle(r, result) ==
    /\ refreshPromise' = NoRequest
    /\ run' = [run EXCEPT ![r] = NoRun]
    /\ waiting' = {}
    /\ fresh' = (fresh \/ result = "done")
    /\ UNCHANGED <<chain, seen>>

(* INDEX_CAPACITY, INDEX_REORG, an answer that is an error: the index is   *)
(* left alone.                                                             *)
Fail(r) == Settle(r, "failed") /\ UNCHANGED <<index, failures>>

(* A call fails, or INDEX_BUDGET_EXCEEDED.                                 *)
Abort(r) ==
    /\ run[r].step # "none"
    /\ failures < MaxFailures
    /\ failures' = failures + 1
    /\ Settle(r, "failed")
    /\ UNCHANGED index

Unmoved == UNCHANGED <<chain, index, fresh, refreshPromise, waiting, seen, failures>>

(* Faulty: a refresh in flight is not looked for.                          *)
JoinsNever == FALSE

Joins == refreshPromise # NoRequest

(* ensureIndex                                                             *)
Ask(r) ==
    /\ r \notin waiting /\ run[r].step = "none"
    /\ \/ /\ Joins
          /\ waiting' = waiting \cup {r}
          /\ UNCHANGED <<refreshPromise, run>>
       \/ /\ ~Joins
          /\ ~(index.ready /\ fresh)
          /\ waiting' = waiting \cup {r}
          /\ refreshPromise' = r
          /\ Goto(r, IF index.ready THEN "current" ELSE "rebuild")
    /\ UNCHANGED <<chain, index, fresh, seen, failures>>

Capacity(n) == n - 1 <= IndexMaxDemands

(* rebuildIndex takes the latest block, ...                                *)
Rebuild(r) ==
    /\ run[r].step = "rebuild"
    /\ run' = [run EXCEPT ![r] = [NoRun EXCEPT !.step = "count", !.block = head, !.whole = TRUE]]
    /\ Unmoved

(* ... counts the demands at its number, and will read them all.           *)
Count(r) ==
    /\ run[r].step = "count"
    /\ \E b \in Canonical(Height[run[r].block]) :
          IF Capacity(NextDemandId[b])
          THEN /\ run' = [run EXCEPT ![r].step = "read",
                                     ![r].todo = (1 .. NextDemandId[b] - 1) \X Part]
               /\ Unmoved
          ELSE Fail(r)

TooFar(current) ==
    Height[current] - Height[index.block] > IndexMaxLogWindows * LogWindow

(* refreshIndex takes the latest block.                                    *)
Current(r) ==
    /\ run[r].step = "current"
    /\ run' = [run EXCEPT ![r].step = IF Height[head] < Height[index.block] \/ TooFar(head)
                                      THEN "rebuild" ELSE "indexed",
                          ![r].block = head]
    /\ Unmoved

StillIndexed(b, current) == b = index.block

(* The checkpoint must be canonical still; if nothing came after it, the   *)
(* refresh is done.                                                        *)
Indexed(r) ==
    /\ run[r].step = "indexed"
    /\ \E b \in Canonical(Height[index.block]) :
          \/ /\ ~StillIndexed(b, run[r].block)
             /\ Goto(r, "rebuild")
             /\ Unmoved
          \/ /\ StillIndexed(b, run[r].block)
             /\ Height[run[r].block] = Height[index.block]
             /\ Settle(r, "done")
             /\ UNCHANGED <<index, failures>>
          \/ /\ StillIndexed(b, run[r].block)
             /\ Height[run[r].block] # Height[index.block]
             /\ IF (Height[run[r].block] - Height[index.block] - 1) \div LogWindow + 1
                      > IndexMaxLogWindows
                THEN Fail(r)
                ELSE /\ run' = [run EXCEPT ![r].step = "logs",
                                           ![r].cursor = Height[index.block] + 1]
                     /\ Unmoved

NextWindow(end) == end + 1

TooMany(logs) == logs > IndexMaxDemands * 10

(* changedDemandIds, one window of logs at a time.                         *)
Logs(r) ==
    LET end == Min({run[r].cursor + LogWindow - 1, Height[run[r].block]})
        ids == run[r].ids \cup LogsOf(run[r].cursor, end)
    IN  /\ run[r].step = "logs"
        /\ IF TooMany(LogCount(run[r].cursor, end)) \/ Cardinality(ids) > IndexMaxDemands
           THEN Fail(r)
           ELSE /\ run' = [run EXCEPT
                       ![r].ids = ids,
                       ![r].cursor = NextWindow(end),
                       ![r].step = IF NextWindow(end) <= Height[run[r].block]
                                   THEN "logs" ELSE "missing"]
                /\ Unmoved

(* Demands the index has not got are read as well.                         *)
Missing(r) ==
    /\ run[r].step = "missing"
    /\ \E b \in Canonical(Height[run[r].block]) :
          LET new == {d \in 1 .. NextDemandId[b] - 1 : index.entries[d] = NoEntry}
          IN  IF Capacity(NextDemandId[b])
              THEN /\ run' = [run EXCEPT ![r].step = "read",
                                         ![r].todo = (run[r].ids \cup new) \X Part]
                   /\ Unmoved
              ELSE Fail(r)

(* One of the calls of readEntry, at the number of the refresh's block.    *)
Read(r) ==
    /\ run[r].step = "read"
    /\ \E b \in Canonical(Height[run[r].block]), dp \in run[r].todo :
          IF dp[1] < NextDemandId[b]
          THEN /\ run' = [run EXCEPT ![r].todo = @ \ {dp},
                                     ![r].updates[dp[1]][dp[2]] = Changed(b, dp[1])]
               /\ Unmoved
          ELSE Fail(r)

(* Faulty: the block's number is enough.                                   *)
SameBlockByNumber(b, block) == Height[b] = Height[block]

SameBlock(b, block) == b = block

Rebuilt(updates) ==
    [index EXCEPT !.entries = updates, !.version = @ + 1,
                  !.versions = [d \in Demand |->
                      IF updates[d] = NoEntry THEN 0 ELSE index.version + 1]]

(* In the order in which the answers came, which is any.                   *)
Updated(updates, order) ==
    LET ids == {d \in Demand : updates[d] # NoEntry}
    IN  [index EXCEPT
            !.entries = [d \in Demand |-> IF d \in ids THEN updates[d] ELSE @[d]],
            !.version = @ + Cardinality(ids),
            !.versions = [d \in Demand |->
                IF d \in ids THEN index.version + order[d] ELSE @[d]]]

Orders(ids) ==
    {o \in [ids -> 1 .. Cardinality(ids)] : \A d, e \in ids : d # e => o[d] # o[e]}

(* The block must be canonical still; then all is published at once.       *)
Publish(r) ==
    /\ run[r].step = "read" /\ run[r].todo = {}
    /\ \E b \in Canonical(Height[run[r].block]) :
          IF SameBlock(b, run[r].block)
          THEN /\ \/ /\ run[r].whole
                     /\ index' = [Rebuilt(run[r].updates) EXCEPT
                                     !.ready = TRUE, !.block = run[r].block]
                  \/ /\ ~run[r].whole
                     /\ \E order \in Orders({d \in Demand : run[r].updates[d] # NoEntry}) :
                           index' = [Updated(run[r].updates, order) EXCEPT
                                        !.block = run[r].block]
               /\ Settle(r, "done")
               /\ UNCHANGED failures
          ELSE Fail(r)

(* The chain has become so short that there is no block of that number.    *)
NoSuchBlock(r) ==
    /\ \/ run[r].step \in {"count", "missing", "read"} /\ Canonical(Height[run[r].block]) = {}
       \/ run[r].step = "indexed" /\ Canonical(Height[index.block]) = {}
    /\ Fail(r)

-------------------------------------------------------------------------------
(* The world.                                                              *)

MoveHead(b) ==
    /\ MoveTo(b)
    /\ seen' = seen \cup {b}
    /\ UNCHANGED <<index, fresh, refreshPromise, waiting, run, failures>>

(* indexRefreshMs passes.                                                  *)
Expire ==
    /\ fresh
    /\ fresh' = FALSE
    /\ seen' = {head}
    /\ UNCHANGED <<chain, index, refreshPromise, waiting, run, failures>>

Init ==
    /\ ChainInit /\ seen = {Genesis}
    /\ index = [ready |-> FALSE, entries |-> [d \in Demand |-> NoEntry],
                versions |-> [d \in Demand |-> 0], version |-> 0, block |-> NoBlock]
    /\ fresh = FALSE /\ refreshPromise = NoRequest /\ waiting = {}
    /\ run = [r \in Request |-> NoRun]
    /\ failures = 0

Proceed(r) ==
    \/ Rebuild(r) \/ Count(r) \/ Current(r) \/ Indexed(r)
    \/ Logs(r) \/ Missing(r) \/ Read(r) \/ Publish(r)
    \/ NoSuchBlock(r)

Next ==
    \/ \E r \in Request : Ask(r) \/ Proceed(r) \/ Abort(r)
    \/ \E b \in Block : MoveHead(b)
    \/ Expire

Spec == Init /\ [][Next]_vars

(* Calls return; requests keep coming, and time passes.                    *)
FairSpec ==
    /\ Spec
    /\ \A r \in Request : WF_vars(Proceed(r)) /\ WF_vars(Ask(r))
    /\ WF_vars(Expire)

-------------------------------------------------------------------------------
(* What is published is what the contract held at the published block:     *)
(* every demand there is, each as it was, though the reads were spread     *)
(* over many awaits and named the block by its number only.  And a request *)
(* that is answered without a refresh gets a block that was the chain's    *)
(* head at some time since indexRefreshMs passed last.                     *)
SnapshotOfBlock ==
    /\ TypeOK
    /\ index.ready => \A d \in Demand : index.entries[d] = EntryOf(index.block, d)
    /\ fresh => index.ready /\ index.block \in seen

(* The version of a demand tells the discovery's probes that it changed:   *)
(* it grows beyond all versions before whenever the demand is a different  *)
(* one, and never falls while the demand is there.                         *)
VersionsTell ==
    [][\A d \in Demand : index'.entries[d] # NoEntry =>
          /\ index'.entries[d] # index.entries[d] => index'.versions[d] > index.version
          /\ index'.versions[d] >= index.versions[d]]_vars

(* The index goes back only if the chain did: the published block is       *)
(* replaced by one that came after it, or has been abandoned.              *)
GoesForward ==
    [][index.ready /\ index'.block # index.block =>
          index.block \in Past[index'.block] \cup abandoned]_vars

(* The next refresh is to read a window with more events than it accepts.  *)
Overloaded ==
    /\ index.ready /\ index.block \in Past[head] /\ ~TooFar(head)
    /\ \E k \in 0 .. IndexMaxLogWindows :
          LET first == Height[index.block] + 1 + k * LogWindow
          IN  TooMany(LogCount(first, first + LogWindow - 1))

(* Once calls succeed and the chain rests, the index comes to its head and *)
(* stays there: no checkpoint is one a refresh cannot go on from, unless   *)
(* more events follow it at once than indexMaxDemands allows for.          *)
IndexAtHead == index.ready /\ index.block = head
CatchesUp   == <>[](IndexAtHead \/ Overloaded)
===============================================================================
