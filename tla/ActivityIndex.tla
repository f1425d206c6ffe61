----------------------------- MODULE ActivityIndex -----------------------------
(***************************************************************************)
(* The derived history of the contract's events (backend/activity-index.ts *)
(* over the SQLite store of backend/activity-store.ts).                    *)
(*                                                                         *)
(* One worker appends pages of events up to a target block; paid requests  *)
(* check the checkpoint before they serve the history; the process may be  *)
(* killed, and the operator's commands open the same file.  Every read     *)
(* over RPC is a step; what follows it up to the next await is part of it. *)
(***************************************************************************)
EXTENDS Chain, FiniteSetsExt

CONSTANTS
    Query,             \* paid requests
    Event,             \* an event, known by transactionHash and logIndex
    Creates,           \* those that are DemandCreated
    Log,               \* the events of a block
    DeployBlock,
    LogWindow,         \* 100 blocks for each page
    IndexMaxLogWindows,
    IndexMaxDemands,
    MaxEvents,
    MaxFailures,       \* bound on the calls that fail or take too long
    MaxRestarts

Logs(blocks) == UNION {Log[b] \X {b} : b \in blocks}

(* The contract is there from DeployBlock on; a chain has an event once.   *)
ASSUME LogAssumption ==
    /\ Log \in [Block -> SUBSET Event] /\ Creates \subseteq Event
    /\ DeployBlock \in Nat
    /\ \A b \in Block :
          /\ Height[b] < DeployBlock => Log[b] = {}
          /\ \A l, m \in Logs(Past[b]) : l[1] = m[1] => l = m

ASSUME LimitsAssumption ==
    /\ LogWindow \in Nat \ {0} /\ IndexMaxLogWindows \in Nat \ {0}
    /\ IndexMaxDemands \in Nat /\ MaxEvents \in Nat
    /\ MaxFailures \in Nat /\ MaxRestarts \in Nat

VARIABLES
    db,                \* activity_state with activity_events
    run,               \* the worker
    guard,             \* validateActivityCheckpoint, for each request
    failures,          \* calls that failed so far
    restarts

vars == <<chain, db, run, guard, failures, restarts>>

Anchor == Block \cup {NoBlock}

DbType ==
    [start : Anchor, cutoff : Anchor, target : Anchor,
     coverage : {"complete", "partial", "unavailable"},
     reorg : {"unchecked", "clear", "detected", "rebuilding"},
     events : SUBSET (Event \X Block)]

RunType ==
    [step : {"idle", "stopped", "chain", "head", "start", "cutoff", "target", "pin", "before",
             "logs", "headers", "after", "repin", "count", "startpin", "targetpin"},
     complete : BOOLEAN, detected : BOOLEAN,       \* the state the run began with
     head : Anchor, windows : 0 .. IndexMaxLogWindows,
     before : Anchor, page : SUBSET (Event \X Block), headers : SUBSET Block]

GuardType ==
    [step : {"idle", "asked", "trusted"}, cutoff : Anchor, gone : SUBSET Block]

TypeOK ==
    /\ ChainTypeOK
    /\ db \in DbType /\ run \in RunType /\ guard \in [Query -> GuardType]
    /\ failures \in 0 .. MaxFailures /\ restarts \in 0 .. MaxRestarts

NoDb == [start |-> NoBlock, cutoff |-> NoBlock, target |-> NoBlock,
         coverage |-> "unavailable", reorg |-> "unchecked", events |-> {}]

Idle == [step |-> "idle", complete |-> FALSE, detected |-> FALSE, head |-> NoBlock,
         windows |-> 0, before |-> NoBlock, page |-> {}, headers |-> {}]

(* The scheduler has a failure and sets its timer no more.                 *)
Stopped == [Idle EXCEPT !.step = "stopped"]

NoGuard == [step |-> "idle", cutoff |-> NoBlock, gone |-> {}]

-------------------------------------------------------------------------------
(* The store.                                                              *)

NextBlock(d) == IF d.cutoff = NoBlock THEN DeployBlock ELSE Height[d.cutoff] + 1

Complete(d) == d.coverage = "complete" /\ d.reorg = "clear"

Failed(d) ==
    [d EXCEPT !.coverage = IF d.cutoff = NoBlock THEN "unavailable" ELSE "partial"]

Reset(d) == [NoDb EXCEPT !.reorg = "rebuilding"]

(* The constructor opens a file that was there.                            *)
Opened(d) ==
    [d EXCEPT !.coverage = "unavailable",
              !.reorg = IF @ \in {"detected", "rebuilding"} THEN @ ELSE "unchecked"]

Conflict(d, page) == \E l \in page, m \in d.events : l[1] = m[1] /\ l # m

-------------------------------------------------------------------------------
(* The worker, from one await to the next.                                 *)

Do(d, r) == db' = d /\ run' = r /\ UNCHANGED <<chain, guard, failures, restarts>>

Goto(step) == Do(db, [run EXCEPT !.step = step])

(* ACTIVITY_REORG, ACTIVITY_EVENT_CONFLICT and the checks of the anchors.  *)
Reorg == Do(Reset(db), Idle)

(* Any other error.                                                        *)
Fail == Do(Failed(db), Idle)

PageEnd(d) == Min({NextBlock(d) + LogWindow - 1, Height[d.target]})

(* The head of the loop over pages.                                        *)
Page(d, r) ==
    \/ /\ NextBlock(d) > Height[d.target]
       /\ Do(d, [r EXCEPT !.step = "count"])
    \/ /\ NextBlock(d) <= Height[d.target]
       /\ IF r.windows < IndexMaxLogWindows
          THEN Do(d, [r EXCEPT !.step = IF d.cutoff = NoBlock THEN "before" ELSE "pin"])
          ELSE Do(d, Idle)

(* Faulty: a target is set once.                                           *)
TargetMovesNever(r, d) == d.target = NoBlock

TargetMoves(r, d) ==
    \/ d.target = NoBlock
    \/ r.complete /\ Height[r.head] > Height[d.target]

Retarget(d, r) ==
    IF TargetMoves(r, d) THEN Page([Failed(d) EXCEPT !.target = r.head], r) ELSE Page(d, r)

(* Faulty: a head at the very height is taken for a shorter chain.         *)
ShrunkOrSame(r, b) == Height[r.head] <= Height[b]

Shrunk(r, b) == Height[r.head] < Height[b]

CheckTarget(d, r) ==
    IF d.target = NoBlock THEN Retarget(d, r)
    ELSE IF Shrunk(r, d.target) THEN Reorg
    ELSE Do(d, [r EXCEPT !.step = "target"])

CheckCutoff(d, r) ==
    IF d.cutoff = NoBlock THEN CheckTarget(d, r)
    ELSE IF Shrunk(r, d.cutoff) THEN Reorg
    ELSE Do(d, [r EXCEPT !.step = "cutoff"])

Pinned(b, expected) == b = expected

(* refreshActivity reads the state and waits for the chain's id.           *)
Poll ==
    /\ run.step = "idle"
    /\ Do(db, [Idle EXCEPT !.step = "chain", !.complete = db.coverage = "complete",
                           !.detected = db.reorg = "detected"])

Begin ==
    /\ run.step = "chain"
    /\ IF run.detected THEN Do(Reset(db), [run EXCEPT !.step = "head", !.complete = FALSE])
       ELSE Goto("head")

Head ==
    /\ run.step = "head"
    /\ IF Height[head] < DeployBlock THEN Fail
       ELSE Do(db, [run EXCEPT !.step = "start", !.head = head])

Start ==
    /\ run.step = "start"
    /\ \E b \in Canonical(DeployBlock) :
          IF db.start = NoBlock THEN CheckCutoff([db EXCEPT !.start = b], run)
          ELSE IF Pinned(b, db.start) THEN CheckCutoff(db, run)
          ELSE Reorg

Cutoff ==
    /\ run.step = "cutoff"
    /\ \E b \in Canonical(Height[db.cutoff]) :
          IF Pinned(b, db.cutoff) THEN CheckTarget(db, run) ELSE Reorg

Target ==
    /\ run.step = "target"
    /\ \E b \in Canonical(Height[db.target]) :
          IF Pinned(b, db.target) THEN Retarget(db, run) ELSE Reorg

(* A page: the checkpoint and the last block of the page are looked at     *)
(* before and after the logs are read.                                     *)
Pin ==
    /\ run.step = "pin"
    /\ \E b \in Canonical(Height[db.cutoff]) :
          IF Pinned(b, db.cutoff) THEN Goto("before") ELSE Reorg

Before ==
    /\ run.step = "before"
    /\ \E b \in Canonical(PageEnd(db)) :
          Do(db, [run EXCEPT !.step = "logs", !.before = b])

GetLogs ==
    /\ run.step = "logs"
    /\ LET page == Logs({b \in Past[head] : Height[b] \in NextBlock(db) .. PageEnd(db)})
           headers == {l[2] : l \in page}
       IN  IF Cardinality(page) > 10 * IndexMaxDemands THEN Fail
           ELSE Do(db, [run EXCEPT !.step = IF headers = {} THEN "after" ELSE "headers",
                                   !.page = page, !.headers = headers])

(* The block of each log is read by its number.                            *)
Headers ==
    /\ run.step = "headers"
    /\ \E c \in run.headers :
          /\ \A d \in run.headers : Height[c] <= Height[d]
          /\ \E b \in Canonical(Height[c]) :
                IF b # c THEN Reorg
                ELSE Do(db, [run EXCEPT !.headers = @ \ {c},
                                        !.step = IF run.headers = {c} THEN "after" ELSE "headers"])

(* Faulty: the last block of the page is not looked at again.              *)
SamePageUnchecked(b) == TRUE

SamePage(b) == Pinned(b, run.before)

AtTarget(b) == Height[b] = Height[db.target] => Pinned(b, db.target)

(* commitPage: events and cursor in one transaction.                       *)
Commit(end) ==
    IF db.reorg = "detected" \/ Conflict(db, run.page) THEN Reorg
    ELSE IF Cardinality(db.events \cup run.page) > MaxEvents THEN Fail
    ELSE Page([db EXCEPT !.cutoff = end, !.events = @ \cup run.page, !.coverage = "partial"],
              [run EXCEPT !.windows = @ + 1, !.before = NoBlock, !.page = {}])

After ==
    /\ run.step = "after"
    /\ \E b \in Canonical(PageEnd(db)) :
          IF ~SamePage(b) THEN Reorg
          ELSE IF db.cutoff # NoBlock THEN Do(db, [run EXCEPT !.step = "repin", !.before = b])
          ELSE IF AtTarget(b) THEN Commit(b)
          ELSE Reorg

Repin ==
    /\ run.step = "repin"
    /\ \E b \in Canonical(Height[db.cutoff]) :
          IF Pinned(b, db.cutoff) /\ AtTarget(run.before) THEN Commit(run.before) ELSE Reorg

(* At the target: nextDemandId must be what the events say.                *)
Created(events) == Cardinality({l \in events : l[1] \in Creates})

Count ==
    /\ run.step = "count"
    /\ \E b \in Canonical(Height[db.target]) :
          IF /\ Created(Logs(Past[b])) <= IndexMaxDemands
             /\ Created(Logs(Past[b])) = Created(db.events)
          THEN Goto("startpin") ELSE Fail

StartPin ==
    /\ run.step = "startpin"
    /\ \E b \in Canonical(Height[db.start]) :
          IF Pinned(b, db.start) THEN Goto("targetpin") ELSE Reorg

TargetPin ==
    /\ run.step = "targetpin"
    /\ \E b \in Canonical(Height[db.target]) :
          IF Pinned(b, db.target) /\ db.reorg # "detected"
          THEN Do([db EXCEPT !.coverage = "complete", !.reorg = "clear"], Idle)
          ELSE Reorg

(* A block is asked for that the chain has not got (any more).             *)
NoSuchBlock ==
    /\ \/ run.step \in {"start", "startpin"} /\ Canonical(DeployBlock) = {}
       \/ run.step \in {"cutoff", "pin", "repin"} /\ Canonical(Height[db.cutoff]) = {}
       \/ run.step \in {"target", "count", "targetpin"} /\ Canonical(Height[db.target]) = {}
       \/ run.step \in {"before", "after"} /\ Canonical(PageEnd(db)) = {}
       \/ /\ run.step = "headers"
          /\ \E c \in run.headers : /\ Canonical(Height[c]) = {}
                                    /\ \A d \in run.headers : Height[c] <= Height[d]
    /\ Fail

(* A call fails, or ACTIVITY_BUDGET.                                       *)
Abort ==
    /\ run.step \notin {"idle", "stopped"}
    /\ failures < MaxFailures
    /\ failures' = failures + 1
    /\ db' = Failed(db) /\ run' = Idle
    /\ UNCHANGED <<chain, guard, restarts>>

(* The store throws, and again when the failure is to be noted; what it    *)
(* threw at was not committed.                                             *)
StoreThrows ==
    /\ run.step \notin {"idle", "stopped"}
    /\ failures < MaxFailures
    /\ failures' = failures + 1
    /\ run' = Stopped
    /\ UNCHANGED <<chain, db, guard, restarts>>

-------------------------------------------------------------------------------
(* A paid request.                                                         *)

(* validateActivityCheckpoint reads the state, ...                         *)
Ask(q) ==
    /\ guard[q].step = "idle"
    /\ Complete(db)
    /\ guard' = [guard EXCEPT ![q] = [step |-> "asked", cutoff |-> db.cutoff, gone |-> abandoned]]
    /\ UNCHANGED <<chain, db, run, failures, restarts>>

(* ... the block under the checkpoint's number, and the state again.       *)
Check(q) ==
    /\ guard[q].step = "asked"
    /\ \E b \in Canonical(Height[guard[q].cutoff]) :
          \/ /\ Complete(db) /\ db.cutoff = guard[q].cutoff
             /\ Pinned(b, db.cutoff)
             /\ guard' = [guard EXCEPT ![q].step = "trusted"]
             /\ UNCHANGED db
          \/ /\ Complete(db) /\ db.cutoff = guard[q].cutoff
             /\ ~Pinned(b, db.cutoff)
             /\ guard' = [guard EXCEPT ![q] = NoGuard]
             /\ db' = [db EXCEPT !.coverage = "unavailable", !.reorg = "detected"]
          \/ /\ ~(Complete(db) /\ db.cutoff = guard[q].cutoff)
             /\ guard' = [guard EXCEPT ![q] = NoGuard]
             /\ UNCHANGED db
    /\ UNCHANGED <<chain, run, failures, restarts>>

(* The call fails: setFailure, whatever the worker has done meanwhile.     *)
CheckFails(q) ==
    /\ guard[q].step = "asked"
    /\ \/ Canonical(Height[guard[q].cutoff]) = {} /\ UNCHANGED failures
       \/ failures < MaxFailures /\ failures' = failures + 1
    /\ guard' = [guard EXCEPT ![q] = NoGuard]
    /\ db' = Failed(db)
    /\ UNCHANGED <<chain, run, restarts>>

(* The route goes on with the state and the events as they are by then.    *)
Answer(q) ==
    /\ guard[q].step = "trusted"
    /\ guard' = [guard EXCEPT ![q] = NoGuard]
    /\ UNCHANGED <<chain, db, run, failures, restarts>>

-------------------------------------------------------------------------------
(* The process dies and comes back; of two writes without an await between *)
(* them, the start anchor and the target, it may have done the first.      *)
Restart ==
    /\ restarts < MaxRestarts
    /\ restarts' = restarts + 1
    /\ \/ db' = Opened(db)
       \/ /\ run.step = "start" /\ db.start = NoBlock
          /\ \E b \in Canonical(DeployBlock) : db' = Opened([db EXCEPT !.start = b])
    /\ run' = Idle /\ guard' = [q \in Query |-> NoGuard]
    /\ UNCHANGED <<chain, failures>>

(* activity:ops opens the file, with the API at work or not.               *)
Operate ==
    /\ restarts < MaxRestarts
    /\ restarts' = restarts + 1
    /\ db' = Opened(db)
    /\ UNCHANGED <<chain, run, guard, failures>>

MoveHead(b) == MoveTo(b) /\ UNCHANGED <<db, run, guard, failures, restarts>>

Init ==
    /\ ChainInit
    /\ db = NoDb /\ run = Idle /\ guard = [q \in Query |-> NoGuard]
    /\ failures = 0 /\ restarts = 0

Work ==
    \/ Poll \/ Begin \/ Head \/ Start \/ Cutoff \/ Target
    \/ Pin \/ Before \/ GetLogs \/ Headers \/ After \/ Repin
    \/ Count \/ StartPin \/ TargetPin \/ NoSuchBlock

Next ==
    \/ Work \/ Abort \/ StoreThrows
    \/ \E q \in Query : Ask(q) \/ Check(q) \/ CheckFails(q) \/ Answer(q)
    \/ Restart \/ Operate
    \/ \E b \in Block : MoveHead(b)

Spec == Init /\ [][Next]_vars

(* The worker is polled until it has stopped; its calls return or time     *)
(* out.                                                                    *)
FairSpec == Spec /\ WF_vars(Work)

-------------------------------------------------------------------------------
(* The store holds the events of one chain, from the contract's block to   *)
(* the checkpoint, all of them and no other, whatever page was written     *)
(* while the chain reorganised and wherever the process was killed; and    *)
(* "complete" is said of a checkpoint that is the target.                  *)
StoreIsPrefix ==
    /\ TypeOK
    /\ db.events = IF db.cutoff = NoBlock THEN {} ELSE Logs(Past[db.cutoff])
    /\ db.coverage = "complete" =>
          db.cutoff # NoBlock /\ db.cutoff = db.target /\ db.start \in Past[db.cutoff]

(* A history that is served was the chain's when the request came or has   *)
(* become it since: its checkpoint was not abandoned before that.          *)
ServedIsCanonical ==
    \A q \in Query :
        guard[q].step = "trusted" /\ Complete(db) => db.cutoff \notin guard[q].gone

(* What a paid answer is made from: the whole history of one chain, and    *)
(* that the canonical one.                                                 *)
HistoryIsTrue == StoreIsPrefix /\ ServedIsCanonical

(* History is thrown away only when one of the blocks it is built on, or   *)
(* was to reach, has been reorganised away: no failure costs a rebuild.    *)
HistoryKept ==
    [][db.cutoff # NoBlock /\ db'.cutoff = NoBlock =>
          {db.start, db.cutoff, db.target} \cap abandoned # {}]_vars

Fits(b) ==
    /\ Height[b] >= DeployBlock
    /\ Cardinality(Logs(Past[b])) <= MaxEvents /\ Created(Logs(Past[b])) <= IndexMaxDemands

(* Once calls succeed and the chain rests, the history becomes complete    *)
(* up to the head, unless it is more than the limits allow, or the store   *)
(* has thrown: then nothing is done for it until the process is restarted. *)
ComesBack ==
    <>[](run.step = "stopped" \/ (Fits(head) => Complete(db) /\ db.cutoff = head))
===============================================================================
