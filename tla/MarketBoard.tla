------------------------------- MODULE MarketBoard ------------------------------
(***************************************************************************)
(* The demands the browser shows (frontend/App.tsx) and how they are kept  *)
(* up to date: whole snapshots at the start, on demand and after every     *)
(* transaction (refresh), and between them a poll that reads what the      *)
(* events since the last block name (synchronizeMarketBoard of             *)
(* frontend/contract.ts).  Several refreshes and one poll may be under way *)
(* at once, each a row of reads that name their block by its number, with  *)
(* an await between any two, while the chain grows and reorganises.        *)
(*                                                                         *)
(* The four views a demand is put together from are read at once here; the *)
(* wallet's part of an action is module TransactionLifecycle's.            *)
(***************************************************************************)
EXTENDS DemandChain

CONSTANTS
    MarketLogRange,        \* MARKET_SYNC_LOG_RANGE
    MarketMaxLogRanges,    \* MARKET_SYNC_MAX_LOG_RANGES_PER_POLL
    CheckpointHolds,       \* no reorganisation between two reads of a poll
    MaxRefreshes,          \* bound on the refreshes
    MaxReadFailures        \* bound on the calls that fail

ASSUME MarketAssumption ==
    /\ MarketLogRange \in Nat \ {0} /\ MarketMaxLogRanges \in Nat \ {0}
    /\ CheckpointHolds \in BOOLEAN
    /\ MaxRefreshes \in Nat \ {0} /\ MaxReadFailures \in Nat

VARIABLES
    board,                 \* each demand shown, by the block that changed it last
    cursor,                \* marketSyncCursor: the block the board is of
    boardLoading,
    boardError,            \* the latest read of the board has failed
    boardRefreshRequest,   \* number of the latest refresh
    action,                \* what keeps the page busy
    reader,                \* the refreshes and the poll
    readFailures           \* calls that failed so far

boardVars ==
    <<chain, board, cursor, boardLoading, boardError, boardRefreshRequest, action, reader,
      readFailures>>

Refresh == 1 .. MaxRefreshes
Poll    == 0

NoDemands == [d \in Demand |-> NoBlock]

BoardOf(b) == [d \in Demand |-> IF d < NextDemandId[b] THEN Changed(b, d) ELSE NoBlock]

ReadStep ==
    {"none", "latest", "count", "demands", "head", "checkpoint", "target", "logs"}

(* A reader pins a block and names it by its number.  For the poll: the    *)
(* cursor it goes on from, whether marketSyncGeneration is still what it   *)
(* was, and the demands that the logs before `next` name.                  *)
Reading ==
    [step: ReadStep, block: Block \cup {NoBlock}, number: Nat,
     from: Block \cup {NoBlock}, current: BOOLEAN, next: Nat,
     todo: SUBSET Demand, got: [Demand -> Block \cup {NoBlock}]]

NoReading ==
    [step |-> "none", block |-> NoBlock, number |-> 0, from |-> NoBlock,
     current |-> FALSE, next |-> 0, todo |-> {}, got |-> NoDemands]

(* An action of the user's: the block that was the head when it was        *)
(* confirmed, the refresh it then began, and whether that one succeeded.   *)
ActionStage == {"none", "working", "reading", "read"}

Action == [stage: ActionStage, at: Block \cup {NoBlock}, refresh: Nat, ok: BOOLEAN]

BoardTypeOK ==
    /\ ChainTypeOK
    /\ board \in [Demand -> Block \cup {NoBlock}] /\ cursor \in Block \cup {NoBlock}
    /\ boardLoading \in BOOLEAN /\ boardError \in BOOLEAN
    /\ boardRefreshRequest \in 0 .. MaxRefreshes
    /\ action \in Action
    /\ reader \in [Refresh \cup {Poll} -> Reading]
    /\ readFailures \in 0 .. MaxReadFailures

-------------------------------------------------------------------------------
Busy == action.stage # "none"

(* setBoardLoading(true) and setBusy(true) count marketSyncGeneration up.  *)
Outdated == [reader EXCEPT ![Poll].current = FALSE]

BeginRefresh ==
    LET n == boardRefreshRequest + 1
    IN  /\ n \in Refresh
        /\ boardRefreshRequest' = n
        /\ boardLoading' = TRUE
        /\ reader' = [Outdated EXCEPT ![n] = [NoReading EXCEPT !.step = "latest"]]

(* At the start, by a button of the page, or by the creation chat's.       *)
PressRefresh ==
    /\ BeginRefresh
    /\ UNCHANGED <<chain, board, cursor, boardError, action, readFailures>>

(* The timer, or the tab that becomes visible.                             *)
BeginPoll ==
    /\ cursor # NoBlock
    /\ reader[Poll].step = "none" /\ ~boardLoading /\ ~Busy
    /\ reader' = [reader EXCEPT ![Poll] =
                     [NoReading EXCEPT !.step = "head", !.from = cursor, !.block = cursor,
                                       !.current = TRUE, !.got = board]]
    /\ UNCHANGED <<chain, board, cursor, boardLoading, boardError, boardRefreshRequest,
                   action, readFailures>>

-------------------------------------------------------------------------------
(* How a reader ends.                                                      *)

Latest(n) == n = boardRefreshRequest

(* Faulty: only what is under way now keeps the poll's result away.        *)
UndisturbedNow == ~boardLoading /\ ~Busy

Undisturbed == reader[Poll].current /\ ~boardLoading /\ ~Busy

Applies(x) == IF x = Poll THEN Undisturbed ELSE Latest(x)

StillLoading(x) == boardLoading /\ ~(x \in Refresh /\ Latest(x))

Conclude(x, ok) ==
    LET r == reader[x]
    IN  /\ reader' = [reader EXCEPT ![x] = NoReading]
        /\ IF ok /\ Applies(x)
           THEN cursor' = r.block /\ board' = r.got
           ELSE UNCHANGED <<cursor, board>>
        /\ boardLoading' = StillLoading(x)
        /\ boardError' = IF Applies(x) THEN ~ok ELSE boardError
        /\ action' = IF action.stage = "reading" /\ action.refresh = x
                     THEN [action EXCEPT !.stage = "read", !.ok = ok /\ Latest(x)]
                     ELSE action
        /\ UNCHANGED <<chain, boardRefreshRequest>>

Give(x, r) ==
    /\ reader' = [reader EXCEPT ![x] = r]
    /\ UNCHANGED <<chain, board, cursor, boardLoading, boardError, boardRefreshRequest,
                   action, readFailures>>

(* A call fails or takes too long, or answers with an error.               *)
ReadFails(x) ==
    /\ reader[x].step # "none"
    /\ readFailures < MaxReadFailures
    /\ readFailures' = readFailures + 1
    /\ Conclude(x, FALSE)

(* Faulty: a poll never gets beyond the block it began with.               *)
FarthestNone(r) == Height[r.from]

Farthest(r) ==
    Min({r.number, Height[r.from] + MarketLogRange * MarketMaxLogRanges})

(* The chain has become so short that there is no such block, or the       *)
(* demand is not in the block that is.                                     *)
NotThere(x) ==
    LET r == reader[x]
    IN  /\ \/ r.step \in {"count", "demands"} /\ Canonical(r.number) = {}
           \/ r.step = "demands"
              /\ \E b \in Canonical(r.number), d \in r.todo : d >= NextDemandId[b]
           \/ r.step = "checkpoint" /\ Canonical(Height[r.from]) = {}
           \/ r.step = "target" /\ Canonical(r.number) = {}
        /\ Conclude(x, FALSE)
        /\ UNCHANGED readFailures

-------------------------------------------------------------------------------
(* readBoardSnapshot: the latest block, ...                                *)
ReadLatest(x) ==
    /\ reader[x].step = "latest"
    /\ Give(x, [reader[x] EXCEPT !.step = "count", !.block = head,
                                 !.number = Height[head], !.got = NoDemands])

(* ... the number of demands, ...                                          *)
ReadCount(x) ==
    /\ reader[x].step = "count"
    /\ \E b \in Canonical(reader[x].number) :
          Give(x, [reader[x] EXCEPT !.step = "demands", !.todo = 1 .. NextDemandId[b] - 1])

(* ... and each of them, in any order.                                     *)
ReadDemand(x, d) ==
    /\ reader[x].step = "demands" /\ d \in reader[x].todo
    /\ \E b \in Canonical(reader[x].number) :
          /\ d < NextDemandId[b]
          /\ Give(x, [reader[x] EXCEPT !.todo = @ \ {d}, !.got[d] = Changed(b, d)])

(* Faulty: there is still a block of that number.                          *)
SamePinnedNumber(b, r) == Height[b] = r.number

SamePinned(b, r) == b = r.block

(* The pinned block must be canonical still: MARKET_SNAPSHOT_REORGED.      *)
ReadSame(x) ==
    /\ reader[x].step = "demands" /\ reader[x].todo = {}
    /\ \E b \in Canonical(reader[x].number) : Conclude(x, SamePinned(b, reader[x]))
    /\ UNCHANGED readFailures

(* synchronizeMarketBoard: the head's number, ...                          *)
ReadHead(x) ==
    LET r == reader[x]
    IN  /\ r.step = "head"
        /\ Give(x, IF Height[head] < Height[r.from]
                   THEN [r EXCEPT !.step = "latest"]
                   ELSE [r EXCEPT !.step = "checkpoint", !.number = Height[head]])

(* ... whether the cursor's block is canonical still, and whether anything *)
(* came after it: if not, the board stays, and its error goes; ...         *)
ReadCheckpoint(x) ==
    LET r == reader[x]
    IN  /\ r.step = "checkpoint"
        /\ \E b \in Canonical(Height[r.from]) :
              \/ /\ b # r.from
                 /\ Give(x, [r EXCEPT !.step = "latest"])
              \/ /\ b = r.from /\ r.number = Height[r.from]
                 /\ Conclude(x, TRUE)
                 /\ UNCHANGED readFailures
              \/ /\ b = r.from /\ r.number > Height[r.from]
                 /\ Give(x, [r EXCEPT !.step = "target"])

(* ... the last block of this poll, ...                                    *)
ReadTarget(x) ==
    LET r == reader[x]
    IN  /\ r.step = "target"
        /\ \E b \in Canonical(Farthest(r)) :
              Give(x, [r EXCEPT !.step = "logs", !.block = b, !.number = Farthest(r),
                                !.next = Height[r.from] + 1])

(* ... and the logs up to it, range by range; then the demands they name.  *)
ReadLogs(x) ==
    LET r   == reader[x]
        end == Min({r.next + MarketLogRange - 1, r.number})
    IN  /\ r.step = "logs"
        /\ Give(x, [r EXCEPT !.todo = @ \cup LogsOf(r.next, end), !.next = end + 1,
                             !.step = IF end < r.number THEN "logs" ELSE "demands"])

-------------------------------------------------------------------------------
(* The user, and the chain.                                                *)

(* run, verifyPendingTransaction and connect, one at a time: their buttons *)
(* are off while the page is busy.  What does not come to a confirmed      *)
(* transaction just ends.                                                  *)
BeginAction ==
    /\ ~Busy
    /\ action' = [stage |-> "working", at |-> NoBlock, refresh |-> 0, ok |-> FALSE]
    /\ reader' = Outdated
    /\ UNCHANGED <<chain, board, cursor, boardLoading, boardError, boardRefreshRequest,
                   readFailures>>

(* afterConfirmedTransaction                                               *)
Confirmed ==
    /\ action.stage = "working"
    /\ BeginRefresh
    /\ action' = [action EXCEPT !.stage = "reading", !.at = head,
                                !.refresh = boardRefreshRequest + 1]
    /\ UNCHANGED <<chain, board, cursor, boardError, readFailures>>

EndAction ==
    /\ action.stage \in {"working", "read"}
    /\ action' = [action EXCEPT !.stage = "none"]
    /\ UNCHANGED <<chain, board, cursor, boardLoading, boardError, boardRefreshRequest,
                   reader, readFailures>>

(* The checkpoint's place in the chain is looked at in one call and the    *)
(* target in the next: a reorganisation in between goes unnoticed.         *)
BoardMoveHead(b) ==
    /\ (CheckpointHolds /\ reader[Poll].step = "target") => reader[Poll].from \in Past[b]
    /\ MoveTo(b)
    /\ UNCHANGED <<board, cursor, boardLoading, boardError, boardRefreshRequest, action,
                   reader, readFailures>>

BoardInit ==
    /\ ChainInit
    /\ board = NoDemands /\ cursor = NoBlock
    /\ boardLoading = TRUE /\ boardError = FALSE /\ boardRefreshRequest = 0
    /\ action = [stage |-> "none", at |-> NoBlock, refresh |-> 0, ok |-> FALSE]
    /\ reader = [x \in Refresh \cup {Poll} |-> NoReading]
    /\ readFailures = 0

BoardProceed(x) ==
    \/ ReadLatest(x) \/ ReadCount(x) \/ (\E d \in Demand : ReadDemand(x, d)) \/ ReadSame(x)
    \/ ReadHead(x) \/ ReadCheckpoint(x) \/ ReadTarget(x) \/ ReadLogs(x)
    \/ NotThere(x)

BoardNext ==
    \/ PressRefresh \/ BeginPoll
    \/ \E x \in Refresh \cup {Poll} : BoardProceed(x) \/ ReadFails(x)
    \/ BeginAction \/ Confirmed \/ EndAction
    \/ \E b \in Block : BoardMoveHead(b)

BoardSpec == BoardInit /\ [][BoardNext]_boardVars

(* Calls return, and the tab stays visible on a page of the market.        *)
BoardFairness ==
    /\ \A x \in Refresh \cup {Poll} : WF_boardVars(BoardProceed(x))
    /\ WF_boardVars(BeginPoll)

BoardFairSpec == BoardSpec /\ BoardFairness

-------------------------------------------------------------------------------
(* Whatever reads went into it, the board is what the contract held at the *)
(* cursor's block, every demand of it: otherwise a poll that goes on from  *)
(* the cursor would never read what is wrong again.                        *)
BoardIsOfCursor ==
    /\ BoardTypeOK
    /\ cursor # NoBlock => board = BoardOf(cursor)

(* An older board never takes the place of a newer one, however slow the   *)
(* refreshes and polls that read them, unless the chain itself went back.  *)
BoardGoesForward ==
    [][cursor' # cursor /\ cursor # NoBlock =>
          cursor \in Past[cursor'] \cup abandoned]_boardVars

(* What the page makes of a demand it is asked for.                        *)
DetailLoad(d) ==
    IF board[d] # NoBlock THEN "ready"
    ELSE IF boardLoading THEN "loading"
    ELSE IF boardError THEN "error" ELSE "not-found"

(* What the market page makes of the whole board, ...                      *)
OnBoard == {d \in Demand : board[d] # NoBlock}

ListState ==
    IF OnBoard # {} THEN "list"
    ELSE IF boardLoading THEN "loading"
    ELSE IF boardError THEN "error" ELSE "zero"

(* ... and the analytics page, which adds a word on how old its numbers    *)
(* are: the latest read has failed, and they are the last successful one's.*)
AnalyticsState ==
    IF OnBoard = {} /\ boardLoading THEN "loading"
    ELSE IF OnBoard = {} /\ boardError THEN "error"
    ELSE IF boardError THEN "last successful" ELSE "numbers"

(* Once an action's readback has succeeded, the board shows the action's   *)
(* effect and goes on showing it.  And that a demand was not found, or     *)
(* that there are no requests yet, is said only if the contract did not    *)
(* have it, or had none, at a block that was read, never because nothing   *)
(* could be read; likewise the numbers of an earlier board.                *)
BoardTellsTruth ==
    /\ (action.ok /\ action.at \notin abandoned) => action.at \in Past[cursor]
    /\ \A d \in Demand :
           DetailLoad(d) = "not-found" => cursor # NoBlock /\ d >= NextDemandId[cursor]
    /\ (ListState = "zero" \/ (AnalyticsState = "numbers" /\ OnBoard = {})) =>
           cursor # NoBlock /\ \A d \in Demand : d >= NextDemandId[cursor]
    /\ AnalyticsState = "last successful" =>
           cursor # NoBlock /\ OnBoard = {d \in Demand : d < NextDemandId[cursor]}

(* When the user and the chain rest, the board comes to the head.  Without *)
(* any board there is no poll: only a refresh gets the first one.          *)
BoardAtHead    == cursor # NoBlock => cursor = head
BoardCatchesUp == <>[]~Busy => <>[]BoardAtHead
===============================================================================
