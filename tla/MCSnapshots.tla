------------------------------- MODULE MCSnapshots ------------------------------
(***************************************************************************)
(* The two readers of the contract's demands, the API's index and the      *)
(* browser's board, on one chain: four blocks and a branch of one or two.  *)
(* The first demand is supported on both; the second one is created in the *)
(* chain and, by the second block, on the branch.                          *)
(*                                                                         *)
(* The readers know nothing of each other, so in each behaviour one of     *)
(* them reads and the other stays as it begins.                            *)
(***************************************************************************)
EXTENDS DemandIndex, MarketBoard

CONSTANTS
    r1, r2, g, a1, a2, a3, b1, b2,
    BoardBlocks            \* bound: the blocks a board lives to see

VARIABLE part

MCPast ==
    [b \in Block |-> CASE b = g  -> {g}
                       [] b = a1 -> {g, a1}
                       [] b = a2 -> {g, a1, a2}
                       [] b = a3 -> {g, a1, a2, a3}
                       [] b = b1 -> {g, b1}
                       [] b = b2 -> {g, b1, b2}]

MCHeight == [b \in Block |-> Cardinality(MCPast[b]) - 1]

MCTouched ==
    [b \in Block |-> CASE b \in {g, a2, b1} -> {1} [] b \in {a1, b2} -> {2} [] b = a3 -> {}]

(* A block with more events than indexMaxDemands allows for is on the      *)
(* branch, for an index that comes to it from the first block.             *)
MCEventCount ==
    [b \in Block |-> IF b = b1 THEN 10 * IndexMaxDemands + 1 ELSE Cardinality(MCTouched[b])]

MCNextDemandId == [b \in Block |-> IF b \in {g, b1} THEN 2 ELSE 3]

ofIndex == <<index, fresh, refreshPromise, waiting, run, seen, failures>>
ofBoard == <<board, cursor, boardLoading, boardError, boardRefreshRequest, action, reader,
             readFailures>>
snapshotVars == <<chain, ofIndex, ofBoard, part>>

MCInit == part \in {"index", "board"} /\ Init /\ BoardInit

Index(act) ==
    /\ part = "index"
    /\ act
    /\ UNCHANGED <<ofBoard, part>>

Board(act) ==
    /\ part = "board"
    /\ act
    /\ head' \in BoardBlocks
    /\ UNCHANGED <<ofIndex, part>>

MCNext == Index(Next) \/ Board(BoardNext)

(* The fairness of FairSpec and of BoardFairSpec, less what follows from   *)
(* the two actions of a conjunct never being enabled together.             *)
MCSpec ==
    /\ MCInit /\ [][MCNext]_snapshotVars
    /\ \A r \in Request : WF_snapshotVars(Index(Proceed(r) \/ Ask(r)))
    /\ WF_snapshotVars(Index(Expire))
    /\ \A x \in Refresh : WF_snapshotVars(Board(BoardProceed(x)))
    /\ WF_snapshotVars(Board(BoardProceed(Poll) \/ BeginPoll))

(* Nothing that was shown or published is replaced by something older,     *)
(* unless the chain went back, and the index's versions tell it            *)
(* (refreshIndex, and App's refreshes and polls).                          *)
NothingGoesBack == VersionsTell /\ GoesForward /\ BoardGoesForward

(* Either reader comes to the chain's head again when the chain rests      *)
(* (ensureIndex; the poll of the market, once its user rests as well):     *)
(* CatchesUp of the one and BoardCatchesUp of the other.                   *)
ReadersCatchUp == <>[]~Busy => <>[](IF part = "index" THEN IndexAtHead \/ Overloaded
                                  ELSE BoardAtHead)
===============================================================================
