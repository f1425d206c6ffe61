------------------------------- MODULE DemandChain ------------------------------
(***************************************************************************)
(* What the escrow contract holds after each block, as far as the readers  *)
(* of its demands can tell: how many demands there are and which of them a *)
(* block's events name.                                                    *)
(***************************************************************************)
EXTENDS Chain, FiniteSetsExt

CONSTANTS
    NextDemandId,      \* nextDemandId() in the state after a block
    Touched,           \* demands named by the events of a block
    EventCount         \* how many events it has

Demand == 1 .. Max({NextDemandId[b] : b \in Block}) - 1

(* A demand changes only in a block with an event that names it.           *)
ASSUME DemandAssumption ==
    /\ NextDemandId \in [Block -> Nat \ {0}]
    /\ Touched \in [Block -> SUBSET Demand]
    /\ EventCount \in [Block -> Nat]
    /\ \A b \in Block : Cardinality(Touched[b]) <= EventCount[b]
    /\ \A b \in Block : UNION {Touched[c] : c \in Past[b]} = 1 .. NextDemandId[b] - 1

(* What a demand is after a block is known by the block that changed it    *)
(* last.                                                                   *)
Changed(b, d) ==
    CHOOSE c \in Past[b] :
        /\ d \in Touched[c]
        /\ \A e \in Past[b] : d \in Touched[e] => Height[e] <= Height[c]

(* getLogs over an interval of block numbers: the demands that the logs    *)
(* name, and how many logs there are.                                      *)
Between(first, last) == {b \in Past[head] : Height[b] \in first .. last}

LogsOf(first, last) == UNION {Touched[b] : b \in Between(first, last)}

LogCount(first, last) ==
    MapThenSumSet(LAMBDA b : EventCount[b], Between(first, last))
===============================================================================
