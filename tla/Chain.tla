---------------------------------- MODULE Chain ----------------------------------
(***************************************************************************)
(* The chain as the API sees it over RPC: a tree of blocks, given by       *)
(* constants, with a head that moves.  A block is read by its number, and  *)
(* what is found under a number depends on the head.                       *)
(***************************************************************************)
EXTENDS Integers, FiniteSets

CONSTANTS
    Block,
    NoBlock,
    Genesis,
    Height,            \* block.number
    Past               \* the chain that ends in a block, with it

ASSUME TreeAssumption ==
    /\ NoBlock \notin Block /\ Genesis \in Block
    /\ Height \in [Block -> Nat] /\ Past \in [Block -> SUBSET Block]
    /\ \A b \in Block :
          /\ b \in Past[b] /\ Genesis \in Past[b]
          /\ \A n \in 0 .. Height[b] : \E c \in Past[b] : Height[c] = n
          /\ \A c, d \in Past[b] : Height[c] = Height[d] => c = d
          /\ \A c \in Past[b] : Past[c] = {d \in Past[b] : Height[d] <= Height[c]}

VARIABLES
    head,              \* of the canonical chain
    abandoned          \* blocks that were canonical once and are no more

chain == <<head, abandoned>>

ChainTypeOK == head \in Block /\ abandoned \subseteq Block

ChainInit == head = Genesis /\ abandoned = {}

(* getBlock and every view by number; nothing beyond the head.             *)
Canonical(n) == {b \in Past[head] : Height[b] = n}

(* A new block, or a reorganisation to another branch or to an earlier     *)
(* block.  What was left once does not become canonical again.             *)
MoveTo(b) ==
    /\ b # head
    /\ Past[b] \cap abandoned = {}
    /\ head' = b
    /\ abandoned' = abandoned \cup (Past[head] \ Past[b])
===============================================================================
