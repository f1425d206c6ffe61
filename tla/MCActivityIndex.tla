---------------------------- MODULE MCActivityIndex ----------------------------
(* A chain of four blocks and a branch of two.  The contract comes with    *)
(* the first block after the genesis; the transaction of e1 is included on *)
(* both branches.  Up to a2 the first branch keeps the limits, a3 has an   *)
(* event too many; b2 has a demand too many.                               *)
EXTENDS ActivityIndex

CONSTANTS g, a1, a2, a3, b1, b2, e1, e2, e3, e4

MCPast ==
    [b \in Block |-> CASE b = g  -> {g}
                       [] b = a1 -> {g, a1}
                       [] b = a2 -> {g, a1, a2}
                       [] b = a3 -> {g, a1, a2, a3}
                       [] b = b1 -> {g, b1}
                       [] b = b2 -> {g, b1, b2}]

MCHeight == [b \in Block |-> Cardinality(MCPast[b]) - 1]

MCLog ==
    [b \in Block |-> CASE b = g  -> {}
                       [] b = a1 -> {e1}
                       [] b = a2 -> {e2, e3}
                       [] b \in {a3, b1} -> {e4}
                       [] b = b2 -> {e1}]
===============================================================================
