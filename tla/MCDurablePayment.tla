--------------------------- MODULE MCDurablePayment ---------------------------
(***************************************************************************)
(* Small instances of durable payments for TLC.                            *)
(***************************************************************************)
EXTENDS DurablePaymentProperties, TLC

CONSTANT Expiry        \* one expiry for all authorizations

MCValidBefore == [a \in Auth |-> Expiry]

Symmetric == Permutations(Handler) \cup Permutations(Auth)
             \cup Permutations(LogicalKey) \cup Permutations(Hash)
===============================================================================
