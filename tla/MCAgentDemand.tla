----------------------------- MODULE MCAgentDemand ----------------------------
(***************************************************************************)
(* Small instances of AgentDemand for TLC.                                 *)
(***************************************************************************)
EXTENDS AgentDemandProperties, DemandPage, TLC

CONSTANT v1                \* the key that signed every attestation

(* For every builder and submission an attestation.  A long one is good   *)
(* until the last deadline; of the short ones the first is soon over, the  *)
(* second valid for longer than MaxWindow allows.                          *)
Attested(window) ==
    {[signer |-> v1, demand |-> d, builder |-> b, nonce |-> n,
      issuedAt |-> w[1], expiresAt |-> w[2]] :
        d \in DemandId, b \in Account, n \in Nonce \ {0}, w \in window}

LongAttestations  == Attested({<<0, 4>>})
ShortAttestations == Attested({<<0, 1>>, <<1, 9>>})

AccountSymmetry == Permutations(Account)
===============================================================================
