------------------------------- MODULE Pledges --------------------------------
(***************************************************************************)
(* What an escrowed demand market promises its supporters, without keys,   *)
(* votes, attestations or a clock.  A demand collects pledges until it is  *)
(* settled or given up.  It is settled at most once, by a set of           *)
(* supporters that holds more than half of what is pledged, and only their *)
(* tokens pay.  Every other token goes back to the one who pledged it, and *)
(* only after the demand was settled or given up.                          *)
(***************************************************************************)
EXTENDS Totals

CONSTANTS Account, Treasury, DemandId

VARIABLES
    phase,     \* phase of each demand
    pledged,   \* pledged[d][a]: tokens of a that d holds
    purse      \* tokens outside the escrow

pledgeVars == <<phase, pledged, purse>>

Owner == Account \cup {Treasury}

PledgeInit ==
    /\ phase = [d \in DemandId |-> "collecting"]
    /\ pledged = [d \in DemandId |-> [a \in Account |-> 0]]
    /\ purse \in [Owner -> Nat]

Pledge(a, d, amount) ==
    /\ phase[d] = "collecting"
    /\ amount \in 1 .. purse[a]
    /\ pledged' = [pledged EXCEPT ![d][a] = @ + amount]
    /\ purse' = [purse EXCEPT ![a] = @ - amount]
    /\ UNCHANGED phase

(* The members of payers, and nobody else, pay the builder and a fee of at *)
(* most a tenth.                                                           *)
Settle(d, payers, builder, fee) ==
    LET amount == Total(Share(pledged[d], payers))
    IN  /\ phase[d] = "collecting"
        /\ 2 * amount > Total(pledged[d])
        /\ fee \in 0 .. amount \div 10
        /\ phase' = [phase EXCEPT ![d] = "settled"]
        /\ pledged' = [pledged EXCEPT ![d] = Share(pledged[d], Account \ payers)]
        /\ purse' = [o \in Owner |->
               purse[o] + (IF o = builder THEN amount - fee ELSE 0)
                        + (IF o = Treasury THEN fee ELSE 0)]

(* Any number of demands fail at the same moment.                          *)
GiveUp(failed) ==
    /\ \A d \in failed : phase[d] = "collecting"
    /\ phase' = [d \in DemandId |-> IF d \in failed THEN "givenUp" ELSE phase[d]]
    /\ UNCHANGED <<pledged, purse>>

Return(a, d) ==
    /\ phase[d] # "collecting"
    /\ pledged[d][a] # 0
    /\ pledged' = [pledged EXCEPT ![d][a] = 0]
    /\ purse' = [purse EXCEPT ![a] = @ + pledged[d][a]]
    /\ UNCHANGED phase

PledgeNext ==
    \/ \E d \in DemandId, a \in Account :
           \/ \E amount \in 1 .. purse[a] : Pledge(a, d, amount)
           \/ Return(a, d)
    \/ \E d \in DemandId, payers \in SUBSET Account :
           \E fee \in 0 .. Total(Share(pledged[d], payers)) \div 10,
              builder \in Account :
               Settle(d, payers, builder, fee)
    \/ \E failed \in SUBSET DemandId : GiveUp(failed)

PledgeSpec == PledgeInit /\ [][PledgeNext]_pledgeVars
===============================================================================
