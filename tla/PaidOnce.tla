-------------------------------- MODULE PaidOnce ------------------------------
(***************************************************************************)
(* What durable payments promise about one payment authorization: it is    *)
(* handed to the facilitator at most once, charged only after that, and    *)
(* the paid content is released at most once and only when it was charged. *)
(***************************************************************************)
EXTENDS Naturals

CONSTANT Auth          \* payment authorizations

VARIABLES
    handed,            \* how often each authorization went to the facilitator
    charged,           \* the authorizations whose transfer is on chain
    released           \* how often content was released for each

promise == <<handed, charged, released>>

PaidInit ==
    /\ handed = [a \in Auth |-> 0]
    /\ charged = {}
    /\ released = [a \in Auth |-> 0]

HandOver(a) ==
    /\ handed[a] = 0
    /\ handed' = [handed EXCEPT ![a] = 1]
    /\ UNCHANGED <<charged, released>>

Charge(a) ==
    /\ handed[a] = 1
    /\ a \notin charged
    /\ charged' = charged \cup {a}
    /\ UNCHANGED <<handed, released>>

ReleaseContent(a) ==
    /\ a \in charged
    /\ released[a] = 0
    /\ released' = [released EXCEPT ![a] = 1]
    /\ UNCHANGED <<handed, charged>>

PaidNext == \E a \in Auth : HandOver(a) \/ Charge(a) \/ ReleaseContent(a)

PaidSpec == PaidInit /\ [][PaidNext]_promise
===============================================================================
