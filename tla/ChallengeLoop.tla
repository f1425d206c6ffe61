----------------------------- MODULE ChallengeLoop ----------------------------
(***************************************************************************)
(* The loop of evaluateChallenge as it is written: one pass over the       *)
(* offers, two flags, and the first offer that passes every check.         *)
(***************************************************************************)
EXTENDS PaymentChallenge

CONSTANTS
    SampleOffer,       \* offers the loop is tried on
    SampleLength       \* in challenges up to this length

ASSUME LoopAssumption == SampleLength \in Nat

VARIABLES
    offers, payTo,     \* the challenge, and the receiver the builder named
    turn,              \* the offers looked at
    seen               \* the local variables of the loop

loopVars == <<offers, payTo, turn, seen>>

LoopInit ==
    /\ offers \in UNION {[1 .. n -> SampleOffer] : n \in 1 .. SampleLength}
    /\ payTo \in {o.payTo : o \in SampleOffer}
    /\ turn = 0
    /\ seen = [index |-> 0, comparable |-> FALSE, incomparable |-> FALSE]

(* Faulty: the loop goes on after its choice.                              *)
MayLookOn == turn < Len(offers)

MayLook == turn < Len(offers) /\ seen.index = 0

(* One turn of the loop.                                                   *)
Look ==
    LET o == offers[turn + 1]
    IN  /\ MayLook
        /\ turn' = turn + 1
        /\ seen' =
             IF ~o.exact THEN seen
             ELSE IF ~Priced(o) THEN [seen EXCEPT !.incomparable = TRUE]
             ELSE IF ~Configured(o) THEN seen
             ELSE IF ~SameUnit(o) THEN [seen EXCEPT !.incomparable = TRUE]
             ELSE [seen EXCEPT !.comparable = TRUE,
                               !.index = IF Eligible(o, payTo, 1) THEN turn + 1 ELSE @]
        /\ UNCHANGED <<offers, payTo>>

Found ==
    [code  |-> IF seen.index # 0 THEN "ELIGIBLE"
               ELSE IF seen.incomparable /\ ~seen.comparable
               THEN "UNSUPPORTED_PRICE_COMPARISON"
               ELSE "NO_ELIGIBLE_OFFER",
     index |-> seen.index]

LoopSpec == LoopInit /\ [][Look]_loopVars

(* The order of the offers decides which one is chosen and nothing else:   *)
(* the loop's early exit and its flags say of every challenge what the     *)
(* whole of its offers says.                                               *)
LoopFindsIt ==
    offers # <<>> /\ ~MayLook =>
        Found = Evaluate([status |-> "402", sameResource |-> TRUE, offers |-> offers], payTo, 1)
===============================================================================
