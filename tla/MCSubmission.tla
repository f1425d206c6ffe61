------------------------------ MODULE MCSubmission -----------------------------
(***************************************************************************)
(* Two attempts of two builders at one demand.  Each builder has one       *)
(* answer of the endpoint that suits him; the others are too dear, for     *)
(* somebody else, in another asset, or no offer at all.  A behaviour is    *)
(* one of the attempts, or one pass of the loop over a challenge.          *)
(***************************************************************************)
EXTENDS Submission, ChallengeLoop, TLC

VARIABLE part

CONSTANTS a1, a2, w1, w2, p1, p2, k1, k2

MCWalletOf == (a1 :> w1) @@ (a2 :> w2)
MCPayTo    == (a1 :> p1) @@ (a2 :> p2)

Asset(decimals) ==
    [decimals |-> decimals, defaultMethod |-> "eip3009",
     methods |-> [m \in {"eip3009", "permit2"} |->
                    [defaultFlow |-> IF m = "eip3009" THEN "authorization" ELSE "none",
                     domain |-> "USDC"]]]

MCPolicy ==
    [network |-> "base",
     price   |-> [network |-> "base", asset |-> "usdc", decimals |-> 6],
     maxTimeoutSeconds |-> 60,
     assets  |-> ("usdc" :> Asset(6)) @@ ("dai" :> Asset(18))]

Offer(receiver, amount) ==
    [exact |-> TRUE, network |-> "base", asset |-> "usdc", amount |-> amount,
     payTo |-> receiver, timeout |-> 60, method |-> "unset", flow |-> "unset",
     domain |-> "USDC"]

InDai(o) == [o EXCEPT !.asset = "dai"]

Challenged(os) == [status |-> "402", sameResource |-> TRUE, offers |-> os]

MCReply ==
    {Challenged(<<Offer(p1, 2), Offer(p1, 1)>>),
     Challenged(<<Offer(p1, 2), Offer(p2, 1)>>),
     Challenged(<<InDai(Offer(p1, 1))>>),
     [Challenged(<<Offer(p1, 1)>>) EXCEPT !.sameResource = FALSE],
     [status |-> "5xx", sameResource |-> TRUE, offers |-> <<>>],
     [status |-> "other", sameResource |-> TRUE, offers |-> <<>>]}

MCSampleOffer ==
    {Offer(p1, 1), Offer(p1, 2), Offer(p2, 1), InDai(Offer(p1, 1)),
     [Offer(p1, 1) EXCEPT !.exact = FALSE],
     [Offer(p1, 1) EXCEPT !.network = "other"],
     [Offer(p1, 1) EXCEPT !.method = "permit2"],
     [Offer(p1, 1) EXCEPT !.timeout = 61],
     [Offer(p1, 1) EXCEPT !.domain = "other"]}

submissionVars == <<vars, loopVars, part>>

MCInit ==
    /\ Init
    /\ \/ part = "loop" /\ LoopInit
       \/ /\ part = "attempts"
          /\ offers = <<>> /\ payTo = p1 /\ turn = 0
          /\ seen = [index |-> 0, comparable |-> FALSE, incomparable |-> FALSE]

Attempts(act) ==
    /\ part = "attempts"
    /\ act
    /\ UNCHANGED <<loopVars, part>>

Loop ==
    /\ part = "loop"
    /\ Look
    /\ UNCHANGED <<vars, part>>

MCNext == Attempts(Next) \/ Loop

(* The fairness of FairSpec.                                               *)
MCSpec ==
    /\ MCInit /\ [][MCNext]_submissionVars
    /\ \A a \in Attempt : WF_submissionVars(Attempts(Serve(a)))
===============================================================================
