------------------------------- MODULE MCRequests -------------------------------
(***************************************************************************)
(* What a request or a call to another service holds while it lasts.       *)
(* These parts share no state, so each behaviour is one of a single part,  *)
(* while the others stay as they begin.                                    *)
(***************************************************************************)
EXTENDS MCDurablePayment, AdmissionGate, EndpointInspection, BoundedFetch

VARIABLE part

requestVars == <<vars, gateVars, observerVars, fetchVars, part>>

Part == {"payments", "gate", "observer", "upstream"}

MCInit ==
    /\ part \in Part
    /\ Init /\ GateInit /\ ObserverInit /\ FetchInit
    /\ part # "gate" => \A r \in Call : access[r] = "free"
    /\ part # "payments" => \A h, i \in Handler : request[h] = request[i] /\ request[h].key = NoKey
    /\ part # "observer" => given = FALSE

Payments(act) ==
    /\ part = "payments"
    /\ act
    /\ UNCHANGED <<gateVars, observerVars, fetchVars, part>>

Gate(act) ==
    /\ part = "gate"
    /\ act
    /\ UNCHANGED <<vars, observerVars, fetchVars, part>>

Observer(act) ==
    /\ part = "observer"
    /\ act
    /\ UNCHANGED <<vars, gateVars, fetchVars, part>>

Fetches(act) ==
    /\ part = "upstream"
    /\ act
    /\ UNCHANGED <<vars, gateVars, observerVars, part>>

MCNext ==
    \/ Payments(Next) \/ Gate(GateNext)
    \/ Observer(ObserverNext) \/ Fetches(FetchNext)

(* The fairness of FairSpec and of GateFairSpec; the observer goes on with *)
(* what it has begun, the timers fire, a given resolve ends, and so does a *)
(* fetch that is aborted.                                                  *)
MCSpec ==
    /\ MCInit /\ [][MCNext]_requestVars
    /\ \A h \in Handler : WF_requestVars(Payments(Proceed(h)))
    /\ WF_requestVars(Payments(Restart))
    /\ \A r \in Call : WF_requestVars(Gate(GateProceed(r)))
    /\ \A a \in Ask : /\ WF_requestVars(Observer(ObserverProceeds(a)))
                      /\ WF_requestVars(Observer(TimerFires(a)))
                      /\ WF_requestVars(Observer(given /\ Resolves(a)))
    /\ \A u \in Upstream : WF_requestVars(Fetches(aborted[u] /\ FetchFails(u)))
    /\ WF_requestVars(Fetches(FetchTick))

(* What is taken is given back, whatever becomes of a client, of the       *)
(* store, of the service that is called and of the process: the slot, the  *)
(* record in flight, the place of an observation or of a call, and the     *)
(* request's own time (concurrencyGate, the handlers of durable payments,  *)
(* inspect, createBoundedFetch).                                           *)
NothingIsKept ==
    /\ EveryRequestEnds /\ NothingStaysInFlight
    /\ SlotsReturn
    /\ InspectionsEnd
    /\ FetchesEnd
===============================================================================
