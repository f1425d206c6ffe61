--------------------------- MODULE EndpointInspection ---------------------------
(***************************************************************************)
(* The discovery observer at work (backend/discovery-observer.ts) and its  *)
(* inspection of the published endpoint (backend/validation-transport.ts): *)
(* one lookup, one connection to the first of the addresses it gave, one   *)
(* request, under one timer that covers all of it.                         *)
(*                                                                         *)
(* What comes first decides; all other events still come, to the           *)
(* listeners that are left, and find it finished.                          *)
(***************************************************************************)
EXTENDS Integers, FiniteSets

CONSTANTS
    Ask,               \* requests to the observer there may be at once; bound
    MaxObservations    \* config.maxInFlight

ASSUME ObserverAssumption == MaxObservations \in Nat

VARIABLES
    given,             \* is there an options.resolve? (a test's)
    asking,            \* where the handler of each ask is
    observations,      \* active
    inspection

observerVars == <<given, asking, observations, inspection>>

Outcome == {"none", "target", "dns", "unsafe", "timeout", "transport", "invalid", "answered"}

Inspection ==
    [lookup  : {"none", "pending", "over"},
     timer   : {"none", "set", "fired", "cleared"},
     socket  : {"none", "connecting", "secure", "destroyed"},
     peer    : {"none", "chosen", "other"},
     request : {"none", "sent", "destroyed"},
     outcome : Outcome]

NotBegun == [lookup |-> "none", timer |-> "none", socket |-> "none", peer |-> "none",
             request |-> "none", outcome |-> "none"]

ObserverTypeOK ==
    /\ given \in BOOLEAN
    /\ asking \in [Ask -> {"away", "reading", "binding", "inspecting", "rechecking"}]
    /\ observations \in 0 .. MaxObservations
    /\ inspection \in [Ask -> Inspection]

AskGoes(a, step) == asking' = [asking EXCEPT ![a] = step]

-------------------------------------------------------------------------------
(* The inspection.                                                         *)

Finished(i) == i.outcome # "none"

Destroyed(thing) == IF thing = "none" THEN "none" ELSE "destroyed"

(* finish: the first outcome stands; the timer, the request and the socket *)
(* go with it.                                                             *)
FinishInspection(i, outcome) ==
    IF Finished(i) THEN i
    ELSE [i EXCEPT !.outcome = outcome,
                   !.timer = IF i.timer = "set" THEN "cleared" ELSE i.timer,
                   !.request = Destroyed(i.request),
                   !.socket = Destroyed(i.socket)]

Becomes(a, i) ==
    /\ inspection' = [inspection EXCEPT ![a] = i]
    /\ UNCHANGED <<given, asking, observations>>

(* While a given resolve is at work the timer only notes that it is late;  *)
(* the system's lookup is cancelled.                                       *)
TimerFires(a) ==
    LET i == [inspection[a] EXCEPT !.timer = "fired"]
    IN  /\ inspection[a].timer = "set"
        /\ Becomes(a, IF given /\ i.lookup = "pending" THEN i ELSE FinishInspection(i, "timeout"))

(* The lookup ends with addresses that are all public, with none, with     *)
(* some that are not, or with an error.                                    *)
LookupEnds(a, found) ==
    LET i    == [inspection[a] EXCEPT !.lookup = "over"]
        late == i.timer = "fired"
    IN  /\ inspection[a].lookup = "pending"
        /\ Becomes(a, CASE late              -> FinishInspection(i, "timeout")
                        [] Finished(i)       -> i
                        [] found = "public"  -> [i EXCEPT !.socket = "connecting"]
                        [] found = "unsafe"  -> FinishInspection(i, "unsafe")
                        [] OTHER             -> FinishInspection(i, "dns"))

(* Secured: a request goes out, if the other end is who was looked up.     *)
SecureConnect(a, peer) ==
    LET i == [inspection[a] EXCEPT !.socket = "secure", !.peer = peer]
    IN  /\ inspection[a].socket = "connecting"
        /\ Becomes(a, IF peer = "chosen" THEN [i EXCEPT !.request = "sent"]
                      ELSE FinishInspection(i, "unsafe"))

(* "error", "end" or "close" of the connection, or an error of the request *)
(* (a header too large, the connection lost).                              *)
ConnectionEnds(a, outcome) ==
    /\ inspection[a].socket # "none"
    /\ Becomes(a, FinishInspection(inspection[a], outcome))

(* A response; with two PAYMENT-REQUIRED headers, or too long a one, it is *)
(* invalid.                                                                *)
EndpointResponds(a, outcome) ==
    /\ inspection[a].request = "sent"
    /\ Becomes(a, FinishInspection(inspection[a], outcome))

-------------------------------------------------------------------------------
(* The observer.                                                           *)

(* One too many is refused.  (Another ask takes this one's place when its  *)
(* lookup has ended.)                                                      *)
Observe(a) ==
    /\ asking[a] = "away" /\ inspection[a].lookup # "pending"
    /\ IF observations < MaxObservations
       THEN /\ observations' = observations + 1
            /\ AskGoes(a, "reading")
            /\ inspection' = [inspection EXCEPT ![a] = NotBegun]
       ELSE UNCHANGED <<observations, asking, inspection>>
    /\ UNCHANGED given

(* The answer, with what was found or with what failed, and the finally.   *)
ObserverAnswers(a) ==
    /\ AskGoes(a, "away")
    /\ observations' = observations - 1
    /\ UNCHANGED <<given, inspection>>

(* The body is read in time and small enough and says whose service it is. *)
BodyRead(a) ==
    /\ asking[a] = "reading"
    /\ \/ ObserverAnswers(a)
       \/ AskGoes(a, "binding") /\ UNCHANGED <<given, observations, inspection>>

(* The demand at the newest block is the one that was published; a target  *)
(* that is no such URL fails before anything is begun.                     *)
Bound(a) ==
    /\ asking[a] = "binding"
    /\ \/ ObserverAnswers(a)
       \/ /\ AskGoes(a, "inspecting")
          /\ \E i \in {[NotBegun EXCEPT !.outcome = "target"],
                       [NotBegun EXCEPT !.lookup = "pending", !.timer = "set"]} :
                 inspection' = [inspection EXCEPT ![a] = i]
          /\ UNCHANGED <<given, observations>>

(* The promise of inspect is settled; the block is read again if there is  *)
(* a challenge to speak of.                                                *)
Inspected(a) ==
    /\ asking[a] = "inspecting" /\ Finished(inspection[a])
    /\ \/ ObserverAnswers(a)
       \/ /\ inspection[a].outcome = "answered"
          /\ AskGoes(a, "rechecking")
          /\ UNCHANGED <<given, observations, inspection>>

Rechecked(a) == asking[a] = "rechecking" /\ ObserverAnswers(a)

ObserverInit ==
    /\ given \in BOOLEAN
    /\ asking = [a \in Ask |-> "away"]
    /\ observations = 0
    /\ inspection = [a \in Ask |-> NotBegun]

Resolves(a) == \E found \in {"public", "none", "unsafe", "error"} : LookupEnds(a, found)

ObserverProceeds(a) == BodyRead(a) \/ Bound(a) \/ Inspected(a) \/ Rechecked(a)

ObserverNext ==
    \E a \in Ask :
        \/ Observe(a) \/ ObserverProceeds(a)
        \/ TimerFires(a) \/ Resolves(a)
        \/ \E peer \in {"chosen", "other"} : SecureConnect(a, peer)
        \/ \E outcome \in {"transport", "invalid"} : ConnectionEnds(a, outcome)
        \/ \E outcome \in {"answered", "invalid"} : EndpointResponds(a, outcome)

-------------------------------------------------------------------------------
(* Whatever an inspection meets, it ends, by its timer if by nothing else; *)
(* nothing of it is open then, nothing is opened afterwards by a lookup    *)
(* that answers late, and the observer's place is free again.              *)
InspectionsEnd ==
    /\ \A a \in Ask : asking[a] # "away" ~> asking[a] = "away"
    /\ [](/\ ObserverTypeOK
          /\ observations = Cardinality({a \in Ask : asking[a] # "away"})
          /\ \A a \in Ask : Finished(inspection[a]) =>
                 /\ inspection[a].timer # "set"
                 /\ inspection[a].socket \in {"none", "destroyed"}
                 /\ inspection[a].request \in {"none", "destroyed"})
===============================================================================
