------------------------------ MODULE ApiTheorems ------------------------------
(***************************************************************************)
(* Proofs about the parts of the API: its concurrency gate, the life of    *)
(* its process, the quota of its clients, the probes of the services it    *)
(* shows, the lists of those services and their page, the ranking and the  *)
(* history it sells and the page's list of the demands with its chart; for *)
(* any numbers of requests, clients, services, probes, demands and events, *)
(* any limits, amounts, orders and lengths of time, and any outages and    *)
(* restarts.                                                               *)
(***************************************************************************)
EXTENDS AdmissionGate, MCApi, Totals, SequenceTheorems

(* What the gate knows of a request at each stage of its work.             *)
CallSound(r) ==
    /\ stage[r] = "arriving" =>
           admission[r] = "none" /\ response[r] = "open" /\ ~ended[r]
    /\ stage[r] = "paying" =>
           /\ response[r] \in {"open", "closed"}
           /\ response[r] = "open" => admission[r] = "held"
    /\ stage[r] = "handling" => admission[r] = "held"
    /\ pending[r] = IF stage[r] = "handling" THEN 1 ELSE 0

GateInv ==
    /\ GateTypeOK
    /\ IsFiniteSet(Held) /\ active = Cardinality(Held)
    /\ \A r \in Call : CallSound(r)

(* A gate that nobody has used.                                            *)
LEMMA GateInvInit == GateInit => GateInv
<1> SUFFICES ASSUME GateInit PROVE GateInv
    OBVIOUS
<1>1. GateTypeOK
    BY GateAssumption DEF GateInit, GateTypeOK, Stage, Response
<1>2. Held = {}
    BY DEF GateInit, Held
<1>3. IsFiniteSet(Held) /\ active = Cardinality(Held)
    BY <1>2, FS_EmptySet DEF GateInit
<1>4. \A r \in Call : CallSound(r)
    BY DEF GateInit, CallSound
<1> QED BY <1>1, <1>3, <1>4 DEF GateInv

-------------------------------------------------------------------------------
(* The counter, when one request's admission changes or stays.             *)

(* The slots held go with the admissions.                                  *)
LEMMA HeldTaken ==
    ASSUME GateInv, NEW r \in Call, admission[r] # "held",
           admission' = [admission EXCEPT ![r] = "held"], active' = active + 1
    PROVE  IsFiniteSet(Held') /\ active' = Cardinality(Held')
<1>1. Held' = Held \cup {r} /\ r \notin Held
    BY DEF GateInv, GateTypeOK, Held
<1> QED BY <1>1, FS_AddElement DEF GateInv

(* A slot that is given back is one less of those held and of the counter. *)
LEMMA HeldReturned ==
    ASSUME GateInv, NEW r \in Call, admission[r] = "held",
           admission' = [admission EXCEPT ![r] = "released"], active' = active - 1
    PROVE  IsFiniteSet(Held') /\ active' = Cardinality(Held') /\ active' \in 0 .. MaxInFlight
<1>1. Held' = Held \ {r} /\ r \in Held
    BY DEF GateInv, GateTypeOK, Held
<1>2. IsFiniteSet(Held') /\ Cardinality(Held') = Cardinality(Held) - 1
    BY <1>1, FS_RemoveElement DEF GateInv
<1>3. Cardinality(Held') \in Nat
    BY <1>2, FS_CardinalityType
<1> QED BY <1>2, <1>3, GateAssumption DEF GateInv, GateTypeOK

(* release keeps the counter, and gives back no slot with work left.       *)
LEMMA ReleasedSound ==
    ASSUME GateInv, NEW r \in Call, NEW rest \in 0 .. 1, NEW hasEnded \in BOOLEAN,
           Released(r, rest, hasEnded)
    PROVE  /\ admission' \in [Call -> {"none", "held", "released"}]
           /\ active' \in 0 .. MaxInFlight
           /\ pending' = [pending EXCEPT ![r] = rest] /\ ended' = [ended EXCEPT ![r] = hasEnded]
           /\ IsFiniteSet(Held') /\ active' = Cardinality(Held')
           /\ \A s \in Call \ {r} : admission'[s] = admission[s]
           /\ admission'[r] = admission[r] \/ (hasEnded /\ rest = 0)
           /\ admission[r] # "held" => admission'[r] = admission[r]
<1>1. CASE Releasable(r, rest, hasEnded)
    <2>1. /\ admission' = [admission EXCEPT ![r] = "released"] /\ active' = active - 1
          /\ admission[r] = "held" /\ hasEnded /\ rest = 0
        BY <1>1 DEF Released, Releasable
    <2>2. IsFiniteSet(Held') /\ active' = Cardinality(Held') /\ active' \in 0 .. MaxInFlight
        BY <2>1, HeldReturned
    <2> QED BY <2>1, <2>2 DEF GateInv, GateTypeOK, Released
<1>2. CASE ~Releasable(r, rest, hasEnded)
    <2>1. UNCHANGED <<admission, active>>
        BY <1>2 DEF Released
    <2>2. Held' = Held
        BY <2>1 DEF Held
    <2> QED BY <2>1, <2>2 DEF GateInv, GateTypeOK, Released
<1> QED BY <1>1, <1>2

(* The steps that leave the gate alone.                                    *)
LEMMA GateAlone ==
    ASSUME GateInv, UNCHANGED <<access, gate>>,
           stage' \in [Call -> Stage], response' \in [Call -> Response],
           \A r \in Call : CallSound(r)'
    PROVE  GateInv'
<1>1. Held' = Held
    BY DEF Held, gate
<1> QED BY <1>1 DEF GateInv, GateTypeOK, gate

-------------------------------------------------------------------------------
(* What a step of request r makes of the variables, if the others keep     *)
(* what they have.                                                         *)
OneCall(r) ==
    /\ access' = access
    /\ stage' \in [Call -> Stage] /\ response' \in [Call -> Response]
    /\ active' \in 0 .. MaxInFlight
    /\ admission' \in [Call -> {"none", "held", "released"}]
    /\ pending' \in [Call -> 0 .. 1] /\ ended' \in [Call -> BOOLEAN]
    /\ IsFiniteSet(Held') /\ active' = Cardinality(Held')
    /\ \A s \in Call \ {r} :
           /\ stage'[s] = stage[s] /\ response'[s] = response[s]
           /\ admission'[s] = admission[s] /\ pending'[s] = pending[s] /\ ended'[s] = ended[s]

(* A step of one request that keeps what is said of it keeps the rest.     *)
LEMMA OneCallSound ==
    ASSUME GateInv, NEW r \in Call, OneCall(r), CallSound(r)'
    PROVE  GateInv'
<1>1. GateTypeOK'
    BY DEF GateInv, GateTypeOK, OneCall
<1>2. ASSUME NEW s \in Call PROVE CallSound(s)'
    <2>1. CASE s = r
        BY <2>1
    <2>2. CASE s # r
        BY <2>2 DEF GateInv, CallSound, OneCall
    <2> QED BY <2>1, <2>2
<1> QED BY <1>1, <1>2 DEF GateInv, OneCall

(* The parts of a step: the stage and the response, then the gate.         *)
LEMMA GotoType ==
    ASSUME GateInv, NEW r \in Call, NEW next \in Stage, GateGoto(r, next)
    PROVE  /\ stage' \in [Call -> Stage] /\ stage'[r] = next
           /\ \A s \in Call \ {r} : stage'[s] = stage[s]
BY DEF GateInv, GateTypeOK, GateGoto

(* A route that answers changes the response of its request only.          *)
LEMMA AnsweredType ==
    ASSUME GateInv, NEW r \in Call, Answered(r)
    PROVE  /\ response' \in [Call -> Response]
           /\ \A s \in Call \ {r} : response'[s] = response[s]
BY DEF GateInv, GateTypeOK, Answered, Response

(* A step that leaves the gate alone leaves the counter what it was.       *)
LEMMA GateKept ==
    ASSUME GateInv, UNCHANGED gate
    PROVE  /\ active' \in 0 .. MaxInFlight
           /\ admission' \in [Call -> {"none", "held", "released"}]
           /\ pending' \in [Call -> 0 .. 1] /\ ended' \in [Call -> BOOLEAN]
           /\ IsFiniteSet(Held') /\ active' = Cardinality(Held')
           /\ admission' = admission /\ pending' = pending /\ ended' = ended
<1>1. Held' = Held
    BY DEF Held, gate
<1> QED BY <1>1 DEF GateInv, GateTypeOK, gate

(* A step that gives back the slot when nothing is left to do.             *)
LEMMA GateReleased ==
    ASSUME GateInv, NEW r \in Call, NEW rest \in 0 .. 1, NEW hasEnded \in BOOLEAN,
           Released(r, rest, hasEnded)
    PROVE  /\ active' \in 0 .. MaxInFlight
           /\ admission' \in [Call -> {"none", "held", "released"}]
           /\ pending' \in [Call -> 0 .. 1] /\ ended' \in [Call -> BOOLEAN]
           /\ IsFiniteSet(Held') /\ active' = Cardinality(Held')
           /\ \A s \in Call \ {r} : /\ admission'[s] = admission[s]
                                    /\ pending'[s] = pending[s] /\ ended'[s] = ended[s]
           /\ pending'[r] = rest /\ ended'[r] = hasEnded
<1>1. /\ pending' = [pending EXCEPT ![r] = rest] /\ ended' = [ended EXCEPT ![r] = hasEnded]
      /\ pending \in [Call -> 0 .. 1] /\ ended \in [Call -> BOOLEAN]
    BY ReleasedSound DEF GateInv, GateTypeOK
<1>2. pending' \in [Call -> 0 .. 1] /\ pending'[r] = rest
      /\ \A s \in Call \ {r} : pending'[s] = pending[s]
    BY <1>1
<1>3. ended' \in [Call -> BOOLEAN] /\ ended'[r] = hasEnded
      /\ \A s \in Call \ {r} : ended'[s] = ended[s]
    BY <1>1
<1>4. /\ active' \in 0 .. MaxInFlight
      /\ admission' \in [Call -> {"none", "held", "released"}]
      /\ IsFiniteSet(Held') /\ active' = Cardinality(Held')
      /\ \A s \in Call \ {r} : admission'[s] = admission[s]
    BY ReleasedSound
<1> QED BY <1>2, <1>3, <1>4

(* A request that ends what it does without the gate.                      *)
LEMMA EndsAlone ==
    ASSUME GateInv, NEW r \in Call, stage[r] \in {"arriving", "paying", "settling"},
           GateGoto(r, "over"), Answered(r), UNCHANGED <<access, gate>>
    PROVE  GateInv'
<1>1. "over" \in Stage
    BY DEF Stage
<1>2. OneCall(r)
    BY <1>1, GotoType, AnsweredType, GateKept DEF OneCall
<1>3. CallSound(r)'
    BY <1>1, GotoType, GateKept DEF CallSound, GateInv
<1> QED BY <1>2, <1>3, OneCallSound

(* A request is admitted.                                                  *)
LEMMA AdmitSound == ASSUME GateInv, NEW r \in Call, Admit(r) PROVE GateInv'
<1> DEFINE next == IF access[r] = "free" THEN "handling" ELSE "paying"
<1>1. /\ stage[r] = "arriving" /\ response[r] = "open" /\ active < MaxInFlight
      /\ active' = active + 1 /\ admission' = [admission EXCEPT ![r] = "held"]
      /\ pending' = [pending EXCEPT ![r] = IF access[r] = "free" THEN 1 ELSE 0]
      /\ GateGoto(r, next) /\ UNCHANGED <<access, response, ended>>
    BY DEF Admit, FreeSlot
<1>2. CallSound(r) /\ admission[r] = "none"
    BY <1>1 DEF GateInv, CallSound
<1>3. next \in Stage
    BY DEF Stage
<1> HIDE DEF next
<1>4. stage' \in [Call -> Stage] /\ stage'[r] = next /\ \A s \in Call \ {r} : stage'[s] = stage[s]
    BY <1>1, <1>3, GotoType
<1>5. IsFiniteSet(Held') /\ active' = Cardinality(Held')
    BY <1>1, <1>2, HeldTaken
<1>6. active' \in 0 .. MaxInFlight
    BY <1>1, GateAssumption DEF GateInv, GateTypeOK
<1>7. OneCall(r)
    <2>1. /\ pending' \in [Call -> 0 .. 1]
          /\ \A s \in Call \ {r} : pending'[s] = pending[s]
        BY <1>1 DEF GateInv, GateTypeOK
    <2>2. /\ admission' \in [Call -> {"none", "held", "released"}]
          /\ \A s \in Call \ {r} : admission'[s] = admission[s]
        BY <1>1 DEF GateInv, GateTypeOK
    <2>3. /\ response' = response /\ response' \in [Call -> Response]
          /\ ended' = ended /\ ended' \in [Call -> BOOLEAN]
        BY <1>1 DEF GateInv, GateTypeOK
    <2> QED BY <1>1, <1>4, <1>5, <1>6, <2>1, <2>2, <2>3 DEF OneCall
<1>8. CallSound(r)'
    <2>1. /\ admission'[r] = "held" /\ response'[r] = "open"
          /\ pending'[r] = IF access[r] = "free" THEN 1 ELSE 0
        BY <1>1 DEF GateInv, GateTypeOK
    <2> QED BY <2>1, <1>4 DEF CallSound, next
<1> QED BY <1>7, <1>8, OneCallSound

(* The payment is verified, and the route goes on or is refused.           *)
LEMMA PaymentVerifiedSound == ASSUME GateInv, NEW r \in Call, PaymentVerified(r) PROVE GateInv'
<1>0. stage[r] = "paying" /\ UNCHANGED <<access, response>> /\ response' \in [Call -> Response]
    BY DEF PaymentVerified, GateInv, GateTypeOK
<1>1. pending[r] = 0 /\ (response[r] # "closed" => admission[r] = "held") /\ ended[r] \in BOOLEAN
    BY <1>0 DEF GateInv, GateTypeOK, CallSound
<1>2. CASE response[r] = "closed"
    <2>1. GateGoto(r, "over") /\ Released(r, 0, ended[r])
        BY <1>0, <1>1, <1>2 DEF PaymentVerified
    <2>2. "over" \in Stage /\ 0 \in 0 .. 1
        BY DEF Stage
    <2>3. OneCall(r)
        BY <1>0, <1>1, <2>1, <2>2, GotoType, GateReleased DEF OneCall
    <2>4. stage'[r] = "over" /\ pending'[r] = 0
        BY <1>1, <2>1, <2>2, GotoType, GateReleased
    <2>5. CallSound(r)'
        BY <2>4 DEF CallSound
    <2> QED BY <2>3, <2>5, OneCallSound
<1>3. CASE response[r] # "closed"
    <2>1. /\ GateGoto(r, "handling") /\ pending' = [pending EXCEPT ![r] = 1]
          /\ UNCHANGED <<active, admission, ended>> /\ "handling" \in Stage
        BY <1>0, <1>1, <1>3 DEF PaymentVerified, Stage, GateInv, GateTypeOK
    <2>2. Held' = Held
        BY <2>1 DEF Held
    <2>3. OneCall(r)
        BY <1>0, <2>1, <2>2, GotoType DEF OneCall, GateInv, GateTypeOK
    <2>4. stage'[r] = "handling" /\ pending'[r] = 1 /\ admission'[r] = "held"
        BY <1>1, <1>3, <2>1, GotoType DEF GateInv, GateTypeOK
    <2>5. CallSound(r)'
        BY <2>4 DEF CallSound
    <2> QED BY <2>3, <2>5, OneCallSound
<1> QED BY <1>2, <1>3

(* The route is done.                                                      *)
LEMMA HandledSound == ASSUME GateInv, NEW r \in Call, Handled(r) PROVE GateInv'
<1>1. stage[r] = "handling" /\ access' = access
    BY DEF Handled
<1>2. admission[r] = "held" /\ pending[r] = 1 /\ ended[r] \in BOOLEAN /\ 0 \in 0 .. 1
    BY <1>1 DEF GateInv, GateTypeOK, CallSound
<1>3. Released(r, 0, ended[r])
    BY <1>2 DEF Handled
<1>4. PICK next \in {"over", "settling"} :
          GateGoto(r, next) /\ (Answered(r) \/ UNCHANGED response)
    BY DEF Handled
<1>5. next \in Stage
    BY DEF Stage
<1>6. /\ response' \in [Call -> Response]
      /\ \A s \in Call \ {r} : response'[s] = response[s]
    BY <1>4, AnsweredType DEF GateInv, GateTypeOK
<1>7. OneCall(r)
    BY <1>1, <1>2, <1>3, <1>4, <1>5, <1>6, GotoType, GateReleased DEF OneCall
<1>8. stage'[r] = next /\ pending'[r] = 0
    BY <1>2, <1>3, <1>4, <1>5, GotoType, GateReleased
<1>9. CallSound(r)'
    BY <1>8 DEF CallSound
<1> QED BY <1>7, <1>9, OneCallSound

(* The listeners: the end is noted, and a slot with no work is given back. *)
LEMMA EndNoted ==
    ASSUME GateInv, NEW r \in Call, access' = access,
           stage' \in [Call -> Stage],
           \A s \in Call \ {r} : stage'[s] = stage[s] /\ response'[s] = response[s],
           stage'[r] = IF stage[r] = "arriving" THEN "over" ELSE stage[r],
           response' \in [Call -> Response],
           stage[r] = "paying" => response'[r] = "closed",
           IF admission[r] = "held" THEN Released(r, pending[r], TRUE) ELSE UNCHANGED gate
    PROVE  GateInv'
<1>1. CallSound(r) /\ pending[r] \in 0 .. 1
    BY DEF GateInv, GateTypeOK
<1>2. CASE admission[r] = "held"
    <2>1. Released(r, pending[r], TRUE)
        BY <1>2
    <2>2. OneCall(r)
        BY <1>1, <2>1, GateReleased DEF OneCall
    <2>3. /\ pending'[r] = pending[r]
          /\ pending[r] # 0 => admission'[r] = admission[r]
        BY <1>1, <2>1, GateReleased, ReleasedSound
    <2>4. CallSound(r)'
        BY <1>1, <2>3 DEF CallSound
    <2> QED BY <2>2, <2>4, OneCallSound
<1>3. CASE admission[r] # "held"
    <2>1. OneCall(r) /\ admission' = admission /\ pending' = pending
        BY <1>3, GateKept DEF OneCall
    <2>2. CallSound(r)'
        BY <1>1, <2>1 DEF CallSound
    <2> QED BY <2>1, <2>2, OneCallSound
<1> QED BY <1>2, <1>3

(* The response has gone out.                                              *)
LEMMA FinishSound == ASSUME GateInv, NEW r \in Call, Finish(r) PROVE GateInv'
<1>1. /\ response[r] = "sent" /\ response' = [response EXCEPT ![r] = "finished"]
      /\ UNCHANGED <<access, stage>>
      /\ IF admission[r] = "held" THEN Released(r, pending[r], TRUE) ELSE UNCHANGED gate
    BY DEF Finish
<1>2. stage[r] # "arriving" /\ stage[r] # "paying"
    BY <1>1 DEF GateInv, CallSound
<1>3. /\ stage' \in [Call -> Stage] /\ response' \in [Call -> Response]
      /\ \A s \in Call \ {r} : stage'[s] = stage[s] /\ response'[s] = response[s]
    BY <1>1 DEF GateInv, GateTypeOK, Response
<1> QED BY <1>1, <1>2, <1>3, EndNoted

(* The connection closes, wherever its request is.                         *)
LEMMA CloseSound == ASSUME GateInv, NEW r \in Call, Close(r) PROVE GateInv'
<1>1. /\ response' = [response EXCEPT ![r] = "closed"] /\ access' = access
      /\ stage' = [stage EXCEPT ![r] = IF stage[r] = "arriving" THEN "over" ELSE stage[r]]
      /\ IF admission[r] = "held" THEN Released(r, pending[r], TRUE) ELSE UNCHANGED gate
    BY DEF Close, GateInv, GateTypeOK
<1>2. /\ stage' \in [Call -> Stage] /\ response' \in [Call -> Response]
      /\ \A s \in Call \ {r} : stage'[s] = stage[s] /\ response'[s] = response[s]
      /\ stage'[r] = IF stage[r] = "arriving" THEN "over" ELSE stage[r]
      /\ response'[r] = "closed"
    BY <1>1 DEF GateInv, GateTypeOK, Response, Stage
<1> QED BY <1>1, <1>2, EndNoted

(* Every step of the gate keeps the invariant.                             *)
LEMMA GateInvStep == GateInv /\ [GateNext]_gateVars => GateInv'
<1> SUFFICES ASSUME GateInv, [GateNext]_gateVars PROVE GateInv'
    OBVIOUS
<1>1. ASSUME NEW r \in Call, OverCapacity(r) PROVE GateInv'
    BY <1>1, EndsAlone DEF OverCapacity
<1>2. ASSUME NEW r \in Call, Admit(r) PROVE GateInv'
    BY <1>2, AdmitSound
<1>3. ASSUME NEW r \in Call, PaymentRefused(r) PROVE GateInv'
    BY <1>3, EndsAlone DEF PaymentRefused
<1>4. ASSUME NEW r \in Call, PaymentVerified(r) PROVE GateInv'
    BY <1>4, PaymentVerifiedSound
<1>5. ASSUME NEW r \in Call, Handled(r) PROVE GateInv'
    BY <1>5, HandledSound
<1>6. ASSUME NEW r \in Call, Settled(r) PROVE GateInv'
    BY <1>6, EndsAlone DEF Settled
<1>7. ASSUME NEW r \in Call, Finish(r) PROVE GateInv'
    BY <1>7, FinishSound
<1>8. ASSUME NEW r \in Call, Close(r) PROVE GateInv'
    BY <1>8, CloseSound
<1>9. CASE UNCHANGED gateVars
    <2>1. UNCHANGED <<access, gate>> /\ UNCHANGED <<stage, response>>
        BY <1>9 DEF gateVars
    <2>2. \A r \in Call : CallSound(r)'
        BY <2>1 DEF GateInv, CallSound, gate
    <2> QED BY <2>1, <2>2, GateAlone DEF GateInv, GateTypeOK
<1> QED BY <1>1, <1>2, <1>3, <1>4, <1>5, <1>6, <1>7, <1>8, <1>9 DEF GateNext, GateProceed

(* The routes' own work never exceeds the limit, however many requests     *)
(* there are, and in whatever order their work, their responses and their  *)
(* clients end: the counter is the number of slots held, and whatever      *)
(* works holds one (concurrencyGate and admittedWork).                     *)
THEOREM WorkHoldsSlots == GateSpec => []HandlersHoldSlots
<1>1. GateInit => GateInv
    BY GateInvInit
<1>2. GateInv /\ [GateNext]_gateVars => GateInv'
    BY GateInvStep
<1>3. GateInv => HandlersHoldSlots
    BY DEF GateInv, HandlersHoldSlots, CallSound
<1> QED BY <1>1, <1>2, <1>3, PTL DEF GateSpec

-------------------------------------------------------------------------------
(* The process.                                                            *)

(* The drain belongs to a server that listens; when the schedulers are     *)
(* stopped nobody who waits is left, and none of them begins again.        *)
LifeInv ==
    /\ phase \in {"draining", "stopping"} => ~lazy
    /\ ~lazy /\ phase \in {"serving", "draining", "stopping"} =>
           \A k \in Worker : job[k] # "none"
    /\ job["discovery"] # "failed"
    /\ phase = "stopping" =>
           /\ \A v \in Visit : visit[v] = "away" \/ gone[v]
           /\ \A k \in Worker : job[k] \in {"running", "failed", "stopped"}
    /\ clean => /\ phase = "exited"
                /\ \A v \in Visit : visit[v] = "away" \/ gone[v]
                /\ \A k \in Worker : job[k] = "stopped"

(* The times since: what a probe, a kept result or a pause after a failure *)
(* says was so when they began.                                            *)
AgesInv ==
    /\ "chain" \in works => sinceGood = 0
    /\ works # Dependency => sinceBad = 0
    /\ probe.step = "answered" /\ probe.ok => sinceGood <= probe.age
    /\ probe.step = "answered" /\ ~probe.ok => sinceBad <= probe.age
    /\ cache.left > 0 /\ cache.ok => sinceGood <= CacheMs - cache.left + RpcMs
    /\ cache.left > 0 /\ ~cache.ok => sinceBad <= CacheMs - cache.left + RpcMs
    /\ backoff > 0 => storage = "failed" \/ sinceBad <= CacheMs - backoff

(* Who has got as far as the health result has seen store and middleware.  *)
VisitsInv ==
    /\ phase # "exited" /\ configured /\ middleware \in {"facilitator", "ready"} =>
           storage = "open"
    /\ \A v \in Visit :
          /\ visit[v] \in {"health", "probing"} /\ phase # "exited" =>
                 configured /\ storage = "open" /\ middleware = "ready"
          /\ visit[v] = "work" => what[v] = "paid"
          /\ visit[v] # "away" => ~yes[v]

ProcessInv == ProcessTypeOK /\ LifeInv /\ AgesInv /\ VisitsInv

(* What a part of the invariant does not read may change.                  *)
LEMMA LifeFrame ==
    ASSUME LifeInv, UNCHANGED <<lazy, phase, clean, job, visit, gone>>
    PROVE  LifeInv'
BY DEF LifeInv

(* The same for the times since.                                           *)
LEMMA AgesFrame ==
    ASSUME AgesInv, UNCHANGED <<works, sinceGood, sinceBad, probe, cache, backoff, storage>>
    PROVE  AgesInv'
BY DEF AgesInv

(* The same for where the visits are.                                      *)
LEMMA VisitsFrame ==
    ASSUME VisitsInv, UNCHANGED <<phase, configured, middleware, storage, visit, yes, what>>
    PROVE  VisitsInv'
BY DEF VisitsInv

(* While the process lives, visits may move on, but none comes back.       *)
LEMMA LifeOfVisits ==
    ASSUME LifeInv, Alive, UNCHANGED <<lazy, phase, clean, job>>,
           \A v \in Visit : /\ visit[v] = "away" => visit'[v] = "away"
                            /\ gone[v] => gone'[v]
    PROVE  LifeInv'
<1>1. ~clean
    BY DEF LifeInv, Alive
<1>2. phase = "stopping" => \A v \in Visit : visit'[v] = "away" \/ gone'[v]
    BY DEF LifeInv
<1> QED BY <1>1, <1>2 DEF LifeInv

(* A process that has just been started.                                   *)
LEMMA ProcessInvInit == ProcessInit => ProcessInv
<1> SUFFICES ASSUME ProcessInit PROVE ProcessInv
    OBVIOUS
<1>1. /\ 0 \in Ages /\ CacheMs + RpcMs \in Ages /\ 0 \in 0 .. CacheMs /\ 0 \in 0 .. RpcMs
      /\ 0 \in 0 .. MaxOutages
    BY ProcessAssumption DEF Ages
<1>2. ProcessTypeOK
    <2>1. /\ lazy \in BOOLEAN /\ configured \in BOOLEAN /\ clean \in BOOLEAN
          /\ phase \in {"starting", "market", "serving", "draining", "stopping", "exited"}
          /\ storage \in {"none", "opening", "open", "failed", "closed"}
          /\ middleware \in {"none", "storage", "facilitator", "ready"}
        BY DEF ProcessInit
    <2>2. /\ works \subseteq Dependency /\ outages \in 0 .. MaxOutages
          /\ sinceGood \in Ages /\ sinceBad \in Ages /\ backoff \in 0 .. CacheMs
        BY <1>1 DEF ProcessInit
    <2>3. /\ probe \in [step : {"none", "market", "height", "answered"}, ok : BOOLEAN,
                        age : 0 .. RpcMs]
          /\ cache \in [left : 0 .. CacheMs, ok : BOOLEAN]
        BY <1>1 DEF ProcessInit, NoProbe
    <2>4. /\ job \in [Worker -> {"none", "waiting", "running", "failed", "stopped"}]
          /\ what \in [Visit -> {"ready", "paid"}]
          /\ visit \in [Visit -> {"away", "storage", "payment", "initializing", "health",
                                  "probing", "work"}]
          /\ gone \in [Visit -> BOOLEAN] /\ yes \in [Visit -> BOOLEAN]
        BY DEF ProcessInit
    <2> QED BY <2>1, <2>2, <2>3, <2>4 DEF ProcessTypeOK
<1>3. LifeInv
    BY DEF ProcessInit, LifeInv, Worker
<1>4. AgesInv
    BY DEF ProcessInit, AgesInv, NoProbe
<1>5. VisitsInv
    BY DEF ProcessInit, VisitsInv
<1> QED BY <1>2, <1>3, <1>4, <1>5 DEF ProcessInv

VisitStep == {"away", "storage", "payment", "initializing", "health", "probing", "work"}

(* Where visits go.                                                        *)
LEMMA Going ==
    ASSUME ProcessTypeOK, NEW V, NEW step \in VisitStep, Go(V, step)
    PROVE  /\ visit' \in [Visit -> VisitStep]
           /\ \A v \in Visit : visit'[v] = IF v \in V THEN step ELSE visit[v]
<1>1. visit \in [Visit -> VisitStep]
    BY DEF ProcessTypeOK, VisitStep
<1> QED BY <1>1 DEF Go

(* Where the visits of a set go when the middleware is there.              *)
LEMMA Resuming ==
    ASSUME ProcessTypeOK, NEW V, Resumed(V)
    PROVE  /\ visit' \in [Visit -> VisitStep]
           /\ \A v \in Visit : v \notin V => visit'[v] = visit[v]
           /\ \A v \in Visit : v \in V /\ what[v] = "ready" =>
                  visit'[v] = IF StoresAnswer THEN "health" ELSE "away"
           /\ \A v \in Visit : v \in V /\ what[v] = "paid" =>
                  visit'[v] = IF gone[v] THEN "away" ELSE "work"
<1>1. visit \in [Visit -> VisitStep]
    BY DEF ProcessTypeOK, VisitStep
<1>2. visit' = [v \in Visit |->
                   IF v \notin V THEN visit[v]
                   ELSE IF what[v] = "ready" /\ StoresAnswer THEN "health"
                   ELSE IF what[v] = "paid" /\ ~gone[v] THEN "work" ELSE "away"]
    BY DEF Resumed
<1>3. ASSUME NEW v \in Visit
      PROVE  visit'[v] = IF v \notin V THEN visit[v]
                         ELSE IF what[v] = "ready" /\ StoresAnswer THEN "health"
                         ELSE IF what[v] = "paid" /\ ~gone[v] THEN "work" ELSE "away"
    BY <1>2
<1>4. \A v \in Visit : visit'[v] \in VisitStep
    BY <1>1, <1>3 DEF VisitStep
<1>5. visit' \in [Visit -> VisitStep]
    BY <1>2, <1>4
<1> QED BY <1>3, <1>5

(* The store is opened or not.                                             *)
LEMMA StorageOpensKeeps == ProcessInv /\ StorageOpens => ProcessInv'
<1> SUFFICES ASSUME ProcessInv, StorageOpens PROVE ProcessInv'
    OBVIOUS
<1>1. /\ storage = "opening" /\ storage' \in {"open", "failed"}
      /\ UNCHANGED <<lazy, configured, what, works, outages, sinceGood, sinceBad, phase, clean,
                     middleware, backoff, probe, cache, job, visit, gone, yes>>
    BY DEF StorageOpens, settings, dependency, healthVars, visits
<1>2. ProcessTypeOK'
    BY <1>1 DEF ProcessInv, ProcessTypeOK
<1>3. LifeInv'
    BY <1>1, LifeFrame DEF ProcessInv
<1>4. AgesInv'
    BY <1>1 DEF ProcessInv, AgesInv
<1>5. VisitsInv'
    BY <1>1 DEF ProcessInv, VisitsInv
<1> QED BY <1>2, <1>3, <1>4, <1>5 DEF ProcessInv

(* The middleware is not made; those who waited are told, or it exits.     *)
LEMMA CreationFailsKeeps ==
    ASSUME ProcessInv, Alive, CreationFails, middleware \in {"storage", "facilitator"},
           storage = "failed" \/ works # Dependency
    PROVE  ProcessInv'
<1>1. /\ middleware' = "none" /\ backoff' \in {backoff, CacheMs}
      /\ UNCHANGED <<lazy, configured, what, works, outages, sinceGood, sinceBad, clean,
                     storage, probe, cache, job, gone, yes>>
    BY DEF CreationFails, settings, dependency, healthVars
<1>2. /\ visit' \in [Visit -> VisitStep] /\ \A v \in Visit : visit'[v] \in {visit[v], "away"}
      /\ phase' = phase \/ (phase' = "exited" /\ visit' = visit)
    <2>1. CASE lazy
        <3>1. Go(Waiting("initializing"), "away") /\ phase' = phase
            BY <2>1 DEF CreationFails
        <3> QED BY <3>1, Going DEF ProcessInv, VisitStep
    <2>2. CASE ~lazy
        <3>1. visit' = visit /\ phase' = "exited"
            BY <2>2 DEF CreationFails
        <3> QED BY <3>1 DEF ProcessInv, ProcessTypeOK, VisitStep
    <2> QED BY <2>1, <2>2
<1>3. ProcessTypeOK'
    <2>1. backoff' \in 0 .. CacheMs
        BY <1>1, ProcessAssumption DEF ProcessInv, ProcessTypeOK
    <2> QED BY <1>1, <1>2, <2>1 DEF ProcessInv, ProcessTypeOK, VisitStep
<1>4. LifeInv'
    <2>1. CASE phase' = phase
        BY <1>1, <1>2, <2>1, LifeOfVisits DEF ProcessInv
    <2>2. CASE phase' = "exited" /\ visit' = visit
        BY <1>1, <2>2 DEF ProcessInv, LifeInv, Alive
    <2> QED BY <1>2, <2>1, <2>2
<1>5. AgesInv'
    <2>1. works # Dependency => sinceBad = 0
        BY DEF ProcessInv, AgesInv
    <2>2. backoff' > 0 => storage' = "failed" \/ sinceBad' <= CacheMs - backoff'
        <3>1. CASE backoff' = backoff
            BY <1>1, <3>1 DEF ProcessInv, AgesInv
        <3>2. CASE backoff' = CacheMs
            BY <1>1, <2>1, <3>2, ProcessAssumption
        <3> QED BY <1>1, <3>1, <3>2
    <2> QED BY <1>1, <2>2 DEF ProcessInv, AgesInv
<1>6. VisitsInv'
    <2>1. \A v \in Visit : visit[v] \notin {"health", "probing"}
        BY DEF ProcessInv, VisitsInv, Alive
    <2> QED BY <1>1, <1>2, <2>1 DEF ProcessInv, VisitsInv
<1> QED BY <1>3, <1>4, <1>5, <1>6 DEF ProcessInv

(* With the store there, the facilitator is asked.                         *)
LEMMA CreationStoredKeeps == ProcessInv /\ CreationStored => ProcessInv'
<1> SUFFICES ASSUME ProcessInv, CreationStored PROVE ProcessInv'
    OBVIOUS
<1>1. CASE configured /\ storage = "failed" /\ CreationFails
    BY <1>1, CreationFailsKeeps DEF CreationStored
<1>2. CASE ~(configured /\ storage = "failed" /\ CreationFails)
    <2>1. /\ configured => storage = "open"
          /\ middleware = "storage" /\ middleware' = "facilitator"
          /\ UNCHANGED <<lazy, configured, what, works, outages, sinceGood, sinceBad, phase,
                         clean, storage, backoff, probe, cache, job, visit, gone, yes>>
        BY <1>2 DEF CreationStored, settings, dependency, healthVars, visits
    <2>2. ProcessTypeOK'
        BY <2>1 DEF ProcessInv, ProcessTypeOK
    <2>3. LifeInv' /\ AgesInv'
        BY <2>1, LifeFrame, AgesFrame DEF ProcessInv
    <2>4. VisitsInv'
        BY <2>1 DEF ProcessInv, VisitsInv
    <2> QED BY <2>2, <2>3, <2>4 DEF ProcessInv
<1> QED BY <1>1, <1>2

(* The facilitator answers, and those who waited go on.                    *)
LEMMA CreationEndsKeeps == ProcessInv /\ CreationEnds => ProcessInv'
<1> SUFFICES ASSUME ProcessInv, CreationEnds PROVE ProcessInv'
    OBVIOUS
<1>1. Alive /\ middleware = "facilitator"
    BY DEF CreationEnds
<1>2. CASE "facilitator" \notin works /\ CreationFails
    BY <1>1, <1>2, CreationFailsKeeps DEF Dependency
<1>3. CASE ~("facilitator" \notin works /\ CreationFails)
    <2>1. /\ middleware' = "ready" /\ Resumed(Waiting("initializing"))
          /\ phase' = IF phase = "starting" THEN "market" ELSE phase
          /\ UNCHANGED <<lazy, configured, what, works, outages, sinceGood, sinceBad, clean,
                         storage, backoff, probe, cache, job, gone, yes>>
        BY <1>3 DEF CreationEnds, settings, dependency, healthVars
    <2>2. /\ visit' \in [Visit -> VisitStep]
          /\ \A v \in Visit : visit[v] # "initializing" => visit'[v] = visit[v]
          /\ \A v \in Visit : visit[v] = "initializing" /\ what[v] = "ready" =>
                 visit'[v] = IF StoresAnswer THEN "health" ELSE "away"
          /\ \A v \in Visit : visit[v] = "initializing" /\ what[v] = "paid" =>
                 visit'[v] = IF gone[v] THEN "away" ELSE "work"
        BY <2>1, Resuming DEF ProcessInv, Waiting
    <2>3. \A v \in Visit : what[v] \in {"ready", "paid"}
        BY DEF ProcessInv, ProcessTypeOK
    <2>4. ProcessTypeOK'
        BY <2>1, <2>2 DEF ProcessInv, ProcessTypeOK, VisitStep
    <2>5. LifeInv'
        <3>1. CASE phase = "starting"
            BY <1>1, <2>1, <3>1 DEF ProcessInv, LifeInv, Alive
        <3>2. CASE phase # "starting"
            BY <1>1, <2>1, <2>2, <3>2, LifeOfVisits DEF ProcessInv
        <3> QED BY <3>1, <3>2
    <2>6. AgesInv'
        BY <2>1, AgesFrame DEF ProcessInv
    <2>7. VisitsInv'
        <3>1. phase' # "exited" /\ configured' => storage' = "open"
            BY <1>1, <2>1 DEF ProcessInv, VisitsInv, Alive
        <3>2. ASSUME NEW v \in Visit
              PROVE  /\ visit'[v] \in {"health", "probing"} /\ phase' # "exited" =>
                            configured' /\ storage' = "open" /\ middleware' = "ready"
                     /\ visit'[v] = "work" => what'[v] = "paid"
                     /\ visit'[v] # "away" => ~yes'[v]
            <4>1. CASE visit[v] = "initializing"
                BY <1>1, <2>1, <2>2, <2>3, <4>1 DEF ProcessInv, VisitsInv, StoresAnswer
            <4>2. CASE visit[v] # "initializing"
                BY <1>1, <2>1, <2>2, <4>2 DEF ProcessInv, VisitsInv, Alive
            <4> QED BY <4>1, <4>2
        <3> QED BY <2>1, <3>1, <3>2 DEF VisitsInv
    <2> QED BY <2>4, <2>5, <2>6, <2>7 DEF ProcessInv
<1> QED BY <1>2, <1>3

(* The server listens, and the schedulers run.                             *)
LEMMA ListenKeeps == ProcessInv /\ Listen => ProcessInv'
<1> SUFFICES ASSUME ProcessInv, Listen PROVE ProcessInv'
    OBVIOUS
<1>1. /\ phase = "market" /\ phase' \in {"serving", "exited"}
      /\ phase' = "serving" => job' = [k \in Worker |-> "running"]
      /\ phase' = "exited" => job' = job
      /\ UNCHANGED <<lazy, configured, what, works, outages, sinceGood, sinceBad, clean,
                     storage, middleware, backoff, probe, cache, visit, gone, yes>>
    BY DEF Listen, settings, dependency, payment, healthVars, visits
<1>2. ProcessTypeOK'
    BY <1>1 DEF ProcessInv, ProcessTypeOK
<1>3. LifeInv'
    BY <1>1 DEF ProcessInv, LifeInv, Worker
<1>4. AgesInv'
    BY <1>1, AgesFrame DEF ProcessInv
<1>5. VisitsInv'
    BY <1>1 DEF ProcessInv, VisitsInv
<1> QED BY <1>2, <1>3, <1>4, <1>5 DEF ProcessInv

(* A request comes, while the server listens.                              *)
LEMMA ArriveKeeps ==
    ASSUME ProcessInv, NEW v \in Visit, Arrive(v)
    PROVE  ProcessInv'
<1>1. /\ phase = "serving" /\ visit[v] = "away" /\ storage' \in {storage, Opening}
      /\ gone' = [gone EXCEPT ![v] = FALSE] /\ yes' = [yes EXCEPT ![v] = FALSE]
      /\ UNCHANGED <<lazy, configured, what, works, outages, sinceGood, sinceBad, phase, clean,
                     middleware, backoff, probe, cache, job>>
    BY DEF Arrive, settings, dependency, healthVars
<1>2. PICK step \in {"storage", "payment"} : Go({v}, step)
    BY DEF Arrive
<1>3. /\ visit' \in [Visit -> VisitStep]
      /\ \A u \in Visit : visit'[u] = IF u \in {v} THEN step ELSE visit[u]
    BY <1>2, Going DEF ProcessInv, VisitStep
<1>4. /\ storage' \in {"none", "opening", "open", "failed", "closed"}
      /\ storage' = storage \/ (storage = "none" /\ storage' = "opening")
    BY <1>1 DEF Opening, ProcessInv, ProcessTypeOK
<1>5. /\ gone' \in [Visit -> BOOLEAN] /\ yes' \in [Visit -> BOOLEAN]
      /\ \A u \in Visit : u # v => gone'[u] = gone[u] /\ yes'[u] = yes[u]
      /\ ~yes'[v]
    BY <1>1 DEF ProcessInv, ProcessTypeOK
<1>6. ProcessTypeOK'
    BY <1>1, <1>3, <1>4, <1>5 DEF ProcessInv, ProcessTypeOK, VisitStep
<1>7. LifeInv'
    BY <1>1 DEF ProcessInv, LifeInv
<1>8. AgesInv'
    BY <1>1, <1>4 DEF ProcessInv, AgesInv
<1>9. VisitsInv'
    <2>1. \A u \in Visit : visit[u] \in {"health", "probing"} => storage' = storage
        BY <1>1, <1>4 DEF ProcessInv, VisitsInv
    <2>2. configured /\ middleware \in {"facilitator", "ready"} => storage' = "open"
        BY <1>1, <1>4 DEF ProcessInv, VisitsInv
    <2>3. ASSUME NEW u \in Visit
          PROVE  /\ visit'[u] \in {"health", "probing"} /\ phase' # "exited" =>
                        configured' /\ storage' = "open" /\ middleware' = "ready"
                 /\ visit'[u] = "work" => what'[u] = "paid"
                 /\ visit'[u] # "away" => ~yes'[u]
        <3>1. CASE u = v
            BY <1>3, <1>5, <3>1
        <3>2. CASE u # v
            BY <1>1, <1>3, <1>5, <2>1, <3>2 DEF ProcessInv, VisitsInv
        <3> QED BY <3>1, <3>2
    <2> QED BY <1>1, <2>2, <2>3 DEF VisitsInv
<1> QED BY <1>6, <1>7, <1>8, <1>9 DEF ProcessInv

(* A visit goes on or leaves without the health result.                    *)
LEMMA VisitStepKeeps ==
    ASSUME ProcessInv, Alive, NEW V, NEW step \in VisitStep \ {"health", "work"},
           Go(V, step), \A v \in V \cap Visit : visit[v] # "away",
           step = "probing" => \A v \in V \cap Visit : visit[v] = "health",
           UNCHANGED <<lazy, configured, what, works, outages, sinceGood, sinceBad, phase, clean,
                       storage, middleware, backoff, probe, cache, job, gone, yes>>
    PROVE  ProcessInv'
<1>1. /\ visit' \in [Visit -> VisitStep]
      /\ \A u \in Visit : visit'[u] = IF u \in V THEN step ELSE visit[u]
    BY Going DEF ProcessInv
<1>2. ProcessTypeOK'
    BY <1>1 DEF ProcessInv, ProcessTypeOK, VisitStep
<1>3. LifeInv'
    BY <1>1, LifeOfVisits DEF ProcessInv
<1>4. AgesInv'
    BY AgesFrame DEF ProcessInv
<1>5. VisitsInv'
    <2>1. ASSUME NEW u \in Visit
          PROVE  /\ visit'[u] \in {"health", "probing"} /\ phase' # "exited" =>
                        configured' /\ storage' = "open" /\ middleware' = "ready"
                 /\ visit'[u] = "work" => what'[u] = "paid"
                 /\ visit'[u] # "away" => ~yes'[u]
        <3>1. CASE u \in V
            BY <1>1, <3>1 DEF ProcessInv, VisitsInv
        <3>2. CASE u \notin V
            BY <1>1, <3>2 DEF ProcessInv, VisitsInv
        <3> QED BY <3>1, <3>2
    <2> QED BY <2>1 DEF ProcessInv, VisitsInv
<1> QED BY <1>2, <1>3, <1>4, <1>5 DEF ProcessInv

(* The store was seen to, or the work is done.                             *)
LEMMA VisitGoesKeeps ==
    ASSUME ProcessInv, NEW v \in Visit, StorageSeen(v) \/ WorkEnds(v)
    PROVE  ProcessInv'
<1>1. /\ Alive /\ visit[v] # "away"
      /\ UNCHANGED <<lazy, configured, what, works, outages, sinceGood, sinceBad, phase, clean,
                     storage, middleware, backoff, probe, cache, job, gone, yes>>
    BY DEF StorageSeen, WorkEnds, settings, dependency, payment, healthVars
<1>2. PICK step \in {"payment", "away"} : Go({v}, step)
    BY DEF StorageSeen, WorkEnds
<1>3. step \in VisitStep \ {"health", "work"} /\ step # "probing"
    BY DEF VisitStep
<1> QED BY <1>1, <1>2, <1>3, VisitStepKeeps

(* The middleware is asked for, begun, waited for or there.                *)
LEMMA AskPaymentKeeps ==
    ASSUME ProcessInv, NEW v \in Visit, AskPayment(v)
    PROVE  ProcessInv'
<1>1. /\ Alive /\ visit[v] = "payment"
      /\ UNCHANGED <<lazy, configured, what, works, outages, sinceGood, sinceBad, phase, clean,
                     probe, cache, job, gone, yes>>
    BY DEF AskPayment, settings, dependency, healthVars
<1>2. CASE (Go({v}, "away") \/ Go({v}, "initializing")) /\ UNCHANGED payment
    <2>1. UNCHANGED <<storage, middleware, backoff>>
        BY <1>2 DEF payment
    <2>2. PICK step \in {"away", "initializing"} : Go({v}, step)
        BY <1>2
    <2>3. step \in VisitStep \ {"health", "work"} /\ step # "probing"
        BY DEF VisitStep
    <2> QED BY <1>1, <2>1, <2>2, <2>3, VisitStepKeeps
<1>3. CASE middleware = "none" /\ BeginCreation /\ Go({v}, "initializing")
    <2>1. /\ middleware' = "storage" /\ backoff' = backoff
          /\ storage' = storage \/ (storage = "none" /\ storage' = "opening")
        BY <1>3 DEF BeginCreation, Opening
    <2>2. /\ visit' \in [Visit -> VisitStep]
          /\ \A u \in Visit : visit'[u] = IF u \in {v} THEN "initializing" ELSE visit[u]
        BY <1>3, Going DEF ProcessInv, VisitStep
    <2>3. ProcessTypeOK'
        BY <1>1, <2>1, <2>2 DEF ProcessInv, ProcessTypeOK, VisitStep
    <2>4. LifeInv'
        BY <1>1, <2>2, LifeOfVisits DEF ProcessInv
    <2>5. AgesInv'
        BY <1>1, <2>1 DEF ProcessInv, AgesInv
    <2>6. VisitsInv'
        <3>1. \A u \in Visit : visit[u] \notin {"health", "probing"}
            BY <1>1, <1>3 DEF ProcessInv, VisitsInv, Alive
        <3> QED BY <1>1, <2>1, <2>2, <3>1 DEF ProcessInv, VisitsInv
    <2> QED BY <2>3, <2>4, <2>5, <2>6 DEF ProcessInv
<1>4. CASE middleware = "ready" /\ Resumed({v}) /\ UNCHANGED payment
    <2>1. UNCHANGED <<storage, middleware, backoff>>
        BY <1>4 DEF payment
    <2>2. what[v] \in {"ready", "paid"}
        BY DEF ProcessInv, ProcessTypeOK
    <2>3. /\ visit' \in [Visit -> VisitStep]
          /\ \A u \in Visit : u # v => visit'[u] = visit[u]
          /\ what[v] = "ready" => visit'[v] = IF StoresAnswer THEN "health" ELSE "away"
          /\ what[v] = "paid" => visit'[v] = IF gone[v] THEN "away" ELSE "work"
        BY <1>4, Resuming DEF ProcessInv
    <2>4. ProcessTypeOK'
        BY <1>1, <2>1, <2>3 DEF ProcessInv, ProcessTypeOK, VisitStep
    <2>5. LifeInv'
        <3>1. \A u \in Visit : visit[u] = "away" => visit'[u] = "away"
            BY <1>1, <2>3
        <3> QED BY <1>1, <3>1, LifeOfVisits DEF ProcessInv
    <2>6. AgesInv'
        BY <1>1, <2>1, AgesFrame DEF ProcessInv
    <2>7. VisitsInv'
        <3>1. ASSUME NEW u \in Visit
              PROVE  /\ visit'[u] \in {"health", "probing"} /\ phase' # "exited" =>
                            configured' /\ storage' = "open" /\ middleware' = "ready"
                     /\ visit'[u] = "work" => what'[u] = "paid"
                     /\ visit'[u] # "away" => ~yes'[u]
            <4>1. CASE u = v
                BY <1>1, <1>4, <2>1, <2>2, <2>3, <4>1 DEF ProcessInv, VisitsInv, StoresAnswer
            <4>2. CASE u # v
                BY <1>1, <2>1, <2>3, <4>2 DEF ProcessInv, VisitsInv
            <4> QED BY <4>1, <4>2
        <3> QED BY <1>1, <2>1, <3>1 DEF ProcessInv, VisitsInv
    <2> QED BY <2>4, <2>5, <2>6, <2>7 DEF ProcessInv
<1> QED BY <1>2, <1>3, <1>4 DEF AskPayment

(* The result that is kept, or the one probe.                              *)
LEMMA AskHealthKeeps ==
    ASSUME ProcessInv, NEW v \in Visit, AskHealth(v)
    PROVE  ProcessInv'
<1>1. /\ Alive /\ visit[v] = "health"
      /\ UNCHANGED <<lazy, configured, what, works, outages, sinceGood, sinceBad, phase, clean,
                     storage, middleware, backoff, cache, job, gone>>
    BY DEF AskHealth, settings, dependency, payment
<1>2. PICK step \in {"away", "probing"} :
          /\ Go({v}, step)
          /\ step = "away" => /\ yes' = [yes EXCEPT ![v] = cache.ok]
                              /\ probe' = probe
          /\ step = "probing" =>
                 /\ yes' = yes
                 /\ probe' = IF probe.step = "none" THEN [NoProbe EXCEPT !.step = "market"]
                             ELSE probe
    BY DEF AskHealth
<1>3. /\ visit' \in [Visit -> VisitStep]
      /\ \A u \in Visit : visit'[u] = IF u \in {v} THEN step ELSE visit[u]
    BY <1>2, Going DEF ProcessInv, VisitStep
<1>4. /\ yes' \in [Visit -> BOOLEAN] /\ \A u \in Visit : u # v => yes'[u] = yes[u]
      /\ step = "probing" => yes'[v] = yes[v]
    <2>1. yes \in [Visit -> BOOLEAN] /\ cache.ok \in BOOLEAN
        BY DEF ProcessInv, ProcessTypeOK
    <2> QED BY <1>2, <2>1
<1>5. probe' = probe \/ probe' = [step |-> "market", ok |-> FALSE, age |-> 0]
    BY <1>2 DEF NoProbe
<1>6. ProcessTypeOK'
    <2>1. probe' \in [step : {"none", "market", "height", "answered"}, ok : BOOLEAN,
                      age : 0 .. RpcMs]
        <3>1. 0 \in 0 .. RpcMs
            BY ProcessAssumption
        <3>2. CASE probe' = probe
            BY <3>2 DEF ProcessInv, ProcessTypeOK
        <3>3. CASE probe' = [step |-> "market", ok |-> FALSE, age |-> 0]
            BY <3>1, <3>3
        <3> QED BY <1>5, <3>2, <3>3
    <2> QED BY <1>1, <1>3, <1>4, <2>1 DEF ProcessInv, ProcessTypeOK, VisitStep
<1>7. LifeInv'
    BY <1>1, <1>3, LifeOfVisits DEF ProcessInv
<1>8. AgesInv'
    BY <1>1, <1>5 DEF ProcessInv, AgesInv
<1>9. VisitsInv'
    <2>1. ASSUME NEW u \in Visit
          PROVE  /\ visit'[u] \in {"health", "probing"} /\ phase' # "exited" =>
                        configured' /\ storage' = "open" /\ middleware' = "ready"
                 /\ visit'[u] = "work" => what'[u] = "paid"
                 /\ visit'[u] # "away" => ~yes'[u]
        <3>1. CASE u = v
            BY <1>1, <1>3, <1>4, <3>1 DEF ProcessInv, VisitsInv, Alive
        <3>2. CASE u # v
            BY <1>1, <1>3, <1>4, <3>2 DEF ProcessInv, VisitsInv
        <3> QED BY <3>1, <3>2
    <2> QED BY <1>1, <2>1 DEF ProcessInv, VisitsInv
<1> QED BY <1>6, <1>7, <1>8, <1>9 DEF ProcessInv

-------------------------------------------------------------------------------
(* The probe.                                                              *)

ProbeState == [step : {"none", "market", "height", "answered"}, ok : BOOLEAN, age : 0 .. RpcMs]

(* The node answers, or does not.                                          *)
LEMMA NodeAnswersKeeps == ProcessInv /\ NodeAnswers => ProcessInv'
<1> SUFFICES ASSUME ProcessInv, NodeAnswers PROVE ProcessInv'
    OBVIOUS
<1>1. /\ Alive
      /\ UNCHANGED <<lazy, configured, what, works, outages, sinceGood, sinceBad, phase, clean,
                     storage, middleware, backoff, cache, job, visit, gone, yes>>
    BY DEF NodeAnswers, settings, dependency, payment, visits
<1>2. PICK good : good = ("chain" \in works)
    OBVIOUS
<1>3. good \in BOOLEAN /\ probe \in ProbeState /\ 0 \in 0 .. RpcMs
    BY <1>2, ProcessAssumption DEF ProcessInv, ProcessTypeOK, ProbeState
<1>4. \/ probe' = [step |-> "height", ok |-> FALSE, age |-> 0]
      \/ probe' = [probe EXCEPT !.step = "answered", !.ok = good]
    BY <1>2 DEF NodeAnswers
<1>5. /\ probe' \in ProbeState
      /\ probe'.step = "height" \/ (probe'.step = "answered" /\ probe'.ok = good)
    <2>1. CASE probe' = [step |-> "height", ok |-> FALSE, age |-> 0]
        BY <1>3, <2>1 DEF ProbeState
    <2>2. CASE probe' = [probe EXCEPT !.step = "answered", !.ok = good]
        BY <1>3, <2>2 DEF ProbeState
    <2> QED BY <1>4, <2>1, <2>2
<1>6. ProcessTypeOK'
    BY <1>1, <1>5 DEF ProcessInv, ProcessTypeOK, ProbeState
<1>7. LifeInv' /\ VisitsInv'
    BY <1>1, LifeFrame, VisitsFrame DEF ProcessInv
<1>8. AgesInv'
    <2>1. good => sinceGood = 0
        BY <1>2 DEF ProcessInv, AgesInv
    <2>2. ~good => sinceBad = 0
        BY <1>2 DEF ProcessInv, AgesInv, Dependency
    <2>3. probe'.age \in 0 .. RpcMs /\ 0 <= probe'.age
        <3>1. probe'.age \in 0 .. RpcMs
            BY <1>5 DEF ProbeState
        <3> QED BY <3>1
    <2>4. /\ probe'.step = "answered" /\ probe'.ok => sinceGood' <= probe'.age
          /\ probe'.step = "answered" /\ ~probe'.ok => sinceBad' <= probe'.age
        BY <1>1, <1>5, <2>1, <2>2, <2>3
    <2> QED BY <1>1, <2>4 DEF ProcessInv, AgesInv
<1> QED BY <1>6, <1>7, <1>8 DEF ProcessInv

(* What the probe has found, when it ends.                                 *)
LEMMA ProbeFound ==
    ASSUME ProcessInv, ProbeEnds, NEW ok, ok = (probe.step = "answered" /\ probe.ok)
    PROVE  /\ ok \in BOOLEAN
           /\ ok => sinceGood <= RpcMs
           /\ ~ok => sinceBad <= RpcMs
<1>1. probe.age \in 0 .. RpcMs /\ sinceGood \in Ages /\ sinceBad \in Ages
    BY DEF ProcessInv, ProcessTypeOK
<1>2. ok => sinceGood <= probe.age
    BY DEF ProcessInv, AgesInv
<1>3. ASSUME ~ok PROVE sinceBad <= RpcMs
    <2>1. CASE probe.step = "answered"
        <3>1. sinceBad <= probe.age
            BY <1>3, <2>1 DEF ProcessInv, AgesInv
        <3> QED BY <1>1, <3>1, ProcessAssumption DEF Ages
    <2>2. CASE probe.step # "answered"
        <3>1. "chain" \notin works
            BY <2>2 DEF ProbeEnds
        <3>2. sinceBad = 0
            BY <3>1 DEF ProcessInv, AgesInv, Dependency
        <3> QED BY <3>2, ProcessAssumption
    <2> QED BY <2>1, <2>2
<1> QED BY <1>1, <1>2, <1>3, ProcessAssumption DEF Ages

(* The result is kept, and everyone who waited for it has it.              *)
LEMMA ProbeEndsKeeps == ProcessInv /\ ProbeEnds => ProcessInv'
<1> SUFFICES ASSUME ProcessInv, ProbeEnds PROVE ProcessInv'
    OBVIOUS
<1>1. PICK ok : ok = (probe.step = "answered" /\ probe.ok)
    OBVIOUS
<1>2. /\ ok \in BOOLEAN
      /\ ok => sinceGood <= RpcMs
      /\ ~ok => sinceBad <= RpcMs
    BY <1>1, ProbeFound
<1>3. /\ Alive /\ probe' = NoProbe /\ cache' = [left |-> CacheMs, ok |-> ok]
      /\ Go(Waiting("probing"), "away")
      /\ yes' = [v \in Visit |-> IF visit[v] = "probing" THEN ok ELSE yes[v]]
      /\ UNCHANGED <<lazy, configured, what, works, outages, sinceGood, sinceBad, phase, clean,
                     storage, middleware, backoff, job, gone>>
    BY <1>1 DEF ProbeEnds, settings, dependency, payment
<1>4. /\ visit' \in [Visit -> VisitStep]
      /\ \A v \in Visit : visit'[v] = IF visit[v] = "probing" THEN "away" ELSE visit[v]
    BY <1>3, Going DEF ProcessInv, VisitStep, Waiting
<1>5. /\ yes' \in [Visit -> BOOLEAN]
      /\ \A v \in Visit : visit[v] # "probing" => yes'[v] = yes[v]
    <2>1. yes \in [Visit -> BOOLEAN]
        BY DEF ProcessInv, ProcessTypeOK
    <2> QED BY <1>2, <1>3, <2>1
<1>6. ProcessTypeOK'
    <2>1. 0 \in 0 .. RpcMs /\ CacheMs \in 0 .. CacheMs
        BY ProcessAssumption
    <2>2. NoProbe \in ProbeState /\ cache' \in [left : 0 .. CacheMs, ok : BOOLEAN]
        BY <1>2, <1>3, <2>1 DEF NoProbe, ProbeState
    <2> QED BY <1>3, <1>4, <1>5, <2>2 DEF ProcessInv, ProcessTypeOK, VisitStep, ProbeState
<1>7. LifeInv'
    BY <1>3, <1>4, LifeOfVisits DEF ProcessInv
<1>8. AgesInv'
    <2>1. /\ probe'.step = "none" /\ cache'.left = CacheMs /\ cache'.ok = ok
          /\ CacheMs - cache'.left + RpcMs = RpcMs
        BY <1>3, ProcessAssumption DEF NoProbe
    <2>2. /\ cache'.ok => sinceGood' <= CacheMs - cache'.left + RpcMs
          /\ ~cache'.ok => sinceBad' <= CacheMs - cache'.left + RpcMs
        BY <1>2, <1>3, <2>1
    <2> QED BY <1>3, <2>1, <2>2 DEF ProcessInv, AgesInv
<1>9. VisitsInv'
    BY <1>3, <1>4, <1>5 DEF ProcessInv, VisitsInv
<1> QED BY <1>6, <1>7, <1>8, <1>9 DEF ProcessInv

-------------------------------------------------------------------------------
(* Clients, schedulers and the end.                                        *)

(* A client leaves.                                                        *)
LEMMA LeaveKeeps ==
    ASSUME ProcessInv, NEW v \in Visit, Leave(v)
    PROVE  ProcessInv'
<1>1. /\ Alive /\ gone' = [gone EXCEPT ![v] = TRUE]
      /\ UNCHANGED <<lazy, configured, what, works, outages, sinceGood, sinceBad, phase, clean,
                     storage, middleware, backoff, probe, cache, job, visit, yes>>
    BY DEF Leave, settings, dependency, payment, healthVars
<1>2. /\ gone' \in [Visit -> BOOLEAN] /\ \A u \in Visit : gone[u] => gone'[u]
    BY <1>1 DEF ProcessInv, ProcessTypeOK
<1>3. ProcessTypeOK'
    BY <1>1, <1>2 DEF ProcessInv, ProcessTypeOK
<1>4. LifeInv'
    BY <1>1, <1>2, LifeOfVisits DEF ProcessInv
<1>5. AgesInv' /\ VisitsInv'
    BY <1>1, AgesFrame, VisitsFrame DEF ProcessInv
<1> QED BY <1>3, <1>4, <1>5 DEF ProcessInv

(* A scheduler begins a run or ends one.                                   *)
LEMMA RunsKeep ==
    ASSUME ProcessInv, NEW k \in Worker, RunBegins(k) \/ RunEnds(k)
    PROVE  ProcessInv'
<1>1. /\ Alive
      /\ UNCHANGED <<lazy, configured, what, works, outages, sinceGood, sinceBad, phase, clean,
                     storage, middleware, backoff, probe, cache, visit, gone, yes>>
    BY DEF RunBegins, RunEnds, settings, dependency, payment, healthVars, visits
<1>2. PICK to \in {"running", "stopped", "waiting", "failed"} :
          /\ job' = [job EXCEPT ![k] = to]
          /\ to = "failed" => k = "activity"
          /\ phase = "stopping" => (to \in {"stopped", "failed"} \/ job[k] = "waiting")
    BY DEF RunBegins, RunEnds
<1>3. /\ job' \in [Worker -> {"none", "waiting", "running", "failed", "stopped"}]
      /\ job'[k] = to /\ \A l \in Worker : l # k => job'[l] = job[l]
    BY <1>2 DEF ProcessInv, ProcessTypeOK
<1>4. ProcessTypeOK'
    BY <1>1, <1>3 DEF ProcessInv, ProcessTypeOK
<1>5. LifeInv'
    <2>1. phase = "stopping" => job[k] # "waiting"
        BY DEF ProcessInv, LifeInv
    <2>2. \A l \in Worker : /\ phase = "stopping" => job'[l] \in {"running", "failed", "stopped"}
                            /\ job[l] # "none" => job'[l] # "none"
        BY <1>2, <1>3, <2>1 DEF ProcessInv, LifeInv
    <2>3. job'["discovery"] # "failed"
        BY <1>2, <1>3 DEF ProcessInv, LifeInv, Worker
    <2>4. ~clean
        BY <1>1 DEF ProcessInv, LifeInv, Alive
    <2> QED BY <1>1, <2>2, <2>3, <2>4 DEF ProcessInv, LifeInv
<1>6. AgesInv' /\ VisitsInv'
    BY <1>1, AgesFrame, VisitsFrame DEF ProcessInv
<1> QED BY <1>4, <1>5, <1>6 DEF ProcessInv

(* The signal, the last connection, and the time limit of the drain.       *)
LEMMA DrainKeeps ==
    ASSUME ProcessInv, Shutdown \/ Stop \/ DrainTimeout
    PROVE  ProcessInv'
<1>1. /\ phase \in {"serving", "draining", "stopping"}
      /\ phase' \in {"draining", "stopping", "exited"}
      /\ UNCHANGED <<lazy, configured, what, works, outages, sinceGood, sinceBad, clean,
                     storage, middleware, backoff, probe, cache, visit, gone, yes>>
    BY DEF Shutdown, Stop, DrainTimeout, settings, dependency, payment, healthVars, visits
<1>2. ~clean /\ job \in [Worker -> {"none", "waiting", "running", "failed", "stopped"}]
    BY <1>1 DEF ProcessInv, LifeInv, ProcessTypeOK
<1>3. AgesInv'
    BY <1>1, AgesFrame DEF ProcessInv
<1>4. VisitsInv'
    BY <1>1 DEF ProcessInv, VisitsInv
<1>5. CASE Shutdown \/ DrainTimeout
    <2>1. /\ job' = job /\ phase' \in {"draining", "exited"}
          /\ phase' = "draining" => ~lazy /\ phase = "serving"
        BY <1>5 DEF Shutdown, DrainTimeout
    <2>2. ProcessTypeOK'
        BY <1>1, <2>1 DEF ProcessInv, ProcessTypeOK
    <2>3. LifeInv'
        BY <1>1, <1>2, <2>1 DEF ProcessInv, LifeInv
    <2> QED BY <1>3, <1>4, <2>2, <2>3 DEF ProcessInv
<1>6. CASE Stop
    <2>1. /\ phase = "draining" /\ phase' = "stopping"
          /\ \A v \in Visit : visit[v] = "away" \/ gone[v]
          /\ \A k \in Worker : job'[k] = IF job[k] = "waiting" THEN "stopped" ELSE job[k]
          /\ job' \in [Worker -> {"none", "waiting", "running", "failed", "stopped"}]
        BY <1>2, <1>6 DEF Stop
    <2>2. ProcessTypeOK'
        BY <1>1, <2>1 DEF ProcessInv, ProcessTypeOK
    <2>3. ~lazy /\ \A k \in Worker : job[k] # "none"
        BY <2>1 DEF ProcessInv, LifeInv
    <2>4. \A k \in Worker : job'[k] \in {"running", "failed", "stopped"}
        BY <1>2, <2>1, <2>3
    <2>5. job'["discovery"] # "failed"
        BY <2>1 DEF ProcessInv, LifeInv, Worker
    <2>6. LifeInv'
        BY <1>1, <1>2, <2>1, <2>3, <2>4, <2>5 DEF LifeInv
    <2> QED BY <1>3, <1>4, <2>2, <2>6 DEF ProcessInv
<1> QED BY <1>5, <1>6

(* Both schedulers are done, and the stores are closed.                    *)
LEMMA ExitKeeps == ProcessInv /\ Exit => ProcessInv'
<1> SUFFICES ASSUME ProcessInv, Exit PROVE ProcessInv'
    OBVIOUS
<1>1. /\ phase = "stopping" /\ AllStopped /\ phase' = "exited"
      /\ clean' = (job["activity"] # "failed") /\ clean' \in BOOLEAN
      /\ storage' \in {storage, "closed"} /\ (storage = "failed" => storage' = "failed")
      /\ UNCHANGED <<lazy, configured, what, works, outages, sinceGood, sinceBad,
                     middleware, backoff, probe, cache, job, visit, gone, yes>>
    BY DEF Exit, settings, dependency, healthVars, visits
<1>2. ProcessTypeOK'
    BY <1>1 DEF ProcessInv, ProcessTypeOK
<1>3. LifeInv'
    <2>1. /\ \A v \in Visit : visit[v] = "away" \/ gone[v]
          /\ \A k \in Worker : job[k] \in {"failed", "stopped"}
        BY <1>1 DEF ProcessInv, LifeInv, AllStopped
    <2>2. clean' => \A k \in Worker : job[k] = "stopped"
        BY <1>1, <2>1 DEF ProcessInv, LifeInv, Worker
    <2> QED BY <1>1, <2>1, <2>2 DEF ProcessInv, LifeInv
<1>4. AgesInv'
    BY <1>1 DEF ProcessInv, AgesInv
<1>5. VisitsInv'
    BY <1>1 DEF ProcessInv, VisitsInv
<1> QED BY <1>2, <1>3, <1>4, <1>5 DEF ProcessInv

-------------------------------------------------------------------------------
(* The world.                                                              *)

(* A dependency breaks down or works again.                                *)
LEMMA OutagesKeep ==
    ASSUME ProcessInv, NEW d \in Dependency, BreaksDown(d) \/ WorksAgain(d)
    PROVE  ProcessInv'
<1>1. UNCHANGED <<lazy, configured, what, phase, clean, storage, middleware, backoff, probe,
                  cache, job, visit, gone, yes>>
    BY DEF BreaksDown, WorksAgain, settings, payment, healthVars, visits
<1>2. /\ works' \subseteq Dependency /\ outages' \in 0 .. MaxOutages
      /\ sinceGood' \in {0, sinceGood} /\ sinceBad' \in {0, sinceBad}
      /\ "chain" \in works' => sinceGood' = 0
      /\ works' # Dependency => sinceBad' = 0
    <2>1. CASE BreaksDown(d)
        <3>1. outages \in 0 .. MaxOutages /\ outages < MaxOutages /\ outages' = outages + 1
            BY <2>1 DEF BreaksDown, ProcessInv, ProcessTypeOK
        <3>2. outages' \in 0 .. MaxOutages
            BY <3>1, ProcessAssumption
        <3> QED BY <2>1, <3>2 DEF BreaksDown, ProcessInv, ProcessTypeOK, AgesInv
    <2>2. CASE WorksAgain(d)
        <3>1. /\ works' = works \cup {d} /\ outages' = outages /\ sinceBad' = sinceBad
              /\ sinceGood' = IF d = "chain" THEN 0 ELSE sinceGood
              /\ works # Dependency
            BY <2>2 DEF WorksAgain
        <3> QED BY <3>1 DEF ProcessInv, ProcessTypeOK, AgesInv
    <2> QED BY <2>1, <2>2
<1>3. sinceGood \in Nat /\ sinceBad \in Nat /\ 0 \in Ages
    BY ProcessAssumption DEF ProcessInv, ProcessTypeOK, Ages
<1>4. ProcessTypeOK'
    BY <1>1, <1>2, <1>3 DEF ProcessInv, ProcessTypeOK
<1>5. LifeInv' /\ VisitsInv'
    BY <1>1, LifeFrame, VisitsFrame DEF ProcessInv
<1>6. AgesInv'
    <2>1. /\ probe.age \in 0 .. RpcMs /\ cache.left \in 0 .. CacheMs /\ backoff \in 0 .. CacheMs
        BY DEF ProcessInv, ProcessTypeOK
    <2>2. \A n \in Int : 0 <= n => /\ sinceGood <= n => sinceGood' <= n
                                   /\ sinceBad <= n => sinceBad' <= n
        BY <1>2, <1>3
    <2>3. /\ 0 <= probe.age /\ probe.age \in Int
          /\ 0 <= CacheMs - cache.left + RpcMs /\ CacheMs - cache.left + RpcMs \in Int
          /\ 0 <= CacheMs - backoff /\ CacheMs - backoff \in Int
        BY <2>1, ProcessAssumption
    <2> QED BY <1>1, <1>2, <2>2, <2>3 DEF ProcessInv, AgesInv
<1> QED BY <1>4, <1>5, <1>6 DEF ProcessInv

(* What was so no longer ago than n is so no longer ago than n + 1 a tick  *)
(* later, wherever the clock of ages stops.                                *)
LEMMA OneTickOlder ==
    ASSUME NEW age \in Ages
    PROVE  /\ Older(age) \in Ages /\ 0 \in Ages
           /\ \A n \in Int : 0 <= n /\ age <= n => Older(age) <= n + 1 /\ 0 <= n + 1
BY ProcessAssumption DEF Ages, Older

(* A tick less of a pause is a tick more since it began.                   *)
LEMMA LessLeft ==
    ASSUME NEW m \in 0 .. CacheMs, NEW n \in 0 .. CacheMs, m = n + 1
    PROVE  /\ CacheMs - n = (CacheMs - m) + 1
           /\ CacheMs - m \in Int /\ 0 <= CacheMs - m
<1>1. CacheMs \in Int /\ m \in Int /\ n \in Int /\ m <= CacheMs
    BY ProcessAssumption
<1> QED BY <1>1

(* The clock: what is kept is a tick older, and so is what it says.        *)
LEMMA TickKeeps == ProcessInv /\ ProcessTick => ProcessInv'
<1> SUFFICES ASSUME ProcessInv, ProcessTick PROVE ProcessInv'
    OBVIOUS
<1>1. UNCHANGED <<lazy, configured, what, works, outages, phase, clean, storage, middleware,
                  job, visit, gone, yes>>
    BY DEF ProcessTick, settings, visits
<1>2. /\ sinceGood \in Ages /\ sinceBad \in Ages /\ backoff \in 0 .. CacheMs
      /\ probe \in ProbeState /\ cache \in [left : 0 .. CacheMs, ok : BOOLEAN]
    BY DEF ProcessInv, ProcessTypeOK, ProbeState
<1>3. /\ sinceGood' \in Ages /\ sinceBad' \in Ages
      /\ \A n \in Int : 0 <= n => /\ sinceGood <= n => sinceGood' <= n + 1
                                  /\ sinceBad <= n => sinceBad' <= n + 1
    <2>1. /\ sinceGood' \in {0, Older(sinceGood)} /\ sinceBad' \in {0, Older(sinceBad)}
        BY DEF ProcessTick
    <2>2. /\ Older(sinceGood) \in Ages /\ 0 \in Ages
          /\ \A n \in Int : 0 <= n /\ sinceGood <= n =>
                 Older(sinceGood) <= n + 1 /\ 0 <= n + 1
        BY <1>2, OneTickOlder
    <2>3. /\ Older(sinceBad) \in Ages
          /\ \A n \in Int : 0 <= n /\ sinceBad <= n =>
                 Older(sinceBad) <= n + 1 /\ 0 <= n + 1
        BY <1>2, OneTickOlder
    <2> QED BY <2>1, <2>2, <2>3
<1>4. /\ probe' \in ProbeState /\ probe'.ok = probe.ok /\ probe'.step = probe.step
      /\ probe.step # "none" => probe'.age = probe.age + 1
    <2>1. CASE probe.step = "none"
        <3>1. probe' = probe
            BY <2>1 DEF ProcessTick
        <3> QED BY <1>2, <2>1, <3>1
    <2>2. CASE probe.step # "none"
        <3>1. probe' = [probe EXCEPT !.age = probe.age + 1] /\ probe.age < RpcMs
            BY <2>2 DEF ProcessTick
        <3>2. probe.age \in 0 .. RpcMs
            BY <1>2 DEF ProbeState
        <3>3. PICK n : n = probe.age + 1
            OBVIOUS
        <3>4. n \in 0 .. RpcMs
            BY <3>1, <3>2, <3>3, ProcessAssumption
        <3>5. probe' = [probe EXCEPT !.age = n]
            BY <3>1, <3>3
        <3> QED BY <1>2, <3>3, <3>4, <3>5 DEF ProbeState
    <2> QED BY <2>1, <2>2
<1>5. /\ cache' \in [left : 0 .. CacheMs, ok : BOOLEAN] /\ cache'.ok = cache.ok
      /\ cache'.left > 0 => cache.left > 0 /\ cache.left = cache'.left + 1
    <2>1. PICK n : n = Less(cache.left)
        OBVIOUS
    <2>2. cache.left \in 0 .. CacheMs
        BY <1>2
    <2>3. n \in 0 .. CacheMs /\ (n > 0 => cache.left > 0 /\ cache.left = n + 1)
        BY <2>1, <2>2, ProcessAssumption DEF Less
    <2>4. cache' = [cache EXCEPT !.left = n]
        BY <2>1 DEF ProcessTick
    <2> QED BY <1>2, <2>3, <2>4
<1>6. /\ backoff' \in 0 .. CacheMs
      /\ backoff' > 0 => backoff > 0 /\ backoff = backoff' + 1
    BY <1>2, ProcessAssumption DEF ProcessTick, Less
<1>7. ProcessTypeOK'
    BY <1>1, <1>3, <1>4, <1>5, <1>6 DEF ProcessInv, ProcessTypeOK, ProbeState
<1>8. LifeInv' /\ VisitsInv'
    BY <1>1, LifeFrame, VisitsFrame DEF ProcessInv
<1>9. AgesInv'
    <2>1. /\ "chain" \in works' => sinceGood' = 0
          /\ works' # Dependency => sinceBad' = 0
        BY <1>1 DEF ProcessTick
    <2>2. /\ probe'.step = "answered" /\ probe'.ok => sinceGood' <= probe'.age
          /\ probe'.step = "answered" /\ ~probe'.ok => sinceBad' <= probe'.age
        <3>1. probe.age \in 0 .. RpcMs
            BY <1>2 DEF ProbeState
        <3>2. probe.age \in Int /\ 0 <= probe.age
            BY <3>1
        <3> QED BY <1>3, <1>4, <3>2 DEF ProcessInv, AgesInv
    <2>3. cache'.left > 0 =>
              /\ cache.left > 0
              /\ CacheMs - cache'.left + RpcMs = (CacheMs - cache.left + RpcMs) + 1
              /\ CacheMs - cache.left + RpcMs \in Int /\ 0 <= CacheMs - cache.left + RpcMs
        <3>1. cache.left \in 0 .. CacheMs /\ cache'.left \in 0 .. CacheMs
            BY <1>2, <1>5
        <3> QED BY <1>5, <3>1, ProcessAssumption
    <2>4. /\ cache'.left > 0 /\ cache'.ok => sinceGood' <= CacheMs - cache'.left + RpcMs
          /\ cache'.left > 0 /\ ~cache'.ok => sinceBad' <= CacheMs - cache'.left + RpcMs
        <3>1. /\ cache.left > 0 /\ cache.ok => sinceGood <= CacheMs - cache.left + RpcMs
              /\ cache.left > 0 /\ ~cache.ok => sinceBad <= CacheMs - cache.left + RpcMs
            BY DEF ProcessInv, AgesInv
        <3> QED BY <1>3, <1>5, <2>3, <3>1
    <2>5. backoff' > 0 => storage' = "failed" \/ sinceBad' <= CacheMs - backoff'
        <3>1. backoff > 0 => storage = "failed" \/ sinceBad <= CacheMs - backoff
            BY DEF ProcessInv, AgesInv
        <3>2. backoff' > 0 => /\ CacheMs - backoff' = (CacheMs - backoff) + 1
                              /\ CacheMs - backoff \in Int /\ 0 <= CacheMs - backoff
            <4>1. backoff \in 0 .. CacheMs /\ backoff' \in 0 .. CacheMs
                BY <1>2, <1>6
            <4> QED BY <1>6, <4>1, LessLeft
        <3> QED BY <1>1, <1>3, <1>6, <3>1, <3>2
    <2> QED BY <2>1, <2>2, <2>4, <2>5 DEF AgesInv
<1> QED BY <1>7, <1>8, <1>9 DEF ProcessInv

-------------------------------------------------------------------------------
(* Every step keeps the invariant.                                         *)
LEMMA ProcessInvStep == ProcessInv /\ [ProcessNext]_processVars => ProcessInv'
<1> SUFFICES ASSUME ProcessInv, [ProcessNext]_processVars PROVE ProcessInv'
    OBVIOUS
<1>1. CASE StorageOpens \/ CreationStored \/ CreationEnds \/ Listen
    BY <1>1, StorageOpensKeeps, CreationStoredKeeps, CreationEndsKeeps, ListenKeeps
<1>2. CASE NodeAnswers \/ ProbeEnds
    BY <1>2, NodeAnswersKeeps, ProbeEndsKeeps
<1>3. ASSUME NEW v \in Visit,
             \/ Arrive(v) \/ StorageSeen(v) \/ AskPayment(v) \/ AskHealth(v)
             \/ WorkEnds(v) \/ Leave(v)
      PROVE  ProcessInv'
    <2>1. CASE Arrive(v) \/ Leave(v)
        BY <2>1, ArriveKeeps, LeaveKeeps
    <2>2. CASE StorageSeen(v) \/ WorkEnds(v)
        BY <2>2, VisitGoesKeeps
    <2>3. CASE AskPayment(v) \/ AskHealth(v)
        BY <2>3, AskPaymentKeeps, AskHealthKeeps
    <2> QED BY <1>3, <2>1, <2>2, <2>3
<1>4. CASE \E k \in Worker : RunBegins(k) \/ RunEnds(k)
    BY <1>4, RunsKeep
<1>5. CASE Shutdown \/ Stop \/ DrainTimeout
    BY <1>5, DrainKeeps
<1>6. CASE Exit
    BY <1>6, ExitKeeps
<1>7. CASE \E d \in Dependency : BreaksDown(d) \/ WorksAgain(d)
    BY <1>7, OutagesKeep
<1>8. CASE ProcessTick
    BY <1>8, TickKeeps
<1>9. CASE UNCHANGED processVars
    <2>1. UNCHANGED <<lazy, configured, what, works, outages, sinceGood, sinceBad, phase, clean,
                      storage, middleware, backoff, probe, cache, job, visit, gone, yes>>
        BY <1>9 DEF processVars, settings, dependency, payment, healthVars, visits
    <2>2. ProcessTypeOK'
        BY <2>1 DEF ProcessInv, ProcessTypeOK
    <2> QED BY <2>1, <2>2, LifeFrame, AgesFrame, VisitsFrame DEF ProcessInv
<1> QED BY <1>1, <1>2, <1>3, <1>4, <1>5, <1>6, <1>7, <1>8, <1>9 DEF ProcessNext

(* The whole life of the process: who has got as far as the health result  *)
(* has store and middleware, a kept result is as true as it is old, and    *)
(* the schedulers that stopped do not begin again (startServer, health,    *)
(* initializedPayment).                                                    *)
THEOREM ProcessInductive == ProcessSpec => []ProcessInv
<1> QED BY ProcessInvInit, ProcessInvStep, PTL DEF ProcessSpec

(* For any requests and any lengths of time: a process that exits with     *)
(* code 0 has answered every client who waited, and its schedulers had     *)
(* stopped (startServer).                                                  *)
THEOREM ExitsClean == ProcessSpec => []CleanExit
<1>1. ProcessInv => CleanExit
    BY DEF ProcessInv, LifeInv, CleanExit
<1> QED BY <1>1, ProcessInductive, PTL

-------------------------------------------------------------------------------
(* What /ready says.                                                       *)

(* What an answer of /ready claims.                                        *)
AnswerTrue(good) ==
    IF good THEN /\ configured /\ storage = "open" /\ middleware = "ready"
                 /\ sinceGood < CacheMs + RpcMs
            ELSE ~configured \/ storage = "failed" \/ sinceBad < CacheMs + RpcMs

(* Something that does not work now is bad news enough.                    *)
LEMMA BadNow ==
    ASSUME ProcessInv, works # Dependency \/ storage = "failed" \/ ~configured
    PROVE  AnswerTrue(FALSE)
<1>1. works # Dependency => sinceBad = 0
    BY DEF ProcessInv, AgesInv
<1>2. 0 < CacheMs + RpcMs
    BY ProcessAssumption
<1> QED BY <1>1, <1>2 DEF AnswerTrue

(* Who resumes without the stores is told so.                              *)
LEMMA ResumedBadly ==
    ASSUME ProcessInv, Alive, ~StoresAnswer, middleware \in {"facilitator", "ready"}
    PROVE  AnswerTrue(FALSE)
<1>1. configured => storage = "open"
    BY DEF ProcessInv, VisitsInv, Alive
<1>2. ~configured \/ works # Dependency
    BY <1>1 DEF StoresAnswer, Dependency
<1> QED BY <1>2, BadNow

(* Each way a request for /ready ends.                                     *)
LEMMA AnswersAreTrue ==
    ASSUME ProcessInv, [ProcessNext]_processVars, NEW v \in Visit,
           what[v] = "ready", visit[v] # "away", visit'[v] = "away"
    PROVE  AnswerTrue(yes'[v])
<1>1. ~yes[v]
    BY DEF ProcessInv, VisitsInv
<1>2. ASSUME CreationFails, Alive, storage = "failed" \/ works # Dependency
      PROVE  AnswerTrue(yes'[v])
    <2>1. yes' = yes
        BY <1>2 DEF CreationFails
    <2>2. yes \in [Visit -> BOOLEAN]
        BY DEF ProcessInv, ProcessTypeOK
    <2>3. yes'[v] = FALSE
        BY <1>1, <2>1, <2>2
    <2> QED BY <1>2, <2>3, BadNow
<1>3. yes' = yes => yes'[v] = FALSE
    <2>1. yes \in [Visit -> BOOLEAN]
        BY DEF ProcessInv, ProcessTypeOK
    <2> QED BY <1>1, <2>1
<1>4. CASE CreationStored
    <2>1. Alive /\ (visit' # visit => storage = "failed" /\ CreationFails)
        BY <1>4 DEF CreationStored, visits
    <2> QED BY <1>2, <2>1
<1>5. CASE CreationEnds
    <2>1. CASE "facilitator" \notin works /\ CreationFails
        BY <1>2, <1>5, <2>1 DEF CreationEnds, Dependency
    <2>2. CASE ~("facilitator" \notin works /\ CreationFails)
        <3>1. /\ Alive /\ middleware = "facilitator" /\ yes' = yes
              /\ Resumed(Waiting("initializing"))
            BY <1>5, <2>2 DEF CreationEnds
        <3>2. ~StoresAnswer
            BY <3>1, Resuming DEF ProcessInv
        <3> QED BY <1>3, <3>1, <3>2, ResumedBadly
    <2> QED BY <2>1, <2>2
<1>6. CASE ProbeEnds
    <2>1. PICK ok : ok = (probe.step = "answered" /\ probe.ok)
        OBVIOUS
    <2>2. /\ ok \in BOOLEAN
          /\ ok => sinceGood <= RpcMs
          /\ ~ok => sinceBad <= RpcMs
        BY <1>6, <2>1, ProbeFound
    <2>3. /\ Alive /\ Go(Waiting("probing"), "away")
          /\ yes' = [u \in Visit |-> IF visit[u] = "probing" THEN ok ELSE yes[u]]
        BY <1>6, <2>1 DEF ProbeEnds
    <2>4. visit[v] = "probing"
        BY <2>3, Going DEF ProcessInv, VisitStep, Waiting
    <2>5. yes'[v] = ok /\ configured /\ storage = "open" /\ middleware = "ready"
        BY <2>3, <2>4 DEF ProcessInv, VisitsInv, Alive
    <2>6. /\ ok => sinceGood < CacheMs + RpcMs
          /\ ~ok => sinceBad < CacheMs + RpcMs
        <3>1. sinceGood \in Ages /\ sinceBad \in Ages
            BY DEF ProcessInv, ProcessTypeOK
        <3> QED BY <2>2, <3>1, ProcessAssumption DEF Ages
    <2> QED BY <2>5, <2>6 DEF AnswerTrue
<1>7. ASSUME NEW u \in Visit, Arrive(u) PROVE FALSE
    <2>1. PICK step \in {"storage", "payment"} : Go({u}, step)
        BY <1>7 DEF Arrive
    <2> QED BY <2>1, Going DEF ProcessInv, VisitStep
<1>8. ASSUME NEW u \in Visit, StorageSeen(u) PROVE AnswerTrue(yes'[v])
    <2>1. Go({u}, "payment") \/ storage = "failed"
        BY <1>8 DEF StorageSeen
    <2>2. ~Go({u}, "payment")
        BY Going DEF ProcessInv, VisitStep
    <2>3. yes' = yes
        BY <1>8 DEF StorageSeen
    <2> QED BY <1>3, <2>1, <2>2, <2>3, BadNow
<1>9. ASSUME NEW u \in Visit, AskPayment(u) PROVE AnswerTrue(yes'[v])
    <2>1. Alive /\ yes' = yes
        BY <1>9 DEF AskPayment
    <2>2. CASE lazy /\ backoff > 0
        <3>1. storage = "failed" \/ sinceBad <= CacheMs - backoff
            BY <2>2 DEF ProcessInv, AgesInv
        <3>2. sinceBad \in Ages /\ backoff \in 0 .. CacheMs
            BY DEF ProcessInv, ProcessTypeOK
        <3>3. storage = "failed" \/ sinceBad < CacheMs + RpcMs
            BY <2>2, <3>1, <3>2, ProcessAssumption DEF Ages
        <3> QED BY <1>3, <2>1, <3>3 DEF AnswerTrue
    <2>3. CASE middleware = "ready" /\ Resumed({u})
        <3>1. v \in {u} /\ ~StoresAnswer
            BY <2>3, Resuming DEF ProcessInv
        <3> QED BY <1>3, <2>1, <2>3, <3>1, ResumedBadly
    <2>4. CASE Go({u}, "initializing")
        BY <2>4, Going DEF ProcessInv, VisitStep
    <2> QED BY <1>9, <2>2, <2>3, <2>4 DEF AskPayment
<1>10. ASSUME NEW u \in Visit, AskHealth(u) PROVE AnswerTrue(yes'[v])
    <2>1. CASE Go({u}, "probing")
        BY <2>1, Going DEF ProcessInv, VisitStep
    <2>2. CASE Cached /\ Go({u}, "away") /\ yes' = [yes EXCEPT ![u] = cache.ok]
        <3>1. u = v
            BY <2>2, Going DEF ProcessInv, VisitStep
        <3>2. yes \in [Visit -> BOOLEAN] /\ cache.ok \in BOOLEAN /\ cache.left \in 0 .. CacheMs
            BY DEF ProcessInv, ProcessTypeOK
        <3>3. yes'[v] = cache.ok /\ Alive /\ visit[v] = "health"
            BY <1>10, <2>2, <3>1, <3>2 DEF AskHealth
        <3>4. configured /\ storage = "open" /\ middleware = "ready"
            BY <3>3 DEF ProcessInv, VisitsInv, Alive
        <3>5. /\ cache.ok => sinceGood <= CacheMs - cache.left + RpcMs
              /\ ~cache.ok => sinceBad <= CacheMs - cache.left + RpcMs
            BY <2>2 DEF ProcessInv, AgesInv, Cached
        <3>6. /\ cache.ok => sinceGood < CacheMs + RpcMs
              /\ ~cache.ok => sinceBad < CacheMs + RpcMs
            <4>1. sinceGood \in Ages /\ sinceBad \in Ages
                BY DEF ProcessInv, ProcessTypeOK
            <4>2. CacheMs - cache.left + RpcMs < CacheMs + RpcMs
                BY <2>2, <3>2, ProcessAssumption DEF Cached
            <4> QED BY <3>2, <3>5, <4>1, <4>2, ProcessAssumption DEF Ages
        <3> QED BY <3>3, <3>4, <3>6 DEF AnswerTrue
    <2> QED BY <1>10, <2>1, <2>2 DEF AskHealth
<1>11. ASSUME NEW u \in Visit, WorkEnds(u) PROVE FALSE
    <2>1. visit[u] = "work" /\ Go({u}, "away")
        BY <1>11 DEF WorkEnds
    <2>2. u = v
        BY <2>1, Going DEF ProcessInv, VisitStep
    <2> QED BY <2>1, <2>2 DEF ProcessInv, VisitsInv
<1>12. CASE visit' = visit
    BY <1>12
<1>13. CASE \E u \in Visit : Leave(u)
    BY <1>12, <1>13 DEF Leave
<1>14. CASE StorageOpens \/ Listen \/ NodeAnswers
    BY <1>12, <1>14 DEF StorageOpens, Listen, NodeAnswers, visits
<1>15. CASE \E k \in Worker : RunBegins(k) \/ RunEnds(k)
    BY <1>12, <1>15 DEF RunBegins, RunEnds, visits
<1>16. CASE Shutdown \/ Stop \/ Exit \/ DrainTimeout
    BY <1>12, <1>16 DEF Shutdown, Stop, Exit, DrainTimeout, visits
<1>17. CASE \E d \in Dependency : BreaksDown(d) \/ WorksAgain(d)
    BY <1>12, <1>17 DEF BreaksDown, WorksAgain, visits
<1>18. CASE ProcessTick \/ UNCHANGED processVars
    BY <1>12, <1>18 DEF ProcessTick, processVars, visits
<1> QED BY <1>4, <1>5, <1>6, <1>7, <1>8, <1>9, <1>10, <1>11, <1>13, <1>14, <1>15, <1>16, <1>17,
           <1>18 DEF ProcessNext

(* For any requests and any lengths of time: an answer of /ready is true,  *)
(* or no longer out of date than a health result is kept and a call to     *)
(* the node may last (GET /ready).                                         *)
THEOREM ReadyTellsTruth == ProcessSpec => ReadyIsTrue
<1>1. ProcessInv /\ [ProcessNext]_processVars =>
          [\A v \in Visit :
              what[v] = "ready" /\ visit[v] # "away" /\ visit'[v] = "away" =>
                  IF yes'[v]
                  THEN /\ configured /\ storage = "open" /\ middleware = "ready"
                       /\ sinceGood < CacheMs + RpcMs
                  ELSE ~configured \/ storage = "failed" \/ sinceBad < CacheMs + RpcMs]_processVars
    BY AnswersAreTrue DEF AnswerTrue
<1> QED BY <1>1, ProcessInductive, PTL DEF ProcessSpec, ReadyIsTrue

-------------------------------------------------------------------------------
(* The quota.                                                              *)

(* What a table of windows says is so: one window for each client, in the  *)
(* order in which they expire, none of them empty, none opened later than  *)
(* now, and each with the count of what was admitted since it was opened.  *)
FitsTable(table) ==
    /\ table \in Seq(Window) /\ Len(table) <= RateMaxKeys
    /\ \A i, j \in DOMAIN table :
          i < j => /\ table[i].expires <= table[j].expires
                   /\ table[i].client # table[j].client
    /\ \A i \in DOMAIN table :
          /\ table[i].count = AdmittedSince(table[i].client, table[i].expires - RateWindow)
          /\ table[i].count \in 1 .. Limit[table[i].client]
          /\ table[i].expires \in RateWindow .. now + RateWindow

AdmittedBetween(c, first, end) ==
    Cardinality({n \in DOMAIN admitted[c] : first < admitted[c][n] /\ admitted[c][n] < end})

(* The last window of a client was opened at o, whether the table still    *)
(* holds it or not: all the client's later requests fell into it, and of   *)
(* the earlier ones those of a window's length were one quota at the most. *)
LastWindow(table, c, o) ==
    /\ o <= now
    /\ \A i \in DOMAIN table : table[i].client = c => table[i].expires = o + RateWindow
    /\ (\A i \in DOMAIN table : table[i].client # c) => o + RateWindow <= now
    /\ \A n \in DOMAIN admitted[c] : admitted[c][n] < o + RateWindow
    /\ AdmittedSince(c, o) <= Limit[c]
    /\ AdmittedBetween(c, o - RateWindow, o) <= Limit[c]

EveryLastWindow(table) == \A c \in Client : \E o \in Int : LastWindow(table, c, o)

AnswerSound ==
    LET recent(c) == AdmittedSince(c, now - RateWindow + 1)
    IN  /\ answer.code = "RATE_LIMITED" => \A c \in answer.client : recent(c) >= Limit[c]
        /\ answer.code = "LIMITER_CAPACITY" =>
               Cardinality({c \in Client : recent(c) > 0}) >= RateMaxKeys

LimiterInv == LimiterTypeOK /\ FitsTable(clients) /\ EveryLastWindow(clients) /\ AnswerSound

(* A set of natural numbers has a least one.                               *)
LEMMA LeastIsMin ==
    ASSUME NEW T, T \subseteq Nat, T # {}
    PROVE  Min(T) \in T /\ \A m \in T : Min(T) <= m
<1>1. PICK n \in T : \A m \in T : ~(<<m, n>> \in OpToRel(<, Nat))
    BY NatLessThanWellFounded, WFMin, Zenon
<1>2. ASSUME NEW m \in T PROVE n <= m
    <2>1. m \in Nat /\ n \in Nat
        OBVIOUS
    <2>2. ~(m < n)
        BY <1>1, <2>1 DEF OpToRel
    <2> QED BY <2>1, <2>2
<1>3. \E k \in T : \A m \in T : k <= m
    BY <1>2
<1> QED BY <1>3 DEF Min

(* Any of a client's requests are a finite number of them.                 *)
LEMMA RequestsFinite ==
    ASSUME LimiterTypeOK, NEW c \in Client, NEW T, T \subseteq DOMAIN admitted[c]
    PROVE  /\ IsFiniteSet(T) /\ Cardinality(T) \in Nat
           /\ admitted[c] \in Seq(Time) /\ DOMAIN admitted[c] = 1 .. Len(admitted[c])
           /\ Len(admitted[c]) \in Nat /\ \A n \in DOMAIN admitted[c] : admitted[c][n] \in Nat
<1>1. admitted[c] \in Seq(Time)
    BY DEF LimiterTypeOK
<1>2. DOMAIN admitted[c] = 1 .. Len(admitted[c]) /\ Len(admitted[c]) \in Nat
    BY <1>1, LenProperties
<1>3. IsFiniteSet(1 .. Len(admitted[c]))
    BY <1>2, FS_Interval
<1>4. IsFiniteSet(T) /\ Cardinality(T) \in Nat
    BY <1>2, <1>3, FS_Subset, FS_CardinalityType
<1>5. \A n \in DOMAIN admitted[c] : admitted[c][n] \in Time
    BY <1>1, <1>2, ElementOfSeq
<1> QED BY <1>1, <1>2, <1>4, <1>5, LimiterAssumption DEF Time

(* More are admitted since earlier.                                        *)
LEMMA SinceEarlier ==
    ASSUME LimiterTypeOK, NEW c \in Client, NEW m \in Int, NEW n \in Int, m <= n
    PROVE  /\ AdmittedSince(c, m) \in Nat /\ AdmittedSince(c, n) \in Nat
           /\ AdmittedSince(c, n) <= AdmittedSince(c, m)
<1> DEFINE M == {k \in DOMAIN admitted[c] : admitted[c][k] >= m}
           N == {k \in DOMAIN admitted[c] : admitted[c][k] >= n}
<1>1. IsFiniteSet(M) /\ Cardinality(M) \in Nat /\ Cardinality(N) \in Nat
    BY RequestsFinite
<1>2. \A k \in DOMAIN admitted[c] : admitted[c][k] \in Nat
    <2>1. DOMAIN admitted[c] \subseteq DOMAIN admitted[c]
        OBVIOUS
    <2> QED BY <2>1, RequestsFinite
<1>3. N \subseteq M
    BY <1>2
<1>4. Cardinality(N) <= Cardinality(M)
    BY <1>1, <1>3, FS_Subset
<1> QED BY <1>1, <1>4 DEF AdmittedSince

(* The span of a window's length that ends now meets two windows at most.  *)
LEMMA RecentBounded ==
    ASSUME LimiterTypeOK, NEW c \in Client, NEW o \in Int, NEW table, LastWindow(table, c, o)
    PROVE  AdmittedSince(c, now - RateWindow + 1) <= 2 * Limit[c]
<1> DEFINE R == {k \in DOMAIN admitted[c] : admitted[c][k] >= now - RateWindow + 1}
           A == {k \in DOMAIN admitted[c] : admitted[c][k] >= o}
           B == {k \in DOMAIN admitted[c] :
                     o - RateWindow < admitted[c][k] /\ admitted[c][k] < o}
<1>1. /\ IsFiniteSet(R) /\ IsFiniteSet(A) /\ IsFiniteSet(B) /\ IsFiniteSet(A \cap B)
      /\ Cardinality(R) \in Nat /\ Cardinality(A) \in Nat /\ Cardinality(B) \in Nat
      /\ Cardinality(A \cap B) \in Nat
    <2>1. A \cap B \subseteq DOMAIN admitted[c]
        OBVIOUS
    <2> QED BY <2>1, RequestsFinite
<1>2. \A k \in DOMAIN admitted[c] : admitted[c][k] \in Nat
    <2>1. DOMAIN admitted[c] \subseteq DOMAIN admitted[c]
        OBVIOUS
    <2> QED BY <2>1, RequestsFinite
<1>3. now \in Nat /\ o <= now /\ RateWindow \in Nat /\ Limit[c] \in Nat
    BY LimiterAssumption DEF LimiterTypeOK, LastWindow, Time
<1>4. R \subseteq A \cup B
    BY <1>2, <1>3
<1>5. /\ IsFiniteSet(A \cup B)
      /\ Cardinality(A \cup B) = Cardinality(A) + Cardinality(B) - Cardinality(A \cap B)
    BY <1>1, FS_Union
<1>6. Cardinality(R) <= Cardinality(A \cup B)
    BY <1>4, <1>5, FS_Subset
<1>7. Cardinality(A) <= Limit[c] /\ Cardinality(B) <= Limit[c]
    BY DEF LastWindow, AdmittedSince, AdmittedBetween
<1> HIDE DEF R, A, B
<1>8. Cardinality(R) <= 2 * Limit[c]
    BY <1>1, <1>3, <1>5, <1>6, <1>7
<1> QED BY <1>8 DEF R, AdmittedSince

(* The invariant says what the quota promises.                             *)
LEMMA InvQuotaHolds == LimiterInv => QuotaHolds
<1> SUFFICES ASSUME LimiterInv PROVE QuotaHolds
    OBVIOUS
<1>1. TableSound
    BY DEF LimiterInv, FitsTable, TableSound
<1>2. \A c \in Client : AdmittedSince(c, now - RateWindow + 1) <= 2 * Limit[c]
    BY RecentBounded DEF LimiterInv, EveryLastWindow
<1> QED BY <1>1, <1>2 DEF LimiterInv, AnswerSound, QuotaHolds

(* The windows of a table are at the numbers from one on.                  *)
LEMMA TableDomain ==
    ASSUME NEW table \in Seq(Window)
    PROVE  /\ DOMAIN table = 1 .. Len(table) /\ Len(table) \in Nat
           /\ \A i \in DOMAIN table :
                 /\ table[i] \in Window /\ table[i].client \in Client
                 /\ table[i].count \in Nat /\ table[i].expires \in Nat
<1>1. DOMAIN table = 1 .. Len(table) /\ Len(table) \in Nat
    BY LenProperties
<1>2. \A i \in DOMAIN table : table[i] \in Window
    BY <1>1, ElementOfSeq
<1> QED BY <1>1, <1>2 DEF Window

(* The loop deletes the windows that are over, and no others.              *)
LEMMA PurgedIs ==
    ASSUME LimiterInv
    PROVE  \E k \in 0 .. Len(clients) :
              /\ Purged \in Seq(Window) /\ Len(Purged) = Len(clients) - k
              /\ \A i \in 1 .. Len(Purged) : Purged[i] = clients[i + k] /\ Purged[i].expires > now
              /\ \A i \in 1 .. k : clients[i].expires <= now
<1> DEFINE live == {i \in DOMAIN clients : clients[i].expires > now}
<1>1. /\ clients \in Seq(Window) /\ DOMAIN clients = 1 .. Len(clients) /\ Len(clients) \in Nat
      /\ \A i \in DOMAIN clients : clients[i] \in Window /\ clients[i].expires \in Nat
    BY TableDomain DEF LimiterInv, FitsTable
<1>2. now \in Nat
    BY LimiterAssumption DEF LimiterInv, LimiterTypeOK, Time
<1>3. CASE live = {}
    <2>1. Purged = <<>>
        BY <1>3 DEF Purged
    <2>2. Purged \in Seq(Window) /\ Len(Purged) = 0
        BY <2>1, EmptySeq
    <2>3. \A i \in 1 .. Len(clients) : clients[i].expires <= now
        BY <1>1, <1>2, <1>3
    <2>4. Len(clients) \in 0 .. Len(clients) /\ Len(Purged) = Len(clients) - Len(clients)
        BY <1>1, <2>2
    <2> QED BY <2>2, <2>3, <2>4
<1>4. CASE live # {}
    <2>1. PICK m : m = Min(live)
        OBVIOUS
    <2>2. m \in live /\ \A i \in live : m <= i
        <3>1. live \subseteq Nat
            BY <1>1
        <3> QED BY <1>4, <2>1, <3>1, LeastIsMin
    <2>3. Purged = SubSeq(clients, m, Len(clients))
        BY <1>4, <2>1 DEF Purged
    <2>4. m \in 1 .. Len(clients) /\ m \in Int /\ Len(clients) \in Int /\ m <= Len(clients)
        BY <1>1, <2>2
    <2>5. \A i \in m .. Len(clients) : clients[i] \in Window
        BY <1>1, <2>4
    <2>6. /\ Purged \in Seq(Window) /\ Len(Purged) = Len(clients) - m + 1
          /\ \A i \in 1 .. Len(clients) - m + 1 : Purged[i] = clients[m + i - 1]
        BY <2>3, <2>4, <2>5, SubSeqProperties
    <2>7. \A i \in 1 .. m - 1 : clients[i].expires <= now
        BY <1>1, <1>2, <2>2, <2>4
    <2>8. \A i \in m .. Len(clients) : clients[i].expires > now
        <3>1. ASSUME NEW i \in m .. Len(clients), i # m PROVE clients[m].expires <= clients[i].expires
            <4>1. i \in DOMAIN clients /\ m \in DOMAIN clients /\ m < i
                BY <1>1, <2>4, <3>1
            <4> QED BY <4>1 DEF LimiterInv, FitsTable
        <3>2. clients[m].expires > now /\ clients[m].expires \in Nat
            BY <1>1, <2>2
        <3>3. \A i \in m .. Len(clients) : clients[i].expires \in Nat
            BY <1>1, <2>4
        <3> QED BY <1>2, <3>1, <3>2, <3>3
    <2>9. PICK k \in 0 .. Len(clients) : k = m - 1
        BY <2>4
    <2>10. Len(Purged) = Len(clients) - k
        BY <1>1, <2>4, <2>6, <2>9
    <2>11. \A i \in 1 .. Len(Purged) : Purged[i] = clients[i + k] /\ Purged[i].expires > now
        <3>1. ASSUME NEW i \in 1 .. Len(Purged)
              PROVE  Purged[i] = clients[i + k] /\ Purged[i].expires > now
            <4>1. i \in 1 .. Len(clients) - m + 1 /\ m + i - 1 = i + k
                  /\ i + k \in m .. Len(clients)
                BY <2>4, <2>6, <2>9
            <4> QED BY <2>6, <2>8, <4>1
        <3> QED BY <3>1
    <2>12. \A i \in 1 .. k : clients[i].expires <= now
        BY <2>7, <2>9
    <2> QED BY <2>6, <2>10, <2>11, <2>12
<1> QED BY <1>3, <1>4

(* What is left after the loop is as sound, and none of it is over.        *)
LEMMA PurgedFits ==
    ASSUME LimiterInv
    PROVE  /\ FitsTable(Purged) /\ EveryLastWindow(Purged)
           /\ \A i \in DOMAIN Purged : Purged[i].expires > now
<1>1. PICK k \in 0 .. Len(clients) :
          /\ Purged \in Seq(Window) /\ Len(Purged) = Len(clients) - k
          /\ \A i \in 1 .. Len(Purged) : Purged[i] = clients[i + k] /\ Purged[i].expires > now
          /\ \A i \in 1 .. k : clients[i].expires <= now
    BY PurgedIs
<1>2. /\ DOMAIN clients = 1 .. Len(clients) /\ Len(clients) \in Nat
      /\ DOMAIN Purged = 1 .. Len(Purged) /\ Len(Purged) \in Nat /\ FitsTable(clients)
    BY <1>1, TableDomain DEF LimiterInv, FitsTable
<1>3. RateMaxKeys \in Nat
    BY LimiterAssumption
<1>4. \A i \in DOMAIN Purged : i + k \in DOMAIN clients /\ Purged[i] = clients[i + k] /\ k \in Int
    BY <1>1, <1>2
<1>5. Len(Purged) <= RateMaxKeys
    <2>1. Len(clients) <= RateMaxKeys
        BY <1>2 DEF FitsTable
    <2> QED BY <1>1, <1>2, <1>3, <2>1
<1>6. FitsTable(Purged)
    <2>1. \A i, j \in DOMAIN Purged :
              i < j => /\ Purged[i].expires <= Purged[j].expires
                       /\ Purged[i].client # Purged[j].client
        <3>1. ASSUME NEW i \in DOMAIN Purged, NEW j \in DOMAIN Purged, i < j
              PROVE  i + k < j + k
            BY <1>2, <3>1
        <3> QED BY <1>2, <1>4, <3>1 DEF FitsTable
    <2>2. \A i \in DOMAIN Purged :
              /\ Purged[i].count =
                     AdmittedSince(Purged[i].client, Purged[i].expires - RateWindow)
              /\ Purged[i].count \in 1 .. Limit[Purged[i].client]
              /\ Purged[i].expires \in RateWindow .. now + RateWindow
        BY <1>2, <1>4 DEF FitsTable
    <2> QED BY <1>1, <1>5, <2>1, <2>2 DEF FitsTable
<1>7. ASSUME NEW c \in Client, NEW o \in Int, LastWindow(clients, c, o)
      PROVE  LastWindow(Purged, c, o)
    <2>1. \A i \in DOMAIN Purged : Purged[i].client = c => Purged[i].expires = o + RateWindow
        BY <1>4, <1>7 DEF LastWindow
    <2>2. ASSUME \A i \in DOMAIN Purged : Purged[i].client # c
          PROVE  o + RateWindow <= now
        <3>1. CASE \A i \in DOMAIN clients : clients[i].client # c
            BY <1>7, <3>1 DEF LastWindow
        <3>2. CASE \E i \in DOMAIN clients : clients[i].client = c
            <4>1. PICK i \in DOMAIN clients : clients[i].client = c
                BY <3>2
            <4>2. clients[i].expires = o + RateWindow
                BY <1>7, <4>1 DEF LastWindow
            <4>3. i \in 1 .. k
                <5>1. CASE i > k
                    <6>1. i - k \in 1 .. Len(Purged) /\ (i - k) + k = i
                        BY <1>1, <1>2, <5>1
                    <6>2. Purged[i - k] = clients[i]
                        BY <1>1, <6>1
                    <6> QED BY <1>2, <2>2, <4>1, <6>1, <6>2
                <5> QED BY <1>2, <5>1
            <4> QED BY <1>1, <4>2, <4>3
        <3> QED BY <3>1, <3>2
    <2> QED BY <1>7, <2>1, <2>2 DEF LastWindow
<1>8. EveryLastWindow(Purged)
    BY <1>7 DEF LimiterInv, EveryLastWindow
<1> QED BY <1>1, <1>2, <1>6, <1>8
(* The state the limiter begins in.                                        *)
LEMMA LimiterInitInv == LimiterInit => LimiterInv
<1> SUFFICES ASSUME LimiterInit PROVE LimiterInv
    OBVIOUS
<1>1. /\ RateWindow \in Nat \ {0} /\ RateMaxKeys \in Nat \ {0} /\ MaxTime \in Nat
      /\ \A c \in Client : Limit[c] \in Nat
    BY LimiterAssumption
<1>2. <<>> \in Seq(Window) /\ <<>> \in Seq(Time) /\ Len(<<>>) = 0 /\ DOMAIN <<>> = {}
    <2>1. <<>> \in Seq(Window) /\ <<>> \in Seq(Time)
        BY EmptySeq
    <2>2. Len(<<>>) = 0
        BY EmptySeq
    <2>3. DOMAIN <<>> = {}
        BY <2>1, <2>2, LenProperties
    <2> QED BY <2>1, <2>2, <2>3
<1>3. LimiterTypeOK
    BY <1>1, <1>2 DEF LimiterInit, LimiterTypeOK, Time, Code
<1>4. FitsTable(clients)
    BY <1>1, <1>2 DEF LimiterInit, FitsTable
<1>5. \A c \in Client, n \in Int, m \in Int : AdmittedSince(c, n) = 0 /\ AdmittedBetween(c, m, n) = 0
    BY <1>2, FS_EmptySet DEF LimiterInit, AdmittedSince, AdmittedBetween
<1>6. ASSUME NEW c \in Client PROVE LastWindow(clients, c, 0 - RateWindow)
    <2>1. /\ 0 - RateWindow \in Int /\ (0 - RateWindow) - RateWindow \in Int
          /\ 0 - RateWindow <= 0 /\ (0 - RateWindow) + RateWindow = 0
        BY <1>1
    <2> QED BY <1>1, <1>2, <1>5, <2>1 DEF LimiterInit, LastWindow
<1>7. EveryLastWindow(clients)
    <2>1. 0 - RateWindow \in Int
        BY <1>1
    <2> QED BY <1>6, <2>1 DEF EveryLastWindow
<1>8. AnswerSound
    BY DEF LimiterInit, AnswerSound
<1> QED BY <1>3, <1>4, <1>7, <1>8 DEF LimiterInv

(* While nothing is admitted and the clock stands, a sound table put in    *)
(* the place of the old one keeps the invariant.                           *)
LEMMA TableReplaced ==
    ASSUME LimiterInv, FitsTable(clients'), EveryLastWindow(clients'),
           UNCHANGED <<now, admitted>>, answer' \in [client: SUBSET Client, code: Code],
           AnswerSound'
    PROVE  LimiterInv'
<1>1. LimiterTypeOK'
    BY DEF LimiterInv, FitsTable, LimiterTypeOK
<1>2. FitsTable(clients)'
    BY DEF FitsTable, AdmittedSince
<1>3. EveryLastWindow(clients)'
    BY DEF EveryLastWindow, LastWindow, AdmittedSince, AdmittedBetween
<1> QED BY <1>1, <1>2, <1>3 DEF LimiterInv

(* A window that is not over counts what was admitted of late.             *)
LEMMA LiveIsRecent ==
    ASSUME LimiterInv, NEW d \in Client, NEW e \in Nat, e > now
    PROVE  AdmittedSince(d, now - RateWindow + 1) >= AdmittedSince(d, e - RateWindow)
<1>1. LimiterTypeOK /\ now \in Nat /\ RateWindow \in Nat
    BY LimiterAssumption DEF LimiterInv, LimiterTypeOK, Time
<1>2. now - RateWindow + 1 \in Int /\ e - RateWindow \in Int /\ now - RateWindow + 1 <= e - RateWindow
    BY <1>1
<1>3. /\ AdmittedSince(d, now - RateWindow + 1) \in Nat /\ AdmittedSince(d, e - RateWindow) \in Nat
      /\ AdmittedSince(d, e - RateWindow) <= AdmittedSince(d, now - RateWindow + 1)
    BY <1>1, <1>2, SinceEarlier
<1> QED BY <1>3

(* A full table is one of as many clients that were admitted of late.      *)
LEMMA FullIsRecent ==
    ASSUME LimiterInv, NEW c \in Client, Full(c, Purged)
    PROVE  Cardinality({d \in Client : AdmittedSince(d, now - RateWindow + 1) > 0}) >= RateMaxKeys
<1> DEFINE R == {d \in Client : AdmittedSince(d, now - RateWindow + 1) > 0}
           f == [i \in 1 .. Len(Purged) |-> Purged[i].client]
<1>1. /\ FitsTable(Purged) /\ \A i \in DOMAIN Purged : Purged[i].expires > now
    BY PurgedFits
<1>2. /\ DOMAIN Purged = 1 .. Len(Purged) /\ Len(Purged) \in Nat
      /\ \A i \in DOMAIN Purged :
            Purged[i].client \in Client /\ Purged[i].count \in Nat /\ Purged[i].expires \in Nat
    BY <1>1, TableDomain DEF FitsTable
<1>3. ASSUME NEW i \in 1 .. Len(Purged) PROVE Purged[i].client \in R
    <2>1. /\ Purged[i].count = AdmittedSince(Purged[i].client, Purged[i].expires - RateWindow)
          /\ Purged[i].count \in 1 .. Limit[Purged[i].client]
        BY <1>1, <1>2 DEF FitsTable
    <2>2. AdmittedSince(Purged[i].client, now - RateWindow + 1) >=
              AdmittedSince(Purged[i].client, Purged[i].expires - RateWindow)
        BY <1>1, <1>2, LiveIsRecent
    <2>3. AdmittedSince(Purged[i].client, now - RateWindow + 1) \in Nat
        <3>1. now - RateWindow + 1 \in Int
            BY LimiterAssumption DEF LimiterInv, LimiterTypeOK, Time
        <3> QED BY <1>2, <3>1, SinceEarlier DEF LimiterInv
    <2>4. AdmittedSince(Purged[i].client, now - RateWindow + 1) > 0
        <3>1. Limit[Purged[i].client] \in Nat
            BY <1>2, LimiterAssumption
        <3> QED BY <2>1, <2>2, <2>3, <3>1
    <2> QED BY <1>2, <2>4
<1>4. f \in Injection(1 .. Len(Purged), R)
    <2>1. f \in [1 .. Len(Purged) -> R]
        BY <1>3
    <2>2. ASSUME NEW i \in 1 .. Len(Purged), NEW j \in 1 .. Len(Purged), i # j
          PROVE  f[i] # f[j]
        <3>1. i < j \/ j < i
            BY <1>2, <2>2
        <3> QED BY <1>1, <1>2, <3>1 DEF FitsTable
    <2> QED BY <2>1, <2>2 DEF Injection, IsInjective
<1>5. IsFiniteSet(R) /\ Cardinality(R) \in Nat
    <2>1. R \subseteq Client
        OBVIOUS
    <2>2. IsFiniteSet(R)
        BY <2>1, LimiterAssumption, FS_Subset
    <2> QED BY <2>2, FS_CardinalityType
<1>6. Cardinality(1 .. Len(Purged)) = Len(Purged)
    <2>1. PICK n \in Nat : n = Len(Purged)
        BY <1>2
    <2>2. Cardinality(1 .. n) = IF 1 > n THEN 0 ELSE n - 1 + 1
        BY FS_Interval
    <2> QED BY <2>1, <2>2
<1>7. Cardinality(1 .. Len(Purged)) <= Cardinality(R)
    <2>1. PICK g \in Injection(1 .. Len(Purged), R) : TRUE
        BY <1>4
    <2> HIDE DEF R, f
    <2> QED BY <1>5, <2>1, FS_Injection
<1>8. Len(Purged) >= RateMaxKeys /\ RateMaxKeys \in Nat
    BY LimiterAssumption DEF Full
<1>9. Cardinality(R) >= RateMaxKeys
    <2> HIDE DEF R
    <2> QED BY <1>2, <1>5, <1>6, <1>7, <1>8
<1> QED BY <1>9
(* The table with a client's window in it is a sound one, but for a window *)
(* that was only just opened and has nothing to count yet.                 *)
LEMMA WithWindowFits ==
    ASSUME LimiterInv, NEW c \in Client, ~Full(c, Purged),
           NEW table, table = WithWindow(c, Purged),
           NEW i \in DOMAIN table, table[i].client = c
    PROVE  /\ table \in Seq(Window) /\ Len(table) <= RateMaxKeys
           /\ \A j, k \in DOMAIN table :
                 j < k => /\ table[j].expires <= table[k].expires
                          /\ table[j].client # table[k].client
           /\ \A j \in DOMAIN table :
                 /\ table[j].count = AdmittedSince(table[j].client, table[j].expires - RateWindow)
                 /\ table[j].count \in 0 .. Limit[table[j].client]
                 /\ table[j].count = 0 => table[j].client = c
                 /\ table[j].expires \in RateWindow .. now + RateWindow
                 /\ table[j].expires > now
           /\ LastWindow(table, c, table[i].expires - RateWindow)
           /\ EveryLastWindow(table)
<1>1. /\ FitsTable(Purged) /\ EveryLastWindow(Purged)
      /\ \A j \in DOMAIN Purged : Purged[j].expires > now
    BY PurgedFits
<1>2. /\ DOMAIN Purged = 1 .. Len(Purged) /\ Len(Purged) \in Nat /\ Purged \in Seq(Window)
      /\ \A j \in DOMAIN Purged :
            /\ Purged[j].client \in Client
            /\ Purged[j].count \in Nat /\ Purged[j].expires \in Nat
    BY <1>1, TableDomain DEF FitsTable
<1>3. /\ now \in Nat /\ RateWindow \in Nat \ {0} /\ RateMaxKeys \in Nat \ {0}
      /\ \A d \in Client : Limit[d] \in Nat \ {0}
    BY LimiterAssumption DEF LimiterInv, LimiterTypeOK, Time
<1>4. PICK o \in Int : LastWindow(Purged, c, o)
    BY <1>1 DEF EveryLastWindow
<1>5. CASE \E j \in DOMAIN Purged : Purged[j].client = c
    <2>1. table = Purged
        BY <1>5 DEF WithWindow
    <2>2. table[i].expires = o + RateWindow /\ table[i].expires - RateWindow = o
        BY <1>3, <1>4, <2>1 DEF LastWindow
    <2>3. LastWindow(table, c, table[i].expires - RateWindow)
        BY <1>4, <2>1, <2>2
    <2>4. \A j \in DOMAIN table :
              table[j].count \in 1 .. Limit[table[j].client] /\ Limit[table[j].client] \in Nat
        BY <1>1, <1>2, <1>3, <2>1 DEF FitsTable
    <2>5. \A j \in DOMAIN table :
              table[j].count \in 0 .. Limit[table[j].client] /\ table[j].count # 0
        BY <2>4
    <2> QED BY <1>1, <2>1, <2>3, <2>5 DEF FitsTable
<1>6. CASE \A j \in DOMAIN Purged : Purged[j].client # c
    <2>1. PICK w \in Window : w = [client |-> c, count |-> 0, expires |-> now + RateWindow]
        <3>1. now + RateWindow \in Nat /\ 0 \in Nat
            BY <1>3
        <3>2. [client |-> c, count |-> 0, expires |-> now + RateWindow] \in Window
            BY <3>1 DEF Window
        <3> QED BY <3>2
    <2>2. w.client = c /\ w.count = 0 /\ w.expires = now + RateWindow
        BY <2>1
    <2>3. table = Append(Purged, w)
        BY <1>6, <2>1 DEF WithWindow
    <2>4. /\ table \in Seq(Window) /\ Len(table) = Len(Purged) + 1
          /\ table[Len(Purged) + 1] = w
          /\ \A j \in 1 .. Len(Purged) : table[j] = Purged[j]
        BY <1>2, <2>3, AppendProperties
    <2>5. /\ DOMAIN table = 1 .. Len(table)
          /\ \A j \in DOMAIN table :
                (j \in DOMAIN Purged /\ table[j] = Purged[j]) \/ (j = Len(Purged) + 1 /\ table[j] = w)
        <3>1. DOMAIN table = 1 .. Len(table)
            BY <2>4, TableDomain
        <3>2. ASSUME NEW j \in DOMAIN table
              PROVE  \/ j \in DOMAIN Purged /\ table[j] = Purged[j]
                     \/ j = Len(Purged) + 1 /\ table[j] = w
            <4>1. j \in 1 .. Len(Purged) \/ j = Len(Purged) + 1
                BY <1>2, <2>4, <3>1
            <4> QED BY <1>2, <2>4, <4>1
        <3> QED BY <3>1, <3>2
    <2>6. Len(table) <= RateMaxKeys
        <3>1. ~(Len(Purged) >= RateMaxKeys)
            BY <1>6 DEF Full
        <3> QED BY <1>2, <1>3, <2>4, <3>1
    <2>7. /\ o + RateWindow <= now
          /\ \A n \in DOMAIN admitted[c] : admitted[c][n] < o + RateWindow
          /\ AdmittedSince(c, o) <= Limit[c]
        BY <1>4, <1>6 DEF LastWindow
    <2>8. \A n \in DOMAIN admitted[c] : admitted[c][n] \in Nat /\ admitted[c][n] < now
        <3>1. \A n \in DOMAIN admitted[c] : admitted[c][n] \in Nat
            <4>1. DOMAIN admitted[c] \subseteq DOMAIN admitted[c]
                OBVIOUS
            <4> QED BY <4>1, RequestsFinite DEF LimiterInv
        <3> QED BY <1>3, <2>7, <3>1
    <2>9. AdmittedSince(c, now) = 0
        <3>1. {n \in DOMAIN admitted[c] : admitted[c][n] >= now} = {}
            BY <1>3, <2>8
        <3>2. AdmittedSince(c, now) = Cardinality({})
            BY <3>1 DEF AdmittedSince
        <3> QED BY <3>2, FS_EmptySet
    <2>10. AdmittedBetween(c, now - RateWindow, now) <= Limit[c]
        <3> DEFINE B == {n \in DOMAIN admitted[c] :
                             now - RateWindow < admitted[c][n] /\ admitted[c][n] < now}
                   A == {n \in DOMAIN admitted[c] : admitted[c][n] >= o}
        <3>1. B \subseteq A
            BY <1>3, <2>7, <2>8
        <3>2. IsFiniteSet(A) /\ Cardinality(A) \in Nat /\ Cardinality(B) \in Nat
            BY RequestsFinite DEF LimiterInv
        <3>3. Cardinality(B) <= Cardinality(A)
            BY <3>1, <3>2, FS_Subset
        <3>4. Cardinality(A) <= Limit[c]
            BY <2>7 DEF AdmittedSince
        <3> HIDE DEF A, B
        <3>5. Cardinality(B) <= Limit[c]
            BY <1>3, <3>2, <3>3, <3>4
        <3> QED BY <3>5 DEF AdmittedBetween, B
    <2>11. w.expires - RateWindow = now /\ now + RateWindow \in Nat
        BY <1>3, <2>2
    <2>12. \A j \in DOMAIN table : table[j].client = c => table[j] = w
        BY <1>6, <2>5
    <2>13. LastWindow(table, c, table[i].expires - RateWindow)
        <3>1. table[i].expires - RateWindow = now
            BY <2>11, <2>12
        <3>2. \A n \in DOMAIN admitted[c] : admitted[c][n] < now + RateWindow
            BY <1>3, <2>8
        <3>3. \A j \in DOMAIN table : table[j].client = c => table[j].expires = now + RateWindow
            BY <2>2, <2>12
        <3>4. AdmittedSince(c, now) <= Limit[c]
            BY <1>3, <2>9
        <3>5. LastWindow(table, c, now)
            BY <1>3, <2>10, <3>2, <3>3, <3>4 DEF LastWindow
        <3> QED BY <3>1, <3>5
    <2>14. EveryLastWindow(table)
        <3>1. ASSUME NEW d \in Client, d # c, NEW q \in Int, LastWindow(Purged, d, q)
              PROVE  LastWindow(table, d, q)
            <4>1. \A j \in DOMAIN table :
                      table[j].client = d => (j \in DOMAIN Purged /\ table[j] = Purged[j])
                BY <2>2, <2>5, <3>1
            <4>2. \A j \in DOMAIN Purged : j \in DOMAIN table /\ table[j] = Purged[j]
                BY <1>2, <2>4, <2>5
            <4> QED BY <3>1, <4>1, <4>2 DEF LastWindow
        <3>2. table[i].expires - RateWindow \in Int
            BY <1>3, <2>11, <2>12
        <3> QED BY <1>1, <2>13, <3>1, <3>2 DEF EveryLastWindow
    <2>15. \A j, k \in DOMAIN table :
              j < k => /\ table[j].expires <= table[k].expires
                       /\ table[j].client # table[k].client
        <3>1. ASSUME NEW j \in DOMAIN table, NEW k \in DOMAIN table, j < k
              PROVE  /\ table[j].expires <= table[k].expires
                     /\ table[j].client # table[k].client
            <4>1. j \in DOMAIN Purged /\ table[j] = Purged[j]
                BY <1>2, <2>4, <2>5, <3>1
            <4>2. CASE k \in DOMAIN Purged /\ table[k] = Purged[k]
                BY <1>1, <3>1, <4>1, <4>2 DEF FitsTable
            <4>3. CASE table[k] = w
                <5>1. Purged[j].expires <= now + RateWindow
                    BY <1>1, <1>2, <1>3, <4>1 DEF FitsTable
                <5> QED BY <1>6, <2>2, <4>1, <4>3, <5>1
            <4> QED BY <2>5, <4>2, <4>3
        <3> QED BY <3>1
    <2>16. ASSUME NEW j \in DOMAIN table
           PROVE  /\ table[j].count =
                         AdmittedSince(table[j].client, table[j].expires - RateWindow)
                  /\ table[j].count \in 0 .. Limit[table[j].client]
                  /\ table[j].count = 0 => table[j].client = c
                  /\ table[j].expires \in RateWindow .. now + RateWindow
                  /\ table[j].expires > now
        <3>1. CASE j \in DOMAIN Purged /\ table[j] = Purged[j]
            <4>1. /\ Purged[j].count \in 1 .. Limit[Purged[j].client]
                  /\ Limit[Purged[j].client] \in Nat
                BY <1>1, <1>2, <1>3, <3>1 DEF FitsTable
            <4>2. Purged[j].count \in 0 .. Limit[Purged[j].client] /\ Purged[j].count # 0
                BY <4>1
            <4> QED BY <1>1, <3>1, <4>2 DEF FitsTable
        <3>2. CASE table[j] = w
            <4>1. /\ now + RateWindow \in RateWindow .. now + RateWindow
                  /\ now + RateWindow > now /\ 0 \in 0 .. Limit[c]
                BY <1>3
            <4>2. w.count = AdmittedSince(w.client, w.expires - RateWindow)
                BY <2>2, <2>9, <2>11
            <4> QED BY <2>2, <3>2, <4>1, <4>2
        <3> QED BY <2>5, <3>1, <3>2
    <2> QED BY <2>4, <2>6, <2>13, <2>14, <2>15, <2>16
<1> QED BY <1>5, <1>6
(* One more request of one client is admitted now.                         *)
LEMMA AdmitsOne ==
    ASSUME LimiterTypeOK, NEW c \in Client,
           admitted' = [admitted EXCEPT ![c] = Append(@, now)]
    PROVE  /\ admitted' \in [Client -> Seq(Time)]
           /\ \A d \in Client : d # c => admitted'[d] = admitted[d]
           /\ Len(admitted'[c]) = Len(admitted[c]) + 1
           /\ DOMAIN admitted[c] = 1 .. Len(admitted[c])
           /\ DOMAIN admitted'[c] = 1 .. Len(admitted[c]) + 1
           /\ admitted'[c][Len(admitted[c]) + 1] = now
           /\ \A n \in DOMAIN admitted[c] : admitted'[c][n] = admitted[c][n]
<1>1. /\ admitted \in [Client -> Seq(Time)] /\ now \in Time /\ admitted[c] \in Seq(Time)
    BY DEF LimiterTypeOK
<1>2. admitted'[c] = Append(admitted[c], now)
    BY <1>1
<1>3. /\ Append(admitted[c], now) \in Seq(Time)
      /\ Len(Append(admitted[c], now)) = Len(admitted[c]) + 1
      /\ Append(admitted[c], now)[Len(admitted[c]) + 1] = now
      /\ \A n \in 1 .. Len(admitted[c]) : Append(admitted[c], now)[n] = admitted[c][n]
    BY <1>1, AppendProperties
<1>4. DOMAIN admitted[c] = 1 .. Len(admitted[c])
    BY <1>1, LenProperties
<1>5. DOMAIN admitted'[c] = 1 .. Len(admitted[c]) + 1
    BY <1>2, <1>3, LenProperties
<1>6. admitted' \in [Client -> Seq(Time)]
    BY <1>1, <1>3
<1> QED BY <1>1, <1>2, <1>3, <1>4, <1>5, <1>6

(* It counts from every time up to now on, and in no span that ends now.   *)
LEMMA CountsOne ==
    ASSUME LimiterTypeOK, NEW c \in Client,
           admitted' = [admitted EXCEPT ![c] = Append(@, now)]
    PROVE  /\ \A m \in Int : m <= now => AdmittedSince(c, m)' = AdmittedSince(c, m) + 1
           /\ \A m, n \in Int : n <= now => AdmittedBetween(c, m, n)' = AdmittedBetween(c, m, n)
           /\ \A d \in Client : d # c =>
                 \A m, n \in Int : /\ AdmittedSince(d, m)' = AdmittedSince(d, m)
                                   /\ AdmittedBetween(d, m, n)' = AdmittedBetween(d, m, n)
<1> DEFINE L == Len(admitted[c]) + 1
<1>1. /\ \A d \in Client : d # c => admitted'[d] = admitted[d]
      /\ DOMAIN admitted[c] = 1 .. Len(admitted[c])
      /\ DOMAIN admitted'[c] = 1 .. L
      /\ admitted'[c][L] = now
      /\ \A n \in DOMAIN admitted[c] : admitted'[c][n] = admitted[c][n]
    BY AdmitsOne
<1>2. /\ Len(admitted[c]) \in Nat
      /\ \A n \in DOMAIN admitted[c] : admitted[c][n] \in Nat
    <2>1. DOMAIN admitted[c] \subseteq DOMAIN admitted[c]
        OBVIOUS
    <2> QED BY <2>1, RequestsFinite
<1>3. L \in Nat /\ DOMAIN admitted'[c] = DOMAIN admitted[c] \cup {L} /\ L \notin DOMAIN admitted[c]
    BY <1>1, <1>2
<1>4. now \in Nat
    BY LimiterAssumption DEF LimiterTypeOK, Time
<1> HIDE DEF L
<1>5. ASSUME NEW m \in Int, m <= now
      PROVE  AdmittedSince(c, m)' = AdmittedSince(c, m) + 1
    <2> DEFINE T == {n \in DOMAIN admitted[c] : admitted[c][n] >= m}
               U == {n \in DOMAIN admitted'[c] : admitted'[c][n] >= m}
    <2>1. U = T \cup {L}
        BY <1>1, <1>3, <1>4, <1>5
    <2>2. IsFiniteSet(T) /\ L \notin T
        BY <1>3, RequestsFinite
    <2>3. Cardinality(T \cup {L}) = Cardinality(T) + 1
        <3> HIDE DEF T
        <3> QED BY <2>2, FS_AddElement
    <2>4. AdmittedSince(c, m) = Cardinality(T) /\ AdmittedSince(c, m)' = Cardinality(U)
        BY DEF AdmittedSince
    <2> QED BY <2>1, <2>3, <2>4
<1>6. ASSUME NEW m \in Int, NEW n \in Int, n <= now
      PROVE  AdmittedBetween(c, m, n)' = AdmittedBetween(c, m, n)
    <2>1. {k \in DOMAIN admitted'[c] : m < admitted'[c][k] /\ admitted'[c][k] < n}
              = {k \in DOMAIN admitted[c] : m < admitted[c][k] /\ admitted[c][k] < n}
        <3>1. ~(now < n)
            BY <1>4, <1>6
        <3> QED BY <1>1, <1>3, <3>1
    <2> QED BY <2>1 DEF AdmittedBetween
<1>7. ASSUME NEW d \in Client, d # c, NEW m \in Int, NEW n \in Int
      PROVE  /\ AdmittedSince(d, m)' = AdmittedSince(d, m)
             /\ AdmittedBetween(d, m, n)' = AdmittedBetween(d, m, n)
    BY <1>1, <1>7 DEF AdmittedSince, AdmittedBetween
<1> QED BY <1>5, <1>6, <1>7

(* A request that gets through is counted in its client's window.          *)
LEMMA AdmissionKeeps ==
    ASSUME LimiterInv, NEW c \in Client, ~Full(c, Purged),
           NEW table, table = WithWindow(c, Purged),
           NEW i \in DOMAIN table, table[i].client = c, ~Exhausted(table[i]),
           clients' = Counted(table, i),
           answer' = [client |-> {c}, code |-> "NEXT"],
           admitted' = [admitted EXCEPT ![c] = Append(@, now)], now' = now
    PROVE  LimiterInv'
<1>1. /\ table \in Seq(Window) /\ Len(table) <= RateMaxKeys
      /\ \A j, k \in DOMAIN table :
            j < k => /\ table[j].expires <= table[k].expires
                     /\ table[j].client # table[k].client
      /\ \A j \in DOMAIN table :
            /\ table[j].count = AdmittedSince(table[j].client, table[j].expires - RateWindow)
            /\ table[j].count \in 0 .. Limit[table[j].client]
            /\ table[j].count = 0 => table[j].client = c
            /\ table[j].expires \in RateWindow .. now + RateWindow
            /\ table[j].expires > now
      /\ LastWindow(table, c, table[i].expires - RateWindow)
      /\ EveryLastWindow(table)
    BY WithWindowFits
<1>2. /\ DOMAIN table = 1 .. Len(table) /\ Len(table) \in Nat
      /\ \A j \in DOMAIN table :
            /\ table[j] \in Window /\ table[j].client \in Client
            /\ table[j].count \in Nat /\ table[j].expires \in Nat
    BY <1>1, TableDomain
<1>3. /\ now \in Nat /\ RateWindow \in Nat \ {0} /\ LimiterTypeOK
      /\ \A d \in Client : Limit[d] \in Nat \ {0}
    <2>1. LimiterTypeOK
        BY DEF LimiterInv
    <2> QED BY <2>1, LimiterAssumption DEF LimiterTypeOK, Time
<1>4. /\ \A m \in Int : m <= now => AdmittedSince(c, m)' = AdmittedSince(c, m) + 1
      /\ \A m, n \in Int : n <= now => AdmittedBetween(c, m, n)' = AdmittedBetween(c, m, n)
      /\ \A d \in Client : d # c =>
            \A m, n \in Int : /\ AdmittedSince(d, m)' = AdmittedSince(d, m)
                              /\ AdmittedBetween(d, m, n)' = AdmittedBetween(d, m, n)
    BY <1>3, CountsOne
<1>5. PICK w \in Window : /\ w = [table[i] EXCEPT !.count = @ + 1]
                          /\ w.client = c /\ w.count = table[i].count + 1
                          /\ w.expires = table[i].expires
    <2>1. table[i].count + 1 \in Nat /\ table[i] \in Window
        BY <1>2
    <2>2. PICK n \in Nat : n = table[i].count + 1
        BY <2>1
    <2>3. PICK v \in Window : v = table[i]
        BY <2>1
    <2>4. PICK w \in Window : w = [v EXCEPT !.count = n]
        BY <2>2, <2>3 DEF Window
    <2>5. w.client = v.client /\ w.count = n /\ w.expires = v.expires
        BY <2>3, <2>4 DEF Window
    <2>6. [v EXCEPT !.count = n] = [table[i] EXCEPT !.count = @ + 1]
        BY <2>2, <2>3
    <2> QED BY <2>2, <2>3, <2>4, <2>5, <2>6
<1>6. /\ clients' \in Seq(Window) /\ Len(clients') = Len(table)
      /\ DOMAIN clients' = DOMAIN table
      /\ clients'[i] = w
      /\ \A j \in DOMAIN table : j # i => clients'[j] = table[j]
    <2>1. clients' = [table EXCEPT ![i] = w]
        BY <1>5 DEF Counted
    <2>2. i \in 1 .. Len(table)
        BY <1>2
    <2>3. clients' \in Seq(Window) /\ Len(clients') = Len(table)
        BY <1>1, <2>1, <2>2, ExceptSeq
    <2> QED BY <1>1, <2>1, <2>3
<1>7. \A j \in DOMAIN table : /\ clients'[j].client = table[j].client
                              /\ clients'[j].expires = table[j].expires
    BY <1>5, <1>6
<1>8. \A j \in DOMAIN table : j # i => table[j].client # c
    <2>1. ASSUME NEW j \in DOMAIN table, j # i PROVE table[j].client # c
        <3>1. j < i \/ i < j
            BY <1>2, <2>1
        <3> QED BY <1>1, <3>1
    <2> QED BY <2>1
<1>9. PICK o \in Int : o = table[i].expires - RateWindow /\ o <= now /\ o + RateWindow = table[i].expires
    <2>1. /\ table[i].expires \in Nat /\ table[i].expires \in RateWindow .. now + RateWindow
        BY <1>1, <1>2
    <2>2. table[i].expires - RateWindow \in Int /\ table[i].expires - RateWindow <= now
          /\ (table[i].expires - RateWindow) + RateWindow = table[i].expires
        BY <1>3, <2>1
    <2> QED BY <2>2
<1>10. /\ w.count = AdmittedSince(c, o)' /\ AdmittedSince(c, o)' <= Limit[c]
       /\ w.count \in 1 .. Limit[c]
    <2>1. table[i].count = AdmittedSince(c, o) /\ ~(table[i].count >= Limit[c])
        BY <1>1, <1>9 DEF Exhausted
    <2>2. AdmittedSince(c, o)' = AdmittedSince(c, o) + 1
        BY <1>4, <1>9
    <2>3. w.count = AdmittedSince(c, o)'
        BY <1>5, <2>1, <2>2
    <2>4. table[i].count \in Nat /\ Limit[c] \in Nat
        BY <1>2, <1>3
    <2>5. w.count \in 1 .. Limit[c] /\ w.count <= Limit[c]
        BY <1>5, <2>1, <2>4
    <2> QED BY <2>3, <2>5
<1>11. LimiterTypeOK'
    <2>1. answer' \in [client: SUBSET Client, code: Code]
        BY DEF Code
    <2>2. admitted' \in [Client -> Seq(Time)]
        BY <1>3, AdmitsOne
    <2> QED BY <1>1, <1>3, <1>6, <2>1, <2>2 DEF LimiterTypeOK
<1>12. FitsTable(clients)'
    <2>1. \A j, k \in DOMAIN clients' :
              j < k => /\ clients'[j].expires <= clients'[k].expires
                       /\ clients'[j].client # clients'[k].client
        BY <1>1, <1>6, <1>7
    <2>2. ASSUME NEW j \in DOMAIN clients'
          PROVE  /\ clients'[j].count =
                        AdmittedSince(clients[j].client, clients[j].expires - RateWindow)'
                 /\ clients'[j].count \in 1 .. Limit[clients'[j].client]
                 /\ clients'[j].expires \in RateWindow .. now' + RateWindow
        <3>1. j \in DOMAIN table
            BY <1>6, <2>2
        <3>2. CASE j = i
            <4>1. clients'[j] = w /\ w.client = c /\ w.expires = table[i].expires
                BY <1>5, <1>6, <3>2
            <4>2. AdmittedSince(clients[j].client, clients[j].expires - RateWindow)' =
                      AdmittedSince(c, o)'
                BY <1>9, <4>1 DEF AdmittedSince
            <4>3. w.expires \in RateWindow .. now' + RateWindow
                BY <1>1, <4>1
            <4> QED BY <1>10, <4>1, <4>2, <4>3
        <3>3. CASE j # i
            <4>1. clients'[j] = table[j] /\ table[j].client \in Client /\ table[j].client # c
                BY <1>2, <1>6, <1>8, <3>1, <3>3
            <4>2. table[j].count \in 1 .. Limit[table[j].client]
                <5>1. /\ table[j].count \in 0 .. Limit[table[j].client] /\ table[j].count # 0
                      /\ Limit[table[j].client] \in Nat
                    BY <1>1, <1>3, <3>1, <4>1
                <5> QED BY <5>1
            <4>3. table[j].expires - RateWindow \in Int
                BY <1>2, <1>3, <3>1
            <4>4. AdmittedSince(table[j].client, table[j].expires - RateWindow)' =
                      AdmittedSince(table[j].client, table[j].expires - RateWindow)
                BY <1>4, <4>1, <4>3
            <4>5. AdmittedSince(clients[j].client, clients[j].expires - RateWindow)' =
                      AdmittedSince(table[j].client, table[j].expires - RateWindow)'
                BY <4>1 DEF AdmittedSince
            <4> QED BY <1>1, <3>1, <4>1, <4>2, <4>4, <4>5
        <3> QED BY <3>2, <3>3
    <2> QED BY <1>1, <1>6, <2>1, <2>2 DEF FitsTable
<1>13. ASSUME NEW d \in Client PROVE \E q \in Int : LastWindow(clients, d, q)'
    <2>1. CASE d # c
        <3>1. PICK q \in Int : LastWindow(table, d, q)
            BY <1>1 DEF EveryLastWindow
        <3>2. q - RateWindow \in Int
            BY <1>3
        <3>3. /\ AdmittedSince(d, q)' = AdmittedSince(d, q)
              /\ AdmittedBetween(d, q - RateWindow, q)' = AdmittedBetween(d, q - RateWindow, q)
            BY <1>4, <2>1, <3>2
        <3>4. admitted'[d] = admitted[d]
            BY <1>3, <2>1, AdmitsOne
        <3>5. \A j \in DOMAIN clients' : clients'[j].client = d
                  => j \in DOMAIN table /\ clients'[j] = table[j]
            BY <1>5, <1>6, <2>1
        <3>6. \A j \in DOMAIN table : table[j].client = d
                  => j \in DOMAIN clients' /\ clients'[j] = table[j]
            BY <1>5, <1>6, <2>1
        <3>7. LastWindow(clients, d, q)'
            BY <1>1, <3>1, <3>3, <3>4, <3>5, <3>6 DEF LastWindow
        <3> QED BY <3>7
    <2>2. CASE d = c
        <3>1. LastWindow(table, c, o)
            BY <1>1, <1>9
        <3>2. AdmittedBetween(c, o - RateWindow, o)' = AdmittedBetween(c, o - RateWindow, o)
            <4>1. o - RateWindow \in Int
                BY <1>3
            <4> QED BY <1>4, <1>9, <4>1
        <3>3. \A n \in DOMAIN admitted'[c] : admitted'[c][n] < o + RateWindow
            <4>1. now < o + RateWindow
                BY <1>1, <1>9
            <4>2. /\ Len(admitted[c]) \in Nat
                  /\ DOMAIN admitted[c] = 1 .. Len(admitted[c])
                  /\ DOMAIN admitted'[c] = 1 .. Len(admitted[c]) + 1
                  /\ admitted'[c][Len(admitted[c]) + 1] = now
                  /\ \A n \in DOMAIN admitted[c] : admitted'[c][n] = admitted[c][n]
                <5>1. DOMAIN admitted[c] \subseteq DOMAIN admitted[c]
                    OBVIOUS
                <5> QED BY <1>3, <5>1, AdmitsOne, RequestsFinite
            <4>3. \A n \in DOMAIN admitted'[c] :
                      n \in DOMAIN admitted[c] \/ n = Len(admitted[c]) + 1
                BY <4>2
            <4> QED BY <3>1, <4>1, <4>2, <4>3 DEF LastWindow
        <3>4. LastWindow(clients, c, o)'
            BY <1>1, <1>6, <1>7, <1>9, <1>10, <3>1, <3>2, <3>3 DEF LastWindow
        <3> QED BY <2>2, <3>4
    <2> QED BY <2>1, <2>2
<1>14. AnswerSound'
    BY DEF AnswerSound
<1>15. EveryLastWindow(clients)'
    BY <1>13 DEF EveryLastWindow
<1> QED BY <1>11, <1>12, <1>14, <1>15 DEF LimiterInv

(* Whichever way a request goes, the invariant holds afterwards.           *)
LEMMA HandleKeeps ==
    ASSUME LimiterInv, NEW c \in Client, Handle(c)
    PROVE  LimiterInv'
<1> DEFINE table == WithWindow(c, Purged)
<1>1. CASE Full(c, Purged) /\ Refused(c, "LIMITER_CAPACITY", Purged)
    <2>1. /\ clients' = Purged /\ UNCHANGED <<now, admitted>>
          /\ answer' = [client |-> {c}, code |-> "LIMITER_CAPACITY"]
        BY <1>1 DEF Refused
    <2>2. answer' \in [client: SUBSET Client, code: Code]
        BY <2>1 DEF Code
    <2>3. Cardinality({d \in Client : AdmittedSince(d, now - RateWindow + 1) > 0}) >= RateMaxKeys
        BY <1>1, FullIsRecent
    <2>4. AnswerSound'
        BY <2>1, <2>3 DEF AnswerSound, AdmittedSince
    <2> QED BY <2>1, <2>2, <2>4, PurgedFits, TableReplaced
<1>2. ASSUME ~Full(c, Purged), NEW i \in DOMAIN table, table[i].client = c,
             Exhausted(table[i]), Refused(c, "RATE_LIMITED", table)
      PROVE  LimiterInv'
    <2>1. /\ clients' = table /\ UNCHANGED <<now, admitted>>
          /\ answer' = [client |-> {c}, code |-> "RATE_LIMITED"]
        BY <1>2 DEF Refused
    <2>2. answer' \in [client: SUBSET Client, code: Code]
        BY <2>1 DEF Code
    <2>3. /\ table \in Seq(Window) /\ Len(table) <= RateMaxKeys
          /\ \A j, k \in DOMAIN table :
                j < k => /\ table[j].expires <= table[k].expires
                         /\ table[j].client # table[k].client
          /\ \A j \in DOMAIN table :
                /\ table[j].count =
                       AdmittedSince(table[j].client, table[j].expires - RateWindow)
                /\ table[j].count \in 0 .. Limit[table[j].client]
                /\ table[j].count = 0 => table[j].client = c
                /\ table[j].expires \in RateWindow .. now + RateWindow
                /\ table[j].expires > now
          /\ EveryLastWindow(table)
        <3> HIDE DEF table
        <3>1. \A t : (t = table) => t = table
            OBVIOUS
        <3> QED BY <1>2, WithWindowFits DEF table
    <2> HIDE DEF table
    <2>4. /\ DOMAIN table = 1 .. Len(table) /\ Len(table) \in Nat
          /\ \A j \in DOMAIN table :
                table[j].client \in Client /\ table[j].count \in Nat /\ table[j].expires \in Nat
        BY <2>3, TableDomain
    <2>5. Limit[c] \in Nat \ {0} /\ now \in Nat /\ RateWindow \in Nat /\ LimiterTypeOK
        BY LimiterAssumption DEF LimiterInv, LimiterTypeOK, Time
    <2>6. table[i].count >= Limit[c]
        BY <1>2 DEF Exhausted
    <2>7. ASSUME NEW j \in DOMAIN table PROVE table[j].count \in 1 .. Limit[table[j].client]
        <3>1. CASE j = i
            BY <1>2, <2>3, <2>4, <2>5, <2>6, <3>1
        <3>2. CASE j # i
            <4>1. j < i \/ i < j
                BY <2>4, <3>2
            <4>2. table[j].client # c
                BY <1>2, <2>3, <4>1
            <4>3. table[j].count # 0 /\ table[j].count \in 0 .. Limit[table[j].client]
                BY <2>3, <4>2
            <4>4. Limit[table[j].client] \in Nat
                BY <2>4, LimiterAssumption
            <4> QED BY <4>3, <4>4
        <3> QED BY <3>1, <3>2
    <2>8. FitsTable(table)
        BY <2>3, <2>7 DEF FitsTable
    <2>9. AdmittedSince(c, now - RateWindow + 1) >= Limit[c]
        <3>1. /\ AdmittedSince(c, now - RateWindow + 1) >=
                     AdmittedSince(c, table[i].expires - RateWindow)
            BY <1>2, <2>3, <2>4, LiveIsRecent
        <3>2. now - RateWindow + 1 \in Int
            BY <2>5
        <3>3. AdmittedSince(c, now - RateWindow + 1) \in Nat
            BY <2>5, <3>2, SinceEarlier
        <3>4. AdmittedSince(c, table[i].expires - RateWindow) = table[i].count
            BY <1>2, <2>3
        <3> QED BY <1>2, <2>4, <2>5, <2>6, <3>1, <3>3, <3>4
    <2>10. AnswerSound'
        BY <2>1, <2>9 DEF AnswerSound, AdmittedSince
    <2> QED BY <2>1, <2>2, <2>3, <2>8, <2>10, TableReplaced
<1>3. ASSUME ~Full(c, Purged), NEW i \in DOMAIN table, table[i].client = c,
             ~Exhausted(table[i]), clients' = Counted(table, i),
             answer' = [client |-> {c}, code |-> "NEXT"],
             admitted' = [admitted EXCEPT ![c] = Append(@, now)], UNCHANGED now
      PROVE  LimiterInv'
    BY <1>3, AdmissionKeeps
<1> QED BY <1>1, <1>2, <1>3 DEF Handle

(* The clock ends windows, and never opens one.                            *)
LEMMA ClockKeeps ==
    ASSUME LimiterInv, ClockTicks
    PROVE  LimiterInv'
<1>1. /\ now \in Nat /\ RateWindow \in Nat /\ MaxTime \in Nat /\ LimiterTypeOK
    BY LimiterAssumption DEF LimiterInv, LimiterTypeOK, Time
<1>2. /\ now' = now + 1 /\ now < MaxTime /\ clients' = clients /\ admitted' = admitted
      /\ answer' = [client |-> {}, code |-> "none"]
    BY DEF ClockTicks
<1>3. LimiterTypeOK'
    BY <1>1, <1>2 DEF LimiterTypeOK, Time, Code
<1>4. FitsTable(clients)'
    <2>1. \A n : n \in RateWindow .. now + RateWindow => n \in RateWindow .. now' + RateWindow
        BY <1>1, <1>2
    <2> QED BY <1>2, <2>1 DEF LimiterInv, FitsTable, AdmittedSince
<1>5. EveryLastWindow(clients)'
    <2>1. ASSUME NEW c \in Client, NEW o \in Int, LastWindow(clients, c, o)
          PROVE  LastWindow(clients, c, o)'
        <3>1. o <= now => o <= now'
            BY <1>1, <1>2
        <3>2. o + RateWindow <= now => o + RateWindow <= now'
            BY <1>1, <1>2
        <3> QED BY <1>2, <2>1, <3>1, <3>2 DEF LastWindow, AdmittedSince, AdmittedBetween
    <2> QED BY <2>1 DEF LimiterInv, EveryLastWindow
<1>6. AnswerSound'
    BY <1>2 DEF AnswerSound
<1> QED BY <1>3, <1>4, <1>5, <1>6 DEF LimiterInv

(* Whatever the limits, the size of the table and the length of a window:  *)
(* no span of a window's length sees more than two quotas of a client, the *)
(* table may be purged from its front, and nobody is refused because of    *)
(* what is over.                                                           *)
THEOREM QuotaAlwaysHolds == LimiterSpec => []QuotaHolds
<1>1. LimiterInv /\ [LimiterNext]_limiterVars => LimiterInv'
    <2> SUFFICES ASSUME LimiterInv, [LimiterNext]_limiterVars PROVE LimiterInv'
        OBVIOUS
    <2>1. CASE Unidentified
        <3>1. /\ clients' = Purged /\ UNCHANGED <<now, admitted>>
              /\ answer' = [client |-> {}, code |-> "CLIENT_IP_UNAVAILABLE"]
            BY <2>1 DEF Unidentified
        <3>2. answer' \in [client: SUBSET Client, code: Code] /\ AnswerSound'
            BY <3>1 DEF Code, AnswerSound
        <3> QED BY <3>1, <3>2, PurgedFits, TableReplaced
    <2>2. CASE \E c \in Client : Handle(c)
        BY <2>2, HandleKeeps
    <2>3. CASE ClockTicks
        BY <2>3, ClockKeeps
    <2>4. CASE UNCHANGED limiterVars
        <3>1. UNCHANGED <<now, admitted>> /\ clients' = clients /\ answer' = answer
            BY <2>4 DEF limiterVars
        <3>2. FitsTable(clients') /\ EveryLastWindow(clients')
            BY <3>1 DEF LimiterInv
        <3>3. answer' \in [client: SUBSET Client, code: Code]
            BY <3>1 DEF LimiterInv, LimiterTypeOK
        <3>4. AnswerSound'
            BY <3>1 DEF LimiterInv, AnswerSound, AdmittedSince
        <3> QED BY <3>1, <3>2, <3>3, <3>4, TableReplaced
    <2> QED BY <2>1, <2>2, <2>3, <2>4 DEF LimiterNext
<1> QED BY <1>1, LimiterInitInv, InvQuotaHolds, PTL DEF LimiterSpec
-------------------------------------------------------------------------------
(* The probes of the services.                                             *)

(* What was found out under version g of an entry, for its state e, is of  *)
(* the state the entry has, if it still has that version.                  *)
OfVersion(s, g, e) == g <= version[s] /\ (g = version[s] => e = era[s])

ObservationSound(s) ==
    LET o == record[s].observation
    IN  /\ o.result /\ ~o.failure => o.revision = record[s].revision
        /\ o.result /\ ~o.failure /\ ~o.old => OfVersion(s, o.generation, o.era)

(* What is to be stored is marked as a failure, or found by this probe.    *)
FoundBy(t, o) ==
    o.failure \/ (o.revision = t.revision /\ o.generation = t.generation /\ o.era = t.era)

TaskSound(k) ==
    LET t == task[k]
    IN  /\ t.step # "none" => t.service \in Service
        /\ t.step \in {"observe", "again", "compare"} => OfVersion(t.service, t.generation, t.era)
        /\ t.step \in {"again", "compare"} => FoundBy(t, t.next)

DiscoveryInv ==
    /\ TypeOK
    /\ \A s \in Service : ObservationSound(s)
    /\ \A k \in Slot : TaskSound(k)

(* The order of a part of the rows.                                        *)
LEMMA OrderedPart ==
    ASSUME NEW S, NEW order, Ordered(order, S), NEW T, T \subseteq S
    PROVE  Ordered(order \cap (T \X T), T)
BY DEF Ordered

(* Identities are in order.                                                *)
LEMMA NumbersOrdered ==
    ASSUME NEW S, S \subseteq Nat
    PROVE  Ordered(ByNumber(S) \cap (S \X S), S)
<1>1. \A r, s \in S : <<r, s>> \in ByNumber(S) \cap (S \X S) <=> r < s
    BY DEF ByNumber
<1> QED BY <1>1 DEF Ordered

(* One list before another.                                                *)
LEMMA OneBeforeOther ==
    ASSUME NEW S, NEW T, S \cap T = {}, NEW order, NEW other,
           Ordered(order \cap (S \X S), S), Ordered(other \cap (T \X T), T)
    PROVE  Ordered(InFront(order, S, other, T), S \cup T)
<1> DEFINE o == order \cap (S \X S)
           p == other \cap (T \X T)
<1>1. InFront(order, S, other, T) = o \cup (S \X T) \cup p
    BY DEF InFront
<1>2. o \subseteq S \X S /\ p \subseteq T \X T /\ Ordered(o, S) /\ Ordered(p, T)
    OBVIOUS
<1> HIDE DEF o, p
<1>3. o \cup (S \X T) \cup p \subseteq (S \cup T) \X (S \cup T)
    BY <1>2
<1>4. \A r, s \in S \cup T : <<r, s>> \in o \cup (S \X T) \cup p <=>
          \/ r \in S /\ s \in S /\ <<r, s>> \in o
          \/ r \in S /\ s \in T
          \/ r \in T /\ s \in T /\ <<r, s>> \in p
    BY <1>2
<1>5. \A r, s \in S \cup T : r # s <=> (\/ <<r, s>> \in o \cup (S \X T) \cup p
                                        \/ <<s, r>> \in o \cup (S \X T) \cup p)
    BY <1>2, <1>4 DEF Ordered
<1>6. ASSUME NEW q \in S \cup T, NEW r \in S \cup T, NEW s \in S \cup T,
             <<q, r>> \in o \cup (S \X T) \cup p, <<r, s>> \in o \cup (S \X T) \cup p
      PROVE  <<q, s>> \in o \cup (S \X T) \cup p
    BY <1>2, <1>4, <1>6 DEF Ordered
<1> QED BY <1>1, <1>3, <1>5, <1>6 DEF Ordered

(* What the types say of each field.                                       *)
LEMMA DiscoveryTypes ==
    ASSUME TypeOK
    PROVE  /\ \A s \in Service :
                 /\ record[s] \in Record /\ record[s].revision \in Revision
                 /\ record[s].payload \in Content /\ record[s].waited \in 0 .. Never
                 /\ record[s].observation \in Observation
                 /\ version[s] \in Nat \ {0} /\ era[s] \in Nat
           /\ \A k \in Slot :
                 /\ task[k] \in Task
                 /\ task[k].service \in Service \cup {NoService}
                 /\ task[k].revision \in Revision /\ task[k].payload \in Content
                 /\ task[k].previous \in Observation /\ task[k].next \in Observation
                 /\ task[k].generation \in Nat /\ task[k].era \in Nat
                 /\ task[k].mine \in BOOLEAN
           /\ Row \subseteq Service /\ Service \subseteq Nat
<1>1. record \in [Service -> Record] /\ task \in [Slot -> Task]
    BY DEF TypeOK
<1>2. \A s \in Service : record[s] \in Record
    BY <1>1
<1>3. \A k \in Slot : task[k] \in Task
    BY <1>1
<1>4. \A s \in Service : version[s] \in Nat \ {0} /\ era[s] \in Nat
    BY DEF TypeOK
<1>5. Row \subseteq Service /\ Service \subseteq Nat
    BY DiscoveryAssumption DEF Row
<1>6. \A s \in Service :
          /\ record[s].revision \in Revision
          /\ record[s].payload \in Content /\ record[s].waited \in 0 .. Never
          /\ record[s].observation \in Observation
    BY <1>2 DEF Record
<1>7. \A k \in Slot :
          /\ task[k].service \in Service \cup {NoService}
          /\ task[k].revision \in Revision /\ task[k].payload \in Content
          /\ task[k].previous \in Observation /\ task[k].next \in Observation
          /\ task[k].generation \in Nat /\ task[k].era \in Nat
          /\ task[k].mine \in BOOLEAN
    BY <1>3 DEF Task
<1> QED BY <1>2, <1>3, <1>4, <1>5, <1>6, <1>7

(* What is there before anything was published, or is probed.              *)
LEMMA NothingThere ==
    /\ NoObservation \in Observation /\ Missing \in Record /\ NoTask \in Task
    /\ Missing.revision = 0 /\ ~Missing.observation.result /\ NoTask.step = "none"
    /\ 0 \in Revision /\ Never \in Nat
<1>1. /\ MaxRevision \in Nat /\ StaleMs \in Nat /\ RefreshMs \in Nat /\ Content # {}
    BY DiscoveryAssumption
<1>2. 0 \in Revision /\ Never \in Nat /\ Never \in 0 .. Never
    BY <1>1 DEF Revision, Never
<1>3. StaleMs \in 0 .. StaleMs
    BY <1>1
<1>4. NoObservation \in Observation /\ ~NoObservation.result
    BY <1>2, <1>3 DEF NoObservation, Observation
<1>5. PICK c \in Content : c = (CHOOSE d \in Content : TRUE)
    BY <1>1
<1>6. Missing = [revision |-> 0, payload |-> c, waited |-> Never, observation |-> NoObservation]
    BY <1>5 DEF Missing
<1>7. Missing \in Record /\ Missing.revision = 0 /\ Missing.observation = NoObservation
      /\ Missing.payload = c
    BY <1>2, <1>4, <1>6 DEF Record
<1>8. NoTask \in Task /\ NoTask.step = "none"
    BY <1>2, <1>4, <1>7 DEF NoTask, Task
<1> QED BY <1>2, <1>4, <1>7, <1>8
(* What a probe stores takes the place of one service's observation only,  *)
(* and only if the row is still the one that was probed.                   *)
LEMMA ObservedKeeps ==
    ASSUME TypeOK, NEW t \in Task, t.service \in Service, NEW o \in Observation
    PROVE  /\ Observed(t, o) \in [Service -> Record]
           /\ \A s \in Service :
                 /\ Observed(t, o)[s].revision = record[s].revision
                 /\ \/ Observed(t, o)[s].observation = record[s].observation
                    \/ /\ s = t.service /\ t.revision = record[s].revision
                       /\ Observed(t, o)[s].observation = o
<1>1. record \in [Service -> Record]
    BY DEF TypeOK
<1>2. CASE ~Belongs(t, record[t.service])
    BY <1>1, <1>2 DEF Observed
<1>3. CASE Belongs(t, record[t.service])
    <2>1. PICK r \in Record : r = record[t.service]
        BY <1>1
    <2>2. PICK n \in Record : n = [r EXCEPT !.observation = o]
        BY DEF Record
    <2>3. n.revision = r.revision /\ n.observation = o
        BY <2>2 DEF Record
    <2>4. Observed(t, o) = [record EXCEPT ![t.service] = n]
        BY <1>1, <1>3, <2>1, <2>2 DEF Observed
    <2>5. r.revision = t.revision
        BY <1>3, <2>1 DEF Belongs
    <2> QED BY <1>1, <2>1, <2>3, <2>4, <2>5
<1> QED BY <1>2, <1>3

(* While nothing is published the rows stand as they stood.                *)
LEMMA RowsStay ==
    ASSUME TypeOK, before' = before, \A s \in Service : record'[s].revision = record[s].revision
    PROVE  Ordered(before, Row)'
<1>1. Row' = Row
    BY DEF Row
<1> QED BY <1>1 DEF TypeOK, Ordered

(* A probe that ends leaves the others as they are.                        *)
LEMMA EndKeeps ==
    ASSUME DiscoveryInv, NEW k \in Slot, End(k), record' \in [Service -> Record],
           \A s \in Service : /\ record'[s].revision = record[s].revision
                              /\ ObservationSound(s)'
    PROVE  DiscoveryInv'
<1>1. /\ task' = [task EXCEPT ![k] = NoTask] /\ entry' = entry /\ version' = version /\ era' = era
      /\ before' = before /\ incidents' = incidents
      /\ running' = (running /\ (task[k].mine => \E j \in Slot \ {k} : task[j].mine))
    BY DEF End, index
<1>2. running' \in BOOLEAN
    BY <1>1
<1>3. Ordered(before, Row)'
    BY <1>1, RowsStay DEF DiscoveryInv
<1>4. TypeOK'
    BY <1>1, <1>2, <1>3, NothingThere DEF DiscoveryInv, TypeOK
<1>5. \A j \in Slot : TaskSound(j)'
    <2>1. task \in [Slot -> Task]
        BY DEF DiscoveryInv, TypeOK
    <2>2. ASSUME NEW j \in Slot PROVE TaskSound(j)'
        <3>1. CASE j = k
            BY <1>1, <2>1, <3>1, NothingThere DEF TaskSound
        <3>2. CASE j # k
            BY <1>1, <2>1, <3>2 DEF DiscoveryInv, TaskSound, OfVersion
        <3> QED BY <3>1, <3>2
    <2> QED BY <2>2
<1> QED BY <1>4, <1>5 DEF DiscoveryInv

(* What a probe stores is marked, or found by it under a version that was  *)
(* the entry's then.                                                       *)
LEMMA StoredKeeps ==
    ASSUME DiscoveryInv, NEW k \in Slot, NEW t \in Task, t = task[k], t.service \in Service,
           NEW o \in Observation, FoundBy(t, o),
           ~o.failure => OfVersion(t.service, t.generation, t.era),
           record' = Observed(t, o), End(k)
    PROVE  DiscoveryInv'
<1>1. /\ record' \in [Service -> Record]
      /\ \A s \in Service :
            /\ record'[s].revision = record[s].revision
            /\ \/ record'[s].observation = record[s].observation
               \/ /\ s = t.service /\ t.revision = record[s].revision
                  /\ record'[s].observation = o
    BY ObservedKeeps DEF DiscoveryInv
<1>2. version' = version /\ era' = era
    BY DEF End, index
<1>3. ASSUME NEW s \in Service PROVE ObservationSound(s)'
    <2>1. CASE record'[s].observation = record[s].observation
        BY <1>1, <1>2, <2>1 DEF DiscoveryInv, ObservationSound, OfVersion
    <2>2. CASE s = t.service /\ t.revision = record[s].revision /\ record'[s].observation = o
        BY <1>1, <1>2, <2>2 DEF ObservationSound, OfVersion, FoundBy
    <2> QED BY <1>1, <2>1, <2>2
<1> QED BY <1>1, <1>3, EndKeeps

(* The mark of a failure, on what was observed before.                     *)
LEMMA FailedMarks ==
    ASSUME NEW t \in Task, NEW g \in Nat
    PROVE  Marked(t, g) \in Observation /\ Marked(t, g).failure
<1>1. PICK p \in Observation : p = t.previous
    BY DEF Task
<1>2. PICK n \in Nat : n = IF p.revision = 0 THEN g ELSE p.generation
    BY DEF Observation
<1>3. Marked(t, g) = [p EXCEPT !.failure = TRUE, !.revision = t.revision, !.generation = n]
    BY <1>1, <1>2 DEF Marked
<1>4. t.revision \in Revision
    BY DEF Task
<1> QED BY <1>3, <1>4 DEF Observation

(* A failure's mark hides whatever stood there.                            *)
LEMMA FailureKeeps ==
    ASSUME DiscoveryInv, NEW k \in Slot, task[k].step # "none", Failure(k)
    PROVE  DiscoveryInv'
<1>1. PICK t \in Task : t = task[k] /\ t.service \in Service /\ version[t.service] \in Nat
    BY DiscoveryTypes DEF DiscoveryInv, TaskSound
<1>2. PICK o \in Observation : o = Marked(t, version[t.service]) /\ o.failure
    BY <1>1, FailedMarks
<1>3. record' = Observed(t, o) /\ End(k)
    BY <1>1, <1>2 DEF Failure
<1> QED BY <1>1, <1>2, <1>3, StoredKeeps DEF FoundBy

(* A probe that goes on knows no more than it should.                      *)
LEMMA StepKeeps ==
    ASSUME DiscoveryInv, Unmoved, NEW k \in Slot, NEW t \in Task,
           task' = [task EXCEPT ![k] = t], t.service \in Service,
           t.step \in {"observe", "again", "compare"} => OfVersion(t.service, t.generation, t.era),
           t.step \in {"again", "compare"} => FoundBy(t, t.next)
    PROVE  DiscoveryInv'
<1>1. /\ entry' = entry /\ version' = version /\ era' = era /\ record' = record
      /\ before' = before /\ running' = running /\ incidents' = incidents
    BY DEF Unmoved, index
<1>2. task \in [Slot -> Task]
    BY DEF DiscoveryInv, TypeOK
<1>3. Ordered(before, Row)'
    BY <1>1, RowsStay DEF DiscoveryInv
<1>4. TypeOK'
    BY <1>1, <1>2, <1>3 DEF DiscoveryInv, TypeOK
<1>5. \A s \in Service : ObservationSound(s)'
    BY <1>1 DEF DiscoveryInv, ObservationSound, OfVersion
<1>6. ASSUME NEW j \in Slot PROVE TaskSound(j)'
    <2>1. CASE j = k
        <3>1. task'[j] = t
            BY <1>2, <2>1
        <3> QED BY <1>1, <3>1 DEF TaskSound, OfVersion
    <2>2. CASE j # k
        <3>1. task'[j] = task[j]
            BY <1>2, <2>2
        <3> QED BY <1>1, <3>1 DEF DiscoveryInv, TaskSound, OfVersion
    <2> QED BY <2>1, <2>2
<1> QED BY <1>4, <1>5, <1>6 DEF DiscoveryInv

(* The steps of a probe.                                                   *)
LEMMA ProbeKeeps ==
    ASSUME DiscoveryInv, NEW k \in Slot, Probe(k)
    PROVE  DiscoveryInv'
<1>1. task[k].step # "none" /\ task \in [Slot -> Task]
    BY DEF Probe, Current, Generation, Observe, Compare, DiscoveryInv, TypeOK
<1>2. PICK t \in Task : t = task[k] /\ t.service \in Service
    BY <1>1, DiscoveryTypes DEF DiscoveryInv, TaskSound
<1>3. /\ t.generation \in Nat /\ t.era \in Nat /\ t.revision \in Revision
      /\ t.next \in Observation
      /\ version[t.service] \in Nat /\ era[t.service] \in Nat
    BY <1>2, DiscoveryTypes DEF DiscoveryInv
<1>4. ASSUME NEW from \in {"current", "again"}, NEW to \in {"generation", "compare"},
             (to = "compare") => (from = "again"), Current(k, from, to)
      PROVE  DiscoveryInv'
    <2>1. CASE Failure(k)
        BY <1>1, <2>1, FailureKeeps
    <2>2. CASE Goto(k, to) /\ Unmoved
        <3>1. PICK u \in Task : u = [t EXCEPT !.step = to]
            BY DEF Task
        <3>2. /\ u.service = t.service /\ u.generation = t.generation /\ u.era = t.era
              /\ u.step = to /\ u.next = t.next /\ u.revision = t.revision
            BY <3>1 DEF Task
        <3>3. task' = [task EXCEPT ![k] = u]
            BY <1>1, <1>2, <2>2, <3>1 DEF Goto
        <3>4. task[k].step = from
            BY <1>4 DEF Current
        <3>5. /\ u.step \in {"observe", "again", "compare"}
                     => OfVersion(u.service, u.generation, u.era)
              /\ u.step \in {"again", "compare"} => FoundBy(u, u.next)
            BY <1>2, <1>4, <3>2, <3>4 DEF DiscoveryInv, TaskSound, FoundBy
        <3> QED BY <1>2, <2>2, <3>2, <3>3, <3>5, StepKeeps
    <2> QED BY <1>4, <2>1, <2>2 DEF Current
<1>5. CASE Generation(k)
    <2>1. PICK u \in Task : u = [t EXCEPT !.step = "observe", !.generation = version[t.service],
                                          !.era = era[t.service]]
        BY <1>3 DEF Task
    <2>2. /\ u.service = t.service /\ u.generation = version[t.service]
          /\ u.era = era[t.service] /\ u.step = "observe"
        BY <2>1 DEF Task
    <2>3. task' = [task EXCEPT ![k] = u] /\ Unmoved
        BY <1>1, <1>2, <1>5, <2>1 DEF Generation
    <2>4. OfVersion(u.service, u.generation, u.era)
        BY <1>3, <2>2 DEF OfVersion
    <2> QED BY <1>2, <2>2, <2>3, <2>4, StepKeeps
<1>6. CASE Observe(k)
    <2>1. PICK o \in {Measured(t), Marked(t, t.generation)} :
              task' = [task EXCEPT ![k].step = "again", ![k].next = o]
        BY <1>2, <1>6 DEF Observe
    <2>2. o \in Observation /\ FoundBy(t, o)
        <3>1. CASE o = Marked(t, t.generation)
            BY <1>3, <3>1, FailedMarks DEF FoundBy
        <3>2. CASE o = Measured(t)
            <4>1. 0 \in 0 .. StaleMs
                BY DiscoveryAssumption
            <4> QED BY <1>3, <3>2, <4>1 DEF Measured, FoundBy, Observation
        <3> QED BY <2>1, <3>1, <3>2
    <2>3. PICK u \in Task : u = [t EXCEPT !.step = "again", !.next = o]
        BY <2>2 DEF Task
    <2>4. /\ u.service = t.service /\ u.generation = t.generation /\ u.era = t.era
          /\ u.step = "again" /\ u.next = o /\ u.revision = t.revision
        BY <2>3 DEF Task
    <2>5. task' = [task EXCEPT ![k] = u] /\ Unmoved /\ task[k].step = "observe"
        BY <1>1, <1>2, <1>6, <2>1, <2>3 DEF Observe
    <2>6. OfVersion(u.service, u.generation, u.era) /\ FoundBy(u, u.next)
        BY <1>2, <2>2, <2>4, <2>5 DEF DiscoveryInv, TaskSound, FoundBy
    <2> QED BY <1>2, <2>4, <2>5, <2>6, StepKeeps
<1>7. CASE Compare(k)
    <2>1. CASE Failure(k)
        BY <1>1, <2>1, FailureKeeps
    <2>2. CASE ~Failure(k)
        <3>1. record' = Observed(t, t.next) /\ End(k) /\ t.step = "compare"
            BY <1>2, <1>7, <2>2 DEF Compare
        <3>2. OfVersion(t.service, t.generation, t.era) /\ FoundBy(t, t.next)
            BY <1>2, <3>1 DEF DiscoveryInv, TaskSound
        <3> QED BY <1>2, <1>3, <3>1, <3>2, StoredKeeps
    <2> QED BY <2>1, <2>2
<1> QED BY <1>4, <1>5, <1>6, <1>7 DEF Probe
(* A service that is published begins with nothing observed, and stands    *)
(* among the first.                                                        *)
LEMMA PublishKeeps ==
    ASSUME DiscoveryInv, NEW s \in Service, NEW revision \in Revision, NEW payload \in Content,
           Publish(s, revision, payload)
    PROVE  DiscoveryInv'
<1> DEFINE new == {r \in Row : record[r].waited = Never} \cup {s}
<1>1. /\ record \in [Service -> Record] /\ Row \subseteq Service /\ Service \subseteq Nat
      /\ record[s].revision \in Revision
    BY DiscoveryTypes DEF DiscoveryInv, TypeOK
<1>2. /\ revision > record[s].revision
      /\ record' = [record EXCEPT ![s] =
                       [Missing EXCEPT !.revision = revision, !.payload = payload]]
      /\ before' = InFront(ByNumber(new), new, before, Row \ new)
      /\ entry' = entry /\ version' = version /\ era' = era
      /\ running' = running /\ task' = task /\ incidents' = incidents
    BY DEF Publish, Accepted, index
<1>3. PICK n \in Record : /\ n = [Missing EXCEPT !.revision = revision, !.payload = payload]
                          /\ n.revision = revision /\ n.observation = Missing.observation
    <2>1. PICK m \in Record : m = Missing
        BY NothingThere
    <2>2. PICK n \in Record : n = [m EXCEPT !.revision = revision, !.payload = payload]
        BY DEF Record
    <2> QED BY <2>1, <2>2 DEF Record
<1>4. /\ record' \in [Service -> Record] /\ record'[s] = n
      /\ \A r \in Service \ {s} : record'[r] = record[r]
    BY <1>1, <1>2, <1>3
<1>5. revision > 0
    BY <1>1, <1>2, DiscoveryAssumption DEF Revision
<1>6. Row' = Row \cup {s}
    BY <1>1, <1>3, <1>4, <1>5 DEF Row
<1>7. Ordered(before', Row \cup {s})
    <2>1. new \subseteq Service /\ new \subseteq Nat
        BY <1>1
    <2>2. new \cap (Row \ new) = {} /\ new \cup (Row \ new) = Row \cup {s}
        OBVIOUS
    <2> HIDE DEF new
    <2>3. Ordered(ByNumber(new) \cap (new \X new), new)
        BY <2>1, NumbersOrdered
    <2>4. Ordered(before \cap ((Row \ new) \X (Row \ new)), Row \ new)
        <3>1. Ordered(before, Row) /\ Row \ new \subseteq Row
            BY DEF DiscoveryInv, TypeOK
        <3> QED BY <3>1, OrderedPart
    <2>5. Ordered(InFront(ByNumber(new), new, before, Row \ new), new \cup (Row \ new))
        BY <2>2, <2>3, <2>4, OneBeforeOther
    <2> QED BY <1>2, <2>2, <2>5
<1>8. Ordered(before, Row)'
    BY <1>6, <1>7 DEF Ordered
<1>9. TypeOK'
    BY <1>2, <1>4, <1>8 DEF DiscoveryInv, TypeOK
<1>10. ASSUME NEW r \in Service PROVE ObservationSound(r)'
    <2>1. CASE r = s
        BY <1>3, <1>4, <2>1, NothingThere DEF ObservationSound
    <2>2. CASE r # s
        <3>1. record'[r] = record[r]
            BY <1>4, <2>2
        <3> QED BY <1>2, <3>1 DEF DiscoveryInv, ObservationSound, OfVersion
    <2> QED BY <2>1, <2>2
<1>11. \A k \in Slot : TaskSound(k)'
    BY <1>2 DEF DiscoveryInv, TaskSound, OfVersion
<1> QED BY <1>9, <1>10, <1>11 DEF DiscoveryInv

(* A tick sends the rows it probes to the end.                             *)
LEMMA SchedulerTickKeeps ==
    ASSUME DiscoveryInv, Tick
    PROVE  DiscoveryInv'
<1>1. /\ record \in [Service -> Record] /\ task \in [Slot -> Task]
      /\ Row \subseteq Service /\ Service \subseteq Nat /\ Due \subseteq Row
    BY DiscoveryTypes DEF DiscoveryInv, TypeOK, Due
<1>2. /\ running' = TRUE
      /\ record' = [s \in Service |->
                       IF s \in Due THEN [record[s] EXCEPT !.waited = 0] ELSE record[s]]
      /\ before' = InFront(before, Row \ Due, ByNumber(Due), Due)
      /\ entry' = entry /\ version' = version /\ era' = era /\ incidents' = incidents
    BY DEF Tick, index
<1>3. ASSUME NEW s \in Service
      PROVE  /\ record'[s] \in Record /\ record'[s].revision = record[s].revision
             /\ record'[s].observation = record[s].observation
    <2>1. PICK r \in Record : r = record[s]
        BY <1>1
    <2>2. 0 \in 0 .. Never
        BY NothingThere
    <2>3. record'[s] = [r EXCEPT !.waited = 0] \/ record'[s] = r
        BY <1>2, <2>1
    <2> QED BY <2>1, <2>2, <2>3 DEF Record
<1>4. record' \in [Service -> Record]
    BY <1>2, <1>3
<1>5. Row' = Row
    BY <1>3 DEF Row
<1>6. Ordered(before', Row)
    <2>1. (Row \ Due) \cap Due = {} /\ (Row \ Due) \cup Due = Row /\ Due \subseteq Nat
        BY <1>1
    <2>2. Ordered(ByNumber(Due) \cap (Due \X Due), Due)
        BY <2>1, NumbersOrdered
    <2>3. Ordered(before \cap ((Row \ Due) \X (Row \ Due)), Row \ Due)
        <3>1. Ordered(before, Row) /\ Row \ Due \subseteq Row
            BY DEF DiscoveryInv, TypeOK
        <3> QED BY <3>1, OrderedPart
    <2>4. Ordered(InFront(before, Row \ Due, ByNumber(Due), Due), (Row \ Due) \cup Due)
        BY <2>1, <2>2, <2>3, OneBeforeOther
    <2> QED BY <1>2, <2>1, <2>4
<1>7. Ordered(before, Row)'
    BY <1>5, <1>6 DEF Ordered
<1>8. task' = [k \in Slot |->
                  IF \E s \in Service : Takes(k, s)
                  THEN LET s == CHOOSE s \in Service : Takes(k, s)
                       IN  [NoTask EXCEPT !.step = "current", !.service = s,
                                          !.revision = record[s].revision,
                                          !.payload = record[s].payload,
                                          !.previous = record[s].observation, !.mine = TRUE]
                  ELSE task[k]]
    BY DEF Tick
<1>9. ASSUME NEW k \in Slot
      PROVE  /\ task'[k] \in Task
             /\ task'[k] = task[k] \/ (task'[k].step = "current" /\ task'[k].service \in Service)
    <2>1. CASE \E s \in Service : Takes(k, s)
        <3>1. PICK s \in Service : s = (CHOOSE r \in Service : Takes(k, r))
            BY <2>1
        <3>2. task'[k] = [NoTask EXCEPT !.step = "current", !.service = s,
                                        !.revision = record[s].revision,
                                        !.payload = record[s].payload,
                                        !.previous = record[s].observation, !.mine = TRUE]
            BY <1>8, <2>1, <3>1
        <3>3. /\ record[s].revision \in Revision /\ record[s].payload \in Content
              /\ record[s].observation \in Observation
            BY DiscoveryTypes DEF DiscoveryInv
        <3> QED BY <3>2, <3>3, NothingThere DEF Task
    <2>2. CASE ~\E s \in Service : Takes(k, s)
        BY <1>1, <1>8, <2>2
    <2> QED BY <2>1, <2>2
<1>10. task' \in [Slot -> Task]
    BY <1>8, <1>9
<1>11. TypeOK'
    BY <1>2, <1>4, <1>7, <1>10 DEF DiscoveryInv, TypeOK
<1>12. \A s \in Service : ObservationSound(s)'
    BY <1>2, <1>3 DEF DiscoveryInv, ObservationSound, OfVersion
<1>13. ASSUME NEW k \in Slot PROVE TaskSound(k)'
    <2>1. CASE task'[k] = task[k]
        BY <1>2, <2>1 DEF DiscoveryInv, TaskSound, OfVersion
    <2>2. CASE task'[k].step = "current" /\ task'[k].service \in Service
        BY <2>2 DEF TaskSound
    <2> QED BY <1>9, <2>1, <2>2
<1> QED BY <1>11, <1>12, <1>13 DEF DiscoveryInv

(* A store that throws ends one probe and unbinds the others from the tick.*)
LEMMA StoreFailsKeeps ==
    ASSUME DiscoveryInv, NEW k \in Slot, StoreFails(k)
    PROVE  DiscoveryInv'
<1>1. /\ incidents < MaxIncidents /\ incidents' = incidents + 1
      /\ task' = [j \in Slot |-> IF j = k THEN NoTask
                                 ELSE IF task[k].mine THEN [task[j] EXCEPT !.mine = FALSE]
                                 ELSE task[j]]
      /\ running' = (running /\ ~task[k].mine)
      /\ entry' = entry /\ version' = version /\ era' = era
      /\ record' = record /\ before' = before
    BY DEF StoreFails, index
<1>2. ASSUME NEW j \in Slot
      PROVE  /\ task'[j] \in Task
             /\ \/ task'[j] = NoTask
                \/ /\ task'[j].step = task[j].step /\ task'[j].service = task[j].service
                   /\ task'[j].generation = task[j].generation /\ task'[j].era = task[j].era
                   /\ task'[j].next = task[j].next /\ task'[j].revision = task[j].revision
    <2>1. PICK t \in Task : t = task[j]
        BY DEF DiscoveryInv, TypeOK
    <2>2. task'[j] = NoTask \/ task'[j] = [t EXCEPT !.mine = FALSE] \/ task'[j] = t
        BY <1>1, <2>1
    <2> QED BY <2>1, <2>2, NothingThere DEF Task
<1>3. task' \in [Slot -> Task] /\ running' \in BOOLEAN
    BY <1>1, <1>2
<1>4. incidents' \in 0 .. MaxIncidents
    BY <1>1, DiscoveryAssumption DEF DiscoveryInv, TypeOK
<1>5. Ordered(before, Row)'
    BY <1>1, RowsStay DEF DiscoveryInv
<1>6. TypeOK'
    BY <1>1, <1>3, <1>4, <1>5 DEF DiscoveryInv, TypeOK
<1>7. \A s \in Service : ObservationSound(s)'
    BY <1>1 DEF DiscoveryInv, ObservationSound, OfVersion
<1>8. \A j \in Slot : TaskSound(j)'
    BY <1>1, <1>2, NothingThere DEF DiscoveryInv, TaskSound, OfVersion, FoundBy
<1> QED BY <1>6, <1>7, <1>8 DEF DiscoveryInv

(* A new version is above all that was found out before.                   *)
LEMMA ReindexKeeps ==
    ASSUME DiscoveryInv, NEW s \in Service, NEW content \in Content, Reindex(s, content)
    PROVE  DiscoveryInv'
<1>1. /\ entry' = [entry EXCEPT ![s] = content]
      /\ version' = [version EXCEPT ![s] = @ + 1]
      /\ era' = [era EXCEPT ![s] = IF content = entry[s] THEN @ ELSE @ + 1]
      /\ record' = record /\ before' = before /\ running' = running /\ task' = task
      /\ incidents' = incidents
    BY DEF Reindex
<1>2. /\ entry \in [Service -> Content] /\ version \in [Service -> Nat \ {0}]
      /\ era \in [Service -> Nat]
    BY DEF DiscoveryInv, TypeOK
<1>3. /\ version' \in [Service -> Nat \ {0}] /\ era' \in [Service -> Nat]
      /\ entry' \in [Service -> Content]
    <2>1. version[s] + 1 \in Nat \ {0} /\ era[s] + 1 \in Nat /\ era[s] \in Nat
        BY <1>2
    <2> QED BY <1>1, <1>2, <2>1
<1>4. Ordered(before, Row)'
    BY <1>1, RowsStay DEF DiscoveryInv
<1>5. TypeOK'
    BY <1>1, <1>3, <1>4 DEF DiscoveryInv, TypeOK
<1>6. ASSUME NEW r \in Service, NEW g \in Nat, NEW e \in Nat, OfVersion(r, g, e)
      PROVE  OfVersion(r, g, e)'
    <2>1. CASE r = s
        <3>1. version'[r] = version[r] + 1 /\ version[r] \in Nat
            BY <1>1, <1>2, <2>1
        <3> QED BY <1>6, <3>1 DEF OfVersion
    <2>2. CASE r # s
        <3>1. version'[r] = version[r] /\ era'[r] = era[r]
            BY <1>1, <1>2, <2>2
        <3> QED BY <1>6, <3>1 DEF OfVersion
    <2> QED BY <2>1, <2>2
<1>7. ASSUME NEW r \in Service PROVE ObservationSound(r)'
    <2>1. record[r].observation.generation \in Nat /\ record[r].observation.era \in Nat
        BY DiscoveryTypes DEF DiscoveryInv, Observation
    <2> QED BY <1>1, <1>6, <2>1 DEF DiscoveryInv, ObservationSound
<1>8. ASSUME NEW k \in Slot PROVE TaskSound(k)'
    <2>1. task[k].generation \in Nat /\ task[k].era \in Nat
        BY DiscoveryTypes DEF DiscoveryInv
    <2> QED BY <1>1, <1>6, <2>1 DEF DiscoveryInv, TaskSound
<1> QED BY <1>5, <1>7, <1>8 DEF DiscoveryInv

(* An observation that grows older says the same.                          *)
LEMMA AgedSame ==
    ASSUME NEW o \in Observation
    PROVE  /\ Aged(o) \in Observation /\ Aged(o).result = o.result
           /\ Aged(o).failure = o.failure /\ Aged(o).old = o.old /\ Aged(o).era = o.era
           /\ Aged(o).generation = o.generation /\ Aged(o).revision = o.revision
<1>1. PICK n : n = IF o.age < StaleMs THEN o.age + 1 ELSE o.age
    OBVIOUS
<1>2. n \in 0 .. StaleMs
    <2>1. o.age \in 0 .. StaleMs /\ StaleMs \in Nat
        BY DiscoveryAssumption DEF Observation
    <2> QED BY <1>1, <2>1
<1>3. Aged(o) = [o EXCEPT !.age = n]
    BY <1>1 DEF Aged
<1> QED BY <1>2, <1>3 DEF Observation

(* Time ages what was observed and what waits.                             *)
LEMMA TimeKeeps ==
    ASSUME DiscoveryInv, TimePasses
    PROVE  DiscoveryInv'
<1>1. /\ record' = [s \in Service |->
                       [record[s] EXCEPT !.waited = IF @ < RefreshMs THEN @ + 1 ELSE @,
                                         !.observation = Aged(@)]]
      /\ task' = [k \in Slot |-> [task[k] EXCEPT !.previous = Aged(@), !.next = Aged(@)]]
      /\ entry' = entry /\ version' = version /\ era' = era /\ before' = before
      /\ running' = running /\ incidents' = incidents
    BY DEF TimePasses, index
<1>2. ASSUME NEW s \in Service
      PROVE  /\ record'[s] \in Record /\ record'[s].revision = record[s].revision
             /\ record'[s].observation = Aged(record[s].observation)
    <2>1. PICK r \in Record : r = record[s]
        BY DEF DiscoveryInv, TypeOK
    <2>2. PICK n : n = IF r.waited < RefreshMs THEN r.waited + 1 ELSE r.waited
        OBVIOUS
    <2>3. n \in 0 .. Never
        <3>1. r.waited \in 0 .. RefreshMs + 1 /\ RefreshMs \in Nat
            BY DiscoveryAssumption DEF Record, Never
        <3> QED BY <2>2, <3>1 DEF Never
    <2>4. PICK a \in Observation : a = Aged(r.observation)
        BY AgedSame DEF Record
    <2>5. record'[s] = [r EXCEPT !.waited = n, !.observation = a]
        BY <1>1, <2>1, <2>2, <2>4
    <2> QED BY <2>1, <2>3, <2>4, <2>5 DEF Record
<1>3. ASSUME NEW k \in Slot
      PROVE  /\ task'[k] \in Task
             /\ task'[k].step = task[k].step /\ task'[k].service = task[k].service
             /\ task'[k].generation = task[k].generation /\ task'[k].era = task[k].era
             /\ task'[k].revision = task[k].revision
             /\ FoundBy(task[k], task[k].next) => FoundBy(task'[k], task'[k].next)
    <2>1. PICK t \in Task : t = task[k]
        BY DEF DiscoveryInv, TypeOK
    <2>2. PICK a \in Observation : a = Aged(t.previous)
        BY AgedSame DEF Task
    <2>3. PICK b \in Observation :
              /\ b = Aged(t.next) /\ b.failure = t.next.failure /\ b.era = t.next.era
              /\ b.generation = t.next.generation /\ b.revision = t.next.revision
        BY AgedSame DEF Task
    <2>4. task'[k] = [t EXCEPT !.previous = a, !.next = b]
        BY <1>1, <2>1, <2>2, <2>3
    <2>5. /\ task'[k] \in Task /\ task'[k].next = b /\ task'[k].revision = t.revision
          /\ task'[k].step = t.step /\ task'[k].service = t.service
          /\ task'[k].generation = t.generation /\ task'[k].era = t.era
        BY <2>4 DEF Task
    <2> QED BY <2>1, <2>3, <2>5 DEF FoundBy
<1>4. record' \in [Service -> Record] /\ task' \in [Slot -> Task]
    BY <1>1, <1>2, <1>3
<1>5. Ordered(before, Row)'
    BY <1>1, <1>2, RowsStay DEF DiscoveryInv
<1>6. TypeOK'
    BY <1>1, <1>4, <1>5 DEF DiscoveryInv, TypeOK
<1>7. ASSUME NEW s \in Service PROVE ObservationSound(s)'
    <2>1. PICK o \in Observation : o = record[s].observation
        BY DiscoveryTypes DEF DiscoveryInv
    <2>2. PICK a \in Observation :
              /\ a = Aged(o) /\ a.result = o.result /\ a.failure = o.failure /\ a.old = o.old
              /\ a.era = o.era /\ a.generation = o.generation /\ a.revision = o.revision
        BY AgedSame
    <2>3. record'[s].observation = a /\ record'[s].revision = record[s].revision
        BY <1>2, <2>1, <2>2
    <2>4. version' = version /\ era' = era
        BY <1>1
    <2> QED BY <2>1, <2>2, <2>3, <2>4 DEF DiscoveryInv, ObservationSound, OfVersion
<1>8. \A k \in Slot : TaskSound(k)'
    BY <1>1, <1>3 DEF DiscoveryInv, TaskSound, OfVersion
<1> QED BY <1>6, <1>7, <1>8 DEF DiscoveryInv

(* Another process: nothing it finds in the store was observed by it.      *)
LEMMA RestartKeeps ==
    ASSUME DiscoveryInv, Restart
    PROVE  DiscoveryInv'
<1>1. /\ incidents < MaxIncidents /\ incidents' = incidents + 1
      /\ entry' \in [Service -> Content]
      /\ version' = [s \in Service |-> 1]
      /\ era' = [s \in Service |-> IF entry'[s] = entry[s] THEN era[s] ELSE era[s] + 1]
      /\ record' = [s \in Service |-> [record[s] EXCEPT
                       !.waited = IF @ < RefreshMs THEN RefreshMs ELSE @,
                       !.observation.old = TRUE]]
      /\ running' = FALSE /\ task' = [k \in Slot |-> NoTask] /\ before' = before
    BY DEF Restart
<1>2. ASSUME NEW s \in Service
      PROVE  /\ record'[s] \in Record /\ record'[s].revision = record[s].revision
             /\ record'[s].observation = [record[s].observation EXCEPT !.old = TRUE]
    <2>1. PICK r \in Record : r = record[s]
        BY DEF DiscoveryInv, TypeOK
    <2>2. PICK n : n = IF r.waited < RefreshMs THEN RefreshMs ELSE r.waited
        OBVIOUS
    <2>3. n \in 0 .. Never
        <3>1. r.waited \in 0 .. RefreshMs + 1 /\ RefreshMs \in Nat
            BY DiscoveryAssumption DEF Record, Never
        <3> QED BY <2>2, <3>1 DEF Never
    <2>4. PICK a \in Observation : a = [r.observation EXCEPT !.old = TRUE]
        <3>1. PICK o \in Observation : o = r.observation
            BY DEF Record
        <3> QED BY <3>1 DEF Observation
    <2>5. record'[s] = [r EXCEPT !.waited = n, !.observation = a]
        BY <1>1, <2>1, <2>2, <2>4
    <2> QED BY <2>1, <2>3, <2>4, <2>5 DEF Record
<1>3. record' \in [Service -> Record] /\ task' \in [Slot -> Task] /\ running' \in BOOLEAN
    BY <1>1, <1>2, NothingThere
<1>4. version' \in [Service -> Nat \ {0}] /\ era' \in [Service -> Nat]
    <2>1. \A s \in Service : era[s] \in Nat /\ era[s] + 1 \in Nat
        BY DEF DiscoveryInv, TypeOK
    <2>2. version' = [s \in Service |-> 1]
        BY <1>1
    <2>3. version' \in [Service -> Nat \ {0}]
        BY <2>2
    <2>4. era' \in [Service -> Nat]
        BY <1>1, <2>1
    <2> QED BY <2>3, <2>4
<1>5. incidents' \in 0 .. MaxIncidents
    <2>1. incidents \in 0 .. MaxIncidents /\ MaxIncidents \in Nat
        BY DiscoveryAssumption DEF DiscoveryInv, TypeOK
    <2>2. incidents < MaxIncidents /\ incidents' = incidents + 1
        BY <1>1
    <2> QED BY <2>1, <2>2
<1>6. Ordered(before, Row)'
    BY <1>1, <1>2, RowsStay DEF DiscoveryInv
<1>7. TypeOK'
    BY <1>1, <1>3, <1>4, <1>5, <1>6 DEF TypeOK
<1>8. ASSUME NEW s \in Service PROVE ObservationSound(s)'
    <2>1. PICK o \in Observation : o = record[s].observation
        BY DiscoveryTypes DEF DiscoveryInv
    <2>2. PICK a \in Observation : a = [o EXCEPT !.old = TRUE]
        BY DEF Observation
    <2>4. a.old /\ a.result = o.result /\ a.failure = o.failure /\ a.revision = o.revision
        BY <2>2 DEF Observation
    <2>3. record'[s].observation = a /\ record'[s].revision = record[s].revision
        BY <1>2, <2>1, <2>2
    <2> QED BY <2>1, <2>3, <2>4 DEF DiscoveryInv, ObservationSound
<1>9. \A k \in Slot : TaskSound(k)'
    BY <1>1, NothingThere DEF TaskSound
<1> QED BY <1>7, <1>8, <1>9 DEF DiscoveryInv

(* The state the scheduler begins in.                                      *)
LEMMA DiscoveryInvInit == Init => DiscoveryInv
<1> SUFFICES ASSUME Init PROVE DiscoveryInv
    OBVIOUS
<1>1. /\ entry = [s \in Service |-> Missing.payload]
      /\ version = [s \in Service |-> 1] /\ era = [s \in Service |-> 0]
      /\ record = [s \in Service |-> Missing] /\ before = {}
      /\ running = FALSE /\ task = [k \in Slot |-> NoTask] /\ incidents = 0
    BY DEF Init
<1>2. Missing.payload \in Content
    BY NothingThere DEF Record
<1>3. Row = {}
    BY <1>1, NothingThere DEF Row
<1>4. TypeOK
    <2>1. entry \in [Service -> Content] /\ version \in [Service -> Nat \ {0}] /\ era \in [Service -> Nat]
        BY <1>1, <1>2
    <2>2. record \in [Service -> Record] /\ task \in [Slot -> Task] /\ running \in BOOLEAN
        BY <1>1, NothingThere
    <2>3. Ordered(before, Row)
        BY <1>1, <1>3 DEF Ordered
    <2>4. incidents \in 0 .. MaxIncidents
        BY <1>1, DiscoveryAssumption
    <2> QED BY <2>1, <2>2, <2>3, <2>4 DEF TypeOK
<1>5. \A s \in Service : ObservationSound(s)
    BY <1>1, NothingThere DEF ObservationSound
<1>6. \A k \in Slot : TaskSound(k)
    BY <1>1, NothingThere DEF TaskSound
<1> QED BY <1>4, <1>5, <1>6 DEF DiscoveryInv

(* For any services, contents, slots and lengths of time, and however      *)
(* publications, changes of the index, failures and restarts fall between  *)
(* the steps of the probes: what is shown was found out for the metadata   *)
(* that is published now and for the demand as it is now.                  *)
THEOREM ShownStaysCurrent == Spec => []ShownIsCurrent
<1>1. DiscoveryInv /\ [Next]_vars => DiscoveryInv'
    <2> SUFFICES ASSUME DiscoveryInv, [Next]_vars PROVE DiscoveryInv'
        OBVIOUS
    <2>1. CASE \E s \in Service, r \in Revision, c \in Content : Publish(s, r, c)
        BY <2>1, PublishKeeps
    <2>2. CASE Tick
        BY <2>2, SchedulerTickKeeps
    <2>3. CASE \E k \in Slot : Probe(k) \/ StoreFails(k)
        BY <2>3, ProbeKeeps, StoreFailsKeeps
    <2>4. CASE \E s \in Service, c \in Content : Reindex(s, c)
        BY <2>4, ReindexKeeps
    <2>5. CASE TimePasses
        BY <2>5, TimeKeeps
    <2>6. CASE Restart
        BY <2>6, RestartKeeps
    <2>7. CASE UNCHANGED vars
        BY <2>7 DEF vars, index, DiscoveryInv, TypeOK, Ordered, Row, ObservationSound, TaskSound,
                    OfVersion
    <2> QED BY <2>1, <2>2, <2>3, <2>4, <2>5, <2>6, <2>7 DEF Next
<1>2. DiscoveryInv => ShownIsCurrent
    BY DiscoveryTypes DEF DiscoveryInv, ShownIsCurrent, Shown, Stale, ObservationSound, OfVersion
<1> QED BY <1>1, <1>2, DiscoveryInvInit, PTL DEF Spec

-------------------------------------------------------------------------------
(* The services and their page.                                            *)

ServicesSpec == ServicesInit /\ [][ServicesNext]_servicesVars

(* The lower of two bounds.                                                *)
LEMMA MinOfTwo ==
    ASSUME NEW m \in Int, NEW n \in Int
    PROVE  Min({m, n}) = IF m <= n THEN m ELSE n
<1> DEFINE least == IF m <= n THEN m ELSE n
<1>1. least \in {m, n} /\ \A y \in {m, n} : least <= y
    OBVIOUS
<1>2. \A x \in {m, n} : (\A y \in {m, n} : x <= y) => x = least
    OBVIOUS
<1> HIDE DEF least
<1>3. Min({m, n}) = CHOOSE x \in {m, n} : \A y \in {m, n} : x =< y
    BY DEF Min
<1>4. Min({m, n}) \in {m, n} /\ \A y \in {m, n} : Min({m, n}) <= y
    BY <1>1, <1>3
<1> QED BY <1>2, <1>4 DEF least

(* The list of some demands has each of them, the newest first.            *)
LEMMA NewestFirstSorts ==
    ASSUME NEW ds, ds \subseteq Nat, IsFiniteSet(ds)
    PROVE  /\ NewestFirst(ds) \in [1 .. Cardinality(ds) -> ds]
           /\ \A i, j \in 1 .. Cardinality(ds) : i < j => NewestFirst(ds)[i] > NewestFirst(ds)[j]
           /\ \A d \in ds : \E i \in 1 .. Cardinality(ds) : NewestFirst(ds)[i] = d
<1> DEFINE newer == {p \in ds \X ds : p[1] > p[2]}
<1>1. \A d, e \in ds : <<d, e>> \in newer <=> d > e
    OBVIOUS
<1>2. NewestFirst(ds) = InOrder(ds, newer)
    BY DEF NewestFirst
<1> HIDE DEF newer
<1>3. Orders(newer, ds)
    BY <1>1 DEF Orders
<1>4. /\ InOrder(ds, newer) \in [1 .. Cardinality(ds) -> ds]
      /\ \A i, j \in 1 .. Cardinality(ds) :
             i < j <=> <<InOrder(ds, newer)[i], InOrder(ds, newer)[j]>> \in newer
      /\ \A d \in ds : \E i \in 1 .. Cardinality(ds) : InOrder(ds, newer)[i] = d
    BY <1>3, InOrderIs
<1>5. \A i, j \in 1 .. Cardinality(ds) :
          i < j => InOrder(ds, newer)[i] > InOrder(ds, newer)[j]
    <2>1. \A i \in 1 .. Cardinality(ds) : InOrder(ds, newer)[i] \in ds
        BY <1>4
    <2> QED BY <2>1, <1>1, <1>4
<1> QED BY <1>2, <1>4, <1>5

Matched(f) == {d \in FulfilledDemands : ServiceMatches(d, f)}

(* An answer has only demands that match, the newest first; and when it    *)
(* leaves one out, it is full of newer ones.                               *)
LEMMA ListOfNewest ==
    ASSUME NEW f
    PROVE  LET list == ServiceList(f)
           IN  /\ list \in Seq(Matched(f)) /\ Len(list) <= ServicesShown
               /\ ToSet(list) \subseteq Matched(f) /\ ToSet(list) \subseteq Nat
               /\ \A i, j \in DOMAIN list : i < j => list[i] > list[j]
               /\ \A d \in Matched(f) \ ToSet(list) :
                      Len(list) = ServicesShown /\ \A e \in ToSet(list) : e > d
<1> DEFINE ds == Matched(f)
           n == Cardinality(ds)
           all == NewestFirst(ds)
           m == Min({Len(all), ServicesShown})
           list == ServiceList(f)
<1>1. ds \in SUBSET Candidate /\ Candidate \subseteq Nat /\ IsFiniteSet(Candidate)
    BY ServicesAssumption DEF Matched, FulfilledDemands
<1>2. ds \subseteq Nat /\ IsFiniteSet(ds)
    BY <1>1, FS_Subset
<1>3. n \in Nat
    BY <1>2, FS_CardinalityType
<1> HIDE DEF ds
<1>4. /\ all \in [1 .. n -> ds]
      /\ \A i, j \in 1 .. n : i < j => all[i] > all[j]
      /\ \A d \in ds : \E i \in 1 .. n : all[i] = d
    BY <1>2, NewestFirstSorts
<1> HIDE DEF all, n
<1>5. all \in Seq(ds) /\ Len(all) = n
    BY <1>3, <1>4, SeqDef, LenProperties
<1>6. m \in Nat /\ m <= n /\ m <= ServicesShown /\ (m = n \/ m = ServicesShown)
    <2>1. Len(all) \in Int /\ ServicesShown \in Int /\ ServicesShown \in Nat
        BY <1>3, <1>5, ServicesAssumption
    <2>2. m = IF Len(all) <= ServicesShown THEN Len(all) ELSE ServicesShown
        BY <2>1, MinOfTwo
    <2> QED BY <2>1, <2>2, <1>3, <1>5
<1>7. list = SubSeq(all, 1, m)
    BY DEF ServiceList, AtMostShown, all, ds, Matched
<1> HIDE DEF m, list
<1>8. /\ list \in Seq(ds) /\ Len(list) = m /\ DOMAIN list = 1 .. m
      /\ \A i \in 1 .. m : list[i] = all[i]
    <2>1. \A i \in 1 .. m : all[i] \in ds
        BY <1>3, <1>4, <1>6
    <2>2. CASE m = 0
        BY <2>2, <1>5, <1>7, SubSeqProperties
    <2>3. CASE m # 0
        BY <2>1, <2>3, <1>3, <1>5, <1>6, <1>7, SubSeqProperties
    <2> QED BY <2>2, <2>3
<1>9. ToSet(list) = {all[i] : i \in 1 .. m}
    BY <1>8 DEF ToSet
<1>10. ToSet(list) \subseteq ds
    BY <1>3, <1>4, <1>6, <1>9
<1>11. \A i, j \in DOMAIN list : i < j => list[i] > list[j]
    BY <1>3, <1>4, <1>6, <1>8
<1>12. ASSUME NEW d \in ds \ ToSet(list)
       PROVE  Len(list) = ServicesShown /\ \A e \in ToSet(list) : e > d
    <2>1. PICK i \in 1 .. n : all[i] = d
        BY <1>4
    <2>2. i > m
        BY <2>1, <1>3, <1>6, <1>9, <1>12
    <2>3. m = ServicesShown
        BY <2>1, <2>2, <1>3, <1>6
    <2>4. \A j \in 1 .. m : j < i /\ j \in 1 .. n
        BY <2>1, <2>2, <1>3, <1>6
    <2> QED BY <2>1, <2>3, <2>4, <1>4, <1>8, <1>9
<1> QED BY <1>2, <1>6, <1>8, <1>10, <1>11, <1>12 DEF ds, list

(* What else a demand must have to be left out of a laxer list.            *)
LEMMA LaxerMatches ==
    ASSUME NEW f \in ServiceFilter, NEW h \in {Everything, [f EXCEPT !.maxPrice = AnyPrice]}
    PROVE  Matched(f) \subseteq Matched(h)
<1> SUFFICES ASSUME NEW d \in Matched(f) PROVE ServiceMatches(d, h)
    BY DEF Matched
<1>1. ServiceMatches(d, f)
    BY DEF Matched
<1>2. CASE h = Everything
    BY <1>2 DEF Everything, ServiceMatches, AsksForPayment
<1>3. CASE h = [f EXCEPT !.maxPrice = AnyPrice]
    <2>1. /\ h.word = f.word /\ h.state = f.state /\ h.network = f.network /\ h.asset = f.asset
          /\ h.maxPrice = AnyPrice
        BY <1>3 DEF ServiceFilter
    <2>2. AsksForPayment(h) => AsksForPayment(f)
        BY <2>1 DEF AsksForPayment
    <2>3. \A o : Meets(o, f) => Meets(o, h)
        BY <2>1 DEF Meets
    <2> QED BY <1>1, <2>1, <2>2, <2>3 DEF ServiceMatches
<1> QED BY <1>2, <1>3

(* A filter for exactly an offer.                                          *)
LEMMA ExactMatches ==
    ASSUME NEW o \in Offer, NEW d, NEW f,
           f = [Everything EXCEPT !.network = o.network, !.asset = o.asset, !.maxPrice = o.amount]
    PROVE  /\ ServiceMatches(d, f) <=>
                  /\ catalogue[d].state = "compatible"
                  /\ \E p \in catalogue[d].offers :
                         /\ p.network = o.network /\ p.asset = o.asset
                         /\ p.amount <= o.amount
<1>1. /\ f.word = FALSE /\ f.state = "any" /\ f.network = o.network /\ f.asset = o.asset
      /\ f.maxPrice = o.amount
    BY DEF Everything
<1>2. o.network # AnyValue /\ o.asset # AnyValue /\ o.amount # AnyPrice
    BY ServicesAssumption DEF Offer, AnyPrice
<1>3. AsksForPayment(f)
    BY <1>1, <1>2 DEF AsksForPayment
<1>4. \A p : Meets(p, f) <=> p.network = o.network /\ p.asset = o.asset /\ p.amount <= o.amount
    BY <1>1, <1>2 DEF Meets
<1> QED BY <1>1, <1>3, <1>4 DEF ServiceMatches

(* The answers of the API agree with each other, whatever the index has.   *)
LEMMA AnswersAgree == FiltersAgree
<1> SUFFICES ASSUME NEW f \in ServiceFilter
             PROVE  LET list  == ServiceList(f)
                        laxer == {Everything} \cup {[f EXCEPT !.maxPrice = AnyPrice]}
                        exact == {o \in Offer : f = [Everything EXCEPT !.network = o.network,
                                                         !.asset = o.asset, !.maxPrice = o.amount]}
                    IN  /\ \A i, j \in DOMAIN list : i < j => list[i] > list[j]
                        /\ \A h \in laxer :
                              \A d \in ToSet(list) \ ToSet(ServiceList(h)) :
                                  /\ Len(ServiceList(h)) = ServicesShown
                                  /\ \A e \in ToSet(ServiceList(h)) : e > d
                        /\ \A o \in exact, d \in FulfilledDemands :
                              (catalogue[d].state = "compatible" /\ o \in catalogue[d].offers) =>
                                  \/ d \in ToSet(list)
                                  \/ Len(list) = ServicesShown /\ \A e \in ToSet(list) : e > d
                        /\ \A o \in exact, d \in ToSet(list) :
                              /\ catalogue[d].state = "compatible"
                              /\ \E p \in catalogue[d].offers :
                                    p.network = o.network /\ p.asset = o.asset /\ p.amount <= o.amount
    BY DEF FiltersAgree
<1> DEFINE list == ServiceList(f)
           laxer == {Everything} \cup {[f EXCEPT !.maxPrice = AnyPrice]}
           exact == {o \in Offer : f = [Everything EXCEPT !.network = o.network,
                                            !.asset = o.asset, !.maxPrice = o.amount]}
<1>1. \A i, j \in DOMAIN list : i < j => list[i] > list[j]
    BY ListOfNewest
<1>2. ToSet(list) \subseteq Matched(f)
    BY ListOfNewest
<1>3. ASSUME NEW h \in laxer, NEW d \in ToSet(list) \ ToSet(ServiceList(h))
      PROVE  Len(ServiceList(h)) = ServicesShown /\ \A e \in ToSet(ServiceList(h)) : e > d
    <2>1. d \in Matched(h)
        BY <1>2, <1>3, LaxerMatches
    <2> QED BY <1>3, <2>1, ListOfNewest
<1>4. ASSUME NEW o \in exact, NEW d \in FulfilledDemands,
             catalogue[d].state = "compatible", o \in catalogue[d].offers
      PROVE  d \in ToSet(list) \/ (Len(list) = ServicesShown /\ \A e \in ToSet(list) : e > d)
    <2>1. o.amount <= o.amount
        BY ServicesAssumption DEF Offer
    <2>2. ServiceMatches(d, f)
        BY <1>4, <2>1, ExactMatches
    <2>3. d \in Matched(f)
        BY <2>2 DEF Matched
    <2> QED BY <2>3, ListOfNewest
<1>5. ASSUME NEW o \in exact, NEW d \in ToSet(list)
      PROVE  /\ catalogue[d].state = "compatible"
             /\ \E p \in catalogue[d].offers :
                    p.network = o.network /\ p.asset = o.asset /\ p.amount <= o.amount
    <2>1. ServiceMatches(d, f)
        BY <1>2 DEF Matched
    <2> QED BY <2>1, ExactMatches
<1> HIDE DEF list, laxer
<1> QED BY <1>1, <1>3, <1>4, <1>5 DEF list, laxer

-------------------------------------------------------------------------------
AnswerType ==
    [result : {"loading", "error", "ready", "notfound"}, services : SUBSET Candidate]

FetchType ==
    [stage : {"none", "asked", "answered"}, key : Route, aborted : BOOLEAN, answer : AnswerType]

ServicesTypeOK ==
    /\ catalogue \in [Candidate -> [fulfilled : BOOLEAN, named : BOOLEAN,
                                    state : DiscoveryStates, offers : SUBSET Offer]]
    /\ route \in Route
    /\ loaded \in [key : Route, answer : AnswerType]
    /\ fetches \in [FetchId -> FetchType]

(* What has been answered for a route still holds: nothing is unfulfilled. *)
AnswerFits(key, a) ==
    /\ a.result = "ready" =>
           /\ sameDeployment
           /\ key = ListRoute => a.services \subseteq FulfilledDemands
           /\ key # ListRoute => key \in FulfilledDemands /\ a.services = {key}
    /\ a.result = "notfound" => key # ListRoute

(* Only the fetch of the route is not aborted, and until it is answered    *)
(* the page says that it is loading.                                       *)
FetchesSound ==
    \A v \in FetchId :
        fetches[v].stage # "none" =>
            /\ fetches[v].key # InvalidRoute
            /\ ~fetches[v].aborted => fetches[v].key = route
            /\ fetches[v].stage = "answered" =>
                   /\ AnswerFits(fetches[v].key, fetches[v].answer)
                   /\ fetches[v].answer.result # "loading"

PageSound ==
    /\ route # InvalidRoute => loaded.key = route
    /\ AnswerFits(loaded.key, loaded.answer)
    /\ route # InvalidRoute /\ loaded.answer.result = "loading" =>
           \E v \in FetchId : fetches[v].stage # "none" /\ ~fetches[v].aborted

ServicesInv == ServicesTypeOK /\ FetchesSound /\ PageSound

(* A page that shows nothing yet, of an index with any demands.            *)
LEMMA ServicesInvInit == ServicesInit => ServicesInv
<1> SUFFICES ASSUME ServicesInit PROVE ServicesInv
    OBVIOUS
<1>1. catalogue \in [Candidate -> [fulfilled : BOOLEAN, named : BOOLEAN,
                                   state : DiscoveryStates, offers : SUBSET Offer]]
    BY RowAssumption DEF ServicesInit
<1>2. Loading \in AnswerType /\ Loading.result = "loading" /\ InvalidRoute \in Route
    BY DEF Loading, Answer, AnswerType, Route
<1>3. NoFetch \in FetchType /\ NoFetch.stage = "none"
    BY <1>2 DEF NoFetch, FetchType
<1>4. ServicesTypeOK
    BY <1>1, <1>2, <1>3 DEF ServicesInit, ServicesTypeOK
<1>5. FetchesSound
    BY <1>3 DEF ServicesInit, FetchesSound
<1>6. PageSound
    BY <1>2 DEF ServicesInit, PageSound, AnswerFits
<1> QED BY <1>4, <1>5, <1>6 DEF ServicesInv

(* The page goes elsewhere.                                                *)
LEMMA GoToKeeps ==
    ASSUME ServicesInv, NEW key \in Route, GoTo(key)
    PROVE  ServicesInv'
<1>1. ServicesTypeOK /\ FetchesSound /\ PageSound
    BY DEF ServicesInv
<1>2. PICK v \in FetchId :
          /\ fetches[v].stage = "none" /\ route' = key
          /\ fetches' =
                [w \in FetchId |->
                    IF w = v /\ key # InvalidRoute
                    THEN [stage |-> "asked", key |-> key, aborted |-> FALSE, answer |-> Loading]
                    ELSE [fetches[w] EXCEPT !.aborted = fetches[w].stage # "none"]]
    BY DEF GoTo
<1>3. /\ loaded' = IF key = InvalidRoute THEN loaded ELSE [key |-> key, answer |-> Loading]
      /\ UNCHANGED <<catalogue, sameDeployment>>
    BY DEF GoTo
<1>4. Loading \in AnswerType /\ Loading.result = "loading"
    BY DEF Loading, Answer, AnswerType
<1> HIDE DEF Loading
<1>5. ASSUME NEW w \in FetchId, w = v /\ key # InvalidRoute
      PROVE  /\ fetches'[w] \in FetchType
             /\ fetches'[w].stage = "asked" /\ fetches'[w].key = key /\ ~fetches'[w].aborted
    BY <1>2, <1>4, <1>5 DEF FetchType
<1>6. ASSUME NEW w \in FetchId, ~(w = v /\ key # InvalidRoute)
      PROVE  /\ fetches'[w] \in FetchType
             /\ fetches'[w].stage = fetches[w].stage /\ fetches'[w].key = fetches[w].key
             /\ fetches'[w].answer = fetches[w].answer
             /\ fetches'[w].aborted <=> fetches[w].stage # "none"
    <2>1. fetches[w] \in FetchType
        BY <1>1 DEF ServicesTypeOK
    <2>2. fetches'[w] = [fetches[w] EXCEPT !.aborted = fetches[w].stage # "none"]
        BY <1>2, <1>6
    <2> QED BY <2>1, <2>2 DEF FetchType
<1>7. ServicesTypeOK'
    <2>1. \A w \in FetchId : fetches'[w] \in FetchType
        BY <1>5, <1>6
    <2>2. fetches' \in [FetchId -> FetchType]
        BY <2>1, <1>2
    <2>3. loaded' \in [key : Route, answer : AnswerType]
        BY <1>1, <1>3, <1>4 DEF ServicesTypeOK
    <2> QED BY <2>2, <2>3, <1>1, <1>2, <1>3 DEF ServicesTypeOK
<1>8. FulfilledDemands' = FulfilledDemands
    BY <1>3 DEF FulfilledDemands
<1>9. FetchesSound'
    <2> SUFFICES ASSUME NEW w \in FetchId, fetches'[w].stage # "none"
                 PROVE  /\ fetches'[w].key # InvalidRoute
                        /\ ~fetches'[w].aborted => fetches'[w].key = route'
                        /\ fetches'[w].stage = "answered" =>
                               /\ AnswerFits(fetches[w].key, fetches[w].answer)'
                               /\ fetches'[w].answer.result # "loading"
        BY DEF FetchesSound
    <2>1. CASE w = v /\ key # InvalidRoute
        BY <2>1, <1>2, <1>5
    <2>2. CASE ~(w = v /\ key # InvalidRoute)
        BY <2>2, <1>1, <1>3, <1>6, <1>8 DEF FetchesSound, AnswerFits
    <2> QED BY <2>1, <2>2
<1>10. PageSound'
    <2>1. CASE key = InvalidRoute
        BY <2>1, <1>1, <1>2, <1>3, <1>8 DEF PageSound, AnswerFits
    <2>2. CASE key # InvalidRoute
        <3>1. loaded'.key = key /\ loaded'.answer = Loading
            BY <2>2, <1>3
        <3>2. fetches'[v].stage # "none" /\ ~fetches'[v].aborted
            BY <2>2, <1>5
        <3> QED BY <3>1, <3>2, <1>2, <1>4 DEF PageSound, AnswerFits
    <2> QED BY <2>1, <2>2
<1> QED BY <1>7, <1>9, <1>10 DEF ServicesInv

(* The API answers from the index as it is then.                           *)
LEMMA RespondKeeps ==
    ASSUME ServicesInv, NEW v \in FetchId, Respond(v)
    PROVE  ServicesInv'
<1>1. ServicesTypeOK /\ FetchesSound /\ PageSound
    BY DEF ServicesInv
<1> DEFINE key == fetches[v].key
<1>2. PICK a \in ResponseTo(key) \cup {Failed} :
          fetches' = [fetches EXCEPT ![v].stage = "answered", ![v].answer = a]
    BY DEF Respond
<1>3. fetches[v].stage = "asked" /\ UNCHANGED <<catalogue, sameDeployment, route, loaded>>
    BY DEF Respond
<1>4. key \in Route /\ key # InvalidRoute
    BY <1>1, <1>3 DEF ServicesTypeOK, FetchType, FetchesSound
<1>5. key = ListRoute \/ key \in Candidate
    BY <1>4 DEF Route
<1>6. ListRoute \notin Candidate
    BY ServicesAssumption DEF ListRoute
<1>7. /\ a \in AnswerType /\ a.result # "loading"
      /\ AnswerFits(key, a)
    <2>1. ToSet(ServiceList(Everything)) \subseteq FulfilledDemands /\ FulfilledDemands \subseteq Candidate
        BY ListOfNewest DEF Matched, FulfilledDemands
    <2>2. CASE a = Failed
        BY <2>2 DEF Failed, Answer, AnswerType, AnswerFits
    <2>3. CASE a \in ResponseTo(key) /\ key = ListRoute /\ ~sameDeployment
        <3>1. a = Failed
            BY <2>3, <1>6 DEF ResponseTo
        <3> QED BY <3>1, <2>2
    <2>4. CASE a \in ResponseTo(key) /\ key = ListRoute /\ sameDeployment
        <3>1. a = Answer("ready", ToSet(ServiceList(Everything)))
            BY <2>4, <2>1, <1>6 DEF ResponseTo
        <3> QED BY <3>1, <2>1, <2>4 DEF Answer, AnswerType, AnswerFits
    <2>5. CASE a \in ResponseTo(key) /\ key \in Candidate /\ ~sameDeployment
        <3>1. a \in {Failed, Answer("notfound", {})}
            BY <2>5, <1>6 DEF ResponseTo
        <3> QED BY <3>1, <2>2, <2>5, <1>6 DEF Answer, AnswerType, AnswerFits
    <2>6. CASE a \in ResponseTo(key) /\ key \in FulfilledDemands /\ sameDeployment
        <3>1. a = Answer("ready", {key})
            BY <2>1, <2>6, <1>6 DEF ResponseTo
        <3> QED BY <3>1, <2>1, <2>6, <1>6 DEF Answer, AnswerType, AnswerFits
    <2>7. CASE a \in ResponseTo(key) /\ key \in Candidate \ FulfilledDemands /\ sameDeployment
        <3>1. a = Answer("notfound", {})
            BY <2>7, <1>6 DEF ResponseTo
        <3> QED BY <3>1, <2>7, <1>6 DEF Answer, AnswerType, AnswerFits
    <2> QED BY <2>2, <2>3, <2>4, <2>5, <2>6, <2>7, <1>5
<1>8. /\ fetches'[v].stage = "answered" /\ fetches'[v].answer = a /\ fetches'[v].key = key
      /\ fetches'[v].aborted = fetches[v].aborted
      /\ fetches'[v] \in FetchType
      /\ \A w \in FetchId \ {v} : fetches'[w] = fetches[w]
      /\ fetches' \in [FetchId -> FetchType]
    <2>1. fetches[v] \in FetchType /\ fetches \in [FetchId -> FetchType]
        BY <1>1 DEF ServicesTypeOK
    <2>2. fetches'[v] = [fetches[v] EXCEPT !.stage = "answered", !.answer = a]
        BY <2>1, <1>2
    <2>3. fetches'[v] \in FetchType
        BY <2>1, <2>2, <1>7 DEF FetchType
    <2>4. /\ fetches'[v].stage = "answered" /\ fetches'[v].answer = a
          /\ fetches'[v].key = fetches[v].key /\ fetches'[v].aborted = fetches[v].aborted
        BY <2>1, <2>2 DEF FetchType
    <2>5. \A w \in FetchId \ {v} : fetches'[w] = fetches[w]
        BY <2>1, <1>2
    <2>6. DOMAIN fetches' = FetchId
        BY <2>1, <1>2
    <2>7. fetches' = [w \in FetchId |-> fetches'[w]]
        BY <2>1, <1>2
    <2>8. \A w \in FetchId : fetches'[w] \in FetchType
        BY <2>1, <2>3, <2>5
    <2> HIDE DEF key
    <2>9. fetches' \in [FetchId -> FetchType]
        BY <2>7, <2>8
    <2> QED BY <2>3, <2>4, <2>5, <2>9 DEF key
<1>9. ServicesTypeOK'
    BY <1>1, <1>3, <1>8 DEF ServicesTypeOK
<1>10. FulfilledDemands' = FulfilledDemands
    BY <1>3 DEF FulfilledDemands
<1>11. FetchesSound'
    BY <1>1, <1>3, <1>4, <1>7, <1>8, <1>10 DEF FetchesSound, AnswerFits
<1>12. PageSound'
    BY <1>1, <1>3, <1>8, <1>10 DEF PageSound, AnswerFits
<1> QED BY <1>9, <1>11, <1>12 DEF ServicesInv

(* A fetch ends, and the page takes its answer unless it was aborted.      *)
LEMMA AnswerArrivesKeeps ==
    ASSUME ServicesInv, NEW v \in FetchId, AnswerArrives(v)
    PROVE  ServicesInv'
<1>1. ServicesTypeOK /\ FetchesSound /\ PageSound
    BY DEF ServicesInv
<1>2. /\ fetches[v].stage # "none" /\ (fetches[v].stage = "answered" \/ fetches[v].aborted)
      /\ fetches' = [fetches EXCEPT ![v] = NoFetch]
      /\ UNCHANGED <<catalogue, sameDeployment, route>>
      /\ loaded' = IF fetches[v].aborted THEN loaded
                   ELSE [key |-> fetches[v].key, answer |-> fetches[v].answer]
    BY DEF AnswerArrives, Ends
<1>3. NoFetch \in FetchType /\ NoFetch.stage = "none"
    BY DEF NoFetch, FetchType, Loading, Answer, AnswerType, Route
<1>4. fetches[v] \in FetchType /\ fetches \in [FetchId -> FetchType]
    BY <1>1 DEF ServicesTypeOK
<1>5. /\ fetches' \in [FetchId -> FetchType] /\ fetches'[v].stage = "none"
      /\ \A w \in FetchId \ {v} : fetches'[w] = fetches[w]
    BY <1>2, <1>3, <1>4
<1>6. ServicesTypeOK'
    BY <1>1, <1>2, <1>4, <1>5 DEF ServicesTypeOK, FetchType
<1>7. FulfilledDemands' = FulfilledDemands
    BY <1>2 DEF FulfilledDemands
<1>8. FetchesSound'
    BY <1>1, <1>2, <1>5, <1>7 DEF FetchesSound, AnswerFits
<1>9. PageSound'
    <2>1. CASE fetches[v].aborted
        BY <2>1, <1>1, <1>2, <1>5, <1>7 DEF PageSound, AnswerFits
    <2>2. CASE ~fetches[v].aborted
        <3>1. /\ fetches[v].key = route /\ AnswerFits(fetches[v].key, fetches[v].answer)
              /\ fetches[v].answer.result # "loading"
            BY <2>2, <1>1, <1>2 DEF FetchesSound
        <3>2. loaded'.key = route /\ loaded'.answer = fetches[v].answer
            BY <3>1, <2>2, <1>2
        <3> QED BY <3>1, <3>2, <1>2, <1>7 DEF PageSound, AnswerFits
    <2> QED BY <2>1, <2>2
<1> QED BY <1>6, <1>8, <1>9 DEF ServicesInv

(* A demand is fulfilled.                                                  *)
LEMMA FulfilledKeeps ==
    ASSUME ServicesInv, NEW d \in Candidate, BecomesFulfilled(d)
    PROVE  ServicesInv'
<1>1. ServicesTypeOK /\ FetchesSound /\ PageSound
    BY DEF ServicesInv
<1>2. /\ catalogue' = [catalogue EXCEPT ![d].fulfilled = TRUE]
      /\ UNCHANGED <<sameDeployment, route, loaded, fetches>>
    BY DEF BecomesFulfilled
<1>3. ServicesTypeOK'
    BY <1>1, <1>2 DEF ServicesTypeOK
<1>4. FulfilledDemands \subseteq FulfilledDemands'
    BY <1>1, <1>2 DEF FulfilledDemands, ServicesTypeOK
<1>5. \A key, a : AnswerFits(key, a) => AnswerFits(key, a)'
    BY <1>2, <1>4 DEF AnswerFits
<1>6. FetchesSound'
    BY <1>1, <1>2, <1>5 DEF FetchesSound
<1>7. PageSound'
    BY <1>1, <1>2, <1>5 DEF PageSound
<1> QED BY <1>3, <1>6, <1>7 DEF ServicesInv

(* Every step of the page, of the API and of its index keeps it.           *)
LEMMA ServicesInvStep == ServicesInv /\ [ServicesNext]_servicesVars => ServicesInv'
<1> SUFFICES ASSUME ServicesInv, [ServicesNext]_servicesVars PROVE ServicesInv'
    OBVIOUS
<1>1. CASE UNCHANGED servicesVars
    BY <1>1 DEF servicesVars, ServicesInv, ServicesTypeOK, FetchesSound, PageSound, AnswerFits,
                FulfilledDemands
<1> QED BY <1>1, GoToKeeps, RespondKeeps, AnswerArrivesKeeps, FulfilledKeeps DEF ServicesNext

(* What the page shows of the services is of its route and fulfilled, and  *)
(* it waits only for what is still to come; and the lists of the API agree *)
(* with each other, for any services, offers, filters and fetches.         *)
THEOREM ServicesTellTruth == ServicesSpec => [](FiltersAgree /\ PageIsOfRoute)
<1>1. ServicesInv => PageIsOfRoute
    <2> SUFFICES ASSUME ServicesInv, NEW word \in BOOLEAN
                 PROVE  /\ PageShows(word) = "service" =>
                               /\ PageAnswer.services = {route}
                               /\ sameDeployment /\ route \in FulfilledDemands
                        /\ PageShows(word) \in {"list", "no match"} =>
                               sameDeployment /\ PageAnswer.services \subseteq FulfilledDemands
                        /\ PageShows(word) = "loading" =>
                               \E v \in FetchId : /\ fetches[v].stage # "none" /\ ~fetches[v].aborted
                                                  /\ fetches[v].key = route
                        /\ PageShows(word) = "notfound" => route # ListRoute
        BY DEF PageIsOfRoute
    <2>1. ServicesTypeOK /\ FetchesSound /\ PageSound
        BY DEF ServicesInv
    <2>2. route = InvalidRoute \/ route = ListRoute \/ route \in Candidate
        BY <2>1 DEF ServicesTypeOK, Route
    <2>3. ListRoute # InvalidRoute /\ ListRoute \notin Candidate /\ InvalidRoute \notin Candidate
        BY ServicesAssumption DEF ListRoute, InvalidRoute
    <2>4. CASE route = InvalidRoute
        <3>1. PageShows(word) = "invalid"
            BY <2>3, <2>4 DEF PageShows
        <3> QED BY <3>1
    <2>5. CASE route # InvalidRoute
        <3>1. /\ PageAnswer = loaded.answer /\ AnswerFits(route, PageAnswer)
              /\ PageAnswer.result \in {"loading", "error", "ready", "notfound"}
            BY <2>1, <2>5 DEF PageAnswer, PageSound, ServicesTypeOK, AnswerType
        <3>2. CASE PageAnswer.result # "ready"
            <4>1. PageShows(word) = PageAnswer.result
                BY <2>5, <3>2 DEF PageShows
            <4> QED BY <4>1, <3>1, <3>2, <2>1, <2>5 DEF AnswerFits, FetchesSound, PageSound
        <3>3. CASE PageAnswer.result = "ready" /\ route \in Candidate
            <4>1. PageShows(word) = "service"
                BY <2>3, <2>5, <3>3 DEF PageShows
            <4> QED BY <4>1, <3>1, <3>3, <2>3 DEF AnswerFits
        <3>4. CASE PageAnswer.result = "ready" /\ route = ListRoute
            <4>1. PageShows(word) \in {"no services", "no match", "list"}
                BY <2>3, <2>5, <3>4 DEF PageShows
            <4> QED BY <4>1, <3>1, <3>4 DEF AnswerFits
        <3> QED BY <2>2, <2>5, <3>2, <3>3, <3>4
    <2> QED BY <2>4, <2>5
<1> QED BY <1>1, AnswersAgree, ServicesInvInit, ServicesInvStep, PTL DEF ServicesSpec

-------------------------------------------------------------------------------
(* The ranking.                                                            *)

RankingSpec == RankingInit /\ [][Evaluate]_rankingVars

(* Where the binary search ends: c values are smaller.                     *)
EndsAt(c, l, h) == IF l >= h THEN l ELSE IF c < l THEN l ELSE IF c > h THEN h ELSE c

(* The binary search finds how many values are smaller.                    *)
LEMMA LowerBoundCounts ==
    ASSUME NEW n \in Nat, NEW s, Len(s) = n, \A i \in 1 .. n : s[i] \in Int,
           NEW v \in Int, NEW c \in 0 .. n, \A i \in 1 .. n : s[i] < v <=> i <= c
    PROVE  LowerBound(s, v) = c
<1> DEFINE D == (0 .. Len(s)) \X (0 .. Len(s))
           mid(lh) == (lh[1] + lh[2]) \div 2
           B(f, lh) == IF lh[1] >= lh[2] THEN lh[1]
                       ELSE IF s[mid(lh) + 1] < v THEN f[<<mid(lh) + 1, lh[2]>>]
                                                  ELSE f[<<lh[1], mid(lh)>>]
           F == CHOOSE f : f = [lh \in D |-> B(f, lh)]
           g == [lh \in D |-> EndsAt(c, lh[1], lh[2])]
<1>1. LowerBound(s, v) = F[<<0, Len(s)>>]
    BY DEF LowerBound
<1>2. ASSUME NEW l \in 0 .. n, NEW h \in 0 .. n, l < h
      PROVE  /\ mid(<<l, h>>) \in 0 .. n /\ mid(<<l, h>>) + 1 \in 1 .. n
             /\ l <= mid(<<l, h>>) /\ mid(<<l, h>>) < h
    <2>1. l + h \in Nat /\ 2 \in Nat \ {0}
        OBVIOUS
    <2>4. /\ (l + h) \div 2 \in Nat /\ (l + h) % 2 \in 0 .. 2 - 1
          /\ l + h = 2 * ((l + h) \div 2) + ((l + h) % 2)
        BY <2>1, DivFacts
    <2>2. PICK q \in Nat, x \in 0 .. 1 : q = (l + h) \div 2 /\ l + h = 2 * q + x
        BY <2>4
    <2>3. mid(<<l, h>>) = q
        BY <2>2
    <2> HIDE DEF mid
    <2> QED BY <2>2, <2>3, <1>2
<1> HIDE DEF mid
<1>3. ASSUME NEW l \in 0 .. n, NEW h \in 0 .. n
      PROVE  g[<<l, h>>] = EndsAt(c, l, h)
    OBVIOUS
<1>4. ASSUME NEW l \in 0 .. n, NEW h \in 0 .. n
      PROVE  g[<<l, h>>] = B(g, <<l, h>>)
    <2>1. CASE l >= h
        BY <1>3, <2>1 DEF EndsAt
    <2>2. CASE l < h
        <3> DEFINE m == mid(<<l, h>>)
        <3>1. m \in 0 .. n /\ m + 1 \in 1 .. n /\ l <= m /\ m < h
            BY <1>2, <2>2
        <3> HIDE DEF m
        <3>2. s[m + 1] < v <=> m + 1 <= c
            BY <3>1
        <3>3. g[<<m + 1, h>>] = EndsAt(c, m + 1, h) /\ g[<<l, m>>] = EndsAt(c, l, m)
            BY <1>3, <3>1
        <3>4. B(g, <<l, h>>) = IF s[m + 1] < v THEN g[<<m + 1, h>>] ELSE g[<<l, m>>]
            BY <2>2 DEF m
        <3>5. CASE m + 1 <= c
            <4>1. g[<<l, h>>] = EndsAt(c, l, h) /\ B(g, <<l, h>>) = EndsAt(c, m + 1, h)
                BY <3>2, <3>3, <3>4, <3>5, <1>3
            <4> HIDE DEF g, B
            <4> QED BY <4>1, <3>1, <3>5, <2>2 DEF EndsAt
        <3>6. CASE ~(m + 1 <= c)
            <4>1. g[<<l, h>>] = EndsAt(c, l, h) /\ B(g, <<l, h>>) = EndsAt(c, l, m)
                BY <3>2, <3>3, <3>4, <3>6, <1>3
            <4> HIDE DEF g, B
            <4> QED BY <4>1, <3>1, <3>6, <2>2 DEF EndsAt
        <3> QED BY <3>5, <3>6
    <2> QED BY <2>1, <2>2
<1>5. g = [lh \in D |-> B(g, lh)]
    <2>1. ASSUME NEW lh \in D PROVE g[lh] = B(g, lh)
        <3>1. PICK l \in 0 .. n, h \in 0 .. n : lh = <<l, h>>
            OBVIOUS
        <3> HIDE DEF g, B
        <3> QED BY <3>1, <1>4
    <2>2. g = [lh \in D |-> g[lh]]
        OBVIOUS
    <2> HIDE DEF g, B
    <2> QED BY <2>1, <2>2
<1>6. F = [lh \in D |-> B(F, lh)]
    <2> HIDE DEF g
    <2>1. \E f : f = [lh \in D |-> B(f, lh)]
        BY <1>5
    <2> HIDE DEF B, D
    <2> QED BY <2>1
<1> HIDE DEF F
<1> DEFINE Same(k) == \A l, h \in 0 .. n : h - l <= k => F[<<l, h>>] = g[<<l, h>>]
           K == {k \in Nat : Same(k)}
<1>7. ASSUME NEW l \in 0 .. n, NEW h \in 0 .. n PROVE F[<<l, h>>] = B(F, <<l, h>>)
    <2>1. <<l, h>> \in D
        OBVIOUS
    <2> HIDE DEF B, D
    <2> QED BY <2>1, <1>6
<1>8. 0 \in K
    <2> SUFFICES ASSUME NEW l \in 0 .. n, NEW h \in 0 .. n, h - l <= 0
                 PROVE  F[<<l, h>>] = g[<<l, h>>]
        OBVIOUS
    <2>1. l >= h
        OBVIOUS
    <2>2. F[<<l, h>>] = l
        BY <2>1, <1>7
    <2> QED BY <2>1, <2>2, <1>3 DEF EndsAt
<1>9. ASSUME NEW k \in Nat, k \in K PROVE k + 1 \in K
    <2>1. ASSUME NEW l \in 0 .. n, NEW h \in 0 .. n, h - l <= k + 1
          PROVE  F[<<l, h>>] = g[<<l, h>>]
        <3>1. CASE l >= h
            <4>1. F[<<l, h>>] = l
                BY <3>1, <1>7
            <4> QED BY <3>1, <4>1, <1>3 DEF EndsAt
        <3>2. CASE l < h
            <4> DEFINE m == mid(<<l, h>>)
            <4>1. m \in 0 .. n /\ m + 1 \in 0 .. n /\ l <= m /\ m < h
                BY <1>2, <3>2
            <4>2. B(F, <<l, h>>) = (IF s[m + 1] < v THEN F[<<m + 1, h>>] ELSE F[<<l, m>>])
                  /\ B(g, <<l, h>>) = (IF s[m + 1] < v THEN g[<<m + 1, h>>] ELSE g[<<l, m>>])
                BY <3>2
            <4> HIDE DEF m, B, g
            <4>3. h - (m + 1) <= k /\ m - l <= k
                BY <2>1, <4>1
            <4>4. F[<<m + 1, h>>] = g[<<m + 1, h>>] /\ F[<<l, m>>] = g[<<l, m>>]
                BY <4>1, <4>3, <1>9
            <4> QED BY <4>2, <4>4, <1>4, <1>7
        <3> QED BY <3>1, <3>2
    <2>2. Same(k + 1)
        BY <2>1
    <2> HIDE DEF Same
    <2> QED BY <2>2
<1>10. n \in K
    <2> HIDE DEF K
    <2>1. Nat \subseteq K
        BY <1>8, <1>9, NatSetInduction
    <2> QED BY <2>1
<1>11. F[<<0, n>>] = EndsAt(c, 0, n)
    <2>1. 0 \in 0 .. n /\ n \in 0 .. n /\ n - 0 <= n
        OBVIOUS
    <2> QED BY <2>1, <1>3, <1>10
<1>12. EndsAt(c, 0, n) = c
    BY DEF EndsAt
<1> QED BY <1>1, <1>11, <1>12

(* What is known of the demands in the ranking.                            *)
RankingTypeOK == entries \in [DemandId -> Factors]

(* The four factors of a demand are numbers; freshness has its horizon.    *)
LEMMA FactorsAre ==
    ASSUME RankingTypeOK
    PROVE  /\ Matching \subseteq DemandId /\ IsFiniteSet(Matching) /\ Size \in Nat
           /\ \A d \in DemandId :
                  /\ d \in Nat
                  /\ \A factor \in Economic : entries[d][factor] \in Nat
                  /\ Funding(d) = entries[d]["committed"] /\ Funding(d) \in Nat
                  /\ Calls(d) = entries[d]["calls"] /\ Calls(d) \in Nat
                  /\ Supporters(d) = entries[d]["supporters"] /\ Supporters(d) \in Nat
                  /\ entries[d].deadline \in Nat /\ Freshness(d) \in 0 .. Horizon
<1>1. Matching \in SUBSET DemandId
    BY DEF Matching
<1>2. IsFiniteSet(Matching) /\ Size \in Nat
    BY <1>1, RankingAssumption, FS_Subset, FS_CardinalityType DEF Size
<1>3. ASSUME NEW d \in DemandId
      PROVE  /\ d \in Nat
             /\ entries[d] \in [committed: Nat, calls: Nat, supporters: Nat, deadline: Nat,
                                status: Status]
    BY RankingAssumption DEF RankingTypeOK
<1>4. ASSUME NEW d \in DemandId
      PROVE  /\ \A factor \in Economic : entries[d][factor] \in Nat
             /\ Funding(d) = entries[d]["committed"] /\ Funding(d) \in Nat
             /\ Calls(d) = entries[d]["calls"] /\ Calls(d) \in Nat
             /\ Supporters(d) = entries[d]["supporters"] /\ Supporters(d) \in Nat
             /\ entries[d].deadline \in Nat /\ Freshness(d) \in 0 .. Horizon
    <2>1. /\ entries[d].committed \in Nat /\ entries[d].calls \in Nat
          /\ entries[d].supporters \in Nat /\ entries[d].deadline \in Nat
        BY <1>3
    <2>2. Freshness(d) \in 0 .. Horizon
        BY <2>1, RankingAssumption DEF Freshness, Remaining
    <2> QED BY <2>1, <2>2 DEF Economic, Funding, Calls, Supporters
<1> QED BY <1>1, <1>2, <1>3, <1>4

SmallerThan(factor, d) == {e \in Matching : entries[e][factor] < entries[d][factor]}

(* A percentile counts the demands with less of the factor.                *)
LEMMA PercentileCounts ==
    ASSUME RankingTypeOK, NEW d \in Matching, NEW factor \in Economic
    PROVE  /\ IsFiniteSet(SmallerThan(factor, d))
           /\ Cardinality(SmallerThan(factor, d)) \in 0 .. Size - 1
           /\ Percentile(factor, d) =
                  IF Size = 1 THEN 1 ELSE Cardinality(SmallerThan(factor, d))
<1> DEFINE n == Cardinality(Matching)
           R == Lesser(factor)
           value(e) == entries[e][factor]
           B == SmallerThan(factor, d)
           c == Cardinality(B)
           list == InOrder(Matching, R)
           s == [i \in DOMAIN list |-> value(list[i])]
<1>1. IsFiniteSet(Matching) /\ n \in Nat /\ Size = n
    BY FactorsAre DEF Size
<1>2. \A e \in Matching : value(e) \in Nat /\ e \in Nat
    BY FactorsAre
<1> HIDE DEF value
<1>3. \A e, f \in Matching :
          <<e, f>> \in R <=> value(e) < value(f) \/ (value(e) = value(f) /\ e < f)
    BY DEF Lesser, value
<1>4. Orders(R, Matching)
    <2> HIDE DEF R
    <2>1. \A e \in Matching : <<e, e>> \notin R
        BY <1>2, <1>3
    <2>2. ASSUME NEW e \in Matching, NEW f \in Matching
          PROVE  e = f \/ <<e, f>> \in R \/ <<f, e>> \in R
        <3>1. /\ <<e, f>> \in R <=> value(e) < value(f) \/ (value(e) = value(f) /\ e < f)
              /\ <<f, e>> \in R <=> value(f) < value(e) \/ (value(f) = value(e) /\ f < e)
            BY <1>3
        <3>2. value(e) \in Nat /\ value(f) \in Nat /\ e \in Nat /\ f \in Nat
            BY <1>2
        <3>3. e = f \/ e < f \/ f < e
            BY <3>2
        <3>4. value(e) < value(f) \/ value(f) < value(e) \/ value(e) = value(f)
            BY <3>2
        <3> QED BY <3>1, <3>3, <3>4, Zenon
    <2>3. \A e, f, g \in Matching : <<e, f>> \in R /\ <<f, g>> \in R => <<e, g>> \in R
        BY <1>2, <1>3
    <2> QED BY <2>1, <2>2, <2>3 DEF Orders
<1> HIDE DEF R, n
<1>5. /\ list \in [1 .. n -> Matching]
      /\ \A e \in Matching : \E i \in 1 .. n : list[i] = e
      /\ \A i \in 1 .. n : Cardinality(AheadOf(Matching, R, list[i])) = i - 1
    BY <1>1, <1>4, InOrderIs DEF n
<1>6. DOMAIN list = 1 .. n /\ \A i \in 1 .. n : list[i] \in Matching
    BY <1>5
<1> HIDE DEF list
<1>7. B \in SUBSET Matching /\ d \notin B /\ \A e \in Matching : e \in B <=> value(e) < value(d)
    BY <1>2 DEF SmallerThan, value
<1> HIDE DEF B
<1>8. IsFiniteSet(B) /\ c \in Nat /\ c <= n /\ c # n
    <2>1. B # Matching
        BY <1>7
    <2> QED BY <2>1, <1>1, <1>7, FS_Subset, FS_CardinalityType DEF n
<1>9. ASSUME NEW i \in 1 .. n PROVE value(list[i]) < value(d) <=> i <= c
    <2> DEFINE A == AheadOf(Matching, R, list[i])
    <2>1. list[i] \in Matching /\ Cardinality(A) = i - 1 /\ i \in Nat
        BY <1>5, <1>6, <1>1
    <2>2. A \in SUBSET Matching /\ list[i] \notin A /\ IsFiniteSet(A)
        <3>1. A \in SUBSET Matching /\ list[i] \notin A
            BY <2>1, <1>4 DEF AheadOf, Orders
        <3> QED BY <3>1, <1>1, FS_Subset
    <2>3. \A e \in Matching : e \in A <=> <<e, list[i]>> \in R
        BY DEF AheadOf
    <2> HIDE DEF A
    <2>4. CASE value(list[i]) < value(d)
        <3>0. ASSUME NEW e \in A PROVE e \in B
            <4>1. e \in Matching /\ <<e, list[i]>> \in R
                BY <2>2, <2>3
            <4>2. value(e) <= value(list[i])
                BY <4>1, <2>1, <1>2, <1>3
            <4>3. value(e) \in Nat /\ value(list[i]) \in Nat /\ value(d) \in Nat
                BY <4>1, <2>1, <1>2
            <4>4. value(e) < value(d)
                BY <4>2, <4>3, <2>4
            <4> QED BY <4>1, <4>4, <1>7
        <3>1. A \in SUBSET B /\ list[i] \in B
            BY <3>0, <2>1, <2>4, <1>7
        <3>2. A # B
            BY <3>1, <2>2
        <3>3. Cardinality(A) <= c /\ Cardinality(A) # c
            BY <3>1, <3>2, <1>8, FS_Subset
        <3> QED BY <3>3, <2>1, <2>4, <1>8
    <2>5. CASE ~(value(list[i]) < value(d))
        <3>0. ASSUME NEW e \in B PROVE e \in A
            <4>1. e \in Matching /\ value(e) < value(d)
                BY <1>7
            <4>2. value(e) \in Nat /\ value(list[i]) \in Nat /\ value(d) \in Nat
                BY <4>1, <2>1, <1>2
            <4>3. value(e) < value(list[i])
                BY <4>1, <4>2, <2>5
            <4> QED BY <4>1, <4>3, <2>1, <2>3, <1>3
        <3>1. B \in SUBSET A
            BY <3>0
        <3>2. c <= Cardinality(A)
            BY <3>1, <2>2, FS_Subset
        <3> QED BY <3>2, <2>1, <2>5, <1>8
    <2> QED BY <2>4, <2>5
<1>10. Size # 1 => LowerBound(s, value(d)) = c
    <2>1. s \in [1 .. n -> Nat] /\ \A i \in 1 .. n : s[i] = value(list[i])
        BY <1>2, <1>6
    <2> HIDE DEF s
    <2>2. s \in Seq(Nat)
        BY <2>1, <1>1
    <2>3. Len(s) = n
        BY <2>1, <2>2, <1>1
    <2>4. /\ \A i \in 1 .. n : s[i] \in Int /\ (s[i] < value(d) <=> i <= c)
          /\ value(d) \in Int /\ c \in 0 .. n
        BY <2>1, <1>2, <1>8, <1>9, <1>1
    <2> QED BY <2>3, <2>4, <1>1, LowerBoundCounts
<1>11. Percentile(factor, d) = IF Size = 1 THEN 1 ELSE LowerBound(s, value(d))
    BY DEF Percentile, Sorted, list, R, value
<1> QED BY <1>1, <1>8, <1>10, <1>11 DEF B

(* A product grows with its factor.                                        *)
LEMMA ProductGrows ==
    ASSUME NEW m \in Nat, NEW a \in Nat, NEW b \in Nat, a <= b
    PROVE  m * a \in Nat /\ m * b \in Nat /\ m * a <= m * b
OBVIOUS

(* A percentile is a share of the peers.                                   *)
LEMMA PercentileBounds ==
    ASSUME RankingTypeOK, NEW d \in Matching, NEW factor \in Economic
    PROVE  Size \in Nat \ {0} /\ Peers \in Nat \ {0} /\ Percentile(factor, d) \in 0 .. Peers
<1>1. /\ Size \in Nat /\ Cardinality(SmallerThan(factor, d)) \in 0 .. Size - 1
      /\ Percentile(factor, d) = IF Size = 1 THEN 1 ELSE Cardinality(SmallerThan(factor, d))
    BY FactorsAre, PercentileCounts
<1>2. Peers = IF Size > 1 THEN Size - 1 ELSE 1
    BY DEF Peers
<1> QED BY <1>1, <1>2

(* A score lies between nothing and the full one.                          *)
LEMMA ScoreBounds ==
    ASSUME RankingTypeOK, NEW d \in Matching
    PROVE  /\ Score(d) \in 0 .. FullScore /\ FullScore \in Nat
<1> DEFINE p == Percentile("committed", d)
           q == Percentile("calls", d)
           r == Percentile("supporters", d)
<1>1. p \in 0 .. Peers /\ q \in 0 .. Peers /\ r \in 0 .. Peers /\ Peers \in Nat
    BY PercentileBounds DEF Economic
<1>2. Freshness(d) \in 0 .. Horizon /\ Horizon \in Nat
    BY FactorsAre, RankingAssumption
<1>3. Score(d) = Horizon * (10 * p + 5 * q + 3 * r) + 2 * Peers * Freshness(d)
    BY DEF Score
<1>4. FullScore = 20 * Horizon * Peers
    BY DEF FullScore
<1> HIDE DEF p, q, r
<1>5. PICK x \in Nat : x = 10 * p + 5 * q + 3 * r /\ x <= 18 * Peers
    BY <1>1
<1>6. PICK y \in Nat : y = Horizon * x /\ y <= Horizon * (18 * Peers)
    <2>1. 18 * Peers \in Nat /\ Horizon \in Nat
        BY <1>1, <1>2
    <2> QED BY <2>1, <1>5, ProductGrows
<1>7. PICK z \in Nat : z = (2 * Peers) * Freshness(d) /\ z <= (2 * Peers) * Horizon
    BY <1>1, <1>2, ProductGrows
<1>8. PICK w \in Nat : w = Horizon * Peers
    BY <1>1, <1>2
<1>9. Horizon * (18 * Peers) = 18 * w /\ (2 * Peers) * Horizon = 2 * w
      /\ 20 * Horizon * Peers = 20 * w
    BY <1>1, <1>2, <1>8
<1>10. Score(d) = y + z
    BY <1>3, <1>5, <1>6, <1>7
<1> QED BY <1>4, <1>6, <1>7, <1>8, <1>9, <1>10

(* Who is no worse in any factor has no lower score.                       *)
LEMMA ScoreGrows ==
    ASSUME RankingTypeOK, NEW d \in Matching, NEW e \in Matching,
           \A factor \in Economic : entries[d][factor] <= entries[e][factor],
           Freshness(d) <= Freshness(e)
    PROVE  Score(d) <= Score(e)
<1>1. ASSUME NEW factor \in Economic
      PROVE  /\ Percentile(factor, d) <= Percentile(factor, e)
             /\ Percentile(factor, d) \in Nat /\ Percentile(factor, e) \in Nat
    <2>1. /\ entries[d][factor] \in Nat /\ entries[e][factor] \in Nat
          /\ \A f \in Matching : entries[f][factor] \in Nat
        BY FactorsAre
    <2>2. SmallerThan(factor, d) \in SUBSET SmallerThan(factor, e)
        BY <2>1 DEF SmallerThan
    <2>3. Cardinality(SmallerThan(factor, d)) <= Cardinality(SmallerThan(factor, e))
        BY <2>2, PercentileCounts, FS_Subset
    <2>4. Percentile(factor, d) \in 0 .. Peers /\ Percentile(factor, e) \in 0 .. Peers
          /\ Peers \in Nat
        BY PercentileBounds
    <2>5. CASE Size = 1
        <3>1. Percentile(factor, d) = 1 /\ Percentile(factor, e) = 1
            BY <2>5, PercentileCounts
        <3> QED BY <3>1
    <2>6. CASE Size # 1
        <3>1. /\ Percentile(factor, d) = Cardinality(SmallerThan(factor, d))
              /\ Percentile(factor, e) = Cardinality(SmallerThan(factor, e))
            BY <2>6, PercentileCounts
        <3> QED BY <3>1, <2>3, <2>4
    <2> QED BY <2>5, <2>6
<1> DEFINE x(f) == 10 * Percentile("committed", f) + 5 * Percentile("calls", f)
                   + 3 * Percentile("supporters", f)
<1>2. x(d) \in Nat /\ x(e) \in Nat /\ x(d) <= x(e)
    <2>1. "committed" \in Economic /\ "calls" \in Economic /\ "supporters" \in Economic
        BY DEF Economic
    <2> QED BY <1>1, <2>1
<1>3. /\ Freshness(d) \in Nat /\ Freshness(e) \in Nat /\ Horizon \in Nat /\ 2 * Peers \in Nat
    <2>1. Freshness(d) \in 0 .. Horizon /\ Freshness(e) \in 0 .. Horizon /\ Horizon \in Nat
        BY FactorsAre, RankingAssumption
    <2>2. "calls" \in Economic
        BY DEF Economic
    <2>3. Peers \in Nat
        BY <2>2, PercentileBounds
    <2> QED BY <2>1, <2>3
<1>4. /\ Score(d) = Horizon * x(d) + 2 * Peers * Freshness(d)
      /\ Score(e) = Horizon * x(e) + 2 * Peers * Freshness(e)
    BY DEF Score
<1> HIDE DEF x
<1>5. /\ Horizon * x(d) \in Nat /\ Horizon * x(e) \in Nat /\ Horizon * x(d) <= Horizon * x(e)
    BY <1>2, <1>3, ProductGrows
<1>6. /\ (2 * Peers) * Freshness(d) \in Nat /\ (2 * Peers) * Freshness(e) \in Nat
      /\ (2 * Peers) * Freshness(d) <= (2 * Peers) * Freshness(e)
    BY <1>3, ProductGrows
<1> QED BY <1>4, <1>5, <1>6

(* Rounding keeps the order.                                               *)
LEMMA RoundedGrows ==
    ASSUME NEW a \in Nat, NEW b \in Nat, a <= b
    PROVE  Rounded(a) \in Nat /\ Rounded(b) \in Nat /\ Rounded(a) <= Rounded(b)
<1>1. /\ 2 * Grain \in Nat \ {0} /\ 2 * a + Grain \in Nat /\ 2 * b + Grain \in Nat
      /\ 2 * a + Grain <= 2 * b + Grain
    BY RankingAssumption
<1> QED BY <1>1, DivMonotone, DivFacts DEF Rounded

(* What the ranking has computed.                                          *)
RankingInv ==
    /\ RankingTypeOK
    /\ \/ DOMAIN scored = {}
       \/ /\ DOMAIN scored = Matching
          /\ \A d \in Matching : scored[d] = Rounded(Score(d))

(* A demand that was scored is among those that match, with its score.     *)
LEMMA ScoredAre ==
    ASSUME RankingInv, NEW d \in DOMAIN scored
    PROVE  /\ DOMAIN scored = Matching /\ d \in Matching /\ d \in DemandId
           /\ Score(d) \in Nat /\ scored[d] = Rounded(Score(d)) /\ scored[d] \in Nat
<1>1. DOMAIN scored = Matching /\ scored[d] = Rounded(Score(d)) /\ RankingTypeOK
    BY DEF RankingInv
<1>2. d \in DemandId /\ Score(d) \in Nat
    BY <1>1, FactorsAre, ScoreBounds
<1> QED BY <1>1, <1>2, RoundedGrows

(* Each way of sorting orders the rows in one way only.                    *)
LEMMA SortOrders ==
    ASSUME RankingInv, NEW sort \in Sorts
    PROVE  Orders({p \in (DOMAIN scored) \X (DOMAIN scored) : Before(p[1], p[2], sort)}, DOMAIN scored)
<1> DEFINE ds == DOMAIN scored
           R == {p \in ds \X ds : Before(p[1], p[2], sort)}
<1>1. \A d \in ds : /\ d \in Nat /\ Funding(d) \in Nat /\ Calls(d) \in Nat /\ Supporters(d) \in Nat
                    /\ entries[d].deadline \in Nat /\ scored[d] \in Nat
    BY ScoredAre, FactorsAre DEF RankingInv
<1>2. \A d, e \in ds : <<d, e>> \in R <=> Before(d, e, sort)
    OBVIOUS
<1> HIDE DEF R, ds
<1>3. /\ \A d, e \in ds : Before(d, e, sort) <=>
             \/ Ahead(d, e, sort)
             \/ ~Ahead(d, e, sort) /\ ~Ahead(e, d, sort) /\ d > e
    BY DEF Before
<1>4. /\ \A d \in ds : ~Ahead(d, d, sort)
      /\ \A d, e \in ds : ~(Ahead(d, e, sort) /\ Ahead(e, d, sort))
      /\ \A d, e, f \in ds : Ahead(d, e, sort) => Ahead(d, f, sort) \/ Ahead(f, e, sort)
    <2>1. CASE sort = "bounty"
        <3>1. \A d, e \in ds : Ahead(d, e, sort) <=> Funding(d) > Funding(e)
            BY <2>1 DEF Ahead
        <3> QED BY <3>1, <1>1
    <2>2. CASE sort = "supporters"
        <3>1. \A d, e \in ds : Ahead(d, e, sort) <=> Supporters(d) > Supporters(e)
            BY <2>2 DEF Ahead
        <3> QED BY <3>1, <1>1
    <2>3. CASE sort = "calls"
        <3>1. \A d, e \in ds : Ahead(d, e, sort) <=> Calls(d) > Calls(e)
            BY <2>3 DEF Ahead
        <3> QED BY <3>1, <1>1
    <2>4. CASE sort = "deadline"
        <3>1. \A d, e \in ds : Ahead(d, e, sort) <=> Sooner(d, e)
            BY <2>4 DEF Ahead
        <3>2. \A d \in ds : Dated(d) <=> entries[d].deadline <= LastDate
            BY DEF Dated
        <3>3. \A d, e \in ds : Sooner(d, e) <=>
                  \/ Dated(d) /\ ~Dated(e)
                  \/ Dated(d) /\ Dated(e) /\ entries[d].deadline < entries[e].deadline
            BY DEF Sooner
        <3> QED BY <3>1, <3>2, <3>3, <1>1, RankingAssumption
    <2>5. CASE sort = "score"
        <3>1. \A d, e \in ds : Ahead(d, e, sort) <=> scored[d] > scored[e]
            BY <2>5 DEF Ahead
        <3> QED BY <3>1, <1>1
    <2> QED BY <2>1, <2>2, <2>3, <2>4, <2>5 DEF Sorts
<1>5. \A d \in ds : <<d, d>> \notin R
    BY <1>1, <1>2, <1>3, <1>4
<1>6. \A d, e \in ds : d = e \/ <<d, e>> \in R \/ <<e, d>> \in R
    <2> SUFFICES ASSUME NEW d \in ds, NEW e \in ds PROVE d = e \/ <<d, e>> \in R \/ <<e, d>> \in R
        OBVIOUS
    <2>1. d = e \/ d > e \/ e > d
        BY <1>1
    <2> QED BY <2>1, <1>2, <1>3, Zenon
<1>7. \A d, e, f \in ds : <<d, e>> \in R /\ <<e, f>> \in R => <<d, f>> \in R
    <2> SUFFICES ASSUME NEW d \in ds, NEW e \in ds, NEW f \in ds,
                        Before(d, e, sort), Before(e, f, sort)
                 PROVE  Before(d, f, sort)
        BY <1>2
    <2>1. d > e /\ e > f => d > f
        BY <1>1
    <2>2. ~Ahead(f, d, sort)
        BY <1>3, <1>4, Zenon
    <2>3. CASE Ahead(d, f, sort)
        BY <2>3, <1>3
    <2>4. CASE ~Ahead(d, f, sort)
        <3>1. ~Ahead(d, e, sort) /\ ~Ahead(e, f, sort)
            BY <2>4, <1>3, <1>4, Zenon
        <3> QED BY <3>1, <2>1, <2>2, <2>4, <1>3, Zenon
    <2> QED BY <2>3, <2>4
<1> QED BY <1>5, <1>6, <1>7 DEF Orders, R, ds

(* A rank counts the rows that come before.                                *)
LEMMA RanksAre ==
    ASSUME RankingInv
    PROVE  /\ \A d \in DOMAIN scored : Rank(d) \in Nat
           /\ \A d, e \in DOMAIN scored : Before(d, e, "score") <=> Rank(d) < Rank(e)
<1> DEFINE ds == DOMAIN scored
           R == {p \in ds \X ds : Before(p[1], p[2], "score")}
<1>1. "score" \in Sorts /\ Orders(R, ds)
    BY SortOrders DEF Sorts
<1>2. IsFiniteSet(ds)
    BY FactorsAre, FS_EmptySet DEF RankingInv
<1>3. \A d, e \in ds : <<d, e>> \in R <=> Before(d, e, "score")
    OBVIOUS
<1> HIDE DEF R
<1>4. \A d \in ds : AheadOf(ds, R, d) = {e \in ds : Before(e, d, "score")}
    BY <1>3 DEF AheadOf
<1>5. \A d \in ds : Rank(d) = 1 + Cardinality(AheadOf(ds, R, d))
    BY <1>4 DEF Rank
<1> HIDE DEF ds
<1>6. /\ Cardinality(ds) \in Nat
      /\ \A d \in ds : Cardinality(AheadOf(ds, R, d)) \in 0 .. Cardinality(ds) - 1
      /\ \A d, e \in ds : <<d, e>> \in R
                <=> Cardinality(AheadOf(ds, R, d)) < Cardinality(AheadOf(ds, R, e))
    BY <1>1, <1>2, AheadCount
<1>7. \A d \in ds : Cardinality(AheadOf(ds, R, d)) \in Nat
    BY <1>6
<1>8. ASSUME NEW d \in ds, NEW e \in ds PROVE Before(d, e, "score") <=> Rank(d) < Rank(e)
    <2>1. Rank(d) < Rank(e)
              <=> Cardinality(AheadOf(ds, R, d)) < Cardinality(AheadOf(ds, R, e))
        BY <1>5, <1>7
    <2> QED BY <2>1, <1>3, <1>6
<1>9. \A d \in ds : Rank(d) \in Nat
    BY <1>5, <1>7
<1> QED BY <1>8, <1>9 DEF ds

(* Of two of the same age or younger, who is no worse and came later is    *)
(* ahead.                                                                  *)
LEMMA RanksAreBest == RankingInv => BetterRanksFirst
<1> SUFFICES ASSUME RankingInv, NEW d \in DOMAIN scored, NEW e \in DOMAIN scored
             PROVE  /\ d # e => Rank(d) # Rank(e)
                    /\ /\ d > e
                       /\ Funding(d) >= Funding(e) /\ Calls(d) >= Calls(e)
                       /\ Supporters(d) >= Supporters(e) /\ Freshness(d) >= Freshness(e)
                       => Rank(d) < Rank(e)
    BY DEF BetterRanksFirst
<1>0. RankingTypeOK
    BY DEF RankingInv
<1>1. /\ d \in Matching /\ d \in DemandId /\ Score(d) \in Nat /\ scored[d] = Rounded(Score(d))
      /\ e \in Matching /\ e \in DemandId /\ Score(e) \in Nat /\ scored[e] = Rounded(Score(e))
    BY ScoredAre
<1>2. /\ Rank(d) \in Nat /\ Rank(e) \in Nat
      /\ Before(d, e, "score") <=> Rank(d) < Rank(e)
      /\ Before(e, d, "score") <=> Rank(e) < Rank(d)
    BY RanksAre
<1>3. ASSUME d # e PROVE Rank(d) # Rank(e)
    <2>1. "score" \in Sorts
        BY DEF Sorts
    <2>2. Before(d, e, "score") \/ Before(e, d, "score")
        BY <1>3, <2>1, SortOrders DEF Orders
    <2> QED BY <2>2, <1>2
<1>4. ASSUME d > e, Funding(d) >= Funding(e), Calls(d) >= Calls(e),
             Supporters(d) >= Supporters(e), Freshness(d) >= Freshness(e)
      PROVE  Rank(d) < Rank(e)
    <2>1. \A factor \in Economic : entries[e][factor] <= entries[d][factor]
        BY <1>1, <1>4, FactorsAre, <1>0 DEF Economic
    <2>2. Freshness(e) <= Freshness(d)
        BY <1>1, <1>4, FactorsAre, <1>0
    <2>3. Score(e) <= Score(d)
        BY <2>1, <2>2, <1>0, <1>1, ScoreGrows
    <2>4. scored[e] \in Nat /\ scored[d] \in Nat /\ scored[e] <= scored[d]
        BY <2>3, <1>1, RoundedGrows
    <2>5. Before(d, e, "score")
        <3>1. /\ Ahead(d, e, "score") <=> scored[d] > scored[e]
              /\ Ahead(e, d, "score") <=> scored[e] > scored[d]
            BY DEF Ahead
        <3> QED BY <3>1, <2>4, <1>4 DEF Before
    <2> QED BY <2>5, <1>2
<1> QED BY <1>3, <1>4

(* The percentiles are those that are documented.                          *)
LEMMA PercentilesAre == RankingInv => PercentilesCount
<1> SUFFICES ASSUME RankingInv, NEW d \in DOMAIN scored
             PROVE  /\ \A factor \in {"committed", "calls", "supporters"} :
                           Size > 1 =>
                               Percentile(factor, d) = Cardinality(
                                   {e \in Matching : entries[e][factor] < entries[d][factor]})
                    /\ scored[d] \in 0 .. Rounded(FullScore)
    BY DEF PercentilesCount
<1>1. RankingTypeOK /\ d \in Matching /\ Score(d) \in Nat /\ scored[d] = Rounded(Score(d))
    BY ScoredAre DEF RankingInv
<1>2. \A factor \in Economic :
          Size > 1 => Percentile(factor, d) = Cardinality(SmallerThan(factor, d))
    BY <1>1, PercentileCounts
<1>3. Score(d) <= FullScore /\ FullScore \in Nat
    BY <1>1, ScoreBounds
<1>4. scored[d] \in 0 .. Rounded(FullScore)
    BY <1>1, <1>3, RoundedGrows
<1> QED BY <1>2, <1>4 DEF Economic, SmallerThan

(* The sorts leave nothing open.                                           *)
LEMMA SortsAre == RankingInv => SortsAreOrders
<1> SUFFICES ASSUME RankingInv, NEW sort \in Sorts, NEW d \in DOMAIN scored, NEW e \in DOMAIN scored
             PROVE  /\ ~Before(d, d, sort)
                    /\ d # e => (Before(d, e, sort) <=> ~Before(e, d, sort))
                    /\ \A f \in DOMAIN scored :
                           Before(d, e, sort) /\ Before(e, f, sort) => Before(d, f, sort)
    BY DEF SortsAreOrders
<1> DEFINE R == {p \in (DOMAIN scored) \X (DOMAIN scored) : Before(p[1], p[2], sort)}
<1>1. Orders(R, DOMAIN scored)
    BY SortOrders
<1>2. \A f, g \in DOMAIN scored : <<f, g>> \in R <=> Before(f, g, sort)
    OBVIOUS
<1> HIDE DEF R
<1> QED BY <1>1, <1>2 DEF Orders

(* The reasons agree with the numbers.                                     *)
LEMMA ReasonsAre == RankingInv => ReasonsAgree
<1> DEFINE behind(factor, d) ==
               Cardinality({e \in DOMAIN scored : entries[e][factor] < entries[d][factor]})
<1> SUFFICES ASSUME RankingInv, NEW d \in DOMAIN scored
             PROVE  /\ High(d) \cap Low(d) = {}
                    /\ \A factor \in High(d) : 4 * (Size - 1 - behind(factor, d)) <= Size - 1
                    /\ \A factor \in Low(d) :
                           /\ 4 * behind(factor, d) <= Size - 1
                           /\ \E e \in DOMAIN scored : entries[e][factor] # entries[d][factor]
                    /\ EconomicsTied => High(d) \cup Low(d) = {}
                    /\ "scores tied" \in Cautions(d) =>
                           Rank(d) = Cardinality({e \in DOMAIN scored : e >= d})
                    /\ "by freshness" \in Cautions(d) =>
                           \A e \in DOMAIN scored :
                               scored[d] > scored[e] => Freshness(d) > Freshness(e)
                    /\ CanBeProposedTo(d) =>
                           Cautions(d) \cap {"ready", "fulfilled", "over", "under review"} = {}
                    /\ \A n \in EscrowPerCall(d) : Calls(d) * n <= Funding(d)
    BY DEF ReasonsAgree
<1>1. /\ RankingTypeOK /\ DOMAIN scored = Matching /\ d \in Matching /\ d \in DemandId
    BY ScoredAre DEF RankingInv
<1>2. ASSUME NEW factor \in Economic, Size > 1
      PROVE  /\ Size \in Nat /\ Peers = Size - 1 /\ behind(factor, d) = Percentile(factor, d)
             /\ Percentile(factor, d) \in Nat
    <2>1. Size \in Nat /\ Peers = Size - 1
        BY <1>1, <1>2, FactorsAre DEF Peers
    <2>2. Percentile(factor, d) \in 0 .. Peers
        BY <1>1, PercentileBounds
    <2>3. Percentile(factor, d) = Cardinality(SmallerThan(factor, d))
        BY <1>1, <1>2, <2>1, PercentileCounts
    <2> QED BY <2>1, <2>2, <2>3, <1>1 DEF SmallerThan
<1>3. \A factor \in High(d) :
          /\ factor \in Economic /\ Size > 1 /\ Varies(factor)
          /\ 4 * Percentile(factor, d) >= 3 * Peers
    BY DEF High
<1>4. \A factor \in Low(d) :
          /\ factor \in Economic /\ Size > 1 /\ Varies(factor)
          /\ 4 * Percentile(factor, d) <= Peers
    BY DEF Low
<1> HIDE DEF behind
<1>5. High(d) \cap Low(d) = {}
    <2> SUFFICES ASSUME NEW factor \in High(d) \cap Low(d) PROVE FALSE
        OBVIOUS
    <2>1. /\ factor \in Economic /\ Size > 1
          /\ 4 * Percentile(factor, d) >= 3 * Peers /\ 4 * Percentile(factor, d) <= Peers
        BY <1>3, <1>4
    <2>2. Size \in Nat /\ Peers = Size - 1 /\ Percentile(factor, d) \in Nat
        BY <2>1, <1>2
    <2> QED BY <2>1, <2>2
<1>6. ASSUME NEW factor \in High(d) PROVE 4 * (Size - 1 - behind(factor, d)) <= Size - 1
    <2>1. /\ factor \in Economic /\ Size > 1 /\ 4 * Percentile(factor, d) >= 3 * Peers
        BY <1>3
    <2>2. /\ Size \in Nat /\ Peers = Size - 1 /\ Percentile(factor, d) \in Nat
          /\ behind(factor, d) = Percentile(factor, d)
        BY <2>1, <1>2
    <2> QED BY <2>1, <2>2
<1>7. ASSUME NEW factor \in Low(d)
      PROVE  /\ 4 * behind(factor, d) <= Size - 1
             /\ \E e \in DOMAIN scored : entries[e][factor] # entries[d][factor]
    <2>1. /\ factor \in Economic /\ Size > 1 /\ Varies(factor)
          /\ 4 * Percentile(factor, d) <= Peers
        BY <1>4
    <2>2. /\ Peers = Size - 1 /\ behind(factor, d) = Percentile(factor, d)
        BY <2>1, <1>2
    <2> QED BY <2>1, <2>2 DEF Varies
<1>8. EconomicsTied => High(d) \cup Low(d) = {}
    BY <1>3, <1>4 DEF EconomicsTied
<1>9. ASSUME "scores tied" \in Cautions(d)
      PROVE  Rank(d) = Cardinality({e \in DOMAIN scored : e >= d})
    <2>1. \A e, f \in DOMAIN scored : scored[e] = scored[f]
        BY <1>9 DEF Cautions, ScoresTied
    <2>2. \A e \in DOMAIN scored : scored[e] \in Nat /\ e \in Nat
        BY <1>1, ScoredAre, FactorsAre
    <2>3. \A e \in DOMAIN scored : Before(e, d, "score") <=> e > d
        BY <2>1, <2>2 DEF Before, Ahead
    <2> DEFINE ahead == {e \in DOMAIN scored : Before(e, d, "score")}
    <2>4. {e \in DOMAIN scored : e >= d} = ahead \cup {d} /\ d \notin ahead
        BY <2>2, <2>3
    <2>5. IsFiniteSet(ahead)
        <3>1. ahead \in SUBSET Matching /\ IsFiniteSet(Matching)
            BY <1>1, FactorsAre
        <3> QED BY <3>1, FS_Subset
    <2>6. Rank(d) = 1 + Cardinality(ahead)
        BY DEF Rank
    <2> HIDE DEF ahead
    <2>7. Cardinality(ahead \cup {d}) = Cardinality(ahead) + 1 /\ Cardinality(ahead) \in Nat
        BY <2>4, <2>5, FS_AddElement, FS_CardinalityType
    <2> QED BY <2>4, <2>6, <2>7
<1>10. ASSUME "by freshness" \in Cautions(d), NEW e \in DOMAIN scored, scored[d] > scored[e]
       PROVE  Freshness(d) > Freshness(e)
    <2>1. \A factor \in Economic : ~Varies(factor)
        BY <1>10 DEF Cautions, EconomicsTied
    <2>2. /\ e \in Matching /\ e \in DemandId /\ Score(e) \in Nat /\ scored[e] = Rounded(Score(e))
          /\ Score(d) \in Nat /\ scored[d] = Rounded(Score(d))
        BY ScoredAre
    <2>3. \A factor \in Economic :
              entries[d][factor] = entries[e][factor] /\ entries[d][factor] \in Nat
        BY <2>1, <1>1, FactorsAre DEF Varies
    <2>4. Freshness(d) \in Nat /\ Freshness(e) \in Nat
        BY <1>1, <2>2, FactorsAre, RankingAssumption
    <2>5. ASSUME Freshness(d) <= Freshness(e) PROVE FALSE
        <3>1. \A factor \in Economic : entries[d][factor] <= entries[e][factor]
            BY <2>3
        <3>2. Score(d) <= Score(e)
            BY <2>2, <2>5, <3>1, <1>1, ScoreGrows
        <3>3. PICK a \in Nat, b \in Nat : a = scored[d] /\ b = scored[e] /\ a <= b
            BY <3>2, <2>2, RoundedGrows
        <3>4. a > b
            BY <3>3, <1>10
        <3> QED BY <3>3, <3>4
    <2> QED BY <2>4, <2>5
<1>11. CanBeProposedTo(d) => Cautions(d) \cap {"ready", "fulfilled", "over", "under review"} = {}
    BY DEF CanBeProposedTo, Cautions
<1>12. ASSUME NEW n \in EscrowPerCall(d) PROVE Calls(d) * n <= Funding(d)
    <2>1. Calls(d) \in Nat /\ Funding(d) \in Nat
        BY <1>1, FactorsAre
    <2>2. Calls(d) # 0 /\ n = Funding(d) \div Calls(d)
        BY <1>12 DEF EscrowPerCall
    <2>3. PICK a \in Nat, m \in Nat \ {0} : a = Funding(d) /\ m = Calls(d)
        BY <2>1, <2>2
    <2>4. /\ a \div m \in Nat /\ a % m \in 0 .. m - 1 /\ a = m * (a \div m) + (a % m)
        BY DivFacts
    <2>5. n = a \div m
        BY <2>2, <2>3
    <2>6. PICK k \in Nat, x \in 0 .. m - 1 : n = k /\ a = m * k + x
        BY <2>4, <2>5
    <2>7. m * k \in Nat
        OBVIOUS
    <2>8. m * k <= a
        BY <2>6, <2>7
    <2> QED BY <2>3, <2>6, <2>8
<1> QED BY <1>5, <1>6, <1>7, <1>8, <1>9, <1>10, <1>11, <1>12

(* The ranking is evaluated once, from entries that stay.                  *)
LEMMA RankingAlways == RankingSpec => []RankingInv
<1>1. RankingInit => RankingInv
    BY DEF RankingInit, RankingInv, RankingTypeOK
<1>2. RankingInv /\ [Evaluate]_rankingVars => RankingInv'
    <2> SUFFICES ASSUME RankingInv, [Evaluate]_rankingVars PROVE RankingInv'
        OBVIOUS
    <2>1. CASE Evaluate
        <3>1. entries' = entries /\ query' = query
              /\ scored' = [d \in Matching |-> Rounded(Score(d))]
            BY <2>1 DEF Evaluate
        <3>2. Matching' = Matching
            BY <3>1 DEF Matching
        <3>3. \A d : Score(d)' = Score(d)
            BY <3>1, <3>2 DEF Score, Percentile, Sorted, Lesser, Size, Peers, Freshness, Remaining
        <3> QED BY <3>1, <3>2, <3>3 DEF RankingInv, RankingTypeOK, Rounded
    <2>2. CASE UNCHANGED rankingVars
        <3>1. entries' = entries /\ query' = query /\ scored' = scored
            BY <2>2 DEF rankingVars
        <3>2. Matching' = Matching
            BY <3>1 DEF Matching
        <3>3. \A d : Score(d)' = Score(d)
            BY <3>1, <3>2 DEF Score, Percentile, Sorted, Lesser, Size, Peers, Freshness, Remaining
        <3> QED BY <3>1, <3>2, <3>3 DEF RankingInv, RankingTypeOK, Rounded
    <2> QED BY <2>1, <2>2
<1> QED BY <1>1, <1>2, PTL DEF RankingSpec

(* The paid comparison is the documented one, for any demands, factors and *)
(* queries: percentiles, orders, ranks and the reasons that are given.     *)
THEOREM RankingTellsTruth == RankingSpec => []RankingSound
<1>1. RankingInv => RankingSound
    BY PercentilesAre, SortsAre, RanksAreBest, ReasonsAre DEF RankingSound
<1> QED BY <1>1, RankingAlways, PTL

-------------------------------------------------------------------------------
(* The page's list and its analytics.                                      *)

ListingSpec == ListingInit /\ [][Show]_listingVars

ListingTypeOK ==
    /\ rows \in [Listed -> [committed : ListedEscrow, named : BOOLEAN, status : ListedStatus]]
    /\ filter \in [search : Search, status : ListedStatus \cup {"ALL"}, sort : MarketSort]

ListingInv ==
    /\ ListingTypeOK
    /\ analytics # <<>> => shown = InOrder(Requests, ListedOrder) /\ analytics = Analytics

(* What is known of a demand on the board.                                 *)
LEMMA RowsAre ==
    ASSUME ListingTypeOK
    PROVE  /\ IsFiniteSet(Listed) /\ Cardinality(Listed) \in Nat
           /\ \A d \in Listed : /\ d \in Nat /\ rows[d].committed \in Nat
                                /\ rows[d].status \in ListedStatus /\ rows[d].status \in Status
           /\ \A ds \in SUBSET Listed : IsFiniteSet(ds) /\ Cardinality(ds) \in Nat
           /\ filter.sort \in MarketSort
<1>1. IsFiniteSet(Listed) /\ Listed \subseteq Nat /\ ListedEscrow \subseteq Nat
      /\ ListedStatus \subseteq Status
    BY ListingAssumption
<1>2. ASSUME NEW d \in Listed
      PROVE  rows[d].committed \in ListedEscrow /\ rows[d].status \in ListedStatus
    BY DEF ListingTypeOK
<1>3. ASSUME NEW ds \in SUBSET Listed PROVE IsFiniteSet(ds) /\ Cardinality(ds) \in Nat
    BY <1>1, FS_Subset, FS_CardinalityType
<1>4. filter.sort \in MarketSort
    BY DEF ListingTypeOK
<1> QED BY <1>1, <1>2, <1>3, <1>4, FS_CardinalityType

(* The list's order, whatever is chosen.                                   *)
LEMMA ListedOrders ==
    ASSUME ListingTypeOK, NEW ds \in SUBSET Listed
    PROVE  Orders(ListedOrder, ds)
<1>1. \A d \in ds : d \in Listed /\ d \in Nat /\ rows[d].committed \in Nat
    BY RowsAre
<1>2. \A d, e \in ds : <<d, e>> \in ListedOrder <=> ListedBefore(d, e)
    BY <1>1 DEF ListedOrder
<1>3. CASE filter.sort = "latest-id"
    <2>1. \A d, e \in ds : ListedBefore(d, e) <=> d > e
        BY <1>3 DEF ListedBefore
    <2> QED BY <2>1, <1>1, <1>2 DEF Orders
<1>4. CASE filter.sort = "earliest-id"
    <2>1. \A d, e \in ds : ListedBefore(d, e) <=> d < e
        BY <1>4 DEF ListedBefore
    <2> QED BY <2>1, <1>1, <1>2 DEF Orders
<1>5. CASE filter.sort = "most-funded"
    <2>1. \A d, e \in ds : ListedBefore(d, e) <=>
              \/ rows[d].committed > rows[e].committed
              \/ rows[d].committed = rows[e].committed /\ d > e
        BY <1>5 DEF ListedBefore
    <2> QED BY <2>1, <1>1, <1>2 DEF Orders
<1>6. CASE filter.sort = "least-funded"
    <2>1. \A d, e \in ds : ListedBefore(d, e) <=>
              \/ rows[d].committed < rows[e].committed
              \/ rows[d].committed = rows[e].committed /\ d > e
        BY <1>6 DEF ListedBefore
    <2> QED BY <2>1, <1>1, <1>2 DEF Orders
<1>7. filter.sort \in MarketSort
    BY RowsAre
<1> QED BY <1>3, <1>4, <1>5, <1>6, <1>7 DEF MarketSort

(* The list has what matches, in its order.                                *)
LEMMA ListedAre == ListingInv => ListIsWhole
<1> SUFFICES ASSUME ListingInv, analytics # <<>>
             PROVE  /\ ToSet(shown) = Requests /\ Len(shown) = Cardinality(Requests)
                    /\ \A i, j \in DOMAIN shown : i < j => ~ListedBefore(shown[j], shown[i])
                    /\ filter.search.number # 0 /\ filter.status = "ALL" =>
                           filter.search.number \in ToSet(shown)
                    /\ ~filter.search.word =>
                           Len(shown) = IF filter.status = "ALL" THEN analytics.total
                                        ELSE StatusCount(filter.status)
    BY DEF ListIsWhole
<1> DEFINE n == Cardinality(Requests)
<1>1. ListingTypeOK /\ shown = InOrder(Requests, ListedOrder) /\ analytics = Analytics
    BY DEF ListingInv
<1>2. Requests \in SUBSET Listed /\ IsFiniteSet(Requests) /\ n \in Nat
    BY <1>1, RowsAre DEF Requests
<1>3. Orders(ListedOrder, Requests)
    BY <1>1, <1>2, ListedOrders
<1>4. /\ shown \in [1 .. n -> Requests]
      /\ \A i, j \in 1 .. n : i < j <=> <<shown[i], shown[j]>> \in ListedOrder
      /\ \A d \in Requests : \E i \in 1 .. n : shown[i] = d
    BY <1>1, <1>2, <1>3, InOrderIs
<1>5. Len(shown) = n /\ DOMAIN shown = 1 .. n
    BY <1>1, <1>2, <1>3, InOrderSequence
<1>6. ToSet(shown) = Requests
    BY <1>4, <1>5 DEF ToSet
<1>7. ASSUME NEW i \in 1 .. n, NEW j \in 1 .. n, i < j PROVE ~ListedBefore(shown[j], shown[i])
    <2>1. ~(j < i)
        BY <1>2, <1>7
    <2>2. <<shown[j], shown[i]>> \notin ListedOrder
        BY <2>1, <1>4
    <2>3. shown[i] \in Listed /\ shown[j] \in Listed
        BY <1>2, <1>4
    <2> QED BY <2>2, <2>3 DEF ListedOrder
<1>8. ASSUME filter.search.number # 0, filter.status = "ALL"
      PROVE  filter.search.number \in Requests
    <2>1. filter.search.number \in Listed
        BY <1>1, <1>8 DEF ListingTypeOK, Search
    <2> QED BY <2>1, <1>8 DEF Requests, MatchesStatus, MatchesSearch
<1>9. ASSUME ~filter.search.word
      PROVE  n = IF filter.status = "ALL" THEN analytics.total ELSE StatusCount(filter.status)
    <2>1. \A d \in Listed : MatchesSearch(d)
        BY <1>9 DEF MatchesSearch
    <2>2. CASE filter.status = "ALL"
        <3>1. Requests = Listed
            BY <2>1, <2>2 DEF Requests, MatchesStatus
        <3> QED BY <3>1, <2>2, <1>1 DEF Analytics
    <2>3. CASE filter.status # "ALL"
        <3>1. Requests = {d \in Listed : rows[d].status = filter.status}
            BY <2>1, <2>3 DEF Requests, MatchesStatus
        <3> QED BY <3>1, <2>3 DEF StatusCount
    <2> QED BY <2>2, <2>3
<1> QED BY <1>5, <1>6, <1>7, <1>8, <1>9

(* The first members of a list.                                            *)
LEMMA FirstIs ==
    ASSUME NEW S, NEW list \in Seq(S), NEW n \in Nat
    PROVE  /\ FirstOf(list, n) \in Seq(S)
           /\ Len(FirstOf(list, n)) = IF Len(list) < n THEN Len(list) ELSE n
           /\ Len(FirstOf(list, n)) \in Nat /\ Len(FirstOf(list, n)) <= Len(list)
           /\ DOMAIN FirstOf(list, n) = 1 .. Len(FirstOf(list, n))
           /\ \A i \in 1 .. Len(FirstOf(list, n)) : FirstOf(list, n)[i] = list[i]
<1> DEFINE m == IF Len(list) < n THEN Len(list) ELSE n
           first == SubSeq(list, 1, m)
<1>1. Len(list) \in Nat /\ m \in Nat /\ m <= Len(list)
    OBVIOUS
<1>2. FirstOf(list, n) = first
    BY DEF FirstOf
<1> HIDE DEF m
<1>3. \A i \in 1 .. m : list[i] \in S
    BY <1>1
<1>4. first \in Seq(S) /\ Len(first) = m /\ \A i \in 1 .. m : first[i] = list[i]
    <2>1. CASE m = 0
        BY <2>1, <1>1, SubSeqProperties
    <2>2. CASE m # 0
        BY <2>2, <1>1, <1>3, SubSeqProperties
    <2> QED BY <2>1, <2>2
<1>5. DOMAIN first = 1 .. m
    BY <1>4
<1> HIDE DEF first
<1> QED BY <1>1, <1>2, <1>4, <1>5 DEF m

(* The order of what has most escrow.                                      *)
LEMMA MoreOrders ==
    ASSUME ListingTypeOK, NEW ds \in SUBSET Listed
    PROVE  Orders(MoreEscrow, ds)
<1>1. \A d \in ds : d \in Listed /\ d \in Nat /\ rows[d].committed \in Nat
    BY RowsAre
<1>2. \A d, e \in ds : <<d, e>> \in MoreEscrow <=>
          \/ rows[d].committed > rows[e].committed
          \/ rows[d].committed = rows[e].committed /\ d > e
    BY <1>1 DEF MoreEscrow
<1> QED BY <1>1, <1>2 DEF Orders

Escrowed == {d \in Listed : rows[d].committed > 0}

(* The first ones by escrow: nothing that is left out has more, and when   *)
(* there is room nothing is left out.                                      *)
LEMMA MostAre ==
    ASSUME ListingTypeOK
    PROVE  LET most == EscrowByRequest
           IN  /\ most \in Seq(Escrowed) /\ DOMAIN most = 1 .. Len(most)
               /\ ToSet(most) \subseteq Escrowed
               /\ \A i \in 1 .. Len(most) : rows[most[i]].committed <= rows[most[1]].committed
               /\ \A d \in Listed \ ToSet(most), e \in ToSet(most) :
                      rows[d].committed <= rows[e].committed
               /\ Len(most) < MostEscrow => ToSet(most) = Escrowed
<1> DEFINE n == Cardinality(Escrowed)
           list == InOrder(Escrowed, MoreEscrow)
           most == EscrowByRequest
           m == Len(most)
<1>1. Escrowed \in SUBSET Listed /\ IsFiniteSet(Escrowed) /\ n \in Nat
    BY RowsAre DEF Escrowed
<1>2. Orders(MoreEscrow, Escrowed)
    BY <1>1, MoreOrders
<1>3. /\ list \in [1 .. n -> Escrowed]
      /\ \A i, j \in 1 .. n : i < j <=> <<list[i], list[j]>> \in MoreEscrow
      /\ \A d \in Escrowed : \E i \in 1 .. n : list[i] = d
    BY <1>1, <1>2, InOrderIs
<1>4. list \in Seq(Escrowed) /\ Len(list) = n
    BY <1>1, <1>2, InOrderSequence
<1>5. most = FirstOf(list, MostEscrow) /\ MostEscrow \in Nat
    BY ListingAssumption DEF EscrowByRequest, Escrowed
<1> HIDE DEF list, most, n
<1>6. /\ most \in Seq(Escrowed) /\ m \in Nat /\ m <= n
      /\ m = IF n < MostEscrow THEN n ELSE MostEscrow
      /\ DOMAIN most = 1 .. m /\ \A i \in 1 .. m : most[i] = list[i]
    BY <1>4, <1>5, FirstIs
<1>7. ToSet(most) = {list[i] : i \in 1 .. m}
    BY <1>6 DEF ToSet
<1>8. \A i \in 1 .. m : i \in 1 .. n /\ list[i] \in Escrowed
    BY <1>1, <1>3, <1>6
<1> HIDE DEF m
<1>9. \A d \in Listed : rows[d].committed \in Nat
    BY RowsAre
<1>10. ASSUME NEW i \in 1 .. n, NEW j \in 1 .. n, i <= j
       PROVE  rows[list[j]].committed <= rows[list[i]].committed
    <2>1. list[i] \in Listed /\ list[j] \in Listed
        BY <1>1, <1>3
    <2>2. CASE i = j
        BY <2>1, <2>2, <1>9
    <2>3. CASE i < j
        <3>1. <<list[i], list[j]>> \in MoreEscrow
            BY <2>3, <1>3
        <3>2. \/ rows[list[i]].committed > rows[list[j]].committed
              \/ rows[list[i]].committed = rows[list[j]].committed
            BY <3>1, <2>1 DEF MoreEscrow
        <3>3. PICK a \in Nat, b \in Nat : a = rows[list[i]].committed /\ b = rows[list[j]].committed
            BY <2>1, <1>9
        <3> QED BY <3>2, <3>3
    <2> QED BY <2>2, <2>3, <1>1, <1>10
<1>11. ASSUME NEW i \in 1 .. m PROVE rows[most[i]].committed <= rows[most[1]].committed
    <2>1. 1 \in 1 .. m /\ 1 \in 1 .. n /\ 1 <= i /\ i \in 1 .. n
        BY <1>6, <1>8
    <2> QED BY <2>1, <1>6, <1>10
<1>12. ASSUME NEW d \in Listed \ ToSet(most), NEW e \in ToSet(most)
       PROVE  rows[d].committed <= rows[e].committed
    <2>1. PICK j \in 1 .. m : e = list[j]
        BY <1>7
    <2>2. e \in Escrowed /\ e \in Listed /\ j \in 1 .. n
        BY <2>1, <1>1, <1>8
    <2>3. CASE d \in Escrowed
        <3>1. PICK i \in 1 .. n : d = list[i]
            BY <2>3, <1>3
        <3>2. ~(i <= m)
            BY <3>1, <1>7, <1>6, <1>12
        <3>3. j <= i
            BY <3>2, <2>1, <1>6
        <3> QED BY <2>1, <2>2, <3>1, <3>3, <1>10
    <2>4. CASE d \notin Escrowed
        <3>1. rows[d].committed = 0
            BY <2>4, <1>9 DEF Escrowed
        <3> QED BY <3>1, <2>2, <1>9
    <2> QED BY <2>3, <2>4
<1>13. ASSUME m < MostEscrow PROVE ToSet(most) = Escrowed
    <2>1. m = n
        BY <1>1, <1>5, <1>6, <1>13
    <2> QED BY <2>1, <1>3, <1>7
<1>14. ToSet(most) \subseteq Escrowed
    BY <1>7, <1>8
<1> QED BY <1>6, <1>11, <1>12, <1>13, <1>14 DEF most, m

(* No bar is longer than the first, which is the longest there is.         *)
LEMMA BarsAre ==
    ASSUME ListingTypeOK
    PROVE  \A i \in DOMAIN Bars(EscrowByRequest) :
               /\ Bars(EscrowByRequest)[i] <= 100
               /\ i = 1 => Bars(EscrowByRequest)[i] = 100
<1> DEFINE most == EscrowByRequest
<1>1. /\ most \in Seq(Escrowed) /\ DOMAIN most = 1 .. Len(most)
      /\ \A i \in 1 .. Len(most) : rows[most[i]].committed <= rows[most[1]].committed
    BY MostAre
<1>2. /\ DOMAIN Bars(most) = DOMAIN most
      /\ \A i \in DOMAIN most :
             Bars(most)[i] = (rows[most[i]].committed * 100) \div rows[most[1]].committed
    BY DEF Bars
<1> HIDE DEF most
<1> SUFFICES ASSUME NEW i \in 1 .. Len(most)
             PROVE  Bars(most)[i] <= 100 /\ (i = 1 => Bars(most)[i] = 100)
    BY <1>1, <1>2 DEF most
<1>3. Len(most) \in Nat /\ 1 \in 1 .. Len(most) /\ most[i] \in Escrowed /\ most[1] \in Escrowed
    BY <1>1
<1>4. PICK c \in Nat, k \in Nat \ {0} : c = rows[most[i]].committed /\ k = rows[most[1]].committed
    BY <1>3, RowsAre DEF Escrowed
<1>5. c <= k /\ (i = 1 => c = k)
    BY <1>1, <1>4
<1>6. Bars(most)[i] = (c * 100) \div k
    BY <1>1, <1>2, <1>4
<1>7. (k * 100) \div k = 100
    <2>1. (k * 100 + 0) \div k = 100
        BY DivUnique
    <2>2. k * 100 + 0 = k * 100
        OBVIOUS
    <2> QED BY <2>1, <2>2
<1>8. c * 100 \in Nat /\ k * 100 \in Nat /\ c * 100 <= k * 100
    BY <1>5
<1>9. (c * 100) \div k <= 100
    BY <1>7, <1>8, DivMonotone
<1> QED BY <1>5, <1>6, <1>7, <1>9

(* Those without escrow add nothing.                                       *)
LEMMA EscrowIsAll ==
    ASSUME ListingTypeOK
    PROVE  Total([d \in Escrowed |-> rows[d].committed]) = Total([d \in Listed |-> rows[d].committed])
<1> DEFINE f == [d \in Escrowed |-> rows[d].committed]
           g == [d \in Listed |-> rows[d].committed]
<1>1. \A d \in Listed : rows[d].committed \in Nat /\ (d \in Escrowed <=> rows[d].committed > 0)
    BY RowsAre DEF Escrowed
<1>2. Escrowed \subseteq Listed
    BY DEF Escrowed
<1>3. /\ f \in [Escrowed -> Nat] /\ \A d \in Escrowed : f[d] = rows[d].committed
      /\ g \in [Listed -> Nat] /\ \A d \in Listed : g[d] = rows[d].committed
    BY <1>1, <1>2
<1> HIDE DEF f, g
<1>4. ASSUME NEW u PROVE u \in Units(f) <=> u \in Units(g)
    <2>1. u \in Units(f) <=> \E d \in Escrowed : \E i \in 1 .. f[d] : u = <<d, i>>
        BY <1>3, UnitsMember
    <2>2. u \in Units(g) <=> \E d \in Listed : \E i \in 1 .. g[d] : u = <<d, i>>
        BY <1>3, UnitsMember
    <2>3. \A d \in Listed \ Escrowed : 1 .. g[d] = {}
        BY <1>1, <1>3
    <2>4. \A d \in Escrowed : d \in Listed /\ f[d] = g[d]
        BY <1>2, <1>3
    <2> QED BY <2>1, <2>2, <2>3, <2>4
<1>5. Units(f) = Units(g)
    BY <1>4
<1> QED BY <1>5 DEF Total, f, g

(* Each status has one place in STATUS_ORDER.                              *)
LEMMA StatusPlaces ==
    /\ DOMAIN StatusOrder = 1 .. 9
    /\ \A i, j \in 1 .. 9 : StatusOrder[i] = StatusOrder[j] => i = j
    /\ \A s \in Status : \E i \in 1 .. 9 : StatusOrder[i] = s
<1>1. DOMAIN StatusOrder = 1 .. 9
    BY DEF StatusOrder
<1>2. /\ StatusOrder[1] = "OPEN" /\ StatusOrder[2] = "SUBMITTED" /\ StatusOrder[3] = "READY"
      /\ StatusOrder[4] = "EXPIRED" /\ StatusOrder[5] = "REJECTED"
      /\ StatusOrder[6] = "FULFILLED" /\ StatusOrder[7] = "CLOSED"
      /\ StatusOrder[8] = "CANCELLED" /\ StatusOrder[9] = "UNKNOWN"
    BY DEF StatusOrder
<1>3. \A i \in 1 .. 9 : i = 1 \/ i = 2 \/ i = 3 \/ i = 4 \/ i = 5 \/ i = 6 \/ i = 7 \/ i = 8 \/ i = 9
    OBVIOUS
<1>4. \A i, j \in 1 .. 9 : StatusOrder[i] = StatusOrder[j] => i = j
    BY <1>2, <1>3
<1>5. \A s \in Status : \E i \in 1 .. 9 : StatusOrder[i] = s
    BY <1>2 DEF Status
<1> QED BY <1>1, <1>4, <1>5

Places == InOrder(Occurring, {p \in Occurring \X Occurring : p[1] < p[2]})

(* Demands in the first k of the counts.                                   *)
CountedUpTo(k) ==
    {d \in Listed : \E j \in 1 .. k : rows[d].status = StatusOrder[Places[j]]}

(* The counts, and what they count.                                        *)
LEMMA CountsAre ==
    ASSUME ListingTypeOK
    PROVE  /\ Cardinality(Occurring) \in Nat
           /\ DOMAIN CountsShown = 1 .. Cardinality(Occurring)
           /\ \A i \in 1 .. Cardinality(Occurring) :
                  /\ CountsShown[i][2] = StatusCount(StatusOrder[Places[i]])
                  /\ CountsShown[i][2] \in Nat /\ Places[i] \in 1 .. 9
           /\ \A i, j \in 1 .. Cardinality(Occurring) : Places[i] = Places[j] => i = j
           /\ CountedUpTo(Cardinality(Occurring)) = Listed
<1> DEFINE n == Cardinality(Occurring)
           R == {p \in Occurring \X Occurring : p[1] < p[2]}
<1>1. Occurring \in SUBSET (1 .. 9) /\ IsFiniteSet(Occurring) /\ n \in Nat
    <2>1. Occurring \in SUBSET (1 .. 9)
        BY StatusPlaces DEF Occurring
    <2>2. IsFiniteSet(1 .. 9)
        <3>1. 1 \in Int /\ 9 \in Int
            OBVIOUS
        <3> QED BY <3>1, FS_Interval
    <2> QED BY <2>1, <2>2, FS_Subset, FS_CardinalityType
<1>2. Orders(R, Occurring)
    <2>1. \A i, j \in Occurring : <<i, j>> \in R <=> i < j
        OBVIOUS
    <2>2. \A i \in Occurring : i \in Nat
        BY <1>1
    <2> HIDE DEF R
    <2> QED BY <2>1, <2>2 DEF Orders
<1>3. Places = InOrder(Occurring, R)
    BY DEF Places
<1> HIDE DEF R, n
<1>4. /\ Places \in [1 .. n -> Occurring]
      /\ \A i, j \in 1 .. n : i < j <=> <<Places[i], Places[j]>> \in R
      /\ \A i \in Occurring : \E k \in 1 .. n : Places[k] = i
    BY <1>1, <1>2, <1>3, InOrderIs DEF n
<1>5. DOMAIN Places = 1 .. n /\ \A i \in 1 .. n : Places[i] \in Occurring /\ Places[i] \in 1 .. 9
    BY <1>1, <1>4
<1>6. /\ DOMAIN CountsShown = DOMAIN Places
      /\ \A i \in DOMAIN Places :
             CountsShown[i] = <<StatusOrder[Places[i]], StatusCount(StatusOrder[Places[i]])>>
    BY DEF CountsShown, Places
<1>7. \A s : StatusCount(s) \in Nat
    <2> SUFFICES ASSUME NEW s PROVE StatusCount(s) \in Nat
        OBVIOUS
    <2>1. {d \in Listed : rows[d].status = s} \in SUBSET Listed
        OBVIOUS
    <2> QED BY <2>1, RowsAre DEF StatusCount
<1>8. ASSUME NEW i \in 1 .. n
      PROVE  /\ CountsShown[i][2] = StatusCount(StatusOrder[Places[i]])
             /\ CountsShown[i][2] \in Nat /\ Places[i] \in 1 .. 9
    <2>1. CountsShown[i][2] = StatusCount(StatusOrder[Places[i]])
        BY <1>5, <1>6
    <2> QED BY <2>1, <1>5, <1>7
<1>9. ASSUME NEW i \in 1 .. n, NEW j \in 1 .. n, Places[i] = Places[j] PROVE i = j
    <2>1. <<Places[i], Places[i]>> \notin R
        BY <1>2, <1>5 DEF Orders
    <2>2. ~(i < j) /\ ~(j < i)
        BY <2>1, <1>4, <1>9
    <2> QED BY <2>2, <1>1
<1>10. CountedUpTo(n) = Listed
    <2> SUFFICES ASSUME NEW d \in Listed
                 PROVE  \E j \in 1 .. n : rows[d].status = StatusOrder[Places[j]]
        BY DEF CountedUpTo
    <2>1. PICK i \in 1 .. 9 : StatusOrder[i] = rows[d].status
        BY RowsAre, StatusPlaces
    <2>2. StatusCount(StatusOrder[i]) # 0
        <3>1. d \in {e \in Listed : rows[e].status = StatusOrder[i]}
            BY <2>1
        <3>2. {e \in Listed : rows[e].status = StatusOrder[i]} \in SUBSET Listed
            OBVIOUS
        <3> QED BY <3>1, <3>2, RowsAre, FS_EmptySet DEF StatusCount
    <2>3. i \in Occurring
        BY <2>2, <1>7, StatusPlaces DEF Occurring
    <2> QED BY <2>1, <2>3, <1>4
<1> QED BY <1>1, <1>5, <1>6, <1>8, <1>9, <1>10 DEF n

(* The sum of the first counts is of as many demands.                      *)
LEMMA CountedAre ==
    ASSUME ListingTypeOK, NEW k \in 0 .. Cardinality(Occurring)
    PROVE  Total([j \in 1 .. k |-> CountsShown[j][2]]) = Cardinality(CountedUpTo(k))
<1> DEFINE n == Cardinality(Occurring)
           f(i) == [j \in 1 .. i |-> CountsShown[j][2]]
           S == {i \in Nat : i <= n => Total(f(i)) = Cardinality(CountedUpTo(i))}
<1>1. /\ n \in Nat
      /\ \A i \in 1 .. n :
             /\ CountsShown[i][2] = StatusCount(StatusOrder[Places[i]])
             /\ CountsShown[i][2] \in Nat /\ Places[i] \in 1 .. 9
      /\ \A i, j \in 1 .. n : Places[i] = Places[j] => i = j
    BY CountsAre
<1> HIDE DEF n
<1>2. ASSUME NEW i \in Nat, i <= n PROVE f(i) \in [1 .. i -> Nat]
    BY <1>1, <1>2
<1>3. 0 \in S
    <2>1. 0 <= n => Total(f(0)) = 0
        <3> SUFFICES ASSUME 0 <= n PROVE Total(f(0)) = 0
            OBVIOUS
        <3>1. f(0) \in [1 .. 0 -> Nat]
            BY <1>2
        <3>2. 1 .. 0 = {} /\ IsFiniteSet({})
            BY FS_EmptySet
        <3> HIDE DEF f
        <3>3. Total(f(0)) = 0 <=> \A x \in 1 .. 0 : f(0)[x] = 0
            BY <3>1, <3>2, TotalZero
        <3> QED BY <3>2, <3>3
    <2>2. Cardinality(CountedUpTo(0)) = 0
        <3>1. CountedUpTo(0) = {}
            BY DEF CountedUpTo
        <3> QED BY <3>1, FS_EmptySet
    <2> HIDE DEF f
    <2> QED BY <2>1, <2>2
<1>4. ASSUME NEW i \in Nat, i \in S PROVE i + 1 \in S
    <2> SUFFICES ASSUME i + 1 <= n
                 PROVE  Total(f(i + 1)) = Cardinality(CountedUpTo(i + 1))
        OBVIOUS
    <2>1. i <= n /\ i + 1 \in 1 .. n /\ i + 1 \in Nat
        BY <1>1
    <2> DEFINE g == f(i + 1)
               A == CountedUpTo(i)
               B == {d \in Listed : rows[d].status = StatusOrder[Places[i + 1]]}
    <2>2. g \in [1 .. i + 1 -> Nat] /\ g[i + 1] = CountsShown[i + 1][2]
        <3>1. i + 1 \in 1 .. i + 1
            BY <2>1
        <3> QED BY <1>2, <2>1, <3>1
    <2>3. [j \in 1 .. i |-> g[j]] = f(i)
        <3>1. \A j \in 1 .. i : j \in 1 .. i + 1
            OBVIOUS
        <3> QED BY <3>1
    <2>4. Total(f(i)) = Cardinality(A)
        BY <1>4, <2>1
    <2> HIDE DEF g, f
    <2>5. Total(g) = Cardinality(A) + CountsShown[i + 1][2]
        BY <2>2, <2>3, <2>4, TotalGrows
    <2>6. CountedUpTo(i + 1) = A \cup B
        <3>1. 1 .. i + 1 = (1 .. i) \cup {i + 1}
            BY <2>1
        <3> QED BY <3>1 DEF CountedUpTo
    <2>7. A \cap B = {}
        <3> SUFFICES ASSUME NEW d \in A, d \in B PROVE FALSE
            OBVIOUS
        <3>1. PICK j \in 1 .. i : rows[d].status = StatusOrder[Places[j]]
            BY DEF CountedUpTo
        <3>2. j \in 1 .. n
            BY <3>1, <2>1, <1>1
        <3>3. StatusOrder[Places[j]] = StatusOrder[Places[i + 1]]
            BY <3>1
        <3>4. Places[j] = Places[i + 1]
            BY <3>2, <3>3, <2>1, <1>1, StatusPlaces
        <3> QED BY <3>1, <3>2, <3>4, <2>1, <1>1
    <2>8. IsFiniteSet(A) /\ IsFiniteSet(B) /\ Cardinality(A) \in Nat /\ Cardinality(B) \in Nat
        <3>1. A \in SUBSET Listed /\ B \in SUBSET Listed
            BY DEF CountedUpTo
        <3> QED BY <3>1, RowsAre
    <2>9. Cardinality(B) = CountsShown[i + 1][2]
        BY <2>1, <1>1 DEF StatusCount
    <2>10. Cardinality(A \cup B) = Cardinality(A) + Cardinality(B)
        <3> HIDE DEF A, B
        <3> QED BY <2>7, <2>8, FS_Union, FS_EmptySet
    <2> QED BY <2>5, <2>6, <2>9, <2>10 DEF g
<1>5. k \in Nat /\ k <= n
    BY <1>1 DEF n
<1>6. k \in S
    <2> HIDE DEF S
    <2>1. Nat \subseteq S
        BY <1>3, <1>4, NatSetInduction
    <2> QED BY <2>1, <1>5
<1> QED BY <1>5, <1>6

(* Each demand is in one part of the ring.                                 *)
LEMMA ArcsAre ==
    ASSUME ListingTypeOK, NEW k \in 1 .. Cardinality(Listed)
    PROVE  LET donut == Segments(CountsShown)
           IN  Cardinality({i \in DOMAIN donut :
                               donut[i].from < k /\ k <= donut[i].from + donut[i].length}) = 1
<1> DEFINE n == Cardinality(Occurring)
           donut == Segments(CountsShown)
           P(i) == Cardinality(CountedUpTo(i))
           arcs == {i \in DOMAIN donut :
                       donut[i].from < k /\ k <= donut[i].from + donut[i].length}
           T == {i \in 0 .. n : k <= P(i)}
<1>1. /\ n \in Nat /\ DOMAIN CountsShown = 1 .. n /\ CountedUpTo(n) = Listed
      /\ \A i \in 1 .. n : CountsShown[i][2] \in Nat
    BY CountsAre
<1>2. \A i \in 0 .. n : Total([j \in 1 .. i |-> CountsShown[j][2]]) = P(i)
    BY CountedAre
<1>3. \A i \in 0 .. n : P(i) \in Nat
    <2>1. \A i \in 0 .. n : CountedUpTo(i) \in SUBSET Listed
        BY DEF CountedUpTo
    <2> QED BY <2>1, RowsAre
<1>4. ASSUME NEW i \in 1 .. n
      PROVE  /\ donut[i].from = P(i - 1) /\ donut[i].from + donut[i].length = P(i)
    <2>1. /\ donut[i].from = Total([j \in 1 .. i - 1 |-> CountsShown[j][2]])
          /\ donut[i].length = CountsShown[i][2]
        BY <1>1 DEF Segments
    <2>2. i - 1 \in 0 .. n /\ i \in 0 .. n /\ i - 1 \in Nat /\ (i - 1) + 1 = i
        BY <1>1
    <2> DEFINE f == [j \in 1 .. (i - 1) + 1 |-> CountsShown[j][2]]
    <2>3. f \in [1 .. (i - 1) + 1 -> Nat] /\ f[(i - 1) + 1] = CountsShown[i][2]
          /\ [j \in 1 .. i - 1 |-> f[j]] = [j \in 1 .. i - 1 |-> CountsShown[j][2]]
        BY <1>1, <2>2
    <2>4. f = [j \in 1 .. i |-> CountsShown[j][2]]
        BY <2>2
    <2> HIDE DEF f
    <2>5. Total(f) = Total([j \in 1 .. i - 1 |-> CountsShown[j][2]]) + CountsShown[i][2]
        BY <2>2, <2>3, TotalGrows
    <2>6. Total(f) = P(i) /\ Total([j \in 1 .. i - 1 |-> CountsShown[j][2]]) = P(i - 1)
        BY <1>2, <2>2, <2>4
    <2> QED BY <2>1, <2>5, <2>6
<1>5. DOMAIN donut = 1 .. n
    BY <1>1 DEF Segments
<1>6. ASSUME NEW i \in 0 .. n, NEW j \in 0 .. n, i <= j PROVE P(i) <= P(j)
    <2>1. 1 .. i \subseteq 1 .. j
        BY <1>1, <1>6
    <2>2. CountedUpTo(i) \in SUBSET CountedUpTo(j) /\ CountedUpTo(j) \in SUBSET Listed
        BY <2>1 DEF CountedUpTo
    <2>3. IsFiniteSet(CountedUpTo(j))
        BY <2>2, RowsAre
    <2> QED BY <2>2, <2>3, FS_Subset
<1>7. P(0) = 0 /\ P(n) = Cardinality(Listed)
    <2>1. CountedUpTo(0) = {}
        BY DEF CountedUpTo
    <2> QED BY <2>1, <1>1, FS_EmptySet
<1> HIDE DEF n, donut, P
<1>8. k \in Nat /\ k <= P(n) /\ ~(k <= P(0))
    <2>1. Cardinality(Listed) \in Nat
        BY RowsAre
    <2> QED BY <2>1, <1>7
<1>9. PICK i \in T : \A j \in T : i <= j
    <2>1. T \subseteq Nat /\ n \in T
        BY <1>1, <1>8
    <2> HIDE DEF T
    <2> QED BY <2>1, LeastOf
<1>10. i \in 1 .. n /\ k <= P(i) /\ P(i - 1) < k
    <2>1. i \in 0 .. n /\ i # 0 /\ k <= P(i)
        BY <1>8, <1>9
    <2>2. i - 1 \in 0 .. n /\ ~(i <= i - 1)
        BY <2>1, <1>1
    <2>3. ~(k <= P(i - 1))
        BY <2>2, <1>9
    <2> QED BY <2>1, <2>2, <2>3, <1>1, <1>3, <1>8
<1>11. ASSUME NEW j \in 1 .. n, P(j - 1) < k, k <= P(j) PROVE j = i
    <2>1. i - 1 \in 0 .. n /\ j - 1 \in 0 .. n /\ i \in 0 .. n /\ j \in 0 .. n
        BY <1>1, <1>10
    <2>2. P(i) \in Nat /\ P(j) \in Nat /\ P(i - 1) \in Nat /\ P(j - 1) \in Nat
        BY <2>1, <1>3
    <2>3. ~(i <= j - 1)
        BY <2>1, <2>2, <1>6, <1>8, <1>10, <1>11
    <2>4. ~(j <= i - 1)
        BY <2>1, <2>2, <1>6, <1>8, <1>10, <1>11
    <2> QED BY <2>1, <2>3, <2>4
<1>12. arcs = {i}
    BY <1>4, <1>5, <1>10, <1>11
<1> QED BY <1>12, FS_Singleton DEF donut

(* What the page counts adds up.                                           *)
LEMMA AnalyticsAre == ListingInv => AnalyticsAddUp
<1> DEFINE most == ToSet(EscrowByRequest)
<1> SUFFICES ASSUME ListingInv, analytics # <<>>
             PROVE  /\ Total([i \in DOMAIN CountsShown |-> CountsShown[i][2]]) = Cardinality(Listed)
                    /\ \A k \in 1 .. Cardinality(Listed) :
                           Cardinality({i \in DOMAIN Segments(CountsShown) :
                               LET arc == Segments(CountsShown)[i]
                               IN  arc.from < k /\ k <= arc.from + arc.length}) = 1
                    /\ \A i \in DOMAIN Bars(EscrowByRequest) :
                           /\ Bars(EscrowByRequest)[i] <= 100
                           /\ i = 1 => Bars(EscrowByRequest)[i] = 100
                    /\ \A d \in Listed \ most, e \in most : rows[d].committed <= rows[e].committed
                    /\ Len(EscrowByRequest) < MostEscrow =>
                           Total([d \in most |-> rows[d].committed])
                               = Total([d \in Listed |-> rows[d].committed])
                    /\ StatusCount("FULFILLED") > 0 <=> Len(RecentlyFulfilled) > 0
    <2>1. ASSUME ListingInv, analytics # <<>>
          PROVE  /\ analytics.counts = CountsShown /\ analytics.total = Cardinality(Listed)
                 /\ analytics.donut = Segments(CountsShown)
                 /\ analytics.bars = Bars(EscrowByRequest) /\ analytics.most = EscrowByRequest
                 /\ analytics.escrow = Total([d \in Listed |-> rows[d].committed])
                 /\ analytics.fulfilled = StatusCount("FULFILLED")
                 /\ analytics.latest = RecentlyFulfilled
        BY <2>1 DEF ListingInv, Analytics
    <2> QED BY <2>1 DEF AnalyticsAddUp
<1>1. ListingTypeOK
    BY DEF ListingInv
<1>2. Total([i \in DOMAIN CountsShown |-> CountsShown[i][2]]) = Cardinality(Listed)
    <2>1. /\ Cardinality(Occurring) \in Nat /\ DOMAIN CountsShown = 1 .. Cardinality(Occurring)
          /\ CountedUpTo(Cardinality(Occurring)) = Listed
        BY <1>1, CountsAre
    <2>2. Cardinality(Occurring) \in 0 .. Cardinality(Occurring)
        BY <2>1
    <2> QED BY <2>1, <2>2, <1>1, CountedAre
<1>3. ASSUME Len(EscrowByRequest) < MostEscrow
      PROVE  Total([d \in most |-> rows[d].committed]) = Total([d \in Listed |-> rows[d].committed])
    <2>1. most = Escrowed
        BY <1>1, <1>3, MostAre
    <2> QED BY <2>1, <1>1, EscrowIsAll
<1>4. StatusCount("FULFILLED") > 0 <=> Len(RecentlyFulfilled) > 0
    <2> DEFINE F == {d \in Listed : rows[d].status = "FULFILLED"}
               R == {p \in Listed \X Listed : p[1] > p[2]}
               list == InOrder(F, R)
    <2>1. F \in SUBSET Listed /\ IsFiniteSet(F) /\ Cardinality(F) \in Nat
        BY <1>1, RowsAre
    <2>2. Orders(R, F)
        <3>1. \A d, e \in F : <<d, e>> \in R <=> d > e
            OBVIOUS
        <3>2. \A d \in F : d \in Nat
            BY <1>1, <2>1, RowsAre
        <3> HIDE DEF R, F
        <3> QED BY <3>1, <3>2 DEF Orders
    <2>3. RecentlyFulfilled = FirstOf(list, Latest) /\ StatusCount("FULFILLED") = Cardinality(F)
        BY DEF RecentlyFulfilled, StatusCount
    <2> HIDE DEF R, F
    <2>4. list \in Seq(F) /\ Len(list) = Cardinality(F)
        BY <2>1, <2>2, InOrderSequence
    <2>5. Latest \in Nat \ {0}
        BY ListingAssumption
    <2> HIDE DEF list
    <2>6. Len(RecentlyFulfilled) = IF Len(list) < Latest THEN Len(list) ELSE Latest
        BY <2>3, <2>4, <2>5, FirstIs
    <2> QED BY <2>1, <2>3, <2>4, <2>5, <2>6
<1> QED BY <1>1, <1>2, <1>3, <1>4, ArcsAre, BarsAre, MostAre

(* The page is shown once, of rows and a choice that stay.                 *)
LEMMA ListingAlways == ListingSpec => []ListingInv
<1>1. ListingInit => ListingInv
    <2> SUFFICES ASSUME ListingInit PROVE ListingInv
        OBVIOUS
    <2>1. filter \in [search : Search, status : ListedStatus \cup {"ALL"}, sort : MarketSort]
        BY DEF ListingInit
    <2> QED BY <2>1 DEF ListingInit, ListingInv, ListingTypeOK
<1>2. ListingInv /\ [Show]_listingVars => ListingInv'
    <2> SUFFICES ASSUME ListingInv, [Show]_listingVars PROVE ListingInv'
        OBVIOUS
    <2>1. rows' = rows /\ filter' = filter
        BY DEF Show, listingVars
    <2>2. ListingTypeOK'
        BY <2>1 DEF ListingInv, ListingTypeOK
    <2>3. InOrder(Requests, ListedOrder)' = InOrder(Requests, ListedOrder)
        BY <2>1 DEF Requests, MatchesStatus, MatchesSearch, ListedOrder, ListedBefore
    <2>4. Analytics' = Analytics
        BY <2>1 DEF Analytics, StatusCount, CountsShown, Segments, EscrowByRequest, Bars,
                    RecentlyFulfilled, MoreEscrow, Occurring
    <2>5. CASE Show
        BY <2>2, <2>3, <2>4, <2>5 DEF Show, ListingInv
    <2>6. CASE UNCHANGED listingVars
        BY <2>2, <2>3, <2>4, <2>6 DEF listingVars, ListingInv
    <2> QED BY <2>5, <2>6
<1> QED BY <1>1, <1>2, PTL DEF ListingSpec

(* The page's list has what matches and its counts add up, for any demands *)
(* on the board, amounts, searches and limits of what is shown.            *)
THEOREM ListingTellsTruth == ListingSpec => [](ListIsWhole /\ AnalyticsAddUp)
<1>1. ListingInv => ListIsWhole /\ AnalyticsAddUp
    BY ListedAre, AnalyticsAre
<1> QED BY <1>1, ListingAlways, PTL

-------------------------------------------------------------------------------
(* The history and the snapshot.                                           *)

InsightsSpec == InsightsInit /\ [][InsightsNext]_insightsVars

(* Some g has what is read of the first n events.                          *)
ReadsUpTo(es, to, n, g) ==
    /\ g[0] = NoHistory
    /\ \A i \in 1 .. n : g[i] = Take(g[i - 1], es[i], to)

(* What is read of so many events depends on no later one.                 *)
LEMMA SameReading ==
    ASSUME NEW es, NEW fs, NEW to, NEW m \in Nat, NEW n \in Nat, m <= n, NEW g, NEW f,
           ReadsUpTo(es, to, n, g), ReadsUpTo(fs, to, m, f), \A i \in 1 .. m : es[i] = fs[i]
    PROVE  \A i \in 0 .. m : g[i] = f[i]
<1> DEFINE S == {i \in Nat : i <= m => g[i] = f[i]}
<1>1. 0 \in S
    BY DEF ReadsUpTo
<1>2. ASSUME NEW i \in Nat, i \in S PROVE i + 1 \in S
    <2> SUFFICES ASSUME i + 1 <= m PROVE g[i + 1] = f[i + 1]
        OBVIOUS
    <2>1. i + 1 \in 1 .. m /\ i + 1 \in 1 .. n /\ i + 1 - 1 = i /\ i <= m
        OBVIOUS
    <2>2. g[i] = f[i]
        BY <1>2, <2>1
    <2>3. g[i + 1] = Take(g[i + 1 - 1], es[i + 1], to)
        BY <2>1 DEF ReadsUpTo
    <2>4. f[i + 1] = Take(f[i + 1 - 1], fs[i + 1], to)
        BY <2>1 DEF ReadsUpTo
    <2> QED BY <2>1, <2>2, <2>3, <2>4
<1> HIDE DEF S
<1>3. Nat \subseteq S
    BY <1>1, <1>2, NatSetInduction
<1> QED BY <1>3 DEF S

(* Any number of events can be read.                                       *)
LEMMA SomeReading ==
    ASSUME NEW es, NEW to
    PROVE  \A n \in Nat : \E g : ReadsUpTo(es, to, n, g)
<1> DEFINE S == {n \in Nat : \E g : ReadsUpTo(es, to, n, g)}
<1>1. 0 \in S
    <2> DEFINE g == [i \in {0} |-> NoHistory]
    <2>1. g[0] = NoHistory
        OBVIOUS
    <2> HIDE DEF g
    <2>2. ReadsUpTo(es, to, 0, g)
        BY <2>1 DEF ReadsUpTo
    <2> QED BY <2>2
<1>2. ASSUME NEW n \in Nat, n \in S PROVE n + 1 \in S
    <2>1. PICK g : ReadsUpTo(es, to, n, g)
        BY <1>2
    <2> DEFINE f == [i \in 0 .. n + 1 |->
                        IF i = n + 1 THEN Take(g[n], es[n + 1], to) ELSE g[i]]
    <2>2. /\ \A i \in 0 .. n : f[i] = g[i]
          /\ f[n + 1] = Take(g[n], es[n + 1], to)
        OBVIOUS
    <2> HIDE DEF f
    <2>3. f[0] = NoHistory
        BY <2>1, <2>2 DEF ReadsUpTo
    <2>4. ASSUME NEW i \in 1 .. n + 1 PROVE f[i] = Take(f[i - 1], es[i], to)
        <3>1. CASE i = n + 1
            <4>1. i - 1 = n /\ n \in 0 .. n
                BY <3>1
            <4>2. f[i - 1] = g[n]
                BY <2>2, <4>1
            <4> QED BY <2>2, <3>1, <4>2
        <3>2. CASE i # n + 1
            <4>1. i \in 1 .. n /\ i \in 0 .. n /\ i - 1 \in 0 .. n
                BY <3>2
            <4>2. f[i] = g[i] /\ f[i - 1] = g[i - 1]
                BY <2>2, <4>1
            <4>3. g[i] = Take(g[i - 1], es[i], to)
                BY <2>1, <4>1 DEF ReadsUpTo
            <4> QED BY <4>2, <4>3
        <3> QED BY <3>1, <3>2
    <2>5. ReadsUpTo(es, to, n + 1, f)
        BY <2>3, <2>4 DEF ReadsUpTo
    <2> QED BY <2>5
<1> HIDE DEF S
<1>3. Nat \subseteq S
    BY <1>1, <1>2, NatSetInduction
<1> QED BY <1>3 DEF S

(* The history is what is read of all events.                              *)
LEMMA HistoryIs ==
    ASSUME NEW es, Len(es) \in Nat, NEW to, NEW g, ReadsUpTo(es, to, Len(es), g)
    PROVE  HistoryUpTo(es, to) = g[Len(es)]
<1> DEFINE n == Len(es)
           B(f, k) == IF k = 0 THEN NoHistory ELSE Take(f[k - 1], es[k], to)
           F == CHOOSE f : f = [k \in 0 .. Len(es) |-> B(f, k)]
           f0 == [k \in 0 .. Len(es) |-> g[k]]
<1>1. HistoryUpTo(es, to) = F[Len(es)]
    BY DEF HistoryUpTo
<1>2. n \in Nat
    OBVIOUS
<1>3. ASSUME NEW k \in 0 .. n PROVE f0[k] = B(f0, k)
    <2>1. CASE k = 0
        BY <2>1 DEF ReadsUpTo
    <2>2. CASE k # 0
        <3>1. k \in 1 .. n /\ k - 1 \in 0 .. n
            BY <2>2
        <3>2. g[k] = Take(g[k - 1], es[k], to)
            BY <3>1 DEF ReadsUpTo
        <3>3. f0[k] = g[k] /\ f0[k - 1] = g[k - 1]
            BY <3>1
        <3> HIDE DEF f0
        <3> QED BY <2>2, <3>2, <3>3
    <2> QED BY <2>1, <2>2
<1>4. f0 = [k \in 0 .. Len(es) |-> B(f0, k)]
    <2>1. f0 = [k \in 0 .. n |-> f0[k]]
        OBVIOUS
    <2> HIDE DEF f0, B
    <2> QED BY <1>3, <2>1
<1> HIDE DEF f0
<1>5. \E f : f = [k \in 0 .. Len(es) |-> B(f, k)]
    BY <1>4
<1>6. F = [k \in 0 .. Len(es) |-> B(F, k)]
    BY <1>5
<1> HIDE DEF F
<1>7. ReadsUpTo(es, to, n, F)
    <2>1. 0 \in 0 .. n /\ F[0] = B(F, 0)
        BY <1>6
    <2>2. ASSUME NEW i \in 1 .. n PROVE F[i] = Take(F[i - 1], es[i], to)
        <3>1. i \in 0 .. n /\ i # 0
            OBVIOUS
        <3>2. F[i] = B(F, i)
            BY <1>6, <3>1
        <3> QED BY <3>1, <3>2
    <2> QED BY <2>1, <2>2 DEF ReadsUpTo
<1> HIDE DEF B
<1>8. \A i \in 0 .. n : F[i] = g[i]
    BY <1>2, <1>7, SameReading
<1>9. n \in 0 .. n
    BY <1>2
<1> QED BY <1>1, <1>8, <1>9

(* Nothing is read of no events, and one event more is taken last.         *)
LEMMA HistoryGrows ==
    ASSUME NEW T, NEW es \in Seq(T), NEW e \in T, NEW to
    PROVE  HistoryUpTo(Append(es, e), to) = Take(HistoryUpTo(es, to), e, to)
<1> DEFINE n == Len(es)
           fs == Append(es, e)
<1>1. /\ n \in Nat /\ Len(fs) = n + 1 /\ n + 1 \in Nat
      /\ \A i \in 1 .. n : es[i] = fs[i]
      /\ fs[n + 1] = e
    OBVIOUS
<1> HIDE DEF n, fs
<1>2. PICK g : ReadsUpTo(fs, to, n + 1, g)
    BY <1>1, SomeReading
<1>3. PICK m \in 1 .. n + 1 : m = n + 1
    BY <1>1
<1>4. HistoryUpTo(fs, to) = Take(g[n], e, to)
    <2>1. HistoryUpTo(fs, to) = g[m]
        BY <1>1, <1>2, <1>3, HistoryIs
    <2>2. g[m] = Take(g[m - 1], fs[m], to)
        BY <1>2 DEF ReadsUpTo
    <2>3. m - 1 = n /\ fs[m] = e
        BY <1>1, <1>3
    <2> QED BY <2>1, <2>2, <2>3
<1>5. ReadsUpTo(es, to, n, g)
    <2>1. g[0] = NoHistory
        BY <1>2 DEF ReadsUpTo
    <2>2. ASSUME NEW i \in 1 .. n PROVE g[i] = Take(g[i - 1], es[i], to)
        <3>1. i \in 1 .. n + 1
            BY <1>1
        <3> QED BY <1>1, <1>2, <3>1 DEF ReadsUpTo
    <2> QED BY <2>1, <2>2 DEF ReadsUpTo
<1>6. HistoryUpTo(es, to) = g[n]
    BY <1>1, <1>5, HistoryIs DEF n
<1> QED BY <1>4, <1>6 DEF fs

(* Nothing has happened yet.                                               *)
LEMMA HistoryOfNone ==
    ASSUME NEW to
    PROVE  HistoryUpTo(<<>>, to) = NoHistory
<1>1. Len(<<>>) = 0
    OBVIOUS
<1>2. PICK g : ReadsUpTo(<<>>, to, 0, g)
    BY SomeReading
<1>3. HistoryUpTo(<<>>, to) = g[0]
    BY <1>1, <1>2, HistoryIs
<1> QED BY <1>2, <1>3 DEF ReadsUpTo

(* The rows of the store.                                                  *)
EventRow ==
    [name : {"DemandFulfilled", "DemandClosed", "SettlementCancelled", "Refunded"},
     demandId : Nat, time : Nat]
        \cup [name : {"DemandCreated"}, demandId : Nat, time : Nat, demandKey : DemandKey]
        \cup [name : {"DemandSupported"}, demandId : Nat, time : Nat,
              supporter : Supporter, amount : Nat]
        \cup [name : {"ServiceSubmitted", "SubmissionRejected"}, demandId : Nat, time : Nat,
              nonce : Nat]

HistoryType ==
    [created : SUBSET (Nat \X Nat), keys : SUBSET DemandKey,
     submissions : SUBSET (Nat \X Nat), reopens : SUBSET (Nat \X Nat), fulfilled : SUBSET Nat,
     pairs : SUBSET (Nat \X Supporter), repeats : Nat, gross : Nat, windowGross : Nat,
     newPairs : Nat, duration : Nat, invalid : BOOLEAN]

InsightsTypeOK ==
    /\ clock \in 0 .. MaxClock /\ left \in Nat
    /\ market \in Seq(Entry) /\ events \in Seq(EventRow)

(* What is known of a demand m.                                            *)
DemandSound(m) ==
    /\ m.created <= clock
    /\ \A s \in Supporter : m.since[s] <= clock \/ m.since[s] = NeverYet
    /\ m.builder => m.nonce > 0
    /\ m.status = "OPEN" => ~m.builder
    /\ m.status = "SUBMITTED" => m.builder
    /\ m.status = "FULFILLED" => m.created <= m.fulfilled /\ m.fulfilled <= clock

(* What the demands say of their creations, of what is in escrow, of who   *)
(* has supported and since when, of candidates and of fulfilments.         *)
Creations == {<<d, market[d].created>> : d \in Ids}
KeysUsed  == {market[d].key : d \in Ids}
Stakes    == [d \in Ids |-> Total(market[d].stake)]
Pairs     == {p \in Ids \X Supporter : market[p[1]].since[p[2]] < NeverYet}
NewIn(to) == {p \in Pairs : market[p[1]].since[p[2]] > From(to)}
Sent      == [d \in Ids |-> market[d].nonce]
Rejected  == [d \in Ids |-> IF market[d].builder THEN market[d].nonce - 1 ELSE market[d].nonce]
Done      == {d \in Ids : market[d].status = "FULFILLED"}
Took      == [d \in Done |-> market[d].fulfilled - market[d].created]

(* The history up to some time says the same.                              *)
Told(h, to) ==
    /\ h \in HistoryType /\ ~h.invalid
    /\ h.created = Creations /\ h.keys = KeysUsed
    /\ h.repeats = Len(market) - Cardinality(KeysUsed)
    /\ h.gross = Total(Stakes) + left
    /\ h.pairs = Pairs /\ h.newPairs = Cardinality(NewIn(to))
    /\ h.submissions = Units(Sent) /\ h.reopens = Units(Rejected)
    /\ h.fulfilled = Done /\ h.duration = Total(Took)

(* The same events will be read as late as one likes.                      *)
InsightsInv ==
    /\ InsightsTypeOK
    /\ \A d \in Ids : DemandSound(market[d])
    /\ \A to \in Nat : clock <= to => Told(HistoryUpTo(events, to), to)

(* Types of a sequence of demands and of what is added up from them.       *)
LEMMA MarketTypes ==
    ASSUME InsightsTypeOK, \A d \in Ids : DemandSound(market[d])
    PROVE  /\ Len(market) \in Nat /\ Ids = 1 .. Len(market) /\ IsFiniteSet(Ids)
           /\ Cardinality(Ids) = Len(market)
           /\ IsFiniteSet(Supporter)
           /\ clock \in Nat /\ MaxClock \in Nat /\ NeverYet \in Nat /\ clock < NeverYet
           /\ \A d \in Ids : /\ market[d] \in Entry
                             /\ market[d].stake \in [Supporter -> Nat]
                             /\ Total(market[d].stake) \in Nat
           /\ Stakes \in [Ids -> Nat] /\ Sent \in [Ids -> Nat] /\ Rejected \in [Ids -> Nat]
           /\ Done \subseteq Ids /\ IsFiniteSet(Done) /\ Took \in [Done -> Nat]
           /\ Total(Stakes) \in Nat /\ Total(Took) \in Nat
<1>1. /\ market \in Seq(Entry) /\ clock \in 0 .. MaxClock
    BY DEF InsightsTypeOK
<1>2. /\ Len(market) \in Nat /\ Ids = 1 .. Len(market) /\ \A d \in Ids : market[d] \in Entry
    BY <1>1 DEF Ids
<1>3. IsFiniteSet(Ids) /\ Cardinality(Ids) = Len(market)
    <2>1. PICK n \in Nat : n = Len(market)
        BY <1>2
    <2>2. IsFiniteSet(1 .. n) /\ Cardinality(1 .. n) = IF 1 > n THEN 0 ELSE n - 1 + 1
        BY FS_Interval
    <2>3. Cardinality(1 .. n) = n
        BY <2>2
    <2> QED BY <1>2, <2>1, <2>2, <2>3
<1>4. /\ IsFiniteSet(Supporter) /\ clock \in Nat /\ MaxClock \in Nat /\ NeverYet \in Nat
      /\ clock < NeverYet
    BY <1>1, InsightsAssumption DEF NeverYet
<1>5. ASSUME NEW d \in Ids
      PROVE  /\ market[d].stake \in [Supporter -> Nat] /\ Total(market[d].stake) \in Nat
             /\ market[d].nonce \in Nat /\ market[d].builder \in BOOLEAN
             /\ market[d].builder => market[d].nonce - 1 \in Nat
             /\ market[d].status = "FULFILLED" => market[d].fulfilled - market[d].created \in Nat
    <2>1. /\ market[d].stake \in [Supporter -> Nat]
          /\ market[d].nonce \in Nat /\ market[d].builder \in BOOLEAN
          /\ market[d].fulfilled \in Nat /\ market[d].created \in Nat
        BY <1>2, <1>4 DEF Entry
    <2>2. Total(market[d].stake) \in Nat
        BY <2>1, <1>4, TotalType
    <2>3. DemandSound(market[d])
        OBVIOUS
    <2> QED BY <2>1, <2>2, <2>3 DEF DemandSound
<1>6. Stakes \in [Ids -> Nat] /\ Sent \in [Ids -> Nat]
    BY <1>5 DEF Stakes, Sent
<1>7. Rejected \in [Ids -> Nat]
    BY <1>5 DEF Rejected
<1>8. Done \in SUBSET Ids /\ Took \in [Done -> Nat]
    BY <1>5 DEF Done, Took
<1>9. IsFiniteSet(Done)
    BY <1>3, <1>8, FS_Subset
<1>10. Total(Stakes) \in Nat /\ Total(Took) \in Nat
    BY <1>3, <1>6, <1>8, <1>9, TotalType
<1> QED BY <1>2, <1>3, <1>4, <1>5, <1>6, <1>7, <1>8, <1>9, <1>10

(* What a step that changes one demand leaves as it was.                   *)
LEMMA OneChanges ==
    ASSUME InsightsTypeOK, \A c \in Ids : DemandSound(market[c]),
           NEW d \in Ids, NEW m \in Entry, market' = [market EXCEPT ![d] = m]
    PROVE  /\ market' \in Seq(Entry) /\ Len(market') = Len(market) /\ Ids' = Ids
           /\ market'[d] = m /\ \A c \in Ids : c # d => market'[c] = market[c]
           /\ Total(m.stake) \in Nat
           /\ Total(Stakes)' = Total(Stakes) - Total(market[d].stake) + Total(m.stake)
           /\ m.created = market[d].created => Creations' = Creations
           /\ m.key = market[d].key => KeysUsed' = KeysUsed
           /\ m.since = market[d].since => Pairs' = Pairs /\ \A to : NewIn(to)' = NewIn(to)
           /\ m.nonce = market[d].nonce /\ m.builder = market[d].builder
                  => Sent' = Sent /\ Rejected' = Rejected
           /\ /\ m.status = "FULFILLED" <=> market[d].status = "FULFILLED"
              /\ m.created = market[d].created /\ m.fulfilled = market[d].fulfilled
              => Done' = Done /\ Took' = Took
<1>1. /\ Len(market) \in Nat /\ Ids = 1 .. Len(market) /\ IsFiniteSet(Ids) /\ IsFiniteSet(Supporter)
      /\ market \in Seq(Entry) /\ Stakes \in [Ids -> Nat] /\ Total(market[d].stake) \in Nat
    BY MarketTypes DEF InsightsTypeOK
<1>2. /\ market' \in Seq(Entry) /\ Len(market') = Len(market)
      /\ market'[d] = m /\ \A c \in Ids : c # d => market'[c] = market[c]
    BY <1>1, ExceptSeq
<1>3. Ids' = Ids
    BY <1>1, <1>2 DEF Ids
<1>4. Total(m.stake) \in Nat
    BY <1>1, TotalType DEF Entry
<1>5. Total(Stakes)' = Total(Stakes) - Total(market[d].stake) + Total(m.stake)
    <2>1. PICK n \in Nat : n = Total(m.stake)
        BY <1>4
    <2>2. Stakes' = [c \in Ids |-> Total(market'[c].stake)]
        BY <1>3 DEF Stakes
    <2>3. \A c \in Ids : Total(market'[c].stake) = IF c = d THEN n ELSE Stakes[c]
        BY <1>2, <2>1 DEF Stakes
    <2>4. Stakes' = [Stakes EXCEPT ![d] = n]
        BY <1>1, <2>2, <2>3
    <2>5. Stakes[d] = Total(market[d].stake)
        BY DEF Stakes
    <2>6. Total([Stakes EXCEPT ![d] = n]) = Total(Stakes) - Stakes[d] + n
        BY <1>1, TotalUpdate
    <2>7. Total(Stakes)' = Total(Stakes')
        OBVIOUS
    <2> QED BY <2>1, <2>4, <2>5, <2>6, <2>7
<1>6. m.created = market[d].created => Creations' = Creations
    BY <1>2, <1>3 DEF Creations
<1>7. m.key = market[d].key => KeysUsed' = KeysUsed
    BY <1>2, <1>3 DEF KeysUsed
<1>8. ASSUME m.since = market[d].since
      PROVE  Pairs' = Pairs /\ \A to : NewIn(to)' = NewIn(to)
    <2>1. \A c \in Ids : market'[c].since = market[c].since
        BY <1>2, <1>8
    <2>2. Pairs' = Pairs
        BY <1>3, <2>1 DEF Pairs
    <2>3. \A p \in Pairs : market'[p[1]].since = market[p[1]].since
        BY <2>1 DEF Pairs
    <2> QED BY <2>2, <2>3 DEF NewIn
<1>9. m.nonce = market[d].nonce /\ m.builder = market[d].builder
          => Sent' = Sent /\ Rejected' = Rejected
    BY <1>2, <1>3 DEF Sent, Rejected
<1>10. /\ m.status = "FULFILLED" <=> market[d].status = "FULFILLED"
       /\ m.created = market[d].created /\ m.fulfilled = market[d].fulfilled
       => Done' = Done /\ Took' = Took
    BY <1>2, <1>3 DEF Done, Took
<1> QED BY <1>1, <1>2, <1>3, <1>4, <1>5, <1>6, <1>7, <1>8, <1>9, <1>10

(* A step that emits one event has it taken last.                          *)
LEMMA EmitsOne ==
    ASSUME events \in Seq(EventRow), NEW e \in EventRow, Emit(<<e>>)
    PROVE  /\ events' \in Seq(EventRow)
           /\ \A to : HistoryUpTo(events', to) = Take(HistoryUpTo(events, to), e, to)
<1>1. events' = Append(events, e)
    BY AppendIsConcat DEF Emit
<1>2. Append(events, e) \in Seq(EventRow)
    OBVIOUS
<1>3. \A to : HistoryUpTo(Append(events, e), to) = Take(HistoryUpTo(events, to), e, to)
    BY HistoryGrows
<1> QED BY <1>1, <1>2, <1>3

(* Two events are taken one after the other.                               *)
LEMMA EmitsTwo ==
    ASSUME events \in Seq(EventRow), NEW a \in EventRow, NEW b \in EventRow, Emit(<<a, b>>)
    PROVE  /\ events' \in Seq(EventRow)
           /\ \A to : HistoryUpTo(events', to)
                          = Take(Take(HistoryUpTo(events, to), a, to), b, to)
<1> DEFINE es == Append(events, a)
<1>1. es \in Seq(EventRow) /\ Append(es, b) \in Seq(EventRow)
    OBVIOUS
<1>2. events' = Append(es, b)
    BY DEF Emit
<1>3. \A to : HistoryUpTo(es, to) = Take(HistoryUpTo(events, to), a, to)
    BY HistoryGrows
<1> HIDE DEF es
<1>4. \A to : HistoryUpTo(Append(es, b), to) = Take(HistoryUpTo(es, to), b, to)
    BY <1>1, HistoryGrows
<1> QED BY <1>1, <1>2, <1>3, <1>4

(* One event after another is two.                                         *)
LEMMA TwoInOrder ==
    ASSUME NEW T, NEW a \in T, NEW b \in T
    PROVE  <<a>> \o <<b>> = <<a, b>>
<1>1. <<a>> \in Seq(T) /\ <<b>> \in Seq(T) /\ <<a, b>> \in Seq(T)
    OBVIOUS
<1>2. Len(<<a>>) = 1 /\ Len(<<b>>) = 1 /\ Len(<<a, b>>) = 2
    OBVIOUS
<1>3. <<a>>[1] = a /\ <<b>>[1] = b /\ <<a, b>>[1] = a /\ <<a, b>>[2] = b
    OBVIOUS
<1> DEFINE x == <<a>>
           y == <<b>>
           z == <<a, b>>
<1> HIDE DEF x, y, z
<1>4. x \o y \in Seq(T) /\ Len(x \o y) = 2 /\ (x \o y)[1] = a /\ (x \o y)[2] = b
    BY <1>1, <1>2, <1>3, ConcatProperties DEF x, y
<1>5. \A i \in 1 .. 2 : (x \o y)[i] = z[i]
    BY <1>3, <1>4 DEF z
<1>6. z \in Seq(T) /\ Len(z) = 2
    BY <1>1, <1>2 DEF z
<1>7. x \o y = z
    BY <1>4, <1>5, <1>6, SeqEqual
<1> QED BY <1>7 DEF x, y, z

(* The events of the contract are rows.                                    *)
LEMMA EventIs ==
    ASSUME clock \in Nat, NEW d \in Nat,
           NEW name \in {"DemandFulfilled", "DemandClosed", "SettlementCancelled", "Refunded"}
    PROVE  /\ Event(name, d) \in EventRow /\ Event(name, d).name = name
           /\ Event(name, d).demandId = d /\ Event(name, d).time = clock
BY DEF Event, EventRow

(* So are those that create a demand,                                      *)
LEMMA CreationIs ==
    ASSUME clock \in Nat, NEW d \in Nat, NEW k \in DemandKey
    PROVE  LET e == Creation(d, k)
           IN  /\ e \in EventRow /\ e.name = "DemandCreated" /\ e.demandId = d
               /\ e.time = clock /\ e.demandKey = k
BY DEF Creation, EventRow

(* those that say of a supporter what was added,                           *)
LEMMA SupportIs ==
    ASSUME clock \in Nat, NEW d \in Nat, NEW s \in Supporter, NEW n \in Nat
    PROVE  LET e == Supported(d, s, n)
           IN  /\ e \in EventRow /\ e.name = "DemandSupported" /\ e.demandId = d
               /\ e.time = clock /\ e.supporter = s /\ e.amount = n
BY DEF Supported, EventRow

(* and those of a candidate.                                               *)
LEMMA CandidateIs ==
    ASSUME clock \in Nat, NEW d \in Nat, NEW n \in Nat,
           NEW name \in {"ServiceSubmitted", "SubmissionRejected"}
    PROVE  LET e == OfCandidate(name, d, n)
           IN  /\ e \in EventRow /\ e.name = name /\ e.demandId = d /\ e.time = clock
               /\ e.nonce = n
BY DEF OfCandidate, EventRow

(* Events that say nothing of what is counted.                             *)
LEMMA TakesNothing ==
    ASSUME NEW h, h.invalid = FALSE, NEW to \in Nat, NEW e, e.time \in Nat, e.time <= to,
           e.name \in {"DemandClosed", "SettlementCancelled", "Refunded"}
    PROVE  Take(h, e, to) = h
<1>1. ~h.invalid /\ ~(e.time > to)
    OBVIOUS
<1> QED BY <1>1 DEF Take

(* The first event of a demand.                                            *)
LEMMA TakesCreation ==
    ASSUME NEW h \in HistoryType, ~h.invalid, NEW to \in Nat,
           NEW at \in Nat, at <= to, NEW e, e.time = at, e.name = "DemandCreated",
           NEW d \in Nat, e.demandId = d, NEW k \in DemandKey, e.demandKey = k,
           \A c \in h.created : c[1] # d
    PROVE  \E g \in HistoryType :
              /\ g = Take(h, e, to)
              /\ g.created = h.created \cup {<<d, at>>}
              /\ g.keys = h.keys \cup {k}
              /\ g.repeats = IF k \in h.keys THEN h.repeats + 1 ELSE h.repeats
              /\ g.gross = h.gross /\ g.pairs = h.pairs /\ g.newPairs = h.newPairs
              /\ g.submissions = h.submissions /\ g.reopens = h.reopens
              /\ g.fulfilled = h.fulfilled /\ g.duration = h.duration /\ ~g.invalid
<1>1. /\ h.created \cup {<<d, at>>} \in SUBSET (Nat \X Nat)
      /\ h.keys \cup {k} \in SUBSET DemandKey
      /\ h.repeats \in Nat /\ h.repeats + 1 \in Nat
    BY DEF HistoryType
<1>2. PICK created \in SUBSET (Nat \X Nat), keys \in SUBSET DemandKey, repeats \in Nat :
         /\ created = h.created \cup {<<d, at>>}
         /\ keys = h.keys \cup {k}
         /\ repeats = IF k \in h.keys THEN h.repeats + 1 ELSE h.repeats
    BY <1>1
<1> DEFINE g == [h EXCEPT !.created = created, !.keys = keys, !.repeats = repeats]
<1>3. Take(h, e, to) = TakeCreated(h, e)
    BY DEF Take
<1>4. TakeCreated(h, e) = g
    BY <1>2 DEF TakeCreated
<1>5. g \in HistoryType
    BY DEF HistoryType
<1> QED BY <1>2, <1>3, <1>4, <1>5 DEF HistoryType

(* A support in time.                                                      *)
LEMMA TakesSupport ==
    ASSUME NEW h \in HistoryType, ~h.invalid, NEW to \in Nat,
           NEW at \in Nat, at <= to, NEW e, e.time = at, e.name = "DemandSupported",
           NEW d \in Nat, e.demandId = d, NEW s \in Supporter, e.supporter = s,
           NEW n \in Nat, e.amount = n
    PROVE  \E g \in HistoryType :
              /\ g = Take(h, e, to)
              /\ g.gross = h.gross + n
              /\ g.pairs = h.pairs \cup {<<d, s>>}
              /\ g.newPairs = IF <<d, s>> \notin h.pairs /\ at > From(to)
                              THEN h.newPairs + 1 ELSE h.newPairs
              /\ g.created = h.created /\ g.keys = h.keys /\ g.repeats = h.repeats
              /\ g.submissions = h.submissions /\ g.reopens = h.reopens
              /\ g.fulfilled = h.fulfilled /\ g.duration = h.duration /\ ~g.invalid
<1> DEFINE pair == <<d, s>>
<1>1. /\ h.pairs \cup {pair} \in SUBSET (Nat \X Supporter)
      /\ h.gross + n \in Nat /\ h.windowGross \in Nat /\ h.windowGross + n \in Nat
      /\ h.newPairs \in Nat /\ h.newPairs + 1 \in Nat
    BY DEF HistoryType
<1>2. PICK gross \in Nat, windowGross \in Nat, newPairs \in Nat,
           pairs \in SUBSET (Nat \X Supporter) :
         /\ gross = h.gross + n
         /\ windowGross = IF at > From(to) THEN h.windowGross + n ELSE h.windowGross
         /\ newPairs = IF NewPair(h, pair, at, to) THEN h.newPairs + 1 ELSE h.newPairs
         /\ pairs = h.pairs \cup {pair}
    BY <1>1
<1> DEFINE g == [h EXCEPT !.gross = gross, !.windowGross = windowGross,
                          !.newPairs = newPairs, !.pairs = pairs]
<1>3. Take(h, e, to) = TakeSupported(h, e, to)
    BY DEF Take
<1>4. TakeSupported(h, e, to) = g
    BY <1>2 DEF TakeSupported
<1>5. g \in HistoryType
    BY DEF HistoryType
<1>6. NewPair(h, pair, at, to) <=> pair \notin h.pairs /\ at > From(to)
    BY DEF NewPair
<1>7. /\ g.gross = gross /\ g.newPairs = newPairs /\ g.pairs = pairs
      /\ g.created = h.created /\ g.keys = h.keys /\ g.repeats = h.repeats
      /\ g.submissions = h.submissions /\ g.reopens = h.reopens
      /\ g.fulfilled = h.fulfilled /\ g.duration = h.duration /\ ~g.invalid
    BY DEF HistoryType
<1> HIDE DEF g
<1> QED BY <1>2, <1>3, <1>4, <1>5, <1>6, <1>7

(* A candidate that is proposed the first time.                            *)
LEMMA TakesProposal ==
    ASSUME NEW h \in HistoryType, ~h.invalid, NEW to \in Nat,
           NEW at \in Nat, at <= to, NEW e, e.time = at, e.name = "ServiceSubmitted",
           NEW d \in Nat, e.demandId = d, NEW n \in Nat, e.nonce = n,
           <<d, n>> \notin h.submissions
    PROVE  \E g \in HistoryType :
              /\ g = Take(h, e, to)
              /\ g.submissions = h.submissions \cup {<<d, n>>} /\ g.reopens = h.reopens
              /\ g.created = h.created /\ g.keys = h.keys /\ g.repeats = h.repeats
              /\ g.gross = h.gross /\ g.pairs = h.pairs /\ g.newPairs = h.newPairs
              /\ g.fulfilled = h.fulfilled /\ g.duration = h.duration /\ ~g.invalid
<1> DEFINE g == [h EXCEPT !.submissions = @ \cup {<<d, n>>}]
<1>1. Take(h, e, to) = TakeSubmission(h, e)
    BY DEF Take
<1>2. TakeSubmission(h, e) = g
    BY DEF TakeSubmission
<1>3. g \in HistoryType
    BY DEF HistoryType
<1> QED BY <1>1, <1>2, <1>3 DEF HistoryType

(* A candidate that is rejected the first time.                            *)
LEMMA TakesRejection ==
    ASSUME NEW h \in HistoryType, ~h.invalid, NEW to \in Nat,
           NEW at \in Nat, at <= to, NEW e, e.time = at, e.name = "SubmissionRejected",
           NEW d \in Nat, e.demandId = d, NEW n \in Nat, e.nonce = n,
           <<d, n>> \notin h.reopens
    PROVE  \E g \in HistoryType :
              /\ g = Take(h, e, to)
              /\ g.reopens = h.reopens \cup {<<d, n>>} /\ g.submissions = h.submissions
              /\ g.created = h.created /\ g.keys = h.keys /\ g.repeats = h.repeats
              /\ g.gross = h.gross /\ g.pairs = h.pairs /\ g.newPairs = h.newPairs
              /\ g.fulfilled = h.fulfilled /\ g.duration = h.duration /\ ~g.invalid
<1> DEFINE g == [h EXCEPT !.reopens = @ \cup {<<d, n>>}]
<1>1. Take(h, e, to) = TakeSubmission(h, e)
    BY DEF Take
<1>2. TakeSubmission(h, e) = g
    BY DEF TakeSubmission
<1>3. g \in HistoryType
    BY DEF HistoryType
<1> QED BY <1>1, <1>2, <1>3 DEF HistoryType

(* The fulfilment of a demand that was created before.                     *)
LEMMA TakesFulfilment ==
    ASSUME NEW h \in HistoryType, ~h.invalid, NEW to \in Nat,
           NEW at \in Nat, at <= to, NEW e, e.time = at, e.name = "DemandFulfilled",
           NEW d \in Nat, e.demandId = d, d \notin h.fulfilled,
           NEW t \in Nat, t <= at,
           {x \in h.created : x[1] = d} = {<<d, t>>}
    PROVE  \E g \in HistoryType :
              /\ g = Take(h, e, to)
              /\ g.fulfilled = h.fulfilled \cup {d}
              /\ g.duration = h.duration + (at - t)
              /\ g.created = h.created /\ g.keys = h.keys /\ g.repeats = h.repeats
              /\ g.gross = h.gross /\ g.pairs = h.pairs /\ g.newPairs = h.newPairs
              /\ g.submissions = h.submissions /\ g.reopens = h.reopens /\ ~g.invalid
<1> DEFINE c == CHOOSE x \in h.created : x[1] = d
<1>1. /\ h.fulfilled \cup {d} \in SUBSET Nat
      /\ h.duration + (at - t) \in Nat
    BY DEF HistoryType
<1>2. PICK fulfilled \in SUBSET Nat, duration \in Nat :
         fulfilled = h.fulfilled \cup {d} /\ duration = h.duration + (at - t)
    BY <1>1
<1> DEFINE g == [h EXCEPT !.fulfilled = fulfilled, !.duration = duration]
<1>3. Take(h, e, to) = TakeFulfilled(h, e)
    BY DEF Take
<1>4. c = <<d, t>> /\ c[2] = t
    OBVIOUS
<1>5. \E x \in h.created : x[1] = d /\ x[2] <= at
    <2>1. <<d, t>> \in h.created
        OBVIOUS
    <2> QED BY <2>1
<1> HIDE DEF c
<1>6. TakeFulfilled(h, e) = g
    BY <1>2, <1>4, <1>5 DEF TakeFulfilled, c
<1>7. g \in HistoryType
    BY DEF HistoryType
<1> QED BY <1>2, <1>3, <1>6, <1>7 DEF HistoryType

(* What is known of one demand, and of what is counted.                    *)
LEMMA InsightsFacts ==
    ASSUME InsightsInv, NEW d \in Ids
    PROVE  /\ d \in Nat /\ clock \in Nat /\ NeverYet \in Nat /\ clock < NeverYet /\ left \in Nat
           /\ clock \in 0 .. MaxClock /\ events \in Seq(EventRow)
           /\ IsFiniteSet(Supporter) /\ IsFiniteSet(Ids) /\ Amount \subseteq Nat
           /\ Total(Stakes) \in Nat /\ Total(Took) \in Nat /\ IsFiniteSet(Done)
           /\ market[d] \in Entry /\ DemandSound(market[d])
           /\ market[d].stake \in [Supporter -> Nat] /\ Total(market[d].stake) \in Nat
           /\ market[d].since \in [Supporter -> 0 .. NeverYet]
           /\ market[d].created \in Nat /\ market[d].nonce \in Nat /\ market[d].builder \in BOOLEAN
           /\ \A to \in Nat : clock <= to => Told(HistoryUpTo(events, to), to)
<1>1. /\ InsightsTypeOK /\ \A c \in Ids : DemandSound(market[c])
      /\ \A to \in Nat : clock <= to => Told(HistoryUpTo(events, to), to)
    BY DEF InsightsInv
<1>2. /\ clock \in Nat /\ NeverYet \in Nat /\ clock < NeverYet /\ IsFiniteSet(Supporter)
      /\ Ids = 1 .. Len(market) /\ Len(market) \in Nat /\ IsFiniteSet(Ids) /\ IsFiniteSet(Done)
      /\ market[d] \in Entry
      /\ market[d].stake \in [Supporter -> Nat] /\ Total(market[d].stake) \in Nat
      /\ Total(Stakes) \in Nat /\ Total(Took) \in Nat
    BY <1>1, MarketTypes
<1>3. d \in Nat
    BY <1>2
<1>4. clock \in 0 .. MaxClock /\ events \in Seq(EventRow) /\ left \in Nat
    BY <1>1 DEF InsightsTypeOK
<1>5. /\ market[d].since \in [Supporter -> 0 .. NeverYet]
      /\ market[d].created \in 0 .. MaxClock /\ market[d].nonce \in Nat
      /\ market[d].builder \in BOOLEAN
    BY <1>2 DEF Entry
<1>6. market[d].created \in Nat
    BY <1>5
<1> QED BY <1>1, <1>2, <1>3, <1>4, <1>5, <1>6, InsightsAssumption

(* One supporter's stake changes the demand's by the difference.           *)
LEMMA StakeUpdate ==
    ASSUME NEW f \in [Supporter -> Nat], NEW s \in Supporter, NEW v \in Nat
    PROVE  Total([f EXCEPT ![s] = v]) = Total(f) - f[s] + v
<1>1. IsFiniteSet(Supporter)
    BY InsightsAssumption
<1> QED BY <1>1, TotalUpdate

(* A step that changes one demand soundly leaves all sound.                *)
LEMMA StaysSound ==
    ASSUME InsightsInv, NEW d \in Ids, NEW m \in Entry, market' = [market EXCEPT ![d] = m],
           clock' = clock, left' \in Nat, events' \in Seq(EventRow), DemandSound(m)
    PROVE  InsightsTypeOK' /\ \A c \in Ids' : DemandSound(market[c])'
<1>1. InsightsTypeOK /\ \A c \in Ids : DemandSound(market[c])
    BY DEF InsightsInv
<1>2. /\ market' \in Seq(Entry) /\ Ids' = Ids
      /\ market'[d] = m /\ \A c \in Ids : c # d => market'[c] = market[c]
    BY <1>1, OneChanges
<1>3. InsightsTypeOK'
    BY <1>1, <1>2 DEF InsightsTypeOK
<1>4. \A c \in Ids : DemandSound(market[c])' <=> DemandSound(market'[c])
    BY DEF DemandSound, NeverYet
<1> QED BY <1>1, <1>2, <1>3, <1>4

(* A step after which the history up to any later time says what the       *)
(* demands do keeps the invariant.                                         *)
LEMMA StaysTold ==
    ASSUME InsightsTypeOK', \A c \in Ids' : DemandSound(market[c])', clock' = clock,
           \A to \in Nat : clock <= to => Told(HistoryUpTo(events, to), to)'
    PROVE  InsightsInv'
BY DEF InsightsInv

(* A supporter adds to a demand.                                           *)
LEMMA SupportTold ==
    ASSUME InsightsInv, NEW d \in Ids, NEW s \in Supporter, NEW a \in Amount,
           SupportDemand(d, s, a)
    PROVE  InsightsInv'
<1> DEFINE old == market[d]
           p == <<d, s>>
<1>1. /\ d \in Nat /\ clock \in Nat /\ NeverYet \in Nat /\ clock < NeverYet /\ left \in Nat
      /\ IsFiniteSet(Supporter) /\ IsFiniteSet(Ids) /\ a \in Nat
      /\ events \in Seq(EventRow) /\ Total(Stakes) \in Nat
    BY InsightsFacts
<1>2. /\ old \in Entry /\ DemandSound(old)
      /\ old.stake \in [Supporter -> Nat] /\ old.since \in [Supporter -> 0 .. NeverYet]
      /\ old.stake[s] \in Nat /\ Total(old.stake) \in Nat
    BY InsightsFacts
<1>3. PICK n \in Nat, t \in 0 .. NeverYet :
         n = old.stake[s] + a /\ t = IF old.since[s] = NeverYet THEN clock ELSE old.since[s]
    <2>1. old.stake[s] + a \in Nat
        BY <1>1, <1>2
    <2>2. old.since[s] \in 0 .. NeverYet /\ clock \in 0 .. NeverYet
        BY <1>1, <1>2
    <2>3. (IF old.since[s] = NeverYet THEN clock ELSE old.since[s]) \in 0 .. NeverYet
        BY <2>2
    <2> QED BY <2>1, <2>3, Zenon
<1>4. PICK stake \in [Supporter -> Nat], since \in [Supporter -> 0 .. NeverYet] :
         stake = [old.stake EXCEPT ![s] = n] /\ since = [old.since EXCEPT ![s] = t]
    BY <1>2
<1>5. PICK m \in Entry : m = [old EXCEPT !.stake = stake, !.since = since]
    BY <1>2 DEF Entry
<1>6. /\ m.stake = stake /\ m.since = since /\ m.key = old.key /\ m.created = old.created
      /\ m.status = old.status /\ m.fulfilled = old.fulfilled
      /\ m.builder = old.builder /\ m.nonce = old.nonce
    BY <1>2, <1>5 DEF Entry
<1>7. market' = [market EXCEPT ![d] = m]
    <2> DEFINE x == [old EXCEPT !.stake[s] = @ + a,
                                !.since[s] = IF @ = NeverYet THEN clock ELSE @]
    <2>1. market' = [market EXCEPT ![d] = x]
        BY DEF SupportDemand
    <2>2. x = [old EXCEPT
                  !.stake = [old.stake EXCEPT ![s] = old.stake[s] + a],
                  !.since = [old.since EXCEPT
                                ![s] = IF old.since[s] = NeverYet THEN clock ELSE old.since[s]]]
        OBVIOUS
    <2> HIDE DEF x
    <2>3. x = m
        BY <2>2, <1>3, <1>4, <1>5
    <2> QED BY <2>1, <2>3
<1>8. Emit(<<Supported(d, s, a)>>) /\ clock' = clock /\ left' = left
    BY DEF SupportDemand
<1>9. /\ Supported(d, s, a) \in EventRow /\ events' \in Seq(EventRow)
      /\ \A to : HistoryUpTo(events', to)
                     = Take(HistoryUpTo(events, to), Supported(d, s, a), to)
    BY <1>1, <1>8, SupportIs, EmitsOne
<1>10. /\ market' \in Seq(Entry) /\ Len(market') = Len(market) /\ Ids' = Ids
       /\ market'[d] = m /\ \A c \in Ids : c # d => market'[c] = market[c]
       /\ Creations' = Creations /\ KeysUsed' = KeysUsed
       /\ Sent' = Sent /\ Rejected' = Rejected /\ Done' = Done /\ Took' = Took
       /\ Total(m.stake) \in Nat
       /\ Total(Stakes)' = Total(Stakes) - Total(old.stake) + Total(m.stake)
    BY <1>6, <1>7, OneChanges DEF InsightsInv
<1>11. Total(Stakes)' = Total(Stakes) + a
    <2>1. Total(stake) = Total(old.stake) - old.stake[s] + n
        BY <1>2, <1>4, StakeUpdate
    <2>2. Total(m.stake) = Total(stake)
        BY <1>6
    <2>3. PICK x \in Nat, y \in Nat, z \in Nat :
              x = Total(Stakes) /\ y = Total(old.stake) /\ z = old.stake[s]
        BY <1>1, <1>2
    <2>4. n = z + a
        BY <1>3, <2>3
    <2>5. Total(Stakes)' = x - y + (y - z + (z + a))
        BY <1>10, <2>1, <2>2, <2>3, <2>4
    <2>6. PICK b \in Nat : b = a
        BY <1>1
    <2>7. x - y + (y - z + (z + b)) = x + b
        OBVIOUS
    <2> QED BY <2>3, <2>5, <2>6, <2>7
<1>12. \A x \in Supporter : x # s => since[x] = old.since[x]
    BY <1>2, <1>4
<1>13. since[s] = IF p \in Pairs THEN old.since[s] ELSE clock
    <2>1. p \in Pairs <=> old.since[s] < NeverYet
        BY DEF Pairs
    <2>2. since[s] = t /\ old.since[s] \in 0 .. NeverYet
        BY <1>2, <1>4
    <2> QED BY <1>1, <1>3, <2>1, <2>2
<1>14. InsightsTypeOK' /\ \A c \in Ids' : DemandSound(market[c])'
    <2>1. \A x \in Supporter : since[x] <= clock \/ since[x] = NeverYet
        <3>1. \A x \in Supporter : old.since[x] <= clock \/ old.since[x] = NeverYet
            BY <1>2 DEF DemandSound
        <3>2. since[s] \in {old.since[s], clock}
            BY <1>13
        <3>3. since[s] <= clock \/ since[s] = NeverYet
            BY <1>1, <3>1, <3>2
        <3> QED BY <1>12, <3>1, <3>3
    <2>2. DemandSound(m)
        BY <1>2, <1>6, <2>1 DEF DemandSound
    <2> QED BY <1>1, <1>7, <1>8, <1>9, <2>2, StaysSound
<1>15. /\ market'[d].since[s] = since[s]
       /\ \A c \in Ids, x \in Supporter :
              <<c, x>> # p => market'[c].since[x] = market[c].since[x]
    BY <1>6, <1>10, <1>12
<1>16. Pairs' = Pairs \cup {p}
    <2>1. since[s] < NeverYet
        BY <1>1, <1>13 DEF Pairs
    <2> QED BY <1>10, <1>15, <2>1 DEF Pairs, NeverYet
<1>17. ASSUME NEW to \in Nat
       PROVE  NewIn(to)' = IF p \notin Pairs /\ clock > From(to) THEN NewIn(to) \cup {p}
                           ELSE NewIn(to)
    <2>1. \A q \in Pairs : q # p => market'[q[1]].since[q[2]] = market[q[1]].since[q[2]]
        BY <1>15 DEF Pairs
    <2>2. From(to)' = From(to)
        BY DEF From
    <2>3. p[1] = d /\ p[2] = s
        OBVIOUS
    <2> QED BY <1>13, <1>15, <1>16, <2>1, <2>2, <2>3 DEF NewIn
<1>18. ASSUME NEW to \in Nat, clock <= to PROVE Told(HistoryUpTo(events, to), to)'
    <2> DEFINE h == HistoryUpTo(events, to)
    <2>1. /\ Told(h, to) /\ h \in HistoryType /\ ~h.invalid
        BY <1>18, InsightsFacts DEF Told
    <2> HIDE DEF h
    <2>2. PICK e : /\ e = Supported(d, s, a) /\ e.name = "DemandSupported" /\ e.demandId = d
                   /\ e.time = clock /\ e.supporter = s /\ e.amount = a
        BY <1>1, SupportIs
    <2>3. PICK g \in HistoryType :
              /\ g = Take(h, e, to)
              /\ g.gross = h.gross + a
              /\ g.pairs = h.pairs \cup {p}
              /\ g.newPairs = IF p \notin h.pairs /\ clock > From(to)
                              THEN h.newPairs + 1 ELSE h.newPairs
              /\ g.created = h.created /\ g.keys = h.keys /\ g.repeats = h.repeats
              /\ g.submissions = h.submissions /\ g.reopens = h.reopens
              /\ g.fulfilled = h.fulfilled /\ g.duration = h.duration /\ ~g.invalid
        BY <1>1, <1>18, <2>1, <2>2, TakesSupport
    <2>4. HistoryUpTo(events, to)' = g
        BY <1>9, <2>2, <2>3 DEF h
    <2>5. g.newPairs = Cardinality(NewIn(to)')
        <3>1. IsFiniteSet(NewIn(to))
            <4>1. Pairs \in SUBSET (Ids \X Supporter) /\ NewIn(to) \in SUBSET Pairs
                BY DEF Pairs, NewIn
            <4>2. IsFiniteSet(Ids \X Supporter)
                BY <1>1, FS_Product
            <4> QED BY <4>1, <4>2, FS_Subset
        <3>2. CASE p \notin Pairs /\ clock > From(to)
            <4>1. p \notin NewIn(to)
                BY <3>2 DEF NewIn
            <4>2. Cardinality(NewIn(to) \cup {p}) = Cardinality(NewIn(to)) + 1
                BY <3>1, <4>1, FS_AddElement
            <4> QED BY <1>17, <2>1, <2>3, <3>2, <4>2 DEF Told
        <3>3. CASE ~(p \notin Pairs /\ clock > From(to))
            BY <1>17, <2>1, <2>3, <3>3 DEF Told
        <3> QED BY <3>2, <3>3
    <2>6. g.gross = Total(Stakes)' + left'
        BY <1>1, <1>8, <1>11, <2>1, <2>3 DEF Told
    <2>7. Told(g, to)'
        BY <1>10, <1>16, <2>1, <2>3, <2>5, <2>6 DEF Told
    <2> QED BY <2>4, <2>7 DEF Told
<1> QED BY <1>8, <1>14, <1>18, StaysTold

(* Nothing has been emitted, and nothing is counted.                       *)
LEMMA InsightsStart ==
    InsightsInit => InsightsInv
<1> SUFFICES ASSUME InsightsInit PROVE InsightsInv
    OBVIOUS
<1>1. market = <<>> /\ events = <<>> /\ left = 0 /\ clock = Started
    BY DEF InsightsInit
<1>2. Ids = {} /\ Len(market) = 0
    BY <1>1 DEF Ids
<1>3. InsightsTypeOK
    BY <1>1, InsightsAssumption DEF InsightsTypeOK
<1>4. /\ Creations = {} /\ KeysUsed = {} /\ Pairs = {} /\ Done = {}
      /\ \A to : NewIn(to) = {}
    BY <1>2 DEF Creations, KeysUsed, Pairs, Done, NewIn
<1>5. /\ Stakes \in [{} -> Nat] /\ Took \in [{} -> Nat]
      /\ Sent \in [{} -> Nat] /\ Rejected \in [{} -> Nat]
    BY <1>2, <1>4 DEF Stakes, Took, Sent, Rejected
<1>6. Total(Stakes) = 0 /\ Total(Took) = 0
    BY <1>5, TotalZero, FS_EmptySet
<1>7. Units(Sent) = {} /\ Units(Rejected) = {}
    BY <1>5, UnitsMember
<1>8. Cardinality({}) = 0
    BY FS_EmptySet
<1>9. NoHistory \in HistoryType
    BY DEF NoHistory, HistoryType
<1>10. \A to : Told(NoHistory, to)
    <2>1. /\ NoHistory.created = {} /\ NoHistory.keys = {} /\ NoHistory.submissions = {}
          /\ NoHistory.reopens = {} /\ NoHistory.fulfilled = {} /\ NoHistory.pairs = {}
          /\ NoHistory.repeats = 0 /\ NoHistory.gross = 0 /\ NoHistory.newPairs = 0
          /\ NoHistory.duration = 0 /\ ~NoHistory.invalid
        BY DEF NoHistory
    <2> QED BY <1>1, <1>2, <1>4, <1>6, <1>7, <1>8, <1>9, <2>1 DEF Told
<1>11. \A to : HistoryUpTo(events, to) = NoHistory
    BY <1>1, HistoryOfNone
<1> QED BY <1>2, <1>3, <1>10, <1>11 DEF InsightsInv

(* The same history is true of the same demands later.                     *)
LEMMA TimeTold ==
    ASSUME InsightsInv, TimeGoesOn
    PROVE  InsightsInv'
<1>1. /\ clock \in 0 .. MaxClock /\ MaxClock \in Nat /\ clock < MaxClock
      /\ clock' = clock + 1 /\ market' = market /\ events' = events /\ left' = left
    BY InsightsAssumption DEF InsightsInv, InsightsTypeOK, TimeGoesOn
<1>2. InsightsTypeOK'
    BY <1>1 DEF InsightsInv, InsightsTypeOK
<1>3. Ids' = Ids
    BY <1>1 DEF Ids
<1>4. ASSUME NEW d \in Ids PROVE DemandSound(market[d])'
    <2>1. DemandSound(market[d]) /\ market[d] \in Entry
        BY MarketTypes DEF InsightsInv
    <2>2. /\ market[d].created \in Nat /\ market[d].fulfilled \in Nat
          /\ market[d].since \in [Supporter -> 0 .. NeverYet]
        BY <2>1, <1>1 DEF Entry, NeverYet
    <2>3. \A s \in Supporter : market[d].since[s] \in Nat
        BY <1>1, <2>2 DEF NeverYet
    <2>4. NeverYet' = NeverYet
        BY DEF NeverYet
    <2> QED BY <1>1, <2>1, <2>2, <2>3, <2>4 DEF DemandSound
<1>5. ASSUME NEW to \in Nat, (clock <= to)' PROVE Told(HistoryUpTo(events, to), to)'
    <2>1. clock <= to
        BY <1>1, <1>5
    <2>2. Told(HistoryUpTo(events, to), to)
        BY <2>1 DEF InsightsInv
    <2>3. HistoryUpTo(events', to) = HistoryUpTo(events, to)
        BY <1>1
    <2>4. /\ Creations' = Creations /\ KeysUsed' = KeysUsed /\ Pairs' = Pairs
          /\ Stakes' = Stakes /\ Sent' = Sent /\ Rejected' = Rejected
          /\ Done' = Done
        BY <1>1, <1>3 DEF Creations, KeysUsed, Pairs, Stakes, Sent, Rejected, Done
    <2>5. Took' = Took /\ NewIn(to)' = NewIn(to)
        BY <1>1, <2>4 DEF Took, NewIn, From
    <2> QED BY <1>1, <2>2, <2>3, <2>4, <2>5 DEF Told
<1> QED BY <1>2, <1>3, <1>4, <1>5 DEF InsightsInv

(* A demand is cancelled.                                                  *)
LEMMA CancelTold ==
    ASSUME InsightsInv, NEW d \in Ids, CancelDemand(d)
    PROVE  InsightsInv'
<1> DEFINE old == market[d]
<1>1. /\ d \in Nat /\ clock \in Nat /\ left \in Nat /\ events \in Seq(EventRow)
      /\ old \in Entry /\ DemandSound(old)
    BY InsightsFacts
<1>2. PICK m \in Entry : m = [old EXCEPT !.status = "CANCELLED"]
    BY <1>1 DEF Entry
<1>3. /\ m.status = "CANCELLED" /\ m.stake = old.stake /\ m.since = old.since
      /\ m.key = old.key /\ m.created = old.created /\ m.fulfilled = old.fulfilled
      /\ m.builder = old.builder /\ m.nonce = old.nonce
    BY <1>1, <1>2 DEF Entry
<1>4. /\ market' = [market EXCEPT ![d] = m] /\ clock' = clock /\ left' = left
      /\ old.status = "SUBMITTED" /\ Emit(<<Event("SettlementCancelled", d)>>)
    BY <1>2 DEF CancelDemand
<1>5. PICK e \in EventRow : /\ e = Event("SettlementCancelled", d)
                            /\ e.name = "SettlementCancelled" /\ e.time = clock
    BY <1>1, EventIs
<1>6. /\ events' \in Seq(EventRow)
      /\ \A to : HistoryUpTo(events', to) = Take(HistoryUpTo(events, to), e, to)
    BY <1>1, <1>4, <1>5, EmitsOne
<1>7. DemandSound(m)
    BY <1>1, <1>3, <1>4 DEF DemandSound
<1>8. InsightsTypeOK' /\ \A c \in Ids' : DemandSound(market[c])'
    BY <1>1, <1>4, <1>6, <1>7, StaysSound
<1>9. /\ Len(market') = Len(market) /\ Total(m.stake) \in Nat
      /\ Creations' = Creations /\ KeysUsed' = KeysUsed /\ Pairs' = Pairs
      /\ \A to : NewIn(to)' = NewIn(to)
      /\ Sent' = Sent /\ Rejected' = Rejected /\ Done' = Done /\ Took' = Took
      /\ Total(Stakes)' = Total(Stakes) - Total(old.stake) + Total(m.stake)
    BY <1>3, <1>4, OneChanges DEF InsightsInv
<1>10. Total(Stakes)' = Total(Stakes)
    <2>1. Total(Stakes) \in Nat
        BY InsightsFacts
    <2> QED BY <1>3, <1>9, <2>1
<1>11. ASSUME NEW to \in Nat, clock <= to PROVE Told(HistoryUpTo(events, to), to)'
    <2> DEFINE h == HistoryUpTo(events, to)
    <2>1. Told(h, to)
        BY <1>11, InsightsFacts
    <2>2. HistoryUpTo(events', to) = Take(h, e, to)
        BY <1>6
    <2> HIDE DEF h
    <2>3. Take(h, e, to) = h
        BY <1>1, <1>5, <1>11, <2>1, TakesNothing DEF Told, HistoryType
    <2> QED BY <1>4, <1>9, <1>10, <2>1, <2>2, <2>3 DEF Told
<1> QED BY <1>4, <1>8, <1>11, StaysTold

(* A supporter takes back a stake.                                         *)
LEMMA RefundTold ==
    ASSUME InsightsInv, NEW d \in Ids, NEW s \in Supporter, RefundStake(d, s)
    PROVE  InsightsInv'
<1> DEFINE old == market[d]
           last == Committed(d) = old.stake[s] /\ old.status \notin {"FULFILLED", "CANCELLED"}
<1>1. /\ d \in Nat /\ clock \in Nat /\ left \in Nat /\ events \in Seq(EventRow)
      /\ old \in Entry /\ DemandSound(old) /\ old.stake \in [Supporter -> Nat]
      /\ old.stake[s] \in Nat
    BY InsightsFacts
<1>2. PICK stake \in [Supporter -> Nat] : stake = [old.stake EXCEPT ![s] = 0]
    BY <1>1
<1>3. PICK m \in Entry : m = [old EXCEPT !.stake = stake,
                                         !.status = IF last THEN "CLOSED" ELSE old.status]
    BY <1>1 DEF Entry
<1>4. /\ m.status = (IF last THEN "CLOSED" ELSE old.status)
      /\ m.stake = stake /\ m.since = old.since
      /\ m.key = old.key /\ m.created = old.created /\ m.fulfilled = old.fulfilled
      /\ m.builder = old.builder /\ m.nonce = old.nonce
    BY <1>1, <1>3 DEF Entry
<1>5. market' = [market EXCEPT ![d] = m]
    <2> DEFINE x == [old EXCEPT !.stake[s] = 0, !.status = IF last THEN "CLOSED" ELSE @]
    <2>1. market' = [market EXCEPT ![d] = x]
        BY DEF RefundStake
    <2>2. x = [old EXCEPT !.stake = [old.stake EXCEPT ![s] = 0],
                          !.status = IF last THEN "CLOSED" ELSE old.status]
        OBVIOUS
    <2> HIDE DEF x
    <2> QED BY <1>2, <1>3, <2>1, <2>2
<1>6. /\ clock' = clock /\ left' = left + old.stake[s]
      /\ Emit((IF last THEN <<Event("DemandClosed", d)>> ELSE <<>>) \o <<Event("Refunded", d)>>)
    BY DEF RefundStake
<1>7. PICK e \in EventRow :
         e = Event("Refunded", d) /\ e.name = "Refunded" /\ e.time = clock
    BY <1>1, EventIs
<1>8. PICK f \in EventRow :
         f = Event("DemandClosed", d) /\ f.name = "DemandClosed" /\ f.time = clock
    BY <1>1, EventIs
<1>9. /\ events' \in Seq(EventRow)
      /\ \A to \in Nat : clock <= to /\ Told(HistoryUpTo(events, to), to)
             => HistoryUpTo(events', to) = HistoryUpTo(events, to)
    <2>1. ASSUME NEW h, NEW to \in Nat, clock <= to, Told(h, to)
          PROVE  Take(h, e, to) = h /\ Take(h, f, to) = h
        <3>1. h.invalid = FALSE
            BY <2>1 DEF Told, HistoryType
        <3> QED BY <1>1, <1>7, <1>8, <2>1, <3>1, TakesNothing
    <2>2. CASE last
        <3>1. Emit(<<f, e>>)
            <4> DEFINE es == IF last THEN <<f>> ELSE <<>>
            <4>1. es = <<f>>
                BY <2>2
            <4> HIDE DEF es
            <4>2. <<f>> \o <<e>> = <<f, e>>
                BY TwoInOrder
            <4>3. es \o <<e>> = <<f, e>>
                BY <4>1, <4>2
            <4> USE DEF es
            <4> QED BY <1>6, <1>7, <1>8, <4>3
        <3>2. /\ events' \in Seq(EventRow)
              /\ \A to : HistoryUpTo(events', to)
                             = Take(Take(HistoryUpTo(events, to), f, to), e, to)
            BY <1>1, <3>1, EmitsTwo
        <3> QED BY <2>1, <3>2
    <2>3. CASE ~last
        <3>1. Emit(<<e>>)
            <4> DEFINE es == IF last THEN <<f>> ELSE <<>>
            <4>1. es = <<>> /\ <<e>> \in Seq(EventRow)
                BY <2>3
            <4> HIDE DEF es
            <4>2. es \o <<e>> = <<e>>
                BY <4>1, ConcatEmptySeq
            <4> USE DEF es
            <4> QED BY <1>6, <1>7, <1>8, <4>2
        <3>2. /\ events' \in Seq(EventRow)
              /\ \A to : HistoryUpTo(events', to) = Take(HistoryUpTo(events, to), e, to)
            BY <1>1, <3>1, EmitsOne
        <3> QED BY <2>1, <3>2
    <2> HIDE DEF last
    <2> QED BY <2>2, <2>3
<1>10. DemandSound(m)
    BY <1>1, <1>4 DEF DemandSound
<1>11. InsightsTypeOK' /\ \A c \in Ids' : DemandSound(market[c])'
    <2>1. left' \in Nat
        BY <1>1, <1>6
    <2> QED BY <1>1, <1>5, <1>6, <1>9, <1>10, <2>1, StaysSound
<1>12. /\ Len(market') = Len(market) /\ Total(m.stake) \in Nat
       /\ Creations' = Creations /\ KeysUsed' = KeysUsed /\ Pairs' = Pairs
       /\ \A to : NewIn(to)' = NewIn(to)
       /\ Sent' = Sent /\ Rejected' = Rejected /\ Done' = Done /\ Took' = Took
       /\ Total(Stakes)' = Total(Stakes) - Total(old.stake) + Total(m.stake)
    BY <1>4, <1>5, OneChanges DEF InsightsInv
<1>13. Total(Stakes)' + left' = Total(Stakes) + left
    <2>1. Total(Stakes) \in Nat /\ Total(old.stake) \in Nat
        BY InsightsFacts
    <2>2. Total(stake) = Total(old.stake) - old.stake[s] + 0
        BY <1>1, <1>2, StakeUpdate
    <2>3. PICK x \in Nat, y \in Nat, z \in Nat, l \in Nat :
              x = Total(Stakes) /\ y = Total(old.stake) /\ z = old.stake[s] /\ l = left
        BY <1>1, <2>1
    <2>4. /\ Total(Stakes)' = x - y + (y - z + 0)
          /\ left' = l + z
        BY <1>4, <1>6, <1>12, <2>2, <2>3
    <2>5. (x - y + (y - z + 0)) + (l + z) = x + l
        OBVIOUS
    <2> QED BY <2>3, <2>4, <2>5
<1>14. ASSUME NEW to \in Nat, clock <= to PROVE Told(HistoryUpTo(events, to), to)'
    <2> DEFINE h == HistoryUpTo(events, to)
    <2>1. Told(h, to)
        BY <1>14, InsightsFacts
    <2>2. HistoryUpTo(events', to) = h
        BY <1>9, <1>14, <2>1
    <2> HIDE DEF h
    <2> QED BY <1>12, <1>13, <2>1, <2>2 DEF Told
<1> QED BY <1>6, <1>11, <1>14, StaysTold

(* A candidate of one demand makes one unit more, of those proposed or of  *)
(* those rejected.                                                         *)
LEMMA SubmitTold ==
    ASSUME InsightsInv, NEW d \in Ids, SubmitService(d)
    PROVE  InsightsInv'
<1> DEFINE old == market[d]
<1>1. /\ d \in Nat /\ clock \in Nat /\ left \in Nat /\ events \in Seq(EventRow)
      /\ old \in Entry /\ DemandSound(old) /\ old.nonce \in Nat
      /\ Sent \in [Ids -> Nat] /\ Rejected \in [Ids -> Nat]
    BY InsightsFacts, MarketTypes DEF InsightsInv
<1>2. PICK n \in Nat : n = old.nonce + 1 /\ n > 0
    BY <1>1
<1>3. PICK m \in Entry : m = [old EXCEPT !.status = "SUBMITTED", !.builder = TRUE, !.nonce = n]
    BY <1>1 DEF Entry
<1>4. /\ m.status = "SUBMITTED" /\ m.stake = old.stake /\ m.since = old.since
      /\ m.key = old.key /\ m.created = old.created /\ m.fulfilled = old.fulfilled
      /\ m.builder = TRUE /\ m.nonce = n
    BY <1>1, <1>3 DEF Entry
<1>5. /\ clock' = clock /\ left' = left /\ old.status = "OPEN"
      /\ Emit(<<OfCandidate("ServiceSubmitted", d, n)>>)
    BY <1>2 DEF SubmitService
<1>6. market' = [market EXCEPT ![d] = m]
    <2> DEFINE x == [old EXCEPT !.status = "SUBMITTED", !.builder = TRUE, !.nonce = @ + 1]
    <2>1. market' = [market EXCEPT ![d] = x]
        BY DEF SubmitService
    <2>2. x = [old EXCEPT !.status = "SUBMITTED", !.builder = TRUE, !.nonce = old.nonce + 1]
        OBVIOUS
    <2> HIDE DEF x
    <2> QED BY <1>2, <1>3, <2>1, <2>2
<1>7. PICK e \in EventRow : /\ e = OfCandidate("ServiceSubmitted", d, n)
                            /\ e.name = "ServiceSubmitted" /\ e.demandId = d
                            /\ e.time = clock /\ e.nonce = n
    BY <1>1, CandidateIs
<1>8. /\ events' \in Seq(EventRow)
      /\ \A to : HistoryUpTo(events', to) = Take(HistoryUpTo(events, to), e, to)
    BY <1>1, <1>5, <1>7, EmitsOne
<1>9. DemandSound(m)
    BY <1>1, <1>2, <1>4, <1>5 DEF DemandSound
<1>10. InsightsTypeOK' /\ \A c \in Ids' : DemandSound(market[c])'
    BY <1>1, <1>5, <1>6, <1>8, <1>9, StaysSound
<1>11. /\ Len(market') = Len(market) /\ Total(m.stake) \in Nat /\ Ids' = Ids
       /\ market'[d] = m /\ \A c \in Ids : c # d => market'[c] = market[c]
       /\ Creations' = Creations /\ KeysUsed' = KeysUsed /\ Pairs' = Pairs
       /\ \A to : NewIn(to)' = NewIn(to)
       /\ Done' = Done /\ Took' = Took
       /\ Total(Stakes)' = Total(Stakes) - Total(old.stake) + Total(m.stake)
    BY <1>4, <1>5, <1>6, OneChanges DEF InsightsInv
<1>12. Total(Stakes)' = Total(Stakes)
    <2>1. Total(Stakes) \in Nat
        BY InsightsFacts
    <2> QED BY <1>4, <1>11, <2>1
<1>13. Units(Sent)' = Units(Sent) \cup {<<d, n>>} /\ <<d, n>> \notin Units(Sent)
    <2>1. Sent' \in [Ids -> Nat] /\ Sent'[d] = n /\ \A c \in Ids : c # d => Sent'[c] = Sent[c]
        <3>1. Sent' = [c \in Ids |-> market'[c].nonce]
            BY <1>11 DEF Sent
        <3>2. \A c \in Ids : market'[c].nonce = IF c = d THEN n ELSE Sent[c]
            BY <1>4, <1>11 DEF Sent
        <3> QED BY <1>1, <3>1, <3>2
    <2>2. Sent[d] + 1 = n
        BY <1>2 DEF Sent
    <2>3. PICK f \in [Ids -> Nat], g \in [Ids -> Nat] : f = Sent /\ g = Sent'
        BY <1>1, <2>1
    <2>4. Units(g) = Units(f) \cup {<<d, f[d] + 1>>} /\ <<d, f[d] + 1>> \notin Units(f)
        BY <2>1, <2>2, <2>3, UnitsMore
    <2> QED BY <2>2, <2>3, <2>4
<1>14. Rejected' = Rejected
    <2>1. ~old.builder /\ n - 1 = old.nonce
        BY <1>1, <1>2, <1>5 DEF DemandSound
    <2> QED BY <1>4, <1>11, <2>1 DEF Rejected
<1>15. ASSUME NEW to \in Nat, clock <= to PROVE Told(HistoryUpTo(events, to), to)'
    <2> DEFINE h == HistoryUpTo(events, to)
    <2>1. Told(h, to)
        BY <1>15, InsightsFacts
    <2>2. HistoryUpTo(events', to) = Take(h, e, to)
        BY <1>8
    <2> HIDE DEF h
    <2>3. h \in HistoryType /\ ~h.invalid /\ <<d, n>> \notin h.submissions
        BY <1>13, <2>1 DEF Told
    <2>4. PICK g \in HistoryType :
              /\ g = Take(h, e, to)
              /\ g.submissions = h.submissions \cup {<<d, n>>}
              /\ g.reopens = h.reopens
              /\ g.created = h.created /\ g.keys = h.keys /\ g.repeats = h.repeats
              /\ g.gross = h.gross /\ g.pairs = h.pairs /\ g.newPairs = h.newPairs
              /\ g.fulfilled = h.fulfilled /\ g.duration = h.duration /\ ~g.invalid
        BY <1>1, <1>7, <1>15, <2>3, TakesProposal
    <2> QED BY <1>5, <1>11, <1>12, <1>13, <1>14, <2>1, <2>2, <2>4 DEF Told
<1> QED BY <1>5, <1>10, <1>15, StaysTold

(* A candidate is rejected, and is no more than once.                      *)
LEMMA ReopenTold ==
    ASSUME InsightsInv, NEW d \in Ids, ReopenDemand(d)
    PROVE  InsightsInv'
<1> DEFINE old == market[d]
<1>1. /\ d \in Nat /\ clock \in Nat /\ left \in Nat /\ events \in Seq(EventRow)
      /\ old \in Entry /\ DemandSound(old)
      /\ Sent \in [Ids -> Nat] /\ Rejected \in [Ids -> Nat]
    BY InsightsFacts, MarketTypes DEF InsightsInv
<1>2. PICK n \in Nat : n = old.nonce
    BY InsightsFacts
<1>3. PICK m \in Entry : m = [old EXCEPT !.status = "OPEN", !.builder = FALSE]
    BY <1>1 DEF Entry
<1>4. /\ m.status = "OPEN" /\ m.stake = old.stake /\ m.since = old.since
      /\ m.key = old.key /\ m.created = old.created /\ m.fulfilled = old.fulfilled
      /\ m.builder = FALSE /\ m.nonce = n
    BY <1>1, <1>2, <1>3 DEF Entry
<1>5. /\ clock' = clock /\ left' = left /\ old.status = "SUBMITTED"
      /\ market' = [market EXCEPT ![d] = m]
      /\ Emit(<<OfCandidate("SubmissionRejected", d, n)>>)
    BY <1>2, <1>3 DEF ReopenDemand
<1>6. old.builder /\ n > 0
    BY <1>1, <1>2, <1>5 DEF DemandSound
<1>7. PICK e \in EventRow : /\ e = OfCandidate("SubmissionRejected", d, n)
                            /\ e.name = "SubmissionRejected" /\ e.demandId = d
                            /\ e.time = clock /\ e.nonce = n
    BY <1>1, CandidateIs
<1>8. /\ events' \in Seq(EventRow)
      /\ \A to : HistoryUpTo(events', to) = Take(HistoryUpTo(events, to), e, to)
    BY <1>1, <1>5, <1>7, EmitsOne
<1>9. DemandSound(m)
    BY <1>1, <1>4 DEF DemandSound
<1>10. InsightsTypeOK' /\ \A c \in Ids' : DemandSound(market[c])'
    BY <1>1, <1>5, <1>8, <1>9, StaysSound
<1>11. /\ Len(market') = Len(market) /\ Total(m.stake) \in Nat /\ Ids' = Ids
       /\ market'[d] = m /\ \A c \in Ids : c # d => market'[c] = market[c]
       /\ Creations' = Creations /\ KeysUsed' = KeysUsed /\ Pairs' = Pairs
       /\ \A to : NewIn(to)' = NewIn(to)
       /\ Done' = Done /\ Took' = Took
       /\ Total(Stakes)' = Total(Stakes) - Total(old.stake) + Total(m.stake)
    BY <1>4, <1>5, OneChanges DEF InsightsInv
<1>12. Total(Stakes)' = Total(Stakes)
    <2>1. Total(Stakes) \in Nat
        BY InsightsFacts
    <2> QED BY <1>4, <1>11, <2>1
<1>13. Sent' = Sent
    BY <1>2, <1>4, <1>11 DEF Sent
<1>14. Units(Rejected)' = Units(Rejected) \cup {<<d, n>>} /\ <<d, n>> \notin Units(Rejected)
    <2>1. Rejected' \in [Ids -> Nat] /\ Rejected'[d] = n
          /\ \A c \in Ids : c # d => Rejected'[c] = Rejected[c]
        <3>1. Rejected' = [c \in Ids |-> IF market'[c].builder THEN market'[c].nonce - 1
                                         ELSE market'[c].nonce]
            BY <1>11 DEF Rejected
        <3>2. \A c \in Ids : (IF market'[c].builder THEN market'[c].nonce - 1
                              ELSE market'[c].nonce) = IF c = d THEN n ELSE Rejected[c]
            BY <1>4, <1>11 DEF Rejected
        <3> QED BY <1>1, <3>1, <3>2
    <2>2. Rejected[d] + 1 = n
        <3>1. Rejected[d] = n - 1
            BY <1>2, <1>6 DEF Rejected
        <3> QED BY <3>1
    <2>3. PICK f \in [Ids -> Nat], g \in [Ids -> Nat] : f = Rejected /\ g = Rejected'
        BY <1>1, <2>1
    <2>4. Units(g) = Units(f) \cup {<<d, f[d] + 1>>} /\ <<d, f[d] + 1>> \notin Units(f)
        BY <2>1, <2>2, <2>3, UnitsMore
    <2> QED BY <2>2, <2>3, <2>4
<1>15. ASSUME NEW to \in Nat, clock <= to PROVE Told(HistoryUpTo(events, to), to)'
    <2> DEFINE h == HistoryUpTo(events, to)
    <2>1. Told(h, to)
        BY <1>15, InsightsFacts
    <2>2. HistoryUpTo(events', to) = Take(h, e, to)
        BY <1>8
    <2> HIDE DEF h
    <2>3. h \in HistoryType /\ ~h.invalid /\ <<d, n>> \notin h.reopens
        BY <1>14, <2>1 DEF Told
    <2>4. PICK g \in HistoryType :
              /\ g = Take(h, e, to)
              /\ g.submissions = h.submissions
              /\ g.reopens = h.reopens \cup {<<d, n>>}
              /\ g.created = h.created /\ g.keys = h.keys /\ g.repeats = h.repeats
              /\ g.gross = h.gross /\ g.pairs = h.pairs /\ g.newPairs = h.newPairs
              /\ g.fulfilled = h.fulfilled /\ g.duration = h.duration /\ ~g.invalid
        BY <1>1, <1>7, <1>15, <2>3, TakesRejection
    <2> QED BY <1>5, <1>11, <1>12, <1>13, <1>14, <2>1, <2>2, <2>4 DEF Told
<1> QED BY <1>5, <1>10, <1>15, StaysTold

(* A demand is fulfilled: those who approved have paid, and how long it    *)
(* took is counted.                                                        *)
LEMMA FinalizeTold ==
    ASSUME InsightsInv, NEW d \in Ids, NEW approvers \in SUBSET Supporter,
           FinalizeDemand(d, approvers)
    PROVE  InsightsInv'
<1> DEFINE old == market[d]
           paid == Share(old.stake, approvers)
           kept == Share(old.stake, Supporter \ approvers)
<1>1. /\ d \in Nat /\ clock \in Nat /\ left \in Nat /\ events \in Seq(EventRow)
      /\ NeverYet \in Nat /\ clock < NeverYet
      /\ old \in Entry /\ DemandSound(old) /\ old.stake \in [Supporter -> Nat]
      /\ IsFiniteSet(Supporter) /\ Total(old.stake) \in Nat /\ Total(Stakes) \in Nat
      /\ IsFiniteSet(Done) /\ Took \in [Done -> Nat]
    BY InsightsFacts, MarketTypes DEF InsightsInv
<1>2. /\ paid \in [Supporter -> Nat] /\ kept \in [Supporter -> Nat]
      /\ Total(paid) \in Nat /\ Total(kept) \in Nat
      /\ Total(old.stake) = Total(paid) + Total(kept)
    <2>1. paid \in [Supporter -> Nat] /\ kept \in [Supporter -> Nat]
        BY <1>1 DEF Share
    <2>2. Total(paid) \in Nat /\ Total(kept) \in Nat
        BY <1>1, <2>1, TotalType
    <2>3. Total(Share(old.stake, approvers \cup (Supporter \ approvers)))
              = Total(paid) + Total(kept)
        <3>1. PICK f \in [Supporter -> Nat], B \in SUBSET Supporter : f = old.stake /\ B = Supporter \ approvers
            BY <1>1
        <3>2. approvers \cap B = {}
            BY <3>1
        <3>3. Total(Share(f, approvers \cup B)) = Total(Share(f, approvers)) + Total(Share(f, B))
            BY <1>1, <3>2, ShareSplit
        <3> QED BY <3>1, <3>3
    <2>4. Share(old.stake, approvers \cup (Supporter \ approvers)) = old.stake
        BY <1>1 DEF Share
    <2> QED BY <2>1, <2>2, <2>3, <2>4
<1>3. PICK took \in Nat : took = clock - old.created
    <2>1. old.created \in Nat /\ old.created <= clock
        BY <1>1, InsightsFacts DEF DemandSound
    <2> QED BY <1>1, <2>1
<1>4. PICK m \in Entry :
         m = [old EXCEPT !.status = "FULFILLED", !.fulfilled = clock, !.stake = kept]
    <2>1. clock \in 0 .. NeverYet
        BY <1>1
    <2> QED BY <1>1, <1>2, <2>1 DEF Entry
<1>5. /\ m.status = "FULFILLED" /\ m.stake = kept /\ m.since = old.since
      /\ m.key = old.key /\ m.created = old.created /\ m.fulfilled = clock
      /\ m.builder = old.builder /\ m.nonce = old.nonce
    BY <1>1, <1>4 DEF Entry
<1>6. /\ clock' = clock /\ left' = left + Total(paid) /\ old.status = "SUBMITTED"
      /\ Emit(<<Event("DemandFulfilled", d)>>)
    BY DEF FinalizeDemand
<1>7. market' = [market EXCEPT ![d] = m]
    <2> DEFINE x == [old EXCEPT !.status = "FULFILLED", !.fulfilled = clock,
                        !.stake = [s \in Supporter |-> IF s \in approvers THEN 0 ELSE @[s]]]
    <2>1. market' = [market EXCEPT ![d] = x]
        BY DEF FinalizeDemand
    <2>2. x = [old EXCEPT !.status = "FULFILLED", !.fulfilled = clock,
                   !.stake = [s \in Supporter |-> IF s \in approvers THEN 0 ELSE old.stake[s]]]
        OBVIOUS
    <2>3. kept = [s \in Supporter |-> IF s \in approvers THEN 0 ELSE old.stake[s]]
        BY <1>1 DEF Share
    <2> HIDE DEF x, kept
    <2> QED BY <1>4, <2>1, <2>2, <2>3
<1>8. PICK e \in EventRow : /\ e = Event("DemandFulfilled", d) /\ e.name = "DemandFulfilled"
                            /\ e.demandId = d /\ e.time = clock
    BY <1>1, EventIs
<1>9. /\ events' \in Seq(EventRow)
      /\ \A to : HistoryUpTo(events', to) = Take(HistoryUpTo(events, to), e, to)
    BY <1>1, <1>6, <1>8, EmitsOne
<1> HIDE DEF paid, kept
<1>10. DemandSound(m)
    <2>1. old.created <= clock
        BY <1>1 DEF DemandSound
    <2> QED BY <1>1, <1>5, <1>6, <2>1 DEF DemandSound
<1>11. InsightsTypeOK' /\ \A c \in Ids' : DemandSound(market[c])'
    <2>1. left' \in Nat
        BY <1>1, <1>2, <1>6
    <2> QED BY <1>1, <1>6, <1>7, <1>9, <1>10, <2>1, StaysSound
<1>12. /\ Len(market') = Len(market) /\ Total(m.stake) \in Nat /\ Ids' = Ids
       /\ market'[d] = m /\ \A c \in Ids : c # d => market'[c] = market[c]
       /\ Creations' = Creations /\ KeysUsed' = KeysUsed /\ Pairs' = Pairs
       /\ \A to : NewIn(to)' = NewIn(to)
       /\ Sent' = Sent /\ Rejected' = Rejected
       /\ Total(Stakes)' = Total(Stakes) - Total(old.stake) + Total(m.stake)
    BY <1>5, <1>7, OneChanges DEF InsightsInv
<1>13. Total(Stakes)' + left' = Total(Stakes) + left
    <2>1. PICK x \in Nat, y \in Nat, z \in Nat, l \in Nat :
              x = Total(Stakes) /\ y = Total(paid) /\ z = Total(kept) /\ l = left
        BY <1>1, <1>2
    <2>2. Total(Stakes)' = x - (y + z) + z /\ left' = l + y
        BY <1>2, <1>5, <1>6, <1>12, <2>1
    <2>3. (x - (y + z) + z) + (l + y) = x + l
        OBVIOUS
    <2> QED BY <2>1, <2>2, <2>3
<1>14. d \notin Done /\ Done' = Done \cup {d}
    BY <1>5, <1>6, <1>12 DEF Done
<1>15. Total(Took)' = Total(Took) + took
    <2>1. Took' = [c \in Done' |-> market'[c].fulfilled - market'[c].created]
        BY DEF Took
    <2>2. market'[d].fulfilled - market'[d].created = took
        BY <1>3, <1>5, <1>12
    <2>3. \A c \in Done : market'[c].fulfilled - market'[c].created = Took[c]
        BY <1>12, <1>14 DEF Took, Done
    <2>4. PICK f \in [Done \cup {d} -> Nat] : f = Took'
        BY <1>1, <1>14, <2>1, <2>2, <2>3
    <2>5. f[d] = took /\ \A c \in Done : f[c] = Took[c]
        BY <1>14, <2>1, <2>2, <2>3, <2>4
    <2>6. [c \in Done |-> f[c]] = Took
        BY <1>1, <2>5
    <2>7. Total(f) = Total([c \in Done |-> f[c]]) + f[d]
        BY <1>1, <1>14, TotalWith
    <2> QED BY <2>4, <2>5, <2>6, <2>7
<1>16. ASSUME NEW to \in Nat, clock <= to PROVE Told(HistoryUpTo(events, to), to)'
    <2> DEFINE h == HistoryUpTo(events, to)
    <2>1. Told(h, to)
        BY <1>16, InsightsFacts
    <2>2. HistoryUpTo(events', to) = Take(h, e, to)
        BY <1>9
    <2> HIDE DEF h
    <2>3. h \in HistoryType /\ ~h.invalid /\ d \notin h.fulfilled
        BY <1>14, <2>1 DEF Told
    <2>4. PICK t \in Nat : t = old.created /\ t <= clock
        BY <1>1, InsightsFacts DEF DemandSound
    <2>5. {x \in h.created : x[1] = d} = {<<d, t>>}
        BY <2>1, <2>4 DEF Told, Creations
    <2>6. PICK at \in Nat : at = clock
        BY <1>1
    <2>7. /\ h \in HistoryType /\ ~h.invalid /\ at <= to /\ e.time = at
          /\ e.name = "DemandFulfilled" /\ d \in Nat /\ e.demandId = d /\ d \notin h.fulfilled
          /\ t <= at /\ {x \in h.created : x[1] = d} = {<<d, t>>}
        BY <1>1, <1>8, <1>16, <2>3, <2>4, <2>5, <2>6
    <2>8. PICK g \in HistoryType :
              /\ g = Take(h, e, to)
              /\ g.fulfilled = h.fulfilled \cup {d}
              /\ g.duration = h.duration + (at - t)
              /\ g.created = h.created /\ g.keys = h.keys /\ g.repeats = h.repeats
              /\ g.gross = h.gross /\ g.pairs = h.pairs /\ g.newPairs = h.newPairs
              /\ g.submissions = h.submissions /\ g.reopens = h.reopens /\ ~g.invalid
        BY <1>16, <2>7, TakesFulfilment
    <2>9. g.duration = Total(Took)'
        BY <1>3, <1>15, <2>1, <2>4, <2>6, <2>8 DEF Told
    <2>10. g.gross = Total(Stakes)' + left'
        BY <1>13, <2>1, <2>8 DEF Told
    <2> QED BY <1>12, <1>14, <2>1, <2>2, <2>8, <2>9, <2>10 DEF Told
<1> QED BY <1>6, <1>11, <1>16, StaysTold

(* What a demand more leaves as it was, and adds.                          *)
LEMMA OneMore ==
    ASSUME InsightsTypeOK, \A c \in Ids : DemandSound(market[c]),
           NEW m \in Entry, market' = Append(market, m), NEW d, d = Len(market) + 1,
           m.status = "OPEN", m.nonce = 0, ~m.builder
    PROVE  /\ d \in Nat /\ d \notin Ids
           /\ market' \in Seq(Entry) /\ Len(market') = Len(market) + 1 /\ Ids' = Ids \cup {d}
           /\ market'[d] = m /\ \A c \in Ids : market'[c] = market[c]
           /\ Total(m.stake) \in Nat /\ Total(Stakes)' = Total(Stakes) + Total(m.stake)
           /\ Creations' = Creations \cup {<<d, m.created>>}
           /\ KeysUsed' = KeysUsed \cup {m.key}
           /\ Units(Sent)' = Units(Sent) /\ Units(Rejected)' = Units(Rejected)
           /\ Done' = Done /\ Took' = Took
<1>1. /\ Len(market) \in Nat /\ Ids = 1 .. Len(market) /\ IsFiniteSet(Ids) /\ IsFiniteSet(Supporter)
      /\ market \in Seq(Entry) /\ Stakes \in [Ids -> Nat] /\ Total(Stakes) \in Nat
      /\ Sent \in [Ids -> Nat] /\ Rejected \in [Ids -> Nat]
    BY MarketTypes DEF InsightsTypeOK
<1>2. /\ d \in Nat /\ market' \in Seq(Entry) /\ Len(market') = d
      /\ market'[d] = m /\ \A c \in 1 .. Len(market) : market'[c] = market[c]
    BY <1>1
<1>3. d \notin Ids /\ Ids' = Ids \cup {d}
    <2>1. Ids' = 1 .. d
        BY <1>2 DEF Ids
    <2> QED BY <1>1, <2>1
<1>4. \A c \in Ids : market'[c] = market[c]
    BY <1>1, <1>2
<1>5. IsFiniteSet(Ids) /\ d \notin Ids
    BY <1>1, <1>3
<1>6. PICK n \in Nat : n = Total(m.stake)
    <2>1. m.stake \in [Supporter -> Nat]
        BY DEF Entry
    <2> QED BY <1>1, <2>1, TotalType
<1>7. Total(Stakes)' = Total(Stakes) + n
    <2>1. Stakes' = [c \in Ids \cup {d} |-> Total(market'[c].stake)]
        BY <1>3 DEF Stakes
    <2>2. \A c \in Ids : Total(market'[c].stake) = Stakes[c]
        BY <1>4 DEF Stakes
    <2>3. PICK f \in [Ids \cup {d} -> Nat] : f = Stakes'
        BY <1>1, <1>2, <1>6, <2>1, <2>2
    <2>4. f[d] = n /\ \A c \in Ids : f[c] = Stakes[c]
        BY <1>2, <1>6, <2>1, <2>2, <2>3
    <2>5. [c \in Ids |-> f[c]] = Stakes
        BY <1>1, <2>4
    <2>6. Total(f) = Total([c \in Ids |-> f[c]]) + f[d]
        BY <1>5, TotalWith
    <2> QED BY <2>3, <2>4, <2>5, <2>6
<1>8. Creations' = Creations \cup {<<d, m.created>>}
    <2>1. Creations' = {<<c, market'[c].created>> : c \in Ids \cup {d}}
        BY <1>3 DEF Creations
    <2> QED BY <1>2, <1>4, <2>1 DEF Creations
<1>9. KeysUsed' = KeysUsed \cup {m.key}
    <2>1. KeysUsed' = {market'[c].key : c \in Ids \cup {d}}
        BY <1>3 DEF KeysUsed
    <2> QED BY <1>2, <1>4, <2>1 DEF KeysUsed
<1>10. Units(Sent)' = Units(Sent)
    <2>1. Sent' = [c \in Ids \cup {d} |-> market'[c].nonce]
        BY <1>3 DEF Sent
    <2>2. \A c \in Ids : market'[c].nonce = Sent[c]
        BY <1>4 DEF Sent
    <2>3. ASSUME NEW c \in Ids \cup {d} PROVE market'[c].nonce \in Nat
        <3>1. CASE c = d
            BY <1>2, <3>1
        <3>2. CASE c \in Ids
            BY <1>1, <2>2, <3>2
        <3> QED BY <3>1, <3>2
    <2>4. PICK g \in [Ids \cup {d} -> Nat] : g = Sent'
        BY <2>1, <2>3
    <2>5. g[d] = 0 /\ \A c \in Ids : Sent[c] = g[c]
        BY <1>2, <2>1, <2>2, <2>4
    <2>6. Units(g) = Units([c \in Ids |-> g[c]])
        BY <1>5, <2>5, UnitsWithNone
    <2>7. [c \in Ids |-> g[c]] = Sent
        BY <1>1, <2>5
    <2>8. Units(Sent)' = Units(Sent')
        OBVIOUS
    <2> QED BY <2>4, <2>6, <2>7, <2>8
<1>11. Units(Rejected)' = Units(Rejected)
    <2> DEFINE r(c) == IF market'[c].builder THEN market'[c].nonce - 1 ELSE market'[c].nonce
    <2>1. Rejected' = [c \in Ids \cup {d} |-> r(c)]
        BY <1>3 DEF Rejected
    <2>2. r(d) = 0 /\ \A c \in Ids : r(c) = Rejected[c]
        BY <1>2, <1>4 DEF Rejected
    <2> HIDE DEF r
    <2>3. PICK g \in [Ids \cup {d} -> Nat] : g = Rejected'
        BY <1>1, <2>1, <2>2
    <2>4. g[d] = 0 /\ \A c \in Ids : Rejected[c] = g[c]
        BY <2>1, <2>2, <2>3
    <2>5. Units(g) = Units([c \in Ids |-> g[c]])
        BY <1>5, <2>4, UnitsWithNone
    <2>6. [c \in Ids |-> g[c]] = Rejected
        BY <1>1, <2>4
    <2>7. Units(Rejected)' = Units(Rejected')
        OBVIOUS
    <2> QED BY <2>3, <2>5, <2>6, <2>7
<1>12. Done' = Done
    BY <1>2, <1>3, <1>4 DEF Done
<1>13. Took' = Took
    BY <1>4, <1>12 DEF Took, Done
<1> QED BY <1>1, <1>2, <1>3, <1>4, <1>6, <1>7, <1>8, <1>9, <1>10, <1>11, <1>12, <1>13

(* A demand is created, with the first stake in it: one that repeats a key *)
(* is counted so, and the pair is new.                                     *)
LEMMA CreateTold ==
    ASSUME InsightsInv, NEW k \in DemandKey, NEW s \in Supporter, NEW a \in Amount,
           CreateDemand(k, s, a)
    PROVE  InsightsInv'
<1> DEFINE zero == [x \in Supporter |-> 0]
           never == [x \in Supporter |-> NeverYet]
<1>1. /\ InsightsTypeOK /\ \A c \in Ids : DemandSound(market[c])
      /\ clock \in Nat /\ clock \in 0 .. MaxClock /\ NeverYet \in Nat /\ clock < NeverYet
      /\ left \in Nat /\ events \in Seq(EventRow) /\ a \in Nat
      /\ Len(market) \in Nat /\ IsFiniteSet(Ids) /\ IsFiniteSet(Supporter)
      /\ Total(Stakes) \in Nat
    BY MarketTypes, InsightsAssumption DEF InsightsInv, InsightsTypeOK
<1>2. PICK d \in Nat : d = Len(market) + 1
    BY <1>1
<1> DEFINE p == <<d, s>>
<1>3. PICK stake \in [Supporter -> Nat], since \in [Supporter -> 0 .. NeverYet] :
         /\ stake = [x \in Supporter |-> IF x = s THEN a ELSE 0]
         /\ since = [x \in Supporter |-> IF x = s THEN clock ELSE NeverYet]
    <2>1. clock \in 0 .. NeverYet /\ NeverYet \in 0 .. NeverYet
        BY <1>1
    <2>2. [x \in Supporter |-> IF x = s THEN a ELSE 0] \in [Supporter -> Nat]
        BY <1>1
    <2>3. [x \in Supporter |-> IF x = s THEN clock ELSE NeverYet]
              \in [Supporter -> 0 .. NeverYet]
        BY <2>1
    <2> QED BY <2>2, <2>3
<1>4. PICK m \in Entry :
         m = [status |-> "OPEN", key |-> k, created |-> clock, fulfilled |-> NeverYet,
              stake |-> stake, since |-> since, builder |-> FALSE, nonce |-> 0]
    <2>1. clock \in 0 .. MaxClock /\ NeverYet \in 0 .. NeverYet
        BY <1>1
    <2> QED BY <2>1 DEF Entry
<1>5. /\ m.status = "OPEN" /\ m.key = k /\ m.created = clock /\ m.stake = stake
      /\ m.since = since /\ ~m.builder /\ m.nonce = 0
    BY <1>4
<1>6. /\ market' = Append(market, m) /\ clock' = clock /\ left' = left
      /\ Emit(<<Creation(d, k), Supported(d, s, a)>>)
    BY <1>2, <1>3, <1>4 DEF CreateDemand
<1>7. PICK e \in EventRow : /\ e = Creation(d, k) /\ e.name = "DemandCreated"
                            /\ e.demandId = d /\ e.time = clock /\ e.demandKey = k
    BY <1>1, CreationIs
<1>8. PICK f \in EventRow : /\ f = Supported(d, s, a) /\ f.name = "DemandSupported"
                            /\ f.demandId = d /\ f.time = clock /\ f.supporter = s
                            /\ f.amount = a
    BY <1>1, SupportIs
<1>9. /\ events' \in Seq(EventRow)
      /\ \A to : HistoryUpTo(events', to) = Take(Take(HistoryUpTo(events, to), e, to), f, to)
    BY <1>1, <1>6, <1>7, <1>8, EmitsTwo
<1>10. /\ d \notin Ids
       /\ market' \in Seq(Entry) /\ Len(market') = Len(market) + 1 /\ Ids' = Ids \cup {d}
       /\ market'[d] = m /\ \A c \in Ids : market'[c] = market[c]
       /\ Total(m.stake) \in Nat /\ Total(Stakes)' = Total(Stakes) + Total(m.stake)
       /\ Creations' = Creations \cup {<<d, m.created>>}
       /\ KeysUsed' = KeysUsed \cup {m.key}
       /\ Units(Sent)' = Units(Sent) /\ Units(Rejected)' = Units(Rejected)
       /\ Done' = Done /\ Took' = Took
    BY <1>1, <1>2, <1>5, <1>6, OneMore
<1>11. Total(m.stake) = a
    <2>1. Total(zero) = 0
        BY <1>1, TotalZero
    <2>2. stake = [zero EXCEPT ![s] = a]
        BY <1>3
    <2>3. zero \in [Supporter -> Nat] /\ zero[s] = 0
        OBVIOUS
    <2> HIDE DEF zero
    <2>4. Total([zero EXCEPT ![s] = a]) = Total(zero) - zero[s] + a
        BY <1>1, <2>3, StakeUpdate
    <2> QED BY <1>1, <1>5, <2>1, <2>2, <2>3, <2>4
<1>12. InsightsTypeOK' /\ \A c \in Ids' : DemandSound(market[c])'
    <2>1. InsightsTypeOK'
        BY <1>1, <1>6, <1>9, <1>10 DEF InsightsTypeOK
    <2>2. DemandSound(m)
        BY <1>1, <1>3, <1>5 DEF DemandSound
    <2>3. \A c \in Ids' : DemandSound(market'[c])
        BY <1>1, <1>10, <2>2
    <2>4. \A c \in Ids' : DemandSound(market[c])' <=> DemandSound(market'[c])
        BY <1>6 DEF DemandSound, NeverYet
    <2> QED BY <2>1, <2>3, <2>4
<1>13. Pairs' = Pairs \cup {p} /\ p \notin Pairs
    <2>1. \A x \in Supporter : since[x] < NeverYet <=> x = s
        BY <1>1, <1>3
    <2>2. \A q \in Ids \X Supporter : q[1] \in Ids /\ q[1] # d
        BY <1>10
    <2>3. Pairs' = {q \in (Ids \cup {d}) \X Supporter : market'[q[1]].since[q[2]] < NeverYet}
        BY <1>10 DEF Pairs, NeverYet
    <2>4. ASSUME NEW q \in (Ids \cup {d}) \X Supporter
          PROVE  q \in Pairs' <=> q \in Pairs \/ q = p
        <3>1. CASE q[1] = d
            <4>1. q = p <=> q[2] = s
                BY <3>1
            <4>2. q \notin Pairs
                BY <2>2, <3>1 DEF Pairs
            <4>3. q \in Pairs' <=> since[q[2]] < NeverYet
                BY <1>5, <1>10, <2>3, <3>1
            <4> QED BY <2>1, <4>1, <4>2, <4>3
        <3>2. CASE q[1] # d
            <4>1. q \in Ids \X Supporter /\ q # p
                BY <3>2
            <4>2. q \in Pairs <=> market[q[1]].since[q[2]] < NeverYet
                BY <4>1 DEF Pairs
            <4>3. market'[q[1]] = market[q[1]]
                BY <1>10, <2>2, <4>1
            <4> QED BY <2>3, <4>1, <4>2, <4>3
        <3> QED BY <3>1, <3>2
    <2>5. p \in (Ids \cup {d}) \X Supporter /\ Pairs \in SUBSET ((Ids \cup {d}) \X Supporter)
        BY DEF Pairs
    <2>6. Pairs' \in SUBSET ((Ids \cup {d}) \X Supporter)
        BY <2>3
    <2>7. p \notin Pairs
        BY <1>10 DEF Pairs
    <2> QED BY <2>4, <2>5, <2>6, <2>7
<1>14. ASSUME NEW to \in Nat
       PROVE  NewIn(to)' = IF clock > From(to) THEN NewIn(to) \cup {p} ELSE NewIn(to)
    <2>1. \A q \in Pairs : market'[q[1]] = market[q[1]]
        BY <1>10 DEF Pairs
    <2>2. market'[p[1]].since[p[2]] = clock
        BY <1>3, <1>5, <1>10
    <2>3. From(to)' = From(to)
        BY DEF From
    <2>4. NewIn(to)' = {q \in Pairs \cup {p} : market'[q[1]].since[q[2]] > From(to)}
        BY <1>13, <2>3 DEF NewIn
    <2> HIDE DEF p
    <2> QED BY <1>13, <2>1, <2>2, <2>4 DEF NewIn
<1>15. IsFiniteSet(KeysUsed)
    <2> DEFINE key == [c \in Ids |-> market[c].key]
    <2>1. key \in Surjection(Ids, KeysUsed)
        BY DEF Surjection, KeysUsed
    <2> HIDE DEF key
    <2> QED BY <1>1, <2>1, FS_Surjection
<1>16. ASSUME NEW to \in Nat, clock <= to PROVE Told(HistoryUpTo(events, to), to)'
    <2> DEFINE h == HistoryUpTo(events, to)
    <2>1. Told(h, to)
        BY <1>16 DEF InsightsInv
    <2>2. HistoryUpTo(events', to) = Take(Take(h, e, to), f, to)
        BY <1>9
    <2> HIDE DEF h
    <2>3. \A c \in h.created : c[1] # d
        BY <1>10, <2>1 DEF Told, Creations
    <2>4. PICK at \in Nat, n \in Nat : at = clock /\ n = a
        BY <1>1
    <2>5. /\ h \in HistoryType /\ ~h.invalid /\ d \in Nat /\ at <= to /\ e.time = at
          /\ e.name = "DemandCreated" /\ e.demandId = d /\ e.demandKey = k
        BY <1>1, <1>2, <1>7, <1>16, <2>1, <2>4 DEF Told
    <2>6. PICK g \in HistoryType :
              /\ g = Take(h, e, to)
              /\ g.created = h.created \cup {<<d, at>>}
              /\ g.keys = h.keys \cup {k}
              /\ g.repeats = IF k \in h.keys THEN h.repeats + 1 ELSE h.repeats
              /\ g.gross = h.gross /\ g.pairs = h.pairs /\ g.newPairs = h.newPairs
              /\ g.submissions = h.submissions /\ g.reopens = h.reopens
              /\ g.fulfilled = h.fulfilled /\ g.duration = h.duration /\ ~g.invalid
        BY <1>16, <2>5, <2>3, TakesCreation
    <2>7. /\ g \in HistoryType /\ ~g.invalid /\ at <= to /\ f.time = at
          /\ f.name = "DemandSupported" /\ f.demandId = d /\ f.supporter = s /\ f.amount = n
        BY <1>1, <1>8, <1>16, <2>6, <2>4
    <2>8. PICK r \in HistoryType :
              /\ r = Take(g, f, to)
              /\ r.gross = g.gross + n
              /\ r.pairs = g.pairs \cup {p}
              /\ r.newPairs = IF p \notin g.pairs /\ at > From(to)
                              THEN g.newPairs + 1 ELSE g.newPairs
              /\ r.created = g.created /\ r.keys = g.keys /\ r.repeats = g.repeats
              /\ r.submissions = g.submissions /\ r.reopens = g.reopens
              /\ r.fulfilled = g.fulfilled /\ r.duration = g.duration /\ ~r.invalid
        BY <1>16, <2>7, TakesSupport
    <2>9. HistoryUpTo(events, to)' = r
        BY <2>2, <2>6, <2>8
    <2>10. r.newPairs = Cardinality(NewIn(to)')
        <3>1. IsFiniteSet(NewIn(to)) /\ p \notin NewIn(to)
            <4>1. Pairs \in SUBSET (Ids \X Supporter) /\ NewIn(to) \in SUBSET Pairs
                BY DEF Pairs, NewIn
            <4>2. IsFiniteSet(Ids \X Supporter)
                BY <1>1, FS_Product
            <4> QED BY <1>13, <4>1, <4>2, FS_Subset
        <3>2. Cardinality(NewIn(to) \cup {p}) = Cardinality(NewIn(to)) + 1
            BY <3>1, FS_AddElement
        <3>3. r.newPairs = IF clock > From(to) THEN Cardinality(NewIn(to)) + 1
                           ELSE Cardinality(NewIn(to))
            BY <1>13, <2>1, <2>6, <2>4, <2>8 DEF Told
        <3> QED BY <1>14, <3>2, <3>3
    <2>11. r.gross = Total(Stakes)' + left'
        <3>1. r.gross = Total(Stakes) + left + a
            BY <2>1, <2>6, <2>4, <2>8 DEF Told
        <3> QED BY <1>1, <1>6, <1>10, <1>11, <3>1
    <2>12. r.repeats = Len(market') - Cardinality(KeysUsed')
        <3>1. Cardinality(KeysUsed) \in Nat
            BY <1>15, FS_CardinalityType
        <3>2. KeysUsed' = KeysUsed \cup {k}
            BY <1>5, <1>10
        <3>3. r.repeats = IF k \in KeysUsed THEN Len(market) - Cardinality(KeysUsed) + 1
                          ELSE Len(market) - Cardinality(KeysUsed)
            BY <2>1, <2>6, <2>8 DEF Told
        <3>4. Cardinality(KeysUsed') = IF k \in KeysUsed THEN Cardinality(KeysUsed)
                                       ELSE Cardinality(KeysUsed) + 1
            BY <1>15, <3>2, FS_AddElement
        <3>5. PICK l \in Nat, c \in Nat : l = Len(market) /\ c = Cardinality(KeysUsed)
            BY <1>1, <3>1
        <3>6. CASE k \in KeysUsed
            <4>1. /\ r.repeats = l - c + 1 /\ Len(market') = l + 1
                  /\ Cardinality(KeysUsed') = c
                BY <1>10, <3>3, <3>4, <3>5, <3>6
            <4> QED BY <4>1
        <3>7. CASE k \notin KeysUsed
            <4>1. /\ r.repeats = l - c /\ Len(market') = l + 1
                  /\ Cardinality(KeysUsed') = c + 1
                BY <1>10, <3>3, <3>4, <3>5, <3>7
            <4> QED BY <4>1
        <3> QED BY <3>6, <3>7
    <2>13. /\ r.created = Creations' /\ r.keys = KeysUsed' /\ r.pairs = Pairs'
           /\ r.submissions = Units(Sent)' /\ r.reopens = Units(Rejected)'
           /\ r.fulfilled = Done' /\ r.duration = Total(Took)'
        BY <1>5, <1>10, <1>13, <2>1, <2>4, <2>6, <2>8 DEF Told
    <2> QED BY <2>8, <2>9, <2>10, <2>11, <2>12, <2>13 DEF Told
<1> QED BY <1>6, <1>12, <1>16, StaysTold

(* Every step keeps the invariant.                                         *)
LEMMA InsightsInductive ==
    InsightsInv /\ [InsightsNext]_insightsVars => InsightsInv'
<1> SUFFICES ASSUME InsightsInv, [InsightsNext]_insightsVars PROVE InsightsInv'
    OBVIOUS
<1>1. ASSUME NEW k \in DemandKey, NEW s \in Supporter, NEW a \in Amount, CreateDemand(k, s, a)
      PROVE  InsightsInv'
    BY <1>1, CreateTold
<1>2. ASSUME NEW d \in Ids, NEW s \in Supporter, NEW a \in Amount, SupportDemand(d, s, a)
      PROVE  InsightsInv'
    BY <1>2, SupportTold
<1>3. ASSUME NEW d \in Ids, SubmitService(d) PROVE InsightsInv'
    BY <1>3, SubmitTold
<1>4. ASSUME NEW d \in Ids, ReopenDemand(d) PROVE InsightsInv'
    BY <1>4, ReopenTold
<1>5. ASSUME NEW d \in Ids, CancelDemand(d) PROVE InsightsInv'
    BY <1>5, CancelTold
<1>6. ASSUME NEW d \in Ids, NEW approvers \in SUBSET Supporter, FinalizeDemand(d, approvers)
      PROVE  InsightsInv'
    BY <1>6, FinalizeTold
<1>7. ASSUME NEW d \in Ids, NEW s \in Supporter, RefundStake(d, s) PROVE InsightsInv'
    BY <1>7, RefundTold
<1>8. CASE TimeGoesOn
    BY <1>8, TimeTold
<1>9. CASE UNCHANGED insightsVars
    <2>1. clock' = clock /\ market' = market /\ events' = events /\ left' = left
        BY <1>9 DEF insightsVars
    <2>2. /\ Ids' = Ids /\ Creations' = Creations /\ KeysUsed' = KeysUsed /\ Pairs' = Pairs
          /\ Stakes' = Stakes /\ Sent' = Sent /\ Rejected' = Rejected /\ Done' = Done
        BY <2>1 DEF Ids, Creations, KeysUsed, Pairs, Stakes, Sent, Rejected, Done, NeverYet
    <2>3. Took' = Took /\ \A to : NewIn(to)' = NewIn(to)
        BY <2>1, <2>2 DEF Took, NewIn, From
    <2>4. InsightsTypeOK' /\ \A c \in Ids' : DemandSound(market[c])'
        BY <2>1, <2>2 DEF InsightsInv, InsightsTypeOK, DemandSound, NeverYet
    <2>5. ASSUME NEW to \in Nat, clock <= to PROVE Told(HistoryUpTo(events, to), to)'
        <3>1. Told(HistoryUpTo(events, to), to)
            BY <2>5 DEF InsightsInv
        <3>2. HistoryUpTo(events', to) = HistoryUpTo(events, to)
            BY <2>1
        <3> QED BY <2>1, <2>2, <2>3, <3>1, <3>2 DEF Told
    <2> QED BY <2>1, <2>4, <2>5, StaysTold
<1> QED BY <1>1, <1>2, <1>3, <1>4, <1>5, <1>6, <1>7, <1>8, <1>9 DEF InsightsNext

(* As many candidates are neither rejected as there are demands with a     *)
(* builder.                                                                *)
LEMMA BuildersRemain ==
    ASSUME InsightsInv
    PROVE  Cardinality(Units(Sent)) - Cardinality(Units(Rejected))
               = Cardinality({d \in Ids : market[d].builder})
<1> DEFINE B == {d \in Ids : market[d].builder}
           latest == [d \in B |-> <<d, market[d].nonce>>]
           L == {<<d, market[d].nonce>> : d \in B}
<1>1. /\ IsFiniteSet(Ids) /\ Sent \in [Ids -> Nat] /\ Rejected \in [Ids -> Nat]
      /\ \A d \in Ids : DemandSound(market[d]) /\ market[d] \in Entry
    BY MarketTypes DEF InsightsInv
<1>2. B \in SUBSET Ids
    OBVIOUS
<1>3. IsFiniteSet(B)
    BY <1>1, <1>2, FS_Subset
<1>4. latest \in Bijection(B, L)
    <2>1. latest \in Surjection(B, L)
        BY DEF Surjection
    <2>2. latest \in Injection(B, L)
        BY DEF Injection, IsInjective
    <2> QED BY <2>1, <2>2 DEF Bijection
<1>5. IsFiniteSet(L) /\ Cardinality(L) = Cardinality(B)
    <2> HIDE DEF B, L, latest
    <2>1. ExistsBijection(B, L)
        BY <1>4 DEF ExistsBijection
    <2> QED BY <1>3, <2>1, FS_Bijection
<1>6. IsFiniteSet(Units(Sent)) /\ IsFiniteSet(Units(Rejected))
    BY <1>1, UnitsFinite
<1>7. ASSUME NEW d \in Ids
      PROVE  /\ \A u : u \in UnitsOf(Sent, d) <=>
                           \/ u \in UnitsOf(Rejected, d)
                           \/ d \in B /\ u = <<d, market[d].nonce>>
             /\ d \in B => <<d, market[d].nonce>> \notin UnitsOf(Rejected, d)
    <2>1. PICK n \in Nat : n = market[d].nonce
        BY <1>1 DEF Entry
    <2>2. CASE d \in B
        <3>1. n > 0
            BY <1>1, <2>1, <2>2 DEF DemandSound
        <3>2. Sent[d] = n /\ Rejected[d] = n - 1
            BY <2>1, <2>2 DEF Sent, Rejected
        <3>3. 1 .. n = (1 .. n - 1) \cup {n} /\ n \notin 1 .. n - 1
            BY <3>1
        <3> QED BY <2>1, <2>2, <3>2, <3>3 DEF UnitsOf
    <2>3. CASE d \notin B
        <3>1. Sent[d] = Rejected[d]
            BY <2>3 DEF Sent, Rejected
        <3> QED BY <2>3, <3>1 DEF UnitsOf
    <2> QED BY <2>2, <2>3
<1>8. Units(Sent) = Units(Rejected) \cup L
    <2>1. \A u : u \in Units(Sent) <=> \E d \in Ids : u \in UnitsOf(Sent, d)
        BY <1>1 DEF Units
    <2>2. \A u : u \in Units(Rejected) <=> \E d \in Ids : u \in UnitsOf(Rejected, d)
        BY <1>1 DEF Units
    <2>3. \A u : u \in L <=> \E d \in Ids : d \in B /\ u = <<d, market[d].nonce>>
        BY <1>2
    <2> HIDE DEF B, L
    <2>4. ASSUME NEW u, u \in Units(Sent) PROVE u \in Units(Rejected) \/ u \in L
        <3>1. PICK d \in Ids : u \in UnitsOf(Sent, d)
            BY <2>1, <2>4
        <3>2. u \in UnitsOf(Rejected, d) \/ (d \in B /\ u = <<d, market[d].nonce>>)
            BY <1>7, <3>1
        <3> QED BY <2>2, <2>3, <3>2
    <2>5. ASSUME NEW u, u \in Units(Rejected) PROVE u \in Units(Sent)
        <3>1. PICK d \in Ids : u \in UnitsOf(Rejected, d)
            BY <2>2, <2>5
        <3> QED BY <1>7, <2>1, <3>1
    <2>6. ASSUME NEW u, u \in L PROVE u \in Units(Sent)
        <3>1. PICK d \in Ids : d \in B /\ u = <<d, market[d].nonce>>
            BY <2>3, <2>6
        <3>2. u \in UnitsOf(Sent, d)
            BY <1>7, <3>1
        <3> QED BY <2>1, <3>2
    <2> QED BY <2>4, <2>5, <2>6
<1>9. Units(Rejected) \cap L = {}
    <2>1. ASSUME NEW d \in Ids, d \in B, <<d, market[d].nonce>> \in Units(Rejected) PROVE FALSE
        <3>1. PICK c \in Ids : <<d, market[d].nonce>> \in UnitsOf(Rejected, c)
            BY <1>1, <2>1 DEF Units
        <3>2. c = d
            BY <3>1 DEF UnitsOf
        <3> QED BY <1>7, <2>1, <3>1, <3>2
    <2> QED BY <2>1
<1>10. Cardinality(Units(Sent)) = Cardinality(Units(Rejected)) + Cardinality(L)
    <2> HIDE DEF L
    <2>1. Cardinality(Units(Rejected) \cup L)
              = Cardinality(Units(Rejected)) + Cardinality(L)
                    - Cardinality(Units(Rejected) \cap L)
        BY <1>5, <1>6, FS_Union
    <2>2. Cardinality(Units(Rejected) \cap L) = 0
        BY <1>9, FS_EmptySet
    <2>3. PICK x \in Nat, y \in Nat : x = Cardinality(Units(Rejected)) /\ y = Cardinality(L)
        BY <1>5, <1>6, FS_CardinalityType
    <2>4. Cardinality(Units(Sent)) = x + y - 0
        BY <1>8, <2>1, <2>2, <2>3
    <2> QED BY <2>3, <2>4
<1>11. Cardinality(Units(Rejected)) \in Nat /\ Cardinality(L) \in Nat
    BY <1>5, <1>6, FS_CardinalityType
<1> HIDE DEF L, B
<1>12. Cardinality(Units(Sent)) - Cardinality(Units(Rejected)) = Cardinality(B)
    BY <1>5, <1>10, <1>11
<1> QED BY <1>12 DEF B

(* What the history says is what the snapshot says.                        *)
LEMMA ToldAddsUp ==
    InsightsInv => AnswerAddsUp
<1> SUFFICES ASSUME InsightsInv PROVE AnswerAddsUp
    OBVIOUS
<1> DEFINE h == History
           made == [d \in Ids |-> <<d, market[d].created>>]
<1>1. /\ clock \in Nat /\ Len(market) \in Nat /\ IsFiniteSet(Ids)
      /\ Cardinality(Ids) = Len(market)
    BY MarketTypes DEF InsightsInv
<1>2. Told(h, To)
    <2>1. Told(HistoryUpTo(events, clock), clock)
        BY <1>1 DEF InsightsInv
    <2> QED BY <2>1 DEF History, To
<1>3. made \in Bijection(Ids, Creations)
    <2>1. made \in Surjection(Ids, Creations)
        BY DEF Surjection, Creations
    <2>2. made \in Injection(Ids, Creations)
        BY DEF Injection, IsInjective, Creations
    <2> QED BY <2>1, <2>2 DEF Bijection
<1> HIDE DEF made, h
<1>4. Cardinality(Creations) = Len(market)
    <2>1. ExistsBijection(Ids, Creations)
        BY <1>3 DEF ExistsBijection
    <2> QED BY <1>1, <2>1, FS_Bijection
<1>5. /\ Snapshot.demandCount = Len(market)
      /\ Snapshot.fulfilled = Cardinality({d \in Ids : market[d].status = "FULFILLED"})
      /\ Snapshot.escrow = Total([d \in Ids |-> Committed(d)])
    BY DEF Snapshot
<1>6. Snapshot.fulfilled = Cardinality(Done) /\ Snapshot.escrow = Total(Stakes)
    BY <1>5 DEF Done, Stakes, Committed
<1>7. h.repeats = Len(market) - Cardinality({market[d].key : d \in Ids})
    BY <1>2 DEF Told, KeysUsed
<1>8. h.duration = Total([d \in {c \in Ids : market[c].status = "FULFILLED"} |->
                              market[d].fulfilled - market[d].created])
    BY <1>2 DEF Told, Took, Done
<1>9. Cardinality(h.submissions) - Cardinality(h.reopens)
          = Cardinality({d \in Ids : market[d].builder})
    BY <1>2, BuildersRemain DEF Told
<1>10. h.newPairs = Cardinality({p \in Pairs : market[p[1]].since[p[2]] > From(To)})
    BY <1>2 DEF Told, NewIn
<1> QED BY <1>2, <1>4, <1>5, <1>6, <1>7, <1>8, <1>9, <1>10 DEF AnswerAddsUp, Told, Pairs, h

(* The two halves of the paid answer agree: whatever the contract has      *)
(* emitted, the history that is read of its events is never withheld, and  *)
(* counts what the demands themselves say (buildInsights).                 *)
THEOREM AnswerAlwaysAddsUp ==
    InsightsSpec => []AnswerAddsUp
<1>1. InsightsInv => AnswerAddsUp
    BY ToldAddsUp
<1> QED BY <1>1, InsightsStart, InsightsInductive, PTL DEF InsightsSpec

-------------------------------------------------------------------------------
(* The three kinds of lists.                                               *)

(* What the ranking, the listings and the services page show is sound: the *)
(* scores, ranks, percentiles and reasons that AI buyers and the page get, *)
(* the filtered and sorted list with its counts, chart and table, and the  *)
(* lists of services with the page of each.                                *)
THEOREM ListsAlwaysSound == RankingSpec /\ ListingSpec /\ ServicesSpec => []ListsAreSound
    BY RankingTellsTruth, ListingTellsTruth, ServicesTellTruth, PTL DEF ListsAreSound

===============================================================================
