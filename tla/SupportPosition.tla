---------------------------- MODULE SupportPosition ----------------------------
(***************************************************************************)
(* What the page shows of the supporter's own position in a demand: the    *)
(* reads of loadSupport, by the effect of the page, by the button and by   *)
(* the readback of an action, overlap each other and changes of the wallet *)
(* and of the demand (frontend/App.tsx, app-state.ts).                     *)
(*                                                                         *)
(* An identity is a wallet with a demand; a position is known by how often *)
(* it has changed.                                                         *)
(***************************************************************************)
EXTENDS Naturals

CONSTANTS
    Identity, NoIdentity,
    Slot,              \* for the reads under way
    NoSlot,
    MaxPosition        \* bound on the changes of a position

ASSUME SupportAssumption ==
    NoIdentity \notin Identity /\ NoSlot \notin Slot /\ MaxPosition \in Nat

VARIABLES
    position,          \* in the contract
    identity,          \* of the page that is shown, supportIdentityRef
    effectDue,
    reads,
    latest,            \* the read that has the number of supportRequestRef
    support, supportKey, supportState,
    snapshot,          \* supportSnapshot of the action at work
    floor              \* a history: the position when the latest read began

supportVars == <<position, identity, effectDue, reads, latest, support, supportKey,
                 supportState, snapshot, floor>>

Failed == MaxPosition + 1
Empty == MaxPosition + 2

(* The two calls of readSupport.                                           *)
View == {"support", "refundable"}

Position == [View -> 0 .. Empty]

EmptySupport == [v \in View |-> Empty]

NoRead == [identity |-> NoIdentity, live |-> FALSE, effect |-> FALSE, answer |-> EmptySupport]

SupportTypeOK ==
    /\ position \in [Identity -> 0 .. MaxPosition]
    /\ identity \in Identity \cup {NoIdentity} /\ effectDue \in BOOLEAN
    /\ reads \in [Slot -> [identity : Identity \cup {NoIdentity}, live : BOOLEAN,
                           effect : BOOLEAN, answer : Position]]
    /\ latest \in Slot \cup {NoSlot}
    /\ support \in Position
    /\ supportKey \in Identity \cup {NoIdentity}
    /\ supportState \in {"loading", "ready", "error"}
    /\ snapshot \in Identity \cup {NoIdentity} /\ floor \in 0 .. MaxPosition

-------------------------------------------------------------------------------
(* loadSupport takes the next number, and the page is loading.             *)
StartRead(s, i, byEffect) ==
    /\ reads[s] = NoRead
    /\ reads' = [t \in Slot |->
           IF t = s
           THEN [identity |-> i, live |-> TRUE, effect |-> byEffect, answer |-> EmptySupport]
           ELSE IF byEffect /\ reads[t].effect THEN [reads[t] EXCEPT !.live = FALSE]
           ELSE reads[t]]
    /\ latest' = s
    /\ supportKey' = i /\ supportState' = "loading"
    /\ floor' = position[i]

(* Another wallet, another demand, or none.                                *)
Render(i) ==
    /\ ~effectDue /\ i # identity
    /\ identity' = i /\ effectDue' = TRUE
    /\ UNCHANGED <<position, reads, latest, support, supportKey, supportState, snapshot, floor>>

(* The effect: what the last one began is not live any more.               *)
EffectReads(s) ==
    /\ effectDue /\ identity # NoIdentity
    /\ StartRead(s, identity, TRUE)
    /\ effectDue' = FALSE /\ support' = EmptySupport
    /\ UNCHANGED <<position, identity, snapshot>>

EffectClears ==
    /\ effectDue /\ identity = NoIdentity
    /\ reads' = [s \in Slot |-> [reads[s] EXCEPT !.live = FALSE]]
    /\ latest' = NoSlot
    /\ effectDue' = FALSE /\ support' = EmptySupport
    /\ supportKey' = NoIdentity /\ supportState' = "ready"
    /\ UNCHANGED <<position, identity, snapshot, floor>>

(* onRefresh                                                               *)
PressReload(s) ==
    /\ identity # NoIdentity
    /\ StartRead(s, identity, FALSE)
    /\ UNCHANGED <<position, identity, effectDue, support, snapshot>>

(* run and verifyPendingTransaction: the identity is that of the start;    *)
(* with the page of another one nothing is read.                           *)
Act ==
    /\ snapshot = NoIdentity /\ identity # NoIdentity
    /\ snapshot' = identity
    /\ UNCHANGED <<position, identity, effectDue, reads, latest, support, supportKey,
                   supportState, floor>>

ReadBackSupport(s) ==
    /\ snapshot # NoIdentity
    /\ snapshot' = NoIdentity
    /\ \/ snapshot = identity /\ StartRead(s, snapshot, FALSE)
       \/ snapshot # identity /\ UNCHANGED <<reads, latest, supportKey, supportState, floor>>
    /\ UNCHANGED <<position, identity, effectDue, support>>

ReadFailed(s) == \E v \in View : reads[s].answer[v] = Failed

(* One of the calls of readSupport is answered, at the block its endpoint  *)
(* is at, or fails, and with it the read; each takes its time.             *)
AnswerRead(s, v) ==
    /\ reads[s].identity # NoIdentity /\ reads[s].answer[v] = Empty
    /\ ~ReadFailed(s)
    /\ \E answer \in {position[reads[s].identity], Failed} :
           reads' = [reads EXCEPT ![s].answer[v] = answer]
    /\ UNCHANGED <<position, identity, effectDue, latest, support, supportKey, supportState,
                   snapshot, floor>>

(* Faulty: a read is current if it is of what the page shows.              *)
IsCurrentByIdentity(s) ==
    /\ reads[s].effect => reads[s].live
    /\ reads[s].identity = identity

(* isCurrent of loadSupport                                                *)
IsCurrent(s) ==
    /\ reads[s].effect => reads[s].live
    /\ reads[s].identity = identity
    /\ latest = s

SettleRead(s) ==
    /\ ReadFailed(s) \/ \A v \in View : reads[s].answer[v] # Empty
    /\ reads' = [reads EXCEPT ![s] = NoRead]
    /\ \/ /\ IsCurrent(s)
          /\ support' = IF ReadFailed(s) THEN EmptySupport ELSE reads[s].answer
          /\ supportState' = IF ReadFailed(s) THEN "error" ELSE "ready"
       \/ ~IsCurrent(s) /\ UNCHANGED <<support, supportState>>
    /\ UNCHANGED <<position, identity, effectDue, latest, supportKey, snapshot, floor>>

(* A transaction of the supporter, from this page or another, is mined.    *)
Move(i) ==
    /\ position[i] < MaxPosition
    /\ position' = [position EXCEPT ![i] = @ + 1]
    /\ UNCHANGED <<identity, effectDue, reads, latest, support, supportKey, supportState,
                   snapshot, floor>>

SupportInit ==
    /\ position = [i \in Identity |-> 0]
    /\ identity = NoIdentity /\ effectDue = TRUE
    /\ reads = [s \in Slot |-> NoRead] /\ latest = NoSlot
    /\ support = EmptySupport /\ supportKey = NoIdentity /\ supportState = "ready"
    /\ snapshot = NoIdentity /\ floor = 0

SupportNext ==
    \/ \E i \in Identity \cup {NoIdentity} : Render(i)
    \/ \E s \in Slot :
          \/ EffectReads(s) \/ PressReload(s) \/ ReadBackSupport(s) \/ SettleRead(s)
          \/ \E v \in View : AnswerRead(s, v)
    \/ EffectClears \/ Act
    \/ \E i \in Identity : Move(i)

SupportSpec == SupportInit /\ [][SupportNext]_supportVars

-------------------------------------------------------------------------------
(* currentSupport and currentSupportState                                  *)
SupportShown == IF identity # NoIdentity /\ supportKey = identity THEN support ELSE EmptySupport
StateShown ==
    IF identity = NoIdentity THEN "ready"
    ELSE IF supportKey = identity THEN supportState ELSE "loading"

(* What the buttons go by is the position of this wallet in this demand,   *)
(* no part of it older than the last read that was begun, and so with what *)
(* a readback was begun for; a position is shown only when it was read.    *)
SupportIsCurrent ==
    /\ SupportTypeOK
    /\ identity # NoIdentity /\ StateShown = "ready" =>
           \A v \in View : SupportShown[v] \in floor .. position[identity]
    /\ StateShown = "error" => SupportShown = EmptySupport
===============================================================================
