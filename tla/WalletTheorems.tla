----------------------------- MODULE WalletTheorems ----------------------------
(***************************************************************************)
(* Proofs about what a tab does for its wallet: the reads of a supporter's *)
(* position, the session, the transactions and their records, and the page *)
(* that creates a demand; for every number of reads, identities,           *)
(* providers, actions, transactions, reloads, wallets, terms and demands.  *)
(***************************************************************************)
EXTENDS MCWallet, Totals

-------------------------------------------------------------------------------
(* The supporter's position.                                               *)

(* A read that nobody has begun has no answer.                             *)
ReadsSound ==
    \A s \in Slot : reads[s].identity = NoIdentity => reads[s].answer = EmptySupport

(* The latest read is of the key, which waits for it; what it was answered *)
(* is no older than when it began.                                         *)
LatestSound ==
    \A s \in Slot :
        latest = s /\ reads[s].identity # NoIdentity =>
            /\ reads[s].identity = supportKey /\ supportState = "loading"
            /\ \A v \in View : reads[s].answer[v] \in 0 .. MaxPosition =>
                   reads[s].answer[v] \in floor .. position[supportKey]

(* Whatever was ready was answered since the latest read began.            *)
KeySound ==
    /\ supportKey # NoIdentity => floor <= position[supportKey]
    /\ supportKey # NoIdentity /\ supportState = "ready" =>
           \A v \in View : support[v] \in floor .. position[supportKey]
    /\ supportState = "error" => support = EmptySupport

SupportInv == SupportTypeOK /\ ReadsSound /\ LatestSound /\ KeySound

(* What is empty was not read.                                             *)
LEMMA EmptyPosition ==
    /\ EmptySupport \in Position
    /\ \A v \in View : EmptySupport[v] = Empty
    /\ Failed \in Nat /\ Empty \in Nat /\ MaxPosition < Failed /\ Failed < Empty
BY SupportAssumption DEF EmptySupport, Position, Empty, Failed

(* A page that has read nothing.                                           *)
LEMMA SupportInvInit == SupportInit => SupportInv
<1> SUFFICES ASSUME SupportInit PROVE SupportInv
    OBVIOUS
<1> USE SupportAssumption, EmptyPosition DEF SupportInit, NoRead
<1>1. SupportTypeOK
    BY DEF SupportTypeOK
<1>2. ReadsSound /\ LatestSound /\ KeySound
    BY DEF ReadsSound, LatestSound, KeySound
<1> QED BY <1>1, <1>2 DEF SupportInv

(* A read that begins has the key, the loading state and the floor.        *)
LEMMA StartReadSound ==
    ASSUME SupportInv, NEW s \in Slot, NEW i \in Identity, NEW byEffect \in BOOLEAN,
           StartRead(s, i, byEffect),
           position' = position, identity' \in Identity \cup {NoIdentity},
           effectDue' \in BOOLEAN, snapshot' \in Identity \cup {NoIdentity},
           support' \in {support, EmptySupport}
    PROVE  SupportInv'
<1> USE SupportAssumption, EmptyPosition
<1>1. /\ reads \in [Slot -> [identity : Identity \cup {NoIdentity}, live : BOOLEAN,
                             effect : BOOLEAN, answer : Position]]
      /\ position \in [Identity -> 0 .. MaxPosition] /\ support \in Position
    BY DEF SupportInv, SupportTypeOK
<1>2. /\ latest' = s /\ supportKey' = i /\ supportState' = "loading" /\ floor' = position[i]
      /\ position[i] \in 0 .. MaxPosition
    BY <1>1 DEF StartRead
<1>3. reads'[s] = [identity |-> i, live |-> TRUE, effect |-> byEffect, answer |-> EmptySupport]
    BY DEF StartRead
<1>4. reads' \in [Slot -> [identity : Identity \cup {NoIdentity}, live : BOOLEAN,
                           effect : BOOLEAN, answer : Position]]
    <2>1. \A t \in Slot : reads'[t] \in [identity : Identity \cup {NoIdentity}, live : BOOLEAN,
                                         effect : BOOLEAN, answer : Position]
        <3> TAKE t \in Slot
        <3>1. CASE t = s
            BY <3>1, <1>3
        <3>2. CASE t # s /\ byEffect /\ reads[t].effect
            BY <3>2, <1>1 DEF StartRead
        <3>3. CASE t # s /\ ~(byEffect /\ reads[t].effect)
            BY <3>3, <1>1 DEF StartRead
        <3> QED BY <3>1, <3>2, <3>3
    <2>2. reads' = [t \in Slot |-> reads'[t]]
        BY DEF StartRead
    <2> QED BY <2>1, <2>2
<1>5. \A t \in Slot \ {s} : /\ reads'[t].identity = reads[t].identity
                            /\ reads'[t].answer = reads[t].answer
    BY <1>1 DEF StartRead
<1>6. SupportTypeOK'
    BY <1>1, <1>2, <1>4 DEF SupportTypeOK
<1>7. ReadsSound'
    BY <1>3, <1>5 DEF SupportInv, ReadsSound
<1>8. LatestSound'
    BY <1>2, <1>3 DEF LatestSound
<1>9. KeySound'
    BY <1>2 DEF KeySound
<1> QED BY <1>6, <1>7, <1>8, <1>9 DEF SupportInv

(* The wallet, the demand, the answers: what else happens keeps it.        *)
LEMMA SupportInvStep == SupportInv /\ [SupportNext]_supportVars => SupportInv'
<1> SUFFICES ASSUME SupportInv, [SupportNext]_supportVars PROVE SupportInv'
    OBVIOUS
<1> USE SupportAssumption
<1>t. /\ reads \in [Slot -> [identity : Identity \cup {NoIdentity}, live : BOOLEAN,
                             effect : BOOLEAN, answer : Position]]
      /\ position \in [Identity -> 0 .. MaxPosition] /\ support \in Position
      /\ identity \in Identity \cup {NoIdentity} /\ effectDue \in BOOLEAN
      /\ latest \in Slot \cup {NoSlot} /\ supportKey \in Identity \cup {NoIdentity}
      /\ supportState \in {"loading", "ready", "error"}
      /\ snapshot \in Identity \cup {NoIdentity} /\ floor \in 0 .. MaxPosition
    BY DEF SupportInv, SupportTypeOK
<1>1. ASSUME NEW i \in Identity \cup {NoIdentity}, Render(i) PROVE SupportInv'
    BY <1>1, <1>t DEF Render, SupportInv, SupportTypeOK, ReadsSound, LatestSound, KeySound
<1>2. ASSUME NEW s \in Slot, EffectReads(s) PROVE SupportInv'
    <2>1. StartRead(s, identity, TRUE) /\ identity \in Identity
        BY <1>2, <1>t DEF EffectReads
    <2> QED BY <1>2, <1>t, <2>1, StartReadSound DEF EffectReads
<1>3. ASSUME NEW s \in Slot, PressReload(s) PROVE SupportInv'
    <2>1. StartRead(s, identity, FALSE) /\ identity \in Identity
        BY <1>3, <1>t DEF PressReload
    <2> QED BY <1>3, <1>t, <2>1, StartReadSound DEF PressReload
<1>4. ASSUME NEW s \in Slot, ReadBackSupport(s) PROVE SupportInv'
    <2>1. CASE StartRead(s, snapshot, FALSE)
        <3>1. snapshot \in Identity
            BY <1>4, <1>t DEF ReadBackSupport
        <3> QED BY <1>4, <1>t, <2>1, <3>1, StartReadSound DEF ReadBackSupport
    <2>2. CASE UNCHANGED <<reads, latest, supportKey, supportState, floor>>
        BY <1>4, <1>t, <2>2
           DEF ReadBackSupport, SupportInv, SupportTypeOK, ReadsSound, LatestSound, KeySound
    <2> QED BY <1>4, <2>1, <2>2 DEF ReadBackSupport
<1>5. ASSUME NEW s \in Slot, NEW v \in View, AnswerRead(s, v) PROVE SupportInv'
    <2>1. PICK answer \in {position[reads[s].identity], Failed} :
              reads' = [reads EXCEPT ![s].answer[v] = answer]
        BY <1>5 DEF AnswerRead
    <2>2. /\ reads[s].identity \in Identity
          /\ UNCHANGED <<position, identity, effectDue, latest, support, supportKey,
                         supportState, snapshot, floor>>
        BY <1>5, <1>t DEF AnswerRead
    <2>3. /\ answer \in 0 .. Empty
          /\ answer \in 0 .. MaxPosition => answer = position[reads[s].identity]
        BY <2>1, <2>2, <1>t, EmptyPosition
    <2>4. /\ reads'[s].identity = reads[s].identity
          /\ reads'[s].answer = [reads[s].answer EXCEPT ![v] = answer]
          /\ \A t \in Slot \ {s} : reads'[t] = reads[t]
        BY <2>1, <1>t
    <2>5. reads[s].answer \in Position /\ reads'[s].answer \in Position
        BY <2>3, <2>4, <1>t DEF Position
    <2>6. SupportTypeOK'
        <3>1. reads' = [reads EXCEPT ![s] = [reads[s] EXCEPT !.answer = reads'[s].answer]]
            BY <2>1, <2>4, <1>t
        <3>2. [reads[s] EXCEPT !.answer = reads'[s].answer] \in
                  [identity : Identity \cup {NoIdentity}, live : BOOLEAN, effect : BOOLEAN,
                   answer : Position]
            BY <2>5, <1>t
        <3> QED BY <3>1, <3>2, <2>2, <1>t DEF SupportTypeOK
    <2>7. ReadsSound'
        BY <2>2, <2>4 DEF SupportInv, ReadsSound
    <2>8. LatestSound'
        <3> SUFFICES ASSUME NEW t \in Slot, latest = t, reads'[t].identity # NoIdentity
                     PROVE  /\ reads'[t].identity = supportKey /\ supportState = "loading"
                            /\ \A w \in View : reads'[t].answer[w] \in 0 .. MaxPosition =>
                                   reads'[t].answer[w] \in floor .. position[supportKey]
            BY <2>2 DEF LatestSound
        <3>1. CASE t # s
            BY <3>1, <2>4 DEF SupportInv, LatestSound
        <3>2. CASE t = s
            <4>1. /\ reads[s].identity = supportKey /\ supportState = "loading"
                  /\ \A w \in View : reads[s].answer[w] \in 0 .. MaxPosition =>
                         reads[s].answer[w] \in floor .. position[supportKey]
                BY <3>2, <2>2 DEF SupportInv, LatestSound
            <4>2. floor <= position[supportKey]
                BY <4>1, <2>2 DEF SupportInv, KeySound
            <4>3. /\ reads'[s].answer[v] = answer
                  /\ \A w \in View \ {v} : reads'[s].answer[w] = reads[s].answer[w]
                BY <2>4, <2>5 DEF Position
            <4> QED BY <3>2, <4>1, <4>2, <4>3, <2>2, <2>3, <2>4, <1>t
        <3> QED BY <3>1, <3>2
    <2>9. KeySound'
        BY <2>2 DEF SupportInv, KeySound
    <2> QED BY <2>6, <2>7, <2>8, <2>9 DEF SupportInv
<1>6. ASSUME NEW s \in Slot, SettleRead(s) PROVE SupportInv'
    <2>1. /\ reads' = [reads EXCEPT ![s] = NoRead]
          /\ ReadFailed(s) \/ \A v \in View : reads[s].answer[v] # Empty
          /\ UNCHANGED <<position, identity, effectDue, latest, supportKey, snapshot, floor>>
        BY <1>6 DEF SettleRead
    <2>2. /\ reads'[s] = NoRead /\ reads'[s].identity = NoIdentity
          /\ reads'[s].answer = EmptySupport
          /\ \A t \in Slot \ {s} : reads'[t] = reads[t]
        BY <2>1, <1>t DEF NoRead
    <2>3. reads' \in [Slot -> [identity : Identity \cup {NoIdentity}, live : BOOLEAN,
                              effect : BOOLEAN, answer : Position]]
        BY <2>1, <1>t, EmptyPosition DEF NoRead
    <2>4. ReadsSound'
        BY <2>2 DEF SupportInv, ReadsSound
    <2>5. CASE UNCHANGED <<support, supportState>>
        <3>1. SupportTypeOK' /\ KeySound'
            BY <2>1, <2>3, <2>5, <1>t DEF SupportInv, SupportTypeOK, KeySound
        <3>2. LatestSound'
            BY <2>1, <2>2, <2>5 DEF SupportInv, LatestSound
        <3> QED BY <2>4, <3>1, <3>2 DEF SupportInv
    <2>6. CASE /\ IsCurrent(s)
               /\ support' = IF ReadFailed(s) THEN EmptySupport ELSE reads[s].answer
               /\ supportState' = IF ReadFailed(s) THEN "error" ELSE "ready"
        <3>1. reads[s].answer # EmptySupport
            BY <2>1, EmptyPosition DEF ReadFailed, View
        <3>2. latest = s /\ reads[s].identity # NoIdentity
            BY <3>1, <2>6 DEF IsCurrent, SupportInv, ReadsSound
        <3>3. reads[s].answer \in Position
            BY <1>t
        <3>4. ~ReadFailed(s) =>
                  \A v \in View : reads[s].answer[v] \in floor .. position[supportKey]
            <4> SUFFICES ASSUME ~ReadFailed(s), NEW v \in View
                         PROVE  reads[s].answer[v] \in floor .. position[supportKey]
                OBVIOUS
            <4>1. reads[s].answer[v] \in 0 .. Empty /\ reads[s].answer[v] \notin {Failed, Empty}
                BY <2>1, <3>3 DEF Position, ReadFailed
            <4>2. reads[s].answer[v] \in 0 .. MaxPosition
                BY <4>1 DEF Failed, Empty
            <4> QED BY <3>2, <4>2 DEF SupportInv, LatestSound
        <3>5. support' \in Position /\ supportState' \in {"error", "ready"}
            BY <2>6, <3>3, EmptyPosition
        <3>6. SupportTypeOK'
            BY <2>1, <2>3, <3>5, <1>t DEF SupportTypeOK
        <3>7. LatestSound'
            BY <2>1, <2>2, <3>2 DEF LatestSound
        <3>8. KeySound'
            BY <2>1, <2>6, <3>4 DEF SupportInv, KeySound
        <3> QED BY <2>4, <3>6, <3>7, <3>8 DEF SupportInv
    <2> QED BY <1>6, <2>5, <2>6 DEF SettleRead
<1>7. ASSUME EffectClears PROVE SupportInv'
    <2>1. /\ \A s \in Slot : /\ reads'[s].identity = reads[s].identity
                              /\ reads'[s].answer = reads[s].answer
          /\ reads' \in [Slot -> [identity : Identity \cup {NoIdentity}, live : BOOLEAN,
                                  effect : BOOLEAN, answer : Position]]
        BY <1>7, <1>t DEF EffectClears
    <2>2. SupportTypeOK'
        <3>1. /\ latest' = NoSlot /\ effectDue' = FALSE /\ support' = EmptySupport
              /\ supportKey' = NoIdentity /\ supportState' = "ready"
              /\ UNCHANGED <<position, identity, snapshot, floor>>
            BY <1>7 DEF EffectClears
        <3> QED BY <2>1, <3>1, <1>t, EmptyPosition DEF SupportTypeOK
    <2>3. ReadsSound' /\ LatestSound' /\ KeySound'
        BY <1>7, <2>1 DEF EffectClears, SupportInv, ReadsSound, LatestSound, KeySound
    <2> QED BY <2>2, <2>3 DEF SupportInv
<1>8. ASSUME Act PROVE SupportInv'
    BY <1>8, <1>t DEF Act, SupportInv, SupportTypeOK, ReadsSound, LatestSound, KeySound
<1>9. ASSUME NEW i \in Identity, Move(i) PROVE SupportInv'
    <2>1. /\ position' \in [Identity -> 0 .. MaxPosition]
          /\ \A j \in Identity : position[j] <= position'[j]
          /\ UNCHANGED <<identity, effectDue, reads, latest, support, supportKey, supportState,
                         snapshot, floor>>
        BY <1>9, <1>t DEF Move
    <2>2. SupportTypeOK' /\ ReadsSound'
        BY <2>1, <1>t DEF SupportInv, SupportTypeOK, ReadsSound
    <2>3. ASSUME NEW j \in Identity, NEW n \in Nat, n <= position[j] PROVE n <= position'[j]
        BY <2>1, <2>3, <1>t
    <2>4. LatestSound'
        <3> SUFFICES ASSUME NEW t \in Slot, latest = t, reads[t].identity # NoIdentity
                     PROVE  /\ reads[t].identity = supportKey /\ supportState = "loading"
                            /\ \A v \in View : reads[t].answer[v] \in 0 .. MaxPosition =>
                                   reads[t].answer[v] \in floor .. position'[supportKey]
            BY <2>1 DEF LatestSound
        <3>1. reads[t].identity \in Identity
            BY <1>t
        <3> QED BY <3>1, <2>1, <1>t DEF SupportInv, LatestSound
    <2>5. KeySound'
        BY <2>1, <1>t DEF SupportInv, KeySound
    <2> QED BY <2>2, <2>4, <2>5 DEF SupportInv
<1>10. CASE UNCHANGED supportVars
    BY <1>10, <1>t DEF supportVars, SupportInv, SupportTypeOK, ReadsSound, LatestSound, KeySound
<1> QED BY <1>1, <1>2, <1>3, <1>4, <1>5, <1>6, <1>7, <1>8, <1>9, <1>10 DEF SupportNext

(* What the page shows follows from it.                                    *)
LEMMA SupportInvImplies == SupportInv => SupportIsCurrent
BY DEF SupportInv, SupportIsCurrent, SupportTypeOK, KeySound, SupportShown, StateShown

(* What the buttons go by is the position of this wallet in this demand,   *)
(* no older than the last read that was begun, whatever reads of           *)
(* loadSupport overlap with changes of the wallet, of the demand and of    *)
(* the position.                                                           *)
THEOREM SupportStaysCurrent == SupportSpec => []SupportIsCurrent
<1>1. SupportInit => SupportInv
    BY SupportInvInit
<1>2. SupportInv /\ [SupportNext]_supportVars => SupportInv'
    BY SupportInvStep
<1>3. SupportInv => SupportIsCurrent
    BY SupportInvImplies
<1> QED BY <1>1, <1>2, <1>3, PTL DEF SupportSpec
-------------------------------------------------------------------------------
(* The session of a wallet.                                                *)

(* What an action has captured: the page has been told of nothing since    *)
(* exactly while it is of the same generation, and is then of the provider *)
(* and the account the action began with.                                  *)
Captured ==
    flow.step # "none" =>
        /\ flow.generation <= generation
        /\ flow.generation = generation =>
               ~told /\ page.provider = flow.provider /\ page.account = flow.account

FlowIsRecord ==
    flow = [step |-> flow.step, provider |-> flow.provider, account |-> flow.account,
            generation |-> flow.generation, answer |-> flow.answer, checks |-> flow.checks,
            todo |-> flow.todo, begun |-> flow.begun]

SessionInv ==
    FlowIsRecord /\ generation \in Nat /\ flow.generation \in Nat /\ Captured

(* What a step of an action does to what it has captured.                  *)
FlowMoves ==
    /\ UNCHANGED sessionVars
    /\ \/ flow' = NoFlow
       \/ /\ flow.step # "none" /\ FlowIsRecord'
          /\ flow'.provider = flow.provider /\ flow'.account = flow.account
          /\ flow'.generation = flow.generation
          /\ flow'.step = "prompt" => SameSession

(* The fields of a flow that has not begun.                                *)
LEMMA NoFlowFields ==
    /\ NoFlow.step = "none" /\ NoFlow.generation = 0
    /\ NoFlow = [step |-> NoFlow.step, provider |-> NoFlow.provider, account |-> NoFlow.account,
                 generation |-> NoFlow.generation, answer |-> NoFlow.answer,
                 checks |-> NoFlow.checks, todo |-> NoFlow.todo, begun |-> NoFlow.begun]
BY DEF NoFlow

(* A wallet session that has not begun.                                    *)
LEMMA SessionInvInit == SessionInit => SessionInv
<1> SUFFICES ASSUME SessionInit PROVE SessionInv
    OBVIOUS
<1>1. flow = NoFlow /\ generation = 0
    BY DEF SessionInit
<1>2. FlowIsRecord /\ flow.generation = 0 /\ flow.step = "none"
    BY <1>1, NoFlowFields DEF FlowIsRecord
<1> QED BY <1>1, <1>2 DEF SessionInv, Captured

(* A step that keeps what was captured keeps the invariant.                *)
LEMMA FlowMovesSound == SessionInv /\ FlowMoves => SessionInv'
<1> SUFFICES ASSUME SessionInv, FlowMoves PROVE SessionInv'
    OBVIOUS
<1>1. UNCHANGED <<page, generation, told>>
    BY DEF FlowMoves, sessionVars
<1>2. CASE flow' = NoFlow
    <2>1. FlowIsRecord' /\ flow'.generation = 0 /\ flow'.step = "none"
        BY <1>2, NoFlowFields DEF FlowIsRecord
    <2> QED BY <1>1, <2>1 DEF SessionInv, Captured
<1>3. CASE flow' # NoFlow
    BY <1>1, <1>3 DEF FlowMoves, SessionInv, Captured
<1> QED BY <1>2, <1>3

(* Each step of an action is such a step, and only the last answer about   *)
(* the chain leads to the prompt.                                          *)
LEMMA ActionsMove ==
    ASSUME SessionInv,
           \/ Answer \/ Stops \/ HearWallet \/ HearWalletOfChain \/ HearChainId \/ Switch
           \/ HearWalletAgain \/ Add \/ HearAccount \/ HearChain \/ Signed \/ Mined
    PROVE  FlowMoves
<1>1. ASSUME NEW s, Step(s), flow.step # "none", UNCHANGED sessionVars, s = "prompt" => SameSession
      PROVE  FlowMoves
    <2>1. flow' = [flow EXCEPT !.step = s, !.answer = NoAnswer]
        BY <1>1 DEF Step
    <2>2. /\ FlowIsRecord' /\ flow'.step = s /\ flow'.provider = flow.provider
          /\ flow'.account = flow.account /\ flow'.generation = flow.generation
        BY <2>1 DEF SessionInv, FlowIsRecord
    <2> QED BY <1>1, <2>2 DEF FlowMoves
<1>2. ASSUME NEW n, Check(n), flow.step # "none", UNCHANGED sessionVars
      PROVE  FlowMoves
    <2>1. flow' = [flow EXCEPT !.step = "account", !.answer = NoAnswer, !.checks = n]
        BY <1>2 DEF Check
    <2>2. /\ FlowIsRecord' /\ flow'.step = "account" /\ flow'.provider = flow.provider
          /\ flow'.account = flow.account /\ flow'.generation = flow.generation
        BY <2>1 DEF SessionInv, FlowIsRecord
    <2> QED BY <1>2, <2>2 DEF FlowMoves
<1>3. ASSUME NEW todo, NEW signed, NextRequest(todo, signed), flow.step # "none",
             UNCHANGED sessionVars
      PROVE  FlowMoves
    <2>1. CASE todo = <<>>
        BY <1>3, <2>1 DEF NextRequest, FlowMoves
    <2>2. CASE todo # <<>>
        <3>1. PICK n : flow' = [flow EXCEPT !.step = "account", !.answer = NoAnswer, !.todo = todo,
                                            !.begun = TRUE, !.checks = n]
            BY <1>3, <2>2 DEF NextRequest
        <3>2. /\ FlowIsRecord' /\ flow'.step = "account" /\ flow'.provider = flow.provider
              /\ flow'.account = flow.account /\ flow'.generation = flow.generation
            BY <3>1 DEF SessionInv, FlowIsRecord
        <3> QED BY <1>3, <3>2 DEF FlowMoves
    <2> QED BY <2>1, <2>2
<1>4. ASSUME End, UNCHANGED sessionVars PROVE FlowMoves
    BY <1>4 DEF End, FlowMoves
<1>5. CASE Answer
    <2>1. /\ flow' = [flow EXCEPT !.answer = Says] /\ flow.step \in Asked
          /\ UNCHANGED sessionVars
        BY <1>5 DEF Answer
    <2>2. /\ FlowIsRecord' /\ flow'.step = flow.step /\ flow'.provider = flow.provider
          /\ flow'.account = flow.account /\ flow'.generation = flow.generation
        BY <2>1 DEF SessionInv, FlowIsRecord
    <2>3. flow.step # "none" /\ flow.step # "prompt"
        BY <2>1 DEF Asked
    <2> QED BY <2>1, <2>2, <2>3 DEF FlowMoves
<1>6. CASE Stops
    BY <1>4, <1>6 DEF Stops
<1>7. CASE HearWallet
    BY <1>1, <1>7 DEF HearWallet, Heard
<1>8. CASE HearWalletOfChain
    BY <1>1, <1>8 DEF HearWalletOfChain, Heard
<1>9. CASE HearChainId
    BY <1>1, <1>2, <1>9 DEF HearChainId, Heard
<1>10. CASE Switch
    BY <1>1, <1>2, <1>4, <1>10 DEF Switch
<1>11. CASE HearWalletAgain
    BY <1>1, <1>11 DEF HearWalletAgain, Heard
<1>12. CASE Add
    BY <1>2, <1>4, <1>12 DEF Add
<1>13. CASE HearAccount
    BY <1>1, <1>13 DEF HearAccount, Heard
<1>14. CASE HearChain
    BY <1>1, <1>2, <1>3, <1>14 DEF HearChain, Heard
<1>15. CASE Signed
    BY <1>1, <1>3, <1>4, <1>15 DEF Signed
<1>16. CASE Mined
    BY <1>3, <1>4, <1>16 DEF Mined
<1> QED BY <1>5, <1>6, <1>7, <1>8, <1>9, <1>10, <1>11, <1>12, <1>13, <1>14, <1>15, <1>16

(* The page looks for itself: of another session, it counts.               *)
LEMMA SyncSound == SessionInv /\ Sync /\ UNCHANGED flow => SessionInv'
<1> SUFFICES ASSUME SessionInv, Sync, UNCHANGED flow PROVE SessionInv'
    OBVIOUS
<1>1. FlowIsRecord'
    BY DEF SessionInv, FlowIsRecord
<1>2. CASE page = Known
    <2>1. page' = page /\ generation' = generation /\ (told' <=> told)
        BY <1>2 DEF Sync, Another
    <2> QED BY <1>1, <2>1 DEF SessionInv, Captured
<1>3. CASE page # Known
    <2>1. generation' = generation + 1
        BY <1>3 DEF Sync, Another
    <2> QED BY <1>1, <2>1 DEF SessionInv, Captured
<1> QED BY <1>2, <1>3

(* An action begins with the session the page is of.                       *)
LEMMA BeginSound == ASSUME SessionInv, NEW plan, Begin(plan) PROVE SessionInv'
<1>1. /\ flow' = [NoFlow EXCEPT !.step = "wallet", !.provider = page.provider,
                                !.account = page.account, !.generation = generation,
                                !.todo = plan]
      /\ told' = FALSE /\ UNCHANGED <<page, generation>>
    BY DEF Begin
<1>2. /\ FlowIsRecord' /\ flow'.provider = page.provider /\ flow'.account = page.account
      /\ flow'.generation = generation
    BY <1>1, NoFlowFields DEF FlowIsRecord
<1> QED BY <1>1, <1>2 DEF SessionInv, Captured

(* The other steps change neither the page nor the action.                 *)
LEMMA SessionInvStep == SessionInv /\ [SessionNext]_allSessionVars => SessionInv'
<1> SUFFICES ASSUME SessionInv, [SessionNext]_allSessionVars PROVE SessionInv'
    OBVIOUS
<1>1. CASE UNCHANGED <<page, generation, told, flow>>
    BY <1>1 DEF SessionInv, FlowIsRecord, Captured
<1>2. CASE Told
    BY <1>2, SyncSound DEF Told
<1>3. CASE Disconnect
    BY <1>1, <1>3 DEF Disconnect
<1>4. CASE Disconnected
    BY <1>4, SyncSound DEF Disconnected
<1>5. ASSUME NEW plan \in Plan, Begin(plan) PROVE SessionInv'
    BY <1>5, BeginSound
<1>6. CASE \/ Answer \/ Stops \/ HearWallet \/ HearWalletOfChain \/ HearChainId \/ Switch
           \/ HearWalletAgain \/ Add \/ HearAccount \/ HearChain \/ Signed \/ Mined
    BY <1>6, ActionsMove, FlowMovesSound
<1>7. ASSUME NEW p \in Provider, NEW w, ChangeWallet(p, w) PROVE SessionInv'
    BY <1>1, <1>7 DEF ChangeWallet, sessionVars
<1>8. ASSUME NEW k, ChangeKit(k) PROVE SessionInv'
    BY <1>1, <1>8 DEF ChangeKit, sessionVars
<1>9. CASE UNCHANGED allSessionVars
    BY <1>1, <1>9 DEF allSessionVars, sessionVars
<1> QED BY <1>2, <1>3, <1>4, <1>5, <1>6, <1>7, <1>8, <1>9 DEF SessionNext

(* What leads to the prompt is the last answer about the chain, with the   *)
(* page of the session that was captured.                                  *)
LEMMA PromptStep ==
    ASSUME SessionInv, [SessionNext]_allSessionVars, flow'.step = "prompt", flow.step # "prompt"
    PROVE  ~told /\ flow.provider = page.provider /\ flow.account = page.account
<1>1. CASE UNCHANGED flow
    BY <1>1
<1>2. ASSUME NEW plan, Begin(plan) PROVE FALSE
    <2>1. flow' = [NoFlow EXCEPT !.step = "wallet", !.provider = page.provider,
                                 !.account = page.account, !.generation = generation,
                                 !.todo = plan]
        BY <1>2 DEF Begin
    <2>2. flow'.step = "wallet"
        BY <2>1, NoFlowFields
    <2> QED BY <2>2
<1>3. CASE \/ Answer \/ Stops \/ HearWallet \/ HearWalletOfChain \/ HearChainId \/ Switch
           \/ HearWalletAgain \/ Add \/ HearAccount \/ HearChain \/ Signed \/ Mined
    <2>1. FlowMoves
        BY <1>3, ActionsMove
    <2>2. flow' # NoFlow
        BY NoFlowFields
    <2>3. flow.step # "none" /\ SameSession
        BY <2>1, <2>2 DEF FlowMoves
    <2> QED BY <2>3 DEF SessionInv, Captured, SameSession
<1> QED
    BY <1>1, <1>2, <1>3
    DEF SessionNext, Told, Disconnect, Disconnected, ChangeWallet, ChangeKit, allSessionVars

(* Nothing is given to a wallet to sign once the page has been told of     *)
(* another one since the action began, whatever the wallet, the user and   *)
(* the page do between the questions of assertWalletSession.               *)
THEOREM SentInTheSessionItBegan == SessionSpec => SentInOneSession
<1>1. SessionInit => SessionInv
    BY SessionInvInit
<1>2. SessionInv /\ [SessionNext]_allSessionVars => SessionInv'
    BY SessionInvStep
<1>3. SessionInv /\ [SessionNext]_allSessionVars =>
          [flow'.step = "prompt" /\ flow.step # "prompt" =>
               ~told /\ flow.provider = page.provider /\ flow.account = page.account]_allSessionVars
    BY PromptStep
<1> QED BY <1>1, <1>2, <1>3, PTL DEF SessionSpec, SentInOneSession
-------------------------------------------------------------------------------
(* The transactions of a tab.                                             *)

(* The hash names a transaction of the action which the wallet has sent;   *)
(* one of a replacement has an effect of its own.                          *)
Names(a, hash) ==
    /\ hash.tx \in Tx /\ tx[hash.tx].action = a /\ tx[hash.tx].fate # "unsent"
    /\ ~hash.own => tx[hash.tx].fate \in {"replaced", "repriced", "repriced and reverted"}

RecordsNamed ==
    \A a \in Action :
        /\ memory[a] # NoRecord => Names(a, memory[a].hash)
        /\ storage[a] # NoRecord => Names(a, storage[a].hash)

(* What a run may say later rests on what it has found out already; it     *)
(* prompts with nothing remembered, and what it waits for is remembered.   *)
RunNamed(a, r, record) ==
    /\ r.step \notin {"idle", "prompt"} => Names(a, r.hash)
    /\ r.step = "sent" => r.hash.own
    /\ r.step = "read" => r.check
    /\ r.step = "wait" /\ ~r.check => r.hash.own
    /\ r.step = "wait" /\ r.seen => Matches(r.hash)
    /\ r.step \in {"readback", "refresh"} => tx[r.hash.tx].fate \in {"success", "repriced"}
    /\ r.step \in {"prompt", "sent"} => record = NoRecord
    /\ r.step \in {"read", "wait", "readback"} => record.hash.tx = r.hash.tx

RunsNamed == \A a \in Action : RunNamed(a, run[a], memory[a])

(* A transaction the tab knows of and that may still be mined is the one   *)
(* remembered for its action.                                              *)
KnownRemembered ==
    \A u \in known :
        /\ tx[u].fate # "unsent"
        /\ \A a \in Action : tx[u].action = a /\ tx[u].fate = "pending" => memory[a].hash.tx = u

Said(state, fate) ==
    /\ state = "confirmed" => fate \in {"success", "repriced"}
    /\ state = "reverted" => fate \in {"reverted", "repriced and reverted"}
    /\ state = "cancelled" => fate = "cancelled"

OutcomeTrue ==
    outcome # Untold =>
        /\ outcome.tx \in Tx /\ outcome.state # "none"
        /\ Said(outcome.state, tx[outcome.tx].fate)

LifecycleInv == TypeOK /\ RecordsNamed /\ RunsNamed /\ KnownRemembered /\ OutcomeTrue

(* With nothing sent there is nothing to be wrong about.                   *)
LEMMA LifecycleInvInit == Init => LifecycleInv
<1> SUFFICES ASSUME Init PROVE LifecycleInv
    OBVIOUS
<1> USE LifecycleAssumption DEF Init
<1>0. /\ NoRecord \in Record /\ Idle \in Run /\ NoHash \in Hash
      /\ Untold \in [tx : 0 .. MaxTx, state : {"none", "confirmed", "reverted", "cancelled"}]
      /\ Idle.step = "idle"
    BY DEF NoRecord, Record, Idle, Run, NoHash, Hash, Stage, Untold
<1>1. TypeOK
    BY <1>0 DEF TypeOK, Tx, Fate, Stage
<1>2. RecordsNamed
    BY DEF RecordsNamed
<1>3. RunsNamed
    BY <1>0 DEF RunsNamed, RunNamed
<1>4. KnownRemembered
    BY DEF KnownRemembered
<1>5. OutcomeTrue
    BY DEF OutcomeTrue
<1> QED BY <1>1, <1>2, <1>3, <1>4, <1>5 DEF LifecycleInv

(* An action that only changes what is known of action a.                  *)
LEMMA OneRun ==
    ASSUME LifecycleInv, NEW a \in Action, NEW r \in Run, UNCHANGED <<tx, access, reloads>>,
           Goto(a, r),
           memory' \in [Action -> Record], storage' \in [Action -> Record],
           \A b \in Action \ {a} : memory'[b] = memory[b] /\ storage'[b] = storage[b],
           \A record \in {memory'[a], storage'[a]} \ {NoRecord} : Names(a, record.hash),
           RunNamed(a, r, memory'[a]),
           known' \subseteq Tx,
           \A u \in known' : u \in known \/ (tx[u].action = a /\ tx[u].fate # "unsent"),
           \A u \in known' : tx[u].action = a /\ tx[u].fate = "pending" => memory'[a].hash.tx = u,
           TypeOK => outcome' \in [tx : 0 .. MaxTx, state : {"none", "confirmed", "reverted", "cancelled"}],
           OutcomeTrue => OutcomeTrue'
    PROVE  LifecycleInv'
<1>1. run' = [run EXCEPT ![a] = r] /\ run \in [Action -> Run] /\ tx' = tx
    BY DEF Goto, LifecycleInv, TypeOK
<1>2. TypeOK'
    BY <1>1 DEF LifecycleInv, TypeOK
<1>3. RecordsNamed'
    <2>1. ASSUME NEW b \in Action, NEW record \in {memory'[b], storage'[b]} \ {NoRecord}
          PROVE  Names(b, record.hash)
        <3>1. CASE b = a
            BY <3>1
        <3>2. CASE b # a
            BY <3>2 DEF LifecycleInv, RecordsNamed
        <3> QED BY <3>1, <3>2
    <2>2. ASSUME NEW b \in Action
          PROVE  /\ memory'[b] # NoRecord => Names(b, memory[b].hash)'
                 /\ storage'[b] # NoRecord => Names(b, storage[b].hash)'
        <3>1. memory'[b] # NoRecord => Names(b, memory'[b].hash)
            BY <2>1
        <3>2. storage'[b] # NoRecord => Names(b, storage'[b].hash)
            BY <2>1
        <3> QED BY <3>1, <3>2, <1>1 DEF Names
    <2> QED BY <2>2 DEF RecordsNamed
<1>4. RunsNamed'
    <2>1. ASSUME NEW b \in Action PROVE RunNamed(b, run'[b], memory'[b])
        <3>1. CASE b = a
            BY <1>1, <3>1
        <3>2. CASE b # a
            <4>1. run'[b] = run[b] /\ memory'[b] = memory[b]
                BY <1>1, <3>2
            <4>2. RunNamed(b, run[b], memory[b])
                BY DEF LifecycleInv, RunsNamed
            <4> QED BY <4>1, <4>2
        <3> QED BY <3>1, <3>2
    <2>2. ASSUME NEW b \in Action PROVE RunNamed(b, run[b], memory[b])'
        <3>1. RunNamed(b, run'[b], memory'[b])
            BY <2>1
        <3> QED BY <3>1, <1>1 DEF RunNamed, Names, Matches
    <2> QED BY <2>2 DEF RunsNamed
<1>5. KnownRemembered'
    BY <1>1 DEF LifecycleInv, KnownRemembered
<1>6. OutcomeTrue'
    BY DEF LifecycleInv
<1> QED BY <1>2, <1>3, <1>4, <1>5, <1>6 DEF LifecycleInv

(* What an update does to the records of its action.                       *)
LEMMA UpdateKeeps ==
    ASSUME LifecycleInv, NEW a \in Action, NEW record \in Record, Update(a, record),
           record # NoRecord => Names(a, record.hash)
    PROVE  /\ memory' \in [Action -> Record] /\ storage' \in [Action -> Record]
           /\ \A b \in Action \ {a} : memory'[b] = memory[b] /\ storage'[b] = storage[b]
           /\ memory'[a] = record /\ storage'[a] \in {record, storage[a]}
           /\ \A kept \in {memory'[a], storage'[a]} \ {NoRecord} : Names(a, kept.hash)
<1>1. memory \in [Action -> Record] /\ storage \in [Action -> Record]
    BY DEF LifecycleInv, TypeOK
<1>2. memory' = [memory EXCEPT ![a] = record]
    BY DEF Update
<1>3. storage' = [storage EXCEPT ![a] = record] \/ storage' = storage
    BY DEF Update
<1>4. storage'[a] \in {record, storage[a]}
    BY <1>1, <1>3
<1>5. storage[a] # NoRecord => Names(a, storage[a].hash)
    BY DEF LifecycleInv, RecordsNamed
<1>6. storage' \in [Action -> Record] /\ \A b \in Action \ {a} : storage'[b] = storage[b]
    BY <1>1, <1>3
<1>7. storage'[a] # NoRecord => Names(a, storage'[a].hash)
    <2>1. CASE storage'[a] = record
        BY <2>1
    <2>2. CASE storage'[a] = storage[a]
        BY <2>2, <1>5
    <2> QED BY <2>1, <2>2, <1>4
<1> QED BY <1>1, <1>2, <1>4, <1>6, <1>7

(* A report of a transaction of the action, with its run's next state.     *)
LEMMA ReportKeeps ==
    ASSUME LifecycleInv, NEW a \in Action, NEW r \in Run, UNCHANGED <<tx, access, reloads>>,
           NEW state \in {"broadcast", "unknown", "confirmed", "reverted", "cancelled"},
           NEW hash \in Hash, NEW stage \in Stage,
           Report(a, state, hash, stage), Goto(a, r),
           hash.tx \in Tx, tx[hash.tx].action = a, tx[hash.tx].fate # "unsent",
           Unresolved(state) => Names(a, hash),
           Said(state, tx[hash.tx].fate),
           known' = known \/ (known' = known \cup {hash.tx} /\ Unresolved(state)),
           \A u \in known : (tx[u].action = a /\ tx[u].fate = "pending") => hash.tx = u,
           \A record \in Record :
               (/\ record.hash = (IF Unresolved(state) THEN hash ELSE NoHash)
                /\ ~Unresolved(state) => record = NoRecord) => RunNamed(a, r, record)
    PROVE  LifecycleInv'
<1> DEFINE record == IF Unresolved(state) THEN [hash |-> hash, stage |-> stage] ELSE NoRecord
<1>a. hash.tx \in Tx /\ hash.tx \in 0 .. MaxTx
    BY DEF Hash
<1>1. record \in Record /\ Update(a, record)
    BY LifecycleAssumption DEF Report, Record, NoRecord, NoHash, Hash, Stage
<1>2. /\ record.hash = (IF Unresolved(state) THEN hash ELSE NoHash)
      /\ ~Unresolved(state) => record = NoRecord
    BY DEF NoRecord
<1>3. record # NoRecord => Names(a, record.hash)
    BY <1>2
<1>4. RunNamed(a, r, record)
    BY <1>1, <1>2
<1>5. /\ known' \subseteq Tx
      /\ \A u \in known' : u \in known \/ (tx[u].action = a /\ tx[u].fate # "unsent")
    BY <1>a DEF LifecycleInv, TypeOK
<1>6. ~Unresolved(state) => state \in {"confirmed", "reverted", "cancelled"}
    BY DEF Unresolved
<1>7. ~Unresolved(state) => tx[hash.tx].fate # "pending"
    BY <1>6 DEF Said
<1>8. \A u \in known' : tx[u].action = a /\ tx[u].fate = "pending" => record.hash.tx = u
    BY <1>2, <1>7, <1>a
<1>9. outcome' = IF Unresolved(state) THEN Untold ELSE [tx |-> hash.tx, state |-> state]
    BY DEF Report
<1>10. outcome' \in [tx : 0 .. MaxTx, state : {"none", "confirmed", "reverted", "cancelled"}]
    BY <1>9, <1>6, <1>a, LifecycleAssumption DEF Untold
<1>11. OutcomeTrue'
    BY <1>9, <1>6, <1>a DEF OutcomeTrue, Said
<1> HIDE DEF record
<1>12. /\ memory' \in [Action -> Record] /\ storage' \in [Action -> Record]
       /\ \A b \in Action \ {a} : memory'[b] = memory[b] /\ storage'[b] = storage[b]
       /\ memory'[a] = record
       /\ \A kept \in {memory'[a], storage'[a]} \ {NoRecord} : Names(a, kept.hash)
    BY <1>1, <1>3, UpdateKeeps
<1> QED BY <1>4, <1>5, <1>8, <1>10, <1>11, <1>12, OneRun

(* The receipt and the state a run makes of it.                            *)
LEMMA JudgedTrue ==
    ASSUME LifecycleInv, NEW a \in Action, run[a].step = "wait"
    PROVE  LET r == run[a]
               hash == Answering(r)
           IN  /\ Judged(r) \in {"unknown", "confirmed", "reverted", "cancelled"}
               /\ tx[r.hash.tx].fate # "pending" => Said(Judged(r), tx[hash.tx].fate)
               /\ Judged(r) = "cancelled" => tx[hash.tx].fate = "cancelled"
               /\ tx[r.hash.tx].fate # "pending" /\ Judged(r) # "cancelled" => Names(a, hash)
               /\ hash \in Hash /\ hash.tx = r.hash.tx
<1> DEFINE r == run[a]
           fate == tx[r.hash.tx].fate
           hash == Answering(r)
<1>1. /\ r.hash \in Hash /\ r.check \in BOOLEAN /\ r.seen \in BOOLEAN
      /\ r.hash.own \in BOOLEAN
    BY DEF LifecycleInv, TypeOK, Run, Hash
<1>2. RunNamed(a, r, memory[a]) /\ r.step = "wait"
    BY DEF LifecycleInv, RunsNamed
<1>3. /\ Names(a, r.hash)
      /\ ~r.check => r.hash.own
      /\ r.seen => Matches(r.hash)
    BY <1>2 DEF RunNamed
<1>4. r.hash.tx \in Tx /\ fate \in Fate \ {"unsent"}
    BY <1>3 DEF Names, LifecycleInv, TypeOK
<1>5. hash \in Hash /\ hash.tx = r.hash.tx /\ hash.own = (r.hash.own /\ ~Replacement(r))
    BY <1>1 DEF Answering, Hash, Replacement
<1> HIDE DEF r
<1>6. CASE Replacement(r)
    <2>1. /\ r.hash.own /\ ~hash.own
          /\ fate \in {"cancelled", "replaced", "repriced", "repriced and reverted"}
        BY <1>5, <1>6 DEF Replacement
    <2>2. Matches(hash) <=> fate \in {"repriced", "repriced and reverted"}
        BY <2>1, <1>5 DEF Matches
    <2>3. Judged(r) = IF fate = "cancelled" THEN "cancelled"
                      ELSE IF fate = "repriced" THEN "confirmed"
                      ELSE IF fate = "repriced and reverted" THEN "reverted" ELSE "unknown"
        BY <2>1, <2>2, <1>6 DEF Judged, Final
    <2>4. fate # "cancelled" => Names(a, hash)
        BY <2>1, <1>3, <1>5 DEF Names
    <2> HIDE DEF hash
    <2> QED BY <2>1, <2>3, <2>4, <1>5 DEF Said, r, hash
<1>7. CASE ~Replacement(r)
    <2>1. hash = r.hash
        BY <1>7 DEF Answering
    <2>2. r.hash.own => fate \in {"pending", "success", "reverted"}
        BY <1>4, <1>7 DEF Replacement, Fate
    <2>3. ~r.hash.own => r.check /\ fate \in {"replaced", "repriced", "repriced and reverted"}
        BY <1>1, <1>3 DEF Names
    <2>4. ~r.hash.own /\ r.seen => fate \in {"repriced", "repriced and reverted"}
        BY <1>3 DEF Matches
    <2>5. Judged(r) = IF r.check /\ ~r.seen THEN "unknown" ELSE Final(r.hash)
        BY <1>7 DEF Judged
    <2>6. Final(r.hash) = IF fate \in {"success", "repriced", "replaced"} THEN "confirmed" ELSE "reverted"
        BY DEF Final
    <2>7. /\ Judged(r) \in {"unknown", "confirmed", "reverted"}
          /\ fate # "pending" => Said(Judged(r), fate)
        BY <2>2, <2>3, <2>4, <2>5, <2>6, <1>1 DEF Said
    <2> QED BY <2>1, <2>7, <1>1, <1>3 DEF r, hash
<1> QED BY <1>6, <1>7

(* A transaction whose fate is open goes on to be remembered.              *)
LEMMA UnresolvedKeeps ==
    ASSUME LifecycleInv, NEW a \in Action, NEW r \in Run, UNCHANGED <<tx, access, reloads>>,
           NEW state \in {"broadcast", "unknown"}, NEW hash \in Hash, NEW stage \in Stage,
           Report(a, state, hash, stage), Goto(a, r), Names(a, hash),
           known' \in {known, known \cup {hash.tx}},
           \A u \in known : (tx[u].action = a /\ tx[u].fate = "pending") => hash.tx = u,
           \A record \in Record : record.hash = hash => RunNamed(a, r, record)
    PROVE  LifecycleInv'
<1>1. Said(state, tx[hash.tx].fate) /\ Unresolved(state)
    BY DEF Said, Unresolved
<1>2. hash.tx \in Tx /\ tx[hash.tx].action = a /\ tx[hash.tx].fate # "unsent"
    BY DEF Names
<1>3. state \in {"broadcast", "unknown", "confirmed", "reverted", "cancelled"}
    OBVIOUS
<1> QED BY <1>1, <1>2, <1>3, ReportKeeps

(* What a run does, from its start to the refresh, keeps the invariant.    *)
LEMMA LifecycleInvRun ==
    ASSUME LifecycleInv, NEW a \in Action,
           \/ \E stage \in Stage : Start(a, stage)
           \/ Refuse(a) \/ HashArrives(a) \/ HashLost(a) \/ Verify(a) \/ Read(a)
           \/ NoReceipt(a) \/ Receipt(a) \/ VerifySubmission(a) \/ Refreshed(a)
    PROVE  LifecycleInv'
<1> DEFINE r == run[a]
<1>t. /\ memory \in [Action -> Record] /\ storage \in [Action -> Record]
      /\ known \subseteq Tx /\ run \in [Action -> Run]
      /\ Untold \in [tx : 0 .. MaxTx, state : {"none", "confirmed", "reverted", "cancelled"}]
      /\ Idle \in Run /\ Idle.step = "idle"
      /\ NoRecord.hash = NoHash
    BY LifecycleAssumption
       DEF LifecycleInv, TypeOK, Untold, Idle, Run, Hash, NoHash, Stage, NoRecord
<1>r. /\ r \in Run /\ r.hash \in Hash /\ r.stage \in Stage
      /\ RunNamed(a, r, memory[a])
    BY <1>t DEF Run, LifecycleInv, RunsNamed
<1>k. \A u \in known : tx[u].action = a /\ tx[u].fate = "pending" => memory[a].hash.tx = u
    BY DEF LifecycleInv, KnownRemembered
<1>i. \A record \in Record : RunNamed(a, Idle, record)
    BY <1>t DEF RunNamed
<1> HIDE DEF r
(* What forgets the outcome, or keeps it, and leaves the records alone.    *)
<1>q. ASSUME NEW q \in Run, UNCHANGED <<tx, known, storage, access, memory, reloads>>,
             Goto(a, q), outcome' = Untold, RunNamed(a, q, memory[a])
      PROVE  LifecycleInv'
    <2>1. /\ memory' = memory /\ storage' = storage /\ known' = known
          /\ \A record \in {memory'[a], storage'[a]} \ {NoRecord} : Names(a, record.hash)
        BY <1>q DEF LifecycleInv, RecordsNamed
    <2>2. OutcomeTrue'
        BY <1>q DEF OutcomeTrue
    <2> QED BY <1>q, <1>t, <1>k, <2>1, <2>2, OneRun
<1>1. ASSUME NEW stage \in Stage, Start(a, stage) PROVE LifecycleInv'
    <2> DEFINE q == [Idle EXCEPT !.step = "prompt", !.stage = stage]
    <2>1. q \in Run /\ q.step = "prompt"
        BY <1>t DEF Run
    <2>2. memory[a] = NoRecord
        BY <1>1 DEF Start, Blocked
    <2>3. RunNamed(a, q, memory[a])
        BY <2>1, <2>2 DEF RunNamed
    <2> HIDE DEF q
    <2> QED BY <1>1, <1>q, <2>1, <2>3 DEF Start, q
<1>2. CASE Refuse(a) \/ HashLost(a)
    <2>1. RunNamed(a, Idle, memory[a])
        BY <1>t, <1>i
    <2> QED BY <1>2, <1>t, <1>q, <2>1 DEF Refuse, HashLost
<1>3. CASE HashArrives(a)
    <2> DEFINE q == [r EXCEPT !.step = "wait"]
    <2>1. /\ r.step = "sent" /\ Report(a, "broadcast", r.hash, r.stage)
          /\ known' = known \cup {r.hash.tx} /\ Goto(a, q) /\ UNCHANGED <<tx, access, reloads>>
        BY <1>3 DEF HashArrives, r
    <2>2. q \in Run /\ q.step = "wait" /\ q.hash = r.hash
        BY <1>r DEF Run
    <2>3. r.hash.own /\ memory[a] = NoRecord /\ Names(a, r.hash)
        BY <1>r, <2>1 DEF RunNamed
    <2>4. \A record \in Record : record.hash = r.hash => RunNamed(a, q, record)
        BY <2>2, <2>3 DEF RunNamed, Matches
    <2>5. \A u \in known : tx[u].action = a /\ tx[u].fate = "pending" => r.hash.tx = u
        BY <1>k, <1>t, <2>3 DEF NoHash, Tx
    <2> HIDE DEF q
    <2> QED BY <1>r, <2>1, <2>2, <2>3, <2>4, <2>5, UnresolvedKeeps
<1>4. CASE Verify(a)
    <2> DEFINE q == [Idle EXCEPT !.step = "read", !.stage = memory[a].stage,
                                 !.hash = memory[a].hash, !.check = TRUE]
               hash == memory[a].hash
               stage == memory[a].stage
    <2>1. /\ memory[a] # NoRecord /\ Report(a, "broadcast", hash, stage)
          /\ known' = known /\ Goto(a, q) /\ UNCHANGED <<tx, access, reloads>>
        BY <1>4 DEF Verify
    <2>2. hash \in Hash /\ stage \in Stage
        BY <1>t DEF Record
    <2>3. q \in Run /\ q.step = "read" /\ q.hash = hash /\ q.check
        BY <2>2 DEF Idle, Run
    <2>4. Names(a, hash)
        BY <2>1 DEF LifecycleInv, RecordsNamed
    <2>5. \A record \in Record : record.hash = hash => RunNamed(a, q, record)
        BY <2>3, <2>4 DEF RunNamed
    <2> HIDE DEF q, hash, stage
    <2>6. \A u \in known : tx[u].action = a /\ tx[u].fate = "pending" => hash.tx = u
        BY <1>k DEF hash
    <2> QED BY <2>1, <2>2, <2>3, <2>4, <2>5, <2>6, UnresolvedKeeps
(* From here on the run is of a transaction its action is remembered for.  *)
<1>h. ASSUME r.step \in {"read", "wait", "readback"}
      PROVE  /\ Names(a, r.hash) /\ memory[a].hash.tx = r.hash.tx
             /\ \A u \in known : tx[u].action = a /\ tx[u].fate = "pending" => r.hash.tx = u
             /\ memory[a] # NoRecord
    <2>1. Names(a, r.hash) /\ memory[a].hash.tx = r.hash.tx
        BY <1>h, <1>r DEF RunNamed
    <2>2. r.hash.tx \in Tx
        BY <2>1 DEF Names
    <2>3. r.hash.tx # 0
        BY <2>2, LifecycleAssumption DEF Tx
    <2> QED BY <2>1, <2>3, <1>k, <1>t DEF NoHash
(* The fate of the transaction remains unknown: it goes on to block.       *)
<1>u. ASSUME r.step \in {"read", "wait", "readback"}, NEW hash \in Hash, hash.tx = r.hash.tx,
             Names(a, hash), NEW state \in {"unknown", "broadcast"},
             Report(a, state, hash, r.stage), Goto(a, Idle), UNCHANGED <<tx, known, access, reloads>>
      PROVE  LifecycleInv'
    <2>1. \A v \in known : (tx[v].action = a /\ tx[v].fate = "pending") => hash.tx = v
        BY <1>u, <1>h
    <2> QED BY <1>u, <1>t, <1>r, <1>i, <2>1, UnresolvedKeeps
<1>5. CASE Read(a)
    <2>0. r.step = "read" /\ UNCHANGED <<tx, known, access, reloads>>
        BY <1>5 DEF Read, r
    <2>1. CASE Report(a, "unknown", r.hash, r.stage) /\ Goto(a, Idle)
        BY <2>0, <2>1, <1>h, <1>r, <1>u
    <2>2. ASSUME NEW seen \in {Matches(r.hash), FALSE},
                 Goto(a, [r EXCEPT !.step = "wait", !.seen = seen]),
                 UNCHANGED <<storage, memory, outcome>>
          PROVE  LifecycleInv'
        <3> DEFINE q == [r EXCEPT !.step = "wait", !.seen = seen]
        <3>1. seen \in BOOLEAN /\ (seen => Matches(r.hash))
            BY DEF Matches
        <3>2. /\ q \in Run /\ q.step = "wait" /\ q.hash = r.hash /\ q.seen = seen
              /\ q.check = r.check
            BY <1>r, <3>1 DEF Run
        <3> HIDE DEF q
        <3>3. RunNamed(a, q, memory[a])
            <4>1. Names(a, r.hash) /\ memory[a].hash.tx = r.hash.tx
                BY <1>h, <2>0
            <4>2. Names(a, q.hash) /\ memory[a].hash.tx = q.hash.tx
                BY <4>1, <3>2
            <4>3. q.check = r.check /\ (seen => Matches(q.hash))
                BY <3>1, <3>2
            <4>4. q.check
                BY <1>r, <2>0, <3>2 DEF RunNamed
            <4> QED BY <4>2, <4>3, <4>4, <3>2 DEF RunNamed
        <3>4. \A record \in {memory'[a], storage'[a]} \ {NoRecord} : Names(a, record.hash)
            BY <2>2 DEF LifecycleInv, RecordsNamed
        <3>5. OutcomeTrue => OutcomeTrue'
            BY <2>0, <2>2 DEF OutcomeTrue
        <3>6. TypeOK => outcome' \in [tx : 0 .. MaxTx, state : {"none", "confirmed", "reverted", "cancelled"}]
            BY <2>2 DEF TypeOK
        <3> QED BY <1>t, <1>k, <2>0, <2>2, <3>2, <3>3, <3>4, <3>5, <3>6, OneRun DEF q
    <2>3. \/ \E seen \in {Matches(r.hash), FALSE} :
                 /\ Goto(a, [r EXCEPT !.step = "wait", !.seen = seen])
                 /\ UNCHANGED <<storage, memory, outcome>>
          \/ Report(a, "unknown", r.hash, r.stage) /\ Goto(a, Idle)
        BY <1>5 DEF Read, r
    <2> QED BY <2>1, <2>2, <2>3
<1>6. CASE NoReceipt(a)
    <2> DEFINE hash == Answering(r)
    <2>0. /\ r.step = "wait" /\ UNCHANGED <<tx, known, access, reloads>> /\ Goto(a, Idle)
          /\ \/ Report(a, "unknown", r.hash, r.stage)
             \/ /\ Replacement(r)
                /\ Report(a, IF Judged(r) = "cancelled" THEN "cancelled" ELSE "unknown", hash, r.stage)
        BY <1>6 DEF NoReceipt, r
    <2>1. /\ Judged(r) = "cancelled" => tx[hash.tx].fate = "cancelled"
          /\ hash \in Hash /\ hash.tx = r.hash.tx
          /\ tx[r.hash.tx].fate # "pending" /\ Judged(r) # "cancelled" => Names(a, hash)
        BY <2>0, JudgedTrue DEF r
    <2> HIDE DEF hash
    <2>2. CASE Report(a, "unknown", r.hash, r.stage)
        BY <2>0, <2>2, <1>h, <1>r, <1>u
    <2>3. CASE Replacement(r) /\ Judged(r) # "cancelled" /\ Report(a, "unknown", hash, r.stage)
        <3>1. tx[r.hash.tx].fate # "pending"
            BY <2>3 DEF Replacement
        <3> QED BY <2>0, <2>1, <2>3, <3>1, <1>u
    <2>4. CASE Replacement(r) /\ Judged(r) = "cancelled" /\ Report(a, "cancelled", hash, r.stage)
        <3>1. Said("cancelled", tx[hash.tx].fate) /\ ~Unresolved("cancelled")
            BY <2>1, <2>4 DEF Said, Unresolved
        <3>2. hash.tx \in Tx /\ tx[hash.tx].action = a /\ tx[hash.tx].fate # "unsent"
            BY <1>h, <2>0, <2>1 DEF Names
        <3> QED BY <3>2, <1>t, <1>r, <1>h, <1>i, <2>0, <2>1, <2>4, <3>1, ReportKeeps
    <2> QED BY <2>0, <2>2, <2>3, <2>4
<1>7. CASE Receipt(a)
    <2> DEFINE hash == Answering(r)
               state == Judged(r)
    <2>0. r.step = "wait" /\ tx[r.hash.tx].fate # "pending" /\ UNCHANGED <<tx, known, access, reloads>>
        BY <1>7 DEF Receipt, r
    <2>1. /\ state \in {"unknown", "confirmed", "reverted", "cancelled"}
          /\ Said(state, tx[hash.tx].fate)
          /\ state # "cancelled" => Names(a, hash)
          /\ hash \in Hash /\ hash.tx = r.hash.tx
        BY <2>0, JudgedTrue DEF r
    <2>2. hash.tx \in Tx /\ tx[hash.tx].action = a /\ tx[hash.tx].fate # "unsent"
        BY <1>h, <2>0, <2>1 DEF Names
    <2>3. \A u \in known : tx[u].action = a /\ tx[u].fate = "pending" => hash.tx = u
        BY <1>h, <2>0, <2>1
    <2>4. \/ /\ state = "confirmed" /\ Report(a, "broadcast", hash, r.stage)
             /\ Goto(a, [r EXCEPT !.step = "readback", !.hash = hash])
          \/ /\ Report(a, state, hash, r.stage)
             /\ \/ state = "confirmed" /\ AfterApproval(a, r)
                \/ state = "confirmed" /\ Goto(a, [Idle EXCEPT !.step = "refresh", !.hash = hash])
                \/ state # "confirmed" /\ Goto(a, Idle)
        BY <1>7 DEF Receipt, r
    <2> HIDE DEF hash, state
    <2>5. ASSUME state = "confirmed", Report(a, "broadcast", hash, r.stage),
                 Goto(a, [r EXCEPT !.step = "readback", !.hash = hash])
          PROVE  LifecycleInv'
        <3> DEFINE q == [r EXCEPT !.step = "readback", !.hash = hash]
        <3>1. q \in Run /\ q.step = "readback" /\ q.hash = hash
            BY <1>r, <2>1 DEF Run
        <3>2. tx[hash.tx].fate \in {"success", "repriced"} /\ Names(a, hash)
            BY <2>1, <2>5 DEF Said
        <3>3. \A record \in Record : record.hash = hash => RunNamed(a, q, record)
            BY <3>1, <3>2 DEF RunNamed
        <3>4. Said("broadcast", tx[hash.tx].fate) /\ Unresolved("broadcast")
            BY DEF Said, Unresolved
        <3> HIDE DEF q
        <3> QED BY <1>r, <2>0, <2>1, <2>2, <2>3, <2>5, <3>1, <3>2, <3>3, <3>4, ReportKeeps DEF q
    <2>6. ASSUME NEW q \in Run, Goto(a, q), Report(a, "confirmed", hash, r.stage), state = "confirmed",
                 q.step \in {"prompt", "idle", "refresh"}, q.step = "refresh" => q.hash = hash
          PROVE  LifecycleInv'
        <3>1. tx[hash.tx].fate \in {"success", "repriced"} /\ Names(a, hash)
            BY <2>1, <2>6 DEF Said
        <3>2. RunNamed(a, q, NoRecord)
            BY <3>1, <2>6 DEF RunNamed
        <3>3. Said("confirmed", tx[hash.tx].fate) /\ ~Unresolved("confirmed")
            BY <2>1, <2>6 DEF Unresolved
        <3> QED BY <1>r, <2>0, <2>1, <2>2, <2>3, <2>6, <3>2, <3>3, ReportKeeps
    <2>7. ASSUME state = "confirmed", Report(a, state, hash, r.stage), AfterApproval(a, r)
          PROVE  LifecycleInv'
        <3>1. \/ Goto(a, Idle)
              \/ \E stage \in Stage : Goto(a, [Idle EXCEPT !.step = "prompt", !.stage = stage])
            BY <2>7 DEF AfterApproval
        <3>2. \A stage \in Stage :
                  LET q == [Idle EXCEPT !.step = "prompt", !.stage = stage]
                  IN  q \in Run /\ q.step = "prompt"
            BY <1>t DEF Run
        <3> QED BY <1>t, <2>6, <2>7, <3>1, <3>2
    <2>8. ASSUME state = "confirmed", Report(a, state, hash, r.stage),
                 Goto(a, [Idle EXCEPT !.step = "refresh", !.hash = hash])
          PROVE  LifecycleInv'
        <3> DEFINE q == [Idle EXCEPT !.step = "refresh", !.hash = hash]
        <3>1. q \in Run /\ q.step = "refresh" /\ q.hash = hash
            BY <1>t, <2>1 DEF Run
        <3> QED BY <2>6, <2>8, <3>1
    <2>9. ASSUME state # "confirmed", Report(a, state, hash, r.stage), Goto(a, Idle)
          PROVE  LifecycleInv'
        <3>1. Unresolved(state) => Names(a, hash)
            BY <2>1 DEF Unresolved
        <3>2. \A record \in Record : RunNamed(a, Idle, record)
            BY <1>i
        <3> QED BY <1>t, <1>r, <2>0, <2>1, <2>2, <2>3, <2>9, <3>1, <3>2, ReportKeeps
    <2> QED BY <2>4, <2>5, <2>7, <2>8, <2>9
<1>8. CASE VerifySubmission(a)
    <2>0. r.step = "readback" /\ UNCHANGED <<tx, known, access, reloads>>
        BY <1>8 DEF VerifySubmission, r
    <2>1. CASE Report(a, "unknown", r.hash, r.stage) /\ Goto(a, Idle)
        BY <2>0, <2>1, <1>h, <1>r, <1>u
    <2>2. CASE /\ Report(a, "confirmed", r.hash, r.stage)
               /\ Goto(a, [Idle EXCEPT !.step = "refresh", !.hash = r.hash])
        <3> DEFINE q == [Idle EXCEPT !.step = "refresh", !.hash = r.hash]
        <3>1. q \in Run /\ q.step = "refresh" /\ q.hash = r.hash
            BY <1>t, <1>r DEF Run
        <3>2. Names(a, r.hash) /\ tx[r.hash.tx].fate \in {"success", "repriced"}
            BY <1>r, <2>0 DEF RunNamed
        <3>3. \A record \in Record : RunNamed(a, q, record)
            BY <3>1, <3>2 DEF RunNamed
        <3>4. Said("confirmed", tx[r.hash.tx].fate) /\ ~Unresolved("confirmed")
            BY <3>2 DEF Said, Unresolved
        <3> HIDE DEF q
        <3> QED BY <1>r, <1>h, <2>0, <2>2, <3>1, <3>2, <3>3, <3>4, ReportKeeps DEF Names, q
    <2> QED BY <1>8, <2>1, <2>2 DEF VerifySubmission, r
<1>9. CASE Refreshed(a)
    <2>0. /\ r.step = "refresh" /\ UNCHANGED <<tx, known, storage, access, memory, reloads>>
          /\ outcome' = [tx |-> r.hash.tx, state |-> "confirmed"] /\ Goto(a, Idle)
        BY <1>9 DEF Refreshed, r
    <2>1. Names(a, r.hash) /\ tx[r.hash.tx].fate \in {"success", "repriced"}
        BY <1>r, <2>0 DEF RunNamed
    <2>2. OutcomeTrue'
        BY <2>0, <2>1 DEF OutcomeTrue, Said, Names
    <2>3. outcome' \in [tx : 0 .. MaxTx, state : {"none", "confirmed", "reverted", "cancelled"}]
        BY <2>0, <1>r DEF Hash
    <2>4. \A record \in {memory'[a], storage'[a]} \ {NoRecord} : Names(a, record.hash)
        BY <2>0 DEF LifecycleInv, RecordsNamed
    <2>5. RunNamed(a, Idle, memory'[a])
        BY <1>t, <1>i, <2>0
    <2> QED BY <1>t, <1>k, <2>0, <2>2, <2>3, <2>4, <2>5, OneRun
<1> QED BY <1>1, <1>2, <1>3, <1>4, <1>5, <1>6, <1>7, <1>8, <1>9

(* What has become of a transaction is final, so all that was said of it   *)
(* remains true while others are sent or mined.                            *)
LEMMA LifecycleInvChain ==
    ASSUME LifecycleInv, tx' \in [Tx -> [action : Action \cup {NoAction}, stage : Stage, fate : Fate]],
           UNCHANGED <<known, storage, memory, outcome, reloads>>,
           access' \in {access, "quota", "none"}, run' \in [Action -> Run],
           \A t \in Tx : \/ tx'[t] = tx[t]
                         \/ tx[t].fate = "unsent" /\ tx'[t].fate # "unsent"
                         \/ /\ tx[t].fate = "pending" /\ tx'[t].action = tx[t].action
                            /\ tx'[t].fate \notin {"unsent", "pending"},
           \A a \in Action : run'[a] # run[a] => RunNamed(a, run[a], memory[a])'
    PROVE  LifecycleInv'
<1>t. /\ memory \in [Action -> Record] /\ storage \in [Action -> Record]
      /\ known \subseteq Tx /\ run \in [Action -> Run]
    BY DEF LifecycleInv, TypeOK
<1>1. TypeOK'
    BY DEF LifecycleInv, TypeOK
<1>2. ASSUME NEW a \in Action, NEW hash \in Hash, Names(a, hash)
      PROVE  /\ hash.tx \in Tx /\ tx'[hash.tx].action = a /\ tx'[hash.tx].fate # "unsent"
             /\ ~hash.own => tx'[hash.tx].fate \in {"replaced", "repriced", "repriced and reverted"}
             /\ tx[hash.tx].fate \notin {"unsent", "pending"} => tx'[hash.tx] = tx[hash.tx]
    BY <1>2 DEF Names
<1>3. RecordsNamed'
    <2>1. ASSUME NEW a \in Action
          PROVE  /\ memory[a] # NoRecord => Names(a, memory[a].hash)'
                 /\ storage[a] # NoRecord => Names(a, storage[a].hash)'
        <3>1. memory[a].hash \in Hash /\ storage[a].hash \in Hash
            BY <1>t DEF Record
        <3>2. memory[a] # NoRecord => Names(a, memory[a].hash)
            BY DEF LifecycleInv, RecordsNamed
        <3>3. storage[a] # NoRecord => Names(a, storage[a].hash)
            BY DEF LifecycleInv, RecordsNamed
        <3>4. memory[a] # NoRecord => Names(a, memory[a].hash)'
            BY <3>1, <3>2, <1>2 DEF Names
        <3>5. storage[a] # NoRecord => Names(a, storage[a].hash)'
            BY <3>1, <3>3, <1>2 DEF Names
        <3> QED BY <3>4, <3>5
    <2>2. memory' = memory /\ storage' = storage
        OBVIOUS
    <2> QED BY <2>1, <2>2 DEF RecordsNamed
<1>4. RunsNamed'
    <2>1. ASSUME NEW a \in Action PROVE RunNamed(a, run[a], memory[a])'
        <3>1. CASE run'[a] # run[a]
            BY <3>1
        <3>2. CASE run'[a] = run[a]
            <4> DEFINE r == run[a]
            <4>1. r.hash \in Hash /\ RunNamed(a, r, memory[a])
                BY <1>t DEF Run, LifecycleInv, RunsNamed
            <4>2. r.step \notin {"idle", "prompt"} => Names(a, r.hash)
                BY <4>1 DEF RunNamed
            <4>3. r.step \notin {"idle", "prompt"} => Names(a, r.hash)'
                <5>1. ASSUME r.step \notin {"idle", "prompt"}
                      PROVE  /\ r.hash.tx \in Tx /\ tx'[r.hash.tx].action = a
                             /\ tx'[r.hash.tx].fate # "unsent"
                             /\ ~r.hash.own => tx'[r.hash.tx].fate \in {"replaced", "repriced", "repriced and reverted"}
                    BY <5>1, <4>1, <4>2, <1>2
                <5> QED BY <5>1, <3>2 DEF Names
            <4>4. r.step = "wait" /\ r.seen => Matches(r.hash)'
                <5>1. r.step = "wait" /\ r.seen => Matches(r.hash)
                    BY <4>1 DEF RunNamed
                <5> QED BY <5>1, <4>1, <4>2, <1>2, <3>2 DEF Matches
            <4>5. r.step \in {"readback", "refresh"} => tx'[r.hash.tx].fate \in {"success", "repriced"}
                <5>1. r.step \in {"readback", "refresh"} => tx[r.hash.tx].fate \in {"success", "repriced"}
                    BY <4>1 DEF RunNamed
                <5> QED BY <5>1, <4>1, <4>2, <1>2
            <4>6. r' = r /\ memory' = memory
                BY <3>2
            <4> HIDE DEF r
            <4>7. RunNamed(a, r, memory[a])'
                BY <4>1, <4>3, <4>4, <4>5, <4>6 DEF RunNamed
            <4> QED BY <4>7 DEF r
        <3> QED BY <3>1, <3>2
    <2> QED BY <2>1 DEF RunsNamed
<1>5. KnownRemembered'
    BY <1>t DEF LifecycleInv, KnownRemembered
<1>6. OutcomeTrue'
    BY DEF LifecycleInv, OutcomeTrue, Said
<1> QED BY <1>1, <1>3, <1>4, <1>5, <1>6 DEF LifecycleInv

(* Every step of the tab, of its wallet and of the chain keeps it.         *)
LEMMA LifecycleInvStep == LifecycleInv /\ [Next]_vars => LifecycleInv'
<1> SUFFICES ASSUME LifecycleInv, [Next]_vars PROVE LifecycleInv'
    OBVIOUS
<1>t. /\ tx \in [Tx -> [action : Action \cup {NoAction}, stage : Stage, fate : Fate]]
      /\ memory \in [Action -> Record] /\ storage \in [Action -> Record]
      /\ known \subseteq Tx /\ run \in [Action -> Run]
      /\ Untold \in [tx : 0 .. MaxTx, state : {"none", "confirmed", "reverted", "cancelled"}]
      /\ Idle \in Run /\ Idle.step = "idle" /\ reloads \in 0 .. MaxReloads
    BY LifecycleAssumption
       DEF LifecycleInv, TypeOK, Untold, Idle, Run, Hash, NoHash, Stage
<1>1. ASSUME NEW a \in Action,
             \/ \E stage \in Stage : Start(a, stage)
             \/ Refuse(a) \/ HashArrives(a) \/ HashLost(a) \/ Verify(a) \/ Read(a)
             \/ NoReceipt(a) \/ Receipt(a) \/ VerifySubmission(a) \/ Refreshed(a)
      PROVE  LifecycleInv'
    BY <1>1, LifecycleInvRun
<1>2. ASSUME NEW a \in Action, NEW t \in Tx, WalletSends(a, t) PROVE LifecycleInv'
    <2> DEFINE r == run[a]
               q == [r EXCEPT !.step = "sent", !.hash = [tx |-> t, own |-> TRUE]]
    <2>1. /\ r.step = "prompt" /\ tx[t].fate = "unsent"
          /\ tx' = [tx EXCEPT ![t] = [action |-> a, stage |-> r.stage, fate |-> "pending"]]
          /\ run' = [run EXCEPT ![a] = q]
          /\ UNCHANGED <<known, storage, access, memory, outcome, reloads>>
        BY <1>2 DEF WalletSends, Goto
    <2>2. r \in Run /\ r.stage \in Stage /\ t \in 0 .. MaxTx
        BY <1>t, LifecycleAssumption DEF Run, Tx
    <2>3. q \in Run /\ q.step = "sent" /\ q.hash = [tx |-> t, own |-> TRUE]
        BY <2>2 DEF Run, Hash
    <2>4. /\ tx' \in [Tx -> [action : Action \cup {NoAction}, stage : Stage, fate : Fate]]
          /\ tx'[t] = [action |-> a, stage |-> r.stage, fate |-> "pending"]
          /\ \A u \in Tx \ {t} : tx'[u] = tx[u]
        BY <1>t, <2>1, <2>2 DEF Fate
    <2>5. memory[a] = NoRecord
        BY <2>1 DEF LifecycleInv, RunsNamed, RunNamed
    <2> HIDE DEF q
    <2>6. run' \in [Action -> Run] /\ run'[a] = q /\ \A b \in Action \ {a} : run'[b] = run[b]
        BY <1>t, <2>1, <2>3
    <2>7. RunNamed(a, run[a], memory[a])'
        <3>1. /\ run'[a].step = "sent" /\ run'[a].hash.tx = t /\ run'[a].hash.own
              /\ memory'[a] = NoRecord /\ tx'[t].action = a /\ tx'[t].fate = "pending"
            BY <2>1, <2>3, <2>4, <2>5, <2>6
        <3> QED BY <3>1 DEF RunNamed, Names
    <2>8. \A b \in Action : run'[b] # run[b] => RunNamed(b, run[b], memory[b])'
        BY <2>6, <2>7
    <2>9. \A u \in Tx : tx'[u] = tx[u] \/ (tx[u].fate = "unsent" /\ tx'[u].fate # "unsent")
        BY <2>1, <2>4
    <2> QED BY <2>1, <2>4, <2>6, <2>8, <2>9, LifecycleInvChain
<1>3. ASSUME NEW t \in Tx, NEW fate \in Fate, Mine(t, fate) PROVE LifecycleInv'
    <2>1. /\ tx[t].fate = "pending" /\ fate \notin {"unsent", "pending"}
          /\ tx' = [tx EXCEPT ![t].fate = fate]
          /\ UNCHANGED <<known, storage, access, memory, run, outcome, reloads>>
        BY <1>3 DEF Mine, tab
    <2>2. /\ tx' \in [Tx -> [action : Action \cup {NoAction}, stage : Stage, fate : Fate]]
          /\ tx'[t].fate = fate /\ tx'[t].action = tx[t].action
          /\ \A u \in Tx \ {t} : tx'[u] = tx[u]
        BY <1>t, <2>1
    <2>3. \A u \in Tx : \/ tx'[u] = tx[u]
                        \/ /\ tx[u].fate = "pending" /\ tx'[u].action = tx[u].action
                           /\ tx'[u].fate \notin {"unsent", "pending"}
        BY <2>1, <2>2
    <2> QED BY <1>t, <2>1, <2>2, <2>3, LifecycleInvChain
<1>4. CASE StorageFails
    BY <1>4, <1>t, LifecycleInvChain DEF StorageFails, tab
<1>5. CASE Reload
    <2>1. /\ tx' = tx /\ storage' = storage /\ access' = access
          /\ reloads < MaxReloads /\ reloads' = reloads + 1
          /\ memory' = IF access = "none" THEN [a \in Action |-> NoRecord] ELSE storage
          /\ known' = {t \in known : \E a \in Action : memory'[a].hash.tx = t}
          /\ run' = [a \in Action |-> Idle] /\ outcome' = Untold
        BY <1>5 DEF Reload
    <2>2. NoRecord \in Record
        BY LifecycleAssumption DEF NoRecord, Record, NoHash, Hash, Stage
    <2>3. TypeOK'
        <3>1. memory' \in [Action -> Record] /\ run' \in [Action -> Run] /\ known' \subseteq Tx
            BY <1>t, <2>1, <2>2
        <3>2. reloads' \in 0 .. MaxReloads
            BY <1>t, <2>1, LifecycleAssumption
        <3> QED BY <1>t, <2>1, <3>1, <3>2 DEF LifecycleInv, TypeOK
    <2>4. \A a \in Action : memory'[a] \in {NoRecord, storage[a]}
        BY <2>1
    <2>5. RecordsNamed'
        BY <2>1, <2>4 DEF LifecycleInv, RecordsNamed, Names
    <2>6. RunsNamed'
        BY <1>t, <2>1 DEF RunsNamed, RunNamed
    <2>7. KnownRemembered'
        <3>1. ASSUME NEW u \in known', NEW a \in Action, tx[u].action = a
              PROVE  memory'[a].hash.tx = u
            <4>1. PICK b \in Action : memory'[b].hash.tx = u
                BY <2>1
            <4>2. u \in Tx /\ 0 \notin Tx
                BY <1>t, <2>1, LifecycleAssumption DEF Tx
            <4>3. memory'[b] # NoRecord
                BY <4>1, <4>2 DEF NoRecord, NoHash
            <4>4. tx[u].action = b
                BY <4>1, <4>3, <2>1, <2>5 DEF RecordsNamed, Names
            <4> QED BY <3>1, <4>1, <4>4
        <3> QED BY <2>1, <3>1 DEF LifecycleInv, KnownRemembered
    <2>8. OutcomeTrue'
        BY <2>1 DEF OutcomeTrue
    <2> QED BY <2>3, <2>5, <2>6, <2>7, <2>8 DEF LifecycleInv
<1>6. CASE UNCHANGED vars
    BY <1>6, <1>t, LifecycleInvChain DEF vars, tab
<1> QED BY <1>1, <1>2, <1>3, <1>4, <1>5, <1>6 DEF Next

(* A transaction is sent from a prompt, and a prompt has nothing to        *)
(* remember, so nothing the tab knows of its action can be pending.        *)
LEMMA SendsStep ==
    LifecycleInv /\ [Next]_vars =>
        [\A t \in Tx :
            tx[t].fate = "unsent" /\ tx'[t].fate = "pending" =>
                \A u \in known : tx[u].action = tx'[t].action => tx[u].fate # "pending"]_vars
<1> SUFFICES ASSUME LifecycleInv, [Next]_vars,
                    NEW t \in Tx, tx[t].fate = "unsent", tx'[t].fate = "pending",
                    NEW u \in known, tx[u].action = tx'[t].action, tx[u].fate = "pending"
             PROVE  FALSE
    OBVIOUS
<1>t. tx \in [Tx -> [action : Action \cup {NoAction}, stage : Stage, fate : Fate]]
    BY DEF LifecycleInv, TypeOK
<1>0. tx' # tx
    OBVIOUS
<1>1. \/ \E a \in Action, v \in Tx : WalletSends(a, v)
      \/ \E v \in Tx, fate \in Fate : Mine(v, fate)
    <2>1. ASSUME NEW a \in Action,
                 \/ \E stage \in Stage : Start(a, stage)
                 \/ Refuse(a) \/ HashArrives(a) \/ HashLost(a) \/ Verify(a) \/ Read(a)
                 \/ NoReceipt(a) \/ Receipt(a) \/ VerifySubmission(a) \/ Refreshed(a)
          PROVE  tx' = tx
        BY <2>1 DEF Start, Refuse, HashArrives, HashLost, Verify, Read, NoReceipt, Receipt,
                    VerifySubmission, Refreshed
    <2>2. CASE StorageFails \/ Reload \/ UNCHANGED vars
        BY <2>2, <1>0 DEF StorageFails, Reload, vars
    <2> QED BY <1>0, <2>1, <2>2 DEF Next
<1>2. ASSUME NEW v \in Tx, NEW fate \in Fate, Mine(v, fate) PROVE FALSE
    BY <1>2, <1>t DEF Mine
<1>3. ASSUME NEW a \in Action, NEW v \in Tx, WalletSends(a, v) PROVE FALSE
    <2>1. run[a].step = "prompt" /\ tx' = [tx EXCEPT ![v] = [action |-> a, stage |-> run[a].stage, fate |-> "pending"]]
        BY <1>3 DEF WalletSends
    <2>2. t = v /\ tx'[t].action = a
        BY <1>t, <2>1
    <2>3. memory[a] = NoRecord
        BY <2>1 DEF LifecycleInv, RunsNamed, RunNamed
    <2>4. memory[a].hash.tx = u
        BY <2>2 DEF LifecycleInv, KnownRemembered
    <2>5. u \in Tx
        BY DEF LifecycleInv, TypeOK
    <2>6. 0 \notin Tx
        BY LifecycleAssumption DEF Tx
    <2> QED BY <2>3, <2>4, <2>5, <2>6 DEF NoRecord, NoHash
<1> QED BY <1>1, <1>2, <1>3

(* Records, runs and outcomes name transactions the wallet has sent for    *)
(* their action, and say of them what is final.                            *)
THEOREM LifecycleInvariant == Spec => []LifecycleInv
BY LifecycleInvInit, LifecycleInvStep, PTL DEF Spec

(* What the user was told is what has become of the transaction, whatever  *)
(* has replaced it, for all actions, transactions and reloads.             *)
THEOREM TellsTheTruth == Spec => []ToldTheTruth
<1>1. LifecycleInv => ToldTheTruth
    BY DEF LifecycleInv, ToldTheTruth, RecordsNamed, Names, OutcomeTrue, Said
<1> QED BY <1>1, LifecycleInvariant, PTL

(* Nothing is sent for an action while the tab knows of a transaction of   *)
(* it that may still be mined.                                             *)
THEOREM SendsWhenClear == Spec => SendsOnlyWhenClear
BY LifecycleInvariant, SendsStep, PTL DEF Spec, SendsOnlyWhenClear

-------------------------------------------------------------------------------
(* The creation of a demand.                                               *)

OutcomeType == [kind : {"none", "failed", "broadcast", "unknown", "reverted",
                        "approval-confirmed", "confirmed", "readback-failed"},
                of : Wallet \cup {NoWallet}, draft : Draft, made : 0 .. MaxCreated,
                id : 0 .. MaxCreated]

RecordType == [kind : {"none", "broadcast", "unknown"}, stage : {"approval", "demand"},
               draft : Draft, fate : {"pending", "success", "failed"}, made : 0 .. MaxCreated]

JobType == [kind : {"none", "create", "verify"}, of : Wallet \cup {NoWallet},
            session : BOOLEAN, phase : {"unsent", "sent", "refresh"}, draft : Draft,
            made : 0 .. MaxCreated]

(* A demand of the wallet with the terms of the draft, created after it    *)
(* was last seen on the board.                                             *)
MadeOf(c, w, draft, made) ==
    /\ made \in draft.before + 1 .. Len(c)
    /\ c[made] = [creator |-> w, terms |-> draft.terms]

(* An outcome is of its user, and names nothing but what was made.         *)
OutcomeSound(o, u, c) ==
    /\ o # Nothing => o.of = u
    /\ o.id # 0 => o.id = o.made
    /\ EndsChat(o.kind) => MadeOf(c, o.of, o.draft, o.made)

RecordSound(w, r, c) ==
    r.fate = "success" /\ r.stage = "demand" => MadeOf(c, w, r.draft, r.made)

JobSound(j, u, rs, c) ==
    /\ j.session => j.of = u
    /\ j # NoJob => j.of \in Wallet
    /\ j.phase = "sent" => rs[j.of].draft = j.draft
    /\ j.phase = "refresh" => MadeOf(c, j.of, j.draft, j.made)

(* After a confirmation in the session the chat has ended, or is about to. *)
FundedSound(f, u, o, j, rs) ==
    f => /\ u # NoWallet => rs[u].kind = "none"
         /\ (EndsChat(o.kind) /\ j = NoJob) \/ (j.phase = "refresh" /\ j.session)

DraftsSound == \A w \in Wallet : records[w].draft.before <= Len(created)

ChatInv ==
    /\ ChatTypeOK
    /\ Len(created) <= MaxCreated
    /\ OutcomeSound(shown, user, created)
    /\ OutcomeSound(refresh, user, created)
    /\ refresh # Nothing => EndsChat(refresh.kind)
    /\ \A w \in Wallet : RecordSound(w, records[w], created)
    /\ DraftsSound /\ job.draft.before <= Len(created)
    /\ JobSound(job, user, records, created)
    /\ FundedSound(funded, user, shown, job, records)

(* What stands for nothing has its type.                                   *)
LEMMA NothingTypes ==
    /\ NoDraft \in Draft /\ NoDraft.before = 0
    /\ NoRecordYet \in RecordType /\ Nothing \in OutcomeType /\ NoJob \in JobType
    /\ Nothing.kind = "none" /\ Nothing.id = 0
    /\ NoRecordYet.kind = "none" /\ NoRecordYet.fate = "pending" /\ NoRecordYet.draft = NoDraft
    /\ NoJob.kind = "none" /\ NoJob.phase = "unsent" /\ ~NoJob.session /\ NoJob.draft = NoDraft
<1>1. NoDraft \in Draft /\ NoDraft.before = 0
    BY ChatAssumption DEF NoDraft, Draft
<1> QED BY <1>1, ChatAssumption
        DEF NoRecordYet, RecordType, Nothing, OutcomeType, NoJob, JobType

(* A demand made remains, whatever is created after it.                    *)
LEMMA MadeOfGrows ==
    ASSUME NEW c \in Seq([creator : Wallet, terms : Terms]), NEW d \in [creator : Wallet, terms : Terms],
           NEW w, NEW draft \in Draft, NEW made, MadeOf(c, w, draft, made)
    PROVE  MadeOf(Append(c, d), w, draft, made)
<1>1. draft.before \in Nat
    BY ChatAssumption DEF Draft
<1>2. Len(c) \in Nat /\ made \in 1 .. Len(c)
    BY <1>1 DEF MadeOf
<1>3. Len(Append(c, d)) = Len(c) + 1 /\ Append(c, d)[made] = c[made]
    BY <1>2
<1> QED BY <1>1, <1>2, <1>3 DEF MadeOf

(* The only demand of these terms on the board is the one made.            *)
LEMMA ResolveIsMade ==
    ASSUME created \in Seq([creator : Wallet, terms : Terms]), NEW n \in 0 .. Len(created),
           NEW w, NEW draft \in Draft, NEW made, MadeOf(created, w, draft, made), made <= n
    PROVE  Resolve(w, draft, n) \in {0, made}
<1> DEFINE matches == {i \in draft.before + 1 .. n : created[i] = [creator |-> w, terms |-> draft.terms]}
<1>1. draft.before \in Nat /\ n \in Nat
    BY ChatAssumption DEF Draft
<1>2. made \in matches
    BY <1>1 DEF MadeOf
<1>3. IsFiniteSet(matches)
    <2>1. IsFiniteSet(draft.before + 1 .. n)
        BY <1>1, FS_Interval
    <2> QED BY <2>1, FS_Subset
<1>4. Resolve(w, draft, n) = UniqueOf(matches)
    BY DEF Resolve
<1> HIDE DEF matches
<1>5. ASSUME Cardinality(matches) = 1 PROVE UniqueOf(matches) = made
    <2>1. PICK x : matches = {x}
        BY <1>3, <1>5, FS_Singleton
    <2>2. matches = {made}
        BY <1>2, <2>1
    <2>3. (CHOOSE i \in matches : TRUE) = made
        BY <2>2
    <2> QED BY <1>5, <2>3 DEF UniqueOf
<1> QED BY <1>4, <1>5 DEF UniqueOf

(* What the pending record makes the page show is of its wallet.           *)
LEMMA PendingSound ==
    ASSUME NEW rs \in [Wallet -> RecordType], NEW w \in Wallet \cup {NoWallet}, NEW c
    PROVE  /\ Pending(rs, w) \in OutcomeType
           /\ OutcomeSound(Pending(rs, w), w, c)
           /\ ~EndsChat(Pending(rs, w).kind)
           /\ w \in Wallet => Pending(rs, w).kind = rs[w].kind
           /\ w = NoWallet => Pending(rs, w) = Nothing
<1>1. CASE w = NoWallet
    BY <1>1, NothingTypes, ChatAssumption DEF Pending, OutcomeSound, EndsChat
<1>2. CASE w \in Wallet /\ rs[w].kind = "none"
    BY <1>2, NothingTypes, ChatAssumption DEF Pending, OutcomeSound, EndsChat
<1>3. CASE w \in Wallet /\ rs[w].kind # "none"
    <2> DEFINE p == Pending(rs, w)
    <2>1. rs[w] \in RecordType
        BY <1>3
    <2>2. p = [kind |-> rs[w].kind, of |-> w, draft |-> rs[w].draft, made |-> rs[w].made, id |-> 0]
        BY <1>3, ChatAssumption DEF Pending, Nothing
    <2>3. p \in OutcomeType
        BY <2>1, <2>2, <1>3, ChatAssumption DEF OutcomeType, RecordType
    <2>4. p.kind = rs[w].kind /\ p.of = w /\ p.id = 0 /\ ~EndsChat(p.kind)
        BY <2>1, <2>2 DEF EndsChat, RecordType
    <2> HIDE DEF p
    <2> QED BY <1>3, <2>3, <2>4, ChatAssumption DEF OutcomeSound, p
<1> QED BY <1>1, <1>2, <1>3

(* An outcome that follows the record, or stays once the chat has ended.   *)
LEMMA FollowSound ==
    ASSUME NEW rs \in [Wallet -> RecordType], NEW w \in Wallet \cup {NoWallet},
           NEW o \in OutcomeType, NEW c, OutcomeSound(o, w, c)
    PROVE  /\ Follow(rs, w, o) \in OutcomeType
           /\ OutcomeSound(Follow(rs, w, o), w, c)
           /\ (w \in Wallet => rs[w].kind = "none") /\ EndsChat(o.kind) => Follow(rs, w, o) = o
<1>1. Nothing \in OutcomeType /\ OutcomeSound(Nothing, w, c)
    BY NothingTypes DEF OutcomeSound, EndsChat
<1>2. Follow(rs, w, o) \in {Pending(rs, w), Nothing, o}
    BY DEF Follow
<1>3. ASSUME w \in Wallet => rs[w].kind = "none", EndsChat(o.kind) PROVE Follow(rs, w, o) = o
    <2>1. Pending(rs, w).kind = "none"
        BY <1>3, PendingSound, NothingTypes
    <2> QED BY <1>3, <2>1 DEF Follow, UnresolvedKinds, EndsChat
<1>4. Pending(rs, w) \in OutcomeType /\ OutcomeSound(Pending(rs, w), w, c)
    BY PendingSound
<1> QED BY <1>1, <1>2, <1>3, <1>4

(* What a run that is over shows, if its session is still that of the      *)
(* page.                                                                   *)
LEMMA OverSound ==
    ASSUME NEW kind \in {"failed", "unknown", "reverted", "approval-confirmed", "confirmed", "readback-failed"},
           NEW made \in 0 .. MaxCreated, NEW id \in 0 .. MaxCreated, NEW follows \in OutcomeType,
           job \in JobType, job # NoJob, JobSound(job, user, records, created),
           OutcomeSound(follows, user, created), id # 0 => id = made,
           EndsChat(kind) => MadeOf(created, job.of, job.draft, made),
           Over(kind, made, id, follows)
    PROVE  /\ shown' \in OutcomeType /\ OutcomeSound(shown', user, created)
           /\ job' = NoJob
           /\ job.session => shown'.kind = kind
<1> DEFINE said == [kind |-> kind, of |-> job.of, draft |-> job.draft, made |-> made, id |-> id]
<1>1. shown' = (IF job.session THEN said ELSE follows) /\ job' = NoJob
    BY DEF Over, OfSession
<1>2. said \in OutcomeType
    BY DEF OutcomeType, JobType
<1>3. job.session => OutcomeSound(said, user, created) /\ said.kind = kind
    BY DEF OutcomeSound, JobSound
<1> HIDE DEF said
<1> QED BY <1>1, <1>2, <1>3

(* The page begins with nothing to show.                                   *)
LEMMA ChatInvInit == ChatInit => ChatInv
<1> SUFFICES ASSUME ChatInit PROVE ChatInv
    OBVIOUS
<1> USE NothingTypes, ChatAssumption DEF ChatInit
<1>1. ChatTypeOK
    <2>1. chat \in [step : 1 .. Review, editing : {"no", "choices", "field"}, terms : Terms]
        BY DEF Draft, Review, Steps
    <2>2. created \in Seq([creator : Wallet, terms : Terms]) /\ board \in 0 .. Len(created)
        OBVIOUS
    <2>3. shown \in OutcomeType /\ refresh \in OutcomeType /\ records \in [Wallet -> RecordType]
          /\ job \in JobType
        OBVIOUS
    <2> QED BY <2>1, <2>2, <2>3 DEF ChatTypeOK, OutcomeType, RecordType, JobType
<1>2. Len(created) = 0
    OBVIOUS
<1>3. OutcomeSound(shown, user, created) /\ OutcomeSound(refresh, user, created)
    BY DEF OutcomeSound, EndsChat
<1>4. DraftsSound /\ job.draft.before <= Len(created)
    BY <1>2 DEF DraftsSound
<1>5. \A w \in Wallet : RecordSound(w, records[w], created)
    BY DEF RecordSound
<1>6. JobSound(job, user, records, created)
    BY DEF JobSound
<1>7. FundedSound(funded, user, shown, job, records)
    BY DEF FundedSound
<1> QED BY <1>1, <1>2, <1>3, <1>4, <1>5, <1>6, <1>7 DEF ChatInv

(* The types, with a length for the demands.                               *)
LEMMA ChatInvTypes ==
    ASSUME ChatInv
    PROVE  /\ user \in Wallet \cup {NoWallet} /\ leaving \in BOOLEAN /\ funded \in BOOLEAN
           /\ chat \in [step : 1 .. Review, editing : {"no", "choices", "field"}, terms : Terms]
           /\ shown \in OutcomeType /\ refresh \in OutcomeType
           /\ records \in [Wallet -> RecordType] /\ job \in JobType
           /\ created \in Seq([creator : Wallet, terms : Terms])
           /\ board \in 0 .. Len(created) /\ Len(created) \in 0 .. MaxCreated
           /\ Review = 6
<1>1. Len(created) \in Nat /\ Len(created) <= MaxCreated
    BY DEF ChatInv, ChatTypeOK
<1> QED BY <1>1, ChatAssumption
        DEF ChatInv, ChatTypeOK, OutcomeType, RecordType, JobType, Review, Steps

(* Answers, edits, the wallet and its session.                             *)
LEMMA ChatInvTalk ==
    ASSUME ChatInv,
           \/ \E terms \in Terms : Give(terms)
           \/ OpenEditChoices \/ ChooseEdit \/ CancelEdit
           \/ \E w \in Wallet \cup {NoWallet} : ChangeUser(w)
           \/ Leave \/ Stay
    PROVE  ChatInv'
<1>t. /\ user \in Wallet \cup {NoWallet} /\ leaving \in BOOLEAN /\ funded \in BOOLEAN
      /\ chat \in [step : 1 .. Review, editing : {"no", "choices", "field"}, terms : Terms]
      /\ shown \in OutcomeType /\ refresh \in OutcomeType
      /\ records \in [Wallet -> RecordType] /\ job \in JobType
      /\ Review = 6
    BY ChatInvTypes
<1>n. Nothing \in OutcomeType /\ Nothing.kind = "none" /\ Nothing.id = 0
    BY NothingTypes
(* What it says is forgotten only where the chat has not ended.            *)
<1>1. ASSUME chat' \in [step : 1 .. Review, editing : {"no", "choices", "field"}, terms : Terms],
             shown' = shown \/ (shown' = Nothing /\ ~EndsChat(shown.kind) /\ ~Busy),
             leaving' \in BOOLEAN, UNCHANGED <<user, refresh, records, job, created, board, funded>>
      PROVE  ChatInv'
    <2>1. shown' \in OutcomeType /\ OutcomeSound(shown', user, created)
        BY <1>1, <1>t, <1>n DEF ChatInv, OutcomeSound, EndsChat
    <2>2. FundedSound(funded, user, shown', job, records)
        <3>1. CASE shown' = shown
            BY <3>1 DEF ChatInv
        <3>2. CASE ~EndsChat(shown.kind) /\ ~Busy
            BY <3>2, NothingTypes DEF ChatInv, FundedSound, Busy
        <3> QED BY <1>1, <3>1, <3>2
    <2>3. ChatTypeOK'
        BY <1>1, <1>t, <2>1 DEF ChatInv, ChatTypeOK, OutcomeType
    <2> QED BY <1>1, <2>1, <2>2, <2>3 DEF ChatInv, DraftsSound
<1>2. ASSUME NEW terms \in Terms, Give(terms) PROVE ChatInv'
    <2>1. /\ shown' = Nothing /\ ~EndsChat(shown.kind) /\ ~Busy
          /\ UNCHANGED <<user, leaving, refresh, records, job, created, board, funded>>
        BY <1>2 DEF Give, Forget, AsksForAnswer, BlocksChatInput
    <2>2. chat' \in [step : 1 .. Review, editing : {"no", "choices", "field"}, terms : Terms]
        <3>1. CASE chat.step < Review /\ chat' = [chat EXCEPT !.step = chat.step + 1, !.terms = terms]
            <4>1. chat.step \in 1 .. Review /\ chat.step + 1 \in 1 .. Review
                BY <3>1, <1>t
            <4> QED BY <3>1, <4>1, <1>t
        <3>2. CASE chat' = [chat EXCEPT !.editing = "no", !.terms = terms]
            BY <3>2, <1>t
        <3> QED BY <1>2, <3>1, <3>2 DEF Give
    <2> QED BY <2>1, <2>2, <1>t, <1>1
<1>3. CASE OpenEditChoices \/ ChooseEdit \/ CancelEdit
    BY <1>3, <1>t, <1>1 DEF OpenEditChoices, ChooseEdit, CancelEdit, Forget, BlocksChatInput
<1>4. CASE Leave \/ Stay
    BY <1>4, <1>t, <1>1 DEF Leave, Stay
<1>5. ASSUME NEW w \in Wallet \cup {NoWallet}, ChangeUser(w) PROVE ChatInv'
    <2>1. /\ user' = w /\ shown' = Pending(records, w) /\ refresh' = Nothing /\ funded' = FALSE
          /\ job' = [job EXCEPT !.session = FALSE]
          /\ leaving' \in BOOLEAN /\ UNCHANGED <<chat, records, created, board>>
        BY <1>5, <1>t DEF ChangeUser
    <2>2. /\ shown' \in OutcomeType /\ OutcomeSound(shown', w, created)
        BY <2>1, <1>t, PendingSound
    <2>3. OutcomeSound(refresh', w, created)
        BY <2>1, <1>n DEF OutcomeSound, EndsChat
    <2>4. /\ job' \in JobType /\ ~job'.session /\ job'.of = job.of /\ job'.phase = job.phase
          /\ job'.draft = job.draft /\ job'.made = job.made /\ job'.kind = job.kind
        BY <2>1, <1>t DEF JobType
    <2>5. job' # NoJob => job # NoJob
        <3>1. \A j \in JobType : ~j.session => [j EXCEPT !.session = FALSE] = j
            BY DEF JobType
        <3> QED BY <2>1, <3>1, NothingTypes
    <2>6. JobSound(job', w, records, created)
        BY <2>4, <2>5 DEF ChatInv, JobSound
    <2>7. FundedSound(funded', w, shown', job', records)
        BY <2>1 DEF FundedSound
    <2>8. ChatTypeOK'
        BY <2>1, <2>2, <2>4, <1>t, <1>n DEF ChatInv, ChatTypeOK, OutcomeType, JobType
    <2> QED BY <2>1, <2>2, <2>3, <2>4, <2>6, <2>7, <2>8 DEF ChatInv, DraftsSound
<1> QED BY <1>2, <1>3, <1>4, <1>5

(* The records of a wallet change with the job that is of it.              *)
LEMMA ChatInvJob ==
    ASSUME ChatInv,
           UNCHANGED <<user, leaving, chat, refresh, created>>, board' \in 0 .. Len(created),
           shown' \in OutcomeType, OutcomeSound(shown', user, created),
           NEW w \in Wallet, NEW r \in RecordType, r.draft.before <= Len(created),
           RecordSound(w, r, created),
           records' = [records EXCEPT ![w] = r],
           job' \in JobType, job'.draft.before <= Len(created),
           JobSound(job', user, records', created),
           funded' \in BOOLEAN, FundedSound(funded', user, shown', job', records')
    PROVE  ChatInv'
<1>t. records \in [Wallet -> RecordType]
    BY ChatInvTypes
<1>1. records' \in [Wallet -> RecordType]
    BY <1>t
<1>2. DraftsSound'
    BY <1>t DEF ChatInv, DraftsSound
<1>3. \A v \in Wallet : RecordSound(v, records'[v], created)
    BY <1>t DEF ChatInv
<1>4. ChatTypeOK'
    BY <1>1 DEF ChatInv, ChatTypeOK, OutcomeType, RecordType, JobType
<1> QED BY <1>2, <1>3, <1>4 DEF ChatInv

(* The same when the records stay.                                         *)
LEMMA ChatInvJobAlone ==
    ASSUME ChatInv,
           UNCHANGED <<user, leaving, chat, refresh, created, records>>, board' \in 0 .. Len(created),
           shown' \in OutcomeType, OutcomeSound(shown', user, created),
           job' \in JobType, job'.draft.before <= Len(created),
           JobSound(job', user, records, created),
           funded' \in BOOLEAN, FundedSound(funded', user, shown', job', records)
    PROVE  ChatInv'
<1>1. ChatTypeOK'
    BY DEF ChatInv, ChatTypeOK, OutcomeType, RecordType, JobType
<1> QED BY <1>1 DEF ChatInv, DraftsSound

(* The run of a creation or verification, to its readback.                 *)
LEMMA ChatInvRun ==
    ASSUME ChatInv,
           \/ Create \/ Fails \/ LosesSight \/ Unsuccessful \/ Approved \/ Confirmed
           \/ \E stage \in {"approval", "demand"} : SendStage(stage)
           \/ VerifyCreate
           \/ \E n \in 0 .. Len(created) : ReadsBack(n)
    PROVE  ChatInv'
<1>t. /\ user \in Wallet \cup {NoWallet} /\ leaving \in BOOLEAN /\ funded \in BOOLEAN
      /\ chat \in [step : 1 .. Review, editing : {"no", "choices", "field"}, terms : Terms]
      /\ shown \in OutcomeType /\ refresh \in OutcomeType
      /\ records \in [Wallet -> RecordType] /\ job \in JobType
      /\ created \in Seq([creator : Wallet, terms : Terms])
      /\ board \in 0 .. Len(created) /\ Len(created) \in 0 .. MaxCreated
    BY ChatInvTypes
<1>b. board \in Nat /\ Len(created) \in Nat /\ board \in 0 .. MaxCreated
    BY <1>t, ChatAssumption
<1>n. /\ NoDraft \in Draft /\ NoDraft.before = 0
      /\ NoRecordYet \in RecordType /\ Nothing \in OutcomeType /\ NoJob \in JobType
      /\ Nothing.kind = "none" /\ Nothing.id = 0
      /\ NoRecordYet.kind = "none" /\ NoRecordYet.fate = "pending" /\ NoRecordYet.draft = NoDraft
      /\ NoJob.kind = "none" /\ NoJob.phase = "unsent" /\ ~NoJob.session /\ NoJob.draft = NoDraft
    BY NothingTypes
<1>i. /\ OutcomeSound(shown, user, created) /\ JobSound(job, user, records, created)
      /\ FundedSound(funded, user, shown, job, records) /\ job.draft.before <= Len(created)
      /\ \A w \in Wallet : RecordSound(w, records[w], created) /\ records[w].draft.before <= Len(created)
    BY DEF ChatInv, DraftsSound
<1>j. JobSound(NoJob, user, records', created)
    BY <1>n DEF JobSound
<1>f. \A o, rs : FundedSound(FALSE, user, o, job', rs)
    BY DEF FundedSound
<1>o. OutcomeSound(Nothing, user, created)
    BY <1>n DEF OutcomeSound, EndsChat
<1>1. CASE Create
    <2>1. /\ job' = [kind |-> "create", of |-> user, session |-> TRUE, phase |-> "unsent",
                     draft |-> [terms |-> chat.terms, before |-> board], made |-> 0]
          /\ shown' = Nothing /\ user # NoWallet /\ ~EndsChat(shown.kind) /\ job = NoJob
          /\ UNCHANGED <<user, leaving, chat, refresh, created, records, board, funded>>
        BY <1>1 DEF Create, CanCreate, OffersCreate, MayContinue, Busy, Forget, NoJob
    <2>2. job' \in JobType /\ job'.draft.before = board
        BY <2>1, <1>t, <1>b, ChatAssumption DEF JobType, Draft
    <2>3. JobSound(job', user, records, created)
        BY <2>1, <1>t DEF JobSound
    <2>4. ~funded
        BY <2>1, <1>i, <1>n DEF FundedSound
    <2>5. FundedSound(funded', user, shown', job', records)
        BY <2>1, <2>4 DEF FundedSound
    <2> QED BY <2>1, <2>2, <2>3, <2>5, <1>t, <1>b, <1>n, <1>o, ChatInvJobAlone
<1>2. CASE Fails
    <2>1. /\ Over("failed", 0, 0, shown) /\ job # NoJob /\ job.phase # "refresh"
          /\ UNCHANGED <<user, leaving, chat, refresh, created, records, board, funded>>
        BY <1>2, <1>n DEF Fails
    <2>2. shown' \in OutcomeType /\ OutcomeSound(shown', user, created) /\ job' = NoJob
        BY <2>1, <1>t, <1>i, ChatAssumption, OverSound DEF EndsChat
    <2>3. ~funded
        BY <2>1, <1>i DEF FundedSound
    <2>4. FundedSound(funded', user, shown', job', records)
        BY <2>1, <2>3 DEF FundedSound
    <2>5. JobSound(job', user, records, created) /\ job' \in JobType /\ job'.draft.before <= Len(created)
        BY <2>1, <2>2, <1>j, <1>n, <1>b
    <2>6. board' \in 0 .. Len(created) /\ funded' \in BOOLEAN
        BY <2>1, <1>t
    <2> QED BY <2>1, <2>2, <2>4, <2>5, <2>6, ChatInvJobAlone
<1>3. ASSUME NEW stage \in {"approval", "demand"}, SendStage(stage) PROVE ChatInv'
    <2> DEFINE r == [NoRecordYet EXCEPT !.kind = "broadcast", !.stage = stage, !.draft = job.draft]
    <2>1. /\ job.kind = "create" /\ job.phase = "unsent" /\ SetRecord(job.of, r)
          /\ job' = [job EXCEPT !.phase = "sent"]
          /\ UNCHANGED <<user, leaving, chat, refresh, created, board, funded>>
        BY <1>3 DEF SendStage
    <2>2. job # NoJob /\ job.of \in Wallet
        BY <2>1, <1>n, <1>i DEF JobSound
    <2>3. r \in RecordType /\ r.draft = job.draft /\ r.fate = "pending"
        BY <1>n, <1>t DEF RecordType, JobType
    <2>4. /\ job' \in JobType /\ job'.phase = "sent" /\ job'.of = job.of /\ job'.draft = job.draft
          /\ job'.session = job.session
        BY <1>t, <2>1 DEF JobType
    <2> HIDE DEF r
    <2>5. records' = [records EXCEPT ![job.of] = r] /\ records' \in [Wallet -> RecordType]
          /\ records'[job.of] = r
        BY <2>1, <2>2, <2>3, <1>t DEF SetRecord
    <2>6. shown' \in OutcomeType /\ OutcomeSound(shown', user, created)
        BY <2>1, <2>5, <1>t, <1>i, FollowSound DEF SetRecord
    <2>7. JobSound(job', user, records', created)
        BY <2>2, <2>3, <2>4, <2>5, <1>i DEF JobSound
    <2>8. ~funded
        BY <2>1, <2>2, <1>i DEF FundedSound
    <2>9. FundedSound(funded', user, shown', job', records') /\ RecordSound(job.of, r, created)
        BY <2>1, <2>3, <2>8 DEF FundedSound, RecordSound
    <2> QED BY <2>1, <2>2, <2>3, <2>4, <2>5, <2>6, <2>7, <2>9, <1>t, <1>i, ChatInvJob
(* A run whose transaction was sent: its record is the wallet's.           *)
<1>s. ASSUME job.phase = "sent"
      PROVE  /\ job # NoJob /\ job.of \in Wallet /\ records[job.of] \in RecordType
             /\ records[job.of].draft = job.draft /\ ~funded
    <2>1. job # NoJob /\ job.of \in Wallet
        BY <1>s, <1>n, <1>i DEF JobSound
    <2>2. ~funded
        BY <1>s, <2>1, <1>i DEF FundedSound
    <2> QED BY <1>s, <2>1, <2>2, <1>t, <1>i DEF JobSound
(* It ends, and leaves the record r behind.                                *)
<1>4. ASSUME NEW r \in RecordType, NEW kind \in {"unknown", "reverted", "approval-confirmed"},
             NEW made \in 0 .. MaxCreated, job.phase = "sent",
             r.draft.before <= Len(created), RecordSound(job.of, r, created),
             records' = [records EXCEPT ![job.of] = r],
             Over(kind, made, 0, IF job.of = user THEN Follow(records', user, shown) ELSE shown),
             UNCHANGED <<user, leaving, chat, refresh, created, board, funded>>
      PROVE  ChatInv'
    <2> DEFINE follows == IF job.of = user THEN Follow(records', user, shown) ELSE shown
    <2>1. job # NoJob /\ job.of \in Wallet /\ ~funded
        BY <1>4, <1>s
    <2>2. records' \in [Wallet -> RecordType]
        BY <1>4, <1>t
    <2>3. follows \in OutcomeType /\ OutcomeSound(follows, user, created)
        BY <2>2, <1>t, <1>i, FollowSound
    <2>4. ~EndsChat(kind)
        BY DEF EndsChat
    <2>5. Over(kind, made, 0, follows)
        BY <1>4
    <2> HIDE DEF follows
    <2>6. shown' \in OutcomeType /\ OutcomeSound(shown', user, created) /\ job' = NoJob
        BY <2>1, <2>3, <2>4, <2>5, <1>t, <1>i, ChatAssumption, OverSound
    <2>7. FundedSound(funded', user, shown', job', records')
        BY <1>4, <2>1 DEF FundedSound
    <2>8. /\ JobSound(job', user, records', created) /\ job' \in JobType
          /\ job'.draft.before <= Len(created)
          /\ board' \in 0 .. Len(created) /\ funded' \in BOOLEAN
        BY <1>4, <2>6, <1>j, <1>n, <1>b, <1>t
    <2> QED BY <1>4, <2>1, <2>6, <2>7, <2>8, ChatInvJob
<1>r. NoRecordYet.draft.before <= Len(created) /\ \A w \in Wallet : RecordSound(w, NoRecordYet, created)
    BY <1>n, <1>b DEF RecordSound
<1>5. CASE LosesSight
    <2> DEFINE r == [records[job.of] EXCEPT !.kind = "unknown"]
    <2>1. /\ job.phase = "sent" /\ records' = [records EXCEPT ![job.of].kind = "unknown"]
          /\ Over("unknown", records[job.of].made, 0,
                  IF job.of = user THEN Follow(records', user, shown) ELSE shown)
          /\ UNCHANGED <<user, leaving, chat, refresh, created, board, funded>>
        BY <1>5 DEF LosesSight
    <2>2. records[job.of] \in RecordType /\ job.of \in Wallet
        BY <2>1, <1>s
    <2>3. /\ r \in RecordType /\ r.draft = records[job.of].draft /\ r.fate = records[job.of].fate
          /\ r.stage = records[job.of].stage /\ r.made = records[job.of].made
        BY <2>2 DEF RecordType
    <2>4. records' = [records EXCEPT ![job.of] = r]
        BY <2>1, <2>2, <1>t
    <2>5. r.draft.before <= Len(created) /\ RecordSound(job.of, r, created)
        BY <2>2, <2>3, <1>i DEF RecordSound
    <2>6. records[job.of].made \in 0 .. MaxCreated
        BY <2>2 DEF RecordType
    <2> HIDE DEF r
    <2> QED BY <2>1, <2>3, <2>4, <2>5, <2>6, <1>4
<1>6. CASE Unsuccessful
    <2>1. /\ job.phase = "sent" /\ records' = [records EXCEPT ![job.of] = NoRecordYet]
          /\ Over("reverted", 0, 0, IF job.of = user THEN Follow(records', user, shown) ELSE shown)
          /\ UNCHANGED <<user, leaving, chat, refresh, created, board, funded>>
        BY <1>6 DEF Unsuccessful
    <2>2. /\ NoRecordYet \in RecordType /\ RecordSound(job.of, NoRecordYet, created)
          /\ 0 \in 0 .. MaxCreated
        BY <2>1, <1>r, <1>s, <1>n, ChatAssumption
    <2> QED BY <2>1, <2>2, <1>r, <1>4
<1>7. CASE Approved
    <2>1. CASE job.kind = "create"
        <3>1. /\ job.phase = "sent" /\ SetRecord(job.of, NoRecordYet)
              /\ job' = [job EXCEPT !.phase = "unsent"]
              /\ UNCHANGED <<user, leaving, chat, refresh, created, board, funded>>
            BY <1>7, <2>1 DEF Approved
        <3>2. job # NoJob /\ job.of \in Wallet /\ ~funded
            BY <3>1, <1>s
        <3>3. /\ job' \in JobType /\ job'.phase = "unsent" /\ job'.of = job.of /\ job'.draft = job.draft
              /\ job'.session = job.session
            BY <1>t, <3>1 DEF JobType
        <3>4. /\ records' = [records EXCEPT ![job.of] = NoRecordYet]
              /\ records' \in [Wallet -> RecordType]
            BY <3>1, <3>2, <1>n, <1>t DEF SetRecord
        <3>5. shown' \in OutcomeType /\ OutcomeSound(shown', user, created)
            BY <3>1, <3>4, <1>t, <1>i, FollowSound DEF SetRecord
        <3>6. JobSound(job', user, records', created)
            BY <3>2, <3>3, <1>i DEF JobSound
        <3>7. FundedSound(funded', user, shown', job', records')
            BY <3>1, <3>2 DEF FundedSound
        <3> QED BY <3>1, <3>2, <3>3, <3>4, <3>5, <3>6, <3>7, <1>t, <1>i, <1>n, <1>r, ChatInvJob
    <2>2. CASE job.kind # "create"
        BY <1>7, <2>2, <1>r, <1>s, <1>n, <1>4, ChatAssumption DEF Approved
    <2> QED BY <2>1, <2>2
<1>8. CASE Confirmed
    <2> DEFINE made == records[job.of].made
    <2>1. /\ job.phase = "sent" /\ SetRecord(job.of, NoRecordYet)
          /\ records[job.of].fate = "success" /\ records[job.of].stage = "demand"
          /\ job' = [job EXCEPT !.phase = "refresh", !.made = made]
          /\ funded' = (funded \/ job.session)
          /\ UNCHANGED <<user, leaving, chat, refresh, created, board>>
        BY <1>8 DEF Confirmed
    <2>2. /\ job # NoJob /\ job.of \in Wallet /\ ~funded /\ records[job.of] \in RecordType
          /\ records[job.of].draft = job.draft
        BY <2>1, <1>s
    <2>3. MadeOf(created, job.of, job.draft, made) /\ made \in 0 .. MaxCreated
        BY <2>1, <2>2, <1>i DEF RecordSound, RecordType
    <2> HIDE DEF made
    <2>4. /\ job' \in JobType /\ job'.phase = "refresh" /\ job'.of = job.of /\ job'.draft = job.draft
          /\ job'.session = job.session /\ job'.made = made
        BY <1>t, <2>1, <2>3 DEF JobType
    <2>5. /\ records' = [records EXCEPT ![job.of] = NoRecordYet]
          /\ records' \in [Wallet -> RecordType] /\ records'[job.of] = NoRecordYet
        BY <2>1, <2>2, <1>n, <1>t DEF SetRecord
    <2>6. shown' \in OutcomeType /\ OutcomeSound(shown', user, created)
        BY <2>1, <2>5, <1>t, <1>i, FollowSound DEF SetRecord
    <2>7. JobSound(job', user, records', created)
        BY <2>2, <2>3, <2>4, <1>i DEF JobSound
    <2>8. FundedSound(funded', user, shown', job', records')
        <3>1. funded' => job.session /\ job.of = user
            BY <2>1, <2>2, <1>i DEF JobSound
        <3> QED BY <3>1, <2>4, <2>5, <1>n DEF FundedSound
    <2>9. funded' \in BOOLEAN
        BY <2>1, <2>2, <1>t DEF JobType
    <2>10. board' \in 0 .. Len(created) /\ job'.draft.before <= Len(created)
        BY <2>1, <2>4, <1>t, <1>i
    <2>11. NoRecordYet \in RecordType /\ RecordSound(job.of, NoRecordYet, created)
        BY <2>2, <1>n, <1>r
    <2> QED BY <2>1, <2>2, <2>4, <2>5, <2>6, <2>7, <2>8, <2>9, <2>10, <2>11, <1>r, ChatInvJob
<1>9. CASE VerifyCreate
    <2> DEFINE r == [records[user] EXCEPT !.kind = "broadcast"]
    <2>1. /\ job = NoJob /\ user \in Wallet /\ records[user].kind # "none" /\ SetRecord(user, r)
          /\ job' = [NoJob EXCEPT !.kind = "verify", !.of = user, !.session = TRUE, !.phase = "sent",
                                  !.draft = records[user].draft]
          /\ UNCHANGED <<user, leaving, chat, refresh, created, board, funded>>
        BY <1>9, <1>t DEF VerifyCreate, Busy
    <2>2. records[user] \in RecordType
        BY <2>1, <1>t
    <2>3. /\ r \in RecordType /\ r.draft = records[user].draft /\ r.fate = records[user].fate
          /\ r.stage = records[user].stage /\ r.made = records[user].made
        BY <2>2 DEF RecordType
    <2>4. /\ job' \in JobType /\ job'.phase = "sent" /\ job'.of = user /\ job'.draft = r.draft
          /\ job'.session
        BY <1>n, <2>1, <2>2, <2>3 DEF JobType, RecordType
    <2> HIDE DEF r
    <2>5. /\ records' = [records EXCEPT ![user] = r]
          /\ records' \in [Wallet -> RecordType] /\ records'[user] = r
        BY <2>1, <2>3, <1>t DEF SetRecord
    <2>6. shown' \in OutcomeType /\ OutcomeSound(shown', user, created)
        BY <2>1, <2>5, <1>t, <1>i, FollowSound DEF SetRecord
    <2>7. JobSound(job', user, records', created)
        BY <2>1, <2>4, <2>5 DEF JobSound
    <2>8. ~funded
        BY <2>1, <1>t, <1>i, <1>n, ChatAssumption DEF FundedSound
    <2>9. FundedSound(funded', user, shown', job', records') /\ RecordSound(user, r, created)
        BY <2>1, <2>3, <2>8, <1>i DEF FundedSound, RecordSound
    <2>10. /\ board' \in 0 .. Len(created) /\ job'.draft.before <= Len(created)
           /\ r.draft.before <= Len(created) /\ funded' \in BOOLEAN
        BY <2>1, <2>3, <2>4, <1>t, <1>i
    <2> QED BY <2>1, <2>3, <2>4, <2>5, <2>6, <2>7, <2>9, <2>10, ChatInvJob
<1>10. ASSUME NEW n \in 0 .. Len(created), ReadsBack(n) PROVE ChatInv'
    <2>1. /\ job.phase = "refresh" /\ board' = n
          /\ UNCHANGED <<user, leaving, chat, refresh, records, created, funded>>
          /\ \/ n >= job.made /\ Over("confirmed", job.made, Resolve(job.of, job.draft, n), shown)
             \/ Over("readback-failed", job.made, 0, shown)
        BY <1>10 DEF ReadsBack
    <2>2. job # NoJob /\ MadeOf(created, job.of, job.draft, job.made)
        BY <2>1, <1>n, <1>i DEF JobSound
    <2>3. job.made \in 0 .. MaxCreated /\ job.draft \in Draft
        BY <1>t DEF JobType
    <2>4. /\ shown' \in OutcomeType /\ OutcomeSound(shown', user, created) /\ job' = NoJob
          /\ job.session => EndsChat(shown'.kind)
        <3>1. ASSUME n >= job.made, Over("confirmed", job.made, Resolve(job.of, job.draft, n), shown)
              PROVE  /\ shown' \in OutcomeType /\ OutcomeSound(shown', user, created) /\ job' = NoJob
                     /\ job.session => shown'.kind = "confirmed"
            <4>1. job.made <= n
                BY <3>1, <2>3, <1>b
            <4>2. Resolve(job.of, job.draft, n) \in {0, job.made}
                BY <4>1, <2>2, <2>3, <1>t, ResolveIsMade
            <4> QED BY <3>1, <4>2, <2>2, <2>3, <1>t, <1>i, ChatAssumption, OverSound
        <3>2. ASSUME Over("readback-failed", job.made, 0, shown)
              PROVE  /\ shown' \in OutcomeType /\ OutcomeSound(shown', user, created) /\ job' = NoJob
                     /\ job.session => shown'.kind = "readback-failed"
            BY <3>2, <2>2, <2>3, <1>t, <1>i, ChatAssumption, OverSound
        <3> QED BY <2>1, <3>1, <3>2 DEF EndsChat
    <2>5. FundedSound(funded', user, shown', job', records')
        BY <2>1, <2>2, <2>4, <1>i DEF FundedSound
    <2>6. /\ JobSound(job', user, records, created) /\ job' \in JobType
          /\ job'.draft.before <= Len(created) /\ board' \in 0 .. Len(created) /\ funded' \in BOOLEAN
        BY <2>1, <2>4, <1>j, <1>n, <1>b, <1>t
    <2> QED BY <2>1, <2>4, <2>5, <2>6, ChatInvJobAlone
<1> QED BY <1>1, <1>2, <1>3, <1>5, <1>6, <1>7, <1>8, <1>9, <1>10

(* A later look at the board.                                              *)
LEMMA ChatInvRefresh ==
    ASSUME ChatInv,
           \/ Refresh \/ RefreshFails
           \/ \E n \in 0 .. Len(created) : Refreshes(n) \/ PollBoard(n)
    PROVE  ChatInv'
<1>t. /\ user \in Wallet \cup {NoWallet}
      /\ shown \in OutcomeType /\ refresh \in OutcomeType
      /\ created \in Seq([creator : Wallet, terms : Terms])
      /\ board \in 0 .. Len(created) /\ Len(created) \in 0 .. MaxCreated
    BY ChatInvTypes
<1>n. Nothing \in OutcomeType /\ Nothing.kind = "none" /\ Nothing.id = 0
    BY NothingTypes
<1>i. /\ OutcomeSound(shown, user, created) /\ OutcomeSound(refresh, user, created)
      /\ refresh # Nothing => EndsChat(refresh.kind)
      /\ FundedSound(funded, user, shown, job, records)
    BY DEF ChatInv
<1>o. OutcomeSound(Nothing, user, created)
    BY <1>n DEF OutcomeSound, EndsChat
<1>1. ASSUME UNCHANGED <<user, leaving, chat, records, job, created, funded>>,
             board' \in 0 .. Len(created), shown' \in OutcomeType, refresh' \in OutcomeType,
             OutcomeSound(shown', user, created), OutcomeSound(refresh', user, created),
             refresh' # Nothing => EndsChat(refresh'.kind),
             EndsChat(shown.kind) => EndsChat(shown'.kind)
      PROVE  ChatInv'
    <2>1. ChatTypeOK'
        BY <1>1 DEF ChatInv, ChatTypeOK, OutcomeType
    <2>2. FundedSound(funded, user, shown', job, records)
        BY <1>1, <1>i DEF FundedSound
    <2> QED BY <1>1, <2>1, <2>2 DEF ChatInv, DraftsSound
<1>2. CASE Refresh
    BY <1>2, <1>1, <1>t, <1>i DEF Refresh
<1>3. CASE RefreshFails
    BY <1>3, <1>1, <1>t, <1>i, <1>n, <1>o DEF RefreshFails
<1>4. ASSUME NEW n \in 0 .. Len(created), PollBoard(n) PROVE ChatInv'
    BY <1>4, <1>1, <1>t, <1>i DEF PollBoard
<1>5. ASSUME NEW n \in 0 .. Len(created), Refreshes(n) PROVE ChatInv'
    <2> DEFINE id == Resolve(refresh.of, refresh.draft, n)
    <2>1. /\ refresh # Nothing /\ n >= refresh.made /\ board' = n /\ refresh' = Nothing
          /\ shown' = IF id = 0 THEN shown ELSE [refresh EXCEPT !.kind = "confirmed", !.id = id]
          /\ UNCHANGED <<user, leaving, chat, records, job, created, funded>>
        BY <1>5 DEF Refreshes
    <2>2. /\ MadeOf(created, refresh.of, refresh.draft, refresh.made) /\ refresh.of = user
          /\ refresh.made \in 0 .. MaxCreated /\ refresh.draft \in Draft
        BY <2>1, <1>t, <1>i DEF OutcomeSound, OutcomeType
    <2>3. refresh.made <= n
        BY <2>1, <2>2, <1>t, ChatAssumption
    <2>4. id \in {0, refresh.made}
        BY <2>2, <2>3, <1>t, ResolveIsMade
    <2> HIDE DEF id
    <2>5. ASSUME id # 0
          PROVE  shown' \in OutcomeType /\ OutcomeSound(shown', user, created) /\ shown'.kind = "confirmed"
        <3>1. shown' = [refresh EXCEPT !.kind = "confirmed", !.id = refresh.made]
            BY <2>1, <2>4, <2>5
        <3>2. /\ shown' \in OutcomeType /\ shown'.kind = "confirmed" /\ shown'.of = refresh.of
              /\ shown'.draft = refresh.draft /\ shown'.made = refresh.made /\ shown'.id = refresh.made
            BY <3>1, <2>2, <1>t DEF OutcomeType
        <3> QED BY <3>2, <2>2 DEF OutcomeSound
    <2>6. shown' \in OutcomeType /\ OutcomeSound(shown', user, created)
          /\ (EndsChat(shown.kind) => EndsChat(shown'.kind))
        BY <2>1, <2>5, <1>t, <1>i DEF EndsChat
    <2> QED BY <2>1, <2>6, <1>1, <1>n, <1>o
<1> QED BY <1>2, <1>3, <1>4, <1>5

(* The chain makes demands of the wallet's records, and of others.         *)
LEMMA ChatInvChain ==
    ASSUME ChatInv, NEW w \in Wallet,
           \/ \E fate \in {"success", "failed"} : MineCreate(w, fate)
           \/ \E terms \in Terms : CreateElsewhere(w, terms)
    PROVE  ChatInv'
<1>t. /\ user \in Wallet \cup {NoWallet}
      /\ shown \in OutcomeType /\ refresh \in OutcomeType
      /\ records \in [Wallet -> RecordType] /\ job \in JobType
      /\ created \in Seq([creator : Wallet, terms : Terms])
      /\ board \in 0 .. Len(created) /\ Len(created) \in 0 .. MaxCreated
    BY ChatInvTypes
<1>i. /\ OutcomeSound(shown, user, created) /\ OutcomeSound(refresh, user, created)
      /\ JobSound(job, user, records, created)
      /\ FundedSound(funded, user, shown, job, records) /\ job.draft.before <= Len(created)
      /\ \A v \in Wallet : RecordSound(v, records[v], created) /\ records[v].draft.before <= Len(created)
    BY DEF ChatInv, DraftsSound
<1>1. ASSUME created' \in Seq([creator : Wallet, terms : Terms]),
             Len(created') \in Len(created) .. MaxCreated,
             \A v, draft, made : draft \in Draft /\ MadeOf(created, v, draft, made) =>
                                     MadeOf(created', v, draft, made),
             NEW r \in RecordType, r.draft = records[w].draft, r.kind = records[w].kind,
             RecordSound(w, r, created'),
             records' = [records EXCEPT ![w] = r],
             UNCHANGED <<user, leaving, chat, shown, refresh, job, board, funded>>
      PROVE  ChatInv'
    <2>1. /\ records' \in [Wallet -> RecordType]
          /\ \A v \in Wallet : records'[v].draft = records[v].draft /\ records'[v].kind = records[v].kind
        BY <1>1, <1>t
    <2>2. board \in 0 .. Len(created')
        BY <1>1, <1>t
    <2>3. ChatTypeOK'
        BY <1>1, <2>1, <2>2 DEF ChatInv, ChatTypeOK, OutcomeType, RecordType, JobType
    <2>4. OutcomeSound(shown, user, created') /\ OutcomeSound(refresh, user, created')
        BY <1>1, <1>t, <1>i DEF OutcomeSound, OutcomeType
    <2>5. ASSUME NEW v \in Wallet PROVE RecordSound(v, records'[v], created')
        <3>1. CASE v = w
            BY <3>1, <1>1, <1>t
        <3>2. CASE v # w
            <4>1. records'[v] = records[v] /\ records[v].draft \in Draft
                BY <3>2, <1>1, <1>t DEF RecordType
            <4> QED BY <4>1, <1>1, <1>i DEF RecordSound
        <3> QED BY <3>1, <3>2
    <2>6. JobSound(job, user, records', created')
        <3>1. job.draft \in Draft
            BY <1>t DEF JobType
        <3>2. job.phase = "sent" => job.of \in Wallet
            BY <1>i, NothingTypes DEF JobSound
        <3> QED BY <3>1, <3>2, <1>1, <1>i, <2>1 DEF JobSound
    <2>7. FundedSound(funded, user, shown, job, records')
        BY <1>i, <1>t, <2>1 DEF FundedSound
    <2>8. /\ \A v \in Wallet : records'[v].draft.before <= Len(created')
          /\ job.draft.before <= Len(created') /\ Len(created') <= MaxCreated
        <3>1. job.draft.before \in Nat /\ \A v \in Wallet : records[v].draft.before \in Nat
            BY <1>t, ChatAssumption DEF JobType, RecordType, Draft
        <3>2. Len(created) <= Len(created') /\ Len(created') \in Int /\ Len(created) \in Int
            BY <1>1, <1>t
        <3>3. \A v \in Wallet : records'[v].draft.before <= Len(created')
            BY <3>1, <3>2, <1>i, <2>1
        <3> QED BY <3>1, <3>2, <3>3, <1>1, <1>i
    <2> QED BY <1>1, <2>3, <2>4, <2>5, <2>6, <2>7, <2>8 DEF ChatInv, DraftsSound
<1>2. ASSUME NEW terms \in Terms, Len(created) < MaxCreated,
             created' = Append(created, [creator |-> w, terms |-> terms])
      PROVE  /\ created' \in Seq([creator : Wallet, terms : Terms])
             /\ Len(created') = Len(created) + 1
             /\ Len(created') \in Len(created) .. MaxCreated /\ Len(created') \in 0 .. MaxCreated
             /\ created'[Len(created')] = [creator |-> w, terms |-> terms]
             /\ \A v, draft, made : draft \in Draft /\ MadeOf(created, v, draft, made) =>
                                        MadeOf(created', v, draft, made)
    <2>1. /\ created' \in Seq([creator : Wallet, terms : Terms])
          /\ Len(created') = Len(created) + 1
          /\ created'[Len(created) + 1] = [creator |-> w, terms |-> terms]
        BY <1>2, <1>t
    <2>2. Len(created') \in Len(created) .. MaxCreated /\ Len(created') \in 0 .. MaxCreated
        BY <2>1, <1>2, <1>t, ChatAssumption
    <2> QED BY <1>2, <2>1, <2>2, <1>t, MadeOfGrows
<1>3. records[w] \in RecordType /\ records = [records EXCEPT ![w] = records[w]]
    BY <1>t
<1>4. ASSUME NEW terms \in Terms, CreateElsewhere(w, terms) PROVE ChatInv'
    <2>1. /\ Len(created) < MaxCreated
          /\ created' = Append(created, [creator |-> w, terms |-> terms])
          /\ UNCHANGED <<user, leaving, chat, shown, refresh, records, job, board, funded>>
        BY <1>4 DEF CreateElsewhere
    <2>2. /\ created' \in Seq([creator : Wallet, terms : Terms])
          /\ Len(created') \in Len(created) .. MaxCreated
          /\ \A v, draft, made : draft \in Draft /\ MadeOf(created, v, draft, made) =>
                                     MadeOf(created', v, draft, made)
        BY <2>1, <1>2
    <2>3. RecordSound(w, records[w], created')
        BY <2>2, <1>3, <1>i DEF RecordSound, RecordType
    <2> QED BY <2>1, <2>2, <2>3, <1>3, <1>1
<1>5. ASSUME NEW fate \in {"success", "failed"}, MineCreate(w, fate) PROVE ChatInv'
    <2> DEFINE terms == records[w].draft.terms
    <2>0. terms \in Terms /\ records[w].draft.before \in Nat
        BY <1>3, ChatAssumption DEF RecordType, Draft
    <2>1. CASE fate = "success" /\ records[w].stage = "demand"
        <3> DEFINE r == [records[w] EXCEPT !.fate = fate, !.made = Len(created')]
        <3>1. /\ Len(created) < MaxCreated
              /\ created' = Append(created, [creator |-> w, terms |-> terms])
              /\ records' = [records EXCEPT ![w].fate = fate, ![w].made = Len(created')]
              /\ UNCHANGED <<user, leaving, chat, shown, refresh, job, board, funded>>
            BY <1>5, <2>1 DEF MineCreate
        <3>2. /\ created' \in Seq([creator : Wallet, terms : Terms])
              /\ Len(created') = Len(created) + 1
              /\ Len(created') \in Len(created) .. MaxCreated /\ Len(created') \in 0 .. MaxCreated
              /\ created'[Len(created')] = [creator |-> w, terms |-> terms]
              /\ \A v, draft, made : draft \in Draft /\ MadeOf(created, v, draft, made) =>
                                         MadeOf(created', v, draft, made)
            BY <3>1, <1>2, <2>0
        <3>3. /\ r \in RecordType /\ r.draft = records[w].draft /\ r.kind = records[w].kind
              /\ r.made = Len(created')
            BY <1>3, <3>2 DEF RecordType
        <3>4. records' = [records EXCEPT ![w] = r]
            BY <3>1, <1>t, <1>3
        <3> HIDE DEF r
        <3>5. MadeOf(created', w, r.draft, r.made)
            BY <3>2, <3>3, <2>0, <1>t, <1>i DEF MadeOf
        <3>6. RecordSound(w, r, created')
            BY <3>5 DEF RecordSound
        <3> QED BY <3>1, <3>2, <3>3, <3>4, <3>6, <1>1
    <2>2. CASE ~(fate = "success" /\ records[w].stage = "demand")
        <3> DEFINE r == [records[w] EXCEPT !.fate = fate]
        <3>1. /\ created' = created /\ records' = [records EXCEPT ![w].fate = fate]
              /\ UNCHANGED <<user, leaving, chat, shown, refresh, job, board, funded>>
            BY <1>5, <2>2 DEF MineCreate
        <3>2. /\ r \in RecordType /\ r.draft = records[w].draft /\ r.kind = records[w].kind
              /\ r.stage = records[w].stage /\ r.fate = fate
            BY <1>3 DEF RecordType
        <3>3. records' = [records EXCEPT ![w] = r]
            BY <3>1, <1>t, <1>3
        <3> HIDE DEF r
        <3>4. RecordSound(w, r, created')
            BY <3>2, <2>2 DEF RecordSound
        <3>5. Len(created') \in Len(created) .. MaxCreated
            BY <3>1, <1>t
        <3> QED BY <3>1, <3>2, <3>3, <3>4, <3>5, <1>t, <1>1
    <2> QED BY <2>1, <2>2
<1> QED BY <1>4, <1>5

(* Every step of the page, of the wallet elsewhere and of the chain keeps  *)
(* it.                                                                     *)
LEMMA ChatInvStep == ChatInv /\ [ChatNext]_chatVars => ChatInv'
<1> SUFFICES ASSUME ChatInv, [ChatNext]_chatVars PROVE ChatInv'
    OBVIOUS
<1>1. CASE UNCHANGED chatVars
    BY <1>1 DEF chatVars, ChatInv, ChatTypeOK, DraftsSound
<1>2. CASE ChatNext
    BY <1>2, ChatInvTalk, ChatInvRun, ChatInvRefresh, ChatInvChain DEF ChatNext
<1> QED BY <1>1, <1>2

(* The outcome, the refresh, the records and the run agree with what was   *)
(* created.                                                                *)
THEOREM ChatInvariant == ChatSpec => []ChatInv
BY ChatInvInit, ChatInvStep, PTL DEF ChatSpec

(* The chat shows to a wallet only what is its own, names the demand its   *)
(* transaction made, and does not offer to fund again while a creation is  *)
(* open or after it was confirmed; for any wallets, terms and demands.     *)
THEOREM OffersOnce == ChatSpec => []OffersOnlyOnce
<1>1. ChatInv => OffersOnlyOnce
    <2> SUFFICES ASSUME ChatInv PROVE OffersOnlyOnce
        OBVIOUS
    <2>1. ChatTypeOK /\ OutcomeSound(shown, user, created) /\ FundedSound(funded, user, shown, job, records)
        BY DEF ChatInv
    <2>2. ASSUME CanCreate, MayContinue PROVE ~funded /\ records[user].kind = "none"
        <3>1. user \in Wallet /\ records \in [Wallet -> RecordType] /\ job = NoJob /\ ~EndsChat(shown.kind)
            BY <2>2, ChatInvTypes DEF CanCreate, OffersCreate, Busy, MayContinue
        <3>2. records[user].kind \notin UnresolvedKinds /\ records[user] \in RecordType
            BY <2>2, <3>1, PendingSound DEF CanCreate, OffersCreate, UnresolvedTransaction
        <3>3. ~funded
            BY <2>1, <3>1, NothingTypes DEF FundedSound
        <3> QED BY <3>2, <3>3 DEF UnresolvedKinds, RecordType
    <2> QED BY <2>1, <2>2 DEF OffersOnlyOnce, OutcomeSound
<1> QED BY <1>1, ChatInvariant, PTL

-------------------------------------------------------------------------------
(* The storage of the records.                                             *)

(* A record is of what was sent: its intent calls the token, or what its   *)
(* deed says.                                                              *)
RecordTrue(r) ==
    /\ r.intent.escrow = r.escrow
    /\ r.intent.to = IF r.stage = "approval" THEN "token" ELSE "escrow"
    /\ r.stage = "approval" => r.intent.calls = "approve"
    /\ r.stage # "approval" => r.deed = [calls |-> r.intent.calls, of |-> r.intent.of]

IntentType ==
    [to : {"token", "escrow"}, of : Nat, escrow : Escrow,
     calls : {"approve", "createDemand", "supportDemand", "approveService", "rejectService"}]

DueType == [hash : 1 .. MaxSent, intent : IntentType, stored : BOOLEAN, seen : BOOLEAN]

StorageTypeOK ==
    /\ allowed \in {"everything", "removal", "nothing"}
    /\ build \in Build
    /\ sent \in 0 .. MaxSent
    /\ \A id \in DOMAIN due : due[id] \in DueType

(* True records, one for each wallet, deployment and action.               *)
RecordsSound(rs) ==
    /\ rs \subseteq PendingRecord
    /\ \A r \in rs : RecordTrue(r)
    /\ \A r, s \in rs : RecordIdentity(r) = RecordIdentity(s) => r = s

(* Each is stored under its own key.                                       *)
ItemsSound(stored) ==
    /\ \A item \in stored :
           /\ item.key = StorageKey(item.record)
           /\ item.record \in PendingRecord /\ RecordTrue(item.record)
    /\ \A i, j \in stored : i.key = j.key => i = j

RecordIsDue(r, id, d) == RecordIdentity(r) = id /\ r.hash = d.hash /\ r.intent = d.intent

(* What was stored is among the items, and what the tab has seen it holds. *)
DueSound ==
    \A id \in DOMAIN due :
        /\ due[id].stored => \E item \in items : RecordIsDue(item.record, id, due[id])
        /\ due[id].seen => \E r \in held : RecordIsDue(r, id, due[id])
        /\ ~due[id].stored \/ ~due[id].seen => warning = "unavailable"

StorageInv == StorageTypeOK /\ RecordsSound(held) /\ ItemsSound(items) /\ DueSound

StorageSpec == StorageInit /\ [][StorageNext]_storageVars

(* The key tells records apart as their identity does.                     *)
LEMMA KeyIsIdentity ==
    \A r, s : StorageKey(r) = StorageKey(s) <=> RecordIdentity(r) = RecordIdentity(s)
BY DEF StorageKey, RecordIdentity

(* An empty storage.                                                       *)
LEMMA StorageInvInit == StorageInit => StorageInv
<1> SUFFICES ASSUME StorageInit PROVE StorageInv
    OBVIOUS
<1>1. DOMAIN due = {}
    BY DEF StorageInit
<1>2. StorageTypeOK
    BY <1>1, StorageAssumption DEF StorageInit, StorageTypeOK
<1>3. RecordsSound(held) /\ ItemsSound(items)
    BY DEF StorageInit, RecordsSound, ItemsSound
<1> QED BY <1>1, <1>2, <1>3 DEF StorageInv, DueSound

(* A record in the place of the one of its identity.                       *)
LEMMA WithRecordSound ==
    ASSUME NEW rs, RecordsSound(rs), NEW r \in PendingRecord, RecordTrue(r)
    PROVE  RecordsSound(Without(rs, r) \cup {r})
BY DEF RecordsSound, Without

(* A record is written, in memory and as far as the browser allows.        *)
LEMMA StorageInvKeep ==
    ASSUME StorageInv, NEW r \in PendingRecord, RecordTrue(r), KeepRecord(r),
           UNCHANGED <<leftover, allowed, build>>, sent' \in 0 .. MaxSent
    PROVE  StorageInv'
<1> DEFINE me == RecordIdentity(r)
           mine == [hash |-> r.hash, intent |-> r.intent, stored |-> allowed = "everything", seen |-> TRUE]
           new == [key |-> StorageKey(r), record |-> r]
<1>1. StorageTypeOK /\ RecordsSound(held) /\ ItemsSound(items) /\ DueSound
    BY DEF StorageInv
<1>2. mine \in DueType
    BY DEF PendingRecord, DueType, IntentType
<1>3. /\ DOMAIN due' = DOMAIN due \cup {me}
      /\ due'[me] = mine
      /\ \A id \in DOMAIN due \ {me} : due'[id] = due[id]
    BY DEF KeepRecord
<1>4. StorageTypeOK'
    BY <1>1, <1>2, <1>3 DEF StorageTypeOK
<1>5. RecordsSound(held')
    BY <1>1, WithRecordSound DEF KeepRecord
<1>6. ItemsSound(items')
    <2>1. CASE allowed = "everything"
        <3>1. items' = {item \in items : item.key # new.key} \cup {new}
            BY <2>1 DEF KeepRecord
        <3>2. new.key = StorageKey(new.record) /\ new.record \in PendingRecord /\ RecordTrue(new.record)
            OBVIOUS
        <3> HIDE DEF new
        <3> QED BY <3>1, <3>2, <1>1 DEF ItemsSound
    <2>2. CASE allowed # "everything"
        BY <2>2, <1>1 DEF KeepRecord
    <2> QED BY <2>1, <2>2
<1>7. DueSound'
    <2> SUFFICES ASSUME NEW id \in DOMAIN due'
                 PROVE  /\ due'[id].stored => \E item \in items' : RecordIsDue(item.record, id, due'[id])
                        /\ due'[id].seen => \E s \in held' : RecordIsDue(s, id, due'[id])
                        /\ ~due'[id].stored \/ ~due'[id].seen => warning' = "unavailable"
        BY DEF DueSound, RecordIsDue, RecordIdentity
    <2>1. CASE id = me
        <3>1. due'[id] = mine
            BY <2>1, <1>3
        <3>2. r \in held' /\ RecordIsDue(r, id, mine)
            BY <2>1 DEF KeepRecord, RecordIsDue
        <3>3. allowed = "everything" => new \in items'
            BY DEF KeepRecord
        <3>4. allowed # "everything" => warning' = "unavailable"
            BY DEF KeepRecord
        <3>5. new.record = r /\ mine.stored = (allowed = "everything") /\ mine.seen = TRUE
            OBVIOUS
        <3> HIDE DEF mine, new
        <3> QED BY <3>1, <3>2, <3>3, <3>4, <3>5
    <2>2. CASE id # me
        <3>1. id \in DOMAIN due /\ due'[id] = due[id]
            BY <2>2, <1>3
        <3>2. ASSUME due[id].stored
              PROVE  \E item \in items' : RecordIsDue(item.record, id, due[id])
            <4>1. PICK item \in items : RecordIsDue(item.record, id, due[id])
                BY <1>1, <3>1, <3>2 DEF DueSound
            <4>2. item.key # StorageKey(r)
                BY <1>1, <4>1, <2>2, KeyIsIdentity DEF ItemsSound, RecordIsDue
            <4>3. item \in items'
                BY <4>2 DEF KeepRecord
            <4> QED BY <4>1, <4>3
        <3>3. ASSUME due[id].seen
              PROVE  \E s \in held' : RecordIsDue(s, id, due[id])
            <4>1. PICK s \in held : RecordIsDue(s, id, due[id])
                BY <1>1, <3>1, <3>3 DEF DueSound
            <4>2. s \in held'
                BY <4>1, <2>2 DEF KeepRecord, Without, RecordIsDue
            <4> QED BY <4>1, <4>2
        <3>4. ~due[id].stored \/ ~due[id].seen => warning' = "unavailable"
            BY <1>1, <3>1 DEF DueSound, KeepRecord
        <3> QED BY <3>1, <3>2, <3>3, <3>4
    <2> QED BY <2>1, <2>2
<1> QED BY <1>4, <1>5, <1>6, <1>7 DEF StorageInv

(* A transaction that is sent.                                             *)
LEMMA StorageInvSend ==
    ASSUME StorageInv, NEW owner \in Owner, NEW deed \in Deed,
           NEW stage \in {"approval", "demand", "action"}, SendRecorded(owner, deed, stage)
    PROVE  StorageInv'
<1> DEFINE intent == IntentOf(deed, stage)
           r == [owner |-> owner, escrow |-> build.escrow, spelled |-> build.spelled,
                 deed |-> deed, stage |-> stage, state |-> "broadcast", hash |-> sent',
                 intent |-> intent]
<1>1. sent \in 0 .. MaxSent /\ MaxSent \in Nat /\ sent < MaxSent /\ sent' = sent + 1
    BY StorageAssumption DEF StorageInv, StorageTypeOK, SendRecorded
<1>2. sent' \in 1 .. MaxSent
    BY <1>1
<1>3. build.escrow \in Escrow /\ build.spelled \in Spelling
    BY DEF StorageInv, StorageTypeOK, Build
<1>4. deed \in [calls : {"createDemand", "supportDemand", "approveService", "rejectService"}, of : Nat]
    BY StorageAssumption
<1>5. /\ deed = [calls |-> deed.calls, of |-> deed.of] /\ deed.of \in Nat
      /\ deed.calls \in {"createDemand", "supportDemand", "approveService", "rejectService"}
    BY <1>4
<1>6. intent \in IntentType
    <2>1. CASE stage = "approval"
        BY <2>1, <1>3 DEF IntentOf, IntentType
    <2>2. CASE stage # "approval"
        BY <2>2, <1>3, <1>5 DEF IntentOf, IntentType
    <2> QED BY <2>1, <2>2
<1>7. /\ intent.escrow = build.escrow
      /\ intent.to = IF stage = "approval" THEN "token" ELSE "escrow"
      /\ stage = "approval" => intent.calls = "approve"
      /\ stage # "approval" => intent.calls = deed.calls /\ intent.of = deed.of
    BY DEF IntentOf
<1>8. KeepRecord(r) /\ UNCHANGED <<leftover, allowed, build>>
    BY DEF SendRecorded
<1> HIDE DEF intent
<1>9. r \in PendingRecord
    BY <1>2, <1>3, <1>6 DEF PendingRecord, IntentType, Spelling
<1>10. RecordTrue(r)
    BY <1>5, <1>7 DEF RecordTrue
<1>11. sent' \in 0 .. MaxSent
    BY <1>1
<1> HIDE DEF r
<1> QED BY <1>8, <1>9, <1>10, <1>11, StorageInvKeep

(* A record whose state changes, or whose transaction was replaced.        *)
LEMMA StorageInvReconsider ==
    ASSUME StorageInv, NEW r \in held, NEW state \in {"broadcast", "unknown"}, Reconsider(r, state)
    PROVE  StorageInv'
<1>1. r \in PendingRecord /\ RecordTrue(r) /\ sent \in 0 .. MaxSent /\ MaxSent \in Nat
    BY StorageAssumption DEF StorageInv, RecordsSound, StorageTypeOK
<1>2. PICK hash \in {r.hash, sent + 1} :
          /\ KeepRecord([r EXCEPT !.state = state, !.hash = hash])
          /\ hash \in 1 .. MaxSent /\ sent' \in 0 .. MaxSent
    <2>1. CASE KeepRecord([r EXCEPT !.state = state]) /\ UNCHANGED sent
        <3>1. [r EXCEPT !.state = state] = [r EXCEPT !.state = state, !.hash = r.hash]
            BY <1>1 DEF PendingRecord
        <3>2. r.hash \in 1 .. MaxSent
            BY <1>1 DEF PendingRecord
        <3> QED BY <1>1, <2>1, <3>1, <3>2
    <2>2. CASE /\ sent < MaxSent /\ sent' = sent + 1
               /\ KeepRecord([r EXCEPT !.state = state, !.hash = sent'])
        BY <1>1, <2>2
    <2> QED BY <2>1, <2>2 DEF Reconsider
<1> DEFINE s == [r EXCEPT !.state = state, !.hash = hash]
<1>3. s \in PendingRecord
    BY <1>1, <1>2 DEF PendingRecord
<1>4. RecordTrue(s)
    BY <1>1 DEF RecordTrue, PendingRecord
<1>5. KeepRecord(s) /\ UNCHANGED <<leftover, allowed, build>>
    BY <1>2 DEF Reconsider
<1> HIDE DEF s
<1> QED BY <1>2, <1>3, <1>4, <1>5, StorageInvKeep

(* A transaction that is settled.                                          *)
LEMMA StorageInvResolved ==
    ASSUME StorageInv, NEW r \in held, Resolved(r)
    PROVE  StorageInv'
<1> DEFINE me == RecordIdentity(r)
<1>1. StorageTypeOK /\ RecordsSound(held) /\ ItemsSound(items) /\ DueSound
    BY DEF StorageInv
<1>2. DropRecord(r) /\ UNCHANGED <<leftover, allowed, build, sent>>
    BY DEF Resolved
<1>3. /\ DOMAIN due' = DOMAIN due \ {me}
      /\ \A id \in DOMAIN due \ {me} : due'[id] = due[id]
    BY <1>2 DEF DropRecord
<1>4. StorageTypeOK'
    BY <1>1, <1>2, <1>3 DEF StorageTypeOK
<1>5. RecordsSound(held')
    BY <1>1, <1>2 DEF DropRecord, Without, RecordsSound
<1>6. ItemsSound(items')
    BY <1>1, <1>2 DEF DropRecord, ItemsSound
<1>7. DueSound'
    <2> SUFFICES ASSUME NEW id \in DOMAIN due'
                 PROVE  /\ due'[id].stored => \E item \in items' : RecordIsDue(item.record, id, due'[id])
                        /\ due'[id].seen => \E s \in held' : RecordIsDue(s, id, due'[id])
                        /\ ~due'[id].stored \/ ~due'[id].seen => warning' = "unavailable"
        BY DEF DueSound, RecordIsDue, RecordIdentity
    <2>1. id \in DOMAIN due /\ id # me /\ due'[id] = due[id]
        BY <1>3
    <2>2. ASSUME due[id].stored
          PROVE  \E item \in items' : RecordIsDue(item.record, id, due[id])
        <3>1. PICK item \in items : RecordIsDue(item.record, id, due[id])
            BY <1>1, <2>1, <2>2 DEF DueSound
        <3>2. item.key # StorageKey(r)
            BY <1>1, <3>1, <2>1, KeyIsIdentity DEF ItemsSound, RecordIsDue
        <3>3. item \in items'
            BY <3>2, <1>2 DEF DropRecord
        <3> QED BY <3>1, <3>3
    <2>3. ASSUME due[id].seen
          PROVE  \E s \in held' : RecordIsDue(s, id, due[id])
        <3>1. PICK s \in held : RecordIsDue(s, id, due[id])
            BY <1>1, <2>1, <2>3 DEF DueSound
        <3>2. s \in held'
            BY <3>1, <2>1, <1>2 DEF DropRecord, Without, RecordIsDue
        <3> QED BY <3>1, <3>2
    <2>4. ~due[id].stored \/ ~due[id].seen => warning' = "unavailable"
        BY <1>1, <1>2, <2>1 DEF DueSound, DropRecord
    <2> QED BY <2>1, <2>2, <2>3, <2>4
<1> QED BY <1>4, <1>5, <1>6, <1>7 DEF StorageInv

(* Each item reads as the record that was stored, with its state unknown.  *)
LEMMA ItemsReadBack ==
    ASSUME ItemsSound(items)
    PROVE  /\ Readable = items
           /\ RecordsSound(Restored)
           /\ \A item \in items : \E s \in Restored :
                  /\ RecordIdentity(s) = RecordIdentity(item.record)
                  /\ s.hash = item.record.hash /\ s.intent = item.record.intent
<1> DEFINE back(r) == [Parsed(r) EXCEPT !.state = "unknown"]
<1>1. ASSUME NEW r \in PendingRecord
      PROVE  /\ Parsed(r) \in PendingRecord /\ RecordIdentity(Parsed(r)) = RecordIdentity(r)
             /\ back(r) \in PendingRecord /\ RecordIdentity(back(r)) = RecordIdentity(r)
             /\ back(r).hash = r.hash /\ back(r).intent = r.intent
             /\ RecordTrue(r) => RecordTrue(back(r))
    BY DEF PendingRecord, Parsed, RecordIdentity, RecordTrue, Spelling
<1>2. Readable = items
    BY <1>1, KeyIsIdentity DEF Readable, ItemsSound
<1>3. Restored = {back(item.record) : item \in items}
    BY <1>2 DEF Restored
<1> HIDE DEF back
<1>4. RecordsSound(Restored)
    <2>1. \A s \in Restored : \E item \in items : s = back(item.record)
        BY <1>3
    <2>2. ASSUME NEW s \in Restored, NEW u \in Restored, RecordIdentity(s) = RecordIdentity(u)
          PROVE  s = u
        <3>1. PICK i \in items : s = back(i.record)
            BY <2>1
        <3>2. PICK j \in items : u = back(j.record)
            BY <2>1
        <3>3. i.key = j.key
            BY <2>2, <3>1, <3>2, <1>1, KeyIsIdentity DEF ItemsSound
        <3> QED BY <3>1, <3>2, <3>3 DEF ItemsSound
    <2> QED BY <2>1, <2>2, <1>1 DEF RecordsSound, ItemsSound
<1> QED BY <1>1, <1>2, <1>3, <1>4 DEF ItemsSound

(* The tab is loaded again.                                                *)
LEMMA StorageInvReload ==
    ASSUME StorageInv, NEW b \in Build, ReloadBuild(b)
    PROVE  StorageInv'
<1>1. StorageTypeOK /\ RecordsSound(held) /\ ItemsSound(items) /\ DueSound
    BY DEF StorageInv
<1> DEFINE kept == {id \in DOMAIN due : due[id].stored}
           read == allowed # "nothing"
<1>2. /\ DOMAIN due' = kept
      /\ \A id \in kept : due'[id] = [due[id] EXCEPT !.seen = read]
    BY DEF ReloadBuild
<1>3. \A id \in kept :
          /\ due'[id] \in DueType
          /\ due'[id].hash = due[id].hash /\ due'[id].intent = due[id].intent
          /\ due'[id].stored = due[id].stored /\ due'[id].seen = read
    <2> SUFFICES ASSUME NEW id \in kept
                 PROVE  /\ due'[id] \in DueType
                        /\ due'[id].hash = due[id].hash /\ due'[id].intent = due[id].intent
                        /\ due'[id].stored = due[id].stored /\ due'[id].seen = read
        OBVIOUS
    <2>1. due[id] \in DueType /\ due'[id] = [due[id] EXCEPT !.seen = read] /\ read \in BOOLEAN
        BY <1>1, <1>2 DEF StorageTypeOK
    <2> HIDE DEF kept, read
    <2> QED BY <2>1 DEF DueType
<1>4. StorageTypeOK'
    BY <1>1, <1>2, <1>3 DEF StorageTypeOK, ReloadBuild
<1>5. RecordsSound(held')
    BY <1>1, ItemsReadBack DEF ReloadBuild, RecordsSound
<1>6. ItemsSound(items') /\ items' = items
    BY <1>1 DEF ReloadBuild
<1>7. DueSound'
    <2> SUFFICES ASSUME NEW id \in DOMAIN due'
                 PROVE  /\ due'[id].stored => \E item \in items' : RecordIsDue(item.record, id, due'[id])
                        /\ due'[id].seen => \E s \in held' : RecordIsDue(s, id, due'[id])
                        /\ ~due'[id].stored \/ ~due'[id].seen => warning' = "unavailable"
        BY DEF DueSound, RecordIsDue, RecordIdentity
    <2>1. id \in DOMAIN due /\ due[id].stored /\ due'[id].stored /\ due'[id].seen = read
        BY <1>2, <1>3
    <2>2. PICK item \in items : RecordIsDue(item.record, id, due[id])
        BY <1>1, <2>1 DEF DueSound
    <2>3. RecordIsDue(item.record, id, due'[id])
        BY <2>1, <2>2, <1>3 DEF RecordIsDue
    <2>4. read => \E s \in held' : RecordIsDue(s, id, due'[id])
        <3>1. PICK s \in Restored :
                  /\ RecordIdentity(s) = RecordIdentity(item.record)
                  /\ s.hash = item.record.hash /\ s.intent = item.record.intent
            BY <1>1, <2>2, ItemsReadBack
        <3>2. RecordIsDue(s, id, due'[id])
            BY <3>1, <2>3 DEF RecordIsDue
        <3> QED BY <3>1, <3>2 DEF ReloadBuild
    <2>5. ~read => warning' = "unavailable"
        BY DEF ReloadBuild, Warning
    <2> QED BY <2>1, <2>2, <2>3, <2>4, <2>5, <1>6
<1> QED BY <1>4, <1>5, <1>6, <1>7 DEF StorageInv

(* Every step keeps it.                                                    *)
LEMMA StorageInvStep == StorageInv /\ [StorageNext]_storageVars => StorageInv'
<1> SUFFICES ASSUME StorageInv, [StorageNext]_storageVars PROVE StorageInv'
    OBVIOUS
<1>1. CASE UNCHANGED storageVars
    BY <1>1 DEF storageVars, StorageInv, StorageTypeOK, DueSound
<1>2. ASSUME NEW a \in {"everything", "removal", "nothing"}, Allow(a) PROVE StorageInv'
    BY <1>2 DEF Allow, StorageInv, StorageTypeOK, DueSound
<1> QED BY <1>1, <1>2, StorageInvSend, StorageInvResolved, StorageInvReconsider, StorageInvReload
       DEF StorageNext

(* What is stored, held and due agree.                                     *)
THEOREM StorageInductive == StorageSpec => []StorageInv
BY StorageInvInit, StorageInvStep, PTL DEF StorageSpec

(* While the fate of a transaction is open, the tab holds the one record   *)
(* of it with what was sent, after any reloads by any builds and whatever  *)
(* the browser allowed, or has warned; and none that it offers is refused  *)
(* as of something else; for any wallets, deployments and deeds.           *)
THEOREM RecordsSurvive == StorageSpec => []RestoredAsSaved
<1>1. StorageInv => RestoredAsSaved
    <2> SUFFICES ASSUME StorageInv PROVE RestoredAsSaved
        OBVIOUS
    <2>1. RecordsSound(held) /\ DueSound
        BY DEF StorageInv
    <2>2. ASSUME NEW id \in DOMAIN due, due[id].seen
          PROVE  /\ Cardinality({r \in held : RecordIdentity(r) = id}) = 1
                 /\ \E r \in held :
                        /\ RecordIdentity(r) = id
                        /\ r.hash = due[id].hash /\ r.intent = due[id].intent
        <3>1. PICK r \in held : RecordIsDue(r, id, due[id])
            BY <2>1, <2>2 DEF DueSound
        <3>2. {s \in held : RecordIdentity(s) = id} = {r}
            BY <3>1, <2>1 DEF RecordsSound, RecordIsDue
        <3>3. Cardinality({r}) = 1
            BY FS_Singleton
        <3> QED BY <3>1, <3>2, <3>3 DEF RecordIsDue
    <2>3. ASSUME NEW r \in held, Offered(r)
          PROVE  PassesChecks(r)
        <3>1. RecordTrue(r) /\ r \in PendingRecord /\ r.escrow = build.escrow
            BY <2>1, <2>3 DEF RecordsSound, Offered
        <3> QED BY <3>1 DEF RecordTrue, PassesChecks, PendingRecord
    <2>4. held \subseteq PendingRecord
        BY <2>1 DEF RecordsSound
    <2>5. \A id \in DOMAIN due : ~due[id].stored \/ ~due[id].seen => warning = "unavailable"
        BY <2>1 DEF DueSound
    <2> QED BY <2>2, <2>3, <2>4, <2>5 DEF RestoredAsSaved
<1> QED BY <1>1, StorageInductive, PTL

-------------------------------------------------------------------------------
(* The terms of a demand.                                                  *)

(* The first powers of ten, up to the n-th.                                *)
PowersUpTo(n, g) ==
    /\ DOMAIN g = 0 .. n
    /\ g[0] = 1
    /\ \A k \in 0 .. n - 1 : g[k + 1] = 10 * g[k]

(* There are powers of ten, as many as one likes.                          *)
LEMMA SomePowers == \A n \in Nat : \E g : PowersUpTo(n, g)
<1> DEFINE S == {n \in Nat : \E g : PowersUpTo(n, g)}
<1>1. 0 \in S
    <2>1. PowersUpTo(0, [k \in 0 .. 0 |-> 1])
        BY DEF PowersUpTo
    <2> QED BY <2>1
<1>2. ASSUME NEW n \in Nat, n \in S PROVE n + 1 \in S
    <2>1. PICK g : PowersUpTo(n, g)
        BY <1>2
    <2> DEFINE h == [k \in 0 .. n + 1 |-> IF k = n + 1 THEN 10 * g[n] ELSE g[k]]
    <2>2. DOMAIN h = 0 .. n + 1 /\ h[0] = 1
        BY <2>1 DEF PowersUpTo
    <2>3. ASSUME NEW k \in 0 .. n PROVE h[k + 1] = 10 * h[k]
        <3>1. h[k] = g[k] /\ k + 1 \in 0 .. n + 1
            OBVIOUS
        <3>2. CASE k = n
            BY <3>1, <3>2
        <3>3. CASE k # n
            <4>1. k \in 0 .. n - 1 /\ k + 1 # n + 1
                BY <3>3
            <4>2. g[k + 1] = 10 * g[k]
                BY <2>1, <4>1 DEF PowersUpTo
            <4> QED BY <3>1, <4>1, <4>2
        <3> QED BY <3>2, <3>3
    <2> HIDE DEF h
    <2>4. PowersUpTo(n + 1, h)
        BY <2>2, <2>3 DEF PowersUpTo
    <2> QED BY <2>4
<1> HIDE DEF S
<1>3. Nat \subseteq S
    BY <1>1, <1>2, NatSetInduction
<1> QED BY <1>3 DEF S

(* They are the same ones however many there are.                          *)
LEMMA SamePowers ==
    ASSUME NEW n \in Nat, NEW m \in Nat, NEW g, NEW h, PowersUpTo(n, g), PowersUpTo(m, h)
    PROVE  \A k \in Nat : k <= n /\ k <= m => g[k] = h[k]
<1> DEFINE S == {k \in Nat : k <= n /\ k <= m => g[k] = h[k]}
<1>1. 0 \in S
    BY DEF PowersUpTo
<1>2. ASSUME NEW k \in Nat, k \in S PROVE k + 1 \in S
    <2>1. SUFFICES ASSUME k + 1 <= n, k + 1 <= m PROVE g[k + 1] = h[k + 1]
        OBVIOUS
    <2>2. k \in 0 .. n - 1 /\ k \in 0 .. m - 1 /\ g[k] = h[k]
        BY <1>2, <2>1
    <2> QED BY <2>2 DEF PowersUpTo
<1> HIDE DEF S
<1>3. Nat \subseteq S
    BY <1>1, <1>2, NatSetInduction
<1> QED BY <1>3 DEF S

(* What defines the powers of ten is a function.                           *)
LEMMA TenIs == Ten = [k \in Nat |-> IF k = 0 THEN 1 ELSE 10 * Ten[k - 1]]
<1> DEFINE powers == [n \in Nat |-> CHOOSE g : PowersUpTo(n, g)]
           f == [n \in Nat |-> powers[n][n]]
<1>1. \A n \in Nat : PowersUpTo(n, powers[n])
    BY SomePowers
<1> HIDE DEF powers
<1>2. f[0] = 1
    BY <1>1 DEF PowersUpTo
<1>3. ASSUME NEW n \in Nat \ {0} PROVE f[n] = 10 * f[n - 1]
    <2>1. n - 1 \in Nat /\ n - 1 \in 0 .. n - 1 /\ n - 1 + 1 = n /\ n - 1 <= n
        OBVIOUS
    <2>2. powers[n][n] = 10 * powers[n][n - 1]
        <3>1. PowersUpTo(n, powers[n])
            BY <1>1
        <3>2. powers[n][n - 1 + 1] = 10 * powers[n][n - 1]
            BY <2>1, <3>1 DEF PowersUpTo
        <3> QED BY <2>1, <3>2
    <2>3. powers[n][n - 1] = powers[n - 1][n - 1]
        BY <1>1, <2>1, SamePowers
    <2> QED BY <2>1, <2>2, <2>3
<1>4. f = [k \in Nat |-> IF k = 0 THEN 1 ELSE 10 * f[k - 1]]
    <2>1. \A k \in Nat : f[k] = IF k = 0 THEN 1 ELSE 10 * f[k - 1]
        BY <1>2, <1>3
    <2>2. f = [k \in Nat |-> f[k]]
        OBVIOUS
    <2> HIDE DEF f
    <2> QED BY <2>1, <2>2
<1> HIDE DEF f
<1>5. \E t : t = [k \in Nat |-> IF k = 0 THEN 1 ELSE 10 * t[k - 1]]
    BY <1>4
<1> QED BY <1>5 DEF Ten

(* The laws of the powers of ten.                                          *)
LEMMA TenLaws ==
    /\ Ten[0] = 1
    /\ \A k \in Nat : Ten[k] \in Nat \ {0} /\ Ten[k + 1] = 10 * Ten[k]
    /\ \A a, b \in Nat : Ten[a + b] = Ten[a] * Ten[b]
<1>1. Ten[0] = 1
    BY TenIs
<1>2. \A k \in Nat : Ten[k + 1] = 10 * Ten[k]
    <2>1. ASSUME NEW k \in Nat PROVE Ten[k + 1] = 10 * Ten[k]
        <3>1. k + 1 \in Nat /\ k + 1 # 0 /\ k + 1 - 1 = k
            OBVIOUS
        <3> QED BY <3>1, TenIs
    <2> QED BY <2>1
<1>3. \A k \in Nat : Ten[k] \in Nat \ {0}
    <2> DEFINE S == {k \in Nat : Ten[k] \in Nat \ {0}}
    <2>1. 0 \in S
        BY <1>1
    <2>2. ASSUME NEW k \in Nat, k \in S PROVE k + 1 \in S
        BY <1>2, <2>2
    <2> HIDE DEF S
    <2>3. Nat \subseteq S
        BY <2>1, <2>2, NatSetInduction
    <2> QED BY <2>3 DEF S
<1>4. ASSUME NEW a \in Nat PROVE \A b \in Nat : Ten[a + b] = Ten[a] * Ten[b]
    <2> DEFINE S == {b \in Nat : Ten[a + b] = Ten[a] * Ten[b]}
    <2>1. 0 \in S
        BY <1>1, <1>3
    <2>2. ASSUME NEW b \in Nat, b \in S PROVE b + 1 \in S
        <3>1. Ten[a + (b + 1)] = 10 * Ten[a + b] /\ Ten[b + 1] = 10 * Ten[b]
            <4>1. a + b \in Nat /\ a + (b + 1) = (a + b) + 1
                OBVIOUS
            <4> QED BY <1>2, <4>1
        <3>2. PICK x \in Nat, y \in Nat : x = Ten[a] /\ y = Ten[b]
            BY <1>3
        <3>3. Ten[a + b] = x * y
            BY <2>2, <3>2
        <3>4. 10 * (x * y) = x * (10 * y)
            OBVIOUS
        <3> QED BY <3>1, <3>2, <3>3, <3>4
    <2> HIDE DEF S
    <2>3. Nat \subseteq S
        BY <2>1, <2>2, NatSetInduction
    <2> QED BY <2>3 DEF S
<1> QED BY <1>1, <1>2, <1>3, <1>4

Decimal == [value : Nat, places : Nat]

(* A factor common to both does not change a quotient.                     *)
LEMMA DivCancels ==
    ASSUME NEW a \in Nat, NEW m \in Nat \ {0}, NEW t \in Nat \ {0}
    PROVE  (t * a) \div (t * m) = a \div m
<1>1. PICK d \in Nat, r \in 0 .. m - 1 : d = a \div m /\ a = m * d + r
    BY DivFacts
<1>2. t * m \in Nat \ {0} /\ t * r \in Nat /\ t * r < t * m
    OBVIOUS
<1>3. t * a = (t * m) * d + t * r
    <2>1. (t * m) * d = t * (m * d) /\ t * (m * d + r) = t * (m * d) + t * r
        OBVIOUS
    <2> QED BY <1>1, <2>1
<1>4. t * r \in 0 .. (t * m) - 1
    BY <1>2
<1>5. ((t * m) * d + t * r) \div (t * m) = d
    BY <1>2, <1>4, DivUnique
<1> QED BY <1>1, <1>3, <1>5

(* The shortest form of a number takes off the zeros at its end, so many   *)
(* as there are after its point.                                           *)
LEMMA ShortestIs ==
    ASSUME NEW n \in Decimal
    PROVE  \E k \in 0 .. n.places, q \in Nat :
               /\ n.value = Ten[k] * q
               /\ Shortest(n) = [value |-> q, places |-> n.places - k]
               /\ k < n.places => q % 10 # 0
<1> DEFINE Good(k) == n.value % Ten[k] = 0 /\ (k < n.places => n.value % Ten[k + 1] # 0)
<1>1. n.value \in Nat /\ n.places \in Nat
    BY DEF Decimal
<1>2. \E k \in 0 .. n.places : Good(k)
    <2> SUFFICES ASSUME \A k \in 0 .. n.places : ~Good(k) PROVE FALSE
        OBVIOUS
    <2> DEFINE S == {k \in Nat : k <= n.places => n.value % Ten[k] = 0}
    <2>1. 0 \in S
        <3>1. n.value % 1 \in 0 .. 1 - 1
            BY <1>1, DivFacts
        <3> QED BY <3>1, TenLaws
    <2>2. ASSUME NEW k \in Nat, k \in S PROVE k + 1 \in S
        BY <1>1, <2>2
    <2> HIDE DEF S
    <2>3. Nat \subseteq S
        BY <2>1, <2>2, NatSetInduction
    <2>4. n.value % Ten[n.places] = 0
        BY <1>1, <2>3 DEF S
    <2> QED BY <1>1, <2>4
<1> DEFINE c == CHOOSE k \in 0 .. n.places : Good(k)
<1>3. c \in 0 .. n.places /\ Good(c)
    BY <1>2
<1>4. Shortest(n) = [value |-> n.value \div Ten[c], places |-> n.places - c]
    BY DEF Shortest
<1> HIDE DEF c
<1>5. PICK k \in 0 .. n.places : k = c
    BY <1>3
<1>6. k \in Nat /\ Ten[k] \in Nat \ {0} /\ Ten[k + 1] \in Nat \ {0} /\ Ten[k + 1] = 10 * Ten[k]
    <2>1. k \in Nat /\ k + 1 \in Nat
        BY <1>1
    <2> QED BY <2>1, TenLaws
<1>7. PICK q \in Nat : q = n.value \div Ten[k]
    BY <1>1, <1>6, DivFacts
<1>8. n.value = Ten[k] * q
    <2>1. n.value = Ten[k] * q + (n.value % Ten[k])
        BY <1>1, <1>6, <1>7, DivFacts
    <2>2. Ten[k] * q \in Nat
        BY <1>6
    <2> QED BY <1>3, <1>5, <2>1, <2>2
<1>9. ASSUME k < n.places PROVE q % 10 # 0
    <2> SUFFICES ASSUME q % 10 = 0 PROVE FALSE
        OBVIOUS
    <2>1. PICK r \in Nat : q = 10 * r
        <3>1. q = 10 * (q \div 10) + (q % 10) /\ q \div 10 \in Nat
            BY DivFacts
        <3> QED BY <3>1
    <2>2. PICK t \in Nat \ {0} : t = Ten[k]
        BY <1>6
    <2>3. t * (10 * r) = (10 * t) * r + 0
        OBVIOUS
    <2>4. n.value = Ten[k + 1] * r + 0
        BY <1>6, <1>8, <2>1, <2>2, <2>3
    <2>5. n.value % Ten[k + 1] = 0
        <3>1. PICK m \in Nat \ {0} : m = Ten[k + 1]
            BY <1>6
        <3>2. 0 \in 0 .. m - 1
            OBVIOUS
        <3>3. (m * r + 0) % m = 0
            BY <3>2, DivUnique
        <3> QED BY <2>4, <3>1, <3>3
    <2> QED BY <1>3, <1>5, <1>9, <2>5
<1> QED BY <1>4, <1>5, <1>7, <1>8, <1>9

(* It is the same number, of the same worth and the same time, and has no  *)
(* shorter form.                                                           *)
LEMMA ShortestKeeps ==
    ASSUME NEW n \in Decimal
    PROVE  LET s == Shortest(n)
           IN  /\ s \in Decimal /\ s.places <= n.places
               /\ Same(s, n) /\ Seconds(s) = Seconds(n) /\ Shortest(s) = s
               /\ \A f : Places(f) \in Nat /\ n.places <= Places(f) => Amount(f, s) = Amount(f, n)
               /\ s.value > 0 <=> n.value > 0
               /\ s.value <= 3650 * Ten[s.places] <=> n.value <= 3650 * Ten[n.places]
<1> DEFINE s == Shortest(n)
<1>1. PICK k \in 0 .. n.places, q \in Nat :
          /\ n.value = Ten[k] * q
          /\ s = [value |-> q, places |-> n.places - k]
          /\ k < n.places => q % 10 # 0
    BY ShortestIs
<1> HIDE DEF s
<1>2. /\ n.value \in Nat /\ n.places \in Nat /\ k \in Nat /\ n.places - k \in Nat
      /\ n.places = k + (n.places - k)
    BY DEF Decimal
<1>3. s \in Decimal /\ s.value = q /\ s.places = n.places - k /\ s.places <= n.places
    BY <1>1, <1>2 DEF Decimal
<1>4. PICK t \in Nat \ {0}, p \in Nat \ {0} : t = Ten[k] /\ p = Ten[n.places - k]
    BY <1>2, TenLaws
<1>5. Ten[n.places] = t * p /\ Ten[s.places] = p /\ n.value = t * q
    <2>1. Ten[k + (n.places - k)] = Ten[k] * Ten[n.places - k]
        BY <1>2, TenLaws
    <2>2. Ten[n.places] = t * p
        BY <1>2, <1>4, <2>1
    <2>3. Ten[s.places] = p
        BY <1>3, <1>4
    <2>4. n.value = t * q
        BY <1>1, <1>4
    <2> QED BY <2>2, <2>3, <2>4
<1>6. Same(s, n)
    <2>1. q * (t * p) = (t * q) * p
        OBVIOUS
    <2> QED BY <1>3, <1>5, <2>1 DEF Same
<1>7. Seconds(s) = Seconds(n)
    <2>1. (t * (q * 86400)) \div (t * p) = (q * 86400) \div p
        BY DivCancels
    <2>2. t * (q * 86400) = (t * q) * 86400
        OBVIOUS
    <2> QED BY <1>3, <1>5, <2>1, <2>2 DEF Seconds
<1>8. ASSUME NEW f, Places(f) \in Nat, n.places <= Places(f) PROVE Amount(f, s) = Amount(f, n)
    <2>1. /\ Places(f) - n.places \in Nat
          /\ Places(f) - s.places = (Places(f) - n.places) + k
        BY <1>2, <1>3, <1>8
    <2>2. PICK a \in Nat \ {0} : a = Ten[Places(f) - n.places]
        BY <2>1, TenLaws
    <2>3. Ten[Places(f) - s.places] = a * t
        <3>1. Ten[(Places(f) - n.places) + k] = Ten[Places(f) - n.places] * Ten[k]
            BY <1>2, <2>1, TenLaws
        <3> QED BY <1>4, <2>1, <2>2, <3>1
    <2>4. q * (a * t) = (t * q) * a
        OBVIOUS
    <2> QED BY <1>3, <1>5, <2>2, <2>3, <2>4 DEF Amount
<1>9. q > 0 <=> t * q > 0
    OBVIOUS
<1>10. q <= 3650 * p <=> t * q <= 3650 * (t * p)
    <2>1. 3650 * (t * p) = t * (3650 * p) /\ 3650 * p \in Nat
        OBVIOUS
    <2>2. PICK b \in Nat : b = 3650 * p
        BY <2>1
    <2>3. q <= b => t * q <= t * b
        OBVIOUS
    <2>4. b < q => t * b + t <= t * q
        BY MultiplesApart
    <2> QED BY <2>1, <2>2, <2>3, <2>4
<1>11. Shortest(s) = s
    <2>1. PICK j \in 0 .. s.places, r \in Nat :
              /\ s.value = Ten[j] * r
              /\ Shortest(s) = [value |-> r, places |-> s.places - j]
        BY <1>3, ShortestIs
    <2>2. s.places \in Nat /\ j \in Nat
        BY <1>2, <1>3
    <2>3. CASE j = 0
        <3>1. Ten[j] = 1 /\ 1 * r = r
            BY <2>3, TenLaws
        <3>2. s.value = r /\ s.places - j = s.places
            BY <2>1, <2>2, <2>3, <3>1
        <3>3. r = q /\ s.places - j = n.places - k
            BY <1>3, <3>2
        <3> QED BY <1>1, <2>1, <3>3
    <2>4. CASE j # 0
        <3>1. j - 1 \in Nat /\ (j - 1) + 1 = j /\ k < n.places
            BY <1>2, <1>3, <2>2, <2>4
        <3>2. PICK x \in Nat \ {0} : x = Ten[j - 1]
            BY <3>1, TenLaws
        <3>3. Ten[j] = 10 * x
            BY <3>1, <3>2, TenLaws
        <3>4. (10 * x) * r = 10 * (x * r) + 0 /\ x * r \in Nat
            OBVIOUS
        <3>5. (10 * (x * r) + 0) % 10 = 0
            <4>1. PICK y \in Nat : y = x * r
                BY <3>4
            <4> QED BY <4>1, DivUnique
        <3>6. q = (10 * x) * r
            BY <1>3, <2>1, <3>3
        <3>7. q % 10 # 0
            BY <1>1, <3>1
        <3> QED BY <3>4, <3>5, <3>6, <3>7
    <2> QED BY <2>3, <2>4
<1> QED BY <1>3, <1>5, <1>6, <1>7, <1>8, <1>9, <1>10, <1>11 DEF s

(* A sum in the contract's units is the number it was made of.             *)
LEMMA AmountIsSame ==
    ASSUME NEW n \in Decimal, NEW f, Places(f) \in Nat, n.places <= Places(f)
    PROVE  Same([value |-> Amount(f, n), places |-> Places(f)], n)
<1>1. n.value \in Nat /\ n.places \in Nat /\ Places(f) - n.places \in Nat
      /\ Places(f) = (Places(f) - n.places) + n.places
    BY DEF Decimal
<1>2. PICK a \in Nat, b \in Nat : a = Ten[Places(f) - n.places] /\ b = Ten[n.places]
    BY <1>1, TenLaws
<1>3. Ten[Places(f)] = a * b
    <2>1. Ten[(Places(f) - n.places) + n.places] = Ten[Places(f) - n.places] * Ten[n.places]
        BY <1>1, TenLaws
    <2> QED BY <1>1, <1>2, <2>1
<1>4. PICK v \in Nat : v = n.value
    BY <1>1
<1>5. (v * a) * b = v * (a * b)
    OBVIOUS
<1> QED BY <1>2, <1>3, <1>4, <1>5 DEF Same, Amount

TextFields == {"capability", "specification"}
AmountFields == {"maxPrice", "expectedCalls", "commitment"}

(* When a field is asked for.                                              *)
Turn(f) ==
    CASE f = "capability" -> 1
      [] f = "specification" -> 2
      [] f \in {"maxPrice", "expectedCalls"} -> 3
      [] f = "commitment" -> 4
      [] f = "deadlineDays" -> 5

(* Each field is asked for once.                                           *)
LEMMA Turns ==
    /\ Len(Conversation) = 5 /\ \A f \in Field : Turn(f) \in 1 .. 5
    /\ \A i \in 1 .. 5 : Conversation[i] \subseteq Field
    /\ \A i \in 1 .. 5, f \in Field : f \in Conversation[i] <=> Turn(f) = i
<1>1. Len(Conversation) = 5 /\ \A f \in Field : Turn(f) \in 1 .. 5
    BY DEF Conversation, Turn, Field
<1>2. /\ Conversation[1] = {"capability"} /\ Conversation[2] = {"specification"}
      /\ Conversation[3] = {"maxPrice", "expectedCalls"}
      /\ Conversation[4] = {"commitment"} /\ Conversation[5] = {"deadlineDays"}
    BY DEF Conversation
<1>3. \A i \in 1 .. 5 : i = 1 \/ i = 2 \/ i = 3 \/ i = 4 \/ i = 5
    OBVIOUS
<1> QED BY <1>1, <1>2, <1>3 DEF Turn, Field

(* What was typed for a field and is kept: an accepted answer, as it is    *)
(* kept.                                                                   *)
AnswerSound(f) ==
    /\ typed[f] \in TextOf(f) /\ Accepted(f, typed[f])
    /\ answers[f] = Kept(f, typed[f])

SentByChat ==
    /\ InReview /\ call.by = "chat"
    /\ call.capability = [answers["capability"] EXCEPT !.styled = FALSE]
    /\ call.specification = answers["specification"]
    /\ \A f \in AmountFields : call[f] = Amount(f, answers[f])
    /\ call.duration = Seconds(answers["deadlineDays"])

SentByAgent == asked = 1 /\ call.by = "agent" /\ InputAccepted(call) /\ Preparable(call)

TermsInv ==
    /\ asked \in 1 .. 6
    /\ answers = [f \in Field |-> answers[f]] /\ typed = [f \in Field |-> typed[f]]
    /\ \A f \in Field : IF asked > Turn(f) THEN AnswerSound(f) ELSE typed[f] = NoText
    /\ call # NoCall => SentByChat \/ SentByAgent

TermsSpec == TermsInit /\ [][TermsNext]_termsVars

(* What is accepted is a number, and so is what is kept of it, which is    *)
(* the same; or it is a text, of which the word is kept.                   *)
LEMMA KeptIs ==
    ASSUME NEW f \in Field, NEW t \in TextOf(f), Accepted(f, t)
    PROVE  /\ Accepted(f, Kept(f, t)) /\ Kept(f, Kept(f, t)) = Kept(f, t)
           /\ f \notin TextFields => /\ t \in Decimal /\ Kept(f, t) = Shortest(t)
                                     /\ Same(Kept(f, t), t)
           /\ f \in AmountFields => /\ Amount(f, Kept(f, t)) = Amount(f, t)
                                    /\ Amount(f, t) \in 1 .. Limit(f)
                                    /\ Places(f) \in Nat /\ t.places <= Places(f)
           /\ f = "deadlineDays" => Seconds(Kept(f, t)) = Seconds(t)
<1>1. CASE f \in TextFields
    <2>1. t \in Texts /\ t.word \in LawfulWord
        BY <1>1 DEF TextFields, TextOf, Accepted
    <2>2. [t EXCEPT !.styled = FALSE].word = t.word
          /\ [[t EXCEPT !.styled = FALSE] EXCEPT !.styled = FALSE] = [t EXCEPT !.styled = FALSE]
        BY <2>1 DEF Texts
    <2> QED BY <1>1, <2>1, <2>2 DEF TextFields, AmountFields, Accepted, Kept
<1>2. CASE f \notin TextFields
    <2>1. t \in Decimal /\ Kept(f, t) = Shortest(t) /\ Kept(f, Shortest(t)) = Shortest(Shortest(t))
        BY <1>2, TermsAssumption DEF TextFields, TextOf, Decimal, Kept
    <2>2. PICK s : s = Shortest(t)
        OBVIOUS
    <2>3. /\ s \in Decimal /\ s.places <= t.places /\ Same(s, t) /\ Seconds(s) = Seconds(t)
          /\ Shortest(s) = s
          /\ \A g : Places(g) \in Nat /\ t.places <= Places(g) => Amount(g, s) = Amount(g, t)
          /\ s.value > 0 <=> t.value > 0
          /\ s.value <= 3650 * Ten[s.places] <=> t.value <= 3650 * Ten[t.places]
        BY <2>1, <2>2, ShortestKeeps
    <2>4. CASE f = "deadlineDays"
        BY <2>1, <2>2, <2>3, <2>4 DEF Accepted, DeadlineAccepted, AmountFields
    <2>5. CASE f \in AmountFields
        <3>1. Places(f) \in Nat
            BY TermsAssumption DEF Places
        <3>2. AmountAccepted(f, t)
            BY <2>5 DEF AmountFields, Accepted
        <3>3. t.places \in Nat /\ s.places \in Nat /\ t.places <= Places(f)
            BY <2>1, <2>3, <3>2 DEF Decimal, AmountAccepted
        <3>4. s.places <= Places(f) /\ Amount(f, s) = Amount(f, t)
            BY <2>3, <3>1, <3>3
        <3>5. AmountAccepted(f, s)
            BY <3>2, <3>4 DEF AmountAccepted
        <3>6. Accepted(f, s)
            BY <2>5, <3>5 DEF AmountFields, Accepted
        <3>7. Amount(f, t) \in 1 .. Limit(f)
            BY <3>2 DEF AmountAccepted
        <3> QED BY <2>1, <2>2, <2>3, <2>5, <3>1, <3>3, <3>4, <3>6, <3>7 DEF AmountFields
    <2> QED BY <1>2, <2>4, <2>5 DEF Field, TextFields, AmountFields
<1> QED BY <1>1, <1>2

(* Answers that were accepted are valid as they are kept.                  *)
LEMMA ReviewedIsValid ==
    ASSUME TermsInv, InReview
    PROVE  /\ asked = 6 /\ \A f \in Field : AnswerSound(f)
           /\ Valid(answers) /\ \A f \in Field : Edited(f, answers[f]) = answers
<1>1. asked = 6 /\ \A f \in Field : AnswerSound(f)
    <2>1. asked = 6
        BY Turns DEF TermsInv, InReview
    <2> QED BY <2>1, Turns DEF TermsInv
<1>2. \A f \in Field : Accepted(f, answers[f]) /\ Kept(f, answers[f]) = answers[f]
    BY <1>1, KeptIs DEF AnswerSound
<1>3. ASSUME NEW f \in Field PROVE Edited(f, answers[f]) = answers
    <2>1. answers = [g \in Field |-> answers[g]]
        BY DEF TermsInv
    <2>2. [answers EXCEPT ![f] = answers[f]] = answers
        BY <2>1
    <2> QED BY <1>2, <2>2 DEF Edited
<1> QED BY <1>1, <1>2, <1>3 DEF Valid

(* Before the first question.                                              *)
LEMMA TermsInvInit == TermsInit => TermsInv
<1> SUFFICES ASSUME TermsInit PROVE TermsInv
    OBVIOUS
<1>1. \A f \in Field : ~(1 > Turn(f))
    BY Turns
<1> QED BY <1>1 DEF TermsInit, TermsInv

(* A reply adds the fields of the step.                                    *)
LEMMA ReplyKeeps == ASSUME TermsInv, NEW texts, Reply(texts) PROVE TermsInv'
<1>1. asked \in 1 .. 5 /\ call = NoCall /\ call' = call /\ asked' = asked + 1
    BY Turns DEF TermsInv, Reply, InReview
<1>2. /\ answers' = [f \in Field |-> IF f \in Conversation[asked] THEN Kept(f, texts[f]) ELSE answers[f]]
      /\ typed' = [f \in Field |-> IF f \in Conversation[asked] THEN texts[f] ELSE typed[f]]
      /\ \A f \in Conversation[asked] : texts[f] \in TextOf(f) /\ Accepted(f, texts[f])
    BY DEF Reply
<1>3. answers' = [f \in Field |-> answers'[f]] /\ typed' = [f \in Field |-> typed'[f]]
    BY <1>2
<1>4. ASSUME NEW f \in Field
      PROVE  IF asked + 1 > Turn(f) THEN AnswerSound(f)' ELSE typed'[f] = NoText
    <2>1. /\ Turn(f) \in 1 .. 5 /\ (f \in Conversation[asked] <=> Turn(f) = asked)
        BY <1>1, Turns
    <2>2. CASE Turn(f) = asked
        BY <1>1, <1>2, <2>1, <2>2 DEF AnswerSound
    <2>3. CASE Turn(f) # asked
        <3>1. answers'[f] = answers[f] /\ typed'[f] = typed[f]
            BY <1>2, <2>1, <2>3
        <3>2. asked + 1 > Turn(f) <=> asked > Turn(f)
            BY <1>1, <2>1, <2>3
        <3> QED BY <3>1, <3>2 DEF TermsInv, AnswerSound
    <2> QED BY <2>2, <2>3
<1> QED BY <1>1, <1>3, <1>4 DEF TermsInv

(* An edit replaces one field's answer, or changes nothing.                *)
LEMMA EditKeeps ==
    ASSUME TermsInv, NEW f \in Field, NEW t \in TextOf(f), Edit(f, t)
    PROVE  TermsInv'
<1>1. /\ call = NoCall /\ call' = call /\ asked' = asked /\ InReview
      /\ answers' = Edited(f, t)
      /\ typed' = IF Accepted(f, t) /\ Valid(answers') THEN [typed EXCEPT ![f] = t] ELSE typed
    BY DEF Edit
<1>2. asked = 6 /\ Valid(answers) /\ \A g \in Field : AnswerSound(g)
    BY <1>1, ReviewedIsValid
<1>3. answers = [g \in Field |-> answers[g]] /\ typed = [g \in Field |-> typed[g]]
    BY DEF TermsInv
<1>4. CASE Accepted(f, t)
    <2> DEFINE next == [answers EXCEPT ![f] = Kept(f, t)]
    <2>1. \A g \in Field : next[g] = IF g = f THEN Kept(f, t) ELSE answers[g]
        BY <1>3
    <2>2. Valid(next)
        BY <1>2, <1>4, <2>1, KeptIs DEF Valid
    <2>3. answers' = next /\ typed' = [typed EXCEPT ![f] = t]
        BY <1>1, <1>4, <2>2 DEF Edited
    <2>4. ASSUME NEW g \in Field PROVE AnswerSound(g)'
        <3>1. CASE g = f
            BY <1>3, <1>4, <2>3, <3>1 DEF AnswerSound
        <3>2. CASE g # f
            BY <1>2, <1>3, <2>3, <3>2 DEF AnswerSound
        <3> QED BY <3>1, <3>2
    <2>5. answers' = [g \in Field |-> answers'[g]] /\ typed' = [g \in Field |-> typed'[g]]
        BY <1>3, <2>3
    <2> QED BY <1>1, <1>2, <2>4, <2>5, Turns DEF TermsInv
<1>5. CASE ~Accepted(f, t)
    <2>1. answers' = answers /\ typed' = typed
        BY <1>1, <1>5 DEF Edited
    <2> QED BY <1>1, <2>1 DEF TermsInv, AnswerSound
<1> QED BY <1>4, <1>5

(* The call is made of the answers, or is the agent's.                     *)
LEMMA CallKeeps ==
    ASSUME TermsInv,
           \/ CreateCall
           \/ \E input : /\ Prepare(input) /\ input.by = "agent"
                         /\ input = [by |-> input.by, capability |-> input.capability,
                                specification |-> input.specification,
                                maxPrice |-> input.maxPrice,
                                expectedCalls |-> input.expectedCalls,
                                commitment |-> input.commitment, duration |-> input.duration]
                         /\ input.specification \in Texts
    PROVE  TermsInv'
<1>1. asked' = asked /\ answers' = answers /\ typed' = typed
    BY DEF CreateCall, Prepare
<1>2. SentByChat' \/ SentByAgent'
    <2>1. CASE CreateCall
        <3>1. SentByChat'
            BY <1>1, <2>1 DEF CreateCall, SentByChat, InReview, AmountFields
        <3> QED BY <3>1
    <2>2. ASSUME NEW input, Prepare(input), input.by = "agent",
                 input = [by |-> input.by, capability |-> input.capability,
                     specification |-> input.specification, maxPrice |-> input.maxPrice,
                     expectedCalls |-> input.expectedCalls,
                     commitment |-> input.commitment, duration |-> input.duration],
                 input.specification \in Texts
          PROVE  SentByAgent'
        <3>1. /\ asked = 1 /\ InputAccepted(input) /\ Preparable(input)
              /\ call' = [input EXCEPT !.specification.styled = FALSE]
            BY <2>2 DEF Prepare
        <3>2. /\ call'.by = input.by /\ call'.capability = input.capability
              /\ call'.specification.word = input.specification.word
              /\ call'.maxPrice = input.maxPrice /\ call'.expectedCalls = input.expectedCalls
              /\ call'.commitment = input.commitment /\ call'.duration = input.duration
            BY <2>2, <3>1 DEF Texts
        <3>3. InputAccepted(call') /\ Preparable(call')
            BY <3>1, <3>2 DEF InputAccepted, Preparable
        <3> QED BY <1>1, <2>2, <3>1, <3>2, <3>3 DEF SentByAgent, InputAccepted, Preparable
    <2> QED BY <2>1, <2>2
<1> QED BY <1>1, <1>2 DEF TermsInv, AnswerSound

(* Every step keeps the invariant.                                         *)
LEMMA TermsInvStep == TermsInv /\ [TermsNext]_termsVars => TermsInv'
<1> SUFFICES ASSUME TermsInv, [TermsNext]_termsVars PROVE TermsInv'
    OBVIOUS
<1>1. ASSUME NEW t \in Texts, NEW f \in TextFields, Edit(f, t) PROVE TermsInv'
    <2>1. f \in Field /\ t \in TextOf(f)
        BY DEF TextFields, Field, TextOf
    <2> QED BY <1>1, <2>1, EditKeeps
<1>2. ASSUME NEW n \in Number, NEW f \in Field \ TextFields, Edit(f, n) PROVE TermsInv'
    <2>1. n \in TextOf(f)
        BY DEF TextFields, TextOf
    <2> QED BY <1>2, <2>1, EditKeeps
<1>3. ASSUME NEW capability \in Texts, NEW specification \in Texts, NEW price \in 0 .. 2,
             NEW calls \in 0 .. 2, NEW commitment \in 0 .. 2, NEW hours \in 0 .. 2,
             Prepare([by |-> "agent", capability |-> capability,
                      specification |-> specification, maxPrice |-> price,
                      expectedCalls |-> calls, commitment |-> commitment,
                      duration |-> hours * Hour])
      PROVE  TermsInv'
    BY <1>3, CallKeeps
<1>4. ASSUME MinutePasses \/ UNCHANGED termsVars PROVE TermsInv'
    <2>1. asked' = asked /\ answers' = answers /\ typed' = typed /\ call' = call
        BY <1>4 DEF MinutePasses, termsVars
    <2> QED BY <2>1 DEF TermsInv, AnswerSound, SentByChat, SentByAgent, InReview
<1>5. CASE CreateCall
    BY <1>5, CallKeeps
<1>6. CASE \E t \in Texts : \E f \in {"capability", "specification"} : Reply(f :> t) \/ Edit(f, t)
    BY <1>1, <1>6, ReplyKeeps DEF TextFields
<1>7. CASE \E n \in Number :
               \/ \E f \in {"commitment", "deadlineDays"} : Reply(f :> n)
               \/ \E m \in Number : Reply("maxPrice" :> n @@ "expectedCalls" :> m)
               \/ \E f \in {"maxPrice", "expectedCalls", "commitment", "deadlineDays"} : Edit(f, n)
    <2>1. {"maxPrice", "expectedCalls", "commitment", "deadlineDays"} = Field \ TextFields
        BY DEF Field, TextFields
    <2> QED BY <1>2, <1>7, <2>1, ReplyKeeps
<1> QED BY <1>3, <1>4, <1>5, <1>6, <1>7 DEF TermsNext

(* The strengthened invariant of the terms.                                *)
THEOREM TermsInductive == TermsSpec => []TermsInv
BY TermsInvInit, TermsInvStep, PTL DEF TermsSpec

(* The terms of a call are those that were typed, and lawful.              *)
LEMMA CallIsTrue ==
    ASSUME TermsInv, call # NoCall
    PROVE  /\ \/ /\ call.by = "chat" /\ \A f \in Field : AnswerSound(f)
                 /\ SentByChat
              \/ /\ call.by = "agent" /\ \A f \in Field : typed[f] = NoText
                 /\ call.commitment >= MinCommitment
           /\ TextsAreLawful
           /\ \A f \in AmountFields : call[f] \in 1 .. Limit(f)
<1>1. CASE SentByChat
    <2>1. \A f \in Field : AnswerSound(f)
        BY <1>1, ReviewedIsValid DEF SentByChat
    <2>2. /\ "capability" \in Field /\ "specification" \in Field /\ AmountFields \subseteq Field
        BY DEF Field, AmountFields
    <2>3. TextsAreLawful
        <3>1. /\ typed["capability"] \in Texts /\ typed["specification"] \in Texts
              /\ typed["capability"].word \in LawfulWord
              /\ typed["specification"].word \in LawfulWord
              /\ answers["capability"] = typed["capability"]
              /\ answers["specification"] = [typed["specification"] EXCEPT !.styled = FALSE]
            BY <2>1, <2>2 DEF AnswerSound, TextOf, Accepted, Kept
        <3> QED BY <1>1, <3>1 DEF SentByChat, TextsAreLawful, Texts
    <2>4. \A f \in AmountFields : call[f] \in 1 .. Limit(f)
        BY <1>1, <2>1, <2>2, KeptIs DEF SentByChat, AnswerSound
    <2> QED BY <1>1, <2>1, <2>3, <2>4 DEF SentByChat
<1>2. CASE SentByAgent
    <2>1. \A f \in Field : typed[f] = NoText
        BY <1>2, Turns DEF SentByAgent, TermsInv
    <2> QED BY <1>2, <2>1 DEF SentByAgent, InputAccepted, Preparable, TextsAreLawful, AmountFields
<1> QED BY <1>1, <1>2 DEF TermsInv

(* What the user meant is what is kept and what is sent.                   *)
LEMMA TermsStay == TermsInv => TermsAreKept
<1> SUFFICES ASSUME TermsInv PROVE TermsAreKept
    OBVIOUS
<1>1. ASSUME NEW f \in Field \ TextFields, typed[f] # NoText
      PROVE  /\ Same(answers[f], typed[f])
             /\ call # NoCall /\ f # "deadlineDays" =>
                    Same([value |-> call[f], places |-> Places(f)], typed[f])
    <2>1. AnswerSound(f)
        BY <1>1 DEF TermsInv
    <2>2. Same(answers[f], typed[f]) /\ typed[f] \in Decimal
        BY <2>1, KeptIs DEF AnswerSound
    <2>3. ASSUME call # NoCall, f # "deadlineDays"
          PROVE  Same([value |-> call[f], places |-> Places(f)], typed[f])
        <3>1. f \in AmountFields
            BY <2>3 DEF Field, TextFields, AmountFields
        <3>2. SentByChat
            BY <1>1, <2>3, CallIsTrue
        <3>3. call[f] = Amount(f, typed[f]) /\ Places(f) \in Nat /\ typed[f].places <= Places(f)
            BY <2>1, <3>1, <3>2, KeptIs DEF SentByChat, AnswerSound
        <3> QED BY <2>2, <3>3, AmountIsSame
    <2> QED BY <2>2, <2>3
<1>2. InReview => Valid(answers) /\ \A f \in Field : Edited(f, answers[f]) = answers
    BY ReviewedIsValid
<1>3. ASSUME call # NoCall, typed["specification"] # NoText
      PROVE  /\ call.duration = Seconds(typed["deadlineDays"])
             /\ call.capability.word = typed["capability"].word
             /\ call.specification = [word |-> typed["specification"].word, styled |-> FALSE]
    <2>1. {"capability", "specification", "deadlineDays"} \subseteq Field
        BY DEF Field
    <2>2. SentByChat /\ \A f \in Field : AnswerSound(f)
        BY <1>3, <2>1, CallIsTrue
    <2>3. call.duration = Seconds(typed["deadlineDays"])
        <3>1. /\ AnswerSound("deadlineDays") /\ typed["deadlineDays"] \in TextOf("deadlineDays")
              /\ Accepted("deadlineDays", typed["deadlineDays"])
            BY <2>1, <2>2 DEF AnswerSound
        <3>2. Seconds(Kept("deadlineDays", typed["deadlineDays"])) = Seconds(typed["deadlineDays"])
            BY <2>1, <3>1, KeptIs
        <3> QED BY <2>2, <3>1, <3>2 DEF SentByChat, AnswerSound
    <2>4. /\ typed["capability"] \in Texts /\ typed["specification"] \in Texts
          /\ answers["capability"] = typed["capability"]
          /\ answers["specification"] = [typed["specification"] EXCEPT !.styled = FALSE]
        BY <2>1, <2>2 DEF AnswerSound, TextOf, Kept
    <2> QED BY <2>2, <2>3, <2>4 DEF SentByChat, Texts
<1>4. ASSUME call # NoCall
      PROVE  ContractAccepts <=> (call.by = "chat" => call.commitment >= MinCommitment)
                                     /\ call.duration - 60 * minutes >= Hour
    BY <1>4, CallIsTrue DEF ContractAccepts, AmountFields
<1> QED BY <1>1, <1>2, <1>3, <1>4 DEF TermsAreKept, TextFields

(* For any texts, numbers and bounds: what the user meant is what the chat *)
(* keeps and what the contract is given, to the last unit, and nothing is  *)
(* sent that the contract would refuse but for its least escrow and the    *)
(* time that has passed; and what is stored of it is restored.             *)
THEOREM NothingEverAltered == TermsSpec /\ StorageSpec => []NothingIsAltered
BY TermsInductive, TermsStay, RecordsSurvive, PTL DEF NothingIsAltered
===============================================================================
