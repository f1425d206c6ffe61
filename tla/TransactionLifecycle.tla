-------------------------- MODULE TransactionLifecycle --------------------------
(***************************************************************************)
(* What a tab of the frontend does about the transactions of its wallet    *)
(* (frontend/transaction-lifecycle.ts, the handlers of App.tsx and the     *)
(* calls of contract.ts): a transaction the wallet has sent is recorded    *)
(* until its fate is known, and blocks its action as long.                 *)
(*                                                                         *)
(* An action is an action id of one wallet, chain and contract.  What is   *)
(* done between two awaits is one step.                                    *)
(***************************************************************************)
EXTENDS FiniteSets, Naturals

CONSTANTS
    Action,
    Funding,           \* actions that may need the token's approval first
    ReadBack,          \* submitService, which looks at the contract after
    MaxTx,             \* bound on the transactions the wallet may send
    NoAction,
    MaxReloads

ASSUME LifecycleAssumption ==
    /\ Funding \subseteq Action /\ ReadBack \subseteq Action
    /\ NoAction \notin Action /\ MaxTx \in Nat /\ MaxReloads \in Nat

(* By their nonces; 0 is none.                                             *)
Tx == 1 .. MaxTx

VARIABLES
    tx,                \* of the wallet
    known,             \* those the tab has heard of and not lost
    storage,           \* sessionStorage
    access,            \* to it
    memory,            \* recordsRef
    run,               \* the run or verification of an action, with its lock
    outcome,           \* what the notice of the tab says
    reloads

tab == <<memory, run>>
vars == <<tx, known, storage, access, tab, outcome, reloads>>

Stage == {"approval", "action"}           \* "demand" is the action of create

(* What may become of a transaction: the wallet may replace it by the same *)
(* at another price, by a cancellation, or by something else.              *)
Fate == {"unsent", "pending", "success", "reverted", "cancelled", "replaced",
         "repriced", "repriced and reverted"}

(* The hash the wallet gave, or that of what has replaced it.              *)
Hash == [tx : 0 .. MaxTx, own : BOOLEAN]
NoHash == [tx |-> 0, own |-> TRUE]

Record == [hash : Hash, stage : Stage]
NoRecord == [hash |-> NoHash, stage |-> "action"]

Run == [step : {"idle", "prompt", "sent", "read", "wait", "readback", "refresh"},
        stage : Stage, hash : Hash, check : BOOLEAN, seen : BOOLEAN]
Idle == [step |-> "idle", stage |-> "action", hash |-> NoHash, check |-> FALSE, seen |-> FALSE]

TypeOK ==
    /\ tx \in [Tx -> [action : Action \cup {NoAction}, stage : Stage, fate : Fate]]
    /\ known \subseteq Tx
    /\ storage \in [Action -> Record] /\ memory \in [Action -> Record]
    /\ access \in {"full", "quota", "none"}
    /\ run \in [Action -> Run]
    /\ outcome \in [tx : 0 .. MaxTx, state : {"none", "confirmed", "reverted", "cancelled"}]
    /\ reloads \in 0 .. MaxReloads

-------------------------------------------------------------------------------
(* Records.                                                                *)

(* updatePendingRecord: in memory always, in storage if it lets us; when   *)
(* its quota is used up, a record can still be removed.                    *)
Update(a, record) ==
    /\ memory' = [memory EXCEPT ![a] = record]
    /\ storage' = IF access = "full" \/ (access = "quota" /\ record = NoRecord)
                   THEN [storage EXCEPT ![a] = record]
                   ELSE storage

(* Faulty: what could not be found out does not block.                     *)
UnresolvedIfBroadcast(state) == state = "broadcast"

Unresolved(state) == state \in {"broadcast", "unknown"}

Untold == [tx |-> 0, state |-> "none"]

(* createTransactionUpdateHandler: the notice and the record.              *)
Report(a, state, hash, stage) ==
    IF Unresolved(state)
    THEN Update(a, [hash |-> hash, stage |-> stage]) /\ outcome' = Untold
    ELSE Update(a, NoRecord) /\ outcome' = [tx |-> hash.tx, state |-> state]

(* findPendingTransaction over what is stored and what is remembered.      *)
Blocked(a) ==
    \/ access # "none" /\ storage[a] # NoRecord
    \/ memory[a] # NoRecord

Goto(a, r) == run' = [run EXCEPT ![a] = r]

-------------------------------------------------------------------------------
(* A run.                                                                  *)

(* run takes the lock; approvals first, if the allowance is too small.     *)
Start(a, stage) ==
    /\ run[a].step = "idle"
    /\ ~Blocked(a)
    /\ stage = "approval" => a \in Funding
    /\ Goto(a, [Idle EXCEPT !.step = "prompt", !.stage = stage])
    /\ outcome' = Untold
    /\ UNCHANGED <<tx, known, storage, access, memory, reloads>>

(* A check before the prompt fails, or the user refuses.                   *)
Refuse(a) ==
    /\ run[a].step = "prompt"
    /\ Goto(a, Idle)
    /\ outcome' = Untold
    /\ UNCHANGED <<tx, known, storage, access, memory, reloads>>

WalletSends(a, t) ==
    /\ run[a].step = "prompt"
    /\ tx[t].fate = "unsent" /\ \A u \in 1 .. t - 1 : tx[u].fate # "unsent"
    /\ tx' = [tx EXCEPT ![t] = [action |-> a, stage |-> run[a].stage, fate |-> "pending"]]
    /\ Goto(a, [run[a] EXCEPT !.step = "sent", !.hash = [tx |-> t, own |-> TRUE]])
    /\ UNCHANGED <<known, storage, access, memory, outcome, reloads>>

(* waitForTransaction begins with the update to "broadcast".               *)
HashArrives(a) ==
    LET r == run[a]
    IN  /\ r.step = "sent"
        /\ Report(a, "broadcast", r.hash, r.stage)
        /\ known' = known \cup {r.hash.tx}
        /\ Goto(a, [r EXCEPT !.step = "wait"])
        /\ UNCHANGED <<tx, access, reloads>>

(* The wallet sends, and answers with an error.                            *)
HashLost(a) ==
    /\ run[a].step = "sent"
    /\ Goto(a, Idle)
    /\ outcome' = Untold
    /\ UNCHANGED <<tx, known, storage, access, memory, reloads>>

(* verifyPendingTransaction of a record that is shown.                     *)
Verify(a) ==
    /\ run[a].step = "idle"
    /\ memory[a] # NoRecord
    /\ Report(a, "broadcast", memory[a].hash, memory[a].stage)
    /\ Goto(a, [Idle EXCEPT !.step = "read", !.stage = memory[a].stage,
                            !.hash = memory[a].hash, !.check = TRUE])
    /\ UNCHANGED <<tx, known, access, reloads>>

(* Faulty: a replacement is taken for the same transaction.                *)
SameNonce(hash) == TRUE

(* isTransactionIntentMatch                                                *)
Matches(hash) == hash.own \/ tx[hash.tx].fate \in {"repriced", "repriced and reverted"}

(* readTransaction, which may fail.                                        *)
Read(a) ==
    LET r == run[a]
    IN  /\ r.step = "read"
        /\ \/ /\ \E seen \in {Matches(r.hash), FALSE} :
                     Goto(a, [r EXCEPT !.step = "wait", !.seen = seen])
              /\ UNCHANGED <<storage, memory, outcome>>
           \/ /\ ~Matches(r.hash)
              /\ Report(a, "unknown", r.hash, r.stage)
              /\ Goto(a, Idle)
        /\ UNCHANGED <<tx, known, access, reloads>>

(* The receipt that answers to a hash, and what waitForTransaction makes   *)
(* of it.                                                                  *)
Final(hash) ==
    IF tx[hash.tx].fate \in {"success", "repriced", "replaced"} THEN "confirmed" ELSE "reverted"

Replacement(r) ==
    r.hash.own /\ tx[r.hash.tx].fate \in {"cancelled", "replaced", "repriced", "repriced and reverted"}

Answering(r) == IF Replacement(r) THEN [r.hash EXCEPT !.own = FALSE] ELSE r.hash

Judged(r) ==
    IF Replacement(r)
    THEN IF tx[r.hash.tx].fate = "cancelled" THEN "cancelled"
         ELSE IF Matches(Answering(r)) THEN Final(r.hash) ELSE "unknown"
    ELSE IF r.check /\ ~r.seen THEN "unknown" ELSE Final(r.hash)

(* waitForReceipt gives up, cannot find the transaction any more, or fails *)
(* once it has found what replaced it.                                     *)
NoReceipt(a) ==
    LET r == run[a]
    IN  /\ r.step = "wait"
        /\ \/ Report(a, "unknown", r.hash, r.stage)
           \/ /\ Replacement(r)
              /\ Report(a, IF Judged(r) = "cancelled" THEN "cancelled" ELSE "unknown",
                        Answering(r), r.stage)
        /\ Goto(a, Idle)
        /\ UNCHANGED <<tx, known, access, reloads>>

(* The approval is there: the next one, the action itself, or, if it was   *)
(* only verified, nothing.                                                 *)
AfterApproval(a, r) ==
    \/ r.check /\ Goto(a, Idle)
    \/ /\ ~r.check
       /\ \E stage \in Stage : Goto(a, [Idle EXCEPT !.step = "prompt", !.stage = stage])

Receipt(a) ==
    LET r == run[a]
        hash == Answering(r)
        state == Judged(r)
        unread == state = "confirmed" /\ r.stage = "action" /\ a \in ReadBack
    IN  /\ r.step = "wait"
        /\ tx[r.hash.tx].fate # "pending"
        /\ Report(a, IF unread THEN "broadcast" ELSE state, hash, r.stage)
        /\ \/ unread /\ Goto(a, [r EXCEPT !.step = "readback", !.hash = hash])
           \/ state = "confirmed" /\ r.stage = "approval" /\ AfterApproval(a, r)
           \/ state = "confirmed" /\ r.stage = "action" /\ ~unread
              /\ Goto(a, [Idle EXCEPT !.step = "refresh", !.hash = hash])
           \/ state # "confirmed" /\ Goto(a, Idle)
        /\ UNCHANGED <<tx, known, access, reloads>>

(* verifySubmission: the proposal is in the contract as it was sent, or    *)
(* the call fails, or the demand has moved on.                             *)
VerifySubmission(a) ==
    LET r == run[a]
    IN  /\ r.step = "readback"
        /\ \/ /\ Report(a, "confirmed", r.hash, r.stage)
              /\ Goto(a, [Idle EXCEPT !.step = "refresh", !.hash = r.hash])
           \/ Report(a, "unknown", r.hash, r.stage) /\ Goto(a, Idle)
        /\ UNCHANGED <<tx, known, access, reloads>>

(* afterConfirmedTransaction has read the board, or could not; the notice  *)
(* is of a confirmed transaction in any case.                              *)
Refreshed(a) ==
    /\ run[a].step = "refresh"
    /\ outcome' = [tx |-> run[a].hash.tx, state |-> "confirmed"]
    /\ Goto(a, Idle)
    /\ UNCHANGED <<tx, known, storage, access, memory, reloads>>

-------------------------------------------------------------------------------
(* The world.                                                              *)

Mine(t, fate) ==
    /\ tx[t].fate = "pending"
    /\ fate \notin {"unsent", "pending"}
    /\ tx' = [tx EXCEPT ![t].fate = fate]
    /\ UNCHANGED <<known, storage, access, tab, outcome, reloads>>

(* The quota is used up, or the browser denies the storage altogether.     *)
StorageFails ==
    /\ access' \in {"quota", "none"} \ {access}
    /\ access # "none"
    /\ UNCHANGED <<tx, known, storage, tab, outcome, reloads>>

(* The page is loaded anew.  Its memory is what storage gives back; the    *)
(* warning the user had says that the rest is lost.                        *)
Reload ==
    /\ reloads < MaxReloads
    /\ reloads' = reloads + 1
    /\ memory' = IF access = "none" THEN [a \in Action |-> NoRecord] ELSE storage
    /\ known' = {t \in known : \E a \in Action : memory'[a].hash.tx = t}
    /\ run' = [a \in Action |-> Idle]
    /\ outcome' = Untold
    /\ UNCHANGED <<tx, storage, access>>

Init ==
    /\ tx = [t \in Tx |-> [action |-> NoAction, stage |-> "action", fate |-> "unsent"]]
    /\ known = {} /\ outcome = Untold /\ reloads = 0 /\ access = "full"
    /\ storage = [a \in Action |-> NoRecord] /\ memory = storage
    /\ run = [a \in Action |-> Idle]

Next ==
    \/ \E a \in Action :
          \/ \E stage \in Stage : Start(a, stage)
          \/ \E t \in Tx : WalletSends(a, t)
          \/ Refuse(a) \/ HashArrives(a) \/ HashLost(a) \/ Verify(a) \/ Read(a)
          \/ NoReceipt(a) \/ Receipt(a) \/ VerifySubmission(a) \/ Refreshed(a)
    \/ \E t \in Tx, fate \in Fate : Mine(t, fate)
    \/ StorageFails \/ Reload

Spec == Init /\ [][Next]_vars

-------------------------------------------------------------------------------
(* While a transaction the tab knows of may still be mined, nothing else   *)
(* is sent for its action, through timeouts, replacements, verifications   *)
(* and reloads (ERRORS.md: broadcast and unknown block another submission).*)
SendsOnlyWhenClear ==
    [][\A t \in Tx :
          tx[t].fate = "unsent" /\ tx'[t].fate = "pending" =>
              \A u \in known : tx[u].action = tx'[t].action => tx[u].fate # "pending"]_vars

(* What the user was told is what has happened to the transaction the      *)
(* wallet was asked for, whatever has replaced it, and every record names  *)
(* a transaction of its action.                                            *)
ToldTheTruth ==
    /\ TypeOK
    /\ outcome # Untold =>
           LET fate == tx[outcome.tx].fate
           IN  /\ outcome.state # "none"
               /\ outcome.state = "confirmed" => fate \in {"success", "repriced"}
               /\ outcome.state = "reverted" => fate \in {"reverted", "repriced and reverted"}
               /\ outcome.state = "cancelled" => fate = "cancelled"
    /\ \A a \in Action : \A record \in {memory[a], storage[a]} \ {NoRecord} :
           tx[record.hash.tx].action = a
===============================================================================
