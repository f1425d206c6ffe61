--------------------------- MODULE TransactionStorage ---------------------------
(***************************************************************************)
(* The pending records of a tab in its sessionStorage: for each wallet,    *)
(* deployment and action one, which is written while the fate of its       *)
(* transaction is open and read when the tab is loaded again, perhaps by   *)
(* another build (frontend/transaction-lifecycle.ts, App.tsx).             *)
(*                                                                         *)
(* What a record is for is TransactionLifecycle's; here it is whether it   *)
(* comes back.  Accounts are always spelled by getAddress; the contract of *)
(* a build is spelled as its configuration has it.                         *)
(***************************************************************************)
EXTENDS FiniteSets, Naturals

CONSTANTS
    Owner,             \* accounts
    Escrow,            \* deployments: a chain and an address
    Deed,              \* action ids: what is called, and for which demand
    MaxSent            \* bound on the transactions

ASSUME StorageAssumption ==
    /\ Escrow \subseteq [chain : Nat, address : Nat]
    /\ Deed \subseteq [calls : {"createDemand", "supportDemand", "approveService", "rejectService"},
                       of : Nat]
    /\ MaxSent \in Nat

VARIABLES
    items,             \* of the storage, under the prefix of this version
    leftover,          \* what else is in the storage
    allowed,           \* what the browser allows
    build,             \* the deployment of the build that is loaded
    held,              \* transactionPersistence.records
    warning,
    sent,              \* the number of transactions
    due                \* a history: the last record of each open transaction

storageVars == <<items, leftover, allowed, build, held, warning, sent, due>>

Spelling == {"checksum", "lower"}

Build == [escrow : Escrow, spelled : Spelling]

(* Unreadable: of version 1, no such record, under the key of another, or  *)
(* a legacy record that is none.                                           *)
Leftover == {"nothing", "unreadable", "legacy"}

PendingRecord ==
    [owner : Owner, escrow : Escrow, spelled : Spelling, deed : Deed,
     stage : {"approval", "demand", "action"}, state : {"broadcast", "unknown"},
     hash : 1 .. MaxSent,
     intent : [to : {"token", "escrow"}, of : Nat, escrow : Escrow,
               calls : {"approve", "createDemand", "supportDemand", "approveService", "rejectService"}]]

RecordIdentity(r) == [owner |-> r.owner, escrow |-> r.escrow, deed |-> r.deed]

(* Faulty: the contract as the record spells it.                           *)
StorageKeyAsSpelled(r) == <<r.escrow, r.spelled, r.owner, r.deed>>

(* transactionStorageKey: both addresses in lower case.                    *)
StorageKey(r) == <<r.escrow, "lower", r.owner, r.deed>>

-------------------------------------------------------------------------------
(* Reading.                                                                *)

(* parsePendingTransaction                                                 *)
Parsed(r) == [r EXCEPT !.spelled = "checksum"]

Readable == {item \in items : item.key = StorageKey(Parsed(item.record))}

(* readPendingTransactions: what was broadcast before is unknown now.      *)
Restored == {[Parsed(item.record) EXCEPT !.state = "unknown"] : item \in Readable}

(* readTransactionPersistence                                              *)
Warning ==
    IF allowed = "nothing" THEN "unavailable"
    ELSE IF Readable # items \/ leftover = "unreadable" THEN "unreadable"
    ELSE IF leftover = "legacy" THEN "older"
    ELSE "none"

(* findPendingTransaction                                                  *)
Find(records, owner, deed) ==
    {r \in records : RecordIdentity(r) = [owner |-> owner, escrow |-> build.escrow, deed |-> deed]}

-------------------------------------------------------------------------------
(* Writing.                                                                *)

Without(records, r) == {s \in records : RecordIdentity(s) # RecordIdentity(r)}

(* updatePendingRecord with a record; due is the history's part.           *)
KeepRecord(r) ==
    /\ held' = Without(held, r) \cup {r}
    /\ items' = IF allowed = "everything"
                THEN {item \in items : item.key # StorageKey(r)} \cup {[key |-> StorageKey(r), record |-> r]}
                ELSE items
    /\ warning' = IF allowed = "everything" THEN warning ELSE "unavailable"
    /\ due' = [id \in DOMAIN due \cup {RecordIdentity(r)} |->
                   IF id = RecordIdentity(r)
                   THEN [hash |-> r.hash, intent |-> r.intent,
                         stored |-> allowed = "everything", seen |-> TRUE]
                   ELSE due[id]]

(* updatePendingRecord without one; when its quota is used up, the storage *)
(* still lets go of a record.                                              *)
DropRecord(r) ==
    /\ held' = Without(held, r)
    /\ items' = IF allowed # "nothing" THEN {item \in items : item.key # StorageKey(r)} ELSE items
    /\ warning' = IF allowed # "nothing" THEN warning ELSE "unavailable"
    /\ due' = [id \in DOMAIN due \ {RecordIdentity(r)} |-> due[id]]

Stages(deed) ==
    CASE deed.calls = "createDemand"  -> {"approval", "demand"}
      [] deed.calls = "supportDemand" -> {"approval", "action"}
      [] OTHER                        -> {"action"}

IntentOf(deed, stage) ==
    IF stage = "approval"
    THEN [to |-> "token", calls |-> "approve", of |-> 0, escrow |-> build.escrow]
    ELSE [to |-> "escrow", calls |-> deed.calls, of |-> deed.of, escrow |-> build.escrow]

(* run, as far as no record is in the way, and the hash the wallet gives.  *)
SendRecorded(owner, deed, stage) ==
    /\ sent < MaxSent /\ stage \in Stages(deed)
    /\ Find(held, owner, deed) = {}
    /\ allowed # "nothing" => Find(Restored, owner, deed) = {}
    /\ sent' = sent + 1
    /\ KeepRecord([owner |-> owner, escrow |-> build.escrow, spelled |-> build.spelled,
                   deed |-> deed, stage |-> stage, state |-> "broadcast", hash |-> sent',
                   intent |-> IntentOf(deed, stage)])
    /\ UNCHANGED <<leftover, allowed, build>>

(* pendingTransactions, for a wallet.                                      *)
Offered(r) == r \in held /\ r.escrow = build.escrow

(* A timeout, a verification that begins or one that finds nothing; a      *)
(* replacement that waitForTransaction is told of gives it another hash.   *)
Reconsider(r, state) ==
    /\ Offered(r)
    /\ \/ r.state # state
          /\ KeepRecord([r EXCEPT !.state = state])
          /\ UNCHANGED sent
       \/ sent < MaxSent /\ sent' = sent + 1
          /\ KeepRecord([r EXCEPT !.state = state, !.hash = sent'])
    /\ UNCHANGED <<leftover, allowed, build>>

(* Confirmed, reverted or cancelled.                                       *)
Resolved(r) ==
    /\ Offered(r)
    /\ DropRecord(r)
    /\ UNCHANGED <<leftover, allowed, build, sent>>

-------------------------------------------------------------------------------
(* The tab is loaded again.  What was not stored was lost with a warning.  *)
ReloadBuild(b) ==
    /\ build' = b
    /\ held' = IF allowed = "nothing" THEN {} ELSE Restored
    /\ warning' = Warning
    /\ due' = [id \in {i \in DOMAIN due : due[i].stored} |-> [due[id] EXCEPT !.seen = allowed # "nothing"]]
    /\ UNCHANGED <<items, leftover, allowed, sent>>

(* The user's settings and the quota.                                      *)
Allow(a) ==
    /\ allowed # a
    /\ allowed' = a
    /\ UNCHANGED <<items, leftover, build, held, warning, sent, due>>

StorageInit ==
    /\ items = {} /\ held = {} /\ sent = 0 /\ due = <<>>
    /\ allowed = "everything" /\ build \in Build
    /\ leftover \in Leftover
    /\ warning = Warning

StorageNext ==
    \/ \E owner \in Owner, deed \in Deed, stage \in {"approval", "demand", "action"} :
           SendRecorded(owner, deed, stage)
    \/ \E r \in held : Resolved(r) \/ \E state \in {"broadcast", "unknown"} : Reconsider(r, state)
    \/ \E b \in Build : ReloadBuild(b)
    \/ \E a \in {"everything", "removal", "nothing"} : Allow(a)

-------------------------------------------------------------------------------
Votes == {"approveService", "rejectService"}

(* verifyTransaction and validateVoteIntent, before the chain is asked.    *)
PassesChecks(r) ==
    /\ r.escrow = build.escrow /\ r.intent.escrow = build.escrow
    /\ r.intent.to = IF r.stage = "approval" THEN "token" ELSE "escrow"
    /\ r.stage = "approval" => r.intent.calls = "approve"
    /\ r.stage = "action" /\ {r.intent.calls, r.deed.calls} \cap Votes # {} =>
           r.deed = [calls |-> r.intent.calls, of |-> r.intent.of]

(* While the fate of a transaction is open, the tab holds one record of it *)
(* with what was sent, whatever was written for other wallets, deployments *)
(* and actions, and after each reload by any build, or it says that it     *)
(* could not read the storage; what it could not store it has warned of.   *)
(* What it offers to verify is not refused as a record of something else.  *)
RestoredAsSaved ==
    /\ held \subseteq PendingRecord
    /\ \A id \in DOMAIN due :
           /\ ~due[id].stored \/ ~due[id].seen => warning = "unavailable"
           /\ due[id].seen =>
                  /\ Cardinality({r \in held : RecordIdentity(r) = id}) = 1
                  /\ \E r \in held :
                         /\ RecordIdentity(r) = id
                         /\ r.hash = due[id].hash /\ r.intent = due[id].intent
    /\ \A r \in held : Offered(r) => PassesChecks(r)
===============================================================================
