--------------------------- MODULE CreateDemandChat ---------------------------
(***************************************************************************)
(* The page that asks for the terms of a demand, has it created and says   *)
(* what became of it (frontend/CreateDemandChat.tsx and its model, with    *)
(* what run, verifyPendingTransaction and the pending records of App.tsx   *)
(* are to it).  The user may change the wallet at any moment, while        *)
(* transactions and reads of the last one go on.                           *)
(*                                                                         *)
(* A handler runs on what is rendered, and what it changes is rendered     *)
(* before the next event: a handler up to its await is one step, and the   *)
(* locks against a second call before that are left out.                   *)
(***************************************************************************)
EXTENDS FiniteSets, Naturals, Sequences

CONSTANTS
    Wallet, NoWallet,
    Terms,             \* the answers of a draft that differ in something
    MaxCreated         \* bound on the demands created

ASSUME ChatAssumption == NoWallet \notin Wallet /\ MaxCreated \in Nat /\ Terms # {}

VARIABLES
    user,              \* the wallet the chat is rendered for
    leaving,           \* disconnecting
    chat,              \* step, editing and answers
    shown,             \* outcome
    refresh,           \* the outcome a refresh was begun for
    records,           \* the pending create record of each wallet
    job,               \* the run or verification at work, which keeps the page busy
    created,           \* the contract's demands
    board,             \* how many of them the board has
    funded             \* a history: what this session has confirmed

chatVars == <<user, leaving, chat, shown, refresh, records, job, created, board, funded>>

Steps == <<"capability", "specification", "pricing", "commitment", "deadline", "review">>
Review == Len(Steps)

NoDraft == [terms |-> CHOOSE t \in Terms : TRUE, before |-> 0]

(* made is a ghost: the demand of the transaction, once it is mined.       *)
NoRecordYet == [kind |-> "none", stage |-> "demand", draft |-> NoDraft, fate |-> "pending", made |-> 0]

Nothing == [kind |-> "none", of |-> NoWallet, draft |-> NoDraft, made |-> 0, id |-> 0]

NoJob == [kind |-> "none", of |-> NoWallet, session |-> FALSE, phase |-> "unsent",
          draft |-> NoDraft, made |-> 0]

Draft == [terms : Terms, before : 0 .. MaxCreated]

ChatTypeOK ==
    /\ user \in Wallet \cup {NoWallet} /\ leaving \in BOOLEAN
    /\ chat \in [step : 1 .. Review, editing : {"no", "choices", "field"}, terms : Terms]
    /\ \A o \in {shown, refresh} :
           o \in [kind : {"none", "failed", "broadcast", "unknown", "reverted",
                          "approval-confirmed", "confirmed", "readback-failed"},
                  of : Wallet \cup {NoWallet}, draft : Draft, made : 0 .. MaxCreated,
                  id : 0 .. MaxCreated]
    /\ records \in [Wallet -> [kind : {"none", "broadcast", "unknown"},
                               stage : {"approval", "demand"}, draft : Draft,
                               fate : {"pending", "success", "failed"}, made : 0 .. MaxCreated]]
    /\ job \in [kind : {"none", "create", "verify"}, of : Wallet \cup {NoWallet},
                session : BOOLEAN, phase : {"unsent", "sent", "refresh"}, draft : Draft,
                made : 0 .. MaxCreated]
    /\ created \in Seq([creator : Wallet, terms : Terms])
    /\ board \in 0 .. Len(created) /\ funded \in BOOLEAN

-------------------------------------------------------------------------------
(* What is rendered.                                                       *)

Busy == job # NoJob \/ leaving

Pending(rs, w) ==
    IF w = NoWallet \/ rs[w].kind = "none" THEN Nothing
    ELSE [Nothing EXCEPT !.kind = rs[w].kind, !.of = w, !.draft = rs[w].draft, !.made = rs[w].made]

UnresolvedKinds == {"broadcast", "unknown"}

UnresolvedTransaction ==
    shown.kind \in UnresolvedKinds \/ Pending(records, user).kind \in UnresolvedKinds

(* Faulty: only a confirmed creation is not offered again.                 *)
EndsChatIfConfirmed(kind) == kind = "confirmed"

EndsChat(kind) == kind \in {"confirmed", "readback-failed"}

BlocksChatInput == UnresolvedTransaction \/ EndsChat(shown.kind)

(* The form for the price or the field for any other answer, and the       *)
(* button that creates the demand.                                         *)
AsksForAnswer ==
    (chat.step < Review \/ chat.editing = "field") /\ ~BlocksChatInput

OffersCreate ==
    /\ chat.step = Review /\ chat.editing = "no"
    /\ ~EndsChat(shown.kind) /\ ~UnresolvedTransaction

CanCreate == OffersCreate /\ ~Busy

MayContinue == user # NoWallet /\ ~leaving

(* The effect on pendingTransaction: the outcome follows the record.       *)
Follow(rs, w, current) ==
    IF Pending(rs, w).kind \in UnresolvedKinds THEN Pending(rs, w)
    ELSE IF current.kind \in UnresolvedKinds THEN Nothing ELSE current

SetRecord(w, r) ==
    /\ records' = [records EXCEPT ![w] = r]
    /\ shown' = IF w = user THEN Follow(records', user, shown) ELSE shown

-------------------------------------------------------------------------------
(* The conversation.                                                       *)

Forget == shown' = Nothing

(* handleAnswer and handlePricingContinue with an answer that is accepted; *)
(* one that is not changes nothing but the message.                        *)
Give(terms) ==
    /\ AsksForAnswer /\ ~Busy /\ MayContinue
    /\ \/ chat.step < Review /\ chat' = [chat EXCEPT !.step = chat.step + 1, !.terms = terms]
       \/ chat.editing = "field" /\ chat' = [chat EXCEPT !.editing = "no", !.terms = terms]
    /\ Forget
    /\ UNCHANGED <<user, leaving, refresh, records, job, created, board, funded>>

OpenEditChoices ==
    /\ chat.step = Review /\ chat.editing = "no"
    /\ ~Busy /\ ~BlocksChatInput /\ MayContinue
    /\ chat' = [chat EXCEPT !.editing = "choices"]
    /\ UNCHANGED <<user, leaving, shown, refresh, records, job, created, board, funded>>

ChooseEdit ==
    /\ chat.editing = "choices"
    /\ ~Busy /\ ~BlocksChatInput /\ MayContinue
    /\ chat' = [chat EXCEPT !.editing = "field"]
    /\ Forget
    /\ UNCHANGED <<user, leaving, refresh, records, job, created, board, funded>>

CancelEdit ==
    /\ chat.editing # "no"
    /\ ~Busy /\ MayContinue
    /\ chat' = [chat EXCEPT !.editing = "no"]
    /\ UNCHANGED <<user, leaving, shown, refresh, records, job, created, board, funded>>

(* The layout effect: another session, which keeps the draft alone.        *)
ChangeUser(w) ==
    /\ w # user
    /\ user' = w
    /\ shown' = Pending(records, w)
    /\ refresh' = Nothing
    /\ job' = [job EXCEPT !.session = FALSE]
    /\ funded' = FALSE
    /\ leaving' = (leaving /\ w # NoWallet)
    /\ UNCHANGED <<chat, records, created, board>>

Leave ==
    /\ ~Busy /\ user # NoWallet
    /\ leaving' = TRUE
    /\ UNCHANGED <<user, chat, shown, refresh, records, job, created, board, funded>>

(* The disconnect has failed; otherwise ChangeUser.                        *)
Stay ==
    /\ leaving /\ leaving' = FALSE
    /\ UNCHANGED <<user, chat, shown, refresh, records, job, created, board, funded>>

-------------------------------------------------------------------------------
(* The transactions.                                                       *)

(* handleCreate, and run with the board as it is.                          *)
Create ==
    /\ CanCreate /\ MayContinue
    /\ job' = [NoJob EXCEPT !.kind = "create", !.of = user, !.session = TRUE,
                            !.draft = [terms |-> chat.terms, before |-> board]]
    /\ Forget
    /\ UNCHANGED <<user, leaving, chat, refresh, records, created, board, funded>>

(* Faulty: the result is shown whatever session it is of.                  *)
OfAnySession == TRUE

(* walletSessionRef.current === session                                    *)
OfSession == job.session

(* The run is over, and says how; the outcome follows the record first.    *)
Over(kind, made, id, follows) ==
    /\ job' = NoJob
    /\ shown' = IF OfSession
                THEN [kind |-> kind, of |-> job.of, draft |-> job.draft, made |-> made, id |-> id]
                ELSE follows

(* Before anything is sent: refused, the wrong wallet, a call that fails.  *)
Fails ==
    /\ \/ job.kind = "create" /\ job.phase = "unsent"
       \/ job.kind = "verify" /\ job.phase = "sent"
    /\ Over("failed", 0, 0, shown)
    /\ UNCHANGED <<user, leaving, chat, refresh, records, created, board, funded>>

SendStage(stage) ==
    /\ job.kind = "create" /\ job.phase = "unsent"
    /\ SetRecord(job.of, [NoRecordYet EXCEPT !.kind = "broadcast", !.stage = stage, !.draft = job.draft])
    /\ job' = [job EXCEPT !.phase = "sent"]
    /\ UNCHANGED <<user, leaving, chat, refresh, created, board, funded>>

(* The receipt does not come.                                              *)
LosesSight ==
    /\ job.phase = "sent"
    /\ records' = [records EXCEPT ![job.of].kind = "unknown"]
    /\ Over("unknown", records[job.of].made, 0,
            IF job.of = user THEN Follow(records', user, shown) ELSE shown)
    /\ UNCHANGED <<user, leaving, chat, refresh, created, board, funded>>

Unsuccessful ==
    /\ job.phase = "sent" /\ records[job.of].fate = "failed"
    /\ records' = [records EXCEPT ![job.of] = NoRecordYet]
    /\ Over("reverted", 0, 0, IF job.of = user THEN Follow(records', user, shown) ELSE shown)
    /\ UNCHANGED <<user, leaving, chat, refresh, created, board, funded>>

Approved ==
    /\ job.phase = "sent"
    /\ records[job.of].fate = "success" /\ records[job.of].stage = "approval"
    /\ IF job.kind = "create"
       THEN SetRecord(job.of, NoRecordYet) /\ job' = [job EXCEPT !.phase = "unsent"]
       ELSE /\ records' = [records EXCEPT ![job.of] = NoRecordYet]
            /\ Over("approval-confirmed", 0, 0,
                    IF job.of = user THEN Follow(records', user, shown) ELSE shown)
    /\ UNCHANGED <<user, leaving, chat, refresh, created, board, funded>>

Confirmed ==
    /\ job.phase = "sent"
    /\ records[job.of].fate = "success" /\ records[job.of].stage = "demand"
    /\ SetRecord(job.of, NoRecordYet)
    /\ job' = [job EXCEPT !.phase = "refresh", !.made = records[job.of].made]
    /\ funded' = (funded \/ job.session)
    /\ UNCHANGED <<user, leaving, chat, refresh, created, board>>

(* Faulty: the first match.                                                *)
FirstOf(matches) == IF matches = {} THEN 0 ELSE CHOOSE i \in matches : \A j \in matches : i <= j

UniqueOf(matches) == IF Cardinality(matches) = 1 THEN CHOOSE i \in matches : TRUE ELSE 0

(* resolveUniqueCreatedDemandId                                            *)
Resolve(w, draft, n) ==
    UniqueOf({i \in draft.before + 1 .. n : created[i] = [creator |-> w, terms |-> draft.terms]})

(* The readback: the board of a block not before the receipt's, or none.   *)
ReadsBack(n) ==
    /\ job.phase = "refresh"
    /\ \/ /\ n >= job.made /\ n >= board /\ board' = n
          /\ Over("confirmed", job.made, Resolve(job.of, job.draft, n), shown)
       \/ /\ n = board /\ board' = n
          /\ Over("readback-failed", job.made, 0, shown)
    /\ UNCHANGED <<user, leaving, chat, refresh, records, created, funded>>

(* handleVerify with the record of this wallet.                            *)
VerifyCreate ==
    /\ ~Busy /\ UnresolvedTransaction
    /\ user # NoWallet /\ records[user].kind # "none"
    /\ SetRecord(user, [records[user] EXCEPT !.kind = "broadcast"])
    /\ job' = [NoJob EXCEPT !.kind = "verify", !.of = user, !.session = TRUE, !.phase = "sent",
                            !.draft = records[user].draft]
    /\ UNCHANGED <<user, leaving, chat, refresh, created, board, funded>>

(* handleRefresh, which is offered until the demand is found.              *)
Refresh ==
    /\ refresh = Nothing
    /\ EndsChat(shown.kind) /\ shown.id = 0
    /\ refresh' = shown
    /\ UNCHANGED <<user, leaving, chat, shown, records, job, created, board, funded>>

Refreshes(n) ==
    /\ refresh # Nothing /\ n >= board /\ n >= refresh.made
    /\ board' = n
    /\ refresh' = Nothing
    /\ LET id == Resolve(refresh.of, refresh.draft, n)
       IN  shown' = IF id = 0 THEN shown ELSE [refresh EXCEPT !.kind = "confirmed", !.id = id]
    /\ UNCHANGED <<user, leaving, chat, records, job, created, funded>>

RefreshFails ==
    /\ refresh # Nothing /\ refresh' = Nothing
    /\ UNCHANGED <<user, leaving, chat, shown, records, job, created, board, funded>>

-------------------------------------------------------------------------------
(* The chain, and the same wallet elsewhere.                               *)

MineCreate(w, fate) ==
    /\ records[w].kind # "none" /\ records[w].fate = "pending"
    /\ IF fate = "success" /\ records[w].stage = "demand"
       THEN /\ Len(created) < MaxCreated
            /\ created' = Append(created, [creator |-> w, terms |-> records[w].draft.terms])
            /\ records' = [records EXCEPT ![w].fate = fate, ![w].made = Len(created')]
       ELSE UNCHANGED created /\ records' = [records EXCEPT ![w].fate = fate]
    /\ UNCHANGED <<user, leaving, chat, shown, refresh, job, board, funded>>

CreateElsewhere(w, terms) ==
    /\ Len(created) < MaxCreated
    /\ created' = Append(created, [creator |-> w, terms |-> terms])
    /\ UNCHANGED <<user, leaving, chat, shown, refresh, records, job, board, funded>>

(* A poll of the board.                                                    *)
PollBoard(n) ==
    /\ n > board /\ n <= Len(created) /\ ~Busy
    /\ board' = n
    /\ UNCHANGED <<user, leaving, chat, shown, refresh, records, job, created, funded>>

ChatInit ==
    /\ user = NoWallet /\ leaving = FALSE
    /\ chat = [step |-> 1, editing |-> "no", terms |-> NoDraft.terms]
    /\ shown = Nothing /\ refresh = Nothing
    /\ records = [w \in Wallet |-> NoRecordYet] /\ job = NoJob
    /\ created = <<>> /\ board = 0 /\ funded = FALSE

ChatNext ==
    \/ \E terms \in Terms : Give(terms)
    \/ OpenEditChoices \/ ChooseEdit \/ CancelEdit
    \/ \E w \in Wallet \cup {NoWallet} : ChangeUser(w)
    \/ Leave \/ Stay
    \/ Create \/ Fails \/ LosesSight \/ Unsuccessful \/ Approved \/ Confirmed
    \/ \E stage \in {"approval", "demand"} : SendStage(stage)
    \/ VerifyCreate \/ Refresh \/ RefreshFails
    \/ \E n \in 0 .. Len(created) : ReadsBack(n) \/ Refreshes(n) \/ PollBoard(n)
    \/ \E w \in Wallet :
          \/ \E fate \in {"success", "failed"} : MineCreate(w, fate)
          \/ \E terms \in Terms : CreateElsewhere(w, terms)

ChatSpec == ChatInit /\ [][ChatNext]_chatVars

-------------------------------------------------------------------------------
(* What the chat says is of the wallet it is shown to, a demand it names   *)
(* is the one its transaction created, and while a creation of the wallet  *)
(* is unresolved, or has been confirmed in this session, "Create & Fund"   *)
(* is not offered: a successful receipt with failed readback is not        *)
(* permission to fund again (ERRORS.md).                                   *)
OffersOnlyOnce ==
    /\ ChatTypeOK
    /\ shown # Nothing => shown.of = user
    /\ shown.id # 0 => shown.id = shown.made
    /\ CanCreate /\ MayContinue => ~funded /\ records[user].kind = "none"
===============================================================================
