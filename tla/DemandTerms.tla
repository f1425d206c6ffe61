------------------------------- MODULE DemandTerms -------------------------------
(***************************************************************************)
(* The terms of a demand on their way to the contract: typed into the chat,*)
(* kept, edited and encoded by the browser (create-demand-chat-model.ts,   *)
(* contract.ts), or sent by an agent to POST /v1/demands/prepare           *)
(* (demand-prepare.ts).                                                    *)
(*                                                                         *)
(* A number is typed as digits with a decimal point: value / 10^places.  A *)
(* capability may be written with spaces and capitals, a description with  *)
(* space around it; otherwise a text is a word, lawful or not.             *)
(***************************************************************************)
EXTENDS Integers, FiniteSets, Sequences, TLC

CONSTANTS
    Word, LawfulWord,  \* texts; those of the right letters and length
    Number,            \* numbers that are typed
    NoText, NoCall,
    PricePlaces,       \* SERVICE_PRICE_ASSET.decimals
    EscrowPlaces,      \* ESCROW_DECIMALS
    MaxUint96, MaxUint64,
    MinCommitment,     \* of the contract
    MaxWait            \* bound on the minutes until the block

ASSUME TermsAssumption ==
    /\ LawfulWord \subseteq Word
    /\ Number \subseteq [value : Nat, places : Nat]
    /\ PricePlaces \in Nat /\ EscrowPlaces \in Nat /\ MinCommitment \in Nat \ {0}
    /\ MaxUint96 \in Nat /\ MaxUint64 \in Nat /\ MaxWait \in Nat

VARIABLES
    asked,             \* step
    answers,           \* what the chat keeps of each answer
    typed,             \* a history: what the user meant
    call,              \* the arguments of createDemand
    minutes            \* since they were made

termsVars == <<asked, answers, typed, call, minutes>>

Field == {"capability", "specification", "maxPrice", "expectedCalls", "commitment", "deadlineDays"}

Texts == [word : Word, styled : BOOLEAN]

Hour == 3600

Conversation ==
    <<{"capability"}, {"specification"}, {"maxPrice", "expectedCalls"}, {"commitment"},
      {"deadlineDays"}>>

InReview == asked > Len(Conversation)

-------------------------------------------------------------------------------
(* Numbers.                                                                *)

Places(f) ==
    CASE f = "maxPrice" -> PricePlaces [] f = "commitment" -> EscrowPlaces [] OTHER -> 0

Limit(f) == IF f = "expectedCalls" THEN MaxUint64 ELSE MaxUint96

(* Powers of ten.                                                          *)
Ten[k \in Nat] == IF k = 0 THEN 1 ELSE 10 * Ten[k - 1]

(* parseEscrowAmount                                                       *)
Amount(f, n) == n.value * Ten[Places(f) - n.places]

(* formatEscrowAmount and Number.toString: no zeros at the end.            *)
Shortest(n) ==
    LET k == CHOOSE k \in 0 .. n.places :
                 /\ n.value % Ten[k] = 0
                 /\ k < n.places => n.value % Ten[k + 1] # 0
    IN  [value |-> n.value \div Ten[k], places |-> n.places - k]

Seconds(n) == (n.value * 86400) \div Ten[n.places]

(* parseAmount, parseExpectedCalls                                         *)
AmountAccepted(f, n) == n.places <= Places(f) /\ Amount(f, n) \in 1 .. Limit(f)

(* parseDeadlineAnswer, deadlineDurationSeconds                            *)
DeadlineAccepted(n) == n.value > 0 /\ n.value <= 3650 * Ten[n.places] /\ Seconds(n) >= Hour

-------------------------------------------------------------------------------
(* The chat.                                                               *)

Accepted(f, t) ==
    CASE f \in {"capability", "specification"} -> t.word \in LawfulWord
      [] f = "deadlineDays"                    -> DeadlineAccepted(t)
      [] OTHER                                 -> AmountAccepted(f, t)

(* What is kept: the label as it was typed, the description without the    *)
(* space around it, numbers in their shortest form.                        *)
Kept(f, t) ==
    CASE f = "capability"    -> t
      [] f = "specification" -> [t EXCEPT !.styled = FALSE]
      [] OTHER               -> Shortest(t)

(* validateAnswers                                                         *)
Valid(all) == \A f \in Field : Accepted(f, all[f])

(* updateEditedAnswer                                                      *)
Edited(f, t) ==
    LET next == [answers EXCEPT ![f] = Kept(f, t)]
    IN  IF Accepted(f, t) /\ Valid(next) THEN next ELSE answers

TextOf(f) == IF f \in {"capability", "specification"} THEN Texts ELSE Number

(* handleAnswer and handlePricingContinue: one text for each field that is *)
(* asked for, and the next step only if all are accepted.                  *)
Reply(texts) ==
    /\ call = NoCall /\ ~InReview
    /\ DOMAIN texts = Conversation[asked]
    /\ \A f \in Conversation[asked] : texts[f] \in TextOf(f) /\ Accepted(f, texts[f])
    /\ answers' = [f \in Field |-> IF f \in Conversation[asked] THEN Kept(f, texts[f]) ELSE answers[f]]
    /\ typed' = [f \in Field |-> IF f \in Conversation[asked] THEN texts[f] ELSE typed[f]]
    /\ asked' = asked + 1
    /\ UNCHANGED <<call, minutes>>

(* An edit that is not valid changes nothing but the message.              *)
Edit(f, t) ==
    /\ call = NoCall /\ InReview
    /\ answers' = Edited(f, t)
    /\ typed' = IF Accepted(f, t) /\ Valid(answers') THEN [typed EXCEPT ![f] = t] ELSE typed
    /\ UNCHANGED <<asked, call, minutes>>

(* handleCreate, createDemand and its writeDemand: the arguments, with the *)
(* deadline by the browser's clock; the approval comes before the block.   *)
CreateCall ==
    /\ call = NoCall /\ InReview /\ Valid(answers)
    /\ call' = [by            |-> "chat",
                capability    |-> [answers["capability"] EXCEPT !.styled = FALSE],
                specification |-> answers["specification"],
                maxPrice      |-> Amount("maxPrice", answers["maxPrice"]),
                expectedCalls |-> Amount("expectedCalls", answers["expectedCalls"]),
                commitment    |-> Amount("commitment", answers["commitment"]),
                duration      |-> Seconds(answers["deadlineDays"])]
    /\ UNCHANGED <<asked, answers, typed, minutes>>

-------------------------------------------------------------------------------
(* The API.                                                                *)

(* validateDemandInput: whole numbers in the contract's own units, a       *)
(* capability that is written as the contract wants it, and a description  *)
(* that is trimmed.  (The deadline counts from now.)                       *)
InputAccepted(input) ==
    /\ input.capability.word \in LawfulWord /\ ~input.capability.styled
    /\ input.specification.word \in LawfulWord
    /\ \A f \in {"maxPrice", "expectedCalls", "commitment"} : input[f] \in 1 .. Limit(f)

(* prepareDemand: what the contract would say of time and escrow as well.  *)
Preparable(input) == input.duration >= Hour /\ input.commitment >= MinCommitment

(* POST /v1/demands/prepare                                                *)
Prepare(input) ==
    /\ call = NoCall /\ asked = 1
    /\ InputAccepted(input) /\ Preparable(input)
    /\ call' = [input EXCEPT !.specification.styled = FALSE]
    /\ UNCHANGED <<asked, answers, typed, minutes>>

(* Approval, signature and inclusion take their time.                      *)
MinutePasses ==
    /\ call # NoCall /\ minutes < MaxWait
    /\ minutes' = minutes + 1
    /\ UNCHANGED <<asked, answers, typed, call>>

TermsInit ==
    /\ asked = 1 /\ answers = [f \in Field |-> NoText] /\ typed = answers
    /\ call = NoCall /\ minutes = 0

TermsNext ==
    \/ \E t \in Texts : \E f \in {"capability", "specification"} : Reply(f :> t) \/ Edit(f, t)
    \/ \E n \in Number :
           \/ \E f \in {"commitment", "deadlineDays"} : Reply(f :> n)
           \/ \E m \in Number : Reply("maxPrice" :> n @@ "expectedCalls" :> m)
           \/ \E f \in {"maxPrice", "expectedCalls", "commitment", "deadlineDays"} : Edit(f, n)
    \/ CreateCall
    \/ \E capability, specification \in Texts, price, calls, commitment, hours \in 0 .. 2 :
           Prepare([by |-> "agent", capability |-> capability, specification |-> specification,
                    maxPrice |-> price, expectedCalls |-> calls, commitment |-> commitment,
                    duration |-> hours * Hour])
    \/ MinutePasses

-------------------------------------------------------------------------------
Same(n, m) == n.value * Ten[m.places] = m.value * Ten[n.places]

(* _validateCapability, _checkTextLength                                   *)
TextsAreLawful ==
    /\ call.capability.word \in LawfulWord /\ ~call.capability.styled
    /\ call.specification.word \in LawfulWord

(* createDemand of the contract, for a key that is free.                   *)
ContractAccepts ==
    /\ TextsAreLawful
    /\ \A f \in {"maxPrice", "expectedCalls", "commitment"} : call[f] \in 1 .. Limit(f)
    /\ call.duration - 60 * minutes >= Hour
    /\ call.commitment >= MinCommitment

(* What the user meant is what the chat shows, what an edit that changes   *)
(* nothing keeps, and what the contract is given, to the last unit; and    *)
(* whether through the chat or the API, nothing is sent off to be paid for *)
(* that the contract would refuse, but for two reasons: the chat does not  *)
(* ask for the contract's least escrow, and the time until the block may   *)
(* leave less than the hour that both have asked for.                      *)
TermsAreKept ==
    /\ \A f \in Field \ {"capability", "specification"} :
           typed[f] # NoText =>
               /\ Same(answers[f], typed[f])
               /\ call # NoCall /\ f # "deadlineDays" =>
                      Same([value |-> call[f], places |-> Places(f)], typed[f])
    /\ InReview => Valid(answers) /\ \A f \in Field : Edited(f, answers[f]) = answers
    /\ call # NoCall =>
           /\ typed["specification"] # NoText =>
                  /\ call.duration = Seconds(typed["deadlineDays"])
                  /\ call.capability.word = typed["capability"].word
                  /\ call.specification = [word |-> typed["specification"].word, styled |-> FALSE]
           /\ ContractAccepts
                  <=> (call.by = "chat" => call.commitment >= MinCommitment)
                         /\ call.duration - 60 * minutes >= Hour
===============================================================================
