----------------------------- MODULE WalletSession -----------------------------
(***************************************************************************)
(* The session of a wallet that a transaction of the page belongs to       *)
(* (frontend/contract.ts, and syncWallet, run and disconnect of App.tsx).  *)
(* The page learns late of what the user does in the wallet; an action     *)
(* captures the session it was started in and asks the provider again and  *)
(* again before it has anything signed.                                    *)
(*                                                                         *)
(* One action at a time: the page's buttons are off while one is at work.  *)
(***************************************************************************)
EXTENDS Naturals, Sequences

CONSTANTS
    Account, Provider,
    NoAccount,
    Plan,              \* what an action has the wallet sign, one after another
    MaxChanges         \* bound on what the user does in the wallet

ASSUME SessionAssumption ==
    /\ NoAccount \notin Account /\ Provider # {} /\ MaxChanges \in Nat
    /\ Plan \subseteq Seq({"approve", "sign", "action"})

VARIABLES
    wallet,            \* what each provider answers: its account, and whether on our chain
    kit,               \* the provider the user has chosen, and whether connected
    page,              \* reownWalletProvider and its account, as last told
    generation,        \* walletProviderGeneration
    disconnecting,
    flow,              \* the action at work
    told,              \* a history: of another wallet, since the action began
    changes

walletVars == <<wallet, kit, changes>>
sessionVars == <<page, generation, disconnecting, told>>
allSessionVars == <<walletVars, sessionVars, flow>>

NoAnswer == [account |-> NoAccount, chain |-> FALSE, given |-> FALSE]

(* A step is what is asked of the provider; "account" and "chain" are the  *)
(* two questions of assertWalletSession, still to be asked checks times.   *)
NoFlow == [step |-> "none", provider |-> CHOOSE p \in Provider : TRUE,
           account |-> NoAccount, generation |-> 0, answer |-> NoAnswer,
           checks |-> 0, todo |-> <<>>, begun |-> FALSE]

Flow == [step : {"none", "wallet", "wallet of chain", "chain id", "switch", "wallet again",
                 "add", "account", "chain", "prompt", "receipt"},
         provider : Provider, account : Account \cup {NoAccount}, generation : Nat,
         answer : [account : Account \cup {NoAccount}, chain : BOOLEAN, given : BOOLEAN],
         checks : 0 .. 5, todo : Seq({"approve", "sign", "action"}), begun : BOOLEAN]

SessionTypeOK ==
    /\ wallet \in [Provider -> [account : Account \cup {NoAccount}, chain : BOOLEAN]]
    /\ kit \in [provider : Provider, connected : BOOLEAN]
    /\ page \in [provider : Provider, account : Account \cup {NoAccount}]
    /\ generation \in Nat /\ changes \in 0 .. MaxChanges
    /\ flow \in Flow /\ disconnecting \in BOOLEAN /\ told \in BOOLEAN

-------------------------------------------------------------------------------
(* What the page knows of the wallet.                                      *)

(* Faulty: the same provider is the same session.                          *)
AnotherProvider(next) == next.account # NoAccount /\ next.provider # page.provider

(* setReownWalletProvider counts every change; without an account there is *)
(* no provider either.                                                     *)
Another(next) == next # page

KitAccount == IF kit.connected THEN wallet[kit.provider].account ELSE NoAccount

Known == [provider |-> IF KitAccount = NoAccount THEN NoFlow.provider ELSE kit.provider,
          account |-> KitAccount]

(* syncWallet                                                              *)
Sync ==
    /\ page' = Known
    /\ generation' = IF Another(Known) THEN generation + 1 ELSE generation
    /\ told' = (told \/ page # Known)

(* One of the subscriptions calls.                                         *)
Told ==
    /\ page # Known
    /\ Sync
    /\ UNCHANGED <<walletVars, disconnecting, flow>>

Disconnect ==
    /\ ~disconnecting /\ flow.step = "none" /\ page.account # NoAccount
    /\ disconnecting' = TRUE
    /\ UNCHANGED <<walletVars, page, generation, told, flow>>

(* kit.disconnect is done, or has failed; the page looks for itself.       *)
Disconnected ==
    /\ disconnecting
    /\ disconnecting' = FALSE
    /\ Sync
    /\ UNCHANGED <<walletVars, flow>>

-------------------------------------------------------------------------------
(* An action.                                                              *)

Step(s) == flow' = [flow EXCEPT !.step = s, !.answer = NoAnswer]
End == flow' = NoFlow

(* assertProviderSession, before and after each question                   *)
SameSession ==
    /\ page.account # NoAccount /\ page.provider = flow.provider
    /\ generation = flow.generation

(* run captures the session.                                               *)
Begin(plan) ==
    /\ flow.step = "none" /\ ~disconnecting /\ page.account # NoAccount
    /\ flow' = [NoFlow EXCEPT !.step = "wallet", !.provider = page.provider,
                              !.account = page.account, !.generation = generation, !.todo = plan]
    /\ told' = FALSE
    /\ UNCHANGED <<walletVars, page, generation, disconnecting>>

(* What the provider says to eth_accounts or eth_chainId; the page may     *)
(* hear of it later.                                                       *)
Asked == {"wallet", "wallet of chain", "chain id", "wallet again", "account", "chain"}

Says ==
    IF flow.answer.given THEN flow.answer
    ELSE [account |-> wallet[flow.provider].account, chain |-> wallet[flow.provider].chain,
          given |-> TRUE]

Answer ==
    /\ flow.step \in Asked /\ ~flow.answer.given
    /\ flow' = [flow EXCEPT !.answer = Says]
    /\ UNCHANGED <<walletVars, sessionVars>>

(* It says nothing, or the page is of another session when the answer      *)
(* comes, or it is not the answer that lets the action go on.              *)
Suits ==
    CASE flow.step \in {"wallet", "wallet of chain", "wallet again", "account"} ->
             Says.account = flow.account
      [] flow.step = "chain" -> Says.chain
      [] OTHER -> TRUE

Stops ==
    /\ flow.step \in Asked
    /\ flow.answer.given => ~(SameSession /\ Suits)
    /\ End
    /\ UNCHANGED <<walletVars, sessionVars>>

Heard(s) ==
    /\ flow.step = s
    /\ SameSession /\ Suits
    /\ UNCHANGED <<walletVars, sessionVars>>

Check(n) == flow' = [flow EXCEPT !.step = "account", !.answer = NoAnswer, !.checks = n]

(* requireAccount, then ensureChain, which asks for the account again.     *)
HearWallet == Heard("wallet") /\ Step("wallet of chain")
HearWalletOfChain == Heard("wallet of chain") /\ Step("chain id")
HearChainId ==
    /\ Heard("chain id")
    /\ IF Says.chain THEN Check(1) ELSE Step("switch")

(* wallet_switchEthereumChain: done, refused, or a chain the wallet does   *)
(* not know.                                                               *)
Switch ==
    /\ flow.step = "switch"
    /\ \/ wallet' = [wallet EXCEPT ![flow.provider].chain = TRUE] /\ Check(2)
       \/ UNCHANGED wallet /\ End
       \/ UNCHANGED wallet /\ SameSession /\ Step("wallet again")
    /\ UNCHANGED <<kit, changes, sessionVars>>

HearWalletAgain == Heard("wallet again") /\ Step("add")

(* wallet_addEthereumChain, after which the wallet may be on it or not.    *)
Add ==
    /\ flow.step = "add"
    /\ \/ \E chain \in {TRUE, wallet[flow.provider].chain} :
              wallet' = [wallet EXCEPT ![flow.provider].chain = chain] /\ Check(2)
       \/ UNCHANGED wallet /\ End
    /\ UNCHANGED <<kit, changes, sessionVars>>

HearAccount == Heard("account") /\ Step("chain")

(* How often a request is preceded by assertWalletSession: by its caller,  *)
(* by the caller again after beforeBroadcast, and in the transport; after  *)
(* a signature once more, and once after the validator's answer.           *)
ChecksBefore(request, signed) ==
    CASE request = "approve" -> 2
      [] request = "sign" -> 2
      [] request = "action" -> IF signed THEN 5 ELSE 3

NextRequest(todo, signed) ==
    flow' = IF todo = <<>> THEN NoFlow
            ELSE [flow EXCEPT !.step = "account", !.answer = NoAnswer, !.todo = todo,
                              !.begun = TRUE, !.checks = ChecksBefore(Head(todo), signed)]

(* The last question of assertWalletSession.                               *)
HearChain ==
    /\ Heard("chain")
    /\ \/ flow.checks > 1 /\ Check(flow.checks - 1)
       \/ flow.checks = 1 /\ ~flow.begun /\ NextRequest(flow.todo, FALSE)
       \/ flow.checks = 1 /\ flow.begun /\ Step("prompt")

(* The wallet has been asked to sign; that cannot be recalled.             *)
Signed ==
    /\ flow.step = "prompt"
    /\ \/ End
       \/ Head(flow.todo) = "sign" /\ NextRequest(Tail(flow.todo), TRUE)
       \/ Head(flow.todo) # "sign" /\ Step("receipt")
    /\ UNCHANGED <<walletVars, sessionVars>>

(* The public RPC is asked for the receipt, whatever the wallet does.      *)
Mined ==
    /\ flow.step = "receipt"
    /\ \/ NextRequest(Tail(flow.todo), FALSE) \/ End
    /\ UNCHANGED <<walletVars, sessionVars>>

-------------------------------------------------------------------------------
(* The user.                                                               *)

ChangeWallet(p, w) ==
    /\ changes < MaxChanges /\ wallet[p] # w
    /\ wallet' = [wallet EXCEPT ![p] = w]
    /\ changes' = changes + 1
    /\ UNCHANGED <<kit, sessionVars, flow>>

(* Connects, disconnects, or chooses another provider, in the modal.       *)
ChangeKit(k) ==
    /\ changes < MaxChanges /\ kit # k
    /\ kit' = k
    /\ changes' = changes + 1
    /\ UNCHANGED <<wallet, sessionVars, flow>>

SessionInit ==
    /\ wallet \in [Provider -> [account : Account, chain : BOOLEAN]]
    /\ kit = [provider |-> NoFlow.provider, connected |-> TRUE]
    /\ page = [provider |-> NoFlow.provider, account |-> NoAccount]
    /\ generation = 0 /\ changes = 0
    /\ flow = NoFlow /\ disconnecting = FALSE /\ told = FALSE

SessionNext ==
    \/ Told \/ Disconnect \/ Disconnected
    \/ \E plan \in Plan : Begin(plan)
    \/ Answer \/ Stops
    \/ HearWallet \/ HearWalletOfChain \/ HearChainId \/ Switch \/ HearWalletAgain \/ Add
    \/ HearAccount \/ HearChain \/ Signed \/ Mined
    \/ \E p \in Provider, w \in [account : Account \cup {NoAccount}, chain : BOOLEAN] :
           ChangeWallet(p, w)
    \/ \E k \in [provider : Provider, connected : BOOLEAN] : ChangeKit(k)

SessionSpec == SessionInit /\ [][SessionNext]_allSessionVars

-------------------------------------------------------------------------------
(* Nothing is given to a wallet to sign once the page has been told of     *)
(* another one since the action began, even if the first is back           *)
(* (WALLET_DISCONNECT.md: account and provider changes invalidate unsigned *)
(* stages), and it is the provider and the account that the page shows.    *)
SentInOneSession ==
    [][flow'.step = "prompt" /\ flow.step # "prompt" =>
           ~told /\ flow.provider = page.provider /\ flow.account = page.account]_allSessionVars
===============================================================================
