-------------------------------- MODULE MCWallet --------------------------------
(***************************************************************************)
(* What a tab does for its wallet, in parts that share no state in the     *)
(* models: the pending records, the session of an action, the supporter's  *)
(* position, the page that creates a demand, its terms, and the storage of *)
(* the records.  Each behaviour is one of a single part, while the others  *)
(* stay as they begin.                                                     *)
(***************************************************************************)
EXTENDS TransactionLifecycle, WalletSession, SupportPosition, CreateDemandChat,
        DemandTerms, TransactionStorage

CONSTANTS w1, t1, o1, i1

VARIABLE part

walletParts == <<vars, allSessionVars, supportVars, chatVars, termsVars, storageVars, part>>

(* A vote, createDemand with an approval, submitService.                   *)
MCPlan == {<<"action">>, <<"approve", "action">>, <<"sign", "action">>}

(* Two places are kept of a price and one of the escrow.  4.16 and 4.17    *)
(* hundredths of a day are just below and above an hour.                   *)
MCNumber ==
    {[value |-> v, places |-> 0] : v \in {0, 1, 10, 3651}}
        \cup {[value |-> v, places |-> 1] : v \in {5, 10, 99}}
        \cup {[value |-> v, places |-> 2] : v \in {5, 50, 101}}
        \cup {[value |-> v, places |-> 4] : v \in {416, 417}}

(* The same address on two chains.                                         *)
MCEscrow == {[chain |-> 1, address |-> 1], [chain |-> 2, address |-> 1]}

MCDeed == {[calls |-> "createDemand", of |-> 0], [calls |-> "approveService", of |-> 1]}

MCInit ==
    /\ part \in {"lifecycle", "session", "support", "chat", "terms", "storage"}
    /\ Init /\ SessionInit /\ SupportInit /\ ChatInit /\ TermsInit /\ StorageInit
    /\ part # "session" => \A p \in Provider : wallet[p] = [account |-> CHOOSE a \in Account : TRUE, chain |-> TRUE]
    /\ build.escrow.chain = 2 => build.spelled = "lower"
    /\ part # "storage" => leftover = "nothing" /\ build = CHOOSE b \in Build : TRUE

Lifecycle ==
    /\ part = "lifecycle"
    /\ Next
    /\ UNCHANGED <<allSessionVars, supportVars, chatVars, termsVars, storageVars, part>>

Session ==
    /\ part = "session"
    /\ SessionNext
    /\ UNCHANGED <<vars, supportVars, chatVars, termsVars, storageVars, part>>

(* Of two positions that of i1 changes; both are read and shown.           *)
Support ==
    /\ part = "support"
    /\ SupportNext
    /\ \A i \in Identity \ {i1} : position'[i] = 0
    /\ UNCHANGED <<vars, allSessionVars, chatVars, termsVars, storageVars, part>>

(* Only the first of two wallets asks for other terms; both do the rest.   *)
Chat ==
    /\ part = "chat"
    /\ ChatNext
    /\ user' = w1 \/ chat'.terms = t1
    /\ \A i \in 1 .. Len(created') : created'[i].creator = w1 \/ created'[i].terms = t1
    /\ created' = created \/ chat.step = Review
    /\ UNCHANGED <<vars, allSessionVars, supportVars, termsVars, storageVars, part>>

TermsPart ==
    /\ part = "terms"
    /\ TermsNext
    /\ UNCHANGED <<vars, allSessionVars, supportVars, chatVars, storageVars, part>>

(* Beside leftovers there is one transaction, the first is of o1, and the  *)
(* builds for one of the chains spell the contract in one way.             *)
Storing ==
    /\ part = "storage"
    /\ StorageNext
    /\ build'.escrow.chain = 2 => build'.spelled = "lower"
    /\ leftover # "nothing" => sent' <= 1
    /\ sent = 0 => \A r \in held' : r.owner = o1
    /\ UNCHANGED <<vars, allSessionVars, supportVars, chatVars, termsVars, part>>

MCNext == Lifecycle \/ Session \/ Support \/ Chat \/ TermsPart \/ Storing

MCSpec == MCInit /\ [][MCNext]_walletParts

(* DemandTerms and TransactionStorage: what is typed is what is sent, and  *)
(* what is stored is what is restored.                                     *)
NothingIsAltered == TermsAreKept /\ RestoredAsSaved
===============================================================================
