------------------------- MODULE DurablePaymentProofs -------------------------
(***************************************************************************)
(* PaymentInv is inductive.  The steps of a handler are all alike to the   *)
(* other handlers and the other rows (HandlerStep), and so are the changes *)
(* that the operator and a restart make (RowStep); what is left of each    *)
(* action is its own row and its own handler.                              *)
(*                                                                         *)
(* From it follow the safety properties, for any number of requests,       *)
(* authorizations, keys, transactions and restarts, and that the code pays *)
(* once in the sense of PaidOnce.                                          *)
(***************************************************************************)
EXTENDS DurablePaymentProperties, FiniteSetTheorems, TLAPS

-------------------------------------------------------------------------------
(* What the operators on rows return.                                      *)

(* A transition changes one row, and of it the state, the hash and the     *)
(* time (store.transition).                                                *)
LEMMA MovedFacts ==
    ASSUME TypeOK, NEW a \in Auth, NEW to \in State, NEW hash \in Hash \cup {NoHash}
    PROVE  /\ Moved(a, to, hash) \in [Auth -> Row]
           /\ \A b \in Auth : b # a => Moved(a, to, hash)[b] = rows[b]
           /\ Moved(a, to, hash)[a].id = rows[a].id
           /\ Moved(a, to, hash)[a].key = rows[a].key
           /\ Moved(a, to, hash)[a].state = to
           /\ Moved(a, to, hash)[a].hash = IF hash = NoHash THEN rows[a].hash ELSE hash
  <1>. DEFINE x == IF hash = NoHash THEN rows[a].hash ELSE hash
  <1>. DEFINE r == [rows[a] EXCEPT !.state = to, !.updated = now, !.hash = x]
  <1>1. rows[a] \in Row
    BY DEF TypeOK
  <1>2. x \in Hash \cup {NoHash} /\ now \in Nat
    BY <1>1, PaymentAssumption DEF Row, TypeOK, Time
  <1>3. Moved(a, to, hash) = [rows EXCEPT ![a] = r]
    BY DEF Moved
  <1>. HIDE DEF x
  <1>4. r \in Row /\ r.id = rows[a].id /\ r.key = rows[a].key /\ r.state = to /\ r.hash = x
    BY <1>1, <1>2 DEF Row
  <1>. HIDE DEF r
  <1>. QED
    BY <1>3, <1>4 DEF TypeOK, x

(* Interruption turns open rows into unknown ones (recoverInterrupted).    *)
LEMMA InterruptedFacts ==
    ASSUME TypeOK
    PROVE  /\ Interrupted \in [Auth -> Row]
           /\ \A a \in Auth :
                  IF rows[a].state \in Interruptible
                  THEN /\ Interrupted[a].state = "UNKNOWN"
                       /\ Interrupted[a].id = rows[a].id
                       /\ Interrupted[a].key = rows[a].key
                       /\ Interrupted[a].hash = rows[a].hash
                  ELSE Interrupted[a] = rows[a]
  <1>1. ASSUME NEW a \in Auth
        PROVE  /\ Interrupted[a] \in Row
               /\ IF rows[a].state \in Interruptible
                  THEN /\ Interrupted[a].state = "UNKNOWN"
                       /\ Interrupted[a].id = rows[a].id
                       /\ Interrupted[a].key = rows[a].key
                       /\ Interrupted[a].hash = rows[a].hash
                  ELSE Interrupted[a] = rows[a]
    <2>1. rows[a] \in Row
      BY DEF TypeOK
    <2>2. CASE rows[a].state \in Interruptible
      <3>1. Interrupted[a] = [id |-> rows[a].id, key |-> rows[a].key, state |-> "UNKNOWN",
                              hash |-> rows[a].hash, updated |-> now]
        BY <2>1, <2>2 DEF Interrupted, Row
      <3>. QED
        BY <2>1, <2>2, <3>1, PaymentAssumption DEF Row, State, TypeOK, Time
    <2>3. CASE rows[a].state \notin Interruptible
      BY <2>1, <2>3 DEF Interrupted
    <2>. QED
      BY <2>2, <2>3
  <1>. QED
    BY <1>1 DEF Interrupted

(* Giving a key back changes nothing but keys of cancelled rows (reserve). *)
LEMMA ReclaimedFacts ==
    ASSUME TypeOK, NEW key \in LogicalKey \cup {NoKey}
    PROVE  /\ KeyReclaimed(key) \in [Auth -> Row]
           /\ \A a \in Auth :
                  /\ KeyReclaimed(key)[a].id = rows[a].id
                  /\ KeyReclaimed(key)[a].state = rows[a].state
                  /\ KeyReclaimed(key)[a].hash = rows[a].hash
                  /\ \/ KeyReclaimed(key)[a] = rows[a]
                     \/ KeyReclaimed(key)[a].key = NoKey /\ rows[a].state = "CANCELLED"
  <1>1. ASSUME NEW a \in Auth
        PROVE  /\ KeyReclaimed(key)[a] \in Row
               /\ KeyReclaimed(key)[a].id = rows[a].id
               /\ KeyReclaimed(key)[a].state = rows[a].state
               /\ KeyReclaimed(key)[a].hash = rows[a].hash
               /\ \/ KeyReclaimed(key)[a] = rows[a]
                  \/ KeyReclaimed(key)[a].key = NoKey /\ rows[a].state = "CANCELLED"
    <2>1. rows[a] \in Row
      BY DEF TypeOK
    <2>2. CASE key # NoKey /\ rows[a].key = key /\ rows[a].state = "CANCELLED"
               /\ rows[a].hash = NoHash
      <3>1. KeyReclaimed(key)[a] = [id |-> rows[a].id, key |-> NoKey, state |-> rows[a].state,
                                    hash |-> rows[a].hash, updated |-> rows[a].updated]
        BY <2>1, <2>2 DEF KeyReclaimed, Row
      <3>. QED
        BY <2>1, <2>2, <3>1 DEF Row
    <2>3. CASE ~(key # NoKey /\ rows[a].key = key /\ rows[a].state = "CANCELLED"
                 /\ rows[a].hash = NoHash)
      <3>1. KeyReclaimed(key)[a] = rows[a]
        BY <2>3 DEF KeyReclaimed
      <3>. QED
        BY <2>1, <3>1
    <2>. QED
      BY <2>2, <2>3
  <1>2. KeyReclaimed(key) = [a \in Auth |-> KeyReclaimed(key)[a]]
    BY DEF KeyReclaimed
  <1>. HIDE DEF KeyReclaimed
  <1>. QED
    BY <1>1, <1>2

(* The empty row is a row.                                                 *)
LEMMA NoRowFacts ==
    /\ NoRow \in Row
    /\ NoRow.id = NoHandler /\ NoRow.hash = NoHash /\ NoRow.state = "ABSENT"
  BY PaymentAssumption DEF NoRow, Row, State

-------------------------------------------------------------------------------
(* What a step of one handler means for everything else.                   *)

(* Only the handler itself moves.                                          *)
OthersRest(h) ==
    /\ request' = request /\ now' = now /\ chain' = chain
    /\ up' = up /\ (~broken' => ~broken)
    /\ \A g \in Handler : g # h =>
           /\ pc'[g] = pc[g] /\ observed'[g] = observed[g]
           /\ (g \in handedOver' <=> g \in handedOver)
           /\ (g \in released' <=> g \in released)

(* Only its own row may change, and only while it is there and the         *)
(* handler's.                                                              *)
HandlerFrame(h) ==
    LET a == AuthOf(h)
    IN  /\ OthersRest(h)
        /\ \A b \in Auth : b # a => rows'[b] = rows[b]
        /\ \/ rows'[a] = rows[a]
           \/ /\ rows[a].id = h /\ rows'[a].id = h
              /\ rows[a].state # "ABSENT" /\ rows'[a].state # "ABSENT"
              /\ rows'[a].key = rows[a].key
        /\ h \in Committed' =>
               h \in Committed \/ (rows[a].id = h /\ rows[a].state # "ABSENT")

(* A step of one handler that keeps what is said of it and of its row.     *)
LEMMA HandlerStep ==
    ASSUME PaymentInv, TypeOK', NEW h \in Handler, HandlerFrame(h),
           NEW a \in Auth, a = AuthOf(h), RowInv(a)', HandlerInv(h)'
    PROVE  PaymentInv'
  <1>1. /\ \A g \in Handler : AuthOf(g)' = AuthOf(g) /\ KeyOf(g)' = KeyOf(g)
        /\ \A g \in Handler : AuthOf(g) \in Auth
        /\ a \in Auth
    BY DEF HandlerFrame, OthersRest, PaymentInv, TypeOK, Request, AuthOf, KeyOf
  <1>2. ASSUME NEW b \in Auth, b # a
        PROVE  RowInv(b)'
    <2>1. rows'[b] = rows[b] /\ up' = up /\ (~broken' => ~broken) /\ chain' = chain
      BY <1>2 DEF HandlerFrame, OthersRest
    <2>2. RowInv(b) /\ rows[b].state \in State
      BY DEF PaymentInv, TypeOK, Row
    <2>3. CASE rows[b].state = "ABSENT"
      BY <2>1, <2>2, <2>3 DEF RowInv, RowOwned, RowHash, RowCharged, RowAttended
    <2>4. CASE rows[b].state # "ABSENT"
      <3>1. /\ rows[b].id \in Handler /\ AuthOf(rows[b].id) = b
        BY <2>2, <2>4 DEF RowInv, RowOwned
      <3>2. rows[b].id # h
        BY <3>1, <1>2
      <3>3. /\ pc'[rows[b].id] = pc[rows[b].id]
            /\ observed'[rows[b].id] = observed[rows[b].id]
        BY <3>1, <3>2 DEF HandlerFrame, OthersRest
      <3>4. AuthOf(rows[b].id)' = b /\ KeyOf(rows[b].id)' = KeyOf(rows[b].id)
        BY <3>1, <1>1, <2>1 DEF AuthOf, KeyOf
      <3>. QED
        BY <2>1, <2>2, <2>4, <3>1, <3>3, <3>4
           DEF RowInv, RowOwned, RowHash, RowCharged, RowAttended
    <2>. QED
      BY <2>3, <2>4
  <1>3. ASSUME NEW g \in Handler, g # h
        PROVE  HandlerInv(g)' /\ (g \in Committed' <=> g \in Committed)
    <2>1. /\ pc'[g] = pc[g] /\ observed'[g] = observed[g] /\ chain' = chain /\ now' = now
          /\ (g \in handedOver' <=> g \in handedOver)
          /\ (g \in released' <=> g \in released)
      BY <1>3 DEF HandlerFrame, OthersRest
    <2>2. HandlerInv(g) /\ AuthOf(g)' = AuthOf(g) /\ KeyOf(g)' = KeyOf(g) /\ AuthOf(g) \in Auth
      BY <1>1 DEF PaymentInv
    <2>3. g \in Committed' <=> g \in Committed
      BY <2>1 DEF Committed
    <2>4. CASE rows'[AuthOf(g)] = rows[AuthOf(g)]
      BY <2>1, <2>2, <2>3, <2>4 DEF HandlerInv, PathSound, Kept, Paying
    <2>5. CASE rows'[AuthOf(g)] # rows[AuthOf(g)]
      <3>1. /\ AuthOf(g) = a
            /\ rows[a].id = h /\ rows'[a].id = h
            /\ rows[a].state # "ABSENT" /\ rows'[a].state # "ABSENT"
        BY <2>5, <2>2 DEF HandlerFrame, OthersRest
      <3>2. g \notin Committed /\ ~Kept(g) /\ ~Paying(g)
        BY <3>1, <2>2, <1>3 DEF HandlerInv, Kept, Paying
      <3>. QED
        BY <2>1, <2>2, <2>3, <3>1, <3>2, <1>3 DEF HandlerInv, PathSound
    <2>. QED
      BY <2>3, <2>4, <2>5
  <1>4. KeysUnique'
    <2>1. \A b \in Auth : rows'[b].key = rows[b].key /\ (b \in Stored' <=> b \in Stored)
      BY DEF HandlerFrame, OthersRest, Stored
    <2>2. KeysUnique /\ Stored \subseteq Auth /\ Stored' \subseteq Auth
      BY DEF PaymentInv, Stored
    <2>. QED
      BY <2>1, <2>2 DEF KeysUnique
  <1>5. CommittedOnce'
    <2>1. SUFFICES ASSUME NEW f \in Committed', NEW g \in Committed',
                          AuthOf(f)' = AuthOf(g)', f # g
                   PROVE  FALSE
      BY DEF CommittedOnce
    <2>2. f \in Handler /\ g \in Handler
      BY DEF Committed, TypeOK
    <2>3. AuthOf(f) = AuthOf(g)
      BY <2>1, <2>2, <1>1
    <2>4. ASSUME NEW k \in Handler, k # h, k \in Committed', AuthOf(k) = a, h \in Committed'
          PROVE  FALSE
      <3>1. k \in Committed
        BY <2>4, <1>3
      <3>2. h \notin Committed
        BY <2>4, <3>1 DEF PaymentInv, CommittedOnce
      <3>3. rows[a].id = h /\ rows[a].state # "ABSENT"
        BY <2>4, <3>2 DEF HandlerFrame, OthersRest
      <3>4. Kept(k)
        BY <3>1 DEF PaymentInv, HandlerInv
      <3>. QED
        BY <2>4, <3>3, <3>4 DEF Kept
    <2>5. CASE f = h \/ g = h
      BY <2>1, <2>2, <2>3, <2>4, <2>5
    <2>6. CASE f # h /\ g # h
      BY <2>1, <2>2, <2>3, <2>6, <1>3 DEF PaymentInv, CommittedOnce
    <2>. QED
      BY <2>5, <2>6
  <1>6. \A b \in Auth : RowInv(b)'
    BY <1>2
  <1>7. \A g \in Handler : HandlerInv(g)'
    BY <1>3
  <1>. QED
    BY <1>4, <1>5, <1>6, <1>7 DEF PaymentInv

-------------------------------------------------------------------------------
(* What a change of the rows by the operator or at a start means.          *)

(* A row stays, or an open or unknown one is resolved, or an outdated one  *)
(* is removed.                                                             *)
Resolved(a) ==
    /\ rows[a].state \in Interruptible \cup {"UNKNOWN"}
    /\ rows'[a].state \in {"UNKNOWN", "FAILED", "SETTLED"}
    /\ rows'[a].id = rows[a].id /\ rows'[a].key = rows[a].key
    /\ rows'[a].hash = rows[a].hash
    /\ rows'[a].state = "SETTLED" => rows[a].hash # NoHash /\ chain[rows[a].hash] = a

Removed(a) ==
    rows[a].state \in Terminal /\ ValidBefore[a] < now /\ rows'[a] = NoRow

RowFrame ==
    /\ UNCHANGED <<now, handlers, world>>
    /\ \A a \in Auth : rows'[a] = rows[a] \/ Resolved(a) \/ Removed(a)
    /\ \/ up' = up /\ broken' = broken
       \/ \A a \in Auth : rows'[a].state \notin Interruptible

(* A step that changes rows and no handler.                                *)
LEMMA RowStep ==
    ASSUME PaymentInv, TypeOK', RowFrame
    PROVE  PaymentInv'
  <1>1. /\ now' = now /\ request' = request /\ pc' = pc /\ observed' = observed
        /\ handedOver' = handedOver /\ released' = released /\ chain' = chain
    BY DEF RowFrame, handlers, world
  <1>2. /\ \A g \in Handler : AuthOf(g)' = AuthOf(g) /\ KeyOf(g)' = KeyOf(g)
        /\ \A g \in Handler : AuthOf(g) \in Auth
        /\ Committed' = Committed
    BY <1>1 DEF PaymentInv, TypeOK, Request, AuthOf, KeyOf, Committed
  <1>3. ASSUME NEW a \in Auth
        PROVE  RowInv(a)'
    <2>1. RowInv(a)
      BY DEF PaymentInv
    <2>2. CASE rows'[a] = rows[a]
      BY <1>1, <2>1, <2>2 DEF RowInv, RowOwned, RowHash, RowCharged, RowAttended, RowFrame,
         AuthOf, KeyOf, Interruptible
    <2>3. CASE Resolved(a)
      BY <1>1, <2>1, <2>3 DEF Resolved, RowInv, RowOwned, RowHash, RowCharged, RowAttended,
         AuthOf, KeyOf, Interruptible
    <2>4. CASE Removed(a)
      BY <2>4, NoRowFacts DEF Removed, RowInv, RowOwned, RowHash, RowCharged, RowAttended
    <2>. QED
      BY <2>2, <2>3, <2>4 DEF RowFrame
  <1>4. ASSUME NEW h \in Handler
        PROVE  HandlerInv(h)'
    <2>. DEFINE a == AuthOf(h)
    <2>1. HandlerInv(h) /\ a \in Auth /\ AuthOf(h)' = a /\ KeyOf(h)' = KeyOf(h)
      BY <1>2 DEF PaymentInv
    <2>2. CASE rows'[a] = rows[a]
      BY <1>1, <1>2, <2>1, <2>2 DEF HandlerInv, PathSound, Kept, Paying
    <2>3. CASE Resolved(a)
      <3>1. rows[a].state \notin {"ABSENT", "SETTLED", "CANCELLED"}
        BY <2>3 DEF Resolved, Interruptible
      <3>2. h \in Committed => Kept(h)'
        BY <1>1, <2>1, <2>3, <3>1 DEF HandlerInv, Kept, Resolved
      <3>3. ~Paying(h) /\ PathSound(h)'
        BY <1>1, <2>1, <2>3, <3>1 DEF HandlerInv, PathSound, Paying, Resolved
      <3>. QED
        BY <1>1, <1>2, <2>1, <3>2, <3>3 DEF HandlerInv
    <2>4. CASE Removed(a)
      <3>1. rows'[a].state = "ABSENT" /\ rows'[a].id # h /\ ValidBefore[a] < now'
        BY <1>1, <2>4, NoRowFacts, PaymentAssumption DEF Removed
      <3>2. Kept(h)' /\ PathSound(h)'
        BY <1>1, <2>1, <3>1 DEF HandlerInv, PathSound, Kept
      <3>3. Paying(h) => Paying(h)'
        BY <1>1, <2>1, <3>1 DEF Paying
      <3>. QED
        BY <1>1, <1>2, <2>1, <3>2, <3>3 DEF HandlerInv
    <2>. QED
      BY <2>1, <2>2, <2>3, <2>4 DEF RowFrame
  <1>5. KeysUnique'
    <2>1. \A a \in Stored' : a \in Stored /\ rows'[a].key = rows[a].key
      BY NoRowFacts DEF RowFrame, Resolved, Removed, Stored, Interruptible
    <2>. QED
      BY <2>1 DEF KeysUnique, PaymentInv
  <1>6. CommittedOnce'
    BY <1>1, <1>2 DEF PaymentInv, CommittedOnce, AuthOf
  <1>. QED
    BY <1>3, <1>4, <1>5, <1>6 DEF PaymentInv

-------------------------------------------------------------------------------
(* Every step keeps the types.                                             *)

LEMMA RequestFacts ==
    ASSUME TypeOK, NEW h \in Handler
    PROVE  /\ AuthOf(h) \in Auth /\ KeyOf(h) \in LogicalKey \cup {NoKey}
           /\ rows[AuthOf(h)] \in Row
           /\ now \in Nat /\ observed[h] \in Hash \cup {NoHash}
  BY PaymentAssumption DEF TypeOK, Request, AuthOf, KeyOf, Time

(* The cleanup takes away final rows past their time and nothing else.     *)
LEMMA CleanedFacts ==
    ASSUME NEW table \in [Auth -> Row]
    PROVE  /\ Cleaned(table) \in [Auth -> Row]
           /\ \A a \in Auth :
                  \/ Cleaned(table)[a] = table[a]
                  \/ /\ Cleaned(table)[a] = NoRow
                     /\ table[a].state \in Terminal /\ ValidBefore[a] < now
  BY NoRowFacts DEF Cleaned, Outdated

(* A reservation writes its own row, after the reclaim of its key.         *)
LEMMA ReservedFacts ==
    ASSUME TypeOK, NEW h \in Handler, Reserve(h)
    PROVE  /\ rows' \in [Auth -> Row]
           /\ rows'[AuthOf(h)] = [id |-> h, key |-> KeyOf(h), state |-> "VERIFIED",
                                  hash |-> NoHash, updated |-> now]
           /\ \A b \in Auth : b # AuthOf(h) => rows'[b] = KeyReclaimed(KeyOf(h))[b]
  <1>. DEFINE r == [id |-> h, key |-> KeyOf(h), state |-> "VERIFIED",
                    hash |-> NoHash, updated |-> now]
  <1>1. AuthOf(h) \in Auth /\ r \in Row
    BY RequestFacts DEF Row, State, Interruptible
  <1>2. KeyReclaimed(KeyOf(h)) \in [Auth -> Row]
    BY RequestFacts, ReclaimedFacts
  <1>3. rows' = [KeyReclaimed(KeyOf(h)) EXCEPT ![AuthOf(h)] = r]
    BY DEF Reserve
  <1>. HIDE DEF r
  <1>4. /\ rows' \in [Auth -> Row] /\ rows'[AuthOf(h)] = r
        /\ \A b \in Auth : b # AuthOf(h) => rows'[b] = KeyReclaimed(KeyOf(h))[b]
    BY <1>1, <1>2, <1>3
  <1>. QED
    BY <1>4 DEF r

(* No step of a handler leaves the types.                                  *)
LEMMA HandlerTyping ==
    ASSUME TypeOK, NEW h \in Handler, Arrive(h) \/ Proceed(h) \/ StoreFails(h)
    PROVE  TypeOK'
  <1>. USE DEF Unmoved, process, handlers, world
  <1>. DEFINE a == AuthOf(h)
  <1>0. /\ a \in Auth /\ rows[a] \in Row /\ observed[h] \in Hash \cup {NoHash}
        /\ {"VERIFIED", "SETTLEMENT_IN_FLIGHT", "UNKNOWN", "SETTLED", "CANCELLED"} \subseteq State
    BY RequestFacts DEF State, Interruptible, Terminal
  <1>1. ASSUME NEW to \in State, NEW hash \in Hash \cup {NoHash}
        PROVE  Moved(a, to, hash) \in [Auth -> Row]
    BY <1>0, <1>1, MovedFacts
  <1>2. CASE Arrive(h)
    BY <1>2 DEF TypeOK, Arrive, Goto, Step
  <1>3. CASE Refuse(h)
    BY <1>3 DEF TypeOK, Refuse, Goto, Step
  <1>4. CASE Verified(h)
    BY <1>4, ReservedFacts DEF TypeOK, Verified, Goto, Step
  <1>5. CASE Abandon(h)
    <2>1. rows' \in [Auth -> Row]
      BY <1>0, <1>1, <1>5 DEF Abandon, TypeOK
    <2>. QED
      BY <1>5, <2>1 DEF TypeOK, Abandon, Goto, Step
  <1>6. CASE BeginSettle(h)
    <2>1. rows' \in [Auth -> Row]
      BY <1>0, <1>1, <1>6 DEF BeginSettle, TypeOK
    <2>. QED
      BY <1>6, <2>1 DEF TypeOK, BeginSettle, Goto, Step
  <1>7. CASE CallSettle(h)
    BY <1>7 DEF TypeOK, CallSettle, Goto, Step
  <1>8. CASE \E hash \in Hash \cup {NoHash} : SettleAnswers(h, hash)
    BY <1>8 DEF TypeOK, SettleAnswers, Goto, Step
  <1>9. CASE SettleLost(h)
    BY <1>9 DEF TypeOK, SettleLost, Goto, Step
  <1>10. CASE Checkpoint(h)
    <2>1. rows' \in [Auth -> Row]
      BY <1>0, <1>1, <1>10 DEF Checkpoint, TypeOK
    <2>. QED
      BY <1>10, <2>1 DEF TypeOK, Checkpoint, Goto, Step
  <1>11. CASE Poll(h)
    BY <1>11 DEF TypeOK, Poll, Goto, Step
  <1>12. CASE Unconfirmed(h)
    <2>1. rows' \in [Auth -> Row]
      BY <1>0, <1>1, <1>12 DEF Unconfirmed, TypeOK
    <2>. QED
      BY <1>12, <2>1 DEF TypeOK, Unconfirmed, Goto, Step
  <1>13. CASE Read(h)
    BY <1>13 DEF TypeOK, Read, Goto, Step
  <1>14. CASE Confirm(h)
    BY <1>14 DEF TypeOK, Confirm, Goto, Step
  <1>15. CASE Settle(h)
    <2>1. rows' \in [Auth -> Row]
      BY <1>0, <1>1, <1>15 DEF Settle, TypeOK
    <2>. QED
      BY <1>15, <2>1 DEF TypeOK, Settle, Goto, Step
  <1>16. CASE Release(h)
    BY <1>16 DEF TypeOK, Release, Goto, Step
  <1>17. CASE Fail(h)
    <2>1. rows' \in [Auth -> Row]
      BY <1>0, <1>1, <1>17 DEF Fail, TypeOK
    <2>. QED
      BY <1>17, <2>1 DEF TypeOK, Fail, Goto, Step
  <1>18. CASE StoreFails(h)
    BY <1>18 DEF TypeOK, StoreFails, Goto, Step
  <1>. QED
    BY <1>2, <1>3, <1>4, <1>5, <1>6, <1>7, <1>8, <1>9, <1>10, <1>11, <1>12, <1>13, <1>14,
       <1>15, <1>16, <1>17, <1>18 DEF Proceed

-------------------------------------------------------------------------------
(* The two kinds of steps of a handler: one that leaves the rows alone ... *)

LEMMA QuietStep ==
    ASSUME PaymentInv, TypeOK', NEW h \in Handler, OthersRest(h), rows' = rows,
           h \in Committed' => h \in Committed,
           NEW a \in Auth, a = AuthOf(h),
           rows[a].id = h => RowInv(a)',
           HandlerInv(h)'
    PROVE  PaymentInv'
  <1>1. HandlerFrame(h)
    BY DEF HandlerFrame
  <1>2. ASSUME rows[a].id # h
        PROVE  RowInv(a)'
    <2>1. RowInv(a) /\ rows[a].state \in State
      BY DEF PaymentInv, TypeOK, Row
    <2>2. CASE rows[a].state = "ABSENT"
      BY <2>1, <2>2 DEF RowInv, RowOwned, RowHash, RowCharged, RowAttended
    <2>3. CASE rows[a].state # "ABSENT"
      <3>1. rows[a].id \in Handler
        BY <2>1, <2>3 DEF RowInv, RowOwned
      <3>. QED
        BY <1>2, <2>1, <2>3, <3>1 DEF RowInv, RowOwned, RowHash, RowCharged, RowAttended,
           OthersRest, AuthOf, KeyOf
    <2>. QED
      BY <2>2, <2>3
  <1>. QED
    BY <1>1, <1>2, HandlerStep

(* ... and one that moves its own row.                                     *)
LEMMA MovingStep ==
    ASSUME PaymentInv, TypeOK', NEW h \in Handler, OthersRest(h),
           NEW a \in Auth, a = AuthOf(h),
           NEW from \in State \ {"ABSENT"}, NEW to \in State \ {"ABSENT"},
           NEW hash \in Hash \cup {NoHash},
           CanMove(a, h, from, hash), rows' = Moved(a, to, hash),
           RowInv(a)', HandlerInv(h)'
    PROVE  PaymentInv'
  <1>1. TypeOK
    BY DEF PaymentInv
  <1>2. HandlerFrame(h)
    BY <1>1, MovedFacts DEF HandlerFrame, CanMove
  <1>. QED
    BY <1>2, HandlerStep

(* A request arrives.                                                      *)
LEMMA ArriveKeeps ==
    ASSUME PaymentInv, TypeOK', NEW h \in Handler, Arrive(h)
    PROVE  PaymentInv'
  <1>. DEFINE a == AuthOf(h)
  <1>1. /\ TypeOK /\ a \in Auth /\ RowInv(a) /\ HandlerInv(h)
    BY RequestFacts DEF PaymentInv
  <1>2. /\ pc[h] = "idle" /\ pc'[h] = "verifying" /\ OthersRest(h) /\ rows' = rows
        /\ observed' = observed /\ handedOver' = handedOver /\ released' = released
    BY <1>1 DEF Arrive, At, Goto, Unmoved, process, world, OthersRest, TypeOK
  <1>3. rows[a].id # h
    BY <1>1, <1>2, PaymentAssumption DEF RowInv, RowOwned
  <1>4. HandlerInv(h)' /\ (h \in Committed' => h \in Committed)
    BY <1>1, <1>2 DEF HandlerInv, PathSound, Kept, Paying, Committed, PastSettleCall,
       PastCheckpoint, OthersRest, AuthOf, KeyOf
  <1>. QED
    BY <1>1, <1>2, <1>3, <1>4, QuietStep

(* The payment is refused and nothing written.                             *)
LEMMA RefuseKeeps ==
    ASSUME PaymentInv, TypeOK', NEW h \in Handler, Refuse(h)
    PROVE  PaymentInv'
  <1>. SUFFICES ASSUME NEW a \in Auth, a = AuthOf(h)
               PROVE  PaymentInv'
    BY RequestFacts DEF PaymentInv
  <1>1. TypeOK /\ RowInv(a) /\ HandlerInv(h)
    BY DEF PaymentInv
  <1>2. /\ pc[h] = "verifying" /\ pc'[h] = "done"
        /\ OthersRest(h) /\ rows' = rows
        /\ observed' = observed /\ handedOver' = handedOver /\ released' = released
    BY <1>1 DEF Refuse, At, Goto, Unmoved, process, world, OthersRest, TypeOK
  <1>3. rows[a].id = h => RowInv(a)'
    BY <1>1, <1>2, PaymentAssumption DEF RowInv, RowOwned, RowHash, RowCharged, RowAttended, Holding,
       Step, PastCheckpoint, OthersRest, AuthOf, KeyOf
  <1>4. HandlerInv(h)' /\ (h \in Committed' => h \in Committed)
    BY <1>1, <1>2 DEF HandlerInv, PathSound, Kept, Paying, Committed, PastSettleCall,
       PastCheckpoint, OthersRest, AuthOf, KeyOf
  <1>. QED
    BY <1>1, <1>2, <1>3, <1>4, QuietStep

(* The facilitator is called.                                              *)
LEMMA CallSettleKeeps ==
    ASSUME PaymentInv, TypeOK', NEW h \in Handler, CallSettle(h)
    PROVE  PaymentInv'
  <1>. SUFFICES ASSUME NEW a \in Auth, a = AuthOf(h)
               PROVE  PaymentInv'
    BY RequestFacts DEF PaymentInv
  <1>1. TypeOK /\ RowInv(a) /\ HandlerInv(h)
    BY DEF PaymentInv
  <1>2. /\ pc[h] = "inFlight" /\ pc'[h] = "settling"
        /\ OthersRest(h) /\ rows' = rows
        /\ observed' = observed /\ handedOver' = handedOver \cup {h} /\ released' = released
    BY <1>1 DEF CallSettle, At, Goto, Unmoved, process, world, OthersRest, TypeOK
  <1>3. rows[a].id = h => RowInv(a)'
    BY <1>1, <1>2, PaymentAssumption DEF RowInv, RowOwned, RowHash, RowCharged, RowAttended, Holding,
       Step, PastCheckpoint, OthersRest, AuthOf, KeyOf
  <1>4. HandlerInv(h)' /\ (h \in Committed' => h \in Committed)
    BY <1>1, <1>2 DEF HandlerInv, PathSound, Kept, Paying, Committed, PastSettleCall,
       PastCheckpoint, OthersRest, AuthOf, KeyOf
  <1>. QED
    BY <1>1, <1>2, <1>3, <1>4, QuietStep

(* Its answer is lost.                                                     *)
LEMMA SettleLostKeeps ==
    ASSUME PaymentInv, TypeOK', NEW h \in Handler, SettleLost(h)
    PROVE  PaymentInv'
  <1>. SUFFICES ASSUME NEW a \in Auth, a = AuthOf(h)
               PROVE  PaymentInv'
    BY RequestFacts DEF PaymentInv
  <1>1. TypeOK /\ RowInv(a) /\ HandlerInv(h)
    BY DEF PaymentInv
  <1>2. /\ pc[h] = "settling" /\ pc'[h] = "failing"
        /\ OthersRest(h) /\ rows' = rows
        /\ observed' = observed /\ handedOver' = handedOver /\ released' = released
    BY <1>1 DEF SettleLost, At, Goto, Unmoved, process, world, OthersRest, TypeOK
  <1>3. rows[a].id = h => RowInv(a)'
    BY <1>1, <1>2, PaymentAssumption DEF RowInv, RowOwned, RowHash, RowCharged, RowAttended, Holding,
       Step, PastCheckpoint, OthersRest, AuthOf, KeyOf
  <1>4. HandlerInv(h)' /\ (h \in Committed' => h \in Committed)
    BY <1>1, <1>2 DEF HandlerInv, PathSound, Kept, Paying, Committed, PastSettleCall,
       PastCheckpoint, OthersRest, AuthOf, KeyOf
  <1>. QED
    BY <1>1, <1>2, <1>3, <1>4, QuietStep

(* A pending settlement is polled.                                         *)
LEMMA PollKeeps ==
    ASSUME PaymentInv, TypeOK', NEW h \in Handler, Poll(h)
    PROVE  PaymentInv'
  <1>. SUFFICES ASSUME NEW a \in Auth, a = AuthOf(h)
               PROVE  PaymentInv'
    BY RequestFacts DEF PaymentInv
  <1>1. TypeOK /\ RowInv(a) /\ HandlerInv(h)
    BY DEF PaymentInv
  <1>2. /\ pc[h] = "polling" /\ pc'[h] \in {"reading", "unconfirmed"}
        /\ OthersRest(h) /\ rows' = rows
        /\ observed' = observed /\ handedOver' = handedOver /\ released' = released
    BY <1>1 DEF Poll, At, Goto, Unmoved, process, world, OthersRest, TypeOK
  <1>3. rows[a].id = h => RowInv(a)'
    BY <1>1, <1>2, PaymentAssumption DEF RowInv, RowOwned, RowHash, RowCharged, RowAttended, Holding,
       Step, PastCheckpoint, OthersRest, AuthOf, KeyOf
  <1>4. HandlerInv(h)' /\ (h \in Committed' => h \in Committed)
    BY <1>1, <1>2 DEF HandlerInv, PathSound, Kept, Paying, Committed, PastSettleCall,
       PastCheckpoint, OthersRest, AuthOf, KeyOf
  <1>. QED
    BY <1>1, <1>2, <1>3, <1>4, QuietStep

(* The row is read again for its hash.                                     *)
LEMMA ReadKeeps ==
    ASSUME PaymentInv, TypeOK', NEW h \in Handler, Read(h)
    PROVE  PaymentInv'
  <1>. SUFFICES ASSUME NEW a \in Auth, a = AuthOf(h)
               PROVE  PaymentInv'
    BY RequestFacts DEF PaymentInv
  <1>1. TypeOK /\ RowInv(a) /\ HandlerInv(h)
    BY DEF PaymentInv
  <1>2. /\ pc[h] = "reading" /\ pc'[h] \in {"confirming", "failing"}
        /\ (pc'[h] = "confirming" => rows[a].hash = observed[h])
        /\ OthersRest(h) /\ rows' = rows
        /\ observed' = observed /\ handedOver' = handedOver /\ released' = released
    BY <1>1 DEF Read, At, Goto, Unmoved, process, world, OthersRest, TypeOK
  <1>3. rows[a].id = h => RowInv(a)'
    BY <1>1, <1>2, PaymentAssumption DEF RowInv, RowOwned, RowHash, RowCharged, RowAttended, Holding,
       Step, PastCheckpoint, OthersRest, AuthOf, KeyOf
  <1>4. HandlerInv(h)' /\ (h \in Committed' => h \in Committed)
    BY <1>1, <1>2 DEF HandlerInv, PathSound, Kept, Paying, Committed, PastSettleCall,
       PastCheckpoint, OthersRest, AuthOf, KeyOf
  <1>. QED
    BY <1>1, <1>2, <1>3, <1>4, QuietStep

(* The transfer is proved from the chain, or not.                          *)
LEMMA ConfirmKeeps ==
    ASSUME PaymentInv, TypeOK', NEW h \in Handler, Confirm(h)
    PROVE  PaymentInv'
  <1>. SUFFICES ASSUME NEW a \in Auth, a = AuthOf(h)
               PROVE  PaymentInv'
    BY RequestFacts DEF PaymentInv
  <1>1. TypeOK /\ RowInv(a) /\ HandlerInv(h)
    BY DEF PaymentInv
  <1>2. /\ pc[h] = "confirming" /\ pc'[h] \in {"confirmed", "unconfirmed", "failing"}
        /\ (pc'[h] = "confirmed" => chain[observed[h]] = a)
        /\ OthersRest(h) /\ rows' = rows
        /\ observed' = observed /\ handedOver' = handedOver /\ released' = released
    BY <1>1 DEF Confirm, At, Goto, Unmoved, process, world, OthersRest, TypeOK
  <1>3. rows[a].id = h => RowInv(a)'
    BY <1>1, <1>2, PaymentAssumption DEF RowInv, RowOwned, RowHash, RowCharged, RowAttended, Holding,
       Step, PastCheckpoint, OthersRest, AuthOf, KeyOf
  <1>4. HandlerInv(h)' /\ (h \in Committed' => h \in Committed)
    BY <1>1, <1>2 DEF HandlerInv, PathSound, Kept, Paying, Committed, PastSettleCall,
       PastCheckpoint, OthersRest, AuthOf, KeyOf
  <1>. QED
    BY <1>1, <1>2, <1>3, <1>4, QuietStep

(* The response is released.                                               *)
LEMMA ReleaseKeeps ==
    ASSUME PaymentInv, TypeOK', NEW h \in Handler, Release(h)
    PROVE  PaymentInv'
  <1>. SUFFICES ASSUME NEW a \in Auth, a = AuthOf(h)
               PROVE  PaymentInv'
    BY RequestFacts DEF PaymentInv
  <1>1. TypeOK /\ RowInv(a) /\ HandlerInv(h)
    BY DEF PaymentInv
  <1>2. /\ pc[h] = "settled" /\ pc'[h] = "done"
        /\ OthersRest(h) /\ rows' = rows
        /\ observed' = observed /\ handedOver' = handedOver /\ released' = released \cup {h}
    BY <1>1 DEF Release, At, Goto, Unmoved, process, world, OthersRest, TypeOK
  <1>3. rows[a].id = h => RowInv(a)'
    BY <1>1, <1>2, PaymentAssumption DEF RowInv, RowOwned, RowHash, RowCharged, RowAttended, Holding,
       Step, PastCheckpoint, OthersRest, AuthOf, KeyOf
  <1>4. HandlerInv(h)' /\ (h \in Committed' => h \in Committed)
    BY <1>1, <1>2 DEF HandlerInv, PathSound, Kept, Paying, Committed, PastSettleCall,
       PastCheckpoint, OthersRest, AuthOf, KeyOf
  <1>. QED
    BY <1>1, <1>2, <1>3, <1>4, QuietStep

(* The facilitator answers.                                                *)
LEMMA SettleAnswersKeeps ==
    ASSUME PaymentInv, TypeOK', NEW h \in Handler, NEW hash \in Hash \cup {NoHash},
           SettleAnswers(h, hash)
    PROVE  PaymentInv'
  <1>. SUFFICES ASSUME NEW a \in Auth, a = AuthOf(h)
               PROVE  PaymentInv'
    BY RequestFacts DEF PaymentInv
  <1>1. TypeOK /\ RowInv(a) /\ HandlerInv(h) /\ observed[h] \in Hash \cup {NoHash}
    BY RequestFacts DEF PaymentInv
  <1>2. /\ pc[h] = "settling" /\ rows' = rows
        /\ pc'[h] = IF hash # NoHash THEN "checkpoint" ELSE "unconfirmed"
        /\ observed'[h] = hash
        /\ handedOver' = handedOver /\ released' = released
        /\ OthersRest(h)
    BY <1>1 DEF SettleAnswers, At, Goto, process, world, OthersRest, TypeOK
  <1>3. rows[a].id = h => RowInv(a)'
    BY <1>1, <1>2, PaymentAssumption DEF RowInv, RowOwned, RowHash, RowCharged, RowAttended, Holding,
       Step, PastCheckpoint, OthersRest, AuthOf, KeyOf
  <1>4. HandlerInv(h)' /\ (h \in Committed' => h \in Committed)
    BY <1>1, <1>2 DEF HandlerInv, PathSound, Kept, Paying, Committed, PastSettleCall,
       PastCheckpoint, OthersRest, AuthOf, KeyOf
  <1>. QED
    BY <1>1, <1>2, <1>3, <1>4, QuietStep

(* The store fails under a handler.                                        *)
LEMMA StoreFailsKeeps ==
    ASSUME PaymentInv, TypeOK', NEW h \in Handler, StoreFails(h)
    PROVE  PaymentInv'
  <1>. SUFFICES ASSUME NEW a \in Auth, a = AuthOf(h)
               PROVE  PaymentInv'
    BY RequestFacts DEF PaymentInv
  <1>1. TypeOK /\ RowInv(a) /\ HandlerInv(h) /\ observed[h] \in Hash \cup {NoHash}
    BY RequestFacts DEF PaymentInv
  <1>2. /\ \/ /\ pc[h] \in {"checkpoint", "unconfirmed", "reading", "confirmed"}
              /\ pc'[h] = "failing"
           \/ pc[h] \in {"reserved", "failing"} /\ pc'[h] = "done"
        /\ broken' /\ rows' = rows /\ observed' = observed
        /\ handedOver' = handedOver /\ released' = released
        /\ OthersRest(h)
    BY <1>1 DEF StoreFails, At, Goto, world, OthersRest, TypeOK
  <1>3. rows[a].id = h => RowInv(a)'
    BY <1>1, <1>2, PaymentAssumption DEF RowInv, RowOwned, RowHash, RowCharged, RowAttended,
       PastCheckpoint, OthersRest, AuthOf, KeyOf
  <1>4. HandlerInv(h)' /\ (h \in Committed' => h \in Committed)
    BY <1>1, <1>2 DEF HandlerInv, PathSound, Kept, Paying, Committed, PastSettleCall,
       PastCheckpoint, OthersRest, AuthOf, KeyOf
  <1>. QED
    BY <1>1, <1>2, <1>3, <1>4, QuietStep

(* A response that was not produced has its row cancelled.                 *)
LEMMA AbandonKeeps ==
    ASSUME PaymentInv, TypeOK', NEW h \in Handler, Abandon(h)
    PROVE  PaymentInv'
  <1>. SUFFICES ASSUME NEW a \in Auth, a = AuthOf(h)
               PROVE  PaymentInv'
    BY RequestFacts DEF PaymentInv
  <1>1. TypeOK /\ RowInv(a) /\ HandlerInv(h) /\ observed[h] \in Hash \cup {NoHash}
    BY RequestFacts DEF PaymentInv
  <1>2. /\ pc[h] = "reserved"
        /\ observed' = observed /\ handedOver' = handedOver /\ released' = released
        /\ OthersRest(h)
    BY <1>1 DEF Abandon, At, Goto, Unmoved, process, world, OthersRest, TypeOK
  <1>3. CASE CanMove(a, h, "VERIFIED", NoHash)
    <2>1. rows' = Moved(a, "CANCELLED", NoHash) /\ pc'[h] = "done"
      BY <1>1, <1>3 DEF Abandon, Goto, TypeOK
    <2>2. /\ "VERIFIED" \in State \ {"ABSENT"} /\ "CANCELLED" \in State \ {"ABSENT"}
          /\ NoHash \in Hash \cup {NoHash}
      BY <1>1, RequestFacts DEF State, Interruptible, Terminal
    <2>3. /\ rows'[a].id = h /\ rows'[a].key = rows[a].key /\ rows'[a].state = "CANCELLED"
          /\ rows'[a].hash = IF NoHash = NoHash THEN rows[a].hash ELSE NoHash
          /\ rows[a].id = h /\ rows[a].state = "VERIFIED"
          /\ (NoHash = NoHash \/ rows[a].hash \in {NoHash, NoHash})
      BY <1>1, <1>3, <2>1, <2>2, MovedFacts DEF CanMove
    <2>4. RowInv(a)'
      <3>1. RowHash(a)' /\ RowCharged(a)'
        BY <1>1, <1>2, <2>1, <2>3 DEF RowInv, RowHash, RowCharged, HandlerInv, PathSound,
           PastCheckpoint, OthersRest
      <3>2. RowOwned(a)' /\ RowAttended(a)'
        BY <1>1, <1>2, <2>1, <2>3, PaymentAssumption DEF RowInv, RowOwned, RowAttended,
           Holding, Step, OthersRest, AuthOf, KeyOf
      <3>. QED
        BY <3>1, <3>2 DEF RowInv
    <2>5. HandlerInv(h)'
      BY <1>1, <1>2, <2>1, <2>3 DEF HandlerInv, PathSound, Kept, Paying, Committed, RowInv,
         RowOwned, PastSettleCall, PastCheckpoint, OthersRest, AuthOf, KeyOf
    <2>. QED
      BY <1>1, <1>2, <1>3, <2>1, <2>2, <2>4, <2>5, MovingStep
  <1>4. CASE ~CanMove(a, h, "VERIFIED", NoHash)
    <2>1. rows' = rows /\ pc'[h] = "done"
      BY <1>1, <1>4 DEF Abandon, Goto, TypeOK
    <2>2. rows[a].id = h => RowInv(a)'
      BY <1>1, <1>2, <1>4, <2>1, PaymentAssumption DEF RowInv, RowOwned, RowHash, RowCharged,
         RowAttended, CanMove, PathSound, HandlerInv, Holding, Step, PastCheckpoint, OthersRest, AuthOf, KeyOf
    <2>3. HandlerInv(h)' /\ (h \in Committed' => h \in Committed)
      BY <1>1, <1>2, <2>1 DEF HandlerInv, PathSound, Kept, Paying, Committed, PastSettleCall,
         PastCheckpoint, OthersRest, AuthOf, KeyOf
    <2>. QED
      BY <1>1, <1>2, <2>1, <2>2, <2>3, QuietStep
  <1>. QED
    BY <1>3, <1>4

(* The row is claimed for a settlement.                                    *)
LEMMA BeginSettleKeeps ==
    ASSUME PaymentInv, TypeOK', NEW h \in Handler, BeginSettle(h)
    PROVE  PaymentInv'
  <1>. SUFFICES ASSUME NEW a \in Auth, a = AuthOf(h)
               PROVE  PaymentInv'
    BY RequestFacts DEF PaymentInv
  <1>1. TypeOK /\ RowInv(a) /\ HandlerInv(h) /\ observed[h] \in Hash \cup {NoHash}
    BY RequestFacts DEF PaymentInv
  <1>2. /\ pc[h] = "reserved"
        /\ observed' = observed /\ handedOver' = handedOver /\ released' = released
        /\ OthersRest(h)
    BY <1>1 DEF BeginSettle, At, Goto, Unmoved, process, world, OthersRest, TypeOK
  <1>3. CASE CanMove(a, h, "VERIFIED", NoHash)
    <2>1. rows' = Moved(a, "SETTLEMENT_IN_FLIGHT", NoHash) /\ pc'[h] = "inFlight"
      BY <1>1, <1>3 DEF BeginSettle, Goto, TypeOK
    <2>2. /\ "VERIFIED" \in State \ {"ABSENT"} /\ "SETTLEMENT_IN_FLIGHT" \in State \ {"ABSENT"}
          /\ NoHash \in Hash \cup {NoHash}
      BY <1>1, RequestFacts DEF State, Interruptible, Terminal
    <2>3. /\ rows'[a].id = h /\ rows'[a].key = rows[a].key /\ rows'[a].state = "SETTLEMENT_IN_FLIGHT"
          /\ rows'[a].hash = IF NoHash = NoHash THEN rows[a].hash ELSE NoHash
          /\ rows[a].id = h /\ rows[a].state = "VERIFIED"
          /\ (NoHash = NoHash \/ rows[a].hash \in {NoHash, NoHash})
      BY <1>1, <1>3, <2>1, <2>2, MovedFacts DEF CanMove
    <2>4. RowInv(a)'
      <3>1. RowHash(a)' /\ RowCharged(a)'
        BY <1>1, <1>2, <2>1, <2>3 DEF RowInv, RowHash, RowCharged, HandlerInv, PathSound,
           PastCheckpoint, OthersRest
      <3>2. RowOwned(a)' /\ RowAttended(a)'
        BY <1>1, <1>2, <2>1, <2>3, PaymentAssumption DEF RowInv, RowOwned, RowAttended,
           Holding, Step, OthersRest, AuthOf, KeyOf
      <3>. QED
        BY <3>1, <3>2 DEF RowInv
    <2>5. HandlerInv(h)'
      BY <1>1, <1>2, <2>1, <2>3 DEF HandlerInv, PathSound, Kept, Paying, Committed, RowInv,
         RowOwned, PastSettleCall, PastCheckpoint, OthersRest, AuthOf, KeyOf
    <2>. QED
      BY <1>1, <1>2, <1>3, <2>1, <2>2, <2>4, <2>5, MovingStep
  <1>. QED
    BY <1>3 DEF BeginSettle

(* The hash is stored.                                                     *)
LEMMA CheckpointKeeps ==
    ASSUME PaymentInv, TypeOK', NEW h \in Handler, Checkpoint(h)
    PROVE  PaymentInv'
  <1>. SUFFICES ASSUME NEW a \in Auth, a = AuthOf(h)
               PROVE  PaymentInv'
    BY RequestFacts DEF PaymentInv
  <1>1. TypeOK /\ RowInv(a) /\ HandlerInv(h) /\ observed[h] \in Hash \cup {NoHash}
    BY RequestFacts DEF PaymentInv
  <1>2. /\ pc[h] = "checkpoint"
        /\ observed' = observed /\ handedOver' = handedOver /\ released' = released
        /\ OthersRest(h)
    BY <1>1 DEF Checkpoint, At, Goto, Unmoved, process, world, OthersRest, TypeOK
  <1>3. CASE CanMove(a, h, "SETTLEMENT_IN_FLIGHT", observed[h])
    <2>1. rows' = Moved(a, "SETTLEMENT_IN_FLIGHT", observed[h]) /\ pc'[h] \in {"reading", "polling", "unconfirmed"}
      BY <1>1, <1>3 DEF Checkpoint, Goto, TypeOK
    <2>2. /\ "SETTLEMENT_IN_FLIGHT" \in State \ {"ABSENT"} /\ "SETTLEMENT_IN_FLIGHT" \in State \ {"ABSENT"}
          /\ observed[h] \in Hash \cup {NoHash}
      BY <1>1, RequestFacts DEF State, Interruptible, Terminal
    <2>3. /\ rows'[a].id = h /\ rows'[a].key = rows[a].key /\ rows'[a].state = "SETTLEMENT_IN_FLIGHT"
          /\ rows'[a].hash = IF observed[h] = NoHash THEN rows[a].hash ELSE observed[h]
          /\ rows[a].id = h /\ rows[a].state = "SETTLEMENT_IN_FLIGHT"
          /\ (observed[h] = NoHash \/ rows[a].hash \in {NoHash, observed[h]})
      BY <1>1, <1>3, <2>1, <2>2, MovedFacts DEF CanMove
    <2>4. RowInv(a)'
      <3>1. RowHash(a)' /\ RowCharged(a)'
        BY <1>1, <1>2, <2>1, <2>3 DEF RowInv, RowHash, RowCharged, HandlerInv, PathSound,
           PastCheckpoint, OthersRest
      <3>2. RowOwned(a)' /\ RowAttended(a)'
        BY <1>1, <1>2, <2>1, <2>3, PaymentAssumption DEF RowInv, RowOwned, RowAttended,
           Holding, Step, OthersRest, AuthOf, KeyOf
      <3>. QED
        BY <3>1, <3>2 DEF RowInv
    <2>5. HandlerInv(h)'
      BY <1>1, <1>2, <2>1, <2>3 DEF HandlerInv, PathSound, Kept, Paying, Committed, RowInv,
         RowOwned, PastSettleCall, PastCheckpoint, OthersRest, AuthOf, KeyOf
    <2>. QED
      BY <1>1, <1>2, <1>3, <2>1, <2>2, <2>4, <2>5, MovingStep
  <1>4. CASE ~CanMove(a, h, "SETTLEMENT_IN_FLIGHT", observed[h])
    <2>1. rows' = rows /\ pc'[h] = "failing"
      BY <1>1, <1>4 DEF Checkpoint, Goto, TypeOK
    <2>2. rows[a].id = h => RowInv(a)'
      BY <1>1, <1>2, <1>4, <2>1, PaymentAssumption DEF RowInv, RowOwned, RowHash, RowCharged,
         RowAttended, CanMove, PathSound, HandlerInv, Holding, Step, PastCheckpoint, OthersRest, AuthOf, KeyOf
    <2>3. HandlerInv(h)' /\ (h \in Committed' => h \in Committed)
      BY <1>1, <1>2, <2>1 DEF HandlerInv, PathSound, Kept, Paying, Committed, PastSettleCall,
         PastCheckpoint, OthersRest, AuthOf, KeyOf
    <2>. QED
      BY <1>1, <1>2, <2>1, <2>2, <2>3, QuietStep
  <1>. QED
    BY <1>3, <1>4

(* The row is left unknown.                                                *)
LEMMA UnconfirmedKeeps ==
    ASSUME PaymentInv, TypeOK', NEW h \in Handler, Unconfirmed(h)
    PROVE  PaymentInv'
  <1>. SUFFICES ASSUME NEW a \in Auth, a = AuthOf(h)
               PROVE  PaymentInv'
    BY RequestFacts DEF PaymentInv
  <1>1. TypeOK /\ RowInv(a) /\ HandlerInv(h) /\ observed[h] \in Hash \cup {NoHash}
    BY RequestFacts DEF PaymentInv
  <1>2. /\ pc[h] = "unconfirmed"
        /\ observed' = observed /\ handedOver' = handedOver /\ released' = released
        /\ OthersRest(h)
    BY <1>1 DEF Unconfirmed, At, Goto, Unmoved, process, world, OthersRest, TypeOK
  <1>3. CASE CanMove(a, h, "SETTLEMENT_IN_FLIGHT", NoHash)
    <2>1. rows' = Moved(a, "UNKNOWN", NoHash) /\ pc'[h] = "done"
      BY <1>1, <1>3 DEF Unconfirmed, Goto, TypeOK
    <2>2. /\ "SETTLEMENT_IN_FLIGHT" \in State \ {"ABSENT"} /\ "UNKNOWN" \in State \ {"ABSENT"}
          /\ NoHash \in Hash \cup {NoHash}
      BY <1>1, RequestFacts DEF State, Interruptible, Terminal
    <2>3. /\ rows'[a].id = h /\ rows'[a].key = rows[a].key /\ rows'[a].state = "UNKNOWN"
          /\ rows'[a].hash = IF NoHash = NoHash THEN rows[a].hash ELSE NoHash
          /\ rows[a].id = h /\ rows[a].state = "SETTLEMENT_IN_FLIGHT"
          /\ (NoHash = NoHash \/ rows[a].hash \in {NoHash, NoHash})
      BY <1>1, <1>3, <2>1, <2>2, MovedFacts DEF CanMove
    <2>4. RowInv(a)'
      <3>1. RowHash(a)' /\ RowCharged(a)'
        BY <1>1, <1>2, <2>1, <2>3 DEF RowInv, RowHash, RowCharged, HandlerInv, PathSound,
           PastCheckpoint, OthersRest
      <3>2. RowOwned(a)' /\ RowAttended(a)'
        BY <1>1, <1>2, <2>1, <2>3, PaymentAssumption DEF RowInv, RowOwned, RowAttended,
           Holding, Step, OthersRest, AuthOf, KeyOf
      <3>. QED
        BY <3>1, <3>2 DEF RowInv
    <2>5. HandlerInv(h)'
      BY <1>1, <1>2, <2>1, <2>3 DEF HandlerInv, PathSound, Kept, Paying, Committed, RowInv,
         RowOwned, PastSettleCall, PastCheckpoint, OthersRest, AuthOf, KeyOf
    <2>. QED
      BY <1>1, <1>2, <1>3, <2>1, <2>2, <2>4, <2>5, MovingStep
  <1>4. CASE ~CanMove(a, h, "SETTLEMENT_IN_FLIGHT", NoHash)
    <2>1. rows' = rows /\ pc'[h] = "failing"
      BY <1>1, <1>4 DEF Unconfirmed, Goto, TypeOK
    <2>2. rows[a].id = h => RowInv(a)'
      BY <1>1, <1>2, <1>4, <2>1, PaymentAssumption DEF RowInv, RowOwned, RowHash, RowCharged,
         RowAttended, CanMove, PathSound, HandlerInv, Holding, Step, PastCheckpoint, OthersRest, AuthOf, KeyOf
    <2>3. HandlerInv(h)' /\ (h \in Committed' => h \in Committed)
      BY <1>1, <1>2, <2>1 DEF HandlerInv, PathSound, Kept, Paying, Committed, PastSettleCall,
         PastCheckpoint, OthersRest, AuthOf, KeyOf
    <2>. QED
      BY <1>1, <1>2, <2>1, <2>2, <2>3, QuietStep
  <1>. QED
    BY <1>3, <1>4

(* The row is settled.                                                     *)
LEMMA SettleKeeps ==
    ASSUME PaymentInv, TypeOK', NEW h \in Handler, Settle(h)
    PROVE  PaymentInv'
  <1>. SUFFICES ASSUME NEW a \in Auth, a = AuthOf(h)
               PROVE  PaymentInv'
    BY RequestFacts DEF PaymentInv
  <1>1. TypeOK /\ RowInv(a) /\ HandlerInv(h) /\ observed[h] \in Hash \cup {NoHash}
    BY RequestFacts DEF PaymentInv
  <1>2. /\ pc[h] = "confirmed"
        /\ observed' = observed /\ handedOver' = handedOver /\ released' = released
        /\ OthersRest(h)
    BY <1>1 DEF Settle, At, Goto, Unmoved, process, world, OthersRest, TypeOK
  <1>3. CASE CanMove(a, h, "SETTLEMENT_IN_FLIGHT", NoHash)
    <2>1. rows' = Moved(a, "SETTLED", NoHash) /\ pc'[h] = "settled"
      BY <1>1, <1>3 DEF Settle, Goto, TypeOK
    <2>2. /\ "SETTLEMENT_IN_FLIGHT" \in State \ {"ABSENT"} /\ "SETTLED" \in State \ {"ABSENT"}
          /\ NoHash \in Hash \cup {NoHash}
      BY <1>1, RequestFacts DEF State, Interruptible, Terminal
    <2>3. /\ rows'[a].id = h /\ rows'[a].key = rows[a].key /\ rows'[a].state = "SETTLED"
          /\ rows'[a].hash = IF NoHash = NoHash THEN rows[a].hash ELSE NoHash
          /\ rows[a].id = h /\ rows[a].state = "SETTLEMENT_IN_FLIGHT"
          /\ (NoHash = NoHash \/ rows[a].hash \in {NoHash, NoHash})
      BY <1>1, <1>3, <2>1, <2>2, MovedFacts DEF CanMove
    <2>4. RowInv(a)'
      <3>1. RowHash(a)' /\ RowCharged(a)'
        BY <1>1, <1>2, <2>1, <2>3 DEF RowInv, RowHash, RowCharged, HandlerInv, PathSound,
           PastCheckpoint, OthersRest
      <3>2. RowOwned(a)' /\ RowAttended(a)'
        BY <1>1, <1>2, <2>1, <2>3, PaymentAssumption DEF RowInv, RowOwned, RowAttended,
           Holding, Step, OthersRest, AuthOf, KeyOf
      <3>. QED
        BY <3>1, <3>2 DEF RowInv
    <2>5. HandlerInv(h)'
      BY <1>1, <1>2, <2>1, <2>3 DEF HandlerInv, PathSound, Kept, Paying, Committed, RowInv,
         RowOwned, PastSettleCall, PastCheckpoint, OthersRest, AuthOf, KeyOf
    <2>. QED
      BY <1>1, <1>2, <1>3, <2>1, <2>2, <2>4, <2>5, MovingStep
  <1>4. CASE ~CanMove(a, h, "SETTLEMENT_IN_FLIGHT", NoHash)
    <2>1. rows' = rows /\ pc'[h] = "failing"
      BY <1>1, <1>4 DEF Settle, Goto, TypeOK
    <2>2. rows[a].id = h => RowInv(a)'
      BY <1>1, <1>2, <1>4, <2>1, PaymentAssumption DEF RowInv, RowOwned, RowHash, RowCharged,
         RowAttended, CanMove, PathSound, HandlerInv, Holding, Step, PastCheckpoint, OthersRest, AuthOf, KeyOf
    <2>3. HandlerInv(h)' /\ (h \in Committed' => h \in Committed)
      BY <1>1, <1>2, <2>1 DEF HandlerInv, PathSound, Kept, Paying, Committed, PastSettleCall,
         PastCheckpoint, OthersRest, AuthOf, KeyOf
    <2>. QED
      BY <1>1, <1>2, <2>1, <2>2, <2>3, QuietStep
  <1>. QED
    BY <1>3, <1>4

(* What failed while in flight is left unknown.                            *)
LEMMA FailKeeps ==
    ASSUME PaymentInv, TypeOK', NEW h \in Handler, Fail(h)
    PROVE  PaymentInv'
  <1>. SUFFICES ASSUME NEW a \in Auth, a = AuthOf(h)
               PROVE  PaymentInv'
    BY RequestFacts DEF PaymentInv
  <1>1. TypeOK /\ RowInv(a) /\ HandlerInv(h) /\ observed[h] \in Hash \cup {NoHash}
    BY RequestFacts DEF PaymentInv
  <1>2. /\ pc[h] = "failing"
        /\ observed' = observed /\ handedOver' = handedOver /\ released' = released
        /\ OthersRest(h)
    BY <1>1 DEF Fail, At, Goto, Unmoved, process, world, OthersRest, TypeOK
  <1>3. CASE CanMove(a, h, "SETTLEMENT_IN_FLIGHT", observed[h])
    <2>1. rows' = Moved(a, "UNKNOWN", observed[h]) /\ pc'[h] = "done"
      BY <1>1, <1>3 DEF Fail, Goto, TypeOK
    <2>2. /\ "SETTLEMENT_IN_FLIGHT" \in State \ {"ABSENT"} /\ "UNKNOWN" \in State \ {"ABSENT"}
          /\ observed[h] \in Hash \cup {NoHash}
      BY <1>1, RequestFacts DEF State, Interruptible, Terminal
    <2>3. /\ rows'[a].id = h /\ rows'[a].key = rows[a].key /\ rows'[a].state = "UNKNOWN"
          /\ rows'[a].hash = IF observed[h] = NoHash THEN rows[a].hash ELSE observed[h]
          /\ rows[a].id = h /\ rows[a].state = "SETTLEMENT_IN_FLIGHT"
          /\ (observed[h] = NoHash \/ rows[a].hash \in {NoHash, observed[h]})
      BY <1>1, <1>3, <2>1, <2>2, MovedFacts DEF CanMove
    <2>4. RowInv(a)'
      <3>1. RowHash(a)' /\ RowCharged(a)'
        BY <1>1, <1>2, <2>1, <2>3 DEF RowInv, RowHash, RowCharged, HandlerInv, PathSound,
           PastCheckpoint, OthersRest
      <3>2. RowOwned(a)' /\ RowAttended(a)'
        BY <1>1, <1>2, <2>1, <2>3, PaymentAssumption DEF RowInv, RowOwned, RowAttended,
           Holding, Step, OthersRest, AuthOf, KeyOf
      <3>. QED
        BY <3>1, <3>2 DEF RowInv
    <2>5. HandlerInv(h)'
      BY <1>1, <1>2, <2>1, <2>3 DEF HandlerInv, PathSound, Kept, Paying, Committed, RowInv,
         RowOwned, PastSettleCall, PastCheckpoint, OthersRest, AuthOf, KeyOf
    <2>. QED
      BY <1>1, <1>2, <1>3, <2>1, <2>2, <2>4, <2>5, MovingStep
  <1>4. CASE ~CanMove(a, h, "SETTLEMENT_IN_FLIGHT", observed[h])
    <2>1. rows' = rows /\ pc'[h] = "done"
      BY <1>1, <1>4 DEF Fail, Goto, TypeOK
    <2>2. rows[a].id = h => RowInv(a)'
      BY <1>1, <1>2, <1>4, <2>1, PaymentAssumption DEF RowInv, RowOwned, RowHash, RowCharged,
         RowAttended, CanMove, PathSound, HandlerInv, Holding, Step, PastCheckpoint, OthersRest, AuthOf, KeyOf
    <2>3. HandlerInv(h)' /\ (h \in Committed' => h \in Committed)
      BY <1>1, <1>2, <2>1 DEF HandlerInv, PathSound, Kept, Paying, Committed, PastSettleCall,
         PastCheckpoint, OthersRest, AuthOf, KeyOf
    <2>. QED
      BY <1>1, <1>2, <2>1, <2>2, <2>3, QuietStep
  <1>. QED
    BY <1>3, <1>4

(* The reservation also gives keys back: every row is looked at.           *)
LEMMA VerifiedKeeps ==
    ASSUME PaymentInv, TypeOK', NEW h \in Handler, Verified(h)
    PROVE  PaymentInv'
  <1>. SUFFICES ASSUME NEW a \in Auth, a = AuthOf(h)
               PROVE  PaymentInv'
    BY RequestFacts DEF PaymentInv
  <1>1. /\ TypeOK /\ PathSound(h)
        /\ KeyOf(h) \in LogicalKey \cup {NoKey}
    BY RequestFacts DEF PaymentInv, HandlerInv
  <1>2. /\ pc[h] = "verifying" /\ pc'[h] = "reserved" /\ up /\ now < ValidBefore[a]
        /\ \A g \in Handler \ {h} : pc'[g] = pc[g]
        /\ now' = now /\ up' = up /\ broken' = broken /\ request' = request
        /\ observed' = observed
        /\ handedOver' = handedOver /\ released' = released /\ chain' = chain
    BY <1>1 DEF Verified, At, Goto, Unmoved, process, world, TypeOK
  <1>3. /\ rows[a].state = "ABSENT" /\ rows[a].id = NoHandler
        /\ \A b \in Auth : rows[b].state # "ABSENT" /\ KeyOf(h) # NoKey =>
               KeyReclaimed(KeyOf(h))[b].key # KeyOf(h)
    BY DEF Verified, Reservable, Stored, PaymentInv, RowInv, RowOwned
  <1>4. /\ rows'[a].id = h /\ rows'[a].key = KeyOf(h) /\ rows'[a].state = "VERIFIED"
        /\ rows'[a].hash = NoHash
    <2>1. Reserve(h) /\ TypeOK
      BY <1>1 DEF Verified
    <2>2. rows'[a] = [id |-> h, key |-> KeyOf(h), state |-> "VERIFIED",
                      hash |-> NoHash, updated |-> now]
      BY <2>1, ReservedFacts
    <2>. QED
      BY <2>2
  <1>5. ASSUME NEW b \in Auth, b # a
        PROVE  /\ rows'[b] = KeyReclaimed(KeyOf(h))[b]
               /\ rows'[b].id = rows[b].id /\ rows'[b].state = rows[b].state
               /\ rows'[b].hash = rows[b].hash
               /\ \/ rows'[b] = rows[b]
                  \/ rows'[b].key = NoKey /\ rows[b].state = "CANCELLED"
    <2>1. Reserve(h) /\ TypeOK
      BY <1>1 DEF Verified
    <2>2. rows'[b] = KeyReclaimed(KeyOf(h))[b]
      BY <1>5, <2>1, ReservedFacts
    <2>. QED
      BY <1>1, <2>1, <2>2, ReclaimedFacts
  <1>6. \A g \in Handler : AuthOf(g) \in Auth /\ AuthOf(g)' = AuthOf(g) /\ KeyOf(g)' = KeyOf(g)
    BY <1>1, <1>2, RequestFacts DEF AuthOf, KeyOf
  <1>7. Committed' = Committed /\ h \notin Committed
    BY <1>1, <1>2 DEF Committed, PathSound, PastSettleCall, PastCheckpoint, TypeOK
  <1>8. ASSUME NEW b \in Auth
        PROVE  RowInv(b)'
    <2>1. CASE b = a
      BY <1>2, <1>4, <1>6, <2>1 DEF RowInv, RowOwned, RowHash, RowCharged, RowAttended
    <2>2. CASE b # a
      <3>1. RowInv(b)
        BY DEF PaymentInv
      <3>2. CASE rows[b].state = "ABSENT"
        BY <1>5, <2>2, <3>1, <3>2 DEF RowInv, RowOwned, RowHash, RowCharged, RowAttended
      <3>3. CASE rows[b].state # "ABSENT"
        <4>1. rows[b].id \in Handler /\ rows[b].id # h
          BY <2>2, <3>1, <3>3 DEF RowInv, RowOwned
        <4>. QED
          BY <1>2, <1>5, <1>6, <2>2, <3>1, <3>3, <4>1
             DEF RowInv, RowOwned, RowHash, RowCharged, RowAttended
      <3>. QED
        BY <3>2, <3>3
    <2>. QED
      BY <2>1, <2>2
  <1>9. ASSUME NEW g \in Handler
        PROVE  HandlerInv(g)'
    <2>1. HandlerInv(g)
      BY DEF PaymentInv
    <2>2. CASE g = h
      BY <1>1, <1>2, <1>7, <2>2 DEF HandlerInv, PathSound, PastSettleCall, PastCheckpoint
    <2>3. CASE g # h /\ AuthOf(g) = a
      <3>1. ~Kept(g) /\ ~Paying(g)
        BY <1>2, <1>3, <2>3, PaymentAssumption DEF Kept, Paying, TypeOK, Time
      <3>. QED
        BY <1>2, <1>4, <1>6, <1>7, <2>1, <2>3, <3>1 DEF HandlerInv, PathSound
    <2>4. CASE g # h /\ AuthOf(g) # a
      BY <1>2, <1>5, <1>6, <1>7, <2>1, <2>4 DEF HandlerInv, PathSound, Kept, Paying
    <2>. QED
      BY <2>2, <2>3, <2>4
  <1>10. KeysUnique'
    <2>1. ASSUME NEW b \in Auth, b # a, b \in Stored', rows'[b].key = KeyOf(h)
          PROVE  KeyOf(h) = NoKey
      BY <1>3, <1>5, <2>1 DEF Stored
    <2>2. ASSUME NEW b \in Stored', NEW c \in Stored', b # c, b # a, c # a,
                 rows'[b].key = rows'[c].key
          PROVE  rows'[b].key = NoKey
      BY <1>5, <2>2 DEF Stored, KeysUnique, PaymentInv
    <2>. QED
      BY <1>4, <2>1, <2>2 DEF KeysUnique, Stored
  <1>11. CommittedOnce'
    BY <1>6, <1>7 DEF CommittedOnce, PaymentInv, Committed, TypeOK
  <1>. QED
    BY <1>8, <1>9, <1>10, <1>11 DEF PaymentInv

-------------------------------------------------------------------------------
(* The process, the operator and the world.                                *)

LEMMA WorldTyping ==
    ASSUME TypeOK,
           \/ Crash \/ Restart \/ Cleanup \/ Reconcile \/ ReconcileEnds \/ Tick
           \/ \E a \in Auth : ReconcileRow(a)
           \/ \E a \in Auth, x \in Hash : Include(a, x)
    PROVE  TypeOK'
  <1>. USE DEF process, handlers, world, Operator
  <1>1. CASE Crash
    <2>1. restarts' \in 0 .. MaxRestarts
      BY <1>1, PaymentAssumption DEF Crash, TypeOK
    <2>2. pc' \in [Handler -> Step]
      BY <1>1 DEF Crash, TypeOK, Step
    <2>. QED
      BY <1>1, <2>1, <2>2 DEF Crash, TypeOK
  <1>2. CASE Restart
    BY <1>2, InterruptedFacts, CleanedFacts DEF Restart, TypeOK
  <1>3. CASE Cleanup
    BY <1>3, CleanedFacts DEF Cleanup, TypeOK
  <1>4. CASE Reconcile
    BY <1>4, InterruptedFacts DEF Reconcile, TypeOK
  <1>5. CASE ReconcileEnds
    BY <1>5 DEF ReconcileEnds, TypeOK
  <1>6. CASE Tick
    BY <1>6, PaymentAssumption DEF Tick, TypeOK, Time
  <1>7. ASSUME NEW a \in Auth, ReconcileRow(a)
        PROVE  TypeOK'
    <2>1. \A to \in State : Moved(a, to, NoHash) \in [Auth -> Row]
      BY MovedFacts
    <2>2. {"UNKNOWN", "FAILED", "SETTLED"} \subseteq State
      BY DEF State, Terminal
    <2>3. rows' \in [Auth -> Row]
      BY <1>7, <2>1, <2>2 DEF ReconcileRow, TypeOK
    <2>. QED
      BY <1>7, <2>3 DEF ReconcileRow, TypeOK
  <1>8. ASSUME NEW a \in Auth, NEW x \in Hash, Include(a, x)
        PROVE  TypeOK'
    BY <1>8 DEF Include, TypeOK
  <1>. QED
    BY <1>1, <1>2, <1>3, <1>4, <1>5, <1>6, <1>7, <1>8

(* The process dies; rows stay, handlers do not.                           *)
LEMMA CrashKeeps ==
    ASSUME PaymentInv, TypeOK', Crash
    PROVE  PaymentInv'
  <1>1. /\ now' = now /\ rows' = rows /\ request' = request /\ observed' = observed
        /\ handedOver' = handedOver /\ released' = released /\ chain' = chain
        /\ ~up'
        /\ \A h \in Handler : pc'[h] = IF pc[h] = "idle" THEN "idle" ELSE "done"
    BY DEF Crash, world
  <1>2. Committed' = handedOver
    BY <1>1 DEF Committed
  <1>3. ASSUME NEW a \in Auth
        PROVE  RowInv(a)'
    BY <1>1 DEF PaymentInv, RowInv, RowOwned, RowHash, RowCharged, RowAttended, AuthOf, KeyOf,
       PastCheckpoint
  <1>4. ASSUME NEW h \in Handler
        PROVE  HandlerInv(h)'
    BY <1>1, <1>2 DEF PaymentInv, HandlerInv, PathSound, Kept, Paying, Committed, AuthOf, KeyOf,
       PastSettleCall, PastCheckpoint
  <1>5. KeysUnique' /\ CommittedOnce'
    BY <1>1, <1>2 DEF PaymentInv, KeysUnique, CommittedOnce, Committed, Stored, AuthOf
  <1>. QED
    BY <1>3, <1>4, <1>5 DEF PaymentInv

(* The process comes back, or the operator's tool works on rows.             *)
LEMMA OperatorKeeps ==
    ASSUME PaymentInv, TypeOK',
           \/ Restart \/ Cleanup \/ Reconcile \/ ReconcileEnds
           \/ \E a \in Auth : ReconcileRow(a)
    PROVE  PaymentInv'
  <1>. USE DEF process, handlers, world, Operator
  <1>1. TypeOK
    BY DEF PaymentInv
  <1>2. CASE Restart
    <2>1. ASSUME NEW a \in Auth
          PROVE  /\ rows'[a] = rows[a] \/ Resolved(a) \/ Removed(a)
                 /\ rows'[a].state \notin Interruptible
      <3>1. /\ \/ rows'[a] = Interrupted[a]
               \/ /\ rows'[a] = NoRow
                  /\ Interrupted[a].state \in Terminal /\ ValidBefore[a] < now
        BY <1>1, <1>2, InterruptedFacts, CleanedFacts DEF Restart
      <3>. QED
        BY <1>1, <3>1, InterruptedFacts, NoRowFacts DEF Resolved, Removed, Interruptible, Terminal
    <2>. QED
      BY <1>2, <2>1, RowStep DEF RowFrame, Restart
  <1>3. CASE Cleanup
    <2>1. \A a \in Auth : rows'[a] = rows[a] \/ Removed(a)
      BY <1>1, <1>3, CleanedFacts DEF Cleanup, Removed, TypeOK
    <2>. QED
      BY <1>3, <2>1, RowStep DEF RowFrame, Cleanup
  <1>4. CASE Reconcile
    <2>1. \A a \in Auth : rows'[a] = rows[a] \/ Resolved(a)
      BY <1>1, <1>4, InterruptedFacts DEF Reconcile, Resolved
    <2>. QED
      BY <1>4, <2>1, RowStep DEF RowFrame, Reconcile
  <1>5. CASE ReconcileEnds
    BY <1>5, RowStep DEF RowFrame, ReconcileEnds
  <1>6. ASSUME NEW a \in Auth, ReconcileRow(a)
        PROVE  PaymentInv'
    <2>1. {"UNKNOWN", "FAILED", "SETTLED"} \subseteq State
      BY DEF State, Terminal
    <2>2. CASE rows' = rows
      BY <1>6, <2>2, RowStep DEF RowFrame, ReconcileRow
    <2>3. CASE rows' # rows
      <3>1. PICK to \in {"UNKNOWN", "FAILED", "SETTLED"} :
                /\ rows' = Moved(a, to, NoHash) /\ rows[a].state = "UNKNOWN"
                /\ to = "SETTLED" => rows[a].hash # NoHash /\ chain[rows[a].hash] = a
        BY <1>6, <2>3 DEF ReconcileRow
      <3>2. /\ \A b \in Auth : b # a => rows'[b] = rows[b]
            /\ Resolved(a)
        BY <1>1, <2>1, <3>1, MovedFacts DEF Resolved
      <3>. QED
        BY <1>6, <3>2, RowStep DEF RowFrame, ReconcileRow
    <2>. QED
      BY <2>2, <2>3
  <1>. QED
    BY <1>2, <1>3, <1>4, <1>5, <1>6

(* The chain includes a transaction.                                       *)
LEMMA IncludeKeeps ==
    ASSUME PaymentInv, TypeOK', NEW a \in Auth, NEW x \in Hash, Include(a, x)
    PROVE  PaymentInv'
  <1>1. /\ UNCHANGED <<now, up, broken, rows, request, pc, observed, handedOver, released>>
        /\ chain[x] = NoAuth /\ \A y \in Hash \ {x} : chain'[y] = chain[y]
        /\ chain'[x] = a
    BY DEF Include, process, handlers, PaymentInv, TypeOK
  <1>2. /\ \A g \in Handler : AuthOf(g) \in Auth /\ AuthOf(g)' = AuthOf(g) /\ KeyOf(g)' = KeyOf(g)
        /\ Committed' = Committed /\ Stored' = Stored
    BY <1>1, RequestFacts DEF PaymentInv, AuthOf, KeyOf, Committed, Stored
  <1>3. ASSUME NEW b \in Auth
        PROVE  RowInv(b)'
    <2>1. RowInv(b) /\ rows[b].hash \in Hash \cup {NoHash} /\ NoAuth # b
      BY PaymentAssumption DEF PaymentInv, TypeOK, Row
    <2>. QED
      BY <1>1, <2>1 DEF RowInv, RowOwned, RowHash, RowCharged, RowAttended, AuthOf, KeyOf
  <1>4. ASSUME NEW h \in Handler
        PROVE  HandlerInv(h)'
    <2>1. /\ HandlerInv(h) /\ observed[h] \in Hash \cup {NoHash} /\ NoAuth # AuthOf(h)
      BY <1>2, PaymentAssumption DEF PaymentInv, TypeOK
    <2>2. PathSound(h)'
      BY <1>1, <1>2, <2>1 DEF HandlerInv, PathSound
    <2>3. (Kept(h) => Kept(h)') /\ (Paying(h) => Paying(h)')
      BY <1>1, <1>2, <2>1 DEF Kept, Paying
    <2>. QED
      BY <1>1, <1>2, <2>1, <2>2, <2>3 DEF HandlerInv
  <1>5. KeysUnique' /\ CommittedOnce'
    BY <1>1, <1>2 DEF PaymentInv, KeysUnique, CommittedOnce, Committed, TypeOK
  <1>. QED
    BY <1>3, <1>4, <1>5 DEF PaymentInv

(* Time goes on.                                                           *)
LEMMA TickKeeps ==
    ASSUME PaymentInv, TypeOK', Tick
    PROVE  PaymentInv'
  <1>1. /\ UNCHANGED <<up, broken, rows, request, pc, observed, handedOver, released, chain>>
        /\ \A a \in Auth : ValidBefore[a] < now => ValidBefore[a] < now'
    BY PaymentAssumption DEF Tick, process, handlers, world, PaymentInv, TypeOK, Time
  <1>2. /\ \A g \in Handler : AuthOf(g) \in Auth /\ AuthOf(g)' = AuthOf(g) /\ KeyOf(g)' = KeyOf(g)
        /\ Committed' = Committed /\ Stored' = Stored
    BY <1>1, RequestFacts DEF PaymentInv, AuthOf, KeyOf, Committed, Stored
  <1>3. ASSUME NEW b \in Auth
        PROVE  RowInv(b)'
    BY <1>1 DEF PaymentInv, RowInv, RowOwned, RowHash, RowCharged, RowAttended, AuthOf, KeyOf
  <1>4. ASSUME NEW h \in Handler
        PROVE  HandlerInv(h)'
    BY <1>1, <1>2 DEF PaymentInv, HandlerInv, PathSound, Kept, Paying
  <1>5. KeysUnique' /\ CommittedOnce'
    BY <1>1, <1>2 DEF PaymentInv, KeysUnique, CommittedOnce, Committed, TypeOK
  <1>. QED
    BY <1>3, <1>4, <1>5 DEF PaymentInv

-------------------------------------------------------------------------------
(* A fresh store with no request in hand has the invariant.                *)
LEMMA InitHolds == Init => PaymentInv
  <1>. SUFFICES ASSUME Init
               PROVE  PaymentInv
    OBVIOUS
  <1>1. TypeOK
    <2>1. now \in Time /\ restarts \in 0 .. MaxRestarts
      BY PaymentAssumption DEF Init, Time
    <2>2. rows \in [Auth -> Row] /\ pc \in [Handler -> Step]
      BY NoRowFacts DEF Init, Step
    <2>. QED
      BY <2>1, <2>2 DEF Init, TypeOK
  <1>2. \A a \in Auth : RowInv(a)
    BY NoRowFacts DEF Init, RowInv, RowOwned, RowHash, RowCharged, RowAttended
  <1>3. Committed = {}
    BY DEF Init, Committed
  <1>4. \A h \in Handler : HandlerInv(h)
    BY <1>3 DEF Init, HandlerInv, PathSound, PastSettleCall, PastCheckpoint
  <1>5. KeysUnique /\ CommittedOnce
    BY <1>3, NoRowFacts DEF Init, KeysUnique, CommittedOnce, Stored
  <1>. QED
    BY <1>1, <1>2, <1>4, <1>5 DEF PaymentInv

(* Nothing happens.                                                        *)
LEMMA StutterKeeps ==
    ASSUME PaymentInv, UNCHANGED vars
    PROVE  PaymentInv'
  BY DEF vars, process, handlers, world, PaymentInv, TypeOK, RowInv, RowOwned, RowHash, RowCharged,
     RowAttended, HandlerInv, PathSound, Kept, Paying, KeysUnique, CommittedOnce, Committed, Stored,
     AuthOf, KeyOf

(* Every step of Next keeps the invariant.                                 *)
LEMMA StepKeeps ==
    ASSUME PaymentInv, [Next]_vars
    PROVE  PaymentInv'
  <1>0. TypeOK
    BY DEF PaymentInv
  <1>1. ASSUME NEW h \in Handler, Arrive(h) \/ Proceed(h) \/ StoreFails(h)
        PROVE  PaymentInv'
    <2>1. TypeOK'
      BY <1>0, <1>1, HandlerTyping
    <2>. QED
      BY <1>1, <2>1, ArriveKeeps, RefuseKeeps, VerifiedKeeps, AbandonKeeps, BeginSettleKeeps,
         CallSettleKeeps, SettleAnswersKeeps, SettleLostKeeps, CheckpointKeeps, PollKeeps,
         UnconfirmedKeeps, ReadKeeps, ConfirmKeeps, SettleKeeps, ReleaseKeeps, FailKeeps,
         StoreFailsKeeps DEF Proceed
  <1>2. CASE \/ Crash \/ Restart \/ Cleanup \/ Reconcile \/ ReconcileEnds \/ Tick
             \/ \E a \in Auth : ReconcileRow(a)
             \/ \E a \in Auth, x \in Hash : Include(a, x)
    <2>1. TypeOK'
      BY <1>0, <1>2, WorldTyping
    <2>. QED
      BY <1>2, <2>1, CrashKeeps, OperatorKeeps, IncludeKeeps, TickKeeps
  <1>3. CASE UNCHANGED vars
    BY <1>3, StutterKeeps
  <1>. QED
    BY <1>1, <1>2, <1>3 DEF Next

(* PaymentInv holds in every state a run of the code can reach, for any    *)
(* number of requests, authorizations, keys and restarts.                  *)
THEOREM PaymentInductive == Spec => []PaymentInv
  <1>1. PaymentInv /\ [Next]_vars => PaymentInv'
    BY StepKeeps
  <1>. QED
    BY InitHolds, <1>1, PTL DEF Spec

-------------------------------------------------------------------------------
(* What PaymentInv gives.                                                  *)

(* An authorization handed to the facilitator stays blocked for as long as *)
(* it could be charged: cleanup, restart, reconcile and other requests     *)
(* never free its row before it has expired.                               *)
THEOREM KeptThroughout == Spec => []HandedIsKept
  <1>1. PaymentInv => HandedIsKept
    BY DEF PaymentInv, TypeOK, HandlerInv, Committed, HandedIsKept
  <1>. QED
    BY PaymentInductive, <1>1, PTL

(* Of two requests with one Idempotency-Key, only one reaches the          *)
(* facilitator while the other's row is there.                             *)
THEOREM OneKeyOnePayment == Spec => []KeyHandedOnce
  <1>1. ASSUME PaymentInv
        PROVE  KeyHandedOnce
    <2>1. SUFFICES ASSUME NEW g \in handedOver, NEW h \in handedOver,
                          g # h, KeyOf(g) = KeyOf(h), KeyOf(g) # NoKey,
                          rows[AuthOf(g)].id = g, rows[AuthOf(g)].key = KeyOf(g),
                          rows[AuthOf(g)].state # "ABSENT",
                          rows[AuthOf(h)].id = h, rows[AuthOf(h)].key = KeyOf(h),
                          rows[AuthOf(h)].state # "ABSENT"
                   PROVE  FALSE
      <3>1. ASSUME NEW k \in handedOver
            PROVE  Kept(k) /\ AuthOf(k) \in Auth
        BY <1>1, RequestFacts DEF PaymentInv, TypeOK, HandlerInv, Committed
      <3>. QED
        BY <3>1 DEF KeyHandedOnce, Kept, Stored
    <2>2. AuthOf(g) \in Stored /\ AuthOf(h) \in Stored
      BY <1>1, <2>1, RequestFacts DEF Stored, PaymentInv, TypeOK
    <2>3. AuthOf(g) # AuthOf(h)
      BY <2>1
    <2>. QED
      BY <1>1, <2>1, <2>2, <2>3 DEF PaymentInv, KeysUnique
  <1>. QED
    BY PaymentInductive, <1>1, PTL

(* Nothing is handed over twice, by its authorization or by its key.       *)
THEOREM NothingHandedTwice == Spec => []HandedOnce
BY KeptThroughout, OneKeyOnePayment, PTL DEF HandedOnce

(* The store calls no payment settled that the chain does not show.        *)
THEOREM NeverSettledUncharged == Spec => []SettledIsCharged
  <1>1. PaymentInv => SettledIsCharged
    BY DEF PaymentInv, RowInv, RowCharged, SettledIsCharged
  <1>. QED
    BY PaymentInductive, <1>1, PTL

(* Content leaves only for a payment that is, and stays, settled.          *)
THEOREM NeverReleasedUnsettled == Spec => []ReleasedIsSettled
  <1>1. PaymentInv => ReleasedIsSettled
    BY DEF PaymentInv, TypeOK, HandlerInv, Paying, ReleasedIsSettled
  <1>. QED
    BY PaymentInductive, <1>1, PTL

(* No path through the handler forgets an open row.                        *)
THEOREM OpenRowsAttended == Spec => []InFlightIsOwned
  <1>1. PaymentInv => InFlightIsOwned
    BY DEF PaymentInv, RowInv, RowOwned, RowAttended, InFlightIsOwned, Interruptible, Holding, Step
  <1>. QED
    BY PaymentInductive, <1>1, PTL

-------------------------------------------------------------------------------
(* No step changes a settled, failed or cancelled row.                     *)

TerminalKept(a) ==
    rows[a].state \in Terminal =>
        \/ rows'[a].state = rows[a].state /\ rows'[a].id = rows[a].id
           /\ rows'[a].hash = rows[a].hash
        \/ rows'[a].state = "ABSENT" /\ ValidBefore[a] < now

(* No handler undoes what is final.                                        *)
LEMMA HandlerKeepsTerminal ==
    ASSUME PaymentInv, NEW h \in Handler, Arrive(h) \/ Proceed(h) \/ StoreFails(h),
           NEW a \in Auth
    PROVE  TerminalKept(a)
  <1>. USE DEF TerminalKept
  <1>1. /\ TypeOK /\ AuthOf(h) \in Auth /\ observed[h] \in Hash \cup {NoHash}
        /\ {"VERIFIED", "SETTLEMENT_IN_FLIGHT", "UNKNOWN", "SETTLED", "CANCELLED"} \subseteq State
    BY RequestFacts DEF PaymentInv, State, Interruptible, Terminal
  <1>2. ASSUME NEW from \in Interruptible, NEW to \in State, NEW hash \in Hash \cup {NoHash},
               CanMove(AuthOf(h), h, from, hash), rows' = Moved(AuthOf(h), to, hash)
        PROVE  TerminalKept(a)
    <2>1. rows[AuthOf(h)].state \notin Terminal
      BY <1>2 DEF CanMove, Interruptible, Terminal
    <2>2. AuthOf(h) # a => rows'[a] = rows[a]
      BY <1>1, <1>2, MovedFacts
    <2>. QED
      BY <2>1, <2>2
  <1>3. CASE rows' = rows
    BY <1>3
  <1>4. CASE Verified(h)
    <2>1. Reserve(h) /\ rows[AuthOf(h)].state \notin Terminal
      BY <1>1, <1>4 DEF Verified, Reservable, Stored, Terminal
    <2>2. AuthOf(h) # a => rows'[a] = KeyReclaimed(KeyOf(h))[a]
      BY <1>1, <2>1, ReservedFacts
    <2>3. KeyOf(h) \in LogicalKey \cup {NoKey}
      BY <1>1, RequestFacts
    <2>. QED
      BY <1>1, <2>1, <2>2, <2>3, ReclaimedFacts
  <1>5. CASE rows' # rows /\ ~Verified(h)
    <2>. USE DEF Interruptible
    <2>1. CASE Abandon(h)
      BY <1>1, <1>2, <1>5, <2>1 DEF Abandon
    <2>2. CASE BeginSettle(h)
      BY <1>1, <1>2, <1>5, <2>2 DEF BeginSettle
    <2>3. CASE Checkpoint(h)
      BY <1>1, <1>2, <1>5, <2>3 DEF Checkpoint
    <2>4. CASE Unconfirmed(h)
      BY <1>1, <1>2, <1>5, <2>4 DEF Unconfirmed
    <2>5. CASE Settle(h)
      BY <1>1, <1>2, <1>5, <2>5 DEF Settle
    <2>6. CASE Fail(h)
      BY <1>1, <1>2, <1>5, <2>6 DEF Fail
    <2>. QED
      BY <1>5, <2>1, <2>2, <2>3, <2>4, <2>5, <2>6
         DEF Proceed, Arrive, Refuse, CallSettle, SettleAnswers, SettleLost, Poll, Read, Confirm,
             Release, StoreFails
  <1>. QED
    BY <1>3, <1>4, <1>5

(* No step undoes what is final.                                           *)
LEMMA StepKeepsTerminal ==
    ASSUME PaymentInv, [Next]_vars, NEW a \in Auth
    PROVE  TerminalKept(a)
  <1>. USE DEF TerminalKept
  <1>0. TypeOK
    BY DEF PaymentInv
  <1>1. ASSUME NEW h \in Handler, Arrive(h) \/ Proceed(h) \/ StoreFails(h)
        PROVE  TerminalKept(a)
    BY <1>1, HandlerKeepsTerminal
  <1>2. CASE rows' = rows
    BY <1>2
  <1>3. CASE Restart
    BY <1>0, <1>3, InterruptedFacts, CleanedFacts, NoRowFacts DEF Restart, Interruptible, Terminal
  <1>4. CASE Cleanup
    BY <1>0, <1>4, CleanedFacts, NoRowFacts DEF Cleanup, TypeOK
  <1>5. CASE Reconcile
    BY <1>0, <1>5, InterruptedFacts DEF Reconcile, Interruptible, Terminal
  <1>6. ASSUME NEW b \in Auth, ReconcileRow(b), rows' # rows
        PROVE  TerminalKept(a)
    <2>1. {"UNKNOWN", "FAILED", "SETTLED"} \subseteq State
      BY DEF State, Terminal
    <2>2. PICK to \in {"UNKNOWN", "FAILED", "SETTLED"} :
              rows' = Moved(b, to, NoHash) /\ rows[b].state = "UNKNOWN"
      BY <1>6 DEF ReconcileRow
    <2>3. b # a => rows'[a] = rows[a]
      BY <1>0, <2>1, <2>2, MovedFacts
    <2>. QED
      BY <2>2, <2>3 DEF Terminal
  <1>7. CASE Crash \/ ReconcileEnds \/ Tick \/ UNCHANGED vars \/ \E b \in Auth, x \in Hash : Include(b, x)
    BY <1>2, <1>7 DEF Crash, ReconcileEnds, Tick, vars, Include
  <1>. QED
    BY <1>1, <1>2, <1>3, <1>4, <1>5, <1>6, <1>7 DEF Next

(* No writer overtakes the other: a settled, failed or cancelled row is    *)
(* for ever, until it is removed after its authorization has expired.      *)
THEOREM TerminalForEver == Spec => TerminalHolds
  <1>1. PaymentInv /\ [Next]_vars =>
            [\A a \in Auth :
                rows[a].state \in Terminal =>
                    \/ rows'[a].state = rows[a].state /\ rows'[a].id = rows[a].id
                       /\ rows'[a].hash = rows[a].hash
                    \/ rows'[a].state = "ABSENT" /\ ValidBefore[a] < now]_vars
    BY StepKeepsTerminal DEF TerminalKept
  <1>. QED
    BY PaymentInductive, <1>1, PTL DEF Spec, TerminalHolds

-------------------------------------------------------------------------------
(* The refinement: a step of the code is a step of PaidOnce, or none of    *)
(* what PaidOnce can see.                                                  *)

Charged == {chain[x] : x \in Hash} \ {NoAuth}

(* How often an authorization is counted, when it is by none or one.       *)
LEMMA CountFacts ==
    ASSUME NEW S \in SUBSET Handler, NEW a \in Auth
    PROVE  /\ Times(S)[a] = Cardinality({h \in S : AuthOf(h) = a})
           /\ (\A h \in S : AuthOf(h) # a) => Times(S)[a] = 0
           /\ \A h \in S : AuthOf(h) = a /\ (\A g \in S : AuthOf(g) = a => g = h)
                           => Times(S)[a] = 1
  <1>1. Times(S)[a] = Cardinality({h \in S : AuthOf(h) = a})
    BY DEF Times
  <1>2. ASSUME \A h \in S : AuthOf(h) # a
        PROVE  Times(S)[a] = 0
    <2>1. {h \in S : AuthOf(h) = a} = {}
      BY <1>2
    <2>. QED
      BY <1>1, <2>1, FS_EmptySet
  <1>3. ASSUME NEW h \in S, AuthOf(h) = a, \A g \in S : AuthOf(g) = a => g = h
        PROVE  Times(S)[a] = 1
    <2>1. {g \in S : AuthOf(g) = a} = {h}
      BY <1>3
    <2>. QED
      BY <1>1, <2>1, FS_Singleton
  <1>. QED
    BY <1>1, <1>2, <1>3

(* Adding a handler whose authorization was not counted counts it once.    *)
LEMMA CountOneMore ==
    ASSUME NEW S \in SUBSET Handler, NEW h \in Handler, NEW a \in Auth, AuthOf(h) = a,
           \A g \in S : AuthOf(g) # a
    PROVE  /\ Times(S)[a] = 0
           /\ Times(S \cup {h}) = [Times(S) EXCEPT ![a] = 1]
  <1>. DEFINE T == S \cup {h}
  <1>1. Times(S)[a] = 0
    BY CountFacts
  <1>2. Times(T)[a] = 1
    <2>1. T \in SUBSET Handler /\ h \in T /\ \A g \in T : AuthOf(g) = a => g = h
      OBVIOUS
    <2>. QED
      BY <2>1, CountFacts
  <1>3. ASSUME NEW b \in Auth, b # a
        PROVE  Times(T)[b] = Times(S)[b]
    <2>1. {g \in T : AuthOf(g) = b} = {g \in S : AuthOf(g) = b}
      BY <1>3
    <2>. QED
      BY <2>1, <1>3 DEF Times
  <1>4. /\ Times(T) = [b \in Auth |-> Times(T)[b]] /\ Times(S) = [b \in Auth |-> Times(S)[b]]
    BY DEF Times
  <1>. HIDE DEF T
  <1>5. Times(T) = [Times(S) EXCEPT ![a] = 1]
    BY <1>2, <1>3, <1>4
  <1>. QED
    BY <1>1, <1>5 DEF T

(* Every step is one of the abstract promise, or none.                     *)
LEMMA PaidStep ==
    ASSUME PaymentInv, PaymentInv', [Next]_vars
    PROVE  [Paid!PaidNext]_(Paid!promise)
  <1>0. /\ TypeOK /\ request' = request
        /\ Times(handedOver)' = Times(handedOver') /\ Times(released)' = Times(released')
        /\ handedOver \subseteq Handler /\ released \subseteq Handler
        /\ \A h \in Handler : AuthOf(h) \in Auth
    <2>1. TypeOK
      BY DEF PaymentInv
    <2>2. request' = request
      BY DEF Next, vars, Proceed, Arrive, Refuse, Verified, Abandon, BeginSettle, CallSettle,
         SettleAnswers, SettleLost, Checkpoint, Poll, Unconfirmed, Read, Confirm, Settle, Release,
         Fail, StoreFails, Crash, Restart, Cleanup, Reconcile, ReconcileRow, ReconcileEnds, Include,
         Tick, Unmoved, Operator, handlers
    <2>. QED
      BY <2>1, <2>2, RequestFacts DEF Times, AuthOf, TypeOK
  <1>1. ASSUME NEW h \in Handler, CallSettle(h)
        PROVE  Paid!PaidNext
    <2>. DEFINE a == AuthOf(h)
    <2>1. a \in Auth /\ h \in Committed /\ h \notin handedOver
      BY <1>0, <1>1 DEF CallSettle, At, Committed, PaymentInv, HandlerInv, PathSound,
         PastSettleCall, PastCheckpoint
    <2>2. \A g \in handedOver : AuthOf(g) # a
      BY <2>1 DEF PaymentInv, CommittedOnce, Committed
    <2>3. Times(handedOver)[a] = 0 /\ Times(handedOver \cup {h}) = [Times(handedOver) EXCEPT ![a] = 1]
      BY <1>0, <2>1, <2>2, CountOneMore
    <2>4. handedOver' = handedOver \cup {h} /\ released' = released /\ chain' = chain
      BY <1>1 DEF CallSettle
    <2>5. Paid!HandOver(a)
      BY <1>0, <2>3, <2>4 DEF Paid!HandOver
    <2>. QED
      BY <2>1, <2>5 DEF Paid!PaidNext
  <1>2. ASSUME NEW a \in Auth, NEW x \in Hash, Include(a, x)
        PROVE  Paid!PaidNext
    <2>1. PICK h \in handedOver : AuthOf(h) = a
      BY <1>2 DEF Include
    <2>2. \A g \in handedOver : AuthOf(g) = a => g = h
      BY <2>1 DEF PaymentInv, CommittedOnce, Committed
    <2>3. Times(handedOver)[a] = 1
      BY <1>0, <2>1, <2>2, CountFacts
    <2>4. /\ handedOver' = handedOver /\ released' = released /\ chain[x] = NoAuth
          /\ chain' = [chain EXCEPT ![x] = a] /\ \A y \in Hash : chain[y] # a
      BY <1>2 DEF Include
    <2>5. Charged' = Charged \cup {a} /\ a \notin Charged
      <3>1. a # NoAuth
        BY PaymentAssumption
      <3>. QED
        BY <1>0, <2>4, <3>1 DEF Charged, TypeOK
    <2>6. Paid!Charge(a)
      BY <1>0, <2>3, <2>4, <2>5 DEF Paid!Charge, Charged
    <2>. QED
      BY <2>6 DEF Paid!PaidNext
  <1>3. ASSUME NEW h \in Handler, Release(h)
        PROVE  Paid!PaidNext
    <2>. DEFINE a == AuthOf(h)
    <2>1. a \in Auth /\ pc[h] = "settled" /\ HandlerInv(h) /\ NoAuth # a
      BY <1>0, <1>3, PaymentAssumption DEF Release, At, PaymentInv
    <2>2. h \in handedOver /\ h \notin released /\ a \in Charged
      BY <2>1 DEF HandlerInv, PathSound, Paying, PastSettleCall, PastCheckpoint, Charged
    <2>3. released \subseteq handedOver
      BY <1>0 DEF PaymentInv, HandlerInv, PathSound
    <2>4. \A g \in released : AuthOf(g) # a
      BY <2>2, <2>3 DEF PaymentInv, CommittedOnce, Committed
    <2>5. Times(released)[a] = 0 /\ Times(released \cup {h}) = [Times(released) EXCEPT ![a] = 1]
      BY <1>0, <2>1, <2>4, CountOneMore
    <2>6. handedOver' = handedOver /\ released' = released \cup {h} /\ chain' = chain
      BY <1>3 DEF Release
    <2>7. Paid!ReleaseContent(a)
      BY <1>0, <2>2, <2>5, <2>6 DEF Paid!ReleaseContent, Charged
    <2>. QED
      BY <2>1, <2>7 DEF Paid!PaidNext
  <1>4. ASSUME UNCHANGED world
        PROVE  UNCHANGED Paid!promise
    BY <1>0, <1>4 DEF world, Paid!promise
  <1>5. \/ \E h \in Handler : CallSettle(h) \/ Release(h)
        \/ \E a \in Auth, x \in Hash : Include(a, x)
        \/ UNCHANGED world
    BY DEF Next, vars, Proceed, Arrive, Refuse, Verified, Abandon, BeginSettle, SettleAnswers,
       SettleLost, Checkpoint, Poll, Unconfirmed, Read, Confirm, Settle, Fail, StoreFails, Crash,
       Restart, Cleanup, Reconcile, ReconcileRow, ReconcileEnds, Tick, Unmoved, Operator, world
  <1>. QED
    BY <1>1, <1>2, <1>3, <1>4, <1>5

(* Durable payments implement PaidOnce: an authorization goes to the       *)
(* facilitator once, and its content out once and only when it is charged. *)
THEOREM CodePaysOnce == Spec => PaysOnce
  <1>1. Init => Paid!PaidInit
    <2>1. ASSUME Init
          PROVE  Times({}) = [a \in Auth |-> 0] /\ Charged = {}
      <3>1. \A a \in Auth : Times({})[a] = 0
        BY CountFacts
      <3>2. Times({}) = [a \in Auth |-> Times({})[a]]
        BY DEF Times
      <3>. QED
        BY <2>1, <3>1, <3>2 DEF Init, Charged
    <2>. QED
      BY <2>1 DEF Init, Paid!PaidInit, Charged
  <1>2. PaymentInv /\ PaymentInv' /\ [Next]_vars => [Paid!PaidNext]_(Paid!promise)
    BY PaidStep
  <1>. QED
    BY PaymentInductive, <1>1, <1>2, PTL DEF Spec, PaysOnce, Paid!PaidSpec
===============================================================================
