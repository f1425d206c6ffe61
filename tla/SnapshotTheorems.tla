---------------------------- MODULE SnapshotTheorems ----------------------------
(***************************************************************************)
(* Proofs about the two readers of the contract's demands, the API's index *)
(* and the browser's board, for any tree of blocks, any demands, requests, *)
(* refreshes and bounds: what they publish or show is what the contract    *)
(* held at one block, and they go back only if the chain does.             *)
(***************************************************************************)
EXTENDS MCSnapshots, FiniteSetTheorems, SequenceTheorems, WellFoundedInduction, TLAPS

-------------------------------------------------------------------------------
(* The tree of blocks and what the contract holds after each.              *)

(* A block that was canonical at some time.                                *)
Known(b) == b \in Past[head] \cup abandoned

(* Block c is on the chain that ends in b, or was abandoned.               *)
Below(c, b) == c \in abandoned \/ c \in Past[b]

ChainSound == ChainTypeOK /\ Past[head] \cap abandoned = {}

(* Demands with an event on the chain of b, after that of a and not after  *)
(* number n.                                                               *)
TouchedUpTo(a, b, n) ==
    UNION {Touched[c] : c \in {e \in Past[b] : Height[e] \in Height[a] + 1 .. n}}

(* The blocks of a chain.                                                  *)
LEMMA PastOf ==
    ASSUME NEW b \in Block, NEW c \in Past[b]
    PROVE  /\ c \in Block /\ Height[c] \in Nat /\ Height[c] <= Height[b]
           /\ Past[c] = {d \in Past[b] : Height[d] <= Height[c]}
    BY TreeAssumption

(* Of two blocks of a chain the lower one is in the past of the other.     *)
LEMMA OneChain ==
    ASSUME NEW b \in Block, NEW c \in Past[b], NEW d \in Past[b], Height[c] <= Height[d]
    PROVE  c \in Past[d]
    BY TreeAssumption

(* A chain has one block of a number.                                      *)
LEMMA OneAtEach ==
    ASSUME NEW b \in Block, NEW c \in Past[b], NEW d \in Past[b], Height[c] = Height[d]
    PROVE  c = d
    BY TreeAssumption

(* Any set of numbers has a least element.                                 *)
LEMMA LeastOf ==
    ASSUME NEW T, T \subseteq Nat, T # {}
    PROVE  \E n \in T : \A m \in T : n <= m
<1>1. PICK n \in T : \A m \in T : ~(<<m, n>> \in OpToRel(<, Nat))
    BY NatLessThanWellFounded, WFMin, Zenon
<1>2. ASSUME NEW m \in T PROVE n <= m
    <2>1. m \in Nat /\ n \in Nat
        OBVIOUS
    <2>2. ~(m < n)
        BY <1>1, <2>1 DEF OpToRel
    <2> QED BY <2>1, <2>2
<1> QED BY <1>2

(* The demands of a chain are those that its events name, and no others.   *)
LEMMA DemandsOf ==
    ASSUME NEW b \in Block
    PROVE  /\ NextDemandId[b] \in Nat \ {0}
           /\ 1 .. NextDemandId[b] - 1 \subseteq Demand
           /\ \A d \in Demand : d \in Int /\ d >= 1
           /\ \A d : d \in 1 .. NextDemandId[b] - 1 <=> \E c \in Past[b] : d \in Touched[c]
           /\ \A c \in Past[b] : Touched[c] \subseteq 1 .. NextDemandId[b] - 1
<1>1. Past[b] \subseteq Block /\ NextDemandId[b] \in Nat \ {0}
    BY TreeAssumption, DemandAssumption
<1>2. \A c \in Past[b] : Touched[c] \subseteq Demand
    BY <1>1, DemandAssumption
<1>3. UNION {Touched[c] : c \in Past[b]} = 1 .. NextDemandId[b] - 1
    BY DemandAssumption
<1>4. \A d : d \in 1 .. NextDemandId[b] - 1 <=> \E c \in Past[b] : d \in Touched[c]
    BY <1>3
<1>5. \A d \in Demand : d \in Int /\ d >= 1
    BY DEF Demand
<1> QED BY <1>1, <1>2, <1>4, <1>5

(* There is a last block that changed a demand.                            *)
LEMMA ChangedIs ==
    ASSUME NEW b \in Block, NEW d \in 1 .. NextDemandId[b] - 1
    PROVE  /\ Changed(b, d) \in Past[b] /\ d \in Touched[Changed(b, d)]
           /\ \A e \in Past[b] : d \in Touched[e] => Height[e] <= Height[Changed(b, d)]
           /\ Changed(b, d) \in Block
<1> DEFINE changers == {c \in Past[b] : d \in Touched[c]}
           T == {Height[b] - Height[c] : c \in changers}
<1>0. \A c \in Past[b] : c \in Block /\ Height[c] \in Nat /\ Height[c] <= Height[b]
    BY PastOf
<1>b. Height[b] \in Nat
    BY TreeAssumption
<1>1. T \subseteq Nat
    BY <1>0, <1>b
<1>2. T # {}
    BY DemandsOf
<1>3. PICK n \in T : \A m \in T : n <= m
    <2> HIDE DEF T
    <2> QED BY <1>1, <1>2, LeastOf
<1>4. PICK c \in changers : n = Height[b] - Height[c]
    BY <1>3
<1>5. ASSUME NEW e \in Past[b], d \in Touched[e] PROVE Height[e] <= Height[c]
    <2>1. Height[b] - Height[e] \in T
        BY <1>5
    <2>2. Height[b] - Height[c] <= Height[b] - Height[e]
        BY <2>1, <1>3, <1>4
    <2> QED BY <2>2, <1>0, <1>b, <1>4
<1>6. /\ Changed(b, d) \in Past[b] /\ d \in Touched[Changed(b, d)]
      /\ \A e \in Past[b] : d \in Touched[e] => Height[e] <= Height[Changed(b, d)]
    BY <1>4, <1>5 DEF Changed
<1> QED BY <1>6, <1>0

(* A demand that no block after a names is on b what it was on a.          *)
LEMMA ChangedSame ==
    ASSUME NEW b \in Block, NEW a \in Past[b], NEW d \in Demand, d < NextDemandId[b],
           d \notin TouchedUpTo(a, b, Height[b])
    PROVE  d < NextDemandId[a] /\ Changed(b, d) = Changed(a, d)
<1>0. a \in Block /\ Past[a] = {e \in Past[b] : Height[e] <= Height[a]}
      /\ Height[a] \in Nat /\ Height[b] \in Nat
    BY PastOf, TreeAssumption
<1>d. d \in 1 .. NextDemandId[b] - 1
    BY DemandsOf
<1>1. ASSUME NEW e \in Past[b], d \in Touched[e] PROVE e \in Past[a]
    <2>1. Height[e] \in Nat /\ Height[e] <= Height[b]
        BY PastOf
    <2>2. ~(Height[e] \in Height[a] + 1 .. Height[b])
        BY <1>1 DEF TouchedUpTo
    <2> QED BY <2>1, <2>2, <1>0
<1>2. /\ Changed(b, d) \in Past[b] /\ d \in Touched[Changed(b, d)]
      /\ \A e \in Past[b] : d \in Touched[e] => Height[e] <= Height[Changed(b, d)]
    BY <1>d, ChangedIs
<1>3. d \in 1 .. NextDemandId[a] - 1
    BY <1>0, <1>1, <1>2, DemandsOf
<1>4. /\ Changed(a, d) \in Past[a] /\ d \in Touched[Changed(a, d)]
      /\ \A e \in Past[a] : d \in Touched[e] => Height[e] <= Height[Changed(a, d)]
    BY <1>0, <1>3, ChangedIs
<1>5. Changed(b, d) \in Past[a] /\ Changed(a, d) \in Past[b]
    BY <1>0, <1>1, <1>2, <1>4
<1>6. Height[Changed(b, d)] = Height[Changed(a, d)]
    <2>1. Height[Changed(b, d)] \in Nat /\ Height[Changed(a, d)] \in Nat
        BY <1>5, PastOf
    <2> QED BY <2>1, <1>2, <1>4, <1>5
<1>7. Changed(b, d) = Changed(a, d)
    BY <1>2, <1>5, <1>6, OneAtEach
<1>8. d < NextDemandId[a]
    BY <1>0, <1>3, DemandAssumption
<1> QED BY <1>7, <1>8

(* A later block of a chain has at least the demands of an earlier one.    *)
LEMMA DemandsGrow ==
    ASSUME NEW b \in Block, NEW a \in Past[b], NEW d \in Demand, d < NextDemandId[a]
    PROVE  d < NextDemandId[b]
<1>1. a \in Block /\ Past[a] \subseteq Past[b]
    BY PastOf
<1>2. d \in 1 .. NextDemandId[a] - 1
    BY <1>1, DemandsOf
<1>3. PICK c \in Past[a] : d \in Touched[c]
    BY <1>1, <1>2, DemandsOf
<1>4. d \in 1 .. NextDemandId[b] - 1
    BY <1>1, <1>3, DemandsOf
<1> QED BY <1>4, DemandAssumption

(* What is read by number is of the chain of a block that was canonical,   *)
(* unless that has been abandoned.                                         *)
LEMMA ReadByNumber ==
    ASSUME ChainSound, NEW b, Known(b)
    PROVE  /\ b \in Block
           /\ \A c \in Canonical(Height[b]) : b \in abandoned \/ c = b
           /\ \A c \in Canonical(Height[b]) : c = b => b \notin abandoned
           /\ b \notin abandoned => b \in Past[head]
<1>1. b \in Block /\ Past[head] \subseteq Block
    BY TreeAssumption DEF ChainSound, ChainTypeOK, Known
<1> QED BY <1>1, OneAtEach DEF ChainSound, ChainTypeOK, Known, Canonical

(* The logs of an interval of numbers are those of the chain of a block,  *)
(* unless that has been abandoned.                                         *)
LEMMA LogsByNumber ==
    ASSUME ChainSound, NEW b, Known(b), NEW m \in Nat, NEW n \in Nat, n <= Height[b]
    PROVE  /\ LogsOf(m, n) \subseteq Demand
           /\ \/ b \in abandoned
              \/ LogsOf(m, n) = UNION {Touched[c] : c \in {e \in Past[b] : Height[e] \in m .. n}}
<1>1. b \in Block /\ head \in Block /\ Past[head] \subseteq Block
    BY TreeAssumption DEF ChainSound, ChainTypeOK, Known
<1>2. LogsOf(m, n) \subseteq Demand
    BY <1>1, DemandAssumption DEF LogsOf, Between
<1>3. ASSUME b \notin abandoned
      PROVE  {e \in Past[head] : Height[e] \in m .. n} = {e \in Past[b] : Height[e] \in m .. n}
    <2>1. b \in Past[head]
        BY <1>3 DEF Known
    <2>2. Past[b] = {e \in Past[head] : Height[e] <= Height[b]} /\ Height[b] \in Nat
        BY <1>1, <2>1, PastOf
    <2>3. \A e \in Past[head] : Height[e] \in Nat
        BY <1>1, PastOf
    <2> QED BY <2>2, <2>3
<1> QED BY <1>2, <1>3 DEF LogsOf, Between

(* The head is known, and every block known before lies below it.          *)
LEMMA HeadIsKnown ==
    ASSUME ChainSound
    PROVE  /\ head \in Block /\ Known(head) /\ Height[head] \in Nat
           /\ \A c : Known(c) => Below(c, head)
    BY TreeAssumption DEF ChainSound, ChainTypeOK, Known, Below

(* The chain moves: what was known is known, what was below stays below.   *)
LEMMA ChainMoves ==
    ASSUME ChainSound, NEW b \in Block, MoveTo(b)
    PROVE  /\ ChainSound' /\ abandoned \subseteq abandoned'
           /\ \A c : Known(c) => Known(c)'
<1>1. head \in Block /\ Past[head] \subseteq Block
    BY TreeAssumption DEF ChainSound, ChainTypeOK
<1>2. head' = b /\ abandoned' = abandoned \cup (Past[head] \ Past[b]) /\ Past[b] \cap abandoned = {}
    BY DEF MoveTo
<1> QED BY <1>1, <1>2 DEF ChainSound, ChainTypeOK, Known

(* One window more of the logs.                                            *)
LEMMA OneWindowMore ==
    ASSUME ChainSound, NEW b, Known(b), NEW a \in Past[b],
           NEW m \in Nat, NEW n \in Nat, Height[a] < m, m <= n, n <= Height[b]
    PROVE  /\ LogsOf(m, n) \subseteq Demand
           /\ \/ b \in abandoned
              \/ TouchedUpTo(a, b, m - 1) \cup LogsOf(m, n) = TouchedUpTo(a, b, n)
<1>1. b \in Block
    BY ReadByNumber
<1>2. a \in Block /\ Height[a] \in Nat /\ \A e \in Past[b] : Height[e] \in Nat
    BY <1>1, PastOf
<1>3. \A k \in Nat : k \in Height[a] + 1 .. n <=> k \in Height[a] + 1 .. m - 1 \/ k \in m .. n
    BY <1>2
<1>4. {e \in Past[b] : Height[e] \in Height[a] + 1 .. n}
          = {e \in Past[b] : Height[e] \in Height[a] + 1 .. m - 1}
                \cup {e \in Past[b] : Height[e] \in m .. n}
    BY <1>2, <1>3
<1>5. TouchedUpTo(a, b, n)
          = TouchedUpTo(a, b, m - 1)
                \cup UNION {Touched[c] : c \in {e \in Past[b] : Height[e] \in m .. n}}
    BY <1>4 DEF TouchedUpTo
<1> QED BY <1>5, LogsByNumber

(* The lower of two bounds.                                                *)
LEMMA MinOfTwo ==
    ASSUME NEW m \in Int, NEW n \in Int
    PROVE  Min({m, n}) = IF m <= n THEN m ELSE n
<1> DEFINE least == IF m <= n THEN m ELSE n
<1>1. least \in {m, n} /\ \A y \in {m, n} : least <= y
    OBVIOUS
<1>2. \A x \in {m, n} : (\A y \in {m, n} : x <= y) => x = least
    OBVIOUS
<1> HIDE DEF least
<1>3. Min({m, n}) = CHOOSE x \in {m, n} : \A y \in {m, n} : x =< y
    BY DEF Min
<1>4. Min({m, n}) \in {m, n} /\ \A y \in {m, n} : Min({m, n}) <= y
    BY <1>1, <1>3
<1> QED BY <1>2, <1>4 DEF least
-------------------------------------------------------------------------------
(* The index of the API.                                                   *)

Entries == [Demand -> [Part -> Block \cup {NoBlock}]]

IndexType ==
    [ready: BOOLEAN, entries: Entries, versions: [Demand -> Nat], version: Nat,
     block: Block \cup {NoBlock}]

RunType ==
    [step: Step, block: Block \cup {NoBlock}, whole: BOOLEAN, cursor: Nat,
     ids: SUBSET Demand, todo: SUBSET (Demand \X Part), updates: Entries]

StateType ==
    /\ index \in IndexType /\ run \in [Request -> RunType]
    /\ fresh \in BOOLEAN /\ seen \subseteq Block /\ failures \in 0 .. MaxFailures
    /\ refreshPromise \in Request \cup {NoRequest} /\ waiting \subseteq Request

(* The demands a refresh reads.                                            *)
Wanted(u, x) ==
    u.ids \cup {d \in 1 .. NextDemandId[u.block] - 1 : u.whole \/ x.entries[d] = NoEntry}

(* What has been read is of the block of the refresh; the rest is to do.   *)
ReadSoFar(u, x) ==
    /\ u.todo \subseteq Wanted(u, x) \X Part
    /\ \A d \in Demand, p \in Part :
          u.updates[d][p] = IF d \in Wanted(u, x) /\ <<d, p>> \notin u.todo
                            THEN Changed(u.block, d) ELSE NoBlock

(* A refresh that goes on from the published block.                        *)
GoesOn(u) == u.step \in {"logs", "missing"} \/ (u.step = "read" /\ ~u.whole)

(* A refresh that has pinned its block pinned one that came after the      *)
(* published one, and had been the head since the last refresh went out of *)
(* date.                                                                   *)
PinSound(u, x) ==
    u.step \in {"count", "indexed", "logs", "missing", "read"} =>
        /\ Known(u.block) /\ u.block \in seen
        /\ x.ready => Below(x.block, u.block)

(* What a refresh has gathered at each of its steps.                       *)
StepSound(u, x) ==
    /\ u.step = "none" => u = NoRun
    /\ u.step \in {"current", "indexed"} \/ GoesOn(u) => x.ready
    /\ u.step \in {"current", "indexed", "logs", "missing"} => ~u.whole
    /\ u.step = "count" \/ u.whole => u.ids = {} /\ u.whole
    /\ u.step \in {"current", "indexed"} => u.ids = {}
    /\ u.step \in {"none", "count", "current", "indexed", "logs", "missing"} =>
          u.updates = [d \in Demand |-> NoEntry]
    /\ u.step = "indexed" => Height[x.block] <= Height[u.block]
    /\ GoesOn(u) => x.block \in Past[u.block]
    /\ u.step = "logs" =>
          /\ Height[x.block] < u.cursor /\ u.cursor <= Height[u.block]
          /\ u.block \in abandoned \/ u.ids = TouchedUpTo(x.block, u.block, u.cursor - 1)
    /\ GoesOn(u) /\ u.step # "logs" =>
          u.block \in abandoned \/ u.ids = TouchedUpTo(x.block, u.block, Height[u.block])
    /\ u.step = "read" => u.block \in abandoned \/ ReadSoFar(u, x)

(* Only the refresh that is awaited runs, and none while the index is      *)
(* fresh.                                                                  *)
OneRefresh(r) == run[r].step # "none" => refreshPromise = r /\ ~fresh

Published ==
    /\ index.ready => /\ Known(index.block)
                      /\ \A d \in Demand : index.entries[d] = EntryOf(index.block, d)
    /\ fresh => index.ready /\ index.block \in seen
    /\ \A d \in Demand : index.versions[d] <= index.version

IndexInv ==
    /\ ChainSound /\ StateType /\ head \in seen
    /\ Published
    /\ \A r \in Request :
          OneRefresh(r) /\ PinSound(run[r], index) /\ StepSound(run[r], index)

(* A run at rest is sound whatever the index is.                           *)
LEMMA NoRunSound ==
    ASSUME NEW x
    PROVE  NoRun \in RunType /\ PinSound(NoRun, x) /\ StepSound(NoRun, x)
<1>1. NoRun \in RunType
    BY DEF NoRun, RunType, Step, Entries, NoEntry
<1>2. NoRun.step = "none" /\ ~NoRun.whole /\ NoRun.updates = [d \in Demand |-> NoEntry]
    BY DEF NoRun
<1>3. ~GoesOn(NoRun)
    BY <1>2 DEF GoesOn
<1>4. StepSound(NoRun, x)
    BY <1>2, <1>3 DEF StepSound
<1> QED BY <1>1, <1>2, <1>4 DEF PinSound

(* Nothing is published, and no refresh is under way.                      *)
LEMMA IndexInit == Init => IndexInv
<1> SUFFICES ASSUME Init PROVE IndexInv
    OBVIOUS
<1>1. ChainSound /\ head \in seen
    BY TreeAssumption DEF Init, ChainInit, ChainSound, ChainTypeOK
<1>2. index \in IndexType
    BY DEF Init, IndexType, Entries, NoEntry
<1>r. run = [r \in Request |-> NoRun] /\ NoRun \in RunType
    BY NoRunSound DEF Init
<1>s. run \in [Request -> RunType] /\ seen \subseteq Block /\ failures \in 0 .. MaxFailures
    BY <1>r, TreeAssumption, BoundsAssumption DEF Init
<1>3. StateType
    BY <1>2, <1>s DEF Init, StateType
<1>4. Published
    BY DEF Init, Published
<1>5. ASSUME NEW r \in Request
      PROVE  OneRefresh(r) /\ PinSound(run[r], index) /\ StepSound(run[r], index)
    <2>1. run[r] = NoRun /\ NoRun.step = "none"
        BY <1>r DEF NoRun
    <2> QED BY <2>1, NoRunSound DEF OneRefresh
<1> QED BY <1>1, <1>3, <1>4, <1>5 DEF IndexInv

(* Runs under way: there is one at most.                                   *)
LEMMA OnlyRun ==
    ASSUME IndexInv, NEW r \in Request, run[r].step # "none"
    PROVE  /\ refreshPromise = r /\ ~fresh
           /\ \A q \in Request \ {r} : run[q] = NoRun
           /\ run[r] \in RunType /\ index \in IndexType
           /\ ChainSound /\ StateType /\ Published
           /\ PinSound(run[r], index) /\ StepSound(run[r], index)
<1>1. refreshPromise = r /\ ~fresh
    BY DEF IndexInv, OneRefresh
<1>2. ASSUME NEW q \in Request \ {r} PROVE run[q] = NoRun
    BY <1>1 DEF IndexInv, OneRefresh, StepSound
<1> QED BY <1>1, <1>2 DEF IndexInv, StateType

(* A refresh takes a step of its own.                                      *)
LEMMA RunGoesOn ==
    ASSUME IndexInv, NEW r \in Request, run[r].step # "none", NEW u \in RunType,
           run' = [run EXCEPT ![r] = u], Unmoved,
           PinSound(u, index), StepSound(u, index)
    PROVE  IndexInv'
<1>1. head' = head /\ abandoned' = abandoned /\ index' = index /\ fresh' = fresh
      /\ refreshPromise' = refreshPromise /\ waiting' = waiting /\ seen' = seen
      /\ failures' = failures
    BY DEF Unmoved, chain
<1>2. refreshPromise = r /\ ~fresh /\ run \in [Request -> RunType]
    BY OnlyRun DEF StateType
<1>3. ChainSound' /\ (head \in seen)' /\ Published'
    BY <1>1 DEF IndexInv, ChainSound, ChainTypeOK, Published, Known
<1>4. StateType'
    BY <1>1, <1>2 DEF IndexInv, StateType
<1>5. \A v, x : /\ PinSound(v, x) => PinSound(v, x)'
                /\ StepSound(v, x) => StepSound(v, x)'
    BY <1>1 DEF PinSound, StepSound, Known, Below
<1>6. ASSUME NEW q \in Request
      PROVE  /\ OneRefresh(q)'
             /\ PinSound(run'[q], index') /\ StepSound(run'[q], index')
    <2>1. CASE q = r
        <3>1. run'[q] = u
            BY <2>1, <1>2
        <3> QED BY <3>1, <2>1, <1>1, <1>2 DEF OneRefresh
    <2>2. CASE q # r
        <3>1. run'[q] = run[q]
            BY <2>2, <1>2
        <3> QED BY <3>1, <1>1 DEF IndexInv, OneRefresh
    <2> QED BY <2>1, <2>2
<1>7. ASSUME NEW q \in Request
      PROVE  PinSound(run[q], index)' /\ StepSound(run[q], index)'
    BY <1>1, <1>5, <1>6 DEF PinSound, StepSound, Known, Below
<1> QED BY <1>3, <1>4, <1>6, <1>7 DEF IndexInv

(* A refresh ends; what is published then is sound.                        *)
LEMMA RunEnds ==
    ASSUME IndexInv, NEW r \in Request, run[r].step # "none", NEW result,
           Settle(r, result), failures' \in 0 .. MaxFailures,
           index' \in IndexType, Published'
    PROVE  IndexInv'
<1>1. head' = head /\ abandoned' = abandoned /\ seen' = seen /\ refreshPromise' = NoRequest
      /\ waiting' = {} /\ fresh' \in BOOLEAN
    BY DEF Settle, chain
<1>2. run \in [Request -> RunType]
    BY DEF IndexInv, StateType
<1>3. \A q \in Request : run'[q] = NoRun
    BY <1>2, OnlyRun DEF Settle
<1>4. run' \in [Request -> RunType]
    BY <1>2, NoRunSound DEF Settle
<1>5. ChainSound' /\ (head \in seen)'
    BY <1>1 DEF IndexInv, ChainSound, ChainTypeOK
<1>6. StateType'
    BY <1>1, <1>4 DEF IndexInv, StateType
<1>7. NoRun.step = "none" /\ ~GoesOn(NoRun) /\ ~NoRun.whole
      /\ NoRun.updates = [d \in Demand |-> NoEntry]
    BY DEF GoesOn, NoRun
<1>8. ASSUME NEW q \in Request
      PROVE  OneRefresh(q)' /\ PinSound(run[q], index)' /\ StepSound(run[q], index)'
    <2>1. run'[q].step = "none" /\ run'[q] = NoRun /\ ~GoesOn(run'[q]) /\ ~run'[q].whole
          /\ run'[q].updates = [d \in Demand |-> NoEntry]
        BY <1>3, <1>7
    <2>2. PinSound(run[q], index)' /\ OneRefresh(q)'
        BY <2>1 DEF PinSound, OneRefresh
    <2>3. StepSound(run[q], index)'
        BY <2>1 DEF StepSound, GoesOn
    <2> QED BY <2>2, <2>3
<1> QED BY <1>5, <1>6, <1>8 DEF IndexInv

-------------------------------------------------------------------------------
(* Each step of a refresh.                                                 *)

(* A call that fails leaves the index as it is.                            *)
LEMMA FailKeeps ==
    ASSUME IndexInv, NEW r \in Request, run[r].step # "none",
           Settle(r, "failed"), index' = index, failures' \in 0 .. MaxFailures
    PROVE  IndexInv'
<1>1. index \in IndexType /\ Published
    BY DEF IndexInv, StateType
<1>2. head' = head /\ abandoned' = abandoned /\ seen' = seen /\ fresh' = fresh
    BY DEF Settle, chain, IndexInv, StateType
<1>3. Published'
    BY <1>1, <1>2 DEF Published, Known
<1> QED BY <1>1, <1>3, RunEnds

(* A call that fails or takes too long.                                    *)
LEMMA AbortKeeps == ASSUME IndexInv, NEW r \in Request, Abort(r) PROVE IndexInv'
<1>1. failures' \in 0 .. MaxFailures
    BY BoundsAssumption DEF Abort, IndexInv, StateType
<1> QED BY <1>1, FailKeeps DEF Abort

(* An answer that is an error, a capacity exceeded, a reorganisation seen. *)
LEMMA FailsKeeps ==
    ASSUME IndexInv, NEW r \in Request, run[r].step # "none", Fail(r) PROVE IndexInv'
<1>1. failures' \in 0 .. MaxFailures
    BY DEF Fail, IndexInv, StateType
<1> QED BY <1>1, FailKeeps DEF Fail

(* There is no block of that number any more.                              *)
LEMMA NoSuchBlockKeeps == ASSUME IndexInv, NEW r \in Request, NoSuchBlock(r) PROVE IndexInv'
<1>1. run[r].step # "none" /\ Fail(r)
    BY DEF NoSuchBlock
<1> QED BY <1>1, FailsKeeps

(* ensureIndex begins a refresh only if none is awaited.                   *)
LEMMA AskKeeps == ASSUME IndexInv, NEW r \in Request, Ask(r) PROVE IndexInv'
<1>1. head' = head /\ abandoned' = abandoned /\ seen' = seen /\ index' = index
      /\ fresh' = fresh /\ failures' = failures /\ waiting' = waiting \cup {r}
      /\ run[r].step = "none"
    BY DEF Ask, chain
<1>2. ChainSound' /\ (head \in seen)' /\ Published'
    BY <1>1 DEF IndexInv, ChainSound, ChainTypeOK, Published, Known
<1>3. \A v, x : /\ PinSound(v, x) => PinSound(v, x)'
                /\ StepSound(v, x) => StepSound(v, x)'
    BY <1>1 DEF PinSound, StepSound, Known, Below
<1>4. run \in [Request -> RunType] /\ index \in IndexType /\ run[r] = NoRun
    BY <1>1 DEF IndexInv, StateType, StepSound
<1>5. CASE Joins /\ refreshPromise' = refreshPromise /\ run' = run
    <2>1. StateType'
        BY <1>1, <1>5 DEF IndexInv, StateType
    <2>2. ASSUME NEW q \in Request
          PROVE  OneRefresh(q)' /\ PinSound(run[q], index)' /\ StepSound(run[q], index)'
        <3>1. OneRefresh(q) /\ PinSound(run[q], index) /\ StepSound(run[q], index)
            BY DEF IndexInv
        <3>2. OneRefresh(q)'
            BY <1>1, <1>5, <3>1 DEF OneRefresh
        <3>3. PinSound(run[q], index)' /\ StepSound(run[q], index)'
            BY <1>1, <1>5, <3>1 DEF PinSound, StepSound, Known, Below
        <3> QED BY <3>2, <3>3
    <2> QED BY <1>2, <2>1, <2>2 DEF IndexInv
<1>6. CASE /\ ~Joins /\ ~(index.ready /\ fresh) /\ refreshPromise' = r
           /\ Goto(r, IF index.ready THEN "current" ELSE "rebuild")
    <2> DEFINE u == [NoRun EXCEPT !.step = IF index.ready THEN "current" ELSE "rebuild"]
    <2>1. /\ u \in RunType /\ u.updates = [d \in Demand |-> NoEntry] /\ u.ids = {} /\ ~u.whole
          /\ u.step \in {"current", "rebuild"} /\ (u.step = "current" => index.ready)
          /\ u.block = NoBlock
        <3>1. NoRun \in RunType
            BY NoRunSound
        <3>2. u \in RunType
            BY <3>1 DEF RunType, Step
        <3> QED BY <3>2 DEF NoRun
    <2>2. run' = [run EXCEPT ![r] = u]
        BY <1>4, <1>6 DEF Goto, NoRun
    <2> HIDE DEF u
    <2>3. \A q \in Request : run[q] = NoRun /\ refreshPromise = NoRequest
        BY <1>6, RequestAssumption DEF Joins, IndexInv, OneRefresh, StepSound
    <2>4. ~fresh
        BY <1>6 DEF IndexInv, Published
    <2>5. PinSound(u, index) /\ StepSound(u, index)
        BY <2>1 DEF PinSound, StepSound, GoesOn
    <2>6. run' \in [Request -> RunType]
        BY <2>1, <2>2, <1>4
    <2>7. StateType'
        BY <1>1, <1>6, <2>6 DEF IndexInv, StateType
    <2>8. ASSUME NEW q \in Request
          PROVE  OneRefresh(q)' /\ PinSound(run[q], index)' /\ StepSound(run[q], index)'
        <3>1. run'[q] = IF q = r THEN u ELSE NoRun
            BY <2>2, <2>3, <1>4
        <3>2. NoRun.step = "none"
            BY DEF NoRun
        <3>3. OneRefresh(q)'
            BY <3>1, <3>2, <1>1, <1>6, <2>4 DEF OneRefresh
        <3>4. PinSound(run'[q], index) /\ StepSound(run'[q], index)
            BY <3>1, <2>5, NoRunSound
        <3>5. PinSound(run[q], index)' /\ StepSound(run[q], index)'
            BY <3>4, <1>1 DEF PinSound, StepSound, Known, Below
        <3> QED BY <3>3, <3>5
    <2> QED BY <1>2, <2>7, <2>8 DEF IndexInv
<1> QED BY <1>5, <1>6 DEF Ask

(* The head is newer than any block that was published.                    *)
LEMMA RebuildKeeps == ASSUME IndexInv, NEW r \in Request, Rebuild(r) PROVE IndexInv'
<1> DEFINE u == [NoRun EXCEPT !.step = "count", !.block = head, !.whole = TRUE]
<1>1. ChainSound /\ head \in seen /\ Published
    BY DEF IndexInv
<1>2. u \in RunType /\ u.step = "count" /\ u.block = head /\ u.whole /\ u.ids = {}
      /\ u.updates = [d \in Demand |-> NoEntry]
    <2>1. NoRun \in RunType /\ head \in Block
        BY <1>1, NoRunSound, HeadIsKnown
    <2>2. u \in RunType
        BY <2>1 DEF RunType, Step
    <2> QED BY <2>2 DEF NoRun
<1>3. run[r].step # "none" /\ run' = [run EXCEPT ![r] = u] /\ Unmoved
    BY DEF Rebuild
<1> HIDE DEF u
<1>4. PinSound(u, index)
    BY <1>1, <1>2, HeadIsKnown DEF PinSound, Published
<1>5. StepSound(u, index)
    BY <1>2 DEF StepSound, GoesOn
<1> QED BY <1>2, <1>3, <1>4, <1>5, RunGoesOn

(* All demands of the block are to be read.                                *)
LEMMA CountKeeps == ASSUME IndexInv, NEW r \in Request, Count(r) PROVE IndexInv'
<1>1. run[r].step = "count" /\ run[r].step # "none"
    BY DEF Count
<1>2. PICK b \in Canonical(Height[run[r].block]) :
          IF Capacity(NextDemandId[b])
          THEN /\ run' = [run EXCEPT ![r].step = "read",
                                     ![r].todo = (1 .. NextDemandId[b] - 1) \X Part]
               /\ Unmoved
          ELSE Fail(r)
    BY DEF Count
<1>3. CASE Fail(r)
    BY <1>1, <1>3, FailsKeeps
<1>4. CASE /\ run' = [run EXCEPT ![r].step = "read",
                                 ![r].todo = (1 .. NextDemandId[b] - 1) \X Part]
           /\ Unmoved
    <2> DEFINE u == [run[r] EXCEPT !.step = "read", !.todo = (1 .. NextDemandId[b] - 1) \X Part]
    <2>1. run[r] \in RunType /\ PinSound(run[r], index) /\ StepSound(run[r], index) /\ ChainSound
          /\ run \in [Request -> RunType]
        BY <1>1, OnlyRun DEF StateType
    <2>2. run' = [run EXCEPT ![r] = u]
        BY <1>4, <2>1
    <2>3. Known(run[r].block) /\ run[r].block \in seen /\ run[r].whole /\ run[r].ids = {}
          /\ run[r].updates = [d \in Demand |-> NoEntry]
          /\ (index.ready => Below(index.block, run[r].block))
        BY <1>1, <2>1 DEF PinSound, StepSound
    <2>4. b \in Block /\ (run[r].block \in abandoned \/ b = run[r].block)
        BY <2>1, <2>3, ReadByNumber, TreeAssumption DEF Canonical, ChainSound, ChainTypeOK
    <2>5. /\ u \in RunType /\ u.step = "read" /\ u.block = run[r].block /\ u.whole /\ u.ids = {}
          /\ u.updates = [d \in Demand |-> NoEntry]
          /\ u.todo = (1 .. NextDemandId[b] - 1) \X Part
        <3>1. (1 .. NextDemandId[b] - 1) \X Part \subseteq Demand \X Part
            BY <2>4, DemandsOf
        <3>2. u \in RunType
            BY <2>1, <3>1 DEF RunType, Step
        <3> QED BY <3>2, <2>3, <2>1 DEF RunType
    <2> HIDE DEF u
    <2>6. PinSound(u, index)
        BY <2>3, <2>5 DEF PinSound
    <2>7. ASSUME u.block \notin abandoned PROVE ReadSoFar(u, index)
        <3>1. Wanted(u, index) = 1 .. NextDemandId[b] - 1 /\ u.block = b
            BY <2>7, <2>4, <2>5 DEF Wanted
        <3>2. \A d \in Demand, p \in Part :
                  d \in Wanted(u, index) => <<d, p>> \in u.todo
            BY <3>1, <2>5
        <3>3. \A d \in Demand, p \in Part : u.updates[d][p] = NoBlock
            BY <2>5 DEF NoEntry
        <3> QED BY <3>1, <3>2, <3>3, <2>5 DEF ReadSoFar
    <2>8. StepSound(u, index)
        BY <2>5, <2>7 DEF StepSound, GoesOn
    <2> QED BY <1>1, <2>2, <2>5, <2>6, <2>8, <1>4, RunGoesOn
<1> QED BY <1>2, <1>3, <1>4

(* The index goes on from its block only to a head that is not lower.      *)
LEMMA CurrentKeeps == ASSUME IndexInv, NEW r \in Request, Current(r) PROVE IndexInv'
<1> DEFINE step == IF Height[head] < Height[index.block] \/ TooFar(head)
                   THEN "rebuild" ELSE "indexed"
           u == [run[r] EXCEPT !.step = step, !.block = head]
<1>1. run[r].step = "current" /\ run[r].step # "none"
    BY DEF Current
<1>2. run[r] \in RunType /\ StepSound(run[r], index) /\ ChainSound /\ Published
      /\ run \in [Request -> RunType] /\ head \in seen /\ index \in IndexType
    BY <1>1, OnlyRun DEF StateType, IndexInv
<1>3. run' = [run EXCEPT ![r] = u] /\ Unmoved
    BY <1>2 DEF Current
<1>4. /\ index.ready /\ run[r].ids = {} /\ ~run[r].whole
      /\ run[r].updates = [d \in Demand |-> NoEntry]
    BY <1>1, <1>2 DEF StepSound
<1>5. head \in Block /\ Known(head) /\ Height[head] \in Nat /\ \A c : Known(c) => Below(c, head)
    BY <1>2, HeadIsKnown
<1>6. index.block \in Block /\ Known(index.block)
    BY <1>2, <1>4, ReadByNumber DEF Published
<1>7. /\ step \in {"rebuild", "indexed"}
      /\ step = "indexed" => Height[index.block] <= Height[head]
    BY <1>5, <1>6, TreeAssumption
<1> HIDE DEF step
<1>8. /\ u \in RunType /\ u.step = step /\ u.block = head /\ ~u.whole /\ u.ids = {}
      /\ u.updates = [d \in Demand |-> NoEntry]
    <2>1. u \in RunType
        BY <1>2, <1>5, <1>7 DEF RunType, Step
    <2> QED BY <2>1, <1>2, <1>4 DEF RunType
<1> HIDE DEF u
<1>9. PinSound(u, index)
    BY <1>2, <1>4, <1>5, <1>6, <1>8 DEF PinSound
<1>10. StepSound(u, index)
    BY <1>4, <1>7, <1>8 DEF StepSound, GoesOn
<1> QED BY <1>1, <1>3, <1>8, <1>9, <1>10, RunGoesOn

(* A checkpoint that is canonical still is in the past of the pinned block.*)
LEMMA IndexedKeeps == ASSUME IndexInv, NEW r \in Request, Indexed(r) PROVE IndexInv'
<1>1. run[r].step = "indexed" /\ run[r].step # "none"
    BY DEF Indexed
<1>2. run[r] \in RunType /\ StepSound(run[r], index) /\ PinSound(run[r], index)
      /\ ChainSound /\ Published /\ run \in [Request -> RunType] /\ index \in IndexType
    BY <1>1, OnlyRun DEF StateType, IndexInv
<1>3. /\ index.ready /\ run[r].ids = {} /\ ~run[r].whole
      /\ run[r].updates = [d \in Demand |-> NoEntry]
      /\ Height[index.block] <= Height[run[r].block]
      /\ Known(run[r].block) /\ run[r].block \in seen /\ Below(index.block, run[r].block)
    BY <1>1, <1>2 DEF StepSound, PinSound
<1>4. index.block \in Block /\ Known(index.block) /\ run[r].block \in Block
      /\ Height[index.block] \in Nat /\ Height[run[r].block] \in Nat
    <2>1. index.block \in Block /\ Known(index.block) /\ run[r].block \in Block
        BY <1>2, <1>3, ReadByNumber DEF Published
    <2> QED BY <2>1, TreeAssumption
<1>5. PICK b \in Canonical(Height[index.block]) :
          \/ /\ ~StillIndexed(b, run[r].block)
             /\ Goto(r, "rebuild")
             /\ Unmoved
          \/ /\ StillIndexed(b, run[r].block)
             /\ Height[run[r].block] = Height[index.block]
             /\ Settle(r, "done")
             /\ UNCHANGED <<index, failures>>
          \/ /\ StillIndexed(b, run[r].block)
             /\ Height[run[r].block] # Height[index.block]
             /\ IF (Height[run[r].block] - Height[index.block] - 1) \div LogWindow + 1
                      > IndexMaxLogWindows
                THEN Fail(r)
                ELSE /\ run' = [run EXCEPT ![r].step = "logs",
                                           ![r].cursor = Height[index.block] + 1]
                     /\ Unmoved
    BY DEF Indexed
<1>6. CASE Goto(r, "rebuild") /\ Unmoved
    <2> DEFINE u == [run[r] EXCEPT !.step = "rebuild"]
    <2>1. run' = [run EXCEPT ![r] = u]
        BY <1>6, <1>2 DEF Goto
    <2>2. u \in RunType /\ u.step = "rebuild" /\ ~u.whole
        BY <1>2, <1>3 DEF RunType, Step
    <2> HIDE DEF u
    <2>3. PinSound(u, index) /\ StepSound(u, index)
        BY <2>2 DEF PinSound, StepSound, GoesOn
    <2> QED BY <1>1, <1>6, <2>1, <2>2, <2>3, RunGoesOn
(* The checkpoint is canonical still, and what is new came after it.       *)
<1>7. ASSUME StillIndexed(b, run[r].block) PROVE index.block \in Past[run[r].block]
    <2>1. index.block \notin abandoned
        BY <1>2, <1>4, <1>7, ReadByNumber DEF StillIndexed
    <2> QED BY <2>1, <1>3 DEF Below
<1>8. CASE /\ StillIndexed(b, run[r].block) /\ Height[run[r].block] = Height[index.block]
           /\ Settle(r, "done") /\ UNCHANGED <<index, failures>>
    <2>1. run[r].block = index.block
        BY <1>4, <1>7, <1>8, OneAtEach, TreeAssumption
    <2>2. head' = head /\ abandoned' = abandoned /\ seen' = seen /\ index' = index
          /\ failures' = failures
        BY <1>8 DEF Settle, chain
    <2>3. Published'
        BY <2>1, <2>2, <1>2, <1>3 DEF Published, Known
    <2>4. failures' \in 0 .. MaxFailures
        BY <2>2 DEF IndexInv, StateType
    <2> QED BY <1>1, <1>2, <1>8, <2>2, <2>3, <2>4, RunEnds
<1>9. CASE Fail(r)
    BY <1>1, <1>9, FailsKeeps
<1>10. CASE /\ StillIndexed(b, run[r].block) /\ Height[run[r].block] # Height[index.block]
            /\ run' = [run EXCEPT ![r].step = "logs", ![r].cursor = Height[index.block] + 1]
            /\ Unmoved
    <2> DEFINE u == [run[r] EXCEPT !.step = "logs", !.cursor = Height[index.block] + 1]
    <2>1. run' = [run EXCEPT ![r] = u]
        BY <1>10, <1>2
    <2>2. /\ u \in RunType /\ u.step = "logs" /\ u.cursor = Height[index.block] + 1
          /\ u.block = run[r].block /\ ~u.whole /\ u.ids = {}
          /\ u.updates = [d \in Demand |-> NoEntry]
        <3>0. Height[index.block] + 1 \in Nat /\ "logs" \in Step
            BY <1>4 DEF Step
        <3> DEFINE next == Height[index.block] + 1
        <3> HIDE DEF next
        <3>a. [run[r] EXCEPT !.step = "logs", !.cursor = next] \in RunType
            BY <1>2, <3>0 DEF RunType, next
        <3>1. u \in RunType
            BY <3>a DEF next
        <3> QED BY <3>1, <1>2, <1>3 DEF RunType
    <2> HIDE DEF u
    <2>3. PinSound(u, index)
        BY <1>3, <2>2 DEF PinSound
    <2>4. u.cursor <= Height[u.block] /\ Height[index.block] < u.cursor
        BY <1>3, <1>4, <1>10, <2>2
    <2>5. TouchedUpTo(index.block, u.block, u.cursor - 1) = {}
        <3>1. Height[index.block] + 1 .. u.cursor - 1 = {}
            BY <1>4, <2>2
        <3> QED BY <3>1 DEF TouchedUpTo
    <2>6. index.block \in Past[u.block]
        BY <1>7, <1>10, <2>2
    <2>7. StepSound(u, index)
        BY <1>3, <2>2, <2>4, <2>5, <2>6 DEF StepSound, GoesOn
    <2> QED BY <1>1, <1>10, <2>1, <2>2, <2>3, <2>7, RunGoesOn
<1> QED BY <1>5, <1>6, <1>8, <1>9, <1>10

(* The logs read so far name what changed since the checkpoint.            *)
LEMMA LogsKeeps == ASSUME IndexInv, NEW r \in Request, Logs(r) PROVE IndexInv'
<1> DEFINE end == Min({run[r].cursor + LogWindow - 1, Height[run[r].block]})
           ids == run[r].ids \cup LogsOf(run[r].cursor, end)
           step == IF NextWindow(end) <= Height[run[r].block] THEN "logs" ELSE "missing"
           u == [run[r] EXCEPT !.ids = ids, !.cursor = NextWindow(end), !.step = step]
<1>1. run[r].step = "logs" /\ run[r].step # "none"
    BY DEF Logs
<1>2. run[r] \in RunType /\ StepSound(run[r], index) /\ PinSound(run[r], index)
      /\ ChainSound /\ Published /\ run \in [Request -> RunType] /\ index \in IndexType
    BY <1>1, OnlyRun DEF StateType, IndexInv
<1>3. /\ index.ready /\ ~run[r].whole
      /\ run[r].updates = [d \in Demand |-> NoEntry]
      /\ index.block \in Past[run[r].block]
      /\ Height[index.block] < run[r].cursor /\ run[r].cursor <= Height[run[r].block]
      /\ \/ run[r].block \in abandoned
         \/ run[r].ids = TouchedUpTo(index.block, run[r].block, run[r].cursor - 1)
      /\ Known(run[r].block) /\ run[r].block \in seen /\ Below(index.block, run[r].block)
    BY <1>1, <1>2 DEF StepSound, PinSound, GoesOn
<1>4. run[r].block \in Block /\ Height[run[r].block] \in Nat /\ run[r].cursor \in Nat
      /\ index.block \in Block /\ Height[index.block] \in Nat /\ run[r].ids \subseteq Demand
    <2>1. run[r].block \in Block
        BY <1>2, <1>3, ReadByNumber
    <2> QED BY <2>1, <1>2, <1>3, PastOf, TreeAssumption DEF RunType
<1>5. end \in Nat /\ run[r].cursor <= end /\ end <= Height[run[r].block]
      /\ (step = "missing" => end = Height[run[r].block])
      /\ (step = "logs" => end + 1 <= Height[run[r].block])
      /\ step \in {"logs", "missing"} /\ NextWindow(end) = end + 1
    <2>1. end = IF run[r].cursor + LogWindow - 1 <= Height[run[r].block]
                THEN run[r].cursor + LogWindow - 1 ELSE Height[run[r].block]
        BY <1>4, BoundsAssumption, MinOfTwo
    <2> HIDE DEF end
    <2>2. end \in Nat /\ run[r].cursor <= end /\ end <= Height[run[r].block]
        BY <1>3, <1>4, <2>1, BoundsAssumption
    <2> QED BY <1>4, <2>2 DEF NextWindow
<1>6. CASE Fail(r)
    BY <1>1, <1>6, FailsKeeps
<1>7. CASE run' = [run EXCEPT ![r].ids = ids, ![r].cursor = NextWindow(end), ![r].step = step]
           /\ Unmoved
    <2>1. run' = [run EXCEPT ![r] = u]
        BY <1>7, <1>2
    <2> HIDE DEF end, step
    <2>2. /\ LogsOf(run[r].cursor, end) \subseteq Demand
          /\ \/ run[r].block \in abandoned
             \/ ids = TouchedUpTo(index.block, run[r].block, end)
        BY <1>2, <1>3, <1>4, <1>5, OneWindowMore
    <2> HIDE DEF ids
    <2>3. ids \subseteq Demand
        BY <2>2, <1>4 DEF ids
    <2>4. /\ u \in RunType /\ u.step = step /\ u.cursor = end + 1 /\ u.ids = ids
          /\ u.block = run[r].block /\ ~u.whole
          /\ u.updates = [d \in Demand |-> NoEntry]
        <3>0. end + 1 \in Nat /\ NextWindow(end) = end + 1 /\ step \in Step
            BY <1>5 DEF Step
        <3> DEFINE next == NextWindow(end)
        <3>n. next \in Nat
            BY <3>0
        <3> HIDE DEF next
        <3>a. [run[r] EXCEPT !.ids = ids, !.cursor = next, !.step = step] \in RunType
            BY <1>2, <2>3, <3>0, <3>n DEF RunType
        <3>1. u \in RunType
            BY <3>a DEF next
        <3> QED BY <3>1, <1>2, <1>3, <1>5 DEF RunType
    <2> HIDE DEF u
    <2>5. PinSound(u, index)
        BY <1>3, <2>4 DEF PinSound
    <2>6. u.cursor - 1 = end
        BY <1>5, <2>4
    <2>7. step = "logs" => Height[index.block] < u.cursor /\ u.cursor <= Height[u.block]
        BY <1>3, <1>4, <1>5, <2>4
    <2>8. u.block \in abandoned \/ u.ids = TouchedUpTo(index.block, u.block, end)
        BY <2>2, <2>4
    <2>9. StepSound(u, index)
        BY <1>3, <1>5, <2>4, <2>6, <2>7, <2>8 DEF StepSound, GoesOn
    <2> QED BY <1>1, <1>7, <2>1, <2>4, <2>5, <2>9, RunGoesOn
<1> QED BY <1>6, <1>7 DEF Logs

(* The demands that the logs name are to be read, and the missing ones.    *)
LEMMA MissingKeeps == ASSUME IndexInv, NEW r \in Request, Missing(r) PROVE IndexInv'
<1>1. run[r].step = "missing" /\ run[r].step # "none"
    BY DEF Missing
<1>2. run[r] \in RunType /\ StepSound(run[r], index) /\ PinSound(run[r], index)
      /\ ChainSound /\ Published /\ run \in [Request -> RunType] /\ index \in IndexType
    BY <1>1, OnlyRun DEF StateType, IndexInv
<1>3. /\ index.ready /\ ~run[r].whole
      /\ run[r].updates = [d \in Demand |-> NoEntry]
      /\ index.block \in Past[run[r].block]
      /\ \/ run[r].block \in abandoned
         \/ run[r].ids = TouchedUpTo(index.block, run[r].block, Height[run[r].block])
      /\ Known(run[r].block) /\ run[r].block \in seen /\ Below(index.block, run[r].block)
      /\ run[r].ids \subseteq Demand
    BY <1>1, <1>2 DEF StepSound, PinSound, GoesOn, RunType
<1>4. PICK b \in Canonical(Height[run[r].block]) :
          IF Capacity(NextDemandId[b])
          THEN /\ run' = [run EXCEPT
                      ![r].step = "read",
                      ![r].todo = (run[r].ids \cup {d \in 1 .. NextDemandId[b] - 1 :
                                                       index.entries[d] = NoEntry}) \X Part]
               /\ Unmoved
          ELSE Fail(r)
    BY DEF Missing
<1> DEFINE new == {d \in 1 .. NextDemandId[b] - 1 : index.entries[d] = NoEntry}
           u == [run[r] EXCEPT !.step = "read", !.todo = (run[r].ids \cup new) \X Part]
<1>5. CASE Fail(r)
    BY <1>1, <1>5, FailsKeeps
<1>6. CASE /\ run' = [run EXCEPT ![r].step = "read", ![r].todo = (run[r].ids \cup new) \X Part]
           /\ Unmoved
    <2>1. run' = [run EXCEPT ![r] = u]
        BY <1>6, <1>2
    <2>2. b \in Block /\ (run[r].block \in abandoned \/ b = run[r].block)
        BY <1>2, <1>3, ReadByNumber, TreeAssumption DEF Canonical, ChainSound, ChainTypeOK
    <2>3. new \subseteq Demand
        BY <2>2, DemandsOf
    <2> HIDE DEF new
    <2>4. /\ u \in RunType /\ u.step = "read" /\ u.todo = (run[r].ids \cup new) \X Part
          /\ u.block = run[r].block /\ ~u.whole /\ u.ids = run[r].ids
          /\ u.updates = [d \in Demand |-> NoEntry]
        <3>1. (run[r].ids \cup new) \X Part \subseteq Demand \X Part
            BY <1>3, <2>3
        <3>2. u \in RunType
            BY <1>2, <3>1 DEF RunType, Step
        <3> QED BY <3>2, <1>2, <1>3 DEF RunType
    <2> HIDE DEF u
    <2>5. PinSound(u, index)
        BY <1>3, <2>4 DEF PinSound
    <2>6. ASSUME u.block \notin abandoned PROVE ReadSoFar(u, index)
        <3>1. Wanted(u, index) = run[r].ids \cup new
            BY <2>2, <2>4, <2>6 DEF Wanted, new
        <3>2. \A d \in Demand, p \in Part : d \in Wanted(u, index) => <<d, p>> \in u.todo
            BY <3>1, <2>4
        <3>3. \A d \in Demand, p \in Part : u.updates[d][p] = NoBlock
            BY <2>4 DEF NoEntry
        <3> QED BY <3>1, <3>2, <3>3, <2>4 DEF ReadSoFar
    <2>7. StepSound(u, index)
        BY <1>3, <2>4, <2>6 DEF StepSound, GoesOn
    <2> QED BY <1>1, <1>6, <2>1, <2>4, <2>5, <2>7, RunGoesOn
<1> QED BY <1>4, <1>5, <1>6

(* What is read is of the pinned block, or that has been abandoned.        *)
LEMMA ReadKeeps == ASSUME IndexInv, NEW r \in Request, Read(r) PROVE IndexInv'
<1>1. run[r].step = "read" /\ run[r].step # "none"
    BY DEF Read
<1>2. run[r] \in RunType /\ StepSound(run[r], index) /\ PinSound(run[r], index)
      /\ ChainSound /\ run \in [Request -> RunType] /\ index \in IndexType
    BY <1>1, OnlyRun DEF StateType, IndexInv
<1>3. /\ Known(run[r].block) /\ run[r].block \in seen
      /\ (index.ready => Below(index.block, run[r].block))
      /\ (run[r].block \in abandoned \/ ReadSoFar(run[r], index))
    BY <1>1, <1>2 DEF StepSound, PinSound
<1>4. PICK b \in Canonical(Height[run[r].block]), dp \in run[r].todo :
          IF dp[1] < NextDemandId[b]
          THEN /\ run' = [run EXCEPT ![r].todo = run[r].todo \ {dp},
                                     ![r].updates[dp[1]][dp[2]] = Changed(b, dp[1])]
               /\ Unmoved
          ELSE Fail(r)
    BY <1>2 DEF Read
<1>5. CASE Fail(r)
    BY <1>1, <1>5, FailsKeeps
<1>6. CASE /\ dp[1] < NextDemandId[b]
           /\ run' = [run EXCEPT ![r].todo = run[r].todo \ {dp},
                                 ![r].updates[dp[1]][dp[2]] = Changed(b, dp[1])]
           /\ Unmoved
    <2>1. PICK e \in Demand, q \in Part : dp = <<e, q>>
        BY <1>2 DEF RunType
    <2> DEFINE now == Changed(b, e)
               updates == [run[r].updates EXCEPT ![e] = [run[r].updates[e] EXCEPT ![q] = now]]
               u == [run[r] EXCEPT !.todo = run[r].todo \ {dp}, !.updates = updates]
    <2>2. b \in Block /\ (run[r].block \in abandoned \/ b = run[r].block)
        BY <1>2, <1>3, ReadByNumber, TreeAssumption DEF Canonical, ChainSound, ChainTypeOK
    <2>3. now \in Block
        <3>1. e \in 1 .. NextDemandId[b] - 1
            BY <1>6, <2>1, <2>2, DemandsOf
        <3> QED BY <2>2, <3>1, ChangedIs
    <2>4. run' = [run EXCEPT ![r] = u]
        <3>1. dp[1] = e /\ dp[2] = q /\ run[r].updates \in Entries
            BY <2>1, <1>2 DEF RunType
        <3> QED BY <3>1, <1>2, <1>6 DEF RunType, Entries
    <2> HIDE DEF now
    <2>5. updates \in Entries
        BY <1>2, <2>3 DEF RunType, Entries
    <2>6. \A d \in Demand, p \in Part :
              updates[d][p] = IF d = e /\ p = q THEN now ELSE run[r].updates[d][p]
        BY <1>2 DEF RunType, Entries
    <2> HIDE DEF updates
    <2>7. /\ u \in RunType /\ u.step = "read" /\ u.todo = run[r].todo \ {dp}
          /\ u.block = run[r].block /\ u.whole = run[r].whole /\ u.ids = run[r].ids
          /\ u.updates = updates
        <3>1. u \in RunType
            BY <1>2, <2>5 DEF RunType
        <3> QED BY <3>1, <1>1, <1>2 DEF RunType
    <2> HIDE DEF u
    <2>8. PinSound(u, index)
        BY <1>3, <2>7 DEF PinSound
    <2>9. ASSUME u.block \notin abandoned PROVE ReadSoFar(u, index)
        <3>1. Wanted(u, index) = Wanted(run[r], index) /\ u.block = b
              /\ ReadSoFar(run[r], index) /\ run[r].block = b
            BY <2>9, <2>2, <2>7, <1>3 DEF Wanted
        <3>2. u.todo \subseteq Wanted(u, index) \X Part /\ e \in Wanted(u, index)
            BY <3>1, <2>1, <2>7, <1>4 DEF ReadSoFar
        <3>3. ASSUME NEW d \in Demand, NEW p \in Part
              PROVE  u.updates[d][p] = IF d \in Wanted(u, index) /\ <<d, p>> \notin u.todo
                                       THEN Changed(u.block, d) ELSE NoBlock
            <4>1. run[r].updates[d][p] =
                      IF d \in Wanted(u, index) /\ <<d, p>> \notin run[r].todo
                      THEN Changed(b, d) ELSE NoBlock
                BY <3>1 DEF ReadSoFar
            <4>2. CASE d = e /\ p = q
                BY <4>2, <2>1, <2>6, <2>7, <3>1, <3>2 DEF now
            <4>3. CASE ~(d = e /\ p = q)
                <5>1. <<d, p>> # dp
                    BY <4>3, <2>1
                <5> QED BY <5>1, <4>1, <4>3, <2>6, <2>7, <3>1
            <4> QED BY <4>2, <4>3
        <3> QED BY <3>2, <3>3 DEF ReadSoFar
    <2>10. StepSound(u, index)
        BY <1>1, <1>2, <2>7, <2>9 DEF StepSound, GoesOn
    <2> QED BY <1>1, <1>6, <2>4, <2>7, <2>8, <2>10, RunGoesOn
<1> QED BY <1>4, <1>5, <1>6

(* All that a refresh was to read has been read: it has the entries of its *)
(* block, of the demands it wanted and of no others.                       *)
LEMMA UpdatesAre ==
    ASSUME NEW u \in RunType, NEW x, u.block \in Block, u.todo = {}, ReadSoFar(u, x),
           Wanted(u, x) \subseteq 1 .. NextDemandId[u.block] - 1
    PROVE  \A d \in Demand :
               /\ d \in Wanted(u, x) => /\ u.updates[d] = EntryOf(u.block, d)
                                        /\ u.updates[d] # NoEntry
               /\ d \notin Wanted(u, x) => u.updates[d] = NoEntry
<1> SUFFICES ASSUME NEW d \in Demand
             PROVE  /\ d \in Wanted(u, x) => /\ u.updates[d] = EntryOf(u.block, d)
                                             /\ u.updates[d] # NoEntry
                    /\ d \notin Wanted(u, x) => u.updates[d] = NoEntry
    OBVIOUS
<1>1. u.updates[d] \in [Part -> Block \cup {NoBlock}]
    BY DEF RunType, Entries
<1>2. \A p \in Part : u.updates[d][p] = IF d \in Wanted(u, x) THEN Changed(u.block, d) ELSE NoBlock
    BY DEF ReadSoFar
<1>3. ASSUME d \in Wanted(u, x)
      PROVE  u.updates[d] = EntryOf(u.block, d) /\ u.updates[d] # NoEntry
    <2>1. d \in 1 .. NextDemandId[u.block] - 1
        BY <1>3
    <2>2. Changed(u.block, d) \in Block /\ Changed(u.block, d) # NoBlock
        BY <2>1, ChangedIs, TreeAssumption
    <2>3. d < NextDemandId[u.block]
        BY <2>1, DemandAssumption
    <2>4. u.updates[d] = [p \in Part |-> Changed(u.block, d)]
        BY <1>1, <1>2, <1>3
    <2>5. u.updates[d] # NoEntry
        BY <2>2, <2>4, RequestAssumption DEF NoEntry
    <2> QED BY <2>3, <2>4, <2>5 DEF EntryOf
<1>4. ASSUME d \notin Wanted(u, x) PROVE u.updates[d] = NoEntry
    BY <1>1, <1>2, <1>4 DEF NoEntry
<1> QED BY <1>3, <1>4

(* What the contract held at the published block and has not changed since *)
(* is what it holds at the new one.                                        *)
LEMMA EntryStays ==
    ASSUME NEW b \in Block, NEW a \in Past[b], NEW d \in Demand,
           d \notin TouchedUpTo(a, b, Height[b]),
           d \in 1 .. NextDemandId[b] - 1 => EntryOf(a, d) # NoEntry
    PROVE  EntryOf(b, d) = EntryOf(a, d)
<1>1. a \in Block /\ NextDemandId[a] \in Nat /\ NextDemandId[b] \in Nat
    BY PastOf, DemandsOf
<1>2. CASE d < NextDemandId[b]
    <2>1. d < NextDemandId[a] /\ Changed(b, d) = Changed(a, d)
        BY <1>2, ChangedSame
    <2> QED BY <1>2, <2>1 DEF EntryOf
<1>3. CASE ~(d < NextDemandId[b])
    <2>1. ~(d < NextDemandId[a])
        BY <1>3, DemandsGrow
    <2> QED BY <1>3, <2>1 DEF EntryOf
<1> QED BY <1>2, <1>3

(* What a refresh publishes: every demand as the contract held it at the   *)
(* block of the refresh, with versions that tell which ones changed.       *)
PublishesBlock(b) ==
    /\ index' \in IndexType /\ index'.ready /\ index'.block = b
    /\ \A d \in Demand :
          /\ index'.entries[d] = EntryOf(b, d)
          /\ index'.versions[d] <= index'.version
          /\ index'.entries[d] # NoEntry =>
                /\ index'.entries[d] # index.entries[d] => index'.versions[d] > index.version
                /\ index'.versions[d] >= index.versions[d]

(* A rebuild publishes its block.                                          *)
LEMMA RebuiltIs ==
    ASSUME IndexInv, NEW u \in RunType, u.block \in Block, u.whole, u.ids = {}, u.todo = {},
           ReadSoFar(u, index),
           index' = [Rebuilt(u.updates) EXCEPT !.ready = TRUE, !.block = u.block]
    PROVE  PublishesBlock(u.block)
<1>1. index \in IndexType /\ index.version \in Nat /\ u.updates \in Entries
      /\ index.versions \in [Demand -> Nat]
    BY DEF IndexInv, StateType, IndexType, RunType
<1>2. Wanted(u, index) = 1 .. NextDemandId[u.block] - 1
    BY DEF Wanted
<1>3. \A d \in Demand : /\ d \in 1 .. NextDemandId[u.block] - 1 =>
                               /\ u.updates[d] = EntryOf(u.block, d) /\ u.updates[d] # NoEntry
                        /\ d \notin 1 .. NextDemandId[u.block] - 1 => u.updates[d] = NoEntry
    BY <1>2, UpdatesAre
<1>4. \A d \in Demand : u.updates[d] = EntryOf(u.block, d)
    <2> SUFFICES ASSUME NEW d \in Demand PROVE u.updates[d] = EntryOf(u.block, d)
        OBVIOUS
    <2>1. d \in Int /\ d >= 1 /\ NextDemandId[u.block] \in Nat
        BY DemandsOf
    <2>2. d \notin 1 .. NextDemandId[u.block] - 1 => EntryOf(u.block, d) = NoEntry
        BY <2>1 DEF EntryOf
    <2> QED BY <1>3, <2>2
<1> DEFINE versions == [d \in Demand |-> IF u.updates[d] = NoEntry THEN 0 ELSE index.version + 1]
<1>5. index' = [ready |-> TRUE, entries |-> u.updates, versions |-> versions,
                version |-> index.version + 1, block |-> u.block]
    BY <1>1 DEF Rebuilt, IndexType
<1>6. versions \in [Demand -> Nat] /\ index.version + 1 \in Nat
    BY <1>1
<1>7. \A d \in Demand : versions[d] = IF u.updates[d] = NoEntry THEN 0 ELSE index.version + 1
    OBVIOUS
<1> HIDE DEF versions
<1>8. /\ index' \in IndexType /\ index'.ready /\ index'.entries = u.updates
      /\ index'.versions = versions /\ index'.version = index.version + 1
      /\ index'.block = u.block
    <2> DEFINE next == index.version + 1
    <2>1. next \in Nat /\ index' = [ready |-> TRUE, entries |-> u.updates, versions |-> versions,
                                    version |-> next, block |-> u.block]
        BY <1>5, <1>6
    <2> HIDE DEF next
    <2>2. /\ index' \in IndexType /\ index'.ready /\ index'.entries = u.updates
          /\ index'.versions = versions /\ index'.version = next /\ index'.block = u.block
        <3> DEFINE x == [ready |-> TRUE, entries |-> u.updates, versions |-> versions,
                         version |-> next, block |-> u.block]
        <3>1. x \in IndexType
            BY <1>1, <1>6, <2>1 DEF IndexType
        <3>2. /\ x.ready /\ x.entries = u.updates /\ x.versions = versions
              /\ x.version = next /\ x.block = u.block
            OBVIOUS
        <3>3. index' = x
            BY <2>1
        <3> HIDE DEF x
        <3> QED BY <3>1, <3>2, <3>3
    <2> QED BY <2>2 DEF next
<1>9. \A d \in Demand : index.versions[d] \in Nat /\ index.versions[d] <= index.version
    BY <1>1 DEF IndexInv, Published
<1>10. ASSUME NEW d \in Demand
       PROVE  /\ versions[d] <= index.version + 1
              /\ u.updates[d] # NoEntry =>
                    versions[d] > index.version /\ versions[d] >= index.versions[d]
    BY <1>1, <1>7, <1>9
<1> QED BY <1>4, <1>8, <1>10 DEF PublishesBlock

(* So does a refresh that goes on from the published block.                *)
LEMMA UpdatedIs ==
    ASSUME IndexInv, NEW u \in RunType, u.block \in Block, ~u.whole, u.todo = {},
           ReadSoFar(u, index), index.ready, index.block \in Past[u.block],
           u.ids = TouchedUpTo(index.block, u.block, Height[u.block]),
           NEW order \in Orders({d \in Demand : u.updates[d] # NoEntry}),
           index' = [Updated(u.updates, order) EXCEPT !.block = u.block]
    PROVE  PublishesBlock(u.block)
<1> DEFINE ids == {d \in Demand : u.updates[d] # NoEntry}
<1>1. index \in IndexType /\ index.version \in Nat /\ u.updates \in Entries
      /\ index.versions \in [Demand -> Nat] /\ index.entries \in Entries
    BY DEF IndexInv, StateType, IndexType, RunType
<1>2. Wanted(u, index) \subseteq 1 .. NextDemandId[u.block] - 1
    <2>1. u.ids \subseteq 1 .. NextDemandId[u.block] - 1
        BY DemandsOf DEF TouchedUpTo
    <2> QED BY <2>1 DEF Wanted
<1>3. \A d \in Demand :
          /\ d \in Wanted(u, index) => u.updates[d] = EntryOf(u.block, d) /\ u.updates[d] # NoEntry
          /\ d \notin Wanted(u, index) => u.updates[d] = NoEntry
    BY <1>2, UpdatesAre
<1>4. Cardinality(ids) \in Nat
    <2>1. ids \subseteq 1 .. NextDemandId[u.block] - 1
        BY <1>2, <1>3
    <2> DEFINE n == NextDemandId[u.block] - 1
    <2>2. n \in Int
        BY DemandsOf
    <2> HIDE DEF n
    <2>i. IsFiniteSet(1 .. n)
        BY <2>2, FS_Interval
    <2>3. IsFiniteSet(1 .. NextDemandId[u.block] - 1)
        BY <2>i DEF n
    <2> QED BY <2>1, <2>3, FS_Subset, FS_CardinalityType
<1> DEFINE entries == [d \in Demand |-> IF d \in ids THEN u.updates[d] ELSE index.entries[d]]
           versions == [d \in Demand |-> IF d \in ids THEN index.version + order[d]
                                         ELSE index.versions[d]]
<1>5. index' = [ready |-> index.ready, entries |-> entries, versions |-> versions,
                version |-> index.version + Cardinality(ids), block |-> u.block]
    BY <1>1 DEF Updated, IndexType
<1>6. \A d \in ids : order[d] \in Nat /\ 1 <= order[d] /\ order[d] <= Cardinality(ids)
    BY <1>4 DEF Orders
<1>7. \A d \in Demand : d \in ids <=> u.updates[d] # NoEntry
    OBVIOUS
<1> HIDE DEF ids
<1>8. /\ versions \in [Demand -> Nat] /\ entries \in Entries
      /\ index.version + Cardinality(ids) \in Nat
    <2>1. \A d \in ids : index.version + order[d] \in Nat
        BY <1>1, <1>6
    <2>2. \A d \in Demand : index.versions[d] \in Nat
        BY <1>1
    <2>3. versions \in [Demand -> Nat]
        BY <2>1, <2>2
    <2> QED BY <2>3, <1>1, <1>4 DEF Entries
<1>9. \A d \in Demand :
          /\ entries[d] = IF d \in ids THEN u.updates[d] ELSE index.entries[d]
          /\ versions[d] = IF d \in ids THEN index.version + order[d] ELSE index.versions[d]
    OBVIOUS
<1> HIDE DEF entries, versions
<1>10. /\ index' \in IndexType /\ index'.ready = index.ready /\ index'.entries = entries
       /\ index'.versions = versions /\ index'.version = index.version + Cardinality(ids)
       /\ index'.block = u.block
    <2> DEFINE next == index.version + Cardinality(ids)
    <2>1. next \in Nat /\ index.ready \in BOOLEAN
          /\ index' = [ready |-> index.ready, entries |-> entries, versions |-> versions,
                       version |-> next, block |-> u.block]
        BY <1>1, <1>5, <1>8 DEF IndexType
    <2> HIDE DEF next
    <2>2. /\ index' \in IndexType /\ index'.ready = index.ready /\ index'.entries = entries
          /\ index'.versions = versions /\ index'.version = next /\ index'.block = u.block
        <3> DEFINE x == [ready |-> index.ready, entries |-> entries, versions |-> versions,
                         version |-> next, block |-> u.block]
        <3>1. x \in IndexType
            BY <1>8, <2>1 DEF IndexType
        <3>2. /\ x.ready = index.ready /\ x.entries = entries /\ x.versions = versions
              /\ x.version = next /\ x.block = u.block
            OBVIOUS
        <3>3. index' = x
            BY <2>1
        <3> HIDE DEF x
        <3> QED BY <3>1, <3>2, <3>3
    <2> QED BY <2>2 DEF next
<1>11. \A d \in Demand : index.versions[d] \in Nat /\ index.versions[d] <= index.version
                         /\ index.entries[d] = EntryOf(index.block, d)
    BY <1>1 DEF IndexInv, Published
<1>12. ASSUME NEW d \in Demand PROVE entries[d] = EntryOf(u.block, d)
    <2>1. CASE d \in ids
        BY <2>1, <1>3, <1>7, <1>9
    <2>2. CASE d \notin ids
        <3>1. d \notin Wanted(u, index)
            BY <2>2, <1>3, <1>7
        <3>2. d \notin TouchedUpTo(index.block, u.block, Height[u.block])
              /\ (d \in 1 .. NextDemandId[u.block] - 1 => index.entries[d] # NoEntry)
            BY <3>1 DEF Wanted
        <3> QED BY <2>2, <3>2, <1>9, <1>11, EntryStays
    <2> QED BY <2>1, <2>2
<1>13. ASSUME NEW d \in Demand
       PROVE  /\ versions[d] <= index.version + Cardinality(ids)
              /\ entries[d] # index.entries[d] => versions[d] > index.version
              /\ versions[d] >= index.versions[d]
    <2>1. CASE d \in ids
        BY <2>1, <1>1, <1>4, <1>6, <1>9, <1>11
    <2>2. CASE d \notin ids
        BY <2>2, <1>1, <1>4, <1>9, <1>11
    <2> QED BY <2>1, <2>2
<1> QED BY <1>10, <1>12, <1>13 DEF PublishesBlock

(* Only what was read of a block that is canonical still is published.     *)
LEMMA PublishIs ==
    ASSUME IndexInv, NEW r \in Request, Publish(r)
    PROVE  \/ Fail(r)
           \/ /\ Settle(r, "done") /\ UNCHANGED failures
              /\ PublishesBlock(run[r].block)
<1>1. run[r].step = "read" /\ run[r].step # "none" /\ run[r].todo = {}
    BY DEF Publish
<1>2. run[r] \in RunType /\ StepSound(run[r], index) /\ PinSound(run[r], index) /\ ChainSound
    BY <1>1, OnlyRun
<1>3. PICK b \in Canonical(Height[run[r].block]) :
          IF SameBlock(b, run[r].block)
          THEN /\ \/ /\ run[r].whole
                     /\ index' = [Rebuilt(run[r].updates) EXCEPT
                                     !.ready = TRUE, !.block = run[r].block]
                  \/ /\ ~run[r].whole
                     /\ \E order \in Orders({d \in Demand : run[r].updates[d] # NoEntry}) :
                           index' = [Updated(run[r].updates, order) EXCEPT
                                        !.block = run[r].block]
               /\ Settle(r, "done")
               /\ UNCHANGED failures
          ELSE Fail(r)
    BY DEF Publish
<1>4. Known(run[r].block)
    BY <1>1, <1>2 DEF PinSound
<1>5. run[r].block \in Block
    BY <1>2, <1>4, ReadByNumber
<1>6. ASSUME SameBlock(b, run[r].block) PROVE run[r].block \notin abandoned
    BY <1>2, <1>4, <1>6, ReadByNumber DEF SameBlock
<1>7. CASE /\ SameBlock(b, run[r].block) /\ run[r].whole
           /\ index' = [Rebuilt(run[r].updates) EXCEPT !.ready = TRUE, !.block = run[r].block]
    <2>1. run[r].ids = {} /\ ReadSoFar(run[r], index)
        BY <1>1, <1>2, <1>6, <1>7 DEF StepSound
    <2>2. PublishesBlock(run[r].block)
        BY <1>1, <1>2, <1>5, <1>7, <2>1, RebuiltIs
    <2> QED BY <1>3, <1>7, <2>2
<1>8. ASSUME SameBlock(b, run[r].block), ~run[r].whole,
             NEW order \in Orders({d \in Demand : run[r].updates[d] # NoEntry}),
             index' = [Updated(run[r].updates, order) EXCEPT !.block = run[r].block]
      PROVE  PublishesBlock(run[r].block)
    <2>1. /\ ReadSoFar(run[r], index) /\ index.ready /\ index.block \in Past[run[r].block]
          /\ run[r].ids = TouchedUpTo(index.block, run[r].block, Height[run[r].block])
        BY <1>1, <1>2, <1>6, <1>8 DEF StepSound, GoesOn
    <2> QED BY <1>1, <1>2, <1>5, <1>8, <2>1, UpdatedIs
<1> QED BY <1>3, <1>7, <1>8

(* What is published is sound.                                             *)
LEMMA PublishKeeps == ASSUME IndexInv, NEW r \in Request, Publish(r) PROVE IndexInv'
<1>1. run[r].step = "read" /\ run[r].step # "none"
    BY DEF Publish
<1>2. CASE Fail(r)
    BY <1>1, <1>2, FailsKeeps
<1>3. CASE Settle(r, "done") /\ UNCHANGED failures /\ PublishesBlock(run[r].block)
    <2>1. head' = head /\ abandoned' = abandoned /\ seen' = seen /\ failures' = failures
        BY <1>3 DEF Settle, chain
    <2>2. Known(run[r].block) /\ run[r].block \in seen
        BY <1>1, OnlyRun DEF PinSound
    <2>3. Published'
        BY <1>3, <2>1, <2>2 DEF PublishesBlock, Published, Known
    <2>4. failures' \in 0 .. MaxFailures /\ index' \in IndexType
        BY <1>3, <2>1 DEF IndexInv, StateType, PublishesBlock
    <2> QED BY <1>1, <1>3, <2>3, <2>4, RunEnds
<1> QED BY <1>2, <1>3, PublishIs

-------------------------------------------------------------------------------
(* The chain and the clock.                                                *)

(* A block that is abandoned stays so, and what was read is of it.         *)
LEMMA MoveKeeps == ASSUME IndexInv, NEW b \in Block, MoveHead(b) PROVE IndexInv'
<1>1. ChainSound /\ MoveTo(b)
    BY DEF IndexInv, MoveHead
<1>2. ChainSound' /\ abandoned \subseteq abandoned' /\ \A c : Known(c) => Known(c)'
    BY <1>1, ChainMoves
<1>3. index' = index /\ run' = run /\ fresh' = fresh /\ refreshPromise' = refreshPromise
      /\ seen' = seen \cup {b} /\ head' = b /\ waiting' = waiting /\ failures' = failures
    BY DEF MoveHead, MoveTo
<1>4. StateType' /\ (head \in seen)' /\ seen' \subseteq Block
    BY <1>3 DEF IndexInv, StateType
<1>5. Published'
    BY <1>2, <1>3 DEF IndexInv, Published
<1>6. ASSUME NEW r \in Request
      PROVE  OneRefresh(r)' /\ PinSound(run[r], index)' /\ StepSound(run[r], index)'
    <2>1. OneRefresh(r) /\ PinSound(run[r], index) /\ StepSound(run[r], index)
        BY DEF IndexInv
    <2>2. OneRefresh(r)' /\ PinSound(run[r], index)'
        BY <1>2, <1>3, <2>1 DEF OneRefresh, PinSound, Below
    <2>3. StepSound(run[r], index)'
        BY <1>2, <1>3, <2>1 DEF StepSound
    <2> QED BY <2>2, <2>3
<1> QED BY <1>2, <1>4, <1>5, <1>6 DEF IndexInv

(* When indexRefreshMs has passed, no refresh is under way.                *)
LEMMA ExpireKeeps == ASSUME IndexInv, Expire PROVE IndexInv'
<1>1. head' = head /\ abandoned' = abandoned /\ index' = index /\ run' = run /\ fresh
      /\ ~fresh' /\ fresh' \in BOOLEAN /\ refreshPromise' = refreshPromise /\ seen' = {head}
      /\ waiting' = waiting /\ failures' = failures
    BY DEF Expire, chain
<1>2. ChainSound' /\ head \in Block
    BY <1>1 DEF IndexInv, ChainSound, ChainTypeOK
<1>3. StateType' /\ (head \in seen)' /\ Published'
    BY <1>1, <1>2 DEF IndexInv, StateType, Published, Known
<1>4. \A r \in Request : run[r].step = "none" /\ run[r] = NoRun
    BY <1>1 DEF IndexInv, OneRefresh, StepSound
<1>5. ASSUME NEW r \in Request
      PROVE  OneRefresh(r)' /\ PinSound(run[r], index)' /\ StepSound(run[r], index)'
    <2>1. StepSound(run[r], index)
        BY DEF IndexInv
    <2>2. OneRefresh(r)' /\ PinSound(run[r], index)'
        BY <1>1, <1>4 DEF OneRefresh, PinSound
    <2>3. StepSound(run[r], index)'
        BY <1>1, <2>1 DEF StepSound
    <2> QED BY <2>2, <2>3
<1> QED BY <1>2, <1>3, <1>5 DEF IndexInv

(* Nothing happens.                                                        *)
LEMMA IndexStutters == ASSUME IndexInv, UNCHANGED vars PROVE IndexInv'
<1>1. head' = head /\ abandoned' = abandoned /\ index' = index /\ run' = run /\ fresh' = fresh
      /\ refreshPromise' = refreshPromise /\ seen' = seen /\ waiting' = waiting
      /\ failures' = failures
    BY DEF vars, chain
<1>2. ChainSound' /\ StateType' /\ (head \in seen)' /\ Published'
    BY <1>1 DEF IndexInv, ChainSound, ChainTypeOK, StateType, Published, Known
<1>3. ASSUME NEW r \in Request
      PROVE  OneRefresh(r)' /\ PinSound(run[r], index)' /\ StepSound(run[r], index)'
    <2>1. OneRefresh(r) /\ PinSound(run[r], index) /\ StepSound(run[r], index)
        BY DEF IndexInv
    <2>2. OneRefresh(r)' /\ PinSound(run[r], index)'
        BY <1>1, <2>1 DEF OneRefresh, PinSound, Below, Known
    <2>3. StepSound(run[r], index)'
        BY <1>1, <2>1 DEF StepSound
    <2> QED BY <2>2, <2>3
<1> QED BY <1>2, <1>3 DEF IndexInv

(* The invariant of the index is inductive.                                *)
THEOREM IndexInductive == Spec => []IndexInv
<1>1. Init => IndexInv
    BY IndexInit
<1>2. ASSUME IndexInv, [Next]_vars PROVE IndexInv'
    <2>1. ASSUME NEW r \in Request, Proceed(r) PROVE IndexInv'
        BY <1>2, <2>1, RebuildKeeps, CountKeeps, CurrentKeeps, IndexedKeeps, LogsKeeps,
           MissingKeeps, ReadKeeps, PublishKeeps, NoSuchBlockKeeps DEF Proceed
    <2>2. ASSUME NEW r \in Request, Ask(r) PROVE IndexInv'
        BY <1>2, <2>2, AskKeeps
    <2>3. ASSUME NEW r \in Request, Abort(r) PROVE IndexInv'
        BY <1>2, <2>3, AbortKeeps
    <2>4. ASSUME NEW b \in Block, MoveHead(b) PROVE IndexInv'
        BY <1>2, <2>4, MoveKeeps
    <2>5. CASE Expire
        BY <1>2, <2>5, ExpireKeeps
    <2>6. CASE UNCHANGED vars
        BY <1>2, <2>6, IndexStutters
    <2> QED BY <1>2, <2>1, <2>2, <2>3, <2>4, <2>5, <2>6 DEF Next
<1> QED BY <1>1, <1>2, PTL DEF Spec

(* The published index is what the contract held at its block, and one     *)
(* that is served without a refresh is of a block that was the head since  *)
(* the last refresh went out of date.                                      *)
THEOREM IndexIsSnapshot == Spec => []SnapshotOfBlock
<1>1. IndexInv => SnapshotOfBlock
    <2> SUFFICES ASSUME IndexInv PROVE SnapshotOfBlock
        OBVIOUS
    <2>1. ChainTypeOK /\ StateType /\ Published
        BY DEF IndexInv, ChainSound
    <2>2. TypeOK
        <3>1. \A r \in Request : run[r] \in RunType
            BY <2>1 DEF StateType
        <3>2. ASSUME NEW r \in Request
              PROVE  /\ run[r].step \in Step /\ run[r].block \in Block \cup {NoBlock}
                     /\ run[r].cursor \in Nat /\ run[r].ids \subseteq Demand
                     /\ run[r].todo \subseteq Demand \X Part
                     /\ run[r].updates \in [Demand -> [Part -> Block \cup {NoBlock}]]
            BY <3>1 DEF RunType, Entries
        <3>3. /\ index.ready \in BOOLEAN /\ index.block \in Block \cup {NoBlock}
              /\ index.version \in Nat /\ index.versions \in [Demand -> Nat]
              /\ index.entries \in [Demand -> [Part -> Block \cup {NoBlock}]]
            BY <2>1 DEF StateType, IndexType, Entries
        <3> QED BY <2>1, <3>2, <3>3 DEF TypeOK, StateType
    <2> QED BY <2>1, <2>2 DEF SnapshotOfBlock, Published
<1> QED BY <1>1, IndexInductive, PTL

(* What any step of the index's may do to what is published.               *)
LEMMA IndexSteps ==
    ASSUME IndexInv, [Next]_vars
    PROVE  \/ index' = index
           \/ \E r \in Request : Publish(r) /\ run[r].step = "read"
                                 /\ PublishesBlock(run[r].block)
<1>1. ASSUME NEW r \in Request, Publish(r)
      PROVE  index' = index \/ (PublishesBlock(run[r].block) /\ run[r].step = "read")
    BY <1>1, PublishIs DEF Fail, Publish
<1>2. ASSUME NEW r \in Request, Proceed(r) \/ Ask(r) \/ Abort(r), ~Publish(r)
      PROVE  index' = index
    BY <1>2 DEF Proceed, Ask, Abort, Rebuild, Count, Current, Indexed, Logs, Missing, Read,
                NoSuchBlock, Fail, Unmoved
<1>3. ASSUME (\E b \in Block : MoveHead(b)) \/ Expire \/ UNCHANGED vars PROVE index' = index
    BY <1>3 DEF MoveHead, Expire, vars
<1> QED BY <1>1, <1>2, <1>3 DEF Next, Proceed

(* The versions tell the discovery's probes which demands changed.         *)
THEOREM VersionsAlwaysTell == Spec => VersionsTell
<1> DEFINE Tells == \A d \in Demand : index'.entries[d] # NoEntry =>
                        /\ index'.entries[d] # index.entries[d] =>
                               index'.versions[d] > index.version
                        /\ index'.versions[d] >= index.versions[d]
<1>1. ASSUME IndexInv, [Next]_vars PROVE Tells
    <2>1. CASE index' = index
        <3>1. \A d \in Demand : index.versions[d] \in Nat
            BY <1>1 DEF IndexInv, StateType, IndexType
        <3> QED BY <2>1, <3>1
    <2>2. ASSUME NEW b, PublishesBlock(b) PROVE Tells
        BY <2>2 DEF PublishesBlock
    <2> QED BY <1>1, <2>1, <2>2, IndexSteps
<1>2. IndexInv /\ [Next]_vars => [Tells]_vars
    BY <1>1
<1> HIDE DEF Tells
<1>3. Spec => [][Tells]_vars
    BY <1>2, IndexInductive, PTL DEF Spec
<1> QED BY <1>3 DEF VersionsTell, Tells

(* The index goes back only if the chain did.                              *)
THEOREM IndexGoesForward == Spec => GoesForward
<1> DEFINE Goes == index.ready /\ index'.block # index.block =>
                       index.block \in Past[index'.block] \cup abandoned
<1>1. ASSUME IndexInv, [Next]_vars PROVE Goes
    <2>1. ASSUME NEW r \in Request, run[r].step = "read", PublishesBlock(run[r].block) PROVE Goes
        <3>1. index.ready => Below(index.block, run[r].block)
            BY <1>1, <2>1, OnlyRun DEF PinSound
        <3> QED BY <2>1, <3>1 DEF PublishesBlock, Below
    <2> QED BY <1>1, <2>1, IndexSteps
<1>2. IndexInv /\ [Next]_vars => [Goes]_vars
    BY <1>1
<1> HIDE DEF Goes
<1>3. Spec => [][Goes]_vars
    BY <1>2, IndexInductive, PTL DEF Spec
<1> QED BY <1>3 DEF GoesForward, Goes
-------------------------------------------------------------------------------
(* The board of the browser.                                               *)

Reader == Refresh \cup {Poll}

Pinned(r) == r.step \in {"count", "demands", "logs"}

(* What a reader has gathered at each of its steps.                        *)
ReadingSound(r) ==
    /\ Pinned(r) => Known(r.block) /\ r.number = Height[r.block]
    /\ r.step = "count" => r.got = NoDemands
    /\ r.step = "demands" =>
          \/ r.block \in abandoned
          \/ \A d \in Demand \ r.todo : r.got[d] = BoardOf(r.block)[d]
    /\ r.step \in {"head", "checkpoint", "target", "logs"} =>
          Known(r.from) /\ r.got = BoardOf(r.from)
    /\ r.step \in {"head", "checkpoint"} => r.block = r.from
    /\ r.step \in {"head", "checkpoint", "target"} => r.todo = {}
    /\ r.step = "target" => r.from \in Past[head] /\ Height[r.from] < r.number
    /\ r.step = "logs" =>
          /\ r.from \in Past[r.block]
          /\ Height[r.from] < r.next /\ r.next <= r.number
          /\ r.block \in abandoned \/ r.todo = TouchedUpTo(r.from, r.block, r.next - 1)

(* A reader whose result is not thrown away already: a poll that nothing   *)
(* has disturbed, and the latest refresh, of which only one is under way.  *)
InUse(x, r) == IF x = Poll THEN r.current ELSE Latest(x)

UseSound(x, r) ==
    r.step # "none" =>
        /\ x = Poll => cursor # NoBlock
        /\ x # Poll => r.step \in {"latest", "count", "demands"}
        /\ InUse(x, r) => IF x = Poll THEN ~boardLoading /\ r.from = cursor ELSE boardLoading

(* It has pinned nothing older than the board shown, nor than what an      *)
(* action has confirmed.                                                   *)
AsNew(x, r) ==
    /\ cursor # NoBlock => Below(cursor, r.block)
    /\ action.ok \/ (action.stage = "reading" /\ action.refresh = x) =>
          Below(action.at, r.block)

NothingOlder(x, r) == Pinned(r) /\ InUse(x, r) => AsNew(x, r)

ActionSound ==
    /\ action.stage \in {"working", "reading"} => ~action.ok
    /\ action.stage = "reading" => action.refresh \in Refresh /\ Known(action.at)
    /\ action.ok => Known(action.at) /\ cursor # NoBlock /\ Below(action.at, cursor)

Shown ==
    /\ cursor # NoBlock => Known(cursor) /\ board = BoardOf(cursor)
    /\ cursor = NoBlock => board = NoDemands /\ (boardLoading \/ boardError)

BoardInv ==
    /\ ChainSound /\ BoardTypeOK
    /\ Shown /\ ActionSound
    /\ \A x \in Reader : /\ ReadingSound(reader[x])
                          /\ UseSound(x, reader[x]) /\ NothingOlder(x, reader[x])

(* The poll is not one of the refreshes.                                   *)
LEMMA Readers ==
    /\ Poll \notin Refresh /\ Reader = Refresh \cup {Poll}
    /\ \A x \in Reader : x # Poll <=> x \in Refresh
    BY MarketAssumption DEF Refresh, Poll, Reader

(* A demand that no event names after the block of one board is on the     *)
(* board of a later block what it was.                                     *)
LEMMA BoardStays ==
    ASSUME NEW b \in Block, NEW a \in Past[b], NEW d \in Demand,
           d \notin TouchedUpTo(a, b, Height[b])
    PROVE  BoardOf(b)[d] = BoardOf(a)[d]
<1>1. CASE d < NextDemandId[b]
    <2>1. d < NextDemandId[a] /\ Changed(b, d) = Changed(a, d)
        BY <1>1, ChangedSame
    <2> QED BY <1>1, <2>1 DEF BoardOf
<1>2. CASE ~(d < NextDemandId[b])
    <2>1. ~(d < NextDemandId[a])
        BY <1>2, DemandsGrow
    <2> QED BY <1>2, <2>1 DEF BoardOf
<1> QED BY <1>1, <1>2

(* A demand is on the board of a block if the contract had it there.       *)
LEMMA BoardHas ==
    ASSUME NEW b \in Block, NEW d \in Demand
    PROVE  /\ BoardOf(b) \in [Demand -> Block \cup {NoBlock}]
           /\ d < NextDemandId[b] => BoardOf(b)[d] = Changed(b, d) /\ BoardOf(b)[d] # NoBlock
           /\ d >= NextDemandId[b] => BoardOf(b)[d] = NoBlock
           /\ d < NextDemandId[b] \/ d >= NextDemandId[b]
<1>1. ASSUME NEW e \in Demand, e < NextDemandId[b] PROVE Changed(b, e) \in Block
    <2>1. e \in 1 .. NextDemandId[b] - 1
        BY <1>1, DemandsOf
    <2> QED BY <2>1, ChangedIs
<1>2. BoardOf(b) \in [Demand -> Block \cup {NoBlock}]
    BY <1>1 DEF BoardOf
<1>3. d \in Int /\ NextDemandId[b] \in Nat
    BY DemandsOf
<1>4. d < NextDemandId[b] => BoardOf(b)[d] = Changed(b, d) /\ BoardOf(b)[d] # NoBlock
    BY <1>1, TreeAssumption DEF BoardOf
<1>5. d >= NextDemandId[b] => BoardOf(b)[d] = NoBlock
    BY <1>3 DEF BoardOf
<1> QED BY <1>2, <1>3, <1>4, <1>5

(* A reader at rest is sound.                                              *)
LEMMA NoReadingSound ==
    ASSUME NEW x \in Reader
    PROVE  /\ NoReading \in Reading /\ ReadingSound(NoReading)
           /\ UseSound(x, NoReading) /\ NothingOlder(x, NoReading)
<1>1. NoReading \in Reading
    BY DEF NoReading, Reading, ReadStep, NoDemands
<1>2. NoReading.step = "none"
    BY DEF NoReading
<1>3. ~Pinned(NoReading)
    BY <1>2 DEF Pinned
<1>4. ReadingSound(NoReading)
    BY <1>2, <1>3 DEF ReadingSound
<1> QED BY <1>1, <1>2, <1>3, <1>4 DEF UseSound, NothingOlder, AsNew

(* Nothing is shown, and the page says that it loads.                      *)
LEMMA BoardInitial == BoardInit => BoardInv
<1> SUFFICES ASSUME BoardInit PROVE BoardInv
    OBVIOUS
<1>1. ChainSound
    BY TreeAssumption DEF BoardInit, ChainInit, ChainSound, ChainTypeOK
<1>2. reader = [x \in Reader |-> NoReading] /\ \A x \in Reader : NoReading \in Reading
    BY NoReadingSound DEF BoardInit, Reader
<1>3. reader \in [Refresh \cup {Poll} -> Reading]
    BY <1>2 DEF Reader
<1>4. action = [stage |-> "none", at |-> NoBlock, refresh |-> 0, ok |-> FALSE]
    BY DEF BoardInit
<1>5. action \in Action
    BY <1>4 DEF Action, ActionStage
<1>6. BoardTypeOK
    <2>1. board \in [Demand -> Block \cup {NoBlock}] /\ cursor \in Block \cup {NoBlock}
        BY DEF BoardInit, NoDemands
    <2>2. 0 \in 0 .. MaxRefreshes /\ 0 \in 0 .. MaxReadFailures
        BY MarketAssumption
    <2>3. boardRefreshRequest = 0 /\ readFailures = 0 /\ boardLoading = TRUE /\ boardError = FALSE
        BY DEF BoardInit
    <2> QED BY <1>1, <1>3, <1>5, <2>1, <2>2, <2>3 DEF BoardTypeOK, ChainSound
<1>7. Shown /\ ActionSound
    BY <1>4 DEF BoardInit, Shown, ActionSound
<1>8. \A x \in Reader : /\ ReadingSound(reader[x])
                        /\ UseSound(x, reader[x]) /\ NothingOlder(x, reader[x])
    BY <1>2, NoReadingSound
<1> QED BY <1>1, <1>6, <1>7, <1>8 DEF BoardInv

(* A call of one reader changes nothing but what it has gathered.          *)
LEMMA GiveKeeps ==
    ASSUME BoardInv, NEW x \in Reader, NEW q \in Reading, Give(x, q),
           ReadingSound(q), UseSound(x, q), NothingOlder(x, q)
    PROVE  BoardInv'
<1>1. head' = head /\ abandoned' = abandoned /\ board' = board /\ cursor' = cursor
      /\ boardLoading' = boardLoading /\ boardError' = boardError
      /\ boardRefreshRequest' = boardRefreshRequest /\ action' = action
      /\ readFailures' = readFailures /\ reader' = [reader EXCEPT ![x] = q]
    BY DEF Give, chain
<1>2. reader \in [Reader -> Reading]
    BY DEF BoardInv, BoardTypeOK, Reader
<1>3. reader' \in [Refresh \cup {Poll} -> Reading]
    BY <1>1, <1>2 DEF Reader
<1>4. ChainSound' /\ BoardTypeOK'
    BY <1>1, <1>3 DEF BoardInv, BoardTypeOK, ChainSound, ChainTypeOK
<1>5. Shown' /\ ActionSound'
    BY <1>1 DEF BoardInv, Shown, ActionSound, Known, Below
<1>6. ASSUME NEW y \in Reader
      PROVE  /\ ReadingSound(reader[y])'
             /\ UseSound(y, reader[y])' /\ NothingOlder(y, reader[y])'
    <2>1. /\ ReadingSound(reader'[y]) /\ UseSound(y, reader'[y]) /\ NothingOlder(y, reader'[y])
        <3>1. CASE y = x
            BY <3>1, <1>1, <1>2
        <3>2. CASE y # x
            BY <3>2, <1>1, <1>2 DEF BoardInv
        <3> QED BY <3>1, <3>2
    <2>2. ReadingSound(reader[y])'
        BY <1>1, <2>1 DEF ReadingSound, Known, Pinned
    <2>3. UseSound(y, reader[y])'
        BY <1>1, <2>1 DEF UseSound, InUse, Latest
    <2>4. NothingOlder(y, reader[y])'
        BY <1>1, <2>1 DEF NothingOlder, AsNew, InUse, Latest, Pinned, Below
    <2> QED BY <2>2, <2>3, <2>4
<1> QED BY <1>4, <1>5, <1>6 DEF BoardInv

(* A reader ends.  If it succeeds it has the board of the block it pinned, *)
(* and if nothing disturbed it, the page shows that.                       *)
LEMMA ConcludeKeeps ==
    ASSUME BoardInv, NEW x \in Reader, NEW ok \in BOOLEAN, reader[x].step # "none",
           Conclude(x, ok), readFailures' \in 0 .. MaxReadFailures,
           ok => /\ Known(reader[x].block) /\ reader[x].got = BoardOf(reader[x].block)
                 /\ InUse(x, reader[x]) => AsNew(x, reader[x])
    PROVE  /\ BoardInv'
           /\ cursor' # cursor /\ cursor # NoBlock => Below(cursor, cursor')
<1> DEFINE r == reader[x]
<1>1. /\ head' = head /\ abandoned' = abandoned /\ boardRefreshRequest' = boardRefreshRequest
      /\ reader' = [reader EXCEPT ![x] = NoReading]
      /\ boardLoading' = StillLoading(x)
      /\ boardError' = IF Applies(x) THEN ~ok ELSE boardError
      /\ action' = IF action.stage = "reading" /\ action.refresh = x
                   THEN [action EXCEPT !.stage = "read", !.ok = ok /\ Latest(x)] ELSE action
    BY DEF Conclude, chain
<1>2. IF ok /\ Applies(x) THEN cursor' = r.block /\ board' = r.got
                          ELSE cursor' = cursor /\ board' = board
    BY DEF Conclude
<1>3. /\ ChainSound /\ BoardTypeOK /\ Shown /\ ActionSound
      /\ ReadingSound(r) /\ UseSound(x, r) /\ NothingOlder(x, r)
      /\ reader \in [Reader -> Reading] /\ r \in Reading /\ action \in Action
    BY DEF BoardInv, BoardTypeOK, Reader
<1>4. Applies(x) => InUse(x, r) /\ (x = Poll => ~boardLoading /\ ~Busy)
    BY DEF Applies, InUse, Undisturbed
<1>5. \A y \in Reader : reader'[y] = IF y = x THEN NoReading ELSE reader[y]
    BY <1>1, <1>3
<1>6. reader' \in [Refresh \cup {Poll} -> Reading]
    BY <1>1, <1>3, NoReadingSound DEF Reader
<1>7. action' \in Action
    <2>1. (ok /\ Latest(x)) \in BOOLEAN /\ "read" \in ActionStage
        BY DEF ActionStage
    <2> DEFINE good == ok /\ Latest(x)
    <2>2. good \in BOOLEAN
        BY <2>1
    <2> HIDE DEF good
    <2>3. [action EXCEPT !.stage = "read", !.ok = good] \in Action
        BY <1>3, <2>1, <2>2 DEF Action
    <2> QED BY <1>1, <1>3, <2>3 DEF good
<1>8. cursor' \in Block \cup {NoBlock} /\ board' \in [Demand -> Block \cup {NoBlock}]
    <2>1. r.block \in Block \cup {NoBlock} /\ r.got \in [Demand -> Block \cup {NoBlock}]
        BY <1>3 DEF Reading
    <2> QED BY <1>2, <1>3, <2>1 DEF BoardTypeOK
<1>9. boardLoading' \in BOOLEAN /\ boardError' \in BOOLEAN
    BY <1>1, <1>3 DEF StillLoading, BoardTypeOK
<1>10. ChainSound' /\ BoardTypeOK'
    BY <1>1, <1>3, <1>6, <1>7, <1>8, <1>9 DEF ChainSound, ChainTypeOK, BoardTypeOK
<1>11. /\ action.stage = "reading" => action.refresh \in Refresh /\ Known(action.at)
       /\ action.ok => Known(action.at) /\ cursor # NoBlock /\ Below(action.at, cursor)
       /\ action.stage \in {"working", "reading"} => ~action.ok
    BY <1>3 DEF ActionSound
<1>12. CASE ok /\ Applies(x)
    <2>1. /\ cursor' = r.block /\ board' = r.got /\ Known(r.block) /\ AsNew(x, r)
          /\ r.got = BoardOf(r.block) /\ InUse(x, r)
        BY <1>2, <1>4, <1>12
    <2>2. r.block \in Block /\ r.block # NoBlock
        BY <1>3, <2>1, ReadByNumber, TreeAssumption
    <2>3. cursor # NoBlock => Below(cursor, cursor')
        BY <2>1 DEF AsNew
    <2>4. Shown'
        BY <1>1, <2>1, <2>2 DEF Shown, Known, BoardOf
    <2>5. ActionSound'
        <3>1. CASE action.stage = "reading" /\ action.refresh = x
            <4>1. Below(action.at, r.block) /\ Known(action.at)
                BY <1>11, <2>1, <3>1 DEF AsNew
            <4>2. action'.at = action.at /\ action'.stage = "read"
                BY <1>1, <1>3, <3>1 DEF Action
            <4> QED BY <1>1, <2>1, <2>2, <4>1, <4>2 DEF ActionSound, Known, Below
        <3>2. CASE ~(action.stage = "reading" /\ action.refresh = x)
            <4>1. action' = action
                BY <1>1, <3>2
            <4>2. action.ok => Below(action.at, r.block) /\ Known(action.at)
                BY <1>11, <2>1 DEF AsNew
            <4> QED BY <1>1, <1>11, <2>1, <2>2, <4>1, <4>2 DEF ActionSound, Known, Below
        <3> QED BY <3>1, <3>2
    <2>6. ASSUME NEW y \in Reader \ {x}, reader[y].step # "none" PROVE ~InUse(y, reader[y])
        <3>1. UseSound(y, reader[y])
            BY DEF BoardInv
        <3>2. CASE x = Poll
            <4>1. ~boardLoading /\ y # Poll
                BY <1>4, <1>12, <2>6, <3>2
            <4> QED BY <2>6, <3>1, <4>1 DEF UseSound
        <3>3. CASE x # Poll
            <4>1. boardLoading /\ boardRefreshRequest = x
                BY <1>3, <2>1, <3>3 DEF UseSound, InUse, Latest
            <4>2. CASE y = Poll
                BY <2>6, <3>1, <4>1, <4>2 DEF UseSound
            <4>3. CASE y # Poll
                BY <2>6, <4>1, <4>3 DEF InUse, Latest
            <4> QED BY <4>2, <4>3
        <3> QED BY <3>2, <3>3
    <2>7. ASSUME NEW y \in Reader
          PROVE  /\ ReadingSound(reader[y])'
                 /\ UseSound(y, reader[y])' /\ NothingOlder(y, reader[y])'
        <3>1. CASE y = x
            <4>1. reader'[y].step = "none" /\ ~Pinned(reader'[y])
                BY <1>5, <3>1 DEF NoReading, Pinned
            <4>2. ReadingSound(reader[y])'
                BY <4>1 DEF ReadingSound, Pinned
            <4> QED BY <4>1, <4>2 DEF UseSound, NothingOlder, AsNew, Pinned
        <3>2. CASE y # x
            <4>1. reader'[y] = reader[y] /\ ReadingSound(reader[y]) /\ UseSound(y, reader[y])
                BY <1>5, <3>2 DEF BoardInv
            <4>2. ReadingSound(reader[y])'
                BY <1>1, <4>1 DEF ReadingSound, Known, Pinned
            <4>3. reader[y].step # "none" => ~InUse(y, reader[y])
                BY <2>6, <3>2
            <4>4. reader'[y].step # "none" => ~InUse(y, reader[y])'
                BY <1>1, <4>1, <4>3 DEF InUse, Latest
            <4>5. Pinned(reader[y])' => reader'[y].step # "none"
                BY DEF Pinned
            <4>6. UseSound(y, reader[y])'
                BY <4>1, <4>4, <2>1, <2>2 DEF UseSound
            <4>7. NothingOlder(y, reader[y])'
                BY <4>4, <4>5 DEF NothingOlder, AsNew
            <4> QED BY <4>2, <4>6, <4>7
        <3> QED BY <3>1, <3>2
    <2> QED BY <1>10, <2>3, <2>4, <2>5, <2>7 DEF BoardInv
<1>13. CASE ~(ok /\ Applies(x))
    <2>1. cursor' = cursor /\ board' = board
        BY <1>2, <1>13
    <2>2. Shown'
        <3>1. CASE cursor # NoBlock
            BY <1>1, <1>3, <2>1, <3>1 DEF Shown, Known, BoardOf
        <3>2. CASE cursor = NoBlock
            <4>1. x # Poll /\ x \in Refresh
                BY <1>3, <3>2, Readers DEF UseSound
            <4>2. CASE Latest(x)
                <5>1. Applies(x) /\ ~ok
                    BY <1>13, <4>1, <4>2 DEF Applies
                <5> QED BY <1>1, <1>3, <2>1, <3>2, <5>1 DEF Shown
            <4>3. CASE ~Latest(x)
                <5>1. ~Applies(x)
                    BY <4>1, <4>3 DEF Applies
                <5>2. boardLoading' = boardLoading /\ boardError' = boardError
                    BY <1>1, <1>3, <4>3, <5>1 DEF StillLoading, BoardTypeOK
                <5> QED BY <1>3, <2>1, <3>2, <5>2 DEF Shown
            <4> QED BY <4>2, <4>3
        <3> QED BY <3>1, <3>2
    <2>3. /\ action' = action \/ (action'.stage = "read" /\ ~action'.ok)
        <3>1. CASE action.stage = "reading" /\ action.refresh = x
            <4>1. x \in Refresh /\ x # Poll
                BY <1>11, <3>1, Readers
            <4>2. ~(ok /\ Latest(x))
                BY <1>13, <4>1 DEF Applies
            <4> QED BY <1>1, <1>3, <3>1, <4>2 DEF Action
        <3>2. CASE ~(action.stage = "reading" /\ action.refresh = x)
            BY <1>1, <3>2
        <3> QED BY <3>1, <3>2
    <2>4. ActionSound'
        BY <1>1, <1>11, <2>1, <2>3 DEF ActionSound, Known, Below
    <2>5. ASSUME NEW y \in Reader
          PROVE  /\ ReadingSound(reader[y])'
                 /\ UseSound(y, reader[y])' /\ NothingOlder(y, reader[y])'
        <3>1. CASE y = x
            <4>1. reader'[y].step = "none" /\ ~Pinned(reader'[y])
                BY <1>5, <3>1 DEF NoReading, Pinned
            <4>2. ReadingSound(reader[y])'
                BY <4>1 DEF ReadingSound, Pinned
            <4> QED BY <4>1, <4>2 DEF UseSound, NothingOlder, AsNew, Pinned
        <3>2. CASE y # x
            <4>1. /\ reader'[y] = reader[y] /\ ReadingSound(reader[y])
                  /\ UseSound(y, reader[y]) /\ NothingOlder(y, reader[y])
                BY <1>5, <3>2 DEF BoardInv
            <4>2. ReadingSound(reader[y])'
                BY <1>1, <4>1 DEF ReadingSound, Known, Pinned
            <4>3. InUse(y, reader[y])' <=> InUse(y, reader[y])
                BY <1>1, <4>1 DEF InUse, Latest
            <4>4. /\ boardLoading' => boardLoading
                  /\ y # Poll /\ InUse(y, reader[y]) /\ boardLoading => boardLoading'
                BY <1>1, <3>2 DEF StillLoading, InUse, Latest
            <4>5. UseSound(y, reader[y])'
                BY <2>1, <4>1, <4>3, <4>4 DEF UseSound
            <4>6. (action.ok \/ (action.stage = "reading" /\ action.refresh = y))'
                      => action' = action
                BY <2>3
            <4>7. /\ Pinned(reader[y])' => Pinned(reader[y])
                  /\ Below(cursor, reader[y].block) => Below(cursor, reader[y].block)'
                  /\ action' = action /\ Below(action.at, reader[y].block)
                         => Below(action.at, reader[y].block)'
                BY <1>1, <2>1, <4>1 DEF Pinned, Below
            <4>8. NothingOlder(y, reader[y])'
                BY <2>1, <4>1, <4>3, <4>6, <4>7 DEF NothingOlder, AsNew
            <4> QED BY <4>2, <4>5, <4>8
        <3> QED BY <3>1, <3>2
    <2> QED BY <1>10, <2>1, <2>2, <2>4, <2>5 DEF BoardInv
<1> QED BY <1>12, <1>13

(* A reader that fails leaves the board as it is.                          *)
LEMMA FailureKeeps ==
    ASSUME BoardInv, NEW x \in Reader, reader[x].step # "none", Conclude(x, FALSE),
           readFailures' \in 0 .. MaxReadFailures
    PROVE  BoardInv' /\ cursor' = cursor
<1>1. BoardInv'
    BY ConcludeKeeps
<1> QED BY <1>1 DEF Conclude

(* A call fails or takes too long.                                         *)
LEMMA ReadFailsKeeps ==
    ASSUME BoardInv, NEW x \in Reader, ReadFails(x) PROVE BoardInv' /\ cursor' = cursor
<1>1. readFailures' \in 0 .. MaxReadFailures
    BY MarketAssumption DEF ReadFails, BoardInv, BoardTypeOK
<1> QED BY <1>1, FailureKeeps DEF ReadFails

(* The block, or the demand, is not there any more.                        *)
LEMMA NotThereKeeps ==
    ASSUME BoardInv, NEW x \in Reader, NotThere(x) PROVE BoardInv' /\ cursor' = cursor
<1>1. readFailures' \in 0 .. MaxReadFailures
    BY DEF NotThere, BoardInv, BoardTypeOK
<1>2. reader[x].step # "none" /\ Conclude(x, FALSE)
    BY DEF NotThere
<1> QED BY <1>1, <1>2, FailureKeeps

(* A snapshot is shown only if its block is canonical still.               *)
LEMMA ReadSameKeeps ==
    ASSUME BoardInv, NEW x \in Reader, ReadSame(x)
    PROVE  /\ BoardInv'
           /\ cursor' # cursor /\ cursor # NoBlock => Below(cursor, cursor')
<1>1. reader[x].step = "demands" /\ reader[x].step # "none" /\ reader[x].todo = {}
      /\ readFailures' = readFailures
    BY DEF ReadSame
<1>2. PICK b \in Canonical(reader[x].number) : Conclude(x, SamePinned(b, reader[x]))
    BY DEF ReadSame
<1>3. ChainSound /\ ReadingSound(reader[x]) /\ reader[x] \in Reading
    BY DEF BoardInv, BoardTypeOK, Reader
<1>4. Pinned(reader[x]) /\ Known(reader[x].block) /\ reader[x].number = Height[reader[x].block]
    BY <1>1, <1>3 DEF ReadingSound, Pinned
<1>5. ASSUME SamePinned(b, reader[x]) PROVE reader[x].got = BoardOf(reader[x].block)
    <2>1. reader[x].block \notin abandoned /\ reader[x].block \in Block
        BY <1>2, <1>3, <1>4, <1>5, ReadByNumber DEF SamePinned
    <2>2. \A d \in Demand : reader[x].got[d] = BoardOf(reader[x].block)[d]
        BY <1>1, <1>3, <2>1 DEF ReadingSound
    <2>3. reader[x].got \in [Demand -> Block \cup {NoBlock}]
        BY <1>3 DEF Reading
    <2> QED BY <2>2, <2>3 DEF BoardOf
<1>6. readFailures' \in 0 .. MaxReadFailures
    BY <1>1 DEF BoardInv, BoardTypeOK
<1>7. SamePinned(b, reader[x]) \in BOOLEAN
    BY DEF SamePinned
<1>8. InUse(x, reader[x]) => AsNew(x, reader[x])
    BY <1>4 DEF BoardInv, NothingOlder
<1> QED BY <1>1, <1>2, <1>4, <1>5, <1>6, <1>7, <1>8, ConcludeKeeps

-------------------------------------------------------------------------------
(* Each step of a reader.                                                  *)

(* What is known of a reader that takes a step.                            *)
LEMMA ReaderIs ==
    ASSUME BoardInv, NEW x \in Reader, reader[x].step # "none"
    PROVE  /\ ChainSound /\ BoardTypeOK /\ Shown /\ ActionSound
           /\ reader[x] \in Reading /\ ReadingSound(reader[x])
           /\ UseSound(x, reader[x]) /\ NothingOlder(x, reader[x])
           /\ head \in Block /\ Known(head) /\ Height[head] \in Nat
    BY HeadIsKnown DEF BoardInv, BoardTypeOK, Reader

(* The head is not older than the board shown, nor than what an action has *)
(* confirmed.                                                              *)
LEMMA HeadIsNewest ==
    ASSUME BoardInv, NEW x \in Reader
    PROVE  /\ cursor # NoBlock => Below(cursor, head)
           /\ action.ok \/ (action.stage = "reading" /\ action.refresh = x) =>
                 Below(action.at, head)
<1>1. ChainSound /\ Shown /\ ActionSound
    BY DEF BoardInv
<1> QED BY <1>1, HeadIsKnown DEF Shown, ActionSound

(* A snapshot pins the head.                                               *)
LEMMA ReadLatestKeeps ==
    ASSUME BoardInv, NEW x \in Reader, ReadLatest(x) PROVE BoardInv' /\ cursor' = cursor
<1> DEFINE r == reader[x]
           q == [r EXCEPT !.step = "count", !.block = head, !.number = Height[head],
                          !.got = NoDemands]
<1>1. r.step = "latest" /\ Give(x, q) /\ r.step # "none"
    BY DEF ReadLatest
<1>2. /\ ChainSound /\ r \in Reading /\ UseSound(x, r)
      /\ head \in Block /\ Known(head) /\ Height[head] \in Nat
    BY <1>1, ReaderIs
<1>3. /\ q \in Reading /\ q.step = "count" /\ q.block = head /\ q.number = Height[head]
      /\ q.got = NoDemands /\ q.from = r.from /\ q.current = r.current
    <2>1. NoDemands \in [Demand -> Block \cup {NoBlock}] /\ "count" \in ReadStep
        BY DEF NoDemands, ReadStep
    <2>2. q \in Reading
        BY <1>2, <2>1 DEF Reading
    <2> QED BY <2>2, <1>2 DEF Reading
<1> HIDE DEF q
<1>4. ReadingSound(q)
    BY <1>2, <1>3 DEF ReadingSound, Pinned
<1>5. UseSound(x, q)
    BY <1>1, <1>2, <1>3 DEF UseSound, InUse
<1>6. NothingOlder(x, q)
    BY <1>3, HeadIsNewest DEF NothingOlder, AsNew
<1> QED BY <1>1, <1>3, <1>4, <1>5, <1>6, GiveKeeps DEF Give

(* It counts the demands of the pinned block, ...                          *)
LEMMA ReadCountKeeps ==
    ASSUME BoardInv, NEW x \in Reader, ReadCount(x) PROVE BoardInv' /\ cursor' = cursor
<1> DEFINE r == reader[x]
<1>1. r.step = "count" /\ r.step # "none"
    BY DEF ReadCount
<1>2. PICK b \in Canonical(r.number) :
          Give(x, [r EXCEPT !.step = "demands", !.todo = 1 .. NextDemandId[b] - 1])
    BY DEF ReadCount
<1> DEFINE q == [r EXCEPT !.step = "demands", !.todo = 1 .. NextDemandId[b] - 1]
<1>3. ChainSound /\ r \in Reading /\ ReadingSound(r) /\ UseSound(x, r) /\ NothingOlder(x, r)
    BY <1>1, ReaderIs
<1>4. Known(r.block) /\ r.number = Height[r.block] /\ r.got = NoDemands /\ Pinned(r)
    BY <1>1, <1>3 DEF ReadingSound, Pinned
<1>5. b \in Block /\ (r.block \in abandoned \/ b = r.block)
    BY <1>2, <1>3, <1>4, ReadByNumber, TreeAssumption DEF Canonical, ChainSound, ChainTypeOK
<1>6. /\ q \in Reading /\ q.step = "demands" /\ q.todo = 1 .. NextDemandId[b] - 1
      /\ q.block = r.block /\ q.number = r.number /\ q.got = r.got /\ q.from = r.from
      /\ q.current = r.current
    <2>1. 1 .. NextDemandId[b] - 1 \subseteq Demand /\ "demands" \in ReadStep
        BY <1>5, DemandsOf DEF ReadStep
    <2>2. q \in Reading
        BY <1>3, <2>1 DEF Reading
    <2> QED BY <2>2, <1>3 DEF Reading
<1>g. Give(x, q)
    BY <1>2
<1> HIDE DEF q
<1>7. ASSUME q.block \notin abandoned, NEW d \in Demand \ q.todo
      PROVE  q.got[d] = BoardOf(q.block)[d]
    <2>1. q.block = b /\ d \notin 1 .. NextDemandId[b] - 1
        BY <1>5, <1>6, <1>7
    <2>2. d \in Int /\ d >= 1 /\ NextDemandId[b] \in Nat
        BY <1>5, DemandsOf
    <2>3. d >= NextDemandId[b]
        BY <2>1, <2>2
    <2>4. BoardOf(b)[d] = NoBlock
        BY <1>5, <2>3, BoardHas
    <2> QED BY <1>4, <1>6, <2>1, <2>4 DEF NoDemands
<1>8. ReadingSound(q)
    BY <1>4, <1>6, <1>7 DEF ReadingSound, Pinned
<1>9. UseSound(x, q)
    BY <1>1, <1>3, <1>6 DEF UseSound, InUse
<1>10. NothingOlder(x, q)
    BY <1>3, <1>4, <1>6 DEF NothingOlder, AsNew, InUse
<1> QED BY <1>g, <1>6, <1>8, <1>9, <1>10, GiveKeeps DEF Give

(* ... and reads each of them there.                                       *)
LEMMA ReadDemandKeeps ==
    ASSUME BoardInv, NEW x \in Reader, NEW d \in Demand, ReadDemand(x, d)
    PROVE  BoardInv' /\ cursor' = cursor
<1> DEFINE r == reader[x]
<1>1. r.step = "demands" /\ r.step # "none" /\ d \in r.todo
    BY DEF ReadDemand
<1>2. ChainSound /\ r \in Reading /\ ReadingSound(r) /\ UseSound(x, r) /\ NothingOlder(x, r)
      /\ reader \in [Reader -> Reading]
    BY <1>1, ReaderIs DEF BoardTypeOK, Reader
<1>3. Known(r.block) /\ r.number = Height[r.block] /\ Pinned(r)
    BY <1>1, <1>2 DEF ReadingSound, Pinned
<1>4. PICK b \in Canonical(r.number) :
          /\ d < NextDemandId[b]
          /\ Give(x, [r EXCEPT !.todo = r.todo \ {d}, !.got[d] = Changed(b, d)])
    BY <1>2 DEF ReadDemand
<1>5. b \in Block /\ (r.block \in abandoned \/ b = r.block)
    BY <1>2, <1>3, <1>4, ReadByNumber, TreeAssumption DEF Canonical, ChainSound, ChainTypeOK
<1> DEFINE got == [r.got EXCEPT ![d] = BoardOf(b)[d]]
           q == [r EXCEPT !.todo = r.todo \ {d}, !.got = got]
<1>6. BoardOf(b)[d] = Changed(b, d) /\ BoardOf(b)[d] \in Block \cup {NoBlock}
    BY <1>4, <1>5, BoardHas
<1>7. Give(x, q)
    BY <1>2, <1>4, <1>6 DEF Reading
<1>8. got \in [Demand -> Block \cup {NoBlock}]
      /\ \A e \in Demand : got[e] = IF e = d THEN BoardOf(b)[d] ELSE r.got[e]
    BY <1>2, <1>6 DEF Reading
<1> HIDE DEF got
<1>9. /\ q \in Reading /\ q.step = r.step /\ q.todo = r.todo \ {d} /\ q.got = got
      /\ q.block = r.block /\ q.number = r.number /\ q.from = r.from /\ q.current = r.current
    <2>1. q \in Reading
        BY <1>2, <1>8 DEF Reading
    <2> QED BY <2>1, <1>2 DEF Reading
<1> HIDE DEF q
<1>10. ASSUME q.block \notin abandoned, NEW e \in Demand \ q.todo
       PROVE  q.got[e] = BoardOf(q.block)[e]
    <2>1. b = q.block /\ (e = d \/ e \notin r.todo)
        BY <1>5, <1>9, <1>10
    <2>2. e \notin r.todo => r.got[e] = BoardOf(b)[e]
        BY <1>1, <1>2, <1>5, <1>9, <1>10 DEF ReadingSound
    <2> QED BY <1>8, <1>9, <2>1, <2>2
<1>11. ReadingSound(q)
    BY <1>1, <1>3, <1>9, <1>10 DEF ReadingSound, Pinned
<1>12. UseSound(x, q)
    BY <1>2, <1>9 DEF UseSound, InUse
<1>13. NothingOlder(x, q)
    BY <1>2, <1>3, <1>9 DEF NothingOlder, AsNew, InUse
<1> QED BY <1>7, <1>9, <1>11, <1>12, <1>13, GiveKeeps DEF Give

(* A poll reads the head's number, ...                                     *)
LEMMA ReadHeadKeeps ==
    ASSUME BoardInv, NEW x \in Reader, ReadHead(x) PROVE BoardInv' /\ cursor' = cursor
<1> DEFINE r == reader[x]
           older == [r EXCEPT !.step = "latest"]
           newer == [r EXCEPT !.step = "checkpoint", !.number = Height[head]]
<1>1. r.step = "head" /\ r.step # "none" /\ (Give(x, older) \/ Give(x, newer))
    BY DEF ReadHead
<1>2. r \in Reading /\ ReadingSound(r) /\ UseSound(x, r) /\ Height[head] \in Nat
    BY <1>1, ReaderIs
<1>3. Known(r.from) /\ r.got = BoardOf(r.from) /\ r.block = r.from /\ r.todo = {} /\ x = Poll
    BY <1>1, <1>2 DEF ReadingSound, UseSound
<1>4. ASSUME NEW q \in Reading, Give(x, q), q.step \in {"latest", "checkpoint"},
             q.from = r.from, q.current = r.current, q.todo = r.todo, q.got = r.got,
             q.block = r.block
      PROVE  BoardInv' /\ cursor' = cursor
    <2>1. ~Pinned(q)
        BY <1>4 DEF Pinned
    <2>2. ReadingSound(q)
        BY <1>3, <1>4, <2>1 DEF ReadingSound
    <2>3. UseSound(x, q)
        BY <1>1, <1>2, <1>3, <1>4 DEF UseSound, InUse
    <2>4. NothingOlder(x, q)
        BY <2>1 DEF NothingOlder, AsNew
    <2> QED BY <1>4, <2>2, <2>3, <2>4, GiveKeeps DEF Give
<1>5. /\ older \in Reading /\ older.step = "latest" /\ older.from = r.from
      /\ older.block = r.block
      /\ older.current = r.current /\ older.todo = r.todo /\ older.got = r.got
    BY <1>2 DEF Reading, ReadStep
<1>6. /\ newer \in Reading /\ newer.step = "checkpoint" /\ newer.from = r.from
      /\ newer.block = r.block
      /\ newer.current = r.current /\ newer.todo = r.todo /\ newer.got = r.got
    BY <1>2 DEF Reading, ReadStep
<1> HIDE DEF older, newer
<1> QED BY <1>1, <1>4, <1>5, <1>6

(* ... finds the cursor's block canonical, or takes a snapshot instead, ...*)
LEMMA ReadCheckpointKeeps ==
    ASSUME BoardInv, NEW x \in Reader, ReadCheckpoint(x)
    PROVE  /\ BoardInv'
           /\ cursor' # cursor /\ cursor # NoBlock => Below(cursor, cursor')
<1> DEFINE r == reader[x]
           again == [r EXCEPT !.step = "latest"]
           on == [r EXCEPT !.step = "target"]
<1>1. r.step = "checkpoint" /\ r.step # "none"
    BY DEF ReadCheckpoint
<1>2. /\ r \in Reading /\ ReadingSound(r) /\ UseSound(x, r)
    BY <1>1, ReaderIs
<1>3. Known(r.from) /\ r.got = BoardOf(r.from) /\ r.block = r.from /\ r.todo = {} /\ x = Poll
    BY <1>1, <1>2 DEF ReadingSound, UseSound
<1>4. PICK b \in Canonical(Height[r.from]) :
          \/ Give(x, again)
          \/ Conclude(x, TRUE) /\ readFailures' = readFailures
          \/ b = r.from /\ r.number > Height[r.from] /\ Give(x, on)
    BY DEF ReadCheckpoint
<1>5. ASSUME NEW q \in Reading, Give(x, q), q.step \in {"latest", "target"},
             q.from = r.from, q.current = r.current, q.todo = r.todo, q.got = r.got,
             q.step = "target" => r.from \in Past[head] /\ Height[r.from] < q.number
      PROVE  BoardInv' /\ cursor' = cursor
    <2>1. ~Pinned(q)
        BY <1>5 DEF Pinned
    <2>2. ReadingSound(q)
        BY <1>3, <1>5, <2>1 DEF ReadingSound
    <2>3. UseSound(x, q)
        BY <1>1, <1>2, <1>3, <1>5 DEF UseSound, InUse
    <2>4. NothingOlder(x, q)
        BY <2>1 DEF NothingOlder, AsNew
    <2> QED BY <1>5, <2>2, <2>3, <2>4, GiveKeeps DEF Give
<1>6. /\ again \in Reading /\ again.step = "latest" /\ again.from = r.from
      /\ again.current = r.current /\ again.todo = r.todo /\ again.got = r.got
    BY <1>2 DEF Reading, ReadStep
<1>7. /\ on \in Reading /\ on.step = "target" /\ on.from = r.from /\ on.number = r.number
      /\ on.current = r.current /\ on.todo = r.todo /\ on.got = r.got
    BY <1>2 DEF Reading, ReadStep
<1> HIDE DEF again, on
<1>8. CASE Give(x, again)
    BY <1>5, <1>6, <1>8
<1>9. CASE Conclude(x, TRUE) /\ readFailures' = readFailures
    <2>1. readFailures' \in 0 .. MaxReadFailures
        BY <1>9 DEF BoardInv, BoardTypeOK
    <2>2. ASSUME InUse(x, r) PROVE AsNew(x, r)
        <3>1. r.block = cursor /\ cursor # NoBlock
            BY <1>1, <1>2, <1>3, <2>2 DEF UseSound
        <3>2. Below(cursor, cursor)
            BY <1>1, <1>3, <3>1, ReaderIs, ReadByNumber, TreeAssumption DEF Below
        <3>3. ~(action.stage = "reading" /\ action.refresh = x)
            BY <1>3, Readers DEF BoardInv, ActionSound
        <3>4. action.ok => Below(action.at, cursor)
            BY DEF BoardInv, ActionSound
        <3> QED BY <3>1, <3>2, <3>3, <3>4 DEF AsNew
    <2> QED BY <1>1, <1>3, <1>9, <2>1, <2>2, ConcludeKeeps
<1>10. CASE b = r.from /\ r.number > Height[r.from] /\ Give(x, on)
    <2>1. r.from \in Past[head]
        BY <1>4, <1>10 DEF Canonical
    <2>2. Height[r.from] < on.number
        <3>1. r.from \in Block
            BY <1>1, <1>3, ReaderIs, ReadByNumber
        <3>2. Height[r.from] \in Nat /\ r.number \in Nat
            BY <3>1, <1>2, TreeAssumption DEF Reading
        <3> QED BY <1>7, <1>10, <3>2
    <2> QED BY <1>5, <1>7, <1>10, <2>1, <2>2
<1> QED BY <1>4, <1>8, <1>9, <1>10

(* ... pins a block that came after it, ...                                *)
LEMMA ReadTargetKeeps ==
    ASSUME BoardInv, NEW x \in Reader, ReadTarget(x) PROVE BoardInv' /\ cursor' = cursor
<1> DEFINE r == reader[x]
<1>1. r.step = "target" /\ r.step # "none"
    BY DEF ReadTarget
<1>2. PICK b \in Canonical(Farthest(r)) :
          Give(x, [r EXCEPT !.step = "logs", !.block = b, !.number = Farthest(r),
                            !.next = Height[r.from] + 1])
    BY DEF ReadTarget
<1> DEFINE next == Height[r.from] + 1
           number == Farthest(r)
           q == [r EXCEPT !.step = "logs", !.block = b, !.number = number, !.next = next]
<1>3. /\ ChainSound /\ r \in Reading /\ ReadingSound(r) /\ UseSound(x, r)
      /\ head \in Block /\ ActionSound
    BY <1>1, ReaderIs
<1>4. /\ Known(r.from) /\ r.got = BoardOf(r.from) /\ r.todo = {} /\ x = Poll
      /\ r.from \in Past[head] /\ Height[r.from] < r.number
    BY <1>1, <1>3 DEF ReadingSound, UseSound
<1>5. r.from \in Block /\ Height[r.from] \in Nat /\ r.number \in Nat
    BY <1>3, <1>4, PastOf DEF Reading
<1>6. number \in Nat /\ next \in Nat /\ Height[r.from] < next /\ next <= number
      /\ Height[r.from] <= number
    <2>1. MarketLogRange \in Nat \ {0} /\ MarketMaxLogRanges \in Nat \ {0}
        BY MarketAssumption
    <2> DEFINE far == Height[r.from] + MarketLogRange * MarketMaxLogRanges
    <2>2. far \in Nat /\ Height[r.from] < far
        <3>1. MarketLogRange * MarketMaxLogRanges \in Nat
              /\ MarketLogRange * MarketMaxLogRanges > 0
            BY <2>1
        <3> DEFINE product == MarketLogRange * MarketMaxLogRanges
        <3> HIDE DEF product
        <3>2. product \in Nat /\ product > 0 /\ far = Height[r.from] + product
            BY <3>1 DEF product
        <3> QED BY <1>5, <3>2
    <2>3. number = IF r.number <= far THEN r.number ELSE far
        BY <1>5, <2>2, MinOfTwo DEF Farthest
    <2> HIDE DEF far
    <2> QED BY <1>4, <1>5, <2>2, <2>3
<1>7. b \in Block /\ b \in Past[head] /\ Height[b] = number /\ Known(b)
    BY <1>2, <1>3, PastOf DEF Canonical, Known
<1>8. r.from \in Past[b]
    BY <1>3, <1>4, <1>6, <1>7, OneChain
<1>9. Give(x, q)
    BY <1>2
<1> HIDE DEF number
<1>10. /\ q \in Reading /\ q.step = "logs" /\ q.block = b /\ q.number = number /\ q.next = next
       /\ q.todo = {} /\ q.got = r.got /\ q.from = r.from /\ q.current = r.current
    <2>1. "logs" \in ReadStep
        BY DEF ReadStep
    <2> HIDE DEF next
    <2>2. q \in Reading
        BY <1>3, <1>6, <1>7, <2>1 DEF Reading
    <2> QED BY <2>2, <1>3, <1>4 DEF Reading
<1> HIDE DEF q
<1>11. TouchedUpTo(r.from, b, q.next - 1) = {}
    <2>1. Height[r.from] + 1 .. q.next - 1 = {}
        BY <1>5, <1>10
    <2> QED BY <2>1 DEF TouchedUpTo
<1> HIDE DEF next
<1>12. ReadingSound(q)
    BY <1>4, <1>6, <1>7, <1>8, <1>10, <1>11 DEF ReadingSound, Pinned
<1>13. UseSound(x, q)
    BY <1>1, <1>3, <1>4, <1>10 DEF UseSound, InUse
<1>14. NothingOlder(x, q)
    <2> SUFFICES ASSUME InUse(x, q)
                 PROVE  /\ cursor # NoBlock => Below(cursor, q.block)
                        /\ action.ok \/ (action.stage = "reading" /\ action.refresh = x) =>
                              Below(action.at, q.block)
        BY DEF NothingOlder, AsNew
    <2>1. cursor = r.from
        BY <1>1, <1>3, <1>4, <1>10 DEF UseSound, InUse
    <2>2. Past[r.from] \subseteq Past[b]
        BY <1>7, <1>8, PastOf
    <2>3. ~(action.stage = "reading" /\ action.refresh = x)
        BY <1>3, <1>4, Readers DEF ActionSound
    <2> QED BY <1>3, <1>8, <1>10, <2>1, <2>2, <2>3 DEF ActionSound, Below
<1> QED BY <1>9, <1>10, <1>12, <1>13, <1>14, GiveKeeps DEF Give

(* ... and reads which demands changed in between.                         *)
LEMMA ReadLogsKeeps ==
    ASSUME BoardInv, NEW x \in Reader, ReadLogs(x) PROVE BoardInv' /\ cursor' = cursor
<1> DEFINE r == reader[x]
           end == Min({r.next + MarketLogRange - 1, r.number})
           todo == r.todo \cup LogsOf(r.next, end)
           next == end + 1
           step == IF end < r.number THEN "logs" ELSE "demands"
           q == [r EXCEPT !.todo = todo, !.next = next, !.step = step]
<1>1. r.step = "logs" /\ r.step # "none"
    BY DEF ReadLogs
<1>2. ChainSound /\ r \in Reading /\ ReadingSound(r) /\ UseSound(x, r) /\ NothingOlder(x, r)
    BY <1>1, ReaderIs
<1>3. Give(x, q)
    BY <1>2 DEF ReadLogs
<1>4. /\ Known(r.block) /\ r.number = Height[r.block] /\ Pinned(r) /\ x = Poll
      /\ Known(r.from) /\ r.got = BoardOf(r.from) /\ r.from \in Past[r.block]
      /\ Height[r.from] < r.next /\ r.next <= r.number
      /\ (r.block \in abandoned \/ r.todo = TouchedUpTo(r.from, r.block, r.next - 1))
    BY <1>1, <1>2 DEF ReadingSound, Pinned, UseSound
<1>5. /\ r.block \in Block /\ r.from \in Block /\ Height[r.from] \in Nat
      /\ r.next \in Nat /\ r.number \in Nat /\ r.todo \subseteq Demand
    BY <1>2, <1>4, ReadByNumber, TreeAssumption DEF Reading
<1>6. /\ end \in Nat /\ r.next <= end /\ end <= r.number /\ next \in Nat
      /\ Height[r.from] < next /\ next - 1 = end
      /\ step = "logs" => next <= r.number
      /\ step = "demands" => end = r.number
      /\ step \in {"logs", "demands"}
    <2>1. end = IF r.next + MarketLogRange - 1 <= r.number
                THEN r.next + MarketLogRange - 1 ELSE r.number
        BY <1>5, MarketAssumption, MinOfTwo
    <2> HIDE DEF end
    <2>2. end \in Nat /\ r.next <= end /\ end <= r.number
        BY <1>4, <1>5, <2>1, MarketAssumption
    <2> QED BY <1>4, <1>5, <2>2
<1> HIDE DEF end, step
<1>7. /\ LogsOf(r.next, end) \subseteq Demand
      /\ r.block \in abandoned \/ todo = TouchedUpTo(r.from, r.block, end)
    BY <1>2, <1>4, <1>5, <1>6, OneWindowMore
<1>8. todo \subseteq Demand
    BY <1>5, <1>7
<1> HIDE DEF todo
<1>9. /\ q \in Reading /\ q.step = step /\ q.todo = todo /\ q.next = next
      /\ q.block = r.block /\ q.number = r.number /\ q.got = r.got /\ q.from = r.from
      /\ q.current = r.current
    <2>1. step \in ReadStep
        BY <1>6 DEF ReadStep
    <2> HIDE DEF next
    <2>2. q \in Reading
        BY <1>2, <1>6, <1>8, <2>1 DEF Reading
    <2> QED BY <2>2, <1>2 DEF Reading
<1> HIDE DEF q, next
<1>10. ASSUME step = "demands", q.block \notin abandoned, NEW d \in Demand \ q.todo
       PROVE  q.got[d] = BoardOf(q.block)[d]
    <2>1. d \notin TouchedUpTo(r.from, r.block, Height[r.block])
        BY <1>4, <1>6, <1>7, <1>9, <1>10
    <2> QED BY <1>4, <1>5, <1>9, <2>1, BoardStays
<1>11. ReadingSound(q)
    BY <1>4, <1>6, <1>7, <1>9, <1>10 DEF ReadingSound, Pinned
<1>12. UseSound(x, q)
    BY <1>1, <1>2, <1>4, <1>9 DEF UseSound, InUse
<1>13. NothingOlder(x, q)
    BY <1>2, <1>4, <1>9 DEF NothingOlder, AsNew, InUse
<1> QED BY <1>3, <1>9, <1>11, <1>12, <1>13, GiveKeeps DEF Give

-------------------------------------------------------------------------------
(* The user, the timer and the chain.                                      *)

(* A refresh begins: no reader that has pinned a block is of use any more. *)
LEMMA BeginRefreshIs ==
    ASSUME BoardInv, BeginRefresh, head' = head, abandoned' = abandoned,
           board' = board, cursor' = cursor, boardError' = boardError,
           readFailures' = readFailures, action' \in Action, ActionSound'
    PROVE  BoardInv'
<1> DEFINE n == boardRefreshRequest + 1
           fresher == [NoReading EXCEPT !.step = "latest"]
<1>1. /\ n \in Refresh /\ boardRefreshRequest' = n /\ boardLoading' = TRUE
      /\ reader' = [[reader EXCEPT ![Poll].current = FALSE] EXCEPT ![n] = fresher]
    BY DEF BeginRefresh, Outdated
<1>2. ChainSound /\ BoardTypeOK /\ Shown /\ reader \in [Reader -> Reading]
    BY DEF BoardInv, BoardTypeOK, Reader
<1>3. n # Poll /\ n \in Reader /\ Poll \in Reader
    BY <1>1, Readers
<1>4. /\ fresher \in Reading /\ fresher.step = "latest"
    <2>1. NoReading \in Reading
        BY <1>3, NoReadingSound
    <2> QED BY <2>1 DEF Reading, ReadStep
<1> DEFINE poll == [reader[Poll] EXCEPT !.current = FALSE]
<1>5. /\ poll \in Reading /\ ~poll.current /\ poll.step = reader[Poll].step
      /\ poll.block = reader[Poll].block /\ poll.number = reader[Poll].number
      /\ poll.from = reader[Poll].from /\ poll.next = reader[Poll].next
      /\ poll.todo = reader[Poll].todo /\ poll.got = reader[Poll].got
    <2>1. reader[Poll] \in Reading
        BY <1>2, <1>3
    <2> QED BY <2>1 DEF Reading
<1>6. reader' = [[reader EXCEPT ![Poll] = poll] EXCEPT ![n] = fresher]
    BY <1>1
<1> HIDE DEF poll, fresher
<1>7. /\ reader' \in [Reader -> Reading]
      /\ \A y \in Reader : reader'[y] = IF y = n THEN fresher
                                        ELSE IF y = Poll THEN poll ELSE reader[y]
    BY <1>2, <1>3, <1>4, <1>5, <1>6
<1>8. ChainSound' /\ BoardTypeOK'
    <2>1. n \in 0 .. MaxRefreshes
        BY <1>1, MarketAssumption DEF Refresh
    <2>2. reader' \in [Refresh \cup {Poll} -> Reading]
        BY <1>7 DEF Reader
    <2> QED BY <1>1, <1>2, <2>1, <2>2 DEF ChainSound, ChainTypeOK, BoardTypeOK
<1>9. Shown'
    BY <1>1, <1>2 DEF Shown, Known, BoardOf
<1>10. ASSUME NEW y \in Reader
       PROVE  /\ ReadingSound(reader[y])'
              /\ UseSound(y, reader[y])' /\ NothingOlder(y, reader[y])'
    <2>1. CASE y = n
        <3>1. reader'[y].step = "latest"
            BY <1>4, <1>7, <2>1
        <3> QED BY <1>1, <1>3, <2>1, <3>1 DEF ReadingSound, UseSound, NothingOlder, AsNew, Pinned
    <2>2. CASE y = Poll
        <3>1. reader'[y] = poll /\ ReadingSound(reader[Poll]) /\ UseSound(Poll, reader[Poll])
            BY <1>3, <1>7, <2>2 DEF BoardInv
        <3>2. ReadingSound(reader[y])'
            BY <1>5, <3>1 DEF ReadingSound, Pinned, Known
        <3>3. ~InUse(y, reader[y])'
            BY <1>5, <2>2, <3>1 DEF InUse
        <3>4. UseSound(y, reader[y])'
            BY <1>5, <2>2, <3>1, <3>3 DEF UseSound
        <3> QED BY <3>2, <3>3, <3>4 DEF NothingOlder, AsNew
    <2>3. CASE y # n /\ y # Poll
        <3>1. reader'[y] = reader[y] /\ ReadingSound(reader[y]) /\ UseSound(y, reader[y])
            BY <1>7, <2>3 DEF BoardInv
        <3>2. ReadingSound(reader[y])'
            BY <3>1 DEF ReadingSound, Pinned, Known
        <3>3. ~InUse(y, reader[y])'
            BY <1>1, <2>3 DEF InUse, Latest
        <3>4. UseSound(y, reader[y])'
            BY <2>3, <3>1, <3>3 DEF UseSound
        <3> QED BY <3>2, <3>3, <3>4 DEF NothingOlder, AsNew
    <2> QED BY <2>1, <2>2, <2>3
<1> QED BY <1>8, <1>9, <1>10 DEF BoardInv

(* A refresh by a button.                                                  *)
LEMMA PressRefreshKeeps == ASSUME BoardInv, PressRefresh PROVE BoardInv' /\ cursor' = cursor
<1>1. /\ BeginRefresh /\ head' = head /\ abandoned' = abandoned /\ board' = board
      /\ cursor' = cursor /\ boardError' = boardError /\ action' = action
      /\ readFailures' = readFailures
    BY DEF PressRefresh, chain
<1>2. action' \in Action /\ ActionSound'
    BY <1>1 DEF BoardInv, BoardTypeOK, ActionSound, Known, Below
<1> QED BY <1>1, <1>2, BeginRefreshIs

(* The refresh after a confirmed transaction.                              *)
LEMMA ConfirmedKeeps == ASSUME BoardInv, Confirmed PROVE BoardInv' /\ cursor' = cursor
<1> DEFINE n == boardRefreshRequest + 1
<1>1. /\ BeginRefresh /\ head' = head /\ abandoned' = abandoned /\ board' = board
      /\ cursor' = cursor /\ boardError' = boardError /\ readFailures' = readFailures
      /\ action.stage = "working"
      /\ action' = [action EXCEPT !.stage = "reading", !.at = head, !.refresh = n]
    BY DEF Confirmed, chain
<1>2. action \in Action /\ ~action.ok /\ ChainSound
    BY <1>1 DEF BoardInv, BoardTypeOK, ActionSound
<1>3. n \in Refresh /\ n \in Nat
    BY <1>1 DEF BeginRefresh, Refresh
<1>4. head \in Block /\ Known(head)
    BY <1>2, HeadIsKnown
<1> HIDE DEF n
<1>5. /\ action' \in Action /\ action'.stage = "reading" /\ action'.at = head
      /\ action'.refresh = n /\ ~action'.ok
    BY <1>1, <1>2, <1>3, <1>4 DEF Action, ActionStage
<1>6. ActionSound'
    BY <1>1, <1>3, <1>4, <1>5 DEF ActionSound, Known
<1> QED BY <1>1, <1>5, <1>6, BeginRefreshIs

(* A poll goes on from the board shown.                                    *)
LEMMA BeginPollKeeps == ASSUME BoardInv, BeginPoll PROVE BoardInv' /\ cursor' = cursor
<1> DEFINE q == [NoReading EXCEPT !.step = "head", !.from = cursor, !.block = cursor,
                                  !.current = TRUE, !.got = board]
<1>1. Give(Poll, q) /\ cursor # NoBlock /\ ~boardLoading
    BY DEF BeginPoll, Give
<1>2. Poll \in Reader
    BY Readers
<1>3. ChainSound /\ BoardTypeOK /\ Known(cursor) /\ board = BoardOf(cursor)
    BY <1>1 DEF BoardInv, Shown
<1>4. /\ q \in Reading /\ q.step = "head" /\ q.from = cursor /\ q.current
      /\ q.block = cursor
      /\ q.got = board /\ q.todo = {}
    <2>1. NoReading \in Reading /\ "head" \in ReadStep
        BY <1>2, NoReadingSound DEF ReadStep
    <2>2. q \in Reading
        BY <1>3, <2>1 DEF Reading, BoardTypeOK
    <2> QED BY <2>2 DEF NoReading
<1> HIDE DEF q
<1>5. ReadingSound(q)
    BY <1>3, <1>4 DEF ReadingSound, Pinned
<1>6. UseSound(Poll, q)
    BY <1>1, <1>4 DEF UseSound, InUse
<1>7. NothingOlder(Poll, q)
    BY <1>4 DEF NothingOlder, AsNew, Pinned
<1> QED BY <1>1, <1>2, <1>4, <1>5, <1>6, <1>7, GiveKeeps DEF Give

(* The poll's result is thrown away, and no action has succeeded yet.      *)
LEMMA BeginActionKeeps == ASSUME BoardInv, BeginAction PROVE BoardInv' /\ cursor' = cursor
<1>1. /\ head' = head /\ abandoned' = abandoned /\ board' = board /\ cursor' = cursor
      /\ boardLoading' = boardLoading /\ boardError' = boardError
      /\ boardRefreshRequest' = boardRefreshRequest /\ readFailures' = readFailures
      /\ action' = [stage |-> "working", at |-> NoBlock, refresh |-> 0, ok |-> FALSE]
      /\ reader' = [reader EXCEPT ![Poll].current = FALSE]
    BY DEF BeginAction, Outdated, chain
<1>2. ChainSound /\ BoardTypeOK /\ Shown /\ reader \in [Reader -> Reading] /\ Poll \in Reader
    BY Readers DEF BoardInv, BoardTypeOK, Reader
<1>3. /\ action' \in Action /\ action'.stage = "working" /\ ~action'.ok
    BY <1>1 DEF Action, ActionStage
<1> DEFINE poll == [reader[Poll] EXCEPT !.current = FALSE]
<1>4. /\ poll \in Reading /\ ~poll.current /\ poll.step = reader[Poll].step
      /\ poll.block = reader[Poll].block /\ poll.number = reader[Poll].number
      /\ poll.from = reader[Poll].from /\ poll.next = reader[Poll].next
      /\ poll.todo = reader[Poll].todo /\ poll.got = reader[Poll].got
    <2>1. reader[Poll] \in Reading
        BY <1>2
    <2> QED BY <2>1 DEF Reading
<1>5. reader' = [reader EXCEPT ![Poll] = poll]
    BY <1>1
<1> HIDE DEF poll
<1>6. /\ reader' \in [Reader -> Reading]
      /\ \A y \in Reader : reader'[y] = IF y = Poll THEN poll ELSE reader[y]
    BY <1>2, <1>4, <1>5
<1>7. ChainSound' /\ BoardTypeOK'
    <2>1. reader' \in [Refresh \cup {Poll} -> Reading]
        BY <1>6 DEF Reader
    <2> QED BY <1>1, <1>2, <1>3, <2>1 DEF ChainSound, ChainTypeOK, BoardTypeOK
<1>8. Shown' /\ ActionSound'
    BY <1>1, <1>2, <1>3 DEF Shown, ActionSound, Known, BoardOf
<1>9. ASSUME NEW y \in Reader
      PROVE  /\ ReadingSound(reader[y])'
             /\ UseSound(y, reader[y])' /\ NothingOlder(y, reader[y])'
    <2>0. /\ ReadingSound(reader[y]) /\ UseSound(y, reader[y]) /\ NothingOlder(y, reader[y])
        BY DEF BoardInv
    <2>1. CASE y = Poll
        <3>1. reader'[y] = poll
            BY <1>6, <2>1
        <3>2. ReadingSound(reader[y])'
            BY <1>1, <1>4, <2>0, <2>1, <3>1 DEF ReadingSound, Pinned, Known
        <3>3. ~InUse(y, reader[y])'
            BY <1>4, <2>1, <3>1 DEF InUse
        <3>4. UseSound(y, reader[y])'
            BY <1>1, <1>4, <2>0, <2>1, <3>1, <3>3 DEF UseSound
        <3> QED BY <3>2, <3>3, <3>4 DEF NothingOlder, AsNew
    <2>2. CASE y # Poll
        <3>1. reader'[y] = reader[y]
            BY <1>6, <2>2
        <3>2. ReadingSound(reader[y])'
            BY <1>1, <2>0, <3>1 DEF ReadingSound, Pinned, Known
        <3>3. UseSound(y, reader[y])'
            BY <1>1, <2>0, <2>2, <3>1 DEF UseSound, InUse, Latest
        <3>4. NothingOlder(y, reader[y])'
            BY <1>1, <1>3, <2>0, <2>2, <3>1 DEF NothingOlder, AsNew, InUse, Latest, Pinned, Below
        <3> QED BY <3>2, <3>3, <3>4
    <2> QED BY <2>1, <2>2
<1> QED BY <1>1, <1>7, <1>8, <1>9 DEF BoardInv

(* What an action has shown stays shown.                                   *)
LEMMA EndActionKeeps == ASSUME BoardInv, EndAction PROVE BoardInv' /\ cursor' = cursor
<1>1. /\ head' = head /\ abandoned' = abandoned /\ board' = board /\ cursor' = cursor
      /\ boardLoading' = boardLoading /\ boardError' = boardError /\ reader' = reader
      /\ boardRefreshRequest' = boardRefreshRequest /\ readFailures' = readFailures
      /\ action' = [action EXCEPT !.stage = "none"]
    BY DEF EndAction, chain
<1>2. ChainSound /\ BoardTypeOK /\ Shown /\ ActionSound /\ action \in Action
    BY DEF BoardInv, BoardTypeOK
<1>3. /\ action' \in Action /\ action'.stage = "none" /\ action'.ok = action.ok
      /\ action'.at = action.at
    BY <1>1, <1>2 DEF Action, ActionStage
<1>4. ChainSound' /\ BoardTypeOK'
    BY <1>1, <1>2, <1>3 DEF ChainSound, ChainTypeOK, BoardTypeOK
<1>5. Shown' /\ ActionSound'
    BY <1>1, <1>2, <1>3 DEF Shown, ActionSound, Known, Below, BoardOf
<1>6. ASSUME NEW y \in Reader
      PROVE  /\ ReadingSound(reader[y])'
             /\ UseSound(y, reader[y])' /\ NothingOlder(y, reader[y])'
    <2>1. /\ ReadingSound(reader[y]) /\ UseSound(y, reader[y]) /\ NothingOlder(y, reader[y])
        BY DEF BoardInv
    <2>2. ReadingSound(reader[y])' /\ UseSound(y, reader[y])'
        BY <1>1, <2>1 DEF ReadingSound, UseSound, InUse, Latest, Pinned, Known
    <2>3. NothingOlder(y, reader[y])'
        BY <1>1, <1>3, <2>1 DEF NothingOlder, AsNew, InUse, Latest, Pinned, Below
    <2> QED BY <2>2, <2>3
<1> QED BY <1>1, <1>4, <1>5, <1>6 DEF BoardInv

(* The chain moves; of a poll between its reads of the checkpoint and of   *)
(* the target, the checkpoint stays canonical.                             *)
LEMMA BoardMoveKeeps ==
    ASSUME CheckpointHolds, BoardInv, NEW b \in Block, BoardMoveHead(b)
    PROVE  BoardInv' /\ cursor' = cursor
<1>1. /\ board' = board /\ cursor' = cursor /\ boardLoading' = boardLoading
      /\ boardError' = boardError /\ reader' = reader /\ action' = action
      /\ boardRefreshRequest' = boardRefreshRequest /\ readFailures' = readFailures
      /\ MoveTo(b) /\ head' = b
      /\ reader[Poll].step = "target" => reader[Poll].from \in Past[b]
    BY DEF BoardMoveHead, MoveTo
<1>2. ChainSound /\ BoardTypeOK /\ Shown /\ ActionSound
    BY DEF BoardInv
<1>3. ChainSound' /\ abandoned \subseteq abandoned' /\ \A c : Known(c) => Known(c)'
    BY <1>1, <1>2, ChainMoves
<1>4. \A c, d : Below(c, d) => Below(c, d)'
    BY <1>3 DEF Below
<1>5. BoardTypeOK'
    BY <1>1, <1>2, <1>3 DEF BoardTypeOK, ChainSound
<1>6. Shown' /\ ActionSound'
    BY <1>1, <1>2, <1>3, <1>4 DEF Shown, ActionSound, BoardOf
<1>7. ASSUME NEW y \in Reader
      PROVE  /\ ReadingSound(reader[y])'
             /\ UseSound(y, reader[y])' /\ NothingOlder(y, reader[y])'
    <2>1. /\ ReadingSound(reader[y]) /\ UseSound(y, reader[y]) /\ NothingOlder(y, reader[y])
        BY DEF BoardInv
    <2>2. reader[y].step = "target" => y = Poll
        BY <2>1 DEF UseSound
    <2>3. ReadingSound(reader[y])'
        BY <1>1, <1>3, <2>1, <2>2 DEF ReadingSound, Pinned, BoardOf
    <2>4. UseSound(y, reader[y])'
        BY <1>1, <2>1 DEF UseSound, InUse, Latest
    <2>5. NothingOlder(y, reader[y])'
        BY <1>1, <1>4, <2>1 DEF NothingOlder, AsNew, InUse, Latest, Pinned
    <2> QED BY <2>3, <2>4, <2>5
<1> QED BY <1>1, <1>3, <1>5, <1>6, <1>7 DEF BoardInv

(* Nothing happens.                                                        *)
LEMMA BoardStutters == ASSUME BoardInv, UNCHANGED boardVars PROVE BoardInv' /\ cursor' = cursor
<1>1. /\ head' = head /\ abandoned' = abandoned /\ board' = board /\ cursor' = cursor
      /\ boardLoading' = boardLoading /\ boardError' = boardError /\ reader' = reader
      /\ boardRefreshRequest' = boardRefreshRequest /\ readFailures' = readFailures
      /\ action' = action
    BY DEF boardVars, chain
<1>2. ChainSound' /\ BoardTypeOK' /\ Shown' /\ ActionSound'
    BY <1>1 DEF BoardInv, ChainSound, ChainTypeOK, BoardTypeOK, Shown, ActionSound, Known,
                Below, BoardOf
<1>3. ASSUME NEW y \in Reader
      PROVE  /\ ReadingSound(reader[y])'
             /\ UseSound(y, reader[y])' /\ NothingOlder(y, reader[y])'
    <2>1. /\ ReadingSound(reader[y]) /\ UseSound(y, reader[y]) /\ NothingOlder(y, reader[y])
        BY DEF BoardInv
    <2> QED BY <1>1, <2>1 DEF ReadingSound, UseSound, NothingOlder, AsNew, InUse, Latest, Pinned,
                              Known, Below
<1> QED BY <1>1, <1>2, <1>3 DEF BoardInv

(* Every step keeps the invariant, and only the end of a reader that       *)
(* nothing disturbed changes the block of the board.                       *)
LEMMA BoardSteps ==
    ASSUME CheckpointHolds, BoardInv, [BoardNext]_boardVars
    PROVE  /\ BoardInv'
           /\ cursor' # cursor /\ cursor # NoBlock => Below(cursor, cursor')
<1>1. ASSUME NEW x \in Reader, BoardProceed(x) \/ ReadFails(x)
      PROVE  /\ BoardInv'
             /\ cursor' # cursor /\ cursor # NoBlock => Below(cursor, cursor')
    BY <1>1, ReadLatestKeeps, ReadCountKeeps, ReadDemandKeeps, ReadSameKeeps, ReadHeadKeeps,
       ReadCheckpointKeeps, ReadTargetKeeps, ReadLogsKeeps, NotThereKeeps, ReadFailsKeeps
       DEF BoardProceed
<1>2. CASE PressRefresh \/ BeginPoll \/ BeginAction \/ Confirmed \/ EndAction
    BY <1>2, PressRefreshKeeps, BeginPollKeeps, BeginActionKeeps, ConfirmedKeeps, EndActionKeeps
<1>3. ASSUME NEW b \in Block, BoardMoveHead(b) PROVE BoardInv' /\ cursor' = cursor
    BY <1>3, BoardMoveKeeps
<1>4. CASE UNCHANGED boardVars
    BY <1>4, BoardStutters
<1> QED BY <1>1, <1>2, <1>3, <1>4 DEF BoardNext, Reader

(* The invariant of the board is inductive, if no reorganisation comes     *)
(* between two reads of a poll.                                            *)
THEOREM BoardInductive == ASSUME CheckpointHolds PROVE BoardSpec => []BoardInv
<1>1. BoardInit => BoardInv
    BY BoardInitial
<1>2. BoardInv /\ [BoardNext]_boardVars => BoardInv'
    BY BoardSteps
<1> QED BY <1>1, <1>2, PTL DEF BoardSpec

(* The board shown is what the contract held at the cursor's block.        *)
THEOREM BoardIsSnapshot == ASSUME CheckpointHolds PROVE BoardSpec => []BoardIsOfCursor
<1>1. BoardInv => BoardIsOfCursor
    BY DEF BoardInv, Shown, BoardIsOfCursor
<1> QED BY <1>1, BoardInductive, PTL

(* The board shows what an action did once its readback succeeded, and     *)
(* never says "not found", "no requests yet" or "last successful" of what  *)
(* was not read.                                                           *)
THEOREM PageTellsTruth == ASSUME CheckpointHolds PROVE BoardSpec => []BoardTellsTruth
<1>1. ASSUME BoardInv PROVE BoardTellsTruth
    <2>1. ChainSound /\ Shown /\ ActionSound /\ boardLoading \in BOOLEAN /\ boardError \in BOOLEAN
        BY <1>1 DEF BoardInv, BoardTypeOK
    <2>2. cursor = NoBlock => /\ \A d \in Demand : board[d] = NoBlock
                              /\ boardLoading \/ boardError
        BY <2>1 DEF Shown, NoDemands
    <2>3. cursor # NoBlock => cursor \in Block
        BY <2>1, ReadByNumber DEF Shown
    <2>4. cursor # NoBlock => \A d \in Demand :
              /\ board[d] # NoBlock <=> d < NextDemandId[cursor]
              /\ board[d] = NoBlock <=> d >= NextDemandId[cursor]
        <3> SUFFICES ASSUME cursor # NoBlock, NEW d \in Demand
                     PROVE  /\ board[d] # NoBlock <=> d < NextDemandId[cursor]
                            /\ board[d] = NoBlock <=> d >= NextDemandId[cursor]
            OBVIOUS
        <3>1. board[d] = BoardOf(cursor)[d]
            BY <2>1 DEF Shown
        <3>2. d \in Int /\ NextDemandId[cursor] \in Nat
            BY <2>3, DemandsOf
        <3> QED BY <2>3, <3>1, <3>2, BoardHas
    <2>5. (action.ok /\ action.at \notin abandoned) => action.at \in Past[cursor]
        BY <2>1 DEF ActionSound, Below
    <2>6. ASSUME NEW d \in Demand, DetailLoad(d) = "not-found"
          PROVE  cursor # NoBlock /\ d >= NextDemandId[cursor]
        <3>1. board[d] = NoBlock /\ ~boardLoading /\ ~boardError
            BY <2>1, <2>6 DEF DetailLoad
        <3> QED BY <2>2, <2>4, <3>1
    <2>7. ASSUME ListState = "zero" \/ (AnalyticsState = "numbers" /\ OnBoard = {})
          PROVE  cursor # NoBlock /\ \A d \in Demand : d >= NextDemandId[cursor]
        <3>1. OnBoard = {} /\ ~boardLoading /\ ~boardError
            BY <2>1, <2>7 DEF ListState, AnalyticsState
        <3>2. \A d \in Demand : board[d] = NoBlock
            BY <3>1 DEF OnBoard
        <3> QED BY <2>2, <2>4, <3>1, <3>2
    <2>8. ASSUME AnalyticsState = "last successful"
          PROVE  cursor # NoBlock /\ OnBoard = {d \in Demand : d < NextDemandId[cursor]}
        <3>1. OnBoard # {}
            BY <2>1, <2>8 DEF AnalyticsState
        <3>2. cursor # NoBlock
            BY <2>2, <3>1 DEF OnBoard
        <3> QED BY <2>4, <3>2 DEF OnBoard
    <2> QED BY <2>5, <2>6, <2>7, <2>8 DEF BoardTellsTruth
<1> QED BY <1>1, BoardInductive, PTL

(* An older board never takes the place of a newer one.                    *)
THEOREM BoardNeverGoesBack == ASSUME CheckpointHolds PROVE BoardSpec => BoardGoesForward
<1> DEFINE Goes == cursor' # cursor /\ cursor # NoBlock =>
                       cursor \in Past[cursor'] \cup abandoned
<1>1. BoardInv /\ [BoardNext]_boardVars => [Goes]_boardVars
    BY BoardSteps DEF Below
<1> HIDE DEF Goes
<1>2. BoardSpec => [][Goes]_boardVars
    BY <1>1, BoardInductive, PTL DEF BoardSpec
<1> QED BY <1>2 DEF BoardGoesForward, Goes

(* Neither reader of the contract's demands ever goes back, unless the     *)
(* chain does.                                                             *)
THEOREM ReadersGoForward == ASSUME CheckpointHolds PROVE Spec /\ BoardSpec => NothingGoesBack
    BY VersionsAlwaysTell, IndexGoesForward, BoardNeverGoesBack DEF NothingGoesBack

===============================================================================
