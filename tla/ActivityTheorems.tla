---------------------------- MODULE ActivityTheorems ---------------------------
(***************************************************************************)
(* Proofs about the activity history, for every tree of blocks, every way  *)
(* events lie in it, every order of reads, crashes and reorganisations,    *)
(* and any limits.                                                         *)
(***************************************************************************)
EXTENDS ActivityIndex, TLAPS

(* A block that was canonical at some time.                                *)
Known(b) == b \in Past[head] \cup abandoned

(* Block c is on the chain that ends in b, unless c (or b) was abandoned.  *)
Below(c, b) == c \in abandoned \/ c \in Past[b]
Under(c, b) == b \in abandoned \/ c \in Past[b]

PageOf(d, b) == Logs({c \in Past[b] : Height[c] >= NextBlock(d)})

(* The store: its anchors were canonical, the checkpoint does not pass the *)
(* target, and the events are those of the checkpoint's chain.             *)
StoreSound(d) ==
    /\ d \in DbType
    /\ d.start # NoBlock => Known(d.start) /\ Height[d.start] = DeployBlock
    /\ d.target # NoBlock => Known(d.target) /\ Height[d.target] >= DeployBlock
    /\ d.cutoff # NoBlock =>
           /\ Known(d.cutoff) /\ d.target # NoBlock
           /\ Height[d.cutoff] <= Height[d.target]
           /\ Height[d.cutoff] = Height[d.target] => d.cutoff = d.target
    /\ d.events = IF d.cutoff = NoBlock THEN {} ELSE Logs(Past[d.cutoff])
    /\ d.coverage = "complete" =>
           d.cutoff # NoBlock /\ d.cutoff = d.target /\ d.start \in Past[d.cutoff]
    /\ d.reorg = "detected" => d.cutoff # NoBlock /\ d.cutoff \in abandoned

AtWork   == {"cutoff", "target", "pin", "before", "logs", "headers", "after", "repin",
             "count", "startpin", "targetpin"}
Checking == {"start", "cutoff", "target"}
Paging   == {"pin", "before", "logs", "headers", "after", "repin"}
Looked   == {"logs", "headers", "after", "repin"}
Closing  == {"count", "startpin", "targetpin"}

(* What the worker relies on: a block it has looked at is the chain's, or  *)
(* one of the blocks it will look at again has been abandoned.             *)
RunSound(d, r) ==
    /\ r \in RunType
    /\ r.step = "chain" /\ r.detected /\ d.cutoff # NoBlock => d.cutoff \in abandoned
    /\ r.step \in AtWork => d.start # NoBlock
    /\ r.step \in Checking =>
           /\ r.head # NoBlock /\ Known(r.head) /\ Height[r.head] >= DeployBlock
           /\ d.cutoff # NoBlock => Below(d.cutoff, r.head)
           /\ d.target # NoBlock => Below(d.target, r.head)
    /\ r.step \in {"cutoff", "pin", "repin"} => d.cutoff # NoBlock
    /\ r.step \in {"target"} \cup Paging \cup Closing => d.target # NoBlock
    /\ r.step \in Paging => r.windows < IndexMaxLogWindows /\ NextBlock(d) <= Height[d.target]
    /\ r.step \in Looked =>
           /\ r.before # NoBlock /\ Known(r.before) /\ Height[r.before] = PageEnd(d)
           /\ Under(r.before, d.target)
    /\ r.step \in {"headers", "after"} => r.before \in abandoned \/ r.page = PageOf(d, r.before)
    /\ r.step = "headers" => \A c \in r.headers : Under(c, d.target)
    /\ r.step = "repin" => r.page = PageOf(d, r.before) /\ Below(d.cutoff, r.before)
    /\ r.step \in Closing => d.cutoff = d.target
    /\ r.step = "targetpin" => Under(d.start, d.target)

GuardSound ==
    /\ guard \in [Query -> GuardType]
    /\ \A q \in Query : guard[q].step # "idle" => guard[q].gone \subseteq abandoned
    /\ ServedIsCanonical

ActivityInv ==
    /\ ChainTypeOK /\ Past[head] \cap abandoned = {}
    /\ StoreSound(db)
    /\ RunSound(db, run)
    /\ GuardSound
    /\ failures \in 0 .. MaxFailures /\ restarts \in 0 .. MaxRestarts

(* A step that throws the history away has a reason to.                    *)
Kept ==
    db.cutoff # NoBlock /\ db'.cutoff = NoBlock =>
        {db.start, db.cutoff, db.target} \cap abandoned # {}

-------------------------------------------------------------------------------
(* The tree.                                                               *)

LEMMA PastOf ==
    ASSUME NEW b \in Block, NEW c \in Past[b]
    PROVE  /\ c \in Block /\ Height[c] \in Nat /\ Height[c] <= Height[b]
           /\ Past[c] = {d \in Past[b] : Height[d] <= Height[c]}
    BY TreeAssumption

(* Of two blocks of a chain the lower one is in the past of the other.     *)
LEMMA OneChain ==
    ASSUME NEW b \in Block, NEW c \in Past[b], NEW d \in Past[b], Height[c] <= Height[d]
    PROVE  c \in Past[d]
    BY TreeAssumption

(* A chain has one block at each height.                                   *)
LEMMA OneAtEach ==
    ASSUME NEW b \in Block, NEW c \in Past[b], NEW d \in Past[b], Height[c] = Height[d]
    PROVE  c = d
    BY TreeAssumption

(* A block that was seen is one of the tree.                               *)
LEMMA KnownBlock ==
    ASSUME ChainTypeOK, NEW b, Known(b)
    PROVE  b \in Block /\ Height[b] \in Nat
    BY TreeAssumption DEF Known, ChainTypeOK

(* The block read by its number is on the chain of the head.               *)
LEMMA CanonicalIs ==
    ASSUME ActivityInv, NEW n, NEW b \in Canonical(n)
    PROVE  b \in Block /\ Height[b] \in Nat /\ Height[b] = n /\ b \in Past[head]
           /\ b \notin abandoned /\ Known(b) /\ b # NoBlock
    BY TreeAssumption DEF ActivityInv, ChainTypeOK, Canonical, Known

(* Whose number now belongs to another block has been abandoned.           *)
LEMMA Replaced ==
    ASSUME ActivityInv, NEW c, Known(c), NEW b \in Canonical(Height[c]), b # c
    PROVE  c \in abandoned
    BY OneAtEach, CanonicalIs DEF ActivityInv, ChainTypeOK, Known

(* Of two blocks, one of them canonical.                                   *)
LEMMA BelowCanonical ==
    ASSUME ActivityInv, NEW c, Known(c), NEW b \in Past[head], Height[c] <= Height[b]
    PROVE  Below(c, b)
    BY OneChain DEF ActivityInv, ChainTypeOK, Known, Below

(* A known block that is no lower than one of the chain is above it, or    *)
(* left.                                                                   *)
LEMMA UnderCanonical ==
    ASSUME ActivityInv, NEW c \in Past[head], NEW b, Known(b), Height[c] <= Height[b]
    PROVE  Under(c, b)
    BY OneChain DEF ActivityInv, ChainTypeOK, Known, Under

(* A block that is under a canonical one is canonical.                     *)
LEMMA UnderAbandoned ==
    ASSUME ActivityInv, NEW c, NEW b, Known(b), Under(c, b), c \notin Past[head]
    PROVE  b \in abandoned
    BY PastOf DEF ActivityInv, ChainTypeOK, Known, Under

(* What a lower head does not reach any more has been abandoned.           *)
LEMMA ShrunkAbandoned ==
    ASSUME ActivityInv, NEW c, NEW h, Known(h), Below(c, h), Height[h] < Height[c]
    PROVE  c \in abandoned
    BY PastOf, KnownBlock DEF ActivityInv, Below

(* The events of a page complete those of the checkpoint.                  *)
LEMMA LogsInType ==
    ASSUME NEW blocks \in SUBSET Block
    PROVE  Logs(blocks) \subseteq Event \X Block
    BY LogAssumption DEF Logs

(* A page added to the events before it makes those of the longer chain.   *)
LEMMA PageCompletes ==
    ASSUME NEW d, NEW b \in Block,
           d.events = (IF d.cutoff = NoBlock THEN {} ELSE Logs(Past[d.cutoff])),
           d.cutoff # NoBlock => d.cutoff \in Past[b]
    PROVE  /\ d.events \cup PageOf(d, b) = Logs(Past[b])
           /\ ~Conflict(d, PageOf(d, b))
<1> DEFINE page == {c \in Past[b] : Height[c] >= NextBlock(d)}
<1>1. CASE d.cutoff = NoBlock
    <2>1. \A c \in Past[b] : c \notin page => Log[c] = {}
        BY <1>1, PastOf, LogAssumption DEF NextBlock
    <2>2. Logs(page) = Logs(Past[b])
        BY <2>1 DEF Logs
    <2> QED BY <1>1, <2>2 DEF PageOf, Conflict
<1>2. CASE d.cutoff # NoBlock
    <2>1. Past[d.cutoff] = {c \in Past[b] : Height[c] <= Height[d.cutoff]} /\ Height[d.cutoff] \in Nat
        BY <1>2, PastOf
    <2>2. Past[b] = Past[d.cutoff] \cup page
        BY <1>2, <2>1, PastOf DEF NextBlock
    <2>3. Logs(Past[b]) = Logs(Past[d.cutoff]) \cup Logs(page)
        BY <2>2 DEF Logs
    <2>4. \A l, m \in Logs(Past[b]) : l[1] = m[1] => l = m
        BY LogAssumption
    <2> QED BY <1>2, <2>3, <2>4 DEF PageOf, Conflict
<1> QED BY <1>1, <1>2

-------------------------------------------------------------------------------
(* The store, on its own.                                                  *)

LEMMA ResetSound == StoreSound(Reset(db))
    BY DEF Reset, NoDb, StoreSound, DbType, Anchor

(* Flags that say less than before may be written by anyone.               *)
LEMMA FlagsSound ==
    ASSUME NEW e, StoreSound(e), NEW d \in DbType,
           d.start = e.start, d.cutoff = e.cutoff, d.target = e.target, d.events = e.events,
           d.coverage # "complete",
           d.reorg = "detected" => d.cutoff # NoBlock /\ d.cutoff \in abandoned
    PROVE  /\ StoreSound(d)
           /\ ~Complete(d)
           /\ \A r : RunSound(e, r) => RunSound(d, r)
<1>1. StoreSound(d) /\ ~Complete(d)
    BY DEF StoreSound, Complete
<1>2. NextBlock(d) = NextBlock(e) /\ PageEnd(d) = PageEnd(e)
    BY DEF NextBlock, PageEnd
<1>3. ASSUME NEW r, RunSound(e, r) PROVE RunSound(d, r)
    <2>1. \A b : PageOf(d, b) = PageOf(e, b)
        BY <1>2 DEF PageOf
    <2> QED BY <1>2, <1>3, <2>1 DEF RunSound
<1> QED BY <1>1, <1>3

(* A failure is noted in a store that stays sound.                         *)
LEMMA FailedSound ==
    ASSUME NEW e, StoreSound(e)
    PROVE  /\ Failed(e) \in DbType /\ StoreSound(Failed(e)) /\ ~Complete(Failed(e))
           /\ Failed(e).cutoff = e.cutoff
           /\ \A r : RunSound(e, r) => RunSound(Failed(e), r)
<1>1. e \in DbType
    BY DEF StoreSound
<1>2. /\ Failed(e) \in DbType
      /\ Failed(e).start = e.start /\ Failed(e).cutoff = e.cutoff
      /\ Failed(e).target = e.target /\ Failed(e).events = e.events
      /\ Failed(e).coverage # "complete" /\ Failed(e).reorg = e.reorg
    BY <1>1 DEF Failed, DbType
<1>3. e.reorg = "detected" => e.cutoff # NoBlock /\ e.cutoff \in abandoned
    BY DEF StoreSound
<1> QED BY <1>2, <1>3, FlagsSound

(* A store that is opened stays sound, and is not complete.                *)
LEMMA OpenedSound ==
    ASSUME NEW e, StoreSound(e)
    PROVE  /\ Opened(e) \in DbType /\ StoreSound(Opened(e)) /\ ~Complete(Opened(e))
           /\ Opened(e).cutoff = e.cutoff
           /\ \A r : RunSound(e, r) => RunSound(Opened(e), r)
<1>1. e \in DbType
    BY DEF StoreSound
<1>2. /\ Opened(e) \in DbType
      /\ Opened(e).start = e.start /\ Opened(e).cutoff = e.cutoff
      /\ Opened(e).target = e.target /\ Opened(e).events = e.events
      /\ Opened(e).coverage # "complete"
      /\ Opened(e).reorg = "detected" => e.reorg = "detected"
    BY <1>1 DEF Opened, DbType
<1>3. e.reorg = "detected" => e.cutoff # NoBlock /\ e.cutoff \in abandoned
    BY DEF StoreSound
<1> QED BY <1>2, <1>3, FlagsSound

(* A start anchor is found.                                                *)
LEMMA StartSound ==
    ASSUME ActivityInv, NEW b \in Canonical(DeployBlock), db.start = NoBlock
    PROVE  /\ StoreSound([db EXCEPT !.start = b])
           /\ \A r : RunSound(db, r) => RunSound([db EXCEPT !.start = b], r)
<1> DEFINE d == [db EXCEPT !.start = b]
<1>1. db \in DbType /\ b \in Block /\ NoBlock \notin Block
    BY CanonicalIs, TreeAssumption DEF ActivityInv, StoreSound
<1>2. /\ d \in DbType
      /\ d.start = b /\ d.cutoff = db.cutoff /\ d.target = db.target /\ d.events = db.events
      /\ d.coverage = db.coverage /\ d.reorg = db.reorg
    BY <1>1 DEF DbType, Anchor
<1>3. db.coverage # "complete"
    <2> SUFFICES ASSUME db.coverage = "complete" PROVE FALSE
        OBVIOUS
    <2>1. db.cutoff \in Block /\ NoBlock \in Past[db.cutoff]
        BY KnownBlock DEF ActivityInv, StoreSound
    <2> QED BY <2>1, <1>1, PastOf
<1> HIDE DEF d
<1>4. StoreSound(d)
    BY <1>2, <1>3, CanonicalIs DEF ActivityInv, StoreSound
<1>5. NextBlock(d) = NextBlock(db) /\ PageEnd(d) = PageEnd(db)
    BY <1>2 DEF NextBlock, PageEnd
<1>6. ASSUME NEW r, RunSound(db, r) PROVE RunSound(d, r)
    <2>1. \A c : PageOf(d, c) = PageOf(db, c)
        BY <1>5 DEF PageOf
    <2>2. r.step \notin AtWork
        BY <1>6 DEF RunSound
    <2> QED BY <1>2, <1>5, <1>6, <2>1, <2>2 DEF RunSound, AtWork, Checking, Paging, Looked, Closing
<1> QED BY <1>4, <1>6 DEF d

-------------------------------------------------------------------------------
(* The worker writes the store and goes on.                                *)

(* What is complete then was so before, or is canonical now.               *)
Tells(d) ==
    Complete(d) => \/ Complete(db) /\ d.cutoff = db.cutoff
                   \/ d.cutoff \in Past[head]

(* A step of the worker that leaves a sound store and a sound run.         *)
LEMMA DoSound ==
    ASSUME ActivityInv, NEW d, NEW r, Do(d, r), StoreSound(d), RunSound(d, r), Tells(d)
    PROVE  ActivityInv'
<1>1. db' = d /\ run' = r /\ UNCHANGED <<head, abandoned, guard, failures, restarts>>
    BY DEF Do, chain
<1>2. StoreSound(db)'
    BY <1>1 DEF StoreSound, Known
<1>3. RunSound(db, run)'
    BY <1>1 DEF RunSound, Known, Below, Under
<1>4. ASSUME NEW q \in Query, guard[q].step = "trusted", Complete(d)
      PROVE  d.cutoff \notin guard[q].gone
    BY <1>4 DEF Tells, ActivityInv, GuardSound, ServedIsCanonical
<1>5. GuardSound'
    BY <1>1, <1>4 DEF ActivityInv, GuardSound, ServedIsCanonical
<1> QED BY <1>1, <1>2, <1>3, <1>5 DEF ActivityInv, ChainTypeOK

(* A worker at rest claims nothing.                                        *)
LEMMA IdleSound == \A d : RunSound(d, Idle) /\ RunSound(d, Stopped)
<1>1. \A d : RunSound(d, Idle)
    BY LimitsAssumption
       DEF RunSound, Idle, RunType, Anchor, AtWork, Checking, Paging, Looked, Closing
<1>2. Idle \in RunType
    BY LimitsAssumption DEF Idle, RunType, Anchor
<1>3. Stopped \in RunType /\ Stopped.step = "stopped"
    BY <1>2 DEF Stopped, RunType
<1>4. \A d : RunSound(d, Stopped)
    BY <1>3 DEF RunSound, AtWork, Checking, Paging, Looked, Closing
<1> QED BY <1>1, <1>4

(* A rebuild begins; there must be a reason.                               *)
LEMMA ReorgSound ==
    ASSUME ActivityInv, Reorg,
           db.cutoff # NoBlock => {db.start, db.cutoff, db.target} \cap abandoned # {}
    PROVE  ActivityInv' /\ Kept
<1>1. Tells(Reset(db))
    BY DEF Tells, Complete, Reset, NoDb
<1> QED BY <1>1, ResetSound, IdleSound, DoSound DEF Reorg, Kept

(* A run fails.                                                            *)
LEMMA FailSound ==
    ASSUME ActivityInv, Fail
    PROVE  ActivityInv' /\ Kept
<1>1. StoreSound(Failed(db)) /\ ~Complete(Failed(db)) /\ Failed(db).cutoff = db.cutoff
    BY FailedSound DEF ActivityInv
<1>2. ActivityInv'
    BY <1>1, IdleSound, DoSound DEF Fail, Tells
<1> QED BY <1>1, <1>2 DEF Fail, Do, Kept

(* The head of the loop.                                                   *)
LEMMA PageSound ==
    ASSUME ActivityInv, NEW d, NEW r, StoreSound(d), r \in RunType, Page(d, r), Tells(d),
           d.start # NoBlock, d.target # NoBlock, d.cutoff = NoBlock => db.cutoff = NoBlock
    PROVE  ActivityInv' /\ Kept
<1>0. d \in DbType /\ d.target \in Block /\ Height[d.target] \in Nat /\ DeployBlock \in Nat
      /\ (d.cutoff # NoBlock => d.cutoff \in Block /\ Height[d.cutoff] \in Nat)
    BY KnownBlock, LogAssumption DEF ActivityInv, StoreSound
<1>k. ASSUME NEW s, Do(d, s) PROVE Kept
    BY <1>k DEF Do, Kept
<1>1. CASE NextBlock(d) > Height[d.target] /\ Do(d, [r EXCEPT !.step = "count"])
    <2> DEFINE s == [r EXCEPT !.step = "count"]
    <2>1. s \in RunType /\ s.step = "count"
        BY DEF RunType
    <2>2. d.cutoff = d.target
        BY <1>1, <1>0 DEF NextBlock, StoreSound
    <2>3. RunSound(d, s)
        BY <2>1, <2>2 DEF RunSound, AtWork, Checking, Paging, Looked, Closing
    <2> QED BY <1>1, <2>3, <1>k, DoSound
<1>2. CASE /\ NextBlock(d) <= Height[d.target] /\ r.windows < IndexMaxLogWindows
           /\ Do(d, [r EXCEPT !.step = IF d.cutoff = NoBlock THEN "before" ELSE "pin"])
    <2> DEFINE s == [r EXCEPT !.step = IF d.cutoff = NoBlock THEN "before" ELSE "pin"]
    <2>1. s \in RunType /\ s.windows = r.windows
          /\ s.step = (IF d.cutoff = NoBlock THEN "before" ELSE "pin")
        BY DEF RunType
    <2>2. RunSound(d, s)
        BY <1>2, <2>1 DEF RunSound, AtWork, Checking, Paging, Looked, Closing
    <2> QED BY <1>2, <2>2, <1>k, DoSound
<1>3. CASE Do(d, Idle)
    BY <1>3, <1>k, IdleSound, DoSound
<1> QED BY <1>1, <1>2, <1>3 DEF Page

(* The checks before it.  The worker has read the head, and its store is   *)
(* the one it found, with the start anchor if it had none.                 *)
Ready(d, r) ==
    /\ StoreSound(d) /\ Tells(d) /\ RunSound(d, r)
    /\ d.start # NoBlock /\ d.cutoff = db.cutoff /\ d.target = db.target
    /\ r.step \in Checking

(* A run takes its target, once what is stored was looked at.              *)
LEMMA RetargetSound ==
    ASSUME ActivityInv, NEW d, NEW r, Ready(d, r), Retarget(d, r)
    PROVE  ActivityInv' /\ Kept
<1>1. r \in RunType /\ Known(r.head) /\ r.head # NoBlock /\ Height[r.head] >= DeployBlock
    BY DEF Ready, RunSound
<1>2. r.head \in Block /\ Height[r.head] \in Nat
    BY <1>1, KnownBlock DEF ActivityInv
<1>3. CASE TargetMoves(r, d)
    <2> DEFINE e == [Failed(d) EXCEPT !.target = r.head]
    <2>1. Page(e, r)
        BY <1>3 DEF Retarget
    <2>2. d \in DbType
        BY DEF Ready, StoreSound
    <2>3. /\ e \in DbType /\ e.start = d.start /\ e.cutoff = d.cutoff /\ e.target = r.head
          /\ e.events = d.events /\ e.reorg = d.reorg /\ e.coverage # "complete"
        BY <2>2, <1>2 DEF Failed, DbType, Anchor
    <2> HIDE DEF e
    <2>4. d.cutoff # NoBlock =>
              /\ Known(d.cutoff) /\ Height[d.cutoff] <= Height[r.head]
              /\ Height[d.cutoff] # Height[r.head]
        <3> SUFFICES ASSUME d.cutoff # NoBlock
                     PROVE  /\ Known(d.cutoff) /\ Height[d.cutoff] <= Height[r.head]
                            /\ Height[d.cutoff] # Height[r.head]
            OBVIOUS
        <3>1. /\ d.target # NoBlock /\ Known(d.target) /\ Known(d.cutoff)
              /\ Height[d.cutoff] <= Height[d.target]
            BY DEF Ready, StoreSound
        <3>2. Height[d.cutoff] \in Nat /\ Height[d.target] \in Nat
            BY <3>1, KnownBlock DEF ActivityInv
        <3> QED BY <1>2, <1>3, <3>1, <3>2 DEF TargetMoves
    <2>5. StoreSound(e)
        BY <1>1, <1>2, <2>3, <2>4 DEF Ready, StoreSound
    <2>6. Tells(e)
        BY <2>3 DEF Tells, Complete
    <2> QED BY <1>1, <2>1, <2>3, <2>5, <2>6, PageSound DEF Ready
<1>4. CASE ~TargetMoves(r, d)
    <2>1. Page(d, r) /\ d.target # NoBlock
        BY <1>4 DEF Retarget, TargetMoves
    <2> QED BY <1>1, <2>1, PageSound DEF Ready
<1> QED BY <1>3, <1>4

(* The stored target is looked at, or a new one taken.                     *)
LEMMA CheckTargetSound ==
    ASSUME ActivityInv, NEW d, NEW r, Ready(d, r), CheckTarget(d, r)
    PROVE  ActivityInv' /\ Kept
<1>1. CASE d.target = NoBlock
    BY <1>1, RetargetSound DEF CheckTarget
<1>2. CASE d.target # NoBlock /\ Shrunk(r, d.target)
    <2>1. db.target \in abandoned
        BY <1>2, ShrunkAbandoned DEF Ready, RunSound, Shrunk
    <2> QED BY <1>2, <2>1, ReorgSound DEF CheckTarget
<1>3. CASE d.target # NoBlock /\ ~Shrunk(r, d.target)
    <2> DEFINE s == [r EXCEPT !.step = "target"]
    <2>1. Do(d, s)
        BY <1>3 DEF CheckTarget
    <2>2. s \in RunType /\ s.step = "target" /\ s.head = r.head
        BY DEF Ready, RunSound, RunType
    <2> HIDE DEF s
    <2>3. RunSound(d, s)
        BY <1>3, <2>2 DEF Ready, RunSound, AtWork, Checking, Paging, Looked, Closing
    <2>4. Kept
        BY <2>1 DEF Do, Kept, Ready
    <2> QED BY <2>1, <2>3, <2>4, DoSound DEF Ready
<1> QED BY <1>1, <1>2, <1>3

(* The stored checkpoint is looked at first.                               *)
LEMMA CheckCutoffSound ==
    ASSUME ActivityInv, NEW d, NEW r, Ready(d, r), CheckCutoff(d, r)
    PROVE  ActivityInv' /\ Kept
<1>1. CASE d.cutoff = NoBlock
    BY <1>1, CheckTargetSound DEF CheckCutoff
<1>2. CASE d.cutoff # NoBlock /\ Shrunk(r, d.cutoff)
    <2>1. db.cutoff \in abandoned
        BY <1>2, ShrunkAbandoned DEF Ready, RunSound, Shrunk
    <2> QED BY <1>2, <2>1, ReorgSound DEF CheckCutoff
<1>3. CASE d.cutoff # NoBlock /\ ~Shrunk(r, d.cutoff)
    <2> DEFINE s == [r EXCEPT !.step = "cutoff"]
    <2>1. Do(d, s)
        BY <1>3 DEF CheckCutoff
    <2>2. s \in RunType /\ s.step = "cutoff" /\ s.head = r.head
        BY DEF Ready, RunSound, RunType
    <2> HIDE DEF s
    <2>3. RunSound(d, s)
        BY <1>3, <2>2 DEF Ready, RunSound, AtWork, Checking, Paging, Looked, Closing
    <2>4. Kept
        BY <2>1 DEF Do, Kept, Ready
    <2> QED BY <2>1, <2>3, <2>4, DoSound DEF Ready
<1> QED BY <1>1, <1>2, <1>3

-------------------------------------------------------------------------------
(* The worker's steps up to the loop.                                      *)

LEMMA PollSound == ActivityInv /\ Poll => ActivityInv' /\ Kept
<1> SUFFICES ASSUME ActivityInv, Poll PROVE ActivityInv' /\ Kept
    OBVIOUS
<1> DEFINE s == [Idle EXCEPT !.step = "chain", !.complete = db.coverage = "complete",
                             !.detected = db.reorg = "detected"]
<1>1. Idle \in RunType
    BY IdleSound DEF RunSound
<1>2. s \in RunType /\ s.step = "chain" /\ (s.detected => db.reorg = "detected")
    BY <1>1 DEF RunType, Idle
<1>3. Do(db, s)
    BY DEF Poll
<1> HIDE DEF s
<1>4. RunSound(db, s)
    BY <1>2 DEF ActivityInv, StoreSound, RunSound, AtWork, Checking, Paging, Looked, Closing
<1> QED BY <1>3, <1>4, DoSound DEF ActivityInv, Tells, Do, Kept

(* A run begins, with an empty store if a reorg was detected.              *)
LEMMA BeginSound == ActivityInv /\ Begin => ActivityInv' /\ Kept
<1> SUFFICES ASSUME ActivityInv, Begin PROVE ActivityInv' /\ Kept
    OBVIOUS
<1>0. run \in RunType /\ run.step = "chain"
    BY DEF ActivityInv, RunSound, Begin
<1>1. CASE run.detected
    <2> DEFINE s == [run EXCEPT !.step = "head", !.complete = FALSE]
    <2>1. Do(Reset(db), s) /\ s \in RunType /\ s.step = "head"
        BY <1>0, <1>1 DEF Begin, RunType
    <2> HIDE DEF s
    <2>2. RunSound(Reset(db), s)
        BY <2>1 DEF RunSound, AtWork, Checking, Paging, Looked, Closing
    <2>3. Tells(Reset(db))
        BY DEF Tells, Complete, Reset, NoDb
    <2>4. Kept
        BY <1>0, <1>1 DEF ActivityInv, RunSound, Kept
    <2> QED BY <2>1, <2>2, <2>3, <2>4, ResetSound, DoSound
<1>2. CASE ~run.detected
    <2> DEFINE s == [run EXCEPT !.step = "head"]
    <2>1. Do(db, s) /\ s \in RunType /\ s.step = "head"
        BY <1>0, <1>2 DEF Begin, Goto, RunType
    <2> HIDE DEF s
    <2>2. RunSound(db, s)
        BY <2>1 DEF RunSound, AtWork, Checking, Paging, Looked, Closing
    <2> QED BY <2>1, <2>2, DoSound DEF ActivityInv, Tells, Do, Kept
<1> QED BY <1>1, <1>2

(* The head is read.                                                       *)
LEMMA HeadSound == ActivityInv /\ Head => ActivityInv' /\ Kept
<1> SUFFICES ASSUME ActivityInv, Head PROVE ActivityInv' /\ Kept
    OBVIOUS
<1>1. CASE Height[head] < DeployBlock
    BY <1>1, FailSound DEF Head
<1>2. CASE ~(Height[head] < DeployBlock)
    <2> DEFINE s == [run EXCEPT !.step = "start", !.head = head]
    <2>1. head \in Block /\ head \in Past[head] /\ Height[head] \in Nat /\ head # NoBlock
        BY TreeAssumption DEF ActivityInv, ChainTypeOK
    <2>2. Do(db, s) /\ s \in RunType /\ s.step = "start" /\ s.head = head
        BY <1>2, <2>1 DEF Head, RunType, ActivityInv, RunSound, Anchor
    <2> HIDE DEF s
    <2>3. Height[head] >= DeployBlock /\ Known(head)
        BY <1>2, <2>1, LogAssumption DEF Known
    <2>4. \A b : Known(b) => Below(b, head)
        BY DEF Known, Below
    <2>5. RunSound(db, s)
        BY <2>1, <2>2, <2>3, <2>4
           DEF ActivityInv, StoreSound, RunSound, AtWork, Checking, Paging, Looked, Closing
    <2> QED BY <2>2, <2>5, DoSound DEF ActivityInv, Tells, Do, Kept
<1> QED BY <1>1, <1>2

(* The first block is read, and noted or compared with the one noted.      *)
LEMMA StartStepSound == ActivityInv /\ Start => ActivityInv' /\ Kept
<1> SUFFICES ASSUME ActivityInv, NEW b \in Canonical(DeployBlock), run.step = "start",
                    IF db.start = NoBlock THEN CheckCutoff([db EXCEPT !.start = b], run)
                    ELSE IF Pinned(b, db.start) THEN CheckCutoff(db, run)
                    ELSE Reorg
             PROVE  ActivityInv' /\ Kept
    BY DEF Start
<1>0. run.step \in Checking
    BY DEF Checking
<1>1. CASE db.start = NoBlock
    <2> DEFINE d == [db EXCEPT !.start = b]
    <2>1. d.start = b /\ d.cutoff = db.cutoff /\ d.target = db.target
          /\ d.coverage = db.coverage /\ d.reorg = db.reorg
        BY DEF ActivityInv, StoreSound, DbType
    <2>2. StoreSound(d) /\ RunSound(d, run)
        BY <1>1, StartSound DEF ActivityInv
    <2>3. CheckCutoff(d, run)
        BY <1>1
    <2> HIDE DEF d
    <2>4. Ready(d, run)
        BY <1>0, <2>1, <2>2, CanonicalIs DEF Ready, Tells, Complete
    <2> QED BY <2>3, <2>4, CheckCutoffSound
<1>2. CASE db.start # NoBlock /\ Pinned(b, db.start)
    <2>1. Ready(db, run)
        BY <1>0, <1>2 DEF Ready, Tells, ActivityInv
    <2> QED BY <1>2, <2>1, CheckCutoffSound
<1>3. CASE db.start # NoBlock /\ ~Pinned(b, db.start)
    <2>1. db.start \in abandoned
        BY <1>3, Replaced DEF Pinned, ActivityInv, StoreSound
    <2> QED BY <1>3, <2>1, ReorgSound
<1> QED BY <1>1, <1>2, <1>3

(* The checkpoint is compared with the block under its number.             *)
LEMMA CutoffSound == ActivityInv /\ Cutoff => ActivityInv' /\ Kept
<1> SUFFICES ASSUME ActivityInv, NEW b \in Canonical(Height[db.cutoff]), run.step = "cutoff",
                    IF Pinned(b, db.cutoff) THEN CheckTarget(db, run) ELSE Reorg
             PROVE  ActivityInv' /\ Kept
    BY DEF Cutoff
<1>1. Ready(db, run) /\ db.cutoff # NoBlock
    BY DEF ActivityInv, RunSound, Ready, Tells, Checking, AtWork
<1>2. CASE Pinned(b, db.cutoff)
    BY <1>1, <1>2, CheckTargetSound
<1>3. CASE ~Pinned(b, db.cutoff)
    <2>1. db.cutoff \in abandoned
        BY <1>1, <1>3, Replaced DEF Pinned, ActivityInv, StoreSound
    <2> QED BY <1>3, <2>1, ReorgSound
<1> QED BY <1>2, <1>3

(* The target is compared with the block under its number.                 *)
LEMMA TargetSound == ActivityInv /\ Target => ActivityInv' /\ Kept
<1> SUFFICES ASSUME ActivityInv, NEW b \in Canonical(Height[db.target]), run.step = "target",
                    IF Pinned(b, db.target) THEN Retarget(db, run) ELSE Reorg
             PROVE  ActivityInv' /\ Kept
    BY DEF Target
<1>1. Ready(db, run) /\ db.target # NoBlock
    BY DEF ActivityInv, RunSound, Ready, Tells, Checking, AtWork
<1>2. CASE Pinned(b, db.target)
    BY <1>1, <1>2, RetargetSound
<1>3. CASE ~Pinned(b, db.target)
    <2>1. db.target \in abandoned
        BY <1>1, <1>3, Replaced DEF Pinned, ActivityInv, StoreSound
    <2> QED BY <1>3, <2>1, ReorgSound
<1> QED BY <1>2, <1>3

-------------------------------------------------------------------------------
(* The pages.                                                              *)

LEMMA GotoSound ==
    ASSUME ActivityInv, NEW s, Do(db, s), RunSound(db, s)
    PROVE  ActivityInv' /\ Kept
    BY DoSound DEF ActivityInv, Tells, Do, Kept

(* What holds between two reads of a page.                                 *)
LEMMA PageFacts ==
    ASSUME ActivityInv, run.step \in Paging
    PROVE  /\ db.target \in Block /\ Known(db.target) /\ Height[db.target] \in Nat
           /\ NextBlock(db) \in Nat /\ PageEnd(db) \in Nat
           /\ NextBlock(db) <= PageEnd(db) /\ PageEnd(db) <= Height[db.target]
           /\ db.cutoff # NoBlock => /\ Known(db.cutoff) /\ db.cutoff \in Block
                                     /\ Height[db.cutoff] \in Nat
                                     /\ NextBlock(db) = Height[db.cutoff] + 1
<1>1. db.target # NoBlock /\ NextBlock(db) <= Height[db.target]
    BY DEF ActivityInv, RunSound
<1>2. db.target \in Block /\ Known(db.target) /\ Height[db.target] \in Nat
    BY <1>1, KnownBlock DEF ActivityInv, StoreSound
<1>3. db.cutoff # NoBlock => Known(db.cutoff) /\ db.cutoff \in Block /\ Height[db.cutoff] \in Nat
    BY KnownBlock DEF ActivityInv, StoreSound
<1>4. NextBlock(db) \in Nat
    BY <1>3, LogAssumption DEF NextBlock
<1>5. LogWindow \in Nat /\ LogWindow >= 1
    BY LimitsAssumption
<1> DEFINE far == NextBlock(db) + LogWindow - 1
           end == Height[db.target]
<1>6. far \in Nat /\ NextBlock(db) <= far
    BY <1>4, <1>5
<1>7. PageEnd(db) = IF far <= end THEN far ELSE end
    <2>1. PageEnd(db) = Min({far, end})
        BY DEF PageEnd
    <2> HIDE DEF far, end
    <2>2. far \in Nat /\ end \in Nat
        BY <1>2, <1>6 DEF end
    <2>3. \E x \in {far, end} : \A y \in {far, end} : x <= y
        BY <2>2
    <2>4. Min({far, end}) \in {far, end} /\ \A y \in {far, end} : Min({far, end}) <= y
        BY <2>3 DEF Min
    <2> QED BY <2>1, <2>2, <2>4
<1> QED BY <1>1, <1>2, <1>3, <1>4, <1>6, <1>7 DEF NextBlock

(* The checkpoint is compared again before a page.                         *)
LEMMA PinSound == ActivityInv /\ Pin => ActivityInv' /\ Kept
<1> SUFFICES ASSUME ActivityInv, NEW b \in Canonical(Height[db.cutoff]), run.step = "pin",
                    IF Pinned(b, db.cutoff) THEN Goto("before") ELSE Reorg
             PROVE  ActivityInv' /\ Kept
    BY DEF Pin
<1>1. CASE Pinned(b, db.cutoff)
    <2> DEFINE s == [run EXCEPT !.step = "before"]
    <2>1. Do(db, s) /\ s \in RunType /\ s.step = "before" /\ s.windows = run.windows
        BY <1>1 DEF ActivityInv, RunSound, RunType, Goto
    <2> HIDE DEF s
    <2>2. RunSound(db, s)
        BY <2>1 DEF ActivityInv, RunSound, AtWork, Checking, Paging, Looked, Closing
    <2> QED BY <2>1, <2>2, GotoSound
<1>2. CASE ~Pinned(b, db.cutoff)
    <2>1. db.cutoff \in abandoned
        BY <1>2, Replaced DEF Pinned, ActivityInv, RunSound, StoreSound
    <2> QED BY <1>2, <2>1, ReorgSound
<1> QED BY <1>1, <1>2

(* The last block of the page is noted before the logs are read.           *)
LEMMA BeforeSound == ActivityInv /\ Before => ActivityInv' /\ Kept
<1> SUFFICES ASSUME ActivityInv, NEW b \in Canonical(PageEnd(db)), run.step = "before",
                    Do(db, [run EXCEPT !.step = "logs", !.before = b])
             PROVE  ActivityInv' /\ Kept
    BY DEF Before
<1> DEFINE s == [run EXCEPT !.step = "logs", !.before = b]
<1>0. run.step \in Paging
    BY DEF Paging
<1>1. b \in Block /\ b # NoBlock /\ Known(b) /\ Height[b] = PageEnd(db) /\ b \in Past[head]
    BY CanonicalIs
<1>2. Under(b, db.target)
    BY <1>0, <1>1, PageFacts, UnderCanonical
<1>3. Do(db, s) /\ s \in RunType /\ s.step = "logs" /\ s.before = b /\ s.windows = run.windows
    BY <1>1 DEF ActivityInv, RunSound, RunType, Anchor
<1> HIDE DEF s
<1>4. RunSound(db, s)
    BY <1>1, <1>2, <1>3 DEF ActivityInv, RunSound, AtWork, Checking, Paging, Looked, Closing
<1> QED BY <1>3, <1>4, GotoSound

(* The logs are those of the page that ends in the block looked at, or     *)
(* that block has been abandoned since.                                    *)
LEMMA GetLogsSound == ActivityInv /\ GetLogs => ActivityInv' /\ Kept
<1> SUFFICES ASSUME ActivityInv, GetLogs PROVE ActivityInv' /\ Kept
    OBVIOUS
<1> DEFINE blocks  == {b \in Past[head] : Height[b] \in NextBlock(db) .. PageEnd(db)}
           page    == Logs(blocks)
           headers == {l[2] : l \in page}
           next    == IF headers = {} THEN "after" ELSE "headers"
           s       == [run EXCEPT !.step = next, !.page = page, !.headers = headers]
<1>0. run.step = "logs" /\ run.step \in Paging /\ run.step \in Looked
    BY DEF GetLogs, Paging, Looked
<1>1. /\ head \in Block /\ run.before \in Block /\ Known(run.before)
      /\ Height[run.before] = PageEnd(db)
    BY <1>0, KnownBlock DEF ActivityInv, ChainTypeOK, RunSound
<1>2. blocks \subseteq Block
    BY <1>1, PastOf
<1>3. page \subseteq Event \X Block
    BY <1>2, LogsInType
<1>4. \A c \in headers : c \in blocks
    BY DEF Logs
<1>5. \A c \in headers : Under(c, db.target)
    BY <1>0, <1>1, <1>4, PageFacts, PastOf, UnderCanonical
<1>6. run.before \in abandoned \/ page = PageOf(db, run.before)
    <2> SUFFICES ASSUME run.before \in Past[head] PROVE page = PageOf(db, run.before)
        BY <1>1 DEF Known
    <2>1. blocks = {c \in Past[run.before] : Height[c] >= NextBlock(db)}
        BY <1>0, <1>1, PageFacts, PastOf
    <2> QED BY <2>1 DEF PageOf
<1>7. CASE Cardinality(page) > 10 * IndexMaxDemands
    BY <1>7, FailSound DEF GetLogs
<1>8. CASE ~(Cardinality(page) > 10 * IndexMaxDemands)
    <2>1. Do(db, s)
        BY <1>8 DEF GetLogs
    <2>2. headers \subseteq Block
        BY <1>2, <1>4
    <2> HIDE DEF page, headers
    <2>3. /\ s \in RunType /\ s.step \in {"after", "headers"} /\ s.page = page
          /\ s.headers = headers /\ s.before = run.before /\ s.windows = run.windows
        BY <1>3, <2>2 DEF ActivityInv, RunSound, RunType
    <2> HIDE DEF s
    <2>4. RunSound(db, s)
        BY <1>0, <1>5, <1>6, <2>3
           DEF ActivityInv, RunSound, AtWork, Checking, Paging, Looked, Closing
    <2> QED BY <2>1, <2>4, GotoSound
<1> QED BY <1>7, <1>8

(* The block of each log is compared with the one under its number.        *)
LEMMA HeadersSound == ActivityInv /\ Headers => ActivityInv' /\ Kept
<1> SUFFICES ASSUME ActivityInv, run.step = "headers",
                    NEW c \in run.headers, NEW b \in Canonical(Height[c]),
                    IF b # c THEN Reorg
                    ELSE Do(db, [run EXCEPT !.headers = @ \ {c},
                                            !.step = IF run.headers = {c} THEN "after" ELSE "headers"])
             PROVE  ActivityInv' /\ Kept
    BY DEF Headers
<1>1. CASE b # c
    <2>1. c \in Block /\ Known(db.target) /\ Under(c, db.target)
        BY PageFacts DEF ActivityInv, RunSound, RunType, Paging
    <2>2. c \notin Past[head]
        BY <1>1, CanonicalIs, OneAtEach DEF ActivityInv, ChainTypeOK
    <2>3. db.target \in abandoned
        BY <2>1, <2>2, UnderAbandoned
    <2> QED BY <1>1, <2>3, ReorgSound
<1>2. CASE b = c
    <2> DEFINE s == [run EXCEPT !.headers = @ \ {c},
                                !.step = IF run.headers = {c} THEN "after" ELSE "headers"]
    <2>1. /\ Do(db, s) /\ s \in RunType /\ s.step \in {"after", "headers"}
          /\ s.headers \subseteq run.headers
          /\ s.page = run.page /\ s.before = run.before /\ s.windows = run.windows
        BY <1>2 DEF ActivityInv, RunSound, RunType
    <2> HIDE DEF s
    <2>2. RunSound(db, s)
        BY <2>1 DEF ActivityInv, RunSound, AtWork, Checking, Paging, Looked, Closing
    <2> QED BY <2>1, <2>2, GotoSound
<1> QED BY <1>1, <1>2

(* A page is written: the checkpoint moves to its last block.              *)
LEMMA CommitSound ==
    ASSUME ActivityInv, run.step \in Paging, NEW end \in Block,
           Known(end), end # NoBlock, Height[end] = PageEnd(db), run.page = PageOf(db, end),
           db.cutoff # NoBlock => db.cutoff \in Past[end],
           AtTarget(end), Commit(end)
    PROVE  ActivityInv' /\ Kept
<1>0. /\ db \in DbType /\ db.start # NoBlock /\ db.target # NoBlock
      /\ run \in RunType /\ run.windows < IndexMaxLogWindows
      /\ db.events = IF db.cutoff = NoBlock THEN {} ELSE Logs(Past[db.cutoff])
    BY DEF ActivityInv, StoreSound, RunSound, AtWork, Paging
<1>1. db.events \cup run.page = Logs(Past[end]) /\ ~Conflict(db, run.page)
    BY <1>0, PageCompletes
<1>2. CASE db.reorg = "detected"
    BY <1>2, ReorgSound DEF Commit, ActivityInv, StoreSound
<1>3. CASE db.reorg # "detected" /\ Cardinality(db.events \cup run.page) > MaxEvents
    BY <1>1, <1>3, FailSound DEF Commit
<1>4. CASE db.reorg # "detected" /\ ~(Cardinality(db.events \cup run.page) > MaxEvents)
    <2> DEFINE d == [db EXCEPT !.cutoff = end, !.events = @ \cup run.page, !.coverage = "partial"]
               r == [run EXCEPT !.windows = @ + 1, !.before = NoBlock, !.page = {}]
    <2>1. Page(d, r)
        BY <1>1, <1>4 DEF Commit
    <2>2. Logs(Past[end]) \subseteq Event \X Block
        BY LogsInType, TreeAssumption
    <2>3. r \in RunType
        <3>1. run.windows + 1 \in 0 .. IndexMaxLogWindows
            BY <1>0, LimitsAssumption DEF RunType
        <3> QED BY <1>0, <3>1 DEF RunType, Anchor
    <2>4. /\ d \in DbType /\ d.start = db.start /\ d.target = db.target /\ d.cutoff = end
          /\ d.events = Logs(Past[end]) /\ d.coverage = "partial" /\ d.reorg = db.reorg
        BY <1>0, <1>1, <2>2 DEF DbType, Anchor
    <2> HIDE DEF d, r
    <2>5. Height[end] <= Height[db.target] /\ (Height[end] = Height[db.target] => end = db.target)
        BY PageFacts DEF AtTarget, Pinned
    <2>6. StoreSound(d)
        BY <1>0, <1>4, <2>4, <2>5 DEF ActivityInv, StoreSound
    <2>7. Tells(d)
        BY <2>4 DEF Tells, Complete
    <2> QED BY <1>0, <2>1, <2>3, <2>4, <2>6, <2>7, PageSound
<1> QED BY <1>2, <1>3, <1>4

(* The last block of the page is compared after the logs were read.        *)
LEMMA AfterSound == ActivityInv /\ After => ActivityInv' /\ Kept
<1> SUFFICES ASSUME ActivityInv, NEW b \in Canonical(PageEnd(db)), run.step = "after",
                    IF ~SamePage(b) THEN Reorg
                    ELSE IF db.cutoff # NoBlock
                    THEN Do(db, [run EXCEPT !.step = "repin", !.before = b])
                    ELSE IF AtTarget(b) THEN Commit(b)
                    ELSE Reorg
             PROVE  ActivityInv' /\ Kept
    BY DEF After
<1>0. run.step \in Paging /\ run.step \in Looked
    BY DEF Paging, Looked
<1>1. b \in Block /\ b # NoBlock /\ Known(b) /\ Height[b] = PageEnd(db) /\ b \in Past[head]
      /\ b \notin abandoned
    BY CanonicalIs
<1>2. /\ Known(run.before) /\ Height[run.before] = PageEnd(db) /\ Under(run.before, db.target)
      /\ run.before \in abandoned \/ run.page = PageOf(db, run.before)
    BY <1>0 DEF ActivityInv, RunSound
<1>3. CASE ~SamePage(b)
    <2>1. run.before \notin Past[head]
        BY <1>1, <1>2, <1>3, OneAtEach DEF SamePage, Pinned, ActivityInv, ChainTypeOK
    <2>2. db.target \in abandoned
        BY <1>0, <1>2, <2>1, PageFacts, UnderAbandoned
    <2> QED BY <1>3, <2>2, ReorgSound
<1>4. CASE SamePage(b) /\ db.cutoff # NoBlock
    <2> DEFINE s == [run EXCEPT !.step = "repin", !.before = b]
    <2>1. b = run.before /\ run.page = PageOf(db, b)
        BY <1>1, <1>2, <1>4 DEF SamePage, Pinned
    <2>2. Below(db.cutoff, b)
        BY <1>0, <1>1, <1>4, PageFacts, BelowCanonical
    <2>3. /\ Do(db, s) /\ s \in RunType /\ s.step = "repin" /\ s.before = b
          /\ s.page = run.page /\ s.windows = run.windows
        BY <1>1, <1>4 DEF ActivityInv, RunSound, RunType, Anchor
    <2> HIDE DEF s
    <2>4. RunSound(db, s)
        BY <1>0, <1>1, <1>2, <1>4, <2>1, <2>2, <2>3
           DEF ActivityInv, RunSound, AtWork, Checking, Paging, Looked, Closing
    <2> QED BY <2>3, <2>4, GotoSound
<1>5. CASE SamePage(b) /\ db.cutoff = NoBlock /\ AtTarget(b)
    <2>1. run.page = PageOf(db, b)
        BY <1>1, <1>2, <1>5 DEF SamePage, Pinned
    <2> QED BY <1>0, <1>1, <1>5, <2>1, CommitSound
<1>6. CASE SamePage(b) /\ db.cutoff = NoBlock /\ ~AtTarget(b)
    BY <1>6, ReorgSound
<1> QED BY <1>3, <1>4, <1>5, <1>6

(* The checkpoint is compared after a page, and the page committed.        *)
LEMMA RepinSound == ActivityInv /\ Repin => ActivityInv' /\ Kept
<1> SUFFICES ASSUME ActivityInv, NEW b \in Canonical(Height[db.cutoff]), run.step = "repin",
                    IF Pinned(b, db.cutoff) /\ AtTarget(run.before)
                    THEN Commit(run.before) ELSE Reorg
             PROVE  ActivityInv' /\ Kept
    BY DEF Repin
<1>0. run.step \in Paging /\ run.step \in Looked
    BY DEF Paging, Looked
<1>1. /\ run.before # NoBlock /\ Known(run.before) /\ Height[run.before] = PageEnd(db)
      /\ Under(run.before, db.target) /\ Below(db.cutoff, run.before)
      /\ run.page = PageOf(db, run.before) /\ db.cutoff # NoBlock
    BY <1>0 DEF ActivityInv, RunSound
<1>2. run.before \in Block
    BY <1>1, KnownBlock DEF ActivityInv
<1>3. CASE ~Pinned(b, db.cutoff)
    <2>1. db.cutoff \in abandoned
        BY <1>1, <1>3, Replaced DEF Pinned, ActivityInv, StoreSound
    <2> QED BY <1>3, <2>1, ReorgSound
<1>4. CASE ~AtTarget(run.before)
    <2>1. Height[run.before] = Height[db.target] /\ run.before # db.target
        BY <1>4 DEF AtTarget, Pinned
    <2>2. db.target \in Block /\ db.target \in Past[db.target]
        BY <1>0, PageFacts, TreeAssumption
    <2>3. db.target \in abandoned
        BY <1>1, <2>1, <2>2, OneAtEach DEF Under
    <2> QED BY <1>4, <2>3, ReorgSound
<1>5. CASE Pinned(b, db.cutoff) /\ AtTarget(run.before)
    <2>1. db.cutoff \in Past[run.before]
        BY <1>1, <1>5, CanonicalIs DEF Pinned, Below
    <2> QED BY <1>0, <1>1, <1>2, <1>5, <2>1, CommitSound
<1> QED BY <1>3, <1>4, <1>5

-------------------------------------------------------------------------------
(* At the target.                                                          *)

LEMMA ClosingFacts ==
    ASSUME ActivityInv, run.step \in Closing
    PROVE  /\ db.start # NoBlock /\ Known(db.start) /\ Height[db.start] = DeployBlock
           /\ db.target # NoBlock /\ Known(db.target) /\ Height[db.target] >= DeployBlock
           /\ db.cutoff = db.target
           /\ db.target \in Block
    BY KnownBlock DEF ActivityInv, StoreSound, RunSound, AtWork, Closing

(* The demands are counted at the target.                                  *)
LEMMA CountSound == ActivityInv /\ Count => ActivityInv' /\ Kept
<1> SUFFICES ASSUME ActivityInv, run.step = "count", Goto("startpin") \/ Fail
             PROVE  ActivityInv' /\ Kept
    BY DEF Count
<1>1. CASE Goto("startpin")
    <2> DEFINE s == [run EXCEPT !.step = "startpin"]
    <2>1. Do(db, s) /\ s \in RunType /\ s.step = "startpin"
        BY <1>1 DEF ActivityInv, RunSound, RunType, Goto
    <2> HIDE DEF s
    <2>2. RunSound(db, s)
        BY <2>1 DEF ActivityInv, RunSound, AtWork, Checking, Paging, Looked, Closing
    <2> QED BY <2>1, <2>2, GotoSound
<1> QED BY <1>1, FailSound

(* The first block is compared a last time.                                *)
LEMMA StartPinSound == ActivityInv /\ StartPin => ActivityInv' /\ Kept
<1> SUFFICES ASSUME ActivityInv, NEW b \in Canonical(Height[db.start]), run.step = "startpin",
                    IF Pinned(b, db.start) THEN Goto("targetpin") ELSE Reorg
             PROVE  ActivityInv' /\ Kept
    BY DEF StartPin
<1>0. run.step \in Closing
    BY DEF Closing
<1>1. CASE Pinned(b, db.start)
    <2> DEFINE s == [run EXCEPT !.step = "targetpin"]
    <2>1. Do(db, s) /\ s \in RunType /\ s.step = "targetpin"
        BY <1>1 DEF ActivityInv, RunSound, RunType, Goto
    <2> HIDE DEF s
    <2>2. db.start \in Past[head] /\ Height[db.start] <= Height[db.target]
        BY <1>0, <1>1, ClosingFacts, CanonicalIs DEF Pinned
    <2>3. Under(db.start, db.target)
        BY <1>0, <2>2, ClosingFacts, UnderCanonical
    <2>4. RunSound(db, s)
        BY <2>1, <2>3 DEF ActivityInv, RunSound, AtWork, Checking, Paging, Looked, Closing
    <2> QED BY <2>1, <2>4, GotoSound
<1>2. CASE ~Pinned(b, db.start)
    <2>1. db.start \in abandoned
        BY <1>0, <1>2, ClosingFacts, Replaced DEF Pinned
    <2> QED BY <1>2, <2>1, ReorgSound
<1> QED BY <1>1, <1>2

(* The target is compared a last time, and the store is complete.          *)
LEMMA TargetPinSound == ActivityInv /\ TargetPin => ActivityInv' /\ Kept
<1> SUFFICES ASSUME ActivityInv, NEW b \in Canonical(Height[db.target]), run.step = "targetpin",
                    IF Pinned(b, db.target) /\ db.reorg # "detected"
                    THEN Do([db EXCEPT !.coverage = "complete", !.reorg = "clear"], Idle)
                    ELSE Reorg
             PROVE  ActivityInv' /\ Kept
    BY DEF TargetPin
<1>0. run.step \in Closing
    BY DEF Closing
<1>1. CASE ~Pinned(b, db.target)
    <2>1. db.target \in abandoned
        BY <1>0, <1>1, ClosingFacts, Replaced DEF Pinned
    <2> QED BY <1>1, <2>1, ReorgSound
<1>2. CASE db.reorg = "detected"
    BY <1>2, ReorgSound DEF ActivityInv, StoreSound
<1>3. CASE Pinned(b, db.target) /\ db.reorg # "detected"
    <2> DEFINE d == [db EXCEPT !.coverage = "complete", !.reorg = "clear"]
    <2>1. Do(d, Idle)
        BY <1>3
    <2>2. db.target \in Past[head] /\ db.target \notin abandoned
        BY <1>3, CanonicalIs DEF Pinned
    <2>3. db.start \in Past[db.target]
        BY <2>2 DEF ActivityInv, RunSound, Under
    <2>4. /\ d \in DbType /\ d.start = db.start /\ d.target = db.target /\ d.cutoff = db.cutoff
          /\ d.events = db.events /\ d.reorg = "clear"
        BY DEF ActivityInv, StoreSound, DbType
    <2> HIDE DEF d
    <2>5. StoreSound(d)
        BY <1>0, <2>3, <2>4, ClosingFacts DEF ActivityInv, StoreSound
    <2>6. Tells(d) /\ d.cutoff # NoBlock
        BY <1>0, <2>2, <2>4, ClosingFacts DEF Tells
    <2>7. ActivityInv'
        BY <2>1, <2>5, <2>6, IdleSound, DoSound
    <2> QED BY <2>1, <2>6, <2>7 DEF Do, Kept
<1> QED BY <1>1, <1>2, <1>3

-------------------------------------------------------------------------------
(* Everyone else.                                                          *)

(* Only flags of the store change, to say less than before.                *)
LEMMA AsideSound ==
    ASSUME ActivityInv, NEW d, NEW r, db' = d, run' = r,
           StoreSound(d), RunSound(d, r), ~Complete(d), d.cutoff = db.cutoff,
           UNCHANGED chain,
           guard' \in [Query -> GuardType],
           \A q \in Query : guard'[q].step # "idle" => guard'[q].gone \subseteq abandoned,
           failures' \in 0 .. MaxFailures, restarts' \in 0 .. MaxRestarts
    PROVE  ActivityInv' /\ Kept
<1>1. UNCHANGED <<head, abandoned>>
    BY DEF chain
<1>2. StoreSound(db)'
    BY <1>1 DEF StoreSound, Known
<1>3. RunSound(db, run)'
    BY <1>1 DEF RunSound, Known, Below, Under
<1>4. GuardSound'
    BY <1>1 DEF GuardSound, ServedIsCanonical
<1> QED BY <1>1, <1>2, <1>3, <1>4 DEF ActivityInv, ChainTypeOK, Kept

(* A call fails or time is up.                                             *)
LEMMA AbortSound == ActivityInv /\ Abort => ActivityInv' /\ Kept
<1> SUFFICES ASSUME ActivityInv, Abort PROVE ActivityInv' /\ Kept
    OBVIOUS
<1>1. StoreSound(Failed(db)) /\ ~Complete(Failed(db)) /\ Failed(db).cutoff = db.cutoff
    BY FailedSound DEF ActivityInv
<1>2. failures' \in 0 .. MaxFailures /\ restarts' \in 0 .. MaxRestarts
    BY LimitsAssumption DEF Abort, ActivityInv
<1> QED BY <1>1, <1>2, IdleSound, AsideSound DEF Abort, ActivityInv, GuardSound

(* The scheduler stops and leaves the store as it is.                      *)
LEMMA StoreThrowsSound == ActivityInv /\ StoreThrows => ActivityInv' /\ Kept
<1> SUFFICES ASSUME ActivityInv, StoreThrows PROVE ActivityInv' /\ Kept
    OBVIOUS
<1>1. UNCHANGED <<head, abandoned, db, guard, restarts>> /\ run' = Stopped
    BY DEF StoreThrows, chain
<1>2. failures' \in 0 .. MaxFailures
    BY LimitsAssumption DEF StoreThrows, ActivityInv
<1>3. StoreSound(db)'
    BY <1>1 DEF ActivityInv, StoreSound, Known
<1>4. RunSound(db, run)'
    BY <1>1, IdleSound DEF RunSound, Known, Below, Under
<1>5. GuardSound'
    BY <1>1 DEF ActivityInv, GuardSound, ServedIsCanonical
<1> QED BY <1>1, <1>2, <1>3, <1>4, <1>5 DEF ActivityInv, ChainTypeOK, Kept

(* A step of the guards alone keeps what is said of store and run.         *)
LEMMA GuardAlone ==
    ASSUME ActivityInv, UNCHANGED <<chain, db, run, failures, restarts>>, GuardSound'
    PROVE  ActivityInv' /\ Kept
<1>1. UNCHANGED <<head, abandoned, db, run, failures, restarts>>
    BY DEF chain
<1>2. StoreSound(db)' /\ RunSound(db, run)'
    BY <1>1 DEF ActivityInv, StoreSound, RunSound, Known, Below, Under
<1> QED BY <1>1, <1>2 DEF ActivityInv, ChainTypeOK, Kept

(* A guard at rest is a guard.                                             *)
LEMMA NoGuardType == NoGuard \in GuardType
    BY DEF NoGuard, GuardType, Anchor

(* A paid request reads the state.                                         *)
LEMMA AskSound ==
    ASSUME ActivityInv, NEW q \in Query, Ask(q)
    PROVE  ActivityInv' /\ Kept
<1> DEFINE g == [step |-> "asked", cutoff |-> db.cutoff, gone |-> abandoned]
<1>1. /\ guard' = [guard EXCEPT ![q] = g]
      /\ UNCHANGED <<chain, db, run, failures, restarts>> /\ UNCHANGED <<head, abandoned>>
    BY DEF Ask, chain
<1>2. g \in GuardType /\ g.step = "asked" /\ g.gone = abandoned
    BY DEF ActivityInv, ChainTypeOK, StoreSound, DbType, GuardType
<1> HIDE DEF g
<1>3. GuardSound'
    BY <1>1, <1>2 DEF ActivityInv, GuardSound, ServedIsCanonical, Complete
<1> QED BY <1>1, <1>3, GuardAlone

(* It compares the checkpoint with the block under its number.             *)
LEMMA CheckSound ==
    ASSUME ActivityInv, NEW q \in Query, Check(q)
    PROVE  ActivityInv' /\ Kept
<1>1. PICK b \in Canonical(Height[guard[q].cutoff]) :
          \/ /\ db.cutoff = guard[q].cutoff /\ Pinned(b, db.cutoff)
             /\ guard' = [guard EXCEPT ![q].step = "trusted"]
             /\ UNCHANGED db
          \/ /\ Complete(db) /\ db.cutoff = guard[q].cutoff /\ ~Pinned(b, db.cutoff)
             /\ guard' = [guard EXCEPT ![q] = NoGuard]
             /\ db' = [db EXCEPT !.coverage = "unavailable", !.reorg = "detected"]
          \/ /\ guard' = [guard EXCEPT ![q] = NoGuard]
             /\ UNCHANGED db
    BY DEF Check
<1>2. guard[q].step = "asked" /\ UNCHANGED <<chain, run, failures, restarts>>
      /\ UNCHANGED <<head, abandoned>>
    BY DEF Check, chain
<1>g. /\ guard \in [Query -> GuardType] /\ NoGuard.step = "idle"
      /\ \A p \in Query : guard[p].step # "idle" => guard[p].gone \subseteq abandoned
    BY DEF ActivityInv, GuardSound, NoGuard
<1>3. CASE UNCHANGED db
    <2>1. CASE /\ Pinned(b, db.cutoff) /\ guard' = [guard EXCEPT ![q].step = "trusted"]
        <3>1. db.cutoff \notin abandoned
            BY <2>1, CanonicalIs DEF Pinned
        <3>2. guard' \in [Query -> GuardType] /\ guard'[q].gone = guard[q].gone
              /\ \A p \in Query \ {q} : guard'[p] = guard[p]
            BY <1>g, <2>1 DEF GuardType
        <3>3. GuardSound'
            BY <1>2, <1>3, <1>g, <3>1, <3>2
               DEF ActivityInv, GuardSound, ServedIsCanonical, Complete
        <3> QED BY <1>2, <1>3, <3>3, GuardAlone
    <2>2. CASE guard' = [guard EXCEPT ![q] = NoGuard]
        <3>1. GuardSound'
            BY <1>2, <1>3, <1>g, <2>2, NoGuardType
               DEF ActivityInv, GuardSound, ServedIsCanonical, Complete
        <3> QED BY <1>2, <1>3, <3>1, GuardAlone
    <2> QED BY <1>1, <2>1, <2>2
<1>4. CASE /\ Complete(db) /\ db.cutoff = guard[q].cutoff /\ ~Pinned(b, db.cutoff)
           /\ guard' = [guard EXCEPT ![q] = NoGuard]
           /\ db' = [db EXCEPT !.coverage = "unavailable", !.reorg = "detected"]
    <2> DEFINE d == [db EXCEPT !.coverage = "unavailable", !.reorg = "detected"]
    <2>1. db.cutoff # NoBlock /\ Known(db.cutoff)
        BY <1>4 DEF Complete, ActivityInv, StoreSound
    <2>2. db.cutoff \in abandoned
        BY <1>4, <2>1, Replaced DEF Pinned
    <2>3. /\ d \in DbType /\ d.start = db.start /\ d.cutoff = db.cutoff /\ d.target = db.target
          /\ d.events = db.events /\ d.coverage = "unavailable" /\ d.reorg = "detected"
        BY DEF ActivityInv, StoreSound, DbType
    <2>4. db' = d
        BY <1>4
    <2> HIDE DEF d
    <2>5. StoreSound(d) /\ ~Complete(d) /\ RunSound(d, run)
        BY <2>1, <2>2, <2>3, FlagsSound DEF ActivityInv
    <2> QED BY <1>2, <1>4, <1>g, <2>3, <2>4, <2>5, NoGuardType, AsideSound DEF ActivityInv
<1> QED BY <1>1, <1>3, <1>4

(* The call for that block fails.                                          *)
LEMMA CheckFailsSound ==
    ASSUME ActivityInv, NEW q \in Query, CheckFails(q)
    PROVE  ActivityInv' /\ Kept
<1>1. StoreSound(Failed(db)) /\ ~Complete(Failed(db)) /\ Failed(db).cutoff = db.cutoff
      /\ RunSound(Failed(db), run)
    BY FailedSound DEF ActivityInv
<1>2. failures' \in 0 .. MaxFailures /\ restarts' \in 0 .. MaxRestarts
    BY LimitsAssumption DEF CheckFails, ActivityInv
<1>3. /\ guard' \in [Query -> GuardType]
      /\ \A p \in Query : guard'[p].step # "idle" => guard'[p].gone \subseteq abandoned
    BY NoGuardType DEF CheckFails, ActivityInv, GuardSound, NoGuard
<1> QED BY <1>1, <1>2, <1>3, AsideSound DEF CheckFails

(* The route answers with what is stored by then.                          *)
LEMMA AnswerSound ==
    ASSUME ActivityInv, NEW q \in Query, Answer(q)
    PROVE  ActivityInv' /\ Kept
<1>1. GuardSound'
    BY NoGuardType
       DEF Answer, ActivityInv, GuardSound, ServedIsCanonical, Complete, NoGuard, chain
<1> QED BY <1>1, GuardAlone DEF Answer

(* The process dies and opens its store again.                             *)
LEMMA RestartSound == ActivityInv /\ Restart => ActivityInv' /\ Kept
<1> SUFFICES ASSUME ActivityInv, Restart PROVE ActivityInv' /\ Kept
    OBVIOUS
<1>1. failures' \in 0 .. MaxFailures /\ restarts' \in 0 .. MaxRestarts
    BY LimitsAssumption DEF Restart, ActivityInv
<1>2. /\ guard' \in [Query -> GuardType]
      /\ \A p \in Query : guard'[p].step # "idle" => guard'[p].gone \subseteq abandoned
    BY NoGuardType DEF Restart, NoGuard
<1>3. CASE db' = Opened(db)
    BY <1>1, <1>2, <1>3, OpenedSound, IdleSound, AsideSound DEF Restart, ActivityInv
<1>4. ASSUME db.start = NoBlock, NEW b \in Canonical(DeployBlock),
             db' = Opened([db EXCEPT !.start = b])
      PROVE  ActivityInv' /\ Kept
    <2> DEFINE d == [db EXCEPT !.start = b]
    <2>1. StoreSound(d) /\ d.cutoff = db.cutoff
        BY <1>4, StartSound DEF ActivityInv, StoreSound, DbType
    <2> HIDE DEF d
    <2>2. StoreSound(Opened(d)) /\ ~Complete(Opened(d)) /\ Opened(d).cutoff = db.cutoff
        BY <2>1, OpenedSound
    <2> QED BY <1>1, <1>2, <1>4, <2>2, IdleSound, AsideSound DEF Restart, d
<1> QED BY <1>3, <1>4 DEF Restart

(* The operator's tool opens the store beside the worker.                  *)
LEMMA OperateSound == ActivityInv /\ Operate => ActivityInv' /\ Kept
<1> SUFFICES ASSUME ActivityInv, Operate PROVE ActivityInv' /\ Kept
    OBVIOUS
<1>1. failures' \in 0 .. MaxFailures /\ restarts' \in 0 .. MaxRestarts
    BY LimitsAssumption DEF Operate, ActivityInv
<1>2. guard' = guard /\ UNCHANGED chain /\ run' = run /\ db' = Opened(db)
    BY DEF Operate
<1> QED BY <1>1, <1>2, OpenedSound, AsideSound DEF ActivityInv, GuardSound

(* The head moves: what was known stays known, and what was abandoned      *)
(* stays so.                                                               *)
LEMMA MoveSound ==
    ASSUME ActivityInv, NEW b \in Block, MoveHead(b)
    PROVE  ActivityInv' /\ Kept
<1>1. /\ head' = b /\ abandoned' = abandoned \cup (Past[head] \ Past[b])
      /\ Past[b] \cap abandoned = {}
      /\ UNCHANGED <<db, run, guard, failures, restarts>>
    BY DEF MoveHead, MoveTo
<1>2. ChainTypeOK' /\ (Past[head] \cap abandoned = {})'
    BY <1>1, PastOf DEF ActivityInv, ChainTypeOK
<1>3. \A c : Known(c) => Known(c)'
    BY <1>1 DEF Known
<1>4. \A c, d : (Below(c, d) => Below(c, d)') /\ (Under(c, d) => Under(c, d)')
    BY <1>1 DEF Below, Under
<1>5. StoreSound(db)'
    BY <1>1, <1>3 DEF ActivityInv, StoreSound
<1>6. RunSound(db, run)'
    BY <1>1, <1>3, <1>4 DEF ActivityInv, RunSound
<1>7. GuardSound'
    BY <1>1 DEF ActivityInv, GuardSound, ServedIsCanonical
<1> QED BY <1>1, <1>2, <1>5, <1>6, <1>7 DEF ActivityInv, Kept

-------------------------------------------------------------------------------
(* Nothing is stored yet.                                                  *)
LEMMA ActivityInvInit == Init => ActivityInv
<1> SUFFICES ASSUME Init PROVE ActivityInv
    OBVIOUS
<1>1. ChainTypeOK /\ Past[head] \cap abandoned = {}
    BY TreeAssumption DEF Init, ChainInit, ChainTypeOK
<1>2. StoreSound(db)
    BY DEF Init, NoDb, StoreSound, DbType, Anchor
<1>3. GuardSound
    BY NoGuardType DEF Init, GuardSound, ServedIsCanonical, NoGuard
<1> QED BY <1>1, <1>2, <1>3, IdleSound, LimitsAssumption DEF Init, ActivityInv

(* Every step keeps the invariant and the history.                         *)
LEMMA ActivityInvStep == ActivityInv /\ [Next]_vars => ActivityInv' /\ Kept
<1> SUFFICES ASSUME ActivityInv, [Next]_vars PROVE ActivityInv' /\ Kept
    OBVIOUS
<1>1. CASE Poll \/ Begin \/ Head \/ Start \/ Cutoff \/ Target
    BY <1>1, PollSound, BeginSound, HeadSound, StartStepSound, CutoffSound, TargetSound
<1>2. CASE Pin \/ Before \/ GetLogs \/ Headers \/ After \/ Repin
    BY <1>2, PinSound, BeforeSound, GetLogsSound, HeadersSound, AfterSound, RepinSound
<1>3. CASE Count \/ StartPin \/ TargetPin
    BY <1>3, CountSound, StartPinSound, TargetPinSound
<1>4. CASE NoSuchBlock
    BY <1>4, FailSound DEF NoSuchBlock
<1>5. CASE Abort \/ StoreThrows
    BY <1>5, AbortSound, StoreThrowsSound
<1>6. CASE \E q \in Query : Ask(q) \/ Check(q) \/ CheckFails(q) \/ Answer(q)
    BY <1>6, AskSound, CheckSound, CheckFailsSound, AnswerSound
<1>7. CASE Restart \/ Operate
    BY <1>7, RestartSound, OperateSound
<1>8. CASE \E b \in Block : MoveHead(b)
    BY <1>8, MoveSound
<1>9. CASE UNCHANGED vars
    <2>1. UNCHANGED <<chain, db, run, failures, restarts>> /\ UNCHANGED guard
          /\ UNCHANGED <<head, abandoned>>
        BY <1>9 DEF vars, chain
    <2>2. GuardSound'
        BY <2>1 DEF ActivityInv, GuardSound, ServedIsCanonical
    <2> QED BY <2>1, <2>2, GuardAlone
<1> QED BY <1>1, <1>2, <1>3, <1>4, <1>5, <1>6, <1>7, <1>8, <1>9 DEF Next, Work

(* What a paid answer is made from is the whole history of one chain, and  *)
(* was the canonical one's when the request came, whatever reorganisation, *)
(* crash or command of the operator comes between any two reads of the     *)
(* worker (refreshActivity and validateActivityCheckpoint).                *)
THEOREM HistoryStaysTrue == Spec => []HistoryIsTrue
<1>1. ActivityInv => HistoryIsTrue
    BY DEF ActivityInv, StoreSound, RunSound, GuardSound, HistoryIsTrue, StoreIsPrefix, TypeOK
<1>2. ActivityInv /\ [Next]_vars => ActivityInv'
    BY ActivityInvStep
<1> QED BY <1>1, <1>2, ActivityInvInit, PTL DEF Spec

(* No failure costs a rebuild: when the history is thrown away, a block it *)
(* is built on, or was to reach, has been reorganised away.                *)
THEOREM HistoryIsKept == Spec => HistoryKept
<1>1. ActivityInv /\ [Next]_vars => ActivityInv'
    BY ActivityInvStep
<1>2. ActivityInv /\ [Next]_vars =>
          [db.cutoff # NoBlock /\ db'.cutoff = NoBlock =>
              {db.start, db.cutoff, db.target} \cap abandoned # {}]_vars
    BY ActivityInvStep DEF Kept
<1> QED BY <1>1, <1>2, ActivityInvInit, PTL DEF Spec, HistoryKept
===============================================================================
