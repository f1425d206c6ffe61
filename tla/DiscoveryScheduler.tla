--------------------------- MODULE DiscoveryScheduler ---------------------------
(***************************************************************************)
(* Published services and the probes that tell whether they still answer   *)
(* as published: backend/discovery-scheduler.ts over discovery-store.ts,   *)
(* the route that publishes and the row that is served (server.ts).        *)
(*                                                                         *)
(* Times are kept as ages, up to the limit they are compared with, and the *)
(* order of the attempts as a relation, so that time may go on for ever.   *)
(***************************************************************************)
EXTENDS Integers, FiniteSets, Functions

CONSTANTS
    Service,           \* demands of the deployment, by their numbers
    Content,           \* what a fulfilled demand says of its service
    Slot,              \* probes there may be at once; bound
    NoService,
    RefreshMs,         \* in ticks of the clock
    StaleMs,
    MaxProbes,
    MaxRevision,       \* bound on the revisions of all services together
    MaxVersion,        \* bound on the versions of all entries together
    MaxIncidents       \* bound on failures of the store and restarts

ASSUME DiscoveryAssumption ==
    /\ Service \subseteq Nat /\ NoService \notin Service
    /\ Content # {} /\ Slot \subseteq Nat
    /\ RefreshMs \in Nat \ {0} /\ StaleMs \in Nat /\ RefreshMs < StaleMs
    /\ MaxProbes \in Nat \ {0}
    /\ MaxRevision \in Nat /\ MaxVersion \in Nat \ {0}
    /\ MaxIncidents \in Nat

VARIABLES
    entry,             \* demandIndex.entries
    version,           \* demandIndex.entryVersions
    era,               \* changes of an entry so far, the processes before included
    record,            \* the table discovery
    before,            \* its rows ordered by lastAttempt and identity: who is before whom
    running,           \* a tick is at work
    task,              \* the probes in flight
    incidents

index == <<entry, version, era>>
vars == <<index, record, before, running, task, incidents>>

Revision == 0 .. MaxRevision

(* The wait of a row that was not attempted since it was published.        *)
Never == RefreshMs + 1

(* observedAt and result are null together; "old" is before this process.  *)
Observation ==
    [result : BOOLEAN, age : 0 .. StaleMs, old : BOOLEAN, failure : BOOLEAN,
     generation : Nat, era : Nat, revision : Revision]

NoObservation ==
    [result |-> FALSE, age |-> StaleMs, old |-> TRUE, failure |-> FALSE,
     generation |-> 0, era |-> 0, revision |-> 0]

Record ==
    [revision : Revision, payload : Content, waited : 0 .. Never, observation : Observation]

Task ==
    [step : {"none", "current", "generation", "observe", "again", "compare"},
     service : Service \cup {NoService}, revision : Revision, payload : Content,
     previous : Observation, generation : Nat, era : Nat,
     next : Observation,                           \* what is to be stored
     mine : BOOLEAN]                               \* of the tick that is running

Missing == [revision |-> 0, payload |-> CHOOSE c \in Content : TRUE,
            waited |-> Never, observation |-> NoObservation]

NoTask == [step |-> "none", service |-> NoService, revision |-> 0, payload |-> Missing.payload,
           previous |-> NoObservation, generation |-> 0, era |-> 0, next |-> NoObservation,
           mine |-> FALSE]

Row == {s \in Service : record[s].revision > 0}

(* Who is before whom in a list of the elements of S.                      *)
Ordered(order, S) ==
    /\ order \subseteq S \X S
    /\ \A r, s \in S : r # s <=> (<<r, s>> \in order \/ <<s, r>> \in order)
    /\ \A q, r, s \in S : <<q, r>> \in order /\ <<r, s>> \in order => <<q, s>> \in order

TypeOK ==
    /\ entry \in [Service -> Content] /\ version \in [Service -> Nat \ {0}]
    /\ era \in [Service -> Nat]
    /\ record \in [Service -> Record]
    /\ Ordered(before, Row)
    /\ running \in BOOLEAN /\ task \in [Slot -> Task]
    /\ incidents \in 0 .. MaxIncidents

-------------------------------------------------------------------------------
(* The store.                                                              *)

Accepted(old, revision) == revision > old.revision

(* Rows of one lastAttempt stand in the order of their identities.         *)
ByNumber(S) == {p \in S \X S : p[1] < p[2]}

(* The rows of S as they stand there, before those of T as they stand.     *)
InFront(order, S, other, T) == (order \cap (S \X S)) \cup (S \X T) \cup (other \cap (T \X T))

(* PUT: the metadata was checked against a canonical block; the index may  *)
(* be behind or ahead of it.  A conflict changes nothing.                  *)
Publish(s, revision, payload) ==
    /\ Accepted(record[s], revision)
    /\ FoldFunction(+, revision, [r \in Service \ {s} |-> record[r].revision]) <= MaxRevision
    /\ record' = [record EXCEPT ![s] =
                     [Missing EXCEPT !.revision = revision, !.payload = payload]]
    /\ LET new == {r \in Row : record[r].waited = Never} \cup {s}
       IN  before' = InFront(ByNumber(new), new, before, Row \ new)
    /\ UNCHANGED <<index, running, task, incidents>>

Belongs(t, r) == r.revision = t.revision /\ r.payload = t.payload

(* setObservation                                                          *)
Observed(t, observation) ==
    IF Belongs(t, record[t.service])
    THEN [record EXCEPT ![t.service].observation = observation]
    ELSE record

-------------------------------------------------------------------------------
(* The scheduler.                                                          *)

(* Faulty: rows in the order of their identities.                          *)
EarlierNumber(r, s) == r < s

Earlier(r, s) == <<r, s>> \in before

(* The rows that have waited long enough, as many as there may be probes.  *)
Due ==
    LET waiting == {s \in Row : record[s].waited >= RefreshMs}
    IN  {s \in waiting : Cardinality({r \in waiting : Earlier(r, s)}) < MaxProbes}

Free == {k \in Slot : task[k].step = "none"}

(* Slots are alike: the first free one is for the first row.               *)
Takes(k, s) ==
    /\ k \in Free /\ s \in Due
    /\ Cardinality({j \in Free : j < k}) = Cardinality({r \in Due : Earlier(r, s)})

(* A tick marks the attempts and starts a probe for each row.              *)
Tick ==
    /\ ~running
    /\ Due # {}
    /\ Cardinality(Free) >= Cardinality(Due)
    /\ running' = TRUE
    /\ record' = [s \in Service |->
                     IF s \in Due THEN [record[s] EXCEPT !.waited = 0] ELSE record[s]]
    /\ before' = InFront(before, Row \ Due, ByNumber(Due), Due)
    /\ task' = [k \in Slot |->
           IF \E s \in Service : Takes(k, s)
           THEN LET s == CHOOSE s \in Service : Takes(k, s)
                IN  [NoTask EXCEPT !.step = "current", !.service = s,
                                   !.revision = record[s].revision,
                                   !.payload = record[s].payload,
                                   !.previous = record[s].observation, !.mine = TRUE]
           ELSE task[k]]
    /\ UNCHANGED <<index, incidents>>

(* The tick is over with the last of its probes.                           *)
End(k) ==
    /\ task' = [task EXCEPT ![k] = NoTask]
    /\ running' = (running /\ (task[k].mine => \E j \in Slot \ {k} : task[j].mine))
    /\ UNCHANGED <<index, before, incidents>>

(* The last result stays, under the mark of the failure.                   *)
Marked(t, generation) ==
    [t.previous EXCEPT
        !.failure = TRUE, !.revision = t.revision,
        !.generation = IF t.previous.revision = 0 THEN generation ELSE @]

(* failure()                                                               *)
Failure(k) ==
    LET t == task[k]
    IN  /\ record' = Observed(t, Marked(t, version[t.service]))
        /\ End(k)

Goto(k, step) == task' = [task EXCEPT ![k].step = step]

Unmoved == UNCHANGED <<index, record, before, running, incidents>>

(* current(): the index is refreshed, which may fail, and the entry must   *)
(* be what the metadata says.                                              *)
Current(k, from, to) ==
    /\ task[k].step = from
    /\ \/ Failure(k)
       \/ /\ entry[task[k].service] = task[k].payload
          /\ Goto(k, to)
          /\ Unmoved

Generation(k) ==
    /\ task[k].step = "generation"
    /\ task' = [task EXCEPT ![k].step = "observe",
                            ![k].generation = version[task[k].service],
                            ![k].era = era[task[k].service]]
    /\ Unmoved

Measured(t) ==
    [result |-> TRUE, age |-> 0, old |-> FALSE, failure |-> FALSE,
     generation |-> t.generation, era |-> t.era, revision |-> t.revision]

(* The observer answers, from when on its answer ages, or is unavailable.  *)
Observe(k) ==
    /\ task[k].step = "observe"
    /\ \E o \in {Measured(task[k]), Marked(task[k], task[k].generation)} :
           task' = [task EXCEPT ![k].step = "again", ![k].next = o]
    /\ Unmoved

UnchangedEntry(t) == version[t.service] = t.generation

(* CANONICAL_CHANGED, or what was found; the store may refuse it, and take *)
(* the failure.                                                            *)
Compare(k) ==
    LET t == task[k]
    IN  /\ t.step = "compare"
        /\ \/ /\ UnchangedEntry(t)
              /\ record' = Observed(t, t.next)
              /\ End(k)
           \/ Failure(k)

(* The store throws in one probe: the tick is over, the others go on.      *)
StoreFails(k) ==
    /\ task[k].step # "none"
    /\ incidents < MaxIncidents
    /\ incidents' = incidents + 1
    /\ task' = [j \in Slot |-> IF j = k THEN NoTask
                               ELSE IF task[k].mine THEN [task[j] EXCEPT !.mine = FALSE]
                               ELSE task[j]]
    /\ running' = (running /\ ~task[k].mine)
    /\ UNCHANGED <<index, record, before>>

-------------------------------------------------------------------------------
(* The world.                                                              *)

(* The index takes another state of a demand, or rebuilds the same one; a  *)
(* version never comes twice (DemandIndex, VersionsTell).                  *)
Reindex(s, content) ==
    /\ FoldFunction(+, 0, version) < MaxVersion
    /\ entry' = [entry EXCEPT ![s] = content]
    /\ version' = [version EXCEPT ![s] = @ + 1]
    /\ era' = [era EXCEPT ![s] = IF content = entry[s] THEN @ ELSE @ + 1]
    /\ UNCHANGED <<record, before, running, task, incidents>>

Aged(o) == [o EXCEPT !.age = IF @ < StaleMs THEN @ + 1 ELSE @]

TimePasses ==
    /\ record' = [s \in Service |->
           [record[s] EXCEPT !.waited = IF @ < RefreshMs THEN @ + 1 ELSE @,
                             !.observation = Aged(@)]]
    /\ task' = [k \in Slot |-> [task[k] EXCEPT !.previous = Aged(@), !.next = Aged(@)]]
    /\ UNCHANGED <<index, before, running, incidents>>

(* Another process: its index counts from one again, and may find another  *)
(* chain.  Every row is due, every observation is from before.             *)
Restart ==
    /\ incidents < MaxIncidents
    /\ incidents' = incidents + 1
    /\ entry' \in [Service -> Content]
    /\ version' = [s \in Service |-> 1]
    /\ era' = [s \in Service |-> IF entry'[s] = entry[s] THEN era[s] ELSE era[s] + 1]
    /\ record' = [s \in Service |-> [record[s] EXCEPT
                     !.waited = IF @ < RefreshMs THEN RefreshMs ELSE @,
                     !.observation.old = TRUE]]
    /\ running' = FALSE
    /\ task' = [k \in Slot |-> NoTask]
    /\ UNCHANGED before

Init ==
    /\ entry = [s \in Service |-> Missing.payload]
    /\ version = [s \in Service |-> 1] /\ era = [s \in Service |-> 0]
    /\ record = [s \in Service |-> Missing] /\ before = {}
    /\ running = FALSE /\ task = [k \in Slot |-> NoTask]
    /\ incidents = 0

Probe(k) ==
    \/ Current(k, "current", "generation") \/ Generation(k)
    \/ Observe(k) \/ Current(k, "again", "compare") \/ Compare(k)

Next ==
    \/ \E s \in Service, r \in Revision, c \in Content : Publish(s, r, c)
    \/ Tick
    \/ \E k \in Slot : Probe(k) \/ StoreFails(k)
    \/ \E s \in Service, c \in Content : Reindex(s, c)
    \/ TimePasses \/ Restart

Spec == Init /\ [][Next]_vars

(* The interval timer fires, calls return or time out, time goes on.       *)
FairSpec ==
    /\ Spec
    /\ WF_vars(Tick) /\ WF_vars(TimePasses)
    /\ \A k \in Slot : WF_vars(Probe(k))

-------------------------------------------------------------------------------
(* Faulty: ages and versions are enough to tell what is stale.             *)
StaleByAge(o, s) == o.generation # version[s] \/ o.age >= StaleMs

Stale(o, s) ==
    \/ ~o.result
    \/ o.generation # version[s]
    \/ o.old
    \/ o.age >= StaleMs

(* serviceRow: the result of the observation is shown as the state.        *)
Shown(s) ==
    LET o == record[s].observation
    IN  /\ record[s].revision > 0 /\ record[s].payload = entry[s]
        /\ ~o.failure /\ ~Stale(o, s)

(* A result that is shown was obtained for the metadata that is published  *)
(* now, and the demand has been the same in the index ever since the probe *)
(* was sent, though the process may have been replaced and versions begun  *)
(* again.                                                                  *)
ShownIsCurrent ==
    /\ TypeOK
    /\ \A s \in Service :
           Shown(s) => /\ record[s].observation.era = era[s]
                       /\ record[s].observation.revision = record[s].revision

(* No service waits for ever while others are probed, whatever failed.     *)
EveryServiceProbed ==
    \A s \in Service :
        []<>(record[s].revision = 0 \/ \E k \in Slot : task[k].service = s)
===============================================================================
