------------------------------ MODULE RateLimiter -----------------------------
(***************************************************************************)
(* The per-client quota of the API (rateLimiter in backend/admission.ts):  *)
(* fixed windows, kept in a table of bounded size that is purged from its  *)
(* front.  A client is a route together with an address.                   *)
(***************************************************************************)
EXTENDS Integers, Sequences, FiniteSets, FiniteSetsExt

CONSTANTS
    Client,            \* routes with addresses
    Limit,             \* requests per window, as the client's route has it
    RateMaxKeys,
    RateWindow,        \* rateWindowMs
    MaxTime            \* bound on the clock

ASSUME LimiterAssumption ==
    /\ IsFiniteSet(Client)
    /\ Limit \in [Client -> Nat \ {0}]
    /\ RateMaxKeys \in Nat \ {0}
    /\ RateWindow \in Nat \ {0}
    /\ MaxTime \in Nat

Time == 0 .. MaxTime
Code == {"none", "NEXT", "CLIENT_IP_UNAVAILABLE", "LIMITER_CAPACITY", "RATE_LIMITED"}

VARIABLES
    now,               \* Date.now, taken to be monotone
    clients,           \* the Map: windows in the order of their insertion
    answer,            \* the last request at this instant, and what it got
    admitted           \* when each client's requests got through, one after the other

limiterVars == <<now, clients, answer, admitted>>

Window == [client: Client, count: Nat, expires: Nat]

LimiterTypeOK ==
    /\ now \in Time
    /\ clients \in Seq(Window) /\ Len(clients) <= RateMaxKeys
    /\ answer \in [client: SUBSET Client, code: Code]
    /\ admitted \in [Client -> Seq(Time)]

(* Faulty: only the first window is looked at, and only when it is over.   *)
PurgedOnce ==
    IF clients # <<>> /\ clients[1].expires < now THEN Tail(clients) ELSE clients

(* The loop deletes from the front and stops at the first live window.     *)
Purged ==
    LET live == {i \in DOMAIN clients : clients[i].expires > now}
    IN  IF live = {} THEN <<>> ELSE SubSeq(clients, Min(live), Len(clients))

WithWindow(c, table) ==
    IF \E i \in DOMAIN table : table[i].client = c THEN table
    ELSE Append(table, [client |-> c, count |-> 0, expires |-> now + RateWindow])

Counted(table, i) == [table EXCEPT ![i].count = @ + 1]

Full(c, table) ==
    /\ \A i \in DOMAIN table : table[i].client # c
    /\ Len(table) >= RateMaxKeys

Exhausted(window) == window.count >= Limit[window.client]

(* A request whose address is not known; the purge has happened before.    *)
Unidentified ==
    /\ clients' = Purged
    /\ answer' = [client |-> {}, code |-> "CLIENT_IP_UNAVAILABLE"]
    /\ UNCHANGED <<now, admitted>>

Refused(c, code, table) ==
    /\ clients' = table
    /\ answer' = [client |-> {c}, code |-> code]
    /\ UNCHANGED <<now, admitted>>

(* A request of client c goes through the handler of the limiter.          *)
Handle(c) ==
    LET table == WithWindow(c, Purged)
    IN  \/ /\ Full(c, Purged)
           /\ Refused(c, "LIMITER_CAPACITY", Purged)
        \/ /\ ~Full(c, Purged)
           /\ \E i \in DOMAIN table :
                 /\ table[i].client = c
                 /\ \/ /\ Exhausted(table[i])
                       /\ Refused(c, "RATE_LIMITED", table)
                    \/ /\ ~Exhausted(table[i])
                       /\ clients' = Counted(table, i)
                       /\ answer' = [client |-> {c}, code |-> "NEXT"]
                       /\ admitted' = [admitted EXCEPT ![c] = Append(@, now)]
                       /\ UNCHANGED now

ClockTicks ==
    /\ now < MaxTime
    /\ now' = now + 1
    /\ answer' = [client |-> {}, code |-> "none"]
    /\ UNCHANGED <<clients, admitted>>

LimiterInit ==
    /\ now = 0
    /\ clients = <<>>
    /\ answer = [client |-> {}, code |-> "none"]
    /\ admitted = [c \in Client |-> <<>>]

LimiterNext == Unidentified \/ (\E c \in Client : Handle(c)) \/ ClockTicks

LimiterSpec == LimiterInit /\ [][LimiterNext]_limiterVars

-------------------------------------------------------------------------------
(* Requests of client c admitted from time first on.                       *)
AdmittedSince(c, first) ==
    Cardinality({n \in DOMAIN admitted[c] : admitted[c][n] >= first})

(* The loop may stop at the first live window, as the comment says: the    *)
(* windows stand in the order in which they expire, one for each client,   *)
(* and each counts what its client had admitted since it was opened.       *)
TableSound ==
    /\ LimiterTypeOK
    /\ \A i, j \in DOMAIN clients :
          i < j => /\ clients[i].expires <= clients[j].expires
                   /\ clients[i].client # clients[j].client
    /\ \A i \in DOMAIN clients :
          clients[i].count =
              AdmittedSince(clients[i].client, clients[i].expires - RateWindow)

(* In no span as long as a window are more than two quotas admitted, one   *)
(* of the window that ends in it and one of the window that begins.  And   *)
(* nobody is refused because of a window that is over: RATE_LIMITED takes  *)
(* a quota within the last window's length, and LIMITER_CAPACITY as many   *)
(* clients in it as the table has room for.                                *)
QuotaHolds ==
    LET recent(c) == AdmittedSince(c, now - RateWindow + 1)
    IN  /\ TableSound
        /\ \A c \in Client : recent(c) <= 2 * Limit[c]
        /\ answer.code = "RATE_LIMITED" => \A c \in answer.client : recent(c) >= Limit[c]
        /\ answer.code = "LIMITER_CAPACITY" =>
               Cardinality({c \in Client : recent(c) > 0}) >= RateMaxKeys
===============================================================================
