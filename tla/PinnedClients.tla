--------------------------- MODULE PinnedClients ---------------------------
(***************************************************************************)
(* The pinned-client cache of the Web Push provider (web_push.rs):         *)
(* vetted_client and resolve_and_vet, called by any number of concurrent   *)
(* sends to endpoints whose host is a DNS name.                            *)
(*                                                                         *)
(* A client is the addresses it may connect to.  Time is discrete, and an  *)
(* entry's expires_at is kept as the time left to it; an address set also  *)
(* carries the time since DNS gave it, which the code does not see.        *)
(*                                                                         *)
(* A task's pc says where in vetted_client it is:                          *)
(*   idle      no call in progress                                         *)
(*   lookup    waiting for DNS, under the connect timeout                  *)
(*   answered  still waiting, DNS has answered                             *)
(*   vetted    the addresses passed; building the client, no await until   *)
(*             it is cached                                                *)
(*   ready     the call returned Ok(client)                                *)
(*   failed    the call returned Err(err)                                  *)
(* The cache's mutex is never held across an await, so each use of it is   *)
(* one step.  A hit and an insertion recover a poisoned mutex.             *)
(***************************************************************************)
EXTENDS PushErrors, FiniteSets

CONSTANTS
    Tasks,
    Hosts,           \* host:port pairs
    Addresses,       \* what a host may resolve to
    Internal,        \* the addresses is_internal_addr refuses
    Loopback,        \* those of them that is_pure_loopback accepts
    MaxClients,      \* PINNED_CLIENT_MAX
    TTL,             \* PINNED_CLIENT_TTL
    ConnectTimeout   \* config.connect_timeout

ASSUME AddressAssumption == Loopback \subseteq Internal /\ Internal \subseteq Addresses
ASSUME LimitsAssumption  ==
    /\ MaxClients \in Nat \ {0}
    /\ TTL \in Nat \ {0}
    /\ ConnectTimeout \in Nat

VARIABLES
    allowLoopback,  \* config.allow_insecure_loopback, set once
    cache,          \* pinned_clients
    pc,
    host,           \* the host t's call is for
    client,         \* the addresses t was given by DNS, or its call returned
    age,            \* how long t's lookup has been running
    err             \* the error t's call returned

vars == <<allowLoopback, cache, pc, host, client, age, err>>

PC == {"idle", "lookup", "answered", "vetted", "ready", "failed"}

(* Addresses and the time since DNS gave them. *)
Client(addrs, old) == [addrs |-> addrs, old |-> old]

NoClient == Client({}, 0)

NoError == [kind |-> "None", status |-> NoStatus]

Monus(a, b) == IF a > b THEN a - b ELSE 0

Cached == DOMAIN cache

-----------------------------------------------------------------------------
(* Definitions named Bug... are faults the properties must detect: each is *)
(* what the definition after it would be with a plausible mistake in it.   *)
BugAllMustBeInternal(addrs) ==
    \A a \in addrs : a \in Internal /\ ~(allowLoopback /\ a \in Loopback)

(* resolve_and_vet refuses a host for any address it may not connect to. *)
Refused(addrs) ==
    \E a \in addrs : a \in Internal /\ ~(allowLoopback /\ a \in Loopback)

Init ==
    /\ allowLoopback \in BOOLEAN
    /\ cache = [h \in {} |-> [client |-> NoClient, left |-> 0]]
    /\ pc = [t \in Tasks |-> "idle"]
    /\ host \in [Tasks -> Hosts]
    /\ client = [t \in Tasks |-> NoClient]
    /\ age = [t \in Tasks |-> 0]
    /\ err = [t \in Tasks |-> NoError]

Ends(t, at, c, e) ==
    /\ pc' = [pc EXCEPT ![t] = at]
    /\ client' = [client EXCEPT ![t] = c]
    /\ err' = [err EXCEPT ![t] = e]
    /\ age' = [age EXCEPT ![t] = 0]

BugServeExpired(t, h) ==
    /\ pc[t] = "idle"
    /\ host' = [host EXCEPT ![t] = h]
    /\ IF h \in Cached
       THEN Ends(t, "ready", cache[h].client, NoError)
       ELSE Ends(t, "lookup", NoClient, NoError)
    /\ UNCHANGED <<allowLoopback, cache>>

(* The first look at the cache; an expired entry is a miss, and stays. *)
VettedClient(t, h) ==
    /\ pc[t] = "idle"
    /\ host' = [host EXCEPT ![t] = h]
    /\ IF h \in Cached /\ cache[h].left > 0
       THEN Ends(t, "ready", cache[h].client, NoError)
       ELSE Ends(t, "lookup", NoClient, NoError)
    /\ UNCHANGED <<allowLoopback, cache>>

(* DNS answers, with whatever it has for the host at that moment. *)
Resolve(t, addrs) ==
    /\ pc[t] = "lookup"
    /\ pc' = [pc EXCEPT ![t] = "answered"]
    /\ client' = [client EXCEPT ![t] = Client(addrs, 0)]
    /\ UNCHANGED <<allowLoopback, cache, host, age, err>>

(* The answer is back: it is refused as a whole or taken as a whole. *)
Vet(t) ==
    /\ pc[t] = "answered"
    /\ LET addrs == client[t].addrs IN
       IF addrs = {} THEN Ends(t, "failed", NoClient, Err("Network"))
       ELSE IF Refused(addrs) THEN Ends(t, "failed", NoClient, Err("Config"))
       ELSE Ends(t, "vetted", client[t], NoError)
    /\ UNCHANGED <<allowLoopback, cache, host>>

BugNoLookupFailure(t) ==
    /\ pc[t] = "answered"
    /\ Ends(t, "failed", NoClient, Err("Network"))
    /\ UNCHANGED <<allowLoopback, cache, host>>

(* The lookup fails, or its timeout strikes. *)
LookupFails(t) ==
    /\ pc[t] \in {"lookup", "answered"}
    /\ Ends(t, "failed", NoClient, Err("Network"))
    /\ UNCHANGED <<allowLoopback, cache, host>>

TimesOut(t) == age[t] = ConnectTimeout /\ LookupFails(t)

BuildFails(t) ==
    /\ pc[t] = "vetted"
    /\ Ends(t, "failed", NoClient, Err("Config"))
    /\ UNCHANGED <<allowLoopback, cache, host>>

BugOneTooMany(live) ==
    IF Cardinality(DOMAIN live) > MaxClients THEN [h \in {} |-> live[h]] ELSE live

(* A full cache is emptied, also when the host is already in it. *)
MakeRoom(live) ==
    IF Cardinality(DOMAIN live) >= MaxClients THEN [h \in {} |-> live[h]] ELSE live

(* Expired entries go, room is made, and the client is cached for TTL from *)
(* now on, over whatever a concurrent call cached for the host meanwhile.  *)
Insert(t) ==
    /\ pc[t] = "vetted"
    /\ LET live == [h \in {g \in Cached : cache[g].left > 0} |-> cache[h]]
           room == MakeRoom(live) IN
       cache' = [h \in DOMAIN room \cup {host[t]} |->
                    IF h = host[t] THEN [client |-> client[t], left |-> TTL]
                                   ELSE room[h]]
    /\ Ends(t, "ready", client[t], NoError)
    /\ UNCHANGED <<allowLoopback, host>>

(* The caller drops the send while it waits for DNS. *)
Cancel(t) ==
    /\ pc[t] \in {"lookup", "answered"}
    /\ Ends(t, "idle", NoClient, NoError)
    /\ UNCHANGED <<allowLoopback, cache, host>>

Return(t) ==
    /\ pc[t] \in {"ready", "failed"}
    /\ Ends(t, "idle", NoClient, NoError)
    /\ UNCHANGED <<allowLoopback, cache, host>>

-----------------------------------------------------------------------------
InLookup(t) == pc[t] \in {"lookup", "answered"}

Old == TTL + ConnectTimeout + 1

(* An address set grows old until nothing could make a difference any more.*)
Older(c) ==
    Client(c.addrs, IF c.addrs = {} THEN 0 ELSE IF c.old < Old THEN c.old + 1 ELSE c.old)

(* One unit of time; a lookup's timer that is due fires first, and a call  *)
(* that waits for nothing goes on at once.                                 *)
Tick ==
    /\ \A t \in Tasks : InLookup(t) => age[t] < ConnectTimeout
    /\ \A t \in Tasks : pc[t] \notin {"vetted", "ready", "failed"}
    /\ cache' = [h \in Cached |-> [client |-> Older(cache[h].client),
                                   left   |-> Monus(cache[h].left, 1)]]
    /\ client' = [t \in Tasks |-> Older(client[t])]
    /\ age' = [t \in Tasks |-> IF InLookup(t) THEN age[t] + 1 ELSE age[t]]
    /\ UNCHANGED <<allowLoopback, pc, host, err>>

Task(t) ==
    \/ \E h \in Hosts : VettedClient(t, h)
    \/ \E addrs \in SUBSET Addresses : Resolve(t, addrs)
    \/ Vet(t)
    \/ LookupFails(t)
    \/ BuildFails(t)
    \/ Insert(t)
    \/ Cancel(t)
    \/ Return(t)

Next == Tick \/ \E t \in Tasks : Task(t)

Spec == Init /\ [][Next]_vars

(* Time passes however busy the tasks are (a step takes time, if little),  *)
(* a task that can run runs, and a lookup's timeout fires.  Nothing makes  *)
(* DNS answer.                                                             *)
Fairness ==
    /\ SF_vars(Tick)
    /\ \A t \in Tasks :
          WF_vars(TimesOut(t)) /\ WF_vars(BuildFails(t) \/ Insert(t)) /\ WF_vars(Return(t))

FairSpec == Spec /\ Fairness

-----------------------------------------------------------------------------
(* Properties *)

ClientType == [addrs : SUBSET Addresses, old : 0 .. Old]

TypeOK ==
    /\ allowLoopback \in BOOLEAN
    /\ Cached \subseteq Hosts
    /\ \A h \in Cached : cache[h] \in [client : ClientType, left : 0 .. TTL]
    /\ pc \in [Tasks -> PC]
    /\ host \in [Tasks -> Hosts]
    /\ client \in [Tasks -> ClientType]
    /\ age \in [Tasks -> 0 .. ConnectTimeout]
    /\ err \in [Tasks -> PushError \cup {NoError}]

(* Whatever DNS answers and whenever it changes its mind, a client that is *)
(* cached or handed out connects to at least one address, to no internal   *)
(* one, and to loopback only where the configuration opted in: what was    *)
(* vetted is what is pinned, in every entry that outlives its lookup.      *)
PinnedIsVetted ==
    LET permitted == (Addresses \ Internal) \cup (IF allowLoopback THEN Loopback ELSE {})
        fine(c)   == c.addrs # {} /\ c.addrs \subseteq permitted IN
    /\ \A h \in Cached : fine(cache[h].client)
    /\ \A t \in Tasks : pc[t] \in {"vetted", "ready"} => fine(client[t])

(* The cap of the cache holds although any number of calls pass the check  *)
(* and insert concurrently.                                                *)
CacheBounded == Cardinality(Cached) <= MaxClients

(* Concurrent lookups for one host overwrite each other, an older answer   *)
(* sometimes a newer one; still no client is handed out on an answer older *)
(* than the time to live and one lookup.                                   *)
AnswerAgeBounded ==
    \A t \in Tasks : pc[t] = "ready" => client[t].old <= TTL + ConnectTimeout

(* A send gets its client or an error, whether DNS answers or not. *)
EveryCallReturns ==
    \A t \in Tasks : pc[t] = "lookup" ~> pc[t] \in {"ready", "failed", "idle"}
=============================================================================
