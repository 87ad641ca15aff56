--------------------------- MODULE WebPushProofs ---------------------------
(***************************************************************************)
(* What the Web Push provider guarantees: first the cache of pinned        *)
(* clients (PinnedClients), then the sends that use it (WebPushSend).      *)
(***************************************************************************)
EXTENDS WebPushSend, TLAPS, FiniteSetTheorems

(***************************************************************************)
(* The pinned clients, for every set of tasks, hosts and addresses, every  *)
(* cap, time to live and connect timeout.                                  *)
(***************************************************************************)

Permitted == (Addresses \ Internal) \cup (IF allowLoopback THEN Loopback ELSE {})

Fine(c) == c.addrs # {} /\ c.addrs \subseteq Permitted

(* An answer ages with the lookup it came in, and a live entry with its    *)
(* time to live.                                                           *)
AgeInv ==
    /\ \A h \in Cached : cache[h].left > 0 =>
          cache[h].client.old + cache[h].left <= TTL + ConnectTimeout
    /\ \A t \in Tasks :
          /\ pc[t] = "answered" => client[t].old <= age[t]
          /\ pc[t] = "vetted" => client[t].old <= ConnectTimeout
    /\ AnswerAgeBounded

BoundInv == IsFiniteSet(Cached) /\ CacheBounded

-----------------------------------------------------------------------------
LEMMA CountDown ==
    ASSUME NEW n \in Nat
    PROVE  /\ Monus(n, 1) \in Nat
           /\ Monus(n, 1) <= n
           /\ Monus(n, 1) > 0 => Monus(n, 1) = n - 1
BY DEF Monus

(* Time changes neither the addresses of a client nor its type. *)
LEMMA OlderClient ==
    ASSUME NEW c \in ClientType
    PROVE  /\ Older(c) \in ClientType
           /\ Older(c).addrs = c.addrs
           /\ Older(c).old <= c.old + 1
<1> USE LimitsAssumption DEF ClientType, Client, Old
<1>1. c.addrs \in SUBSET Addresses /\ c.old \in 0 .. TTL + ConnectTimeout + 1
  OBVIOUS
<1> DEFINE n == IF c.addrs = {} THEN 0
                ELSE IF c.old < TTL + ConnectTimeout + 1 THEN c.old + 1 ELSE c.old
<1>2. n \in 0 .. TTL + ConnectTimeout + 1 /\ n <= c.old + 1
  BY <1>1
<1>3. Older(c) = [addrs |-> c.addrs, old |-> n]
  BY DEF Older
<1> QED
  BY <1>1, <1>2, <1>3

LEMMA NoClientType == NoClient \in ClientType /\ NoClient.addrs = {} /\ NoClient.old = 0
BY LimitsAssumption DEF NoClient, Client, ClientType, Old

LEMMA ErrorTypes ==
    /\ Err("Network") \in PushError \cup {NoError}
    /\ Err("Config") \in PushError \cup {NoError}
    /\ NoError \in PushError \cup {NoError}
BY DEF Err, PushError, Kinds, NoStatus, NoError

(* How a step of a task ends keeps the type of what it sets. *)
LEMMA EndsType ==
    ASSUME TypeOK, NEW t \in Tasks, NEW at \in PC, NEW c \in ClientType,
           NEW e \in PushError \cup {NoError}, Ends(t, at, c, e)
    PROVE  /\ pc' \in [Tasks -> PC]
           /\ client' \in [Tasks -> ClientType]
           /\ err' \in [Tasks -> PushError \cup {NoError}]
           /\ age' \in [Tasks -> 0 .. ConnectTimeout]
BY LimitsAssumption DEF TypeOK, Ends

-----------------------------------------------------------------------------
LEMMA InitTypeOK == Init => TypeOK
<1> SUFFICES ASSUME Init PROVE TypeOK
  OBVIOUS
<1>1. Cached = {}
  BY DEF Init, Cached
<1> QED
  BY <1>1, NoClientType, ErrorTypes, LimitsAssumption DEF Init, TypeOK, PC

LEMMA NextTypeOK == TypeOK /\ [Next]_vars => TypeOK'
<1> SUFFICES ASSUME TypeOK, [Next]_vars PROVE TypeOK'
  OBVIOUS
<1> USE LimitsAssumption, NoClientType, ErrorTypes
<1>1. CASE Tick
  <2>1. Cached' = Cached /\ \A h \in Cached : cache'[h] \in [client : ClientType, left : 0 .. TTL]
    <3>1. ASSUME NEW h \in Cached
          PROVE  [client |-> Older(cache[h].client), left |-> Monus(cache[h].left, 1)]
                    \in [client : ClientType, left : 0 .. TTL]
      BY <3>1, OlderClient, CountDown DEF TypeOK
    <3> QED
      BY <1>1, <3>1 DEF Tick, Cached
  <2>2. client' \in [Tasks -> ClientType]
    BY <1>1, OlderClient DEF Tick, TypeOK
  <2>3. age' \in [Tasks -> 0 .. ConnectTimeout]
    BY <1>1 DEF Tick, TypeOK
  <2> QED
    BY <1>1, <2>1, <2>2, <2>3 DEF Tick, TypeOK
<1>2. ASSUME NEW t \in Tasks, Task(t) PROVE TypeOK'
  <2>1. ASSUME NEW h \in Hosts, VettedClient(t, h) PROVE TypeOK'
    <3>1. host' \in [Tasks -> Hosts] /\ UNCHANGED <<allowLoopback, cache>>
      BY <2>1 DEF VettedClient, TypeOK
    <3>2. CASE h \in Cached /\ cache[h].left > 0
      <4>1. cache[h].client \in ClientType
        BY <3>2 DEF TypeOK
      <4>2. Ends(t, "ready", cache[h].client, NoError)
        BY <2>1, <3>2 DEF VettedClient
      <4> QED
        BY <3>1, <4>1, <4>2, EndsType DEF TypeOK, PC, Cached
    <3>3. CASE ~(h \in Cached /\ cache[h].left > 0)
      <4>1. Ends(t, "lookup", NoClient, NoError)
        BY <2>1, <3>3 DEF VettedClient
      <4> QED
        BY <3>1, <4>1, EndsType DEF TypeOK, PC, Cached
    <3> QED
      BY <3>2, <3>3
  <2>2. ASSUME NEW addrs \in SUBSET Addresses, Resolve(t, addrs) PROVE TypeOK'
    <3>1. Client(addrs, 0) \in ClientType
      BY DEF Client, ClientType, Old
    <3> QED
      BY <2>2, <3>1 DEF Resolve, TypeOK, PC, Cached
  <2>3. CASE Vet(t)
    <3>1. \/ Ends(t, "failed", NoClient, Err("Network"))
          \/ Ends(t, "failed", NoClient, Err("Config"))
          \/ Ends(t, "vetted", client[t], NoError)
      BY <2>3 DEF Vet
    <3>2. client[t] \in ClientType
      BY DEF TypeOK
    <3>3. /\ pc' \in [Tasks -> PC]
          /\ client' \in [Tasks -> ClientType]
          /\ err' \in [Tasks -> PushError \cup {NoError}]
          /\ age' \in [Tasks -> 0 .. ConnectTimeout]
      BY <3>1, <3>2, EndsType DEF PC
    <3> QED
      BY <2>3, <3>3 DEF Vet, TypeOK, Cached
  <2>4. CASE LookupFails(t)
    BY <2>4, EndsType DEF LookupFails, TypeOK, PC, Cached
  <2>5. CASE BuildFails(t)
    BY <2>5, EndsType DEF BuildFails, TypeOK, PC, Cached
  <2>6. CASE Insert(t)
    <3> DEFINE live == [h \in {g \in Cached : cache[g].left > 0} |-> cache[h]]
    <3> DEFINE room == MakeRoom(live)
    <3>1. DOMAIN room \subseteq Cached /\ \A h \in DOMAIN room : room[h] = cache[h]
      BY DEF MakeRoom
    <3>2. cache' = [h \in DOMAIN room \cup {host[t]} |->
                       IF h = host[t] THEN [client |-> client[t], left |-> TTL] ELSE room[h]]
      BY <2>6 DEF Insert
    <3>3. client[t] \in ClientType /\ host[t] \in Hosts
      BY DEF TypeOK
    <3> HIDE DEF room
    <3>4. /\ DOMAIN cache' \subseteq Hosts
          /\ \A h \in DOMAIN cache' : cache'[h] \in [client : ClientType, left : 0 .. TTL]
      BY <3>1, <3>2, <3>3 DEF TypeOK, Cached
    <3>5. Ends(t, "ready", client[t], NoError) /\ UNCHANGED <<allowLoopback, host>>
      BY <2>6 DEF Insert
    <3> QED
      BY <3>3, <3>4, <3>5, EndsType DEF TypeOK, PC, Cached
  <2>7. CASE Cancel(t)
    BY <2>7, EndsType DEF Cancel, TypeOK, PC, Cached
  <2>8. CASE Return(t)
    BY <2>8, EndsType DEF Return, TypeOK, PC, Cached
  <2> QED
    BY <1>2, <2>1, <2>2, <2>3, <2>4, <2>5, <2>6, <2>7, <2>8 DEF Task
<1>3. CASE UNCHANGED vars
  BY <1>3 DEF vars, TypeOK, Cached
<1> QED
  BY <1>1, <1>2, <1>3 DEF Next

(* The state of the cache and of every call keeps its type. *)
THEOREM TypeCorrect == Spec => []TypeOK
BY InitTypeOK, NextTypeOK, PTL DEF Spec

-----------------------------------------------------------------------------
(* What is pinned *)

LEMMA PinnedIsFine ==
    PinnedIsVetted <=> /\ \A h \in Cached : Fine(cache[h].client)
                       /\ \A t \in Tasks : pc[t] \in {"vetted", "ready"} => Fine(client[t])
BY DEF PinnedIsVetted, Fine, Permitted

LEMMA InitPinned == Init => PinnedIsVetted
BY PinnedIsFine DEF Init, Cached

LEMMA NextPinned == TypeOK /\ PinnedIsVetted /\ [Next]_vars => PinnedIsVetted'
<1> SUFFICES ASSUME TypeOK, PinnedIsVetted, [Next]_vars PROVE PinnedIsVetted'
  OBVIOUS
<1> DEFINE P(addrs) == addrs # {} /\ addrs \subseteq Permitted
<1>1. /\ \A h \in Cached : P(cache[h].client.addrs)
      /\ \A t \in Tasks : pc[t] \in {"vetted", "ready"} => P(client[t].addrs)
  BY PinnedIsFine DEF Fine
<1>2. allowLoopback' = allowLoopback
  BY DEF Next, Task, VettedClient, Resolve, Vet, LookupFails, BuildFails, Insert, Cancel,
         Return, Tick, vars
<1>3. SUFFICES /\ \A h \in Cached' : P(cache'[h].client.addrs)
               /\ \A t \in Tasks : pc'[t] \in {"vetted", "ready"} => P(client'[t].addrs)
  BY <1>2 DEF PinnedIsVetted, Permitted
<1> HIDE DEF P
<1>4. CASE Tick
  <2>1. Cached' = Cached /\ \A h \in Cached : cache'[h].client = Older(cache[h].client)
    BY <1>4 DEF Tick, Cached
  <2>2. \A t \in Tasks : client'[t].addrs = client[t].addrs
    BY <1>4, OlderClient DEF Tick, TypeOK
  <2>3. \A h \in Cached : cache'[h].client.addrs = cache[h].client.addrs
    BY <2>1, OlderClient DEF TypeOK
  <2>4. pc' = pc
    BY <1>4 DEF Tick
  <2> QED
    BY <1>1, <2>1, <2>2, <2>3, <2>4
<1>5. ASSUME NEW t \in Tasks, Task(t)
      PROVE  /\ \A h \in Cached' : P(cache'[h].client.addrs)
             /\ \A u \in Tasks : pc'[u] \in {"vetted", "ready"} => P(client'[u].addrs)
  <2> USE DEF TypeOK
  <2>0. ASSUME NEW at \in PC, NEW c, NEW x, Ends(t, at, c, x),
               at \in {"vetted", "ready"} => P(c.addrs)
        PROVE  \A u \in Tasks : pc'[u] \in {"vetted", "ready"} => P(client'[u].addrs)
    BY <1>1, <2>0 DEF Ends
  <2>1. ASSUME NEW h \in Hosts, VettedClient(t, h)
        PROVE  /\ UNCHANGED cache
               /\ \A u \in Tasks : pc'[u] \in {"vetted", "ready"} => P(client'[u].addrs)
    <3>1. CASE h \in Cached /\ cache[h].left > 0
      BY <1>1, <2>0, <2>1, <3>1 DEF VettedClient, PC
    <3>2. CASE ~(h \in Cached /\ cache[h].left > 0)
      BY <2>0, <2>1, <3>2 DEF VettedClient, PC
    <3> QED
      BY <2>1, <3>1, <3>2 DEF VettedClient
  <2>2. ASSUME NEW addrs \in SUBSET Addresses, Resolve(t, addrs)
        PROVE  /\ UNCHANGED cache
               /\ \A u \in Tasks : pc'[u] \in {"vetted", "ready"} => P(client'[u].addrs)
    BY <1>1, <2>2 DEF Resolve
  <2>3. ASSUME Vet(t)
        PROVE  /\ UNCHANGED cache
               /\ \A u \in Tasks : pc'[u] \in {"vetted", "ready"} => P(client'[u].addrs)
    <3>1. CASE client[t].addrs = {} \/ Refused(client[t].addrs)
      <4>1. \/ Ends(t, "failed", NoClient, Err("Network"))
            \/ Ends(t, "failed", NoClient, Err("Config"))
        BY <2>3, <3>1 DEF Vet
      <4> QED
        BY <2>0, <2>3, <4>1 DEF Vet, PC
    <3>2. CASE client[t].addrs # {} /\ ~Refused(client[t].addrs)
      <4>1. client[t].addrs \subseteq Addresses
        BY DEF ClientType
      <4>2. client[t].addrs \subseteq Permitted
        BY <3>2, <4>1 DEF Refused, Permitted
      <4>3. P(client[t].addrs)
        BY <3>2, <4>2 DEF P
      <4>4. Ends(t, "vetted", client[t], NoError)
        BY <2>3, <3>2 DEF Vet
      <4> QED
        BY <2>0, <2>3, <4>3, <4>4 DEF Vet, PC
    <3> QED
      BY <3>1, <3>2
  <2>4. ASSUME LookupFails(t) \/ BuildFails(t) \/ Cancel(t) \/ Return(t)
        PROVE  /\ UNCHANGED cache
               /\ \A u \in Tasks : pc'[u] \in {"vetted", "ready"} => P(client'[u].addrs)
    BY <2>0, <2>4 DEF LookupFails, BuildFails, Cancel, Return, PC
  <2>5. CASE Insert(t)
    <3> DEFINE live == [h \in {g \in Cached : cache[g].left > 0} |-> cache[h]]
    <3> DEFINE room == MakeRoom(live)
    <3>1. DOMAIN room \subseteq Cached /\ \A h \in DOMAIN room : room[h] = cache[h]
      BY DEF MakeRoom
    <3>2. cache' = [h \in DOMAIN room \cup {host[t]} |->
                       IF h = host[t] THEN [client |-> client[t], left |-> TTL] ELSE room[h]]
      BY <2>5 DEF Insert
    <3>3. P(client[t].addrs)
      BY <1>1, <2>5 DEF Insert
    <3> HIDE DEF room
    <3>4. \A h \in Cached' : P(cache'[h].client.addrs)
      BY <1>1, <3>1, <3>2, <3>3 DEF Cached
    <3> QED
      BY <2>0, <2>5, <3>3, <3>4 DEF Insert, PC
  <2>6. UNCHANGED cache => \A h \in Cached' : P(cache'[h].client.addrs)
    BY <1>1 DEF Cached
  <2> QED
    BY <1>5, <2>1, <2>2, <2>3, <2>4, <2>5, <2>6 DEF Task
<1>6. CASE UNCHANGED vars
  BY <1>1, <1>6 DEF vars, Cached
<1> QED
  BY <1>4, <1>5, <1>6 DEF Next

(* Whatever DNS answers to whom and when, what is cached or handed out     *)
(* connects to permitted addresses only.                                   *)
THEOREM OnlyVettedIsPinned == Spec => []PinnedIsVetted
BY InitTypeOK, NextTypeOK, InitPinned, NextPinned, PTL DEF Spec

-----------------------------------------------------------------------------
(* How much is cached *)

LEMMA InitBound == Init => BoundInv
<1> SUFFICES ASSUME Init PROVE BoundInv
  OBVIOUS
<1>1. Cached = {}
  BY DEF Init, Cached
<1> QED
  BY <1>1, FS_EmptySet, LimitsAssumption DEF BoundInv, CacheBounded

LEMMA AddOne ==
    ASSUME NEW S, IsFiniteSet(S), NEW x
    PROVE  /\ IsFiniteSet(S \cup {x})
           /\ Cardinality(S) \in Nat
           /\ Cardinality(S \cup {x}) \in Nat
           /\ Cardinality(S \cup {x}) <= Cardinality(S) + 1
<1>1. /\ IsFiniteSet(S \cup {x})
      /\ Cardinality(S \cup {x}) = IF x \in S THEN Cardinality(S) ELSE Cardinality(S) + 1
  BY FS_AddElement
<1>2. Cardinality(S) \in Nat
  BY FS_CardinalityType
<1> QED
  BY <1>1, <1>2

LEMMA NextBound == BoundInv /\ [Next]_vars => BoundInv'
<1> SUFFICES ASSUME BoundInv, [Next]_vars PROVE BoundInv'
  OBVIOUS
<1>1. ASSUME NEW t \in Tasks, Insert(t) PROVE BoundInv'
  <2> DEFINE live == [h \in {g \in Cached : cache[g].left > 0} |-> cache[h]]
  <2> DEFINE room == MakeRoom(live)
  <2>1. IsFiniteSet(DOMAIN live)
    BY FS_Subset DEF BoundInv
  <2>2. IsFiniteSet(DOMAIN room) /\ Cardinality(DOMAIN room) < MaxClients
    <3>1. CASE Cardinality(DOMAIN live) >= MaxClients
      <4>1. DOMAIN room = {}
        BY <3>1 DEF MakeRoom
      <4> QED
        BY <4>1, FS_EmptySet, LimitsAssumption
    <3>2. CASE ~(Cardinality(DOMAIN live) >= MaxClients)
      <4>1. room = live
        BY <3>2 DEF MakeRoom
      <4>2. Cardinality(DOMAIN live) \in Nat
        BY <2>1, FS_CardinalityType
      <4> HIDE DEF live, room
      <4> QED
        BY <2>1, <3>2, <4>1, <4>2, LimitsAssumption
    <3> QED
      BY <3>1, <3>2
  <2>3. Cached' = DOMAIN room \cup {host[t]}
    BY <1>1 DEF Insert, Cached
  <2> HIDE DEF room
  <2>4. /\ IsFiniteSet(DOMAIN room \cup {host[t]})
        /\ Cardinality(DOMAIN room) \in Nat
        /\ Cardinality(DOMAIN room \cup {host[t]}) \in Nat
        /\ Cardinality(DOMAIN room \cup {host[t]}) <= Cardinality(DOMAIN room) + 1
    BY <2>2, AddOne
  <2> QED
    BY <2>2, <2>3, <2>4, LimitsAssumption DEF BoundInv, CacheBounded
<1>2. CASE Cached' = Cached
  BY <1>2 DEF BoundInv, CacheBounded
<1>3. (\E t \in Tasks : Insert(t)) \/ Cached' = Cached
  BY DEF Next, Task, VettedClient, Resolve, Vet, LookupFails, BuildFails, Cancel, Return,
         Tick, vars, Cached
<1> QED
  BY <1>1, <1>2, <1>3

(* Any number of calls that insert at once leave the cache within its cap. *)
THEOREM CapKept == Spec => []CacheBounded
<1>1. BoundInv => CacheBounded
  BY DEF BoundInv
<1> QED
  BY <1>1, InitBound, NextBound, PTL DEF Spec

-----------------------------------------------------------------------------
(* How old an answer may be *)

LEMMA InitAge == Init => AgeInv
<1> SUFFICES ASSUME Init PROVE AgeInv
  OBVIOUS
<1>1. Cached = {} /\ \A t \in Tasks : pc[t] = "idle"
  BY DEF Init, Cached
<1> QED
  BY <1>1 DEF AgeInv, AnswerAgeBounded

LEMMA NextAge == TypeOK /\ AgeInv /\ [Next]_vars => AgeInv'
<1> SUFFICES ASSUME TypeOK, AgeInv, [Next]_vars PROVE AgeInv'
  OBVIOUS
<1> USE LimitsAssumption
<1> DEFINE Entry(e) == e.left > 0 => e.client.old + e.left <= TTL + ConnectTimeout
<1> DEFINE Call(at, c, a) ==
              /\ at = "answered" => c.old <= a
              /\ at = "vetted" => c.old <= ConnectTimeout
              /\ at = "ready" => c.old <= TTL + ConnectTimeout
<1>1. /\ \A h \in Cached : Entry(cache[h])
      /\ \A t \in Tasks : Call(pc[t], client[t], age[t])
  BY DEF AgeInv, AnswerAgeBounded
<1>2. SUFFICES /\ \A h \in Cached' : Entry(cache'[h])
               /\ \A t \in Tasks : Call(pc'[t], client'[t], age'[t])
  BY DEF AgeInv, AnswerAgeBounded
<1>3. \A t \in Tasks : /\ client[t] \in ClientType /\ client[t].old \in Nat
                       /\ age[t] \in 0 .. ConnectTimeout
  BY DEF TypeOK, ClientType, Old
<1>4. \A h \in Cached : /\ cache[h].client \in ClientType /\ cache[h].client.old \in Nat
                        /\ cache[h].left \in Nat
  BY DEF TypeOK, ClientType, Old
<1>5. CASE Tick
  <2>1. ASSUME NEW h \in Cached PROVE Entry(cache'[h])
    <3>1. cache'[h] = [client |-> Older(cache[h].client), left |-> Monus(cache[h].left, 1)]
      BY <1>5, <2>1 DEF Tick
    <3>2. Older(cache[h].client).old <= cache[h].client.old + 1
          /\ Older(cache[h].client).old \in Nat
      BY <1>4, <2>1, OlderClient DEF ClientType, Old
    <3>3. /\ Monus(cache[h].left, 1) \in Nat
          /\ Monus(cache[h].left, 1) > 0 =>
                Monus(cache[h].left, 1) = cache[h].left - 1 /\ cache[h].left > 0
      BY <1>4, <2>1, CountDown DEF Monus
    <3> QED
      BY <1>1, <1>4, <2>1, <3>1, <3>2, <3>3
  <2>2. ASSUME NEW t \in Tasks PROVE Call(pc'[t], client'[t], age'[t])
    <3>1. pc'[t] = pc[t] /\ pc[t] \notin {"vetted", "ready", "failed"}
      BY <1>5 DEF Tick
    <3>2. client'[t] = Older(client[t])
      BY <1>5 DEF Tick
    <3>3. Older(client[t]).old <= client[t].old + 1 /\ Older(client[t]).old \in Nat
      BY <1>3, OlderClient DEF ClientType, Old
    <3>4. pc[t] = "answered" => age'[t] = age[t] + 1
      BY <1>5 DEF Tick, InLookup
    <3> QED
      BY <1>1, <1>3, <3>1, <3>2, <3>3, <3>4
  <2> QED
    BY <1>5, <2>1, <2>2 DEF Tick, Cached
<1>6. ASSUME NEW t \in Tasks, Task(t)
      PROVE  /\ \A h \in Cached' : Entry(cache'[h])
             /\ \A u \in Tasks : Call(pc'[u], client'[u], age'[u])
  <2>0. ASSUME NEW at \in PC, NEW c, NEW x, Ends(t, at, c, x), Call(at, c, 0)
        PROVE  \A u \in Tasks : Call(pc'[u], client'[u], age'[u])
    <3>1. /\ pc'[t] = at /\ client'[t] = c /\ age'[t] = 0
          /\ \A u \in Tasks \ {t} : pc'[u] = pc[u] /\ client'[u] = client[u] /\ age'[u] = age[u]
      BY <2>0 DEF Ends, TypeOK
    <3> QED
      BY <1>1, <2>0, <3>1
  <2>1. UNCHANGED cache => \A h \in Cached' : Entry(cache'[h])
    BY <1>1 DEF Cached
  <2>2. ASSUME NEW h \in Hosts, VettedClient(t, h)
        PROVE  UNCHANGED cache /\ \A u \in Tasks : Call(pc'[u], client'[u], age'[u])
    <3>1. CASE h \in Cached /\ cache[h].left > 0
      <4>1. cache[h].client.old <= TTL + ConnectTimeout
        BY <1>1, <1>4, <3>1
      <4>2. Ends(t, "ready", cache[h].client, NoError)
        BY <2>2, <3>1 DEF VettedClient
      <4> QED
        BY <2>0, <2>2, <4>1, <4>2 DEF VettedClient, PC
    <3>2. CASE ~(h \in Cached /\ cache[h].left > 0)
      <4>1. Ends(t, "lookup", NoClient, NoError)
        BY <2>2, <3>2 DEF VettedClient
      <4> QED
        BY <2>0, <2>2, <4>1 DEF VettedClient, PC
    <3> QED
      BY <3>1, <3>2
  <2>3. ASSUME NEW addrs \in SUBSET Addresses, Resolve(t, addrs)
        PROVE  UNCHANGED cache /\ \A u \in Tasks : Call(pc'[u], client'[u], age'[u])
    <3>1. /\ pc'[t] = "answered" /\ client'[t].old = 0 /\ age' = age
          /\ \A u \in Tasks \ {t} : pc'[u] = pc[u] /\ client'[u] = client[u]
      BY <2>3 DEF Resolve, Client, TypeOK
    <3> QED
      BY <1>1, <1>3, <2>3, <3>1 DEF Resolve
  <2>4. ASSUME Vet(t)
        PROVE  UNCHANGED cache /\ \A u \in Tasks : Call(pc'[u], client'[u], age'[u])
    <3>1. client[t].old <= ConnectTimeout
      BY <1>1, <1>3, <2>4 DEF Vet
    <3>2. \/ Ends(t, "failed", NoClient, Err("Network"))
          \/ Ends(t, "failed", NoClient, Err("Config"))
          \/ Ends(t, "vetted", client[t], NoError)
      BY <2>4 DEF Vet
    <3> QED
      BY <2>0, <2>4, <3>1, <3>2 DEF Vet, PC
  <2>5. ASSUME LookupFails(t) \/ BuildFails(t) \/ Cancel(t) \/ Return(t)
        PROVE  UNCHANGED cache /\ \A u \in Tasks : Call(pc'[u], client'[u], age'[u])
    BY <2>0, <2>5 DEF LookupFails, BuildFails, Cancel, Return, PC
  <2>6. CASE Insert(t)
    <3> DEFINE live == [h \in {g \in Cached : cache[g].left > 0} |-> cache[h]]
    <3> DEFINE room == MakeRoom(live)
    <3>1. DOMAIN room \subseteq Cached /\ \A h \in DOMAIN room : room[h] = cache[h]
      BY DEF MakeRoom
    <3>2. cache' = [h \in DOMAIN room \cup {host[t]} |->
                       IF h = host[t] THEN [client |-> client[t], left |-> TTL] ELSE room[h]]
      BY <2>6 DEF Insert
    <3>3. client[t].old <= ConnectTimeout
      BY <1>1, <2>6 DEF Insert
    <3> HIDE DEF room
    <3>4. Entry([client |-> client[t], left |-> TTL])
      BY <1>3, <3>3
    <3> HIDE DEF Entry
    <3>5. \A h \in Cached' : Entry(cache'[h])
      BY <1>1, <3>1, <3>2, <3>4 DEF Cached
    <3>6. client[t].old <= TTL + ConnectTimeout
      BY <1>3, <3>3
    <3> QED
      BY <2>0, <2>6, <3>5, <3>6 DEF Insert, PC
  <2> HIDE DEF Entry, Call
  <2> QED
    BY <1>6, <2>1, <2>2, <2>3, <2>4, <2>5, <2>6 DEF Task
<1>7. CASE UNCHANGED vars
  BY <1>1, <1>7 DEF vars, Cached
<1> QED
  BY <1>5, <1>6, <1>7 DEF Next

(* However concurrent lookups for one host overwrite each other, no client *)
(* is handed out on an answer older than the time to live and one lookup.  *)
THEOREM AnswersStayFresh == Spec => []AnswerAgeBounded
<1>1. AgeInv => AnswerAgeBounded
  BY DEF AgeInv
<1> QED
  BY <1>1, InitTypeOK, NextTypeOK, InitAge, NextAge, PTL DEF Spec

-----------------------------------------------------------------------------
(***************************************************************************)
(* The sends, for any number of them at once over one client cache: where  *)
(* a request connects, when a send is over, and that the cache is used as  *)
(* PinnedClients says.                                                     *)
(***************************************************************************)

(* Where a send is, and what its calls left behind.                        *)
StageInv ==
    \A t \in Tasks :
       /\ stage[t] \in {"idle", "sent"} => pc[t] = "idle"
       /\ stage[t] = "client" =>
             /\ endpoint[t] # NotAUrl
             /\ pc[t] = "idle"
                   => ValidateEndpoint(endpoint[t], allowLoopback) = "Literal"
             /\ pc[t] # "idle"
                   => ValidateEndpoint(endpoint[t], allowLoopback) = "Domain"

(* A send waits for DNS as long as its lookup, and only then; what it      *)
(* spent there it keeps while its request is out.                          *)
TimeInv ==
    \A t \in Tasks :
       /\ stage[t] = "idle" => total[t] = 0
       /\ stage[t] = "client" /\ InLookup(t) => total[t] <= age[t]
       /\ stage[t] = "client" /\ ~InLookup(t) => total[t] <= ConnectTimeout
       /\ stage[t] = "sent" => total[t] <= ConnectTimeout + spent[t]

SendIInv ==
    SendTypeOK /\ PinnedIsVetted /\ StageInv /\ ConnectsOnlyWherePermitted /\ TimeInv

-----------------------------------------------------------------------------
(* What validate_endpoint lets through.                                    *)
LEMMA ValidatedEndpoint ==
    ASSUME NEW url \in Urls, NEW allow \in BOOLEAN
    PROVE  /\ ValidateEndpoint(url, allow) = "Domain"
                 => url.scheme = "https" /\ url.host \notin IpAddr /\ url.host # "localhost"
           /\ ValidateEndpoint(url, allow) = "Literal"
                 => \/ url.scheme = "https" /\ url.host \in {"public4", "public6"}
                    \/ allow /\ url.host \in IpAddr /\ IsPureLoopback(url.host)
                    \/ allow /\ url.host = "localhost"
<1>1. url.scheme \in Schemes /\ url.host \in Names \cup IpAddr
  BY DEF Urls
<1>2. \A h \in IpAddr : IsInternalAddr(h) \/ h \in {"public4", "public6"}
  BY DEF IpAddr, V4, V6, IsInternalAddr, IsInternalV4, IsInternalV6
<1>3. \A h \in IpAddr : LoopbackLiteral(h) => IsPureLoopback(h)
  BY DEF IpAddr, V4, V6, LoopbackLiteral, IsLoopbackHost, IsPureLoopback,
         V4IsLoopback, V6IsLoopback, ToIpv4, ToIpv4Mapped
<1>4. \A h \in Names : LoopbackLiteral(h) => h = "localhost"
  BY DEF Names, PublicNames, InternalNames, LoopbackLiteral, IsLoopbackHost, V4, V6
<1>5. LoopbackLiteral("localhost")
  BY DEF LoopbackLiteral, IsLoopbackHost
<1>6. CASE LoopbackLiteral(url.host)
  BY <1>1, <1>3, <1>4, <1>6 DEF ValidateEndpoint
<1>7. CASE ~LoopbackLiteral(url.host)
  <2>1. url.host # "localhost"
    BY <1>5, <1>7
  <2>2. ValidateEndpoint(url, allow) \in {"Literal", "Domain"}
           => url.scheme = "https" /\ ~(url.host \in IpAddr /\ IsInternalAddr(url.host))
    BY <1>7 DEF ValidateEndpoint
  <2>3. /\ ValidateEndpoint(url, allow) = "Literal" => url.host \in IpAddr
        /\ ValidateEndpoint(url, allow) = "Domain" => url.host \notin IpAddr
    BY <1>7 DEF ValidateEndpoint
  <2> QED
    BY <1>2, <2>1, <2>2, <2>3
<1> QED
  BY <1>6, <1>7

LEMMA PermittedAddress ==
    ASSUME NEW a \in Addresses,
           a \notin Internal \/ (allowLoopback /\ a \in Loopback)
    PROVE  a \in {"public4", "public6"} \/ (allowLoopback /\ IsPureLoopback(a))
<1>1. a \in IpAddr /\ (a \in Internal <=> IsInternalAddr(a))
  BY ClassesAssumption
<1>2. a \in Loopback => IsPureLoopback(a)
  BY ClassesAssumption
<1>3. IsInternalAddr(a) \/ a \in {"public4", "public6"}
  BY <1>1 DEF IpAddr, V4, V6, IsInternalAddr, IsInternalV4, IsInternalV6
<1> QED
  BY <1>1, <1>2, <1>3

LEMMA LocalhostAddresses ==
    /\ SystemLookup("localhost", Addresses) \subseteq IpAddr
    /\ \A a \in SystemLookup("localhost", Addresses) : IsPureLoopback(a)
BY DEF SystemLookup, IpAddr, V4, V6, IsPureLoopback, V4IsLoopback, V6IsLoopback

-----------------------------------------------------------------------------
(* Every step is a step of the cache or leaves it alone.                   *)
LEMMA StepOfCache == [SendNext]_allVars => [Next]_vars
<1> SUFFICES ASSUME [SendNext]_allVars PROVE [Next]_vars
  OBVIOUS
<1> USE DEF Next, Task
<1>1. CASE TimePasses
  BY <1>1 DEF TimePasses
<1>2. ASSUME NEW t \in Tasks, NEW url \in Endpoint, Send(t, url) PROVE [Next]_vars
  <2>1. CASE ValidateEndpoint(url, allowLoopback) = "Domain" /\ VettedClient(t, url.host)
    <3>1. url \in Urls /\ (url.host \in PublicNames => url.host \in Hosts)
      BY <1>2 DEF Send, Endpoint
    <3>2. url.host \in PublicNames
      BY <2>1, <3>1 DEF ValidateEndpoint, Urls, Names, LoopbackLiteral, IsLoopbackHost
    <3> QED
      BY <2>1, <3>1, <3>2
  <2> QED
    BY <1>2, <2>1 DEF Send
<1>3. ASSUME NEW t \in Tasks, Lookup(t) PROVE [Next]_vars
  BY <1>3 DEF Lookup
<1>4. ASSUME NEW t \in Tasks, Post(t) PROVE [Next]_vars
  BY <1>4 DEF Post, GotClient
<1>5. ASSUME NEW t \in Tasks, FailLocally(t) PROVE [Next]_vars
  BY <1>5 DEF FailLocally, GotClient
<1>6. ASSUME NEW t \in Tasks, Finish(t) PROVE [Next]_vars
  BY <1>6 DEF Finish
<1>7. ASSUME NEW t \in Tasks, DropSend(t) PROVE [Next]_vars
  BY <1>7 DEF DropSend
<1>8. CASE UNCHANGED allVars
  BY <1>8 DEF allVars
<1> QED
  BY <1>1, <1>2, <1>3, <1>4, <1>5, <1>6, <1>7, <1>8 DEF SendNext

LEMMA EntersType ==
    ASSUME SendTypeOK, NEW t \in Tasks, NEW to \in {"idle", "client", "sent"},
           NEW url \in Endpoint, NEW a \in IpAddr \cup {NoAddress}, Enters(t, to, url, a)
    PROVE  /\ stage' \in [Tasks -> {"idle", "client", "sent"}]
           /\ endpoint' \in [Tasks -> Endpoint]
           /\ wire' \in [Tasks -> IpAddr \cup {NoAddress}]
           /\ spent' \in [Tasks -> 0 .. RequestTimeout]
           /\ total' \in [Tasks -> Nat]
           /\ stage'[t] = to /\ endpoint'[t] = url /\ wire'[t] = a /\ spent'[t] = 0
           /\ total'[t] = IF to = "sent" THEN total[t] ELSE 0
           /\ \A s \in Tasks \ {t} : /\ stage'[s] = stage[s] /\ endpoint'[s] = endpoint[s]
                                     /\ wire'[s] = wire[s] /\ spent'[s] = spent[s]
                                     /\ total'[s] = total[s]
BY RequestTimeoutAssumption DEF SendTypeOK, Enters

(* What one step of a send leaves true of it; the other sends keep theirs. *)
SendInv(t) ==
    /\ stage[t] \in {"idle", "sent"} => pc[t] = "idle"
    /\ stage[t] = "client" =>
          /\ endpoint[t] # NotAUrl
          /\ pc[t] = "idle" => ValidateEndpoint(endpoint[t], allowLoopback) = "Literal"
          /\ pc[t] # "idle" => ValidateEndpoint(endpoint[t], allowLoopback) = "Domain"
    /\ stage[t] = "sent" =>
          \/ wire[t] \in {"public4", "public6"} /\ endpoint[t].scheme = "https"
          \/ allowLoopback /\ IsPureLoopback(wire[t])
    /\ stage[t] = "idle" => total[t] = 0
    /\ stage[t] = "client" /\ InLookup(t) => total[t] <= age[t]
    /\ stage[t] = "client" /\ ~InLookup(t) => total[t] <= ConnectTimeout
    /\ stage[t] = "sent" => total[t] <= ConnectTimeout + spent[t]

LEMMA SendIInvIs ==
    SendIInv <=> SendTypeOK /\ PinnedIsVetted /\ \A t \in Tasks : SendInv(t)
BY DEF SendIInv, StageInv, ConnectsOnlyWherePermitted, TimeInv, SendInv

LEMMA OneSend ==
    ASSUME NEW t \in Tasks, \A s \in Tasks : SendInv(s), SendInv(t)',
           \A s \in Tasks \ {t} :
              /\ stage'[s] = stage[s] /\ endpoint'[s] = endpoint[s] /\ wire'[s] = wire[s]
              /\ spent'[s] = spent[s] /\ total'[s] = total[s]
              /\ pc'[s] = pc[s] /\ age'[s] = age[s],
           allowLoopback' = allowLoopback
    PROVE  \A s \in Tasks : SendInv(s)'
<1>1. ASSUME NEW s \in Tasks \ {t} PROVE SendInv(s)'
  BY <1>1 DEF SendInv, InLookup
<1> QED
  BY <1>1

(* A step of PinnedClients that ends a call's part as Ends says.           *)
LEMMA EndsFields ==
    ASSUME TypeOK, NEW t \in Tasks, NEW at, NEW c, NEW e, Ends(t, at, c, e)
    PROVE  /\ pc'[t] = at /\ age'[t] = 0
           /\ \A s \in Tasks \ {t} : pc'[s] = pc[s] /\ age'[s] = age[s]
BY DEF TypeOK, Ends

LEMMA SendInitInv == SendInit => SendIInv
<1> SUFFICES ASSUME SendInit PROVE SendIInv
  OBVIOUS
<1>1. TypeOK /\ PinnedIsVetted
  BY InitTypeOK, InitPinned DEF SendInit
<1>2. SendTypeOK
  BY <1>1, RequestTimeoutAssumption DEF SendInit, SendTypeOK, Endpoint
<1>3. \A t \in Tasks : SendInv(t)
  BY DEF SendInit, Init, SendInv
<1> QED
  BY <1>1, <1>2, <1>3, SendIInvIs

LEMMA SendNextInv == SendIInv /\ [SendNext]_allVars => SendIInv'
<1> SUFFICES ASSUME SendIInv, [SendNext]_allVars PROVE SendIInv'
  OBVIOUS
<1>0. /\ SendTypeOK /\ TypeOK /\ PinnedIsVetted
      /\ \A t \in Tasks : SendInv(t)
  BY SendIInvIs DEF SendTypeOK
<1>1. TypeOK' /\ PinnedIsVetted'
  BY <1>0, StepOfCache, NextTypeOK, NextPinned
<1>2. SUFFICES SendTypeOK' /\ \A t \in Tasks : SendInv(t)'
  BY <1>1 DEF SendIInv, StageInv, ConnectsOnlyWherePermitted, TimeInv, SendInv
<1>3. \A t \in Tasks : age[t] \in 0 .. ConnectTimeout
  BY <1>0 DEF TypeOK
<1> USE LimitsAssumption, RequestTimeoutAssumption
<1>4. CASE TimePasses
  <2>1. /\ Tick
        /\ spent' = [t \in Tasks |-> IF stage[t] = "sent" THEN spent[t] + 1 ELSE 0]
        /\ total' = [t \in Tasks |-> IF stage[t] # "idle" THEN total[t] + 1 ELSE 0]
        /\ stage' = stage /\ endpoint' = endpoint /\ wire' = wire
    BY <1>4 DEF TimePasses
  <2>2. SendTypeOK'
    BY <1>0, <1>1, <1>4, <2>1 DEF SendTypeOK, TimePasses
  <2>3. ASSUME NEW t \in Tasks PROVE SendInv(t)'
    <3>1. /\ pc'[t] = pc[t] /\ allowLoopback' = allowLoopback
          /\ age'[t] = IF InLookup(t) THEN age[t] + 1 ELSE age[t]
          /\ InLookup(t)' = InLookup(t)
      BY <2>1 DEF Tick, InLookup
    <3>2. stage[t] = "client" => InLookup(t)
      BY <1>4 DEF TimePasses
    <3>3. total[t] \in Nat /\ spent[t] \in Nat /\ age[t] \in Nat
      BY <1>0, <1>3 DEF SendTypeOK
    <3> QED
      BY <1>0, <2>1, <3>1, <3>2, <3>3 DEF SendInv
  <2> QED
    BY <2>2, <2>3
<1>5. ASSUME NEW t \in Tasks, NEW url \in Endpoint, Send(t, url)
      PROVE  SendTypeOK' /\ \A s \in Tasks : SendInv(s)'
  <2>1. Enters(t, "client", url, NoAddress) /\ stage[t] = "idle" /\ url # NotAUrl
    BY <1>5 DEF Send
  <2>2. SendTypeOK'
    BY <1>0, <1>1, <2>1, EntersType DEF SendTypeOK
  <2>3. /\ allowLoopback' = allowLoopback
        /\ \A s \in Tasks \ {t} : pc'[s] = pc[s] /\ age'[s] = age[s]
        /\ pc'[t] = "idle" => ValidateEndpoint(url, allowLoopback) = "Literal"
        /\ pc'[t] # "idle" => ValidateEndpoint(url, allowLoopback) = "Domain"
    <3>1. CASE ValidateEndpoint(url, allowLoopback) = "Literal" /\ UNCHANGED vars
      BY <1>0, <2>1, <3>1 DEF vars, SendInv
    <3>2. CASE ValidateEndpoint(url, allowLoopback) = "Domain" /\ VettedClient(t, url.host)
      BY <1>0, <3>2, EndsFields DEF VettedClient
    <3> QED
      BY <1>5, <3>1, <3>2 DEF Send
  <2>4. SendInv(t)'
    BY <1>0, <1>1, <2>1, <2>3, EntersType DEF SendInv, TypeOK
  <2> QED
    BY <1>0, <2>1, <2>2, <2>3, <2>4, EntersType, OneSend
<1>6. ASSUME NEW t \in Tasks, Lookup(t)
      PROVE  SendTypeOK' /\ \A s \in Tasks : SendInv(s)'
  <2>1. /\ stage' = stage /\ endpoint' = endpoint /\ wire' = wire
        /\ spent' = spent /\ total' = total /\ stage[t] = "client"
    BY <1>6 DEF Lookup, sendVars
  <2>2. SendTypeOK'
    BY <1>0, <1>1, <2>1 DEF SendTypeOK
  <2>3. /\ allowLoopback' = allowLoopback
        /\ pc[t] # "idle" /\ pc'[t] # "idle"
        /\ InLookup(t)' => InLookup(t) /\ age'[t] = age[t]
        /\ \A s \in Tasks \ {t} : pc'[s] = pc[s] /\ age'[s] = age[s]
    <3>1. ASSUME NEW addrs \in SUBSET Addresses, Resolve(t, addrs)
          PROVE  /\ allowLoopback' = allowLoopback /\ pc[t] = "lookup"
                 /\ pc'[t] = "answered" /\ age' = age
                 /\ \A s \in Tasks \ {t} : pc'[s] = pc[s]
      BY <1>0, <3>1 DEF Resolve, TypeOK
    <3>2. ASSUME Vet(t) \/ LookupFails(t) \/ BuildFails(t) \/ Insert(t)
          PROVE  /\ allowLoopback' = allowLoopback
                 /\ pc[t] \in {"lookup", "answered", "vetted"}
                 /\ \E at \in {"failed", "vetted", "ready"} : \E c, e : Ends(t, at, c, e)
      BY <3>2 DEF Vet, LookupFails, BuildFails, Insert
    <3>3. ASSUME NEW at \in {"failed", "vetted", "ready"}, NEW c, NEW e, Ends(t, at, c, e)
          PROVE  /\ pc'[t] \in {"failed", "vetted", "ready"}
                 /\ \A s \in Tasks \ {t} : pc'[s] = pc[s] /\ age'[s] = age[s]
      BY <1>0, <3>3, EndsFields
    <3>4. CASE \E addrs \in SUBSET Addresses : Resolve(t, addrs)
      BY <3>1, <3>4 DEF InLookup
    <3>5. CASE Vet(t) \/ LookupFails(t) \/ BuildFails(t) \/ Insert(t)
      BY <3>2, <3>3, <3>5 DEF InLookup
    <3> QED
      BY <1>6, <3>4, <3>5 DEF Lookup
  <2>4. SendInv(t)'
    <3>1. total[t] \in Nat /\ (InLookup(t) => total[t] <= age[t])
          /\ (~InLookup(t) => total[t] <= ConnectTimeout)
      BY <1>0, <2>1 DEF SendInv, SendTypeOK
    <3>2. ~InLookup(t)' => total[t] <= ConnectTimeout
      BY <1>3, <3>1
    <3> QED
      BY <1>0, <2>1, <2>3, <3>1, <3>2 DEF SendInv
  <2> QED
    BY <1>0, <2>1, <2>2, <2>3, <2>4, OneSend
<1>7. ASSUME NEW t \in Tasks, Post(t)
      PROVE  SendTypeOK' /\ \A s \in Tasks : SendInv(s)'
  <2>1. PICK a \in Reachable(t) : Enters(t, "sent", endpoint[t], a)
    BY <1>7 DEF Post
  <2>2. stage[t] = "client" /\ pc[t] \in {"idle", "ready"} /\ GotClient(t)
    BY <1>7 DEF Post
  <2>3. endpoint[t] \in Urls /\ endpoint[t] \in Endpoint /\ allowLoopback \in BOOLEAN
    BY <1>0, <2>2 DEF SendTypeOK, TypeOK, SendInv, Endpoint
  <2>4. /\ a \in IpAddr
        /\ \/ a \in {"public4", "public6"} /\ endpoint[t].scheme = "https"
           \/ allowLoopback /\ IsPureLoopback(a)
    <3>1. CASE pc[t] = "ready"
      <4>1. Fine(client[t])
        BY <1>0, <3>1, PinnedIsFine
      <4>2. a \in Addresses /\ (a \notin Internal \/ (allowLoopback /\ a \in Loopback))
        <5>1. a \in client[t].addrs
          BY <3>1 DEF Reachable
        <5> QED
          BY <4>1, <5>1, AddressAssumption DEF Fine, Permitted
      <4>3. endpoint[t].scheme = "https"
        BY <1>0, <2>2, <2>3, <3>1, ValidatedEndpoint DEF SendInv
      <4> QED
        BY <4>2, <4>3, PermittedAddress, ClassesAssumption
    <3>2. CASE pc[t] = "idle"
      <4>1. ValidateEndpoint(endpoint[t], allowLoopback) = "Literal"
        BY <1>0, <2>2, <3>2 DEF SendInv
      <4>2. a \in IF endpoint[t].host \in IpAddr THEN {endpoint[t].host}
                  ELSE SystemLookup(endpoint[t].host, Addresses)
        BY <3>2 DEF Reachable
      <4>3. CASE endpoint[t].host = "localhost"
        <5>1. endpoint[t].host \notin IpAddr
          BY <4>3 DEF IpAddr, V4, V6
        <5>2. a \in SystemLookup("localhost", Addresses)
          BY <4>2, <4>3, <5>1
        <5>3. allowLoopback
          BY <2>3, <4>1, <4>3, <5>1, ValidatedEndpoint DEF IpAddr, V4, V6
        <5> QED
          BY <5>2, <5>3, LocalhostAddresses
      <4>4. CASE endpoint[t].host # "localhost"
        <5>1. endpoint[t].host \in IpAddr
          BY <2>3, <4>1, <4>4, ValidatedEndpoint DEF IpAddr, V4, V6
        <5>2. a = endpoint[t].host
          BY <4>2, <5>1
        <5> QED
          BY <2>3, <4>1, <4>4, <5>1, <5>2, ValidatedEndpoint
      <4> QED
        BY <4>3, <4>4
    <3> QED
      BY <2>2, <3>1, <3>2
  <2>5. SendTypeOK'
    BY <1>0, <1>1, <2>1, <2>3, <2>4, EntersType DEF SendTypeOK
  <2>6. /\ allowLoopback' = allowLoopback /\ pc'[t] = "idle"
        /\ \A s \in Tasks \ {t} : pc'[s] = pc[s] /\ age'[s] = age[s]
    BY <1>0, <2>2, EndsFields DEF GotClient, Return, vars
  <2>7. SendInv(t)'
    <3>1. total[t] <= ConnectTimeout /\ total[t] \in Nat
      BY <1>0, <2>2 DEF SendInv, SendTypeOK, InLookup
    <3> QED
      BY <1>0, <2>1, <2>3, <2>4, <2>6, <3>1, EntersType DEF SendInv
  <2> QED
    BY <1>0, <2>1, <2>3, <2>4, <2>5, <2>6, <2>7, EntersType, OneSend
<1>8. ASSUME NEW t \in Tasks, Enters(t, "idle", NotAUrl, NoAddress),
             allowLoopback' = allowLoopback, pc'[t] = "idle",
             \A s \in Tasks \ {t} : pc'[s] = pc[s] /\ age'[s] = age[s]
      PROVE  SendTypeOK' /\ \A s \in Tasks : SendInv(s)'
  <2>1. NotAUrl \in Endpoint
    BY DEF Endpoint
  <2>2. SendTypeOK'
    BY <1>0, <1>1, <1>8, <2>1, EntersType DEF SendTypeOK
  <2>3. SendInv(t)'
    BY <1>0, <1>8, <2>1, EntersType DEF SendInv
  <2> QED
    BY <1>0, <1>8, <2>1, <2>2, <2>3, EntersType, OneSend
<1>9. ASSUME NEW t \in Tasks, FailLocally(t)
      PROVE  SendTypeOK' /\ \A s \in Tasks : SendInv(s)'
  <2>1. /\ allowLoopback' = allowLoopback /\ pc'[t] = "idle"
        /\ \A s \in Tasks \ {t} : pc'[s] = pc[s] /\ age'[s] = age[s]
    BY <1>0, <1>9, EndsFields DEF FailLocally, GotClient, Return, vars
  <2> QED
    BY <1>8, <1>9, <2>1 DEF FailLocally
<1>10. ASSUME NEW t \in Tasks, Finish(t)
       PROVE  SendTypeOK' /\ \A s \in Tasks : SendInv(s)'
  <2>1. pc[t] = "idle"
    BY <1>0, <1>10 DEF Finish, SendInv
  <2> QED
    BY <1>8, <1>10, <2>1 DEF Finish, vars
<1>11. ASSUME NEW t \in Tasks, DropSend(t)
       PROVE  SendTypeOK' /\ \A s \in Tasks : SendInv(s)'
  <2>1. /\ allowLoopback' = allowLoopback /\ pc'[t] = "idle"
        /\ \A s \in Tasks \ {t} : pc'[s] = pc[s] /\ age'[s] = age[s]
    <3>1. CASE stage[t] = "client" /\ Cancel(t)
      BY <1>0, <3>1, EndsFields DEF Cancel
    <3>2. CASE stage[t] = "sent" /\ UNCHANGED vars
      BY <1>0, <3>2 DEF SendInv, vars
    <3> QED
      BY <1>11, <3>1, <3>2 DEF DropSend
  <2> QED
    BY <1>8, <1>11, <2>1 DEF DropSend
<1>12. CASE UNCHANGED allVars
  BY <1>0, <1>1, <1>12 DEF allVars, sendVars, vars, SendTypeOK, SendInv, InLookup
<1> QED
  BY <1>4, <1>5, <1>6, <1>7, <1>9, <1>10, <1>11, <1>12 DEF SendNext

LEMMA SendInvariance == SendSpec => []SendIInv
BY SendInitInv, SendNextInv, PTL DEF SendSpec

-----------------------------------------------------------------------------
(* The types of a send and of the cache under it.                          *)
THEOREM SendTypeCorrect == SendSpec => []SendTypeOK
<1>1. SendIInv => SendTypeOK
  BY DEF SendIInv
<1> QED
  BY SendInvariance, <1>1, PTL

(* However many sends share the cache, whatever a subscription says and    *)
(* whatever DNS answers: a request connects to a public address over https *)
(* or, where the configuration opted in, to a loopback address.            *)
THEOREM OnlyPermittedConnections == SendSpec => []ConnectsOnlyWherePermitted
<1>1. SendIInv => ConnectsOnlyWherePermitted
  BY DEF SendIInv
<1> QED
  BY SendInvariance, <1>1, PTL

(* A send is over within the connect timeout and the request timeout.      *)
THEOREM SendsEndInTime == SendSpec => []SendEndsInTime
<1>1. SendIInv => SendEndsInTime
  <2> SUFFICES ASSUME SendIInv, NEW t \in Tasks
               PROVE  total[t] <= ConnectTimeout + RequestTimeout
    BY DEF SendEndsInTime
  <2>1. /\ total[t] \in Nat /\ spent[t] \in 0 .. RequestTimeout
        /\ stage[t] \in {"idle", "client", "sent"} /\ age[t] \in 0 .. ConnectTimeout
    BY DEF SendIInv, SendTypeOK, TypeOK
  <2> QED
    BY <2>1, LimitsAssumption, RequestTimeoutAssumption DEF SendIInv, TimeInv
<1> QED
  BY SendInvariance, <1>1, PTL

(* The composition is built so that each step of a send is a step of the   *)
(* client cache or leaves it alone: what is proved of the cache holds      *)
(* under the sends.                                                        *)
LEMMA SendSpecIsSpec == SendSpec => Spec
<1>1. SendInit => Init
  BY DEF SendInit
<1> QED
  BY <1>1, StepOfCache, PTL DEF SendSpec, Spec
=============================================================================
