---------------------------- MODULE WebPushSend ----------------------------
(***************************************************************************)
(* A send of the Web Push provider up to the connection it opens           *)
(* (send_prepared in web_push.rs): the endpoint is validated, a DNS name   *)
(* goes through vetted_client, and the request is posted with the client   *)
(* that came of it.  Any number of sends run concurrently over the cache   *)
(* of PinnedClients.                                                       *)
(*                                                                         *)
(* stage says where a send is: idle, client (from the validation to the    *)
(* client; signing and encrypting follow without an await) or sent (the    *)
(* request is out, under the request timeout).                             *)
(***************************************************************************)
EXTENDS PinnedClients, Endpoints

CONSTANT RequestTimeout   \* config.timeout

ASSUME RequestTimeoutAssumption == RequestTimeout \in Nat
ASSUME NamesAssumption == Hosts \subseteq PublicNames
ASSUME ClassesAssumption ==
    /\ Addresses \subseteq IpAddr
    /\ Internal = {a \in Addresses : IsInternalAddr(a)}
    /\ Loopback = {a \in Addresses : IsPureLoopback(a)}

VARIABLES
    stage,
    endpoint,   \* the URL t sends to
    wire,       \* the address t's request is connected to
    spent,      \* how long t's request has been out
    total       \* how long t's send has been running

sendVars == <<stage, endpoint, wire, spent, total>>
allVars  == <<vars, sendVars>>

NoAddress == "none"

(* A subscription's endpoint is any string; its names are those of Hosts.  *)
Endpoint == {u \in Urls : u.host \in PublicNames => u.host \in Hosts} \cup {NotAUrl}

SendInit ==
    /\ Init
    /\ stage = [t \in Tasks |-> "idle"]
    /\ endpoint = [t \in Tasks |-> NotAUrl]
    /\ wire = [t \in Tasks |-> NoAddress]
    /\ spent = [t \in Tasks |-> 0]
    /\ total = [t \in Tasks |-> 0]

Enters(t, to, url, addr) ==
    /\ stage' = [stage EXCEPT ![t] = to]
    /\ endpoint' = [endpoint EXCEPT ![t] = url]
    /\ wire' = [wire EXCEPT ![t] = addr]
    /\ spent' = [spent EXCEPT ![t] = 0]
    /\ total' = [total EXCEPT ![t] = IF to = "sent" THEN @ ELSE 0]

(* A send to an endpoint that is not refused.  (A refused one ends here.)  *)
Send(t, url) ==
    /\ stage[t] = "idle"
    /\ url # NotAUrl
    /\ \/ ValidateEndpoint(url, allowLoopback) = "Literal" /\ UNCHANGED vars
       \/ ValidateEndpoint(url, allowLoopback) = "Domain" /\ VettedClient(t, url.host)
    /\ Enters(t, "client", url, NoAddress)

Lookup(t) ==
    /\ stage[t] = "client"
    /\ \/ \E addrs \in SUBSET Addresses : Resolve(t, addrs)
       \/ Vet(t)
       \/ LookupFails(t)
       \/ BuildFails(t)
       \/ Insert(t)
    /\ UNCHANGED sendVars

(* Definitions named Bug... are faults the properties must detect: each is *)
(* what the definition after it would be with a plausible mistake in it.   *)
BugSharedClient(t) ==
    IF endpoint[t].host \in IpAddr THEN {endpoint[t].host}
    ELSE SystemLookup(endpoint[t].host, Addresses)

(* A pinned client connects to its addresses; the shared client connects   *)
(* to the address in the URL, and resolves a name by itself.               *)
Reachable(t) ==
    IF pc[t] = "ready" THEN client[t].addrs
    ELSE IF endpoint[t].host \in IpAddr THEN {endpoint[t].host}
    ELSE SystemLookup(endpoint[t].host, Addresses)

(* vetted_client is not called, or it returned. *)
GotClient(t) == IF pc[t] = "idle" THEN UNCHANGED vars ELSE Return(t)

(* Signed, built and posted; the connection is opened.  The HTTP client    *)
(* takes no other scheme.                                                  *)
Post(t) ==
    /\ stage[t] = "client"
    /\ endpoint[t].scheme \in {"https", "http"}
    /\ pc[t] \in {"idle", "ready"}
    /\ \E a \in Reachable(t) : Enters(t, "sent", endpoint[t], a)
    /\ GotClient(t)

(* No client, or the signature, the size, the encryption or the URL of the *)
(* request fails.                                                          *)
FailLocally(t) ==
    /\ stage[t] = "client"
    /\ pc[t] \in {"idle", "ready", "failed"}
    /\ Enters(t, "idle", NotAUrl, NoAddress)
    /\ GotClient(t)

BugResend(t) ==
    /\ stage[t] = "sent"
    /\ spent' = [spent EXCEPT ![t] = 0]
    /\ UNCHANGED <<vars, stage, endpoint, wire, total>>

(* An answer, a transport failure, or the request timeout. *)
Finish(t) ==
    /\ stage[t] = "sent"
    /\ Enters(t, "idle", NotAUrl, NoAddress)
    /\ UNCHANGED vars

(* The caller drops the send at one of its awaits. *)
DropSend(t) ==
    /\ \/ stage[t] = "client" /\ Cancel(t)
       \/ stage[t] = "sent" /\ UNCHANGED vars
    /\ Enters(t, "idle", NotAUrl, NoAddress)

BugNoSendTimeout ==
    /\ Tick
    /\ \A t \in Tasks : stage[t] = "client" => InLookup(t)
    /\ spent' = [t \in Tasks |-> IF stage[t] = "sent" THEN spent[t] + 1 ELSE 0]
    /\ total' = [t \in Tasks |-> IF stage[t] # "idle" THEN total[t] + 1 ELSE 0]
    /\ UNCHANGED <<stage, endpoint, wire>>

(* One unit of time, within the request timeout of every request. *)
TimePasses ==
    /\ \A t \in Tasks : stage[t] = "sent" => spent[t] < RequestTimeout
    /\ Tick
    /\ \A t \in Tasks : stage[t] = "client" => InLookup(t)
    /\ spent' = [t \in Tasks |-> IF stage[t] = "sent" THEN spent[t] + 1 ELSE 0]
    /\ total' = [t \in Tasks |-> IF stage[t] # "idle" THEN total[t] + 1 ELSE 0]
    /\ UNCHANGED <<stage, endpoint, wire>>

SendNext ==
    \/ TimePasses
    \/ \E t \in Tasks :
          \/ \E url \in Endpoint : Send(t, url)
          \/ Lookup(t)
          \/ Post(t)
          \/ FailLocally(t)
          \/ Finish(t)
          \/ DropSend(t)

SendSpec == SendInit /\ [][SendNext]_allVars

-----------------------------------------------------------------------------
(* Properties *)

SendTypeOK ==
    /\ TypeOK
    /\ stage \in [Tasks -> {"idle", "client", "sent"}]
    /\ endpoint \in [Tasks -> Endpoint]
    /\ wire \in [Tasks -> IpAddr \cup {NoAddress}]
    /\ spent \in [Tasks -> 0 .. RequestTimeout]
    /\ total \in [Tasks -> Nat]

(* Whatever the endpoint says and whatever DNS answers, now or when the    *)
(* cached client was built, a request connects to a public address over    *)
(* https, or, where the configuration opted in, to a loopback address.     *)
(* This is what validate_endpoint, resolve_and_vet, the cache and the      *)
(* choice of the client promise together.                                  *)
ConnectsOnlyWherePermitted ==
    \A t \in Tasks : stage[t] = "sent" =>
        \/ wire[t] \in {"public4", "public6"} /\ endpoint[t].scheme = "https"
        \/ allowLoopback /\ IsPureLoopback(wire[t])

(* A send is over once the connect timeout, spent on the lookup, and then  *)
(* the request timeout have passed, whoever does not answer.               *)
SendEndsInTime ==
    \A t \in Tasks : total[t] <= ConnectTimeout + RequestTimeout
=============================================================================
