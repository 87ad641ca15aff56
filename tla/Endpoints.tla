----------------------------- MODULE Endpoints -----------------------------
(***************************************************************************)
(* The two checks of a URL before anything is sent to it: validate_endpoint*)
(* of the Web Push provider, and require_https_or_loopback, which FCM and  *)
(* APNS apply to the URLs of their configuration.                          *)
(*                                                                         *)
(* A URL is its scheme and its host.  One address stands for every address *)
(* the checks treat alike, and is written as a member of its class.        *)
(***************************************************************************)
V4 == {"public4", "10.0.0.1", "127.0.0.1", "127.0.0.2"}
V6 == {"public6", "fe80::1", "::1", "::ffff:127.0.0.1", "::127.0.0.1", "::ffff:10.0.0.1"}
IpAddr == V4 \cup V6

PublicNames   == {"push.example", "cdn.example"}
InternalNames == {"metadata.internal", "printer.local"}
Names == PublicNames \cup InternalNames \cup {"localhost"}

Schemes == {"https", "http", "ftp"}

Url(s, h) == [scheme |-> s, host |-> h]
Urls == [scheme : Schemes, host : Names \cup IpAddr]

(* A string that Url::parse refuses. *)
NotAUrl == Url("none", "none")

-----------------------------------------------------------------------------
(* What std and the egress classifier say of an address. *)
V4IsLoopback(a) == a \in {"127.0.0.1", "127.0.0.2"}
V6IsLoopback(a) == a = "::1"

(* The IPv4 address in an IPv6 one, or "none". *)
ToIpv4Mapped(a) ==
    CASE a = "::ffff:127.0.0.1" -> "127.0.0.1"
      [] a = "::ffff:10.0.0.1"  -> "10.0.0.1"
      [] OTHER                  -> "none"

ToIpv4(a) == IF a = "::127.0.0.1" THEN "127.0.0.1" ELSE ToIpv4Mapped(a)

IsInternalV4(a) == a # "public4"
IsInternalV6(a) == a # "public6"

(* Where the system's resolver sends a name, given all addresses there are.*)
SystemLookup(h, all) == IF h = "localhost" THEN {"127.0.0.1", "::1"} ELSE all

-----------------------------------------------------------------------------
IsLoopbackHost(h) == h \in {"localhost", "127.0.0.1", "::1"}

IsInternalAddr(a) == IF a \in V4 THEN IsInternalV4(a) ELSE IsInternalV6(a)

IsPureLoopback(a) ==
    \/ a \in V4 /\ V4IsLoopback(a)
    \/ a \in V6 /\ (V6IsLoopback(a) \/ V4IsLoopback(ToIpv4(a)))

(* validate_endpoint reads a mapped literal as loopback, not a compatible  *)
(* one.                                                                    *)
LoopbackLiteral(h) ==
    \/ IsLoopbackHost(h)
    \/ h \in V4 /\ V4IsLoopback(h)
    \/ h \in V6 /\ (V6IsLoopback(h) \/ V4IsLoopback(ToIpv4Mapped(h)))

(* The EndpointTarget of an endpoint, or the error. *)
ValidateEndpoint(url, allow) ==
    IF LoopbackLiteral(url.host) THEN IF allow THEN "Literal" ELSE "Config"
    ELSE IF \/ url.scheme # "https"
            \/ url.host \in InternalNames
            \/ url.host \in IpAddr /\ IsInternalAddr(url.host)
    THEN "Config"
    ELSE IF url.host \in IpAddr THEN "Literal" ELSE "Domain"

(* The same function in the FCM and in the APNS module. *)
RequireHttpsOrLoopback(url, allow) ==
    \/ url.scheme = "https"
    \/ url.scheme = "http" /\ IsLoopbackHost(url.host) /\ allow
=============================================================================
