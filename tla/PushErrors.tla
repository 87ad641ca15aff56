----------------------------- MODULE PushErrors -----------------------------
(***************************************************************************)
(* The error vocabulary of the crate (error.rs): the variants of           *)
(* PushError, the two verdicts a caller acts on (should_remove_device and  *)
(* is_retryable), and the conversions that produce an error from an HTTP   *)
(* status or from a transport failure.                                     *)
(*                                                                         *)
(* Messages are left out.  An error is its variant and, for a Provider     *)
(* error, the HTTP status it carries (NoStatus for None).                  *)
(***************************************************************************)
EXTENDS Integers

NoStatus == 0

Kinds == {"InvalidSubscription", "TokenExpired", "Unregistered", "Auth",
          "RateLimited", "PayloadTooLarge", "Provider", "Config", "Network",
          "Serialization", "Timeout", "Io"}

PushError == [kind : Kinds, status : Nat]

Err(kind) == [kind |-> kind, status |-> NoStatus]

(* Ok(()) of a send, and everything a send may return. *)
Ok == [kind |-> "Ok", status |-> NoStatus]

SendResult == PushError \cup {Ok}

ProviderErr(status) == [kind |-> "Provider", status |-> status]

(* PushError::should_remove_device: the caller may delete the device. *)
ShouldRemoveDevice(e) ==
    e.kind \in {"TokenExpired", "Unregistered", "InvalidSubscription"}

(* A definition named Bug... is a fault the properties must detect: it is  *)
(* what the definition after it would be with a plausible mistake in it.   *)
BugRetryAnyStatus(e) == e.kind \in {"Network", "Timeout", "RateLimited", "Provider"}

(* PushError::is_retryable: the caller may send again later. *)
IsRetryable(e) ==
    \/ e.kind \in {"Network", "Timeout", "RateLimited"}
    \/ /\ e.kind = "Provider"
       /\ e.status # NoStatus
       /\ e.status >= 500 \/ e.status = 408

IsSuccess(status) == status \in 200 .. 299

(* error::map_status: what every provider makes of a non-success status    *)
(* it does not refine itself.                                              *)
MapStatus(status) ==
    CASE status \in {401, 403} -> Err("Auth")
      [] status = 410          -> Err("Unregistered")
      [] status = 413          -> Err("PayloadTooLarge")
      [] status = 429          -> Err("RateLimited")
      [] OTHER                 -> ProviderErr(status)

(* The kinds of reqwest::Error a request can end in.  "decode" is a body   *)
(* that was answered but cannot be parsed, and stands for the other kinds  *)
(* that share its arm: a request that cannot be built, a refused redirect. *)
TransportFailures == {"timeout", "connect", "request", "body", "decode"}

(* From<reqwest::Error> for PushError.  No provider calls                  *)
(* error_for_status, so the status of the last arm is always None.         *)
FromReqwest(failure) ==
    CASE failure = "timeout"                        -> Err("Timeout")
      [] failure \in {"connect", "request", "body"} -> Err("Network")
      [] OTHER                                      -> ProviderErr(NoStatus)
=============================================================================
