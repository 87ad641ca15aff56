----------------------------- MODULE Responses -----------------------------
(***************************************************************************)
(* What each provider makes of the outcome of one HTTP request: the second *)
(* half of send_prepared in fcm.rs, apns.rs and web_push.rs, and the ways  *)
(* the first half can fail before anything is sent.                        *)
(*                                                                         *)
(* A request ends in a transport failure or in an answer, which is a       *)
(* status and a body.  Of a body only what APNS looks for in it is kept:   *)
(* one of the reasons it knows, "other" for anything else, "unreadable"    *)
(* when reading it fails.                                                  *)
(***************************************************************************)
EXTENDS PushErrors

Bodies == {"ExpiredToken", "BadDeviceToken", "DeviceTokenNotForTopic",
           "other", "unreadable"}

(* What http::StatusCode can hold; nothing holds a push service to those   *)
(* that are defined.                                                       *)
Statuses == 100 .. 999

Answer(status, body) == [failure |-> "none", status |-> status, body |-> body]

NoAnswer(failure) == [failure |-> failure, status |-> NoStatus, body |-> "other"]

Outcome == {Answer(s, b) : s \in Statuses, b \in Bodies}
              \cup {NoAnswer(f) : f \in TransportFailures}

Answered(o) == o.failure = "none"

(* Definitions named Bug... are faults the properties must detect: each is  *)
(* what the definition after it would be with a plausible mistake in it.   *)
(* FcmProvider::send_prepared.  404 is UNREGISTERED on FCM. *)
FcmResult(o) ==
    IF ~Answered(o) THEN FromReqwest(o.failure)
    ELSE IF IsSuccess(o.status) THEN Ok
    ELSE IF o.status = 404 THEN Err("Unregistered")
    ELSE MapStatus(o.status)

(* The statuses whose body APNS reads, and its verdict on one it could     *)
(* read.  404 is BadPath on APNS and says nothing of the device.           *)
ApnsReadsBody(status) == status \in {400, 404, 410}

ApnsReason(o) ==
    IF o.body = "ExpiredToken" THEN Err("TokenExpired")
    ELSE IF o.status = 410 THEN Err("Unregistered")
    ELSE IF o.status = 404 THEN ProviderErr(404)
    ELSE IF o.body \in {"BadDeviceToken", "DeviceTokenNotForTopic"}
    THEN Err("InvalidSubscription")
    ELSE MapStatus(o.status)

BugEmptyBodyOnError(o) ==
    IF ~Answered(o) THEN FromReqwest(o.failure)
    ELSE IF IsSuccess(o.status) THEN Ok
    ELSE IF ~ApnsReadsBody(o.status) THEN MapStatus(o.status)
    ELSE IF o.body = "unreadable" THEN ProviderErr(o.status)
    ELSE ApnsReason(o)

(* ApnsProvider::send_prepared.  An unreadable body decides nothing but a  *)
(* 410, which means the device is gone whatever its reason.                *)
ApnsResult(o) ==
    IF ~Answered(o) THEN FromReqwest(o.failure)
    ELSE IF IsSuccess(o.status) THEN Ok
    ELSE IF ~ApnsReadsBody(o.status) THEN MapStatus(o.status)
    ELSE IF o.body # "unreadable" THEN ApnsReason(o)
    ELSE IF o.status = 410 THEN Err("Unregistered")
    ELSE ProviderErr(o.status)

BugResetNotRetryable(failure) ==
    CASE failure = "timeout" -> Err("Timeout")
      [] failure = "connect" -> Err("Network")
      [] OTHER               -> ProviderErr(NoStatus)

(* WebPushProvider::send_prepared has its own transport arms, so that the  *)
(* endpoint stays out of the message, and no body may reach an error.      *)
WebPushTransport(failure) ==
    CASE failure = "timeout"             -> Err("Timeout")
      [] failure = "connect"             -> Err("Network")
      [] failure \in {"request", "body"} -> Err("Network")
      [] OTHER                           -> ProviderErr(NoStatus)

WebPushResult(o) ==
    IF ~Answered(o) THEN WebPushTransport(o.failure)
    ELSE IF IsSuccess(o.status) THEN Ok
    ELSE IF o.status = 404 THEN Err("Unregistered")
    ELSE MapStatus(o.status)

-----------------------------------------------------------------------------
Platforms == {"Android", "Ios", "Web"}

Result(platform, o) ==
    CASE platform = "Android" -> FcmResult(o)
      [] platform = "Ios"     -> ApnsResult(o)
      [] platform = "Web"     -> WebPushResult(o)

(* FcmProvider::send_prepared serializes the message of each token. *)
FcmPreflightErrors == {Err("Serialization")}

(* FcmProvider::refresh_token: a non-success answer of the token endpoint  *)
(* is an Auth error whatever its status, and a transport failure goes      *)
(* through From<reqwest::Error>.                                           *)
ExchangeErrors == {Err("Auth")} \cup {FromReqwest(f) : f \in TransportFailures}

(* clone_prepare_error: one error of prepare, repeated for every token. *)
ClonePrepareError(e) ==
    IF e.kind \in {"Config", "Serialization"} THEN e ELSE ProviderErr(NoStatus)

(* ApnsProvider::prepare: a clock before the epoch, a reserved data key, a *)
(* header value that cannot be encoded, a payload that cannot be           *)
(* serialized.                                                             *)
ApnsPrepareErrors == {Err("Config"), Err("Serialization")}

(* What WebPushProvider::send_prepared may fail with before it sends: the  *)
(* endpoint is refused or its host resolves to an internal address         *)
(* (Config), the host cannot be resolved (Network), the plaintext or the   *)
(* encrypted body is over the limit, the message cannot be built.          *)
WebPushPreflightErrors ==
    {Err("Config"), Err("Network"), Err("PayloadTooLarge"), ProviderErr(NoStatus)}

(* A token that is not endpoint|p256dh|auth. *)
MalformedWebPushToken == Err("InvalidSubscription")
=============================================================================
