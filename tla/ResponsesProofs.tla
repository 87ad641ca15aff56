-------------------------- MODULE ResponsesProofs --------------------------
(***************************************************************************)
(* Facts about the classification of responses that the proofs of several  *)
(* components rest on: what the providers return is a result a send may    *)
(* return, and which of it can remove a device.                            *)
(***************************************************************************)
EXTENDS Responses, TLAPS

LEMMA ErrorTypes ==
    /\ \A kind \in Kinds : Err(kind) \in PushError
    /\ \A s \in Nat : ProviderErr(s) \in PushError
    /\ \A s \in Nat : MapStatus(s) \in PushError
    /\ Ok \in SendResult
    /\ Ok \notin PushError
BY DEF Err, ProviderErr, MapStatus, PushError, Kinds, NoStatus, Ok, SendResult

LEMMA OutcomeType ==
    ASSUME NEW o \in Outcome
    PROVE  /\ o.status \in Nat
           /\ FromReqwest(o.failure) \in PushError
           /\ WebPushTransport(o.failure) \in PushError
<1>1. o.status \in Nat
  <2>1. \/ \E s \in Statuses, b \in Bodies : o = Answer(s, b)
        \/ \E f \in TransportFailures : o = NoAnswer(f)
    BY DEF Outcome
  <2>2. \A s \in Statuses, b \in Bodies : Answer(s, b).status \in Nat
    BY DEF Answer, Statuses
  <2>3. \A f \in TransportFailures : NoAnswer(f).status \in Nat
    BY DEF NoAnswer, NoStatus
  <2> QED
    BY <2>1, <2>2, <2>3
<1>2. Err("Timeout") \in PushError /\ Err("Network") \in PushError
  BY ErrorTypes DEF Kinds
<1>3. ProviderErr(NoStatus) \in PushError
  BY ErrorTypes DEF NoStatus
<1>4. FromReqwest(o.failure) \in PushError
  BY <1>2, <1>3 DEF FromReqwest
<1>5. WebPushTransport(o.failure) \in PushError
  BY <1>2, <1>3 DEF WebPushTransport
<1> QED
  BY <1>1, <1>4, <1>5

LEMMA ResultTypes ==
    ASSUME NEW o \in Outcome
    PROVE  /\ FcmResult(o) \in SendResult
           /\ ApnsResult(o) \in SendResult
           /\ WebPushResult(o) \in SendResult
<1>1. FcmResult(o) \in SendResult
  BY ErrorTypes, OutcomeType DEF FcmResult, SendResult, Kinds
<1>2. ApnsReason(o) \in SendResult
  BY ErrorTypes, OutcomeType DEF ApnsReason, SendResult, Kinds
<1>3. ApnsResult(o) \in SendResult
  BY <1>2, ErrorTypes, OutcomeType DEF ApnsResult, SendResult, Kinds
<1>4. WebPushResult(o) \in SendResult
  BY ErrorTypes, OutcomeType DEF WebPushResult, SendResult, Kinds
<1> QED
  BY <1>1, <1>3, <1>4

LEMMA ExchangeErrorTypes == ExchangeErrors \subseteq PushError
BY ErrorTypes DEF ExchangeErrors, FromReqwest, TransportFailures, Kinds, NoStatus

(* What removes a device is a verdict some service gave: no failure on the *)
(* way does, and no status but 410 does on its own.                        *)
LEMMA FailuresKeepTheDevice ==
    /\ \A f : ~ShouldRemoveDevice(FromReqwest(f))
    /\ \A f : ~ShouldRemoveDevice(WebPushTransport(f))
    /\ \A s : s # 410 => ~ShouldRemoveDevice(MapStatus(s))
    /\ \A s : ~ShouldRemoveDevice(ProviderErr(s))
    /\ \A kind : ShouldRemoveDevice(Err(kind))
                   <=> kind \in {"TokenExpired", "Unregistered", "InvalidSubscription"}
<1> USE DEF ShouldRemoveDevice
<1>1. \A kind : Err(kind).kind = kind
  BY DEF Err
<1>2. \A s : ProviderErr(s).kind = "Provider"
  BY DEF ProviderErr
<1>3. \A f : ~ShouldRemoveDevice(FromReqwest(f))
  BY <1>1, <1>2 DEF FromReqwest
<1>4. \A f : ~ShouldRemoveDevice(WebPushTransport(f))
  BY <1>1, <1>2 DEF WebPushTransport
<1>5. \A s : s # 410 => ~ShouldRemoveDevice(MapStatus(s))
  BY <1>1, <1>2 DEF MapStatus
<1> QED
  BY <1>1, <1>2, <1>3, <1>4, <1>5

LEMMA ResultCases ==
    ASSUME NEW o
    PROVE  /\ Result("Android", o) = FcmResult(o)
           /\ Result("Ios", o) = ApnsResult(o)
           /\ Result("Web", o) = WebPushResult(o)
BY DEF Result

(* All three providers agree on a success and on a request without answer. *)
LEMMA ResultOfSuccessAndFailure ==
    ASSUME NEW p \in Platforms, NEW o
    PROVE  /\ ~Answered(o) => Result(p, o) \in {FromReqwest(o.failure),
                                                WebPushTransport(o.failure)}
           /\ Answered(o) /\ IsSuccess(o.status) => Result(p, o) = Ok
<1>1. /\ ~Answered(o) => FcmResult(o) = FromReqwest(o.failure)
      /\ Answered(o) /\ IsSuccess(o.status) => FcmResult(o) = Ok
  BY DEF FcmResult, Answered, IsSuccess
<1>2. /\ ~Answered(o) => ApnsResult(o) = FromReqwest(o.failure)
      /\ Answered(o) /\ IsSuccess(o.status) => ApnsResult(o) = Ok
  BY DEF ApnsResult, Answered, IsSuccess
<1>3. /\ ~Answered(o) => WebPushResult(o) = WebPushTransport(o.failure)
      /\ Answered(o) /\ IsSuccess(o.status) => WebPushResult(o) = Ok
  BY DEF WebPushResult, Answered, IsSuccess
<1> QED
  BY <1>1, <1>2, <1>3, ResultCases DEF Platforms
=============================================================================
