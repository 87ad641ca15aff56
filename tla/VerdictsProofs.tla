--------------------------- MODULE VerdictsProofs ---------------------------
(***************************************************************************)
(* The three providers say the same of the same outcome, but for the three *)
(* statuses they refine; what they refine removes a device only on a       *)
(* verdict some service gave; and retryable means transient, or a status   *)
(* beyond those that are defined.                                          *)
(***************************************************************************)
EXTENDS Verdicts, ResponsesProofs

LEMMA OutcomeParts ==
    ASSUME NEW o \in Outcome
    PROVE  /\ Answered(o) => o.status \in Statuses /\ o.body \in Bodies
           /\ ~Answered(o) => o.failure \in TransportFailures /\ o.status = NoStatus
<1>1. \/ \E s \in Statuses, b \in Bodies : o = Answer(s, b)
      \/ \E f \in TransportFailures : o = NoAnswer(f)
  BY DEF Outcome
<1>2. ASSUME NEW s \in Statuses, NEW b \in Bodies, o = Answer(s, b)
      PROVE  Answered(o) /\ o.status \in Statuses /\ o.body \in Bodies
  BY <1>2 DEF Answer, Answered
<1>3. ASSUME NEW f \in TransportFailures, o = NoAnswer(f)
      PROVE  ~Answered(o) /\ o.failure \in TransportFailures /\ o.status = NoStatus
  BY <1>3 DEF NoAnswer, Answered, TransportFailures
<1> QED
  BY <1>1, <1>2, <1>3

(* What the providers have in common: From<reqwest::Error>, success, and   *)
(* map_status.  The transport arms that Web Push has of its own say the    *)
(* same as the conversion they stand for.                                  *)
Common(o) ==
    IF ~Answered(o) THEN FromReqwest(o.failure)
    ELSE IF IsSuccess(o.status) THEN Ok
    ELSE MapStatus(o.status)

LEMMA TransportArmsAgree == \A f : WebPushTransport(f) = FromReqwest(f)
BY DEF WebPushTransport, FromReqwest

LEMMA ResultIsCommon ==
    ASSUME NEW p \in Platforms, NEW o, ~Answered(o) \/ o.status \notin RefinedStatuses
    PROVE  Result(p, o) = Common(o)
<1>1. FcmResult(o) = Common(o)
  BY DEF FcmResult, Common, RefinedStatuses
<1>2. ApnsResult(o) = Common(o)
  BY DEF ApnsResult, ApnsReadsBody, Common, RefinedStatuses
<1>3. WebPushResult(o) = Common(o)
  BY TransportArmsAgree DEF WebPushResult, Common, RefinedStatuses
<1> QED
  BY <1>1, <1>2, <1>3, ResultCases DEF Platforms

(* What the providers make of the statuses they refine, which are answers  *)
(* and no success.                                                         *)
LEMMA ResultIsRefined ==
    ASSUME NEW p \in Platforms, NEW o, Answered(o), o.status \in RefinedStatuses
    PROVE  /\ o.status = 400 => Result(p, o) \in {ProviderErr(400), Err("TokenExpired"),
                                                  Err("InvalidSubscription")}
           /\ o.status = 404 => Result(p, o) \in {ProviderErr(404), Err("TokenExpired"),
                                                  Err("Unregistered")}
           /\ o.status = 410 => Result(p, o) \in {Err("TokenExpired"), Err("Unregistered")}
           /\ p = "Ios" /\ o.body = "unreadable" /\ o.status # 410
                => Result(p, o) = ProviderErr(o.status)
<1> DEFINE Refined(r) ==
      /\ o.status = 400 => r \in {ProviderErr(400), Err("TokenExpired"),
                                  Err("InvalidSubscription")}
      /\ o.status = 404 => r \in {ProviderErr(404), Err("TokenExpired"),
                                  Err("Unregistered")}
      /\ o.status = 410 => r \in {Err("TokenExpired"), Err("Unregistered")}
<1>1. /\ ~IsSuccess(o.status)
      /\ MapStatus(400) = ProviderErr(400)
      /\ MapStatus(410) = Err("Unregistered")
  BY DEF IsSuccess, MapStatus, RefinedStatuses
<1>2. Refined(FcmResult(o)) /\ Refined(WebPushResult(o))
  BY <1>1 DEF FcmResult, WebPushResult, RefinedStatuses
<1>3. Refined(ApnsReason(o))
  BY <1>1 DEF ApnsReason, RefinedStatuses
<1>4. ApnsResult(o) = IF o.body # "unreadable" THEN ApnsReason(o)
                      ELSE IF o.status = 410 THEN Err("Unregistered")
                      ELSE ProviderErr(o.status)
  BY <1>1 DEF ApnsResult, ApnsReadsBody, RefinedStatuses
<1>5. Refined(ApnsResult(o))
  BY <1>3, <1>4 DEF RefinedStatuses
<1>6. /\ Refined(Result(p, o))
      /\ p = "Ios" => Result(p, o) = ApnsResult(o)
  BY <1>2, <1>5, ResultCases DEF Platforms
<1> QED
  BY <1>4, <1>6

-----------------------------------------------------------------------------
(* Retryable *)

(* Of the statuses that map_status is given, it makes those retryable that *)
(* may be over later, and those that no class is defined for.              *)
LEMMA MapStatusRetryable ==
    ASSUME NEW s \in Statuses
    PROVE  IsRetryable(MapStatus(s)) <=> s \in {408, 429} \cup 500 .. 999
<1>1. \A kind : Err(kind).kind = kind
  BY DEF Err
<1>2. ProviderErr(s).kind = "Provider" /\ ProviderErr(s).status = s
  BY DEF ProviderErr
<1>3. CASE s \in {401, 403, 410, 413, 429}
  BY <1>1, <1>3 DEF MapStatus, IsRetryable
<1>4. CASE s \notin {401, 403, 410, 413, 429}
  <2>1. MapStatus(s) = ProviderErr(s)
    BY <1>4 DEF MapStatus
  <2>2. s \in Int /\ 100 <= s /\ s <= 999
    BY DEF Statuses
  <2> QED
    BY <1>2, <1>4, <2>1, <2>2 DEF IsRetryable, NoStatus
<1> QED
  BY <1>3, <1>4

LEMMA FailureRetryable ==
    ASSUME NEW f \in TransportFailures
    PROVE  IsRetryable(FromReqwest(f)) <=> f \in {"timeout", "connect", "request", "body"}
<1>1. \A kind : Err(kind).kind = kind
  BY DEF Err
<1>2. /\ ProviderErr(NoStatus).kind = "Provider"
      /\ ProviderErr(NoStatus).status = NoStatus
  BY DEF ProviderErr
<1> QED
  BY <1>1, <1>2 DEF FromReqwest, IsRetryable, TransportFailures

(* The heart of RetryableIsTransient: it holds of every provider and every *)
(* outcome.                                                                *)
LEMMA RetryableOutcomes ==
    ASSUME NEW p \in Platforms, NEW o \in Outcome, Result(p, o) # Ok
    PROVE  IsRetryable(Result(p, o)) <=> Transient(o) \/ Classless(o)
<1>1. CASE ~Answered(o)
  <2>1. Result(p, o) = FromReqwest(o.failure) /\ o.failure \in TransportFailures
    BY <1>1, ResultIsCommon, OutcomeParts DEF Common
  <2> QED
    BY <1>1, <2>1, FailureRetryable DEF Transient, Classless
<1>2. CASE Answered(o) /\ o.status \notin RefinedStatuses
  <2>1. Result(p, o) = MapStatus(o.status) /\ o.status \in Statuses
    BY <1>2, ResultIsCommon, OutcomeParts DEF Common
  <2>2. o.status \in Int /\ o.status <= 999
    BY <2>1 DEF Statuses
  <2> QED
    BY <1>2, <2>1, <2>2, MapStatusRetryable DEF Transient, Classless
<1>3. CASE Answered(o) /\ o.status \in RefinedStatuses
  <2>1. ~IsRetryable(ProviderErr(400)) /\ ~IsRetryable(ProviderErr(404))
    BY DEF ProviderErr, IsRetryable
  <2>2. \A kind \in {"TokenExpired", "Unregistered", "InvalidSubscription"} :
           ~IsRetryable(Err(kind))
    BY DEF Err, IsRetryable
  <2>3. ~IsRetryable(Result(p, o))
    BY <1>3, <2>1, <2>2, ResultIsRefined DEF RefinedStatuses
  <2>4. ~Transient(o) /\ ~Classless(o)
    BY <1>3 DEF Transient, Classless, RefinedStatuses
  <2> QED
    BY <2>3, <2>4
<1> QED
  BY <1>1, <1>2, <1>3

-----------------------------------------------------------------------------
(* The providers asked one after the other *)

(* Nobody's answer depends on who was asked before, and an answer stays.   *)
VerdictInv ==
    /\ outcome \in Outcome
    /\ Asked \subseteq Platforms
    /\ \A p \in Asked : result[p] = Result(p, outcome)

LEMMA VerdictInvariance == Spec => []VerdictInv
<1>1. Init => VerdictInv
  BY DEF Init, VerdictInv, Asked
<1>2. VerdictInv /\ [Next]_vars => VerdictInv'
  <2> SUFFICES ASSUME VerdictInv, [Next]_vars PROVE VerdictInv'
    OBVIOUS
  <2>1. CASE UNCHANGED vars
    BY <2>1 DEF vars, VerdictInv, Asked
  <2>2. ASSUME NEW p \in Platforms, Classify(p) PROVE VerdictInv'
    BY <2>2 DEF Classify, VerdictInv, Asked
  <2> QED
    BY <2>1, <2>2 DEF Next
<1> QED
  BY <1>1, <1>2, PTL DEF Spec

(* What the providers make of an outcome is one error for all three,       *)
(* unless its status is one they refine.                                   *)
THEOREM Uniform == Spec => []UniformVerdict
<1>1. VerdictInv => UniformVerdict
  BY ResultIsCommon DEF VerdictInv, UniformVerdict
<1> QED
  BY <1>1, VerdictInvariance, PTL

(* A body APNS could not read removes no device, and a 410 removes the     *)
(* device on every provider, whatever its body.                            *)
THEOREM BodyDecides == Spec => []OnlyAReadBodyDecides
<1>1. ASSUME VerdictInv, "Ios" \in Asked, outcome.body = "unreadable", outcome.status # 410
      PROVE  result["Ios"] = Ok \/ ~ShouldRemoveDevice(result["Ios"])
  <2>1. "Ios" \in Platforms /\ result["Ios"] = Result("Ios", outcome)
    BY <1>1 DEF VerdictInv
  <2>2. CASE ~Answered(outcome) \/ outcome.status \notin RefinedStatuses
    BY <1>1, <2>1, <2>2, ResultIsCommon, FailuresKeepTheDevice DEF Common
  <2>3. CASE Answered(outcome) /\ outcome.status \in RefinedStatuses
    BY <1>1, <2>1, <2>3, ResultIsRefined, FailuresKeepTheDevice
  <2> QED
    BY <2>2, <2>3
<1>2. ASSUME VerdictInv, outcome.status = 410, NEW p \in Asked
      PROVE  ShouldRemoveDevice(result[p])
  <2>1. p \in Platforms /\ result[p] = Result(p, outcome) /\ outcome \in Outcome
    BY <1>2 DEF VerdictInv
  <2>2. Answered(outcome)
    BY <1>2, <2>1, OutcomeParts DEF NoStatus
  <2>3. result[p] \in {Err("TokenExpired"), Err("Unregistered")}
    BY <1>2, <2>1, <2>2, ResultIsRefined DEF RefinedStatuses
  <2> QED
    BY <2>3, FailuresKeepTheDevice
<1>3. VerdictInv => OnlyAReadBodyDecides
  BY <1>1, <1>2 DEF OnlyAReadBodyDecides
<1> QED
  BY <1>3, VerdictInvariance, PTL

(* A caller that retries on is_retryable retries whatever may be over and, *)
(* besides, only answers of a class that does not exist, whichever         *)
(* provider it asked.                                                      *)
THEOREM RetryLoops == Spec => []RetryableIsTransient
<1>1. VerdictInv => RetryableIsTransient
  BY RetryableOutcomes DEF VerdictInv, RetryableIsTransient
<1> QED
  BY <1>1, VerdictInvariance, PTL
=============================================================================
