------------------------- MODULE PushServiceProofs -------------------------
(***************************************************************************)
(* What PushService guarantees for any number of devices and providers, in *)
(* any order of adding them, whatever the push services answer.            *)
(***************************************************************************)
EXTENDS PushService, ResponsesProofs, WellFoundedInduction

(* A delivery of the call whose answer was lost. *)
LostErrors == {FromReqwest(f) : f \in TransportFailures}

Lost(d) ==
    \E i \in DOMAIN call[d].errors :
       /\ i \in DOMAIN providers
       /\ providers[i] = issuer[d]
       /\ call[d].errors[i] \in LostErrors

Waiting(d) == call[d].at \in {"trying", "flight", "answered"}

(* No call before the service is shared. *)
Idle(d) ==
    call[d].at = "none" \/ ~built => call[d] = NoCall /\ delivered[d] = 0

Routed(d) ==
    IF call[d].next = 0 THEN call[d].at = "done" /\ call[d].result = Err("Config")
    ELSE call[d].next \in 1 .. Len(providers) /\ providers[call[d].next] = issuer[d]

(* send has an error for every provider before the next; a routed send has *)
(* one provider, that of the device's platform, or none and is done.       *)
Position(d) ==
    /\ call[d].op # "send" => call[d].errors = <<>>
    /\ Len(call[d].errors) <= Len(providers)
    /\ call[d].at # "none" => call[d].op # "none"
    /\ call[d].at # "done" => call[d].result = Ok
    /\ Waiting(d) /\ call[d].op = "send" => call[d].next = Len(call[d].errors) + 1
    /\ call[d].at \in {"flight", "answered"} => call[d].next \in 1 .. Len(providers)
    /\ Waiting(d) /\ call[d].op # "send" => /\ call[d].next \in 1 .. Len(providers)
                                            /\ providers[call[d].next] = issuer[d]
    /\ call[d].op \in {"device", "subscription"} => Routed(d)

(* The issuer of a live token never says that it is gone. *)
IssuerKeeps(d) ==
    d \in installed =>
       /\ \A i \in DOMAIN call[d].errors :
             providers[i] = issuer[d] => ~ShouldRemoveDevice(call[d].errors[i])
       /\ call[d].at = "answered" /\ providers[call[d].next] = issuer[d]
             => ~ShouldRemoveDevice(Result(issuer[d], call[d].outcome))
       /\ call[d].op # "send" => ~ShouldRemoveDevice(call[d].result)

(* What send returns is selected when every provider has been tried. *)
Selected(d) ==
    call[d].at = "done" /\ call[d].op = "send" /\ call[d].result # Ok
       => /\ Len(call[d].errors) = Len(providers)
          /\ call[d].result = SelectError(call[d].errors)

(* A delivery is remembered as an answer on its way, as an Ok, or as an    *)
(* error that says the answer was lost.                                    *)
Remembered(d) ==
    delivered[d] > 0 =>
       \/ Lost(d)
       \/ /\ call[d].at = "answered"
          /\ providers[call[d].next] = issuer[d]
          /\ ~Answered(call[d].outcome) \/ IsSuccess(call[d].outcome.status)
       \/ call[d].at = "done" /\ (call[d].op = "send" => call[d].result = Ok)

Twice(d) ==
    delivered[d] > 1 =>
       \E i, j \in DOMAIN providers :
          /\ i < j
          /\ providers[i] = issuer[d] /\ providers[j] = issuer[d]
          /\ i \in DOMAIN call[d].errors
          /\ call[d].errors[i] \in LostErrors

CallInv(d) ==
    Idle(d) /\ Position(d) /\ IssuerKeeps(d) /\ Selected(d) /\ Remembered(d) /\ Twice(d)

IInv == TypeOK /\ \A d \in Devices : CallInv(d)

-----------------------------------------------------------------------------
(* The least element that select_error and find pick exists. *)
Smaller == {ss \in Nat \X Nat : ss[1] < ss[2]}

LEMMA LeastElement ==
    ASSUME NEW T \in SUBSET Nat, T # {}
    PROVE  \E x \in T : \A y \in T : x <= y
<1>1. IsWellFoundedOn(Smaller, Nat)
  BY NatLessThanWellFounded DEF OpToRel, Smaller
<1>2. PICK x \in T : \A y \in T : ~(<<y, x>> \in Smaller)
  BY <1>1, WFMin, Zenon
<1>3. \A y \in T : y < x => <<y, x>> \in Smaller
  BY DEF Smaller
<1>4. \A y \in T : x <= y
  <2> TAKE y \in T
  <2>1. x \in Nat /\ y \in Nat
    OBVIOUS
  <2>2. ~(y < x)
    BY <1>2, <1>3
  <2> QED
    BY <2>1, <2>2
<1> QED
  BY <1>4

(* select_error returns one of the errors, and one that keeps the device   *)
(* when there is one.                                                      *)
LEMMA SelectErrorPicks ==
    ASSUME NEW errors \in Seq(PushError)
    PROVE  /\ SelectError(errors) \in PushError
           /\ errors = <<>> => SelectError(errors) = Err("Config")
           /\ errors # <<>> => \E i \in DOMAIN errors : SelectError(errors) = errors[i]
           /\ (\E i \in DOMAIN errors : ~ShouldRemoveDevice(errors[i]))
                 => ~ShouldRemoveDevice(SelectError(errors))
<1> DEFINE keep == {i \in DOMAIN errors : ~ShouldRemoveDevice(errors[i])}
           least == CHOOSE i \in keep : \A j \in keep : i <= j
<1>1. keep \in SUBSET Nat
  OBVIOUS
<1>2. keep # {} => least \in keep
  <2>1. keep # {} => \E i \in keep : \A j \in keep : i <= j
    BY <1>1, LeastElement
  <2> QED
    BY <2>1
<1>3. errors = <<>> => keep = {} /\ SelectError(errors) = Err("Config")
  BY DEF SelectError
<1>4. errors # <<>> /\ keep = {} => SelectError(errors) = errors[1] /\ 1 \in DOMAIN errors
  BY DEF SelectError
<1>5. errors # <<>> /\ keep # {} => SelectError(errors) = errors[least]
  BY DEF SelectError
<1>6. \A i \in DOMAIN errors : errors[i] \in PushError
  OBVIOUS
<1>7. Err("Config") \in PushError
  BY ErrorTypes DEF Kinds
<1> HIDE DEF keep, least
<1>8. CASE errors = <<>>
  BY <1>3, <1>7, <1>8 DEF keep
<1>9. CASE errors # <<>> /\ keep = {}
  BY <1>4, <1>6, <1>9 DEF keep
<1>10. CASE errors # <<>> /\ keep # {}
  <2>1. least \in DOMAIN errors /\ ~ShouldRemoveDevice(errors[least])
    BY <1>2, <1>10 DEF keep
  <2> QED
    BY <1>5, <1>6, <1>10, <2>1
<1> QED
  BY <1>8, <1>9, <1>10

LEMMA ProviderForPicks ==
    ASSUME NEW p, providers \in Seq(Platforms)
    PROVE  /\ ProviderFor(p) # 0 => /\ ProviderFor(p) \in 1 .. Len(providers)
                                    /\ providers[ProviderFor(p)] = p
           /\ ProviderFor(p) \in Nat
<1> DEFINE matching == {i \in DOMAIN providers : providers[i] = p}
           least == CHOOSE i \in matching : \A j \in matching : i <= j
<1>1. matching \in SUBSET Nat
  OBVIOUS
<1>2. matching # {} => least \in matching
  <2>1. matching # {} => \E i \in matching : \A j \in matching : i <= j
    BY <1>1, LeastElement
  <2> QED
    BY <2>1
<1>3. ProviderFor(p) = IF matching = {} THEN 0 ELSE least
  BY DEF ProviderFor
<1> QED
  BY <1>1, <1>2, <1>3

-----------------------------------------------------------------------------
(* What the push services may answer.                                      *)

LEMMA StatusRange ==
    /\ TransientStatuses \subseteq Statuses
    /\ TransientStatuses \cap {404, 410} = {}
    /\ \A s \in TransientStatuses : s \in Nat /\ ~IsSuccess(s)
BY StatusAssumption DEF Statuses, IsSuccess

LEMMA TransientKeeps ==
    ASSUME NEW p \in Platforms, NEW o \in Transient(p)
    PROVE  o \in Outcome /\ ~ShouldRemoveDevice(Result(p, o))
<1> USE FailuresKeepTheDevice
<1>1. ASSUME NEW s \in TransientStatuses, o = Answer(s, "other")
      PROVE  o \in Outcome /\ ~ShouldRemoveDevice(Result(p, o))
  <2>1. o \in Outcome
    BY <1>1, StatusRange DEF Outcome, Bodies
  <2>2. Answered(o) /\ o.status = s /\ o.body = "other" /\ ~IsSuccess(o.status)
    BY <1>1, StatusRange DEF Answer, Answered
  <2>3. s \notin {404, 410}
    BY StatusRange
  <2>4. ~ShouldRemoveDevice(FcmResult(o)) /\ ~ShouldRemoveDevice(WebPushResult(o))
    BY <2>2, <2>3 DEF FcmResult, WebPushResult
  <2>5. ~ShouldRemoveDevice(ApnsResult(o))
    BY <2>2, <2>3 DEF ApnsResult, ApnsReason
  <2> QED
    BY <2>1, <2>4, <2>5, ResultCases DEF Platforms
<1>2. ASSUME NEW f \in TransportFailures, o = NoAnswer(f)
      PROVE  o \in Outcome /\ ~ShouldRemoveDevice(Result(p, o))
  <2>1. o \in Outcome
    BY <1>2 DEF Outcome
  <2>2. ~Answered(o)
    BY <1>2 DEF NoAnswer, Answered, TransportFailures
  <2> QED
    BY <2>1, <2>2, ResultOfSuccessAndFailure
<1>3. ASSUME p = "Ios", o \in {Answer(404, "other"), Answer(400, "unreadable")}
      PROVE  o \in Outcome /\ ~ShouldRemoveDevice(Result(p, o))
  <2>1. o \in Outcome
    BY <1>3 DEF Outcome, Statuses, Bodies
  <2>2. /\ Answered(o) /\ ~IsSuccess(o.status) /\ o.status \in {400, 404}
        /\ o.body = "other" => o.status = 404
        /\ o.body \in {"other", "unreadable"}
    BY <1>3 DEF Answer, Answered, IsSuccess
  <2>3. ~ShouldRemoveDevice(ApnsResult(o))
    BY <2>2 DEF ApnsResult, ApnsReason, ApnsReadsBody
  <2> QED
    BY <1>3, <2>1, <2>3, ResultCases
<1> QED
  BY <1>1, <1>2, <1>3 DEF Transient

LEMMA OutcomesType ==
    ASSUME NEW p \in Platforms, NEW d \in Devices
    PROVE  /\ Outcomes(p, d) \subseteq Outcome
           /\ \A o \in Outcomes(p, d) : p = issuer[d] /\ d \in installed
                 => ~ShouldRemoveDevice(Result(p, o))
<1>1. GoneAnswers(p) \subseteq Outcome
  BY DEF GoneAnswers, Outcome, Statuses, Bodies, Platforms
<1>2. /\ Answer(200, "other") \in Outcome
      /\ Result(p, Answer(200, "other")) = Ok
  <2>1. Answer(200, "other") \in Outcome
    BY DEF Outcome, Statuses, Bodies
  <2>2. /\ Answered(Answer(200, "other"))
        /\ IsSuccess(Answer(200, "other").status)
    BY DEF Answer, Answered, IsSuccess
  <2> QED
    BY <2>1, <2>2, ResultOfSuccessAndFailure
<1>3. ~ShouldRemoveDevice(Ok)
  BY DEF ShouldRemoveDevice, Ok
<1> QED
  BY <1>1, <1>2, <1>3, TransientKeeps DEF Outcomes

LEMMA ResultFacts ==
    ASSUME NEW p \in Platforms, NEW o \in Outcome
    PROVE  /\ Result(p, o) \in SendResult
           /\ ~Answered(o) => Result(p, o) \in LostErrors
           /\ Answered(o) /\ IsSuccess(o.status) => Result(p, o) = Ok
<1>1. Result(p, o) \in SendResult
  BY ResultTypes, ResultCases DEF Platforms
<1>2. ASSUME ~Answered(o) PROVE Result(p, o) \in LostErrors
  <2>1. o.failure \in TransportFailures
    <3>1. \/ \E s \in Statuses, b \in Bodies : o = Answer(s, b)
          \/ \E f \in TransportFailures : o = NoAnswer(f)
      BY DEF Outcome
    <3>2. \A s \in Statuses, b \in Bodies : Answered(Answer(s, b))
      BY DEF Answer, Answered
    <3>3. \A f \in TransportFailures : NoAnswer(f).failure = f
      BY DEF NoAnswer
    <3> QED
      BY <1>2, <3>1, <3>2, <3>3
  <2>2. WebPushTransport(o.failure) = FromReqwest(o.failure)
    BY <2>1 DEF WebPushTransport, FromReqwest, TransportFailures
  <2>3. Result(p, o) = FromReqwest(o.failure)
    BY <1>2, <2>2, ResultOfSuccessAndFailure
  <2> QED
    BY <2>1, <2>3 DEF LostErrors
<1>3. Answered(o) /\ IsSuccess(o.status) => Result(p, o) = Ok
  BY ResultOfSuccessAndFailure
<1> QED
  BY <1>1, <1>2, <1>3

(* A provider that fails before it sends returns an error, and the         *)
(* issuer's own never says that the device is gone.                        *)
LEMMA LocalErrorFacts ==
    ASSUME NEW p \in Platforms, NEW d \in Devices, NEW e \in LocalErrors(p, d)
    PROVE  e \in PushError /\ (p = issuer[d] => ~ShouldRemoveDevice(e))
<1> USE FailuresKeepTheDevice
<1>1. \A kind \in Kinds : Err(kind) \in PushError
  BY ErrorTypes
<1>2. CASE p = "Android"
  <2>1. e \in ExchangeErrors \cup {Err("Config"), Err("Serialization")}
    BY <1>2 DEF LocalErrors, FcmPreflightErrors
  <2>2. \A x \in ExchangeErrors : ~ShouldRemoveDevice(x)
    BY DEF ExchangeErrors
  <2>3. e \in PushError
    BY <1>1, <2>1, ExchangeErrorTypes DEF Kinds
  <2> QED
    BY <2>1, <2>2, <2>3
<1>3. CASE p = "Ios"
  BY <1>1, <1>3 DEF LocalErrors, ApnsPrepareErrors, Kinds
<1>4. CASE p = "Web"
  <2>1. ProviderErr(NoStatus) \in PushError
    BY ErrorTypes DEF NoStatus
  <2>2. CASE issuer[d] = "Web"
    <3>1. e \in {Err("Config"), Err("Network"), Err("PayloadTooLarge"),
                 ProviderErr(NoStatus), Err("Serialization")}
      BY <1>4, <2>2 DEF LocalErrors, WebPushPreflightErrors
    <3> QED
      BY <1>1, <2>1, <3>1 DEF Kinds
  <2>3. CASE issuer[d] # "Web"
    BY <1>1, <1>4, <2>3 DEF LocalErrors, MalformedWebPushToken, Kinds
  <2> QED
    BY <2>2, <2>3
<1> QED
  BY <1>2, <1>3, <1>4 DEF Platforms

LEMMA NoCallType == NoCall \in Call /\ NoCall.outcome \in Outcome
<1>1. NoAnswer("timeout") \in Outcome
  BY DEF Outcome, TransportFailures
<1>2. <<>> \in Seq(PushError) /\ Ok \in SendResult
  BY ErrorTypes
<1> QED
  BY <1>1, <1>2 DEF NoCall, Call

(* What Take makes of the record of a call.                                *)
LEMMA TakeFields ==
    ASSUME TypeOK, NEW d \in Devices, NEW r \in SendResult
    PROVE  /\ Take(d, r) \in Call
           /\ Take(d, r).op = call[d].op
           /\ r # Ok /\ call[d].op = "send" =>
                 /\ r \in PushError
                 /\ Take(d, r).at = "trying"
                 /\ Take(d, r).next = call[d].next + 1
                 /\ Take(d, r).errors = Append(call[d].errors, r)
                 /\ Take(d, r).result = call[d].result
           /\ r = Ok \/ call[d].op # "send" =>
                 /\ Take(d, r).at = "done"
                 /\ Take(d, r).next = call[d].next
                 /\ Take(d, r).errors = call[d].errors
                 /\ Take(d, r).result = r
<1>1. call[d] \in Call
  BY DEF TypeOK
<1>2. NoCall.outcome \in Outcome
  BY NoCallType
<1>3. r # Ok => r \in PushError
  BY DEF SendResult
<1>4. CASE r # Ok /\ call[d].op = "send"
  <2>1. Take(d, r) = [call[d] EXCEPT !.at = "trying", !.next = @ + 1,
                                     !.errors = Append(@, r), !.outcome = NoCall.outcome]
    BY <1>4 DEF Take
  <2>2. Append(call[d].errors, r) \in Seq(PushError) /\ call[d].next + 1 \in Nat
    BY <1>1, <1>3, <1>4 DEF Call
  <2>3. Take(d, r) = [call[d] EXCEPT !.at = "trying", !.next = call[d].next + 1,
                                     !.errors = Append(call[d].errors, r),
                                     !.outcome = NoCall.outcome]
    BY <1>1, <2>1 DEF Call
  <2> HIDE DEF Take
  <2>4. Take(d, r) \in Call
    BY <1>1, <1>2, <2>2, <2>3 DEF Call
  <2>5. /\ Take(d, r).op = call[d].op
        /\ Take(d, r).at = "trying"
        /\ Take(d, r).next = call[d].next + 1
        /\ Take(d, r).errors = Append(call[d].errors, r)
        /\ Take(d, r).result = call[d].result
    BY <1>1, <2>3 DEF Call
  <2> QED
    BY <1>3, <1>4, <2>4, <2>5
<1>5. CASE r = Ok \/ call[d].op # "send"
  <2>1. Take(d, r) = [call[d] EXCEPT !.at = "done", !.result = r,
                                     !.outcome = NoCall.outcome]
    BY <1>1, <1>5 DEF Take, Done, Call
  <2> QED
    BY <1>1, <1>2, <1>5, <2>1 DEF Call
<1> QED
  BY <1>4, <1>5

-----------------------------------------------------------------------------
(* A device the step leaves alone, and a device without a call.            *)
LEMMA Untouched ==
    ASSUME NEW d \in Devices, CallInv(d),
           issuer' = issuer, providers' = providers,
           call'[d] = call[d], delivered'[d] = delivered[d],
           installed' \subseteq installed, built => built'
    PROVE  CallInv(d)'
<1>1. Idle(d)'
  BY DEF CallInv, Idle
<1>2. Position(d)'
  BY DEF CallInv, Position, Waiting, Routed
<1>3. IssuerKeeps(d)'
  BY DEF CallInv, IssuerKeeps
<1>4. Selected(d)'
  BY DEF CallInv, Selected
<1>5. Remembered(d)' /\ Twice(d)'
  BY DEF CallInv, Remembered, Twice, Lost
<1> QED
  BY <1>1, <1>2, <1>3, <1>4, <1>5 DEF CallInv

LEMMA NoCallFields ==
    /\ NoCall.op = "none" /\ NoCall.at = "none" /\ NoCall.errors = <<>>
    /\ NoCall.result = Ok /\ Len(NoCall.errors) = 0 /\ DOMAIN NoCall.errors = {}
    /\ ~ShouldRemoveDevice(Ok)
BY DEF NoCall, ShouldRemoveDevice, Ok

LEMMA NoCallKeeps ==
    ASSUME NEW d \in Devices, providers' \in Seq(Platforms),
           call'[d] = NoCall, delivered'[d] = 0
    PROVE  CallInv(d)'
<1> USE NoCallFields
<1>1. Idle(d)'
  BY DEF Idle
<1>2. Position(d)'
  BY DEF Position, Waiting
<1>3. IssuerKeeps(d)'
  BY DEF IssuerKeeps
<1>4. Selected(d)'
  BY DEF Selected
<1>5. Remembered(d)' /\ Twice(d)'
  BY DEF Remembered, Twice
<1> QED
  BY <1>1, <1>2, <1>3, <1>4, <1>5 DEF CallInv

LEMMA InitIInv == Init => IInv
<1> SUFFICES ASSUME Init PROVE IInv
  OBVIOUS
<1> USE NoCallFields
<1>1. TypeOK
  <2>1. providers \in Seq(Platforms) /\ Len(providers) <= MaxProviders
    BY BoundAssumption DEF Init
  <2>2. call \in [Devices -> Call] /\ delivered \in [Devices -> Nat]
    BY NoCallType DEF Init
  <2> QED
    BY <2>1, <2>2 DEF Init, TypeOK
<1>2. ASSUME NEW d \in Devices PROVE CallInv(d)
  <2>1. call[d] = NoCall /\ delivered[d] = 0 /\ providers = <<>>
    BY DEF Init
  <2>2. Idle(d) /\ Position(d)
    BY <2>1 DEF Idle, Position, Waiting, Routed
  <2>3. IssuerKeeps(d) /\ Selected(d)
    BY <2>1 DEF IssuerKeeps, Selected
  <2>4. Remembered(d) /\ Twice(d)
    BY <2>1 DEF Remembered, Twice
  <2> QED
    BY <2>2, <2>3, <2>4 DEF CallInv
<1> QED
  BY <1>1, <1>2 DEF IInv

(* The service takes r from the provider it asked: the core of FailLocally *)
(* and of Hear.                                                            *)
LEMMA TakeKeeps ==
    ASSUME IInv, NEW d \in Devices, NEW r \in SendResult,
           call[d].at \in {"trying", "answered"},
           call[d].next \in 1 .. Len(providers),
           call' = [call EXCEPT ![d] = Take(d, r)],
           UNCHANGED <<issuer, providers, built, installed, registered, delivered>>,
           d \in installed /\ providers[call[d].next] = issuer[d]
              => ~ShouldRemoveDevice(r),
           delivered[d] > 0 =>
              \/ Lost(d)
              \/ providers[call[d].next] = issuer[d] /\ (r = Ok \/ r \in LostErrors)
    PROVE  CallInv(d)'
<1> DEFINE c == call[d]
           t == Take(d, r)
<1>1. /\ call'[d] = t
      /\ issuer' = issuer /\ providers' = providers /\ built' = built
      /\ installed' = installed /\ delivered' = delivered
  BY DEF IInv, TypeOK
<1>2. /\ c \in Call /\ providers \in Seq(Platforms) /\ delivered[d] \in Nat
      /\ c.errors \in Seq(PushError) /\ c.next \in Nat
  BY DEF IInv, TypeOK, Call
<1>3. /\ Idle(d) /\ Position(d) /\ IssuerKeeps(d) /\ Selected(d)
      /\ Remembered(d) /\ Twice(d)
  BY DEF IInv, CallInv
<1>4. TypeOK
  BY DEF IInv
<1>5. Idle(d)' /\ c.op # "none" /\ c.at # "none" /\ c.result = Ok
  BY <1>1, <1>3, <1>4, TakeFields DEF Idle, Position, NoCall
<1>6. CASE r # Ok /\ c.op = "send"
  <2>1. /\ t.op = "send" /\ t.at = "trying" /\ t.next = c.next + 1
        /\ t.errors = Append(c.errors, r) /\ t.result = Ok
    BY <1>4, <1>5, <1>6, TakeFields
  <2>2. c.next = Len(c.errors) + 1
    BY <1>3, <1>6 DEF Position, Waiting
  <2>3. /\ Len(t.errors) = Len(c.errors) + 1
        /\ DOMAIN t.errors = DOMAIN c.errors \cup {c.next}
        /\ \A i \in DOMAIN c.errors : t.errors[i] = c.errors[i]
        /\ t.errors[c.next] = r
        /\ \A i \in DOMAIN c.errors : i \in Nat /\ i < c.next
    <3>1. r \in PushError
      BY <1>6 DEF SendResult
    <3> HIDE DEF c, t
    <3> QED
      BY <1>2, <2>1, <2>2, <3>1
  <2> HIDE DEF c, t
  <2>4. Position(d)'
    <3>1. Len(t.errors) <= Len(providers)
      BY <1>2, <2>2, <2>3 DEF c
    <3> QED
      BY <1>1, <2>1, <2>2, <2>3, <3>1 DEF Position, Waiting
  <2>5. IssuerKeeps(d)'
    BY <1>1, <1>3, <2>1, <2>3 DEF IssuerKeeps, c
  <2>6. Selected(d)'
    BY <1>1, <2>1 DEF Selected
  <2>7. Remembered(d)'
    <3>1. Lost(d) => Lost(d)'
      BY <1>1, <2>3 DEF Lost, c
    <3>2. providers[c.next] = issuer[d] /\ r \in LostErrors => Lost(d)'
      BY <1>1, <1>2, <2>3 DEF Lost, c
    <3> QED
      BY <1>1, <1>6, <3>1, <3>2 DEF Remembered, c
  <2>8. Twice(d)'
    BY <1>1, <1>3, <2>3 DEF Twice, c
  <2> QED
    BY <1>5, <2>4, <2>5, <2>6, <2>7, <2>8 DEF CallInv
<1>7. CASE r = Ok \/ c.op # "send"
  <2>1. /\ t.op = c.op /\ t.at = "done" /\ t.next = c.next
        /\ t.errors = c.errors /\ t.result = r
    BY <1>4, <1>7, TakeFields
  <2> HIDE DEF t
  <2>2. Position(d)'
    BY <1>1, <1>3, <1>5, <2>1 DEF Position, Waiting, Routed
  <2>3. IssuerKeeps(d)'
    <3>1. c.op # "send" => providers[c.next] = issuer[d]
      BY <1>3 DEF Position, Waiting
    <3> QED
      BY <1>1, <1>3, <2>1, <3>1 DEF IssuerKeeps
  <2>4. Selected(d)'
    BY <1>1, <1>7, <2>1 DEF Selected
  <2>5. Remembered(d)'
    BY <1>1, <1>7, <2>1 DEF Remembered
  <2>6. Twice(d)'
    BY <1>1, <1>3, <2>1 DEF Twice
  <2> QED
    BY <1>5, <2>2, <2>3, <2>4, <2>5, <2>6 DEF CallInv
<1> QED
  BY <1>6, <1>7

-----------------------------------------------------------------------------
LEMMA AskedProvider ==
    ASSUME IInv, NEW d \in Devices,
           Trying(d) \/ call[d].at \in {"flight", "answered"}
    PROVE  /\ call[d].next \in 1 .. Len(providers)
           /\ providers[call[d].next] \in Platforms
<1>1. /\ call[d] \in Call /\ providers \in Seq(Platforms) /\ Position(d)
      /\ Len(call[d].errors) \in Nat
  BY DEF IInv, CallInv, TypeOK, Call
<1>2. call[d].next \in 1 .. Len(providers)
  BY <1>1 DEF Position, Waiting, Trying, Call
<1> QED
  BY <1>1, <1>2

LEMMA NextType == IInv /\ [Next]_vars => TypeOK'
<1> SUFFICES ASSUME IInv, [Next]_vars PROVE TypeOK'
  OBVIOUS
<1>0. TypeOK
  BY DEF IInv
<1> USE <1>0
<1>1. ASSUME NEW p \in Platforms, AddProvider(p) PROVE TypeOK'
  <2>1. providers' \in Seq(Platforms) /\ Len(providers') = Len(providers) + 1
    BY <1>1 DEF AddProvider, TypeOK
  <2>2. Len(providers) \in Nat /\ Len(providers) < MaxProviders
    BY <1>1 DEF AddProvider, TypeOK
  <2> QED
    BY <1>1, <2>1, <2>2, BoundAssumption DEF AddProvider, TypeOK
<1>2. CASE Share
  BY <1>2 DEF Share, TypeOK
<1>3. ASSUME NEW d \in Devices, NEW r \in SendResult,
             call' = [call EXCEPT ![d] = Take(d, r)],
             UNCHANGED <<issuer, providers, built, installed, registered, delivered>>
      PROVE  TypeOK'
  BY <1>3, TakeFields DEF TypeOK
<1>4. ASSUME NEW d \in Devices, Start(d) PROVE TypeOK'
  <2>1. \E c \in Call : call' = [call EXCEPT ![d] = c]
    <3>1. \A op \in {"send", "device", "subscription"}, i \in Nat :
             [NoCall EXCEPT !.op = op, !.at = "trying", !.next = i] \in Call
      BY NoCallType DEF Call
    <3>2. \A op \in {"send", "device", "subscription"} :
             [NoCall EXCEPT !.op = op, !.at = "done", !.result = Err("Config")] \in Call
      BY NoCallType, ErrorTypes DEF Call, SendResult, Kinds
    <3>3. \A p : ProviderFor(p) \in Nat
      BY ProviderForPicks DEF TypeOK
    <3>4. CASE Send(d)
      BY <3>1, <3>4 DEF Send
    <3>5. ASSUME NEW op \in {"send", "device", "subscription"}, NEW p, Route(d, op, p)
          PROVE  \E c \in Call : call' = [call EXCEPT ![d] = c]
      BY <3>1, <3>2, <3>3, <3>5 DEF Route
    <3> QED
      BY <1>4, <3>4, <3>5 DEF Start
  <2> QED
    BY <1>4, <2>1 DEF Start, TypeOK
<1>5. ASSUME NEW d \in Devices, FailLocally(d) PROVE TypeOK'
  <2>1. PICK e \in LocalErrors(providers[call[d].next], d) :
              call' = [call EXCEPT ![d] = Take(d, e)]
    BY <1>5 DEF FailLocally
  <2>2. providers[call[d].next] \in Platforms
    BY <1>5, AskedProvider DEF FailLocally
  <2>3. e \in SendResult
    BY <2>2, LocalErrorFacts DEF SendResult
  <2> QED
    BY <1>3, <1>5, <2>1, <2>3 DEF FailLocally
<1>6. ASSUME NEW d \in Devices, Post(d) PROVE TypeOK'
  BY <1>6 DEF Post, TypeOK, Call
<1>7. ASSUME NEW d \in Devices, Deal(d) PROVE TypeOK'
  <2>1. providers[call[d].next] \in Platforms
    BY <1>7, AskedProvider DEF Deal
  <2>2. PICK o \in Outcomes(providers[call[d].next], d) :
           /\ call' = [call EXCEPT ![d].at = "answered", ![d].outcome = o]
           /\ delivered' \in {delivered, [delivered EXCEPT ![d] = @ + 1]}
    BY <1>7 DEF Deal
  <2>3. o \in Outcome
    BY <2>1, OutcomesType
  <2>4. call' \in [Devices -> Call]
    <3>1. [call[d] EXCEPT !.at = "answered", !.outcome = o] \in Call
      BY <2>3 DEF TypeOK, Call
    <3>2. call' = [call EXCEPT ![d] = [call[d] EXCEPT !.at = "answered", !.outcome = o]]
      BY <2>2 DEF TypeOK, Call
    <3> QED
      BY <3>1, <3>2 DEF TypeOK
  <2>5. delivered' \in [Devices -> Nat]
    BY <2>2 DEF TypeOK
  <2> QED
    BY <1>7, <2>4, <2>5 DEF Deal, TypeOK
<1>8. ASSUME NEW d \in Devices, Hear(d) PROVE TypeOK'
  <2>1. providers[call[d].next] \in Platforms
    BY <1>8, AskedProvider DEF Hear
  <2>2. Result(providers[call[d].next], call[d].outcome) \in SendResult
    BY <2>1, ResultFacts DEF TypeOK, Call
  <2> QED
    BY <1>3, <1>8, <2>2 DEF Hear
<1>9. ASSUME NEW d \in Devices, Exhaust(d) PROVE TypeOK'
  <2>1. SelectError(call[d].errors) \in SendResult
    BY SelectErrorPicks DEF TypeOK, Call, SendResult
  <2>2. Done(d, SelectError(call[d].errors)) \in Call
    BY <2>1 DEF Done, TypeOK, Call
  <2> QED
    BY <1>9, <2>2 DEF Exhaust, TypeOK
<1>10. ASSUME NEW d \in Devices, Act(d) PROVE TypeOK'
  BY <1>10, NoCallType DEF Act, TypeOK
<1>11. ASSUME NEW d \in Devices, DropCall(d) PROVE TypeOK'
  BY <1>11, NoCallType DEF DropCall, TypeOK
<1>12. ASSUME NEW d \in Devices, Uninstall(d) PROVE TypeOK'
  BY <1>12 DEF Uninstall, TypeOK
<1>13. CASE UNCHANGED vars
  BY <1>13 DEF vars, TypeOK
<1> QED
  BY <1>1, <1>2, <1>4, <1>5, <1>6, <1>7, <1>8, <1>9, <1>10, <1>11, <1>12, <1>13 DEF Next

-----------------------------------------------------------------------------
(* The steps of one call.                                                  *)
LEMMA StartKeeps ==
    ASSUME IInv, TypeOK', NEW d \in Devices, Start(d)
    PROVE  CallInv(d)'
<1>1. /\ issuer' = issuer /\ providers' = providers /\ built' /\ installed' = installed
      /\ delivered'[d] = 0 /\ providers \in Seq(Platforms) /\ issuer[d] \in Platforms
  BY DEF Start, IInv, TypeOK
<1> DEFINE Started(c) ==
              /\ c.errors = <<>> /\ c.at \in {"trying", "done"}
              /\ c.op \in {"send", "device", "subscription"}
              /\ c.op = "send" => c.at = "trying" /\ c.next = 1
              /\ c.at = "trying" => c.result = Ok
              /\ c.result \in {Ok, Err("Config")}
              /\ c.op # "send" =>
                    IF c.next = 0 THEN c.at = "done" /\ c.result = Err("Config")
                    ELSE c.at = "trying" /\ c.next \in 1 .. Len(providers)
                         /\ providers[c.next] = issuer[d]
<1>2. Started(call'[d])
  <2>1. \A op, i : LET c == [NoCall EXCEPT !.op = op, !.at = "trying", !.next = i] IN
           c.op = op /\ c.at = "trying" /\ c.next = i /\ c.errors = <<>> /\ c.result = Ok
    BY DEF NoCall
  <2>2. \A op, r : LET c == [NoCall EXCEPT !.op = op, !.at = "done", !.result = r] IN
           c.op = op /\ c.at = "done" /\ c.next = 0 /\ c.errors = <<>> /\ c.result = r
    BY DEF NoCall
  <2>3. CASE Send(d)
    <3>1. call'[d] = [NoCall EXCEPT !.op = "send", !.at = "trying", !.next = 1]
      BY <2>3 DEF Send, IInv, TypeOK
    <3> QED
      BY <2>1, <3>1
  <2>4. ASSUME NEW op \in {"device", "subscription"}, Route(d, op, issuer[d])
        PROVE  Started(call'[d])
    <3>1. call'[d] = IF ProviderFor(issuer[d]) = 0
                     THEN [NoCall EXCEPT !.op = op, !.at = "done", !.result = Err("Config")]
                     ELSE [NoCall EXCEPT !.op = op, !.at = "trying",
                                         !.next = ProviderFor(issuer[d])]
      BY <2>4 DEF Route, IInv, TypeOK
    <3>2. ProviderFor(issuer[d]) # 0 => /\ ProviderFor(issuer[d]) \in 1 .. Len(providers)
                                        /\ providers[ProviderFor(issuer[d])] = issuer[d]
      BY <1>1, ProviderForPicks
    <3>3. CASE ProviderFor(issuer[d]) = 0
      BY <2>2, <2>4, <3>1, <3>3
    <3>4. CASE ProviderFor(issuer[d]) # 0
      BY <2>1, <2>4, <3>1, <3>2, <3>4
    <3> QED
      BY <3>3, <3>4
  <2>5. Send(d) \/ \E op \in {"device", "subscription"} : Route(d, op, issuer[d])
    BY DEF Start
  <2> HIDE DEF Started
  <2> QED
    BY <2>3, <2>4, <2>5
<1>3. DOMAIN <<>> = {} /\ Len(call'[d].errors) = 0 /\ Len(providers) \in Nat
  BY <1>1, <1>2
<1>4. ~ShouldRemoveDevice(Ok) /\ ~ShouldRemoveDevice(Err("Config"))
  BY FailuresKeepTheDevice, NoCallFields
<1>5. Idle(d)' /\ Position(d)'
  BY <1>1, <1>2, <1>3 DEF Idle, Position, Waiting, Routed
<1>6. IssuerKeeps(d)' /\ Selected(d)'
  BY <1>1, <1>2, <1>3, <1>4 DEF IssuerKeeps, Selected
<1>7. Remembered(d)' /\ Twice(d)'
  BY <1>1 DEF Remembered, Twice
<1> QED
  BY <1>5, <1>6, <1>7 DEF CallInv

LEMMA FailLocallyKeeps ==
    ASSUME IInv, NEW d \in Devices, FailLocally(d)
    PROVE  CallInv(d)'
<1>1. PICK e \in LocalErrors(providers[call[d].next], d) :
            call' = [call EXCEPT ![d] = Take(d, e)]
  BY DEF FailLocally
<1>2. /\ call[d].at = "trying"
      /\ call[d].next \in 1 .. Len(providers)
      /\ providers[call[d].next] \in Platforms
  BY AskedProvider DEF FailLocally, Trying
<1>3. e \in SendResult /\ (providers[call[d].next] = issuer[d] => ~ShouldRemoveDevice(e))
  BY <1>2, LocalErrorFacts DEF SendResult
<1>4. delivered[d] > 0 => Lost(d)
  BY <1>2 DEF IInv, CallInv, Remembered
<1> QED
  BY <1>1, <1>2, <1>3, <1>4, TakeKeeps DEF FailLocally

LEMMA HearKeeps ==
    ASSUME IInv, NEW d \in Devices, Hear(d)
    PROVE  CallInv(d)'
<1> DEFINE p == providers[call[d].next]
           r == Result(p, call[d].outcome)
<1>1. call[d].at = "answered" /\ call[d].next \in 1 .. Len(providers) /\ p \in Platforms
  BY AskedProvider DEF Hear
<1>2. call[d].outcome \in Outcome
  BY DEF IInv, TypeOK, Call
<1>3. r \in SendResult
  BY <1>1, <1>2, ResultFacts
<1>4. d \in installed /\ p = issuer[d] => ~ShouldRemoveDevice(r)
  BY <1>1 DEF IInv, CallInv, IssuerKeeps
<1>5. delivered[d] > 0 => \/ Lost(d)
                          \/ p = issuer[d] /\ (r = Ok \/ r \in LostErrors)
  <2>1. ~Answered(call[d].outcome) => r \in LostErrors
    BY <1>1, <1>2, ResultFacts
  <2>2. Answered(call[d].outcome) /\ IsSuccess(call[d].outcome.status) => r = Ok
    BY <1>1, <1>2, ResultFacts
  <2> QED
    BY <1>1, <2>1, <2>2 DEF IInv, CallInv, Remembered
<1>6. call' = [call EXCEPT ![d] = Take(d, r)]
  BY DEF Hear
<1> HIDE DEF r
<1> QED
  BY <1>1, <1>3, <1>4, <1>5, <1>6, TakeKeeps DEF Hear

LEMMA PostKeeps ==
    ASSUME IInv, NEW d \in Devices, Post(d)
    PROVE  CallInv(d)'
<1>1. /\ call'[d].at = "flight" /\ call'[d].op = call[d].op
      /\ call'[d].next = call[d].next /\ call'[d].errors = call[d].errors
      /\ call'[d].result = call[d].result
  BY DEF Post, IInv, TypeOK, Call
<1>2. /\ issuer' = issuer /\ providers' = providers /\ built' = built
      /\ installed' = installed /\ delivered' = delivered
      /\ call[d].at = "trying"
  BY DEF Post, Trying
<1>3. call[d].next \in 1 .. Len(providers)
  BY AskedProvider DEF Post
<1>4. /\ Idle(d) /\ Position(d) /\ IssuerKeeps(d) /\ Remembered(d) /\ Twice(d)
      /\ call[d] # NoCall
  BY <1>2, NoCallFields DEF IInv, CallInv
<1>5. Idle(d)' /\ Position(d)'
  BY <1>1, <1>2, <1>3, <1>4 DEF Idle, Position, Waiting, Routed
<1>6. IssuerKeeps(d)' /\ Selected(d)'
  BY <1>1, <1>2, <1>4 DEF IssuerKeeps, Selected
<1>7. Remembered(d)' /\ Twice(d)'
  BY <1>1, <1>2, <1>4 DEF Remembered, Twice, Lost
<1> QED
  BY <1>5, <1>6, <1>7 DEF CallInv

(* The only step that delivers.  What was delivered before and has not     *)
(* ended the call was lost, with a provider tried earlier.                 *)
LEMMA DealKeeps ==
    ASSUME IInv, NEW d \in Devices, Deal(d)
    PROVE  CallInv(d)'
<1> DEFINE p == providers[call[d].next]
<1>1. PICK o \in Outcomes(p, d) :
         /\ call' = [call EXCEPT ![d].at = "answered", ![d].outcome = o]
         /\ \/ UNCHANGED delivered
            \/ /\ p = issuer[d]
               /\ ~Answered(o) \/ IsSuccess(o.status)
               /\ delivered' = [delivered EXCEPT ![d] = @ + 1]
  BY DEF Deal
<1>2. /\ call'[d].at = "answered" /\ call'[d].op = call[d].op
      /\ call'[d].next = call[d].next /\ call'[d].errors = call[d].errors
      /\ call'[d].result = call[d].result /\ call'[d].outcome = o
  BY <1>1 DEF IInv, TypeOK, Call
<1>3. /\ issuer' = issuer /\ providers' = providers /\ built' = built
      /\ installed' = installed /\ call[d].at = "flight"
  BY DEF Deal
<1>4. call[d].next \in 1 .. Len(providers) /\ p \in Platforms
  BY AskedProvider DEF Deal
<1>5. /\ Idle(d) /\ Position(d) /\ IssuerKeeps(d) /\ Remembered(d) /\ Twice(d)
      /\ call[d] # NoCall
  BY <1>3, NoCallFields DEF IInv, CallInv
<1>6. p = issuer[d] /\ d \in installed => ~ShouldRemoveDevice(Result(p, o))
  BY <1>4, OutcomesType
<1>7. Idle(d)' /\ Position(d)'
  BY <1>2, <1>3, <1>4, <1>5 DEF Idle, Position, Waiting, Routed
<1>8. IssuerKeeps(d)' /\ Selected(d)'
  BY <1>2, <1>3, <1>5, <1>6 DEF IssuerKeeps, Selected
<1>9. delivered[d] > 0 => Lost(d)
  BY <1>3, <1>5 DEF Remembered
<1>10. Lost(d)' <=> Lost(d)
  BY <1>2, <1>3 DEF Lost
<1>11. CASE UNCHANGED delivered
  <2>1. Remembered(d)'
    BY <1>9, <1>10, <1>11 DEF Remembered
  <2>2. Twice(d)'
    BY <1>2, <1>3, <1>5, <1>11 DEF Twice
  <2> QED
    BY <1>7, <1>8, <2>1, <2>2 DEF CallInv
<1>12. CASE /\ p = issuer[d]
            /\ ~Answered(o) \/ IsSuccess(o.status)
            /\ delivered' = [delivered EXCEPT ![d] = @ + 1]
  <2>1. Remembered(d)'
    BY <1>2, <1>3, <1>12 DEF Remembered
  <2>2. Twice(d)'
    <3>1. delivered'[d] = delivered[d] + 1 /\ delivered[d] \in Nat
      BY <1>12 DEF IInv, TypeOK
    <3>2. SUFFICES ASSUME delivered[d] > 0
                   PROVE  Twice(d)'
      BY <3>1 DEF Twice
    <3>3. PICK i \in DOMAIN call[d].errors :
             /\ i \in DOMAIN providers /\ providers[i] = issuer[d]
             /\ call[d].errors[i] \in LostErrors
      BY <1>9, <3>2 DEF Lost
    <3>4. i < call[d].next
      <4>1. call[d].op = "send"
        BY <1>5, <3>3 DEF Position
      <4>2. call[d].next = Len(call[d].errors) + 1
        BY <1>3, <1>5, <4>1 DEF Position, Waiting
      <4>3. call[d].errors \in Seq(PushError)
        BY DEF IInv, TypeOK, Call
      <4> QED
        BY <4>2, <4>3
    <3>5. call[d].next \in DOMAIN providers
      BY <1>4 DEF IInv, TypeOK
    <3> QED
      BY <1>2, <1>3, <1>12, <3>3, <3>4, <3>5 DEF Twice
  <2> QED
    BY <1>7, <1>8, <2>1, <2>2 DEF CallInv
<1> QED
  BY <1>1, <1>11, <1>12

LEMMA ExhaustKeeps ==
    ASSUME IInv, NEW d \in Devices, Exhaust(d)
    PROVE  CallInv(d)'
<1>1. /\ call'[d].at = "done" /\ call'[d].op = call[d].op
      /\ call'[d].errors = call[d].errors
      /\ call'[d].result = SelectError(call[d].errors)
  BY DEF Exhaust, Done, IInv, TypeOK, Call
<1>2. /\ issuer' = issuer /\ providers' = providers /\ built' = built
      /\ installed' = installed /\ delivered' = delivered
      /\ call[d].at = "trying" /\ call[d].next > Len(providers)
  BY DEF Exhaust
<1>3. /\ Idle(d) /\ Position(d) /\ IssuerKeeps(d) /\ Remembered(d) /\ Twice(d)
      /\ call[d] # NoCall /\ Len(providers) \in Nat /\ Len(call[d].errors) \in Nat
  BY <1>2, NoCallFields DEF IInv, CallInv, TypeOK, Call
<1>4. call[d].op = "send" /\ call[d].next = Len(call[d].errors) + 1
  BY <1>2, <1>3 DEF Position, Waiting
<1>5. Len(call[d].errors) = Len(providers)
  BY <1>2, <1>3, <1>4 DEF Position
<1>6. Idle(d)' /\ Position(d)'
  BY <1>1, <1>2, <1>3, <1>4 DEF Idle, Position, Waiting, Routed
<1>7. IssuerKeeps(d)' /\ Selected(d)'
  BY <1>1, <1>2, <1>3, <1>4, <1>5 DEF IssuerKeeps, Selected
<1>8. Remembered(d)' /\ Twice(d)'
  BY <1>1, <1>2, <1>3 DEF Remembered, Twice, Lost
<1> QED
  BY <1>6, <1>7, <1>8 DEF CallInv

-----------------------------------------------------------------------------
LEMMA NextIInv == IInv /\ [Next]_vars => IInv'
<1> SUFFICES ASSUME IInv, [Next]_vars PROVE IInv'
  OBVIOUS
<1>0. TypeOK /\ TypeOK' /\ providers' \in Seq(Platforms)
  BY NextType DEF IInv, TypeOK
<1>1. ASSUME NEW e \in Devices, CallInv(e)',
             \A d \in Devices \ {e} : call'[d] = call[d] /\ delivered'[d] = delivered[d],
             issuer' = issuer, providers' = providers, built' = built,
             installed' = installed
      PROVE  IInv'
  <2>1. ASSUME NEW d \in Devices \ {e} PROVE CallInv(d)'
    BY <1>1, <2>1, Untouched DEF IInv
  <2> QED
    BY <1>0, <1>1, <2>1 DEF IInv
<1>2. ASSUME \A d \in Devices : call'[d] = call[d] /\ delivered'[d] = delivered[d],
             issuer' = issuer, providers' = providers, built => built',
             installed' \subseteq installed
      PROVE  IInv'
  <2>1. ASSUME NEW d \in Devices PROVE CallInv(d)'
    BY <1>2, <2>1, Untouched DEF IInv
  <2> QED
    BY <1>0, <2>1 DEF IInv
<1>3. ASSUME NEW p \in Platforms, AddProvider(p) PROVE IInv'
  <2>1. ASSUME NEW d \in Devices PROVE CallInv(d)'
    <3>1. call'[d] = NoCall /\ delivered'[d] = 0
      BY <1>3 DEF AddProvider, IInv, CallInv, Idle
    <3> QED
      BY <1>0, <3>1, NoCallKeeps
  <2> QED
    BY <1>0, <2>1 DEF IInv
<1>4. CASE Share
  BY <1>2, <1>4 DEF Share
<1>5. ASSUME NEW d \in Devices, Start(d) PROVE IInv'
  <2>1. CallInv(d)'
    BY <1>0, <1>5, StartKeeps
  <2>2. \E c : call' = [call EXCEPT ![d] = c]
    BY <1>5 DEF Start, Send, Route
  <2> QED
    BY <1>0, <1>1, <1>5, <2>1, <2>2 DEF Start, TypeOK
<1>6. ASSUME NEW d \in Devices, FailLocally(d) PROVE IInv'
  BY <1>0, <1>1, <1>6, FailLocallyKeeps DEF FailLocally, TypeOK
<1>7. ASSUME NEW d \in Devices, Post(d) PROVE IInv'
  BY <1>0, <1>1, <1>7, PostKeeps DEF Post, TypeOK
<1>8. ASSUME NEW d \in Devices, Deal(d) PROVE IInv'
  BY <1>0, <1>1, <1>8, DealKeeps DEF Deal, TypeOK
<1>9. ASSUME NEW d \in Devices, Hear(d) PROVE IInv'
  BY <1>0, <1>1, <1>9, HearKeeps DEF Hear, TypeOK
<1>10. ASSUME NEW d \in Devices, Exhaust(d) PROVE IInv'
  BY <1>0, <1>1, <1>10, ExhaustKeeps DEF Exhaust, TypeOK
<1>11. ASSUME NEW d \in Devices, Act(d) \/ DropCall(d) PROVE IInv'
  <2>1. /\ call' = [call EXCEPT ![d] = NoCall]
        /\ delivered' = [delivered EXCEPT ![d] = 0]
        /\ issuer' = issuer /\ providers' = providers /\ built' = built
        /\ installed' = installed
    BY <1>11 DEF Act, DropCall
  <2>2. CallInv(d)'
    BY <1>0, <2>1, NoCallKeeps DEF TypeOK
  <2> QED
    BY <1>0, <1>1, <2>1, <2>2 DEF TypeOK
<1>12. ASSUME NEW d \in Devices, Uninstall(d) PROVE IInv'
  BY <1>2, <1>12 DEF Uninstall
<1>13. CASE UNCHANGED vars
  BY <1>2, <1>13 DEF vars
<1> QED
  BY <1>3, <1>4, <1>5, <1>6, <1>7, <1>8, <1>9, <1>10, <1>11, <1>12, <1>13 DEF Next

LEMMA Invariance == Spec => []IInv
BY InitIInv, NextIInv, PTL DEF Spec

-----------------------------------------------------------------------------
(* The types hold for any devices and providers: every result a caller of  *)
(* PushService reads is Ok or an error of the crate.                       *)
THEOREM TypeCorrect == Spec => []TypeOK
<1>1. IInv => TypeOK
  BY DEF IInv
<1> QED
  BY Invariance, <1>1, PTL

(* provider.rs:108: however many providers there are, in whatever order,   *)
(* and whatever they say of a token they never issued, the verdict of a    *)
(* call does not make the caller delete a device that is still alive, if a *)
(* provider of its platform is configured.                                 *)
THEOREM LiveDevicesKept == Spec => []NoLiveDeviceRemoved
<1>1. IInv => NoLiveDeviceRemoved
  <2> SUFFICES ASSUME IInv, NEW d \in Devices,
                      call[d].at = "done", call[d].result # Ok,
                      ShouldRemoveDevice(call[d].result),
                      d \in installed, Configured(d)
               PROVE  FALSE
    BY DEF NoLiveDeviceRemoved
  <2>1. call[d].op = "send"
    BY DEF IInv, CallInv, IssuerKeeps
  <2>2. /\ Len(call[d].errors) = Len(providers)
        /\ call[d].result = SelectError(call[d].errors)
    BY <2>1 DEF IInv, CallInv, Selected
  <2>3. call[d].errors \in Seq(PushError) /\ providers \in Seq(Platforms)
    BY DEF IInv, TypeOK, Call
  <2>4. PICK i \in 1 .. Len(providers) : providers[i] = issuer[d]
    BY <2>3, ProviderForPicks DEF Configured
  <2>5. i \in DOMAIN call[d].errors
    BY <2>2, <2>3, <2>4
  <2>6. ~ShouldRemoveDevice(call[d].errors[i])
    BY <2>4, <2>5 DEF IInv, CallInv, IssuerKeeps
  <2> QED
    BY <2>2, <2>3, <2>5, <2>6, SelectErrorPicks
<1> QED
  BY Invariance, <1>1, PTL

(* send_to_device and send_to_subscription ask the first provider of the   *)
(* token's platform and no other, or tell the caller that there is none;   *)
(* neither removes a device that is alive.                                 *)
THEOREM RoutedCalls == Spec => []RoutedToTheIssuer
<1>1. IInv => RoutedToTheIssuer
  <2> SUFFICES ASSUME IInv, NEW d \in Devices,
                      call[d].op \in {"device", "subscription"}
               PROVE  /\ IF call[d].next = 0
                         THEN call[d].at = "done" /\ call[d].result = Err("Config")
                         ELSE /\ call[d].next \in DOMAIN providers
                              /\ providers[call[d].next] = issuer[d]
                      /\ d \in installed
                           => call[d].result = Ok \/ ~ShouldRemoveDevice(call[d].result)
    BY DEF RoutedToTheIssuer
  <2>1. Routed(d) /\ IssuerKeeps(d) /\ call[d].op # "send"
    BY DEF IInv, CallInv, Position
  <2>2. DOMAIN providers = 1 .. Len(providers)
    BY DEF IInv, TypeOK
  <2> QED
    BY <2>1, <2>2 DEF Routed, IssuerKeeps
<1> QED
  BY Invariance, <1>1, PTL

(* select_error: send fails with an error some provider gave, and reports  *)
(* the removal on which all of them agree.                                 *)
THEOREM DeadTokensReported == Spec => []UnanimousRemovalReported
<1>1. IInv => UnanimousRemovalReported
  <2> SUFFICES ASSUME IInv, NEW d \in Devices,
                      call[d].at = "done", call[d].op = "send",
                      call[d].result # Ok, call[d].errors # <<>>
               PROVE  /\ (\A i \in DOMAIN call[d].errors : ShouldRemoveDevice(call[d].errors[i]))
                            => ShouldRemoveDevice(call[d].result)
                      /\ \E i \in DOMAIN call[d].errors : call[d].errors[i] = call[d].result
    BY DEF UnanimousRemovalReported
  <2>1. call[d].result = SelectError(call[d].errors)
    BY DEF IInv, CallInv, Selected
  <2>2. call[d].errors \in Seq(PushError)
    BY DEF IInv, TypeOK, Call
  <2> QED
    BY <2>1, <2>2, SelectErrorPicks
<1> QED
  BY Invariance, <1>1, PTL

(* A device gets a notification twice from one call only when two          *)
(* providers of its platform are configured and the answer to the first    *)
(* delivery was lost on its way back.                                      *)
THEOREM DuplicatesExplained == Spec => []DuplicateOnlyAfterLostAnswer
<1>1. IInv => DuplicateOnlyAfterLostAnswer
  BY DEF IInv, CallInv, Twice, LostErrors, DuplicateOnlyAfterLostAnswer
<1> QED
  BY Invariance, <1>1, PTL

-----------------------------------------------------------------------------
(* Why a call ends, as far as it goes without fairness.                    *)

(* The steps a call may still take: trying a provider, posting to it and   *)
(* hearing from it, for each provider it has not tried, and the last step. *)
Steps(c, k) ==
    CASE c.at = "trying"   -> 3 * (k + 1 - c.next) + 1
      [] c.at = "flight"   -> 3 * (k + 1 - c.next)
      [] c.at = "answered" -> 3 * (k + 1 - c.next) - 1
      [] OTHER             -> 0

StepsLeft(d) == Steps(call[d], Len(providers))

LEMMA StepsType ==
    ASSUME NEW c, NEW k \in Nat, c.next \in Nat,
           c.at = "trying" => c.next <= k + 1,
           c.at \in {"flight", "answered"} => c.next <= k
    PROVE  /\ Steps(c, k) \in Nat
           /\ c.at \in {"trying", "flight", "answered"} => Steps(c, k) > 0
<1>1. CASE c.at = "trying"
  BY <1>1 DEF Steps
<1>2. CASE c.at = "flight"
  BY <1>2 DEF Steps
<1>3. CASE c.at = "answered"
  BY <1>3 DEF Steps
<1>4. CASE c.at \notin {"trying", "flight", "answered"}
  BY <1>4 DEF Steps
<1> QED
  BY <1>1, <1>2, <1>3, <1>4

LEMMA StepsLeftType ==
    ASSUME TypeOK, NEW d \in Devices, Position(d)
    PROVE  /\ StepsLeft(d) \in Nat
           /\ Waiting(d) => StepsLeft(d) > 0
<1>1. /\ call[d].next \in Nat /\ Len(providers) \in Nat /\ Len(call[d].errors) \in Nat
  BY DEF TypeOK, Call
<1>2. call[d].at = "trying" => call[d].next <= Len(providers) + 1
  BY <1>1 DEF Position, Waiting
<1>3. call[d].at \in {"flight", "answered"} => call[d].next <= Len(providers)
  BY <1>1 DEF Position
<1> QED
  BY <1>1, <1>2, <1>3, StepsType DEF StepsLeft, Waiting

(* A result taken ends the call or takes it to the next provider.          *)
LEMMA TakeGetsOn ==
    ASSUME IInv, NEW d \in Devices, NEW r \in SendResult,
           call[d].at \in {"trying", "answered"}, call[d].next \in 1 .. Len(providers),
           call'[d] = Take(d, r), providers' = providers
    PROVE  StepsLeft(d)' < StepsLeft(d)
<1>1. /\ TypeOK /\ Position(d)
  BY DEF IInv, CallInv
<1>2. /\ call[d].next \in Nat /\ Len(providers) \in Nat
  BY <1>1 DEF TypeOK, Call
<1>3. StepsLeft(d) > 0 /\ StepsLeft(d) \in Nat
  BY <1>1, StepsLeftType DEF Waiting
<1>4. CASE r # Ok /\ call[d].op = "send"
  <2>1. call'[d].at = "trying" /\ call'[d].next = call[d].next + 1
    BY <1>1, <1>4, TakeFields
  <2>2. StepsLeft(d)' = 3 * (Len(providers) + 1 - (call[d].next + 1)) + 1
    BY <2>1 DEF StepsLeft, Steps
  <2>3. \/ StepsLeft(d) = 3 * (Len(providers) + 1 - call[d].next) + 1
        \/ StepsLeft(d) = 3 * (Len(providers) + 1 - call[d].next) - 1
    BY DEF StepsLeft, Steps
  <2> QED
    BY <1>2, <2>2, <2>3
<1>5. CASE r = Ok \/ call[d].op # "send"
  <2>1. call'[d].at = "done"
    BY <1>1, <1>5, TakeFields
  <2>2. StepsLeft(d)' = 0
    BY <2>1 DEF StepsLeft, Steps
  <2> QED
    BY <1>3, <2>2
<1> QED
  BY <1>4, <1>5

(* Whatever the providers answer and whoever else is served, a call that   *)
(* waits only ever gets nearer to its end: no provider is tried again, and *)
(* none is added meanwhile.  With the timeout of each request this is why  *)
(* EveryCallEnds; a call of n providers takes at most 3n + 1 steps.        *)
AttemptsRunOut ==
    [][\A d \in Devices :
          Waiting(d) /\ call'[d] # call[d]
             => StepsLeft(d)' < StepsLeft(d) /\ StepsLeft(d)' \in Nat]_vars

(* No call of the service goes on for ever, for any number of providers    *)
(* and any number of calls at once.                                        *)
THEOREM CallsGetOn == Spec => AttemptsRunOut
<1> DEFINE Nearer(d) == Waiting(d) /\ call'[d] # call[d]
                           => StepsLeft(d)' < StepsLeft(d)
<1>1. ASSUME IInv, Next, NEW d \in Devices PROVE Nearer(d)
  <2> SUFFICES ASSUME Waiting(d), call'[d] # call[d]
               PROVE  StepsLeft(d)' < StepsLeft(d)
    OBVIOUS
  <2>1. /\ TypeOK /\ CallInv(d) /\ Position(d)
        /\ StepsLeft(d) > 0 /\ StepsLeft(d) \in Nat
        /\ call[d].next \in Nat /\ Len(providers) \in Nat
    BY <1>1, StepsLeftType DEF IInv, CallInv, TypeOK, Call
  <2>2. \E e \in Devices : \/ Start(e) \/ FailLocally(e) \/ Post(e) \/ Deal(e)
                          \/ Hear(e) \/ Exhaust(e) \/ Act(e) \/ DropCall(e)
    BY <1>1 DEF Next, AddProvider, Share, Uninstall
  <2>3. \/ Start(d) \/ FailLocally(d) \/ Post(d) \/ Deal(d)
        \/ Hear(d) \/ Exhaust(d) \/ Act(d) \/ DropCall(d)
    <3>1. PICK e \in Devices : \/ Start(e) \/ FailLocally(e) \/ Post(e) \/ Deal(e)
                               \/ Hear(e) \/ Exhaust(e) \/ Act(e) \/ DropCall(e)
      BY <2>2
    <3>2. e # d => call'[d] = call[d]
      BY <2>1, <3>1 DEF TypeOK, Start, Send, Route, FailLocally, Post, Deal, Hear,
         Exhaust, Act, DropCall
    <3> QED
      BY <3>1, <3>2
  <2>4. CASE FailLocally(d)
    <3>1. PICK e \in LocalErrors(providers[call[d].next], d) :
                call' = [call EXCEPT ![d] = Take(d, e)]
      BY <2>4 DEF FailLocally
    <3>2. /\ call[d].next \in 1 .. Len(providers)
          /\ providers[call[d].next] \in Platforms
      BY <1>1, <2>4, AskedProvider DEF FailLocally
    <3>3. e \in SendResult
      BY <3>2, LocalErrorFacts DEF SendResult
    <3>4. call'[d] = Take(d, e) /\ providers' = providers /\ call[d].at = "trying"
      BY <2>1, <2>4, <3>1 DEF FailLocally, Trying, TypeOK
    <3> QED
      BY <1>1, <3>2, <3>3, <3>4, TakeGetsOn
  <2>5. CASE Hear(d)
    <3>1. /\ call[d].next \in 1 .. Len(providers)
          /\ providers[call[d].next] \in Platforms
      BY <1>1, <2>5, AskedProvider DEF Hear
    <3>2. Result(providers[call[d].next], call[d].outcome) \in SendResult
      BY <2>1, <3>1, ResultFacts DEF TypeOK, Call
    <3>3. /\ call'[d] = Take(d, Result(providers[call[d].next], call[d].outcome))
          /\ providers' = providers /\ call[d].at = "answered"
      BY <2>1, <2>5 DEF Hear, TypeOK
    <3> QED
      BY <1>1, <3>1, <3>2, <3>3, TakeGetsOn
  <2>6. CASE Post(d) \/ Deal(d)
    <3>1. /\ call'[d].next = call[d].next /\ providers' = providers
          /\ \/ call[d].at = "trying" /\ call'[d].at = "flight"
             \/ call[d].at = "flight" /\ call'[d].at = "answered"
      BY <2>1, <2>6 DEF Post, Trying, Deal, TypeOK, Call
    <3> QED
      BY <2>1, <3>1 DEF StepsLeft, Steps
  <2>7. CASE Exhaust(d) \/ DropCall(d) \/ Act(d)
    <3>1. call'[d].at \in {"done", "none"}
      BY <2>1, <2>7, NoCallFields DEF Exhaust, Done, DropCall, Act, TypeOK, Call
    <3>2. StepsLeft(d)' = 0
      BY <3>1 DEF StepsLeft, Steps
    <3> QED
      BY <2>1, <3>2
  <2>8. ~Start(d)
    BY DEF Start, Waiting
  <2> QED
    BY <2>3, <2>4, <2>5, <2>6, <2>7, <2>8
<1>2. IInv /\ [Next]_vars => IInv'
  BY NextIInv
<1>3. ASSUME IInv', NEW d \in Devices PROVE StepsLeft(d)' \in Nat
  <2>1. TypeOK' /\ Position(d)'
    BY <1>3 DEF IInv, CallInv
  <2>2. /\ call'[d].next \in Nat /\ Len(providers') \in Nat /\ Len(call'[d].errors) \in Nat
    BY <2>1 DEF TypeOK, Call
  <2>3. call'[d].at = "trying" => call'[d].next <= Len(providers') + 1
    BY <2>1, <2>2 DEF Position, Waiting
  <2>4. call'[d].at \in {"flight", "answered"} => call'[d].next <= Len(providers')
    BY <2>1, <2>2 DEF Position
  <2> QED
    BY <2>2, <2>3, <2>4, StepsType DEF StepsLeft
<1>4. IInv /\ [Next]_vars
        => [\A d \in Devices :
              Waiting(d) /\ call'[d] # call[d]
                 => StepsLeft(d)' < StepsLeft(d) /\ StepsLeft(d)' \in Nat]_vars
  BY <1>1, <1>2, <1>3
<1> QED
  BY <1>4, Invariance, PTL DEF Spec, AttemptsRunOut
=============================================================================
