---------------------------- MODULE PushService ----------------------------
(***************************************************************************)
(* PushService (provider.rs) between its providers and a caller that keeps *)
(* a registry of devices and follows the verdicts: it deletes a device     *)
(* when the error of a send says should_remove_device.                     *)
(*                                                                         *)
(* The service is built first (add_provider) and shared afterwards.  A     *)
(* device has at most one call in progress; calls for different devices    *)
(* share nothing but the providers.  An app may be uninstalled at any      *)
(* moment, also while a send to it is in flight.                           *)
(*                                                                         *)
(* A call is one send to one device:                                       *)
(*   send          PushService::send, every provider in turn               *)
(*   device        PushService::send_to_device(_ref), the one provider of  *)
(*                 the device's platform                                   *)
(*   subscription  PushService::send_to_subscription                       *)
(* at is trying before a provider is tried, flight while its request is on *)
(* its way, answered while the provider's answer is, done when the caller  *)
(* has the result.                                                         *)
(***************************************************************************)
EXTENDS Responses, Sequences

CONSTANTS
    Devices,
    MaxProviders,      \* bound on the providers added
    TransientStatuses  \* statuses that say nothing about the device

ASSUME BoundAssumption  == MaxProviders \in Nat
ASSUME StatusAssumption ==
    TransientStatuses \subseteq Statuses \ (200 .. 299 \cup {404, 410})

VARIABLES
    issuer,      \* issuer[d]: the platform that issued d's token
    providers,   \* the platforms of the providers, in the order they were added
    built,       \* the service is shared, no provider is added any more
    installed,   \* the devices whose token is alive
    registered,  \* the devices in the caller's registry
    call,        \* call[d]: the call in progress for d
    delivered    \* delivered[d]: how often that call reached d

vars == <<issuer, providers, built, installed, registered, call, delivered>>

NoCall == [op |-> "none", at |-> "none", next |-> 0, errors |-> <<>>,
           outcome |-> NoAnswer("timeout"), result |-> Ok]

-----------------------------------------------------------------------------
(* Environment: what the push services answer, and what a provider fails   *)
(* with on its own before it sends.                                        *)

(* An answer or a failure that says nothing about the device.  APNS also   *)
(* answers 404 when it was asked at the wrong path, and 400 for a request  *)
(* it dislikes.                                                            *)
Transient(p) ==
    {Answer(s, "other") : s \in TransientStatuses}
       \cup {NoAnswer(f) : f \in TransportFailures}
       \cup IF p = "Ios" THEN {Answer(404, "other"), Answer(400, "unreadable")} ELSE {}

GoneAnswers(p) ==
    CASE p = "Android" -> {Answer(404, "other")}
      [] p = "Ios"     -> {Answer(410, "ExpiredToken"), Answer(410, "unreadable"),
                           Answer(400, "BadDeviceToken")}
      [] p = "Web"     -> {Answer(404, "other"), Answer(410, "other")}

(* The issuer of a token knows whether it is alive; a service asked about  *)
(* a token it never issued calls it unknown.                               *)
Outcomes(p, d) ==
    IF p = issuer[d] /\ d \in installed
    THEN {Answer(200, "other")} \cup Transient(p)
    ELSE GoneAnswers(p) \cup Transient(p)

LocalErrors(p, d) ==
    CASE p = "Android" -> ExchangeErrors \cup {Err("Config")} \cup FcmPreflightErrors
      [] p = "Ios"     -> ApnsPrepareErrors
      [] p = "Web"     -> IF issuer[d] = "Web"
                          THEN WebPushPreflightErrors \cup {Err("Serialization")}
                          ELSE {MalformedWebPushToken}

-----------------------------------------------------------------------------
Init ==
    /\ issuer \in [Devices -> Platforms]
    /\ providers = <<>>
    /\ built = FALSE
    /\ installed = Devices
    /\ registered = Devices
    /\ call = [d \in Devices |-> NoCall]
    /\ delivered = [d \in Devices |-> 0]

AddProvider(p) ==
    /\ ~built
    /\ Len(providers) < MaxProviders
    /\ providers' = Append(providers, p)
    /\ UNCHANGED <<issuer, built, installed, registered, call, delivered>>

Share ==
    /\ ~built
    /\ built' = TRUE
    /\ UNCHANGED <<issuer, providers, installed, registered, call, delivered>>

(* Definitions named Bug... are faults the properties must detect: each is *)
(* what the definition after it would be with a plausible mistake in it.   *)
BugFirstError(errors) ==
    IF errors = <<>> THEN Err("Config") ELSE errors[1]

BugNeverRemoves(errors) ==
    LET keep == {i \in DOMAIN errors : ~ShouldRemoveDevice(errors[i])} IN
    IF keep = {} THEN ProviderErr(NoStatus)
    ELSE errors[CHOOSE i \in keep : \A j \in keep : i <= j]

(* PushService::select_error *)
SelectError(errors) ==
    LET keep == {i \in DOMAIN errors : ~ShouldRemoveDevice(errors[i])} IN
    IF errors = <<>> THEN Err("Config")
    ELSE IF keep = {} THEN errors[1]
    ELSE errors[CHOOSE i \in keep : \A j \in keep : i <= j]

(* The first provider of a platform, 0 if there is none. *)
ProviderFor(platform) ==
    LET matching == {i \in DOMAIN providers : providers[i] = platform} IN
    IF matching = {} THEN 0
    ELSE CHOOSE i \in matching : \A j \in matching : i <= j

Done(d, r) == [call[d] EXCEPT !.at = "done", !.result = r]

(* PushService::send tries the providers from the first on. *)
Send(d) ==
    /\ call' = [call EXCEPT ![d] = [NoCall EXCEPT !.op = "send", !.at = "trying",
                                                  !.next = 1]]

BugRouteToAnyone(d, op, platform) ==
    LET i == ProviderFor(platform) IN
    call' = [call EXCEPT ![d] =
               [NoCall EXCEPT !.op = op, !.at = "trying",
                              !.next = IF i = 0 THEN 1 ELSE i]]

(* The others look for the provider of one platform, and for nothing else. *)
Route(d, op, platform) ==
    LET i == ProviderFor(platform) IN
    call' = [call EXCEPT ![d] =
               IF i = 0
               THEN [NoCall EXCEPT !.op = op, !.at = "done", !.result = Err("Config")]
               ELSE [NoCall EXCEPT !.op = op, !.at = "trying", !.next = i]]

Start(d) ==
    /\ built
    /\ d \in registered
    /\ call[d].at = "none"
    /\ \/ Send(d)
       \/ Route(d, "device", issuer[d])
       \/ issuer[d] = "Web" /\ Route(d, "subscription", "Web")
    /\ delivered' = [delivered EXCEPT ![d] = 0]
    /\ UNCHANGED <<issuer, providers, built, installed, registered>>

BugNoStopAtOk(d, r) ==
    IF call[d].op = "send"
    THEN [call[d] EXCEPT !.at = "trying", !.next = @ + 1,
                         !.errors = Append(@, r)]
    ELSE Done(d, r)

BugRetrySame(d, r) ==
    IF r # Ok /\ call[d].op = "send"
    THEN [call[d] EXCEPT !.at = "trying", !.errors = <<r>>]
    ELSE Done(d, r)

(* What the service does with one provider's result: send stops at Ok and  *)
(* goes on to the next provider otherwise; the others return it.           *)
Take(d, r) ==
    IF r # Ok /\ call[d].op = "send"
    THEN [call[d] EXCEPT !.at = "trying", !.next = @ + 1,
                         !.errors = Append(@, r), !.outcome = NoCall.outcome]
    ELSE [Done(d, r) EXCEPT !.outcome = NoCall.outcome]

Trying(d) == call[d].at = "trying" /\ call[d].next <= Len(providers)

(* The provider fails before it sends anything. *)
FailLocally(d) ==
    /\ Trying(d)
    /\ \E e \in LocalErrors(providers[call[d].next], d) :
          call' = [call EXCEPT ![d] = Take(d, e)]
    /\ UNCHANGED <<issuer, providers, built, installed, registered, delivered>>

(* The provider posts its request; a token Web Push cannot parse is never  *)
(* posted.                                                                 *)
Post(d) ==
    /\ Trying(d)
    /\ providers[call[d].next] = "Web" => issuer[d] = "Web"
    /\ call' = [call EXCEPT ![d].at = "flight"]
    /\ UNCHANGED <<issuer, providers, built, installed, registered, delivered>>

(* The push service deals with the request.  When its answer is lost the   *)
(* notification may have been delivered all the same.                      *)
Deal(d) ==
    LET p == providers[call[d].next] IN
    /\ call[d].at = "flight"
    /\ \E o \in Outcomes(p, d) :
          /\ call' = [call EXCEPT ![d].at = "answered", ![d].outcome = o]
          /\ \/ ~(Answered(o) /\ IsSuccess(o.status)) /\ UNCHANGED delivered
             \/ /\ p = issuer[d] /\ d \in installed
                /\ ~Answered(o) \/ IsSuccess(o.status)
                /\ delivered' = [delivered EXCEPT ![d] = @ + 1]
    /\ UNCHANGED <<issuer, providers, built, installed, registered>>

(* The answer is back and the provider makes a result of it. *)
Hear(d) ==
    /\ call[d].at = "answered"
    /\ call' = [call EXCEPT ![d] =
                  Take(d, Result(providers[call[d].next], call[d].outcome))]
    /\ UNCHANGED <<issuer, providers, built, installed, registered, delivered>>

(* send has tried every provider. *)
Exhaust(d) ==
    /\ call[d].at = "trying"
    /\ call[d].next > Len(providers)
    /\ call' = [call EXCEPT ![d] = Done(d, SelectError(call[d].errors))]
    /\ UNCHANGED <<issuer, providers, built, installed, registered, delivered>>

(* The caller acts on the result. *)
Act(d) ==
    /\ call[d].at = "done"
    /\ registered' = IF call[d].result # Ok /\ ShouldRemoveDevice(call[d].result)
                     THEN registered \ {d} ELSE registered
    /\ call' = [call EXCEPT ![d] = NoCall]
    /\ delivered' = [delivered EXCEPT ![d] = 0]
    /\ UNCHANGED <<issuer, providers, built, installed>>

(* The caller drops the call while it waits for a provider, which may be   *)
(* waiting for a token or for DNS before it posts.                         *)
DropCall(d) ==
    /\ Trying(d) \/ call[d].at \in {"flight", "answered"}
    /\ call' = [call EXCEPT ![d] = NoCall]
    /\ delivered' = [delivered EXCEPT ![d] = 0]
    /\ UNCHANGED <<issuer, providers, built, installed, registered>>

(* The app is removed from the device, and its token dies. *)
Uninstall(d) ==
    /\ d \in installed
    /\ installed' = installed \ {d}
    /\ UNCHANGED <<issuer, providers, built, registered, call, delivered>>

Next ==
    \/ \E p \in Platforms : AddProvider(p)
    \/ Share
    \/ \E d \in Devices :
          \/ Start(d)
          \/ FailLocally(d)
          \/ Post(d)
          \/ Deal(d)
          \/ Hear(d)
          \/ Exhaust(d)
          \/ Act(d)
          \/ DropCall(d)
          \/ Uninstall(d)

Spec == Init /\ [][Next]_vars

(* The caller's task runs, and every request ends: with an answer, or by   *)
(* its timeout.                                                            *)
Fairness ==
    \A d \in Devices :
       WF_vars(FailLocally(d) \/ Post(d) \/ Deal(d) \/ Hear(d) \/ Exhaust(d))

FairSpec == Spec /\ Fairness

-----------------------------------------------------------------------------
(* Properties *)

Call == [op      : {"none", "send", "device", "subscription"},
         at      : {"none", "trying", "flight", "answered", "done"},
         next    : Nat,
         errors  : Seq(PushError),
         outcome : Outcome,
         result  : SendResult]

Configured(d) == ProviderFor(issuer[d]) # 0

TypeOK ==
    /\ issuer \in [Devices -> Platforms]
    /\ providers \in Seq(Platforms) /\ Len(providers) <= MaxProviders
    /\ built \in BOOLEAN
    /\ installed \subseteq Devices
    /\ registered \subseteq Devices
    /\ call \in [Devices -> Call]
    /\ delivered \in [Devices -> Nat]

(* provider.rs:108: no verdict of send or of the routed sends makes the    *)
(* caller delete a device whose token is alive, whatever the providers     *)
(* that never issued the token say, in whatever order they were added,     *)
(* and however the provider that did issue it fails, as long as there is   *)
(* one.  A removal is decided when the result is selected, so it is stated *)
(* for the verdict: the device was gone before the caller hears of it.     *)
NoLiveDeviceRemoved ==
    \A d \in Devices :
       call[d].at = "done" /\ call[d].result # Ok /\ ShouldRemoveDevice(call[d].result)
          => d \notin installed \/ ~Configured(d)

(* A routed send is answered by the issuer of the token or by nobody: from *)
(* its start to its result the provider it is at is one of the token's     *)
(* platform, and without one the caller is told Config, its own mistake.   *)
(* So it removes no live device, configured or not.                        *)
RoutedToTheIssuer ==
    \A d \in Devices :
       LET c == call[d] IN
       c.op \in {"device", "subscription"} =>
          /\ IF c.next = 0 THEN c.at = "done" /\ c.result = Err("Config")
             ELSE c.next \in DOMAIN providers /\ providers[c.next] = issuer[d]
          /\ d \in installed => c.result = Ok \/ ~ShouldRemoveDevice(c.result)

(* The other side of it: when every provider said that the device is gone, *)
(* the verdict of send says so too, so a dead token does leave the caller's*)
(* registry; and send fails with an error some provider gave.              *)
UnanimousRemovalReported ==
    \A d \in Devices :
       LET errors == call[d].errors IN
       call[d].at = "done" /\ call[d].op = "send" /\ call[d].result # Ok /\ errors # <<>>
          => /\ (\A i \in DOMAIN errors : ShouldRemoveDevice(errors[i]))
                   => ShouldRemoveDevice(call[d].result)
             /\ \E i \in DOMAIN errors : errors[i] = call[d].result

(* One call reaches a device twice only when two providers of its platform *)
(* are configured and the answer to the first delivery was lost.           *)
DuplicateOnlyAfterLostAnswer ==
    \A d \in Devices :
       delivered[d] > 1 =>
          \E i, j \in DOMAIN providers :
             /\ i < j
             /\ providers[i] = issuer[d] /\ providers[j] = issuer[d]
             /\ i \in DOMAIN call[d].errors
             /\ call[d].errors[i] \in {FromReqwest(f) : f \in TransportFailures}

(* Every call that is trying a provider ends: with a result, or dropped. *)
EveryCallEnds ==
    \A d \in Devices : call[d].at = "trying" ~> call[d].at \in {"done", "none"}
=============================================================================
