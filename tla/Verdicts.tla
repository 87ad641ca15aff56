------------------------------ MODULE Verdicts ------------------------------
(***************************************************************************)
(* The three providers side by side: one request outcome, whichever it is, *)
(* is put to FcmResult, ApnsResult and WebPushResult, in any order.        *)
(***************************************************************************)
EXTENDS Responses

VARIABLES
    outcome,  \* the outcome of the request
    result    \* what the providers asked so far make of it

vars == <<outcome, result>>

Init ==
    /\ outcome \in Outcome
    /\ result = [p \in {} |-> Ok]

Asked == DOMAIN result

Classify(p) ==
    /\ p \notin Asked
    /\ result' = [q \in Asked \cup {p} |->
                     IF q = p THEN Result(p, outcome) ELSE result[q]]
    /\ UNCHANGED outcome

Next == \E p \in Platforms : Classify(p)

Spec == Init /\ [][Next]_vars

-----------------------------------------------------------------------------
(* Properties *)

RefinedStatuses == {400, 404, 410}

(* error.rs:90: a status maps onto an error "uniformly across every        *)
(* provider", and web_push.rs:754 asks the same of a transport failure.    *)
(* The statuses a provider refines itself are the only exceptions.         *)
UniformVerdict ==
    outcome.status \notin RefinedStatuses
       => \A p, q \in Asked : result[p] = result[q]

(* apns.rs:549: an APNS body turns into a removal verdict, so a body that  *)
(* could not be read must not be guessed at; and a 410 removes the device  *)
(* whatever its body, readable or not.                                     *)
OnlyAReadBodyDecides ==
    /\ "Ios" \in Asked /\ outcome.body = "unreadable" /\ outcome.status # 410
          => result["Ios"] = Ok \/ ~ShouldRemoveDevice(result["Ios"])
    /\ outcome.status = 410
          => \A p \in Asked : ShouldRemoveDevice(result[p])

(* What may be over when the caller tries again: an answer that says so,   *)
(* or a connection that did not come about or broke.                       *)
Transient(o) ==
    IF Answered(o) THEN o.status \in {408, 429} \cup 500 .. 599
    ELSE o.failure \in {"timeout", "connect", "request", "body"}

(* A status no class is defined for, as 600.  is_retryable compares with   *)
(* 500 only, so it takes these for transient, against its documentation    *)
(* (error.rs:166, "any 5xx, plus 408").                                    *)
Classless(o) == Answered(o) /\ o.status >= 600

(* error.rs:164: a caller's retry loop lives on is_retryable.  Whichever   *)
(* provider was asked and however the outcome was turned into an error on  *)
(* the way, a transient one is retryable, so none is lost in an outage;    *)
(* and nothing else is but an answer of a class that does not exist, so no *)
(* other permanent failure keeps a loop going for ever.                    *)
RetryableIsTransient ==
    \A p \in Asked :
       result[p] # Ok =>
          IF Transient(outcome) THEN IsRetryable(result[p])
          ELSE IsRetryable(result[p]) <=> Classless(outcome)

(* apns.rs:587: a 404 of APNS "says nothing about the device, so it must   *)
(* never reach should_remove_device()".                                    *)
Apns404KeepsDevice ==
    "Ios" \in Asked /\ outcome.status = 404
       => ~ShouldRemoveDevice(result["Ios"])
=============================================================================
