----------------------------- MODULE SendBatch -----------------------------
(***************************************************************************)
(* The batch sends of the crate: one call, from its start to the vector it *)
(* returns.  They differ in what they do once for the whole batch before   *)
(* the fan-out, and in what one token's future may return:                 *)
(*   trait    PushProvider::send_batch, the default                        *)
(*   service  PushService::send_batch                                      *)
(*   tokens   PushService::send_to_tokens without a provider for it        *)
(*   fcm, apns, webpush  the providers' own send_batch                     *)
(* The fan-out is the same in all of them:                                 *)
(*   stream::iter(0..n).map(send one).buffered(Window).collect()           *)
(* buffered starts futures in the order of the tokens, keeps at most       *)
(* Window of them between the first one not yielded and the last one       *)
(* started, and yields their results in that order; collect appends them.  *)
(***************************************************************************)
EXTENDS Responses, Sequences

CONSTANTS
    MaxTokens,  \* bound on the length of a batch
    Window,     \* BATCH_CONCURRENCY
    Outcomes,   \* the outcomes of HTTP requests that are considered
    Pending     \* a future that has not completed

ASSUME BatchAssumption ==
    /\ MaxTokens \in Nat
    /\ Window \in Nat \ {0}
    /\ Outcomes \subseteq Outcome
    /\ Pending \notin SendResult

VARIABLES
    entry,    \* which batch send was called
    n,        \* the number of tokens
    phase,    \* preparing, sending, returned or dropped
    pulled,   \* how many futures have been started
    outcome,  \* what each token's future returned
    results,  \* what collect has gathered
    cause     \* the error the preparation ended in, Ok while there is none

vars == <<entry, n, phase, pulled, outcome, results, cause>>

Entries == {"trait", "service", "tokens", "fcm", "apns", "webpush"}

-----------------------------------------------------------------------------
(* What is done once for the batch, and how it can fail.                   *)

PrepareErrors(e) ==
    CASE e \in {"trait", "service"} -> {}
      [] e = "tokens"               -> {Err("Config")}
      [] e = "fcm"                  -> ExchangeErrors \cup {Err("Config")}
      [] e = "apns"                 -> ApnsPrepareErrors
      [] e = "webpush"              -> {Err("Serialization")}

(* send_to_tokens finds no provider for the platform. *)
TokensBatchError(error) == Err("Config")

(* FcmProvider::send_batch makes every failure of get_access_token Auth. *)
FcmBatchError(error) == Err("Auth")

(* Definitions named Bug... are faults the properties must detect: each is *)
(* what the definition after it would be with a plausible mistake in it.   *)
BugOpaqueError(error) == ProviderErr(NoStatus)

(* ApnsProvider::send_batch clones the error of prepare. *)
ApnsBatchError(error) == ClonePrepareError(error)

(* WebPushProvider::send_batch cannot serialize the notification. *)
WebPushBatchError(error) == Err("Serialization")

BatchError(e, error) ==
    CASE e = "tokens"  -> TokensBatchError(error)
      [] e = "fcm"     -> FcmBatchError(error)
      [] e = "apns"    -> ApnsBatchError(error)
      [] e = "webpush" -> WebPushBatchError(error)

(* What one token's future may return.  In the first two a future is a     *)
(* whole send of some provider, with the preparation of its own.           *)
FcmFuture == {FcmResult(o) : o \in Outcomes} \cup FcmPreflightErrors

ApnsFuture == {ApnsResult(o) : o \in Outcomes}

WebPushFuture ==
    {WebPushResult(o) : o \in Outcomes}
       \cup WebPushPreflightErrors \cup {MalformedWebPushToken}

TraitFuture ==
    FcmFuture \cup ExchangeErrors \cup ApnsFuture \cup ApnsPrepareErrors
       \cup WebPushFuture \cup {Err("Serialization")}

(* send_to_device_ref also fails without a provider for the platform. *)
ServiceFuture == TraitFuture \cup {Err("Config")}

Future(e) ==
    CASE e = "trait"   -> TraitFuture
      [] e = "service" -> ServiceFuture
      [] e = "fcm"     -> FcmFuture
      [] e = "apns"    -> ApnsFuture
      [] e = "webpush" -> WebPushFuture
      [] OTHER         -> {}

-----------------------------------------------------------------------------
Init ==
    /\ entry \in Entries
    /\ n \in 0 .. MaxTokens
    /\ phase = "preparing"
    /\ pulled = 0
    /\ outcome = [i \in 1 .. n |-> Pending]
    /\ results = <<>>
    /\ cause = Ok

Prepare ==
    /\ phase = "preparing"
    /\ entry # "tokens"
    /\ phase' = "sending"
    /\ UNCHANGED <<entry, n, pulled, outcome, results, cause>>

BugOneErrorForAll(error) ==
    LET r == BatchError(entry, error) IN
    /\ phase = "preparing"
    /\ phase' = "returned"
    /\ outcome' = [i \in 1 .. n |-> r]
    /\ results' = <<r>>
    /\ cause' = error
    /\ UNCHANGED <<entry, n, pulled>>

(* The preparation fails: its error is the result of every token. *)
PrepareFails(error) ==
    LET r == BatchError(entry, error) IN
    /\ phase = "preparing"
    /\ phase' = "returned"
    /\ outcome' = [i \in 1 .. n |-> r]
    /\ results' = [i \in 1 .. n |-> r]
    /\ cause' = error
    /\ UNCHANGED <<entry, n, pulled>>

BugNoWindow == n

(* How far buffered may have started. *)
Horizon ==
    IF Len(results) + Window < n THEN Len(results) + Window ELSE n

BugNoRefill ==
    /\ phase = "sending"
    /\ pulled = 0
    /\ pulled' = Horizon
    /\ UNCHANGED <<entry, n, phase, outcome, results, cause>>

(* buffered is polled: it starts futures up to its window ... *)
Pull ==
    /\ phase = "sending"
    /\ pulled < Horizon
    /\ pulled' = Horizon
    /\ UNCHANGED <<entry, n, phase, outcome, results, cause>>

(* ... one of them completes ... *)
Settle(i, r) ==
    /\ phase = "sending"
    /\ i <= pulled
    /\ outcome[i] = Pending
    /\ outcome' = [outcome EXCEPT ![i] = r]
    /\ UNCHANGED <<entry, n, phase, pulled, results, cause>>

BugUnordered ==
    /\ phase = "sending"
    /\ \E i \in Len(results) + 1 .. pulled :
          outcome[i] # Pending /\ results' = Append(results, outcome[i])
    /\ UNCHANGED <<entry, n, phase, pulled, outcome, cause>>

(* ... and the first one not yielded is yielded once it has completed. *)
Yield ==
    /\ phase = "sending"
    /\ pulled = Horizon
    /\ Len(results) < n
    /\ outcome[Len(results) + 1] # Pending
    /\ results' = Append(results, outcome[Len(results) + 1])
    /\ UNCHANGED <<entry, n, phase, pulled, outcome, cause>>

(* The stream ends and collect returns. *)
Return ==
    /\ phase = "sending"
    /\ Len(results) = n
    /\ phase' = "returned"
    /\ UNCHANGED <<entry, n, pulled, outcome, results, cause>>

(* The caller drops the call at an await: get_access_token of FCM, or the  *)
(* stream while a future is pending.  The requests in flight go with it.   *)
Drop ==
    /\ \/ phase = "preparing" /\ entry = "fcm"
       \/ phase = "sending" /\ \E i \in 1 .. pulled : outcome[i] = Pending
    /\ phase' = "dropped"
    /\ UNCHANGED <<entry, n, pulled, outcome, results, cause>>

Next ==
    \/ Prepare
    \/ \E error \in PrepareErrors(entry) : PrepareFails(error)
    \/ Pull
    \/ \E i \in 1 .. n, r \in Future(entry) : Settle(i, r)
    \/ Yield
    \/ Return
    \/ Drop

Spec == Init /\ [][Next]_vars

(* The task of the caller polls its future; every request ends, because    *)
(* every client has a request timeout.                                     *)
Fairness ==
    /\ WF_vars(Prepare \/ \E error \in PrepareErrors(entry) : PrepareFails(error))
    /\ WF_vars(Pull)
    /\ WF_vars(Yield)
    /\ WF_vars(Return)
    /\ \A i \in 1 .. MaxTokens :
          WF_vars(i <= n /\ \E r \in Future(entry) : Settle(i, r))

FairSpec == Spec /\ Fairness

-----------------------------------------------------------------------------
(* Properties *)

Phases == {"preparing", "sending", "returned", "dropped"}

TypeOK ==
    /\ entry \in Entries
    /\ n \in 0 .. MaxTokens
    /\ phase \in Phases
    /\ pulled \in 0 .. n
    /\ outcome \in [1 .. n -> SendResult \cup {Pending}]
    /\ results \in Seq(SendResult)
    /\ cause \in SendResult

(* The bound of BATCH_CONCURRENCY is on the distance from the first result *)
(* not yet yielded, so at most Window requests are in flight and a slow    *)
(* head holds back the tokens after the window, never lets them overtake.  *)
WindowBound ==
    \A i \in 1 .. pulled :
       outcome[i] = Pending => i \in Len(results) + 1 .. Len(results) + Window

(* The k-th result is the k-th token's own, while the batch is collected   *)
(* and after, in whatever order the requests completed.                    *)
ResultsInTokenOrder ==
    /\ Len(results) <= n
    /\ \A k \in 1 .. Len(results) : results[k] = outcome[k] /\ outcome[k] # Pending

(* A failure before the fan-out is nobody's in particular: the caller gets *)
(* it for every token.  FCM is the exception, see BatchTimeoutIsRetryable. *)
PrepareErrorForEveryToken ==
    phase = "returned" /\ cause # Ok /\ entry # "fcm"
       => Len(results) = n /\ \A k \in 1 .. n : results[k] = cause

(* fcm.rs:58, on the timeout of "the OAuth2 token exchange and             *)
(* messages:send": "a timeout surfaces as PushError::Timeout, which is     *)
(* retryable".                                                             *)
BatchTimeoutIsRetryable ==
    phase = "returned" /\ cause = Err("Timeout")
       => \A k \in 1 .. n : IsRetryable(results[k])

Batch == INSTANCE BatchSpec WITH
            Verdicts <- ServiceFuture,
            verdict  <- outcome,
            status   <- CASE phase = "returned" -> "replied"
                          [] phase = "dropped"  -> "dropped"
                          [] OTHER              -> "open",
            reply    <- IF phase = "returned" THEN results ELSE <<>>

(* Every batch send keeps the promise of BatchSpec. *)
ImplementsBatch == Batch!Spec

(* A batch whose caller waits for it returns, although a token is only     *)
(* sent to once the tokens far enough in front of it are done.             *)
BatchReturns == <>(phase \in {"returned", "dropped"})
=============================================================================
