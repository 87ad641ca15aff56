# A TLA+ model of armature-push

armature-push sends push notifications through FCM (Android), APNS (iOS) and
Web Push. It is a library: it keeps no persistent state and spawns no tasks. What
makes it hard is that one provider object is shared by every task of the
application, that its calls suspend at awaits and can be dropped there, that
tokens and DNS answers expire while they are used, and that a caller *deletes
devices* on the strength of the error it is handed.

This directory holds the TLA+ modules of that behaviour, the TLC configurations
that check them on small instances, and the theorems TLAPS proves for every
instance. Line numbers refer to the sources at this commit
(`src/<file>.rs` of the crate).

Running it:

    tlc -config MCFcmAuth.cfg MCFcmAuth.tla       # model-check one run
    tlapm FcmProofs.tla                           # check the proofs of a module

## 1. Inventory

| component | code | state it keeps | operations |
|---|---|---|---|
| error vocabulary | `error.rs` | none | `map_status`, `should_remove_device`, `is_retryable`, `retry_after`, `From<reqwest::Error>` |
| FCM access token | `fcm.rs` 252-415 | `access_token` (RwLock), `refresh_lock` (tokio Mutex) | `new`, `cached_token`, `get_access_token`, `refresh_token` |
| FCM sends | `fcm.rs` 423-566 | none of its own | `send`, `send_batch`, `send_prepared`, `build_message_body` |
| APNS token | `apns.rs` 291-361 | `access_token` (RwLock), `refresh_lock` (std Mutex, poison recovered) | `cached_token`, `get_token`, `create_token` |
| APNS sends | `apns.rs` 372-678 | a test counter | `prepare`, `send_prepared`, `send`, `send_batch`, `clone_prepare_error` |
| Web Push pinned clients | `web_push.rs` 205-237, 462-606 | `pinned_clients` (std Mutex) | `vetted_client`, `resolve_and_vet` |
| Web Push endpoints | `web_push.rs` 239-331, `host_guard.rs` | none | `validate_endpoint`, `is_internal_addr`, `is_pure_loopback`, `is_loopback_host` |
| Web Push sends | `web_push.rs` 609-908 | none | `send_prepared`, `send`, `send_batch`, `send_to_subscription` |
| configurations | `fcm.rs`, `apns.rs`, `web_push.rs` | the value under construction | builder methods, `require_https_or_loopback`, the constructors of the providers |
| provider trait | `provider.rs` 13-52 | none | default `send_batch` and `send_to_subscription` |
| service | `provider.rs` 54-254 | `providers`, fixed once built | `add_provider`, `send`, `select_error`, `send_to_device`, `send_to_subscription`, `send_batch`, `send_to_tokens` |
| notifications | `notification.rs` | the value under construction | constructors and setters |
| data | `subscription.rs` | immutable values | constructors |
| helpers | `time.rs`, `host_guard.rs`, `lib.rs` | none | `unix_now_secs`, `is_loopback_host`, `build_push_client`, re-exports |

How they interact. The application calls the service, which calls providers in
turn (`send`) or the one of a platform (the others). A provider calls its token
cache or its client cache, then posts over HTTP, and makes a `PushError` of what
comes back. A batch send starts up to 32 of these at a time *inside one task*
(`buffered`); concurrency between tasks is the application's. The only shared
mutable state is the token caches, their locks, and the pinned clients. The
push services, the OAuth2 endpoint, DNS and the clock are the environment.

Hard behaviours, and what makes each component correct:

- *FCM access token.* Every task sees the token expire at the same moment. One
  exchange at a time, none while a cached token would do, no older token over a
  newer one, a lock that is released on every way out, a token that is still
  accepted when it is used, and a caller that always gets an answer.
- *FCM sends.* One token per call, used by later waves of a batch long after it
  was checked; a call waits for other tasks' exchanges.
- *Batch fan-out.* Requests complete in any order; one result per token in the
  order of the tokens, a bounded number in flight, and a failure before the
  fan-out reported for every token without changing what it means.
- *Verdicts.* The same upstream condition must mean the same on every provider;
  a removal verdict must come from something that says the device is gone.
- *Service.* A bare token is offered to providers that never issued it, and they
  say that it is dead. No live device may be removed for that, in whatever order
  the providers were added; a dead one must still be recognised.
- *Pinned clients.* What was vetted must be what is connected to, although DNS
  changes its mind; the cache is bounded; an answer is not used for ever.
- *APNS token.* One waiter signs; a panic while signing must not brick the
  provider; the JWT must be neither too old nor from the future, although the wall
  clock that dates it and the monotonic clock that expires it may disagree.
- *Web Push sends and endpoints.* Where a request connects is decided in four
  places: the check of the URL, the vetting of DNS answers, the cache, and the
  choice between the pinned and the shared client. None may rely on another for a
  case the other does not cover.
- *Configurations.* URLs that credentials are sent to come from defaults, a service
  account and builder methods in any order; the check at construction must hold
  for what the provider then uses.
- *Notifications.* Setters touch related fields in any order; a field must show in what
  FCM, APNS and the Web Push service read wherever its documentation says so.
- *Retrying.* `is_retryable` is all a caller's loop has to go by: a transient failure
  must not end it, a permanent one should.

## 2. Modules

| module | what it is | code |
|---|---|---|
| `PushErrors` | variants, the two verdicts, `MapStatus`, `FromReqwest` | `error.rs` |
| `Responses` | what each provider makes of a request's outcome, and how it can fail before it sends | the `send_prepared`s |
| `Verdicts` | the three providers side by side on every outcome | the `send_prepared`s |
| `FcmAuth` | the token cache and its refresh lock, any number of tasks | `fcm.rs` 252-415 |
| `FcmExpiry` | `FcmAuth` with a history variable that counts exchanges | same |
| `FcmSend` | composition: sends and batches on top of `FcmAuth` | `fcm.rs` 476-566 |
| `ApnsJwt` | the JWT cache and its std mutex under three clocks, any number of threads | `apns.rs` 291-361, `time.rs` |
| `BatchSpec` | what a batch send promises (abstract) | `provider.rs` 21-38 |
| `SendBatch` | the six batch sends; implements `BatchSpec` | `provider.rs`, the providers |
| `PushService` | the service with a caller that follows the verdicts | `provider.rs` 54-204 |
| `PinnedClients` | the client cache of Web Push, with DNS | `web_push.rs` 205-237, 550-606 |
| `Endpoints` | URLs, address classes and the two checks of a URL | `web_push.rs` 239-331, `host_guard.rs` |
| `WebPushSend` | composition: a send over `Endpoints` and `PinnedClients`, to the connection | `web_push.rs` 609-795 |
| `ProviderConfig` | configurations, builders, constructors | `fcm.rs`, `apns.rs`, `web_push.rs`, `host_guard.rs` |
| `Notifications` | the builder of a notification and its three messages | `notification.rs`, the payloads and headers |
| `MC...` | definitions for TLC: symmetry sets, sets of outcomes, addresses and URLs; `MCBuilders` puts `Notifications` and `ProviderConfig` side by side | |
| `...Proofs` | theorems and proofs, by component: `FcmProofs`, `ApnsJwtProofs`, `WebPushProofs`, `SendBatchProofs`, `PushServiceProofs`, `ResponsesProofs`, `VerdictsProofs`, `BuildersProofs` | |

`FcmSend` EXTENDS `FcmAuth`, and every step of a job is written as a step of `FcmAuth`
or leaves its variables alone, so what is proved of the token cache holds of the sends
(the lemma `SendSpecIsSpec`); `WebPushSend` is built on `PinnedClients` in the same way. `SendBatch` instantiates `BatchSpec` under the
refinement mapping *verdict = what the futures returned, status = open until the
call returns or is dropped*. `SendBatch`, `PushService` and `Verdicts` share
the classification of `Responses`. `ProviderConfig` and `WebPushSend` share
`Endpoints`.

### Correspondence

**FcmAuth.** A task's `pc` is its place in `get_access_token`. Between two awaits
the code is one action: `GetAccessToken` (the first look), `Lock`/`Acquire` (the
FIFO queue of the tokio mutex: `ahead[t]` is who stands before `t`),
`RecheckHit`/`StartExchange`/`ClockBeforeEpoch` (the second look, the wall clock
and the POST), `Receive`/`ExchangeFails`/`ExpiryOverflows` (the answer). A future
can be dropped exactly at its awaits (`CancelQueued`, `CancelExchange`). `Mint`,
`Revoke` and `Tick` are the environment: the server starts a token's life before
its reply arrives, may revoke it, and time passes. Deadlines are kept as *time
left* (`cache.left = expires_at - now`; `tok.live` is the server's view), so no
clock grows without bound. The cache write and the drop of the guard in
`refresh_token` are one step: between them a task could read the new token early,
which it could read a moment later anyway, or wait for the lock.

**FcmSend.** A job is one call of `send` or `send_batch`. A step that waits for
nothing is taken before time passes (`CanRun`): the module compares durations, and
a task that is not scheduled for a minute is not what it is about. A request takes
at most `Timeout`.

**SendBatch.** `entry` says which batch send runs. `buffered` is external: it
starts futures in order up to `Window` beyond the first result not yielded
(`Pull`), they complete in any order (`Settle`), and `Yield` appends them in order.
`Drop` is possible only where the call awaits something.

**PushService.** A call tries a provider (`FailLocally` or `Post`), the push
service deals with it (`Deal`), the answer is read (`Hear`), and `Take` decides
between the next provider and a result. `Act` is the caller: it deletes the device
when `should_remove_device` says so. `Uninstall` may happen between any two steps.
`Outcomes` is the assumption about the push services: the issuer of a token knows
whether it is alive, another one calls it unknown, and anyone may fail in a way
that says nothing of the device. APNS is asked with the right topic in the right
environment: `DeviceTokenNotForTopic` for a live device, the answer to a wrong
topic, *is* a removal verdict in the code, and outside this assumption. `Deal` assumes
besides that a service which answers with anything but success has not delivered; only
an answer that is lost leaves it open. `DuplicateOnlyAfterLostAnswer` rests on that.

**PinnedClients.** The std mutex is never held across an await, so the first look,
and the retain/clear/insert, are a step each; between them lies the DNS lookup
under its timeout. A client is its set of addresses; `old` is the age of the DNS
answer, which only the properties see.

**ApnsJwt.** `get_token` is synchronous, so a call cannot be dropped half-way; a
thread's `pc` is its place in it. `Acquire` picks any waiter (a std mutex is not
FIFO) and takes the lock whether it is poisoned or not. `StartSigning` reads the wall
clock (`iat`), `CreateToken` caches the JWT for `Validity` on the monotonic clock;
between them `SigningPanics` may poison the lock. What APNS thinks of a JWT is kept as
the time until its `iat` has come (`early`) and until it is too old (`live`).
`StepClock` sets the wall clock, `Suspend`/`Sleep`/`Resume` stop the host while real
time passes, over which `Instant` may or may not stand still. `Limit` (APNS's one
hour) is external. `SignTime` and `UseTime` bound how long a thread signs or goes on
sending with one JWT: `Tick` waits for them. A batch holds its JWT to its last wave,
which is what `UseTime` stands for.

**Endpoints.** One address stands for each class the checks tell apart, the
IPv4-mapped and IPv4-compatible forms of IPv6 included, and one name for each class of
names. `IsInternalV4`/`IsInternalV6` stand for the classifier of armature-http-client.

**WebPushSend.** `Send` validates the endpoint and, for a name, is also the first step
of `vetted_client`; a refused endpoint ends the call at once and is not a step.
`Lookup` is the rest of `vetted_client`. `Post` opens the connection: over the
addresses of the pinned client if there is one, over the address in the URL or the
system's own lookup if not. The system resolver is assumed to send `localhost` to
loopback addresses. `Finish` is an answer, a failure or the request timeout.

**ProviderConfig.** A configuration is a function from its settings to values. `New`
and `FromServiceAccountJson` start one, `Set` is any builder method, `Build` is the
constructor, with the check of the URLs. A timeout is a choice between the default and
another value; `None` does not exist, as in the code.

**Notifications.** The options that are set, the keys of `data`, priority and urgency;
text matters only by whether it can become a header. The three messages are written
as the members that depend on the notification; those of Web Push are the headers, which
the push service reads, and the payload, the whole notification, which only the service
worker can. The setters are the only way in, as
for a notification built the documented way (the fields are public).

**Verdicts.** `Classify` puts one outcome to one provider. `Transient` says, without
looking at any error, which outcomes another attempt may change. A status is anything
from 100 to 999, which is what `http::StatusCode` holds; `Classless` are those from 600,
of which `is_retryable` says yes although they are not 5xx.

**MCBuilders.** A behaviour builds a notification or a configuration, not both: the two
share no state, so interleaving them would only multiply their states.

## 3. Runs

| run | instance | what it shows |
|---|---|---|
| `MCFcmAuth` | 3 tasks, skew 2, timeout 1, lifetimes {2, 4, 5}, overflow above 4, fair | lock discipline, no redundant exchange, no last writer wins, how far the provider's idea of a token's validity can be off; every call that reaches the lock ends; a revoked token leaves the cache |
| `FcmExpiry` | 2 tasks | **violation**: two exchanges of one burst |
| `MCSendBatch` | up to 4 tokens, window 2, fair | window, order, prepared errors, refinement of `BatchSpec`, termination |
| `BatchTimeout` | 2 tokens | **violation**: a timeout of the exchange is not retryable in a batch |
| `MCFcmSend` | 2 tasks, skew 3, timeout 1, batches of 2 in waves of 1 | no request is refused for an expired token within the waves the skew covers; a send ends in time |
| `MCPushService` | 1 device of any platform, up to 3 providers, fair | no live device removed, a routed send at its issuer only, a dead one recognised, duplicates only after a lost answer, every call ends |
| `Verdicts` | all statuses 100-999, all bodies, all failures | uniform verdicts; no verdict guessed from an unreadable body; what is transient is retryable, and nothing else but a status from 600 |
| `Apns404` | same | **violation**: a 404 can reach a removal verdict |
| `MCPinnedClients` | 2 tasks, 2 hosts, 1 client, TTL 2, lookup timeout 1, fair | vetted is pinned, cap, age of answers; a lookup that hangs ends the call with an error |
| `MCWebPushSend` | 2 tasks, 2 names, 3 addresses, every URL, 1 client, both timeouts 1 | a request connects only where it may; a send ends within both timeouts |
| `MCApnsJwt` | 2 threads, validity 2, limit 4, signing 1, use up to 2, wall clock off by -2, 0, 2 or before the epoch, fair | lock discipline, one signature per expiry, an honest JWT is accepted, cached and for the use the limit leaves, a panic stays with its caller; accepted JWTs once the clock is right |
| `MCBuilders` | up to 5 settings, 3 data keys; 3 platforms, a URL of every kind | a silent notification has no alert, and headers agree; a field shows in the FCM message, the APNS message and the Web Push headers where its documentation says, and nowhere else among these three; no provider sends a credential in the clear |

Type invariants are checked where modules are composed (`SendTypeOK` of `FcmSend` and of
`WebPushSend`, which contain those of `FcmAuth` and `PinnedClients`); those of `FcmAuth`,
`PinnedClients`, `ApnsJwt`, `SendBatch` and `PushService` are theorems.

Why these bounds. *Tasks*: three give a holder, a waiter that the holder's
success serves, and one queued behind it while the waiter is cancelled. Threads that
sign cannot be cancelled, so two are enough there: a signer and a waiter. The proofs
cover any number of both. *Lifetimes*: one within the skew (stale as soon as cached), one
beyond it, one that overflows. *Window and tokens*: the batch is longer than
the window by two, so the window slides and blocks; the proofs cover any sizes.
*Waves*: the skew of `MCFcmSend` is three timeouts, so `NoExpiredTokenSent` has
both waves to say something about; with a skew below twice the timeout it does not
claim anything. *Devices*: calls for two devices touch no common variable, so one
device is every device. *Providers*: three are enough for two of one platform and
one that never issued the token, in every order. *Hosts*: one more than the cache
holds. *Time*: the constants keep the relations of the code, skew (60 s) at least
twice the timeout (30 s), TTL (30 s) longer than the connect timeout (10 s), and
are otherwise as small as they can be.

*Clocks*: the limit of `MCApnsJwt` is one unit more than validity and signature, so
`HonestJwtInTime` covers a first unit of use and has a JWT that is used for longer beside
it. It has nothing to spare: with a bound of one unit more, TLC finds a JWT in use that is
refused, and, with a limit of 2, a cached one. The code has 50 minutes against the hour of
APNS. *Settings*: five reach every pair of
fields that interact (silent with its two companions, an image with its key and with
mutable-content) on top of another. *Outcomes*: one of every class the classification
tells apart; `Verdicts` takes them all.

Deadlock is checked where the system cannot stop (`FcmAuth`, `FcmSend`, `ApnsJwt`,
`PinnedClients`, `WebPushSend`, `MCBuilders`: an idle task can call again; a configuration or a
notification can be changed again). A batch, a classification and a
device that is gone from the registry do end, and their runs say so.

### Fairness

- `FcmAuth`: weak fairness of the steps a runnable task takes, of the request
  timer, and of time. `reqwest` always has a total timeout in this crate
  (`build_push_client`). The mutex is FIFO, so weak fairness of `Acquire` suffices.
  Nothing makes the server answer, and nothing makes a caller call.
- `SendBatch`: the caller polls its future; every request ends, by the timeout if
  by nothing else. Dropping the call is allowed, never required.
- `PushService`: the same, for one call at a time.
- `PinnedClients`: a runnable task runs, a lookup's timeout fires. Time passes
  under *strong* fairness: a task that answers from the cache without ever
  suspending would otherwise disable the clock for ever, which takes infinitely
  many steps in no time.

- `ApnsJwt`: a suspended host resumes, and it is awake often enough: *strong* fairness
  of time and of each thread's steps, since a suspension disables them all. The mutex
  is fair to the group of its waiters only (some waiter gets it), so nothing is
  claimed about when a particular thread does. Nothing makes the wall clock right:
  `RecoversWithTheClock` has that as its premise.
### What the violations are

Each run of a violation checks one sentence of the code's own documentation.

1. `OneExchangePerExpiry`: `fcm.rs` 262-263 promises one exchange per expiry. When
   an exchange fails, or its caller drops it, each waiter in turn makes its own. With
   an unreachable token endpoint the last of *n* waiters waits *n* timeouts; this is
   also the bound `SendEndsInTime` states.
2. `BatchTimeoutIsRetryable`: `fcm.rs` 54-59 calls a timeout of the exchange
   retryable. `send_batch` (549-555) turns it into `Auth`, which is not.
3. `Apns404KeepsDevice`: `apns.rs` 587-588 says a 404 must never reach
   `should_remove_device()`. The test for `ExpiredToken` in the body (579) precedes
   the test for 404.

Other sentences of the documentation do not agree with the code either. They were
met while modelling and are plain from the code, so no run is spent on them:

- `web_push.rs` 349 calls the timeout the overall one of a push, "connect, send and
  response". The lookup of `vetted_client` (648) comes before it, under the connect
  timeout; a push takes up to the sum, which `SendEndsInTime` of `WebPushSend` states.
- `web_push.rs` 460-461 and 488-489 say that a batch to one host does not resolve for
  each notification. With a cold cache it does, for each one started before the first
  answer: they all miss at 558.
- `notification.rs` 78-80 and `apns.rs` 373 say that a duplicate member is never emitted.
  `image-url` (`apns.rs` 687) stands at the top level next to the flattened `data` and
  is not reserved as `aps` is; `ApnsTopLevel` counts it twice.
- `notification.rs` 112 calls a silent notification data only. The android part of its FCM
  message always has a notification block (`fcm.rs` 454, `FcmMessage`), and its APNS
  payload keeps a badge and a sound (`apns.rs` 385-386) under push type background, with
  priority 10 if it was asked for (488-491). `SilentHasNoAlert` claims none of that.
- `notification.rs` 55, 61, 67, 73, 103 and 109 call badge, sound, click action, tag,
  topic and collapse key ignored by Web Push. The payload is the whole notification
  (`web_push.rs` 624, `WebPushMessage`), so the service worker is sent all of them;
  `FieldsReachTheServices` is about the headers.
- `error.rs` 166-167 says that a `Provider` error is retryable on "any 5xx, plus 408". The
  test is `*s >= 500` (179), so a status from 600 to 999 is retryable as well, and a loop
  over it has no end; `RetryableIsTransient` names the exception (`Classless`).
- `tests/fcm.rs` 97 wants a 5xx from FCM to be retryable. One of the token endpoint is
  `Auth` (`fcm.rs` 396, `ExchangeErrors`), which is not.

## 4. Proofs

Every theorem holds for all values of the constants that satisfy the assumptions
named in the module it is about; there are no others.

**FcmProofs, the token cache**: for every set of tasks, skew, timeout, set of lifetimes and overflow
bound: `TypeCorrect`, `MutualExclusion` (`LockHeldByRefresher`), `NoStampede`
(`NoRedundantExchange`), `NoLastWriterWins` (`CacheMovesForward`), `ExpiryError`
(`ExpiryErrorBounded`), `Margin` (the action property `HandedOutWithMargin`) and
`RevocationIsNotRenewed` (`FreshOnlyAges`).
The inductive invariant is the conjunction of those properties with `TimersInv`,
which says what the properties do not: a timer only runs during an exchange, and
a task holds a token only while it is minted or ready. The argument runs in one
direction. The lock is held by at most one task, so at most one exchange runs; it
started when the cache was stale; only the holder writes the cache, so it stays
stale until the answer arrives; therefore nothing was cached meanwhile and the
answer is newer than what it replaces. The error of the expiry is what the reply
took (`age`), at most a timeout, and both clocks run at the same speed afterwards;
a token that passes the test `left > Skew` has more than `Skew - Timeout` of its
life left on the server (`HandOverMargin`). For the same reason no reply prolongs a
cached token that would still do: what `RevokedTokenRetires` says with fairness rests
on `FreshOnlyAges`.

*The queue of its lock*: `NobodyOvertakes` (`FirstComeFirstServed`, an action property)
and `NoDeadlock` (`SomeoneGoesOn`). `QueueInv` says what the queue looks like whoever
joins, leaves or is dropped: those who wait stand in one line. A line of finitely many
tasks has a head (`QueueHead`), and the lock is held by a task at work or is free for
that head; so the tasks never all wait for each other. This is the part of
`EveryCallReturns` that does not need fairness.

**FcmProofs, the sends**: for every window and size of batch besides: `SendTypeCorrect`,
`ExpiredTokensCovered` (`NoExpiredTokenSent`) and `SendEnds` (`SendEndsInTime`).
`NoExpiredTokenSent` says nothing of the requests that have not been refused; what
carries it is `Covered`, a bound on how far a job's token may have aged, read off each
of its requests: request *i* starts at most `Wave(i)` timeouts after the token was
handed out (`Due`), it is in flight for its `age`, and once over it still accounts for
a whole timeout until it is yielded. Time passes only while the head of the window is
in flight, and so within the span of every request behind it; yielding the head opens
the window to the request one wave later, exactly a timeout on. The first wave starts
with the margin of the token cache, since no time passes between the hand-over and the
first request (`ReadyInv`). Each step of one job is a lemma about the job's record;
the invariant of the whole is that every job satisfies it.
`SendEnds` needs what the queue of the lock looks like (`QueueInv`) and, for each
waiting task, the time it may still have to wait (`Rest`): a
timeout for each task ahead of it and what is left of the exchange that runs. No step
of another task makes `Rest` larger (`OtherRest`): a task that joins the queue joins it
behind, and one that leaves it takes its timeout along or becomes the exchange that
runs. The line has a head, so when no one can run
someone is in an exchange (`LockIsHeld`): time passes only at the expense of `Rest`.
`TimeInv` bounds the time a send has spent accordingly, by where it is.

**ApnsJwtProofs**: for every set of threads, validity, limit, signing and use time and
every set of wall clock errors: `TypeCorrect`, `MutualExclusion` (`LockHeldBySigner`),
`OneSignerPerExpiry` (`NoRedundantSigning`), `HonestJwt` (`HonestJwtInTime`) and
`NoContagion` (`PanicIsNotContagious`). `SigningInv` adds how old a JWT is that is being
signed: no older than its signature has taken. `AgeInv` follows it from there: how much of
the limit is left of an honest JWT in the cache, by what is left of its validity, and of
one in use, by how long it has been used. `HonestJwtInTime` is what that comes to under
the limit; alone it is not inductive, as it does not say when a JWT stops being accepted.

**WebPushProofs, the pinned clients**: for every set of tasks, hosts and addresses, cap, time to live
and connect timeout: `TypeCorrect`, `OnlyVettedIsPinned` (`PinnedIsVetted`), `CapKept`
(`CacheBounded`) and `AnswersStayFresh` (`AnswerAgeBounded`). `AgeInv` ties the age of
an answer to the lookup it came in and then to the entry it lives in: age and time
left together never exceed a time to live and a lookup. `CapKept` needs that the cache
is finite, which is part of the invariant (`BoundInv`).

**WebPushProofs, the sends**: for every set of tasks, names and addresses besides:
`SendTypeCorrect`, `OnlyPermittedConnections` (`ConnectsOnlyWherePermitted`) and
`SendsEndInTime` (`SendEndsInTime`).
`StageInv` ties the client a send uses to what the validation of its endpoint said,
and `ValidatedEndpoint` is the decision table of `validate_endpoint`; `PinnedIsVetted`
comes from the module before. `TimeInv` accounts for the time of a send, lookup first,
request second.

**SendBatchProofs**: for any length of batch, any window and any set of
outcomes: `TypeCorrect`, `Bounded` (`WindowBound`), `InOrder` (`ResultsInTokenOrder`),
`PrepareErrorKept` (`PrepareErrorForEveryToken`), `Refinement` (`Spec` implements
`BatchSpec`), `BatchesShrink` (`WorkGetsLess`) and `NoDeadlock` (`WaitsForARequest`). The invariant adds to type and order where the fan-out is in each phase
(`PhaseInv`): nothing beyond `pulled` has completed, `pulled` is at most a window beyond
the results, and a batch whose preparation failed has its error in every place.
The last two are why a batch ends, as far as that goes without fairness: `Work` counts
the phases, the futures to start, to complete and to yield, and every step makes it
smaller, so a batch of *n* tokens takes at most 3*n* + 2 steps in whatever order they
come; and what a batch waits for is always a request it has started.

**ResponsesProofs** holds the lemmas `SendBatchProofs`, `PushServiceProofs` and
`VerdictsProofs` rest on: what each provider may return for an outcome, and that no transport failure and no
failure before the request is a removal verdict.

**PushServiceProofs**: for any number of providers of any platforms in any order and any
set of devices: `TypeCorrect`, `LiveDevicesKept` (`NoLiveDeviceRemoved`),
`RoutedCalls` (`RoutedToTheIssuer`), `DeadTokensReported`
(`UnanimousRemovalReported`), `DuplicatesExplained` (`DuplicateOnlyAfterLostAnswer`) and
`CallsGetOn` (`AttemptsRunOut`).
`NoLiveDeviceRemoved` rests on three facts the property does not show: the issuer of a
live token never says that it is gone (`IssuerKeeps`), `send` has an error from *every*
provider before it selects one (`Selected`), and what `select_error` picks is a removal
verdict only when all are (`SelectErrorPicks`). `DuplicatesExplained` follows what a
delivery leaves behind, an answer on its way, a success, or an error that says the
answer was lost (`Remembered`).
`CallsGetOn` is the part of `EveryCallEnds` that needs no fairness: `StepsLeft` counts
down with every step of a call that waits, since no provider is added once the service
is shared and none is tried twice.

**VerdictsProofs**: `Uniform` (`UniformVerdict`), `BodyDecides` (`OnlyAReadBodyDecides`)
and `RetryLoops` (`RetryableIsTransient`). The run covers every status too; what the
proof adds is why. Outside the three refined statuses each provider computes `Common`
(`ResultIsCommon`; the transport arms Web Push has of its own agree with
`From<reqwest::Error>`), and within them one of a few errors, none of them retryable
(`ResultIsRefined`); `RetryableOutcomes` puts the two together. `MapStatusRetryable` is the claim about `map_status` and
`is_retryable` together that a caller's retry loop depends on. `VerdictInv` says that
the answer of a provider does not depend on whom else was asked.

**BuildersProofs**, for any URLs, timeouts and custom data and any number of settings:
`SideBySide` (`MCSpec` implements both specifications it is made of),
`CredentialsProtected` (`NoCredentialInTheClear`), `SilentAgrees` (`SilentHasNoAlert`)
and `FieldsAreRead` (the action property `FieldsReachTheServices`).
For the configurations `ConfigInv` says that a configuration has all settings of its
platform and no other, so the constructor checks every URL there is, whichever setter or
service account it came from; and that every loopback name resolves to this machine is a
lemma (`LoopbackHostIsHere`). For the notifications `NotificationInv` says that a silent
notification also has content-available, as `silent()` sets both and no setter takes an
option back. `FieldsReachTheServices` needs one more fact: no single setter changes an option and
the custom data at once. Without it the property is false, as an image added
while the key `image-url` is removed leaves the top level of the APNS payload as it was. With
it, equal messages have equal options, one honored field at a time (`FcmShows`,
`ApnsShows`, `WebPushHeadersShow`), and each of the three is a function of the fields
honored in it (`FcmIgnores`, `ApnsIgnores`, `WebPushHeadersIgnore`).

Only model-checked: what needs fairness (`EveryCallReturns` of `FcmAuth` and of
`PinnedClients`, `RevokedTokenRetires`, `BatchReturns`, `EveryCallEnds`,
`RecoversWithTheClock`), as fairness and ENABLED are out of the prover's reach. The
theorems above about queues, steps left and time bound what they leave open: that a
task which may run does run. Every other property of a passing run is a theorem.

## 5. Not modelled

- VAPID signing, ECE encryption, TLS, HTTP/2, connection pools: libraries. Their
  failures are local failures of a send.
- Redirects: whether a push service or token endpoint could send a request elsewhere is
  the HTTP client's policy. `NoCredentialInTheClear` is about the configured URLs.
- Contents: titles, icons, action buttons, sizes (`payload_size`), the value of a `ttl`
  and the time `apns-expiration` is computed from. Payloads and headers are modelled by
  the members that depend on the notification.
- Notifications whose public fields are set directly, not by the builder.
- Poisoning of the RwLocks and of the client cache's mutex: recovered at every
  use, and nothing panics while holding them. (The mutex of the APNS signer, under
  which code of a library runs, is modelled with its poison.)
- `retry_after` and the `Retry-After` header: the delay a caller is told is left out.
- `From<WebPushError>`, which no send path calls; `From<serde_json::Error>`; the
  messages of the errors; `Subscription::is_expired`, which nothing in the crate calls.
- The trait's default `send_to_subscription`, which no provider the service reaches
  that way uses, and providers an application writes itself: `PushService` is
  composed of the crate's three.
- `prepare_count` and `new_with_resolver`, which exist for tests.
- `lib.rs`: re-exports and documentation.

## 6. Plan

The modules, runs and theorems above are what there is. What would add to them:

1. A batch of Web Push notifications over `WebPushSend`, with a window, so that the
   lookups, the cap of the cache and the order of the results meet in one model.
