------------------------------ MODULE FcmAuth ------------------------------
(***************************************************************************)
(* The OAuth2 access token of the FCM provider (fcm.rs): the cached token, *)
(* the refresh lock, and any number of tasks that call get_access_token    *)
(* concurrently.                                                           *)
(*                                                                         *)
(* Time is discrete.  A deadline is kept as the time left until it, so the *)
(* state space is finite without a bound on the clock:                     *)
(*   - the cached token's expires_at is cache.left = expires_at - now;     *)
(*   - the server's own idea of a token's remaining validity is tok.live,  *)
(*     which starts to run when the server mints the token, before the     *)
(*     reply reaches the provider.                                         *)
(*                                                                         *)
(* A task's pc says where in get_access_token it is:                       *)
(*   idle      no call in progress                                         *)
(*   lock      missed the cache, about to call refresh_lock.lock()         *)
(*   queued    waiting in the lock's FIFO queue                            *)
(*   recheck   holds the lock, about to read the cache a second time       *)
(*   exchange  holds the lock, POST sent, the server has not minted yet    *)
(*   minted    holds the lock, the server has minted, the reply is on its  *)
(*             way                                                         *)
(*   ready     the call returned Ok(tok)                                   *)
(*   failed    the call returned Err(err)                                  *)
(***************************************************************************)
EXTENDS Responses

CONSTANTS
    Tasks,      \* the tasks that share one provider
    NoTask,     \* the value of holder while refresh_lock is free
    Skew,       \* TOKEN_REFRESH_SKEW
    Timeout,    \* config.timeout, the total time one HTTP request may take
    Lifetimes,  \* the values expires_in may have in a token response
    MaxSpan     \* the longest duration that may be added to an Instant

ASSUME TasksAssumption     == NoTask \notin Tasks
ASSUME DurationAssumption  == Skew \in Nat /\ Timeout \in Nat /\ MaxSpan \in Nat
ASSUME LifetimesAssumption == Lifetimes \subseteq Nat

VARIABLES
    cache,   \* access_token: the cached token and the time left to expires_at
    holder,  \* the task that holds refresh_lock
    ahead,   \* ahead[t]: the tasks in front of t in refresh_lock's queue
    pc,
    tok,     \* the token minted for t, or the token t's call returned
    age,     \* how long t's token exchange has been running
    err      \* the error t's call returned

vars == <<cache, holder, ahead, pc, tok, age, err>>

PC == {"idle", "lock", "queued", "recheck", "exchange", "minted", "ready",
       "failed"}

Token == [life : Nat, live : Nat, revoked : BOOLEAN]

NoToken == [life |-> 0, live |-> 0, revoked |-> FALSE]
NoError == [kind |-> "None", status |-> NoStatus]

Monus(a, b) == IF a > b THEN a - b ELSE 0
Lesser(a, b) == IF a < b THEN a ELSE b

-----------------------------------------------------------------------------
(* Definitions named Bug... are faults the properties must detect: each is  *)
(* what the definition after it would be with a plausible mistake in it.   *)
BugFreshUntilExpiry == cache.left > 0

(* cached_token answers Some: the token outlives the skew. *)
Fresh == cache.left > Skew

Queued == {t \in Tasks : pc[t] = "queued"}

(* The state right after FcmProvider::new, whose eager exchange took d.    *)
Init ==
    /\ \E life \in Lifetimes, d \in 0 .. Timeout :
          /\ life <= MaxSpan
          /\ cache = [tok  |-> [life |-> life, live |-> Monus(life, d),
                                revoked |-> FALSE],
                      left |-> life]
    /\ holder = NoTask
    /\ ahead = [t \in Tasks |-> {}]
    /\ pc = [t \in Tasks |-> "idle"]
    /\ tok = [t \in Tasks |-> NoToken]
    /\ age = [t \in Tasks |-> 0]
    /\ err = [t \in Tasks |-> NoError]

(* Ok(k) of get_access_token, in a step that does not touch the lock. *)
HandOut(t, k) ==
    /\ pc' = [pc EXCEPT ![t] = "ready"]
    /\ tok' = [tok EXCEPT ![t] = k]

BugFailKeepsLock(t, e) ==
    /\ pc' = [pc EXCEPT ![t] = "failed"]
    /\ err' = [err EXCEPT ![t] = e]
    /\ tok' = [tok EXCEPT ![t] = NoToken]
    /\ age' = [age EXCEPT ![t] = 0]
    /\ UNCHANGED holder

(* Err(e) of get_access_token.  The guard is dropped on the way out. *)
Fail(t, e) ==
    /\ pc' = [pc EXCEPT ![t] = "failed"]
    /\ err' = [err EXCEPT ![t] = e]
    /\ tok' = [tok EXCEPT ![t] = NoToken]
    /\ age' = [age EXCEPT ![t] = 0]
    /\ holder' = NoTask

(* The call of t ends without a result: its future is dropped or unwinds. *)
Vanish(t) ==
    /\ pc' = [pc EXCEPT ![t] = "idle"]
    /\ tok' = [tok EXCEPT ![t] = NoToken]
    /\ age' = [age EXCEPT ![t] = 0]

-----------------------------------------------------------------------------
BugSlidingExpiry(t) ==
    /\ pc[t] = "idle"
    /\ IF Fresh
       THEN HandOut(t, cache.tok) /\ cache' = [cache EXCEPT !.left = cache.tok.life]
       ELSE pc' = [pc EXCEPT ![t] = "lock"] /\ UNCHANGED <<cache, tok>>
    /\ UNCHANGED <<holder, ahead, age, err>>

(* The first look at the cache, without the lock. *)
GetAccessToken(t) ==
    /\ pc[t] = "idle"
    /\ IF Fresh THEN HandOut(t, cache.tok)
                ELSE pc' = [pc EXCEPT ![t] = "lock"] /\ UNCHANGED tok
    /\ UNCHANGED <<cache, holder, ahead, age, err>>

BugBarging(t) ==
    /\ pc[t] = "lock"
    /\ pc' = [pc EXCEPT ![t] = "queued"]
    /\ UNCHANGED <<cache, holder, ahead, tok, age, err>>

(* refresh_lock.lock(): join the end of the queue. *)
Lock(t) ==
    /\ pc[t] = "lock"
    /\ pc' = [pc EXCEPT ![t] = "queued"]
    /\ ahead' = [ahead EXCEPT ![t] = Queued]
    /\ UNCHANGED <<cache, holder, tok, age, err>>

BugNoLock(t) ==
    /\ pc[t] = "queued"
    /\ pc' = [pc EXCEPT ![t] = "recheck"]
    /\ holder' = t
    /\ ahead' = [u \in Tasks |-> IF u = t THEN {} ELSE ahead[u] \ {t}]
    /\ UNCHANGED <<cache, tok, age, err>>

(* The lock is free and t is the first in its queue. *)
Acquire(t) ==
    /\ pc[t] = "queued"
    /\ holder = NoTask
    /\ ahead[t] = {}
    /\ pc' = [pc EXCEPT ![t] = "recheck"]
    /\ holder' = t
    /\ ahead' = [u \in Tasks |-> ahead[u] \ {t}]
    /\ UNCHANGED <<cache, tok, age, err>>

(* The second look at the cache, under the lock. *)
RecheckHit(t) ==
    /\ pc[t] = "recheck"
    /\ Fresh
    /\ HandOut(t, cache.tok)
    /\ holder' = NoTask
    /\ UNCHANGED <<cache, ahead, age, err>>

BugNoRecheck(t) ==
    /\ pc[t] = "recheck"
    /\ pc' = [pc EXCEPT ![t] = "exchange"]
    /\ UNCHANGED <<cache, holder, ahead, tok, age, err>>

(* refresh_token up to the POST to the token endpoint. *)
StartExchange(t) ==
    /\ pc[t] = "recheck"
    /\ ~Fresh
    /\ pc' = [pc EXCEPT ![t] = "exchange"]
    /\ UNCHANGED <<cache, holder, ahead, tok, age, err>>

(* unix_now_secs finds the wall clock before the epoch, or the key of the  *)
(* service account does not sign: nothing is posted.                       *)
ClockBeforeEpoch(t) ==
    /\ pc[t] = "recheck"
    /\ ~Fresh
    /\ Fail(t, Err("Config"))
    /\ UNCHANGED <<cache, ahead>>

(* The token endpoint mints a token; it is valid from now on. *)
Mint(t, life) ==
    /\ pc[t] = "exchange"
    /\ pc' = [pc EXCEPT ![t] = "minted"]
    /\ tok' = [tok EXCEPT ![t] = [life |-> life, live |-> life, revoked |-> FALSE]]
    /\ UNCHANGED <<cache, holder, ahead, age, err>>

BugSkewAdded(t) ==
    /\ pc[t] = "minted"
    /\ tok[t].life <= MaxSpan
    /\ cache' = [tok |-> tok[t], left |-> tok[t].life + Skew]
    /\ HandOut(t, tok[t])
    /\ holder' = NoTask
    /\ age' = [age EXCEPT ![t] = 0]
    /\ UNCHANGED <<ahead, err>>

(* The reply arrives: expires_at is counted from now, the token is cached  *)
(* and returned even when it is already inside the skew.  The write and    *)
(* the drop of the guard are one step: nothing another task does in        *)
(* between depends on who holds the lock, except waiting for it.           *)
Receive(t) ==
    /\ pc[t] = "minted"
    /\ tok[t].life <= MaxSpan
    /\ cache' = [tok |-> tok[t], left |-> tok[t].life]
    /\ HandOut(t, tok[t])
    /\ holder' = NoTask
    /\ age' = [age EXCEPT ![t] = 0]
    /\ UNCHANGED <<ahead, err>>

(* Instant + Duration overflows and unwinds through the caller: the guard  *)
(* is dropped, the cache keeps the old token.                              *)
ExpiryOverflows(t) ==
    /\ pc[t] = "minted"
    /\ tok[t].life > MaxSpan
    /\ Vanish(t)
    /\ holder' = NoTask
    /\ UNCHANGED <<cache, ahead, err>>

(* The exchange fails, before or after the server minted a token. *)
ExchangeFails(t, e) ==
    /\ pc[t] \in {"exchange", "minted"}
    /\ Fail(t, e)
    /\ UNCHANGED <<cache, ahead>>

(* The request timer fires. *)
TimesOut(t) ==
    /\ age[t] = Timeout
    /\ ExchangeFails(t, Err("Timeout"))

(* The caller drops the future while it waits for the lock ... *)
CancelQueued(t) ==
    /\ pc[t] = "queued"
    /\ Vanish(t)
    /\ ahead' = [u \in Tasks |-> IF u = t THEN {} ELSE ahead[u] \ {t}]
    /\ UNCHANGED <<cache, holder, err>>

BugCancelKeepsLock(t) ==
    /\ pc[t] \in {"exchange", "minted"}
    /\ Vanish(t)
    /\ UNCHANGED <<cache, holder, ahead, err>>

(* ... or while it waits for the reply: the guard goes with it, and a      *)
(* token already minted is lost.                                           *)
CancelExchange(t) ==
    /\ pc[t] \in {"exchange", "minted"}
    /\ Vanish(t)
    /\ holder' = NoTask
    /\ UNCHANGED <<cache, ahead, err>>

(* The caller is done with the result of its call. *)
Return(t) ==
    /\ pc[t] \in {"ready", "failed"}
    /\ pc' = [pc EXCEPT ![t] = "idle"]
    /\ tok' = [tok EXCEPT ![t] = NoToken]
    /\ err' = [err EXCEPT ![t] = NoError]
    /\ UNCHANGED <<cache, holder, ahead, age>>

-----------------------------------------------------------------------------
(* Environment: time, and the server's right to revoke tokens early.       *)

Older(k) == [k EXCEPT !.live = Monus(k.live, 1)]

InExchange(t) == pc[t] \in {"exchange", "minted"}

(* One unit of time.  A request timer that is due fires first. *)
Tick ==
    /\ \A t \in Tasks : InExchange(t) => age[t] < Timeout
    /\ cache' = [tok |-> Older(cache.tok), left |-> Monus(cache.left, 1)]
    /\ tok' = [t \in Tasks |-> Older(tok[t])]
    /\ age' = [t \in Tasks |-> IF InExchange(t) THEN age[t] + 1 ELSE age[t]]
    /\ UNCHANGED <<holder, ahead, pc, err>>

Revoked(k) == [k EXCEPT !.revoked = TRUE]

(* Every token handed out so far stops working (key rotation, an           *)
(* administrator).  The provider is not told.                              *)
Revoke ==
    /\ cache' = [tok |-> Revoked(cache.tok), left |-> cache.left]
    /\ tok' = [t \in Tasks |-> IF tok[t] = NoToken THEN NoToken ELSE Revoked(tok[t])]
    /\ UNCHANGED <<holder, ahead, pc, age, err>>

Task(t) ==
    \/ GetAccessToken(t)
    \/ Lock(t)
    \/ Acquire(t)
    \/ RecheckHit(t)
    \/ StartExchange(t)
    \/ ClockBeforeEpoch(t)
    \/ \E life \in Lifetimes : Mint(t, life)
    \/ Receive(t)
    \/ ExpiryOverflows(t)
    \/ \E e \in ExchangeErrors : ExchangeFails(t, e)
    \/ CancelQueued(t)
    \/ CancelExchange(t)
    \/ Return(t)

Next == Tick \/ Revoke \/ \E t \in Tasks : Task(t)

Spec == Init /\ [][Next]_vars

(* A task that can run does run; a request timer that is due fires; time   *)
(* passes.  Nothing makes the server answer.                               *)
Fairness ==
    /\ WF_vars(Tick)
    /\ \A t \in Tasks :
          /\ WF_vars(Lock(t))
          /\ WF_vars(Acquire(t))
          /\ WF_vars(RecheckHit(t) \/ StartExchange(t) \/ ClockBeforeEpoch(t))
          /\ WF_vars(TimesOut(t))

FairSpec == Spec /\ Fairness

-----------------------------------------------------------------------------
(* Properties *)

TypeOK ==
    /\ cache \in [tok : Token, left : Nat]
    /\ holder \in Tasks \cup {NoTask}
    /\ ahead \in [Tasks -> SUBSET Tasks]
    /\ pc \in [Tasks -> PC]
    /\ tok \in [Tasks -> Token]
    /\ age \in [Tasks -> 0 .. Timeout]
    /\ err \in [Tasks -> PushError \cup {NoError}]

(* The refresh lock is held by exactly the task that is between lock() and *)
(* the drop of its guard, on every path out of get_access_token: a hit,    *)
(* a refreshed token, each error, the unwinding panic and a dropped future.*)
LockHeldByRefresher ==
    \A t \in Tasks : pc[t] \in {"recheck", "exchange", "minted"} <=> holder = t

(* The point of the second look at the cache (fcm.rs, "re-check the cache  *)
(* after acquiring"): a task exchanges a token only while no cached token  *)
(* would do, however many tasks missed the cache at the same expiry.       *)
NoRedundantExchange ==
    \A t \in Tasks : InExchange(t) => ~Fresh

(* A reply that arrives was asked for after the cached token was written   *)
(* (no last-writer-wins on the cache): while an exchange runs, the cached  *)
(* token has been in the cache at least as long.                           *)
CacheMovesForward ==
    \A t \in Tasks :
       InExchange(t) => cache.left = 0 \/ cache.left + age[t] <= cache.tok.life

(* The provider believes in a token for at most Timeout longer than the    *)
(* server does: what the reply took on its way, and nothing that           *)
(* accumulates while the token is used, waited for or replaced.            *)
ExpiryErrorBounded ==
    /\ cache.left <= cache.tok.live + Timeout
    /\ \A t \in Tasks : pc[t] = "minted" => tok[t].life <= tok[t].live + age[t]

(* What the skew is for: expires_at is counted from the arrival of the     *)
(* reply, so it is later than the server's own deadline by up to Timeout;  *)
(* a token the provider hands out is still accepted for the skew less that *)
(* error, unless the server gave it a shorter life to begin with.          *)
HandedOutWithMargin ==
    [][\A t \in Tasks :
          pc[t] # "ready" /\ pc'[t] = "ready"
             => tok'[t].live + Timeout >= Lesser(tok'[t].life, Skew + 1)]_vars

(* A call that reaches the lock ends, whatever the token endpoint does and *)
(* whichever of the tasks in front of it fail, are dropped or panic.       *)
EveryCallReturns ==
    \A t \in Tasks :
       pc[t] \in {"lock", "queued"} ~> pc[t] \in {"idle", "ready", "failed"}

(* No answer of FCM ever invalidates the cache, so a revoked token is      *)
(* handed out again and again, but not for ever: it runs into the skew and *)
(* is replaced, however often it is used meanwhile.                        *)
RevokedTokenRetires ==
    cache.tok.revoked /\ Fresh ~> ~Fresh
=============================================================================
