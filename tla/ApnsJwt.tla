------------------------------ MODULE ApnsJwt ------------------------------
(***************************************************************************)
(* The provider token (JWT) of the APNS provider (apns.rs): the cached     *)
(* JWT, the std mutex that serializes signing, and any number of threads   *)
(* that call get_token and then send with what they got.                   *)
(*                                                                         *)
(* Three clocks matter.  Real time is what APNS sees.  The wall clock is   *)
(* read for the claim iat and may be wrong: wall is its offset from real   *)
(* time.  Instant decides when the cached JWT expires, and it may or may   *)
(* not run while the host is suspended.                                    *)
(*                                                                         *)
(* A deadline is kept as the time left until it.  What APNS thinks of a    *)
(* JWT is kept as jwt.early, the time until its iat has come, and          *)
(* jwt.live, the time until its iat is too long ago.                       *)
(*                                                                         *)
(* get_token is synchronous, so it cannot be dropped half-way.  A thread's *)
(* pc says where in it the thread is:                                      *)
(*   idle      no call in progress                                         *)
(*   lock      missed the cache, waits for refresh_lock                    *)
(*   recheck   holds the lock, about to read the cache a second time       *)
(*   signing   holds the lock, has read the wall clock                     *)
(*   ready     the call returned Ok(tok); the thread sends with it         *)
(*   failed    the call returned Err(Config)                               *)
(*   panicked  the call unwound                                            *)
(***************************************************************************)
EXTENDS Integers

CONSTANTS
    Threads,      \* the threads that share one provider
    NoThread,     \* the value of holder while refresh_lock is free
    Validity,     \* how long create_token caches a JWT
    Limit,        \* how long after iat APNS accepts a JWT (external)
    SignTime,     \* the longest a thread takes from reading iat to caching
    UseTime,      \* the longest a caller goes on sending with one JWT
    Offsets,      \* by how much the wall clock may be wrong
    BeforeEpoch   \* the wall clock stands before the UNIX epoch

ASSUME ThreadsAssumption == NoThread \notin Threads
ASSUME TimesAssumption   ==
    Validity \in Nat \ {0} /\ Limit \in Nat /\ SignTime \in Nat /\ UseTime \in Nat
ASSUME WallAssumption    == Offsets \subseteq Int /\ BeforeEpoch \notin Int

VARIABLES
    keyOk,     \* whether config.private_key is a key that signs; set once
    cache,     \* access_token: the JWT and the time left to expires_at
    holder,    \* the thread that holds refresh_lock
    poisoned,  \* whether refresh_lock is poisoned
    pc,
    tok,       \* the JWT t signs, or the one its call returned
    spent,     \* how long t has been signing, or sending with its JWT
    wall,      \* the wall clock's offset from real time
    awake      \* FALSE while the host is suspended

vars == <<keyOk, cache, holder, poisoned, pc, tok, spent, wall, awake>>

PC == {"idle", "lock", "recheck", "signing", "ready", "failed", "panicked"}

(* honest: signed by a wall clock that was right, on a host that has not   *)
(* been suspended since.  Only the properties see it.                      *)
Jwt == [early : Nat, live : Nat, honest : BOOLEAN]

NoJwt == [early |-> 0, live |-> 0, honest |-> FALSE]

Monus(a, b) == IF a > b THEN a - b ELSE 0

(* What a JWT is to APNS whose iat is off by d. *)
SignedAt(d) == [early |-> Monus(d, 0), live |-> Monus(Limit + d, 0), honest |-> d = 0]

(* APNS refuses a JWT from the future, and one that is too old. *)
Accepted(j) == j.early = 0 /\ j.live > 0

-----------------------------------------------------------------------------
(* Definitions named Bug... are faults the properties must detect: each is *)
(* what the definition after it would be with a plausible mistake in it.   *)
BugNeverExpires == cache.jwt # NoJwt

(* cached_token answers Some; None in the cache is left = 0. *)
Fresh == cache.left > 0

(* The state right after ApnsProvider::new: no JWT is signed there. *)
Init ==
    /\ keyOk \in BOOLEAN
    /\ cache = [jwt |-> NoJwt, left |-> 0]
    /\ holder = NoThread
    /\ poisoned = FALSE
    /\ pc = [t \in Threads |-> "idle"]
    /\ tok = [t \in Threads |-> NoJwt]
    /\ spent = [t \in Threads |-> 0]
    /\ wall \in Offsets \cup {BeforeEpoch}
    /\ awake = TRUE

HandOut(t, j) ==
    /\ pc' = [pc EXCEPT ![t] = "ready"]
    /\ tok' = [tok EXCEPT ![t] = j]
    /\ spent' = [spent EXCEPT ![t] = 0]

(* The first look at the cache, without the lock. *)
GetToken(t) ==
    /\ awake
    /\ pc[t] = "idle"
    /\ IF Fresh THEN HandOut(t, cache.jwt)
                ELSE pc' = [pc EXCEPT ![t] = "lock"] /\ UNCHANGED <<tok, spent>>
    /\ UNCHANGED <<keyOk, cache, holder, poisoned, wall, awake>>

BugUnwrapPoison(t) ==
    /\ awake
    /\ pc[t] = "lock"
    /\ holder = NoThread
    /\ IF poisoned
       THEN pc' = [pc EXCEPT ![t] = "panicked"] /\ UNCHANGED holder
       ELSE pc' = [pc EXCEPT ![t] = "recheck"] /\ holder' = t
    /\ UNCHANGED <<keyOk, cache, poisoned, tok, spent, wall, awake>>

(* A waiter takes the lock, poisoned or not; the mutex keeps no order. *)
Acquire(t) ==
    /\ awake
    /\ pc[t] = "lock"
    /\ holder = NoThread
    /\ pc' = [pc EXCEPT ![t] = "recheck"]
    /\ holder' = t
    /\ UNCHANGED <<keyOk, cache, poisoned, tok, spent, wall, awake>>

(* The second look at the cache, under the lock. *)
RecheckHit(t) ==
    /\ awake
    /\ pc[t] = "recheck"
    /\ Fresh
    /\ HandOut(t, cache.jwt)
    /\ holder' = NoThread
    /\ UNCHANGED <<keyOk, cache, poisoned, wall, awake>>

(* create_token gives up: the wall clock is before the epoch, or the key   *)
(* does not parse or sign.  The guard is dropped on the way out.           *)
CannotSign(t) ==
    /\ awake
    /\ pc[t] = "recheck"
    /\ ~Fresh
    /\ wall = BeforeEpoch \/ ~keyOk
    /\ pc' = [pc EXCEPT ![t] = "failed"]
    /\ holder' = NoThread
    /\ UNCHANGED <<keyOk, cache, poisoned, tok, spent, wall, awake>>

BugNoRecheck(t) ==
    /\ awake
    /\ pc[t] = "recheck"
    /\ wall # BeforeEpoch /\ keyOk
    /\ pc' = [pc EXCEPT ![t] = "signing"]
    /\ tok' = [tok EXCEPT ![t] = SignedAt(wall)]
    /\ spent' = [spent EXCEPT ![t] = 0]
    /\ UNCHANGED <<keyOk, cache, holder, poisoned, wall, awake>>

(* create_token reads the wall clock and starts to sign. *)
StartSigning(t) ==
    /\ awake
    /\ pc[t] = "recheck"
    /\ ~Fresh
    /\ wall # BeforeEpoch /\ keyOk
    /\ pc' = [pc EXCEPT ![t] = "signing"]
    /\ tok' = [tok EXCEPT ![t] = SignedAt(wall)]
    /\ spent' = [spent EXCEPT ![t] = 0]
    /\ UNCHANGED <<keyOk, cache, holder, poisoned, wall, awake>>

(* The JWT is signed and cached for Validity from now on.  The write and   *)
(* the drop of the guard are one step: in between another thread can only  *)
(* read what it could read a moment later, or wait.                        *)
CreateToken(t) ==
    /\ awake
    /\ pc[t] = "signing"
    /\ cache' = [jwt |-> tok[t], left |-> Validity]
    /\ HandOut(t, tok[t])
    /\ holder' = NoThread
    /\ UNCHANGED <<keyOk, poisoned, wall, awake>>

BugPanicKeepsLock(t) ==
    /\ awake
    /\ pc[t] = "signing"
    /\ pc' = [pc EXCEPT ![t] = "panicked"]
    /\ tok' = [tok EXCEPT ![t] = NoJwt]
    /\ spent' = [spent EXCEPT ![t] = 0]
    /\ poisoned' = TRUE
    /\ UNCHANGED <<keyOk, cache, holder, wall, awake>>

(* A panic while signing drops the guard and poisons the mutex. *)
SigningPanics(t) ==
    /\ awake
    /\ pc[t] = "signing"
    /\ pc' = [pc EXCEPT ![t] = "panicked"]
    /\ tok' = [tok EXCEPT ![t] = NoJwt]
    /\ spent' = [spent EXCEPT ![t] = 0]
    /\ poisoned' = TRUE
    /\ holder' = NoThread
    /\ UNCHANGED <<keyOk, cache, wall, awake>>

(* The send or the batch is over; its answers change nothing here, a       *)
(* refused JWT included.                                                   *)
Return(t) ==
    /\ awake
    /\ pc[t] \in {"ready", "failed", "panicked"}
    /\ pc' = [pc EXCEPT ![t] = "idle"]
    /\ tok' = [tok EXCEPT ![t] = NoJwt]
    /\ spent' = [spent EXCEPT ![t] = 0]
    /\ UNCHANGED <<keyOk, cache, holder, poisoned, wall, awake>>

-----------------------------------------------------------------------------
(* Environment: the three clocks. *)

Older(j) == [early |-> Monus(j.early, 1), live |-> Monus(j.live, 1),
             honest |-> j.honest]

Slept(j) == [early |-> Monus(j.early, 1), live |-> Monus(j.live, 1),
             honest |-> FALSE]

Busy(t) == pc[t] \in {"signing", "ready"}

(* One unit of time.  A thread signs and a caller sends no longer than     *)
(* their bounds.                                                           *)
Tick ==
    /\ awake
    /\ \A t \in Threads :
          /\ pc[t] = "signing" => spent[t] < SignTime
          /\ pc[t] = "ready" => spent[t] < UseTime
    /\ cache' = [jwt |-> Older(cache.jwt), left |-> Monus(cache.left, 1)]
    /\ tok' = [t \in Threads |-> Older(tok[t])]
    /\ spent' = [t \in Threads |-> IF Busy(t) THEN spent[t] + 1 ELSE spent[t]]
    /\ UNCHANGED <<keyOk, holder, poisoned, pc, wall, awake>>

(* The wall clock is set: by hand, by NTP, by a resumed snapshot. *)
StepClock ==
    /\ wall' \in (Offsets \cup {BeforeEpoch}) \ {wall}
    /\ UNCHANGED <<keyOk, cache, holder, poisoned, pc, tok, spent, awake>>

Suspend ==
    /\ awake
    /\ awake' = FALSE
    /\ UNCHANGED <<keyOk, cache, holder, poisoned, pc, tok, spent, wall>>

(* Real time passes over a suspended host; Instant may stand still. *)
Sleep ==
    /\ ~awake
    /\ cache' \in {[jwt |-> Slept(cache.jwt), left |-> n] :
                      n \in {cache.left, Monus(cache.left, 1)}}
    /\ tok' = [t \in Threads |-> Slept(tok[t])]
    /\ UNCHANGED <<keyOk, holder, poisoned, pc, spent, wall, awake>>

Resume ==
    /\ ~awake
    /\ awake' = TRUE
    /\ UNCHANGED <<keyOk, cache, holder, poisoned, pc, tok, spent, wall>>

Thread(t) ==
    \/ GetToken(t)
    \/ Acquire(t)
    \/ RecheckHit(t)
    \/ CannotSign(t)
    \/ StartSigning(t)
    \/ CreateToken(t)
    \/ SigningPanics(t)
    \/ Return(t)

Next == Tick \/ StepClock \/ Suspend \/ Sleep \/ Resume \/ \E t \in Threads : Thread(t)

Spec == Init /\ [][Next]_vars

(* A suspended host resumes, and is awake often enough for everything else *)
(* to get on (hence SF): a thread that can run runs, the mutex is handed   *)
(* to someone who waits for it but to nobody in particular, a caller       *)
(* finishes, time passes.  Nothing makes the wall clock right.             *)
Fairness ==
    /\ WF_vars(Resume)
    /\ SF_vars(Tick)
    /\ SF_vars(\E t \in Threads : Acquire(t))
    /\ \A t \in Threads :
          /\ SF_vars(RecheckHit(t) \/ CannotSign(t) \/ StartSigning(t))
          /\ SF_vars(CreateToken(t) \/ SigningPanics(t))
          /\ SF_vars(Return(t))

FairSpec == Spec /\ Fairness

-----------------------------------------------------------------------------
(* Properties *)

TypeOK ==
    /\ keyOk \in BOOLEAN
    /\ cache \in [jwt : Jwt, left : 0 .. Validity]
    /\ holder \in Threads \cup {NoThread}
    /\ poisoned \in BOOLEAN
    /\ pc \in [Threads -> PC]
    /\ tok \in [Threads -> Jwt]
    /\ spent \in [Threads -> Nat]
    /\ wall \in Offsets \cup {BeforeEpoch}
    /\ awake \in BOOLEAN

(* refresh_lock is held by exactly the thread between lock() and the drop  *)
(* of its guard, on every way out of get_token, a panic included.          *)
LockHeldBySigner ==
    \A t \in Threads : pc[t] \in {"recheck", "signing"} <=> holder = t

(* refresh_lock's purpose (apns.rs, "one ES256 signature instead of one    *)
(* per in-flight send"): nobody signs while the cached JWT would do.       *)
NoRedundantSigning ==
    \A t \in Threads : pc[t] = "signing" => ~Fresh

(* get_token's comment on poison: a panic of one thread must not make the  *)
(* next call panic.  A call panics only in its own signature.              *)
PanicIsNotContagious ==
    [][\A t \in Threads :
          pc'[t] = "panicked" /\ pc[t] # "panicked" => pc[t] = "signing"]_vars

(* The JWT is signed by one clock and expires by another.  While the wall  *)
(* clock was right at the signature and the host stayed awake, APNS        *)
(* accepts every JWT that is cached, and every JWT in use for as long as   *)
(* the limit leaves after validity and signature: a caller that goes on    *)
(* longer, a batch of very many waves, is not covered.                     *)
HonestJwtInTime ==
    /\ Fresh /\ cache.jwt.honest /\ Validity + SignTime <= Limit => Accepted(cache.jwt)
    /\ \A t \in Threads :
          /\ pc[t] = "ready" /\ tok[t].honest
          /\ spent[t] + Validity + SignTime <= Limit
          => Accepted(tok[t])

(* create_token's comment wants sends to work again once the clock has     *)
(* been corrected.  Nothing drops a JWT that APNS refuses, but once the    *)
(* wall clock stays right and the host awake, only JWTs that APNS accepts  *)
(* are handed out eventually and no call fails for the clock.              *)
RecoversWithTheClock ==
    keyOk /\ <>[](wall = 0 /\ awake)
       => <>[][\A t \in Threads :
                 /\ pc'[t] # "failed" \/ pc[t] = "failed"
                 /\ pc'[t] = "ready" /\ pc[t] # "ready" => Accepted(tok'[t])]_vars
=============================================================================
