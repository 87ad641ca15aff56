----------------------------- MODULE FcmProofs -----------------------------
(***************************************************************************)
(* What the FCM provider guarantees: first the access token cache under    *)
(* its lock (FcmAuth), then the sends and batches that use it (FcmSend).   *)
(***************************************************************************)
EXTENDS FcmSend, TLAPS, FiniteSetTheorems

(***************************************************************************)
(* The token cache, for every set of tasks, every skew, timeout and range  *)
(* of token lifetimes.                                                     *)
(***************************************************************************)

(* What the safety properties need besides themselves: the cached token's  *)
(* remaining time never exceeds its lifetime, and a request timer runs     *)
(* only during an exchange.                                                *)
TimersInv ==
    /\ cache.left <= cache.tok.life
    /\ \A t \in Tasks : ~InExchange(t) => age[t] = 0

IInv ==
    /\ TypeOK
    /\ LockHeldByRefresher
    /\ TimersInv
    /\ NoRedundantExchange
    /\ CacheMovesForward
    /\ ExpiryErrorBounded

-----------------------------------------------------------------------------
(* The countdown of a timer stays a natural number and loses at most one.  *)
LEMMA MonusOne ==
    ASSUME NEW n \in Nat
    PROVE  /\ Monus(n, 1) \in Nat
           /\ Monus(n, 1) <= n
           /\ n <= Monus(n, 1) + 1
           /\ n > 0 => Monus(n, 1) = n - 1
           /\ n = 0 => Monus(n, 1) = 0
BY DEF Monus

(* A token that ages or is revoked is still a token. *)
LEMMA OlderToken ==
    ASSUME NEW k \in Token
    PROVE  /\ Older(k) \in Token
           /\ Older(k).life = k.life
           /\ Older(k).live = Monus(k.live, 1)
BY MonusOne DEF Older, Token

LEMMA RevokedToken ==
    ASSUME NEW k \in Token
    PROVE  /\ Revoked(k) \in Token
           /\ Revoked(k).life = k.life
           /\ Revoked(k).live = k.live
BY DEF Revoked, Token

LEMMA NoTokenType == NoToken \in Token
BY DEF NoToken, Token

(* Every error refresh_token passes on is an error of the crate. *)
LEMMA ExchangeErrorsType ==
    /\ ExchangeErrors \subseteq PushError
    /\ Err("Config") \in PushError
BY DEF ExchangeErrors, FromReqwest, TransportFailures, Err, ProviderErr,
       PushError, Kinds, NoStatus

-----------------------------------------------------------------------------
LEMMA InitIInv == Init => IInv
<1> SUFFICES ASSUME Init PROVE IInv
  OBVIOUS
<1> USE DurationAssumption, LifetimesAssumption, TasksAssumption
<1>1. PICK life \in Lifetimes, d \in 0 .. Timeout :
         cache = [tok  |-> [life |-> life, live |-> Monus(life, d),
                            revoked |-> FALSE],
                  left |-> life]
  BY DEF Init
<1>2. /\ life \in Nat /\ Monus(life, d) \in Nat
      /\ life <= Monus(life, d) + Timeout
  BY DEF Monus
<1>3. /\ cache \in [tok : Token, left : Nat]
      /\ cache.left = life /\ cache.tok.life = life
      /\ cache.tok.live = Monus(life, d)
  BY <1>1, <1>2 DEF Token
<1>4. TypeOK
  BY <1>3, NoTokenType DEF Init, TypeOK, PC
<1>5. \A t \in Tasks : pc[t] = "idle" /\ age[t] = 0 /\ holder # t
  BY DEF Init
<1>6. LockHeldByRefresher /\ NoRedundantExchange /\ CacheMovesForward
  BY <1>5 DEF LockHeldByRefresher, NoRedundantExchange, CacheMovesForward, InExchange
<1>7. TimersInv /\ ExpiryErrorBounded
  BY <1>2, <1>3, <1>5 DEF TimersInv, ExpiryErrorBounded, InExchange
<1> QED
  BY <1>4, <1>6, <1>7 DEF IInv

-----------------------------------------------------------------------------
(* Type correctness is preserved by every step. *)
LEMMA NextTypeOK == TypeOK /\ [Next]_vars => TypeOK'
<1> SUFFICES ASSUME TypeOK, [Next]_vars PROVE TypeOK'
  OBVIOUS
<1> USE DurationAssumption, LifetimesAssumption, ExchangeErrorsType, NoTokenType
<1> USE DEF TypeOK, PC
<1>1. CASE Tick
  <2>1. cache' \in [tok : Token, left : Nat]
    BY <1>1, OlderToken, MonusOne DEF Tick
  <2>2. tok' \in [Tasks -> Token]
    BY <1>1, OlderToken DEF Tick
  <2>3. age' \in [Tasks -> 0 .. Timeout]
    BY <1>1 DEF Tick
  <2> QED
    BY <1>1, <2>1, <2>2, <2>3 DEF Tick
<1>2. CASE Revoke
  <2>1. cache' \in [tok : Token, left : Nat]
    BY <1>2, RevokedToken DEF Revoke
  <2>2. tok' \in [Tasks -> Token]
    BY <1>2, RevokedToken DEF Revoke
  <2> QED
    BY <1>2, <2>1, <2>2 DEF Revoke
<1>3. ASSUME NEW t \in Tasks, Task(t) PROVE TypeOK'
  <2>1. CASE GetAccessToken(t)
    BY <2>1 DEF GetAccessToken, HandOut
  <2>2. CASE Lock(t)
    BY <2>2 DEF Lock, Queued
  <2>3. CASE Acquire(t)
    BY <2>3 DEF Acquire
  <2>4. CASE RecheckHit(t)
    BY <2>4 DEF RecheckHit, HandOut
  <2>5. CASE StartExchange(t)
    BY <2>5 DEF StartExchange
  <2>6. CASE ClockBeforeEpoch(t)
    BY <2>6 DEF ClockBeforeEpoch, Fail
  <2>7. ASSUME NEW life \in Lifetimes, Mint(t, life) PROVE TypeOK'
    <3>1. [life |-> life, live |-> life, revoked |-> FALSE] \in Token
      BY DEF Token
    <3> QED
      BY <2>7, <3>1 DEF Mint
  <2>8. CASE Receive(t)
    <3>1. cache' \in [tok : Token, left : Nat]
      BY <2>8 DEF Receive, Token
    <3> QED
      BY <2>8, <3>1 DEF Receive, HandOut
  <2>9. CASE ExpiryOverflows(t)
    BY <2>9 DEF ExpiryOverflows, Vanish
  <2>10. ASSUME NEW e \in ExchangeErrors, ExchangeFails(t, e) PROVE TypeOK'
    BY <2>10 DEF ExchangeFails, Fail
  <2>11. CASE CancelQueued(t)
    BY <2>11 DEF CancelQueued, Vanish
  <2>12. CASE CancelExchange(t)
    BY <2>12 DEF CancelExchange, Vanish
  <2>13. CASE Return(t)
    BY <2>13 DEF Return
  <2> QED
    BY <1>3, <2>1, <2>2, <2>3, <2>4, <2>5, <2>6, <2>7, <2>8, <2>9, <2>10,
       <2>11, <2>12, <2>13 DEF Task
<1>4. CASE UNCHANGED vars
  BY <1>4 DEF vars
<1> QED
  BY <1>1, <1>2, <1>3, <1>4 DEF Next

-----------------------------------------------------------------------------
(* Mutual exclusion: each step moves the holder and the pc together.       *)
LEMMA NextLock ==
    TypeOK /\ LockHeldByRefresher /\ [Next]_vars => LockHeldByRefresher'
<1> SUFFICES ASSUME TypeOK, LockHeldByRefresher, [Next]_vars
             PROVE  LockHeldByRefresher'
  OBVIOUS
<1> USE TasksAssumption
<1> USE DEF TypeOK, LockHeldByRefresher
<1>1. CASE Tick \/ Revoke \/ UNCHANGED vars
  BY <1>1 DEF Tick, Revoke, vars
<1>2. ASSUME NEW t \in Tasks, Task(t) PROVE LockHeldByRefresher'
  <2>1. CASE GetAccessToken(t) \/ Lock(t) \/ Acquire(t) \/ Return(t)
    BY <2>1 DEF GetAccessToken, HandOut, Lock, Acquire, Return
  <2>2. CASE RecheckHit(t) \/ StartExchange(t) \/ ClockBeforeEpoch(t)
    BY <2>2 DEF RecheckHit, HandOut, StartExchange, ClockBeforeEpoch, Fail
  <2>3. ASSUME NEW life \in Lifetimes, Mint(t, life) PROVE LockHeldByRefresher'
    BY <2>3 DEF Mint
  <2>4. CASE Receive(t) \/ ExpiryOverflows(t)
    BY <2>4 DEF Receive, ExpiryOverflows, HandOut, Vanish
  <2>5. ASSUME NEW e \in ExchangeErrors, ExchangeFails(t, e)
        PROVE  LockHeldByRefresher'
    BY <2>5 DEF ExchangeFails, Fail
  <2>6. CASE CancelQueued(t) \/ CancelExchange(t)
    BY <2>6 DEF CancelQueued, CancelExchange, Vanish
  <2> QED
    BY <1>2, <2>1, <2>2, <2>3, <2>4, <2>5, <2>6 DEF Task
<1> QED
  BY <1>1, <1>2 DEF Next

-----------------------------------------------------------------------------
(* The timers run as the properties need.                                  *)
LEMMA NextTimers == IInv /\ [Next]_vars => TimersInv'
<1> SUFFICES ASSUME IInv, [Next]_vars PROVE TimersInv'
  OBVIOUS
<1> USE DurationAssumption, LifetimesAssumption
<1> USE DEF IInv, TypeOK, TimersInv, InExchange
<1>1. CASE Tick
  BY <1>1, OlderToken, MonusOne DEF Tick, Token
<1>2. CASE Revoke
  BY <1>2, RevokedToken DEF Revoke
<1>3. ASSUME NEW t \in Tasks, Task(t) PROVE TimersInv'
  <2>1. CASE GetAccessToken(t) \/ Lock(t) \/ Acquire(t) \/ Return(t)
    BY <2>1 DEF GetAccessToken, HandOut, Lock, Acquire, Return
  <2>2. CASE RecheckHit(t) \/ StartExchange(t) \/ ClockBeforeEpoch(t)
    BY <2>2 DEF RecheckHit, HandOut, StartExchange, ClockBeforeEpoch, Fail
  <2>3. ASSUME NEW life \in Lifetimes, Mint(t, life) PROVE TimersInv'
    BY <2>3 DEF Mint
  <2>4. CASE Receive(t) \/ ExpiryOverflows(t)
    BY <2>4 DEF Receive, ExpiryOverflows, HandOut, Vanish, Token
  <2>5. ASSUME NEW e \in ExchangeErrors, ExchangeFails(t, e) PROVE TimersInv'
    BY <2>5 DEF ExchangeFails, Fail
  <2>6. CASE CancelQueued(t) \/ CancelExchange(t)
    BY <2>6 DEF CancelQueued, CancelExchange, Vanish
  <2> QED
    BY <1>3, <2>1, <2>2, <2>3, <2>4, <2>5, <2>6 DEF Task
<1>4. CASE UNCHANGED vars
  BY <1>4 DEF vars
<1> QED
  BY <1>1, <1>2, <1>3, <1>4 DEF Next

-----------------------------------------------------------------------------
(* No step makes the cache fresh while another task exchanges: only the    *)
(* lock's holder writes it, and it leaves the exchange in the same step.   *)
LEMMA NextNoRedundantExchange == IInv /\ [Next]_vars => NoRedundantExchange'
<1> SUFFICES ASSUME IInv, [Next]_vars PROVE NoRedundantExchange'
  OBVIOUS
<1> USE DurationAssumption, TasksAssumption
<1> USE DEF IInv, TypeOK, LockHeldByRefresher, NoRedundantExchange, InExchange, Fresh
<1>1. CASE Tick
  BY <1>1, MonusOne DEF Tick
<1>2. CASE Revoke
  BY <1>2 DEF Revoke
<1>3. ASSUME NEW t \in Tasks, Task(t) PROVE NoRedundantExchange'
  <2>1. CASE GetAccessToken(t) \/ Lock(t) \/ Acquire(t) \/ Return(t)
    BY <2>1 DEF GetAccessToken, HandOut, Lock, Acquire, Return
  <2>2. CASE RecheckHit(t) \/ StartExchange(t) \/ ClockBeforeEpoch(t)
    BY <2>2 DEF RecheckHit, HandOut, StartExchange, ClockBeforeEpoch, Fail
  <2>3. ASSUME NEW life \in Lifetimes, Mint(t, life) PROVE NoRedundantExchange'
    BY <2>3 DEF Mint
  <2>4. CASE Receive(t)
    <3>1. \A u \in Tasks : pc'[u] \notin {"exchange", "minted"}
      BY <2>4 DEF Receive, HandOut
    <3> QED
      BY <3>1
  <2>5. CASE ExpiryOverflows(t)
    BY <2>5 DEF ExpiryOverflows, Vanish
  <2>6. ASSUME NEW e \in ExchangeErrors, ExchangeFails(t, e)
        PROVE  NoRedundantExchange'
    BY <2>6 DEF ExchangeFails, Fail
  <2>7. CASE CancelQueued(t) \/ CancelExchange(t)
    BY <2>7 DEF CancelQueued, CancelExchange, Vanish
  <2> QED
    BY <1>3, <2>1, <2>2, <2>3, <2>4, <2>5, <2>6, <2>7 DEF Task
<1>4. CASE UNCHANGED vars
  BY <1>4 DEF vars
<1> QED
  BY <1>1, <1>2, <1>3, <1>4 DEF Next

-----------------------------------------------------------------------------
(* An exchange starts with its timer at zero and the cached token's        *)
(* remaining time at most its lifetime; from then on each tick adds one to *)
(* the one and takes one from the other.                                   *)
LEMMA NextCacheMovesForward == IInv /\ [Next]_vars => CacheMovesForward'
<1> SUFFICES ASSUME IInv, [Next]_vars PROVE CacheMovesForward'
  OBVIOUS
<1> USE DurationAssumption, LifetimesAssumption, TasksAssumption
<1> USE DEF IInv, TypeOK, CacheMovesForward, TimersInv, InExchange
<1>1. CASE Tick
  <2> SUFFICES ASSUME NEW t \in Tasks, InExchange(t)', cache'.left # 0
               PROVE  cache'.left + age'[t] <= cache'.tok.life
    OBVIOUS
  <2>1. /\ cache'.left = cache.left - 1
        /\ age'[t] = age[t] + 1
        /\ cache'.tok.life = cache.tok.life
        /\ InExchange(t)
    BY <1>1, MonusOne, OlderToken DEF Tick
  <2>2. cache.left # 0 /\ cache.left \in Nat /\ age[t] \in Nat /\ cache.tok.life \in Nat
    BY <1>1, MonusOne DEF Tick, Token
  <2> QED
    BY <2>1, <2>2
<1>2. CASE Revoke
  BY <1>2, RevokedToken DEF Revoke
<1>3. ASSUME NEW t \in Tasks, Task(t) PROVE CacheMovesForward'
  <2>1. CASE GetAccessToken(t) \/ Lock(t) \/ Acquire(t) \/ Return(t)
    BY <2>1 DEF GetAccessToken, HandOut, Lock, Acquire, Return
  <2>2. CASE RecheckHit(t) \/ ClockBeforeEpoch(t)
    BY <2>2 DEF RecheckHit, HandOut, ClockBeforeEpoch, Fail
  <2>3. CASE StartExchange(t)
    BY <2>3 DEF StartExchange, Token
  <2>4. ASSUME NEW life \in Lifetimes, Mint(t, life) PROVE CacheMovesForward'
    BY <2>4 DEF Mint
  <2>5. CASE Receive(t)
    <3>1. \A u \in Tasks : pc'[u] \notin {"exchange", "minted"}
      BY <2>5 DEF Receive, HandOut, LockHeldByRefresher
    <3> QED
      BY <3>1
  <2>6. CASE ExpiryOverflows(t)
    BY <2>6 DEF ExpiryOverflows, Vanish
  <2>7. ASSUME NEW e \in ExchangeErrors, ExchangeFails(t, e)
        PROVE  CacheMovesForward'
    BY <2>7 DEF ExchangeFails, Fail
  <2>8. CASE CancelQueued(t) \/ CancelExchange(t)
    BY <2>8 DEF CancelQueued, CancelExchange, Vanish
  <2> QED
    BY <1>3, <2>1, <2>2, <2>3, <2>4, <2>5, <2>6, <2>7, <2>8 DEF Task
<1>4. CASE UNCHANGED vars
  BY <1>4 DEF vars
<1> QED
  BY <1>1, <1>2, <1>3, <1>4 DEF Next

-----------------------------------------------------------------------------
(* The gap between the provider's and the server's deadline is made by one *)
(* exchange only.                                                          *)
LEMMA NextExpiryErrorBounded == IInv /\ [Next]_vars => ExpiryErrorBounded'
<1> SUFFICES ASSUME IInv, [Next]_vars PROVE ExpiryErrorBounded'
  OBVIOUS
<1> USE DurationAssumption, LifetimesAssumption
<1> USE DEF IInv, TypeOK, ExpiryErrorBounded
<1>1. CASE Tick
  <2>1. cache'.left <= cache'.tok.live + Timeout
    BY <1>1, MonusOne, OlderToken DEF Tick, Token
  <2>2. ASSUME NEW t \in Tasks, pc'[t] = "minted"
        PROVE  tok'[t].life <= tok'[t].live + age'[t]
    <3>1. /\ pc[t] = "minted" /\ age'[t] = age[t] + 1
          /\ tok'[t].life = tok[t].life
          /\ tok'[t].live = Monus(tok[t].live, 1)
      BY <1>1, <2>2, OlderToken DEF Tick, InExchange
    <3>2. /\ tok[t].life \in Nat /\ tok[t].live \in Nat /\ age[t] \in Nat
          /\ tok[t].life <= tok[t].live + age[t]
      BY <3>1 DEF Token
    <3> QED
      BY <3>1, <3>2, MonusOne
  <2> QED
    BY <2>1, <2>2
<1>2. CASE Revoke
  <2>1. \A t \in Tasks : tok'[t].life = tok[t].life /\ tok'[t].live = tok[t].live
    BY <1>2, RevokedToken DEF Revoke
  <2> QED
    BY <1>2, <2>1, RevokedToken DEF Revoke
<1>3. ASSUME NEW t \in Tasks, Task(t) PROVE ExpiryErrorBounded'
  <2>1. CASE GetAccessToken(t) \/ Lock(t) \/ Acquire(t) \/ Return(t)
    BY <2>1 DEF GetAccessToken, HandOut, Lock, Acquire, Return
  <2>2. CASE RecheckHit(t) \/ StartExchange(t) \/ ClockBeforeEpoch(t)
    BY <2>2 DEF RecheckHit, HandOut, StartExchange, ClockBeforeEpoch, Fail
  <2>3. ASSUME NEW life \in Lifetimes, Mint(t, life) PROVE ExpiryErrorBounded'
    BY <2>3 DEF Mint
  <2>4. CASE Receive(t)
    <3>1. /\ tok[t].life <= tok[t].live + age[t] /\ age[t] <= Timeout
          /\ tok[t].life \in Nat /\ tok[t].live \in Nat /\ age[t] \in Nat
      BY <2>4 DEF Receive, Token
    <3>2. cache'.left <= cache'.tok.live + Timeout
      BY <2>4, <3>1 DEF Receive
    <3> QED
      BY <2>4, <3>2 DEF Receive, HandOut
  <2>5. CASE ExpiryOverflows(t)
    BY <2>5 DEF ExpiryOverflows, Vanish
  <2>6. ASSUME NEW e \in ExchangeErrors, ExchangeFails(t, e)
        PROVE  ExpiryErrorBounded'
    BY <2>6 DEF ExchangeFails, Fail
  <2>7. CASE CancelQueued(t) \/ CancelExchange(t)
    BY <2>7 DEF CancelQueued, CancelExchange, Vanish
  <2> QED
    BY <1>3, <2>1, <2>2, <2>3, <2>4, <2>5, <2>6, <2>7 DEF Task
<1>4. CASE UNCHANGED vars
  BY <1>4 DEF vars
<1> QED
  BY <1>1, <1>2, <1>3, <1>4 DEF Next

-----------------------------------------------------------------------------
LEMMA NextIInv == IInv /\ [Next]_vars => IInv'
BY NextTypeOK, NextLock, NextTimers, NextNoRedundantExchange,
   NextCacheMovesForward, NextExpiryErrorBounded DEF IInv

LEMMA Invariance == Spec => []IInv
BY InitIInv, NextIInv, PTL DEF Spec

(* Every reachable state of the token cache, the lock and the calls is     *)
(* well formed; in particular no request outlives its timeout.             *)
THEOREM TypeCorrect == Spec => []TypeOK
<1>1. IInv => TypeOK
  BY DEF IInv
<1> QED
  BY Invariance, <1>1, PTL

(* The refresh lock is held exactly between lock() and the drop of the     *)
(* guard, so at most one task refreshes.                                   *)
THEOREM MutualExclusion == Spec => []LockHeldByRefresher
<1>1. IInv => LockHeldByRefresher
  BY DEF IInv
<1> QED
  BY Invariance, <1>1, PTL

(* No exchange runs while the cached token would do. *)
THEOREM NoStampede == Spec => []NoRedundantExchange
<1>1. IInv => NoRedundantExchange
  BY DEF IInv
<1> QED
  BY Invariance, <1>1, PTL

(* The cache never goes back to a token asked for earlier. *)
THEOREM NoLastWriterWins == Spec => []CacheMovesForward
<1>1. IInv => CacheMovesForward
  BY DEF IInv
<1> QED
  BY Invariance, <1>1, PTL

(* The provider's deadline is at most Timeout behind the server's. *)
THEOREM ExpiryError == Spec => []ExpiryErrorBounded
<1>1. IInv => ExpiryErrorBounded
  BY DEF IInv
<1> QED
  BY Invariance, <1>1, PTL

-----------------------------------------------------------------------------
(* The step that hands a token out.                                        *)
LEMMA HandOverMargin ==
    ASSUME IInv, [Next]_vars, NEW t \in Tasks, pc[t] # "ready", pc'[t] = "ready"
    PROVE  tok'[t].live + Timeout >= Lesser(tok'[t].life, Skew + 1)
<1>0. Next
  BY DEF vars
<1> USE DurationAssumption DEF IInv, TypeOK, Token, Lesser
<1>1. \/ GetAccessToken(t) /\ Fresh
      \/ RecheckHit(t)
      \/ Receive(t)
  <2>1. ~(Tick \/ Revoke)
    BY DEF Tick, Revoke
  <2>2. PICK u \in Tasks : Task(u)
    BY <1>0, <2>1 DEF Next
  <2>3. u = t
    <3> SUFFICES ASSUME u # t PROVE pc'[t] = pc[t]
      OBVIOUS
    <3> QED
      BY <2>2 DEF Task, GetAccessToken, HandOut, Lock, Acquire, RecheckHit,
         StartExchange, ClockBeforeEpoch, Fail, Mint, Receive, ExpiryOverflows,
         Vanish, ExchangeFails, CancelQueued, CancelExchange, Return
  <2> QED
    BY <2>2, <2>3 DEF Task, GetAccessToken, HandOut, Lock, Acquire,
       StartExchange, ClockBeforeEpoch, Fail, Mint, ExpiryOverflows,
       Vanish, ExchangeFails, CancelQueued, CancelExchange, Return
<1>2. CASE Fresh /\ tok' = [tok EXCEPT ![t] = cache.tok]
  BY <1>2 DEF Fresh, ExpiryErrorBounded
<1>3. CASE Receive(t)
  BY <1>3 DEF Receive, HandOut, ExpiryErrorBounded
<1> QED
  BY <1>1, <1>2, <1>3 DEF GetAccessToken, RecheckHit, HandOut

(* Every token that get_access_token returns is accepted for the skew less *)
(* one request timeout, or for its whole lifetime less that if shorter.    *)
THEOREM Margin == Spec => HandedOutWithMargin
<1> DEFINE HandOver ==
      \A t \in Tasks :
         pc[t] # "ready" /\ pc'[t] = "ready"
            => tok'[t].live + Timeout >= Lesser(tok'[t].life, Skew + 1)
<1>1. IInv /\ [Next]_vars => [HandOver]_vars
  BY HandOverMargin
<1> QED
  BY Invariance, <1>1, PTL DEF Spec, HandedOutWithMargin

(* Why a revoked token goes for good, which RevokedTokenRetires checks: no *)
(* step of any task gives a cached token that would do more time, though   *)
(* replies arrive late and in any order.  Only a token within the skew is  *)
(* ever replaced, so one that is wrong lasts its life and no longer.       *)
FreshOnlyAges == [][Fresh => cache'.left <= cache.left]_vars

(* A token that get_access_token serves from the cache is never prolonged  *)
(* there, with any number of tasks that refresh.                           *)
THEOREM RevocationIsNotRenewed == Spec => FreshOnlyAges
<1>1. IInv /\ [Next]_vars => [Fresh => cache'.left <= cache.left]_vars
  <2> SUFFICES ASSUME IInv, Next, Fresh PROVE cache'.left <= cache.left
    BY DEF vars
  <2> USE DEF IInv, TypeOK
  <2>1. cache.left \in Nat
    OBVIOUS
  <2>2. CASE Tick
    BY <2>1, <2>2, MonusOne DEF Tick
  <2>3. CASE Revoke
    BY <2>1, <2>3 DEF Revoke
  <2>4. ASSUME NEW t \in Tasks, Task(t) PROVE cache' = cache
    <3>1. ~InExchange(t)
      BY DEF NoRedundantExchange
    <3> QED
      BY <2>4, <3>1 DEF Task, InExchange, GetAccessToken, Lock, Acquire, RecheckHit,
         StartExchange, ClockBeforeEpoch, Mint, Receive, ExpiryOverflows, ExchangeFails,
         CancelQueued, CancelExchange, Return
  <2> QED
    BY <2>1, <2>2, <2>3, <2>4 DEF Next
<1> QED
  BY <1>1, Invariance, PTL DEF Spec, FreshOnlyAges

-----------------------------------------------------------------------------
(***************************************************************************)
(* The provider at work, for any number of tasks, any window and batch,    *)
(* and any skew and timeout: which requests cannot carry an expired token, *)
(* that the calls use the token cache as FcmAuth says, and how long a send *)
(* may take.                                                               *)
(***************************************************************************)

Request == [at : {"waiting", "flight", "answered", "unauthorized", "lost"},
            age : 0 .. Timeout]

JobOk(j) ==
    /\ j \in [op : {"none", "send", "batch"}, at : {"none", "auth", "sending"},
              tok : Token, yielded : Nat, req : {j.req}, since : Nat]
    /\ j.at # "none" => j.op # "none"
    /\ j.at # "sending" => DOMAIN j.req = {} /\ j.yielded = 0
    /\ j.at = "sending" => /\ j.req \in [1 .. Size(j.op) -> Request]
                           /\ j.yielded <= Size(j.op)

(* How long after the token was handed out request i starts, at most.      *)
Due(i) == Wave(i) * Timeout

(* When the token was handed out it had the skew less one timeout to live; *)
(* it has that still, less a span since.                                   *)
Lasts(j, span) == j.tok.live + Timeout + span >= Skew + 1

(* How far the token of a job may have aged, told from each request: by    *)
(* Due when it can start, by its age more while it is in flight, by a      *)
(* timeout more until it is yielded.                                       *)
Covered(j, i) ==
    /\ j.tok.life > Skew =>
          /\ j.req[i].at = "waiting" /\ i <= j.yielded + Window => Lasts(j, Due(i))
          /\ j.req[i].at = "flight" => Lasts(j, Due(i) + j.req[i].age)
          /\ j.req[i].at \notin {"waiting", "flight"} /\ i > j.yielded
                => Lasts(j, Due(i) + Timeout)
    /\ j.req[i].at = "unauthorized" /\ (Wave(i) + 2) * Timeout <= Skew
          => j.tok.revoked \/ j.tok.life <= Skew

JobInv(j) == JobOk(j) /\ \A i \in DOMAIN j.req : Covered(j, i)

(* A token just handed out has its margin: no time passes before it is used. *)
ReadyInv ==
    \A t \in Tasks :
       pc[t] = "ready" => tok[t].live + Timeout >= Lesser(tok[t].life, Skew + 1)

SendIInv ==
    /\ IInv /\ ReadyInv
    /\ job = [t \in Tasks |-> job[t]]
    /\ \A t \in Tasks : JobInv(job[t])

-----------------------------------------------------------------------------
LEMMA WaveFacts ==
    ASSUME NEW i \in Nat \ {0}
    PROVE  /\ Wave(i) \in Nat
           /\ Wave(i + Window) = Wave(i) + 1
           /\ \A j \in Nat \ {0} : j <= i => Wave(j) <= Wave(i)
<1>1. Wave(i) \in Nat
  BY BatchAssumption DEF Wave
<1>2. Wave(i + Window) = Wave(i) + 1
  BY BatchAssumption DEF Wave
<1>3. ASSUME NEW j \in Nat \ {0}, j <= i PROVE Wave(j) <= Wave(i)
  BY BatchAssumption, <1>3 DEF Wave
<1> QED
  BY <1>1, <1>2, <1>3

LEMMA DueFacts ==
    ASSUME NEW i \in Nat \ {0}
    PROVE  /\ Due(i) \in Nat
           /\ (Wave(i) + 2) * Timeout = Due(i) + Timeout + Timeout
           /\ Due(i + Window) = Due(i) + Timeout
           /\ \A j \in Nat \ {0} : j <= i => Due(j) <= Due(i)
<1> USE DurationAssumption
<1>1. Wave(i) \in Nat /\ Wave(i + Window) = Wave(i) + 1
  BY WaveFacts
<1>2. ASSUME NEW j \in Nat \ {0}, j <= i PROVE Due(j) <= Due(i)
  <2>1. Wave(j) \in Nat /\ Wave(j) <= Wave(i)
    BY <1>2, WaveFacts
  <2> QED
    BY <1>1, <2>1 DEF Due
<1>3. Due(i) \in Nat /\ (Wave(i) + 2) * Timeout = Due(i) + Timeout + Timeout
  BY <1>1 DEF Due
<1>4. Due(i + Window) = Due(i) + Timeout
  BY <1>1 DEF Due
<1> QED
  BY <1>2, <1>3, <1>4

LEMMA SizeType ==
    ASSUME NEW op
    PROVE  Size(op) \in Nat \ {0} /\ Size(op) <= BatchSize
BY BatchAssumption DEF Size

(* The requests of a job are counted from 1.                               *)
LEMMA RequestsOf ==
    ASSUME NEW j, JobOk(j), NEW i \in DOMAIN j.req
    PROVE  /\ j.at = "sending" /\ i \in 1 .. Size(j.op) /\ i \in Nat \ {0}
           /\ j.req[i] \in Request
BY SizeType DEF JobOk

-----------------------------------------------------------------------------
(* Each step of a job keeps what its requests tell of the token.           *)
LEMMA PostKeeps ==
    ASSUME NEW j, JobInv(j), NEW k,
           k = [j EXCEPT !.req =
                   [i \in DOMAIN j.req |->
                       IF j.req[i].at = "waiting" /\ i <= j.yielded + Window
                       THEN [at |-> "flight", age |-> 0] ELSE j.req[i]]]
    PROVE  JobInv(k)
<1>1. JobOk(j) /\ \A i \in DOMAIN j.req : Covered(j, i)
  BY DEF JobInv
<1>2. /\ k.op = j.op /\ k.at = j.at /\ k.tok = j.tok /\ k.yielded = j.yielded
      /\ k.since = j.since /\ DOMAIN k.req = DOMAIN j.req
      /\ \A i \in DOMAIN j.req :
            k.req[i] = IF j.req[i].at = "waiting" /\ i <= j.yielded + Window
                       THEN [at |-> "flight", age |-> 0] ELSE j.req[i]
  BY <1>1 DEF JobOk
<1>3. JobOk(k)
  <2>1. k \in [op : {"none", "send", "batch"}, at : {"none", "auth", "sending"},
               tok : Token, yielded : Nat, req : {k.req}, since : Nat]
    BY <1>1, <1>2 DEF JobOk
  <2>2. ASSUME j.at = "sending" PROVE k.req \in [1 .. Size(k.op) -> Request]
    <3>1. [at |-> "flight", age |-> 0] \in Request
      BY DurationAssumption DEF Request
    <3>2. j.req \in [1 .. Size(j.op) -> Request]
      BY <1>1, <2>2 DEF JobOk
    <3> QED
      BY <1>1, <1>2, <3>1, <3>2 DEF JobOk
  <2> QED
    BY <1>1, <1>2, <2>1, <2>2 DEF JobOk
<1>4. ASSUME NEW i \in DOMAIN j.req PROVE Covered(k, i)
  <2>1. Covered(j, i) /\ Due(i) \in Nat /\ j.tok.live \in Nat
    BY <1>1, RequestsOf, DueFacts DEF JobOk, Token
  <2> QED
    BY <1>2, <2>1 DEF Covered, Lasts
<1> QED
  BY <1>2, <1>3, <1>4 DEF JobInv

(* The request is over.  It is refused for an expired token only if it     *)
(* started so late that the skew does not cover it.                        *)
LEMMA EndKeeps ==
    ASSUME NEW j, JobInv(j), NEW k, NEW i \in DOMAIN j.req, j.req[i].at = "flight",
           NEW end \in {"answered", "unauthorized", "lost"},
           end = "unauthorized" => j.tok.live = 0 \/ j.tok.revoked,
           k = [j EXCEPT !.req[i] = [at |-> end, age |-> 0]]
    PROVE  JobInv(k)
<1>1. JobOk(j) /\ \A n \in DOMAIN j.req : Covered(j, n)
  BY DEF JobInv
<1>2. /\ k.op = j.op /\ k.at = j.at /\ k.tok = j.tok /\ k.yielded = j.yielded
      /\ k.since = j.since /\ k.req = [j.req EXCEPT ![i] = [at |-> end, age |-> 0]]
  BY <1>1 DEF JobOk
<1>3. /\ j.at = "sending" /\ j.req \in [1 .. Size(j.op) -> Request]
      /\ \A n \in DOMAIN j.req : n \in Nat \ {0} /\ j.req[n] \in Request
  BY <1>1, RequestsOf DEF JobOk
<1>4. /\ DOMAIN k.req = DOMAIN j.req /\ k.req[i] = [at |-> end, age |-> 0]
      /\ \A n \in DOMAIN j.req : n # i => k.req[n] = j.req[n]
  BY <1>2, <1>3
<1>5. JobOk(k)
  <2>1. k \in [op : {"none", "send", "batch"}, at : {"none", "auth", "sending"},
               tok : Token, yielded : Nat, req : {k.req}, since : Nat]
    BY <1>1, <1>2 DEF JobOk
  <2>2. [at |-> end, age |-> 0] \in Request
    BY DurationAssumption DEF Request
  <2>3. k.req \in [1 .. Size(k.op) -> Request]
    <3>1. ASSUME NEW S, NEW f \in [S -> Request], NEW x \in Request
          PROVE  [f EXCEPT ![i] = x] \in [S -> Request]
      OBVIOUS
    <3>2. [j.req EXCEPT ![i] = [at |-> end, age |-> 0]] \in [1 .. Size(j.op) -> Request]
      BY <1>3, <2>2, <3>1
    <3> QED
      BY <1>2, <3>2
  <2> QED
    BY <1>1, <1>2, <1>3, <2>1, <2>3 DEF JobOk
<1>6. ASSUME NEW n \in DOMAIN j.req, n # i PROVE Covered(k, n)
  BY <1>1, <1>2, <1>4, <1>6 DEF Covered, Lasts
<1>7. Covered(k, i)
  <2>1. /\ Due(i) \in Nat /\ (Wave(i) + 2) * Timeout = Due(i) + Timeout + Timeout
        /\ j.tok.live \in Nat /\ j.tok.life \in Nat
        /\ j.req[i].age \in Nat /\ j.req[i].age <= Timeout
    BY <1>1, <1>3, DueFacts, DurationAssumption DEF JobOk, Token, Request
  <2>2. j.tok.life > Skew => j.tok.live + Timeout + (Due(i) + j.req[i].age) >= Skew + 1
    BY <1>1 DEF Covered, Lasts
  <2>3. j.tok.life > Skew => j.tok.live + Timeout + (Due(i) + Timeout) >= Skew + 1
    BY <2>1, <2>2, DurationAssumption
  <2>4. end = "unauthorized" /\ (Wave(i) + 2) * Timeout <= Skew
           => j.tok.revoked \/ j.tok.life <= Skew
    BY <2>1, <2>3, DurationAssumption
  <2> QED
    BY <1>2, <1>4, <2>3, <2>4 DEF Covered, Lasts
<1> QED
  BY <1>4, <1>5, <1>6, <1>7 DEF JobInv

(* The head is yielded: the window moves on to a request one wave later.   *)
LEMMA YieldKeeps ==
    ASSUME NEW j, JobInv(j), NEW k,
           j.yielded + 1 \in DOMAIN j.req,
           j.req[j.yielded + 1].at \notin {"waiting", "flight"},
           k = [j EXCEPT !.yielded = @ + 1]
    PROVE  JobInv(k)
<1> DEFINE h == j.yielded + 1
<1>1. JobOk(j) /\ \A n \in DOMAIN j.req : Covered(j, n)
  BY DEF JobInv
<1>2. /\ k.op = j.op /\ k.at = j.at /\ k.tok = j.tok /\ k.yielded = h
      /\ k.since = j.since /\ k.req = j.req
  BY <1>1 DEF JobOk
<1>3. /\ j.at = "sending" /\ h \in 1 .. Size(j.op) /\ h \in Nat \ {0}
      /\ \A n \in DOMAIN j.req : n \in Nat \ {0}
      /\ j.yielded \in Nat /\ j.tok.live \in Nat
  BY <1>1, RequestsOf DEF JobOk, Token
<1>4. JobOk(k)
  <2>1. k \in [op : {"none", "send", "batch"}, at : {"none", "auth", "sending"},
               tok : Token, yielded : Nat, req : {k.req}, since : Nat]
    BY <1>1, <1>2, <1>3 DEF JobOk
  <2> QED
    BY <1>1, <1>2, <1>3, <2>1, SizeType DEF JobOk
<1>5. ASSUME NEW n \in DOMAIN j.req PROVE Covered(k, n)
  <2>1. Covered(j, n) /\ Covered(j, h)
    BY <1>1
  <2>2. j.tok.life > Skew => Lasts(j, Due(h) + Timeout)
    BY <1>3, <2>1 DEF Covered
  <2>3. n <= j.yielded + Window \/ n > h + Window \/ n = h + Window
    BY <1>3, BatchAssumption
  <2>4. n = h + Window => Due(n) = Due(h) + Timeout
    BY <1>3, DueFacts
  <2>5. k.tok.life > Skew /\ k.req[n].at = "waiting" /\ n <= k.yielded + Window
           => Lasts(k, Due(n))
    <3>1. CASE n <= j.yielded + Window
      BY <1>2, <2>1, <3>1 DEF Covered, Lasts
    <3>2. CASE n > h + Window
      BY <1>2, <1>3, <3>2, BatchAssumption
    <3>3. CASE n = h + Window
      BY <1>2, <2>2, <2>4, <3>3 DEF Lasts
    <3> QED
      BY <2>3, <3>1, <3>2, <3>3
  <2>6. n > k.yielded => n > j.yielded
    BY <1>2, <1>3
  <2> HIDE DEF h
  <2> QED
    BY <1>2, <2>1, <2>5, <2>6 DEF Covered, Lasts
<1> QED
  BY <1>2, <1>4, <1>5 DEF JobInv

(* One unit of time.  It passes only while the head of the window is in    *)
(* flight, and so within the span of every request behind it.              *)
LEMMA OlderKeeps ==
    ASSUME NEW j, JobInv(j),
           j.at = "sending" => j.yielded # Size(j.op),
           \A i \in DOMAIN j.req :
              ~(j.req[i].at = "waiting" /\ i <= j.yielded + Window),
           j.yielded + 1 \in DOMAIN j.req
              => j.req[j.yielded + 1].at \in {"waiting", "flight"},
           \A i \in DOMAIN j.req : j.req[i].at = "flight" => j.req[i].age < Timeout
    PROVE  JobInv(OlderJob(j))
<1> DEFINE k == OlderJob(j)
           h == j.yielded + 1
<1>1. JobOk(j) /\ \A n \in DOMAIN j.req : Covered(j, n)
  BY DEF JobInv
<1>2. CASE j = NoJob
  BY <1>2 DEF OlderJob
<1>3. CASE j # NoJob
  <2>1. /\ k.op = j.op /\ k.at = j.at /\ k.tok = Older(j.tok) /\ k.yielded = j.yielded
        /\ k.since = j.since + 1 /\ DOMAIN k.req = DOMAIN j.req
        /\ \A n \in DOMAIN j.req :
              k.req[n] = IF j.req[n].at = "flight"
                         THEN [j.req[n] EXCEPT !.age = @ + 1] ELSE j.req[n]
    BY <1>1, <1>3 DEF OlderJob, JobOk
  <2>2. /\ k.tok \in Token /\ k.tok.life = j.tok.life /\ k.tok.revoked = j.tok.revoked
        /\ k.tok.live \in Nat /\ j.tok.live \in Nat /\ j.tok.live <= k.tok.live + 1
    BY <1>1, <2>1, OlderToken, MonusOne DEF JobOk, Token, Older
  <2>3. ASSUME NEW n \in DOMAIN j.req
        PROVE  /\ k.req[n] \in Request /\ k.req[n].at = j.req[n].at
               /\ j.req[n].at = "flight" => k.req[n].age = j.req[n].age + 1
               /\ j.req[n].age \in Nat /\ n \in Nat \ {0} /\ Due(n) \in Nat
               /\ n \in 1 .. Size(j.op)
    <3>1. /\ n \in Nat \ {0} /\ n \in 1 .. Size(j.op) /\ j.req[n] \in Request
          /\ Due(n) \in Nat
      BY <1>1, RequestsOf, DueFacts
    <3>2. /\ k.req[n] = IF j.req[n].at = "flight"
                        THEN [j.req[n] EXCEPT !.age = @ + 1] ELSE j.req[n]
          /\ j.req[n].at = "flight" => j.req[n].age < Timeout
      BY <2>1
    <3> HIDE DEF k
    <3>3. \A r \in Request : r.age < Timeout => [r EXCEPT !.age = @ + 1] \in Request
      BY DurationAssumption DEF Request
    <3>4. /\ \A r \in Request : [r EXCEPT !.age = @ + 1].at = r.at
          /\ \A r \in Request : [r EXCEPT !.age = @ + 1].age = r.age + 1
          /\ \A r \in Request : r.age \in Nat
      BY DurationAssumption DEF Request
    <3> QED
      BY <3>1, <3>2, <3>3, <3>4
  <2>4. k \in [op : {"none", "send", "batch"}, at : {"none", "auth", "sending"},
               tok : Token, yielded : Nat, req : {k.req}, since : Nat]
    <3>1. k = [op |-> j.op, at |-> j.at, tok |-> Older(j.tok), yielded |-> j.yielded,
               req |-> k.req, since |-> j.since + 1]
      BY <1>1, <1>3 DEF OlderJob, JobOk
    <3>2. j.since + 1 \in Nat /\ Older(j.tok) \in Token
      BY <1>1, <2>1, <2>2 DEF JobOk
    <3> HIDE DEF k
    <3> QED
      BY <1>1, <3>1, <3>2 DEF JobOk
  <2>5. k.req = [n \in DOMAIN j.req |->
                    IF j.req[n].at = "flight"
                    THEN [j.req[n] EXCEPT !.age = @ + 1] ELSE j.req[n]]
    BY <1>1, <1>3 DEF OlderJob, JobOk
  <2> HIDE DEF k
  <2>6. j.at = "sending" => k.req \in [1 .. Size(k.op) -> Request]
    <3>1. j.at = "sending" => DOMAIN j.req = 1 .. Size(j.op)
      BY <1>1 DEF JobOk
    <3> QED
      BY <2>1, <2>3, <2>5, <3>1
  <2>7. JobOk(k)
    BY <1>1, <2>1, <2>4, <2>6 DEF JobOk
  <2>8. ASSUME NEW n \in DOMAIN j.req PROVE Covered(k, n)
    <3>1. j.at = "sending" /\ j.yielded \in Nat /\ j.yielded < Size(j.op)
      BY <1>1, RequestsOf, SizeType DEF JobOk
    <3>2. h \in DOMAIN j.req
      BY <1>1, <3>1, SizeType DEF JobOk
    <3>3. j.req[h].at = "flight"
      BY <3>1, <3>2, BatchAssumption
    <3>4. /\ Covered(j, n) /\ Covered(j, h)
          /\ j.req[h].age \in Nat /\ j.req[h].age < Timeout /\ Due(h) \in Nat
      BY <1>1, <2>3, <3>2, <3>3
    <3>5. j.req[n].at = "flight" /\ k.tok.life > Skew
             => Lasts(k, Due(n) + k.req[n].age)
      BY <2>2, <2>3, <3>4, DurationAssumption DEF Covered, Lasts
    <3>6. n > j.yielded /\ k.tok.life > Skew => Lasts(k, Due(n) + Timeout)
      <4>1. n > j.yielded => Due(h) <= Due(n)
        BY <2>3, <3>1, <3>2, DueFacts
      <4>2. k.tok.life > Skew
               => j.tok.live + Timeout + (Due(h) + j.req[h].age) >= Skew + 1
        BY <2>2, <3>3, <3>4 DEF Covered, Lasts
      <4> QED
        BY <2>2, <2>3, <3>4, <4>1, <4>2, DurationAssumption DEF Lasts
    <3>7. ~(k.req[n].at = "waiting" /\ n <= k.yielded + Window)
      BY <2>1, <2>3
    <3>8. j.req[n].at = "unauthorized" /\ (Wave(n) + 2) * Timeout <= Skew
             => j.tok.revoked \/ j.tok.life <= Skew
      BY <3>4 DEF Covered
    <3> QED
      BY <2>1, <2>2, <2>3, <3>5, <3>6, <3>7, <3>8 DEF Covered
  <2> QED
    BY <2>1, <2>7, <2>8 DEF JobInv, k
<1> QED
  BY <1>2, <1>3

LEMMA RevokeKeeps ==
    ASSUME NEW j, JobInv(j), NEW k, k = [j EXCEPT !.tok = Revoked(@)]
    PROVE  JobInv(k)
<1>1. JobOk(j) /\ \A n \in DOMAIN j.req : Covered(j, n)
  BY DEF JobInv
<1>2. /\ k.op = j.op /\ k.at = j.at /\ k.tok = Revoked(j.tok) /\ k.yielded = j.yielded
      /\ k.since = j.since /\ k.req = j.req
  BY <1>1 DEF JobOk
<1>3. /\ k.tok \in Token /\ k.tok.life = j.tok.life /\ k.tok.live = j.tok.live
      /\ k.tok.revoked
  BY <1>1, <1>2, RevokedToken DEF JobOk, Token, Revoked
<1>4. k \in [op : {"none", "send", "batch"}, at : {"none", "auth", "sending"},
             tok : Token, yielded : Nat, req : {k.req}, since : Nat]
  BY <1>1, <1>2, <1>3 DEF JobOk
<1>5. JobOk(k)
  BY <1>1, <1>2, <1>3, <1>4 DEF JobOk
<1> QED
  BY <1>1, <1>2, <1>3, <1>5 DEF JobInv, Covered, Lasts

LEMMA NoJobKeeps == JobInv(NoJob)
<1>1. DOMAIN NoJob.req = {}
  BY DEF NoJob
<1>2. JobOk(NoJob)
  BY NoTokenType DEF NoJob, JobOk
<1> QED
  BY <1>1, <1>2 DEF JobInv

LEMMA CallKeeps ==
    ASSUME NEW op \in {"send", "batch"}
    PROVE  JobInv([NoJob EXCEPT !.op = op, !.at = "auth"])
<1> DEFINE k == [NoJob EXCEPT !.op = op, !.at = "auth"]
<1>1. JobOk(NoJob)
  BY NoJobKeeps DEF JobInv
<1>2. /\ k.op = op /\ k.at = "auth" /\ k.tok = NoJob.tok /\ k.yielded = NoJob.yielded
      /\ k.since = NoJob.since /\ k.req = NoJob.req
  BY <1>1 DEF JobOk
<1>3. NoJob.yielded = 0 /\ DOMAIN NoJob.req = {}
  BY DEF NoJob
<1>4. k \in [op : {"none", "send", "batch"}, at : {"none", "auth", "sending"},
             tok : Token, yielded : Nat, req : {k.req}, since : Nat]
  BY <1>1, <1>2 DEF JobOk
<1> HIDE DEF k
<1>5. JobOk(k)
  BY <1>2, <1>3, <1>4 DEF JobOk
<1>6. JobInv(k)
  BY <1>2, <1>3, <1>5 DEF JobInv
<1> QED
  BY <1>6 DEF k

(* The first wave starts at once, with the margin of a new token.          *)
LEMMA StartKeeps ==
    ASSUME NEW j, JobInv(j), j.at = "auth", NEW new \in Token,
           new.live + Timeout >= Lesser(new.life, Skew + 1), NEW k,
           k = [j EXCEPT !.at = "sending", !.tok = new,
                         !.req = [i \in 1 .. Size(j.op) |-> NoRequest]]
    PROVE  JobInv(k)
<1>1. JobOk(j)
  BY DEF JobInv
<1>2. /\ k.op = j.op /\ k.at = "sending" /\ k.tok = new /\ k.yielded = 0
      /\ k.since = j.since /\ k.req = [i \in 1 .. Size(j.op) |-> NoRequest]
  BY <1>1 DEF JobOk
<1>3. NoRequest \in Request /\ NoRequest.at = "waiting"
  BY DurationAssumption DEF NoRequest, Request
<1>4. k \in [op : {"none", "send", "batch"}, at : {"none", "auth", "sending"},
             tok : Token, yielded : Nat, req : {k.req}, since : Nat]
  BY <1>1, <1>2 DEF JobOk
<1>5. JobOk(k)
  <2>1. k.req \in [1 .. Size(k.op) -> Request]
    BY <1>2, <1>3
  <2> QED
    BY <1>1, <1>2, <1>4, <2>1, SizeType DEF JobOk
<1>6. ASSUME NEW i \in DOMAIN k.req PROVE Covered(k, i)
  <2>1. i \in Nat \ {0} /\ k.req[i] = NoRequest
    BY <1>2, SizeType
  <2>2. Due(i) \in Nat
    BY <2>1, DueFacts
  <2>3. new.life > Skew => new.live + Timeout >= Skew + 1
    BY DurationAssumption DEF Lesser, Token
  <2> QED
    BY <1>2, <1>3, <2>1, <2>2, <2>3, DurationAssumption DEF Covered, Lasts, Token
<1> QED
  BY <1>5, <1>6 DEF JobInv

-----------------------------------------------------------------------------
(* The calls use the cache as FcmAuth says.                                *)
LEMMA JobRefines ==
    ASSUME NEW t \in Tasks, Job(t)
    PROVE  Task(t) \/ UNCHANGED vars
<1>1. ASSUME NEW op \in {"send", "batch"}, Call(t, op) PROVE Task(t)
  BY <1>1 DEF Call, Task
<1>2. CASE Authenticate(t)
  BY <1>2 DEF Authenticate, Task
<1>3. CASE NotAuthenticated(t)
  BY <1>3 DEF NotAuthenticated, Task
<1>4. CASE StartSending(t)
  BY <1>4 DEF StartSending, Task
<1>5. CASE Post(t) \/ Yield(t) \/ Finish(t) \/ DropCall(t)
  BY <1>5 DEF Post, Yield, Finish, DropCall
<1>6. ASSUME NEW i \in Requests(t), Serve(t, i) \/ Lose(t, i) PROVE UNCHANGED vars
  BY <1>6 DEF Serve, Lose
<1> QED
  BY <1>1, <1>2, <1>3, <1>4, <1>5, <1>6 DEF Job

LEMMA Refines == [SendNext]_sendVars => [Next]_vars
<1> SUFFICES ASSUME [SendNext]_sendVars PROVE [Next]_vars
  OBVIOUS
<1>1. CASE TimePasses \/ TokensRevoked
  BY <1>1 DEF TimePasses, TokensRevoked, Next
<1>2. ASSUME NEW t \in Tasks, Job(t) PROVE [Next]_vars
  BY <1>2, JobRefines DEF Next
<1>3. CASE UNCHANGED sendVars
  BY <1>3 DEF sendVars
<1> QED
  BY <1>1, <1>2, <1>3 DEF SendNext

-----------------------------------------------------------------------------
(* No time passes between the step that hands a token out and its use.     *)
LEMMA NextReady ==
    ASSUME IInv, ReadyInv, [SendNext]_sendVars
    PROVE  ReadyInv'
<1> SUFFICES ASSUME NEW t \in Tasks, pc'[t] = "ready"
             PROVE  tok'[t].live + Timeout >= Lesser(tok'[t].life, Skew + 1)
  BY DEF ReadyInv
<1>1. [Next]_vars
  BY Refines
<1>2. CASE pc[t] # "ready"
  BY <1>1, <1>2, HandOverMargin
<1>3. CASE pc[t] = "ready"
  <2>1. tok[t].live + Timeout >= Lesser(tok[t].life, Skew + 1)
    BY <1>3 DEF ReadyInv
  <2>2. CASE tok'[t] = tok[t]
    BY <2>1, <2>2
  <2>3. CASE Revoke
    <3>1. tok'[t].live = tok[t].live /\ tok'[t].life = tok[t].life
      BY <2>3, RevokedToken DEF Revoke, IInv, TypeOK
    <3> QED
      BY <2>1, <3>1
  <2>4. ~TimePasses
    BY <1>3 DEF TimePasses, CanRun
  <2>5. ASSUME NEW u \in Tasks, Task(u) PROVE tok'[t] = tok[t]
    <3>1. CASE u # t
      BY <2>5, <3>1 DEF Task, GetAccessToken, HandOut, Lock, Acquire, RecheckHit,
         StartExchange, ClockBeforeEpoch, Fail, Mint, Receive, ExpiryOverflows,
         Vanish, ExchangeFails, CancelQueued, CancelExchange, Return, IInv, TypeOK
    <3>2. CASE u = t
      <4>1. Return(t)
        BY <1>3, <2>5, <3>2 DEF Task, GetAccessToken, Lock, Acquire, RecheckHit,
           StartExchange, ClockBeforeEpoch, Mint, Receive, ExpiryOverflows,
           ExchangeFails, CancelQueued, CancelExchange
      <4>2. pc'[t] = "idle"
        BY <4>1 DEF Return, IInv, TypeOK
      <4> QED
        BY <4>2
    <3> QED
      BY <3>1, <3>2
  <2>6. CASE UNCHANGED vars
    BY <2>2, <2>6 DEF vars
  <2>7. CASE TokensRevoked
    BY <2>3, <2>7 DEF TokensRevoked
  <2>8. ASSUME NEW u \in Tasks, Job(u) PROVE tok'[t].live + Timeout >= Lesser(tok'[t].life, Skew + 1)
    BY <2>2, <2>5, <2>6, <2>8, JobRefines
  <2> QED
    BY <2>4, <2>6, <2>7, <2>8 DEF SendNext, sendVars
<1> QED
  BY <1>2, <1>3

-----------------------------------------------------------------------------
(* A step of one job.                                                      *)
LEMMA OneJob ==
    ASSUME SendIInv, NEW t \in Tasks, NEW k, JobInv(k),
           job' = [job EXCEPT ![t] = k]
    PROVE  /\ job' = [u \in Tasks |-> job'[u]]
           /\ \A u \in Tasks : JobInv(job'[u])
<1>1. DOMAIN job = Tasks
  BY DEF SendIInv
<1>2. /\ job' = [u \in Tasks |-> job'[u]]
      /\ job'[t] = k
      /\ \A u \in Tasks : u # t => job'[u] = job[u]
  BY <1>1
<1> QED
  BY <1>2 DEF SendIInv

LEMMA NextJob ==
    ASSUME SendIInv, NEW t \in Tasks, Job(t)
    PROVE  /\ job' = [u \in Tasks |-> job'[u]]
           /\ \A u \in Tasks : JobInv(job'[u])
<1> DEFINE Kept == /\ job' = [u \in Tasks |-> job'[u]]
                   /\ \A u \in Tasks : JobInv(job'[u])
           j == job[t]
<1>1. DOMAIN job = Tasks /\ JobInv(j)
  BY DEF SendIInv
<1> SUFFICES Kept
  OBVIOUS
<1> HIDE DEF Kept
<1>2. ASSUME NEW k, JobInv(k), job' = [job EXCEPT ![t] = k] PROVE Kept
  BY <1>2, OneJob DEF Kept
<1>3. ASSUME NEW op \in {"send", "batch"}, Call(t, op) PROVE Kept
  <2>1. job' = [job EXCEPT ![t] = [j EXCEPT !.op = op, !.at = "auth"]] /\ j = NoJob
    BY <1>1, <1>3 DEF Call
  <2> QED
    BY <1>2, <2>1, CallKeeps
<1>4. CASE Authenticate(t) \/ NotAuthenticated(t) \/ Finish(t) \/ DropCall(t)
  <2>1. UNCHANGED job \/ job' = [job EXCEPT ![t] = NoJob]
    BY <1>4 DEF Authenticate, NotAuthenticated, Finish, DropCall
  <2>2. UNCHANGED job => Kept
    BY DEF Kept, SendIInv
  <2> QED
    BY <1>2, <2>1, <2>2, NoJobKeeps
<1>5. CASE StartSending(t)
  <2> DEFINE k == [j EXCEPT !.at = "sending", !.tok = tok[t],
                            !.req = [i \in 1 .. Size(j.op) |-> NoRequest]]
  <2>1. job' = [job EXCEPT ![t] = k] /\ j.at = "auth" /\ pc[t] = "ready"
    BY <1>1, <1>5 DEF StartSending
  <2>2. /\ tok[t] \in Token
        /\ tok[t].live + Timeout >= Lesser(tok[t].life, Skew + 1)
    BY <2>1 DEF SendIInv, IInv, TypeOK, ReadyInv
  <2>3. JobInv(k)
    BY <1>1, <2>1, <2>2, StartKeeps
  <2> HIDE DEF k
  <2> QED
    BY <1>2, <2>1, <2>3
<1>6. CASE Post(t)
  <2> DEFINE k == [j EXCEPT !.req =
                      [i \in DOMAIN j.req |->
                          IF j.req[i].at = "waiting" /\ i <= j.yielded + Window
                          THEN [at |-> "flight", age |-> 0] ELSE j.req[i]]]
  <2>1. \A i \in DOMAIN j.req :
           i \in Pullable(t) <=> j.req[i].at = "waiting" /\ i <= j.yielded + Window
    BY DEF Pullable, Requests
  <2>2. [i \in Requests(t) |-> IF i \in Pullable(t) THEN [at |-> "flight", age |-> 0]
                                                    ELSE job[t].req[i]]
        = [i \in DOMAIN j.req |->
              IF j.req[i].at = "waiting" /\ i <= j.yielded + Window
              THEN [at |-> "flight", age |-> 0] ELSE j.req[i]]
    BY <2>1 DEF Requests
  <2>3. job' = [job EXCEPT ![t] = k]
    BY <1>1, <1>6, <2>2 DEF Post
  <2>4. JobInv(k)
    BY <1>1, PostKeeps
  <2> HIDE DEF k
  <2> QED
    BY <1>2, <2>3, <2>4
<1>7. ASSUME NEW i \in Requests(t), Serve(t, i) \/ Lose(t, i) PROVE Kept
  <2>1. PICK end \in {"answered", "unauthorized", "lost"} :
           /\ job' = [job EXCEPT ![t].req[i] = [at |-> end, age |-> 0]]
           /\ end = "unauthorized" => ~(j.tok.live > 0) \/ j.tok.revoked
    BY <1>7 DEF Serve, Lose
  <2> DEFINE k == [j EXCEPT !.req[i] = [at |-> end, age |-> 0]]
  <2>2. job' = [job EXCEPT ![t] = k]
    BY <1>1, <2>1
  <2>3. i \in DOMAIN j.req /\ j.req[i].at = "flight"
    BY <1>7 DEF Serve, Lose, InFlight, Requests
  <2>4. end = "unauthorized" => j.tok.live = 0 \/ j.tok.revoked
    BY <1>1, <2>1 DEF JobInv, JobOk, Token
  <2>5. JobInv(k)
    BY <1>1, <2>3, <2>4, EndKeeps
  <2> HIDE DEF k
  <2> QED
    BY <1>2, <2>2, <2>5
<1>8. CASE Yield(t)
  <2> DEFINE k == [j EXCEPT !.yielded = @ + 1]
  <2>1. /\ j.yielded + 1 \in DOMAIN j.req
        /\ j.req[j.yielded + 1].at \notin {"waiting", "flight"}
        /\ job' = [job EXCEPT ![t] = k]
    BY <1>1, <1>8 DEF Yield, Yieldable, Requests
  <2>2. JobInv(k)
    BY <1>1, <2>1, YieldKeeps
  <2> HIDE DEF k
  <2> QED
    BY <1>2, <2>1, <2>2
<1> QED
  BY <1>3, <1>4, <1>5, <1>6, <1>7, <1>8 DEF Job

LEMMA NextSendIInv == SendIInv /\ [SendNext]_sendVars => SendIInv'
<1> SUFFICES ASSUME SendIInv, [SendNext]_sendVars PROVE SendIInv'
  OBVIOUS
<1>1. IInv' /\ ReadyInv'
  <2>1. IInv'
    BY Refines, NextIInv DEF SendIInv
  <2> QED
    BY <2>1, NextReady DEF SendIInv
<1>2. /\ job' = [t \in Tasks |-> job'[t]]
      /\ \A t \in Tasks : JobInv(job'[t])
  <2>1. CASE TimePasses
    <3>1. job' = [t \in Tasks |-> OlderJob(job[t])]
      BY <2>1 DEF TimePasses
    <3>2. ASSUME NEW t \in Tasks PROVE JobInv(OlderJob(job[t]))
      BY <2>1, OlderKeeps DEF TimePasses, CanRun, Pullable, Yieldable, InFlight,
         Requests, SendIInv
    <3> QED
      BY <3>1, <3>2
  <2>2. CASE TokensRevoked
    <3>1. job' = [t \in Tasks |-> IF job[t].tok = NoToken THEN job[t]
                                  ELSE [job[t] EXCEPT !.tok = Revoked(@)]]
      BY <2>2 DEF TokensRevoked
    <3>2. ASSUME NEW t \in Tasks
          PROVE  JobInv(job[t]) /\ JobInv([job[t] EXCEPT !.tok = Revoked(@)])
      BY RevokeKeeps DEF SendIInv
    <3> QED
      BY <3>1, <3>2
  <2>3. ASSUME NEW t \in Tasks, Job(t)
        PROVE  /\ job' = [u \in Tasks |-> job'[u]]
               /\ \A u \in Tasks : JobInv(job'[u])
    BY <2>3, NextJob
  <2>4. CASE UNCHANGED sendVars
    BY <2>4 DEF sendVars, SendIInv
  <2> QED
    BY <2>1, <2>2, <2>3, <2>4 DEF SendNext
<1> QED
  BY <1>1, <1>2 DEF SendIInv

LEMMA InitSendIInv == SendInit => SendIInv
<1> SUFFICES ASSUME SendInit PROVE SendIInv
  OBVIOUS
<1>1. IInv
  BY InitIInv DEF SendInit
<1>2. ReadyInv
  BY DEF SendInit, Init, ReadyInv
<1>3. /\ job = [t \in Tasks |-> job[t]]
      /\ \A t \in Tasks : JobInv(job[t])
  BY NoJobKeeps DEF SendInit
<1> QED
  BY <1>1, <1>2, <1>3 DEF SendIInv

LEMMA SendInvariance == SendSpec => []SendIInv
BY InitSendIInv, NextSendIInv, PTL DEF SendSpec

-----------------------------------------------------------------------------
(* Every reachable state of the calls is well formed: no request outlives  *)
(* its timeout, no batch yields more results than it has requests.         *)
THEOREM SendTypeCorrect == SendSpec => []SendTypeOK
<1>1. SendIInv => SendTypeOK
  <2> SUFFICES ASSUME SendIInv PROVE SendTypeOK
    OBVIOUS
  <2>1. TypeOK
    BY DEF SendIInv, IInv
  <2>2. ASSUME NEW t \in Tasks
        PROVE  /\ job[t].op \in {"none", "send", "batch"}
               /\ job[t].at \in {"none", "auth", "sending"}
               /\ job[t].tok \in [life : Nat, live : Nat, revoked : BOOLEAN]
               /\ job[t].yielded \in 0 .. BatchSize
               /\ \A i \in Requests(t) : job[t].req[i].age \in 0 .. Timeout
    <3>1. JobOk(job[t])
      BY DEF SendIInv, JobInv
    <3>2. \A i \in Requests(t) : job[t].req[i].age \in 0 .. Timeout
      BY <3>1, RequestsOf DEF Requests, Request
    <3>3. job[t].yielded \in 0 .. BatchSize
      BY <3>1, SizeType, BatchAssumption DEF JobOk
    <3> QED
      BY <3>1, <3>2, <3>3 DEF JobOk, Token
  <2> QED
    BY <2>1, <2>2 DEF SendTypeOK
<1> QED
  BY SendInvariance, <1>1, PTL

(* A request covered by the skew is never refused for an expired token:    *)
(* the first wave whenever the skew is two timeouts, as the code's         *)
(* constants have it, and each further wave for one timeout more.          *)
THEOREM ExpiredTokensCovered == SendSpec => []NoExpiredTokenSent
<1>1. SendIInv => NoExpiredTokenSent
  BY DEF SendIInv, JobInv, Covered, NoExpiredTokenSent, Requests
<1> QED
  BY SendInvariance, <1>1, PTL

(* The composition is built so that each step of a call is a step of the   *)
(* token cache or leaves it alone: what is proved of the cache holds under *)
(* the calls.                                                              *)
LEMMA SendSpecIsSpec == SendSpec => Spec
<1>1. SendInit => Init
  BY DEF SendInit
<1> QED
  BY <1>1, Refines, PTL DEF SendSpec, Spec

-----------------------------------------------------------------------------
(***************************************************************************)
(* The second half is about time: how long a send may wait for the lock    *)
(* and for the answers.  It needs what the queue of the lock looks like.   *)
(***************************************************************************)

(* The tasks that wait for the lock stand in a line: each is ahead of the  *)
(* other or behind it, and who is ahead of a task is so with all that are  *)
(* ahead of itself.                                                        *)
QueueInv ==
    \A t \in Tasks :
       /\ ahead[t] \subseteq Queued \ {t}
       /\ pc[t] # "queued" => ahead[t] = {}
       /\ \A u \in Tasks :
             /\ u \in ahead[t] => ahead[u] \subseteq ahead[t]
             /\ t \in Queued /\ u \in Queued => t = u \/ t \in ahead[u] \/ u \in ahead[t]

(* A task is in get_access_token exactly while its job is at auth.         *)
CallOk(t) ==
    /\ job[t].at = "auth" <=> pc[t] # "idle"
    /\ job[t].at = "none" => job[t] = NoJob

(* What a task at the end of the queue may have to wait for: an exchange   *)
(* of every other task.                                                    *)
Others == (Cardinality(Tasks) - 1) * Timeout

(* What t may still have to wait for: the rest of the exchange that runs   *)
(* and a whole one of every task ahead of it.                              *)
HolderLeft == IF holder = NoTask THEN 0 ELSE Timeout - age[holder]

Rest(t) == Cardinality(ahead[t]) * Timeout + HolderLeft

(* What the request of a send has taken, at most. *)
Taken(r) == IF r.at = "waiting" THEN 0 ELSE IF r.at = "flight" THEN r.age ELSE Timeout

(* The time a send has spent, told from where it is. *)
InTime(t) ==
    job[t].op = "send" =>
       /\ pc[t] = "lock" => job[t].since = 0
       /\ pc[t] = "queued" => job[t].since + Rest(t) <= Others
       /\ pc[t] \in {"recheck", "exchange", "minted"} => job[t].since <= Others + age[t]
       /\ pc[t] \in {"ready", "failed"} => job[t].since <= Others + Timeout
       /\ job[t].at = "sending" =>
             job[t].since <= Others + Timeout + Taken(job[t].req[1])

TimeInv == QueueInv /\ \A t \in Tasks : CallOk(t) /\ InTime(t)

-----------------------------------------------------------------------------
(* Counting tasks and timeouts.                                            *)
LEMMA TimesFacts ==
    ASSUME NEW a \in Nat, NEW b \in Nat
    PROVE  /\ a * Timeout \in Nat
           /\ (a + 1) * Timeout = a * Timeout + Timeout
           /\ a <= b => a * Timeout <= b * Timeout
<1> USE DurationAssumption
<1>1. a * Timeout \in Nat /\ (a + 1) * Timeout = a * Timeout + Timeout
  OBVIOUS
<1>2. ASSUME a <= b PROVE a * Timeout <= b * Timeout
  <2>1. PICK d \in Nat : b = a + d
    BY <1>2
  <2>2. b * Timeout = a * Timeout + d * Timeout /\ d * Timeout \in Nat
    BY <2>1
  <2> QED
    BY <1>1, <2>2
<1> QED
  BY <1>1, <1>2

LEMMA SomeTasks ==
    ASSUME NEW S \in SUBSET Tasks
    PROVE  /\ IsFiniteSet(S) /\ Cardinality(S) \in Nat
           /\ \A t \in Tasks \ S : Cardinality(S) + 1 <= Cardinality(Tasks)
           /\ \A t, u \in Tasks \ S : t # u => Cardinality(S) + 2 <= Cardinality(Tasks)
<1>1. IsFiniteSet(S)
  BY SizeAssumption, FS_Subset
<1>2. Cardinality(S) \in Nat /\ Cardinality(Tasks) \in Nat
  BY <1>1, SizeAssumption, FS_CardinalityType
<1>3. ASSUME NEW t \in Tasks \ S
      PROVE  /\ IsFiniteSet(S \cup {t})
             /\ Cardinality(S \cup {t}) = Cardinality(S) + 1
             /\ Cardinality(S \cup {t}) <= Cardinality(Tasks)
  <2>1. IsFiniteSet(S \cup {t}) /\ Cardinality(S \cup {t}) = Cardinality(S) + 1
    BY <1>1, <1>3, FS_AddElement
  <2>2. S \cup {t} \in SUBSET Tasks
    BY <1>3
  <2> QED
    BY <2>1, <2>2, SizeAssumption, FS_Subset
<1>4. ASSUME NEW t \in Tasks \ S, NEW u \in Tasks \ S, t # u
      PROVE  Cardinality(S) + 2 <= Cardinality(Tasks)
  <2> DEFINE Two == (S \cup {t}) \cup {u}
  <2>1. Cardinality(Two) = Cardinality(S) + 1 + 1
    <3>1. /\ IsFiniteSet(S \cup {t}) /\ u \notin S \cup {t}
          /\ Cardinality(S \cup {t}) = Cardinality(S) + 1
      BY <1>3, <1>4
    <3> QED
      BY <3>1, FS_AddElement
  <2>2. Two \in SUBSET Tasks
    BY <1>4
  <2>3. Cardinality(Two) <= Cardinality(Tasks)
    BY <2>2, SizeAssumption, FS_Subset
  <2> HIDE DEF Two
  <2> QED
    BY <1>2, <2>1, <2>3
<1> QED
  BY <1>1, <1>2, <1>3, <1>4

LEMMA OthersFacts ==
    ASSUME NEW t \in Tasks
    PROVE  /\ Others \in Nat
           /\ (Cardinality(Tasks) + 1) * Timeout = Others + Timeout + Timeout
<1>1. {} \in SUBSET Tasks /\ Cardinality({}) = 0
  BY FS_EmptySet
<1>2. Cardinality(Tasks) \in Nat /\ 1 <= Cardinality(Tasks)
  BY <1>1, SomeTasks, SizeAssumption, FS_CardinalityType
<1>3. PICK k \in Nat : Cardinality(Tasks) = k + 1
  BY <1>2
<1>4. Others = k * Timeout
  BY <1>3 DEF Others
<1>5. (k + 1) * Timeout = k * Timeout + Timeout /\ k * Timeout \in Nat
  BY TimesFacts
<1>6. ((k + 1) + 1) * Timeout = (k + 1) * Timeout + Timeout
  BY TimesFacts
<1> QED
  BY <1>3, <1>4, <1>5, <1>6

-----------------------------------------------------------------------------
(* The queue of the lock: someone stands at its head.                      *)
LEMMA QueueHead ==
    ASSUME QueueInv, TypeOK, NEW t \in Queued
    PROVE  \E u \in Queued : ahead[u] = {}
<1> DEFINE Lines == {ahead[u] : u \in Queued}
           R == StrictSubsetOrdering(Tasks)
<1>1. IsWellFoundedOn(R, SUBSET Tasks)
  BY SizeAssumption, FS_StrictSubsetOrderingWellFounded, FS_FiniteSubsetsOfFinite
<1>2. Lines \subseteq SUBSET Tasks /\ Lines # {}
  BY DEF TypeOK, Queued
<1> HIDE DEF R
<1>3. PICK s \in Lines : \A r \in Lines : ~(<<r, s>> \in R)
  BY <1>1, <1>2, WFMin
<1>4. PICK u \in Queued : s = ahead[u]
  BY <1>3
<1>5. ASSUME NEW v \in ahead[u] PROVE FALSE
  <2>1. v \in Queued /\ u \in Tasks /\ v \in Tasks
    BY <1>5 DEF QueueInv, Queued
  <2>2. ahead[v] \subseteq ahead[u] /\ v \notin ahead[v]
    BY <1>5, <2>1 DEF QueueInv
  <2>3. ahead[v] \in Lines /\ ahead[v] # ahead[u]
    BY <1>5, <2>1, <2>2
  <2>4. <<ahead[v], s>> \in R
    BY <1>2, <1>4, <2>2, <2>3 DEF R, StrictSubsetOrdering
  <2> QED
    BY <1>3, <2>3, <2>4
<1> QED
  BY <1>4, <1>5

LEMMA NextQueue ==
    ASSUME IInv, QueueInv, [Next]_vars
    PROVE  QueueInv'
<1> USE DEF IInv, TypeOK, QueueInv, Queued
<1>1. CASE Tick \/ Revoke \/ UNCHANGED vars
  BY <1>1 DEF Tick, Revoke, vars
<1>2. ASSUME NEW t \in Tasks, Task(t) PROVE QueueInv'
  <2>1. ASSUME ahead' = ahead, Queued' = Queued,
               \A u \in Tasks : pc'[u] = "queued" <=> pc[u] = "queued"
        PROVE  QueueInv'
    BY <2>1
  <2>2. CASE Lock(t)
    BY <2>2 DEF Lock
  <2>3. CASE Acquire(t)
    BY <2>3 DEF Acquire
  <2>4. CASE CancelQueued(t)
    BY <2>4 DEF CancelQueued, Vanish
  <2>5. CASE GetAccessToken(t) \/ RecheckHit(t) \/ StartExchange(t) \/ ClockBeforeEpoch(t)
             \/ Receive(t) \/ ExpiryOverflows(t) \/ CancelExchange(t) \/ Return(t)
    BY <2>1, <2>5 DEF GetAccessToken, HandOut, RecheckHit, StartExchange,
       ClockBeforeEpoch, Fail, Receive, ExpiryOverflows, Vanish, CancelExchange, Return
  <2>6. ASSUME NEW life \in Lifetimes, Mint(t, life) PROVE QueueInv'
    BY <2>1, <2>6 DEF Mint
  <2>7. ASSUME NEW e \in ExchangeErrors, ExchangeFails(t, e) PROVE QueueInv'
    BY <2>1, <2>7 DEF ExchangeFails, Fail
  <2> QED
    BY <1>2, <2>2, <2>3, <2>4, <2>5, <2>6, <2>7 DEF Task
<1> QED
  BY <1>1, <1>2 DEF Next

LEMMA QueueInvariance == Spec => []QueueInv
<1>1. Init => QueueInv
  BY DEF Init, QueueInv, Queued
<1>2. IInv /\ QueueInv /\ [Next]_vars => QueueInv'
  BY NextQueue
<1> QED
  BY <1>1, <1>2, Invariance, PTL DEF Spec

(* What the FIFO mutex is for: nobody gets ahead of a task that waits, and *)
(* the next to hold the lock is one that was ahead of it, whoever else     *)
(* joins the queue, gives up or is dropped meanwhile.                      *)
FirstComeFirstServed ==
    [][\A t \in Tasks :
          pc[t] = "queued" /\ pc'[t] = "queued"
             => /\ ahead'[t] \subseteq ahead[t]
                /\ holder' # holder /\ holder' # NoTask => holder' \in ahead[t] \ ahead'[t]]_vars

(* The refresh lock of get_access_token is served in the order of lock().  *)
THEOREM NobodyOvertakes == Spec => FirstComeFirstServed
<1> DEFINE Served(t) ==
      pc[t] = "queued" /\ pc'[t] = "queued"
         => /\ ahead'[t] \subseteq ahead[t]
            /\ holder' # holder /\ holder' # NoTask => holder' \in ahead[t] \ ahead'[t]
<1>1. ASSUME IInv, QueueInv, [Next]_vars, NEW t \in Tasks PROVE Served(t)
  <2> USE <1>1 DEF IInv, TypeOK
  <2>1. CASE Tick \/ Revoke \/ UNCHANGED vars
    BY <2>1 DEF Tick, Revoke, vars
  <2>2. ASSUME NEW u \in Tasks, Task(u) PROVE Served(t)
    <3>1. CASE Lock(u)
      BY <3>1 DEF Lock
    <3>2. CASE Acquire(u)
      <4>1. pc[t] = "queued" /\ pc'[t] = "queued" => u # t /\ u \in ahead[t]
        BY <3>2 DEF Acquire, QueueInv, Queued
      <4> QED
        BY <3>2, <4>1 DEF Acquire
    <3>3. CASE CancelQueued(u)
      BY <3>3 DEF CancelQueued, Vanish
    <3>4. CASE GetAccessToken(u) \/ RecheckHit(u) \/ StartExchange(u) \/ ClockBeforeEpoch(u)
               \/ Receive(u) \/ ExpiryOverflows(u) \/ CancelExchange(u) \/ Return(u)
               \/ (\E life \in Lifetimes : Mint(u, life))
               \/ (\E e \in ExchangeErrors : ExchangeFails(u, e))
      <4>1. ahead' = ahead /\ (holder' = holder \/ holder' = NoTask)
        BY <3>4 DEF GetAccessToken, HandOut, RecheckHit, StartExchange, ClockBeforeEpoch,
           Fail, Receive, ExpiryOverflows, CancelExchange, Return, Mint, ExchangeFails
      <4> QED
        BY <4>1
    <3> QED
      BY <2>2, <3>1, <3>2, <3>3, <3>4 DEF Task
  <2> QED
    BY <1>1, <2>1, <2>2 DEF Next
<1>2. IInv /\ QueueInv /\ [Next]_vars => [\A t \in Tasks : Served(t)]_vars
  BY <1>1
<1> QED
  BY <1>2, Invariance, QueueInvariance, PTL DEF Spec, FirstComeFirstServed

(* No wake-up is lost: when a task waits for the lock, some task has it    *)
(* and is at work, or the lock is free and the head of the queue may take  *)
(* it.  The tasks cannot all be waiting for each other, and none waits for *)
(* a guard that left with a dropped or a panicking call.                   *)
SomeoneGoesOn ==
    Queued # {} =>
       \/ holder \in Tasks /\ pc[holder] \in {"recheck", "exchange", "minted"}
       \/ holder = NoTask /\ \E u \in Queued : ahead[u] = {}

(* The tasks of get_access_token never all wait, on whatever paths their   *)
(* calls end.                                                              *)
THEOREM NoDeadlock == Spec => []SomeoneGoesOn
<1>1. IInv /\ QueueInv => SomeoneGoesOn
  BY QueueHead DEF IInv, TypeOK, LockHeldByRefresher, SomeoneGoesOn
<1> QED
  BY <1>1, Invariance, QueueInvariance, PTL

-----------------------------------------------------------------------------
(* What a task does, seen by another one that waits.                       *)
LEMMA RestType ==
    ASSUME TypeOK, NEW t \in Tasks
    PROVE  /\ HolderLeft \in 0 .. Timeout
           /\ Cardinality(ahead[t]) \in Nat /\ IsFiniteSet(ahead[t])
           /\ Rest(t) = Cardinality(ahead[t]) * Timeout + HolderLeft
           /\ Rest(t) \in Nat
<1> USE DurationAssumption
<1>1. HolderLeft \in 0 .. Timeout
  BY DEF TypeOK, HolderLeft
<1>2. Cardinality(ahead[t]) \in Nat /\ IsFiniteSet(ahead[t])
  <2>1. ahead[t] \in SUBSET Tasks
    BY DEF TypeOK
  <2> QED
    BY <2>1, SomeTasks
<1>3. Cardinality(ahead[t]) * Timeout \in Nat
  BY <1>2, TimesFacts
<1> QED
  BY <1>1, <1>2, <1>3 DEF Rest

LEMMA OtherTask ==
    ASSUME TypeOK, NEW u \in Tasks, Task(u), NEW t \in Tasks, t # u
    PROVE  pc'[t] = pc[t] /\ age'[t] = age[t]
BY DEF Task, GetAccessToken, HandOut, Lock, Acquire, RecheckHit, StartExchange,
   ClockBeforeEpoch, Fail, Mint, Receive, ExpiryOverflows, Vanish, ExchangeFails,
   CancelQueued, CancelExchange, Return, TypeOK

(* Nothing another task does makes the wait longer. *)
LEMMA OtherRest ==
    ASSUME IInv, QueueInv, NEW u \in Tasks, Task(u), NEW t \in Tasks, t # u,
           pc[t] = "queued"
    PROVE  Rest(t)' <= Rest(t)
<1> USE DurationAssumption
<1>1. TypeOK /\ TypeOK' /\ LockHeldByRefresher
  <2>1. [Next]_vars
    BY DEF Next
  <2> QED
    BY <2>1, NextTypeOK DEF IInv
<1>2. /\ HolderLeft \in 0 .. Timeout /\ HolderLeft' \in 0 .. Timeout
      /\ Cardinality(ahead[t]) \in Nat /\ IsFiniteSet(ahead[t])
      /\ Cardinality(ahead'[t]) \in Nat
      /\ Rest(t) = Cardinality(ahead[t]) * Timeout + HolderLeft
      /\ Rest(t)' = Cardinality(ahead'[t]) * Timeout + HolderLeft'
  <2>1. /\ HolderLeft \in 0 .. Timeout
        /\ Cardinality(ahead[t]) \in Nat /\ IsFiniteSet(ahead[t])
        /\ Rest(t) = Cardinality(ahead[t]) * Timeout + HolderLeft
    BY <1>1, RestType
  <2>2. HolderLeft' \in 0 .. Timeout
    BY <1>1 DEF TypeOK, HolderLeft
  <2>3. ahead'[t] \in SUBSET Tasks
    BY <1>1 DEF TypeOK
  <2>4. Cardinality(ahead'[t]) \in Nat
    BY <2>3, SomeTasks
  <2>5. Rest(t)' = Cardinality(ahead'[t]) * Timeout + HolderLeft'
    BY DEF Rest
  <2> QED
    BY <2>1, <2>2, <2>4, <2>5
<1>3. ASSUME ahead'[t] = ahead[t], HolderLeft' <= HolderLeft
      PROVE  Rest(t)' <= Rest(t)
  BY <1>2, <1>3, TimesFacts
<1>4. ASSUME holder' = NoTask PROVE HolderLeft' <= HolderLeft
  BY <1>2, <1>4 DEF HolderLeft
<1>5. CASE GetAccessToken(u) \/ Lock(u) \/ StartExchange(u) \/ Return(u)
           \/ \E life \in Lifetimes : Mint(u, life)
  <2>1. ahead'[t] = ahead[t] /\ holder' = holder /\ age' = age
    BY <1>1, <1>5 DEF TypeOK, GetAccessToken, Lock, StartExchange, Return, Mint
  <2>2. HolderLeft' = HolderLeft
    BY <2>1 DEF HolderLeft
  <2> QED
    BY <1>2, <1>3, <2>1, <2>2
<1>6. CASE RecheckHit(u) \/ ClockBeforeEpoch(u) \/ Receive(u) \/ ExpiryOverflows(u)
           \/ CancelExchange(u) \/ \E e \in ExchangeErrors : ExchangeFails(u, e)
  <2>1. ahead' = ahead /\ holder' = NoTask
    BY <1>6 DEF RecheckHit, ClockBeforeEpoch, Fail, Receive, ExpiryOverflows,
       CancelExchange, ExchangeFails
  <2> QED
    BY <1>3, <1>4, <2>1
<1>7. CASE CancelQueued(u)
  <2>1. ahead'[t] = ahead[t] \ {u} /\ holder' = holder /\ holder # u
    BY <1>1, <1>7 DEF CancelQueued, TypeOK, LockHeldByRefresher
  <2>2. HolderLeft' = HolderLeft
    <3>1. CASE holder = NoTask
      BY <2>1, <3>1 DEF HolderLeft
    <3>2. CASE holder # NoTask
      <4>1. holder \in Tasks
        BY <1>1, <3>2 DEF TypeOK
      <4>2. age'[holder] = age[holder]
        BY <1>1, <2>1, <4>1, OtherTask
      <4> QED
        BY <2>1, <4>2 DEF HolderLeft
    <3> QED
      BY <3>1, <3>2
  <2>3. Cardinality(ahead'[t]) <= Cardinality(ahead[t])
    <3>1. \/ Cardinality(ahead'[t]) = Cardinality(ahead[t])
          \/ Cardinality(ahead'[t]) = Cardinality(ahead[t]) - 1
      BY <1>2, <2>1, FS_RemoveElement
    <3> QED
      BY <1>2, <3>1
  <2>4. Cardinality(ahead'[t]) * Timeout <= Cardinality(ahead[t]) * Timeout
    BY <1>2, <2>3, TimesFacts
  <2> QED
    BY <1>2, <2>2, <2>4, TimesFacts
<1>8. CASE Acquire(u)
  <2>1. /\ ahead'[t] = ahead[t] \ {u} /\ holder = NoTask
        /\ pc[u] = "queued" /\ ahead[u] = {}
    BY <1>1, <1>8 DEF Acquire, TypeOK
  <2>2. u \in ahead[t]
    BY <2>1 DEF QueueInv, Queued
  <2>3. PICK n \in Nat : Cardinality(ahead[t]) = n + 1 /\ Cardinality(ahead'[t]) = n
    <3>1. Cardinality(ahead'[t]) = Cardinality(ahead[t]) - 1
      BY <1>2, <2>1, <2>2, FS_RemoveElement
    <3> QED
      BY <1>2, <3>1
  <2>4. HolderLeft = 0
    BY <2>1 DEF HolderLeft
  <2>5. (n + 1) * Timeout = n * Timeout + Timeout /\ n * Timeout \in Nat
    BY TimesFacts
  <2>6. Rest(t) = n * Timeout + Timeout
    BY <1>2, <2>3, <2>4, <2>5
  <2>7. Rest(t)' = n * Timeout + HolderLeft'
    BY <1>2, <2>3
  <2> QED
    BY <1>2, <2>5, <2>6, <2>7
<1> QED
  BY <1>5, <1>6, <1>7, <1>8 DEF Task

LEMMA OtherJob ==
    ASSUME SendIInv, NEW u \in Tasks, Job(u), NEW t \in Tasks, t # u
    PROVE  job'[t] = job[t]
<1>1. DOMAIN job = Tasks
  BY DEF SendIInv
<1> QED
  BY <1>1 DEF Job, Call, Authenticate, NotAuthenticated, StartSending, Post,
     Serve, Lose, Yield, Finish, DropCall

-----------------------------------------------------------------------------
(* A step of the send itself.                                              *)
LEMMA StepFacts ==
    ASSUME SendIInv, NEW t \in Tasks
    PROVE  /\ TypeOK /\ LockHeldByRefresher /\ TimersInv
           /\ JobOk(job[t]) /\ job[t].since \in Nat
           /\ age[t] \in 0 .. Timeout /\ Others \in Nat /\ Timeout \in Nat
           /\ DOMAIN job = Tasks
           /\ job[t].op = "send" /\ job[t].at = "sending" => DOMAIN job[t].req = {1}
           /\ \A i \in DOMAIN job[t].req : /\ job[t].at = "sending"
                                           /\ job[t].req[i].age \in 0 .. Timeout
<1>1. TypeOK /\ LockHeldByRefresher /\ TimersInv /\ DOMAIN job = Tasks
  BY DEF SendIInv, IInv
<1>2. JobOk(job[t])
  BY DEF SendIInv, JobInv
<1>3. Others \in Nat /\ Timeout \in Nat
  BY OthersFacts, DurationAssumption
<1>4. job[t].op = "send" /\ job[t].at = "sending" => DOMAIN job[t].req = {1}
  BY <1>2 DEF JobOk, Size
<1>5. \A i \in DOMAIN job[t].req : /\ job[t].at = "sending"
                                   /\ job[t].req[i].age \in 0 .. Timeout
  BY <1>2, RequestsOf DEF Request
<1> QED
  BY <1>1, <1>2, <1>3, <1>4, <1>5 DEF TypeOK, JobOk

(* At the end of the queue: at most one exchange of every other task.      *)
LEMMA Queues ==
    ASSUME SendIInv, QueueInv, NEW t \in Tasks, Lock(t)
    PROVE  Rest(t)' <= Others
<1> USE DurationAssumption
<1>1. /\ pc[t] = "lock" /\ ahead'[t] = Queued /\ holder' = holder /\ age' = age
      /\ holder # t
  BY StepFacts DEF Lock, TypeOK, LockHeldByRefresher
<1>2. Queued \in SUBSET Tasks /\ t \in Tasks \ Queued
  BY <1>1 DEF Queued
<1>3. Cardinality(Queued) \in Nat /\ Cardinality(Tasks) \in Nat
  BY <1>2, SomeTasks, SizeAssumption, FS_CardinalityType
<1>4. Rest(t)' = Cardinality(Queued) * Timeout + HolderLeft
  BY <1>1 DEF Rest, HolderLeft
<1>5. CASE holder = NoTask
  <2>1. PICK k \in Nat : Cardinality(Tasks) = k + 1 /\ Cardinality(Queued) <= k
    <3>1. Cardinality(Queued) + 1 <= Cardinality(Tasks)
      BY <1>2, SomeTasks
    <3>2. Cardinality(Tasks) - 1 \in Nat
      BY <1>3, <3>1
    <3> QED
      BY <1>3, <3>1, <3>2
  <2>2. Cardinality(Queued) * Timeout <= k * Timeout /\ Others = k * Timeout
    BY <1>3, <2>1, TimesFacts DEF Others
  <2> QED
    BY <1>3, <1>4, <1>5, <2>2, TimesFacts DEF HolderLeft
<1>6. CASE holder # NoTask
  <2>1. holder \in Tasks \ Queued /\ age[holder] \in 0 .. Timeout
    <3>1. holder \in Tasks
      BY <1>6, StepFacts DEF TypeOK
    <3>2. pc[holder] \in {"recheck", "exchange", "minted"}
      BY <3>1, StepFacts DEF LockHeldByRefresher
    <3> QED
      BY <3>1, <3>2, StepFacts DEF Queued, TypeOK
  <2>2. PICK k \in Nat : Cardinality(Tasks) = k + 1 + 1 /\ Cardinality(Queued) <= k
    <3>1. Cardinality(Queued) + 2 <= Cardinality(Tasks)
      BY <1>1, <1>2, <2>1, SomeTasks
    <3>2. Cardinality(Tasks) - 2 \in Nat
      BY <1>3, <3>1
    <3> QED
      BY <1>3, <3>1, <3>2
  <2>3. /\ Cardinality(Queued) * Timeout <= k * Timeout /\ k * Timeout \in Nat
        /\ Cardinality(Queued) * Timeout \in Nat
        /\ (k + 1) * Timeout = k * Timeout + Timeout
    BY <1>3, <2>2, TimesFacts
  <2>4. Others = (k + 1) * Timeout
    BY <2>2 DEF Others
  <2>5. HolderLeft <= Timeout /\ HolderLeft \in Nat
    BY <1>6, <2>1 DEF HolderLeft
  <2> QED
    BY <1>4, <2>3, <2>4, <2>5
<1> QED
  BY <1>5, <1>6

LEMMA AuthStep ==
    ASSUME SendIInv, QueueInv, NEW t \in Tasks, CallOk(t), InTime(t), Authenticate(t)
    PROVE  CallOk(t)' /\ InTime(t)'
<1> DEFINE j == job[t]
<1>1. job' = job /\ j.at = "auth"
  BY DEF Authenticate
<1>2. /\ TypeOK /\ LockHeldByRefresher /\ TimersInv /\ j.since \in Nat
      /\ age[t] \in 0 .. Timeout /\ Others \in Nat /\ Timeout \in Nat
  BY StepFacts
<1> USE DEF TypeOK
<1>3. CASE Lock(t)
  <2>1. pc[t] = "lock" /\ pc'[t] = "queued"
    BY <1>2, <1>3 DEF Lock
  <2>2. Rest(t)' <= Others /\ Rest(t)' \in Nat
    <3>1. Rest(t)' = Cardinality(Queued) * Timeout + HolderLeft
      BY <1>2, <1>3 DEF Lock, Rest, HolderLeft
    <3>2. Cardinality(Queued) \in Nat
      <4>1. Queued \in SUBSET Tasks
        BY DEF Queued
      <4> QED
        BY <4>1, SomeTasks
    <3> QED
      BY <1>2, <1>3, <3>1, <3>2, Queues, TimesFacts, RestType
  <2>3. j.op = "send" => j.since + Rest(t)' <= Others
    BY <1>2, <2>1, <2>2 DEF InTime
  <2> QED
    BY <1>1, <2>1, <2>3 DEF CallOk, InTime
<1>4. CASE Acquire(t)
  <2>1. /\ pc[t] = "queued" /\ pc'[t] = "recheck" /\ age'[t] = age[t]
        /\ holder = NoTask /\ ahead[t] = {}
    BY <1>2, <1>4 DEF Acquire
  <2>2. Rest(t) = 0
    <3>1. HolderLeft = 0 /\ Cardinality(ahead[t]) = 0
      BY <2>1, FS_EmptySet DEF HolderLeft
    <3> QED
      BY <1>2, <3>1 DEF Rest
  <2>3. j.op = "send" => j.since <= Others + age[t]
    BY <1>2, <2>1, <2>2 DEF InTime
  <2> QED
    BY <1>1, <2>1, <2>3 DEF CallOk, InTime
<1>5. CASE StartExchange(t) \/ \E life \in Lifetimes : Mint(t, life)
  <2>1. /\ pc[t] \in {"recheck", "exchange"} /\ pc'[t] \in {"exchange", "minted"}
        /\ age'[t] = age[t]
    BY <1>2, <1>5 DEF StartExchange, Mint
  <2> QED
    BY <1>1, <2>1 DEF CallOk, InTime
<1>6. CASE RecheckHit(t) \/ ClockBeforeEpoch(t) \/ Receive(t)
           \/ \E e \in ExchangeErrors : ExchangeFails(t, e)
  <2>1. pc[t] \in {"recheck", "exchange", "minted"} /\ pc'[t] \in {"ready", "failed"}
    BY <1>2, <1>6 DEF RecheckHit, HandOut, ClockBeforeEpoch, Fail, Receive, ExchangeFails
  <2>2. j.op = "send" => j.since <= Others + Timeout
    BY <1>2, <2>1 DEF InTime
  <2> QED
    BY <1>1, <2>1, <2>2 DEF CallOk, InTime
<1> QED
  BY <1>3, <1>4, <1>5, <1>6 DEF Authenticate

LEMMA OwnStep ==
    ASSUME SendIInv, QueueInv, NEW t \in Tasks, CallOk(t), InTime(t), Job(t)
    PROVE  CallOk(t)' /\ InTime(t)'
<1> DEFINE j == job[t]
<1>1. /\ TypeOK /\ JobOk(j) /\ j.since \in Nat
      /\ age[t] \in 0 .. Timeout /\ Others \in Nat /\ Timeout \in Nat
      /\ DOMAIN job = Tasks
      /\ j.op = "send" /\ j.at = "sending" => DOMAIN j.req = {1}
      /\ \A i \in DOMAIN j.req : j.at = "sending" /\ j.req[i].age \in 0 .. Timeout
  BY StepFacts
<1>2. ASSUME NEW op \in {"send", "batch"}, Call(t, op) PROVE CallOk(t)' /\ InTime(t)'
  <2>1. /\ job'[t].at = "auth" /\ job'[t].since = 0
        /\ pc'[t] \in {"ready", "lock"}
    BY <1>1, <1>2 DEF Call, NoJob, GetAccessToken, HandOut, TypeOK
  <2> QED
    BY <1>1, <2>1 DEF CallOk, InTime
<1>3. CASE Authenticate(t)
  BY <1>3, AuthStep
<1>4. CASE NotAuthenticated(t)
  <2>1. job'[t] = NoJob /\ pc'[t] = "idle"
    BY <1>1, <1>4 DEF NotAuthenticated, Return, ExpiryOverflows, CancelQueued,
       CancelExchange, Vanish, TypeOK
  <2> QED
    BY <2>1 DEF CallOk, InTime, NoJob
<1>5. CASE StartSending(t)
  <2>1. /\ pc[t] = "ready" /\ pc'[t] = "idle"
        /\ job'[t].op = j.op /\ job'[t].at = "sending" /\ job'[t].since = j.since
        /\ job'[t].req = [i \in 1 .. Size(j.op) |-> NoRequest]
    BY <1>1, <1>5 DEF StartSending, Return, TypeOK, JobOk
  <2>2. Taken(job'[t].req[1]) = 0
    BY <2>1, SizeType DEF NoRequest, Taken
  <2>3. j.op = "send" => j.since <= Others + Timeout
    BY <2>1 DEF InTime
  <2> QED
    BY <1>1, <2>1, <2>2, <2>3 DEF CallOk, InTime
<1>6. ASSUME j.at = "sending", UNCHANGED vars,
             job'[t].op = j.op, job'[t].at = j.at, job'[t].since = j.since,
             j.op = "send" => Taken(j.req[1]) <= Taken(job'[t].req[1]),
             Taken(job'[t].req[1]) \in Nat
      PROVE  CallOk(t)' /\ InTime(t)'
  <2>1. pc'[t] = pc[t] /\ pc[t] = "idle"
    BY <1>6 DEF vars, CallOk
  <2>2. j.op = "send" => /\ j.since <= Others + Timeout + Taken(j.req[1])
                         /\ Taken(j.req[1]) \in Nat
    BY <1>1, <1>6 DEF InTime, Taken
  <2>3. j.op = "send" => j.since <= Others + Timeout + Taken(job'[t].req[1])
    BY <1>1, <1>6, <2>2
  <2> QED
    BY <1>6, <2>1, <2>3 DEF CallOk, InTime
<1>7. CASE Post(t)
  <2>1. PICK i \in DOMAIN j.req : i \in Pullable(t)
    BY <1>7 DEF Post, Pullable, Requests
  <2>2. /\ j.at = "sending"
        /\ job'[t].op = j.op /\ job'[t].at = j.at /\ job'[t].since = j.since
        /\ job'[t].req = [n \in DOMAIN j.req |->
                             IF n \in Pullable(t) THEN [at |-> "flight", age |-> 0]
                                                  ELSE j.req[n]]
    BY <1>1, <1>7, <2>1 DEF Post, Requests, JobOk
  <2>3. 1 \in DOMAIN j.req
    BY <1>1, <2>2, SizeType DEF JobOk
  <2>4. Taken(j.req[1]) <= Taken(job'[t].req[1]) /\ Taken(job'[t].req[1]) \in Nat
    BY <1>1, <2>2, <2>3 DEF Pullable, Taken
  <2> QED
    BY <1>6, <1>7, <2>2, <2>4 DEF Post
<1>8. ASSUME NEW i \in Requests(t), Serve(t, i) \/ Lose(t, i)
      PROVE  CallOk(t)' /\ InTime(t)'
  <2>1. PICK end \in {"answered", "unauthorized", "lost"} :
           job' = [job EXCEPT ![t].req[i] = [at |-> end, age |-> 0]]
    BY <1>8 DEF Serve, Lose
  <2>2. /\ j.at = "sending" /\ i \in DOMAIN j.req
        /\ job'[t].op = j.op /\ job'[t].at = j.at /\ job'[t].since = j.since
        /\ job'[t].req = [j.req EXCEPT ![i] = [at |-> end, age |-> 0]]
    BY <1>1, <1>8, <2>1 DEF Requests, JobOk
  <2>3. 1 \in DOMAIN j.req
    BY <1>1, <2>2, SizeType DEF JobOk
  <2>4. Taken(j.req[1]) <= Taken(job'[t].req[1]) /\ Taken(job'[t].req[1]) \in Nat
    <3>1. CASE i = 1
      BY <1>1, <2>2, <2>3, <3>1 DEF Taken
    <3>2. CASE i # 1
      BY <1>1, <2>2, <2>3, <3>2 DEF Taken
    <3> QED
      BY <3>1, <3>2
  <2> QED
    BY <1>6, <1>8, <2>2, <2>4 DEF Serve, Lose
<1>9. CASE Yield(t)
  <2>1. /\ j.at = "sending"
        /\ job'[t].op = j.op /\ job'[t].at = j.at /\ job'[t].since = j.since
        /\ job'[t].req = j.req
    BY <1>1, <1>9 DEF Yield, Yieldable, Requests, JobOk
  <2>2. 1 \in DOMAIN j.req
    BY <1>1, <2>1, SizeType DEF JobOk
  <2>3. Taken(j.req[1]) \in Nat
    BY <1>1, <2>2 DEF Taken
  <2> QED
    BY <1>6, <1>9, <2>1, <2>3 DEF Yield
<1>10. CASE Finish(t) \/ DropCall(t)
  <2>1. job'[t] = NoJob /\ pc'[t] = pc[t] /\ j.at = "sending"
    BY <1>1, <1>10 DEF Finish, DropCall, InFlight, Requests, vars
  <2> QED
    BY <2>1 DEF CallOk, InTime, NoJob
<1> QED
  BY <1>2, <1>3, <1>4, <1>5, <1>7, <1>8, <1>9, <1>10 DEF Job

(* A step of another task. *)
LEMMA OtherStep ==
    ASSUME SendIInv, QueueInv, NEW u \in Tasks, Job(u), NEW t \in Tasks, t # u,
           CallOk(t), InTime(t)
    PROVE  CallOk(t)' /\ InTime(t)'
<1>1. /\ TypeOK /\ IInv /\ job[t].since \in Nat
      /\ age[t] \in 0 .. Timeout /\ Others \in Nat /\ Timeout \in Nat
  BY StepFacts DEF SendIInv
<1>2. job'[t] = job[t]
  BY OtherJob
<1>3. pc'[t] = pc[t] /\ age'[t] = age[t]
  BY <1>1, JobRefines, OtherTask DEF vars
<1>4. pc[t] = "queued" => Rest(t)' <= Rest(t) /\ Rest(t)' \in Nat /\ Rest(t) \in Nat
  <2>1. CASE Task(u)
    <3>1. [Next]_vars
      BY <2>1 DEF Next
    <3>2. TypeOK'
      BY <1>1, <3>1, NextTypeOK
    <3>3. HolderLeft' \in Nat /\ Cardinality(ahead'[t]) \in Nat
      <4>1. HolderLeft' \in Nat
        BY <1>1, <3>2 DEF TypeOK, HolderLeft
      <4>2. ahead'[t] \in SUBSET Tasks
        BY <3>2 DEF TypeOK
      <4> QED
        BY <4>1, <4>2, SomeTasks
    <3>4. Rest(t)' \in Nat
      <4>1. Rest(t)' = Cardinality(ahead'[t]) * Timeout + HolderLeft'
        BY DEF Rest
      <4> QED
        BY <3>3, <4>1, TimesFacts
    <3> QED
      BY <1>1, <2>1, <3>4, OtherRest, RestType
  <2>2. CASE UNCHANGED vars
    <3>1. Rest(t)' = Rest(t)
      BY <2>2 DEF vars, Rest, HolderLeft
    <3> QED
      BY <1>1, <3>1, RestType
  <2> QED
    BY <2>1, <2>2, JobRefines
<1>5. CallOk(t)'
  BY <1>2, <1>3 DEF CallOk
<1>6. InTime(t)'
  BY <1>1, <1>2, <1>3, <1>4 DEF InTime
<1> QED
  BY <1>5, <1>6

(* While no one can run, someone holds the lock if anyone waits for it.    *)
LEMMA LockIsHeld ==
    ASSUME SendIInv, QueueInv, \A u \in Tasks : ~CanRun(u),
           NEW t \in Tasks, pc[t] = "queued"
    PROVE  holder \in Tasks /\ InExchange(holder)
<1>1. TypeOK /\ LockHeldByRefresher
  BY DEF SendIInv, IInv
<1>2. PICK u \in Queued : ahead[u] = {}
  <2>1. t \in Queued
    BY DEF Queued
  <2> QED
    BY <1>1, <2>1, QueueHead
<1>3. holder # NoTask
  BY <1>2 DEF CanRun, Queued
<1>4. holder \in Tasks
  BY <1>1, <1>3 DEF TypeOK
<1>5. pc[holder] \in {"recheck", "exchange", "minted"} /\ pc[holder] # "recheck"
  BY <1>1, <1>4 DEF LockHeldByRefresher, CanRun
<1> QED
  BY <1>4, <1>5 DEF InExchange

(* A unit of time: it passes only while an exchange or a request runs.     *)
LEMMA TimeStep ==
    ASSUME SendIInv, QueueInv, TimePasses, NEW t \in Tasks, CallOk(t), InTime(t)
    PROVE  CallOk(t)' /\ InTime(t)'
<1> DEFINE j == job[t]
           k == OlderJob(j)
<1>1. /\ TypeOK /\ JobOk(j) /\ j.since \in Nat
      /\ age[t] \in 0 .. Timeout /\ Others \in Nat /\ Timeout \in Nat
      /\ j.op = "send" /\ j.at = "sending" => DOMAIN j.req = {1}
      /\ \A i \in DOMAIN j.req : j.req[i].age \in 0 .. Timeout
  BY StepFacts
<1>2. /\ \A u \in Tasks : ~CanRun(u)
      /\ \A u \in Tasks : InExchange(u) => age'[u] = age[u] + 1 /\ age[u] < Timeout
      /\ pc' = pc /\ holder' = holder /\ ahead' = ahead
      /\ job'[t] = k
      /\ \A i \in InFlight(t) : j.req[i].age < Timeout
  BY DEF TimePasses, Tick
<1>3. CASE j = NoJob
  <2>1. k = NoJob /\ NoJob.op = "none"
    BY <1>3 DEF OlderJob, NoJob
  <2> QED
    BY <1>2, <1>3, <2>1 DEF CallOk, InTime
<1>4. CASE j # NoJob
  <2>1. /\ k.op = j.op /\ k.at = j.at /\ k.since = j.since + 1
        /\ DOMAIN k.req = DOMAIN j.req
        /\ \A n \in DOMAIN j.req :
              k.req[n] = IF j.req[n].at = "flight"
                         THEN [j.req[n] EXCEPT !.age = @ + 1] ELSE j.req[n]
    BY <1>1, <1>4 DEF OlderJob, JobOk
  <2> HIDE DEF k
  <2>2. CallOk(t)'
    BY <1>2, <1>4, <2>1 DEF CallOk
  <2>3. pc[t] \notin {"lock", "recheck", "ready", "failed"}
    BY <1>2 DEF CanRun
  <2>4. ASSUME j.op = "send", pc[t] = "queued"
        PROVE  k.since + Rest(t)' <= Others
    <3>1. /\ holder \in Tasks /\ InExchange(holder)
      BY <1>2, <2>4, LockIsHeld
    <3>2. /\ age[holder] \in Nat /\ age'[holder] = age[holder] + 1
          /\ age[holder] < Timeout /\ holder # NoTask
      BY <1>1, <1>2, <3>1, TasksAssumption, DurationAssumption DEF TypeOK
    <3>3. /\ HolderLeft = Timeout - age[holder]
          /\ HolderLeft' = Timeout - (age[holder] + 1)
      BY <1>2, <3>2 DEF HolderLeft
    <3>4. /\ Rest(t) = Cardinality(ahead[t]) * Timeout + HolderLeft
          /\ Rest(t)' = Cardinality(ahead[t]) * Timeout + HolderLeft'
          /\ Cardinality(ahead[t]) * Timeout \in Nat
      <4>1. Cardinality(ahead[t]) \in Nat
        BY <1>1, RestType
      <4> QED
        BY <1>2, <4>1, TimesFacts DEF Rest
    <3>5. j.since + Rest(t) <= Others
      BY <2>4 DEF InTime
    <3> QED
      BY <1>1, <2>1, <3>2, <3>3, <3>4, <3>5
  <2>5. ASSUME j.op = "send", pc[t] \in {"exchange", "minted"}
        PROVE  k.since <= Others + age'[t]
    <3>1. age'[t] = age[t] + 1
      BY <1>2, <2>5 DEF InExchange
    <3>2. j.since <= Others + age[t]
      BY <2>5 DEF InTime
    <3> QED
      BY <1>1, <2>1, <3>1, <3>2
  <2>6. ASSUME j.op = "send", j.at = "sending"
        PROVE  k.since <= Others + Timeout + Taken(k.req[1])
    <3>1. DOMAIN j.req = {1} /\ j.yielded \in Nat /\ j.yielded <= 1 /\ j.yielded # 1
      BY <1>1, <1>2, <2>6 DEF JobOk, Size, CanRun
    <3>2. j.req[1].at \in {"waiting", "flight"} /\ 1 \notin Pullable(t)
      BY <1>2, <3>1 DEF CanRun, Yieldable, Requests
    <3>3. 1 <= j.yielded + Window
      BY <3>1, BatchAssumption
    <3>4. j.req[1].at = "flight"
      BY <3>1, <3>2, <3>3 DEF Pullable, Requests
    <3>5. j.req[1] \in Request
      BY <1>1, <3>1, RequestsOf
    <3>6. k.req[1] = [j.req[1] EXCEPT !.age = @ + 1]
      BY <2>1, <3>1, <3>4
    <3>7. k.req[1].at = "flight" /\ k.req[1].age = j.req[1].age + 1
      BY <3>4, <3>5, <3>6 DEF Request
    <3>8. /\ j.since <= Others + Timeout + j.req[1].age
          /\ j.req[1].age \in 0 .. Timeout
      BY <1>1, <2>6, <3>1, <3>4 DEF InTime, Taken
    <3> QED
      BY <1>1, <2>1, <3>7, <3>8 DEF Taken
  <2> QED
    BY <1>2, <2>1, <2>2, <2>3, <2>4, <2>5, <2>6 DEF InTime
<1> QED
  BY <1>3, <1>4

LEMMA RevokedStep ==
    ASSUME SendIInv, TokensRevoked, NEW t \in Tasks, CallOk(t), InTime(t)
    PROVE  CallOk(t)' /\ InTime(t)'
<1> DEFINE j == job[t]
<1>1. JobOk(j)
  BY StepFacts
<1>2. /\ pc' = pc /\ age' = age /\ holder' = holder /\ ahead' = ahead
      /\ job'[t] = IF j.tok = NoToken THEN j ELSE [j EXCEPT !.tok = Revoked(@)]
  BY DEF TokensRevoked, Revoke
<1>3. /\ job'[t].op = j.op /\ job'[t].at = j.at /\ job'[t].since = j.since
      /\ job'[t].req = j.req
      /\ j = NoJob => job'[t] = NoJob
  <2>1. j = NoJob => j.tok = NoToken
    BY DEF NoJob
  <2> QED
    BY <1>1, <1>2, <2>1 DEF JobOk
<1>4. Rest(t)' = Rest(t)
  BY <1>2 DEF Rest, HolderLeft
<1>5. CallOk(t)'
  BY <1>2, <1>3 DEF CallOk
<1>6. InTime(t)'
  BY <1>2, <1>3, <1>4 DEF InTime
<1> QED
  BY <1>5, <1>6

LEMMA NextTimeInv == SendIInv /\ TimeInv /\ [SendNext]_sendVars => TimeInv'
<1> SUFFICES ASSUME SendIInv, TimeInv, [SendNext]_sendVars PROVE TimeInv'
  OBVIOUS
<1>1. QueueInv /\ QueueInv'
  BY Refines, NextQueue DEF SendIInv, TimeInv
<1>2. ASSUME NEW t \in Tasks PROVE CallOk(t)' /\ InTime(t)'
  <2>1. CallOk(t) /\ InTime(t)
    BY DEF TimeInv
  <2>2. CASE TimePasses
    BY <1>1, <2>1, <2>2, TimeStep
  <2>3. CASE TokensRevoked
    BY <2>1, <2>3, RevokedStep
  <2>4. ASSUME NEW u \in Tasks, Job(u) PROVE CallOk(t)' /\ InTime(t)'
    <3>1. CASE u = t
      BY <1>1, <2>1, <2>4, <3>1, OwnStep
    <3>2. CASE u # t
      BY <1>1, <2>1, <2>4, <3>2, OtherStep
    <3> QED
      BY <3>1, <3>2
  <2>5. CASE UNCHANGED sendVars
    BY <2>1, <2>5 DEF sendVars, vars, CallOk, InTime, Rest, HolderLeft
  <2> QED
    BY <2>2, <2>3, <2>4, <2>5 DEF SendNext
<1> QED
  BY <1>1, <1>2 DEF TimeInv

LEMMA InitTimeInv == SendInit => TimeInv
<1> SUFFICES ASSUME SendInit PROVE TimeInv
  OBVIOUS
<1>1. /\ pc = [t \in Tasks |-> "idle"] /\ ahead = [t \in Tasks |-> {}]
      /\ job = [t \in Tasks |-> NoJob]
  BY DEF SendInit, Init
<1>2. QueueInv
  BY <1>1 DEF QueueInv, Queued
<1>3. ASSUME NEW t \in Tasks PROVE CallOk(t) /\ InTime(t)
  <2>1. job[t] = NoJob /\ NoJob.op = "none" /\ NoJob.at = "none" /\ pc[t] = "idle"
    BY <1>1 DEF NoJob
  <2> QED
    BY <2>1 DEF CallOk, InTime
<1> QED
  BY <1>2, <1>3 DEF TimeInv

(* A send never takes longer than one timeout for every task and one more, *)
(* however many tasks queue for the refresh lock, in whichever order they  *)
(* join and leave the queue, and whatever becomes of their exchanges: the  *)
(* queue of the lock is first in, first out, and the timeout of the client *)
(* ends each exchange in it.                                               *)
THEOREM SendEnds == SendSpec => []SendEndsInTime
<1>1. SendIInv /\ TimeInv => SendEndsInTime
  <2> SUFFICES ASSUME SendIInv, TimeInv, NEW t \in Tasks, job[t].op = "send"
               PROVE  job[t].since <= (Cardinality(Tasks) + 1) * Timeout
    BY DEF SendEndsInTime
  <2>1. /\ TypeOK /\ JobOk(job[t]) /\ job[t].since \in Nat
        /\ age[t] \in 0 .. Timeout /\ Others \in Nat /\ Timeout \in Nat
        /\ job[t].at = "sending" => DOMAIN job[t].req = {1}
        /\ \A i \in DOMAIN job[t].req : job[t].req[i].age \in 0 .. Timeout
        /\ Rest(t) \in Nat
    BY StepFacts, RestType
  <2>2. CallOk(t) /\ InTime(t)
    BY DEF TimeInv
  <2>3. job[t].at # "none"
    BY <2>2 DEF CallOk, NoJob
  <2>4. pc[t] # "idle" => job[t].since <= Others + Timeout
    BY <2>1, <2>2 DEF InTime, TypeOK, PC
  <2>5. job[t].at = "sending" => /\ job[t].since <= Others + Timeout + Taken(job[t].req[1])
                                 /\ Taken(job[t].req[1]) \in 0 .. Timeout
    BY <2>1, <2>2 DEF InTime, Taken
  <2>6. job[t].at = "auth" => pc[t] # "idle"
    BY <2>2 DEF CallOk
  <2>7. job[t].since <= Others + Timeout + Timeout
    BY <2>1, <2>3, <2>4, <2>5, <2>6 DEF JobOk
  <2> QED
    BY <2>7, OthersFacts
<1>2. SendSpec => []TimeInv
  BY SendInvariance, InitTimeInv, NextTimeInv, PTL DEF SendSpec
<1> QED
  BY SendInvariance, <1>1, <1>2, PTL
=============================================================================
