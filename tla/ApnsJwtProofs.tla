--------------------------- MODULE ApnsJwtProofs ---------------------------
(***************************************************************************)
(* What ApnsJwt guarantees for every set of threads, every validity, limit *)
(* and bound on signing and use, and every error of the wall clock.        *)
(***************************************************************************)
EXTENDS ApnsJwt, TLAPS

(* A JWT on its way into the cache is as old as its signature took. *)
SigningInv ==
    \A t \in Threads :
       pc[t] = "signing" =>
          /\ spent[t] <= SignTime
          /\ tok[t].honest => tok[t].early = 0 /\ tok[t].live + spent[t] >= Limit

(* While the two clocks agree, a cached JWT loses validity as fast as the  *)
(* cache loses patience with it; and one that is handed out was fresh, so  *)
(* its age then is at least one short of validity and signature.           *)
AgeInv ==
    /\ Fresh /\ cache.jwt.honest
          => cache.jwt.early = 0 /\ cache.jwt.live + Validity + SignTime >= Limit + cache.left
    /\ \A t \in Threads :
          pc[t] = "ready" /\ tok[t].honest
             => /\ tok[t].early = 0
                /\ tok[t].live + Validity + SignTime + spent[t] >= Limit + 1

IInv ==
    /\ TypeOK
    /\ LockHeldBySigner
    /\ NoRedundantSigning
    /\ SigningInv
    /\ AgeInv

-----------------------------------------------------------------------------
(* The countdown of a timer stays a natural number and loses at most one.  *)
LEMMA CountDown ==
    ASSUME NEW n \in Nat
    PROVE  /\ Monus(n, 1) \in Nat
           /\ Monus(n, 1) <= n
           /\ n <= Monus(n, 1) + 1
           /\ n > 0 => Monus(n, 1) = n - 1
           /\ n = 0 => Monus(n, 1) = 0
BY DEF Monus

(* A JWT that ages, awake or asleep, is still a JWT. *)
LEMMA OlderJwt ==
    ASSUME NEW j \in Jwt
    PROVE  /\ Older(j) \in Jwt
           /\ Older(j).honest = j.honest
           /\ Older(j).early = Monus(j.early, 1)
           /\ Older(j).live = Monus(j.live, 1)
BY CountDown DEF Older, Jwt

LEMMA SleptJwt ==
    ASSUME NEW j \in Jwt
    PROVE  Slept(j) \in Jwt /\ ~Slept(j).honest
BY CountDown DEF Slept, Jwt

LEMMA NoJwtType == NoJwt \in Jwt /\ ~NoJwt.honest
BY DEF NoJwt, Jwt

(* An iat of any error makes a JWT; one of no error makes an honest one,   *)
(* which APNS accepts for the whole limit.                                 *)
LEMMA SignedJwt ==
    ASSUME NEW d \in Int
    PROVE  /\ SignedAt(d) \in Jwt
           /\ SignedAt(d).honest =>
                 SignedAt(d).early = 0 /\ SignedAt(d).live = Limit
<1> USE TimesAssumption
<1>1. Monus(d, 0) \in Nat /\ Monus(Limit + d, 0) \in Nat
  BY DEF Monus
<1>2. SignedAt(d) \in Jwt /\ (SignedAt(d).honest <=> d = 0)
  BY <1>1 DEF SignedAt, Jwt
<1>3. d = 0 => Monus(d, 0) = 0 /\ Monus(Limit + d, 0) = Limit
  BY DEF Monus
<1> QED
  BY <1>2, <1>3 DEF SignedAt

-----------------------------------------------------------------------------
LEMMA InitIInv == Init => IInv
<1> SUFFICES ASSUME Init PROVE IInv
  OBVIOUS
<1> USE TimesAssumption, ThreadsAssumption
<1>1. cache.left = 0 /\ cache.jwt = NoJwt /\ cache \in [jwt : Jwt, left : 0 .. Validity]
  BY NoJwtType DEF Init
<1>2. TypeOK
  BY <1>1, NoJwtType DEF Init, TypeOK, PC
<1>3. \A t \in Threads : pc[t] = "idle" /\ holder # t
  BY DEF Init
<1>4. LockHeldBySigner /\ NoRedundantSigning /\ SigningInv
  BY <1>3 DEF LockHeldBySigner, NoRedundantSigning, SigningInv
<1>5. AgeInv
  BY <1>1, <1>3, NoJwtType DEF AgeInv
<1> QED
  BY <1>2, <1>4, <1>5 DEF IInv

-----------------------------------------------------------------------------
(* Type correctness is preserved by every step. *)
LEMMA NextTypeOK == TypeOK /\ [Next]_vars => TypeOK'
<1> SUFFICES ASSUME TypeOK, [Next]_vars PROVE TypeOK'
  OBVIOUS
<1> USE TimesAssumption, WallAssumption, NoJwtType
<1> USE DEF TypeOK, PC
<1>1. CASE Tick
  <2>1. cache' \in [jwt : Jwt, left : 0 .. Validity]
    BY <1>1, OlderJwt, CountDown DEF Tick
  <2>2. tok' \in [Threads -> Jwt]
    BY <1>1, OlderJwt DEF Tick
  <2>3. spent' \in [Threads -> Nat]
    BY <1>1 DEF Tick
  <2> QED
    BY <1>1, <2>1, <2>2, <2>3 DEF Tick
<1>2. CASE Sleep
  <2>1. cache' \in [jwt : Jwt, left : 0 .. Validity]
    BY <1>2, SleptJwt, CountDown DEF Sleep
  <2>2. tok' \in [Threads -> Jwt]
    BY <1>2, SleptJwt DEF Sleep
  <2> QED
    BY <1>2, <2>1, <2>2 DEF Sleep
<1>3. CASE StepClock \/ Suspend \/ Resume \/ UNCHANGED vars
  BY <1>3 DEF StepClock, Suspend, Resume, vars
<1>4. ASSUME NEW t \in Threads, Thread(t) PROVE TypeOK'
  <2>1. CASE GetToken(t)
    BY <2>1 DEF GetToken, HandOut
  <2>2. CASE Acquire(t)
    BY <2>2 DEF Acquire
  <2>3. CASE RecheckHit(t)
    BY <2>3 DEF RecheckHit, HandOut
  <2>4. CASE CannotSign(t)
    BY <2>4 DEF CannotSign
  <2>5. CASE StartSigning(t)
    <3>1. wall \in Int
      BY <2>5 DEF StartSigning
    <3> QED
      BY <2>5, <3>1, SignedJwt DEF StartSigning
  <2>6. CASE CreateToken(t)
    <3>1. cache' \in [jwt : Jwt, left : 0 .. Validity]
      BY <2>6 DEF CreateToken
    <3> QED
      BY <2>6, <3>1 DEF CreateToken, HandOut
  <2>7. CASE SigningPanics(t)
    BY <2>7 DEF SigningPanics
  <2>8. CASE Return(t)
    BY <2>8 DEF Return
  <2> QED
    BY <1>4, <2>1, <2>2, <2>3, <2>4, <2>5, <2>6, <2>7, <2>8 DEF Thread
<1> QED
  BY <1>1, <1>2, <1>3, <1>4 DEF Next

-----------------------------------------------------------------------------
(* Mutual exclusion: each step moves the holder and the pc together.       *)
LEMMA NextLock ==
    TypeOK /\ LockHeldBySigner /\ [Next]_vars => LockHeldBySigner'
<1> SUFFICES ASSUME TypeOK, LockHeldBySigner, [Next]_vars PROVE LockHeldBySigner'
  OBVIOUS
<1> USE ThreadsAssumption
<1> USE DEF TypeOK, LockHeldBySigner
<1>1. CASE Tick \/ StepClock \/ Suspend \/ Sleep \/ Resume \/ UNCHANGED vars
  BY <1>1 DEF Tick, StepClock, Suspend, Sleep, Resume, vars
<1>2. ASSUME NEW t \in Threads, Thread(t) PROVE LockHeldBySigner'
  <2>1. CASE GetToken(t) \/ Acquire(t) \/ Return(t)
    BY <2>1 DEF GetToken, HandOut, Acquire, Return
  <2>2. CASE RecheckHit(t) \/ CannotSign(t) \/ StartSigning(t)
    BY <2>2 DEF RecheckHit, HandOut, CannotSign, StartSigning
  <2>3. CASE CreateToken(t) \/ SigningPanics(t)
    BY <2>3 DEF CreateToken, HandOut, SigningPanics
  <2> QED
    BY <1>2, <2>1, <2>2, <2>3 DEF Thread
<1> QED
  BY <1>1, <1>2 DEF Next

(* Only the signer makes the cache fresh, and it stops signing by that.    *)
LEMMA NextNoRedundantSigning == IInv /\ [Next]_vars => NoRedundantSigning'
<1> SUFFICES ASSUME IInv, [Next]_vars PROVE NoRedundantSigning'
  OBVIOUS
<1> USE TimesAssumption
<1> USE DEF IInv, TypeOK, NoRedundantSigning, Fresh
<1>1. CASE Tick
  BY <1>1, CountDown DEF Tick
<1>2. CASE Sleep
  <2>1. cache'.left = cache.left \/ cache'.left = Monus(cache.left, 1)
    BY <1>2 DEF Sleep
  <2>2. cache.left \in Nat /\ cache'.left <= cache.left
    BY <2>1, CountDown
  <2> QED
    BY <1>2, <2>2, <2>1, CountDown DEF Sleep
<1>3. CASE StepClock \/ Suspend \/ Resume \/ UNCHANGED vars
  BY <1>3 DEF StepClock, Suspend, Resume, vars
<1>4. ASSUME NEW t \in Threads, Thread(t) PROVE NoRedundantSigning'
  <2>1. CASE GetToken(t) \/ Acquire(t) \/ Return(t)
    BY <2>1 DEF GetToken, HandOut, Acquire, Return
  <2>2. CASE RecheckHit(t) \/ CannotSign(t) \/ StartSigning(t)
    BY <2>2 DEF RecheckHit, HandOut, CannotSign, StartSigning
  <2>3. CASE CreateToken(t)
    <3>1. \A u \in Threads : pc'[u] # "signing"
      BY <2>3 DEF CreateToken, HandOut, LockHeldBySigner
    <3> QED
      BY <3>1
  <2>4. CASE SigningPanics(t)
    BY <2>4 DEF SigningPanics
  <2> QED
    BY <1>4, <2>1, <2>2, <2>3, <2>4 DEF Thread
<1> QED
  BY <1>1, <1>2, <1>3, <1>4 DEF Next

-----------------------------------------------------------------------------
(* While a thread signs, its timer counts what the JWT loses.              *)
LEMMA NextSigning == IInv /\ [Next]_vars => SigningInv'
<1> SUFFICES ASSUME IInv, [Next]_vars PROVE SigningInv'
  OBVIOUS
<1> USE TimesAssumption
<1> USE DEF IInv, TypeOK, SigningInv
<1>1. CASE Tick
  <2> SUFFICES ASSUME NEW t \in Threads, pc'[t] = "signing"
               PROVE  /\ spent'[t] <= SignTime
                      /\ tok'[t].honest =>
                            tok'[t].early = 0 /\ tok'[t].live + spent'[t] >= Limit
    OBVIOUS
  <2>1. /\ pc[t] = "signing" /\ spent[t] < SignTime
        /\ spent'[t] = spent[t] + 1
        /\ tok'[t] = Older(tok[t])
    BY <1>1 DEF Tick, Busy
  <2>2. tok[t] \in Jwt /\ spent[t] \in Nat
    OBVIOUS
  <2>3. tok[t].live \in Nat /\ tok[t].early \in Nat
    BY <2>2 DEF Jwt
  <2> QED
    BY <2>1, <2>2, <2>3, OlderJwt, CountDown
<1>2. CASE Sleep
  BY <1>2, SleptJwt DEF Sleep
<1>3. CASE StepClock \/ Suspend \/ Resume \/ UNCHANGED vars
  BY <1>3 DEF StepClock, Suspend, Resume, vars
<1>4. ASSUME NEW t \in Threads, Thread(t) PROVE SigningInv'
  <2>1. CASE GetToken(t) \/ Acquire(t) \/ Return(t)
    BY <2>1 DEF GetToken, HandOut, Acquire, Return
  <2>2. CASE RecheckHit(t) \/ CannotSign(t)
    BY <2>2 DEF RecheckHit, HandOut, CannotSign
  <2>3. CASE StartSigning(t)
    <3>1. wall \in Int
      BY <2>3, WallAssumption DEF StartSigning
    <3> QED
      BY <2>3, <3>1, SignedJwt DEF StartSigning
  <2>4. CASE CreateToken(t) \/ SigningPanics(t)
    BY <2>4 DEF CreateToken, HandOut, SigningPanics
  <2> QED
    BY <1>4, <2>1, <2>2, <2>3, <2>4 DEF Thread
<1> QED
  BY <1>1, <1>2, <1>3, <1>4 DEF Next

-----------------------------------------------------------------------------
(* The two clocks run at one speed while the host is awake; a night's      *)
(* sleep takes the honesty of every JWT with it.                           *)
LEMMA NextAge == IInv /\ [Next]_vars => AgeInv'
<1> SUFFICES ASSUME IInv, [Next]_vars PROVE AgeInv'
  OBVIOUS
<1> USE TimesAssumption
<1> USE DEF IInv, TypeOK, AgeInv, Fresh
<1>a. /\ cache.jwt \in Jwt /\ cache.left \in Nat
      /\ cache.jwt.live \in Nat /\ cache.jwt.early \in Nat
  BY DEF Jwt
<1>1. CASE Tick
  <2>1. cache'.jwt = Older(cache.jwt) /\ cache'.left = Monus(cache.left, 1)
    BY <1>1 DEF Tick
  <2>2. cache'.left > 0 /\ cache'.jwt.honest
           => /\ cache'.jwt.early = 0
              /\ cache'.jwt.live + Validity + SignTime >= Limit + cache'.left
    BY <2>1, <1>a, OlderJwt, CountDown
  <2>3. ASSUME NEW t \in Threads, pc'[t] = "ready", tok'[t].honest
        PROVE  /\ tok'[t].early = 0
               /\ tok'[t].live + Validity + SignTime + spent'[t] >= Limit + 1
    <3>1. /\ pc[t] = "ready" /\ spent'[t] = spent[t] + 1
          /\ tok'[t] = Older(tok[t])
      BY <1>1, <2>3 DEF Tick, Busy
    <3>2. tok[t] \in Jwt /\ spent[t] \in Nat
      OBVIOUS
    <3>3. tok[t].live \in Nat /\ tok[t].early \in Nat
      BY <3>2 DEF Jwt
    <3>4. /\ tok[t].honest /\ tok'[t].early = Monus(tok[t].early, 1)
          /\ tok'[t].live = Monus(tok[t].live, 1)
      BY <2>3, <3>1, <3>2, OlderJwt
    <3>5. tok[t].early = 0 /\ tok[t].live + Validity + SignTime + spent[t] >= Limit + 1
      BY <3>1, <3>4
    <3>6. Monus(tok[t].live, 1) \in Nat /\ tok[t].live <= Monus(tok[t].live, 1) + 1
      BY <3>3, CountDown
    <3>7. tok'[t].early = 0
      BY <3>4, <3>5, CountDown
    <3> HIDE DEF IInv, TypeOK, AgeInv, Fresh
    <3> QED
      BY <3>1, <3>2, <3>3, <3>4, <3>5, <3>6, <3>7
  <2> QED
    BY <2>2, <2>3
<1>2. CASE Sleep
  <2>1. ~cache'.jwt.honest
    BY <1>2, SleptJwt DEF Sleep
  <2>2. \A t \in Threads : ~tok'[t].honest
    BY <1>2, SleptJwt DEF Sleep
  <2> QED
    BY <2>1, <2>2
<1>3. CASE StepClock \/ Suspend \/ Resume \/ UNCHANGED vars
  BY <1>3 DEF StepClock, Suspend, Resume, vars
<1>4. ASSUME NEW t \in Threads, Thread(t) PROVE AgeInv'
  <2>1. CASE GetToken(t)
    BY <2>1, <1>a DEF GetToken, HandOut
  <2>2. CASE Acquire(t) \/ CannotSign(t) \/ Return(t)
    BY <2>2 DEF Acquire, CannotSign, Return
  <2>3. CASE RecheckHit(t)
    BY <2>3, <1>a DEF RecheckHit, HandOut
  <2>4. CASE StartSigning(t)
    BY <2>4 DEF StartSigning
  <2>5. CASE CreateToken(t)
    <3>1. /\ pc[t] = "signing" /\ tok[t] \in Jwt /\ spent[t] \in Nat
          /\ cache'.jwt = tok[t] /\ cache'.left = Validity
          /\ tok' = [tok EXCEPT ![t] = tok[t]] /\ spent' = [spent EXCEPT ![t] = 0]
          /\ pc' = [pc EXCEPT ![t] = "ready"]
      BY <2>5 DEF CreateToken, HandOut
    <3>2. tok[t].live \in Nat
      BY <3>1 DEF Jwt
    <3>3. tok[t].honest => tok[t].early = 0 /\ tok[t].live + SignTime >= Limit
      BY <3>1, <3>2 DEF SigningInv
    <3>4. cache'.left > 0 /\ cache'.jwt.honest
             => /\ cache'.jwt.early = 0
                /\ cache'.jwt.live + Validity + SignTime >= Limit + cache'.left
      BY <3>1, <3>2, <3>3
    <3>5. ASSUME NEW u \in Threads, pc'[u] = "ready", tok'[u].honest
          PROVE  /\ tok'[u].early = 0
                 /\ tok'[u].live + Validity + SignTime + spent'[u] >= Limit + 1
      <4>1. CASE u = t
        <5>1. tok'[u] = tok[t] /\ spent'[u] = 0
          BY <3>1, <4>1
        <5> QED
          BY <3>2, <3>3, <3>5, <5>1
      <4>2. CASE u # t
        BY <3>1, <3>5, <4>2
      <4> QED
        BY <4>1, <4>2
    <3> QED
      BY <3>4, <3>5
  <2>6. CASE SigningPanics(t)
    BY <2>6 DEF SigningPanics
  <2> QED
    BY <1>4, <2>1, <2>2, <2>3, <2>4, <2>5, <2>6 DEF Thread
<1> QED
  BY <1>1, <1>2, <1>3, <1>4 DEF Next

LEMMA NextIInv == IInv /\ [Next]_vars => IInv'
BY NextTypeOK, NextLock, NextNoRedundantSigning, NextSigning, NextAge DEF IInv

LEMMA Invariance == Spec => []IInv
BY InitIInv, NextIInv, PTL DEF Spec

-----------------------------------------------------------------------------
(* The model's variables keep their types (access_token, refresh_lock and  *)
(* the callers of get_token).                                              *)
THEOREM TypeCorrect == Spec => []TypeOK
<1>1. IInv => TypeOK
  BY DEF IInv
<1> QED
  BY <1>1, Invariance, PTL

(* At most one thread is between refresh_lock.lock() and the drop of its   *)
(* guard, whatever fails or panics.                                        *)
THEOREM MutualExclusion == Spec => []LockHeldBySigner
<1>1. IInv => LockHeldBySigner
  BY DEF IInv
<1> QED
  BY <1>1, Invariance, PTL

(* create_token never signs while the cached JWT would do. *)
THEOREM OneSignerPerExpiry == Spec => []NoRedundantSigning
<1>1. IInv => NoRedundantSigning
  BY DEF IInv
<1> QED
  BY <1>1, Invariance, PTL

(* APNS accepts every JWT of get_token that is cached, or in use no longer *)
(* than the limit leaves after validity and signature, as long as both     *)
(* clocks could be trusted.                                                *)
THEOREM HonestJwt == Spec => []HonestJwtInTime
<1>1. IInv => HonestJwtInTime
  <2> SUFFICES ASSUME IInv PROVE HonestJwtInTime
    OBVIOUS
  <2> USE TimesAssumption
  <2>1. ASSUME Fresh, cache.jwt.honest, Validity + SignTime <= Limit
        PROVE  Accepted(cache.jwt)
    <3>1. cache.jwt.live \in Nat /\ cache.left \in Nat
      BY DEF IInv, TypeOK, Jwt
    <3>2. cache.jwt.early = 0 /\ cache.jwt.live + Validity + SignTime >= Limit + cache.left
      BY <2>1 DEF IInv, AgeInv
    <3>3. cache.left > 0
      BY <2>1 DEF Fresh
    <3>4. cache.jwt.live > 0
      BY <2>1, <3>1, <3>2, <3>3
    <3> QED
      BY <3>2, <3>4 DEF Accepted
  <2>2. ASSUME NEW t \in Threads, pc[t] = "ready", tok[t].honest,
               spent[t] + Validity + SignTime <= Limit
        PROVE  Accepted(tok[t])
    <3>1. tok[t].live \in Nat /\ spent[t] \in Nat
      BY DEF IInv, TypeOK, Jwt
    <3>2. tok[t].early = 0 /\ tok[t].live + Validity + SignTime + spent[t] >= Limit + 1
      BY <2>2 DEF IInv, AgeInv
    <3>3. tok[t].live > 0
      BY <2>2, <3>1, <3>2
    <3> QED
      BY <3>2, <3>3 DEF Accepted
  <2> QED
    BY <2>1, <2>2 DEF HonestJwtInTime
<1> QED
  BY <1>1, Invariance, PTL

(* No call of get_token panics for the panic of another. *)
THEOREM NoContagion == Spec => PanicIsNotContagious
<1>1. TypeOK /\ [Next]_vars =>
         [\A t \in Threads :
             pc'[t] = "panicked" /\ pc[t] # "panicked" => pc[t] = "signing"]_vars
  <2> SUFFICES ASSUME TypeOK, Next, NEW u \in Threads,
                      pc'[u] = "panicked", pc[u] # "panicked"
               PROVE  pc[u] = "signing"
    OBVIOUS
  <2> USE DEF TypeOK
  <2>1. CASE Tick \/ StepClock \/ Suspend \/ Sleep \/ Resume
    BY <2>1 DEF Tick, StepClock, Suspend, Sleep, Resume
  <2>2. ASSUME NEW t \in Threads, Thread(t) PROVE pc[u] = "signing"
    <3>1. CASE GetToken(t) \/ Acquire(t) \/ Return(t)
      BY <3>1 DEF GetToken, HandOut, Acquire, Return
    <3>2. CASE RecheckHit(t) \/ CannotSign(t) \/ StartSigning(t)
      BY <3>2 DEF RecheckHit, HandOut, CannotSign, StartSigning
    <3>3. CASE CreateToken(t) \/ SigningPanics(t)
      BY <3>3 DEF CreateToken, HandOut, SigningPanics
    <3> QED
      BY <2>2, <3>1, <3>2, <3>3 DEF Thread
  <2> QED
    BY <2>1, <2>2 DEF Next
<1> QED
  BY <1>1, TypeCorrect, PTL DEF Spec, PanicIsNotContagious
=============================================================================
