------------------------------ MODULE FcmSend ------------------------------
(***************************************************************************)
(* The FCM provider at work: every task calls send or send_batch, which    *)
(* get an access token from FcmAuth and then send with that one token, the *)
(* batch through a window of Window requests.                              *)
(*                                                                         *)
(* Here time is compared with the token's validity, so the steps that take *)
(* no time to speak of (polling a future that can run, posting the first   *)
(* request once the token is there) are taken before time passes; only     *)
(* HTTP takes time, at most Timeout for a request.                         *)
(*                                                                         *)
(* A job is one call: op is send or batch, at is where it is (auth while   *)
(* it is in get_access_token), tok the token it sends with, req the state  *)
(* of each of its requests, and since the time since the call began.       *)
(***************************************************************************)
EXTENDS FcmAuth, FiniteSets

CONSTANTS
    Window,     \* BATCH_CONCURRENCY
    BatchSize   \* the number of tokens of a batch

ASSUME BatchAssumption == Window \in Nat \ {0} /\ BatchSize \in Nat \ {0}
ASSUME SizeAssumption  == IsFiniteSet(Tasks)

VARIABLE job

sendVars == <<vars, job>>

NoRequest == [at |-> "waiting", age |-> 0]
NoJob == [op |-> "none", at |-> "none", tok |-> NoToken, yielded |-> 0,
          req |-> <<>>, since |-> 0]

Size(op) == IF op = "send" THEN 1 ELSE BatchSize

Requests(t) == DOMAIN job[t].req

(* buffered: the requests it may have started. *)
Pullable(t) ==
    {i \in Requests(t) : /\ job[t].req[i].at = "waiting"
                         /\ i <= job[t].yielded + Window}

Yieldable(t) ==
    LET head == job[t].yielded + 1 IN
    head \in Requests(t) /\ job[t].req[head].at \notin {"waiting", "flight"}

InFlight(t) == {i \in Requests(t) : job[t].req[i].at = "flight"}

SendInit == Init /\ job = [t \in Tasks |-> NoJob]

-----------------------------------------------------------------------------
(* send and send_batch begin with get_access_token ... *)
Call(t, op) ==
    /\ job[t] = NoJob
    /\ GetAccessToken(t)
    /\ job' = [job EXCEPT ![t].op = op, ![t].at = "auth"]

Authenticate(t) ==
    /\ job[t].at = "auth"
    /\ \/ Lock(t)
       \/ Acquire(t)
       \/ RecheckHit(t)
       \/ StartExchange(t)
       \/ ClockBeforeEpoch(t)
       \/ \E life \in Lifetimes : Mint(t, life)
       \/ Receive(t)
       \/ \E e \in ExchangeErrors : ExchangeFails(t, e)
    /\ UNCHANGED job

(* ... which may fail, and the call with it, or panic, or be dropped ...   *)
NotAuthenticated(t) ==
    /\ job[t].at = "auth"
    /\ \/ pc[t] = "failed" /\ Return(t)
       \/ ExpiryOverflows(t)
       \/ CancelQueued(t)
       \/ CancelExchange(t)
    /\ job' = [job EXCEPT ![t] = NoJob]

(* ... and go on with the one token it returned. *)
StartSending(t) ==
    /\ job[t].at = "auth"
    /\ pc[t] = "ready"
    /\ Return(t)
    /\ job' = [job EXCEPT ![t].at = "sending",
                          ![t].tok = tok[t],
                          ![t].req = [i \in 1 .. Size(job[t].op) |-> NoRequest]]

(* The window has room: the next requests are posted. *)
Post(t) ==
    /\ Pullable(t) # {}
    /\ job' = [job EXCEPT ![t].req =
                  [i \in Requests(t) |->
                      IF i \in Pullable(t) THEN [at |-> "flight", age |-> 0]
                                           ELSE job[t].req[i]]]
    /\ UNCHANGED vars

(* FCM looks at the token when the request arrives: 401 if it has expired  *)
(* or was revoked, anything else otherwise.                                *)
Serve(t, i) ==
    /\ i \in InFlight(t)
    /\ LET accepted == job[t].tok.live > 0 /\ ~job[t].tok.revoked IN
       job' = [job EXCEPT ![t].req[i] =
                  [at |-> IF accepted THEN "answered" ELSE "unauthorized",
                   age |-> 0]]
    /\ UNCHANGED vars

(* The request fails in transport or times out. *)
Lose(t, i) ==
    /\ i \in InFlight(t)
    /\ job' = [job EXCEPT ![t].req[i] = [at |-> "lost", age |-> 0]]
    /\ UNCHANGED vars

(* collect takes the result of the first request not yielded. *)
Yield(t) ==
    /\ Yieldable(t)
    /\ job' = [job EXCEPT ![t].yielded = @ + 1]
    /\ UNCHANGED vars

(* The call returns its results; a 401 among them changes nothing here.    *)
Finish(t) ==
    /\ job[t].at = "sending"
    /\ job[t].yielded = Size(job[t].op)
    /\ job' = [job EXCEPT ![t] = NoJob]
    /\ UNCHANGED vars

(* The caller drops the call while it waits for an answer. *)
DropCall(t) ==
    /\ InFlight(t) # {}
    /\ job' = [job EXCEPT ![t] = NoJob]
    /\ UNCHANGED vars

-----------------------------------------------------------------------------
(* Something can run without waiting for the network or for a lock.        *)
CanRun(t) ==
    \/ pc[t] \in {"lock", "recheck", "ready", "failed"}
    \/ pc[t] = "queued" /\ holder = NoTask /\ ahead[t] = {}
    \/ Pullable(t) # {}
    \/ Yieldable(t)
    \/ job[t].at = "sending" /\ job[t].yielded = Size(job[t].op)

OlderJob(j) ==
    IF j = NoJob THEN NoJob
    ELSE [j EXCEPT !.tok = Older(j.tok),
                   !.since = @ + 1,
                   !.req = [i \in DOMAIN j.req |->
                               IF j.req[i].at = "flight"
                               THEN [j.req[i] EXCEPT !.age = @ + 1] ELSE j.req[i]]]

(* A definition named Bug... is a fault the properties must detect: it is  *)
(* what the definition after it would be with a plausible mistake in it.   *)
BugNoSendTimeout ==
    /\ \A t \in Tasks : ~CanRun(t)
    /\ Tick
    /\ job' = [t \in Tasks |-> OlderJob(job[t])]

TimePasses ==
    /\ \A t \in Tasks : ~CanRun(t)
    /\ \A t \in Tasks : \A i \in InFlight(t) : job[t].req[i].age < Timeout
    /\ Tick
    /\ job' = [t \in Tasks |-> OlderJob(job[t])]

TokensRevoked ==
    /\ Revoke
    /\ job' = [t \in Tasks |->
                  IF job[t].tok = NoToken THEN job[t]
                  ELSE [job[t] EXCEPT !.tok = Revoked(@)]]

Job(t) ==
    \/ \E op \in {"send", "batch"} : Call(t, op)
    \/ Authenticate(t)
    \/ NotAuthenticated(t)
    \/ StartSending(t)
    \/ Post(t)
    \/ \E i \in Requests(t) : Serve(t, i) \/ Lose(t, i)
    \/ Yield(t)
    \/ Finish(t)
    \/ DropCall(t)

SendNext == TimePasses \/ TokensRevoked \/ \E t \in Tasks : Job(t)

SendSpec == SendInit /\ [][SendNext]_sendVars

-----------------------------------------------------------------------------
(* Properties *)

SendTypeOK ==
    /\ TypeOK
    /\ \A t \in Tasks :
          /\ job[t].op \in {"none", "send", "batch"}
          /\ job[t].at \in {"none", "auth", "sending"}
          /\ job[t].tok \in [life : Nat, live : Nat, revoked : BOOLEAN]
          /\ job[t].yielded \in 0 .. BatchSize
          /\ \A i \in Requests(t) : job[t].req[i].age \in 0 .. Timeout

(* The wave a request of a batch starts in, counting from 0: the requests  *)
(* before it take at most Timeout a wave.                                  *)
Wave(i) == (i - 1) \div Window

(* Why the skew is at least twice the timeout (60 and 30 seconds): a token *)
(* lasts through the exchange it came from and the request it is used for, *)
(* so a request is not refused for an expired token.  A batch sends with   *)
(* one token from first to last: each further wave needs one more timeout  *)
(* of skew, and the requests beyond that are not covered.  A token the     *)
(* server gives a life within the skew is not covered either.              *)
NoExpiredTokenSent ==
    \A t \in Tasks : \A i \in Requests(t) :
       /\ job[t].req[i].at = "unauthorized"
       /\ (Wave(i) + 2) * Timeout <= Skew
       => job[t].tok.revoked \/ job[t].tok.life <= Skew

(* A send ends within a bound however the exchanges of other tasks go: it  *)
(* waits for each other task's exchange at most once, then for its own and *)
(* for its request.  The timeout of the configuration is per request; this *)
(* is what it amounts to for a call.                                       *)
SendEndsInTime ==
    \A t \in Tasks :
       job[t].op = "send" => job[t].since <= (Cardinality(Tasks) + 1) * Timeout
=============================================================================
