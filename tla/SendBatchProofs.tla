-------------------------- MODULE SendBatchProofs --------------------------
(***************************************************************************)
(* What every batch send guarantees for batches and windows of any size:   *)
(* the window, the order of the results, and that it implements BatchSpec. *)
(***************************************************************************)
EXTENDS SendBatch, ResponsesProofs, FiniteSetTheorems

(* Where the fan-out is in each phase. *)
PhaseInv ==
    /\ phase = "preparing" => /\ pulled = 0
                              /\ results = <<>>
                              /\ outcome = [i \in 1 .. n |-> Pending]
    /\ phase # "returned" => cause = Ok
    /\ phase = "returned" => Len(results) = n
    /\ cause = Ok => /\ Len(results) <= pulled
                     /\ pulled <= Len(results) + Window
                     /\ \A i \in 1 .. n : i > pulled => outcome[i] = Pending
    /\ cause # Ok => /\ pulled = 0
                     /\ cause \in PrepareErrors(entry)
                     /\ \A k \in 1 .. n : results[k] = BatchError(entry, cause)

IInv == TypeOK /\ PhaseInv /\ ResultsInTokenOrder

-----------------------------------------------------------------------------
(* Every future of a batch ends in a result a send may return.             *)
LEMMA FutureType == Future(entry) \subseteq ServiceFuture /\ ServiceFuture \subseteq SendResult
<1>1. ServiceFuture \subseteq SendResult
  <2>1. FcmFuture \subseteq SendResult
    BY ResultTypes, ErrorTypes, BatchAssumption
       DEF FcmFuture, FcmPreflightErrors, SendResult, Kinds
  <2>2. ApnsFuture \subseteq SendResult
    BY ResultTypes, BatchAssumption DEF ApnsFuture
  <2>3. WebPushFuture \subseteq SendResult
    BY ResultTypes, ErrorTypes, BatchAssumption
       DEF WebPushFuture, WebPushPreflightErrors, MalformedWebPushToken,
           SendResult, Kinds, NoStatus
  <2>4. ApnsPrepareErrors \cup {Err("Serialization"), Err("Config")} \subseteq SendResult
    BY ErrorTypes DEF ApnsPrepareErrors, SendResult, Kinds
  <2> QED
    BY <2>1, <2>2, <2>3, <2>4, ExchangeErrorTypes
       DEF ServiceFuture, TraitFuture, SendResult
<1>2. Future(entry) \subseteq ServiceFuture
  BY DEF Future, ServiceFuture, TraitFuture
<1> QED
  BY <1>1, <1>2

(* The error of a refused batch is one a single send can return as well.   *)
LEMMA RefusalType ==
    ASSUME entry \in Entries, NEW error \in PrepareErrors(entry)
    PROVE  /\ error \in PushError
           /\ error # Ok
           /\ BatchError(entry, error) \in ServiceFuture
           /\ BatchError(entry, error) \in PushError
           /\ BatchError(entry, error) # Pending
           /\ entry # "fcm" => BatchError(entry, error) = error
<1>1. error \in PushError
  BY ExchangeErrorTypes, ErrorTypes DEF PrepareErrors, ApnsPrepareErrors, Entries, Kinds
<1>2. /\ BatchError(entry, error) \in PushError
      /\ BatchError(entry, error) \in
            {Err("Config"), Err("Auth"), Err("Serialization")}
      /\ entry # "fcm" => BatchError(entry, error) = error
  BY ErrorTypes DEF PrepareErrors, ApnsPrepareErrors, Entries, BatchError,
     TokensBatchError, FcmBatchError, ApnsBatchError, WebPushBatchError,
     ClonePrepareError, Err, Kinds
<1>3. {Err("Config"), Err("Auth"), Err("Serialization")} \subseteq ServiceFuture
  BY DEF ServiceFuture, TraitFuture, ApnsPrepareErrors, ExchangeErrors
<1> QED
  BY <1>1, <1>2, <1>3, ErrorTypes, BatchAssumption DEF SendResult

-----------------------------------------------------------------------------
LEMMA InitIInv == Init => IInv
<1> SUFFICES ASSUME Init PROVE IInv
  OBVIOUS
<1> USE BatchAssumption, ErrorTypes
<1>1. TypeOK
  BY DEF Init, TypeOK, Phases
<1>2. PhaseInv
  BY DEF Init, PhaseInv
<1>3. ResultsInTokenOrder
  BY DEF Init, ResultsInTokenOrder
<1> QED
  BY <1>1, <1>2, <1>3 DEF IInv

LEMMA NextIInv == IInv /\ [Next]_vars => IInv'
<1> SUFFICES ASSUME IInv, [Next]_vars PROVE IInv'
  OBVIOUS
<1> USE BatchAssumption, ErrorTypes
<1> USE DEF IInv, TypeOK, Phases, PhaseInv, ResultsInTokenOrder
<1>1. CASE Prepare
  BY <1>1 DEF Prepare
<1>2. ASSUME NEW error \in PrepareErrors(entry), PrepareFails(error) PROVE IInv'
  <2> DEFINE r == BatchError(entry, error)
  <2>1. /\ r \in SendResult /\ r # Pending
        /\ error \in SendResult /\ error # Ok
    BY RefusalType DEF SendResult
  <2>2. /\ results' \in Seq(SendResult) /\ Len(results') = n
        /\ \A k \in 1 .. n : results'[k] = r
    BY <1>2, <2>1 DEF PrepareFails
  <2>3. TypeOK'
    BY <1>2, <2>1, <2>2 DEF PrepareFails
  <2>4. PhaseInv'
    BY <1>2, <2>1, <2>2 DEF PrepareFails
  <2>5. ResultsInTokenOrder'
    BY <1>2, <2>1, <2>2 DEF PrepareFails
  <2> QED
    BY <2>3, <2>4, <2>5
<1>3. CASE Pull
  BY <1>3 DEF Pull, Horizon
<1>4. ASSUME NEW i \in 1 .. n, NEW r \in Future(entry), Settle(i, r) PROVE IInv'
  <2>1. r \in SendResult
    BY FutureType
  <2>2. TypeOK'
    BY <1>4, <2>1 DEF Settle
  <2>3. PhaseInv'
    BY <1>4, <2>1 DEF Settle
  <2>4. ResultsInTokenOrder'
    BY <1>4, <2>1 DEF Settle
  <2> QED
    BY <2>2, <2>3, <2>4
<1>5. CASE Yield
  <2> DEFINE k == Len(results) + 1
  <2>1. k \in 1 .. n /\ outcome[k] \in SendResult /\ cause = Ok
    BY <1>5 DEF Yield
  <2>2. /\ results' \in Seq(SendResult)
        /\ Len(results') = k
        /\ \A j \in 1 .. k : results'[j] = IF j = k THEN outcome[k] ELSE results[j]
    BY <1>5, <2>1 DEF Yield
  <2>3. k <= pulled
    BY <1>5, <2>1 DEF Yield
  <2>4. TypeOK'
    BY <1>5, <2>2 DEF Yield
  <2>5. PhaseInv'
    BY <1>5, <2>1, <2>2, <2>3 DEF Yield
  <2>6. ResultsInTokenOrder'
    BY <1>5, <2>1, <2>2 DEF Yield
  <2> QED
    BY <2>4, <2>5, <2>6
<1>6. CASE Return
  BY <1>6 DEF Return
<1>7. CASE Drop
  BY <1>7 DEF Drop
<1>8. CASE UNCHANGED vars
  BY <1>8 DEF vars
<1> QED
  BY <1>1, <1>2, <1>3, <1>4, <1>5, <1>6, <1>7, <1>8 DEF Next

LEMMA Invariance == Spec => []IInv
BY InitIInv, NextIInv, PTL DEF Spec

-----------------------------------------------------------------------------
(* A batch of any length keeps its requests within the window, whatever    *)
(* the order they complete in.                                             *)
THEOREM Bounded == Spec => []WindowBound
<1>1. IInv => WindowBound
  BY BatchAssumption DEF IInv, TypeOK, PhaseInv, ResultsInTokenOrder, WindowBound
<1> QED
  BY Invariance, <1>1, PTL

(* The results are the tokens' own, in the order of the tokens. *)
THEOREM InOrder == Spec => []ResultsInTokenOrder
<1>1. IInv => ResultsInTokenOrder
  BY DEF IInv
<1> QED
  BY Invariance, <1>1, PTL

(* A failed preparation is reported for every token, as what it was. *)
THEOREM PrepareErrorKept == Spec => []PrepareErrorForEveryToken
<1>1. IInv => PrepareErrorForEveryToken
  BY RefusalType DEF IInv, TypeOK, PhaseInv, PrepareErrorForEveryToken
<1> QED
  BY Invariance, <1>1, PTL

-----------------------------------------------------------------------------
LEMMA InitRefines == Init => Batch!Init
BY DEF Init, Batch!Init

LEMMA NextRefines == IInv /\ [Next]_vars => [Batch!Next]_(Batch!batchVars)
<1> SUFFICES ASSUME IInv, [Next]_vars
             PROVE  Batch!Next \/ UNCHANGED Batch!batchVars
  OBVIOUS
<1> USE BatchAssumption
<1> USE DEF IInv, TypeOK, Phases, PhaseInv
<1>1. CASE Prepare \/ Pull
  BY <1>1 DEF Prepare, Pull, Batch!batchVars
<1>2. ASSUME NEW error \in PrepareErrors(entry), PrepareFails(error)
      PROVE  Batch!Next
  <2>1. BatchError(entry, error) \in ServiceFuture
    BY RefusalType
  <2>2. Batch!Refuse(BatchError(entry, error))
    BY <1>2 DEF PrepareFails, Batch!Refuse
  <2> QED
    BY <2>1, <2>2 DEF Batch!Next
<1>3. ASSUME NEW i \in 1 .. n, NEW r \in Future(entry), Settle(i, r)
      PROVE  Batch!Next
  <2>1. Batch!Settle(i, r)
    BY <1>3 DEF Settle, Batch!Settle
  <2> QED
    BY <2>1, FutureType DEF Batch!Next
<1>4. CASE Yield
  BY <1>4 DEF Yield, Batch!batchVars
<1>5. CASE Return
  <2>1. results = outcome
    BY <1>5 DEF Return, ResultsInTokenOrder
  <2>2. \A i \in 1 .. n : outcome[i] # Pending
    BY <1>5 DEF Return, ResultsInTokenOrder
  <2>3. Batch!Reply
    BY <1>5, <2>1, <2>2 DEF Return, Batch!Reply
  <2> QED
    BY <2>3 DEF Batch!Next
<1>6. CASE Drop
  <2>1. Batch!Drop
    BY <1>6 DEF Drop, Batch!Drop
  <2> QED
    BY <2>1 DEF Batch!Next
<1>7. CASE UNCHANGED vars
  BY <1>7 DEF vars, Batch!batchVars
<1> QED
  BY <1>1, <1>2, <1>3, <1>4, <1>5, <1>6, <1>7 DEF Next

(* The types hold for batches and windows of any size: every result a      *)
(* caller reads is Ok or an error of the crate, whatever the services say. *)
THEOREM TypeCorrect == Spec => []TypeOK
<1>1. IInv => TypeOK
  BY DEF IInv
<1> QED
  BY <1>1, Invariance, PTL

(* Each of the six batch sends implements BatchSpec. *)
THEOREM Refinement == Spec => ImplementsBatch
BY InitRefines, Invariance, NextRefines, PTL DEF Spec, ImplementsBatch, Batch!Spec

-----------------------------------------------------------------------------
(* Why a batch ends, as far as it goes without fairness.                   *)

Open == {i \in 1 .. n : outcome[i] = Pending}

(* What a batch has still to do: its phases, the futures to start, to      *)
(* complete and to yield.                                                  *)
Work ==
    (IF phase = "preparing" THEN 2 ELSE IF phase = "sending" THEN 1 ELSE 0)
    + (n - pulled) + Cardinality(Open) + (n - Len(results))

LEMMA PlacesFinite ==
    ASSUME NEW k \in Nat, NEW S \in SUBSET (1 .. k)
    PROVE  IsFiniteSet(S) /\ Cardinality(S) \in Nat
<1>1. IsFiniteSet(1 .. k)
  BY FS_Interval
<1>2. IsFiniteSet(S)
  BY <1>1, FS_Subset
<1> QED
  BY <1>2, FS_CardinalityType

(* Every step of a batch leaves less to do, be it the preparation that     *)
(* fails or the caller that drops the call: no future is polled again once *)
(* it has completed, and no result is yielded twice.  So a batch of n      *)
(* tokens is over after 3n + 2 steps, however they interleave.             *)
WorkGetsLess == [][Work' < Work /\ Work' \in Nat]_vars

LEMMA StepGetsLess ==
    ASSUME IInv, Next
    PROVE  Work' < Work /\ Work' \in Nat
<1> DEFINE C == Cardinality(Open)
<1> USE DEF IInv, TypeOK, Phases, PhaseInv, ResultsInTokenOrder
<1>1. /\ C \in Nat /\ n \in Nat /\ pulled \in 0 .. n /\ Len(results) \in 0 .. n
      /\ IsFiniteSet(Open)
  <2>1. n \in Nat /\ Len(results) \in Nat /\ Len(results) <= n
    BY BatchAssumption
  <2>2. Open \in SUBSET (1 .. n)
    BY DEF Open
  <2>3. IsFiniteSet(Open) /\ C \in Nat
    BY <2>1, <2>2, PlacesFinite
  <2>4. pulled \in 0 .. n
    OBVIOUS
  <2> HIDE DEF C, IInv, TypeOK
  <2> QED
    BY <2>1, <2>3, <2>4
<1>2. IInv'
  BY NextIInv
<1>3. /\ C' \in Nat /\ n' \in Nat /\ pulled' \in 0 .. n' /\ Len(results') \in 0 .. n'
  <2>1. n' \in Nat /\ Len(results') \in Nat /\ Len(results') <= n'
    BY <1>2, BatchAssumption
  <2>2. Open' \in SUBSET (1 .. n')
    BY DEF Open
  <2>3. C' \in Nat
    BY <2>1, <2>2, PlacesFinite
  <2>4. pulled' \in 0 .. n'
    BY <1>2
  <2> HIDE DEF C, IInv, TypeOK
  <2> QED
    BY <2>1, <2>3, <2>4
<1> HIDE DEF C
<1>4. CASE Prepare
  <2>1. C' = C
    BY <1>4 DEF Prepare, Open, C
  <2> QED
    BY <1>1, <1>4, <2>1 DEF Prepare, Work, C
<1>5. ASSUME NEW error \in PrepareErrors(entry), PrepareFails(error) PROVE Work' < Work
  <2>1. /\ phase = "preparing" /\ phase' = "returned" /\ n' = n /\ pulled' = pulled
    BY <1>5 DEF PrepareFails
  <2>2. results = <<>> /\ Len(results) = 0
    BY <2>1
  <2>3. C' <= C
    <3>1. Open' \subseteq Open
      BY <2>1 DEF Open
    <3> QED
      BY <3>1, <1>1, FS_Subset DEF C
  <2> QED
    BY <1>1, <1>3, <2>1, <2>2, <2>3 DEF Work, C
<1>6. CASE Pull
  <2>1. C' = C /\ n' = n /\ results' = results /\ phase' = phase /\ pulled' > pulled
    <3>1. Horizon \in Nat
      BY <1>1, BatchAssumption DEF Horizon
    <3> QED
      BY <1>1, <1>6, <3>1 DEF Pull, Open, C
  <2> QED
    BY <1>1, <1>3, <2>1 DEF Work, C
<1>7. ASSUME NEW i \in 1 .. n, NEW r \in Future(entry), Settle(i, r) PROVE Work' < Work
  <2>1. r # Pending
    BY FutureType, BatchAssumption
  <2>2. /\ n' = n /\ results' = results /\ phase' = phase /\ pulled' = pulled
        /\ i \in Open /\ Open' = Open \ {i}
    BY <1>7, <2>1 DEF Settle, Open
  <2>3. C' = C - 1
    BY <2>2, <1>1, FS_RemoveElement DEF C
  <2> QED
    BY <1>1, <2>2, <2>3 DEF Work, C
<1>8. CASE Yield
  <2>1. C' = C /\ n' = n /\ phase' = phase /\ pulled' = pulled
    BY <1>8 DEF Yield, Open, C
  <2>2. Len(results') = Len(results) + 1
    BY <1>8 DEF Yield
  <2> QED
    BY <1>1, <1>3, <2>1, <2>2 DEF Work, C
<1>9. CASE Return \/ Drop
  <2>1. C' = C
    BY <1>9 DEF Return, Drop, Open, C
  <2> QED
    BY <1>1, <1>9, <2>1 DEF Return, Drop, Work, C
<1>10. Work' \in Nat
  BY <1>3 DEF Work, C
<1> QED
  BY <1>4, <1>5, <1>6, <1>7, <1>8, <1>9, <1>10 DEF Next

(* No batch send goes on for ever, for batches and windows of any size.    *)
THEOREM BatchesShrink == Spec => WorkGetsLess
<1>1. IInv /\ [Next]_vars => [Work' < Work /\ Work' \in Nat]_vars
  BY StepGetsLess
<1> QED
  BY <1>1, Invariance, PTL DEF Spec, WorkGetsLess

(* A batch that is neither over nor has a step of its own to take waits    *)
(* for a request in flight, that of the first token without a result:      *)
(* buffered never waits for a future it has not started.                   *)
WaitsForARequest ==
    phase = "sending" =>
       \/ pulled < Horizon
       \/ Len(results) = n
       \/ Len(results) + 1 \in 1 .. pulled

(* The stream of a batch never waits without a request in flight or done.  *)
THEOREM NoDeadlock == Spec => []WaitsForARequest
<1>1. IInv => WaitsForARequest
  <2> SUFFICES ASSUME IInv, phase = "sending", ~(pulled < Horizon), Len(results) # n
               PROVE  Len(results) + 1 \in 1 .. pulled
    BY DEF WaitsForARequest
  <2>1. /\ n \in Nat /\ pulled \in Nat /\ Len(results) \in Nat /\ Len(results) <= n
    BY BatchAssumption DEF IInv, TypeOK, ResultsInTokenOrder
  <2>2. Len(results) + 1 <= Horizon /\ Horizon \in Nat
    BY <2>1, BatchAssumption DEF Horizon
  <2> QED
    BY <2>1, <2>2
<1> QED
  BY <1>1, Invariance, PTL
=============================================================================
