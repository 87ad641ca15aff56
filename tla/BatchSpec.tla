----------------------------- MODULE BatchSpec -----------------------------
(***************************************************************************)
(* What a batch send promises, whoever implements it: each token of the    *)
(* batch gets a verdict of its own, once; the caller is answered once,     *)
(* when every token has its verdict, with the verdicts in the order of the *)
(* tokens; or the whole batch is refused, and every token gets that one    *)
(* verdict.                                                                *)
(***************************************************************************)
EXTENDS Naturals, Sequences

CONSTANTS
    MaxTokens,  \* the longest batch
    Verdicts,   \* what a send may return
    Pending     \* no verdict yet

VARIABLES
    n,        \* the number of tokens
    verdict,  \* the verdict of each token
    status,   \* open, replied, or dropped by the caller
    reply     \* the caller's answer, once status is replied

batchVars == <<n, verdict, status, reply>>

Init ==
    /\ n \in 0 .. MaxTokens
    /\ verdict = [i \in 1 .. n |-> Pending]
    /\ status = "open"
    /\ reply = <<>>

Settle(i, v) ==
    /\ status = "open"
    /\ verdict[i] = Pending
    /\ verdict' = [verdict EXCEPT ![i] = v]
    /\ UNCHANGED <<n, status, reply>>

Refuse(v) ==
    /\ status = "open"
    /\ \A i \in 1 .. n : verdict[i] = Pending
    /\ verdict' = [i \in 1 .. n |-> v]
    /\ status' = "replied"
    /\ reply' = [i \in 1 .. n |-> v]
    /\ UNCHANGED n

Reply ==
    /\ status = "open"
    /\ \A i \in 1 .. n : verdict[i] # Pending
    /\ status' = "replied"
    /\ reply' = verdict
    /\ UNCHANGED <<n, verdict>>

Drop ==
    /\ status = "open"
    /\ status' = "dropped"
    /\ UNCHANGED <<n, verdict, reply>>

Next ==
    \/ \E i \in 1 .. n, v \in Verdicts : Settle(i, v)
    \/ \E v \in Verdicts : Refuse(v)
    \/ Reply
    \/ Drop

Spec == Init /\ [][Next]_batchVars
=============================================================================
