----------------------------- MODULE FcmExpiry -----------------------------
(***************************************************************************)
(* FcmAuth with a history variable that counts the token exchanges one     *)
(* burst of waiters makes: how many were started since the cached token    *)
(* was last fresh or nobody held or waited for the refresh lock.  A call   *)
(* made after an earlier one has failed with nobody waiting counts anew.   *)
(* The count stops at two.                                                 *)
(***************************************************************************)
EXTENDS FcmAuth

VARIABLE exchanges

expiryVars == <<vars, exchanges>>

StartsExchange == \E t \in Tasks : pc[t] = "recheck" /\ pc'[t] = "exchange"

NobodyRefreshes == holder = NoTask /\ Queued = {}

ExpiryInit == Init /\ exchanges = 0

ExpiryNext ==
    /\ Next
    /\ exchanges' = IF Fresh' \/ NobodyRefreshes' THEN 0
                    ELSE IF StartsExchange THEN Lesser(exchanges + 1, 2)
                    ELSE exchanges

ExpirySpec == ExpiryInit /\ [][ExpiryNext]_expiryVars

(* fcm.rs:262, on refresh_lock: "Waiters now queue here and re-check the   *)
(* cache after acquiring, so exactly one exchange happens per expiry."     *)
OneExchangePerExpiry == exchanges <= 1
=============================================================================
