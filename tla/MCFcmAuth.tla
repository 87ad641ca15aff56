----------------------------- MODULE MCFcmAuth -----------------------------
(* FcmAuth for TLC: a token that is stale as soon as it is cached, one     *)
(* that is fresh for a while, and one whose expiry overflows.              *)
EXTENDS FcmAuth

MCLifetimes == {Skew, Skew + 2, MaxSpan + 1}
=============================================================================
