----------------------------- MODULE MCFcmSend -----------------------------
(* FcmSend for TLC. *)
EXTENDS FcmSend, TLC

Symmetry == Permutations(Tasks)
=============================================================================
