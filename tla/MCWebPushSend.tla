--------------------------- MODULE MCWebPushSend ---------------------------
(* WebPushSend for TLC.                                                    *)
EXTENDS WebPushSend, TLC

Symmetry == Permutations(Tasks)
=============================================================================
