---------------------------- MODULE MCSendBatch ----------------------------
(* SendBatch for TLC: a delivery, a dead device and a lost answer.         *)
EXTENDS SendBatch

MCOutcomes == {Answer(200, "other"), Answer(404, "other"), NoAnswer("timeout")}
=============================================================================
