--------------------------- MODULE MCPushService ---------------------------
(* PushService for TLC: one device of any platform, since calls for        *)
(* different devices do not interact.                                      *)
EXTENDS PushService
=============================================================================
