-------------------------- MODULE MCPinnedClients --------------------------
(* PinnedClients for TLC: an address of each kind the vetting tells apart. *)
EXTENDS PinnedClients

MCLoopback  == {"loopback"}
MCInternal  == {"private"} \cup MCLoopback
MCAddresses == {"public"} \cup MCInternal
=============================================================================
