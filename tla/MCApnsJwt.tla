---------------------------- MODULE MCApnsJwt ----------------------------
(* ApnsJwt for TLC: how far the wall clock may be off.                     *)
EXTENDS ApnsJwt

WallErrors == {-2, 0, 2}
=============================================================================
