-------------------------- MODULE MCScopeTransport --------------------------
(* Two scopes that follow each other, and handler threads that meet in every *)
(* order.                                                                   *)
EXTENDS ScopeTransport, TLC
=============================================================================
