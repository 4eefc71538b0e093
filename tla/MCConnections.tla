---------------------------- MODULE MCConnections ----------------------------
(* The owner in two tabs, and two writes that lease the credential.          *)
EXTENDS Connections, TLC

MCSymmetry == Permutations(OwnerTabs) \cup Permutations(Writers)
=============================================================================
