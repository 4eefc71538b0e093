--------------------------- MODULE MCOwnerIdentity ---------------------------
(* One owner and two requests that overlap, from one browser.                *)
EXTENDS OwnerIdentity, TLC

MCSymmetry == Permutations(Requests)
=============================================================================
