--------------------------- MODULE MCModelGateway ---------------------------
(* Two runs that follow each other through one gateway.                      *)
EXTENDS ModelGateway, TLC
=============================================================================
