--------------------------- MODULE MCBracketStrategy ---------------------------
(* Instances of BracketStrategy with every price around the limits.         *)
EXTENDS BracketStrategy

PricesAround == -4..16
=============================================================================
