--------------------------- MODULE MCLiquidityFunds ---------------------------
(* Small instances of LiquidityFunds.                                      *)
EXTENDS LiquidityFunds

CONSTANTS b1, b2, base, quote

(* Bundles list entries by token, then by bracket.                         *)
OneBracket  == << <<b1, base>>, <<b1, quote>> >>
TwoBrackets == << <<b1, base>>, <<b2, base>>, <<b1, quote>>, <<b2, quote>> >>
=============================================================================
