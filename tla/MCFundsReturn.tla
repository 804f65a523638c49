----------------------------- MODULE MCFundsReturn -----------------------------
(* A small instance of FundsReturn.                                        *)
EXTENDS FundsReturn

CONSTANTS b1, b2, base, quote

OneBracket == << <<b1, base>>, <<b1, quote>> >>
TwoBrackets == << <<b1, base>>, <<b2, base>>, <<b1, quote>>, <<b2, quote>> >>
=============================================================================
