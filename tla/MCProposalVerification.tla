----------------------- MODULE MCProposalVerification -----------------------
(* Two runs and a verifier; withdrawals are of two pairs.                   *)
EXTENDS ProposalVerification

CONSTANTS r1, r2

TwoPairs == <<"first", "second">>
=============================================================================
