------------------------- MODULE MCDeployedBrackets -------------------------
(* Three brackets, one of another master Safe, trading two of three tokens. *)
EXTENDS DeployedBrackets, TLC

CONSTANTS b1, b2, b3, t1, t2

(* Two ids that the exchange maps to tokens, one of them in the list.       *)
TwoIds     == 1 :> t1 @@ 2 :> t2
BothFactories == b1 :> "plain" @@ b2 :> "deterministic" @@ b3 :> "plain"
BothWays   == {<<1, 2>>, <<2, 1>>}
=============================================================================
