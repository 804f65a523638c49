--------------------------- MODULE MCSafeProposals ---------------------------
(* Instances of SafeProposals with up to three invocations of scripts.      *)
EXTENDS SafeProposals

CONSTANTS r1, r2, r3

(* Runs differ only by the arguments they are started with.                 *)
AnyRun == Permutations(Runs)
=============================================================================
