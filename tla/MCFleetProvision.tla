---------------------------- MODULE MCFleetProvision ----------------------------
(* Two master Safes and three runs of scripts.                              *)
EXTENDS FleetProvision, TLC

CONSTANTS m1, m2, factory, p1, p2, p3

(* A bracket of each master Safe; a fleet that the factory deployed.         *)
NamedLists == { << <<m1, 0, 1>>, <<m2, 0, 0>> >>, << <<factory, 0, 2>>, <<factory, 1, 2>> >> }

AnyProvision == Permutations(Provisions)
=============================================================================
