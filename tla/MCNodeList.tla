----------------------------- MODULE MCNodeList -----------------------------
(***************************************************************************)
(* Instances of NodeList for TLC.                                          *)
(***************************************************************************)
EXTENDS NodeList, TLC

CONSTANTS self, a, b
TwoMacs == {self, a}
ThreeMacs == {self, a, b}

\* Every node but this one can take the place of any other.
OtherNodes == Permutations({a, b})
=============================================================================
