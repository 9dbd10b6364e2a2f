----------------------------- MODULE MCZeroProv -----------------------------
(***************************************************************************)
(* Instances of ZeroProv for TLC.                                          *)
(***************************************************************************)
EXTENDS ZeroProv

CONSTANTS m1, m2, n1, n2, net1, net2

\* A member and a new device of one network.
HomeOfOne == (m1 :> net1)
\* Two members of different networks.
HomeOfTwo == (m1 :> net1) @@ (m2 :> net2)

\* The two members, each with its network, may be exchanged.
Exchange == {(m1 :> m2) @@ (m2 :> m1) @@ (net1 :> net2) @@ (net2 :> net1)}
=============================================================================
