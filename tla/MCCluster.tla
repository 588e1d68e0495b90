----------------------------- MODULE MCCluster -----------------------------
(* Instances of Cluster for TLC. *)
EXTENDS Cluster, TLC

CONSTANTS gate, net, game, l1, l2, l3, l4, s1, s2, s3, s4

\* A gate, and two nodes configured with it; game also has net for a parent.
Three == {gate, net, game}
ThreeRemotes == [n \in Three |-> CASE n = gate -> {}
                                   [] n = net -> {gate}
                                   [] n = game -> {gate, net}]

\* A gate and one child.
Two == {gate, net}
TwoRemotes == [n \in Two |-> IF n = net THEN {gate} ELSE {}]
=============================================================================
