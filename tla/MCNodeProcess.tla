--------------------------- MODULE MCNodeProcess ----------------------------
(* Instances of NodeProcess and EventualCluster for TLC: who is connected  *)
(* to which node.                                                          *)
EXTENDS NodeProcess, TLC

CONSTANTS n1, n2, n3, c1, c2, c3

(* Two clients share a node, a third has one; the last node only receives. *)
SharedHome == (c1 :> n1) @@ (c2 :> n1) @@ (c3 :> n2)

(* Two clients on two nodes.                                               *)
TwoHomes == (c1 :> n1) @@ (c2 :> n2)

(* Every node has dialled every other.                                     *)
FullMesh == [n \in Node |-> Node \ {n}]
============================================================================
