--------------------------- MODULE MCStrongCluster --------------------------
(* Instances of StrongCluster for TLC: who is connected to which node.   *)
EXTENDS StrongCluster, TLC

CONSTANTS n1, n2, n3, c1, c2

(* Two clients on two nodes; the third node only receives.                 *)
TwoHomes == (c1 :> n1) @@ (c2 :> n2)

(* Two clients on one node.                                                *)
OneHome == (c1 :> n1) @@ (c2 :> n1)

(* One client.                                                             *)
SoloHome == c1 :> n1
(* Every node has dialled every other.                                     *)
FullMesh == [n \in Node |-> Node \ {n}]
============================================================================
