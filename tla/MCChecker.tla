----------------------------- MODULE MCChecker -----------------------------
(* Instances of Checker for TLC: the clients' nodes, and the checker's lists. *)
EXTENDS Checker, TLC

CONSTANTS n1, n2, c1, c2, k1, k2

(* Two clients on two nodes.                                               *)
TwoHomes == (c1 :> n1) @@ (c2 :> n2)

TwoAddrs == <<n1, n2>>

TwoKeys == <<k1, k2>>
(* Every node has dialled every other.                                     *)
FullMesh == [n \in Node |-> Node \ {n}]
============================================================================
