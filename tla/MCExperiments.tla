--------------------------- MODULE MCExperiments ---------------------------
(* Instances of Experiments for TLC.                                       *)
EXTENDS Experiments, TLC

CONSTANTS n1, n2, w, p, k1, k2, k3, k4

(* The origin and the replica.                                             *)
OriginAndReplica == (w :> n1) @@ (p :> n2)

(* Two staleness trials and a chain.                                       *)
TwoStale == <<k1, k2>>

OneChain == <<[a |-> k3, b |-> k4]>>

(* Every node has dialled every other.                                     *)
FullMesh == [n \in Node |-> Node \ {n}]
============================================================================
