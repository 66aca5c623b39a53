---------------------------- MODULE MCBenchmark ----------------------------
(* An instance of Benchmark for TLC.                                       *)
EXTENDS Benchmark, TLC

CONSTANTS n1, n2, c1, k1, k2, k3

(* The program's target; the other node only receives.                     *)
Target == c1 :> n1

(* Every node has dialled every other.                                     *)
FullMesh == [n \in Node |-> Node \ {n}]

(* A key that is no record has the index a signed remainder would give.    *)
Keys == (-1 :> k3) @@ (0 :> k1) @@ (1 :> k2)

(* Both records are hit, one by a hash with its top bit set.               *)
SmallHash == (0 :> 9) @@ (1 :> 4)

(* A sum of 0.99, which Validate accepts and which leaves inserts, of 1.0  *)
(* without reads, and of 0.90, which is refused.                           *)
Mixes == {<<49, 50, 0>>, <<0, 100, 0>>, <<40, 50, 0>>}

(* Every mix with a Zipfian choice, the first also with a uniform one.     *)
Choices ==
    {<<mix, "zipfian">> : mix \in Mixes} \cup {<<<<49, 50, 0>>, "uniform">>}

Files ==
    {[recordCount |-> n, operationCount |-> ops, read |-> choice[1][1],
      update |-> choice[1][2], insert |-> choice[1][3], fieldLength |-> len,
      distribution |-> choice[2]] :
        n \in {0, 2}, ops \in {0, 3}, choice \in Choices, len \in {0, 8}}
============================================================================
