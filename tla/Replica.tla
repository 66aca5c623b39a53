------------------------------ MODULE Replica ------------------------------
(***************************************************************************)
(* What the three consistency modes share: the operations a client asks    *)
(* of its node, the ReplicateRequest the node sends to its peers, and how  *)
(* a peer reads that request back.                                         *)
(***************************************************************************)
EXTENDS Store, FiniteSets

CONSTANTS
    Node,
    Home,        \* the node each client is connected to
    Dialled,     \* the peers of --peers each node could dial at start-up
    MaxWrites    \* bound: Put and Delete calls in a behaviour

ASSUME NodeAssumption == IsFiniteSet(Node)
ASSUME HomeAssumption == Home \in [Client -> Node]

(* A condition on the configuration, met by docker-compose.yml: dialPeers  *)
(* checks neither that --peers leaves out the node itself nor that it has  *)
(* no address twice.                                                       *)
ASSUME DialledAssumption ==
    /\ Dialled \in [Node -> SUBSET Node]
    /\ \A n \in Node : n \notin Dialled[n]

ASSUME MaxWritesAssumption == MaxWrites \in Nat

(* dialPeers leaves out a peer it cannot dial, with a warning.             *)
Peers(n) == Dialled[n]

(* A Put or Delete past Clock.Send: the key and the value it will store.   *)
Op == [key : Key, val : Value]

PutValue(x, ts, c) == [data |-> x, deleted |-> FALSE, ts |-> ts, by |-> c]

(* What a client may ask for: a payload to Put, or Missing to Delete.      *)
OpFor(k, x, ts, c) ==
    [key |-> k,
     val |-> IF x = Missing THEN Tombstone(ts, c) ELSE PutValue(x, ts, c)]

(* Store.Put or Store.Delete of the caller's own write: unconditional.     *)
StoreLocally(d, op) ==
    IF op.val.deleted
    THEN Delete(d, op.key, op.val.ts, op.val.by)
    ELSE Put(d, op.key, op.val)

Message == [to : Node, key : Key, data : Data \cup {Empty}, ts : Timestamp,
            by : Client, deps : SUBSET Dependency]

(* buildReplicateRequest: the Deleted flag does not travel.                *)
ReplicateRequest(to, op, deps) ==
    [to |-> to, key |-> op.key, data |-> op.val.data, ts |-> op.val.ts,
     by |-> op.val.by, deps |-> deps]

Broadcast(op, deps) ==
    {ReplicateRequest(p, op, deps) : p \in Peers(Home[op.val.by])}

----------------------------------------------------------------------------
(* The value Node.Replicate makes of a request: empty data means deleted.  *)
Decode(m) ==
    [data |-> m.data, deleted |-> m.data = Empty, ts |-> m.ts, by |-> m.by]

(* Store.ApplyDelete or Store.Apply, as Replicate and applyLocked choose.  *)
ApplyReplicated(d, m) ==
    IF Decode(m).deleted
    THEN ApplyDelete(d, m.key, m.ts, m.by)
    ELSE Apply(d, m.key, Decode(m))

(* History only: the identity of the write an operation or a request is of.*)
WriteId == [key : Key, ts : Timestamp, by : Client]

OpId(op) == [key |-> op.key, ts |-> op.val.ts, by |-> op.val.by]

RequestId(m) == [key |-> m.key, ts |-> m.ts, by |-> m.by]

(* What a Get at a node with map d shows of k.                             *)
Visible(d, k) == IF Found(d, k) THEN d[k].data ELSE Missing
============================================================================
