--------------------------- MODULE ReplicaLemmas ---------------------------
(***************************************************************************)
(* What the operations every mode shares do to a node's map, for any keys, *)
(* payloads and timestamps.                                                *)
(***************************************************************************)
EXTENDS Replica, HLCLemmas

(* The type of a node's map.                                               *)
Map == [Key -> Value \cup {Missing}]

(* A stamped Put or Delete is an operation of its client, with the         *)
(* timestamp Clock.Send returned.                                          *)
LEMMA OpForType ==
    ASSUME NEW k \in Key, NEW x \in Data \cup {Missing}, NEW ts \in Timestamp,
           NEW c \in Client
    PROVE  /\ OpFor(k, x, ts, c) \in Op
           /\ OpFor(k, x, ts, c).key = k
           /\ OpFor(k, x, ts, c).val.by = c
           /\ OpFor(k, x, ts, c).val.ts = ts
<1>1. CASE x = Missing
  BY <1>1 DEF OpFor, Op, Value, Tombstone
<1>2. CASE x # Missing
  BY <1>2 DEF OpFor, Op, Value, PutValue
<1> QED BY <1>1, <1>2

(* Store.Put and Store.Delete replace the entry of one key, whatever it    *)
(* was, by a value with the operation's timestamp and client, which for a  *)
(* Put is the operation's own.                                             *)
LEMMA StoreLocallyResult ==
    ASSUME NEW d \in Map, NEW op \in Op
    PROVE  /\ StoreLocally(d, op) \in Map
           /\ StoreLocally(d, op)[op.key] \in Value
           /\ StoreLocally(d, op)[op.key].ts = op.val.ts
           /\ StoreLocally(d, op)[op.key].by = op.val.by
           /\ ~op.val.deleted => StoreLocally(d, op)[op.key] = op.val
           /\ \A k \in Key : k # op.key => StoreLocally(d, op)[k] = d[k]
<1>1. op.key \in Key /\ op.val \in Value
  BY DEF Op
<1>2. CASE op.val.deleted
  <2>1. StoreLocally(d, op) = [d EXCEPT ![op.key] = Tombstone(op.val.ts, op.val.by)]
    BY <1>2 DEF StoreLocally, Delete
  <2>2. /\ Tombstone(op.val.ts, op.val.by) \in Value
        /\ Tombstone(op.val.ts, op.val.by).ts = op.val.ts
        /\ Tombstone(op.val.ts, op.val.by).by = op.val.by
    BY <1>1 DEF Tombstone, Value
  <2> QED BY <1>1, <1>2, <2>1, <2>2 DEF Map
<1>3. CASE ~op.val.deleted
  <2>1. StoreLocally(d, op) = [d EXCEPT ![op.key] = op.val]
    BY <1>3 DEF StoreLocally, Put
  <2> QED BY <1>1, <2>1 DEF Map
<1> QED BY <1>2, <1>3

(* A node's peers are other nodes.                                         *)
LEMMA PeersType ==
    ASSUME NEW n \in Node
    PROVE  Peers(n) \subseteq Node /\ n \notin Peers(n)
BY DialledAssumption DEF Peers

(* The requests OnWrite sends are well formed and carry the operation's    *)
(* identity to the other nodes.                                            *)
LEMMA BroadcastType ==
    ASSUME NEW op \in Op, NEW deps \in SUBSET Dependency
    PROVE  /\ Broadcast(op, deps) \subseteq Message
           /\ \A m \in Broadcast(op, deps) :
                 /\ RequestId(m) = OpId(op)
                 /\ m.by = op.val.by /\ m.key = op.key /\ m.ts = op.val.ts
                 /\ m.deps = deps
                 /\ m.to \in Peers(Home[op.val.by])
<1>1. op.key \in Key /\ op.val \in Value /\ Home[op.val.by] \in Node
  BY HomeAssumption DEF Op, Value
<1>2. ASSUME NEW p \in Peers(Home[op.val.by])
      PROVE  ReplicateRequest(p, op, deps) \in Message
  BY <1>1, PeersType DEF ReplicateRequest, Message, Value
<1> QED BY <1>2 DEF Broadcast, ReplicateRequest, RequestId, OpId

(* A peer decodes a request to a value with the request's timestamp.       *)
LEMMA DecodeType ==
    ASSUME NEW m \in Message
    PROVE  /\ Decode(m) \in Value
           /\ Decode(m).ts = m.ts /\ Decode(m).by = m.by
           /\ Decode(m).deleted => Decode(m) = Tombstone(m.ts, m.by)
<1>1. m.data = Empty \/ m.data # Empty
  OBVIOUS
<1> QED BY <1>1 DEF Decode, Message, Value, Tombstone

(* Store.Apply and ApplyDelete either install the request's value or leave *)
(* the map alone, and the latter only if it holds a version as new.        *)
LEMMA ApplyReplicatedResult ==
    ASSUME NEW d \in Map, NEW m \in Message
    PROVE  /\ ApplyReplicated(d, m) \in Map
           /\ \A k \in Key : k # m.key => ApplyReplicated(d, m)[k] = d[k]
           /\ Accepts(d, m.key, m.ts) =>
                 /\ ApplyReplicated(d, m)[m.key] = Decode(m)
                 /\ d[m.key] # Missing => After(m.ts, d[m.key].ts)
           /\ ~Accepts(d, m.key, m.ts) =>
                 /\ ApplyReplicated(d, m) = d
                 /\ d[m.key] # Missing
                 /\ AfterOrEqual(d[m.key].ts, m.ts)
<1>0. m.key \in Key /\ m.ts \in Timestamp
  BY DEF Message
<1>1. Decode(m) \in Value /\ Decode(m).ts = m.ts
  BY DecodeType
<1>2. Accepts(d, m.key, m.ts) =>
        ApplyReplicated(d, m) = [d EXCEPT ![m.key] = Decode(m)]
  BY <1>1, DecodeType DEF ApplyReplicated, Apply, ApplyDelete, Put, Delete
<1>3. ~Accepts(d, m.key, m.ts) => ApplyReplicated(d, m) = d
  BY <1>1 DEF ApplyReplicated, Apply, ApplyDelete
<1>4. d[m.key] # Missing => d[m.key].ts \in Timestamp
  BY <1>0 DEF Map, Value
<1>5. d[m.key] # Missing =>
        /\ Accepts(d, m.key, m.ts) => After(m.ts, d[m.key].ts)
        /\ ~Accepts(d, m.key, m.ts) => AfterOrEqual(d[m.key].ts, m.ts)
  BY <1>0, <1>4, CompareIsLexicographic, CompareIsTotalOrder DEF Accepts
<1>6. ~Accepts(d, m.key, m.ts) => d[m.key] # Missing
  BY DEF Accepts
<1> QED BY <1>0, <1>1, <1>2, <1>3, <1>5, <1>6 DEF Map

(* A request carries an operation to a peer, but for its Deleted flag.     *)
Carries(m, w) ==
    /\ m.key = w.key
    /\ m.data = w.val.data
    /\ m.ts = w.val.ts
    /\ m.by = w.val.by

(* A request carries the operation it was made of.                         *)
LEMMA BroadcastCarries ==
    ASSUME NEW op, NEW deps, NEW m \in Broadcast(op, deps)
    PROVE  Carries(m, op)
BY DEF Broadcast, ReplicateRequest, Carries
============================================================================
