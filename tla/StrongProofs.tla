---------------------------- MODULE StrongProofs ----------------------------
(***************************************************************************)
(* Safety of strong mode for any finite set of nodes, any clients, keys    *)
(* and payloads, any failures of RPCs and any set of hung peers.           *)
(*                                                                         *)
(* AckedOnQuorum follows a success backwards: a result of "ok" was a       *)
(* response with Success, which Replicate sent after its store accepted    *)
(* the write (OkIsInstalled, ResponseIsInstalled), and Commit adds the     *)
(* node itself, which is never one of its own peers.                       *)
(***************************************************************************)
EXTENDS StrongCluster, ReplicaLemmas, FiniteSetTheorems

(* A client's call is its own.                                             *)
CallsAreOwn == \A c \in Client : call[c] # Idle => call[c].val.by = c

(* A request is never on its way to, or served by, the node it comes from. *)
RequestsLeaveHome ==
    \A m \in wire \cup serving : m.to # Home[m.by]

(* A response with Success comes from a node that installed the write.     *)
ResponseIsInstalled ==
    \A r \in responses : r.success => RequestId(r.req) \in installed[r.req.to]

(* A success OnWrite has counted comes from a node that installed the      *)
(* write the call is waiting for.                                          *)
OkIsInstalled ==
    \A c \in Client, p \in Node :
        call[c] # Idle /\ result[c][p] = "ok" => OpId(call[c]) \in installed[p]

(* The inductive invariant.                                                *)
Inv ==
    /\ TypeOK
    /\ CallsAreOwn
    /\ RequestsLeaveHome
    /\ ResponseIsInstalled
    /\ OkIsInstalled
    /\ AckedOnQuorum
    /\ OwnVersionAcked

(* The conjuncts of the invariant that do not mention clocks or stores.    *)
Bookkeeping ==
    CallsAreOwn /\ RequestsLeaveHome /\ ResponseIsInstalled /\ OkIsInstalled

(* Identities of operations and requests are well formed.                  *)
LEMMA IdTypes ==
    /\ \A op \in Op : OpId(op) \in WriteId
    /\ \A m \in Message : RequestId(m) \in WriteId
BY DEF OpId, RequestId, WriteId, Op, Value, Message

(* A node's group is finite, and has one node more than its peers.         *)
LEMMA GroupIsFinite ==
    ASSUME NEW n \in Node
    PROVE  /\ Group(n) \subseteq Node /\ IsFiniteSet(Group(n))
           /\ IsFiniteSet(Peers(n))
           /\ Cardinality(Group(n)) = Cardinality(Peers(n)) + 1
<1>1. Peers(n) \subseteq Node /\ n \notin Peers(n)
  BY PeersType
<1>2. Group(n) \subseteq Node /\ IsFiniteSet(Group(n)) /\ IsFiniteSet(Peers(n))
  BY <1>1, NodeAssumption, FS_Subset DEF Group
<1>3. Group(n) = Peers(n) \cup {n}
  BY DEF Group
<1> QED BY <1>1, <1>2, <1>3, FS_AddElement

(* The nodes that installed an acknowledged write only become more.        *)
LEMMA InstalledGrows ==
    ASSUME AckedOnQuorum, NEW w \in acked, acked \subseteq WriteId,
           \A n \in Node : installed[n] \subseteq installed'[n]
    PROVE  /\ w \in installed'[Home[w.by]]
           /\ Majority({n \in Node : w \in installed'[n]}, Home[w.by])
<1> DEFINE G == Group(Home[w.by])
           old == {n \in Node : w \in installed[n]} \cap G
           new == {n \in Node : w \in installed'[n]} \cap G
<1>1. Home[w.by] \in Node
  BY HomeAssumption DEF WriteId
<1>2. old \subseteq new /\ new \subseteq Node
  OBVIOUS
<1>3. IsFiniteSet(new) /\ IsFiniteSet(old) /\ IsFiniteSet(G)
  BY <1>1, <1>2, NodeAssumption, FS_Subset, GroupIsFinite
<1>4. Cardinality(old) <= Cardinality(new)
  BY <1>2, <1>3, FS_Subset
<1>5. /\ Cardinality(old) \in Nat /\ Cardinality(new) \in Nat
      /\ Cardinality(G) \in Nat
  BY <1>3, FS_CardinalityType
<1>6. w \in installed[Home[w.by]] /\ 2 * Cardinality(old) > Cardinality(G)
  BY DEF AckedOnQuorum, Majority, InstalledBy
<1>7. 2 * Cardinality(new) > Cardinality(G)
  <2> HIDE DEF old, new, G
  <2> QED BY <1>4, <1>5, <1>6
<1> QED BY <1>1, <1>6, <1>7 DEF Majority

(* The initial states satisfy the invariant.                               *)
LEMMA InitInv == Init => Inv
<1> SUFFICES ASSUME Init PROVE Inv
  OBVIOUS
<1>1. clock \in [Node -> Timestamp]
  BY NewIsTimestamp DEF Init
<1>2. TypeOK
  BY <1>1 DEF Init, TypeOK, NewStore, Outcome, NoResults
<1>3. CallsAreOwn /\ RequestsLeaveHome /\ ResponseIsInstalled /\ OkIsInstalled
  BY DEF Init, CallsAreOwn, RequestsLeaveHome, ResponseIsInstalled, OkIsInstalled
<1>4. AckedOnQuorum /\ OwnVersionAcked
  BY DEF Init, AckedOnQuorum, OwnVersionAcked, NewStore
<1> QED BY <1>2, <1>3, <1>4 DEF Inv

(* Starting a write keeps the invariant: all results are pending again and *)
(* the requests go to the peers only.                                      *)
LEMMA StampInv ==
    ASSUME Inv, NEW c \in Client, NEW k \in Key, NEW x \in Data \cup {Missing},
           NEW now \in Wall, StampAndReplicate(c, k, x, now)
    PROVE  Inv'
<1> DEFINE n == Home[c]
           ts == Send(clock[n], now)
           op == OpFor(k, x, ts, c)
<1> USE DEF Inv
<1>0. n \in Node /\ clock[n] \in Timestamp
  BY HomeAssumption DEF TypeOK
<1>1. ts \in Timestamp
  BY <1>0, SendAdvances DEF StampAndReplicate
<1>2. op \in Op /\ op.val.by = c
  BY <1>1, OpForType
<1>3. /\ clock' = [clock EXCEPT ![n] = ts]
      /\ call' = [call EXCEPT ![c] = op]
      /\ result' = [result EXCEPT ![c] = NoResults]
      /\ wire' = wire \cup Broadcast(op, {})
      /\ writes' = writes \cup {op}
      /\ UNCHANGED <<data, serving, responses, installed, acked>>
  BY DEF StampAndReplicate
<1> HIDE DEF ts, op
<1>4. /\ Broadcast(op, {}) \subseteq Message
      /\ \A m \in Broadcast(op, {}) : m.to # Home[m.by]
  BY <1>0, <1>2, BroadcastType, PeersType
<1>5. TypeOK'
  BY <1>1, <1>2, <1>3, <1>4 DEF TypeOK, Outcome, NoResults
<1>6. CallsAreOwn'
  BY <1>2, <1>3 DEF CallsAreOwn, TypeOK
<1>7. RequestsLeaveHome'
  BY <1>3, <1>4 DEF RequestsLeaveHome
<1>8. ResponseIsInstalled'
  BY <1>3 DEF ResponseIsInstalled
<1>9. OkIsInstalled'
  BY <1>3 DEF OkIsInstalled, TypeOK, NoResults
<1>10. AckedOnQuorum' /\ OwnVersionAcked'
  BY <1>3 DEF AckedOnQuorum, InstalledBy, OwnVersionAcked, Majority
<1> QED BY <1>5, <1>6, <1>7, <1>8, <1>9, <1>10

(* Clock.Receive keeps the invariant.                                      *)
LEMMA ServeInv ==
    ASSUME Inv, NEW m \in wire, NEW now \in Wall, Serve(m, now)
    PROVE  Inv'
<1> USE DEF Inv
<1>0. m \in Message /\ m.to \in Node /\ m.ts \in Timestamp /\ clock[m.to] \in Timestamp
  BY DEF TypeOK, Message
<1>1. Receive(clock[m.to], m.ts, now) \in Timestamp
  BY <1>0, ReceiveAdvances DEF Serve
<1>2. TypeOK'
  BY <1>0, <1>1 DEF TypeOK, Serve
<1>3. Bookkeeping'
  BY DEF Bookkeeping, CallsAreOwn, RequestsLeaveHome, ResponseIsInstalled,
         OkIsInstalled, Serve
<1>4. AckedOnQuorum' /\ OwnVersionAcked'
  BY DEF AckedOnQuorum, InstalledBy, OwnVersionAcked, Majority, Serve
<1> QED BY <1>2, <1>3, <1>4 DEF Bookkeeping

(* An error response, a failed RPC and a dropped request keep it.          *)
LEMMA ServeErrorInv ==
    ASSUME Inv, NEW m \in wire, NEW now \in Wall, ServeError(m, now)
    PROVE  Inv'
<1> USE DEF Inv
<1>0. m \in Message
  BY DEF TypeOK
<1>1. responses' \subseteq responses \cup {[req |-> m, success |-> FALSE]}
  BY DEF ServeError, Respond
<1>2. /\ wire' \subseteq wire
      /\ UNCHANGED <<clock, data, call, result, serving, writes, installed, acked>>
  BY DEF ServeError
<1>3. TypeOK'
  <2>1. [req |-> m, success |-> FALSE] \in Response
    BY <1>0 DEF Response
  <2> QED BY <1>1, <1>2, <2>1 DEF TypeOK
<1>4. CallsAreOwn' /\ RequestsLeaveHome' /\ OkIsInstalled'
  BY <1>2 DEF CallsAreOwn, RequestsLeaveHome, OkIsInstalled
<1>5. ResponseIsInstalled'
  <2> SUFFICES ASSUME NEW r \in responses', r.success PROVE r \in responses
    BY <1>2 DEF ResponseIsInstalled
  <2> QED BY <1>1
<1>6. AckedOnQuorum' /\ OwnVersionAcked'
  BY <1>2 DEF AckedOnQuorum, InstalledBy, OwnVersionAcked, Majority
<1> QED BY <1>3, <1>4, <1>5, <1>6

(* Store.Apply keeps the invariant: Success is said of an installed write, *)
(* and what a peer installs is not a write of its own clients.             *)
LEMMA ApplyInv ==
    ASSUME Inv, NEW m \in serving, ServeApply(m)
    PROVE  Inv'
<1> DEFINE n == m.to
           ok == Accepts(data[n], m.key, m.ts)
           d == ApplyReplicated(data[n], m)
<1> USE DEF Inv
<1>0. /\ m \in Message /\ n \in Node /\ m.key \in Key /\ data[n] \in Map
      /\ m.to # Home[m.by] /\ RequestId(m) \in WriteId
  BY IdTypes DEF TypeOK, Message, Map, RequestsLeaveHome
<1>1. /\ d \in Map
      /\ \A k \in Key : k # m.key => d[k] = data[n][k]
      /\ ok => d[m.key] = Decode(m)
      /\ ~ok => d = data[n]
  BY <1>0, ApplyReplicatedResult
<1>2. /\ data' = [data EXCEPT ![n] = d]
      /\ serving' \subseteq serving
      /\ installed' = [installed EXCEPT
                         ![n] = IF ok THEN installed[n] \cup {RequestId(m)}
                                ELSE installed[n]]
      /\ UNCHANGED <<clock, call, result, wire, writes, acked>>
  BY DEF ServeApply
<1>3. ok \in BOOLEAN
  BY DEF Accepts
<1>4. responses' \subseteq responses \cup {[req |-> m, success |-> ok]}
  BY DEF ServeApply, Respond
<1>5. Decode(m).by = m.by
  BY DEF Decode
<1> HIDE DEF d, ok
<1>6. \A p \in Node : installed[p] \subseteq installed'[p]
  BY <1>0, <1>2 DEF TypeOK
<1>7. ok => RequestId(m) \in installed'[n]
  BY <1>0, <1>2 DEF TypeOK
<1>8. TypeOK'
  <2>1. responses' \subseteq Response
    BY <1>0, <1>3, <1>4 DEF TypeOK, Response
  <2>2. data' \in [Node -> [Key -> Value \cup {Missing}]]
    BY <1>0, <1>1, <1>2 DEF TypeOK, Map
  <2>3. installed' \in [Node -> SUBSET WriteId]
    BY <1>0, <1>2 DEF TypeOK
  <2> QED BY <1>2, <2>1, <2>2, <2>3 DEF TypeOK
<1>9. CallsAreOwn' /\ RequestsLeaveHome'
  BY <1>2 DEF CallsAreOwn, RequestsLeaveHome
<1>10. ResponseIsInstalled'
  <2> SUFFICES ASSUME NEW r \in responses', r.success
               PROVE  RequestId(r.req) \in installed'[r.req.to]
    BY DEF ResponseIsInstalled
  <2>1. CASE r \in responses
    <3>1. r.req.to \in Node
      BY <2>1 DEF TypeOK, Response, Message
    <3> QED BY <2>1, <3>1, <1>6 DEF ResponseIsInstalled
  <2>2. CASE r = [req |-> m, success |-> ok]
    BY <2>2, <1>7
  <2> QED BY <2>1, <2>2, <1>4
<1>11. OkIsInstalled'
  BY <1>2, <1>6 DEF OkIsInstalled
<1>12. AckedOnQuorum'
  <2>1. \A w \in acked :
          /\ w \in installed'[Home[w.by]]
          /\ Majority({p \in Node : w \in installed'[p]}, Home[w.by])
    BY <1>6, InstalledGrows DEF TypeOK
  <2> QED BY <1>2, <2>1 DEF AckedOnQuorum, Majority, InstalledBy
<1>13. OwnVersionAcked'
  <2> SUFFICES ASSUME NEW o \in Node, NEW k \in Key,
                      data'[o][k] # Missing, Home[data'[o][k].by] = o
               PROVE  data'[o][k] = data[o][k]
    BY <1>2 DEF OwnVersionAcked
  <2> QED BY <1>0, <1>1, <1>2, <1>5 DEF TypeOK
<1> QED BY <1>8, <1>9, <1>10, <1>11, <1>12, <1>13

(* Receiving an answer keeps the invariant.                                *)
LEMMA AnswerInv ==
    ASSUME Inv, NEW r \in responses, Answer(r)
    PROVE  Inv'
<1> DEFINE c == r.req.by
           p == r.req.to
<1> USE DEF Inv
<1>0. r \in Response /\ c \in Client /\ p \in Node /\ r.success \in BOOLEAN
  BY DEF TypeOK, Response, Message
<1>1. call[c] # Idle /\ OpId(call[c]) = RequestId(r.req)
  BY DEF Answer, Waiting
<1>2. /\ result' = [result EXCEPT ![c][p] = IF r.success THEN "ok" ELSE "failed"]
      /\ responses' \subseteq responses
      /\ UNCHANGED <<clock, data, call, wire, serving, writes, installed, acked>>
  BY DEF Answer
<1>3. TypeOK'
  BY <1>0, <1>2 DEF TypeOK, Outcome
<1>4. CallsAreOwn' /\ RequestsLeaveHome' /\ ResponseIsInstalled'
  BY <1>2 DEF CallsAreOwn, RequestsLeaveHome, ResponseIsInstalled
<1>5. OkIsInstalled'
  <2> SUFFICES ASSUME NEW e \in Client, NEW q \in Node,
                      call[e] # Idle, result'[e][q] = "ok"
               PROVE  OpId(call[e]) \in installed[q]
    BY <1>2 DEF OkIsInstalled
  <2>1. CASE e = c /\ q = p
    <3>1. r.success
      BY <1>0, <1>2, <2>1 DEF TypeOK
    <3> QED BY <1>1, <2>1, <3>1 DEF ResponseIsInstalled
  <2>2. CASE e # c \/ q # p
    <3>1. result[e][q] = "ok"
      BY <1>0, <1>2, <2>2 DEF TypeOK
    <3> QED BY <3>1 DEF OkIsInstalled
  <2> QED BY <2>1, <2>2
<1>6. AckedOnQuorum' /\ OwnVersionAcked'
  BY <1>2 DEF AckedOnQuorum, InstalledBy, OwnVersionAcked, Majority
<1> QED BY <1>3, <1>4, <1>5, <1>6

(* A failed RPC keeps the invariant: it adds no success.                   *)
LEMMA CallFailsInv ==
    ASSUME Inv, NEW c \in Client, NEW p \in Node, CallFails(c, p)
    PROVE  Inv'
<1> USE DEF Inv
<1>1. /\ result' = [result EXCEPT ![c][p] = "failed"]
      /\ responses' \subseteq responses
      /\ UNCHANGED <<clock, data, call, wire, serving, writes, installed, acked>>
  BY DEF CallFails
<1>2. TypeOK'
  BY <1>1 DEF TypeOK, Outcome
<1>3. CallsAreOwn' /\ RequestsLeaveHome' /\ ResponseIsInstalled'
  BY <1>1 DEF CallsAreOwn, RequestsLeaveHome, ResponseIsInstalled
<1>4. OkIsInstalled'
  BY <1>1 DEF OkIsInstalled, TypeOK
<1>5. AckedOnQuorum' /\ OwnVersionAcked'
  BY <1>1 DEF AckedOnQuorum, InstalledBy, OwnVersionAcked, Majority
<1> QED BY <1>2, <1>3, <1>4, <1>5

(* NewHandler's quorum is a majority: enough successes of a call and its   *)
(* own node, which is not one of its peers, are more than half the nodes.  *)
LEMMA AcksAndHome ==
    ASSUME NEW c \in Client, Inv, call[c] # Idle,
           Cardinality(Acks(c)) >= Quorum(Home[c]) - 1,
           NEW T \in SUBSET Node, Acks(c) \subseteq T, Home[c] \in T
    PROVE  Majority(T, Home[c])
<1> DEFINE G == Group(Home[c])
           S == T \cap G
<1>0. Home[c] \in Node
  BY HomeAssumption
<1>1. Acks(c) \subseteq Peers(Home[c]) /\ Home[c] \notin Acks(c)
  BY <1>0, PeersType DEF Acks
<1>2. IsFiniteSet(Acks(c)) /\ IsFiniteSet(S) /\ IsFiniteSet(Peers(Home[c]))
  BY <1>0, <1>1, NodeAssumption, FS_Subset, GroupIsFinite
<1>3. /\ IsFiniteSet(Acks(c) \cup {Home[c]})
      /\ Cardinality(Acks(c) \cup {Home[c]}) = Cardinality(Acks(c)) + 1
  BY <1>1, <1>2, FS_AddElement
<1>4. Cardinality(Acks(c) \cup {Home[c]}) <= Cardinality(S)
  <2>1. Acks(c) \cup {Home[c]} \subseteq S
    BY <1>1 DEF Group
  <2> QED BY <1>2, <2>1, FS_Subset
<1>5. /\ Cardinality(Acks(c)) \in Nat /\ Cardinality(S) \in Nat
      /\ Cardinality(Peers(Home[c])) \in Nat
  BY <1>2, FS_CardinalityType
<1>6. Cardinality(G) = Cardinality(Peers(Home[c])) + 1
  BY <1>0, GroupIsFinite
<1> HIDE DEF S, G
<1>7. Cardinality(S) >= Quorum(Home[c])
  BY <1>3, <1>4, <1>5 DEF Quorum
<1>8. 2 * Cardinality(S) > Cardinality(G)
  BY <1>5, <1>6, <1>7 DEF Quorum
<1> QED BY <1>8 DEF Majority, S, G

(* A successful OnWrite and the local store keep the invariant.            *)
LEMMA CommitInv ==
    ASSUME Inv, NEW c \in Client, Commit(c)
    PROVE  Inv'
<1> DEFINE n == Home[c]
           op == call[c]
           id == OpId(op)
           d == StoreLocally(data[n], op)
<1> USE DEF Inv
<1>0. /\ n \in Node /\ op \in Op /\ op # Idle /\ op.val.by = c
      /\ data[n] \in Map /\ id \in WriteId
  BY HomeAssumption, IdTypes DEF Commit, TypeOK, CallsAreOwn, Map
<1>1. /\ d \in Map /\ d[op.key].ts = op.val.ts /\ d[op.key].by = op.val.by
      /\ \A k \in Key : k # op.key => d[k] = data[n][k]
  BY <1>0, StoreLocallyResult
<1>2. /\ data' = [data EXCEPT ![n] = d]
      /\ installed' = [installed EXCEPT ![n] = installed[n] \cup {id}]
      /\ acked' = acked \cup {id}
      /\ call' = [call EXCEPT ![c] = Idle]
      /\ result' = [result EXCEPT ![c] = NoResults]
      /\ UNCHANGED <<clock, wire, serving, responses, writes>>
  BY DEF Commit
<1>3. id.by = c /\ id.key = op.key /\ id.ts = op.val.ts /\ op.key \in Key
  BY <1>0 DEF OpId, Op
<1>4. Cardinality(Acks(c)) >= Quorum(n) - 1
  BY DEF Commit
<1>5. \A p \in Acks(c) : p \in Node /\ id \in installed[p]
  BY <1>0, PeersType DEF Acks, OkIsInstalled
<1> HIDE DEF d, id, op
<1>6. \A p \in Node : installed[p] \subseteq installed'[p]
  BY <1>0, <1>2 DEF TypeOK
<1>7. TypeOK'
  BY <1>0, <1>1, <1>2 DEF TypeOK, Map, NoResults, Outcome
<1>8. CallsAreOwn' /\ RequestsLeaveHome'
  BY <1>2 DEF CallsAreOwn, RequestsLeaveHome, TypeOK
<1>9. ResponseIsInstalled'
  <2> SUFFICES ASSUME NEW r \in responses, r.success
               PROVE  RequestId(r.req) \in installed'[r.req.to]
    BY <1>2 DEF ResponseIsInstalled
  <2>1. r.req.to \in Node
    BY DEF TypeOK, Response, Message
  <2> QED BY <1>6, <2>1 DEF ResponseIsInstalled
<1>10. OkIsInstalled'
  BY <1>2, <1>6 DEF OkIsInstalled, TypeOK, NoResults
<1>11. AckedOnQuorum'
  <2> SUFFICES ASSUME NEW w \in acked'
               PROVE  /\ w \in installed'[Home[w.by]]
                      /\ Majority({p \in Node : w \in installed'[p]}, Home[w.by])
    BY DEF AckedOnQuorum, Majority, InstalledBy
  <2>1. CASE w \in acked
    BY <1>6, <2>1, InstalledGrows DEF TypeOK
  <2>2. CASE w = id
    <3> DEFINE S == {p \in Node : id \in installed'[p]}
    <3>1. id \in installed'[n]
      BY <1>0, <1>2 DEF TypeOK
    <3>2. S \in SUBSET Node /\ Acks(c) \subseteq S /\ Home[c] \in S
      BY <1>0, <1>5, <1>6, <3>1
    <3>3. call[c] # Idle
      BY <1>0 DEF op
    <3> HIDE DEF S
    <3>4. Majority(S, Home[c])
      BY <1>4, <3>2, <3>3, AcksAndHome
    <3> QED BY <1>3, <2>2, <3>1, <3>4 DEF S
  <2> QED BY <1>2, <2>1, <2>2
<1>12. OwnVersionAcked'
  <2> SUFFICES ASSUME NEW o \in Node, NEW k \in Key,
                      data'[o][k] # Missing, Home[data'[o][k].by] = o
               PROVE  [key |-> k, ts |-> data'[o][k].ts, by |-> data'[o][k].by] \in acked'
    BY DEF OwnVersionAcked
  <2>1. CASE o = n /\ k = op.key
    <3>1. data'[o][k].ts = op.val.ts /\ data'[o][k].by = op.val.by
      BY <1>0, <1>1, <1>2, <2>1 DEF TypeOK
    <3>2. id = [key |-> op.key, ts |-> op.val.ts, by |-> op.val.by]
      BY DEF id, OpId
    <3> QED BY <1>2, <2>1, <3>1, <3>2
  <2>2. CASE o # n \/ k # op.key
    <3>1. data'[o][k] = data[o][k]
      BY <1>0, <1>1, <1>2, <2>2 DEF TypeOK
    <3> QED BY <1>2, <3>1 DEF OwnVersionAcked
  <2> QED BY <2>1, <2>2
<1> QED BY <1>7, <1>8, <1>9, <1>10, <1>11, <1>12

(* A failed OnWrite and a dropped request keep the invariant.              *)
LEMMA ForgetInv ==
    ASSUME Inv, wire' \subseteq wire,
           \/ UNCHANGED <<call, result>>
           \/ \E c \in Client : /\ call' = [call EXCEPT ![c] = Idle]
                                /\ result' = [result EXCEPT ![c] = NoResults],
           UNCHANGED <<clock, data, serving, responses, writes, installed, acked>>
    PROVE  Inv'
<1> USE DEF Inv
<1>0. /\ call' \in [Client -> Op \cup {Idle}]
      /\ result' \in [Client -> [Node -> Outcome]]
  <2>1. NoResults \in [Node -> Outcome]
    BY DEF NoResults, Outcome
  <2> QED BY <2>1 DEF TypeOK
<1>1. TypeOK'
  BY <1>0 DEF TypeOK
<1>2. \A c \in Client : call'[c] # Idle => call'[c] = call[c] /\ result'[c] = result[c]
  BY DEF TypeOK
<1>3. Bookkeeping'
  BY <1>2 DEF Bookkeeping, CallsAreOwn, RequestsLeaveHome, ResponseIsInstalled,
              OkIsInstalled
<1>4. AckedOnQuorum' /\ OwnVersionAcked'
  BY DEF AckedOnQuorum, InstalledBy, OwnVersionAcked, Majority
<1> QED BY <1>1, <1>3, <1>4 DEF Bookkeeping

(* Every step keeps the invariant.                                         *)
LEMMA NextInv == Inv /\ [Next]_vars => Inv'
<1> SUFFICES ASSUME Inv, [Next]_vars PROVE Inv'
  OBVIOUS
<1>1. ASSUME NEW c \in Client, NEW k \in Key, NEW x \in Data \cup {Missing},
             NEW now \in Wall, StampAndReplicate(c, k, x, now)
      PROVE  Inv'
  BY <1>1, StampInv
<1>2. ASSUME NEW m \in wire, NEW now \in Wall, Serve(m, now) PROVE Inv'
  BY <1>2, ServeInv
<1>3. ASSUME NEW m \in wire, NEW now \in Wall, ServeError(m, now) PROVE Inv'
  BY <1>3, ServeErrorInv
<1>4. ASSUME NEW m \in serving, ServeApply(m) PROVE Inv'
  BY <1>4, ApplyInv
<1>5. ASSUME NEW r \in responses, Answer(r) PROVE Inv'
  BY <1>5, AnswerInv
<1>6. ASSUME NEW c \in Client, NEW p \in Node, CallFails(c, p) PROVE Inv'
  BY <1>6, CallFailsInv
<1>7. ASSUME NEW m \in wire, Drop(m) PROVE Inv'
  BY <1>7, ForgetInv DEF Drop
<1>8. ASSUME NEW c \in Client, Commit(c) PROVE Inv'
  BY <1>8, CommitInv
<1>9. ASSUME NEW c \in Client, Abort(c) PROVE Inv'
  BY <1>9, ForgetInv DEF Abort
<1>10. CASE UNCHANGED vars
  BY <1>10, ForgetInv DEF vars
<1> QED BY <1>1, <1>2, <1>3, <1>4, <1>5, <1>6, <1>7, <1>8, <1>9, <1>10
        DEF Next, Deliver, Return, Rest

(* The invariant holds in every behaviour of strong mode.                  *)
THEOREM StrongInvariant == Spec => []Inv
BY InitInv, NextInv, PTL DEF Spec

(* Type correctness of strong mode.                                        *)
THEOREM StrongTypeCorrect == Spec => []TypeOK
<1>1. Inv => TypeOK
  BY DEF Inv
<1> QED BY <1>1, StrongInvariant, PTL

(* An acknowledged write was installed by total/2 + 1 nodes, its own among *)
(* them, whatever fails and however late requests are served.              *)
THEOREM AckedWritesReachQuorum == Spec => []AckedOnQuorum
<1>1. Inv => AckedOnQuorum
  BY DEF Inv
<1> QED BY <1>1, StrongInvariant, PTL

(* Two acknowledged writes share a node that installed both, because two   *)
(* majorities of one group meet.                                           *)
THEOREM AckedQuorumsMeet == Spec => []QuorumsMeet
<1>1. Inv => QuorumsMeet
  <2> SUFFICES ASSUME Inv, NEW v \in acked, NEW w \in acked,
                      Group(Home[v.by]) = Group(Home[w.by])
               PROVE  InstalledBy(v) \cap InstalledBy(w) # {}
    BY DEF QuorumsMeet
  <2> DEFINE G == Group(Home[v.by])
             S == InstalledBy(v) \cap G
             T == InstalledBy(w) \cap G
  <2>1. IsFiniteSet(G)
    BY HomeAssumption, GroupIsFinite DEF Inv, TypeOK, WriteId
  <2>2. S \subseteq G /\ T \subseteq G
    OBVIOUS
  <2>3. /\ Cardinality(S) \in Nat /\ Cardinality(T) \in Nat
        /\ Cardinality(G) \in Nat
    BY <2>1, <2>2, FS_Subset, FS_CardinalityType
  <2>4. 2 * Cardinality(S) > Cardinality(G) /\ 2 * Cardinality(T) > Cardinality(G)
    BY DEF Inv, AckedOnQuorum, Majority
  <2>5. S \cap T # {}
    <3> HIDE DEF S, T, G
    <3>1. Cardinality(S) + Cardinality(T) > Cardinality(G)
      BY <2>3, <2>4
    <3> QED BY <2>1, <2>2, <3>1, FS_MajoritiesIntersect
  <2> QED BY <2>5
<1> QED BY <1>1, StrongInvariant, PTL

(* No node shows a write of its own client before that write is            *)
(* acknowledged.                                                           *)
THEOREM OwnVersionsAreAcked == Spec => []OwnVersionAcked
<1>1. Inv => OwnVersionAcked
  BY DEF Inv
<1> QED BY <1>1, StrongInvariant, PTL

----------------------------------------------------------------------------
(* SingleWriterDurable: what was installed on a quorum is still held there.*)
(* Replicate only ever moves a store forward, so the danger is Commit,     *)
(* which stores without looking; with one writer what it overwrites is an  *)
(* earlier write of the same client, because a client's calls are stamped  *)
(* in order (LatestCall, StampsBelowClock).                                *)

(* A call in progress is the latest write of its client.                   *)
LatestCall ==
    \A c \in Client : call[c] # Idle =>
        /\ call[c] \in writes
        /\ \A w \in writes : w.val.by = c => AfterOrEqual(call[c].val.ts, w.val.ts)

(* A node's clock is not behind a write of its clients.                    *)
StampsBelowClock ==
    \A w \in writes : AfterOrEqual(clock[Home[w.val.by]], w.val.ts)

(* Requests and installed versions are of writes of the history.           *)
RequestsAreWrites ==
    \A m \in wire \cup serving : \E v \in writes : OpId(v) = RequestId(m)

InstalledAreWrites ==
    \A n \in Node : \A w \in installed[n] : \E v \in writes : OpId(v) = w

(* A node holds every write of a single-writer key that it has installed,  *)
(* or a newer one.                                                         *)
InstalledIsHeld ==
    \A n \in Node : \A w \in installed[n] : SingleWriter(w.key) =>
        data[n][w.key] # Missing /\ AfterOrEqual(data[n][w.key].ts, w.ts)

(* With Inv, an inductive invariant.                                       *)
Durable ==
    /\ LatestCall
    /\ StampsBelowClock
    /\ RequestsAreWrites
    /\ InstalledAreWrites
    /\ InstalledIsHeld

(* Before the first write nothing is installed.                            *)
LEMMA InitDurable == Init => Durable
BY DEF Init, Durable, LatestCall, StampsBelowClock, RequestsAreWrites,
       InstalledAreWrites, InstalledIsHeld

(* A new stamp is after every earlier one of its node, and so of its       *)
(* client.                                                                 *)
LEMMA StampDurable ==
    ASSUME Inv, Durable, NEW c \in Client, NEW k \in Key,
           NEW x \in Data \cup {Missing}, NEW now \in Wall,
           StampAndReplicate(c, k, x, now)
    PROVE  Durable'
<1> DEFINE n == Home[c]
           ts == Send(clock[n], now)
           op == OpFor(k, x, ts, c)
<1> USE DEF Inv, Durable
<1>0. n \in Node /\ clock[n] \in Timestamp
  BY HomeAssumption DEF TypeOK
<1>1. ts \in Timestamp /\ After(ts, clock[n])
  BY <1>0, SendAdvances DEF StampAndReplicate
<1>2. op \in Op /\ op.val.by = c /\ op.val.ts = ts
  BY <1>1, OpForType
<1>3. /\ clock' = [clock EXCEPT ![n] = ts]
      /\ call' = [call EXCEPT ![c] = op]
      /\ wire' = wire \cup Broadcast(op, {})
      /\ writes' = writes \cup {op}
      /\ UNCHANGED <<data, serving, installed>>
  BY DEF StampAndReplicate
<1> HIDE DEF ts, op
<1>4. \A w \in writes : /\ w.val.ts \in Timestamp
                        /\ w.val.by \in Client
                        /\ Home[w.val.by] \in Node
                        /\ clock[Home[w.val.by]] \in Timestamp
  BY HomeAssumption DEF TypeOK, Op, Value
<1>5. \A w \in writes : Home[w.val.by] = n => AfterOrEqual(ts, w.val.ts)
  BY <1>0, <1>1, <1>4, CompareIsTotalOrder DEF StampsBelowClock
<1>6. AfterOrEqual(ts, ts)
  BY <1>1, CompareIsTotalOrder
<1>7. LatestCall'
  <2> SUFFICES ASSUME NEW e \in Client, call'[e] # Idle
               PROVE  /\ call'[e] \in writes'
                      /\ \A w \in writes' :
                            w.val.by = e => AfterOrEqual(call'[e].val.ts, w.val.ts)
    BY DEF LatestCall
  <2>1. CASE e = c
    <3>1. call'[e] = op
      BY <1>3, <2>1 DEF TypeOK
    <3> QED BY <1>2, <1>3, <1>5, <1>6, <2>1, <3>1
  <2>2. CASE e # c
    <3>1. call'[e] = call[e]
      BY <1>3, <2>2 DEF TypeOK
    <3> QED BY <1>2, <1>3, <2>2, <3>1 DEF LatestCall
  <2> QED BY <2>1, <2>2
<1>8. StampsBelowClock'
  <2> SUFFICES ASSUME NEW w \in writes'
               PROVE  AfterOrEqual(clock'[Home[w.val.by]], w.val.ts)
    BY DEF StampsBelowClock
  <2>1. clock'[n] = ts /\ \A o \in Node : o # n => clock'[o] = clock[o]
    BY <1>0, <1>3 DEF TypeOK
  <2>2. CASE w = op
    BY <1>2, <1>6, <2>1, <2>2
  <2>3. CASE w \in writes
    BY <1>4, <1>5, <2>1, <2>3 DEF StampsBelowClock
  <2> QED BY <1>3, <2>2, <2>3
<1>9. RequestsAreWrites'
  <2>1. \A m \in Broadcast(op, {}) : RequestId(m) = OpId(op)
    BY <1>2, BroadcastType
  <2> QED BY <1>3, <2>1 DEF RequestsAreWrites
<1>10. InstalledAreWrites'
  BY <1>3 DEF InstalledAreWrites
<1>11. InstalledIsHeld'
  <2>1. \A j : SingleWriter(j)' => SingleWriter(j)
    BY <1>3 DEF SingleWriter
  <2> QED BY <1>3, <2>1 DEF InstalledIsHeld
<1> QED BY <1>7, <1>8, <1>9, <1>10, <1>11

(* Serving a request moves one clock forward.                              *)
LEMMA ServeDurable ==
    ASSUME Inv, Durable, NEW m \in wire, NEW now \in Wall, Serve(m, now)
    PROVE  Durable'
<1> USE DEF Inv, Durable
<1>0. m.to \in Node /\ m.ts \in Timestamp /\ clock[m.to] \in Timestamp
  BY DEF TypeOK, Message
<1>1. /\ Receive(clock[m.to], m.ts, now) \in Timestamp
      /\ After(Receive(clock[m.to], m.ts, now), clock[m.to])
  BY <1>0, ReceiveAdvances DEF Serve
<1>2. /\ clock' = [clock EXCEPT ![m.to] = Receive(clock[m.to], m.ts, now)]
      /\ wire' \cup serving' \subseteq wire \cup serving
      /\ UNCHANGED <<data, call, writes, installed>>
  BY DEF Serve
<1>3. StampsBelowClock'
  <2> SUFFICES ASSUME NEW w \in writes
               PROVE  AfterOrEqual(clock'[Home[w.val.by]], w.val.ts)
    BY <1>2 DEF StampsBelowClock
  <2> DEFINE o == Home[w.val.by]
  <2>1. o \in Node /\ w.val.ts \in Timestamp /\ clock[o] \in Timestamp
    BY HomeAssumption DEF TypeOK, Op, Value
  <2>2. AfterOrEqual(clock[o], w.val.ts)
    BY DEF StampsBelowClock
  <2>3. CASE o = m.to
    <3>1. clock'[o] = Receive(clock[o], m.ts, now)
      BY <1>0, <1>2, <2>3 DEF TypeOK
    <3> QED BY <1>1, <2>1, <2>2, <2>3, <3>1, CompareIsTotalOrder
  <2>4. CASE o # m.to
    BY <1>2, <2>1, <2>2, <2>4 DEF TypeOK
  <2> QED BY <2>3, <2>4
<1>4. LatestCall' /\ RequestsAreWrites' /\ InstalledAreWrites' /\ InstalledIsHeld'
  BY <1>2 DEF LatestCall, RequestsAreWrites, InstalledAreWrites, InstalledIsHeld,
              SingleWriter
<1> QED BY <1>3, <1>4

(* Store.Apply only moves a version forward, so what was held still is.    *)
LEMMA ApplyDurable ==
    ASSUME Inv, Durable, NEW m \in serving, ServeApply(m)
    PROVE  Durable'
<1> DEFINE n == m.to
           d == ApplyReplicated(data[n], m)
           ok == Accepts(data[n], m.key, m.ts)
<1> USE DEF Inv, Durable
<1>0. /\ m \in Message /\ n \in Node /\ m.key \in Key /\ m.ts \in Timestamp
      /\ data[n] \in Map
  BY DEF TypeOK, Message, Map
<1>1. /\ d \in Map
      /\ \A k \in Key : k # m.key => d[k] = data[n][k]
      /\ ok => /\ d[m.key] = Decode(m)
               /\ data[n][m.key] # Missing => After(m.ts, data[n][m.key].ts)
      /\ ~ok => d = data[n]
  BY <1>0, ApplyReplicatedResult
<1>2. /\ data' = [data EXCEPT ![n] = d]
      /\ serving' \subseteq serving
      /\ installed' = [installed EXCEPT
                         ![n] = IF ok THEN installed[n] \cup {RequestId(m)}
                                ELSE installed[n]]
      /\ UNCHANGED <<clock, call, wire, writes>>
  BY DEF ServeApply
<1>3. Decode(m) # Missing /\ Decode(m).ts = m.ts
  BY <1>0, DecodeType, MissingAssumption
<1>4. PICK v \in writes : OpId(v) = RequestId(m)
  BY DEF RequestsAreWrites
<1> HIDE DEF d, ok
<1>5. LatestCall' /\ StampsBelowClock' /\ RequestsAreWrites'
  BY <1>2 DEF LatestCall, StampsBelowClock, RequestsAreWrites
<1>6. /\ installed'[n] \subseteq installed[n] \cup {RequestId(m)}
      /\ ~ok => installed'[n] = installed[n]
      /\ data'[n] = d
      /\ \A o \in Node : o # n => installed'[o] = installed[o] /\ data'[o] = data[o]
  BY <1>0, <1>2 DEF TypeOK
<1>7. InstalledAreWrites'
  BY <1>2, <1>4, <1>6 DEF InstalledAreWrites
<1>8. InstalledIsHeld'
  <2> SUFFICES ASSUME NEW o \in Node, NEW w \in installed'[o], SingleWriter(w.key)
               PROVE  data'[o][w.key] # Missing /\ AfterOrEqual(data'[o][w.key].ts, w.ts)
    BY <1>2 DEF InstalledIsHeld, SingleWriter
  <2>1. CASE o # n \/ ~ok
    BY <1>1, <1>6, <2>1 DEF InstalledIsHeld
  <2>2. CASE o = n /\ ok /\ w = RequestId(m)
    <3>1. w.key = m.key /\ w.ts = m.ts
      BY <2>2 DEF RequestId
    <3> QED BY <1>0, <1>1, <1>3, <1>6, <2>2, <3>1, CompareIsTotalOrder
  <2>3. CASE o = n /\ ok /\ w \in installed[n]
    <3>1. w.key \in Key /\ w.ts \in Timestamp
      BY <1>0, <2>3 DEF TypeOK, WriteId
    <3>2. data[n][w.key] # Missing /\ AfterOrEqual(data[n][w.key].ts, w.ts)
      BY <1>0, <2>3 DEF InstalledIsHeld
    <3>3. data[n][w.key].ts \in Timestamp
      BY <1>0, <3>1, <3>2 DEF Map, Value
    <3>4. CASE w.key # m.key
      BY <1>1, <1>6, <2>3, <3>1, <3>2, <3>4
    <3>5. CASE w.key = m.key
      <4>1. AfterOrEqual(m.ts, w.ts)
        BY <1>0, <1>1, <2>3, <3>1, <3>2, <3>3, <3>5, CompareIsTotalOrder
      <4> QED BY <1>1, <1>3, <1>6, <2>3, <3>5, <4>1
    <3> QED BY <3>4, <3>5
  <2> QED BY <1>6, <2>1, <2>2, <2>3
<1> QED BY <1>5, <1>7, <1>8

(* Commit overwrites without looking, but what the node has installed of a *)
(* single-writer key are earlier writes of the same client.                *)
LEMMA CommitDurable ==
    ASSUME Inv, Durable, NEW c \in Client, Commit(c)
    PROVE  Durable'
<1> DEFINE n == Home[c]
           op == call[c]
           d == StoreLocally(data[n], op)
<1> USE DEF Inv, Durable
<1>0. /\ n \in Node /\ op \in Op /\ op # Idle /\ op.val.by = c /\ op \in writes
      /\ data[n] \in Map
  BY HomeAssumption DEF Commit, TypeOK, CallsAreOwn, Map, LatestCall
<1>1. /\ d[op.key] \in Value /\ d[op.key].ts = op.val.ts
      /\ \A k \in Key : k # op.key => d[k] = data[n][k]
  BY <1>0, StoreLocallyResult
<1>2. /\ data' = [data EXCEPT ![n] = d]
      /\ installed' = [installed EXCEPT ![n] = installed[n] \cup {OpId(op)}]
      /\ call' = [call EXCEPT ![c] = Idle]
      /\ UNCHANGED <<clock, wire, serving, writes>>
  BY DEF Commit
<1>3. \A w \in writes : w.val.by = c => AfterOrEqual(op.val.ts, w.val.ts)
  BY <1>0 DEF LatestCall
<1> HIDE DEF d, op
<1>4. /\ installed'[n] = installed[n] \cup {OpId(op)}
      /\ data'[n] = d
      /\ \A o \in Node : o # n => installed'[o] = installed[o] /\ data'[o] = data[o]
  BY <1>0, <1>2 DEF TypeOK
<1>5. LatestCall'
  BY <1>2 DEF LatestCall, TypeOK
<1>6. StampsBelowClock' /\ RequestsAreWrites'
  BY <1>2 DEF StampsBelowClock, RequestsAreWrites
<1>7. InstalledAreWrites'
  BY <1>0, <1>2, <1>4 DEF InstalledAreWrites
<1>8. InstalledIsHeld'
  <2> SUFFICES ASSUME NEW o \in Node, NEW w \in installed'[o], SingleWriter(w.key)
               PROVE  data'[o][w.key] # Missing /\ AfterOrEqual(data'[o][w.key].ts, w.ts)
    BY <1>2 DEF InstalledIsHeld, SingleWriter
  <2>0. d[op.key] # Missing
    BY <1>1, MissingAssumption
  <2>1. CASE o # n
    BY <1>4, <2>1 DEF InstalledIsHeld
  <2>2. CASE o = n /\ w.key # op.key
    <3>1. w \in installed[n]
      BY <1>4, <2>2 DEF OpId
    <3>2. w.key \in Key
      BY <1>0, <3>1 DEF TypeOK, WriteId
    <3> QED BY <1>0, <1>1, <1>4, <2>2, <3>1, <3>2 DEF InstalledIsHeld
  <2>3. CASE o = n /\ w.key = op.key
    <3>1. PICK v \in writes : OpId(v) = w
      BY <1>0, <1>4, <2>3 DEF InstalledAreWrites
    <3>2. v.key = w.key /\ v.val.ts = w.ts
      BY <3>1 DEF OpId
    <3>3. v.val.by = c
      BY <1>0, <2>3, <3>2 DEF SingleWriter
    <3>4. AfterOrEqual(op.val.ts, w.ts)
      BY <1>3, <3>2, <3>3
    <3> QED BY <1>1, <1>4, <2>0, <2>3, <3>4
  <2> QED BY <2>1, <2>2, <2>3
<1> QED BY <1>5, <1>6, <1>7, <1>8

(* Every step keeps what the quorum holds.                                 *)
LEMMA NextDurable == Inv /\ Durable /\ [Next]_vars => Durable'
<1> SUFFICES ASSUME Inv, Durable, [Next]_vars PROVE Durable'
  OBVIOUS
<1>1. ASSUME NEW c \in Client, NEW k \in Key, NEW x \in Data \cup {Missing},
             NEW now \in Wall, StampAndReplicate(c, k, x, now)
      PROVE  Durable'
  BY <1>1, StampDurable
<1>2. ASSUME NEW m \in wire, NEW now \in Wall, Serve(m, now) PROVE Durable'
  BY <1>2, ServeDurable
<1>3. ASSUME NEW m \in serving, ServeApply(m) PROVE Durable'
  BY <1>3, ApplyDurable
<1>4. ASSUME NEW c \in Client, Commit(c) PROVE Durable'
  BY <1>4, CommitDurable
<1>5. CASE /\ wire' \subseteq wire
           /\ UNCHANGED <<clock, data, serving, writes, installed>>
           /\ \A c \in Client : call'[c] \in {call[c], Idle}
  BY <1>5 DEF Durable, LatestCall, StampsBelowClock, RequestsAreWrites,
              InstalledAreWrites, InstalledIsHeld, SingleWriter
<1>6. ASSUME NEW c \in Client, Abort(c) PROVE Durable'
  BY <1>5, <1>6 DEF Abort, Inv, TypeOK
<1> QED BY <1>1, <1>2, <1>3, <1>4, <1>5, <1>6
        DEF Next, Deliver, Return, ServeError, Answer, CallFails, Drop, Rest, vars

(* While only one client writes a key, most of its group holds each        *)
(* acknowledged write of it or a newer one, whatever fails afterwards.     *)
THEOREM SingleWriterIsDurable == Spec => []SingleWriterDurable
<1>1. Spec => []Durable
  BY StrongInvariant, InitDurable, NextDurable, PTL DEF Spec
<1>2. Inv /\ Durable => SingleWriterDurable
  <2> SUFFICES ASSUME Inv, Durable, NEW w \in acked, SingleWriter(w.key)
               PROVE  Majority(Holders(w), Home[w.by])
    BY DEF SingleWriterDurable
  <2> DEFINE G == Group(Home[w.by])
             S == InstalledBy(w) \cap G
             T == Holders(w) \cap G
  <2>1. InstalledBy(w) \subseteq Holders(w)
    BY DEF InstalledBy, Holders, GetVersion, Durable, InstalledIsHeld
  <2>2. IsFiniteSet(G)
    BY HomeAssumption, GroupIsFinite DEF Inv, TypeOK, WriteId
  <2>3. IsFiniteSet(T) /\ S \subseteq T
    BY <2>1, <2>2, FS_Subset
  <2>4. Cardinality(S) <= Cardinality(T) /\ IsFiniteSet(S)
    BY <2>3, FS_Subset
  <2>5. /\ Cardinality(S) \in Nat /\ Cardinality(T) \in Nat
        /\ Cardinality(G) \in Nat
    BY <2>2, <2>3, <2>4, FS_CardinalityType
  <2>6. 2 * Cardinality(S) > Cardinality(G)
    BY DEF Inv, AckedOnQuorum, Majority
  <2>7. 2 * Cardinality(T) > Cardinality(G)
    <3> HIDE DEF S, T, G
    <3> QED BY <2>4, <2>5, <2>6
  <2> QED BY <2>7 DEF Majority
<1> QED BY <1>1, <1>2, StrongInvariant, PTL

----------------------------------------------------------------------------
(* The refinement of QuorumStore: where clocks, stamps and requests come   *)
(* from, and that a request is served once, so that a write is installed   *)
(* at most once at a node.                                                 *)

(* The wall part of a clock is a reading of some node's wall clock.        *)
WallsAreReadings == \A n \in Node : clock[n].wall \in Wall

(* A node gives no timestamp twice.                                        *)
StampsDiffer ==
    \A v, w \in writes :
        Home[v.val.by] = Home[w.val.by] /\ v.val.ts = w.val.ts => v = w

(* A request goes to a peer of its writer's node and carries a write of    *)
(* the history with a wall reading in its timestamp.                       *)
RequestsCarryWrites ==
    \A m \in wire \cup serving :
        /\ m.to \in Peers(Home[m.by])
        /\ m.deps = {}
        /\ m.ts.wall \in Wall
        /\ \E w \in writes : Carries(m, w)

(* A request is on its way or being served, not both, and its peer has not *)
(* installed its write yet.                                                *)
ServedOnce ==
    /\ wire \cap serving = {}
    /\ \A m \in wire \cup serving : RequestId(m) \notin installed[m.to]

(* A node has not installed a write whose call OnWrite still holds.        *)
CallNotInstalled ==
    \A c \in Client : call[c] # Idle => OpId(call[c]) \notin installed[Home[c]]

(* With Inv and Durable, an inductive invariant.                           *)
Sourced ==
    /\ WallsAreReadings
    /\ StampsDiffer
    /\ RequestsCarryWrites
    /\ ServedOnce
    /\ CallNotInstalled

(* Before the first write there is nothing to account for.                 *)
LEMMA InitSourced == Init => Sourced
BY DEF Init, Sourced, WallsAreReadings, StampsDiffer, RequestsCarryWrites,
       ServedOnce, CallNotInstalled, New

(* The timestamp of a new write is after every earlier one of its node.    *)
LEMMA StampIsFresh ==
    ASSUME Inv, Durable, NEW c \in Client, NEW now \in Wall,
           ~SendFails(clock[Home[c]], now)
    PROVE  /\ Send(clock[Home[c]], now) \in Timestamp
           /\ \A v \in writes : Home[v.val.by] = Home[c] =>
                 v.val.ts # Send(clock[Home[c]], now)
<1> DEFINE n == Home[c]
           ts == Send(clock[n], now)
<1>1. n \in Node /\ clock[n] \in Timestamp
  BY HomeAssumption DEF Inv, TypeOK
<1>2. ts \in Timestamp /\ After(ts, clock[n])
  BY <1>1, SendAdvances
<1> HIDE DEF ts
<1>3. ASSUME NEW v \in writes, Home[v.val.by] = n PROVE v.val.ts # ts
  <2>1. v.val.ts \in Timestamp /\ AfterOrEqual(clock[n], v.val.ts)
    BY <1>3 DEF Inv, TypeOK, Op, Value, Durable, StampsBelowClock
  <2> QED BY <1>1, <1>2, <2>1, CompareIsTotalOrder
<1> QED BY <1>2, <1>3 DEF ts

(* A new write is one no node has installed and no request carries.        *)
LEMMA StampSourced ==
    ASSUME Inv, Durable, Sourced, NEW c \in Client, NEW k \in Key,
           NEW x \in Data \cup {Missing}, NEW now \in Wall,
           StampAndReplicate(c, k, x, now)
    PROVE  Sourced'
<1> DEFINE n == Home[c]
           ts == Send(clock[n], now)
           op == OpFor(k, x, ts, c)
<1> USE DEF Inv, Sourced
<1>0. n \in Node /\ clock[n] \in Timestamp /\ clock[n].wall \in Wall
  BY HomeAssumption DEF TypeOK, WallsAreReadings
<1>1. /\ ts \in Timestamp /\ ts.wall \in Wall
      /\ \A v \in writes : Home[v.val.by] = n => v.val.ts # ts
  BY <1>0, StampIsFresh, SendAdvances DEF StampAndReplicate
<1>2. op \in Op /\ op.val.by = c /\ op.val.ts = ts
  BY <1>1, OpForType
<1>3. /\ clock' = [clock EXCEPT ![n] = ts]
      /\ call' = [call EXCEPT ![c] = op]
      /\ wire' = wire \cup Broadcast(op, {})
      /\ writes' = writes \cup {op}
      /\ UNCHANGED <<serving, installed>>
  BY DEF StampAndReplicate
<1> HIDE DEF ts, op
<1>4. \A m \in Broadcast(op, {}) :
         /\ m.to \in Peers(n) /\ m.by = c /\ m.deps = {} /\ m.ts = ts
         /\ RequestId(m) = OpId(op) /\ Carries(m, op)
  BY <1>2, BroadcastType, BroadcastCarries
<1>5. OpId(op).ts = ts /\ OpId(op).by = c
  BY <1>2 DEF OpId
<1>6. \A o \in Node : OpId(op) \notin installed[o]
  <2> SUFFICES ASSUME NEW o \in Node, OpId(op) \in installed[o] PROVE FALSE
    OBVIOUS
  <2>1. PICK v \in writes : OpId(v) = OpId(op)
    BY DEF Durable, InstalledAreWrites
  <2>2. v.val.by = c /\ v.val.ts = ts
    BY <1>5, <2>1 DEF OpId
  <2> QED BY <1>1, <2>2
<1>7. WallsAreReadings'
  BY <1>0, <1>1, <1>3 DEF WallsAreReadings, TypeOK
<1>8. StampsDiffer'
  BY <1>1, <1>2, <1>3 DEF StampsDiffer
<1>9. RequestsCarryWrites'
  BY <1>1, <1>3, <1>4 DEF RequestsCarryWrites
<1>10. ServedOnce'
  <2>1. Broadcast(op, {}) \cap serving = {}
    <3> SUFFICES ASSUME NEW m \in Broadcast(op, {}), m \in serving PROVE FALSE
      OBVIOUS
    <3>1. PICK w \in writes : Carries(m, w)
      BY DEF RequestsCarryWrites
    <3> QED BY <1>1, <1>4, <3>1 DEF Carries
  <2>2. \A m \in Broadcast(op, {}) : RequestId(m) \notin installed[m.to]
    BY <1>0, <1>4, <1>6, PeersType
  <2> QED BY <1>3, <2>1, <2>2 DEF ServedOnce
<1>11. CallNotInstalled'
  BY <1>0, <1>3, <1>6, HomeAssumption DEF CallNotInstalled, TypeOK
<1> QED BY <1>7, <1>8, <1>9, <1>10, <1>11

(* Clock.Receive takes its wall part from a reading, its own or another's. *)
LEMMA ServeSourced ==
    ASSUME Inv, Sourced, NEW m \in wire, NEW now \in Wall, Serve(m, now)
    PROVE  Sourced'
<1> USE DEF Inv, Sourced
<1>0. /\ m.to \in Node /\ m.ts \in Timestamp /\ clock[m.to] \in Timestamp
      /\ m.ts.wall \in Wall /\ clock[m.to].wall \in Wall
  BY DEF TypeOK, Message, RequestsCarryWrites, WallsAreReadings
<1>1. Receive(clock[m.to], m.ts, now).wall \in Wall
  BY <1>0, ReceiveAdvances DEF Serve
<1>2. /\ clock' = [clock EXCEPT ![m.to] = Receive(clock[m.to], m.ts, now)]
      /\ wire' = wire \ {m}
      /\ serving' = serving \cup {m}
      /\ UNCHANGED <<call, writes, installed>>
  BY DEF Serve
<1>3. WallsAreReadings'
  BY <1>0, <1>1, <1>2 DEF WallsAreReadings, TypeOK
<1>4. StampsDiffer' /\ RequestsCarryWrites' /\ ServedOnce' /\ CallNotInstalled'
  BY <1>2 DEF StampsDiffer, RequestsCarryWrites, ServedOnce, CallNotInstalled
<1> QED BY <1>3, <1>4

(* No two requests to a peer are of one write.                             *)
LEMMA RequestIsUnique ==
    ASSUME Inv, Sourced, NEW m \in wire \cup serving, NEW o \in wire \cup serving,
           o.to = m.to, RequestId(o) = RequestId(m)
    PROVE  o = m
<1>1. PICK v \in writes : Carries(m, v)
  BY DEF Sourced, RequestsCarryWrites
<1>2. PICK w \in writes : Carries(o, w)
  BY DEF Sourced, RequestsCarryWrites
<1>3. o.key = m.key /\ o.ts = m.ts /\ o.by = m.by
  BY DEF RequestId
<1>4. v = w
  BY <1>1, <1>2, <1>3 DEF Carries, Sourced, StampsDiffer
<1>5. o.data = m.data /\ o.deps = m.deps
  BY <1>1, <1>2, <1>4 DEF Carries, Sourced, RequestsCarryWrites
<1>6. o \in Message /\ m \in Message
  BY DEF Inv, TypeOK
<1> QED BY <1>3, <1>5, <1>6 DEF Message

(* Serving a request installs its write where it was not.                  *)
LEMMA ApplySourced ==
    ASSUME Inv, Sourced, NEW m \in serving, ServeApply(m)
    PROVE  Sourced'
<1> DEFINE n == m.to
           id == RequestId(m)
<1> USE DEF Inv, Sourced
<1>0. m \in Message /\ n \in Node /\ n # Home[m.by]
  BY DEF TypeOK, Message, RequestsLeaveHome
<1>1. /\ serving' = serving \ {m}
      /\ installed' = [installed EXCEPT
                         ![n] = IF Accepts(data[n], m.key, m.ts)
                                THEN installed[n] \cup {id} ELSE installed[n]]
      /\ UNCHANGED <<clock, call, wire, writes>>
  BY DEF ServeApply
<1>2. /\ installed'[n] \subseteq installed[n] \cup {id}
      /\ \A o \in Node : o # n => installed'[o] = installed[o]
  BY <1>0, <1>1 DEF TypeOK
<1>3. WallsAreReadings' /\ StampsDiffer' /\ RequestsCarryWrites'
  BY <1>1 DEF WallsAreReadings, StampsDiffer, RequestsCarryWrites
<1>4. ServedOnce'
  <2>1. wire' \cap serving' = {}
    BY <1>1 DEF ServedOnce
  <2>2. ASSUME NEW o \in wire' \cup serving' PROVE RequestId(o) \notin installed'[o.to]
    <3>1. o \in wire \cup serving /\ o # m
      BY <1>1 DEF ServedOnce
    <3>2. o.to \in Node /\ RequestId(o) \notin installed[o.to]
      BY <3>1 DEF TypeOK, Message, ServedOnce
    <3>3. o.to = n => RequestId(o) # id
      BY <3>1, RequestIsUnique
    <3> QED BY <1>2, <3>2, <3>3
  <2> QED BY <2>1, <2>2 DEF ServedOnce
<1>5. CallNotInstalled'
  <2> SUFFICES ASSUME NEW e \in Client, call[e] # Idle
               PROVE  OpId(call[e]) \notin installed'[Home[e]]
    BY <1>1 DEF CallNotInstalled
  <2>1. Home[e] \in Node /\ OpId(call[e]) \notin installed[Home[e]]
    BY HomeAssumption DEF CallNotInstalled
  <2>2. OpId(call[e]).by = e /\ id.by = m.by
    BY DEF CallsAreOwn, OpId, RequestId
  <2> QED BY <1>0, <1>2, <2>1, <2>2
<1> QED BY <1>3, <1>4, <1>5

(* A successful call installs its write where it was not, and ends.        *)
LEMMA CommitSourced ==
    ASSUME Inv, Sourced, NEW c \in Client, Commit(c)
    PROVE  Sourced'
<1> DEFINE n == Home[c]
           id == OpId(call[c])
<1> USE DEF Inv, Sourced
<1>0. n \in Node /\ id.by = c
  BY HomeAssumption DEF Commit, CallsAreOwn, OpId
<1>1. /\ installed' = [installed EXCEPT ![n] = installed[n] \cup {id}]
      /\ call' = [call EXCEPT ![c] = Idle]
      /\ UNCHANGED <<clock, wire, serving, writes>>
  BY DEF Commit
<1> HIDE DEF id
<1>2. /\ installed'[n] = installed[n] \cup {id}
      /\ \A o \in Node : o # n => installed'[o] = installed[o]
  BY <1>0, <1>1 DEF TypeOK
<1>3. WallsAreReadings' /\ StampsDiffer' /\ RequestsCarryWrites'
  BY <1>1 DEF WallsAreReadings, StampsDiffer, RequestsCarryWrites
<1>4. ServedOnce'
  <2>1. ASSUME NEW m \in wire \cup serving PROVE RequestId(m) \notin installed'[m.to]
    <3>1. /\ m.to \in Node /\ m.to # Home[m.by]
          /\ RequestId(m) \notin installed[m.to] /\ RequestId(m).by = m.by
      BY DEF TypeOK, Message, RequestsLeaveHome, ServedOnce, RequestId
    <3> QED BY <1>0, <1>2, <3>1
  <2> QED BY <1>1, <2>1 DEF ServedOnce
<1>5. CallNotInstalled'
  <2> SUFFICES ASSUME NEW e \in Client, call'[e] # Idle
               PROVE  OpId(call'[e]) \notin installed'[Home[e]]
    BY DEF CallNotInstalled
  <2>1. e # c /\ call'[e] = call[e]
    BY <1>1 DEF TypeOK
  <2>2. Home[e] \in Node /\ OpId(call[e]) \notin installed[Home[e]] /\ OpId(call[e]).by = e
    BY <2>1, HomeAssumption DEF CallNotInstalled, CallsAreOwn, OpId
  <2> QED BY <1>0, <1>2, <2>1, <2>2
<1> QED BY <1>3, <1>4, <1>5

(* Every step keeps the provenance.                                        *)
LEMMA NextSourced == Inv /\ Durable /\ Sourced /\ [Next]_vars => Sourced'
<1> SUFFICES ASSUME Inv, Durable, Sourced, [Next]_vars PROVE Sourced'
  OBVIOUS
<1>1. ASSUME NEW c \in Client, NEW k \in Key, NEW x \in Data \cup {Missing},
             NEW now \in Wall, StampAndReplicate(c, k, x, now)
      PROVE  Sourced'
  BY <1>1, StampSourced
<1>2. ASSUME NEW m \in wire, NEW now \in Wall, Serve(m, now) PROVE Sourced'
  BY <1>2, ServeSourced
<1>3. ASSUME NEW m \in serving, ServeApply(m) PROVE Sourced'
  BY <1>3, ApplySourced
<1>4. ASSUME NEW c \in Client, Commit(c) PROVE Sourced'
  BY <1>4, CommitSourced
<1>5. CASE /\ wire' \subseteq wire
           /\ UNCHANGED <<clock, serving, writes, installed>>
           /\ \A c \in Client : call'[c] \in {call[c], Idle}
  BY <1>5 DEF Sourced, WallsAreReadings, StampsDiffer, RequestsCarryWrites,
              ServedOnce, CallNotInstalled
<1>6. ASSUME NEW c \in Client, Abort(c) PROVE Sourced'
  BY <1>5, <1>6 DEF Abort, Inv, TypeOK
<1> QED BY <1>1, <1>2, <1>3, <1>4, <1>5, <1>6
        DEF Next, Deliver, Return, ServeError, Answer, CallFails, Drop, Rest, vars

(* Stamps, requests and installs are accounted for in every behaviour.     *)
THEOREM StrongProvenance == Spec => [](Inv /\ Durable /\ Sourced)
<1>1. Init => Inv /\ Durable /\ Sourced
  BY InitInv, InitDurable, InitSourced
<1>2. Inv /\ Durable /\ Sourced /\ [Next]_vars => (Inv /\ Durable /\ Sourced)'
  BY NextInv, NextDurable, NextSourced
<1> QED BY <1>1, <1>2, PTL DEF Spec

(* A step that takes a timestamp issues a write.                           *)
LEMMA StampIssues ==
    ASSUME Inv, Durable, Sourced, NEW c \in Client, NEW k \in Key,
           NEW x \in Data \cup {Missing}, NEW now \in Wall,
           StampAndReplicate(c, k, x, now)
    PROVE  QS!Next
<1> DEFINE n == Home[c]
           ts == Send(clock[n], now)
           op == OpFor(k, x, ts, c)
<1>1. n \in Node /\ clock[n] \in Timestamp /\ clock[n].wall \in Wall
  BY HomeAssumption DEF Inv, TypeOK, Sourced, WallsAreReadings
<1>2. /\ ts \in Timestamp /\ ts.wall \in Wall
      /\ \A v \in writes : Home[v.val.by] = Home[c] => v.val.ts # ts
  BY <1>1, StampIsFresh, SendAdvances DEF StampAndReplicate
<1>3. writes' = writes \cup {op} /\ UNCHANGED <<data, installed, acked>>
  BY DEF StampAndReplicate
<1>4. ts \in [wall : Wall, logical : 0 .. MaxLogical]
  BY <1>2 DEF Timestamp
<1>5. op.val.by = c /\ op.val.ts = ts
  BY <1>2, OpForType
<1>6. op = QS!OpFor(k, x, ts, c)
  BY DEF OpFor, QS!OpFor, PutValue, QS!PutValue, Tombstone, QS!Tombstone
<1> HIDE DEF ts, op
<1>7. writes' # writes
  BY <1>2, <1>3, <1>5
<1>8. QS!Issue(c, k, x, ts)
  BY <1>2, <1>3, <1>6 DEF QS!Issue
<1> QED BY <1>4, <1>7, <1>8 DEF QS!Next

(* The rest of Replicate installs a later write at a peer, or changes      *)
(* nothing a client could tell.                                            *)
LEMMA ApplyAccepts ==
    ASSUME Inv, Sourced, NEW m \in serving, ServeApply(m)
    PROVE  QS!Next \/ UNCHANGED QS!qsVars
<1> DEFINE n == m.to
           d == ApplyReplicated(data[n], m)
           ok == Accepts(data[n], m.key, m.ts)
<1>1. /\ m \in Message /\ n \in Node /\ m.key \in Key /\ data[n] \in Map
      /\ RequestId(m) \notin installed[n]
  BY DEF Inv, TypeOK, Message, Map, Sourced, ServedOnce
<1>2. /\ data' = [data EXCEPT ![n] = d]
      /\ installed' = [installed EXCEPT
                         ![n] = IF ok THEN installed[n] \cup {RequestId(m)}
                                ELSE installed[n]]
      /\ UNCHANGED <<writes, acked>>
  BY DEF ServeApply
<1>3. /\ d \in Map
      /\ \A k \in Key : k # m.key => d[k] = data[n][k]
      /\ ok => /\ d[m.key] = Decode(m)
               /\ data[n][m.key] # Missing => After(m.ts, data[n][m.key].ts)
      /\ ~ok => d = data[n]
  BY <1>1, ApplyReplicatedResult
<1> HIDE DEF d, ok
<1>4. CASE ~ok
  BY <1>1, <1>2, <1>3, <1>4 DEF QS!qsVars, Inv, TypeOK
<1>5. CASE ok
  <2>1. PICK w \in writes : Carries(m, w)
    BY DEF Sourced, RequestsCarryWrites
  <2>2. w.val \in Value /\ n \in Peers(Home[w.val.by])
    BY <2>1 DEF Inv, TypeOK, Op, Sourced, RequestsCarryWrites, Carries
  <2>3. [w.val EXCEPT !.deleted = w.val.data = Empty] = Decode(m)
    BY <2>1, <2>2 DEF Carries, Decode, Value
  <2>4. d = [data[n] EXCEPT ![w.key] = Decode(m)]
    BY <1>1, <1>3, <1>5, <2>1 DEF Map, Carries
  <2>5. data' = [data EXCEPT ![n][w.key] = Decode(m)]
    BY <1>1, <1>2, <2>4 DEF Inv, TypeOK
  <2>6. data[n][w.key] # Missing => QS!After(w.val.ts, data[n][w.key].ts)
    BY <1>3, <1>5, <2>1 DEF Carries, After, Compare, QS!After, QS!Compare
  <2>7. QS!OpId(w) = RequestId(m)
    BY <2>1 DEF Carries, QS!OpId, RequestId
  <2>8. installed' = [installed EXCEPT ![n] = installed[n] \cup {QS!OpId(w)}]
    BY <1>2, <1>5, <2>7
  <2>9. n \in QS!Peers(Home[w.val.by])
    BY <2>2 DEF Peers, QS!Peers
  <2>10. QS!Accept(n, w)
    BY <1>2, <2>3, <2>5, <2>6, <2>8, <2>9 DEF QS!Accept
  <2>11. installed' # installed
    <3>1. installed'[n] = installed[n] \cup {RequestId(m)}
      BY <1>1, <1>2, <1>5 DEF Inv, TypeOK
    <3> QED BY <1>1, <3>1
  <2> QED BY <1>1, <2>10, <2>11 DEF QS!Next
<1> QED BY <1>4, <1>5

(* The instance counts as this module does.                                *)
LEMMA SameCardinality ==
    ASSUME NEW S PROVE QS!Cardinality(S) = Cardinality(S)
BY Zenon DEF Cardinality, QS!Cardinality

(* A call that succeeds acknowledges a write most of its group has.        *)
LEMMA CommitAcks ==
    ASSUME Inv, Durable, Sourced, NEW c \in Client, Commit(c)
    PROVE  QS!Next
<1> DEFINE n == Home[c]
           op == call[c]
           B == QS!Backing(n, op)
<1>1. /\ n \in Node /\ op \in Op /\ op # Idle /\ op.val.by = c /\ op \in writes
      /\ OpId(op) \notin installed[n]
  BY HomeAssumption DEF Commit, Inv, TypeOK, CallsAreOwn, Durable, LatestCall,
                        Sourced, CallNotInstalled
<1>2. /\ data' = [data EXCEPT ![n] = StoreLocally(data[n], op)]
      /\ installed' = [installed EXCEPT ![n] = installed[n] \cup {OpId(op)}]
      /\ acked' = acked \cup {OpId(op)}
      /\ UNCHANGED writes
      /\ Cardinality(Acks(c)) >= Quorum(n) - 1
  BY DEF Commit
<1>3. /\ StoreLocally(data[n], op) = QS!StoreLocally(data[n], op)
      /\ OpId(op) = QS!OpId(op)
  BY DEF StoreLocally, QS!StoreLocally, Delete, QS!Delete, Put, QS!Put,
         Tombstone, QS!Tombstone, OpId, QS!OpId
<1>4. B \in SUBSET Node /\ n \in B /\ B \subseteq Group(n)
  BY <1>1, PeersType DEF QS!Backing, QS!Peers, Peers, Group
<1>5. Acks(c) \subseteq B
  <2>1. \A p \in Acks(c) : p \in Peers(n) /\ OpId(op) \in installed[p]
    BY <1>1, PeersType DEF Acks, Inv, OkIsInstalled
  <2> QED BY <1>3, <2>1 DEF QS!Backing, QS!Peers, Peers
<1> HIDE DEF B, op
<1>6. Majority(B, n)
  BY <1>1, <1>2, <1>4, <1>5, AcksAndHome DEF op
<1>7. 2 * Cardinality(B) > Cardinality(QS!Peers(n)) + 1
  <2>1. B \cap Group(n) = B
    BY <1>4
  <2>2. Cardinality(Group(n)) = Cardinality(QS!Peers(n)) + 1
    BY <1>1, GroupIsFinite DEF Peers, QS!Peers
  <2> QED BY <1>6, <2>1, <2>2 DEF Majority
<1>8. QS!Ack(n, op)
  BY <1>1, <1>2, <1>3, <1>7, SameCardinality DEF QS!Ack, B
<1>9. installed' # installed
  <2>1. installed'[n] = installed[n] \cup {OpId(op)}
    BY <1>1, <1>2 DEF Inv, TypeOK
  <2> QED BY <1>1, <2>1
<1> QED BY <1>1, <1>8, <1>9 DEF QS!Next

(* Strong mode implements QuorumStore for any nodes, clients, failures and *)
(* hung peers: every step of OnWrite, Replicate and the RPCs between them  *)
(* issues, accepts or acknowledges a write, or shows nothing.              *)
THEOREM StrongIsQuorumStore == Spec => ImplementsQuorumStore
<1>1. Init => QS!Init
  BY DEF Init, QS!Init, NewStore, QS!NewStore
<1>2. Inv /\ Durable /\ Sourced /\ [Next]_vars => [QS!Next]_(QS!qsVars)
  <2> SUFFICES ASSUME Inv, Durable, Sourced, [Next]_vars
               PROVE  QS!Next \/ UNCHANGED QS!qsVars
    OBVIOUS
  <2>1. ASSUME NEW c \in Client, NEW k \in Key, NEW x \in Data \cup {Missing},
               NEW now \in Wall, StampAndReplicate(c, k, x, now)
        PROVE  QS!Next
    BY <2>1, StampIssues
  <2>2. ASSUME NEW m \in serving, ServeApply(m)
        PROVE  QS!Next \/ UNCHANGED QS!qsVars
    BY <2>2, ApplyAccepts
  <2>3. ASSUME NEW c \in Client, Commit(c) PROVE QS!Next
    BY <2>3, CommitAcks
  <2>4. CASE UNCHANGED <<data, writes, installed, acked>>
    BY <2>4 DEF QS!qsVars
  <2> QED BY <2>1, <2>2, <2>3, <2>4
          DEF Next, Deliver, Return, Abort, Serve, ServeError, Answer, CallFails,
              Drop, Rest, vars
<1> QED BY <1>1, <1>2, StrongProvenance, PTL
        DEF Spec, ImplementsQuorumStore, QS!Spec

----------------------------------------------------------------------------
(* At the nodes without clients strong mode is also the register of        *)
(* LastWriteWins that eventual and causal mode implement.                  *)

Readers == {n \in Node : \A c \in Client : Home[c] # n}

LWW == INSTANCE LastWriteWins
          WITH issued <- writes, view <- [r \in Readers |-> data[r]]

(* Whatever mode the cluster runs in, a node no client writes at moves     *)
(* from one write to a later one: OnWrite of strong mode changes only the  *)
(* writer's own store, and Replicate is the same in all modes.             *)
THEOREM StrongIsLastWriteWins == Spec => LWW!Spec
<1>1. Init => LWW!Init
  BY DEF Init, LWW!Init, Readers, LWW!Reader, NewStore, LWW!NewStore
<1>2. Inv /\ Durable /\ Sourced /\ [Next]_vars => [LWW!Next]_(LWW!lwwVars)
  <2> SUFFICES ASSUME Inv, Durable, Sourced, [Next]_vars
               PROVE  LWW!Next \/ UNCHANGED LWW!lwwVars
    OBVIOUS
  <2> USE DEF Inv
  <2>1. ASSUME NEW c \in Client, NEW k \in Key, NEW x \in Data \cup {Missing},
               NEW now \in Wall, StampAndReplicate(c, k, x, now)
        PROVE  LWW!Next
    <3> DEFINE ts == Send(clock[Home[c]], now)
    <3>1. clock[Home[c]] \in Timestamp /\ clock[Home[c]].wall \in Wall
      BY HomeAssumption DEF TypeOK, Sourced, WallsAreReadings
    <3>2. /\ ts \in Timestamp /\ ts.wall \in Wall
          /\ \A v \in writes : Home[v.val.by] = Home[c] => v.val.ts # ts
      BY <2>1, <3>1, StampIsFresh, SendAdvances DEF StampAndReplicate
    <3>3. writes' = writes \cup {OpFor(k, x, ts, c)} /\ data' = data
      BY <2>1 DEF StampAndReplicate
    <3>4. ts \in [wall : Wall, logical : 0 .. MaxLogical]
      BY <3>2 DEF Timestamp
    <3> HIDE DEF ts
    <3>5. OpFor(k, x, ts, c) = LWW!OpFor(k, x, ts, c)
      BY DEF OpFor, LWW!OpFor, PutValue, LWW!PutValue, Tombstone, LWW!Tombstone
    <3>6. LWW!Issue(c, k, x, ts)
      BY <3>2, <3>3, <3>5 DEF LWW!Issue
    <3> QED BY <3>4, <3>6 DEF LWW!Next
  <2>2. ASSUME NEW c \in Client, Commit(c) PROVE UNCHANGED LWW!lwwVars
    <3>1. \A r \in Readers : data'[r] = data[r]
      BY <2>2, HomeAssumption DEF Commit, Readers, TypeOK
    <3> QED BY <2>2, <3>1 DEF Commit, LWW!lwwVars
  <2>3. ASSUME NEW m \in serving, ServeApply(m)
        PROVE  LWW!Next \/ UNCHANGED LWW!lwwVars
    <3> DEFINE n == m.to
               d == ApplyReplicated(data[n], m)
    <3>1. m \in Message /\ n \in Node /\ m.key \in Key /\ data[n] \in Map
      BY DEF TypeOK, Message, Map
    <3>2. data' = [data EXCEPT ![n] = d] /\ writes' = writes
      BY <2>3 DEF ServeApply
    <3>3. /\ d \in Map
          /\ \A k \in Key : k # m.key => d[k] = data[n][k]
          /\ Accepts(data[n], m.key, m.ts) =>
                /\ d[m.key] = Decode(m)
                /\ data[n][m.key] # Missing => After(m.ts, data[n][m.key].ts)
          /\ ~Accepts(data[n], m.key, m.ts) => d = data[n]
      BY <3>1, ApplyReplicatedResult
    <3> HIDE DEF d
    <3>4. CASE n \notin Readers \/ ~Accepts(data[n], m.key, m.ts)
      <4>1. \A r \in Readers : data'[r] = data[r]
        BY <3>1, <3>2, <3>3, <3>4 DEF Readers, TypeOK
      <4> QED BY <3>2, <4>1 DEF LWW!lwwVars
    <3>5. CASE n \in Readers /\ Accepts(data[n], m.key, m.ts)
      <4>1. PICK w \in writes : Carries(m, w)
        BY DEF Sourced, RequestsCarryWrites
      <4>2. w.val \in Value
        BY DEF TypeOK, Op
      <4>3. [w.val EXCEPT !.deleted = w.val.data = Empty] = Decode(m)
        BY <4>1, <4>2 DEF Carries, Decode, Value
      <4>4. d = [data[n] EXCEPT ![w.key] = Decode(m)]
        BY <3>1, <3>3, <3>5, <4>1 DEF Map, Carries
      <4>5. data[n][w.key] # Missing => LWW!After(w.val.ts, data[n][w.key].ts)
        BY <3>3, <3>5, <4>1
           DEF Carries, After, Compare, LWW!After, LWW!Compare
      <4>6. [r \in Readers |-> data'[r]] =
               [[r \in Readers |-> data[r]] EXCEPT ![n][w.key] = Decode(m)]
        BY <3>1, <3>2, <3>5, <4>4 DEF Readers, TypeOK
      <4>7. LWW!Install(n, w)
        BY <3>2, <3>5, <4>3, <4>5, <4>6 DEF LWW!Install
      <4>8. n \in LWW!Reader
        BY <3>5 DEF Readers, LWW!Reader
      <4> QED BY <4>7, <4>8 DEF LWW!Next
    <3> QED BY <3>4, <3>5
  <2>4. CASE UNCHANGED <<data, writes>>
    BY <2>4 DEF LWW!lwwVars
  <2> QED BY <2>1, <2>2, <2>3, <2>4
          DEF Next, Deliver, Return, Abort, Serve, ServeError, Answer, CallFails,
              Drop, Rest, vars
<1> QED BY <1>1, <1>2, StrongProvenance, PTL DEF Spec, LWW!Spec
============================================================================
