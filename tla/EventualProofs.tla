--------------------------- MODULE EventualProofs ---------------------------
(***************************************************************************)
(* Safety of eventual mode for any nodes, clients, keys, payloads, wall    *)
(* readings, bound on the writes, and with or without lost RPCs.           *)
(*                                                                         *)
(* PassiveLatest and StampsUnique become inductive with one more fact: a   *)
(* call in progress is a write of the history, made by that client         *)
(* (CallsAreWrites), so the unconditional local store only ever touches a  *)
(* key its node writes locally.                                            *)
(*                                                                         *)
(* All of it holds as well when nodes are stopped (NodeProcess): what a    *)
(* process takes along is requests that were never sent.                   *)
(***************************************************************************)
EXTENDS NodeProcess, ReplicaLemmas

(* The write a client has under way is in the history and is its own.      *)
CallsAreWrites ==
    \A c \in Client : call[c] # Idle => call[c] \in writes /\ call[c].val.by = c

(* The inductive invariant.                                                *)
Inv == TypeOK /\ CallsAreWrites /\ StampsUnique /\ PassiveLatest

(* The initial states satisfy the invariant.                               *)
LEMMA InitInv == Init => Inv
<1> SUFFICES ASSUME Init PROVE Inv
  OBVIOUS
<1>1. TypeOK
  <2>1. clock \in [Node -> Timestamp]
    BY NewIsTimestamp DEF Init
  <2> QED BY <2>1 DEF Init, TypeOK, NewStore
<1>2. CallsAreWrites /\ StampsUnique
  BY DEF Init, CallsAreWrites, StampsUnique
<1>3. PassiveLatest
  BY DEF Init, PassiveLatest, NewStore
<1> QED BY <1>1, <1>2, <1>3 DEF Inv

(* A step that leaves the stores, the served requests, the calls and the   *)
(* history alone and moves no clock back keeps the invariant.              *)
LEMMA ClockOnlyInv ==
    ASSUME Inv, TypeOK',
           UNCHANGED <<data, call, writes, settled>>,
           \A n \in Node : AfterOrEqual(clock'[n], clock[n])
    PROVE  Inv'
<1> USE DEF Inv
<1>1. CallsAreWrites'
  BY DEF CallsAreWrites
<1>2. PassiveLatest'
  BY DEF PassiveLatest, WritesLocally
<1>3. StampsUnique'
  <2> SUFFICES ASSUME NEW w \in writes
               PROVE  AfterOrEqual(clock'[Home[w.val.by]], w.val.ts)
    BY DEF StampsUnique
  <2>1. Home[w.val.by] \in Node /\ w.val.ts \in Timestamp
    BY HomeAssumption DEF TypeOK, Op, Value
  <2> QED BY <2>1, CompareIsTotalOrder DEF StampsUnique, TypeOK
<1> QED BY <1>1, <1>2, <1>3

(* Clock.Send keeps the invariant: its result is after every earlier stamp *)
(* of the node.                                                            *)
LEMMA StampInv ==
    ASSUME Inv, NEW c \in Client, NEW k \in Key, NEW x \in Data \cup {Missing},
           NEW now \in Wall, Stamp(c, k, x, now)
    PROVE  Inv'
<1> DEFINE n == Home[c]
           ts == Send(clock[n], now)
           op == OpFor(k, x, ts, c)
<1> USE DEF Inv
<1>0. n \in Node /\ clock[n] \in Timestamp
  BY HomeAssumption DEF TypeOK
<1>1. ts \in Timestamp /\ After(ts, clock[n])
  BY <1>0, SendAdvances DEF Stamp
<1>2. op \in Op /\ op.key = k /\ op.val.by = c /\ op.val.ts = ts
  BY <1>1, OpForType
<1>3. /\ clock' = [clock EXCEPT ![n] = ts]
      /\ call' = [call EXCEPT ![c] = op]
      /\ writes' = writes \cup {op}
      /\ UNCHANGED <<data, wire, serving, settled>>
  BY DEF Stamp
<1> HIDE DEF ts, op
<1>4. TypeOK'
  BY <1>1, <1>2, <1>3 DEF TypeOK
<1>5. CallsAreWrites'
  BY <1>2, <1>3 DEF CallsAreWrites, TypeOK
<1>6. StampsUnique'
  <2>1. \A w \in writes : /\ w.val.ts \in Timestamp
                          /\ Home[w.val.by] \in Node
                          /\ clock[Home[w.val.by]] \in Timestamp
    BY HomeAssumption DEF TypeOK, Op, Value
  <2>2. \A w \in writes : Home[w.val.by] = n => After(ts, w.val.ts)
    BY <1>0, <1>1, <2>1, CompareIsTotalOrder DEF StampsUnique
  <2>3. \A w \in writes : AfterOrEqual(clock'[Home[w.val.by]], w.val.ts)
    <3> SUFFICES ASSUME NEW w \in writes
                 PROVE  AfterOrEqual(clock'[Home[w.val.by]], w.val.ts)
      OBVIOUS
    <3>1. CASE Home[w.val.by] = n
      <4>1. clock'[n] = ts
        BY <1>0, <1>3 DEF TypeOK
      <4> QED BY <1>1, <2>1, <2>2, <3>1, <4>1, CompareIsTotalOrder
    <3>2. CASE Home[w.val.by] # n
      BY <1>3, <2>1, <3>2 DEF StampsUnique, TypeOK
    <3> QED BY <3>1, <3>2
  <2>4. AfterOrEqual(clock'[Home[op.val.by]], op.val.ts)
    BY <1>0, <1>1, <1>2, <1>3, CompareIsTotalOrder DEF TypeOK
  <2>5. \A w \in writes : Home[w.val.by] = n => w.val.ts # ts
    BY <1>1, <2>1, <2>2, CompareIsTotalOrder
  <2>6. \A v, w \in writes' :
           Home[v.val.by] = Home[w.val.by] /\ v.val.ts = w.val.ts => v = w
    BY <1>2, <1>3, <2>5 DEF StampsUnique
  <2> QED BY <1>3, <2>3, <2>4, <2>6 DEF StampsUnique
<1>7. PassiveLatest'
  <2>1. \A o \in Node, j \in Key : WritesLocally(o, j) => WritesLocally(o, j)'
    BY <1>3 DEF WritesLocally
  <2> QED BY <1>3, <2>1 DEF PassiveLatest
<1> QED BY <1>4, <1>5, <1>6, <1>7

(* The local store keeps the invariant: it replaces a version without      *)
(* looking, but only of a key its node writes locally.                     *)
LEMMA StoreInv ==
    ASSUME Inv, NEW c \in Client, StoreThenReplicate(c)
    PROVE  Inv'
<1> DEFINE n == Home[c]
           op == call[c]
<1> USE DEF Inv
<1>0. n \in Node /\ op \in Op /\ op \in writes /\ op.val.by = c
  BY HomeAssumption DEF StoreThenReplicate, TypeOK, CallsAreWrites
<1>1. data[n] \in Map
  BY <1>0 DEF TypeOK, Map
<1>2. /\ data' = [data EXCEPT ![n] = StoreLocally(data[n], op)]
      /\ wire' = wire \cup Broadcast(op, {})
      /\ call' = [call EXCEPT ![c] = Idle]
      /\ UNCHANGED <<clock, serving, writes, settled>>
  BY DEF StoreThenReplicate
<1>3. Broadcast(op, {}) \subseteq Message
  BY <1>0, BroadcastType
<1>4. /\ StoreLocally(data[n], op) \in Map
      /\ \A k \in Key : k # op.key => StoreLocally(data[n], op)[k] = data[n][k]
  BY <1>0, <1>1, StoreLocallyResult
<1> HIDE DEF op
<1>5. TypeOK'
  BY <1>0, <1>2, <1>3, <1>4 DEF TypeOK, Map
<1>6. CallsAreWrites' /\ StampsUnique'
  BY <1>2 DEF CallsAreWrites, StampsUnique, TypeOK
<1>7. PassiveLatest'
  <2> SUFFICES ASSUME NEW o \in Node, NEW k \in Key, ~WritesLocally(o, k)
               PROVE  data'[o][k] = data[o][k]
    BY <1>2 DEF PassiveLatest, WritesLocally
  <2>1. o # n \/ k # op.key
    BY <1>0 DEF WritesLocally
  <2> QED BY <1>0, <1>2, <1>4, <2>1 DEF TypeOK
<1> QED BY <1>5, <1>6, <1>7

(* Clock.Receive keeps the invariant.                                      *)
LEMMA ServeInv ==
    ASSUME Inv, NEW m \in wire, NEW now \in Wall, Serve(m, now)
    PROVE  Inv'
<1> USE DEF Inv
<1>0. m \in Message /\ m.to \in Node /\ m.ts \in Timestamp /\ clock[m.to] \in Timestamp
  BY DEF TypeOK, Message
<1>1. /\ Receive(clock[m.to], m.ts, now) \in Timestamp
      /\ After(Receive(clock[m.to], m.ts, now), clock[m.to])
  BY <1>0, ReceiveAdvances DEF Serve
<1>2. TypeOK'
  BY <1>0, <1>1 DEF TypeOK, Serve
<1>3. \A n \in Node : AfterOrEqual(clock'[n], clock[n])
  BY <1>0, <1>1, CompareIsTotalOrder DEF Serve, TypeOK
<1>4. UNCHANGED <<data, call, writes, settled>>
  BY DEF Serve
<1> QED BY <1>2, <1>3, <1>4, ClockOnlyInv

(* A request that fails or is lost keeps the invariant.                    *)
LEMMA ForgetInv ==
    ASSUME Inv, wire' \subseteq wire,
           UNCHANGED <<clock, data, call, serving, writes, settled>>
    PROVE  Inv'
<1>1. TypeOK'
  BY DEF Inv, TypeOK
<1>2. \A n \in Node : AfterOrEqual(clock'[n], clock[n])
  BY CompareIsTotalOrder DEF Inv, TypeOK
<1> QED BY <1>1, <1>2, ClockOnlyInv

(* Store.Apply keeps the invariant: what it installs is newer than every   *)
(* request served before, what it refuses is not.                          *)
LEMMA ApplyInv ==
    ASSUME Inv, NEW m \in serving, ServeApply(m)
    PROVE  Inv'
<1> DEFINE n == m.to
           d == ApplyReplicated(data[n], m)
<1> USE DEF Inv
<1>0. /\ m \in Message /\ n \in Node /\ m.key \in Key /\ m.ts \in Timestamp
      /\ data[n] \in Map
  BY DEF TypeOK, Message, Map
<1>1. /\ d \in Map
      /\ \A k \in Key : k # m.key => d[k] = data[n][k]
      /\ Accepts(data[n], m.key, m.ts) =>
            /\ d[m.key] = Decode(m)
            /\ data[n][m.key] # Missing => After(m.ts, data[n][m.key].ts)
      /\ ~Accepts(data[n], m.key, m.ts) =>
            /\ d = data[n]
            /\ data[n][m.key] # Missing
            /\ AfterOrEqual(data[n][m.key].ts, m.ts)
  BY <1>0, ApplyReplicatedResult
<1>2. /\ data' = [data EXCEPT ![n] = d]
      /\ serving' = serving \ {m}
      /\ settled' = [settled EXCEPT ![n] = settled[n] \cup {m}]
      /\ UNCHANGED <<clock, call, wire, writes>>
  BY DEF ServeApply
<1>3. Decode(m) \in Value /\ Decode(m) # Missing /\ Decode(m).ts = m.ts
  BY <1>0, DecodeType, MissingAssumption
<1> HIDE DEF d
<1>4. TypeOK'
  BY <1>0, <1>1, <1>2 DEF TypeOK, Map
<1>5. CallsAreWrites' /\ StampsUnique'
  BY <1>2 DEF CallsAreWrites, StampsUnique
<1>6. PassiveLatest'
  <2> SUFFICES ASSUME NEW o \in Node, NEW k \in Key, ~WritesLocally(o, k)
               PROVE  /\ \A r \in settled'[o] : r.key = k =>
                            /\ data'[o][k] # Missing
                            /\ AfterOrEqual(data'[o][k].ts, r.ts)
                      /\ data'[o][k] # Missing =>
                            \E r \in settled'[o] : r.key = k /\ data'[o][k] = Decode(r)
    BY <1>2 DEF PassiveLatest, WritesLocally
  <2>0. /\ \A r \in settled[o] : r.key = k =>
              data[o][k] # Missing /\ AfterOrEqual(data[o][k].ts, r.ts)
        /\ data[o][k] # Missing =>
              \E r \in settled[o] : r.key = k /\ data[o][k] = Decode(r)
    BY DEF PassiveLatest
  <2>1. CASE o # n
    BY <1>0, <1>2, <2>0, <2>1 DEF TypeOK
  <2>2. CASE o = n /\ k # m.key
    BY <1>0, <1>1, <1>2, <2>0, <2>2 DEF TypeOK
  <2>3. CASE o = n /\ k = m.key
    <3>1. data'[o] = d /\ settled'[o] = settled[n] \cup {m}
      BY <1>0, <1>2, <2>3 DEF TypeOK
    <3>2. CASE Accepts(data[n], m.key, m.ts)
      <4>1. d[k] = Decode(m)
        BY <1>1, <2>3, <3>2
      <4>2. \A r \in settled[n] : r.key = k => AfterOrEqual(m.ts, r.ts)
        <5> SUFFICES ASSUME NEW r \in settled[n], r.key = k
                     PROVE  AfterOrEqual(m.ts, r.ts)
          OBVIOUS
        <5>1. r.ts \in Timestamp
          BY <1>0 DEF TypeOK, Message
        <5>2. /\ data[n][k] # Missing
              /\ AfterOrEqual(data[n][k].ts, r.ts)
              /\ After(m.ts, data[n][k].ts)
          BY <1>1, <2>0, <2>3, <3>2
        <5>3. data[n][k].ts \in Timestamp
          BY <1>0, <5>2 DEF Map, Value
        <5> QED BY <1>0, <5>1, <5>2, <5>3, CompareIsTotalOrder
      <4>3. AfterOrEqual(m.ts, m.ts)
        BY <1>0, CompareIsTotalOrder
      <4> QED BY <1>3, <2>3, <3>1, <4>1, <4>2, <4>3
    <3>3. CASE ~Accepts(data[n], m.key, m.ts)
      BY <1>1, <2>0, <2>3, <3>1, <3>3
    <3> QED BY <3>2, <3>3
  <2> QED BY <2>1, <2>2, <2>3
<1> QED BY <1>4, <1>5, <1>6

(* Every step keeps the invariant.                                         *)
LEMMA NextInv == Inv /\ [Next]_vars => Inv'
<1> SUFFICES ASSUME Inv, [Next]_vars PROVE Inv'
  OBVIOUS
<1>1. ASSUME NEW c \in Client, NEW k \in Key, NEW x \in Data \cup {Missing},
             NEW now \in Wall, Stamp(c, k, x, now)
      PROVE  Inv'
  BY <1>1, StampInv
<1>2. ASSUME NEW c \in Client, StoreThenReplicate(c) PROVE Inv'
  BY <1>2, StoreInv
<1>3. ASSUME NEW m \in wire, NEW now \in Wall, Serve(m, now) PROVE Inv'
  BY <1>3, ServeInv
<1>4. ASSUME NEW m \in wire, NEW now \in Wall, ServeError(m, now) PROVE Inv'
  BY <1>4, ForgetInv DEF ServeError
<1>5. ASSUME NEW m \in serving, ServeApply(m) PROVE Inv'
  BY <1>5, ApplyInv
<1>6. ASSUME NEW m \in wire, Lose(m) PROVE Inv'
  BY <1>6, ForgetInv DEF Lose
<1>7. CASE UNCHANGED vars
  BY <1>7, ForgetInv DEF vars
<1> QED BY <1>1, <1>2, <1>3, <1>4, <1>5, <1>6, <1>7 DEF Next, Deliver, Rest

(* The invariant holds in every behaviour of eventual mode.                *)
THEOREM EventualInvariant == Spec => []Inv
BY InitInv, NextInv, PTL DEF Spec

(* Type correctness of eventual mode.                                      *)
THEOREM EventualTypeCorrect == Spec => []TypeOK
<1>1. Inv => TypeOK
  BY DEF Inv
<1> QED BY <1>1, EventualInvariant, PTL

(* Clock.Send never gives two writes of one node the same timestamp.       *)
THEOREM StampsAreUnique == Spec => []StampsUnique
<1>1. Inv => StampsUnique
  BY DEF Inv
<1> QED BY <1>1, EventualInvariant, PTL

(* A node that does not write a key itself holds the latest of the writes  *)
(* of that key it has been sent, in whatever order Replicate served them.  *)
THEOREM PassiveReplicaIsLatest == Spec => []PassiveLatest
<1>1. Inv => PassiveLatest
  BY DEF Inv
<1> QED BY <1>1, EventualInvariant, PTL

(* If a step takes a version back, it is the store of a client's own write.*)
RegressesLocally ==
    \A n \in Node, k \in Key :
        data'[n][k] # data[n][k] /\ data[n][k] # Missing =>
            \/ After(data'[n][k].ts, data[n][k].ts)
            \/ \E c \in Client :
                  /\ Home[c] = n
                  /\ call[c] # Idle
                  /\ call[c].key = k
                  /\ data'[n][k].ts = call[c].val.ts

(* Replicate never replaces a version by one that is not newer.            *)
LEMMA NextRegressesLocally == Inv /\ [Next]_vars => [RegressesLocally]_vars
<1> SUFFICES ASSUME Inv, Next PROVE RegressesLocally
  OBVIOUS
<1>1. ASSUME NEW c \in Client, StoreThenReplicate(c) PROVE RegressesLocally
  <2>1. Home[c] \in Node /\ data[Home[c]] \in Map /\ call[c] \in Op /\ call[c] # Idle
    BY <1>1, HomeAssumption DEF Inv, TypeOK, StoreThenReplicate, Map
  <2>2. data' = [data EXCEPT ![Home[c]] = StoreLocally(data[Home[c]], call[c])]
    BY <1>1 DEF StoreThenReplicate
  <2> QED BY <2>1, <2>2, StoreLocallyResult DEF Inv, TypeOK, RegressesLocally
<1>2. ASSUME NEW m \in serving, ServeApply(m) PROVE RegressesLocally
  <2>1. m \in Message /\ m.to \in Node /\ data[m.to] \in Map
    BY DEF Inv, TypeOK, Message, Map
  <2>2. data' = [data EXCEPT ![m.to] = ApplyReplicated(data[m.to], m)]
    BY <1>2 DEF ServeApply
  <2>3. \A k \in Key :
           ApplyReplicated(data[m.to], m)[k] # data[m.to][k] /\ data[m.to][k] # Missing
              => After(ApplyReplicated(data[m.to], m)[k].ts, data[m.to][k].ts)
    BY <2>1, ApplyReplicatedResult, DecodeType
  <2> QED BY <2>1, <2>2, <2>3 DEF Inv, TypeOK, RegressesLocally
<1>3. CASE UNCHANGED data
  BY <1>3 DEF RegressesLocally
<1> QED BY <1>1, <1>2, <1>3
        DEF Next, Deliver, Stamp, Serve, ServeError, Lose, Rest, vars

(* Replicate never replaces a version by one that is not newer; only the   *)
(* unconditional store of a client's own write can.                        *)
THEOREM OnlyLocalWritesRegress == Spec => OnlyLocalWriteRegresses
BY NextRegressesLocally, EventualInvariant, PTL
   DEF Spec, OnlyLocalWriteRegresses, RegressesLocally

----------------------------------------------------------------------------
(* The refinement of LastWriteWins needs to know where things come from.   *)

(* Clocks and stamps have wall parts some node read, and every request     *)
(* under way carries a write of the history.                               *)
Provenance ==
    /\ \A n \in Node : clock[n].wall \in Wall
    /\ \A w \in writes : w.val.ts.wall \in Wall
    /\ \A m \in wire \cup serving : \E w \in writes : Carries(m, w)

(* The initial states have no requests and fresh clocks.                   *)
LEMMA InitProvenance == Init => Provenance
BY DEF Init, Provenance, New

(* Every step keeps the provenance of clocks and requests.                 *)
LEMMA NextProvenance == Inv /\ Provenance /\ [Next]_vars => Provenance'
<1> SUFFICES ASSUME Inv, Provenance, [Next]_vars PROVE Provenance'
  OBVIOUS
<1>1. ASSUME NEW c \in Client, NEW k \in Key, NEW x \in Data \cup {Missing},
             NEW now \in Wall, Stamp(c, k, x, now)
      PROVE  Provenance'
  <2> DEFINE ts == Send(clock[Home[c]], now)
             op == OpFor(k, x, ts, c)
  <2>1. Home[c] \in Node /\ clock[Home[c]] \in Timestamp
    BY HomeAssumption DEF Inv, TypeOK
  <2>2. ts \in Timestamp /\ ts.wall \in Wall
    BY <1>1, <2>1, SendAdvances DEF Stamp, Provenance
  <2>3. op.val.ts = ts
    BY <2>2, OpForType
  <2>4. /\ clock' = [clock EXCEPT ![Home[c]] = ts]
        /\ writes' = writes \cup {op}
        /\ UNCHANGED <<wire, serving>>
    BY <1>1 DEF Stamp
  <2> HIDE DEF ts, op
  <2> QED BY <2>1, <2>2, <2>3, <2>4 DEF Provenance, Inv, TypeOK
<1>2. ASSUME NEW c \in Client, StoreThenReplicate(c) PROVE Provenance'
  <2>1. call[c] \in writes
    BY <1>2 DEF StoreThenReplicate, Inv, CallsAreWrites
  <2>2. /\ wire' = wire \cup Broadcast(call[c], {})
        /\ UNCHANGED <<clock, serving, writes>>
    BY <1>2 DEF StoreThenReplicate
  <2> QED BY <2>1, <2>2, BroadcastCarries DEF Provenance
<1>3. ASSUME NEW m \in wire, NEW now \in Wall, Serve(m, now) PROVE Provenance'
  <2>1. m.to \in Node /\ m.ts \in Timestamp /\ clock[m.to] \in Timestamp
    BY DEF Inv, TypeOK, Message
  <2>2. m.ts.wall \in Wall
    BY DEF Provenance, Carries
  <2>3. Receive(clock[m.to], m.ts, now).wall \in Wall
    BY <1>3, <2>1, <2>2, ReceiveAdvances DEF Serve, Provenance
  <2>4. \A n \in Node : clock'[n].wall \in Wall
    BY <1>3, <2>1, <2>3 DEF Serve, Provenance, Inv, TypeOK
  <2> QED BY <1>3, <2>4 DEF Serve, Provenance
<1>4. CASE /\ wire' \subseteq wire /\ serving' \subseteq serving
           /\ UNCHANGED <<clock, writes>>
  BY <1>4 DEF Provenance
<1> QED BY <1>1, <1>2, <1>3, <1>4
        DEF Next, Deliver, ServeError, ServeApply, Lose, Rest, vars

(* Where clocks, stamps and requests come from, in every behaviour.        *)
THEOREM EventualProvenance == Spec => []Provenance
BY EventualInvariant, InitProvenance, NextProvenance, PTL DEF Spec

(* A stamp issues a write with a fresh timestamp, an accepted request      *)
(* installs a later one, and nothing else is seen of a reader.             *)
LEMMA NextIsLastWriteWins ==
    Inv /\ Provenance /\ [Next]_vars => [LWW!Next]_(LWW!lwwVars)
<1> SUFFICES ASSUME Inv, Provenance, [Next]_vars
             PROVE  LWW!Next \/ UNCHANGED LWW!lwwVars
  OBVIOUS
<1> USE DEF Inv
<1>1. ASSUME NEW c \in Client, NEW k \in Key, NEW x \in Data \cup {Missing},
             NEW now \in Wall, Stamp(c, k, x, now)
      PROVE  LWW!Next
  <2> DEFINE n == Home[c]
             ts == Send(clock[n], now)
  <2>1. n \in Node /\ clock[n] \in Timestamp /\ clock[n].wall \in Wall
    BY HomeAssumption DEF TypeOK, Provenance
  <2>2. ts \in Timestamp /\ After(ts, clock[n]) /\ ts.wall \in Wall
    BY <1>1, <2>1, SendAdvances DEF Stamp
  <2>3. \A v \in writes : Home[v.val.by] = n => v.val.ts # ts
    <3> SUFFICES ASSUME NEW v \in writes, Home[v.val.by] = n
                 PROVE  v.val.ts # ts
      OBVIOUS
    <3>1. v.val.ts \in Timestamp /\ AfterOrEqual(clock[n], v.val.ts)
      BY DEF TypeOK, Op, Value, StampsUnique
    <3> QED BY <2>1, <2>2, <3>1, CompareIsTotalOrder
  <2>4. writes' = writes \cup {OpFor(k, x, ts, c)} /\ data' = data
    BY <1>1 DEF Stamp
  <2>5. ts \in [wall : Wall, logical : 0 .. MaxLogical]
    BY <2>2 DEF Timestamp
  <2> HIDE DEF ts
  <2>6. OpFor(k, x, ts, c) = LWW!OpFor(k, x, ts, c)
    BY DEF OpFor, LWW!OpFor, PutValue, LWW!PutValue, Tombstone, LWW!Tombstone
  <2>7. LWW!Issue(c, k, x, ts)
    BY <2>3, <2>4, <2>6 DEF LWW!Issue
  <2> QED BY <2>5, <2>7 DEF LWW!Next
<1>2. ASSUME NEW c \in Client, StoreThenReplicate(c)
      PROVE  UNCHANGED LWW!lwwVars
  <2>1. \A r \in Readers : data'[r] = data[r]
    BY <1>2, HomeAssumption DEF StoreThenReplicate, Readers, TypeOK
  <2> QED BY <1>2, <2>1 DEF StoreThenReplicate, LWW!lwwVars
<1>3. ASSUME NEW m \in serving, ServeApply(m)
      PROVE  LWW!Next \/ UNCHANGED LWW!lwwVars
  <2> DEFINE n == m.to
             d == ApplyReplicated(data[n], m)
  <2>1. m \in Message /\ n \in Node /\ m.key \in Key /\ data[n] \in Map
    BY DEF TypeOK, Message, Map
  <2>2. data' = [data EXCEPT ![n] = d] /\ writes' = writes
    BY <1>3 DEF ServeApply
  <2>3. /\ d \in Map
        /\ \A k \in Key : k # m.key => d[k] = data[n][k]
        /\ Accepts(data[n], m.key, m.ts) =>
              /\ d[m.key] = Decode(m)
              /\ data[n][m.key] # Missing => After(m.ts, data[n][m.key].ts)
        /\ ~Accepts(data[n], m.key, m.ts) => d = data[n]
    BY <2>1, ApplyReplicatedResult
  <2> HIDE DEF d
  <2>4. CASE n \notin Readers \/ ~Accepts(data[n], m.key, m.ts)
    <3>1. \A r \in Readers : data'[r] = data[r]
      BY <2>1, <2>2, <2>3, <2>4 DEF Readers, TypeOK
    <3> QED BY <2>2, <3>1 DEF LWW!lwwVars
  <2>5. CASE n \in Readers /\ Accepts(data[n], m.key, m.ts)
    <3>1. PICK w \in writes : Carries(m, w)
      BY DEF Provenance
    <3>2. w.val \in Value
      BY DEF TypeOK, Op
    <3>3. [w.val EXCEPT !.deleted = w.val.data = Empty] = Decode(m)
      BY <3>1, <3>2 DEF Carries, Decode, Value
    <3>4. d = [data[n] EXCEPT ![w.key] = Decode(m)]
      BY <2>1, <2>3, <2>5, <3>1 DEF Map, Carries
    <3>5. data[n][w.key] # Missing => LWW!After(w.val.ts, data[n][w.key].ts)
      BY <2>3, <2>5, <3>1
         DEF Carries, After, Compare, LWW!After, LWW!Compare
    <3>6. [r \in Readers |-> data'[r]] =
             [[r \in Readers |-> data[r]] EXCEPT ![n][w.key] = Decode(m)]
      BY <2>1, <2>2, <2>5, <3>4 DEF Readers, TypeOK
    <3>7. LWW!Install(n, w)
      BY <2>2, <2>5, <3>3, <3>5, <3>6 DEF LWW!Install
    <3>8. n \in LWW!Reader
      BY <2>5 DEF Readers, LWW!Reader
    <3> QED BY <3>7, <3>8 DEF LWW!Next
  <2> QED BY <2>4, <2>5
<1>4. CASE UNCHANGED <<data, writes>>
  BY <1>4 DEF LWW!lwwVars
<1> QED BY <1>1, <1>2, <1>3, <1>4
        DEF Next, Deliver, Serve, ServeError, Lose, Rest, vars

(* A fresh cluster is an empty register.                                   *)
LEMMA InitIsLastWriteWins == Init => LWW!Init
BY DEF Init, LWW!Init, Readers, LWW!Reader, NewStore, LWW!NewStore

(* Eventual mode implements the last-write-wins register at the nodes      *)
(* without clients: a stamp issues a write with a fresh timestamp, an      *)
(* accepted request installs a later one, and nothing else is seen.        *)
THEOREM EventualIsLastWriteWins == Spec => ImplementsLastWriteWins
BY InitIsLastWriteWins, NextIsLastWriteWins, EventualInvariant, EventualProvenance,
   PTL DEF Spec, ImplementsLastWriteWins, LWW!Spec

----------------------------------------------------------------------------
(* Nodes that are stopped.  A process that ends, and a server that refuses,*)
(* take requests off the wire; everything else is a step of the cluster.   *)

(* Requests are forgotten, and nothing else happens.                       *)
Forget ==
    wire' \subseteq wire /\ UNCHANGED <<clock, data, call, serving, writes, settled>>

(* What a step of a cluster of processes is to the cluster.                *)
LEMMA ProcessStep == [ProcNext]_procVars => [Next]_vars \/ Forget
<1> SUFFICES ASSUME [ProcNext]_procVars PROVE [Next]_vars \/ Forget
  OBVIOUS
<1>1. CASE ClientStep
  BY <1>1 DEF ClientStep, Next
<1>2. ASSUME NEW c \in Client, Finish(c) PROVE Next
  BY <1>2 DEF Finish, Next
<1>3. CASE ProcDeliver
  BY <1>3 DEF ProcDeliver, Refuse, Next, Deliver, Forget
<1>4. ASSUME NEW n \in Node, Interrupt(n) PROVE UNCHANGED vars
  BY <1>4 DEF Interrupt
<1>5. ASSUME NEW n \in Node, Exit(n) PROVE Forget
  BY <1>5 DEF Exit, Forget
<1>6. CASE Rest \/ UNCHANGED procVars
  BY <1>6 DEF Rest, procVars
<1> QED BY <1>1, <1>2, <1>3, <1>4, <1>5, <1>6 DEF ProcNext, Shutdown

(* Stopping nodes keeps the invariant and the provenance.                  *)
THEOREM ProcessInvariant == ProcSpec => [](Inv /\ Provenance)
<1>1. ProcInit => Inv /\ Provenance
  BY InitInv, InitProvenance DEF ProcInit
<1>2. Inv /\ Provenance /\ Forget => (Inv /\ Provenance)'
  <2> SUFFICES ASSUME Inv, Provenance, Forget PROVE Inv' /\ Provenance'
    OBVIOUS
  <2>1. Inv'
    BY ForgetInv DEF Forget
  <2>2. Provenance'
    BY DEF Forget, Provenance
  <2> QED BY <2>1, <2>2
<1>3. Inv /\ Provenance /\ [ProcNext]_procVars => (Inv /\ Provenance)'
  BY <1>2, ProcessStep, NextInv, NextProvenance
<1> QED BY <1>1, <1>3, PTL DEF ProcSpec

(* With nodes that stop at any time, no node gives a timestamp twice.      *)
THEOREM StoppedStampsAreUnique == ProcSpec => []StampsUnique
<1>1. Inv => StampsUnique
  BY DEF Inv
<1> QED BY <1>1, ProcessInvariant, PTL

(* With nodes that stop at any time, a node that does not write a key      *)
(* itself still holds the latest of the writes it has been sent.           *)
THEOREM StoppedReplicaIsLatest == ProcSpec => []PassiveLatest
<1>1. Inv => PassiveLatest
  BY DEF Inv
<1> QED BY <1>1, ProcessInvariant, PTL

(* A process that ends takes no version back.                              *)
THEOREM StoppedOnlyLocalWritesRegress == ProcSpec => OnlyLocalWriteRegresses
<1>1. Forget => [RegressesLocally]_vars
  BY DEF Forget, RegressesLocally
<1>2. Inv /\ [ProcNext]_procVars => [RegressesLocally]_vars
  BY <1>1, ProcessStep, NextRegressesLocally
<1> QED BY <1>2, ProcessInvariant, PTL
        DEF ProcSpec, OnlyLocalWriteRegresses, RegressesLocally

(* Nodes that stop, and the requests they take along, are not seen by a    *)
(* node without clients but as writes that never come.                     *)
THEOREM StoppedIsLastWriteWins == ProcSpec => ImplementsLastWriteWins
<1>1. ProcInit => LWW!Init
  BY InitIsLastWriteWins DEF ProcInit
<1>2. Forget => UNCHANGED LWW!lwwVars
  BY DEF Forget, LWW!lwwVars
<1>3. Inv /\ Provenance /\ [ProcNext]_procVars => [LWW!Next]_(LWW!lwwVars)
  BY <1>2, ProcessStep, NextIsLastWriteWins
<1> QED BY <1>1, <1>3, ProcessInvariant, PTL
        DEF ProcSpec, ImplementsLastWriteWins, LWW!Spec
============================================================================
